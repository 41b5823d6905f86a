-------------------------- MODULE Verifier_proofs --------------------------
(***************************************************************************)
(* Proofs about what the verifiers conclude.  The inductive invariant Inv  *)
(* says of every exchange what is on its way: for a single Redis command   *)
(* that the answer read so far and the answer still on the wire make one   *)
(* whole reply, for the pipelined ones how many of them have been served.  *)
(* The parser of RespFrame is shown to be well defined, by induction over  *)
(* the length of the buffer, and to tell every reply from its beginnings.  *)
(***************************************************************************)
EXTENDS Verifier, SequenceTheorems, FiniteSetTheorems, WellFoundedInduction, TLAPS

-----------------------------------------------------------------------------
(* The inductive invariant.                                                *)

\* every answer to one command that a server may give here
Replies ==
    {Ok, Line("+", "PONG"), Failure, Number("0"), Number("1"), Number("2"), Nil,
     Bulk(<<"e">>), Bulk(<<"v">>), Bulk(<<"cr", "lf">>),
     Array(0, <<>>), Array(2, Nil \o Array(1, Ok))}

Exchanging == phase \in {"send", "read"}

\* the number a result carries: two arms of dns.rs carry each other's
NumberFits(i) ==
    \/ results[i].stage = i
    \/ task = "dns" /\ i \in {2, 3} /\ ~results[i].passed /\ results[i].stage = 5 - i

\* execute is in one place, and has a result for every stage behind it
OrderInv ==
    /\ task \in {"redis", "http", "dns"}
    /\ disqualified \in BOOLEAN /\ honest \in BOOLEAN /\ prompt \in BOOLEAN
    /\ phase \in {"comply", "start", "wait", "connect", "send", "read", "verified", "done"}
    /\ results \in Seq([stage : Nat, passed : BOOLEAN])
    /\ stage \in 1..(TotalStages + 1)
    /\ phase \in {"comply", "start", "wait"} => stage = 1
    /\ phase \in {"connect", "send", "read"} => stage <= TotalStages
    /\ disqualified => phase = "done" /\ results = <<[stage |-> 0, passed |-> FALSE]>>
    /\ ~disqualified => Len(results) = stage - 1 /\ \A i \in DOMAIN results : NumberFits(i)
    /\ phase = "read" => task = "redis"

\* what the keys of stage s hold before its command n, if the server has kept them
Kept(s, values, n) ==
    /\ s = 2 => /\ n \in 2..4 => values["k"] = "v"
                /\ n \in 5..6 => values["k"] = "none"
    /\ s = 3 => (n > 1 => values["ttl"] = "v")
    /\ s = 4 => /\ values["cnt"] = IF n = 1 THEN "none" ELSE IF n = 3 THEN "2" ELSE "1"
                /\ n = 5 => values["str"] = "word"

\* command n has been answered rightly, or nobody asked
Proved(n) == (stage = 4 /\ n = 4) \/ <<n, "value">> \in proven

\* the key of stage 3 still lives when a prompt client asks for it
Lives == stage = 3 /\ step = 2 /\ prompt => life >= 2

Idle == asked = <<>> /\ wire = <<>> /\ buf = <<>>

\* the three places of a single command: the server has not served it,
Unanswered ==
    /\ open /\ asked = <<step>> /\ wire = <<>> /\ buf = <<>>
    /\ Kept(stage, store, step) /\ Lives
    /\ stage = 3 /\ step = 3 => life = 0

\* the server hung up before it did,
Unanswerable == ~open /\ Idle

\* or its answer is a whole reply of which the client has read a part
Answered ==
    /\ asked = <<>> /\ buf \in Seq(Tokens) /\ wire \in Seq(Tokens)
    /\ buf \o wire \in Replies
    /\ open => Kept(stage, store, step + 1)
    /\ stage = 3 /\ step = 1 => life + waited >= 3
    /\ X.judge # "ignore" /\ Accepts(X, buf \o wire) => <<step, "value">> \in proven
    /\ honest /\ prompt => Accepts(X, buf \o wire)

SingleInv == Unanswered \/ Unanswerable \/ Answered

\* how much is written when k of the pipelined commands have been served
PipeLength == <<0, 4, 8, 15, 22>>

\* k of the pipelined commands have been served, if rightly with these answers
Piped(k) ==
    /\ asked = [i \in 1..(4 - k) |-> 6 + k + i]
    /\ k >= 1 => store["p1"] = "v1"
    /\ k >= 2 => store["p2"] = "v2"
    /\ honest => /\ Len(buf \o wire) = PipeLength[k + 1]
                 /\ k >= 1 => (buf \o wire)[2] = "OK"
                 /\ k >= 3 => (buf \o wire)[13] = "v1"

PipeInv ==
    /\ buf \in Seq(Tokens) /\ wire \in Seq(Tokens)
    /\ Contains(buf \o wire, "v1") => <<9, "value">> \in proven
    /\ open => \E k \in 0..4 : Piped(k)
    /\ ~open => asked = <<>>

\* the command is not the first of the pipelined ones
Single == ~(stage = 2 /\ step = 7)

RedisTypeInv ==
    /\ stage \in 1..4
    /\ step \in 1..(IF stage = 1 THEN 2 ELSE IF stage = 2 THEN 7 ELSE IF stage = 3 THEN 3 ELSE 5)
    /\ store = [k \in Keys |-> store[k]]
    /\ stage = 3 => life \in 0..Ttl
    /\ waited \in Nat
    /\ open \in BOOLEAN /\ late \in BOOLEAN

\* one exchange of redis.rs
RedisInv ==
    /\ RedisTypeInv
    /\ honest => open
    /\ late => stage = 4 /\ step = 5 /\ ~(honest /\ prompt)
    /\ \A n \in 1..(step - 1) : Proved(n)
    /\ phase = "send" => waited = 0
    /\ phase = "send" /\ ~late => Idle /\ (open => Kept(stage, store, step)) /\ Lives
    /\ phase = "read" /\ ~late => (Single => SingleInv) /\ (~Single => PipeInv)

\* one exchange of http.rs
HttpInv ==
    /\ phase = "send"
    /\ stage \in 1..5 /\ step \in 1..(IF stage = 5 THEN 4 ELSE 1)
    /\ \A s \in 1..(step - 1) : \A a \in Aspects(s) : <<s, a>> \in proven \cup HttpLenient

ExchangeInv ==
    Exchanging => \/ task = "redis" /\ RedisInv
                  \/ task = "http" /\ HttpInv
                  \/ task = "dns" /\ phase = "send" /\ step = 1

\* the results are in order and earned, and good if the candidate was
ResultsInv ==
    /\ OrderInv
    /\ unearned = {}
    /\ honest /\ prompt /\ ~disqualified => \A i \in DOMAIN results : results[i].passed

Inv == ResultsInv /\ ExchangeInv

-----------------------------------------------------------------------------
(* Natural numbers: the least element of a set *)

\* a set of numbers that is not empty has a least element
LEMMA Least ==
    ASSUME NEW S \in SUBSET Nat, S # {}
    PROVE  \E m \in S : \A k \in S : m <= k
<1>1. PICK m \in S : \A y \in S : ~ (<<y, m>> \in OpToRel(<, Nat))
  BY NatLessThanWellFounded, WFMin
<1>2. \A y \in S : ~(y < m)
  BY <1>1 DEF OpToRel
<1> QED
  BY <1>2

-----------------------------------------------------------------------------
(* The parser is well defined: it calls itself on shorter buffers only.    *)

Buffers == Seq(Tokens)
Below(n) == {b \in Buffers : Len(b) < n}

\* f is a parser of the buffers of a set
Parses(f, S) == /\ \A b \in S : f[b] \in Nat
                /\ \A b \in S : f[b] = Frame(f, b)

\* LineEnd yields a position
LEMMA LineEndIsNat == \A b \in Buffers : LineEnd(b) \in Nat
<1> SUFFICES ASSUME NEW b \in Buffers PROVE LineEnd(b) \in Nat
  OBVIOUS
<1> DEFINE ends == {i \in 1..(Len(b) - 1) : b[i] = "cr" /\ b[i + 1] = "lf"}
<1>1. CASE ends = {}
  BY <1>1 DEF LineEnd
<1>2. CASE ends # {}
  <2>1. ends \in SUBSET Nat
    BY DEF Buffers
  <2>2. PICK m \in ends : \A k \in ends : m <= k
    BY <1>2, <2>1, Least
  <2>3. (CHOOSE i \in ends : \A j \in ends : i <= j) \in ends
    BY <2>2
  <2> QED
    BY <1>2, <2>1, <2>3 DEF LineEnd
<1> QED
  BY <1>1, <1>2

\* what After hands to the parser is shorter than the buffer
LEMMA RestIsShorter ==
    ASSUME NEW b \in Buffers, NEW n \in Nat, n # 0, n < Len(b)
    PROVE  SubSeq(b, n + 1, Len(b)) \in Below(Len(b))
  BY DEF Buffers, Below

\* After asks the parser about shorter buffers only
LEMMA AfterIsLocal ==
    ASSUME NEW b \in Buffers, NEW f, NEW g, NEW n \in Nat,
           \A c \in Below(Len(b)) : f[c] \in Nat /\ g[c] = f[c]
    PROVE  After(f, b, n) = After(g, b, n) /\ After(f, b, n) \in Nat
<1>1. CASE n = 0 \/ n >= Len(b)
  BY <1>1 DEF After
<1>2. CASE n # 0 /\ ~(n >= Len(b))
  <2>1. n < Len(b) /\ Len(b) \in Nat
    BY <1>2 DEF Buffers
  <2>2. SubSeq(b, n + 1, Len(b)) \in Below(Len(b))
    BY <1>2, <2>1, RestIsShorter
  <2> HIDE DEF Below
  <2> QED
    BY <1>2, <2>2 DEF After
<1> QED
  BY <1>1, <1>2

\* and so does Frame
LEMMA FrameIsLocal ==
    ASSUME NEW b \in Buffers, NEW f, NEW g,
           \A c \in Below(Len(b)) : f[c] \in Nat /\ g[c] = f[c]
    PROVE  Frame(f, b) = Frame(g, b) /\ Frame(f, b) \in Nat
<1> DEFINE eol    == LineEnd(b)
           header == SubSeq(b, 2, eol - 1)
           size   == Size[header[1]]
<1>1. eol \in Nat /\ Len(b) \in Nat
  BY LineEndIsNat DEF Buffers
<1>2. /\ After(f, b, eol + 1) = After(g, b, eol + 1)
      /\ After(f, b, eol + 1) \in Nat
  BY <1>1, AfterIsLocal
<1>3. /\ After(f, b, After(f, b, eol + 1)) = After(g, b, After(g, b, eol + 1))
      /\ After(f, b, After(f, b, eol + 1)) \in Nat
  BY <1>2, AfterIsLocal
<1> HIDE DEF eol, header, size
<1>4. ASSUME header \in {<<d>> : d \in DOMAIN Size} PROVE size \in Nat
  <2>1. PICK d \in DOMAIN Size : header = <<d>>
    BY <1>4
  <2>2. d \in {"0", "1", "2"} /\ header[1] = d
    BY <2>1 DEF Size
  <2> QED
    BY <2>2 DEF size, Size
<1> DEFINE known  == header \in {<<d>> : d \in DOMAIN Size}
           string == eol + 1 + size + 2
           simple == b[1] \notin {"$", "*"} \/ header = <<"-1">>
           Result(e, a, aa) ==
               IF e = 0 THEN 0
               ELSE IF simple THEN e + 1
               ELSE IF ~known THEN 0
               ELSE IF b[1] = "$" THEN (IF Len(b) >= string THEN string ELSE 0)
               ELSE IF size = 0 THEN e + 1
               ELSE IF size = 1 THEN a ELSE aa
<1>5. \A p : Frame(p, b) = Result(eol, After(p, b, eol + 1), After(p, b, After(p, b, eol + 1)))
  BY DEF Frame, eol, header, size
<1>6. known => string \in Nat
  BY <1>1, <1>4
<1> HIDE DEF known, string, simple
<1>7. \A a, aa \in Nat : Result(eol, a, aa) \in Nat
  BY <1>1, <1>6
<1> HIDE DEF Result
<1> QED
  BY <1>2, <1>3, <1>5, <1>7

\* below every length there is a parser
LEMMA ParserBelow ==
    ASSUME NEW n \in Nat
    PROVE  \E f : Parses(f, Below(n))
<1> DEFINE Without == {m \in Nat : ~ \E f : Parses(f, Below(m))}
<1> SUFFICES ASSUME Without # {} PROVE FALSE
  OBVIOUS
<1>1. PICK m \in Without : \A k \in Without : m <= k
  BY Least
<1>2. \E f : Parses(f, Below(0))
  <2>1. Below(0) = {}
    BY DEF Below, Buffers
  <2> QED
    BY <2>1 DEF Parses
<1>3. m # 0 /\ m - 1 \in Nat /\ m - 1 \notin Without
  BY <1>1, <1>2
<1>4. PICK f : Parses(f, Below(m - 1))
  BY <1>3
<1> DEFINE g == [b \in Below(m) |-> IF Len(b) < m - 1 THEN f[b] ELSE Frame(f, b)]
<1>5. \A b \in Below(m - 1) : b \in Below(m) /\ g[b] = f[b] /\ f[b] \in Nat
  BY <1>3, <1>4 DEF Below, Parses, Buffers
<1>6. ASSUME NEW b \in Below(m)
      PROVE  g[b] \in Nat /\ g[b] = Frame(g, b)
  <2>1. b \in Buffers /\ Len(b) \in Nat /\ Len(b) < m
    BY DEF Below, Buffers
  <2>2. Below(Len(b)) \subseteq Below(m - 1)
    BY <1>3, <2>1 DEF Below, Buffers
  <2>3. Frame(f, b) = Frame(g, b) /\ Frame(f, b) \in Nat
    <3> HIDE DEF g
    <3> QED
      BY <1>5, <2>1, <2>2, FrameIsLocal
  <2>4. g[b] = Frame(f, b)
    <3>1. CASE Len(b) < m - 1
      <4>1. b \in Below(m - 1)
        BY <2>1, <3>1 DEF Below
      <4> QED
        BY <1>4, <1>5, <4>1 DEF Parses
    <3>2. CASE ~(Len(b) < m - 1)
      BY <3>2
    <3> QED
      BY <3>1, <3>2
  <2> QED
    BY <2>3, <2>4
<1>7. Parses(g, Below(m))
  <2> HIDE DEF g
  <2> QED
    BY <1>6 DEF Parses
<1> QED
  BY <1>1, <1>7

\* and only one
LEMMA ParsersAgree ==
    ASSUME NEW m \in Nat, NEW n \in Nat, m <= n,
           NEW f, NEW g, Parses(f, Below(m)), Parses(g, Below(n))
    PROVE  \A b \in Below(m) : f[b] = g[b]
<1> DEFINE Differ == {k \in Nat : \E b \in Below(m) : Len(b) = k /\ f[b] # g[b]}
<1> SUFFICES ASSUME Differ # {} PROVE FALSE
  BY DEF Below, Buffers
<1>1. PICK k \in Differ : \A j \in Differ : k <= j
  BY Least
<1>2. PICK b \in Below(m) : Len(b) = k /\ f[b] # g[b]
  BY <1>1
<1>3. b \in Buffers /\ Len(b) \in Nat /\ b \in Below(n)
  BY DEF Below, Buffers
<1>4. ASSUME NEW c \in Below(Len(b))
      PROVE  f[c] \in Nat /\ g[c] = f[c]
  <2>1. c \in Below(m) /\ Len(c) \in Nat /\ Len(c) < k
    BY <1>2, <1>3 DEF Below, Buffers
  <2>2. Len(c) \notin Differ
    BY <1>1, <2>1
  <2> QED
    BY <2>1, <2>2 DEF Parses
<1>5. Frame(f, b) = Frame(g, b)
  BY <1>3, <1>4, FrameIsLocal
<1> QED
  BY <1>2, <1>3, <1>5 DEF Parses

(* parse_resp_frame answers for every buffer, by what Frame says: it calls *)
(* itself on shorter buffers only.                                         *)
THEOREM ParserIsDefined ==
    /\ FrameLength \in [Buffers -> Nat]
    /\ \A b \in Buffers : FrameLength[b] = Frame(FrameLength, b)
<1> DEFINE G(n) == CHOOSE f : Parses(f, Below(n))
           h    == [b \in Buffers |-> G(Len(b) + 1)[b]]
<1>1. \A n \in Nat : Parses(G(n), Below(n))
  BY ParserBelow
<1> HIDE DEF G
<1>2. \A b \in Buffers : Len(b) \in Nat /\ Len(b) + 1 \in Nat /\ b \in Below(Len(b) + 1)
  BY DEF Below, Buffers
<1>3. ASSUME NEW b \in Buffers
      PROVE  h[b] \in Nat /\ h[b] = Frame(h, b)
  <2> DEFINE f == G(Len(b) + 1)
  <2>1. h[b] = f[b] /\ f[b] \in Nat /\ f[b] = Frame(f, b)
    BY <1>1, <1>2 DEF Parses
  <2>2. ASSUME NEW c \in Below(Len(b))
        PROVE  f[c] \in Nat /\ h[c] = f[c]
    <3>1. /\ c \in Buffers /\ Len(c) \in Nat /\ Len(c) < Len(b) /\ c \in Below(Len(b) + 1)
          /\ c \in Below(Len(c) + 1)
      BY <1>2 DEF Below
    <3>2. Parses(f, Below(Len(b) + 1)) /\ Parses(G(Len(c) + 1), Below(Len(c) + 1))
      BY <1>1, <1>2, <3>1
    <3>3. G(Len(c) + 1)[c] = f[c]
      <4>1. Len(c) + 1 <= Len(b) + 1
        BY <1>2, <3>1
      <4> HIDE DEF f
      <4> QED
        BY <1>2, <3>1, <3>2, <4>1, ParsersAgree
    <3> QED
      BY <3>1, <3>2, <3>3 DEF Parses
  <2>3. Frame(f, b) = Frame(h, b)
    <3> HIDE DEF f, h
    <3> QED
      BY <2>2, FrameIsLocal
  <2> QED
    BY <2>1, <2>3
<1>4. h = [b \in Buffers |-> Frame(h, b)]
  BY <1>3
<1>5. FrameLength = [b \in Buffers |-> Frame(FrameLength, b)]
  <2> HIDE DEF h
  <2> QED
    BY <1>4 DEF FrameLength, Buffers
<1>6. \A b \in Buffers : FrameLength[b] = Frame(FrameLength, b)
  BY <1>5
<1>7. ASSUME NEW b \in Buffers, FrameLength[b] \notin Nat
      PROVE  FALSE
  <2> DEFINE Wrong == {k \in Nat : \E c \in Buffers : Len(c) = k /\ FrameLength[c] \notin Nat}
  <2>1. Wrong # {}
    BY <1>2, <1>7
  <2>2. PICK k \in Wrong : \A j \in Wrong : k <= j
    BY <2>1, Least
  <2>3. PICK c \in Buffers : Len(c) = k /\ FrameLength[c] \notin Nat
    BY <2>2
  <2>4. \A d \in Below(Len(c)) : FrameLength[d] \in Nat
    BY <1>2, <2>2, <2>3 DEF Below
  <2>5. Frame(FrameLength, c) \in Nat
    BY <2>4, FrameIsLocal
  <2> QED
    BY <1>6, <2>3, <2>5
<1> QED
  BY <1>5, <1>6, <1>7

-----------------------------------------------------------------------------
(* The parser on the replies of a server                                   *)

\* the beginning of a reply: its first two tokens, then a line end
Headed(b) ==
    /\ b \in Buffers
    /\ Len(b) >= 1 => b[1] # "cr"
    /\ Len(b) >= 2 => b[2] # "cr"
    /\ Len(b) >= 3 => b[3] = "cr"
    /\ Len(b) >= 4 => b[4] = "lf"

\* the first line end of a frame whose header is one token
LEMMA HeaderEnd ==
    ASSUME NEW b, Headed(b)
    PROVE  /\ Len(b) < 4 => LineEnd(b) = 0
           /\ Len(b) >= 4 => LineEnd(b) = 3 /\ SubSeq(b, 2, 2) = <<b[2]>>
<1> DEFINE ends == {i \in 1..(Len(b) - 1) : b[i] = "cr" /\ b[i + 1] = "lf"}
<1>1. b \in Seq(Tokens) /\ Len(b) \in Nat
  BY DEF Headed, Buffers
<1>2. ASSUME Len(b) < 4 PROVE LineEnd(b) = 0
  <2>1. ends = {}
    BY <1>1, <1>2 DEF Headed
  <2> QED
    BY <2>1 DEF LineEnd
<1>3. ASSUME Len(b) >= 4 PROVE LineEnd(b) = 3
  <2>1. 3 \in 1..(Len(b) - 1) /\ b[3] = "cr" /\ b[3 + 1] = "lf"
    BY <1>1, <1>3 DEF Headed
  <2>2. b[1] # "cr" /\ b[2] # "cr"
    BY <1>1, <1>3 DEF Headed
  <2>3. \A i \in 1..(Len(b) - 1) : i = 1 \/ i = 2 \/ 3 <= i
    BY <1>1
  <2>4. 3 \in ends /\ \A i \in ends : 3 <= i
    BY <2>1, <2>2, <2>3
  <2>5. (CHOOSE i \in ends : \A j \in ends : i <= j) = 3
    <3>1. \A i \in ends : i \in Nat
      BY <1>1
    <3> HIDE DEF ends
    <3>2. \A i \in ends : (\A j \in ends : i <= j) => i = 3
      BY <2>4, <3>1
    <3> QED
      BY <2>4, <3>2
  <2>6. ends # {}
    BY <2>4
  <2> QED
    BY <2>5, <2>6 DEF LineEnd
<1>4. ASSUME Len(b) >= 4 PROVE SubSeq(b, 2, 2) = <<b[2]>>
  <2>1. 2 \in 1..Len(b)
    BY <1>1, <1>4
  <2>2. SubSeq(b, 2, 2) = <<b[2]>> \o SubSeq(b, 3, 2)
    BY <1>1, <2>1, SubSeqRecursiveFirst
  <2>3. SubSeq(b, 3, 2) = <<>>
    BY SubSeqEmpty
  <2>4. b[2] \in Tokens /\ <<b[2]>> \in Seq(Tokens)
    BY <1>1, <2>1, ElementOfSeq
  <2> QED
    BY <2>2, <2>3, <2>4, ConcatEmptySeq
<1> QED
  BY <1>2, <1>3, <1>4

\* what Frame says of a buffer that begins with such a header
LEMMA HeadedLength ==
    ASSUME NEW b, Headed(b)
    PROVE  /\ Len(b) < 4 => FrameLength[b] = 0
           /\ Len(b) >= 4 => FrameLength[b] =
                 IF b[1] \notin {"$", "*"} \/ b[2] = "-1" THEN 4
                 ELSE IF b[2] \notin DOMAIN Size THEN 0
                 ELSE IF b[1] = "$" THEN (IF Len(b) >= 6 + Size[b[2]] THEN 6 + Size[b[2]] ELSE 0)
                 ELSE IF Size[b[2]] = 0 THEN 4
                 ELSE IF Size[b[2]] = 1 THEN After(FrameLength, b, 4)
                 ELSE After(FrameLength, b, After(FrameLength, b, 4))
<1>1. FrameLength[b] = Frame(FrameLength, b)
  BY ParserIsDefined DEF Headed
<1>2. CASE Len(b) < 4
  BY <1>1, <1>2, HeaderEnd DEF Frame
<1>3. CASE ~(Len(b) < 4)
  <2>1. Len(b) >= 4 /\ Len(b) \in Nat
    BY <1>3 DEF Headed, Buffers
  <2>2. LineEnd(b) = 3 /\ SubSeq(b, 2, 3 - 1) = <<b[2]>>
    BY <2>1, HeaderEnd
  <2> DEFINE h == <<b[2]>>
  <2>3. /\ h[1] = b[2] /\ (h = <<"-1">> <=> b[2] = "-1")
        /\ h \in {<<d>> : d \in DOMAIN Size} <=> b[2] \in DOMAIN Size
    OBVIOUS
  <2>4. b[2] \in DOMAIN Size => Size[b[2]] \in Nat
    BY DEF Size
  <2>5. 3 + 1 = 4 /\ \A n \in Nat : 4 + n + 2 = 6 + n
    OBVIOUS
  <2> HIDE DEF h
  <2>6. SubSeq(b, 2, 3 - 1) = h
    BY <2>2 DEF h
  <2> QED
    BY <1>1, <1>3, <2>1, <2>2, <2>3, <2>4, <2>5, <2>6 DEF Frame
<1> QED
  BY <1>2, <1>3

\* a buffer without a whole header holds no frame
LEMMA ShortLength ==
    ASSUME NEW b, Headed(b), Len(b) < 4
    PROVE  FrameLength[b] = 0
  BY HeadedLength

\* a line is a frame
LEMMA PlainLength ==
    ASSUME NEW b, Headed(b), Len(b) >= 4,
           b[1] \notin {"$", "*"} \/ b[2] = "-1" \/ (b[1] = "*" /\ b[2] = "0")
    PROVE  FrameLength[b] = 4
<1>1. "0" \in DOMAIN Size /\ Size["0"] = 0
  BY DEF Size
<1> QED
  BY <1>1, HeadedLength

\* a string is whole when its bytes and the line end behind them are there
LEMMA BulkLength ==
    ASSUME NEW b, Headed(b), Len(b) >= 4, b[1] = "$", b[2] \in DOMAIN Size
    PROVE  FrameLength[b] = IF Len(b) >= 6 + Size[b[2]] THEN 6 + Size[b[2]] ELSE 0
<1>1. b[2] # "-1"
  BY DEF Size
<1> QED
  BY <1>1, HeadedLength

\* an array is whole when its elements are
LEMMA ArrayLength ==
    ASSUME NEW b, Headed(b), Len(b) >= 4, b[1] = "*", b[2] \in {"1", "2"}
    PROVE  FrameLength[b] = IF b[2] = "1" THEN After(FrameLength, b, 4)
                            ELSE After(FrameLength, b, After(FrameLength, b, 4))
<1>1. b[2] # "-1" /\ b[2] \in DOMAIN Size /\ Size[b[2]] = IF b[2] = "1" THEN 1 ELSE 2
  BY DEF Size
<1> QED
  BY <1>1, HeadedLength

\* what is read of a reply that arrives in pieces
Begins(b, r) == b \in Buffers /\ Len(b) <= Len(r) /\ \A i \in 1..Len(b) : b[i] = r[i]

\* the parser takes a beginning of a reply for whole when it is the reply
Recognised(r) == \A b : Begins(b, r) => FrameLength[b] = IF Len(b) = Len(r) THEN Len(r) ELSE 0

\* a reply whose first four tokens are a line
LEMMA BeginningIsHeaded ==
    ASSUME NEW r \in Buffers, Len(r) >= 4, r[1] # "cr", r[2] # "cr", r[3] = "cr", r[4] = "lf",
           NEW b, Begins(b, r)
    PROVE  /\ Headed(b) /\ Len(b) \in Nat /\ Len(b) <= Len(r) /\ Len(r) \in Nat
           /\ Len(b) >= 4 => b[1] = r[1] /\ b[2] = r[2]
<1>1. /\ b \in Buffers /\ Len(b) \in Nat /\ Len(b) <= Len(r) /\ Len(r) \in Nat
      /\ \A i \in 1..Len(b) : b[i] = r[i]
  BY DEF Begins, Buffers
<1>2. /\ Len(b) >= 1 => b[1] = r[1]
      /\ Len(b) >= 2 => b[2] = r[2]
      /\ Len(b) >= 3 => b[3] = r[3]
      /\ Len(b) >= 4 => b[4] = r[4]
  BY <1>1
<1>3. Headed(b)
  BY <1>1, <1>2 DEF Headed
<1>4. Len(b) >= 4 => b[1] = r[1] /\ b[2] = r[2]
  BY <1>1, <1>2
<1> QED
  BY <1>1, <1>3, <1>4

\* every beginning of a line is told from the line
LEMMA LineRecognised ==
    ASSUME NEW r \in Buffers, Len(r) = 4, r[1] # "cr", r[2] # "cr", r[3] = "cr", r[4] = "lf",
           r[1] \notin {"$", "*"} \/ r[2] = "-1" \/ (r[1] = "*" /\ r[2] = "0")
    PROVE  Recognised(r)
<1> SUFFICES ASSUME NEW b, Begins(b, r)
             PROVE  FrameLength[b] = IF Len(b) = Len(r) THEN Len(r) ELSE 0
  BY DEF Recognised
<1>1. /\ Headed(b) /\ Len(b) \in Nat /\ Len(b) <= 4
      /\ Len(b) >= 4 => b[1] = r[1] /\ b[2] = r[2]
  <2>1. Len(r) >= 4
    OBVIOUS
  <2> QED
    BY <2>1, BeginningIsHeaded
<1>2. CASE Len(b) = 4
  <2>1. Len(b) >= 4 /\ b[1] = r[1] /\ b[2] = r[2]
    BY <1>1, <1>2
  <2>2. FrameLength[b] = 4
    BY <1>1, <2>1, PlainLength
  <2> QED
    BY <1>2, <2>2
<1>3. CASE Len(b) # 4
  <2>1. Len(b) < 4
    <3>1. \A n \in Nat : n <= 4 /\ n # 4 => n < 4
      OBVIOUS
    <3> QED
      BY <1>1, <1>3, <3>1
  <2>2. FrameLength[b] = 0
    BY <1>1, <2>1, ShortLength
  <2> QED
    BY <1>3, <2>2
<1> QED
  BY <1>2, <1>3

\* every beginning of a string is told from the string
LEMMA BulkRecognised ==
    ASSUME NEW d \in DOMAIN Size, NEW r \in Buffers, Len(r) = 6 + Size[d],
           r[1] = "$", r[2] = d, r[3] = "cr", r[4] = "lf"
    PROVE  Recognised(r)
<1> SUFFICES ASSUME NEW b, Begins(b, r)
             PROVE  FrameLength[b] = IF Len(b) = Len(r) THEN Len(r) ELSE 0
  BY DEF Recognised
<1>1. d \in {"0", "1", "2"} /\ Size[d] \in 0..2 /\ d # "cr"
  BY DEF Size
<1>2. /\ Headed(b) /\ Len(b) \in Nat /\ Len(b) <= 6 + Size[d]
      /\ Len(b) >= 4 => b[1] = "$" /\ b[2] = d
  BY <1>1, BeginningIsHeaded
<1>3. CASE Len(b) >= 4
  <2>1. FrameLength[b] = IF Len(b) >= 6 + Size[d] THEN 6 + Size[d] ELSE 0
    BY <1>2, <1>3, BulkLength
  <2> QED
    BY <1>1, <1>2, <2>1
<1>4. CASE ~(Len(b) >= 4)
  <2>1. Len(b) < 4
    BY <1>2, <1>4
  <2>2. FrameLength[b] = 0
    BY <1>2, <2>1, ShortLength
  <2> QED
    BY <1>1, <1>2, <1>4, <2>2
<1> QED
  BY <1>3, <1>4
\* the last element of an array
LEMMA LastElement ==
    ASSUME NEW r \in Buffers, NEW s \in Buffers, NEW n \in Nat, n # 0, s # <<>>,
           Len(r) = n + Len(s), \A i \in 1..Len(s) : s[i] = r[i + n],
           Recognised(s), NEW b, Begins(b, r)
    PROVE  After(FrameLength, b, n) = IF Len(b) = Len(r) THEN Len(r) ELSE 0
<1>1. /\ b \in Seq(Tokens) /\ Len(b) \in Nat /\ Len(b) <= Len(r) /\ Len(r) \in Nat
      /\ \A i \in 1..Len(b) : b[i] = r[i]
      /\ Len(s) \in Nat /\ Len(s) > 0
  BY DEF Begins, Buffers
<1>2. CASE n >= Len(b)
  BY <1>1, <1>2 DEF After
<1>3. CASE ~(n >= Len(b))
  <2> DEFINE c == SubSeq(b, n + 1, Len(b))
  <2>1. /\ c \in Buffers /\ Len(c) = Len(b) - n
        /\ \A i \in 1..Len(c) : c[i] = b[i + n]
    BY <1>1, <1>3 DEF Buffers
  <2>2. Begins(c, s)
    <3>1. \A i \in 1..Len(c) : c[i] = s[i]
      BY <1>1, <1>3, <2>1
    <3> HIDE DEF c
    <3> QED
      BY <1>1, <1>3, <2>1, <3>1 DEF Begins
  <2>3. FrameLength[c] = IF Len(c) = Len(s) THEN Len(s) ELSE 0
    BY <2>2 DEF Recognised
  <2>4. After(FrameLength, b, n) = IF FrameLength[c] = 0 THEN 0 ELSE n + FrameLength[c]
    BY <1>3 DEF After
  <2> HIDE DEF c
  <2> QED
    BY <1>1, <1>3, <2>1, <2>3, <2>4
<1> QED
  BY <1>2, <1>3

\* one line in an array
LEMMA OneInArray ==
    ASSUME NEW s \in Buffers, Recognised(s), Len(s) = 4, NEW r \in Buffers, Len(r) = 8,
           r[1] = "*", r[2] = "1", r[3] = "cr", r[4] = "lf", \A i \in 1..Len(s) : s[i] = r[i + 4]
    PROVE  Recognised(r)
<1> SUFFICES ASSUME NEW b, Begins(b, r)
             PROVE  FrameLength[b] = IF Len(b) = Len(r) THEN Len(r) ELSE 0
  BY DEF Recognised
<1>1. /\ Headed(b) /\ Len(b) \in Nat /\ Len(b) <= 8
      /\ Len(b) >= 4 => b[1] = r[1] /\ b[2] = r[2]
  <2>1. Len(r) >= 4
    OBVIOUS
  <2> QED
    BY <2>1, BeginningIsHeaded
<1>2. CASE Len(b) >= 4
  <2>1. b[1] = "*" /\ b[2] = "1" /\ b[2] \in {"1", "2"}
    BY <1>1, <1>2
  <2>2. FrameLength[b] = After(FrameLength, b, 4)
    BY <1>1, <1>2, <2>1, ArrayLength
  <2>3. After(FrameLength, b, 4) = IF Len(b) = Len(r) THEN Len(r) ELSE 0
    <3>1. s # <<>> /\ 4 \in Nat /\ 4 # 0 /\ Len(r) = 4 + Len(s)
      OBVIOUS
    <3> QED
      BY <3>1, LastElement
  <2> QED
    BY <2>2, <2>3
<1>3. CASE ~(Len(b) >= 4)
  <2>1. Len(b) < 4
    BY <1>1, <1>3
  <2>2. FrameLength[b] = 0
    BY <1>1, <2>1, ShortLength
  <2> QED
    BY <1>3, <2>2
<1> QED
  BY <1>2, <1>3

\* a plain line and a reply in an array
LEMMA TwoInArray ==
    ASSUME NEW s \in Buffers, Recognised(s), s # <<>>,
           NEW r \in Buffers, Len(r) = 8 + Len(s),
           r[1] = "*", r[2] = "2", r[3] = "cr", r[4] = "lf",
           r[5] = "$", r[6] = "-1", r[7] = "cr", r[8] = "lf",
           \A i \in 1..Len(s) : s[i] = r[i + 8]
    PROVE  Recognised(r)
<1> SUFFICES ASSUME NEW b, Begins(b, r)
             PROVE  FrameLength[b] = IF Len(b) = Len(r) THEN Len(r) ELSE 0
  BY DEF Recognised
<1>1. /\ b \in Seq(Tokens) /\ \A i \in 1..Len(b) : b[i] = r[i]
      /\ Len(s) \in Nat /\ Len(s) > 0
  BY DEF Begins, Buffers
<1>2. /\ Headed(b) /\ Len(b) \in Nat /\ Len(b) <= Len(r)
      /\ Len(b) >= 4 => b[1] = r[1] /\ b[2] = r[2]
  <2>1. Len(r) >= 4
    BY <1>1
  <2> QED
    BY <2>1, BeginningIsHeaded
<1>3. CASE Len(b) >= 4
  <2>1. b[1] = "*" /\ b[2] = "2" /\ b[2] \in {"1", "2"}
    BY <1>2, <1>3
  <2>2. FrameLength[b] = After(FrameLength, b, After(FrameLength, b, 4))
    BY <1>2, <1>3, <2>1, ArrayLength
  <2> DEFINE c == SubSeq(b, 5, Len(b))
  <2>3. After(FrameLength, b, 4) = IF Len(b) >= 8 THEN 8 ELSE 0
    <3>1. CASE Len(b) = 4
      BY <3>1 DEF After
    <3>2. CASE Len(b) # 4
      <4>1. Len(b) > 4 /\ 5 \in Nat /\ Len(b) - 4 \in Nat
        <5>1. \A n \in Nat : n >= 4 /\ n # 4 => n > 4 /\ n - 4 \in Nat
          OBVIOUS
        <5> QED
          BY <1>2, <1>3, <3>2, <5>1
      <4>2. /\ c \in Seq(Tokens) /\ Len(c) = Len(b) - 4 /\ Len(c) \in Nat
            /\ \A i \in 1..Len(c) : c[i] = b[i + 4]
        BY <1>1, <4>1
      <4>3. \A i \in 1..Len(c) : c[i] = r[i + 4]
        BY <1>1, <1>2, <4>1, <4>2
      <4>4. Headed(c) /\ (Len(c) >= 4 => c[1] = "$" /\ c[2] = "-1")
        <5> HIDE DEF c
        <5> QED
          BY <4>2, <4>3 DEF Headed, Buffers
      <4>5. FrameLength[c] = IF Len(b) >= 8 THEN 4 ELSE 0
        <5> HIDE DEF c
        <5>1. CASE Len(c) >= 4
          <6>1. FrameLength[c] = 4
            BY <4>4, <5>1, PlainLength
          <6> QED
            BY <1>2, <4>2, <5>1, <6>1
        <5>2. CASE ~(Len(c) >= 4)
          <6>1. Len(c) < 4
            BY <4>2, <5>2
          <6>2. FrameLength[c] = 0
            BY <4>4, <6>1, ShortLength
          <6> QED
            BY <1>2, <4>2, <5>2, <6>2
        <5> QED
          BY <5>1, <5>2
      <4>6. After(FrameLength, b, 4) = IF FrameLength[c] = 0 THEN 0 ELSE 4 + FrameLength[c]
        BY <1>2, <4>1 DEF After
      <4> HIDE DEF c
      <4> QED
        BY <1>2, <4>5, <4>6
    <3> QED
      BY <3>1, <3>2
  <2>4. After(FrameLength, b, 0) = 0
    BY DEF After
  <2>5. After(FrameLength, b, 8) = IF Len(b) = Len(r) THEN Len(r) ELSE 0
    <3>1. 8 \in Nat /\ 8 # 0
      OBVIOUS
    <3> QED
      BY <3>1, LastElement
  <2> QED
    BY <1>1, <1>2, <2>2, <2>3, <2>4, <2>5
<1>4. CASE ~(Len(b) >= 4)
  <2>1. Len(b) < 4
    BY <1>2, <1>4
  <2>2. FrameLength[b] = 0
    BY <1>2, <2>1, ShortLength
  <2> QED
    BY <1>1, <1>2, <1>4, <2>2
<1> QED
  BY <1>3, <1>4

-----------------------------------------------------------------------------
(* The replies of a Redis server, element by element                       *)

\* the tokens, one by one
LEMMA TokensAre ==
    \A t \in {"+", "-", ":", "$", "*", "0", "1", "2", "-1", "cr", "lf",
              "PONG", "OK", "ERR", "e", "v", "v1", "v2"} : t \in Tokens
  BY DEF Tokens

\* a pair is a sequence of two
LEMMA PairIsSeq ==
    ASSUME NEW S, NEW t \in S, NEW w \in S
    PROVE  <<t, w>> \in Seq(S) /\ Len(<<t, w>>) = 2 /\ <<t, w>>[1] = t /\ <<t, w>>[2] = w
  OBVIOUS

\* the four elements of a line
LEMMA LineShape ==
    ASSUME NEW t \in Tokens, NEW w \in Tokens
    PROVE  /\ Line(t, w) \in Buffers /\ Len(Line(t, w)) = 4
           /\ Line(t, w)[1] = t /\ Line(t, w)[2] = w /\ Line(t, w)[3] = "cr" /\ Line(t, w)[4] = "lf"
<1>1. /\ <<t, w>> \in Seq(Tokens) /\ Len(<<t, w>>) = 2 /\ <<t, w>>[1] = t /\ <<t, w>>[2] = w
      /\ Eol \in Seq(Tokens) /\ Len(Eol) = 2 /\ Eol[1] = "cr" /\ Eol[2] = "lf"
  BY TokensAre, PairIsSeq DEF Eol
<1> DEFINE s == <<t, w>>
<1> HIDE DEF s
<1>2. /\ s \o Eol \in Seq(Tokens) /\ Len(s \o Eol) = Len(s) + Len(Eol)
      /\ \A i \in 1..(Len(s) + Len(Eol)) : (s \o Eol)[i] = IF i <= Len(s) THEN s[i] ELSE Eol[i - Len(s)]
  <2>1. s \in Seq(Tokens)
    BY <1>1 DEF s
  <2> QED
    BY <1>1, <2>1, ConcatProperties
<1>3. Len(s) = 2 /\ s[1] = t /\ s[2] = w
  BY <1>1 DEF s
<1>4. Len(s \o Eol) = 4 /\ (s \o Eol)[1] = t /\ (s \o Eol)[2] = w /\ (s \o Eol)[3] = "cr" /\ (s \o Eol)[4] = "lf"
  BY <1>1, <1>2, <1>3
<1> QED
  BY <1>2, <1>4 DEF Line, s, Buffers

\* the elements of a line and what follows it
Heads(r, t, w, rest) ==
    /\ r \in Buffers /\ Len(r) = 4 + Len(rest)
    /\ r[1] = t /\ r[2] = w /\ r[3] = "cr" /\ r[4] = "lf"
    /\ \A i \in 1..Len(rest) : r[i + 4] = rest[i]

\* a line with something behind it
LEMMA HeadShape ==
    ASSUME NEW t \in Tokens, NEW w \in Tokens, NEW rest \in Buffers
    PROVE  Heads(Line(t, w) \o rest, t, w, rest)
<1> DEFINE s == Line(t, w)
           r == s \o rest
<1>1. /\ s \in Seq(Tokens) /\ Len(s) = 4 /\ s[1] = t /\ s[2] = w /\ s[3] = "cr" /\ s[4] = "lf"
      /\ rest \in Seq(Tokens) /\ Len(rest) \in Nat
  BY LineShape DEF Buffers
<1> HIDE DEF s
<1>2. /\ s \o rest \in Seq(Tokens) /\ Len(s \o rest) = Len(s) + Len(rest)
      /\ \A i \in 1..(Len(s) + Len(rest)) : (s \o rest)[i] = IF i <= Len(s) THEN s[i] ELSE rest[i - Len(s)]
  BY <1>1, ConcatProperties
<1>3. r = s \o rest
  OBVIOUS
<1> HIDE DEF r
<1>4. \A i \in 1..(4 + Len(rest)) : r[i] = IF i <= 4 THEN s[i] ELSE rest[i - 4]
  BY <1>1, <1>2, <1>3
<1>5. r[1] = t /\ r[2] = w /\ r[3] = "cr" /\ r[4] = "lf"
  <2>1. \A i \in {1, 2, 3, 4} : i \in 1..(4 + Len(rest)) /\ i <= 4
    BY <1>1
  <2>2. r[1] = s[1] /\ r[2] = s[2] /\ r[3] = s[3] /\ r[4] = s[4]
    BY <1>4, <2>1
  <2> QED
    BY <1>1, <2>2
<1>6. ASSUME NEW i \in 1..Len(rest) PROVE r[i + 4] = rest[i]
  <2>1. i + 4 \in 1..(4 + Len(rest)) /\ ~(i + 4 <= 4) /\ (i + 4) - 4 = i
    BY <1>1
  <2> QED
    BY <1>4, <2>1
<1>7. Heads(r, t, w, rest)
  BY <1>1, <1>2, <1>3, <1>5, <1>6 DEF Heads, Buffers
<1> QED
  BY <1>7 DEF r, s

\* how lengths are written
LEMMA DigitsAre == Digits(0) = "0" /\ Digits(1) = "1" /\ Digits(2) = "2"
  BY DEF Digits, Size

\* an array is a line with its frames behind it
LEMMA ArrayShape ==
    ASSUME NEW n \in 0..2, NEW rest \in Buffers
    PROVE  Heads(Array(n, rest), "*", Digits(n), rest)
<1>1. Digits(n) \in Tokens /\ "*" \in Tokens
  <2>1. n = 0 \/ n = 1 \/ n = 2
    OBVIOUS
  <2> QED
    BY <2>1, DigitsAre, TokensAre
<1>2. Array(n, rest) = Line("*", Digits(n)) \o rest
  BY DEF Array, Line
<1> QED
  BY <1>1, <1>2, HeadShape

\* the elements of a string
LEMMA BulkShape ==
    ASSUME NEW words \in Buffers, Len(words) \in {1, 2}
    PROVE  /\ Bulk(words) \in Buffers /\ Len(Bulk(words)) = 6 + Len(words)
           /\ Bulk(words)[1] = "$" /\ Bulk(words)[2] = Digits(Len(words))
           /\ Bulk(words)[3] = "cr" /\ Bulk(words)[4] = "lf"
           /\ \A i \in 1..Len(words) : Bulk(words)[i + 4] = words[i]
           /\ \A i \in 1..2 : Bulk(words)[i + 4 + Len(words)] = Eol[i]
<1>1. /\ words \in Seq(Tokens) /\ Eol \in Seq(Tokens) /\ Len(Eol) = 2 /\ Digits(Len(words)) \in Tokens
      /\ "$" \in Tokens
  <2>1. Digits(Len(words)) \in Tokens /\ "$" \in Tokens
    BY DigitsAre, TokensAre
  <2> QED
    BY <2>1, TokensAre, PairIsSeq DEF Eol, Buffers
<1> DEFINE n == Len(words)
           rest == words \o Eol
<1>2. /\ rest \in Seq(Tokens) /\ Len(rest) = n + 2
      /\ \A i \in 1..(n + 2) : rest[i] = IF i <= n THEN words[i] ELSE Eol[i - n]
  <2>1. /\ rest \in Seq(Tokens) /\ Len(rest) = Len(words) + Len(Eol)
        /\ \A i \in 1..(Len(words) + Len(Eol)) :
              rest[i] = IF i <= Len(words) THEN words[i] ELSE Eol[i - Len(words)]
    BY <1>1, ConcatProperties
  <2> HIDE DEF rest
  <2> QED
    BY <1>1, <2>1
<1>3. /\ Line("$", Digits(n)) \in Seq(Tokens)
      /\ Bulk(words) = (Line("$", Digits(n)) \o words) \o Eol
  BY <1>1, LineShape DEF Bulk, Line, Buffers
<1>4. Bulk(words) = Line("$", Digits(n)) \o rest
  BY <1>1, <1>3, ConcatAssociative
<1> HIDE DEF rest
<1>5. /\ Bulk(words) \in Buffers /\ Len(Bulk(words)) = 4 + Len(rest)
      /\ Bulk(words)[1] = "$" /\ Bulk(words)[2] = Digits(n)
      /\ Bulk(words)[3] = "cr" /\ Bulk(words)[4] = "lf"
      /\ \A i \in 1..Len(rest) : Bulk(words)[i + 4] = rest[i]
  <2>1. rest \in Buffers
    BY <1>2 DEF Buffers
  <2>2. Heads(Bulk(words), "$", Digits(n), rest)
    BY <1>1, <1>4, <2>1, HeadShape
  <2> QED
    BY <2>2 DEF Heads
<1>6. \A i \in 1..n : Bulk(words)[i + 4] = words[i]
  BY <1>2, <1>5
<1>7. \A i \in 1..2 : Bulk(words)[i + 4 + n] = Eol[i]
  <2> SUFFICES ASSUME NEW i \in 1..2 PROVE Bulk(words)[i + 4 + n] = Eol[i]
    OBVIOUS
  <2>1. n \in {1, 2}
    OBVIOUS
  <2> HIDE DEF n
  <2>2. i + n \in 1..(n + 2) /\ ~(i + n <= n) /\ (i + n) - n = i /\ (i + n) + 4 = i + 4 + n
    BY <2>1
  <2>3. rest[i + n] = Eol[i]
    BY <1>2, <2>2
  <2>4. Bulk(words)[(i + n) + 4] = rest[i + n]
    BY <1>2, <1>5, <2>2
  <2> QED
    BY <2>2, <2>3, <2>4
<1> QED
  BY <1>2, <1>5, <1>6, <1>7

\* the lines of the scripts are told from their beginnings
LEMMA LinesRecognised ==
    /\ \A r \in {Ok, Line("+", "PONG"), Failure, Number("0"), Number("1"), Number("2"), Nil} :
          Recognised(r) /\ r \in Buffers /\ Len(r) = 4
<1>1. ASSUME NEW t \in Tokens \ {"cr"}, NEW w \in Tokens \ {"cr"}, t \notin {"$", "*"} \/ w = "-1"
      PROVE  Recognised(Line(t, w)) /\ Line(t, w) \in Buffers /\ Len(Line(t, w)) = 4
  <2> DEFINE r == Line(t, w)
  <2>1. /\ r \in Buffers /\ Len(r) = 4
        /\ r[1] = t /\ r[2] = w /\ r[3] = "cr" /\ r[4] = "lf"
    BY LineShape
  <2> HIDE DEF r
  <2>2. r[1] # "cr" /\ r[2] # "cr" /\ (r[1] \notin {"$", "*"} \/ r[2] = "-1" \/ (r[1] = "*" /\ r[2] = "0"))
    BY <1>1, <2>1
  <2>3. Recognised(r)
    BY <2>1, <2>2, LineRecognised
  <2> QED
    BY <2>1, <2>3 DEF r
<1>2. /\ \A t \in {"+", "-", ":", "$"} : t \in Tokens \ {"cr"}
      /\ \A w \in {"OK", "PONG", "ERR", "0", "1", "2", "-1"} : w \in Tokens \ {"cr"}
  BY TokensAre
<1>3. Nil = Line("$", "-1")
  BY DEF Nil, Line
<1>4. \A t \in {"+", "-", ":"} : \A w \in {"OK", "PONG", "ERR", "0", "1", "2"} :
         Recognised(Line(t, w)) /\ Line(t, w) \in Buffers /\ Len(Line(t, w)) = 4
  BY <1>1, <1>2
<1>5. Recognised(Line("$", "-1")) /\ Line("$", "-1") \in Buffers /\ Len(Line("$", "-1")) = 4
  BY <1>1, <1>2
<1> QED
  BY <1>3, <1>4, <1>5 DEF Ok, Failure, Number

\* the strings of the scripts are told from their beginnings
LEMMA BulksRecognised ==
    ASSUME NEW words \in Buffers, Len(words) \in {1, 2}
    PROVE  Recognised(Bulk(words)) /\ Bulk(words) \in Buffers /\ Bulk(words) # <<>>
<1> DEFINE r == Bulk(words)
           d == Digits(Len(words))
<1>1. /\ r \in Buffers /\ Len(r) = 6 + Len(words)
      /\ r[1] = "$" /\ r[2] = d /\ r[3] = "cr" /\ r[4] = "lf"
  BY BulkShape
<1>2. d \in DOMAIN Size /\ Size[d] = Len(words)
  BY DigitsAre DEF Size
<1> HIDE DEF r, d
<1>3. Recognised(r)
  BY <1>1, <1>2, BulkRecognised
<1>4. r # <<>>
  BY <1>1
<1> QED
  BY <1>1, <1>3, <1>4 DEF r

\* and so are the arrays a server may answer wrongly with
LEMMA ArraysRecognised ==
    /\ \A r \in {Array(0, <<>>), Array(2, Nil \o Array(1, Ok))} :
          Recognised(r) /\ r \in Buffers /\ r # <<>>
<1>1. <<>> \in Buffers /\ Len(<<>>) = 0
  BY EmptySeq DEF Buffers
<1>2. Recognised(Array(0, <<>>)) /\ Array(0, <<>>) \in Buffers /\ Array(0, <<>>) # <<>>
  <2> DEFINE r == Array(0, <<>>)
  <2>1. /\ r \in Buffers /\ Len(r) = 4 + Len(<<>>)
        /\ r[1] = "*" /\ r[2] = Digits(0) /\ r[3] = "cr" /\ r[4] = "lf"
    <3>1. Heads(r, "*", Digits(0), <<>>)
      BY <1>1, ArrayShape
    <3> QED
      BY <3>1 DEF Heads
  <2> HIDE DEF r
  <2>2. Len(r) = 4 /\ r[1] # "cr" /\ r[2] # "cr" /\ r[1] = "*" /\ r[2] = "0" /\ r # <<>>
    BY <1>1, <2>1, DigitsAre
  <2>3. Recognised(r)
    BY <2>1, <2>2, LineRecognised
  <2> QED
    BY <2>1, <2>2, <2>3 DEF r
<1>3. Recognised(Ok) /\ Ok \in Buffers /\ Len(Ok) = 4 /\ Nil \in Buffers /\ Len(Nil) = 4
  BY LinesRecognised
<1> DEFINE one == Array(1, Ok)
           rest == Nil \o one
           two == Array(2, rest)
<1>4. /\ one \in Buffers /\ Len(one) = 8
      /\ one[1] = "*" /\ one[2] = "1" /\ one[3] = "cr" /\ one[4] = "lf"
      /\ \A i \in 1..Len(Ok) : one[i + 4] = Ok[i]
  <2>1. Heads(one, "*", Digits(1), Ok)
    BY <1>3, ArrayShape
  <2> QED
    BY <1>3, <2>1, DigitsAre DEF Heads
<1> HIDE DEF one
<1>5. Recognised(one)
  <2>1. \A i \in 1..Len(Ok) : Ok[i] = one[i + 4]
    BY <1>4
  <2> QED
    BY <1>3, <1>4, <2>1, OneInArray
<1>6. Heads(rest, "$", "-1", one)
  <2>1. Nil = Line("$", "-1")
    BY DEF Nil, Line
  <2> QED
    BY <1>4, <2>1, TokensAre, HeadShape
<1> HIDE DEF rest
<1>7. /\ rest \in Buffers /\ Len(rest) = 12
      /\ rest[1] = "$" /\ rest[2] = "-1" /\ rest[3] = "cr" /\ rest[4] = "lf"
      /\ \A i \in 1..8 : rest[i + 4] = one[i]
  BY <1>4, <1>6 DEF Heads
<1>8. /\ two \in Buffers /\ Len(two) = 16
      /\ two[1] = "*" /\ two[2] = "2" /\ two[3] = "cr" /\ two[4] = "lf"
      /\ \A i \in 1..12 : two[i + 4] = rest[i]
  <2>1. Heads(two, "*", Digits(2), rest)
    BY <1>7, ArrayShape
  <2> QED
    BY <1>7, <2>1, DigitsAre DEF Heads
<1> HIDE DEF two
<1>9. /\ two[5] = "$" /\ two[6] = "-1" /\ two[7] = "cr" /\ two[8] = "lf"
  <2>1. two[1 + 4] = rest[1] /\ two[2 + 4] = rest[2] /\ two[3 + 4] = rest[3] /\ two[4 + 4] = rest[4]
    BY <1>8
  <2> QED
    BY <1>7, <2>1
<1>10. \A i \in 1..Len(one) : one[i] = two[i + 8]
  <2> SUFFICES ASSUME NEW i \in 1..8 PROVE one[i] = two[i + 8]
    BY <1>4
  <2>1. rest[i + 4] = one[i] /\ two[(i + 4) + 4] = rest[i + 4] /\ (i + 4) + 4 = i + 8
    BY <1>7, <1>8
  <2> QED
    BY <2>1
<1>11. Recognised(two) /\ two # <<>>
  <2>1. one # <<>> /\ Len(two) = 8 + Len(one) /\ two # <<>>
    <3>1. \A s : Len(s) \in {8, 16} => s # <<>>
      BY EmptySeq
    <3> QED
      BY <1>4, <1>8, <3>1
  <2> QED
    BY <1>4, <1>5, <1>8, <1>9, <1>10, <2>1, TwoInArray
<1> QED
  BY <1>2, <1>8, <1>11 DEF two, rest, one

\* every reply is told from its beginnings
LEMMA RepliesRecognised ==
    \A r \in Replies : Recognised(r) /\ r \in Buffers /\ r # <<>>
<1>1. \A s : s \in Buffers /\ Len(s) = 4 => s # <<>>
  BY EmptySeq DEF Buffers
<1>2. /\ <<"e">> \in Buffers /\ Len(<<"e">>) = 1
      /\ <<"v">> \in Buffers /\ Len(<<"v">>) = 1
      /\ <<"cr", "lf">> \in Buffers /\ Len(<<"cr", "lf">>) = 2
  <2>1. \A S : \A t \in S : <<t>> \in Seq(S) /\ Len(<<t>>) = 1
    OBVIOUS
  <2> QED
    BY <2>1, TokensAre, PairIsSeq DEF Buffers
<1>3. \A r \in {Bulk(<<"e">>), Bulk(<<"v">>), Bulk(<<"cr", "lf">>)} :
         Recognised(r) /\ r \in Buffers /\ r # <<>>
  BY <1>2, BulksRecognised
<1> QED
  BY <1>1, <1>3, LinesRecognised, ArraysRecognised DEF Replies

\* an answer cut anywhere is complete when nothing of it is left on the wire
LEMMA WholeWhenArrived ==
    ASSUME NEW b \in Buffers, NEW w \in Buffers, b \o w \in Replies
    PROVE  IsComplete(b) <=> w = <<>>
<1> DEFINE r == b \o w
<1>1. /\ b \in Seq(Tokens) /\ w \in Seq(Tokens) /\ Len(b) \in Nat /\ Len(w) \in Nat
      /\ Len(r) = Len(b) + Len(w) /\ \A i \in 1..Len(b) : r[i] = b[i]
      /\ w = <<>> <=> Len(w) = 0
  BY EmptySeq, ConcatProperties DEF Buffers
<1>2. Recognised(r) /\ r # <<>> /\ Len(r) # 0 /\ Len(r) \in Nat
  BY <1>1, RepliesRecognised, EmptySeq DEF Buffers
<1> HIDE DEF r
<1>3. Begins(b, r)
  BY <1>1 DEF Begins
<1>4. FrameLength[b] = IF Len(b) = Len(r) THEN Len(r) ELSE 0
  BY <1>2, <1>3 DEF Recognised
<1> QED
  BY <1>1, <1>2, <1>4 DEF IsComplete

\* an empty buffer holds no frame
LEMMA NothingIsIncomplete == ~IsComplete(<<>>)
<1>1. Recognised(Ok) /\ Len(Ok) = 4
  BY LinesRecognised
<1>2. Begins(<<>>, Ok) /\ Len(<<>>) = 0
  BY <1>1, EmptySeq DEF Begins, Buffers
<1> QED
  BY <1>1, <1>2 DEF Recognised, IsComplete

StageRecords == [stage : Nat, passed : BOOLEAN]

-----------------------------------------------------------------------------
(* Results *)

\* there are as many stages as the score counts
LEMMA StagesCount ==
    ASSUME task \in {"redis", "http", "dns"}
    PROVE  Len(Stages) = TotalStages /\ TotalStages \in 4..6
<1>1. Len(RedisStages) = 4 /\ Len(HttpStages) = 5 /\ Len([i \in 1..6 |-> <<DnsQueries[i]>>]) = 6
  BY DEF RedisStages, HttpStages
<1>2. CASE task = "redis"
  <2>1. Stages = RedisStages /\ TotalStages = 4
    BY <1>2 DEF Stages, TotalStages, ByTask
  <2> QED
    BY <1>1, <2>1
<1>3. CASE task = "http"
  <2>1. Stages = HttpStages /\ TotalStages = 5
    BY <1>3 DEF Stages, TotalStages, ByTask
  <2> QED
    BY <1>1, <2>1
<1>4. CASE task = "dns"
  <2>1. Stages = [i \in 1..6 |-> <<DnsQueries[i]>>] /\ TotalStages = 6
    BY <1>4 DEF Stages, TotalStages, ByTask
  <2> QED
    BY <1>1, <2>1
<1> QED
  BY <1>2, <1>3, <1>4

\* a stage that is concluded, and passed only if it has earned it, keeps ResultsInv
LEMMA Concluded ==
    ASSUME ResultsInv, phase \in {"connect", "send", "read"},
           NEW passed \in BOOLEAN, NEW number \in Nat, NEW proof,
           Conclude(passed, number, proof),
           number = stage \/ (task = "dns" /\ stage \in {2, 3} /\ ~passed /\ number = 5 - stage),
           passed => Earned(proof),
           task' = task, disqualified' = disqualified,
           honest' \in BOOLEAN, prompt' \in BOOLEAN,
           honest' /\ prompt' => honest /\ prompt /\ passed
    PROVE  ResultsInv' /\ ~Exchanging'
<1> USE DEF ResultsInv, OrderInv
<1>1. ~disqualified /\ stage <= TotalStages /\ stage \in Nat /\ TotalStages \in 4..6
      /\ stage \in 1..TotalStages
  BY StagesCount
<1>2. phase' \in {"verified", "connect"} /\ (phase' = "connect" => stage < TotalStages) /\ stage' = stage + 1
  BY <1>1, StagesCount DEF Conclude
<1>3. TotalStages' = TotalStages
  BY DEF TotalStages, ByTask
<1> DEFINE new == [stage |-> number, passed |-> passed]
<1>4. /\ results \in Seq(StageRecords) /\ new \in StageRecords /\ results' = Append(results, new)
      /\ Len(results) = stage - 1
  BY <1>1 DEF Conclude, StageRecords
<1>5. /\ results' \in Seq(StageRecords) /\ Len(results') = stage
      /\ \A i \in 1..(stage - 1) : results'[i] = results[i]
      /\ results'[stage] = new
      /\ DOMAIN results' = 1..stage /\ DOMAIN results = 1..(stage - 1)
  <2> HIDE DEF new
  <2>1. /\ Append(results, new) \in Seq(StageRecords)
        /\ Len(Append(results, new)) = Len(results) + 1
        /\ \A i \in 1..Len(results) : Append(results, new)[i] = results[i]
        /\ Append(results, new)[Len(results) + 1] = new
    BY <1>4, AppendProperties
  <2>2. DOMAIN results' = 1..Len(results') /\ DOMAIN results = 1..Len(results)
    BY <1>4, <2>1, LenProperties
  <2> QED
    BY <1>1, <1>4, <2>1, <2>2
<1>6. \A i \in DOMAIN results' : NumberFits(i)'
  <2> SUFFICES ASSUME NEW i \in 1..stage PROVE NumberFits(i)'
    BY <1>5
  <2>1. CASE i = stage
    <3>1. results'[i].stage = number /\ results'[i].passed = passed
      BY <1>5, <2>1
    <3> QED
      BY <2>1, <3>1 DEF NumberFits
  <2>2. CASE i # stage
    <3>1. i \in 1..(stage - 1) /\ results'[i] = results[i] /\ NumberFits(i)
      BY <1>1, <1>5, <2>2
    <3> QED
      BY <3>1 DEF NumberFits
  <2> QED
    BY <2>1, <2>2
<1>7. OrderInv'
  <2>1. stage' \in 1..(TotalStages' + 1) /\ (phase' = "connect" => stage' <= TotalStages')
    BY <1>1, <1>2, <1>3
  <2> HIDE DEF new
  <2>2. Len(results') = stage' - 1
    BY <1>1, <1>2, <1>5
  <2> QED
    BY <1>1, <1>2, <1>5, <1>6, <2>1, <2>2 DEF StageRecords
<1>8. unearned' = {}
  BY DEF Conclude
<1>9. honest' /\ prompt' => \A i \in DOMAIN results' : results'[i].passed
  <2> SUFFICES ASSUME honest' /\ prompt', NEW i \in 1..stage PROVE results'[i].passed
    BY <1>5
  <2>1. CASE i = stage
    BY <1>5, <2>1
  <2>2. CASE i # stage
    BY <1>1, <1>5, <2>2
  <2> QED
    BY <2>1, <2>2
<1> QED
  BY <1>1, <1>2, <1>7, <1>8, <1>9 DEF Exchanging

\* a step that concludes no stage
LEMMA SameResults ==
    ASSUME ResultsInv, phase \in {"connect", "send", "read"},
           phase' \in {"send", "read"}, phase' = "read" => task = "redis",
           UNCHANGED <<task, disqualified, stage, results, unearned>>,
           honest' \in BOOLEAN, prompt' \in BOOLEAN, honest' => honest, prompt' => prompt
    PROVE  ResultsInv'
<1> USE DEF ResultsInv, OrderInv
<1>1. ~disqualified
  OBVIOUS
<1>2. TotalStages' = TotalStages
  BY DEF TotalStages, ByTask
<1>3. \A i : NumberFits(i)' <=> NumberFits(i)
  BY DEF NumberFits
<1>4. OrderInv'
  BY <1>1, <1>2, <1>3
<1> QED
  BY <1>1, <1>4

-----------------------------------------------------------------------------
(* DNS *)

\* each stage of the DNS verifier is one exchange
LEMMA DnsStage ==
    ASSUME task = "dns", stage \in 1..6
    PROVE  /\ Stages[stage] = <<DnsQueries[stage]>>
           /\ \A s : Aspects(s) = DnsAspects
           /\ Lenient = DnsLenient
  BY DEF Stages, Aspects, Lenient, ByTask

\* a DNS stage is earned by what it looks at
LEMMA DnsEarned ==
    ASSUME task = "dns", stage \in 1..6, NEW proof,
           \A a \in DnsJudged[stage] : <<1, a>> \in proof
    PROVE  Earned(proof)
<1>1. DOMAIN Stages[stage] = {1} /\ (\A s : Aspects(s) = DnsAspects) /\ Lenient = DnsLenient
  <2>1. Stages[stage] = <<DnsQueries[stage]>>
    BY DnsStage
  <2>2. \A q : DOMAIN <<q>> = {1}
    OBVIOUS
  <2> QED
    BY <2>1, <2>2, DnsStage
<1>2. ASSUME NEW a \in DnsAspects PROVE <<1, a>> \in proof \cup Lenient
  <2>1. CASE a \in DnsJudged[stage]
    BY <2>1
  <2>2. CASE a \notin DnsJudged[stage]
    BY <1>1, <2>2 DEF DnsLenient
  <2> QED
    BY <2>1, <2>2
<1> QED
  BY <1>1, <1>2 DEF Earned

DnsAnswers(q) == {DnsRight(q)} \cup DnsWrong(DnsRight(q))

\* what a stage that accepts an answer has judged is as the right answer has it
LEMMA DnsJudgedRight ==
    ASSUME NEW n \in 1..5, NEW q, q = DnsQueries[n], NEW r \in DnsAnswers(q), DnsAccepts(q, r)
    PROVE  \A a \in DnsJudged[n] : a \in DOMAIN r /\ r[a] = DnsRight(q)[a]
<1>1. /\ DOMAIN r = {"whole", "id", "qr", "answers", "data", "rcode"}
      /\ r.answers \in 0..1
  BY DEF DnsAnswers, DnsWrong, DnsRight
<1>2. r.whole = TRUE /\ DnsRight(q).whole = TRUE
  BY DEF DnsAnswers, DnsWrong, DnsRight, DnsAccepts
<1>3. CASE n = 1
  <2>1. q = "handshake" /\ DnsJudged[n] = {"whole", "id", "qr"}
    BY <1>3 DEF DnsQueries, DnsJudged
  <2>2. r.id = DnsRight(q).id /\ r.qr = DnsRight(q).qr
    BY <2>1 DEF DnsAccepts, DnsIsResponse, DnsRight
  <2> QED
    BY <1>1, <1>2, <2>1, <2>2
<1>4. CASE n \in {2, 3}
  <2>1. q \in {"example.com", "localhost"} /\ DnsJudged[n] = {"whole", "answers", "data"}
    BY <1>4 DEF DnsQueries, DnsJudged
  <2>2. r.answers >= 1 /\ r.data = q
    BY <2>1 DEF DnsAccepts, DnsIsAddress
  <2>3. DnsRight(q).answers = 1 /\ DnsRight(q).data = q
    BY <2>1 DEF DnsRight
  <2>4. r.answers = DnsRight(q).answers
    BY <1>1, <2>2, <2>3
  <2> QED
    BY <1>1, <1>2, <2>1, <2>2, <2>3, <2>4
<1>5. CASE n = 4
  <2>1. q = "TXT" /\ DnsJudged[n] = {"whole", "data"}
    BY <1>5 DEF DnsQueries, DnsJudged
  <2>2. r.data = DnsRight(q).data
    BY <2>1 DEF DnsAccepts, DnsIsText, DnsRight
  <2> QED
    BY <1>1, <1>2, <2>1, <2>2
<1>6. CASE n = 5
  <2>1. DnsJudged[n] = {"whole"}
    BY <1>6 DEF DnsJudged
  <2> QED
    BY <1>1, <1>2, <2>1
<1> QED
  BY <1>3, <1>4, <1>5, <1>6

\* the right DNS answer is accepted
LEMMA DnsRightAccepted ==
    ASSUME NEW n \in 1..5
    PROVE  DnsAccepts(DnsQueries[n], DnsRight(DnsQueries[n]))
<1> DEFINE q == DnsQueries[n]
<1>1. q \in {"handshake", "example.com", "localhost", "TXT", "unknown"}
  BY DEF DnsQueries
<1> HIDE DEF q
<1>2. DnsAccepts(q, DnsRight(q))
  BY <1>1 DEF DnsAccepts, DnsIsResponse, DnsIsAddress, DnsIsText, DnsIsUnknown, DnsRight
<1> QED
  BY <1>2 DEF q

\* the steps of the DNS verifier
LEMMA DnsStep ==
    ASSUME Inv, DnsExchange \/ DnsSilence \/ DnsBurst
    PROVE  Inv'
<1> USE DEF Inv
<1>1. /\ task = "dns" /\ phase = "send" /\ step = 1 /\ stage \in 1..6 /\ stage \in Nat
      /\ honest \in BOOLEAN /\ prompt \in BOOLEAN
      /\ task' = task /\ disqualified' = disqualified /\ prompt' = prompt
  <2>1. task = "dns" /\ phase = "send" /\ UNCHANGED <<pipelineVars, prompt>>
    BY DEF DnsExchange, DnsSilence, DnsBurst
  <2>2. stage \in 1..TotalStages /\ TotalStages = 6
    BY <2>1, StagesCount DEF ResultsInv, OrderInv, TotalStages, ByTask
  <2> QED
    BY <2>1, <2>2 DEF ResultsInv, OrderInv, ExchangeInv, Exchanging, pipelineVars
<1>2. X = DnsQueries[stage]
  BY <1>1, DnsStage DEF X
<1>3. stage \in 1..5 <=> X # "burst"
  BY <1>1, <1>2 DEF DnsQueries
<1>4. ASSUME DnsExchange PROVE ResultsInv' /\ ~Exchanging'
  <2>1. PICK r \in DnsAnswers(X) :
           LET proof == {<<1, f>> : f \in {g \in DOMAIN r : r[g] = DnsRight(X)[g]}}
           IN  /\ Conclude(DnsAccepts(X, r), DnsStageNumber(stage, r), proof)
               /\ honest' = (honest /\ r = DnsRight(X))
    BY <1>4 DEF DnsExchange, DnsAnswers
  <2> DEFINE passed == DnsAccepts(X, r)
             number == DnsStageNumber(stage, r)
             proof  == {<<1, f>> : f \in {g \in DOMAIN r : r[g] = DnsRight(X)[g]}}
  <2>2. Conclude(passed, number, proof) /\ honest' = (honest /\ r = DnsRight(X)) /\ stage \in 1..5
    BY <1>3, <1>4, <2>1 DEF DnsExchange
  <2>3. passed \in BOOLEAN
    BY DEF DnsAccepts
  <2>4. /\ number \in Nat
        /\ number = stage \/ (task = "dns" /\ stage \in {2, 3} /\ ~passed /\ number = 5 - stage)
    BY <1>1 DEF DnsStageNumber, DnsAccepts
  <2>5. passed => Earned(proof)
    <3>1. ASSUME passed PROVE \A a \in DnsJudged[stage] : <<1, a>> \in proof
      BY <1>2, <2>2, <3>1, DnsJudgedRight
    <3> HIDE DEF proof, passed
    <3> QED
      BY <1>1, <3>1, DnsEarned
  <2>6. honest' /\ prompt' => honest /\ prompt /\ passed
    BY <1>1, <1>2, <2>2, DnsRightAccepted
  <2>7. honest' \in BOOLEAN /\ prompt' \in BOOLEAN
    BY <1>1, <2>2
  <2> HIDE DEF passed, number, proof
  <2> QED
    BY <1>1, <2>2, <2>3, <2>4, <2>5, <2>6, <2>7, Concluded
<1>5. ASSUME DnsSilence PROVE ResultsInv' /\ ~Exchanging'
  <2>1. Conclude(FALSE, stage, proven) /\ honest' = FALSE
    BY <1>5 DEF DnsSilence, Fail
  <2> QED
    BY <1>1, <2>1, Concluded
<1>6. ASSUME DnsBurst PROVE ResultsInv' /\ ~Exchanging'
  <2>1. PICK answered \in 0..Burst : /\ Conclude(answered >= Enough, stage, proven)
                                     /\ honest' = (honest /\ answered = Burst)
    BY <1>6 DEF DnsBurst
  <2> DEFINE passed == answered >= Enough
  <2>2. Conclude(passed, stage, proven) /\ passed \in BOOLEAN /\ honest' \in BOOLEAN
    BY <1>1, <2>1
  <2>3. passed => Earned(proven)
    <3>1. stage = 6 /\ DnsJudged[6] = {}
      BY <1>1, <1>3, <1>6 DEF DnsBurst, DnsJudged
    <3> HIDE DEF passed
    <3> QED
      BY <1>1, <3>1, DnsEarned
  <2>4. honest' /\ prompt' => honest /\ prompt /\ passed
    <3>1. answered = Burst => passed
      BY DEF Burst, Enough
    <3>2. honest' => honest /\ answered = Burst
      BY <2>1
    <3> HIDE DEF passed
    <3> QED
      BY <1>1, <3>1, <3>2
  <2> HIDE DEF passed
  <2> QED
    BY <1>1, <2>2, <2>3, <2>4, Concluded
<1> QED
  BY <1>4, <1>5, <1>6 DEF ExchangeInv

-----------------------------------------------------------------------------
(* HTTP *)

HttpLength(s) == IF s = 5 THEN 4 ELSE 1

\* the elements of three requests with one behind them
LEMMA ThreeAndOne ==
    ASSUME NEW a, NEW b, NEW c, NEW d
    PROVE  <<a, b, c>> \o <<d>> = <<a, b, c, d>>
<1> DEFINE S == {a, b, c, d}
           s == <<a, b, c>>
           t == <<d>>
           u == <<a, b, c, d>>
<1>1. /\ \A T : \A i, j, k \in T : <<i, j, k>> \in Seq(T)
      /\ \A T : \A i \in T : <<i>> \in Seq(T)
      /\ \A T : \A i, j, k, l \in T : <<i, j, k, l>> \in Seq(T)
  OBVIOUS
<1>2. a \in S /\ b \in S /\ c \in S /\ d \in S
  OBVIOUS
<1> HIDE DEF S
<1>3. s \in Seq(S) /\ t \in Seq(S) /\ u \in Seq(S)
  BY <1>1, <1>2
<1>4. /\ Len(s) = 3 /\ Len(t) = 1 /\ Len(u) = 4
      /\ s[1] = a /\ s[2] = b /\ s[3] = c /\ t[1] = d
      /\ u[1] = a /\ u[2] = b /\ u[3] = c /\ u[4] = d
  OBVIOUS
<1> HIDE DEF s, t, u
<1>5. /\ s \o t \in Seq(S) /\ Len(s \o t) = Len(s) + Len(t)
      /\ \A i \in 1..(Len(s) + Len(t)) : (s \o t)[i] = IF i <= Len(s) THEN s[i] ELSE t[i - Len(s)]
  BY <1>3, ConcatProperties
<1>6. \A i \in 1..4 : (s \o t)[i] = u[i]
  <2>1. \A i \in 1..4 : i = 1 \/ i = 2 \/ i = 3 \/ i = 4
    OBVIOUS
  <2>2. (s \o t)[1] = a /\ (s \o t)[2] = b /\ (s \o t)[3] = c /\ (s \o t)[4] = d
    BY <1>4, <1>5
  <2> QED
    BY <1>4, <2>1, <2>2
<1>7. s \o t = u
  BY <1>3, <1>4, <1>5, <1>6, SeqEqual
<1> QED
  BY <1>7 DEF s, t, u

\* the requests of the last HTTP stage
LEMMA HttpLast ==
    HttpFiles \o HttpOutside =
      << Fetch("POST /files/f", StatusOnly, Response("201", "")),
         Fetch("/files/f", ButType, Response("200", "content")),
         Fetch("/files/missing", StatusOnly, Response("404", "")),
         Fetch("/files/outside", {}, Response("404", "")) >>
  BY ThreeAndOne DEF HttpFiles, HttpOutside

\* x is request s of stage n
HttpIs(n, s, x) == Stages[n][s] = x

\* the requests of the other HTTP stages
LEMMA HttpScript ==
    ASSUME task = "http"
    PROVE  /\ HttpIs(1, 1, Fetch("/", StatusOnly, Response("200", "")))
           /\ HttpIs(2, 1, Fetch("/nonexistent", StatusOnly, Response("404", "")))
           /\ HttpIs(3, 1, Fetch("/echo/word", Fields, Response("200", "word")))
           /\ HttpIs(4, 1, Fetch("/user-agent", Fields, Response("200", "agent")))
           /\ HttpIs(5, 1, Fetch("POST /files/f", StatusOnly, Response("201", "")))
           /\ HttpIs(5, 2, Fetch("/files/f", ButType, Response("200", "content")))
           /\ HttpIs(5, 3, Fetch("/files/missing", StatusOnly, Response("404", "")))
           /\ HttpIs(5, 4, Fetch("/files/outside", {}, Response("404", "")))
<1>1. Stages = HttpStages
  BY DEF Stages, ByTask
<1>2. Stages[1] = HttpRoot /\ Stages[2] = HttpNotFound /\ Stages[3] = HttpEcho /\ Stages[4] = HttpUserAgent
  BY <1>1 DEF HttpStages
<1>3. Stages[5] = HttpFiles \o HttpOutside
  BY <1>1 DEF HttpStages
<1>0. \A f : <<f>>[1] = f
  OBVIOUS
<1>4. HttpIs(1, 1, Fetch("/", StatusOnly, Response("200", "")))
  BY <1>0, <1>2 DEF HttpRoot, HttpIs
<1>5. HttpIs(2, 1, Fetch("/nonexistent", StatusOnly, Response("404", "")))
  BY <1>0, <1>2 DEF HttpNotFound, HttpIs
<1>6. HttpIs(3, 1, Fetch("/echo/word", Fields, Response("200", "word")))
  BY <1>0, <1>2 DEF HttpEcho, HttpIs
<1>7. HttpIs(4, 1, Fetch("/user-agent", Fields, Response("200", "agent")))
  BY <1>0, <1>2 DEF HttpUserAgent, HttpIs
<1>8. /\ HttpIs(5, 1, Fetch("POST /files/f", StatusOnly, Response("201", "")))
      /\ HttpIs(5, 2, Fetch("/files/f", ButType, Response("200", "content")))
      /\ HttpIs(5, 3, Fetch("/files/missing", StatusOnly, Response("404", "")))
      /\ HttpIs(5, 4, Fetch("/files/outside", {}, Response("404", "")))
  <2> DEFINE a == Fetch("POST /files/f", StatusOnly, Response("201", ""))
             b == Fetch("/files/f", ButType, Response("200", "content"))
             c == Fetch("/files/missing", StatusOnly, Response("404", ""))
             d == Fetch("/files/outside", {}, Response("404", ""))
  <2>1. Stages[5] = <<a, b, c, d>>
    BY <1>3, HttpLast
  <2> HIDE DEF a, b, c, d
  <2>2. Stages[5][1] = a /\ Stages[5][2] = b /\ Stages[5][3] = c /\ Stages[5][4] = d
    BY <2>1
  <2> QED
    BY <2>2 DEF a, b, c, d, HttpIs
<1> QED
  BY <1>4, <1>5, <1>6, <1>7, <1>8

\* how many requests a stage of the HTTP verifier makes
LEMMA HttpScriptLength ==
    ASSUME task = "http", stage \in 1..5
    PROVE  DOMAIN Stages[stage] = 1..HttpLength(stage) /\ Len(Stages[stage]) = HttpLength(stage)
<1>1. Stages = HttpStages
  BY DEF Stages, ByTask
<1>2. CASE stage \in 1..4
  <2>1. \A f : DOMAIN <<f>> = 1..1 /\ Len(<<f>>) = 1
    OBVIOUS
  <2>2. Stages[stage] \in {HttpRoot, HttpNotFound, HttpEcho, HttpUserAgent}
    BY <1>1, <1>2 DEF HttpStages
  <2>3. HttpLength(stage) = 1
    BY <1>2 DEF HttpLength
  <2>4. \A s \in {HttpRoot, HttpNotFound, HttpEcho, HttpUserAgent} : DOMAIN s = 1..1 /\ Len(s) = 1
    BY <2>1 DEF HttpRoot, HttpNotFound, HttpEcho, HttpUserAgent
  <2> QED
    BY <2>2, <2>3, <2>4
<1>3. CASE stage = 5
  <2>1. Stages[stage] = HttpFiles \o HttpOutside
    BY <1>1, <1>3 DEF HttpStages
  <2>2. \A a, b, c, d : DOMAIN <<a, b, c, d>> = 1..4 /\ Len(<<a, b, c, d>>) = 4
    OBVIOUS
  <2>3. HttpLength(stage) = 4
    BY <1>3 DEF HttpLength
  <2> QED
    BY <2>1, <2>2, <2>3, HttpLast
<1> QED
  BY <1>2, <1>3

\* what is looked at, and what is known of the answer that is wanted
HttpKnown(n, s, x) ==
    /\ x.path = "/files/outside" <=> n = 5 /\ s = 4
    /\ x.want.body # "foreign" /\ DOMAIN x.want = Fields
    /\ x.judge \subseteq Fields
    /\ \A f \in Fields : f \in x.judge \/ <<s, f>> \in HttpLenient \/ (n = 5 /\ s = 4)
    /\ n = 5 /\ s = 4 => x.want.status = "404"

\* what is known of a request by the way it is written
LEMMA HttpFetchKnown ==
    ASSUME NEW n \in 1..5, NEW s \in 1..HttpLength(n),
           NEW path, NEW status, NEW body, NEW judge \in SUBSET Fields,
           body # "foreign", path = "/files/outside" <=> n = 5 /\ s = 4,
           n = 5 /\ s = 4 => status = "404",
           \A f \in Fields : f \in judge \/ <<s, f>> \in HttpLenient \/ (n = 5 /\ s = 4)
    PROVE  HttpKnown(n, s, Fetch(path, judge, Response(status, body)))
<1> DEFINE x == Fetch(path, judge, Response(status, body))
<1>1. x.path = path /\ x.judge = judge /\ x.want = Response(status, body)
  BY DEF Fetch
<1>2. /\ Response(status, body).status = status /\ Response(status, body).body = body
      /\ DOMAIN Response(status, body) = Fields
  BY DEF Response, Fields
<1> HIDE DEF x
<1>3. HttpKnown(n, s, x)
  BY <1>1, <1>2 DEF HttpKnown
<1> QED
  BY <1>3 DEF x

\* what is known of each request of the script
LEMMA HttpRequest ==
    ASSUME task = "http", stage \in 1..5, NEW s \in 1..HttpLength(stage)
    PROVE  HttpKnown(stage, s, Stages[stage][s])
<1> DEFINE Known(path, judge, status, body) ==
               HttpKnown(stage, s, Fetch(path, judge, Response(status, body)))
<1>1. StatusOnly \in SUBSET Fields /\ ButType \in SUBSET Fields /\ Fields \in SUBSET Fields /\ {} \in SUBSET Fields
  BY DEF StatusOnly, ButType, Fields
<1>2. CASE stage \in {1, 2}
  <2>1. s = 1
    BY <1>2 DEF HttpLength
  <2>2. \A f \in Fields : f \in StatusOnly \/ <<s, f>> \in HttpLenient
    BY <1>2, <2>1 DEF HttpLenient, StatusOnly
  <2>3. /\ ~(stage = 5 /\ s = 4) /\ "/" # "/files/outside" /\ "/nonexistent" # "/files/outside"
        /\ "" # "foreign" /\ \A f \in Fields : f \in StatusOnly \/ <<s, f>> \in HttpLenient \/ (stage = 5 /\ s = 4)
    BY <1>2, <2>2
  <2>4. Known("/", StatusOnly, "200", "")
    BY <1>1, <2>3, HttpFetchKnown
  <2>5. Known("/nonexistent", StatusOnly, "404", "")
    BY <1>1, <2>3, HttpFetchKnown
  <2> QED
    BY <1>2, <2>1, <2>4, <2>5, HttpScript DEF HttpIs
<1>3. CASE stage \in {3, 4}
  <2>1. s = 1
    BY <1>3 DEF HttpLength
  <2>2. Known("/echo/word", Fields, "200", "word") /\ Known("/user-agent", Fields, "200", "agent")
    BY <1>1, <1>3, HttpFetchKnown
  <2> QED
    BY <1>3, <2>1, <2>2, HttpScript DEF HttpIs
<1>4. CASE stage = 5
  <2>1. s \in {1, 2, 3, 4}
    BY <1>4 DEF HttpLength
  <2>2. HttpLenient = {1, 3} \X (Fields \ {"status"}) \cup {<<2, "type">>}
    BY <1>4 DEF HttpLenient
  <2>3. CASE s \in {1, 3}
    <3>1. \A f \in Fields : f \in StatusOnly \/ <<s, f>> \in HttpLenient
      BY <2>2, <2>3 DEF StatusOnly
    <3>2. /\ ~(stage = 5 /\ s = 4) /\ "POST /files/f" # "/files/outside" /\ "/files/missing" # "/files/outside"
          /\ "" # "foreign" /\ \A f \in Fields : f \in StatusOnly \/ <<s, f>> \in HttpLenient \/ (stage = 5 /\ s = 4)
      BY <2>3, <3>1
    <3>3. Known("POST /files/f", StatusOnly, "201", "")
      BY <1>1, <3>2, HttpFetchKnown
    <3>4. Known("/files/missing", StatusOnly, "404", "")
      BY <1>1, <3>2, HttpFetchKnown
    <3> QED
      BY <1>4, <2>3, <3>3, <3>4, HttpScript DEF HttpIs
  <2>4. CASE s = 2
    <3>1. \A f \in Fields : f \in ButType \/ <<s, f>> \in HttpLenient
      BY <2>2, <2>4 DEF ButType
    <3>2. Known("/files/f", ButType, "200", "content")
      BY <1>1, <1>4, <2>4, <3>1, HttpFetchKnown
    <3> QED
      BY <1>4, <2>4, <3>2, HttpScript DEF HttpIs
  <2>5. CASE s = 4
    <3>1. Known("/files/outside", {}, "404", "")
      BY <1>1, <1>4, <2>5, HttpFetchKnown
    <3> QED
      BY <1>4, <2>5, <3>1, HttpScript DEF HttpIs
  <2> QED
    BY <2>1, <2>3, <2>4, <2>5
<1> QED
  BY <1>2, <1>3, <1>4

HttpAnswers(want) == {want} \cup HttpWrong(want)

\* what a request that was answered so proves
HttpProof(r) ==
    proven \cup {<<step, f>> : f \in {g \in Fields : r[g] = X.want[g]}}
           \cup (IF r.body = "foreign" THEN {} ELSE {<<step, "inside">>})

\* the last request is looked at for what lies outside only
LEMMA HttpAspects ==
    ASSUME task = "http", stage \in 1..5
    PROVE  /\ Lenient = HttpLenient
           /\ \A s \in 1..HttpLength(stage) : Aspects(s) = IF stage = 5 /\ s = 4 THEN {"inside"} ELSE Fields
<1>1. Lenient = HttpLenient
  BY DEF Lenient, ByTask
<1>2. ASSUME NEW s \in 1..HttpLength(stage)
      PROVE  Aspects(s) = IF stage = 5 /\ s = 4 THEN {"inside"} ELSE Fields
  <2>1. Stages[stage][s].path = "/files/outside" <=> stage = 5 /\ s = 4
    BY HttpRequest DEF HttpKnown
  <2> QED
    BY <2>1 DEF Aspects, ByTask
<1> QED
  BY <1>1, <1>2

\* no right body is the foreign one
LEMMA HttpOtherBody ==
    ASSUME NEW want, DOMAIN want = Fields, want.body # "foreign", NEW r \in HttpAnswers(want),
           r.body = "foreign"
    PROVE  r.status = "200"
<1>1. CASE r = want
  BY <1>1
<1>2. ASSUME NEW f \in Fields, r = [want EXCEPT ![f] = "other"] PROVE FALSE
  <2>1. r.body = IF f = "body" THEN "other" ELSE want.body
    BY <1>2 DEF Fields
  <2> QED
    BY <2>1
<1>3. CASE r = Response("200", "foreign")
  BY <1>3 DEF Response
<1> QED
  BY <1>1, <1>2, <1>3 DEF HttpAnswers, HttpWrong

\* an accepted response has proven what its request asks, but for HttpLenient
LEMMA HttpJudged ==
    ASSUME task = "http", stage \in 1..5, step \in 1..HttpLength(stage),
           NEW r \in HttpAnswers(X.want), HttpAccepts(X, r)
    PROVE  \A a \in Aspects(step) : <<step, a>> \in HttpProof(r) \cup HttpLenient
<1>1. HttpKnown(stage, step, X)
  BY HttpRequest DEF X
<1>2. CASE stage = 5 /\ step = 4
  <2>1. Aspects(step) = {"inside"}
    BY <1>2, HttpAspects
  <2>2. r.body # "foreign"
    BY <1>1, <1>2, HttpOtherBody DEF HttpKnown, HttpAccepts
  <2> QED
    BY <2>1, <2>2 DEF HttpProof
<1>3. CASE ~(stage = 5 /\ step = 4)
  <2>1. Aspects(step) = Fields
    BY <1>3, HttpAspects
  <2> SUFFICES ASSUME NEW f \in Fields PROVE <<step, f>> \in HttpProof(r) \cup HttpLenient
    BY <2>1
  <2>2. CASE f \in X.judge
    <3>1. r[f] = X.want[f]
      BY <2>2 DEF HttpAccepts
    <3> QED
      BY <3>1 DEF HttpProof
  <2>3. CASE f \notin X.judge
    BY <1>1, <1>3, <2>3 DEF HttpKnown
  <2> QED
    BY <2>2, <2>3
<1> QED
  BY <1>2, <1>3

\* a script goes on, or has come to its end
LEMMA HttpContinued ==
    ASSUME ResultsInv, task = "http", phase = "send", HttpInv,
           NEW proof, proven \subseteq proof,
           \A a \in Aspects(step) : <<step, a>> \in proof \cup HttpLenient,
           Continue(step + 1, proof),
           task' = task, disqualified' = disqualified,
           honest' \in BOOLEAN, prompt' \in BOOLEAN, honest' => honest, prompt' => prompt
    PROVE  ResultsInv' /\ (Exchanging' => task' = "http" /\ HttpInv')
<1>1. /\ stage \in 1..5 /\ step \in 1..HttpLength(stage) /\ stage \in Nat /\ step \in Nat
      /\ Len(Stages[stage]) = HttpLength(stage) /\ DOMAIN Stages[stage] = 1..HttpLength(stage)
  BY HttpScriptLength DEF HttpInv, HttpLength
<1>2. \A s \in 1..step : \A a \in Aspects(s) : <<s, a>> \in proof \cup HttpLenient
  <2> SUFFICES ASSUME NEW s \in 1..step
               PROVE  \A a \in Aspects(s) : <<s, a>> \in proof \cup HttpLenient
    OBVIOUS
  <2>1. step \in Nat
    BY <1>1
  <2>2. CASE s = step
    BY <2>2
  <2>3. CASE s # step
    <3>1. s \in 1..(step - 1)
      BY <2>1, <2>3
    <3>2. \A a \in Aspects(s) : <<s, a>> \in proven \cup HttpLenient
      BY <3>1 DEF HttpInv
    <3> QED
      BY <3>2
  <2> QED
    BY <2>2, <2>3
<1>3. CASE step + 1 > Len(Stages[stage])
  <2>1. Conclude(TRUE, stage, proof)
    BY <1>3 DEF Continue
  <2>2. 1..HttpLength(stage) = 1..step
    BY <1>1, <1>3 DEF HttpLength
  <2>3. Earned(proof)
    BY <1>1, <1>2, <2>2, HttpAspects DEF Earned
  <2> QED
    BY <1>1, <2>1, <2>3, Concluded
<1>4. CASE ~(step + 1 > Len(Stages[stage]))
  <2>1. /\ step' = step + 1 /\ phase' = "send" /\ proven' = proof
        /\ UNCHANGED <<stage, results, unearned>>
    BY <1>4 DEF Continue
  <2>2. ResultsInv'
    BY <2>1, SameResults
  <2>3. \A s : Aspects(s)' = Aspects(s)
    BY <2>1 DEF Aspects, ByTask, Stages
  <2>4. HttpLenient' = HttpLenient
    BY <2>1 DEF HttpLenient
  <2>5. step' \in 1..HttpLength(stage) /\ step' - 1 = step
    BY <1>1, <1>4, <2>1
  <2>6. HttpInv'
    BY <1>1, <1>2, <2>1, <2>3, <2>4, <2>5 DEF HttpInv, HttpLength
  <2> QED
    BY <2>2, <2>6
<1> QED
  BY <1>3, <1>4

\* the steps of the HTTP verifier
LEMMA HttpStep ==
    ASSUME Inv, HttpExchange \/ HttpSilence
    PROVE  Inv'
<1> USE DEF Inv
<1>1. /\ task = "http" /\ phase = "send" /\ HttpInv
      /\ stage \in 1..5 /\ stage \in Nat /\ step \in 1..HttpLength(stage)
      /\ honest \in BOOLEAN /\ prompt \in BOOLEAN
      /\ task' = task /\ disqualified' = disqualified /\ prompt' = prompt
  <2>1. task = "http" /\ phase = "send" /\ UNCHANGED <<pipelineVars, prompt>>
    BY DEF HttpExchange, HttpSilence
  <2>2. HttpInv
    BY <2>1 DEF ExchangeInv, Exchanging
  <2>3. stage \in 1..5 /\ step \in 1..HttpLength(stage)
    BY <2>2 DEF HttpInv, HttpLength
  <2> QED
    BY <2>1, <2>2, <2>3 DEF ResultsInv, OrderInv, pipelineVars
<1>2. HttpKnown(stage, step, X)
  BY <1>1, HttpRequest DEF X
<1>3. ASSUME Fail, honest' \in BOOLEAN, ~(honest' /\ prompt') PROVE ResultsInv' /\ ~Exchanging'
  BY <1>1, <1>3, Concluded DEF Fail
<1>4. CASE HttpExchange
  <2>1. PICK r \in HttpAnswers(X.want) :
           /\ IF HttpAccepts(X, r) THEN Continue(step + 1, HttpProof(r)) ELSE Fail
           /\ honest' = (honest /\ r = X.want)
    BY <1>4 DEF HttpExchange, HttpAnswers, HttpProof
  <2>2. honest' \in BOOLEAN /\ (honest' => honest /\ r = X.want)
    BY <1>1, <2>1
  <2>3. CASE HttpAccepts(X, r)
    <3>1. proven \subseteq HttpProof(r)
      BY DEF HttpProof
    <3>2. \A a \in Aspects(step) : <<step, a>> \in HttpProof(r) \cup HttpLenient
      BY <1>1, <2>3, HttpJudged
    <3>3. Continue(step + 1, HttpProof(r))
      BY <2>1, <2>3
    <3> DEFINE proof == HttpProof(r)
    <3> HIDE DEF proof
    <3>4. ResultsInv' /\ (Exchanging' => task' = "http" /\ HttpInv')
      <4>1. proven \subseteq proof /\ Continue(step + 1, proof)
        BY <3>1, <3>3 DEF proof
      <4>2. \A a \in Aspects(step) : <<step, a>> \in proof \cup HttpLenient
        BY <3>2 DEF proof
      <4> QED
        BY <1>1, <2>2, <4>1, <4>2, HttpContinued
    <3> QED
      BY <3>4 DEF ExchangeInv
  <2>4. CASE ~HttpAccepts(X, r)
    <3>1. r # X.want
      BY <1>2, <2>4 DEF HttpAccepts, HttpKnown
    <3>2. Fail /\ honest' = FALSE
      BY <2>1, <2>4, <3>1
    <3> QED
      BY <1>3, <3>2 DEF ExchangeInv
  <2> QED
    BY <2>3, <2>4
<1>5. CASE HttpSilence
  <2>1. honest' = FALSE
    BY <1>5 DEF HttpSilence
  <2>2. CASE X.path = "/files/outside"
    <3> DEFINE proof == proven \cup {<<step, "inside">>}
    <3>1. proven \subseteq proof /\ Continue(step + 1, proof)
      BY <1>5, <2>2 DEF HttpSilence
    <3>2. \A a \in Aspects(step) : <<step, a>> \in proof \cup HttpLenient
      <4>1. stage = 5 /\ step = 4
        BY <1>2, <2>2 DEF HttpKnown
      <4>2. Aspects(step) = {"inside"}
        BY <1>1, <4>1, HttpAspects
      <4> QED
        BY <4>2
    <3> HIDE DEF proof
    <3>3. ResultsInv' /\ (Exchanging' => task' = "http" /\ HttpInv')
      BY <1>1, <2>1, <3>1, <3>2, HttpContinued
    <3> QED
      BY <3>3 DEF ExchangeInv
  <2>3. CASE X.path # "/files/outside"
    <3>1. Fail
      BY <1>5, <2>3 DEF HttpSilence
    <3> QED
      BY <1>3, <2>1, <3>1 DEF ExchangeInv
  <2> QED
    BY <2>2, <2>3
<1> QED
  BY <1>4, <1>5

-----------------------------------------------------------------------------
(* Redis: the scripts *)

Command(x, cmd, key, arg, judge, want) ==
    /\ x.cmd = cmd /\ x.key = key /\ x.arg = arg
    /\ x.judge = judge /\ x.want = want

\* the fields of a command whose answer is compared
LEMMA SayIs ==
    ASSUME NEW cmd, NEW key, NEW arg, NEW want
    PROVE  Command(Say(cmd, key, arg, want), cmd, key, arg, "equal", want)
  BY DEF Command, Say, Do

\* the fields of a command
LEMMA DoIs ==
    ASSUME NEW cmd, NEW key, NEW arg, NEW judge, NEW want
    PROVE  Command(Do(cmd, key, arg, judge, want), cmd, key, arg, judge, want)
  BY DEF Command, Do

\* u has these ten elements
Ten(u, a, b, c, d, e, f, g, h, i, j) ==
    /\ Len(u) = 10 /\ DOMAIN u = 1..10
    /\ u[1] = a /\ u[2] = b /\ u[3] = c /\ u[4] = d /\ u[5] = e /\ u[6] = f
    /\ u[7] = g /\ u[8] = h /\ u[9] = i /\ u[10] = j

\* the elements of six commands with four behind them
LEMMA SixAndFour ==
    ASSUME NEW a, NEW b, NEW c, NEW d, NEW e, NEW f, NEW g, NEW h, NEW i, NEW j
    PROVE  Ten(<<a, b, c, d, e, f>> \o <<g, h, i, j>>, a, b, c, d, e, f, g, h, i, j)
<1> DEFINE T == {a, b, c, d, e, f, g, h, i, j}
           s == <<a, b, c, d, e, f>>
           t == <<g, h, i, j>>
<1>1. /\ \A S : \A k1, k2, k3, k4, k5, k6 \in S : <<k1, k2, k3, k4, k5, k6>> \in Seq(S)
      /\ \A S : \A k1, k2, k3, k4 \in S : <<k1, k2, k3, k4>> \in Seq(S)
  OBVIOUS
<1>2. /\ a \in T /\ b \in T /\ c \in T /\ d \in T /\ e \in T /\ f \in T
      /\ g \in T /\ h \in T /\ i \in T /\ j \in T
  OBVIOUS
<1> HIDE DEF T
<1>3. s \in Seq(T) /\ t \in Seq(T)
  BY <1>1, <1>2
<1>4. /\ Len(s) = 6 /\ Len(t) = 4
      /\ s[1] = a /\ s[2] = b /\ s[3] = c /\ s[4] = d /\ s[5] = e /\ s[6] = f
      /\ t[1] = g /\ t[2] = h /\ t[3] = i /\ t[4] = j
  OBVIOUS
<1> HIDE DEF s, t
<1>5. /\ s \o t \in Seq(T) /\ Len(s \o t) = Len(s) + Len(t)
      /\ \A k \in 1..(Len(s) + Len(t)) : (s \o t)[k] = IF k <= Len(s) THEN s[k] ELSE t[k - Len(s)]
  BY <1>3, ConcatProperties
<1> DEFINE w == s \o t
<1>6. /\ Len(w) = 10 /\ DOMAIN w = 1..10
      /\ \A k \in 1..10 : w[k] = IF k <= 6 THEN s[k] ELSE t[k - 6]
  <2>1. Len(s) + Len(t) = 10 /\ Len(s) = 6
    BY <1>4
  <2>2. DOMAIN w = 1..Len(w)
    BY <1>5, LenProperties
  <2> QED
    BY <1>5, <2>1, <2>2
<1> HIDE DEF w
<1>7. w[1] = a /\ w[2] = b /\ w[3] = c /\ w[4] = d /\ w[5] = e /\ w[6] = f
  BY <1>4, <1>6
<1>8. w[7] = g /\ w[8] = h /\ w[9] = i /\ w[10] = j
  BY <1>4, <1>6
<1> QED
  BY <1>6, <1>7, <1>8 DEF s, t, w, Ten

RedisLength(s) == IF s = 1 THEN 2 ELSE IF s = 2 THEN 10 ELSE IF s = 3 THEN 3 ELSE 5

\* the handshake
LEMMA Script1 ==
    ASSUME task = "redis"
    PROVE  /\ Len(Stages[1]) = 2 /\ DOMAIN Stages[1] = 1..2
           /\ Command(Stages[1][1], "PING", "", "", "equal", Line("+", "PONG"))
           /\ Command(Stages[1][2], "ECHO", "", "e", "equal", Bulk(<<"e">>))
<1> DEFINE a == Say("PING", "", "", Line("+", "PONG"))
           b == Say("ECHO", "", "e", Bulk(<<"e">>))
<1>1. Stages[1] = <<a, b>>
  BY DEF Stages, ByTask, RedisStages, RedisHandshake
<1>2. /\ Command(a, "PING", "", "", "equal", Line("+", "PONG"))
      /\ Command(b, "ECHO", "", "e", "equal", Bulk(<<"e">>))
  BY SayIs
<1> HIDE DEF a, b
<1>3. Len(Stages[1]) = 2 /\ DOMAIN Stages[1] = 1..2 /\ Stages[1][1] = a /\ Stages[1][2] = b
  BY <1>1
<1> QED
  BY <1>2, <1>3

\* the key-value stage and the pipelined commands after it
LEMMA Script2 ==
    ASSUME task = "redis"
    PROVE  /\ Len(Stages[2]) = 10 /\ DOMAIN Stages[2] = 1..10
           /\ Command(Stages[2][1], "SET", "k", "v", "equal", Ok)
           /\ Command(Stages[2][2], "GET", "k", "", "equal", Bulk(<<"v">>))
           /\ Command(Stages[2][3], "EXISTS", "k", "", "equal", Number("1"))
           /\ Command(Stages[2][4], "DEL", "k", "", "equal", Number("1"))
           /\ Command(Stages[2][5], "GET", "k", "", "equal", Nil)
           /\ Command(Stages[2][6], "EXISTS", "k", "", "equal", Number("0"))
           /\ Command(Stages[2][7], "SET", "p1", "v1", "pipe", Ok)
           /\ Command(Stages[2][8], "SET", "p2", "v2", "pipe", Ok)
           /\ Command(Stages[2][9], "GET", "p1", "", "pipe", Bulk(<<"v1">>))
           /\ Command(Stages[2][10], "GET", "p2", "", "pipe", Bulk(<<"v2">>))
<1> DEFINE a == Say("SET", "k", "v", Ok)
           b == Say("GET", "k", "", Bulk(<<"v">>))
           c == Say("EXISTS", "k", "", Number("1"))
           d == Say("DEL", "k", "", Number("1"))
           e == Say("GET", "k", "", Nil)
           f == Say("EXISTS", "k", "", Number("0"))
           g == Do("SET", "p1", "v1", "pipe", Ok)
           h == Do("SET", "p2", "v2", "pipe", Ok)
           i == Do("GET", "p1", "", "pipe", Bulk(<<"v1">>))
           j == Do("GET", "p2", "", "pipe", Bulk(<<"v2">>))
<1>1. Stages[2] = <<a, b, c, d, e, f>> \o <<g, h, i, j>>
  BY DEF Stages, ByTask, RedisStages, RedisKeyValue, RedisPipelined
<1>2. /\ Command(a, "SET", "k", "v", "equal", Ok)
      /\ Command(b, "GET", "k", "", "equal", Bulk(<<"v">>))
      /\ Command(c, "EXISTS", "k", "", "equal", Number("1"))
      /\ Command(d, "DEL", "k", "", "equal", Number("1"))
      /\ Command(e, "GET", "k", "", "equal", Nil)
      /\ Command(f, "EXISTS", "k", "", "equal", Number("0"))
  BY SayIs
<1>3. /\ Command(g, "SET", "p1", "v1", "pipe", Ok)
      /\ Command(h, "SET", "p2", "v2", "pipe", Ok)
      /\ Command(i, "GET", "p1", "", "pipe", Bulk(<<"v1">>))
      /\ Command(j, "GET", "p2", "", "pipe", Bulk(<<"v2">>))
  BY DoIs
<1> HIDE DEF a, b, c, d, e, f, g, h, i, j
<1>4. /\ Len(Stages[2]) = 10 /\ DOMAIN Stages[2] = 1..10
      /\ Stages[2][1] = a /\ Stages[2][2] = b /\ Stages[2][3] = c /\ Stages[2][4] = d
      /\ Stages[2][5] = e /\ Stages[2][6] = f
      /\ Stages[2][7] = g /\ Stages[2][8] = h /\ Stages[2][9] = i /\ Stages[2][10] = j
  BY <1>1, SixAndFour DEF Ten
<1> QED
  BY <1>2, <1>3, <1>4

\* the expiry
LEMMA Script3 ==
    ASSUME task = "redis"
    PROVE  /\ Len(Stages[3]) = 3 /\ DOMAIN Stages[3] = 1..3
           /\ Command(Stages[3][1], "SETPX", "ttl", "v", "equal", Ok)
           /\ Command(Stages[3][2], "GET", "ttl", "", "equal", Bulk(<<"v">>))
           /\ Command(Stages[3][3], "GET", "ttl", "", "equal", Nil)
           /\ Stages[3][1].pause = 0 /\ Stages[3][2].pause = 0 /\ Stages[3][3].pause = TtlPause
<1> DEFINE a == Say("SETPX", "ttl", "v", Ok)
           b == Say("GET", "ttl", "", Bulk(<<"v">>))
           c == [Say("GET", "ttl", "", Nil) EXCEPT !.pause = TtlPause]
<1>1. Stages[3] = <<a, b, c>>
  BY DEF Stages, ByTask, RedisStages, RedisExpiration
<1>2. /\ Command(a, "SETPX", "ttl", "v", "equal", Ok) /\ a.pause = 0
      /\ Command(b, "GET", "ttl", "", "equal", Bulk(<<"v">>)) /\ b.pause = 0
      /\ Command(c, "GET", "ttl", "", "equal", Nil) /\ c.pause = TtlPause
  BY DEF Command, Say, Do
<1> HIDE DEF a, b, c
<1>3. Len(Stages[3]) = 3 /\ DOMAIN Stages[3] = 1..3 /\ Stages[3][1] = a /\ Stages[3][2] = b /\ Stages[3][3] = c
  BY <1>1
<1> QED
  BY <1>2, <1>3

\* the counters
LEMMA Script4 ==
    ASSUME task = "redis"
    PROVE  /\ Len(Stages[4]) = 5 /\ DOMAIN Stages[4] = 1..5
           /\ Command(Stages[4][1], "INCR", "cnt", "", "equal", Number("1"))
           /\ Command(Stages[4][2], "INCR", "cnt", "", "equal", Number("2"))
           /\ Command(Stages[4][3], "DECR", "cnt", "", "equal", Number("1"))
           /\ Command(Stages[4][4], "SET", "str", "word", "ignore", Ok)
           /\ Command(Stages[4][5], "INCR", "str", "", "error", Failure)
<1> DEFINE a == Say("INCR", "cnt", "", Number("1"))
           b == Say("INCR", "cnt", "", Number("2"))
           c == Say("DECR", "cnt", "", Number("1"))
           d == Do("SET", "str", "word", "ignore", Ok)
           e == Do("INCR", "str", "", "error", Failure)
<1>1. Stages[4] = <<a, b, c, d, e>>
  BY DEF Stages, ByTask, RedisStages, RedisCounters
<1>2. /\ Command(a, "INCR", "cnt", "", "equal", Number("1"))
      /\ Command(b, "INCR", "cnt", "", "equal", Number("2"))
      /\ Command(c, "DECR", "cnt", "", "equal", Number("1"))
      /\ Command(d, "SET", "str", "word", "ignore", Ok)
      /\ Command(e, "INCR", "str", "", "error", Failure)
  BY SayIs, DoIs
<1> HIDE DEF a, b, c, d, e
<1>3. /\ Len(Stages[4]) = 5 /\ DOMAIN Stages[4] = 1..5
      /\ Stages[4][1] = a /\ Stages[4][2] = b /\ Stages[4][3] = c /\ Stages[4][4] = d /\ Stages[4][5] = e
  BY <1>1
<1> QED
  BY <1>2, <1>3

\* how many commands a stage of the Redis verifier sends
LEMMA ScriptLengths ==
    ASSUME task = "redis", NEW s \in 1..4
    PROVE  Len(Stages[s]) = RedisLength(s) /\ DOMAIN Stages[s] = 1..RedisLength(s)
<1>1. s = 1 \/ s = 2 \/ s = 3 \/ s = 4
  OBVIOUS
<1> QED
  BY <1>1, Script1, Script2, Script3, Script4 DEF RedisLength

-----------------------------------------------------------------------------
(* Redis: what a server answers rightly that has kept what it was told     *)

\* the right answer to x, command n of the stage, and what is kept after it
RightAnswer(n, x) ==
    /\ Answer(x) \in Replies
    /\ x.judge \in {"equal", "error", "ignore"}
    /\ x.judge = "equal" => Answer(x) = x.want \/ (stage = 3 /\ n = 2 /\ life = 0 /\ x.want = Bulk(<<"v">>))
    /\ x.judge = "error" => Answer(x) = Failure
    /\ x.judge = "ignore" <=> stage = 4 /\ n = 4
    /\ x.judge = "error" <=> stage = 4 /\ n = 5
    /\ x.cmd = "SETPX" <=> stage = 3 /\ n = 1
    /\ Stored(x) = [k \in Keys |-> Stored(x)[k]]
    /\ Kept(stage, Stored(x), n + 1)

\* the replies, one by one
LEMMA RepliesAre ==
    /\ Ok \in Replies /\ Line("+", "PONG") \in Replies /\ Failure \in Replies /\ Nil \in Replies
    /\ Number("0") \in Replies /\ Number("1") \in Replies /\ Number("2") \in Replies
    /\ Bulk(<<"e">>) \in Replies /\ Bulk(<<"v">>) \in Replies /\ Bulk(<<"cr", "lf">>) \in Replies
    /\ Array(0, <<>>) \in Replies /\ Array(2, Nil \o Array(1, Ok)) \in Replies
  BY DEF Replies

\* the right answers of the handshake
LEMMA RightAnswer1 ==
    ASSUME task = "redis", stage = 1, NEW n \in 1..2, store = [k \in Keys |-> store[k]]
    PROVE  RightAnswer(n, Stages[1][n])
<1> DEFINE x == Stages[1][n]
<1>1. CASE n = 1
  <2>1. Command(x, "PING", "", "", "equal", Line("+", "PONG"))
    BY <1>1, Script1
  <2> HIDE DEF x
  <2>2. Answer(x) = Line("+", "PONG") /\ Stored(x) = store
    BY <2>1 DEF Command, Answer, Stored
  <2>7. x.cmd = "PING" /\ x.judge = "equal" /\ x.want = Line("+", "PONG")
    BY <2>1 DEF Command
  <2>8. Kept(stage, Stored(x), n + 1)
    BY <1>1, <2>2 DEF Kept
  <2>9. RightAnswer(n, x)
    BY <1>1, <2>2, <2>7, <2>8, RepliesAre DEF RightAnswer
  <2> QED
    BY <2>9 DEF x
<1>2. CASE n = 2
  <2>1. Command(x, "ECHO", "", "e", "equal", Bulk(<<"e">>))
    BY <1>2, Script1
  <2> HIDE DEF x
  <2>2. Answer(x) = Bulk(<<"e">>) /\ Stored(x) = store
    BY <2>1 DEF Command, Answer, Stored
  <2>7. x.cmd = "ECHO" /\ x.judge = "equal" /\ x.want = Bulk(<<"e">>)
    BY <2>1 DEF Command
  <2>8. Kept(stage, Stored(x), n + 1)
    BY <1>2, <2>2 DEF Kept
  <2>9. RightAnswer(n, x)
    BY <1>2, <2>2, <2>7, <2>8, RepliesAre DEF RightAnswer
  <2> QED
    BY <2>9 DEF x
<1> QED
  BY <1>1, <1>2

\* only the expiring key may be gone by itself
LEMMA PlainValue == \A key : key # "ttl" => Value(key) = store[key]
  BY DEF Value

\* the right answers of the key-value stage
LEMMA RightAnswer2 ==
    ASSUME task = "redis", stage = 2, NEW n \in 1..6, store = [k \in Keys |-> store[k]],
           Kept(2, store, n)
    PROVE  RightAnswer(n, Stages[2][n])
<1> DEFINE x == Stages[2][n]
<1>0. "k" \in Keys /\ Value("k") = store["k"]
  BY PlainValue DEF Keys
<1>1. CASE n = 1
  <2>1. Command(x, "SET", "k", "v", "equal", Ok)
    BY <1>1, Script2
  <2> HIDE DEF x
  <2>2. Answer(x) = Ok /\ Stored(x) = [store EXCEPT !["k"] = "v"]
    BY <2>1 DEF Command, Answer, Stored
  <2>3. Stored(x)["k"] = "v" /\ Stored(x) = [k \in Keys |-> Stored(x)[k]]
    BY <1>0, <2>2
  <2>7. x.cmd = "SET" /\ x.judge = "equal" /\ x.want = Ok
    BY <2>1 DEF Command
  <2>8. Kept(stage, Stored(x), n + 1)
    BY <1>1, <2>2, <2>3 DEF Kept
  <2>9. RightAnswer(n, x)
    BY <1>1, <2>2, <2>3, <2>7, <2>8, RepliesAre DEF RightAnswer
  <2> QED
    BY <2>9 DEF x
<1>2. CASE n = 2
  <2>1. Command(x, "GET", "k", "", "equal", Bulk(<<"v">>))
    BY <1>2, Script2
  <2>2. store["k"] = "v"
    BY <1>2 DEF Kept
  <2> HIDE DEF x
  <2>3. Answer(x) = Bulk(<<"v">>) /\ Stored(x) = store
    BY <1>0, <2>1, <2>2 DEF Command, Answer, Stored
  <2>7. x.cmd = "GET" /\ x.judge = "equal" /\ x.want = Bulk(<<"v">>)
    BY <2>1 DEF Command
  <2>8. Kept(stage, Stored(x), n + 1)
    BY <1>2, <2>2, <2>3 DEF Kept
  <2>9. RightAnswer(n, x)
    BY <1>2, <2>2, <2>3, <2>7, <2>8, RepliesAre DEF RightAnswer
  <2> QED
    BY <2>9 DEF x
<1>3. CASE n = 3
  <2>1. Command(x, "EXISTS", "k", "", "equal", Number("1"))
    BY <1>3, Script2
  <2>2. store["k"] = "v"
    BY <1>3 DEF Kept
  <2> HIDE DEF x
  <2>3. Answer(x) = Number("1") /\ Stored(x) = store
    BY <1>0, <2>1, <2>2 DEF Command, Answer, Stored
  <2>7. x.cmd = "EXISTS" /\ x.judge = "equal" /\ x.want = Number("1")
    BY <2>1 DEF Command
  <2>8. Kept(stage, Stored(x), n + 1)
    BY <1>3, <2>2, <2>3 DEF Kept
  <2>9. RightAnswer(n, x)
    BY <1>3, <2>2, <2>3, <2>7, <2>8, RepliesAre DEF RightAnswer
  <2> QED
    BY <2>9 DEF x
<1>4. CASE n = 4
  <2>1. Command(x, "DEL", "k", "", "equal", Number("1"))
    BY <1>4, Script2
  <2>2. store["k"] = "v"
    BY <1>4 DEF Kept
  <2> HIDE DEF x
  <2>3. Answer(x) = Number("1") /\ Stored(x) = [store EXCEPT !["k"] = "none"]
    BY <1>0, <2>1, <2>2 DEF Command, Answer, Stored
  <2>4. Stored(x)["k"] = "none" /\ Stored(x) = [k \in Keys |-> Stored(x)[k]]
    BY <1>0, <2>3
  <2>7. x.cmd = "DEL" /\ x.judge = "equal" /\ x.want = Number("1")
    BY <2>1 DEF Command
  <2>8. Kept(stage, Stored(x), n + 1)
    BY <1>4, <2>3, <2>4 DEF Kept
  <2>9. RightAnswer(n, x)
    BY <1>4, <2>3, <2>4, <2>7, <2>8, RepliesAre DEF RightAnswer
  <2> QED
    BY <2>9 DEF x
<1>5. CASE n = 5
  <2>1. Command(x, "GET", "k", "", "equal", Nil)
    BY <1>5, Script2
  <2>2. store["k"] = "none"
    BY <1>5 DEF Kept
  <2> HIDE DEF x
  <2>3. Answer(x) = Nil /\ Stored(x) = store
    BY <1>0, <2>1, <2>2 DEF Command, Answer, Stored
  <2>7. x.cmd = "GET" /\ x.judge = "equal" /\ x.want = Nil
    BY <2>1 DEF Command
  <2>8. Kept(stage, Stored(x), n + 1)
    BY <1>5, <2>2, <2>3 DEF Kept
  <2>9. RightAnswer(n, x)
    BY <1>5, <2>2, <2>3, <2>7, <2>8, RepliesAre DEF RightAnswer
  <2> QED
    BY <2>9 DEF x
<1>6. CASE n = 6
  <2>1. Command(x, "EXISTS", "k", "", "equal", Number("0"))
    BY <1>6, Script2
  <2>2. store["k"] = "none"
    BY <1>6 DEF Kept
  <2> HIDE DEF x
  <2>3. Answer(x) = Number("0") /\ Stored(x) = store
    BY <1>0, <2>1, <2>2 DEF Command, Answer, Stored
  <2>7. x.cmd = "EXISTS" /\ x.judge = "equal" /\ x.want = Number("0")
    BY <2>1 DEF Command
  <2>8. Kept(stage, Stored(x), n + 1)
    BY <1>6, <2>2, <2>3 DEF Kept
  <2>9. RightAnswer(n, x)
    BY <1>6, <2>2, <2>3, <2>7, <2>8, RepliesAre DEF RightAnswer
  <2> QED
    BY <2>9 DEF x
<1> QED
  BY <1>1, <1>2, <1>3, <1>4, <1>5, <1>6

\* the right answers of the expiry: the second one depends on the time
LEMMA RightAnswer3 ==
    ASSUME task = "redis", stage = 3, NEW n \in 1..3, store = [k \in Keys |-> store[k]],
           Kept(3, store, n), n = 3 => life = 0
    PROVE  RightAnswer(n, Stages[3][n])
<1> DEFINE x == Stages[3][n]
<1>0. "ttl" \in Keys
  BY DEF Keys
<1>1. CASE n = 1
  <2>1. Command(x, "SETPX", "ttl", "v", "equal", Ok)
    BY <1>1, Script3
  <2> HIDE DEF x
  <2>2. Answer(x) = Ok /\ Stored(x) = [store EXCEPT !["ttl"] = "v"]
    BY <2>1 DEF Command, Answer, Stored
  <2>3. Stored(x)["ttl"] = "v" /\ Stored(x) = [k \in Keys |-> Stored(x)[k]]
    BY <1>0, <2>2
  <2>7. x.cmd = "SETPX" /\ x.judge = "equal" /\ x.want = Ok
    BY <2>1 DEF Command
  <2>8. Kept(stage, Stored(x), n + 1)
    BY <1>1, <2>2, <2>3 DEF Kept
  <2>9. RightAnswer(n, x)
    BY <1>1, <2>2, <2>3, <2>7, <2>8, RepliesAre DEF RightAnswer
  <2> QED
    BY <2>9 DEF x
<1>2. CASE n = 2
  <2>1. Command(x, "GET", "ttl", "", "equal", Bulk(<<"v">>))
    BY <1>2, Script3
  <2>2. store["ttl"] = "v"
    BY <1>2 DEF Kept
  <2> HIDE DEF x
  <2>3. Stored(x) = store
    BY <2>1 DEF Command, Stored
  <2>4. CASE life = 0
    <3>1. Answer(x) = Nil
      BY <2>1, <2>4 DEF Command, Answer, Value
    <3>7. x.cmd = "GET" /\ x.judge = "equal" /\ x.want = Bulk(<<"v">>)
      BY <2>1 DEF Command
    <3>8. Kept(stage, Stored(x), n + 1)
      BY <1>2, <2>2, <2>3, <2>4, <3>1 DEF Kept
    <3>9. RightAnswer(n, x)
      BY <1>2, <2>2, <2>3, <2>4, <3>1, <3>7, <3>8, RepliesAre DEF RightAnswer
    <3> QED
      BY <3>9 DEF x
  <2>5. CASE life # 0
    <3>1. Answer(x) = Bulk(<<"v">>)
      BY <2>1, <2>2, <2>5 DEF Command, Answer, Value
    <3>7. x.cmd = "GET" /\ x.judge = "equal" /\ x.want = Bulk(<<"v">>)
      BY <2>1 DEF Command
    <3>8. Kept(stage, Stored(x), n + 1)
      BY <1>2, <2>2, <2>3, <3>1 DEF Kept
    <3>9. RightAnswer(n, x)
      BY <1>2, <2>2, <2>3, <3>1, <3>7, <3>8, RepliesAre DEF RightAnswer
    <3> QED
      BY <3>9 DEF x
  <2> QED
    BY <2>4, <2>5
<1>3. CASE n = 3
  <2>1. Command(x, "GET", "ttl", "", "equal", Nil)
    BY <1>3, Script3
  <2>2. store["ttl"] = "v"
    BY <1>3 DEF Kept
  <2> HIDE DEF x
  <2>3. Answer(x) = Nil /\ Stored(x) = store
    BY <1>3, <2>1 DEF Command, Answer, Stored, Value
  <2>7. x.cmd = "GET" /\ x.judge = "equal" /\ x.want = Nil
    BY <2>1 DEF Command
  <2>8. Kept(stage, Stored(x), n + 1)
    BY <1>3, <2>2, <2>3 DEF Kept
  <2>9. RightAnswer(n, x)
    BY <1>3, <2>2, <2>3, <2>7, <2>8, RepliesAre DEF RightAnswer
  <2> QED
    BY <2>9 DEF x
<1> QED
  BY <1>1, <1>2, <1>3

\* the right answers of the counters
LEMMA RightAnswer4 ==
    ASSUME task = "redis", stage = 4, NEW n \in 1..5, store = [k \in Keys |-> store[k]],
           Kept(4, store, n)
    PROVE  RightAnswer(n, Stages[4][n])
<1> DEFINE x == Stages[4][n]
<1>0. /\ "cnt" \in Keys /\ "str" \in Keys
      /\ Value("cnt") = store["cnt"] /\ Value("str") = store["str"]
  BY PlainValue DEF Keys
<1>7. Size["1"] = 1 /\ Size["2"] = 2
  BY DEF Size
<1>1. CASE n = 1
  <2>1. Command(x, "INCR", "cnt", "", "equal", Number("1"))
    BY <1>1, Script4
  <2>2. store["cnt"] = "none"
    BY <1>1 DEF Kept
  <2> HIDE DEF x
  <2>3. Count("cnt") + 1 = 1
    BY <1>0, <2>2 DEF Count
  <2>4. Answer(x) = Number("1") /\ Stored(x) = [store EXCEPT !["cnt"] = "1"]
    BY <1>0, <2>1, <2>2, <2>3, DigitsAre DEF Command, Answer, Stored
  <2>5. Stored(x)["cnt"] = "1" /\ Stored(x) = [k \in Keys |-> Stored(x)[k]]
    BY <1>0, <2>4
  <2>7. x.cmd = "INCR" /\ x.judge = "equal" /\ x.want = Number("1")
    BY <2>1 DEF Command
  <2>8. Kept(stage, Stored(x), n + 1)
    BY <1>1, <2>4, <2>5 DEF Kept
  <2>9. RightAnswer(n, x)
    BY <1>1, <2>4, <2>5, <2>7, <2>8, RepliesAre DEF RightAnswer
  <2> QED
    BY <2>9 DEF x
<1>2. CASE n = 2
  <2>1. Command(x, "INCR", "cnt", "", "equal", Number("2"))
    BY <1>2, Script4
  <2>2. store["cnt"] = "1"
    BY <1>2 DEF Kept
  <2> HIDE DEF x
  <2>3. Count("cnt") + 1 = 2
    BY <1>0, <1>7, <2>2 DEF Count
  <2>4. Answer(x) = Number("2") /\ Stored(x) = [store EXCEPT !["cnt"] = "2"]
    BY <1>0, <2>1, <2>2, <2>3, DigitsAre DEF Command, Answer, Stored
  <2>5. Stored(x)["cnt"] = "2" /\ Stored(x) = [k \in Keys |-> Stored(x)[k]]
    BY <1>0, <2>4
  <2>7. x.cmd = "INCR" /\ x.judge = "equal" /\ x.want = Number("2")
    BY <2>1 DEF Command
  <2>8. Kept(stage, Stored(x), n + 1)
    BY <1>2, <2>4, <2>5 DEF Kept
  <2>9. RightAnswer(n, x)
    BY <1>2, <2>4, <2>5, <2>7, <2>8, RepliesAre DEF RightAnswer
  <2> QED
    BY <2>9 DEF x
<1>3. CASE n = 3
  <2>1. Command(x, "DECR", "cnt", "", "equal", Number("1"))
    BY <1>3, Script4
  <2>2. store["cnt"] = "2"
    BY <1>3 DEF Kept
  <2> HIDE DEF x
  <2>3. Count("cnt") - 1 = 1
    BY <1>0, <1>7, <2>2 DEF Count
  <2>4. Answer(x) = Number("1") /\ Stored(x) = [store EXCEPT !["cnt"] = "1"]
    BY <1>0, <2>1, <2>2, <2>3, DigitsAre DEF Command, Answer, Stored
  <2>5. Stored(x)["cnt"] = "1" /\ Stored(x) = [k \in Keys |-> Stored(x)[k]]
    BY <1>0, <2>4
  <2>7. x.cmd = "DECR" /\ x.judge = "equal" /\ x.want = Number("1")
    BY <2>1 DEF Command
  <2>8. Kept(stage, Stored(x), n + 1)
    BY <1>3, <2>4, <2>5 DEF Kept
  <2>9. RightAnswer(n, x)
    BY <1>3, <2>4, <2>5, <2>7, <2>8, RepliesAre DEF RightAnswer
  <2> QED
    BY <2>9 DEF x
<1>4. CASE n = 4
  <2>1. Command(x, "SET", "str", "word", "ignore", Ok)
    BY <1>4, Script4
  <2>2. store["cnt"] = "1"
    BY <1>4 DEF Kept
  <2> HIDE DEF x
  <2>3. Answer(x) = Ok /\ Stored(x) = [store EXCEPT !["str"] = "word"]
    BY <2>1 DEF Command, Answer, Stored
  <2>4. /\ Stored(x)["str"] = "word" /\ Stored(x)["cnt"] = "1"
        /\ Stored(x) = [k \in Keys |-> Stored(x)[k]]
    BY <1>0, <2>2, <2>3
  <2>7. x.cmd = "SET" /\ x.judge = "ignore" /\ x.want = Ok
    BY <2>1 DEF Command
  <2>8. Kept(stage, Stored(x), n + 1)
    BY <1>4, <2>3, <2>4 DEF Kept
  <2>9. RightAnswer(n, x)
    BY <1>4, <2>3, <2>4, <2>7, <2>8, RepliesAre DEF RightAnswer
  <2> QED
    BY <2>9 DEF x
<1>5. CASE n = 5
  <2>1. Command(x, "INCR", "str", "", "error", Failure)
    BY <1>5, Script4
  <2>2. store["cnt"] = "1" /\ store["str"] = "word"
    BY <1>5 DEF Kept
  <2> HIDE DEF x
  <2>3. Answer(x) = Failure /\ Stored(x) = store
    BY <1>0, <2>1, <2>2 DEF Command, Answer, Stored
  <2>7. x.cmd = "INCR" /\ x.judge = "error" /\ x.want = Failure
    BY <2>1 DEF Command
  <2>8. Kept(stage, Stored(x), n + 1)
    BY <1>5, <2>2, <2>3 DEF Kept
  <2>9. RightAnswer(n, x)
    BY <1>5, <2>2, <2>3, <2>7, <2>8, RepliesAre DEF RightAnswer
  <2> QED
    BY <2>9 DEF x
<1> QED
  BY <1>1, <1>2, <1>3, <1>4, <1>5

-----------------------------------------------------------------------------
(* Redis: the exchange of a stage's commands *)

\* within a stage the script stays, within a step the request
LEMMA SameRequest ==
    ASSUME task' = task, stage' = stage
    PROVE  Stages' = Stages /\ (step' = step => X' = X)
<1>1. Stages' = Stages
  BY DEF Stages, ByTask
<1> QED
  BY <1>1 DEF X

\* how the answer to command n of stage s is judged
Judged(s, n, x) ==
    /\ x.judge \in {"equal", "error", "ignore", "pipe"}
    /\ x.judge = "pipe" <=> s = 2 /\ n >= 7
    /\ x.judge = "ignore" <=> s = 4 /\ n = 4
    /\ x.judge = "error" <=> s = 4 /\ n = 5

\* how each command of the scripts is judged
LEMMA JudgedIs ==
    ASSUME task = "redis", NEW s \in 1..4, NEW n \in 1..RedisLength(s)
    PROVE  Judged(s, n, Stages[s][n])
<1>0. \A x, cmd, key, arg, judge, want : Command(x, cmd, key, arg, judge, want) => x.judge = judge
  BY DEF Command
<1>1. CASE s = 1
  <2>1. n = 1 \/ n = 2
    BY <1>1 DEF RedisLength
  <2>2. Stages[1][1].judge = "equal" /\ Stages[1][2].judge = "equal"
    BY <1>0, Script1
  <2> QED
    BY <1>1, <2>1, <2>2 DEF Judged
<1>2. CASE s = 2
  <2>1. n \in 1..6 \/ n \in 7..10
    BY <1>2 DEF RedisLength
  <2>2. /\ Stages[2][1].judge = "equal" /\ Stages[2][2].judge = "equal" /\ Stages[2][3].judge = "equal"
        /\ Stages[2][4].judge = "equal" /\ Stages[2][5].judge = "equal" /\ Stages[2][6].judge = "equal"
        /\ Stages[2][7].judge = "pipe" /\ Stages[2][8].judge = "pipe"
        /\ Stages[2][9].judge = "pipe" /\ Stages[2][10].judge = "pipe"
    BY <1>0, Script2
  <2>3. n \in 1..6 => Stages[2][n].judge = "equal"
    BY <2>2
  <2>4. n \in 7..10 => Stages[2][n].judge = "pipe"
    BY <2>2
  <2> QED
    BY <1>2, <2>1, <2>3, <2>4 DEF Judged
<1>3. CASE s = 3
  <2>1. n = 1 \/ n = 2 \/ n = 3
    BY <1>3 DEF RedisLength
  <2>2. Stages[3][1].judge = "equal" /\ Stages[3][2].judge = "equal" /\ Stages[3][3].judge = "equal"
    BY <1>0, Script3
  <2> QED
    BY <1>3, <2>1, <2>2 DEF Judged
<1>4. CASE s = 4
  <2>1. n = 1 \/ n = 2 \/ n = 3 \/ n = 4 \/ n = 5
    BY <1>4 DEF RedisLength
  <2>2. /\ Stages[4][1].judge = "equal" /\ Stages[4][2].judge = "equal" /\ Stages[4][3].judge = "equal"
        /\ Stages[4][4].judge = "ignore" /\ Stages[4][5].judge = "error"
    BY <1>0, Script4
  <2> QED
    BY <1>4, <2>1, <2>2 DEF Judged
<1> QED
  BY <1>1, <1>2, <1>3, <1>4

\* where a stage of the Redis verifier can be
RedisAt ==
    /\ task = "redis" /\ stage \in 1..4 /\ stage \in Nat
    /\ step \in 1..RedisLength(stage) /\ step \in Nat
    /\ stage = 2 => step <= 7
    /\ RedisLength(stage) \in Nat

\* where the Redis verifier is, and how it judges there
LEMMA RedisIsAt ==
    ASSUME task = "redis", RedisTypeInv
    PROVE  /\ RedisAt /\ Judged(stage, step, X)
           /\ Pipelined <=> ~Single
           /\ Batch = IF Single THEN 1 ELSE 4
           /\ Len(Stages[stage]) = RedisLength(stage) /\ DOMAIN Stages[stage] = 1..RedisLength(stage)
<1>1. RedisAt
  BY DEF RedisTypeInv, RedisAt, RedisLength
<1>2. Judged(stage, step, X)
  BY <1>1, JudgedIs DEF RedisAt, X
<1>3. Pipelined <=> ~Single
  BY <1>1, <1>2 DEF Judged, Pipelined, Single, RedisAt
<1> QED
  BY <1>1, <1>2, <1>3, ScriptLengths DEF Batch, RedisAt

\* a Redis stage is earned by its last answers when the earlier ones were proven
LEMMA RedisEarned ==
    ASSUME task = "redis", RedisTypeInv,
           \A n \in 1..(step - 1) : Proved(n),
           \A n \in step..RedisLength(stage) : <<n, "value">> \in proven \cup RedisLenient
    PROVE  Earned(proven)
<1>1. DOMAIN Stages[stage] = 1..RedisLength(stage) /\ step \in Nat /\ RedisLength(stage) \in Nat
  BY RedisIsAt DEF RedisAt
<1>2. Lenient = RedisLenient /\ \A s : Aspects(s) = {"value"}
  BY DEF Lenient, Aspects, ByTask
<1>3. \A n \in 1..(step - 1) : <<n, "value">> \in proven \cup RedisLenient
  <2>1. stage = 4 => <<4, "value">> \in RedisLenient
    BY DEF RedisLenient
  <2> QED
    BY <2>1 DEF Proved
<1>4. \A n \in 1..RedisLength(stage) : <<n, "value">> \in proven \cup RedisLenient
  <2> SUFFICES ASSUME NEW n \in 1..RedisLength(stage) PROVE <<n, "value">> \in proven \cup RedisLenient
    OBVIOUS
  <2>1. n \in 1..(step - 1) \/ n \in step..RedisLength(stage)
    BY <1>1
  <2> QED
    BY <1>3, <2>1
<1> QED
  BY <1>1, <1>2, <1>4 DEF Earned

\* the exchange goes on to the next command
LEMMA RedisContinues ==
    ASSUME ResultsInv, RedisInv, task = "redis", phase \in {"send", "read"},
           Continue(step + 1, proven), step + 1 <= RedisLength(stage), Single, Proved(step),
           task' = task, disqualified' = disqualified, store' = store,
           honest' \in BOOLEAN, prompt' \in BOOLEAN, honest' => honest, prompt' => prompt,
           late' \in BOOLEAN,
           late' => stage = 4 /\ step = 4 /\ ~(honest' /\ prompt'),
           ~late' => /\ asked = <<>> /\ wire = <<>>
                     /\ open => Kept(stage, store, step + 1)
                     /\ stage = 3 /\ step = 1 /\ prompt' => life' >= 2,
           stage = 3 => life' \in 0..Ttl
    PROVE  Inv'
<1>1. /\ RedisAt /\ Len(Stages[stage]) = RedisLength(stage) /\ RedisTypeInv
  BY RedisIsAt DEF RedisInv
<1>2. ~(step + 1 > Len(Stages[stage]))
  BY <1>1 DEF RedisAt
<1>3. /\ step' = step + 1 /\ phase' = "send" /\ proven' = proven
      /\ buf' = <<>> /\ waited' = 0
      /\ UNCHANGED <<stage, results, unearned, asked, wire, open>>
  BY <1>2 DEF Continue
<1>4. ResultsInv'
  BY <1>3, SameResults
<1>5. step' \in 1..(IF stage = 1 THEN 2 ELSE IF stage = 2 THEN 7 ELSE IF stage = 3 THEN 3 ELSE 5)
  BY <1>1, <1>3 DEF RedisAt, RedisLength, Single
<1>6. RedisTypeInv'
  BY <1>1, <1>3, <1>5 DEF RedisTypeInv
<1>7. \A n \in 1..(step' - 1) : Proved(n)'
  <2>1. \A n \in 1..(step' - 1) : n \in 1..(step - 1) \/ n = step
    BY <1>1, <1>3 DEF RedisAt
  <2>2. \A n : Proved(n)' <=> Proved(n)
    BY <1>3 DEF Proved
  <2> QED
    BY <2>1, <2>2 DEF RedisInv
<1>8. ~late' => Idle' /\ (open' => Kept(stage, store, step)') /\ Lives'
  <2>1. ~late' => Lives'
    BY <1>1, <1>3 DEF Lives, RedisAt
  <2>2. ~late' => Idle' /\ (open' => Kept(stage, store, step)')
    BY <1>3 DEF Idle
  <2> QED
    BY <2>1, <2>2
<1>9. RedisInv'
  <2>1. honest' => open'
    BY <1>3 DEF RedisInv
  <2>2. late' => stage' = 4 /\ step' = 5 /\ ~(honest' /\ prompt')
    BY <1>3
  <2>3. phase' = "send" /\ waited' = 0
    BY <1>3
  <2> QED
    BY <1>6, <1>7, <1>8, <2>1, <2>2, <2>3 DEF RedisInv
<1> QED
  BY <1>3, <1>4, <1>9 DEF Inv, ExchangeInv

\* the last answer of a stage has been accepted
LEMMA RedisConcludes ==
    ASSUME ResultsInv, RedisInv, task = "redis", phase \in {"send", "read"},
           Continue(step + Batch, proven), step + Batch > RedisLength(stage),
           \A n \in step..RedisLength(stage) : <<n, "value">> \in proven \cup RedisLenient,
           task' = task, disqualified' = disqualified,
           honest' \in BOOLEAN, prompt' \in BOOLEAN, honest' => honest, prompt' => prompt
    PROVE  Inv'
<1>1. RedisAt /\ Len(Stages[stage]) = RedisLength(stage) /\ RedisTypeInv
  BY RedisIsAt DEF RedisInv
<1>2. Conclude(TRUE, stage, proven)
  BY <1>1 DEF Continue
<1>3. Earned(proven)
  BY <1>1, RedisEarned DEF RedisInv
<1>4. ResultsInv' /\ ~Exchanging'
  BY <1>1, <1>2, <1>3, Concluded DEF RedisAt
<1> QED
  BY <1>4 DEF Inv, ExchangeInv

\* a stage that fails, of a server that was not honest or not prompt
LEMMA RedisFails ==
    ASSUME ResultsInv, task = "redis", phase \in {"connect", "send", "read"},
           Fail, task' = task, disqualified' = disqualified,
           honest' \in BOOLEAN, prompt' \in BOOLEAN, ~(honest' /\ prompt')
    PROVE  Inv'
<1>1. stage \in Nat
  BY StagesCount DEF ResultsInv, OrderInv
<1>2. ResultsInv' /\ ~Exchanging'
  BY <1>1, Concluded DEF Fail
<1> QED
  BY <1>2 DEF Inv, ExchangeInv

\* a step of the server, or the request being sent
LEMMA RedisReads ==
    ASSUME ResultsInv, RedisInv, task = "redis", phase \in {"send", "read"}, phase' = "read",
           UNCHANGED <<task, disqualified, stage, step, results, unearned, late, prompt>>,
           honest' \in BOOLEAN, honest' => honest /\ open',
           proven \subseteq proven', RedisTypeInv',
           ~late /\ Single => SingleInv',
           ~late /\ ~Single => PipeInv'
    PROVE  Inv'
<1>1. ResultsInv'
  <2>1. prompt' \in BOOLEAN
    BY DEF ResultsInv, OrderInv
  <2> QED
    BY <2>1, SameResults
<1>2. \A n \in 1..(step' - 1) : Proved(n)'
  <2>1. \A n : Proved(n) => Proved(n)'
    BY DEF Proved
  <2> QED
    BY <2>1 DEF RedisInv
<1>3. Single' <=> Single
  BY DEF Single
<1>4. RedisInv'
  BY <1>2, <1>3 DEF RedisInv
<1> QED
  BY <1>1, <1>4 DEF Inv, ExchangeInv

\* what Inv says while a Redis exchange is under way
LEMMA RedisReading ==
    ASSUME Inv, task = "redis", phase \in {"send", "read"}
    PROVE  /\ ResultsInv /\ RedisInv /\ RedisTypeInv
           /\ honest \in BOOLEAN /\ prompt \in BOOLEAN /\ late \in BOOLEAN /\ open \in BOOLEAN
           /\ ~disqualified
  BY DEF Inv, ExchangeInv, Exchanging, RedisInv, RedisTypeInv, ResultsInv, OrderInv

-----------------------------------------------------------------------------
(* Redis: a command is sent *)

\* the empty buffer
LEMMA Nothing ==
    /\ <<>> \in Seq(Tokens) /\ Len(<<>>) = 0 /\ <<>> \o <<>> = <<>>
    /\ ~Contains(<<>>, "v1")
  BY EmptySeq DEF Contains

\* the steps that a batch of commands asks of the server
LEMMA Asked ==
    ASSUME NEW n \in Nat
    PROVE  /\ <<>> \o [i \in 1..1 |-> n + i - 1] = <<n>>
           /\ <<>> \o [i \in 1..4 |-> n + i - 1] = [i \in 1..4 |-> n + i - 1]
<1>1. /\ [i \in 1..1 |-> n + i - 1] \in Seq(Nat)
      /\ [i \in 1..4 |-> n + i - 1] \in Seq(Nat)
  <2>1. ASSUME NEW m \in Nat PROVE [i \in 1..m |-> n + i - 1] \in Seq(Nat)
    <3>1. \A i \in 1..m : n + i - 1 \in Nat
      OBVIOUS
    <3> QED
      BY <3>1, IsASeq
  <2> QED
    BY <2>1
<1>2. [i \in 1..1 |-> n + i - 1] = <<n>>
  OBVIOUS
<1> QED
  BY <1>1, <1>2, ConcatEmptySeq

\* time takes from the life of a key what has passed
LEMMA Aged ==
    ASSUME NEW d \in Nat, life \in Nat
    PROVE  /\ Older(d) \in 0..life /\ Older(d) + d >= life
           /\ life <= d => Older(d) = 0
           /\ d = 0 => Older(d) = life
  BY DEF Older

\* only the last command of the expiry is sent after a pause
LEMMA Pauses ==
    ASSUME RedisAt, stage = 3
    PROVE  (step \in {1, 2} /\ X.pause = 0) \/ (step = 3 /\ X.pause = 5)
<1>1. step = 1 \/ step = 2 \/ step = 3
  BY DEF RedisAt, RedisLength
<1>2. /\ Stages[3][1].pause = 0 /\ Stages[3][2].pause = 0 /\ Stages[3][3].pause = TtlPause
  BY Script3 DEF RedisAt
<1> QED
  BY <1>1, <1>2 DEF X, TtlPause

\* a command, or the four pipelined ones, is written
LEMMA SendStep ==
    ASSUME Inv, Send
    PROVE  Inv'
<1>1. /\ task = "redis" /\ phase = "send" /\ phase' = "read"
      /\ asked' = IF open THEN asked \o [i \in 1..Batch |-> step + i - 1] ELSE asked
      /\ life' = Older(X.pause)
      /\ UNCHANGED <<task, disqualified, stage, step, wire, buf, open, waited, store, results,
                     proven, unearned, late, honest, prompt>>
  BY DEF Send, pipelineVars, clock, history
<1>2. ResultsInv /\ RedisInv /\ RedisTypeInv /\ honest \in BOOLEAN
  BY <1>1, RedisReading
<1>3. RedisAt /\ Batch = IF Single THEN 1 ELSE 4
  BY <1>1, <1>2, RedisIsAt
<1>4. stage = 3 => /\ life' \in 0..Ttl
                   /\ step # 3 => life' = life
                   /\ step = 3 => life' = 0
  <2> SUFFICES ASSUME stage = 3 PROVE life' \in 0..Ttl /\ (step # 3 => life' = life) /\ (step = 3 => life' = 0)
    OBVIOUS
  <2>1. life \in 0..3
    BY <1>2 DEF RedisTypeInv, Ttl
  <2>2. CASE step \in {1, 2}
    <3>1. X.pause = 0
      BY <1>3, <2>2, Pauses
    <3>2. life' = life
      BY <1>1, <2>1, <3>1, Aged
    <3> QED
      BY <2>1, <2>2, <3>2 DEF Ttl
  <2>3. CASE step = 3
    <3>1. X.pause = 5
      BY <1>3, <2>3, Pauses
    <3>2. life' = 0
      BY <1>1, <2>1, <3>1 DEF Older
    <3> QED
      BY <2>3, <3>2 DEF Ttl
  <2> QED
    BY <1>3, <2>2, <2>3, Pauses
<1>5. RedisTypeInv'
  BY <1>1, <1>2, <1>4 DEF RedisTypeInv
<1>6. ~late => Idle /\ (open => Kept(stage, store, step)) /\ Lives
  BY <1>1, <1>2 DEF RedisInv
<1>7. ~late => Lives'
  BY <1>1, <1>4, <1>6 DEF Lives
<1>8. ASSUME ~late, Single PROVE SingleInv'
  <2>1. CASE open
    <3>1. asked' = <<step>>
      BY <1>1, <1>3, <1>6, <1>8, <2>1, Asked DEF Idle, RedisAt
    <3>2. Unanswered'
      BY <1>1, <1>4, <1>6, <1>7, <1>8, <2>1, <3>1 DEF Unanswered, Idle
    <3> QED
      BY <3>2 DEF SingleInv
  <2>2. CASE ~open
    <3>1. Unanswerable'
      BY <1>1, <1>6, <1>8, <2>2 DEF Unanswerable, Idle
    <3> QED
      BY <3>1 DEF SingleInv
  <2> QED
    BY <2>1, <2>2
<1>9. ASSUME ~late, ~Single PROVE PipeInv'
  <2>1. buf' = <<>> /\ wire' = <<>> /\ asked = <<>>
    BY <1>1, <1>6, <1>9 DEF Idle
  <2>2. CASE open
    <3>1. asked' = [i \in 1..4 |-> 7 + i - 1]
      BY <1>1, <1>3, <1>9, <2>1, <2>2, Asked DEF Single
    <3>2. asked' = [i \in 1..(4 - 0) |-> 6 + 0 + i]
      <4>1. [i \in 1..4 |-> 7 + i - 1] = [i \in 1..(4 - 0) |-> 6 + 0 + i]
        OBVIOUS
      <4> QED
        BY <3>1, <4>1
    <3>3. Len(buf' \o wire') = PipeLength[0 + 1]
      BY <2>1, Nothing DEF PipeLength
    <3>4. Piped(0)'
      BY <3>2, <3>3 DEF Piped
    <3> QED
      BY <1>1, <2>1, <2>2, <3>4, Nothing DEF PipeInv
  <2>3. CASE ~open
    BY <1>1, <2>1, <2>3, Nothing DEF PipeInv
  <2> QED
    BY <2>2, <2>3
<1>10. honest' => honest /\ open'
  BY <1>1, <1>2 DEF RedisInv
<1> QED
  BY <1>1, <1>2, <1>5, <1>8, <1>9, <1>10, RedisReads

\* a command cannot be written because the server has hung up
LEMMA SendFailsStep ==
    ASSUME Inv, SendFails
    PROVE  Inv'
<1>1. /\ task = "redis" /\ phase = "send" /\ ~open
      /\ life' = Older(X.pause)
      /\ IF X.judge \in {"pipe", "ignore"} THEN Continue(step + Batch, proven) ELSE Fail
      /\ UNCHANGED <<task, disqualified, store, late, honest, prompt>>
  BY DEF SendFails, pipelineVars
<1>2. ResultsInv /\ RedisInv /\ RedisTypeInv /\ honest = FALSE /\ prompt \in BOOLEAN
  BY <1>1, RedisReading DEF RedisInv
<1>3. RedisAt /\ Judged(stage, step, X) /\ (Batch = IF Single THEN 1 ELSE 4) /\ (Pipelined <=> ~Single)
  BY <1>1, <1>2, RedisIsAt
<1>4. CASE X.judge = "pipe"
  <2>1. stage = 2 /\ step = 7 /\ Batch = 4 /\ RedisLength(stage) = 10 /\ Continue(step + Batch, proven)
    BY <1>1, <1>3, <1>4 DEF Single, Pipelined, RedisLength
  <2>2. \A n \in step..RedisLength(stage) : <<n, "value">> \in proven \cup RedisLenient
    <3>1. \A n \in 7..10 : n \in {7, 8, 10} \/ n \in {9}
      OBVIOUS
    <3> QED
      BY <1>1, <2>1, <3>1 DEF RedisLenient
  <2>3. step + Batch > RedisLength(stage)
    BY <2>1
  <2> QED
    BY <1>1, <1>2, <2>1, <2>2, <2>3, RedisConcludes
<1>5. CASE X.judge = "ignore"
  <2>1. stage = 4 /\ step = 4 /\ Single /\ Batch = 1 /\ RedisLength(stage) = 5 /\ Continue(step + 1, proven)
    BY <1>1, <1>3, <1>5 DEF Judged, Single, RedisLength
  <2>2. Proved(step) /\ ~late /\ late \in BOOLEAN
    BY <1>2, <2>1 DEF Proved, RedisInv, RedisTypeInv
  <2>3. asked = <<>> /\ wire = <<>>
    BY <1>1, <1>2, <2>2 DEF RedisInv, Idle
  <2>4. /\ step + 1 <= RedisLength(stage) /\ stage # 3
    BY <2>1
  <2>5. /\ ~late' /\ late' \in BOOLEAN /\ honest' \in BOOLEAN /\ prompt' \in BOOLEAN
        /\ honest' = honest /\ prompt' = prompt
    BY <1>1, <1>2, <2>2
  <2> QED
    BY <1>1, <1>2, <2>1, <2>2, <2>3, <2>4, <2>5, RedisContinues
<1>6. CASE X.judge \notin {"pipe", "ignore"}
  BY <1>1, <1>2, <1>6, RedisFails
<1> QED
  BY <1>4, <1>5, <1>6

-----------------------------------------------------------------------------
(* Redis: the end of an exchange *)

\* what is in what has been read is in what has been written
LEMMA Appended ==
    ASSUME NEW u \in Seq(Tokens), NEW a \in Seq(Tokens)
    PROVE  /\ u \o a \in Seq(Tokens) /\ Len(u \o a) = Len(u) + Len(a)
           /\ \A i \in 1..Len(u) : (u \o a)[i] = u[i]
           /\ \A i \in 1..Len(a) : (u \o a)[Len(u) + i] = a[i]
           /\ \A e : Contains(u \o a, e) <=> Contains(u, e) \/ Contains(a, e)
<1> DEFINE w == u \o a
<1>1. /\ w \in Seq(Tokens) /\ Len(w) = Len(u) + Len(a) /\ Len(u) \in Nat /\ Len(a) \in Nat
      /\ \A i \in 1..(Len(u) + Len(a)) : w[i] = IF i <= Len(u) THEN u[i] ELSE a[i - Len(u)]
  BY ConcatProperties
<1> HIDE DEF w
<1>2. \A i \in 1..Len(u) : i \in 1..Len(w) /\ w[i] = u[i]
  BY <1>1
<1>3. ASSUME NEW i \in 1..Len(a) PROVE Len(u) + i \in 1..Len(w) /\ w[Len(u) + i] = a[i]
  <2>1. Len(u) + i \in 1..(Len(u) + Len(a)) /\ ~(Len(u) + i <= Len(u)) /\ (Len(u) + i) - Len(u) = i
    BY <1>1
  <2> QED
    BY <1>1, <2>1
<1>4. ASSUME NEW i \in 1..Len(w) PROVE (i \in 1..Len(u) /\ w[i] = u[i]) \/ (i - Len(u) \in 1..Len(a) /\ w[i] = a[i - Len(u)])
  BY <1>1
<1>5. ASSUME NEW e PROVE Contains(w, e) <=> Contains(u, e) \/ Contains(a, e)
  BY <1>2, <1>3, <1>4 DEF Contains
<1> QED
  BY <1>1, <1>2, <1>3, <1>5 DEF w

\* buffers joined are a buffer
LEMMA Joined ==
    \A u, a \in Seq(Tokens) : u \o a \in Seq(Tokens) /\ Len(u \o a) = Len(u) + Len(a)
  BY ConcatProperties

\* how much of the pipelined answers is waited for
LEMMA PipeSizeIs == PipeSize = 20
<1>1. Len(Ok) = 4 /\ Ok \in Seq(Tokens)
  BY LinesRecognised DEF Buffers
<1>2. \A S : \A t \in S : <<t>> \in Seq(S) /\ Len(<<t>>) = 1
  OBVIOUS
<1>3. /\ <<"v1">> \in Buffers /\ Len(<<"v1">>) = 1 /\ <<"v2">> \in Buffers /\ Len(<<"v2">>) = 1
  BY <1>2, TokensAre DEF Buffers
<1>4. /\ Bulk(<<"v1">>) \in Buffers /\ Len(Bulk(<<"v1">>)) = 7
      /\ Bulk(<<"v2">>) \in Buffers /\ Len(Bulk(<<"v2">>)) = 7
  <2>1. ASSUME NEW w \in Buffers, Len(w) = 1 PROVE Bulk(w) \in Buffers /\ Len(Bulk(w)) = 7
    <3>1. Len(w) \in {1, 2}
      BY <2>1
    <3>2. Bulk(w) \in Buffers /\ Len(Bulk(w)) = 6 + Len(w)
      BY <3>1, BulkShape
    <3> QED
      BY <2>1, <3>2
  <2> QED
    BY <1>3, <2>1
<1> DEFINE a == Ok
           b == Bulk(<<"v1">>)
           c == Bulk(<<"v2">>)
<1>6. a \in Seq(Tokens) /\ b \in Seq(Tokens) /\ c \in Seq(Tokens) /\ Len(a) = 4 /\ Len(b) = 7 /\ Len(c) = 7
  BY <1>1, <1>4 DEF Buffers
<1>7. PipeSize = Len(a \o a \o b \o c) - 2
  BY DEF PipeSize
<1> HIDE DEF a, b, c
<1> DEFINE d == a \o a
           e == d \o b
           f == e \o c
<1>8. d \in Seq(Tokens) /\ Len(d) = Len(a) + Len(a)
  BY <1>6, Joined, Zenon
<1>9. e \in Seq(Tokens) /\ Len(e) = Len(d) + Len(b)
  BY <1>6, <1>8, Joined, Zenon
<1>10. Len(f) = Len(e) + Len(c)
  BY <1>6, <1>9, Joined, Zenon
<1>11. PipeSize = Len(f) - 2
  BY <1>7
<1> HIDE DEF d, e, f
<1> QED
  BY <1>6, <1>8, <1>9, <1>10, <1>11

\* what the exchange holds while an answer is read
LEMMA ReadingNow ==
    ASSUME Inv, Reading, ~late
    PROVE  /\ Single => SingleInv /\ (Satisfied <=> IsComplete(buf)) /\ (Accepted <=> Accepts(X, buf))
           /\ ~Single => /\ PipeInv
                         /\ Satisfied <=> Len(buf) >= 20 \/ waited >= PipeTotal
                         /\ Accepted <=> PipeAccepted
<1>1. task = "redis" /\ phase = "read"
  BY DEF Reading
<1>2. RedisInv /\ RedisTypeInv
  BY <1>1, RedisReading
<1>3. (Pipelined <=> ~Single) /\ PipeSize = 20
  BY <1>1, <1>2, RedisIsAt, PipeSizeIs
<1> QED
  BY <1>1, <1>2, <1>3 DEF RedisInv, Satisfied, Accepted

\* a single answer is judged when it is there, and no earlier
LEMMA ReadWhole ==
    ASSUME Inv, Reading, ~late, Single
    PROVE  /\ IsComplete(buf) <=> Answered /\ wire = <<>>
           /\ IsComplete(buf) => buf # <<>> /\ asked = <<>> /\ buf \o wire = buf
<1>1. SingleInv
  BY ReadingNow
<1>2. CASE Unanswered \/ Unanswerable
  <2>1. buf = <<>> /\ wire = <<>>
    BY <1>2 DEF Unanswered, Unanswerable, Idle
  <2>2. ~IsComplete(buf)
    BY <2>1, NothingIsIncomplete
  <2>3. ~Answered
    <3>1. <<>> \notin Replies
      BY RepliesRecognised
    <3> QED
      BY <2>1, <3>1, Nothing DEF Answered
  <2> QED
    BY <2>2, <2>3
<1>3. CASE Answered
  <2>1. buf \in Buffers /\ wire \in Buffers /\ buf \o wire \in Replies /\ asked = <<>>
    BY <1>3 DEF Answered, Buffers
  <2>2. IsComplete(buf) <=> wire = <<>>
    BY <2>1, WholeWhenArrived
  <2>3. wire = <<>> => buf \o wire = buf
    BY <2>1, ConcatEmptySeq DEF Buffers
  <2>4. wire = <<>> => buf # <<>>
    BY <2>1, <2>3, RepliesRecognised
  <2> QED
    BY <1>3, <2>1, <2>2, <2>3, <2>4
<1> QED
  BY <1>1, <1>2, <1>3 DEF SingleInv

\* an honest server's pipelined answers are accepted when all of them are there
LEMMA PipeWhole ==
    ASSUME PipeInv, honest, open, Len(buf) >= 20
    PROVE  PipeAccepted
<1>1. PICK k \in 0..4 : Piped(k)
  BY DEF PipeInv
<1> DEFINE u == buf \o wire
<1>2. /\ Len(u) = PipeLength[k + 1]
      /\ k >= 1 => u[2] = "OK"
      /\ k >= 3 => u[13] = "v1"
  BY <1>1 DEF Piped
<1>3. /\ Len(u) = Len(buf) + Len(wire) /\ Len(buf) \in Nat /\ Len(wire) \in Nat
      /\ \A i \in 1..Len(buf) : u[i] = buf[i]
  BY Appended, LenProperties DEF PipeInv
<1> HIDE DEF u
<1>4. k = 4
  <2>1. Len(u) >= 20
    BY <1>3
  <2>2. k = 0 \/ k = 1 \/ k = 2 \/ k = 3 \/ k = 4
    OBVIOUS
  <2>3. PipeLength[1] = 0 /\ PipeLength[2] = 4 /\ PipeLength[3] = 8 /\ PipeLength[4] = 15
    BY DEF PipeLength
  <2> QED
    BY <1>2, <2>1, <2>2, <2>3
<1>5. 2 \in 1..Len(buf) /\ 13 \in 1..Len(buf)
  BY <1>3
<1>6. buf[2] = "OK" /\ buf[13] = "v1"
  BY <1>2, <1>3, <1>4, <1>5
<1> QED
  BY <1>5, <1>6 DEF PipeAccepted, Contains

\* pipelined answers that are accepted have earned the stage
LEMMA PipeEarns ==
    ASSUME Inv, task = "redis", phase = "read", ~Single, PipeAccepted,
           Continue(step + Batch, proven), task' = task, disqualified' = disqualified,
           honest' \in BOOLEAN, prompt' \in BOOLEAN, honest' => honest, prompt' => prompt
    PROVE  Inv'
<1>1. RedisInv /\ RedisTypeInv /\ ResultsInv
  BY RedisReading
<1>2. RedisAt /\ Batch = 4 /\ stage = 2 /\ step = 7 /\ RedisLength(stage) = 10
  BY <1>1, RedisIsAt DEF Single, RedisLength
<1>3. ~late /\ PipeInv
  BY <1>1, <1>2 DEF RedisInv
<1>4. Contains(buf \o wire, "v1")
  BY <1>3, Appended DEF PipeInv, PipeAccepted
<1>5. <<9, "value">> \in proven
  BY <1>3, <1>4 DEF PipeInv
<1>6. \A n \in step..RedisLength(stage) : <<n, "value">> \in proven \cup RedisLenient
  <2>1. \A n \in 7..10 : n \in {7, 8, 10} \/ n = 9
    OBVIOUS
  <2>2. \A n \in {7, 8, 10} : <<n, "value">> \in RedisLenient
    BY <1>2 DEF RedisLenient
  <2> QED
    BY <1>2, <1>5, <2>1, <2>2
<1>7. step + Batch > RedisLength(stage)
  BY <1>2
<1> QED
  BY <1>1, <1>6, <1>7, RedisConcludes

\* an answer is judged
LEMMA JudgeAnswerStep ==
    ASSUME Inv, JudgeAnswer
    PROVE  Inv'
<1>1. /\ task = "redis" /\ phase = "read" /\ Reading /\ Satisfied
      /\ IF Accepted THEN Continue(step + Batch, proven) ELSE Fail
      /\ prompt' = (prompt /\ waited <= 1)
      /\ UNCHANGED <<task, disqualified, store, life, late, honest>>
  BY DEF JudgeAnswer, Reading, pipelineVars
<1>2. /\ ResultsInv /\ RedisInv /\ RedisTypeInv /\ late \in BOOLEAN /\ waited \in Nat
      /\ honest' \in BOOLEAN /\ prompt' \in BOOLEAN /\ (honest' => honest) /\ (prompt' => prompt)
  BY <1>1, RedisReading DEF RedisTypeInv
<1>3. RedisAt /\ Judged(stage, step, X) /\ (Batch = IF Single THEN 1 ELSE 4) /\ (Pipelined <=> ~Single)
  BY <1>1, <1>2, RedisIsAt
<1>4. ASSUME ~Accepted, ~(honest' /\ prompt') PROVE Inv'
  BY <1>1, <1>2, <1>4, RedisFails
<1>5. CASE late
  <2>1. stage = 4 /\ step = 5 /\ ~(honest /\ prompt) /\ RedisLength(stage) = 5
    BY <1>2, <1>5 DEF RedisInv, RedisLength
  <2>2. Single /\ Batch = 1
    BY <1>3, <2>1 DEF Single
  <2>3. CASE Accepted
    <3>1. Continue(step + Batch, proven) /\ step + Batch > RedisLength(stage)
      BY <1>1, <2>1, <2>2, <2>3
    <3>2. \A n \in step..RedisLength(stage) : <<n, "value">> \in proven \cup RedisLenient
      <4>1. <<5, "value">> \in RedisLenient
        BY <1>5, <2>1 DEF RedisLenient
      <4>2. \A n \in 5..5 : n = 5
        OBVIOUS
      <4> QED
        BY <2>1, <4>1, <4>2
    <3> QED
      BY <1>1, <1>2, <3>1, <3>2, RedisConcludes
  <2> QED
    BY <1>2, <1>4, <2>1, <2>3
<1>6. CASE ~late /\ Single
  <2>1. Answered /\ wire = <<>> /\ asked = <<>> /\ buf \o wire = buf /\ (Accepted <=> Accepts(X, buf))
    BY <1>1, <1>6, ReadingNow, ReadWhole
  <2>2. CASE ~Accepted
    <3>1. ~(honest /\ prompt)
      BY <2>1, <2>2 DEF Answered
    <3> QED
      BY <1>2, <1>4, <2>2, <3>1
  <2>3. CASE Accepted
    <3>1. Proved(step)
      BY <1>3, <2>1, <2>3 DEF Answered, Judged, Proved
    <3>2. Continue(step + 1, proven) /\ Batch = 1
      BY <1>1, <1>3, <1>6, <2>3
    <3>3. CASE step + 1 <= RedisLength(stage)
      <4>1. stage = 3 => life' \in 0..Ttl
        BY <1>1, <1>2 DEF RedisTypeInv
      <4>2. open => Kept(stage, store, step + 1)
        BY <2>1 DEF Answered
      <4>3. stage = 3 /\ step = 1 /\ prompt' => life' >= 2
        <5> SUFFICES ASSUME stage = 3, step = 1, prompt' PROVE life >= 2
          BY <1>1
        <5>1. life + waited >= 3 /\ waited <= 1
          BY <1>1, <2>1 DEF Answered
        <5>2. life \in 0..3
          BY <1>1, <4>1 DEF Ttl
        <5> QED
          BY <1>2, <5>1, <5>2
      <4>4. ~late' /\ late' \in BOOLEAN
        BY <1>1, <1>2, <1>6
      <4> QED
        BY <1>1, <1>2, <1>6, <2>1, <3>1, <3>2, <3>3, <4>1, <4>2, <4>3, <4>4, RedisContinues
    <3>4. CASE ~(step + 1 <= RedisLength(stage))
      <4>1. step = RedisLength(stage) /\ step + Batch > RedisLength(stage)
        BY <1>3, <3>2, <3>4 DEF RedisAt
      <4>2. ~(stage = 4 /\ step = 4)
        BY <4>1 DEF RedisLength
      <4>3. <<step, "value">> \in proven
        BY <3>1, <4>2 DEF Proved
      <4>4. \A n \in step..RedisLength(stage) : n = step
        BY <1>3, <4>1 DEF RedisAt
      <4>5. \A n \in step..RedisLength(stage) : <<n, "value">> \in proven \cup RedisLenient
        BY <4>3, <4>4
      <4>6. Continue(step + Batch, proven)
        BY <3>2
      <4> QED
        BY <1>1, <1>2, <4>1, <4>5, <4>6, RedisConcludes
    <3> QED
      BY <3>3, <3>4
  <2> QED
    BY <2>2, <2>3
<1>7. CASE ~late /\ ~Single
  <2>1. /\ PipeInv /\ (Accepted <=> PipeAccepted)
        /\ Len(buf) >= 20 \/ waited >= PipeTotal
    BY <1>1, <1>7, ReadingNow
  <2>2. CASE Accepted
    BY <1>1, <1>2, <1>7, <2>1, <2>2, PipeEarns
  <2>3. CASE ~Accepted
    <3>1. ASSUME honest', prompt' PROVE FALSE
      <4>1. honest /\ waited <= 1
        BY <1>1, <3>1
      <4>2. ~(waited >= PipeTotal)
        BY <1>2, <4>1, TimesAssumption
      <4>3. open
        BY <1>2, <4>1 DEF RedisInv
      <4> QED
        BY <2>1, <2>3, <4>1, <4>2, <4>3, PipeWhole
    <3> QED
      BY <1>4, <2>3, <3>1
  <2> QED
    BY <2>2, <2>3
<1> QED
  BY <1>2, <1>5, <1>6, <1>7

\* a read times out or ends
LEMMA GiveUpStep ==
    ASSUME Inv, GiveUp
    PROVE  Inv'
<1>1. /\ task = "redis" /\ phase = "read"
      /\ IF X.judge = "ignore" \/ (Pipelined /\ PipeAccepted)
         THEN Continue(step + Batch, proven) ELSE Fail
      /\ prompt' = FALSE \/ (~open /\ prompt' = prompt)
      /\ late' = TRUE
      /\ UNCHANGED <<task, disqualified, store, honest>>
  BY DEF GiveUp, Reading, pipelineVars
<1>2. /\ ResultsInv /\ RedisInv /\ RedisTypeInv
      /\ honest \in BOOLEAN /\ prompt \in BOOLEAN
  BY <1>1, RedisReading
<1>3. /\ honest' \in BOOLEAN /\ prompt' \in BOOLEAN /\ (honest' => honest) /\ (prompt' => prompt)
      /\ ~(honest' /\ prompt')
  <2>1. honest => open
    BY <1>2 DEF RedisInv
  <2>2. honest' = honest
    BY <1>1
  <2>3. CASE prompt' = FALSE
    BY <1>2, <2>2, <2>3
  <2>4. CASE ~open /\ prompt' = prompt
    BY <1>2, <2>1, <2>2, <2>4
  <2> QED
    BY <1>1, <2>3, <2>4
<1>4. RedisAt /\ Judged(stage, step, X) /\ (Batch = IF Single THEN 1 ELSE 4) /\ (Pipelined <=> ~Single)
  BY <1>1, <1>2, RedisIsAt
<1>5. CASE X.judge = "ignore"
  <2>1. stage = 4 /\ step = 4 /\ Single /\ Batch = 1 /\ RedisLength(stage) = 5
    BY <1>4, <1>5 DEF Judged, Single, RedisLength
  <2>2. Continue(step + 1, proven) /\ step + 1 <= RedisLength(stage) /\ stage # 3
    BY <1>1, <1>5, <2>1
  <2>3. Proved(step) /\ late' /\ late' \in BOOLEAN
    BY <1>1, <2>1 DEF Proved
  <2> QED
    BY <1>1, <1>2, <1>3, <2>1, <2>2, <2>3, RedisContinues
<1>6. CASE Pipelined /\ PipeAccepted
  <2>1. Continue(step + Batch, proven) /\ ~Single
    BY <1>1, <1>4, <1>6
  <2> QED
    BY <1>1, <1>2, <1>3, <1>6, <2>1, PipeEarns
<1>7. CASE ~(X.judge = "ignore" \/ (Pipelined /\ PipeAccepted))
  BY <1>1, <1>2, <1>3, <1>7, RedisFails
<1> QED
  BY <1>5, <1>6, <1>7

-----------------------------------------------------------------------------
(* Redis: what has been written arrives, or no more comes *)

\* joining is associative
LEMMA Regrouped ==
    \A s, t, u \in Seq(Tokens) : (s \o t) \o u = s \o (t \o u)
  BY ConcatAssociative

\* reading moves tokens from the wire to the buffer and keeps their order
LEMMA Delivered ==
    ASSUME NEW b \in Seq(Tokens), NEW w \in Seq(Tokens), NEW n \in 1..Len(w)
    PROVE  /\ b \o SubSeq(w, 1, n) \in Seq(Tokens)
           /\ SubSeq(w, n + 1, Len(w)) \in Seq(Tokens)
           /\ (b \o SubSeq(w, 1, n)) \o SubSeq(w, n + 1, Len(w)) = b \o w
<1> DEFINE p == SubSeq(w, 1, n)
           q == SubSeq(w, n + 1, Len(w))
<1>0. Len(w) \in Nat
  BY LenProperties
<1>1. p \in Seq(Tokens) /\ q \in Seq(Tokens)
  <2>1. \A i \in 1..n : i \in 1..Len(w)
    BY <1>0
  <2>2. \A i \in (n + 1)..Len(w) : i \in 1..Len(w)
    BY <1>0
  <2>3. \A i \in 1..Len(w) : w[i] \in Tokens
    BY ElementOfSeq
  <2>4. p \in Seq(Tokens)
    BY <1>0, <2>1, <2>3, SubSeqProperties
  <2>5. q \in Seq(Tokens)
    BY <1>0, <2>2, <2>3, SubSeqProperties
  <2> QED
    BY <2>4, <2>5
<1>2. p \o q = SubSeq(w, 1, Len(w))
  BY <1>0, ConcatAdjacentSubSeq
<1>3. SubSeq(w, 1, Len(w)) = w
  BY SubSeqFull
<1>4. p \o q = w
  BY <1>2, <1>3
<1> HIDE DEF p, q
<1>5. (b \o p) \o q = b \o (p \o q)
  BY <1>1, Regrouped, Zenon
<1>6. b \o p \in Seq(Tokens)
  BY <1>1, Joined, Zenon
<1>7. (b \o p) \o q = b \o w
  BY <1>4, <1>5
<1> QED
  BY <1>1, <1>6, <1>7 DEF p, q

\* a piece of what the server has written is read
LEMMA DeliverStep ==
    ASSUME Inv, Deliver
    PROVE  Inv'
<1>1. PICK d \in Lags, n \in 1..Len(wire) :
         /\ waited' = waited + d /\ life' = Older(d)
         /\ buf' = buf \o SubSeq(wire, 1, n)
         /\ wire' = SubSeq(wire, n + 1, Len(wire))
  BY DEF Deliver
<1>2. /\ task = "redis" /\ phase = "read" /\ phase' = "read" /\ Reading
      /\ UNCHANGED <<task, disqualified, stage, step, asked, open, store, results,
                     proven, unearned, late, honest, prompt>>
  BY DEF Deliver, Reading, pipelineVars, history
<1>3. ResultsInv /\ RedisInv /\ RedisTypeInv /\ honest \in BOOLEAN /\ waited \in Nat /\ d \in Nat
  BY <1>2, RedisReading, TimesAssumption DEF RedisTypeInv
<1>4. stage = 3 => life \in 0..Ttl /\ life' \in 0..Ttl /\ life' + d >= life
  <2> SUFFICES ASSUME stage = 3 PROVE life \in 0..3 /\ life' \in 0..3 /\ life' + d >= life
    BY DEF Ttl
  <2>1. life \in 0..3 /\ life \in Nat
    BY <1>3 DEF RedisTypeInv, Ttl
  <2>2. life' \in 0..life /\ life' + d >= life
    BY <1>1, <1>3, <2>1, Aged
  <2> QED
    BY <2>1, <2>2
<1>5. RedisTypeInv'
  BY <1>1, <1>2, <1>3, <1>4 DEF RedisTypeInv
<1>6. X' = X
  BY <1>2, SameRequest
<1>7. ASSUME buf \in Seq(Tokens), wire \in Seq(Tokens)
      PROVE  buf' \in Seq(Tokens) /\ wire' \in Seq(Tokens) /\ buf' \o wire' = buf \o wire
  BY <1>1, <1>7, Delivered
<1>8. wire # <<>>
  BY <1>1, Nothing
<1>9. ASSUME ~late, Single PROVE SingleInv'
  <2>1. Answered
    BY <1>2, <1>8, <1>9, ReadingNow DEF SingleInv, Unanswered, Unanswerable, Idle
  <2>2. buf' \in Seq(Tokens) /\ wire' \in Seq(Tokens) /\ buf' \o wire' = buf \o wire
    BY <1>7, <2>1 DEF Answered
  <2>3. stage = 3 /\ step = 1 => life' + waited' >= 3
    <3> SUFFICES ASSUME stage = 3, step = 1 PROVE life' + waited' >= 3
      OBVIOUS
    <3>1. life + waited >= 3 /\ life \in Nat /\ life' \in Nat /\ life' + d >= life
      BY <1>4, <2>1 DEF Answered, Ttl
    <3> QED
      BY <1>1, <1>3, <3>1
  <2> DEFINE u == buf \o wire
  <2>4. /\ asked = <<>> /\ u \in Replies
        /\ open => Kept(stage, store, step + 1)
        /\ X.judge # "ignore" /\ Accepts(X, u) => <<step, "value">> \in proven
        /\ honest /\ prompt => Accepts(X, u)
    BY <2>1 DEF Answered
  <2>5. Accepts(X, u)' <=> Accepts(X, u)
    BY <1>6, <2>2 DEF Accepts
  <2>6. buf' \o wire' = u
    BY <2>2
  <2> HIDE DEF u
  <2>7. Answered'
    BY <1>2, <1>6, <2>2, <2>3, <2>4, <2>6 DEF Answered
  <2> QED
    BY <2>7 DEF SingleInv
<1>10. ASSUME ~late, ~Single PROVE PipeInv'
  <2>1. PipeInv
    BY <1>2, <1>10, ReadingNow
  <2> DEFINE u == buf \o wire
  <2>2. buf' \in Seq(Tokens) /\ wire' \in Seq(Tokens) /\ buf' \o wire' = u
    BY <1>7, <2>1 DEF PipeInv
  <2>3. u = buf \o wire
    OBVIOUS
  <2> HIDE DEF u
  <2>4. ASSUME NEW k \in 0..4, Piped(k) PROVE Piped(k)'
    BY <1>2, <2>2, <2>3, <2>4 DEF Piped
  <2> QED
    BY <1>2, <2>1, <2>2, <2>3, <2>4 DEF PipeInv
<1>11. honest' => honest /\ open'
  BY <1>2, <1>3 DEF RedisInv
<1> QED
  BY <1>2, <1>3, <1>5, <1>9, <1>10, <1>11, RedisReads

\* the server hangs up
LEMMA HangUpStep ==
    ASSUME Inv, HangUp
    PROVE  Inv'
<1>1. /\ task = "redis" /\ phase = "read" /\ phase' = "read" /\ Reading
      /\ open' = FALSE /\ asked' = <<>> /\ honest' = FALSE /\ open
      /\ UNCHANGED <<task, disqualified, stage, step, wire, buf, waited, store, life, results,
                     proven, unearned, late, prompt>>
  BY DEF HangUp, Reading, pipelineVars, clock
<1>2. ResultsInv /\ RedisInv /\ RedisTypeInv
  BY <1>1, RedisReading
<1>3. RedisTypeInv'
  BY <1>1, <1>2 DEF RedisTypeInv
<1>4. X' = X
  BY <1>1, SameRequest
<1>5. ASSUME ~late, Single PROVE SingleInv'
  <2>1. CASE Unanswered
    BY <1>1, <2>1 DEF Unanswered, Unanswerable, Idle, SingleInv
  <2>2. CASE Answered
    <3>1. Answered'
      BY <1>1, <1>4, <2>2 DEF Answered
    <3> QED
      BY <3>1 DEF SingleInv
  <2>3. ~Unanswerable
    BY <1>1 DEF Unanswerable
  <2> QED
    BY <1>1, <1>5, <2>1, <2>2, <2>3, ReadingNow DEF SingleInv
<1>6. ASSUME ~late, ~Single PROVE PipeInv'
  BY <1>1, <1>6, ReadingNow DEF PipeInv
<1> QED
  BY <1>1, <1>2, <1>3, <1>5, <1>6, RedisReads

-----------------------------------------------------------------------------
(* Redis: the server answers *)

\* a command changes values and no keys
LEMMA StoredShape ==
    ASSUME store = [k \in Keys |-> store[k]], NEW x
    PROVE  Stored(x) = [k \in Keys |-> Stored(x)[k]]
<1>1. \A key, value : [store EXCEPT ![key] = value] = [k \in Keys |-> [store EXCEPT ![key] = value][k]]
  OBVIOUS
<1> QED
  BY <1>1 DEF Stored

\* a wrong answer to a single command is a whole frame, and it is not accepted
LEMMA WrongNotAccepted ==
    ASSUME NEW x, RightAnswer(step, x), NEW r \in WrongAnswers(x) \ {Answer(x)}
    PROVE  r \in Replies /\ (x.judge = "ignore" \/ ~Accepts(x, r))
<1>1. /\ x.judge \in {"equal", "error", "ignore"}
      /\ x.judge = "equal" => Answer(x) = x.want \/ x.want = Bulk(<<"v">>)
      /\ x.judge = "error" => Answer(x) = Failure
  BY DEF RightAnswer
<1>2. /\ r \in {Ok, Number("0"), Failure, Nil, Array(0, <<>>), Bulk(<<"cr", "lf">>), Array(2, Nil \o Array(1, Ok))}
      /\ r # Answer(x)
  BY <1>1 DEF WrongAnswers
<1>3. r \in Replies
  BY <1>2, RepliesAre
<1>4. /\ Ok[1] = "+" /\ Number("0")[1] = ":" /\ Nil[1] = "$" /\ Nil[2] = "-1"
  <2>1. Nil = Line("$", "-1")
    BY DEF Nil, Line
  <2> QED
    BY <2>1, LineShape, TokensAre DEF Ok, Number
<1>5. Failure[1] = "-"
  BY LineShape, TokensAre DEF Failure
<1>6. \A S : \A t \in S : <<t>> \in Seq(S) /\ Len(<<t>>) = 1
  OBVIOUS
<1>7. /\ <<"v">> \in Buffers /\ Len(<<"v">>) = 1
      /\ <<"cr", "lf">> \in Buffers /\ Len(<<"cr", "lf">>) = 2
  BY <1>6, PairIsSeq, TokensAre DEF Buffers
<1>8. /\ Bulk(<<"v">>)[1] = "$" /\ Bulk(<<"v">>)[2] = "1"
      /\ Bulk(<<"cr", "lf">>)[1] = "$" /\ Bulk(<<"cr", "lf">>)[2] = "2"
  <2>1. ASSUME NEW w \in Buffers, Len(w) \in {1, 2}
        PROVE  Bulk(w)[1] = "$" /\ Bulk(w)[2] = Digits(Len(w))
    BY <2>1, BulkShape
  <2> QED
    BY <1>7, <2>1, DigitsAre
<1>9. Array(0, <<>>)[1] = "*" /\ Array(2, Nil \o Array(1, Ok))[1] = "*"
  <2>1. <<>> \in Buffers /\ Nil \o Array(1, Ok) \in Buffers
    <3>1. Ok \in Buffers /\ Nil \in Buffers
      BY LinesRecognised
    <3>2. Array(1, Ok) \in Buffers
      BY <3>1, ArrayShape DEF Heads
    <3> QED
      BY <3>1, <3>2, Joined, Nothing, Zenon DEF Buffers
  <2>2. \A rest \in Buffers : Array(0, rest)[1] = "*" /\ Array(2, rest)[1] = "*"
    BY ArrayShape DEF Heads
  <2> QED
    BY <2>1, <2>2
<1>10. CASE x.judge = "equal"
  <2>1. CASE Answer(x) = x.want
    BY <1>2, <1>3, <1>10, <2>1 DEF Accepts
  <2>2. CASE x.want = Bulk(<<"v">>)
    <3>1. \A c \in {Ok, Number("0"), Failure, Nil, Array(0, <<>>), Bulk(<<"cr", "lf">>), Array(2, Nil \o Array(1, Ok))} :
             c # Bulk(<<"v">>)
      BY <1>4, <1>5, <1>8, <1>9
    <3> QED
      BY <1>2, <1>3, <1>10, <2>2, <3>1 DEF Accepts
  <2> QED
    BY <1>1, <1>10, <2>1, <2>2
<1>11. CASE x.judge = "error"
  <2>1. \A c \in {Ok, Number("0"), Nil, Array(0, <<>>), Bulk(<<"cr", "lf">>), Array(2, Nil \o Array(1, Ok))} :
           c[1] # "-"
    BY <1>4, <1>8, <1>9
  <2> QED
    BY <1>1, <1>2, <1>3, <1>11, <2>1 DEF Accepts
<1> QED
  BY <1>1, <1>3, <1>10, <1>11

\* a server that has kept what it was told answers rightly
LEMMA RightHere ==
    ASSUME task = "redis", RedisTypeInv, Single, Unanswered
    PROVE  RightAnswer(step, X)
<1>1. /\ RedisAt /\ store = [k \in Keys |-> store[k]]
      /\ Kept(stage, store, step) /\ (stage = 3 /\ step = 3 => life = 0)
  BY RedisIsAt DEF RedisTypeInv, Unanswered
<1>2. CASE stage = 1
  <2>1. step \in 1..2
    BY <1>1, <1>2 DEF RedisAt, RedisLength
  <2> QED
    BY <1>1, <1>2, <2>1, RightAnswer1 DEF X
<1>3. CASE stage = 2
  <2>1. step \in 1..6 /\ Kept(2, store, step)
    BY <1>1, <1>3 DEF RedisAt, RedisLength, Single
  <2> QED
    BY <1>1, <1>3, <2>1, RightAnswer2 DEF X
<1>4. CASE stage = 3
  <2>1. step \in 1..3 /\ Kept(3, store, step) /\ (step = 3 => life = 0)
    BY <1>1, <1>4 DEF RedisAt, RedisLength
  <2> QED
    BY <1>1, <1>4, <2>1, RightAnswer3 DEF X
<1>5. CASE stage = 4
  <2>1. step \in 1..5 /\ Kept(4, store, step)
    BY <1>1, <1>5 DEF RedisAt, RedisLength
  <2> QED
    BY <1>1, <1>5, <2>1, RightAnswer4 DEF X
<1> QED
  BY <1>1, <1>2, <1>3, <1>4, <1>5 DEF RedisAt

\* the server serves command n and gives the answer a
Serves(n, x, a, d) ==
    /\ wire' = wire \o a
    /\ \/ a = Answer(x) /\ proven' = proven \cup {<<n, "value">>} /\ honest' = honest
       \/ a \in WrongAnswers(x) \ {Answer(x)} /\ honest' = FALSE /\ proven' = proven
    /\ store' = Stored(x)
    /\ life' = IF x.cmd = "SETPX" THEN Ttl ELSE Older(d)
    /\ waited' = waited + d
    /\ asked' = Tail(asked)
    /\ UNCHANGED <<buf, open, prompt>>

\* once a single command is served, its answer is on the wire
LEMMA ServeSingle ==
    ASSUME task = "redis", RedisTypeInv, Single, Unanswered, honest \in BOOLEAN,
           NEW a, NEW d \in Nat, Serves(step, X, a, d), X' = X, UNCHANGED <<stage, step>>
    PROVE  Answered'
<1>1. RightAnswer(step, X)
  BY RightHere
<1>2. /\ open /\ asked = <<step>> /\ wire = <<>> /\ buf = <<>> /\ Lives
  BY DEF Unanswered
<1>3. Tail(<<step>>) = <<>>
  OBVIOUS
<1>4. asked' = <<>> /\ buf' = <<>>
  BY <1>2, <1>3 DEF Serves
<1>5. a \in Replies
  BY <1>1, WrongNotAccepted DEF Serves, RightAnswer
<1>6. a \in Seq(Tokens) /\ <<>> \o a = a
  BY <1>5, RepliesRecognised, ConcatEmptySeq DEF Buffers
<1>7. wire' = a /\ buf' \o wire' = a
  BY <1>2, <1>4, <1>6 DEF Serves
<1>8. Kept(stage, store', step + 1)
  BY <1>1 DEF RightAnswer, Serves
<1>9. stage = 3 /\ step = 1 => life' + waited' >= 3
  BY <1>1 DEF RightAnswer, Serves, RedisTypeInv, Ttl
<1>10. CASE a = Answer(X) /\ proven' = proven \cup {<<step, "value">>} /\ honest' = honest
  <2>1. honest /\ prompt => Accepts(X, a)
    <3> SUFFICES ASSUME prompt PROVE Accepts(X, a)
      OBVIOUS
    <3>1. ~(stage = 3 /\ step = 2 /\ life = 0)
      BY <1>2 DEF Lives
    <3>2. X.judge = "equal" => a = X.want
      BY <1>1, <1>10, <3>1 DEF RightAnswer
    <3>3. X.judge = "error" => a[1] = "-"
      <4>1. Failure[1] = "-"
        BY LineShape, TokensAre DEF Failure
      <4> QED
        BY <1>1, <1>10, <4>1 DEF RightAnswer
    <3> QED
      BY <3>2, <3>3 DEF Accepts
  <2>2. <<step, "value">> \in proven' /\ prompt' = prompt
    BY <1>10 DEF Serves
  <2> QED
    BY <1>4, <1>5, <1>6, <1>7, <1>8, <1>9, <1>10, <2>1, <2>2, Nothing DEF Answered
<1>11. CASE a \in WrongAnswers(X) \ {Answer(X)} /\ honest' = FALSE /\ proven' = proven
  <2>1. X.judge = "ignore" \/ ~Accepts(X, a)
    BY <1>1, <1>11, WrongNotAccepted
  <2> QED
    BY <1>4, <1>5, <1>6, <1>7, <1>8, <1>9, <1>11, <2>1, Nothing DEF Answered
<1> QED
  BY <1>10, <1>11 DEF Serves

\* what a bulk string of one word holds
LEMMA WordShape ==
    ASSUME NEW w \in Tokens
    PROVE  /\ Bulk(<<w>>) \in Seq(Tokens) /\ Len(Bulk(<<w>>)) = 7 /\ Bulk(<<w>>)[5] = w
           /\ w # "v1" => ~Contains(Bulk(<<w>>), "v1")
<1> DEFINE b == Bulk(<<w>>)
<1>1. <<w>> \in Buffers /\ Len(<<w>>) = 1 /\ <<w>>[1] = w
  <2>1. \A S : \A t \in S : <<t>> \in Seq(S) /\ Len(<<t>>) = 1 /\ <<t>>[1] = t
    OBVIOUS
  <2> QED
    BY <2>1 DEF Buffers
<1> DEFINE s == <<w>>
<1> HIDE DEF s
<1>2. s \in Buffers /\ Len(s) = 1 /\ s[1] = w
  BY <1>1 DEF s
<1>3. /\ Bulk(s) \in Buffers /\ Len(Bulk(s)) = 7
      /\ Bulk(s)[1] = "$" /\ Bulk(s)[2] = "1" /\ Bulk(s)[3] = "cr" /\ Bulk(s)[4] = "lf"
      /\ Bulk(s)[5] = w /\ Bulk(s)[6] = "cr" /\ Bulk(s)[7] = "lf"
  <2>1. /\ Bulk(s) \in Buffers /\ Len(Bulk(s)) = 6 + Len(s)
        /\ Bulk(s)[1] = "$" /\ Bulk(s)[2] = Digits(Len(s))
        /\ Bulk(s)[3] = "cr" /\ Bulk(s)[4] = "lf"
        /\ \A i \in 1..Len(s) : Bulk(s)[i + 4] = s[i]
        /\ \A i \in 1..2 : Bulk(s)[i + 4 + Len(s)] = Eol[i]
    BY <1>2, BulkShape
  <2>2. Bulk(s)[1 + 4] = s[1]
    BY <1>2, <2>1
  <2>3. Bulk(s)[1 + 4 + 1] = Eol[1] /\ Bulk(s)[2 + 4 + 1] = Eol[2]
    BY <1>2, <2>1
  <2>4. Eol[1] = "cr" /\ Eol[2] = "lf"
    BY DEF Eol
  <2> QED
    BY <1>2, <2>1, <2>2, <2>3, <2>4, DigitsAre
<1>4. b = Bulk(s)
  BY DEF s
<1> HIDE DEF b
<1>5. b \in Seq(Tokens) /\ Len(b) = 7 /\ b[5] = w
  BY <1>3, <1>4 DEF Buffers
<1>6. ASSUME w # "v1", NEW i \in 1..7 PROVE b[i] # "v1"
  <2>1. i = 1 \/ i = 2 \/ i = 3 \/ i = 4 \/ i = 5 \/ i = 6 \/ i = 7
    OBVIOUS
  <2> QED
    BY <1>3, <1>4, <1>6, <2>1
<1>7. w # "v1" => ~Contains(b, "v1")
  BY <1>5, <1>6 DEF Contains
<1> QED
  BY <1>5, <1>7 DEF b

\* what the lines hold of the words that PipeAccepted looks for
LEMMA PlainLines ==
    /\ Ok \in Seq(Tokens) /\ Len(Ok) = 4 /\ Ok[2] = "OK" /\ ~Contains(Ok, "v1")
    /\ Failure \in Seq(Tokens) /\ ~Contains(Failure, "v1")
<1>1. \A t, w \in Tokens : /\ Line(t, w) \in Buffers /\ Len(Line(t, w)) = 4
                           /\ Line(t, w)[1] = t /\ Line(t, w)[2] = w
                           /\ Line(t, w)[3] = "cr" /\ Line(t, w)[4] = "lf"
  BY LineShape
<1>2. /\ Ok \in Buffers /\ Len(Ok) = 4 /\ Ok[1] = "+" /\ Ok[2] = "OK" /\ Ok[3] = "cr" /\ Ok[4] = "lf"
      /\ Failure \in Buffers /\ Len(Failure) = 4
      /\ Failure[1] = "-" /\ Failure[2] = "ERR" /\ Failure[3] = "cr" /\ Failure[4] = "lf"
  BY <1>1, TokensAre DEF Ok, Failure
<1>3. \A i \in 1..4 : i = 1 \/ i = 2 \/ i = 3 \/ i = 4
  OBVIOUS
<1>4. \A i \in 1..4 : Ok[i] # "v1" /\ Failure[i] # "v1"
  BY <1>2, <1>3
<1> QED
  BY <1>2, <1>4 DEF Contains, Buffers

\* the right answer to pipelined command k + 1, and what is kept after it
PipedAnswer(k, x) ==
    /\ x.judge = "pipe" /\ x.cmd # "SETPX"
    /\ Answer(x) \in Seq(Tokens)
    /\ PipeLength[k + 2] = PipeLength[k + 1] + Len(Answer(x))
    /\ k = 0 => Answer(x)[2] = "OK"
    /\ k = 2 => Answer(x)[5] = "v1"
    /\ k # 2 => ~Contains(Answer(x), "v1")
    /\ Stored(x)["p1"] = "v1"
    /\ k >= 1 => Stored(x)["p2"] = "v2"

\* the right answers to the pipelined commands
LEMMA PipedRight ==
    ASSUME task = "redis", store = [k \in Keys |-> store[k]], NEW k \in 0..3, Piped(k)
    PROVE  PipedAnswer(k, Stages[2][7 + k])
<1> DEFINE x == Stages[2][7 + k]
<1>0. /\ "p1" \in Keys /\ "p2" \in Keys
      /\ Value("p1") = store["p1"] /\ Value("p2") = store["p2"]
  BY PlainValue DEF Keys
<1>1. (k >= 1 => store["p1"] = "v1") /\ (k >= 2 => store["p2"] = "v2")
  BY DEF Piped
<1>2. /\ PipeLength[1] = 0 /\ PipeLength[2] = 4 /\ PipeLength[3] = 8 /\ PipeLength[4] = 15
      /\ PipeLength[5] = 22
  BY DEF PipeLength
<1>3. CASE k = 0
  <2>1. Command(x, "SET", "p1", "v1", "pipe", Ok)
    <3>1. x = Stages[2][7]
      BY <1>3
    <3> HIDE DEF x
    <3> QED
      BY <3>1, Script2
  <2> HIDE DEF x
  <2>2. Answer(x) = Ok /\ Stored(x) = [store EXCEPT !["p1"] = "v1"]
    BY <2>1 DEF Command, Answer, Stored
  <2>3. x.judge = "pipe" /\ x.cmd = "SET" /\ Stored(x)["p1"] = "v1"
    BY <1>0, <2>1, <2>2 DEF Command
  <2>4. PipedAnswer(k, x)
    BY <1>2, <1>3, <2>2, <2>3, PlainLines DEF PipedAnswer
  <2> QED
    BY <2>4 DEF x
<1>4. CASE k = 1
  <2>1. Command(x, "SET", "p2", "v2", "pipe", Ok)
    <3>1. x = Stages[2][8]
      BY <1>4
    <3> HIDE DEF x
    <3> QED
      BY <3>1, Script2
  <2> HIDE DEF x
  <2>2. Answer(x) = Ok /\ Stored(x) = [store EXCEPT !["p2"] = "v2"]
    BY <2>1 DEF Command, Answer, Stored
  <2>3. x.judge = "pipe" /\ x.cmd = "SET" /\ Stored(x)["p1"] = "v1" /\ Stored(x)["p2"] = "v2"
    BY <1>0, <1>1, <1>4, <2>1, <2>2 DEF Command
  <2>4. PipedAnswer(k, x)
    BY <1>2, <1>4, <2>2, <2>3, PlainLines DEF PipedAnswer
  <2> QED
    BY <2>4 DEF x
<1>5. CASE k = 2
  <2>1. Command(x, "GET", "p1", "", "pipe", Bulk(<<"v1">>))
    <3>1. x = Stages[2][9]
      BY <1>5
    <3> HIDE DEF x
    <3> QED
      BY <3>1, Script2
  <2> HIDE DEF x
  <2>2. Answer(x) = Bulk(<<"v1">>) /\ Stored(x) = store
    <3>1. Value("p1") = "v1"
      BY <1>0, <1>1, <1>5
    <3>2. x.cmd = "GET" /\ x.key = "p1"
      BY <2>1 DEF Command
    <3> QED
      BY <3>1, <3>2 DEF Answer, Stored
  <2>3. x.judge = "pipe" /\ x.cmd = "GET" /\ Stored(x)["p1"] = "v1" /\ Stored(x)["p2"] = "v2"
    <3>1. x.judge = "pipe" /\ x.cmd = "GET"
      BY <2>1 DEF Command
    <3> QED
      BY <1>1, <1>5, <2>2, <3>1
  <2>4. Answer(x) \in Seq(Tokens) /\ Len(Answer(x)) = 7 /\ Answer(x)[5] = "v1"
    BY <2>2, WordShape, TokensAre
  <2>5. PipedAnswer(k, x)
    BY <1>2, <1>5, <2>3, <2>4 DEF PipedAnswer
  <2> QED
    BY <2>5 DEF x
<1>6. CASE k = 3
  <2>1. Command(x, "GET", "p2", "", "pipe", Bulk(<<"v2">>))
    <3>1. x = Stages[2][10]
      BY <1>6
    <3> HIDE DEF x
    <3> QED
      BY <3>1, Script2
  <2> HIDE DEF x
  <2>2. Answer(x) = Bulk(<<"v2">>) /\ Stored(x) = store
    <3>1. Value("p2") = "v2"
      BY <1>0, <1>1, <1>6
    <3>2. x.cmd = "GET" /\ x.key = "p2"
      BY <2>1 DEF Command
    <3> QED
      BY <3>1, <3>2 DEF Answer, Stored
  <2>3. x.judge = "pipe" /\ x.cmd = "GET" /\ Stored(x)["p1"] = "v1" /\ Stored(x)["p2"] = "v2"
    <3>1. x.judge = "pipe" /\ x.cmd = "GET"
      BY <2>1 DEF Command
    <3> QED
      BY <1>1, <1>6, <2>2, <3>1
  <2>4. Answer(x) \in Seq(Tokens) /\ Len(Answer(x)) = 7 /\ ~Contains(Answer(x), "v1")
    BY <2>2, WordShape, TokensAre
  <2>5. PipedAnswer(k, x)
    BY <1>2, <1>6, <2>3, <2>4 DEF PipedAnswer
  <2> QED
    BY <2>5 DEF x
<1> QED
  BY <1>3, <1>4, <1>5, <1>6

\* the commands of the batch that are left after one is served
LEMMA PipeTail ==
    ASSUME NEW k \in 0..3, asked = [i \in 1..(4 - k) |-> 6 + k + i]
    PROVE  Head(asked) = 7 + k /\ Tail(asked) = [i \in 1..(4 - (k + 1)) |-> 6 + (k + 1) + i]
<1>1. k = 0 \/ k = 1 \/ k = 2 \/ k = 3
  OBVIOUS
<1> DEFINE s == [i \in 1..(4 - k) |-> 6 + k + i]
           t == [i \in 1..(3 - k) |-> 7 + k + i]
<1>2. /\ s \in Seq(Nat) /\ Len(s) = 4 - k /\ \A i \in 1..(4 - k) : s[i] = 6 + k + i
  <2>1. \A i \in 1..(4 - k) : 6 + k + i \in Nat
    OBVIOUS
  <2>2. 4 - k \in Nat
    OBVIOUS
  <2> QED
    BY <2>1, <2>2, IsASeq
<1>3. /\ t \in Seq(Nat) /\ Len(t) = 3 - k /\ \A i \in 1..(3 - k) : t[i] = 7 + k + i
  <2>1. \A i \in 1..(3 - k) : 7 + k + i \in Nat
    OBVIOUS
  <2>2. 3 - k \in Nat
    OBVIOUS
  <2> QED
    BY <2>1, <2>2, IsASeq
<1>4. asked = s /\ t = [i \in 1..(4 - (k + 1)) |-> 6 + (k + 1) + i]
  OBVIOUS
<1> HIDE DEF s, t
<1>5. s # <<>> /\ Head(s) = s[1]
  BY <1>2, EmptySeq
<1>6. Tail(s) \in Seq(Nat) /\ Len(Tail(s)) = 3 - k /\ \A i \in 1..(3 - k) : Tail(s)[i] = s[i + 1]
  <2>1. /\ Tail(s) \in Seq(Nat) /\ Len(Tail(s)) = Len(s) - 1
        /\ \A i \in 1..Len(Tail(s)) : Tail(s)[i] = s[i + 1]
    BY <1>2, <1>5, HeadTailProperties
  <2> DEFINE u == Tail(s)
  <2> HIDE DEF u
  <2>2. Len(u) = 3 - k
    BY <1>2, <2>1 DEF u
  <2>3. \A i \in 1..(3 - k) : u[i] = s[i + 1]
    BY <2>1, <2>2 DEF u
  <2> QED
    BY <2>1, <2>2, <2>3 DEF u
<1> DEFINE u == Tail(s)
<1>7. u \in Seq(Nat) /\ Len(u) = 3 - k /\ \A i \in 1..(3 - k) : u[i] = s[i + 1]
  BY <1>6
<1> HIDE DEF u
<1>8. u = t
  <2>1. ASSUME NEW i \in 1..(3 - k) PROVE u[i] = t[i]
    <3>1. i + 1 \in 1..(4 - k) /\ 6 + k + (i + 1) = 7 + k + i
      OBVIOUS
    <3> QED
      BY <1>2, <1>3, <1>7, <3>1
  <2> QED
    BY <1>3, <1>7, <2>1, SeqEqual
<1>9. Head(s) = 7 + k
  BY <1>2, <1>5
<1> QED
  BY <1>4, <1>8, <1>9 DEF u

\* once a pipelined command is served, one more answer is on the wire
LEMMA ServePiped ==
    ASSUME task = "redis", stage = 2, store = [k \in Keys |-> store[k]], honest \in BOOLEAN,
           PipeInv, open, asked # <<>>,
           NEW a, NEW d, Serves(Head(asked), Stages[stage][Head(asked)], a, d)
    PROVE  PipeInv'
<1> DEFINE u == buf \o wire
           x == Stages[stage][Head(asked)]
<1>1. PICK k \in 0..3 : Piped(k)
  <2>1. PICK k \in 0..4 : Piped(k)
    BY DEF PipeInv
  <2>2. k # 4
    <3>1. ASSUME k = 4 PROVE FALSE
      <4>1. asked = [i \in 1..(4 - 4) |-> 6 + 4 + i]
        BY <2>1, <3>1 DEF Piped
      <4>2. [i \in 1..(4 - 4) |-> 6 + 4 + i] = <<>>
        OBVIOUS
      <4> QED
        BY <4>1, <4>2
    <3> QED
      BY <3>1
  <2>3. k \in 0..3
    BY <2>2
  <2> QED
    BY <2>1, <2>3
<1>2. Head(asked) = 7 + k /\ Tail(asked) = [i \in 1..(4 - (k + 1)) |-> 6 + (k + 1) + i]
  BY <1>1, PipeTail DEF Piped
<1>3. PipedAnswer(k, x)
  <2>1. x = Stages[2][7 + k]
    BY <1>2
  <2> HIDE DEF x
  <2> QED
    BY <1>1, <2>1, PipedRight
<1>4. Serves(7 + k, x, a, d)
  BY <1>2
<1> HIDE DEF x
<1>5. u \in Seq(Tokens) /\ buf \in Seq(Tokens) /\ wire \in Seq(Tokens)
      /\ (Contains(u, "v1") => <<9, "value">> \in proven)
  <2>1. buf \in Seq(Tokens) /\ wire \in Seq(Tokens)
    BY DEF PipeInv
  <2>2. u \in Seq(Tokens)
    BY <2>1, Joined, Zenon
  <2> QED
    BY <2>1, <2>2 DEF PipeInv
<1>6. /\ wire' = wire \o a /\ store' = Stored(x) /\ asked' = Tail(asked) /\ buf' = buf /\ open' = open
      /\ \/ a = Answer(x) /\ proven' = proven \cup {<<7 + k, "value">>} /\ honest' = honest
         \/ a \in WrongAnswers(x) \ {Answer(x)} /\ honest' = FALSE /\ proven' = proven
  BY <1>4 DEF Serves
<1>7. a \in Seq(Tokens) /\ (Contains(a, "v1") => <<9, "value">> \in proven')
  <2>1. CASE a = Answer(x) /\ proven' = proven \cup {<<7 + k, "value">>}
    <3>1. a \in Seq(Tokens) /\ (Contains(a, "v1") => k = 2)
      BY <1>3, <2>1 DEF PipedAnswer
    <3>2. k = 2 => <<7 + k, "value">> = <<9, "value">>
      OBVIOUS
    <3> QED
      BY <2>1, <3>1, <3>2
  <2>2. CASE a \in WrongAnswers(x) \ {Answer(x)}
    <3>1. a \in {Ok, Failure}
      BY <1>3, <2>2 DEF PipedAnswer, WrongAnswers
    <3> QED
      BY <3>1, PlainLines
  <2> QED
    BY <1>6, <2>1, <2>2
<1> DEFINE v == u \o a
<1>8. /\ v \in Seq(Tokens) /\ Len(v) = Len(u) + Len(a)
      /\ \A i \in 1..Len(u) : v[i] = u[i]
      /\ \A i \in 1..Len(a) : v[Len(u) + i] = a[i]
      /\ (Contains(v, "v1") => Contains(u, "v1") \/ Contains(a, "v1"))
  BY <1>5, <1>7, Appended
<1>9. wire' \in Seq(Tokens) /\ buf' \o wire' = v
  <2>1. wire \o a \in Seq(Tokens)
    BY <1>5, <1>7, Joined, Zenon
  <2>2. buf \o (wire \o a) = (buf \o wire) \o a
    BY <1>5, <1>7, Regrouped, Zenon
  <2> QED
    BY <1>6, <2>1, <2>2
<1>10. Contains(v, "v1") => <<9, "value">> \in proven'
  <2>1. proven \subseteq proven'
    BY <1>6
  <2> HIDE DEF v, u
  <2> QED
    BY <1>5, <1>7, <1>8, <2>1
<1>11. Len(u) \in Nat /\ Len(a) \in Nat
  BY <1>5, <1>7, LenProperties
<1> HIDE DEF v
<1>12. ASSUME honest'
       PROVE  /\ Len(v) = PipeLength[k + 2] /\ v[2] = "OK" /\ (k + 1 >= 3 => v[13] = "v1")
  <2>1. /\ Len(u) = PipeLength[k + 1] /\ (k >= 1 => u[2] = "OK") /\ (k >= 3 => u[13] = "v1")
        /\ a = Answer(x)
    BY <1>1, <1>6, <1>12 DEF Piped
  <2> HIDE DEF u
  <2>2. Len(v) = PipeLength[k + 2]
    BY <1>3, <1>8, <2>1 DEF PipedAnswer
  <2>3. /\ PipeLength[1] = 0 /\ PipeLength[2] = 4 /\ PipeLength[3] = 8 /\ PipeLength[4] = 15
        /\ PipeLength[5] = 22
    BY DEF PipeLength
  <2>4. (k = 0 => a[2] = "OK") /\ (k = 2 => a[5] = "v1")
    BY <1>3, <2>1 DEF PipedAnswer
  <2>5. v[2] = "OK" /\ (k + 1 >= 3 => v[13] = "v1")
    <3>1. CASE k = 0
      <4>1. Len(u) = 0 /\ Len(v) = 4 /\ Len(a) = 4
        <5>1. k + 1 = 1 /\ k + 2 = 2
          BY <3>1
        <5>2. Len(u) = PipeLength[1] /\ Len(v) = PipeLength[2]
          BY <2>1, <2>2, <5>1
        <5>3. Len(u) = 0 /\ Len(v) = 4 /\ Len(v) = Len(u) + Len(a)
          BY <1>8, <2>3, <5>2
        <5>4. \A m \in Nat : 4 = 0 + m => m = 4
          OBVIOUS
        <5>5. 4 = 0 + Len(a)
          BY <5>3
        <5>6. Len(a) = 4
          BY <1>11, <5>4, <5>5
        <5> QED
          BY <5>3, <5>6
      <4>2. v[0 + 2] = a[2]
        BY <1>8, <4>1
      <4> QED
        BY <2>4, <3>1, <4>2
    <3>2. CASE k = 1
      <4>1. Len(u) = 4
        BY <2>1, <2>3, <3>2
      <4> QED
        BY <1>8, <2>1, <3>2, <4>1
    <3>3. CASE k = 2
      <4>1. Len(u) = 8 /\ Len(v) = 15 /\ Len(a) = 7
        <5>1. k + 1 = 3 /\ k + 2 = 4
          BY <3>3
        <5>2. Len(u) = PipeLength[3] /\ Len(v) = PipeLength[4]
          BY <2>1, <2>2, <5>1
        <5>3. Len(u) = 8 /\ Len(v) = 15 /\ Len(v) = Len(u) + Len(a)
          BY <1>8, <2>3, <5>2
        <5>4. \A m \in Nat : 15 = 8 + m => m = 7
          OBVIOUS
        <5>5. 15 = 8 + Len(a)
          BY <5>3
        <5>6. Len(a) = 7
          BY <1>11, <5>4, <5>5
        <5> QED
          BY <5>3, <5>6
      <4>2. v[8 + 5] = a[5] /\ v[2] = u[2]
        BY <1>8, <4>1
      <4> QED
        BY <2>1, <2>4, <3>3, <4>2
    <3>4. CASE k = 3
      <4>1. Len(u) = 15
        BY <2>1, <2>3, <3>4
      <4>2. v[13] = u[13] /\ v[2] = u[2]
        BY <1>8, <4>1
      <4> QED
        BY <2>1, <3>4, <4>2
    <3> QED
      BY <3>1, <3>2, <3>3, <3>4
  <2> QED
    BY <2>2, <2>5
<1>13. Piped(k + 1)'
  <2>1. store'["p1"] = "v1" /\ (k + 1 >= 2 => store'["p2"] = "v2")
    BY <1>3, <1>6 DEF PipedAnswer
  <2>2. asked' = [i \in 1..(4 - (k + 1)) |-> 6 + (k + 1) + i]
    BY <1>2, <1>6
  <2> DEFINE w == buf' \o wire'
  <2>3. honest' => Len(w) = PipeLength[(k + 1) + 1] /\ w[2] = "OK" /\ (k + 1 >= 3 => w[13] = "v1")
    <3>1. w = v /\ (k + 1) + 1 = k + 2
      BY <1>9
    <3> HIDE DEF w
    <3> QED
      BY <1>12, <3>1
  <2> HIDE DEF w
  <2> DEFINE m == k + 1
  <2>4. /\ store'["p1"] = "v1" /\ (m >= 2 => store'["p2"] = "v2")
        /\ asked' = [i \in 1..(4 - m) |-> 6 + m + i]
        /\ (honest' => Len(w) = PipeLength[m + 1] /\ w[2] = "OK" /\ (m >= 3 => w[13] = "v1"))
    BY <2>1, <2>2, <2>3
  <2> HIDE DEF m
  <2>5. Piped(m)'
    BY <2>4 DEF Piped, w
  <2> QED
    BY <2>5 DEF m
<1>14. \E j \in 0..4 : Piped(j)'
  <2>1. k + 1 \in 0..4
    OBVIOUS
  <2> QED
    BY <1>13, <2>1
<1>15. buf' \in Seq(Tokens) /\ (Contains(buf' \o wire', "v1") => <<9, "value">> \in proven')
  BY <1>5, <1>6, <1>9, <1>10
<1> QED
  BY <1>6, <1>9, <1>14, <1>15 DEF PipeInv

\* the server serves a command
LEMMA ServeStep ==
    ASSUME Inv, Serve
    PROVE  Inv'
<1> DEFINE n == Head(asked)
           x == Stages[stage][n]
<1>1. PICK d \in Lags :
        /\ waited' = waited + d
        /\ \/ /\ wire' = wire \o Answer(x)
              /\ proven' = proven \cup {<<n, "value">>}
              /\ UNCHANGED honest
           \/ /\ \E r \in WrongAnswers(x) \ {Answer(x)} : wire' = wire \o r
              /\ honest' = FALSE
              /\ UNCHANGED proven
        /\ store' = Stored(x)
        /\ life' = IF x.cmd = "SETPX" THEN Ttl ELSE Older(d)
  BY DEF Serve
<1>2. /\ task = "redis" /\ phase = "read" /\ phase' = "read" /\ Reading /\ asked # <<>>
      /\ asked' = Tail(asked)
      /\ UNCHANGED <<task, disqualified, stage, step, buf, open, results, unearned, late, prompt>>
  BY DEF Serve, Reading, pipelineVars
<1> HIDE DEF x
<1>3. \E a : Serves(n, x, a, d)
  <2>1. CASE /\ wire' = wire \o Answer(x)
             /\ proven' = proven \cup {<<n, "value">>} /\ UNCHANGED honest
    <3>1. Serves(n, x, Answer(x), d)
      BY <1>1, <1>2, <2>1 DEF Serves
    <3> QED
      BY <3>1
  <2>2. CASE /\ \E r \in WrongAnswers(x) \ {Answer(x)} : wire' = wire \o r
             /\ honest' = FALSE /\ UNCHANGED proven
    <3>1. PICK r \in WrongAnswers(x) \ {Answer(x)} : wire' = wire \o r
      BY <2>2
    <3>2. Serves(n, x, r, d)
      BY <1>1, <1>2, <2>2, <3>1 DEF Serves
    <3> QED
      BY <3>2
  <2> QED
    BY <1>1, <2>1, <2>2
<1>4. PICK a : Serves(n, x, a, d)
  BY <1>3
<1>5. /\ ResultsInv /\ RedisInv /\ RedisTypeInv /\ honest \in BOOLEAN /\ waited \in Nat /\ d \in Nat
      /\ store = [k \in Keys |-> store[k]]
  BY <1>2, RedisReading, TimesAssumption DEF RedisTypeInv
<1>6. stage = 3 => life' \in 0..Ttl
  <2> SUFFICES ASSUME stage = 3 PROVE life' \in 0..3
    BY DEF Ttl
  <2>1. life \in 0..3 /\ life \in Nat
    BY <1>5 DEF RedisTypeInv, Ttl
  <2>2. Older(d) \in 0..life
    BY <1>5, <2>1, Aged
  <2> QED
    BY <1>1, <2>1, <2>2 DEF Ttl
<1>7. RedisTypeInv'
  <2>1. store' = [k \in Keys |-> store'[k]]
    BY <1>1, <1>5, StoredShape
  <2>2. waited' \in Nat
    BY <1>1, <1>5
  <2> QED
    BY <1>2, <1>5, <1>6, <2>1, <2>2 DEF RedisTypeInv
<1>8. X' = X
  BY <1>2, SameRequest
<1>9. ASSUME ~late, Single PROVE SingleInv'
  <2>1. Unanswered
    BY <1>2, <1>9, ReadingNow DEF SingleInv, Unanswerable, Answered, Idle
  <2>2. n = step
    <3>1. asked = <<step>>
      BY <2>1 DEF Unanswered
    <3> QED
      BY <3>1
  <2>3. x = X
    BY <2>2 DEF x, X
  <2>4. Answered'
    BY <1>2, <1>4, <1>5, <1>8, <1>9, <2>1, <2>2, <2>3, ServeSingle
  <2> QED
    BY <2>4 DEF SingleInv
<1>10. ASSUME ~late, ~Single PROVE PipeInv'
  <2>1. PipeInv /\ stage = 2
    BY <1>2, <1>10, ReadingNow DEF Single
  <2>2. open
    BY <1>2, <2>1 DEF PipeInv
  <2>3. Serves(Head(asked), Stages[stage][Head(asked)], a, d)
    BY <1>4 DEF x
  <2> QED
    BY <1>2, <1>5, <2>1, <2>2, <2>3, ServePiped
<1>11. honest' \in BOOLEAN /\ (honest' => honest /\ open') /\ proven \subseteq proven'
  <2>1. honest => open
    BY <1>5 DEF RedisInv
  <2>2. (honest' = honest /\ proven' = proven \cup {<<n, "value">>}) \/ (honest' = FALSE /\ proven' = proven)
    BY <1>1
  <2>3. CASE honest' = honest /\ proven' = proven \cup {<<n, "value">>}
    BY <1>2, <1>5, <2>1, <2>3
  <2>4. CASE honest' = FALSE /\ proven' = proven
    BY <2>4
  <2> QED
    BY <2>2, <2>3, <2>4
<1> QED
  BY <1>2, <1>5, <1>7, <1>9, <1>10, <1>11, RedisReads

-----------------------------------------------------------------------------
(* execute, and the whole *)

\* Inv holds at first
LEMMA InitInv == Init => Inv
<1> SUFFICES ASSUME Init PROVE Inv
  OBVIOUS
<1>1. task \in {"redis", "http", "dns"}
  BY TasksAssumption DEF Init
<1>2. TotalStages \in 4..6
  BY <1>1, StagesCount
<1>3. results = <<>> /\ results \in Seq([stage : Nat, passed : BOOLEAN]) /\ Len(results) = 0
      /\ DOMAIN results = {}
  BY DEF Init
<1>4. stage = 1 /\ stage \in 1..(TotalStages + 1)
  BY <1>2 DEF Init
<1>5. OrderInv
  <2>1. /\ phase = "comply" /\ disqualified = FALSE /\ honest = TRUE /\ prompt = TRUE
    BY DEF Init
  <2>2. Len(results) = stage - 1
    BY <1>3, <1>4
  <2> QED
    BY <1>1, <1>3, <1>4, <2>1, <2>2 DEF OrderInv
<1>6. ~Exchanging /\ unearned = {}
  BY DEF Init, Exchanging
<1> QED
  BY <1>3, <1>5, <1>6 DEF Inv, ResultsInv, ExchangeInv

\* steps of execute that do not touch the verifier
LEMMA ExecuteStep ==
    ASSUME Inv, Comply \/ Start \/ WaitReady \/ Bench
    PROVE  Inv'
<1>0. ResultsInv /\ OrderInv
  BY DEF Inv, ResultsInv
<1>1. TotalStages \in 4..6 /\ stage \in Nat
  BY <1>0, StagesCount DEF OrderInv
<1>2. /\ UNCHANGED <<task, stage, unearned, honest, prompt>>
      /\ phase \in {"comply", "start", "wait", "verified"}
      /\ phase' \in {"start", "wait", "connect", "done"}
      /\ phase' \in {"start", "wait", "connect"} => phase \in {"comply", "start", "wait"}
  BY DEF Comply, Start, WaitReady, Bench, pipelineVars, history
<1>3. TotalStages' = TotalStages
  BY <1>2 DEF TotalStages, ByTask
<1>4. ~disqualified
  BY <1>0, <1>2 DEF OrderInv
<1>5. stage' \in 1..(TotalStages' + 1) /\ (phase' \in {"start", "wait"} => stage' = 1)
      /\ (phase' \in {"connect", "send", "read"} => stage' <= TotalStages')
  BY <1>0, <1>1, <1>2, <1>3 DEF OrderInv
<1>6. ~Exchanging'
  BY <1>2 DEF Exchanging
<1>7. CASE UNCHANGED <<disqualified, results>>
  <2>1. \A i : NumberFits(i)' <=> NumberFits(i)
    BY <1>2, <1>7 DEF NumberFits
  <2>2. OrderInv'
    BY <1>0, <1>2, <1>4, <1>5, <1>7, <2>1 DEF OrderInv
  <2> QED
    BY <1>0, <1>2, <1>6, <1>7, <2>2 DEF Inv, ResultsInv, ExchangeInv
<1>8. CASE disqualified' = TRUE /\ results' = <<[stage |-> 0, passed |-> FALSE]>> /\ phase' = "done"
  <2>1. results' \in Seq([stage : Nat, passed : BOOLEAN])
    <3>1. [stage |-> 0, passed |-> FALSE] \in [stage : Nat, passed : BOOLEAN]
      OBVIOUS
    <3>2. \A S : \A t \in S : <<t>> \in Seq(S)
      OBVIOUS
    <3> QED
      BY <1>8, <3>1, <3>2
  <2>2. OrderInv'
    BY <1>0, <1>2, <1>5, <1>8, <2>1 DEF OrderInv
  <2> QED
    BY <1>0, <1>2, <1>6, <1>8, <2>2 DEF Inv, ResultsInv, ExchangeInv
<1>9. \/ UNCHANGED <<disqualified, results>>
      \/ disqualified' = TRUE /\ results' = <<[stage |-> 0, passed |-> FALSE]>> /\ phase' = "done"
  BY DEF Comply, Start, WaitReady, Bench, pipelineVars
<1> QED
  BY <1>7, <1>8, <1>9

\* a stage begins with a new connection, and with keys of its own
LEMMA ConnectStep ==
    ASSUME Inv, Connect
    PROVE  Inv'
<1>0. ResultsInv /\ OrderInv
  BY DEF Inv, ResultsInv
<1>1. /\ phase = "connect" /\ phase' = "send" /\ step' = 1 /\ late' = FALSE /\ open' = TRUE
      /\ asked' = <<>> /\ wire' = <<>> /\ buf' = <<>> /\ waited' = 0
      /\ store' = [k \in Keys |-> "none"] /\ life' = 0
      /\ UNCHANGED <<task, disqualified, stage, results, proven, unearned, honest, prompt>>
  BY DEF Connect, NewConnection, pipelineVars
<1>2. /\ task \in {"redis", "http", "dns"} /\ stage \in 1..TotalStages
      /\ honest \in BOOLEAN /\ prompt \in BOOLEAN
  BY <1>0, <1>1, StagesCount DEF OrderInv
<1>3. ResultsInv'
  BY <1>0, <1>1, <1>2, SameResults
<1>4. 1..(step' - 1) = {} /\ step' \in 1..1
  BY <1>1
<1>5. CASE task = "redis"
  <2>1. stage \in 1..4
    BY <1>2, <1>5 DEF TotalStages, ByTask
  <2>2. store'["cnt"] = "none" /\ store' = [k \in Keys |-> store'[k]]
    BY <1>1 DEF Keys
  <2>3. Kept(stage, store', 1)
    BY <2>1, <2>2 DEF Kept
  <2>4. RedisTypeInv'
    <3>1. life' \in 0..Ttl /\ waited' \in Nat /\ open' \in BOOLEAN /\ late' \in BOOLEAN
      <4>1. life' \in 0..3 /\ waited' \in Nat
        BY <1>1
      <4>2. open' \in BOOLEAN /\ late' \in BOOLEAN
        BY <1>1, Zenon
      <4> QED
        BY <4>1, <4>2 DEF Ttl
    <3>2. step' \in 1..(IF stage' = 1 THEN 2 ELSE IF stage' = 2 THEN 7 ELSE IF stage' = 3 THEN 3 ELSE 5)
      BY <1>1, <2>1
    <3> QED
      BY <1>1, <2>1, <2>2, <3>1, <3>2 DEF RedisTypeInv
  <2>5. Idle' /\ Lives'
    BY <1>1 DEF Idle, Lives
  <2>6. RedisInv'
    BY <1>1, <1>4, <2>3, <2>4, <2>5 DEF RedisInv
  <2> QED
    BY <1>1, <1>3, <1>5, <2>6 DEF Inv, ExchangeInv
<1>6. CASE task = "http"
  <2>1. stage \in 1..5
    BY <1>2, <1>6 DEF TotalStages, ByTask
  <2>2. HttpInv'
    BY <1>1, <1>4, <2>1 DEF HttpInv
  <2> QED
    BY <1>1, <1>3, <1>6, <2>2 DEF Inv, ExchangeInv
<1>7. CASE task = "dns"
  BY <1>1, <1>3, <1>7 DEF Inv, ExchangeInv
<1> QED
  BY <1>2, <1>5, <1>6, <1>7

\* the connection is refused
LEMMA RefusedStep ==
    ASSUME Inv, Refused
    PROVE  Inv'
<1>1. /\ phase = "connect" /\ task = "redis" /\ Fail /\ honest' = FALSE
      /\ UNCHANGED <<task, disqualified, prompt>>
  BY DEF Refused, pipelineVars
<1>2. ResultsInv /\ prompt \in BOOLEAN
  BY DEF Inv, ResultsInv, OrderInv
<1> QED
  BY <1>1, <1>2, RedisFails

\* a step that changes nothing
LEMMA StutterStep ==
    ASSUME Inv, UNCHANGED vars
    PROVE  Inv'
<1>1. /\ UNCHANGED <<task, phase, disqualified, stage, step, asked, wire, buf, open, waited>>
      /\ UNCHANGED <<store, life, results, proven, unearned, late, honest, prompt>>
  BY DEF vars, pipelineVars, serverVars, clock, history
<1>2. ResultsInv'
  <2>1. TotalStages' = TotalStages /\ \A i : NumberFits(i)' <=> NumberFits(i)
    BY <1>1 DEF TotalStages, ByTask, NumberFits
  <2> QED
    BY <1>1, <2>1 DEF Inv, ResultsInv, OrderInv
<1>3. X' = X
  BY <1>1, SameRequest
<1>4. RedisInv' <=> RedisInv
  <2>1. (Unanswered' <=> Unanswered) /\ (Unanswerable' <=> Unanswerable) /\ (Answered' <=> Answered)
    BY <1>1, <1>3 DEF Unanswered, Unanswerable, Answered, Lives, Idle
  <2>2. SingleInv' <=> SingleInv
    BY <2>1 DEF SingleInv
  <2>3. PipeInv' <=> PipeInv
    <3>1. \A k : Piped(k)' <=> Piped(k)
      BY <1>1 DEF Piped
    <3> QED
      BY <1>1, <3>1 DEF PipeInv
  <2>4. (RedisTypeInv' <=> RedisTypeInv) /\ (Single' <=> Single) /\ (Idle' <=> Idle) /\ (Lives' <=> Lives)
        /\ \A n : Proved(n)' <=> Proved(n)
    BY <1>1 DEF RedisTypeInv, Single, Idle, Lives, Proved
  <2> QED
    BY <1>1, <2>2, <2>3, <2>4 DEF RedisInv
<1>5. HttpInv' <=> HttpInv
  <2>1. HttpLenient' = HttpLenient /\ \A s : Aspects(s)' = Aspects(s)
    <3>1. Stages' = Stages
      BY <1>1, SameRequest
    <3> QED
      BY <1>1, <3>1 DEF HttpLenient, Aspects, ByTask
  <2> QED
    BY <1>1, <2>1 DEF HttpInv
<1> QED
  BY <1>1, <1>2, <1>4, <1>5 DEF Inv, ExchangeInv, Exchanging

\* every step keeps Inv
LEMMA NextInv ==
    ASSUME Inv, [Next]_vars
    PROVE  Inv'
<1>1. CASE Comply \/ Start \/ WaitReady \/ Bench
  BY <1>1, ExecuteStep
<1>2. CASE Connect
  BY <1>2, ConnectStep
<1>3. CASE Refused
  BY <1>3, RefusedStep
<1>4. CASE Send
  BY <1>4, SendStep
<1>5. CASE SendFails
  BY <1>5, SendFailsStep
<1>6. CASE Serve
  BY <1>6, ServeStep
<1>7. CASE Deliver
  BY <1>7, DeliverStep
<1>8. CASE HangUp
  BY <1>8, HangUpStep
<1>9. CASE JudgeAnswer
  BY <1>9, JudgeAnswerStep
<1>10. CASE GiveUp
  BY <1>10, GiveUpStep
<1>11. CASE HttpExchange \/ HttpSilence
  BY <1>11, HttpStep
<1>12. CASE DnsExchange \/ DnsSilence \/ DnsBurst
  BY <1>12, DnsStep
<1>13. CASE UNCHANGED vars
  BY <1>13, StutterStep
<1> QED
  BY <1>1, <1>2, <1>3, <1>4, <1>5, <1>6, <1>7, <1>8, <1>9, <1>10, <1>11, <1>12, <1>13
     DEF Next, Harness, Server

(***************************************************************************)
(* Every state the verification reaches satisfies Inv: what has been asked *)
(* of the server, what it has answered and what the client has read fit    *)
(* together in every exchange of redis.rs, http.rs and dns.rs, and the     *)
(* results so far are in order and earned.                                 *)
(***************************************************************************)
THEOREM InvTheorem == Spec => []Inv
  BY InitInv, NextInv, PTL DEF Spec

-----------------------------------------------------------------------------
\* SingleInv makes the parser right about what has been read
LEMMA InvFrame == Inv => FrameWhenWhole
<1> SUFFICES ASSUME Inv, Reading, ~Pipelined, ~late
             PROVE  IsComplete(buf) <=> buf # <<>> /\ wire = <<>> /\ asked = <<>>
  BY DEF FrameWhenWhole
<1>1. Single
  BY RedisReading, RedisIsAt DEF Reading
<1>2. /\ IsComplete(buf) <=> Answered /\ wire = <<>>
      /\ IsComplete(buf) => buf # <<>> /\ asked = <<>>
  BY <1>1, ReadWhole
<1>3. buf # <<>> => Answered
  BY <1>1, ReadingNow DEF SingleInv, Unanswered, Unanswerable, Idle
<1> QED
  BY <1>2, <1>3

\* OrderInv counts and numbers the results
LEMMA InvOrder == Inv => StagesInOrder
<1> SUFFICES ASSUME Inv
             PROVE  /\ Status(FALSE) = "completed" => Len(results) = TotalStages
                    /\ \A i \in DOMAIN results :
                          \/ results[i].stage = i
                          \/ disqualified /\ results[i].stage = 0
                          \/ task = "dns" /\ i \in {2, 3} /\ ~results[i].passed /\ results[i].stage = 5 - i
  BY DEF StagesInOrder
<1>1. OrderInv
  BY DEF Inv, ResultsInv
<1>2. CASE disqualified
  <2>1. results = <<[stage |-> 0, passed |-> FALSE]>> /\ Status(FALSE) = "disqualified_cheat"
    BY <1>1, <1>2 DEF OrderInv, Status
  <2>2. \A i \in DOMAIN results : results[i].stage = 0
    BY <2>1
  <2> QED
    BY <1>2, <2>1, <2>2
<1>3. CASE ~disqualified
  <2>1. Len(results) = stage - 1 /\ \A i \in DOMAIN results : NumberFits(i)
    BY <1>1, <1>3 DEF OrderInv
  <2>2. stage \in 1..(TotalStages + 1) /\ TotalStages \in Nat
    BY <1>1, StagesCount DEF OrderInv
  <2> DEFINE passed == {i \in DOMAIN results : results[i].passed}
  <2>3. Cardinality(passed) <= Len(results)
    <3>1. DOMAIN results = 1..Len(results) /\ Len(results) \in Nat
      BY <1>1, LenProperties DEF OrderInv
    <3>2. IsFiniteSet(1..Len(results)) /\ Cardinality(1..Len(results)) = Len(results)
      <4>1. \A n \in Nat : IsFiniteSet(1..n) /\ Cardinality(1..n) = n
        <5> SUFFICES ASSUME NEW n \in Nat PROVE IsFiniteSet(1..n) /\ Cardinality(1..n) = n
          OBVIOUS
        <5>1. IsFiniteSet(1..n) /\ Cardinality(1..n) = IF 1 > n THEN 0 ELSE n - 1 + 1
          BY FS_Interval
        <5> QED
          BY <5>1
      <4> QED
        BY <3>1, <4>1
    <3>3. passed \subseteq 1..Len(results)
      BY <3>1
    <3> QED
      BY <3>2, <3>3, FS_Subset
  <2>4. ASSUME Status(FALSE) = "completed" PROVE Len(results) = TotalStages
    <3>1. Cardinality(passed) = TotalStages
      BY <2>4 DEF Status, PassedStages
    <3> HIDE DEF passed
    <3>2. Len(results) \in Nat /\ Len(results) <= TotalStages
      BY <2>1, <2>2
    <3> QED
      BY <2>2, <2>3, <3>1, <3>2
  <2> QED
    BY <2>1, <2>4 DEF NumberFits
<1> QED
  BY <1>2, <1>3

(* parse_resp_frame under send_resp_cmd takes a command's answer for whole *)
(* exactly when it has arrived whole, wherever the reads cut it and        *)
(* whatever value it carries.                                              *)
THEOREM FrameTheorem == Spec => []FrameWhenWhole
  BY InvTheorem, InvFrame, PTL

(* A stage of redis.rs, http.rs or dns.rs that passes has had everything   *)
(* it asks answered rightly, except for what Lenient names.                *)
THEOREM EarnedTheorem == Spec => []PassIsEarned
<1>1. Inv => PassIsEarned
  BY DEF Inv, ResultsInv, PassIsEarned
<1> QED
  BY <1>1, InvTheorem, PTL

(* A candidate that answers everything rightly and each exchange within    *)
(* 50 ms passes every stage it is put to, the expiry of redis.rs and its   *)
(* pipelined answers included.                                             *)
THEOREM ConformingTheorem == Spec => []ConformingPasses
<1>1. Inv => ConformingPasses
  BY DEF Inv, ResultsInv, ConformingPasses
<1> QED
  BY <1>1, InvTheorem, PTL

(* A run that execute ends as completed has been put to every stage of its *)
(* task once, and the results carry the stages' numbers in order, but for  *)
(* the two arms of dns.rs that carry each other's.                         *)
THEOREM OrderTheorem == Spec => []StagesInOrder
  BY InvTheorem, InvOrder, PTL
=============================================================================
