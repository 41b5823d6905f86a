-------------------------- MODULE MCToolNormalizer --------------------------
(* Texts of up to three segments: prose, calls in each form, blocks whose  *)
(* names and contents repeat or wrap each other.                           *)
EXTENDS ToolNormalizer

Looks == ToolCall("bash", None, Plain("ls"), TRUE)

Proses ==
    { Prose(None, "word", FALSE), Prose(None, "word", TRUE), Prose("./a.py", "tick", FALSE),
      Prose("start.sh", "word", FALSE) }

Envelopes ==
    { Envelope(kind, call, TRUE) : kind \in {"xml", "json", "function"},
                                   call \in {Looks, Write("a.py", Wrapped(<<"start.sh">>, "one"))} }
    \cup { Envelope("xml", Looks, FALSE) }

Blocks ==
    { Fence(None, Plain("two"), None, FALSE),           Fence(None, Plain("three"), "start.sh", TRUE),
      Fence("/workspace/a.py", Plain("four"), None, FALSE), Fence(None, Wrapped(<<"a.py">>, "five"), "main.py", FALSE),
      Fence("../a.py", Plain("six"), None, FALSE),      Fence("a.py", Wrapped(<<None, "start.sh">>, "seven"), None, FALSE) }

Alone ==
    { <<Envelope("bare", Write("a.py", Wrapped(<<None>>, "one")), valid)>> : valid \in BOOLEAN }
    \cup { <<Command(Wrapped(<<path>>, "one"))>> : path \in {None, "/workspace/a.py"} }

SomeTexts ==
    LET Parts == Proses \cup Envelopes \cup Blocks
    IN  Alone \cup UNION {[1..n -> Parts] : n \in 0..3}

SomeCalls ==
    { <<>>, <<Looks>>, <<Looks, Write("a.py", Wrapped(<<"/workspace/start.sh">>, "one"))>>,
      <<Write("a.py", Wrapped(<<"a.py", "start.sh">>, "one"))>>,
      <<ToolCall("write", None, Wrapped(<<"a.py">>, "one"), FALSE), Write("a.py", Plain("one"))>> }
=============================================================================
