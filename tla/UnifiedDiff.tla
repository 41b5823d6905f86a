---------------------------- MODULE UnifiedDiff ----------------------------
(***************************************************************************)
(* generate_unified_diff (src/web/server.rs), which shows two versions of  *)
(* a file side by side in a run comparison.  Two cursors walk the files;   *)
(* on a mismatch the code looks a few lines ahead, first in b and then in  *)
(* a at each distance, emits the lines it skips, and otherwise replaces    *)
(* one line by the other.  One step emits one line.                        *)
(***************************************************************************)
EXTENDS Integers, Sequences, FiniteSets

CONSTANTS
    Lines,       \* the lines
    Texts,       \* the texts that may be compared, sequences of lines
    LookAhead    \* how far a match is searched (5 in the code)

ASSUME TextsAssumption == Texts \subseteq Seq(Lines)
ASSUME LookAheadAssumption == LookAhead \in Nat

VARIABLES
    a, b,    \* lines_a and lines_b
    i, j,    \* the cursors: lines of a and of b that are behind
    out,     \* the emitted lines: a tag, the text, and the cursors before it
    skip     \* the lookahead loop: the tag it emits and how many lines are left

vars == <<a, b, i, j, out, skip>>

NoSkip == [tag |-> " ", left |-> 0]

Init ==
    /\ a \in Texts /\ b \in Texts
    /\ i = 0 /\ j = 0
    /\ out = <<>>
    /\ skip = NoSkip

\* equal files return at once, the others when both cursors are at the end
Finished == a = b \/ (i = Len(a) /\ j = Len(b))

InBoth    == i < Len(a) /\ j < Len(b)
Mismatch  == InBoth /\ a[i + 1] # b[j + 1]

\* the line at cursor a is in b, k lines ahead; and the other way round
FoundInB(k) == j + k < Len(b) /\ a[i + 1] = b[j + k + 1]
FoundInA(k) == i + k < Len(a) /\ a[i + k + 1] = b[j + 1]
FoundBefore(k) == \E l \in 1..k - 1 : FoundInB(l) \/ FoundInA(l)

Emit(tag, text) == out' = Append(out, [tag |-> tag, text |-> text, i |-> i, j |-> j])

-----------------------------------------------------------------------------

Keep ==
    /\ ~Finished /\ skip.left = 0
    /\ InBoth /\ a[i + 1] = b[j + 1]
    /\ Emit(" ", a[i + 1])
    /\ i' = i + 1 /\ j' = j + 1
    /\ UNCHANGED <<a, b, skip>>

\* Mutant: the match is searched from the next line on, one line short.
SkipInB_short ==
    /\ ~Finished /\ skip.left = 0 /\ Mismatch
    /\ \E k \in 1..LookAhead :
        /\ FoundInB(k) /\ ~FoundBefore(k)
        /\ skip' = [tag |-> "+", left |-> k]
        /\ j' = j + 1
    /\ UNCHANGED <<a, b, i, out>>

SkipInB ==
    /\ ~Finished /\ skip.left = 0 /\ Mismatch
    /\ \E k \in 1..LookAhead :
        /\ FoundInB(k) /\ ~FoundBefore(k)
        /\ skip' = [tag |-> "+", left |-> k]
    /\ UNCHANGED <<a, b, i, j, out>>

\* Mutant: the lines skipped in a are taken from b.
SkipInA_swapped ==
    /\ ~Finished /\ skip.left = 0 /\ Mismatch
    /\ \E k \in 1..LookAhead :
        /\ FoundInA(k) /\ ~FoundInB(k) /\ ~FoundBefore(k)
        /\ skip' = [tag |-> "+", left |-> k]
    /\ UNCHANGED <<a, b, i, j, out>>

SkipInA ==
    /\ ~Finished /\ skip.left = 0 /\ Mismatch
    /\ \E k \in 1..LookAhead :
        /\ FoundInA(k) /\ ~FoundInB(k) /\ ~FoundBefore(k)
        /\ skip' = [tag |-> "-", left |-> k]
    /\ UNCHANGED <<a, b, i, j, out>>

\* the inner loop over the skipped lines
EmitSkipped ==
    /\ skip.left > 0
    /\ skip' = IF skip.left = 1 THEN NoSkip ELSE [skip EXCEPT !.left = @ - 1]
    /\ \/ skip.tag = "+" /\ Emit("+", b[j + 1]) /\ j' = j + 1 /\ i' = i
       \/ skip.tag = "-" /\ Emit("-", a[i + 1]) /\ i' = i + 1 /\ j' = j
    /\ UNCHANGED <<a, b>>

\* no match within reach: the old line now, the new one in the next step
ReplaceLine ==
    /\ ~Finished /\ skip.left = 0 /\ Mismatch
    /\ ~FoundBefore(LookAhead + 1)
    /\ Emit("-", a[i + 1])
    /\ i' = i + 1
    /\ skip' = [tag |-> "+", left |-> 1]
    /\ UNCHANGED <<a, b, j>>

\* Mutant: the last line is never taken.
RestOfA_stuck ==
    /\ ~Finished /\ skip.left = 0
    /\ i + 1 < Len(a) /\ j = Len(b)
    /\ Emit("-", a[i + 1])
    /\ i' = i + 1
    /\ UNCHANGED <<a, b, j, skip>>

RestOfA ==
    /\ ~Finished /\ skip.left = 0
    /\ i < Len(a) /\ j = Len(b)
    /\ Emit("-", a[i + 1])
    /\ i' = i + 1
    /\ UNCHANGED <<a, b, j, skip>>

\* Mutant: what b has left is not emitted.
RestOfB_dropped ==
    /\ ~Finished /\ skip.left = 0
    /\ i = Len(a) /\ j < Len(b)
    /\ j' = Len(b)
    /\ UNCHANGED <<a, b, i, out, skip>>

RestOfB ==
    /\ ~Finished /\ skip.left = 0
    /\ i = Len(a) /\ j < Len(b)
    /\ Emit("+", b[j + 1])
    /\ j' = j + 1
    /\ UNCHANGED <<a, b, i, skip>>

Next == Keep \/ SkipInB \/ SkipInA \/ EmitSkipped \/ ReplaceLine \/ RestOfA \/ RestOfB

Spec == Init /\ [][Next]_vars

\* a function runs on until it returns
FairSpec == Spec /\ WF_vars(Next)

-----------------------------------------------------------------------------
(* Properties *)

\* The lookahead loop never leaves the file whose lines it emits.
SkipInRange ==
    /\ skip.tag = "+" => j + skip.left <= Len(b)
    /\ skip.tag = "-" => i + skip.left <= Len(a)

\* The cursors after a line was emitted.
AfterA(e) == IF e.tag = "+" THEN e.i ELSE e.i + 1
AfterB(e) == IF e.tag = "-" THEN e.j ELSE e.j + 1

\* The emitted lines are a path through both files: each is the line at the
\* cursor it says, and starts where the one before it ended.  So no line of
\* either file is dropped, repeated, reordered or altered.
PathThroughBoth ==
    /\ \A n \in 1..Len(out) :
        /\ out[n].tag # "+" => out[n].i < Len(a) /\ out[n].text = a[out[n].i + 1]
        /\ out[n].tag # "-" => out[n].j < Len(b) /\ out[n].text = b[out[n].j + 1]
        /\ n = 1 => out[n].i = 0 /\ out[n].j = 0
        /\ n > 1 => out[n].i = AfterA(out[n - 1]) /\ out[n].j = AfterB(out[n - 1])
    /\ out = <<>> => i = 0 /\ j = 0
    /\ out # <<>> => i = AfterA(out[Len(out)]) /\ j = AfterB(out[Len(out)])

\* The first n emitted lines without those of one tag.
Without(tag, es, n) == {m \in 1..n : es[m].tag # tag}

\* A text is read from the emitted lines that do not carry the tag: they are as
\* many, and the one that is the k-th among them is the text's k-th line.
ReadsAs(text, tag) ==
    LET place(n) == Cardinality(Without(tag, out, n))
    IN  /\ place(Len(out)) = Len(text)
        /\ \A n \in Without(tag, out, Len(out)) : out[n].text = text[place(n)]

\* Read without its "+" lines the finished diff is the old file, without its
\* "-" lines the new one.
RestoresBoth == Finished /\ a # b => ReadsAs(a, "+") /\ ReadsAs(b, "-")

\* The walk reaches the end of both files.
Terminates == <>Finished
=============================================================================
