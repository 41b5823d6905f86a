------------------------- MODULE UnifiedDiff_proofs -------------------------
(***************************************************************************)
(* For texts of any length over any set of lines, and any lookahead, the   *)
(* emitted lines are a path through both files, and show both of them.     *)
(***************************************************************************)
EXTENDS UnifiedDiff, FiniteSetTheorems, TLAPS

Tags == {" ", "+", "-"}
Entries == [tag : Tags, text : Lines, i : Nat, j : Nat]

Skips == [tag : {"+", "-"}, left : Nat \ {0}]

DiffTypeOK ==
    /\ a \in Seq(Lines) /\ b \in Seq(Lines)
    /\ i \in 0..Len(a) /\ j \in 0..Len(b)
    /\ out \in Seq(Entries)
    /\ skip \in {NoSkip} \cup Skips

DiffInv == DiffTypeOK /\ SkipInRange /\ PathThroughBoth

\* One emitted line, at the cursors, and the cursors moved past it.
LEMMA EmitKeepsPath ==
    ASSUME DiffTypeOK, PathThroughBoth, NEW tag \in Tags, NEW text \in Lines,
           tag # "+" => i < Len(a) /\ text = a[i + 1],
           tag # "-" => j < Len(b) /\ text = b[j + 1],
           Emit(tag, text),
           i' = (IF tag = "+" THEN i ELSE i + 1),
           j' = (IF tag = "-" THEN j ELSE j + 1),
           a' = a, b' = b
    PROVE  /\ out' \in Seq(Entries)
           /\ i' \in 0..Len(a') /\ j' \in 0..Len(b')
           /\ PathThroughBoth'
<1> DEFINE e == [tag |-> tag, text |-> text, i |-> i, j |-> j]
<1> USE DEF DiffTypeOK
<1>1. e \in Entries /\ out' = Append(out, e)
  BY DEF Entries, Emit
<1>2. out' \in Seq(Entries) /\ Len(out') = Len(out) + 1 /\ Len(out) \in Nat
  BY <1>1
<1>3. \A n \in 1..Len(out) : out'[n] = out[n]
  BY <1>1
<1>4. out'[Len(out')] = e
  BY <1>1
<1>5. i' \in 0..Len(a') /\ j' \in 0..Len(b')
  <2>1. Len(a) \in Nat /\ Len(b) \in Nat /\ i \in Nat /\ j \in Nat
    OBVIOUS
  <2>2. i' \in 0..Len(a)
    <3>1. CASE tag = "+"
      BY <3>1
    <3>2. CASE tag # "+"
      BY <2>1, <3>2
    <3> QED
      BY <3>1, <3>2
  <2>3. j' \in 0..Len(b)
    <3>1. CASE tag = "-"
      BY <3>1
    <3>2. CASE tag # "-"
      BY <2>1, <3>2
    <3> QED
      BY <3>1, <3>2
  <2> QED
    BY <2>2, <2>3
<1>6. i' = AfterA(e) /\ j' = AfterB(e)
  BY DEF AfterA, AfterB
<1>7. ASSUME NEW n \in 1..Len(out')
      PROVE  /\ out'[n].tag # "+" => out'[n].i < Len(a) /\ out'[n].text = a[out'[n].i + 1]
             /\ out'[n].tag # "-" => out'[n].j < Len(b) /\ out'[n].text = b[out'[n].j + 1]
             /\ n = 1 => out'[n].i = 0 /\ out'[n].j = 0
             /\ n > 1 => out'[n].i = AfterA(out'[n - 1]) /\ out'[n].j = AfterB(out'[n - 1])
  <2>1. CASE n \in 1..Len(out)
    <3>1. out'[n] = out[n]
      BY <1>3, <2>1
    <3>2. n > 1 => n - 1 \in 1..Len(out)
      BY <1>2, <2>1
    <3>3. n > 1 => out'[n - 1] = out[n - 1]
      BY <1>3, <3>2
    <3> QED
      BY <2>1, <3>1, <3>3 DEF PathThroughBoth
  <2>2. CASE n = Len(out) + 1
    <3>1. out'[n] = e
      BY <1>2, <1>4, <2>2
    <3>2. CASE out = <<>>
      BY <1>2, <2>2, <3>1, <3>2 DEF PathThroughBoth
    <3>3. CASE out # <<>>
      <4>1. n > 1 /\ n - 1 = Len(out) /\ out'[n - 1] = out[Len(out)]
        BY <1>2, <1>3, <2>2, <3>3
      <4>2. i = AfterA(out[Len(out)]) /\ j = AfterB(out[Len(out)])
        BY <3>3 DEF PathThroughBoth
      <4> QED
        BY <3>1, <4>1, <4>2
    <3> QED
      BY <3>2, <3>3
  <2> QED
    BY <1>2, <2>1, <2>2
<1>8. out' # <<>>
  BY <1>2
<1>9. PathThroughBoth'
  BY <1>4, <1>6, <1>7, <1>8 DEF PathThroughBoth, AfterA, AfterB
<1> QED
  BY <1>2, <1>5, <1>9

\* The steps keep the types, the range of the lookahead and the path.
LEMMA DiffInvariant == Spec => []DiffInv
<1>1. Init => DiffInv
  <2> SUFFICES ASSUME Init PROVE DiffInv
    OBVIOUS
  <2>1. a \in Seq(Lines) /\ b \in Seq(Lines)
    BY TextsAssumption DEF Init
  <2>2. Len(a) \in Nat /\ Len(b) \in Nat
    BY <2>1
  <2>3. DiffTypeOK
    BY <2>1, <2>2 DEF Init, DiffTypeOK
  <2>4. SkipInRange
    BY DEF Init, SkipInRange, NoSkip
  <2>5. PathThroughBoth
    BY DEF Init, PathThroughBoth
  <2> QED
    BY <2>3, <2>4, <2>5 DEF DiffInv
<1>2. DiffInv /\ [Next]_vars => DiffInv'
  <2> SUFFICES ASSUME DiffInv, [Next]_vars PROVE DiffInv'
    OBVIOUS
  <2> USE DEF DiffInv
  <2>0. /\ Len(a) \in Nat /\ Len(b) \in Nat
        /\ i < Len(a) => a[i + 1] \in Lines
        /\ j < Len(b) => b[j + 1] \in Lines
    BY DEF DiffTypeOK
  <2>s. /\ skip.left = 0 => skip = NoSkip
        /\ skip.left > 0 => skip \in Skips
    <3>1. CASE skip = NoSkip
      <4>1. skip.left = 0
        BY <3>1 DEF NoSkip
      <4>2. ~(skip.left > 0)
        BY <4>1
      <4> QED
        BY <3>1, <4>2, Zenon
    <3>2. CASE skip \in Skips
      <4>1. skip.left # 0
        BY <3>2 DEF Skips
      <4> QED
        BY <3>2, <4>1, Zenon
    <3> QED
      BY <3>1, <3>2 DEF DiffTypeOK
  <2>1. CASE Keep
    <3>1. out' \in Seq(Entries) /\ i' \in 0..Len(a') /\ j' \in 0..Len(b') /\ PathThroughBoth'
      BY <2>0, <2>1, EmitKeepsPath DEF Keep, InBoth, Tags
    <3>2. skip' = NoSkip /\ a' = a /\ b' = b
      BY <2>1, <2>s DEF Keep
    <3>3. SkipInRange'
      BY <3>2 DEF SkipInRange, NoSkip
    <3> QED
      BY <3>1, <3>2, <3>3 DEF DiffTypeOK
  <2>2. CASE SkipInB
    <3>1. PICK k \in 1..LookAhead : FoundInB(k) /\ skip' = [tag |-> "+", left |-> k]
      BY <2>2 DEF SkipInB
    <3>2. k \in Nat /\ k > 0
      BY LookAheadAssumption
    <3>3. j + k <= Len(b)
      <4>1. j \in Nat
        BY DEF DiffTypeOK
      <4>2. j + k < Len(b)
        BY <3>1 DEF FoundInB
      <4> QED
        BY <2>0, <3>2, <4>1, <4>2
    <3>4. UNCHANGED <<a, b, i, j, out>>
      BY <2>2 DEF SkipInB
    <3>5. skip' \in Skips
      BY <3>1, <3>2 DEF Skips
    <3>6. DiffTypeOK'
      BY <3>4, <3>5 DEF DiffTypeOK
    <3>7. SkipInRange'
      BY <3>1, <3>3, <3>4 DEF SkipInRange
    <3>8. PathThroughBoth'
      BY <3>4 DEF PathThroughBoth, AfterA, AfterB
    <3> QED
      BY <3>6, <3>7, <3>8
  <2>3. CASE SkipInA
    <3>1. PICK k \in 1..LookAhead : FoundInA(k) /\ skip' = [tag |-> "-", left |-> k]
      BY <2>3 DEF SkipInA
    <3>2. k \in Nat /\ k > 0
      BY LookAheadAssumption
    <3>3. i + k <= Len(a)
      <4>1. i \in Nat
        BY DEF DiffTypeOK
      <4>2. i + k < Len(a)
        BY <3>1 DEF FoundInA
      <4> QED
        BY <2>0, <3>2, <4>1, <4>2
    <3>4. UNCHANGED <<a, b, i, j, out>>
      BY <2>3 DEF SkipInA
    <3>5. skip' \in Skips
      BY <3>1, <3>2 DEF Skips
    <3>6. DiffTypeOK'
      BY <3>4, <3>5 DEF DiffTypeOK
    <3>7. SkipInRange'
      BY <3>1, <3>3, <3>4 DEF SkipInRange
    <3>8. PathThroughBoth'
      BY <3>4 DEF PathThroughBoth, AfterA, AfterB
    <3> QED
      BY <3>6, <3>7, <3>8
  <2>4. CASE EmitSkipped
    <3>1. CASE skip.tag = "+"
      <4>s. skip \in Skips
        BY <2>4, <2>s DEF EmitSkipped
      <4>0. skip.left \in Nat \ {0} /\ j \in Nat
        BY <4>s DEF DiffTypeOK, Skips
      <4>1. j + skip.left <= Len(b) /\ j < Len(b)
        BY <2>0, <3>1, <4>0 DEF SkipInRange
      <4>2. out' \in Seq(Entries) /\ i' \in 0..Len(a') /\ j' \in 0..Len(b') /\ PathThroughBoth'
        BY <2>0, <2>4, <3>1, <4>1, EmitKeepsPath DEF EmitSkipped, Tags
      <4>3. j' = j + 1 /\ i' = i /\ a' = a /\ b' = b
            /\ skip' = IF skip.left = 1 THEN NoSkip ELSE [skip EXCEPT !.left = @ - 1]
        BY <2>4, <3>1 DEF EmitSkipped
      <4>4. CASE skip.left = 1
        <5>1. skip' = NoSkip
          BY <4>3, <4>4
        <5>2. SkipInRange'
          BY <5>1 DEF SkipInRange, NoSkip
        <5> QED
          BY <4>2, <4>3, <5>1, <5>2 DEF DiffTypeOK
      <4>5. CASE skip.left # 1
        <5>2. skip' = [skip EXCEPT !.left = skip.left - 1]
          BY <4>3, <4>5
        <5>3. skip.left - 1 \in Nat \ {0}
          BY <4>0, <4>5
        <5>4. skip' \in Skips /\ skip'.tag = skip.tag
              /\ skip'.left = skip.left - 1
          BY <4>s, <5>2, <5>3 DEF Skips
        <5>5. SkipInRange'
          BY <2>0, <3>1, <4>0, <4>1, <4>3, <5>4 DEF SkipInRange
        <5> QED
          BY <4>2, <4>3, <5>4, <5>5 DEF DiffTypeOK
      <4> QED
        BY <4>4, <4>5
    <3>2. CASE skip.tag = "-"
      <4>s. skip \in Skips
        BY <2>4, <2>s DEF EmitSkipped
      <4>0. skip.left \in Nat \ {0} /\ i \in Nat
        BY <4>s DEF DiffTypeOK, Skips
      <4>1. i + skip.left <= Len(a) /\ i < Len(a)
        BY <2>0, <3>2, <4>0 DEF SkipInRange
      <4>2. out' \in Seq(Entries) /\ i' \in 0..Len(a') /\ j' \in 0..Len(b') /\ PathThroughBoth'
        BY <2>0, <2>4, <3>2, <4>1, EmitKeepsPath DEF EmitSkipped, Tags
      <4>3. i' = i + 1 /\ j' = j /\ a' = a /\ b' = b
            /\ skip' = IF skip.left = 1 THEN NoSkip ELSE [skip EXCEPT !.left = @ - 1]
        BY <2>4, <3>2 DEF EmitSkipped
      <4>4. CASE skip.left = 1
        <5>1. skip' = NoSkip
          BY <4>3, <4>4
        <5>2. SkipInRange'
          BY <5>1 DEF SkipInRange, NoSkip
        <5> QED
          BY <4>2, <4>3, <5>1, <5>2 DEF DiffTypeOK
      <4>5. CASE skip.left # 1
        <5>2. skip' = [skip EXCEPT !.left = skip.left - 1]
          BY <4>3, <4>5
        <5>3. skip.left - 1 \in Nat \ {0}
          BY <4>0, <4>5
        <5>4. skip' \in Skips /\ skip'.tag = skip.tag
              /\ skip'.left = skip.left - 1
          BY <4>s, <5>2, <5>3 DEF Skips
        <5>5. SkipInRange'
          BY <2>0, <3>2, <4>0, <4>1, <4>3, <5>4 DEF SkipInRange
        <5> QED
          BY <4>2, <4>3, <5>4, <5>5 DEF DiffTypeOK
      <4> QED
        BY <4>4, <4>5
    <3> QED
      BY <2>4, <3>1, <3>2 DEF EmitSkipped
  <2>5. CASE ReplaceLine
    <3>1. out' \in Seq(Entries) /\ i' \in 0..Len(a') /\ j' \in 0..Len(b') /\ PathThroughBoth'
      BY <2>0, <2>5, EmitKeepsPath DEF ReplaceLine, Mismatch, InBoth, Tags
    <3>2. skip' = [tag |-> "+", left |-> 1] /\ j' = j /\ a' = a /\ b' = b /\ j < Len(b)
      BY <2>5 DEF ReplaceLine, Mismatch, InBoth
    <3>3. skip' \in Skips
      BY <3>2 DEF Skips
    <3>4. SkipInRange'
      BY <2>0, <3>2 DEF SkipInRange, DiffTypeOK
    <3> QED
      BY <3>1, <3>2, <3>3, <3>4 DEF DiffTypeOK
  <2>6. CASE RestOfA
    <3>1. out' \in Seq(Entries) /\ i' \in 0..Len(a') /\ j' \in 0..Len(b') /\ PathThroughBoth'
      BY <2>0, <2>6, EmitKeepsPath DEF RestOfA, Tags
    <3>2. skip' = NoSkip /\ a' = a /\ b' = b
      BY <2>6, <2>s DEF RestOfA
    <3>3. SkipInRange'
      BY <3>2 DEF SkipInRange, NoSkip
    <3> QED
      BY <3>1, <3>2, <3>3 DEF DiffTypeOK
  <2>7. CASE RestOfB
    <3>1. out' \in Seq(Entries) /\ i' \in 0..Len(a') /\ j' \in 0..Len(b') /\ PathThroughBoth'
      BY <2>0, <2>7, EmitKeepsPath DEF RestOfB, Tags
    <3>2. skip' = NoSkip /\ a' = a /\ b' = b
      BY <2>7, <2>s DEF RestOfB
    <3>3. SkipInRange'
      BY <3>2 DEF SkipInRange, NoSkip
    <3> QED
      BY <3>1, <3>2, <3>3 DEF DiffTypeOK
  <2>8. CASE UNCHANGED vars
    BY <2>8 DEF vars, DiffTypeOK, SkipInRange, PathThroughBoth, AfterA, AfterB
  <2> QED
    BY <2>1, <2>2, <2>3, <2>4, <2>5, <2>6, <2>7, <2>8 DEF Next
<1> QED
  BY <1>1, <1>2, PTL DEF Spec

\* No line of either file is dropped, repeated, reordered or altered.
THEOREM DiffIsAPath == Spec => []PathThroughBoth
<1>1. DiffInv => PathThroughBoth
  BY DEF DiffInv
<1> QED
  BY <1>1, DiffInvariant, PTL

\* The lookahead loop never leaves the file whose lines it emits.
THEOREM RangeTheorem == Spec => []SkipInRange
<1>1. DiffInv => SkipInRange
  BY DEF DiffInv
<1> QED
  BY <1>1, DiffInvariant, PTL

-----------------------------------------------------------------------------
(* The finished diff shows both files. *)

\* What one more line adds to the lines without a tag.
LEMMA CountNext ==
    ASSUME NEW tag, NEW es, NEW n \in Nat
    PROVE  /\ Cardinality(Without(tag, es, n)) \in Nat
           /\ es[n + 1].tag # tag =>
                Cardinality(Without(tag, es, n + 1)) = Cardinality(Without(tag, es, n)) + 1
           /\ es[n + 1].tag = tag =>
                Cardinality(Without(tag, es, n + 1)) = Cardinality(Without(tag, es, n))
<1>1. IsFiniteSet(1..n) /\ Without(tag, es, n) \in SUBSET (1..n)
  BY FS_Interval DEF Without
<1>2. IsFiniteSet(Without(tag, es, n))
  BY <1>1, FS_Subset
<1>3. Cardinality(Without(tag, es, n)) \in Nat
  BY <1>2, FS_CardinalityType
<1>4. n + 1 \notin Without(tag, es, n)
  BY DEF Without
<1>5. Cardinality(Without(tag, es, n) \cup {n + 1}) = Cardinality(Without(tag, es, n)) + 1
  BY <1>2, <1>4, FS_AddElement
<1>6. ASSUME es[n + 1].tag # tag
      PROVE  Without(tag, es, n + 1) = Without(tag, es, n) \cup {n + 1}
  BY <1>6 DEF Without
<1>7. ASSUME es[n + 1].tag = tag
      PROVE  Without(tag, es, n + 1) = Without(tag, es, n)
  BY <1>7 DEF Without
<1> QED
  BY <1>3, <1>5, <1>6, <1>7

\* Both cursors count the lines taken from their files.
Counted(es, n, x, y) ==
    /\ x = Cardinality(Without("+", es, n))
    /\ y = Cardinality(Without("-", es, n))

CountInv ==
    /\ \A n \in 1..Len(out) : Counted(out, n - 1, out[n].i, out[n].j)
    /\ Counted(out, Len(out), i, j)

\* An emitted line is counted for the files it is taken from.
LEMMA EmitCounts ==
    ASSUME DiffTypeOK, CountInv, NEW tag \in Tags, NEW text,
           Emit(tag, text),
           i' = (IF tag = "+" THEN i ELSE i + 1),
           j' = (IF tag = "-" THEN j ELSE j + 1)
    PROVE  CountInv'
<1> DEFINE e == [tag |-> tag, text |-> text, i |-> i, j |-> j]
           es == out'
           len == Len(out)
<1>1. es = Append(out, e) /\ len \in Nat /\ out \in Seq(Entries) /\ i \in Nat /\ j \in Nat
  BY DEF Emit, DiffTypeOK
<1>2. /\ Len(es) = len + 1
      /\ es[len + 1] = e
      /\ \A n \in 1..len : es[n] = out[n]
  BY <1>1
<1>3. ASSUME NEW t, NEW n \in 0..len PROVE Without(t, es, n) = Without(t, out, n)
  <2>1. \A m \in 1..n : es[m] = out[m]
    BY <1>1, <1>2
  <2> QED
    BY <2>1 DEF Without
<1>4. Counted(es, len, i, j)
  BY <1>1, <1>3 DEF CountInv, Counted
<1> HIDE DEF e, es, len
<1>5. /\ Cardinality(Without("+", es, len + 1)) = IF tag = "+" THEN i ELSE i + 1
      /\ Cardinality(Without("-", es, len + 1)) = IF tag = "-" THEN j ELSE j + 1
  <2>1. es[len + 1].tag = tag
    BY <1>2 DEF e
  <2> QED
    BY <1>1, <1>4, <2>1, CountNext DEF Counted
<1>6. Counted(es, len + 1, i', j')
  BY <1>5 DEF Counted
<1>7. ASSUME NEW n \in 1..len + 1 PROVE Counted(es, n - 1, es[n].i, es[n].j)
  <2>1. CASE n \in 1..len
    <3>1. es[n] = out[n] /\ n - 1 \in 0..len
      BY <1>1, <1>2, <2>1
    <3>2. Counted(out, n - 1, out[n].i, out[n].j)
      BY <2>1 DEF CountInv, len
    <3> QED
      BY <1>3, <3>1, <3>2 DEF Counted
  <2>2. CASE n = len + 1
    <3>1. es[n].i = i /\ es[n].j = j /\ n - 1 = len
      BY <1>1, <1>2, <2>2 DEF e
    <3> QED
      BY <1>4, <3>1
  <2>3. n \in 1..len \/ n = len + 1
    BY <1>1
  <2> QED
    BY <2>1, <2>2, <2>3
<1> QED
  BY <1>2, <1>6, <1>7 DEF CountInv, es

LEMMA CountInvariant == Spec => []CountInv
<1>1. Init => CountInv
  <2>1. ASSUME NEW t PROVE Cardinality(Without(t, <<>>, 0)) = 0
    <3>1. Without(t, <<>>, 0) = {}
      BY DEF Without
    <3> QED
      BY <3>1, FS_EmptySet
  <2> QED
    BY <2>1 DEF Init, CountInv, Counted
<1>2. DiffInv /\ CountInv /\ [Next]_vars => CountInv'
  <2> SUFFICES ASSUME DiffInv, CountInv, [Next]_vars PROVE CountInv'
    OBVIOUS
  <2> USE DEF DiffInv
  <2>1. CASE Keep
    BY <2>1, EmitCounts DEF Keep, Tags
  <2>2. CASE EmitSkipped
    BY <2>2, EmitCounts DEF EmitSkipped, Tags
  <2>3. CASE ReplaceLine
    BY <2>3, EmitCounts DEF ReplaceLine, Tags
  <2>4. CASE RestOfA
    BY <2>4, EmitCounts DEF RestOfA, Tags
  <2>5. CASE RestOfB
    BY <2>5, EmitCounts DEF RestOfB, Tags
  <2>6. CASE SkipInB \/ SkipInA \/ UNCHANGED vars
    <3>1. UNCHANGED <<i, j, out>>
      BY <2>6 DEF SkipInB, SkipInA, vars
    <3> QED
      BY <3>1 DEF CountInv, Counted
  <2> QED
    BY <2>1, <2>2, <2>3, <2>4, <2>5, <2>6 DEF Next
<1> QED
  BY <1>1, <1>2, DiffInvariant, PTL DEF Spec

\* Every line of both files is in the finished diff, once, in its order and
\* unaltered.
THEOREM RestoresTheorem == Spec => []RestoresBoth
<1>1. DiffInv /\ CountInv => RestoresBoth
  <2> SUFFICES ASSUME DiffInv, CountInv, Finished, a # b
               PROVE  ReadsAs(a, "+") /\ ReadsAs(b, "-")
    BY DEF RestoresBoth
  <2>1. /\ Cardinality(Without("+", out, Len(out))) = Len(a)
        /\ Cardinality(Without("-", out, Len(out))) = Len(b)
    BY DEF Finished, CountInv, Counted
  <2>2. ASSUME NEW t, NEW n \in Without(t, out, Len(out))
        PROVE  /\ n \in 1..Len(out) /\ out[n].tag # t
               /\ Cardinality(Without(t, out, n)) = Cardinality(Without(t, out, n - 1)) + 1
    <3>1. n \in 1..Len(out) /\ out[n].tag # t
      BY DEF Without
    <3>2. n - 1 \in Nat /\ (n - 1) + 1 = n
      BY <3>1 DEF DiffInv, DiffTypeOK
    <3> QED
      BY <3>1, <3>2, CountNext
  <2>3. \A n \in Without("+", out, Len(out)) :
            out[n].text = a[Cardinality(Without("+", out, n))]
    BY <2>2 DEF DiffInv, PathThroughBoth, CountInv, Counted
  <2>4. \A n \in Without("-", out, Len(out)) :
            out[n].text = b[Cardinality(Without("-", out, n))]
    BY <2>2 DEF DiffInv, PathThroughBoth, CountInv, Counted
  <2> QED
    BY <2>1, <2>3, <2>4 DEF ReadsAs
<1> QED
  BY <1>1, DiffInvariant, CountInvariant, PTL
=============================================================================
