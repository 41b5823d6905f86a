--------------------------- MODULE Results_proofs ---------------------------
(***************************************************************************)
(* For any processes, runs, failed writes and kills: a result that readers *)
(* accept has the archive of its run.  A run writes below its own id only; *)
(* whoever shares the id is its rival, and rivals are known to be unsound. *)
(* Without a rival, what the run has written so far is still there when it *)
(* saves its result, and nobody writes below the id afterwards.            *)
(***************************************************************************)
EXTENDS Results, FiniteSetTheorems, SequenceTheorems, TLAPS

\* places from which a run writes its archive, or may yet do so
Before  == {"agent", "manifest", "console", "files"}
Writers == Before \cup {"result"}
Places  == Writers \cup {"idle", "load", "index", "json", "page"}

RunSet     == [proc : Procs, id : Ids]
ArchiveSet == [manifest : RunSet \cup {Torn, None}, console : RunSet \cup {Torn, None},
               files : SUBSET (RunSet \cup {Torn})]
ResultSet  == [run : RunSet, passed : BOOLEAN]

TypeInv ==
    /\ clock \in Ids /\ fails \in Nat
    /\ pc \in [Procs -> Places] /\ half \in [Procs -> BOOLEAN]
    /\ run \in [Procs -> RunSet \cup {None}]
    /\ archive \in [Ids -> ArchiveSet]
    /\ result \in [Ids -> ResultSet \cup {Torn, None}]

Holds(p, id) == run[p] # None /\ run[p].id = id

Owned ==
    \A p \in Procs :
        /\ pc[p] \in Writers => run[p] # None
        /\ run[p] # None => run[p].proc = p /\ run[p].id <= clock

\* two processes that hold one id are rivals
Rivals ==
    \A p, q \in Procs : p # q /\ Holds(p, run[p].id) /\ Holds(q, run[p].id) => run[p] \in unsound

\* an id that can still be had and that nobody holds has no files
Blank ==
    \A id \in Ids :
        id >= clock /\ (\A p \in Procs : ~Holds(p, id)) => archive[id].files = {}

\* what a run without a rival has written so far
Written(p) ==
    LET a == archive[run[p].id]
        r == run[p]
    IN  /\ pc[p] \in {"agent", "manifest", "console"} => a.files = {}
        /\ pc[p] \in {"console", "files", "result"} => a.manifest = r
        /\ pc[p] \in {"files", "result"} => a.console = r
        /\ pc[p] = "files" => a.files \subseteq {Torn}
        /\ pc[p] = "result" => a.files = {r}

Progress == \A p \in Procs : pc[p] \in Writers /\ run[p] \notin unsound => Written(p)

\* a run that has saved its result is done with its archive
Saved ==
    \A id \in Entries :
        LET r == result[id].run
        IN  /\ r.id = id /\ id <= clock
            /\ id = clock => run[r.proc] = r
            /\ \A q \in Procs : Holds(q, id) /\ run[q] # r => r \in unsound
            /\ \A q \in Procs : run[q] = r => pc[q] \notin Before

ArchiveInv == TypeInv /\ Owned /\ Rivals /\ Blank /\ Progress /\ Saved /\ ResultHasArchive

----------------------------------------------------------------------------
LEMMA EntryIsResult ==
    ASSUME TypeInv, NEW id \in Entries
    PROVE  id \in Ids /\ result[id] \in ResultSet /\ result[id].run \in RunSet
  BY DEF TypeInv, Entries, Whole, ResultSet

\* A step that writes no run's files, and moves nobody to where a run writes,
\* except from its agent to the manifest.
LEMMA IdleStep ==
    ASSUME ArchiveInv,
           UNCHANGED <<clock, run, archive, result, unsound>>,
           pc' \in [Procs -> Places], half' \in [Procs -> BOOLEAN], fails' \in Nat,
           \A q \in Procs : \/ pc'[q] = pc[q]
                            \/ pc'[q] \notin Writers
                            \/ pc[q] = "agent" /\ pc'[q] = "manifest"
    PROVE  ArchiveInv'
<1> USE DEF ArchiveInv
<1>1. TypeInv'
  BY DEF TypeInv
<1>2. Owned'
  BY DEF Owned, Writers, Before
<1>3. Rivals' /\ Blank'
  BY DEF Rivals, Blank, Holds
<1>4. Progress'
  BY DEF Progress, Written, Writers, Before
<1>5. Entries' = Entries
  BY DEF Entries
<1>6. Saved'
  BY <1>5 DEF Saved, Holds, Before, Writers
<1>7. ResultHasArchive'
  BY <1>5 DEF ResultHasArchive
<1> QED
  BY <1>1, <1>2, <1>3, <1>4, <1>6, <1>7

\* A step of a run that writes a part of its archive, and goes on.
LEMMA ArchiveStep ==
    ASSUME ArchiveInv, NEW p \in Procs, pc[p] \in Before,
           NEW to \in {"manifest", "console", "files", "result"},
           NEW new \in ArchiveSet,
           pc' = [pc EXCEPT ![p] = to],
           archive' = [archive EXCEPT ![run[p].id] = new],
           UNCHANGED <<clock, run, result>>,
           unsound \subseteq unsound',
           half' \in [Procs -> BOOLEAN], fails' \in Nat,
           run[p] \notin unsound' => Written(p)'
    PROVE  ArchiveInv'
<1> USE DEF ArchiveInv
<1>1. run[p] # None /\ run[p] \in RunSet /\ run[p].id \in Ids
  BY DEF Owned, TypeInv, Writers, RunSet
<1>2. TypeInv'
  BY <1>1 DEF TypeInv, Places, Writers, Before
<1>3. \A q \in Procs : pc'[q] = IF q = p THEN to ELSE pc[q]
  BY DEF TypeInv
<1>4. \A id \in Ids : archive'[id] = IF id = run[p].id THEN new ELSE archive[id]
  BY DEF TypeInv
<1>5. Owned'
  BY <1>1, <1>3 DEF Owned, Writers
<1>6. Rivals'
  BY DEF Rivals, Holds
<1>7. Blank'
  <2> SUFFICES ASSUME NEW id \in Ids, id >= clock, \A q \in Procs : ~Holds(q, id)
               PROVE  archive'[id].files = {}
    BY DEF Blank, Holds
  <2>1. id # run[p].id
    BY <1>1 DEF Holds
  <2> QED
    BY <2>1, <1>4 DEF Blank
<1>8. Progress'
  <2> SUFFICES ASSUME NEW q \in Procs, pc'[q] \in Writers, run[q] \notin unsound'
               PROVE  Written(q)'
    BY DEF Progress
  <2>1. CASE q = p
    BY <2>1
  <2>2. CASE q # p
    <3>1. pc'[q] = pc[q] /\ Written(q)
      BY <1>3, <2>2 DEF Progress
    <3>2. run[q] # None /\ run[q].id \in Ids
      BY <3>1 DEF Owned, TypeInv, RunSet
    <3>3. run[q].id # run[p].id
      BY <1>1, <2>2, <3>2 DEF Rivals, Holds
    <3>4. archive'[run[q].id] = archive[run[q].id]
      BY <1>4, <3>2, <3>3
    <3> QED
      BY <3>1, <3>4 DEF Written
  <2> QED
    BY <2>1, <2>2
<1>9. Entries' = Entries
  BY DEF Entries
<1>10. \A id \in Entries : result[id].run # run[p]
  BY DEF Saved
<1>11. Saved'
  BY <1>3, <1>9, <1>10 DEF Saved, Holds
<1>12. ResultHasArchive'
  <2> SUFFICES ASSUME NEW id \in Entries, result[id].run \notin unsound'
               PROVE  archive'[id] = [manifest |-> result[id].run, console |-> result[id].run,
                                      files |-> {result[id].run}]
    BY <1>9 DEF ResultHasArchive
  <2>1. ~Holds(p, id)
    BY <1>10 DEF Saved
  <2>2. id \in Ids /\ id # run[p].id
    BY <1>1, <2>1 DEF Holds, Entries
  <2> QED
    BY <1>4, <2>2 DEF ResultHasArchive
<1> QED
  BY <1>2, <1>5, <1>6, <1>7, <1>8, <1>11, <1>12

----------------------------------------------------------------------------
(* The steps.                                                              *)

LEMMA Goes ==
    ASSUME TypeInv, NEW p \in Procs, NEW next \in Places, Go(p, next)
    PROVE  /\ pc' \in [Procs -> Places]
           /\ \A q \in Procs : pc'[q] = IF q = p THEN next ELSE pc[q]
  BY DEF Go, TypeInv

LEMMA WritingGoes ==
    ASSUME TypeInv, NEW p \in Procs, NEW next \in Places, NEW orElse \in Places,
           Writing(p, next, orElse)
    PROVE  /\ half' \in [Procs -> BOOLEAN] /\ fails' \in Nat
           /\ \/ half'[p] /\ ~Failed /\ UNCHANGED pc
              \/ ~half'[p] /\ ~Failed /\ Go(p, next)
              \/ ~half'[p] /\ Failed /\ Go(p, orElse)
<1>1. CASE ~half[p] /\ half' = [half EXCEPT ![p] = TRUE] /\ UNCHANGED <<pc, fails>>
  <2>1. half'[p] /\ half' \in [Procs -> BOOLEAN]
    BY <1>1 DEF TypeInv
  <2> QED
    BY <1>1, <2>1 DEF TypeInv, Failed
<1>2. CASE half' = [half EXCEPT ![p] = FALSE] /\ Go(p, next) /\ UNCHANGED fails
  <2>1. ~half'[p] /\ half' \in [Procs -> BOOLEAN]
    BY <1>2 DEF TypeInv
  <2> QED
    BY <1>2, <2>1 DEF TypeInv, Failed
<1>3. CASE half' = [half EXCEPT ![p] = FALSE] /\ Go(p, orElse) /\ fails' = fails + 1
  <2>1. ~half'[p] /\ half' \in [Procs -> BOOLEAN]
    BY <1>3 DEF TypeInv
  <2>2. fails' \in Nat /\ Failed
    BY <1>3 DEF TypeInv, Failed
  <2> QED
    BY <1>3, <2>1, <2>2
<1> QED
  BY <1>1, <1>2, <1>3 DEF Writing

\* nobody holds the id of a new run, or whoever does is its rival
LEMMA StartStep ==
    ASSUME ArchiveInv, NEW p \in Procs, Start(p)
    PROVE  ArchiveInv'
<1> USE DEF ArchiveInv
<1>1. /\ pc[p] = "idle" /\ Go(p, "agent")
      /\ UNCHANGED <<half, archive, result, fails>>
  BY DEF Start
<1>2. PICK now \in {clock, clock + 1} \cap Ids :
        /\ run[p] # None => run[p].id # now
        /\ clock' = now
        /\ run' = [run EXCEPT ![p] = [proc |-> p, id |-> now]]
        /\ LET same == {q \in Others(p) : run[q] # None /\ run[q].id = now}
           IN  unsound' = IF same = {} THEN unsound
                          ELSE unsound \cup {run'[p]} \cup {run[q] : q \in same}
  BY DEF Start
<1> DEFINE new == [proc |-> p, id |-> now]
<1>3. /\ new \in RunSet /\ new.proc = p /\ new.id = now /\ new # None
      /\ now \in Nat /\ clock \in Nat /\ now \in Ids
      /\ now = clock \/ now = clock + 1
  BY NoneAssumption, BoundsAssumption DEF RunSet, Ids, TypeInv
<1> HIDE DEF new
<1>4. \A q \in Procs : run'[q] = IF q = p THEN new ELSE run[q]
  BY <1>2 DEF new, TypeInv
<1>5. /\ pc' \in [Procs -> Places]
      /\ \A q \in Procs : pc'[q] = IF q = p THEN "agent" ELSE pc[q]
  BY <1>1, Goes DEF Places, Writers, Before
<1>6. /\ ~Holds(p, now)
      /\ unsound \subseteq unsound'
      /\ \A q \in Procs : Holds(q, now) => new \in unsound' /\ run[q] \in unsound'
  BY <1>2, <1>4 DEF Holds, Others
<1>7. TypeInv'
  BY <1>1, <1>2, <1>3, <1>4, <1>5 DEF TypeInv, new
<1>8. Owned'
  BY <1>2, <1>3, <1>4, <1>5 DEF Owned, TypeInv, RunSet, Ids
<1>9. Rivals'
  <2> SUFFICES ASSUME NEW q \in Procs, NEW s \in Procs, q # s,
                      Holds(q, run[q].id)', Holds(s, run[q].id)'
               PROVE  run'[q] \in unsound'
    BY DEF Rivals, Holds
  <2>1. CASE q = p
    BY <2>1, <1>3, <1>4, <1>6 DEF Holds
  <2>2. CASE s = p
    BY <2>2, <1>3, <1>4, <1>6 DEF Holds
  <2>3. CASE q # p /\ s # p
    BY <2>3, <1>4, <1>6 DEF Rivals, Holds
  <2> QED
    BY <2>1, <2>2, <2>3
<1>10. \A id \in Ids : id > clock => \A q \in Procs : ~Holds(q, id)
  BY <1>3 DEF Holds, Owned, TypeInv, RunSet, Ids
<1>11. Blank'
  <2> SUFFICES ASSUME NEW id \in Ids, id >= now, \A q \in Procs : ~Holds(q, id)'
               PROVE  archive[id].files = {}
    BY <1>1, <1>2 DEF Blank
  <2>1. id # now
    BY <1>3, <1>4 DEF Holds
  <2>2. id > clock
    BY <1>3, <2>1 DEF Ids
  <2> QED
    BY <1>3, <1>10, <2>2 DEF Blank, Ids
<1>12. Progress'
  <2> SUFFICES ASSUME NEW q \in Procs, pc'[q] \in Writers, run'[q] \notin unsound'
               PROVE  Written(q)'
    BY DEF Progress
  <2>1. CASE q # p
    BY <2>1, <1>1, <1>4, <1>5, <1>6 DEF Progress, Written
  <2>2. CASE q = p
    <3>1. \A s \in Procs : ~Holds(s, now)
      BY <2>2, <1>4, <1>6
    <3>2. archive[now].files = {}
      BY <3>1, <1>3 DEF Blank
    <3> QED
      BY <3>2, <2>2, <1>1, <1>3, <1>4, <1>5 DEF Written
  <2> QED
    BY <2>1, <2>2
<1>13. Entries' = Entries
  BY <1>1 DEF Entries
<1>14. ASSUME NEW id \in Entries
       PROVE  /\ id = now => result[id].run \in unsound' /\ run'[result[id].run.proc] = result[id].run
              /\ result[id].run # new
  <2> DEFINE r == result[id].run
  <2>1. id \in Ids /\ r \in RunSet /\ r # None /\ r.id = id /\ id <= clock /\ r.proc \in Procs
    BY EntryIsResult, NoneAssumption DEF Saved, RunSet, Ids
  <2>2. CASE id # now
    BY <2>1, <2>2, <1>3
  <2>3. CASE id = now
    <3>1. run[r.proc] = r
      BY <2>1, <2>3, <1>3 DEF Saved, Ids
    <3>2. Holds(r.proc, now) /\ r.proc # p
      BY <2>1, <2>3, <3>1, <1>6 DEF Holds
    <3> QED
      BY <2>1, <3>1, <3>2, <1>3, <1>4, <1>6
  <2> QED
    BY <2>2, <2>3
<1>15. Saved'
  <2> SUFFICES ASSUME NEW id \in Entries
               PROVE  LET r == result[id].run
                      IN  /\ r.id = id /\ id <= now
                          /\ id = now => run'[r.proc] = r
                          /\ \A q \in Procs : Holds(q, id)' /\ run'[q] # r => r \in unsound'
                          /\ \A q \in Procs : run'[q] = r => pc'[q] \notin Before
    BY <1>1, <1>2, <1>13 DEF Saved
  <2> DEFINE r == result[id].run
  <2>1. id \in Ids /\ r.id = id /\ id <= clock
    BY EntryIsResult DEF Saved
  <2>2. r.id = id /\ id <= now
    BY <2>1, <1>3 DEF Ids
  <2>3. id = now => run'[r.proc] = r
    BY <1>14
  <2>4. ASSUME NEW q \in Procs, Holds(q, id)', run'[q] # r
        PROVE  r \in unsound'
    <3>1. CASE q = p
      BY <3>1, <2>4, <1>3, <1>4, <1>14 DEF Holds
    <3>2. CASE q # p
      BY <3>2, <2>4, <1>4, <1>6 DEF Saved, Holds
    <3> QED
      BY <3>1, <3>2
  <2>5. ASSUME NEW q \in Procs, run'[q] = r
        PROVE  pc'[q] \notin Before
    BY <2>5, <1>4, <1>5, <1>14 DEF Saved
  <2> QED
    BY <2>2, <2>3, <2>4, <2>5
<1>16. ResultHasArchive'
  BY <1>1, <1>6, <1>13 DEF ResultHasArchive
<1> QED
  BY <1>7, <1>8, <1>9, <1>11, <1>12, <1>15, <1>16

LEMMA FinishStep ==
    ASSUME ArchiveInv, NEW p \in Procs, Finish(p)
    PROVE  ArchiveInv'
<1>1. /\ pc[p] = "agent" /\ (Go(p, "manifest") \/ Go(p, "idle"))
      /\ UNCHANGED <<clock, run, archive, result, unsound, half, fails>>
  BY DEF Finish, After, counts, faults
<1>2. PICK next \in {"manifest", "idle"} : Go(p, next)
  BY <1>1
<1>3. TypeInv /\ next \in Places
  BY DEF ArchiveInv, Places, Writers, Before
<1>4. pc' \in [Procs -> Places] /\ \A q \in Procs : pc'[q] = IF q = p THEN next ELSE pc[q]
  BY <1>2, <1>3, Goes
<1>5. half' \in [Procs -> BOOLEAN] /\ fails' \in Nat
  BY <1>1, <1>3 DEF TypeInv
<1>6. next = "manifest" \/ next \notin Writers
  BY DEF Writers, Before
<1> QED
  BY <1>1, <1>4, <1>5, <1>6, IdleStep

\* One write of an archive: it is opened, or written to the end and gone on
\* from, or it fails and the run is unsound.
LEMMA WriteStep ==
    ASSUME ArchiveInv, NEW p \in Procs,
           NEW here \in {"manifest", "console", "files"},
           NEW next \in {"console", "files", "result"},
           NEW new \in ArchiveSet,
           pc[p] = here, Writing(p, next, "result"),
           archive' = [archive EXCEPT ![run[p].id] = new],
           Archiving(p),
           ASSUME ~Failed, run[p] \notin unsound,
                  pc'[p] = IF half'[p] THEN here ELSE next,
                  archive'[run[p].id] = new
           PROVE  Written(p)'
    PROVE  ArchiveInv'
<1>1. /\ unsound' = IF Failed THEN unsound \cup {run[p]} ELSE unsound
      /\ UNCHANGED <<clock, run, result>>
  BY DEF Archiving, counts
<1>2. TypeInv /\ run[p] \in RunSet /\ run[p].id \in Ids
  BY DEF ArchiveInv, Owned, TypeInv, Writers, Before, RunSet
<1>3. /\ half' \in [Procs -> BOOLEAN] /\ fails' \in Nat
      /\ \/ half'[p] /\ ~Failed /\ UNCHANGED pc
         \/ ~half'[p] /\ ~Failed /\ Go(p, next)
         \/ ~half'[p] /\ Failed /\ Go(p, "result")
  BY <1>2, WritingGoes DEF Places, Writers, Before
<1>4. archive'[run[p].id] = new /\ pc[p] \in Before
  BY <1>2 DEF TypeInv, Before
<1>5. CASE half'[p] /\ ~Failed /\ UNCHANGED pc
  <2>1. pc' = [pc EXCEPT ![p] = here] /\ unsound' = unsound /\ pc'[p] = here
    BY <1>1, <1>2, <1>5 DEF TypeInv
  <2>2. run[p] \notin unsound' => Written(p)'
    BY <1>4, <1>5, <2>1
  <2> QED
    BY <1>1, <1>3, <1>4, <2>1, <2>2, ArchiveStep
<1>6. CASE ~half'[p] /\ ~Failed /\ Go(p, next)
  <2>1. pc' = [pc EXCEPT ![p] = next] /\ unsound' = unsound /\ pc'[p] = next
    BY <1>1, <1>2, <1>6 DEF TypeInv, Go
  <2>2. run[p] \notin unsound' => Written(p)'
    BY <1>4, <1>6, <2>1
  <2> QED
    BY <1>1, <1>3, <1>4, <2>1, <2>2, ArchiveStep
<1>7. CASE ~half'[p] /\ Failed /\ Go(p, "result")
  <2>1. pc' = [pc EXCEPT ![p] = "result"] /\ unsound \subseteq unsound' /\ run[p] \in unsound'
    BY <1>1, <1>7 DEF Go
  <2> QED
    BY <1>1, <1>3, <1>4, <2>1, ArchiveStep
<1> QED
  BY <1>3, <1>5, <1>6, <1>7

\* what a run writes to, and what it has written before
LEMMA AtHand ==
    ASSUME ArchiveInv, NEW p \in Procs, pc[p] \in Writers
    PROVE  /\ run[p] # None /\ run[p] \in RunSet /\ run[p].id \in Ids
           /\ archive[run[p].id] \in ArchiveSet
           /\ run[p] \notin unsound => Written(p)
  BY DEF ArchiveInv, Owned, Progress, TypeInv, RunSet

LEMMA WriteManifestStep ==
    ASSUME ArchiveInv, NEW p \in Procs, WriteManifest(p)
    PROVE  ArchiveInv'
<1>1. /\ pc[p] = "manifest" /\ Writing(p, "console", "result") /\ Archiving(p)
      /\ archive' = [archive EXCEPT ![run[p].id].manifest = Content(p, @, run[p])]
  BY DEF WriteManifest, After
<1> DEFINE old == archive[run[p].id]
           new == [old EXCEPT !.manifest = Content(p, @, run[p])]
<1>2. run[p] \in RunSet /\ old \in ArchiveSet /\ (run[p] \notin unsound => Written(p))
  BY <1>1, AtHand DEF Writers, Before
<1>3. archive' = [archive EXCEPT ![run[p].id] = new] /\ new \in ArchiveSet
  BY <1>1, <1>2 DEF Content, ArchiveSet
<1>4. ASSUME ~Failed, run[p] \notin unsound,
             pc'[p] = IF half'[p] THEN "manifest" ELSE "console",
             archive'[run[p].id] = new
      PROVE  Written(p)'
  <2>1. new.files = {} /\ (~half'[p] => new.manifest = run[p]) /\ run' = run
    BY <1>1, <1>2, <1>4 DEF Written, Content, ArchiveSet, Archiving
  <2> HIDE DEF new
  <2> QED
    BY <1>4, <2>1 DEF Written
<1> HIDE DEF new
<1> QED
  BY <1>1, <1>3, <1>4, WriteStep

LEMMA WriteConsoleStep ==
    ASSUME ArchiveInv, NEW p \in Procs, WriteConsole(p)
    PROVE  ArchiveInv'
<1>1. /\ pc[p] = "console" /\ Writing(p, "files", "result") /\ Archiving(p)
      /\ archive' = [archive EXCEPT ![run[p].id].console = Content(p, @, run[p])]
  BY DEF WriteConsole, After
<1> DEFINE old == archive[run[p].id]
           new == [old EXCEPT !.console = Content(p, @, run[p])]
<1>2. run[p] \in RunSet /\ old \in ArchiveSet /\ (run[p] \notin unsound => Written(p))
  BY <1>1, AtHand DEF Writers, Before
<1>3. archive' = [archive EXCEPT ![run[p].id] = new] /\ new \in ArchiveSet
  BY <1>1, <1>2 DEF Content, ArchiveSet
<1>4. ASSUME ~Failed, run[p] \notin unsound,
             pc'[p] = IF half'[p] THEN "console" ELSE "files",
             archive'[run[p].id] = new
      PROVE  Written(p)'
  <2>1. /\ new.files = {} /\ new.manifest = run[p] /\ run' = run
        /\ ~half'[p] => new.console = run[p]
    BY <1>1, <1>2, <1>4 DEF Written, Content, ArchiveSet, Archiving
  <2> HIDE DEF new
  <2> QED
    BY <1>4, <2>1 DEF Written
<1> HIDE DEF new
<1> QED
  BY <1>1, <1>3, <1>4, WriteStep

LEMMA CopyWorkspaceStep ==
    ASSUME ArchiveInv, NEW p \in Procs, CopyWorkspace(p)
    PROVE  ArchiveInv'
<1> DEFINE old == archive[run[p].id]
           copied == IF half'[p] THEN old.files \cup {Torn}
                     ELSE IF Failed THEN old.files
                     ELSE (old.files \ {Torn}) \cup {run[p]}
           new == [old EXCEPT !.files = copied]
<1>1. /\ pc[p] = "files" /\ Writing(p, "result", "result") /\ Archiving(p)
      /\ archive' = [archive EXCEPT ![run[p].id] = new]
  BY DEF CopyWorkspace, After
<1>2. run[p] \in RunSet /\ old \in ArchiveSet /\ (run[p] \notin unsound => Written(p))
  BY <1>1, AtHand DEF Writers, Before
<1>3. copied \in SUBSET (RunSet \cup {Torn})
  BY <1>2 DEF ArchiveSet
<1>4. ~Failed => copied = IF half'[p] THEN old.files \cup {Torn} ELSE (old.files \ {Torn}) \cup {run[p]}
  OBVIOUS
<1> HIDE DEF copied
<1>5. new \in ArchiveSet
  BY <1>2, <1>3 DEF ArchiveSet
<1>6. ASSUME ~Failed, run[p] \notin unsound,
             pc'[p] = IF half'[p] THEN "files" ELSE "result",
             archive'[run[p].id] = new
      PROVE  Written(p)'
  <2>1. /\ new.manifest = run[p] /\ new.console = run[p] /\ run' = run
        /\ new.files = IF half'[p] THEN {Torn} ELSE {run[p]}
    <3>1. old.manifest = run[p] /\ old.console = run[p] /\ old.files \subseteq {Torn}
      BY <1>1, <1>2, <1>6 DEF Written
    <3>2. new.manifest = run[p] /\ new.console = run[p] /\ new.files = copied
      BY <1>2, <3>1 DEF ArchiveSet
    <3>3. copied = IF half'[p] THEN {Torn} ELSE {run[p]}
      BY <1>4, <1>6, <3>1
    <3> QED
      BY <1>1, <3>2, <3>3 DEF Archiving
  <2> HIDE DEF new
  <2> QED
    BY <1>6, <2>1 DEF Written
<1> HIDE DEF new
<1> QED
  BY <1>1, <1>5, <1>6, WriteStep

\* without a rival, the archive is what the run has written
LEMMA WriteResultStep ==
    ASSUME ArchiveInv, NEW p \in Procs, WriteResult(p)
    PROVE  ArchiveInv'
<1>1. /\ pc[p] = "result" /\ Writing(p, "load", "load")
      /\ UNCHANGED <<clock, run, archive, unsound>>
  BY DEF WriteResult, After, counts
<1>2. PICK passed \in BOOLEAN :
        result' = [result EXCEPT ![run[p].id] =
                      Content(p, @, [run |-> run[p], passed |-> passed])]
  BY DEF WriteResult
<1> DEFINE id == run[p].id
           new == [run |-> run[p], passed |-> passed]
<1>3. /\ TypeInv /\ run[p] # None /\ run[p] \in RunSet /\ id \in Ids
      /\ run[p] \notin unsound => Written(p)
  BY <1>1, AtHand DEF ArchiveInv, Writers
<1>4. /\ half' \in [Procs -> BOOLEAN] /\ fails' \in Nat
      /\ \/ half'[p] /\ ~Failed /\ UNCHANGED pc
         \/ ~half'[p] /\ Go(p, "load")
  BY <1>1, <1>3, WritingGoes DEF Places
<1>5. /\ pc' \in [Procs -> Places]
      /\ \A q \in Procs : pc'[q] = pc[q] \/ (q = p /\ pc'[q] = "load")
  <2>1. CASE UNCHANGED pc
    BY <1>3, <2>1 DEF TypeInv
  <2>2. CASE Go(p, "load")
    BY <1>3, <2>2, Goes DEF Places
  <2> QED
    BY <1>4, <2>1, <2>2
<1>6. \A i \in Ids : result'[i] = IF i = id THEN Content(p, result[id], new) ELSE result[i]
  BY <1>2, <1>3 DEF TypeInv
<1>7. new \in ResultSet /\ new.run = run[p]
  BY <1>3 DEF ResultSet
<1> HIDE DEF new
<1>8. Content(p, result[id], new) \in {Torn, result[id], new}
  BY DEF Content
<1>9. CASE Content(p, result[id], new) = result[id]
  <2>1. result' = result
    BY <1>2, <1>3, <1>9 DEF TypeInv, new
  <2> QED
    BY <1>1, <1>4, <1>5, <2>1, IdleStep DEF Writers, Before
<1>10. CASE Content(p, result[id], new) # result[id]
  <2>1. /\ result' \in [Ids -> ResultSet \cup {Torn, None}]
    BY <1>2, <1>3, <1>7, <1>8 DEF TypeInv, new
  <2>2. TypeInv'
    BY <1>1, <1>3, <1>4, <1>5, <2>1 DEF TypeInv
  <2>3. Owned'
    BY <1>1, <1>5 DEF ArchiveInv, Owned, Writers, Before
  <2>4. Rivals' /\ Blank'
    BY <1>1 DEF ArchiveInv, Rivals, Blank, Holds
  <2>5. Progress'
    BY <1>1, <1>5 DEF ArchiveInv, Progress, Written, Writers, Before
  <2>6. \A i \in Entries' : \/ i \in Entries /\ result'[i] = result[i]
                            \/ i = id /\ result'[i].run = run[p]
    BY <1>6, <1>7, <1>8, <1>10 DEF Entries, Whole
  <2>7. Saved'
    <3> SUFFICES ASSUME NEW i \in Entries'
                 PROVE  LET r == result'[i].run
                        IN  /\ r.id = i /\ i <= clock
                            /\ i = clock => run[r.proc] = r
                            /\ \A q \in Procs : Holds(q, i) /\ run[q] # r => r \in unsound
                            /\ \A q \in Procs : run[q] = r => pc'[q] \notin Before
      BY <1>1 DEF Saved, Holds
    <3>1. CASE i \in Entries /\ result'[i] = result[i]
      <4>1. \A q \in Procs : pc'[q] \in Before => pc[q] \in Before
        BY <1>5 DEF Before
      <4> QED
        BY <3>1, <4>1 DEF ArchiveInv, Saved
    <3>2. CASE i = id /\ result'[i].run = run[p]
      <4>1. run[p].proc = p /\ id <= clock
        BY <1>3 DEF ArchiveInv, Owned
      <4>2. \A q \in Procs : Holds(q, id) /\ run[q] # run[p] => run[p] \in unsound
        BY <1>3 DEF ArchiveInv, Rivals, Holds
      <4>3. \A q \in Procs : run[q] = run[p] => q = p
        BY <1>3, <4>1 DEF ArchiveInv, Owned
      <4>4. pc'[p] \notin Before
        BY <1>1, <1>5 DEF Before
      <4> QED
        BY <3>2, <4>1, <4>2, <4>3, <4>4
    <3> QED
      BY <2>6, <3>1, <3>2
  <2>8. ResultHasArchive'
    <3> SUFFICES ASSUME NEW i \in Entries', result'[i].run \notin unsound
                 PROVE  archive[i] = [manifest |-> result'[i].run, console |-> result'[i].run,
                                      files |-> {result'[i].run}]
      BY <1>1 DEF ResultHasArchive
    <3>1. CASE i \in Entries /\ result'[i] = result[i]
      BY <3>1 DEF ArchiveInv, ResultHasArchive
    <3>2. CASE i = id /\ result'[i].run = run[p]
      <4>1. archive[id] \in ArchiveSet /\ Written(p)
        BY <1>3, <3>2 DEF TypeInv
      <4> QED
        BY <1>1, <3>2, <4>1 DEF Written, ArchiveSet
    <3> QED
      BY <2>6, <3>1, <3>2
  <2> QED
    BY <2>2, <2>3, <2>4, <2>5, <2>7, <2>8 DEF ArchiveInv
<1> QED
  BY <1>9, <1>10

\* The export and a kill write no run's files.
LEMMA ExportStep ==
    ASSUME ArchiveInv, NEW p \in Procs,
           \/ Load(p) \/ WriteIndex(p) \/ WriteJson(p) \/ ExportPage(p) \/ Prune(p) \/ Crash(p)
    PROVE  ArchiveInv'
<1>1. TypeInv /\ UNCHANGED <<clock, run, archive, result, unsound>>
  BY DEF ArchiveInv, Load, WriteIndex, WriteJson, ExportPage, Prune, Crash, counts, faults
<1>2. /\ half' \in [Procs -> BOOLEAN] /\ fails' \in Nat
      /\ UNCHANGED pc \/ \E next \in {"idle", "index", "json", "page"} : Go(p, next)
  <2>1. CASE Load(p)
    BY <1>1, <2>1 DEF Load, TypeInv, faults
  <2>5. CASE Prune(p)
    <3>1. UNCHANGED half /\ Go(p, "idle") /\ (UNCHANGED fails \/ fails' = fails + 1)
      BY <2>5 DEF Prune
    <3> QED
      BY <1>1, <3>1 DEF TypeInv
  <2>6. CASE Crash(p)
    <3>1. half' = [half EXCEPT ![p] = FALSE] /\ Go(p, "idle") /\ UNCHANGED fails
      BY <2>6 DEF Crash
    <3> QED
      BY <1>1, <3>1 DEF TypeInv
  <2>2. CASE WriteIndex(p)
    <3>1. Writing(p, "json", "idle")
      BY <2>2 DEF WriteIndex
    <3> QED
      BY <1>1, <3>1, WritingGoes DEF Places
  <2>3. CASE WriteJson(p)
    <3>1. Writing(p, "page", "idle")
      BY <2>3 DEF WriteJson
    <3> QED
      BY <1>1, <3>1, WritingGoes DEF Places
  <2>4. CASE ExportPage(p)
    <3>1. UNCHANGED fails \/ fails' = fails + 1
      BY <2>4 DEF ExportPage
    <3>2. \E b \in BOOLEAN : half' = [half EXCEPT ![p] = b]
      BY <2>4 DEF ExportPage
    <3>3. UNCHANGED pc
      BY <2>4 DEF ExportPage
    <3> QED
      BY <1>1, <3>1, <3>2, <3>3 DEF TypeInv
  <2> QED
    BY <2>1, <2>2, <2>3, <2>4, <2>5, <2>6
<1>3. /\ pc' \in [Procs -> Places]
      /\ \A q \in Procs : pc'[q] = pc[q] \/ pc'[q] \in {"idle", "index", "json", "page"}
  BY <1>1, <1>2, Goes DEF TypeInv, Places
<1> QED
  BY <1>1, <1>2, <1>3, IdleStep DEF Writers, Before

LEMMA CommandStep ==
    ASSUME ArchiveInv, Command
    PROVE  ArchiveInv'
<1>1. /\ TypeInv /\ Cli \in Procs /\ Go(Cli, "load")
      /\ UNCHANGED <<clock, run, archive, result, unsound, half, fails>>
  BY BoundsAssumption DEF ArchiveInv, Command, counts, faults
<1>2. pc' \in [Procs -> Places] /\ \A q \in Procs : pc'[q] = IF q = Cli THEN "load" ELSE pc[q]
  BY <1>1, Goes DEF Places
<1>3. half' \in [Procs -> BOOLEAN] /\ fails' \in Nat
  BY <1>1 DEF TypeInv
<1> QED
  BY <1>1, <1>2, <1>3, IdleStep DEF Writers, Before

LEMMA ArchiveInvInit == Init => ArchiveInv
<1> SUFFICES ASSUME Init PROVE ArchiveInv
  OBVIOUS
<1>1. TypeInv
  BY BoundsAssumption DEF Init, TypeInv, Ids, Places, ArchiveSet
<1>2. Entries = {}
  BY DEF Init, Entries, Whole
<1>3. Owned /\ Rivals /\ Blank /\ Progress
  BY DEF Init, Owned, Rivals, Blank, Progress, Holds, Writers, Before
<1>4. Saved /\ ResultHasArchive
  BY <1>2 DEF Saved, ResultHasArchive
<1> QED
  BY <1>1, <1>3, <1>4 DEF ArchiveInv

LEMMA ArchiveInvStep == ArchiveInv /\ [Next]_vars => ArchiveInv'
<1> SUFFICES ASSUME ArchiveInv, [Next]_vars PROVE ArchiveInv'
  OBVIOUS
<1>1. CASE Command
  BY <1>1, CommandStep
<1>2. CASE UNCHANGED vars
  <2>1. /\ UNCHANGED <<clock, run, archive, result, unsound>> /\ UNCHANGED <<pc, half, fails>>
    BY <1>2 DEF vars, counts, local, faults
  <2> QED
    BY <2>1, IdleStep DEF ArchiveInv, TypeInv
<1>3. ASSUME NEW p \in Procs,
             \/ Start(p) \/ Finish(p)
             \/ WriteManifest(p) \/ WriteConsole(p) \/ CopyWorkspace(p) \/ WriteResult(p)
             \/ Load(p) \/ WriteIndex(p) \/ WriteJson(p) \/ ExportPage(p) \/ Prune(p)
             \/ Crash(p)
      PROVE  ArchiveInv'
  BY <1>3, StartStep, FinishStep, WriteManifestStep, WriteConsoleStep, CopyWorkspaceStep,
     WriteResultStep, ExportStep
<1> QED
  BY <1>1, <1>2, <1>3 DEF Next

(* However many processes save runs at once, and wherever writes fail or a *)
(* process is killed: a result that readers accept has the whole archive   *)
(* of its run, unless the archive is known to have failed or the run's id  *)
(* was taken twice in one second.                                          *)
THEOREM ArchiveTheorem == Spec => []ResultHasArchive
<1>1. ArchiveInv => ResultHasArchive
  BY DEF ArchiveInv
<1> QED
  BY <1>1, ArchiveInvInit, ArchiveInvStep, PTL DEF Spec

----------------------------------------------------------------------------
(* The portal.  An export that nothing has disturbed is the only one; it   *)
(* shows a ranking of what is on disk, and the pages it is past are right, *)
(* whatever was there before.  Nobody exports when the portal is settled.  *)

UniqueIds(s) == \A i, j \in DOMAIN s : s[i].run.id = s[j].run.id => i = j

\* how far an export of p is
Exported(p) ==
    /\ pc[p] \in {"index", "json"} => todo[p] = snap[p]
    /\ pc[p] \in {"json", "page"} => index = snap[p]
    /\ pc[p] = "page" =>
        /\ json = snap[p]
        /\ \A id \in ShownIds(snap[p]) \ ShownIds(todo[p]) : page[id] = {archive[id]}
        /\ half[p] /\ todo[p] # <<>> => page[Head(todo[p]).run.id] = {Torn}

Undisturbed(p) ==
    /\ Exporting(p) /\ \A q \in Others(p) : ~Exporting(q)
    /\ snap[p] \in {Truncate(s) : s \in Rankings}
    /\ todo[p] \in Seq(ResultSet) /\ UniqueIds(todo[p])
    /\ ShownIds(todo[p]) \subseteq ShownIds(snap[p])
    /\ Exported(p)

Shaped ==
    /\ page = [id \in Ids |-> page[id]]
    /\ snap = [q \in Procs |-> snap[q]] /\ todo = [q \in Procs |-> todo[q]]

PortalInv ==
    /\ Shaped
    /\ clear \subseteq Procs
    /\ \A p \in clear : Undisturbed(p)
    /\ settled => \A q \in Procs : ~Exporting(q)
    /\ PortalMatches

\* The readers' rankings hold every result once, hence every id.
LEMMA RankingIsUnique ==
    ASSUME TypeInv, Saved, NEW s \in Rankings
    PROVE  s \in Seq(ResultSet) /\ UniqueIds(s)
<1> DEFINE T == {result[id] : id \in Entries}
           f == [id \in Entries |-> result[id]]
<1>1. /\ s \in [1..Cardinality(T) -> T]
      /\ \A i, j \in 1..Cardinality(T) : i # j => s[i] # s[j]
  BY DEF Rankings, SetToSeqs
<1>2. IsFiniteSet(Entries)
  <2>1. IsFiniteSet(Ids)
    BY BoundsAssumption, FS_Interval DEF Ids
  <2>2. Entries \in SUBSET Ids
    BY DEF Entries
  <2> QED
    BY <2>1, <2>2, FS_Subset
<1>3. f \in Surjection(Entries, T)
  BY DEF Surjection
<1>4. IsFiniteSet(T)
  BY <1>2, <1>3, FS_Surjection
<1>5. Cardinality(T) \in Nat
  BY <1>4, FS_CardinalityType
<1>6. T \subseteq ResultSet /\ \A t, u \in T : t.run.id = u.run.id => t = u
  BY EntryIsResult DEF Saved
<1> HIDE DEF T
<1>7. s \in Seq(ResultSet) /\ DOMAIN s = 1..Cardinality(T)
  BY <1>1, <1>5, <1>6
<1>8. UniqueIds(s)
  <2> SUFFICES ASSUME NEW i \in DOMAIN s, NEW j \in DOMAIN s, s[i].run.id = s[j].run.id
               PROVE  i = j
    BY DEF UniqueIds
  <2>1. s[i] \in T /\ s[j] \in T
    BY <1>1, <1>7
  <2>2. s[i] = s[j]
    BY <1>6, <2>1
  <2> QED
    BY <1>1, <1>7, <2>2
<1> QED
  BY <1>7, <1>8

LEMMA TruncateKeepsUnique ==
    ASSUME NEW s \in Seq(ResultSet), UniqueIds(s)
    PROVE  Truncate(s) \in Seq(ResultSet) /\ UniqueIds(Truncate(s))
<1> DEFINE n == IF Len(s) < Keep THEN Len(s) ELSE Keep
           t == Truncate(s)
<1>1. n \in Nat /\ n <= Len(s) /\ t = SubSeq(s, 1, n)
  BY BoundsAssumption DEF Truncate
<1> HIDE DEF n, t
<1>2. \A i \in 1..n : s[i] \in ResultSet
  BY <1>1
<1>3. t \in Seq(ResultSet) /\ Len(t) = n /\ \A i \in 1..n : t[i] = s[i]
  BY <1>1, <1>2, SubSeqProperties
<1>4. DOMAIN t = 1..n /\ 1..n \subseteq DOMAIN s
  BY <1>1, <1>3
<1>5. UniqueIds(t)
  BY <1>3, <1>4 DEF UniqueIds
<1> QED
  BY <1>3, <1>5 DEF t

\* The page an export turns to, and those after it.
LEMMA PagesLeft ==
    ASSUME NEW s \in Seq(ResultSet), UniqueIds(s), s # <<>>
    PROVE  /\ Tail(s) \in Seq(ResultSet) /\ UniqueIds(Tail(s))
           /\ Head(s).run.id \in Ids
           /\ ShownIds(s) = ShownIds(Tail(s)) \cup {Head(s).run.id}
           /\ Head(s).run.id \notin ShownIds(Tail(s))
<1>1. /\ Tail(s) \in Seq(ResultSet) /\ Head(s) \in ResultSet
      /\ Len(Tail(s)) = Len(s) - 1 /\ Len(s) \in Nat \ {0}
      /\ \A i \in 1..Len(s) - 1 : Tail(s)[i] = s[i + 1]
      /\ Head(s) = s[1]
  BY HeadTailProperties
<1>2. /\ DOMAIN s = 1..Len(s) /\ DOMAIN Tail(s) = 1..Len(s) - 1
  BY <1>1
<1>3. UniqueIds(Tail(s))
  <2> SUFFICES ASSUME NEW i \in 1..Len(s) - 1, NEW j \in 1..Len(s) - 1,
                      Tail(s)[i].run.id = Tail(s)[j].run.id
               PROVE  i = j
    BY <1>2 DEF UniqueIds
  <2>1. i + 1 \in DOMAIN s /\ j + 1 \in DOMAIN s /\ s[i + 1].run.id = s[j + 1].run.id
    BY <1>1, <1>2
  <2>2. i + 1 = j + 1
    BY <2>1 DEF UniqueIds
  <2> QED
    BY <1>1, <2>2
<1>4. ShownIds(s) = ShownIds(Tail(s)) \cup {Head(s).run.id}
  <2>1. ASSUME NEW i \in DOMAIN s
        PROVE  s[i].run.id \in ShownIds(Tail(s)) \cup {Head(s).run.id}
    <3>1. CASE i = 1
      BY <1>1, <3>1
    <3>2. CASE i # 1
      <4>1. i - 1 \in 1..Len(s) - 1 /\ (i - 1) + 1 = i
        BY <1>1, <1>2, <3>2
      <4> QED
        BY <1>1, <1>2, <4>1 DEF ShownIds
    <3> QED
      BY <3>1, <3>2
  <2>2. ASSUME NEW i \in DOMAIN Tail(s)
        PROVE  Tail(s)[i].run.id \in ShownIds(s)
    BY <1>1, <1>2 DEF ShownIds
  <2>3. 1 \in DOMAIN s
    BY <1>1, <1>2
  <2> QED
    BY <1>1, <2>1, <2>2, <2>3 DEF ShownIds
<1>5. Head(s).run.id \notin ShownIds(Tail(s))
  <2> SUFFICES ASSUME NEW i \in 1..Len(s) - 1, Tail(s)[i].run.id = Head(s).run.id
               PROVE  FALSE
    BY <1>2 DEF ShownIds
  <2>1. i + 1 \in DOMAIN s /\ 1 \in DOMAIN s /\ s[i + 1].run.id = s[1].run.id
    BY <1>1, <1>2
  <2>2. i + 1 = 1
    BY <2>1 DEF UniqueIds
  <2> QED
    BY <1>1, <2>2
<1>6. Head(s).run.id \in Ids
  BY <1>1 DEF ResultSet, RunSet
<1> QED
  BY <1>1, <1>3, <1>4, <1>5, <1>6

LEMMA RankingsKept ==
    ASSUME UNCHANGED result PROVE Rankings' = Rankings
  BY DEF Rankings, Entries

\* Whoever is no exporter may come and go.
LEMMA ElsewhereStep ==
    ASSUME PortalInv, UNCHANGED <<portal, archive, result>>,
           \A q \in Procs : \/ pc'[q] = pc[q] /\ half'[q] = half[q]
                            \/ ~Exporting(q) /\ pc'[q] \notin {"index", "json", "page"}
    PROVE  PortalInv'
<1>1. Rankings' = Rankings
  BY RankingsKept
<1>2. \A q \in Procs : Exporting(q)' <=> Exporting(q)
  BY DEF Exporting
<1>3. UNCHANGED <<snap, todo, index, json, page, clear, settled, archive>>
  BY DEF portal
<1>4. ASSUME NEW p \in clear PROVE Undisturbed(p)'
  <2>1. p \in Procs /\ Undisturbed(p)
    BY <1>4 DEF PortalInv
  <2>2. pc'[p] = pc[p] /\ half'[p] = half[p]
    BY <2>1 DEF Undisturbed
  <2>3. Exported(p)'
    BY <1>3, <2>1, <2>2 DEF Undisturbed, Exported
  <2> QED
    BY <1>1, <1>2, <1>3, <2>1, <2>3 DEF Undisturbed, Others
<1>5. PortalMatches'
  BY <1>1, <1>3 DEF PortalInv, PortalMatches
<1>6. settled' => \A q \in Procs : ~Exporting(q)'
  BY <1>2, <1>3 DEF PortalInv
<1> QED
  BY <1>3, <1>4, <1>5, <1>6 DEF PortalInv, Shaped

\* Whoever writes an archive or a result disturbs every export.
LEMMA DisturbStep ==
    ASSUME PortalInv, Disturb, UNCHANGED <<page, snap, todo>>
    PROVE  PortalInv'
  BY DEF PortalInv, Shaped, Disturb, PortalMatches

LEMMA LoadStep ==
    ASSUME ArchiveInv, PortalInv, NEW p \in Procs, Load(p)
    PROVE  PortalInv'
<1>1. PICK s \in Rankings :
        /\ snap' = [snap EXCEPT ![p] = Truncate(s)]
        /\ todo' = [todo EXCEPT ![p] = Truncate(s)]
  BY DEF Load
<1>2. /\ pc[p] = "load" /\ Go(p, "index") /\ settled' = FALSE
      /\ clear' = IF \E q \in Others(p) : Exporting(q) THEN {} ELSE {p}
      /\ UNCHANGED <<half, index, json, page, archive, result>>
  BY DEF Load
<1>3. pc'[p] = "index" /\ \A q \in Others(p) : pc'[q] = pc[q]
  BY <1>2 DEF Go, ArchiveInv, TypeInv, Others
<1>4. /\ Truncate(s) \in Seq(ResultSet) /\ UniqueIds(Truncate(s))
      /\ Rankings' = Rankings
  BY <1>1, <1>2, RankingIsUnique, TruncateKeepsUnique, RankingsKept DEF ArchiveInv
<1>5. ASSUME clear' = {p} PROVE Undisturbed(p)'
  <2>1. Exporting(p)' /\ \A q \in Others(p) : ~Exporting(q)'
    BY <1>2, <1>3, <1>5 DEF Exporting
  <2>2. snap'[p] = Truncate(s) /\ todo'[p] = Truncate(s)
    BY <1>1 DEF PortalInv, Shaped
  <2> QED
    BY <1>1, <1>3, <1>4, <2>1, <2>2 DEF Undisturbed, Exported, Others
<1>6. Shaped'
  BY <1>1, <1>2 DEF PortalInv, Shaped
<1> QED
  BY <1>2, <1>5, <1>6 DEF PortalInv, PortalMatches

\* An exporter's step, told by what it does to its own export.
LEMMA ExporterStep ==
    ASSUME ArchiveInv, PortalInv, NEW p \in Procs, Exporting(p),
           \A q \in Others(p) : pc'[q] = pc[q],
           UNCHANGED <<archive, result, settled>>, Shaped',
           clear' \subseteq clear,
           p \in clear' => Exporting(p)' /\ snap'[p] = snap[p]
                           /\ todo'[p] \in Seq(ResultSet) /\ UniqueIds(todo'[p])
                           /\ ShownIds(todo'[p]) \subseteq ShownIds(snap'[p])
                           /\ Exported(p)'
    PROVE  PortalInv'
<1>1. clear \subseteq {p} /\ ~settled /\ clear \subseteq Procs
  BY DEF PortalInv, Undisturbed, Others
<1>2. Rankings' = Rankings
  BY RankingsKept
<1>3. ASSUME p \in clear' PROVE Undisturbed(p)'
  <2>1. Undisturbed(p)
    BY <1>3 DEF PortalInv
  <2>2. \A q \in Others(p) : ~Exporting(q)'
    BY <2>1 DEF Undisturbed, Exporting
  <2> QED
    BY <1>2, <1>3, <2>1, <2>2 DEF Undisturbed, Others
<1> QED
  BY <1>1, <1>3 DEF PortalInv, PortalMatches

\* A step of Writing, as the process that takes it sees it.
LEMMA WritingStep ==
    ASSUME ArchiveInv, NEW p \in Procs, NEW next \in Places, NEW orElse \in Places,
           Writing(p, next, orElse)
    PROVE  /\ \A q \in Others(p) : pc'[q] = pc[q]
           /\ ~Failed => \/ pc'[p] = pc[p] /\ half'[p]
                         \/ pc'[p] = next /\ ~half'[p]
<1>1. pc \in [Procs -> Places] /\ half \in [Procs -> BOOLEAN] /\ fails \in Nat
  BY DEF ArchiveInv, TypeInv
<1>2. CASE ~half[p] /\ half' = [half EXCEPT ![p] = TRUE] /\ UNCHANGED <<pc, fails>>
  BY <1>1, <1>2
<1>3. CASE half' = [half EXCEPT ![p] = FALSE] /\ Go(p, next)
  BY <1>1, <1>3 DEF Go, Others
<1>4. CASE fails' = fails + 1 /\ Go(p, orElse)
  <2>1. Failed
    BY <1>1, <1>4 DEF Failed
  <2> QED
    BY <1>1, <1>4, <2>1 DEF Go, Others
<1> QED
  BY <1>2, <1>3, <1>4 DEF Writing

LEMMA IndexStep ==
    ASSUME ArchiveInv, PortalInv, NEW p \in Procs, WriteIndex(p)
    PROVE  PortalInv'
<1>1. /\ pc[p] = "index" /\ Writing(p, "json", "idle")
      /\ index' = Content(p, index, snap[p])
      /\ clear' = IF Failed THEN clear \ {p} ELSE clear
      /\ UNCHANGED <<snap, todo, json, page, settled, archive, result>>
  BY DEF WriteIndex
<1>2. /\ \A q \in Others(p) : pc'[q] = pc[q]
      /\ ~Failed => \/ pc'[p] = "index" /\ half'[p]
                    \/ pc'[p] = "json" /\ ~half'[p]
  BY <1>1, WritingStep DEF Places
<1>3. Exporting(p) /\ Shaped'
  BY <1>1 DEF Exporting, PortalInv, Shaped
<1>4. ASSUME p \in clear'
      PROVE  /\ Exporting(p)' /\ snap'[p] = snap[p]
             /\ todo'[p] \in Seq(ResultSet) /\ UniqueIds(todo'[p])
             /\ ShownIds(todo'[p]) \subseteq ShownIds(snap'[p])
             /\ Exported(p)'
  <2>1. ~Failed /\ Undisturbed(p)
    BY <1>1, <1>4 DEF PortalInv
  <2>2. todo'[p] = todo[p] /\ snap'[p] = snap[p] /\ todo[p] = snap[p]
    BY <1>1, <2>1 DEF Undisturbed, Exported
  <2>3. pc'[p] = "index" \/ (pc'[p] = "json" /\ index' = snap[p])
    BY <1>1, <1>2, <2>1 DEF Content
  <2> QED
    BY <2>1, <2>2, <2>3 DEF Undisturbed, Exported, Exporting
<1> QED
  BY <1>1, <1>2, <1>3, <1>4, ExporterStep

LEMMA JsonStep ==
    ASSUME ArchiveInv, PortalInv, NEW p \in Procs, WriteJson(p)
    PROVE  PortalInv'
<1>1. /\ pc[p] = "json" /\ Writing(p, "page", "idle")
      /\ json' = Content(p, json, snap[p])
      /\ clear' = IF Failed THEN clear \ {p} ELSE clear
      /\ UNCHANGED <<snap, todo, index, page, settled, archive, result>>
  BY DEF WriteJson
<1>2. /\ \A q \in Others(p) : pc'[q] = pc[q]
      /\ ~Failed => \/ pc'[p] = "json" /\ half'[p]
                    \/ pc'[p] = "page" /\ ~half'[p]
  BY <1>1, WritingStep DEF Places
<1>3. Exporting(p) /\ Shaped'
  BY <1>1 DEF Exporting, PortalInv, Shaped
<1>4. ASSUME p \in clear'
      PROVE  /\ Exporting(p)' /\ snap'[p] = snap[p]
             /\ todo'[p] \in Seq(ResultSet) /\ UniqueIds(todo'[p])
             /\ ShownIds(todo'[p]) \subseteq ShownIds(snap'[p])
             /\ Exported(p)'
  <2>1. ~Failed /\ Undisturbed(p)
    BY <1>1, <1>4 DEF PortalInv
  <2>2. todo'[p] = todo[p] /\ snap'[p] = snap[p] /\ todo[p] = snap[p] /\ index' = snap[p]
    BY <1>1, <2>1 DEF Undisturbed, Exported
  <2>3. pc'[p] = "json" \/ (pc'[p] = "page" /\ ~half'[p] /\ json' = snap[p])
    BY <1>1, <1>2, <2>1 DEF Content
  <2> QED
    BY <2>1, <2>2, <2>3 DEF Undisturbed, Exported, Exporting
<1> QED
  BY <1>1, <1>2, <1>3, <1>4, ExporterStep

LEMMA PageStep ==
    ASSUME ArchiveInv, PortalInv, NEW p \in Procs, ExportPage(p)
    PROVE  PortalInv'
<1> DEFINE id == Head(todo[p]).run.id
           Turn == todo' = [todo EXCEPT ![p] = Tail(@)] /\ half' = [half EXCEPT ![p] = FALSE]
           Opened   == /\ ~half[p] /\ half' = [half EXCEPT ![p] = TRUE]
                       /\ page' = [page EXCEPT ![id] = {Torn}]
                       /\ UNCHANGED <<todo, fails, clear>>
           Rendered == /\ half[p] /\ Turn
                       /\ page' = [page EXCEPT ![id] = (@ \ {Torn}) \cup {archive[id]}]
                       /\ UNCHANGED <<fails, clear>>
           Passed   == /\ Turn
                       /\ page' \in {page, [page EXCEPT ![id] = @ \cup {Torn}],
                                     [page EXCEPT ![id] = (@ \ {Torn}) \cup {archive[id]}]}
                       /\ \/ clear' = clear \ {p}
                          \/ clear' = clear /\ \E q \in Others(p) : Exporting(q)
<1>1. /\ pc[p] = "page" /\ todo[p] # <<>>
      /\ UNCHANGED <<pc, snap, index, json, settled, archive, result>>
      /\ Opened \/ Rendered \/ Passed
  <2>1. Cleared(id) \cup {Torn} = {Torn}
    BY DEF Cleared
  <2> QED
    BY <2>1 DEF ExportPage
<1>2. Exporting(p) /\ \A q \in Others(p) : pc'[q] = pc[q]
  BY <1>1 DEF Exporting
<1>3. Shaped'
  <2>1. page' = [i \in Ids |-> page'[i]]
    <3>1. page' = page \/ \E c : page' = [page EXCEPT ![id] = c]
      BY <1>1
    <3> QED
      BY <3>1 DEF PortalInv, Shaped
  <2>2. todo' = [q \in Procs |-> todo'[q]]
    <3>1. todo' = todo \/ todo' = [todo EXCEPT ![p] = Tail(todo[p])]
      BY <1>1
    <3> QED
      BY <3>1 DEF PortalInv, Shaped
  <2> QED
    BY <1>1, <2>1, <2>2 DEF PortalInv, Shaped
<1>4. clear' \subseteq clear
  BY <1>1
<1>5. ASSUME p \in clear'
      PROVE  /\ Exporting(p)' /\ snap'[p] = snap[p]
             /\ todo'[p] \in Seq(ResultSet) /\ UniqueIds(todo'[p])
             /\ ShownIds(todo'[p]) \subseteq ShownIds(snap'[p])
             /\ Exported(p)'
  <2>1. Undisturbed(p)
    BY <1>4, <1>5 DEF PortalInv
  <2>2. Opened \/ Rendered
    BY <1>1, <1>5, <2>1 DEF Undisturbed
  <2>3. /\ Tail(todo[p]) \in Seq(ResultSet) /\ UniqueIds(Tail(todo[p]))
        /\ id \in Ids
        /\ ShownIds(todo[p]) = ShownIds(Tail(todo[p])) \cup {id}
        /\ id \notin ShownIds(Tail(todo[p]))
    BY <1>1, <2>1, PagesLeft DEF Undisturbed
  <2>4. /\ index = snap[p] /\ json = snap[p]
        /\ \A i \in ShownIds(snap[p]) \ ShownIds(todo[p]) : page[i] = {archive[i]}
        /\ half[p] => page[id] = {Torn}
    BY <1>1, <2>1 DEF Undisturbed, Exported
  <2>5. \A i \in ShownIds(snap[p]) : i \in Ids
    <3>1. PICK s \in Rankings : snap[p] = Truncate(s)
      BY <2>1 DEF Undisturbed
    <3>2. snap[p] \in Seq(ResultSet)
      BY <3>1, RankingIsUnique, TruncateKeepsUnique DEF ArchiveInv
    <3>3. \A i \in DOMAIN snap[p] : snap[p][i] \in ResultSet
      BY <3>2
    <3>4. \A r \in ResultSet : r.run.id \in Ids
      BY DEF ResultSet, RunSet
    <3> QED
      BY <3>3, <3>4 DEF ShownIds
  <2> HIDE DEF id
  <2>6. half \in [Procs -> BOOLEAN]
    BY DEF ArchiveInv, TypeInv
  <2>7. CASE Opened
    <3>1. /\ half'[p] /\ todo' = todo /\ page'[id] = {Torn}
          /\ \A i \in Ids \ {id} : page'[i] = page[i]
      BY <2>3, <2>6, <2>7 DEF PortalInv, Shaped
    <3>2. \A i \in ShownIds(snap[p]) \ ShownIds(todo[p]) : page'[i] = {archive[i]}
      BY <2>3, <2>4, <2>5, <3>1
    <3> QED
      BY <1>1, <2>1, <2>4, <3>1, <3>2 DEF Undisturbed, Exported, Exporting, id
  <2>8. CASE Rendered
    <3>1. /\ ~half'[p] /\ todo'[p] = Tail(todo[p])
          /\ page'[id] = (page[id] \ {Torn}) \cup {archive[id]}
          /\ \A i \in Ids \ {id} : page'[i] = page[i]
      BY <2>3, <2>6, <2>8 DEF PortalInv, Shaped
    <3>2. page'[id] = {archive[id]}
      BY <2>4, <2>8, <3>1
    <3>3. \A i \in ShownIds(snap[p]) \ ShownIds(todo'[p]) : page'[i] = {archive[i]}
      BY <2>3, <2>4, <2>5, <3>1, <3>2
    <3>4. ShownIds(todo'[p]) \subseteq ShownIds(snap[p])
      BY <2>1, <2>3, <3>1 DEF Undisturbed
    <3> QED
      BY <1>1, <2>3, <2>4, <3>1, <3>3, <3>4 DEF Exported, Exporting
  <2> QED
    BY <2>2, <2>7, <2>8
<1> QED
  BY <1>1, <1>2, <1>3, <1>4, <1>5, ExporterStep

\* The last step of an undisturbed export settles the portal.
LEMMA PruneStep ==
    ASSUME ArchiveInv, PortalInv, NEW p \in Procs, Prune(p)
    PROVE  PortalInv'
<1>1. /\ pc[p] = "page" /\ todo[p] = <<>>
      /\ settled' = (p \in clear /\ ~Failed)
      /\ clear' = clear \ {p}
      /\ snap' = [snap EXCEPT ![p] = <<>>]
      /\ Go(p, "idle")
      /\ UNCHANGED <<todo, index, json, archive, result>>
  BY DEF Prune
<1>2. PICK stuck \in {{}} \cup {{id} : id \in Ids} :
        /\ IF stuck = {} THEN UNCHANGED fails ELSE fails < MaxFails /\ fails' = fails + 1
        /\ page' = [id \in Ids |-> IF id \in ShownIds(snap[p]) \cup stuck THEN page[id] ELSE {}]
  BY DEF Prune
<1>3. Shaped'
  BY <1>1, <1>2 DEF PortalInv, Shaped
<1>4. Exporting(p)
  BY <1>1 DEF Exporting
<1>5. clear' = {}
  BY <1>1, <1>4 DEF PortalInv, Undisturbed, Others
<1>6. ASSUME settled'
      PROVE  PortalMatches' /\ \A q \in Procs : ~Exporting(q)'
  <2>1. Undisturbed(p) /\ ~Failed
    BY <1>1, <1>6 DEF PortalInv
  <2>2. stuck = {}
    BY <1>2, <2>1 DEF Failed, ArchiveInv, TypeInv
  <2>3. /\ index = snap[p] /\ json = snap[p]
        /\ \A id \in ShownIds(snap[p]) : page[id] = {archive[id]}
    <3>1. ShownIds(<<>>) = {}
      BY DEF ShownIds
    <3> QED
      BY <1>1, <2>1, <3>1 DEF Undisturbed, Exported
  <2>4. \A id \in Ids : page'[id] = IF id \in ShownIds(index) THEN {archive[id]} ELSE {}
    BY <1>2, <2>2, <2>3
  <2>5. Rankings' = Rankings
    BY <1>1, RankingsKept
  <2>6. PortalMatches'
    BY <1>1, <2>1, <2>3, <2>4, <2>5 DEF PortalMatches, Undisturbed
  <2>7. \A q \in Procs : ~Exporting(q)'
    <3>1. pc' = [pc EXCEPT ![p] = "idle"] /\ pc \in [Procs -> Places]
      BY <1>1 DEF Go, ArchiveInv, TypeInv
    <3> QED
      BY <2>1, <3>1 DEF Undisturbed, Exporting, Others
  <2> QED
    BY <2>6, <2>7
<1> QED
  BY <1>3, <1>5, <1>6 DEF PortalInv, PortalMatches

LEMMA CrashStep ==
    ASSUME ArchiveInv, PortalInv, NEW p \in Procs, Crash(p)
    PROVE  PortalInv'
<1>1. /\ Go(p, "idle") /\ clear' = clear \ {p}
      /\ UNCHANGED <<snap, todo, index, json, page, settled, archive, result>>
      /\ half' = [half EXCEPT ![p] = FALSE]
  BY DEF Crash
<1>2. /\ pc'[p] = "idle" /\ \A q \in Others(p) : pc'[q] = pc[q] /\ half'[q] = half[q]
  BY <1>1 DEF Go, ArchiveInv, TypeInv, Others
<1>3. Rankings' = Rankings
  BY <1>1, RankingsKept
<1>4. \A q \in Procs : Exporting(q)' => Exporting(q)
  BY <1>2 DEF Exporting, Others
<1>5. ASSUME NEW q \in clear' PROVE Undisturbed(q)'
  <2>1. q \in Others(p) /\ Undisturbed(q)
    BY <1>1, <1>5 DEF PortalInv, Others
  <2>2. Exporting(q)' /\ \A o \in Others(q) : ~Exporting(o)'
    BY <1>2, <1>4, <2>1 DEF Undisturbed, Exporting, Others
  <2>3. Exported(q)'
    BY <1>1, <1>2, <2>1 DEF Undisturbed, Exported
  <2> QED
    BY <1>1, <1>3, <2>1, <2>2, <2>3 DEF Undisturbed
<1>6. PortalMatches'
  BY <1>1, <1>3 DEF PortalInv, PortalMatches
<1> QED
  BY <1>1, <1>4, <1>5, <1>6 DEF PortalInv, Shaped

LEMMA PortalInvInit == Init => PortalInv
<1> SUFFICES ASSUME Init PROVE PortalInv
  OBVIOUS
<1>1. /\ clear = {} /\ index = <<>> /\ json = <<>>
      /\ page = [id \in Ids |-> {}]
      /\ snap = [p \in Procs |-> <<>>] /\ todo = [p \in Procs |-> <<>>]
      /\ pc = [p \in Procs |-> "idle"]
  BY DEF Init
<1>2. Shaped /\ \A q \in Procs : ~Exporting(q)
  BY <1>1 DEF Shaped, Exporting
<1>3. <<>> \in Rankings
  <2>1. {result[id] : id \in Entries} = {}
    BY DEF Init, Entries, Whole
  <2>2. Cardinality({}) = 0
    BY FS_EmptySet
  <2>3. <<>> \in SetToSeqs({})
    BY <2>2 DEF SetToSeqs
  <2> QED
    BY <2>1, <2>3 DEF Rankings
<1>4. Truncate(<<>>) = <<>>
  BY BoundsAssumption, SubSeqEmpty DEF Truncate
<1>5. ShownIds(<<>>) = {}
  BY DEF ShownIds
<1>6. PortalMatches
  BY <1>1, <1>3, <1>4, <1>5 DEF PortalMatches
<1> QED
  BY <1>1, <1>2, <1>6 DEF PortalInv

\* What an undisturbed export leaves is the ranking of the results on disk and a
\* page for each of them, and no other, made from its archive: whatever the
\* export before it had left, and until a file changes again.
THEOREM PortalTheorem == Spec => []PortalMatches
<1>1. ArchiveInv /\ PortalInv /\ [Next]_vars => PortalInv'
  <2> SUFFICES ASSUME ArchiveInv, PortalInv, [Next]_vars PROVE PortalInv'
    OBVIOUS
  <2>1. CASE UNCHANGED vars
    BY <2>1, ElsewhereStep DEF vars, local
  <2>2. CASE Command
    <3>1. Go(Cli, "load") /\ pc[Cli] = "idle" /\ UNCHANGED <<half, portal, archive, result>>
      BY <2>2 DEF Command
    <3>2. \A q \in Procs : pc'[q] = pc[q] \/ (~Exporting(q) /\ pc'[q] = "load")
      BY <3>1 DEF Go, Exporting, ArchiveInv, TypeInv
    <3> QED
      BY <3>1, <3>2, ElsewhereStep
  <2>3. ASSUME NEW p \in Procs, Start(p) \/ Finish(p) PROVE PortalInv'
    <3>1. /\ pc[p] \in {"idle", "agent"} /\ UNCHANGED <<half, portal, archive, result>>
          /\ \E to \in {"agent", "manifest", "idle"} : Go(p, to)
      BY <2>3 DEF Start, Finish, After
    <3>2. \A q \in Procs : \/ pc'[q] = pc[q]
                           \/ ~Exporting(q) /\ pc'[q] \in {"agent", "manifest", "idle"}
      BY <3>1 DEF Go, Exporting, ArchiveInv, TypeInv
    <3> QED
      BY <3>1, <3>2, ElsewhereStep
  <2>4. ASSUME NEW p \in Procs,
               WriteManifest(p) \/ WriteConsole(p) \/ CopyWorkspace(p) \/ WriteResult(p)
        PROVE  PortalInv'
    <3>1. Disturb /\ UNCHANGED <<page, snap, todo>>
      BY <2>4 DEF WriteManifest, WriteConsole, CopyWorkspace, WriteResult, Archiving
    <3> QED
      BY <3>1, DisturbStep
  <2> QED
    BY <2>1, <2>2, <2>3, <2>4, LoadStep, IndexStep, JsonStep, PageStep, PruneStep, CrashStep
       DEF Next
<1>2. PortalInv => PortalMatches
  BY DEF PortalInv
<1> QED
  BY <1>1, <1>2, ArchiveInvInit, ArchiveInvStep, PortalInvInit, PTL DEF Spec
=============================================================================
