------------------------------ MODULE Results ------------------------------
(***************************************************************************)
(* What a finished run leaves behind: the last part of                     *)
(* BenchmarkPipeline::execute (src/pipeline.rs), the archive               *)
(* (src/report/archive.rs), the result file and its readers                *)
(* (src/report/leaderboard.rs) and the exported portal                     *)
(* (src/report/portal.rs).  Processes (the web server, the command line)   *)
(* work on the same directories without a lock; a write can fail, and a    *)
(* process can be killed anywhere.                                         *)
(***************************************************************************)
EXTENDS Naturals, Sequences, FiniteSets, SequencesExt, Functions, TLC

CONSTANTS
    Procs,       \* processes that execute runs
    MaxClock,    \* bound: seconds in which runs are started
    MaxRuns,     \* bound: runs started
    Cli,         \* the process that also has the command to export
    Keep,        \* results an export shows (200 in the code)
    None,        \* no file, no run
    Torn,        \* content of a file that was opened and not written to the end
    MaxFails,    \* bound: file operations that fail
    MaxCrashes   \* bound: processes killed

ASSUME BoundsAssumption ==
    /\ Cli \in Procs /\ MaxClock \in Nat \ {0} /\ MaxRuns \in Nat /\ Keep \in Nat \ {0}
    /\ MaxFails \in Nat /\ MaxCrashes \in Nat

\* a run's id is the second it started in; runs that share one differ in process
Ids == 1..MaxClock

\* no run is "no run"
ASSUME NoneAssumption == None \notin [proc : Procs, id : 1..MaxClock]

VARIABLES
    clock, started,      \* the last second in which a run was started, runs so far
    pc, half,            \* per process: next operation, its file is open
    run,                 \* per process: its latest run
    snap, todo,          \* per process: the results its export loaded, pages still to write
    archive,             \* runs/<id>: manifest.json, console.log, workspace
    result,              \* results/<id>.json
    index, json, page    \* portal/index.html, results.json and runs/<id>, of which
                         \* all versions whose files are in the directory

VARIABLES   \* history
    fails, crashes,
    unsound,     \* runs whose archive is known not to be complete
    clear,       \* processes whose export nothing has disturbed so far
    settled      \* nothing has changed since such an export ended

counts  == <<clock, started>>
local   == <<pc, half, run>>
portal  == <<snap, todo, index, json, page, clear, settled>>
faults  == <<fails, crashes, unsound>>
vars    == <<counts, local, portal, archive, result, faults>>

----------------------------------------------------------------------------
(* What readers make of the files: whatever does not parse is skipped.     *)

Whole(c) == c \notin {Torn, None}

Entries == {id \in Ids : Whole(result[id])}

\* load_all: passes before failures; equals in the order of the directory
Rankings == {s \in SetToSeqs({result[id] : id \in Entries}) :
                \A i, j \in DOMAIN s : i < j => ~(s[j].passed /\ ~s[i].passed)}

Truncate(s) == SubSeq(s, 1, IF Len(s) < Keep THEN Len(s) ELSE Keep)

ShownIds(s) == {s[i].run.id : i \in DOMAIN s}

Exporting(p) == pc[p] \in {"index", "json", "page"}

Others(p) == Procs \ {p}

----------------------------------------------------------------------------
Init ==
    /\ clock = 1 /\ started = 0
    /\ pc = [p \in Procs |-> "idle"] /\ half = [p \in Procs |-> FALSE]
    /\ run = [p \in Procs |-> None]
    /\ snap = [p \in Procs |-> <<>>] /\ todo = [p \in Procs |-> <<>>]
    /\ archive = [id \in Ids |-> [manifest |-> None, console |-> None, files |-> {}]]
    /\ result = [id \in Ids |-> None]
    /\ index = <<>> /\ json = <<>> /\ page = [id \in Ids |-> {}]
    /\ fails = 0 /\ crashes = 0 /\ unsound = {}
    /\ clear = {} /\ settled = TRUE

Go(p, next) == pc' = [pc EXCEPT ![p] = next]

----------------------------------------------------------------------------
(* A run, up to what it records.                                           *)

\* the id is the second, of which a run takes more than one
Start(p) ==
    /\ pc[p] = "idle" /\ started < MaxRuns
    /\ \E now \in {clock, clock + 1} \cap Ids :
        /\ run[p] # None => run[p].id # now
        /\ clock' = now
        /\ run' = [run EXCEPT ![p] = [proc |-> p, id |-> now]]
        /\ LET same == {q \in Others(p) : run[q] # None /\ run[q].id = now}
           IN  unsound' = IF same = {} THEN unsound
                          ELSE unsound \cup {run'[p]} \cup {run[q] : q \in same}
    /\ started' = started + 1
    /\ Go(p, "agent")
    /\ UNCHANGED <<half, portal, archive, result, fails, crashes>>

\* Mutant: the result is saved before the archive.
ResultFirst ==
    [agent |-> "result", result |-> "manifest", manifest |-> "console", console |-> "files", files |-> "load"]

\* the order of what is written; an error of the archive skips what is left of it
After ==
    [agent |-> "manifest", manifest |-> "console", console |-> "files", files |-> "result", result |-> "load"]

\* a stop, an error on the way or save_results leave nothing behind
Finish(p) ==
    /\ pc[p] = "agent"
    /\ Go(p, After.agent) \/ Go(p, "idle")
    /\ UNCHANGED <<counts, half, run, portal, archive, result, faults>>

----------------------------------------------------------------------------
(* fs::write: a file is opened, which empties it, then written; or it fails *)
(* at either point.                                                        *)

Failed == fails' # fails

Writing(p, next, orElse) ==
    \/ /\ ~half[p]
       /\ half' = [half EXCEPT ![p] = TRUE]
       /\ UNCHANGED <<pc, fails>>
    \/ /\ half[p]
       /\ half' = [half EXCEPT ![p] = FALSE]
       /\ Go(p, next)
       /\ UNCHANGED fails
    \/ /\ fails < MaxFails
       /\ fails' = fails + 1
       /\ half' = [half EXCEPT ![p] = FALSE]
       /\ Go(p, orElse)

Content(p, old, new) == IF half'[p] THEN Torn ELSE IF Failed THEN old ELSE new

----------------------------------------------------------------------------
(* archive_run: an error ends it, and the pipeline goes on to the result.  *)

Disturb == clear' = {} /\ settled' = FALSE

Archiving(p) ==
    /\ unsound' = IF Failed THEN unsound \cup {run[p]} ELSE unsound
    /\ Disturb
    /\ UNCHANGED <<counts, run, snap, todo, index, json, page, result, crashes>>

WriteManifest(p) ==
    /\ pc[p] = "manifest" /\ Writing(p, After.manifest, After.files)
    /\ archive' = [archive EXCEPT ![run[p].id].manifest = Content(p, @, run[p])]
    /\ Archiving(p)

WriteConsole(p) ==
    /\ pc[p] = "console" /\ Writing(p, After.console, After.files)
    /\ archive' = [archive EXCEPT ![run[p].id].console = Content(p, @, run[p])]
    /\ Archiving(p)

\* the files are added to those that are there; one that fails is left out
CopyWorkspace(p) ==
    /\ pc[p] = "files" /\ Writing(p, After.files, After.files)
    /\ archive' = [archive EXCEPT ![run[p].id].files =
                      IF half'[p] THEN @ \cup {Torn}
                      ELSE IF Failed THEN @
                      ELSE (@ \ {Torn}) \cup {run[p]}]
    /\ Archiving(p)

\* save_result; an export follows even if it fails
WriteResult(p) ==
    /\ pc[p] = "result" /\ Writing(p, After.result, After.result)
    /\ \E passed \in BOOLEAN :
        result' = [result EXCEPT ![run[p].id] =
                      Content(p, @, [run |-> run[p], passed |-> passed])]
    /\ Disturb
    /\ UNCHANGED <<counts, run, snap, todo, index, json, page, archive, crashes, unsound>>

----------------------------------------------------------------------------
(* PortalExporter::export                                                  *)

\* the command line's own export; one that would find nothing new is left out
Command ==
    /\ pc[Cli] = "idle" /\ ~settled
    /\ Go(Cli, "load")
    /\ UNCHANGED <<counts, half, run, portal, archive, result, faults>>

Load(p) ==
    /\ pc[p] = "load"
    /\ \E ranking \in Rankings :
        /\ snap' = [snap EXCEPT ![p] = Truncate(ranking)]
        /\ todo' = [todo EXCEPT ![p] = Truncate(ranking)]
    /\ Go(p, "index")
    /\ clear' = IF \E q \in Others(p) : Exporting(q) THEN {} ELSE {p}
    /\ settled' = FALSE
    /\ UNCHANGED <<counts, half, run, index, json, page, archive, result, faults>>

\* an error of the index or of results.json ends the export
WriteIndex(p) ==
    /\ pc[p] = "index" /\ Writing(p, "json", "idle")
    /\ index' = Content(p, index, snap[p])
    /\ clear' = IF Failed THEN clear \ {p} ELSE clear
    /\ UNCHANGED <<counts, run, snap, todo, json, page, settled,
                   archive, result, crashes, unsound>>

WriteJson(p) ==
    /\ pc[p] = "json" /\ Writing(p, "page", "idle")
    /\ json' = Content(p, json, snap[p])
    /\ clear' = IF Failed THEN clear \ {p} ELSE clear
    /\ UNCHANGED <<counts, run, snap, todo, index, page, settled,
                   archive, result, crashes, unsound>>

\* Mutant: the directory of a page is not removed before it is written.
WrittenOver(id) == page[id]

\* remove_dir_all, before the page is written
Cleared(id) == {}

\* a page: opened, then rendered from the archive; its errors are passed over,
\* among them those of a directory that another export has removed meanwhile
ExportPage(p) ==
    /\ pc[p] = "page" /\ todo[p] # <<>>
    /\ LET id   == Head(todo[p]).run.id
           Turn == todo' = [todo EXCEPT ![p] = Tail(@)] /\ half' = [half EXCEPT ![p] = FALSE]
       IN  \/ /\ ~half[p]
              /\ half' = [half EXCEPT ![p] = TRUE]
              /\ page' = [page EXCEPT ![id] = Cleared(id) \cup {Torn}]
              /\ UNCHANGED <<todo, fails, clear>>
           \/ /\ half[p]
              /\ page' = [page EXCEPT ![id] = (@ \ {Torn}) \cup {archive[id]}]
              /\ Turn
              /\ UNCHANGED <<fails, clear>>
           \/ /\ fails < MaxFails
              /\ fails' = fails + 1 /\ clear' = clear \ {p}
              /\ page' \in {page, [page EXCEPT ![id] = @ \cup {Torn}],
                            [page EXCEPT ![id] = (@ \ {Torn}) \cup {archive[id]}]}
              /\ Turn
           \/ /\ half[p] /\ \E q \in Others(p) : Exporting(q)
              /\ page' \in {page, [page EXCEPT ![id] = @ \cup {Torn}]}
              /\ Turn
              /\ UNCHANGED <<fails, clear>>
    /\ UNCHANGED <<counts, pc, run, snap, index, json, settled,
                   archive, result, crashes, unsound>>

\* pages without a result in this export are removed, but for one that fails
Prune(p) ==
    /\ pc[p] = "page" /\ todo[p] = <<>>
    /\ \E stuck \in {{}} \cup {{id} : id \in Ids} :
        /\ IF stuck = {} THEN UNCHANGED fails ELSE fails < MaxFails /\ fails' = fails + 1
        /\ page' = [id \in Ids |-> IF id \in ShownIds(snap[p]) \cup stuck THEN page[id] ELSE {}]
    /\ settled' = (p \in clear /\ ~Failed)
    /\ clear' = clear \ {p}
    /\ snap' = [snap EXCEPT ![p] = <<>>]
    /\ Go(p, "idle")
    /\ UNCHANGED <<counts, half, run, todo, index, json,
                   archive, result, crashes, unsound>>

\* a process is killed, and started again
Crash(p) ==
    /\ crashes < MaxCrashes /\ pc[p] # "idle"
    /\ crashes' = crashes + 1
    /\ Go(p, "idle")
    /\ half' = [half EXCEPT ![p] = FALSE]
    /\ clear' = clear \ {p}
    /\ UNCHANGED <<counts, run, snap, todo, index, json, page, settled,
                   archive, result, fails, unsound>>

----------------------------------------------------------------------------
Next ==
    \/ Command
    \/ \E p \in Procs :
        \/ Start(p) \/ Finish(p)
        \/ WriteManifest(p) \/ WriteConsole(p) \/ CopyWorkspace(p) \/ WriteResult(p)
        \/ Load(p) \/ WriteIndex(p) \/ WriteJson(p) \/ ExportPage(p) \/ Prune(p)
        \/ Crash(p)

Spec == Init /\ [][Next]_vars

----------------------------------------------------------------------------
(* Whenever the leaderboard shows a result, the archive of that run is     *)
(* there, complete and of no other run, whatever process was killed and    *)
(* whatever other process was writing; only a run whose archive failed, or *)
(* whose id another process used in the same second, may lack it.          *)
ResultHasArchive ==
    \A id \in Entries :
        LET r == result[id].run
        IN  r \in unsound \/ archive[id] = [manifest |-> r, console |-> r, files |-> {r}]

(* An export that nothing disturbed makes the portal what it should be,    *)
(* whatever torn, left-over or mixed files it found there: the best        *)
(* results on disk, and for each of them, and no other, its page.          *)
PortalMatches ==
    settled =>
        /\ index \in {Truncate(s) : s \in Rankings} /\ json = index
        /\ \A id \in Ids : page[id] = IF id \in ShownIds(index) THEN {archive[id]} ELSE {}
=============================================================================
