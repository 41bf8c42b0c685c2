--------------------------- MODULE DisclosureStore ---------------------------
(***************************************************************************)
(* The Disclosure catalogue of the history store (db.py), the files it     *)
(* links to, and the request that makes a reproduction's draft the active  *)
(* package (web/server.py).                                                *)
(*                                                                         *)
(* Two things are kept in step without a common transaction: rows of a     *)
(* SQLite database and directories of the results tree.  A purge renames   *)
(* the directories away, commits, then erases them; a synchronisation      *)
(* scans the tree first and writes the rows later; an application swaps    *)
(* directories and then marks the row.  Any of them may be cut short.      *)
(*                                                                         *)
(* A "report" is the Stage 5 directory of a reproduced vulnerability (a    *)
(* failed one has another name, and no row links to it), a "package" its   *)
(* Stage 6 one, each with its trajectories.  The time a row spends in the  *)
(* trash is not counted: the timer, the purge of selected rows and the     *)
(* purge of all differ in which trashed rows they take.  Review statuses,  *)
(* CVE links, counts and the texts of a row are left out.                  *)
(***************************************************************************)
CONSTANTS Runs,          \* audits registered in the database
          Dirs,          \* vulnerability directories of the results tree
          Keys,          \* identities of Disclosures: project and dedupe key
          Jobs,          \* reproduction jobs
          Requests,      \* requests to apply a draft
          None

VARIABLES registered,    \* of each run, its directory and the identity found there
          reports,       \* the directories with a Stage 5 report
          packages,      \* of each directory, the package that is active
          revisions,     \* of each directory, the packages put away
          scan,          \* what the synchronisation under way saw, or None
          bugs,          \* table disclosed_bugs
          purge,         \* the purge that holds the write lock, or None
          repro,         \* the successful rows of table reproduction_runs
          request,       \* the requests to apply a draft under way
          written,       \* ghost: directories given a package, and not purged
          lost,          \* ghost: places a crash or a failing undo left empty
          overlap        \* ghost: directories on which two requests ran at once

store == <<bugs, repro>>
tree  == <<reports, packages, revisions>>
ghost == <<written, lost, overlap>>
vars  == <<registered, tree, store, scan, purge, request, ghost>>

(* A package is the audit's own, the draft of a job, or what a removal     *)
(* that failed on the way left of one.                                     *)
Original == "original"
Remains  == "remains"
Contents == {Original, Remains} \cup Jobs
Places   == {"report", "package"} \X Dirs

DirOf(r) == registered[r].dir
KeyOf(r) == registered[r].key

Active(k) == bugs[k] # None /\ ~bugs[k].trashed

(* The write lock of the database: a purge holds it from its first read to *)
(* its commit, every other writer for one step.                            *)
Unlocked == purge = None

Present(place) == IF place[1] = "report" THEN place[2] \in reports
                                         ELSE packages[place[2]] \notin {None, Remains}

(* The places the purge under way has emptied.                             *)
Held ==
  IF purge = None THEN {}
  ELSE {place \in purge.places : IF place[1] = "report"
                                 THEN place[2] \in purge.reports
                                 ELSE purge.packages[place[2]] # None}

Rows     == [trashed : BOOLEAN, links : SUBSET Places]
Purges   == [expired : SUBSET Keys, places : SUBSET Places,
             reports : SUBSET Dirs, packages : [Dirs -> Contents \cup {None}]]
Records  == [key : Keys, applied : BOOLEAN]
Swaps    == [job : Jobs, dir : Dirs, old : Contents \cup {None},
             step : {"checked", "moved", "installed"}]

(* None is no content, row, purge, record or request, and no job's draft   *)
(* passes for remains.                                                     *)
NoneIsNew ==
  /\ Remains \notin Jobs
  /\ None \notin Contents /\ None \notin Rows /\ None \notin Purges
  /\ None \notin Records /\ None \notin Swaps

TypeOK ==
  /\ registered \in [Runs -> [dir : Dirs, key : Keys]]
  /\ reports \subseteq Dirs
  /\ packages \in [Dirs -> Contents \cup {None}]
  /\ revisions \in [Dirs -> SUBSET Contents]
  /\ scan \in [run : Runs, complete : BOOLEAN] \cup {None}
  /\ bugs \in [Keys -> Rows \cup {None}]
  /\ purge \in Purges \cup {None}
  /\ repro \in [Jobs -> Records \cup {None}]
  /\ request \in [Requests -> Swaps \cup {None}]
  /\ written \subseteq Dirs /\ lost \subseteq Places /\ overlap \subseteq Dirs

(* A database as the imports of existing output directories leave it.      *)
Init ==
  /\ registered \in [Runs -> [dir : Dirs, key : Keys]]
  /\ reports = {}
  /\ packages = [d \in Dirs |-> None]
  /\ revisions = [d \in Dirs |-> {}]
  /\ scan = None
  /\ bugs = [k \in Keys |-> None]
  /\ purge = None
  /\ repro = [j \in Jobs |-> None]
  /\ request = [q \in Requests |-> None]
  /\ written = {} /\ lost = {} /\ overlap = {}

-----------------------------------------------------------------------------
(* Synchronisation of a run's output directory.                            *)

(* Stages 5 and 6 of an audit, or a backfill, leave their results.         *)
StagesWrite(d) ==
  \E packed \in BOOLEAN :
    /\ packed => ~Present(<<"package", d>>)
    /\ reports' = reports \cup {d}
    /\ packages' = [packages EXCEPT ![d] = IF packed THEN Original ELSE @]
    /\ written' = IF packed THEN written \cup {d} ELSE written
    /\ lost' = lost \ ({<<"report", d>>} \cup IF packed THEN {<<"package", d>>} ELSE {})
    /\ UNCHANGED <<registered, revisions, store, scan, purge, request, overlap>>

(* persist_artifacts scans the tree before it opens its transaction.       *)
(* Bound: one synchronisation at a time is between the two.                *)
Scan(r) ==
  /\ scan = None
  /\ scan' = [run |-> r, complete |-> Present(<<"report", DirOf(r)>>) /\
                                     Present(<<"package", DirOf(r)>>)]
  /\ UNCHANGED <<registered, tree, store, purge, request, ghost>>

(* A reproduced result whose package is on disk becomes a row, or gives    *)
(* its links to the row there is: a trashed row stays trashed.             *)
Synced(r) ==
  LET links == {place \in {"report", "package"} \X {DirOf(r)} : Present(place)}
  IN  IF ~Present(<<"package", DirOf(r)>>)
      THEN bugs
      ELSE [bugs EXCEPT ![KeyOf(r)] =
              IF @ = None THEN [trashed |-> FALSE, links |-> links]
                          ELSE [@ EXCEPT !.links = links]]

(* The transaction of persist_artifacts, with the scan made before it.      *)
Persist(r) ==
  /\ Unlocked
  /\ scan # None /\ scan.run = r
  /\ bugs' = IF scan.complete THEN Synced(r) ELSE bugs
  /\ scan' = None
  /\ UNCHANGED <<registered, tree, repro, purge, request, ghost>>

-----------------------------------------------------------------------------
(* Trash and purge.                                                        *)

OnlyRow(k, row) ==
  /\ Unlocked
  /\ bugs' = [bugs EXCEPT ![k] = row]
  /\ UNCHANGED <<registered, tree, repro, scan, purge, request, ghost>>

Trash(k) == Active(k) /\ OnlyRow(k, [bugs[k] EXCEPT !.trashed = TRUE])

Restore(k) ==
  bugs[k] # None /\ bugs[k].trashed /\ OnlyRow(k, [bugs[k] EXCEPT !.trashed = FALSE])

LinksOf(keys) == UNION {bugs[k].links : k \in {x \in keys : bugs[x] # None}}

(* Faulty: a row in the trash, which may yet be restored, protects nothing. *)
DeletableIfInactive(expired) == LinksOf(expired) \ LinksOf({k \in Keys \ expired : Active(k)})

(* The places only the purged rows link to.                                *)
Deletable(expired) == LinksOf(expired) \ LinksOf(Keys \ expired)

(* With the write lock held, the directories are renamed out of the way.   *)
BeginPurge(expired) ==
  /\ Unlocked
  /\ expired # {}
  /\ \A k \in expired : bugs[k] # None /\ bugs[k].trashed
  /\ LET gone == Deletable(expired)
         Taken(kind, d) == <<kind, d>> \in gone
     IN /\ purge' = [expired  |-> expired,
                     places   |-> gone,
                     reports  |-> {d \in reports : Taken("report", d)},
                     packages |-> [d \in Dirs |-> IF Taken("package", d)
                                                  THEN packages[d] ELSE None]]
        /\ reports'  = {d \in reports : ~Taken("report", d)}
        /\ packages' = [d \in Dirs |-> IF Taken("package", d) THEN None ELSE packages[d]]
  /\ UNCHANGED <<registered, revisions, store, scan, request, ghost>>

(* A rename or the database failed: what was renamed is renamed back,      *)
(* unless something new has taken its place or that rename fails too, which *)
(* is only logged.                                                         *)
AbortPurge ==
  /\ purge # None
  /\ \E stuck \in SUBSET Held :
       /\ reports' = reports \cup {d \in purge.reports : <<"report", d>> \notin stuck}
       /\ packages' = [d \in Dirs |-> IF packages[d] = None /\ <<"package", d>> \notin stuck
                                      THEN purge.packages[d] ELSE packages[d]]
  /\ lost' = lost \cup {place \in Held : ~Present(place)'}
  /\ purge' = None
  /\ UNCHANGED <<registered, revisions, store, scan, request, written, overlap>>

(* The rows go (and those of the runs' own tables, which nothing here      *)
(* reads); then the renamed directories are erased.                        *)
CommitPurge ==
  /\ purge # None
  /\ bugs' = [k \in Keys |-> IF k \in purge.expired THEN None ELSE bugs[k]]
  /\ written' = {d \in written : <<"package", d>> \notin purge.places}
  /\ purge' = None
  /\ UNCHANGED <<registered, tree, repro, scan, request, lost, overlap>>

-----------------------------------------------------------------------------
(* Reproductions and their drafts.                                         *)

(* A reproduction of an active Disclosure (JobManager runs it) ends with   *)
(* outcome "reproduced" and leaves a draft.                                *)
FinishReproduction(j, k) ==
  /\ Unlocked
  /\ repro[j] = None
  /\ bugs[k] # None
  /\ \E r \in Runs : KeyOf(r) = k
  /\ repro' = [repro EXCEPT ![j] = [key |-> k, applied |-> FALSE]]
  /\ UNCHANGED <<registered, tree, bugs, scan, purge, request, ghost>>

Busy(d) == {q \in Requests : request[q] # None /\ request[q].dir = d}

Eligible(j) == repro[j] # None /\ ~repro[j].applied

(* apply_reproduction_draft checks the record, the draft and the active    *)
(* directory, and stages a copy of the draft beside it.                    *)
BeginApply(q, j) ==
  /\ request[q] = None
  /\ Eligible(j)
  /\ Active(repro[j].key)
  /\ \E d \in Dirs :
       /\ <<"package", d>> \in bugs[repro[j].key].links
       /\ Present(<<"package", d>>)
       /\ request' = [request EXCEPT ![q] = [job |-> j, dir |-> d, step |-> "checked",
                                             old |-> None]]
       /\ overlap' = IF Busy(d) # {} THEN overlap \cup {d} ELSE overlap
  /\ UNCHANGED <<registered, tree, store, scan, purge, written, lost>>

(* The active package becomes a revision.                                  *)
MoveOld(q) ==
  /\ request[q] # None /\ request[q].step = "checked"
  /\ LET d == request[q].dir
     IN /\ packages[d] # None
        /\ packages' = [packages EXCEPT ![d] = None]
        /\ request' = [request EXCEPT ![q].step = "moved", ![q].old = packages[d]]
  /\ UNCHANGED <<registered, reports, revisions, store, scan, purge, ghost>>

(* The staged draft becomes active.                                        *)
Install(q) ==
  /\ request[q] # None /\ request[q].step = "moved"
  /\ packages[request[q].dir] = None
  /\ packages' = [packages EXCEPT ![request[q].dir] = request[q].job]
  /\ request' = [request EXCEPT ![q].step = "installed"]
  /\ UNCHANGED <<registered, reports, revisions, store, scan, purge, ghost>>

(* Faulty: the failed request removes what it installed, and that is all.  *)
RollBackHalf(q) ==
  /\ request' = [request EXCEPT ![q] = None]
  /\ packages' = [packages EXCEPT ![request[q].dir] = None]
  /\ UNCHANGED <<revisions, lost>>

(* What a failed request undoes: it removes the active package when it     *)
(* installed one, whoever's it now is, and renames the old one back.  That *)
(* rename fails when there is a package again.  Either may fail otherwise: *)
(* the removal at once or on the way, and then nothing is renamed back.    *)
RollBack(q) ==
  LET d         == request[q].dir
      old       == request[q].old
      installed == request[q].step = "installed"
      Leaves(active, revised) ==
        /\ packages' = [packages EXCEPT ![d] = active]
        /\ revisions' = [revisions EXCEPT ![d] = IF revised THEN @ \cup {old} ELSE @]
        /\ lost' = IF active \in {None, Remains} THEN lost \cup {<<"package", d>>} ELSE lost
  IN  /\ request' = [request EXCEPT ![q] = None]
      /\ \/ /\ installed \/ packages[d] = None
            /\ Leaves(old, FALSE) \/ Leaves(None, TRUE)
         \/ packages[d] # None /\ Leaves(packages[d], TRUE)
         \/ installed /\ packages[d] # None /\ Leaves(Remains, TRUE)

(* The copy, a rename or the database fails, the active package has gone,  *)
(* or the record is no longer eligible.                                    *)
FailApply(q) ==
  /\ request[q] # None
  /\ \/ /\ request[q].step = "checked"
        /\ request' = [request EXCEPT ![q] = None]
        /\ UNCHANGED <<packages, revisions, lost>>
     \/ request[q].step # "checked" /\ RollBack(q)
  /\ UNCHANGED <<registered, reports, store, scan, purge, written, overlap>>

(* mark_reproduction_applied, in a transaction of its own.                 *)
MarkApplied(q) ==
  /\ Unlocked
  /\ request[q] # None /\ request[q].step = "installed"
  /\ LET j == request[q].job
         d == request[q].dir
         k == repro[j].key
     IN /\ Eligible(j) /\ Active(k)
        /\ repro' = [repro EXCEPT ![j].applied = TRUE]
        /\ bugs' = [bugs EXCEPT ![k].links =
                      {place \in @ : place[1] # "package"} \cup
                      {place \in {<<"package", d>>} : Present(place)}]
        /\ revisions' = [revisions EXCEPT ![d] = @ \cup {request[q].old}]
        /\ request' = [request EXCEPT ![q] = None]
  /\ UNCHANGED <<registered, reports, packages, scan, purge, ghost>>

(* The process dies and is started again: SQLite rolls back the purge,     *)
(* nobody renames back what it had renamed, nor what a request had moved.  *)
Crash ==
  LET Moved(d) == {request[q].old : q \in {x \in Busy(d) : request[x].old # None}}
  IN  /\ \/ purge # None
         \/ \E q \in Requests : request[q] # None
      /\ revisions' = [d \in Dirs |-> revisions[d] \cup Moved(d)]
      /\ lost' = lost \cup Held
                      \cup {<<"package", d>> : d \in {x \in Dirs : Moved(x) # {}}}
      /\ purge' = None
      /\ scan' = None
      /\ request' = [q \in Requests |-> None]
      /\ UNCHANGED <<registered, reports, packages, store, written, overlap>>

Next ==
  \/ \E d \in Dirs : StagesWrite(d)
  \/ \E r \in Runs : Scan(r) \/ Persist(r)
  \/ \E k \in Keys : Trash(k) \/ Restore(k)
  \/ \E expired \in SUBSET Keys : BeginPurge(expired)
  \/ AbortPurge
  \/ CommitPurge
  \/ \E j \in Jobs, k \in Keys : FinishReproduction(j, k)
  \/ \E q \in Requests, j \in Jobs : BeginApply(q, j)
  \/ \E q \in Requests : MoveOld(q) \/ Install(q) \/ FailApply(q) \/ MarkApplied(q)
  \/ Crash

Spec == Init /\ [][Next]_vars

-----------------------------------------------------------------------------
(* A purge takes nothing that a row it leaves needs (db.py:1347-1389 keeps *)
(* what any other row links to): the files a row links to are there, for   *)
(* every row that is not being purged, active or in the trash, unless an   *)
(* application is between its renames, a crash fell between the renames of *)
(* a purge or an application, or what a failing purge or application does  *)
(* to put them back failed too (db.py:1440-1449, 1514-1523,                *)
(* server.py:1186-1190), which leaves them under another name, in the      *)
(* revisions or, of a draft half removed, in part.                         *)
LinkedEvidenceExists ==
  \A k \in Keys :
    bugs[k] # None /\ (purge = None \/ k \notin purge.expired) =>
      \A place \in bugs[k].links :
        \/ Present(place)
        \/ place \in lost
        \/ /\ place[1] = "package"
           /\ \E q \in Busy(place[2]) : request[q].step = "moved"

(* The package an audit wrote is never destroyed but by a purge: however   *)
(* an application of a draft ends (server.py:1165-1195) and its undoing    *)
(* fails, with purges, the trash and crashes in between, the original is   *)
(* active, a revision or put aside; two applications at once on one        *)
(* directory are the exception.                                            *)
OriginalKept ==
  \A d \in written :
    \/ packages[d] = Original
    \/ Original \in revisions[d]
    \/ \E q \in Busy(d) : request[q].old = Original
    \/ purge # None /\ purge.packages[d] = Original
    \/ <<"package", d>> \in lost
    \/ d \in overlap
=============================================================================
