----------------------- MODULE DisclosureStoreProofs -----------------------
(***************************************************************************)
(* Proofs about DisclosureStore for any runs, directories, identities,     *)
(* reproductions and requests, any number of crashes, and any purges.      *)
(***************************************************************************)
EXTENDS DisclosureStore, TLAPS

(***************************************************************************)
(* What ties the parts together: a request holds the old package exactly   *)
(* after it moved it (SwapsHoldOld); a purge holds nothing it did not mean *)
(* to take (PurgeHoldsPlaces); what a row links to is there, lost, between *)
(* two renames, or held by the purge of that very row (LinksAreCovered).   *)
(***************************************************************************)
SwapsHoldOld ==
  \A q \in Requests : request[q] # None =>
    (request[q].step = "checked" <=> request[q].old = None)

PurgeHoldsPlaces ==
  purge # None =>
    /\ \A d \in purge.reports : <<"report", d>> \in purge.places
    /\ \A d \in Dirs : purge.packages[d] # None => <<"package", d>> \in purge.places

Covered(place) ==
  \/ Present(place)
  \/ place \in lost
  \/ /\ place[1] = "package"
     /\ \E q \in Busy(place[2]) : request[q].step = "moved"

HeldBack(place) ==
  /\ purge # None
  /\ IF place[1] = "report" THEN place[2] \in purge.reports
                            ELSE purge.packages[place[2]] # None

LinksAreCovered ==
  \A k \in Keys : bugs[k] # None =>
    \A place \in bugs[k].links :
      Covered(place) \/ (HeldBack(place) /\ k \in purge.expired)

BaseInv == TypeOK /\ SwapsHoldOld
LinkInv == BaseInv /\ PurgeHoldsPlaces /\ LinksAreCovered

-----------------------------------------------------------------------------
(* Types *)

LEMMA InitBase == NoneIsNew /\ Init => BaseInv
  BY DEF Init, BaseInv, TypeOK, SwapsHoldOld, NoneIsNew, Contents

LEMMA SwapFacts ==
  ASSUME NoneIsNew, BaseInv, NEW q \in Requests, request[q] # None
  PROVE  /\ request[q] \in Swaps /\ request[q].dir \in Dirs /\ request[q].job \in Jobs
         /\ request[q].step # "checked" => request[q].old \in Contents
  BY DEF BaseInv, TypeOK, SwapsHoldOld, Swaps

LEMMA StagesWriteBase ==
  ASSUME BaseInv, NEW d \in Dirs, StagesWrite(d)
  PROVE  BaseInv'
  BY DEF BaseInv, TypeOK, SwapsHoldOld, StagesWrite, store, Contents, Places

LEMMA PersistBase ==
  ASSUME NoneIsNew, BaseInv, NEW r \in Runs, Persist(r)
  PROVE  BaseInv'
<1>1. Synced(r) \in [Keys -> Rows \cup {None}]
  <2> DEFINE links == {place \in {"report", "package"} \X {DirOf(r)} : Present(place)}
  <2>1. links \in SUBSET Places
    BY DEF BaseInv, TypeOK, DirOf, Places
  <2>2. [trashed |-> FALSE, links |-> links] \in Rows
    BY <2>1 DEF Rows
  <2>3. \A row \in Rows : [row EXCEPT !.links = links] \in Rows
    BY <2>1 DEF Rows
  <2>4. KeyOf(r) \in Keys /\ bugs \in [Keys -> Rows \cup {None}]
    BY DEF BaseInv, TypeOK, KeyOf
  <2> HIDE DEF links
  <2>5. Synced(r) = IF ~Present(<<"package", DirOf(r)>>) THEN bugs
                    ELSE [bugs EXCEPT ![KeyOf(r)] =
                            IF @ = None THEN [trashed |-> FALSE, links |-> links]
                                        ELSE [@ EXCEPT !.links = links]]
    BY DEF Synced, links
  <2> QED
    BY <2>2, <2>3, <2>4, <2>5
<1> QED
  BY <1>1 DEF BaseInv, TypeOK, SwapsHoldOld, Persist, tree, ghost

LEMMA OnlyRowBase ==
  ASSUME BaseInv, NEW k \in Keys, NEW row \in Rows, OnlyRow(k, row)
  PROVE  BaseInv'
  BY DEF BaseInv, TypeOK, SwapsHoldOld, OnlyRow, tree, ghost

LEMMA BeginPurgeBase ==
  ASSUME NoneIsNew, BaseInv, NEW expired \in SUBSET Keys, BeginPurge(expired)
  PROVE  BaseInv'
<1>1. Deletable(expired) \in SUBSET Places
  <2>1. LinksOf(expired) \subseteq Places
    BY DEF BaseInv, TypeOK, LinksOf, Rows
  <2> QED
    BY <2>1 DEF Deletable
<1>2. purge' \in Purges /\ reports' \subseteq Dirs /\ packages' \in [Dirs -> Contents \cup {None}]
  BY <1>1 DEF BeginPurge, BaseInv, TypeOK, Purges
<1> QED
  BY <1>2 DEF BaseInv, TypeOK, SwapsHoldOld, BeginPurge, store, ghost

LEMMA HeldArePlaces == BaseInv => Held \subseteq Places
  BY DEF BaseInv, TypeOK, Held, Purges

LEMMA AbortPurgeBase ==
  ASSUME BaseInv, AbortPurge
  PROVE  BaseInv'
<1>1. Held \subseteq Places
  BY HeldArePlaces
<1>2. /\ reports' \subseteq Dirs /\ packages' \in [Dirs -> Contents \cup {None}]
      /\ lost' \subseteq Places
  BY <1>1 DEF BaseInv, TypeOK, AbortPurge, Purges
<1> QED
  BY <1>2 DEF BaseInv, TypeOK, SwapsHoldOld, AbortPurge, store

LEMMA CommitPurgeBase ==
  ASSUME BaseInv, CommitPurge
  PROVE  BaseInv'
  BY DEF BaseInv, TypeOK, SwapsHoldOld, CommitPurge, tree

LEMMA FinishReproductionBase ==
  ASSUME BaseInv, NEW j \in Jobs, NEW k \in Keys, FinishReproduction(j, k)
  PROVE  BaseInv'
  BY DEF BaseInv, TypeOK, SwapsHoldOld, FinishReproduction, tree, ghost, Records

LEMMA BeginApplyBase ==
  ASSUME NoneIsNew, BaseInv, NEW q \in Requests, NEW j \in Jobs, BeginApply(q, j)
  PROVE  BaseInv'
<1> PICK d \in Dirs :
      /\ request' = [request EXCEPT ![q] = [job |-> j, dir |-> d, step |-> "checked",
                                            old |-> None]]
      /\ overlap' = IF Busy(d) # {} THEN overlap \cup {d} ELSE overlap
  BY DEF BeginApply
<1>1. [job |-> j, dir |-> d, step |-> "checked", old |-> None] \in Swaps
  BY DEF Swaps
<1> QED
  BY <1>1 DEF BaseInv, TypeOK, SwapsHoldOld, BeginApply, tree, store, Swaps

LEMMA MoveOldBase ==
  ASSUME NoneIsNew, BaseInv, NEW q \in Requests, MoveOld(q)
  PROVE  BaseInv'
<1>1. request[q] \in Swaps /\ request[q].dir \in Dirs
  BY SwapFacts DEF MoveOld
<1>2. packages[request[q].dir] \in Contents
  BY <1>1 DEF MoveOld, BaseInv, TypeOK
<1>3. [request[q] EXCEPT !.step = "moved", !.old = packages[request[q].dir]] \in Swaps
  BY <1>1, <1>2 DEF Swaps
<1>4. request' = [request EXCEPT ![q] = [request[q] EXCEPT !.step = "moved",
                                           !.old = packages[request[q].dir]]]
  BY <1>1 DEF MoveOld, BaseInv, TypeOK
<1> QED
  BY <1>1, <1>2, <1>3, <1>4 DEF BaseInv, TypeOK, SwapsHoldOld, MoveOld, store, ghost, Swaps, NoneIsNew

LEMMA InstallBase ==
  ASSUME NoneIsNew, BaseInv, NEW q \in Requests, Install(q)
  PROVE  BaseInv'
<1>1. request[q] \in Swaps /\ request[q].dir \in Dirs /\ request[q].job \in Contents
  BY SwapFacts DEF Install, Contents
<1>2. [request[q] EXCEPT !.step = "installed"] \in Swaps
  BY <1>1 DEF Swaps
<1>3. request' = [request EXCEPT ![q] = [request[q] EXCEPT !.step = "installed"]]
  BY <1>1 DEF Install, BaseInv, TypeOK
<1> QED
  BY <1>1, <1>2, <1>3 DEF BaseInv, TypeOK, SwapsHoldOld, Install, store, ghost, Swaps

(* A failed request leaves the old package, nothing, what there was or     *)
(* remains; and keeps the old package as a revision if it does not put it  *)
(* back.                                                                   *)
LEMMA RollBackFacts ==
  ASSUME NoneIsNew, BaseInv, NEW q \in Requests, request[q] # None,
         request[q].step # "checked", RollBack(q)
  PROVE  LET d == request[q].dir
             old == request[q].old
         IN  /\ request' = [request EXCEPT ![q] = None]
             /\ \E active \in Contents \cup {None}, revised \in BOOLEAN :
                  /\ packages' = [packages EXCEPT ![d] = active]
                  /\ revisions' = [revisions EXCEPT ![d] = IF revised THEN @ \cup {old} ELSE @]
                  /\ lost' = IF active \in {None, Remains}
                             THEN lost \cup {<<"package", d>>} ELSE lost
                  /\ active = old \/ revised
                  /\ ~revised => active = old
                  /\ \/ active \in {None, Remains, old}
                     \/ active = packages[d]
<1> DEFINE d == request[q].dir
           old == request[q].old
           Leaves(active, revised) ==
             /\ packages' = [packages EXCEPT ![d] = active]
             /\ revisions' = [revisions EXCEPT ![d] = IF revised THEN @ \cup {old} ELSE @]
             /\ lost' = IF active \in {None, Remains}
                        THEN lost \cup {<<"package", d>>} ELSE lost
<1>1. old \in Contents /\ d \in Dirs /\ packages[d] \in Contents \cup {None}
  BY SwapFacts DEF BaseInv, TypeOK
<1>2. /\ request' = [request EXCEPT ![q] = None]
      /\ \/ Leaves(old, FALSE) \/ Leaves(None, TRUE)
         \/ Leaves(packages[d], TRUE) \/ Leaves(Remains, TRUE)
  BY DEF RollBack
<1>3. Remains \in Contents
  BY DEF Contents
<1> HIDE DEF d, old, Leaves
<1>4. \E active \in Contents \cup {None}, revised \in BOOLEAN :
        /\ Leaves(active, revised) /\ (active = old \/ revised) /\ (~revised => active = old)
        /\ active \in {None, Remains, old} \/ active = packages[d]
  BY <1>1, <1>2, <1>3
<1> QED
  BY <1>2, <1>4 DEF d, old, Leaves

LEMMA FailApplyBase ==
  ASSUME NoneIsNew, BaseInv, NEW q \in Requests, FailApply(q)
  PROVE  BaseInv'
<1>1. /\ request[q] # None /\ request[q].dir \in Dirs
      /\ request[q].step # "checked" => request[q].old \in Contents
  BY SwapFacts DEF FailApply
<1>2. /\ request' = [request EXCEPT ![q] = None]
      /\ packages' \in [Dirs -> Contents \cup {None}] /\ revisions' \in [Dirs -> SUBSET Contents]
      /\ lost' \subseteq Places
  <2>1. CASE request[q].step = "checked"
    BY <2>1 DEF FailApply, BaseInv, TypeOK
  <2>2. CASE request[q].step # "checked"
    <3> DEFINE d == request[q].dir
               old == request[q].old
    <3>1. /\ request' = [request EXCEPT ![q] = None]
          /\ \E active \in Contents \cup {None}, revised \in BOOLEAN :
               /\ packages' = [packages EXCEPT ![d] = active]
               /\ revisions' = [revisions EXCEPT ![d] = IF revised THEN @ \cup {old} ELSE @]
               /\ lost' = IF active \in {None, Remains}
                          THEN lost \cup {<<"package", d>>} ELSE lost
      BY <1>1, <2>2, RollBackFacts DEF FailApply
    <3>2. d \in Dirs /\ old \in Contents /\ <<"package", d>> \in Places
      BY <1>1, <2>2 DEF Places
    <3> HIDE DEF d, old
    <3> QED
      BY <3>1, <3>2 DEF BaseInv, TypeOK
  <2> QED
    BY <2>1, <2>2
<1> QED
  BY <1>2 DEF BaseInv, TypeOK, SwapsHoldOld, FailApply, store

LEMMA MarkAppliedBase ==
  ASSUME NoneIsNew, BaseInv, NEW q \in Requests, MarkApplied(q)
  PROVE  BaseInv'
<1> DEFINE j == request[q].job
           d == request[q].dir
           k == repro[j].key
           links == {place \in bugs[k].links : place[1] # "package"} \cup
                    {place \in {<<"package", d>>} : Present(place)}
<1>1. d \in Dirs /\ j \in Jobs /\ request[q].old \in Contents
  BY SwapFacts DEF MarkApplied
<1>2. repro[j] \in Records /\ k \in Keys /\ bugs[k] \in Rows
  BY <1>1 DEF MarkApplied, Eligible, Active, BaseInv, TypeOK, Records
<1>3. [repro[j] EXCEPT !.applied = TRUE] \in Records
  BY <1>2 DEF Records
<1>4. links \in SUBSET Places
  BY <1>1, <1>2 DEF Rows, Places
<1>5. [bugs[k] EXCEPT !.links = links] \in Rows
  BY <1>2, <1>4 DEF Rows
<1>6. /\ repro' = [repro EXCEPT ![j] = [repro[j] EXCEPT !.applied = TRUE]]
      /\ bugs' = [bugs EXCEPT ![k] = [bugs[k] EXCEPT !.links = links]]
      /\ revisions' = [revisions EXCEPT ![d] = @ \cup {request[q].old}]
      /\ request' = [request EXCEPT ![q] = None]
  BY <1>1, <1>2 DEF MarkApplied, BaseInv, TypeOK
<1> HIDE DEF links
<1>7. UNCHANGED <<registered, reports, packages, scan, purge, written, lost, overlap>>
  BY DEF MarkApplied, ghost
<1>8. \A x \in Requests : request'[x] = IF x = q THEN None ELSE request[x]
  BY <1>6 DEF BaseInv, TypeOK
<1>9. TypeOK'
  BY <1>1, <1>2, <1>3, <1>5, <1>6, <1>7 DEF BaseInv, TypeOK
<1>10. SwapsHoldOld'
  BY <1>8 DEF BaseInv, SwapsHoldOld
<1> QED
  BY <1>9, <1>10 DEF BaseInv

LEMMA CrashBase ==
  ASSUME NoneIsNew, BaseInv, Crash
  PROVE  BaseInv'
<1> DEFINE Moved(d) == {request[q].old : q \in {x \in Busy(d) : request[x].old # None}}
<1>1. \A d \in Dirs : Moved(d) \subseteq Contents
  BY SwapFacts DEF Busy, BaseInv, TypeOK, Swaps
<1>2. revisions' \in [Dirs -> SUBSET Contents]
  BY <1>1 DEF Crash, BaseInv, TypeOK
<1>3. lost' \subseteq Places
  BY HeldArePlaces DEF Crash, BaseInv, TypeOK, Places
<1> QED
  BY <1>2, <1>3 DEF BaseInv, TypeOK, SwapsHoldOld, Crash, store

(***************************************************************************)
(* Every step keeps the types.                                             *)
(***************************************************************************)
LEMMA BaseStep == NoneIsNew /\ BaseInv /\ [Next]_vars => BaseInv'
<1> SUFFICES ASSUME NoneIsNew, BaseInv, [Next]_vars PROVE BaseInv'
  OBVIOUS
<1>1. CASE UNCHANGED vars
  BY <1>1 DEF vars, store, tree, ghost, BaseInv, TypeOK, SwapsHoldOld
<1>2. ASSUME NEW d \in Dirs, StagesWrite(d) PROVE BaseInv'
  BY <1>2, StagesWriteBase
<1>3. ASSUME NEW r \in Runs, Scan(r) PROVE BaseInv'
  BY <1>3 DEF Scan, store, tree, ghost, BaseInv, TypeOK, SwapsHoldOld
<1>4. ASSUME NEW r \in Runs, Persist(r) PROVE BaseInv'
  BY <1>4, PersistBase
<1>5. ASSUME NEW k \in Keys, Trash(k) PROVE BaseInv'
  <2>1. [bugs[k] EXCEPT !.trashed = TRUE] \in Rows
    BY <1>5 DEF Trash, Active, BaseInv, TypeOK, Rows
  <2> QED
    BY <1>5, <2>1, OnlyRowBase DEF Trash
<1>6. ASSUME NEW k \in Keys, Restore(k) PROVE BaseInv'
  <2>1. [bugs[k] EXCEPT !.trashed = FALSE] \in Rows
    BY <1>6 DEF Restore, BaseInv, TypeOK, Rows
  <2> QED
    BY <1>6, <2>1, OnlyRowBase DEF Restore
<1>7. ASSUME NEW expired \in SUBSET Keys, BeginPurge(expired) PROVE BaseInv'
  BY <1>7, BeginPurgeBase
<1>8. ASSUME NEW j \in Jobs, NEW k \in Keys, FinishReproduction(j, k) PROVE BaseInv'
  BY <1>8, FinishReproductionBase
<1>9. ASSUME NEW q \in Requests, NEW j \in Jobs, BeginApply(q, j) PROVE BaseInv'
  BY <1>9, BeginApplyBase
<1>10. ASSUME NEW q \in Requests, MoveOld(q) \/ Install(q) \/ FailApply(q) \/ MarkApplied(q)
       PROVE  BaseInv'
  BY <1>10, MoveOldBase, InstallBase, FailApplyBase, MarkAppliedBase
<1> QED
  BY <1>1, <1>2, <1>3, <1>4, <1>5, <1>6, <1>7, <1>8, <1>9, <1>10,
     AbortPurgeBase, CommitPurgeBase, CrashBase DEF Next

(***************************************************************************)
(* Rows, records, files, purges and requests keep their types, and links   *)
(* are places, whatever the number of everything.                          *)
(***************************************************************************)
THEOREM StoreTypeCorrect ==
  ASSUME NoneIsNew
  PROVE  Spec => []TypeOK
<1>1. BaseInv => TypeOK
  BY DEF BaseInv
<1>2. Init => BaseInv
  BY InitBase
<1>3. BaseInv /\ [Next]_vars => BaseInv'
  BY BaseStep
<1> QED
  BY <1>1, <1>2, <1>3, PTL DEF Spec

-----------------------------------------------------------------------------
(* Links *)

LEMMA PlaceFacts ==
  ASSUME NEW place \in Places
  PROVE  /\ place[1] \in {"report", "package"} /\ place[2] \in Dirs
         /\ place = <<place[1], place[2]>>
  BY DEF Places

LEMMA LinksArePlaces ==
  ASSUME BaseInv, NEW k \in Keys, bugs[k] # None
  PROVE  bugs[k] \in Rows /\ bugs[k].links \subseteq Places
  BY DEF BaseInv, TypeOK, Rows

(* A step that changes neither rows nor the purge.                         *)
LEMMA LinksFrame ==
  ASSUME LinkInv, bugs' = bugs, purge' = purge,
         \A place \in Places : Covered(place) => Covered(place)'
  PROVE  (PurgeHoldsPlaces /\ LinksAreCovered)'
<1>1. PurgeHoldsPlaces'
  BY DEF LinkInv, PurgeHoldsPlaces
<1>2. ASSUME NEW k \in Keys, bugs[k] # None, NEW place \in bugs[k].links
      PROVE  Covered(place)' \/ (HeldBack(place)' /\ k \in purge'.expired)
  <2>1. place \in Places
    BY <1>2, LinksArePlaces DEF LinkInv
  <2>2. HeldBack(place) => HeldBack(place)'
    BY DEF HeldBack
  <2> QED
    BY <1>2, <2>1, <2>2 DEF LinkInv, LinksAreCovered
<1> QED
  BY <1>1, <1>2 DEF LinksAreCovered

LEMMA StagesWriteLinks ==
  ASSUME NoneIsNew, LinkInv, NEW d \in Dirs, StagesWrite(d)
  PROVE  (PurgeHoldsPlaces /\ LinksAreCovered)'
<1>1. ASSUME NEW place \in Places, Covered(place) PROVE Covered(place)'
  <2>1. PICK packed \in BOOLEAN :
          /\ reports' = reports \cup {d}
          /\ packages' = [packages EXCEPT ![d] = IF packed THEN Original ELSE @]
          /\ lost' = lost \ ({<<"report", d>>} \cup IF packed THEN {<<"package", d>>} ELSE {})
    BY DEF StagesWrite
  <2>2. request' = request
    BY DEF StagesWrite
  <2>3. ASSUME Present(place) PROVE Present(place)'
    <3>1. \A e \in Dirs : packages'[e] = packages[e] \/ packages'[e] = Original
      BY <2>1 DEF LinkInv, BaseInv, TypeOK
    <3>2. Original \notin {None, Remains}
      BY DEF NoneIsNew, Contents, Original, Remains
    <3> QED
      BY <2>1, <2>3, <3>1, <3>2, PlaceFacts DEF Present
  <2>4. ASSUME place \in lost PROVE Present(place)' \/ place \in lost'
    <3>1. place = <<"report", d>> => Present(place)'
      BY <2>1 DEF Present
    <3>2. packed => packages'[d] \notin {None, Remains}
      BY <2>1 DEF LinkInv, BaseInv, TypeOK, NoneIsNew, Contents, Original, Remains
    <3>3. packed /\ place = <<"package", d>> => Present(place)'
      BY <3>2 DEF Present
    <3> QED
      BY <2>1, <2>4, <3>1, <3>3
  <2>5. Busy(place[2])' = Busy(place[2])
    BY <2>2 DEF Busy
  <2> QED
    BY <1>1, <2>2, <2>3, <2>4, <2>5 DEF Covered
<1> QED
  BY <1>1, LinksFrame DEF StagesWrite, store

LEMMA BeginApplyLinks ==
  ASSUME NoneIsNew, LinkInv, NEW q \in Requests, NEW j \in Jobs, BeginApply(q, j)
  PROVE  (PurgeHoldsPlaces /\ LinksAreCovered)'
<1>1. ASSUME NEW place \in Places, Covered(place) PROVE Covered(place)'
  BY <1>1 DEF Covered, Present, Busy, BeginApply, tree, LinkInv, BaseInv, TypeOK
<1> QED
  BY <1>1, LinksFrame DEF BeginApply, store

LEMMA MoveOldLinks ==
  ASSUME NoneIsNew, LinkInv, NEW q \in Requests, MoveOld(q)
  PROVE  (PurgeHoldsPlaces /\ LinksAreCovered)'
<1>1. request[q] \in Swaps /\ request[q].dir \in Dirs
  BY SwapFacts DEF MoveOld, LinkInv
<1>2. request' = [request EXCEPT ![q] = [request[q] EXCEPT !.step = "moved",
                                           !.old = packages[request[q].dir]]]
  BY <1>1 DEF MoveOld, LinkInv, BaseInv, TypeOK
<1>3. request'[q] \in Swaps /\ request'[q].dir = request[q].dir /\ request'[q].step = "moved"
  <2>1. BaseInv'
    BY MoveOldBase DEF LinkInv
  <2>2. request'[q] # None
    <3>1. request'[q] = [job |-> request[q].job, dir |-> request[q].dir, step |-> "moved",
                         old |-> packages[request[q].dir]]
      BY <1>1, <1>2 DEF LinkInv, BaseInv, TypeOK, Swaps
    <3>2. packages[request[q].dir] \in Contents \cup {None}
      BY <1>1 DEF LinkInv, BaseInv, TypeOK
    <3>3. request'[q] \in Swaps
      BY <1>1, <3>1, <3>2 DEF Swaps
    <3> QED
      BY <3>3 DEF NoneIsNew
  <2> QED
    BY <1>1, <1>2, <2>1, <2>2 DEF LinkInv, BaseInv, TypeOK, Swaps
<1>4. q \in Busy(request[q].dir)'
  BY <1>3 DEF Busy, NoneIsNew
<1>5. \A x \in Requests \ {q} : request'[x] = request[x]
  BY <1>2 DEF LinkInv, BaseInv, TypeOK
<1>6. /\ reports' = reports /\ lost' = lost /\ bugs' = bugs /\ purge' = purge
      /\ \A d \in Dirs \ {request[q].dir} : packages'[d] = packages[d]
  BY DEF MoveOld, store, ghost, LinkInv, BaseInv, TypeOK
<1>7. ASSUME NEW place \in Places, Covered(place) PROVE Covered(place)'
  <2>1. CASE place[1] = "package" /\ place[2] = request[q].dir
    BY <1>3, <1>4, <2>1 DEF Covered
  <2>2. CASE ~(place[1] = "package" /\ place[2] = request[q].dir)
    <3>1. CASE Present(place) \/ place \in lost
      BY <1>6, <2>2, <3>1, PlaceFacts DEF Covered, Present
    <3>2. ASSUME place[1] = "package", NEW x \in Busy(place[2]), request[x].step = "moved"
          PROVE  Covered(place)'
      <4>1. x # q /\ x \in Requests
        BY <2>2, <3>2 DEF Busy
      <4>2. x \in Busy(place[2])' /\ request'[x].step = "moved"
        BY <3>2, <4>1, <1>5 DEF Busy
      <4> QED
        BY <3>2, <4>2 DEF Covered
    <3> QED
      BY <1>7, <3>1, <3>2 DEF Covered
  <2> QED
    BY <2>1, <2>2
<1> QED
  BY <1>6, <1>7, LinksFrame

LEMMA InstallLinks ==
  ASSUME NoneIsNew, LinkInv, NEW q \in Requests, Install(q)
  PROVE  (PurgeHoldsPlaces /\ LinksAreCovered)'
<1>1. request[q] \in Swaps /\ request[q].dir \in Dirs /\ request[q].job \in Contents
  BY SwapFacts DEF Install, LinkInv, Contents
<1>2. \A x \in Requests \ {q} : request'[x] = request[x]
  BY DEF Install, LinkInv, BaseInv, TypeOK
<1>3. /\ reports' = reports /\ lost' = lost /\ bugs' = bugs /\ purge' = purge
      /\ \A d \in Dirs \ {request[q].dir} : packages'[d] = packages[d]
      /\ packages'[request[q].dir] \notin {None, Remains}
  BY <1>1 DEF Install, store, ghost, LinkInv, BaseInv, TypeOK, NoneIsNew, Swaps
<1>4. ASSUME NEW place \in Places, Covered(place) PROVE Covered(place)'
  <2>1. CASE place[1] = "package" /\ place[2] = request[q].dir
    BY <1>3, <2>1 DEF Covered, Present
  <2>2. CASE ~(place[1] = "package" /\ place[2] = request[q].dir)
    <3>1. CASE Present(place) \/ place \in lost
      BY <1>3, <2>2, <3>1, PlaceFacts DEF Covered, Present
    <3>2. ASSUME place[1] = "package", NEW x \in Busy(place[2]), request[x].step = "moved"
          PROVE  Covered(place)'
      <4>1. x # q /\ x \in Requests
        BY <2>2, <3>2 DEF Busy
      <4>2. x \in Busy(place[2])' /\ request'[x].step = "moved"
        BY <3>2, <4>1, <1>2 DEF Busy
      <4> QED
        BY <3>2, <4>2 DEF Covered
    <3> QED
      BY <1>4, <3>1, <3>2 DEF Covered
  <2> QED
    BY <2>1, <2>2
<1> QED
  BY <1>3, <1>4, LinksFrame

LEMMA FailApplyLinks ==
  ASSUME NoneIsNew, LinkInv, NEW q \in Requests, FailApply(q)
  PROVE  (PurgeHoldsPlaces /\ LinksAreCovered)'
<1> DEFINE d == request[q].dir
           rolled == request[q].step # "checked"
<1>1. d \in Dirs /\ request[q] # None
  BY SwapFacts DEF FailApply, LinkInv, NoneIsNew
<1>2. /\ request' = [request EXCEPT ![q] = None]
      /\ reports' = reports /\ bugs' = bugs /\ purge' = purge
  BY DEF FailApply, RollBack, store
<1>3. \A x \in Requests \ {q} : request'[x] = request[x]
  BY <1>2 DEF LinkInv, BaseInv, TypeOK
<1>4. ~rolled => packages' = packages /\ lost' = lost
  BY DEF FailApply
<1>5. ASSUME rolled
      PROVE  /\ lost \subseteq lost' /\ \A e \in Dirs \ {d} : packages'[e] = packages[e]
             /\ packages'[d] \notin {None, Remains} \/ <<"package", d>> \in lost'
  <2>1. RollBack(q)
    BY <1>5 DEF FailApply
  <2>2. PICK active \in Contents \cup {None} :
          /\ packages' = [packages EXCEPT ![d] = active]
          /\ lost' = IF active \in {None, Remains} THEN lost \cup {<<"package", d>>} ELSE lost
    BY <1>1, <1>5, <2>1, RollBackFacts DEF LinkInv
  <2> QED
    BY <1>1, <2>2 DEF LinkInv, BaseInv, TypeOK
<1> HIDE DEF d, rolled
<1>6. ASSUME NEW place \in Places, Covered(place) PROVE Covered(place)'
  <2>1. CASE place = <<"package", d>> /\ rolled
    BY <1>5, <2>1 DEF Covered, Present
  <2>2. CASE ~(place = <<"package", d>> /\ rolled)
    <3>1. CASE Present(place) \/ place \in lost
      BY <1>2, <1>4, <1>5, <2>2, <3>1, PlaceFacts DEF Covered, Present
    <3>2. ASSUME place[1] = "package", NEW x \in Busy(place[2]), request[x].step = "moved"
          PROVE  Covered(place)'
      <4>1. x # q /\ x \in Requests
        BY <2>2, <3>2, PlaceFacts DEF Busy, d, rolled
      <4>2. x \in Busy(place[2])' /\ request'[x].step = "moved"
        BY <3>2, <4>1, <1>3 DEF Busy
      <4> QED
        BY <3>2, <4>2 DEF Covered
    <3> QED
      BY <1>6, <3>1, <3>2 DEF Covered
  <2> QED
    BY <2>1, <2>2
<1> QED
  BY <1>2, <1>6, LinksFrame

(* A step that leaves files and requests alone covers what was covered.    *)
LEMMA SameFilesCovered ==
  ASSUME reports' = reports, packages' = packages, lost' = lost, request' = request,
         NEW place
  PROVE  Covered(place)' = Covered(place) /\ Present(place)' = Present(place)
  BY DEF Covered, Present, Busy

LEMMA QuietLinks ==
  ASSUME LinkInv,
         \/ \E r \in Runs : Scan(r)
         \/ \E j \in Jobs, k \in Keys : FinishReproduction(j, k)
         \/ UNCHANGED vars
  PROVE  (PurgeHoldsPlaces /\ LinksAreCovered)'
<1>1. /\ reports' = reports /\ packages' = packages /\ lost' = lost /\ request' = request
      /\ bugs' = bugs /\ purge' = purge
  BY DEF Scan, FinishReproduction, vars, tree, store, ghost
<1> QED
  BY <1>1, SameFilesCovered, LinksFrame

(* A step taken with the write lock free gives a row only links it had or  *)
(* links that are covered.                                                 *)
LEMMA LinksUnlocked ==
  ASSUME LinkInv, purge = None, purge' = None,
         \A place \in Places : Covered(place) => Covered(place)',
         \A k \in Keys : bugs'[k] # None =>
           \A place \in bugs'[k].links :
             Covered(place)' \/ (bugs[k] # None /\ place \in bugs[k].links)
  PROVE  (PurgeHoldsPlaces /\ LinksAreCovered)'
<1>1. PurgeHoldsPlaces'
  BY DEF PurgeHoldsPlaces
<1>2. ASSUME NEW k \in Keys, bugs'[k] # None, NEW place \in bugs'[k].links
      PROVE  Covered(place)'
  <2>1. CASE Covered(place)'
    BY <2>1
  <2>2. CASE bugs[k] # None /\ place \in bugs[k].links
    <3>1. place \in Places
      BY <2>2, LinksArePlaces DEF LinkInv
    <3>2. Covered(place)
      BY <2>2 DEF LinkInv, LinksAreCovered, HeldBack
    <3> QED
      BY <3>1, <3>2
  <2> QED
    BY <1>2, <2>1, <2>2
<1> QED
  BY <1>1, <1>2 DEF LinksAreCovered

LEMMA PersistLinks ==
  ASSUME LinkInv, NEW r \in Runs, Persist(r)
  PROVE  (PurgeHoldsPlaces /\ LinksAreCovered)'
<1>1. /\ reports' = reports /\ packages' = packages /\ lost' = lost /\ request' = request
      /\ purge = None /\ purge' = None /\ bugs' \in {Synced(r), bugs}
  BY DEF Persist, tree, ghost, Unlocked
<1>2. \A place \in Places : Covered(place) => Covered(place)'
  BY <1>1, SameFilesCovered
<1>3. ASSUME NEW k \in Keys, bugs'[k] # None, NEW place \in bugs'[k].links
      PROVE  Covered(place)' \/ (bugs[k] # None /\ place \in bugs[k].links)
  <2> DEFINE links == {x \in {"report", "package"} \X {DirOf(r)} : Present(x)}
  <2>1. \A x \in links : Present(x)
    OBVIOUS
  <2> HIDE DEF links
  <2>2. Synced(r) = IF ~Present(<<"package", DirOf(r)>>) THEN bugs
                    ELSE [bugs EXCEPT ![KeyOf(r)] =
                            IF @ = None THEN [trashed |-> FALSE, links |-> links]
                                        ELSE [@ EXCEPT !.links = links]]
    BY DEF Synced, links
  <2>3. CASE bugs'[k] = bugs[k]
    BY <1>3, <2>3
  <2>4. CASE bugs'[k] # bugs[k]
    <3>1. /\ k = KeyOf(r)
          /\ bugs'[k] = IF bugs[k] = None THEN [trashed |-> FALSE, links |-> links]
                                          ELSE [bugs[k] EXCEPT !.links = links]
      BY <1>1, <2>2, <2>4 DEF LinkInv, BaseInv, TypeOK
    <3>2. bugs[k] # None => bugs[k] \in Rows
      BY LinksArePlaces DEF LinkInv
    <3>3. bugs'[k].links = links
      BY <3>1, <3>2 DEF Rows
    <3> QED
      BY <1>1, <1>3, <2>1, <3>3, SameFilesCovered DEF Covered
  <2> QED
    BY <2>3, <2>4
<1> QED
  BY <1>1, <1>2, <1>3, LinksUnlocked

LEMMA OnlyRowLinks ==
  ASSUME LinkInv, NEW k \in Keys, NEW row, OnlyRow(k, row), bugs[k] # None,
         row.links = bugs[k].links
  PROVE  (PurgeHoldsPlaces /\ LinksAreCovered)'
<1>1. /\ reports' = reports /\ packages' = packages /\ lost' = lost /\ request' = request
      /\ purge = None /\ purge' = None
  BY DEF OnlyRow, tree, ghost, Unlocked
<1>2. \A x \in Keys : bugs'[x] = IF x = k THEN row ELSE bugs[x]
  BY DEF OnlyRow, LinkInv, BaseInv, TypeOK
<1> QED
  BY <1>1, <1>2, SameFilesCovered, LinksUnlocked

LEMMA BeginPurgeHolds ==
  ASSUME NoneIsNew, BaseInv, NEW expired \in SUBSET Keys, BeginPurge(expired)
  PROVE  purge' # None
<1> DEFINE gone == Deletable(expired)
<1>1. purge' = [expired |-> expired, places |-> gone,
                reports |-> {d \in reports : <<"report", d>> \in gone},
                packages |-> [d \in Dirs |-> IF <<"package", d>> \in gone
                                             THEN packages[d] ELSE None]]
  BY DEF BeginPurge
<1>2. gone \in SUBSET Places
  BY DEF Deletable, LinksOf, BaseInv, TypeOK, Rows
<1> HIDE DEF gone
<1>3. purge' \in Purges
  BY <1>1, <1>2 DEF Purges, BaseInv, TypeOK
<1> QED
  BY <1>3 DEF NoneIsNew

LEMMA BeginPurgeLinks ==
  ASSUME NoneIsNew, LinkInv, NEW expired \in SUBSET Keys, BeginPurge(expired)
  PROVE  (PurgeHoldsPlaces /\ LinksAreCovered)'
<1> DEFINE gone == Deletable(expired)
<1>1. /\ purge = None /\ bugs' = bugs /\ lost' = lost /\ request' = request
      /\ purge'.expired = expired /\ purge'.places = gone
      /\ purge'.reports = {d \in reports : <<"report", d>> \in gone}
      /\ purge'.packages = [d \in Dirs |-> IF <<"package", d>> \in gone
                                           THEN packages[d] ELSE None]
      /\ reports' = {d \in reports : <<"report", d>> \notin gone}
      /\ packages' = [d \in Dirs |-> IF <<"package", d>> \in gone
                                     THEN None ELSE packages[d]]
  BY DEF BeginPurge, Unlocked, store, ghost
<1>2. \A k \in Keys \ expired : bugs[k] # None => bugs[k].links \cap gone = {}
  BY DEF Deletable, LinksOf
<1> HIDE DEF gone
<1>3. PurgeHoldsPlaces'
  BY <1>1 DEF PurgeHoldsPlaces
<1>4. purge' # None
  BY BeginPurgeHolds DEF LinkInv
<1>5. ASSUME NEW k \in Keys, bugs[k] # None, NEW place \in bugs[k].links
      PROVE  Covered(place)' \/ (HeldBack(place)' /\ k \in purge'.expired)
  <2>1. place \in Places
    BY <1>5, LinksArePlaces DEF LinkInv
  <2>2. Covered(place)
    BY <1>1, <1>5 DEF LinkInv, LinksAreCovered, HeldBack
  <2>3. CASE ~Present(place)
    BY <1>1, <2>2, <2>3 DEF Covered, Busy
  <2>4. CASE Present(place) /\ place \in gone
    <3>1. k \in purge'.expired
      BY <1>1, <1>2, <1>5, <2>4
    <3>2. HeldBack(place)'
      BY <1>1, <1>4, <2>1, <2>4, PlaceFacts DEF HeldBack, Present
    <3> QED
      BY <3>1, <3>2
  <2>5. CASE Present(place) /\ place \notin gone
    BY <1>1, <2>1, <2>5, PlaceFacts DEF Covered, Present
  <2> QED
    BY <2>3, <2>4, <2>5
<1> QED
  BY <1>1, <1>3, <1>5 DEF LinksAreCovered

(* What the purge of a row holds of it is among what the purge emptied.    *)
LEMMA HeldBackIsHeld ==
  ASSUME LinkInv, NEW place \in Places, HeldBack(place)
  PROVE  place \in Held
  BY PlaceFacts DEF LinkInv, PurgeHoldsPlaces, HeldBack, Held

LEMMA AbortPurgeLinks ==
  ASSUME LinkInv, AbortPurge
  PROVE  (PurgeHoldsPlaces /\ LinksAreCovered)'
<1>1. /\ purge # None /\ purge' = None /\ bugs' = bugs /\ request' = request
      /\ reports \subseteq reports' /\ lost \subseteq lost'
      /\ \A d \in Dirs : packages[d] # None => packages'[d] = packages[d]
      /\ \A place \in Held : Present(place)' \/ place \in lost'
  BY DEF AbortPurge, store
<1>2. PurgeHoldsPlaces'
  BY <1>1 DEF PurgeHoldsPlaces
<1>3. ASSUME NEW k \in Keys, bugs[k] # None, NEW place \in bugs[k].links
      PROVE  Covered(place)'
  <2>1. place \in Places
    BY <1>3, LinksArePlaces DEF LinkInv
  <2>2. CASE Present(place)
    BY <1>1, <2>1, <2>2, PlaceFacts DEF Covered, Present
  <2>3. CASE HeldBack(place)
    BY <1>1, <2>1, <2>3, HeldBackIsHeld DEF Covered
  <2>4. CASE Covered(place) /\ ~Present(place)
    BY <1>1, <2>4 DEF Covered, Busy
  <2> QED
    BY <1>3, <2>2, <2>3, <2>4 DEF LinkInv, LinksAreCovered
<1> QED
  BY <1>1, <1>2, <1>3 DEF LinksAreCovered

LEMMA CommitPurgeLinks ==
  ASSUME LinkInv, CommitPurge
  PROVE  (PurgeHoldsPlaces /\ LinksAreCovered)'
<1>1. /\ reports' = reports /\ packages' = packages /\ lost' = lost /\ request' = request
      /\ purge' = None
      /\ \A k \in Keys : bugs'[k] = IF k \in purge.expired THEN None ELSE bugs[k]
  BY DEF CommitPurge, tree
<1>2. PurgeHoldsPlaces'
  BY <1>1 DEF PurgeHoldsPlaces
<1>3. ASSUME NEW k \in Keys, bugs'[k] # None, NEW place \in bugs'[k].links
      PROVE  Covered(place)'
  <2>1. k \notin purge.expired /\ bugs'[k] = bugs[k]
    BY <1>1, <1>3
  <2>2. Covered(place)
    BY <1>3, <2>1 DEF LinkInv, LinksAreCovered
  <2> QED
    BY <1>1, <2>2, SameFilesCovered
<1> QED
  BY <1>2, <1>3 DEF LinksAreCovered

LEMMA MarkAppliedLinks ==
  ASSUME NoneIsNew, LinkInv, NEW q \in Requests, MarkApplied(q)
  PROVE  (PurgeHoldsPlaces /\ LinksAreCovered)'
<1> DEFINE k == repro[request[q].job].key
           d == request[q].dir
<1>1. /\ reports' = reports /\ packages' = packages /\ lost' = lost
      /\ purge = None /\ purge' = None /\ request[q].step = "installed"
      /\ bugs[k] # None
      /\ bugs' = [bugs EXCEPT ![k].links =
                    {place \in @ : place[1] # "package"} \cup
                    {place \in {<<"package", d>>} : Present(place)}]
  BY DEF MarkApplied, Unlocked, ghost, Active
<1>2. \A x \in Requests \ {q} : request'[x] = request[x]
  BY DEF MarkApplied, LinkInv, BaseInv, TypeOK
<1>3. ASSUME NEW place \in Places, Covered(place) PROVE Covered(place)'
  <2>1. CASE Present(place) \/ place \in lost
    BY <1>1, <2>1 DEF Covered, Present
  <2>2. ASSUME place[1] = "package", NEW x \in Busy(place[2]), request[x].step = "moved"
        PROVE  Covered(place)'
    <3>1. x # q /\ x \in Requests
      BY <1>1, <2>2 DEF Busy
    <3>2. x \in Busy(place[2])' /\ request'[x].step = "moved"
      BY <1>2, <2>2, <3>1 DEF Busy
    <3> QED
      BY <2>2, <3>2 DEF Covered
  <2> QED
    BY <1>3, <2>1, <2>2 DEF Covered
<1>4. ASSUME NEW x \in Keys, bugs'[x] # None, NEW place \in bugs'[x].links
      PROVE  Covered(place)' \/ (bugs[x] # None /\ place \in bugs[x].links)
  <2>1. CASE x # k
    BY <1>1, <1>4, <2>1 DEF LinkInv, BaseInv, TypeOK
  <2>2. CASE x = k
    <3> DEFINE new == {p \in bugs[k].links : p[1] # "package"} \cup
                      {p \in {<<"package", d>>} : Present(p)}
    <3>1. bugs[k] \in Rows
      BY <1>1, <1>4, <2>2, LinksArePlaces DEF LinkInv
    <3>2. \A p \in new : p \in bugs[k].links \/ Present(p)
      OBVIOUS
    <3>3. bugs'[k] = [bugs[k] EXCEPT !.links = new]
      BY <1>1, <1>4, <2>2 DEF LinkInv, BaseInv, TypeOK
    <3> HIDE DEF new
    <3>4. place \in new
      BY <1>4, <2>2, <3>1, <3>3 DEF Rows
    <3>5. Present(place) => Present(place)'
      BY <1>1 DEF Present
    <3> QED
      BY <1>1, <2>2, <3>2, <3>4, <3>5 DEF Covered
  <2> QED
    BY <2>1, <2>2
<1> HIDE DEF k, d
<1> QED
  BY <1>1, <1>3, <1>4, LinksUnlocked

LEMMA CrashLinks ==
  ASSUME NoneIsNew, LinkInv, Crash
  PROVE  (PurgeHoldsPlaces /\ LinksAreCovered)'
<1> DEFINE Moved(d) == {request[q].old : q \in {x \in Busy(d) : request[x].old # None}}
<1>1. /\ reports' = reports /\ packages' = packages /\ bugs' = bugs /\ purge' = None
      /\ lost' = lost \cup Held
                      \cup {<<"package", d>> : d \in {x \in Dirs : Moved(x) # {}}}
  BY DEF Crash, store
<1>2. ASSUME NEW d \in Dirs, NEW q \in Busy(d), request[q].step = "moved"
      PROVE  <<"package", d>> \in lost'
  <2>1. request[q].old # None
    BY <1>2 DEF Busy, LinkInv, BaseInv, SwapsHoldOld
  <2>2. Moved(d) # {}
    BY <1>2, <2>1
  <2> HIDE DEF Moved
  <2> QED
    BY <1>1, <2>2
<1> HIDE DEF Moved
<1>3. PurgeHoldsPlaces'
  BY <1>1 DEF PurgeHoldsPlaces
<1>4. ASSUME NEW place \in Places, HeldBack(place) PROVE place \in lost'
  BY <1>1, <1>4, HeldBackIsHeld
<1>5. ASSUME NEW place \in Places, Covered(place) PROVE Covered(place)'
  <2>1. CASE Present(place)
    BY <1>1, <2>1 DEF Covered, Present
  <2>2. CASE place \in lost
    BY <1>1, <2>2 DEF Covered
  <2>3. CASE place[1] = "package" /\ \E q \in Busy(place[2]) : request[q].step = "moved"
    BY <1>2, <2>3, PlaceFacts DEF Covered
  <2> QED
    BY <1>5, <2>1, <2>2, <2>3 DEF Covered
<1>6. ASSUME NEW k \in Keys, bugs[k] # None, NEW place \in bugs[k].links
      PROVE  Covered(place)'
  <2>1. place \in Places
    BY <1>6, LinksArePlaces DEF LinkInv
  <2>2. place \in lost' => Covered(place)'
    BY DEF Covered
  <2> QED
    BY <1>4, <1>5, <1>6, <2>1, <2>2 DEF LinkInv, LinksAreCovered
<1> QED
  BY <1>1, <1>3, <1>6 DEF LinksAreCovered

(* Every step keeps the files of the rows it leaves.                       *)
LEMMA LinkStep == NoneIsNew /\ LinkInv /\ [Next]_vars => LinkInv'
<1> SUFFICES ASSUME NoneIsNew, LinkInv, [Next]_vars
             PROVE  (PurgeHoldsPlaces /\ LinksAreCovered)'
  BY BaseStep DEF LinkInv
<1>1. ASSUME NEW k \in Keys, Trash(k) PROVE (PurgeHoldsPlaces /\ LinksAreCovered)'
  <2> DEFINE row == [bugs[k] EXCEPT !.trashed = TRUE]
  <2>1. bugs[k] # None /\ OnlyRow(k, row)
    BY <1>1 DEF Trash, Active
  <2>2. row.links = bugs[k].links
    BY <2>1, LinksArePlaces DEF LinkInv, Rows
  <2> HIDE DEF row
  <2> QED
    BY <2>1, <2>2, OnlyRowLinks
<1>2. ASSUME NEW k \in Keys, Restore(k) PROVE (PurgeHoldsPlaces /\ LinksAreCovered)'
  <2> DEFINE row == [bugs[k] EXCEPT !.trashed = FALSE]
  <2>1. bugs[k] # None /\ OnlyRow(k, row)
    BY <1>2 DEF Restore
  <2>2. row.links = bugs[k].links
    BY <2>1, LinksArePlaces DEF LinkInv, Rows
  <2> HIDE DEF row
  <2> QED
    BY <2>1, <2>2, OnlyRowLinks
<1>3. ASSUME NEW q \in Requests, NEW j \in Jobs, BeginApply(q, j)
      PROVE  (PurgeHoldsPlaces /\ LinksAreCovered)'
  BY <1>3, BeginApplyLinks
<1>4. ASSUME NEW q \in Requests, MoveOld(q) \/ Install(q) \/ FailApply(q) \/ MarkApplied(q)
      PROVE  (PurgeHoldsPlaces /\ LinksAreCovered)'
  BY <1>4, MoveOldLinks, InstallLinks, FailApplyLinks, MarkAppliedLinks
<1> QED
  BY <1>1, <1>2, <1>3, <1>4, QuietLinks, StagesWriteLinks, PersistLinks, BeginPurgeLinks,
     AbortPurgeLinks, CommitPurgeLinks, CrashLinks DEF Next

(***************************************************************************)
(* A purge takes no file that a row it leaves links to (db.py:1347-1389):  *)
(* in any interleaving of purges, synchronisations, applications and       *)
(* crashes, with any rename, removal or transaction failing, what a row    *)
(* links to is there but where an application stands between its renames,  *)
(* a crash fell between renames, or the renaming back failed as well.      *)
(***************************************************************************)
THEOREM StoreKeepsEvidence ==
  ASSUME NoneIsNew
  PROVE  Spec => []LinkedEvidenceExists
<1>1. LinkInv => LinkedEvidenceExists
  BY DEF LinkInv, LinksAreCovered, LinkedEvidenceExists, Covered, HeldBack
<1>2. Init => LinkInv
  BY InitBase DEF LinkInv, Init, PurgeHoldsPlaces, LinksAreCovered
<1>3. LinkInv /\ [Next]_vars => LinkInv'
  BY LinkStep
<1> QED
  BY <1>1, <1>2, <1>3, PTL DEF Spec

-----------------------------------------------------------------------------
(***************************************************************************)
(* Originals.  Of a directory no two requests were busy on at once, one    *)
(* request at most is busy; a package that is there is the original or was *)
(* installed over it; a request past its first rename holds the original   *)
(* unless it is a revision; what a purge took is no worse; and what was    *)
(* written is somewhere.                                                   *)
(***************************************************************************)
Kept(d) ==
  \/ packages[d] = Original
  \/ Original \in revisions[d]
  \/ \E q \in Busy(d) : request[q].old = Original

Took(d) == purge # None /\ purge.packages[d] = Original

Safe(d) ==
  /\ \A p, q \in Busy(d) : p = q
  /\ packages[d] # None => Kept(d)
  /\ \A q \in Busy(d) : request[q].step # "checked" =>
       Original \in revisions[d] \/ request[q].old = Original
  /\ purge # None /\ purge.packages[d] # None => Kept(d) \/ Took(d)
  /\ d \in written => Kept(d) \/ Took(d) \/ <<"package", d>> \in lost

KeepInv == LinkInv /\ \A d \in Dirs : d \in overlap \/ Safe(d)

(* A step that touches nothing of a directory.                             *)
LEMMA SafeFrame ==
  ASSUME NEW e \in Dirs, Safe(e),
         packages'[e] = packages[e], revisions'[e] = revisions[e],
         Busy(e)' = Busy(e), \A q \in Busy(e) : request'[q] = request[q],
         purge' = purge, e \in written' => e \in written,
         <<"package", e>> \in lost => <<"package", e>> \in lost'
  PROVE  Safe(e)'
<1>1. Kept(e)' = Kept(e)
  BY DEF Kept
<1>2. Took(e)' = Took(e)
  BY DEF Took
<1> QED
  BY <1>1, <1>2 DEF Safe

(* A step of request q, on its directory, says nothing of the others.      *)
LEMMA OtherRequests ==
  ASSUME NEW q \in Requests, request[q] # None, NEW e \in Dirs, e # request[q].dir,
         request' \in [Requests -> Swaps \cup {None}],
         \A x \in Requests \ {q} : request'[x] = request[x],
         request'[q] = None \/ request'[q].dir = request[q].dir
  PROVE  Busy(e)' = Busy(e) /\ \A x \in Busy(e) : request'[x] = request[x]
  BY DEF Busy

LEMMA QuietSafe ==
  ASSUME KeepInv, NEW e \in Dirs, e \notin overlap',
         packages' = packages, revisions' = revisions, request' = request,
         purge' = purge, written' = written, lost' = lost, overlap' = overlap
  PROVE  Safe(e)'
<1>1. Safe(e) /\ Busy(e)' = Busy(e)
  BY DEF KeepInv, Busy
<1> QED
  BY <1>1, SafeFrame

LEMMA StagesWriteSafe ==
  ASSUME NoneIsNew, KeepInv, NEW d \in Dirs, StagesWrite(d), NEW e \in Dirs, e \notin overlap'
  PROVE  Safe(e)'
<1>1. PICK packed \in BOOLEAN :
        /\ packages' = [packages EXCEPT ![d] = IF packed THEN Original ELSE @]
        /\ written' = IF packed THEN written \cup {d} ELSE written
        /\ lost' = lost \ ({<<"report", d>>} \cup IF packed THEN {<<"package", d>>} ELSE {})
  BY DEF StagesWrite
<1>2. request' = request /\ purge' = purge /\ revisions' = revisions /\ overlap' = overlap
  BY DEF StagesWrite
<1>3. Safe(e) /\ Busy(e)' = Busy(e)
  BY <1>2 DEF KeepInv, Busy
<1>4. CASE packed /\ e = d
  <2>1. packages'[e] = Original
    BY <1>1, <1>4 DEF KeepInv, LinkInv, BaseInv, TypeOK
  <2>2. Kept(e)'
    BY <2>1 DEF Kept
  <2> QED
    BY <1>2, <1>3, <2>2 DEF Safe
<1>5. CASE ~packed \/ e # d
  <2>1. packages'[e] = packages[e] /\ (e \in written' => e \in written)
    BY <1>1, <1>5 DEF KeepInv, LinkInv, BaseInv, TypeOK
  <2>2. <<"package", e>> \in lost => <<"package", e>> \in lost'
    BY <1>1, <1>5
  <2> QED
    BY <1>2, <1>3, <2>1, <2>2, SafeFrame
<1> QED
  BY <1>4, <1>5

LEMMA BeginPurgeSafe ==
  ASSUME NoneIsNew, KeepInv, NEW expired \in SUBSET Keys, BeginPurge(expired),
         NEW e \in Dirs, e \notin overlap'
  PROVE  Safe(e)'
<1> DEFINE taken == <<"package", e>> \in Deletable(expired)
<1>1. /\ purge = None /\ revisions' = revisions /\ request' = request /\ written' = written
      /\ lost' = lost /\ overlap' = overlap
      /\ purge'.packages[e] = IF taken THEN packages[e] ELSE None
      /\ packages'[e] = IF taken THEN None ELSE packages[e]
  BY DEF BeginPurge, Unlocked, store, ghost
<1> HIDE DEF taken
<1>2. Safe(e) /\ Busy(e)' = Busy(e)
  BY <1>1 DEF KeepInv, Busy
<1>3. purge' # None
  BY BeginPurgeHolds DEF KeepInv, LinkInv
<1>4. Kept(e) => Kept(e)' \/ Took(e)'
  BY <1>1, <1>2, <1>3 DEF Kept, Took
<1>5. ~taken => Kept(e)' = Kept(e)
  BY <1>1, <1>2 DEF Kept
<1>6. ~Took(e)
  BY <1>1 DEF Took
<1> QED
  BY <1>1, <1>2, <1>4, <1>5, <1>6 DEF Safe

(* The original a purge took is among what the purge emptied.              *)
LEMMA TookIsHeld ==
  ASSUME NoneIsNew, LinkInv, NEW e \in Dirs, Took(e)
  PROVE  <<"package", e>> \in Held
<1>1. HeldBack(<<"package", e>>) /\ <<"package", e>> \in Places
  BY DEF Took, HeldBack, NoneIsNew, Contents, Places
<1> QED
  BY <1>1, HeldBackIsHeld

LEMMA AbortPurgeSafe ==
  ASSUME NoneIsNew, KeepInv, AbortPurge, NEW e \in Dirs, e \notin overlap'
  PROVE  Safe(e)'
<1>1. /\ purge # None /\ purge' = None /\ revisions' = revisions /\ request' = request
      /\ written' = written /\ lost \subseteq lost' /\ overlap' = overlap
      /\ packages'[e] = packages[e] \/ (packages[e] = None /\ packages'[e] = purge.packages[e])
      /\ \A place \in Held : Present(place)' \/ place \in lost'
  BY DEF AbortPurge, store
<1>2. Safe(e) /\ Busy(e)' = Busy(e)
  BY <1>1 DEF KeepInv, Busy
<1>3. Original # None
  BY DEF NoneIsNew, Contents
<1>4. Kept(e) => Kept(e)'
  BY <1>1, <1>2, <1>3 DEF Kept
<1>5. Took(e) => Kept(e)' \/ (packages'[e] = None /\ <<"package", e>> \in lost')
  <2>1. CASE packages'[e] = purge.packages[e]
    BY <1>1, <2>1 DEF Took, Kept
  <2>2. CASE packages[e] # None
    BY <1>2, <1>4, <2>2 DEF Safe
  <2>3. ASSUME packages'[e] = None, Took(e) PROVE <<"package", e>> \in lost'
    <3>1. ~Present(<<"package", e>>)'
      BY <2>3 DEF Present
    <3> QED
      BY <1>1, <2>3, <3>1, TookIsHeld DEF KeepInv
  <2> QED
    BY <1>1, <2>1, <2>2, <2>3
<1>6. packages'[e] # None => Kept(e)'
  BY <1>1, <1>2, <1>4, <1>5 DEF Safe
<1>7. e \in written => Kept(e)' \/ <<"package", e>> \in lost'
  BY <1>1, <1>2, <1>4, <1>5 DEF Safe
<1> QED
  BY <1>1, <1>2, <1>6, <1>7 DEF Safe

LEMMA CommitPurgeSafe ==
  ASSUME NoneIsNew, KeepInv, CommitPurge, NEW e \in Dirs, e \notin overlap'
  PROVE  Safe(e)'
<1>1. /\ purge # None /\ purge' = None /\ packages' = packages /\ revisions' = revisions
      /\ request' = request /\ lost' = lost /\ overlap' = overlap
      /\ written' = {d \in written : <<"package", d>> \notin purge.places}
  BY DEF CommitPurge, tree
<1>2. Safe(e) /\ Busy(e)' = Busy(e)
  BY <1>1 DEF KeepInv, Busy
<1>3. Kept(e)' = Kept(e)
  BY <1>1, <1>2 DEF Kept
<1>4. e \in written' => e \in written /\ ~Took(e)
  BY <1>1 DEF KeepInv, LinkInv, PurgeHoldsPlaces, Took, NoneIsNew, Contents
<1> QED
  BY <1>1, <1>2, <1>3, <1>4 DEF Safe

LEMMA CrashSafe ==
  ASSUME NoneIsNew, KeepInv, Crash, NEW e \in Dirs, e \notin overlap'
  PROVE  Safe(e)'
<1> DEFINE Moved(d) == {request[q].old : q \in {x \in Busy(d) : request[x].old # None}}
<1>1. /\ packages' = packages /\ purge' = None /\ written' = written /\ overlap' = overlap
      /\ revisions'[e] = revisions[e] \cup Moved(e)
      /\ lost \subseteq lost'
      /\ request' = [q \in Requests |-> None]
  BY DEF Crash, store
<1>2. Safe(e) /\ Busy(e)' = {}
  BY <1>1 DEF KeepInv, Busy
<1>3. \A q \in Busy(e) : request[q].old = Original => Original \in Moved(e)
  BY DEF NoneIsNew, Contents
<1> HIDE DEF Moved
<1>4. Kept(e) => Kept(e)'
  BY <1>1, <1>3 DEF Kept
<1>5. Took(e) => <<"package", e>> \in lost'
  BY TookIsHeld DEF Crash, KeepInv
<1> QED
  BY <1>1, <1>2, <1>4, <1>5 DEF Safe

LEMMA BeginApplySafe ==
  ASSUME NoneIsNew, KeepInv, NEW q \in Requests, NEW j \in Jobs, BeginApply(q, j),
         NEW e \in Dirs, e \notin overlap'
  PROVE  Safe(e)'
<1>1. PICK d \in Dirs :
        /\ request' = [request EXCEPT ![q] = [job |-> j, dir |-> d, step |-> "checked",
                                              old |-> None]]
        /\ overlap' = IF Busy(d) # {} THEN overlap \cup {d} ELSE overlap
  BY DEF BeginApply
<1>2. /\ request[q] = None /\ packages' = packages /\ revisions' = revisions
      /\ purge' = purge /\ written' = written /\ lost' = lost
  BY DEF BeginApply, tree
<1>3. Safe(e)
  BY <1>1 DEF KeepInv
<1>4. request'[q].dir = d /\ request'[q].step = "checked" /\ request'[q].old = None
  BY <1>1 DEF KeepInv, LinkInv, BaseInv, TypeOK
<1>5. \A x \in Requests \ {q} : request'[x] = request[x]
  BY <1>1 DEF KeepInv, LinkInv, BaseInv, TypeOK
<1>6. Busy(e) \subseteq Busy(e)' /\ \A x \in Busy(e) : request'[x] = request[x]
  BY <1>2, <1>5 DEF Busy
<1>7. Kept(e) => Kept(e)'
  BY <1>2, <1>6 DEF Kept
<1>8. Took(e)' = Took(e)
  BY <1>2 DEF Took
<1>9. CASE e = d
  <2>1. Busy(e) = {}
    BY <1>1, <1>9
  <2>2. Busy(e)' \subseteq {q}
    BY <1>5, <2>1 DEF Busy
  <2> QED
    BY <1>2, <1>3, <1>4, <1>7, <1>8, <2>2 DEF Safe
<1>10. CASE e # d
  <2>1. Busy(e)' = Busy(e)
    BY <1>2, <1>4, <1>5, <1>10 DEF Busy
  <2> QED
    BY <1>2, <1>3, <1>6, <2>1, SafeFrame
<1> QED
  BY <1>9, <1>10

(* What a step of a request does to its own directory.                     *)
LEMMA SoleRequest ==
  ASSUME KeepInv, NEW q \in Requests, request[q] # None, request[q].dir \in Dirs,
         request[q].dir \notin overlap
  PROVE  Safe(request[q].dir) /\ Busy(request[q].dir) = {q}
  BY DEF KeepInv, Safe, Busy

LEMMA MoveOldSafe ==
  ASSUME NoneIsNew, KeepInv, NEW q \in Requests, MoveOld(q), NEW e \in Dirs, e \notin overlap'
  PROVE  Safe(e)'
<1> DEFINE d == request[q].dir
<1>1. /\ request[q] \in Swaps /\ d \in Dirs /\ request[q] # None
      /\ request[q].step = "checked" /\ packages[d] # None
  BY SwapFacts DEF MoveOld, KeepInv, LinkInv
<1>2. request' = [request EXCEPT ![q] = [request[q] EXCEPT !.step = "moved",
                                           !.old = packages[d]]]
  BY <1>1 DEF MoveOld, KeepInv, LinkInv, BaseInv, TypeOK
<1>3. request'[q].dir = d /\ request'[q].old = packages[d]
  BY <1>1, <1>2 DEF KeepInv, LinkInv, BaseInv, TypeOK, Swaps
<1>4. \A x \in Requests \ {q} : request'[x] = request[x]
  BY <1>2 DEF KeepInv, LinkInv, BaseInv, TypeOK
<1>5. /\ revisions' = revisions /\ purge' = purge
      /\ written' = written /\ lost' = lost /\ overlap' = overlap
      /\ packages'[e] = IF e = d THEN None ELSE packages[e]
  BY <1>1 DEF MoveOld, store, ghost, KeepInv, LinkInv, BaseInv, TypeOK
<1>6. request' \in [Requests -> Swaps \cup {None}]
  BY MoveOldBase DEF KeepInv, LinkInv, BaseInv, TypeOK
<1>7. CASE e = d
  <2>1. Safe(d) /\ Busy(d) = {q}
    BY <1>1, <1>5, <1>7, SoleRequest
  <2>2. request'[q] # None
    <3>1. packages[d] \in Contents
      BY <1>1 DEF KeepInv, LinkInv, BaseInv, TypeOK
    <3>2. [request[q] EXCEPT !.step = "moved", !.old = packages[d]] \in Swaps
      BY <1>1, <3>1 DEF Swaps
    <3>3. request'[q] \in Swaps
      BY <1>2, <3>2 DEF KeepInv, LinkInv, BaseInv, TypeOK
    <3> QED
      BY <3>3 DEF NoneIsNew
  <2>3. Busy(e)' = {q}
    BY <1>1, <1>3, <1>4, <1>7, <2>1, <2>2 DEF Busy
  <2>4. request[q].old # Original
    BY <1>1 DEF KeepInv, LinkInv, BaseInv, SwapsHoldOld, NoneIsNew, Contents
  <2>5. Original \in revisions[d] \/ packages[d] = Original
    BY <1>1, <2>1, <2>4 DEF Safe, Kept
  <2>6. Original \in revisions'[d] \/ request'[q].old = Original
    BY <1>3, <1>5, <2>5
  <2> HIDE DEF d
  <2>7. /\ \A p, x \in Busy(e)' : p = x
        /\ \A x \in Busy(e)' : Original \in revisions'[e] \/ request'[x].old = Original
        /\ Kept(e)'
    BY <1>7, <2>3, <2>6 DEF Kept
  <2> QED
    BY <2>7 DEF Safe
<1>8. CASE e # d
  <2>1. Safe(e)
    BY <1>5 DEF KeepInv
  <2>2. Busy(e)' = Busy(e) /\ \A x \in Busy(e) : request'[x] = request[x]
    BY <1>1, <1>3, <1>4, <1>6, <1>8, OtherRequests
  <2> QED
    BY <1>5, <1>8, <2>1, <2>2, SafeFrame
<1> QED
  BY <1>7, <1>8

LEMMA InstallSafe ==
  ASSUME NoneIsNew, KeepInv, NEW q \in Requests, Install(q), NEW e \in Dirs, e \notin overlap'
  PROVE  Safe(e)'
<1> DEFINE d == request[q].dir
<1>1. /\ request[q] \in Swaps /\ d \in Dirs /\ request[q] # None
      /\ request[q].step = "moved" /\ packages[d] = None
  BY SwapFacts DEF Install, KeepInv, LinkInv
<1>2. request' = [request EXCEPT ![q] = [request[q] EXCEPT !.step = "installed"]]
  BY <1>1 DEF Install, KeepInv, LinkInv, BaseInv, TypeOK
<1>3. request'[q].dir = d /\ request'[q].old = request[q].old
  BY <1>1, <1>2 DEF KeepInv, LinkInv, BaseInv, TypeOK, Swaps
<1>4. \A x \in Requests \ {q} : request'[x] = request[x]
  BY <1>2 DEF KeepInv, LinkInv, BaseInv, TypeOK
<1>5. /\ revisions' = revisions /\ purge' = purge
      /\ written' = written /\ lost' = lost /\ overlap' = overlap
      /\ e # d => packages'[e] = packages[e]
  BY <1>1 DEF Install, store, ghost, KeepInv, LinkInv, BaseInv, TypeOK
<1>6. request' \in [Requests -> Swaps \cup {None}]
  BY InstallBase DEF KeepInv, LinkInv, BaseInv, TypeOK
<1>7. CASE e = d
  <2>1. Safe(d) /\ Busy(d) = {q}
    BY <1>1, <1>5, <1>7, SoleRequest
  <2>2. [request[q] EXCEPT !.step = "installed"] \in Swaps
    BY <1>1 DEF Swaps
  <2>3. request'[q] # None
    BY <1>2, <2>2 DEF KeepInv, LinkInv, BaseInv, TypeOK, NoneIsNew
  <2>4. Busy(e)' = {q}
    BY <1>1, <1>3, <1>4, <1>7, <2>1, <2>3 DEF Busy
  <2>5. Original \in revisions'[d] \/ request'[q].old = Original
    BY <1>1, <1>3, <1>5, <2>1 DEF Safe
  <2> HIDE DEF d
  <2>6. /\ \A p, x \in Busy(e)' : p = x
        /\ \A x \in Busy(e)' : Original \in revisions'[e] \/ request'[x].old = Original
        /\ Kept(e)'
    BY <1>7, <2>4, <2>5 DEF Kept
  <2> QED
    BY <2>6 DEF Safe
<1>8. CASE e # d
  <2>1. Safe(e)
    BY <1>5 DEF KeepInv
  <2>2. Busy(e)' = Busy(e) /\ \A x \in Busy(e) : request'[x] = request[x]
    BY <1>1, <1>3, <1>4, <1>6, <1>8, OtherRequests
  <2> QED
    BY <1>5, <1>8, <2>1, <2>2, SafeFrame
<1> QED
  BY <1>7, <1>8

(* A request that ends leaves the original active or a revision.           *)
LEMMA EndSafe ==
  ASSUME NoneIsNew, KeepInv, NEW q \in Requests, request[q] # None, request[q].dir \in Dirs,
         request' = [request EXCEPT ![q] = None], purge' = purge,
         written' = written, lost \subseteq lost', overlap' = overlap,
         NEW e \in Dirs, e \notin overlap',
         e # request[q].dir => packages'[e] = packages[e] /\ revisions'[e] = revisions[e],
         e = request[q].dir => \/ packages'[e] = Original
                               \/ Original \in revisions'[e]
                               \/ /\ packages'[e] = packages[e] /\ revisions'[e] = revisions[e]
                                  /\ request[q].old = None
  PROVE  Safe(e)'
<1> DEFINE d == request[q].dir
<1>1. /\ \A x \in Requests \ {q} : request'[x] = request[x]
      /\ request'[q] = None /\ request' \in [Requests -> Swaps \cup {None}]
  BY DEF KeepInv, LinkInv, BaseInv, TypeOK
<1>2. CASE e # d
  <2>1. Safe(e)
    BY DEF KeepInv
  <2>2. Busy(e)' = Busy(e) /\ \A x \in Busy(e) : request'[x] = request[x]
    BY <1>1, <1>2, OtherRequests
  <2> QED
    BY <1>2, <2>1, <2>2, SafeFrame
<1>3. CASE e = d
  <2>1. Safe(e) /\ Busy(e) = {q}
    BY <1>3, SoleRequest
  <2>2. Busy(e)' = {}
    BY <1>1, <2>1 DEF Busy
  <2>3. CASE packages'[e] = Original \/ Original \in revisions'[e]
    BY <2>2, <2>3 DEF Safe, Kept
  <2>4. CASE /\ packages'[e] = packages[e] /\ revisions'[e] = revisions[e]
             /\ request[q].old = None
    <3>1. Kept(e) => Kept(e)'
      BY <2>1, <2>4 DEF Kept, NoneIsNew, Contents
    <3>2. Took(e)' = Took(e)
      BY DEF Took
    <3> QED
      BY <2>1, <2>2, <2>4, <3>1, <3>2 DEF Safe
  <2> QED
    BY <1>3, <2>3, <2>4
<1> QED
  BY <1>2, <1>3

LEMMA FailApplySafe ==
  ASSUME NoneIsNew, KeepInv, NEW q \in Requests, FailApply(q), NEW e \in Dirs, e \notin overlap'
  PROVE  Safe(e)'
<1> DEFINE d == request[q].dir
<1>1. request[q] # None /\ d \in Dirs
  BY SwapFacts DEF FailApply, KeepInv, LinkInv
<1>2. /\ request' = [request EXCEPT ![q] = None] /\ purge' = purge
      /\ written' = written /\ overlap' = overlap
  BY DEF FailApply, RollBack
<1>3. ASSUME request[q].step # "checked"
      PROVE  /\ lost \subseteq lost'
             /\ \A x \in Dirs \ {d} : packages'[x] = packages[x] /\ revisions'[x] = revisions[x]
             /\ \/ packages'[d] = request[q].old /\ revisions'[d] = revisions[d]
                \/ revisions'[d] = revisions[d] \cup {request[q].old}
  <2> DEFINE old == request[q].old
  <2>1. RollBack(q)
    BY <1>3 DEF FailApply
  <2>2. PICK active \in Contents \cup {None}, revised \in BOOLEAN :
          /\ packages' = [packages EXCEPT ![d] = active]
          /\ revisions' = [revisions EXCEPT ![d] = IF revised THEN @ \cup {old} ELSE @]
          /\ lost' = IF active \in {None, Remains} THEN lost \cup {<<"package", d>>} ELSE lost
          /\ ~revised => active = old
    BY <1>1, <1>3, <2>1, RollBackFacts DEF KeepInv, LinkInv
  <2> HIDE DEF old
  <2>3. /\ lost \subseteq lost'
        /\ \A x \in Dirs \ {d} : packages'[x] = packages[x] /\ revisions'[x] = revisions[x]
    BY <1>1, <2>2 DEF KeepInv, LinkInv, BaseInv, TypeOK
  <2>4. \/ packages'[d] = old /\ revisions'[d] = revisions[d]
        \/ revisions'[d] = revisions[d] \cup {old}
    BY <1>1, <2>2 DEF KeepInv, LinkInv, BaseInv, TypeOK
  <2> QED
    BY <2>3, <2>4 DEF old
<1>4. request[q].step = "checked" => packages' = packages /\ revisions' = revisions /\ lost' = lost
  BY DEF FailApply
<1>5. lost \subseteq lost' /\ (e # d => packages'[e] = packages[e] /\ revisions'[e] = revisions[e])
  BY <1>3, <1>4
<1>6. ASSUME e = d
      PROVE  \/ packages'[e] = Original
             \/ Original \in revisions'[e]
             \/ /\ packages'[e] = packages[e] /\ revisions'[e] = revisions[e]
                /\ request[q].old = None
  <2>1. CASE request[q].step = "checked"
    BY <1>1, <1>4, <2>1 DEF KeepInv, LinkInv, BaseInv, SwapsHoldOld
  <2>2. CASE request[q].step # "checked"
    <3>1. Safe(d) /\ Busy(d) = {q}
      BY <1>1, <1>2, <1>6, SoleRequest
    <3>2. Original \in revisions[d] \/ request[q].old = Original
      BY <2>2, <3>1 DEF Safe
    <3> QED
      BY <1>3, <1>6, <2>2, <3>2
  <2> QED
    BY <2>1, <2>2
<1> HIDE DEF d
<1>7. d = request[q].dir
  BY DEF d
<1> QED
  BY <1>1, <1>2, <1>5, <1>6, <1>7, EndSafe

LEMMA MarkAppliedSafe ==
  ASSUME NoneIsNew, KeepInv, NEW q \in Requests, MarkApplied(q), NEW e \in Dirs, e \notin overlap'
  PROVE  Safe(e)'
<1> DEFINE d == request[q].dir
<1>1. request[q] # None /\ d \in Dirs /\ request[q].step = "installed"
  BY SwapFacts DEF MarkApplied, KeepInv, LinkInv
<1>2. /\ request' = [request EXCEPT ![q] = None] /\ purge' = purge
      /\ written' = written /\ lost' = lost /\ overlap' = overlap /\ packages' = packages
      /\ revisions' = [revisions EXCEPT ![d] = @ \cup {request[q].old}]
  BY DEF MarkApplied, ghost
<1>3. e # d => revisions'[e] = revisions[e]
  BY <1>1, <1>2 DEF KeepInv, LinkInv, BaseInv, TypeOK
<1>4. ASSUME e = d PROVE Original \in revisions'[e]
  <2>1. Safe(d) /\ Busy(d) = {q}
    BY <1>1, <1>2, <1>4, SoleRequest
  <2>2. Original \in revisions[d] \/ request[q].old = Original
    BY <1>1, <2>1 DEF Safe
  <2>3. revisions'[d] = revisions[d] \cup {request[q].old}
    BY <1>1, <1>2 DEF KeepInv, LinkInv, BaseInv, TypeOK
  <2> QED
    BY <1>4, <2>2, <2>3
<1> HIDE DEF d
<1>5. d = request[q].dir
  BY DEF d
<1> QED
  BY <1>1, <1>2, <1>3, <1>4, <1>5, EndSafe

(* Every step keeps the originals.                                         *)
LEMMA KeepStep == NoneIsNew /\ KeepInv /\ [Next]_vars => KeepInv'
<1> SUFFICES ASSUME NoneIsNew, KeepInv, [Next]_vars, NEW e \in Dirs, e \notin overlap'
             PROVE  Safe(e)'
  BY LinkStep DEF KeepInv
<1>1. CASE \/ \E r \in Runs : Scan(r) \/ Persist(r)
           \/ \E k \in Keys : Trash(k) \/ Restore(k)
           \/ \E j \in Jobs, k \in Keys : FinishReproduction(j, k)
           \/ UNCHANGED vars
  <2>1. /\ packages' = packages /\ revisions' = revisions /\ request' = request
        /\ purge' = purge /\ written' = written /\ lost' = lost /\ overlap' = overlap
    BY <1>1 DEF Scan, Persist, Trash, Restore, OnlyRow, FinishReproduction, vars, tree, ghost
  <2> QED
    BY <2>1, QuietSafe
<1>2. ASSUME NEW d \in Dirs, StagesWrite(d) PROVE Safe(e)'
  BY <1>2, StagesWriteSafe
<1>3. ASSUME NEW expired \in SUBSET Keys, BeginPurge(expired) PROVE Safe(e)'
  BY <1>3, BeginPurgeSafe
<1>4. ASSUME NEW q \in Requests, NEW j \in Jobs, BeginApply(q, j) PROVE Safe(e)'
  BY <1>4, BeginApplySafe
<1>5. ASSUME NEW q \in Requests, MoveOld(q) \/ Install(q) \/ FailApply(q) \/ MarkApplied(q)
      PROVE  Safe(e)'
  BY <1>5, MoveOldSafe, InstallSafe, FailApplySafe, MarkAppliedSafe
<1> QED
  BY <1>1, <1>2, <1>3, <1>4, <1>5, AbortPurgeSafe, CommitPurgeSafe, CrashSafe DEF Next

(***************************************************************************)
(* The package an audit wrote is destroyed by a purge alone: whatever the  *)
(* applications of drafts, their failures and the failures of undoing      *)
(* them, the purges begun and aborted and the crashes, it is active, a     *)
(* revision, or put aside, unless two applications ran on its directory at *)
(* once.                                                                   *)
(***************************************************************************)
THEOREM StoreKeepsOriginal ==
  ASSUME NoneIsNew
  PROVE  Spec => []OriginalKept
<1>1. KeepInv => OriginalKept
  BY DEF KeepInv, LinkInv, BaseInv, TypeOK, Safe, Kept, Took, OriginalKept
<1>2. Init => KeepInv
  <2>1. ASSUME Init PROVE LinkInv
    BY <2>1, InitBase DEF LinkInv, Init, PurgeHoldsPlaces, LinksAreCovered
  <2>2. ASSUME Init, NEW d \in Dirs PROVE Safe(d)
    BY <2>2 DEF Init, Safe, Busy
  <2> QED
    BY <2>1, <2>2 DEF KeepInv
<1>3. KeepInv /\ [Next]_vars => KeepInv'
  BY KeepStep
<1> QED
  BY <1>1, <1>2, <1>3, PTL DEF Spec
=============================================================================
