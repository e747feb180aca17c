-------------------------- MODULE WorldFilesProofs --------------------------
(***************************************************************************)
(* What PZAdmin promises about a world's files, proved of WorldFiles for   *)
(* any number of jobs, worlds, archives, failing calls and crashes: one    *)
(* job at a time owns a server's files, every variable keeps its type,     *)
(* what is read is one world, a restore replaces the world or puts it      *)
(* back, and nothing leaves the disk that was not meant to.                *)
(*                                                                         *)
(* Most of it holds while operators wait for the answer to a request       *)
(* before they start a server (Careful): the code refuses a start only     *)
(* while a copy is being made, and the game that a start opens the world   *)
(* with writes to it whatever PZAdmin is doing.                            *)
(***************************************************************************)
EXTENDS WorldFiles, FiniteSetTheorems, WellFoundedInduction, TLAPS

\* A backup adds one archive and changes none, and may replace the last one.
LEMMA Renamed ==
    ASSUME NEW j \in Jobs, BackupRenames(j)
    PROVE  /\ made' = made + 1
           /\ made' \in DOMAIN archives'
           /\ archives'[made'] = [p \in Parts |-> Packed(j, p)]
           /\ \A i \in DOMAIN archives' \ {made'} :
                i \in DOMAIN archives /\ archives'[i] = archives[i]
<1>1. PICK replaced \in {{}, {made}} :
        archives' = [i \in (DOMAIN archives \ replaced) \cup {made'} |->
                       IF i = made' THEN [p \in Parts |-> Packed(j, p)] ELSE archives[i]]
  BY DEF BackupRenames
<1>2. made' = made + 1
  BY DEF BackupRenames
<1>3. made' \in DOMAIN archives' /\ archives'[made'] = [p \in Parts |-> Packed(j, p)]
  BY <1>1
<1>4. ASSUME NEW i \in DOMAIN archives', i # made'
      PROVE  i \in DOMAIN archives /\ archives'[i] = archives[i]
  BY <1>1, <1>4
<1> QED
  BY <1>2, <1>3, <1>4

\* What FilesHaveOneOwner rests on: every job is at some step, and the lock
\* names a job or is free.
Owners ==
    /\ pc \in [Jobs -> Steps]
    /\ lock \in Jobs \cup {"free"}
    /\ FilesHaveOneOwner

LEMMA OwnersInitially == Init => Owners
<1> SUFFICES ASSUME Init PROVE Owners
  OBVIOUS
<1> USE WorldFilesAssumption DEF Init
<1>1. \A j \in Jobs : pc[j] = "idle"
  OBVIOUS
<1>2. pc \in [Jobs -> Steps] /\ lock \in Jobs \cup {"free"}
  BY DEF Steps
<1>3. FilesHaveOneOwner
  BY <1>1 DEF FilesHaveOneOwner, Locked, RestoreSteps, SwapSteps, UndoSteps, Copying
<1> QED
  BY <1>2, <1>3 DEF Owners

\* A job that keeps the lock, or lacks it before and after, changes nothing
\* for the others as long as it does not begin or finish a copy.
LEMMA StepWithinLock ==
    ASSUME Owners, NEW j \in Jobs, NEW to \in Steps,
           pc' = [pc EXCEPT ![j] = to],
           pc[j] \in Locked <=> to \in Locked,
           pc[j] \in {"d.copy", "d.finish"} <=> to \in {"d.copy", "d.finish"},
           lock' = lock, copying' = copying
    PROVE  Owners'
<1> USE DEF Owners
<1>1. pc' \in [Jobs -> Steps] /\ lock' \in Jobs \cup {"free"}
  OBVIOUS
<1>2. \A k \in Jobs : /\ pc'[k] \in Locked <=> pc[k] \in Locked
                      /\ pc'[k] \in {"d.copy", "d.finish"}
                           <=> pc[k] \in {"d.copy", "d.finish"}
  OBVIOUS
<1>3. FilesHaveOneOwner'
  BY <1>2 DEF FilesHaveOneOwner
<1> QED
  BY <1>1, <1>3

\* The lock is taken while it is free.
LEMMA StepTakesLock ==
    ASSUME Owners, NEW j \in Jobs, NEW to \in Locked \cap Steps,
           pc' = [pc EXCEPT ![j] = to],
           lock = "free", lock' = j,
           copying' = IF to \in {"d.copy", "d.finish"} THEN TRUE ELSE copying
    PROVE  Owners'
<1> USE WorldFilesAssumption DEF Owners
<1>1. pc' \in [Jobs -> Steps] /\ lock' \in Jobs \cup {"free"}
  OBVIOUS
<1>2. \A k \in Jobs : pc[k] \notin Locked
  BY DEF FilesHaveOneOwner
<1>3. {"d.copy", "d.finish"} \subseteq Locked
  BY DEF Locked, Copying
<1>4. copying = FALSE \/ ~copying
  BY <1>2, <1>3 DEF FilesHaveOneOwner
<1>5. \A k \in Jobs : pc'[k] \in Locked <=> lock' = k
  BY <1>2
<1>6. copying' <=> \E k \in Jobs : pc'[k] \in {"d.copy", "d.finish"}
  BY <1>2, <1>3, <1>4
<1> QED
  BY <1>1, <1>5, <1>6 DEF FilesHaveOneOwner

\* The lock is freed by the job that holds it.
LEMMA StepFreesLock ==
    ASSUME Owners, NEW j \in Jobs, NEW to \in Steps \ Locked,
           pc[j] \in Locked \ {"d.copy", "d.finish"},
           pc' = [pc EXCEPT ![j] = to],
           lock' = "free", copying' = copying
    PROVE  Owners'
<1> USE WorldFilesAssumption DEF Owners
<1>1. pc' \in [Jobs -> Steps] /\ lock' \in Jobs \cup {"free"}
  OBVIOUS
<1>2. \A k \in Jobs : pc[k] \in Locked => k = j
  BY DEF FilesHaveOneOwner
<1>3. {"d.copy", "d.finish"} \subseteq Locked
  BY DEF Locked, Copying
<1>4. \A k \in Jobs : pc'[k] \notin Locked
  BY <1>2
<1>5. ~copying
  BY <1>2, <1>3 DEF FilesHaveOneOwner
<1> QED
  BY <1>1, <1>3, <1>4, <1>5 DEF FilesHaveOneOwner

\* Every step of every job, the game and the operators keeps the lock honest.
LEMMA OwnersStep == Owners /\ [Next]_vars => Owners'
<1> SUFFICES ASSUME Owners, [Next]_vars PROVE Owners'
  OBVIOUS
<1> DEFINE Elsewhere == UNCHANGED <<pc, lock, copying>>
<1>1. ASSUME Elsewhere PROVE Owners'
  BY <1>1 DEF Owners, FilesHaveOneOwner
<1>2. ASSUME NEW j \in Jobs, Ask(j) PROVE Owners'
  <2> DEFINE waiting == {"b.lock", "z.lock", "d.hold", "t.call"}
  <2>1. PICK to \in waiting : Goes(j, "idle", to)
    BY <1>2 DEF Ask, Goes
  <2>2. waiting \subseteq Steps \ Locked /\ "idle" \notin Locked
    BY DEF Steps, Locked, RestoreSteps, SwapSteps, UndoSteps, Copying
  <2>3. to \notin {"d.copy", "d.finish"}
    BY <2>1
  <2> QED
    BY <1>2, <2>1, <2>2, <2>3, StepWithinLock DEF Ask, Goes, shared
<1>3. ASSUME NEW j \in Jobs, JobStep(j) PROVE Owners'
  <2> USE DEF Goes, Returns, Keeps, Takes, Frees, shared
  <2> DEFINE restoring == RestoreSteps
  <2>0. /\ {"idle", "b.lock", "z.lock", "d.hold", "t.call"} \subseteq Steps \ Locked
        /\ {"b.read", "b.prune", "z.delete", "d.copy", "d.finish", "d.release"}
             \subseteq Steps \cap Locked
        /\ {"x.keep", "x.aside", "x.make", "x.open", "x.unpack", "x.commit",
            "u.drop", "u.back", "u.keep"} \subseteq Steps \cap Locked
    BY DEF Steps, Locked, RestoreSteps, SwapSteps, UndoSteps, Copying
  <2>1. CASE BackupBegins(j)
    <3>1. CASE Takes(j) /\ Goes(j, "b.lock", "b.read")
      BY <2>0, <2>1, <3>1, StepTakesLock DEF BackupBegins
    <3>2. CASE Returns(j, "b.lock") /\ UNCHANGED lock
      BY <2>0, <2>1, <3>2, StepWithinLock DEF BackupBegins
    <3> QED
      BY <2>1, <3>1, <3>2 DEF BackupBegins
  <2>2. CASE BackupRenames(j)
    BY <2>0, <2>2, StepWithinLock DEF BackupRenames
  <2>3. CASE BackupFails(j)
    BY <2>0, <2>3, StepFreesLock DEF BackupFails
  <2>4. CASE BackupPrunes(j)
    <3>1. CASE Goes(j, "b.prune", "z.lock")
      BY <2>0, <2>4, <3>1, StepFreesLock DEF BackupPrunes
    <3>2. CASE Returns(j, "b.prune")
      BY <2>0, <2>4, <3>2, StepFreesLock DEF BackupPrunes
    <3> QED
      BY <2>4, <3>1, <3>2 DEF BackupPrunes
  <2>5. CASE RestoreBegins(j)
    BY <2>0, <2>5, StepTakesLock DEF RestoreBegins
  <2>6. CASE SwapKeeps(j)
    <3>1. CASE Goes(j, "x.keep", "x.aside")
      BY <2>0, <2>6, <3>1, StepWithinLock DEF SwapKeeps
    <3>2. CASE Goes(j, "x.keep", "u.drop")
      BY <2>0, <2>6, <3>2, StepWithinLock DEF SwapKeeps
    <3> QED
      BY <2>6, <3>1, <3>2 DEF SwapKeeps, Undoes
  <2>7. CASE SwapMoves(j)
    <3>1. CASE Goes(j, "x.aside", "x.make")
      BY <2>0, <2>7, <3>1, StepWithinLock DEF SwapMoves
    <3>2. CASE Goes(j, "x.aside", "u.drop")
      BY <2>0, <2>7, <3>2, StepWithinLock DEF SwapMoves
    <3> QED
      BY <2>7, <3>1, <3>2 DEF SwapMoves, Undoes
  <2>8. CASE SwapMakes(j)
    <3>1. CASE Goes(j, "x.make", "x.keep")
      BY <2>0, <2>8, <3>1, StepWithinLock DEF SwapMakes
    <3>2. CASE Goes(j, "x.make", "x.open")
      BY <2>0, <2>8, <3>2, StepWithinLock DEF SwapMakes
    <3>3. CASE Goes(j, "x.make", "u.drop")
      BY <2>0, <2>8, <3>3, StepWithinLock DEF SwapMakes
    <3> QED
      BY <2>8, <3>1, <3>2, <3>3 DEF SwapMakes, Undoes
  <2>9. CASE RestoreOpens(j)
    <3>1. CASE Goes(j, "x.open", "x.unpack")
      BY <2>0, <2>9, <3>1, StepWithinLock DEF RestoreOpens
    <3>2. CASE Goes(j, "x.open", "u.drop")
      BY <2>0, <2>9, <3>2, StepWithinLock DEF RestoreOpens
    <3> QED
      BY <2>9, <3>1, <3>2 DEF RestoreOpens, Undoes
  <2>10. CASE RestoreUnpacked(j)
    <3>1. CASE Goes(j, "x.unpack", "x.commit")
      BY <2>0, <2>10, <3>1, StepWithinLock DEF RestoreUnpacked
    <3>2. CASE Goes(j, "x.unpack", "u.drop")
      BY <2>0, <2>10, <3>2, StepWithinLock DEF RestoreUnpacked
    <3> QED
      BY <2>10, <3>1, <3>2 DEF RestoreUnpacked, Undoes
  <2>11. CASE RestoreCommits(j)
    <3>1. CASE Elsewhere
      BY <1>1, <3>1
    <3>2. CASE Returns(j, "x.commit") /\ Frees(j)
      BY <2>0, <2>11, <3>2, StepFreesLock DEF RestoreCommits
    <3> QED
      BY <2>11, <3>1, <3>2 DEF RestoreCommits
  <2>12. CASE UndoDrops(j)
    <3>1. PICK to \in {"u.back", "u.keep"} : Goes(j, "u.drop", to)
      BY <2>12 DEF UndoDrops
    <3> QED
      BY <2>0, <2>12, <3>1, StepWithinLock, ZenonT(60) DEF UndoDrops
  <2>13. CASE UndoMovesBack(j)
    BY <2>0, <2>13, StepWithinLock DEF UndoMovesBack
  <2>14. CASE UndoKeeps(j)
    <3>1. CASE Goes(j, "u.keep", "u.drop") /\ UNCHANGED lock
      BY <2>0, <2>14, <3>1, StepWithinLock DEF UndoKeeps
    <3>2. CASE Returns(j, "u.keep") /\ Frees(j)
      BY <2>0, <2>14, <3>2, StepFreesLock DEF UndoKeeps
    <3> QED
      BY <2>14, <3>1, <3>2 DEF UndoKeeps
  <2>15. CASE UndoStops(j)
    <3>1. pc[j] \in Locked \ {"d.copy", "d.finish"}
      BY <2>0, <2>15 DEF UndoStops, UndoSteps
    <3> QED
      BY <2>0, <2>15, <3>1, StepFreesLock DEF UndoStops
  <2>16. CASE ResetMoves(j)
    <3>1. CASE Takes(j) /\ Goes(j, "z.lock", "z.delete")
      BY <2>0, <2>16, <3>1, StepTakesLock DEF ResetMoves
    <3>2. CASE Returns(j, "z.lock") /\ UNCHANGED lock
      BY <2>0, <2>16, <3>2, StepWithinLock DEF ResetMoves
    <3> QED
      BY <2>16, <3>1, <3>2 DEF ResetMoves
  <2>17. CASE ResetDeletes(j)
    BY <2>0, <2>17, StepFreesLock DEF ResetDeletes
  <2>18. CASE DuplicateHolds(j)
    <3>1. CASE Takes(j) /\ copying' = TRUE /\ Goes(j, "d.hold", "d.copy")
      BY <2>0, <3>1, StepTakesLock
    <3>2. CASE Returns(j, "d.hold") /\ UNCHANGED <<lock, copying>>
      BY <2>0, <3>2, StepWithinLock
    <3> QED
      BY <2>18, <3>1, <3>2 DEF DuplicateHolds
  <2>19. CASE DuplicateCopied(j)
    BY <2>0, <2>19, StepWithinLock DEF DuplicateCopied
  <2>20. CASE DuplicateFinishes(j)
    <3>1. /\ pc' \in [Jobs -> Steps] /\ lock' \in Jobs \cup {"free"}
          /\ \A k \in Jobs : pc'[k] \in Locked <=> lock' = k
      BY <2>0, <2>20 DEF DuplicateFinishes, Owners, FilesHaveOneOwner
    <3>2. pc'[j] = "d.release" /\ lock' = j
      BY <2>0, <2>20 DEF DuplicateFinishes, Owners, FilesHaveOneOwner
    <3>3. \A k \in Jobs : pc'[k] \notin {"d.copy", "d.finish"}
      BY <2>0, <3>1, <3>2
    <3> QED
      BY <2>20, <3>1, <3>3 DEF DuplicateFinishes, Owners, FilesHaveOneOwner
  <2>21. CASE DuplicateReleases(j)
    BY <2>0, <2>21, StepFreesLock DEF DuplicateReleases
  <2>22. CASE StartCalls(j)
    BY <2>0, <2>22, StepWithinLock DEF StartCalls
  <2> QED
    BY <1>3, <2>1, <2>2, <2>3, <2>4, <2>5, <2>6, <2>7, <2>8, <2>9, <2>10,
       <2>11, <2>12, <2>13, <2>14, <2>15, <2>16, <2>17, <2>18, <2>19, <2>20,
       <2>21, <2>22
    DEF JobStep
<1>4. CASE PZAdminDies
  <2>1. "idle" \in Steps \ Locked
    BY DEF Steps, Locked, RestoreSteps, SwapSteps, UndoSteps, Copying
  <2>2. pc' = [k \in Jobs |-> "idle"] /\ lock' = "free" /\ copying' = FALSE
    BY <1>4 DEF PZAdminDies
  <2> QED
    BY <2>1, <2>2, WorldFilesAssumption DEF Owners, FilesHaveOneOwner
<1>5. CASE DeleteArchive \/ GameLoads \/ GameSaves \/ GameStops \/ UNCHANGED vars
  BY <1>1, <1>5 DEF DeleteArchive, GameLoads, GameSaves, GameStops, vars, shared
<1> QED
  BY <1>2, <1>3, <1>4, <1>5 DEF Next

\* Backups, restores, resets and copies of one server exclude each other, the
\* mark is always taken back, and a server counts as being copied exactly
\* while a copy reads it: for any number of jobs, worlds and archives, crashes
\* and failing calls included.
THEOREM OneOwner == Spec => []FilesHaveOneOwner
<1>1. Init => Owners
  BY OwnersInitially
<1>2. Owners /\ [Next]_vars => Owners'
  BY OwnersStep
<1>3. Owners => FilesHaveOneOwner
  BY DEF Owners
<1> QED
  BY <1>1, <1>2, <1>3, PTL DEF Spec

---------------------------------------------------------------------------
(***************************************************************************)
(* Types, with what each job is at by what it was asked to do.             *)
(***************************************************************************)
Fits(at, l) ==
    /\ at = "idle" => l = Nothing
    /\ at \in RestoreSteps => l.what = "restore"
    /\ at \in {"b.lock", "b.read", "b.prune"} => l.what \in {"backup", "reset-backup"}
    /\ at \in {"z.lock", "z.delete"} => l.what \in {"reset", "reset-backup"}
    /\ at \in Copying \cup {"d.hold"} => l.what = "duplicate"
    /\ at = "t.call" => l.what = "start"
Tasks == \A j \in Jobs : Fits(pc[j], my[j])

TInv == TypeOK /\ Owners /\ Tasks

LEMMA Contents == Worlds \cup {"none", "empty", "half", "mixed"} \subseteq Content
BY DEF Content

LEMMA NothingLocals == Nothing \in Locals
BY WorldFilesAssumption DEF Nothing, Locals, NoFolders, Content, Parts

LEMMA FirstPart == \A targets : First(targets) \in Parts
BY DEF First, Parts

\* What a job may do to its locals.
LEMMA LocalsChange ==
    ASSUME NEW l \in Locals
    PROVE  /\ \A p \in Parts : [l EXCEPT !.at = p] \in Locals
           /\ \A ps \in SUBSET Parts : [l EXCEPT !.moved = ps] \in Locals
           /\ \A ps \in SUBSET Parts : [l EXCEPT !.kept = ps] \in Locals
BY DEF Locals

LEMMA MyChange ==
    ASSUME TypeOK, NEW j \in Jobs, NEW l \in Locals, my' = [my EXCEPT ![j] = l]
    PROVE  my' \in [Jobs -> Locals] /\ my'[j] = l /\ \A k \in Jobs : k # j => my'[k] = my[k]
BY DEF TypeOK

LEMMA ReturnsMine ==
    ASSUME TypeOK, NEW j \in Jobs, NEW from, Returns(j, from)
    PROVE  /\ my' \in [Jobs -> Locals] /\ my'[j] = Nothing /\ pc[j] = from /\ pc'[j] = "idle"
           /\ \A k \in Jobs : k # j => my'[k] = my[k] /\ pc'[k] = pc[k]
BY NothingLocals, MyChange DEF Returns, Goes, TypeOK

LEMMA GoesTo ==
    ASSUME TypeOK, NEW j \in Jobs, NEW from, NEW to, Goes(j, from, to)
    PROVE  /\ pc[j] = from /\ pc'[j] = to /\ \A k \in Jobs : k # j => pc'[k] = pc[k]
BY DEF Goes, TypeOK

LEMMA UndoesMine ==
    ASSUME TypeOK, NEW j \in Jobs, NEW from, Undoes(j, from)
    PROVE  LET l == [my[j] EXCEPT !.at = First(my[j].targets), !.id = 0, !.open = NoFolders]
           IN  l \in Locals /\ my' = [my EXCEPT ![j] = l]
<1>1. my[j] \in Locals /\ First(my[j].targets) \in Parts
  BY FirstPart DEF TypeOK
<1>2. NoFolders \in [Parts -> Content]
  BY Contents DEF NoFolders
<1>3. 0 \in 0..MaxArchives
  BY WorldFilesAssumption
<1> DEFINE l == [my[j] EXCEPT !.at = First(my[j].targets), !.id = 0, !.open = NoFolders]
<1>4. l \in Locals
  BY <1>1, <1>2, <1>3 DEF Locals
<1>5. my' = [my EXCEPT ![j] = l]
  BY DEF Undoes, TypeOK
<1> QED
  BY <1>4, <1>5

LEMMA Writes ==
    ASSUME TypeOK, NEW d \in [Parts -> Content], Write(d)
    PROVE  dir' \in [Parts -> Content] /\ torn' \subseteq Jobs /\ live' \subseteq Jobs
BY DEF Write, TypeOK

LEMMA FaultsType ==
    ASSUME TypeOK, Fails \/ Works
    PROVE  faults' \in 0..MaxFaults
BY WorldFilesAssumption DEF TypeOK, Fails, Works

LEMMA OneFolder ==
    ASSUME NEW d \in [Parts -> Content], NEW p, NEW c \in Content
    PROVE  [d EXCEPT ![p] = c] \in [Parts -> Content]
OBVIOUS

\* One job moves on and its locals fit the step it comes to.
LEMMA OneFits ==
    ASSUME TInv, NEW j \in Jobs, Fits(pc'[j], my'[j]),
           \A k \in Jobs : k # j => my'[k] = my[k] /\ pc'[k] = pc[k]
    PROVE  Tasks'
BY DEF TInv, Tasks

LEMMA IdleFits == Fits("idle", Nothing)
BY DEF Fits, RestoreSteps, SwapSteps, UndoSteps, Copying

LEMMA ReturnsFits ==
    ASSUME TInv, NEW j \in Jobs, NEW from, Returns(j, from)
    PROVE  my' \in [Jobs -> Locals] /\ Tasks'
BY ReturnsMine, IdleFits, OneFits DEF TInv

\* A job goes on, and keeps what it was asked to do.
LEMMA GoesFits ==
    ASSUME TInv, NEW j \in Jobs, NEW from, NEW to, Goes(j, from, to),
           NEW l \in Locals, my' = [my EXCEPT ![j] = l], l.what = my[j].what,
           Fits(from, my[j]) => Fits(to, l)
    PROVE  my' \in [Jobs -> Locals] /\ Tasks'
<1>1. my' \in [Jobs -> Locals] /\ my'[j] = l /\ \A k \in Jobs : k # j => my'[k] = my[k]
  BY MyChange DEF TInv
<1>2. pc[j] = from /\ pc'[j] = to /\ \A k \in Jobs : k # j => pc'[k] = pc[k]
  BY GoesTo DEF TInv
<1>3. Fits(pc'[j], my'[j])
  BY <1>1, <1>2 DEF TInv, Tasks
<1> QED
  BY <1>1, <1>2, <1>3, OneFits

LEMMA KeepsFits ==
    ASSUME TInv, NEW j \in Jobs, NEW from, NEW to, Goes(j, from, to), Keeps(j),
           Fits(from, my[j]) => Fits(to, my[j])
    PROVE  my' \in [Jobs -> Locals] /\ Tasks'
<1>1. my' = my /\ my \in [Jobs -> Locals]
  BY DEF Keeps, TInv, TypeOK
<1> QED
  BY <1>1, GoesTo, OneFits DEF TInv, Tasks

\* From one step of a restore to another, of a backup, of a reset, of a copy.
LEMMA SameTask ==
    ASSUME NEW from, NEW to, NEW l, NEW m, m.what = l.what,
           \/ from \in RestoreSteps /\ to \in RestoreSteps
           \/ from \in {"b.lock", "b.read"} /\ to \in {"b.read", "b.prune"}
           \/ from = "z.lock" /\ to = "z.delete"
           \/ from \in Copying \cup {"d.hold"} /\ to \in Copying
    PROVE  Fits(from, l) => Fits(to, m)
BY DEF Fits, RestoreSteps, SwapSteps, UndoSteps, Copying

LEMMA RestoreGoes ==
    ASSUME TInv, NEW j \in Jobs, NEW from \in RestoreSteps, NEW to \in RestoreSteps,
           Goes(j, from, to), NEW l \in Locals, my' = [my EXCEPT ![j] = l], l.what = my[j].what
    PROVE  my' \in [Jobs -> Locals] /\ Tasks'
<1>1. Fits(from, my[j]) => Fits(to, l)
  BY SameTask
<1> QED
  BY <1>1, GoesFits

LEMMA UndoesFits ==
    ASSUME TInv, NEW j \in Jobs, NEW from \in RestoreSteps, Undoes(j, from)
    PROVE  my' \in [Jobs -> Locals] /\ Tasks'
<1> DEFINE l == [my[j] EXCEPT !.at = First(my[j].targets), !.id = 0, !.open = NoFolders]
<1>1. l \in Locals /\ my' = [my EXCEPT ![j] = l] /\ my[j] \in Locals
  BY UndoesMine DEF TInv, TypeOK
<1>2. l.what = my[j].what
  BY <1>1 DEF Locals
<1>3. Goes(j, from, "u.drop") /\ "u.drop" \in RestoreSteps
  BY DEF Undoes, RestoreSteps, UndoSteps
<1>4. Fits(from, my[j]) => Fits("u.drop", l)
  BY <1>2, <1>3, SameTask
<1> QED
  BY <1>1, <1>2, <1>3, <1>4, GoesFits

LEMMA TypeInitially == Init => TInv
<1> SUFFICES ASSUME Init PROVE TInv
  OBVIOUS
<1>1. Owners
  BY OwnersInitially
<1>2. Tasks
  BY IdleFits DEF Init, Tasks
<1>3. NoFolders \in [Parts -> Content] /\ dir \in [Parts -> Content]
  BY Contents DEF Init, NoFolders
<1>4. /\ DOMAIN archives = {} /\ made \in 0..MaxArchives /\ faults \in 0..MaxFaults
      /\ archived \subseteq Archive /\ used \subseteq Worlds
      /\ my \in [Jobs -> Locals] /\ torn \subseteq Jobs /\ live \subseteq Jobs
  BY NothingLocals, WorldFilesAssumption DEF Init
<1>5. TypeOK
  BY <1>1, <1>3, <1>4 DEF Init, TypeOK, Owners
<1> QED
  BY <1>1, <1>2, <1>5 DEF TInv

LEMMA TypeAsk == ASSUME TInv, NEW j \in Jobs, Ask(j) PROVE TypeOK' /\ Tasks'
<1>1. PICK what \in Requests, config \in IncludeConfig, to \in Steps :
         /\ my' = [my EXCEPT ![j].what = what, ![j].config = config, ![j].layout = Detected]
         /\ Goes(j, "idle", to)
         /\ \/ what = "backup" /\ to = "b.lock"
            \/ what = "reset" /\ to = "z.lock"
            \/ what = "reset-backup" /\ to = "b.lock"
            \/ what = "duplicate" /\ to = "d.hold"
            \/ what = "start" /\ to = "t.call"
  BY DEF Ask, Steps
<1> DEFINE l == [my[j] EXCEPT !.what = what, !.config = config, !.layout = Detected]
<1>2. my[j] \in Locals /\ Detected \subseteq Parts /\ config \in BOOLEAN
  BY WorldFilesAssumption DEF TInv, TypeOK, Detected
<1>3. l \in Locals /\ l.what = what
  BY <1>2 DEF Locals
<1>4. my' = [my EXCEPT ![j] = l]
  BY <1>1 DEF TInv, TypeOK
<1> HIDE DEF l
<1>5. my' \in [Jobs -> Locals] /\ my'[j] = l /\ \A k \in Jobs : k # j => my'[k] = my[k]
  BY <1>3, <1>4, MyChange DEF TInv
<1>6. pc'[j] = to /\ \A k \in Jobs : k # j => pc'[k] = pc[k]
  BY <1>1, GoesTo DEF TInv
<1>7. Fits(to, l)
  BY <1>1, <1>3 DEF Fits, RestoreSteps, SwapSteps, UndoSteps, Copying
<1>8. Tasks'
  BY <1>5, <1>6, <1>7, OneFits
<1>9. pc' \in [Jobs -> Steps]
  BY <1>1 DEF Goes, TInv, TypeOK
<1> QED
  BY <1>5, <1>8, <1>9 DEF Ask, files, shared, reads, history, TInv, TypeOK

LEMMA TypeBackup ==
    ASSUME TInv, Owners', NEW j \in Jobs,
           BackupBegins(j) \/ BackupRenames(j) \/ BackupFails(j) \/ BackupPrunes(j)
    PROVE  TypeOK' /\ Tasks'
<1> USE DEF TypeOK
<1>0. TypeOK /\ pc' \in [Jobs -> Steps] /\ lock' \in Jobs \cup {"free"}
  BY DEF TInv, Owners
<1>1. CASE BackupBegins(j)
  <2>1. my' \in [Jobs -> Locals] /\ Tasks'
    <3>1. CASE Goes(j, "b.lock", "b.read") /\ Keeps(j)
      BY <3>1, KeepsFits, SameTask
    <3>2. CASE Returns(j, "b.lock")
      BY <3>2, ReturnsFits
    <3> QED
      BY <1>1, <3>1, <3>2 DEF BackupBegins
  <2>2. torn' \subseteq Jobs /\ live' \subseteq Jobs /\ partial' \in BOOLEAN
    BY <1>0, <1>1 DEF BackupBegins, StartsReading, reads
  <2> QED
    BY <1>0, <1>1, <2>1, <2>2 DEF BackupBegins, files, history
<1>2. CASE BackupRenames(j)
  <2>1. my' \in [Jobs -> Locals] /\ Tasks'
    BY <1>2, KeepsFits, SameTask DEF BackupRenames
  <2>2. [p \in Parts |-> Packed(j, p)] \in Archive
    <3>1. \A p \in Parts : Packed(j, p) \in Content
      BY <1>0, Contents DEF Packed
    <3> QED
      BY <3>1 DEF Archive
  <2>3. made' \in 0..MaxArchives /\ DOMAIN archives' \subseteq DOMAIN archives \cup {made'}
        /\ made' = made + 1 /\ made' \in DOMAIN archives'
    BY <1>0, <1>2, Renamed, WorldFilesAssumption DEF BackupRenames
  <2>4. DOMAIN archives' \subseteq 1..made'
    BY <1>0, <2>3
  <2>5. \A i \in DOMAIN archives' : archives'[i] \in Archive
    BY <1>0, <1>2, <2>2, Renamed
  <2>6. archived' \subseteq Archive
    BY <1>0, <1>2, <2>3, <2>5 DEF BackupRenames
  <2>7. torn' \subseteq Jobs /\ live' \subseteq Jobs
    BY <1>0, <1>2 DEF BackupRenames, StopsReading
  <2> QED
    BY <1>0, <1>2, <2>1, <2>3, <2>4, <2>5, <2>6, <2>7 DEF BackupRenames, files, shared
<1>3. CASE BackupFails(j)
  <2>1. torn' \subseteq Jobs /\ live' \subseteq Jobs
    BY <1>0, <1>3 DEF BackupFails, StopsReading
  <2> QED
    BY <1>0, <1>3, <2>1, ReturnsFits DEF BackupFails, files, history
<1>4. CASE BackupPrunes(j)
  <2>1. my' \in [Jobs -> Locals] /\ Tasks'
    <3>1. CASE Goes(j, "b.prune", "z.lock") /\ Keeps(j) /\ my[j].what = "reset-backup"
      <4>1. Fits("b.prune", my[j]) => Fits("z.lock", my[j])
        BY <3>1 DEF Fits, RestoreSteps, SwapSteps, UndoSteps, Copying
      <4> QED
        BY <3>1, <4>1, KeepsFits
    <3>2. CASE Returns(j, "b.prune")
      BY <3>2, ReturnsFits
    <3> QED
      BY <1>4, <3>1, <3>2 DEF BackupPrunes
  <2>2. /\ DOMAIN archives' \subseteq DOMAIN archives
        /\ \A i \in DOMAIN archives' : archives'[i] = archives[i]
    BY <1>4 DEF BackupPrunes, Newest
  <2> QED
    BY <1>0, <1>4, <2>1, <2>2 DEF BackupPrunes, files, reads, history
<1> QED
  BY <1>1, <1>2, <1>3, <1>4

\* The steps of a restore, in their order.
LEMMA TypeRestore ==
    ASSUME TInv, Owners', NEW j \in Jobs,
           \/ RestoreBegins(j) \/ SwapKeeps(j) \/ SwapMoves(j) \/ SwapMakes(j)
           \/ RestoreOpens(j) \/ RestoreUnpacked(j) \/ RestoreCommits(j)
    PROVE  TypeOK' /\ Tasks'
<1> USE DEF TypeOK
<1> DEFINE p == my[j].at
<1>0. /\ TypeOK /\ pc' \in [Jobs -> Steps] /\ lock' \in Jobs \cup {"free"}
      /\ my[j] \in Locals /\ my[j].at \in Parts /\ my[j].moved \subseteq Parts
      /\ my[j].kept \subseteq Parts /\ my[j].open \in [Parts -> Content]
      /\ dir \in [Parts -> Content] /\ aside \in [Parts -> Content] /\ previous \in [Parts -> Content]
  BY DEF TInv, Owners, Locals
<1>c. {"x.keep", "x.aside", "x.make", "x.open", "x.unpack", "x.commit"} \subseteq RestoreSteps
  BY DEF RestoreSteps, SwapSteps
<1>n. {"none", "empty", "half"} \subseteq Content /\ "Server" \in Parts
  BY Contents DEF Parts
<1>m. ASSUME NEW q \in Parts
      PROVE  [my[j] EXCEPT !.at = q] \in Locals /\ [my[j] EXCEPT !.at = q].what = my[j].what
  BY <1>0, LocalsChange DEF Locals
<1>1. CASE RestoreBegins(j)
  <2>1. PICK i \in DOMAIN archives :
          my' = [my EXCEPT ![j].what = "restore", ![j].id = i,
                           ![j].targets = Targets(archives[i]), ![j].at = First(Targets(archives[i])),
                           ![j].was = dir, ![j].wasAside = aside]
    BY <1>1 DEF RestoreBegins
  <2> DEFINE l == [my[j] EXCEPT !.what = "restore", !.id = i,
                           !.targets = Targets(archives[i]), !.at = First(Targets(archives[i])),
                           !.was = dir, !.wasAside = aside]
  <2>2. i \in 0..MaxArchives
    BY <1>0, WorldFilesAssumption
  <2>3. /\ "restore" \in Requests /\ Targets(archives[i]) \subseteq Parts
        /\ First(Targets(archives[i])) \in Parts
    BY <1>1, FirstPart DEF RestoreBegins, Targets, Detected
  <2>4. l \in Locals /\ l.what = "restore"
    BY <1>0, <2>2, <2>3 DEF Locals
  <2>5. my' = [my EXCEPT ![j] = l]
    BY <1>0, <2>1
  <2> HIDE DEF l
  <2>6. my' \in [Jobs -> Locals] /\ my'[j] = l /\ \A k \in Jobs : k # j => my'[k] = my[k]
    BY <1>0, <2>4, <2>5, MyChange
  <2>7. pc'[j] = "x.keep" /\ \A k \in Jobs : k # j => pc'[k] = pc[k]
    BY <1>0, <1>1, GoesTo DEF RestoreBegins
  <2>8. Fits("x.keep", l)
    BY <2>4 DEF Fits, RestoreSteps, SwapSteps, UndoSteps, Copying
  <2>9. Tasks'
    BY <2>6, <2>7, <2>8, OneFits
  <2> QED
    BY <1>0, <1>1, <2>6, <2>9 DEF RestoreBegins, files, reads, history
<1>2. CASE SwapKeeps(j)
  <2>1. my' \in [Jobs -> Locals] /\ Tasks'
    <3>1. CASE Goes(j, "x.keep", "x.aside") /\ UNCHANGED my
      BY <1>c, <3>1, KeepsFits, SameTask DEF Keeps
    <3>2. CASE Goes(j, "x.keep", "x.aside") /\ my' = [my EXCEPT ![j].kept = @ \cup {p}]
      <4> DEFINE l == [my[j] EXCEPT !.kept = my[j].kept \cup {p}]
      <4>1. l \in Locals /\ l.what = my[j].what /\ my' = [my EXCEPT ![j] = l]
        BY <1>0, <3>2 DEF Locals
      <4> HIDE DEF l
      <4> QED
        BY <1>c, <3>2, <4>1, RestoreGoes
    <3>3. CASE Undoes(j, "x.keep")
      BY <1>c, <3>3, UndoesFits
    <3> QED
      BY <1>2, <3>1, <3>2, <3>3 DEF SwapKeeps
  <2>2. /\ aside' \in [Parts -> Content] /\ previous' \in [Parts -> Content]
        /\ aside[p] \in Content
    BY <1>0, <1>2, <1>n DEF SwapKeeps
  <2>3. faults' \in 0..MaxFaults
    BY <1>0, <1>2, FaultsType DEF SwapKeeps
  <2> QED
    BY <1>0, <1>2, <2>1, <2>2, <2>3 DEF SwapKeeps, shared, reads, history
<1>3. CASE SwapMoves(j)
  <2>1. my' \in [Jobs -> Locals] /\ Tasks'
    <3>1. CASE Goes(j, "x.aside", "x.make") /\ UNCHANGED my
      BY <1>c, <3>1, KeepsFits, SameTask DEF Keeps
    <3>2. CASE Goes(j, "x.aside", "x.make") /\ my' = [my EXCEPT ![j].moved = @ \cup {p}]
      <4> DEFINE l == [my[j] EXCEPT !.moved = my[j].moved \cup {p}]
      <4>1. l \in Locals /\ l.what = my[j].what /\ my' = [my EXCEPT ![j] = l]
        BY <1>0, <3>2 DEF Locals
      <4> HIDE DEF l
      <4> QED
        BY <1>c, <3>2, <4>1, RestoreGoes
    <3>3. CASE Undoes(j, "x.aside")
      BY <1>c, <3>3, UndoesFits
    <3> QED
      BY <1>3, <3>1, <3>2, <3>3 DEF SwapMoves
  <2>2. aside' \in [Parts -> Content] /\ dir[p] \in Content
    BY <1>0, <1>3 DEF SwapMoves
  <2>3. /\ dir' \in [Parts -> Content] /\ torn' \subseteq Jobs /\ live' \subseteq Jobs
    BY <1>0, <1>3, <1>n, Writes, OneFolder DEF SwapMoves, reads
  <2>4. faults' \in 0..MaxFaults
    BY <1>0, <1>3, FaultsType DEF SwapMoves
  <2> QED
    BY <1>0, <1>3, <2>1, <2>2, <2>3, <2>4 DEF SwapMoves, shared, history
<1>4. CASE SwapMakes(j)
  <2>1. my' \in [Jobs -> Locals] /\ Tasks'
    <3>1. CASE Goes(j, "x.make", "x.keep") /\ my' = [my EXCEPT ![j].at = "Server"]
      <4>1. my' = [my EXCEPT ![j] = [my[j] EXCEPT !.at = "Server"]]
        BY <1>0, <3>1
      <4> QED
        BY <1>c, <1>m, <1>n, <3>1, <4>1, RestoreGoes
    <3>2. CASE Goes(j, "x.make", "x.open") /\ Keeps(j)
      BY <1>c, <3>2, KeepsFits, SameTask
    <3>3. CASE Undoes(j, "x.make")
      BY <1>c, <3>3, UndoesFits
    <3> QED
      BY <1>4, <3>1, <3>2, <3>3 DEF SwapMakes
  <2>2. [dir EXCEPT ![p] = IF @ = "none" THEN "empty" ELSE @] \in [Parts -> Content]
    BY <1>0, <1>n
  <2>3. /\ dir' \in [Parts -> Content] /\ torn' \subseteq Jobs /\ live' \subseteq Jobs
    BY <1>0, <1>4, <2>2, Writes DEF SwapMakes, reads
  <2>4. faults' \in 0..MaxFaults
    BY <1>0, <1>4, FaultsType DEF SwapMakes
  <2> QED
    BY <1>0, <1>4, <2>1, <2>3, <2>4 DEF SwapMakes, shared, history
<1>5. CASE RestoreOpens(j)
  <2>1. my' \in [Jobs -> Locals] /\ Tasks'
    <3>1. CASE /\ my[j].id \in DOMAIN archives /\ Goes(j, "x.open", "x.unpack")
               /\ my' = [my EXCEPT ![j].open = archives[my[j].id], ![j].id = 0]
      <4> DEFINE l == [my[j] EXCEPT !.open = archives[my[j].id], !.id = 0]
      <4>1. archives[my[j].id] \in [Parts -> Content] /\ 0 \in 0..MaxArchives
        BY <1>0, <3>1, WorldFilesAssumption DEF Archive
      <4>2. l \in Locals /\ l.what = my[j].what
        BY <1>0, <4>1 DEF Locals
      <4>3. my' = [my EXCEPT ![j] = l]
        BY <1>0, <3>1
      <4> HIDE DEF l
      <4> QED
        BY <1>c, <3>1, <4>2, <4>3, RestoreGoes
    <3>2. CASE Undoes(j, "x.open")
      BY <1>c, <3>2, UndoesFits
    <3> QED
      BY <1>5, <3>1, <3>2 DEF RestoreOpens
  <2>2. [q \in Parts |-> IF q \in my[j].targets THEN "half" ELSE dir[q]] \in [Parts -> Content]
    BY <1>0, <1>n
  <2>3. /\ dir' \in [Parts -> Content] /\ torn' \subseteq Jobs /\ live' \subseteq Jobs
    BY <1>0, <1>5, <2>2, Writes DEF RestoreOpens, reads
  <2> QED
    BY <1>0, <1>5, <2>1, <2>3 DEF RestoreOpens, shared, history
<1>6. CASE RestoreUnpacked(j)
  <2>1. my' \in [Jobs -> Locals] /\ Tasks'
    <3>1. CASE /\ Goes(j, "x.unpack", "x.commit")
               /\ my' = [my EXCEPT ![j].at = First(my[j].targets), ![j].open = NoFolders]
      <4> DEFINE l == [my[j] EXCEPT !.at = First(my[j].targets), !.open = NoFolders]
      <4>1. First(my[j].targets) \in Parts /\ NoFolders \in [Parts -> Content]
        BY <1>n, FirstPart DEF NoFolders
      <4>2. l \in Locals /\ l.what = my[j].what
        BY <1>0, <4>1 DEF Locals
      <4>3. my' = [my EXCEPT ![j] = l]
        BY <1>0, <3>1
      <4> HIDE DEF l
      <4> QED
        BY <1>c, <3>1, <4>2, <4>3, RestoreGoes
    <3>2. CASE Undoes(j, "x.unpack")
      BY <1>c, <3>2, UndoesFits
    <3> QED
      BY <1>6, <3>1, <3>2 DEF RestoreUnpacked
  <2>2. [q \in Parts |-> IF q \in my[j].targets THEN my[j].open[q] ELSE dir[q]] \in [Parts -> Content]
    BY <1>0
  <2>3. /\ dir' \in [Parts -> Content] /\ torn' \subseteq Jobs /\ live' \subseteq Jobs
    BY <1>0, <1>6, <2>2, Writes DEF RestoreUnpacked, reads
  <2>4. faults' \in 0..MaxFaults
    BY <1>0, <1>6, FaultsType DEF RestoreUnpacked
  <2> QED
    BY <1>0, <1>6, <2>1, <2>3, <2>4 DEF RestoreUnpacked, shared, history
<1>7. CASE RestoreCommits(j)
  <2>1. my' \in [Jobs -> Locals] /\ Tasks'
    <3>1. CASE my' = [my EXCEPT ![j].at = "Server"] /\ UNCHANGED pc
      <4> DEFINE l == [my[j] EXCEPT !.at = "Server"]
      <4>1. l \in Locals /\ l.what = my[j].what /\ my' = [my EXCEPT ![j] = l]
        BY <1>0, <1>m, <1>n, <3>1
      <4> HIDE DEF l
      <4>2. my' \in [Jobs -> Locals] /\ my'[j] = l /\ \A k \in Jobs : k # j => my'[k] = my[k]
        BY <1>0, <4>1, MyChange
      <4>3. pc[j] = "x.commit" /\ Fits("x.commit", l)
        BY <1>7, <1>c, <4>1, SameTask DEF TInv, Tasks, RestoreCommits
      <4> QED
        BY <3>1, <4>2, <4>3, OneFits
    <3>2. CASE Returns(j, "x.commit")
      BY <3>2, ReturnsFits
    <3> QED
      BY <1>7, <3>1, <3>2 DEF RestoreCommits
  <2>2. previous' \in [Parts -> Content] /\ faults' \in 0..MaxFaults
    BY <1>0, <1>7, <1>n, FaultsType, OneFolder DEF RestoreCommits
  <2> QED
    BY <1>0, <1>7, <2>1, <2>2 DEF RestoreCommits, reads, history
<1> QED
  BY <1>1, <1>2, <1>3, <1>4, <1>5, <1>6, <1>7

LEMMA TypeUndo ==
    ASSUME TInv, Owners', NEW j \in Jobs,
           UndoDrops(j) \/ UndoMovesBack(j) \/ UndoKeeps(j) \/ UndoStops(j)
    PROVE  TypeOK' /\ Tasks'
<1> USE DEF TypeOK
<1> DEFINE p == my[j].at
<1>0. /\ TypeOK /\ pc' \in [Jobs -> Steps] /\ lock' \in Jobs \cup {"free"}
      /\ my[j] \in Locals /\ my[j].at \in Parts
      /\ dir \in [Parts -> Content] /\ aside \in [Parts -> Content] /\ previous \in [Parts -> Content]
  BY DEF TInv, Owners, Locals
<1>c. {"u.drop", "u.back", "u.keep"} \subseteq RestoreSteps
  BY DEF RestoreSteps, UndoSteps
<1>n. "none" \in Content /\ "Server" \in Parts
  BY Contents DEF Parts
<1>1. CASE UndoDrops(j)
  <2>1. my' \in [Jobs -> Locals] /\ Tasks'
    <3>1. PICK to \in {"u.back", "u.keep"} : Goes(j, "u.drop", to)
      BY <1>1 DEF UndoDrops
    <3>2. Fits("u.drop", my[j]) => Fits(to, my[j])
      BY <1>c, <3>1, SameTask
    <3> QED
      BY <1>1, <3>1, <3>2, KeepsFits DEF UndoDrops
  <2>2. /\ dir' \in [Parts -> Content] /\ torn' \subseteq Jobs /\ live' \subseteq Jobs
    BY <1>0, <1>1, <1>n, Writes, OneFolder DEF UndoDrops, reads
  <2> QED
    BY <1>0, <1>1, <2>1, <2>2 DEF UndoDrops, shared, history
<1>2. CASE UndoMovesBack(j)
  <2>1. my' \in [Jobs -> Locals] /\ Tasks'
    <3>1. Fits("u.back", my[j]) => Fits("u.keep", my[j])
      BY <1>c, SameTask
    <3> QED
      BY <1>2, <3>1, KeepsFits DEF UndoMovesBack
  <2>2. aside[p] \in Content /\ [dir EXCEPT ![p] = aside[p]] \in [Parts -> Content]
    BY <1>0
  <2>3. /\ dir' \in [Parts -> Content] /\ torn' \subseteq Jobs /\ live' \subseteq Jobs
    BY <1>0, <1>2, <2>2, Writes DEF UndoMovesBack
  <2>4. aside' \in [Parts -> Content]
    BY <1>0, <1>2, <1>n, OneFolder DEF UndoMovesBack
  <2> QED
    BY <1>0, <1>2, <2>1, <2>3, <2>4 DEF UndoMovesBack, shared, history
<1>3. CASE UndoKeeps(j)
  <2>1. my' \in [Jobs -> Locals] /\ Tasks'
    <3>1. CASE Goes(j, "u.keep", "u.drop") /\ my' = [my EXCEPT ![j].at = "Server"]
      <4> DEFINE l == [my[j] EXCEPT !.at = "Server"]
      <4>1. l \in Locals /\ l.what = my[j].what /\ my' = [my EXCEPT ![j] = l]
        BY <1>0, <1>n, <3>1 DEF Locals
      <4> HIDE DEF l
      <4> QED
        BY <1>c, <3>1, <4>1, RestoreGoes
    <3>2. CASE Returns(j, "u.keep")
      BY <3>2, ReturnsFits
    <3> QED
      BY <1>3, <3>1, <3>2 DEF UndoKeeps
  <2>2. previous[p] \in Content
    BY <1>0
  <2>3. aside' \in [Parts -> Content] /\ previous' \in [Parts -> Content]
    BY <1>0, <1>3, <1>n, <2>2, OneFolder DEF UndoKeeps
  <2> QED
    BY <1>0, <1>3, <2>1, <2>3 DEF UndoKeeps, reads, history
<1>4. CASE UndoStops(j)
  <2>1. my' \in [Jobs -> Locals] /\ Tasks'
    BY <1>4, ReturnsFits DEF UndoStops
  <2>2. faults' \in 0..MaxFaults
    BY <1>0, <1>4, FaultsType DEF UndoStops
  <2> QED
    BY <1>0, <1>4, <2>1, <2>2 DEF UndoStops, files, reads, history
<1> QED
  BY <1>1, <1>2, <1>3, <1>4

LEMMA TypeOther ==
    ASSUME TInv, Owners', NEW j \in Jobs,
           \/ ResetMoves(j) \/ ResetDeletes(j)
           \/ DuplicateHolds(j) \/ DuplicateCopied(j) \/ DuplicateFinishes(j) \/ DuplicateReleases(j)
           \/ StartCalls(j)
    PROVE  TypeOK' /\ Tasks'
<1> USE DEF TypeOK
<1>0. /\ TypeOK /\ pc' \in [Jobs -> Steps] /\ lock' \in Jobs \cup {"free"}
      /\ dir \in [Parts -> Content]
  BY DEF TInv, Owners
<1>1. CASE ResetMoves(j)
  <2>1. my' \in [Jobs -> Locals] /\ Tasks'
    <3>1. CASE Goes(j, "z.lock", "z.delete") /\ Keeps(j)
      BY <3>1, KeepsFits, SameTask
    <3>2. CASE Returns(j, "z.lock")
      BY <3>2, ReturnsFits
    <3> QED
      BY <1>1, <3>1, <3>2 DEF ResetMoves
  <2>2. /\ dir' \in [Parts -> Content] /\ torn' \subseteq Jobs /\ live' \subseteq Jobs
    BY <1>0, <1>1, Contents, Writes, OneFolder DEF ResetMoves, reads
  <2>3. faults' \in 0..MaxFaults
    BY <1>0, <1>1, FaultsType DEF ResetMoves
  <2> QED
    BY <1>0, <1>1, <2>1, <2>2, <2>3 DEF ResetMoves, history
<1>2. CASE ResetDeletes(j)
  BY <1>0, <1>2, ReturnsFits DEF ResetDeletes, files, reads, history
<1>3. CASE DuplicateHolds(j)
  <2>1. my' \in [Jobs -> Locals] /\ Tasks'
    <3>1. CASE Goes(j, "d.hold", "d.copy") /\ Keeps(j)
      <4>1. Fits("d.hold", my[j]) => Fits("d.copy", my[j])
        BY SameTask DEF Copying
      <4> QED
        BY <3>1, <4>1, KeepsFits
    <3>2. CASE Returns(j, "d.hold")
      BY <3>2, ReturnsFits
    <3> QED
      BY <1>3, <3>1, <3>2 DEF DuplicateHolds
  <2>2. torn' \subseteq Jobs /\ live' \subseteq Jobs /\ copying' \in BOOLEAN
    BY <1>0, <1>3 DEF DuplicateHolds, StartsReading, reads
  <2> QED
    BY <1>0, <1>3, <2>1, <2>2 DEF DuplicateHolds, files, history
<1>4. CASE DuplicateCopied(j)
  <2>1. Fits("d.copy", my[j]) => Fits("d.finish", my[j])
    BY SameTask DEF Copying
  <2> QED
    BY <1>0, <1>4, <2>1, KeepsFits DEF DuplicateCopied, files, shared, reads, history
<1>5. CASE DuplicateFinishes(j)
  <2>1. Fits("d.finish", my[j]) => Fits("d.release", my[j])
    BY SameTask DEF Copying
  <2> QED
    BY <1>0, <1>5, <2>1, KeepsFits DEF DuplicateFinishes, files, reads, history
<1>6. CASE DuplicateReleases(j)
  <2>1. torn' \subseteq Jobs /\ live' \subseteq Jobs
    BY <1>0, <1>6 DEF DuplicateReleases, StopsReading
  <2> QED
    BY <1>0, <1>6, <2>1, ReturnsFits DEF DuplicateReleases, files, history
<1>7. CASE StartCalls(j)
  <2>1. live' \subseteq Jobs /\ game' \in {"down", "loading", "up"}
    BY <1>0, <1>7 DEF StartCalls
  <2> QED
    BY <1>0, <1>7, <2>1, ReturnsFits DEF StartCalls, files, shared, history
<1> QED
  BY <1>1, <1>2, <1>3, <1>4, <1>5, <1>6, <1>7

LEMMA TypeStep == TInv /\ [Next]_vars => TInv'
<1> SUFFICES ASSUME TInv, [Next]_vars PROVE TInv'
  OBVIOUS
<1>0. Owners' /\ TypeOK
  BY OwnersStep DEF TInv
<1> SUFFICES TypeOK' /\ Tasks'
  BY <1>0 DEF TInv
<1>1. ASSUME NEW j \in Jobs, Ask(j) PROVE TypeOK' /\ Tasks'
  BY <1>1, TypeAsk
<1>2. ASSUME NEW j \in Jobs, JobStep(j) PROVE TypeOK' /\ Tasks'
  BY <1>0, <1>2, TypeBackup, TypeRestore, TypeUndo, TypeOther DEF JobStep
<1>3. CASE DeleteArchive
  <2>1. /\ DOMAIN archives' \subseteq DOMAIN archives
        /\ \A i \in DOMAIN archives' : archives'[i] = archives[i]
    BY <1>3 DEF DeleteArchive
  <2> QED
    BY <1>0, <1>3, <2>1 DEF DeleteArchive, files, shared, reads, history, TypeOK, TInv, Tasks
<1>4. CASE GameLoads \/ GameStops
  BY <1>0, <1>4 DEF GameLoads, GameStops, files, shared, reads, history, TypeOK, TInv, Tasks
<1>5. CASE GameSaves
  <2>1. PICK w \in Worlds : used' = used \cup {w} /\ Write([p \in Parts |-> w])
    BY <1>5 DEF GameSaves
  <2>2. [p \in Parts |-> w] \in [Parts -> Content]
    BY Contents
  <2>3. dir' \in [Parts -> Content] /\ torn' \subseteq Jobs /\ live' \subseteq Jobs
    BY <1>0, <2>1, <2>2, Writes
  <2>4. used' \subseteq Worlds
    BY <1>0, <2>1 DEF TypeOK
  <2> QED
    BY <1>0, <1>5, <2>3, <2>4 DEF GameSaves, shared, TypeOK, TInv, Tasks
<1>6. CASE PZAdminDies
  <2>1. my' \in [Jobs -> Locals] /\ Tasks'
    BY <1>6, IdleFits, NothingLocals DEF PZAdminDies, Tasks
  <2>2. faults' \in 0..MaxFaults
    BY <1>0, <1>6, FaultsType DEF PZAdminDies
  <2> QED
    BY <1>0, <1>6, <2>1, <2>2 DEF PZAdminDies, files, history, TypeOK, Owners
<1>7. CASE UNCHANGED vars
  BY <1>0, <1>7 DEF vars, TypeOK, TInv, Tasks
<1> QED
  BY <1>1, <1>2, <1>3, <1>4, <1>5, <1>6, <1>7 DEF Next

\* Every reachable state of the files, the archives and the jobs' locals is
\* well typed, for any number of jobs, worlds, archives and failures: a folder
\* holds a world, a part of one or a mixture, never something else, and every
\* archive there is was made.
THEOREM TypeCorrect == Spec => []TypeOK
<1>1. Init => TInv
  BY TypeInitially
<1>2. TInv /\ [Next]_vars => TInv'
  BY TypeStep
<1>3. TInv => TypeOK
  BY DEF TInv
<1> QED
  BY <1>1, <1>2, <1>3, PTL DEF Spec

---------------------------------------------------------------------------
(***************************************************************************)
(* What a step leaves alone.                                               *)
(***************************************************************************)

\* Names of the steps and what each set of them holds.
LEMMA StepNames ==
    /\ SwapSteps \cup UndoSteps \cup {"x.open", "x.unpack", "x.commit"} = RestoreSteps
    /\ \A at \in RestoreSteps :
         at \notin Reading \cup Copying \cup {"idle", "b.lock", "b.prune", "z.lock", "z.delete",
                                              "d.hold", "t.call"}
    /\ Reading \cup Copying \cup RestoreSteps \cup {"b.prune", "z.delete"} = Locked
    /\ \A at \in {"idle", "b.lock", "z.lock", "d.hold", "t.call"} : at \notin Locked
BY DEF Locked, RestoreSteps, SwapSteps, UndoSteps, Copying, Reading

\* One job's step is nobody else's.
LEMMA OthersStay ==
    ASSUME TypeOK, NEW j \in Jobs, Ask(j) \/ JobStep(j)
    PROVE  \A k \in Jobs : k # j => my'[k] = my[k] /\ pc'[k] = pc[k]
<1> USE DEF TypeOK, Goes, Returns, Keeps, Undoes
<1>1. CASE Ask(j)
  BY <1>1 DEF Ask
<1>2. CASE BackupBegins(j) \/ BackupRenames(j) \/ BackupFails(j) \/ BackupPrunes(j)
  BY <1>2 DEF BackupBegins, BackupRenames, BackupFails, BackupPrunes
<1>3. CASE RestoreBegins(j) \/ SwapKeeps(j) \/ SwapMoves(j) \/ SwapMakes(j)
  BY <1>3 DEF RestoreBegins, SwapKeeps, SwapMoves, SwapMakes
<1>4. CASE RestoreOpens(j) \/ RestoreUnpacked(j) \/ RestoreCommits(j)
  BY <1>4 DEF RestoreOpens, RestoreUnpacked, RestoreCommits
<1>5. CASE UndoDrops(j) \/ UndoMovesBack(j) \/ UndoKeeps(j) \/ UndoStops(j)
  BY <1>5 DEF UndoDrops, UndoMovesBack, UndoKeeps, UndoStops
<1>6. CASE ResetMoves(j) \/ ResetDeletes(j) \/ StartCalls(j)
  BY <1>6 DEF ResetMoves, ResetDeletes, StartCalls
<1>7. CASE \/ DuplicateHolds(j) \/ DuplicateCopied(j) \/ DuplicateFinishes(j)
           \/ DuplicateReleases(j)
  BY <1>7 DEF DuplicateHolds, DuplicateCopied, DuplicateFinishes, DuplicateReleases
<1> QED
  BY <1>1, <1>2, <1>3, <1>4, <1>5, <1>6, <1>7 DEF JobStep

\* Whoever writes holds the lock and is not reading, so nobody is.
LEMMA NobodyReads ==
    ASSUME Owners, NEW j \in Jobs, lock = "free" \/ pc[j] \in Locked \ Reading,
           NEW d, Write(d)
    PROVE  UNCHANGED reads
<1>1. \A k \in Jobs : pc[k] \notin Reading
  BY WorldFilesAssumption, StepNames DEF Owners, FilesHaveOneOwner
<1> QED
  BY <1>1 DEF Write, reads

\* Writing is done by the steps of a restore and a reset, and none of them
\* changes what a job that reads will see.
LEMMA WritersRead ==
    ASSUME TInv, NEW j \in Jobs,
           \/ SwapMoves(j) \/ SwapMakes(j) \/ RestoreOpens(j) \/ RestoreUnpacked(j)
           \/ UndoDrops(j) \/ UndoMovesBack(j) \/ ResetMoves(j)
    PROVE  UNCHANGED reads
<1>0. Owners
  BY DEF TInv
<1>1. ASSUME NEW from \in RestoreSteps, NEW to, Goes(j, from, to)
      PROVE  pc[j] \in Locked \ Reading
  BY <1>1, StepNames DEF Goes
<1>2. {"x.aside", "x.make", "x.open", "x.unpack", "u.drop", "u.back"} \subseteq RestoreSteps
  BY DEF RestoreSteps, SwapSteps, UndoSteps
<1>3. CASE SwapMoves(j)
  BY <1>0, <1>1, <1>2, <1>3, NobodyReads DEF SwapMoves
<1>4. CASE SwapMakes(j)
  BY <1>0, <1>1, <1>2, <1>4, NobodyReads DEF SwapMakes
<1>5. CASE RestoreOpens(j)
  BY <1>0, <1>1, <1>2, <1>5, NobodyReads DEF RestoreOpens
<1>6. CASE RestoreUnpacked(j)
  BY <1>0, <1>1, <1>2, <1>6, NobodyReads DEF RestoreUnpacked
<1>7. CASE UndoDrops(j)
  BY <1>0, <1>1, <1>2, <1>7, NobodyReads DEF UndoDrops
<1>8. CASE UndoMovesBack(j)
  BY <1>0, <1>1, <1>2, <1>8, NobodyReads DEF UndoMovesBack
<1>9. CASE ResetMoves(j)
  BY <1>0, <1>9, NobodyReads DEF ResetMoves, Takes
<1> QED
  BY <1>3, <1>4, <1>5, <1>6, <1>7, <1>8, <1>9

\* The steps of one restore.
Restores(j) ==
    \/ RestoreBegins(j) \/ SwapKeeps(j) \/ SwapMoves(j) \/ SwapMakes(j)
    \/ RestoreOpens(j) \/ RestoreUnpacked(j) \/ RestoreCommits(j)
    \/ UndoDrops(j) \/ UndoMovesBack(j) \/ UndoKeeps(j) \/ UndoStops(j)

\* A restore touches neither the game nor what others read.
LEMMA RestoreLeaves ==
    ASSUME TInv, NEW j \in Jobs, Restores(j)
    PROVE  /\ UNCHANGED <<game, reads>>
           /\ pc[j] \in RestoreSteps \cup {"idle"} /\ pc'[j] \in RestoreSteps \cup {"idle"}
<1> USE DEF Goes, Returns, Undoes, TInv, TypeOK, RestoreSteps, SwapSteps, UndoSteps
<1>0. UNCHANGED reads
  BY WritersRead DEF Restores, RestoreBegins, SwapKeeps, RestoreCommits, UndoKeeps, UndoStops
<1>1. CASE RestoreBegins(j)
  BY <1>0, <1>1 DEF RestoreBegins
<1>2. CASE SwapKeeps(j)
  BY <1>0, <1>2 DEF SwapKeeps
<1>3. CASE SwapMoves(j)
  BY <1>0, <1>3 DEF SwapMoves
<1>4. CASE SwapMakes(j)
  BY <1>0, <1>4 DEF SwapMakes
<1>5. CASE RestoreOpens(j)
  BY <1>0, <1>5 DEF RestoreOpens
<1>6. CASE RestoreUnpacked(j)
  BY <1>0, <1>6 DEF RestoreUnpacked
<1>7. CASE RestoreCommits(j)
  BY <1>0, <1>7 DEF RestoreCommits
<1>8. CASE UndoDrops(j)
  BY <1>0, <1>8 DEF UndoDrops
<1>9. CASE UndoMovesBack(j)
  BY <1>0, <1>9 DEF UndoMovesBack
<1>10. CASE UndoKeeps(j)
  BY <1>0, <1>10 DEF UndoKeeps
<1>11. CASE UndoStops(j)
  BY <1>0, <1>11 DEF UndoStops
<1> QED
  BY <1>1, <1>2, <1>3, <1>4, <1>5, <1>6, <1>7, <1>8, <1>9, <1>10, <1>11 DEF Restores

---------------------------------------------------------------------------
(***************************************************************************)
(* What is read while the game is down is read in one piece.               *)
(***************************************************************************)

\* Only jobs that read are counted as disturbed, and one that reads without
\* the game having had the files open reads undisturbed, with the game down.
ReadInv ==
    /\ \A j \in torn \cup live : pc[j] \in Reading \cup Copying
    /\ \A j \in Jobs : pc[j] \in Reading /\ j \notin live => game = "down" /\ j \notin torn

\* A step that has nothing to do with reading.
LEMMA ReadCalm ==
    ASSUME TInv, ReadInv, NEW j \in Jobs, UNCHANGED <<game, reads>>,
           pc[j] \notin Reading \cup Copying, pc'[j] \notin Reading,
           \A k \in Jobs : k # j => pc'[k] = pc[k]
    PROVE  ReadInv'
BY DEF ReadInv, reads, TInv, TypeOK

LEMMA ReadStep == TInv /\ ReadInv /\ [Next]_vars => ReadInv'
<1> SUFFICES ASSUME TInv, ReadInv, [Next]_vars PROVE ReadInv'
  OBVIOUS
<1> USE DEF ReadInv
<1>0. /\ TypeOK /\ torn \cup live \subseteq Jobs /\ Reading = {"b.read", "d.copy"}
      /\ Copying = {"d.copy", "d.finish", "d.release"}
      /\ Reading \cap {"idle", "b.lock", "b.prune", "z.lock", "z.delete", "d.hold", "t.call"} = {}
      /\ \A at \in RestoreSteps : at \notin Reading \cup Copying
  BY StepNames DEF TInv, TypeOK, Reading, Copying
<1>1. ASSUME NEW j \in Jobs, Ask(j) PROVE ReadInv'
  <2>1. pc[j] = "idle" /\ pc'[j] \in {"b.lock", "z.lock", "d.hold", "t.call"}
    BY <1>0, <1>1 DEF Ask, Goes, TypeOK
  <2> QED
    BY <1>0, <1>1, <2>1, OthersStay, ReadCalm DEF Ask
<1>2. ASSUME NEW j \in Jobs, JobStep(j) PROVE ReadInv'
  <2>0. \A k \in Jobs : k # j => pc'[k] = pc[k]
    BY <1>0, <1>2, OthersStay
  <2> USE DEF Goes, Returns
  <2>1. CASE BackupBegins(j)
    BY <1>0, <2>0, <2>1 DEF BackupBegins, TypeOK, StartsReading, reads
  <2>2. CASE BackupRenames(j) \/ BackupFails(j)
    BY <1>0, <2>0, <2>2 DEF BackupRenames, BackupFails, TypeOK, StopsReading
  <2>3. CASE BackupPrunes(j)
    BY <1>0, <2>0, <2>3, ReadCalm DEF BackupPrunes, TypeOK
  <2>4. CASE Restores(j)
    BY <1>0, <2>0, <2>4, RestoreLeaves, ReadCalm
  <2>5. CASE ResetMoves(j)
    <3>1. pc[j] = "z.lock" /\ pc'[j] \in {"z.delete", "idle"} /\ game' = game
      BY <1>0, <2>5 DEF ResetMoves, TypeOK
    <3> QED
      BY <1>0, <2>0, <2>5, <3>1, WritersRead, ReadCalm
  <2>6. CASE ResetDeletes(j)
    BY <1>0, <2>0, <2>6, ReadCalm DEF ResetDeletes, TypeOK
  <2>7. CASE DuplicateHolds(j)
    BY <1>0, <2>0, <2>7 DEF DuplicateHolds, TypeOK, StartsReading, reads
  <2>8. CASE DuplicateCopied(j) \/ DuplicateFinishes(j)
    BY <1>0, <2>0, <2>8 DEF DuplicateCopied, DuplicateFinishes, TypeOK, reads
  <2>9. CASE DuplicateReleases(j)
    BY <1>0, <2>0, <2>9 DEF DuplicateReleases, TypeOK, StopsReading
  <2>10. CASE StartCalls(j)
    BY <1>0, <2>0, <2>10 DEF StartCalls, TypeOK
  <2> QED
    BY <1>2, <2>1, <2>2, <2>3, <2>4, <2>5, <2>6, <2>7, <2>8, <2>9, <2>10 DEF JobStep, Restores
<1>3. CASE DeleteArchive \/ GameStops \/ UNCHANGED vars
  BY <1>0, <1>3 DEF DeleteArchive, GameStops, vars, reads
<1>4. CASE GameLoads \/ GameSaves
  BY <1>0, <1>4 DEF GameLoads, GameSaves, Write, reads
<1>5. CASE PZAdminDies
  BY <1>0, <1>5 DEF PZAdminDies
<1> QED
  BY <1>1, <1>2, <1>3, <1>4, <1>5 DEF Next

---------------------------------------------------------------------------
(***************************************************************************)
(* Operators who wait keep the game down under a restore, a reset and a    *)
(* copy.                                                                   *)
(***************************************************************************)

\* What the game must stay away from.
Quiet(j) == \/ pc[j] \in RestoreSteps \cup {"d.hold", "d.copy"}
            \/ my[j].what \in {"reset", "reset-backup"}

ColdInv ==
    \A j \in Jobs : Quiet(j) =>
        /\ game = "down"
        /\ \A k \in Jobs : my[k].what # "start"
        /\ pc[j] \in Reading => j \notin live \cup torn

\* One job moves on, having been quiet before if it is now.
LEMMA ColdCalm ==
    ASSUME ColdInv, NEW j \in Jobs, Quiet(j)' => Quiet(j),
           game' \in {game, "down"}, torn' \subseteq torn, live' \subseteq live,
           \A k \in Jobs : k # j => my'[k] = my[k] /\ pc'[k] = pc[k],
           my'[j].what = "start" => my[j].what = "start",
           pc'[j] \in Reading => pc[j] \in Reading \/ (j \notin live' \cup torn')
    PROVE  ColdInv'
<1>1. \A k \in Jobs : Quiet(k)' => Quiet(k)
  BY DEF Quiet
<1>2. \A k \in Jobs : my'[k].what = "start" => my[k].what = "start"
  OBVIOUS
<1> QED
  BY <1>1, <1>2 DEF ColdInv

\* A job that is quiet belongs to an operator who waits, or copies.
LEMMA QuietIsUnanswered ==
    ASSUME TInv, NEW j \in Jobs, Quiet(j)
    PROVE  Unanswered(j) \/ copying
<1>1. Fits(pc[j], my[j])
  BY DEF TInv, Tasks
<1>2. CASE pc[j] \in RestoreSteps
  BY <1>1, <1>2, StepNames DEF Fits, Unanswered
<1>3. CASE pc[j] = "d.hold"
  BY <1>1, <1>3 DEF Fits, Unanswered, Copying
<1>4. CASE pc[j] = "d.copy"
  BY <1>4 DEF TInv, Owners, FilesHaveOneOwner
<1>5. CASE my[j].what \in {"reset", "reset-backup"}
  BY <1>1, <1>5 DEF Fits, Unanswered, Nothing
<1> QED
  BY <1>2, <1>3, <1>4, <1>5 DEF Quiet

\* A request says what it is.
LEMMA Asked ==
    ASSUME TInv, NEW j \in Jobs, Ask(j)
    PROVE  \E what \in Requests :
             /\ my'[j].what = what /\ pc[j] = "idle" /\ my[j] = Nothing
             /\ my'[j].layout = Detected
             /\ UNCHANGED <<files, archives, copying, lock, game, reads, history, faults>>
             /\ \/ what = "backup" /\ pc'[j] = "b.lock"
                \/ /\ what \in {"reset", "reset-backup", "duplicate"}
                   /\ game = "down" /\ NoStartUnanswered
                   /\ pc'[j] \in {"b.lock", "z.lock", "d.hold"}
                   /\ what = "reset-backup" => dir["Saves"] \notin {"none", "empty"}
                   /\ what = "reset-backup" => pc'[j] = "b.lock"
                \/ /\ what = "start" /\ pc'[j] = "t.call" /\ ~copying
                   /\ Careful => \A k \in Jobs : ~Unanswered(k)
<1>0. TypeOK /\ my[j] \in Locals /\ Fits(pc[j], my[j])
  BY DEF TInv, TypeOK, Tasks
<1>1. PICK what \in Requests, config \in IncludeConfig :
         /\ my' = [my EXCEPT ![j].what = what, ![j].config = config, ![j].layout = Detected]
         /\ what \in {"reset", "reset-backup", "duplicate"} => NoStartUnanswered
         /\ \/ what = "backup" /\ Goes(j, "idle", "b.lock")
            \/ /\ what \in {"reset", "reset-backup"} /\ ~WorldInUse
               /\ dir["Saves"] \notin {"none", "empty"}
               /\ Goes(j, "idle", IF what = "reset" THEN "z.lock" ELSE "b.lock")
            \/ what = "duplicate" /\ ~WorldInUse /\ Goes(j, "idle", "d.hold")
            \/ /\ what = "start" /\ ~DupRefusal /\ Goes(j, "idle", "t.call")
               /\ Careful => \A k \in Jobs : ~Unanswered(k)
  BY DEF Ask
<1>2. my'[j].what = what /\ my'[j].layout = Detected
  BY <1>0, <1>1 DEF TypeOK, Locals
<1>3. pc[j] = "idle" /\ my[j] = Nothing
  BY <1>0 DEF Ask, Fits
<1>4. UNCHANGED <<files, archives, copying, lock, game, reads, history, faults>>
  BY DEF Ask, shared
<1>5. CASE what = "backup"
  BY <1>0, <1>1, <1>2, <1>3, <1>4, <1>5 DEF Goes, TypeOK
<1>6. CASE what \in {"reset", "reset-backup"}
  BY <1>0, <1>1, <1>2, <1>3, <1>4, <1>6 DEF Goes, TypeOK, WorldInUse
<1>7. CASE what = "duplicate"
  BY <1>0, <1>1, <1>2, <1>3, <1>4, <1>7 DEF Goes, TypeOK, WorldInUse
<1>8. CASE what = "start"
  BY <1>0, <1>1, <1>2, <1>3, <1>4, <1>8 DEF Goes, TypeOK, DupRefusal
<1> QED
  BY <1>1, <1>5, <1>6, <1>7, <1>8

LEMMA ColdStep == Careful /\ TInv /\ ReadInv /\ ColdInv /\ [Next]_vars => ColdInv'
<1> SUFFICES ASSUME Careful, TInv, ReadInv, ColdInv, [Next]_vars PROVE ColdInv'
  OBVIOUS
<1>0. /\ TypeOK /\ Reading = {"b.read", "d.copy"} /\ Nothing.what = "nothing"
      /\ Copying = {"d.copy", "d.finish", "d.release"}
      /\ \A k \in Jobs : Fits(pc[k], my[k])
      /\ \A at \in RestoreSteps :
           at \notin {"b.read", "d.copy", "idle", "b.lock", "b.prune", "z.lock", "z.delete",
                      "d.hold", "d.finish", "d.release", "t.call"}
  BY StepNames DEF TInv, Reading, Copying, Nothing, Tasks
<1>1. ASSUME NEW j \in Jobs, Ask(j) PROVE ColdInv'
  <2>0. /\ \A k \in Jobs : k # j => my'[k] = my[k] /\ pc'[k] = pc[k]
        /\ UNCHANGED <<game, reads>>
    BY <1>0, <1>1, OthersStay DEF Ask
  <2>1. PICK what \in Requests :
             /\ my'[j].what = what
             /\ \/ what = "backup" /\ pc'[j] = "b.lock"
                \/ /\ what \in {"reset", "reset-backup", "duplicate"}
                   /\ game = "down" /\ NoStartUnanswered
                   /\ pc'[j] \in {"b.lock", "z.lock", "d.hold"}
                \/ /\ what = "start" /\ pc'[j] = "t.call" /\ ~copying
                   /\ Careful => \A k \in Jobs : ~Unanswered(k)
    BY <1>1, Asked
  <2>2. CASE what = "backup" /\ pc'[j] = "b.lock"
    <3>1. ~Quiet(j)'
      BY <1>0, <2>1, <2>2 DEF Quiet
    <3> QED
      BY <1>0, <2>0, <2>1, <2>2, <3>1, ColdCalm DEF reads
  <2>3. CASE /\ what \in {"reset", "reset-backup", "duplicate"}
             /\ game = "down" /\ NoStartUnanswered
             /\ pc'[j] \in {"b.lock", "z.lock", "d.hold"}
    <3>1. \A k \in Jobs : my'[k].what # "start"
      BY <2>0, <2>1, <2>3 DEF NoStartUnanswered
    <3>2. \A k \in Jobs : Quiet(k)' => Quiet(k) \/ k = j
      BY <2>0 DEF Quiet
    <3> QED
      BY <1>0, <2>0, <2>3, <3>1, <3>2 DEF ColdInv, reads
  <2>4. CASE /\ what = "start" /\ pc'[j] = "t.call" /\ ~copying
             /\ \A k \in Jobs : ~Unanswered(k)
    <3>1. \A k \in Jobs : ~Quiet(k)
      BY <2>4, QuietIsUnanswered
    <3>2. \A k \in Jobs : ~Quiet(k)'
      BY <1>0, <2>0, <2>1, <2>4, <3>1 DEF Quiet
    <3> QED
      BY <3>2 DEF ColdInv
  <2> QED
    BY <2>1, <2>2, <2>3, <2>4
<1>2. ASSUME NEW j \in Jobs, JobStep(j) PROVE ColdInv'
  <2>0. \A k \in Jobs : k # j => my'[k] = my[k] /\ pc'[k] = pc[k]
    BY <1>0, <1>2, OthersStay
  <2>f. Fits(pc[j], my[j]) /\ (j \in torn \cup live => pc[j] \in Reading \cup Copying)
    BY <1>0 DEF ReadInv
  <2>r. ASSUME NEW from, Returns(j, from), UNCHANGED <<game, reads>> PROVE ColdInv'
    <3>1. pc'[j] = "idle" /\ my'[j] = Nothing
      BY <1>0, <2>r, ReturnsMine
    <3>2. ~Quiet(j)'
      BY <1>0, <3>1 DEF Quiet
    <3> QED
      BY <1>0, <2>0, <2>r, <3>1, <3>2, ColdCalm DEF reads
  <2>s. ASSUME NEW from, Returns(j, from), UNCHANGED <<game>>, StopsReading(j) PROVE ColdInv'
    <3>1. pc'[j] = "idle" /\ my'[j] = Nothing
      BY <1>0, <2>s, ReturnsMine
    <3>2. ~Quiet(j)'
      BY <1>0, <3>1 DEF Quiet
    <3>3. torn' \subseteq torn /\ live' \subseteq live
      BY <2>s DEF StopsReading
    <3> QED
      BY <1>0, <2>0, <2>s, <3>1, <3>2, <3>3, ColdCalm
  <2>1. CASE BackupBegins(j)
    <3>1. CASE Takes(j) /\ Goes(j, "b.lock", "b.read") /\ Keeps(j) /\ StartsReading(j)
      <4>1. pc[j] = "b.lock" /\ pc'[j] = "b.read" /\ my' = my /\ game' = game
        BY <1>0, <2>1, <3>1 DEF Goes, Keeps, TypeOK, BackupBegins
      <4>2. torn' = torn /\ (game = "down" => live' = live) /\ j \notin torn \cup live
        BY <1>0, <2>f, <3>1, <4>1 DEF StartsReading
      <4>3. Quiet(j)' => Quiet(j)
        BY <1>0, <4>1 DEF Quiet
      <4>4. ASSUME NEW k \in Jobs, Quiet(k)' PROVE Quiet(k)
        BY <2>0, <4>3, <4>4 DEF Quiet
      <4> QED
        BY <1>0, <2>0, <4>1, <4>2, <4>4 DEF ColdInv
    <3>2. CASE Returns(j, "b.lock") /\ UNCHANGED reads
      BY <2>1, <2>r, <3>2 DEF BackupBegins
    <3> QED
      BY <2>1, <3>1, <3>2 DEF BackupBegins
  <2>2. CASE BackupRenames(j)
    <3>1. pc[j] = "b.read" /\ pc'[j] = "b.prune" /\ my' = my /\ game' = game
      BY <1>0, <2>2 DEF Goes, Keeps, TypeOK, BackupRenames
    <3>2. (Quiet(j)' => Quiet(j)) /\ torn' \subseteq torn /\ live' \subseteq live
      BY <1>0, <2>2, <3>1 DEF Quiet, BackupRenames, StopsReading
    <3> QED
      BY <1>0, <2>0, <3>1, <3>2, ColdCalm
  <2>3. CASE BackupFails(j)
    BY <2>3, <2>s DEF BackupFails
  <2>4. CASE BackupPrunes(j)
    <3>1. CASE Goes(j, "b.prune", "z.lock") /\ Keeps(j)
      <4>1. pc[j] = "b.prune" /\ pc'[j] = "z.lock" /\ my' = my /\ UNCHANGED <<game, reads>>
        BY <1>0, <2>4, <3>1 DEF Goes, Keeps, TypeOK, BackupPrunes
      <4>2. Quiet(j)' => Quiet(j)
        BY <1>0, <4>1 DEF Quiet
      <4> QED
        BY <1>0, <2>0, <4>1, <4>2, ColdCalm DEF reads
    <3>2. CASE Returns(j, "b.prune")
      BY <2>4, <2>r, <3>2 DEF BackupPrunes
    <3> QED
      BY <2>4, <3>1, <3>2 DEF BackupPrunes
  <2>5. CASE RestoreBegins(j)
    <3>1. game = "down" /\ \A k \in Jobs : my[k].what # "start"
      BY <2>5 DEF RestoreBegins, NoStartUnanswered
    <3>2. UNCHANGED <<game, reads>> /\ pc'[j] = "x.keep" /\ my'[j].what = "restore"
      <4>1. my[j] \in Locals
        BY <1>0 DEF TypeOK
      <4> QED
        BY <1>0, <2>5, <4>1 DEF RestoreBegins, Goes, TypeOK, Locals
    <3>3. \A k \in Jobs : Quiet(k)' => Quiet(k) \/ k = j
      BY <2>0 DEF Quiet
    <3>4. \A k \in Jobs : my'[k].what # "start"
      BY <2>0, <3>1, <3>2
    <3> QED
      BY <1>0, <2>0, <3>1, <3>2, <3>3, <3>4 DEF ColdInv, reads
  <2>6. CASE Restores(j) /\ ~RestoreBegins(j)
    <3>1. pc[j] \in RestoreSteps
      BY <2>6 DEF Restores, SwapKeeps, SwapMoves, SwapMakes, RestoreOpens, RestoreUnpacked,
                  RestoreCommits, UndoDrops, UndoMovesBack, UndoKeeps, UndoStops, Goes,
                  Undoes, RestoreSteps, SwapSteps, UndoSteps
    <3>2. UNCHANGED <<game, reads>> /\ pc'[j] \in RestoreSteps \cup {"idle"}
      BY <2>6, RestoreLeaves
    <3>3. TInv'
      BY TypeStep
    <3>4. my'[j].what # "start"
      BY <3>2, <3>3 DEF TInv, Tasks, Fits, Nothing
    <3>5. Quiet(j)
      BY <3>1 DEF Quiet
    <3> QED
      BY <1>0, <2>0, <3>2, <3>4, <3>5, ColdCalm DEF reads
  <2>7. CASE ResetMoves(j)
    <3>0. UNCHANGED <<game, reads>>
      BY <2>7, WritersRead DEF ResetMoves
    <3>1. CASE Goes(j, "z.lock", "z.delete") /\ Keeps(j)
      <4>1. pc[j] = "z.lock" /\ pc'[j] = "z.delete" /\ my' = my
        BY <1>0, <3>1 DEF Goes, Keeps, TypeOK
      <4>2. Quiet(j)' => Quiet(j)
        BY <1>0, <4>1 DEF Quiet
      <4> QED
        BY <1>0, <2>0, <3>0, <4>1, <4>2, ColdCalm DEF reads
    <3>2. CASE Returns(j, "z.lock")
      BY <2>r, <3>0, <3>2
    <3> QED
      BY <2>7, <3>1, <3>2 DEF ResetMoves
  <2>8. CASE ResetDeletes(j)
    BY <2>8, <2>r DEF ResetDeletes
  <2>9. CASE DuplicateHolds(j)
    <3>1. CASE Takes(j) /\ Goes(j, "d.hold", "d.copy") /\ Keeps(j) /\ StartsReading(j)
      <4>1. pc[j] = "d.hold" /\ pc'[j] = "d.copy" /\ my' = my /\ game' = game
        BY <1>0, <2>9, <3>1 DEF Goes, Keeps, TypeOK, DuplicateHolds
      <4>2. Quiet(j)
        BY <4>1 DEF Quiet
      <4>3. torn' = torn /\ live' = live /\ j \notin torn \cup live
        BY <1>0, <2>f, <3>1, <4>1, <4>2 DEF StartsReading, ColdInv
      <4> QED
        BY <1>0, <2>0, <4>1, <4>2, <4>3, ColdCalm
    <3>2. CASE Returns(j, "d.hold") /\ UNCHANGED reads
      BY <2>9, <2>r, <3>2 DEF DuplicateHolds
    <3> QED
      BY <2>9, <3>1, <3>2 DEF DuplicateHolds
  <2>10. CASE DuplicateCopied(j) \/ DuplicateFinishes(j)
    <3>1. /\ pc[j] \in {"d.copy", "d.finish"} /\ pc'[j] \in {"d.finish", "d.release"}
          /\ my' = my /\ UNCHANGED <<game, reads>>
      BY <1>0, <2>10 DEF Goes, Keeps, TypeOK, DuplicateCopied, DuplicateFinishes
    <3>2. ~Quiet(j)'
      BY <1>0, <2>f, <3>1 DEF Quiet, Fits
    <3> QED
      BY <1>0, <2>0, <3>1, <3>2, ColdCalm DEF reads
  <2>11. CASE DuplicateReleases(j)
    BY <2>11, <2>s DEF DuplicateReleases
  <2>12. CASE StartCalls(j)
    <3>1. pc[j] = "t.call" /\ my[j].what = "start" /\ pc'[j] = "idle" /\ my'[j] = Nothing
      BY <1>0, <2>f, <2>12, ReturnsMine DEF StartCalls, Fits
    <3>2. \A k \in Jobs : ~Quiet(k)
      BY <3>1 DEF ColdInv
    <3>3. \A k \in Jobs : ~Quiet(k)'
      BY <1>0, <2>0, <3>1, <3>2 DEF Quiet
    <3> QED
      BY <3>3 DEF ColdInv
  <2> QED
    BY <1>2, <2>1, <2>2, <2>3, <2>4, <2>5, <2>6, <2>7, <2>8, <2>9, <2>10, <2>11, <2>12
    DEF JobStep, Restores
<1>3. CASE DeleteArchive \/ GameStops \/ UNCHANGED vars
  BY <1>0, <1>3 DEF DeleteArchive, GameStops, vars, reads, ColdInv, Quiet
<1>4. CASE GameLoads \/ GameSaves
  <2>1. game # "down" /\ UNCHANGED <<pc, my>>
    BY <1>4 DEF GameLoads, GameSaves
  <2>2. \A k \in Jobs : ~Quiet(k)
    BY <2>1 DEF ColdInv
  <2> QED
    BY <2>1, <2>2 DEF ColdInv, Quiet
<1>5. CASE PZAdminDies
  BY <1>0, <1>5 DEF PZAdminDies, ColdInv, Quiet
<1> QED
  BY <1>1, <1>2, <1>3, <1>4, <1>5 DEF Next

WholeInv == TInv /\ ReadInv /\ (Careful => ColdInv)

LEMMA WholeInitially == Init => WholeInv
<1> SUFFICES ASSUME Init PROVE WholeInv
  OBVIOUS
<1>1. TInv
  BY TypeInitially
<1>2. ReadInv
  BY StepNames DEF Init, ReadInv, Reading
<1>3. ColdInv
  BY StepNames DEF Init, ColdInv, Quiet, Nothing
<1> QED
  BY <1>1, <1>2, <1>3 DEF WholeInv

LEMMA WholeStep == WholeInv /\ [Next]_vars => WholeInv'
BY TypeStep, ReadStep, ColdStep DEF WholeInv

\* Whatever reads a world reads one world, for any number of jobs: with the
\* game down no other job writes what Create or copyWorld reads, and with
\* operators who wait no start begins under a copy.
THEOREM ReadsWhole == Spec => []ReadsAreWhole
<1>1. WholeInv => ReadsAreWhole
  BY DEF WholeInv, ReadInv, ColdInv, ReadsAreWhole, ColdReadsAreWhole, CopiesAreCold,
         Quiet, Reading
<1> QED
  BY <1>1, WholeInitially, WholeStep, PTL DEF Spec

---------------------------------------------------------------------------
(***************************************************************************)
(* What each folder of a restore is at each of its steps.                  *)
(***************************************************************************)

\* The folders a restore is past, is at and is still to come to.
Behind(j, p) == p = "Saves" /\ my[j].at = "Server"
At(j, p) == my[j].at = p
Ahead(j, p) == p = "Server" /\ my[j].at = "Saves"

AsItWas(j, p) == dir[p] = my[j].was[p] /\ aside[p] = my[j].wasAside[p]

\* The older copy has been set by, if there was one.
SetBy(j, p) == /\ p \in my[j].kept <=> my[j].wasAside[p] # "none"
               /\ p \in my[j].kept => previous[p] = my[j].wasAside[p]

Untouched(j, p) == p \notin my[j].moved \cup my[j].kept /\ AsItWas(j, p)
HalfWay(j, p) == /\ dir[p] = my[j].was[p] /\ aside[p] = "none"
                 /\ SetBy(j, p) /\ p \notin my[j].moved
Moved(j, p) == p \in my[j].moved /\ aside[p] = my[j].was[p] /\ SetBy(j, p)

Swapping(j, p) ==
    /\ Ahead(j, p) => Untouched(j, p)
    /\ Behind(j, p) => Moved(j, p) /\ dir[p] = "empty"
    /\ At(j, p) => /\ pc[j] = "x.keep" => Untouched(j, p)
                   /\ pc[j] = "x.aside" => HalfWay(j, p)
                   /\ pc[j] = "x.make" => Moved(j, p) /\ dir[p] = "none"

\* What undo may find: until a call fails, only an archive that has gone
\* since it was scanned brings it about.
ToUndo(j, p) == /\ Moved(j, p) \/ HalfWay(j, p) \/ Untouched(j, p)
                /\ faults = 0 => Moved(j, p) /\ dir[p] = "empty"

\* The folder is back and the older copy is still set by.
PutBack(j, p) ==
    /\ dir[p] = my[j].was[p]
    /\ aside[p] = IF p \in my[j].kept THEN "none" ELSE my[j].wasAside[p]
    /\ p \in my[j].kept => previous[p] = my[j].wasAside[p]

Undoing(j, p) ==
    /\ Ahead(j, p) => ToUndo(j, p)
    /\ Behind(j, p) => AsItWas(j, p)
    /\ At(j, p) => /\ pc[j] = "u.drop" => ToUndo(j, p)
                   /\ pc[j] = "u.back" => Moved(j, p) /\ dir[p] = "none"
                   /\ pc[j] = "u.keep" => PutBack(j, p)

Folder(j, p) ==
    /\ my[j].was[p] # "none"
    /\ pc[j] \in SwapSteps => Swapping(j, p)
    /\ pc[j] = "x.open" => Moved(j, p) /\ dir[p] = "empty"
    /\ pc[j] = "x.unpack" => Moved(j, p) /\ dir[p] = "half"
    /\ pc[j] = "x.commit" => p \in my[j].moved /\ aside[p] = my[j].was[p]
    /\ pc[j] \in UndoSteps => Undoing(j, p)

SwapInv ==
    \A j \in Jobs : pc[j] \in RestoreSteps =>
        /\ my[j].targets # {} /\ my[j].at \in my[j].targets
        /\ \A p \in my[j].targets : Folder(j, p)

LEMMA MyFields ==
    ASSUME TypeOK, NEW j \in Jobs
    PROVE  /\ my[j] \in Locals /\ my[j].at \in Parts /\ my[j].targets \subseteq Parts
           /\ my[j].moved \subseteq Parts /\ my[j].kept \subseteq Parts
           /\ my[j].was \in [Parts -> Content] /\ my[j].wasAside \in [Parts -> Content]
           /\ my[j].open \in [Parts -> Content]
BY DEF TypeOK, Locals

\* What undo remembers of the restore it takes back.
LEMMA UndoesFields ==
    ASSUME TypeOK, NEW j \in Jobs, NEW from, Undoes(j, from)
    PROVE  /\ my'[j].at = First(my[j].targets) /\ my'[j].targets = my[j].targets
           /\ my'[j].moved = my[j].moved /\ my'[j].kept = my[j].kept
           /\ my'[j].was = my[j].was /\ my'[j].wasAside = my[j].wasAside
           /\ pc[j] = from /\ pc'[j] = "u.drop"
<1>1. my[j] \in Locals
  BY MyFields
<1> QED
  BY <1>1 DEF Undoes, Goes, TypeOK, Locals

LEMMA FirstIsNext ==
    ASSUME NEW targets \in SUBSET Parts, targets # {}
    PROVE  /\ First(targets) \in targets
           /\ First(targets) = "Server" => "Saves" \notin targets
BY DEF First, Parts

\* A restore whose swaps are done or undone in the order of its list.
Restoring(j) ==
    pc[j] \in RestoreSteps =>
        /\ my[j].targets # {} /\ my[j].at \in my[j].targets
        /\ \A p \in my[j].targets : Folder(j, p)

\* What a step of another job, or of none, leaves of a restore.
LEMMA FolderStays ==
    ASSUME NEW j, UNCHANGED files, my'[j] = my[j], pc'[j] = pc[j],
           faults' = 0 => faults = 0, Restoring(j)
    PROVE  Restoring(j)'
<1>1. ASSUME NEW p, Folder(j, p) PROVE Folder(j, p)'
  BY <1>1 DEF files, Folder, Swapping, Undoing, Behind, At, Ahead, AsItWas, SetBy, Untouched,
              HalfWay, Moved, ToUndo, PutBack
<1> QED
  BY <1>1 DEF Restoring

\* Undo begins.
LEMMA UndoBegins ==
    ASSUME TInv, NEW j \in Jobs, NEW from \in RestoreSteps, Undoes(j, from), Restoring(j),
           \A p \in my[j].targets : ToUndo(j, p)'
    PROVE  Restoring(j)'
<1>0. /\ my[j].targets \subseteq Parts /\ my[j].targets # {} /\ pc[j] = from
      /\ \A p \in my[j].targets : my[j].was[p] # "none"
  BY MyFields, UndoesFields DEF TInv, Restoring, Folder
<1>1. /\ my'[j].at = First(my[j].targets) /\ my'[j].targets = my[j].targets
      /\ my'[j].was = my[j].was /\ pc'[j] = "u.drop"
  BY UndoesFields DEF TInv
<1>2. /\ my'[j].at \in my[j].targets
      /\ my'[j].at = "Server" => "Saves" \notin my[j].targets
  BY <1>0, <1>1, FirstIsNext
<1>3. ASSUME NEW p \in my[j].targets PROVE Folder(j, p)'
  BY <1>0, <1>1, <1>2 DEF Folder, Undoing, Behind, At, Ahead, SwapSteps, UndoSteps
<1> QED
  BY <1>0, <1>1, <1>2, <1>3 DEF Restoring

LEMMA BeginsSwap ==
    ASSUME TInv, NEW j \in Jobs, RestoreBegins(j)
    PROVE  Restoring(j)'
<1>0. TypeOK /\ my[j] \in Locals /\ my[j].moved = {} /\ my[j].kept = {}
  BY MyFields DEF TInv, Tasks, Fits, RestoreBegins, Goes, Nothing
<1>1. PICK i \in DOMAIN archives :
        /\ Targets(archives[i]) # {}
        /\ my' = [my EXCEPT ![j].what = "restore", ![j].id = i,
                            ![j].targets = Targets(archives[i]),
                            ![j].at = First(Targets(archives[i])),
                            ![j].was = dir, ![j].wasAside = aside]
  BY DEF RestoreBegins
<1>2. /\ my'[j].targets = Targets(archives[i]) /\ my'[j].at = First(Targets(archives[i]))
      /\ my'[j].was = dir /\ my'[j].wasAside = aside
      /\ my'[j].moved = {} /\ my'[j].kept = {}
  BY <1>0, <1>1 DEF TypeOK, Locals
<1>3. pc'[j] = "x.keep" /\ UNCHANGED files
  BY <1>0 DEF RestoreBegins, Goes, TypeOK
<1>4. Targets(archives[i]) \subseteq Detected /\ Detected \subseteq Parts
  BY DEF Targets, Detected
<1>5. ASSUME NEW p \in my'[j].targets PROVE Folder(j, p)'
  <2>1. dir[p] # "none" /\ p \in Parts
    BY <1>2, <1>4, <1>5 DEF Detected
  <2>2. (Untouched(j, p))'
    BY <1>2, <1>3 DEF Untouched, AsItWas, files
  <2>3. ~(Behind(j, p))'
    BY <1>1, <1>2, <1>4, <2>1, FirstIsNext DEF Behind
  <2> QED
    BY <1>2, <1>3, <2>1, <2>2, <2>3 DEF Folder, Swapping, SwapSteps, UndoSteps
<1>6. my'[j].targets # {} /\ my'[j].at \in my'[j].targets
  BY <1>1, <1>2, <1>4, FirstIsNext
<1> QED
  BY <1>5, <1>6 DEF Restoring

LEMMA KeepsSwap ==
    ASSUME TInv, NEW j \in Jobs, Restoring(j), SwapKeeps(j)
    PROVE  Restoring(j)'
<1> DEFINE at == my[j].at
<1>0. /\ TypeOK /\ my[j] \in Locals /\ at \in Parts /\ my[j].targets \subseteq Parts
      /\ aside \in [Parts -> Content] /\ previous \in [Parts -> Content] /\ faults \in Nat
      /\ dir \in [Parts -> Content]
  BY MyFields, WorldFilesAssumption DEF TInv, TypeOK
<1>1. pc[j] = "x.keep" /\ dir' = dir
  BY DEF SwapKeeps, Goes, Undoes
<1>2. /\ my[j].targets # {} /\ at \in my[j].targets
      /\ \A p \in my[j].targets :
           my[j].was[p] # "none" /\ Swapping(j, p)
  BY <1>1 DEF Restoring, Folder, RestoreSteps, SwapSteps
<1>3. CASE Works /\ Goes(j, "x.keep", "x.aside")
  <2>1. pc'[j] = "x.aside"
    BY <1>0, <1>3 DEF Goes, TypeOK
  <2>2. /\ my'[j].at = at /\ my'[j].targets = my[j].targets /\ my'[j].moved = my[j].moved
        /\ my'[j].was = my[j].was /\ my'[j].wasAside = my[j].wasAside
        /\ my'[j].kept = IF aside[at] # "none" THEN my[j].kept \cup {at} ELSE my[j].kept
    <3>1. my' = IF aside[at] # "none" THEN [my EXCEPT ![j].kept = @ \cup {at}] ELSE my
      BY <1>0, <1>3 DEF SwapKeeps, Undoes, Goes, TypeOK
    <3> QED
      BY <1>0, <3>1 DEF TypeOK, Locals
  <2>3. /\ \A p \in Parts \ {at} : aside'[p] = aside[p] /\ previous'[p] = previous[p]
        /\ aside'[at] = "none"
        /\ aside[at] # "none" => previous'[at] = aside[at]
        /\ aside[at] = "none" => previous'[at] = previous[at]
    BY <1>0, <1>3 DEF SwapKeeps, Undoes, Goes, TypeOK
  <2>4. ASSUME NEW p \in my[j].targets PROVE (Swapping(j, p))'
    <3>1. p \in Parts /\ Swapping(j, p)
      BY <1>0, <1>2
    <3>2. CASE p = at
      <4>1. (HalfWay(j, p))'
        BY <1>1, <2>2, <2>3, <3>1, <3>2 DEF Swapping, At, Untouched, AsItWas, HalfWay, SetBy
      <4> QED
        BY <2>1, <2>2, <3>2, <4>1 DEF Swapping, Ahead, Behind, At
    <3>3. CASE p # at
      <4>1. (Untouched(j, p) => (Untouched(j, p))') /\ (Moved(j, p) => (Moved(j, p))')
        BY <1>1, <2>2, <2>3, <3>1, <3>3 DEF Untouched, AsItWas, Moved, SetBy
      <4> QED
        BY <1>1, <2>2, <3>1, <3>3, <4>1 DEF Swapping, Ahead, Behind, At
    <3> QED
      BY <3>2, <3>3
  <2> QED
    BY <1>2, <2>1, <2>2, <2>4 DEF Restoring, Folder, SwapSteps, UndoSteps
<1>4. CASE Fails /\ Undoes(j, "x.keep")
  <2>1. /\ aside' = aside /\ \A p \in Parts \ {at} : previous'[p] = previous[p]
        /\ faults' # 0
    BY <1>0, <1>4 DEF SwapKeeps, Undoes, Goes, TypeOK, Fails
  <2>2. ASSUME NEW p \in my[j].targets PROVE (ToUndo(j, p))'
    <3>1. p \in Parts /\ Swapping(j, p)
      BY <1>0, <1>2
    <3>2. /\ my'[j].moved = my[j].moved /\ my'[j].kept = my[j].kept
          /\ my'[j].was = my[j].was /\ my'[j].wasAside = my[j].wasAside
      BY <1>0, <1>4, UndoesFields
    <3>3. CASE p = at \/ Ahead(j, p)
      <4>1. Untouched(j, p)
        BY <1>1, <3>1, <3>3 DEF Swapping, At
      <4> QED
        BY <1>1, <2>1, <3>2, <4>1 DEF Untouched, AsItWas, ToUndo
    <3>4. CASE Behind(j, p)
      <4>1. Moved(j, p) /\ p # at
        BY <1>1, <3>1, <3>4 DEF Swapping, Behind
      <4> QED
        BY <1>1, <2>1, <3>1, <3>2, <4>1 DEF Moved, SetBy, ToUndo
    <3> QED
      BY <1>0, <3>1, <3>3, <3>4 DEF Ahead, Behind, Parts
  <2> QED
    BY <1>4, <2>2, UndoBegins DEF RestoreSteps, SwapSteps
<1> QED
  BY <1>3, <1>4 DEF SwapKeeps

LEMMA MovesSwap ==
    ASSUME TInv, NEW j \in Jobs, Restoring(j), SwapMoves(j)
    PROVE  Restoring(j)'
<1> DEFINE at == my[j].at
<1>0. /\ TypeOK /\ my[j] \in Locals /\ at \in Parts /\ my[j].targets \subseteq Parts
      /\ aside \in [Parts -> Content] /\ faults \in Nat /\ dir \in [Parts -> Content]
  BY MyFields, WorldFilesAssumption DEF TInv, TypeOK
<1>1. pc[j] = "x.aside" /\ previous' = previous
  BY DEF SwapMoves, Goes, Undoes
<1>2. /\ my[j].targets # {} /\ at \in my[j].targets
      /\ \A p \in my[j].targets : my[j].was[p] # "none" /\ Swapping(j, p)
  BY <1>1 DEF Restoring, Folder, RestoreSteps, SwapSteps
<1>3. HalfWay(j, at) /\ dir[at] # "none"
  BY <1>0, <1>1, <1>2 DEF Swapping, At, HalfWay
<1>4. CASE Works /\ Goes(j, "x.aside", "x.make")
  <2>1. pc'[j] = "x.make"
    BY <1>0, <1>4 DEF Goes, TypeOK
  <2>2. /\ my'[j].at = at /\ my'[j].targets = my[j].targets /\ my'[j].kept = my[j].kept
        /\ my'[j].was = my[j].was /\ my'[j].wasAside = my[j].wasAside
        /\ my'[j].moved = my[j].moved \cup {at}
    BY <1>0, <1>3, <1>4 DEF SwapMoves, Undoes, Goes, TypeOK, Locals
  <2>3. /\ \A p \in Parts \ {at} : aside'[p] = aside[p] /\ dir'[p] = dir[p]
        /\ aside'[at] = dir[at] /\ dir'[at] = "none"
    BY <1>0, <1>3, <1>4 DEF SwapMoves, Undoes, Goes, Write, TypeOK
  <2>4. ASSUME NEW p \in my[j].targets PROVE (Swapping(j, p))'
    <3>1. p \in Parts /\ Swapping(j, p)
      BY <1>0, <1>2
    <3>2. CASE p = at
      <4>1. (Moved(j, p))' /\ dir'[p] = "none"
        BY <1>1, <1>3, <2>2, <2>3, <3>2 DEF HalfWay, Moved, SetBy
      <4> QED
        BY <2>1, <2>2, <3>2, <4>1 DEF Swapping, Ahead, Behind, At
    <3>3. CASE p # at
      <4>1. (Untouched(j, p) => (Untouched(j, p))') /\ (Moved(j, p) => (Moved(j, p))')
        BY <1>1, <2>2, <2>3, <3>1, <3>3 DEF Untouched, AsItWas, Moved, SetBy
      <4> QED
        BY <1>1, <2>2, <2>3, <3>1, <3>3, <4>1 DEF Swapping, Ahead, Behind, At
    <3> QED
      BY <3>2, <3>3
  <2> QED
    BY <1>2, <2>1, <2>2, <2>4 DEF Restoring, Folder, SwapSteps, UndoSteps
<1>5. CASE Fails /\ Undoes(j, "x.aside")
  <2>1. UNCHANGED files /\ faults' # 0
    <3>1. UNCHANGED <<aside, dir>>
      BY <1>0, <1>5 DEF SwapMoves, Undoes, Goes, TypeOK, Fails, Works
    <3> QED
      BY <1>0, <1>1, <1>5, <3>1 DEF files, Fails
  <2>2. ASSUME NEW p \in my[j].targets PROVE (ToUndo(j, p))'
    <3>1. p \in Parts /\ Swapping(j, p)
      BY <1>0, <1>2
    <3>2. /\ my'[j].moved = my[j].moved /\ my'[j].kept = my[j].kept
          /\ my'[j].was = my[j].was /\ my'[j].wasAside = my[j].wasAside
      BY <1>0, <1>5, UndoesFields
    <3>3. Untouched(j, p) \/ HalfWay(j, p) \/ Moved(j, p)
      BY <1>0, <1>3, <3>1 DEF Swapping, Ahead, Behind, Parts
    <3> QED
      BY <2>1, <3>2, <3>3 DEF files, ToUndo, Untouched, HalfWay, Moved, AsItWas, SetBy
  <2> QED
    BY <1>5, <2>2, UndoBegins DEF RestoreSteps, SwapSteps
<1> QED
  BY <1>4, <1>5 DEF SwapMoves

LEMMA MakesSwap ==
    ASSUME TInv, NEW j \in Jobs, Restoring(j), SwapMakes(j)
    PROVE  Restoring(j)'
<1> DEFINE at == my[j].at
<1>0. /\ TypeOK /\ my[j] \in Locals /\ at \in Parts /\ my[j].targets \subseteq Parts
      /\ faults \in Nat /\ dir \in [Parts -> Content]
  BY MyFields, WorldFilesAssumption DEF TInv, TypeOK
<1>1. pc[j] = "x.make" /\ UNCHANGED <<aside, previous>>
  BY DEF SwapMakes, Goes, Undoes
<1>2. /\ my[j].targets # {} /\ at \in my[j].targets
      /\ \A p \in my[j].targets : my[j].was[p] # "none" /\ Swapping(j, p)
  BY <1>1 DEF Restoring, Folder, RestoreSteps, SwapSteps
<1>3. Moved(j, at) /\ dir[at] = "none"
  BY <1>0, <1>1, <1>2 DEF Swapping, At
<1>4. CASE Works /\ \/ MoreSwaps(j) /\ Goes(j, "x.make", "x.keep")
                    \/ ~MoreSwaps(j) /\ Goes(j, "x.make", "x.open")
  <2>1. pc'[j] = IF MoreSwaps(j) THEN "x.keep" ELSE "x.open"
    BY <1>0, <1>4 DEF Goes, TypeOK
  <2>2. /\ my'[j].at = IF MoreSwaps(j) THEN "Server" ELSE at
        /\ my'[j].targets = my[j].targets /\ my'[j].kept = my[j].kept
        /\ my'[j].was = my[j].was /\ my'[j].wasAside = my[j].wasAside
        /\ my'[j].moved = my[j].moved
    <3>1. my' = IF MoreSwaps(j) THEN [my EXCEPT ![j].at = "Server"] ELSE my
      BY <1>0, <1>4 DEF SwapMakes, Undoes, Goes, Keeps, TypeOK
    <3> QED
      BY <1>0, <3>1 DEF TypeOK, Locals
  <2>3. dir'[at] = "empty" /\ \A p \in Parts \ {at} : dir'[p] = dir[p]
    BY <1>0, <1>3, <1>4 DEF SwapMakes, Undoes, Goes, Write, TypeOK
  <2>4. ASSUME NEW p \in my[j].targets
        PROVE  /\ p = at \/ Behind(j, p) => (Moved(j, p))' /\ dir'[p] = "empty"
               /\ Ahead(j, p) => (Untouched(j, p))'
    <3>1. p \in Parts /\ Swapping(j, p)
      BY <1>0, <1>2
    <3>2. (Untouched(j, p) => p = at \/ (Untouched(j, p))') /\ (Moved(j, p) => (Moved(j, p))')
      BY <1>1, <2>2, <2>3, <3>1 DEF Untouched, AsItWas, Moved, SetBy
    <3> QED
      BY <1>3, <2>3, <3>1, <3>2 DEF Swapping, Ahead, Behind
  <2>5. CASE MoreSwaps(j)
    <3>1. ASSUME NEW p \in my[j].targets PROVE (Swapping(j, p))'
      BY <1>0, <2>1, <2>2, <2>4, <2>5 DEF Swapping, Ahead, Behind, At, MoreSwaps, Parts
    <3> QED
      BY <1>2, <2>1, <2>2, <2>5, <3>1 DEF Restoring, Folder, SwapSteps, UndoSteps, MoreSwaps
  <2>6. CASE ~MoreSwaps(j)
    <3>1. ASSUME NEW p \in my[j].targets PROVE (Moved(j, p))' /\ dir'[p] = "empty"
      BY <1>0, <2>4, <2>6 DEF MoreSwaps, Behind, Parts
    <3> QED
      BY <1>2, <2>1, <2>2, <2>6, <3>1 DEF Restoring, Folder, SwapSteps, UndoSteps
  <2> QED
    BY <2>5, <2>6
<1>5. CASE Fails /\ Undoes(j, "x.make")
  <2>1. UNCHANGED files /\ faults' # 0
    <3>1. dir' = dir
      BY <1>0, <1>5 DEF SwapMakes, Undoes, Goes, TypeOK, Fails, Works
    <3> QED
      BY <1>0, <1>1, <1>5, <3>1 DEF files, Fails
  <2>2. ASSUME NEW p \in my[j].targets PROVE (ToUndo(j, p))'
    <3>1. p \in Parts /\ Swapping(j, p)
      BY <1>0, <1>2
    <3>2. /\ my'[j].moved = my[j].moved /\ my'[j].kept = my[j].kept
          /\ my'[j].was = my[j].was /\ my'[j].wasAside = my[j].wasAside
      BY <1>0, <1>5, UndoesFields
    <3>3. Untouched(j, p) \/ HalfWay(j, p) \/ Moved(j, p)
      BY <1>0, <1>3, <3>1 DEF Swapping, Ahead, Behind, Parts
    <3> QED
      BY <2>1, <3>2, <3>3 DEF files, ToUndo, Untouched, HalfWay, Moved, AsItWas, SetBy
  <2> QED
    BY <1>5, <2>2, UndoBegins DEF RestoreSteps, SwapSteps
<1> QED
  BY <1>4, <1>5 DEF SwapMakes

LEMMA OpensSwap ==
    ASSUME TInv, NEW j \in Jobs, Restoring(j), RestoreOpens(j)
    PROVE  Restoring(j)'
<1>0. /\ TypeOK /\ my[j] \in Locals /\ my[j].targets \subseteq Parts
      /\ dir \in [Parts -> Content]
  BY MyFields DEF TInv, TypeOK
<1>1. pc[j] = "x.open" /\ UNCHANGED <<aside, previous, faults>>
  BY DEF RestoreOpens, Goes, Undoes
<1>2. /\ my[j].targets # {} /\ my[j].at \in my[j].targets
      /\ \A p \in my[j].targets :
           my[j].was[p] # "none" /\ Moved(j, p) /\ dir[p] = "empty"
  BY <1>1 DEF Restoring, Folder, RestoreSteps
<1>3. CASE my[j].id \in DOMAIN archives
  <2>1. pc'[j] = "x.unpack"
    BY <1>0, <1>3 DEF Goes, TypeOK, RestoreOpens
  <2>2. /\ my'[j].at = my[j].at /\ my'[j].targets = my[j].targets /\ my'[j].kept = my[j].kept
        /\ my'[j].was = my[j].was /\ my'[j].wasAside = my[j].wasAside
        /\ my'[j].moved = my[j].moved
    BY <1>0, <1>3 DEF RestoreOpens, TypeOK, Locals
  <2>3. \A p \in my[j].targets : dir'[p] = "half"
    BY <1>0, <1>3 DEF RestoreOpens, Write
  <2>4. ASSUME NEW p \in my[j].targets PROVE (Moved(j, p))'
    BY <1>1, <1>2, <2>2 DEF Moved, SetBy
  <2> QED
    BY <1>2, <2>1, <2>2, <2>3, <2>4 DEF Restoring, Folder, SwapSteps, UndoSteps
<1>4. CASE my[j].id \notin DOMAIN archives
  <2>1. Undoes(j, "x.open") /\ dir' = dir
    BY <1>4 DEF RestoreOpens
  <2>2. /\ my'[j].moved = my[j].moved /\ my'[j].kept = my[j].kept
        /\ my'[j].was = my[j].was /\ my'[j].wasAside = my[j].wasAside
    BY <1>0, <2>1, UndoesFields
  <2>3. ASSUME NEW p \in my[j].targets PROVE (ToUndo(j, p))'
    BY <1>1, <1>2, <2>1, <2>2 DEF ToUndo, Moved, SetBy
  <2> QED
    BY <2>1, <2>3, UndoBegins DEF RestoreSteps
<1> QED
  BY <1>3, <1>4

LEMMA UnpacksSwap ==
    ASSUME TInv, NEW j \in Jobs, Restoring(j), RestoreUnpacked(j)
    PROVE  Restoring(j)'
<1>0. /\ TypeOK /\ my[j] \in Locals /\ my[j].targets \subseteq Parts
      /\ dir \in [Parts -> Content] /\ faults \in Nat
  BY MyFields, WorldFilesAssumption DEF TInv, TypeOK
<1>1. pc[j] = "x.unpack" /\ UNCHANGED <<aside, previous>>
  BY DEF RestoreUnpacked, Goes, Undoes
<1>2. /\ my[j].targets # {}
      /\ \A p \in my[j].targets :
           my[j].was[p] # "none" /\ Moved(j, p) /\ dir[p] = "half"
  BY <1>1 DEF Restoring, Folder, RestoreSteps
<1>3. CASE Goes(j, "x.unpack", "x.commit")
  <2>1. pc'[j] = "x.commit"
    BY <1>0, <1>3 DEF Goes, TypeOK
  <2>2. /\ my'[j].at = First(my[j].targets) /\ my'[j].targets = my[j].targets
        /\ my'[j].was = my[j].was /\ my'[j].moved = my[j].moved
    <3>1. my' = [my EXCEPT ![j].at = First(my[j].targets), ![j].open = NoFolders]
      BY <1>0, <1>3 DEF RestoreUnpacked, Undoes, Goes, TypeOK
    <3> QED
      BY <1>0, <3>1 DEF TypeOK, Locals
  <2>3. my'[j].at \in my[j].targets
    BY <1>0, <1>2, <2>2, FirstIsNext
  <2> QED
    BY <1>1, <1>2, <2>1, <2>2, <2>3 DEF Restoring, Folder, Moved, SwapSteps, UndoSteps
<1>4. CASE Fails /\ Undoes(j, "x.unpack") /\ dir' = dir
  <2>1. faults' # 0
    BY <1>0, <1>4 DEF Fails
  <2>2. /\ my'[j].moved = my[j].moved /\ my'[j].kept = my[j].kept
        /\ my'[j].was = my[j].was /\ my'[j].wasAside = my[j].wasAside
    BY <1>0, <1>4, UndoesFields
  <2>3. ASSUME NEW p \in my[j].targets PROVE (ToUndo(j, p))'
    BY <1>1, <1>2, <2>1, <2>2 DEF ToUndo, Moved, SetBy
  <2> QED
    BY <1>4, <2>3, UndoBegins DEF RestoreSteps
<1> QED
  BY <1>3, <1>4 DEF RestoreUnpacked

LEMMA CommitsSwap ==
    ASSUME TInv, NEW j \in Jobs, Restoring(j), RestoreCommits(j)
    PROVE  Restoring(j)'
<1>0. /\ TypeOK /\ my[j] \in Locals /\ my[j].targets \subseteq Parts
  BY MyFields DEF TInv
<1>1. pc[j] = "x.commit" /\ UNCHANGED <<aside, dir>>
  BY DEF RestoreCommits
<1>2. /\ my[j].targets # {} /\ my[j].at \in my[j].targets
      /\ \A p \in my[j].targets :
           my[j].was[p] # "none" /\ p \in my[j].moved /\ aside[p] = my[j].was[p]
  BY <1>1 DEF Restoring, Folder, RestoreSteps
<1>3. CASE MoreSwaps(j)
  <2>1. pc' = pc /\ my' = [my EXCEPT ![j].at = "Server"]
    BY <1>3 DEF RestoreCommits
  <2>2. /\ my'[j].at = "Server" /\ my'[j].targets = my[j].targets
        /\ my'[j].was = my[j].was /\ my'[j].moved = my[j].moved
    BY <1>0, <2>1 DEF TypeOK, Locals
  <2> QED
    BY <1>1, <1>2, <1>3, <2>1, <2>2 DEF Restoring, Folder, SwapSteps, UndoSteps, MoreSwaps
<1>4. CASE ~MoreSwaps(j)
  <2>1. pc'[j] = "idle"
    BY <1>0, <1>4, ReturnsMine DEF RestoreCommits
  <2> QED
    BY <2>1, StepNames DEF Restoring
<1> QED
  BY <1>3, <1>4

LEMMA DropsSwap ==
    ASSUME TInv, NEW j \in Jobs, Restoring(j), UndoDrops(j)
    PROVE  Restoring(j)'
<1> DEFINE at == my[j].at
<1>0. /\ TypeOK /\ my[j] \in Locals /\ at \in Parts /\ my[j].targets \subseteq Parts
      /\ dir \in [Parts -> Content]
  BY MyFields DEF TInv, TypeOK
<1>1. pc[j] = "u.drop" /\ UNCHANGED <<aside, previous, faults, my>>
  BY DEF UndoDrops, Goes, Keeps
<1>2. /\ my[j].targets # {} /\ at \in my[j].targets
      /\ \A p \in my[j].targets : my[j].was[p] # "none" /\ Undoing(j, p)
  BY <1>1 DEF Restoring, Folder, RestoreSteps, UndoSteps
<1>3. pc'[j] = IF at \in my[j].moved THEN "u.back" ELSE "u.keep"
  BY <1>0 DEF Goes, TypeOK, UndoDrops
<1>4. /\ \A p \in Parts \ {at} : dir'[p] = dir[p]
      /\ dir'[at] = IF at \in my[j].moved THEN "none" ELSE dir[at]
  BY <1>0 DEF UndoDrops, Write
<1>5. ToUndo(j, at)
  BY <1>0, <1>1, <1>2 DEF Undoing, At
<1>6. ASSUME NEW p \in my[j].targets PROVE (Undoing(j, p))'
  <2>1. p \in Parts /\ Undoing(j, p)
    BY <1>0, <1>2
  <2>2. CASE p # at
    <3>1. (ToUndo(j, p) => (ToUndo(j, p))') /\ (AsItWas(j, p) => (AsItWas(j, p))')
      BY <1>1, <1>4, <2>1, <2>2 DEF ToUndo, AsItWas, Moved, HalfWay, Untouched, SetBy
    <3> QED
      BY <1>1, <2>1, <2>2, <3>1 DEF Undoing, Ahead, Behind, At
  <2>3. CASE p = at /\ at \in my[j].moved
    <3>1. Moved(j, at)
      BY <1>5, <2>3 DEF ToUndo, HalfWay, Untouched
    <3>2. (Moved(j, at))' /\ dir'[at] = "none"
      BY <1>1, <1>4, <2>3, <3>1 DEF Moved, SetBy
    <3> QED
      BY <1>0, <1>1, <1>3, <2>3, <3>2 DEF Undoing, Ahead, Behind, At
  <2>4. CASE p = at /\ at \notin my[j].moved
    <3>1. HalfWay(j, at) \/ Untouched(j, at)
      BY <1>5, <2>4 DEF ToUndo, Moved
    <3>2. (PutBack(j, at))'
      BY <1>0, <1>1, <1>4, <2>4, <3>1 DEF PutBack, HalfWay, Untouched, AsItWas, SetBy
    <3> QED
      BY <1>0, <1>1, <1>3, <2>4, <3>2 DEF Undoing, Ahead, Behind, At
  <2> QED
    BY <2>2, <2>3, <2>4
<1> QED
  BY <1>1, <1>2, <1>3, <1>6 DEF Restoring, Folder, SwapSteps, UndoSteps

LEMMA BacksSwap ==
    ASSUME TInv, NEW j \in Jobs, Restoring(j), UndoMovesBack(j)
    PROVE  Restoring(j)'
<1> DEFINE at == my[j].at
<1>0. /\ TypeOK /\ my[j] \in Locals /\ at \in Parts /\ my[j].targets \subseteq Parts
      /\ dir \in [Parts -> Content] /\ aside \in [Parts -> Content]
  BY MyFields DEF TInv, TypeOK
<1>1. pc[j] = "u.back" /\ UNCHANGED <<previous, faults, my>>
  BY DEF UndoMovesBack, Goes, Keeps
<1>2. /\ my[j].targets # {} /\ at \in my[j].targets
      /\ \A p \in my[j].targets : my[j].was[p] # "none" /\ Undoing(j, p)
  BY <1>1 DEF Restoring, Folder, RestoreSteps, UndoSteps
<1>3. pc'[j] = "u.keep"
  BY <1>0 DEF Goes, TypeOK, UndoMovesBack
<1>4. /\ \A p \in Parts \ {at} : dir'[p] = dir[p] /\ aside'[p] = aside[p]
      /\ dir'[at] = aside[at] /\ aside'[at] = "none"
  BY <1>0 DEF UndoMovesBack, Write
<1>5. Moved(j, at)
  BY <1>0, <1>1, <1>2 DEF Undoing, At
<1>6. ASSUME NEW p \in my[j].targets PROVE (Undoing(j, p))'
  <2>1. p \in Parts /\ Undoing(j, p)
    BY <1>0, <1>2
  <2>2. CASE p # at
    <3>1. (ToUndo(j, p) => (ToUndo(j, p))') /\ (AsItWas(j, p) => (AsItWas(j, p))')
      BY <1>1, <1>4, <2>1, <2>2 DEF ToUndo, AsItWas, Moved, HalfWay, Untouched, SetBy
    <3> QED
      BY <1>1, <2>1, <2>2, <3>1 DEF Undoing, Ahead, Behind, At
  <2>3. CASE p = at
    <3>1. (PutBack(j, at))'
      BY <1>1, <1>4, <1>5 DEF PutBack, Moved, SetBy
    <3> QED
      BY <1>0, <1>1, <1>3, <2>3, <3>1 DEF Undoing, Ahead, Behind, At
  <2> QED
    BY <2>2, <2>3
<1> QED
  BY <1>1, <1>2, <1>3, <1>6 DEF Restoring, Folder, SwapSteps, UndoSteps

\* Where a rollback leaves the folder it worked on.
LEMMA KeptBack ==
    ASSUME TInv, NEW j \in Jobs, Restoring(j), UndoKeeps(j)
    PROVE  \A p \in my[j].targets :
             /\ p = my[j].at \/ Behind(j, p)
                  => dir'[p] = my[j].was[p] /\ aside'[p] = my[j].wasAside[p]
             /\ p # my[j].at
                  => /\ aside'[p] = aside[p] /\ dir'[p] = dir[p] /\ previous'[p] = previous[p]
<1> DEFINE at == my[j].at
<1>0. /\ TypeOK /\ at \in Parts /\ my[j].targets \subseteq Parts
      /\ previous \in [Parts -> Content] /\ aside \in [Parts -> Content]
  BY MyFields DEF TInv, TypeOK
<1>1. pc[j] = "u.keep" /\ dir' = dir
  BY DEF UndoKeeps
<1>2. /\ at \in my[j].targets /\ \A p \in my[j].targets : Undoing(j, p)
  BY <1>1 DEF Restoring, Folder, RestoreSteps, UndoSteps
<1>3. PutBack(j, at)
  BY <1>0, <1>1, <1>2 DEF Undoing, At
<1>4. /\ \A p \in Parts \ {at} : previous'[p] = previous[p] /\ aside'[p] = aside[p]
      /\ aside'[at] = IF at \in my[j].kept THEN previous[at] ELSE aside[at]
  BY <1>0 DEF UndoKeeps
<1>5. dir'[at] = my[j].was[at] /\ aside'[at] = my[j].wasAside[at]
  BY <1>1, <1>3, <1>4 DEF PutBack
<1>6. ASSUME NEW p \in my[j].targets, p # at, Behind(j, p)
      PROVE  dir'[p] = my[j].was[p] /\ aside'[p] = my[j].wasAside[p]
  BY <1>0, <1>1, <1>2, <1>4, <1>6 DEF Undoing, AsItWas
<1> QED
  BY <1>0, <1>1, <1>4, <1>5, <1>6

LEMMA UndoesNext ==
    ASSUME TInv, NEW j \in Jobs, Restoring(j), UndoKeeps(j)
    PROVE  Restoring(j)'
<1> DEFINE at == my[j].at
<1>0. /\ TypeOK /\ my[j] \in Locals /\ at \in Parts /\ my[j].targets \subseteq Parts
  BY MyFields DEF TInv, TypeOK
<1>1. pc[j] = "u.keep" /\ UNCHANGED faults
  BY DEF UndoKeeps
<1>2. /\ my[j].targets # {} /\ at \in my[j].targets
      /\ \A p \in my[j].targets : my[j].was[p] # "none" /\ Undoing(j, p)
  BY <1>1 DEF Restoring, Folder, RestoreSteps, UndoSteps
<1>3. CASE MoreSwaps(j)
  <2>1. pc'[j] = "u.drop" /\ my' = [my EXCEPT ![j].at = "Server"]
    BY <1>0, <1>3 DEF UndoKeeps, Goes, TypeOK
  <2>2. /\ my'[j].at = "Server" /\ my'[j].targets = my[j].targets
        /\ my'[j].was = my[j].was /\ my'[j].moved = my[j].moved
        /\ my'[j].kept = my[j].kept /\ my'[j].wasAside = my[j].wasAside
    BY <1>0, <2>1 DEF TypeOK, Locals
  <2>3. at = "Saves" /\ "Server" \in my[j].targets
    BY <1>3 DEF MoreSwaps
  <2>4. ASSUME NEW p \in my[j].targets PROVE (Undoing(j, p))'
    <3>1. CASE p = "Saves"
      <4>1. (AsItWas(j, p))'
        BY <2>2, <2>3, <3>1, KeptBack DEF AsItWas
      <4> QED
        BY <2>2, <3>1, <4>1 DEF Undoing, Ahead, Behind, At
    <3>2. CASE p = "Server"
      <4>1. ToUndo(j, p)
        BY <1>2, <2>3, <3>2 DEF Undoing, Ahead
      <4>2. aside'[p] = aside[p] /\ dir'[p] = dir[p] /\ previous'[p] = previous[p]
        BY <2>3, <3>2, KeptBack
      <4>3. (ToUndo(j, p))'
        BY <1>1, <2>2, <4>1, <4>2 DEF ToUndo, Moved, HalfWay, Untouched, AsItWas, SetBy
      <4> QED
        BY <2>1, <2>2, <3>2, <4>3 DEF Undoing, Ahead, Behind, At
    <3> QED
      BY <1>0, <3>1, <3>2 DEF Parts
  <2> QED
    BY <1>2, <2>1, <2>2, <2>3, <2>4 DEF Restoring, Folder, SwapSteps, UndoSteps
<1>4. CASE ~MoreSwaps(j)
  <2>1. pc'[j] = "idle"
    BY <1>0, <1>4, ReturnsMine DEF UndoKeeps
  <2> QED
    BY <2>1, StepNames DEF Restoring
<1> QED
  BY <1>3, <1>4

\* Files are the lock holder's, or the game's.
LEMMA HolderAlone ==
    ASSUME TInv, NEW j \in Jobs, NEW k \in Jobs, k # j,
           pc[j] \in RestoreSteps, Ask(k) \/ JobStep(k)
    PROVE  UNCHANGED files
<1>0. /\ TypeOK /\ lock = j /\ lock # "free" /\ pc[k] \notin Locked
      /\ RestoreSteps \subseteq Locked
  BY StepNames, WorldFilesAssumption DEF TInv, Owners, FilesHaveOneOwner
<1>1. CASE Ask(k)
  BY <1>1 DEF Ask
<1>2. CASE Restores(k)
  <2>1. ~RestoreBegins(k)
    BY <1>0 DEF RestoreBegins, Takes
  <2>2. pc[k] \in RestoreSteps
    BY <1>2, <2>1 DEF Restores, SwapKeeps, SwapMoves, SwapMakes, RestoreOpens, RestoreUnpacked,
                      RestoreCommits, UndoDrops, UndoMovesBack, UndoKeeps, UndoStops, Goes,
                      Undoes, RestoreSteps, SwapSteps, UndoSteps
  <2> QED
    BY <1>0, <2>2
<1>3. CASE ResetMoves(k)
  BY <1>0, <1>3 DEF ResetMoves, Takes, files
<1>4. CASE BackupBegins(k) \/ BackupRenames(k) \/ BackupFails(k) \/ BackupPrunes(k)
  BY <1>4 DEF BackupBegins, BackupRenames, BackupFails, BackupPrunes
<1>5. CASE \/ ResetDeletes(k) \/ DuplicateHolds(k) \/ DuplicateCopied(k)
           \/ DuplicateFinishes(k) \/ DuplicateReleases(k) \/ StartCalls(k)
  BY <1>5 DEF ResetDeletes, DuplicateHolds, DuplicateCopied, DuplicateFinishes,
              DuplicateReleases, StartCalls
<1> QED
  BY <1>1, <1>2, <1>3, <1>4, <1>5 DEF JobStep, Restores

\* Failures only add up.
LEMMA FaultsGrow ==
    ASSUME TypeOK, [Next]_vars
    PROVE  faults \in Nat /\ faults' \in {faults, faults + 1}
<1>0. faults \in Nat
  BY WorldFilesAssumption DEF TypeOK
<1> USE DEF Works, Fails
<1>1. ASSUME NEW j \in Jobs, JobStep(j) PROVE faults' \in {faults, faults + 1}
  <2>1. CASE BackupBegins(j) \/ BackupRenames(j) \/ BackupFails(j) \/ BackupPrunes(j)
    BY <2>1 DEF BackupBegins, BackupRenames, BackupFails, BackupPrunes
  <2>2. CASE RestoreBegins(j) \/ SwapKeeps(j) \/ SwapMoves(j) \/ SwapMakes(j)
    BY <2>2 DEF RestoreBegins, SwapKeeps, SwapMoves, SwapMakes
  <2>3. CASE RestoreOpens(j) \/ RestoreUnpacked(j) \/ RestoreCommits(j)
    BY <2>3 DEF RestoreOpens, RestoreUnpacked, RestoreCommits
  <2>4. CASE UndoDrops(j) \/ UndoMovesBack(j) \/ UndoKeeps(j) \/ UndoStops(j)
    BY <2>4 DEF UndoDrops, UndoMovesBack, UndoKeeps, UndoStops
  <2>5. CASE \/ ResetMoves(j) \/ ResetDeletes(j) \/ DuplicateHolds(j) \/ DuplicateCopied(j)
             \/ DuplicateFinishes(j) \/ DuplicateReleases(j) \/ StartCalls(j)
    BY <2>5 DEF ResetMoves, ResetDeletes, DuplicateHolds, DuplicateCopied, DuplicateFinishes,
                DuplicateReleases, StartCalls
  <2> QED
    BY <1>1, <2>1, <2>2, <2>3, <2>4, <2>5 DEF JobStep
<1> QED
  BY <1>0, <1>1 DEF Next, Ask, DeleteArchive, GameLoads, GameSaves, GameStops, PZAdminDies, vars

\* The steps a job is not in a restore after.
LEMMA NoRestoreAfter ==
    ASSUME TypeOK, NEW j \in Jobs, Ask(j) \/ JobStep(j), ~Restores(j)
    PROVE  pc[j] \notin RestoreSteps /\ pc'[j] \notin RestoreSteps
<1> USE DEF TypeOK, Goes, Returns, RestoreSteps, SwapSteps, UndoSteps
<1>1. CASE Ask(j)
  BY <1>1, ZenonT(60) DEF Ask
<1>2. CASE BackupBegins(j) \/ BackupRenames(j) \/ BackupFails(j) \/ BackupPrunes(j)
  BY <1>2 DEF BackupBegins, BackupRenames, BackupFails, BackupPrunes
<1>3. CASE ResetMoves(j) \/ ResetDeletes(j) \/ StartCalls(j)
  BY <1>3 DEF ResetMoves, ResetDeletes, StartCalls
<1>4. CASE \/ DuplicateHolds(j) \/ DuplicateCopied(j) \/ DuplicateFinishes(j)
           \/ DuplicateReleases(j)
  BY <1>4 DEF DuplicateHolds, DuplicateCopied, DuplicateFinishes, DuplicateReleases
<1> QED
  BY <1>1, <1>2, <1>3, <1>4 DEF JobStep, Restores

\* Nothing happens in a step of nobody's to a restore and its files, but that
\* PZAdmin may die.
LEMMA NobodysStep ==
    ASSUME TInv, ColdInv, NEW j \in Jobs, pc[j] \in RestoreSteps,
           DeleteArchive \/ GameLoads \/ GameSaves \/ GameStops \/ UNCHANGED vars
    PROVE  UNCHANGED <<files, pc, my, faults, archived>>
<1>1. game = "down"
  BY DEF ColdInv, Quiet
<1> QED
  BY <1>1 DEF DeleteArchive, GameLoads, GameSaves, GameStops, vars, files, history

LEMMA SwapStep == TInv /\ ColdInv /\ SwapInv /\ [Next]_vars => SwapInv'
<1> SUFFICES ASSUME TInv, ColdInv, SwapInv, [Next]_vars, NEW j \in Jobs PROVE Restoring(j)'
  BY DEF SwapInv, Restoring
<1>0. TypeOK /\ Restoring(j) /\ (faults' = 0 => faults = 0)
  BY FaultsGrow DEF TInv, SwapInv, Restoring
<1>1. ASSUME Restores(j) PROVE Restoring(j)'
  BY <1>0, <1>1, BeginsSwap, KeepsSwap, MovesSwap, MakesSwap, OpensSwap, UnpacksSwap,
     CommitsSwap, DropsSwap, BacksSwap, UndoesNext, ReturnsMine, StepNames
  DEF Restores, UndoStops, Restoring
<1>2. ASSUME Ask(j) \/ JobStep(j), ~Restores(j) PROVE Restoring(j)'
  BY <1>0, <1>2, NoRestoreAfter DEF Restoring
<1>3. ASSUME NEW k \in Jobs, k # j, Ask(k) \/ JobStep(k) PROVE Restoring(j)'
  <2>1. my'[j] = my[j] /\ pc'[j] = pc[j]
    BY <1>0, <1>3, OthersStay
  <2>2. CASE pc[j] \in RestoreSteps
    BY <1>0, <1>3, <2>1, <2>2, HolderAlone, FolderStays
  <2>3. CASE pc[j] \notin RestoreSteps
    BY <2>1, <2>3 DEF Restoring
  <2> QED
    BY <2>2, <2>3
<1>4. ASSUME DeleteArchive \/ GameLoads \/ GameSaves \/ GameStops \/ UNCHANGED vars
      PROVE  Restoring(j)'
  <2>1. CASE pc[j] \in RestoreSteps
    BY <1>0, <1>4, <2>1, NobodysStep, FolderStays
  <2>2. CASE pc[j] \notin RestoreSteps
    <3>1. pc' = pc
      BY <1>4 DEF DeleteArchive, GameLoads, GameSaves, GameStops, vars
    <3> QED
      BY <2>2, <3>1 DEF Restoring
  <2> QED
    BY <2>1, <2>2
<1>5. CASE PZAdminDies
  BY <1>5, StepNames DEF PZAdminDies, Restoring
<1> QED
  BY <1>1, <1>2, <1>3, <1>4, <1>5 DEF Next

\* What holds of restores while operators wait.
KeepInv == TInv /\ ReadInv /\ ColdInv /\ SwapInv

LEMMA KeepInitially == Init /\ Careful => KeepInv
<1> SUFFICES ASSUME Init, Careful PROVE KeepInv
  OBVIOUS
<1>1. WholeInv
  BY WholeInitially
<1>2. SwapInv
  BY StepNames DEF Init, SwapInv
<1> QED
  BY <1>1, <1>2 DEF WholeInv, KeepInv

LEMMA KeepStep == KeepInv /\ Careful /\ [Next]_vars => KeepInv'
BY TypeStep, ReadStep, ColdStep, SwapStep DEF KeepInv

LEMMA Survives == KeepInv => WorldSurvivesRestore
<1> SUFFICES ASSUME KeepInv, NEW j \in Jobs, pc[j] \in RestoreSteps, NEW p \in my[j].targets
             PROVE  my[j].was[p] \in {dir[p], aside[p]}
  BY DEF WorldSurvivesRestore
<1>1. p \in Parts /\ my[j].at \in Parts
  BY MyFields DEF KeepInv, TInv
<1>2. Folder(j, p)
  BY DEF KeepInv, SwapInv
<1>3. CASE pc[j] \in SwapSteps
  BY <1>1, <1>2, <1>3 DEF Folder, Swapping, Ahead, Behind, At, SwapSteps, Parts, Untouched,
                          HalfWay, Moved, AsItWas
<1>4. CASE pc[j] \in UndoSteps
  BY <1>1, <1>2, <1>4 DEF Folder, Undoing, Ahead, Behind, At, UndoSteps, Parts, ToUndo,
                          Untouched, HalfWay, Moved, AsItWas, PutBack
<1>5. CASE pc[j] \in {"x.open", "x.unpack", "x.commit"}
  BY <1>2, <1>5 DEF Folder, Moved
<1> QED
  BY <1>3, <1>4, <1>5 DEF RestoreSteps

\* The end of an undo that works.
LEMMA PutsBack ==
    ASSUME KeepInv, [Next]_vars, NEW j \in Jobs,
           pc[j] = "u.keep", pc'[j] = "idle", faults' = faults,
           NEW p \in my[j].targets
    PROVE  dir'[p] = my[j].was[p] /\ aside'[p] = my[j].wasAside[p]
<1>0. /\ TInv /\ TypeOK /\ faults \in Nat /\ Restoring(j)
      /\ my[j].targets \subseteq Parts /\ my[j].at \in Parts
  BY FaultsGrow, MyFields DEF KeepInv, TInv, SwapInv, Restoring
<1>1. ~PZAdminDies /\ ~UndoStops(j)
  BY <1>0 DEF PZAdminDies, UndoStops, Fails
<1>2. pc' # pc
  OBVIOUS
<1>3. PICK k \in Jobs : Ask(k) \/ JobStep(k)
  BY <1>1, <1>2 DEF Next, DeleteArchive, GameLoads, GameSaves, GameStops, vars
<1>4. k = j
  BY <1>0, <1>3, OthersStay
<1>5. UndoKeeps(j)
  BY <1>1, <1>3, <1>4 DEF Ask, JobStep, BackupBegins, BackupRenames, BackupFails, BackupPrunes,
       RestoreBegins, SwapKeeps, SwapMoves, SwapMakes, RestoreOpens, RestoreUnpacked,
       RestoreCommits, UndoDrops, UndoMovesBack, ResetMoves, ResetDeletes, DuplicateHolds,
       DuplicateCopied, DuplicateFinishes, DuplicateReleases, StartCalls, Goes, Returns, Undoes
<1>6. ~MoreSwaps(j)
  BY <1>0, <1>5 DEF UndoKeeps, Goes, TypeOK
<1>7. p = my[j].at \/ Behind(j, p)
  BY <1>0, <1>6 DEF MoreSwaps, Behind, Parts
<1> QED
  BY <1>0, <1>5, <1>7, KeptBack

\* Whatever happens to a restore while operators wait, crashes and failing
\* calls included, the world there was is in its folder or set aside until the
\* restore has succeeded, and an undo that works puts back the folders and the
\* copies older restores had set aside.  ([]Careful: Careful is a constant.)
THEOREM KeepsTheWorld == Spec /\ []Careful => RestoreKeepsTheWorld
<1>1. KeepInv /\ [Next]_vars
        => [\A j \in Jobs :
              pc[j] = "u.keep" /\ pc'[j] = "idle" /\ faults' = faults =>
                \A p \in my[j].targets :
                    dir'[p] = my[j].was[p] /\ aside'[p] = my[j].wasAside[p]]_vars
  BY PutsBack
<1> QED
  BY <1>1, KeepInitially, KeepStep, Survives, PTL
  DEF Spec, RestoreKeepsTheWorld, FailedRestorePutsBack

---------------------------------------------------------------------------
(***************************************************************************)
(* Until a call fails, restores overwrite nothing that is not elsewhere.   *)
(***************************************************************************)

\* Restore j set the copy of folder p by and is not through with it.
KeptBy(j, p) == /\ pc[j] \in RestoreSteps /\ p \in my[j].kept \cap my[j].targets
                /\ pc[j] \in UndoSteps \cup {"x.commit"} => ~Behind(j, p)

\* Until a call fails, a copy that was set by belongs to a restore under way.
PrevInv ==
    faults = 0 =>
        \A p \in Parts : previous[p] = "none" \/ \E j \in Jobs : KeptBy(j, p)

\* Only one restore runs at a time.
LEMMA OneRestore ==
    ASSUME TInv, NEW j \in Jobs, NEW k \in Jobs,
           pc[j] \in RestoreSteps, pc[k] \in RestoreSteps \/ lock = "free"
    PROVE  j = k /\ lock = j
BY StepNames, WorldFilesAssumption DEF TInv, Owners, FilesHaveOneOwner

\* Nobody but a restore sets a copy by.
LEMMA PreviousStays ==
    ASSUME NEW j \in Jobs, Ask(j) \/ JobStep(j), ~Restores(j)
    PROVE  UNCHANGED previous
<1>1. CASE Ask(j)
  BY <1>1 DEF Ask, files
<1>2. CASE BackupBegins(j) \/ BackupRenames(j) \/ BackupFails(j) \/ BackupPrunes(j)
  BY <1>2 DEF BackupBegins, BackupRenames, BackupFails, BackupPrunes, files
<1>3. CASE ResetMoves(j) \/ ResetDeletes(j) \/ StartCalls(j)
  BY <1>3 DEF ResetMoves, ResetDeletes, StartCalls, files
<1>4. CASE \/ DuplicateHolds(j) \/ DuplicateCopied(j) \/ DuplicateFinishes(j)
           \/ DuplicateReleases(j)
  BY <1>4 DEF DuplicateHolds, DuplicateCopied, DuplicateFinishes, DuplicateReleases, files
<1> QED
  BY <1>1, <1>2, <1>3, <1>4 DEF JobStep, Restores

\* A restore that gives the copy up, or puts it back, forgets it no earlier.
LEMMA PreviousReturns ==
    ASSUME TInv, SwapInv, NEW j \in Jobs, RestoreCommits(j) \/ UndoKeeps(j),
           faults' = faults,
           NEW p \in Parts, KeptBy(j, p), previous'[p] # "none"
    PROVE  KeptBy(j, p)'
<1>0. /\ TypeOK /\ my[j] \in Locals /\ my[j].at \in Parts /\ my[j].targets \subseteq Parts
      /\ previous \in [Parts -> Content] /\ faults \in Nat
  BY MyFields, WorldFilesAssumption DEF TInv, TypeOK
<1>1. pc[j] \in {"x.commit", "u.keep"} /\ ~Behind(j, p)
  BY DEF RestoreCommits, UndoKeeps, KeptBy, UndoSteps
<1>2. my[j].at \in my[j].kept => previous'[my[j].at] = "none"
  BY <1>0 DEF RestoreCommits, UndoKeeps, Fails
<1>3. p # my[j].at
  BY <1>2 DEF KeptBy
<1>4. MoreSwaps(j) /\ p = "Server"
  BY <1>0, <1>1, <1>3 DEF MoreSwaps, Behind, KeptBy, Parts
<1>5. /\ my'[j].at = "Server" /\ my'[j].kept = my[j].kept /\ my'[j].targets = my[j].targets
      /\ pc'[j] \in {"x.commit", "u.drop"}
  BY <1>0, <1>1, <1>4 DEF RestoreCommits, UndoKeeps, Goes, TypeOK, Locals
<1> QED
  BY <1>1, <1>4, <1>5, StepNames DEF KeptBy, Behind, UndoSteps

LEMMA PrevStep == TInv /\ ColdInv /\ SwapInv /\ PrevInv /\ [Next]_vars => PrevInv'
<1> SUFFICES ASSUME TInv, ColdInv, SwapInv, PrevInv, [Next]_vars, faults' = 0,
                    NEW p \in Parts, previous'[p] # "none"
             PROVE  \E j \in Jobs : KeptBy(j, p)'
  BY DEF PrevInv
<1>0. /\ TypeOK /\ faults = 0 /\ faults \in Nat
      /\ previous[p] = "none" \/ \E j \in Jobs : KeptBy(j, p)
  BY FaultsGrow DEF TInv, PrevInv
<1>1. ASSUME NEW j \in Jobs, UNCHANGED previous, my'[j] = my[j], pc'[j] = pc[j], KeptBy(j, p)
      PROVE  KeptBy(j, p)'
  BY <1>1 DEF KeptBy, Behind
<1>2. ASSUME NEW k \in Jobs, Ask(k) \/ JobStep(k), ~Restores(k)
      PROVE  \E j \in Jobs : KeptBy(j, p)'
  <2>1. PICK j \in Jobs : KeptBy(j, p)
    BY <1>0, <1>2, PreviousStays
  <2>2. j # k
    BY <1>0, <1>2, <2>1, NoRestoreAfter DEF KeptBy
  <2>3. my'[j] = my[j] /\ pc'[j] = pc[j]
    BY <1>0, <1>2, <2>2, OthersStay
  <2> QED
    BY <1>1, <1>2, <2>1, <2>3, PreviousStays
<1>3. ASSUME NEW j \in Jobs, Restores(j) PROVE KeptBy(j, p)'
  <2> DEFINE at == my[j].at
  <2>0. /\ my[j] \in Locals /\ at \in Parts /\ my[j].targets \subseteq Parts
        /\ previous \in [Parts -> Content]
        /\ my[j].targets # {} => /\ First(my[j].targets) \in my[j].targets
                                 /\ First(my[j].targets) = "Server"
                                      => "Saves" \notin my[j].targets
    BY <1>0, MyFields, FirstIsNext DEF TypeOK
  <2>r. pc[j] \in RestoreSteps \/ lock = "free"
    BY <1>3 DEF Restores, RestoreBegins, Takes, SwapKeeps, SwapMoves, SwapMakes, RestoreOpens,
                RestoreUnpacked, RestoreCommits, UndoDrops, UndoMovesBack, UndoKeeps, UndoStops,
                Goes, Undoes, RestoreSteps, SwapSteps, UndoSteps
  <2>1. previous[p] # "none" => KeptBy(j, p)
    BY <1>0, <2>r, OneRestore DEF KeptBy
  <2>f. ~Fails
    BY <1>0 DEF Fails
  <2>2. CASE RestoreBegins(j)
    <3>1. pc[j] = "idle" /\ previous' = previous
      BY <2>2 DEF RestoreBegins, Goes, files
    <3> QED
      BY <2>1, <3>1, StepNames DEF KeptBy
  <2>3. CASE SwapKeeps(j)
    <3>1. pc[j] = "x.keep" /\ pc'[j] = "x.aside"
      BY <1>0, <2>3, <2>f DEF SwapKeeps, Goes, TypeOK
    <3>2. at \in my[j].targets
      BY <3>1 DEF SwapInv, RestoreSteps, SwapSteps
    <3>3. /\ my'[j].targets = my[j].targets /\ my[j].kept \subseteq my'[j].kept
          /\ previous'[p] # previous[p] => p = at /\ at \in my'[j].kept
      BY <1>0, <2>0, <2>3, <2>f DEF SwapKeeps, TypeOK, Locals
    <3> QED
      BY <2>1, <3>1, <3>2, <3>3, StepNames DEF KeptBy, SwapSteps, UndoSteps
  <2>4. CASE SwapMoves(j) \/ SwapMakes(j)
    <3>1. /\ pc'[j] \in {"x.keep", "x.make", "x.open"} /\ previous' = previous
          /\ my'[j].targets = my[j].targets /\ my'[j].kept = my[j].kept
      <4>1. CASE SwapMoves(j)
        BY <1>0, <2>0, <2>f, <4>1 DEF SwapMoves, Goes, TypeOK, Locals
      <4>2. CASE SwapMakes(j)
        BY <1>0, <2>0, <2>f, <4>2 DEF SwapMakes, Goes, Keeps, TypeOK, Locals
      <4> QED
        BY <2>4, <4>1, <4>2
    <3> QED
      BY <2>1, <3>1, StepNames DEF KeptBy, SwapSteps, UndoSteps
  <2>5. CASE RestoreOpens(j)
    <3>1. CASE my[j].id \in DOMAIN archives
      <4>1. /\ pc'[j] = "x.unpack" /\ previous' = previous
            /\ my'[j].targets = my[j].targets /\ my'[j].kept = my[j].kept
        BY <1>0, <2>0, <2>5, <3>1 DEF RestoreOpens, Goes, TypeOK, Locals
      <4> QED
        BY <2>1, <4>1, StepNames DEF KeptBy, SwapSteps, UndoSteps
    <3>2. CASE my[j].id \notin DOMAIN archives
      <4>1. Undoes(j, "x.open") /\ previous' = previous
        BY <2>5, <3>2 DEF RestoreOpens
      <4>2. /\ my'[j].at = First(my[j].targets) /\ my'[j].targets = my[j].targets
            /\ my'[j].kept = my[j].kept /\ pc'[j] = "u.drop"
        BY <1>0, <4>1, UndoesFields
      <4> QED
        BY <2>0, <2>1, <4>1, <4>2, StepNames DEF KeptBy, Behind, UndoSteps
    <3> QED
      BY <3>1, <3>2
  <2>6. CASE RestoreUnpacked(j)
    <3>1. /\ my'[j].at = First(my[j].targets) /\ my'[j].targets = my[j].targets
          /\ my'[j].kept = my[j].kept /\ pc'[j] = "x.commit" /\ previous' = previous
      BY <1>0, <2>0, <2>6, <2>f DEF RestoreUnpacked, Goes, TypeOK, Locals
    <3> QED
      BY <2>0, <2>1, <3>1, StepNames DEF KeptBy, Behind
  <2>7. CASE RestoreCommits(j) \/ UndoKeeps(j)
    <3>1. previous'[p] = previous[p] \/ previous'[p] = "none"
      BY <2>0, <2>7 DEF RestoreCommits, UndoKeeps
    <3> QED
      BY <1>0, <2>1, <2>7, <3>1, PreviousReturns
  <2>8. CASE UndoDrops(j) \/ UndoMovesBack(j)
    <3>1. /\ pc[j] \in UndoSteps /\ pc'[j] \in UndoSteps /\ UNCHANGED <<my, previous>>
      BY <1>0, <2>8 DEF UndoDrops, UndoMovesBack, Goes, Keeps, TypeOK, UndoSteps
    <3> QED
      BY <2>1, <3>1, StepNames DEF KeptBy, Behind
  <2>9. CASE UndoStops(j)
    BY <2>9, <2>f DEF UndoStops
  <2> QED
    BY <1>3, <2>2, <2>3, <2>4, <2>5, <2>6, <2>7, <2>8, <2>9 DEF Restores
<1>4. ASSUME DeleteArchive \/ GameLoads \/ GameSaves \/ GameStops \/ UNCHANGED vars
      PROVE  \E j \in Jobs : KeptBy(j, p)'
  <2>1. UNCHANGED <<pc, my, previous>>
    BY <1>4 DEF DeleteArchive, GameLoads, GameSaves, GameStops, vars, files
  <2> QED
    BY <1>0, <1>1, <2>1
<1>5. ~PZAdminDies
  BY <1>0 DEF PZAdminDies, Fails
<1> QED
  BY <1>2, <1>3, <1>4, <1>5 DEF Next

\* Nothing left a folder that is not in it, or beside it, still.
LEMMA StillOnDisk ==
    ASSUME \A i \in DOMAIN archives : i \in DOMAIN archives' /\ archives'[i] = archives[i],
           \A p \in Parts : {dir[p], aside[p], previous[p]} \cap Worlds
                              \subseteq {dir'[p], aside'[p], previous'[p]}
    PROVE  OnDisk \subseteq OnDisk'
<1> SUFFICES ASSUME NEW w \in OnDisk PROVE w \in OnDisk'
  OBVIOUS
<1>1. \/ \E p \in Parts : w \in {dir[p], aside[p], previous[p]}
      \/ \E i \in DOMAIN archives, p \in Parts : archives[i][p] = w
  BY DEF OnDisk
<1>2. \/ \E p \in Parts : w \in {dir'[p], aside'[p], previous'[p]}
      \/ \E i \in DOMAIN archives', p \in Parts : archives'[i][p] = w
  BY <1>1 DEF OnDisk
<1> QED
  BY <1>2 DEF OnDisk

\* Every step of a restore but its commit keeps what is on disk, as long as
\* no call fails.
LEMMA RestoreLoses ==
    ASSUME TInv, SwapInv, PrevInv, NEW j \in Jobs, Restores(j), ~RestoreCommits(j),
           faults = 0, faults' = 0, NEW p \in Parts
    PROVE  {dir[p], aside[p], previous[p]} \cap Worlds \subseteq {dir'[p], aside'[p], previous'[p]}
<1> DEFINE at == my[j].at
<1>0. /\ TypeOK /\ at \in Parts /\ my[j].targets \subseteq Parts
      /\ dir \in [Parts -> Content] /\ aside \in [Parts -> Content]
      /\ previous \in [Parts -> Content]
      /\ Worlds \cap {"none", "empty", "half", "mixed"} = {}
  BY MyFields, WorldFilesAssumption DEF TInv, TypeOK
<1>f. ~Fails
  BY DEF Fails
<1>s. ASSUME pc[j] \in RestoreSteps
      PROVE  at \in my[j].targets /\ \A q \in my[j].targets : Folder(j, q)
  BY <1>s DEF SwapInv
<1>1. CASE RestoreBegins(j) \/ UndoStops(j)
  BY <1>1, <1>f DEF RestoreBegins, UndoStops, files
<1>2. CASE SwapKeeps(j)
  <2>1. pc[j] = "x.keep" /\ Untouched(j, at)
    BY <1>0, <1>2, <1>s DEF SwapKeeps, Goes, Undoes, Folder, Swapping, At, RestoreSteps, SwapSteps
  <2>2. previous[at] = "none"
    <3>1. ASSUME NEW k \in Jobs, KeptBy(k, at) PROVE FALSE
      <4>1. pc[j] \in RestoreSteps
        BY <2>1 DEF RestoreSteps, SwapSteps
      <4>2. k = j
        BY <3>1, <4>1, OneRestore DEF KeptBy
      <4> QED
        BY <2>1, <3>1, <4>2 DEF KeptBy, Untouched
    <3> QED
      BY <1>0, <3>1 DEF PrevInv
  <2>3. /\ dir' = dir
        /\ \/ UNCHANGED <<aside, previous>>
           \/ /\ previous' = [previous EXCEPT ![at] = aside[at]]
              /\ aside' = [aside EXCEPT ![at] = "none"]
    BY <1>2, <1>f DEF SwapKeeps
  <2> QED
    BY <1>0, <2>2, <2>3
<1>3. CASE SwapMoves(j)
  <2>1. pc[j] = "x.aside" /\ HalfWay(j, at)
    BY <1>0, <1>3, <1>s DEF SwapMoves, Goes, Undoes, Folder, Swapping, At, RestoreSteps, SwapSteps
  <2>2. /\ previous' = previous
        /\ \/ UNCHANGED <<aside, dir>>
           \/ /\ aside' = [aside EXCEPT ![at] = dir[at]]
              /\ dir' = [dir EXCEPT ![at] = "none"]
    BY <1>3, <1>f DEF SwapMoves, Write
  <2> QED
    BY <1>0, <2>1, <2>2 DEF HalfWay
<1>4. CASE SwapMakes(j)
  <2>1. pc[j] = "x.make" /\ dir[at] = "none"
    BY <1>0, <1>4, <1>s DEF SwapMakes, Goes, Undoes, Folder, Swapping, At, RestoreSteps, SwapSteps
  <2>2. UNCHANGED <<aside, previous>> /\ \A q \in Parts \ {at} : dir'[q] = dir[q]
    BY <1>0, <1>4, <1>f DEF SwapMakes, Write
  <2> QED
    BY <1>0, <2>1, <2>2
<1>5. CASE RestoreOpens(j)
  <2>1. pc[j] = "x.open" /\ \A q \in my[j].targets : dir[q] = "empty"
    BY <1>5, <1>s DEF RestoreOpens, Goes, Undoes, Folder, RestoreSteps
  <2>2. UNCHANGED <<aside, previous>> /\ \A q \in Parts \ my[j].targets : dir'[q] = dir[q]
    BY <1>5 DEF RestoreOpens, Write
  <2> QED
    BY <1>0, <2>1, <2>2
<1>6. CASE RestoreUnpacked(j)
  <2>1. pc[j] = "x.unpack" /\ \A q \in my[j].targets : dir[q] = "half"
    BY <1>6, <1>s DEF RestoreUnpacked, Goes, Undoes, Folder, RestoreSteps
  <2>2. UNCHANGED <<aside, previous>> /\ \A q \in Parts \ my[j].targets : dir'[q] = dir[q]
    BY <1>6, <1>f DEF RestoreUnpacked, Write
  <2> QED
    BY <1>0, <2>1, <2>2
<1>7. CASE UndoDrops(j)
  <2>1. pc[j] = "u.drop" /\ dir[at] = "empty"
    BY <1>0, <1>7, <1>s DEF UndoDrops, Goes, Folder, Undoing, At, ToUndo, RestoreSteps, UndoSteps
  <2>2. UNCHANGED <<aside, previous>> /\ \A q \in Parts \ {at} : dir'[q] = dir[q]
    BY <1>0, <1>7 DEF UndoDrops, Write
  <2> QED
    BY <1>0, <2>1, <2>2
<1>8. CASE UndoMovesBack(j)
  <2>1. pc[j] = "u.back" /\ dir[at] = "none"
    BY <1>0, <1>8, <1>s DEF UndoMovesBack, Goes, Folder, Undoing, At, RestoreSteps, UndoSteps
  <2>2. /\ previous' = previous /\ dir' = [dir EXCEPT ![at] = aside[at]]
        /\ aside' = [aside EXCEPT ![at] = "none"]
    BY <1>8 DEF UndoMovesBack, Write
  <2> QED
    BY <1>0, <2>1, <2>2
<1>9. CASE UndoKeeps(j)
  <2>1. pc[j] = "u.keep" /\ PutBack(j, at)
    BY <1>0, <1>9, <1>s DEF UndoKeeps, Folder, Undoing, At, RestoreSteps, UndoSteps
  <2>2. /\ dir' = dir
        /\ IF at \in my[j].kept
           THEN /\ aside' = [aside EXCEPT ![at] = previous[at]]
                /\ previous' = [previous EXCEPT ![at] = "none"]
           ELSE UNCHANGED <<aside, previous>>
    BY <1>9 DEF UndoKeeps
  <2> QED
    BY <1>0, <2>1, <2>2 DEF PutBack
<1> QED
  BY <1>1, <1>2, <1>3, <1>4, <1>5, <1>6, <1>7, <1>8, <1>9 DEF Restores

LEMMA Leaves ==
    ASSUME KeepInv, PrevInv, [Next]_vars, faults' = 0, ~(OnDisk \subseteq OnDisk')
    PROVE  \/ used' # used
           \/ ~(DOMAIN archives \subseteq DOMAIN archives')
           \/ \E j \in Jobs : \/ pc[j] = "z.lock" /\ pc'[j] = "z.delete"
                              \/ pc[j] = "x.commit"
<1>0. /\ TInv /\ TypeOK /\ SwapInv /\ faults = 0 /\ faults \in Nat
  BY FaultsGrow DEF KeepInv, TInv
<1>f. ~Fails
  BY <1>0 DEF Fails
<1>1. ASSUME UNCHANGED <<files, archives>> PROVE FALSE
  <2>1. UNCHANGED <<dir, aside, previous, archives>>
    BY <1>1 DEF files
  <2> QED
    BY <2>1, StillOnDisk
<1>2. ASSUME NEW j \in Jobs, Restores(j) PROVE pc[j] = "x.commit"
  <2>1. archives' = archives
    BY <1>2 DEF Restores, RestoreBegins, SwapKeeps, SwapMoves, SwapMakes, RestoreOpens,
       RestoreUnpacked, RestoreCommits, UndoDrops, UndoMovesBack, UndoKeeps, UndoStops
  <2>2. RestoreCommits(j)
    BY <1>0, <1>2, <2>1, RestoreLoses, StillOnDisk
  <2> QED
    BY <2>2 DEF RestoreCommits
<1>3. ASSUME NEW j \in Jobs, BackupRenames(j), DOMAIN archives \subseteq DOMAIN archives'
      PROVE  FALSE
  <2>1. UNCHANGED files
    BY <1>3 DEF BackupRenames
  <2>2. made' = made + 1 /\ DOMAIN archives \subseteq 1..made /\ made \in Nat
    BY <1>0, <1>3 DEF BackupRenames, TypeOK
  <2>3. \A i \in DOMAIN archives : i \in DOMAIN archives' /\ archives'[i] = archives[i]
    <3>1. \A i \in DOMAIN archives : i \in DOMAIN archives' /\ i # made'
      BY <1>3, <2>2
    <3>2. \A i \in DOMAIN archives' \ {made'} : archives'[i] = archives[i]
      BY <1>3, Renamed
    <3> QED
      BY <3>1, <3>2
  <2> QED
    BY <2>1, <2>3, StillOnDisk DEF files
<1>4. ASSUME NEW j \in Jobs, BackupPrunes(j) 
      PROVE  ~(DOMAIN archives \subseteq DOMAIN archives')
  <2>1. UNCHANGED files /\ \A i \in DOMAIN archives' : archives'[i] = archives[i]
    BY <1>4 DEF BackupPrunes
  <2> QED
    BY <2>1, StillOnDisk DEF files
<1>5. ASSUME NEW j \in Jobs, ResetMoves(j) PROVE pc[j] = "z.lock" /\ pc'[j] = "z.delete"
  <2>1. CASE Goes(j, "z.lock", "z.delete")
    BY <1>0, <2>1 DEF Goes, TypeOK
  <2>2. CASE dir' = dir
    BY <1>1, <1>5, <2>2 DEF ResetMoves, files
  <2> QED
    BY <1>5, <2>1, <2>2 DEF ResetMoves
<1>6. ASSUME NEW j \in Jobs,
             \/ Ask(j) \/ BackupBegins(j) \/ BackupFails(j) \/ ResetDeletes(j)
             \/ DuplicateHolds(j) \/ DuplicateCopied(j) \/ DuplicateFinishes(j)
             \/ DuplicateReleases(j) \/ StartCalls(j)
      PROVE  FALSE
  BY <1>1, <1>6 DEF Ask, BackupBegins, BackupFails, ResetDeletes, DuplicateHolds,
     DuplicateCopied, DuplicateFinishes, DuplicateReleases, StartCalls
<1>7. CASE DeleteArchive
  <2>1. ~(DOMAIN archives \subseteq DOMAIN archives')
    BY <1>7 DEF DeleteArchive
  <2> QED
    BY <2>1
<1>8. CASE GameLoads \/ GameStops \/ UNCHANGED vars
  BY <1>1, <1>8 DEF GameLoads, GameStops, vars, files
<1>9. CASE GameSaves
  <2>1. used' # used
    BY <1>9 DEF GameSaves
  <2> QED
    BY <2>1
<1>10. ~PZAdminDies
  BY <1>f DEF PZAdminDies
<1> QED
  BY <1>2, <1>3, <1>4, <1>5, <1>6, <1>7, <1>8, <1>9, <1>10 DEF Next, JobStep, Restores

\* Until a call fails or PZAdmin is killed, and while operators wait, no step
\* of a restore overwrites the last copy of a world: worlds leave the disk with
\* the game playing on, a reset, a restore that has succeeded, or an archive
\* that is pruned, deleted or replaced by one of the same second.
THEOREM LeavesOnPurpose == Spec /\ []Careful => WorldsLeaveOnPurpose
<1>1. Init /\ Careful => KeepInv /\ PrevInv
  BY KeepInitially DEF Init, PrevInv, NoFolders
<1>2. KeepInv /\ PrevInv /\ Careful /\ [Next]_vars => (KeepInv /\ PrevInv)'
  BY KeepStep, PrevStep DEF KeepInv
<1>3. KeepInv /\ PrevInv /\ [Next]_vars
        => [faults' = 0 /\ ~(OnDisk \subseteq OnDisk')
              => \/ used' # used
                 \/ ~(DOMAIN archives \subseteq DOMAIN archives')
                 \/ \E j \in Jobs : \/ pc[j] = "z.lock" /\ pc'[j] = "z.delete"
                                    \/ pc[j] = "x.commit"]_vars
  BY Leaves
<1> QED
  BY <1>1, <1>2, <1>3, PTL DEF Spec, WorldsLeaveOnPurpose

---------------------------------------------------------------------------
(***************************************************************************)
(* What may be deleted: worlds that have been archived, and the oldest     *)
(* archives.                                                               *)
(***************************************************************************)

\* What has been archived for a world.
Archived(w) == w \in Worlds => \E a \in archived : a["Saves"] = w

\* Archives hold what was archived, and so do restores under way.
Catalogued ==
    /\ \A i \in DOMAIN archives : archives[i] \in archived
    /\ \A j \in Jobs : pc[j] = "x.unpack" => my[j].open \in archived

\* A reset that backs up first looks for Saves where it is ...
Looking == \A j \in Jobs : my[j].what = "reset-backup" /\ pc[j] \in {"b.lock", "b.read"}
                             => "Saves" \in my[j].layout

\* ... and from its backup on, what is there has been archived, and so has
\* what a restore in between may put back there.
Backed(j) ==
    my[j].what = "reset-backup" /\ pc[j] \in {"b.prune", "z.lock"} =>
        /\ Archived(dir["Saves"])
        /\ \A k \in Jobs : pc[k] \in RestoreSteps /\ "Saves" \in my[k].targets
                             => Archived(my[k].was["Saves"])

ArchInv == Catalogued /\ Looking /\ \A j \in Jobs : Backed(j)

LEMMA ArchivedGrows == [Next]_vars => archived \subseteq archived'
<1> SUFFICES ASSUME [Next]_vars PROVE archived \subseteq archived'
  OBVIOUS
<1>1. ASSUME NEW j \in Jobs, JobStep(j) PROVE archived \subseteq archived'
  <2>1. CASE BackupRenames(j)
    BY <2>1 DEF BackupRenames
  <2>2. CASE BackupBegins(j) \/ BackupFails(j) \/ BackupPrunes(j)
    BY <2>2 DEF BackupBegins, BackupFails, BackupPrunes, history
  <2>3. CASE Restores(j)
    BY <2>3 DEF Restores, RestoreBegins, SwapKeeps, SwapMoves, SwapMakes, RestoreOpens,
       RestoreUnpacked, RestoreCommits, UndoDrops, UndoMovesBack, UndoKeeps, UndoStops, history
  <2>4. CASE \/ ResetMoves(j) \/ ResetDeletes(j) \/ DuplicateHolds(j) \/ DuplicateCopied(j)
             \/ DuplicateFinishes(j) \/ DuplicateReleases(j) \/ StartCalls(j)
    BY <2>4 DEF ResetMoves, ResetDeletes, DuplicateHolds, DuplicateCopied, DuplicateFinishes,
                DuplicateReleases, StartCalls, history
  <2> QED
    BY <1>1, <2>1, <2>2, <2>3, <2>4 DEF JobStep, Restores
<1> QED
  BY <1>1 DEF Next, Ask, DeleteArchive, GameLoads, GameSaves, GameStops, PZAdminDies, vars, history

\* A restore remembers what there was when it began.
LEMMA WasStays ==
    ASSUME TInv, NEW j \in Jobs, Restores(j), ~RestoreBegins(j), pc'[j] \in RestoreSteps
    PROVE  /\ my'[j].was = my[j].was /\ my'[j].targets = my[j].targets
           /\ pc[j] \in RestoreSteps
<1>0. TypeOK /\ my[j] \in Locals /\ "idle" \notin RestoreSteps
  BY MyFields, StepNames DEF TInv
<1>1. pc[j] \in RestoreSteps
  BY DEF Restores, SwapKeeps, SwapMoves, SwapMakes, RestoreOpens, RestoreUnpacked,
         RestoreCommits, UndoDrops, UndoMovesBack, UndoKeeps, UndoStops, Goes,
         Undoes, RestoreSteps, SwapSteps, UndoSteps
<1>2. ASSUME NEW from, Undoes(j, from) PROVE my'[j].was = my[j].was /\ my'[j].targets = my[j].targets
  BY <1>0, <1>2, UndoesFields
<1>3. ASSUME NEW from, Returns(j, from) PROVE FALSE
  BY <1>0, <1>3, ReturnsMine
<1> USE DEF TypeOK, Locals
<1>4. CASE SwapKeeps(j)
  BY <1>0, <1>1, <1>2, <1>4 DEF SwapKeeps
<1>5. CASE SwapMoves(j)
  BY <1>0, <1>1, <1>2, <1>5 DEF SwapMoves
<1>6. CASE SwapMakes(j)
  BY <1>0, <1>1, <1>2, <1>6 DEF SwapMakes, Keeps
<1>7. CASE RestoreOpens(j)
  BY <1>0, <1>1, <1>2, <1>7 DEF RestoreOpens
<1>8. CASE RestoreUnpacked(j)
  BY <1>0, <1>1, <1>2, <1>8 DEF RestoreUnpacked
<1>9. CASE RestoreCommits(j) \/ UndoKeeps(j)
  BY <1>0, <1>1, <1>3, <1>9 DEF RestoreCommits, UndoKeeps
<1>10. CASE UndoDrops(j) \/ UndoMovesBack(j)
  BY <1>1, <1>10 DEF UndoDrops, UndoMovesBack, Keeps
<1>11. CASE UndoStops(j)
  BY <1>3, <1>11 DEF UndoStops
<1> QED
  BY <1>4, <1>5, <1>6, <1>7, <1>8, <1>9, <1>10, <1>11 DEF Restores

\* What a restore may make of a folder.
LEMMA RestoreMakes ==
    ASSUME TInv, SwapInv, NEW j \in Jobs, Restores(j), NEW p \in Parts
    PROVE  \/ dir'[p] \in {dir[p], "none", "empty", "half"}
           \/ pc[j] = "x.unpack" /\ dir'[p] = my[j].open[p]
           \/ pc[j] \in RestoreSteps /\ p \in my[j].targets /\ dir'[p] = my[j].was[p]
<1>0. /\ TypeOK /\ dir \in [Parts -> Content]
  BY DEF TInv, TypeOK
<1>1. CASE RestoreBegins(j) \/ SwapKeeps(j) \/ RestoreCommits(j) \/ UndoKeeps(j) \/ UndoStops(j)
  BY <1>1 DEF RestoreBegins, SwapKeeps, RestoreCommits, UndoKeeps, UndoStops, files
<1>2. CASE SwapMoves(j)
  BY <1>0, <1>2 DEF SwapMoves, Write
<1>3. CASE SwapMakes(j)
  BY <1>0, <1>3 DEF SwapMakes, Write
<1>4. CASE RestoreOpens(j)
  BY <1>0, <1>4 DEF RestoreOpens, Write
<1>5. CASE RestoreUnpacked(j)
  BY <1>0, <1>5 DEF RestoreUnpacked, Write, Goes
<1>6. CASE UndoDrops(j)
  BY <1>0, <1>6 DEF UndoDrops, Write
<1>7. CASE UndoMovesBack(j)
  <2>1. /\ pc[j] = "u.back" /\ dir' = [dir EXCEPT ![my[j].at] = aside[my[j].at]]
    BY <1>7 DEF UndoMovesBack, Goes, Write
  <2>2. /\ pc[j] \in RestoreSteps /\ my[j].at \in my[j].targets
        /\ aside[my[j].at] = my[j].was[my[j].at]
    BY <1>0, <2>1 DEF SwapInv, Folder, Undoing, At, Moved, RestoreSteps, UndoSteps
  <2> QED
    BY <1>0, <2>1, <2>2
<1> QED
  BY <1>1, <1>2, <1>3, <1>4, <1>5, <1>6, <1>7 DEF Restores

LEMMA CataloguedStep == TInv /\ Catalogued /\ [Next]_vars => Catalogued'
<1> SUFFICES ASSUME TInv, Catalogued, [Next]_vars PROVE Catalogued'
  OBVIOUS
<1> USE DEF Catalogued
<1>0. TypeOK /\ archived \subseteq archived'
  BY ArchivedGrows DEF TInv
<1>1. ASSUME UNCHANGED archives PROVE \A i \in DOMAIN archives' : archives'[i] \in archived'
  BY <1>0, <1>1
<1>2. ASSUME NEW j \in Jobs, my'[j] = my[j], pc'[j] = pc[j], pc'[j] = "x.unpack"
      PROVE  my'[j].open \in archived'
  BY <1>0, <1>2
<1>3. ASSUME NEW j \in Jobs, Ask(j) \/ JobStep(j)
      PROVE  \A i \in DOMAIN archives' : archives'[i] \in archived'
  <2>1. CASE BackupRenames(j)
    BY <1>0, <2>1, Renamed DEF BackupRenames
  <2>2. CASE BackupPrunes(j)
    BY <1>0, <2>2 DEF BackupPrunes, Newest
  <2>3. CASE Ask(j) \/ BackupBegins(j) \/ BackupFails(j)
    BY <1>1, <2>3 DEF Ask, BackupBegins, BackupFails
  <2>4. CASE Restores(j)
    BY <1>1, <2>4 DEF Restores, RestoreBegins, SwapKeeps, SwapMoves, SwapMakes, RestoreOpens,
       RestoreUnpacked, RestoreCommits, UndoDrops, UndoMovesBack, UndoKeeps, UndoStops
  <2>5. CASE \/ ResetMoves(j) \/ ResetDeletes(j) \/ DuplicateHolds(j) \/ DuplicateCopied(j)
             \/ DuplicateFinishes(j) \/ DuplicateReleases(j) \/ StartCalls(j)
    BY <1>1, <2>5 DEF ResetMoves, ResetDeletes, DuplicateHolds, DuplicateCopied,
       DuplicateFinishes, DuplicateReleases, StartCalls
  <2> QED
    BY <1>3, <2>1, <2>2, <2>3, <2>4, <2>5 DEF JobStep, Restores
<1>4. ASSUME NEW j \in Jobs, Ask(j) \/ JobStep(j), pc'[j] = "x.unpack"
      PROVE  my'[j].open \in archived'
  <2>1. Restores(j)
    BY <1>0, <1>4, NoRestoreAfter DEF RestoreSteps
  <2>2. RestoreOpens(j)
    <3>1. ASSUME NEW from, NEW to, Goes(j, from, to) PROVE pc'[j] = to
      BY <1>0, <3>1 DEF Goes, TypeOK
    <3>2. ~RestoreBegins(j) /\ ~UndoDrops(j) /\ ~UndoMovesBack(j)
      BY <1>4, <3>1 DEF RestoreBegins, UndoDrops, UndoMovesBack
    <3>3. ~SwapKeeps(j) /\ ~SwapMoves(j) /\ ~SwapMakes(j) /\ ~RestoreUnpacked(j)
      BY <1>4, <3>1 DEF SwapKeeps, SwapMoves, SwapMakes, RestoreUnpacked, Undoes
    <3>4. ~RestoreCommits(j) /\ ~UndoKeeps(j) /\ ~UndoStops(j)
      BY <1>4, <3>1 DEF RestoreCommits, UndoKeeps, UndoStops, Returns
    <3> QED
      BY <2>1, <3>2, <3>3, <3>4 DEF Restores
  <2>3. my[j].id \in DOMAIN archives /\ archived' = archived
    BY <1>0, <1>4, <2>2 DEF RestoreOpens, Undoes, Goes, TypeOK, history
  <2>4. my' = [my EXCEPT ![j].open = archives[my[j].id], ![j].id = 0] /\ my[j] \in Locals
    BY <1>0, <2>2, <2>3, MyFields DEF RestoreOpens
  <2>5. my'[j].open = archives[my[j].id]
    BY <1>0, <2>4 DEF TypeOK, Locals
  <2> QED
    BY <2>3, <2>5
<1>5. ASSUME NEW j \in Jobs, Ask(j) \/ JobStep(j) PROVE Catalogued'
  BY <1>0, <1>2, <1>3, <1>4, <1>5, OthersStay
<1>6. CASE DeleteArchive \/ GameLoads \/ GameSaves \/ GameStops \/ UNCHANGED vars
  BY <1>0, <1>6 DEF DeleteArchive, GameLoads, GameSaves, GameStops, vars, history
<1>7. CASE PZAdminDies
  BY <1>0, <1>7 DEF PZAdminDies
<1> QED
  BY <1>5, <1>6, <1>7 DEF Next

\* A job that has yet to pack its backup came there from its request.
LEMMA ToBackup ==
    ASSUME TInv, NEW j \in Jobs, JobStep(j), pc'[j] \in {"b.lock", "b.read", "b.prune", "z.lock"}
    PROVE  \/ BackupBegins(j) /\ pc[j] = "b.lock" /\ pc'[j] = "b.read" /\ my' = my
           \/ BackupRenames(j) /\ pc[j] = "b.read" /\ pc'[j] = "b.prune" /\ my' = my
           \/ BackupPrunes(j) /\ pc[j] = "b.prune" /\ pc'[j] = "z.lock" /\ my' = my
<1>0. TypeOK
  BY DEF TInv
<1>1. ASSUME NEW from, NEW to, Goes(j, from, to) PROVE pc[j] = from /\ pc'[j] = to
  BY <1>0, <1>1 DEF Goes, TypeOK
<1>2. CASE BackupBegins(j)
  BY <1>1, <1>2 DEF BackupBegins, Returns, Keeps
<1>3. CASE BackupRenames(j)
  BY <1>1, <1>3 DEF BackupRenames, Keeps
<1>4. CASE BackupPrunes(j)
  BY <1>1, <1>4 DEF BackupPrunes, Returns, Keeps
<1>5. ~Restores(j)
  BY RestoreLeaves DEF RestoreSteps, SwapSteps, UndoSteps
<1>6. ~BackupFails(j) /\ ~ResetMoves(j) /\ ~ResetDeletes(j) /\ ~StartCalls(j)
  BY <1>1 DEF BackupFails, ResetMoves, ResetDeletes, StartCalls, Returns
<1>7. ~DuplicateHolds(j) /\ ~DuplicateCopied(j) /\ ~DuplicateFinishes(j) /\ ~DuplicateReleases(j)
  BY <1>1 DEF DuplicateHolds, DuplicateCopied, DuplicateFinishes, DuplicateReleases, Returns
<1> QED
  BY <1>2, <1>3, <1>4, <1>5, <1>6, <1>7 DEF JobStep, Restores

LEMMA LookingStep == TInv /\ Looking /\ [Next]_vars => Looking'
<1> SUFFICES ASSUME TInv, Looking, [Next]_vars PROVE Looking'
  OBVIOUS
<1> USE DEF Looking
<1>0. TypeOK
  BY DEF TInv
<1>1. ASSUME NEW j \in Jobs, Ask(j) PROVE Looking'
  <2>1. my'[j].what = "reset-backup" => "Saves" \in my'[j].layout
    BY <1>1, Asked DEF Detected, Parts
  <2> QED
    BY <1>0, <1>1, <2>1, OthersStay
<1>2. ASSUME NEW j \in Jobs, JobStep(j) PROVE Looking'
  <2>1. pc'[j] \in {"b.lock", "b.read"} => my' = my /\ pc[j] \in {"b.lock", "b.read"}
    BY <1>2, ToBackup
  <2> QED
    BY <1>0, <1>2, <2>1, OthersStay
<1>3. CASE DeleteArchive \/ GameLoads \/ GameSaves \/ GameStops \/ UNCHANGED vars
  BY <1>3 DEF DeleteArchive, GameLoads, GameSaves, GameStops, vars
<1>4. CASE PZAdminDies
  BY <1>4 DEF PZAdminDies
<1> QED
  BY <1>1, <1>2, <1>3, <1>4 DEF Next

LEMMA ArchivedStill ==
    ASSUME archived \subseteq archived', NEW w, NEW v, Archived(w), v \in {w, "none", "empty", "half"}
    PROVE  Archived(v)'
BY WorldFilesAssumption DEF Archived

\* The backup of a reset packs the world that is there.
LEMMA PacksWorld ==
    ASSUME TInv, ColdInv, Looking, NEW j \in Jobs, BackupRenames(j), my[j].what = "reset-backup"
    PROVE  Archived(dir["Saves"])'
<1>0. TypeOK /\ pc[j] = "b.read" /\ dir' = dir
  BY DEF TInv, BackupRenames, Goes, files
<1>1. j \notin torn /\ "Saves" \in my[j].layout
  BY <1>0 DEF ColdInv, Quiet, Looking, Reading
<1>2. SUFFICES ASSUME dir["Saves"] \in Worlds
               PROVE  \E a \in archived' : a["Saves"] = dir["Saves"]
  BY <1>0 DEF Archived
<1>3. Packed(j, "Saves") = dir["Saves"]
  BY <1>1, <1>2, WorldFilesAssumption DEF Packed
<1>4. archives'[made'] = [p \in Parts |-> Packed(j, p)] /\ archives'[made'] \in archived'
  BY <1>0, Renamed DEF BackupRenames
<1> QED
  BY <1>3, <1>4 DEF Parts

LEMMA BackedStep ==
    ASSUME TInv, ColdInv, SwapInv, ArchInv, [Next]_vars, NEW j \in Jobs
    PROVE  Backed(j)'
<1>0. /\ TypeOK /\ archived \subseteq archived' /\ Backed(j) /\ Catalogued /\ Looking
      /\ "Saves" \in Parts /\ dir \in [Parts -> Content]
  BY ArchivedGrows DEF TInv, TypeOK, ArchInv, Parts
<1> SUFFICES ASSUME my'[j].what = "reset-backup", pc'[j] \in {"b.prune", "z.lock"}
             PROVE  /\ Archived(dir["Saves"])'
                    /\ \A k \in Jobs : pc'[k] \in RestoreSteps /\ "Saves" \in my'[k].targets
                                         => Archived(my[k].was["Saves"])'
  BY DEF Backed
<1>1. ASSUME NEW k \in Jobs, my'[k] = my[k], pc'[k] = pc[k], pc[j] \in {"b.prune", "z.lock"},
             my[j].what = "reset-backup",
             pc'[k] \in RestoreSteps, "Saves" \in my'[k].targets
      PROVE  Archived(my[k].was["Saves"])'
  BY <1>0, <1>1, ArchivedStill DEF Backed
<1>2. ASSUME Ask(j) PROVE FALSE
  BY <1>2, Asked
<1>3. CASE JobStep(j)
  <2>1. \A k \in Jobs : k # j => my'[k] = my[k] /\ pc'[k] = pc[k]
    BY <1>0, <1>3, OthersStay
  <2>2. CASE BackupRenames(j) /\ pc[j] = "b.read" /\ my' = my
    <3>1. lock = j /\ pc[j] \notin RestoreSteps /\ pc'[j] \notin RestoreSteps
      BY <1>0, <1>3, <2>2, NoRestoreAfter, StepNames
      DEF Restores, TInv, Owners, FilesHaveOneOwner, Locked, RestoreSteps, SwapSteps, UndoSteps
    <3>2. \A k \in Jobs : pc'[k] \notin RestoreSteps
      BY <2>1, <3>1, StepNames, WorldFilesAssumption DEF TInv, Owners, FilesHaveOneOwner
    <3> QED
      BY <1>0, <2>2, <3>2, PacksWorld
  <2>3. CASE BackupPrunes(j) /\ pc[j] = "b.prune" /\ my' = my
    <3>1. dir' = dir /\ pc'[j] \notin RestoreSteps
      BY <2>3 DEF BackupPrunes, files, RestoreSteps, SwapSteps, UndoSteps
    <3> QED
      BY <1>0, <1>1, <2>1, <2>3, <3>1, ArchivedStill DEF Backed
  <2> QED
    BY <1>3, <2>2, <2>3, ToBackup
<1>4. ASSUME NEW k \in Jobs, k # j, Ask(k) \/ JobStep(k)
      PROVE  /\ Archived(dir["Saves"])'
             /\ \A m \in Jobs : pc'[m] \in RestoreSteps /\ "Saves" \in my'[m].targets
                                  => Archived(my[m].was["Saves"])'
  <2>0. \A m \in Jobs : m # k => my'[m] = my[m] /\ pc'[m] = pc[m]
    BY <1>0, <1>4, OthersStay
  <2>1. my[j].what = "reset-backup" /\ pc[j] \in {"b.prune", "z.lock"}
    BY <1>4, <2>0
  <2>2. /\ Archived(dir["Saves"])
        /\ \A m \in Jobs : pc[m] \in RestoreSteps /\ "Saves" \in my[m].targets
                             => Archived(my[m].was["Saves"])
    BY <1>0, <2>1 DEF Backed
  <2>3. CASE Restores(k)
    <3>1. Archived(dir["Saves"])'
      <4>1. CASE dir'["Saves"] \in {dir["Saves"], "none", "empty", "half"}
        BY <1>0, <2>2, <4>1, ArchivedStill DEF Archived
      <4>2. CASE pc[k] = "x.unpack" /\ dir'["Saves"] = my[k].open["Saves"]
        BY <1>0, <4>2 DEF Catalogued, Archived
      <4>3. CASE /\ pc[k] \in RestoreSteps /\ "Saves" \in my[k].targets
                 /\ dir'["Saves"] = my[k].was["Saves"]
        BY <1>0, <2>2, <4>3 DEF Archived
      <4> QED
        BY <1>0, <2>3, <4>1, <4>2, <4>3, RestoreMakes
    <3>2. ASSUME pc'[k] \in RestoreSteps, "Saves" \in my'[k].targets
          PROVE  Archived(my[k].was["Saves"])'
      <4>1. CASE RestoreBegins(k)
        <5>1. my'[k].was = dir
          BY <1>0, <4>1, MyFields DEF RestoreBegins, TypeOK, Locals
        <5> QED
          BY <1>0, <2>2, <5>1 DEF Archived
      <4>2. CASE ~RestoreBegins(k)
        <5>1. /\ my'[k].was = my[k].was /\ my'[k].targets = my[k].targets
              /\ pc[k] \in RestoreSteps
          BY <2>3, <3>2, <4>2, WasStays
        <5> QED
          BY <1>0, <2>2, <3>2, <5>1 DEF Archived
      <4> QED
        BY <4>1, <4>2
    <3> QED
      BY <1>1, <2>0, <2>1, <3>1, <3>2
  <2>4. CASE ~Restores(k)
    <3>1. pc'[k] \notin RestoreSteps
      BY <1>0, <1>4, <2>4, NoRestoreAfter
    <3>2. dir'["Saves"] \in {dir["Saves"], "empty"}
      <4>1. CASE ResetMoves(k)
        BY <1>0, <4>1 DEF ResetMoves, Write
      <4>2. CASE Ask(k) \/ BackupBegins(k) \/ BackupRenames(k) \/ BackupFails(k) \/ BackupPrunes(k)
        BY <4>2 DEF Ask, BackupBegins, BackupRenames, BackupFails, BackupPrunes, files
      <4>3. CASE \/ ResetDeletes(k) \/ DuplicateHolds(k) \/ DuplicateCopied(k)
                 \/ DuplicateFinishes(k) \/ DuplicateReleases(k) \/ StartCalls(k)
        BY <4>3 DEF ResetDeletes, DuplicateHolds, DuplicateCopied, DuplicateFinishes,
                    DuplicateReleases, StartCalls, files
      <4> QED
        BY <1>4, <2>4, <4>1, <4>2, <4>3 DEF JobStep, Restores
    <3>3. Archived(dir["Saves"])'
      BY <1>0, <2>2, <3>2, ArchivedStill DEF Archived
    <3> QED
      BY <1>1, <2>0, <2>1, <3>1, <3>3
  <2> QED
    BY <2>3, <2>4
<1>5. CASE DeleteArchive \/ GameLoads \/ GameSaves \/ GameStops \/ UNCHANGED vars
  <2>1. pc' = pc /\ my' = my
    BY <1>5 DEF DeleteArchive, GameLoads, GameSaves, GameStops, vars
  <2>2. game = "down"
    BY <2>1 DEF ColdInv, Quiet
  <2>3. dir' = dir
    BY <1>5, <2>2 DEF DeleteArchive, GameLoads, GameSaves, GameStops, vars, files
  <2>4. Archived(dir["Saves"])'
    BY <1>0, <2>1, <2>3 DEF Archived, Backed
  <2> QED
    BY <1>1, <2>1, <2>4
<1>6. ~PZAdminDies
  BY DEF PZAdminDies
<1> QED
  BY <1>2, <1>3, <1>4, <1>5, <1>6 DEF Next

LEMMA ArchStep == TInv /\ ColdInv /\ SwapInv /\ ArchInv /\ [Next]_vars => ArchInv'
BY CataloguedStep, LookingStep, BackedStep DEF ArchInv

---------------------------------------------------------------------------
(***************************************************************************)
(* Pruning: numbers first.                                                 *)
(***************************************************************************)
LEMMA LessIsWellFounded ==
    \E R : IsWellFoundedOn(R, Nat) /\ \A x, y \in Nat : x < y => <<x, y>> \in R
<1>1. \A x, y \in Nat : x < y => <<x, y>> \in OpToRel(<, Nat)
  BY DEF OpToRel
<1> QED
  BY <1>1, NatLessThanWellFounded

LEMMA SmallestIn ==
    ASSUME NEW R, IsWellFoundedOn(R, Nat), NEW T, T \subseteq Nat, T # {}
    PROVE  \E m \in T : \A k \in T : ~(<<k, m>> \in R)
BY WFMin, Zenon

LEMMA Smallest ==
    ASSUME NEW T \in SUBSET Nat, T # {}
    PROVE  \E m \in T : \A k \in T : m <= k
<1>1. PICK R : IsWellFoundedOn(R, Nat) /\ \A x, y \in Nat : x < y => <<x, y>> \in R
  BY LessIsWellFounded
<1>2. T \subseteq Nat
  OBVIOUS
<1>3. \E m \in T : \A k \in T : ~(<<k, m>> \in R)
  BY <1>1, <1>2, SmallestIn
<1>4. \E m \in T : \A k \in T : ~(k < m)
  BY <1>1, <1>2, <1>3
<1> QED
  BY <1>2, <1>4

LEMMA Largest ==
    ASSUME NEW n \in Nat, NEW T \in SUBSET (1..n), T # {}
    PROVE  \E m \in T : \A k \in T : k <= m
<1> DEFINE U == {n - k : k \in T}
<1>1. U \in SUBSET Nat /\ U # {}
  <2>1. \A k \in T : n - k \in Nat
    OBVIOUS
  <2>2. PICK k \in T : TRUE
    OBVIOUS
  <2>3. n - k \in U
    OBVIOUS
  <2> QED
    BY <2>1, <2>3
<1> HIDE DEF U
<1>2. PICK u \in U : \A v \in U : u <= v
  BY <1>1, Smallest
<1> USE DEF U
<1>3. PICK m \in T : u = n - m
  BY <1>2
<1>4. ASSUME NEW k \in T PROVE k <= m
  <2>1. n - k \in U
    OBVIOUS
  <2> QED
    BY <1>2, <1>3, <2>1
<1> QED
  BY <1>4

\* prune keeps Keep archives at most, newer ones than any it removes, and one
\* if there is one.
LEMMA NewestAre ==
    ASSUME TypeOK
    PROVE  /\ Newest \subseteq DOMAIN archives
           /\ Cardinality(Newest) <= Keep
           /\ \A i \in DOMAIN archives \ Newest : \A k \in Newest : i < k
           /\ DOMAIN archives # {} => Newest # {}
<1> DEFINE D == DOMAIN archives
           After(i) == {k \in D : k > i}
<1>0. made \in Nat /\ D \in SUBSET (1..made) /\ Keep \in Nat /\ Keep > 0
  BY WorldFilesAssumption DEF TypeOK
<1>1. IsFiniteSet(D)
  <2>1. IsFiniteSet(1..made)
    BY <1>0, FS_Interval
  <2> QED
    BY <1>0, <2>1, FS_Subset
<1>2. Newest = {i \in D : Cardinality(After(i)) < Keep}
  BY DEF Newest
<1>3. \A i \in D : /\ After(i) \in SUBSET D /\ IsFiniteSet(After(i))
                   /\ Cardinality(After(i)) \in Nat
  BY <1>1, FS_Subset, FS_CardinalityType
<1>4. Newest \in SUBSET Nat /\ Newest \in SUBSET D
  BY <1>0, <1>2
<1>5. Cardinality(Newest) <= Keep
  <2>1. CASE Newest = {}
    BY <1>0, <2>1, FS_EmptySet
  <2>2. CASE Newest # {}
    <3>1. PICK m \in Newest : \A k \in Newest : m <= k
      BY <1>4, <2>2, Smallest
    <3>2. Newest \ {m} \in SUBSET After(m)
      BY <1>0, <1>4, <3>1
    <3>3. IsFiniteSet(Newest) /\ IsFiniteSet(After(m)) /\ Cardinality(After(m)) < Keep
      BY <1>1, <1>2, <1>3, <1>4, <3>1, FS_Subset
    <3>4. Cardinality(Newest \ {m}) = Cardinality(Newest) - 1
      BY <3>1, <3>3, FS_RemoveElement
    <3>5. Cardinality(Newest \ {m}) <= Cardinality(After(m))
      BY <3>2, <3>3, FS_Subset
    <3>6. Cardinality(Newest) \in Nat /\ Cardinality(After(m)) \in Nat
      BY <3>3, FS_CardinalityType
    <3> HIDE DEF After, D
    <3> QED
      BY <1>0, <3>3, <3>4, <3>5, <3>6
  <2> QED
    BY <2>1, <2>2
<1>6. ASSUME NEW i \in D \ Newest, NEW k \in Newest PROVE i < k
  <2>1. i \in Nat /\ k \in Nat /\ k \in D /\ i # k
    BY <1>0, <1>4, <1>6
  <2>2. SUFFICES ASSUME k < i PROVE FALSE
    BY <2>1
  <2>3. After(i) \in SUBSET After(k)
    BY <1>0, <2>1, <2>2
  <2>4. Cardinality(After(i)) <= Cardinality(After(k))
    BY <1>3, <2>1, <2>3, FS_Subset
  <2>5. Cardinality(After(k)) < Keep /\ ~(Cardinality(After(i)) < Keep)
    BY <1>2, <1>6
  <2>6. Cardinality(After(i)) \in Nat /\ Cardinality(After(k)) \in Nat
    BY <1>3, <2>1, <1>6
  <2> HIDE DEF After, D
  <2> QED
    BY <1>0, <2>4, <2>5, <2>6
<1>7. ASSUME D # {} PROVE Newest # {}
  <2>1. PICK m \in D : \A k \in D : k <= m
    BY <1>0, <1>7, Largest
  <2>2. After(m) = {}
    BY <1>0, <2>1
  <2>3. Cardinality(After(m)) = 0
    BY <2>2, FS_EmptySet
  <2> QED
    BY <1>0, <1>2, <2>1, <2>3
<1> QED
  BY <1>4, <1>5, <1>6, <1>7

\* The end of a backup that no failure interrupts.
LEMMA Prunes ==
    ASSUME TInv, [Next]_vars, NEW j \in Jobs,
           pc[j] = "b.prune", pc'[j] # "b.prune", faults' = faults
    PROVE  DOMAIN archives' = Newest
<1>0. TypeOK /\ faults \in Nat
  BY FaultsGrow DEF TInv
<1>1. ~PZAdminDies
  BY <1>0 DEF PZAdminDies, Fails
<1>2. pc' # pc
  OBVIOUS
<1>3. PICK k \in Jobs : Ask(k) \/ JobStep(k)
  BY <1>1, <1>2 DEF Next, DeleteArchive, GameLoads, GameSaves, GameStops, vars
<1>4. k = j
  BY <1>0, <1>3, OthersStay
<1>5. BackupPrunes(j)
  BY <1>3, <1>4 DEF Ask, JobStep, BackupBegins, BackupRenames, BackupFails, BackupPrunes,
       RestoreBegins, SwapKeeps, SwapMoves, SwapMakes, RestoreOpens, RestoreUnpacked,
       RestoreCommits, UndoDrops, UndoMovesBack, UndoKeeps, UndoStops, UndoSteps, ResetMoves,
       ResetDeletes, DuplicateHolds, DuplicateCopied, DuplicateFinishes, DuplicateReleases,
       StartCalls, Goes, Returns, Undoes
<1> QED
  BY <1>5 DEF BackupPrunes

\* What is deleted on purpose has been archived, or is pushed out: a reset that
\* backs up first deletes a world that has been archived at some time, whatever
\* restores ran between its backup and its rename (no start does, while
\* operators wait), and prune never removes an archive that is newer than one
\* it keeps, nor the last.
THEOREM DeletesOnlyKept == Spec /\ []Careful => ArchivesAreKept
<1>1. Init /\ Careful => KeepInv /\ ArchInv
  <2> SUFFICES ASSUME Init, Careful PROVE KeepInv /\ ArchInv
    OBVIOUS
  <2>1. KeepInv
    BY KeepInitially
  <2>2. ArchInv
    BY StepNames DEF Init, ArchInv, Catalogued, Looking, Backed, Nothing
  <2> QED
    BY <2>1, <2>2
<1>2. KeepInv /\ ArchInv /\ Careful /\ [Next]_vars => (KeepInv /\ ArchInv)'
  BY KeepStep, ArchStep DEF KeepInv
<1>3. KeepInv /\ ArchInv /\ [Next]_vars
        => [\A j \in Jobs :
              /\ my[j].what = "reset-backup"
              /\ pc[j] = "z.lock" /\ pc'[j] = "z.delete"
              /\ dir["Saves"] \in Worlds
              => \E a \in archived : a["Saves"] = dir["Saves"]]_vars
  BY DEF ArchInv, Backed, Archived
<1>4. KeepInv /\ ArchInv /\ [Next]_vars
        => [\A j \in Jobs :
              pc[j] = "b.prune" /\ pc'[j] # "b.prune" /\ faults' = faults =>
                /\ Cardinality(DOMAIN archives') <= Keep
                /\ \A i \in DOMAIN archives \ DOMAIN archives' :
                     \A k \in DOMAIN archives' : i < k
                /\ DOMAIN archives # {} => DOMAIN archives' # {}]_vars
  BY Prunes, NewestAre DEF KeepInv, TInv
<1> QED
  BY <1>1, <1>2, <1>3, <1>4, PTL
  DEF Spec, ArchivesAreKept, ResetDeletesOnlyArchived, PruneTakesTheOldest

---------------------------------------------------------------------------
(***************************************************************************)
(* The files implement the vault.                                          *)
(***************************************************************************)

\* What the operators see of a folder.
Seen ==
    /\ WorldSeen = [p \in Parts |-> WorldSeen[p]]
    /\ \A p \in Parts : /\ SwapUnderWay(p) = {} => WorldSeen[p] = dir[p]
                        /\ \A j \in SwapUnderWay(p) : WorldSeen[p] = my[j].was[p]

LEMMA SeenIs == TInv => Seen
<1> SUFFICES ASSUME TInv PROVE Seen
  OBVIOUS
<1>1. \A p \in Parts : WorldSeen[p] = IF SwapUnderWay(p) = {} THEN dir[p]
                                      ELSE my[CHOOSE j \in SwapUnderWay(p) : TRUE].was[p]
  BY DEF WorldSeen
<1>2. ASSUME NEW p \in Parts, NEW j \in SwapUnderWay(p)
      PROVE  (CHOOSE k \in SwapUnderWay(p) : TRUE) = j
  <2>1. (CHOOSE k \in SwapUnderWay(p) : TRUE) \in SwapUnderWay(p)
    OBVIOUS
  <2>2. \A k \in SwapUnderWay(p) : k \in Jobs /\ pc[k] \in RestoreSteps
    BY DEF SwapUnderWay
  <2> QED
    BY <2>1, <2>2, OneRestore
<1>3. WorldSeen = [p \in Parts |-> WorldSeen[p]]
  BY DEF WorldSeen
<1> QED
  BY <1>1, <1>2, <1>3 DEF Seen

LEMMA SeenType == TInv => WorldSeen \in [Parts -> Content]
<1> SUFFICES ASSUME TInv PROVE WorldSeen \in [Parts -> Content]
  OBVIOUS
<1>1. ASSUME NEW p \in Parts PROVE WorldSeen[p] \in Content
  <2>1. CASE SwapUnderWay(p) = {}
    BY <2>1, SeenIs DEF Seen, TInv, TypeOK
  <2>2. CASE SwapUnderWay(p) # {}
    <3>1. PICK j \in Jobs : j \in SwapUnderWay(p)
      BY <2>2 DEF SwapUnderWay
    <3> QED
      BY <3>1, SeenIs, MyFields DEF Seen, TInv
  <2> QED
    BY <2>1, <2>2
<1> QED
  BY <1>1, SeenIs DEF Seen

\* Nothing is seen of a step that leaves the restore under way and the folders
\* it does not replace.
LEMMA SeenStays ==
    ASSUME Seen, Seen',
           \A p \in Parts :
             \/ SwapUnderWay(p) = {} /\ SwapUnderWay(p)' = {} /\ dir'[p] = dir[p]
             \/ \E j \in SwapUnderWay(p) : j \in SwapUnderWay(p)' /\ my'[j].was[p] = my[j].was[p]
             \/ \E j \in SwapUnderWay(p) : SwapUnderWay(p)' = {} /\ dir'[p] = my[j].was[p]
             \/ \E j \in SwapUnderWay(p)' : SwapUnderWay(p) = {} /\ dir[p] = my'[j].was[p]
    PROVE  WorldSeen' = WorldSeen
<1>1. \A p \in Parts : WorldSeen'[p] = WorldSeen[p]
  BY DEF Seen
<1>2. /\ WorldSeen = [p \in Parts |-> WorldSeen[p]]
      /\ WorldSeen' = [p \in Parts |-> WorldSeen'[p]]
  BY DEF Seen
<1> QED
  BY <1>1, <1>2

\* Without a restore the folders are what is seen.
LEMMA SeenPlain ==
    ASSUME Seen, Seen', \A j \in Jobs : pc[j] \notin RestoreSteps /\ pc'[j] \notin RestoreSteps
    PROVE  /\ WorldSeen = [p \in Parts |-> dir[p]] /\ \A p \in Parts : WorldSeen[p] = dir[p]
           /\ WorldSeen' = [p \in Parts |-> dir'[p]] /\ \A p \in Parts : WorldSeen'[p] = dir'[p]
<1>1. \A p \in Parts : SwapUnderWay(p) = {} /\ SwapUnderWay(p)' = {}
  BY DEF SwapUnderWay
<1>2. \A p \in Parts : WorldSeen[p] = dir[p] /\ WorldSeen'[p] = dir'[p]
  BY <1>1 DEF Seen
<1> QED
  BY <1>2 DEF Seen

\* A restore writes only the folders it replaces.
LEMMA OutsideStays ==
    ASSUME TInv, SwapInv, NEW j \in Jobs, Restores(j), NEW p \in Parts \ my[j].targets
    PROVE  dir'[p] = dir[p]
<1> DEFINE at == my[j].at
<1>0. /\ TypeOK /\ dir \in [Parts -> Content] /\ at \in Parts
      /\ pc[j] \in RestoreSteps => at \in my[j].targets
  BY MyFields DEF TInv, TypeOK, SwapInv
<1>1. CASE RestoreBegins(j) \/ SwapKeeps(j) \/ RestoreCommits(j) \/ UndoKeeps(j) \/ UndoStops(j)
  BY <1>1 DEF RestoreBegins, SwapKeeps, RestoreCommits, UndoKeeps, UndoStops, files
<1>2. CASE RestoreOpens(j) \/ RestoreUnpacked(j)
  BY <1>2 DEF RestoreOpens, RestoreUnpacked, Write
<1>3. CASE SwapMoves(j)
  BY <1>0, <1>3 DEF SwapMoves, Write, Goes, Undoes, RestoreSteps, SwapSteps
<1>4. CASE SwapMakes(j)
  BY <1>0, <1>4 DEF SwapMakes, Write, Goes, Undoes, RestoreSteps, SwapSteps
<1>5. CASE UndoDrops(j) \/ UndoMovesBack(j)
  BY <1>0, <1>5 DEF UndoDrops, UndoMovesBack, Write, Goes, RestoreSteps, UndoSteps
<1> QED
  BY <1>1, <1>2, <1>3, <1>4, <1>5 DEF Restores

\* Where a step of a restore is taken from.
LEMMA RestoresFrom ==
    ASSUME NEW j \in Jobs, Restores(j)
    PROVE  \/ RestoreBegins(j) /\ lock = "free"
           \/ ~RestoreBegins(j) /\ pc[j] \in RestoreSteps
BY DEF Restores, RestoreBegins, Takes, SwapKeeps, SwapMoves, SwapMakes, RestoreOpens,
       RestoreUnpacked, RestoreCommits, UndoDrops, UndoMovesBack, UndoKeeps, UndoStops, Goes,
       Undoes, RestoreSteps, SwapSteps, UndoSteps

\* While one job restores, no other does.
LEMMA RestoresAlone ==
    ASSUME TInv, NEW j \in Jobs, Restores(j), NEW k \in Jobs, k # j
    PROVE  pc[k] \notin RestoreSteps /\ pc'[k] \notin RestoreSteps
<1>1. pc'[k] = pc[k]
  BY OthersStay DEF TInv, Restores, JobStep
<1>2. pc[k] \notin RestoreSteps
  BY RestoresFrom, OneRestore, StepNames, WorldFilesAssumption DEF TInv, Owners, FilesHaveOneOwner
<1> QED
  BY <1>1, <1>2

\* Until it has unpacked everything, and when all of it is undone, nobody sees
\* anything of a restore.
LEMMA RestoreUnseen ==
    ASSUME TInv, SwapInv, Seen, Seen', NEW j \in Jobs, Restores(j), ~UndoStops(j),
           pc[j] = "x.unpack" => pc'[j] # "x.commit"
    PROVE  WorldSeen' = WorldSeen
<1> DEFINE Hidden == RestoreSteps \ {"x.commit"}
<1>0. /\ TypeOK /\ my[j] \in Locals /\ my[j].targets \subseteq Parts
      /\ "idle" \notin RestoreSteps /\ "x.commit" \in RestoreSteps
  BY MyFields, StepNames DEF TInv
<1>1. \A p \in Parts : /\ SwapUnderWay(p) \subseteq {j} /\ SwapUnderWay(p)' \subseteq {j}
                       /\ j \in SwapUnderWay(p) <=> pc[j] \in Hidden /\ p \in my[j].targets
                       /\ j \in SwapUnderWay(p)' <=> pc'[j] \in Hidden /\ p \in my'[j].targets
  BY RestoresAlone DEF SwapUnderWay
<1>2. CASE RestoreBegins(j)
  <2>1. PICK i \in DOMAIN archives :
          my' = [my EXCEPT ![j].what = "restore", ![j].id = i,
                           ![j].targets = Targets(archives[i]),
                           ![j].at = First(Targets(archives[i])),
                           ![j].was = dir, ![j].wasAside = aside]
    BY <1>2 DEF RestoreBegins
  <2>2. my'[j].was = dir
    BY <1>0, <2>1 DEF TypeOK, Locals
  <2>3. pc[j] = "idle" /\ dir' = dir
    BY <1>2 DEF RestoreBegins, Goes, files
  <2>4. ASSUME NEW p \in Parts
        PROVE  \/ SwapUnderWay(p) = {} /\ SwapUnderWay(p)' = {} /\ dir'[p] = dir[p]
               \/ \E k \in SwapUnderWay(p)' : SwapUnderWay(p) = {} /\ dir[p] = my'[k].was[p]
    BY <1>0, <1>1, <2>2, <2>3
  <2> QED
    BY <2>4, SeenStays
<1>3. CASE pc[j] \in Hidden /\ pc'[j] \in Hidden
  <2>1. ~RestoreBegins(j)
    BY <1>0, <1>3 DEF RestoreBegins, Goes
  <2>2. my'[j].was = my[j].was /\ my'[j].targets = my[j].targets
    BY <1>3, <2>1, WasStays
  <2>3. ASSUME NEW p \in Parts
        PROVE  \/ SwapUnderWay(p) = {} /\ SwapUnderWay(p)' = {} /\ dir'[p] = dir[p]
               \/ \E k \in SwapUnderWay(p) : k \in SwapUnderWay(p)' /\ my'[k].was[p] = my[k].was[p]
    BY <1>1, <1>3, <2>2, OutsideStays
  <2> QED
    BY <2>3, SeenStays
<1>4. CASE RestoreCommits(j)
  <2>1. pc[j] = "x.commit" /\ pc'[j] \in {"x.commit", "idle"} /\ dir' = dir
    BY <1>0, <1>4, ReturnsMine DEF RestoreCommits
  <2> QED
    BY <1>0, <1>1, <2>1, SeenStays
<1>5. CASE UndoKeeps(j) /\ pc'[j] = "idle"
  <2>1. ~MoreSwaps(j) /\ pc[j] = "u.keep" /\ Restoring(j) /\ dir' = dir
    BY <1>0, <1>5 DEF UndoKeeps, Goes, TypeOK, SwapInv, Restoring
  <2>2. \A p \in my[j].targets : p = my[j].at \/ Behind(j, p)
    BY <1>0, <2>1, MyFields DEF MoreSwaps, Behind, Parts
  <2>3. \A p \in my[j].targets : dir'[p] = my[j].was[p]
    BY <1>5, <2>1, <2>2, KeptBack
  <2>4. pc[j] \in Hidden
    BY <2>1 DEF RestoreSteps, UndoSteps
  <2>5. ASSUME NEW p \in Parts
        PROVE  \/ SwapUnderWay(p) = {} /\ SwapUnderWay(p)' = {} /\ dir'[p] = dir[p]
               \/ \E k \in SwapUnderWay(p) : SwapUnderWay(p)' = {} /\ dir'[p] = my[k].was[p]
    BY <1>0, <1>1, <1>5, <2>1, <2>3, <2>4
  <2> QED
    BY <2>5, SeenStays
<1>6. \/ RestoreBegins(j)
      \/ RestoreCommits(j)
      \/ UndoKeeps(j) /\ pc'[j] = "idle"
      \/ pc[j] \in Hidden /\ pc'[j] \in Hidden
  <2> USE DEF Goes, Undoes, TypeOK, RestoreSteps, SwapSteps, UndoSteps
  <2>1. CASE SwapKeeps(j) \/ SwapMoves(j) \/ SwapMakes(j)
    BY <1>0, <2>1 DEF SwapKeeps, SwapMoves, SwapMakes
  <2>2. CASE RestoreOpens(j)
    BY <1>0, <2>2 DEF RestoreOpens
  <2>3. CASE RestoreUnpacked(j)
    BY <1>0, <2>3 DEF RestoreUnpacked
  <2>4. CASE UndoDrops(j) \/ UndoMovesBack(j)
    BY <1>0, <2>4 DEF UndoDrops, UndoMovesBack
  <2>5. CASE UndoKeeps(j)
    BY <1>0, <2>5, ReturnsMine DEF UndoKeeps
  <2>6. \/ RestoreBegins(j) \/ RestoreCommits(j)
        \/ SwapKeeps(j) \/ SwapMoves(j) \/ SwapMakes(j) \/ RestoreOpens(j)
        \/ RestoreUnpacked(j) \/ UndoDrops(j) \/ UndoMovesBack(j) \/ UndoKeeps(j)
    BY DEF Restores
  <2> QED
    BY <2>1, <2>2, <2>3, <2>4, <2>5, <2>6
<1> QED
  BY <1>2, <1>3, <1>4, <1>5, <1>6

\* Nothing is seen of a step that leaves the folders and the restores alone.
LEMMA StillSeen ==
    ASSUME Seen, Seen', dir' = dir,
           \A k \in Jobs : pc[k] \in RestoreSteps \/ pc'[k] \in RestoreSteps
                             => pc'[k] = pc[k] /\ my'[k] = my[k]
    PROVE  WorldSeen' = WorldSeen
<1>1. \A p \in Parts : SwapUnderWay(p)' = SwapUnderWay(p)
  BY DEF SwapUnderWay
<1>2. \A p \in Parts : \A k \in SwapUnderWay(p) : my'[k] = my[k]
  BY DEF SwapUnderWay
<1> QED
  BY <1>1, <1>2, SeenStays

\* What was unpacked is seen all at once.
LEMMA UnpackedSeen ==
    ASSUME TInv, SwapInv, Catalogued, Seen, Seen',
           NEW j \in Jobs, RestoreUnpacked(j), pc'[j] = "x.commit"
    PROVE  Vault!Restore
<1> DEFINE targets == my[j].targets
           a == my[j].open
<1>0. /\ TypeOK /\ targets \subseteq Parts /\ Restores(j)
      /\ pc[j] = "x.unpack" /\ "x.unpack" \in RestoreSteps \ {"x.commit"}
  BY MyFields DEF TInv, Restores, RestoreUnpacked, Goes, Undoes, RestoreSteps
<1>1. /\ Works /\ UNCHANGED archived
      /\ dir' = [p \in Parts |-> IF p \in targets THEN a[p] ELSE dir[p]]
  BY <1>0 DEF RestoreUnpacked, Undoes, Goes, Write, history, TypeOK
<1>2. a \in archived
  BY <1>0 DEF Catalogued
<1>3. \A p \in Parts : /\ SwapUnderWay(p)' = {}
                       /\ p \notin targets => SwapUnderWay(p) = {}
  BY <1>0, RestoresAlone DEF SwapUnderWay
<1>4. \A p \in Parts : WorldSeen'[p] = IF p \in targets THEN a[p] ELSE WorldSeen[p]
  BY <1>1, <1>3 DEF Seen
<1>5. WorldSeen' = [p \in Parts |-> IF p \in targets THEN a[p] ELSE WorldSeen[p]]
  BY <1>4 DEF Seen
<1> QED
  BY <1>0, <1>1, <1>2, <1>5 DEF Vault!Restore, Works

\* A reset is seen as one.
LEMMA ResetSeen ==
    ASSUME TInv, Seen, Seen', NEW j \in Jobs, ResetMoves(j), faults' = faults, dir' # dir
    PROVE  Vault!Reset
<1>0. TypeOK /\ dir \in [Parts -> Content] /\ JobStep(j) /\ ~Restores(j)
  BY DEF TInv, TypeOK, JobStep, Restores, ResetMoves, RestoreBegins, SwapKeeps, SwapMoves,
         SwapMakes, RestoreOpens, RestoreUnpacked, RestoreCommits, UndoDrops, UndoMovesBack,
         UndoKeeps, UndoStops, Goes, Returns, Undoes, UndoSteps
<1>1. /\ lock = "free" /\ dir' = [dir EXCEPT !["Saves"] = "empty"] /\ UNCHANGED archived
  BY DEF ResetMoves, Takes, Write, history
<1>2. \A k \in Jobs : pc[k] \notin RestoreSteps
  BY <1>1, StepNames, WorldFilesAssumption DEF TInv, Owners, FilesHaveOneOwner
<1>3. \A k \in Jobs : pc'[k] \notin RestoreSteps
  BY <1>0, <1>2, NoRestoreAfter, OthersStay
<1>4. WorldSeen = dir /\ WorldSeen' = dir'
  <2>1. dir = [p \in Parts |-> dir[p]] /\ dir' = [p \in Parts |-> dir'[p]]
    BY <1>0, <1>1
  <2>2. /\ WorldSeen = [p \in Parts |-> dir[p]]
        /\ WorldSeen' = [p \in Parts |-> dir'[p]]
    BY <1>2, <1>3, SeenPlain
  <2> QED
    BY <2>1, <2>2
<1> QED
  BY <1>1, <1>4 DEF Vault!Reset

\* The game plays on where nobody restores.
LEMMA PlaySeen ==
    ASSUME TInv, ColdInv, Seen, Seen', GameSaves
    PROVE  Vault!Play
<1>1. \A k \in Jobs : pc[k] \notin RestoreSteps /\ pc'[k] = pc[k]
  BY DEF ColdInv, Quiet, GameSaves
<1>2. WorldSeen = [p \in Parts |-> dir[p]] /\ WorldSeen' = [p \in Parts |-> dir'[p]]
  BY <1>1, SeenPlain
<1>3. PICK w \in Worlds : dir' = [p \in Parts |-> w]
  BY DEF GameSaves, Write
<1>4. WorldSeen' = [p \in Parts |-> w]
  BY <1>2, <1>3
<1> QED
  BY <1>4 DEF Vault!Play, GameSaves

\* An archive is of the world as it is seen.
LEMMA BackupSeen ==
    ASSUME TInv, Seen, Seen', NEW j \in Jobs, BackupRenames(j)
    PROVE  Vault!Archive
<1>0. /\ TypeOK /\ JobStep(j) /\ pc[j] = "b.read" /\ UNCHANGED <<dir, faults>>
  BY DEF TInv, JobStep, BackupRenames, Goes, files
<1>1. \A k \in Jobs : pc[k] \notin RestoreSteps
  BY <1>0, OneRestore, StepNames DEF TInv, Owners, FilesHaveOneOwner, Reading
<1>2. \A k \in Jobs : pc'[k] \notin RestoreSteps
  <2>1. pc'[j] = "b.prune"
    BY <1>0 DEF BackupRenames, Goes, TypeOK
  <2> QED
    BY <1>0, <1>1, <2>1, OthersStay, StepNames
<1>3. WorldSeen' = WorldSeen /\ \A p \in Parts : WorldSeen[p] = dir[p]
  BY <1>0, <1>1, <1>2, SeenPlain
<1> DEFINE a == [p \in Parts |-> Packed(j, p)]
<1>4. archived' = archived \cup {a}
  BY Renamed DEF BackupRenames
<1>5. \A p \in Parts : a[p] \in {WorldSeen[p], "none", "mixed"}
  BY <1>3 DEF Packed
<1> HIDE DEF a
<1> QED
  BY <1>0, <1>3, <1>4, <1>5 DEF Vault!Archive

SeenTyped == WorldSeen \in [Parts -> Content]

LEMMA SeenNext == TInv' => Seen' /\ SeenTyped'
<1>1. TInv => Seen /\ SeenTyped
  BY SeenIs, SeenType DEF SeenTyped
<1> QED
  BY <1>1, PTL

\* Only a backup that works archives.
LEMMA OnlyBackupsArchive ==
    ASSUME [Next]_vars, \A j \in Jobs : ~BackupRenames(j)
    PROVE  archived' = archived
<1>1. ASSUME NEW j \in Jobs, JobStep(j) PROVE archived' = archived
  <2>1. CASE BackupBegins(j) \/ BackupFails(j) \/ BackupPrunes(j)
    BY <2>1 DEF BackupBegins, BackupFails, BackupPrunes, history
  <2>2. CASE Restores(j)
    BY <2>2 DEF Restores, RestoreBegins, SwapKeeps, SwapMoves, SwapMakes, RestoreOpens,
       RestoreUnpacked, RestoreCommits, UndoDrops, UndoMovesBack, UndoKeeps, UndoStops, history
  <2>3. CASE \/ ResetMoves(j) \/ ResetDeletes(j) \/ DuplicateHolds(j) \/ DuplicateCopied(j)
             \/ DuplicateFinishes(j) \/ DuplicateReleases(j) \/ StartCalls(j)
    BY <2>3 DEF ResetMoves, ResetDeletes, DuplicateHolds, DuplicateCopied, DuplicateFinishes,
                DuplicateReleases, StartCalls, history
  <2> QED
    BY <1>1, <2>1, <2>2, <2>3 DEF JobStep, Restores
<1> QED
  BY <1>1 DEF Next, Ask, DeleteArchive, GameLoads, GameSaves, GameStops, PZAdminDies, vars, history

\* Only a restore, a reset and the game write the folders.
LEMMA OthersWriteNothing ==
    ASSUME NEW j \in Jobs, Ask(j) \/ JobStep(j), ~Restores(j), ~ResetMoves(j)
    PROVE  dir' = dir
<1>1. CASE Ask(j)
  BY <1>1 DEF Ask, files
<1>2. CASE BackupBegins(j) \/ BackupRenames(j) \/ BackupFails(j) \/ BackupPrunes(j)
  BY <1>2 DEF BackupBegins, BackupRenames, BackupFails, BackupPrunes, files
<1>3. CASE \/ ResetDeletes(j) \/ DuplicateHolds(j) \/ DuplicateCopied(j)
           \/ DuplicateFinishes(j) \/ DuplicateReleases(j) \/ StartCalls(j)
  BY <1>3 DEF ResetDeletes, DuplicateHolds, DuplicateCopied, DuplicateFinishes,
              DuplicateReleases, StartCalls, files
<1> QED
  BY <1>1, <1>2, <1>3 DEF JobStep, Restores

\* A step of a restore that works is a restore of the vault's, or unseen.
LEMMA RestoreShown ==
    ASSUME TInv, SwapInv, Catalogued, Seen, Seen', NEW j \in Jobs, Restores(j), faults' = faults
    PROVE  Vault!Restore \/ WorldSeen' = WorldSeen
<1>1. ~UndoStops(j)
  <2>1. faults \in Nat
    BY WorldFilesAssumption DEF TInv, TypeOK
  <2> QED
    BY <2>1 DEF UndoStops, Fails
<1>2. CASE pc[j] = "x.unpack" /\ pc'[j] = "x.commit"
  <2>1. RestoreUnpacked(j)
    BY <1>1, <1>2 DEF Restores, RestoreBegins, SwapKeeps, SwapMoves, SwapMakes, RestoreOpens,
       RestoreCommits, UndoDrops, UndoMovesBack, UndoKeeps, Goes, Undoes
  <2> QED
    BY <1>2, <2>1, UnpackedSeen
<1>3. CASE ~(pc[j] = "x.unpack" /\ pc'[j] = "x.commit")
  BY <1>1, <1>3, RestoreUnseen
<1> QED
  BY <1>2, <1>3

LEMMA VaultStep ==
    KeepInv /\ ArchInv /\ KeepInv' /\ [Next]_vars
      => [Vault!Next]_<<WorldSeen, archived, faults>>
<1> SUFFICES ASSUME KeepInv, ArchInv, KeepInv', [Next]_vars
             PROVE  Vault!Next \/ UNCHANGED <<WorldSeen, archived, faults>>
  OBVIOUS
<1>0. /\ TInv /\ TypeOK /\ ColdInv /\ SwapInv /\ Catalogued /\ TInv'
      /\ Seen /\ Seen' /\ WorldSeen' \in [Parts -> Content]
      /\ faults \in Nat /\ faults' \in {faults, faults + 1}
  BY FaultsGrow, SeenIs, SeenNext DEF KeepInv, TInv, ArchInv, SeenTyped
<1>a. ASSUME \A j \in Jobs : ~BackupRenames(j) PROVE archived' = archived
  BY <1>a, OnlyBackupsArchive
<1>1. CASE faults' # faults
  <2>1. \A j \in Jobs : ~BackupRenames(j)
    BY <1>1 DEF BackupRenames
  <2> QED
    BY <1>0, <1>1, <1>a, <2>1 DEF Vault!Next, Vault!Failure
<1>2. ASSUME faults' = faults, NEW j \in Jobs, Ask(j) \/ JobStep(j)
      PROVE  Vault!Next \/ UNCHANGED <<WorldSeen, archived, faults>>
  <2>1. CASE BackupRenames(j)
    BY <1>0, <2>1, BackupSeen DEF Vault!Next
  <2>2. CASE ResetMoves(j) /\ dir' # dir
    BY <1>0, <1>2, <2>2, ResetSeen DEF Vault!Next
  <2>3. CASE Restores(j)
    <3>1. archived' = archived
      BY <2>3 DEF Restores, RestoreBegins, SwapKeeps, SwapMoves, SwapMakes, RestoreOpens,
         RestoreUnpacked, RestoreCommits, UndoDrops, UndoMovesBack, UndoKeeps, UndoStops, history
    <3> QED
      BY <1>0, <1>2, <2>3, <3>1, RestoreShown DEF Vault!Next
  <2>4. CASE ~BackupRenames(j) /\ ~Restores(j) /\ ~(ResetMoves(j) /\ dir' # dir)
    <3>1. dir' = dir
      BY <1>2, <2>4, OthersWriteNothing
    <3>2. \A k \in Jobs : pc[k] \in RestoreSteps \/ pc'[k] \in RestoreSteps
                            => pc'[k] = pc[k] /\ my'[k] = my[k]
      BY <1>0, <1>2, <2>4, NoRestoreAfter, OthersStay
    <3>3. WorldSeen' = WorldSeen
      BY <1>0, <3>1, <3>2, StillSeen
    <3>4. archived' = archived
      BY <1>2, <2>4 DEF JobStep, Ask, Restores, BackupBegins, BackupFails, BackupPrunes,
         ResetMoves, ResetDeletes, DuplicateHolds, DuplicateCopied, DuplicateFinishes,
         DuplicateReleases, StartCalls, history
    <3> QED
      BY <1>2, <3>3, <3>4
  <2> QED
    BY <2>1, <2>2, <2>3, <2>4
<1>3. CASE DeleteArchive \/ GameLoads \/ GameStops \/ UNCHANGED vars
  <2>1. UNCHANGED <<dir, pc, my, archived, faults>>
    BY <1>3 DEF DeleteArchive, GameLoads, GameStops, vars, files, history
  <2>2. WorldSeen' = WorldSeen
    BY <1>0, <2>1, StillSeen
  <2> QED
    BY <2>1, <2>2
<1>4. CASE GameSaves
  BY <1>0, <1>4, PlaySeen DEF Vault!Next
<1>5. CASE PZAdminDies
  BY <1>0, <1>1, <1>5 DEF PZAdminDies, Fails
<1> QED
  BY <1>1, <1>2, <1>3, <1>4, <1>5 DEF Next

\* While operators wait, the files, locks and renames of any number of jobs
\* implement the vault, with failing calls and crashes anywhere: a restore is
\* seen to put what was archived in its folders at one moment or not at all,
\* and only a failing call or a crash leaves anything that was neither played,
\* restored nor reset.
THEOREM FilesImplementVault == Spec /\ []Careful => ImplementsVault
<1>1. Init /\ Careful => KeepInv /\ ArchInv /\ Vault!Init
  <2> SUFFICES ASSUME Init, Careful PROVE KeepInv /\ ArchInv /\ Vault!Init
    OBVIOUS
  <2>1. KeepInv
    BY KeepInitially
  <2>2. ArchInv
    BY DEF Init, ArchInv, Catalogued, Looking, Backed, Nothing
  <2>3. PICK w \in Worlds : dir = [p \in Parts |-> w]
    BY DEF Init
  <2>4. \A p \in Parts : SwapUnderWay(p) = {}
    BY StepNames DEF Init, SwapUnderWay
  <2>5. WorldSeen = [p \in Parts |-> w]
    BY <2>3, <2>4 DEF WorldSeen
  <2> QED
    BY <2>1, <2>2, <2>5 DEF Init, Vault!Init
<1>2. KeepInv /\ ArchInv /\ Careful /\ [Next]_vars => (KeepInv /\ ArchInv)'
  BY KeepStep, ArchStep DEF KeepInv
<1> QED
  BY <1>1, <1>2, VaultStep, PTL DEF Spec, ImplementsVault, Vault!Spec
=============================================================================
