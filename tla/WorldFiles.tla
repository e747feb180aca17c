----------------------------- MODULE WorldFiles -----------------------------
(***************************************************************************)
(* The files of one server's world and everything in PZAdmin that touches  *)
(* them: backups (internal/pz Backupper.Create), restores (Restore and its *)
(* swaps), world resets (ResetWorld and handleWorldReset), the copy made   *)
(* by handleDuplicate, and the start that must not begin under any of them *)
(* (dupRefusal, worldInUse).                                               *)
(*                                                                         *)
(* Every file-system call that another job, the game or a crash can fall   *)
(* between is a step.  A folder's contents are abstracted to which world   *)
(* they are: all of one world, part of one, or a mixture.                  *)
(***************************************************************************)
EXTENDS Naturals, FiniteSets

CONSTANTS
    Jobs,           \* requests and scheduled tasks running at the same time
    Worlds,         \* states the world has been in; the game makes new ones
    Requests,       \* what the jobs are asked to do
    Keep,           \* Backup.Keep, the archives prune leaves
    IncludeConfig,  \* the values Backup.IncludeConfig takes
    MaxArchives,    \* bound: archives ever made
    MaxFaults,      \* bound: file-system calls that fail, and crashes
    Careful,        \* operators wait for a request's answer before a start,
                    \* and restore only a server whose container is down
    Dies            \* the PZAdmin process may be killed and started again

ASSUME WorldFilesAssumption ==
    /\ "free" \notin Jobs
    /\ Worlds # {}
    /\ Worlds \cap {"none", "empty", "half", "mixed"} = {}
    /\ Requests \subseteq {"backup", "restore", "reset", "reset-backup",
                           "duplicate", "start"}
    /\ Keep \in Nat \ {0}
    /\ IncludeConfig \subseteq BOOLEAN
    /\ MaxArchives \in Nat
    /\ MaxFaults \in Nat
    /\ {Careful, Dies} \subseteq BOOLEAN

VARIABLES
    dir,        \* <folder>: what Saves and Server hold now
    aside,      \* <folder>.before-restore
    previous,   \* <folder>.before-restore.previous
    archives,   \* the server's archives, by the order they were made in
    partial,    \* a .partial archive exists
    lock,       \* Backupper.running: the job that marked the server busy
    copying,    \* dupJobs.busy is set for the server
    game,       \* what the container really does
    pc,         \* where each job is in its handler
    my,         \* each job's local variables
    torn,       \* history: jobs whose files were written while they read them
    live,       \* history: jobs that read while the game had them open
    made,       \* history: archives made so far
    archived,   \* history: everything that has been archived
    used,       \* history: worlds that have existed
    faults      \* file-system calls that have failed, and crashes

files == <<dir, aside, previous>>
shared == <<lock, copying>>
reads == <<torn, live>>
history == <<made, archived, used>>
vars == <<dir, aside, previous, archives, partial, lock, copying,
          game, pc, my, torn, live, made, archived, used, faults>>

Parts == {"Saves", "Server"}
Content == Worlds \cup {"none", "empty", "half", "mixed"}

NoFolders == [p \in Parts |-> "none"]

Locals == [
    what : Requests \cup {"nothing"},
    id : 0..MaxArchives,                \* the archive a restore unpacks
    open : [Parts -> Content],          \* what is in it, once it is open
    targets : SUBSET Parts,             \* the folders it replaces
    at : Parts,                         \* the swap it is working on
    moved : SUBSET Parts,               \* swap.moved
    kept : SUBSET Parts,                \* swap.keptPrevious
    config : BOOLEAN,                   \* includeConfig
    layout : SUBSET Parts,              \* the folders pz.Detect found
    was : [Parts -> Content],           \* history: dir when the swaps began
    wasAside : [Parts -> Content]]      \* history: aside then

Nothing == [what |-> "nothing", id |-> 0, open |-> NoFolders, targets |-> {}, at |-> "Saves",
            moved |-> {}, kept |-> {}, config |-> FALSE, layout |-> {},
            was |-> NoFolders, wasAside |-> NoFolders]

Archive == [Parts -> Content]

\* Steps in which a job holds the Backupper's lock.
SwapSteps == {"x.keep", "x.aside", "x.make"}
UndoSteps == {"u.drop", "u.back", "u.keep"}
RestoreSteps == SwapSteps \cup {"x.open", "x.unpack", "x.commit"}
                          \cup UndoSteps
Copying == {"d.copy", "d.finish", "d.release"}
Locked == {"b.read", "b.prune", "z.delete"}
          \cup RestoreSteps \cup Copying
Reading == {"b.read", "d.copy"}
Steps == {"idle", "b.lock", "z.lock", "d.hold", "t.call"}
         \cup Locked

TypeOK ==
    /\ dir \in [Parts -> Content]
    /\ aside \in [Parts -> Content]
    /\ previous \in [Parts -> Content]
    /\ made \in 0..MaxArchives
    /\ DOMAIN archives \subseteq 1..made
    /\ \A i \in DOMAIN archives : archives[i] \in Archive
    /\ partial \in BOOLEAN
    /\ lock \in Jobs \cup {"free"}
    /\ copying \in BOOLEAN
    /\ game \in {"down", "loading", "up"}
    /\ pc \in [Jobs -> Steps]
    /\ my \in [Jobs -> Locals]
    /\ torn \subseteq Jobs
    /\ live \subseteq Jobs
    /\ archived \subseteq Archive
    /\ used \subseteq Worlds
    /\ faults \in 0..MaxFaults

Init ==
    /\ \E w \in Worlds :
         /\ dir = [p \in Parts |-> w]
         /\ used = {w}
    /\ aside = NoFolders
    /\ previous = NoFolders
    /\ archives = [i \in {} |-> NoFolders]
    /\ partial = FALSE
    /\ lock = "free"
    /\ copying = FALSE
    /\ game = "down"
    /\ pc = [j \in Jobs |-> "idle"]
    /\ my = [j \in Jobs |-> Nothing]
    /\ torn = {}
    /\ live = {}
    /\ made = 0
    /\ archived = {}
    /\ faults = 0

(***************************************************************************)
(* Common parts of the steps.                                              *)
(***************************************************************************)

Goes(j, from, to) == pc[j] = from /\ pc' = [pc EXCEPT ![j] = to]

\* Job j returns: its locals are gone.
Returns(j, from) == /\ Goes(j, from, "idle")
                    /\ my' = [my EXCEPT ![j] = Nothing]

Keeps(j) == UNCHANGED my

\* Mutant: running[serverID] is set without being looked at.
TakesAnyway(j) == lock' = j

\* running[serverID] is taken under Backupper.mu, or the job is refused.
Takes(j) == lock = "free" /\ lock' = j
Busy == lock # "free"
Frees(j) == lock' = "free"

\* A file-system call fails.
Fails == faults < MaxFaults /\ faults' = faults + 1
Works == UNCHANGED faults

\* The live folders change under whoever is reading them.
Write(d) == /\ dir' = d
            /\ torn' = torn \cup {j \in Jobs : pc[j] \in Reading}
            /\ UNCHANGED live

StartsReading(j) == /\ live' = IF game = "down" THEN live ELSE live \cup {j}
                    /\ UNCHANGED torn
StopsReading(j) == /\ torn' = torn \ {j}
                   /\ live' = live \ {j}

\* pz.Detect: a folder that is not there is no target and no source.
Detected == {p \in Parts : dir[p] # "none"}

\* An operator's request that has not been answered yet.
Unanswered(j) == /\ pc[j] # "idle"
                 /\ my[j].what # "backup"
                 /\ pc[j] \notin Copying

\* The order Restore lists its swaps in: Saves, then Server.
First(targets) == IF "Saves" \in targets THEN "Saves" ELSE "Server"
MoreSwaps(j) == my[j].at = "Saves" /\ "Server" \in my[j].targets

(***************************************************************************)
(* Requests arrive.  The checks made before the first lock are here.       *)
(***************************************************************************)

\* Status.Online, once a probe has found the game as it is.
Online == game = "up"

\* worldInUse: the status, then the container itself.  Status.Restarting only
\* adds starts under way, after which the container answers for itself.
WorldInUse == Online \/ game # "down"

\* Mutant: a start is not refused while the world is copied.
NeverRefused == FALSE

DupRefusal == copying

NoStartUnanswered == Careful => \A k \in Jobs : my[k].what # "start"

Ask(j) ==
    /\ pc[j] = "idle"
    /\ \E what \in Requests, config \in IncludeConfig :
         /\ my' = [my EXCEPT ![j].what = what, ![j].config = config,
                                ![j].layout = Detected]
         /\ what \in {"reset", "reset-backup", "duplicate"} => NoStartUnanswered
         /\ \/ what = "backup" /\ Goes(j, "idle", "b.lock")
            \* handleWorldReset
            \/ /\ what \in {"reset", "reset-backup"} /\ ~WorldInUse
               /\ dir["Saves"] \notin {"none", "empty"}
               /\ Goes(j, "idle", IF what = "reset" THEN "z.lock" ELSE "b.lock")
            \* handleDuplicate
            \/ what = "duplicate" /\ ~WorldInUse /\ Goes(j, "idle", "d.hold")
            \* handleLifecycle: dupRefusal
            \/ /\ what = "start" /\ ~DupRefusal /\ Goes(j, "idle", "t.call")
               /\ used # Worlds     \* bound: a start has a world left to make
               /\ Careful => \A k \in Jobs : ~Unanswered(k)
    /\ UNCHANGED <<files, archives, partial, shared, game, reads, history, faults>>

(***************************************************************************)
(* Backupper.Create                                                        *)
(***************************************************************************)

\* The lock; .partial files an earlier crash left are removed, and
\* writeArchive starts to read.
BackupBegins(j) ==
    /\ \/ /\ Takes(j)
          /\ my[j].layout # {}
          /\ Goes(j, "b.lock", "b.read")
          /\ Keeps(j)
          /\ partial' = TRUE
          /\ StartsReading(j)
       \/ /\ Busy \/ my[j].layout = {}
          /\ Returns(j, "b.lock")
          /\ UNCHANGED <<lock, partial, reads>>
    /\ UNCHANGED <<files, archives, copying, game, history, faults>>

\* What writeArchive has put in the archive of folder p.
Packed(j, p) == IF dir[p] = "none" \/ p \notin my[j].layout THEN "none"
                ELSE IF p = "Server" /\ ~my[j].config THEN "none"
                ELSE IF j \in torn THEN "mixed" ELSE dir[p]

\* Mutant: an archive made is not counted.
BackupReusesName(j) ==
    /\ Goes(j, "b.read", "b.prune")
    /\ made < MaxArchives
    /\ made' = made
    /\ archives' = [i \in DOMAIN archives \cup {made + 1} |->
                      [p \in Parts |-> Packed(j, p)]]
    /\ archived' = archived \cup {archives'[made + 1]}
    /\ partial' = FALSE
    /\ StopsReading(j)
    /\ Keeps(j)
    /\ UNCHANGED <<files, shared, game, used, faults>>

\* writeArchive is done and the archive gets its name, the second its backup
\* began in: the rename replaces one made in the same second.
BackupRenames(j) ==
    /\ Goes(j, "b.read", "b.prune")
    /\ made < MaxArchives
    /\ made' = made + 1
    /\ \E replaced \in {{}, {made}} :
         archives' = [i \in (DOMAIN archives \ replaced) \cup {made'} |->
                      IF i = made'
                      THEN [p \in Parts |-> Packed(j, p)]
                      ELSE archives[i]]
    /\ archived' = archived \cup {archives'[made']}
    /\ partial' = FALSE
    /\ StopsReading(j)
    /\ Keeps(j)
    /\ UNCHANGED <<files, shared, game, used, faults>>

\* Mutant: the reset goes on although its backup failed.
BackupFailsUnnoticed(j) ==
    /\ IF my[j].what = "reset-backup"
       THEN Goes(j, "b.read", "z.lock") /\ Keeps(j)
       ELSE Returns(j, "b.read")
    /\ Frees(j)
    /\ partial' = FALSE
    /\ StopsReading(j)
    /\ UNCHANGED <<files, archives, copying, game, history, faults>>

\* It failed, or PZAdmin is stopping: the .partial is removed.
BackupFails(j) ==
    /\ Returns(j, "b.read")
    /\ Frees(j)
    /\ partial' = FALSE
    /\ StopsReading(j)
    /\ UNCHANGED <<files, archives, copying, game, history, faults>>

\* Mutant: sorted the other way round.
Oldest == {i \in DOMAIN archives : Cardinality({k \in DOMAIN archives : k < i}) < Keep}

\* prune removes the oldest beyond Keep; the caller goes on, or returns.
Newest == {i \in DOMAIN archives : Cardinality({k \in DOMAIN archives : k > i}) < Keep}

BackupPrunes(j) ==
    /\ archives' = [i \in Newest |-> archives[i]]
    /\ IF my[j].what = "reset-backup"
       THEN Goes(j, "b.prune", "z.lock") /\ Keeps(j)
       ELSE Returns(j, "b.prune")
    /\ Frees(j)
    /\ UNCHANGED <<files, partial, copying, game, reads, history, faults>>

\* handleBackupDelete takes no lock.
DeleteArchive ==
    /\ \E i \in DOMAIN archives :
         archives' = [k \in DOMAIN archives \ {i} |-> archives[k]]
    /\ UNCHANGED <<files, partial, shared, game, pc, my, reads, history, faults>>

(***************************************************************************)
(* Backupper.Restore                                                       *)
(***************************************************************************)

HasFiles(content) == content \notin {"none", "empty"}

\* The folders an archive is unpacked into.
Targets(a) ==
    Detected \cap ({"Saves"} \cup {p \in {"Server"} : HasFiles(a["Server"])})

\* handleBackupRestore and the lock; then scan reads the whole archive.  A
\* restore refused by now has changed nothing.
RestoreBegins(j) ==
    /\ "restore" \in Requests
    /\ NoStartUnanswered
    /\ Careful => game = "down"
    /\ ~Online
    /\ Takes(j)
    /\ Goes(j, "idle", "x.keep")
    /\ \E i \in DOMAIN archives :
         LET targets == Targets(archives[i]) IN
         /\ targets # {}
         /\ "Saves" \in Detected => HasFiles(archives[i]["Saves"])
         /\ my' = [my EXCEPT ![j].what = "restore", ![j].id = i,
                             ![j].targets = targets, ![j].at = First(targets),
                             ![j].was = dir, ![j].wasAside = aside]
    /\ UNCHANGED <<files, archives, partial, copying, game, reads, history, faults>>

\* A call fails part way: undo rolls every swap back, the first one first.
Undoes(j, from) ==
    /\ Goes(j, from, "u.drop")
    /\ my' = [my EXCEPT ![j].at = First(my[j].targets), ![j].id = 0,
                        ![j].open = NoFolders]

\* Mutant: the older copy is removed, not set by.
SwapForgets(j) ==
    LET p == my[j].at IN
    /\ Works
    /\ Goes(j, "x.keep", "x.aside")
    /\ aside' = [aside EXCEPT ![p] = "none"]
    /\ UNCHANGED <<my, dir, previous, archives, partial, shared, game, reads, history>>

\* begin: an older copy is set by while this restore runs.
SwapKeeps(j) ==
    LET p == my[j].at IN
    /\ \/ /\ Works
          /\ Goes(j, "x.keep", "x.aside")
          /\ IF aside[p] # "none"
             THEN /\ previous' = [previous EXCEPT ![p] = aside[p]]
                  /\ aside' = [aside EXCEPT ![p] = "none"]
                  /\ my' = [my EXCEPT ![j].kept = @ \cup {p}]
             ELSE UNCHANGED <<previous, aside, my>>
       \/ /\ Fails
          /\ aside[p] # "none"
          /\ Undoes(j, "x.keep")
          /\ previous' \in {previous, [previous EXCEPT ![p] = "none"]}
          /\ UNCHANGED aside
    /\ UNCHANGED <<dir, archives, partial, shared, game, reads, history>>

\* Mutant: the folder is emptied in place.
SwapEmpties(j) ==
    /\ Works
    /\ Goes(j, "x.aside", "x.make")
    /\ Write([dir EXCEPT ![my[j].at] = "none"])
    /\ Keeps(j)
    /\ UNCHANGED <<aside, previous, archives, partial, shared, game, history>>

\* begin: the folder itself is moved aside.
SwapMoves(j) ==
    LET p == my[j].at IN
    /\ \/ /\ Works
          /\ Goes(j, "x.aside", "x.make")
          /\ IF dir[p] # "none"
             THEN /\ aside' = [aside EXCEPT ![p] = dir[p]]
                  /\ Write([dir EXCEPT ![p] = "none"])
                  /\ my' = [my EXCEPT ![j].moved = @ \cup {p}]
             ELSE UNCHANGED <<aside, dir, my, reads>>
       \/ /\ Fails
          /\ Undoes(j, "x.aside")
          /\ UNCHANGED <<aside, dir, reads>>
    /\ UNCHANGED <<previous, archives, partial, shared, game, history>>

\* begin: an empty folder to unpack into; then the next swap, or the archive.
SwapMakes(j) ==
    LET p == my[j].at IN
    /\ \/ /\ Works
          /\ Write([dir EXCEPT ![p] = IF @ = "none" THEN "empty" ELSE @])
          /\ IF MoreSwaps(j)
             THEN /\ Goes(j, "x.make", "x.keep")
                  /\ my' = [my EXCEPT ![j].at = "Server"]
             ELSE Goes(j, "x.make", "x.open") /\ Keeps(j)
       \/ /\ Fails
          /\ Undoes(j, "x.make")
          /\ UNCHANGED <<dir, reads>>
    /\ UNCHANGED <<aside, previous, archives, partial, shared, game, history>>

\* Mutant: an archive that is gone by now is taken for an empty one.
RestoreOpensAnyway(j) ==
    /\ IF my[j].id \in DOMAIN archives
       THEN /\ Goes(j, "x.open", "x.unpack")
            /\ my' = [my EXCEPT ![j].open = archives[my[j].id], ![j].id = 0]
            /\ Write([p \in Parts |-> IF p \in my[j].targets THEN "half" ELSE dir[p]])
       ELSE /\ Goes(j, "x.open", "x.commit")
            /\ my' = [my EXCEPT ![j].at = First(my[j].targets), ![j].id = 0]
            /\ UNCHANGED <<dir, reads>>
    /\ UNCHANGED <<aside, previous, archives, partial, shared, game, history, faults>>

\* The archive is opened a second time, and may have been deleted since;
\* extract starts to write into the target folders ...
RestoreOpens(j) ==
    /\ IF my[j].id \in DOMAIN archives
       THEN /\ Goes(j, "x.open", "x.unpack")
            /\ my' = [my EXCEPT ![j].open = archives[my[j].id], ![j].id = 0]
            /\ Write([p \in Parts |-> IF p \in my[j].targets THEN "half" ELSE dir[p]])
       ELSE Undoes(j, "x.open") /\ UNCHANGED <<dir, reads>>
    /\ UNCHANGED <<aside, previous, archives, partial, shared, game, history, faults>>

\* ... until it is through, or fails.
RestoreUnpacked(j) ==
    /\ \/ /\ Works
          /\ Goes(j, "x.unpack", "x.commit")
          /\ Write([p \in Parts |-> IF p \in my[j].targets THEN my[j].open[p]
                                    ELSE dir[p]])
          /\ my' = [my EXCEPT ![j].at = First(my[j].targets), ![j].open = NoFolders]
       \/ /\ Fails
          /\ Undoes(j, "x.unpack")
          /\ UNCHANGED <<dir, reads>>
    /\ UNCHANGED <<aside, previous, archives, partial, shared, game, history>>

\* commit: the copy of an earlier restore is dropped.
RestoreCommits(j) ==
    LET p == my[j].at IN
    /\ pc[j] = "x.commit"
    /\ IF p \in my[j].kept
       THEN \/ Works /\ previous' = [previous EXCEPT ![p] = "none"]
            \/ Fails /\ UNCHANGED previous     \* the error is ignored
       ELSE UNCHANGED <<previous, faults>>
    /\ IF MoreSwaps(j)
       THEN my' = [my EXCEPT ![j].at = "Server"] /\ UNCHANGED <<pc, lock>>
       ELSE Returns(j, "x.commit") /\ Frees(j)
    /\ UNCHANGED <<dir, aside, archives, partial, copying, game, reads, history>>

\* rollback: what was unpacked is removed, if the folder had been moved.
UndoDrops(j) ==
    LET p == my[j].at IN
    /\ Goes(j, "u.drop", IF p \in my[j].moved THEN "u.back" ELSE "u.keep")
    /\ Keeps(j)
    /\ IF p \in my[j].moved THEN Write([dir EXCEPT ![p] = "none"])
       ELSE UNCHANGED <<dir, reads>>
    /\ UNCHANGED <<aside, previous, archives, partial, shared, game,
                   history, faults>>

\* A rollback that fails stops there: undo returns with the copy in aside.
UndoStops(j) ==
    /\ pc[j] \in UndoSteps
    /\ my[j].at \in my[j].moved \cup my[j].kept
    /\ Fails
    /\ Returns(j, pc[j])
    /\ Frees(j)
    /\ UNCHANGED <<files, archives, partial, copying, game, reads, history>>

UndoMovesBack(j) ==
    LET p == my[j].at IN
    /\ Goes(j, "u.back", "u.keep")
    /\ Keeps(j)
    /\ Write([dir EXCEPT ![p] = aside[p]])
    /\ aside' = [aside EXCEPT ![p] = "none"]
    /\ UNCHANGED <<previous, archives, partial, shared, game, history, faults>>

\* Mutant: rollback leaves the older copy where begin put it.
UndoForgets(j) ==
    /\ IF MoreSwaps(j)
       THEN /\ Goes(j, "u.keep", "u.drop")
            /\ my' = [my EXCEPT ![j].at = "Server"]
            /\ UNCHANGED lock
       ELSE Returns(j, "u.keep") /\ Frees(j)
    /\ UNCHANGED <<files, archives, partial, copying, game, reads, history, faults>>

UndoKeeps(j) ==
    LET p == my[j].at IN
    /\ pc[j] = "u.keep"
    /\ IF p \in my[j].kept
       THEN /\ aside' = [aside EXCEPT ![p] = previous[p]]
            /\ previous' = [previous EXCEPT ![p] = "none"]
       ELSE UNCHANGED <<aside, previous>>
    /\ IF MoreSwaps(j)
       THEN /\ Goes(j, "u.keep", "u.drop")
            /\ my' = [my EXCEPT ![j].at = "Server"]
            /\ UNCHANGED lock
       ELSE Returns(j, "u.keep") /\ Frees(j)
    /\ UNCHANGED <<dir, archives, partial, copying, game, reads, history, faults>>

(***************************************************************************)
(* Backupper.ResetWorld                                                    *)
(***************************************************************************)

\* Mutant: ResetWorld does not take the backup lock.
ResetMovesUnlocked(j) ==
    /\ dir["Saves"] \notin {"none", "empty"}
    /\ Goes(j, "z.lock", "z.delete")
    /\ Keeps(j)
    /\ Write([dir EXCEPT !["Saves"] = "empty"])
    /\ UNCHANGED <<lock, aside, previous, archives, partial, copying, game, history, faults>>

\* The lock, then the world leaves in one rename.
ResetMoves(j) ==
    /\ LET refused == \/ Busy
                      \/ "Saves" \notin my[j].layout
                      \/ dir["Saves"] \in {"none", "empty"}
       IN \/ /\ ~refused
             /\ Takes(j)
             /\ Goes(j, "z.lock", "z.delete")
             /\ Keeps(j)
             /\ Write([dir EXCEPT !["Saves"] = "empty"])
             /\ Works
          \/ /\ IF refused THEN Works ELSE Fails
             /\ Returns(j, "z.lock")
             /\ UNCHANGED <<lock, dir, reads>>
    /\ UNCHANGED <<aside, previous, archives, partial, copying, game, history>>

\* What was moved is deleted, or what of it can be; a later reset clears it.
ResetDeletes(j) ==
    /\ Returns(j, "z.delete")
    /\ Frees(j)
    /\ UNCHANGED <<files, archives, partial, copying, game, reads, history, faults>>

(***************************************************************************)
(* handleDuplicate and runDuplicate                                        *)
(***************************************************************************)

\* Hold, and dupJobs.busy; the request is answered and the copy goes on.
DuplicateHolds(j) ==
    /\ \/ /\ Takes(j)
          /\ copying' = TRUE
          /\ Goes(j, "d.hold", "d.copy")
          /\ Keeps(j)
          /\ StartsReading(j)
       \/ /\ Busy
          /\ Returns(j, "d.hold")
          /\ UNCHANGED <<lock, copying, reads>>
    /\ UNCHANGED <<files, archives, partial, game, history, faults>>

\* copyWorld is through, or failed; either way the job is finished, and
DuplicateCopied(j) ==
    /\ Goes(j, "d.copy", "d.finish")
    /\ Keeps(j)
    /\ UNCHANGED <<files, archives, partial, shared, game, reads, history, faults>>

DuplicateFinishes(j) ==
    /\ Goes(j, "d.finish", "d.release")
    /\ Keeps(j)
    /\ copying' = FALSE
    /\ UNCHANGED <<files, archives, partial, lock, game, reads, history, faults>>

\* the lock is released last.
DuplicateReleases(j) ==
    /\ Returns(j, "d.release")
    /\ Frees(j)
    /\ StopsReading(j)
    /\ UNCHANGED <<files, archives, partial, copying, game, history, faults>>

(***************************************************************************)
(* The server: starts and stops, and what the running game writes          *)
(***************************************************************************)

\* Arcane starts the container, or refuses.  The game opens the world.
StartCalls(j) ==
    /\ Returns(j, "t.call")
    /\ \/ /\ game' = IF game = "down" THEN "loading" ELSE game
          /\ live' = live \cup {k \in Jobs : pc[k] \in Reading}
       \/ UNCHANGED <<game, live>>
    /\ UNCHANGED <<files, archives, partial, shared, torn, history, faults>>

GameLoads ==
    /\ game = "loading"
    /\ game' = "up"
    /\ UNCHANGED <<files, archives, partial, shared, pc, my, reads, history, faults>>

\* The world changes as it is played; a missing one is generated.
GameSaves ==
    /\ game # "down"
    /\ \E w \in Worlds \ used :
         /\ used' = used \cup {w}
         /\ Write([p \in Parts |-> w])
    /\ UNCHANGED <<aside, previous, archives, partial, shared, game, pc, my,
                   made, archived, faults>>

\* Stopped by PZAdmin, from inside the game or by other tools.
GameStops ==
    /\ game # "down"
    /\ game' = "down"
    /\ UNCHANGED <<files, archives, partial, shared, pc, my, reads, history, faults>>

(***************************************************************************)
(* The process is killed and started again: files stay, memory does not.   *)
(***************************************************************************)

PZAdminDies ==
    /\ Dies /\ Fails
    /\ lock # "free"        \* otherwise nothing but requests are lost
    /\ pc' = [j \in Jobs |-> "idle"]
    /\ my' = [j \in Jobs |-> Nothing]
    /\ torn' = {}
    /\ live' = {}
    /\ lock' = "free"
    /\ copying' = FALSE
    /\ UNCHANGED <<files, archives, partial, game, history>>

JobStep(j) ==
    \/ BackupBegins(j) \/ BackupRenames(j) \/ BackupFails(j)
    \/ BackupPrunes(j)
    \/ RestoreBegins(j) \/ SwapKeeps(j) \/ SwapMoves(j)
    \/ SwapMakes(j) \/ RestoreOpens(j) \/ RestoreUnpacked(j)
    \/ RestoreCommits(j) \/ UndoDrops(j) \/ UndoMovesBack(j) \/ UndoKeeps(j)
    \/ UndoStops(j)
    \/ ResetMoves(j) \/ ResetDeletes(j)
    \/ DuplicateHolds(j) \/ DuplicateCopied(j) \/ DuplicateFinishes(j)
    \/ DuplicateReleases(j)
    \/ StartCalls(j)

Next ==
    \/ \E j \in Jobs : Ask(j) \/ JobStep(j)
    \/ DeleteArchive
    \/ GameLoads \/ GameSaves \/ GameStops
    \/ PZAdminDies

Spec == Init /\ [][Next]_vars

(***************************************************************************)
(* Properties                                                              *)
(***************************************************************************)

\* Two jobs never work on a server's files at the same time, a job that has
\* returned holds nothing (Backupper.running is always cleared), and a server
\* is only marked as being copied by a copy that is under way.
FilesHaveOneOwner ==
    /\ \A j \in Jobs : pc[j] \in Locked <=> lock = j
    /\ copying <=> \E j \in Jobs : pc[j] \in {"d.copy", "d.finish"}

\* What is read while the game is down is read in one piece: no restore,
\* reset or second backup writes a folder that Create or copyWorld is reading.
ColdReadsAreWhole ==
    \A j \in Jobs : pc[j] \in Reading /\ j \notin live => j \notin torn

\* A duplicate is never "half old world, half new" (dupRefusal): as long as
\* operators wait for the answers to their requests, the game does not open
\* the world while it is copied.
CopiesAreCold ==
    Careful => \A j \in Jobs : pc[j] = "d.copy" => j \notin live \cup torn

\* Whatever reads a world reads one world.
ReadsAreWhole == ColdReadsAreWhole /\ CopiesAreCold

\* While a restore runs, what each folder held before it is in the folder or
\* in the copy set aside, at every step it could be killed at.
WorldSurvivesRestore ==
    \A j \in Jobs : pc[j] \in RestoreSteps =>
        \A p \in my[j].targets : my[j].was[p] \in {dir[p], aside[p]}

\* A restore that fails and whose undo works has put back each folder and
\* the copy an earlier restore had set aside ("everything was put back as it
\* was").
FailedRestorePutsBack ==
    [][\A j \in Jobs :
         pc[j] = "u.keep" /\ pc'[j] = "idle" /\ faults' = faults =>
            \A p \in my[j].targets :
                dir'[p] = my[j].was[p] /\ aside'[p] = my[j].wasAside[p]]_vars

\* Whatever happens to a restore, the world there was is kept or put back.
RestoreKeepsTheWorld == []WorldSurvivesRestore /\ FailedRestorePutsBack

\* Every world on disk, live, set aside or archived.
OnDisk == {w \in Worlds :
             \/ \E p \in Parts : w \in {dir[p], aside[p], previous[p]}
             \/ \E i \in DOMAIN archives, p \in Parts : archives[i][p] = w}

\* Until a call fails or PZAdmin is killed, a world leaves the disk only when
\* the game has played on, a reset is asked for, a restore has succeeded, or
\* an archive is pruned, deleted or replaced by one made in the same second.
WorldsLeaveOnPurpose ==
    [][faults' = 0 /\ ~(OnDisk \subseteq OnDisk')
         => \/ used' # used
            \/ ~(DOMAIN archives \subseteq DOMAIN archives')
            \/ \E j \in Jobs : \/ pc[j] = "z.lock" /\ pc'[j] = "z.delete"
                               \/ pc[j] = "x.commit"]_vars

\* handleWorldReset asked to back up first deletes no world that has not been
\* archived, whatever else happened between its backup and its rename.  The
\* archive may have been pruned or deleted since: a backup asked for in the
\* middle of a restore finds no Saves, and prunes one that has them.
ResetDeletesOnlyArchived ==
    [][\A j \in Jobs :
         /\ my[j].what = "reset-backup"
         /\ pc[j] = "z.lock" /\ pc'[j] = "z.delete"
         /\ dir["Saves"] \in Worlds
         => \E a \in archived : a["Saves"] = dir["Saves"]]_vars

\* prune removes the oldest archives and never the one just made.
PruneTakesTheOldest ==
    [][\A j \in Jobs :
         pc[j] = "b.prune" /\ pc'[j] # "b.prune" /\ faults' = faults =>
            /\ Cardinality(DOMAIN archives') <= Keep
            /\ \A i \in DOMAIN archives \ DOMAIN archives' :
                 \A k \in DOMAIN archives' : i < k
            /\ DOMAIN archives # {} => DOMAIN archives' # {}]_vars

\* What may be deleted: a world that has been archived at some time, and the
\* archives that newer ones push out.
ArchivesAreKept == ResetDeletesOnlyArchived /\ PruneTakesTheOldest

\* The world as its operators see it: a restore under way counts for nothing
\* until it has unpacked everything.
SwapUnderWay(p) == {j \in Jobs : /\ pc[j] \in RestoreSteps \ {"x.commit"}
                                 /\ p \in my[j].targets}
WorldSeen == [p \in Parts |->
                IF SwapUnderWay(p) = {} THEN dir[p]
                ELSE my[CHOOSE j \in SwapUnderWay(p) : TRUE].was[p]]

Vault == INSTANCE WorldVault WITH
            Made <- Worlds, world <- WorldSeen, vault <- archived, failures <- faults

\* The files, locks and renames implement the vault: see WorldVault.
ImplementsVault == Vault!Spec
=============================================================================
