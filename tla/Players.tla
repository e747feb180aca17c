-------------------------------- MODULE Players --------------------------------
(***************************************************************************)
(* The player registry of one server (internal/store): who plays on it, as *)
(* its monitor's probes see it (internal/server/monitor.go), what operators *)
(* and the game's log add, and its file, players.json.  A record that is    *)
(* "here" has an open session, which is credited as playtime when it ends.  *)
(*                                                                          *)
(* LastSeen, written to memory at every probe and to the file only with     *)
(* other changes, is left out.  Store.mu is held over a change and its save. *)
(***************************************************************************)
EXTENDS Naturals, FiniteSets

CONSTANTS
    Names,          \* players
    MaxFailures,    \* bound: saves that fail
    MaxChanges,     \* bound: what operators, the game and its players do
    MaxStarts       \* bound: starts of PZAdmin

ASSUME PlayersAssumption == MaxFailures \in Nat /\ MaxChanges \in Nat /\ MaxStarts \in Nat \ {0}

VARIABLES
    game,       \* external: running or not, the names connected
    probing,    \* probe: pc, the names answered, Status.Online before
    online,     \* Status.Online
    stopFlag,   \* Status.Stopped
    reg,        \* Store.players
    dirty,      \* Store.playersDirty
    disk,       \* players.json
    listed,     \* the server is in the configuration
    up,         \* PZAdmin: up, closing, marked, closed, down
    timedOut,   \* Close gave up waiting for the monitor
    overtaken,  \* history: a stop wrote Online before a probe saw the outage
    wrote,      \* history: players.json was written since the last start
    budget      \* what is left of the bounds: failures, changes, starts

playersVars == <<game, probing, online, stopFlag, reg, dirty, disk, listed, up,
                 timedOut, overtaken, wrote, budget>>

NoRecord == [at |-> "none", marked |-> FALSE]
Registries == [Names -> [at: {"none", "away", "here"}, marked: BOOLEAN]]
Here(r) == {n \in Names : r[n].at = "here"}
NotProbing == [pc |-> "idle", names |-> {}, ok |-> FALSE, was |-> FALSE]
Spends(what) == budget[what] > 0 /\ budget' = [budget EXCEPT ![what] = @ - 1]

----------------------------------------------------------------------------
(* The store *)

\* Mutant: a save that fails leaves the registry clean.
SavesForgetful(r, changed) ==
    /\ reg' = r /\ dirty' = FALSE
    /\ \/ disk' = r /\ wrote' = TRUE /\ UNCHANGED budget
       \/ Spends("failures") /\ UNCHANGED <<disk, wrote>>

\* savePlayersLocked, of a registry that changed or was looked at only.
Saves(r, changed) ==
    /\ reg' = r
    /\ \/ disk' = r /\ dirty' = FALSE /\ wrote' = TRUE /\ UNCHANGED budget
       \/ Spends("failures") /\ dirty' = (dirty \/ changed) /\ UNCHANGED <<disk, wrote>>

Kept == UNCHANGED <<reg, dirty, disk, wrote, budget>>

\* SyncPlayers: joined and left, saved when there are any.
Synced(names) ==
    LET r == [n \in Names |->
                IF n \in names THEN [reg[n] EXCEPT !.at = "here"]
                ELSE IF reg[n].at = "here" THEN [reg[n] EXCEPT !.at = "away"] ELSE reg[n]]
    IN  IF r = reg THEN Kept ELSE Saves(r, TRUE)

Away(r) == [n \in Names |-> IF r[n].at = "here" THEN [r[n] EXCEPT !.at = "away"] ELSE r[n]]

MarkOffline == IF Here(reg) = {} THEN Kept ELSE Saves(Away(reg), TRUE)

----------------------------------------------------------------------------
(* The game, external *)

GameChanges ==
    /\ Spends("changes")
    /\ \E names \in SUBSET Names, runs \in BOOLEAN :
          game' = [runs |-> runs, names |-> IF runs THEN names ELSE {}] /\ game' # game
    /\ UNCHANGED <<probing, online, stopFlag, reg, dirty, disk, wrote, listed, up, timedOut, overtaken>>

----------------------------------------------------------------------------
(* The monitor *)

ProbeBegins ==
    /\ probing.pc = "idle" /\ up = "up" /\ listed
    /\ probing' = [probing EXCEPT !.pc = "asked"]
    /\ UNCHANGED <<game, online, stopFlag, reg, dirty, disk, wrote, listed, up, timedOut, overtaken, budget>>

\* The context is done before the answer is in.
ProbeCancelled ==
    /\ probing.pc = "asked" /\ (up # "up" \/ ~listed)
    /\ probing' = NotProbing
    /\ UNCHANGED <<game, online, stopFlag, reg, dirty, disk, wrote, listed, up, timedOut, overtaken, budget>>

\* RCON answers with the names, or not at all although the game runs; the
\* status is copied and the mods are scanned.
ProbeAnswered ==
    /\ probing.pc = "asked"
    /\ \/ /\ game.runs
          /\ probing' = [pc |-> "answered", names |-> game.names, ok |-> TRUE, was |-> online]
       \/ probing' = [pc |-> "answered", names |-> {}, ok |-> FALSE, was |-> online]
    /\ UNCHANGED <<game, online, stopFlag, reg, dirty, disk, wrote, listed, up, timedOut, overtaken, budget>>

ProbeSyncs ==
    /\ probing.pc = "answered" /\ probing.ok
    /\ Synced(probing.names)
    /\ probing' = [probing EXCEPT !.pc = "synced"]
    /\ UNCHANGED <<game, online, stopFlag, listed, up, timedOut, overtaken>>

ProbeIsOnline ==
    /\ probing.pc = "synced"
    /\ online' = TRUE /\ stopFlag' = FALSE /\ overtaken' = FALSE
    /\ probing' = NotProbing
    /\ UNCHANGED <<game, reg, dirty, disk, wrote, listed, up, timedOut, budget>>

ProbeIsOffline ==
    /\ probing.pc = "answered" /\ ~probing.ok
    /\ online' = FALSE
    /\ probing' = IF probing.was THEN [probing EXCEPT !.pc = "lost"] ELSE NotProbing
    /\ UNCHANGED <<game, stopFlag, reg, dirty, disk, wrote, listed, up, timedOut, overtaken, budget>>

\* Mutant: sessions end only with an outage that is reported.
ProbeEndsReported ==
    /\ probing.pc = "lost"
    /\ IF stopFlag THEN Kept ELSE MarkOffline
    /\ overtaken' = FALSE
    /\ probing' = NotProbing
    /\ UNCHANGED <<game, online, stopFlag, listed, up, timedOut>>

\* prev.Online: everybody's session ends.
ProbeEndsSessions ==
    /\ probing.pc = "lost"
    /\ MarkOffline
    /\ overtaken' = FALSE
    /\ probing' = NotProbing
    /\ UNCHANGED <<game, online, stopFlag, listed, up, timedOut>>

\* pollLogs, between two probes: a Steam ID, which makes a record too and is
\* saved with the next change.
SteamIDSeen(n) ==
    /\ probing.pc = "idle" /\ up = "up" /\ listed /\ n \in game.names
    /\ ~reg[n].marked
    /\ reg' = [reg EXCEPT ![n] = [at |-> IF @.at = "none" THEN "away" ELSE @.at, marked |-> TRUE]]
    /\ dirty' = TRUE
    /\ UNCHANGED <<game, probing, online, stopFlag, disk, wrote, listed, up, timedOut, overtaken, budget>>

----------------------------------------------------------------------------
(* Handlers *)

Serving == up \in {"up", "closing"}

\* SetNote, SetBanned: of a player there is a record of.
Marks(n) ==
    /\ Serving /\ reg[n].at # "none"
    /\ \E marked \in BOOLEAN :
          /\ marked # reg[n].marked
          /\ Saves([reg EXCEPT ![n].marked = marked], TRUE)
    /\ UNCHANGED <<game, probing, online, stopFlag, listed, up, timedOut, overtaken>>

\* ForgetServer, by the history's button or with the server.
Forgets ==
    /\ Serving
    /\ Saves([n \in Names |-> NoRecord], \E n \in Names : reg[n].at # "none")
    /\ UNCHANGED <<game, probing, online, stopFlag, listed, up, timedOut, overtaken>>

\* Arcane has stopped the container: the status says so at once.
StopHandled ==
    /\ Serving /\ listed /\ ~game.runs /\ ~stopFlag
    /\ stopFlag' = TRUE /\ online' = FALSE
    /\ overtaken' = (overtaken \/ online)
    /\ UNCHANGED <<game, probing, reg, dirty, disk, wrote, listed, up, timedOut, budget>>

StartHandled ==
    /\ Serving /\ listed /\ stopFlag
    /\ stopFlag' = FALSE
    /\ UNCHANGED <<game, probing, online, reg, dirty, disk, wrote, listed, up, timedOut, overtaken, budget>>

\* removeServer; the monitor is cancelled.
Unlisted ==
    /\ up = "up" /\ listed /\ Spends("changes")
    /\ listed' = FALSE
    /\ UNCHANGED <<game, probing, online, stopFlag, reg, dirty, disk, wrote, up, timedOut, overtaken>>

\* housekeepingLoop
Flushes ==
    /\ up = "up" /\ dirty
    /\ Saves(reg, TRUE)
    /\ UNCHANGED <<game, probing, online, stopFlag, listed, up, timedOut, overtaken>>

----------------------------------------------------------------------------
(* PZAdmin stops and starts *)

\* Close cancels the monitor.
CloseBegins ==
    /\ up = "up"
    /\ up' = "closing"
    /\ UNCHANGED <<game, probing, online, stopFlag, reg, dirty, disk, wrote, listed, timedOut, overtaken, budget>>

\* Mutant: Close does not wait.
CloseMarksAtOnce ==
    /\ up = "closing"
    /\ up' = "marked" /\ UNCHANGED timedOut
    /\ IF listed THEN MarkOffline ELSE Kept
    /\ UNCHANGED <<game, probing, online, stopFlag, listed, overtaken>>

\* The monitor has ended, or 8 seconds have passed; the sessions of every
\* server in the configuration end.
CloseMarks ==
    /\ up = "closing"
    /\ up' = "marked"
    /\ timedOut' = (probing.pc # "idle")
    /\ IF listed THEN MarkOffline ELSE Kept
    /\ UNCHANGED <<game, probing, online, stopFlag, listed, overtaken>>

\* Flush writes what a failed save has left.
CloseFlushes ==
    /\ up = "marked"
    /\ up' = "closed"
    /\ IF dirty THEN Saves(reg, TRUE) ELSE Kept
    /\ UNCHANGED <<game, probing, online, stopFlag, listed, timedOut, overtaken>>

\* The process ends, after Close or killed.
ProcessEnds ==
    /\ up # "down" /\ budget["starts"] > 0
    /\ up' = "down"
    /\ probing' = NotProbing /\ online' = FALSE /\ stopFlag' = FALSE
    /\ reg' = [n \in Names |-> NoRecord] /\ dirty' = FALSE
    /\ timedOut' = FALSE /\ overtaken' = FALSE /\ wrote' = FALSE
    /\ UNCHANGED <<game, disk, listed, budget>>

\* Open, loadPlayers: nobody is online; a file that cannot be read is moved
\* away.
ProcessStarts ==
    /\ up = "down" /\ Spends("starts")
    /\ up' = "up"
    /\ \E found \in {disk, [n \in Names |-> NoRecord]} :
          /\ (found # disk) => budget["failures"] > 0
          /\ disk' = found /\ reg' = Away(found)
    /\ UNCHANGED <<game, probing, online, stopFlag, dirty, listed, timedOut, overtaken, wrote>>

----------------------------------------------------------------------------
PlayersInit ==
    /\ game = [runs |-> FALSE, names |-> {}] /\ probing = NotProbing
    /\ online = FALSE /\ stopFlag = FALSE
    /\ reg = [n \in Names |-> NoRecord] /\ disk = reg /\ dirty = FALSE
    /\ listed = TRUE /\ up = "up" /\ timedOut = FALSE /\ wrote = FALSE /\ overtaken = FALSE
    /\ budget = [failures |-> MaxFailures, changes |-> MaxChanges, starts |-> MaxStarts]

Probe == ProbeBegins \/ ProbeCancelled \/ ProbeAnswered \/ ProbeSyncs
         \/ ProbeIsOnline \/ ProbeIsOffline \/ ProbeEndsSessions

PlayersNext ==
    \/ GameChanges \/ Probe \/ Forgets \/ StopHandled \/ StartHandled \/ Unlisted \/ Flushes
    \/ \E n \in Names : SteamIDSeen(n) \/ Marks(n)
    \/ CloseBegins \/ CloseMarks \/ CloseFlushes \/ ProcessEnds \/ ProcessStarts

PlayersSpec == PlayersInit /\ [][PlayersNext]_playersVars

----------------------------------------------------------------------------
(* Properties *)

PlayersTypeOK ==
    /\ game \in [runs: BOOLEAN, names: SUBSET Names]
    /\ probing \in [pc: {"idle", "asked", "answered", "synced", "lost"},
                    names: SUBSET Names, ok: BOOLEAN, was: BOOLEAN]
    /\ reg \in Registries /\ disk \in Registries
    /\ {online, stopFlag, dirty, listed, timedOut, overtaken, wrote} \subseteq BOOLEAN
    /\ up \in {"up", "closing", "marked", "closed", "down"}

\* A registry that is not dirty is the one on disk, but for sessions a kill left
\* open there; a change whose save failed is never taken for saved.
CleanIsSaved == up # "down" /\ ~dirty => reg = IF wrote THEN disk ELSE Away(disk)

\* While the last probe found nobody answering, nobody's session is open, so
\* "playtime is not credited during an outage" (store.go:441): unless a stop
\* wrote the status before a probe saw it.
OutageEndsSessions ==
    up = "up" /\ listed /\ probing.pc = "idle" /\ ~online /\ ~overtaken => Here(reg) = {}

\* When Close has waited for the monitor, nobody is left online, in memory or,
\* once the registry is written, on disk.
CloseEndsSessions ==
    up = "closed" /\ listed /\ ~timedOut => Here(reg) = {} /\ (wrote /\ ~dirty => Here(disk) = {})

\* Saves that fail, probes under way, stops, starts and kills meeting in any
\* order: the file says what memory says, and no session stays open behind an
\* outage or an orderly stop.
RegistryIsTrue == CleanIsSaved /\ OutageEndsSessions /\ CloseEndsSessions
=============================================================================
