-------------------------------- MODULE Fleet --------------------------------
(***************************************************************************)
(* Which servers PZAdmin has: stack folders found by discovery (stackapi.go*)
(* and internal/stacks), the entries of the configuration store they are   *)
(* folded into, the monitors kept for them (monitor.go: syncMonitors), and *)
(* the handlers that save, forget, import, create and destroy servers.     *)
(*                                                                         *)
(* cfg.Update runs under the store's lock, so an update is one step; the   *)
(* scan before it, the copy of an entry a handler took earlier, a.lastScan *)
(* and the Arcane calls are steps of their own, and anything may happen    *)
(* between two of them.                                                    *)
(*                                                                         *)
(* Every stack is its folder's name, which is also its server's ID, its    *)
(* container's name and its data folder: what discovery and provision make *)
(* of it by default.                                                       *)
(***************************************************************************)
EXTENDS Naturals, FiniteSets, FiniteSetsExt

CONSTANTS
    Stacks,      \* names a stack folder may have
    Ports,       \* game ports, the lowest is given out first
    Workers,     \* request handlers, one each
    Scenarios    \* the ports of the stacks there are at the start (0: none),
                 \* what each worker may be asked for (once each), and two
                 \* bounds: changes made with other tools (once each), and
                 \* how many reads and writes fail

Asks == {"save", "forget", "import", "create", "destroy"} \X Stacks
ChangeKinds == {"gone", "back", "edit", "up", "start"}

ASSUME FleetAssumption ==
    /\ Ports \subseteq Nat \ {0} /\ Ports # {}
    /\ IsFiniteSet(Ports)
    /\ "-" \notin Stacks
    /\ Scenarios \subseteq [ports: [Stacks -> Ports \cup {0}], asks: [Workers -> SUBSET Asks],
                           changes: SUBSET ChangeKinds, faults: Nat]
    /\ "discovery" \notin Workers /\ "supervisor" \notin Workers

Processes == Workers \cup {"discovery", "supervisor"}

VARIABLES
    folder,    \* the stack folder: none, bare (just made), whole, broken
    port,      \* the game port its files publish
    box,       \* its container: none, stopped or running
    world,     \* its data folder exists
    entry,     \* its server in the configuration
    lastScan,  \* App.lastScan: the port read from each folder
    watch,     \* its monitor in App.monitors: none, live, ended
    at,        \* where each process is, with what it read
    todo,      \* what each worker may still be asked
    spare,     \* changes and faults still to come
    torn,      \* history: stacks whose folder a destroy took while a create
               \* was still filling it
    raised     \* history: stacks whose container was made anew while a destroy
               \* of them had already seen to it that there was none

outside == <<folder, port, box, world, torn, raised>>
fleetVars == <<outside, entry, lastScan, watch, at, todo, spare>>

Unlisted == [listed |-> FALSE, enabled |-> FALSE, missing |-> FALSE, port |-> 0]
Entries == [listed: BOOLEAN, enabled: BOOLEAN, missing: BOOLEAN,
            port: Ports \cup {0}]

\* What a scan makes of a folder: the port it publishes, or 0 when there is no
\* container to act on.
NothingFound == [s \in Stacks |-> 0]

Idle == [pc |-> "idle", s |-> "-", then |-> "idle", seen |-> NothingFound,
         want |-> {}, copy |-> Unlisted, data |-> FALSE]

----------------------------------------------------------------------------
(* Discovery *)

\* stacks.Scan: a folder without a compose file is passed over, one whose
\* compose file cannot be read is listed without a container.
Reads(s) == IF folder[s] = "whole" THEN port[s] ELSE 0

Goes(p, pc) == at' = [at EXCEPT ![p].pc = pc]

\* discoveryLoop scans every minute, handlers before and after they plan.  An
\* unreadable root gives an empty result, not an error.
Scan(p) ==
    /\ at[p].pc = "scan" \/ (p = "discovery" /\ at[p].pc = "idle")
    /\ \/ /\ at' = [at EXCEPT ![p].pc = "fold", ![p].seen = [s \in Stacks |-> Reads(s)]]
          /\ UNCHANGED spare
       \/ /\ spare.faults > 0
          /\ at' = [at EXCEPT ![p].pc = "fold", ![p].seen = NothingFound]
          /\ spare' = [spare EXCEPT !.faults = @ - 1]
    /\ UNCHANGED <<outside, entry, lastScan, watch, todo>>

Found == [listed |-> TRUE, enabled |-> TRUE, missing |-> FALSE, port |-> 0]

\* Mutant: a stack that is back stays marked missing.
FoldedStaysMissing(s, find) ==
    IF find # 0
    THEN [(IF entry[s].listed THEN entry[s] ELSE Found) EXCEPT !.port = find]
    ELSE [entry[s] EXCEPT !.missing = @ \/ entry[s].listed]

\* A usable stack gets an entry or refreshes it; any other entry is missing.
Folded(s, find) ==
    IF find # 0
    THEN [(IF entry[s].listed THEN entry[s] ELSE Found)
          EXCEPT !.missing = FALSE, !.port = find]
    ELSE [entry[s] EXCEPT !.missing = @ \/ entry[s].listed]

\* Nothing is saved, and no monitor looked at, when nothing changed.
Changed(seen) == {s \in Stacks : Folded(s, seen[s]) # entry[s]}

Continues(p) ==
    at' = [at EXCEPT ![p] =
             IF @.then = "idle" THEN Idle
             ELSE [at[p] EXCEPT !.pc = at[p].then, !.then = "idle",
                                !.seen = NothingFound, !.want = {}]]

\* a.lastScan is set, whatever another scan set since this one read; the
\* update follows it at once.
Fold(p) ==
    /\ at[p].pc = "fold"
    /\ lastScan' = at[p].seen
    /\ \/ /\ Changed(at[p].seen) # {}
          /\ entry' = [s \in Stacks |-> Folded(s, at[p].seen[s])]
          /\ Goes(p, "want")
          /\ UNCHANGED spare
       \/ /\ Changed(at[p].seen) = {}
          /\ Continues(p)
          /\ UNCHANGED <<entry, spare>>
       \/ /\ Changed(at[p].seen) # {} /\ spare.faults > 0
          /\ Continues(p)
          /\ spare' = [spare EXCEPT !.faults = @ - 1]
          /\ UNCHANGED entry
    /\ UNCHANGED <<outside, watch, todo>>

----------------------------------------------------------------------------
(* Monitors *)

Wanted(s) == entry[s].listed /\ entry[s].enabled /\ ~entry[s].missing

\* syncMonitors reads the configuration first and takes App.mu later; the
\* supervisor calls it every 5 seconds, and whoever changed an entry does.
Want(p) ==
    /\ at[p].pc = "want" \/ (p = "supervisor" /\ at[p].pc = "idle")
    /\ at' = [at EXCEPT ![p].pc = "sync", ![p].want = {s \in Stacks : Wanted(s)}]
    /\ UNCHANGED <<outside, entry, lastScan, watch, todo, spare>>

\* Mutant: monitors are never cancelled, only left to end themselves.
WatchedUncancelled(s, want) ==
    IF s \in want /\ watch[s] = "none" THEN "live" ELSE watch[s]

\* A monitor already in the map is left alone, whether or not it still runs.
Watched(s, want) ==
    IF s \notin want THEN "none" ELSE IF watch[s] = "none" THEN "live" ELSE watch[s]

Sync(p) ==
    /\ at[p].pc = "sync"
    /\ watch' = [s \in Stacks |-> Watched(s, at[p].want)]
    /\ Continues(p)
    /\ UNCHANGED <<outside, entry, lastScan, todo, spare>>

\* monitorServer returns when its next look finds the server gone or disabled,
\* and does not leave the map.
MonitorEnds(s) ==
    /\ watch[s] = "live"
    /\ ~(entry[s].listed /\ entry[s].enabled)
    /\ watch' = [watch EXCEPT ![s] = "ended"]
    /\ UNCHANGED <<outside, entry, lastScan, at, todo, spare>>

----------------------------------------------------------------------------
(* Saving, importing and forgetting *)

Asked(w, ask) ==
    /\ at[w].pc = "idle" /\ ask \in todo[w]
    /\ todo' = [todo EXCEPT ![w] = @ \ {ask}]

\* handleServerSave copies the entry when the request comes ...
SaveReads(w, s) ==
    /\ Asked(w, <<"save", s>>)
    /\ entry[s].listed
    /\ \E on \in BOOLEAN :
         at' = [at EXCEPT ![w] = [Idle EXCEPT !.pc = "write", !.s = s,
                                    !.copy = [entry[s] EXCEPT !.enabled = on]]]
    /\ UNCHANGED <<outside, entry, lastScan, watch, spare>>

\* ... and writes the whole copy back, over what the entry has become.
SaveWrites(w) ==
    LET s == at[w].s IN
    /\ at[w].pc = "write"
    /\ IF entry[s].listed
       THEN entry' = [entry EXCEPT ![s] = at[w].copy] /\ Goes(w, "want")
       ELSE at' = [at EXCEPT ![w] = Idle] /\ UNCHANGED entry
    /\ UNCHANGED <<outside, lastScan, watch, todo, spare>>

\* handleImport sets the operator's fields inside the update.
Import(w, s) ==
    /\ Asked(w, <<"import", s>>)
    /\ entry[s].listed
    /\ \E on \in BOOLEAN : entry' = [entry EXCEPT ![s].enabled = on]
    /\ Goes(w, "want")
    /\ UNCHANGED <<outside, lastScan, watch, spare>>

\* removeServer; the monitors are synchronised even when it cannot be saved.
Unlists(s) ==
    \/ entry' = [entry EXCEPT ![s] = Unlisted] /\ UNCHANGED spare
    \/ /\ spare.faults > 0 /\ spare' = [spare EXCEPT !.faults = @ - 1]
       /\ UNCHANGED entry

\* handleServerDelete: only a server whose stack folder has gone.
Forget(w, s) ==
    /\ Asked(w, <<"forget", s>>)
    /\ entry[s].listed /\ entry[s].missing
    /\ Unlists(s)
    /\ Goes(w, "want")
    /\ UNCHANGED <<outside, lastScan, watch>>

----------------------------------------------------------------------------
(* Destroying *)

\* Every check comes first.  A request the checks refuse changes nothing.
DestroyBegins(w, s) ==
    /\ Asked(w, <<"destroy", s>>)
    /\ entry[s].listed /\ ~entry[s].missing
    /\ folder[s] # "none"
    /\ \E data \in BOOLEAN :
         at' = [at EXCEPT ![w] = [Idle EXCEPT !.pc = "inspect", !.s = s, !.data = data]]
    /\ UNCHANGED <<outside, entry, lastScan, watch, spare>>

GivesUp(w) == at' = [at EXCEPT ![w] = Idle]

\* ContainerAllowed, asked again before every request to Arcane.
Allowed(s) == entry[s].listed /\ ~entry[s].missing

DestroyInspects(w) ==
    LET s == at[w].s IN
    /\ at[w].pc = "inspect"
    /\ IF ~Allowed(s) \/ box[s] = "running" THEN GivesUp(w)
       ELSE Goes(w, IF box[s] = "none" THEN "move" ELSE "remove")
    /\ UNCHANGED <<outside, entry, lastScan, watch, todo, spare>>

\* Mutant: the container is removed with force=true.
DestroyRemovesForced(w) ==
    LET s == at[w].s IN
    /\ at[w].pc = "remove"
    /\ IF Allowed(s) THEN Goes(w, "move") /\ box' = [box EXCEPT ![s] = "none"]
       ELSE GivesUp(w) /\ UNCHANGED box
    /\ UNCHANGED <<folder, port, world, torn, raised, entry, lastScan, watch, todo, spare>>

\* arcane.Remove never forces: Docker refuses to remove a running container.
DestroyRemoves(w) ==
    LET s == at[w].s IN
    /\ at[w].pc = "remove"
    /\ IF Allowed(s) /\ box[s] # "running"
       THEN Goes(w, "move") /\ box' = [box EXCEPT ![s] = "none"]
       ELSE GivesUp(w) /\ UNCHANGED box
    /\ UNCHANGED <<folder, port, world, torn, raised, entry, lastScan, watch, todo, spare>>

\* The folder goes to the trash; renaming the compose file there may fail
\* after that, which ends the request.
DestroyMoves(w) ==
    LET s == at[w].s IN
    /\ at[w].pc = "move"
    /\ folder' = [folder EXCEPT ![s] = "none"]
    /\ torn' = torn \cup {t \in {s} : folder[t] = "bare"}
    /\ \/ folder[s] # "none" /\ Goes(w, "unlist") /\ UNCHANGED spare
       \/ folder[s] = "none" /\ GivesUp(w) /\ UNCHANGED spare
       \/ /\ folder[s] # "none" /\ GivesUp(w)
          /\ spare.faults > 0 /\ spare' = [spare EXCEPT !.faults = @ - 1]
    /\ UNCHANGED <<port, box, world, raised, entry, lastScan, watch, todo>>

DestroyUnlists(w) ==
    /\ at[w].pc = "unlist"
    /\ Unlists(at[w].s)
    /\ at' = [at EXCEPT ![w].pc = "want",
                ![w].then = IF spare' # spare THEN "idle"
                            ELSE IF at[w].data THEN "wipe" ELSE "scan"]
    /\ UNCHANGED <<outside, lastScan, watch, todo>>

DestroyWipes(w) ==
    /\ at[w].pc = "wipe"
    /\ world' = [world EXCEPT ![at[w].s] = FALSE]
    /\ at' = [at EXCEPT ![w] = [Idle EXCEPT !.pc = "scan"]]
    /\ UNCHANGED <<folder, port, box, torn, raised, entry, lastScan, watch, todo, spare>>

----------------------------------------------------------------------------
(* Creating *)

CreateBegins(w, s) ==
    /\ Asked(w, <<"create", s>>)
    /\ at' = [at EXCEPT ![w] = [Idle EXCEPT !.pc = "scan", !.then = "plan", !.s = s]]
    /\ UNCHANGED <<outside, entry, lastScan, watch, spare>>

\* Mutant: the port before a free one is given out.
FreePortsBefore == {n - 1 : n \in Ports \ {lastScan[s] : s \in Stacks}}

\* allocatePorts gives out the lowest port no stack of a.lastScan publishes.
FreePorts == Ports \ {lastScan[s] : s \in Stacks}

\* provision.Make: the folder must not exist, nor the last scan have read a
\* container or data folder of that name.
Plan(w) ==
    LET s == at[w].s IN
    /\ at[w].pc = "plan"
    /\ IF folder[s] = "none" /\ lastScan[s] = 0 /\ FreePorts # {}
       THEN at' = [at EXCEPT ![w].pc = "mkdir", ![w].copy.port = Min(FreePorts)]
       ELSE GivesUp(w)
    /\ UNCHANGED <<outside, entry, lastScan, watch, todo, spare>>

\* Mutant: MkdirAll instead of Mkdir, an existing folder is no error.
CreateMakesAll(w) ==
    LET s == at[w].s IN
    /\ at[w].pc = "mkdir"
    /\ folder' = [folder EXCEPT ![s] = "bare"]
    /\ world' = [world EXCEPT ![s] = TRUE]
    /\ at' = [at EXCEPT ![w].pc = "files", ![w].data = ~world[s]]
    /\ UNCHANGED <<port, box, torn, raised, entry, lastScan, watch, todo, spare>>

\* provision.Apply: os.Mkdir of the stack folder fails when it exists; the
\* data folder is made when it is missing, and used as it is otherwise.
CreateMakes(w) ==
    LET s == at[w].s IN
    /\ at[w].pc = "mkdir"
    /\ IF folder[s] = "none"
       THEN /\ folder' = [folder EXCEPT ![s] = "bare"]
            /\ world' = [world EXCEPT ![s] = TRUE]
            /\ at' = [at EXCEPT ![w].pc = "files", ![w].data = ~world[s]]
       ELSE GivesUp(w) /\ UNCHANGED <<folder, world>>
    /\ UNCHANGED <<port, box, torn, raised, entry, lastScan, watch, todo, spare>>

\* The files follow, into whatever folder has that name by now, and are read
\* back; a failure removes what was made, by name too.
CreateWrites(w) ==
    LET s == at[w].s IN
    /\ at[w].pc = "files"
    /\ \/ /\ folder[s] # "none"
          /\ folder' = [folder EXCEPT ![s] = "whole"]
          /\ port' = [port EXCEPT ![s] = at[w].copy.port]
          /\ at' = [at EXCEPT ![w] = [Idle EXCEPT !.pc = "scan"]]
          /\ UNCHANGED <<world, spare>>
       \/ /\ IF folder[s] # "none"
             THEN spare.faults > 0 /\ spare' = [spare EXCEPT !.faults = @ - 1]
             ELSE UNCHANGED spare
          /\ folder' = [folder EXCEPT ![s] = "none"]
          /\ world' = [world EXCEPT ![s] = @ /\ ~at[w].data]
          /\ GivesUp(w)
          /\ UNCHANGED port
    /\ UNCHANGED <<box, torn, raised, entry, lastScan, watch, todo>>

----------------------------------------------------------------------------
(* The host: what is done with other tools, and Docker *)

Changes(kind) == kind \in spare.changes /\ spare' = [spare EXCEPT !.changes = @ \ {kind}]
Host == UNCHANGED <<world, torn, raised, entry, lastScan, watch, at, todo>>

FolderGoes(s) ==
    /\ Changes("gone") /\ folder[s] \in {"whole", "broken"} /\ box[s] # "running"
    /\ folder' = [folder EXCEPT ![s] = "none"]
    /\ Host /\ UNCHANGED <<port, box>>

FolderComes(s) ==
    /\ Changes("back") /\ folder[s] = "none"
    /\ folder' = [folder EXCEPT ![s] = "whole"]
    /\ Host /\ UNCHANGED <<port, box>>

FileEdited(s) ==
    /\ Changes("edit") /\ folder[s] \in {"whole", "broken"}
    /\ \E f \in {"whole", "broken"}, n \in Ports :
         /\ <<f, n>> # <<folder[s], port[s]>>
         /\ folder' = [folder EXCEPT ![s] = f] /\ port' = [port EXCEPT ![s] = n]
    /\ Host /\ UNCHANGED box

\* Who has seen to it that there is no container, and looks no more.
Empties(q) == q.pc \in {"move", "unlist", "wipe"} \/ q.then = "wipe"

\* docker compose up, which makes a data folder that is missing: the host's, or
\* PZAdmin's own deploy, which no destroy under way refuses.
BoxMade(s) ==
    /\ Changes("up") /\ folder[s] = "whole" /\ box[s] = "none"
    /\ box' = [box EXCEPT ![s] = "running"]
    /\ world' = [world EXCEPT ![s] = TRUE]
    /\ raised' = IF \E w \in Workers : at[w].s = s /\ Empties(at[w])
                 THEN raised \cup {s} ELSE raised
    /\ UNCHANGED <<folder, port, torn, entry, lastScan, watch, at, todo>>

\* Stopping needs no bound; starting is also PZAdmin's own start, which may
\* come at any moment of a destroy.
BoxStarts(s) ==
    /\ Changes("start") /\ box[s] = "stopped"
    /\ box' = [box EXCEPT ![s] = "running"]
    /\ Host /\ UNCHANGED <<folder, port>>

BoxStops(s) ==
    /\ box[s] = "running"
    /\ box' = [box EXCEPT ![s] = "stopped"]
    /\ Host /\ UNCHANGED <<folder, port, spare>>

----------------------------------------------------------------------------
FleetInit ==
    \E sc \in Scenarios :
      LET here == {s \in Stacks : sc.ports[s] # 0} IN
      /\ folder = [s \in Stacks |-> IF s \in here THEN "whole" ELSE "none"]
      /\ port = [s \in Stacks |-> IF s \in here THEN sc.ports[s] ELSE Min(Ports)]
      /\ box = [s \in Stacks |-> IF s \in here THEN "stopped" ELSE "none"]
      /\ world = [s \in Stacks |-> s \in here]
      /\ entry = [s \in Stacks |-> IF s \in here THEN [Found EXCEPT !.port = port[s]]
                                                ELSE Unlisted]
      /\ lastScan = sc.ports
      /\ watch = [s \in Stacks |-> IF s \in here THEN "live" ELSE "none"]
      /\ at = [p \in Processes |-> Idle]
      /\ todo = sc.asks
      /\ spare = [changes |-> sc.changes, faults |-> sc.faults]
      /\ torn = {} /\ raised = {}

Rescan(p) == Scan(p) \/ Fold(p)
SyncMonitors(p) == Want(p) \/ Sync(p)

Handles(w) ==
    \/ SaveWrites(w)
    \/ DestroyInspects(w) \/ DestroyRemoves(w) \/ DestroyMoves(w)
    \/ DestroyUnlists(w) \/ DestroyWipes(w)
    \/ Plan(w) \/ CreateMakes(w) \/ CreateWrites(w)

Requests(w) ==
    \E s \in Stacks : \/ SaveReads(w, s) \/ Import(w, s) \/ Forget(w, s)
                      \/ DestroyBegins(w, s) \/ CreateBegins(w, s)

HostNext ==
    \E s \in Stacks : \/ FolderGoes(s) \/ FolderComes(s) \/ FileEdited(s)
                      \/ BoxMade(s) \/ BoxStarts(s) \/ BoxStops(s)

Runs(p) == Rescan(p) \/ SyncMonitors(p)

FleetNext ==
    \/ \E p \in Processes : Runs(p)
    \/ \E w \in Workers : Handles(w) \/ Requests(w)
    \/ \E s \in Stacks : MonitorEnds(s)
    \/ HostNext

\* Go's scheduler, and the tickers of discovery and supervisor.  Requests and
\* what happens on the host owe nothing.
FleetFairness ==
    /\ \A p \in Processes : WF_fleetVars(Runs(p))
    /\ \A w \in Workers : WF_fleetVars(Handles(w))
    /\ \A s \in Stacks : WF_fleetVars(MonitorEnds(s))

FleetSpec == FleetInit /\ [][FleetNext]_fleetVars /\ FleetFairness

----------------------------------------------------------------------------
(* Properties *)

FleetTypeOK ==
    /\ folder \in [Stacks -> {"none", "bare", "whole", "broken"}]
    /\ port \in [Stacks -> Ports]
    /\ box \in [Stacks -> {"none", "stopped", "running"}]
    /\ world \in [Stacks -> BOOLEAN]
    /\ entry \in [Stacks -> Entries]
    /\ lastScan \in [Stacks -> Ports \cup {0}]
    /\ watch \in [Stacks -> {"none", "live", "ended"}]
    /\ \A p \in Processes : at[p].s \in Stacks \cup {"-"} /\ at[p].copy \in Entries
    /\ spare \in [changes: SUBSET ChangeKinds, faults: Nat]
    /\ torn \subseteq Stacks /\ raised \subseteq Stacks

\* Two creates never write one stack folder, though both planned on a scan
\* without it: provision.Apply's exclusive Mkdir, and undo only of what it made.
\* Only a destroy that takes the folder from under the first lets in a second.
OneWriterPerFolder ==
    \A v, w \in Workers : v # w /\ at[v].pc = "files" /\ at[w].pc = "files"
                        => at[v].s # at[w].s \/ at[v].s \in torn

\* No step of PZAdmin takes a running container's world, or leaves it running
\* without its stack folder, whenever a stopped one is started while a destroy
\* is under way: Inspect and the unforced Remove stand between the check and the
\* deletion.  Nothing is looked at after Remove: a container made anew then is
\* not spared, and nothing is said of such a stack.
OnlyStoppedGoes ==
    [][\A s \in Stacks \ (torn \cup raised) : box[s] = "running" =>
         /\ world[s] => world'[s]
         /\ folder[s] = "whole" => folder'[s] # "none"
         /\ box'[s] # "none"]_fleetVars

\* Once the host leaves the folders alone, the configuration says what they
\* say, for good: whatever an older scan, a save of an older copy, a failed
\* write or an unreadable root did to an entry is put right by later scans.
Agrees(s) == IF Reads(s) # 0 THEN Allowed(s) /\ entry[s].port = Reads(s) ELSE ~Allowed(s)
ConfigFollowsFolders == \A s \in Stacks : <>[]Agrees(s)

\* A server disabled, forgotten, destroyed or gone loses its monitor, unless
\* it is wanted again: monitors of old looks at the configuration included.
UnwantedIsUnwatched ==
    \A s \in Stacks : ~Wanted(s) ~> (watch[s] # "live" \/ Wanted(s))

\* What the system comes to once the host and the requests are done.
ComesToRest == ConfigFollowsFolders /\ UnwantedIsUnwatched

\* What serverdelete.go:49-51 says of the data folder, "checking it is safe to
\* delete: [...] not used by any other server": no stack mounts a data folder
\* when it is deleted.
WipesOnlyUnused ==
    [][\A s \in Stacks : world[s] /\ ~world'[s] => folder[s] # "whole"]_fleetVars
=============================================================================
