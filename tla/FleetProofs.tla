---------------------------- MODULE FleetProofs ----------------------------
(***************************************************************************)
(* Proofs about Fleet: for any number of stacks, ports and handlers, and   *)
(* whatever is read too early, fails or is done with other tools, no two   *)
(* creates fill one stack folder, and no destroy takes the world or the    *)
(* folder of a container that runs, unless it was made anew behind the     *)
(* destroy's back.                                                         *)
(***************************************************************************)
EXTENDS Fleet, WellFoundedInduction, TLAPS

LEMMA LessIsWellFounded ==
    \E R : IsWellFoundedOn(R, Nat) /\ \A x, y \in Nat : x < y => <<x, y>> \in R
<1>1. \A x, y \in Nat : x < y => <<x, y>> \in OpToRel(<, Nat)
  BY DEF OpToRel
<1> QED
  BY <1>1, NatLessThanWellFounded

LEMMA SmallestIn ==
    ASSUME NEW R, IsWellFoundedOn(R, Nat), NEW T, T \subseteq Nat, T # {}
    PROVE  \E m \in T : \A k \in T : ~(<<k, m>> \in R)
BY WFMin, Zenon

\* allocatePorts gives out a port there is.
LEMMA LowestPort ==
    ASSUME NEW T \in SUBSET Nat, T # {}
    PROVE  Min(T) \in T
<1>1. PICK R : IsWellFoundedOn(R, Nat) /\ \A x, y \in Nat : x < y => <<x, y>> \in R
  BY LessIsWellFounded
<1>2. T \subseteq Nat
  OBVIOUS
<1>3. \E m \in T : \A k \in T : ~(<<k, m>> \in R)
  BY <1>1, <1>2, SmallestIn
<1>4. \E m \in T : \A k \in T : ~(k < m)
  BY <1>1, <1>2, <1>3
<1>5. \E m \in T : \A k \in T : m =< k
  BY <1>2, <1>4
<1> QED
  BY <1>5 DEF Min

---------------------------------------------------------------------------
(* Types.  Where a handler is busy with a stack, it has one, and where it   *)
(* writes a port, it has that.                                             *)

Steps == {"idle", "scan", "fold", "want", "sync", "write", "inspect", "remove", "move", "unlist",
          "wipe", "plan", "mkdir", "files"}
Nexts == {"idle", "scan", "wipe", "plan"}
Busy == {"write", "inspect", "remove", "move", "unlist", "wipe", "plan", "mkdir", "files"}

Scans == [Stacks -> Ports \cup {0}]
Places == [pc : Steps, s : Stacks \cup {"-"}, then : Nexts, seen : Scans,
           want : SUBSET Stacks, copy : Entries, data : BOOLEAN]

KnowsItsWork(q) ==
    /\ q.pc \in Busy \/ q.then \in {"wipe", "plan"} => q.s \in Stacks
    /\ q.pc \in {"mkdir", "files"} => q.copy.port \in Ports

HostTypes ==
    /\ folder \in [Stacks -> {"none", "bare", "whole", "broken"}]
    /\ port \in [Stacks -> Ports]
    /\ box \in [Stacks -> {"none", "stopped", "running"}]
    /\ world \in [Stacks -> BOOLEAN]
    /\ torn \subseteq Stacks /\ raised \subseteq Stacks

OwnTypes ==
    /\ entry \in [Stacks -> Entries]
    /\ lastScan \in Scans
    /\ watch \in [Stacks -> {"none", "live", "ended"}]
    /\ todo \in [Workers -> SUBSET Asks]
    /\ spare \in [changes: SUBSET ChangeKinds, faults: Nat]

AtTypes ==
    /\ at \in [Processes -> Places]
    /\ \A p \in Processes : KnowsItsWork(at[p])

\* The type invariant, with what each process may be at.
FInv == HostTypes /\ OwnTypes /\ AtTypes

LEMMA FInvSuffices == FInv => FleetTypeOK
<1> SUFFICES ASSUME FInv PROVE FleetTypeOK
  OBVIOUS
<1>1. \A p \in Processes : at[p] \in Places
  BY DEF FInv, AtTypes
<1>2. \A p \in Processes : at[p].s \in Stacks \cup {"-"} /\ at[p].copy \in Entries
  BY <1>1 DEF Places
<1> QED
  BY <1>2 DEF FInv, HostTypes, OwnTypes, Scans, FleetTypeOK

LEMMA EntryTypes ==
    /\ Unlisted \in Entries /\ Found \in Entries /\ NothingFound \in Scans
    /\ \A e \in Entries, n \in Ports : [e EXCEPT !.port = n] \in Entries
    /\ \A e \in Entries, n \in Ports : [e EXCEPT !.missing = FALSE, !.port = n] \in Entries
    /\ \A e \in Entries, b \in BOOLEAN : [e EXCEPT !.missing = b] \in Entries
    /\ \A e \in Entries, b \in BOOLEAN : [e EXCEPT !.enabled = b] \in Entries
BY DEF Unlisted, Found, NothingFound, Scans, Entries

LEMMA IdlePlace ==
    Idle \in Places /\ Idle.pc = "idle" /\ Idle.then = "idle" /\ KnowsItsWork(Idle)
BY EntryTypes DEF Idle, Places, Steps, Nexts, Busy, KnowsItsWork

\* What a scan found, folded into an entry, is an entry.
LEMMA FoldedTypes ==
    ASSUME OwnTypes, NEW s \in Stacks, NEW find \in Ports \cup {0}
    PROVE  Folded(s, find) \in Entries
<1>1. entry[s] \in Entries /\ entry[s].listed \in BOOLEAN /\ entry[s].missing \in BOOLEAN
  BY DEF OwnTypes, Entries
<1>2. CASE find # 0
  <2>1. find \in Ports
    BY <1>2
  <2> QED
    BY <1>1, <1>2, <2>1, EntryTypes DEF Folded
<1>3. CASE find = 0
  <2>1. (entry[s].missing \/ entry[s].listed) \in BOOLEAN
    OBVIOUS
  <2>2. Folded(s, find) = [entry[s] EXCEPT !.missing = (entry[s].missing \/ entry[s].listed)]
    BY <1>3 DEF Folded
  <2> QED
    BY <1>1, <2>1, <2>2, EntryTypes
<1> QED
  BY <1>2, <1>3

\* Process p moves to the place q.
Moves(p, q) == q \in Places /\ KnowsItsWork(q) /\ at' = [at EXCEPT ![p] = q]

LEMMA MovesTypes ==
    ASSUME AtTypes, NEW p \in Processes, NEW q, Moves(p, q)
    PROVE  AtTypes' /\ at'[p] = q /\ \A r \in Processes : r # p => at'[r] = at[r]
<1>1. at' \in [Processes -> Places]
  BY DEF AtTypes, Moves
<1>2. at'[p] = q /\ \A r \in Processes : r # p => at'[r] = at[r]
  BY DEF AtTypes, Moves
<1>3. \A r \in Processes : KnowsItsWork(at'[r])
  BY <1>2, Zenon DEF AtTypes, Moves
<1> QED
  BY <1>1, <1>2, <1>3 DEF AtTypes

\* One step on, for a process that keeps what it has.
LEMMA GoesOn ==
    ASSUME AtTypes, NEW p \in Processes, NEW pc \in Steps \ {"mkdir", "files"}, Goes(p, pc),
           pc \in Busy => at[p].s \in Stacks
    PROVE  \E q : Moves(p, q) /\ q.pc = pc /\ q.s = at[p].s /\ q.then = at[p].then /\ q.data = at[p].data
<1> DEFINE q == [at[p] EXCEPT !.pc = pc]
<1>1. at[p] \in Places /\ KnowsItsWork(at[p])
  BY DEF AtTypes
<1>2. q \in Places /\ q.pc = pc /\ q.s = at[p].s /\ q.then = at[p].then /\ q.data = at[p].data
  BY <1>1 DEF Places
<1>3. KnowsItsWork(q)
  BY <1>1, <1>2 DEF KnowsItsWork
<1>4. at' = [at EXCEPT ![p] = q]
  BY DEF Goes
<1> QED
  BY <1>2, <1>3, <1>4 DEF Moves

\* The end of a rescan or of a look at the monitors.
LEMMA GoesBack ==
    ASSUME AtTypes, NEW p \in Processes, Continues(p)
    PROVE  \E q : Moves(p, q) /\ q.pc \in Nexts /\ q.then = "idle" /\ (q.pc # "idle" => q.pc = at[p].then /\ q.s = at[p].s)
<1>1. at[p] \in Places /\ KnowsItsWork(at[p])
  BY DEF AtTypes
<1>2. CASE at[p].then = "idle"
  <2>1. at' = [at EXCEPT ![p] = Idle]
    BY <1>2 DEF Continues
  <2> QED
    BY <2>1, IdlePlace DEF Moves, Nexts
<1>3. CASE at[p].then # "idle"
  <2> DEFINE q == [at[p] EXCEPT !.pc = at[p].then, !.then = "idle", !.seen = NothingFound, !.want = {}]
  <2>1. /\ q \in Places /\ q.pc = at[p].then /\ q.s = at[p].s /\ q.then = "idle"
        /\ at[p].then \in Nexts
    BY <1>1, EntryTypes DEF Places, Nexts, Steps
  <2>2. KnowsItsWork(q)
    BY <1>1, <2>1 DEF KnowsItsWork, Nexts, Busy
  <2>3. at' = [at EXCEPT ![p] = q]
    BY <1>3 DEF Continues
  <2> QED
    BY <2>1, <2>2, <2>3 DEF Moves
<1> QED
  BY <1>2, <1>3

LEMMA GoesIdle ==
    ASSUME AtTypes, NEW p \in Processes, at' = [at EXCEPT ![p] = Idle]
    PROVE  \E q : Moves(p, q) /\ q.pc = "idle" /\ q.then = "idle"
BY IdlePlace DEF Moves

---------------------------------------------------------------------------
(* What creates and destroys keep.                                         *)

\* Who fills a folder it made: nobody has put anything else there, and nobody
\* can be running from a data folder it made.
Filling(w) ==
    at[w].pc = "files" /\ at[w].s \notin torn =>
        /\ folder[at[w].s] = "bare"
        /\ at[w].data /\ at[w].s \notin raised => box[at[w].s] = "none"

AInv ==
    /\ \A w \in Workers : Filling(w)
    /\ OneWriterPerFolder
    /\ \A w \in Workers : Empties(at[w]) => box[at[w].s] = "none" \/ at[w].s \in raised
    /\ \A s \in Stacks \ (torn \cup raised) : box[s] # "none" => world[s]

\* A move that neither begins to fill a folder nor to empty one.
Quiet(p, q) ==
    /\ Moves(p, q) /\ q.pc # "files"
    /\ p \in Workers /\ Empties(q) => box[q.s] = "none" \/ q.s \in raised

LEMMA QuietKeeps ==
    ASSUME FInv, AInv, NEW p \in Processes, NEW q, Quiet(p, q), UNCHANGED outside
    PROVE  AInv'
<1>1. /\ folder' = folder /\ box' = box /\ world' = world /\ torn' = torn /\ raised' = raised
  BY DEF outside
<1>2. at'[p] = q /\ \A r \in Processes : r # p => at'[r] = at[r]
  BY MovesTypes DEF FInv, Quiet
<1>3. \A w \in Workers : w \in Processes
  BY DEF Processes
<1>4. \A w \in Workers : Filling(w)'
  BY <1>1, <1>2, <1>3 DEF AInv, Filling, Quiet
<1>5. OneWriterPerFolder'
  BY <1>1, <1>2, <1>3 DEF AInv, OneWriterPerFolder, Quiet
<1>6. \A w \in Workers : Empties(at'[w]) => box'[at'[w].s] = "none" \/ at'[w].s \in raised'
  BY <1>1, <1>2, <1>3 DEF AInv, Quiet
<1> QED
  BY <1>1, <1>4, <1>5, <1>6 DEF AInv

\* A process that keeps its stack and what it is to do then.
LEMMA KeepsGoing ==
    ASSUME AInv, NEW p \in Processes, NEW q, Moves(p, q), q.s = at[p].s, q.then = at[p].then,
           q.pc \notin {"files", "move", "unlist", "wipe"}
    PROVE  Quiet(p, q)
BY DEF AInv, Quiet, Empties

LEMMA ScanMoves ==
    ASSUME FInv, AInv, NEW p \in Processes, Scan(p)
    PROVE  OwnTypes' /\ UNCHANGED outside /\ \E q : Quiet(p, q)
<1>1. at[p] \in Places /\ KnowsItsWork(at[p])
  BY DEF FInv, AtTypes
<1>2. ASSUME NEW seen \in Scans, at' = [at EXCEPT ![p].pc = "fold", ![p].seen = seen]
      PROVE  \E q : Quiet(p, q)
  <2> DEFINE q == [at[p] EXCEPT !.pc = "fold", !.seen = seen]
  <2>1. q \in Places /\ q.pc = "fold" /\ q.s = at[p].s /\ q.then = at[p].then
    BY <1>1 DEF Places, Steps
  <2>2. KnowsItsWork(q)
    BY <1>1, <2>1 DEF KnowsItsWork, Busy
  <2>3. Moves(p, q)
    BY <1>2, <2>1, <2>2 DEF Moves
  <2> HIDE DEF q
  <2> QED
    BY <2>1, <2>3, KeepsGoing
<1>3. [s \in Stacks |-> Reads(s)] \in Scans /\ NothingFound \in Scans
  BY EntryTypes DEF FInv, HostTypes, Reads, Scans
<1>4. \E q : Quiet(p, q)
  BY <1>2, <1>3 DEF Scan
<1>5. spare' \in [changes: SUBSET ChangeKinds, faults: Nat]
  BY DEF Scan, FInv, OwnTypes
<1> QED
  BY <1>4, <1>5 DEF Scan, FInv, OwnTypes

LEMMA FoldMoves ==
    ASSUME FInv, AInv, NEW p \in Processes, Fold(p)
    PROVE  OwnTypes' /\ UNCHANGED outside /\ \E q : Quiet(p, q)
<1>1. at[p] \in Places /\ KnowsItsWork(at[p])
  BY DEF FInv, AtTypes
<1>2. at[p].seen \in Scans
  BY <1>1 DEF Places
<1>3. entry' \in [Stacks -> Entries]
  <2>1. CASE entry' = entry
    BY <2>1 DEF FInv, OwnTypes
  <2>2. CASE entry' = [s \in Stacks |-> Folded(s, at[p].seen[s])]
    <3>1. \A s \in Stacks : at[p].seen[s] \in Ports \cup {0}
      BY <1>2 DEF Scans
    <3>2. \A s \in Stacks : Folded(s, at[p].seen[s]) \in Entries
      BY <3>1, FoldedTypes DEF FInv
    <3> QED
      BY <2>2, <3>2
  <2> QED
    BY <2>1, <2>2 DEF Fold
<1>4. spare' \in [changes: SUBSET ChangeKinds, faults: Nat]
  BY DEF Fold, FInv, OwnTypes
<1>5. ASSUME Goes(p, "want") PROVE \E q : Quiet(p, q)
  <2>1. PICK q : Moves(p, q) /\ q.pc = "want" /\ q.s = at[p].s /\ q.then = at[p].then
    BY <1>5, GoesOn DEF FInv, Steps, Busy
  <2> QED
    BY <2>1, KeepsGoing
<1>6. ASSUME Continues(p) PROVE \E q : Quiet(p, q)
  <2>1. PICK q : Moves(p, q) /\ q.pc \in Nexts /\ q.then = "idle" /\ (q.pc # "idle" => q.pc = at[p].then /\ q.s = at[p].s)
    BY <1>6, GoesBack DEF FInv
  <2>2. q.pc # "files" /\ (p \in Workers /\ Empties(q) => box[q.s] = "none" \/ q.s \in raised)
    BY <2>1 DEF Nexts, Empties, AInv
  <2> QED
    BY <2>1, <2>2 DEF Quiet
<1>7. \E q : Quiet(p, q)
  BY <1>5, <1>6 DEF Fold
<1> QED
  BY <1>2, <1>3, <1>4, <1>7 DEF Fold, FInv, OwnTypes

LEMMA MonitorMoves ==
    ASSUME FInv, AInv, NEW p \in Processes, SyncMonitors(p)
    PROVE  OwnTypes' /\ UNCHANGED outside /\ \E q : Quiet(p, q)
<1>1. at[p] \in Places /\ KnowsItsWork(at[p])
  BY DEF FInv, AtTypes
<1>2. CASE Want(p)
  <2> DEFINE q == [at[p] EXCEPT !.pc = "sync", !.want = {s \in Stacks : Wanted(s)}]
  <2>1. q \in Places /\ q.pc = "sync" /\ q.s = at[p].s /\ q.then = at[p].then
    BY <1>1 DEF Places, Steps
  <2>2. KnowsItsWork(q)
    BY <1>1, <2>1 DEF KnowsItsWork, Busy
  <2>3. Moves(p, q)
    BY <1>2, <2>1, <2>2 DEF Moves, Want
  <2> HIDE DEF q
  <2>4. Quiet(p, q)
    BY <2>1, <2>3, KeepsGoing
  <2> QED
    BY <1>2, <2>4 DEF Want, FInv, OwnTypes
<1>3. CASE Sync(p)
  <2>1. PICK q : Moves(p, q) /\ q.pc \in Nexts /\ q.then = "idle" /\ (q.pc # "idle" => q.pc = at[p].then /\ q.s = at[p].s)
    BY <1>3, GoesBack DEF FInv, Sync
  <2>2. q.pc # "files" /\ (p \in Workers /\ Empties(q) => box[q.s] = "none" \/ q.s \in raised)
    BY <2>1 DEF Nexts, Empties, AInv
  <2>3. watch' \in [Stacks -> {"none", "live", "ended"}]
    BY <1>3 DEF Sync, Watched, FInv, OwnTypes
  <2> QED
    BY <1>3, <2>1, <2>2, <2>3 DEF Quiet, Sync, FInv, OwnTypes
<1> QED
  BY <1>2, <1>3 DEF SyncMonitors

LEMMA SaveMoves ==
    ASSUME FInv, AInv, NEW w \in Workers, SaveWrites(w)
    PROVE  OwnTypes' /\ UNCHANGED outside /\ \E q : Quiet(w, q)
<1>0. w \in Processes /\ at[w] \in Places /\ KnowsItsWork(at[w])
  BY DEF FInv, AtTypes, Processes
<1>1. at[w].copy \in Entries
  BY <1>0 DEF Places
<1>2. entry' \in [Stacks -> Entries]
  BY <1>1 DEF SaveWrites, FInv, OwnTypes
<1>3. ASSUME Goes(w, "want") PROVE \E q : Quiet(w, q)
  <2>1. PICK q : Moves(w, q) /\ q.pc = "want" /\ q.s = at[w].s /\ q.then = at[w].then
    BY <1>0, <1>3, GoesOn DEF FInv, Steps, Busy
  <2> QED
    BY <1>0, <2>1, KeepsGoing
<1>4. ASSUME at' = [at EXCEPT ![w] = Idle] PROVE \E q : Quiet(w, q)
  BY <1>0, <1>4, GoesIdle DEF FInv, Quiet, Empties
<1>5. \E q : Quiet(w, q)
  BY <1>3, <1>4 DEF SaveWrites
<1> QED
  BY <1>2, <1>5 DEF SaveWrites, FInv, OwnTypes

\* A handler that gives up is idle.
LEMMA GivesUpQuietly ==
    ASSUME FInv, AInv, NEW w \in Workers, GivesUp(w)
    PROVE  \E q : Quiet(w, q) /\ q.pc = "idle"
<1>1. PICK q : Moves(w, q) /\ q.pc = "idle" /\ q.then = "idle"
  BY GoesIdle DEF FInv, GivesUp, Processes
<1> QED
  BY <1>1 DEF Quiet, Empties

\* Inspect found no container, or one that may be removed.
LEMMA InspectMoves ==
    ASSUME FInv, AInv, NEW w \in Workers, DestroyInspects(w)
    PROVE  OwnTypes' /\ UNCHANGED outside /\ \E q : Quiet(w, q)
<1>0. w \in Processes /\ at[w] \in Places /\ KnowsItsWork(at[w]) /\ at[w].s \in Stacks
  BY DEF FInv, AtTypes, Processes, KnowsItsWork, Busy, DestroyInspects
<1>1. ASSUME GivesUp(w) PROVE \E q : Quiet(w, q)
  BY <1>1, GivesUpQuietly
<1>2. ASSUME NEW pc \in {"move", "remove"}, Goes(w, pc), pc = "move" => box[at[w].s] = "none"
      PROVE  \E q : Quiet(w, q)
  <2>1. PICK q : Moves(w, q) /\ q.pc = pc /\ q.s = at[w].s /\ q.then = at[w].then
    BY <1>0, <1>2, GoesOn DEF FInv, Steps
  <2> QED
    BY <1>2, <2>1 DEF Quiet, Empties, AInv
<1>3. \E q : Quiet(w, q)
  BY <1>1, <1>2 DEF DestroyInspects
<1> QED
  BY <1>3 DEF DestroyInspects, FInv, OwnTypes

LEMMA UnlistsTypes ==
    ASSUME OwnTypes, NEW s \in Stacks, Unlists(s)
    PROVE  /\ entry' \in [Stacks -> Entries]
           /\ spare' \in [changes: SUBSET ChangeKinds, faults: Nat]
<1>1. entry' \in [Stacks -> Entries]
  BY EntryTypes DEF Unlists, OwnTypes
<1>2. spare' \in [changes: SUBSET ChangeKinds, faults: Nat]
  BY DEF Unlists, OwnTypes
<1> QED
  BY <1>1, <1>2

LEMMA UnlistMoves ==
    ASSUME FInv, AInv, NEW w \in Workers, DestroyUnlists(w)
    PROVE  OwnTypes' /\ UNCHANGED outside /\ \E q : Quiet(w, q)
<1>0. w \in Processes /\ at[w] \in Places /\ KnowsItsWork(at[w]) /\ at[w].s \in Stacks
  BY DEF FInv, AtTypes, Processes, KnowsItsWork, Busy, DestroyUnlists
<1>1. PICK then \in {"idle", "wipe", "scan"} : at' = [at EXCEPT ![w].pc = "want", ![w].then = then]
  BY DEF DestroyUnlists
<1> DEFINE q == [at[w] EXCEPT !.pc = "want", !.then = then]
<1>2. q \in Places /\ q.pc = "want" /\ q.s = at[w].s /\ q.then = then
  BY <1>0 DEF Places, Steps, Nexts
<1>3. Moves(w, q)
  BY <1>0, <1>1, <1>2 DEF Moves, KnowsItsWork
<1>4. box[at[w].s] = "none" \/ at[w].s \in raised
  BY DEF AInv, Empties, DestroyUnlists
<1> HIDE DEF q
<1>5. Quiet(w, q)
  BY <1>2, <1>3, <1>4 DEF Quiet
<1> QED
  BY <1>0, <1>5, UnlistsTypes DEF DestroyUnlists, FInv, OwnTypes

LEMMA PlanMoves ==
    ASSUME FInv, AInv, NEW w \in Workers, Plan(w)
    PROVE  OwnTypes' /\ UNCHANGED outside /\ \E q : Quiet(w, q)
<1>0. w \in Processes /\ at[w] \in Places /\ KnowsItsWork(at[w]) /\ at[w].s \in Stacks
  BY DEF FInv, AtTypes, Processes, KnowsItsWork, Busy, Plan
<1>1. ASSUME GivesUp(w) PROVE \E q : Quiet(w, q)
  BY <1>1, GivesUpQuietly
<1>2. ASSUME FreePorts # {}, at' = [at EXCEPT ![w].pc = "mkdir", ![w].copy.port = Min(FreePorts)]
      PROVE  \E q : Quiet(w, q)
  <2>1. FreePorts \in SUBSET Nat /\ FreePorts \subseteq Ports
    BY FleetAssumption DEF FreePorts
  <2>2. PICK n \in Ports : n = Min(FreePorts)
    BY <1>2, <2>1, LowestPort
  <2> DEFINE e == [at[w].copy EXCEPT !.port = n]
             q == [at[w] EXCEPT !.pc = "mkdir", !.copy = e]
  <2>3. at[w].copy \in Entries /\ e \in Entries /\ e.port = n
    BY <1>0, EntryTypes DEF Places, Entries
  <2>4. at' = [at EXCEPT ![w] = q]
    BY <1>2, <2>2
  <2> HIDE DEF e
  <2>5. /\ q \in Places /\ q.pc = "mkdir" /\ q.s = at[w].s /\ q.then = at[w].then
        /\ q.copy = e
    BY <1>0, <2>3 DEF Places, Steps
  <2> HIDE DEF q
  <2>6. Moves(w, q)
    BY <1>0, <2>3, <2>4, <2>5 DEF Moves, KnowsItsWork
  <2> QED
    BY <1>0, <2>5, <2>6, KeepsGoing
<1>3. \E q : Quiet(w, q)
  BY <1>1, <1>2 DEF Plan
<1> QED
  BY <1>3 DEF Plan, FInv, OwnTypes

LEMMA RequestMoves ==
    ASSUME FInv, AInv, NEW w \in Workers, Requests(w)
    PROVE  OwnTypes' /\ UNCHANGED outside /\ \E q : Quiet(w, q)
<1>0. w \in Processes /\ at[w] \in Places /\ KnowsItsWork(at[w])
  BY DEF FInv, AtTypes, Processes
<1>1. \A ask : Asked(w, ask) => todo' \in [Workers -> SUBSET Asks] /\ at[w].pc = "idle"
  BY DEF Asked, FInv, OwnTypes
<1>2. ASSUME NEW q \in Places, at' = [at EXCEPT ![w] = q], q.s \in Stacks,
             q.pc \in {"write", "inspect", "scan"}, q.then \in {"idle", "plan"}
      PROVE  \E r : Quiet(w, r)
  BY <1>2 DEF Quiet, Moves, KnowsItsWork, Empties
<1>3. PICK s \in Stacks : \/ SaveReads(w, s) \/ Import(w, s) \/ Forget(w, s)
                          \/ DestroyBegins(w, s) \/ CreateBegins(w, s)
  BY DEF Requests
<1>4. CASE SaveReads(w, s)
  <2>1. PICK on \in BOOLEAN : at' = [at EXCEPT ![w] = [Idle EXCEPT !.pc = "write", !.s = s,
                                    !.copy = [entry[s] EXCEPT !.enabled = on]]]
    BY <1>4 DEF SaveReads
  <2> DEFINE e == [entry[s] EXCEPT !.enabled = on]
             q == [Idle EXCEPT !.pc = "write", !.s = s, !.copy = e]
  <2>2. e \in Entries
    BY EntryTypes DEF FInv, OwnTypes
  <2>3. at' = [at EXCEPT ![w] = q]
    BY <2>1
  <2> HIDE DEF e
  <2>4. q \in Places /\ q.pc = "write" /\ q.s = s /\ q.then = "idle"
    BY <2>2, IdlePlace DEF Places, Steps
  <2> HIDE DEF q
  <2>5. \E r : Quiet(w, r)
    BY <1>2, <2>3, <2>4
  <2> QED
    BY <1>1, <1>4, <2>5 DEF SaveReads, FInv, OwnTypes
<1>5. CASE Import(w, s) \/ Forget(w, s)
  <2>1. Goes(w, "want")
    BY <1>5 DEF Import, Forget
  <2>2. PICK q : Moves(w, q) /\ q.pc = "want" /\ q.s = at[w].s /\ q.then = at[w].then
    BY <1>0, <2>1, GoesOn DEF FInv, Steps, Busy
  <2>3. \E r : Quiet(w, r)
    BY <1>0, <2>2, KeepsGoing
  <2>4. CASE Import(w, s)
    <3>1. PICK on \in BOOLEAN : entry' = [entry EXCEPT ![s].enabled = on]
      BY <2>4 DEF Import
    <3>2. [entry[s] EXCEPT !.enabled = on] \in Entries
      BY EntryTypes DEF FInv, OwnTypes
    <3>3. entry' \in [Stacks -> Entries]
      BY <3>1, <3>2 DEF FInv, OwnTypes
    <3> QED
      BY <1>1, <2>3, <2>4, <3>3 DEF Import, FInv, OwnTypes
  <2>5. CASE Forget(w, s)
    BY <1>1, <2>3, <2>5, UnlistsTypes DEF Forget, FInv, OwnTypes
  <2> QED
    BY <1>5, <2>4, <2>5
<1>6. CASE DestroyBegins(w, s)
  <2>1. PICK data \in BOOLEAN : at' = [at EXCEPT ![w] = [Idle EXCEPT !.pc = "inspect", !.s = s, !.data = data]]
    BY <1>6 DEF DestroyBegins
  <2> DEFINE q == [Idle EXCEPT !.pc = "inspect", !.s = s, !.data = data]
  <2>2. q \in Places /\ q.pc = "inspect" /\ q.s = s /\ q.then = "idle"
    BY IdlePlace DEF Places, Steps
  <2>3. at' = [at EXCEPT ![w] = q]
    BY <2>1
  <2> HIDE DEF q
  <2>4. \E r : Quiet(w, r)
    BY <1>2, <2>2, <2>3
  <2> QED
    BY <1>1, <1>6, <2>4 DEF DestroyBegins, FInv, OwnTypes
<1>7. CASE CreateBegins(w, s)
  <2> DEFINE q == [Idle EXCEPT !.pc = "scan", !.then = "plan", !.s = s]
  <2>1. q \in Places /\ q.pc = "scan" /\ q.s = s /\ q.then = "plan"
    BY IdlePlace DEF Places, Steps, Nexts
  <2>2. at' = [at EXCEPT ![w] = q]
    BY <1>7 DEF CreateBegins
  <2> HIDE DEF q
  <2>3. \E r : Quiet(w, r)
    BY <1>2, <2>1, <2>2
  <2> QED
    BY <1>1, <1>7, <2>3 DEF CreateBegins, FInv, OwnTypes
<1> QED
  BY <1>3, <1>4, <1>5, <1>6, <1>7

---------------------------------------------------------------------------
(* The steps that touch the host.                                          *)

\* What no step does to a container that runs.
Spares ==
    \A s \in Stacks \ (torn \cup raised) : box[s] = "running" =>
         /\ world[s] => world'[s]
         /\ folder[s] = "whole" => folder'[s] # "none"
         /\ box'[s] # "none"

\* Where a handler is, and where it will be after a step of its own.
LEMMA OwnMove ==
    ASSUME FInv, NEW w \in Workers, NEW q, Moves(w, q)
    PROVE  /\ at'[w] = q
           /\ \A v \in Workers : v # w => at'[v] = at[v]
           /\ AtTypes'
BY MovesTypes DEF FInv, Processes

LEMMA HasItsStack ==
    ASSUME FInv, NEW w \in Workers, at[w].pc \in Busy
    PROVE  /\ w \in Processes /\ at[w] \in Places /\ KnowsItsWork(at[w]) /\ at[w].s \in Stacks
           /\ at[w].data \in BOOLEAN
<1>1. w \in Processes /\ at[w] \in Places /\ KnowsItsWork(at[w])
  BY DEF FInv, AtTypes, Processes
<1> QED
  BY <1>1 DEF KnowsItsWork, Places

LEMMA QuietSpares ==
    ASSUME UNCHANGED outside
    PROVE  Spares
BY DEF outside, Spares

LEMMA RemoveStep ==
    ASSUME FInv, AInv, NEW w \in Workers, DestroyRemoves(w)
    PROVE  FInv' /\ AInv' /\ Spares
<1> DEFINE s == at[w].s
<1>0. /\ w \in Processes /\ at[w] \in Places /\ s \in Stacks
      /\ OwnTypes' /\ folder' = folder /\ port' = port /\ world' = world /\ torn' = torn
      /\ raised' = raised
  BY HasItsStack DEF Busy, DestroyRemoves, FInv, OwnTypes
<1>1. CASE box' = [box EXCEPT ![s] = "none"] /\ Goes(w, "move") /\ box[s] # "running"
  <2>1. PICK q : Moves(w, q) /\ q.pc = "move" /\ q.s = s /\ q.then = at[w].then
    BY <1>0, <1>1, GoesOn DEF FInv, Steps
  <2>2. at'[w] = q /\ (\A v \in Workers : v # w => at'[v] = at[v]) /\ AtTypes'
    BY <2>1, OwnMove
  <2>3. /\ HostTypes' /\ box'[s] = "none"
        /\ \A t \in Stacks : t # s => box'[t] = box[t]
    BY <1>0, <1>1 DEF FInv, HostTypes
  <2> HIDE DEF s
  <2>4. \A v \in Workers : Empties(at[v]) => at[v].s \in Stacks
    BY DEF FInv, AtTypes, Processes, KnowsItsWork, Empties, Busy
  <2>5. \A v \in Workers : Empties(at'[v]) => box'[at'[v].s] = "none" \/ at'[v].s \in raised'
    BY <1>0, <2>1, <2>2, <2>3, <2>4 DEF AInv
  <2>6. \A v \in Workers : at[v].pc = "files" => at[v].s \in Stacks
    BY HasItsStack DEF Busy
  <2>7. \A v \in Workers : Filling(v)'
    BY <1>0, <2>1, <2>2, <2>3, <2>6 DEF AInv, Filling
  <2>8. OneWriterPerFolder'
    BY <1>0, <2>1, <2>2 DEF AInv, OneWriterPerFolder
  <2>9. \A t \in Stacks \ (torn \cup raised) : box'[t] # "none" => world[t]
    BY <2>3 DEF AInv
  <2> QED
    BY <1>0, <1>1, <2>2, <2>3, <2>5, <2>7, <2>8, <2>9 DEF AInv, FInv, Spares, s
<1>2. CASE box' = box /\ GivesUp(w)
  <2>1. PICK q : Quiet(w, q)
    BY <1>2, GivesUpQuietly
  <2>2. UNCHANGED outside
    BY <1>0, <1>2 DEF outside
  <2>3. AtTypes'
    BY <2>1, OwnMove DEF Quiet
  <2>4. HostTypes'
    BY <2>2 DEF FInv, HostTypes, outside
  <2> QED
    BY <1>0, <2>1, <2>2, <2>3, <2>4, QuietKeeps, QuietSpares DEF FInv
<1> QED
  BY <1>1, <1>2 DEF DestroyRemoves

LEMMA MoveStep ==
    ASSUME FInv, AInv, NEW w \in Workers, DestroyMoves(w)
    PROVE  FInv' /\ AInv' /\ Spares
<1> DEFINE s == at[w].s
<1>0. /\ w \in Processes /\ at[w] \in Places /\ s \in Stacks /\ at[w].pc = "move"
      /\ port' = port /\ world' = world /\ box' = box /\ raised' = raised
      /\ folder' = [folder EXCEPT ![s] = "none"]
      /\ torn' = torn \cup {t \in {s} : folder[t] = "bare"}
  BY HasItsStack DEF Busy, DestroyMoves
<1>1. /\ OwnTypes' /\ HostTypes'
      /\ folder'[s] = "none" /\ \A t \in Stacks : t # s => folder'[t] = folder[t]
  BY <1>0 DEF DestroyMoves, FInv, OwnTypes, HostTypes
<1>2. box[s] = "none" \/ s \in raised
  BY <1>0 DEF AInv, Empties
<1>3. PICK q : Moves(w, q) /\ q.pc # "files" /\ (Empties(q) => q.s = s)
  <2>1. CASE Goes(w, "unlist")
    BY <1>0, <2>1, GoesOn DEF FInv, Steps
  <2>2. CASE GivesUp(w)
    BY <1>0, <2>2, GoesIdle DEF FInv, GivesUp, Empties
  <2> QED
    BY <2>1, <2>2 DEF DestroyMoves
<1>4. at'[w] = q /\ (\A v \in Workers : v # w => at'[v] = at[v]) /\ AtTypes'
  BY <1>3, OwnMove
<1>5. \A v \in Workers : at[v].pc = "files" => at[v].s \in Stacks
  BY HasItsStack DEF Busy
<1>6. torn \subseteq torn' /\ (folder[s] = "bare" => s \in torn')
  BY <1>0
<1> HIDE DEF s
<1>7. \A v \in Workers : Filling(v)'
  BY <1>0, <1>1, <1>3, <1>4, <1>5, <1>6 DEF AInv, Filling
<1>8. OneWriterPerFolder'
  BY <1>3, <1>4, <1>6 DEF AInv, OneWriterPerFolder
<1>9. \A v \in Workers : Empties(at'[v]) => box'[at'[v].s] = "none" \/ at'[v].s \in raised'
  BY <1>0, <1>2, <1>3, <1>4 DEF AInv
<1>10. \A t \in Stacks \ (torn' \cup raised') : box'[t] # "none" => world'[t]
  BY <1>0, <1>6 DEF AInv
<1>11. Spares
  BY <1>0, <1>1, <1>2 DEF Spares
<1> QED
  BY <1>1, <1>4, <1>7, <1>8, <1>9, <1>10, <1>11 DEF AInv, FInv

LEMMA WipeStep ==
    ASSUME FInv, AInv, NEW w \in Workers, DestroyWipes(w)
    PROVE  FInv' /\ AInv' /\ Spares
<1> DEFINE s == at[w].s
<1>0. /\ w \in Processes /\ at[w] \in Places /\ s \in Stacks /\ at[w].pc = "wipe"
      /\ port' = port /\ folder' = folder /\ box' = box /\ torn' = torn /\ raised' = raised
      /\ world' = [world EXCEPT ![s] = FALSE]
  BY HasItsStack DEF Busy, DestroyWipes
<1>1. /\ OwnTypes' /\ HostTypes'
      /\ \A t \in Stacks : t # s => world'[t] = world[t]
  BY <1>0 DEF DestroyWipes, FInv, OwnTypes, HostTypes
<1>2. box[s] = "none" \/ s \in raised
  BY <1>0 DEF AInv, Empties
<1>3. PICK q : Moves(w, q) /\ q.pc # "files" /\ ~Empties(q)
  <2> DEFINE q == [Idle EXCEPT !.pc = "scan"]
  <2>1. q \in Places /\ q.pc = "scan" /\ q.then = "idle"
    BY IdlePlace DEF Places, Steps
  <2>2. at' = [at EXCEPT ![w] = q]
    BY DEF DestroyWipes
  <2> HIDE DEF q
  <2> QED
    BY <2>1, <2>2 DEF Moves, KnowsItsWork, Busy, Empties
<1>4. at'[w] = q /\ (\A v \in Workers : v # w => at'[v] = at[v]) /\ AtTypes'
  BY <1>3, OwnMove
<1> HIDE DEF s
<1>5. \A v \in Workers : Filling(v)'
  BY <1>0, <1>3, <1>4 DEF AInv, Filling
<1>6. OneWriterPerFolder'
  BY <1>0, <1>3, <1>4 DEF AInv, OneWriterPerFolder
<1>7. \A v \in Workers : Empties(at'[v]) => box'[at'[v].s] = "none" \/ at'[v].s \in raised'
  BY <1>0, <1>3, <1>4 DEF AInv
<1>8. \A t \in Stacks \ (torn' \cup raised') : box'[t] # "none" => world'[t]
  BY <1>0, <1>1, <1>2 DEF AInv
<1>9. Spares
  BY <1>0, <1>1, <1>2 DEF Spares
<1> QED
  BY <1>1, <1>4, <1>5, <1>6, <1>7, <1>8, <1>9 DEF AInv, FInv

\* Mkdir fails when the folder exists: whoever makes it is alone with it.
LEMMA MakeStep ==
    ASSUME FInv, AInv, NEW w \in Workers, CreateMakes(w)
    PROVE  FInv' /\ AInv' /\ Spares
<1> DEFINE s == at[w].s
<1>0. /\ w \in Processes /\ at[w] \in Places /\ KnowsItsWork(at[w]) /\ s \in Stacks
      /\ at[w].pc = "mkdir" /\ OwnTypes'
      /\ port' = port /\ box' = box /\ torn' = torn /\ raised' = raised
  BY HasItsStack DEF Busy, CreateMakes, FInv, OwnTypes
<1>1. CASE /\ folder[s] = "none"
           /\ folder' = [folder EXCEPT ![s] = "bare"]
           /\ world' = [world EXCEPT ![s] = TRUE]
           /\ at' = [at EXCEPT ![w].pc = "files", ![w].data = ~world[s]]
  <2> DEFINE q == [at[w] EXCEPT !.pc = "files", !.data = ~world[s]]
  <2>1. world[s] \in BOOLEAN
    BY <1>0 DEF FInv, HostTypes
  <2>2. /\ q \in Places /\ q.pc = "files" /\ q.s = s /\ q.then = at[w].then /\ q.data = ~world[s]
        /\ q.copy = at[w].copy
    BY <1>0, <2>1 DEF Places, Steps
  <2>3. at' = [at EXCEPT ![w] = q]
    BY <1>1
  <2> HIDE DEF q
  <2>4. Moves(w, q)
    BY <1>0, <2>2, <2>3 DEF Moves, KnowsItsWork
  <2>5. at'[w] = q /\ (\A v \in Workers : v # w => at'[v] = at[v]) /\ AtTypes'
    BY <2>4, OwnMove
  <2>6. /\ HostTypes' /\ folder'[s] = "bare" /\ world'[s] = TRUE
        /\ \A t \in Stacks : t # s => folder'[t] = folder[t] /\ world'[t] = world[t]
    BY <1>0, <1>1 DEF FInv, HostTypes
  <2>7. \A v \in Workers : at[v].pc = "files" => at[v].s \in Stacks
    BY HasItsStack DEF Busy
  <2> HIDE DEF s
  <2>8. s \notin torn \cup raised /\ q.data => box[s] = "none"
    BY <1>0, <2>2 DEF AInv
  <2>9. \A v \in Workers : v # w /\ at[v].pc = "files" => at[v].s # s \/ s \in torn
    BY <1>1 DEF AInv, Filling
  <2>10. \A v \in Workers : Filling(v)'
    <3>1. Filling(w)'
      BY <1>0, <2>2, <2>5, <2>6, <2>8 DEF Filling
    <3>2. ASSUME NEW v \in Workers, v # w PROVE Filling(v)'
      BY <1>0, <2>5, <2>6, <2>7, <2>9, <3>2 DEF AInv, Filling
    <3> QED
      BY <3>1, <3>2
  <2>11. OneWriterPerFolder'
    BY <1>0, <2>2, <2>5, <2>9 DEF AInv, OneWriterPerFolder
  <2>12. \A v \in Workers : Empties(at'[v]) => box'[at'[v].s] = "none" \/ at'[v].s \in raised'
    BY <1>0, <2>2, <2>5 DEF AInv, Empties, s
  <2>13. \A t \in Stacks \ (torn' \cup raised') : box'[t] # "none" => world'[t]
    BY <1>0, <2>6 DEF AInv
  <2>14. Spares
    BY <1>0, <1>1, <2>6 DEF Spares
  <2> QED
    BY <1>0, <2>5, <2>6, <2>10, <2>11, <2>12, <2>13, <2>14 DEF AInv, FInv
<1>2. CASE GivesUp(w) /\ UNCHANGED <<folder, world>>
  <2>1. PICK q : Quiet(w, q)
    BY <1>2, GivesUpQuietly
  <2>2. UNCHANGED outside
    BY <1>0, <1>2 DEF outside
  <2>3. AtTypes'
    BY <2>1, OwnMove DEF Quiet
  <2>4. HostTypes'
    BY <2>2 DEF FInv, HostTypes, outside
  <2> QED
    BY <1>0, <2>1, <2>2, <2>3, <2>4, QuietKeeps, QuietSpares DEF FInv
<1> QED
  BY <1>1, <1>2 DEF CreateMakes

LEMMA WriteStep ==
    ASSUME FInv, AInv, NEW w \in Workers, CreateWrites(w)
    PROVE  FInv' /\ AInv' /\ Spares
<1> DEFINE s == at[w].s
<1>0. /\ w \in Processes /\ at[w] \in Places /\ s \in Stacks /\ at[w].pc = "files"
      /\ box' = box /\ torn' = torn /\ raised' = raised
  BY HasItsStack DEF Busy, CreateWrites
<1>1. OwnTypes'
  BY DEF CreateWrites, FInv, OwnTypes
<1>2. /\ folder' = [folder EXCEPT ![s] = "whole"] \/ folder' = [folder EXCEPT ![s] = "none"]
      /\ world' = world \/ world' = [world EXCEPT ![s] = @ /\ ~at[w].data]
      /\ port' = port \/ port' = [port EXCEPT ![s] = at[w].copy.port]
  BY DEF CreateWrites
<1>3. PICK q : Moves(w, q) /\ q.pc # "files" /\ ~Empties(q)
  <2>1. CASE at' = [at EXCEPT ![w] = [Idle EXCEPT !.pc = "scan"]]
    <3> DEFINE q == [Idle EXCEPT !.pc = "scan"]
    <3>1. q \in Places /\ q.pc = "scan" /\ q.then = "idle"
      BY IdlePlace DEF Places, Steps
    <3>2. at' = [at EXCEPT ![w] = q]
      BY <2>1
    <3> HIDE DEF q
    <3> QED
      BY <3>1, <3>2 DEF Moves, KnowsItsWork, Busy, Empties
  <2>2. CASE GivesUp(w)
    BY <1>0, <2>2, GoesIdle DEF FInv, GivesUp, Empties
  <2> QED
    BY <2>1, <2>2 DEF CreateWrites
<1>4. at'[w] = q /\ (\A v \in Workers : v # w => at'[v] = at[v]) /\ AtTypes'
  BY <1>3, OwnMove
<1>5. HostTypes'
  <2>1. at[w].copy.port \in Ports
    BY <1>0, HasItsStack DEF KnowsItsWork, Busy
  <2>2. port' \in [Stacks -> Ports]
    BY <1>2, <2>1 DEF FInv, HostTypes
  <2>3. folder' \in [Stacks -> {"none", "bare", "whole", "broken"}]
    BY <1>2 DEF FInv, HostTypes
  <2>4. world' \in [Stacks -> BOOLEAN]
    BY <1>2 DEF FInv, HostTypes
  <2> QED
    BY <1>0, <2>2, <2>3, <2>4 DEF FInv, HostTypes
<1>6. /\ \A t \in Stacks : t # s => folder'[t] = folder[t] /\ world'[t] = world[t]
      /\ world[s] => world'[s] \/ at[w].data
  BY <1>2, HasItsStack, <1>0 DEF FInv, HostTypes, Busy
<1>7. \A v \in Workers : at[v].pc = "files" => at[v].s \in Stacks
  BY HasItsStack DEF Busy
<1>8. s \notin torn => folder[s] = "bare" /\ (at[w].data /\ s \notin raised => box[s] = "none")
  BY <1>0 DEF AInv, Filling
<1> HIDE DEF s
<1>9. \A v \in Workers : v # w /\ at[v].pc = "files" => at[v].s # s \/ s \in torn
  BY <1>0 DEF AInv, OneWriterPerFolder, s
<1>10. \A v \in Workers : Filling(v)'
  BY <1>0, <1>3, <1>4, <1>6, <1>7, <1>9 DEF AInv, Filling
<1>11. OneWriterPerFolder'
  BY <1>0, <1>3, <1>4 DEF AInv, OneWriterPerFolder
<1>12. \A v \in Workers : Empties(at'[v]) => box'[at'[v].s] = "none" \/ at'[v].s \in raised'
  BY <1>0, <1>3, <1>4 DEF AInv
<1>13. \A t \in Stacks \ (torn' \cup raised') : box'[t] # "none" => world'[t]
  BY <1>0, <1>6, <1>8 DEF AInv
<1>14. Spares
  <2>1. ASSUME NEW t \in Stacks \ (torn \cup raised), box[t] = "running"
        PROVE  /\ world[t] => world'[t]
               /\ folder[t] = "whole" => folder'[t] # "none"
               /\ box'[t] # "none"
    BY <1>0, <1>6, <1>8, <2>1
  <2> QED
    BY <2>1 DEF Spares
<1> QED
  BY <1>1, <1>4, <1>5, <1>10, <1>11, <1>12, <1>13, <1>14 DEF AInv, FInv

\* Other tools, Docker and a deploy: they leave folders being filled alone, and
\* a container that appears where there should be none is remembered.
LEMMA HostStep ==
    ASSUME FInv, AInv, HostNext
    PROVE  FInv' /\ AInv' /\ Spares
<1>0. PICK s \in Stacks : \/ FolderGoes(s) \/ FolderComes(s) \/ FileEdited(s)
                          \/ BoxMade(s) \/ BoxStarts(s) \/ BoxStops(s)
  BY DEF HostNext
<1>1. /\ at' = at /\ torn' = torn /\ entry' = entry /\ lastScan' = lastScan /\ watch' = watch
      /\ todo' = todo /\ spare' \in [changes: SUBSET ChangeKinds, faults: Nat]
      /\ raised \subseteq raised' /\ raised' \subseteq raised \cup {s}
  BY <1>0 DEF FolderGoes, FolderComes, FileEdited, BoxMade, BoxStarts, BoxStops, Host, Changes,
     FInv, OwnTypes
<1>2. OwnTypes' /\ AtTypes'
  BY <1>1 DEF FInv, OwnTypes, AtTypes
<1>3. \A w \in Workers : at[w].pc \in Busy \/ Empties(at[w]) => at[w].s \in Stacks
  BY DEF FInv, AtTypes, Processes, KnowsItsWork, Empties, Busy
<1>4. CASE FolderGoes(s) \/ FolderComes(s) \/ FileEdited(s)
  <2>1. /\ box' = box /\ world' = world /\ folder[s] # "bare"
        /\ \A t \in Stacks : t # s => folder'[t] = folder[t]
        /\ box[s] = "running" => folder'[s] # "none" \/ folder[s] # "whole"
    BY <1>4 DEF FolderGoes, FolderComes, FileEdited, Host, FInv, HostTypes
  <2>2. HostTypes'
    BY <1>1, <1>4, <2>1 DEF FolderGoes, FolderComes, FileEdited, Host, FInv, HostTypes
  <2>3. \A w \in Workers : Filling(w)'
    BY <1>1, <1>3, <2>1 DEF AInv, Filling, Busy
  <2>4. OneWriterPerFolder'
    BY <1>1 DEF AInv, OneWriterPerFolder
  <2>5. Spares
    BY <2>1 DEF Spares
  <2>6. AInv'
    BY <1>1, <2>1, <2>3, <2>4 DEF AInv
  <2> QED
    BY <1>2, <2>2, <2>5, <2>6 DEF FInv
<1>5. CASE BoxMade(s) \/ BoxStarts(s) \/ BoxStops(s)
  <2>1. /\ folder' = folder /\ port' = port
        /\ box' \in [Stacks -> {"none", "stopped", "running"}] /\ world' \in [Stacks -> BOOLEAN]
        /\ box'[s] # "none" /\ \A t \in Stacks : t # s => box'[t] = box[t] /\ world'[t] = world[t]
        /\ world[s] => world'[s]
    BY <1>5 DEF BoxMade, BoxStarts, BoxStops, Host, FInv, HostTypes
  <2>2. \/ box[s] # "none" /\ world'[s] = world[s]
        \/ /\ folder[s] = "whole" /\ world'[s]
           /\ \A w \in Workers : at[w].s = s /\ Empties(at[w]) => s \in raised'
    BY <1>5 DEF BoxMade, BoxStarts, BoxStops, Host, FInv, HostTypes
  <2>3. HostTypes'
    BY <1>1, <2>1 DEF FInv, HostTypes
  <2>4. \A w \in Workers : Filling(w)'
    BY <1>1, <1>3, <2>1, <2>2 DEF AInv, Filling, Busy
  <2>5. OneWriterPerFolder'
    BY <1>1 DEF AInv, OneWriterPerFolder
  <2>6. \A w \in Workers : Empties(at'[w]) => box'[at'[w].s] = "none" \/ at'[w].s \in raised'
    <3>1. ASSUME NEW w \in Workers, Empties(at[w])
          PROVE  box'[at[w].s] = "none" \/ at[w].s \in raised'
      <4>1. (box[at[w].s] = "none" \/ at[w].s \in raised) /\ at[w].s \in Stacks
        BY <1>3, <3>1 DEF AInv
      <4> QED
        BY <1>1, <2>1, <2>2, <3>1, <4>1
    <3> QED
      BY <1>1, <3>1
  <2>7. \A t \in Stacks \ (torn' \cup raised') : box'[t] # "none" => world'[t]
    BY <1>1, <2>1, <2>2 DEF AInv
  <2>8. Spares
    BY <2>1 DEF Spares
  <2> QED
    BY <1>2, <2>3, <2>4, <2>5, <2>6, <2>7, <2>8 DEF AInv, FInv
<1> QED
  BY <1>0, <1>4, <1>5

---------------------------------------------------------------------------
(* All of them.                                                            *)

LEMMA QuietStep ==
    ASSUME FInv, AInv, NEW p \in Processes, NEW q, Quiet(p, q), OwnTypes', UNCHANGED outside
    PROVE  FInv' /\ AInv' /\ Spares
<1>1. AtTypes'
  BY MovesTypes DEF FInv, Quiet
<1>2. HostTypes'
  BY DEF FInv, HostTypes, outside
<1> QED
  BY <1>1, <1>2, QuietKeeps, QuietSpares DEF FInv

LEMMA FleetStep == FInv /\ AInv /\ [FleetNext]_fleetVars => FInv' /\ AInv' /\ Spares
<1> SUFFICES ASSUME FInv, AInv, [FleetNext]_fleetVars PROVE FInv' /\ AInv' /\ Spares
  OBVIOUS
<1>1. CASE UNCHANGED fleetVars
  BY <1>1 DEF fleetVars, outside, FInv, HostTypes, OwnTypes, AtTypes, AInv, Filling, OneWriterPerFolder,
     Spares
<1>2. ASSUME NEW p \in Processes, Runs(p) PROVE FInv' /\ AInv' /\ Spares
  <2>1. OwnTypes' /\ UNCHANGED outside /\ \E q : Quiet(p, q)
    BY <1>2, ScanMoves, FoldMoves, MonitorMoves DEF Runs, Rescan
  <2> QED
    BY <2>1, QuietStep
<1>3. ASSUME NEW w \in Workers, Handles(w) PROVE FInv' /\ AInv' /\ Spares
  <2>1. CASE SaveWrites(w) \/ DestroyInspects(w) \/ DestroyUnlists(w) \/ Plan(w)
    <3>1. OwnTypes' /\ UNCHANGED outside /\ \E q : Quiet(w, q)
      BY <2>1, SaveMoves, InspectMoves, UnlistMoves, PlanMoves
    <3> QED
      BY <3>1, QuietStep DEF Processes
  <2> QED
    BY <1>3, <2>1, RemoveStep, MoveStep, WipeStep, MakeStep, WriteStep DEF Handles
<1>4. ASSUME NEW w \in Workers, Requests(w) PROVE FInv' /\ AInv' /\ Spares
  <2>1. OwnTypes' /\ UNCHANGED outside /\ \E q : Quiet(w, q)
    BY <1>4, RequestMoves
  <2> QED
    BY <2>1, QuietStep DEF Processes
<1>5. ASSUME NEW s \in Stacks, MonitorEnds(s) PROVE FInv' /\ AInv' /\ Spares
  <2>1. OwnTypes'
    BY <1>5 DEF MonitorEnds, FInv, OwnTypes
  <2>2. at' = at /\ UNCHANGED outside
    BY <1>5 DEF MonitorEnds
  <2> QED
    BY <2>1, <2>2 DEF outside, FInv, HostTypes, AtTypes, AInv, Filling, OneWriterPerFolder, Spares
<1> QED
  BY <1>1, <1>2, <1>3, <1>4, <1>5, HostStep DEF FleetNext

LEMMA FleetInitially == FleetInit => FInv /\ AInv
<1> SUFFICES ASSUME FleetInit PROVE FInv /\ AInv
  OBVIOUS
<1>1. PICK sc \in Scenarios :
        LET here == {s \in Stacks : sc.ports[s] # 0} IN
        /\ folder = [s \in Stacks |-> IF s \in here THEN "whole" ELSE "none"]
        /\ port = [s \in Stacks |-> IF s \in here THEN sc.ports[s] ELSE Min(Ports)]
        /\ box = [s \in Stacks |-> IF s \in here THEN "stopped" ELSE "none"]
        /\ world = [s \in Stacks |-> s \in here]
        /\ entry = [s \in Stacks |-> IF s \in here THEN [Found EXCEPT !.port = port[s]] ELSE Unlisted]
        /\ lastScan = sc.ports
        /\ watch = [s \in Stacks |-> IF s \in here THEN "live" ELSE "none"]
        /\ at = [p \in Processes |-> Idle]
        /\ todo = sc.asks
        /\ spare = [changes |-> sc.changes, faults |-> sc.faults]
        /\ torn = {} /\ raised = {}
  BY DEF FleetInit
<1>2. /\ sc.ports \in [Stacks -> Ports \cup {0}] /\ sc.asks \in [Workers -> SUBSET Asks]
      /\ sc.changes \in SUBSET ChangeKinds /\ sc.faults \in Nat
  BY FleetAssumption
<1>3. Min(Ports) \in Ports
  <2>1. Ports \in SUBSET Nat /\ Ports # {}
    BY FleetAssumption
  <2> QED
    BY <2>1, LowestPort
<1>4. port \in [Stacks -> Ports]
  BY <1>1, <1>2, <1>3
<1>5. HostTypes
  BY <1>1, <1>4 DEF HostTypes
<1>6. OwnTypes
  <2>1. entry \in [Stacks -> Entries]
    BY <1>1, <1>4, EntryTypes
  <2> QED
    BY <1>1, <1>2, <2>1 DEF OwnTypes, Scans
<1>7. AtTypes
  BY <1>1, IdlePlace DEF AtTypes
<1>8. \A w \in Workers : at[w].pc = "idle" /\ at[w].then = "idle"
  BY <1>1, IdlePlace DEF Processes
<1>9. AInv
  BY <1>1, <1>8 DEF AInv, Filling, OneWriterPerFolder, Empties
<1> QED
  BY <1>5, <1>6, <1>7, <1>9 DEF FInv

LEMMA FleetInvariant == FleetSpec => [](FInv /\ AInv)
BY FleetInitially, FleetStep, PTL DEF FleetSpec

\* The type invariant of Fleet: entries, scans, monitors and what the handlers
\* read are of their kinds, and a create has a port to write.
THEOREM FleetTypeCorrect == FleetSpec => []FleetTypeOK
BY FleetInvariant, FInvSuffices, PTL

\* provision.Apply: however many creates were planned on scans without a stack
\* folder, one of them fills it, unless a destroy takes it away half filled.
THEOREM FoldersHaveOneWriter == FleetSpec => []OneWriterPerFolder
<1>1. AInv => OneWriterPerFolder
  BY DEF AInv
<1> QED
  BY <1>1, FleetInvariant, PTL

\* handleServerDestroy and provision.Apply's undo: whenever a stopped container
\* is started while they are under way, it keeps its world and its folder.  Only
\* one made anew after a destroy removed the old one has no such promise.
THEOREM RunningIsSpared == FleetSpec => OnlyStoppedGoes
<1>1. FInv /\ AInv /\ [FleetNext]_fleetVars => [Spares]_fleetVars
  BY FleetStep
<1> QED
  BY <1>1, FleetInvariant, PTL DEF FleetSpec, OnlyStoppedGoes, Spares
=============================================================================
