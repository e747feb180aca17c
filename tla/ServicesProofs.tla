--------------------------- MODULE ServicesProofs ---------------------------
(***************************************************************************)
(* What the services of MCServices promise, proved for every value of       *)
(* their constants: each first of its own steps (PlayersSpec, ApiSpec, ...) *)
(* and, where a run's property joins two of them, of ServicesSpec.          *)
(***************************************************************************)
EXTENDS MCServices, FiniteSetTheorems, WellFoundedInduction, TLAPS

---------------------------------------------------------------------------
(***************************************************************************)
(* Players: the registry.                                                  *)
(***************************************************************************)

\* A record that is not there is not marked, so that forgetting a registry
\* without records changes nothing.
RecordsHold(r) == r \in Registries /\ \A n \in Names : r[n].at = "none" => r[n] = NoRecord

\* A start begins with nothing written and nothing to write.
DownIsBlank == up = "down" => ~dirty /\ ~wrote /\ ~online /\ probing.pc = "idle"

\* A probe that has not been answered, or whose answer is not acted on yet, has
\* changed nothing: what an earlier one left still holds.
OutageHolds ==
    /\ probing.pc = "answered" /\ online => probing.was
    /\ up = "up" /\ listed /\ ~online /\ ~overtaken
         /\ probing.pc \in {"idle", "asked", "answered"} => Here(reg) = {}

\* Once Close has waited no probe runs that could open a session.
CloseHolds ==
    up \in {"marked", "closed"} /\ listed /\ ~timedOut => probing.pc = "idle" /\ Here(reg) = {}

PlayersInv ==
    /\ PlayersTypeOK
    /\ RecordsHold(reg) /\ RecordsHold(disk)
    /\ DownIsBlank /\ CleanIsSaved /\ OutageHolds /\ CloseHolds

LEMMA AwayIsGood ==
    ASSUME NEW r, RecordsHold(r)
    PROVE  RecordsHold(Away(r)) /\ Here(Away(r)) = {} /\ (Here(r) = {} => Away(r) = r)
<1>1. \A n \in Names : Away(r)[n] = IF r[n].at = "here" THEN [r[n] EXCEPT !.at = "away"] ELSE r[n]
  BY DEF Away
<1>2. \A n \in Names : r[n] \in [at: {"none", "away", "here"}, marked: BOOLEAN]
  BY DEF RecordsHold, Registries
<1>3. \A n \in Names : /\ Away(r)[n] \in [at: {"none", "away", "here"}, marked: BOOLEAN]
                       /\ Away(r)[n].at # "here"
                       /\ Away(r)[n].at = "none" => Away(r)[n] = r[n] /\ r[n].at = "none"
  BY <1>1, <1>2
<1>4. Away(r) \in Registries
  BY <1>3 DEF Registries, Away
<1>5. ASSUME Here(r) = {} PROVE Away(r) = r
  <2>1. \A n \in Names : Away(r)[n] = r[n]
    BY <1>1, <1>5 DEF Here
  <2> QED
    BY <2>1, <1>4 DEF RecordsHold, Registries
<1> QED
  BY <1>3, <1>4, <1>5 DEF RecordsHold, Here

LEMMA BlankIsGood ==
    /\ RecordsHold([n \in Names |-> NoRecord])
    /\ Here([n \in Names |-> NoRecord]) = {}
BY DEF RecordsHold, Registries, NoRecord, Here

\* A save keeps the registry and its file in step, whether it works or not.
LEMMA SaveKeeps ==
    ASSUME PlayersInv, NEW r, RecordsHold(r), NEW changed \in BOOLEAN,
           ~changed => r = reg, Saves(r, changed)
    PROVE  /\ reg' = r /\ RecordsHold(disk') /\ {dirty', wrote'} \subseteq BOOLEAN
           /\ up # "down" /\ ~dirty' => reg' = IF wrote' THEN disk' ELSE Away(disk')
<1>0. /\ RecordsHold(disk) /\ dirty \in BOOLEAN /\ wrote \in BOOLEAN /\ reg' = r
      /\ up # "down" /\ ~dirty => reg = IF wrote THEN disk ELSE Away(disk)
  BY DEF Saves, PlayersInv, CleanIsSaved, PlayersTypeOK
<1>1. CASE disk' = r /\ dirty' = FALSE /\ wrote' = TRUE
  BY <1>0, <1>1
<1>2. CASE dirty' = (dirty \/ changed) /\ UNCHANGED <<disk, wrote>>
  <2>1. CASE dirty \/ changed
    BY <1>0, <1>2, <2>1
  <2>2. CASE ~dirty /\ ~changed
    BY <1>0, <1>2, <2>2
  <2> QED
    BY <2>1, <2>2
<1> QED
  BY <1>1, <1>2 DEF Saves

\* So do SyncPlayers and MarkOffline, which save only what has changed.
LEMMA SyncKeeps ==
    ASSUME PlayersInv, NEW names, Synced(names)
    PROVE  /\ RecordsHold(reg') /\ RecordsHold(disk') /\ {dirty', wrote'} \subseteq BOOLEAN
           /\ up # "down" /\ ~dirty' => reg' = IF wrote' THEN disk' ELSE Away(disk')
<1> DEFINE r == [n \in Names |->
                   IF n \in names THEN [reg[n] EXCEPT !.at = "here"]
                   ELSE IF reg[n].at = "here" THEN [reg[n] EXCEPT !.at = "away"] ELSE reg[n]]
<1>0. \A n \in Names : reg[n] \in [at: {"none", "away", "here"}, marked: BOOLEAN]
  BY DEF PlayersInv, RecordsHold, Registries
<1>1. \A n \in Names : /\ r[n] \in [at: {"none", "away", "here"}, marked: BOOLEAN]
                       /\ r[n].at = "none" => r[n] = reg[n] /\ reg[n].at = "none"
  BY <1>0
<1>2. RecordsHold(r)
  BY <1>1 DEF RecordsHold, Registries, PlayersInv
<1>3. CASE r = reg
  BY <1>3 DEF Synced, Kept, PlayersInv, CleanIsSaved, PlayersTypeOK
<1>4. CASE r # reg
  BY <1>2, <1>4, SaveKeeps DEF Synced
<1> QED
  BY <1>3, <1>4

LEMMA MarkKeeps ==
    ASSUME PlayersInv, MarkOffline
    PROVE  /\ RecordsHold(reg') /\ RecordsHold(disk') /\ {dirty', wrote'} \subseteq BOOLEAN
           /\ up # "down" /\ ~dirty' => reg' = IF wrote' THEN disk' ELSE Away(disk')
           /\ Here(reg') = {}
<1>1. CASE Here(reg) = {}
  BY <1>1 DEF MarkOffline, Kept, PlayersInv, CleanIsSaved, PlayersTypeOK
<1>2. CASE Here(reg) # {}
  <2>1. Saves(Away(reg), TRUE) /\ RecordsHold(Away(reg)) /\ Here(Away(reg)) = {}
    BY <1>2, AwayIsGood DEF MarkOffline, PlayersInv
  <2> QED
    BY <2>1, SaveKeeps
<1> QED
  BY <1>1, <1>2

LEMMA PlayersInitially == PlayersInit => PlayersInv
<1> SUFFICES ASSUME PlayersInit PROVE PlayersInv
  OBVIOUS
<1>1. RecordsHold(reg) /\ RecordsHold(disk) /\ Here(reg) = {} /\ Away(reg) = reg /\ disk = reg
  BY BlankIsGood, AwayIsGood DEF PlayersInit
<1>2. PlayersTypeOK
  BY <1>1 DEF PlayersInit, PlayersTypeOK, RecordsHold, NotProbing
<1>3. DownIsBlank /\ OutageHolds /\ CloseHolds
  BY <1>1 DEF PlayersInit, DownIsBlank, OutageHolds, CloseHolds, NotProbing
<1>4. CleanIsSaved
  BY <1>1 DEF PlayersInit, CleanIsSaved
<1> QED
  BY <1>1, <1>2, <1>3, <1>4 DEF PlayersInv

\* The steps that leave the registry and its file alone.
LEMMA StatusSteps ==
    ASSUME PlayersInv,
           \/ GameChanges \/ ProbeBegins \/ ProbeCancelled \/ ProbeAnswered \/ ProbeIsOnline
           \/ ProbeIsOffline \/ StopHandled \/ StartHandled \/ Unlisted \/ CloseBegins
    PROVE  PlayersInv'
<1> USE DEF PlayersInv, PlayersTypeOK, DownIsBlank, OutageHolds, CloseHolds, NotProbing, Serving
<1>0. /\ UNCHANGED <<reg, disk, dirty, wrote>>
      /\ up' = up \/ (up' = "closing" /\ up = "up")
  BY DEF GameChanges, ProbeBegins, ProbeCancelled, ProbeAnswered, ProbeIsOnline, ProbeIsOffline,
         StopHandled, StartHandled, Unlisted, CloseBegins
<1>1. /\ UNCHANGED <<reg, disk, dirty, wrote>>
      /\ RecordsHold(reg') /\ RecordsHold(disk') /\ Here(reg') = Here(reg)
  BY <1>0
<1>2. CleanIsSaved'
  BY <1>0 DEF CleanIsSaved
<1> HIDE DEF PlayersInv
<1>i. /\ PlayersTypeOK /\ DownIsBlank /\ OutageHolds /\ CloseHolds
  BY DEF PlayersInv
<1>3. ASSUME (PlayersTypeOK /\ DownIsBlank /\ OutageHolds /\ CloseHolds)' PROVE PlayersInv'
  BY <1>1, <1>2, <1>3 DEF PlayersInv
<1>4. CASE GameChanges
  BY <1>i, <1>1, <1>3, <1>4 DEF GameChanges
<1>5. CASE ProbeBegins
  BY <1>i, <1>1, <1>3, <1>5 DEF ProbeBegins
<1>6. CASE ProbeCancelled
  BY <1>i, <1>1, <1>3, <1>6 DEF ProbeCancelled
<1>7. CASE ProbeAnswered
  <2>1. /\ probing'.pc = "answered" /\ probing.pc = "asked" /\ probing'.was = online
        /\ probing' \in [pc: {"answered"}, names: SUBSET Names, ok: BOOLEAN, was: BOOLEAN]
        /\ UNCHANGED <<game, online, stopFlag, listed, up, timedOut, overtaken>>
    <3>1. /\ game.names \in SUBSET Names /\ {} \in SUBSET Names
          /\ online \in BOOLEAN /\ TRUE \in BOOLEAN /\ FALSE \in BOOLEAN
      BY <1>i
    <3>2. PICK names \in SUBSET Names, ok \in BOOLEAN :
             probing' = [pc |-> "answered", names |-> names, ok |-> ok, was |-> online]
      BY <1>7, <3>1, Zenon DEF ProbeAnswered
    <3>3. /\ probing.pc = "asked"
          /\ UNCHANGED <<game, online, stopFlag, listed, up, timedOut, overtaken>>
      BY <1>7 DEF ProbeAnswered
    <3> QED
      BY <3>1, <3>2, <3>3
  <2> QED
    BY <1>i, <1>1, <1>3, <2>1
<1>8. CASE ProbeIsOnline
  BY <1>i, <1>1, <1>3, <1>8 DEF ProbeIsOnline
<1>9. CASE ProbeIsOffline
  BY <1>i, <1>1, <1>3, <1>9 DEF ProbeIsOffline
<1>10. CASE StopHandled
  BY <1>i, <1>1, <1>3, <1>10 DEF StopHandled
<1>11. CASE StartHandled
  BY <1>i, <1>1, <1>3, <1>11 DEF StartHandled
<1>12. CASE Unlisted
  BY <1>i, <1>1, <1>3, <1>12 DEF Unlisted
<1>13. CASE CloseBegins
  BY <1>i, <1>1, <1>3, <1>13 DEF CloseBegins
<1> QED
  BY <1>4, <1>5, <1>6, <1>7, <1>8, <1>9, <1>10, <1>11, <1>12, <1>13

\* What the steps that save have in common: the registry and the file are good
\* and in step; who is online and what runs is theirs to show.
LEMMA SavedWell ==
    ASSUME PlayersInv, RecordsHold(reg'), RecordsHold(disk'), {dirty', wrote'} \subseteq BOOLEAN,
           up # "down",
           up # "down" /\ ~dirty' => reg' = IF wrote' THEN disk' ELSE Away(disk'),
           up' \in {"up", "closing", "marked", "closed"},
           game' = game, probing' \in [pc: {"idle", "asked", "answered", "synced", "lost"},
                                       names: SUBSET Names, ok: BOOLEAN, was: BOOLEAN],
           {online', stopFlag', listed', timedOut', overtaken'} \subseteq BOOLEAN,
           OutageHolds', CloseHolds'
    PROVE  PlayersInv'
<1>1. PlayersTypeOK'
  BY DEF PlayersInv, PlayersTypeOK, RecordsHold
<1>2. DownIsBlank' /\ CleanIsSaved'
  BY DEF DownIsBlank, CleanIsSaved
<1> QED
  BY <1>1, <1>2 DEF PlayersInv

LEMMA MarkedHere ==
    ASSUME PlayersInv, NEW n \in Names, NEW r,
           \/ /\ reg[n].at # "none" /\ \E marked \in BOOLEAN : r = [reg EXCEPT ![n].marked = marked]
           \/ r = [reg EXCEPT ![n] = [at |-> IF @.at = "none" THEN "away" ELSE @.at, marked |-> TRUE]]
    PROVE  RecordsHold(r) /\ Here(r) = Here(reg)
<1>0. \A m \in Names : reg[m] \in [at: {"none", "away", "here"}, marked: BOOLEAN]
  BY DEF PlayersInv, RecordsHold, Registries
<1>1. /\ r \in [Names -> [at: {"none", "away", "here"}, marked: BOOLEAN]]
      /\ \A m \in Names \ {n} : r[m] = reg[m]
      /\ r[n].at # "none" /\ (r[n].at = "here" <=> reg[n].at = "here")
  <2>1. reg \in [Names -> [at: {"none", "away", "here"}, marked: BOOLEAN]]
    BY DEF PlayersInv, RecordsHold, Registries
  <2>2. CASE /\ reg[n].at # "none"
             /\ \E marked \in BOOLEAN : r = [reg EXCEPT ![n].marked = marked]
    BY <2>1, <2>2
  <2>3. CASE r = [reg EXCEPT ![n] = [at |-> IF @.at = "none" THEN "away" ELSE @.at, marked |-> TRUE]]
    BY <1>0, <2>1, <2>3
  <2> QED
    BY <2>2, <2>3
<1> QED
  BY <1>1 DEF RecordsHold, Registries, Here, PlayersInv

LEMMA SavingSteps ==
    ASSUME PlayersInv,
           \/ ProbeSyncs \/ ProbeEndsSessions \/ Forgets \/ Flushes
           \/ CloseMarks \/ CloseFlushes \/ \E n \in Names : SteamIDSeen(n) \/ Marks(n)
    PROVE  PlayersInv'
<1>0. /\ PlayersTypeOK /\ OutageHolds /\ CloseHolds /\ RecordsHold(reg) /\ RecordsHold(disk)
      /\ probing \in [pc: {"idle", "asked", "answered", "synced", "lost"},
                      names: SUBSET Names, ok: BOOLEAN, was: BOOLEAN]
      /\ {online, stopFlag, dirty, listed, timedOut, overtaken, wrote} \subseteq BOOLEAN
      /\ up \in {"up", "closing", "marked", "closed", "down"}
      /\ DownIsBlank
  BY DEF PlayersInv, PlayersTypeOK
<1> USE DEF OutageHolds, CloseHolds, Serving, NotProbing
<1>1. CASE ProbeSyncs
  <2>1. /\ RecordsHold(reg') /\ RecordsHold(disk') /\ {dirty', wrote'} \subseteq BOOLEAN
        /\ up # "down" /\ ~dirty' => reg' = IF wrote' THEN disk' ELSE Away(disk')
    BY <1>1, SyncKeeps DEF ProbeSyncs
  <2>2. /\ probing' = [probing EXCEPT !.pc = "synced"] /\ probing.pc = "answered"
        /\ UNCHANGED <<game, online, stopFlag, listed, up, timedOut, overtaken>>
    BY <1>1 DEF ProbeSyncs
  <2> QED
    BY <1>0, <2>1, <2>2, SavedWell DEF DownIsBlank
<1>2. CASE ProbeEndsSessions
  <2>1. /\ RecordsHold(reg') /\ RecordsHold(disk') /\ {dirty', wrote'} \subseteq BOOLEAN
        /\ up # "down" /\ ~dirty' => reg' = IF wrote' THEN disk' ELSE Away(disk')
        /\ Here(reg') = {}
    BY <1>2, MarkKeeps DEF ProbeEndsSessions
  <2>2. /\ probing' = NotProbing /\ probing.pc = "lost" /\ overtaken' = FALSE
        /\ UNCHANGED <<game, online, stopFlag, listed, up, timedOut>>
    BY <1>2 DEF ProbeEndsSessions
  <2> QED
    BY <1>0, <2>1, <2>2, SavedWell DEF DownIsBlank
<1>3. CASE Forgets
  <2> DEFINE r == [n \in Names |-> NoRecord]
             changed == \E n \in Names : reg[n].at # "none"
  <2>1. RecordsHold(r) /\ Here(r) = {}
    BY BlankIsGood
  <2>2. ~changed => r = reg
    <3>1. ASSUME ~changed PROVE \A n \in Names : reg[n] = NoRecord
      BY <1>0, <3>1 DEF RecordsHold
    <3> QED
      BY <1>0, <3>1 DEF RecordsHold, Registries
  <2>3. Saves(r, changed) /\ changed \in BOOLEAN
    BY <1>3 DEF Forgets
  <2>4. /\ UNCHANGED <<game, probing, online, stopFlag, listed, up, timedOut, overtaken>>
        /\ up \in {"up", "closing"}
    BY <1>3 DEF Forgets
  <2> HIDE DEF r, changed
  <2>5. /\ reg' = r /\ RecordsHold(disk') /\ {dirty', wrote'} \subseteq BOOLEAN
        /\ up # "down" /\ ~dirty' => reg' = IF wrote' THEN disk' ELSE Away(disk')
    BY <2>1, <2>2, <2>3, SaveKeeps
  <2> QED
    BY <1>0, <2>1, <2>4, <2>5, SavedWell
<1>4. CASE Flushes
  <2>1. Saves(reg, TRUE) /\ UNCHANGED <<game, probing, online, stopFlag, listed, up, timedOut, overtaken>>
        /\ up = "up"
    BY <1>4 DEF Flushes
  <2>2. /\ reg' = reg /\ RecordsHold(disk') /\ {dirty', wrote'} \subseteq BOOLEAN
        /\ up # "down" /\ ~dirty' => reg' = IF wrote' THEN disk' ELSE Away(disk')
    BY <1>0, <2>1, SaveKeeps
  <2> QED
    BY <1>0, <2>1, <2>2, SavedWell
<1>5. CASE CloseMarks
  <2>1. /\ RecordsHold(reg') /\ RecordsHold(disk') /\ {dirty', wrote'} \subseteq BOOLEAN
        /\ up # "down" /\ ~dirty' => reg' = IF wrote' THEN disk' ELSE Away(disk')
        /\ listed => Here(reg') = {}
    <3>1. CASE listed
      BY <1>5, <3>1, MarkKeeps DEF CloseMarks
    <3>2. CASE ~listed
      BY <1>0, <1>5, <3>2 DEF CloseMarks, Kept, PlayersInv, CleanIsSaved
    <3> QED
      BY <3>1, <3>2
  <2>2. /\ up = "closing" /\ up' = "marked" /\ timedOut' = (probing.pc # "idle")
        /\ UNCHANGED <<game, probing, online, stopFlag, listed, overtaken>>
    BY <1>5 DEF CloseMarks
  <2>3. OutageHolds' /\ CloseHolds'
    BY <1>0, <2>1, <2>2
  <2> QED
    BY <1>0, <2>1, <2>2, <2>3, SavedWell
<1>6. CASE CloseFlushes
  <2>1. /\ reg' = reg /\ RecordsHold(disk') /\ {dirty', wrote'} \subseteq BOOLEAN
        /\ up # "down" /\ ~dirty' => reg' = IF wrote' THEN disk' ELSE Away(disk')
    <3>1. CASE dirty
      BY <1>0, <1>6, <3>1, SaveKeeps DEF CloseFlushes
    <3>2. CASE ~dirty
      BY <1>0, <1>6, <3>2 DEF CloseFlushes, Kept, PlayersInv, CleanIsSaved
    <3> QED
      BY <3>1, <3>2
  <2>2. /\ up = "marked" /\ up' = "closed"
        /\ UNCHANGED <<game, probing, online, stopFlag, listed, timedOut, overtaken>>
    BY <1>6 DEF CloseFlushes
  <2> QED
    BY <1>0, <2>1, <2>2, SavedWell
<1>7. ASSUME NEW n \in Names, SteamIDSeen(n) PROVE PlayersInv'
  <2>1. RecordsHold(reg') /\ Here(reg') = Here(reg)
    BY <1>7, MarkedHere DEF SteamIDSeen
  <2>2. /\ dirty' = TRUE /\ up = "up"
        /\ UNCHANGED <<game, probing, online, stopFlag, disk, wrote, listed, up, timedOut, overtaken>>
    BY <1>7 DEF SteamIDSeen
  <2> QED
    BY <1>0, <2>1, <2>2, SavedWell
<1>8. ASSUME NEW n \in Names, Marks(n) PROVE PlayersInv'
  <2>1. PICK marked \in BOOLEAN : Saves([reg EXCEPT ![n].marked = marked], TRUE)
    BY <1>8 DEF Marks
  <2>2. /\ reg[n].at # "none" /\ up \in {"up", "closing"}
        /\ UNCHANGED <<game, probing, online, stopFlag, listed, up, timedOut, overtaken>>
    BY <1>8 DEF Marks
  <2>3. RecordsHold([reg EXCEPT ![n].marked = marked]) /\ Here([reg EXCEPT ![n].marked = marked]) = Here(reg)
    BY <2>2, MarkedHere
  <2>4. /\ reg' = [reg EXCEPT ![n].marked = marked] /\ RecordsHold(disk')
        /\ {dirty', wrote'} \subseteq BOOLEAN
        /\ up # "down" /\ ~dirty' => reg' = IF wrote' THEN disk' ELSE Away(disk')
    BY <2>1, <2>3, SaveKeeps
  <2> QED
    BY <1>0, <2>2, <2>3, <2>4, SavedWell
<1> QED
  BY <1>1, <1>2, <1>3, <1>4, <1>5, <1>6, <1>7, <1>8

LEMMA PlayersStep == PlayersInv /\ [PlayersNext]_playersVars => PlayersInv'
<1> SUFFICES ASSUME PlayersInv, [PlayersNext]_playersVars PROVE PlayersInv'
  OBVIOUS
<1>1. CASE ProcessEnds
  <2>1. /\ up' = "down" /\ ~dirty' /\ ~wrote' /\ ~online' /\ probing' = NotProbing
        /\ stopFlag' = FALSE /\ timedOut' = FALSE /\ overtaken' = FALSE /\ dirty' = FALSE
        /\ wrote' = FALSE /\ online' = FALSE
        /\ reg' = [n \in Names |-> NoRecord] /\ UNCHANGED <<game, disk, listed>>
    BY <1>1 DEF ProcessEnds
  <2>2. RecordsHold(reg')
    BY <2>1, BlankIsGood
  <2>3. PlayersTypeOK'
    BY <2>1, <2>2 DEF PlayersInv, PlayersTypeOK, RecordsHold, NotProbing
  <2> QED
    BY <2>1, <2>2, <2>3 DEF PlayersInv, DownIsBlank, CleanIsSaved, OutageHolds, CloseHolds, NotProbing
<1>2. CASE ProcessStarts
  <2>0. /\ PlayersTypeOK /\ DownIsBlank /\ RecordsHold(disk)
    BY DEF PlayersInv
  <2>1. PICK found \in {disk, [n \in Names |-> NoRecord]} : disk' = found /\ reg' = Away(found)
    BY <1>2 DEF ProcessStarts
  <2>2. RecordsHold(disk') /\ RecordsHold(reg') /\ Here(reg') = {} /\ reg' = Away(disk')
    BY <2>0, <2>1, BlankIsGood, AwayIsGood
  <2>3. /\ up = "down" /\ up' = "up"
        /\ UNCHANGED <<game, probing, online, stopFlag, dirty, listed, timedOut, overtaken, wrote>>
    BY <1>2 DEF ProcessStarts
  <2>4. PlayersTypeOK'
    BY <2>0, <2>2, <2>3 DEF PlayersTypeOK, RecordsHold
  <2> QED
    BY <2>0, <2>2, <2>3, <2>4 DEF PlayersInv, DownIsBlank, CleanIsSaved, OutageHolds, CloseHolds
<1>3. CASE UNCHANGED playersVars
  BY <1>3 DEF playersVars, PlayersInv, PlayersTypeOK, DownIsBlank, CleanIsSaved, OutageHolds, CloseHolds
<1> QED
  BY <1>1, <1>2, <1>3, StatusSteps, SavingSteps DEF PlayersNext, Probe

LEMMA RegistryHolds == PlayersInv => PlayersTypeOK /\ RegistryIsTrue
BY DEF PlayersInv, PlayersTypeOK, RegistryIsTrue, OutageEndsSessions, CloseEndsSessions, CleanIsSaved,
       OutageHolds, CloseHolds

\* Whatever saves fail, and however probes, stops, starts, kills and the game's
\* log meet: a registry that counts as saved is the one on disk, and no session
\* stays open behind an outage the monitor has seen or a Close that has waited
\* for it.
THEOREM RegistryStaysTrue == PlayersSpec => []RegistryIsTrue
BY PlayersInitially, PlayersStep, RegistryHolds, PTL DEF PlayersSpec

---------------------------------------------------------------------------
(***************************************************************************)
(* ApiLimits: buckets, calls and streams.                                  *)
(***************************************************************************)

Full == Burst * Refill

\* What a bucket would let through now.
Worth(b) == Refilled(b).tokens

\* Since any call a bucket let through, the calls let through and what it would
\* let through now are a burst and what has refilled.  A bucket that is
\* forgotten is worth a burst, and was before.
BucketsPay ==
    \A b \in Buckets : \A n \in DOMAIN spent[b] :
        (Len(spent[b]) - n + 1) * Refill + Worth(b) <= Full + apiTick - spent[b][n]

BucketsFit ==
    /\ apiTick \in Nat
    /\ spent \in [Buckets -> Seq(Nat)]
    /\ buckets \in [Buckets -> [tokens: 0..Full, last: Nat, there: BOOLEAN]]
    /\ \A b \in Buckets : buckets[b].last <= apiTick
    /\ BucketsHold /\ BucketsPay

CallsFit ==
    /\ calls \in [Requests -> [pc: {"idle", "taken", "runs"}, key: ApiKeys \cup {NoCall.key},
                               server: ApiServers \cup {NoCall.server}]]
    /\ OneCallPerServer

StreamsOf(pc, key) == {s \in Streams : streams[s].pc = pc /\ streams[s].key = key}

StreamsFit ==
    /\ counter \in [ApiKeys -> Nat]
    /\ streams \in [Streams -> [pc: {"idle", "refused", "open"}, key: ApiKeys \cup {NoStream.key}]]
    /\ \A s \in Streams : streams[s].pc # "idle" => streams[s].key \in ApiKeys
    /\ \A key \in ApiKeys :
          /\ IsFiniteSet(StreamsOf("open", key)) /\ IsFiniteSet(StreamsOf("refused", key))
          /\ Cardinality(StreamsOf("open", key)) <= MaxApiStreams
          /\ counter[key] = Cardinality(StreamsOf("open", key))
                            + Cardinality(StreamsOf("refused", key))

ApiInv == BucketsFit /\ CallsFit /\ StreamsFit

LEMMA FullIsNat == Full \in Nat /\ Burst \in Nat \ {0} /\ Refill \in Nat \ {0} /\ Refill <= Full
BY ApiAssumption DEF Full

LEMMA WorthIs ==
    ASSUME BucketsFit, NEW b \in Buckets
    PROVE  /\ Worth(b) \in 0..Full
           /\ Worth(b) = IF ~buckets[b].there THEN Full
                         ELSE IF Full < buckets[b].tokens + (apiTick - buckets[b].last) THEN Full
                         ELSE buckets[b].tokens + (apiTick - buckets[b].last)
           /\ Refilled(b) = [tokens |-> Worth(b), last |-> apiTick, there |-> TRUE]
<1>0. /\ buckets[b] \in [tokens: 0..Full, last: Nat, there: BOOLEAN]
      /\ buckets[b].last <= apiTick /\ apiTick \in Nat
  BY DEF BucketsFit
<1>1. Worth(b) = IF ~buckets[b].there THEN Full
                 ELSE IF Full < buckets[b].tokens + (apiTick - buckets[b].last) THEN Full
                 ELSE buckets[b].tokens + (apiTick - buckets[b].last)
  BY DEF Worth, Refilled, Smaller, Full
<1>2. Worth(b) \in 0..Full
  BY <1>0, <1>1, FullIsNat
<1>3. Refilled(b) = [tokens |-> Worth(b), last |-> apiTick, there |-> TRUE]
  BY <1>1 DEF Refilled, Smaller, Full
<1> QED
  BY <1>1, <1>2, <1>3

\* What one more call adds.
LEMMA OneMore ==
    ASSUME NEW k \in Int
    PROVE  (k + 1) * Refill = k * Refill + Refill /\ k * Refill \in Int
BY FullIsNat

LEMMA TickPays ==
    ASSUME ApiInv, ApiTickPasses
    PROVE  BucketsFit'
<1>0. /\ BucketsFit /\ UNCHANGED <<buckets, spent>> /\ apiTick' = apiTick + 1 /\ apiTick \in Nat
      /\ spent \in [Buckets -> Seq(Nat)]
  BY DEF ApiInv, BucketsFit, ApiTickPasses
<1>1. ASSUME NEW b \in Buckets
      PROVE  buckets'[b].last <= apiTick' /\ Worth(b)' \in Int /\ Worth(b)' <= Worth(b) + 1
  <2>1. /\ buckets[b] \in [tokens: 0..Full, last: Nat, there: BOOLEAN]
        /\ buckets[b].last <= apiTick
    BY <1>0 DEF BucketsFit
  <2>2. Worth(b)' = IF ~buckets'[b].there THEN Full
                    ELSE IF Full < buckets'[b].tokens + (apiTick' - buckets'[b].last) THEN Full
                    ELSE buckets'[b].tokens + (apiTick' - buckets'[b].last)
    BY DEF Worth, Refilled, Smaller, Full
  <2> DEFINE t == buckets[b].tokens
             l == buckets[b].last
  <2>3. /\ t \in 0..Full /\ l \in Nat /\ l <= apiTick
        /\ Worth(b)' = IF ~buckets[b].there THEN Full
                       ELSE IF Full < t + (apiTick + 1 - l) THEN Full ELSE t + (apiTick + 1 - l)
        /\ Worth(b) = IF ~buckets[b].there THEN Full
                      ELSE IF Full < t + (apiTick - l) THEN Full ELSE t + (apiTick - l)
    BY <1>0, <2>1, <2>2, WorthIs
  <2> HIDE DEF t, l
  <2>4. Worth(b)' \in Int /\ Worth(b)' <= Worth(b) + 1
    BY <1>0, <2>3, FullIsNat
  <2> QED
    BY <1>0, <2>1, <2>4
<1>2. ASSUME NEW b \in Buckets, NEW n \in DOMAIN spent[b]
      PROVE  (Len(spent[b]) - n + 1) * Refill + Worth(b)' <= Full + apiTick' - spent[b][n]
  <2>1. (Len(spent[b]) - n + 1) * Refill + Worth(b) <= Full + apiTick - spent[b][n]
    BY <1>0 DEF BucketsFit, BucketsPay
  <2>2. spent[b] \in Seq(Nat) /\ spent[b][n] \in Nat /\ Len(spent[b]) - n + 1 \in Int
    BY <1>0
  <2>3. (Len(spent[b]) - n + 1) * Refill \in Int /\ Worth(b) \in Int
    BY <1>0, <2>2, OneMore, WorthIs
  <2> DEFINE c == (Len(spent[b]) - n + 1) * Refill
  <2>4. c + Worth(b) <= Full + apiTick - spent[b][n] /\ c \in Int
    BY <2>1, <2>3
  <2> HIDE DEF c
  <2>5. c + Worth(b)' <= Full + apiTick' - spent[b][n]
    BY <1>0, <1>1, <2>2, <2>3, <2>4, FullIsNat, SMTT(40)
  <2> QED
    BY <2>5 DEF c
<1> QED
  BY <1>0, <1>1, <1>2 DEF BucketsFit, BucketsHold, BucketsPay

LEMMA ForgottenPays ==
    ASSUME ApiInv, NEW b \in Buckets, BucketForgotten(b)
    PROVE  BucketsFit'
<1>0. /\ BucketsFit /\ UNCHANGED <<spent, apiTick>> /\ apiTick \in Nat
      /\ buckets' = [buckets EXCEPT ![b] = NoBucket]
      /\ buckets[b].there /\ apiTick - buckets[b].last > Idle
      /\ buckets \in [Buckets -> [tokens: 0..Full, last: Nat, there: BOOLEAN]]
  BY DEF ApiInv, BucketsFit, BucketForgotten
<1>1. NoBucket \in [tokens: 0..Full, last: Nat, there: BOOLEAN] /\ NoBucket.last <= apiTick
  BY <1>0, FullIsNat DEF NoBucket
<1>2. Worth(b) = Full
  <2>1. buckets[b].tokens \in Nat /\ buckets[b].last \in Nat
    BY <1>0, FullIsNat
  <2>2. Full < buckets[b].tokens + (apiTick - buckets[b].last)
    BY <1>0, <2>1, FullIsNat, ApiAssumption DEF Full
  <2> QED
    BY <1>0, <2>2, WorthIs
<1>3. ASSUME NEW a \in Buckets PROVE Worth(a)' = Worth(a)
  <2>1. CASE a = b
    BY <1>0, <1>2, <2>1 DEF Worth, Refilled, NoBucket, Full
  <2>2. CASE a # b
    BY <1>0, <2>2 DEF Worth, Refilled
  <2> QED
    BY <2>1, <2>2
<1>4. /\ buckets' \in [Buckets -> [tokens: 0..Full, last: Nat, there: BOOLEAN]]
      /\ \A a \in Buckets : buckets'[a].last <= apiTick
  BY <1>0, <1>1 DEF BucketsFit
<1> QED
  BY <1>0, <1>3, <1>4 DEF BucketsFit, BucketsHold, BucketsPay

LEMMA SpendPays ==
    ASSUME ApiInv, NEW c \in Requests, NEW key \in ApiKeys, NEW target \in ApiServers,
           CallTakes(c, key, target)
    PROVE  BucketsFit'
<1> DEFINE b == <<key, target>>
           W == Worth(b)
           left1 == IF W >= Refill THEN W - Refill ELSE W
<1>0. /\ BucketsFit /\ apiTick \in Nat /\ apiTick' = apiTick /\ b \in Buckets
      /\ buckets \in [Buckets -> [tokens: 0..Full, last: Nat, there: BOOLEAN]]
      /\ spent \in [Buckets -> Seq(Nat)]
  BY DEF ApiInv, BucketsFit, CallTakes, Buckets
<1>1. /\ \E n \in [tokens: 0..Full, last: Nat, there: BOOLEAN] :
            /\ buckets' = [buckets EXCEPT ![b] = n]
            /\ n.tokens = left1 /\ n.last = apiTick /\ n.there
      /\ spent' = IF W >= Refill THEN [spent EXCEPT ![b] = Append(@, apiTick)] ELSE spent
  <2> DEFINE r == Refilled(b)
             n == [r EXCEPT !.tokens = IF @ >= Refill THEN @ - Refill ELSE @]
  <2>1. r = [tokens |-> W, last |-> apiTick, there |-> TRUE] /\ W \in 0..Full
    BY <1>0, WorthIs
  <2>2. buckets' = [buckets EXCEPT ![b] = n]
    BY DEF CallTakes, Spend
  <2>3. spent' = IF W >= Refill THEN [spent EXCEPT ![b] = Append(@, apiTick)] ELSE spent
    BY DEF CallTakes, Allowed, Worth
  <2> HIDE DEF b, W, r
  <2>4. /\ r \in [tokens: 0..Full, last: Nat, there: BOOLEAN]
        /\ r.tokens = W /\ r.last = apiTick /\ r.there
    BY <1>0, <2>1
  <2>5. left1 \in 0..Full
    BY <2>1, FullIsNat
  <2>6. n.tokens = left1 /\ n.last = apiTick /\ n.there
    BY <2>4
  <2>7. n \in [tokens: 0..Full, last: Nat, there: BOOLEAN]
    <3> HIDE DEF left1
    <3>1. n = [r EXCEPT !.tokens = left1]
      BY <2>4 DEF left1
    <3> QED
      BY <2>4, <2>5, <3>1
  <2> QED
    BY <2>2, <2>3, <2>6, <2>7
<1>9. PICK nb \in [tokens: 0..Full, last: Nat, there: BOOLEAN] :
            /\ buckets' = [buckets EXCEPT ![b] = nb]
            /\ nb.tokens = left1 /\ nb.last = apiTick /\ nb.there
  BY <1>1
<1>2. W \in 0..Full /\ left1 \in 0..Full
  BY <1>0, WorthIs, FullIsNat
<1> HIDE DEF b, left1, W
<1>3. /\ buckets' \in [Buckets -> [tokens: 0..Full, last: Nat, there: BOOLEAN]]
      /\ \A a \in Buckets : buckets'[a].last <= apiTick
      /\ spent' \in [Buckets -> Seq(Nat)]
  BY <1>0, <1>1, <1>2, <1>9 DEF BucketsFit
<1>4. Worth(b)' = left1
  <2>1. Worth(b)' = IF ~buckets'[b].there THEN Full
                    ELSE IF Full < buckets'[b].tokens + (apiTick' - buckets'[b].last) THEN Full
                    ELSE buckets'[b].tokens + (apiTick' - buckets'[b].last)
    BY DEF Worth, Refilled, Smaller, Full
  <2>2. buckets'[b].tokens = left1 /\ buckets'[b].last = apiTick /\ buckets'[b].there
    BY <1>0, <1>9
  <2> QED
    BY <1>0, <1>2, <2>1, <2>2, FullIsNat
<1>5. \A a \in Buckets \ {b} : Worth(a)' = Worth(a) /\ spent'[a] = spent[a]
  BY <1>0, <1>1, <1>9 DEF Worth, Refilled
<1>6. ASSUME NEW n \in DOMAIN spent[b]
      PROVE  (Len(spent'[b]) - n + 1) * Refill + left1 <= Full + apiTick - spent[b][n]
  <2>1. (Len(spent[b]) - n + 1) * Refill + W <= Full + apiTick - spent[b][n]
    BY <1>0 DEF BucketsFit, BucketsPay, W
  <2>2. spent[b] \in Seq(Nat) /\ spent[b][n] \in Nat /\ Len(spent[b]) \in Nat /\ n \in Nat
    BY <1>0
  <2> DEFINE d == (Len(spent[b]) - n + 1) * Refill
  <2>3. CASE W >= Refill
    <3>1. Len(spent'[b]) = Len(spent[b]) + 1 /\ left1 = W - Refill
      BY <1>0, <1>1, <2>2, <2>3 DEF left1
    <3>2. (Len(spent'[b]) - n + 1) * Refill = d + Refill /\ d \in Int
      <4>1. Len(spent'[b]) - n + 1 = (Len(spent[b]) - n + 1) + 1 /\ Len(spent[b]) - n + 1 \in Int
        BY <2>2, <3>1
      <4> QED
        BY <4>1, OneMore
    <3>3. d + W <= Full + apiTick - spent[b][n]
      BY <2>1
    <3> HIDE DEF d
    <3> QED
      BY <1>0, <1>2, <2>2, <3>1, <3>2, <3>3, FullIsNat, SMTT(40)
  <2>4. CASE ~(W >= Refill)
    BY <1>1, <2>1, <2>4 DEF left1
  <2> QED
    BY <2>3, <2>4
<1>7. ASSUME NEW a \in Buckets, NEW n \in DOMAIN spent'[a]
      PROVE  (Len(spent'[a]) - n + 1) * Refill + Worth(a)' <= Full + apiTick' - spent'[a][n]
  <2>1. CASE a # b
    BY <1>0, <1>5, <2>1 DEF BucketsFit, BucketsPay
  <2>2. CASE a = b /\ ~(W >= Refill)
    BY <1>0, <1>1, <1>4, <1>6, <1>7, <2>2
  <2>3. CASE a = b /\ W >= Refill
    <3>1. spent'[b] = Append(spent[b], apiTick) /\ spent[b] \in Seq(Nat)
      BY <1>0, <1>1, <2>3
    <3>2. CASE n = Len(spent[b]) + 1
      <4>1. Len(spent'[b]) - n + 1 = 1 /\ spent'[b][n] = apiTick
        BY <1>0, <3>1, <3>2
      <4>2. Worth(b)' = W - Refill
        BY <1>4, <2>3 DEF left1
      <4> QED
        BY <1>0, <1>2, <2>3, <4>1, <4>2, FullIsNat
    <3>3. CASE n # Len(spent[b]) + 1
      <4>1. n \in DOMAIN spent[b] /\ spent'[b][n] = spent[b][n]
        BY <1>0, <1>7, <2>3, <3>1, <3>3
      <4> QED
        BY <1>0, <1>4, <1>6, <2>3, <4>1
    <3> QED
      BY <3>2, <3>3
  <2> QED
    BY <2>1, <2>2, <2>3
<1>8. ASSUME NEW a \in Buckets, NEW n \in DOMAIN spent'[a], NEW m \in DOMAIN spent'[a], n <= m
      PROVE  (m - n + 1) * Refill <= Full + spent'[a][m] - spent'[a][n]
  <2>1. CASE a # b \/ ~(W >= Refill)
    <3>1. spent'[a] = spent[a]
      BY <1>1, <1>5, <2>1
    <3> QED
      BY <1>8, <3>1 DEF BucketsFit, BucketsHold, Full, ApiInv
  <2>2. CASE a = b /\ W >= Refill
    <3>1. spent'[b] = Append(spent[b], apiTick) /\ spent[b] \in Seq(Nat)
      BY <1>0, <1>1, <2>2
    <3>2. CASE m = Len(spent[b]) + 1
      <4>1. (Len(spent'[b]) - n + 1) * Refill + left1 <= Full + apiTick - spent'[b][n]
        BY <1>0, <1>4, <1>7, <1>8, <2>2
      <4>0. spent'[b] \in Seq(Nat) /\ n \in DOMAIN spent'[b]
        BY <1>0, <1>3, <1>8, <2>2
      <4>2. m = Len(spent'[b]) /\ spent'[b][m] = apiTick /\ m \in Nat
        BY <3>1, <3>2
      <4>5. n \in Nat /\ spent'[b][n] \in Nat
        BY <4>0
      <4> DEFINE d == (m - n + 1) * Refill
      <4>3. d \in Int /\ d + left1 <= Full + apiTick - spent'[b][n]
        <5>1. m - n + 1 \in Int
          BY <4>2, <4>5
        <5>2. d \in Int
          BY <5>1, OneMore
        <5>3. d + left1 <= Full + apiTick - spent'[b][n]
          BY <4>1, <4>2, Zenon
        <5> QED
          BY <5>2, <5>3
      <4>6. left1 \in Nat
        BY <1>2, FullIsNat
      <4> HIDE DEF d
      <4> DEFINE x == spent'[b][n]
                 y == spent'[b][m]
      <4>7. y = apiTick /\ x \in Nat /\ d + left1 <= Full + apiTick - x
        BY <4>2, <4>3, <4>5
      <4>4. d <= Full + y - x
        <5> HIDE DEF x, y
        <5> QED
          BY <1>0, <4>3, <4>6, <4>7, FullIsNat
      <4> QED
        BY <2>2, <4>4 DEF d
    <3>3. CASE m # Len(spent[b]) + 1
      <4>1. /\ m \in DOMAIN spent[b] /\ n \in DOMAIN spent[b]
            /\ spent'[b][m] = spent[b][m] /\ spent'[b][n] = spent[b][n]
        BY <1>0, <1>8, <2>2, <3>1, <3>3, SMTT(40)
      <4> QED
        BY <1>0, <1>8, <2>2, <4>1 DEF BucketsFit, BucketsHold, Full
    <3> QED
      BY <3>2, <3>3
  <2> QED
    BY <2>1, <2>2
<1> QED
  BY <1>0, <1>3, <1>7, <1>8 DEF BucketsFit, BucketsHold, BucketsPay, Full

\* The other actions do not look at a bucket.
LEMMA BucketsStay ==
    ASSUME BucketsFit, UNCHANGED <<apiTick, buckets, spent>>
    PROVE  BucketsFit'
<1>1. \A b \in Buckets : Worth(b)' = Worth(b)
  BY DEF Worth, Refilled
<1> QED
  BY <1>1 DEF BucketsFit, BucketsHold, BucketsPay

LEMMA CallsStay ==
    ASSUME CallsFit, UNCHANGED <<calls, inflight>>
    PROVE  CallsFit'
BY DEF CallsFit, OneCallPerServer

\* A call that begins, is refused or ends marks its own server and no other.
LEMMA CallsStep ==
    ASSUME CallsFit, NEW c \in Requests,
           \/ \E key \in ApiKeys, target \in ApiServers : CallTakes(c, key, target)
           \/ CallEnters(c) \/ CallEnds(c)
    PROVE  CallsFit'
<1> DEFINE Fits == [pc: {"idle", "taken", "runs"}, key: ApiKeys \cup {NoCall.key},
                    server: ApiServers \cup {NoCall.server}]
<1>0. calls \in [Requests -> Fits] /\ NoCall \in Fits /\ NoCall.pc = "idle"
  BY DEF CallsFit, NoCall
<1>1. ASSUME NEW key \in ApiKeys, NEW target \in ApiServers, CallTakes(c, key, target)
      PROVE  CallsFit'
  <2>1. CASE UNCHANGED calls
    BY <1>1, <2>1, CallsStay DEF CallTakes
  <2>2. CASE calls' = [calls EXCEPT ![c] = [pc |-> "taken", key |-> key, server |-> target]]
    <3>1. calls' \in [Requests -> Fits] /\ calls[c].pc = "idle" /\ inflight' = inflight
      BY <1>0, <1>1, <2>2 DEF CallTakes
    <3>2. \A d \in Requests : /\ calls'[d].pc = "runs" <=> calls[d].pc = "runs"
                              /\ calls[d].pc = "runs" => calls'[d] = calls[d]
      BY <1>0, <2>2, <3>1
    <3> QED
      BY <3>1, <3>2 DEF CallsFit, OneCallPerServer
  <2> QED
    BY <1>1, <2>1, <2>2 DEF CallTakes
<1>2. ASSUME CallEnters(c) PROVE CallsFit'
  <2>0. calls[c].pc = "taken"
    BY <1>2 DEF CallEnters
  <2>1. CASE calls[c].server \in inflight
    <3>1. calls' = [calls EXCEPT ![c] = NoCall] /\ inflight' = inflight
      BY <1>2, <2>1 DEF CallEnters
    <3>2. calls' \in [Requests -> Fits]
      BY <1>0, <3>1
    <3>3. \A d \in Requests : /\ calls'[d].pc = "runs" <=> calls[d].pc = "runs"
                              /\ calls[d].pc = "runs" => calls'[d] = calls[d]
      BY <1>0, <2>0, <3>1
    <3> QED
      BY <3>1, <3>2, <3>3 DEF CallsFit, OneCallPerServer
  <2>2. CASE calls[c].server \notin inflight
    <3>1. /\ calls' = [calls EXCEPT ![c].pc = "runs"]
          /\ inflight' = inflight \cup {calls[c].server}
      BY <1>2, <2>2 DEF CallEnters
    <3>2. calls' \in [Requests -> Fits]
      BY <1>0, <3>1
    <3>3. /\ calls'[c].pc = "runs" /\ calls'[c].server = calls[c].server
          /\ \A d \in Requests \ {c} : calls'[d] = calls[d]
      BY <1>0, <3>1
    <3>4. \A d \in Requests : calls[d].pc = "runs" => calls[d].server # calls[c].server
      BY <2>2 DEF CallsFit, OneCallPerServer
    <3>5. \A d, e \in Requests : calls'[d].pc = "runs" /\ calls'[e].pc = "runs"
                                   /\ calls'[d].server = calls'[e].server => d = e
      BY <3>3, <3>4 DEF CallsFit, OneCallPerServer
    <3>6. inflight' = {calls'[d].server : d \in {d \in Requests : calls'[d].pc = "runs"}}
      BY <2>0, <3>1, <3>3 DEF CallsFit, OneCallPerServer
    <3> QED
      BY <3>2, <3>5, <3>6 DEF CallsFit, OneCallPerServer
  <2> QED
    BY <2>1, <2>2
<1>3. ASSUME CallEnds(c) PROVE CallsFit'
  <2>1. /\ calls[c].pc = "runs" /\ inflight' = inflight \ {calls[c].server}
        /\ calls' = [calls EXCEPT ![c] = NoCall]
    BY <1>3 DEF CallEnds
  <2>2. calls' \in [Requests -> Fits]
    BY <1>0, <2>1
  <2>3. calls'[c].pc = "idle" /\ \A d \in Requests \ {c} : calls'[d] = calls[d]
    BY <1>0, <2>1
  <2>4. \A d \in Requests \ {c} : calls[d].pc = "runs" => calls[d].server # calls[c].server
    BY <2>1 DEF CallsFit, OneCallPerServer
  <2>5. \A d, e \in Requests : calls'[d].pc = "runs" /\ calls'[e].pc = "runs"
                                 /\ calls'[d].server = calls'[e].server => d = e
    BY <2>3 DEF CallsFit, OneCallPerServer
  <2>6. inflight' = {calls'[d].server : d \in {d \in Requests : calls'[d].pc = "runs"}}
    BY <2>1, <2>3, <2>4 DEF CallsFit, OneCallPerServer
  <2> QED
    BY <2>2, <2>5, <2>6 DEF CallsFit, OneCallPerServer
<1> QED
  BY <1>1, <1>2, <1>3

LEMMA StreamsStay ==
    ASSUME StreamsFit, UNCHANGED <<counter, streams>>
    PROVE  StreamsFit'
BY DEF StreamsFit, StreamsOf

\* A stream request of a key that begins is counted once, and once given back.
LEMMA StreamBegins ==
    ASSUME StreamsFit, NEW s \in Streams, NEW key \in ApiKeys, StreamCounts(s, key)
    PROVE  StreamsFit'
<1> DEFINE pc == IF counter'[key] > MaxApiStreams THEN "refused" ELSE "open"
           Fits == [pc: {"idle", "refused", "open"}, key: ApiKeys \cup {NoStream.key}]
<1>1. /\ counter' = [counter EXCEPT ![key] = @ + 1] /\ streams[s].pc = "idle"
      /\ streams' = [streams EXCEPT ![s] = [key |-> key, pc |-> pc]]
      /\ counter \in [ApiKeys -> Nat] /\ streams \in [Streams -> Fits]
  BY DEF StreamCounts, StreamsFit
<1>2. counter' \in [ApiKeys -> Nat] /\ counter'[key] = counter[key] + 1
  BY <1>1
<1>3. streams' \in [Streams -> Fits]
  BY <1>1
<1>4. streams'[s].pc = pc /\ streams'[s].key = key /\ \A t \in Streams \ {s} : streams'[t] = streams[t]
  BY <1>1
<1>5. ASSUME NEW p \in {"open", "refused"}, NEW k \in ApiKeys, p # pc \/ k # key
      PROVE  StreamsOf(p, k)' = StreamsOf(p, k)
  BY <1>1, <1>4, <1>5 DEF StreamsOf
<1>6. ASSUME NEW p \in {"open", "refused"}, p = pc
      PROVE  StreamsOf(p, key)' = StreamsOf(p, key) \cup {s} /\ s \notin StreamsOf(p, key)
  BY <1>1, <1>4, <1>6 DEF StreamsOf
<1>7. ASSUME NEW k \in ApiKeys
      PROVE  /\ IsFiniteSet(StreamsOf("open", k)') /\ IsFiniteSet(StreamsOf("refused", k)')
             /\ Cardinality(StreamsOf("open", k)') <= MaxApiStreams
             /\ counter'[k] = Cardinality(StreamsOf("open", k)') + Cardinality(StreamsOf("refused", k)')
  <2> DEFINE O == StreamsOf("open", k)
             R == StreamsOf("refused", k)
             O1 == StreamsOf("open", k)'
             R1 == StreamsOf("refused", k)'
  <2>0. /\ IsFiniteSet(O) /\ IsFiniteSet(R) /\ Cardinality(O) <= MaxApiStreams
        /\ counter[k] = Cardinality(O) + Cardinality(R)
        /\ Cardinality(O) \in Nat /\ Cardinality(R) \in Nat /\ MaxApiStreams \in Nat
    BY FS_CardinalityType, ApiAssumption DEF StreamsFit
  <2>1. CASE k # key
    <3>1. O1 = O /\ R1 = R /\ counter'[k] = counter[k]
      BY <1>1, <1>5, <2>1
    <3> QED
      BY <2>0, <3>1
  <2>2. CASE k = key /\ counter'[key] > MaxApiStreams
    <3>1. O1 = O /\ R1 = R \cup {s} /\ s \notin R
      BY <1>5, <1>6, <2>2
    <3>2. IsFiniteSet(R1) /\ Cardinality(R1) = Cardinality(R) + 1
      BY <2>0, <3>1, FS_AddElement
    <3> HIDE DEF O, R, O1, R1
    <3> QED
      BY <1>2, <2>0, <2>2, <3>1, <3>2 DEF O1, R1
  <2>3. CASE k = key /\ ~(counter'[key] > MaxApiStreams)
    <3>1. R1 = R /\ O1 = O \cup {s} /\ s \notin O
      BY <1>5, <1>6, <2>3
    <3>2. IsFiniteSet(O1) /\ Cardinality(O1) = Cardinality(O) + 1
      BY <2>0, <3>1, FS_AddElement
    <3> HIDE DEF O, R, O1, R1
    <3> QED
      BY <1>2, <2>0, <2>3, <3>1, <3>2 DEF O1, R1
  <2> QED
    BY <2>1, <2>2, <2>3
<1>8. \A t \in Streams : streams'[t].pc # "idle" => streams'[t].key \in ApiKeys
  BY <1>4 DEF StreamsFit
<1> QED
  BY <1>2, <1>3, <1>7, <1>8 DEF StreamsFit

LEMMA StreamGivesBack ==
    ASSUME StreamsFit, NEW s \in Streams, StreamRefused(s) \/ StreamEnds(s)
    PROVE  StreamsFit'
<1> DEFINE key == streams[s].key
           pc == streams[s].pc
           Fits == [pc: {"idle", "refused", "open"}, key: ApiKeys \cup {NoStream.key}]
<1>1. /\ counter' = [counter EXCEPT ![key] = @ - 1] /\ pc \in {"open", "refused"}
      /\ streams' = [streams EXCEPT ![s] = NoStream] /\ key \in ApiKeys
      /\ counter \in [ApiKeys -> Nat] /\ streams \in [Streams -> Fits]
  BY DEF StreamRefused, StreamEnds, StreamsFit
<1>2. NoStream \in Fits /\ NoStream.pc = "idle"
  BY DEF NoStream
<1>3. streams' \in [Streams -> Fits]
  BY <1>1, <1>2
<1>4. streams'[s].pc = "idle" /\ \A t \in Streams \ {s} : streams'[t] = streams[t]
  BY <1>1, <1>2
<1> HIDE DEF key, pc
<1>5. ASSUME NEW p \in {"open", "refused"}, NEW k \in ApiKeys, p # pc \/ k # key
      PROVE  StreamsOf(p, k)' = StreamsOf(p, k)
  BY <1>4, <1>5 DEF StreamsOf, pc, key
<1>6. ASSUME NEW p \in {"open", "refused"}, NEW k \in ApiKeys, p = pc, k = key
      PROVE  StreamsOf(p, k)' = StreamsOf(p, k) \ {s} /\ s \in StreamsOf(p, k)
  BY <1>4, <1>6 DEF StreamsOf, pc, key
<1>7. ASSUME NEW k \in ApiKeys
      PROVE  /\ IsFiniteSet(StreamsOf("open", k)') /\ IsFiniteSet(StreamsOf("refused", k)')
             /\ Cardinality(StreamsOf("open", k)') <= MaxApiStreams
             /\ counter'[k] \in Nat
             /\ counter'[k] = Cardinality(StreamsOf("open", k)') + Cardinality(StreamsOf("refused", k)')
  <2> DEFINE O == StreamsOf("open", k)
             R == StreamsOf("refused", k)
             O1 == StreamsOf("open", k)'
             R1 == StreamsOf("refused", k)'
  <2>0. /\ IsFiniteSet(O) /\ IsFiniteSet(R) /\ Cardinality(O) <= MaxApiStreams
        /\ counter[k] = Cardinality(O) + Cardinality(R) /\ counter[k] \in Nat
        /\ Cardinality(O) \in Nat /\ Cardinality(R) \in Nat /\ MaxApiStreams \in Nat
    BY FS_CardinalityType, ApiAssumption DEF StreamsFit
  <2>1. CASE k # key
    <3>1. O1 = O /\ R1 = R /\ counter'[k] = counter[k]
      BY <1>1, <1>5, <2>1
    <3> QED
      BY <2>0, <3>1
  <2>2. CASE k = key /\ pc = "refused"
    <3>1. O1 = O /\ R1 = R \ {s} /\ s \in R
      BY <1>5, <1>6, <2>2
    <3>2. IsFiniteSet(R1) /\ Cardinality(R1) = Cardinality(R) - 1
      BY <2>0, <3>1, FS_RemoveElement
    <3>3. Cardinality(R1) \in Nat
      BY <3>2, FS_CardinalityType
    <3> HIDE DEF O, R, O1, R1
    <3> QED
      BY <1>1, <2>0, <2>2, <3>1, <3>2, <3>3 DEF O1, R1
  <2>3. CASE k = key /\ pc = "open"
    <3>1. R1 = R /\ O1 = O \ {s} /\ s \in O
      BY <1>5, <1>6, <2>3
    <3>2. IsFiniteSet(O1) /\ Cardinality(O1) = Cardinality(O) - 1
      BY <2>0, <3>1, FS_RemoveElement
    <3>3. Cardinality(O1) \in Nat
      BY <3>2, FS_CardinalityType
    <3> HIDE DEF O, R, O1, R1
    <3> QED
      BY <1>1, <2>0, <2>3, <3>1, <3>2, <3>3 DEF O1, R1
  <2> QED
    BY <1>1, <2>1, <2>2, <2>3
<1>8. counter' \in [ApiKeys -> Nat]
  BY <1>1, <1>7
<1>9. \A t \in Streams : streams'[t].pc # "idle" => streams'[t].key \in ApiKeys
  BY <1>4 DEF StreamsFit
<1> QED
  BY <1>3, <1>7, <1>8, <1>9 DEF StreamsFit

LEMMA ApiInitially == ApiInit => ApiInv
<1> SUFFICES ASSUME ApiInit PROVE ApiInv
  OBVIOUS
<1>1. BucketsFit
  <2>1. NoBucket \in [tokens: 0..Full, last: Nat, there: BOOLEAN] /\ NoBucket.last = 0
    BY FullIsNat DEF NoBucket
  <2>2. spent = [b \in Buckets |-> << >>] /\ apiTick = 0 /\ buckets = [b \in Buckets |-> NoBucket]
    BY DEF ApiInit
  <2>3. \A b \in Buckets : spent[b] \in Seq(Nat) /\ DOMAIN spent[b] = {}
    BY <2>2
  <2> QED
    BY <2>1, <2>2, <2>3 DEF BucketsFit, BucketsHold, BucketsPay
<1>2. CallsFit
  BY DEF ApiInit, CallsFit, OneCallPerServer, NoCall
<1>3. StreamsFit
  <2>1. streams = [s \in Streams |-> NoStream] /\ NoStream.pc = "idle" /\ counter = [k \in ApiKeys |-> 0]
        /\ NoStream.key \in ApiKeys \cup {NoStream.key}
    BY DEF ApiInit, NoStream
  <2>2. streams \in [Streams -> [pc: {"idle", "refused", "open"}, key: ApiKeys \cup {NoStream.key}]]
    BY <2>1 DEF NoStream
  <2>3. \A k \in ApiKeys : StreamsOf("open", k) = {} /\ StreamsOf("refused", k) = {}
    BY <2>1 DEF StreamsOf
  <2> QED
    BY <2>1, <2>2, <2>3, FS_EmptySet, ApiAssumption DEF StreamsFit
<1> QED
  BY <1>1, <1>2, <1>3 DEF ApiInv

LEMMA ApiStep == ApiInv /\ [ApiNext]_apiVars => ApiInv'
<1> SUFFICES ASSUME ApiInv, [ApiNext]_apiVars PROVE ApiInv'
  OBVIOUS
<1>0. BucketsFit /\ CallsFit /\ StreamsFit
  BY DEF ApiInv
<1>1. ASSUME ApiTickPasses PROVE ApiInv'
  BY <1>0, <1>1, TickPays, CallsStay, StreamsStay DEF ApiInv, ApiTickPasses
<1>2. ASSUME NEW b \in Buckets, BucketForgotten(b) PROVE ApiInv'
  BY <1>0, <1>2, ForgottenPays, CallsStay, StreamsStay DEF ApiInv, BucketForgotten
<1>3. ASSUME NEW c \in Requests, NEW key \in ApiKeys, NEW target \in ApiServers,
             CallTakes(c, key, target)
      PROVE  ApiInv'
  BY <1>0, <1>3, SpendPays, CallsStep, StreamsStay DEF ApiInv, CallTakes
<1>4. ASSUME NEW c \in Requests, CallEnters(c) \/ CallEnds(c) PROVE ApiInv'
  <2>1. UNCHANGED <<apiTick, buckets, spent>> /\ UNCHANGED <<counter, streams>>
    BY <1>4 DEF CallEnters, CallEnds
  <2> QED
    BY <1>0, <1>4, <2>1, BucketsStay, CallsStep, StreamsStay DEF ApiInv
<1>5. ASSUME NEW s \in Streams, NEW key \in ApiKeys, StreamCounts(s, key) PROVE ApiInv'
  BY <1>0, <1>5, BucketsStay, CallsStay, StreamBegins DEF ApiInv, StreamCounts
<1>6. ASSUME NEW s \in Streams, StreamRefused(s) \/ StreamEnds(s) PROVE ApiInv'
  <2>1. UNCHANGED <<apiTick, buckets, spent>> /\ UNCHANGED <<calls, inflight>>
    BY <1>6 DEF StreamRefused, StreamEnds
  <2> QED
    BY <1>0, <1>6, <2>1, BucketsStay, CallsStay, StreamGivesBack DEF ApiInv
<1>7. ASSUME StreamsStop \/ (\E key \in ApiKeys : KeyRevoked(key)) \/ UNCHANGED apiVars PROVE ApiInv'
  <2>1. /\ UNCHANGED <<apiTick, buckets, spent>> /\ UNCHANGED <<calls, inflight>>
        /\ UNCHANGED <<counter, streams>>
    BY <1>7 DEF StreamsStop, KeyRevoked, apiVars
  <2> QED
    BY <1>0, <2>1, BucketsStay, CallsStay, StreamsStay DEF ApiInv
<1> QED
  BY <1>1, <1>2, <1>3, <1>4, <1>5, <1>6, <1>7 DEF ApiNext

LEMMA ApiHolds == ApiInv => ApiIsLimited
BY DEF ApiInv, BucketsFit, CallsFit, StreamsFit, StreamsOf, ApiIsLimited, StreamsAreCounted

\* Whatever calls, streams, revocations and forgotten buckets meet, no bucket
\* lets through more than a burst and what has refilled, one lifecycle call
\* runs per server, and a key holds no more streams than it may.
THEOREM ApiStaysLimited == ApiSpec => []ApiIsLimited
BY ApiInitially, ApiStep, ApiHolds, PTL DEF ApiSpec

---------------------------------------------------------------------------
(***************************************************************************)
(* SignIn: guesses and set-ups.                                            *)
(***************************************************************************)

\* Each limiter's record is of the attempts it has let through, and locked
\* from the last of them on.
RecordsFit ==
    /\ tick \in Nat
    /\ failures \in [Keys -> [count: Nat, lockedTo: Nat, last: Nat]]
    /\ let \in [Keys -> [number: Nat, at: Nat, gap: Nat]]
    /\ \A k \in Keys :
          /\ failures[k].count = let[k].number /\ failures[k].last = let[k].at
          /\ failures[k].last <= tick
          /\ failures[k].count > Free[k] =>
                failures[k].lockedTo = failures[k].last + Delay(k, failures[k].count)

LoginsFit ==
    logins \in [Logins -> [pc: {"idle", "taken", "waits", "hashes", "sets up", "checked", "made"},
                           from: Keys, what: {"wrong", "right", "barred"}]]

OwnerFits ==
    /\ isSetUp \in BOOLEAN /\ owners = IF isSetUp THEN 1 ELSE 0
    /\ isSetUp /\ code => \E q \in Logins : logins[q].pc = "made"

HashesFit == IsFiniteSet(Hashing) /\ Cardinality(Hashing) <= HashSlots

SignInInv == RecordsFit /\ GuessesAreSpaced /\ LoginsFit /\ OwnerFits /\ HashesFit

LEMMA PowerIsNat == ASSUME NEW n \in 0..6 PROVE 2 ^ n \in Nat
<1>1. /\ 2 ^ 0 \in Nat /\ 2 ^ 1 \in Nat /\ 2 ^ 2 \in Nat /\ 2 ^ 3 \in Nat
      /\ 2 ^ 4 \in Nat /\ 2 ^ 5 \in Nat /\ 2 ^ 6 \in Nat
  OBVIOUS
<1>2. n = 0 \/ n = 1 \/ n = 2 \/ n = 3 \/ n = 4 \/ n = 5 \/ n = 6
  OBVIOUS
<1> QED
  BY <1>1, <1>2, Zenon

LEMMA DelayIsNat ==
    ASSUME NEW k \in Keys, NEW count \in Nat, count > Free[k]
    PROVE  Delay(k, count) \in Nat
<1> DEFINE n == Least(count - Free[k] - 1, 6)
<1>1. n \in 0..6
  BY SignInAssumption DEF Least
<1> HIDE DEF n
<1>2. 2 ^ n \in Nat
  BY <1>1, PowerIsNat
<1>3. Delay(k, count) = Least(2 ^ n, MaxDelay[k])
  BY DEF Delay, n
<1>4. MaxDelay[k] \in Nat
  BY SignInAssumption
<1> QED
  BY <1>2, <1>3, <1>4 DEF Least

RecordFits(k) ==
    /\ failures[k].count = let[k].number /\ failures[k].last = let[k].at
    /\ failures[k].last <= tick
    /\ failures[k].count > Free[k] =>
          failures[k].lockedTo = failures[k].last + Delay(k, failures[k].count)

Spaced(k) == let[k].number - 1 > Free[k] => let[k].gap >= Delay(k, let[k].number - 1)

\* An attempt is let through only where the record is not locked, and counts
\* before anything else happens.
LEMMA TakingIsSpaced ==
    ASSUME RecordsFit, GuessesAreSpaced, NEW k \in Keys, ~Locked(k), Takes(k), tick' = tick
    PROVE  RecordsFit' /\ GuessesAreSpaced'
<1> DEFINE F == failures[k]
           L == let[k]
           F1 == Counted(k)
           L1 == LetThrough(k)
<1>1. /\ tick \in Nat /\ F \in [count: Nat, lockedTo: Nat, last: Nat]
      /\ L \in [number: Nat, at: Nat, gap: Nat] /\ Free[k] \in Nat /\ Quiet \in Nat
      /\ failures \in [Keys -> [count: Nat, lockedTo: Nat, last: Nat]]
      /\ let \in [Keys -> [number: Nat, at: Nat, gap: Nat]]
      /\ F.count = L.number /\ F.last = L.at /\ F.last <= tick
      /\ F.count > Free[k] => F.lockedTo = F.last + Delay(k, F.count)
  BY SignInAssumption DEF RecordsFit
<1>2. failures' = [failures EXCEPT ![k] = F1] /\ let' = [let EXCEPT ![k] = L1]
  BY DEF Takes
<1>3. /\ F1.count = (IF Forgotten(k) THEN 0 ELSE F.count) + 1 /\ F1.last = tick
      /\ F1.lockedTo = IF F1.count > Free[k] THEN tick + Delay(k, F1.count)
                       ELSE IF F1.count = 1 THEN 0 ELSE F.lockedTo
      /\ F1 = [count |-> F1.count, last |-> F1.last, lockedTo |-> F1.lockedTo]
  BY DEF Counted
<1>4. /\ L1.number = (IF Forgotten(k) THEN 0 ELSE L.number) + 1 /\ L1.at = tick
      /\ L1.gap = IF Forgotten(k) THEN 0 ELSE tick - L.at
      /\ L1 = [number |-> L1.number, at |-> L1.at, gap |-> L1.gap]
  BY <1>1 DEF LetThrough
<1>5. F1.count \in Nat /\ F1.last \in Nat /\ F1.lockedTo \in Nat
  <2>1. F1.count \in Nat /\ F1.last \in Nat
    BY <1>1, <1>3
  <2>2. CASE F1.count > Free[k]
    BY <1>1, <1>3, <2>1, <2>2, DelayIsNat
  <2>3. CASE ~(F1.count > Free[k])
    BY <1>1, <1>3, <2>3
  <2> QED
    BY <2>1, <2>2, <2>3
<1>6. L1.number \in Nat /\ L1.at \in Nat /\ L1.gap \in Nat
  BY <1>1, <1>4
<1>7. F1 \in [count: Nat, lockedTo: Nat, last: Nat] /\ L1 \in [number: Nat, at: Nat, gap: Nat]
  BY <1>3, <1>4, <1>5, <1>6
<1>8. L1.number - 1 > Free[k] => L1.gap >= Delay(k, L1.number - 1)
  <2>1. SUFFICES ASSUME L1.number - 1 > Free[k] PROVE L1.gap >= Delay(k, L1.number - 1)
    OBVIOUS
  <2>2. ~Forgotten(k) /\ L1.number - 1 = F.count /\ F.count > Free[k] /\ F.count > 0
        /\ L1.gap = tick - F.last
    BY <1>1, <1>4, <2>1
  <2>3. tick >= F.lockedTo
    BY <1>1, <2>2 DEF Locked
  <2>4. Delay(k, F.count) \in Nat
    BY <1>1, <2>2, DelayIsNat
  <2> QED
    BY <1>1, <2>2, <2>3, <2>4
<1> HIDE DEF F1, L1
<1>9. /\ failures' \in [Keys -> [count: Nat, lockedTo: Nat, last: Nat]]
      /\ let' \in [Keys -> [number: Nat, at: Nat, gap: Nat]]
      /\ failures'[k] = F1 /\ let'[k] = L1
      /\ \A j \in Keys \ {k} : failures'[j] = failures[j] /\ let'[j] = let[j]
  BY <1>1, <1>2, <1>7
<1>10. RecordFits(k)' /\ Spaced(k)'
  BY <1>1, <1>3, <1>4, <1>5, <1>6, <1>8, <1>9 DEF RecordFits, Spaced, Delay
<1>11. \A j \in Keys \ {k} : RecordFits(j)' /\ Spaced(j)'
  BY <1>9 DEF RecordsFit, GuessesAreSpaced, RecordFits, Spaced, Delay
<1> QED
  BY <1>1, <1>9, <1>10, <1>11 DEF RecordsFit, GuessesAreSpaced, RecordFits, Spaced

LEMMA SuccessIsSpaced ==
    ASSUME RecordsFit, GuessesAreSpaced, NEW ks \in SUBSET Keys, Succeeds(ks), tick' = tick
    PROVE  RecordsFit' /\ GuessesAreSpaced'
<1>1. /\ NoFailures.count = 0 /\ NoFailures.last = 0 /\ NoneLet.number = 0 /\ NoneLet.at = 0
      /\ NoFailures \in [count: Nat, lockedTo: Nat, last: Nat]
      /\ NoneLet \in [number: Nat, at: Nat, gap: Nat]
  BY DEF NoFailures, NoneLet
<1>2. /\ failures' \in [Keys -> [count: Nat, lockedTo: Nat, last: Nat]]
      /\ let' \in [Keys -> [number: Nat, at: Nat, gap: Nat]]
      /\ \A k \in Keys : /\ failures'[k] = IF k \in ks THEN NoFailures ELSE failures[k]
                         /\ let'[k] = IF k \in ks THEN NoneLet ELSE let[k]
  BY <1>1 DEF RecordsFit, Succeeds
<1>3. \A k \in Keys : RecordFits(k)' /\ Spaced(k)'
  <2> TAKE k \in Keys
  <2>1. CASE k \in ks
    BY <1>1, <1>2, <2>1, SignInAssumption DEF RecordFits, Spaced, RecordsFit
  <2>2. CASE k \notin ks
    BY <1>2, <2>2 DEF RecordFits, Spaced, RecordsFit, GuessesAreSpaced, Delay
  <2> QED
    BY <2>1, <2>2
<1> QED
  BY <1>2, <1>3 DEF RecordsFit, GuessesAreSpaced, RecordFits, Spaced

LEMMA RecordsStay ==
    ASSUME RecordsFit, GuessesAreSpaced, UNCHANGED <<failures, let>>,
           tick' = tick \/ tick' = tick + 1
    PROVE  RecordsFit' /\ GuessesAreSpaced'
<1>1. tick \in Nat /\ tick' \in Nat /\ tick <= tick'
  BY DEF RecordsFit
<1>2. \A k \in Keys : failures[k].last \in Nat
  BY DEF RecordsFit
<1> QED
  BY <1>1, <1>2 DEF RecordsFit, GuessesAreSpaced, Delay

LoginRecord == [pc: {"idle", "taken", "waits", "hashes", "sets up", "checked", "made"},
                from: Keys, what: {"wrong", "right", "barred"}]

LEMMA LoginMade ==
    ASSUME NEW pc \in {"idle", "taken", "waits", "hashes", "sets up", "checked", "made"},
           NEW from \in Keys, NEW what \in {"wrong", "right", "barred"}
    PROVE  LET r == [pc |-> pc, from |-> from, what |-> what] IN r \in LoginRecord /\ r.pc = pc
BY DEF LoginRecord

LEMMA LoginBecomes ==
    ASSUME NEW old \in LoginRecord,
           NEW pc \in {"idle", "taken", "waits", "hashes", "sets up", "checked", "made"}
    PROVE  [old EXCEPT !.pc = pc] \in LoginRecord /\ [old EXCEPT !.pc = pc].pc = pc
BY DEF LoginRecord

\* A request that moves, but not on to its hash, takes up no slot; one that
\* moves, but not off "made", keeps the setup code's owner.
LEMMA LoginMoves ==
    ASSUME LoginsFit, HashesFit, NEW q \in Logins, NEW r \in LoginRecord,
           logins' = [logins EXCEPT ![q] = r]
    PROVE  /\ LoginsFit'
           /\ r.pc # "hashes" => HashesFit'
           /\ \A p \in Logins : p # q => logins'[p] = logins[p]
           /\ logins'[q] = r
<1>1. /\ logins' \in [Logins -> LoginRecord] /\ logins'[q] = r
      /\ \A p \in Logins : p # q => logins'[p] = logins[p]
  BY DEF LoginsFit, LoginRecord
<1>2. ASSUME r.pc # "hashes" PROVE HashesFit'
  <2>1. Hashing' \subseteq Hashing
    BY <1>1, <1>2 DEF Hashing
  <2>2. IsFiniteSet(Hashing) /\ Cardinality(Hashing) <= HashSlots /\ HashSlots \in Nat
    BY SignInAssumption DEF HashesFit
  <2>3. IsFiniteSet(Hashing') /\ Cardinality(Hashing') <= Cardinality(Hashing)
    BY <2>1, <2>2, FS_Subset
  <2>4. Cardinality(Hashing) \in Nat /\ Cardinality(Hashing') \in Nat
    BY <2>2, <2>3, FS_CardinalityType
  <2> QED
    BY <2>2, <2>3, <2>4 DEF HashesFit
<1> QED
  BY <1>1, <1>2 DEF LoginsFit, LoginRecord

LEMMA HashingMoves ==
    ASSUME LoginsFit, HashesFit, NEW q \in Logins, logins[q].pc = "waits",
           Cardinality(Hashing) < HashSlots, Becomes(q, "hashes")
    PROVE  LoginsFit' /\ HashesFit'
<1>1. logins' = [logins EXCEPT ![q].pc = "hashes"] /\ logins \in [Logins -> LoginRecord]
  BY DEF Becomes, LoginsFit, LoginRecord
<1>2. logins' \in [Logins -> LoginRecord]
  BY <1>1 DEF LoginRecord
<1>3. Hashing' = Hashing \cup {q} /\ q \notin Hashing
  BY <1>1 DEF Hashing
<1>4. /\ IsFiniteSet(Hashing) /\ Cardinality(Hashing) \in Nat /\ HashSlots \in Nat
  BY SignInAssumption, FS_CardinalityType DEF HashesFit
<1>5. IsFiniteSet(Hashing') /\ Cardinality(Hashing') = Cardinality(Hashing) + 1
  BY <1>3, <1>4, FS_AddElement
<1>6. HashesFit'
  <2> DEFINE n == Cardinality(Hashing)
             n1 == Cardinality(Hashing')
  <2>1. n \in Nat /\ HashSlots \in Nat /\ n < HashSlots /\ n1 = n + 1
    BY <1>4, <1>5
  <2> HIDE DEF n, n1
  <2>2. n1 <= HashSlots
    BY <2>1
  <2> QED
    BY <1>5, <2>2 DEF HashesFit, n1
<1> QED
  BY <1>2, <1>6 DEF LoginsFit, LoginRecord

LEMMA LoginsStay ==
    ASSUME LoginsFit, HashesFit, UNCHANGED logins
    PROVE  LoginsFit' /\ HashesFit'
BY DEF LoginsFit, HashesFit, Hashing

\* A request of the setup that is through stays until its code is cleared.
LEMMA OwnerStays ==
    ASSUME OwnerFits, UNCHANGED <<isSetUp, owners, code>>,
           \A q \in Logins : logins[q].pc = "made" => logins'[q] = logins[q]
    PROVE  OwnerFits'
BY DEF OwnerFits

LEMMA NoLoginIs == NoLogin \in LoginRecord /\ NoLogin.pc = "idle"
BY DEF NoLogin, LoginRecord, Keys

LEMMA SignInInitially == SignInInit => SignInInv
<1> SUFFICES ASSUME SignInInit PROVE SignInInv
  OBVIOUS
<1>1. RecordsFit /\ GuessesAreSpaced
  <2>1. \A k \in Keys : failures[k] = NoFailures /\ let[k] = NoneLet
    BY DEF SignInInit
  <2>2. /\ failures \in [Keys -> [count: Nat, lockedTo: Nat, last: Nat]]
        /\ let \in [Keys -> [number: Nat, at: Nat, gap: Nat]]
    BY DEF SignInInit, NoFailures, NoneLet
  <2> QED
    BY <2>1, <2>2, SignInAssumption DEF SignInInit, RecordsFit, GuessesAreSpaced, NoFailures, NoneLet
<1>2. LoginsFit
  BY NoLoginIs DEF SignInInit, LoginsFit, LoginRecord
<1>3. OwnerFits
  BY DEF SignInInit, OwnerFits
<1>4. HashesFit
  <2>1. Hashing = {}
    BY NoLoginIs DEF SignInInit, Hashing
  <2> QED
    BY <2>1, FS_EmptySet, SignInAssumption DEF HashesFit
<1> QED
  BY <1>1, <1>2, <1>3, <1>4 DEF SignInInv

LEMMA SignInStep == SignInInv /\ [SignInNext]_signInVars => SignInInv'
<1> SUFFICES ASSUME SignInInv, [SignInNext]_signInVars PROVE SignInInv'
  OBVIOUS
<1>0. /\ RecordsFit /\ GuessesAreSpaced /\ LoginsFit /\ OwnerFits /\ HashesFit
      /\ logins \in [Logins -> LoginRecord]
  BY DEF SignInInv, LoginsFit, LoginRecord
<1>10. \A q \in Logins : logins[q].from \in Keys /\ logins[q] \in LoginRecord
  BY <1>0 DEF LoginRecord
<1>1. CASE Passes
  BY <1>0, <1>1, RecordsStay, LoginsStay, OwnerStays DEF Passes, SignInInv
<1>2. CASE UNCHANGED signInVars
  BY <1>0, <1>2, RecordsStay, LoginsStay, OwnerStays DEF signInVars, SignInInv
<1>3. ASSUME NEW q \in Logins, NEW from \in Addresses, NEW what \in {"wrong", "right", "barred"},
             LoginTakes(q, from, what) \/ SetupTakes(q, from, what)
      PROVE  SignInInv'
  <2>1. PICK r \in LoginRecord : /\ logins' = [logins EXCEPT ![q] = r]
                                 /\ r.pc \in {"taken", "sets up"}
    <3>1. CASE LoginTakes(q, from, what)
      <4> DEFINE r == [pc |-> "taken", from |-> from, what |-> what]
      <4>1. r \in LoginRecord /\ r.pc = "taken"
        BY LoginMade DEF Keys
      <4>2. logins' = [logins EXCEPT ![q] = r]
        BY <3>1 DEF LoginTakes, Elsewhere
      <4> HIDE DEF r
      <4> QED
        BY <4>1, <4>2
    <3>2. CASE SetupTakes(q, from, what)
      <4> DEFINE r == [pc |-> "sets up", from |-> from, what |-> what]
      <4>1. r \in LoginRecord /\ r.pc = "sets up"
        BY LoginMade DEF Keys
      <4>2. logins' = [logins EXCEPT ![q] = r]
        BY <3>2 DEF SetupTakes, Elsewhere
      <4> HIDE DEF r
      <4> QED
        BY <4>1, <4>2
    <3> QED
      BY <1>3, <3>1, <3>2
  <2>2. /\ from \in Keys /\ ~Locked(from) /\ Takes(from) /\ logins[q].pc = "idle"
        /\ UNCHANGED <<tick, isSetUp, code, owners>>
    BY <1>3 DEF LoginTakes, SetupTakes, Keys
  <2>3. RecordsFit' /\ GuessesAreSpaced'
    BY <1>0, <2>2, TakingIsSpaced
  <2>4. LoginsFit' /\ HashesFit' /\ OwnerFits'
    BY <1>0, <2>1, <2>2, LoginMoves, OwnerStays
  <2> QED
    BY <2>3, <2>4 DEF SignInInv
<1>4. ASSUME NEW q \in Logins, LoginTakesAccount(q) PROVE SignInInv'
  <2>1. /\ logins[q].pc = "taken" /\ UNCHANGED <<tick, isSetUp, code, owners>> /\ Everyone \in Keys
        /\ \/ Takes(Everyone) /\ ~Locked(Everyone) 
           \/ UNCHANGED <<failures, let>>
        /\ Becomes(q, "waits") \/ Done(q)
    BY <1>4 DEF LoginTakesAccount, Keys
  <2>2. PICK r \in LoginRecord : /\ logins' = [logins EXCEPT ![q] = r]
                                 /\ r.pc \in {"waits", "idle"}
    <3>1. CASE Done(q)
      BY <3>1, NoLoginIs DEF Done
    <3>2. CASE Becomes(q, "waits")
      <4> DEFINE r == [logins[q] EXCEPT !.pc = "waits"]
      <4>1. r \in LoginRecord /\ r.pc = "waits"
        BY <1>10, LoginBecomes
      <4>2. logins' = [logins EXCEPT ![q] = r]
        BY <3>2 DEF Becomes
      <4> HIDE DEF r
      <4> QED
        BY <4>1, <4>2
    <3> QED
      BY <2>1, <3>1, <3>2
  <2>3. RecordsFit' /\ GuessesAreSpaced'
    BY <1>0, <2>1, TakingIsSpaced, RecordsStay
  <2>4. LoginsFit' /\ HashesFit' /\ OwnerFits'
    BY <1>0, <2>1, <2>2, LoginMoves, OwnerStays
  <2> QED
    BY <2>3, <2>4 DEF SignInInv
<1>5. ASSUME NEW q \in Logins, LoginHashes(q) PROVE SignInInv'
  <2>1. /\ logins[q].pc = "waits" /\ UNCHANGED <<tick, failures, let, isSetUp, code, owners>>
        /\ (Cardinality(Hashing) < HashSlots /\ Becomes(q, "hashes")) \/ Done(q)
    BY <1>5 DEF LoginHashes
  <2>2. RecordsFit' /\ GuessesAreSpaced'
    BY <1>0, <2>1, RecordsStay
  <2>3. CASE Cardinality(Hashing) < HashSlots /\ Becomes(q, "hashes")
    <3>1. LoginsFit' /\ HashesFit'
      BY <1>0, <2>1, <2>3, HashingMoves
    <3>2. \A p \in Logins : logins[p].pc = "made" => logins'[p] = logins[p]
      BY <1>0, <2>1, <2>3 DEF Becomes
    <3> QED
      BY <1>0, <2>1, <2>2, <3>1, <3>2, OwnerStays DEF SignInInv
  <2>4. CASE Done(q)
    <3>1. LoginsFit' /\ HashesFit' /\ OwnerFits'
      BY <1>0, <2>1, <2>4, NoLoginIs, LoginMoves, OwnerStays DEF Done
    <3> QED
      BY <2>2, <3>1 DEF SignInInv
  <2> QED
    BY <2>1, <2>3, <2>4
<1>6. ASSUME NEW q \in Logins, LoginEnds(q) PROVE SignInInv'
  <2>1. /\ logins[q].pc = "hashes" /\ UNCHANGED <<tick, isSetUp, code, owners>> /\ Done(q)
        /\ (\E ks \in SUBSET Keys : Succeeds(ks)) \/ UNCHANGED <<failures, let>>
    <3>1. {logins[q].from, Everyone} \in SUBSET Keys /\ {logins[q].from} \in SUBSET Keys
      BY <1>10 DEF Keys
    <3> QED
      BY <1>6, <3>1 DEF LoginEnds
  <2>2. RecordsFit' /\ GuessesAreSpaced'
    BY <1>0, <2>1, SuccessIsSpaced, RecordsStay
  <2>3. LoginsFit' /\ HashesFit' /\ OwnerFits'
    BY <1>0, <2>1, NoLoginIs, LoginMoves, OwnerStays DEF Done
  <2> QED
    BY <2>2, <2>3 DEF SignInInv
<1>7. ASSUME NEW q \in Logins, SetupChecks(q) PROVE SignInInv'
  <2>1. /\ logins[q].pc = "sets up" /\ UNCHANGED <<tick, isSetUp, code, owners>>
        /\ Done(q) \/ Becomes(q, "checked")
        /\ (\E ks \in SUBSET Keys : Succeeds(ks)) \/ UNCHANGED <<failures, let>>
    BY <1>7, <1>10 DEF SetupChecks
  <2>2. PICK r \in LoginRecord : /\ logins' = [logins EXCEPT ![q] = r]
                                 /\ r.pc \in {"checked", "idle"}
    <3>1. CASE Done(q)
      BY <3>1, NoLoginIs DEF Done
    <3>2. CASE Becomes(q, "checked")
      <4> DEFINE r == [logins[q] EXCEPT !.pc = "checked"]
      <4>1. r \in LoginRecord /\ r.pc = "checked"
        BY <1>10, LoginBecomes
      <4>2. logins' = [logins EXCEPT ![q] = r]
        BY <3>2 DEF Becomes
      <4> HIDE DEF r
      <4> QED
        BY <4>1, <4>2
    <3> QED
      BY <2>1, <3>1, <3>2
  <2>3. RecordsFit' /\ GuessesAreSpaced'
    BY <1>0, <2>1, SuccessIsSpaced, RecordsStay
  <2>4. LoginsFit' /\ HashesFit' /\ OwnerFits'
    BY <1>0, <2>1, <2>2, LoginMoves, OwnerStays
  <2> QED
    BY <2>3, <2>4 DEF SignInInv
<1>8. ASSUME NEW q \in Logins, SetupMakes(q) PROVE SignInInv'
  <2>1. /\ logins[q].pc = "checked" /\ UNCHANGED <<tick, failures, let, code>>
        /\ \/ ~isSetUp /\ isSetUp' = TRUE /\ owners' = owners + 1 /\ Becomes(q, "made")
           \/ Done(q) /\ UNCHANGED <<isSetUp, owners>>
    BY <1>8 DEF SetupMakes
  <2>2. RecordsFit' /\ GuessesAreSpaced'
    BY <1>0, <2>1, RecordsStay
  <2>3. CASE ~isSetUp /\ isSetUp' = TRUE /\ owners' = owners + 1 /\ Becomes(q, "made")
    <3>1. PICK r \in LoginRecord : logins' = [logins EXCEPT ![q] = r] /\ r.pc = "made"
      <4> DEFINE r == [logins[q] EXCEPT !.pc = "made"]
      <4>1. r \in LoginRecord /\ r.pc = "made"
        BY <1>10, LoginBecomes
      <4>2. logins' = [logins EXCEPT ![q] = r]
        BY <2>3 DEF Becomes
      <4> HIDE DEF r
      <4> QED
        BY <4>1, <4>2
    <3>2. LoginsFit' /\ HashesFit' /\ logins'[q].pc = "made"
      BY <1>0, <3>1, LoginMoves
    <3>3. OwnerFits'
      BY <1>0, <2>3, <3>2 DEF OwnerFits
    <3> QED
      BY <2>2, <3>2, <3>3 DEF SignInInv
  <2>4. CASE Done(q) /\ UNCHANGED <<isSetUp, owners>>
    <3>1. LoginsFit' /\ HashesFit' /\ OwnerFits'
      BY <1>0, <2>1, <2>4, NoLoginIs, LoginMoves, OwnerStays DEF Done
    <3> QED
      BY <2>2, <3>1 DEF SignInInv
  <2> QED
    BY <2>1, <2>3, <2>4
<1>9. ASSUME NEW q \in Logins, SetupEnds(q) PROVE SignInInv'
  <2>1. /\ logins[q].pc = "made" /\ UNCHANGED <<tick, isSetUp, owners>> /\ Done(q) /\ code' = FALSE
        /\ \E ks \in SUBSET Keys : Succeeds(ks)
    BY <1>9, <1>10 DEF SetupEnds
  <2>2. RecordsFit' /\ GuessesAreSpaced'
    BY <1>0, <2>1, SuccessIsSpaced
  <2>3. LoginsFit' /\ HashesFit'
    BY <1>0, <2>1, NoLoginIs, LoginMoves DEF Done
  <2>4. OwnerFits'
    BY <1>0, <2>1 DEF OwnerFits
  <2> QED
    BY <2>2, <2>3, <2>4 DEF SignInInv
<1> QED
  BY <1>1, <1>2, <1>3, <1>4, <1>5, <1>6, <1>7, <1>8, <1>9 DEF SignInNext

LEMMA SignInHolds == SignInInv => SignInIsLimited
BY DEF SignInInv, SignInIsLimited, OwnerFits, OneOwner, HashesFit

\* However many sign-ins and set-ups run at once, each record's attempts lie
\* their delay apart, one owner is made, and no more hashes are computed than
\* there are slots.
THEOREM SignInStaysLimited == SignInSpec => []SignInIsLimited
BY SignInInitially, SignInStep, SignInHolds, PTL DEF SignInSpec

---------------------------------------------------------------------------
(***************************************************************************)
(* ModRequests: the list of requests and the lines of the .ini.            *)
(***************************************************************************)

Statuses == {"pending", "approved", "rejected"}
Request == [id: 1..MaxAsked, item: Items, status: Statuses]

\* A list, in memory or in its file.
ListFits(list) ==
    /\ list \in Seq(Request)
    /\ \A n \in DOMAIN list : list[n].id <= requested
    /\ \A n, m \in DOMAIN list : list[n].id = list[m].id => n = m
    /\ \A n, m \in Pending(list) : list[n].item = list[m].item => n = m
    /\ Cardinality(Pending(list)) <= MaxPending
    /\ Cardinality(DOMAIN list \ Pending(list)) <= MaxDecided

\* What was decided of a request: nothing while it waits, and one thing once.
OutcomesFit ==
    /\ requested \in 0..MaxAsked
    /\ outcomes \in [1..MaxAsked -> {{}, {"approved"}, {"rejected"}}]
    /\ \A n \in Pending(requests) : outcomes[requests[n].id] = {}
    /\ \A id \in 1..MaxAsked : /\ id > requested => outcomes[id] = {}
                               /\ outcomes[id] = {"approved"} => id \in written

Lines == [items: SUBSET Items, other: {0, 1}]
EditorRecord == [pc: {"idle", "ask", "load", "save", "decide"}, kind: {"none", "ask", "approve", "page", "form"},
                 request: 0..MaxAsked, item: Items \cup {NoEditor.item}, list: SUBSET Items,
                 knew: SUBSET Items, off: SUBSET Items, loaded: Lines]

\* A request that is asked for is nobody else's, and on no list.
AsksFit(e) ==
    editors[e].pc = "ask" =>
        /\ editors[e].request \in 1..requested /\ editors[e].item \in Items
        /\ outcomes[editors[e].request] = {}
        /\ \A n \in DOMAIN requests : requests[n].id # editors[e].request
        /\ \A n \in DOMAIN requestFile : requestFile[n].id # editors[e].request
        /\ \A f \in Editors : f # e /\ editors[f].pc = "ask" => editors[f].request # editors[e].request

\* What an editor will write has what it knew of, but what its reader took off.
EditsFit(e) ==
    /\ editors[e].pc \in {"load", "save"} =>
          /\ editors[e].kind \in {"approve", "page", "form"}
          /\ editors[e].kind # "form" => editors[e].knew \ editors[e].off \subseteq editors[e].list
    /\ editors[e].pc = "save" /\ editors[e].kind = "form" => editors[e].loaded.items = editors[e].knew
    /\ editors[e].pc = "decide" => editors[e].request \in written

EditorsFit ==
    /\ ini \in Lines /\ editors \in [Editors -> EditorRecord] /\ taken = {}
    /\ \A e \in Editors : AsksFit(e) /\ EditsFit(e)

ModsInv == ListFits(requests) /\ ListFits(requestFile) /\ OutcomesFit /\ EditorsFit

LEMMA LessIsWellFounded ==
    \E R : IsWellFoundedOn(R, Nat) /\ \A x, y \in Nat : x < y => <<x, y>> \in R
<1>1. \A x, y \in Nat : x < y => <<x, y>> \in OpToRel(<, Nat)
  BY DEF OpToRel
<1> QED
  BY <1>1, NatLessThanWellFounded

LEMMA SmallestIn ==
    ASSUME NEW R, IsWellFoundedOn(R, Nat), NEW T, T \subseteq Nat, T # {}
    PROVE  \E m \in T : \A k \in T : ~(<<k, m>> \in R)
BY WFMin, Zenon

LEMMA Smallest ==
    ASSUME NEW T \in SUBSET Nat, T # {}
    PROVE  \E m \in T : \A k \in T : m <= k
<1>1. PICK R : IsWellFoundedOn(R, Nat) /\ \A x, y \in Nat : x < y => <<x, y>> \in R
  BY LessIsWellFounded
<1>2. T \subseteq Nat
  OBVIOUS
<1>3. \E m \in T : \A k \in T : ~(<<k, m>> \in R)
  BY <1>1, <1>2, SmallestIn
<1>4. \E m \in T : \A k \in T : ~(k < m)
  BY <1>1, <1>2, <1>3
<1> QED
  BY <1>2, <1>4

\* The elements of a finite set of numbers have the ranks 1, 2, ... in order.
LEMMA RanksAre ==
    ASSUME NEW K \in SUBSET Nat, IsFiniteSet(K)
    PROVE  /\ \A k \in 1..Cardinality(K) : \E n \in K : Cardinality({m \in K : m <= n}) = k
<1> DEFINE Upto(n) == {m \in K : m <= n}
           c == Cardinality(K)
           rank == [n \in K |-> Cardinality(Upto(n))]
<1>1. c \in Nat /\ IsFiniteSet(1..c) /\ Cardinality(1..c) = c
  BY FS_CardinalityType, FS_Interval
<1>2. ASSUME NEW n \in K
      PROVE  IsFiniteSet(Upto(n)) /\ Cardinality(Upto(n)) \in 1..c
  <2>1. Upto(n) \in SUBSET K /\ n \in Upto(n)
    OBVIOUS
  <2>2. IsFiniteSet(Upto(n)) /\ Cardinality(Upto(n)) <= c /\ Cardinality(Upto(n)) \in Nat
    BY <2>1, FS_Subset, FS_CardinalityType
  <2>3. Cardinality(Upto(n)) # 0
    BY <2>1, <2>2, FS_EmptySet
  <2> HIDE DEF Upto, c
  <2> QED
    BY <1>1, <2>2, <2>3
<1>3. ASSUME NEW n \in K, NEW m \in K, n < m
      PROVE  Cardinality(Upto(n)) # Cardinality(Upto(m))
  <2>0. n \in Nat /\ m \in Nat /\ m <= m /\ ~(m <= n)
    BY <1>3
  <2>2. \A k \in K : k <= n => k <= m
    <3>1. \A k \in Nat : k <= n => k <= m
      BY <1>3, <2>0
    <3> QED
      BY <3>1
  <2>1. Upto(n) \in SUBSET Upto(m) /\ m \in Upto(m) /\ m \notin Upto(n)
    BY <2>0, <2>2, Zenon
  <2> QED
    BY <1>2, <2>1, FS_Subset
<1> HIDE DEF Upto, c
<1>4. rank \in Injection(K, 1..c)
  <2>1. rank \in [K -> 1..c]
    <3>1. \A n \in K : Cardinality(Upto(n)) \in 1..c
      BY <1>2
    <3> QED
      BY <3>1, Zenon
  <2>2. ASSUME NEW n \in K, NEW m \in K, rank[n] = rank[m] PROVE n = m
    <3>1. n \in Nat /\ m \in Nat /\ Cardinality(Upto(n)) = Cardinality(Upto(m))
      BY <2>2
    <3>2. ~(n < m) /\ ~(m < n)
      BY <1>3, <3>1
    <3> QED
      BY <3>1, <3>2
  <2> HIDE DEF rank
  <2> QED
    BY <2>1, <2>2 DEF Injection, IsInjective
<1>5. rank \in Surjection(K, 1..c)
  BY <1>1, <1>4, FS_Injection DEF c
<1>6. \A k \in 1..c : \E n \in K : rank[n] = k
  BY <1>5 DEF Surjection
<1> QED
  BY <1>6 DEF c, Upto

\* What Trimmed keeps.
DecidedFrom(list, n) == {m \in DOMAIN list : m >= n /\ list[m].status # "pending"}
KeptItems(list) == {n \in DOMAIN list : \/ list[n].status = "pending"
                                   \/ Cardinality(DecidedFrom(list, n)) <= MaxDecided}

LEMMA ListIsFinite ==
    ASSUME NEW list \in Seq(Request)
    PROVE  /\ DOMAIN list = 1..Len(list) /\ Len(list) \in Nat /\ IsFiniteSet(DOMAIN list)
           /\ DOMAIN list \in SUBSET Nat
           /\ \A T \in SUBSET DOMAIN list : IsFiniteSet(T) /\ Cardinality(T) \in Nat
<1>1. DOMAIN list = 1..Len(list) /\ Len(list) \in Nat
  OBVIOUS
<1>2. IsFiniteSet(DOMAIN list)
  BY <1>1, FS_Interval
<1> QED
  BY <1>1, <1>2, FS_Subset, FS_CardinalityType

LEMMA TrimmedIs ==
    ASSUME NEW list \in Seq(Request)
    PROVE  /\ Trimmed(list) \in Seq(Request)
           /\ \E f \in [DOMAIN Trimmed(list) -> KeptItems(list)] :
                 /\ \A i, j \in DOMAIN Trimmed(list) : f[i] = f[j] => i = j
                 /\ \A i \in DOMAIN Trimmed(list) : Trimmed(list)[i] = list[f[i]]
<1> DEFINE K == KeptItems(list)
           c == Cardinality(K)
           at(k) == CHOOSE n \in K : Cardinality({m \in K : m <= n}) = k
           f == [k \in 1..c |-> at(k)]
<1>1. Trimmed(list) = [k \in 1..c |-> list[at(k)]]
  BY DEF Trimmed, KeptItems, DecidedFrom
<1>2. K \in SUBSET DOMAIN list /\ K \in SUBSET Nat /\ IsFiniteSet(K) /\ c \in Nat
  BY ListIsFinite DEF KeptItems
<1> HIDE DEF K
<1>3. \A k \in 1..c : at(k) \in K /\ Cardinality({m \in K : m <= at(k)}) = k
  BY <1>2, RanksAre
<1> HIDE DEF c, at
<1>4. Trimmed(list) \in Seq(Request) /\ DOMAIN Trimmed(list) = 1..c
  <2>1. \A k \in 1..c : list[at(k)] \in Request
    <3>1. \A n \in DOMAIN list : list[n] \in Request
      OBVIOUS
    <3> QED
      BY <1>2, <1>3, <3>1
  <2> QED
    BY <1>1, <1>2, <2>1
<1>5. f \in [1..c -> K] /\ \A i, j \in 1..c : f[i] = f[j] => i = j
  BY <1>3
<1>6. \A i \in 1..c : Trimmed(list)[i] = list[f[i]]
  BY <1>1
<1> HIDE DEF f
<1>7. f \in [DOMAIN Trimmed(list) -> KeptItems(list)]
  BY <1>4, <1>5 DEF K
<1>8. /\ \A i, j \in DOMAIN Trimmed(list) : f[i] = f[j] => i = j
      /\ \A i \in DOMAIN Trimmed(list) : Trimmed(list)[i] = list[f[i]]
  BY <1>4, <1>5, <1>6, Zenon
<1> QED
  BY <1>4, <1>7, <1>8, Zenon

LEMMA FewDecided ==
    ASSUME NEW list \in Seq(Request)
    PROVE  Cardinality(KeptItems(list) \ Pending(list)) <= MaxDecided
<1> DEFINE D == KeptItems(list) \ Pending(list)
<1>1. D \in SUBSET DOMAIN list /\ D \in SUBSET Nat
  BY ListIsFinite DEF KeptItems
<1>2. CASE D = {}
  <2>1. Cardinality(D) = 0 /\ MaxDecided \in Nat
    BY <1>2, FS_EmptySet, ModsAssumption, Zenon
  <2> DEFINE x == Cardinality(D)
  <2>2. x = 0 /\ MaxDecided \in Nat
    BY <2>1
  <2> HIDE DEF x
  <2>3. x <= MaxDecided
    BY <2>2
  <2> QED
    BY <2>3 DEF x
<1>3. CASE D # {}
  <2>1. PICK n \in D : \A k \in D : n <= k
    BY <1>1, <1>3, Smallest
  <2>2. D \in SUBSET DecidedFrom(list, n) /\ DecidedFrom(list, n) \in SUBSET DOMAIN list
    BY <1>1, <2>1 DEF DecidedFrom, Pending
  <2>3. Cardinality(DecidedFrom(list, n)) <= MaxDecided
    BY <2>1 DEF KeptItems, Pending
  <2> DEFINE x == Cardinality(D)
             y == Cardinality(DecidedFrom(list, n))
  <2>4. x <= y /\ x \in Nat /\ y \in Nat
    BY <1>1, <2>2, ListIsFinite, FS_Subset
  <2>5. y <= MaxDecided /\ MaxDecided \in Nat
    BY <2>3, ModsAssumption
  <2> HIDE DEF x, y
  <2>6. x <= MaxDecided
    BY <2>4, <2>5
  <2> QED
    BY <2>6 DEF x
<1> QED
  BY <1>2, <1>3

\* A part of a list that takes each request at most once.
LEMMA PartFits ==
    ASSUME NEW list \in Seq(Request), NEW part1 \in Seq(Request),
           NEW f \in [DOMAIN part1 -> DOMAIN list],
           \A i, j \in DOMAIN part1 : f[i] = f[j] => i = j,
           \A i \in DOMAIN part1 : part1[i] = list[f[i]],
           NEW S \in SUBSET DOMAIN part1, NEW T \in SUBSET DOMAIN list,
           \A i \in S : f[i] \in T
    PROVE  Cardinality(S) <= Cardinality(T)
<1> DEFINE g == [i \in S |-> f[i]]
<1>1. g \in [S -> T] /\ \A i, j \in S : g[i] = g[j] => i = j
  OBVIOUS
<1> HIDE DEF g
<1>2. g \in Injection(S, T)
  BY <1>1 DEF Injection, IsInjective
<1>3. IsFiniteSet(T)
  BY ListIsFinite
<1> QED
  BY <1>2, <1>3, FS_Injection

LEMMA TrimmedFits ==
    ASSUME NEW list \in Seq(Request),
           \A n \in DOMAIN list : list[n].id <= requested,
           \A n, m \in DOMAIN list : list[n].id = list[m].id => n = m,
           \A n, m \in Pending(list) : list[n].item = list[m].item => n = m,
           Cardinality(Pending(list)) <= MaxPending
    PROVE  /\ ListFits(Trimmed(list))
           /\ \A i \in DOMAIN Trimmed(list) : \E n \in DOMAIN list : Trimmed(list)[i] = list[n]
<1> DEFINE trimmed == Trimmed(list)
<1>1. trimmed \in Seq(Request)
  BY TrimmedIs
<1>2. PICK f \in [DOMAIN trimmed -> KeptItems(list)] :
            /\ \A i, j \in DOMAIN trimmed : f[i] = f[j] => i = j
            /\ \A i \in DOMAIN trimmed : trimmed[i] = list[f[i]]
  BY TrimmedIs
<1> HIDE DEF trimmed
<1>3. f \in [DOMAIN trimmed -> DOMAIN list]
  BY <1>2 DEF KeptItems
<1>4. /\ Pending(trimmed) \in SUBSET DOMAIN trimmed /\ \A i \in Pending(trimmed) : f[i] \in Pending(list)
      /\ \A i \in DOMAIN trimmed \ Pending(trimmed) : f[i] \in KeptItems(list) \ Pending(list)
      /\ Pending(list) \in SUBSET DOMAIN list /\ KeptItems(list) \ Pending(list) \in SUBSET DOMAIN list
  BY <1>2, <1>3 DEF Pending, KeptItems
<1>5. Cardinality(Pending(trimmed)) <= Cardinality(Pending(list))
  BY <1>1, <1>2, <1>3, <1>4, PartFits
<1>6. Cardinality(DOMAIN trimmed \ Pending(trimmed)) <= Cardinality(KeptItems(list) \ Pending(list))
  BY <1>1, <1>2, <1>3, <1>4, PartFits
<1>7. Cardinality(Pending(trimmed)) <= MaxPending /\ Cardinality(DOMAIN trimmed \ Pending(trimmed)) <= MaxDecided
  <2> DEFINE a == Cardinality(Pending(trimmed))
             b == Cardinality(Pending(list))
             c == Cardinality(DOMAIN trimmed \ Pending(trimmed))
             d == Cardinality(KeptItems(list) \ Pending(list))
  <2>1. a \in Nat /\ b \in Nat /\ c \in Nat /\ d \in Nat
    BY <1>1, <1>4, ListIsFinite
  <2>2. a <= b /\ b <= MaxPending /\ c <= d /\ d <= MaxDecided /\ MaxPending \in Nat /\ MaxDecided \in Nat
    BY <1>5, <1>6, FewDecided, ModsAssumption
  <2> HIDE DEF a, b, c, d
  <2>3. a <= MaxPending /\ c <= MaxDecided
    BY <2>1, <2>2
  <2> QED
    BY <2>3 DEF a, c
<1>8. /\ \A n \in DOMAIN trimmed : trimmed[n].id <= requested
      /\ \A n, m \in DOMAIN trimmed : trimmed[n].id = trimmed[m].id => n = m
  BY <1>2, <1>3
<1>9. \A n, m \in Pending(trimmed) : trimmed[n].item = trimmed[m].item => n = m
  BY <1>2, <1>3, <1>4 DEF Pending
<1>10. \A i \in DOMAIN trimmed : \E n \in DOMAIN list : trimmed[i] = list[n]
  BY <1>2, <1>3
<1> QED
  BY <1>1, <1>7, <1>8, <1>9, <1>10 DEF ListFits, trimmed

---------------------------------------------------------------------------
\* A request that someone decides leaves the rest as they were.
Marked(id, status) == [n \in DOMAIN requests |->
    IF requests[n].id = id THEN [requests[n] EXCEPT !.status = status] ELSE requests[n]]

LEMMA MarkedFits ==
    ASSUME ListFits(requests), NEW id \in 1..MaxAsked, NEW status \in {"approved", "rejected"}
    PROVE  /\ ListFits(Trimmed(Marked(id, status)))
           /\ \A i \in DOMAIN Trimmed(Marked(id, status)) : \E n \in DOMAIN requests :
                 /\ Trimmed(Marked(id, status))[i].id = requests[n].id
                 /\ Trimmed(Marked(id, status))[i].status = "pending" =>
                       n \in Pending(requests) /\ requests[n].id # id
<1> DEFINE marked == Marked(id, status)
<1>1. requests \in Seq(Request) /\ DOMAIN requests = 1..Len(requests) /\ Len(requests) \in Nat
  BY ListIsFinite DEF ListFits
<1>2. DOMAIN marked = DOMAIN requests
  BY DEF Marked
<1>3. ASSUME NEW n \in DOMAIN requests
      PROVE  /\ marked[n] \in Request /\ marked[n].id = requests[n].id /\ marked[n].item = requests[n].item
             /\ marked[n].status = "pending" => requests[n].status = "pending" /\ requests[n].id # id
  <2>1. requests[n] \in Request
    BY <1>1
  <2>2. marked[n] = IF requests[n].id = id THEN [requests[n] EXCEPT !.status = status] ELSE requests[n]
    BY DEF Marked
  <2> QED
    BY <2>1, <2>2 DEF Request, Statuses
<1>4. marked \in Seq(Request)
  <2>1. marked \in [1..Len(requests) -> Request]
    BY <1>1, <1>3 DEF Marked
  <2> HIDE DEF marked
  <2> QED
    BY <1>1, <2>1
<1> HIDE DEF marked
<1>5. Pending(marked) \in SUBSET Pending(requests) /\ Pending(requests) \in SUBSET DOMAIN requests
  BY <1>2, <1>3 DEF Pending
<1>6. Cardinality(Pending(marked)) <= MaxPending
  <2> DEFINE a == Cardinality(Pending(marked))
             b == Cardinality(Pending(requests))
  <2>1. a <= b /\ b <= MaxPending /\ a \in Nat /\ b \in Nat /\ MaxPending \in Nat
    BY <1>1, <1>2, <1>5, ListIsFinite, FS_Subset, ModsAssumption DEF ListFits
  <2> HIDE DEF a, b
  <2>2. a <= MaxPending
    BY <2>1
  <2> QED
    BY <2>2 DEF a
<1>7. /\ \A n \in DOMAIN marked : marked[n].id <= requested
      /\ \A n, m \in DOMAIN marked : marked[n].id = marked[m].id => n = m
      /\ \A n, m \in Pending(marked) : marked[n].item = marked[m].item => n = m
  BY <1>2, <1>3, <1>5 DEF ListFits
<1>8. /\ ListFits(Trimmed(marked))
      /\ \A i \in DOMAIN Trimmed(marked) : \E n \in DOMAIN marked : Trimmed(marked)[i] = marked[n]
  BY <1>4, <1>6, <1>7, TrimmedFits
<1>9. \A i \in DOMAIN Trimmed(marked) : \E n \in DOMAIN requests :
         /\ Trimmed(marked)[i].id = requests[n].id
         /\ Trimmed(marked)[i].status = "pending" => n \in Pending(requests) /\ requests[n].id # id
  BY <1>2, <1>3, <1>8 DEF Pending
<1> QED
  BY <1>8, <1>9 DEF marked

OnNoList(x) == /\ \A n \in DOMAIN requests : requests[n].id # x
               /\ \A n \in DOMAIN requestFile : requestFile[n].id # x

LEMMA DecidesOnce ==
    ASSUME ListFits(requests), ListFits(requestFile), OutcomesFit,
           NEW id \in 1..MaxAsked, NEW status \in {"approved", "rejected"}, Decides(id, status),
           UNCHANGED <<requested, written>>, status = "approved" => id \in written
    PROVE  /\ ListFits(requests)' /\ ListFits(requestFile)' /\ OutcomesFit'
           /\ \A x \in 1..MaxAsked : OnNoList(x) => OnNoList(x)' /\ outcomes'[x] = outcomes[x]
<1>1. CASE ~IsPending(id)
  BY <1>1 DEF Decides, ListFits, OutcomesFit, OnNoList
<1>2. CASE IsPending(id)
  <2>1. PICK n \in Pending(requests) : requests[n].id = id
    BY <1>2 DEF IsPending, Find, Pending
  <2>2. /\ requests' = Trimmed(Marked(id, status))
        /\ outcomes' = [outcomes EXCEPT ![id] = @ \cup {status}]
        /\ requestFile' \in {requests', requestFile}
    BY <1>2 DEF Decides, Marked
  <2>3. ListFits(requests') /\ ListFits(requestFile')
    BY <2>2, MarkedFits
  <2>4. ListFits(requests)' /\ ListFits(requestFile)'
    BY <2>3 DEF ListFits
  <2>5. outcomes'[id] = {status} /\ \A x \in 1..MaxAsked : x # id => outcomes'[x] = outcomes[x]
    BY <2>1, <2>2 DEF OutcomesFit
  <2>6. \A i \in DOMAIN requests' : \E m \in DOMAIN requests :
           /\ requests'[i].id = requests[m].id
           /\ requests'[i].status = "pending" => m \in Pending(requests) /\ requests[m].id # id
    BY <2>2, MarkedFits
  <2>7. OutcomesFit'
    <3>1. outcomes' \in [1..MaxAsked -> {{}, {"approved"}, {"rejected"}}]
      BY <2>2, <2>5 DEF OutcomesFit
    <3>2. \A i \in Pending(requests)' : outcomes'[requests'[i].id] = {}
      <4> SUFFICES ASSUME NEW i \in DOMAIN requests', requests'[i].status = "pending"
                   PROVE  outcomes'[requests'[i].id] = {}
        BY DEF Pending
      <4>1. PICK m \in Pending(requests) : requests'[i].id = requests[m].id /\ requests[m].id # id
        BY <2>6
      <4>2. requests[m].id \in 1..MaxAsked
        <5>1. requests \in Seq(Request) /\ m \in DOMAIN requests
          BY <4>1 DEF ListFits, Pending
        <5>2. requests[m] \in Request
          BY <5>1
        <5> QED
          BY <5>2 DEF Request
      <4> QED
        BY <2>5, <4>1, <4>2 DEF OutcomesFit
    <3>3. id <= requested
      BY <2>1 DEF ListFits, Pending
    <3>4. \A x \in 1..MaxAsked : /\ x > requested' => outcomes'[x] = {}
                                 /\ outcomes'[x] = {"approved"} => x \in written'
      <4>1. CASE status = "approved"
        BY <2>5, <3>3, <4>1 DEF OutcomesFit
      <4>2. CASE status = "rejected"
        BY <2>5, <3>3, <4>2 DEF OutcomesFit
      <4> QED
        BY <4>1, <4>2
    <3> QED
      BY <3>1, <3>2, <3>4 DEF OutcomesFit
  <2>8. ASSUME NEW x \in 1..MaxAsked, OnNoList(x) PROVE OnNoList(x)' /\ outcomes'[x] = outcomes[x]
    <3>1. x # id
      BY <2>1, <2>8 DEF OnNoList, Pending
    <3>2. \A i \in DOMAIN requests' : requests'[i].id # x
      BY <2>6, <2>8 DEF OnNoList
    <3> QED
      BY <2>2, <2>5, <2>8, <3>1, <3>2 DEF OnNoList
  <2> QED
    BY <2>4, <2>7, <2>8
<1> QED
  BY <1>1, <1>2

\* An editor that moves on, and asks for nothing.
LEMMA EditorMoves ==
    ASSUME EditorsFit, OutcomesFit, NEW e \in Editors, NEW r \in EditorRecord, r.pc # "ask",
           editors' = [editors EXCEPT ![e] = r],
           ini' \in Lines, taken' = {}, written \subseteq written', requested' = requested,
           \A f \in Editors \ {e} : editors[f].pc = "ask" =>
              OnNoList(editors[f].request)' /\ outcomes'[editors[f].request] = {},
           /\ r.pc \in {"load", "save"} =>
                /\ r.kind \in {"approve", "page", "form"}
                /\ r.kind # "form" => r.knew \ r.off \subseteq r.list
           /\ r.pc = "save" /\ r.kind = "form" => r.loaded.items = r.knew
           /\ r.pc = "decide" => r.request \in written'
    PROVE  EditorsFit'
<1>1. editors' \in [Editors -> EditorRecord] /\ editors'[e] = r /\ \A f \in Editors \ {e} : editors'[f] = editors[f]
  BY DEF EditorsFit
<1>2. AsksFit(e)' /\ EditsFit(e)'
  BY <1>1 DEF AsksFit, EditsFit
<1>3. ASSUME NEW f \in Editors, f # e PROVE AsksFit(f)' /\ EditsFit(f)'
  <2>1. AsksFit(f) /\ EditsFit(f) /\ editors'[f] = editors[f]
    BY <1>1, <1>3 DEF EditorsFit
  <2>2. EditsFit(f)'
    BY <2>1 DEF EditsFit
  <2>3. ASSUME editors[f].pc = "ask" PROVE AsksFit(f)'
    <3>1. /\ editors[f].request \in 1..requested' /\ editors[f].item \in Items
          /\ OnNoList(editors[f].request)' /\ outcomes'[editors[f].request] = {}
      BY <1>3, <2>1, <2>3 DEF AsksFit
    <3>2. \A g \in Editors : g # f /\ editors'[g].pc = "ask" => editors'[g].request # editors[f].request
      BY <1>1, <2>1, <2>3 DEF AsksFit
    <3> QED
      BY <2>1, <3>1, <3>2 DEF AsksFit, OnNoList
  <2> QED
    BY <2>1, <2>2, <2>3 DEF AsksFit
<1> QED
  BY <1>1, <1>2, <1>3 DEF EditorsFit

LEMMA ListsStay ==
    ASSUME ListFits(requests), ListFits(requestFile), OutcomesFit,
           UNCHANGED <<requests, requestFile, outcomes, requested>>, written \subseteq written'
    PROVE  /\ ListFits(requests)' /\ ListFits(requestFile)' /\ OutcomesFit'
           /\ \A x \in 1..MaxAsked : OnNoList(x) => OnNoList(x)' /\ outcomes'[x] = outcomes[x]
<1>1. ListFits(requests)' /\ ListFits(requestFile)'
  BY DEF ListFits
<1>2. OutcomesFit'
  BY DEF OutcomesFit
<1>3. \A x : OnNoList(x) => OnNoList(x)'
  BY DEF OnNoList
<1> QED
  BY <1>1, <1>2, <1>3

LEMMA AskersAreNew ==
    ASSUME EditorsFit, OutcomesFit, NEW f \in Editors, editors[f].pc = "ask"
    PROVE  /\ editors[f].request \in 1..MaxAsked /\ OnNoList(editors[f].request)
           /\ outcomes[editors[f].request] = {}
BY ModsAssumption DEF EditorsFit, OutcomesFit, AsksFit, OnNoList

Pcs == {"idle", "ask", "load", "save", "decide"}
EditorKinds == {"none", "ask", "approve", "page", "form"}

LEMMA NoEditorIs ==
    /\ NoEditor \in EditorRecord /\ NoEditor.pc = "idle" /\ NoEditor.off = {} /\ NoEditor.kind = "none"
<1>1. 0 \in 0..MaxAsked
  BY ModsAssumption
<1> QED
  BY <1>1 DEF NoEditor, EditorRecord, Lines

LEMMA EditorAsks ==
    ASSUME NEW old \in EditorRecord, NEW pc \in Pcs, NEW kind \in EditorKinds,
           NEW item \in Items, NEW request \in 0..MaxAsked
    PROVE  [old EXCEPT !.pc = pc, !.kind = kind, !.item = item, !.request = request] \in EditorRecord
BY DEF EditorRecord, Pcs, EditorKinds

LEMMA EditorApproves ==
    ASSUME NEW old \in EditorRecord, NEW pc \in Pcs, NEW kind \in EditorKinds,
           NEW request \in 0..MaxAsked, NEW item \in Items,
           NEW list \in SUBSET Items, NEW knew \in SUBSET Items
    PROVE  [old EXCEPT !.pc = pc, !.kind = kind, !.request = request,
                             !.item = item, !.list = list, !.knew = knew] \in EditorRecord
BY DEF EditorRecord, Pcs, EditorKinds

LEMMA EditorShows ==
    ASSUME NEW old \in EditorRecord, NEW pc \in Pcs, NEW kind \in EditorKinds,
           NEW list \in SUBSET Items, NEW knew \in SUBSET Items, NEW off \in SUBSET Items
    PROVE  [old EXCEPT !.pc = pc, !.kind = kind, !.list = list, !.knew = knew, !.off = off] \in EditorRecord
BY DEF EditorRecord, Pcs, EditorKinds

LEMMA EditorEdits ==
    ASSUME NEW old \in EditorRecord, NEW pc \in Pcs, NEW kind \in EditorKinds
    PROVE  [old EXCEPT !.pc = pc, !.kind = kind] \in EditorRecord
BY DEF EditorRecord, Pcs, EditorKinds

LEMMA EditorBecomes ==
    ASSUME NEW old \in EditorRecord, NEW pc \in Pcs
    PROVE  [old EXCEPT !.pc = pc] \in EditorRecord
BY DEF EditorRecord, Pcs

LEMMA EditorHasLoaded ==
    ASSUME NEW old \in EditorRecord, NEW pc \in Pcs, NEW loaded \in Lines, NEW knew \in SUBSET Items
    PROVE  [old EXCEPT !.pc = pc, !.loaded = loaded, !.knew = knew] \in EditorRecord
BY DEF EditorRecord, Pcs, Lines

LEMMA AskStep ==
    ASSUME ModsInv, NEW e \in Editors, NEW item \in Items, AskChecks(e, item)
    PROVE  ModsInv'
<1>1. PICK r \in EditorRecord : /\ editors' = [editors EXCEPT ![e] = r]
                                /\ r.pc = "ask" /\ r.item = item /\ r.request = requested + 1
  <2>1. requested + 1 \in 0..MaxAsked
    BY ModsAssumption DEF AskChecks, ModsInv, OutcomesFit
  <2>2. PICK n \in 0..MaxAsked : n = requested + 1
    BY <2>1
  <2> DEFINE r == [NoEditor EXCEPT !.pc = "ask", !.kind = "ask", !.item = item, !.request = n]
  <2>3. editors' = [editors EXCEPT ![e] = r]
    BY <2>2 DEF AskChecks
  <2>4. "ask" \in Pcs /\ "ask" \in EditorKinds /\ NoEditor \in EditorRecord
    BY NoEditorIs DEF Pcs, EditorKinds
  <2>6. r \in EditorRecord
    BY <2>4, EditorAsks
  <2>5. r.pc = "ask" /\ r.item = item /\ r.request = n
    BY <2>4 DEF EditorRecord
  <2> HIDE DEF r
  <2> QED
    BY <2>2, <2>3, <2>5, <2>6
<1>2. /\ requested' = requested + 1 /\ requested \in 0..MaxAsked /\ requested < MaxAsked /\ MaxAsked \in Nat
      /\ UNCHANGED <<ini, requests, requestFile, outcomes, written, taken>>
  BY ModsAssumption DEF AskChecks, ModsInv, OutcomesFit
<1>3. \A n \in DOMAIN requests : requests[n].id \in Nat /\ requests[n].id <= requested
  <2>1. requests \in Seq(Request) /\ \A n \in DOMAIN requests : requests[n].id <= requested
    BY DEF ModsInv, ListFits
  <2>2. \A n \in DOMAIN requests : requests[n] \in Request
    BY <2>1
  <2> QED
    BY <1>2, <2>1, <2>2 DEF Request
<1>4. \A n \in DOMAIN requestFile : requestFile[n].id \in Nat /\ requestFile[n].id <= requested
  <2>1. requestFile \in Seq(Request) /\ \A n \in DOMAIN requestFile : requestFile[n].id <= requested
    BY DEF ModsInv, ListFits
  <2>2. \A n \in DOMAIN requestFile : requestFile[n] \in Request
    BY <2>1
  <2> QED
    BY <1>2, <2>1, <2>2 DEF Request
<1>5. ListFits(requests)' /\ ListFits(requestFile)'
  <2>1. \A n \in DOMAIN requests' : requests'[n].id <= requested'
    BY <1>2, <1>3
  <2>2. \A n \in DOMAIN requestFile' : requestFile'[n].id <= requested'
    BY <1>2, <1>4
  <2> QED
    BY <1>2, <2>1, <2>2 DEF ModsInv, ListFits
<1>6. OutcomesFit'
  BY <1>2 DEF ModsInv, OutcomesFit
<1>7. /\ editors' \in [Editors -> EditorRecord] /\ editors'[e] = r
      /\ \A f \in Editors \ {e} : editors'[f] = editors[f]
  BY <1>1 DEF ModsInv, EditorsFit
<1>8. \A f \in Editors : editors[f].pc = "ask" => editors[f].request \in Nat /\ editors[f].request <= requested
  BY <1>2 DEF ModsInv, EditorsFit, AsksFit
<1>9. ASSUME NEW f \in Editors PROVE AsksFit(f)' /\ EditsFit(f)'
  <2>1. CASE f = e
    <3>1. requested + 1 \in 1..requested' /\ outcomes[requested + 1] = {}
      BY <1>2 DEF ModsInv, OutcomesFit
    <3>2. \A n \in DOMAIN requests : requests[n].id # requested + 1
      BY <1>2, <1>3
    <3>3. \A n \in DOMAIN requestFile : requestFile[n].id # requested + 1
      BY <1>2, <1>4
    <3>4. \A g \in Editors : g # f /\ editors'[g].pc = "ask" => editors'[g].request # requested + 1
      BY <1>2, <1>7, <1>8, <2>1
    <3>5. AsksFit(f)'
      BY <1>1, <1>2, <1>7, <2>1, <3>1, <3>2, <3>3, <3>4 DEF AsksFit
    <3>6. EditsFit(f)'
      BY <1>1, <1>7, <2>1 DEF EditsFit
    <3> QED
      BY <3>5, <3>6
  <2>2. CASE f # e
    <3>1. AsksFit(f) /\ EditsFit(f) /\ editors'[f] = editors[f]
      BY <1>7, <2>2 DEF ModsInv, EditorsFit
    <3>2. EditsFit(f)'
      BY <1>2, <3>1 DEF EditsFit
    <3>3. ASSUME editors[f].pc = "ask" PROVE AsksFit(f)'
      <4>1. editors[f].request # requested + 1
        BY <1>2, <1>8, <3>3
      <4>2. \A g \in Editors : g # f /\ editors'[g].pc = "ask" => editors'[g].request # editors[f].request
        BY <1>1, <1>7, <3>1, <3>3, <4>1 DEF AsksFit
      <4>3. editors[f].request \in 1..requested'
        BY <1>2, <3>1, <3>3 DEF AsksFit
      <4> QED
        BY <1>2, <3>1, <3>3, <4>2, <4>3 DEF AsksFit
    <3> QED
      BY <3>1, <3>2, <3>3 DEF AsksFit
  <2> QED
    BY <2>1, <2>2
<1> QED
  BY <1>2, <1>5, <1>6, <1>7, <1>9 DEF ModsInv, EditorsFit

\* An editor that only reads, or gives up.
LEMMA EditorOnly ==
    ASSUME ModsInv, NEW e \in Editors, NEW r \in EditorRecord, r.pc # "ask",
           editors' = [editors EXCEPT ![e] = r],
           UNCHANGED <<ini, requests, requestFile, requested, outcomes, written, taken>>,
           /\ r.pc \in {"load", "save"} =>
                /\ r.kind \in {"approve", "page", "form"}
                /\ r.kind # "form" => r.knew \ r.off \subseteq r.list
           /\ r.pc = "save" /\ r.kind = "form" => r.loaded.items = r.knew
           /\ r.pc = "decide" => r.request \in written
    PROVE  ModsInv'
<1>0. ListFits(requests) /\ ListFits(requestFile) /\ OutcomesFit /\ EditorsFit
  BY DEF ModsInv
<1>1. ListFits(requests)' /\ ListFits(requestFile)' /\ OutcomesFit'
  BY <1>0, ListsStay
<1>2. ASSUME NEW f \in Editors \ {e}, editors[f].pc = "ask"
      PROVE  OnNoList(editors[f].request)' /\ outcomes'[editors[f].request] = {}
  <2>1. editors'[f] = editors[f]
    BY <1>0 DEF EditorsFit
  <2> QED
    BY <1>0, <1>2, <2>1, AskersAreNew DEF OnNoList
<1>3. ini' \in Lines /\ taken' = {}
  BY <1>0 DEF EditorsFit
<1>4. EditorsFit'
  BY <1>0, <1>2, <1>3, EditorMoves
<1> QED
  BY <1>1, <1>4 DEF ModsInv

\* add, with the list and its file as they were before or after it.
LEMMA AddStep ==
    ASSUME ModsInv, NEW e \in Editors, AskAdds(e)
    PROVE  ModsInv'
<1> DEFINE r == [id |-> editors[e].request, item |-> editors[e].item, status |-> "pending"]
<1>0. ListFits(requests) /\ ListFits(requestFile) /\ OutcomesFit /\ EditorsFit
  BY DEF ModsInv
<1>1. /\ editors[e].pc = "ask" /\ editors' = [editors EXCEPT ![e] = NoEditor]
      /\ UNCHANGED <<ini, requested, saves, outcomes, written, taken>>
  BY DEF AskAdds
<1>2. CASE UNCHANGED <<requests, requestFile>>
  BY <1>1, <1>2, NoEditorIs, EditorOnly
<1>3. CASE /\ ~(Cardinality(Pending(requests)) >= MaxPending)
           /\ \A n \in Pending(requests) : requests[n].item # editors[e].item
           /\ requests' = Append(requests, r) /\ requestFile' \in {requests', requestFile}
  <2>1. /\ editors[e].request \in 1..requested /\ editors[e].item \in Items /\ editors[e].request \in 1..MaxAsked
        /\ OnNoList(editors[e].request) /\ outcomes[editors[e].request] = {}
        /\ \A f \in Editors : f # e /\ editors[f].pc = "ask" => editors[f].request # editors[e].request
    BY <1>0, <1>1, AskersAreNew DEF EditorsFit, AsksFit
  <2>2. r \in Request /\ r.id = editors[e].request /\ r.item = editors[e].item /\ r.status = "pending"
    BY <2>1 DEF Request, Statuses
  <2> HIDE DEF r
  <2>3. requests \in Seq(Request) /\ Len(requests) \in Nat /\ DOMAIN requests = 1..Len(requests)
    BY <1>0, ListIsFinite DEF ListFits
  <2> DEFINE N == Len(requests) + 1
  <2>4. /\ requests' \in Seq(Request) /\ DOMAIN requests' = DOMAIN requests \cup {N} /\ N \notin DOMAIN requests
        /\ requests'[N] = r /\ \A n \in DOMAIN requests : requests'[n] = requests[n]
    BY <1>3, <2>2, <2>3
  <2> HIDE DEF N
  <2>5. /\ Pending(requests)' = Pending(requests) \cup {N} /\ N \notin Pending(requests)
        /\ DOMAIN requests' \ Pending(requests)' = DOMAIN requests \ Pending(requests)
    BY <2>2, <2>4 DEF Pending
  <2>6. Cardinality(Pending(requests)') <= MaxPending
    <3> DEFINE a == Cardinality(Pending(requests))
               b == Cardinality(Pending(requests)')
    <3>1. IsFiniteSet(Pending(requests)) /\ a \in Nat
      BY <2>3, ListIsFinite DEF Pending
    <3>2. b = a + 1 /\ MaxPending \in Nat /\ ~(a >= MaxPending)
      BY <1>3, <2>5, <3>1, FS_AddElement, ModsAssumption
    <3> HIDE DEF a, b
    <3>3. b <= MaxPending
      BY <3>1, <3>2
    <3> QED
      BY <3>3 DEF b
  <2>7. \A n \in DOMAIN requests' : requests'[n].id <= requested'
    BY <1>0, <1>1, <2>1, <2>2, <2>4 DEF ListFits, OutcomesFit
  <2>8. \A n, m \in DOMAIN requests' : requests'[n].id = requests'[m].id => n = m
    BY <1>0, <2>1, <2>2, <2>4 DEF ListFits, OnNoList
  <2>9. \A n, m \in Pending(requests)' : requests'[n].item = requests'[m].item => n = m
    <3>1. \A n \in Pending(requests) : n \in DOMAIN requests
      BY DEF Pending
    <3> QED
      BY <1>0, <1>3, <2>2, <2>4, <2>5, <3>1 DEF ListFits
  <2>10. ListFits(requests)'
    BY <1>0, <2>4, <2>5, <2>6, <2>7, <2>8, <2>9 DEF ListFits, Pending
  <2>11. ListFits(requestFile)'
    <3>1. CASE requestFile' = requests'
      BY <2>10, <3>1 DEF ListFits, Pending
    <3>2. CASE requestFile' = requestFile
      BY <1>0, <1>1, <3>2 DEF ListFits, Pending
    <3> QED
      BY <1>3, <3>1, <3>2
  <2>12. OutcomesFit'
    <3>1. \A n \in Pending(requests)' : outcomes'[requests'[n].id] = {}
      <4>1. \A n \in Pending(requests) : n \in DOMAIN requests /\ outcomes[requests[n].id] = {}
        BY <1>0 DEF OutcomesFit, Pending
      <4> QED
        BY <1>1, <2>1, <2>2, <2>4, <2>5, <4>1
    <3> QED
      BY <1>0, <1>1, <3>1 DEF OutcomesFit
  <2>13. ASSUME NEW f \in Editors \ {e}, editors[f].pc = "ask"
         PROVE  OnNoList(editors[f].request)' /\ outcomes'[editors[f].request] = {}
    <3>1. editors'[f] = editors[f] /\ editors[f].request # editors[e].request
      BY <1>0, <1>1, <2>1, <2>13 DEF EditorsFit
    <3>2. OnNoList(editors[f].request) /\ outcomes[editors[f].request] = {}
      BY <1>0, <2>13, AskersAreNew
    <3>3. \A n \in DOMAIN requests' : requests'[n].id # editors[f].request
      BY <2>2, <2>4, <3>1, <3>2 DEF OnNoList
    <3> QED
      BY <1>1, <1>3, <3>1, <3>2, <3>3 DEF OnNoList
  <2>14. EditorsFit'
    BY <1>0, <1>1, <2>13, NoEditorIs, EditorMoves DEF EditorsFit
  <2> QED
    BY <2>10, <2>11, <2>12, <2>14 DEF ModsInv
<1>4. \/ UNCHANGED <<requests, requestFile>>
      \/ /\ ~(Cardinality(Pending(requests)) >= MaxPending)
         /\ \A n \in Pending(requests) : requests[n].item # editors[e].item
         /\ requests' = Append(requests, r) /\ requestFile' \in {requests', requestFile}
  BY DEF AskAdds
<1> QED
  BY <1>2, <1>3, <1>4

LEMMA DecideStep ==
    ASSUME ModsInv,
           \/ \E id \in 1..MaxAsked : Rejects(id)
           \/ \E e \in Editors : ApproveDecides(e)
    PROVE  ModsInv'
<1>0. ListFits(requests) /\ ListFits(requestFile) /\ OutcomesFit /\ EditorsFit
  BY DEF ModsInv
<1>1. ASSUME NEW id \in 1..MaxAsked, Rejects(id) PROVE ModsInv'
  <2>1. Decides(id, "rejected") /\ UNCHANGED <<ini, editors, requested, written, taken>>
    BY <1>1 DEF Rejects
  <2>2. /\ ListFits(requests)' /\ ListFits(requestFile)' /\ OutcomesFit'
        /\ \A x \in 1..MaxAsked : OnNoList(x) => OnNoList(x)' /\ outcomes'[x] = outcomes[x]
    BY <1>0, <2>1, DecidesOnce
  <2>3. ASSUME NEW e \in Editors PROVE AsksFit(e)' /\ EditsFit(e)'
    <3>1. AsksFit(e) /\ EditsFit(e)
      BY <1>0 DEF EditorsFit
    <3>2. EditsFit(e)'
      BY <2>1, <3>1 DEF EditsFit
    <3>3. ASSUME editors[e].pc = "ask" PROVE AsksFit(e)'
      <4>1. PICK x \in 1..MaxAsked : x = editors[e].request /\ OnNoList(x) /\ outcomes[x] = {}
        BY <1>0, <3>3, AskersAreNew
      <4>2. OnNoList(x)' /\ outcomes'[x] = {}
        BY <2>2, <4>1
      <4> QED
        BY <2>1, <3>1, <3>3, <4>1, <4>2 DEF AsksFit, OnNoList
    <3> QED
      BY <2>1, <3>2, <3>3 DEF AsksFit
  <2>4. EditorsFit'
    BY <1>0, <2>1, <2>3 DEF EditorsFit
  <2> QED
    BY <2>2, <2>4 DEF ModsInv
<1>2. ASSUME NEW e \in Editors, ApproveDecides(e) PROVE ModsInv'
  <2>1. /\ editors[e].pc = "decide" /\ Decides(editors[e].request, "approved")
        /\ editors' = [editors EXCEPT ![e] = NoEditor]
        /\ UNCHANGED <<ini, requested, saves, written, taken>>
    BY <1>2 DEF ApproveDecides
  <2>0. CASE ~IsPending(editors[e].request)
    BY <2>0, <2>1, NoEditorIs, EditorOnly DEF Decides
  <2>2. CASE IsPending(editors[e].request)
    <3>0. editors[e].request \in 1..MaxAsked
      <4>1. PICK n \in DOMAIN requests : requests[n].id = editors[e].request
        BY <2>2 DEF IsPending, Find
      <4>2. requests \in Seq(Request)
        BY <1>0 DEF ListFits
      <4>3. requests[n] \in Request
        BY <4>2
      <4> QED
        BY <4>1, <4>3 DEF Request
    <3>1. PICK id \in 1..MaxAsked : id = editors[e].request /\ id \in written
      BY <1>0, <2>1, <3>0 DEF EditorsFit, EditsFit
    <3>2. /\ ListFits(requests)' /\ ListFits(requestFile)' /\ OutcomesFit'
          /\ \A x \in 1..MaxAsked : OnNoList(x) => OnNoList(x)' /\ outcomes'[x] = outcomes[x]
      BY <1>0, <2>1, <3>1, DecidesOnce
    <3>3. ASSUME NEW f \in Editors \ {e}, editors[f].pc = "ask"
          PROVE  OnNoList(editors[f].request)' /\ outcomes'[editors[f].request] = {}
      <4>1. PICK x \in 1..MaxAsked : x = editors[f].request /\ OnNoList(x) /\ outcomes[x] = {}
        BY <1>0, <3>3, AskersAreNew
      <4>2. OnNoList(x)' /\ outcomes'[x] = {}
        BY <3>2, <4>1
      <4>3. editors'[f] = editors[f]
        BY <1>0, <2>1 DEF EditorsFit
      <4> QED
        BY <4>1, <4>2, <4>3 DEF OnNoList
    <3>4. EditorsFit'
      BY <1>0, <2>1, <3>3, NoEditorIs, EditorMoves DEF EditorsFit
    <3> QED
      BY <3>2, <3>4 DEF ModsInv
  <2> QED
    BY <2>0, <2>2
<1> QED
  BY <1>1, <1>2

LEMMA ReadStep ==
    ASSUME ModsInv, NEW e \in Editors,
           \/ \E id \in 1..MaxAsked : ApproveReads(e, id)
           \/ \E item \in Items : PageReads(e, {item}, {}) \/ PageReads(e, {}, {item})
           \/ FormReads(e) \/ SaveFails(e)
    PROVE  ModsInv'
<1>0. /\ ini.items \in SUBSET Items /\ NoEditor \in EditorRecord
      /\ requests \in Seq(Request)
  BY NoEditorIs DEF ModsInv, EditorsFit, Lines, ListFits
<1>6. /\ "load" \in Pcs /\ "approve" \in EditorKinds /\ "page" \in EditorKinds /\ "form" \in EditorKinds
  BY DEF Pcs, EditorKinds
<1>1. ASSUME NEW id \in 1..MaxAsked, ApproveReads(e, id) PROVE ModsInv'
  <2>1. PICK n \in Find(requests, id) : n = CHOOSE m \in Find(requests, id) : TRUE
    BY <1>1 DEF ApproveReads, IsPending
  <2>2. requests[n] \in Request
    BY <1>0, <2>1 DEF Find
  <2>3. PICK item \in Items : item = requests[n].item
    BY <2>2 DEF Request
  <2> DEFINE list == ini.items \cup {item}
             r == [NoEditor EXCEPT !.pc = "load", !.kind = "approve", !.request = id,
                                   !.item = item, !.list = list, !.knew = ini.items]
  <2>4. editors' = [editors EXCEPT ![e] = r]
    BY <1>1, <2>1, <2>3 DEF ApproveReads
  <2>5. r \in EditorRecord
    <3>1. list \in SUBSET Items /\ id \in 0..MaxAsked
      BY <1>0, ModsAssumption
    <3> HIDE DEF list
    <3> QED
      BY <1>0, <1>6, <3>1, EditorApproves
  <2>6. r.pc = "load" /\ r.kind = "approve" /\ r.list = list /\ r.knew = ini.items
    BY <1>0 DEF EditorRecord
  <2>7. UNCHANGED <<ini, requests, requestFile, requested, outcomes, written, taken>>
    BY <1>1 DEF ApproveReads
  <2>8. r.knew \ r.off \subseteq r.list
    BY <2>6
  <2> HIDE DEF r
  <2> QED
    BY <2>4, <2>5, <2>6, <2>7, <2>8, EditorOnly
<1>2. ASSUME NEW off \in SUBSET Items, NEW on \in SUBSET Items, PageReads(e, off, on) PROVE ModsInv'
  <2> DEFINE list == (ini.items \ off) \cup on
             r == [NoEditor EXCEPT !.pc = "load", !.kind = "page", !.list = list, !.knew = ini.items, !.off = off]
  <2>4. editors' = [editors EXCEPT ![e] = r]
    BY <1>2 DEF PageReads
  <2>5. r \in EditorRecord
    <3>1. list \in SUBSET Items
      BY <1>0
    <3> HIDE DEF list
    <3> QED
      BY <1>0, <1>6, <3>1, EditorShows
  <2>6. r.pc = "load" /\ r.kind = "page" /\ r.list = list /\ r.knew = ini.items /\ r.off = off
    BY <1>0 DEF EditorRecord
  <2>7. UNCHANGED <<ini, requests, requestFile, requested, outcomes, written, taken>>
    BY <1>2 DEF PageReads
  <2>8. r.knew \ r.off \subseteq r.list
    BY <2>6
  <2> HIDE DEF r
  <2> QED
    BY <2>4, <2>5, <2>6, <2>7, <2>8, EditorOnly
<1>3. ASSUME FormReads(e) PROVE ModsInv'
  <2> DEFINE r == [NoEditor EXCEPT !.pc = "load", !.kind = "form"]
  <2>4. editors' = [editors EXCEPT ![e] = r]
    BY <1>3 DEF FormReads
  <2>5. r \in EditorRecord
    BY <1>0, <1>6, EditorEdits
  <2>6. r.pc = "load" /\ r.kind = "form"
    BY <1>0 DEF EditorRecord
  <2>7. UNCHANGED <<ini, requests, requestFile, requested, outcomes, written, taken>>
    BY <1>3 DEF FormReads
  <2> HIDE DEF r
  <2> QED
    BY <2>4, <2>5, <2>6, <2>7, EditorOnly
<1>4. ASSUME SaveFails(e) PROVE ModsInv'
  BY <1>4, NoEditorIs, EditorOnly DEF SaveFails
<1>5. ASSUME NEW item \in Items, PageReads(e, {item}, {}) \/ PageReads(e, {}, {item}) PROVE ModsInv'
  <2>1. {item} \in SUBSET Items /\ {} \in SUBSET Items
    OBVIOUS
  <2>2. CASE PageReads(e, {item}, {})
    BY <1>2, <2>1, <2>2, Zenon
  <2>3. CASE PageReads(e, {}, {item})
    BY <1>2, <2>1, <2>3, Zenon
  <2> QED
    BY <1>5, <2>2, <2>3
<1> QED
  BY <1>1, <1>3, <1>4, <1>5

LEMMA LoadStep ==
    ASSUME ModsInv, NEW e \in Editors, EditorLoads(e)
    PROVE  ModsInv'
<1>0. /\ ini \in Lines /\ editors \in [Editors -> EditorRecord] /\ editors[e] \in EditorRecord
      /\ EditsFit(e) /\ editors[e].pc = "load"
      /\ UNCHANGED <<ini, requests, requestFile, requested, outcomes, written, taken>>
  BY DEF ModsInv, EditorsFit, EditorLoads
<1>1. CASE editors' = [editors EXCEPT ![e] = NoEditor]
  BY <1>0, <1>1, NoEditorIs, EditorOnly
<1>2. CASE editors' = [editors EXCEPT ![e].pc = "save", ![e].loaded = ini,
                         ![e].knew = IF editors[e].kind = "form" THEN ini.items ELSE @]
  <2> DEFINE knew == IF editors[e].kind = "form" THEN ini.items ELSE editors[e].knew
             r == [editors[e] EXCEPT !.pc = "save", !.loaded = ini, !.knew = knew]
  <2>1. editors' = [editors EXCEPT ![e] = r]
    BY <1>0, <1>2
  <2>2. knew \in SUBSET Items
    BY <1>0 DEF EditorRecord, Lines
  <2>3. r \in EditorRecord
    <3> HIDE DEF knew
    <3> QED
      BY <1>0, <2>2, EditorHasLoaded DEF Pcs
  <2>4. /\ r.pc = "save" /\ r.loaded = ini /\ r.knew = knew /\ r.kind = editors[e].kind
        /\ r.list = editors[e].list /\ r.off = editors[e].off
    <3> HIDE DEF knew
    <3> QED
      BY <1>0 DEF EditorRecord
  <2> HIDE DEF r
  <2>5. /\ r.kind \in {"approve", "page", "form"}
        /\ r.kind # "form" => r.knew \ r.off \subseteq r.list
        /\ r.kind = "form" => r.loaded.items = r.knew
    BY <1>0, <2>4 DEF EditsFit
  <2> QED
    BY <1>0, <2>1, <2>3, <2>4, <2>5, EditorOnly
<1> QED
  BY <1>1, <1>2 DEF EditorLoads

\* What is written has all that was known, but what was taken off.
LEMMA SaveStep ==
    ASSUME ModsInv, NEW e \in Editors, EditorSaves(e)
    PROVE  ModsInv'
<1> DEFINE me == editors[e]
<1>0. /\ ListFits(requests) /\ ListFits(requestFile) /\ OutcomesFit /\ EditorsFit
      /\ ini \in Lines /\ editors \in [Editors -> EditorRecord] /\ me \in EditorRecord
      /\ EditsFit(e) /\ me.pc = "save" /\ taken = {}
      /\ UNCHANGED <<requests, requestFile, requested, outcomes>>
  BY DEF ModsInv, EditorsFit, EditorSaves
<1>1. /\ me.loaded \in Lines /\ me.list \in SUBSET Items /\ me.kind \in {"approve", "page", "form"}
      /\ me.kind # "form" => me.knew \ me.off \subseteq me.list
      /\ me.kind = "form" => me.loaded.items = me.knew
  BY <1>0 DEF EditorRecord, EditsFit
<1>2. ini' \in Lines /\ (me.knew \ me.off) \subseteq ini'.items
  <2>1. CASE me.kind = "form"
    <3>1. ini' = [me.loaded EXCEPT !.other = 1]
      BY <2>1 DEF EditorSaves, Saved
    <3> HIDE DEF me
    <3> QED
      BY <1>1, <2>1, <3>1 DEF Lines
  <2>2. CASE me.kind # "form"
    <3>1. ini' = [me.loaded EXCEPT !.items = me.list]
      BY <2>2 DEF EditorSaves, Saved
    <3> HIDE DEF me
    <3> QED
      BY <1>1, <2>2, <3>1 DEF Lines
  <2> QED
    BY <2>1, <2>2
<1>3. taken' = {}
  BY <1>0, <1>2 DEF EditorSaves
<1>4. written \subseteq written' /\ (me.kind = "approve" => me.request \in written')
  BY DEF EditorSaves
<1>5. PICK r \in EditorRecord : /\ editors' = [editors EXCEPT ![e] = r]
                                /\ \/ r.pc = "idle"
                                   \/ r.pc = "decide" /\ r.request \in written'
  <2>1. CASE me.kind = "approve"
    <3> DEFINE r == [editors[e] EXCEPT !.pc = "decide"]
    <3>1. editors' = [editors EXCEPT ![e] = r]
      BY <2>1 DEF EditorSaves
    <3>2. r \in EditorRecord
      BY <1>0, EditorBecomes DEF Pcs
    <3>3. r.pc = "decide" /\ r.request = editors[e].request
      BY <1>0 DEF EditorRecord
    <3> HIDE DEF r
    <3> QED
      BY <1>4, <2>1, <3>1, <3>2, <3>3
  <2>2. CASE me.kind # "approve"
    BY <2>2, NoEditorIs DEF EditorSaves
  <2> QED
    BY <2>1, <2>2
<1>6. ListFits(requests)' /\ ListFits(requestFile)' /\ OutcomesFit'
  BY <1>0, <1>4, ListsStay
<1>7. ASSUME NEW f \in Editors \ {e}, editors[f].pc = "ask"
      PROVE  OnNoList(editors[f].request)' /\ outcomes'[editors[f].request] = {}
  <2>1. editors'[f] = editors[f]
    BY <1>0, <1>5
  <2> QED
    BY <1>0, <1>7, <2>1, AskersAreNew DEF OnNoList
<1>8. EditorsFit'
  BY <1>0, <1>2, <1>3, <1>4, <1>5, <1>7, EditorMoves
<1> QED
  BY <1>6, <1>8 DEF ModsInv

\* What the file has waiting is undecided again.
LEMMA RestartStep ==
    ASSUME ModsInv, ModsRestart
    PROVE  ModsInv'
<1>0. /\ ListFits(requestFile) /\ OutcomesFit /\ EditorsFit
      /\ requests' = requestFile /\ requestFile' = requestFile
      /\ editors' = [e \in Editors |-> NoEditor]
      /\ UNCHANGED <<ini, requested, saves, written, taken>>
  BY DEF ModsInv, ModsRestart
<1>1. ListFits(requests)' /\ ListFits(requestFile)'
  BY <1>0 DEF ListFits, Pending
<1>2. OutcomesFit'
  <2> DEFINE StillWaits(id) == \E n \in Find(requestFile, id) : requestFile[n].status = "pending"
  <2>1. outcomes' = [id \in 1..MaxAsked |-> IF StillWaits(id) THEN {} ELSE outcomes[id]]
    BY DEF ModsRestart
  <2>2. \A n \in DOMAIN requestFile : requestFile[n].id \in 1..MaxAsked
    <3>1. requestFile \in Seq(Request)
      BY <1>0 DEF ListFits
    <3>2. \A n \in DOMAIN requestFile : requestFile[n] \in Request
      BY <3>1
    <3> QED
      BY <3>2 DEF Request
  <2>3. \A n \in Pending(requests)' : outcomes'[requests'[n].id] = {}
    <3> SUFFICES ASSUME NEW n \in DOMAIN requestFile, requestFile[n].status = "pending"
                 PROVE  outcomes'[requestFile[n].id] = {}
      BY <1>0 DEF Pending
    <3>1. StillWaits(requestFile[n].id)
      BY DEF Find
    <3> QED
      BY <2>1, <2>2, <3>1
  <2>4. outcomes' \in [1..MaxAsked -> {{}, {"approved"}, {"rejected"}}]
    BY <1>0, <2>1 DEF OutcomesFit
  <2>5. \A id \in 1..MaxAsked : outcomes'[id] \in {{}, outcomes[id]}
    BY <2>1
  <2>6. \A id \in 1..MaxAsked : /\ id > requested' => outcomes'[id] = {}
                                /\ outcomes'[id] = {"approved"} => id \in written'
    BY <1>0, <2>5 DEF OutcomesFit
  <2> QED
    BY <1>0, <2>3, <2>4, <2>6 DEF OutcomesFit
<1>3. EditorsFit'
  BY <1>0, NoEditorIs DEF EditorsFit, AsksFit, EditsFit
<1> QED
  BY <1>1, <1>2, <1>3 DEF ModsInv

LEMMA ModsInitially == ModsInit => ModsInv
<1> SUFFICES ASSUME ModsInit PROVE ModsInv
  OBVIOUS
<1>1. ListFits(requests) /\ ListFits(requestFile)
  <2>1. \A list : list = << >> => ListFits(list)
    <3> SUFFICES ASSUME NEW list, list = << >> PROVE ListFits(list)
      OBVIOUS
    <3>1. list \in Seq(Request) /\ DOMAIN list = {} /\ Pending(list) = {} /\ DOMAIN list \ Pending(list) = {}
      BY DEF Pending
    <3>2. 0 <= MaxPending /\ 0 <= MaxDecided
      BY ModsAssumption
    <3> HIDE DEF ListFits
    <3>3. Cardinality(Pending(list)) <= MaxPending /\ Cardinality(DOMAIN list \ Pending(list)) <= MaxDecided
      BY <3>1, <3>2, FS_EmptySet, Zenon
    <3> QED
      BY <3>1, <3>3 DEF ListFits
  <2> QED
    BY <2>1 DEF ModsInit
<1>2. OutcomesFit
  BY ModsAssumption DEF ModsInit, OutcomesFit, Pending
<1>3. ini \in Lines /\ taken = {}
  BY DEF ModsInit, Lines
<1>4. EditorsFit
  BY <1>3, NoEditorIs DEF ModsInit, EditorsFit, AsksFit, EditsFit
<1> QED
  BY <1>1, <1>2, <1>4 DEF ModsInv

LEMMA ModsStep == ModsInv /\ [ModsNext]_modVars => ModsInv'
<1> SUFFICES ASSUME ModsInv, [ModsNext]_modVars PROVE ModsInv'
  OBVIOUS
<1>1. CASE UNCHANGED modVars
  <2>1. ListFits(requests)' /\ ListFits(requestFile)' /\ OutcomesFit'
    BY <1>1, ListsStay DEF modVars, ModsInv
  <2>2. EditorsFit'
    BY <1>1 DEF modVars, ModsInv, EditorsFit, AsksFit, EditsFit
  <2> QED
    BY <2>1, <2>2 DEF ModsInv
<1>2. CASE \E id \in 1..MaxAsked : Rejects(id)
  BY <1>2, DecideStep
<1>3. CASE ModsRestart
  BY <1>3, RestartStep
<1>4. ASSUME NEW e \in Editors,
             \/ \E item \in Items : AskChecks(e, item)
             \/ AskAdds(e) \/ FormReads(e)
             \/ \E id \in 1..MaxAsked : ApproveReads(e, id)
             \/ \E item \in Items : PageReads(e, {item}, {}) \/ PageReads(e, {}, {item})
             \/ EditorLoads(e) \/ EditorSaves(e) \/ SaveFails(e) \/ ApproveDecides(e)
      PROVE  ModsInv'
  BY <1>4, AskStep, AddStep, ReadStep, LoadStep, SaveStep, DecideStep
<1> QED
  BY <1>1, <1>2, <1>3, <1>4 DEF ModsNext

LEMMA ModsHold == ModsInv => RequestsAreSettled
<1> SUFFICES ASSUME ModsInv PROVE RequestsAreSettled
  OBVIOUS
<1>1. ListIsBounded
  BY DEF ModsInv, ListFits, ListIsBounded
<1>2. DecidedOnce
  <2>1. ASSUME NEW o \in {{}, {"approved"}, {"rejected"}} PROVE Cardinality(o) <= 1
    <3>1. CASE o = {}
      <4>1. Cardinality(o) = 0
        BY <3>1, FS_EmptySet
      <4> QED
        BY <4>1
    <3>2. CASE o # {}
      <4>1. PICK x : o = {x}
        BY <3>2
      <4>2. Cardinality(o) = 1
        BY <4>1, FS_Singleton
      <4> QED
        BY <4>2
    <3> QED
      BY <3>1, <3>2
  <2> QED
    BY <2>1 DEF ModsInv, OutcomesFit, DecidedOnce
<1>3. KnownModsStay
  BY DEF ModsInv, EditorsFit, KnownModsStay
<1> QED
  BY <1>1, <1>2, <1>3 DEF RequestsAreSettled

\* However players, administrators, editors, failed saves and restarts meet,
\* the list stays bounded and an item waits once, each request is decided once
\* and called approved only when its item was written, and no editor drops a
\* mod it knew of.
THEOREM RequestsStaySettled == ModsSpec => []RequestsAreSettled
BY ModsInitially, ModsStep, ModsHold, PTL DEF ModsSpec

---------------------------------------------------------------------------
(***************************************************************************)
(* Events: every event on its way, and those that have arrived.            *)
(***************************************************************************)

Event == [source: Sources, number: Nat, kind: Kinds]

\* A source's event that is still to be posted to d.
Owed(s, d) ==
    \/ sources[s].pc \in {"publish", "log"}
    \/ sources[s].pc = "send" /\ d \in sources[s].todo

Before(e, f) == e.source = f.source => e.number < f.number

Delivering == worker.pc \in {"first", "again"}

EventTypes ==
    /\ sources \in [Sources -> [pc: {"idle", "publish", "log", "send"},
                                event: [source: Sources, number: Nat, kind: Kinds \cup {NoEvent.kind}],
                                todo: SUBSET Destinations]]
    /\ \A s \in Sources : sources[s].pc # "idle" => sources[s].event \in Event /\ sources[s].event.source = s
    /\ queue \in Seq([to: Destinations, event: Event])
    /\ worker.pc \in {"idle", "first", "again", "stopped"}
    /\ Delivering => worker \in [pc: {"first", "again"}, to: Destinations, event: Event]
    /\ arrived \in [Destinations -> Seq(Event)]
    /\ subs \in [Subscribers -> [queue: Seq(Event), sent: Seq(Event), open: BOOLEAN]]

\* What waits for a destination comes after what has arrived there, and what
\* its source still owes it after that.
QueueFits ==
    /\ \A n, m \in DOMAIN queue :
          n < m /\ queue[n].to = queue[m].to => Before(queue[n].event, queue[m].event)
    /\ \A m \in DOMAIN queue, d \in Destinations : queue[m].to = d =>
          /\ Delivering /\ worker.to = d => Before(worker.event, queue[m].event)
          /\ \A n \in DOMAIN arrived[d] : Before(arrived[d][n], queue[m].event)

WorkerFits ==
    Delivering => \A n \in DOMAIN arrived[worker.to] :
        \/ Before(arrived[worker.to][n], worker.event)
        \/ worker.pc = "again" /\ n = Len(arrived[worker.to]) /\ arrived[worker.to][n] = worker.event

ArrivedFit ==
    \A d \in Destinations : \A n, m \in DOMAIN arrived[d] : n < m =>
        \/ Before(arrived[d][n], arrived[d][m])
        \/ m = n + 1 /\ arrived[d][n] = arrived[d][m]

\* Nothing comes after what its source reported last.
Past(e, s, d) == e.source = s => /\ e.number <= sources[s].event.number
                                 /\ Owed(s, d) => e.number < sources[s].event.number

SourcesFit ==
    \A s \in Sources, d \in Destinations :
        /\ \A n \in DOMAIN queue : queue[n].to = d => Past(queue[n].event, s, d)
        /\ Delivering /\ worker.to = d => Past(worker.event, s, d)
        /\ \A n \in DOMAIN arrived[d] : Past(arrived[d][n], s, d)

Shown(u) == subs[u].sent \o subs[u].queue

StreamsAhead ==
    \A u \in Subscribers :
        /\ \A n, m \in DOMAIN Shown(u) : n < m => Before(Shown(u)[n], Shown(u)[m])
        /\ \A s \in Sources : \A n \in DOMAIN Shown(u) : Shown(u)[n].source = s =>
              /\ Shown(u)[n].number <= sources[s].event.number
              /\ sources[s].pc = "publish" => Shown(u)[n].number < sources[s].event.number

\* What was let through last is what the next one is held against.
WindowsFit ==
    /\ clock \in 0..LastClock
    /\ lastSent \in [Destinations -> [Kinds -> 0..LastClock \cup {Never}]]
    /\ accepted \in [Destinations -> [Kinds -> [at: 0..LastClock \cup {Never}, gap: 0..LastClock \cup {Never}]]]
    /\ \A d \in Destinations, k \in Kinds :
          /\ accepted[d][k].at = lastSent[d][k]
          /\ lastSent[d][k] = Never \/ lastSent[d][k] <= clock
          /\ accepted[d][k].gap = Never \/ accepted[d][k].gap >= Window[d]

EventsInv ==
    EventTypes /\ QueueFits /\ WorkerFits /\ ArrivedFit /\ SourcesFit /\ StreamsAhead /\ WindowsFit

NewsInv == QueueFits /\ WorkerFits /\ ArrivedFit /\ SourcesFit

LEMMA OnTheirWay ==
    ASSUME EventTypes
    PROVE  /\ \A n \in DOMAIN queue : queue[n].event \in Event /\ queue[n].to \in Destinations
           /\ Delivering => worker.event \in Event /\ worker.to \in Destinations
           /\ \A d \in Destinations : arrived[d] \in Seq(Event) /\ \A n \in DOMAIN arrived[d] : arrived[d][n] \in Event
<1>1. \A n \in DOMAIN queue : queue[n] \in [to: Destinations, event: Event]
  <2> DEFINE Deliveries == [to: Destinations, event: Event]
  <2>1. queue \in Seq(Deliveries)
    BY DEF EventTypes
  <2> HIDE DEF Deliveries
  <2>2. \A n \in DOMAIN queue : queue[n] \in Deliveries
    BY <2>1
  <2> QED
    BY <2>2 DEF Deliveries
<1>2. Delivering => worker \in [pc: {"first", "again"}, to: Destinations, event: Event]
  BY DEF EventTypes
<1>3. Delivering => worker.event \in Event /\ worker.to \in Destinations
  BY <1>2
<1>4. \A d \in Destinations : arrived[d] \in Seq(Event)
  BY DEF EventTypes
<1> QED
  BY <1>1, <1>3, <1>4

\* A source that reports its next event, or owes less than it did, leaves what
\* is on its way behind it.
LEMMA PastStays ==
    ASSUME EventTypes, NEW e \in Event, NEW s \in Sources, NEW d \in Destinations, Past(e, s, d),
           \/ sources'[s].event.number = sources[s].event.number + 1
           \/ sources'[s].event = sources[s].event /\ (Owed(s, d)' => Owed(s, d))
    PROVE  Past(e, s, d)'
<1>1. e.number \in Nat /\ sources[s].event.number \in Nat
  BY DEF EventTypes, Event
<1> QED
  BY <1>1 DEF Past

LEMMA NewsStay ==
    ASSUME EventTypes, NewsInv, UNCHANGED <<queue, worker, arrived>>,
           \A s \in Sources, d \in Destinations :
              \/ sources'[s].event.number = sources[s].event.number + 1
              \/ sources'[s].event = sources[s].event /\ (Owed(s, d)' => Owed(s, d))
    PROVE  NewsInv'
<1>1. QueueFits' /\ WorkerFits' /\ ArrivedFit'
  BY DEF NewsInv, QueueFits, WorkerFits, ArrivedFit, Delivering
<1>2. ASSUME NEW e \in Event, NEW s \in Sources, NEW d \in Destinations, Past(e, s, d)
      PROVE  Past(e, s, d)'
  BY <1>2, PastStays
<1>3. ASSUME NEW s \in Sources, NEW d \in Destinations
      PROVE  /\ \A n \in DOMAIN queue' : queue'[n].to = d => Past(queue[n].event, s, d)'
             /\ Delivering' /\ worker'.to = d => Past(worker.event, s, d)'
             /\ \A n \in DOMAIN arrived'[d] : Past(arrived[d][n], s, d)'
  <2>1. ASSUME NEW n \in DOMAIN queue, queue[n].to = d PROVE Past(queue[n].event, s, d)'
    <3>1. PICK e \in Event : e = queue[n].event
      BY OnTheirWay
    <3>2. Past(e, s, d)
      BY <2>1, <3>1 DEF NewsInv, SourcesFit
    <3> QED
      BY <1>2, <3>1, <3>2 DEF Past
  <2>2. ASSUME Delivering, worker.to = d PROVE Past(worker.event, s, d)'
    <3>1. PICK e \in Event : e = worker.event
      BY <2>2, OnTheirWay
    <3>2. Past(e, s, d)
      BY <2>2, <3>1 DEF NewsInv, SourcesFit
    <3> QED
      BY <1>2, <3>1, <3>2 DEF Past
  <2>3. ASSUME NEW n \in DOMAIN arrived[d] PROVE Past(arrived[d][n], s, d)'
    <3>1. PICK e \in Event : e = arrived[d][n]
      BY <2>3, OnTheirWay
    <3>2. Past(e, s, d)
      BY <2>3, <3>1 DEF NewsInv, SourcesFit
    <3> QED
      BY <1>2, <3>1, <3>2 DEF Past
  <2> QED
    BY <2>1, <2>2, <2>3 DEF Delivering
<1>4. SourcesFit'
  BY <1>3 DEF SourcesFit
<1> QED
  BY <1>1, <1>4 DEF NewsInv

\* What a source still owes a destination may join the queue's end.
LEMMA NewsGrow ==
    ASSUME EventTypes, NewsInv, NEW s \in Sources, NEW d \in Destinations, sources[s].pc = "send",
           Owed(s, d), NEW one, one.to = d, one.event = sources[s].event,
           queue' = Append(queue, one), UNCHANGED <<worker, arrived>>,
           \A t \in Sources : /\ sources'[t].event = sources[t].event
                              /\ \A c \in Destinations : Owed(t, c)' => Owed(t, c),
           ~Owed(s, d)'
    PROVE  NewsInv'
<1> DEFINE e == sources[s].event
           N == Len(queue) + 1
<1>0. /\ e \in Event /\ e.source = s /\ e.number \in Nat
      /\ queue \in Seq([to: Destinations, event: Event]) /\ Len(queue) \in Nat
  BY DEF EventTypes, Event
<1>1. /\ DOMAIN queue' = 1..N /\ DOMAIN queue = 1..(N - 1) /\ queue'[N] = one /\ N \in Nat
      /\ \A n \in DOMAIN queue : n \in DOMAIN queue' /\ queue'[n] = queue[n]
      /\ \A n \in DOMAIN queue' : n # N => n \in DOMAIN queue
  BY <1>0
<1> HIDE DEF N
<1>2. /\ \A n \in DOMAIN queue : queue[n].to = d => Before(queue[n].event, e)
      /\ Delivering /\ worker.to = d => Before(worker.event, e)
      /\ \A n \in DOMAIN arrived[d] : Before(arrived[d][n], e)
  BY <1>0 DEF NewsInv, SourcesFit, Past, Before
<1>3. QueueFits'
  <2>1. \A n, m \in DOMAIN queue' :
           n < m /\ queue'[n].to = queue'[m].to => Before(queue'[n].event, queue'[m].event)
    <3> SUFFICES ASSUME NEW n \in DOMAIN queue', NEW m \in DOMAIN queue', n < m, queue'[n].to = queue'[m].to
                 PROVE  Before(queue'[n].event, queue'[m].event)
      OBVIOUS
    <3>1. n # N /\ n \in DOMAIN queue /\ queue'[n] = queue[n]
      BY <1>1
    <3>2. CASE m = N
      BY <1>1, <1>2, <3>1, <3>2
    <3>3. CASE m # N
      BY <1>1, <3>1, <3>3 DEF NewsInv, QueueFits
    <3> QED
      BY <3>2, <3>3
  <2>2. ASSUME NEW m \in DOMAIN queue', NEW c \in Destinations, queue'[m].to = c
        PROVE  /\ Delivering /\ worker.to = c => Before(worker.event, queue'[m].event)
               /\ \A n \in DOMAIN arrived[c] : Before(arrived[c][n], queue'[m].event)
    <3>1. CASE m = N
      BY <1>1, <1>2, <2>2, <3>1
    <3>2. CASE m # N
      BY <1>1, <2>2, <3>2 DEF NewsInv, QueueFits
    <3> QED
      BY <3>1, <3>2
  <2> QED
    BY <2>1, <2>2 DEF QueueFits, Delivering
<1>4. WorkerFits' /\ ArrivedFit'
  BY DEF NewsInv, WorkerFits, ArrivedFit, Delivering
<1>5. ASSUME NEW f \in Event, NEW t \in Sources, NEW c \in Destinations, Past(f, t, c)
      PROVE  Past(f, t, c)'
  BY <1>5 DEF Past
<1>6. ASSUME NEW t \in Sources, NEW f \in Event, f = e PROVE Past(f, t, d)'
  <2>1. e.source = t => t = s
    BY <1>0
  <2> QED
    BY <1>0, <1>6, <2>1 DEF Past
<1>7. ASSUME NEW t \in Sources, NEW c \in Destinations
      PROVE  /\ \A n \in DOMAIN queue' : queue'[n].to = c => Past(queue[n].event, t, c)'
             /\ Delivering' /\ worker'.to = c => Past(worker.event, t, c)'
             /\ \A n \in DOMAIN arrived'[c] : Past(arrived[c][n], t, c)'
  <2>1. ASSUME NEW n \in DOMAIN queue', queue'[n].to = c PROVE Past(queue[n].event, t, c)'
    <3>1. CASE n = N
      <4>1. PICK f \in Event : f = e
        BY <1>0
      <4>2. queue'[n].event = f /\ c = d
        BY <1>1, <2>1, <3>1, <4>1
      <4> QED
        BY <1>6, <4>1, <4>2 DEF Past
    <3>2. CASE n # N
      <4>1. n \in DOMAIN queue /\ queue'[n] = queue[n]
        BY <1>1, <3>2
      <4>2. PICK f \in Event : f = queue[n].event
        BY <4>1, OnTheirWay
      <4>3. Past(f, t, c)
        BY <2>1, <4>1, <4>2 DEF NewsInv, SourcesFit
      <4> QED
        BY <1>5, <4>1, <4>2, <4>3 DEF Past
    <3> QED
      BY <3>1, <3>2
  <2>2. ASSUME Delivering, worker.to = c PROVE Past(worker.event, t, c)'
    <3>1. PICK f \in Event : f = worker.event
      BY <2>2, OnTheirWay
    <3>2. Past(f, t, c)
      BY <2>2, <3>1 DEF NewsInv, SourcesFit
    <3> QED
      BY <1>5, <3>1, <3>2 DEF Past
  <2>3. ASSUME NEW n \in DOMAIN arrived[c] PROVE Past(arrived[c][n], t, c)'
    <3>1. PICK f \in Event : f = arrived[c][n]
      BY <2>3, OnTheirWay
    <3>2. Past(f, t, c)
      BY <2>3, <3>1 DEF NewsInv, SourcesFit
    <3> QED
      BY <1>5, <3>1, <3>2 DEF Past
  <2> QED
    BY <2>1, <2>2, <2>3 DEF Delivering
<1>8. SourcesFit'
  BY <1>7 DEF SourcesFit
<1> QED
  BY <1>3, <1>4, <1>8 DEF NewsInv

\* The worker's next post is the oldest that waits for its destination.
LEMMA TakeSteps ==
    ASSUME EventTypes, NewsInv, WorkerTakes
    PROVE  EventTypes' /\ NewsInv'
<1> DEFINE Deliveries == [to: Destinations, event: Event]
           one == queue[1]
<1>0. /\ queue \in Seq(Deliveries) /\ queue # << >> /\ worker.pc = "idle"
      /\ queue' = Tail(queue) /\ UNCHANGED <<sources, subs, arrived>>
      /\ worker' = [pc |-> "first", to |-> one.to, event |-> one.event]
  BY DEF EventTypes, WorkerTakes
<1> HIDE DEF Deliveries
<1>1. /\ Len(queue) \in Nat /\ Len(queue) > 0 /\ queue' \in Seq(Deliveries)
      /\ \A n \in DOMAIN queue' : n + 1 \in DOMAIN queue /\ queue'[n] = queue[n + 1] /\ n + 1 > 1
      /\ 1 \in DOMAIN queue /\ one \in Deliveries
      /\ \A n, m \in DOMAIN queue' : n < m => n + 1 < m + 1
  BY <1>0
<1>2. one.to \in Destinations /\ one.event \in Event
  BY <1>1 DEF Deliveries
<1> HIDE DEF one
<1>3. worker'.pc = "first" /\ worker'.to = one.to /\ worker'.event = one.event /\ Delivering'
  BY <1>0 DEF Delivering
<1>4. worker' \in [pc: {"first", "again"}, to: Destinations, event: Event]
  BY <1>0, <1>2
<1>5. EventTypes'
  BY <1>0, <1>1, <1>3, <1>4 DEF EventTypes, Deliveries
<1>6. QueueFits'
  <2>1. ASSUME NEW n \in DOMAIN queue', NEW m \in DOMAIN queue', n < m, queue'[n].to = queue'[m].to
        PROVE  Before(queue'[n].event, queue'[m].event)
    BY <1>1, <2>1 DEF NewsInv, QueueFits
  <2>2. ASSUME NEW m \in DOMAIN queue', NEW d \in Destinations, queue'[m].to = d
        PROVE  /\ worker'.to = d => Before(worker'.event, queue'[m].event)
               /\ \A n \in DOMAIN arrived[d] : Before(arrived[d][n], queue'[m].event)
    <3>1. m + 1 \in DOMAIN queue /\ queue'[m] = queue[m + 1] /\ 1 < m + 1
      BY <1>1
    <3>2. one.to = d => Before(one.event, queue[m + 1].event)
      BY <1>1, <2>2, <3>1 DEF NewsInv, QueueFits, one
    <3> QED
      BY <1>3, <2>2, <3>1, <3>2 DEF NewsInv, QueueFits
  <2> QED
    BY <1>0, <2>1, <2>2 DEF QueueFits
<1>7. \A n \in DOMAIN arrived[one.to] : Before(arrived[one.to][n], one.event)
  BY <1>1, <1>2 DEF NewsInv, QueueFits, one
<1>8. WorkerFits' /\ ArrivedFit'
  BY <1>0, <1>3, <1>7 DEF NewsInv, WorkerFits, ArrivedFit
<1>9. ASSUME NEW s \in Sources, NEW d \in Destinations
      PROVE  /\ \A n \in DOMAIN queue' : queue'[n].to = d => Past(queue[n].event, s, d)'
             /\ worker'.to = d => Past(worker.event, s, d)'
             /\ \A n \in DOMAIN arrived'[d] : Past(arrived[d][n], s, d)'
  <2>0. \A e : Past(e, s, d) => Past(e, s, d)'
    BY <1>0 DEF Past, Owed
  <2>1. ASSUME NEW n \in DOMAIN queue', queue'[n].to = d PROVE Past(queue[n].event, s, d)'
    <3>1. PICK e : e = queue[n + 1].event
      OBVIOUS
    <3>2. Past(e, s, d) /\ queue'[n].event = e
      BY <1>1, <2>1, <3>1 DEF NewsInv, SourcesFit
    <3> QED
      BY <2>0, <3>2 DEF Past
  <2>2. ASSUME worker'.to = d PROVE Past(worker.event, s, d)'
    <3>1. PICK e : e = one.event
      OBVIOUS
    <3>2. Past(e, s, d) /\ worker'.event = e
      BY <1>1, <1>3, <2>2, <3>1 DEF NewsInv, SourcesFit, one
    <3> QED
      BY <2>0, <3>2 DEF Past
  <2>3. ASSUME NEW n \in DOMAIN arrived[d] PROVE Past(arrived[d][n], s, d)'
    BY <1>0, <2>0, <2>3 DEF NewsInv, SourcesFit, Past, Owed
  <2> QED
    BY <1>0, <2>1, <2>2, <2>3
<1>10. SourcesFit'
  BY <1>9 DEF SourcesFit
<1> QED
  BY <1>5, <1>6, <1>8, <1>10 DEF NewsInv

\* A post that arrives, or not, and is done with, or tried again.
LEMMA PostSteps ==
    ASSUME EventTypes, NewsInv, WorkerPosts
    PROVE  EventTypes' /\ NewsInv'
<1> DEFINE d == worker.to
           e == worker.event
           N == Len(arrived[d]) + 1
           again == [worker EXCEPT !.pc = "again"]
<1>0. /\ Delivering /\ UNCHANGED <<sources, subs, queue>>
      /\ worker \in [pc: {"first", "again"}, to: Destinations, event: Event]
      /\ arrived \in [Destinations -> Seq(Event)]
      /\ \/ arrived' = arrived
         \/ arrived' = [arrived EXCEPT ![d] = Append(@, e)]
      /\ \/ worker' = NotPosting
         \/ worker' = again /\ worker.pc = "first"
  <2>1. Delivering /\ UNCHANGED <<sources, subs, queue>>
    BY DEF WorkerPosts, Delivering
  <2>2. /\ worker \in [pc: {"first", "again"}, to: Destinations, event: Event]
        /\ arrived \in [Destinations -> Seq(Event)]
    BY <2>1 DEF EventTypes
  <2>3. \/ worker' = NotPosting
        \/ worker' = again /\ worker.pc = "first"
    BY DEF WorkerPosts
  <2>4. \/ arrived' = arrived
        \/ arrived' = [arrived EXCEPT ![d] = Append(@, e)]
    BY DEF WorkerPosts, Posted
  <2> QED
    BY <2>1, <2>2, <2>3, <2>4
<1>1. d \in Destinations /\ e \in Event /\ NotPosting.pc = "idle" /\ arrived[d] \in Seq(Event) /\ N \in Nat
  BY <1>0 DEF NotPosting
<1>2. /\ again.pc = "again" /\ again.to = d /\ again.event = e
      /\ again \in [pc: {"first", "again"}, to: Destinations, event: Event]
  BY <1>0
<1>3. \/ worker' = NotPosting /\ worker'.pc = "idle" /\ ~Delivering'
      \/ /\ worker' = again /\ worker'.pc = "again" /\ Delivering' /\ worker'.to = d /\ worker'.event = e
         /\ worker.pc = "first"
  BY <1>0, <1>1, <1>2 DEF Delivering
<1>4. /\ \A n \in DOMAIN arrived[d] : \/ Before(arrived[d][n], e)
                                      \/ worker.pc = "again" /\ n = N - 1 /\ arrived[d][n] = e
  BY <1>0, <1>1 DEF NewsInv, WorkerFits
<1> HIDE DEF d, e, again
<1>5. CASE arrived' = arrived
  <2>1. EventTypes'
    BY <1>0, <1>2, <1>3, <1>5 DEF EventTypes, Delivering
  <2>2. QueueFits'
    <3>1. ASSUME NEW m \in DOMAIN queue, NEW c \in Destinations, queue[m].to = c
          PROVE  /\ Delivering' /\ worker'.to = c => Before(worker'.event, queue[m].event)
                 /\ \A n \in DOMAIN arrived[c] : Before(arrived[c][n], queue[m].event)
      <4>1. d = c => Before(e, queue[m].event)
        BY <1>0, <3>1 DEF NewsInv, QueueFits, d, e
      <4>2. \A n \in DOMAIN arrived[c] : Before(arrived[c][n], queue[m].event)
        BY <3>1 DEF NewsInv, QueueFits
      <4> QED
        BY <1>3, <4>1, <4>2
    <3>2. \A n, m \in DOMAIN queue :
             n < m /\ queue[n].to = queue[m].to => Before(queue[n].event, queue[m].event)
      BY DEF NewsInv, QueueFits
    <3> QED
      BY <1>0, <1>5, <3>1, <3>2 DEF QueueFits
  <2>5. ArrivedFit'
    BY <1>5 DEF NewsInv, ArrivedFit
  <2>3. WorkerFits'
    BY <1>0, <1>3, <1>4, <1>5 DEF WorkerFits
  <2>4. SourcesFit'
    BY <1>0, <1>3, <1>5 DEF NewsInv, SourcesFit, Past, Owed, d, e
  <2> QED
    BY <2>1, <2>2, <2>3, <2>4, <2>5 DEF NewsInv
<1>6. CASE arrived' = [arrived EXCEPT ![d] = Append(@, e)]
  <2>0. /\ arrived' \in [Destinations -> Seq(Event)] /\ \A c \in Destinations \ {d} : arrived'[c] = arrived[c]
        /\ arrived'[d] = Append(arrived[d], e)
    BY <1>0, <1>1, <1>6
  <2>1. /\ DOMAIN arrived'[d] = 1..N /\ DOMAIN arrived[d] = 1..(N - 1) /\ arrived'[d][N] = e
        /\ Len(arrived'[d]) = N
        /\ \A n \in DOMAIN arrived'[d] : n # N => n \in DOMAIN arrived[d] /\ arrived'[d][n] = arrived[d][n] /\ n < N
    <3>1. PICK old : old = arrived[d]
      OBVIOUS
    <3>2. old \in Seq(Event) /\ arrived'[d] = Append(old, e) /\ N = Len(old) + 1
      BY <1>1, <2>0, <3>1
    <3>3. /\ DOMAIN Append(old, e) = 1..(Len(old) + 1) /\ DOMAIN old = 1..Len(old)
          /\ Append(old, e)[Len(old) + 1] = e /\ Len(Append(old, e)) = Len(old) + 1
          /\ Len(old) \in Nat
          /\ \A n \in 1..Len(old) : Append(old, e)[n] = old[n]
      BY <1>1, <3>2
    <3>4. \A n \in 1..(Len(old) + 1) : n # Len(old) + 1 => n \in 1..Len(old) /\ n < Len(old) + 1
      BY <3>3
    <3> HIDE DEF N
    <3> QED
      BY <3>1, <3>2, <3>3, <3>4
  <2> HIDE DEF N
  <2>2. EventTypes'
    BY <1>0, <1>2, <1>3, <2>0 DEF EventTypes, Delivering
  <2>3. QueueFits'
    <3>1. ASSUME NEW m \in DOMAIN queue, NEW c \in Destinations, queue[m].to = c
          PROVE  /\ Delivering' /\ worker'.to = c => Before(worker'.event, queue[m].event)
                 /\ \A n \in DOMAIN arrived'[c] : Before(arrived'[c][n], queue[m].event)
      <4>1. d = c => Before(e, queue[m].event)
        BY <1>0, <3>1 DEF NewsInv, QueueFits, d, e
      <4>2. \A n \in DOMAIN arrived[c] : Before(arrived[c][n], queue[m].event)
        BY <3>1 DEF NewsInv, QueueFits
      <4>3. \A n \in DOMAIN arrived'[c] : Before(arrived'[c][n], queue[m].event)
        <5>1. CASE c # d
          BY <2>0, <4>2, <5>1
        <5>2. CASE c = d
          BY <2>1, <4>1, <4>2, <5>2
        <5> QED
          BY <5>1, <5>2
      <4> QED
        BY <1>3, <4>1, <4>3
    <3>2. \A n, m \in DOMAIN queue :
             n < m /\ queue[n].to = queue[m].to => Before(queue[n].event, queue[m].event)
      BY DEF NewsInv, QueueFits
    <3> QED
      BY <1>0, <3>1, <3>2 DEF QueueFits
  <2>4. WorkerFits'
    <3> SUFFICES ASSUME Delivering', NEW n \in DOMAIN arrived'[d]
                 PROVE  \/ Before(arrived'[d][n], e)
                        \/ n = N /\ arrived'[d][n] = e
      BY <1>3, <2>1 DEF WorkerFits
    <3>1. worker.pc = "first"
      BY <1>3
    <3>2. worker.pc # "again"
      BY <3>1
    <3> QED
      BY <1>4, <2>1, <3>2
  <2>5. ArrivedFit'
    <3> SUFFICES ASSUME NEW c \in Destinations, NEW n \in DOMAIN arrived'[c], NEW m \in DOMAIN arrived'[c], n < m
                 PROVE  \/ Before(arrived'[c][n], arrived'[c][m])
                        \/ m = n + 1 /\ arrived'[c][n] = arrived'[c][m]
      BY DEF ArrivedFit
    <3>1. CASE c # d
      <4>1. arrived'[c] = arrived[c]
        BY <2>0, <3>1
      <4> QED
        BY <4>1 DEF NewsInv, ArrivedFit
    <3>2. CASE c = d /\ m # N
      <4>1. n # N
        BY <1>1, <2>1, <3>2
      <4> QED
        BY <2>1, <3>2, <4>1 DEF NewsInv, ArrivedFit
    <3>3. CASE c = d /\ m = N
      <4>1. n # N /\ n \in DOMAIN arrived[d] /\ arrived'[d][n] = arrived[d][n] /\ n \in Nat
        BY <1>1, <2>1, <3>3
      <4>2. CASE Before(arrived[d][n], e)
        BY <2>1, <3>3, <4>1, <4>2
      <4>3. CASE n = N - 1 /\ arrived[d][n] = e
        <5>1. N = n + 1
          BY <1>1, <4>1, <4>3
        <5> QED
          BY <2>1, <3>3, <4>1, <4>3, <5>1
      <4> QED
        BY <1>4, <4>1, <4>2, <4>3 DEF N
    <3> QED
      BY <3>1, <3>2, <3>3
  <2>6. SourcesFit'
    <3>1. ASSUME NEW s \in Sources, NEW c \in Destinations
          PROVE  /\ \A n \in DOMAIN queue' : queue'[n].to = c => Past(queue[n].event, s, c)'
                 /\ Delivering' /\ worker'.to = c => Past(worker.event, s, c)'
                 /\ \A n \in DOMAIN arrived'[c] : Past(arrived[c][n], s, c)'
      <4>0. \A f : Past(f, s, c) => Past(f, s, c)'
        BY <1>0 DEF Past, Owed
      <4>1. \A n \in DOMAIN queue' : queue'[n].to = c => Past(queue[n].event, s, c)'
        BY <1>0 DEF NewsInv, SourcesFit, Past, Owed
      <4>2. d = c => \E f : f = e /\ Past(f, s, c)
        BY <1>0 DEF NewsInv, SourcesFit, d, e
      <4>3. Delivering' /\ worker'.to = c => Past(worker.event, s, c)'
        BY <1>3, <4>0, <4>2 DEF Past
      <4>4. ASSUME NEW n \in DOMAIN arrived'[c] PROVE Past(arrived[c][n], s, c)'
        <5>1. CASE c = d /\ n = N
          BY <2>1, <4>0, <4>2, <5>1 DEF Past
        <5>2. CASE ~(c = d /\ n = N)
          <6>1. n \in DOMAIN arrived[c] /\ arrived'[c][n] = arrived[c][n]
            BY <2>0, <2>1, <5>2
          <6>2. \E f : f = arrived[c][n] /\ Past(f, s, c)
            BY <6>1 DEF NewsInv, SourcesFit
          <6> QED
            BY <4>0, <6>1, <6>2 DEF Past
        <5> QED
          BY <5>1, <5>2
      <4> QED
        BY <4>1, <4>3, <4>4
    <3> QED
      BY <3>1 DEF SourcesFit
  <2> QED
    BY <2>2, <2>3, <2>4, <2>5, <2>6 DEF NewsInv
<1> QED
  BY <1>0, <1>5, <1>6

---------------------------------------------------------------------------
(* What the sources do. *)

LEMMA ShownTypes ==
    ASSUME EventTypes
    PROVE  \A u \in Subscribers : /\ subs[u].sent \in Seq(Event) /\ subs[u].queue \in Seq(Event)
                                  /\ Shown(u) \in Seq(Event)
                                  /\ \A n \in DOMAIN Shown(u) : Shown(u)[n] \in Event
<1> SUFFICES ASSUME NEW u \in Subscribers
             PROVE  /\ subs[u].sent \in Seq(Event) /\ subs[u].queue \in Seq(Event)
                    /\ Shown(u) \in Seq(Event)
                    /\ \A n \in DOMAIN Shown(u) : Shown(u)[n] \in Event
  OBVIOUS
<1>1. subs[u] \in [queue: Seq(Event), sent: Seq(Event), open: BOOLEAN]
  BY DEF EventTypes
<1>2. subs[u].sent \in Seq(Event) /\ subs[u].queue \in Seq(Event)
  BY <1>1
<1>3. \A S : \A a, b \in Seq(S) : a \o b \in Seq(S)
  OBVIOUS
<1>4. Shown(u) \in Seq(Event)
  BY <1>2, <1>3 DEF Shown
<1>5. \A S : \A a \in Seq(S) : \A n \in DOMAIN a : a[n] \in S
  OBVIOUS
<1> QED
  BY <1>2, <1>4, <1>5

\* A stream that is told nothing stays behind the sources.
LEMMA StreamsFollow ==
    ASSUME EventTypes, StreamsAhead,
           \A u \in Subscribers : Shown(u)' = Shown(u),
           \A s \in Sources :
              \/ sources'[s].event.number = sources[s].event.number + 1
              \/ sources'[s].event = sources[s].event /\ (sources'[s].pc = "publish" => sources[s].pc = "publish")
    PROVE  StreamsAhead'
<1>1. ASSUME NEW u \in Subscribers, NEW n \in DOMAIN Shown(u), NEW s \in Sources, Shown(u)[n].source = s
      PROVE  /\ Shown(u)[n].number <= sources'[s].event.number
             /\ sources'[s].pc = "publish" => Shown(u)[n].number < sources'[s].event.number
  <2>1. PICK a : a = Shown(u)[n].number
    OBVIOUS
  <2>2. a \in Nat
    BY <2>1, ShownTypes DEF Event
  <2>3. PICK b : b = sources[s].event.number
    OBVIOUS
  <2>4. b \in Nat
    BY <2>3 DEF EventTypes
  <2>5. a <= b /\ (sources[s].pc = "publish" => a < b)
    BY <1>1, <2>1, <2>3 DEF StreamsAhead
  <2>6. CASE sources'[s].event.number = b + 1
    BY <2>1, <2>2, <2>4, <2>5, <2>6
  <2>7. CASE sources'[s].event = sources[s].event /\ (sources'[s].pc = "publish" => sources[s].pc = "publish")
    BY <2>1, <2>3, <2>5, <2>7
  <2> QED
    BY <2>3, <2>6, <2>7
<1>2. \A u \in Subscribers : \A n, m \in DOMAIN Shown(u) : n < m => Before(Shown(u)[n], Shown(u)[m])
  BY DEF StreamsAhead
<1>3. ASSUME NEW u \in Subscribers
      PROVE  /\ \A n, m \in DOMAIN Shown(u)' : n < m => Before(Shown(u)'[n], Shown(u)'[m])
             /\ \A s \in Sources : \A n \in DOMAIN Shown(u)' : Shown(u)'[n].source = s =>
                   /\ Shown(u)'[n].number <= sources'[s].event.number
                   /\ sources'[s].pc = "publish" => Shown(u)'[n].number < sources'[s].event.number
  <2>1. PICK a : a = Shown(u) /\ Shown(u)' = a
    OBVIOUS
  <2> QED
    BY <1>1, <1>2, <2>1
<1> QED
  BY <1>3 DEF StreamsAhead, Before

\* One source's step.
LEMMA SourceMoves ==
    ASSUME EventTypes, NEW s \in Sources, NEW one,
           one \in [pc: {"idle", "publish", "log", "send"},
                    event: [source: Sources, number: Nat, kind: Kinds \cup {NoEvent.kind}],
                    todo: SUBSET Destinations],
           one.pc # "idle" => one.event \in Event /\ one.event.source = s,
           sources' = [sources EXCEPT ![s] = one]
    PROVE  /\ sources' \in [Sources -> [pc: {"idle", "publish", "log", "send"},
                                event: [source: Sources, number: Nat, kind: Kinds \cup {NoEvent.kind}],
                                todo: SUBSET Destinations]]
           /\ \A t \in Sources : sources'[t].pc # "idle" =>
                 sources'[t].event \in Event /\ sources'[t].event.source = t
           /\ sources'[s] = one /\ \A t \in Sources \ {s} : sources'[t] = sources[t]
<1> DEFINE States == [pc: {"idle", "publish", "log", "send"},
                      event: [source: Sources, number: Nat, kind: Kinds \cup {NoEvent.kind}],
                      todo: SUBSET Destinations]
<1>1. sources \in [Sources -> States] /\ one \in States
  BY DEF EventTypes
<1>2. \A t \in Sources : sources[t].pc # "idle" => sources[t].event \in Event /\ sources[t].event.source = t
  BY DEF EventTypes
<1> HIDE DEF States
<1>3. /\ sources' \in [Sources -> States]
      /\ sources'[s] = one /\ \A t \in Sources \ {s} : sources'[t] = sources[t]
  BY <1>1
<1> QED
  BY <1>2, <1>3 DEF States

\* What is so of a source's state, whatever it does next.
LEMMA SourceStates ==
    ASSUME EventTypes, NEW s \in Sources
    PROVE  /\ sources[s].pc \in {"idle", "publish", "log", "send"} /\ sources[s].todo \in SUBSET Destinations
           /\ sources[s].event \in [source: Sources, number: Nat, kind: Kinds \cup {NoEvent.kind}]
           /\ sources[s].event.number \in Nat
           /\ sources[s].pc # "idle" => sources[s].event \in Event /\ sources[s].event.source = s
           /\ sources[s] = [pc |-> sources[s].pc, event |-> sources[s].event, todo |-> sources[s].todo]
BY DEF EventTypes

\* A step that changes only what one source is at.
LEMMA SourceSteps ==
    ASSUME EventTypes, NewsInv, NEW s \in Sources, NEW one,
           one \in [pc: {"idle", "publish", "log", "send"},
                    event: [source: Sources, number: Nat, kind: Kinds \cup {NoEvent.kind}],
                    todo: SUBSET Destinations],
           one.pc # "idle" => one.event \in Event /\ one.event.source = s,
           sources' = [sources EXCEPT ![s] = one], UNCHANGED <<queue, worker, arrived>>,
           \/ one.event.number = sources[s].event.number + 1
           \/ /\ one.event = sources[s].event
              /\ one.pc \in {"publish", "log"} => sources[s].pc \in {"publish", "log"}
              /\ one.pc = "send" => \A d \in one.todo : Owed(s, d),
           subs' \in [Subscribers -> [queue: Seq(Event), sent: Seq(Event), open: BOOLEAN]]
    PROVE  EventTypes' /\ NewsInv'
<1>1. EventTypes'
  BY SourceMoves DEF EventTypes, Delivering
<1>2. sources'[s] = one /\ \A t \in Sources \ {s} : sources'[t] = sources[t]
  BY SourceMoves
<1>3. ASSUME NEW t \in Sources, NEW d \in Destinations
      PROVE  \/ sources'[t].event.number = sources[t].event.number + 1
             \/ sources'[t].event = sources[t].event /\ (Owed(t, d)' => Owed(t, d))
  <2>1. CASE t = s
    BY <1>2, <2>1 DEF Owed
  <2>2. CASE t # s
    BY <1>2, <2>2 DEF Owed
  <2> QED
    BY <2>1, <2>2
<1>4. NewsInv'
  BY <1>3, NewsStay
<1> QED
  BY <1>1, <1>4

Calm == UNCHANGED <<clock, lastSent, accepted>>

LEMMA WindowsStay == WindowsFit /\ Calm => WindowsFit'
BY DEF WindowsFit, Calm

\* Reports: the next number is above all that was shown or posted.
LEMMA ReportSteps ==
    ASSUME EventsInv, NEW s \in Sources, NEW kind \in Kinds, Reports(s, kind)
    PROVE  EventsInv'
<1> DEFINE event == [source |-> s, number |-> sources[s].event.number + 1, kind |-> kind]
           States == [pc: {"idle", "publish", "log", "send"},
                      event: [source: Sources, number: Nat, kind: Kinds \cup {NoEvent.kind}],
                      todo: SUBSET Destinations]
<1>0. EventTypes /\ NewsInv /\ StreamsAhead /\ WindowsFit
  BY DEF EventsInv, NewsInv
<1>1. PICK one : one = [pc |-> "publish", event |-> event, todo |-> {}]
  OBVIOUS
<1>2. /\ sources' = [sources EXCEPT ![s] = one] /\ UNCHANGED <<subs, queue, worker, arrived>> /\ Calm
  BY <1>1 DEF Reports, Calm
<1>3. sources[s].event.number + 1 \in Nat
  <2>1. sources[s].event.number \in Nat
    BY <1>0, SourceStates
  <2> QED
    BY <2>1
<1>4. event \in Event /\ event.source = s /\ event \in [source: Sources, number: Nat, kind: Kinds \cup {NoEvent.kind}]
  BY <1>3 DEF Event
<1>5. event.number = sources[s].event.number + 1
  OBVIOUS
<1> HIDE DEF event
<1>6. one \in States /\ one.event = event
  BY <1>1, <1>4
<1>7. subs' \in [Subscribers -> [queue: Seq(Event), sent: Seq(Event), open: BOOLEAN]]
  BY <1>0, <1>2 DEF EventTypes
<1>8. EventTypes' /\ NewsInv'
  BY <1>0, <1>2, <1>4, <1>5, <1>6, <1>7, SourceSteps
<1>9. /\ sources'[s].event.number = sources[s].event.number + 1
      /\ \A t \in Sources \ {s} : sources'[t] = sources[t]
  BY <1>0, <1>2, <1>4, <1>5, <1>6, SourceMoves, ZenonT(60)
<1>10. \A u \in Subscribers : Shown(u)' = Shown(u)
  BY <1>2 DEF Shown
<1>11. StreamsAhead'
  BY <1>0, <1>9, <1>10, StreamsFollow
<1> QED
  BY <1>0, <1>2, <1>8, <1>11, WindowsStay DEF EventsInv, NewsInv

LEMMA OtherState ==
    ASSUME NEW S, NEW T, NEW U, NEW old \in [pc: S, event: T, todo: U], NEW next \in S
    PROVE  [old EXCEPT !.pc = next] = [pc |-> next, event |-> old.event, todo |-> old.todo]
OBVIOUS

LEMMA OtherDuty ==
    ASSUME NEW S, NEW T, NEW U, NEW old \in [pc: S, event: T, todo: U], NEW rest \in U
    PROVE  [old EXCEPT !.todo = rest] = [pc |-> old.pc, event |-> old.event, todo |-> rest]
OBVIOUS

\* Logs and SendEnds: the source's event is the same, and it owes no more.
LEMMA LogSteps ==
    ASSUME EventsInv, NEW s \in Sources, Logs(s) \/ SendEnds(s)
    PROVE  EventsInv'
<1> DEFINE States == [pc: {"idle", "publish", "log", "send"},
                      event: [source: Sources, number: Nat, kind: Kinds \cup {NoEvent.kind}],
                      todo: SUBSET Destinations]
           old == sources[s]
<1>0. EventTypes /\ NewsInv /\ StreamsAhead /\ WindowsFit
  BY DEF EventsInv, NewsInv
<1>1. \E pc \in {"idle", "send"}, todo \in SUBSET Destinations :
         /\ sources' = [sources EXCEPT ![s] = [pc |-> pc, event |-> old.event, todo |-> todo]]
         /\ pc = "send" => old.pc = "log"
  <2>1. old \in States /\ old.todo \in SUBSET Destinations
    BY <1>0 DEF EventTypes
  <2>2. CASE \E next \in {"idle"} : sources' = [sources EXCEPT ![s].pc = next]
    <3>1. PICK next \in {"idle"} : sources' = [sources EXCEPT ![s].pc = next]
      BY <2>2
    <3>2. next \in {"idle", "publish", "log", "send"}
      OBVIOUS
    <3>3. [old EXCEPT !.pc = next] = [pc |-> next, event |-> old.event, todo |-> old.todo]
      BY ONLY <2>1, <3>2, OtherState
    <3>4. sources' = [sources EXCEPT ![s] = [old EXCEPT !.pc = next]]
      BY <3>1
    <3>5. next \in {"idle", "send"} /\ next # "send"
      OBVIOUS
    <3> QED
      BY <2>1, <3>3, <3>4, <3>5
  <2>3. CASE \E next \in {"send"}, rest \in {Destinations} :
                old.pc = "log" /\ sources' = [sources EXCEPT ![s].pc = next, ![s].todo = rest]
    <3>1. PICK next \in {"send"}, rest \in {Destinations} :
                old.pc = "log" /\ sources' = [sources EXCEPT ![s].pc = next, ![s].todo = rest]
      BY <2>3
    <3>2. next \in {"idle", "publish", "log", "send"} /\ next \in {"idle", "send"} /\ rest \in SUBSET Destinations
      OBVIOUS
    <3>3. [old EXCEPT !.pc = next, !.todo = rest] = [pc |-> next, event |-> old.event, todo |-> rest]
      <4>1. [old EXCEPT !.pc = next] = [pc |-> next, event |-> old.event, todo |-> old.todo]
        BY ONLY <2>1, <3>2, OtherState
      <4>2. PICK mid \in States : mid = [pc |-> next, event |-> old.event, todo |-> old.todo]
        BY <2>1, <3>2
      <4>3. mid.pc = next /\ mid.event = old.event
        BY <4>2
      <4>4. [mid EXCEPT !.todo = rest] = [pc |-> mid.pc, event |-> mid.event, todo |-> rest]
        BY ONLY <3>2, mid \in States, OtherDuty
      <4>5. [old EXCEPT !.pc = next, !.todo = rest] = [[old EXCEPT !.pc = next] EXCEPT !.todo = rest]
        OBVIOUS
      <4> QED
        BY <4>1, <4>2, <4>3, <4>4, <4>5
    <3>4. sources' = [sources EXCEPT ![s] = [old EXCEPT !.pc = next, !.todo = rest]]
      BY <1>0, <3>1 DEF EventTypes
    <3> QED
      BY <3>1, <3>2, <3>3, <3>4
  <2> QED
    BY <2>2, <2>3 DEF Logs, SendEnds
<1>2. PICK pc \in {"idle", "send"}, todo \in SUBSET Destinations :
         /\ sources' = [sources EXCEPT ![s] = [pc |-> pc, event |-> old.event, todo |-> todo]]
         /\ pc = "send" => old.pc = "log"
  BY <1>1
<1>3. PICK one : one = [pc |-> pc, event |-> old.event, todo |-> todo]
  OBVIOUS
<1>4. /\ sources' = [sources EXCEPT ![s] = one] /\ UNCHANGED <<subs, queue, worker, arrived>> /\ Calm
  BY <1>2, <1>3 DEF Logs, SendEnds, Calm
<1>5. one.event = old.event /\ one.pc = pc /\ one.todo = todo
  BY <1>3
<1>6. one \in States
  <2>1. old.event \in [source: Sources, number: Nat, kind: Kinds \cup {NoEvent.kind}]
    BY <1>0, SourceStates
  <2>2. pc \in {"idle", "publish", "log", "send"}
    OBVIOUS
  <2> QED
    BY <1>3, <2>1, <2>2
<1>7. one.pc # "idle" => one.event \in Event /\ one.event.source = s
  BY <1>0, <1>2, <1>5, SourceStates
<1>8. one.pc = "send" => \A d \in one.todo : Owed(s, d)
  BY <1>2, <1>5 DEF Owed
<1>9. subs' \in [Subscribers -> [queue: Seq(Event), sent: Seq(Event), open: BOOLEAN]]
  BY <1>0, <1>4 DEF EventTypes
<1>10. EventTypes' /\ NewsInv'
  <2>1. one.pc \notin {"publish", "log"}
    BY <1>5
  <2> QED
    BY <1>0, <1>4, <1>5, <1>6, <1>7, <1>8, <1>9, <2>1, SourceSteps
<1>11. sources'[s] = one /\ \A t \in Sources \ {s} : sources'[t] = sources[t]
  BY <1>0, <1>4, <1>6, <1>7, SourceMoves
<1>12. \A u \in Subscribers : Shown(u)' = Shown(u)
  BY <1>4 DEF Shown
<1>13. StreamsAhead'
  <2>1. one.pc # "publish"
    BY <1>5
  <2>2. ASSUME NEW t \in Sources
        PROVE  sources'[t].event = sources[t].event /\ (sources'[t].pc = "publish" => sources[t].pc = "publish")
    BY <1>5, <1>11, <2>1
  <2> QED
    BY <1>0, <1>12, <2>2, StreamsFollow
<1> QED
  BY <1>0, <1>4, <1>10, <1>13, WindowsStay DEF EventsInv, NewsInv

LEMMA AppendJoined ==
    ASSUME NEW S, NEW a \in Seq(S), NEW b \in Seq(S), NEW f \in S
    PROVE  a \o Append(b, f) = Append(a \o b, f)
OBVIOUS

LEMMA HeadJoined ==
    ASSUME NEW S, NEW a \in Seq(S), NEW b \in Seq(S), b # << >>
    PROVE  Append(a, Head(b)) \o Tail(b) = a \o b
<1>1. /\ Append(a, Head(b)) \in Seq(S) /\ Tail(b) \in Seq(S) /\ a \o b \in Seq(S)
      /\ Append(a, Head(b)) \o Tail(b) \in Seq(S)
  OBVIOUS
<1>2. Len(Append(a, Head(b)) \o Tail(b)) = Len(a \o b)
  BY <1>1
<1>3. \A i \in 1..Len(a \o b) : (Append(a, Head(b)) \o Tail(b))[i] = (a \o b)[i]
  BY <1>1
<1> QED
  BY <1>1, <1>2, <1>3

LEMMA NothingJoined ==
    ASSUME NEW S, NEW a \in Seq(S), NEW b \in Seq(S)
    PROVE  a \o << >> = a /\ \A n \in DOMAIN a : n \in DOMAIN (a \o b) /\ (a \o b)[n] = a[n]
OBVIOUS

LEMMA LastJoins ==
    \A S : \A a \in Seq(S) : \A e \in S :
       /\ Len(a) \in Nat /\ DOMAIN a = 1..Len(a) /\ DOMAIN Append(a, e) = 1..(Len(a) + 1)
       /\ Append(a, e)[Len(a) + 1] = e /\ Append(a, e) \in Seq(S)
       /\ \A n \in DOMAIN Append(a, e) : n # Len(a) + 1 =>
             n \in DOMAIN a /\ Append(a, e)[n] = a[n] /\ n < Len(a) + 1
OBVIOUS

\* Publishes: each stream with room shows the event, after what it showed of
\* that source.
LEMMA PublishSteps ==
    ASSUME EventsInv, NEW s \in Sources, Publishes(s)
    PROVE  EventsInv'
<1> DEFINE States == [pc: {"idle", "publish", "log", "send"},
                      event: [source: Sources, number: Nat, kind: Kinds \cup {NoEvent.kind}],
                      todo: SUBSET Destinations]
           Subs == [queue: Seq(Event), sent: Seq(Event), open: BOOLEAN]
           old == sources[s]
           e == sources[s].event
<1>0. EventTypes /\ NewsInv /\ StreamsAhead /\ WindowsFit
  BY DEF EventsInv, NewsInv
<1>1. UNCHANGED <<queue, worker, arrived>> /\ Calm /\ old.pc = "publish"
  BY DEF Publishes, Calm
<1>2. e \in Event /\ e.source = s /\ e.number \in Nat
  BY <1>0, <1>1, SourceStates
<1>3. \E next \in {"log"} : sources' = [sources EXCEPT ![s].pc = next]
  BY DEF Publishes
<1>4. PICK next \in {"log"} : sources' = [sources EXCEPT ![s].pc = next]
  BY <1>3
<1>5. next \in {"idle", "publish", "log", "send"} /\ next # "publish" /\ next # "send" /\ next # "idle"
  OBVIOUS
<1>6. old \in States
  BY <1>0 DEF EventTypes
<1>7. PICK one : one = [old EXCEPT !.pc = next]
  OBVIOUS
<1>8. one \in States /\ one.pc = next /\ one.event = e
  BY <1>5, <1>6, <1>7
<1>9. sources' = [sources EXCEPT ![s] = one]
  BY <1>4, <1>7
<1>10. ASSUME NEW u \in Subscribers
       PROVE  /\ subs'[u] \in Subs
              /\ \/ Shown(u)' = Shown(u)
                 \/ Shown(u)' = Append(Shown(u), e)
  <2>1. subs[u] \in Subs /\ subs[u].queue \in Seq(Event) /\ subs[u].sent \in Seq(Event)
    BY <1>0 DEF EventTypes
  <2>2. PICK more : more = Append(subs[u].queue, e)
    OBVIOUS
  <2>3. more \in Seq(Event)
    BY <1>2, <2>1, <2>2
  <2>4. subs'[u] = [subs[u] EXCEPT !.queue = more] \/ subs'[u] = subs[u]
    BY <2>2 DEF Publishes
  <2>5. CASE subs'[u] = [subs[u] EXCEPT !.queue = more]
    <3>1. subs'[u] \in Subs /\ subs'[u].queue = more /\ subs'[u].sent = subs[u].sent
      BY <2>1, <2>3, <2>5
    <3>2. subs[u].sent \o more = Append(subs[u].sent \o subs[u].queue, e)
      <4>1. PICK a \in Seq(Event), b \in Seq(Event), f \in Event : a = subs[u].sent /\ b = subs[u].queue /\ f = e
        BY <1>2, <2>1
      <4>2. a \o Append(b, f) = Append(a \o b, f)
        BY AppendJoined
      <4> QED
        BY <2>2, <4>1, <4>2
    <3> QED
      BY <3>1, <3>2 DEF Shown
  <2>6. CASE subs'[u] = subs[u]
    BY <2>1, <2>6 DEF Shown
  <2> QED
    BY <2>4, <2>5, <2>6
<1>11. subs' \in [Subscribers -> Subs]
  <2>1. subs' = [u \in Subscribers |-> subs'[u]]
    BY DEF Publishes
  <2> QED
    BY <1>10, <2>1
<1>12. EventTypes' /\ NewsInv'
  <2>1. /\ one.event = sources[s].event
        /\ one.pc \in {"publish", "log"} => sources[s].pc \in {"publish", "log"}
        /\ one.pc # "send"
    BY <1>1, <1>5, <1>8
  <2>2. one.pc # "idle" => one.event \in Event /\ one.event.source = s
    BY <1>2, <1>8
  <2> QED
    BY <1>0, <1>1, <1>8, <1>9, <1>11, <2>1, <2>2, SourceSteps
<1>13. sources'[s] = one /\ \A t \in Sources \ {s} : sources'[t] = sources[t]
  BY <1>0, <1>2, <1>8, <1>9, SourceMoves
<1>14. ASSUME NEW u \in Subscribers
       PROVE  /\ \A n, m \in DOMAIN Shown(u)' : n < m => Before(Shown(u)'[n], Shown(u)'[m])
              /\ \A t \in Sources : \A n \in DOMAIN Shown(u)' : Shown(u)'[n].source = t =>
                    /\ Shown(u)'[n].number <= sources'[t].event.number
                    /\ sources'[t].pc = "publish" => Shown(u)'[n].number < sources'[t].event.number
  <2>1. PICK a, b : a = Shown(u) /\ b = Shown(u)'
    OBVIOUS
  <2>2. a \in Seq(Event) /\ \A n \in DOMAIN a : a[n] \in Event /\ a[n].number \in Nat
    BY <1>0, <2>1, ShownTypes DEF Event
  <2>3. /\ \A n, m \in DOMAIN a : n < m => Before(a[n], a[m])
        /\ \A t \in Sources : \A n \in DOMAIN a : a[n].source = t =>
              /\ a[n].number <= sources[t].event.number
              /\ sources[t].pc = "publish" => a[n].number < sources[t].event.number
    BY <1>0, <2>1 DEF StreamsAhead
  <2>4. ASSUME NEW t \in Sources, NEW n \in DOMAIN a, a[n].source = t
        PROVE  /\ a[n].number <= sources'[t].event.number
               /\ sources'[t].pc = "publish" => a[n].number < sources'[t].event.number
    <3>1. CASE t = s
      <4>1. sources'[t].pc # "publish" /\ sources'[t].event = e /\ sources[t].event = e
        BY <1>5, <1>8, <1>13, <3>1
      <4> QED
        BY <2>3, <2>4, <4>1
    <3>2. CASE t # s
      BY <1>13, <2>3, <2>4, <3>2
    <3> QED
      BY <3>1, <3>2
  <2>5. CASE b = a
    BY <2>1, <2>3, <2>4, <2>5
  <2>6. CASE b = Append(a, e)
    <3>1. PICK N : N = Len(a) + 1
      OBVIOUS
    <3>2. /\ DOMAIN b = 1..N /\ b[N] = e /\ N \in Nat /\ DOMAIN a = 1..(N - 1)
          /\ \A n \in DOMAIN b : n # N => n \in DOMAIN a /\ b[n] = a[n] /\ n < N
      BY <1>2, <2>2, <2>6, <3>1, LastJoins
    <3>3. \A n \in DOMAIN a : Before(a[n], e)
      BY <1>1, <1>2, <2>3 DEF Before
    <3>4. ASSUME NEW n \in DOMAIN b, NEW m \in DOMAIN b, n < m PROVE Before(b[n], b[m])
      <4>1. n # N
        BY <3>2, <3>4
      <4>2. CASE m = N
        BY <3>2, <3>3, <4>1, <4>2
      <4>3. CASE m # N
        BY <2>3, <3>2, <3>4, <4>1, <4>3
      <4> QED
        BY <4>2, <4>3
    <3>5. ASSUME NEW t \in Sources, NEW n \in DOMAIN b, b[n].source = t
          PROVE  /\ b[n].number <= sources'[t].event.number
                 /\ sources'[t].pc = "publish" => b[n].number < sources'[t].event.number
      <4>1. CASE n # N
        BY <2>4, <3>2, <3>5, <4>1
      <4>2. CASE n = N
        <5>1. t = s /\ b[n] = e /\ sources'[t].pc # "publish" /\ sources'[t].event = e
          BY <1>2, <1>5, <1>8, <1>13, <3>2, <3>5, <4>2
        <5> QED
          BY <1>2, <5>1
      <4> QED
        BY <4>1, <4>2
    <3> QED
      BY <2>1, <3>4, <3>5
  <2> QED
    BY <1>10, <2>1, <2>5, <2>6
<1>15. StreamsAhead'
  BY <1>14 DEF StreamsAhead, Before
<1> QED
  BY <1>0, <1>1, <1>12, <1>15, WindowsStay DEF EventsInv, NewsInv

\* What is let through is marked with the time, and is a window after what was
\* let through last.
LEMMA MarkSteps ==
    ASSUME WindowsFit, NEW d \in Destinations, NEW kind \in Kinds, ~Throttled(d, kind), UNCHANGED clock,
           MarksSent(d, kind),
           accepted' = [accepted EXCEPT ![d][kind] =
                          [at |-> clock, gap |-> IF @.at = Never THEN Never ELSE clock - @.at]]
    PROVE  WindowsFit'
<1> DEFINE Times == 0..LastClock \cup {Never}
           old == accepted[d][kind]
           gap == IF old.at = Never THEN Never ELSE clock - old.at
<1>0. /\ clock \in 0..LastClock /\ LastClock \in Nat /\ Never \in Nat /\ clock # Never
      /\ Window[d] \in Nat
  <2>1. clock \in 0..LastClock /\ LastClock \in Nat
    BY EventsAssumption DEF WindowsFit
  <2>2. Window[d] \in Nat
    BY EventsAssumption
  <2> QED
    BY <2>1, <2>2 DEF Never
<1>1. /\ lastSent \in [Destinations -> [Kinds -> Times]]
      /\ accepted \in [Destinations -> [Kinds -> [at: Times, gap: Times]]]
      /\ old.at = lastSent[d][kind]
      /\ lastSent[d][kind] = Never \/ lastSent[d][kind] <= clock
  BY DEF WindowsFit
<1>2. lastSent[d][kind] \in Times
  BY <1>1
<1>3. gap \in Times /\ (gap = Never \/ gap >= Window[d])
  <2>1. CASE lastSent[d][kind] = Never
    BY <1>1, <2>1
  <2>2. CASE lastSent[d][kind] # Never
    <3>1. PICK t : t = lastSent[d][kind]
      OBVIOUS
    <3>2. t \in 0..LastClock /\ t <= clock
      BY <1>1, <1>2, <2>2, <3>1
    <3>3. ~(clock - t < Window[d])
      BY <2>2, <3>1 DEF Throttled
    <3>4. gap = clock - t
      BY <1>1, <2>2, <3>1
    <3>5. clock - t \in 0..LastClock /\ clock - t >= Window[d]
      BY <1>0, <3>2, <3>3
    <3> QED
      BY <3>4, <3>5
  <2> QED
    BY <2>1, <2>2
<1>4. PICK one : one = [at |-> clock, gap |-> gap]
  OBVIOUS
<1>5. accepted' = [accepted EXCEPT ![d][kind] = one]
  BY <1>4
<1>6. clock \in Times
  BY <1>0
<1> HIDE DEF gap
<1>7. one.at = clock /\ one.gap = gap /\ one \in [at: Times, gap: Times]
  BY <1>3, <1>4, <1>6
<1>8. lastSent' = [lastSent EXCEPT ![d][kind] = clock]
  BY DEF MarksSent
<1> DEFINE Stamps == [at: Times, gap: Times]
<1> HIDE DEF Times
<1>9. /\ lastSent' \in [Destinations -> [Kinds -> Times]]
      /\ lastSent'[d][kind] = clock
      /\ \A c \in Destinations, k \in Kinds : c # d \/ k # kind => lastSent'[c][k] = lastSent[c][k]
  BY <1>1, <1>6, <1>8
<1> HIDE DEF Stamps
<1>10. accepted \in [Destinations -> [Kinds -> Stamps]] /\ one \in Stamps
  BY <1>1, <1>7 DEF Stamps
<1>11. /\ accepted' \in [Destinations -> [Kinds -> Stamps]]
       /\ accepted'[d][kind] = one
       /\ \A c \in Destinations, k \in Kinds : c # d \/ k # kind => accepted'[c][k] = accepted[c][k]
  BY <1>5, <1>10
<1>12. ASSUME NEW c \in Destinations, NEW k \in Kinds
       PROVE  /\ accepted'[c][k].at = lastSent'[c][k]
              /\ lastSent'[c][k] = Never \/ lastSent'[c][k] <= clock
              /\ accepted'[c][k].gap = Never \/ accepted'[c][k].gap >= Window[c]
  <2>1. CASE c = d /\ k = kind
    BY <1>0, <1>3, <1>7, <1>9, <1>11, <2>1
  <2>2. CASE ~(c = d /\ k = kind)
    <3>1. accepted'[c][k] = accepted[c][k] /\ lastSent'[c][k] = lastSent[c][k]
      BY <1>9, <1>11, <2>2
    <3> QED
      BY <3>1 DEF WindowsFit
  <2> QED
    BY <2>1, <2>2
<1> QED
  BY <1>0, <1>9, <1>11, <1>12 DEF WindowsFit, Times, Stamps

\* Sends: one destination less to tell; the event joins the queue's end or not.
LEMMA SendSteps ==
    ASSUME EventsInv, NEW s \in Sources, NEW d \in Destinations, Sends(s, d)
    PROVE  EventsInv'
<1> DEFINE States == [pc: {"idle", "publish", "log", "send"},
                      event: [source: Sources, number: Nat, kind: Kinds \cup {NoEvent.kind}],
                      todo: SUBSET Destinations]
           old == sources[s]
           e == sources[s].event
           Deliveries == [to: Destinations, event: Event]
<1>0. EventTypes /\ NewsInv /\ StreamsAhead /\ WindowsFit
  BY DEF EventsInv, NewsInv
<1>1. UNCHANGED <<clock, subs, worker, arrived>> /\ old.pc = "send" /\ d \in old.todo
  BY DEF Sends
<1>2. e \in Event /\ e.source = s /\ e.kind \in Kinds
  <2>1. e \in Event /\ e.source = s
    BY <1>0, <1>1, SourceStates
  <2> QED
    BY <2>1 DEF Event
<1>3. PICK rest : rest = old.todo \ {d}
  OBVIOUS
<1>4. old \in States /\ rest \in SUBSET Destinations
  BY <1>0, <1>3 DEF EventTypes
<1>5. PICK one : one = [old EXCEPT !.todo = rest]
  OBVIOUS
<1>6. one \in States /\ one.pc = old.pc /\ one.event = e /\ one.todo = rest
  BY <1>4, <1>5
<1>7. sources' = [sources EXCEPT ![s] = one]
  BY <1>3, <1>5 DEF Sends
<1>8. one.pc # "idle" => one.event \in Event /\ one.event.source = s
  BY <1>2, <1>6
<1>9. /\ sources' \in [Sources -> States]
      /\ \A t \in Sources : sources'[t].pc # "idle" => sources'[t].event \in Event /\ sources'[t].event.source = t
      /\ sources'[s] = one /\ \A t \in Sources \ {s} : sources'[t] = sources[t]
  BY <1>0, <1>6, <1>7, <1>8, SourceMoves
<1>10. ASSUME NEW t \in Sources
       PROVE  /\ sources'[t].event = sources[t].event /\ sources'[t].pc = sources[t].pc
              /\ sources'[t].todo \subseteq sources[t].todo
  BY <1>3, <1>6, <1>9
<1>11. \A t \in Sources, c \in Destinations : Owed(t, c)' => Owed(t, c)
  BY <1>10 DEF Owed
<1>12. Owed(s, d) /\ ~Owed(s, d)'
  BY <1>1, <1>3, <1>6, <1>9 DEF Owed
<1>13. StreamsAhead'
  <2>1. \A u \in Subscribers : Shown(u)' = Shown(u)
    BY <1>1 DEF Shown
  <2> QED
    BY <1>0, <1>10, <2>1, StreamsFollow
<1>14. CASE ~(e.kind \notin listening.wants[d] \/ Throttled(d, e.kind))
  <2>0. /\ ~Throttled(d, e.kind) /\ MarksSent(d, e.kind)
        /\ accepted' = [accepted EXCEPT ![d][e.kind] =
                          [at |-> clock, gap |-> IF @.at = Never THEN Never ELSE clock - @.at]]
        /\ queue' = IF Len(queue) < QueueSize THEN Append(queue, [to |-> d, event |-> e]) ELSE queue
    BY <1>14 DEF Sends
  <2>1. WindowsFit'
    BY <1>0, <1>1, <1>2, <2>0, MarkSteps
  <2>2. PICK post : post = [to |-> d, event |-> e]
    OBVIOUS
  <2>3. post \in Deliveries /\ post.to = d /\ post.event = e
    BY <1>2, <2>2
  <2>4. CASE queue' = Append(queue, post)
    <3>1. queue \in Seq(Deliveries)
      BY <1>0 DEF EventTypes
    <3> HIDE DEF Deliveries
    <3>2. queue' \in Seq(Deliveries)
      BY <2>3, <2>4, <3>1
    <3>3. EventTypes'
      BY <1>0, <1>1, <1>9, <3>2 DEF EventTypes, Delivering, Deliveries
    <3>4. NewsInv'
      <4>1. \A t \in Sources : /\ sources'[t].event = sources[t].event
                               /\ \A c \in Destinations : Owed(t, c)' => Owed(t, c)
        BY <1>10, <1>11
      <4> QED
        BY <1>0, <1>1, <1>12, <2>3, <2>4, <4>1, NewsGrow
    <3> QED
      BY <1>13, <2>1, <3>3, <3>4 DEF EventsInv, NewsInv
  <2>5. CASE queue' = queue
    <3>1. EventTypes'
      BY <1>0, <1>1, <1>9, <2>5 DEF EventTypes, Delivering
    <3>2. NewsInv'
      BY <1>0, <1>1, <1>10, <1>11, <2>5, NewsStay
    <3> QED
      BY <1>13, <2>1, <3>1, <3>2 DEF EventsInv, NewsInv
  <2> QED
    BY <2>0, <2>2, <2>4, <2>5
<1>15. CASE e.kind \notin listening.wants[d] \/ Throttled(d, e.kind)
  <2>1. UNCHANGED <<lastSent, queue, accepted>>
    BY <1>15 DEF Sends
  <2>2. EventTypes'
    BY <1>0, <1>1, <1>9, <2>1 DEF EventTypes, Delivering
  <2>3. NewsInv'
    BY <1>0, <1>1, <1>10, <1>11, <2>1, NewsStay
  <2>4. WindowsFit'
    BY <1>0, <1>1, <2>1, WindowsStay DEF Calm
  <2> QED
    BY <1>13, <2>2, <2>3, <2>4 DEF EventsInv, NewsInv
<1> QED
  BY <1>14, <1>15

LEMMA OtherStream ==
    ASSUME NEW S, NEW T, NEW old \in [queue: S, sent: S, open: T], NEW c \in S, NEW yes \in T
    PROVE  /\ [old EXCEPT !.open = yes] \in [queue: S, sent: S, open: T]
           /\ [old EXCEPT !.open = yes].queue = old.queue /\ [old EXCEPT !.open = yes].sent = old.sent
           /\ [old EXCEPT !.queue = c] \in [queue: S, sent: S, open: T]
           /\ [old EXCEPT !.queue = c].queue = c /\ [old EXCEPT !.queue = c].sent = old.sent
           /\ [old EXCEPT !.sent = c] \in [queue: S, sent: S, open: T]
           /\ [old EXCEPT !.sent = c].queue = old.queue /\ [old EXCEPT !.sent = c].sent = c
OBVIOUS

\* StreamSends moves an event from what waits to what was sent; a browser that
\* goes loses what waits.
LEMMA StreamSteps ==
    ASSUME EventsInv, NEW u \in Subscribers, Subscribes(u) \/ StreamSends(u) \/ Unsubscribes(u)
    PROVE  EventsInv'
<1> DEFINE Subs == [queue: Seq(Event), sent: Seq(Event), open: BOOLEAN]
           a == subs[u].sent
           b == subs[u].queue
<1>0. EventTypes /\ NewsInv /\ StreamsAhead /\ WindowsFit
  BY DEF EventsInv, NewsInv
<1>1. UNCHANGED <<sources, queue, worker, arrived>> /\ Calm
  BY DEF Subscribes, StreamSends, Unsubscribes, Calm
<1>2. subs \in [Subscribers -> Subs] /\ a \in Seq(Event) /\ b \in Seq(Event)
  BY <1>0 DEF EventTypes
<1> DEFINE Fits(one) == \/ one.sent \o one.queue = a \o b
                        \/ one.sent = a /\ one.queue = << >>
<1>3. PICK old \in Subs : old = subs[u] /\ old.sent = a /\ old.queue = b
  BY <1>2
<1>4. \E one \in Subs : subs' = [subs EXCEPT ![u] = one] /\ Fits(one)
  <2>1. CASE Subscribes(u)
    <3>1. PICK yes \in BOOLEAN : subs' = [subs EXCEPT ![u].open = yes]
      BY <2>1 DEF Subscribes
    <3>2. PICK one : one = [old EXCEPT !.open = yes]
      OBVIOUS
    <3>3. one \in Subs /\ one.queue = b /\ one.sent = a
      BY <1>3, <3>2, OtherStream
    <3>4. subs' = [subs EXCEPT ![u] = one]
      BY <1>3, <3>1, <3>2
    <3>5. one.sent \o one.queue = a \o b
      BY <3>3
    <3>6. Fits(one)
      BY <3>5
    <3> HIDE DEF Fits, Subs
    <3> QED
      BY <3>3, <3>4, <3>6
  <2>2. CASE StreamSends(u)
    <3>1. b # << >>
      BY <2>2 DEF StreamSends
    <3>2. PICK c, f : c = Append(a, Head(b)) /\ f = Tail(b)
      OBVIOUS
    <3>3. c \in Seq(Event) /\ f \in Seq(Event)
      BY <1>2, <3>1, <3>2
    <3>4. c \o f = a \o b
      <4>1. PICK g \in Seq(Event), h \in Seq(Event) : g = a /\ h = b
        BY <1>2
      <4>2. Append(g, Head(h)) \o Tail(h) = g \o h
        BY <3>1, <4>1, HeadJoined
      <4> QED
        BY <3>2, <4>1, <4>2
    <3>5. subs' = [subs EXCEPT ![u] = [[old EXCEPT !.queue = f] EXCEPT !.sent = c]]
      BY <1>2, <1>3, <2>2, <3>2 DEF StreamSends
    <3>6. PICK mid : mid = [old EXCEPT !.queue = f]
      OBVIOUS
    <3>7. mid \in Subs /\ mid.queue = f
      BY <3>3, <3>6, OtherStream
    <3>8. PICK one : one = [mid EXCEPT !.sent = c]
      OBVIOUS
    <3>9. one \in Subs /\ one.queue = f /\ one.sent = c
      BY <3>3, <3>7, <3>8, OtherStream
    <3>10. subs' = [subs EXCEPT ![u] = one]
      BY <3>5, <3>6, <3>8
    <3>11. one.sent \o one.queue = a \o b
      BY <3>4, <3>9
    <3>12. Fits(one)
      BY <3>11
    <3> HIDE DEF Fits, Subs
    <3> QED
      BY <3>9, <3>10, <3>12
  <2>3. CASE Unsubscribes(u)
    <3>1. << >> \in Seq(Event)
      OBVIOUS
    <3>2. PICK no \in BOOLEAN, f \in Seq(Event) : f = << >> /\ subs' = [subs EXCEPT ![u].open = no, ![u].queue = f]
      BY <2>3, <3>1 DEF Unsubscribes
    <3>3. subs' = [subs EXCEPT ![u] = [[old EXCEPT !.open = no] EXCEPT !.queue = f]]
      BY <1>2, <1>3, <3>2
    <3>4. PICK mid : mid = [old EXCEPT !.open = no]
      OBVIOUS
    <3>5. mid \in Subs /\ mid.sent = a
      BY <1>3, <3>4, OtherStream
    <3>6. PICK one : one = [mid EXCEPT !.queue = f]
      OBVIOUS
    <3>7. one \in Subs /\ one.queue = f /\ one.sent = a
      BY <3>5, <3>6, OtherStream
    <3> QED
      BY <3>2, <3>3, <3>4, <3>6, <3>7
  <2> QED
    BY <2>1, <2>2, <2>3
<1>5. PICK one \in Subs : subs' = [subs EXCEPT ![u] = one] /\ Fits(one)
  BY <1>4
<1> HIDE DEF Subs
<1>6. subs' \in [Subscribers -> Subs] /\ subs'[u] = one /\ \A v \in Subscribers \ {u} : subs'[v] = subs[v]
  BY <1>2, <1>5
<1>7. EventTypes'
  BY <1>0, <1>1, <1>6 DEF EventTypes, Delivering, Subs
<1>8. NewsInv'
  BY <1>0, <1>1, NewsStay DEF Owed
<1>9. ASSUME NEW v \in Subscribers
      PROVE  /\ \A n \in DOMAIN Shown(v)' : n \in DOMAIN Shown(v) /\ Shown(v)'[n] = Shown(v)[n]
  <2>1. CASE v # u
    BY <1>6, <2>1 DEF Shown
  <2>2. CASE v = u
    <3>1. Shown(v)' = one.sent \o one.queue /\ Shown(v) = a \o b
      BY <1>6, <2>2 DEF Shown
    <3>2. CASE one.sent \o one.queue = a \o b
      BY <3>1, <3>2
    <3>3. CASE one.sent = a /\ one.queue = << >>
      <4>1. PICK g \in Seq(Event), h \in Seq(Event) : g = a /\ h = b
        BY <1>2
      <4>2. g \o << >> = g /\ \A n \in DOMAIN g : n \in DOMAIN (g \o h) /\ (g \o h)[n] = g[n]
        BY NothingJoined
      <4> QED
        BY <3>1, <3>3, <4>1, <4>2
    <3> QED
      BY <1>5, <3>2, <3>3
  <2> QED
    BY <2>1, <2>2
<1>10. StreamsAhead'
  <2>1. ASSUME NEW v \in Subscribers
        PROVE  /\ \A n, m \in DOMAIN Shown(v)' : n < m => Before(Shown(v)'[n], Shown(v)'[m])
               /\ \A s \in Sources : \A n \in DOMAIN Shown(v)' : Shown(v)'[n].source = s =>
                     /\ Shown(v)'[n].number <= sources[s].event.number
                     /\ sources[s].pc = "publish" => Shown(v)'[n].number < sources[s].event.number
    <3>1. PICK x, y : x = Shown(v) /\ y = Shown(v)'
      OBVIOUS
    <3>2. \A n \in DOMAIN y : n \in DOMAIN x /\ y[n] = x[n]
      BY <1>9, <3>1
    <3>3. /\ \A n, m \in DOMAIN x : n < m => Before(x[n], x[m])
          /\ \A s \in Sources : \A n \in DOMAIN x : x[n].source = s =>
                /\ x[n].number <= sources[s].event.number
                /\ sources[s].pc = "publish" => x[n].number < sources[s].event.number
      BY <1>0, <3>1 DEF StreamsAhead
    <3> QED
      BY <3>1, <3>2, <3>3
  <2> QED
    BY <1>1, <2>1 DEF StreamsAhead, Before
<1> QED
  BY <1>0, <1>1, <1>7, <1>8, <1>10, WindowsStay DEF EventsInv, NewsInv

LEMMA EventsInitially == EventsInit => EventsInv
<1> SUFFICES ASSUME EventsInit PROVE EventsInv
  OBVIOUS
<1>1. \A s \in Sources : NoEvent \in [source: Sources, number: Nat, kind: Kinds \cup {NoEvent.kind}]
  BY DEF NoEvent
<1>2. \A s \in Sources : sources[s].pc = "idle" /\ sources[s].event = NoEvent /\ sources[s].todo = {}
  BY DEF EventsInit, Quietly
<1>3. queue = << >> /\ worker.pc = "idle" /\ ~Delivering
  BY DEF EventsInit, NotPosting, Delivering
<1>4. \A d \in Destinations : arrived[d] = << >>
  BY DEF EventsInit
<1>5. \A u \in Subscribers : subs[u].sent = << >> /\ subs[u].queue = << >> /\ Shown(u) = << >>
  BY DEF EventsInit, Shown
<1>6. EventTypes
  <2>1. ASSUME NEW s \in Sources
        PROVE  Quietly \in [pc: {"idle", "publish", "log", "send"},
                            event: [source: Sources, number: Nat, kind: Kinds \cup {NoEvent.kind}],
                            todo: SUBSET Destinations]
    BY <1>1 DEF Quietly
  <2>2. sources \in [Sources -> [pc: {"idle", "publish", "log", "send"},
                                 event: [source: Sources, number: Nat, kind: Kinds \cup {NoEvent.kind}],
                                 todo: SUBSET Destinations]]
    BY <2>1 DEF EventsInit
  <2>3. arrived \in [Destinations -> Seq(Event)] /\ queue \in Seq([to: Destinations, event: Event])
    BY <1>3 DEF EventsInit
  <2>4. subs \in [Subscribers -> [queue: Seq(Event), sent: Seq(Event), open: BOOLEAN]]
    BY DEF EventsInit
  <2> QED
    BY <1>2, <1>3, <2>2, <2>3, <2>4 DEF EventTypes
<1>7. QueueFits /\ WorkerFits /\ ArrivedFit /\ SourcesFit
  BY <1>3, <1>4 DEF QueueFits, WorkerFits, ArrivedFit, SourcesFit
<1>8. StreamsAhead
  BY <1>5 DEF StreamsAhead
<1>9. WindowsFit
  <2>1. LastClock \in Nat
    BY EventsAssumption
  <2> QED
    BY <2>1 DEF EventsInit, WindowsFit
<1> QED
  BY <1>6, <1>7, <1>8, <1>9 DEF EventsInv

LEMMA EventsStep == EventsInv /\ [EventsNext]_eventsVars => EventsInv'
<1> SUFFICES ASSUME EventsInv, [EventsNext]_eventsVars PROVE EventsInv'
  OBVIOUS
<1>0. EventTypes /\ NewsInv /\ StreamsAhead /\ WindowsFit
  BY DEF EventsInv, NewsInv
<1>1. ASSUME UNCHANGED <<sources, subs>>, EventTypes', NewsInv', WindowsFit' PROVE EventsInv'
  <2>1. \A u \in Subscribers : Shown(u)' = Shown(u)
    BY <1>1 DEF Shown
  <2>2. StreamsAhead'
    BY <1>0, <1>1, <2>1, StreamsFollow
  <2> QED
    BY <1>1, <2>2 DEF EventsInv, NewsInv
<1>2. ASSUME UNCHANGED <<sources, subs, queue, worker, arrived>>, WindowsFit' PROVE EventsInv'
  <2>1. EventTypes'
    BY <1>0, <1>2 DEF EventTypes, Delivering
  <2>2. NewsInv'
    BY <1>0, <1>2, NewsStay DEF Owed
  <2> QED
    BY <1>1, <1>2, <2>1, <2>2
<1>3. CASE ClockTicks
  <2>1. WindowsFit'
    <3>1. clock' \in 0..LastClock /\ clock' >= clock /\ UNCHANGED <<lastSent, accepted>>
      BY <1>0, <1>3, EventsAssumption DEF ClockTicks, WindowsFit
    <3>2. ASSUME NEW d \in Destinations, NEW k \in Kinds PROVE lastSent[d][k] = Never \/ lastSent[d][k] <= clock'
      <4>1. PICK t \in 0..LastClock \cup {Never} : t = lastSent[d][k]
        BY <1>0 DEF WindowsFit
      <4>2. \/ t = Never
            \/ t \in 0..LastClock /\ t <= clock
        BY <1>0, <4>1 DEF WindowsFit
      <4>3. clock \in 0..LastClock /\ LastClock \in Nat
        BY <1>0, EventsAssumption DEF WindowsFit
      <4> QED
        BY <3>1, <4>1, <4>2, <4>3
    <3> QED
      BY <1>0, <3>1, <3>2 DEF WindowsFit
  <2> QED
    BY <1>2, <1>3, <2>1 DEF ClockTicks
<1>4. CASE WorkerTakes
  <2>1. UNCHANGED <<sources, subs>> /\ Calm
    BY <1>4 DEF WorkerTakes, Calm
  <2> QED
    BY <1>0, <1>1, <1>4, <2>1, TakeSteps, WindowsStay
<1>5. CASE WorkerPosts
  <2>1. UNCHANGED <<sources, subs>> /\ Calm
    BY <1>5 DEF WorkerPosts, Calm
  <2> QED
    BY <1>0, <1>1, <1>5, <2>1, PostSteps, WindowsStay
<1>6. CASE WorkerStops
  <2>1. UNCHANGED <<sources, subs, queue, arrived>> /\ Calm /\ worker'.pc = "stopped" /\ ~Delivering'
    BY <1>6 DEF WorkerStops, NotPosting, Calm, Delivering
  <2>2. EventTypes'
    BY <1>0, <2>1 DEF EventTypes
  <2>3. QueueFits' /\ WorkerFits' /\ ArrivedFit'
    BY <1>0, <2>1 DEF NewsInv, QueueFits, WorkerFits, ArrivedFit
  <2>4. SourcesFit'
    BY <1>0, <2>1 DEF NewsInv, SourcesFit, Past, Owed
  <2> QED
    BY <1>0, <1>1, <2>1, <2>2, <2>3, <2>4, WindowsStay DEF NewsInv
<1>7. CASE NotifierCloses
  <2>1. UNCHANGED <<sources, subs, queue, worker, arrived>> /\ Calm
    BY <1>7 DEF NotifierCloses, Calm
  <2> QED
    BY <1>0, <1>2, <2>1, WindowsStay
<1>8. CASE UNCHANGED eventsVars
  <2>1. UNCHANGED <<sources, subs, queue, worker, arrived>> /\ Calm
    BY <1>8 DEF eventsVars, Calm
  <2> QED
    BY <1>0, <1>2, <2>1, WindowsStay
<1>9. ASSUME NEW s \in Sources, NEW kind \in Kinds, Reports(s, kind) PROVE EventsInv'
  BY <1>9, ReportSteps
<1>10. ASSUME NEW s \in Sources, Publishes(s) PROVE EventsInv'
  BY <1>10, PublishSteps
<1>11. ASSUME NEW s \in Sources, Logs(s) \/ SendEnds(s) PROVE EventsInv'
  BY <1>11, LogSteps
<1>12. ASSUME NEW s \in Sources, NEW d \in Destinations, Sends(s, d) PROVE EventsInv'
  BY <1>12, SendSteps
<1>13. ASSUME NEW u \in Subscribers, Subscribes(u) \/ StreamSends(u) \/ Unsubscribes(u) PROVE EventsInv'
  BY <1>13, StreamSteps
<1> QED
  BY <1>3, <1>4, <1>5, <1>6, <1>7, <1>8, <1>9, <1>10, <1>11, <1>12, <1>13 DEF EventsNext

LEMMA EventsHold == EventsInv => NewsIsOrderly
<1> SUFFICES ASSUME EventsInv PROVE NewsIsOrderly
  OBVIOUS
<1>0. EventTypes /\ ArrivedFit /\ StreamsAhead /\ WindowsFit
  BY DEF EventsInv
<1>1. ArrivesInOrder
  <2> SUFFICES ASSUME NEW d \in Destinations
               PROVE  /\ Orderly(arrived[d])
                      /\ \A n \in DOMAIN arrived[d], m \in DOMAIN arrived[d] :
                            arrived[d][n] = arrived[d][m] => n \in {m - 1, m, m + 1}
    BY DEF ArrivesInOrder
  <2>1. PICK a : a = arrived[d]
    OBVIOUS
  <2>2. a \in Seq(Event) /\ \A n \in DOMAIN a : a[n] \in Event
    BY <1>0, <2>1, OnTheirWay
  <2>3. \A n \in DOMAIN a : n \in Nat
    BY <2>2
  <2>4. \A n \in DOMAIN a : a[n].number \in Nat
    BY <2>2 DEF Event
  <2>5. \A n, m \in DOMAIN a : n < m =>
           \/ Before(a[n], a[m])
           \/ m = n + 1 /\ a[n] = a[m]
    BY <1>0, <2>1 DEF ArrivedFit
  <2>6. Orderly(a)
    BY <2>4, <2>5 DEF Orderly, Before
  <2>7. ASSUME NEW n \in DOMAIN a, NEW m \in DOMAIN a, a[n] = a[m] PROVE n \in {m - 1, m, m + 1}
    <3>1. ~Before(a[n], a[m]) /\ ~Before(a[m], a[n])
      BY <2>4, <2>7 DEF Before
    <3>2. n \in Nat /\ m \in Nat
      BY <2>3
    <3>3. n < m => m = n + 1
      BY <2>5, <3>1
    <3>4. m < n => n = m + 1
      BY <2>5, <3>1
    <3> QED
      BY <3>2, <3>3, <3>4
  <2> QED
    BY <2>1, <2>6, <2>7
<1>2. OncePerWindow
  BY <1>0 DEF OncePerWindow, WindowsFit
<1>3. StreamsInOrder
  <2> SUFFICES ASSUME NEW u \in Subscribers PROVE Orderly(Shown(u)) /\ IsInjective(Shown(u))
    BY DEF StreamsInOrder, Shown
  <2>1. PICK a : a = Shown(u)
    OBVIOUS
  <2>2. a \in Seq(Event) /\ \A n \in DOMAIN a : a[n] \in Event
    BY <1>0, <2>1, ShownTypes
  <2>3. \A n \in DOMAIN a : n \in Nat
    BY <2>2
  <2>4. \A n \in DOMAIN a : a[n].number \in Nat
    BY <2>2 DEF Event
  <2>5. \A n, m \in DOMAIN a : n < m => Before(a[n], a[m])
    BY <1>0, <2>1 DEF StreamsAhead
  <2>6. Orderly(a)
    BY <2>4, <2>5 DEF Orderly, Before
  <2>7. ASSUME NEW n \in DOMAIN a, NEW m \in DOMAIN a, a[n] = a[m] PROVE n = m
    <3>1. ~Before(a[n], a[m]) /\ ~Before(a[m], a[n])
      BY <2>4, <2>7 DEF Before
    <3>2. ~(n < m) /\ ~(m < n)
      BY <2>5, <3>1
    <3> QED
      BY <2>3, <3>2
  <2> QED
    BY <2>1, <2>6, <2>7 DEF IsInjective
<1> QED
  BY <1>1, <1>2, <1>3 DEF NewsIsOrderly

\* However posts fail and are retried, streams fall behind, and sources report
\* at once (Notifier.run, Notifier.Send, Store.Append): each source's events
\* reach a destination in the order it reported them, twice only side by side,
\* one kind is told once in its window, and each stream shows each event once.
THEOREM NewsStaysOrderly == EventsSpec => []NewsIsOrderly
<1>1. EventsSpec => []EventsInv
  BY EventsInitially, EventsStep, PTL DEF EventsSpec
<1> QED
  BY <1>1, EventsHold, PTL

---------------------------------------------------------------------------
(***************************************************************************)
(* All of them.                                                            *)
(***************************************************************************)

\* In a program that takes the services' steps one at a time, both limits
\* hold throughout.
THEOREM LimitsStay == ServicesSpec => []LimitsHold
<1>1. ServicesInit => ApiInv /\ SignInInv
  BY ApiInitially, SignInInitially DEF ServicesInit
<1>2. ApiInv /\ SignInInv /\ [ServicesNext]_servicesVars => ApiInv' /\ SignInInv'
  <2>1. [ServicesNext]_servicesVars => [ApiNext]_apiVars
    BY DEF ServicesNext, servicesVars
  <2>2. [ServicesNext]_servicesVars => [SignInNext]_signInVars
    BY DEF ServicesNext, servicesVars
  <2> QED
    BY <2>1, <2>2, ApiStep, SignInStep
<1>3. ApiInv /\ SignInInv => LimitsHold
  BY ApiHolds, SignInHolds DEF LimitsHold
<1> QED
  BY <1>1, <1>2, <1>3, PTL DEF ServicesSpec

\* So do what the registry, the channels and browsers, and those who asked for
\* a mod are told.
THEOREM NewsStaysTrue == ServicesSpec => [](RegistryIsTrue /\ NewsIsOrderly /\ RequestsAreSettled)
<1>1. ServicesInit => PlayersInv /\ EventsInv /\ ModsInv
  BY PlayersInitially, EventsInitially, ModsInitially DEF ServicesInit
<1>2. PlayersInv /\ EventsInv /\ ModsInv /\ [ServicesNext]_servicesVars => PlayersInv' /\ EventsInv' /\ ModsInv'
  <2>1. [ServicesNext]_servicesVars => [PlayersNext]_playersVars
    BY DEF ServicesNext, servicesVars
  <2>2. [ServicesNext]_servicesVars => [EventsNext]_eventsVars
    BY DEF ServicesNext, servicesVars
  <2>3. [ServicesNext]_servicesVars => [ModsNext]_modVars
    BY DEF ServicesNext, servicesVars
  <2> QED
    BY <2>1, <2>2, <2>3, PlayersStep, EventsStep, ModsStep
<1>3. PlayersInv /\ EventsInv /\ ModsInv => RegistryIsTrue /\ NewsIsOrderly /\ RequestsAreSettled
  BY RegistryHolds, EventsHold, ModsHold
<1> QED
  BY <1>1, <1>2, <1>3, PTL DEF ServicesSpec
=============================================================================
