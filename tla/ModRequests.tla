------------------------------ MODULE ModRequests ------------------------------
(***************************************************************************)
(* One server's mod lines and the requests players make for more            *)
(* (internal/server/modrequests.go, applyModList of mods.go,                *)
(* handleConfigApply of configedit.go).  The list of requests has a mutex;  *)
(* the .ini has none: each editor loads the whole file, sets its lines and  *)
(* writes the whole file back.                                              *)
(***************************************************************************)
EXTENDS Naturals, Sequences, FiniteSets, SequencesExt

CONSTANTS
    Items,          \* Workshop items, each with the mods it brings
    Editors,        \* requests of browsers and bots that are under way
    MaxPending,     \* maxPendingPerServer
    MaxDecided,     \* maxDecidedKept
    MaxAsked,       \* bound: requests of players
    MaxSaves        \* bound: writes of the .ini

ASSUME ModsAssumption ==
    /\ MaxPending \in Nat \ {0} /\ MaxDecided \in Nat
    /\ MaxAsked \in Nat /\ MaxSaves \in Nat

VARIABLES
    ini,        \* the lines on disk: items (Mods and WorkshopItems), other
    requests,   \* modRequestStore.list
    requestFile,\* modrequests.json
    editors,    \* pc, the request, the list it will write, what it knew of, the
                \* file it loaded
    requested, saves,
    outcomes,   \* history: what was decided of each request
    written,    \* history: requests whose item an approval wrote
    taken       \* history: items an editor dropped although it knew of them
                \* and was not asked to

modVars == <<ini, requests, requestFile, editors, requested, saves, outcomes, written, taken>>

NoEditor == [pc |-> "idle", kind |-> "none", request |-> 0, item |-> CHOOSE i \in Items : TRUE,
             list |-> {}, knew |-> {}, off |-> {}, loaded |-> [items |-> {}, other |-> 0]]
Pending(list) == {n \in DOMAIN list : list[n].status = "pending"}
Find(list, id) == {n \in DOMAIN list : list[n].id = id}
IsPending(id) == \E n \in Find(requests, id) : requests[n].status = "pending"

----------------------------------------------------------------------------
(* apiModRequestCreate *)

\* The item is not installed; then Steam is asked what it is.
AskChecks(e, item) ==
    /\ editors[e].pc = "idle" /\ requested < MaxAsked
    /\ item \notin ini.items
    /\ requested' = requested + 1
    /\ editors' = [editors EXCEPT ![e] = [NoEditor EXCEPT !.pc = "ask", !.kind = "ask", !.item = item,
                                                          !.request = requested + 1]]
    /\ UNCHANGED <<ini, requests, requestFile, saves, outcomes, written, taken>>

\* add: refused as a duplicate or because the list is full.  Steam may have
\* said there is no such item.  A save that fails is only logged.
AskAdds(e) ==
    /\ editors[e].pc = "ask"
    /\ editors' = [editors EXCEPT ![e] = NoEditor]
    /\ IF \/ Cardinality(Pending(requests)) >= MaxPending
          \/ \E n \in Pending(requests) : requests[n].item = editors[e].item
       THEN UNCHANGED <<requests, requestFile>>
       ELSE \/ /\ requests' = Append(requests,
                     [id |-> editors[e].request, item |-> editors[e].item, status |-> "pending"])
               /\ requestFile' \in {requests', requestFile}
            \/ UNCHANGED <<requests, requestFile>>
    /\ UNCHANGED <<ini, requested, saves, outcomes, written, taken>>

----------------------------------------------------------------------------
(* decide *)

\* Old decisions are trimmed counting from the newest request.
Trimmed(list) ==
    LET After(n) == Cardinality({m \in DOMAIN list : m >= n /\ list[m].status # "pending"})
        keeps == {n \in DOMAIN list : list[n].status = "pending" \/ After(n) <= MaxDecided}
    IN  [k \in 1..Cardinality(keeps) |->
            list[CHOOSE n \in keeps : Cardinality({m \in keeps : m <= n}) = k]]

\* Mutant: whoever comes last decides.
DecidesAgain(id, status) ==
    /\ requests' = Trimmed([n \in DOMAIN requests |->
                     IF requests[n].id = id THEN [requests[n] EXCEPT !.status = status] ELSE requests[n]])
    /\ outcomes' = [outcomes EXCEPT ![id] = @ \cup {status}]
    /\ requestFile' \in {requests', requestFile}

\* Fails when someone else decided it first.
Decides(id, status) ==
    IF ~IsPending(id) THEN UNCHANGED <<requests, outcomes, requestFile>>
    ELSE /\ requests' = Trimmed([n \in DOMAIN requests |->
                          IF requests[n].id = id THEN [requests[n] EXCEPT !.status = status] ELSE requests[n]])
         /\ outcomes' = [outcomes EXCEPT ![id] = @ \cup {status}]
         /\ requestFile' \in {requests', requestFile}

\* handleModRequestReject
Rejects(id) ==
    /\ IsPending(id)
    /\ Decides(id, "rejected")
    /\ UNCHANGED <<ini, editors, requested, saves, written, taken>>

----------------------------------------------------------------------------
(* handleModRequestApprove: the list is read, then applyModList *)

ApproveReads(e, id) ==
    /\ editors[e].pc = "idle" /\ IsPending(id)
    /\ LET item == requests[CHOOSE n \in Find(requests, id) : TRUE].item IN
       editors' = [editors EXCEPT ![e] = [NoEditor EXCEPT !.pc = "load", !.kind = "approve", !.request = id,
                     !.item = item, !.list = ini.items \cup {item}, !.knew = ini.items]]
    /\ UNCHANGED <<ini, requests, requestFile, requested, saves, outcomes, written, taken>>

\* The mods page, and what its reader takes off or adds before saving.
PageReads(e, off, on) ==
    /\ editors[e].pc = "idle" /\ off \subseteq ini.items /\ on \cap ini.items = {}
    /\ editors' = [editors EXCEPT ![e] = [NoEditor EXCEPT !.pc = "load", !.kind = "page",
                     !.list = (ini.items \ off) \cup on, !.knew = ini.items, !.off = off]]
    /\ UNCHANGED <<ini, requests, requestFile, requested, saves, outcomes, written, taken>>

\* handleConfigApply of another setting.
FormReads(e) ==
    /\ editors[e].pc = "idle"
    /\ editors' = [editors EXCEPT ![e] = [NoEditor EXCEPT !.pc = "load", !.kind = "form"]]
    /\ UNCHANGED <<ini, requests, requestFile, requested, saves, outcomes, written, taken>>

\* LoadINI.  The pre-flight check, or the settings' own, may refuse.
EditorLoads(e) ==
    /\ editors[e].pc = "load"
    /\ \/ editors' = [editors EXCEPT ![e].pc = "save", ![e].loaded = ini,
                        ![e].knew = IF editors[e].kind = "form" THEN ini.items ELSE @]
       \/ editors' = [editors EXCEPT ![e] = NoEditor]
    /\ UNCHANGED <<ini, requests, requestFile, requested, saves, outcomes, written, taken>>

\* Mutant: a form writes every setting it showed, those of the mods too, as
\* they were before the page was edited.
SavedBlank(e) ==
    IF editors[e].kind = "form" THEN [items |-> {}, other |-> 1]
    ELSE [editors[e].loaded EXCEPT !.items = editors[e].list]

Saved(e) ==
    IF editors[e].kind = "form" THEN [editors[e].loaded EXCEPT !.other = 1]
    ELSE [editors[e].loaded EXCEPT !.items = editors[e].list]

\* ini.Save
EditorSaves(e) ==
    LET me == editors[e] IN
    /\ me.pc = "save" /\ saves < MaxSaves
    /\ saves' = saves + 1
    /\ ini' = Saved(e)
    /\ taken' = taken \cup (((ini.items \ ini'.items) \cap me.knew) \ me.off)
    /\ written' = IF me.kind = "approve" THEN written \cup {me.request} ELSE written
    /\ editors' = [editors EXCEPT ![e] = IF me.kind = "approve" THEN [@ EXCEPT !.pc = "decide"] ELSE NoEditor]
    /\ UNCHANGED <<requests, requestFile, requested, outcomes>>

\* The write failed: nothing is decided.
SaveFails(e) ==
    /\ editors[e].pc = "save"
    /\ editors' = [editors EXCEPT ![e] = NoEditor]
    /\ UNCHANGED <<ini, requests, requestFile, requested, saves, outcomes, written, taken>>

ApproveDecides(e) ==
    /\ editors[e].pc = "decide"
    /\ Decides(editors[e].request, "approved")
    /\ editors' = [editors EXCEPT ![e] = NoEditor]
    /\ UNCHANGED <<ini, requested, saves, written, taken>>

\* PZAdmin starts again from modrequests.json: what was not saved is undecided,
\* or gone.
ModsRestart ==
    /\ requests' = requestFile
    /\ outcomes' = [id \in 1..MaxAsked |->
                     IF \E n \in Find(requestFile, id) : requestFile[n].status = "pending" THEN {} ELSE outcomes[id]]
    /\ editors' = [e \in Editors |-> NoEditor]
    /\ UNCHANGED <<ini, requestFile, requested, saves, written, taken>>

ModsInit ==
    /\ ini = [items |-> {}, other |-> 0]
    /\ requests = << >> /\ requestFile = << >>
    /\ editors = [e \in Editors |-> NoEditor]
    /\ requested = 0 /\ saves = 0
    /\ outcomes = [id \in 1..MaxAsked |-> {}] /\ written = {} /\ taken = {}

ModsNext ==
    \/ \E id \in 1..MaxAsked : Rejects(id)
    \/ \E e \in Editors :
          \/ \E item \in Items : AskChecks(e, item)
          \/ AskAdds(e) \/ FormReads(e)
          \/ \E id \in 1..MaxAsked : ApproveReads(e, id)
          \/ \E item \in Items : PageReads(e, {item}, {}) \/ PageReads(e, {}, {item})
          \/ EditorLoads(e) \/ EditorSaves(e) \/ SaveFails(e) \/ ApproveDecides(e)
    \/ ModsRestart

ModsSpec == ModsInit /\ [][ModsNext]_modVars

----------------------------------------------------------------------------
(* Properties *)

ModsTypeOK ==
    /\ ini.items \subseteq Items
    /\ \A list \in {requests, requestFile} : \A n \in DOMAIN list :
          list[n].id \in 1..MaxAsked /\ list[n].item \in Items
          /\ list[n].status \in {"pending", "approved", "rejected"}
    /\ \A e \in Editors : editors[e].pc \in {"idle", "ask", "load", "save", "decide"}

\* However many bots ask at once, an item waits once and the list is bounded.
ListIsBounded ==
    /\ \A n, m \in Pending(requests) : requests[n].item = requests[m].item => n = m
    /\ Cardinality(Pending(requests)) <= MaxPending
    /\ Cardinality(DOMAIN requests \ Pending(requests)) <= MaxDecided

\* Of two administrators only one decides, and what is called approved was
\* written to the .ini first.
DecidedOnce ==
    \A id \in 1..MaxAsked :
        /\ Cardinality(outcomes[id]) <= 1
        /\ outcomes[id] = {"approved"} => id \in written

\* No editor drops a mod that was there when it read the lines, unless its
\* reader took it off.
KnownModsStay == taken = {}

RequestsAreSettled == ListIsBounded /\ DecidedOnce /\ KnownModsStay
=============================================================================
