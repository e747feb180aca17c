------------------------------ MODULE Accounts ------------------------------
(***************************************************************************)
(* Who may use PZAdmin: API keys (apikeys.go), users (users.go) and        *)
(* sessions (auth.go).  Each store is a map in memory and a file that is   *)
(* replaced whole.  A request changes the map under mu, and then saves:    *)
(* under saveMu it takes a snapshot of the map and writes it.  Memory may  *)
(* change again between snapshot and write, any write may fail, and PZAdmin*)
(* may be killed at any moment and come back with what the files say.      *)
(***************************************************************************)
EXTENDS Naturals

CONSTANTS
    Keys, Users, Tokens, \* ids, random in the code: each is made at most once
    Servers,             \* server ids
    Owner,               \* the owner, whose account is in config.json
    Requests,            \* HTTP requests that may be under way at a time
    Housekeeping,        \* housekeepingLoop, which flushes and collects
    None,
    MaxUses,             \* bound on the recorded uses of a key
    Families             \* which operations are exercised together (see Areas)

Procs == Requests \cup {Housekeeping}
Ids == Keys \cup Users \cup Tokens
People == Users \cup {Owner}

\* Keys share no file with users and sessions, so not everything need be
\* exercised at once.
Areas == {"keys", "users", "lists", "sessions", "owner", "expiry"}

ASSUME AccountsAssumption ==
    /\ MaxUses \in Nat
    /\ Families \subseteq SUBSET Areas
    /\ Owner \notin Users /\ None \notin People \cup Tokens \cup Procs \cup Ids \cup Servers
    /\ Keys \cap Users = {} /\ Keys \cap Tokens = {} /\ Users \cap Tokens = {}

VARIABLES
    family,   \* one of Families, for good
    mem,      \* the three maps in memory
    disk,     \* the files
    dirty,    \* apiKeyStore.dirty
    servers,  \* the servers in config.json
    expired,  \* sessions past their Expires
    saveMu,   \* who saves each file
    req,      \* the requests under way
    made,     \* history: ids that have been used up
    given,    \* history: keys handed out to their user
    revoked,  \* history: keys the owner asked to revoke
    refused,  \* history: keys and users whose creation was answered with an error
    gone,     \* history: ids whose removal has been written to disk
    unsaved   \* history: files whose last write failed

store == <<mem, disk, dirty>>
history == <<made, given, revoked, refused, gone, unsaved>>
vars == <<family, store, servers, expired, saveMu, req, history>>

\* A user limited to no servers sees all of them.  all is history: the owner
\* has given this user every server.
User == [there : BOOLEAN, must : BOOLEAN, off : BOOLEAN,
         servers : SUBSET Servers, all : BOOLEAN]
NoUser == [there |-> FALSE, must |-> FALSE, off |-> FALSE, servers |-> {}, all |-> FALSE]

Image == [keys : SUBSET Keys, used : [Keys -> 0..MaxUses],
          users : [Users -> User], sess : [Tokens -> People \cup {None}]]
Blank == [keys |-> {}, used |-> [k \in Keys |-> 0],
          users |-> [u \in Users |-> NoUser], sess |-> [t \in Tokens |-> None]]

Files == {"keys", "users", "sessions"}

\* The owner's sessions and the users' are two files, written in this order.
PutKeys(from, to) == [to EXCEPT !.keys = from.keys, !.used = from.used]
PutUsers(from, to) == [to EXCEPT !.users = from.users]
PutOwnerSessions(from, to) ==
    [to EXCEPT !.sess = [t \in Tokens |->
        IF from.sess[t] = Owner THEN Owner
        ELSE IF to.sess[t] = Owner THEN None ELSE to.sess[t]]]
PutUserSessions(from, to) ==
    [to EXCEPT !.sess = [t \in Tokens |->
        IF from.sess[t] \in Users THEN from.sess[t]
        ELSE IF to.sess[t] \in Users THEN None ELSE to.sess[t]]]

Snapshot(f) == CASE f = "keys" -> PutKeys(mem, Blank)
                 [] f = "users" -> PutUsers(mem, Blank)
                 [] OTHER -> [Blank EXCEPT !.sess = mem.sess]

(***************************************************************************)
(* A request: what it was asked (op, id), where it is (at), the file it    *)
(* saves, its snapshot, what it removed (out), whether its save went well, *)
(* the session revokeUser leaves alone (keep), the server list it has      *)
(* checked (list).                                                         *)
(***************************************************************************)
Ops == {"none", "create key", "revoke key", "flush", "sign in", "sign out",
        "owner password", "add user", "change user", "disable", "enable",
        "reset", "remove", "choose", "remove server"}
Steps == {"idle", "checked", "save", "write", "write users", "saved"}

Request == [op : Ops, id : Ids \cup Servers \cup {Owner, None}, at : Steps,
            file : Files \cup {"none"}, snap : Image, out : SUBSET Ids,
            ok : BOOLEAN, keep : Tokens \cup {None}, list : SUBSET Servers]
Idle == [op |-> "none", id |-> None, at |-> "idle", file |-> "none", snap |-> Blank,
         out |-> {}, ok |-> TRUE, keep |-> None, list |-> {}]

TypeOK ==
    /\ family \in Families
    /\ mem \in Image /\ disk \in Image /\ dirty \in BOOLEAN
    /\ servers \in SUBSET Servers
    /\ expired \in SUBSET Tokens
    /\ saveMu \in [Files -> Procs \cup {None}]
    /\ req \in [Procs -> Request]
    /\ made \in SUBSET Ids /\ refused \in SUBSET Ids /\ gone \in SUBSET Ids
    /\ given \in SUBSET Keys /\ revoked \in SUBSET Keys
    /\ unsaved \in [Files -> BOOLEAN]

Init ==
    /\ family \in Families
    /\ mem = Blank /\ disk = Blank /\ dirty = FALSE
    /\ servers = Servers
    /\ expired = {}
    /\ saveMu = [f \in Files |-> None]
    /\ req = [p \in Procs |-> Idle]
    /\ made = {} /\ given = {} /\ revoked = {} /\ refused = {} /\ gone = {}
    /\ unsaved = [f \in Files |-> FALSE]

Free(p) == req[p].at = "idle"
Asks(p, area) == area \in family /\ Free(p)
Set(p, r) == req' = [req EXCEPT ![p] = r]
Ends(p) == Set(p, Idle)
Asked(op, id) == [Idle EXCEPT !.op = op, !.id = id, !.at = "checked"]
Saving(r, f, out) == [r EXCEPT !.at = "save", !.file = f, !.out = out]
Saves(p, op, id, f, out) == Set(p, Saving(Asked(op, id), f, out))

---------------------------------------------------------------------------
\* save: one saver of a file at a time, from snapshot to rename.

\* Mutant: the snapshot is taken without waiting for saveMu.
TakeSaveMuAnyway(p) ==
    /\ req[p].at = "save"
    /\ saveMu' = [saveMu EXCEPT ![req[p].file] = p]
    /\ Set(p, [req[p] EXCEPT !.at = "write", !.snap = Snapshot(req[p].file)])
    /\ UNCHANGED <<family, store, servers, expired, history>>

TakeSaveMu(p) ==
    /\ req[p].at = "save"
    /\ saveMu[req[p].file] = None
    /\ saveMu' = [saveMu EXCEPT ![req[p].file] = p]
    /\ Set(p, [req[p] EXCEPT !.at = "write", !.snap = Snapshot(req[p].file)])
    /\ UNCHANGED <<family, store, servers, expired, history>>

Written(p) ==
    /\ saveMu' = [saveMu EXCEPT ![req[p].file] = None]
    /\ Set(p, [req[p] EXCEPT !.at = "saved", !.snap = Blank, !.ok = TRUE])
    /\ unsaved' = [unsaved EXCEPT ![req[p].file] = FALSE]
    /\ gone' = gone \cup req[p].out
    /\ UNCHANGED <<family, mem, dirty, servers, expired, made, given, revoked, refused>>

WriteKeys(p) ==
    /\ req[p].at = "write" /\ req[p].file = "keys"
    /\ disk' = PutKeys(req[p].snap, disk)
    /\ Written(p)

WriteUsers(p) ==
    /\ req[p].at = "write" /\ req[p].file = "users"
    /\ disk' = PutUsers(req[p].snap, disk)
    /\ Written(p)

WriteOwnerSessions(p) ==
    /\ req[p].at = "write" /\ req[p].file = "sessions"
    /\ disk' = PutOwnerSessions(req[p].snap, disk)
    /\ Set(p, [req[p] EXCEPT !.at = "write users"])
    /\ UNCHANGED <<family, mem, dirty, servers, expired, saveMu, history>>

\* Mutant: the users' sessions are not written to their own file.
WriteUserSessionsNever(p) ==
    /\ req[p].at = "write users"
    /\ disk' = disk
    /\ Written(p)

WriteUserSessions(p) ==
    /\ req[p].at = "write users"
    /\ disk' = PutUserSessions(req[p].snap, disk)
    /\ Written(p)

WriteFails(p) ==
    /\ req[p].at \in {"write", "write users"}
    /\ saveMu' = [saveMu EXCEPT ![req[p].file] = None]
    /\ Set(p, [req[p] EXCEPT !.at = "saved", !.snap = Blank, !.ok = FALSE])
    /\ unsaved' = [unsaved EXCEPT ![req[p].file] = TRUE]
    /\ UNCHANGED <<family, store, servers, expired, made, given, revoked, refused, gone>>

\* Requests that do nothing more once they have saved.
Answered(p) ==
    /\ req[p].at = "saved"
    /\ \/ req[p].op \in {"revoke key", "sign in", "sign out", "owner password",
                         "change user", "enable", "remove server"}
       \/ req[p].file = "sessions"
    /\ Ends(p)
    /\ UNCHANGED <<family, store, servers, expired, saveMu, history>>

---------------------------------------------------------------------------
\* API keys

CreateKey(p, k) ==
    /\ Asks(p, "keys") /\ k \notin made
    /\ mem' = [mem EXCEPT !.keys = @ \cup {k}]
    /\ made' = made \cup {k}
    /\ Saves(p, "create key", k, "keys", {})
    /\ UNCHANGED <<family, disk, dirty, servers, expired, saveMu, given, revoked, refused, gone, unsaved>>

\* Mutant: the key is handed out although it could not be saved.
KeyCreatedAnyway(p) ==
    /\ req[p].at = "saved" /\ req[p].op = "create key"
    /\ given' = given \cup {req[p].id}
    /\ Ends(p)
    /\ UNCHANGED <<family, store, servers, expired, saveMu, made, revoked, refused, gone, unsaved>>

\* The key is handed out, or taken back when it could not be saved.
KeyCreated(p) ==
    /\ req[p].at = "saved" /\ req[p].op = "create key"
    /\ \/ /\ req[p].ok
          /\ given' = given \cup {req[p].id}
          /\ UNCHANGED <<mem, refused>>
       \/ /\ ~req[p].ok
          /\ mem' = [mem EXCEPT !.keys = @ \ {req[p].id}]
          /\ refused' = refused \cup {req[p].id}
          /\ UNCHANGED given
    /\ Ends(p)
    /\ UNCHANGED <<family, disk, dirty, servers, expired, saveMu, made, revoked, gone, unsaved>>

\* A key that is not there is not found, and nothing is saved.
RevokeKey(p, k) ==
    /\ Asks(p, "keys") /\ k \in mem.keys
    /\ mem' = [mem EXCEPT !.keys = @ \ {k}]
    /\ revoked' = revoked \cup {k}
    /\ Saves(p, "revoke key", k, "keys", {k})
    /\ UNCHANGED <<family, disk, dirty, servers, expired, saveMu, made, given, refused, gone, unsaved>>

RevokeAllKeys(p) ==
    /\ Asks(p, "keys")
    /\ mem' = [mem EXCEPT !.keys = {}]
    /\ revoked' = revoked \cup mem.keys
    /\ Saves(p, "revoke key", None, "keys", mem.keys)
    /\ UNCHANGED <<family, disk, dirty, servers, expired, saveMu, made, given, refused, gone, unsaved>>

\* lookup: a use that is worth recording (after a minute, or from a new address).
UseKey(k) ==
    /\ "keys" \in family /\ k \in mem.keys /\ mem.used[k] < MaxUses
    /\ mem' = [mem EXCEPT !.used[k] = @ + 1]
    /\ dirty' = TRUE
    /\ UNCHANGED <<family, disk, servers, expired, saveMu, req, history>>

Flush(p) ==
    /\ Asks(p, "keys") /\ dirty
    /\ dirty' = FALSE
    /\ Saves(p, "flush", None, "keys", {})
    /\ UNCHANGED <<family, mem, disk, servers, expired, saveMu, history>>

\* Mutant: dirty is cleared again when the save went well.
FlushEndsClean(p) ==
    /\ req[p].at = "saved" /\ req[p].op = "flush"
    /\ dirty' = ~req[p].ok
    /\ Ends(p)
    /\ UNCHANGED <<family, mem, disk, servers, expired, saveMu, history>>

FlushEnds(p) ==
    /\ req[p].at = "saved" /\ req[p].op = "flush"
    /\ dirty' = (dirty \/ ~req[p].ok)
    /\ Ends(p)
    /\ UNCHANGED <<family, mem, disk, servers, expired, saveMu, history>>

---------------------------------------------------------------------------
\* Sessions

\* principalFor: the owner always may, a user while there and not disabled.
Allowed(a) == a \in Users => mem.users[a].there /\ ~mem.users[a].off

\* The account is read, and its password verified, before the session is made.
SignIn(p, a) ==
    /\ Asks(p, IF a = Owner THEN "owner" ELSE "sessions") /\ Allowed(a)
    /\ Set(p, Asked("sign in", a))
    /\ UNCHANGED <<family, store, servers, expired, saveMu, history>>

\* Mutant: create is given the name where the user's id belongs.
SignInEndsByName(p, t) ==
    /\ req[p].at = "checked" /\ req[p].op = "sign in" /\ t \notin made
    /\ mem' = [mem EXCEPT !.sess[t] = "name"]
    /\ made' = made \cup {t}
    /\ Set(p, Saving(req[p], "sessions", {}))
    /\ UNCHANGED <<family, disk, dirty, servers, expired, saveMu, given, revoked, refused, gone, unsaved>>

SignInEnds(p, t) ==
    /\ req[p].at = "checked" /\ req[p].op = "sign in" /\ t \notin made
    /\ mem' = [mem EXCEPT !.sess[t] = req[p].id]
    /\ made' = made \cup {t}
    /\ Set(p, Saving(req[p], "sessions", {}))
    /\ UNCHANGED <<family, disk, dirty, servers, expired, saveMu, given, revoked, refused, gone, unsaved>>

Dropped(ts) == [mem EXCEPT !.sess = [t \in Tokens |-> IF t \in ts THEN None ELSE mem.sess[t]]]
SessionsOf(a) == {t \in Tokens : mem.sess[t] = a}
AllSessions == {t \in Tokens : mem.sess[t] # None}

\* handleLogout, and requireAuth for a session whose account is gone.
SignOut(p, t) ==
    /\ Free(p) /\ t \in AllSessions
    /\ mem' = Dropped({t})
    /\ Saves(p, "sign out", t, "sessions", {t})
    /\ UNCHANGED <<family, disk, dirty, servers, expired, saveMu, history>>

SignOutAll(p) ==
    /\ Free(p) /\ SessionsOf(Owner) # {}
    /\ mem' = Dropped(AllSessions)
    /\ Saves(p, "sign out", None, "sessions", AllSessions)
    /\ UNCHANGED <<family, disk, dirty, servers, expired, saveMu, history>>

Expire(t) ==
    /\ "expiry" \in family /\ t \in AllSessions \ expired
    /\ expired' = expired \cup {t}
    /\ UNCHANGED <<family, store, servers, saveMu, req, history>>

\* lookup drops an expired session from memory, and saves nothing.
LookupExpired(t) ==
    /\ t \in AllSessions \cap expired
    /\ mem' = Dropped({t})
    /\ UNCHANGED <<family, disk, dirty, servers, expired, saveMu, req, history>>

Gc(p) ==
    /\ Free(p) /\ AllSessions \cap expired # {}
    /\ mem' = Dropped(expired)
    /\ Saves(p, "sign out", None, "sessions", AllSessions \cap expired)
    /\ UNCHANGED <<family, disk, dirty, servers, expired, saveMu, history>>

\* revokeUser: it saves only when it removed something.
RevokeUser(p, a, keep) ==
    LET ts == SessionsOf(a) \ {keep} IN
    /\ mem' = Dropped(ts)
    /\ IF ts = {} THEN Ends(p) ELSE Set(p, Saving(req[p], "sessions", ts))
    /\ UNCHANGED <<family, disk, dirty, servers, expired, saveMu, history>>

\* handlePassword of the owner: config.json is written, then the sessions go.
\* One that cannot be written changes nothing, as all that is refused.
OwnerPassword(p) ==
    /\ Free(p) /\ SessionsOf(Owner) # {}
    /\ Set(p, Asked("owner password", Owner))
    /\ UNCHANGED <<family, store, servers, expired, saveMu, history>>

OwnerPasswordSet(p) ==
    /\ req[p].at = "checked" /\ req[p].op = "owner password"
    /\ RevokeUser(p, Owner, None)

---------------------------------------------------------------------------
\* Users

WithUser(u, user) == [mem EXCEPT !.users[u] = user]

\* The server list is checked, and a password hashed, before the map is locked.
AddUser(p, list) ==
    /\ Asks(p, "users") /\ list \subseteq servers
    /\ Set(p, [Asked("add user", None) EXCEPT !.list = list])
    /\ UNCHANGED <<family, store, servers, expired, saveMu, history>>

AddUserStores(p, u) ==
    /\ req[p].at = "checked" /\ req[p].op = "add user" /\ u \notin made
    /\ mem' = WithUser(u, [there |-> TRUE, must |-> TRUE, off |-> FALSE,
                           servers |-> req[p].list, all |-> req[p].list = {}])
    /\ made' = made \cup {u}
    /\ Set(p, [Saving(req[p], "users", {}) EXCEPT !.id = u])
    /\ UNCHANGED <<family, disk, dirty, servers, expired, saveMu, given, revoked, refused, gone, unsaved>>

UserAdded(p) ==
    /\ req[p].at = "saved" /\ req[p].op = "add user"
    /\ \/ req[p].ok /\ UNCHANGED <<mem, refused>>
       \/ /\ ~req[p].ok
          /\ mem' = WithUser(req[p].id, NoUser)
          /\ refused' = refused \cup {req[p].id}
    /\ Ends(p)
    /\ UNCHANGED <<family, disk, dirty, servers, expired, saveMu, made, given, revoked, gone, unsaved>>

ChangeUser(p, u, list) ==
    /\ Asks(p, "lists") /\ list \subseteq servers
    /\ Set(p, [Asked("change user", u) EXCEPT !.list = list])
    /\ UNCHANGED <<family, store, servers, expired, saveMu, history>>

\* change: a user who is not there any more is an error, and nothing is saved.
NoSuchUser(p) ==
    /\ req[p].at = "checked" /\ req[p].op \in {"change user", "choose"}
    /\ ~mem.users[req[p].id].there
    /\ Ends(p)
    /\ UNCHANGED <<family, store, servers, expired, saveMu, history>>

ChangeUserStores(p) ==
    LET u == req[p].id IN
    /\ req[p].at = "checked" /\ req[p].op = "change user" /\ mem.users[u].there
    /\ mem' = WithUser(u, [mem.users[u] EXCEPT !.servers = req[p].list, !.all = req[p].list = {}])
    /\ Set(p, Saving(req[p], "users", {}))
    /\ UNCHANGED <<family, disk, dirty, servers, expired, saveMu, history>>

\* disable, enable, reset and remove: the change, then a save, and but for
\* enable the user's sessions (UserSaved).
Manage(p, op, u, user, out) ==
    /\ Asks(p, "users") /\ mem.users[u].there
    /\ mem' = WithUser(u, user)
    /\ Saves(p, op, u, "users", out)
    /\ UNCHANGED <<family, disk, dirty, servers, expired, saveMu, history>>

DisableUser(p, u) == Manage(p, "disable", u, [mem.users[u] EXCEPT !.off = TRUE], {})
EnableUser(p, u) ==
    Manage(p, "enable", u, [mem.users[u] EXCEPT !.off = FALSE, !.all = @ \/ mem.users[u].servers = {}], {})
ResetUser(p, u) == Manage(p, "reset", u, [mem.users[u] EXCEPT !.must = TRUE], {})
RemoveUser(p, u) == Manage(p, "remove", u, NoUser, {u})

\* handleUserPassword of the user signed in with t, up to the new hash.  Only
\* who chooses a first password stays signed in.
ChoosePassword(p, t) ==
    LET u == mem.sess[t] IN
    /\ Asks(p, "sessions") /\ t \notin expired
    /\ u \in Users /\ Allowed(u)
    /\ Set(p, [Asked("choose", u) EXCEPT !.keep = IF mem.users[u].must THEN t ELSE None])
    /\ UNCHANGED <<family, store, servers, expired, saveMu, history>>

PasswordChosen(p) ==
    LET u == req[p].id IN
    /\ req[p].at = "checked" /\ req[p].op = "choose" /\ mem.users[u].there
    /\ mem' = WithUser(u, [mem.users[u] EXCEPT !.must = FALSE])
    /\ Set(p, Saving(req[p], "users", {}))
    /\ UNCHANGED <<family, disk, dirty, servers, expired, saveMu, history>>

\* Sessions go even when the owner's change could not be saved; a user whose
\* new password could not be saved keeps theirs.
UserSaved(p) ==
    /\ req[p].at = "saved" /\ req[p].file = "users"
    /\ \/ req[p].op \in {"disable", "reset", "remove"}
       \/ req[p].op = "choose" /\ req[p].ok
    /\ RevokeUser(p, req[p].id, req[p].keep)

PasswordNotSaved(p) ==
    /\ req[p].at = "saved" /\ req[p].file = "users" /\ req[p].op = "choose" /\ ~req[p].ok
    /\ Ends(p)
    /\ UNCHANGED <<family, store, servers, expired, saveMu, history>>

\* removeServer: config.json first.  When that fails the users forget the
\* server all the same.
RemoveServer(p, s) ==
    /\ Asks(p, "lists") /\ s \in servers
    /\ servers' \in {servers, servers \ {s}}
    /\ Set(p, Asked("remove server", s))
    /\ UNCHANGED <<family, store, expired, saveMu, history>>

\* Mutant: a user left with no server is not disabled.
ForgottenOnly(s) ==
    [u \in Users |-> [mem.users[u] EXCEPT !.servers = @ \ {s}]]

\* A user left with no server is disabled.
Forgotten(s) ==
    [u \in Users |-> [mem.users[u] EXCEPT
        !.servers = @ \ {s}, !.off = @ \/ mem.users[u].servers = {s}]]

ForgetServer(p) ==
    LET s == req[p].id IN
    /\ req[p].at = "checked" /\ req[p].op = "remove server"
    /\ mem' = [mem EXCEPT !.users = Forgotten(s)]
    /\ IF \E u \in Users : s \in mem.users[u].servers
       THEN Set(p, Saving(req[p], "users", {}))
       ELSE Ends(p)
    /\ UNCHANGED <<family, disk, dirty, servers, expired, saveMu, history>>

---------------------------------------------------------------------------
\* PZAdmin is killed, or stopped, and comes back with what the files say.
\* load leaves expired sessions out.
Restart ==
    /\ mem' = [disk EXCEPT !.sess =
                  [t \in Tokens |-> IF t \in expired THEN None ELSE disk.sess[t]]]
    /\ dirty' = FALSE
    /\ saveMu' = [f \in Files |-> None]
    /\ req' = [p \in Procs |-> Idle]
    /\ unsaved' = [f \in Files |-> FALSE]
    /\ UNCHANGED <<family, disk, servers, expired, made, given, revoked, refused, gone>>

SaveStep(p) ==
    \/ TakeSaveMu(p) \/ WriteKeys(p) \/ WriteUsers(p) \/ WriteOwnerSessions(p)
    \/ WriteUserSessions(p) \/ WriteFails(p) \/ Answered(p)

KeyStep(p) ==
    \/ \E k \in Keys : CreateKey(p, k) \/ RevokeKey(p, k)
    \/ RevokeAllKeys(p)

SessionStep(p) ==
    \/ \E a \in People : SignIn(p, a)
    \/ \E t \in Tokens : SignInEnds(p, t) \/ SignOut(p, t) \/ ChoosePassword(p, t)
    \/ SignOutAll(p) \/ OwnerPassword(p) \/ OwnerPasswordSet(p)

UserStep(p) ==
    \/ \E list \in SUBSET Servers : AddUser(p, list) \/ \E u \in Users : ChangeUser(p, u, list)
    \/ \E u \in Users : AddUserStores(p, u) \/ DisableUser(p, u) \/ EnableUser(p, u) \/ ResetUser(p, u) \/ RemoveUser(p, u)
    \/ \E s \in Servers : RemoveServer(p, s)
    \/ UserAdded(p) \/ NoSuchUser(p) \/ ChangeUserStores(p)
    \/ PasswordChosen(p) \/ UserSaved(p) \/ PasswordNotSaved(p) \/ ForgetServer(p)

Next ==
    \/ \E p \in Procs : SaveStep(p)
    \/ \E p \in Requests : KeyStep(p) \/ KeyCreated(p) \/ SessionStep(p) \/ UserStep(p)
    \/ Flush(Housekeeping) \/ FlushEnds(Housekeeping) \/ Gc(Housekeeping)
    \/ \E k \in Keys : UseKey(k)
    \/ \E t \in Tokens : Expire(t) \/ LookupExpired(t)
    \/ Restart

Spec == Init /\ [][Next]_vars

---------------------------------------------------------------------------
(***************************************************************************)
(* Properties                                                              *)
(***************************************************************************)

\* Two images agree on a file, but for what a refused creation left behind and
\* for expired sessions, which the code drops from memory without saving.
Agree(f, a, b) ==
    CASE f = "keys"  -> a.keys \ refused = b.keys \ refused
      [] f = "users" -> \A u \in Users \ refused : a.users[u] = b.users[u]
      [] OTHER       -> \A t \in Tokens \ expired : a.sess[t] = b.sess[t]

\* p is about to take a snapshot for f, or holds one that is up to date.
WillSave(p, f) ==
    /\ req[p].file = f
    /\ \/ req[p].at = "save"
       \/ req[p].at \in {"write", "write users"} /\ Agree(f, mem, req[p].snap)

\* What the owner did is not forgotten: a change that is in memory only is
\* about to be saved, or the last write of its file failed.  Savers that
\* overtake each other must not write an older snapshot over a newer one.
SavedOrOnItsWay ==
    \A f \in Files : Agree(f, mem, disk) \/ unsaved[f] \/ \E p \in Procs : WillSave(p, f)

\* Last-used times are flushed by housekeeping: uses that are not on disk are
\* marked by dirty, also those recorded while a flush is writing.
UsageReachesDisk ==
    \A k \in mem.keys \cap disk.keys :
        \/ mem.used[k] = disk.used[k]
        \/ dirty
        \/ \E p \in Procs :
              /\ req[p].file = "keys"
              /\ \/ req[p].at = "save"
                 \/ req[p].at = "write" /\ req[p].snap.used[k] = mem.used[k]
                 \/ req[p].at = "saved" /\ req[p].op = "flush" /\ ~req[p].ok

\* Everything in memory is on disk, or still on its way there.
ReachesDisk == SavedOrOnItsWay /\ UsageReachesDisk

\* "A key that is not on disk would vanish at the next restart, so do not hand
\* it out" (apikeys.go): a key somebody holds works, before and after a
\* restart, until it is revoked.
HandedOutKeySurvives == given \ revoked \subseteq mem.keys \cap disk.keys

Present(image) ==
    image.keys \cup {u \in Users : image.users[u].there} \cup {t \in Tokens : image.sess[t] # None}

\* What was removed and saved stays removed: no later save, and no restart,
\* brings back a revoked key, a removed user or a signed-out session.
GoneStaysGone == gone \cap (Present(mem) \cup Present(disk)) = {}

\* "A user left with no servers at all is disabled rather than quietly given
\* every server" (users.go): whoever may see every server was given them by
\* the owner, or enabled again by the owner while limited to none.
NeverQuietlyWidened ==
    \A u \in Users :
        mem.users[u].there /\ ~mem.users[u].off /\ mem.users[u].servers = {} => mem.users[u].all
=============================================================================
