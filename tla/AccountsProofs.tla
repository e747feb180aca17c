--------------------------- MODULE AccountsProofs ---------------------------
(***************************************************************************)
(* Proofs about Accounts: for any number of keys, users, sessions and      *)
(* requests, whatever writes fail and whenever PZAdmin is killed, a key    *)
(* that was handed out works until it is revoked, what the owner does      *)
(* reaches the disk, what was removed stays removed, and nobody sees more  *)
(* servers than they were given.                                           *)
(***************************************************************************)
EXTENDS Accounts, TLAPS

\* Forgetting a server leaves alone who was not limited to it.
LEMMA NotForgotten ==
    ASSUME NEW v \in User, NEW s, s \notin v.servers, v.servers # {s}
    PROVE  [v EXCEPT !.servers = @ \ {s}, !.off = @ \/ v.servers = {s}] = v
<1>1. CASE v.off = TRUE
  BY <1>1 DEF User
<1>2. CASE v.off = FALSE
  BY <1>2 DEF User
<1> QED
  BY <1>1, <1>2 DEF User

USE AccountsAssumption DEF Procs, Ids, People

---------------------------------------------------------------------------
\* Types.  What an id is depends on what was asked.
Typed ==
    \A p \in Procs :
        /\ req[p].op = "sign in" => req[p].id \in People
        /\ req[p].op = "create key" =>
              /\ req[p].id \in Keys /\ req[p].file = "keys"
              /\ req[p].at \in {"save", "write", "saved"}
        /\ req[p].op = "add user" /\ req[p].at # "checked" => req[p].id \in Users
        /\ req[p].op \in {"disable", "reset", "remove", "choose"} => req[p].id \in Users
        /\ req[p].at \in {"save", "write", "write users", "saved"} => req[p].file \in Files
        /\ req[p].at = "write users" => req[p].file = "sessions"

TInv == TypeOK /\ Typed

LEMMA BlankImage == Blank \in Image
BY DEF Blank, Image, NoUser, User

LEMMA IdleRequest == Idle \in Request
BY BlankImage DEF Idle, Request, Ops, Steps

LEMMA ImageParts ==
    ASSUME NEW i \in Image
    PROVE  /\ i.keys \in SUBSET Keys /\ i.used \in [Keys -> 0..MaxUses]
           /\ i.users \in [Users -> User] /\ i.sess \in [Tokens -> People \cup {None}]
BY DEF Image

LEMMA PutImages ==
    ASSUME NEW a \in Image, NEW b \in Image
    PROVE  /\ PutKeys(a, b) \in Image /\ PutUsers(a, b) \in Image
           /\ PutOwnerSessions(a, b) \in Image /\ PutUserSessions(a, b) \in Image
           /\ [b EXCEPT !.sess = a.sess] \in Image
<1>1. PutKeys(a, b) \in Image /\ PutUsers(a, b) \in Image /\ [b EXCEPT !.sess = a.sess] \in Image
  BY DEF PutKeys, PutUsers, Image
<1>2. [t \in Tokens |-> IF a.sess[t] = Owner THEN Owner
                        ELSE IF b.sess[t] = Owner THEN None ELSE b.sess[t]]
        \in [Tokens -> People \cup {None}]
  BY ImageParts
<1>3. [t \in Tokens |-> IF a.sess[t] \in Users THEN a.sess[t]
                        ELSE IF b.sess[t] \in Users THEN None ELSE b.sess[t]]
        \in [Tokens -> People \cup {None}]
  BY ImageParts
<1>4. PutOwnerSessions(a, b) \in Image
  BY <1>2 DEF PutOwnerSessions, Image
<1>5. PutUserSessions(a, b) \in Image
  BY <1>3 DEF PutUserSessions, Image
<1> QED
  BY <1>1, <1>4, <1>5

LEMMA SnapshotImage ==
    ASSUME TypeOK, NEW f \in Files
    PROVE  Snapshot(f) \in Image
<1>1. mem \in Image
  BY DEF TypeOK
<1>2. CASE f = "keys"
  BY <1>1, <1>2, BlankImage, PutImages DEF Snapshot
<1>3. CASE f = "users"
  BY <1>1, <1>3, BlankImage, PutImages DEF Snapshot
<1>4. CASE f = "sessions"
  BY <1>1, <1>4, BlankImage, PutImages DEF Snapshot
<1> QED
  BY <1>2, <1>3, <1>4 DEF Files

\* An r that may follow in the place of a request: nothing else changes in req.
Fits(r) ==
    /\ r \in Request
    /\ r.op = "sign in" => r.id \in People
    /\ r.op = "create key" =>
          /\ r.id \in Keys /\ r.file = "keys" /\ r.at \in {"save", "write", "saved"}
    /\ r.op = "add user" /\ r.at # "checked" => r.id \in Users
    /\ r.op \in {"disable", "reset", "remove", "choose"} => r.id \in Users
    /\ r.at \in {"save", "write", "write users", "saved"} => r.file \in Files
    /\ r.at = "write users" => r.file = "sessions"

LEMMA TInvFits == ASSUME TInv, NEW p \in Procs PROVE Fits(req[p])
BY DEF TInv, TypeOK, Typed, Fits

LEMMA SetFits ==
    ASSUME TInv, NEW p \in Procs, NEW r, Fits(r), Set(p, r)
    PROVE  req' \in [Procs -> Request] /\ Typed'
BY DEF TInv, TypeOK, Typed, Fits, Set

LEMMA IdleFits == Fits(Idle)
BY IdleRequest DEF Fits, Idle

LEMMA EndsFits ==
    ASSUME TInv, NEW p \in Procs, Ends(p)
    PROVE  req' \in [Procs -> Request] /\ Typed'
BY IdleFits, SetFits DEF Ends

LEMMA SavingFits ==
    ASSUME NEW r, Fits(r), NEW f \in Files, NEW out \in SUBSET Ids,
           r.op = "create key" => f = "keys", r.op = "add user" => r.id \in Users
    PROVE  Fits(Saving(r, f, out))
BY ZenonT(60) DEF Saving, Fits, Request, Steps

LEMMA AskedFits ==
    ASSUME NEW op \in Ops \ {"create key", "sign in", "add user"},
           NEW id \in Ids \cup Servers \cup {Owner, None},
           op \in {"disable", "reset", "remove", "choose"} => id \in Users
    PROVE  Fits(Asked(op, id)) /\ Asked(op, id).op = op
<1>1. Asked(op, id) \in Request
  BY IdleRequest DEF Asked, Request, Steps
<1>2. Asked(op, id).op = op /\ Asked(op, id).at = "checked"
  BY DEF Asked, Idle
<1>3. Asked(op, id).id = id
  BY DEF Asked, Idle
<1> QED
  BY <1>1, <1>2, <1>3 DEF Fits

LEMMA SavesFits ==
    ASSUME TInv, NEW p \in Procs, NEW op \in Ops \ {"create key", "sign in", "add user"},
           NEW id \in Ids \cup Servers \cup {Owner, None}, NEW f \in Files,
           NEW out \in SUBSET Ids, Saves(p, op, id, f, out),
           op \in {"disable", "reset", "remove", "choose"} => id \in Users
    PROVE  req' \in [Procs -> Request] /\ Typed'
<1>1. Fits(Saving(Asked(op, id), f, out))
  BY AskedFits, SavingFits
<1> QED
  BY <1>1, SetFits DEF Saves

LEMMA DroppedImage ==
    ASSUME TypeOK, NEW ts
    PROVE  Dropped(ts) \in Image
<1>1. mem \in Image
  BY DEF TypeOK
<1>2. [t \in Tokens |-> IF t \in ts THEN None ELSE mem.sess[t]] \in [Tokens -> People \cup {None}]
  BY <1>1, ImageParts
<1> QED
  BY <1>1, <1>2 DEF Dropped, Image

LEMMA UsersImage ==
    ASSUME TypeOK, NEW us \in [Users -> User]
    PROVE  [mem EXCEPT !.users = us] \in Image
BY DEF TypeOK, Image

LEMMA UserImage ==
    ASSUME TypeOK, NEW u, NEW user \in User
    PROVE  WithUser(u, user) \in Image
<1>1. mem \in Image /\ mem.users \in [Users -> User]
  BY ImageParts DEF TypeOK
<1>2. [mem.users EXCEPT ![u] = user] \in [Users -> User]
  BY <1>1
<1> QED
  BY <1>1, <1>2, UsersImage DEF WithUser

LEMMA OtherUserImage ==
    ASSUME TypeOK, NEW u, u \notin Users, NEW user
    PROVE  WithUser(u, user) \in Image
<1>1. mem \in Image /\ mem.users \in [Users -> User]
  BY ImageParts DEF TypeOK
<1>2. [mem.users EXCEPT ![u] = user] = mem.users
  BY <1>1
<1> QED
  BY <1>1, <1>2, UsersImage DEF WithUser

LEMMA LimitedUser ==
    ASSUME NEW user \in User, NEW list \in SUBSET Servers, NEW all \in BOOLEAN
    PROVE  [user EXCEPT !.servers = list, !.all = all] \in User
BY DEF User

LEMMA RevokeUserType ==
    ASSUME TInv, NEW p \in Procs, NEW a, NEW keep, RevokeUser(p, a, keep),
           req[p].op \notin {"create key", "add user"}
    PROVE  TInv'
<1> DEFINE ts == SessionsOf(a) \ {keep}
<1>1. mem' \in Image
  BY DroppedImage DEF RevokeUser, TInv
<1>2. ts \in SUBSET Ids
  BY DEF SessionsOf
<1>3. Fits(Saving(req[p], "sessions", ts))
  BY <1>2, TInvFits, SavingFits DEF Files
<1>4. req' \in [Procs -> Request] /\ Typed'
  BY <1>3, SetFits, EndsFits DEF RevokeUser
<1> QED
  BY <1>1, <1>4 DEF RevokeUser, TInv, TypeOK, history

LEMMA ManageType ==
    ASSUME TInv, NEW p \in Procs, NEW op \in {"disable", "enable", "reset", "remove"},
           NEW u \in Users, NEW user \in User, NEW out \in SUBSET Ids,
           Manage(p, op, u, user, out)
    PROVE  TInv'
<1>1. mem' \in Image
  BY UserImage DEF Manage, TInv
<1>2. req' \in [Procs -> Request] /\ Typed'
  BY SavesFits DEF Manage, Ops, Files
<1> QED
  BY <1>1, <1>2 DEF Manage, TInv, TypeOK, history

LEMMA TypeInitially == Init => TInv
<1> SUFFICES ASSUME Init PROVE TInv
  OBVIOUS
<1>1. Typed
  BY DEF Init, Typed, Idle
<1>2. req \in [Procs -> Request] /\ mem \in Image /\ disk \in Image
  BY BlankImage, IdleRequest DEF Init
<1> QED
  BY <1>1, <1>2 DEF Init, TInv, TypeOK

LEMMA TypeSave == ASSUME TInv, NEW p \in Procs, SaveStep(p) PROVE TInv'
<1> USE DEF TInv, TypeOK
<1>1. Fits(req[p]) /\ req[p] \in Request
  BY TInvFits DEF Fits
<1>2. ASSUME Written(p), req[p].at \in {"write", "write users"} PROVE
        /\ req' \in [Procs -> Request] /\ Typed'
        /\ saveMu' \in [Files -> Procs \cup {None}] /\ unsaved' \in [Files -> BOOLEAN]
        /\ gone' \in SUBSET Ids
  <2>1. Fits([req[p] EXCEPT !.at = "saved", !.snap = Blank, !.ok = TRUE])
    BY <1>1, <1>2, BlankImage DEF Fits, Request, Steps
  <2>2. gone' \in SUBSET Ids
    BY <1>1, <1>2 DEF Written, Request
  <2> QED
    BY <1>2, <2>1, <2>2, SetFits DEF Written
<1>3. CASE TakeSaveMu(p)
  <2>1. req[p].file \in Files
    BY <1>1, <1>3 DEF TakeSaveMu, Fits
  <2>2. Fits([req[p] EXCEPT !.at = "write", !.snap = Snapshot(req[p].file)])
    BY <1>1, <1>3, <2>1, SnapshotImage DEF Fits, Request, Steps, TakeSaveMu
  <2> QED
    BY <1>3, <2>1, <2>2, SetFits DEF TakeSaveMu, store, history
<1>4. CASE WriteKeys(p)
  <2>1. disk' \in Image
    BY <1>1, <1>4, PutImages DEF WriteKeys, Request
  <2> QED
    BY <1>2, <1>4, <2>1 DEF WriteKeys, Written
<1>5. CASE WriteUsers(p)
  <2>1. disk' \in Image
    BY <1>1, <1>5, PutImages DEF WriteUsers, Request
  <2> QED
    BY <1>2, <1>5, <2>1 DEF WriteUsers, Written
<1>6. CASE WriteOwnerSessions(p)
  <2>1. disk' \in Image
    BY <1>1, <1>6, PutImages DEF WriteOwnerSessions, Request
  <2>2. Fits([req[p] EXCEPT !.at = "write users"])
    BY <1>1, <1>6 DEF Fits, Request, Steps, WriteOwnerSessions
  <2> QED
    BY <1>6, <2>1, <2>2, SetFits DEF WriteOwnerSessions, history
<1>7. CASE WriteUserSessions(p)
  <2>1. disk' \in Image
    BY <1>1, <1>7, PutImages DEF WriteUserSessions, Request
  <2> QED
    BY <1>2, <1>7, <2>1 DEF WriteUserSessions, Written
<1>8. CASE WriteFails(p)
  <2>1. Fits([req[p] EXCEPT !.at = "saved", !.snap = Blank, !.ok = FALSE])
    BY <1>1, <1>8, BlankImage DEF Fits, Request, Steps, WriteFails
  <2> QED
    BY <1>8, <2>1, SetFits DEF WriteFails, store
<1>9. CASE Answered(p)
  BY <1>9, EndsFits DEF Answered, store, history
<1> QED
  BY <1>3, <1>4, <1>5, <1>6, <1>7, <1>8, <1>9 DEF SaveStep

LEMMA TypeKeys ==
    ASSUME TInv, NEW p \in Procs, KeyStep(p) \/ KeyCreated(p) \/ Flush(p) \/ FlushEnds(p)
    PROVE  TInv'
<1> USE DEF TInv, TypeOK
<1>1. mem \in Image /\ mem.keys \in SUBSET Keys
  BY ImageParts
<1>2. ASSUME NEW ks \in SUBSET Keys PROVE [mem EXCEPT !.keys = ks] \in Image
  BY <1>1 DEF Image
<1>3. ASSUME NEW k \in Keys, CreateKey(p, k) PROVE TInv'
  <2>1. Saving(Asked("create key", k), "keys", {}) \in Request
    BY IdleRequest, ZenonT(60) DEF Saving, Asked, Request, Ops, Steps, Files
  <2>2. Fits(Saving(Asked("create key", k), "keys", {}))
    BY <2>1 DEF Fits, Saving, Asked, Idle, Files
  <2>3. mem' \in Image
    BY <1>1, <1>2, <1>3 DEF CreateKey
  <2> QED
    BY <1>3, <2>2, <2>3, SetFits DEF CreateKey, Saves
<1>4. ASSUME NEW k \in Keys, RevokeKey(p, k) PROVE TInv'
  <2>1. mem' \in Image
    BY <1>1, <1>2, <1>4 DEF RevokeKey
  <2>2. req' \in [Procs -> Request] /\ Typed'
    BY <1>4, SavesFits, ZenonT(60) DEF RevokeKey, Ops, Files
  <2> QED
    BY <1>4, <2>1, <2>2 DEF RevokeKey
<1>5. CASE RevokeAllKeys(p)
  <2>1. mem' \in Image
    BY <1>1, <1>2, <1>5 DEF RevokeAllKeys
  <2>2. req' \in [Procs -> Request] /\ Typed'
    BY <1>1, <1>5, SavesFits DEF RevokeAllKeys, Ops, Files
  <2> QED
    BY <1>1, <1>5, <2>1, <2>2 DEF RevokeAllKeys
<1>6. CASE KeyCreated(p)
  <2>1. req[p].id \in Keys
    BY <1>6 DEF KeyCreated, Typed
  <2>2. mem' \in Image
    <3>1. mem.keys \ {req[p].id} \in SUBSET Keys
      BY <1>1
    <3>2. mem' = mem \/ mem' = [mem EXCEPT !.keys = mem.keys \ {req[p].id}]
      BY <1>6 DEF KeyCreated
    <3> QED
      BY <1>1, <1>2, <3>1, <3>2
  <2> QED
    BY <1>6, <2>1, <2>2, EndsFits DEF KeyCreated
<1>7. CASE Flush(p)
  <2>1. req' \in [Procs -> Request] /\ Typed'
    BY <1>7, SavesFits DEF Flush, Ops, Files
  <2> QED
    BY <1>7, <2>1 DEF Flush, history
<1>8. CASE FlushEnds(p)
  BY <1>8, EndsFits DEF FlushEnds, history
<1> QED
  BY <1>3, <1>4, <1>5, <1>6, <1>7, <1>8 DEF KeyStep

LEMMA TypeSessions ==
    ASSUME TInv, NEW p \in Procs, SessionStep(p) \/ Gc(p)
    PROVE  TInv'
<1> USE DEF TInv, TypeOK
<1>1. mem \in Image /\ mem.sess \in [Tokens -> People \cup {None}]
  BY ImageParts
<1>2. AllSessions \in SUBSET Ids
  BY DEF AllSessions
<1>3. ASSUME NEW a \in People, SignIn(p, a) PROVE TInv'
  <2>1. Fits(Asked("sign in", a))
    BY IdleRequest DEF Fits, Asked, Idle, Request, Ops, Steps
  <2> QED
    BY <1>3, <2>1, SetFits DEF SignIn, store, history
<1>4. ASSUME NEW t \in Tokens, SignInEnds(p, t) PROVE TInv'
  <2>1. req[p].id \in People
    BY <1>4 DEF SignInEnds, Typed
  <2>2. [mem.sess EXCEPT ![t] = req[p].id] \in [Tokens -> People \cup {None}]
    BY <1>1, <2>1
  <2>3. mem' \in Image
    BY <1>1, <1>4, <2>2 DEF SignInEnds, Image
  <2>4. Fits(Saving(req[p], "sessions", {}))
    BY <1>4, TInvFits, SavingFits DEF Files, SignInEnds
  <2> QED
    BY <1>4, <2>3, <2>4, SetFits DEF SignInEnds
<1>5. ASSUME NEW t \in Tokens, SignOut(p, t) PROVE TInv'
  <2>1. req' \in [Procs -> Request] /\ Typed'
    BY <1>5, SavesFits, ZenonT(60) DEF SignOut, Ops, Files
  <2> QED
    BY <1>5, <2>1, DroppedImage DEF SignOut, history
<1>6. ASSUME NEW t \in Tokens, ChoosePassword(p, t) PROVE TInv'
  <2> DEFINE u == mem.sess[t]
  <2>1. u \in Users
    BY <1>6 DEF ChoosePassword
  <2>2. Fits(Asked("choose", u)) /\ Asked("choose", u).op = "choose"
    BY <2>1, AskedFits DEF Ops
  <2>3. PICK keep \in Tokens \cup {None} :
            Set(p, [Asked("choose", u) EXCEPT !.keep = keep])
    BY <1>6, Zenon DEF ChoosePassword
  <2>4. Fits([Asked("choose", u) EXCEPT !.keep = keep])
    BY <2>2, <2>3 DEF Fits, Request
  <2> QED
    BY <1>6, <2>3, <2>4, SetFits DEF ChoosePassword, store, history
<1>7. CASE SignOutAll(p)
  <2>1. req' \in [Procs -> Request] /\ Typed'
    BY <1>2, <1>7, SavesFits DEF SignOutAll, Ops, Files
  <2> QED
    BY <1>7, <2>1, DroppedImage DEF SignOutAll, history
<1>8. CASE OwnerPassword(p)
  BY <1>8, AskedFits, SetFits DEF OwnerPassword, store, history, Ops
<1>9. CASE OwnerPasswordSet(p)
  BY <1>9, RevokeUserType DEF OwnerPasswordSet
<1>10. CASE Gc(p)
  <2>1. AllSessions \cap expired \in SUBSET Ids
    BY <1>2
  <2>2. req' \in [Procs -> Request] /\ Typed'
    BY <1>10, <2>1, SavesFits DEF Gc, Ops, Files
  <2> QED
    BY <1>10, <2>2, DroppedImage DEF Gc, history
<1> QED
  BY <1>3, <1>4, <1>5, <1>6, <1>7, <1>8, <1>9, <1>10 DEF SessionStep

LEMMA TypeUsers == ASSUME TInv, NEW p \in Procs, UserStep(p) PROVE TInv'
<1> USE DEF TInv, TypeOK
<1>1. mem \in Image /\ mem.users \in [Users -> User]
  BY ImageParts
<1>2. Fits(req[p]) /\ req[p] \in Request
  BY TInvFits DEF Fits
<1>3. ASSUME NEW f \in Files, Set(p, Saving(req[p], f, {})), req[p].op \in {"choose", "change user", "remove server"}
      PROVE  req' \in [Procs -> Request] /\ Typed'
  BY <1>2, <1>3, SavingFits, SetFits
<1>4. ASSUME NEW list \in SUBSET Servers, AddUser(p, list) PROVE TInv'
  <2>1. Fits([Asked("add user", None) EXCEPT !.list = list])
    BY IdleRequest DEF Fits, Asked, Idle, Request, Ops, Steps
  <2> QED
    BY <1>4, <2>1, SetFits DEF AddUser, store, history
<1>5. ASSUME NEW u \in Users, NEW list \in SUBSET Servers, ChangeUser(p, u, list) PROVE TInv'
  <2>1. Fits(Asked("change user", u)) /\ Asked("change user", u).op = "change user"
    BY AskedFits DEF Ops
  <2>2. Fits([Asked("change user", u) EXCEPT !.list = list])
    BY <2>1 DEF Fits, Request
  <2> QED
    BY <1>5, <2>2, SetFits DEF ChangeUser, store, history
<1>6. ASSUME NEW u \in Users, AddUserStores(p, u) PROVE TInv'
  <2>1. [there |-> TRUE, must |-> TRUE, off |-> FALSE,
         servers |-> req[p].list, all |-> req[p].list = {}] \in User
    BY <1>2 DEF User, Request
  <2>2. mem' \in Image
    BY <1>6, <2>1, UserImage DEF AddUserStores
  <2>3. Fits([Saving(req[p], "users", {}) EXCEPT !.id = u])
    BY <1>2, <1>6 DEF AddUserStores, Saving, Fits, Request, Files, Steps
  <2> QED
    BY <1>6, <2>2, <2>3, SetFits DEF AddUserStores
<1>7. CASE UserAdded(p)
  <2>1. NoUser \in User
    BY DEF NoUser, User
  <2>2. mem' \in Image
    <3>1. mem' = mem \/ mem' = WithUser(req[p].id, NoUser)
      BY <1>7 DEF UserAdded
    <3>2. WithUser(req[p].id, NoUser) \in Image
      BY <2>1, UserImage
    <3> QED
      BY <1>1, <3>1, <3>2
  <2>3. req[p].id \in Users
    BY <1>7 DEF UserAdded, Typed
  <2> QED
    BY <1>7, <2>2, <2>3, EndsFits DEF UserAdded
<1>8. CASE NoSuchUser(p)
  BY <1>8, EndsFits DEF NoSuchUser, store, history
<1>9. CASE ChangeUserStores(p)
  <2> DEFINE u == req[p].id
  <2>1. ASSUME u \in Users PROVE mem' \in Image
    <3> DEFINE user == [mem.users[u] EXCEPT !.servers = req[p].list, !.all = req[p].list = {}]
    <3>1. req[p].list \in SUBSET Servers /\ (req[p].list = {}) \in BOOLEAN
      BY <1>2 DEF Request
    <3>2. mem.users[u] \in User
      BY <1>1, <2>1
    <3>3. user \in User
      BY <3>1, <3>2, LimitedUser
    <3>4. mem' = WithUser(u, user)
      BY <1>9 DEF ChangeUserStores
    <3> HIDE DEF user
    <3> QED
      BY <3>3, <3>4, UserImage
  <2>2. ASSUME u \notin Users PROVE mem' \in Image
    <3>1. PICK user : mem' = WithUser(u, user)
      BY <1>9 DEF ChangeUserStores
    <3> QED
      BY <2>2, <3>1, OtherUserImage
  <2>3. mem' \in Image
    BY <2>1, <2>2
  <2> QED
    BY <1>3, <1>9, <2>3 DEF ChangeUserStores, history, Files
<1>10. ASSUME NEW u \in Users,
              DisableUser(p, u) \/ EnableUser(p, u) \/ ResetUser(p, u) \/ RemoveUser(p, u)
       PROVE  TInv'
  <2>1. mem.users[u] \in User
    BY <1>1
  <2>2. CASE DisableUser(p, u)
    <3>1. [mem.users[u] EXCEPT !.off = TRUE] \in User
      BY <2>1 DEF User
    <3> QED
      BY <2>2, <3>1, ManageType DEF DisableUser
  <2>3. CASE EnableUser(p, u)
    <3>1. [mem.users[u] EXCEPT !.off = FALSE, !.all = @ \/ mem.users[u].servers = {}] \in User
      BY <2>1 DEF User
    <3> QED
      BY <2>3, <3>1, ManageType DEF EnableUser
  <2>4. CASE ResetUser(p, u)
    <3>1. [mem.users[u] EXCEPT !.must = TRUE] \in User
      BY <2>1 DEF User
    <3> QED
      BY <2>4, <3>1, ManageType DEF ResetUser
  <2>5. CASE RemoveUser(p, u)
    <3>1. NoUser \in User
      BY DEF NoUser, User
    <3> QED
      BY <2>5, <3>1, ManageType DEF RemoveUser
  <2> QED
    BY <1>10, <2>2, <2>3, <2>4, <2>5
<1>11. CASE PasswordChosen(p)
  <2> DEFINE u == req[p].id
  <2>1. ASSUME u \in Users PROVE mem' \in Image
    <3> DEFINE user == [mem.users[u] EXCEPT !.must = FALSE]
    <3>1. mem.users[u] \in User
      BY <1>1, <2>1
    <3>2. user \in User
      BY <3>1 DEF User
    <3>3. mem' = WithUser(u, user)
      BY <1>11 DEF PasswordChosen
    <3> HIDE DEF user
    <3> QED
      BY <3>2, <3>3, UserImage
  <2>2. ASSUME u \notin Users PROVE mem' \in Image
    <3>1. PICK user : mem' = WithUser(u, user)
      BY <1>11 DEF PasswordChosen
    <3> QED
      BY <2>2, <3>1, OtherUserImage
  <2>3. mem' \in Image
    BY <2>1, <2>2
  <2> QED
    BY <1>3, <1>11, <2>3 DEF PasswordChosen, history, Files
<1>12. CASE UserSaved(p)
  BY <1>12, RevokeUserType DEF UserSaved
<1>13. CASE PasswordNotSaved(p)
  BY <1>13, EndsFits DEF PasswordNotSaved, store, history
<1>14. ASSUME NEW s \in Servers, RemoveServer(p, s) PROVE TInv'
  <2>1. servers' \in SUBSET Servers
    BY <1>14 DEF RemoveServer
  <2>2. req' \in [Procs -> Request] /\ Typed'
    BY <1>14, AskedFits, SetFits DEF RemoveServer, Ops
  <2> QED
    BY <1>14, <2>1, <2>2 DEF RemoveServer, store, history
<1>15. CASE ForgetServer(p)
  <2>1. Forgotten(req[p].id) \in [Users -> User]
    <3>1. ASSUME NEW u \in Users, NEW s
          PROVE  [mem.users[u] EXCEPT !.servers = mem.users[u].servers \ {s},
                    !.off = mem.users[u].off \/ mem.users[u].servers = {s}] \in User
      <4>1. mem.users[u] \in User
        BY <1>1
      <4>2. (mem.users[u].off \/ mem.users[u].servers = {s}) \in BOOLEAN
        OBVIOUS
      <4>3. mem.users[u].servers \ {s} \in SUBSET Servers
        BY <4>1 DEF User
      <4> QED
        BY <4>1, <4>2, <4>3 DEF User
    <3> QED
      BY <3>1 DEF Forgotten
  <2>2. mem' \in Image
    BY <1>15, <2>1, UsersImage DEF ForgetServer
  <2>3. req' \in [Procs -> Request] /\ Typed'
    BY <1>3, <1>15, EndsFits DEF ForgetServer, Files
  <2> QED
    BY <1>15, <2>2, <2>3 DEF ForgetServer, history
<1> QED
  BY <1>4, <1>5, <1>6, <1>7, <1>8, <1>9, <1>10, <1>11, <1>12, <1>13, <1>14, <1>15 DEF UserStep

LEMMA TypeAlone ==
    ASSUME TInv,
           \/ \E k \in Keys : UseKey(k)
           \/ \E t \in Tokens : Expire(t) \/ LookupExpired(t)
           \/ Restart
           \/ UNCHANGED vars
    PROVE  TInv'
<1> USE DEF TInv, TypeOK
<1>1. ASSUME NEW k \in Keys, UseKey(k) PROVE TInv'
  <2>1. mem \in Image /\ mem.used \in [Keys -> 0..MaxUses] /\ mem.used[k] + 1 \in 0..MaxUses
    BY <1>1, ImageParts DEF UseKey
  <2>2. [mem.used EXCEPT ![k] = @ + 1] \in [Keys -> 0..MaxUses]
    BY <2>1
  <2>3. mem' \in Image
    BY <1>1, <2>1, <2>2 DEF UseKey, Image
  <2>4. Typed'
    BY <1>1 DEF UseKey, Typed
  <2> QED
    BY <1>1, <2>3, <2>4 DEF UseKey, history
<1>2. ASSUME NEW t \in Tokens, Expire(t) PROVE TInv'
  <2>1. Typed'
    BY <1>2 DEF Expire, Typed
  <2> QED
    BY <1>2, <2>1 DEF Expire, store, history
<1>3. ASSUME NEW t \in Tokens, LookupExpired(t) PROVE TInv'
  <2>1. Typed'
    BY <1>3 DEF LookupExpired, Typed
  <2> QED
    BY <1>3, <2>1, DroppedImage DEF LookupExpired, history
<1>4. CASE Restart
  <2>1. [t \in Tokens |-> IF t \in expired THEN None ELSE disk.sess[t]]
           \in [Tokens -> People \cup {None}]
    BY ImageParts
  <2>2. mem' \in Image
    BY <1>4, <2>1 DEF Restart, Image
  <2>3. req' \in [Procs -> Request]
    BY <1>4, IdleRequest DEF Restart
  <2>4. Typed'
    BY <1>4 DEF Restart, Typed, Idle
  <2> QED
    BY <1>4, <2>2, <2>3, <2>4 DEF Restart
<1>5. CASE UNCHANGED vars
  <2>1. Typed'
    BY <1>5 DEF vars, Typed
  <2> QED
    BY <1>5, <2>1 DEF vars, store, history
<1> QED
  BY <1>1, <1>2, <1>3, <1>4, <1>5

LEMMA TypeStep == TInv /\ [Next]_vars => TInv'
BY TypeSave, TypeKeys, TypeSessions, TypeUsers, TypeAlone DEF Next

\* Every value the three stores, their files and the requests under way take is
\* a legal one: no request stores something that is not an account, or saves a
\* file that is not its own.
THEOREM TypeCorrect == Spec => []TypeOK
<1>1. Spec => []TInv
  BY TypeInitially, TypeStep, PTL DEF Spec
<1> QED
  BY <1>1, PTL DEF TInv

---------------------------------------------------------------------------
(***************************************************************************)
(* Handed-out keys.  Whoever writes a file holds its saveMu, so its        *)
(* snapshot is the newest one.  A key that somebody holds is in memory, in *)
(* the file and in every snapshot about to become the file; a key under    *)
(* creation is in memory, then in its creator's snapshot, then in the file.*)
(* Unless it has been revoked meanwhile.                                   *)
(***************************************************************************)
Writing == {"write", "write users"}
Locked == \A p \in Procs : req[p].at \in Writing => saveMu[req[p].file] = p

WritesKeys(p) == req[p].at = "write" /\ req[p].file = "keys"
InSnapshots(k) == \A p \in Procs : WritesKeys(p) => k \in req[p].snap.keys

Kept == \A k \in given \ revoked : k \in mem.keys /\ k \in disk.keys /\ InSnapshots(k)

Creates(p) == req[p].op = "create key"
UnderWay(r) ==
    /\ r.id \in made \ given
    /\ r.id \notin revoked =>
          /\ r.id \in mem.keys
          /\ r.at = "write" => r.id \in r.snap.keys
          /\ r.at = "saved" /\ r.ok => r.id \in disk.keys /\ InSnapshots(r.id)
Creating == \A p \in Procs : Creates(p) => UnderWay(req[p])

Distinct == \A p, q \in Procs : Creates(p) /\ Creates(q) /\ p # q => req[p].id # req[q].id

KInv == Locked /\ Kept /\ Creating /\ Distinct /\ given \subseteq made

LEMMA KeysInitially == Init => KInv
<1> SUFFICES ASSUME Init PROVE KInv
  OBVIOUS
<1>1. \A p \in Procs : req[p].at = "idle" /\ req[p].op = "none"
  BY DEF Init, Idle
<1> QED
  BY <1>1 DEF Init, KInv, Locked, Kept, Creating, Distinct, Creates, Writing

\* A step that leaves the keys file alone, and takes no key out of memory that
\* is not revoked.
Quiet(p, r) ==
    /\ req' = [req EXCEPT ![p] = r]
    /\ r.op # "create key" /\ r.at \notin Writing
    /\ mem.keys \ mem'.keys \subseteq revoked' /\ revoked \subseteq revoked'
    /\ disk' = disk /\ UNCHANGED <<given, saveMu>> /\ made \subseteq made'

LEMMA QuietStep ==
    ASSUME TInv, KInv, NEW p \in Procs, NEW r, Quiet(p, r)
    PROVE  KInv'
<1> USE DEF Quiet
<1>1. req \in [Procs -> Request]
  BY DEF TInv, TypeOK
<1>2. \A q \in Procs : q # p => req'[q] = req[q]
  BY <1>1
<1>3. req'[p] = r
  BY <1>1
<1>4. Locked'
  BY <1>2, <1>3 DEF KInv, Locked
<1>5. \A k : InSnapshots(k) => InSnapshots(k)'
  BY <1>2, <1>3 DEF InSnapshots, WritesKeys, Writing
<1>6. Kept'
  BY <1>5 DEF KInv, Kept
<1>7. \A q \in Procs : Creates(q)' => q # p /\ Creates(q)
  BY <1>2, <1>3 DEF Creates
<1>8. Creating'
  <2>1. ASSUME NEW q \in Procs, Creates(q)' PROVE UnderWay(req[q])'
    <3>1. req'[q] = req[q] /\ UnderWay(req[q])
      BY <1>2, <1>7, <2>1 DEF KInv, Creating
    <3>2. InSnapshots(req[q].id) => InSnapshots(req[q].id)'
      BY <1>5, <3>1 DEF InSnapshots
    <3>3. req[q].id \notin revoked' => req[q].id \in mem'.keys
      BY <3>1 DEF UnderWay
    <3>4. req[q].id \in made' \ given'
      BY <3>1 DEF UnderWay
    <3>5. req[q].id \notin revoked' /\ req[q].at = "write" => req[q].id \in req[q].snap.keys
      BY <3>1 DEF UnderWay
    <3>6. ASSUME req[q].id \notin revoked', req[q].at = "saved", req[q].ok
          PROVE  req[q].id \in disk'.keys /\ InSnapshots(req[q].id)'
      <4>1. req[q].id \in disk.keys /\ InSnapshots(req[q].id)
        BY <3>1, <3>6 DEF UnderWay
      <4> QED
        BY <3>1, <3>2, <4>1
    <3> QED
      BY <3>1, <3>3, <3>4, <3>5, <3>6 DEF UnderWay
  <2> QED
    BY <2>1 DEF Creating
<1>9. Distinct'
  BY <1>2, <1>7 DEF KInv, Distinct
<1> QED
  BY <1>4, <1>6, <1>8, <1>9 DEF KInv

\* Steps of no request.
LEMMA NoRequestStep ==
    ASSUME TInv, KInv, req' = req, mem'.keys = mem.keys, disk' = disk,
           UNCHANGED <<given, revoked, saveMu, made>>
    PROVE  KInv'
BY DEF KInv, Locked, Kept, Creating, UnderWay, Distinct, Creates, InSnapshots, WritesKeys

LEMMA SavesQuiet ==
    ASSUME NEW op, NEW id, NEW f, NEW out
    PROVE  /\ Saving(Asked(op, id), f, out).op = op
           /\ Saving(Asked(op, id), f, out).at = "save"
           /\ Asked(op, id).op = op /\ Asked(op, id).at = "checked"
BY DEF Saving, Asked, Idle

LEMMA MemKeys ==
    ASSUME TypeOK
    PROVE  /\ \A ts : Dropped(ts).keys = mem.keys
           /\ \A u, user : WithUser(u, user).keys = mem.keys
           /\ \A us : [mem EXCEPT !.users = us].keys = mem.keys
BY DEF TypeOK, Image, Dropped, WithUser

LEMMA RevokeUserQuiet ==
    ASSUME TInv, NEW p \in Procs, NEW a, NEW keep, RevokeUser(p, a, keep), ~Creates(p)
    PROVE  \E r : Quiet(p, r)
<1> DEFINE ts == SessionsOf(a) \ {keep}
<1>1. PICK r \in {Idle, Saving(req[p], "sessions", ts)} : req' = [req EXCEPT ![p] = r]
  <2>1. CASE ts = {}
    BY <2>1 DEF RevokeUser, Ends, Set
  <2>2. CASE ts # {}
    BY <2>2 DEF RevokeUser, Set
  <2> QED
    BY <2>1, <2>2
<1>2. req[p] \in Request
  BY DEF TInv, TypeOK
<1>3. r.op # "create key" /\ r.at \notin Writing
  <2>1. CASE r = Idle
    BY <2>1 DEF Idle, Writing
  <2>2. CASE r = Saving(req[p], "sessions", ts)
    <3>1. r.op = req[p].op /\ r.at = "save"
      BY <1>2, <2>2 DEF Saving, Request
    <3> QED
      BY <3>1 DEF Writing, Creates
  <2> QED
    BY <1>1, <2>1, <2>2
<1>4. mem'.keys = mem.keys
  BY MemKeys DEF TInv, RevokeUser
<1> QED
  BY <1>1, <1>3, <1>4 DEF Quiet, RevokeUser, history

LEMMA SessionsQuiet ==
    ASSUME TInv, NEW p \in Procs, SessionStep(p) \/ Gc(p)
    PROVE  \E r : Quiet(p, r)
<1> USE DEF Quiet, Set, Saves, Writing
<1>1. ASSUME NEW a \in People, SignIn(p, a) PROVE \E r : Quiet(p, r)
  <2> DEFINE r == Asked("sign in", a)
  <2>1. r.op # "create key" /\ r.at \notin Writing
    BY SavesQuiet
  <2>2. req' = [req EXCEPT ![p] = r]
    BY <1>1 DEF SignIn
  <2> HIDE DEF r
  <2> QED
    BY <1>1, <2>1, <2>2 DEF SignIn, store, history
<1>2. ASSUME NEW t \in Tokens, SignInEnds(p, t) PROVE \E r : Quiet(p, r)
  <2>1. req[p] \in Request /\ mem \in Image
    BY DEF TInv, TypeOK
  <2>2. Saving(req[p], "sessions", {}).op = "sign in" /\ Saving(req[p], "sessions", {}).at = "save"
    BY <1>2, <2>1 DEF SignInEnds, Saving, Request
  <2>3. mem'.keys = mem.keys
    BY <1>2, <2>1 DEF SignInEnds, Image
  <2> QED
    BY <1>2, <2>2, <2>3 DEF SignInEnds
<1>3. ASSUME NEW t \in Tokens, SignOut(p, t) PROVE \E r : Quiet(p, r)
  <2> DEFINE r == Saving(Asked("sign out", t), "sessions", {t})
  <2>1. r.op # "create key" /\ r.at \notin Writing
    BY DEF Saving, Asked, Idle
  <2>2. req' = [req EXCEPT ![p] = r]
    BY <1>3 DEF SignOut
  <2>4. PICK ts : mem' = Dropped(ts)
    BY <1>3 DEF SignOut
  <2>3. mem'.keys = mem.keys
    BY <2>4, MemKeys DEF TInv
  <2> HIDE DEF r
  <2> QED
    BY <1>3, <2>1, <2>2, <2>3 DEF SignOut, store, history
<1>4. ASSUME NEW t \in Tokens, ChoosePassword(p, t) PROVE \E r : Quiet(p, r)
  <2> DEFINE r == [Asked("choose", mem.sess[t]) EXCEPT
                      !.keep = IF mem.users[mem.sess[t]].must THEN t ELSE None]
  <2>1. r.op = "choose" /\ r.at = "checked"
    BY DEF Asked, Idle
  <2>2. req' = [req EXCEPT ![p] = r]
    BY <1>4 DEF ChoosePassword
  <2> HIDE DEF r
  <2> QED
    BY <1>4, <2>1, <2>2 DEF ChoosePassword, store, history
<1>5. CASE SignOutAll(p)
  <2> DEFINE r == Saving(Asked("sign out", None), "sessions", AllSessions)
  <2>1. r.op # "create key" /\ r.at \notin Writing
    BY DEF Saving, Asked, Idle
  <2>2. req' = [req EXCEPT ![p] = r]
    BY <1>5 DEF SignOutAll
  <2>4. PICK ts : mem' = Dropped(ts)
    BY <1>5 DEF SignOutAll
  <2>3. mem'.keys = mem.keys
    BY <2>4, MemKeys DEF TInv
  <2> HIDE DEF r
  <2> QED
    BY <1>5, <2>1, <2>2, <2>3 DEF SignOutAll, store, history
<1>6. CASE OwnerPassword(p)
  <2> DEFINE r == Asked("owner password", Owner)
  <2>1. r.op # "create key" /\ r.at \notin Writing
    BY SavesQuiet
  <2>2. req' = [req EXCEPT ![p] = r]
    BY <1>6 DEF OwnerPassword
  <2> HIDE DEF r
  <2> QED
    BY <1>6, <2>1, <2>2 DEF OwnerPassword, store, history
<1>7. CASE OwnerPasswordSet(p)
  BY <1>7, RevokeUserQuiet DEF OwnerPasswordSet, Creates
<1>8. CASE Gc(p)
  <2> DEFINE r == Saving(Asked("sign out", None), "sessions", AllSessions \cap expired)
  <2>1. r.op # "create key" /\ r.at \notin Writing
    BY DEF Saving, Asked, Idle
  <2>2. req' = [req EXCEPT ![p] = r]
    BY <1>8 DEF Gc
  <2>4. PICK ts : mem' = Dropped(ts)
    BY <1>8 DEF Gc
  <2>3. mem'.keys = mem.keys
    BY <2>4, MemKeys DEF TInv
  <2> HIDE DEF r
  <2> QED
    BY <1>8, <2>1, <2>2, <2>3 DEF Gc, store, history
<1> QED
  BY <1>1, <1>2, <1>3, <1>4, <1>5, <1>6, <1>7, <1>8 DEF SessionStep

LEMMA UsersQuiet ==
    ASSUME TInv, NEW p \in Procs, UserStep(p)
    PROVE  \E r : Quiet(p, r)
<1> USE DEF Quiet, Set, Saves, Ends, Writing
<1>1. req[p] \in Request /\ TypeOK
  BY DEF TInv, TypeOK
<1>2. Idle.op = "none" /\ Idle.at = "idle"
  BY DEF Idle
<1>3. ASSUME req[p].op # "create key"
      PROVE  Saving(req[p], "users", {}).op # "create key" /\ Saving(req[p], "users", {}).at = "save"
  BY <1>1, <1>3 DEF Saving, Request
<1>4. ASSUME NEW list \in SUBSET Servers, AddUser(p, list) PROVE \E r : Quiet(p, r)
  <2> DEFINE r == [Asked("add user", None) EXCEPT !.list = list]
  <2>1. r.op = "add user" /\ r.at = "checked"
    BY DEF Asked, Idle
  <2>2. req' = [req EXCEPT ![p] = r]
    BY <1>4 DEF AddUser
  <2> HIDE DEF r
  <2> QED
    BY <1>4, <2>1, <2>2 DEF AddUser, store, history
<1>5. ASSUME NEW u \in Users, NEW list \in SUBSET Servers, ChangeUser(p, u, list)
      PROVE  \E r : Quiet(p, r)
  <2> DEFINE r == [Asked("change user", u) EXCEPT !.list = list]
  <2>1. r.op = "change user" /\ r.at = "checked"
    BY DEF Asked, Idle
  <2>2. req' = [req EXCEPT ![p] = r]
    BY <1>5 DEF ChangeUser
  <2> HIDE DEF r
  <2> QED
    BY <1>5, <2>1, <2>2 DEF ChangeUser, store, history
<1>6. ASSUME NEW u \in Users, AddUserStores(p, u) PROVE \E r : Quiet(p, r)
  <2> DEFINE r == [Saving(req[p], "users", {}) EXCEPT !.id = u]
  <2>1. r.op = "add user" /\ r.at = "save"
    BY <1>1, <1>6 DEF AddUserStores, Saving, Request
  <2>2. req' = [req EXCEPT ![p] = r]
    BY <1>6 DEF AddUserStores
  <2>4. PICK user : mem' = WithUser(u, user)
    BY <1>6 DEF AddUserStores
  <2>3. mem'.keys = mem.keys
    BY <1>1, <2>4, MemKeys
  <2> HIDE DEF r
  <2> QED
    BY <1>6, <2>1, <2>2, <2>3 DEF AddUserStores
<1>7. CASE UserAdded(p)
  <2>1. mem'.keys = mem.keys
    BY <1>1, <1>7, MemKeys DEF UserAdded
  <2> QED
    BY <1>2, <1>7, <2>1 DEF UserAdded
<1>8. CASE NoSuchUser(p)
  BY <1>2, <1>8 DEF NoSuchUser, store, history
<1>9. CASE ChangeUserStores(p)
  <2>1. mem'.keys = mem.keys
    BY <1>1, <1>9, MemKeys DEF ChangeUserStores
  <2> QED
    BY <1>3, <1>9, <2>1 DEF ChangeUserStores, history
<1>10. ASSUME NEW op \in {"disable", "enable", "reset", "remove"}, NEW u \in Users, NEW user,
              NEW out, Manage(p, op, u, user, out)
       PROVE  \E r : Quiet(p, r)
  BY <1>1, <1>10, SavesQuiet, MemKeys, ZenonT(60) DEF Manage, history
<1>11. ASSUME NEW u \in Users,
              DisableUser(p, u) \/ EnableUser(p, u) \/ ResetUser(p, u) \/ RemoveUser(p, u)
       PROVE  \E r : Quiet(p, r)
  <2>1. PICK op, user, out : /\ op \in {"disable", "enable", "reset", "remove"}
                             /\ Manage(p, op, u, user, out)
    BY <1>11 DEF DisableUser, EnableUser, ResetUser, RemoveUser
  <2> QED
    BY <1>10, <2>1
<1>12. CASE PasswordChosen(p)
  <2>1. mem'.keys = mem.keys
    BY <1>1, <1>12, MemKeys DEF PasswordChosen
  <2> QED
    BY <1>3, <1>12, <2>1 DEF PasswordChosen, history
<1>13. CASE UserSaved(p)
  BY <1>13, RevokeUserQuiet DEF UserSaved, Creates
<1>14. CASE PasswordNotSaved(p)
  BY <1>2, <1>14 DEF PasswordNotSaved, store, history
<1>15. ASSUME NEW s \in Servers, RemoveServer(p, s) PROVE \E r : Quiet(p, r)
  <2> DEFINE r == Asked("remove server", s)
  <2>1. r.op # "create key" /\ r.at \notin Writing
    BY SavesQuiet
  <2>2. req' = [req EXCEPT ![p] = r]
    BY <1>15 DEF RemoveServer
  <2> HIDE DEF r
  <2> QED
    BY <1>15, <2>1, <2>2 DEF RemoveServer, store, history
<1>16. CASE ForgetServer(p)
  <2>1. mem'.keys = mem.keys
    BY <1>1, <1>16, MemKeys DEF ForgetServer
  <2>2. req' = [req EXCEPT ![p] = Saving(req[p], "users", {})] \/ req' = [req EXCEPT ![p] = Idle]
    BY <1>16 DEF ForgetServer
  <2> QED
    BY <1>2, <1>3, <1>16, <2>1, <2>2 DEF ForgetServer, history
<1> QED
  BY <1>4, <1>5, <1>6, <1>7, <1>8, <1>9, <1>11, <1>12, <1>13, <1>14, <1>15, <1>16 DEF UserStep

\* A key is created under a fresh id, and handed out when it is on disk.
LEMMA CreateKeyStep ==
    ASSUME TInv, KInv, NEW p \in Procs, NEW k \in Keys, CreateKey(p, k)
    PROVE  KInv'
<1> USE DEF KInv
<1> DEFINE r == Saving(Asked("create key", k), "keys", {})
<1>1. r.op = "create key" /\ r.at = "save" /\ r.id = k
  BY DEF Saving, Asked, Idle
<1>2. req' = [req EXCEPT ![p] = r]
  BY DEF CreateKey, Saves, Set
<1> HIDE DEF r
<1>3. req'[p] = r /\ \A q \in Procs : q # p => req'[q] = req[q]
  BY <1>2 DEF TInv, TypeOK
<1>4. mem'.keys = mem.keys \cup {k}
  BY DEF CreateKey, TInv, TypeOK, Image
<1>5. k \notin made /\ made' = made \cup {k} /\ disk' = disk
      /\ UNCHANGED <<given, revoked, saveMu>>
  BY DEF CreateKey
<1>6. Locked'
  BY <1>1, <1>3, <1>5 DEF Locked, Writing
<1>7. \A j : InSnapshots(j) => InSnapshots(j)'
  BY <1>1, <1>3 DEF InSnapshots, WritesKeys
<1>8. Kept'
  BY <1>4, <1>5, <1>7 DEF Kept
<1>9. Creating'
  <2>1. ASSUME NEW q \in Procs, q # p, Creates(q)' PROVE UnderWay(req[q])'
    <3>1. req'[q] = req[q] /\ UnderWay(req[q])
      BY <1>3, <2>1 DEF Creating, Creates
    <3>2. InSnapshots(req[q].id) => InSnapshots(req[q].id)'
      BY <1>7, <3>1 DEF InSnapshots
    <3> QED
      BY <1>4, <1>5, <3>1, <3>2 DEF UnderWay
  <2>2. UnderWay(req[p])'
    BY <1>1, <1>3, <1>4, <1>5 DEF UnderWay
  <2> QED
    BY <2>1, <2>2 DEF Creating
<1>10. Distinct'
  <2>1. \A q \in Procs : q # p /\ Creates(q)' => Creates(q) /\ req'[q] = req[q] /\ req'[q].id # k
    BY <1>3, <1>5 DEF Creating, Creates, UnderWay
  <2> SUFFICES ASSUME NEW q1 \in Procs, NEW q2 \in Procs, Creates(q1)', Creates(q2)', q1 # q2
               PROVE  req'[q1].id # req'[q2].id
    BY DEF Distinct
  <2>2. CASE q1 = p
    BY <1>1, <1>3, <2>1, <2>2
  <2>3. CASE q2 = p
    BY <1>1, <1>3, <2>1, <2>3
  <2>4. CASE q1 # p /\ q2 # p
    BY <2>1, <2>4 DEF Distinct
  <2> QED
    BY <2>2, <2>3, <2>4
<1> QED
  BY <1>5, <1>6, <1>8, <1>9, <1>10

LEMMA KeyCreatedStep ==
    ASSUME TInv, KInv, NEW p \in Procs, KeyCreated(p)
    PROVE  KInv'
<1> USE DEF KInv
<1> DEFINE k == req[p].id
<1>1. req'[p] = Idle /\ \A q \in Procs : q # p => req'[q] = req[q]
  BY DEF KeyCreated, Ends, Set, TInv, TypeOK
<1>2. Idle.op = "none" /\ Idle.at = "idle"
  BY DEF Idle
<1>3. Creates(p) /\ UnderWay(req[p]) /\ req[p].at = "saved"
  BY DEF KeyCreated, Creates, Creating
<1>4. UNCHANGED <<disk, made, revoked, saveMu>>
  BY DEF KeyCreated
<1>5. \/ req[p].ok /\ given' = given \cup {k} /\ mem' = mem
      \/ ~req[p].ok /\ given' = given /\ mem'.keys = mem.keys \ {k}
  BY DEF KeyCreated, TInv, TypeOK, Image
<1>6. \A j : InSnapshots(j) => InSnapshots(j)'
  BY <1>1, <1>2 DEF InSnapshots, WritesKeys
<1>7. Locked'
  BY <1>1, <1>2, <1>4 DEF Locked, Writing
<1>8. Kept'
  <2>1. CASE req[p].ok
    <3>1. k \notin revoked => k \in mem.keys /\ k \in disk.keys /\ InSnapshots(k)
      BY <1>3, <2>1 DEF UnderWay
    <3> QED
      BY <1>4, <1>5, <1>6, <2>1, <3>1 DEF Kept
  <2>2. CASE ~req[p].ok
    <3>1. k \notin given
      BY <1>3 DEF UnderWay
    <3> QED
      BY <1>4, <1>5, <1>6, <2>2, <3>1 DEF Kept
  <2> QED
    BY <2>1, <2>2
<1>9. Creating'
  <2>1. ASSUME NEW q \in Procs, Creates(q)' PROVE UnderWay(req[q])'
    <3>1. q # p /\ req'[q] = req[q] /\ UnderWay(req[q]) /\ Creates(q)
      BY <1>1, <1>2, <2>1 DEF Creating, Creates
    <3>2. InSnapshots(req[q].id) => InSnapshots(req[q].id)'
      BY <1>6, <3>1 DEF InSnapshots
    <3>3. req[q].id # k
      BY <1>3, <3>1 DEF Distinct
    <3> QED
      BY <1>4, <1>5, <3>1, <3>2, <3>3 DEF UnderWay
  <2> QED
    BY <2>1 DEF Creating
<1>10. Distinct'
  BY <1>1, <1>2, ZenonT(60) DEF Distinct, Creates
<1>11. (given \subseteq made)'
  BY <1>3, <1>4, <1>5 DEF UnderWay
<1> QED
  BY <1>7, <1>8, <1>9, <1>10, <1>11

LEMMA OtherKeysStep ==
    ASSUME TInv, KInv, NEW p \in Procs,
           \/ \E k \in Keys : RevokeKey(p, k)
           \/ RevokeAllKeys(p) \/ Flush(p) \/ FlushEnds(p)
    PROVE  KInv'
<1>1. mem \in Image
  BY DEF TInv, TypeOK
<1>2. ASSUME NEW k \in Keys, RevokeKey(p, k) PROVE \E r : Quiet(p, r)
  <2> DEFINE r == Saving(Asked("revoke key", k), "keys", {k})
  <2>1. r.op # "create key" /\ r.at \notin Writing
    BY DEF Saving, Asked, Idle, Writing
  <2>2. req' = [req EXCEPT ![p] = r]
    BY <1>2 DEF RevokeKey, Saves, Set
  <2>3. mem'.keys = mem.keys \ {k}
    BY <1>1, <1>2 DEF RevokeKey, Image
  <2> HIDE DEF r
  <2> QED
    BY <1>2, <2>1, <2>2, <2>3 DEF RevokeKey, Quiet
<1>3. ASSUME RevokeAllKeys(p) PROVE \E r : Quiet(p, r)
  <2> DEFINE r == Saving(Asked("revoke key", None), "keys", mem.keys)
  <2>1. r.op # "create key" /\ r.at \notin Writing
    BY DEF Saving, Asked, Idle, Writing
  <2>2. req' = [req EXCEPT ![p] = r]
    BY <1>3 DEF RevokeAllKeys, Saves, Set
  <2> HIDE DEF r
  <2> QED
    BY <1>3, <2>1, <2>2 DEF RevokeAllKeys, Quiet
<1>4. ASSUME Flush(p) PROVE \E r : Quiet(p, r)
  <2> DEFINE r == Saving(Asked("flush", None), "keys", {})
  <2>1. r.op # "create key" /\ r.at \notin Writing
    BY DEF Saving, Asked, Idle, Writing
  <2>2. req' = [req EXCEPT ![p] = r]
    BY <1>4 DEF Flush, Saves, Set
  <2> HIDE DEF r
  <2> QED
    BY <1>4, <2>1, <2>2 DEF Flush, Quiet, history
<1>5. ASSUME FlushEnds(p) PROVE \E r : Quiet(p, r)
  <2>1. Idle.op # "create key" /\ Idle.at \notin Writing
    BY DEF Idle, Writing
  <2> QED
    BY <1>5, <2>1 DEF FlushEnds, Ends, Set, Quiet, history
<1> QED
  BY <1>2, <1>3, <1>4, <1>5, QuietStep

LEMMA RestartStep == ASSUME TInv, KInv, Restart PROVE KInv'
<1>1. \A p \in Procs : req'[p].at = "idle" /\ req'[p].op = "none"
  BY DEF Restart, Idle
<1>2. mem'.keys = disk'.keys /\ disk' = disk /\ UNCHANGED <<given, revoked, made>>
  BY DEF Restart, TInv, TypeOK, Image
<1> QED
  BY <1>1, <1>2 DEF KInv, Locked, Kept, Creating, Distinct, Creates, InSnapshots, WritesKeys, Writing

\* A snapshot is taken by the only writer of its file.
LEMMA TakeSaveMuStep ==
    ASSUME TInv, KInv, NEW p \in Procs, TakeSaveMu(p)
    PROVE  KInv'
<1> USE DEF KInv
<1> DEFINE f == req[p].file
           r == [req[p] EXCEPT !.at = "write", !.snap = Snapshot(f)]
<1>1. req[p] \in Request /\ f \in Files /\ req[p].at = "save"
  BY DEF TInv, TypeOK, Typed, TakeSaveMu
<1>2. r.op = req[p].op /\ r.id = req[p].id /\ r.file = f /\ r.at = "write" /\ r.snap = Snapshot(f)
  BY <1>1 DEF Request
<1>3. f = "keys" => Snapshot(f).keys = mem.keys
  BY BlankImage DEF Snapshot, PutKeys, Image
<1>4. req' = [req EXCEPT ![p] = r]
  BY DEF TakeSaveMu, Set
<1> HIDE DEF r
<1>5. req'[p] = r /\ \A q \in Procs : q # p => req'[q] = req[q]
  BY <1>4 DEF TInv, TypeOK
<1>6. saveMu[f] = None /\ saveMu' = [saveMu EXCEPT ![f] = p]
      /\ UNCHANGED <<mem, disk, given, revoked, made>>
  BY DEF TakeSaveMu, store, history
<1>7. Locked'
  <2>1. \A q \in Procs : q # p /\ req[q].at \in Writing => req[q].file # f
    BY <1>6 DEF Locked
  <2>2. saveMu'[f] = p /\ \A g \in Files : g # f => saveMu'[g] = saveMu[g]
    BY <1>1, <1>6 DEF TInv, TypeOK
  <2>3. \A q \in Procs : req[q].at \in Writing => req[q].file \in Files
    BY DEF TInv, Typed, Writing
  <2> QED
    BY <1>2, <1>5, <2>1, <2>2, <2>3 DEF Locked
<1>8. \A j : InSnapshots(j) /\ (f = "keys" => j \in mem.keys) => InSnapshots(j)'
  BY <1>2, <1>3, <1>5 DEF InSnapshots, WritesKeys
<1>9. Kept'
  BY <1>6, <1>8 DEF Kept
<1>10. Creating'
  <2>1. ASSUME NEW q \in Procs, q # p, Creates(q)' PROVE UnderWay(req[q])'
    <3>1. req'[q] = req[q] /\ UnderWay(req[q])
      BY <1>5, <2>1 DEF Creating, Creates
    <3>2. InSnapshots(req[q].id) /\ req[q].id \in mem.keys => InSnapshots(req[q].id)'
      BY <1>8, <3>1 DEF InSnapshots
    <3> QED
      BY <1>6, <3>1, <3>2 DEF UnderWay
  <2>2. ASSUME Creates(p)' PROVE UnderWay(req[p])'
    <3>1. UnderWay(req[p]) /\ f = "keys"
      BY <1>2, <1>5, <2>2 DEF Creating, Creates, TInv, Typed
    <3> QED
      BY <1>2, <1>3, <1>5, <1>6, <3>1 DEF UnderWay
  <2> QED
    BY <2>1, <2>2 DEF Creating
<1>11. Distinct'
  <2>1. \A q \in Procs : req'[q].op = req[q].op /\ req'[q].id = req[q].id
    BY <1>2, <1>5
  <2> QED
    BY <2>1 DEF Distinct, Creates
<1> QED
  BY <1>6, <1>7, <1>9, <1>10, <1>11

\* Only the writer of a file lets go of it.
LEMMA LetGo ==
    ASSUME TInv, KInv, NEW p \in Procs, req[p].at \in Writing, NEW r,
           r.at \notin Writing, req' = [req EXCEPT ![p] = r],
           saveMu' = [saveMu EXCEPT ![req[p].file] = None]
    PROVE  Locked'
<1>1. \A q \in Procs : q # p /\ req[q].at \in Writing => req[q].file # req[p].file
  BY DEF KInv, Locked
<1>2. req'[p] = r /\ \A q \in Procs : q # p => req'[q] = req[q]
  BY DEF TInv, TypeOK
<1>3. \A q \in Procs : req[q].at \in Writing => req[q].file \in Files
  BY DEF TInv, Typed, Writing
<1>4. \A g \in Files : g # req[p].file => saveMu'[g] = saveMu[g]
  BY DEF TInv, TypeOK
<1> QED
  BY <1>1, <1>2, <1>3, <1>4 DEF KInv, Locked

LEMMA WriteKeysStep ==
    ASSUME TInv, KInv, NEW p \in Procs, WriteKeys(p)
    PROVE  KInv'
<1> USE DEF KInv
<1> DEFINE r == [req[p] EXCEPT !.at = "saved", !.snap = Blank, !.ok = TRUE]
<1>1. req[p] \in Request /\ WritesKeys(p) /\ req[p].snap \in Image
  BY DEF TInv, TypeOK, WriteKeys, WritesKeys, Request
<1>2. r.op = req[p].op /\ r.id = req[p].id /\ r.at = "saved"
  BY <1>1 DEF Request
<1>3. req' = [req EXCEPT ![p] = r] /\ saveMu' = [saveMu EXCEPT ![req[p].file] = None]
      /\ UNCHANGED <<mem, given, revoked, made>>
  BY DEF WriteKeys, Written, Set
<1> HIDE DEF r
<1>4. req'[p] = r /\ \A q \in Procs : q # p => req'[q] = req[q]
  BY <1>3 DEF TInv, TypeOK
<1>5. disk'.keys = req[p].snap.keys
  BY <1>1 DEF WriteKeys, PutKeys, TInv, TypeOK, Image
<1>6. Locked'
  BY <1>1, <1>2, <1>3, LetGo DEF Writing, WritesKeys
<1>7. \A j : InSnapshots(j)'
  BY <1>1, <1>2, <1>4, ZenonT(60) DEF InSnapshots, WritesKeys, Locked, Writing
<1>8. \A j : InSnapshots(j) => j \in disk'.keys
  BY <1>1, <1>5 DEF InSnapshots
<1>9. Kept'
  BY <1>3, <1>7, <1>8 DEF Kept
<1>10. Creating'
  <2>1. ASSUME NEW q \in Procs, Creates(q)' PROVE UnderWay(req[q])'
    <3>1. Creates(q) /\ UnderWay(req[q]) /\ req'[q].id = req[q].id
      BY <1>2, <1>4, <2>1 DEF Creating, Creates
    <3>2. InSnapshots(req[q].id)'
      BY <1>7 DEF InSnapshots
    <3>3. CASE q = p
      <4>1. req[p].id \notin revoked => req[p].id \in disk'.keys
        BY <1>1, <1>5, <3>1, <3>3 DEF UnderWay, WritesKeys
      <4> QED
        BY <1>2, <1>3, <1>4, <3>1, <3>2, <3>3, <4>1 DEF UnderWay
    <3>4. CASE q # p
      <4>1. req'[q] = req[q] /\ (InSnapshots(req[q].id) => req[q].id \in disk'.keys)
        BY <1>4, <1>8, <3>4
      <4> QED
        BY <1>3, <3>1, <3>2, <4>1 DEF UnderWay
    <3> QED
      BY <3>3, <3>4
  <2> QED
    BY <2>1 DEF Creating
<1>11. Distinct'
  <2>1. \A q \in Procs : req'[q].op = req[q].op /\ req'[q].id = req[q].id
    BY <1>2, <1>4
  <2> QED
    BY <2>1 DEF Distinct, Creates
<1> QED
  BY <1>3, <1>6, <1>9, <1>10, <1>11

\* A step of a saver that leaves the keys in memory and in the file alone: it
\* wrote something else, or its write failed.
LEMMA SaverStep ==
    ASSUME TInv, KInv, NEW p \in Procs, NEW r, req' = [req EXCEPT ![p] = r],
           r.op = req[p].op, r.id = req[p].id, r.at # "write",
           Creates(p) => r.at = "saved" /\ ~r.ok,
           Locked', disk'.keys = disk.keys, UNCHANGED <<mem, given, revoked, made>>
    PROVE  KInv'
<1> USE DEF KInv
<1>1. req'[p] = r /\ \A q \in Procs : q # p => req'[q] = req[q]
  BY DEF TInv, TypeOK
<1>2. \A j : InSnapshots(j) => InSnapshots(j)'
  BY <1>1 DEF InSnapshots, WritesKeys
<1>3. Kept'
  BY <1>2 DEF Kept
<1>4. Creating'
  <2>1. ASSUME NEW q \in Procs, Creates(q)' PROVE UnderWay(req[q])'
    <3>1. Creates(q) /\ UnderWay(req[q]) /\ req'[q].id = req[q].id
      BY <1>1, <2>1 DEF Creating, Creates
    <3>2. InSnapshots(req[q].id) => InSnapshots(req[q].id)'
      BY <1>2, <3>1 DEF InSnapshots
    <3>3. CASE q = p
      BY <1>1, <3>1, <3>3 DEF UnderWay
    <3>4. CASE q # p
      BY <1>1, <3>1, <3>2, <3>4 DEF UnderWay
    <3> QED
      BY <3>3, <3>4
  <2> QED
    BY <2>1 DEF Creating
<1>5. Distinct'
  <2>1. \A q \in Procs : req'[q].op = req[q].op /\ req'[q].id = req[q].id
    BY <1>1
  <2>2. ASSUME NEW a \in Procs, NEW b \in Procs, Creates(a)', Creates(b)', a # b
        PROVE  req'[a].id # req'[b].id
    <3>1. Creates(a) /\ Creates(b)
      BY <2>1, <2>2 DEF Creates
    <3>2. req[a].id # req[b].id
      BY <2>2, <3>1 DEF Distinct
    <3> QED
      BY <2>1, <3>2
  <2> QED
    BY <2>2 DEF Distinct
<1> QED
  BY <1>3, <1>4, <1>5

LEMMA SaveKeysStep ==
    ASSUME TInv, KInv, NEW p \in Procs, SaveStep(p)
    PROVE  KInv'
<1>1. req[p] \in Request /\ disk \in Image
  BY DEF TInv, TypeOK
<1>2. Creates(p) => req[p].file = "keys"
  BY DEF TInv, Typed, Creates
<1>3. ASSUME Written(p), req[p].at \in Writing, req[p].file # "keys", disk'.keys = disk.keys
      PROVE  KInv'
  <2> DEFINE r == [req[p] EXCEPT !.at = "saved", !.snap = Blank, !.ok = TRUE]
  <2>1. r.op = req[p].op /\ r.id = req[p].id /\ r.at = "saved"
    BY <1>1 DEF Request
  <2>2. req' = [req EXCEPT ![p] = r] /\ saveMu' = [saveMu EXCEPT ![req[p].file] = None]
        /\ UNCHANGED <<mem, given, revoked, made>>
    BY <1>3 DEF Written, Set
  <2> HIDE DEF r
  <2>3. Locked'
    BY <1>3, <2>1, <2>2, LetGo DEF Writing
  <2> QED
    BY <1>2, <1>3, <2>1, <2>2, <2>3, SaverStep
<1>4. CASE WriteUsers(p)
  <2>1. disk'.keys = disk.keys
    BY <1>1, <1>4 DEF WriteUsers, PutUsers, Image
  <2> QED
    BY <1>3, <1>4, <2>1 DEF WriteUsers, Writing
<1>5. CASE WriteUserSessions(p)
  <2>1. disk'.keys = disk.keys
    BY <1>1, <1>5 DEF WriteUserSessions, PutUserSessions, Image
  <2>2. req[p].file = "sessions"
    BY <1>5 DEF WriteUserSessions, TInv, Typed
  <2> QED
    BY <1>3, <1>5, <2>1, <2>2 DEF WriteUserSessions, Writing
<1>6. CASE WriteOwnerSessions(p)
  <2> DEFINE r == [req[p] EXCEPT !.at = "write users"]
  <2>1. r.op = req[p].op /\ r.id = req[p].id /\ r.at = "write users" /\ r.file = req[p].file
    BY <1>1 DEF Request
  <2>2. req' = [req EXCEPT ![p] = r] /\ UNCHANGED <<mem, given, revoked, made, saveMu>>
    BY <1>6 DEF WriteOwnerSessions, Set, history
  <2> HIDE DEF r
  <2>3. disk'.keys = disk.keys
    BY <1>1, <1>6 DEF WriteOwnerSessions, PutOwnerSessions, Image
  <2>4. req[p].at = "write" /\ req[p].file = "sessions"
    BY <1>6 DEF WriteOwnerSessions
  <2>5. Locked'
    <3>1. req'[p] = r /\ \A q \in Procs : q # p => req'[q] = req[q]
      BY <2>2 DEF TInv, TypeOK
    <3>2. saveMu[req[p].file] = p
      BY <2>4 DEF KInv, Locked, Writing
    <3>3. ASSUME NEW q \in Procs, req'[q].at \in Writing PROVE saveMu'[req'[q].file] = q
      <4>1. CASE q = p
        BY <2>1, <2>2, <3>1, <3>2, <4>1
      <4>2. CASE q # p
        BY <2>2, <3>1, <3>3, <4>2 DEF KInv, Locked
      <4> QED
        BY <4>1, <4>2
    <3> QED
      BY <3>3 DEF Locked
  <2> QED
    BY <1>2, <2>1, <2>2, <2>3, <2>4, <2>5, SaverStep
<1>7. CASE WriteFails(p)
  <2> DEFINE r == [req[p] EXCEPT !.at = "saved", !.snap = Blank, !.ok = FALSE]
  <2>1. r.op = req[p].op /\ r.id = req[p].id /\ r.at = "saved" /\ ~r.ok
    BY <1>1 DEF Request
  <2>2. req' = [req EXCEPT ![p] = r] /\ saveMu' = [saveMu EXCEPT ![req[p].file] = None]
        /\ UNCHANGED <<mem, disk, given, revoked, made>>
    BY <1>7 DEF WriteFails, Set, store
  <2> HIDE DEF r
  <2>3. Locked'
    BY <1>7, <2>1, <2>2, LetGo DEF WriteFails, Writing
  <2> QED
    BY <2>1, <2>2, <2>3, SaverStep
<1>8. CASE Answered(p)
  <2>1. Quiet(p, Idle)
    BY <1>8 DEF Answered, Ends, Set, Quiet, Idle, Writing, store, history
  <2> QED
    BY <2>1, QuietStep
<1> QED
  BY <1>4, <1>5, <1>6, <1>7, <1>8, TakeSaveMuStep, WriteKeysStep DEF SaveStep

LEMMA KeysStep == TInv /\ KInv /\ [Next]_vars => KInv'
<1> SUFFICES ASSUME TInv, KInv, [Next]_vars PROVE KInv'
  OBVIOUS
<1>1. ASSUME NEW p \in Procs, SaveStep(p) PROVE KInv'
  BY <1>1, SaveKeysStep
<1>2. ASSUME NEW p \in Procs, KeyStep(p) \/ KeyCreated(p) \/ Flush(p) \/ FlushEnds(p) PROVE KInv'
  BY <1>2, CreateKeyStep, KeyCreatedStep, OtherKeysStep DEF KeyStep
<1>3. ASSUME NEW p \in Procs, SessionStep(p) \/ Gc(p) \/ UserStep(p) PROVE KInv'
  BY <1>3, SessionsQuiet, UsersQuiet, QuietStep
<1>4. ASSUME NEW k \in Keys, UseKey(k) PROVE KInv'
  <2>1. mem'.keys = mem.keys
    BY <1>4 DEF UseKey, TInv, TypeOK, Image
  <2> QED
    BY <1>4, <2>1, NoRequestStep DEF UseKey, history
<1>5. ASSUME NEW t \in Tokens, Expire(t) \/ LookupExpired(t) PROVE KInv'
  <2>1. mem'.keys = mem.keys
    BY <1>5, MemKeys DEF Expire, LookupExpired, store, TInv
  <2> QED
    BY <1>5, <2>1, NoRequestStep DEF Expire, LookupExpired, store, history
<1>6. CASE Restart
  BY <1>6, RestartStep
<1>7. CASE UNCHANGED vars
  BY <1>7, NoRequestStep DEF vars, store, history
<1> QED
  BY <1>1, <1>2, <1>3, <1>4, <1>5, <1>6, <1>7 DEF Next

\* A key that was handed out is in memory and on disk until it is revoked: with
\* any number of requests creating, revoking, using and flushing keys, whichever
\* writes fail, and whenever PZAdmin is killed.
THEOREM KeysSurvive == Spec => []HandedOutKeySurvives
<1>1. Init => TInv /\ KInv
  BY TypeInitially, KeysInitially
<1>2. TInv /\ KInv /\ [Next]_vars => TInv' /\ KInv'
  BY TypeStep, KeysStep
<1>3. KInv => HandedOutKeySurvives
  BY DEF KInv, Kept, HandedOutKeySurvives
<1> QED
  BY <1>1, <1>2, <1>3, PTL DEF Spec

---------------------------------------------------------------------------
(* Images: what is in memory, on disk and in a snapshot.                   *)

\* Those an image shows every server without the owner having meant it.
Widened(image) == {u \in Users : /\ image.users[u].there /\ ~image.users[u].off
                                 /\ image.users[u].servers = {} /\ ~image.users[u].all}

\* A snapshot is of the image it was taken from, so it widens nobody either.
WInv == /\ Widened(mem) = {} /\ Widened(disk) = {}
        /\ \A p \in Procs : Widened(req[p].snap) = {}

\* The ids a file is about.
Kind(f) == CASE f = "keys" -> Keys [] f = "users" -> Users [] OTHER -> Tokens

\* Ids are not used twice.  What a request removes is out of memory, and out of
\* the snapshot it writes; what is gone is in no snapshot.  Each snapshot has
\* only what belongs to its file, so it cannot bring back what another removed.
GInv ==
    /\ Present(mem) \cup Present(disk) \cup gone \subseteq made
    /\ gone \cap (Present(mem) \cup Present(disk)) = {}
    /\ \A p \in Procs :
         /\ req[p].out \subseteq made \ Present(mem)
         /\ req[p].at \notin Writing => req[p].snap = Blank
         /\ Present(req[p].snap) \subseteq made \ (gone \cup req[p].out)
         /\ req[p].at \in Writing => Present(req[p].snap) \subseteq Kind(req[p].file)
         /\ req[p].at \in Writing \cup {"save"} => req[p].out \subseteq Kind(req[p].file)
         /\ req[p].at = "write users" =>
              \A t \in Tokens : disk.sess[t] = Owner <=> req[p].snap.sess[t] = Owner

Waits(p, f) == req[p].at = "save" /\ req[p].file = f
Writes(p, f) == req[p].at \in Writing /\ req[p].file = f

\* A change is saved, or a request waits to save it, or one that writes has it
\* in its snapshot; the last write failed otherwise.
SInv ==
    \A f \in Files :
      /\ \/ Agree(f, mem, disk) \/ unsaved[f]
         \/ \E p \in Procs : Waits(p, f) \/ Writes(p, f)
      /\ \A p \in Procs : Writes(p, f) =>
           Agree(f, mem, req[p].snap) \/ \E q \in Procs : Waits(q, f)

\* Uses that no snapshot has are marked, or a flush waits to save them, or has
\* failed and will mark them again.
ToFlush == dirty \/ \E p \in Procs : /\ req[p].op = "flush"
                                     /\ \/ Waits(p, "keys")
                                        \/ req[p].at = "saved" /\ ~req[p].ok
UInv ==
    /\ \A k \in Keys : ToFlush \/
         /\ \A p \in Procs : Writes(p, "keys") => req[p].snap.used[k] = mem.used[k]
         /\ mem.used[k] # disk.used[k] =>
              \E p \in Procs : req[p].op = "flush" /\ Writes(p, "keys")
    /\ \A p \in Procs : req[p].op = "flush" => req[p].file = "keys"

DInv == WInv /\ GInv /\ SInv /\ UInv

---------------------------------------------------------------------------
(* What there is in an image, by the kind of id.                           *)

LEMMA PresentParts ==
    ASSUME NEW i \in Image
    PROVE  /\ Present(i) \subseteq Ids
           /\ \A k \in Keys : k \in Present(i) <=> k \in i.keys
           /\ \A u \in Users : u \in Present(i) <=> i.users[u].there
           /\ \A t \in Tokens : t \in Present(i) <=> i.sess[t] # None
<1>1. i.keys \subseteq Keys /\ i.sess \in [Tokens -> People \cup {None}]
  BY ImageParts
<1>2. Present(i) = i.keys \cup {u \in Users : i.users[u].there} \cup {t \in Tokens : i.sess[t] # None}
  BY DEF Present
<1> QED
  BY <1>1, <1>2

LEMMA NothingBlank ==
    /\ Blank \in Image /\ Present(Blank) = {} /\ Widened(Blank) = {}
    /\ Blank.keys = {} /\ Blank.sess = [t \in Tokens |-> None]
    /\ \A u \in Users : ~Blank.users[u].there
<1>1. \A u \in Users : ~Blank.users[u].there
  BY DEF Blank, NoUser
<1>2. Blank.keys = {} /\ Blank.sess = [t \in Tokens |-> None]
  BY DEF Blank
<1> QED
  BY <1>1, <1>2, BlankImage DEF Present, Widened

\* Agree, with the ids and the sessions it leaves out named.
Same(f, a, b, left, old) ==
    CASE f = "keys"  -> a.keys \ left = b.keys \ left
      [] f = "users" -> \A u \in Users \ left : a.users[u] = b.users[u]
      [] OTHER       -> \A t \in Tokens \ old : a.sess[t] = b.sess[t]

LEMMA AgreeIsSame ==
    ASSUME NEW f \in Files, NEW a, NEW b
    PROVE  Agree(f, a, b) <=> Same(f, a, b, refused, expired)
BY DEF Agree, Same

LEMMA AgreeIsSameNext ==
    ASSUME NEW f \in Files
    PROVE  /\ Agree(f, mem, disk)' <=> Same(f, mem', disk', refused', expired')
           /\ \A p \in Procs : Agree(f, mem, req[p].snap)'
                               <=> Same(f, mem', req'[p].snap, refused', expired')
BY DEF Agree, Same

\* Sameness goes from image to image, and what is left out may only grow.
LEMMA SameChain ==
    ASSUME NEW f \in Files, NEW a, NEW b, NEW c, NEW left, NEW left2, NEW old, NEW old2,
           left \subseteq left2, old \subseteq old2,
           Same(f, a, b, left2, old2), Same(f, a, c, left, old)
    PROVE  Same(f, b, c, left2, old2)
<1>1. CASE f = "keys"
  BY <1>1 DEF Same
<1>2. CASE f = "users"
  BY <1>2 DEF Same
<1>3. CASE f = "sessions"
  BY <1>3 DEF Same
<1> QED
  BY <1>1, <1>2, <1>3 DEF Files

---------------------------------------------------------------------------
(***************************************************************************)
(* Steps of a request outside its save: it goes on as r, and what it takes *)
(* out of memory, changes there or marks is what its save is for.          *)
(***************************************************************************)
Frame(p, r) ==
    /\ req' = [req EXCEPT ![p] = r]
    /\ r.at \notin Writing /\ r.snap \in {Blank, req[p].snap}
    /\ r.op = "flush" => r.file = "keys"
    /\ req[p].at \notin Writing \cup {"save"}
    /\ UNCHANGED <<disk, saveMu, gone, unsaved>>
    /\ made \subseteq made' /\ refused \subseteq refused' /\ expired \subseteq expired'

GoesOut(r) ==
    /\ Present(mem') \subseteq Present(mem) \cup (made' \ made)
    /\ r.out \subseteq Present(mem) \ Present(mem')
    /\ r.at = "save" => r.out \subseteq Kind(r.file)

WillBeSaved(r) ==
    \A f \in Files : \/ Same(f, mem, mem', refused', expired')
                     \/ r.at = "save" /\ r.file = f

UsesMarked(p, r) ==
    /\ mem'.used = mem.used
    /\ \/ dirty'
       \/ r.op = "flush" /\ r.at = "save"
       \/ ~dirty /\ ~(req[p].op = "flush" /\ req[p].at = "saved" /\ ~req[p].ok)

Calm(p, r) == /\ Frame(p, r) /\ GoesOut(r) /\ WillBeSaved(r) /\ UsesMarked(p, r)
              /\ Widened(mem) = {} => Widened(mem') = {}

\* A change of the keys alone, of the users alone, of the sessions alone.
LEMMA CalmKeys ==
    ASSUME TInv, TInv', NEW p \in Procs, NEW r, Frame(p, r), UsesMarked(p, r),
           mem'.users = mem.users, mem'.sess = mem.sess,
           mem'.keys \subseteq mem.keys \cup (made' \ made),
           r.out \subseteq mem.keys \ mem'.keys,
           r.at = "save" => r.file = "keys" \/ r.out = {},
           \/ mem'.keys \ refused' = mem.keys \ refused'
           \/ r.at = "save" /\ r.file = "keys"
    PROVE  Calm(p, r)
<1>1. mem \in Image /\ mem' \in Image
  BY DEF TInv, TypeOK
<1>2. GoesOut(r)
  BY <1>1, PresentParts, ImageParts DEF GoesOut, Kind
<1>3. WillBeSaved(r)
  BY DEF WillBeSaved, Same
<1>4. Widened(mem) = {} => Widened(mem') = {}
  BY DEF Widened
<1> QED
  BY <1>2, <1>3, <1>4 DEF Calm

LEMMA CalmUsers ==
    ASSUME TInv, TInv', NEW p \in Procs, NEW r, Frame(p, r), UsesMarked(p, r),
           mem'.keys = mem.keys, mem'.sess = mem.sess,
           \A u \in Users : mem'.users[u].there => mem.users[u].there \/ u \in made' \ made,
           r.out \subseteq {u \in Users : mem.users[u].there /\ ~mem'.users[u].there},
           r.at = "save" => r.file = "users" \/ r.out = {},
           \/ \A u \in Users \ refused' : mem'.users[u] = mem.users[u]
           \/ r.at = "save" /\ r.file = "users",
           Widened(mem) = {} => Widened(mem') = {}
    PROVE  Calm(p, r)
<1>1. mem \in Image /\ mem' \in Image
  BY DEF TInv, TypeOK
<1>2. GoesOut(r)
  BY <1>1, PresentParts, ImageParts DEF GoesOut, Kind
<1>3. WillBeSaved(r)
  BY DEF WillBeSaved, Same
<1> QED
  BY <1>2, <1>3 DEF Calm

LEMMA CalmSessions ==
    ASSUME TInv, TInv', NEW p \in Procs, NEW r, Frame(p, r), UsesMarked(p, r),
           mem'.keys = mem.keys, mem'.users = mem.users,
           \A t \in Tokens : mem'.sess[t] # None => mem.sess[t] # None \/ t \in made' \ made,
           r.out \subseteq {t \in Tokens : mem.sess[t] # None /\ mem'.sess[t] = None},
           r.at = "save" => r.file = "sessions" \/ r.out = {},
           \/ \A t \in Tokens \ expired' : mem'.sess[t] = mem.sess[t]
           \/ r.at = "save" /\ r.file = "sessions"
    PROVE  Calm(p, r)
<1>1. mem \in Image /\ mem' \in Image
  BY DEF TInv, TypeOK
<1>2. GoesOut(r)
  BY <1>1, PresentParts, ImageParts DEF GoesOut, Kind
<1>3. WillBeSaved(r)
  BY DEF WillBeSaved, Same, Files
<1>4. Widened(mem) = {} => Widened(mem') = {}
  BY DEF Widened
<1> QED
  BY <1>2, <1>3, <1>4 DEF Calm

LEMMA Shapes ==
    /\ Idle.op = "none" /\ Idle.at = "idle" /\ Idle.snap = Blank /\ Idle.out = {}
BY DEF Idle

LEMMA SavesShape ==
    ASSUME NEW op, NEW id, NEW f, NEW out
    PROVE  /\ Saving(Asked(op, id), f, out).op = op
           /\ Saving(Asked(op, id), f, out).at = "save"
           /\ Saving(Asked(op, id), f, out).snap = Blank
           /\ Saving(Asked(op, id), f, out).file = f
           /\ Saving(Asked(op, id), f, out).out = out
BY DEF Idle, Asked, Saving

LEMMA SavingShape ==
    ASSUME NEW q \in Request, NEW f, NEW out
    PROVE  /\ Saving(q, f, out).op = q.op /\ Saving(q, f, out).at = "save"
           /\ Saving(q, f, out).snap = q.snap /\ Saving(q, f, out).file = f
           /\ Saving(q, f, out).out = out
BY DEF Request, Saving

\* What is not disturbed around a request that goes on as r.
Around(p) == /\ req[p].at \notin Writing \cup {"save"}
             /\ UNCHANGED <<disk, saveMu, gone, unsaved, expired>>
             /\ made \subseteq made' /\ refused \subseteq refused'

LEMMA EndsFrame ==
    ASSUME NEW p \in Procs, Ends(p), Around(p)
    PROVE  Frame(p, Idle)
BY Shapes DEF Ends, Set, Around, Frame, Writing

LEMMA AskedFrame ==
    ASSUME NEW p \in Procs, NEW r, Set(p, r), Around(p), r.op # "flush",
           r.at = "checked", r.snap = Blank
    PROVE  Frame(p, r)
BY DEF Set, Around, Frame, Writing

LEMMA SavesFrame ==
    ASSUME NEW p \in Procs, NEW op, NEW id, NEW f, NEW out, Saves(p, op, id, f, out),
           Around(p), op = "flush" => f = "keys"
    PROVE  Frame(p, Saving(Asked(op, id), f, out))
<1> DEFINE r == Saving(Asked(op, id), f, out)
<1>1. r.op = op /\ r.at = "save" /\ r.snap = Blank /\ r.file = f
  BY SavesShape
<1>2. req' = [req EXCEPT ![p] = r]
  BY DEF Saves, Set
<1> HIDE DEF r
<1>3. Frame(p, r)
  BY <1>1, <1>2 DEF Around, Frame, Writing
<1> QED
  BY <1>3 DEF r

LEMMA SavingFrame ==
    ASSUME TInv, NEW p \in Procs, NEW f, NEW out, Set(p, Saving(req[p], f, out)),
           Around(p), req[p].op # "flush"
    PROVE  Frame(p, Saving(req[p], f, out))
<1>1. req[p] \in Request
  BY DEF TInv, TypeOK
<1> DEFINE r == Saving(req[p], f, out)
<1>2. r.op = req[p].op /\ r.at = "save" /\ r.snap = req[p].snap
  BY <1>1, SavingShape
<1>3. req' = [req EXCEPT ![p] = r]
  BY DEF Set
<1> HIDE DEF r
<1>4. Frame(p, r)
  BY <1>2, <1>3 DEF Around, Frame, Writing
<1> QED
  BY <1>4 DEF r

\* Whoever is no flush has no uses to mark.
LEMMA NoFlush ==
    ASSUME NEW p \in Procs, NEW r, mem'.used = mem.used, dirty' = dirty,
           dirty \in BOOLEAN, req[p].op # "flush" \/ req[p].at # "saved"
    PROVE  UsesMarked(p, r)
BY DEF UsesMarked

LEMMA KeysCalm ==
    ASSUME TInv, TInv', NEW p \in Procs, KeyStep(p) \/ KeyCreated(p) \/ Flush(p) \/ FlushEnds(p)
    PROVE  \E r : Calm(p, r)
<1>1. mem \in Image /\ dirty \in BOOLEAN /\ mem.keys \subseteq Keys
  BY ImageParts DEF TInv, TypeOK
<1>2. ASSUME NEW ks PROVE /\ [mem EXCEPT !.keys = ks].keys = ks
                          /\ [mem EXCEPT !.keys = ks].users = mem.users
                          /\ [mem EXCEPT !.keys = ks].used = mem.used
                          /\ [mem EXCEPT !.keys = ks].sess = mem.sess
  BY <1>1 DEF Image
<1> USE DEF Around, Asks, Writing, Free
<1>3. ASSUME NEW k \in Keys, CreateKey(p, k) PROVE \E r : Calm(p, r)
  <2> DEFINE r == Saving(Asked("create key", k), "keys", {})
  <2>1. /\ mem'.keys = mem.keys \cup {k} /\ mem'.users = mem.users
        /\ mem'.used = mem.used /\ mem'.sess = mem.sess
    BY <1>2, <1>3 DEF CreateKey
  <2>2. Frame(p, r)
    BY <1>3, SavesFrame DEF CreateKey
  <2>3. UsesMarked(p, r)
    BY <1>1, <1>3, <2>1, NoFlush DEF CreateKey
  <2>4. r.at = "save" /\ r.file = "keys" /\ r.out = {}
    BY DEF Saving, Asked, Idle
  <2> HIDE DEF r
  <2>5. Calm(p, r)
    BY <1>3, <2>1, <2>2, <2>3, <2>4, CalmKeys DEF CreateKey
  <2> QED
    BY <2>5
<1>4. ASSUME NEW k \in Keys, RevokeKey(p, k) PROVE \E r : Calm(p, r)
  <2> DEFINE r == Saving(Asked("revoke key", k), "keys", {k})
  <2>1. /\ mem'.keys = mem.keys \ {k} /\ mem'.users = mem.users
        /\ mem'.used = mem.used /\ mem'.sess = mem.sess
    BY <1>2, <1>4 DEF RevokeKey
  <2>2. Frame(p, r)
    BY <1>4, SavesFrame DEF RevokeKey
  <2>3. UsesMarked(p, r)
    BY <1>1, <1>4, <2>1, NoFlush DEF RevokeKey
  <2>4. r.at = "save" /\ r.file = "keys" /\ r.out = {k}
    BY DEF Saving, Asked, Idle
  <2> HIDE DEF r
  <2>5. Calm(p, r)
    BY <1>4, <2>1, <2>2, <2>3, <2>4, CalmKeys DEF RevokeKey
  <2> QED
    BY <2>5
<1>5. CASE RevokeAllKeys(p)
  <2> DEFINE r == Saving(Asked("revoke key", None), "keys", mem.keys)
  <2>1. /\ mem'.keys = {} /\ mem'.users = mem.users
        /\ mem'.used = mem.used /\ mem'.sess = mem.sess
    BY <1>2, <1>5 DEF RevokeAllKeys
  <2>2. Frame(p, r)
    BY <1>5, SavesFrame DEF RevokeAllKeys
  <2>3. UsesMarked(p, r)
    BY <1>1, <1>5, <2>1, NoFlush DEF RevokeAllKeys
  <2>4. r.at = "save" /\ r.file = "keys" /\ r.out = mem.keys
    BY DEF Saving, Asked, Idle
  <2> HIDE DEF r
  <2>5. Calm(p, r)
    BY <1>5, <2>1, <2>2, <2>3, <2>4, CalmKeys
  <2> QED
    BY <2>5
<1>6. CASE KeyCreated(p)
  <2>1. /\ mem'.users = mem.users /\ mem'.used = mem.used /\ mem'.sess = mem.sess
        /\ mem'.keys \subseteq mem.keys /\ mem'.keys \ refused' = mem.keys \ refused'
    <3>1. CASE mem' = mem
      BY <3>1
    <3>2. CASE /\ mem' = [mem EXCEPT !.keys = mem.keys \ {req[p].id}]
               /\ refused' = refused \cup {req[p].id}
      BY <1>2, <3>2
    <3> QED
      BY <1>6, <3>1, <3>2 DEF KeyCreated
  <2>2. Frame(p, Idle)
    BY <1>6, EndsFrame DEF KeyCreated
  <2>3. UsesMarked(p, Idle)
    BY <1>1, <1>6, <2>1, NoFlush DEF KeyCreated
  <2> QED
    BY <1>6, <2>1, <2>2, <2>3, Shapes, CalmKeys DEF KeyCreated
<1>7. CASE Flush(p)
  <2> DEFINE r == Saving(Asked("flush", None), "keys", {})
  <2>1. Frame(p, r)
    BY <1>7, SavesFrame DEF Flush, history
  <2>2. r.op = "flush" /\ r.at = "save" /\ r.file = "keys" /\ r.out = {}
    BY DEF Saving, Asked, Idle
  <2> HIDE DEF r
  <2>3. UsesMarked(p, r)
    BY <1>7, <2>2 DEF Flush, UsesMarked
  <2>4. Calm(p, r)
    BY <1>7, <2>1, <2>2, <2>3, CalmKeys DEF Flush
  <2> QED
    BY <2>4
<1>8. CASE FlushEnds(p)
  <2>1. Frame(p, Idle)
    BY <1>8, EndsFrame DEF FlushEnds, history
  <2>2. UsesMarked(p, Idle)
    BY <1>1, <1>8 DEF FlushEnds, UsesMarked
  <2> QED
    BY <1>8, <2>1, <2>2, Shapes, CalmKeys DEF FlushEnds
<1> QED
  BY <1>3, <1>4, <1>5, <1>6, <1>7, <1>8 DEF KeyStep

LEMMA MemDropped ==
    ASSUME TInv, NEW ts
    PROVE  /\ Dropped(ts).keys = mem.keys /\ Dropped(ts).used = mem.used
           /\ Dropped(ts).users = mem.users
           /\ \A t \in Tokens : Dropped(ts).sess[t] = IF t \in ts THEN None ELSE mem.sess[t]
BY DEF TInv, TypeOK, Image, Dropped

\* Sessions that go are dropped from memory, and their removal is saved.
LEMMA DropCalm ==
    ASSUME TInv, TInv', NEW p \in Procs, NEW r, NEW ts, Frame(p, r), UsesMarked(p, r),
           mem' = Dropped(ts),
           \/ r.at = "save" /\ r.file = "sessions" /\ r.out \subseteq ts \cap AllSessions
           \/ r.at # "save" /\ r.out = {} /\ ts = {}
    PROVE  Calm(p, r)
<1>1. /\ mem'.keys = mem.keys /\ mem'.used = mem.used /\ mem'.users = mem.users
      /\ \A t \in Tokens : mem'.sess[t] = IF t \in ts THEN None ELSE mem.sess[t]
  BY MemDropped
<1>2. r.out \subseteq {t \in Tokens : mem.sess[t] # None /\ mem'.sess[t] = None}
  BY <1>1 DEF AllSessions
<1> QED
  BY <1>1, <1>2, CalmSessions

LEMMA RevokeUserCalm ==
    ASSUME TInv, TInv', NEW p \in Procs, NEW a \in People, NEW keep, RevokeUser(p, a, keep),
           req[p].at \notin Writing \cup {"save"}, req[p].op # "flush"
    PROVE  \E r : Calm(p, r)
<1> DEFINE ts == SessionsOf(a) \ {keep}
<1>1. Around(p) /\ mem' = Dropped(ts) /\ dirty' = dirty /\ dirty \in BOOLEAN
  BY DEF RevokeUser, Around, history, TInv, TypeOK
<1>2. \A r : UsesMarked(p, r)
  BY <1>1, NoFlush, MemDropped
<1>3. CASE ts = {}
  <2>1. Frame(p, Idle)
    BY <1>1, <1>3, EndsFrame DEF RevokeUser
  <2> QED
    BY <1>1, <1>2, <1>3, <2>1, Shapes, DropCalm
<1>4. CASE ts # {}
  <2> DEFINE r == Saving(req[p], "sessions", ts)
  <2>1. Frame(p, r)
    BY <1>1, <1>4, SavingFrame DEF RevokeUser
  <2>2. r.at = "save" /\ r.file = "sessions" /\ r.out = ts
    BY SavingShape DEF TInv, TypeOK
  <2>3. ts \subseteq AllSessions
    BY DEF SessionsOf, AllSessions
  <2> HIDE DEF r, ts
  <2>4. Calm(p, r)
    BY <1>1, <1>2, <2>1, <2>2, <2>3, DropCalm
  <2> QED
    BY <2>4
<1> QED
  BY <1>3, <1>4

LEMMA SessionsCalm ==
    ASSUME TInv, TInv', NEW p \in Procs, SessionStep(p) \/ Gc(p)
    PROVE  \E r : Calm(p, r)
<1>1. mem \in Image /\ dirty \in BOOLEAN /\ req[p] \in Request
  BY DEF TInv, TypeOK
<1> USE DEF Around, Asks, Writing, Free
<1>2. ASSUME mem' = mem, NEW r, Set(p, r), Around(p), r.op # "flush",
             r.at = "checked", r.snap = Blank, r.out = {}, dirty' = dirty, req[p].at # "saved"
      PROVE  \E q : Calm(p, q)
  BY <1>1, <1>2, AskedFrame, NoFlush, CalmKeys
<1>3. ASSUME NEW a \in People, SignIn(p, a) PROVE \E r : Calm(p, r)
  <2> DEFINE r == Asked("sign in", a)
  <2>1. r.op = "sign in" /\ r.at = "checked" /\ r.snap = Blank /\ r.out = {}
    BY DEF Asked, Idle
  <2>2. Set(p, r)
    BY <1>3 DEF SignIn
  <2> HIDE DEF r
  <2> QED
    BY <1>2, <1>3, <2>1, <2>2 DEF SignIn, store, history
<1>4. ASSUME NEW t \in Tokens, SignInEnds(p, t) PROVE \E r : Calm(p, r)
  <2> DEFINE r == Saving(req[p], "sessions", {})
  <2>1. /\ mem'.keys = mem.keys /\ mem'.used = mem.used /\ mem'.users = mem.users
        /\ mem'.sess = [mem.sess EXCEPT ![t] = req[p].id]
    BY <1>1, <1>4 DEF SignInEnds, Image
  <2>2. Frame(p, r)
    BY <1>4, SavingFrame DEF SignInEnds
  <2>3. r.at = "save" /\ r.file = "sessions" /\ r.out = {}
    BY <1>1, SavingShape
  <2>4. UsesMarked(p, r)
    BY <1>1, <1>4, <2>1, NoFlush DEF SignInEnds
  <2>5. \A x \in Tokens : mem'.sess[x] # None => mem.sess[x] # None \/ x \in made' \ made
    BY <1>1, <1>4, <2>1 DEF SignInEnds, Image
  <2> HIDE DEF r
  <2>6. Calm(p, r)
    BY <2>1, <2>2, <2>3, <2>4, <2>5, CalmSessions
  <2> QED
    BY <2>6
<1>5. ASSUME NEW t \in Tokens, SignOut(p, t) PROVE \E r : Calm(p, r)
  <2> DEFINE r == Saving(Asked("sign out", t), "sessions", {t})
  <2>1. Frame(p, r)
    BY <1>5, SavesFrame DEF SignOut, history
  <2>2. r.at = "save" /\ r.file = "sessions" /\ r.out = {t}
    BY DEF Saving, Asked, Idle
  <2> HIDE DEF r
  <2>3. mem' = Dropped({t}) /\ t \in AllSessions /\ dirty' = dirty
    BY <1>5 DEF SignOut
  <2>4. UsesMarked(p, r)
    <3>1. mem'.used = mem.used
      BY <2>3 DEF Dropped, TInv, TypeOK, Image
    <3> QED
      BY <1>1, <1>5, <2>3, <3>1, NoFlush DEF SignOut
  <2>5. Calm(p, r)
    BY <2>1, <2>2, <2>3, <2>4, DropCalm
  <2> QED
    BY <2>5
<1>6. ASSUME NEW t \in Tokens, ChoosePassword(p, t) PROVE \E r : Calm(p, r)
  <2> DEFINE r == [Asked("choose", mem.sess[t]) EXCEPT
                      !.keep = IF mem.users[mem.sess[t]].must THEN t ELSE None]
  <2>1. r.op = "choose" /\ r.at = "checked" /\ r.snap = Blank /\ r.out = {}
    BY DEF Asked, Idle
  <2>2. Set(p, r)
    BY <1>6 DEF ChoosePassword
  <2> HIDE DEF r
  <2> QED
    BY <1>2, <1>6, <2>1, <2>2 DEF ChoosePassword, store, history
<1>7. CASE SignOutAll(p)
  <2> DEFINE r == Saving(Asked("sign out", None), "sessions", AllSessions)
  <2>1. Frame(p, r)
    BY <1>7, SavesFrame DEF SignOutAll, history
  <2>2. r.at = "save" /\ r.file = "sessions" /\ r.out = AllSessions
    BY DEF Saving, Asked, Idle
  <2> HIDE DEF r
  <2>3. mem' = Dropped(AllSessions) /\ dirty' = dirty
    BY <1>7 DEF SignOutAll
  <2>4. UsesMarked(p, r)
    <3>1. mem'.used = mem.used
      BY <2>3 DEF Dropped, TInv, TypeOK, Image
    <3> QED
      BY <1>1, <1>7, <2>3, <3>1, NoFlush DEF SignOutAll
  <2>5. Calm(p, r)
    BY <2>1, <2>2, <2>3, <2>4, DropCalm
  <2> QED
    BY <2>5
<1>8. CASE OwnerPassword(p)
  <2> DEFINE r == Asked("owner password", Owner)
  <2>1. r.op = "owner password" /\ r.at = "checked" /\ r.snap = Blank /\ r.out = {}
    BY DEF Asked, Idle
  <2>2. Set(p, r)
    BY <1>8 DEF OwnerPassword
  <2> HIDE DEF r
  <2> QED
    BY <1>2, <1>8, <2>1, <2>2 DEF OwnerPassword, store, history
<1>9. CASE OwnerPasswordSet(p)
  BY <1>9, RevokeUserCalm DEF OwnerPasswordSet
<1>10. CASE Gc(p)
  <2> DEFINE r == Saving(Asked("sign out", None), "sessions", AllSessions \cap expired)
  <2>1. Frame(p, r)
    BY <1>10, SavesFrame DEF Gc, history
  <2>2. r.at = "save" /\ r.file = "sessions" /\ r.out = AllSessions \cap expired
    BY DEF Saving, Asked, Idle
  <2> HIDE DEF r
  <2>3. mem' = Dropped(expired) /\ dirty' = dirty
    BY <1>10 DEF Gc
  <2>4. UsesMarked(p, r)
    <3>1. mem'.used = mem.used
      BY <2>3 DEF Dropped, TInv, TypeOK, Image
    <3> QED
      BY <1>1, <1>10, <2>3, <3>1, NoFlush DEF Gc
  <2>5. Calm(p, r)
    BY <2>1, <2>2, <2>3, <2>4, DropCalm
  <2> QED
    BY <2>5
<1> QED
  BY <1>3, <1>4, <1>5, <1>6, <1>7, <1>8, <1>9, <1>10 DEF SessionStep

LEMMA MemWithUser ==
    ASSUME TInv, NEW u, NEW user
    PROVE  /\ WithUser(u, user).keys = mem.keys /\ WithUser(u, user).used = mem.used
           /\ WithUser(u, user).sess = mem.sess
           /\ \A x \in Users : WithUser(u, user).users[x] = IF x = u THEN user ELSE mem.users[x]
BY DEF TInv, TypeOK, Image, WithUser

Narrow(user) == user.there /\ ~user.off /\ user.servers = {} => user.all

\* One user changes, who is neither brought back nor widened, and is saved.
LEMMA UserCalm ==
    ASSUME TInv, TInv', NEW p \in Procs, NEW r, NEW u, NEW user, Frame(p, r),
           mem' = WithUser(u, user), dirty' = dirty,
           req[p].op # "flush" \/ req[p].at # "saved",
           u \in Users =>
             /\ user.there => mem.users[u].there \/ u \in made' \ made
             /\ Narrow(mem.users[u]) => Narrow(user)
             /\ r.out \subseteq {u} /\ (r.out # {} => mem.users[u].there /\ ~user.there),
           u \notin Users => r.out = {},
           \/ r.at = "save" /\ r.file = "users"
           \/ r.at # "save" /\ u \in refused'
    PROVE  Calm(p, r)
<1>1. /\ mem'.keys = mem.keys /\ mem'.used = mem.used /\ mem'.sess = mem.sess
      /\ \A x \in Users : mem'.users[x] = IF x = u THEN user ELSE mem.users[x]
  BY MemWithUser
<1>2. UsesMarked(p, r)
  BY <1>1, NoFlush DEF TInv, TypeOK
<1>3. Widened(mem) = {} => Widened(mem') = {}
  <2> SUFFICES ASSUME Widened(mem) = {}, NEW x \in Users PROVE Narrow(mem'.users[x])
    BY DEF Widened, Narrow
  <2>1. Narrow(mem.users[x])
    BY DEF Widened, Narrow
  <2> QED
    BY <1>1, <2>1
<1>4. r.out \subseteq {x \in Users : mem.users[x].there /\ ~mem'.users[x].there}
  BY <1>1
<1>5. \A x \in Users : mem'.users[x].there => mem.users[x].there \/ x \in made' \ made
  BY <1>1
<1> QED
  BY <1>1, <1>2, <1>3, <1>4, <1>5, CalmUsers

LEMMA ManageCalm ==
    ASSUME TInv, TInv', NEW p \in Procs, NEW op \in {"disable", "enable", "reset", "remove"},
           NEW u \in Users, NEW user, NEW out \in SUBSET {u}, Manage(p, op, u, user, out),
           Narrow(mem.users[u]) => Narrow(user), out # {} => ~user.there
    PROVE  \E r : Calm(p, r)
<1> DEFINE r == Saving(Asked(op, u), "users", out)
<1>1. Around(p) /\ mem.users[u].there /\ mem' = WithUser(u, user) /\ dirty' = dirty
      /\ Saves(p, op, u, "users", out) /\ req[p].at = "idle"
  BY DEF Manage, Asks, Free, Around, Writing, history
<1>2. Frame(p, r)
  BY <1>1, SavesFrame
<1>3. r.at = "save" /\ r.file = "users" /\ r.out = out
  BY DEF Saving, Asked, Idle
<1> HIDE DEF r
<1>4. Calm(p, r)
  BY <1>1, <1>2, <1>3, UserCalm
<1> QED
  BY <1>4

LEMMA UsersCalm ==
    ASSUME TInv, TInv', NEW p \in Procs, UserStep(p)
    PROVE  \E r : Calm(p, r)
<1>1. /\ mem \in Image /\ mem' \in Image /\ dirty \in BOOLEAN /\ req[p] \in Request
      /\ mem.users \in [Users -> User] /\ mem'.users \in [Users -> User]
  BY ImageParts DEF TInv, TypeOK
<1> USE DEF Around, Asks, Writing, Free
<1>2. ASSUME mem' = mem, NEW r, Set(p, r), Around(p), r.op # "flush",
             r.at = "checked", r.snap = Blank, r.out = {}, dirty' = dirty, req[p].at # "saved"
      PROVE  \E q : Calm(p, q)
  BY <1>1, <1>2, AskedFrame, NoFlush, CalmKeys
<1>3. ASSUME mem' = mem, Ends(p), Around(p), dirty' = dirty, req[p].op # "flush"
      PROVE  Calm(p, Idle)
  BY <1>1, <1>3, EndsFrame, NoFlush, CalmKeys, Shapes
<1>4. ASSUME NEW u, NEW user, mem' = WithUser(u, user), Set(p, Saving(req[p], "users", {})),
             Around(p), dirty' = dirty, req[p].op # "flush",
             u \in Users => /\ user.there => mem.users[u].there
                            /\ Narrow(mem.users[u]) => Narrow(user)
      PROVE  \E r : Calm(p, r)
  <2> DEFINE r == Saving(req[p], "users", {})
  <2>1. Frame(p, r)
    BY <1>4, SavingFrame
  <2>2. r.at = "save" /\ r.file = "users" /\ r.out = {}
    BY <1>1, SavingShape
  <2> HIDE DEF r
  <2>3. Calm(p, r)
    BY <1>4, <2>1, <2>2, UserCalm
  <2> QED
    BY <2>3
<1>5. ASSUME NEW list \in SUBSET Servers, AddUser(p, list) PROVE \E r : Calm(p, r)
  <2> DEFINE r == [Asked("add user", None) EXCEPT !.list = list]
  <2>1. r.op = "add user" /\ r.at = "checked" /\ r.snap = Blank /\ r.out = {}
    BY DEF Asked, Idle
  <2>2. Set(p, r)
    BY <1>5 DEF AddUser
  <2> HIDE DEF r
  <2> QED
    BY <1>2, <1>5, <2>1, <2>2 DEF AddUser, store, history
<1>6. ASSUME NEW u \in Users, NEW list \in SUBSET Servers, ChangeUser(p, u, list)
      PROVE  \E r : Calm(p, r)
  <2> DEFINE r == [Asked("change user", u) EXCEPT !.list = list]
  <2>1. r.op = "change user" /\ r.at = "checked" /\ r.snap = Blank /\ r.out = {}
    BY DEF Asked, Idle
  <2>2. Set(p, r)
    BY <1>6 DEF ChangeUser
  <2> HIDE DEF r
  <2> QED
    BY <1>2, <1>6, <2>1, <2>2 DEF ChangeUser, store, history
<1>7. ASSUME NEW u \in Users, AddUserStores(p, u) PROVE \E r : Calm(p, r)
  <2> DEFINE r == [Saving(req[p], "users", {}) EXCEPT !.id = u]
             user == [there |-> TRUE, must |-> TRUE, off |-> FALSE,
                      servers |-> req[p].list, all |-> req[p].list = {}]
  <2>1. /\ r.op = "add user" /\ r.at = "save" /\ r.file = "users" /\ r.out = {}
        /\ r.snap = req[p].snap
    BY <1>1, <1>7 DEF AddUserStores, Saving, Request
  <2>2. req' = [req EXCEPT ![p] = r]
    BY <1>7 DEF AddUserStores, Set
  <2>3. mem' = WithUser(u, user) /\ Narrow(user) /\ u \in made' \ made
    BY <1>7 DEF AddUserStores, Narrow
  <2> HIDE DEF r, user
  <2>4. Frame(p, r)
    BY <1>7, <2>1, <2>2 DEF AddUserStores, Frame
  <2>5. Calm(p, r)
    BY <1>7, <2>1, <2>3, <2>4, UserCalm DEF AddUserStores
  <2> QED
    BY <2>5
<1>8. CASE UserAdded(p)
  <2>1. CASE mem' = mem
    BY <1>3, <1>8, <2>1 DEF UserAdded
  <2>2. CASE mem' = WithUser(req[p].id, NoUser) /\ req[p].id \in refused'
    <3>1. Frame(p, Idle)
      BY <1>8, EndsFrame DEF UserAdded
    <3>2. ~NoUser.there /\ Narrow(NoUser)
      BY DEF NoUser, Narrow
    <3> QED
      BY <1>8, <2>2, <3>1, <3>2, Shapes, UserCalm DEF UserAdded
  <2> QED
    BY <1>8, <2>1, <2>2 DEF UserAdded
<1>9. CASE NoSuchUser(p)
  BY <1>3, <1>9 DEF NoSuchUser, store, history
<1>10. CASE ChangeUserStores(p)
  <2> DEFINE u == req[p].id
             user == [mem.users[u] EXCEPT !.servers = req[p].list, !.all = req[p].list = {}]
  <2>1. u \in Users => user.there = mem.users[u].there /\ Narrow(user)
    BY <1>1 DEF User, Narrow
  <2>2. mem' = WithUser(u, user)
    BY <1>10 DEF ChangeUserStores
  <2> HIDE DEF user
  <2> QED
    BY <1>4, <1>10, <2>1, <2>2 DEF ChangeUserStores, history
<1>11. ASSUME NEW u \in Users,
              DisableUser(p, u) \/ EnableUser(p, u) \/ ResetUser(p, u) \/ RemoveUser(p, u)
       PROVE  \E r : Calm(p, r)
  <2>1. mem.users[u] \in User
    BY <1>1
  <2>2. CASE DisableUser(p, u)
    <3>1. Narrow([mem.users[u] EXCEPT !.off = TRUE])
      BY <2>1 DEF User, Narrow
    <3> QED
      BY <2>2, <3>1, ManageCalm DEF DisableUser
  <2>3. CASE EnableUser(p, u)
    <3>1. Narrow([mem.users[u] EXCEPT !.off = FALSE, !.all = @ \/ mem.users[u].servers = {}])
      BY <2>1 DEF User, Narrow
    <3> QED
      BY <2>3, <3>1, ManageCalm DEF EnableUser
  <2>4. CASE ResetUser(p, u)
    <3>1. Narrow(mem.users[u]) => Narrow([mem.users[u] EXCEPT !.must = TRUE])
      BY <2>1 DEF User, Narrow
    <3> QED
      BY <2>4, <3>1, ManageCalm DEF ResetUser
  <2>5. CASE RemoveUser(p, u)
    <3>1. ~NoUser.there /\ Narrow(NoUser)
      BY DEF NoUser, Narrow
    <3> QED
      BY <2>5, <3>1, ManageCalm DEF RemoveUser
  <2> QED
    BY <1>11, <2>2, <2>3, <2>4, <2>5
<1>12. CASE PasswordChosen(p)
  <2> DEFINE u == req[p].id
             user == [mem.users[u] EXCEPT !.must = FALSE]
  <2>1. u \in Users => /\ user.there = mem.users[u].there
                       /\ Narrow(mem.users[u]) => Narrow(user)
    BY <1>1 DEF User, Narrow
  <2>2. mem' = WithUser(u, user)
    BY <1>12 DEF PasswordChosen
  <2> HIDE DEF user
  <2> QED
    BY <1>4, <1>12, <2>1, <2>2 DEF PasswordChosen, history
<1>13. CASE UserSaved(p)
  <2>1. RevokeUser(p, req[p].id, req[p].keep) /\ req[p].at = "saved" /\ req[p].op # "flush"
    BY <1>13 DEF UserSaved
  <2>2. req[p].id \in Users
    BY <1>13 DEF UserSaved, TInv, Typed
  <2> QED
    BY <2>1, <2>2, RevokeUserCalm
<1>14. CASE PasswordNotSaved(p)
  BY <1>3, <1>14 DEF PasswordNotSaved, store, history
<1>15. ASSUME NEW s \in Servers, RemoveServer(p, s) PROVE \E r : Calm(p, r)
  <2> DEFINE r == Asked("remove server", s)
  <2>1. r.op = "remove server" /\ r.at = "checked" /\ r.snap = Blank /\ r.out = {}
    BY DEF Asked, Idle
  <2>2. Set(p, r)
    BY <1>15 DEF RemoveServer
  <2> HIDE DEF r
  <2> QED
    BY <1>2, <1>15, <2>1, <2>2 DEF RemoveServer, store, history
<1>16. CASE ForgetServer(p)
  <2> DEFINE s == req[p].id
  <2>1. /\ mem'.keys = mem.keys /\ mem'.used = mem.used /\ mem'.sess = mem.sess
        /\ mem'.users = Forgotten(s)
    BY <1>1, <1>16 DEF ForgetServer, Image
  <2>2. ASSUME NEW u \in Users
        PROVE  /\ mem'.users[u].there = mem.users[u].there
               /\ Narrow(mem.users[u]) => Narrow(mem'.users[u])
               /\ s \notin mem.users[u].servers => mem'.users[u] = mem.users[u]
    <3>1. mem.users[u] \in User
      BY <1>1
    <3>2. mem'.users[u] = [mem.users[u] EXCEPT !.servers = @ \ {s},
                             !.off = @ \/ mem.users[u].servers = {s}]
      BY <2>1 DEF Forgotten
    <3>3. /\ mem'.users[u].there = mem.users[u].there /\ mem'.users[u].must = mem.users[u].must
          /\ mem'.users[u].off = (mem.users[u].off \/ mem.users[u].servers = {s})
          /\ mem'.users[u].servers = mem.users[u].servers \ {s}
          /\ mem'.users[u].all = mem.users[u].all
      BY <3>1, <3>2 DEF User
    <3>4. Narrow(mem.users[u]) => Narrow(mem'.users[u])
      <4>1. mem.users[u].servers \ {s} = {} => mem.users[u].servers = {} \/ mem.users[u].servers = {s}
        OBVIOUS
      <4> QED
        BY <3>3, <4>1 DEF Narrow
    <3>5. ASSUME s \notin mem.users[u].servers PROVE mem'.users[u] = mem.users[u]
      <4>1. mem.users[u].servers # {s}
        BY <3>5
      <4> QED
        BY <3>1, <3>2, <3>5, <4>1, NotForgotten
    <3> QED
      BY <3>3, <3>4, <3>5
  <2>3. Widened(mem) = {} => Widened(mem') = {}
    BY <2>2 DEF Widened, Narrow
  <2>4. \A r : UsesMarked(p, r)
    BY <1>1, <1>16, <2>1, NoFlush DEF ForgetServer
  <2>5. CASE \E u \in Users : s \in mem.users[u].servers
    <3> DEFINE r == Saving(req[p], "users", {})
    <3>1. Frame(p, r)
      BY <1>16, <2>5, SavingFrame DEF ForgetServer, history
    <3>2. r.at = "save" /\ r.file = "users" /\ r.out = {}
      BY <1>1, SavingShape
    <3> HIDE DEF r
    <3>3. Calm(p, r)
      BY <2>1, <2>2, <2>3, <2>4, <3>1, <3>2, CalmUsers
    <3> QED
      BY <3>3
  <2>6. CASE ~\E u \in Users : s \in mem.users[u].servers
    <3>1. Frame(p, Idle)
      BY <1>16, <2>6, EndsFrame DEF ForgetServer, history
    <3>2. Calm(p, Idle)
      BY <2>1, <2>2, <2>3, <2>4, <2>6, <3>1, Shapes, CalmUsers
    <3> QED
      BY <3>2
  <2> QED
    BY <2>5, <2>6
<1> QED
  BY <1>5, <1>6, <1>7, <1>8, <1>9, <1>10, <1>11, <1>12, <1>13, <1>14, <1>15, <1>16 DEF UserStep

---------------------------------------------------------------------------
(* What calm steps keep.                                                   *)

LEMMA CalmOthers ==
    ASSUME TInv, NEW p \in Procs, NEW r, req' = [req EXCEPT ![p] = r]
    PROVE  /\ req'[p] = r
           /\ \A q \in Procs : q # p => req'[q] = req[q]
BY DEF TInv, TypeOK

LEMMA CalmWidens ==
    ASSUME TInv, WInv, NEW p \in Procs, NEW r, Calm(p, r)
    PROVE  WInv'
<1>1. req'[p] = r /\ \A q \in Procs : q # p => req'[q] = req[q]
  BY CalmOthers DEF Calm, Frame
<1>2. disk' = disk /\ Widened(mem') = {}
  BY DEF Calm, Frame, WInv
<1>3. Widened(r.snap) = {}
  BY NothingBlank DEF Calm, Frame, WInv
<1> QED
  BY <1>1, <1>2, <1>3 DEF WInv

(* What GInv says of a request r while the files hold i, apart from what    *)
(* it says of the ids made and gone.                                        *)
Orderly(r, i) ==
    /\ r.at \notin Writing => r.snap = Blank
    /\ r.at \in Writing => Present(r.snap) \subseteq Kind(r.file)
    /\ r.at \in Writing \cup {"save"} => r.out \subseteq Kind(r.file)
    /\ r.at = "write users" =>
         \A t \in Tokens : i.sess[t] = Owner <=> r.snap.sess[t] = Owner

LEMMA GoneOrderly ==
    ASSUME GInv, NEW q \in Procs
    PROVE  Orderly(req[q], disk)
BY Zenon DEF GInv, Orderly

LEMMA StaysOrderly ==
    ASSUME GInv, NEW q \in Procs, req'[q] = req[q], disk' = disk
    PROVE  Orderly(req'[q], disk')
BY GoneOrderly

LEMMA CalmGone ==
    ASSUME TInv, GInv, NEW p \in Procs, NEW r, Calm(p, r)
    PROVE  GInv'
<1>1. req'[p] = r /\ \A q \in Procs : q # p => req'[q] = req[q]
  BY CalmOthers DEF Calm, Frame
<1>2. /\ disk' = disk /\ gone' = gone /\ made \subseteq made'
      /\ Present(mem') \subseteq Present(mem) \cup (made' \ made)
      /\ r.out \subseteq Present(mem) \ Present(mem')
      /\ r.at = "save" => r.out \subseteq Kind(r.file)
      /\ r.at \notin Writing /\ r.snap = Blank
  BY DEF Calm, Frame, GoesOut, GInv
<1>3. Present(r.snap) = {}
  BY <1>2, NothingBlank
<1>4. /\ (Present(mem) \cup Present(disk) \cup gone \subseteq made)'
      /\ (gone \cap (Present(mem) \cup Present(disk)) = {})'
  BY <1>2 DEF GInv
<1>5. ASSUME NEW q \in Procs, q # p
      PROVE  /\ req'[q].out \subseteq made' \ Present(mem')
             /\ Present(req'[q].snap) \subseteq made' \ (gone' \cup req'[q].out)
  BY <1>1, <1>2, <1>5 DEF GInv
<1>6. ASSUME NEW q \in Procs, q # p
      PROVE  /\ req'[q].at \notin Writing => req'[q].snap = Blank
             /\ req'[q].at \in Writing => Present(req'[q].snap) \subseteq Kind(req'[q].file)
             /\ req'[q].at \in Writing \cup {"save"} => req'[q].out \subseteq Kind(req'[q].file)
             /\ req'[q].at = "write users" =>
                  \A t \in Tokens : disk'.sess[t] = Owner <=> req'[q].snap.sess[t] = Owner
  <2>1. req'[q] = req[q] /\ disk' = disk
    BY <1>1, <1>2, <1>6
  <2>2. Orderly(req'[q], disk')
    BY <1>6, <2>1, StaysOrderly
  <2> QED
    BY <2>2, Zenon DEF Orderly
<1>7. ASSUME NEW q \in Procs, q = p
      PROVE  /\ req'[q].out \subseteq made' \ Present(mem')
             /\ req'[q].at \notin Writing => req'[q].snap = Blank
             /\ Present(req'[q].snap) \subseteq made' \ (gone' \cup req'[q].out)
             /\ req'[q].at \notin Writing
             /\ req'[q].at = "save" => req'[q].out \subseteq Kind(req'[q].file)
  BY <1>1, <1>2, <1>3, <1>7 DEF GInv
<1> QED
  BY <1>4, <1>5, <1>6, <1>7 DEF GInv, Writing

LEMMA CalmSaves ==
    ASSUME TInv, SInv, NEW p \in Procs, NEW r, Calm(p, r)
    PROVE  SInv'
<1>1. req'[p] = r /\ \A q \in Procs : q # p => req'[q] = req[q]
  BY CalmOthers DEF Calm, Frame
<1>2. /\ disk' = disk /\ unsaved' = unsaved
      /\ refused \subseteq refused' /\ expired \subseteq expired'
      /\ r.at \notin Writing /\ req[p].at \notin Writing \cup {"save"}
  BY DEF Calm, Frame
<1> SUFFICES ASSUME NEW f \in Files
             PROVE  /\ \/ Agree(f, mem, disk)' \/ unsaved'[f]
                       \/ \E q \in Procs : Waits(q, f)' \/ Writes(q, f)'
                    /\ \A q \in Procs : Writes(q, f)' =>
                         Agree(f, mem, req[q].snap)' \/ \E o \in Procs : Waits(o, f)'
  BY DEF SInv
<1>3. \A q \in Procs : /\ Waits(q, f) => Waits(q, f)'
                       /\ Writes(q, f) => Writes(q, f)'
                       /\ Writes(q, f)' => Writes(q, f) /\ req'[q] = req[q]
  BY <1>1, <1>2 DEF Waits, Writes
<1>4. CASE r.at = "save" /\ r.file = f
  BY <1>1, <1>4 DEF Waits
<1>5. CASE Same(f, mem, mem', refused', expired')
  <2>1. ASSUME NEW i, Same(f, mem, i, refused, expired)
        PROVE  Same(f, mem', i, refused', expired')
    BY <1>2, <1>5, <2>1, SameChain
  <2>2. Agree(f, mem, disk) => Agree(f, mem, disk)'
    BY <1>2, <2>1, AgreeIsSame, AgreeIsSameNext
  <2>3. ASSUME NEW q \in Procs, Writes(q, f)', Agree(f, mem, req[q].snap)
        PROVE  Agree(f, mem, req[q].snap)'
    BY <1>3, <2>1, <2>3, AgreeIsSame, AgreeIsSameNext
  <2> QED
    BY <1>2, <1>3, <2>2, <2>3 DEF SInv
<1> QED
  BY <1>4, <1>5 DEF Calm, WillBeSaved

LEMMA CalmUses ==
    ASSUME TInv, UInv, NEW p \in Procs, NEW r, Calm(p, r)
    PROVE  UInv'
<1>1. req'[p] = r /\ \A q \in Procs : q # p => req'[q] = req[q]
  BY CalmOthers DEF Calm, Frame
<1>2. /\ disk' = disk /\ mem'.used = mem.used
      /\ r.op = "flush" => r.file = "keys"
      /\ r.at \notin Writing /\ req[p].at \notin Writing \cup {"save"}
  BY DEF Calm, Frame, UsesMarked
<1>3. ToFlush => ToFlush'
  <2>1. CASE dirty'
    BY <2>1 DEF ToFlush
  <2>2. CASE r.op = "flush" /\ r.at = "save"
    BY <1>1, <1>2, <2>2 DEF ToFlush, Waits
  <2>3. CASE ~dirty /\ ~(req[p].op = "flush" /\ req[p].at = "saved" /\ ~req[p].ok)
    BY <1>1, <1>2, <2>3 DEF ToFlush, Waits
  <2> QED
    BY <2>1, <2>2, <2>3 DEF Calm, UsesMarked
<1>4. \A q \in Procs : /\ Writes(q, "keys") => Writes(q, "keys")'
                       /\ Writes(q, "keys")' => Writes(q, "keys")
                       /\ Writes(q, "keys") => req'[q] = req[q]
  BY <1>1, <1>2 DEF Writes
<1>5. \A q \in Procs : req'[q].op = "flush" => req'[q].file = "keys"
  BY <1>1, <1>2 DEF UInv
<1> QED
  BY <1>2, <1>3, <1>4, <1>5 DEF UInv

---------------------------------------------------------------------------
(* Steps of no request.                                                    *)

LEMMA AloneStep ==
    ASSUME TInv, DInv, UNCHANGED <<disk, req, gone, unsaved, made, refused>>,
           expired \subseteq expired', Present(mem') \subseteq Present(mem),
           Widened(mem) = {} => Widened(mem') = {},
           \A f \in Files : Same(f, mem, mem', refused', expired'),
           dirty' \/ (dirty' = dirty /\ mem'.used = mem.used)
    PROVE  DInv'
<1>1. WInv'
  BY DEF DInv, WInv
<1>2. GInv'
  BY DEF DInv, GInv
<1>3. SInv'
  <2> SUFFICES ASSUME NEW f \in Files
               PROVE  /\ \/ Agree(f, mem, disk)' \/ unsaved'[f]
                         \/ \E q \in Procs : Waits(q, f)' \/ Writes(q, f)'
                      /\ \A q \in Procs : Writes(q, f)' =>
                           Agree(f, mem, req[q].snap)' \/ \E o \in Procs : Waits(o, f)'
    BY DEF SInv
  <2>1. ASSUME NEW i, Same(f, mem, i, refused, expired)
        PROVE  Same(f, mem', i, refused', expired')
    BY <2>1, SameChain
  <2>2. Agree(f, mem, disk) => Agree(f, mem, disk)'
    BY <2>1, AgreeIsSame, AgreeIsSameNext
  <2>3. ASSUME NEW q \in Procs, Agree(f, mem, req[q].snap)
        PROVE  Agree(f, mem, req[q].snap)'
    BY <2>1, <2>3, AgreeIsSame, AgreeIsSameNext
  <2>4. \A q \in Procs : (Waits(q, f)' <=> Waits(q, f)) /\ (Writes(q, f)' <=> Writes(q, f))
    BY DEF Waits, Writes
  <2> QED
    BY <2>2, <2>3, <2>4 DEF DInv, SInv
<1>4. UInv'
  <2>1. ToFlush => ToFlush'
    BY DEF ToFlush, Waits
  <2>2. dirty' => ToFlush'
    BY DEF ToFlush
  <2>3. \A q \in Procs : Writes(q, "keys")' <=> Writes(q, "keys")
    BY DEF Writes
  <2>4. CASE dirty'
    BY <2>2, <2>4 DEF DInv, UInv
  <2>5. CASE mem'.used = mem.used
    BY <2>1, <2>3, <2>5 DEF DInv, UInv
  <2> QED
    BY <2>4, <2>5
<1> QED
  BY <1>1, <1>2, <1>3, <1>4 DEF DInv

LEMMA UseKeyStep ==
    ASSUME TInv, DInv, NEW k \in Keys, UseKey(k)
    PROVE  DInv'
<1>1. mem'.keys = mem.keys /\ mem'.users = mem.users /\ mem'.sess = mem.sess /\ dirty'
  BY DEF UseKey, TInv, TypeOK, Image
<1>2. Present(mem') = Present(mem) /\ Widened(mem') = Widened(mem)
  BY <1>1 DEF Present, Widened
<1>3. \A f \in Files : Same(f, mem, mem', refused', expired')
  BY <1>1 DEF Same
<1> QED
  BY <1>1, <1>2, <1>3, AloneStep DEF UseKey, history

LEMMA ExpiryStep ==
    ASSUME TInv, DInv, NEW t \in Tokens, Expire(t) \/ LookupExpired(t)
    PROVE  DInv'
<1>1. CASE Expire(t)
  <2>1. \A f \in Files : Same(f, mem, mem', refused', expired')
    BY <1>1 DEF Expire, store, Same
  <2> QED
    BY <1>1, <2>1, AloneStep DEF Expire, store, history
<1>2. CASE LookupExpired(t)
  <2>1. /\ mem'.keys = mem.keys /\ mem'.used = mem.used /\ mem'.users = mem.users
        /\ \A x \in Tokens : mem'.sess[x] = IF x \in {t} THEN None ELSE mem.sess[x]
    BY <1>2, MemDropped DEF LookupExpired
  <2>2. Present(mem') \subseteq Present(mem) /\ Widened(mem') = Widened(mem)
    BY <2>1 DEF Present, Widened
  <2>3. \A f \in Files : Same(f, mem, mem', refused', expired')
    BY <1>2, <2>1 DEF Same, LookupExpired
  <2> QED
    BY <1>2, <2>1, <2>2, <2>3, AloneStep DEF LookupExpired, history
<1> QED
  BY <1>1, <1>2

LEMMA StillStep ==
    ASSUME TInv, DInv, UNCHANGED vars
    PROVE  DInv'
<1>1. \A f \in Files : Same(f, mem, mem', refused', expired')
  BY DEF vars, store, Same
<1> QED
  BY <1>1, AloneStep DEF vars, store, history

\* What comes back is what the files say, and no request has anything to save.
Fresh ==
    /\ mem \in Image /\ disk \in Image /\ \A p \in Procs : req[p] = Idle
    /\ mem.keys = disk.keys /\ mem.used = disk.used /\ mem.users = disk.users
    /\ \A t \in Tokens : mem.sess[t] = IF t \in expired THEN None ELSE disk.sess[t]
    /\ Widened(disk) = {}
    /\ Present(disk) \cup gone \subseteq made /\ gone \cap Present(disk) = {}

LEMMA FreshStart == Fresh => DInv
<1> SUFFICES ASSUME Fresh PROVE DInv
  OBVIOUS
<1> USE DEF Fresh
<1>1. Widened(mem) = {} /\ Present(mem) \subseteq Present(disk)
  BY DEF Widened, Present
<1>2. WInv
  BY <1>1, NothingBlank, Shapes DEF WInv
<1>3. GInv
  BY <1>1, NothingBlank, Shapes DEF GInv, Writing
<1>4. \A f \in Files : Agree(f, mem, disk)
  BY DEF Agree
<1>5. SInv
  BY <1>4, Shapes DEF SInv, Writes, Writing
<1>6. UInv
  BY Shapes DEF UInv, Writes, Writing
<1> QED
  BY <1>2, <1>3, <1>5, <1>6 DEF DInv

LEMMA DiskInitially == Init => DInv
<1> SUFFICES ASSUME Init PROVE DInv
  OBVIOUS
<1>1. mem = Blank /\ disk = Blank /\ expired = {} /\ gone = {} /\ \A p \in Procs : req[p] = Idle
  BY DEF Init
<1> QED
  BY <1>1, NothingBlank, FreshStart DEF Fresh

LEMMA RestartDisk == ASSUME TInv, TInv', DInv, Restart PROVE DInv'
<1>1. mem' \in Image /\ disk' \in Image /\ disk' = disk
  BY DEF TInv, TypeOK, Restart
<1>2. /\ mem'.keys = disk'.keys /\ mem'.used = disk'.used /\ mem'.users = disk'.users
      /\ \A t \in Tokens : mem'.sess[t] = IF t \in expired' THEN None ELSE disk'.sess[t]
  BY DEF TInv, TypeOK, Image, Restart
<1>3. \A p \in Procs : req'[p] = Idle
  BY DEF Restart
<1>4. /\ Widened(disk') = {} /\ Present(disk') \cup gone' \subseteq made'
      /\ gone' \cap Present(disk') = {}
  BY DEF Restart, DInv, WInv, GInv
<1>5. Fresh'
  BY <1>1, <1>2, <1>3, <1>4 DEF Fresh
<1> QED
  BY <1>5, FreshStart, PTL

---------------------------------------------------------------------------
(* The steps of a save.  A snapshot is what memory has for its file, and   *)
(* what a write leaves on disk for its file is the snapshot.               *)

LEMMA SnapshotParts ==
    ASSUME TInv, NEW f \in Files
    PROVE  /\ Present(Snapshot(f)) \subseteq Present(mem) \cap Kind(f)
           /\ Widened(Snapshot(f)) \subseteq Widened(mem)
           /\ Agree(f, mem, Snapshot(f))
           /\ f = "keys" => Snapshot(f).used = mem.used
<1>1. mem \in Image
  BY DEF TInv, TypeOK
<1>2. CASE f = "keys"
  <2>1. /\ Snapshot(f).keys = mem.keys /\ Snapshot(f).used = mem.used
        /\ Snapshot(f).users = Blank.users /\ Snapshot(f).sess = Blank.sess
    BY <1>2, BlankImage DEF Snapshot, PutKeys, Image
  <2>2. mem.keys \subseteq Keys
    BY <1>1, ImageParts
  <2> QED
    BY <1>2, <2>1, <2>2, NothingBlank DEF Present, Widened, Kind, Agree
<1>3. CASE f = "users"
  <2>1. /\ Snapshot(f).keys = Blank.keys /\ Snapshot(f).users = mem.users
        /\ Snapshot(f).sess = Blank.sess
    BY <1>3, BlankImage DEF Snapshot, PutUsers, Image
  <2> QED
    BY <1>3, <2>1, NothingBlank DEF Present, Widened, Kind, Agree
<1>4. CASE f = "sessions"
  <2>1. /\ Snapshot(f).keys = Blank.keys /\ Snapshot(f).users = Blank.users
        /\ Snapshot(f).sess = mem.sess
    BY <1>4, BlankImage DEF Snapshot, Image
  <2> QED
    BY <1>4, <2>1, NothingBlank DEF Present, Widened, Kind, Agree
<1> QED
  BY <1>2, <1>3, <1>4 DEF Files

\* Nobody else writes the file that p writes, or may write next.
LEMMA OneWriter ==
    ASSUME TInv, Locked, NEW p \in Procs, req[p].at \in Writing
    PROVE  \A q \in Procs : q # p => ~Writes(q, req[p].file)
BY DEF Locked, Writes, TInv, TypeOK

LEMMA TakeSaveMuDisk ==
    ASSUME TInv, Locked, DInv, NEW p \in Procs, TakeSaveMu(p)
    PROVE  DInv'
<1> DEFINE f == req[p].file
           r == [req[p] EXCEPT !.at = "write", !.snap = Snapshot(f)]
<1>1. req[p] \in Request /\ f \in Files /\ req[p].at = "save"
  BY DEF TInv, TypeOK, Typed, TakeSaveMu
<1>2. r.op = req[p].op /\ r.file = f /\ r.at = "write" /\ r.snap = Snapshot(f) /\ r.out = req[p].out
  BY <1>1 DEF Request
<1>3. req' = [req EXCEPT ![p] = r]
  BY DEF TakeSaveMu, Set
<1> HIDE DEF r
<1>4. req'[p] = r /\ \A q \in Procs : q # p => req'[q] = req[q]
  BY <1>3, CalmOthers
<1>5. UNCHANGED <<mem, disk, dirty, gone, unsaved, made, refused, expired>>
  BY DEF TakeSaveMu, store, history
<1>6. /\ Present(r.snap) \subseteq Present(mem) \cap Kind(f) /\ Widened(r.snap) \subseteq Widened(mem)
      /\ Agree(f, mem, r.snap) /\ (f = "keys" => r.snap.used = mem.used)
  BY <1>1, <1>2, SnapshotParts
<1>7. \A q \in Procs : q # p => ~Writes(q, f)
  BY DEF Locked, Writes, TakeSaveMu
<1>8. ~Writes(p, "keys") /\ ~Writes(p, "users") /\ ~Writes(p, "sessions")
  BY <1>1 DEF Writes, Writing
<1>9. WInv'
  BY <1>4, <1>5, <1>6 DEF DInv, WInv
<1>10. GInv'
  <2>1. /\ (Present(mem) \cup Present(disk) \cup gone \subseteq made)'
        /\ (gone \cap (Present(mem) \cup Present(disk)) = {})'
    BY <1>5 DEF DInv, GInv
  <2>2. ASSUME NEW q \in Procs, q # p
        PROVE  /\ req'[q].out \subseteq made' \ Present(mem')
               /\ req'[q].at \notin Writing => req'[q].snap = Blank
               /\ Present(req'[q].snap) \subseteq made' \ (gone' \cup req'[q].out)
               /\ req'[q].at \in Writing => Present(req'[q].snap) \subseteq Kind(req'[q].file)
               /\ req'[q].at \in Writing \cup {"save"} => req'[q].out \subseteq Kind(req'[q].file)
               /\ req'[q].at = "write users" =>
                    \A t \in Tokens : disk'.sess[t] = Owner <=> req'[q].snap.sess[t] = Owner
    <3>1. req'[q] = req[q] /\ disk' = disk
      BY <1>4, <1>5, <2>2
    <3>2. Orderly(req'[q], disk')
      BY <2>2, <3>1, StaysOrderly DEF DInv
    <3>3. /\ req'[q].out \subseteq made' \ Present(mem')
          /\ Present(req'[q].snap) \subseteq made' \ (gone' \cup req'[q].out)
      <4>1. /\ req[q].out \subseteq made \ Present(mem)
            /\ Present(req[q].snap) \subseteq made \ (gone \cup req[q].out)
        BY <2>2, Zenon DEF DInv, GInv
      <4> QED
        BY <1>5, <3>1, <4>1
    <3> QED
      BY <3>2, <3>3, Zenon DEF Orderly
  <2>3. /\ req[p].out \subseteq made \ Present(mem) /\ req[p].out \subseteq Kind(f)
        /\ Present(mem) \subseteq made /\ gone \cap Present(mem) = {}
    BY <1>1 DEF DInv, GInv
  <2>4. /\ r.out \subseteq made' \ Present(mem')
        /\ Present(r.snap) \subseteq made' \ (gone' \cup r.out)
        /\ Present(r.snap) \subseteq Kind(r.file) /\ r.out \subseteq Kind(r.file)
        /\ r.at \in Writing /\ r.at # "write users"
    BY <1>2, <1>5, <1>6, <2>3 DEF Writing
  <2> QED
    BY <1>4, <2>1, <2>2, <2>4 DEF GInv
<1>11. SInv'
  <2> SUFFICES ASSUME NEW g \in Files
               PROVE  /\ \/ Agree(g, mem, disk)' \/ unsaved'[g]
                         \/ \E q \in Procs : Waits(q, g)' \/ Writes(q, g)'
                      /\ \A q \in Procs : Writes(q, g)' =>
                           Agree(g, mem, req[q].snap)' \/ \E o \in Procs : Waits(o, g)'
    BY DEF SInv
  <2>1. /\ Agree(g, mem, disk) <=> Agree(g, mem, disk)'
        /\ \A q \in Procs : Agree(g, mem, req'[q].snap) <=> Agree(g, mem, req[q].snap)'
    BY <1>5, AgreeIsSame, AgreeIsSameNext
  <2>2. g = f => Writes(p, g)'
    BY <1>2, <1>4 DEF Writes, Writing
  <2>3. \A q \in Procs : q # p => (Waits(q, g)' <=> Waits(q, g)) /\ (Writes(q, g)' <=> Writes(q, g))
    BY <1>4 DEF Waits, Writes
  <2>4. CASE g = f
    <3>1. \A q \in Procs : Writes(q, g)' => q = p
      BY <1>7, <2>3, <2>4
    <3>2. Agree(g, mem, req'[p].snap)
      BY <1>4, <1>6, <2>4
    <3>3. Agree(g, mem, req[p].snap)'
      BY <2>1, <3>2
    <3> QED
      BY <2>2, <2>4, <3>1, <3>3
  <2>5. CASE g # f
    <3>1. ~Waits(p, g) /\ ~Writes(p, g)'
      BY <1>1, <1>2, <1>4, <2>5 DEF Waits, Writes
    <3>2. ~Writes(p, g)
      BY <1>8 DEF Files
    <3> QED
      BY <1>4, <1>5, <2>1, <2>3, <3>1, <3>2 DEF DInv, SInv
  <2> QED
    BY <2>4, <2>5
<1>12. UInv'
  <2>1. \A q \in Procs : req'[q].op = "flush" => req'[q].file = "keys"
    BY <1>2, <1>4 DEF DInv, UInv
  <2>2. \A q \in Procs : q # p => (Writes(q, "keys")' <=> Writes(q, "keys"))
    BY <1>4 DEF Writes
  <2>3. Writes(p, "keys")' <=> f = "keys"
    BY <1>2, <1>4 DEF Writes, Writing
  <2>4. ASSUME ~ToFlush', NEW k \in Keys
        PROVE  /\ \A q \in Procs : Writes(q, "keys")' => req'[q].snap.used[k] = mem'.used[k]
               /\ mem'.used[k] # disk'.used[k] =>
                    \E q \in Procs : req'[q].op = "flush" /\ Writes(q, "keys")'
    <3>1. CASE ToFlush
      <4>1. f = "keys" /\ req[p].op = "flush"
        BY <1>1, <1>4, <1>5, <2>4, <3>1 DEF ToFlush, Waits
      <4> QED
        BY <1>2, <1>4, <1>5, <1>6, <1>7, <2>2, <2>3, <4>1
    <3>2. CASE ~ToFlush
      <4>1. /\ \A q \in Procs : Writes(q, "keys") => req[q].snap.used[k] = mem.used[k]
            /\ mem.used[k] # disk.used[k] =>
                 \E q \in Procs : req[q].op = "flush" /\ Writes(q, "keys")
        BY <3>2 DEF DInv, UInv
      <4> QED
        BY <1>4, <1>5, <1>6, <1>8, <2>2, <2>3, <4>1
    <3> QED
      BY <3>1, <3>2
  <2> QED
    BY <2>1, <2>4 DEF UInv
<1> QED
  BY <1>9, <1>10, <1>11, <1>12 DEF DInv

\* p lets go of the file f it wrote, or failed to write, and takes no snapshot.
LetsGo(p, f, r) ==
    /\ req' = [req EXCEPT ![p] = r]
    /\ r.op = req[p].op /\ r.file = f /\ r.out = req[p].out
    /\ r.at = "saved" /\ r.snap = Blank
    /\ req[p].at \in Writing /\ req[p].file = f /\ f \in Files
    /\ UNCHANGED <<mem, dirty, made, refused, expired>>
    /\ \A g \in Files : g # f => unsaved'[g] = unsaved[g]

LEMMA WrittenLetsGo ==
    ASSUME TInv, NEW p \in Procs, Written(p), req[p].at \in Writing
    PROVE  /\ \E r : LetsGo(p, req[p].file, r)
           /\ gone' = gone \cup req[p].out
<1> DEFINE r == [req[p] EXCEPT !.at = "saved", !.snap = Blank, !.ok = TRUE]
<1>1. req[p] \in Request /\ req[p].file \in Files
  BY DEF TInv, TypeOK, Typed, Writing
<1>2. r.op = req[p].op /\ r.file = req[p].file /\ r.out = req[p].out /\ r.at = "saved" /\ r.snap = Blank
  BY <1>1 DEF Request
<1>3. req' = [req EXCEPT ![p] = r]
  BY DEF Written, Set
<1>4. \A g \in Files : g # req[p].file => unsaved'[g] = unsaved[g]
  BY DEF Written, TInv, TypeOK
<1> HIDE DEF r
<1>5. LetsGo(p, req[p].file, r)
  BY <1>1, <1>2, <1>3, <1>4 DEF LetsGo, Written
<1> QED
  BY <1>5 DEF Written

\* Whoever else writes, writes another file.
LEMMA OthersWriteElsewhere ==
    ASSUME TInv, Locked, NEW p \in Procs, NEW f, NEW r, LetsGo(p, f, r)
    PROVE  /\ req'[p] = r /\ \A q \in Procs : q # p => req'[q] = req[q]
           /\ Writes(p, f) /\ \A g \in Files : ~Waits(p, g)
           /\ \A g \in Files : ~Waits(p, g)' /\ ~Writes(p, g)'
           /\ \A q \in Procs : q # p => ~Writes(q, f)
           /\ \A q \in Procs, g \in Files : q # p =>
                (Waits(q, g)' <=> Waits(q, g)) /\ (Writes(q, g)' <=> Writes(q, g))
           /\ \A q \in Procs : req[q].at \in Writing => req[q].file \in Files
           /\ \A q \in Procs : req[q].at = "write users" => req[q].file = "sessions"
<1>1. req'[p] = r /\ \A q \in Procs : q # p => req'[q] = req[q]
  BY CalmOthers DEF LetsGo
<1>2. Writes(p, f) /\ \A g \in Files : ~Waits(p, g) /\ ~Waits(p, g)' /\ ~Writes(p, g)'
  BY <1>1 DEF LetsGo, Writes, Waits, Writing
<1>3. \A q \in Procs : q # p => ~Writes(q, f)
  BY OneWriter DEF LetsGo
<1>4. \A q \in Procs, g \in Files : q # p =>
        (Waits(q, g)' <=> Waits(q, g)) /\ (Writes(q, g)' <=> Writes(q, g))
  BY <1>1 DEF Waits, Writes
<1>5. /\ \A q \in Procs : req[q].at \in Writing => req[q].file \in Files
      /\ \A q \in Procs : req[q].at = "write users" => req[q].file = "sessions"
  BY DEF TInv, Typed, Writing
<1> QED
  BY <1>1, <1>2, <1>3, <1>4, <1>5

LEMMA LetsGoWidens ==
    ASSUME TInv, Locked, WInv, NEW p \in Procs, NEW f, NEW r, LetsGo(p, f, r),
           Widened(disk') \subseteq Widened(disk) \cup Widened(req[p].snap)
    PROVE  WInv'
<1>1. req'[p] = r /\ \A q \in Procs : q # p => req'[q] = req[q]
  BY CalmOthers DEF LetsGo
<1>2. mem' = mem /\ Widened(r.snap) = {}
  BY NothingBlank DEF LetsGo
<1> QED
  BY <1>1, <1>2 DEF WInv

\* What was removed is neither on disk now, nor in a snapshot of another file.
LEMMA LetsGoGone ==
    ASSUME TInv, Locked, GInv, NEW p \in Procs, NEW f, NEW r, LetsGo(p, f, r),
           f # "sessions" => disk'.sess = disk.sess,
           \/ disk' = disk /\ gone' = gone
           \/ /\ gone' = gone \cup req[p].out
              /\ Present(disk') \cap Kind(f) = Present(req[p].snap)
              /\ Present(disk') \ Kind(f) = Present(disk) \ Kind(f)
    PROVE  GInv'
<1>0. /\ \A q \in Procs : q # p => ~Writes(q, f)
      /\ \A q \in Procs : req[q].at \in Writing => req[q].file \in Files
      /\ \A q \in Procs : req[q].at = "write users" => req[q].file = "sessions"
  BY OthersWriteElsewhere
<1>1. req'[p] = r /\ \A q \in Procs : q # p => req'[q] = req[q]
  BY CalmOthers DEF LetsGo
<1>2. /\ mem' = mem /\ made' = made /\ r.out = req[p].out /\ r.snap = Blank /\ Present(r.snap) = {}
      /\ r.at \notin Writing \cup {"save"} /\ r.at # "write users" /\ f \in Files
  BY NothingBlank DEF LetsGo, Writing
<1>3. /\ req[p].out \subseteq made \ Present(mem) /\ req[p].out \subseteq Kind(f)
      /\ Present(req[p].snap) \subseteq made \ (gone \cup req[p].out)
      /\ Present(mem) \cup Present(disk) \cup gone \subseteq made
      /\ gone \cap (Present(mem) \cup Present(disk)) = {}
  BY DEF GInv, LetsGo
<1>4. /\ (Present(mem) \cup Present(disk) \cup gone \subseteq made)'
      /\ (gone \cap (Present(mem) \cup Present(disk)) = {})'
      /\ gone' \subseteq gone \cup req[p].out
  BY <1>2, <1>3
<1>5. ASSUME NEW q \in Procs, q # p
      PROVE  /\ req[q].out \subseteq made' \ Present(mem')
             /\ req[q].at \notin Writing => req[q].snap = Blank
             /\ Present(req[q].snap) \subseteq made' \ (gone' \cup req[q].out)
             /\ req[q].at \in Writing => Present(req[q].snap) \subseteq Kind(req[q].file)
             /\ req[q].at \in Writing \cup {"save"} => req[q].out \subseteq Kind(req[q].file)
  <2>1. /\ req[q].out \subseteq made \ Present(mem)
        /\ req[q].at \notin Writing => req[q].snap = Blank
        /\ Present(req[q].snap) \subseteq made \ (gone \cup req[q].out)
        /\ req[q].at \in Writing => Present(req[q].snap) \subseteq Kind(req[q].file)
        /\ req[q].at \in Writing \cup {"save"} => req[q].out \subseteq Kind(req[q].file)
    BY Zenon DEF GInv
  <2>2. Present(req[q].snap) \cap Kind(f) = {}
    <3>1. CASE req[q].at \in Writing
      <4>1. req[q].file # f /\ req[q].file \in Files
        BY <1>0, <1>5, <3>1 DEF Writes
      <4> QED
        BY <1>2, <2>1, <3>1, <4>1 DEF Kind, Files
    <3>2. CASE req[q].at \notin Writing
      BY <2>1, <3>2, NothingBlank
    <3> QED
      BY <3>1, <3>2
  <2> QED
    BY <1>2, <1>3, <1>4, <2>1, <2>2
<1>6. ASSUME NEW q \in Procs, q # p, req[q].at = "write users", NEW t \in Tokens
      PROVE  disk'.sess[t] = Owner <=> req[q].snap.sess[t] = Owner
  <2>1. f # "sessions"
    BY <1>0, <1>6 DEF Writes, Writing
  <2>2. disk.sess[t] = Owner <=> req[q].snap.sess[t] = Owner
    BY <1>6 DEF GInv
  <2> QED
    BY <2>1, <2>2
<1>7. /\ req'[p].out \subseteq made' \ Present(mem') /\ Present(req'[p].snap) = {}
      /\ req'[p].at \notin Writing \cup {"save"} /\ req'[p].at # "write users"
      /\ req'[p].snap = Blank
  BY <1>1, <1>2, <1>3
<1>8. ASSUME NEW q \in Procs
      PROVE  /\ req'[q].out \subseteq made' \ Present(mem')
             /\ req'[q].at \notin Writing => req'[q].snap = Blank
             /\ Present(req'[q].snap) \subseteq made' \ (gone' \cup req'[q].out)
             /\ req'[q].at \in Writing => Present(req'[q].snap) \subseteq Kind(req'[q].file)
             /\ req'[q].at \in Writing \cup {"save"} => req'[q].out \subseteq Kind(req'[q].file)
             /\ req'[q].at = "write users" =>
                  \A t \in Tokens : disk'.sess[t] = Owner <=> req'[q].snap.sess[t] = Owner
  <2>1. CASE q = p
    BY <1>7, <2>1
  <2>2. CASE q # p
    <3>1. req'[q] = req[q]
      BY <1>1, <2>2
    <3> QED
      BY <1>5, <1>6, <2>2, <3>1, Zenon
  <2> QED
    BY <2>1, <2>2
<1> QED
  BY <1>4, <1>8, Zenon DEF GInv, Writing

LEMMA LetsGoSaves ==
    ASSUME TInv, Locked, SInv, NEW p \in Procs, NEW f, NEW r, LetsGo(p, f, r),
           unsaved'[f] \/ Same(f, req[p].snap, disk', refused, expired),
           \A g \in Files : g # f => Same(g, disk, disk', refused, expired)
    PROVE  SInv'
<1> SUFFICES ASSUME NEW g \in Files
             PROVE  /\ \/ Agree(g, mem, disk)' \/ unsaved'[g]
                       \/ \E q \in Procs : Waits(q, g)' \/ Writes(q, g)'
                    /\ \A q \in Procs : Writes(q, g)' =>
                         Agree(g, mem, req[q].snap)' \/ \E o \in Procs : Waits(o, g)'
  BY DEF SInv
<1>1. UNCHANGED <<mem, refused, expired>> /\ f \in Files
  BY DEF LetsGo
<1>2. /\ \A q \in Procs : q # p => req'[q] = req[q]
      /\ Writes(p, f) /\ ~Waits(p, g)
      /\ ~Waits(p, g)' /\ ~Writes(p, g)'
      /\ \A q \in Procs : q # p => ~Writes(q, f)
      /\ \A q \in Procs : q # p =>
           (Waits(q, g)' <=> Waits(q, g)) /\ (Writes(q, g)' <=> Writes(q, g))
  BY OthersWriteElsewhere
<1>3. ASSUME NEW i, NEW j, Same(g, i, j, refused, expired), Same(g, mem, i, refused, expired)
      PROVE  Same(g, mem, j, refused, expired)
  BY <1>3 DEF Same
<1>4. ASSUME NEW q \in Procs, q # p, Agree(g, mem, req[q].snap)
      PROVE  Agree(g, mem, req[q].snap)'
  BY <1>1, <1>2, <1>4, AgreeIsSame, AgreeIsSameNext
<1>5. CASE g = f
  <2>1. \A q \in Procs : ~Writes(q, g)'
    BY <1>2, <1>5
  <2>2. Agree(f, mem, req[p].snap) \/ \E o \in Procs : Waits(o, f)
    BY <1>1, <1>2 DEF SInv
  <2>3. CASE Agree(f, mem, req[p].snap) /\ ~unsaved'[f]
    <3>1. Same(g, mem, disk', refused, expired)
      BY <1>1, <1>3, <1>5, <2>3, AgreeIsSame
    <3> QED
      BY <1>1, <2>1, <3>1, AgreeIsSameNext
  <2> QED
    BY <1>2, <1>5, <2>1, <2>2, <2>3
<1>6. CASE g # f
  <2>1. unsaved'[g] = unsaved[g] /\ ~Writes(p, g)
    BY <1>6 DEF LetsGo, Writes
  <2>2. Agree(g, mem, disk) => Agree(g, mem, disk)'
    BY <1>1, <1>3, <1>6, AgreeIsSame, AgreeIsSameNext
  <2>3. ASSUME NEW q \in Procs, Writes(q, g)'
        PROVE  Agree(g, mem, req[q].snap)' \/ \E o \in Procs : Waits(o, g)'
    BY <1>2, <1>4, <2>3 DEF SInv
  <2>4. Agree(g, mem, disk)' \/ unsaved'[g] \/ \E q \in Procs : Waits(q, g)' \/ Writes(q, g)'
    BY <1>2, <2>1, <2>2 DEF SInv
  <2> QED
    BY <2>3, <2>4
<1> QED
  BY <1>5, <1>6

LEMMA LetsGoUses ==
    ASSUME TInv, Locked, UInv, NEW p \in Procs, NEW f, NEW r, LetsGo(p, f, r),
           \/ disk'.used = IF f = "keys" THEN req[p].snap.used ELSE disk.used
           \/ disk' = disk /\ ~r.ok
    PROVE  UInv'
<1>1. /\ req'[p] = r /\ \A q \in Procs : q # p => req'[q] = req[q]
      /\ Writes(p, f) /\ ~Waits(p, "keys") /\ ~Writes(p, "keys")'
      /\ \A q \in Procs : q # p => ~Writes(q, f)
      /\ \A q \in Procs : q # p =>
           (Waits(q, "keys")' <=> Waits(q, "keys")) /\ (Writes(q, "keys")' <=> Writes(q, "keys"))
  BY OthersWriteElsewhere DEF Files
<1>2. UNCHANGED <<mem, dirty>> /\ r.op = req[p].op /\ r.file = f /\ r.at = "saved"
      /\ req[p].file = f /\ req[p].at # "saved"
  BY DEF LetsGo, Writing
<1>3. \A q \in Procs : req'[q].op = "flush" => req'[q].file = "keys"
  BY <1>1, <1>2 DEF UInv
<1>4. ToFlush => ToFlush'
  BY <1>1, <1>2 DEF ToFlush
<1>5. ~r.ok /\ r.op = "flush" => ToFlush'
  BY <1>1, <1>2 DEF ToFlush
<1> SUFFICES ASSUME ~ToFlush', NEW k \in Keys
             PROVE  /\ \A q \in Procs : Writes(q, "keys")' => req'[q].snap.used[k] = mem'.used[k]
                    /\ mem'.used[k] # disk'.used[k] =>
                         \E q \in Procs : req'[q].op = "flush" /\ Writes(q, "keys")'
  BY <1>3 DEF UInv
<1>6. /\ \A q \in Procs : Writes(q, "keys") => req[q].snap.used[k] = mem.used[k]
      /\ mem.used[k] # disk.used[k] =>
           \E q \in Procs : req[q].op = "flush" /\ Writes(q, "keys")
  BY <1>4 DEF UInv
<1>7. \A q \in Procs : Writes(q, "keys")' => req'[q].snap.used[k] = mem'.used[k]
  BY <1>1, <1>2, <1>6
<1>8. ASSUME mem'.used[k] # disk'.used[k]
      PROVE  \E q \in Procs : req'[q].op = "flush" /\ Writes(q, "keys")'
  <2>1. mem.used[k] # disk.used[k] /\ ~(f = "keys" /\ req[p].op = "flush")
    <3>1. CASE f = "keys" /\ disk'.used = req[p].snap.used
      BY <1>1, <1>2, <1>6, <1>8, <3>1
    <3>2. CASE f # "keys" /\ disk'.used = disk.used
      BY <1>2, <1>8, <3>2
    <3>3. CASE disk' = disk /\ ~r.ok
      BY <1>2, <1>5, <1>8, <3>3
    <3> QED
      BY <3>1, <3>2, <3>3
  <2>2. PICK q \in Procs : req[q].op = "flush" /\ Writes(q, "keys")
    BY <1>6, <2>1
  <2>3. q # p
    BY <1>2, <2>1, <2>2 DEF Writes
  <2> QED
    BY <1>1, <2>2, <2>3
<1> QED
  BY <1>7, <1>8

LEMMA WriteKeysDisk ==
    ASSUME TInv, Locked, DInv, NEW p \in Procs, WriteKeys(p)
    PROVE  DInv'
<1> DEFINE snap == req[p].snap
<1>1. /\ snap \in Image /\ disk \in Image /\ req[p].at \in Writing /\ req[p].file = "keys"
      /\ Written(p) /\ disk' = PutKeys(snap, disk)
  BY DEF TInv, TypeOK, Request, WriteKeys, Writing
<1>2. /\ disk'.keys = snap.keys /\ disk'.used = snap.used
      /\ disk'.users = disk.users /\ disk'.sess = disk.sess
  BY <1>1 DEF PutKeys, Image
<1>3. PICK r : LetsGo(p, "keys", r)
  BY <1>1, WrittenLetsGo
<1>4. Present(snap) \subseteq Keys
  BY <1>1 DEF DInv, GInv, Kind
<1>5. /\ Present(disk') \cap Keys = Present(snap)
      /\ Present(disk') \ Keys = Present(disk) \ Keys
  BY <1>1, <1>2, <1>4, ImageParts DEF Present
<1>6. WInv'
  BY <1>2, <1>3, LetsGoWidens DEF DInv, Widened
<1>7. GInv'
  BY <1>1, <1>2, <1>3, <1>5, WrittenLetsGo, LetsGoGone DEF DInv, Kind
<1>8. SInv'
  BY <1>2, <1>3, LetsGoSaves DEF DInv, Same
<1>9. UInv'
  BY <1>2, <1>3, LetsGoUses DEF DInv
<1> QED
  BY <1>6, <1>7, <1>8, <1>9 DEF DInv

LEMMA WriteUsersDisk ==
    ASSUME TInv, Locked, DInv, NEW p \in Procs, WriteUsers(p)
    PROVE  DInv'
<1> DEFINE snap == req[p].snap
<1>1. /\ snap \in Image /\ disk \in Image /\ req[p].at \in Writing /\ req[p].file = "users"
      /\ Written(p) /\ disk' = PutUsers(snap, disk)
  BY DEF TInv, TypeOK, Request, WriteUsers, Writing
<1>2. /\ disk'.keys = disk.keys /\ disk'.used = disk.used
      /\ disk'.users = snap.users /\ disk'.sess = disk.sess
  BY <1>1 DEF PutUsers, Image
<1>3. PICK r : LetsGo(p, "users", r)
  BY <1>1, WrittenLetsGo
<1>4. Present(snap) \subseteq Users
  BY <1>1 DEF DInv, GInv, Kind
<1>5. /\ Present(disk') \cap Users = Present(snap)
      /\ Present(disk') \ Users = Present(disk) \ Users
  BY <1>1, <1>2, <1>4, ImageParts DEF Present
<1>6. WInv'
  BY <1>2, <1>3, LetsGoWidens DEF DInv, Widened
<1>7. GInv'
  BY <1>1, <1>2, <1>3, <1>5, WrittenLetsGo, LetsGoGone DEF DInv, Kind
<1>8. SInv'
  BY <1>2, <1>3, LetsGoSaves DEF DInv, Same, Files
<1>9. UInv'
  BY <1>2, <1>3, LetsGoUses DEF DInv
<1> QED
  BY <1>6, <1>7, <1>8, <1>9 DEF DInv

\* With the owner's sessions in their file already, the users' make the two
\* files say what the snapshot says.
LEMMA WriteUserSessionsDisk ==
    ASSUME TInv, Locked, DInv, NEW p \in Procs, WriteUserSessions(p)
    PROVE  DInv'
<1> DEFINE snap == req[p].snap
<1>1. /\ snap \in Image /\ disk \in Image /\ req[p].at \in Writing /\ req[p].file = "sessions"
      /\ Written(p) /\ disk' = PutUserSessions(snap, disk)
  BY DEF TInv, TypeOK, Typed, Request, WriteUserSessions, Writing
<1>0. req[p].at = "write users"
  BY DEF WriteUserSessions
<1>2. /\ disk'.keys = disk.keys /\ disk'.used = disk.used /\ disk'.users = disk.users
      /\ \A t \in Tokens : disk'.sess[t] = IF snap.sess[t] \in Users THEN snap.sess[t]
                                           ELSE IF disk.sess[t] \in Users THEN None ELSE disk.sess[t]
  BY <1>1 DEF PutUserSessions, Image
<1>3. PICK r : LetsGo(p, "sessions", r)
  BY <1>1, WrittenLetsGo
<1>4. Present(snap) \subseteq Tokens
  BY <1>1 DEF DInv, GInv, Kind, Files
<1>5. \A t \in Tokens : disk'.sess[t] = snap.sess[t]
  <2> TAKE t \in Tokens
  <2>1. disk.sess[t] = Owner <=> snap.sess[t] = Owner
    BY <1>0 DEF DInv, GInv
  <2>2. disk.sess[t] \in People \cup {None} /\ snap.sess[t] \in People \cup {None}
    BY <1>1, ImageParts
  <2> QED
    BY <1>2, <2>1, <2>2
<1>6. /\ Present(disk') \cap Tokens = Present(snap)
      /\ Present(disk') \ Tokens = Present(disk) \ Tokens
  BY <1>1, <1>2, <1>4, <1>5, ImageParts DEF Present
<1>7. WInv'
  BY <1>2, <1>3, LetsGoWidens DEF DInv, Widened
<1>8. GInv'
  BY <1>1, <1>3, <1>6, WrittenLetsGo, LetsGoGone DEF DInv, Kind
<1>9. SInv'
  BY <1>2, <1>3, <1>5, LetsGoSaves DEF DInv, Same, Files
<1>10. UInv'
  BY <1>2, <1>3, LetsGoUses DEF DInv
<1> QED
  BY <1>7, <1>8, <1>9, <1>10 DEF DInv

LEMMA WriteFailsDisk ==
    ASSUME TInv, Locked, DInv, NEW p \in Procs, WriteFails(p)
    PROVE  DInv'
<1> DEFINE r == [req[p] EXCEPT !.at = "saved", !.snap = Blank, !.ok = FALSE]
           f == req[p].file
<1>1. req[p] \in Request /\ f \in Files /\ req[p].at \in Writing
  BY DEF TInv, TypeOK, Typed, WriteFails, Writing
<1>2. r.op = req[p].op /\ r.file = f /\ r.out = req[p].out /\ r.at = "saved" /\ r.snap = Blank
      /\ ~r.ok
  BY <1>1 DEF Request
<1>3. req' = [req EXCEPT ![p] = r]
  BY DEF WriteFails, Set
<1>4. unsaved'[f] /\ \A g \in Files : g # f => unsaved'[g] = unsaved[g]
  BY <1>1 DEF WriteFails, TInv, TypeOK
<1>5. UNCHANGED <<mem, disk, dirty, made, refused, expired, gone>>
  BY DEF WriteFails, store
<1> HIDE DEF r, f
<1>6. LetsGo(p, f, r)
  BY <1>1, <1>2, <1>3, <1>4, <1>5 DEF LetsGo, f
<1>7. WInv'
  BY <1>5, <1>6, LetsGoWidens DEF DInv
<1>8. GInv'
  BY <1>5, <1>6, LetsGoGone DEF DInv
<1>9. SInv'
  BY <1>4, <1>5, <1>6, LetsGoSaves DEF DInv, Same
<1>10. UInv'
  BY <1>2, <1>5, <1>6, LetsGoUses DEF DInv
<1> QED
  BY <1>7, <1>8, <1>9, <1>10 DEF DInv

\* The owner's sessions go to disk first; the file is still being saved.
LEMMA WriteOwnerSessionsDisk ==
    ASSUME TInv, Locked, DInv, NEW p \in Procs, WriteOwnerSessions(p)
    PROVE  DInv'
<1> DEFINE r == [req[p] EXCEPT !.at = "write users"]
           snap == req[p].snap
<1>1. /\ snap \in Image /\ disk \in Image /\ req[p].at \in Writing /\ req[p].file = "sessions"
      /\ disk' = PutOwnerSessions(snap, disk) /\ req[p] \in Request
  BY DEF TInv, TypeOK, Request, WriteOwnerSessions, Writing
<1>2. /\ disk'.keys = disk.keys /\ disk'.used = disk.used /\ disk'.users = disk.users
      /\ \A t \in Tokens : disk'.sess[t] = IF snap.sess[t] = Owner THEN Owner
                                           ELSE IF disk.sess[t] = Owner THEN None ELSE disk.sess[t]
  BY <1>1 DEF PutOwnerSessions, Image
<1>3. /\ r.op = req[p].op /\ r.file = "sessions" /\ r.out = req[p].out
      /\ r.at = "write users" /\ r.snap = snap
  BY <1>1 DEF Request
<1>4. req' = [req EXCEPT ![p] = r]
  BY DEF WriteOwnerSessions, Set
<1>5. UNCHANGED <<mem, dirty, made, refused, expired, gone, unsaved>>
  BY DEF WriteOwnerSessions, history
<1> HIDE DEF r
<1>6. req'[p] = r /\ \A q \in Procs : q # p => req'[q] = req[q]
  BY <1>4, CalmOthers
<1>7. \A q \in Procs : /\ req'[q].op = req[q].op /\ req'[q].file = req[q].file
                       /\ req'[q].out = req[q].out /\ req'[q].snap = req[q].snap
                       /\ req'[q].at \in Writing <=> req[q].at \in Writing
                       /\ q # p => req'[q].at = req[q].at
  BY <1>1, <1>3, <1>6 DEF Writing
<1>8. \A q \in Procs, g \in Files : /\ Waits(q, g)' <=> Waits(q, g)
                                    /\ Writes(q, g)' <=> Writes(q, g)
  BY <1>1, <1>3, <1>6 DEF Waits, Writes, Writing
<1>9. WInv'
  BY <1>2, <1>5, <1>7 DEF DInv, WInv, Widened
<1>10. GInv'
  <2>1. Present(disk') \subseteq Present(disk) \cup Present(snap)
    BY <1>2 DEF Present
  <2>2. Present(snap) \subseteq made \ gone /\ Present(disk) \subseteq made \ gone
    BY DEF DInv, GInv
  <2>3. /\ (Present(mem) \cup Present(disk) \cup gone \subseteq made)'
        /\ (gone \cap (Present(mem) \cup Present(disk)) = {})'
    BY <1>5, <2>1, <2>2 DEF DInv, GInv
  <2>4. ASSUME NEW q \in Procs
        PROVE  /\ req'[q].out \subseteq made' \ Present(mem')
               /\ Present(req'[q].snap) \subseteq made' \ (gone' \cup req'[q].out)
    BY <1>5, <1>7 DEF DInv, GInv
  <2>5. ASSUME NEW q \in Procs
        PROVE  /\ req'[q].at \notin Writing => req'[q].snap = Blank
               /\ req'[q].at \in Writing => Present(req'[q].snap) \subseteq Kind(req'[q].file)
    BY <1>7 DEF DInv, GInv
  <2>6. ASSUME NEW q \in Procs, req'[q].at \in Writing \cup {"save"}
        PROVE  req'[q].out \subseteq Kind(req'[q].file)
    <3>1. req[q].at \in Writing \cup {"save"}
      BY <1>1, <1>7, <2>6
    <3> QED
      BY <1>7, <3>1 DEF DInv, GInv
  <2>7. ASSUME NEW q \in Procs, req'[q].at = "write users", NEW t \in Tokens
        PROVE  disk'.sess[t] = Owner <=> req'[q].snap.sess[t] = Owner
    <3>1. q = p
      <4>1. SUFFICES ASSUME q # p PROVE FALSE
        OBVIOUS
      <4>2. req[q].at = "write users"
        BY <1>7, <2>7, <4>1
      <4>3. Writes(q, "sessions")
        BY <4>2 DEF Writes, Writing, TInv, Typed
      <4> QED
        BY <1>1, <4>1, <4>3, OneWriter
    <3> QED
      BY <1>2, <1>7, <3>1
  <2> QED
    BY <2>3, <2>4, <2>5, <2>6, <2>7 DEF GInv
<1>11. SInv'
  <2> SUFFICES ASSUME NEW g \in Files
               PROVE  /\ \/ Agree(g, mem, disk)' \/ unsaved'[g]
                         \/ \E q \in Procs : Waits(q, g)' \/ Writes(q, g)'
                      /\ \A q \in Procs : Writes(q, g)' =>
                           Agree(g, mem, req[q].snap)' \/ \E o \in Procs : Waits(o, g)'
    BY DEF SInv
  <2>1. \A q \in Procs : Agree(g, mem, req[q].snap) => Agree(g, mem, req[q].snap)'
    BY <1>5, <1>7, AgreeIsSame, AgreeIsSameNext
  <2>2. \A q \in Procs : Writes(q, g)' =>
          Agree(g, mem, req[q].snap)' \/ \E o \in Procs : Waits(o, g)'
    BY <1>8, <2>1 DEF DInv, SInv
  <2>3. CASE g = "sessions"
    <3>1. Writes(p, g)'
      BY <1>3, <1>6, <2>3 DEF Writes, Writing
    <3> QED
      BY <2>2, <3>1
  <2>4. CASE g # "sessions"
    <3>1. Agree(g, mem, disk) => Agree(g, mem, disk)'
      BY <1>2, <1>5, <2>4 DEF Agree, Files
    <3> QED
      BY <1>5, <1>8, <2>2, <3>1 DEF DInv, SInv
  <2> QED
    BY <2>3, <2>4
<1>12. UInv'
  <2>1. ToFlush => ToFlush'
    BY <1>1, <1>3, <1>5, <1>6 DEF ToFlush, Waits, Writing
  <2>2. \A q \in Procs : Writes(q, "keys")' <=> Writes(q, "keys")
    BY <1>8 DEF Files
  <2> QED
    BY <1>2, <1>5, <1>7, <2>1, <2>2 DEF DInv, UInv
<1> QED
  BY <1>9, <1>10, <1>11, <1>12 DEF DInv

\* Whoever is answered leaves nothing behind: it is no flush that failed.
LEMMA AnsweredCalm ==
    ASSUME TInv, TInv', UInv, NEW p \in Procs, Answered(p)
    PROVE  Calm(p, Idle)
<1>1. UNCHANGED <<mem, disk, dirty, saveMu, made, refused, expired, gone, unsaved>>
  BY DEF Answered, store, history
<1>2. req[p].at = "saved" /\ Ends(p) /\ req[p].op # "flush"
  BY DEF Answered, UInv
<1>3. Frame(p, Idle)
  BY <1>1, <1>2, EndsFrame DEF Around, Writing
<1>4. UsesMarked(p, Idle)
  BY <1>1, <1>2, NoFlush DEF TInv, TypeOK
<1> QED
  BY <1>1, <1>3, <1>4, Shapes, CalmKeys

LEMMA CalmStep ==
    ASSUME TInv, DInv, NEW p \in Procs, NEW r, Calm(p, r)
    PROVE  DInv'
BY CalmWidens, CalmGone, CalmSaves, CalmUses DEF DInv

LEMMA DiskStep == TInv /\ KInv /\ DInv /\ [Next]_vars => DInv'
<1> SUFFICES ASSUME TInv, KInv, DInv, [Next]_vars PROVE DInv'
  OBVIOUS
<1>1. TInv' /\ Locked
  BY TypeStep DEF KInv
<1>2. ASSUME NEW p \in Procs, SaveStep(p) PROVE DInv'
  <2>1. CASE Answered(p)
    BY <1>1, <2>1, AnsweredCalm, CalmStep DEF DInv
  <2> QED
    BY <1>1, <1>2, <2>1, TakeSaveMuDisk, WriteKeysDisk, WriteUsersDisk, WriteOwnerSessionsDisk,
       WriteUserSessionsDisk, WriteFailsDisk DEF SaveStep
<1>3. ASSUME NEW p \in Procs, \/ KeyStep(p) \/ KeyCreated(p) \/ Flush(p) \/ FlushEnds(p)
                              \/ SessionStep(p) \/ Gc(p) \/ UserStep(p)
      PROVE  DInv'
  BY <1>1, <1>3, KeysCalm, SessionsCalm, UsersCalm, CalmStep
<1>4. ASSUME NEW k \in Keys, UseKey(k) PROVE DInv'
  BY <1>4, UseKeyStep
<1>5. ASSUME NEW t \in Tokens, Expire(t) \/ LookupExpired(t) PROVE DInv'
  BY <1>5, ExpiryStep
<1>6. CASE Restart
  BY <1>1, <1>6, RestartDisk
<1>7. CASE UNCHANGED vars
  BY <1>7, StillStep
<1> QED
  BY <1>2, <1>3, <1>4, <1>5, <1>6, <1>7 DEF Next

LEMMA DiskInvariant == Spec => [](TInv /\ DInv)
<1>1. Init => TInv /\ KInv /\ DInv
  BY TypeInitially, KeysInitially, DiskInitially
<1>2. TInv /\ KInv /\ DInv /\ [Next]_vars => (TInv /\ KInv /\ DInv)'
  BY TypeStep, KeysStep, DiskStep
<1> QED
  BY <1>1, <1>2, PTL DEF Spec

---------------------------------------------------------------------------
\* A user who may see every server was given them by the owner: a server that
\* is removed, a user list changed meanwhile, a write that fails and a restart
\* leave nobody with an empty list that would show them everything.
THEOREM NobodyWidened == Spec => []NeverQuietlyWidened
<1>1. TInv /\ DInv => NeverQuietlyWidened
  BY DEF TInv, DInv, WInv, Widened, NeverQuietlyWidened, TypeOK
<1> QED
  BY <1>1, DiskInvariant, PTL

\* What was removed, and whose removal was saved, is in memory and on disk no
\* more: no save that took its snapshot before, no file half of two, and no
\* restart brings it back.
THEOREM GoneForGood == Spec => []GoneStaysGone
<1>1. DInv => GoneStaysGone
  BY DEF DInv, GInv, GoneStaysGone
<1> QED
  BY <1>1, DiskInvariant, PTL

\* Everything the owner changed is on disk, or about to be, or its write failed
\* last; every recorded use of a key is on disk or will be flushed.
THEOREM ChangesReachDisk == Spec => []ReachesDisk
<1>1. ASSUME TInv, DInv PROVE SavedOrOnItsWay
  <2> SUFFICES ASSUME NEW f \in Files, ~Agree(f, mem, disk), ~unsaved[f]
               PROVE  \E p \in Procs : WillSave(p, f)
    BY DEF SavedOrOnItsWay
  <2>1. CASE \E p \in Procs : Waits(p, f)
    BY <2>1 DEF Waits, WillSave
  <2>2. CASE ~\E p \in Procs : Waits(p, f)
    <3>1. PICK p \in Procs : Writes(p, f)
      BY <1>1, <2>2 DEF DInv, SInv
    <3>2. Agree(f, mem, req[p].snap)
      BY <1>1, <2>2, <3>1 DEF DInv, SInv
    <3> QED
      BY <3>1, <3>2 DEF Writes, Writing, WillSave
  <2> QED
    BY <2>1, <2>2
<1>2. ASSUME TInv, DInv PROVE UsageReachesDisk
  <2> SUFFICES ASSUME NEW k \in Keys, mem.used[k] # disk.used[k], ~dirty
               PROVE  \E p \in Procs :
                        /\ req[p].file = "keys"
                        /\ \/ req[p].at = "save"
                           \/ req[p].at = "write" /\ req[p].snap.used[k] = mem.used[k]
                           \/ req[p].at = "saved" /\ req[p].op = "flush" /\ ~req[p].ok
    <3>1. mem.keys \subseteq Keys
      BY <1>2, ImageParts DEF TInv, TypeOK
    <3> QED
      BY <3>1 DEF UsageReachesDisk
  <2>1. CASE ToFlush
    BY <1>2, <2>1 DEF ToFlush, Waits, DInv, UInv
  <2>2. CASE ~ToFlush
    <3>1. PICK p \in Procs : Writes(p, "keys")
      BY <1>2, <2>2 DEF DInv, UInv
    <3>2. req[p].snap.used[k] = mem.used[k]
      BY <1>2, <2>2, <3>1 DEF DInv, UInv
    <3>3. req[p].at = "write" /\ req[p].file = "keys"
      BY <1>2, <3>1 DEF Writes, Writing, TInv, Typed
    <3> QED
      BY <3>2, <3>3
  <2> QED
    BY <2>1, <2>2
<1>3. TInv /\ DInv => ReachesDisk
  BY <1>1, <1>2 DEF ReachesDisk
<1> QED
  BY <1>3, DiskInvariant, PTL
=============================================================================
