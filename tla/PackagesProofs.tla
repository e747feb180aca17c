--------------------------- MODULE PackagesProofs ---------------------------
(***************************************************************************)
(* What the packages that stand alone promise, proved for any number of    *)
(* commands, packets, mods, rules, days and lines; their types come last.  *)
(*                                                                         *)
(* RconClient: the client knows where a reply ends only by the echo of a   *)
(* sentinel, and knows an echo only by its number.  The invariant follows  *)
(* the stream of packets, those read and those still to be read, and says  *)
(* that the echo that will end the reading comes behind the whole answer.  *)
(*                                                                         *)
(* LoadOrder: what is placed holds every predecessor of it, so a rule is   *)
(* kept when the later mod is placed, and what is stuck is a loop's.       *)
(*                                                                         *)
(* Cron: the search leaves out no instant but those that read like one     *)
(* that does not fit, also when the change of clocks takes it back.        *)
(*                                                                         *)
(* Tailer: what a poll does not pass over has not been returned, and what  *)
(* it passes over is no longer owed.                                       *)
(***************************************************************************)
EXTENDS MCPackages, FiniteSetTheorems, WellFoundedInduction, TLAPS

---------------------------------------------------------------------------
(***************************************************************************)
(* RconClient: what is on its way between the client and the game.         *)
(***************************************************************************)

Echo(i) == [kind |-> "echo", id |-> i]
Denial(i) == [kind |-> "denied", id |-> i]
Chunk(i, n, k) == [kind |-> "part", id |-> i, k |-> k, of |-> n]

\* What has come or is to come on the connection in use, in order: what Exec
\* has read for its command, and what it has still to read.
Length == Len(body) + Len(in)
Packet(m) == IF m <= Len(body) THEN body[m] ELSE in[m - Len(body)]

\* The packets up to m end with a whole reply to i, or, still to be read, with
\* its denial.
Replied(m, i) ==
    /\ m \in 1..Length
    /\ \/ m > Len(body) /\ Packet(m) = Denial(i)
       \/ \E n \in 1..MaxParts : n <= m /\ \A k \in 1..n : Packet(m - n + k) = Chunk(i, n, k)

\* The command being read for waits for the game, is answered while its
\* sentinel waits, or is through: its echo comes behind its answer.
Waiting == /\ Len(out[conn]) > 1
           /\ out[conn][Len(out[conn]) - 1] = Exec(id) /\ out[conn][Len(out[conn])] = Sentinel(id)
           /\ \A m \in 1..(Len(out[conn]) - 2) : out[conn][m].id < id
           /\ \A m \in 1..Length : Packet(m).id < id
Answered == /\ out[conn] = <<Sentinel(id)>> /\ Replied(Length, id)
            /\ \A m \in 1..Length : Packet(m) # Echo(id)
Through == /\ out[conn] = << >>
           /\ \A m \in 1..Length : Packet(m) = Echo(id) => Replied(m - 1, id)

ReadFits == step = "read" => Waiting \/ Answered \/ Through

\* Of no number there is more than has been given out; what is not in use is
\* empty.
Turn == 2 * (call - 1) + try
NumbersFit ==
    /\ step = "idle" => dialled <= 2 * call /\ id <= 2 * call
    /\ step = "connect" => dialled < Turn /\ id < Turn /\ call > 0
    /\ step = "send" => dialled <= Turn /\ id < Turn /\ call > 0 /\ conn # 0
    /\ step = "read" => dialled <= Turn /\ id <= Turn /\ call > 0 /\ conn # 0
    /\ conn <= dialled /\ (conn = 0 => in = << >>)
    /\ step # "read" => body = << >>
    /\ \A c \in Attempts : c > dialled \/ c \in hung => out[c] = << >>
    /\ \A c \in Attempts : \A m \in DOMAIN out[c] : out[c][m].id <= id
    /\ \A m \in DOMAIN in : in[m].id <= id

\* A connection dialled for a command carries nothing else, and a retry has
\* one of its own.
FreshFits ==
    /\ try = MaxTries => (step = "connect" => conn = 0) /\ (step \in {"send", "read"} => fresh)
    /\ step = "send" /\ fresh => in = << >> /\ out[conn] = << >>
    /\ step = "read" /\ fresh =>
          /\ \A m \in DOMAIN out[conn] : out[conn][m].id = id
          /\ \A m \in DOMAIN in : in[m].id = id
          /\ \A m \in DOMAIN body : OwnPart(body[m], id)

\* The attempts at a command that the game has still to take up.
Pending(n) ==
    {i \in Attempts : \E c \in Attempts : \E m \in DOMAIN out[c] :
                        out[c][m] = [kind |-> "exec", id |-> i, call |-> n]}

\* How often a command has been sent, at most.
SentOf(n) == IF n < call THEN MaxTries ELSE IF n > call THEN 0
             ELSE IF step \in {"connect", "send"} THEN try - 1 ELSE try

RunsFit ==
    /\ \A n \in Calls : ran[n] + Cardinality(Pending(n)) <= SentOf(n)
    /\ \A c, d \in Attempts : \A m \in DOMAIN out[c], k \in DOMAIN out[d] :
          out[c][m].kind = "exec" /\ out[d][k].kind = "exec" /\ out[c][m].id = out[d][k].id =>
              c = d /\ m = k

AnswerFits ==
    /\ step # "idle" => answer.result # "ok"
    /\ EchoMeansComplete /\ FreshAnswerIsOwn

RconInv == TypeOK /\ ReadFits /\ NumbersFit /\ FreshFits /\ RunsFit /\ AnswerFits

\* Nothing but the numbers that the constants stand for.
LEMMA Numbers ==
    /\ MaxCalls \in Nat \ {0} /\ MaxParts \in Nat \ {0} /\ MaxTries = 2
    /\ Calls = 1..MaxCalls /\ Attempts = 1..2 * MaxCalls
    /\ 2 * MaxCalls \in Nat
BY RconAssumption DEF Calls, Attempts, MaxTries

LEMMA PendingFinite ==
    ASSUME NEW n
    PROVE  IsFiniteSet(Pending(n)) /\ Cardinality(Pending(n)) \in Nat
<1>1. IsFiniteSet(Attempts)
  BY Numbers, FS_Interval
<1>2. Pending(n) \subseteq Attempts
  BY DEF Pending
<1> QED
  BY <1>1, <1>2, FS_Subset, FS_CardinalityType

\* The attempt under way has a number of its own.
LEMMA TurnFits ==
    ASSUME TypeOK, call > 0
    PROVE  /\ Turn \in 1..2 * MaxCalls /\ Turn <= 2 * call
           /\ try = 1 => Turn = 2 * call - 1
           /\ try = 2 => Turn = 2 * call
BY Numbers DEF TypeOK, Turn

\* A set of waiting commands never counts more by losing some.
LEMMA FewerWait ==
    ASSUME NEW S, NEW T, IsFiniteSet(S), T \subseteq S
    PROVE  /\ Cardinality(T) \in Nat /\ Cardinality(S) \in Nat
           /\ Cardinality(T) <= Cardinality(S)
           /\ \A x \in S : x \notin T => Cardinality(T) + 1 <= Cardinality(S)
<1>1. IsFiniteSet(T) /\ Cardinality(T) <= Cardinality(S)
  BY FS_Subset
<1>2. Cardinality(T) \in Nat /\ Cardinality(S) \in Nat
  BY <1>1, FS_CardinalityType
<1>3. ASSUME NEW x \in S, x \notin T
      PROVE  Cardinality(T) + 1 <= Cardinality(S)
  <2>1. IsFiniteSet(S \ {x}) /\ Cardinality(S \ {x}) = Cardinality(S) - 1
    BY FS_RemoveElement
  <2>2. Cardinality(T) <= Cardinality(S \ {x})
    BY <1>3, <2>1, FS_Subset
  <2> QED
    BY <1>2, <2>1, <2>2
<1> QED
  BY <1>1, <1>2, <1>3

\* What is known of a packet by its kind.
LEMMA PacketKinds ==
    ASSUME NEW p \in Replies
    PROVE  /\ p.kind \in {"part", "echo", "denied"} /\ p.id \in Attempts
           /\ p.kind = "echo" => p = Echo(p.id)
           /\ p.kind = "denied" => p = Denial(p.id)
           /\ p.kind = "part" => OwnPart(p, p.id)
BY DEF Replies, Part, Other, Echo, Denial, OwnPart

LEMMA QueuedKinds ==
    ASSUME NEW p \in Sent
    PROVE  /\ p.kind \in {"exec", "sentinel"} /\ p.id \in Attempts /\ p.call \in Calls
           /\ p = [kind |-> p.kind, id |-> p.id, call |-> p.call]
BY DEF Sent

LEMMA Kinds ==
    \A i, n, k, j :
       /\ Echo(i).kind = "echo" /\ Echo(i).id = i
       /\ Denial(i).kind = "denied" /\ Denial(i).id = i
       /\ Chunk(i, n, k).kind = "part" /\ Chunk(i, n, k).id = i
       /\ Exec(i).kind = "exec" /\ Exec(i).id = i /\ Exec(i).call = call
       /\ Sentinel(i).kind = "sentinel" /\ Sentinel(i).id = i /\ Sentinel(i).call = call
       /\ Chunk(i, n, k) # Echo(j) /\ Denial(i) # Echo(j)
BY DEF Echo, Denial, Chunk, Exec, Sentinel

LEMMA PacketTypes ==
    /\ \A i \in Attempts : Echo(i) \in Replies /\ Denial(i) \in Replies
    /\ \A i \in Attempts, n \in 1..MaxParts : \A k \in 1..n : Chunk(i, n, k) \in Replies
    /\ \A i \in Attempts : call \in Calls => Exec(i) \in Sent /\ Sentinel(i) \in Sent
BY Numbers DEF Replies, Part, Other, Sent, Echo, Denial, Chunk, Exec, Sentinel

\* Sequences, one at a time.
LEMMA TailIs ==
    ASSUME NEW S, NEW s \in Seq(S), s # << >>
    PROVE  /\ Head(s) = s[1] /\ Head(s) \in S /\ Tail(s) \in Seq(S)
           /\ Len(s) \in Nat \ {0} /\ Len(Tail(s)) = Len(s) - 1
           /\ DOMAIN s = 1..Len(s) /\ DOMAIN Tail(s) = 1..(Len(s) - 1)
           /\ \A m \in 1..(Len(s) - 1) : Tail(s)[m] = s[m + 1]
OBVIOUS

LEMMA AppendIs ==
    ASSUME NEW S, NEW s \in Seq(S), NEW x \in S
    PROVE  /\ Append(s, x) \in Seq(S) /\ Len(Append(s, x)) = Len(s) + 1
           /\ DOMAIN Append(s, x) = 1..(Len(s) + 1) /\ Len(s) \in Nat
           /\ \A m \in 1..Len(s) : Append(s, x)[m] = s[m]
           /\ Append(s, x)[Len(s) + 1] = x
OBVIOUS

LEMMA JoinIs ==
    ASSUME NEW S, NEW s \in Seq(S), NEW t \in Seq(S)
    PROVE  /\ s \o t \in Seq(S) /\ Len(s \o t) = Len(s) + Len(t)
           /\ Len(s) \in Nat /\ Len(t) \in Nat
           /\ DOMAIN (s \o t) = 1..(Len(s) + Len(t))
           /\ \A m \in 1..Len(s) : (s \o t)[m] = s[m]
           /\ \A m \in 1..Len(t) : (s \o t)[Len(s) + m] = t[m]
           /\ \A m \in (Len(s) + 1)..(Len(s) + Len(t)) : (s \o t)[m] = t[m - Len(s)]
OBVIOUS

LEMMA SeqIs ==
    ASSUME NEW S, NEW s \in Seq(S)
    PROVE  /\ Len(s) \in Nat /\ DOMAIN s = 1..Len(s)
           /\ \A m \in 1..Len(s) : s[m] \in S
           /\ s = << >> <=> Len(s) = 0
OBVIOUS

LEMMA PairIs ==
    ASSUME NEW S, NEW x \in S, NEW y \in S
    PROVE  /\ <<x, y>> \in Seq(S) /\ Len(<<x, y>>) = 2 /\ <<x, y>>[1] = x /\ <<x, y>>[2] = y
           /\ <<x>> \in Seq(S) /\ Len(<<x>>) = 1 /\ <<x>>[1] = x
           /\ << >> \in Seq(S) /\ Len(<< >>) = 0
OBVIOUS

LEMMA ReplyIs ==
    ASSUME NEW i \in Attempts, NEW n \in 1..MaxParts
    PROVE  /\ Reply(i, n) \in Seq(Replies) /\ Len(Reply(i, n)) = n
           /\ \A k \in 1..n : Reply(i, n)[k] = Chunk(i, n, k)
<1>1. \A k \in 1..n : Reply(i, n)[k] = Chunk(i, n, k) /\ Chunk(i, n, k) \in Replies
  BY PacketTypes DEF Reply, Chunk
<1>2. Reply(i, n) = [k \in 1..n |-> Chunk(i, n, k)]
  BY DEF Reply, Chunk
<1> HIDE DEF Reply
<1>3. n \in Nat
  BY Numbers
<1> QED
  BY <1>1, <1>2, <1>3

\* The types of the numbers, spelt out.
LEMMA TypedNumbers ==
    ASSUME TypeOK
    PROVE  /\ conn \in 0..2 * MaxCalls /\ dialled \in 0..2 * MaxCalls /\ id \in 0..2 * MaxCalls
           /\ conn \in Int /\ dialled \in Int /\ id \in Int
           /\ call \in 0..MaxCalls /\ call \in Nat /\ try \in {1, 2}
           /\ Turn \in Int /\ Turn = 2 * (call - 1) + try
           /\ \A n \in Calls : n \in Nat /\ n \in 1..MaxCalls
           /\ \A n \in Calls : ran[n] \in Nat /\ SentOf(n) \in {0, 1, 2}
           /\ body \in Seq(Replies) /\ in \in Seq(Replies)
           /\ \A c \in Attempts : out[c] \in Seq(Sent)
<1>1. try \in {1, 2}
  BY Numbers DEF TypeOK
<1>2. call \in 0..MaxCalls /\ call \in Nat
  BY Numbers DEF TypeOK
<1>3. \A n \in Calls : n \in Nat /\ n \in 1..MaxCalls
  BY Numbers
<1>4. \A n \in Calls : SentOf(n) \in {0, 1, 2}
  BY <1>1, <1>2, <1>3, Numbers DEF SentOf
<1>5. \A n \in Calls : ran[n] \in Nat
  <2>1. \A n \in Calls : ran[n] \in 0..MaxTries
    BY DEF TypeOK
  <2> QED
    BY <2>1, Numbers
<1> QED
  BY <1>1, <1>2, <1>3, <1>4, <1>5, Numbers DEF TypeOK, Turn

---------------------------------------------------------------------------
(***************************************************************************)
(* What several steps do.                                                  *)
(***************************************************************************)

\* Queues and counts that stay need only be compared with what has been sent.
LEMMA RunsKept ==
    ASSUME TypeOK, TypeOK', RunsFit, out' = out, ran' = ran,
           \A n \in Calls : SentOf(n) <= SentOf(n)'
    PROVE  RunsFit'
<1>1. \A n : Pending(n)' = Pending(n)
  BY DEF Pending
<1>2. ASSUME NEW n \in Calls
      PROVE  ran'[n] + Cardinality(Pending(n)') <= SentOf(n)'
  <2>1. Cardinality(Pending(n)) \in Nat /\ ran[n] \in Nat
    BY PendingFinite, TypedNumbers
  <2>2. SentOf(n) \in Nat /\ SentOf(n)' \in Nat
    <3>1. SentOf(n) \in {0, 1, 2}
      BY TypedNumbers
    <3>2. SentOf(n)' \in {0, 1, 2}
      BY Numbers DEF TypeOK, SentOf
    <3> QED
      BY <3>1, <3>2, SMTT(20)
  <2>3. ran[n] + Cardinality(Pending(n)) <= SentOf(n) /\ SentOf(n) <= SentOf(n)'
    BY DEF RunsFit
  <2> QED
    BY <1>1, <2>1, <2>2, <2>3
<1>3. RunsFit!2'
  BY DEF RunsFit
<1> QED
  BY <1>2, <1>3 DEF RunsFit

\* Exec has returned.
LEMMA ExecEnds ==
    ASSUME RconInv, step # "idle", step' = "idle", body' = << >>,
           in' = in \/ (in # << >> /\ in' = Tail(in)),
           UNCHANGED <<conn, dialled, call, try, id, fresh, echoes, out, hung, streams, ran>>,
           answer' \in [result : Results, body : Seq(Replies), echoed : BOOLEAN,
                        id : Attempts \cup {0}, fresh : BOOLEAN],
           AnswerFits'
    PROVE  RconInv'
<1> USE DEF RconInv
<1>1. in' \in Seq(Replies) /\ \A m \in DOMAIN in' : \E k \in DOMAIN in : in'[m] = in[k]
  <2>1. CASE in' = in
    BY <2>1 DEF TypeOK
  <2>2. CASE in # << >> /\ in' = Tail(in)
    <3>1. in \in Seq(Replies)
      BY DEF TypeOK
    <3> QED
      BY <2>2, <3>1, TailIs
  <2> QED
    BY <2>1, <2>2
<1>2. TypeOK'
  <2>1. body' \in Seq(Replies)
    BY PairIs DEF TypeOK
  <2> QED
    BY <1>1, <2>1 DEF TypeOK
<1>3. ReadFits'
  BY DEF ReadFits
<1>4. NumbersFit'
  <2>1. dialled <= 2 * call /\ id <= 2 * call
    <3>1. dialled <= Turn /\ id <= Turn
      BY TypedNumbers DEF NumbersFit, TypeOK
    <3> QED
      BY <3>1, TypedNumbers
  <2>2. conn' = 0 => in' = << >>
    BY DEF NumbersFit
  <2>3. \A m \in DOMAIN in' : in'[m].id <= id'
    BY <1>1 DEF NumbersFit
  <2> QED
    BY <2>1, <2>2, <2>3 DEF NumbersFit
<1>5. FreshFits'
  BY DEF FreshFits
<1>6. RunsFit'
  <2>1. \A n \in Calls : SentOf(n) <= SentOf(n)'
    BY Numbers DEF SentOf, TypeOK
  <2> QED
    BY <1>2, <2>1, RunsKept
<1> QED
  BY <1>2, <1>3, <1>4, <1>5, <1>6

LEMMA ExecReturnsError ==
    ASSUME RconInv, step # "idle", NEW result \in {"error", "auth"},
           Returns(result, FALSE), UNCHANGED conn
    PROVE  RconInv'
<1> USE DEF RconInv
<1>1. answer' \in [result : Results, body : Seq(Replies), echoed : BOOLEAN,
                   id : Attempts \cup {0}, fresh : BOOLEAN]
  <2>1. << >> \in Seq(Replies) /\ result \in Results
    BY PairIs DEF Results
  <2> QED
    BY <2>1 DEF TypeOK, Returns
<1>2. AnswerFits'
  BY DEF AnswerFits, EchoMeansComplete, FreshAnswerIsOwn, Returns
<1> QED
  BY <1>1, <1>2, ExecEnds, SMTT(30) DEF Returns, server

\* The connection is dropped and the command goes on to its second attempt.
LEMMA ExecRetries ==
    ASSUME RconInv, step # "idle", Error
    PROVE  RconInv'
<1>1. CASE ~(try < MaxTries)
  BY <1>1, ExecReturnsError DEF Error
<1>2. CASE try < MaxTries
  <2> USE DEF RconInv
  <2>1. /\ try = 1 /\ try' = 2 /\ step' = "connect" /\ body' = << >> /\ conn' = 0 /\ in' = << >>
        /\ UNCHANGED <<dialled, call, id, fresh, answer, echoes, out, hung, streams, ran>>
    BY <1>2, Numbers DEF Error, Drop, TypeOK
  <2>2. TypeOK'
    <3>1. << >> \in Seq(Replies)
      BY PairIs
    <3> QED
      BY <2>1, <3>1, Numbers DEF TypeOK
  <2>3. ReadFits'
    BY <2>1 DEF ReadFits
  <2>4. NumbersFit'
    <3>1. call > 0 /\ dialled <= Turn /\ id <= Turn
      BY TypedNumbers DEF NumbersFit, TypeOK
    <3>2. Turn' = Turn + 1 /\ Turn \in Int
      BY <2>1, TypedNumbers DEF Turn
    <3>3. dialled' < Turn' /\ id' < Turn'
      BY <2>1, <3>1, <3>2, TypedNumbers
    <3>4. conn' <= dialled' /\ DOMAIN in' = {}
      BY <2>1, TypedNumbers
    <3> QED
      BY <2>1, <3>1, <3>3, <3>4 DEF NumbersFit
  <2>5. FreshFits'
    BY <2>1 DEF FreshFits
  <2>6. RunsFit'
    <3>1. \A n \in Calls : SentOf(n) <= SentOf(n)'
      BY <2>1, Numbers DEF SentOf, TypeOK
    <3> QED
      BY <2>1, <2>2, <3>1, RunsKept
  <2>7. AnswerFits'
    BY <2>1 DEF AnswerFits, EchoMeansComplete, FreshAnswerIsOwn
  <2> QED
    BY <2>2, <2>3, <2>4, <2>5, <2>6, <2>7
<1> QED
  BY <1>1, <1>2

\* An answer that ends where a deadline or the end of the connection cut it.
LEMMA ExecReturnsBody ==
    ASSUME RconInv, step = "read", Returns("ok", FALSE), UNCHANGED conn
    PROVE  RconInv'
<1> USE DEF RconInv
<1>1. answer' = [result |-> "ok", echoed |-> FALSE, id |-> id, body |-> body, fresh |-> fresh]
  BY DEF Returns
<1>2. answer' \in [result : Results, body : Seq(Replies), echoed : BOOLEAN,
                   id : Attempts \cup {0}, fresh : BOOLEAN]
  BY <1>1 DEF TypeOK, Results
<1>3. FreshAnswerIsOwn'
  <2>1. try' = try /\ step' = "idle"
    BY DEF Returns
  <2>2. fresh \/ try = MaxTries => fresh
    BY DEF FreshFits
  <2>3. fresh => \A m \in DOMAIN body : OwnPart(body[m], id)
    BY DEF FreshFits
  <2> QED
    BY <1>1, <2>1, <2>2, <2>3 DEF FreshAnswerIsOwn
<1>4. AnswerFits'
  BY <1>1, <1>3 DEF AnswerFits, EchoMeansComplete, Returns
<1> QED
  BY <1>2, <1>4, ExecEnds, SMTT(30) DEF Returns, server

---------------------------------------------------------------------------
(***************************************************************************)
(* One lemma for each step.                                                *)
(***************************************************************************)

LEMMA TimesOutKeeps == ASSUME RconInv, TimesOut PROVE RconInv'
BY ExecReturnsBody, ExecRetries DEF TimesOut

LEMMA ReadsEOFKeeps == ASSUME RconInv, ReadsEOF PROVE RconInv'
BY ExecReturnsBody, ExecRetries DEF ReadsEOF

LEMMA ExecBeginsKeeps == ASSUME RconInv, ExecBegins PROVE RconInv'
<1> USE DEF RconInv
<1>1. /\ step = "idle" /\ call < MaxCalls /\ call' = call + 1 /\ try' = 1 /\ step' = "connect"
      /\ answer' = NoAnswer
      /\ UNCHANGED <<conn, dialled, id, fresh, body, echoes, out, in, hung, streams, ran>>
  BY DEF ExecBegins, server
<1>2. TypeOK'
  <2>1. answer' \in [result : Results, body : Seq(Replies), echoed : BOOLEAN,
                     id : Attempts \cup {0}, fresh : BOOLEAN]
    BY <1>1, PairIs DEF NoAnswer, Results
  <2>2. call' \in Calls \cup {0} /\ try' \in 1..MaxTries
    BY <1>1, TypedNumbers, Numbers
  <2> QED
    BY <1>1, <2>1, <2>2 DEF TypeOK
<1>3. ReadFits'
  BY <1>1 DEF ReadFits
<1>4. NumbersFit'
  <2>1. dialled <= 2 * call /\ id <= 2 * call
    BY <1>1 DEF NumbersFit
  <2>2. Turn' = 2 * call + 1
    BY <1>1, TypedNumbers DEF Turn
  <2>3. dialled' < Turn' /\ id' < Turn' /\ call' > 0
    BY <1>1, <2>1, <2>2, TypedNumbers
  <2> QED
    BY <1>1, <2>3 DEF NumbersFit
<1>5. FreshFits'
  BY <1>1, Numbers DEF FreshFits
<1>6. RunsFit'
  <2>1. \A n \in Calls : SentOf(n) <= SentOf(n)'
    <3> SUFFICES ASSUME NEW n \in Calls PROVE SentOf(n) <= SentOf(n)'
      OBVIOUS
    <3>1. n \in Nat /\ call \in Nat /\ try \in {1, 2} /\ SentOf(n) \in {0, 1, 2}
      BY TypedNumbers
    <3>2. CASE n <= call
      <4>1. SentOf(n)' = 2
        BY <1>1, <3>1, <3>2, Numbers DEF SentOf
      <4> QED
        BY <3>1, <4>1
    <3>3. CASE n > call
      <4>1. SentOf(n) = 0
        BY <3>1, <3>3 DEF SentOf
      <4>2. SentOf(n)' = 0
        BY <1>1, <3>1, <3>3 DEF SentOf
      <4> QED
        BY <4>1, <4>2
    <3> QED
      BY <3>1, <3>2, <3>3
  <2> QED
    BY <1>1, <1>2, <2>1, RunsKept
<1>7. AnswerFits'
  BY <1>1 DEF AnswerFits, EchoMeansComplete, FreshAnswerIsOwn, NoAnswer
<1> QED
  BY <1>2, <1>3, <1>4, <1>5, <1>6, <1>7

LEMMA CloseKeeps == ASSUME RconInv, Close PROVE RconInv'
<1> USE DEF RconInv
<1>1. /\ step = "idle" /\ conn' = 0 /\ in' = << >>
      /\ UNCHANGED <<dialled, step, call, try, id, fresh, body, answer, echoes, out, hung, streams, ran>>
  BY DEF Close, Drop
<1>2. TypeOK'
  BY <1>1, PairIs DEF TypeOK
<1>3. ReadFits'
  BY <1>1 DEF ReadFits
<1>4. NumbersFit'
  <2>1. conn' <= dialled' /\ DOMAIN in' = {}
    BY <1>1, TypedNumbers
  <2>2. Turn' = Turn
    BY <1>1 DEF Turn
  <2> QED
    BY <1>1, <2>1, <2>2 DEF NumbersFit
<1>5. FreshFits'
  BY <1>1 DEF FreshFits
<1>6. RunsFit'
  <2>1. \A n \in Calls : SentOf(n)' = SentOf(n)
    BY <1>1 DEF SentOf
  <2>2. \A n \in Calls : SentOf(n) <= SentOf(n)'
    BY <2>1, TypedNumbers
  <2> QED
    BY <1>1, <1>2, <2>2, RunsKept
<1>7. AnswerFits'
  BY <1>1 DEF AnswerFits, EchoMeansComplete, FreshAnswerIsOwn
<1> QED
  BY <1>2, <1>3, <1>4, <1>5, <1>6, <1>7

\* The pooled connection serves again.
LEMMA Pooled ==
    ASSUME RconInv, step = "connect", conn # 0, step' = "send", fresh' = FALSE,
           UNCHANGED <<conn, dialled, call, try, id, body, answer, echoes, out, in, hung, streams, ran>>
    PROVE  RconInv'
<1> USE DEF RconInv
<1>2. TypeOK'
  BY DEF TypeOK
<1>3. ReadFits'
  BY DEF ReadFits
<1>4. NumbersFit'
  <2>1. Turn' = Turn
    BY DEF Turn
  <2>2. dialled' <= Turn' /\ id' < Turn' /\ call' > 0 /\ conn' # 0
    BY <2>1, TypedNumbers DEF NumbersFit
  <2> QED
    BY <2>1, <2>2 DEF NumbersFit
<1>5. FreshFits'
  BY DEF FreshFits
<1>6. RunsFit'
  <2>1. \A n \in Calls : SentOf(n)' = SentOf(n)
    BY DEF SentOf
  <2>2. \A n \in Calls : SentOf(n) <= SentOf(n)'
    BY <2>1, TypedNumbers
  <2> QED
    BY <1>2, <2>2, RunsKept
<1>7. AnswerFits'
  BY DEF AnswerFits, EchoMeansComplete, FreshAnswerIsOwn
<1> QED
  BY <1>2, <1>3, <1>4, <1>5, <1>6, <1>7

\* A new connection is dialled, and nothing is on it.
LEMMA Dialled ==
    ASSUME RconInv, step = "connect", conn = 0, dialled' = dialled + 1, conn' = dialled',
           step' = "send", fresh' = TRUE,
           UNCHANGED <<call, try, id, body, answer, echoes, out, in, hung, streams, ran>>
    PROVE  RconInv'
<1> USE DEF RconInv
<1>1. /\ Turn' = Turn /\ dialled < Turn /\ id < Turn /\ call > 0
      /\ dialled' \in Attempts /\ dialled' <= Turn /\ dialled' > 0 /\ dialled' > dialled
  <2>1. Turn' = Turn
    BY DEF Turn
  <2>2. dialled < Turn /\ id < Turn /\ call > 0
    BY DEF NumbersFit
  <2>3. Turn <= 2 * MaxCalls
    BY <2>2, TurnFits, Numbers
  <2> QED
    BY <2>1, <2>2, <2>3, TypedNumbers, Numbers
<1>2. TypeOK'
  BY <1>1 DEF TypeOK
<1>3. ReadFits'
  BY DEF ReadFits
<1>4. NumbersFit'
  <2>1. conn' <= dialled' /\ conn' # 0
    BY <1>1, TypedNumbers
  <2>2. \A c \in Attempts : c > dialled' => c > dialled
    BY <1>1, TypedNumbers, Numbers
  <2> QED
    BY <1>1, <2>1, <2>2 DEF NumbersFit
<1>5. FreshFits'
  <2>1. in' = << >> /\ out'[conn'] = << >>
    BY <1>1 DEF NumbersFit
  <2> QED
    BY <2>1 DEF FreshFits
<1>6. RunsFit'
  <2>1. \A n \in Calls : SentOf(n)' = SentOf(n)
    BY DEF SentOf
  <2>2. ASSUME NEW n \in Calls PROVE SentOf(n) <= SentOf(n)'
    <3>1. SentOf(n)' = SentOf(n) /\ SentOf(n) \in {0, 1, 2}
      BY <2>1, TypedNumbers
    <3> HIDE DEF RconInv
    <3> QED
      BY <3>1
  <2> QED
    BY <1>2, <2>2, RunsKept
<1>7. AnswerFits'
  BY DEF AnswerFits, EchoMeansComplete, FreshAnswerIsOwn
<1> QED
  BY <1>2, <1>3, <1>4, <1>5, <1>6, <1>7

LEMMA ConnectKeeps == ASSUME RconInv, Connect PROVE RconInv'
<1>1. CASE conn # 0
  BY <1>1, Pooled DEF Connect, server
<1>2. CASE conn = 0
  <2>1. CASE Error
    BY <2>1, ExecRetries DEF Connect
  <2>2. CASE AuthError
    BY <2>2, ExecReturnsError DEF Connect, AuthError
  <2>3. CASE ~Error /\ ~AuthError
    BY <1>2, <2>3, Dialled DEF Connect, server
  <2> QED
    BY <2>1, <2>2, <2>3
<1> QED
  BY <1>1, <1>2

LEMMA OneMoreWaits ==
    ASSUME NEW S, NEW T, NEW x, IsFiniteSet(S), T \subseteq S \cup {x}
    PROVE  Cardinality(T) \in Nat /\ Cardinality(S) \in Nat /\ Cardinality(T) <= Cardinality(S) + 1
<1>1. IsFiniteSet(S \cup {x}) /\ Cardinality(S) \in Nat
  BY FS_AddElement, FS_CardinalityType
<1>2. Cardinality(S \cup {x}) <= Cardinality(S) + 1
  BY <1>1, FS_AddElement
<1>3. IsFiniteSet(T) /\ Cardinality(T) <= Cardinality(S \cup {x})
  BY <1>1, FS_Subset
<1>4. Cardinality(T) \in Nat /\ Cardinality(S \cup {x}) \in Nat
  BY <1>1, <1>3, FS_CardinalityType
<1> QED
  BY <1>1, <1>2, <1>3, <1>4

\* The packets that have come and those to come make one stream.
LEMMA StreamIs ==
    ASSUME TypeOK
    PROVE  /\ Len(body) \in Nat /\ Len(in) \in Nat /\ Length \in Nat
           /\ Length = Len(body) + Len(in)
           /\ \A m \in 1..Len(body) : Packet(m) = body[m] /\ body[m] \in Replies
           /\ \A m \in 1..Len(in) : Packet(Len(body) + m) = in[m] /\ in[m] \in Replies
           /\ \A m \in 1..Length : Packet(m) \in Replies
           /\ \A m \in 1..Length : m > Len(body) => Packet(m) = in[m - Len(body)]
<1>1. body \in Seq(Replies) /\ in \in Seq(Replies)
  BY DEF TypeOK
<1>2. Len(body) \in Nat /\ Len(in) \in Nat
  BY <1>1, SeqIs
<1>3. \A m \in 1..Len(body) : body[m] \in Replies
  BY <1>1, SeqIs
<1>4. \A m \in 1..Len(in) : in[m] \in Replies
  BY <1>1, SeqIs
<1> QED
  BY <1>2, <1>3, <1>4 DEF Length, Packet

LEMMA StreamRead ==
    ASSUME TypeOK, in # << >>, in' = Tail(in), body' = Append(body, Head(in))
    PROVE  /\ Length' = Length /\ Len(body') = Len(body) + 1 /\ Len(body) + 1 \in 1..Length
           /\ Packet(Len(body) + 1) = Head(in) /\ Head(in) \in Replies
           /\ \A m \in 1..Length : Packet(m)' = Packet(m)
<1>1. body \in Seq(Replies) /\ in \in Seq(Replies)
  BY DEF TypeOK
<1>2. /\ Head(in) = in[1] /\ Head(in) \in Replies /\ Len(in) \in Nat \ {0}
      /\ Len(in') = Len(in) - 1 /\ \A m \in 1..(Len(in) - 1) : in'[m] = in[m + 1]
  BY <1>1, TailIs
<1>3. /\ Len(body) \in Nat /\ Len(body') = Len(body) + 1 /\ body'[Len(body) + 1] = Head(in)
      /\ \A m \in 1..Len(body) : body'[m] = body[m]
  BY <1>1, <1>2, AppendIs
<1>4. Length' = Length /\ Length \in Nat /\ Len(body) + 1 \in 1..Length
  BY <1>2, <1>3 DEF Length
<1>5. ASSUME NEW m \in 1..Length
      PROVE  Packet(m)' = Packet(m)
  <2>1. CASE m <= Len(body)
    BY <1>3, <2>1 DEF Packet
  <2>2. CASE m = Len(body) + 1
    BY <1>2, <1>3, <2>2 DEF Packet
  <2>3. CASE m > Len(body) + 1
    <3>1. m - Len(body)' \in 1..(Len(in) - 1) /\ m - Len(body)' + 1 = m - Len(body)
      BY <1>2, <1>3, <2>3 DEF Length
    <3>2. Packet(m) = in[m - Len(body)] /\ Packet(m)' = in'[m - Len(body)']
      <4>1. ~(m <= Len(body)) /\ ~(m <= Len(body)')
        BY <1>3, <1>4, <2>3
      <4> QED
        BY <4>1 DEF Packet
    <3> QED
      BY <1>2, <3>1, <3>2
  <2> QED
    BY <1>3, <1>4, <2>1, <2>2, <2>3
<1>6. Packet(Len(body) + 1) = Head(in)
  BY <1>2, <1>3 DEF Packet
<1> QED
  BY <1>2, <1>3, <1>4, <1>5, <1>6

LEMMA StreamGrows ==
    ASSUME TypeOK, NEW q \in Seq(Replies), in' = in \o q, body' = body
    PROVE  /\ Length' = Length + Len(q) /\ Len(q) \in Nat
           /\ \A m \in 1..Length : Packet(m)' = Packet(m)
           /\ \A m \in (Length + 1)..(Length + Len(q)) : Packet(m)' = q[m - Length]
<1>1. body \in Seq(Replies) /\ in \in Seq(Replies)
  BY DEF TypeOK
<1>2. Len(body) \in Nat /\ Len(in) \in Nat /\ Len(q) \in Nat
  BY <1>1, SeqIs
<1>3. /\ Len(in') = Len(in) + Len(q) /\ \A m \in 1..Len(in) : in'[m] = in[m]
      /\ \A m \in 1..Len(q) : in'[Len(in) + m] = q[m]
  BY <1>1, JoinIs
<1>4. Length' = Length + Len(q)
  BY <1>2, <1>3 DEF Length
<1>5. ASSUME NEW m \in 1..Length
      PROVE  Packet(m)' = Packet(m)
  BY <1>2, <1>3 DEF Packet, Length
<1>6. ASSUME NEW m \in (Length + 1)..(Length + Len(q))
      PROVE  Packet(m)' = q[m - Length]
  <2>1. m > Len(body) /\ m - Len(body) = Len(in) + (m - Length) /\ m - Length \in 1..Len(q)
    BY <1>2 DEF Length
  <2>2. Packet(m)' = in'[m - Len(body)]
    BY <1>2, <2>1 DEF Packet
  <2> QED
    BY <1>3, <2>1, <2>2
<1> QED
  BY <1>2, <1>4, <1>5, <1>6

\* What has been answered stays so while the stream grows or is read.
LEMMA RepliedStays ==
    ASSUME NEW m \in Nat, NEW i, Replied(m, i),
           Length \in Nat, Length' \in Nat, Length' >= Length,
           \A k \in 1..Length : Packet(k)' = Packet(k),
           m > Len(body) /\ Packet(m) = Denial(i) => m > Len(body)'
    PROVE  Replied(m, i)'
<1>1. m \in 1..Length /\ m \in 1..Length'
  BY DEF Replied
<1>2. CASE m > Len(body) /\ Packet(m) = Denial(i)
  <2>1. Denial(i)' = Denial(i) /\ Packet(m)' = Packet(m) /\ m > Len(body)'
    BY <1>1, <1>2 DEF Denial
  <2> QED
    BY <1>1, <1>2, <2>1 DEF Replied
<1>3. ASSUME NEW n \in 1..MaxParts, n <= m,
             \A k \in 1..n : Packet(m - n + k) = Chunk(i, n, k)
      PROVE  Replied(m, i)'
  <2>1. \A k \in 1..n : m - n + k \in 1..Length
    BY <1>1, <1>3, Numbers
  <2>2. \A k \in 1..n : Packet(m - n + k)' = Chunk(i, n, k)
    BY <1>3, <2>1
  <2> QED
    BY <1>1, <1>3, <2>2 DEF Replied, Chunk
<1> QED
  BY <1>2, <1>3 DEF Replied

---------------------------------------------------------------------------
\* The command and its sentinel go out, or are lost on a connection that is
\* closed.
GoesOut ==
    /\ id' = id + 1 /\ step' = "read"
    /\ out' = IF conn \in hung THEN out
              ELSE [out EXCEPT ![conn] = @ \o <<Exec(id'), Sentinel(id')>>]
    /\ UNCHANGED <<conn, dialled, call, try, fresh, body, answer, echoes, in, hung, streams, ran>>

\* What is queued then.
LEMMA QueueGrows ==
    ASSUME RconInv, step = "send", GoesOut
    PROVE  /\ id' \in Attempts /\ id' > id /\ id' <= Turn /\ call \in Calls /\ conn \in Attempts
           /\ conn \notin hung =>
                /\ out'[conn] \in Seq(Sent) /\ Len(out[conn]) \in Nat
                /\ Len(out'[conn]) = Len(out[conn]) + 2
                /\ DOMAIN out'[conn] = 1..(Len(out[conn]) + 2)
                /\ DOMAIN out[conn] = 1..Len(out[conn])
                /\ \A m \in 1..Len(out[conn]) : out'[conn][m] = out[conn][m]
                /\ out'[conn][Len(out[conn]) + 1] = Exec(id')
                /\ out'[conn][Len(out[conn]) + 2] = Sentinel(id')
           /\ conn \in hung => out' = out /\ out[conn] = << >>
           /\ \A c \in Attempts : c # conn => out'[c] = out[c]
<1> USE DEF RconInv
<1>1. /\ call > 0 /\ id < Turn /\ dialled <= Turn /\ conn # 0
  BY DEF NumbersFit
<1>2. Turn <= 2 * MaxCalls
  BY <1>1, TurnFits, Numbers
<1>3. id' \in Attempts /\ id' > id /\ id' <= Turn
  BY <1>1, <1>2, TypedNumbers, Numbers DEF GoesOut
<1>4. call \in Calls /\ conn \in Attempts
  BY <1>1, TypedNumbers, Numbers
<1>5. conn \in hung => out' = out /\ out[conn] = << >>
  BY <1>4 DEF GoesOut, NumbersFit
<1>6. \A c \in Attempts : c # conn => out'[c] = out[c]
  BY DEF GoesOut, TypeOK
<1>7. ASSUME conn \notin hung
      PROVE  out'[conn] = out[conn] \o <<Exec(id'), Sentinel(id')>>
  BY <1>4, <1>7 DEF GoesOut, TypeOK
<1>8. /\ Exec(id') \in Sent /\ Sentinel(id') \in Sent
      /\ out[conn] \in Seq(Sent)
  BY <1>3, <1>4, PacketTypes, TypedNumbers
<1> DEFINE two == <<Exec(id'), Sentinel(id')>>
<1>9. two \in Seq(Sent) /\ Len(two) = 2 /\ two[1] = Exec(id') /\ two[2] = Sentinel(id')
  BY <1>8, PairIs
<1>10. ASSUME conn \notin hung
       PROVE  /\ out'[conn] \in Seq(Sent) /\ Len(out[conn]) \in Nat
              /\ Len(out'[conn]) = Len(out[conn]) + 2
              /\ DOMAIN out'[conn] = 1..(Len(out[conn]) + 2)
              /\ DOMAIN out[conn] = 1..Len(out[conn])
              /\ \A m \in 1..Len(out[conn]) : out'[conn][m] = out[conn][m]
              /\ out'[conn][Len(out[conn]) + 1] = Exec(id')
              /\ out'[conn][Len(out[conn]) + 2] = Sentinel(id')
  <2>1. out'[conn] = out[conn] \o two
    BY <1>7, <1>10
  <2> HIDE DEF two
  <2>2. /\ out'[conn] \in Seq(Sent) /\ Len(out'[conn]) = Len(out[conn]) + 2
        /\ Len(out[conn]) \in Nat
        /\ DOMAIN out'[conn] = 1..(Len(out[conn]) + 2)
        /\ \A m \in 1..Len(out[conn]) : out'[conn][m] = out[conn][m]
        /\ \A m \in 1..2 : out'[conn][Len(out[conn]) + m] = two[m]
    <3>1. /\ out[conn] \o two \in Seq(Sent) /\ Len(out[conn] \o two) = Len(out[conn]) + Len(two)
          /\ Len(out[conn]) \in Nat
          /\ DOMAIN (out[conn] \o two) = 1..(Len(out[conn]) + Len(two))
          /\ \A m \in 1..Len(out[conn]) : (out[conn] \o two)[m] = out[conn][m]
          /\ \A m \in 1..Len(two) : (out[conn] \o two)[Len(out[conn]) + m] = two[m]
      <4> HIDE DEF RconInv
      <4> QED
        BY <1>8, <1>9, JoinIs
    <3> HIDE DEF RconInv
    <3> QED
      BY <1>9, <2>1, <3>1
  <2>3. DOMAIN out[conn] = 1..Len(out[conn])
    BY <1>8, SeqIs
  <2> QED
    BY <1>9, <2>2, <2>3
<1> QED
  BY <1>3, <1>4, <1>5, <1>6, <1>10

LEMMA SendTypes ==
    ASSUME RconInv, step = "send", GoesOut
    PROVE  TypeOK' /\ NumbersFit' /\ FreshFits' /\ AnswerFits'
<1> USE DEF RconInv
<1>0. /\ id \in Int /\ id' \in Int /\ id < id' /\ \A i \in Attempts : i \in Int
  <2>1. id' \in Attempts /\ id' > id
    BY QueueGrows
  <2>2. id \in Int /\ \A i \in Attempts : i \in Int
    BY TypedNumbers, Numbers
  <2> QED
    BY <2>1, <2>2
<1>1. TypeOK'
  <2>1. \A c \in Attempts : out'[c] \in Seq(Sent)
    BY QueueGrows, TypedNumbers
  <2>2. out' \in [Attempts -> Seq(Sent)]
    BY <2>1 DEF GoesOut, TypeOK
  <2> QED
    BY <2>2, QueueGrows DEF GoesOut, TypeOK
<1>2. \A c \in Attempts : \A m \in DOMAIN out'[c] : out'[c][m].id <= id'
  <2>1. \A c \in Attempts : \A m \in DOMAIN out[c] : out[c][m].id \in Int /\ out[c][m].id <= id
    <3>1. \A c \in Attempts : \A m \in DOMAIN out[c] : out[c][m] \in Sent
      BY TypedNumbers, SeqIs
    <3> QED
      BY <1>0, <3>1, QueuedKinds DEF NumbersFit
  <2>2. \A c \in Attempts : \A m \in DOMAIN out[c] : out[c][m].id <= id'
    BY <1>0, <2>1
  <2> SUFFICES ASSUME NEW c \in Attempts, NEW m \in DOMAIN out'[c] PROVE out'[c][m].id <= id'
    OBVIOUS
  <2>3. CASE c # conn \/ conn \in hung
    BY <2>2, <2>3, QueueGrows
  <2>4. CASE c = conn /\ conn \notin hung
    <3>1. \/ m \in 1..Len(out[conn]) /\ out'[c][m] = out[c][m]
          \/ out'[c][m].id = id'
      <4>1. PICK n \in Nat : n = Len(out[conn])
        BY <2>4, QueueGrows
      <4>2. /\ DOMAIN out'[c] = 1..(n + 2) /\ \A k \in 1..n : out'[c][k] = out[c][k]
            /\ out'[c][n + 1] = Exec(id') /\ out'[c][n + 2] = Sentinel(id')
        BY <2>4, <4>1, QueueGrows
      <4>3. m \in 1..n \/ m = n + 1 \/ m = n + 2
        BY <4>2
      <4>4. Exec(id').id = id' /\ Sentinel(id').id = id'
        BY DEF Exec, Sentinel
      <4> QED
        BY <4>1, <4>2, <4>3, <4>4
    <3>2. id' <= id'
      BY QueueGrows, Numbers
    <3> QED
      BY <2>2, <2>4, <3>1, <3>2, QueueGrows
  <2> QED
    BY <2>3, <2>4
<1>3. NumbersFit'
  <2>1. Turn' = Turn
    BY DEF Turn, GoesOut
  <2>2. \A m \in DOMAIN in : in[m].id <= id'
    <3>1. \A m \in DOMAIN in : in[m] \in Replies
      BY TypedNumbers, SeqIs
    <3>2. \A m \in DOMAIN in : in[m].id <= id /\ in[m].id \in Attempts
      BY <3>1, PacketKinds DEF NumbersFit
    <3> QED
      BY <1>0, <3>2
  <2>3. \A c \in Attempts : c > dialled \/ c \in hung => out'[c] = << >>
    <3>1. ~(conn > dialled)
      BY TypedNumbers DEF NumbersFit
    <3> QED
      BY <3>1, QueueGrows DEF NumbersFit
  <2> QED
    BY <1>2, <2>1, <2>2, <2>3, QueueGrows DEF NumbersFit, GoesOut
<1>4. FreshFits'
  <2>1. try = MaxTries => fresh
    BY DEF FreshFits
  <2>2. ASSUME fresh
        PROVE  \A m \in DOMAIN out'[conn] : out'[conn][m].id = id'
    <3>1. out[conn] = << >> /\ Len(out[conn]) = 0
      BY <2>2, PairIs DEF FreshFits
    <3> QED
      BY <3>1, QueueGrows, Kinds
  <2>3. fresh => in = << >>
    BY DEF FreshFits
  <2>4. body = << >>
    BY DEF NumbersFit
  <2>5. DOMAIN << >> = {}
    OBVIOUS
  <2> QED
    BY <2>1, <2>2, <2>3, <2>4, <2>5 DEF FreshFits, GoesOut
<1>5. AnswerFits'
  BY DEF AnswerFits, EchoMeansComplete, FreshAnswerIsOwn, GoesOut
<1> QED
  BY <1>1, <1>3, <1>4, <1>5

LEMMA SendIsReadFor ==
    ASSUME RconInv, step = "send", GoesOut
    PROVE  ReadFits'
<1> USE DEF RconInv
<1>0. /\ id \in Int /\ id' \in Int /\ id < id' /\ \A i \in Attempts : i \in Int
  <2>1. id' \in Attempts /\ id' > id
    BY QueueGrows
  <2>2. id \in Int /\ \A i \in Attempts : i \in Int
    BY TypedNumbers, Numbers
  <2> QED
    BY <2>1, <2>2
<1>1. conn' = conn /\ in' = in /\ body' = << >> /\ body = << >>
  BY DEF GoesOut, NumbersFit
<1>2. Length' = Length /\ Length \in Nat /\ \A m \in 1..Length : Packet(m)' = Packet(m)
  BY <1>1, StreamIs DEF Length, Packet
<1>3. \A m \in 1..Length : Packet(m).id \in Int /\ Packet(m).id < id'
  <2> SUFFICES ASSUME NEW m \in 1..Length PROVE Packet(m).id \in Int /\ Packet(m).id < id'
    OBVIOUS
  <2>1. Len(body) = 0
    BY <1>1
  <2>2. m \in 1..Len(in) /\ Packet(m) = in[m]
    BY <2>1, StreamIs
  <2>3. m \in DOMAIN in /\ in[m] \in Replies
    BY <2>2, TypedNumbers, SeqIs
  <2>4. in[m].id <= id /\ in[m].id \in Attempts
    BY <2>3, PacketKinds DEF NumbersFit
  <2> QED
    BY <1>0, <2>2, <2>4
<1>4. CASE conn \in hung
  <2>1. \A m \in 1..Length : Packet(m) # Echo(id')
    BY <1>3, Kinds, TypedNumbers
  <2>2. Through'
    BY <1>1, <1>2, <1>4, <2>1, QueueGrows DEF Through, Echo
  <2> QED
    BY <2>2 DEF ReadFits
<1>5. CASE conn \notin hung
  <2> DEFINE L == Len(out[conn])
  <2>1. L \in Nat /\ Len(out'[conn]) = L + 2 /\ call' = call
    BY <1>5, QueueGrows DEF GoesOut
  <2>2. out'[conn][L + 1] = Exec(id') /\ out'[conn][L + 2] = Sentinel(id')
    BY <1>5, QueueGrows
  <2>3. \A m \in 1..L : out'[conn][m].id < id'
    <3> SUFFICES ASSUME NEW m \in 1..L PROVE out'[conn][m].id < id'
      OBVIOUS
    <3>1. out'[conn][m] = out[conn][m] /\ m \in DOMAIN out[conn]
      BY <1>5, QueueGrows
    <3>2. out[conn][m] \in Sent
      BY <3>1, QueueGrows, TypedNumbers, SeqIs
    <3>3. out[conn][m].id <= id /\ out[conn][m].id \in Attempts
      BY <3>1, <3>2, QueueGrows, QueuedKinds DEF NumbersFit
    <3> QED
      BY <1>0, <3>1, <3>3
  <2>4. Exec(id)' = Exec(id') /\ Sentinel(id)' = Sentinel(id')
    BY <2>1 DEF Exec, Sentinel
  <2> HIDE DEF L
  <2>5. Len(out'[conn]) > 1 /\ Len(out'[conn]) - 1 = L + 1 /\ Len(out'[conn]) - 2 = L
    BY <2>1
  <2>6. Waiting'
    BY <1>1, <1>2, <1>3, <2>1, <2>2, <2>3, <2>4, <2>5 DEF Waiting
  <2> QED
    BY <2>6 DEF ReadFits
<1> QED
  BY <1>4, <1>5

LEMMA SendIsCounted ==
    ASSUME RconInv, step = "send", GoesOut
    PROVE  RunsFit'
<1> USE DEF RconInv
<1>0. /\ id \in Int /\ id' \in Int /\ id < id' /\ \A i \in Attempts : i \in Int
  <2>1. id' \in Attempts /\ id' > id
    BY QueueGrows
  <2>2. id \in Int /\ \A i \in Attempts : i \in Int
    BY TypedNumbers, Numbers
  <2> QED
    BY <2>1, <2>2
<1> DEFINE L == Len(out[conn])
           IsNew(c, m) == c = conn /\ m = L + 1 /\ out'[c][m].id = id' /\ out'[c][m].call = call
           IsOld(c, m) == m \in DOMAIN out[c] /\ out'[c][m] = out[c][m] /\ out[c][m].id # id'
<1>1. \A c \in Attempts : \A m \in DOMAIN out[c] : out[c][m].id # id'
  <2> SUFFICES ASSUME NEW c \in Attempts, NEW m \in DOMAIN out[c] PROVE out[c][m].id # id'
    OBVIOUS
  <2>1. out[c][m] \in Sent
    BY TypedNumbers, SeqIs
  <2>2. out[c][m].id \in Attempts /\ out[c][m].id <= id
    BY <2>1, QueuedKinds DEF NumbersFit
  <2> QED
    BY <1>0, <2>2
<1>2. \A c \in Attempts : \A m \in DOMAIN out'[c] : out'[c][m].kind = "exec" => IsOld(c, m) \/ IsNew(c, m)
  <2> SUFFICES ASSUME NEW c \in Attempts, NEW m \in DOMAIN out'[c], out'[c][m].kind = "exec"
               PROVE  IsOld(c, m) \/ IsNew(c, m)
    OBVIOUS
  <2>1. CASE c # conn \/ conn \in hung
    BY <1>1, <2>1, QueueGrows
  <2>2. CASE c = conn /\ conn \notin hung
    <3>1. m \in 1..L \/ m = L + 1 \/ m = L + 2
      BY <2>2, QueueGrows
    <3>2. m \in 1..L => m \in DOMAIN out[c] /\ out'[c][m] = out[c][m]
      BY <2>2, QueueGrows
    <3>3. m = L + 1 => IsNew(c, m)
      BY <2>2, QueueGrows, Kinds
    <3>4. m # L + 2
      BY <2>2, QueueGrows, Kinds
    <3> QED
      BY <1>1, <3>1, <3>2, <3>3, <3>4
  <2> QED
    BY <2>1, <2>2
<1>3. call' = call /\ try' = try /\ ran' = ran /\ step' = "read"
  BY DEF GoesOut
<1>4. ASSUME NEW n \in Calls
      PROVE  ran'[n] + Cardinality(Pending(n)') <= SentOf(n)'
  <2>1. Pending(n)' \subseteq Pending(n) \cup (IF n = call THEN {id'} ELSE {})
    <3> SUFFICES ASSUME NEW i \in Attempts, NEW c \in Attempts, NEW m \in DOMAIN out'[c],
                        out'[c][m] = [kind |-> "exec", id |-> i, call |-> n]
                 PROVE  i \in Pending(n) \/ (n = call /\ i = id')
      BY DEF Pending
    <3>1. out'[c][m].kind = "exec" /\ out'[c][m].id = i /\ out'[c][m].call = n
      OBVIOUS
    <3>2. CASE IsNew(c, m)
      BY <3>1, <3>2
    <3>3. CASE IsOld(c, m)
      BY <3>3 DEF Pending
    <3> QED
      BY <1>2, <3>1, <3>2, <3>3
  <2>2. ran[n] \in Nat /\ n \in Nat /\ call \in Nat /\ try \in {1, 2} /\ SentOf(n) \in {0, 1, 2}
    BY TypedNumbers
  <2>3. ran[n] + Cardinality(Pending(n)) <= SentOf(n)
    BY DEF RunsFit
  <2>4. CASE n = call
    <3>1. Pending(n)' \subseteq Pending(n) \cup {id'}
      BY <2>1, <2>4
    <3>2. /\ Cardinality(Pending(n)') \in Nat /\ Cardinality(Pending(n)) \in Nat
          /\ Cardinality(Pending(n)') <= Cardinality(Pending(n)) + 1
      BY <3>1, PendingFinite, OneMoreWaits
    <3>3. SentOf(n) = try - 1
      BY <2>2, <2>4 DEF SentOf
    <3>4. SentOf(n)' = try
      BY <1>3, <2>2, <2>4 DEF SentOf
    <3> QED
      BY <1>3, <2>2, <2>3, <3>2, <3>3, <3>4
  <2>5. CASE n # call
    <3>1. Pending(n)' \subseteq Pending(n)
      BY <2>1, <2>5
    <3>2. /\ Cardinality(Pending(n)') \in Nat /\ Cardinality(Pending(n)) \in Nat
          /\ Cardinality(Pending(n)') <= Cardinality(Pending(n))
      BY <3>1, PendingFinite, FewerWait
    <3>3. SentOf(n)' = SentOf(n)
      BY <1>3, <2>2, <2>5 DEF SentOf
    <3> QED
      BY <1>3, <2>2, <2>3, <3>2, <3>3
  <2> QED
    BY <2>4, <2>5
<1>5. ASSUME NEW c \in Attempts, NEW d \in Attempts,
             NEW m \in DOMAIN out'[c], NEW k \in DOMAIN out'[d],
             out'[c][m].kind = "exec", out'[d][k].kind = "exec", out'[c][m].id = out'[d][k].id
      PROVE  c = d /\ m = k
  <2>1. CASE IsNew(c, m)
    <3>1. ~IsOld(d, k)
      BY <1>5, <2>1
    <3>2. IsNew(d, k)
      BY <1>2, <1>5, <3>1
    <3> QED
      BY <2>1, <3>2
  <2>2. CASE IsOld(c, m)
    <3>1. ~IsNew(d, k)
      BY <1>5, <2>2
    <3>2. IsOld(d, k)
      BY <1>2, <1>5, <3>1
    <3> QED
      BY <1>5, <2>2, <3>2 DEF RunsFit
  <2> QED
    BY <1>2, <1>5, <2>1, <2>2
<1> HIDE DEF IsNew, IsOld, L
<1>6. RunsFit!2'
  BY <1>5
<1> QED
  BY <1>4, <1>6 DEF RunsFit

LEMMA SendKeeps == ASSUME RconInv, Send PROVE RconInv'
<1>1. CASE conn \in hung /\ Error
  BY <1>1, ExecRetries DEF Send
<1>2. CASE ~(conn \in hung /\ Error)
  <2>1. step = "send" /\ GoesOut
    BY <1>2 DEF Send, GoesOut
  <2> QED
    BY <2>1, SendTypes, SendIsReadFor, SendIsCounted DEF RconInv
<1> QED
  BY <1>1, <1>2

---------------------------------------------------------------------------
\* The echo comes behind the whole answer.
LEMMA EchoEnds ==
    ASSUME RconInv, step = "read", in # << >>, Head(in) = Echo(id)
    PROVE  EndsWithReply(body, id)
<1> USE DEF RconInv
<1> DEFINE B == Len(body)
<1>1. B + 1 \in 1..Length /\ Packet(B + 1) = Head(in) /\ B \in Nat /\ Len(in) > 0
  <2>1. in \in Seq(Replies) /\ Len(in) \in Nat \ {0} /\ Head(in) = in[1]
    BY TailIs, TypedNumbers
  <2> QED
    BY <2>1, StreamIs
<1>2. Packet(B + 1) = Echo(id) /\ Packet(B + 1).id = id
  BY <1>1, Kinds
<1>3. ~Waiting
  BY <1>1, <1>2, TypedNumbers DEF Waiting
<1>4. ~Answered
  BY <1>1, <1>2 DEF Answered
<1>5. Replied(B + 1 - 1, id)
  BY <1>1, <1>2, <1>3, <1>4 DEF ReadFits, Through
<1>6. B + 1 - 1 = B
  BY <1>1
<1>7. Replied(B, id)
  BY <1>5, <1>6
<1>8. PICK n \in 1..MaxParts : n <= B /\ \A k \in 1..n : Packet(B - n + k) = Chunk(id, n, k)
  <2>1. ~(B > Len(body))
    BY <1>1
  <2> QED
    BY <1>7, <2>1 DEF Replied
<1>9. n \in Nat /\ n >= 1 /\ n <= B
  BY <1>8, Numbers
<1>10. \A k \in 1..n : body[B - n + k] = Chunk(id, n, k)
  <2> SUFFICES ASSUME NEW k \in 1..n PROVE body[B - n + k] = Chunk(id, n, k)
    OBVIOUS
  <2>1. B - n + k \in 1..Len(body)
    BY <1>1, <1>9
  <2>2. Packet(B - n + k) = body[B - n + k]
    BY <2>1, StreamIs
  <2> QED
    BY <1>8, <2>2
<1>11. SubSeq(body, B - n + 1, B) = Reply(id, n)
  <2>1. body \in Seq(Replies)
    BY TypedNumbers
  <2>2. SubSeq(body, B - n + 1, B) = [k \in 1..n |-> body[B - n + k]]
    <3>1. B - (B - n + 1) + 1 = n /\ \A k \in 1..n : B - n + 1 + k - 1 = B - n + k
      BY <1>1, <1>9
    <3>2. SubSeq(body, B - n + 1, B) = [k \in 1..(1 + B - (B - n + 1)) |-> body[k + (B - n + 1) - 1]]
      OBVIOUS
    <3> QED
      BY <3>1, <3>2, <1>1, <1>9
  <2>3. [k \in 1..n |-> body[B - n + k]] = [k \in 1..n |-> Chunk(id, n, k)]
    BY <1>10
  <2>4. Reply(id, n) = [k \in 1..n |-> Chunk(id, n, k)]
    BY DEF Reply, Chunk
  <2> QED
    BY <2>2, <2>3, <2>4
<1> QED
  BY <1>8, <1>11 DEF EndsWithReply

\* A packet that is neither the echo nor a denial is a chunk.
LEMMA ReadsChunk ==
    ASSUME RconInv, step = "read", in # << >>, in' = Tail(in), body' = Append(body, Head(in)),
           Head(in).kind # "denied", Head(in) # Echo(id),
           UNCHANGED <<conn, dialled, step, call, try, id, fresh, answer, echoes, out, hung, streams, ran>>
    PROVE  RconInv'
<1> USE DEF RconInv
<1>1. /\ Head(in) \in Replies /\ Head(in) = in[1] /\ in' \in Seq(Replies)
      /\ DOMAIN in = 1..Len(in) /\ DOMAIN in' = 1..(Len(in) - 1) /\ Len(in) \in Nat \ {0}
      /\ \A m \in DOMAIN in' : in'[m] = in[m + 1] /\ m + 1 \in DOMAIN in
  BY TypedNumbers, TailIs
<1>2. /\ body' \in Seq(Replies) /\ DOMAIN body' = 1..(Len(body) + 1) /\ Len(body) \in Nat
      /\ \A m \in 1..Len(body) : body'[m] = body[m]
      /\ body'[Len(body) + 1] = Head(in) /\ DOMAIN body = 1..Len(body)
  BY <1>1, TypedNumbers, AppendIs, SeqIs
<1>3. TypeOK'
  BY <1>1, <1>2 DEF TypeOK
<1>4. ReadFits'
  <2>1. /\ Length' = Length /\ Length \in Nat /\ Len(body') = Len(body) + 1
        /\ Packet(Len(body) + 1) = Head(in)
        /\ \A m \in 1..Length : Packet(m)' = Packet(m)
    BY StreamRead, StreamIs
  <2>2. \A m \in Nat : Replied(m, id) => Replied(m, id)'
    <3> SUFFICES ASSUME NEW m \in Nat, Replied(m, id) PROVE Replied(m, id)'
      OBVIOUS
    <3>1. m > Len(body) /\ Packet(m) = Denial(id) => m > Len(body)'
      BY <1>2, <2>1, Kinds
    <3> DEFINE i == id
    <3>2. i' = i /\ Replied(m, i)
      OBVIOUS
    <3> HIDE DEF i
    <3> QED
      BY <2>1, <3>1, <3>2, RepliedStays
  <2>3. Waiting => Waiting'
    BY <2>1 DEF Waiting, Exec, Sentinel
  <2>4. Answered => Answered'
    BY <2>1, <2>2 DEF Answered, Sentinel, Echo
  <2>5. Through => Through'
    BY <2>1, <2>2 DEF Through, Echo
  <2> QED
    BY <2>3, <2>4, <2>5 DEF ReadFits
<1>5. NumbersFit'
  <2>1. Turn' = Turn
    BY DEF Turn
  <2>2. \A m \in DOMAIN in' : in'[m].id <= id
    BY <1>1 DEF NumbersFit
  <2> QED
    BY <2>1, <2>2 DEF NumbersFit
<1>6. FreshFits'
  <2>1. ASSUME fresh
        PROVE  OwnPart(Head(in), id)
    <3>1. Head(in).id = id
      BY <1>1, <2>1 DEF FreshFits
    <3>2. /\ Head(in).kind \in {"part", "echo", "denied"}
          /\ Head(in).kind = "echo" => Head(in) = Echo(Head(in).id)
          /\ Head(in).kind = "part" => OwnPart(Head(in), Head(in).id)
      BY <1>1, PacketKinds
    <3> QED
      BY <3>1, <3>2
  <2>2. try = MaxTries => fresh
    BY DEF FreshFits
  <2>3. fresh => /\ \A m \in DOMAIN out[conn] : out[conn][m].id = id
                 /\ \A m \in DOMAIN in' : in'[m].id = id
    BY <1>1 DEF FreshFits
  <2>4. ASSUME fresh
        PROVE  \A m \in DOMAIN body' : OwnPart(body'[m], id)
    <3>1. \A m \in DOMAIN body : OwnPart(body[m], id)
      BY <2>4 DEF FreshFits
    <3>2. \A m \in DOMAIN body' : m \in 1..Len(body) \/ m = Len(body) + 1
      BY <1>2
    <3> QED
      BY <1>2, <2>1, <2>4, <3>1, <3>2
  <2> QED
    BY <2>2, <2>3, <2>4 DEF FreshFits, OwnPart
<1>7. RunsFit'
  <2>1. \A n \in Calls : SentOf(n)' = SentOf(n) /\ SentOf(n) \in {0, 1, 2}
    BY TypedNumbers DEF SentOf
  <2>2. \A n \in Calls : SentOf(n) <= SentOf(n)'
    <3> HIDE DEF RconInv
    <3> QED
      BY <2>1
  <2> QED
    BY <1>3, <2>2, RunsKept
<1>8. AnswerFits'
  BY DEF AnswerFits, EchoMeansComplete, FreshAnswerIsOwn
<1> QED
  BY <1>3, <1>4, <1>5, <1>6, <1>7, <1>8

LEMMA ReadKeeps == ASSUME RconInv, Read PROVE RconInv'
<1> DEFINE p == Head(in)
<1>1. /\ step = "read" /\ in # << >> /\ in' = Tail(in)
      /\ UNCHANGED <<echoes, out, hung, streams, ran>>
  BY DEF Read
<1>2. p \in Replies
  BY <1>1, TypedNumbers, TailIs DEF RconInv
<1>3. /\ p.kind \in {"part", "echo", "denied"} /\ p.kind = "echo" => p = Echo(p.id)
  BY <1>2, PacketKinds
<1>4. answer.result # "ok" /\ (fresh \/ try = MaxTries => \A m \in DOMAIN body : OwnPart(body[m], id))
  BY <1>1 DEF RconInv, AnswerFits, FreshFits
<1>5. id \in Attempts \cup {0} /\ fresh \in BOOLEAN /\ body \in Seq(Replies)
  BY DEF RconInv, TypeOK
<1>6. CASE p.kind = "echo" /\ p.id = id
  <2>1. /\ step' = "idle" /\ body' = << >>
        /\ answer' = [result |-> "ok", body |-> body, echoed |-> TRUE, id |-> id, fresh |-> fresh]
        /\ UNCHANGED <<conn, dialled, call, try, id, fresh>>
    BY <1>6 DEF Read
  <2>2. EndsWithReply(body, id)
    BY <1>1, <1>3, <1>6, EchoEnds
  <2>3. answer' \in [result : Results, body : Seq(Replies), echoed : BOOLEAN,
                     id : Attempts \cup {0}, fresh : BOOLEAN]
    BY <1>5, <2>1 DEF Results
  <2>4. AnswerFits'
    <3>1. EndsWithReply(answer'.body, answer'.id)
      BY <2>1, <2>2
    <3>2. EchoMeansComplete'
      BY <3>1 DEF EchoMeansComplete, EndsWithReply, Reply
    <3>3. FreshAnswerIsOwn'
      BY <1>4, <2>1 DEF FreshAnswerIsOwn
    <3> QED
      BY <2>1, <3>2, <3>3 DEF AnswerFits
  <2> HIDE DEF p
  <2> QED
    BY <1>1, <2>1, <2>3, <2>4, ExecEnds
<1>7. CASE p.kind = "denied"
  <2>1. /\ step' = "idle" /\ body' = << >>
        /\ answer' = [result |-> "auth", body |-> << >>, echoed |-> FALSE, id |-> id, fresh |-> fresh]
        /\ UNCHANGED <<conn, dialled, call, try, id, fresh>>
    BY <1>7 DEF Read
  <2>2. answer' \in [result : Results, body : Seq(Replies), echoed : BOOLEAN,
                     id : Attempts \cup {0}, fresh : BOOLEAN]
    <3>1. << >> \in Seq(Replies)
      BY PairIs
    <3> QED
      BY <1>5, <2>1, <3>1 DEF Results
  <2>3. AnswerFits'
    BY <2>1 DEF AnswerFits, EchoMeansComplete, FreshAnswerIsOwn
  <2> HIDE DEF p
  <2> QED
    BY <1>1, <2>1, <2>2, <2>3, ExecEnds
<1>8. CASE ~(p.kind = "echo" /\ p.id = id) /\ p.kind # "denied"
  <2>1. /\ body' = Append(body, p)
        /\ UNCHANGED <<conn, dialled, step, call, try, id, fresh, answer>>
    BY <1>8 DEF Read
  <2>2. p # Echo(id)
    BY <1>8, Kinds
  <2> QED
    BY <1>1, <1>8, <2>1, <2>2, ReadsChunk
<1> QED
  BY <1>6, <1>7, <1>8

---------------------------------------------------------------------------
\* Queues that lose packets, at their front or all of them.
LEMMA FewerQueued ==
    ASSUME RconInv, NEW s \in [Attempts -> {0, 1}],
           \A d \in Attempts : \A m \in DOMAIN out'[d] :
               m \in Nat /\ m + s[d] \in DOMAIN out[d] /\ out'[d][m] = out[d][m + s[d]]
    PROVE  /\ \A n : Pending(n)' \subseteq Pending(n)
           /\ RunsFit!2'
           /\ \A d \in Attempts : \A m \in DOMAIN out'[d] : out'[d][m].id <= id
<1> USE DEF RconInv
<1>1. \A n : Pending(n)' \subseteq Pending(n)
  <2> SUFFICES ASSUME NEW n, NEW i \in Attempts, NEW d \in Attempts, NEW m \in DOMAIN out'[d],
                      out'[d][m] = [kind |-> "exec", id |-> i, call |-> n]
               PROVE  i \in Pending(n)
    BY DEF Pending
  <2>1. m + s[d] \in DOMAIN out[d] /\ out[d][m + s[d]] = [kind |-> "exec", id |-> i, call |-> n]
    OBVIOUS
  <2> QED
    BY <2>1 DEF Pending
<1>2. ASSUME NEW c \in Attempts, NEW d \in Attempts,
             NEW m \in DOMAIN out'[c], NEW k \in DOMAIN out'[d],
             out'[c][m].kind = "exec", out'[d][k].kind = "exec", out'[c][m].id = out'[d][k].id
      PROVE  c = d /\ m = k
  <2>1. /\ m \in Nat /\ m + s[c] \in DOMAIN out[c] /\ out'[c][m] = out[c][m + s[c]]
        /\ k \in Nat /\ k + s[d] \in DOMAIN out[d] /\ out'[d][k] = out[d][k + s[d]]
    BY <1>2
  <2>2. c = d /\ m + s[c] = k + s[d]
    BY <1>2, <2>1 DEF RunsFit
  <2>3. s[c] \in {0, 1} /\ s[c] = s[d]
    BY <2>2
  <2> QED
    BY <2>1, <2>2, <2>3
<1>3. RunsFit!2'
  BY <1>2
<1>4. ASSUME NEW d \in Attempts, NEW m \in DOMAIN out'[d]
      PROVE  out'[d][m].id <= id
  <2>1. m + s[d] \in DOMAIN out[d] /\ out'[d][m] = out[d][m + s[d]]
    BY <1>4
  <2> QED
    BY <2>1 DEF NumbersFit
<1> QED
  BY <1>1, <1>3, <1>4

LEMMA HangUpKeeps == ASSUME RconInv, NEW c \in Attempts, HangUp(c) PROVE RconInv'
<1> USE DEF RconInv
<1>1. /\ c \notin hung /\ hung' = hung \cup {c} /\ out' = [out EXCEPT ![c] = << >>]
      /\ UNCHANGED <<conn, dialled, step, call, try, id, fresh, body, answer, echoes, in, streams, ran>>
  BY DEF HangUp, client
<1>2. out'[c] = << >> /\ \A d \in Attempts : d # c => out'[d] = out[d]
  BY <1>1 DEF TypeOK
<1>3. TypeOK'
  <2>1. << >> \in Seq(Sent)
    OBVIOUS
  <2> QED
    BY <1>1, <2>1 DEF TypeOK
<1>4. /\ \A n : Pending(n)' \subseteq Pending(n)
      /\ RunsFit!2'
      /\ \A d \in Attempts : \A m \in DOMAIN out'[d] : out'[d][m].id <= id
  <2> DEFINE s == [d \in Attempts |-> 0]
  <2>1. s \in [Attempts -> {0, 1}] /\ \A d \in Attempts : s[d] = 0
    OBVIOUS
  <2> HIDE DEF s
  <2>2. DOMAIN << >> = {}
    OBVIOUS
  <2>3. \A d \in Attempts : DOMAIN out[d] = 1..Len(out[d]) /\ Len(out[d]) \in Nat
    BY TypedNumbers, SeqIs
  <2>4. ASSUME NEW d \in Attempts, NEW m \in DOMAIN out'[d]
        PROVE  m \in Nat /\ m + s[d] \in DOMAIN out[d] /\ out'[d][m] = out[d][m + s[d]]
    <3>1. d # c /\ out'[d] = out[d] /\ m \in DOMAIN out[d]
      BY <1>2, <2>2, <2>4
    <3>2. m \in Nat /\ m + s[d] = m
      BY <2>1, <2>3, <3>1
    <3> QED
      BY <3>1, <3>2
  <2> HIDE DEF RconInv
  <2> QED
    BY <2>1, <2>4, FewerQueued
<1>5. ReadFits'
  <2>1. /\ Length' = Length /\ Length \in Nat /\ \A m \in 1..Length : Packet(m)' = Packet(m)
        /\ \A k : Replied(k, id)' <=> Replied(k, id)
    BY <1>1, StreamIs DEF Length, Packet, Replied, Denial, Chunk
  <2>2. CASE c # conn
    <3>1. step = "read" => conn \in Attempts
      BY TypedNumbers DEF NumbersFit, TypeOK
    <3>2. step = "read" => out'[conn'] = out[conn]
      BY <1>1, <1>2, <2>2, <3>1
    <3>3. step = "read" => (Waiting => Waiting') /\ (Answered => Answered') /\ (Through => Through')
      BY <1>1, <2>1, <3>2 DEF Waiting, Answered, Through, Echo, Exec, Sentinel
    <3> QED
      BY <1>1, <3>3 DEF ReadFits
  <2>3. CASE c = conn
    <3>1. Waiting => \A m \in 1..Length : Packet(m) # Echo(id)
      BY Kinds, TypedNumbers DEF Waiting
    <3>2. Answered => \A m \in 1..Length : Packet(m) # Echo(id)
      BY DEF Answered
    <3>3. Waiting \/ Answered \/ Through => Through'
      BY <1>1, <1>2, <2>1, <2>3, <3>1, <3>2 DEF Through, Echo
    <3> QED
      BY <1>1, <3>3 DEF ReadFits
  <2> QED
    BY <2>2, <2>3
<1>6. NumbersFit'
  <2>1. Turn' = Turn
    BY <1>1 DEF Turn
  <2>2. \A d \in Attempts : d > dialled \/ d \in hung' => out'[d] = << >>
    BY <1>1, <1>2 DEF NumbersFit
  <2> QED
    BY <1>1, <1>4, <2>1, <2>2 DEF NumbersFit
<1>7. FreshFits'
  <2>1. conn \in Attempts => out'[conn] = out[conn] \/ out'[conn] = << >>
    BY <1>2
  <2>2. step \in {"send", "read"} => conn \in Attempts
    BY DEF NumbersFit, TypeOK
  <2>3. DOMAIN << >> = {}
    OBVIOUS
  <2> QED
    BY <1>1, <2>1, <2>2, <2>3 DEF FreshFits, OwnPart
<1>8. RunsFit'
  <2>1. ASSUME NEW n \in Calls
        PROVE  ran'[n] + Cardinality(Pending(n)') <= SentOf(n)'
    <3>1. SentOf(n)' = SentOf(n) /\ SentOf(n) \in {0, 1, 2} /\ ran[n] \in Nat
      BY <1>1, TypedNumbers DEF SentOf
    <3>2. /\ Cardinality(Pending(n)') \in Nat /\ Cardinality(Pending(n)) \in Nat
          /\ Cardinality(Pending(n)') <= Cardinality(Pending(n))
      BY <1>4, PendingFinite, FewerWait
    <3>3. ran[n] + Cardinality(Pending(n)) <= SentOf(n)
      BY DEF RunsFit
    <3> QED
      BY <1>1, <3>1, <3>2, <3>3
  <2> QED
    BY <1>4, <2>1 DEF RunsFit
<1>9. AnswerFits'
  BY <1>1 DEF AnswerFits, EchoMeansComplete, FreshAnswerIsOwn
<1> QED
  BY <1>3, <1>5, <1>6, <1>7, <1>8, <1>9

---------------------------------------------------------------------------
\* The game takes a packet up and sends q back.
TakesUp(c, q) ==
    /\ c \notin hung /\ out[c] # << >>
    /\ out' = [out EXCEPT ![c] = Tail(@)]
    /\ in' = IF c = conn THEN in \o q ELSE in
    /\ streams' \in {streams, streams \cup {c}}
    /\ UNCHANGED <<conn, dialled, step, call, try, id, fresh, body, answer, echoes, hung>>

\* What comes back is a reply or a denial for a command, and at most the echo
\* of a sentinel.
ComesBack(p, q) ==
    \/ p.kind = "exec" /\ \E n \in 1..MaxParts : q = Reply(p.id, n)
    \/ p.kind = "exec" /\ q = <<Denial(p.id)>>
    \/ p.kind = "sentinel" /\ (q = <<Echo(p.id)>> \/ q = << >>)

LEMMA TakenUp ==
    ASSUME RconInv, NEW c \in Attempts, NEW q, TakesUp(c, q)
    PROVE  /\ out' \in [Attempts -> Seq(Sent)]
           /\ Head(out[c]) \in Sent /\ Head(out[c]) = out[c][1] /\ 1 \in DOMAIN out[c]
           /\ \A d \in Attempts : d # c => out'[d] = out[d]
           /\ Len(out[c]) \in Nat \ {0} /\ Len(out'[c]) = Len(out[c]) - 1
           /\ DOMAIN out[c] = 1..Len(out[c]) /\ DOMAIN out'[c] = 1..(Len(out[c]) - 1)
           /\ \A m \in 1..(Len(out[c]) - 1) : out'[c][m] = out[c][m + 1]
<1>1. out \in [Attempts -> Seq(Sent)] /\ out[c] \in Seq(Sent) /\ out[c] # << >>
  BY DEF RconInv, TypeOK, TakesUp
<1>2. out'[c] = Tail(out[c]) /\ \A d \in Attempts : d # c => out'[d] = out[d]
  BY <1>1 DEF TakesUp
<1>3. /\ Head(out[c]) = out[c][1] /\ Head(out[c]) \in Sent /\ Tail(out[c]) \in Seq(Sent)
      /\ Len(out[c]) \in Nat \ {0} /\ Len(Tail(out[c])) = Len(out[c]) - 1
      /\ DOMAIN out[c] = 1..Len(out[c]) /\ DOMAIN Tail(out[c]) = 1..(Len(out[c]) - 1)
      /\ \A m \in 1..(Len(out[c]) - 1) : Tail(out[c])[m] = out[c][m + 1]
  BY <1>1, TailIs
<1>4. out' \in [Attempts -> Seq(Sent)]
  BY <1>1, <1>3 DEF TakesUp
<1> QED
  BY <1>2, <1>3, <1>4

LEMMA SentBack ==
    ASSUME NEW p \in Sent, NEW q, ComesBack(p, q)
    PROVE  /\ q \in Seq(Replies) /\ Len(q) \in Nat
           /\ \A m \in 1..Len(q) : q[m].id = p.id
<1>1. p.id \in Attempts
  BY QueuedKinds
<1>2. ASSUME NEW n \in 1..MaxParts, q = Reply(p.id, n)
      PROVE  q \in Seq(Replies) /\ \A m \in 1..Len(q) : q[m].id = p.id
  BY <1>1, <1>2, ReplyIs, Kinds
<1>3. CASE q = <<Denial(p.id)>>
  BY <1>1, <1>3, PairIs, PacketTypes, Kinds
<1>4. CASE q = <<Echo(p.id)>>
  BY <1>1, <1>4, PairIs, PacketTypes, Kinds
<1>5. CASE q = << >>
  BY <1>5, PairIs
<1>6. q \in Seq(Replies) /\ \A m \in 1..Len(q) : q[m].id = p.id
  BY <1>2, <1>3, <1>4, <1>5 DEF ComesBack
<1> QED
  BY <1>6, SeqIs

\* No command is run that was not waiting, and then it no longer waits.
LEMMA TakenUpIsCounted ==
    ASSUME RconInv, NEW c \in Attempts, NEW q, TakesUp(c, q), NEW p, p = Head(out[c]),
           \/ ran' = ran
           \/ p.kind = "exec" /\ ran' = [ran EXCEPT ![p.call] = @ + 1]
    PROVE  /\ ran' \in [Calls -> 0..MaxTries] /\ RunsFit'
           /\ \A d \in Attempts : \A m \in DOMAIN out'[d] : out'[d][m].id <= id
<1>1. /\ \A n : Pending(n)' \subseteq Pending(n)
      /\ RunsFit!2'
      /\ \A d \in Attempts : \A m \in DOMAIN out'[d] : out'[d][m].id <= id
  <2> DEFINE s == [d \in Attempts |-> IF d = c THEN 1 ELSE 0]
  <2>1. s \in [Attempts -> {0, 1}] /\ s[c] = 1 /\ \A d \in Attempts : d # c => s[d] = 0
    OBVIOUS
  <2> HIDE DEF s
  <2>2. \A d \in Attempts : DOMAIN out[d] = 1..Len(out[d]) /\ Len(out[d]) \in Nat
    BY TypedNumbers, SeqIs DEF RconInv
  <2>3. ASSUME NEW d \in Attempts, NEW m \in DOMAIN out'[d]
        PROVE  m \in Nat /\ m + s[d] \in DOMAIN out[d] /\ out'[d][m] = out[d][m + s[d]]
    <3>1. CASE d = c
      <4>1. m \in 1..(Len(out[c]) - 1) /\ Len(out[c]) \in Nat
        BY <2>3, <3>1, TakenUp
      <4>2. m \in Nat /\ m + 1 \in 1..Len(out[c])
        BY <4>1
      <4> QED
        BY <2>1, <3>1, <4>1, <4>2, TakenUp
    <3>2. CASE d # c
      <4>0. out'[d] = out[d]
        BY <3>2, TakenUp
      <4>1. out'[d] = out[d] /\ m \in DOMAIN out[d] /\ s[d] = 0
        BY <2>1, <2>3, <3>2, <4>0
      <4>2. m \in Nat /\ m + s[d] = m
        BY <2>2, <4>1
      <4> QED
        BY <4>1, <4>2
    <3> QED
      BY <3>1, <3>2
  <2> QED
    BY <2>1, <2>3, FewerQueued
<1>2. /\ p \in Sent /\ p = out[c][1] /\ 1 \in DOMAIN out[c] /\ p.call \in Calls /\ p.id \in Attempts
  BY TakenUp, QueuedKinds
<1>3. ASSUME p.kind = "exec"
      PROVE  p.id \in Pending(p.call) /\ p.id \notin Pending(p.call)'
  <2>1. p = [kind |-> "exec", id |-> p.id, call |-> p.call]
    BY <1>2, <1>3, QueuedKinds
  <2>2. p.id \in Pending(p.call)
    BY <1>2, <2>1 DEF Pending
  <2>3. ASSUME NEW d \in Attempts, NEW m \in DOMAIN out'[d],
               out'[d][m] = [kind |-> "exec", id |-> p.id, call |-> p.call]
        PROVE  FALSE
    <3>1. out'[d][m].kind = "exec" /\ out'[d][m].id = p.id
      BY <2>3
    <3>2. CASE d = c
      <4>0. m \in 1..(Len(out[c]) - 1) /\ Len(out[c]) \in Nat
        BY <2>3, <3>2, TakenUp
      <4>1. m \in Nat /\ m >= 1 /\ m + 1 \in DOMAIN out[c] /\ out[c][m + 1] = out'[d][m]
        <5>1. m \in Nat /\ m >= 1 /\ m + 1 \in 1..Len(out[c])
          BY <4>0
        <5> QED
          BY <3>2, <4>0, <5>1, TakenUp
      <4>2. 1 = m + 1
        BY <1>2, <1>3, <3>1, <4>1 DEF RconInv, RunsFit
      <4> QED
        BY <4>1, <4>2
    <3>3. CASE d # c
      <4>1. m \in DOMAIN out[d] /\ out[d][m] = out'[d][m]
        BY <2>3, <3>3, TakenUp
      <4> QED
        BY <1>2, <1>3, <3>1, <3>3, <4>1 DEF RconInv, RunsFit
    <3> QED
      BY <3>2, <3>3
  <2>4. p.id \notin Pending(p.call)'
    BY <2>3 DEF Pending
  <2> QED
    BY <2>2, <2>4
<1>4. ASSUME NEW n \in Calls
      PROVE  /\ ran'[n] + Cardinality(Pending(n)') <= SentOf(n)'
             /\ ran'[n] \in 0..MaxTries
  <2>1. ran \in [Calls -> 0..MaxTries] /\ MaxTries = 2
    BY Numbers DEF RconInv, TypeOK
  <2>2. SentOf(n)' = SentOf(n)
    BY DEF SentOf, TakesUp
  <2>3. SentOf(n) \in {0, 1, 2} /\ ran[n] \in Nat
    BY TypedNumbers DEF RconInv
  <2>4. ran[n] + Cardinality(Pending(n)) <= SentOf(n)
    BY DEF RconInv, RunsFit
  <2>5. /\ Cardinality(Pending(n)') \in Nat /\ Cardinality(Pending(n)) \in Nat
        /\ Cardinality(Pending(n)') <= Cardinality(Pending(n))
        /\ \A x \in Pending(n) : x \notin Pending(n)' =>
                Cardinality(Pending(n)') + 1 <= Cardinality(Pending(n))
    BY <1>1, PendingFinite, FewerWait
  <2>6. CASE ran'[n] = ran[n]
    BY <2>1, <2>2, <2>3, <2>4, <2>5, <2>6
  <2>7. CASE ran'[n] # ran[n]
    <3>1. p.kind = "exec" /\ ran' = [ran EXCEPT ![p.call] = @ + 1]
      BY <2>7
    <3>2. p.call = n /\ ran'[n] = ran[n] + 1
      BY <2>1, <2>7, <3>1
    <3>3. p.id \in Pending(n) /\ p.id \notin Pending(n)'
      BY <1>3, <3>1, <3>2
    <3>4. Cardinality(Pending(n)') + 1 <= Cardinality(Pending(n))
      BY <2>5, <3>3
    <3> QED
      BY <2>1, <2>2, <2>3, <2>4, <2>5, <3>2, <3>4
  <2> QED
    BY <2>6, <2>7
<1>5. ran' \in [Calls -> 0..MaxTries]
  <2>1. ran' = ran \/ ran' = [ran EXCEPT ![p.call] = @ + 1]
    OBVIOUS
  <2>3. ran' = [n \in Calls |-> ran'[n]]
    BY <2>1 DEF RconInv, TypeOK
  <2> QED
    BY <1>4, <2>3
<1> QED
  BY <1>1, <1>4, <1>5 DEF RunsFit

LEMMA SingleIs ==
    ASSUME NEW S, NEW s \in Seq(S)
    PROVE  /\ Len(s) = 1 => s = <<s[1]>>
           /\ Len(s) = 0 => s = << >>
OBVIOUS

\* What comes back keeps an answer in front of its echo.
LEMMA TakenUpIsReadFor ==
    ASSUME RconInv, NEW c \in Attempts, NEW q, TakesUp(c, q), NEW p, p = Head(out[c]),
           ComesBack(p, q)
    PROVE  ReadFits'
<1> SUFFICES ASSUME step = "read" PROVE ReadFits'
  BY DEF ReadFits, TakesUp
<1>1. /\ conn \in Attempts /\ ReadFits /\ TypeOK /\ id \in Int
      /\ UNCHANGED <<conn, id, call, body, step>>
  BY TypedNumbers DEF RconInv, NumbersFit, TypeOK, TakesUp
<1>2. p \in Sent /\ p = out[c][1] /\ q \in Seq(Replies) /\ Len(q) \in Nat
      /\ \A m \in 1..Len(q) : q[m].id = p.id
  <2>1. p \in Sent /\ p = out[c][1]
    BY TakenUp
  <2> QED
    BY <2>1, SentBack
<1>3. Exec(id)' = Exec(id) /\ Sentinel(id)' = Sentinel(id) /\ Echo(id)' = Echo(id)
  BY <1>1 DEF Exec, Sentinel, Echo
<1>4. CASE c # conn
  <2>1. out'[conn] = out[conn] /\ in' = in
    BY <1>1, <1>4, TakenUp DEF TakesUp
  <2>2. /\ Length' = Length /\ Length \in Nat /\ \A m \in 1..Length : Packet(m)' = Packet(m)
        /\ \A k : Replied(k, id)' <=> Replied(k, id)
    BY <1>1, <2>1, StreamIs DEF Length, Packet, Replied, Denial, Chunk
  <2>3. (Waiting => Waiting') /\ (Answered => Answered') /\ (Through => Through')
    BY <1>1, <1>3, <2>1, <2>2 DEF Waiting, Answered, Through
  <2> QED
    BY <1>1, <2>3 DEF ReadFits
<1>5. CASE c = conn
  <2>1. PICK L \in Nat : L = Length
    BY <1>1, StreamIs
  <2>2. /\ Length' = L + Len(q)
        /\ \A m \in 1..L : Packet(m)' = Packet(m)
        /\ \A m \in (L + 1)..(L + Len(q)) : Packet(m)' = q[m - L]
    BY <1>1, <1>2, <1>5, <2>1, StreamGrows DEF TakesUp
  <2>3. PICK K \in Nat \ {0} : K = Len(out[conn])
    BY <1>5, TakenUp
  <2>4. /\ Len(out'[conn]) = K - 1 /\ out'[conn] \in Seq(Sent)
        /\ \A m \in 1..(K - 1) : out'[conn][m] = out[conn][m + 1]
    BY <1>1, <1>5, <2>3, TakenUp
  <2>5. CASE Waiting /\ K > 2
    <3>1. /\ out[conn][K - 1] = Exec(id) /\ out[conn][K] = Sentinel(id)
          /\ \A m \in 1..(K - 2) : out[conn][m].id < id
          /\ \A m \in 1..L : Packet(m).id < id
      BY <2>1, <2>3, <2>5 DEF Waiting
    <3>2. p.id < id
      <4>1. 1 \in 1..(K - 2)
        BY <2>5
      <4> QED
        BY <1>2, <1>5, <3>1, <4>1
    <3>3. \A m \in 1..(L + Len(q)) : Packet(m)'.id < id
      <4> SUFFICES ASSUME NEW m \in 1..(L + Len(q)) PROVE Packet(m)'.id < id
        OBVIOUS
      <4>1. m \in 1..L \/ (m \in (L + 1)..(L + Len(q)) /\ m - L \in 1..Len(q))
        BY <1>2
      <4> QED
        BY <1>2, <2>2, <3>1, <3>2, <4>1
    <3>4. /\ K - 1 > 1 /\ K - 2 \in 1..(K - 1) /\ K - 1 \in 1..(K - 1)
          /\ out'[conn][K - 2] = Exec(id) /\ out'[conn][K - 1] = Sentinel(id)
      <4>1. /\ K - 1 > 1 /\ K - 2 \in 1..(K - 1) /\ K - 1 \in 1..(K - 1)
            /\ K - 2 + 1 = K - 1 /\ K - 1 + 1 = K
        BY <2>5
      <4> QED
        BY <2>4, <3>1, <4>1
    <3>5. \A m \in 1..(K - 3) : out'[conn][m].id < id
      <4> SUFFICES ASSUME NEW m \in 1..(K - 3) PROVE out'[conn][m].id < id
        OBVIOUS
      <4>1. m \in 1..(K - 1) /\ m + 1 \in 1..(K - 2)
        OBVIOUS
      <4> QED
        BY <2>4, <3>1, <4>1
    <3>6. /\ Len(out'[conn]) > 1 /\ Len(out'[conn]) - 1 = K - 2 /\ Len(out'[conn]) = K - 1
          /\ Len(out'[conn]) - 2 = K - 3
      BY <2>4, <2>5
    <3>7. Waiting'
      BY <1>1, <1>3, <2>2, <3>3, <3>4, <3>5, <3>6 DEF Waiting
    <3> QED
      BY <3>7 DEF ReadFits
  <2>6. CASE Waiting /\ ~(K > 2)
    <3>1. K = 2 /\ out[conn][1] = Exec(id) /\ out[conn][2] = Sentinel(id)
      <4>1. K > 1
        BY <2>3, <2>6 DEF Waiting
      <4>2. K = 2 /\ K - 1 = 1
        <5>1. K \in Nat /\ ~(K > 2)
          BY <2>3, <2>6
        <5> QED
          BY <4>1, <5>1
      <4> QED
        BY <2>3, <2>6, <4>2 DEF Waiting
    <3>2. \A m \in 1..L : Packet(m).id < id
      BY <2>1, <2>6 DEF Waiting
    <3>3. p = Exec(id) /\ p.kind = "exec" /\ p.id = id
      BY <1>2, <1>5, <3>1, Kinds
    <3>4. out'[conn] = <<Sentinel(id)>>
      <4>1. Len(out'[conn]) = 1 /\ out'[conn][1] = Sentinel(id)
        BY <2>4, <3>1
      <4> QED
        BY <2>4, <4>1, SingleIs
    <3>5. \A m \in 1..L : Packet(m)' # Echo(id)
      BY <1>1, <2>2, <3>2, Kinds
    <3>6. ASSUME NEW n \in 1..MaxParts, q = Reply(id, n)
          PROVE  Answered'
      <4>1. Len(q) = n /\ n \in Nat /\ n >= 1 /\ \A k \in 1..n : q[k] = Chunk(id, n, k)
        <5>1. id \in Attempts
          BY <1>2, <3>3, QueuedKinds
        <5> QED
          BY <3>6, <5>1, ReplyIs, Numbers
      <4>2. \A k \in 1..n : Packet(L + n - n + k)' = Chunk(id, n, k)
        <5> SUFFICES ASSUME NEW k \in 1..n PROVE Packet(L + n - n + k)' = Chunk(id, n, k)
          OBVIOUS
        <5>1. L + n - n + k \in (L + 1)..(L + Len(q)) /\ L + n - n + k - L = k
          BY <4>1
        <5> QED
          BY <2>2, <4>1, <5>1
      <4>3. Length' = L + n /\ L + n \in 1..(L + n) /\ n <= L + n
        BY <2>2, <4>1
      <4>4. Replied(Length, id)'
        BY <1>1, <4>2, <4>3 DEF Replied, Chunk
      <4>5. \A m \in 1..(L + n) : Packet(m)' # Echo(id)
        <5> SUFFICES ASSUME NEW m \in 1..(L + n), ~(m \in 1..L) PROVE Packet(m)' # Echo(id)
          BY <3>5
        <5>1. m \in (L + 1)..(L + Len(q)) /\ m - L \in 1..n
          BY <4>1
        <5> QED
          BY <2>2, <4>1, <5>1, Kinds
      <4> QED
        BY <1>1, <1>3, <3>4, <4>3, <4>4, <4>5 DEF Answered
    <3>7. ASSUME q = <<Denial(id)>>
          PROVE  Answered'
      <4>1. Len(q) = 1 /\ q[1] = Denial(id)
        BY <3>7
      <4>2. Length' = L + 1 /\ Packet(L + 1)' = Denial(id)
        <5>1. L + 1 \in (L + 1)..(L + Len(q)) /\ L + 1 - L = 1
          BY <4>1
        <5> QED
          BY <2>2, <4>1, <5>1
      <4>3. L + 1 > Len(body) /\ L + 1 \in 1..(L + 1)
        BY <1>1, <2>1, StreamIs
      <4>4. Replied(Length, id)'
        BY <1>1, <4>2, <4>3 DEF Replied, Denial
      <4>5. \A m \in 1..(L + 1) : Packet(m)' # Echo(id)
        <5>1. \A m \in 1..(L + 1) : m \in 1..L \/ m = L + 1
          OBVIOUS
        <5> QED
          BY <3>5, <4>2, <5>1, Kinds
      <4> QED
        BY <1>1, <1>3, <3>4, <4>2, <4>4, <4>5 DEF Answered
    <3> QED
      BY <3>3, <3>6, <3>7 DEF ComesBack, ReadFits
  <2>7. CASE Answered
    <3>1. out[conn] = <<Sentinel(id)>> /\ Replied(L, id) /\ \A m \in 1..L : Packet(m) # Echo(id)
      BY <2>1, <2>7 DEF Answered
    <3>2. p = Sentinel(id) /\ p.kind = "sentinel" /\ p.id = id
      BY <1>2, <1>5, <3>1, Kinds
    <3>3. out'[conn] = << >>
      <4>1. Len(out[conn]) = 1
        BY <3>1
      <4>2. Len(out'[conn]) = 0
        BY <2>3, <2>4, <4>1
      <4> QED
        BY <2>4, <4>2, SingleIs
    <3>4. q = <<Echo(id)>> \/ q = << >>
      BY <3>2 DEF ComesBack
    <3>5. Len(q) \in {0, 1}
      BY <3>4
    <3>6. Replied(L, id)'
      <4>1. PICK i : i = id
        OBVIOUS
      <4>2. /\ Length' \in Nat /\ Length \in Nat /\ Length' >= Length
            /\ \A k \in 1..Length : Packet(k)' = Packet(k)
        BY <2>1, <2>2, <3>5
      <4>3. L > Len(body) /\ Packet(L) = Denial(i) => L > Len(body)'
        BY <1>1
      <4>4. Replied(L, i)
        BY <3>1, <4>1
      <4>5. Replied(L, i)'
        BY <2>1, <4>2, <4>3, <4>4, RepliedStays
      <4> QED
        BY <1>1, <4>1, <4>5 DEF Replied, Denial, Chunk
    <3>7. ASSUME NEW m \in 1..(L + Len(q)), Packet(m)' = Echo(id)
          PROVE  Replied(m - 1, id)'
      <4>1. m \notin 1..L
        BY <2>2, <3>1, <3>7
      <4>2. m - 1 = L
        <5>1. m \in Int /\ m >= 1 /\ m <= L + Len(q)
          BY <1>2, <2>1, <3>7
        <5>2. ~(m <= L)
          BY <2>1, <4>1, <5>1
        <5>3. L \in Int /\ Len(q) \in Int /\ Len(q) <= 1
          BY <1>2, <2>1, <3>5
        <5> QED
          BY <5>1, <5>2, <5>3
      <4> QED
        BY <3>6, <4>2
    <3>8. Through'
      BY <1>1, <1>3, <2>2, <3>3, <3>7 DEF Through
    <3> QED
      BY <3>8 DEF ReadFits
  <2>8. CASE Through
    BY <1>5, <2>8 DEF Through, TakesUp
  <2> QED
    BY <1>1, <2>5, <2>6, <2>7, <2>8 DEF ReadFits
<1> QED
  BY <1>4, <1>5

LEMMA ServeKeeps == ASSUME RconInv, NEW c \in Attempts, Serve(c) PROVE RconInv'
<1>1. PICK p : p = Head(out[c])
  OBVIOUS
<1>2. PICK q : /\ TakesUp(c, q) /\ ComesBack(p, q)
               /\ \/ ran' = ran
                  \/ p.kind = "exec" /\ ran' = [ran EXCEPT ![p.call] = @ + 1]
  <2>1. /\ c \notin hung /\ out[c] # << >> /\ out' = [out EXCEPT ![c] = Tail(@)]
        /\ streams' \in {streams, streams \cup {c}}
        /\ UNCHANGED <<conn, dialled, step, call, try, id, fresh, body, answer, echoes, hung>>
    BY DEF Serve, client
  <2>2. CASE /\ p.kind = "exec"
             /\ \E n \in 1..MaxParts : in' = IF c = conn THEN in \o Reply(p.id, n) ELSE in
             /\ ran' = [ran EXCEPT ![p.call] = @ + 1]
    BY <2>1, <2>2 DEF TakesUp, ComesBack
  <2>3. CASE /\ p.kind = "exec"
             /\ in' = IF c = conn THEN in \o <<Denial(p.id)>> ELSE in
             /\ ran' = ran
    BY <2>1, <2>3 DEF TakesUp, ComesBack
  <2>4. CASE /\ p.kind = "sentinel"
             /\ in' = IF c = conn THEN in \o (IF echoes THEN <<Echo(p.id)>> ELSE << >>) ELSE in
             /\ ran' = ran
    BY <2>1, <2>4 DEF TakesUp, ComesBack
  <2> QED
    BY <1>1, <2>2, <2>3, <2>4 DEF Serve, Echo, Denial
<1>3. /\ out' \in [Attempts -> Seq(Sent)] /\ p \in Sent
      /\ \A d \in Attempts : d # c => out'[d] = out[d]
      /\ p = out[c][1] /\ 1 \in DOMAIN out[c]
      /\ DOMAIN out[c] = 1..Len(out[c]) /\ DOMAIN out'[c] = 1..(Len(out[c]) - 1)
      /\ \A m \in 1..(Len(out[c]) - 1) : out'[c][m] = out[c][m + 1]
      /\ Len(out[c]) \in Nat \ {0}
  BY <1>1, <1>2, TakenUp
<1>4. q \in Seq(Replies) /\ Len(q) \in Nat /\ \A m \in 1..Len(q) : q[m].id = p.id
  BY <1>2, <1>3, SentBack
<1>5. /\ UNCHANGED <<conn, dialled, step, call, try, id, fresh, body, answer, echoes, hung>>
      /\ streams' \in {streams, streams \cup {c}}
      /\ c \notin hung /\ out[c] # << >> /\ in' = IF c = conn THEN in \o q ELSE in
  BY <1>2 DEF TakesUp
<1>6. /\ ran' \in [Calls -> 0..MaxTries] /\ RunsFit'
      /\ \A d \in Attempts : \A m \in DOMAIN out'[d] : out'[d][m].id <= id
  BY <1>1, <1>2, TakenUpIsCounted
<1>7. \A m \in DOMAIN in' : \/ m \in DOMAIN in /\ in'[m] = in[m]
                            \/ c = conn /\ in'[m].id = p.id
  <2>1. CASE c # conn
    BY <1>5, <2>1
  <2>2. CASE c = conn
    <3>1. in \in Seq(Replies) /\ Len(in) \in Nat /\ DOMAIN in = 1..Len(in) /\ in' = in \o q
      BY <1>5, <2>2, TypedNumbers, SeqIs DEF RconInv
    <3>2. /\ DOMAIN (in \o q) = 1..(Len(in) + Len(q))
          /\ \A m \in 1..Len(in) : (in \o q)[m] = in[m]
          /\ \A m \in (Len(in) + 1)..(Len(in) + Len(q)) : (in \o q)[m] = q[m - Len(in)]
      BY <1>4, <3>1, JoinIs
    <3> SUFFICES ASSUME NEW m \in 1..(Len(in) + Len(q)), m \notin DOMAIN in
                 PROVE  in'[m].id = p.id
      BY <2>2, <3>1, <3>2
    <3>3. m \in (Len(in) + 1)..(Len(in) + Len(q)) /\ m - Len(in) \in 1..Len(q)
      BY <1>4, <3>1
    <3> QED
      BY <1>4, <3>1, <3>2, <3>3
  <2> QED
    BY <2>1, <2>2
<1>8. TypeOK'
  <2>1. in' \in Seq(Replies)
    BY <1>4, <1>5, TypedNumbers, JoinIs DEF RconInv
  <2> QED
    BY <1>3, <1>5, <1>6, <2>1 DEF RconInv, TypeOK
<1>9. ReadFits'
  BY <1>1, <1>2, TakenUpIsReadFor
<1>10. NumbersFit'
  <2>1. Turn' = Turn
    BY <1>5 DEF Turn
  <2>2. p.id <= id
    BY <1>3 DEF RconInv, NumbersFit
  <2>3. \A m \in DOMAIN in' : in'[m].id <= id
    BY <1>7, <2>2 DEF RconInv, NumbersFit
  <2>4. \A d \in Attempts : d > dialled \/ d \in hung => out'[d] = << >>
    BY <1>3, <1>5 DEF RconInv, NumbersFit
  <2>5. c # 0
    BY Numbers
  <2>6. conn = 0 => in' = << >>
    BY <1>5, <2>5 DEF RconInv, NumbersFit
  <2> QED
    BY <1>5, <1>6, <2>1, <2>3, <2>4, <2>6 DEF RconInv, NumbersFit
<1>11. FreshFits'
  <2>1. c = conn /\ step = "send" => ~fresh
    BY <1>5 DEF RconInv, FreshFits
  <2>2. step \in {"send", "read"} => conn \in Attempts
    BY DEF RconInv, NumbersFit, TypeOK
  <2>3. step = "send" /\ fresh => in' = << >> /\ out'[conn] = << >>
    BY <1>3, <1>5, <2>1, <2>2 DEF RconInv, FreshFits
  <2>4. ASSUME step = "read", fresh
        PROVE  /\ \A m \in DOMAIN out'[conn] : out'[conn][m].id = id
               /\ \A m \in DOMAIN in' : in'[m].id = id
    <3>1. /\ \A m \in DOMAIN out[conn] : out[conn][m].id = id
          /\ \A m \in DOMAIN in : in[m].id = id
      BY <2>4 DEF RconInv, FreshFits
    <3>2. \A m \in DOMAIN in' : in'[m].id = id
      BY <1>3, <1>7, <3>1
    <3>3. CASE c # conn
      BY <1>3, <2>2, <2>4, <3>1, <3>2, <3>3
    <3>4. CASE c = conn
      <4>1. \A m \in DOMAIN out'[c] : m + 1 \in DOMAIN out[c] /\ out'[c][m] = out[c][m + 1]
        <5>1. \A m \in 1..(Len(out[c]) - 1) : m + 1 \in 1..Len(out[c])
          BY <1>3
        <5> QED
          BY <1>3, <5>1
      <4> QED
        BY <3>1, <3>2, <3>4, <4>1
    <3> QED
      BY <3>3, <3>4
  <2> QED
    BY <1>5, <2>3, <2>4 DEF RconInv, FreshFits, OwnPart
<1>12. AnswerFits'
  BY <1>5 DEF RconInv, AnswerFits, EchoMeansComplete, FreshAnswerIsOwn
<1> QED
  BY <1>6, <1>8, <1>9, <1>10, <1>11, <1>12 DEF RconInv

---------------------------------------------------------------------------
(***************************************************************************)
(* The theorem.                                                            *)
(***************************************************************************)

LEMMA RconInitially == Init => RconInv
<1> SUFFICES ASSUME Init PROVE RconInv
  OBVIOUS
<1> USE DEF Init
<1>1. TypeOK
  <2>1. << >> \in Seq(Sent) /\ << >> \in Seq(Replies)
    OBVIOUS
  <2>2. answer \in [result : Results, body : Seq(Replies), echoed : BOOLEAN,
                    id : Attempts \cup {0}, fresh : BOOLEAN]
    BY <2>1 DEF NoAnswer, Results
  <2> QED
    <3>1. 1 \in 1..MaxTries /\ 0 \in 0..MaxTries
      BY Numbers
    <3>2. ran \in [Calls -> 0..MaxTries] /\ out \in [Attempts -> Seq(Sent)]
      BY <2>1, <3>1
    <3> QED
      BY <2>1, <2>2, <3>1, <3>2 DEF TypeOK
<1>2. DOMAIN << >> = {} /\ \A c \in Attempts : out[c] = << >>
  OBVIOUS
<1>3. ReadFits /\ FreshFits /\ AnswerFits
  BY Numbers DEF ReadFits, FreshFits, AnswerFits, EchoMeansComplete, FreshAnswerIsOwn, NoAnswer
<1>4. NumbersFit
  BY <1>2 DEF NumbersFit
<1>5. RunsFit
  <2>1. ASSUME NEW n \in Calls
        PROVE  ran[n] + Cardinality(Pending(n)) <= SentOf(n)
    <3>1. Pending(n) = {} /\ ran[n] = 0
      BY <1>2 DEF Pending
    <3>2. Cardinality({}) = 0
      BY FS_EmptySet
    <3>3. SentOf(n) \in {0, 1, 2}
      BY <1>1, TypedNumbers
    <3> QED
      BY <3>1, <3>2, <3>3
  <2> QED
    BY <1>2, <2>1 DEF RunsFit
<1> QED
  BY <1>1, <1>3, <1>4, <1>5 DEF RconInv

LEMMA RconStays == RconInv /\ [Next]_vars => RconInv'
<1> SUFFICES ASSUME RconInv, [Next]_vars PROVE RconInv'
  OBVIOUS
<1>1. CASE Next
  BY <1>1, ExecBeginsKeeps, ConnectKeeps, SendKeeps, ReadKeeps, TimesOutKeeps, ReadsEOFKeeps,
     CloseKeeps, ServeKeeps, HangUpKeeps DEF Next, ClientStep
<1>2. CASE UNCHANGED vars
  <2>1. UNCHANGED <<echoes, conn, dialled, step, call, try, id, fresh, body, answer, out, in, hung, streams, ran>>
    BY <1>2 DEF vars
  <2>2. TypeOK'
    BY <2>1 DEF RconInv, TypeOK
  <2>3. ReadFits'
    <3>1. Length' = Length /\ (\A m : Packet(m)' = Packet(m)) /\ step' = step
      BY <2>1 DEF Length, Packet
    <3>2. \A m : Replied(m, id) => Replied(m, id)'
      BY <2>1, <3>1 DEF Replied, Denial, Chunk
    <3>3. Waiting => Waiting'
      BY <2>1, <3>1 DEF Waiting, Exec, Sentinel
    <3>4. Answered => Answered'
      <4>1. Answered => Replied(Length, id)'
        BY <2>1, <3>1 DEF Answered, Replied, Denial, Chunk
      <4> QED
        BY <2>1, <3>1, <4>1 DEF Answered, Sentinel, Echo
    <3>5. Through => Through'
      BY <2>1, <3>1, <3>2 DEF Through, Echo
    <3> QED
      BY <3>1, <3>3, <3>4, <3>5 DEF RconInv, ReadFits
  <2>4. NumbersFit'
    BY <2>1 DEF RconInv, NumbersFit, Turn
  <2>5. FreshFits'
    BY <2>1 DEF RconInv, FreshFits, OwnPart
  <2>6. RunsFit'
    <3>1. ASSUME NEW n \in Calls
          PROVE  SentOf(n) <= SentOf(n)'
      <4>1. SentOf(n)' = SentOf(n)
        BY <2>1 DEF SentOf
      <4>2. SentOf(n) \in {0, 1, 2}
        BY TypedNumbers DEF RconInv
      <4> QED
        BY <4>1, <4>2
    <3> QED
      BY <2>1, <2>2, <3>1, RunsKept DEF RconInv
  <2>7. AnswerFits'
    BY <2>1 DEF RconInv, AnswerFits, EchoMeansComplete, EndsWithReply, Reply, FreshAnswerIsOwn, OwnPart
  <2> QED
    BY <2>2, <2>3, <2>4, <2>5, <2>6, <2>7 DEF RconInv
<1> QED
  BY <1>1, <1>2

LEMMA RconHolds == RconInv => TypeOK /\ EchoMeansComplete /\ FreshAnswerIsOwn /\ RunsAtMostTwice
<1> SUFFICES ASSUME RconInv PROVE RunsAtMostTwice
  BY DEF RconInv, AnswerFits
<1> SUFFICES ASSUME NEW n \in Calls
             PROVE  ran[n] <= (IF n < call THEN MaxTries ELSE IF n = call THEN try ELSE 0)
  BY DEF RunsAtMostTwice
<1>1. /\ n \in Nat /\ call \in Nat /\ try \in {1, 2} /\ ran[n] \in Nat /\ SentOf(n) \in {0, 1, 2}
      /\ Cardinality(Pending(n)) \in Nat
      /\ ran[n] + Cardinality(Pending(n)) <= SentOf(n)
  BY TypedNumbers, PendingFinite DEF RconInv, RunsFit
<1>2. ran[n] <= SentOf(n)
  BY <1>1
<1>3. SentOf(n) <= (IF n < call THEN MaxTries ELSE IF n = call THEN try ELSE 0)
  BY <1>1, Numbers DEF SentOf
<1> QED
  BY <1>1, <1>2, <1>3, Numbers

\* Exec's promises: an answer ended by its sentinel's echo is whole, an
\* answer over a connection of its own holds nothing of other commands, and
\* no command is run more than twice, however many commands there are and
\* however many packets a reply has.
THEOREM ExecStaysSound == PackagesSpec => []ExecIsSound
<1> DEFINE Inv == topic = "rcon" => RconInv
<1>1. PackagesInit => Inv
  BY RconInitially DEF PackagesInit
<1>2. Inv /\ [PackagesNext]_packagesVars => Inv'
  <2> SUFFICES ASSUME Inv, [PackagesNext]_packagesVars, topic' = "rcon" PROVE RconInv'
    OBVIOUS
  <2>1. topic = "rcon" /\ [Next]_vars
    BY DEF PackagesNext, packagesVars, vars
  <2> QED
    BY <2>1, RconStays
<1>3. Inv => ExecIsSound
  BY RconHolds DEF ExecIsSound
<1> QED
  BY <1>1, <1>2, <1>3, PTL DEF PackagesSpec

---------------------------------------------------------------------------
(***************************************************************************)
(* LoadOrder: Kahn's algorithm.  What is placed are all predecessors of it; *)
(* what can no longer be placed are exactly the mods a loop holds up; and   *)
(* on a list that is in order already the next mod placed is the next mod  *)
(* of the list.                                                            *)
(***************************************************************************)

FirstIn(l, m) == Min({k \in DOMAIN l : l[k][1] = m})
Listing == Seq(ModIDs \X Spellings)

\* What a list in order is: no mod twice, every rule kept outside the loops,
\* what a loop holds up behind the rest.
InOrder(l) ==
    /\ \A j \in DOMAIN l, k \in DOMAIN l : l[j][1] = l[k][1] => j = k
    /\ \A j \in DOMAIN l, k \in DOMAIN l :
          Precedes(l[j][1], l[k][1]) /\ l[k][1] \notin Endless => j < k
    /\ \A j \in DOMAIN l, k \in DOMAIN l :
          l[j][1] \notin Endless /\ l[k][1] \in Endless => j < k

\* l holds the mods ms, in their first spelling.
Holds(l, ms) ==
    /\ \A k \in DOMAIN l : l[k][1] \in ms /\ l[k] = Canonical(l[k][1])
    /\ \A m \in ms : \E k \in DOMAIN l : l[k][1] = m

Placed == Present \ DOMAIN waits
Awaited(m) == {e \in Edges : e[1] \in DOMAIN waits /\ e[2] = m}

WaitsFit ==
    /\ DOMAIN waits \subseteq Present /\ Endless \subseteq DOMAIN waits
    /\ \A m \in DOMAIN waits : waits[m] = Cardinality(Awaited(m))

PlacingFits ==
    /\ WaitsFit /\ Holds(sorted, Placed)
    /\ \A j \in DOMAIN sorted, k \in DOMAIN sorted : sorted[j][1] = sorted[k][1] => j = k
    /\ \A k \in DOMAIN sorted : \A a \in Present :
          Precedes(a, sorted[k][1]) => \E j \in DOMAIN sorted : j < k /\ sorted[j][1] = a
    /\ InOrder(list) =>
          Len(sorted) <= Len(list) /\ \A k \in DOMAIN sorted : sorted[k] = list[k]

DoneFits ==
    /\ Holds(sorted, Present) /\ InOrder(sorted)
    /\ report.cycle = Endless
    /\ InOrder(list) => sorted = list /\ ~report.changed

OrderInv ==
    /\ list \in Listing /\ sorted \in Listing /\ DOMAIN report = DOMAIN NoReport
    /\ round \in Nat /\ phase \in {"start", "placing", "done"}
    /\ round > 1 => InOrder(list)
    /\ phase = "placing" => PlacingFits
    /\ phase = "done" => DoneFits

LEMMA LessIsWellFounded ==
    \E R : IsWellFoundedOn(R, Nat) /\ \A x, y \in Nat : x < y => <<x, y>> \in R
<1>1. \A x, y \in Nat : x < y => <<x, y>> \in OpToRel(<, Nat)
  BY DEF OpToRel
<1> QED
  BY <1>1, NatLessThanWellFounded

LEMMA SmallestIn ==
    ASSUME NEW R, IsWellFoundedOn(R, Nat), NEW T, T \subseteq Nat, T # {}
    PROVE  \E m \in T : \A k \in T : ~(<<k, m>> \in R)
BY WFMin, Zenon

LEMMA Smallest ==
    ASSUME NEW T \in SUBSET Nat, T # {}
    PROVE  \E m \in T : \A k \in T : m <= k
<1>1. PICK R : IsWellFoundedOn(R, Nat) /\ \A x, y \in Nat : x < y => <<x, y>> \in R
  BY LessIsWellFounded
<1>2. T \subseteq Nat
  OBVIOUS
<1>3. \E m \in T : \A k \in T : ~(<<k, m>> \in R)
  BY <1>1, <1>2, SmallestIn
<1>4. \E m \in T : \A k \in T : ~(k < m)
  BY <1>1, <1>2, <1>3
<1> QED
  BY <1>2, <1>4

\* The elements of a finite set of numbers have the ranks 1, 2, ... in order.
LEMMA RanksAre ==
    ASSUME NEW K \in SUBSET Nat, IsFiniteSet(K)
    PROVE  /\ \A k \in 1..Cardinality(K) : \E n \in K : Cardinality({m \in K : m <= n}) = k
           /\ \A n \in K : Cardinality({m \in K : m <= n}) \in 1..Cardinality(K)
           /\ \A n \in K, o \in K :
                 Cardinality({m \in K : m <= n}) = Cardinality({m \in K : m <= o}) => n = o
<1> DEFINE Upto(n) == {m \in K : m <= n}
           c == Cardinality(K)
           rank == [n \in K |-> Cardinality(Upto(n))]
<1>1. c \in Nat /\ IsFiniteSet(1..c) /\ Cardinality(1..c) = c
  BY FS_CardinalityType, FS_Interval
<1>2. ASSUME NEW n \in K
      PROVE  IsFiniteSet(Upto(n)) /\ Cardinality(Upto(n)) \in 1..c
  <2>1. Upto(n) \in SUBSET K /\ n \in Upto(n)
    OBVIOUS
  <2>2. IsFiniteSet(Upto(n)) /\ Cardinality(Upto(n)) <= c /\ Cardinality(Upto(n)) \in Nat
    BY <2>1, FS_Subset, FS_CardinalityType
  <2>3. Cardinality(Upto(n)) # 0
    BY <2>1, <2>2, FS_EmptySet
  <2> HIDE DEF Upto, c
  <2> QED
    BY <1>1, <2>2, <2>3
<1>3. ASSUME NEW n \in K, NEW m \in K, n < m
      PROVE  Cardinality(Upto(n)) # Cardinality(Upto(m))
  <2>0. n \in Nat /\ m \in Nat /\ m <= m /\ ~(m <= n)
    BY <1>3
  <2>2. \A k \in K : k <= n => k <= m
    <3>1. \A k \in Nat : k <= n => k <= m
      BY <1>3, <2>0
    <3> QED
      BY <3>1
  <2>1. Upto(n) \in SUBSET Upto(m) /\ m \in Upto(m) /\ m \notin Upto(n)
    BY <2>0, <2>2, Zenon
  <2> QED
    BY <1>2, <2>1, FS_Subset
<1> HIDE DEF Upto, c
<1>4. ASSUME NEW n \in K, NEW m \in K, Cardinality(Upto(n)) = Cardinality(Upto(m)) PROVE n = m
  <2>1. ~(n < m) /\ ~(m < n)
    BY <1>3, <1>4
  <2>2. n \in Nat /\ m \in Nat
    OBVIOUS
  <2> QED
    BY <2>1, <2>2
<1>5. rank \in Injection(K, 1..c)
  <2>1. rank \in [K -> 1..c]
    <3>1. \A n \in K : Cardinality(Upto(n)) \in 1..c
      BY <1>2
    <3> QED
      BY <3>1, Zenon
  <2>2. \A n, m \in K : rank[n] = rank[m] => n = m
    BY <1>4
  <2> HIDE DEF rank
  <2> QED
    BY <2>1, <2>2 DEF Injection, IsInjective
<1>6. rank \in Surjection(K, 1..c)
  BY <1>1, <1>5, FS_Injection DEF c
<1>7. \A k \in 1..c : \E n \in K : rank[n] = k
  BY <1>6 DEF Surjection
<1> QED
  BY <1>2, <1>4, <1>7 DEF c, Upto

LEMMA UpToIs ==
    ASSUME NEW n \in Nat
    PROVE  IsFiniteSet(1..n) /\ Cardinality(1..n) = n
BY FS_Interval

LEMMA SpanIs ==
    ASSUME NEW i \in Nat, NEW n \in Nat, i <= n
    PROVE  Cardinality((i + 1)..n) = n - i
<1>1. i + 1 \in Int /\ n \in Int
  OBVIOUS
<1>2. Cardinality((i + 1)..n) = IF i + 1 > n THEN 0 ELSE n - (i + 1) + 1
  BY <1>1, FS_Interval
<1> QED
  BY <1>2

LEMMA SameLength ==
    ASSUME NEW i \in Nat, NEW n \in Nat, 1..i = 1..n
    PROVE  i = n
BY UpToIs

LEMMA EntriesMake ==
    ASSUME NEW n \in Nat, NEW S, NEW l, l = [k \in 1..n |-> l[k]], \A k \in 1..n : l[k] \in S
    PROVE  l \in Seq(S)
OBVIOUS

LEMMA EntriesOf ==
    ASSUME NEW l \in Listing
    PROVE  /\ DOMAIN l = 1..Len(l) /\ Len(l) \in Nat
           /\ \A k \in DOMAIN l : l[k] \in ModIDs \X Spellings /\ l[k][1] \in ModIDs
BY DEF Listing

LEMMA SameEntries ==
    ASSUME NEW l \in Listing, NEW r \in Listing, Len(l) = Len(r),
           \A k \in 1..Len(l) : l[k] = r[k]
    PROVE  l = r
BY DEF Listing

LEMMA FirstPlace ==
    ASSUME NEW l \in Listing, NEW m, NEW i \in DOMAIN l, l[i][1] = m
    PROVE  /\ FirstIn(l, m) \in DOMAIN l /\ l[FirstIn(l, m)][1] = m
           /\ \A k \in DOMAIN l : l[k][1] = m => FirstIn(l, m) <= k
<1> DEFINE K == {k \in DOMAIN l : l[k][1] = m}
<1>1. K \in SUBSET Nat /\ K # {}
  BY EntriesOf
<1>2. \E p \in K : \A k \in K : p <= k
  BY <1>1, Smallest
<1>3. FirstIn(l, m) \in K /\ \A k \in K : FirstIn(l, m) <= k
  BY <1>2 DEF FirstIn, Min
<1> QED
  BY <1>3

LEMMA PositionIs ==
    ASSUME list \in Listing, NEW m \in Present
    PROVE  /\ Position(m) \in DOMAIN list /\ Position(m) \in Nat /\ list[Position(m)][1] = m
           /\ \A k \in DOMAIN list : list[k][1] = m => Position(m) <= k
           /\ Canonical(m) = list[Position(m)] /\ Canonical(m)[1] = m
           /\ Canonical(m) \in ModIDs \X Spellings
<1>1. PICK i \in DOMAIN list : list[i][1] = m
  BY DEF Present, ToSet
<1>2. Position(m) = FirstIn(list, m)
  BY DEF Position, FirstIn
<1> QED
  BY <1>1, <1>2, FirstPlace, EntriesOf DEF Canonical

LEMMA PresentIs ==
    ASSUME list \in Listing
    PROVE  /\ \A k \in DOMAIN list : list[k][1] \in Present
           /\ \A m \in Present : \E k \in DOMAIN list : list[k][1] = m
           /\ IsFiniteSet(Present) /\ Cardinality(Present) \in Nat
           /\ Len(list) = Cardinality(Present) =>
                 \A j \in DOMAIN list, k \in DOMAIN list : list[j][1] = list[k][1] => j = k
<1>1. /\ \A k \in DOMAIN list : list[k][1] \in Present
      /\ \A m \in Present : \E k \in DOMAIN list : list[k][1] = m
  BY DEF Present, ToSet
<1> DEFINE f == [k \in DOMAIN list |-> list[k][1]]
<1>2. IsFiniteSet(DOMAIN list) /\ Cardinality(DOMAIN list) = Len(list)
  <2>1. DOMAIN list = 1..Len(list) /\ Len(list) \in Nat
    BY EntriesOf
  <2>2. IsFiniteSet(1..Len(list)) /\ Cardinality(1..Len(list)) = Len(list)
    BY <2>1, UpToIs
  <2> QED
    BY <2>1, <2>2
<1>3. f \in Surjection(DOMAIN list, Present)
  BY <1>1 DEF Surjection
<1>4. IsFiniteSet(Present) /\ Cardinality(Present) \in Nat
  BY <1>2, <1>3, FS_Surjection, FS_CardinalityType
<1>5. Len(list) = Cardinality(Present) => f \in Injection(DOMAIN list, Present)
  BY <1>2, <1>3, FS_Surjection
<1>6. Len(list) = Cardinality(Present) =>
         \A j, k \in DOMAIN list : f[j] = f[k] => j = k
  BY <1>5 DEF Injection, IsInjective
<1> QED
  BY <1>1, <1>4, <1>6

LEMMA EdgesAre ==
    ASSUME list \in Listing
    PROVE  /\ \A a, b : <<a, b>> \in Edges <=> Precedes(a, b)
           /\ \A e \in Edges : e = <<e[1], e[2]>>
           /\ IsFiniteSet(Edges)
           /\ \A T \in SUBSET Edges : IsFiniteSet(T) /\ Cardinality(T) \in Nat
<1>1. Edges \subseteq Present \X Present
  BY DEF Edges
<1>2. IsFiniteSet(Present \X Present)
  BY PresentIs, FS_Product
<1>3. IsFiniteSet(Edges)
  BY <1>1, <1>2, FS_Subset
<1>4. \A T \in SUBSET Edges : IsFiniteSet(T) /\ Cardinality(T) \in Nat
  BY <1>3, FS_Subset, FS_CardinalityType
<1>5. \A e \in Edges : e = <<e[1], e[2]>>
  BY <1>1
<1>6. ASSUME NEW a, NEW b
      PROVE  <<a, b>> \in Edges <=> Precedes(a, b)
  <2> DEFINE e == <<a, b>>
  <2>1. e[1] = a /\ e[2] = b /\ (e \in Present \X Present <=> a \in Present /\ b \in Present)
    OBVIOUS
  <2> QED
    BY <2>1 DEF Edges, Precedes
<1> QED
  BY <1>3, <1>4, <1>5, <1>6

LEMMA EndlessIs ==
    /\ Endless \subseteq Present
    /\ \A b \in Endless : \E a \in Endless : Precedes(a, b)
    /\ \A T \in SUBSET Present : (\A b \in T : \E a \in T : Precedes(a, b)) => T \subseteq Endless
BY DEF Endless

LEMMA RulesKept ==
    ASSUME Present' = Present, info' = info, extra' = extra
    PROVE  /\ Endless' = Endless
           /\ \A a, b : Precedes(a, b)' <=> Precedes(a, b)
<1>1. ASSUME NEW a, NEW b PROVE Precedes(a, b)' <=> Precedes(a, b)
  BY DEF Precedes, RulesFor
<1>2. Endless' = Endless
  BY <1>1 DEF Endless
<1> QED
  BY <1>1, <1>2

\* In a sorting that holds every mod once there is one entry for each of them.
LEMMA OneEach ==
    ASSUME list \in Listing, NEW l \in Listing, Holds(l, Present),
           \A j \in DOMAIN l, k \in DOMAIN l : l[j][1] = l[k][1] => j = k
    PROVE  /\ Len(l) = Cardinality(Present)
           /\ ToSet(l) = {Canonical(m) : m \in Present}
<1> DEFINE f == [k \in DOMAIN l |-> l[k][1]]
<1>1. /\ DOMAIN l = 1..Len(l) /\ Len(l) \in Nat
      /\ IsFiniteSet(1..Len(l)) /\ Cardinality(1..Len(l)) = Len(l)
  <2>1. DOMAIN l = 1..Len(l) /\ Len(l) \in Nat
    BY EntriesOf
  <2> QED
    BY <2>1, UpToIs
<1>2. f \in Surjection(DOMAIN l, Present)
  BY DEF Surjection, Holds
<1>3. f \in Injection(DOMAIN l, Present)
  BY <1>2 DEF Surjection, Injection, IsInjective
<1>4. Len(l) = Cardinality(Present)
  BY <1>1, <1>2, <1>3, FS_Surjection
<1>5. ToSet(l) = {Canonical(m) : m \in Present}
  BY DEF ToSet, Holds
<1> QED
  BY <1>4, <1>5

\* A list without duplicates that keeps the rules has no loop: it is in order.
LEMMA KeptIsInOrder ==
    ASSUME list \in Listing, Keeps(list), Len(list) = Cardinality(Present)
    PROVE  InOrder(list)
<1>1. \A j \in DOMAIN list, k \in DOMAIN list : list[j][1] = list[k][1] => j = k
  BY PresentIs
<1>2. ASSUME NEW j \in DOMAIN list, NEW k \in DOMAIN list, Precedes(list[j][1], list[k][1])
      PROVE  j < k
  <2>1. ~(k < j)
    BY <1>2 DEF Keeps
  <2>2. j # k
    BY <1>2 DEF Precedes
  <2>3. j \in Nat /\ k \in Nat
    BY EntriesOf
  <2> QED
    BY <2>1, <2>2, <2>3
<1>3. Endless = {}
  <2> SUFFICES ASSUME Endless # {} PROVE FALSE
    OBVIOUS
  <2> DEFINE K == {k \in DOMAIN list : list[k][1] \in Endless}
  <2>1. K \in SUBSET Nat /\ K # {}
    BY EntriesOf, PresentIs, EndlessIs
  <2>2. PICK p \in K : \A k \in K : p <= k
    BY <2>1, Smallest
  <2>3. PICK a \in Endless : Precedes(a, list[p][1])
    BY <2>2, EndlessIs
  <2>4. PICK j \in DOMAIN list : list[j][1] = a
    BY <2>3, PresentIs, EndlessIs
  <2>5. j \in K /\ j < p /\ p <= j
    BY <1>2, <2>2, <2>3, <2>4
  <2>6. j \in Nat /\ p \in Nat
    BY <2>1, <2>5
  <2> QED
    BY <2>5, <2>6
<1> QED
  BY <1>1, <1>2, <1>3 DEF InOrder

LEMMA OrderHolds == OrderInv => SortedByTheRules /\ SortIsSettled
<1> SUFFICES ASSUME OrderInv, phase = "done" PROVE SortedByTheRules /\ SortIsSettled
  BY DEF SortedByTheRules, SortIsSettled
<1>0. DoneFits /\ list \in Listing /\ sorted \in Listing
  BY DEF OrderInv
<1>1. Len(sorted) = Cardinality(Present) /\ ToSet(sorted) = {Canonical(m) : m \in Present}
  BY <1>0, OneEach DEF DoneFits, InOrder
<1>2. ASSUME NEW m \in Present
      PROVE  PlaceOf(m) \in DOMAIN sorted /\ sorted[PlaceOf(m)][1] = m
  BY <1>0 DEF PlaceOf, DoneFits, Holds
<1>3. ASSUME NEW a \in Present, NEW b \in Present \ Endless, Precedes(a, b)
      PROVE  PlaceOf(a) < PlaceOf(b)
  BY <1>0, <1>2, <1>3 DEF DoneFits, InOrder
<1>4. ASSUME NEW m \in Present \ Endless, NEW o \in Endless
      PROVE  PlaceOf(m) < PlaceOf(o)
  <2>1. o \in Present
    BY EndlessIs
  <2> QED
    BY <1>0, <1>2, <2>1 DEF DoneFits, InOrder
<1>5. SortedByTheRules
  BY <1>0, <1>1, <1>3, <1>4 DEF SortedByTheRules, DoneFits
<1>6. (Keeps(list) /\ Len(list) = Cardinality(Present)) \/ round > 1 => InOrder(list)
  BY <1>0, KeptIsInOrder DEF OrderInv
<1>7. SortIsSettled
  BY <1>0, <1>6 DEF SortIsSettled, DoneFits
<1> QED
  BY <1>5, <1>7

LEMMA OrderInitially == OrderInit => OrderInv
<1> SUFFICES ASSUME OrderInit PROVE OrderInv
  OBVIOUS
<1>1. list \in Listing
  BY OrderAssumption DEF OrderInit, Listing
<1>2. sorted \in Listing
  BY DEF OrderInit, Listing
<1> QED
  BY <1>1, <1>2 DEF OrderInit, OrderInv

LEMMA BeginsStays == OrderInv /\ SortBegins => OrderInv'
<1> SUFFICES ASSUME OrderInv, SortBegins PROVE OrderInv'
  OBVIOUS
<1>0. list \in Listing /\ UNCHANGED <<list, info, extra, round>> /\ sorted' = << >> /\ phase' = "placing"
  BY DEF OrderInv, SortBegins
<1>1. Present' = Present /\ Edges' = Edges /\ Canonical(0)' = Canonical(0)
  BY <1>0 DEF Present, Edges, RulesFor, Canonical, Position
<1>2. Endless' = Endless /\ \A a, b : Precedes(a, b)' <=> Precedes(a, b)
  BY <1>0, <1>1, RulesKept
<1>3. InOrder(list)' <=> InOrder(list)
  BY <1>0, <1>2 DEF InOrder
<1>4. DOMAIN waits' = Present /\ \A m \in Present : waits'[m] = Cardinality({e \in Edges : e[2] = m})
  BY DEF SortBegins
<1>5. ASSUME NEW m \in Present
      PROVE  waits'[m] = Cardinality(Awaited(m)')
  <2>1. Awaited(m)' = {e \in Edges : e[2] = m}
    BY <1>1, <1>4 DEF Awaited, Edges
  <2> QED
    BY <1>4, <2>1
<1>6. WaitsFit'
  BY <1>1, <1>2, <1>4, <1>5, EndlessIs DEF WaitsFit
<1>7. Holds(sorted, Placed)'
  BY <1>0, <1>1, <1>4 DEF Holds, Placed
<1>8. PlacingFits'
  <2>1. sorted' = << >> /\ DOMAIN sorted' = {} /\ Len(sorted') = 0 /\ Len(list') \in Nat
    BY <1>0, EntriesOf
  <2> QED
    BY <1>6, <1>7, <2>1 DEF PlacingFits
<1>9. DOMAIN report' = DOMAIN NoReport
  BY DEF SortBegins
<1> QED
  BY <1>0, <1>3, <1>8, <1>9 DEF OrderInv, Listing

LEMMA AgainStays == OrderInv /\ SortsAgain => OrderInv'
<1> SUFFICES ASSUME OrderInv, SortsAgain PROVE OrderInv'
  OBVIOUS
<1>0. /\ DoneFits /\ list \in Listing /\ sorted \in Listing /\ list' = sorted
      /\ UNCHANGED <<info, extra, sorted, report>> /\ phase' = "start" /\ round' \in Nat
  BY DEF OrderInv, SortsAgain
<1>1. Present' = Present
  <2>1. ASSUME NEW m PROVE m \in Present' <=> \E k \in DOMAIN sorted : sorted[k][1] = m
    BY <1>0 DEF Present, ToSet
  <2>2. ASSUME NEW m PROVE m \in Present <=> \E k \in DOMAIN sorted : sorted[k][1] = m
    BY <1>0 DEF DoneFits, Holds
  <2> QED
    BY <2>1, <2>2
<1>2. Endless' = Endless /\ \A a, b : Precedes(a, b)' <=> Precedes(a, b)
  BY <1>0, <1>1, RulesKept
<1>3. InOrder(list)'
  BY <1>0, <1>2 DEF InOrder, DoneFits
<1> QED
  BY <1>0, <1>3 DEF OrderInv

\* What is placed next has no rule left to wait for, and is not in a loop.
LEMMA NextOneIs ==
    ASSUME OrderInv, WaitsFit, ReadyMods # {}
    PROVE  /\ EarliestReady \in ReadyMods
           /\ \A o \in ReadyMods : Position(EarliestReady) <= Position(o)
<1> DEFINE K == {Position(m) : m \in ReadyMods}
<1>0. list \in Listing /\ ReadyMods \subseteq Present
  BY DEF OrderInv, WaitsFit, ReadyMods
<1>1. K \in SUBSET Nat /\ K # {}
  BY <1>0, PositionIs
<1>2. \E p \in K : \A k \in K : p <= k
  BY <1>1, Smallest
<1>3. \E m \in ReadyMods : \A o \in ReadyMods : Position(m) <= Position(o)
  BY <1>2
<1> QED
  BY <1>3 DEF EarliestReady

LEMMA ReadyMeans ==
    ASSUME OrderInv, WaitsFit, NEW m \in DOMAIN waits
    PROVE  /\ m \in ReadyMods <=> ~\E a \in DOMAIN waits : Precedes(a, m)
           /\ m \in ReadyMods => m \notin Endless
<1>0. list \in Listing
  BY DEF OrderInv
<1>1. waits[m] = Cardinality(Awaited(m)) /\ Awaited(m) \in SUBSET Edges
  BY DEF WaitsFit, Awaited
<1>2. IsFiniteSet(Awaited(m))
  BY <1>0, <1>1, EdgesAre
<1>3. m \in ReadyMods <=> Awaited(m) = {}
  BY <1>1, <1>2, FS_EmptySet DEF ReadyMods
<1>4. ASSUME NEW a \in DOMAIN waits, Precedes(a, m)
      PROVE  Awaited(m) # {}
  <2>1. <<a, m>> \in Edges
    BY <1>0, <1>4, EdgesAre
  <2> QED
    BY <2>1 DEF Awaited
<1>5. ASSUME NEW e \in Awaited(m)
      PROVE  e[1] \in DOMAIN waits /\ Precedes(e[1], m)
  <2>1. e \in Edges /\ e[1] \in DOMAIN waits /\ e[2] = m
    BY DEF Awaited
  <2>2. e = <<e[1], m>>
    BY <1>0, <2>1, EdgesAre
  <2> QED
    BY <1>0, <2>1, <2>2, EdgesAre
<1>6. m \in Endless => \E a \in DOMAIN waits : Precedes(a, m)
  BY EndlessIs DEF WaitsFit
<1> QED
  BY <1>3, <1>4, <1>5, <1>6

\* On a list in order the mod placed next is the next of the list.
LEMMA NextOfTheList ==
    ASSUME OrderInv, PlacingFits, InOrder(list), NEW m \in ReadyMods,
           \A o \in ReadyMods : Position(m) <= Position(o)
    PROVE  Len(sorted) + 1 <= Len(list) /\ Canonical(m) = list[Len(sorted) + 1]
<1> DEFINE K == Len(sorted)
           p == Position(m)
<1>0. /\ list \in Listing /\ sorted \in Listing /\ WaitsFit /\ m \in DOMAIN waits /\ m \in Present
      /\ K <= Len(list) /\ \A k \in DOMAIN sorted : sorted[k] = list[k] /\ sorted[k][1] \notin DOMAIN waits
  BY DEF OrderInv, PlacingFits, WaitsFit, ReadyMods, Holds, Placed
<1>1. /\ DOMAIN list = 1..Len(list) /\ Len(list) \in Nat /\ DOMAIN sorted = 1..K /\ K \in Nat
  BY <1>0, EntriesOf
<1>2. p \in DOMAIN list /\ p \in Nat /\ list[p][1] = m /\ Canonical(m) = list[p]
  BY <1>0, PositionIs
<1>3. p \notin DOMAIN sorted
  BY <1>0, <1>2
<1>4. K < p /\ p <= Len(list)
  BY <1>1, <1>2, <1>3
<1>5. K + 1 \in DOMAIN list /\ K + 1 \notin DOMAIN sorted
  BY <1>1, <1>2, <1>4
<1> DEFINE q == list[K + 1][1]
<1>6. q \in Present
  BY <1>0, <1>5, PresentIs
<1>7. q \in DOMAIN waits
  <2> SUFFICES ASSUME q \notin DOMAIN waits PROVE FALSE
    OBVIOUS
  <2>1. PICK k \in DOMAIN sorted : sorted[k][1] = q
    BY <1>6 DEF PlacingFits, Holds, Placed
  <2>2. k \in DOMAIN list /\ list[k][1] = list[K + 1][1]
    BY <1>0, <1>1, <2>1
  <2>3. k = K + 1
    BY <1>5, <2>2 DEF InOrder
  <2> QED
    BY <1>5, <2>1, <2>3
<1>8. q \in ReadyMods
  <2> SUFFICES ASSUME NEW a \in DOMAIN waits, Precedes(a, q) PROVE FALSE
    BY <1>0, <1>7, ReadyMeans
  <2>1. a \in Present
    BY <1>0 DEF WaitsFit
  <2>2. PICK j \in DOMAIN list : list[j][1] = a
    BY <1>0, <2>1, PresentIs
  <2>3. j \notin DOMAIN sorted
    BY <1>0, <2>2
  <2>4. ~(j < K + 1)
    BY <1>1, <2>2, <2>3
  <2>5. q \in Endless
    BY <1>5, <2>2, <2>4 DEF InOrder
  <2>6. m \notin Endless
    BY <1>0, ReadyMeans
  <2>7. p < K + 1
    BY <1>2, <1>5, <2>5, <2>6 DEF InOrder
  <2> QED
    BY <1>1, <1>2, <1>4, <2>7
<1>9. Position(q) <= K + 1 /\ Position(q) \in Nat
  BY <1>0, <1>5, <1>6, PositionIs
<1>10. p <= Position(q)
  BY <1>8
<1>11. p = K + 1
  BY <1>1, <1>2, <1>4, <1>9, <1>10
<1> QED
  BY <1>1, <1>2, <1>4, <1>11

LEMMA PlaceStays == OrderInv /\ Place => OrderInv'
<1> SUFFICES ASSUME OrderInv, Place PROVE OrderInv'
  OBVIOUS
<1>0. /\ PlacingFits /\ WaitsFit /\ list \in Listing /\ sorted \in Listing /\ ReadyMods # {}
      /\ UNCHANGED <<list, info, extra, phase, round, report>> /\ phase = "placing"
  BY DEF OrderInv, Place, PlacingFits
<1>1. PICK m \in ReadyMods :
        /\ m = EarliestReady /\ \A o \in ReadyMods : Position(m) <= Position(o)
        /\ sorted' = Append(sorted, Canonical(m))
        /\ waits' = [o \in DOMAIN waits \ {m} |->
                        waits[o] - (IF <<m, o>> \in Edges THEN 1 ELSE 0)]
  BY <1>0, NextOneIs DEF Place
<1>2. /\ m \in DOMAIN waits /\ m \in Present /\ m \notin Endless
      /\ \A a \in DOMAIN waits : ~Precedes(a, m)
  <2>1. m \in DOMAIN waits
    BY DEF ReadyMods
  <2> QED
    BY <1>0, <2>1, ReadyMeans DEF WaitsFit
<1>3. Present' = Present /\ Edges' = Edges /\ \A x : Canonical(x)' = Canonical(x)
  BY <1>0 DEF Present, Edges, RulesFor, Canonical, Position
<1>4. Endless' = Endless /\ \A a, b : Precedes(a, b)' <=> Precedes(a, b)
  BY <1>0, <1>3, RulesKept
<1>5. InOrder(list)' <=> InOrder(list)
  BY <1>0, <1>4 DEF InOrder
<1> DEFINE K == Len(sorted)
           x == Canonical(m)
<1>6. x[1] = m /\ x \in ModIDs \X Spellings
  BY <1>0, <1>2, PositionIs
<1>7. /\ DOMAIN sorted = 1..K /\ K \in Nat /\ sorted' \in Listing /\ Len(sorted') = K + 1
      /\ DOMAIN sorted' = 1..(K + 1) /\ sorted'[K + 1] = x
      /\ \A k \in 1..K : sorted'[k] = sorted[k]
  BY <1>0, <1>1, <1>6 DEF Listing
<1>8. /\ \A k \in DOMAIN sorted' : k = K + 1 \/ (k \in DOMAIN sorted /\ sorted'[k] = sorted[k] /\ k < K + 1)
      /\ \A k \in DOMAIN sorted : k \in DOMAIN sorted' /\ k < K + 1
      /\ K + 1 \in DOMAIN sorted' /\ ~(K + 1 < K + 1)
  <2>1. \A k \in 1..(K + 1) : k = K + 1 \/ (k \in 1..K /\ k < K + 1)
    BY <1>7
  <2>2. \A k \in 1..K : k \in 1..(K + 1) /\ k < K + 1
    BY <1>7
  <2>3. K + 1 \in 1..(K + 1) /\ ~(K + 1 < K + 1)
    BY <1>7
  <2> QED
    BY <1>7, <2>1, <2>2, <2>3
<1>9. DOMAIN waits' = DOMAIN waits \ {m}
  BY <1>1
<1>10. WaitsFit'
  <2>1. ASSUME NEW o \in DOMAIN waits \ {m}
        PROVE  waits'[o] = Cardinality(Awaited(o)')
    <3> DEFINE e == <<m, o>>
    <3>1. waits'[o] = waits[o] - (IF e \in Edges THEN 1 ELSE 0)
      BY <1>1
    <3>2. waits[o] = Cardinality(Awaited(o)) /\ Awaited(o) \in SUBSET Edges
      BY <1>0 DEF WaitsFit, Awaited
    <3>3. IsFiniteSet(Awaited(o)) /\ Cardinality(Awaited(o)) \in Nat
      BY <1>0, <3>2, EdgesAre
    <3>4. Awaited(o)' = Awaited(o) \ {e}
      <4>1. Awaited(o)' = {f \in Edges : f[1] \in DOMAIN waits \ {m} /\ f[2] = o}
        BY <1>3, <1>9 DEF Awaited
      <4>2. \A f \in Edges : f = <<f[1], f[2]>>
        BY <1>0, EdgesAre
      <4>3. \A f \in Edges : f[2] = o => (f = e <=> f[1] = m)
        BY <4>2
      <4> QED
        BY <4>1, <4>3 DEF Awaited
    <3>5. e \in Awaited(o) <=> e \in Edges
      BY <1>2 DEF Awaited
    <3>6. Cardinality(Awaited(o) \ {e}) = IF e \in Awaited(o) THEN Cardinality(Awaited(o)) - 1
                                          ELSE Cardinality(Awaited(o))
      BY <3>3, FS_RemoveElement
    <3> HIDE DEF e
    <3>7. waits'[o] = Cardinality(Awaited(o) \ {e})
      BY <3>1, <3>2, <3>3, <3>5, <3>6
    <3> QED
      BY <3>4, <3>7
  <2>2. DOMAIN waits' \subseteq Present' /\ Endless' \subseteq DOMAIN waits'
    BY <1>0, <1>2, <1>3, <1>4, <1>9 DEF WaitsFit
  <2> QED
    BY <1>9, <2>1, <2>2 DEF WaitsFit
<1>11. Placed' = Placed \cup {m}
  BY <1>2, <1>3, <1>9 DEF Placed
<1>12. /\ \A k \in DOMAIN sorted : sorted[k][1] \in Placed /\ sorted[k] = Canonical(sorted[k][1])
       /\ \A o \in Placed : \E k \in DOMAIN sorted : sorted[k][1] = o
       /\ m \notin Placed
  BY <1>0, <1>2 DEF PlacingFits, Holds, Placed
<1>13. Holds(sorted, Placed)'
  <2>1. ASSUME NEW k \in DOMAIN sorted'
        PROVE  sorted'[k][1] \in Placed' /\ sorted'[k] = Canonical(sorted'[k][1])
    BY <1>6, <1>7, <1>8, <1>11, <1>12
  <2>2. ASSUME NEW o \in Placed'
        PROVE  \E k \in DOMAIN sorted' : sorted'[k][1] = o
    BY <1>6, <1>7, <1>8, <1>11, <1>12
  <2> QED
    BY <1>3, <2>1, <2>2 DEF Holds
<1>14. \A j \in DOMAIN sorted', k \in DOMAIN sorted' : sorted'[j][1] = sorted'[k][1] => j = k
  <2>1. \A j \in DOMAIN sorted, k \in DOMAIN sorted : sorted[j][1] = sorted[k][1] => j = k
    BY <1>0 DEF PlacingFits
  <2> QED
    BY <1>6, <1>7, <1>8, <1>12, <2>1
<1>15. ASSUME NEW k \in DOMAIN sorted', NEW a \in Present, Precedes(a, sorted'[k][1])
       PROVE  \E j \in DOMAIN sorted' : j < k /\ sorted'[j][1] = a
  <2>1. CASE k = K + 1
    <3>1. a \in Placed
      BY <1>2, <1>6, <1>7, <1>15, <2>1 DEF Placed
    <3> QED
      BY <1>8, <1>12, <2>1, <3>1
  <2>2. CASE k \in DOMAIN sorted /\ sorted'[k] = sorted[k]
    <3>1. PICK j \in DOMAIN sorted : j < k /\ sorted[j][1] = a
      BY <1>0, <1>15, <2>2 DEF PlacingFits
    <3> QED
      BY <1>7, <1>8, <3>1
  <2> QED
    BY <1>8, <2>1, <2>2
<1>16. ASSUME InOrder(list)
       PROVE  Len(sorted') <= Len(list) /\ \A k \in DOMAIN sorted' : sorted'[k] = list[k]
  <2>1. K + 1 <= Len(list) /\ x = list[K + 1]
    BY <1>0, <1>1, <1>16, NextOfTheList
  <2>2. \A k \in DOMAIN sorted : sorted[k] = list[k]
    BY <1>0, <1>16 DEF PlacingFits
  <2> QED
    BY <1>7, <1>8, <2>1, <2>2
<1>17. PlacingFits'
  BY <1>0, <1>3, <1>4, <1>5, <1>10, <1>13, <1>14, <1>15, <1>16 DEF PlacingFits
<1> QED
  BY <1>0, <1>5, <1>7, <1>17 DEF OrderInv

\* What is left over follows by its places in the list, each mod once.
LEMMA LeftOverIs ==
    ASSUME list \in Listing, DOMAIN waits \subseteq Present
    PROVE  /\ LeftOver \in Listing
           /\ Holds(LeftOver, DOMAIN waits)
           /\ \A j \in DOMAIN LeftOver, k \in DOMAIN LeftOver :
                 LeftOver[j][1] = LeftOver[k][1] => j = k
<1> DEFINE c == Cardinality(Stuck)
           Upto(n) == {o \in Stuck : o <= n}
           at(k) == CHOOSE n \in Stuck : Cardinality(Upto(n)) = k
<1>1. Stuck \in SUBSET DOMAIN list /\ Stuck \in SUBSET Nat
  BY PositionIs DEF Stuck
<1>2. IsFiniteSet(Stuck) /\ c \in Nat
  <2>1. DOMAIN list = 1..Len(list) /\ Len(list) \in Nat
    BY EntriesOf
  <2>2. IsFiniteSet(DOMAIN list)
    BY <2>1, UpToIs
  <2> QED
    BY <1>1, <2>2, FS_Subset, FS_CardinalityType
<1>3. /\ \A k \in 1..c : \E n \in Stuck : Cardinality(Upto(n)) = k
      /\ \A n \in Stuck : Cardinality(Upto(n)) \in 1..c
      /\ \A n \in Stuck, o \in Stuck : Cardinality(Upto(n)) = Cardinality(Upto(o)) => n = o
  BY <1>1, <1>2, RanksAre
<1>4. LeftOver = [k \in 1..c |-> list[at(k)]]
  BY DEF LeftOver
<1> HIDE DEF Upto, c
<1>5. \A k \in 1..c : at(k) \in Stuck /\ Cardinality(Upto(at(k))) = k
  BY <1>3
<1>6. \A n \in Stuck : \E k \in 1..c : at(k) = n
  BY <1>3, <1>5
<1> HIDE DEF at
<1>7. \A n \in Stuck : \E m \in DOMAIN waits : n = Position(m) /\ list[n][1] = m /\ list[n] = Canonical(m)
  BY PositionIs DEF Stuck
<1>8. \A m \in DOMAIN waits : Position(m) \in Stuck /\ list[Position(m)][1] = m
  BY PositionIs DEF Stuck
<1>9. DOMAIN LeftOver = 1..c /\ \A k \in 1..c : LeftOver[k] = list[at(k)] /\ at(k) \in Stuck
  BY <1>4, <1>5
<1>10. LeftOver \in Listing
  <2>1. \A k \in 1..c : list[at(k)] \in ModIDs \X Spellings
    BY <1>1, <1>5, EntriesOf
  <2>2. \A k \in 1..c : LeftOver[k] \in ModIDs \X Spellings
    BY <1>9, <2>1
  <2>3. LeftOver = [k \in 1..c |-> LeftOver[k]]
    BY DEF LeftOver, c
  <2> QED
    BY <1>2, <2>2, <2>3, EntriesMake DEF Listing
<1>11. Holds(LeftOver, DOMAIN waits)
  <2>1. ASSUME NEW k \in DOMAIN LeftOver
        PROVE  LeftOver[k][1] \in DOMAIN waits /\ LeftOver[k] = Canonical(LeftOver[k][1])
    BY <1>7, <1>9
  <2>2. ASSUME NEW m \in DOMAIN waits
        PROVE  \E k \in DOMAIN LeftOver : LeftOver[k][1] = m
    BY <1>6, <1>8, <1>9
  <2> QED
    BY <2>1, <2>2 DEF Holds
<1>12. ASSUME NEW j \in DOMAIN LeftOver, NEW k \in DOMAIN LeftOver, LeftOver[j][1] = LeftOver[k][1]
       PROVE  j = k
  <2>1. at(j) = at(k)
    BY <1>7, <1>9, <1>12
  <2> QED
    BY <1>5, <1>9, <2>1
<1> QED
  BY <1>10, <1>11, <1>12

\* What waits when nothing is ready is what the loops hold up.
LEMMA StuckInLoops ==
    ASSUME OrderInv, WaitsFit, ReadyMods = {}
    PROVE  DOMAIN waits = Endless
<1>1. \A m \in DOMAIN waits : \E a \in DOMAIN waits : Precedes(a, m)
  BY ReadyMeans
<1> QED
  BY <1>1, EndlessIs DEF WaitsFit

\* On a list in order the rest of the list is what is left over.
LEMMA RestOfTheList ==
    ASSUME OrderInv, PlacingFits, InOrder(list)
    PROVE  sorted \o LeftOver = list
<1> DEFINE K == Len(sorted)
           L == Len(list)
<1>0. /\ list \in Listing /\ sorted \in Listing /\ WaitsFit /\ K <= L
      /\ \A k \in DOMAIN sorted : sorted[k] = list[k] /\ sorted[k][1] \notin DOMAIN waits
  BY DEF OrderInv, PlacingFits, WaitsFit, Holds, Placed
<1>1. DOMAIN list = 1..L /\ L \in Nat /\ DOMAIN sorted = 1..K /\ K \in Nat
  BY <1>0, EntriesOf
<1>2. \A n \in 1..L : list[n][1] \in DOMAIN waits <=> n \notin 1..K
  <2>1. ASSUME NEW n \in 1..L, n \notin 1..K, list[n][1] \notin DOMAIN waits
        PROVE  FALSE
    <3>1. list[n][1] \in Placed
      BY <1>0, <1>1, <2>1, PresentIs DEF Placed
    <3>2. PICK k \in DOMAIN sorted : sorted[k][1] = list[n][1]
      BY <3>1 DEF PlacingFits, Holds
    <3>3. k \in 1..K /\ k \in 1..L /\ list[k][1] = list[n][1]
      BY <1>0, <1>1, <3>2
    <3> QED
      BY <1>1, <2>1, <3>3 DEF InOrder
  <2> QED
    BY <1>0, <1>1, <2>1
<1>3. Stuck = (K + 1)..L
  <2>1. ASSUME NEW n \in Stuck PROVE n \in (K + 1)..L
    <3>1. PICK m \in DOMAIN waits : n = Position(m)
      BY DEF Stuck
    <3>2. n \in 1..L /\ list[n][1] = m
      BY <1>0, <1>1, <3>1, PositionIs DEF WaitsFit
    <3>3. n \notin 1..K
      BY <1>2, <3>2
    <3> QED
      BY <1>1, <3>2, <3>3
  <2>2. ASSUME NEW n \in (K + 1)..L PROVE n \in Stuck
    <3>1. n \in 1..L /\ n \notin 1..K
      BY <1>1
    <3>2. list[n][1] \in DOMAIN waits
      BY <1>2, <3>1
    <3>3. Position(list[n][1]) \in 1..L /\ list[Position(list[n][1])][1] = list[n][1]
      BY <1>0, <1>1, <3>2, PositionIs DEF WaitsFit
    <3>4. Position(list[n][1]) = n
      BY <1>1, <3>1, <3>3 DEF InOrder
    <3> QED
      BY <3>2, <3>4 DEF Stuck
  <2> QED
    BY <2>1, <2>2
<1>4. Cardinality(Stuck) = L - K
  BY <1>0, <1>1, <1>3, SpanIs
<1>5. ASSUME NEW n \in (K + 1)..L
      PROVE  Cardinality({o \in Stuck : o <= n}) = n - K
  <2>1. {o \in Stuck : o <= n} = (K + 1)..n
    BY <1>1, <1>3
  <2>2. n \in Nat /\ K <= n
    BY <1>1
  <2> QED
    BY <1>1, <2>1, <2>2, SpanIs
<1>6. ASSUME NEW k \in 1..(L - K)
      PROVE  LeftOver[k] = list[K + k]
  <2> DEFINE n == CHOOSE i \in Stuck : Cardinality({o \in Stuck : o <= i}) = k
  <2>1. K + k \in (K + 1)..L /\ (K + k) - K = k
    BY <1>0, <1>1
  <2>2. n \in Stuck /\ Cardinality({o \in Stuck : o <= n}) = k
    <3>1. K + k \in Stuck /\ Cardinality({o \in Stuck : o <= K + k}) = k
      BY <1>3, <1>5, <2>1
    <3> QED
      BY <3>1
  <2>3. LeftOver[k] = list[n]
    BY <1>4 DEF LeftOver
  <2> HIDE DEF n
  <2>4. n \in (K + 1)..L /\ n - K = k
    BY <1>3, <1>5, <2>2
  <2>5. n = K + k
    BY <1>1, <2>4
  <2> QED
    BY <2>3, <2>5
<1>7. DOMAIN LeftOver = 1..(L - K) /\ LeftOver \in Listing
  BY <1>0, <1>4, LeftOverIs DEF LeftOver, WaitsFit
<1>8. Len(LeftOver) = L - K /\ L - K \in Nat
  <2>1. L - K \in Nat
    BY <1>0, <1>1
  <2>2. Len(LeftOver) \in Nat /\ 1..Len(LeftOver) = 1..(L - K)
    BY <1>7, EntriesOf
  <2> QED
    BY <2>1, <2>2, SameLength
<1> HIDE DEF K, L
<1> DEFINE r == sorted \o LeftOver
<1>9. /\ r \in Listing /\ Len(r) = L
      /\ \A k \in 1..L : r[k] = IF k <= K THEN sorted[k] ELSE LeftOver[k - K]
  BY <1>0, <1>1, <1>7, <1>8 DEF Listing, K
<1>10. ASSUME NEW k \in 1..L PROVE r[k] = list[k]
  <2>1. CASE k <= K
    <3>1. k \in 1..K
      BY <1>1, <2>1
    <3> QED
      BY <1>0, <1>1, <1>9, <2>1, <3>1
  <2>2. CASE ~(k <= K)
    <3>1. k - K \in 1..(L - K) /\ K + (k - K) = k
      BY <1>0, <1>1, <2>2
    <3> QED
      BY <1>6, <1>9, <2>2, <3>1
  <2> QED
    BY <2>1, <2>2
<1> QED
  BY <1>0, <1>1, <1>9, <1>10, SameEntries DEF L

LEMMA EndsStays == OrderInv /\ SortEnds => OrderInv'
<1> SUFFICES ASSUME OrderInv, SortEnds PROVE OrderInv'
  OBVIOUS
<1>0. /\ PlacingFits /\ WaitsFit /\ list \in Listing /\ sorted \in Listing /\ ReadyMods = {}
      /\ UNCHANGED <<list, info, extra, waits, round>> /\ phase' = "done"
      /\ sorted' = sorted \o LeftOver
      /\ DOMAIN report = DOMAIN NoReport
  BY DEF OrderInv, SortEnds, PlacingFits
<1>1. Present' = Present /\ \A x : Canonical(x)' = Canonical(x)
  BY <1>0 DEF Present, Canonical, Position
<1>2. Endless' = Endless /\ \A a, b : Precedes(a, b)' <=> Precedes(a, b)
  BY <1>0, <1>1, RulesKept
<1>3. InOrder(list)' <=> InOrder(list)
  BY <1>0, <1>2 DEF InOrder
<1>4. DOMAIN waits = Endless
  BY <1>0, StuckInLoops
<1> DEFINE K == Len(sorted)
           c == Len(LeftOver)
           r == sorted \o LeftOver
<1>5. /\ LeftOver \in Listing /\ Holds(LeftOver, Endless)
      /\ \A j \in DOMAIN LeftOver, k \in DOMAIN LeftOver :
            LeftOver[j][1] = LeftOver[k][1] => j = k
  BY <1>0, <1>4, LeftOverIs DEF WaitsFit
<1>6. DOMAIN sorted = 1..K /\ K \in Nat /\ DOMAIN LeftOver = 1..c /\ c \in Nat
  BY <1>0, <1>5, EntriesOf
<1>7. /\ r \in Listing /\ DOMAIN r = 1..(K + c)
      /\ \A k \in 1..(K + c) : r[k] = IF k <= K THEN sorted[k] ELSE LeftOver[k - K]
  BY <1>0, <1>5 DEF Listing
<1> HIDE DEF r, c, K
<1>8. ASSUME NEW k \in DOMAIN r
      PROVE  \/ k \in DOMAIN sorted /\ k <= K /\ r[k] = sorted[k] /\ r[k][1] \in Placed
             \/ k - K \in DOMAIN LeftOver /\ ~(k <= K) /\ r[k] = LeftOver[k - K] /\ r[k][1] \in Endless
  <2>1. CASE k <= K
    <3>1. k \in 1..K
      BY <1>6, <1>7, <2>1
    <3>2. r[k] = sorted[k]
      BY <1>7, <2>1
    <3> QED
      BY <1>0, <1>6, <2>1, <3>1, <3>2 DEF PlacingFits, Holds
  <2>2. CASE ~(k <= K)
    <3>1. k - K \in 1..c
      BY <1>6, <1>7, <2>2
    <3>2. r[k] = LeftOver[k - K]
      BY <1>7, <2>2
    <3> QED
      BY <1>5, <1>6, <2>2, <3>1, <3>2 DEF Holds
  <2> QED
    BY <2>1, <2>2
<1>9. /\ \A k \in DOMAIN sorted : k \in DOMAIN r /\ r[k] = sorted[k]
      /\ \A k \in DOMAIN LeftOver : K + k \in DOMAIN r /\ r[K + k] = LeftOver[k]
  <2>1. \A k \in 1..K : k \in 1..(K + c) /\ k <= K
    BY <1>6
  <2>2. \A k \in 1..c : K + k \in 1..(K + c) /\ ~(K + k <= K) /\ (K + k) - K = k
    BY <1>6
  <2> QED
    BY <1>6, <1>7, <2>1, <2>2
<1>10. Placed = Present \ Endless /\ Endless \subseteq Present
  BY <1>4, EndlessIs DEF Placed
<1>11. Holds(r, Present)
  <2>1. ASSUME NEW k \in DOMAIN r PROVE r[k][1] \in Present /\ r[k] = Canonical(r[k][1])
    BY <1>0, <1>5, <1>8, <1>10 DEF Holds, PlacingFits
  <2>2. ASSUME NEW m \in Present PROVE \E k \in DOMAIN r : r[k][1] = m
    <3>1. CASE m \in Endless
      BY <1>5, <1>9, <3>1 DEF Holds
    <3>2. CASE m \in Placed
      BY <1>0, <1>9, <3>2 DEF Holds, PlacingFits
    <3> QED
      BY <1>10, <3>1, <3>2
  <2> QED
    BY <2>1, <2>2 DEF Holds
<1>12. ASSUME NEW j \in DOMAIN r, NEW k \in DOMAIN r, r[j][1] = r[k][1] PROVE j = k
  <2>1. CASE j \in DOMAIN sorted /\ r[j] = sorted[j] /\ k \in DOMAIN sorted /\ r[k] = sorted[k]
    BY <1>0, <1>12, <2>1 DEF PlacingFits
  <2>2. CASE /\ j - K \in DOMAIN LeftOver /\ r[j] = LeftOver[j - K]
             /\ k - K \in DOMAIN LeftOver /\ r[k] = LeftOver[k - K]
    <3>1. j - K = k - K
      BY <1>5, <1>12, <2>2
    <3>2. j \in Int /\ k \in Int
      BY <1>6, <1>7
    <3> QED
      BY <1>6, <3>1, <3>2
  <2> QED
    BY <1>8, <1>10, <1>12, <2>1, <2>2
<1>13. ASSUME NEW j \in DOMAIN r, NEW k \in DOMAIN r,
              Precedes(r[j][1], r[k][1]), r[k][1] \notin Endless
       PROVE  j < k
  <2>1. k \in DOMAIN sorted /\ r[k] = sorted[k]
    BY <1>8, <1>13
  <2>2. r[j][1] \in Present
    BY <1>11 DEF Holds
  <2>3. PICK i \in DOMAIN sorted : i < k /\ sorted[i][1] = r[j][1]
    BY <1>0, <1>13, <2>1, <2>2 DEF PlacingFits
  <2>4. i = j
    BY <1>9, <1>12, <2>3
  <2> QED
    BY <2>3, <2>4
<1>14. ASSUME NEW j \in DOMAIN r, NEW k \in DOMAIN r, r[j][1] \notin Endless, r[k][1] \in Endless
       PROVE  j < k
  <2>1. j <= K /\ ~(k <= K)
    BY <1>8, <1>10, <1>14
  <2>2. j \in Int /\ k \in Int
    BY <1>6, <1>7
  <2> QED
    BY <1>6, <2>1, <2>2
<1>15. InOrder(r)
  BY <1>12, <1>13, <1>14 DEF InOrder
<1>16. sorted' = r
  BY <1>0 DEF r
<1>17. Holds(sorted, Present)' /\ InOrder(sorted)'
  BY <1>1, <1>2, <1>11, <1>15, <1>16 DEF Holds, InOrder
<1>18. /\ report'.cycle = DOMAIN waits /\ DOMAIN report' = DOMAIN report
       /\ report'.changed = (sorted' # list)
  BY <1>0 DEF SortEnds, NoReport
<1>19. InOrder(list) => sorted' = list /\ ~report'.changed
  <2>1. InOrder(list) => sorted' = list
    BY <1>0, RestOfTheList
  <2> QED
    BY <1>18, <2>1, Zenon
<1>20. DoneFits'
  BY <1>0, <1>2, <1>3, <1>4, <1>17, <1>18, <1>19 DEF DoneFits
<1> QED
  BY <1>0, <1>3, <1>7, <1>16, <1>18, <1>20 DEF OrderInv

LEMMA OrderStays == OrderInv /\ [OrderNext]_orderVars => OrderInv'
<1> SUFFICES ASSUME OrderInv, [OrderNext]_orderVars PROVE OrderInv'
  OBVIOUS
<1>1. CASE OrderNext
  BY <1>1, BeginsStays, PlaceStays, EndsStays, AgainStays DEF OrderNext
<1>2. CASE UNCHANGED orderVars
  <2>1. UNCHANGED <<list, info, extra, waits, sorted, phase, round, report>>
    BY <1>2 DEF orderVars
  <2>2. /\ Present' = Present /\ Edges' = Edges /\ Placed' = Placed
        /\ \A x : Canonical(x)' = Canonical(x)
    BY <2>1 DEF Present, Edges, RulesFor, Canonical, Position, Placed
  <2>3. Endless' = Endless /\ \A a, b : Precedes(a, b)' <=> Precedes(a, b)
    BY <2>1, <2>2, RulesKept
  <2>4. /\ InOrder(list)' <=> InOrder(list)
        /\ InOrder(sorted)' <=> InOrder(sorted)
    BY <2>1, <2>3 DEF InOrder
  <2>5. WaitsFit' <=> WaitsFit
    BY <2>1, <2>2, <2>3 DEF WaitsFit, Awaited
  <2>6. Holds(sorted, Placed)' = Holds(sorted, Placed) /\ Holds(sorted, Present)' = Holds(sorted, Present)
    BY <2>1, <2>2 DEF Holds
  <2>7. PlacingFits => PlacingFits'
    BY <2>1, <2>2, <2>3, <2>4, <2>5, <2>6 DEF PlacingFits
  <2>8. DoneFits => DoneFits'
    BY <2>1, <2>3, <2>4, <2>6 DEF DoneFits
  <2> QED
    BY <2>1, <2>4, <2>7, <2>8 DEF OrderInv
<1> QED
  BY <1>1, <1>2

\* The order promised: every mod once, no rule broken outside the loops, what
\* a loop holds up last and reported; and a list that is in order already, or
\* has been sorted before, is left alone.  For any mods, rules and lists.
THEOREM OrderStaysRight == PackagesSpec => []LoadOrderIsRight
<1> DEFINE Inv == topic = "order" => OrderInv
<1>1. PackagesInit => Inv
  BY OrderInitially DEF PackagesInit
<1>2. Inv /\ [PackagesNext]_packagesVars => Inv'
  <2> SUFFICES ASSUME Inv, [PackagesNext]_packagesVars, topic' = "order" PROVE OrderInv'
    OBVIOUS
  <2>1. topic = "order" /\ [OrderNext]_orderVars
    BY DEF PackagesNext, packagesVars
  <2> QED
    BY <2>1, OrderStays
<1>3. Inv => LoadOrderIsRight
  BY OrderHolds DEF LoadOrderIsRight
<1> QED
  BY <1>1, <1>2, <1>3, PTL DEF PackagesSpec

---------------------------------------------------------------------------
(***************************************************************************)
(* Cron: a skip goes over no instant but those that read like the candidate *)
(* as far as it is known not to fit, the same hour, the same day or the same *)
(* month, on whatever side of the change of clocks they are.               *)
(***************************************************************************)

LEMMA Positive ==
    ASSUME NEW h \in Nat \ {0}, NEW x \in Nat
    PROVE  h * x \in Nat
OBVIOUS

\* Two multiples are equal or apart by at least one.
LEMMA Apart ==
    ASSUME NEW h \in Nat \ {0}, NEW x \in Int, NEW y \in Int
    PROVE  /\ h * x \in Int /\ h * y \in Int
           /\ x < y => h * x + h <= h * y
           /\ h * x < h * y => x < y /\ h * x + h <= h * y
<1>0. h * x \in Int /\ h * y \in Int
  OBVIOUS
<1>1. ASSUME NEW v \in Int, NEW w \in Int, v < w
      PROVE  h * v + h <= h * w
  <2> DEFINE k == w - v - 1
  <2>1. k \in Nat
    BY <1>1
  <2>2. h * k \in Nat
    BY <2>1, Positive
  <2>3. h * w = h * v + h + h * k
    OBVIOUS
  <2>4. h * v \in Int /\ h * w \in Int
    OBVIOUS
  <2> HIDE DEF k
  <2> QED
    BY <2>2, <2>3, <2>4
<1>2. x < y => h * x + h <= h * y
  BY <1>1
<1>3. y < x => h * y + h <= h * x
  BY <1>1
<1>4. x = y => h * x = h * y
  OBVIOUS
<1> QED
  BY <1>0, <1>2, <1>3, <1>4

LEMMA DivisionIs ==
    ASSUME NEW h \in Nat \ {0}, NEW x \in Int
    PROVE  /\ x \div h \in Int /\ x % h \in Int /\ 0 <= x % h /\ x % h < h
           /\ x = (h * (x \div h)) + (x % h)
<1>1. x \div h \in Int /\ x % h \in Int
  OBVIOUS
<1>2. 0 <= x % h /\ x % h < h
  OBVIOUS
<1>3. x = (h * (x \div h)) + (x % h)
  OBVIOUS
<1> QED
  BY <1>1, <1>2, <1>3

LEMMA QuotientIs ==
    ASSUME NEW h \in Nat \ {0}, NEW x \in Int, NEW q \in Int,
           h * q <= x, x < h * q + h
    PROVE  x \div h = q
<1> DEFINE v == x \div h
           r == x % h
<1>1. v \in Int /\ r \in Int /\ 0 <= r /\ r < h /\ x = (h * v) + r
  BY DivisionIs
<1>2. h * v \in Int /\ h * q \in Int
  BY <1>1
<1>3. v < q => h * v + h <= h * q
  BY <1>1, Apart
<1>4. q < v => h * q + h <= h * v
  BY <1>1, Apart
<1> HIDE DEF v, r
<1>5. ~(v < q) /\ ~(q < v)
  BY <1>1, <1>2, <1>3, <1>4
<1>6. v = q
  BY <1>1, <1>5
<1> QED
  BY <1>6 DEF v

LEMMA NoRest ==
    ASSUME NEW h \in Nat \ {0}, NEW y \in Int
    PROVE  (h * y) % h = 0
<1> DEFINE x == h * y
           v == x \div h
           r == x % h
<1>1. x \in Int
  OBVIOUS
<1>2. /\ v \in Int /\ r \in Int /\ 0 <= r /\ r < h /\ x = (h * v) + r
  BY <1>1, DivisionIs
<1>3. h * y <= x /\ x < h * y + h
  BY <1>1
<1>4. v = y
  BY <1>1, <1>3, QuotientIs
<1>5. x = h * v
  BY <1>4
<1> HIDE DEF x, v, r
<1>6. h * v \in Int
  BY <1>1, <1>5
<1>7. r = 0
  BY <1>1, <1>2, <1>5, <1>6
<1> QED
  BY <1>7 DEF r, x

\* The readings of the local clock and what time.Date makes of one, for a
\* zone of offsets b and a that changes at t.
ReadingOf(i, t, b, a) == i + (IF i < t THEN b ELSE a)
DateOf(l, t, b, a) ==
    LET i == l - (IF l < t THEN b ELSE a)
    IN IF (i < t) = (l < t) THEN i ELSE l - (IF i < t THEN b ELSE a)

\* m is an hour's beginning, as t + b and t + a are.
OffHours(m, t, b, a, h) ==
    \A e \in {t + b, t + a} : (m < e => m + h <= e) /\ (e < m => e + h <= m)

\* A change that skips m, or repeats it, is west of Greenwich.
WestOnly(m, t, b, a) ==
    /\ m = t + b /\ b < a => b < 0
    /\ m = t + a /\ a < b => a < 0

LEMMA HourSkipped ==
    ASSUME NEW t \in Int, NEW b \in Int, NEW a \in Int, NEW h \in Nat \ {0},
           a - b \in {-h, 0, h}, NEW m \in Int, OffHours(m, t, b, a, h),
           NEW c \in Int, m <= ReadingOf(c, t, b, a), ReadingOf(c, t, b, a) < m + h,
           NEW d \in Int, d = DateOf(m, t, b, a) + h
    PROVE  /\ \A i \in Int : (c <= i /\ i < d) \/ (d <= i /\ i <= c) =>
                  m <= ReadingOf(i, t, b, a) /\ ReadingOf(i, t, b, a) < m + h
           /\ (b > a => a >= 0) => c < d
BY DEF OffHours, ReadingOf, DateOf

\* From c, which is read as of the span from m to e, to d.
SpanStep(t, b, a, h, m, e, c, d) ==
    /\ t \in Int /\ b \in Int /\ a \in Int /\ h \in Nat \ {0} /\ a - b \in {-h, 0, h}
    /\ m \in Int /\ e \in Int /\ e - m >= h + h
    /\ OffHours(m, t, b, a, h) /\ OffHours(e, t, b, a, h)
    /\ WestOnly(m, t, b, a) /\ WestOnly(e, t, b, a)
    /\ c \in Int /\ m <= ReadingOf(c, t, b, a) /\ ReadingOf(c, t, b, a) < e
    /\ d \in Int /\ d = DateOf(ReadingOf(DateOf(m, t, b, a), t, b, a) + (e - m), t, b, a)

LEMMA SpanSkipped ==
    ASSUME NEW t, NEW b, NEW a, NEW h, NEW m, NEW e, NEW c, NEW d,
           SpanStep(t, b, a, h, m, e, c, d)
    PROVE  /\ \A i \in Int : (c <= i /\ i < d) \/ (d <= i /\ i <= c) =>
                  m <= ReadingOf(i, t, b, a) /\ ReadingOf(i, t, b, a) < e
           /\ (b < a => m # t + b /\ e # t + b) => c < d
BY DEF SpanStep, OffHours, WestOnly, ReadingOf, DateOf

Hour == MinutesPerHour
Month == DaysPerMonth * MinutesPerDay

LEMMA SizesAre ==
    /\ Hour \in Nat \ {0} /\ HoursPerDay \in Nat \ {0, 1} /\ DaysPerMonth \in Nat \ {0}
    /\ MinutesPerDay \in Nat \ {0} /\ MinutesPerDay >= Hour + Hour
    /\ Month \in Nat \ {0} /\ Month >= Hour + Hour
    /\ \A d \in Int : MinutesPerDay * d = Hour * (HoursPerDay * d) /\ HoursPerDay * d \in Int
    /\ \A q \in Int : /\ Month * q = MinutesPerDay * (DaysPerMonth * q)
                      /\ DaysPerMonth * q \in Int
<1>1. Hour \in Nat \ {0} /\ HoursPerDay \in Nat \ {0, 1} /\ DaysPerMonth \in Nat \ {0}
  BY CronAssumption DEF Hour
<1>2. Hour * 1 + Hour <= Hour * HoursPerDay
  <2>1. 1 < HoursPerDay /\ 1 \in Int /\ HoursPerDay \in Int
    BY <1>1
  <2> QED
    BY <1>1, <2>1, Apart
<1>3. MinutesPerDay = Hour * HoursPerDay /\ Hour * 1 = Hour
  BY <1>1 DEF MinutesPerDay, Hour
<1>4. MinutesPerDay \in Nat \ {0} /\ MinutesPerDay >= Hour + Hour
  <2>1. Hour * HoursPerDay \in Int
    BY <1>1
  <2> QED
    BY <1>1, <1>2, <1>3, <2>1
<1>5. Month \in Nat \ {0} /\ Month >= MinutesPerDay
  <2>1. Month = MinutesPerDay * DaysPerMonth /\ MinutesPerDay * 1 = MinutesPerDay
    BY <1>1, <1>4 DEF Month
  <2>2. DaysPerMonth = 1 \/ 1 < DaysPerMonth
    BY <1>1
  <2>3. 1 < DaysPerMonth => MinutesPerDay * 1 + MinutesPerDay <= MinutesPerDay * DaysPerMonth
    BY <1>1, <1>4, Apart
  <2>4. MinutesPerDay * DaysPerMonth \in Int
    BY <1>1, <1>4
  <2> QED
    BY <1>4, <2>1, <2>2, <2>3, <2>4
<1>6. \A d \in Int : MinutesPerDay * d = Hour * (HoursPerDay * d) /\ HoursPerDay * d \in Int
  BY <1>1, <1>3
<1>7. \A q \in Int : Month * q = MinutesPerDay * (DaysPerMonth * q) /\ DaysPerMonth * q \in Int
  BY <1>1, <1>4 DEF Month
<1> QED
  BY <1>1, <1>4, <1>5, <1>6, <1>7

LEMMA ZoneIs ==
    ASSUME zone \in Zones
    PROVE  /\ zone.at \in Int /\ zone.before \in Int /\ zone.after \in Int
           /\ \A i \in Int : Local(i) = ReadingOf(i, zone.at, zone.before, zone.after)
           /\ \A l \in Int : Instant(l) = DateOf(l, zone.at, zone.before, zone.after)
           /\ \A i \in Int : Local(i) \in Int /\ Instant(i) \in Int
<1>1. zone.at \in Int /\ zone.before \in Int /\ zone.after \in Int
  BY CronAssumption
<1>2. \A i \in Int : Local(i) = ReadingOf(i, zone.at, zone.before, zone.after)
  BY DEF Local, Offset, ReadingOf
<1>3. \A l \in Int : Instant(l) = DateOf(l, zone.at, zone.before, zone.after)
  BY DEF Instant, Offset, DateOf
<1>4. \A i \in Int : Local(i) \in Int /\ Instant(i) \in Int
  BY <1>1 DEF Local, Instant, Offset
<1> QED
  BY <1>1, <1>2, <1>3, <1>4

\* The change is on the hour: whole hours are apart from it by whole hours.
LEMMA WholeHours ==
    ASSUME zone \in Zones, OnTheHour(zone), NEW q \in Int
    PROVE  OffHours(Hour * q, zone.at, zone.before, zone.after, Hour)
<1> DEFINE t == zone.at
           b == zone.before
           a == zone.after
           h == Hour
           u == (t + b) \div h
<1>1. t \in Int /\ b \in Int /\ a \in Int /\ h \in Nat \ {0}
  BY ZoneIs, SizesAre
<1>2. (t + b) % h = 0 /\ a - b \in {-h, 0, h}
  BY DEF OnTheHour, Hour
<1>3. u \in Int /\ t + b = h * u
  <2>1. t + b \in Int
    BY <1>1
  <2>2. u \in Int /\ t + b = (h * u) + ((t + b) % h)
    BY <1>1, <2>1, DivisionIs
  <2>3. h * u \in Int
    BY <1>1, <2>2
  <2> HIDE DEF u, h
  <2> QED
    BY <1>2, <2>2, <2>3
<1>4. PICK v \in Int : t + a = h * v
  <2>1. h * (u + 1) = (h * u) + h /\ h * (u - 1) = (h * u) - h /\ h * u \in Int
    BY <1>1, <1>3
  <2>2. t + a = h * u \/ t + a = h * (u + 1) \/ t + a = h * (u - 1)
    <3> HIDE DEF u, t, a, b, h
    <3> QED
      BY <1>1, <1>2, <1>3, <2>1
  <2> QED
    BY <1>3, <2>2
<1> HIDE DEF u, t, a, b, h
<1>5. ASSUME NEW e \in {t + b, t + a}
      PROVE  (h * q < e => h * q + h <= e) /\ (e < h * q => e + h <= h * q)
  <2>1. PICK w \in Int : e = h * w
    BY <1>3, <1>4
  <2> QED
    BY <1>1, <2>1, Apart
<1> QED
  BY <1>5 DEF OffHours, t, b, a, h

\* Instants of an hour, of a day and of a month, by their readings.
LEMMA HourIs ==
    ASSUME zone \in Zones, NEW c \in Int
    PROVE  \E q \in Int :
              /\ Local(c) - Clock(c).minute = Hour * q
              /\ Hour * q <= Local(c) /\ Local(c) < Hour * q + Hour
              /\ \A i \in Int : Hour * q <= Local(i) /\ Local(i) < Hour * q + Hour =>
                    Clock(i).hour = Clock(c).hour
<1> DEFINE q == Local(c) \div Hour
<1>1. Local(c) \in Int /\ Hour \in Nat \ {0}
  BY ZoneIs, SizesAre
<1>2. /\ q \in Int /\ Local(c) % Hour \in Int /\ 0 <= Local(c) % Hour /\ Local(c) % Hour < Hour
      /\ Local(c) = (Hour * q) + (Local(c) % Hour)
  BY <1>1, DivisionIs
<1>3. Hour * q \in Int
  BY <1>1, <1>2
<1>4. Clock(c).minute = Local(c) % Hour
  BY DEF Clock, Hour
<1>5. ASSUME NEW i \in Int, Hour * q <= Local(i), Local(i) < Hour * q + Hour
      PROVE  Clock(i).hour = Clock(c).hour
  <2>1. Local(i) \div Hour = q
    <3> HIDE DEF q
    <3> QED
      BY <1>1, <1>2, <1>5, ZoneIs, QuotientIs
  <2> QED
    BY <2>1 DEF Clock, Hour
<1> HIDE DEF q
<1>6. Local(c) - Clock(c).minute = Hour * q /\ Hour * q <= Local(c) /\ Local(c) < Hour * q + Hour
  BY <1>1, <1>2, <1>3, <1>4
<1> QED
  BY <1>2, <1>5, <1>6

LEMMA DayIs ==
    ASSUME zone \in Zones, NEW c \in Int
    PROVE  /\ Day(c) \in Int /\ MinutesPerDay * Day(c) \in Int
           /\ MinutesPerDay * Day(c) <= Local(c)
           /\ Local(c) < MinutesPerDay * Day(c) + MinutesPerDay
           /\ \A i \in Int :
                 (MinutesPerDay * Day(c) <= Local(i)
                    /\ Local(i) < MinutesPerDay * Day(c) + MinutesPerDay) => Day(i) = Day(c)
<1> DEFINE q == Local(c) \div MinutesPerDay
<1>1. Local(c) \in Int /\ MinutesPerDay \in Nat \ {0}
  BY ZoneIs, SizesAre
<1>2. /\ q \in Int /\ Local(c) % MinutesPerDay \in Int
      /\ 0 <= Local(c) % MinutesPerDay /\ Local(c) % MinutesPerDay < MinutesPerDay
      /\ Local(c) = (MinutesPerDay * q) + (Local(c) % MinutesPerDay)
  BY <1>1, DivisionIs
<1>3. MinutesPerDay * q \in Int
  BY <1>1, <1>2
<1>4. Day(c) = q
  BY DEF Day
<1>5. ASSUME NEW i \in Int, MinutesPerDay * q <= Local(i), Local(i) < MinutesPerDay * q + MinutesPerDay
      PROVE  Day(i) = q
  <2> HIDE DEF q
  <2> QED
    BY <1>1, <1>2, <1>5, ZoneIs, QuotientIs DEF Day
<1> HIDE DEF q
<1>6. MinutesPerDay * q <= Local(c) /\ Local(c) < MinutesPerDay * q + MinutesPerDay
  <2> HIDE DEF MinutesPerDay
  <2> QED
    BY <1>1, <1>2, <1>3
<1>7. \A i \in Int :
         (MinutesPerDay * q <= Local(i)
            /\ Local(i) < MinutesPerDay * q + MinutesPerDay) => Day(i) = q
  BY <1>5
<1> QED
  BY <1>2, <1>3, <1>4, <1>6, <1>7, Zenon

LEMMA MonthIs ==
    ASSUME zone \in Zones, NEW c \in Int
    PROVE  \E q \in Int :
              /\ Day(c) - Clock(c).dom + 1 = DaysPerMonth * q /\ Month * q \in Int
              /\ Month * q <= Local(c) /\ Local(c) < Month * q + Month
              /\ \A i \in Int : Month * q <= Local(i) /\ Local(i) < Month * q + Month =>
                    Clock(i).month = Clock(c).month
<1> DEFINE q == Day(c) \div DaysPerMonth
           n == DaysPerMonth
           w == MinutesPerDay
<1>1. n \in Nat \ {0} /\ w \in Nat \ {0}
  BY SizesAre
<1>2. /\ Day(c) \in Int /\ w * Day(c) <= Local(c) /\ Local(c) < w * Day(c) + w
      /\ Local(c) \in Int /\ w * Day(c) \in Int
  BY DayIs, ZoneIs
<1>3. /\ q \in Int /\ Day(c) % n \in Int /\ 0 <= Day(c) % n /\ Day(c) % n < n
      /\ Day(c) = (n * q) + (Day(c) % n)
  BY <1>1, <1>2, DivisionIs
<1>4. Clock(c).dom = (Day(c) % n) + 1
  BY DEF Clock
<1>5. Month * q = w * (n * q) /\ Month * q + Month = w * (n * q + n) /\ n * q \in Int
  <2>1. n * q \in Int
    BY <1>1, <1>3
  <2>2. w * (n * q + n) = w * (n * q) + w * n
    BY <1>1, <2>1
  <2>3. Month = w * n
    BY <1>1 DEF Month
  <2> QED
    BY <1>3, <2>1, <2>2, <2>3, SizesAre
<1> HIDE DEF q, n, w
<1>6. Day(c) - Clock(c).dom + 1 = n * q
  BY <1>2, <1>3, <1>4, <1>5
<1>7. n * q <= Day(c) /\ Day(c) < n * q + n /\ n * q + n \in Int
  BY <1>1, <1>2, <1>3, <1>5
<1>8. /\ n * q = Day(c) \/ w * (n * q) + w <= w * Day(c)
      /\ w * Day(c) + w <= w * (n * q + n)
      /\ w * (n * q) \in Int /\ w * (n * q + n) \in Int
  <2>1. n * q = Day(c) \/ n * q < Day(c)
    BY <1>2, <1>5, <1>7
  <2> QED
    BY <1>1, <1>2, <1>5, <1>7, <2>1, Apart
<1>9. Month * q <= Local(c) /\ Local(c) < Month * q + Month
  <2>1. w * (n * q) <= Local(c)
    BY <1>1, <1>2, <1>8
  <2>2. Local(c) < w * (n * q + n)
    BY <1>1, <1>2, <1>8
  <2> QED
    BY <1>5, <2>1, <2>2
<1>10. ASSUME NEW i \in Int, Month * q <= Local(i), Local(i) < Month * q + Month
       PROVE  Clock(i).month = Clock(c).month
  <2>1. /\ Day(i) \in Int /\ w * Day(i) <= Local(i) /\ Local(i) < w * Day(i) + w
        /\ Local(i) \in Int /\ w * Day(i) \in Int
    BY DayIs, ZoneIs DEF w
  <2>2. Day(i) < n * q => w * Day(i) + w <= w * (n * q)
    BY <1>1, <1>5, <2>1, Apart
  <2>3. n * q + n <= Day(i) => w * (n * q + n) <= w * Day(i)
    <3>1. n * q + n = Day(i) \/ n * q + n < Day(i) \/ ~(n * q + n <= Day(i))
      BY <1>7, <2>1
    <3>2. n * q + n < Day(i) => w * (n * q + n) + w <= w * Day(i)
      BY <1>1, <1>7, <2>1, Apart
    <3>3. n * q + n = Day(i) => w * (n * q + n) = w * Day(i)
      OBVIOUS
    <3> QED
      BY <1>1, <1>8, <2>1, <3>1, <3>2, <3>3
  <2>4. w * (n * q) <= Local(i) /\ Local(i) < w * (n * q + n)
    BY <1>5, <1>10
  <2>5. ~(Day(i) < n * q) /\ ~(n * q + n <= Day(i))
    BY <1>1, <1>8, <2>1, <2>2, <2>3, <2>4
  <2>6. n * q <= Day(i) /\ Day(i) < n * q + n
    BY <1>1, <1>5, <1>7, <2>1, <2>5
  <2>7. Day(i) \div n = q
    BY <1>1, <1>3, <2>1, <2>6, QuotientIs
  <2> QED
    BY <2>7 DEF Clock, q, n
<1> QED
  BY <1>3, <1>5, <1>6, <1>8, <1>9, <1>10 DEF n

\* What Next goes over, or comes back to, when it leaves c for d.
PassedOver(c, d) == \A i \in Int : (c <= i /\ i < d) \/ (d <= i /\ i <= c) => ~Match(i)

LEMMA MatchMeans ==
    ASSUME NEW i, Match(i)
    PROVE  Hit("minute", i) /\ Hit("hour", i) /\ Hit("month", i) /\ DayMatches(i)
BY DEF Match, DayMatches

LEMMA SameDay ==
    ASSUME NEW i, NEW c, Day(i) = Day(c), ~DayMatches(c)
    PROVE  ~Match(i)
<1>1. Clock(i).dom = Clock(c).dom /\ Clock(i).dow = Clock(c).dow
  BY DEF Clock
<1>2. Hit("dom", i) = Hit("dom", c) /\ Hit("dow", i) = Hit("dow", c)
  BY <1>1 DEF Hit
<1>3. ~DayMatches(i)
  BY <1>2 DEF DayMatches
<1> QED
  BY <1>3, MatchMeans

LEMMA HourGoes ==
    ASSUME zone \in Zones, OnTheHour(zone), NEW c \in Int, ~Hit("hour", c)
    PROVE  /\ NextHour(c) \in Int /\ PassedOver(c, NextHour(c))
           /\ Smooth(zone) => c < NextHour(c)
<1> DEFINE t == zone.at
           b == zone.before
           a == zone.after
<1>1. PICK q \in Int :
              /\ Local(c) - Clock(c).minute = Hour * q
              /\ Hour * q <= Local(c) /\ Local(c) < Hour * q + Hour
              /\ \A i \in Int : Hour * q <= Local(i) /\ Local(i) < Hour * q + Hour =>
                    Clock(i).hour = Clock(c).hour
  BY HourIs
<1> DEFINE m == Hour * q
           d == NextHour(c)
<1>2. /\ t \in Int /\ b \in Int /\ a \in Int /\ Hour \in Nat \ {0} /\ m \in Int
      /\ a - b \in {-Hour, 0, Hour} /\ OffHours(m, t, b, a, Hour)
  <2>1. t \in Int /\ b \in Int /\ a \in Int
    BY ZoneIs
  <2>2. Hour \in Nat \ {0}
    BY SizesAre
  <2>3. m \in Int
    BY <2>2
  <2>4. a - b \in {-Hour, 0, Hour}
    BY DEF OnTheHour, Hour
  <2>5. OffHours(m, t, b, a, Hour)
    BY WholeHours
  <2> QED
    BY <2>1, <2>2, <2>3, <2>4, <2>5
<1>3. /\ m <= ReadingOf(c, t, b, a) /\ ReadingOf(c, t, b, a) < m + Hour
      /\ d = DateOf(m, t, b, a) + Hour /\ d \in Int
  <2>1. d = Instant(m) + Hour
    BY <1>1 DEF NextHour, StartOfHour, Hour
  <2>2. Instant(m) \in Int /\ Instant(m) = DateOf(m, t, b, a) /\ Local(c) = ReadingOf(c, t, b, a)
    BY <1>2, ZoneIs
  <2> QED
    BY <1>1, <1>2, <2>1, <2>2
<1> HIDE DEF m, d, t, b, a
<1>4. /\ \A i \in Int : (c <= i /\ i < d) \/ (d <= i /\ i <= c) =>
             m <= ReadingOf(i, t, b, a) /\ ReadingOf(i, t, b, a) < m + Hour
      /\ (b > a => a >= 0) => c < d
  BY <1>2, <1>3, HourSkipped
<1>5. ASSUME NEW i \in Int, (c <= i /\ i < d) \/ (d <= i /\ i <= c)
      PROVE  ~Match(i)
  <2>1. Local(i) = ReadingOf(i, t, b, a)
    BY ZoneIs DEF t, b, a
  <2>2. Clock(i).hour = Clock(c).hour
    BY <1>1, <1>4, <1>5, <2>1 DEF m
  <2>3. ~Hit("hour", i)
    BY <2>2 DEF Hit
  <2> QED
    BY <2>3, MatchMeans
<1> QED
  BY <1>3, <1>4, <1>5 DEF PassedOver, Smooth, d, b, a

\* Days and months alike: m is where the span begins, and DateOf(m) is moved on
\* by its length.
LEMMA SpanGoes ==
    ASSUME zone \in Zones, OnTheHour(zone), NEW c \in Int, NEW k \in Int, NEW n \in Nat \ {0},
           NEW m, m = MinutesPerDay * k, NEW p, p = MinutesPerDay * n,
           m <= Local(c), Local(c) < m + p
    PROVE  /\ AddDays(Instant(m), n) \in Int
           /\ \A i \in Int : (c <= i /\ i < AddDays(Instant(m), n))
                               \/ (AddDays(Instant(m), n) <= i /\ i <= c) =>
                  m <= Local(i) /\ Local(i) < m + p
           /\ Smooth(zone) => c < AddDays(Instant(m), n)
<1> DEFINE t == zone.at
           b == zone.before
           a == zone.after
           s == Instant(m)
           l == Local(s) + p
           e == m + p
           d == AddDays(s, n)
<1>1. /\ t \in Int /\ b \in Int /\ a \in Int /\ Hour \in Nat \ {0}
      /\ a - b \in {-Hour, 0, Hour}
  BY ZoneIs, SizesAre DEF OnTheHour, Hour
<1>2. /\ m \in Int /\ p \in Int /\ p >= Hour + Hour
      /\ m + p = MinutesPerDay * (k + n) /\ k + n \in Int
  <2>1. MinutesPerDay \in Nat \ {0} /\ MinutesPerDay >= Hour + Hour
    BY SizesAre
  <2>2. MinutesPerDay * k \in Int /\ MinutesPerDay * n \in Int /\ k + n \in Int
        /\ MinutesPerDay * (k + n) = MinutesPerDay * k + MinutesPerDay * n
    BY <2>1
  <2>3. MinutesPerDay <= MinutesPerDay * n
    <3>1. MinutesPerDay * 1 = MinutesPerDay /\ 1 \in Int
      BY <2>1
    <3>2. n = 1 \/ 1 < n
      OBVIOUS
    <3>3. 1 < n => MinutesPerDay * 1 + MinutesPerDay <= MinutesPerDay * n
      BY <2>1, Apart
    <3> QED
      BY <2>1, <2>2, <3>1, <3>2, <3>3
  <2> QED
    BY <1>1, <2>1, <2>2, <2>3
<1>3. OffHours(m, t, b, a, Hour) /\ OffHours(m + p, t, b, a, Hour)
  <2>1. \A x \in Int : OffHours(MinutesPerDay * x, t, b, a, Hour)
    BY SizesAre, WholeHours
  <2> QED
    BY <1>2, <2>1
<1>4. /\ \A x \in {m, m + p} : (x = t + b /\ b < a => b < 0) /\ (x = t + a /\ a < b => a < 0)
      /\ Smooth(zone) => (b < a => m # t + b /\ m + p # t + b) /\ (b > a => a >= 0)
  <2>1. \A x \in {m, m + p} : x % MinutesPerDay = 0 /\ x \in Int
    <3>1. \A y \in Int : (MinutesPerDay * y) % MinutesPerDay = 0
      BY SizesAre, NoRest
    <3> QED
      BY <1>2, <3>1
  <2>2. \A x \in {m, m + p} : (x = t + b /\ b < a => b < 0) /\ (x = t + a /\ a < b => a < 0)
    BY <1>1, <2>1 DEF OnTheHour
  <2>3. Smooth(zone) => (b < a => m # t + b /\ m + p # t + b) /\ (b > a => a >= 0)
    <3>1. ASSUME Smooth(zone), b < a, NEW x \in {m, m + p}, x = t + b PROVE FALSE
      <4>1. t + b \in t + b..t + a - 1 /\ (t + b) % MinutesPerDay = 0
        BY <1>1, <2>1, <3>1
      <4> QED
        BY <3>1, <4>1 DEF Smooth
    <3>2. Smooth(zone) => (b > a => a >= 0)
      BY DEF Smooth
    <3> QED
      BY <3>1, <3>2
  <2> QED
    BY <2>2, <2>3
<1>5. /\ s \in Int /\ s = DateOf(m, t, b, a) /\ d \in Int
      /\ l \in Int /\ l = ReadingOf(s, t, b, a) + p /\ d = DateOf(l, t, b, a)
      /\ m <= ReadingOf(c, t, b, a) /\ ReadingOf(c, t, b, a) < m + p
  <2>1. s \in Int /\ s = DateOf(m, t, b, a)
    BY <1>2, ZoneIs
  <2>2. Local(s) \in Int /\ Local(s) = ReadingOf(s, t, b, a) /\ Local(c) = ReadingOf(c, t, b, a)
    BY <2>1, ZoneIs
  <2>3. d = Instant(Local(s) + p)
    <3>1. n * MinutesPerDay = p
      BY SizesAre
    <3> QED
      BY <3>1 DEF AddDays
  <2>4. Local(s) + p \in Int
    BY <1>2, <2>2
  <2> QED
    BY <2>1, <2>2, <2>3, <2>4, ZoneIs
<1>6. \A i \in Int : Local(i) = ReadingOf(i, t, b, a)
  BY ZoneIs
<1> HIDE DEF d, e, l, s, t, b, a
<1>7. /\ \A i \in Int : (c <= i /\ i < d) \/ (d <= i /\ i <= c) =>
             m <= ReadingOf(i, t, b, a) /\ ReadingOf(i, t, b, a) < e
      /\ (b < a => m # t + b /\ e # t + b) => c < d
  <2>1. WestOnly(m, t, b, a) /\ WestOnly(e, t, b, a)
    BY <1>4 DEF WestOnly, e
  <2>2. e \in Int /\ e = m + p /\ OffHours(e, t, b, a, Hour) /\ ReadingOf(c, t, b, a) < e
    BY <1>2, <1>3, <1>5 DEF e
  <2>3. e - m = p /\ e - m >= Hour + Hour
    BY <1>2, <2>2, SizesAre
  <2>4. SpanStep(t, b, a, Hour, m, e, c, d)
    BY <1>1, <1>2, <1>3, <1>5, <2>1, <2>2, <2>3 DEF SpanStep
  <2> QED
    BY <2>4, SpanSkipped
<1> QED
  BY <1>4, <1>5, <1>6, <1>7 DEF d, s, e

LEMMA DayGoes ==
    ASSUME zone \in Zones, OnTheHour(zone), NEW c \in Int, ~DayMatches(c)
    PROVE  LET d == AddDays(StartOfDay(c), 1) IN
           d \in Int /\ PassedOver(c, d) /\ (Smooth(zone) => c < d)
<1> DEFINE m == MinutesPerDay * Day(c)
           d == AddDays(Instant(m), 1)
<1>1. /\ Day(c) \in Int /\ m <= Local(c) /\ Local(c) < m + MinutesPerDay
      /\ \A i \in Int : m <= Local(i) /\ Local(i) < m + MinutesPerDay => Day(i) = Day(c)
  BY DayIs
<1>2. MinutesPerDay * 1 = MinutesPerDay /\ Day(c) * MinutesPerDay = m /\ 1 \in Nat \ {0}
  BY <1>1, SizesAre
<1>3. /\ d \in Int /\ (Smooth(zone) => c < d)
      /\ \A i \in Int : (c <= i /\ i < d) \/ (d <= i /\ i <= c) =>
              m <= Local(i) /\ Local(i) < m + MinutesPerDay
  BY <1>1, <1>2, SpanGoes
<1>4. PassedOver(c, d)
  <2> SUFFICES ASSUME NEW i \in Int, (c <= i /\ i < d) \/ (d <= i /\ i <= c) PROVE ~Match(i)
    BY DEF PassedOver
  <2>1. Day(i) = Day(c)
    BY <1>1, <1>3
  <2> QED
    BY <2>1, SameDay
<1>5. AddDays(StartOfDay(c), 1) = d
  BY <1>2 DEF StartOfDay
<1> QED
  BY <1>3, <1>4, <1>5

LEMMA MonthGoes ==
    ASSUME zone \in Zones, OnTheHour(zone), NEW c \in Int, ~Hit("month", c)
    PROVE  LET d == AddDays(StartOfMonth(c), DaysPerMonth) IN
           d \in Int /\ PassedOver(c, d) /\ (Smooth(zone) => c < d)
<1>1. PICK q \in Int :
              /\ Day(c) - Clock(c).dom + 1 = DaysPerMonth * q /\ Month * q \in Int
              /\ Month * q <= Local(c) /\ Local(c) < Month * q + Month
              /\ \A i \in Int : Month * q <= Local(i) /\ Local(i) < Month * q + Month =>
                    Clock(i).month = Clock(c).month
  BY MonthIs
<1> DEFINE m == MinutesPerDay * (DaysPerMonth * q)
           d == AddDays(Instant(m), DaysPerMonth)
<1>2. /\ m = Month * q /\ DaysPerMonth * q \in Int /\ DaysPerMonth \in Nat \ {0}
      /\ Month = MinutesPerDay * DaysPerMonth
  BY SizesAre DEF Month
<1>3. /\ d \in Int /\ (Smooth(zone) => c < d)
      /\ \A i \in Int : (c <= i /\ i < d) \/ (d <= i /\ i <= c) =>
              m <= Local(i) /\ Local(i) < m + Month
  BY <1>1, <1>2, SpanGoes
<1>4. PassedOver(c, d)
  <2> SUFFICES ASSUME NEW i \in Int, (c <= i /\ i < d) \/ (d <= i /\ i <= c) PROVE ~Match(i)
    BY DEF PassedOver
  <2>1. Clock(i).month = Clock(c).month
    BY <1>1, <1>2, <1>3
  <2>2. ~Hit("month", i)
    BY <2>1 DEF Hit
  <2> QED
    BY <2>2, MatchMeans
<1>5. AddDays(StartOfMonth(c), DaysPerMonth) = d
  <2>1. (Day(c) - Clock(c).dom + 1) * MinutesPerDay = m
    BY <1>1, <1>2, SizesAre
  <2> QED
    BY <2>1 DEF StartOfMonth
<1> QED
  BY <1>3, <1>4, <1>5

\* Of the instants between what Next was asked about and its candidate, on
\* whatever side that is, none fires.
CronInv ==
    /\ zone \in Zones /\ since \in Int /\ cand \in Int
    /\ \A i \in Int : since < i /\ i < cand => ~Match(i)
    /\ \A i \in Int : cand <= i /\ i <= since => ~Match(i)
    /\ NextIsFirst

LEMMA CronInitially == CronInit => CronInv
<1> SUFFICES ASSUME CronInit PROVE CronInv
  OBVIOUS
<1>1. since \in Int /\ cand = since + 1 /\ found = "searching" /\ zone \in Zones
  BY CronAssumption DEF CronInit
<1>2. /\ cand \in Int
      /\ \A i \in Int : ~(since < i /\ i < cand) /\ ~(cand <= i /\ i <= since)
  BY <1>1
<1> QED
  BY <1>1, <1>2 DEF CronInv, NextIsFirst

LEMMA LimitIs == CronInv => Limit \in Int
<1> SUFFICES ASSUME CronInv PROVE Limit \in Int
  OBVIOUS
<1>1. since + 1 \in Int /\ Years * Months * DaysPerMonth \in Int /\ MinutesPerDay \in Int
  BY CronAssumption, SizesAre DEF CronInv
<1>2. (Years * Months * DaysPerMonth) * MinutesPerDay \in Int
  BY <1>1
<1>3. Local(since + 1) \in Int
  BY <1>1, ZoneIs DEF CronInv
<1>4. Local(since + 1) + (Years * Months * DaysPerMonth) * MinutesPerDay \in Int
  BY <1>2, <1>3
<1> QED
  BY <1>4, ZoneIs DEF CronInv, Limit, AddDays

\* What time says of an instant does not change while Next searches.
LEMMA ClockKept ==
    ASSUME UNCHANGED <<sched, zone, since>>
    PROVE  /\ \A i : Match(i)' = Match(i)
           /\ Limit' = Limit
<1>1. ASSUME NEW i PROVE Match(i)' = Match(i)
  BY DEF Match, Hit, Clock, Day, Local, Offset
<1> QED
  BY <1>1 DEF Limit, AddDays, Instant, Local, Offset

LEMMA GoesOn ==
    ASSUME CronInv, Goes(cand'), found = "searching", cand' \in Int, PassedOver(cand, cand')
    PROVE  CronInv'
<1>1. UNCHANGED <<sched, zone, since, found>>
  BY DEF Goes
<1>2. zone' \in Zones /\ since' \in Int /\ cand' \in Int /\ cand \in Int /\ since \in Int
  BY <1>1 DEF CronInv
<1>3. ASSUME NEW i \in Int, since < i, i < cand' PROVE ~Match(i)
  <2>1. i < cand \/ (cand <= i /\ i < cand')
    BY <1>2, <1>3
  <2> QED
    BY <1>3, <2>1 DEF CronInv, PassedOver
<1>4. ASSUME NEW i \in Int, cand' <= i, i <= since PROVE ~Match(i)
  <2>1. cand <= i \/ (cand' <= i /\ i <= cand)
    BY <1>2, <1>4
  <2> QED
    BY <1>4, <2>1 DEF CronInv, PassedOver
<1>5. NextIsFirst'
  BY <1>1 DEF NextIsFirst
<1>6. \A i \in Int : Match(i)' = Match(i)
  BY <1>1, ClockKept
<1> QED
  BY <1>1, <1>2, <1>3, <1>4, <1>5, <1>6 DEF CronInv

\* A skip is one of four, and each is of the kind above.
LEMMA SkipIs ==
    ASSUME CronInv, OnTheHour(zone), SkipMonth \/ SkipDay \/ SkipHour \/ SkipMinute
    PROVE  /\ Goes(cand') /\ found = "searching" /\ cand' \in Int /\ PassedOver(cand, cand')
           /\ Smooth(zone) => cand < cand'
<1>0. cand \in Int /\ zone \in Zones
  BY DEF CronInv
<1>1. CASE SkipMonth
  <2>1. /\ ~Hit("month", cand) /\ cand' = AddDays(StartOfMonth(cand), DaysPerMonth)
        /\ Goes(cand') /\ found = "searching"
    BY <1>1 DEF SkipMonth, Ready, Goes
  <2> QED
    BY <1>0, <2>1, MonthGoes
<1>2. CASE SkipDay
  <2>1. /\ ~DayMatches(cand) /\ cand' = AddDays(StartOfDay(cand), 1)
        /\ Goes(cand') /\ found = "searching"
    BY <1>2 DEF SkipDay, Ready, Goes
  <2> QED
    BY <1>0, <2>1, DayGoes
<1>3. CASE SkipHour
  <2>1. ~Hit("hour", cand) /\ cand' = NextHour(cand) /\ Goes(cand') /\ found = "searching"
    BY <1>3 DEF SkipHour, Ready, Goes
  <2> QED
    BY <1>0, <2>1, HourGoes
<1>4. CASE SkipMinute
  <2>1. ~Hit("minute", cand) /\ cand' = cand + 1 /\ Goes(cand') /\ found = "searching"
    BY <1>4 DEF SkipMinute, Ready, Goes
  <2>2. \A i \in Int : (cand <= i /\ i < cand') \/ (cand' <= i /\ i <= cand) => i = cand
    BY <1>0, <2>1
  <2>3. ~Match(cand)
    BY <2>1, MatchMeans
  <2> QED
    BY <1>0, <2>1, <2>2, <2>3 DEF PassedOver
<1> QED
  BY <1>1, <1>2, <1>3, <1>4

LEMMA CronStays ==
    ASSUME CronInv, OnTheHour(zone), [CronNext]_cronVars
    PROVE  CronInv' /\ (Smooth(zone) /\ turn' # turn => cand' > cand)
<1>0. cand \in Int /\ since \in Int /\ Limit \in Int
  BY LimitIs DEF CronInv
<1>1. CASE SkipMonth \/ SkipDay \/ SkipHour \/ SkipMinute
  <2>1. /\ Goes(cand') /\ found = "searching" /\ cand' \in Int /\ PassedOver(cand, cand')
        /\ Smooth(zone) => cand < cand'
    BY <1>1, SkipIs
  <2> QED
    BY <1>0, <2>1, GoesOn
<1>2. CASE Finds
  <2>1. /\ UNCHANGED <<sched, zone, since, cand, turn>> /\ found' = "found"
        /\ Hit("minute", cand) /\ Hit("hour", cand) /\ Hit("month", cand) /\ DayMatches(cand)
    BY <1>2 DEF Finds
  <2>2. Match(cand)
    BY <2>1 DEF Match, DayMatches
  <2>3. ~(cand <= since)
    <3>1. cand <= since => cand <= cand /\ cand <= since
      BY <1>0
    <3> QED
      BY <1>0, <2>2, <3>1 DEF CronInv
  <2>4. cand > since /\ \A i \in since + 1..cand - 1 : ~Match(i)
    <3>1. \A i \in since + 1..cand - 1 : i \in Int /\ since < i /\ i < cand
      BY <1>0
    <3> QED
      BY <1>0, <2>3, <3>1 DEF CronInv
  <2>5. \A i : Match(i)' = Match(i)
    BY <2>1, ClockKept
  <2>6. Match(cand)'
    BY <2>1, <2>2 DEF Match, Hit, Clock, Day, Local, Offset
  <2>7. NextIsFirst'
    BY <2>1, <2>4, <2>5, <2>6 DEF NextIsFirst
  <2> QED
    BY <2>1, <2>5, <2>7 DEF CronInv
<1>3. CASE GivesUp
  <2>1. /\ UNCHANGED <<sched, zone, since, cand, turn>> /\ found' = "none" /\ cand >= Limit
    BY <1>3 DEF GivesUp
  <2>2. \A i \in since + 1..Limit - 1 : ~Match(i)
    <3>1. \A i \in since + 1..Limit - 1 : i \in Int /\ since < i /\ i < cand
      BY <1>0, <2>1
    <3> QED
      BY <3>1 DEF CronInv
  <2>3. (\A i : Match(i)' = Match(i)) /\ Limit' = Limit
    BY <2>1, ClockKept
  <2>4. NextIsFirst'
    BY <2>1, <2>2, <2>3 DEF NextIsFirst
  <2> QED
    BY <2>1, <2>3, <2>4 DEF CronInv
<1>4. CASE UNCHANGED cronVars
  <2>1. UNCHANGED <<sched, zone, since, cand, turn, found>>
    BY <1>4 DEF cronVars
  <2>2. (\A i : Match(i)' = Match(i)) /\ Limit' = Limit
    BY <2>1, ClockKept
  <2>3. Match(cand)' = Match(cand)
    BY <2>1 DEF Match, Hit, Clock, Day, Local, Offset
  <2>4. NextIsFirst'
    BY <2>1, <2>2, <2>3 DEF NextIsFirst, CronInv
  <2> QED
    BY <2>1, <2>2, <2>4 DEF CronInv
<1> QED
  BY <1>1, <1>2, <1>3, <1>4 DEF CronNext

\* Next gives the first time that fires, or none, and where no midnight is
\* skipped and time.Date takes the second of two readings its search goes
\* forward at every turn: for calendars of any size, any expression, and zones
\* that change by an hour, on the hour, and not at midnight from Greenwich east.
THEOREM NextStaysFirst ==
    ASSUME \A z \in Zones : OnTheHour(z)
    PROVE  PackagesSpec => CronIsRight
<1> DEFINE Inv == topic = "cron" => CronInv
           Forward == Smooth(zone) /\ turn' # turn => cand' > cand
<1>1. PackagesInit => Inv
  BY CronInitially DEF PackagesInit
<1>2. Inv /\ [PackagesNext]_packagesVars => Inv' /\ [Forward]_cronVars
  <2> SUFFICES ASSUME Inv, [PackagesNext]_packagesVars PROVE Inv' /\ [Forward]_cronVars
    OBVIOUS
  <2>1. CASE topic = "cron"
    <3>1. CronInv /\ [CronNext]_cronVars
      BY <2>1 DEF PackagesNext, packagesVars
    <3>2. OnTheHour(zone)
      BY <3>1 DEF CronInv
    <3> QED
      BY <3>1, <3>2, CronStays
  <2>2. CASE topic # "cron"
    <3>1. topic' # "cron" /\ UNCHANGED cronVars
      BY <2>2 DEF PackagesNext, packagesVars
    <3> QED
      BY <3>1
  <2> QED
    BY <2>1, <2>2
<1>3. Inv => (topic = "cron" => NextIsFirst)
  BY DEF CronInv
<1> QED
  BY <1>1, <1>2, <1>3, PTL DEF PackagesSpec, CronIsRight, SearchGoesForward

---------------------------------------------------------------------------
(***************************************************************************)
(* Tailer: files are texts, lines of one length one behind the other, and   *)
(* the scanner finds them again.  Line by line, a poll passes over those    *)
(* before the offset; what it does not pass over has not been returned yet, *)
(* and what is owed and was not returned is behind the offset of the newest *)
(* file.  Lines are numbered as they are written, so those of an older file *)
(* are smaller, and a read returns larger ones than any poll before it.     *)
(***************************************************************************)

Width == LineSize + 1

\* Where the rth byte of line j is.
ByteOf(j, r) == Width * (j - 1) + r

\* b holds the lines f, from the first to the last.
IsText(b, f) ==
    /\ f \in Seq(1..MaxLines) /\ b \in Seq(0..MaxLines) /\ Len(b) = Width * Len(f)
    /\ \A j \in 1..Len(f) : \A r \in 1..Width :
          b[ByteOf(j, r)] = IF r = Width THEN 0 ELSE f[j]

LEMMA TextMade ==
    ASSUME NEW b, NEW f, NEW n, f \in Seq(1..MaxLines), b \in Seq(0..MaxLines),
           Len(f) = n, Len(b) = Width * n,
           \A j \in 1..n : \A r \in 1..Width :
              b[ByteOf(j, r)] = IF r = Width THEN 0 ELSE f[j]
    PROVE  IsText(b, f)
BY Zenon DEF IsText

LEMMA WidthIs ==
    /\ Width \in Nat \ {0} /\ Width > 1 /\ LineSize \in Nat /\ LineSize > 0
    /\ MaxLines \in Nat /\ MaxLines > 0 /\ MaxRead \in Nat
BY TailAssumption DEF Width

LEMMA LineSteps ==
    ASSUME NEW x \in Int, NEW y \in Int
    PROVE  /\ Width * x \in Int /\ Width * (x - 1) \in Int
           /\ Width * (x - 1) + Width = Width * x
           /\ Width * (x + y) = Width * x + Width * y
           /\ Width * 0 = 0
BY WidthIs

LEMMA LinesApart ==
    ASSUME NEW x \in Int, NEW y \in Int
    PROVE  /\ x < y => Width * x + Width <= Width * y
           /\ Width * x < Width * y => x < y
           /\ Width * x = Width * y => x = y
           /\ x <= y => Width * x <= Width * y
           /\ Width * x <= Width * y => x <= y
<1>1. /\ Width * x \in Int /\ Width * y \in Int /\ Width \in Int /\ Width > 0
      /\ x < y => Width * x + Width <= Width * y
      /\ Width * x < Width * y => x < y
      /\ y < x => Width * y + Width <= Width * x
      /\ Width * y < Width * x => y < x
  BY WidthIs, Apart
<1>2. x = y => Width * x = Width * y
  OBVIOUS
<1> QED
  BY <1>1, <1>2

\* Each byte is one of a line's.
LEMMA LineAt ==
    ASSUME NEW n \in Nat, NEW k \in 1..(Width * n)
    PROVE  \E j \in 1..n : \E r \in 1..Width : k = ByteOf(j, r)
<1> DEFINE q == (k - 1) \div Width
           s == (k - 1) % Width
<1>0. Width * n \in Int /\ k \in Int /\ 1 <= k /\ k <= Width * n
  BY LineSteps
<1>1. q \in Int /\ s \in Int /\ 0 <= s /\ s < Width /\ k - 1 = (Width * q) + s
  BY <1>0, WidthIs, DivisionIs
<1> HIDE DEF q, s
<1>2. Width * q \in Int /\ Width * 0 = 0
  BY <1>1, LineSteps
<1>3. ~(q < 0)
  <2> DEFINE c == Width * q
  <2>1. q < 0 => c + Width <= 0
    BY <1>1, <1>2, LinesApart
  <2>2. c \in Int /\ 1 <= c + s + 1
    BY <1>0, <1>1, <1>2
  <2> HIDE DEF c
  <2> QED
    BY <1>1, <2>1, <2>2, WidthIs
<1>4. ~(n <= q)
  <2> DEFINE a == Width * n
             c == Width * q
  <2>1. n <= q => a <= c
    BY <1>1, LinesApart
  <2>2. a \in Int /\ c \in Int /\ k <= a /\ k - 1 = c + s
    BY <1>0, <1>1, <1>2
  <2> HIDE DEF a, c
  <2> QED
    BY <1>0, <1>1, <2>1, <2>2
<1>5. q + 1 \in 1..n /\ s + 1 \in 1..Width /\ (q + 1) - 1 = q
  BY <1>1, <1>3, <1>4, WidthIs
<1>6. k = Width * q + (s + 1)
  BY <1>0, <1>1, <1>2
<1>7. k = ByteOf(q + 1, s + 1)
  BY <1>5, <1>6 DEF ByteOf
<1> QED
  BY <1>5, <1>7

LEMMA InText ==
    ASSUME NEW n \in Nat, NEW j \in 1..n, NEW r \in 1..Width
    PROVE  /\ ByteOf(j, r) \in 1..(Width * n)
           /\ Width * (j - 1) \in Nat /\ Width * n \in Nat
<1>1. Width * (j - 1) + Width <= Width * n /\ 0 <= Width * (j - 1)
  <2>1. Width * (j - 1) + Width = Width * j /\ Width * 0 = 0
    BY LineSteps
  <2>2. Width * j <= Width * n
    BY LinesApart
  <2>3. Width * 0 <= Width * (j - 1)
    BY LinesApart
  <2> QED
    BY <2>1, <2>2, <2>3
<1>2. Width * (j - 1) \in Int /\ Width * n \in Int
  <2>1. j \in Int /\ n \in Int
    OBVIOUS
  <2> QED
    BY <2>1, LineSteps
<1> QED
  BY <1>1, <1>2, WidthIs DEF ByteOf

LEMMA SamePlace ==
    ASSUME NEW i \in Int, NEW j \in Int, NEW r \in 1..Width, NEW s \in 1..Width,
           ByteOf(i, r) = ByteOf(j, s)
    PROVE  i = j /\ r = s
<1>1. Width * (i - 1) \in Int /\ Width * (j - 1) \in Int
      /\ Width * (i - 1) + r = Width * (j - 1) + s
  BY LineSteps DEF ByteOf
<1>2. /\ i - 1 < j - 1 => Width * (i - 1) + Width <= Width * (j - 1)
      /\ j - 1 < i - 1 => Width * (j - 1) + Width <= Width * (i - 1)
  BY LinesApart
<1>3. ~(i < j) /\ ~(j < i)
  BY <1>1, <1>2, WidthIs
<1>4. i = j
  BY <1>3
<1>5. r = s
  BY <1>1, <1>4, WidthIs
<1> QED
  BY <1>4, <1>5

LEMMA TextBytes ==
    ASSUME NEW b, NEW f, IsText(b, f)
    PROVE  /\ Len(f) \in Nat /\ DOMAIN f = 1..Len(f) /\ DOMAIN b = 1..(Width * Len(f))
           /\ Len(b) \in Nat /\ DOMAIN b = 1..Len(b)
           /\ \A j \in DOMAIN f : f[j] \in 1..MaxLines
           /\ \A j \in DOMAIN f : Width * (j - 1) + 1 \in DOMAIN b
                                  /\ b[Width * (j - 1) + 1] = f[j]
           /\ \A j \in DOMAIN f : Width * j \in DOMAIN b /\ b[Width * j] = 0
           /\ \A k \in DOMAIN b : b[k] = 0 => \E j \in DOMAIN f : k = Width * j
           /\ \A k \in DOMAIN b : b[k] # 0 => \E j \in DOMAIN f : b[k] = f[j]
<1>1. /\ Len(f) \in Nat /\ DOMAIN f = 1..Len(f) /\ Len(b) = Width * Len(f)
      /\ Len(b) \in Nat /\ DOMAIN b = 1..Len(b)
      /\ \A j \in DOMAIN f : f[j] \in 1..MaxLines
  <2>1. f \in Seq(1..MaxLines) /\ b \in Seq(0..MaxLines) /\ Len(b) = Width * Len(f)
    BY DEF IsText
  <2>2. Len(f) \in Nat /\ DOMAIN f = 1..Len(f) /\ \A j \in DOMAIN f : f[j] \in 1..MaxLines
    BY <2>1, SeqIs
  <2>3. Len(b) \in Nat /\ DOMAIN b = 1..Len(b)
    BY <2>1, SeqIs
  <2> QED
    BY <2>1, <2>2, <2>3
<1>2. ASSUME NEW j \in DOMAIN f
      PROVE  /\ Width * (j - 1) + 1 \in DOMAIN b /\ b[Width * (j - 1) + 1] = f[j]
             /\ Width * j \in DOMAIN b /\ b[Width * j] = 0
  <2>1. 1 \in 1..Width /\ Width \in 1..Width /\ 1 # Width /\ j \in 1..Len(f)
    BY <1>1, WidthIs
  <2>2. ByteOf(j, Width) = Width * j /\ ByteOf(j, 1) = Width * (j - 1) + 1
    <3>1. j \in Int
      BY <2>1
    <3> QED
      BY <3>1, LineSteps DEF ByteOf
  <2>3. ByteOf(j, 1) \in DOMAIN b /\ ByteOf(j, Width) \in DOMAIN b
    BY <1>1, <2>1, InText
  <2>4. b[ByteOf(j, 1)] = f[j] /\ b[ByteOf(j, Width)] = 0
    BY <2>1 DEF IsText
  <2> QED
    BY <2>2, <2>3, <2>4
<1>3. ASSUME NEW k \in DOMAIN b
      PROVE  /\ b[k] = 0 => \E j \in DOMAIN f : k = Width * j
             /\ b[k] # 0 => \E j \in DOMAIN f : b[k] = f[j]
  <2>1. PICK j \in 1..Len(f) : \E r \in 1..Width : k = ByteOf(j, r)
    <3>1. Len(f) \in Nat /\ k \in 1..(Width * Len(f))
      BY <1>1
    <3> QED
      BY <3>1, LineAt
  <2>2. PICK r \in 1..Width : k = ByteOf(j, r)
    BY <2>1
  <2>3. b[k] = IF r = Width THEN 0 ELSE f[j]
    BY <2>2 DEF IsText
  <2>4. f[j] \in 1..MaxLines /\ f[j] # 0
    BY <1>1
  <2>5. r = Width => k = Width * j
    <3>1. j \in Int
      OBVIOUS
    <3> QED
      BY <2>2, <3>1, LineSteps DEF ByteOf
  <2> QED
    BY <1>1, <2>3, <2>4, <2>5
<1> QED
  BY <1>1, <1>2, <1>3

LEMMA TextIsOne ==
    ASSUME NEW b, NEW f, NEW g, IsText(b, f), IsText(b, g)
    PROVE  f = g
<1>1. /\ f \in Seq(1..MaxLines) /\ g \in Seq(1..MaxLines)
      /\ Width * Len(f) = Width * Len(g) /\ Len(f) \in Nat /\ Len(g) \in Nat
  BY DEF IsText
<1>2. Len(f) = Len(g)
  BY <1>1, LinesApart
<1>3. \A j \in 1..Len(f) : f[j] = g[j]
  BY <1>2, TextBytes
<1> QED
  BY <1>1, <1>2, <1>3

LEMMA LinesInText ==
    ASSUME NEW b, NEW f, IsText(b, f)
    PROVE  LinesIn(b) = {f[j] : j \in DOMAIN f}
<1>1. \A n \in LinesIn(b) : \E j \in DOMAIN f : n = f[j]
  BY TextBytes DEF LinesIn, ToSet
<1>2. \A j \in DOMAIN f : f[j] \in LinesIn(b)
  BY TextBytes DEF LinesIn, ToSet
<1> QED
  BY <1>1, <1>2

LEMMA PartIs ==
    ASSUME NEW S, NEW s \in Seq(S), NEW m \in Nat \ {0}, NEW n \in Nat,
           n <= Len(s), m <= n + 1
    PROVE  /\ SubSeq(s, m, n) \in Seq(S) /\ Len(SubSeq(s, m, n)) = n - m + 1
           /\ \A k \in 1..(n - m + 1) : SubSeq(s, m, n)[k] = s[m + k - 1] /\ m + k - 1 \in DOMAIN s
<1>1. Len(s) \in Nat /\ DOMAIN s = 1..Len(s) /\ \A k \in DOMAIN s : s[k] \in S
  BY SeqIs
<1>2. n - m + 1 \in Nat /\ \A k \in 1..(n - m + 1) : m + k - 1 \in DOMAIN s /\ k + m - 1 = m + k - 1
  BY <1>1
<1>3. SubSeq(s, m, n) = [k \in 1..(n - m + 1) |-> s[m + k - 1]]
  BY <1>1, <1>2
<1>4. [k \in 1..(n - m + 1) |-> s[m + k - 1]] \in Seq(S)
  BY <1>1, <1>2
<1> QED
  BY <1>2, <1>3, <1>4

LEMMA EndIs ==
    ASSUME NEW S, NEW s \in Seq(S), NEW a \in Nat, a <= Len(s)
    PROVE  /\ SubSeq(s, a + 1, Len(s)) \in Seq(S) /\ Len(SubSeq(s, a + 1, Len(s))) = Len(s) - a
           /\ \A k \in 1..(Len(s) - a) : SubSeq(s, a + 1, Len(s))[k] = s[a + k] /\ a + k \in DOMAIN s
<1> DEFINE m == a + 1
           n == Len(s)
<1>1. m \in Nat \ {0} /\ n \in Nat /\ n <= Len(s) /\ m <= n + 1 /\ n - m + 1 = n - a
      /\ \A k \in 1..(n - a) : m + k - 1 = a + k
  BY SeqIs
<1> HIDE DEF m, n
<1>2. /\ SubSeq(s, m, n) \in Seq(S) /\ Len(SubSeq(s, m, n)) = n - m + 1
      /\ \A k \in 1..(n - m + 1) : SubSeq(s, m, n)[k] = s[m + k - 1] /\ m + k - 1 \in DOMAIN s
  BY <1>1, PartIs
<1>3. /\ SubSeq(s, m, n) \in Seq(S) /\ Len(SubSeq(s, m, n)) = n - a
      /\ \A k \in 1..(n - a) : SubSeq(s, m, n)[k] = s[a + k] /\ a + k \in DOMAIN s
  BY <1>1, <1>2
<1> QED
  BY <1>3 DEF m, n

LEMMA SpanOf ==
    ASSUME NEW S, NEW s \in Seq(S), NEW e \in Nat, NEW z \in Nat, e + z <= Len(s)
    PROVE  /\ SubSeq(s, e + 1, e + z) \in Seq(S) /\ Len(SubSeq(s, e + 1, e + z)) = z
           /\ \A k \in 1..z : SubSeq(s, e + 1, e + z)[k] = s[e + k]
<1> DEFINE m == e + 1
           n == e + z
<1>1. m \in Nat \ {0} /\ n \in Nat /\ n <= Len(s) /\ m <= n + 1 /\ n - m + 1 = z
      /\ \A k \in 1..z : m + k - 1 = e + k
  BY SeqIs
<1> HIDE DEF m, n
<1>2. /\ SubSeq(s, m, n) \in Seq(S) /\ Len(SubSeq(s, m, n)) = n - m + 1
      /\ \A k \in 1..(n - m + 1) : SubSeq(s, m, n)[k] = s[m + k - 1]
  BY <1>1, PartIs
<1>3. /\ SubSeq(s, m, n) \in Seq(S) /\ Len(SubSeq(s, m, n)) = z
      /\ \A k \in 1..z : SubSeq(s, m, n)[k] = s[e + k]
  BY <1>1, <1>2
<1> QED
  BY <1>3 DEF m, n

\* The bytes of all lines.
LEMMA StreamBytes ==
    /\ Stream \in Seq(0..MaxLines) /\ Len(Stream) = Width * MaxLines
    /\ \A j \in 1..MaxLines : \A r \in 1..Width :
          Stream[ByteOf(j, r)] = IF r = Width THEN 0 ELSE j
<1> DEFINE full == Width * MaxLines
<1>1. full \in Nat /\ full = MaxLines * (LineSize + 1)
  BY WidthIs DEF Width
<1>2. /\ Stream = [k \in 1..full |-> IF k % Width = 0 THEN 0 ELSE (k \div Width) + 1]
      /\ full = MaxLines * (LineSize + 1)
  <2>1. full = MaxLines * (LineSize + 1)
    BY WidthIs DEF Width
  <2> HIDE DEF full
  <2> QED
    BY <2>1 DEF Stream, Width
<1>3. ASSUME NEW j \in 1..MaxLines, NEW r \in 1..Width
      PROVE  /\ ByteOf(j, r) \in 1..full
             /\ Stream[ByteOf(j, r)] = IF r = Width THEN 0 ELSE j
  <2> DEFINE k == ByteOf(j, r)
  <2>1. k \in 1..full /\ k \in Int /\ Width * (j - 1) \in Int /\ Width * (j - 1) + Width = Width * j
        /\ k = Width * (j - 1) + r
    <3>1. k \in 1..full
      BY InText, WidthIs
    <3>2. j \in Int
      OBVIOUS
    <3> QED
      BY <3>1, <3>2, LineSteps DEF ByteOf
  <2> HIDE DEF k
  <2>2. k % Width \in Int /\ k \div Width \in Int /\ 0 <= k % Width /\ k % Width < Width
        /\ k = (Width * (k \div Width)) + (k % Width)
    BY <2>1, DivisionIs, WidthIs
  <2>3. CASE r = Width
    <3>1. k = Width * j
      BY <2>1, <2>3
    <3>2. k % Width = 0
      BY <3>1, NoRest, WidthIs
    <3> QED
      BY <1>2, <2>1, <2>3, <3>2 DEF k
  <2>4. CASE r # Width
    <3> DEFINE a == Width * (j - 1)
    <3>0. a \in Int /\ k = a + r /\ r \in Int /\ Width \in Int /\ 1 <= r /\ r <= Width
      BY <2>1, WidthIs
    <3> HIDE DEF a
    <3>1. a <= k /\ k < a + Width /\ a \in Int /\ k = a + r /\ r \in Int
      BY <2>4, <3>0
    <3> USE DEF a
    <3>2. k \div Width = j - 1
      BY <2>1, <3>1, QuotientIs, WidthIs
    <3>3. k = a + (k % Width)
      BY <2>2, <3>2
    <3> HIDE DEF a
    <3>4. k % Width = r
      BY <2>2, <3>1, <3>3
    <3>5. k % Width # 0
      BY <2>4, <3>4
    <3>6. Stream[k] = (k \div Width) + 1
      BY <1>2, <2>1, <3>5
    <3>7. Stream[k] = j
      BY <3>2, <3>6
    <3> QED
      BY <2>1, <2>4, <3>7 DEF k
  <2> QED
    BY <2>3, <2>4
<1>4. Stream \in Seq(0..MaxLines) /\ Len(Stream) = full /\ DOMAIN Stream = 1..full
  <2>1. ASSUME NEW k \in 1..full PROVE Stream[k] \in 0..MaxLines
    <3>1. PICK j \in 1..MaxLines : \E r \in 1..Width : k = ByteOf(j, r)
      BY WidthIs, LineAt
    <3>2. PICK r \in 1..Width : k = ByteOf(j, r)
      BY <3>1
    <3>3. Stream[k] = IF r = Width THEN 0 ELSE j
      BY <1>3, <3>2
    <3> QED
      BY <3>3, WidthIs
  <2> HIDE DEF full
  <2>2. Stream = [k \in 1..full |-> Stream[k]]
    BY <1>2
  <2>3. Stream \in Seq(0..MaxLines)
    BY <1>1, <2>1, <2>2, EntriesMake
  <2> QED
    BY <1>1, <2>2, <2>3
<1>5. Stream \in Seq(0..MaxLines) /\ Len(Stream) = Width * MaxLines
  BY <1>4
<1> HIDE DEF full
<1> QED
  BY <1>3, <1>5

LEMMA StreamPart ==
    ASSUME NEW e \in Nat, NEW z \in Nat, e + z <= Len(Stream)
    PROVE  /\ SubSeq(Stream, e + 1, e + z) \in Seq(0..MaxLines) /\ Len(SubSeq(Stream, e + 1, e + z)) = z
           /\ \A k \in 1..z : SubSeq(Stream, e + 1, e + z)[k] = Stream[e + k]
<1>1. Stream \in Seq(0..MaxLines)
  BY StreamBytes
<1> QED
  BY <1>1, SpanOf

LEMMA LinesOn ==
    ASSUME NEW w \in Int, NEW j \in Int, NEW r \in Int
    PROVE  Width * w + (ByteOf(j, r)) = ByteOf((w + j), r)
<1>1. Width * (w + (j - 1)) = Width * w + Width * (j - 1) /\ w + (j - 1) = (w + j) - 1
  BY LineSteps
<1>2. Width * w \in Int /\ Width * (j - 1) \in Int
  BY LineSteps
<1> QED
  BY <1>1, <1>2 DEF ByteOf

\* b is the stream's lines after w, f their numbers.
Streams(b, f, w, q) ==
    /\ w \in Nat /\ q \in Nat /\ w + q <= MaxLines
    /\ \A k \in 1..(Width * q) : b[k] = Stream[Width * w + k]
    /\ \A i \in 1..q : f[i] = w + i

LEMMA StreamLines ==
    ASSUME NEW b, NEW f, NEW w, NEW q, Streams(b, f, w, q),
           NEW j \in 1..q, NEW r \in 1..Width
    PROVE  b[ByteOf(j, r)] = IF r = Width THEN 0 ELSE f[j]
<1>0. w \in Nat /\ q \in Nat /\ w + q <= MaxLines
  BY DEF Streams
<1>1. ByteOf(j, r) \in 1..(Width * q)
  BY <1>0, InText
<1>2. w + j \in 1..MaxLines
  BY <1>0, WidthIs
<1>3. Width * w + (ByteOf(j, r)) = ByteOf((w + j), r)
  <2>1. w \in Int /\ j \in Int /\ r \in Int
    BY <1>0, WidthIs
  <2> QED
    BY <2>1, LinesOn, Zenon
<1>4. b[ByteOf(j, r)] = Stream[ByteOf((w + j), r)]
  BY <1>1, <1>3 DEF Streams
<1>5. Stream[ByteOf((w + j), r)] = IF r = Width THEN 0 ELSE w + j
  BY <1>2, StreamBytes
<1>6. f[j] = w + j
  BY DEF Streams
<1> QED
  BY <1>4, <1>5, <1>6

\* What the game writes next, q lines of it.
LEMMA GameLines ==
    ASSUME NEW w \in Nat, NEW q \in Nat, w + q <= MaxLines,
           NEW f \in Seq(1..MaxLines), Len(f) = q, \A i \in 1..q : f[i] = w + i
    PROVE  IsText(SubSeq(Stream, Width * w + 1, Width * w + Width * q), f)
<1> DEFINE e == Width * w
           z == Width * q
           b == SubSeq(Stream, e + 1, e + z)
<1>1. e \in Nat /\ z \in Nat /\ e + z <= Len(Stream)
  <2>1. Width * w + Width * q = Width * (w + q) /\ Width * 0 = 0
    BY LineSteps
  <2>2. Width * (w + q) <= Width * MaxLines /\ Width * 0 <= Width * w /\ Width * 0 <= Width * q
    BY WidthIs, LinesApart
  <2>3. Width * w \in Int /\ Width * q \in Int /\ Width * MaxLines \in Int
    BY WidthIs, LineSteps
  <2> QED
    BY <2>1, <2>2, <2>3, StreamBytes
<1> HIDE DEF e, z
<1>2. b \in Seq(0..MaxLines) /\ Len(b) = z /\ \A k \in 1..z : b[k] = Stream[e + k]
  BY <1>1, StreamPart
<1> HIDE DEF b
<1>3. \A k \in 1..(Width * q) : b[k] = Stream[Width * w + k]
  BY <1>2 DEF e, z
<1>4. \A j \in 1..q : \A r \in 1..Width :
         b[ByteOf(j, r)] = IF r = Width THEN 0 ELSE f[j]
  <2>1. ASSUME NEW j \in 1..q, NEW r \in 1..Width
        PROVE  b[ByteOf(j, r)] = IF r = Width THEN 0 ELSE f[j]
    <3>1. Streams(b, f, w, q)
      BY <1>3 DEF Streams
    <3> QED
      BY <3>1, StreamLines
  <2> QED
    BY <2>1, Zenon
<1>5. Len(b) = Width * q
  BY <1>2 DEF z
<1>6. IsText(b, f)
  <2>1. /\ f \in Seq(1..MaxLines) /\ b \in Seq(0..MaxLines)
        /\ Len(f) = q /\ Len(b) = Width * q
    BY <1>2, <1>5
  <2> QED
    BY <2>1, <1>4, TextMade, Zenon
<1> QED
  BY <1>6 DEF b, e, z

\* One text behind the other.
LEMMA TextsJoined ==
    ASSUME NEW b, NEW f, NEW c, NEW g, IsText(b, f), IsText(c, g)
    PROVE  IsText(b \o c, f \o g)
<1>0. /\ f \in Seq(1..MaxLines) /\ g \in Seq(1..MaxLines)
      /\ b \in Seq(0..MaxLines) /\ c \in Seq(0..MaxLines)
  BY DEF IsText
<1>1. /\ Len(b) = Width * Len(f) /\ Len(c) = Width * Len(g)
      /\ Len(f) \in Nat /\ Len(g) \in Nat
  BY <1>0, SeqIs DEF IsText
<1>2. /\ f \o g \in Seq(1..MaxLines) /\ Len(f \o g) = Len(f) + Len(g)
      /\ \A m \in 1..Len(f) : (f \o g)[m] = f[m]
      /\ \A m \in 1..Len(g) : (f \o g)[Len(f) + m] = g[m]
  BY <1>0, JoinIs
<1>3. /\ b \o c \in Seq(0..MaxLines) /\ Len(b \o c) = Len(b) + Len(c)
      /\ \A m \in 1..Len(b) : (b \o c)[m] = b[m]
      /\ \A m \in 1..Len(c) : (b \o c)[Len(b) + m] = c[m]
  BY <1>0, JoinIs
<1>4. Len(b \o c) = Width * Len(f \o g)
  <2>1. Width * (Len(f) + Len(g)) = Width * Len(f) + Width * Len(g)
    BY <1>1, LineSteps
  <2> QED
    BY <1>1, <1>2, <1>3, <2>1
<1>5. ASSUME NEW j \in 1..Len(f \o g), NEW r \in 1..Width
      PROVE  (b \o c)[ByteOf(j, r)] = IF r = Width THEN 0 ELSE (f \o g)[j]
  <2>1. CASE j <= Len(f)
    <3>1. j \in 1..Len(f)
      BY <2>1
    <3>2. ByteOf(j, r) \in 1..Len(b)
      BY <1>1, <3>1, InText
    <3>3. b[ByteOf(j, r)] = IF r = Width THEN 0 ELSE f[j]
      BY <3>1 DEF IsText
    <3> QED
      BY <1>2, <1>3, <3>1, <3>2, <3>3
  <2>2. CASE ~(j <= Len(f))
    <3> DEFINE i == j - Len(f)
    <3>1. i \in 1..Len(g) /\ j = Len(f) + i
      BY <1>1, <1>2, <2>2
    <3>2. ByteOf(i, r) \in 1..Len(c)
      BY <1>1, <3>1, InText
    <3>3. c[ByteOf(i, r)] = IF r = Width THEN 0 ELSE g[i]
      BY <3>1 DEF IsText
    <3>4. ByteOf(j, r) = Len(b) + (ByteOf(i, r))
      <4>1. i \in Int /\ j = Len(f) + i /\ Len(f) \in Int /\ r \in Int
        BY <1>1, <3>1, WidthIs
      <4> HIDE DEF i
      <4>2. Width * Len(f) + ByteOf(i, r) = ByteOf(Len(f) + i, r)
        BY <4>1, LinesOn
      <4> QED
        BY <1>1, <4>1, <4>2
    <3> HIDE DEF i
    <3> QED
      BY <1>2, <1>3, <3>1, <3>2, <3>3, <3>4
  <2> QED
    BY <2>1, <2>2
<1> QED
  BY <1>2, <1>3, <1>4, <1>5 DEF IsText

\* Some lines of a text, those behind the first a up to the one at z.
LEMMA TextsPart ==
    ASSUME NEW b, NEW f, IsText(b, f), NEW z \in 0..Len(f), NEW a \in 0..z
    PROVE  IsText(SubSeq(b, Width * a + 1, Width * z), SubSeq(f, a + 1, z))
<1> DEFINE n == z - a
           c == SubSeq(b, Width * a + 1, Width * z)
           g == SubSeq(f, a + 1, z)
<1>0. f \in Seq(1..MaxLines) /\ b \in Seq(0..MaxLines)
  BY DEF IsText
<1>1. Len(b) = Width * Len(f) /\ Len(f) \in Nat /\ Len(b) \in Nat
  BY <1>0, SeqIs DEF IsText
<1>2. n \in Nat /\ z = a + n /\ a \in Nat /\ z \in Nat /\ z <= Len(f)
  BY <1>1
<1>3. /\ Width * z = Width * a + Width * n /\ Width * a \in Nat /\ Width * n \in Nat
      /\ Width * z <= Len(b)
  <2>0. a \in Int /\ n \in Int /\ 0 <= a /\ 0 <= n
    BY <1>2
  <2> HIDE DEF n
  <2>1. Width * (a + n) = Width * a + Width * n /\ Width * 0 = 0
    BY <2>0, LineSteps
  <2>2. Width * 0 <= Width * a /\ Width * 0 <= Width * n
    BY <2>0, LinesApart
  <2>3. Width * a \in Int /\ Width * n \in Int
    BY <2>0, LineSteps
  <2>4. Width * z = Width * (a + n)
    BY <1>2
  <2>5. Width * z <= Width * Len(f)
    BY <1>1, <1>2, LinesApart
  <2> QED
    BY <1>1, <2>1, <2>2, <2>3, <2>4, <2>5
<1>4. g \in Seq(1..MaxLines) /\ Len(g) = n /\ \A k \in 1..n : g[k] = f[a + k]
  <2> HIDE DEF n
  <2>1. a \in Nat /\ n \in Nat /\ a + n <= Len(f) /\ a + n = z
    BY <1>2
  <2>2. /\ SubSeq(f, a + 1, a + n) \in Seq(1..MaxLines) /\ Len(SubSeq(f, a + 1, a + n)) = n
        /\ \A k \in 1..n : SubSeq(f, a + 1, a + n)[k] = f[a + k]
    BY <1>0, <2>1, SpanOf
  <2> QED
    BY <2>1, <2>2
<1>5. c \in Seq(0..MaxLines) /\ Len(c) = Width * n /\ \A k \in 1..(Width * n) : c[k] = b[Width * a + k]
  <2> DEFINE e == Width * a
             y == Width * n
  <2>1. e \in Nat /\ y \in Nat /\ e + y <= Len(b) /\ e + y = Width * z
    BY <1>3
  <2> HIDE DEF e, n, y
  <2>2. /\ SubSeq(b, e + 1, e + y) \in Seq(0..MaxLines) /\ Len(SubSeq(b, e + 1, e + y)) = y
        /\ \A k \in 1..y : SubSeq(b, e + 1, e + y)[k] = b[e + k]
    BY <1>0, <2>1, SpanOf
  <2> QED
    BY <2>1, <2>2 DEF e, y
<1>6. ASSUME NEW j \in 1..n, NEW r \in 1..Width
      PROVE  c[ByteOf(j, r)] = IF r = Width THEN 0 ELSE g[j]
  <2>0. j \in Int /\ n \in Nat /\ a + j \in 1..Len(f)
    BY <1>1, <1>2
  <2> HIDE DEF n
  <2>1. ByteOf(j, r) \in 1..(Width * n)
    BY <2>0, InText
  <2>2. b[ByteOf((a + j), r)] = IF r = Width THEN 0 ELSE f[a + j]
    BY <2>0 DEF IsText
  <2>3. Width * a + (ByteOf(j, r)) = ByteOf((a + j), r)
    <3>1. a \in Int /\ j \in Int /\ r \in Int
      BY <1>2, <2>0, WidthIs
    <3> QED
      BY <3>1, LinesOn
  <2> HIDE DEF c, g
  <2> QED
    BY <1>4, <1>5, <2>1, <2>2, <2>3
<1> HIDE DEF c, g, n
<1>7. IsText(c, g)
  BY <1>4, <1>5, <1>6 DEF IsText
<1> QED
  BY <1>7 DEF c, g

LEMMA NoText == IsText(<< >>, << >>)
<1>1. << >> \in Seq(1..MaxLines) /\ << >> \in Seq(0..MaxLines) /\ Len(<< >>) = 0
  OBVIOUS
<1>2. Width * 0 = 0 /\ 1..0 = {}
  BY LineSteps
<1> QED
  BY <1>1, <1>2 DEF IsText

Multiples(n) == {Width * j : j \in 1..n}

LEMMA MultiplesAre ==
    ASSUME NEW n \in Nat
    PROVE  /\ Multiples(n) \in SUBSET Nat /\ IsFiniteSet(Multiples(n)) /\ Cardinality(Multiples(n)) = n
           /\ \A m \in 1..n : {e \in Multiples(n) : e <= Width * m} = Multiples(m)
           /\ \A m \in 1..n : {e \in Multiples(n) : e < Width * m} = Multiples(m - 1)
<1>1. ASSUME NEW j \in Nat
      PROVE  Width * j \in Nat
  BY WidthIs, Positive
<1>2. Multiples(n) \in SUBSET Nat
  BY <1>1 DEF Multiples
<1> DEFINE f == [j \in 1..n |-> Width * j]
<1>3. f \in Bijection(1..n, Multiples(n))
  <2>1. f \in [1..n -> Multiples(n)]
    BY DEF Multiples
  <2>2. \A i, j \in 1..n : f[i] = f[j] => i = j
    BY LinesApart
  <2>3. \A x \in Multiples(n) : \E j \in 1..n : f[j] = x
    BY DEF Multiples
  <2> HIDE DEF f
  <2> QED
    BY <2>1, <2>2, <2>3 DEF Bijection, Injection, Surjection, IsInjective
<1>4. IsFiniteSet(Multiples(n)) /\ Cardinality(Multiples(n)) = n
  <2>1. IsFiniteSet(1..n) /\ Cardinality(1..n) = n
    BY UpToIs
  <2>2. ExistsBijection(1..n, Multiples(n))
    BY <1>3 DEF ExistsBijection
  <2> QED
    BY <2>1, <2>2, FS_Bijection
<1>5. ASSUME NEW m \in 1..n
      PROVE  /\ {e \in Multiples(n) : e <= Width * m} = Multiples(m)
             /\ {e \in Multiples(n) : e < Width * m} = Multiples(m - 1)
  <2>1. \A j \in 1..n : Width * j <= Width * m <=> j \in 1..m
    BY LinesApart
  <2>2. \A j \in 1..n : Width * j < Width * m <=> j \in 1..(m - 1)
    <3>1. ASSUME NEW j \in 1..n
          PROVE  Width * j < Width * m <=> j \in 1..(m - 1)
      <4>1. /\ j \in Int /\ m \in Int /\ Width * j \in Int /\ Width * m \in Int /\ Width > 0 /\ Width \in Int
        BY LineSteps, WidthIs
      <4>2. /\ j < m => Width * j + Width <= Width * m
            /\ Width * j < Width * m => j < m
        BY <4>1, LinesApart
      <4> QED
        BY <4>1, <4>2
    <3> QED
      BY <3>1
  <2>3. \A j \in 1..m : j \in 1..n
    OBVIOUS
  <2>4. \A j \in 1..(m - 1) : j \in 1..n
    OBVIOUS
  <2> QED
    BY <2>1, <2>2, <2>3, <2>4, Zenon DEF Multiples
<1> QED
  BY <1>2, <1>4, <1>5

LEMMA NthIs ==
    ASSUME NEW K \in SUBSET Nat, IsFiniteSet(K), NEW k \in K, NEW n,
           Cardinality({e \in K : e <= k}) = n
    PROVE  Nth(K, n) = k
<1>1. \A m \in K : Cardinality({e \in K : e <= m}) = n => m = k
  BY RanksAre
<1> QED
  BY <1>1 DEF Nth

LEMMA NthMultiple ==
    ASSUME NEW n \in Nat, NEW m \in 1..n
    PROVE  Nth(Multiples(n), m) = Width * m
<1>1. m \in Nat /\ Width * m \in Multiples(n)
  BY DEF Multiples
<1>2. {e \in Multiples(n) : e <= Width * m} = Multiples(m) /\ Cardinality(Multiples(m)) = m
  BY <1>1, MultiplesAre
<1>3. Cardinality({e \in Multiples(n) : e <= Width * m}) = m
  BY <1>2, Zenon
<1>4. Multiples(n) \in SUBSET Nat /\ IsFiniteSet(Multiples(n))
  BY MultiplesAre
<1> QED
  BY <1>1, <1>3, <1>4, NthIs, Zenon

LEMMA NthOfAll ==
    ASSUME NEW n \in Nat, NEW m \in 1..n
    PROVE  Nth(1..n, m) = m
<1>1. {e \in 1..n : e <= m} = 1..m
  OBVIOUS
<1>2. Cardinality(1..m) = m /\ IsFiniteSet(1..n) /\ 1..n \in SUBSET Nat
  BY UpToIs
<1> QED
  BY <1>1, <1>2, NthIs

LEMMA LargestBefore ==
    ASSUME NEW n \in Nat
    PROVE  Max({0} \cup Multiples(n)) = Width * n
<1>1. Width * n \in {0} \cup Multiples(n)
  <2>1. n = 0 \/ n \in 1..n
    OBVIOUS
  <2>2. Width * 0 = 0
    BY LineSteps
  <2> QED
    BY <2>1, <2>2 DEF Multiples
<1>2. \A e \in {0} \cup Multiples(n) : e \in Int /\ Width * n >= e
  <2>1. \A j \in 1..n : Width * j <= Width * n /\ Width * j \in Int /\ Width * n \in Int
    BY LinesApart, LineSteps
  <2>2. Width * n \in Int /\ 0 <= Width * n
    BY Positive, WidthIs
  <2> QED
    BY <2>1, <2>2 DEF Multiples
<1>3. \A x \in {0} \cup Multiples(n) :
         (\A y \in {0} \cup Multiples(n) : x >= y) => x = Width * n
  <2>1. ASSUME NEW x \in {0} \cup Multiples(n), \A y \in {0} \cup Multiples(n) : x >= y
        PROVE  x = Width * n
    <3>1. x >= Width * n /\ Width * n >= x /\ x \in Int /\ Width * n \in Int
      BY <1>1, <1>2, <2>1
    <3> QED
      BY <3>1
  <2> QED
    BY <2>1
<1>4. \A y \in {0} \cup Multiples(n) : Width * n >= y
  BY <1>2
<1> QED
  BY <1>1, <1>3, <1>4, Zenon DEF Max

\* The lines a file holds.
TextOf(b) == [j \in 1..(Len(b) \div Width) |-> b[ByteOf(j, 1)]]

LEMMA WholeLinesCount ==
    ASSUME NEW n \in Nat
    PROVE  (Width * n) \div Width = n
<1> DEFINE a == Width * n
<1>1. a \in Int /\ n \in Int /\ Width \in Nat \ {0} /\ a = Width * n
  BY LineSteps, WidthIs
<1> HIDE DEF a
<1>2. a <= a /\ a < a + Width
  BY <1>1
<1>3. Width * n <= a /\ a < Width * n + Width
  BY <1>1, <1>2
<1>4. a \div Width = n
  BY <1>1, <1>3, QuotientIs
<1> QED
  BY <1>4 DEF a

LEMMA TextOfIs ==
    ASSUME NEW b, NEW f, IsText(b, f)
    PROVE  TextOf(b) = f
<1>1. /\ f \in Seq(1..MaxLines) /\ Len(b) = Width * Len(f) /\ Len(f) \in Nat /\ DOMAIN f = 1..Len(f)
  BY SeqIs DEF IsText
<1>2. Len(b) \div Width = Len(f)
  BY <1>1, WholeLinesCount
<1>3. \A j \in 1..Len(f) : b[ByteOf(j, 1)] = f[j]
  <2>1. 1 \in 1..Width /\ 1 # Width
    BY WidthIs
  <2> QED
    BY <2>1 DEF IsText
<1>4. TextOf(b) = [j \in 1..Len(f) |-> f[j]]
  BY <1>2, <1>3 DEF TextOf
<1> QED
  BY <1>1, <1>4

\* The line of b that ends at k, and where they end.
EndsOf(b) == {k \in DOMAIN b : b[k] = 0 \/ k = Len(b)}
LineTo(b, k) ==
    LET from == Max({0} \cup {e \in EndsOf(b) : e < k}) + 1
    IN SubSeq(b, from, IF b[k] = 0 THEN k - 1 ELSE k)

LEMMA ScannedIs ==
    ASSUME NEW b
    PROVE  /\ Scanned(b).lines = [m \in 1..Cardinality(EndsOf(b)) |-> LineTo(b, Nth(EndsOf(b), m))]
           /\ Scanned(b).read = Len(b) + (IF b # << >> /\ Last(b) # 0 THEN 1 ELSE 0)
BY DEF Scanned, EndsOf, LineTo

LEMMA EndsAre ==
    ASSUME NEW b, NEW f, IsText(b, f)
    PROVE  EndsOf(b) = Multiples(Len(f))
<1>1. /\ Len(f) \in Nat /\ DOMAIN f = 1..Len(f) /\ DOMAIN b = 1..(Width * Len(f))
      /\ \A j \in DOMAIN f : Width * j \in DOMAIN b /\ b[Width * j] = 0
      /\ \A k \in DOMAIN b : b[k] = 0 => \E j \in DOMAIN f : k = Width * j
  BY TextBytes
<1>2. Len(b) = Width * Len(f)
  BY DEF IsText
<1>3. ASSUME NEW k \in EndsOf(b) PROVE k \in Multiples(Len(f))
  <2>1. CASE b[k] = 0
    BY <1>1, <1>3, <2>1 DEF EndsOf, Multiples
  <2>2. CASE k = Len(b)
    <3>1. k \in 1..(Width * Len(f)) /\ k = Width * Len(f)
      BY <1>1, <1>2, <1>3, <2>2 DEF EndsOf
    <3>2. Len(f) # 0
      <4>1. Width * 0 = 0
        BY LineSteps
      <4> QED
        BY <3>1, <4>1
    <3>3. Len(f) \in 1..Len(f)
      BY <1>1, <3>2
    <3> QED
      BY <3>1, <3>3 DEF Multiples
  <2> QED
    BY <1>3, <2>1, <2>2 DEF EndsOf
<1>4. ASSUME NEW k \in Multiples(Len(f)) PROVE k \in EndsOf(b)
  BY <1>1, <1>4 DEF EndsOf, Multiples
<1> QED
  BY <1>3, <1>4

LEMMA LineIs ==
    ASSUME NEW b, NEW f, IsText(b, f), NEW m \in 1..Len(f)
    PROVE  LineTo(b, Width * m) # << >> /\ Head(LineTo(b, Width * m)) = f[m]
<1> DEFINE c == Width * (m - 1)
           k == Width * m
           n == Len(f)
<1>1. /\ n \in Nat /\ DOMAIN f = 1..n /\ Len(b) = Width * n /\ Len(b) \in Nat /\ b \in Seq(0..MaxLines)
      /\ b[c + 1] = f[m] /\ k \in DOMAIN b /\ b[k] = 0 /\ DOMAIN b = 1..Len(b)
  BY TextBytes DEF IsText
<1>2. c \in Nat /\ k = c + Width /\ k \in Int /\ k <= Len(b)
  <2>1. m - 1 \in Int /\ m - 1 >= 0 /\ m \in Int /\ m <= n
    BY <1>1
  <2>2. Width * (m - 1) + Width = Width * m /\ Width * m \in Int /\ Width * m <= Width * n
    BY <1>1, <2>1, LineSteps, LinesApart
  <2>3. Width * (m - 1) \in Nat
    BY <2>1, Positive, WidthIs
  <2> QED
    BY <1>1, <2>2, <2>3
<1> HIDE DEF c, k
<1>3. Max({0} \cup {e \in EndsOf(b) : e < k}) = c
  <2>1. {e \in EndsOf(b) : e < k} = Multiples(m - 1)
    BY <1>1, EndsAre, MultiplesAre DEF k
  <2>2. m - 1 \in Nat
    BY <1>1
  <2> QED
    BY <2>1, <2>2, LargestBefore DEF c
<1>4. LineTo(b, k) = SubSeq(b, c + 1, k - 1)
  BY <1>1, <1>3 DEF LineTo
<1>5. /\ SubSeq(b, c + 1, k - 1) \in Seq(0..MaxLines)
      /\ Len(SubSeq(b, c + 1, k - 1)) = LineSize
      /\ \A i \in 1..LineSize : SubSeq(b, c + 1, k - 1)[i] = b[c + i]
  <2>1. k - 1 = c + LineSize /\ LineSize \in Nat /\ c + LineSize <= Len(b)
    BY <1>1, <1>2, WidthIs DEF Width
  <2>2. b \in Seq(0..MaxLines) /\ c \in Nat
    BY <1>1, <1>2
  <2>3. /\ SubSeq(b, c + 1, c + LineSize) \in Seq(0..MaxLines)
        /\ Len(SubSeq(b, c + 1, c + LineSize)) = LineSize
        /\ \A i \in 1..LineSize : SubSeq(b, c + 1, c + LineSize)[i] = b[c + i]
    BY <2>1, <2>2, SpanOf
  <2> QED
    BY <2>1, <2>3
<1>6. 1 \in 1..LineSize /\ LineSize # 0
  BY WidthIs
<1> DEFINE s == SubSeq(b, c + 1, k - 1)
<1> HIDE DEF s
<1>7. s \in Seq(0..MaxLines) /\ Len(s) # 0 /\ s[1] = f[m]
  BY <1>1, <1>5, <1>6 DEF s
<1>8. s # << >> /\ Head(s) = f[m]
  BY <1>7, TailIs
<1> QED
  BY <1>4, <1>8 DEF k, s

\* Scanning a text gives its lines and counts its bytes.
LEMMA ScanText ==
    ASSUME NEW b, NEW f, IsText(b, f)
    PROVE  Entries(Scanned(b).lines) = f /\ Scanned(b).read = Len(b)
<1> DEFINE n == Len(f)
           lines == Scanned(b).lines
<1>1. n \in Nat /\ DOMAIN f = 1..n /\ Len(b) = Width * n /\ Len(b) \in Nat
      /\ f \in Seq(1..MaxLines) /\ b \in Seq(0..MaxLines)
  BY TextBytes DEF IsText
<1>2. EndsOf(b) = Multiples(n) /\ Cardinality(Multiples(n)) = n
  BY <1>1, EndsAre, MultiplesAre
<1>3. lines = [m \in 1..n |-> LineTo(b, Nth(Multiples(n), m))]
  BY <1>2, ScannedIs
<1> HIDE DEF lines
<1>4. ASSUME NEW m \in 1..n PROVE lines[m] # << >> /\ Head(lines[m]) = f[m]
  <2>1. Nth(Multiples(n), m) = Width * m
    BY <1>1, NthMultiple
  <2>2. lines[m] = LineTo(b, Width * m)
    BY <1>3, <2>1
  <2> QED
    BY <2>2, LineIs
<1>5. {k \in DOMAIN lines : lines[k] # << >>} = 1..n
  BY <1>3, <1>4
<1>6. Cardinality(1..n) = n /\ \A m \in 1..n : Nth(1..n, m) = m
  BY <1>1, UpToIs, NthOfAll
<1>7. Entries(lines) = [m \in 1..n |-> f[m]]
  <2>1. Entries(lines) = [m \in 1..Cardinality(1..n) |-> Head(lines[Nth(1..n, m)])]
    BY <1>5, Zenon DEF Entries
  <2>2. Entries(lines) = [m \in 1..n |-> Head(lines[Nth(1..n, m)])]
    BY <1>6, <2>1
  <2> QED
    BY <1>4, <1>6, <2>2
<1>8. Entries(lines) = f
  BY <1>1, <1>7
<1>9. Scanned(b).read = Len(b)
  <2>1. b # << >> => Last(b) = 0
    <3>1. b # << >> => Len(b) # 0
      BY <1>1, SeqIs
    <3>2. Len(b) # 0 => n # 0
      <4>1. Width * 0 = 0
        BY LineSteps
      <4> QED
        BY <1>1, <4>1
    <3>3. n # 0 => b[Width * n] = 0
      <4>1. n # 0 => n \in DOMAIN f
        BY <1>1
      <4> QED
        BY <4>1, TextBytes
    <3> QED
      BY <1>1, <3>1, <3>2, <3>3 DEF Last
  <2>2. Scanned(b).read = Len(b) + 0
    BY <2>1, ScannedIs
  <2> QED
    BY <1>1, <2>2
<1> QED
  BY <1>8, <1>9 DEF lines

Lines(d) == TextOf(logs[d])
Drawn == written \div Width
Heard == ToSet(heard)

\* How many lines of a file the next poll passes over: all of one it has not
\* met, none of one that became shorter than it was.
Passed(d) ==
    IF d \notin DOMAIN offsets THEN Len(Lines(d))
    ELSE IF offsets[d] <= Len(logs[d]) THEN offsets[d] \div Width ELSE 0

\* Less than a line is begun, of those there are.
HalfFits == half \in 0..LineSize /\ written + half <= Width * MaxLines

\* Each file holds whole lines, in the order they were written, but for the
\* one begun.
TextFits ==
    /\ HalfFits
    /\ DOMAIN logs \subseteq Days /\ Drawn \in 0..MaxLines /\ written = Width * Drawn
    /\ \A d \in DOMAIN logs :
        /\ IsText(logs[d], Lines(d)) /\ Len(Lines(d)) <= Drawn
        /\ \A i, j \in DOMAIN Lines(d) : i < j => Lines(d)[i] < Lines(d)[j]
        /\ \A i \in DOMAIN Lines(d) : Lines(d)[i] <= Drawn
    /\ \A d, e \in DOMAIN logs : d < e =>
        \A i \in DOMAIN Lines(d), j \in DOMAIN Lines(e) : Lines(d)[i] < Lines(e)[j]

OffsetFits ==
    /\ DOMAIN offsets \subseteq Days /\ Cardinality(DOMAIN offsets) <= MaxOffsets
    /\ warmed \in BOOLEAN /\ (~warmed => DOMAIN offsets = {})
    /\ \A d \in DOMAIN offsets : \E q \in Nat : offsets[d] = Width * q

HeardInOrder ==
    \A k, m \in DOMAIN heard : k < m =>
        /\ heard[k] # heard[m]
        /\ heard[k] < heard[m] \/ \A d \in DOMAIN logs : \A j \in DOMAIN Lines(d) : Lines(d)[j] # heard[k]

\* What the next poll does not pass over has not been returned.
HeardFits ==
    /\ heard \in Seq(1..MaxLines) /\ \A k \in DOMAIN heard : heard[k] <= Drawn
    /\ \A d \in DOMAIN logs : \A j \in DOMAIN Lines(d) : j > Passed(d) => Lines(d)[j] \notin Heard
    /\ HeardInOrder

ReadingFits ==
    reading # None =>
        /\ reading.day \in DOMAIN offsets
        /\ \/ reading.at = offsets[reading.day]
           \/ /\ reading.at = 0 /\ offsets[reading.day] # 0
              /\ reading.day \in DOMAIN logs => Len(logs[reading.day]) < offsets[reading.day]
        /\ \A e \in DOMAIN logs : e > reading.day =>
              \A j \in DOMAIN Lines(e) : Lines(e)[j] \notin Heard

\* What is owed and still to come is before the next poll, in the newest file.
OwedFits ==
    /\ owed \subseteq 1..MaxLines /\ \A n \in owed : n <= Drawn
    /\ \A d \in DOMAIN logs : \A j \in DOMAIN Lines(d) :
          Lines(d)[j] \in owed =>
             \/ Lines(d)[j] \in Heard
             \/ d = Newest /\ d \in DOMAIN offsets /\ j > Passed(d)

CaughtFits ==
    caughtUp => DOMAIN logs # {} /\ Passed(Newest) >= Len(Lines(Newest))

TailInv == TextFits /\ OffsetFits /\ HeardFits /\ ReadingFits /\ OwedFits /\ CaughtFits

\* The largest of some days.
Largest(K) == CHOOSE d \in K : \A e \in K : e <= d

LEMMA LargestIs ==
    ASSUME NEW K, K \subseteq Days, K # {}
    PROVE  /\ Largest(K) \in K /\ \A e \in K : e <= Largest(K)
           /\ \A d \in K : (\A e \in K : e <= d) => d = Largest(K)
<1>1. K \in SUBSET Nat /\ IsFiniteSet(K)
  BY TailAssumption, FS_Subset
<1>2. \E d \in K : \A e \in K : e <= d
  <2>1. Cardinality(K) \in Nat /\ Cardinality(K) # 0
    BY <1>1, FS_CardinalityType, FS_EmptySet
  <2>2. PICK d \in K : Cardinality({m \in K : m <= d}) = Cardinality(K)
    BY <1>1, <2>1, RanksAre
  <2>3. {m \in K : m <= d} \in SUBSET K
    OBVIOUS
  <2>4. {m \in K : m <= d} = K
    BY <1>1, <2>2, <2>3, FS_Subset
  <2> QED
    BY <2>4
<1>3. Largest(K) \in K /\ \A e \in K : e <= Largest(K)
  BY <1>2, Zenon DEF Largest
<1>4. ASSUME NEW d \in K, \A e \in K : e <= d PROVE d = Largest(K)
  <2>1. d <= Largest(K) /\ Largest(K) <= d /\ d \in Nat /\ Largest(K) \in Nat
    BY <1>1, <1>3, <1>4
  <2> QED
    BY <2>1
<1> QED
  BY <1>3, <1>4

LEMMA NewestIs == Newest = Largest(DOMAIN logs)
BY DEF Newest, Largest

LEMMA NoLines == TextOf(<< >>) = << >> /\ DOMAIN TextOf(<< >>) = {} /\ Len(TextOf(<< >>)) = 0
<1>1. TextOf(<< >>) = << >>
  BY NoText, TextOfIs
<1>2. DOMAIN << >> = {} /\ Len(<< >>) = 0
  OBVIOUS
<1> QED
  BY <1>1, <1>2

\* What a file is, line by line.
LEMMA FileIs ==
    ASSUME TextFits, NEW d \in DOMAIN logs
    PROVE  /\ d \in Days /\ d \in Nat /\ IsText(logs[d], Lines(d)) /\ logs[d] \in Seq(0..MaxLines)
           /\ Lines(d) \in Seq(1..MaxLines) /\ Len(Lines(d)) \in Nat
           /\ DOMAIN Lines(d) = 1..Len(Lines(d))
           /\ Len(logs[d]) = Width * Len(Lines(d)) /\ Len(logs[d]) \in Nat
           /\ \A j \in DOMAIN Lines(d) : Lines(d)[j] \in 1..MaxLines
           /\ LinesIn(logs[d]) = {Lines(d)[j] : j \in DOMAIN Lines(d)}
           /\ Drawn \in Nat
<1>1. IsText(logs[d], Lines(d)) /\ d \in Days /\ Drawn \in Nat
  BY DEF TextFits
<1>2. d \in Nat
  BY <1>1, TailAssumption
<1>3. /\ Lines(d) \in Seq(1..MaxLines) /\ logs[d] \in Seq(0..MaxLines)
      /\ Len(logs[d]) = Width * Len(Lines(d))
  BY <1>1 DEF IsText
<1>4. /\ Len(Lines(d)) \in Nat /\ DOMAIN Lines(d) = 1..Len(Lines(d)) /\ Len(logs[d]) \in Nat
      /\ \A j \in DOMAIN Lines(d) : Lines(d)[j] \in 1..MaxLines
  BY <1>1, TextBytes
<1>5. LinesIn(logs[d]) = {Lines(d)[j] : j \in DOMAIN Lines(d)}
  BY <1>1, LinesInText
<1> QED
  BY <1>1, <1>2, <1>3, <1>4, <1>5

\* One line is in one file, once.
LEMMA LineIsOnce ==
    ASSUME TextFits, NEW d \in DOMAIN logs, NEW e \in DOMAIN logs,
           NEW i \in DOMAIN Lines(d), NEW j \in DOMAIN Lines(e), Lines(d)[i] = Lines(e)[j]
    PROVE  d = e /\ i = j
<1>1. d \in Nat /\ e \in Nat /\ i \in Nat /\ j \in Nat /\ Lines(d)[i] \in Nat /\ Lines(e)[j] \in Nat
  BY FileIs
<1>2. ~(d < e) /\ ~(e < d)
  BY <1>1 DEF TextFits
<1>3. d = e
  BY <1>1, <1>2
<1>4. ~(i < j) /\ ~(j < i)
  BY <1>1, <1>3 DEF TextFits
<1> QED
  BY <1>1, <1>3, <1>4

LEMMA PassedIs ==
    ASSUME TextFits, OffsetFits, NEW d \in DOMAIN logs
    PROVE  Passed(d) \in Nat /\ (d \in DOMAIN offsets => offsets[d] \in Nat)
<1>1. CASE d \notin DOMAIN offsets
  BY <1>1, FileIs DEF Passed
<1>2. CASE d \in DOMAIN offsets
  <2>1. PICK q \in Nat : offsets[d] = Width * q
    BY <1>2 DEF OffsetFits
  <2>2. offsets[d] \div Width = q
    BY <2>1, WholeLinesCount
  <2>3. offsets[d] \in Nat
    BY <2>1, Positive, WidthIs
  <2> QED
    BY <1>2, <2>2, <2>3 DEF Passed
<1> QED
  BY <1>1, <1>2

\* d loses its lines, whatever becomes of it, and no other file changes.
Loses(d) ==
    /\ d \in Days /\ DOMAIN logs' \subseteq DOMAIN logs \cup {d}
    /\ \A e \in DOMAIN logs' : e # d => e \in DOMAIN logs /\ logs'[e] = logs[e]
    /\ d \in DOMAIN logs' => logs'[d] = << >>
    /\ caughtUp' = FALSE /\ HalfFits'
    /\ UNCHANGED <<written, offsets, warmed, reading, heard>>

LEMMA LosesLines ==
    ASSUME NEW d, Loses(d)
    PROVE  /\ \A e \in DOMAIN logs' : e # d => e \in DOMAIN logs /\ Lines(e)' = Lines(e)
                                               /\ logs'[e] = logs[e] /\ Passed(e)' = Passed(e)
           /\ \A e \in DOMAIN logs' : e = d => Lines(e)' = << >> /\ DOMAIN Lines(e)' = {} /\ logs'[e] = << >>
                                               /\ Len(Lines(e)') = 0 /\ Len(logs'[e]) = 0
           /\ Drawn' = Drawn /\ Heard' = Heard
<1>1. \A e \in DOMAIN logs' : e # d => e \in DOMAIN logs /\ Lines(e)' = Lines(e)
                                       /\ logs'[e] = logs[e] /\ Passed(e)' = Passed(e)
  BY DEF Loses, Lines, Passed
<1>2. \A e \in DOMAIN logs' : e = d => Lines(e)' = << >> /\ DOMAIN Lines(e)' = {} /\ logs'[e] = << >>
                                       /\ Len(Lines(e)') = 0 /\ Len(logs'[e]) = 0
  <2>1. Len(<< >>) = 0
    OBVIOUS
  <2> QED
    BY <2>1, NoLines, Zenon DEF Loses, Lines
<1>3. Drawn' = Drawn /\ Heard' = Heard
  BY DEF Loses, Drawn, Heard
<1> QED
  BY <1>1, <1>2, <1>3

LEMMA LosesFits ==
    ASSUME TailInv, NEW d, Loses(d)
    PROVE  TextFits' /\ OffsetFits' /\ HeardFits' /\ ReadingFits' /\ CaughtFits'
<1>0. TextFits /\ OffsetFits /\ HeardFits /\ ReadingFits
  BY DEF TailInv
<1>1. TextFits'
  <2>1. HalfFits' /\ DOMAIN logs' \subseteq Days /\ Drawn' \in 0..MaxLines /\ written' = Width * Drawn'
    BY <1>0, LosesLines DEF TextFits, Loses
  <2>2. ASSUME NEW e \in DOMAIN logs'
        PROVE  /\ IsText(logs'[e], Lines(e)') /\ Len(Lines(e)') <= Drawn'
               /\ \A i, j \in DOMAIN Lines(e)' : i < j => Lines(e)'[i] < Lines(e)'[j]
               /\ \A i \in DOMAIN Lines(e)' : Lines(e)'[i] <= Drawn'
    <3>1. CASE e # d
      <4>1. e \in DOMAIN logs /\ Lines(e)' = Lines(e) /\ logs'[e] = logs[e] /\ Drawn' = Drawn
        BY <2>2, <3>1, LosesLines
      <4> QED
        BY <1>0, <4>1 DEF TextFits
    <3>2. CASE e = d
      <4>1. Lines(e)' = << >> /\ DOMAIN Lines(e)' = {} /\ logs'[e] = << >> /\ Len(Lines(e)') = 0
        BY <2>2, <3>2, LosesLines
      <4>2. 0 <= Drawn'
        BY <2>1
      <4> QED
        BY <4>1, <4>2, NoText
    <3> QED
      BY <3>1, <3>2
  <2>3. ASSUME NEW e \in DOMAIN logs', NEW f \in DOMAIN logs', e < f,
               NEW i \in DOMAIN Lines(e)', NEW j \in DOMAIN Lines(f)'
        PROVE  Lines(e)'[i] < Lines(f)'[j]
    <3>1. e # d /\ f # d
      BY <2>3, LosesLines
    <3>2. e \in DOMAIN logs /\ f \in DOMAIN logs /\ Lines(e)' = Lines(e) /\ Lines(f)' = Lines(f)
      BY <2>3, <3>1, LosesLines
    <3> QED
      BY <1>0, <2>3, <3>2 DEF TextFits
  <2> QED
    BY <2>1, <2>2, <2>3 DEF TextFits
<1>2. OffsetFits'
  BY <1>0 DEF OffsetFits, Loses
<1>3. HeardFits'
  <2>1. heard' = heard
    BY DEF Loses
  <2>2. HeardInOrder'
    <3>1. \A n : (\A e \in DOMAIN logs : \A j \in DOMAIN Lines(e) : Lines(e)[j] # n)
                   => \A e \in DOMAIN logs' : \A j \in DOMAIN Lines(e)' : Lines(e)'[j] # n
      BY LosesLines
    <3>2. HeardInOrder
      BY <1>0 DEF HeardFits
    <3>3. ASSUME NEW k \in DOMAIN heard, NEW m \in DOMAIN heard, k < m
          PROVE  /\ heard[k] # heard[m]
                 /\ \/ heard[k] < heard[m]
                    \/ \A e \in DOMAIN logs' : \A j \in DOMAIN Lines(e)' : Lines(e)'[j] # heard[k]
      <4>1. /\ heard[k] # heard[m]
            /\ \/ heard[k] < heard[m]
               \/ \A e \in DOMAIN logs : \A j \in DOMAIN Lines(e) : Lines(e)[j] # heard[k]
        BY <3>2, <3>3 DEF HeardInOrder
      <4> QED
        BY <3>1, <4>1
    <3> QED
      BY <2>1, <3>3 DEF HeardInOrder
  <2>3. \A e \in DOMAIN logs' : \A j \in DOMAIN Lines(e)' : j > Passed(e)' => Lines(e)'[j] \notin Heard'
    BY <1>0, LosesLines DEF HeardFits
  <2> QED
    BY <1>0, <2>1, <2>2, <2>3, LosesLines DEF HeardFits
<1>4. ReadingFits'
  <2> SUFFICES ASSUME reading # None PROVE ReadingFits'
    BY DEF ReadingFits, Loses
  <2>1. reading' = reading /\ offsets' = offsets
    BY DEF Loses
  <2>2. \A e \in DOMAIN logs' : e > reading.day =>
              \A j \in DOMAIN Lines(e)' : Lines(e)'[j] \notin Heard'
    BY <1>0, LosesLines DEF ReadingFits
  <2>3. offsets[reading.day] # 0 /\ (reading.day \in DOMAIN logs => Len(logs[reading.day]) < offsets[reading.day])
           => (reading.day \in DOMAIN logs' => Len(logs'[reading.day]) < offsets[reading.day])
    <3>1. offsets[reading.day] \in Nat
      <4>1. PICK q \in Nat : offsets[reading.day] = Width * q
        BY <1>0 DEF OffsetFits, ReadingFits
      <4> QED
        BY <4>1, Positive, WidthIs
    <3>2. \A e \in DOMAIN logs' : (e # d => e \in DOMAIN logs /\ logs'[e] = logs[e])
                                  /\ (e = d => Len(logs'[e]) = 0)
      BY LosesLines
    <3> QED
      BY <3>1, <3>2
  <2> QED
    BY <1>0, <2>1, <2>2, <2>3 DEF ReadingFits
<1>5. CaughtFits'
  BY DEF CaughtFits, Loses
<1> QED
  BY <1>1, <1>2, <1>3, <1>4, <1>5

\* A line begun goes on elsewhere only if the tailer goes astray.
LEMMA BreaksNone ==
    ASSUME TextFits, BreaksOff, ~astray'
    PROVE  half = 0 /\ written' = written /\ HalfFits'
<1>1. half = 0 /\ half' = 0 /\ written' = written + half
  BY DEF BreaksOff
<1>2. written \in Int /\ written + half <= Width * MaxLines /\ LineSize \in Nat
  BY Positive, WidthIs DEF TextFits, HalfFits
<1>3. written' = written
  BY <1>1, <1>2
<1> QED
  BY <1>1, <1>2, <1>3 DEF HalfFits

LEMMA DayBeginsLoses ==
    ASSUME TailInv, DayBegins, ~astray'
    PROVE  \E d \in Days : Loses(d) /\ DOMAIN logs' = DOMAIN logs \cup {d} /\ d \notin DOMAIN logs
<1>0. half = 0 /\ written' = written /\ HalfFits'
  BY BreaksNone DEF TailInv, DayBegins
<1>1. PICK d \in Days :
        /\ \A e \in DOMAIN logs : d > e
        /\ logs' = [e \in DOMAIN logs \cup {d} |-> IF e = d THEN << >> ELSE logs[e]]
  <2>1. \A e : Content(e) = logs[e]
    BY <1>0 DEF Content
  <2>2. PICK d \in Days :
          /\ \A e \in DOMAIN logs : d > e
          /\ logs' = [e \in DOMAIN logs \cup {d} |-> IF e = d THEN << >> ELSE Content(e)]
    BY DEF DayBegins
  <2> QED
    BY <2>1, <2>2
<1>2. d \notin DOMAIN logs
  BY <1>1, TailAssumption
<1>3. Loses(d)
  BY <1>0, <1>1, <1>2 DEF Loses, DayBegins
<1> QED
  BY <1>1, <1>2, <1>3

LEMMA HalfStays ==
    ASSUME TailInv, NEW d, ~astray',
           IF d = Newest THEN BreaksOff ELSE UNCHANGED <<written, half, astray>>
    PROVE  written' = written /\ HalfFits'
<1>1. d # Newest => written' = written /\ HalfFits'
  BY DEF TailInv, TextFits, HalfFits
<1> QED
  BY <1>1, BreaksNone DEF TailInv

LEMMA CutLoses ==
    ASSUME TailInv, ~astray', NEW d \in Days, FileIsCut(d)
    PROVE  Loses(d) /\ DOMAIN logs' = DOMAIN logs
<1>1. written' = written /\ HalfFits'
  BY HalfStays DEF FileIsCut
<1> QED
  BY <1>1 DEF FileIsCut, Loses

LEMMA GoesLoses ==
    ASSUME TailInv, ~astray', NEW d \in Days, FileGoes(d)
    PROVE  Loses(d) /\ DOMAIN logs' = DOMAIN logs \ {d}
<1>1. written' = written /\ HalfFits'
  BY HalfStays DEF FileGoes
<1> QED
  BY <1>1 DEF FileGoes, Loses

LEMMA ForgivenIs ==
    ASSUME TextFits, NEW d \in DOMAIN logs
    PROVE  /\ Forgiven(d) \subseteq owed
           /\ \A j \in DOMAIN Lines(d) : Lines(d)[j] \in Forgiven(d) => Lines(d)[j] \in Heard
BY FileIs DEF Forgiven, Heard

LEMMA LosesKeeps ==
    ASSUME TailInv, NEW d, Loses(d), owed' \subseteq owed,
           \A e \in DOMAIN logs' : e # d => \A j \in DOMAIN Lines(e) : Lines(e)[j] \in owed' =>
              Lines(e)[j] \in Heard \/ (e = Newest /\ e = Newest')
    PROVE  TailInv'
<1>0. OwedFits /\ offsets' = offsets
  BY DEF TailInv, Loses
<1>1. ASSUME NEW e \in DOMAIN logs', NEW j \in DOMAIN Lines(e)', Lines(e)'[j] \in owed'
      PROVE  \/ Lines(e)'[j] \in Heard'
             \/ e = Newest' /\ e \in DOMAIN offsets' /\ j > Passed(e)'
  <2>1. e # d
    BY <1>1, LosesLines
  <2>2. e \in DOMAIN logs /\ Lines(e)' = Lines(e) /\ Passed(e)' = Passed(e) /\ Heard' = Heard
    BY <1>1, <2>1, LosesLines
  <2>3. Lines(e)[j] \in owed
    BY <1>1, <2>2
  <2>4. Lines(e)[j] \in Heard \/ (e = Newest /\ e = Newest')
    BY <1>1, <2>1, <2>2
  <2>5. Lines(e)[j] \in Heard \/ (e = Newest /\ e \in DOMAIN offsets /\ j > Passed(e))
    BY <1>0, <1>1, <2>2, <2>3 DEF OwedFits
  <2> QED
    BY <1>0, <2>2, <2>4, <2>5
<1>2. owed' \subseteq 1..MaxLines /\ \A n \in owed' : n <= Drawn'
  BY <1>0, LosesLines DEF OwedFits
<1>3. OwedFits'
  BY <1>1, <1>2 DEF OwedFits
<1> QED
  BY <1>3, LosesFits DEF TailInv

LEMMA DayBeginsKeeps == TailInv /\ DayBegins /\ ~astray' => TailInv'
<1> SUFFICES ASSUME TailInv, DayBegins, ~astray' PROVE TailInv'
  OBVIOUS
<1>0. TextFits /\ OwedFits
  BY DEF TailInv
<1>1. PICK d \in Days : Loses(d) /\ DOMAIN logs' = DOMAIN logs \cup {d} /\ d \notin DOMAIN logs
  BY DayBeginsLoses
<1>2. /\ DOMAIN logs = {} => owed' = owed
      /\ DOMAIN logs # {} => owed' = Forgiven(Newest)
  BY DEF DayBegins
<1>3. DOMAIN logs # {} => Newest \in DOMAIN logs
  BY <1>0, LargestIs, NewestIs DEF TextFits
<1>4. owed' \subseteq owed
  BY <1>0, <1>2, <1>3, ForgivenIs
<1>5. ASSUME NEW e \in DOMAIN logs', e # d, NEW j \in DOMAIN Lines(e), Lines(e)[j] \in owed'
      PROVE  Lines(e)[j] \in Heard
  <2>1. e \in DOMAIN logs /\ DOMAIN logs # {} /\ Lines(e)[j] \in owed
    BY <1>1, <1>4, <1>5
  <2>2. CASE e = Newest
    BY <1>0, <1>2, <1>5, <2>1, <2>2, ForgivenIs
  <2>3. CASE e # Newest
    BY <1>0, <2>1, <2>3 DEF OwedFits
  <2> QED
    BY <2>2, <2>3
<1> QED
  BY <1>1, <1>4, <1>5, LosesKeeps

LEMMA FileIsCutKeeps == TailInv /\ (\E d \in Days : FileIsCut(d)) /\ ~astray' => TailInv'
<1> SUFFICES ASSUME TailInv, NEW d \in Days, FileIsCut(d), ~astray' PROVE TailInv'
  OBVIOUS
<1>0. TextFits /\ OwedFits
  BY DEF TailInv
<1>1. Loses(d) /\ DOMAIN logs' = DOMAIN logs /\ owed' = Forgiven(d) /\ d \in DOMAIN logs
  BY CutLoses DEF FileIsCut
<1>2. owed' \subseteq owed
  BY <1>0, <1>1, ForgivenIs
<1>3. Newest' = Newest
  BY <1>1 DEF Newest
<1>4. ASSUME NEW e \in DOMAIN logs', e # d, NEW j \in DOMAIN Lines(e), Lines(e)[j] \in owed'
      PROVE  Lines(e)[j] \in Heard \/ (e = Newest /\ e = Newest')
  BY <1>0, <1>1, <1>2, <1>3, <1>4 DEF OwedFits
<1> QED
  BY <1>1, <1>2, <1>4, LosesKeeps

LEMMA FileGoesKeeps == TailInv /\ (\E d \in Days : FileGoes(d)) /\ ~astray' => TailInv'
<1> SUFFICES ASSUME TailInv, NEW d \in Days, FileGoes(d), ~astray' PROVE TailInv'
  OBVIOUS
<1>0. TextFits /\ OwedFits
  BY DEF TailInv
<1>1. Loses(d) /\ DOMAIN logs' = DOMAIN logs \ {d} /\ owed' = Forgiven(d) /\ d \in DOMAIN logs
  BY GoesLoses DEF FileGoes
<1>2. owed' \subseteq owed
  BY <1>0, <1>1, ForgivenIs
<1>3. Newest # d => Newest' = Newest
  <2> SUFFICES ASSUME Newest # d PROVE Newest' = Newest
    OBVIOUS
  <2>1. DOMAIN logs \subseteq Days /\ DOMAIN logs # {}
    BY <1>0, <1>1 DEF TextFits
  <2>2. Newest \in DOMAIN logs /\ \A e \in DOMAIN logs : e <= Newest
    BY <2>1, LargestIs, NewestIs
  <2>3. Newest \in DOMAIN logs' /\ DOMAIN logs' \subseteq Days /\ \A e \in DOMAIN logs' : e <= Newest
    BY <1>1, <2>1, <2>2
  <2>4. Newest = Largest(DOMAIN logs')
    BY <2>3, LargestIs
  <2> QED
    BY <2>4 DEF Newest, Largest
<1>4. ASSUME NEW e \in DOMAIN logs', e # d, NEW j \in DOMAIN Lines(e), Lines(e)[j] \in owed'
      PROVE  Lines(e)[j] \in Heard \/ (e = Newest /\ e = Newest')
  BY <1>0, <1>1, <1>2, <1>3, <1>4 DEF OwedFits
<1> QED
  BY <1>1, <1>2, <1>4, LosesKeeps

\* The game ends the next q lines behind those of d.
Wrote(d, q) ==
    /\ d = Newest /\ d \in DOMAIN logs /\ q \in Nat /\ Drawn + q <= MaxLines
    /\ DOMAIN logs' = DOMAIN logs /\ \A e \in DOMAIN logs : e # d => logs'[e] = logs[e]
    /\ IsText(logs'[d], Lines(d)') /\ Len(Lines(d)') = Len(Lines(d)) + q
    /\ \A j \in 1..Len(Lines(d)) : Lines(d)'[j] = Lines(d)[j]
    /\ \A i \in 1..q : Lines(d)'[Len(Lines(d)) + i] = Drawn + i
    /\ written' = Width * (Drawn + q) /\ Drawn' = Drawn + q /\ HalfFits'
    /\ Len(logs[d]) <= Len(logs'[d])
    /\ d \in DOMAIN offsets /\ Len(logs[d]) < offsets[d] => Len(logs'[d]) < offsets[d]
    /\ \A n \in owed' : n \in owed \/ (d \in DOMAIN offsets /\ \E i \in 1..q : n = Drawn + i)
    /\ caughtUp' = FALSE
    /\ UNCHANGED <<cuts, offsets, warmed, reading, heard>>

LEMMA LargerOf ==
    ASSUME NEW x \in Int, NEW y \in Int
    PROVE  Max({x, y}) = IF y >= x THEN y ELSE x
<1> DEFINE m == IF y >= x THEN y ELSE x
<1>1. m \in {x, y} /\ \A z \in {x, y} : m >= z
  OBVIOUS
<1>2. \A k \in {x, y} : (\A z \in {x, y} : k >= z) => k = m
  OBVIOUS
<1> HIDE DEF m
<1>3. Max({x, y}) = m
  BY <1>1, <1>2, Zenon DEF Max
<1> QED
  BY <1>3 DEF m

\* The place where the last line ends, when n bytes are written at w with h
\* bytes of a line begun.
EndedAt(w, h, n) == Max({w, (w + h + n) - ((w + h + n) % Width)})

LEMMA EndedIs ==
    ASSUME NEW w \in Nat, NEW h \in 0..LineSize, NEW n \in Nat
    PROVE  /\ EndedAt(w, h, n) \in Nat /\ w <= EndedAt(w, h, n) /\ EndedAt(w, h, n) <= w + h + n
           /\ (w + h + n) - EndedAt(w, h, n) \in 0..LineSize
           /\ \A q \in Nat : w = Width * q =>
                \E u \in Nat : q <= u /\ EndedAt(w, h, n) = Width * u
<1> DEFINE upto == w + h + n
           r == upto % Width
           u == upto \div Width
           e == upto - r
<1>0. LineSize \in Nat /\ Width = LineSize + 1 /\ Width \in Nat \ {0}
  BY WidthIs DEF Width
<1>1. upto \in Nat /\ w <= upto
  BY <1>0
<1> HIDE DEF upto
<1>2. u \in Int /\ r \in Int /\ 0 <= r /\ r < Width /\ upto = (Width * u) + r
  <2>1. upto \in Int /\ Width \in Nat \ {0}
    BY <1>0, <1>1
  <2> QED
    BY <2>1, DivisionIs
<1> HIDE DEF u, r
<1>3. Width * u \in Int
  BY <1>2, LineSteps
<1>4. e \in Int /\ e <= upto /\ upto - e < Width /\ e = Width * u
  BY <1>1, <1>2, <1>3
<1> HIDE DEF e
<1>5. EndedAt(w, h, n) = IF e >= w THEN e ELSE w
  <2>1. EndedAt(w, h, n) = Max({w, e})
    BY Zenon DEF EndedAt, e, r, upto
  <2> QED
    BY <1>4, <2>1, LargerOf
<1>6. /\ EndedAt(w, h, n) \in Nat /\ w <= EndedAt(w, h, n) /\ EndedAt(w, h, n) <= upto
      /\ upto - EndedAt(w, h, n) \in 0..LineSize
  BY <1>0, <1>1, <1>4, <1>5
<1>7. ASSUME NEW q \in Nat, w = Width * q
      PROVE  u \in Nat /\ q <= u /\ EndedAt(w, h, n) = Width * u
  <2>1. ~(u < q)
    <3> DEFINE a == Width * u
               b == Width * q
    <3>1. u < q => a + Width <= b
      BY <1>2, LinesApart
    <3>2. a \in Int /\ b = w /\ upto = a + r
      BY <1>2, <1>3, <1>7
    <3> HIDE DEF a, b
    <3> QED
      BY <1>0, <1>1, <1>2, <3>1, <3>2
  <2>2. u \in Nat /\ q <= u
    BY <1>2, <2>1
  <2>3. w <= e
    BY <1>4, <1>7, <2>2, LinesApart
  <2> QED
    BY <1>4, <1>5, <2>2, <2>3
<1>8. \A q \in Nat : w = Width * q => \E v \in Nat : q <= v /\ EndedAt(w, h, n) = Width * v
  BY <1>7
<1> QED
  BY <1>6, <1>8 DEF upto

\* The bytes of the lines that n bytes more end.
BytesEnded(n) == SubSeq(Stream, written + 1, EndedAt(written, half, n))

LEMMA GameWritesIs ==
    ASSUME GameWrites, NEW d, d = Newest
    PROVE  \E n \in Nat :
              /\ written + half + n <= Len(Stream)
              /\ logs' = [logs EXCEPT ![d] = @ \o BytesEnded(n)]
              /\ written' = EndedAt(written, half, n)
              /\ half' = (written + half + n) - EndedAt(written, half, n)
              /\ owed' = owed \cup (IF d \in DOMAIN offsets THEN LinesIn(BytesEnded(n)) ELSE {})
              /\ astray' = (astray \/ GrowsBack(d, Len(logs[d]) + Len(BytesEnded(n))))
<1>1. Writes \subseteq Nat
  BY TailAssumption
<1> QED
  BY <1>1, Zenon DEF GameWrites, BytesEnded, EndedAt, Width

LEMMA GameWritesLines ==
    ASSUME TextFits, OffsetFits, GameWrites, ~astray'
    PROVE  \E d : \E q : Wrote(d, q)
<1>0. PICK d : d = Newest
  OBVIOUS
<1>1. PICK n \in Nat :
        /\ written + half + n <= Len(Stream)
        /\ logs' = [logs EXCEPT ![d] = @ \o BytesEnded(n)]
        /\ written' = EndedAt(written, half, n)
        /\ half' = (written + half + n) - EndedAt(written, half, n)
        /\ owed' = owed \cup (IF d \in DOMAIN offsets THEN LinesIn(BytesEnded(n)) ELSE {})
        /\ astray' = (astray \/ GrowsBack(d, Len(logs[d]) + Len(BytesEnded(n))))
  BY <1>0, GameWritesIs
<1> DEFINE w == Drawn
           bytes == BytesEnded(n)
<1>2. d \in DOMAIN logs
  <2>1. DOMAIN logs # {} /\ DOMAIN logs \subseteq Days
    BY DEF GameWrites, TextFits
  <2> QED
    BY <1>0, <2>1, LargestIs, NewestIs
<1>3. w \in Nat /\ written = Width * w /\ written \in Nat /\ half \in 0..LineSize
  BY Positive, WidthIs DEF TextFits, HalfFits
<1> HIDE DEF w
<1>4. /\ EndedAt(written, half, n) <= written + half + n
      /\ (written + half + n) - EndedAt(written, half, n) \in 0..LineSize
      /\ \E u \in Nat : w <= u /\ EndedAt(written, half, n) = Width * u
  <2>1. /\ EndedAt(written, half, n) <= written + half + n
        /\ (written + half + n) - EndedAt(written, half, n) \in 0..LineSize
        /\ \A v \in Nat : written = Width * v =>
              \E u \in Nat : v <= u /\ EndedAt(written, half, n) = Width * u
    BY <1>3, EndedIs
  <2> QED
    BY <1>3, <2>1
<1>5. PICK q \in Nat : EndedAt(written, half, n) = Width * (w + q) /\ w + q \in Nat
  <2>1. PICK u \in Nat : w <= u /\ EndedAt(written, half, n) = Width * u
    BY <1>4
  <2>2. u - w \in Nat /\ w + (u - w) = u
    BY <1>3, <2>1
  <2> QED
    BY <2>1, <2>2
<1>6. w + q <= MaxLines /\ written' = Width * (w + q)
  <2>1. Width * (w + q) \in Int /\ Width * MaxLines \in Int /\ written + half + n \in Int
    BY <1>3, <1>5, LineSteps, WidthIs
  <2>2. Width * (w + q) <= Width * MaxLines /\ written' = Width * (w + q)
    BY <1>1, <1>4, <1>5, <2>1, StreamBytes
  <2> QED
    BY <1>5, <2>2, LinesApart, WidthIs
<1>7. HalfFits'
  <2>1. half' \in 0..LineSize
    BY <1>1, <1>4
  <2>2. written' + half' = written + half + n
    <3>1. EndedAt(written, half, n) \in Int
      <4>1. Width * (w + q) \in Int
        BY <1>5, LineSteps
      <4> QED
        BY <1>5, <4>1
    <3>2. written + half + n \in Int
      BY <1>3
    <3>3. written' = EndedAt(written, half, n) /\ half' = (written + half + n) - EndedAt(written, half, n)
      BY <1>1
    <3> DEFINE x == EndedAt(written, half, n)
               y == written + half + n
    <3>4. x \in Int /\ y \in Int /\ written' = x /\ half' = y - x
      BY <3>1, <3>2, <3>3
    <3> HIDE DEF x, y
    <3>5. written' + half' = y
      BY <3>4
    <3> QED
      BY <3>5 DEF y
  <2> QED
    BY <1>1, <2>1, <2>2, StreamBytes DEF HalfFits
<1> DEFINE g == [i \in 1..q |-> w + i]
<1>8. g \in Seq(1..MaxLines) /\ Len(g) = q /\ \A i \in 1..q : g[i] = w + i
  <2>1. \A i \in 1..q : w + i \in 1..MaxLines
    BY <1>3, <1>6, WidthIs
  <2>2. g \in Seq(1..MaxLines)
    BY <2>1, EntriesMake
  <2> QED
    BY <2>2
<1> HIDE DEF g
<1>9. IsText(bytes, g)
  <2>1. IsText(SubSeq(Stream, Width * w + 1, Width * w + Width * q), g)
    BY <1>3, <1>6, <1>8, GameLines
  <2>2. Width * w + Width * q = Width * (w + q)
    BY <1>3, LineSteps
  <2>3. SubSeq(Stream, Width * w + 1, Width * w + Width * q) = bytes
    BY <1>3, <1>5, <2>2 DEF BytesEnded
  <2> QED
    BY <2>1, <2>3
<1>10. LinesIn(bytes) = {w + i : i \in 1..q}
  <2>1. LinesIn(bytes) = {g[i] : i \in DOMAIN g} /\ DOMAIN g = 1..q
    BY <1>8, <1>9, LinesInText, SeqIs
  <2> QED
    BY <1>8, <2>1
<1>11. /\ DOMAIN logs' = DOMAIN logs /\ logs'[d] = logs[d] \o bytes
       /\ \A e \in DOMAIN logs : e # d => logs'[e] = logs[e]
       /\ owed' = owed \cup (IF d \in DOMAIN offsets THEN LinesIn(bytes) ELSE {})
       /\ ~GrowsBack(d, Len(logs[d]) + Len(bytes))
  BY <1>1, <1>2
<1> HIDE DEF bytes
<1>12. IsText(logs[d], Lines(d)) /\ Lines(d) \in Seq(1..MaxLines) /\ logs[d] \in Seq(0..MaxLines)
  BY <1>2, FileIs
<1>13. IsText(logs'[d], Lines(d) \o g) /\ Lines(d)' = Lines(d) \o g
  <2>1. IsText(logs[d] \o bytes, Lines(d) \o g)
    BY <1>9, <1>12, TextsJoined
  <2>2. TextOf(logs[d] \o bytes) = Lines(d) \o g
    BY <2>1, TextOfIs
  <2> QED
    BY <1>11, <2>1, <2>2 DEF Lines
<1>14. /\ Len(Lines(d)') = Len(Lines(d)) + q
       /\ \A j \in 1..Len(Lines(d)) : Lines(d)'[j] = Lines(d)[j]
       /\ \A i \in 1..q : Lines(d)'[Len(Lines(d)) + i] = w + i
  <2>1. /\ Len(Lines(d) \o g) = Len(Lines(d)) + Len(g)
        /\ \A j \in 1..Len(Lines(d)) : (Lines(d) \o g)[j] = Lines(d)[j]
        /\ \A i \in 1..Len(g) : (Lines(d) \o g)[Len(Lines(d)) + i] = g[i]
    <3>1. g \in Seq(1..MaxLines) /\ Lines(d) \in Seq(1..MaxLines)
      BY <1>8, <1>12
    <3> QED
      BY <3>1, JoinIs
  <2>2. Lines(d)' = Lines(d) \o g /\ Len(g) = q /\ \A i \in 1..q : g[i] = w + i
    BY <1>8, <1>13
  <2> QED
    BY <2>1, <2>2
<1>15. Drawn' = w + q
  BY <1>3, <1>6, WholeLinesCount DEF Drawn
<1>16. Len(logs'[d]) = Len(logs[d]) + Len(bytes) /\ Len(logs[d]) \in Nat /\ Len(bytes) \in Nat
  <2>1. bytes \in Seq(0..MaxLines)
    BY <1>9 DEF IsText
  <2> QED
    BY <1>11, <1>12, <2>1, JoinIs
<1>17. /\ Len(logs[d]) <= Len(logs'[d])
       /\ d \in DOMAIN offsets /\ Len(logs[d]) < offsets[d] => Len(logs'[d]) < offsets[d]
  <2>1. d \in DOMAIN offsets => offsets[d] \in Nat
    BY <1>2, PassedIs
  <2> QED
    BY <1>11, <1>16, <2>1 DEF GrowsBack
<1>18. \A m \in owed' : m \in owed \/ (d \in DOMAIN offsets /\ \E i \in 1..q : m = w + i)
  BY <1>10, <1>11
<1>19. Wrote(d, q)
  <2>1. d = Newest /\ Drawn = w
    BY <1>0 DEF w
  <2>2. caughtUp' = FALSE /\ UNCHANGED <<cuts, offsets, warmed, reading, heard>>
    BY DEF GameWrites
  <2>3. IsText(logs'[d], Lines(d)')
    BY <1>13
  <2>4. q \in Nat
    OBVIOUS
  <2> QED
    BY <1>2, <1>6, <1>7, <1>11, <1>14, <1>15, <1>17, <1>18, <2>1, <2>2, <2>3, <2>4, Zenon DEF Wrote
<1> QED
  BY <1>19

LEMMA WroteIs ==
    ASSUME TextFits, OffsetFits, NEW d, NEW q, Wrote(d, q)
    PROVE  /\ d \in DOMAIN logs /\ DOMAIN logs' = DOMAIN logs /\ Heard' = Heard
           /\ Drawn' = Drawn + q /\ Drawn + q <= MaxLines
           /\ \A e \in DOMAIN logs : e # d =>
                 logs'[e] = logs[e] /\ Lines(e)' = Lines(e) /\ Passed(e)' = Passed(e)
           /\ DOMAIN Lines(d)' = 1..Len(Lines(d)') /\ Len(Lines(d)) \in Nat /\ Drawn \in Nat /\ q \in Nat
           /\ \A j \in DOMAIN Lines(d)' :
                 \/ j \in DOMAIN Lines(d) /\ Lines(d)'[j] = Lines(d)[j]
                 \/ j > Len(Lines(d)) /\ Lines(d)'[j] = Drawn + (j - Len(Lines(d)))
                    /\ j - Len(Lines(d)) \in 1..q
           /\ d \in DOMAIN offsets => Passed(d)' = Passed(d) /\ Passed(d) <= Len(Lines(d))
           /\ d \notin DOMAIN offsets => Passed(d)' = Len(Lines(d)')
<1>1. d \in DOMAIN logs /\ DOMAIN logs' = DOMAIN logs /\ Heard' = Heard /\ offsets' = offsets
  BY DEF Wrote, Heard
<1>2. \A e \in DOMAIN logs : e # d =>
                 logs'[e] = logs[e] /\ Lines(e)' = Lines(e) /\ Passed(e)' = Passed(e)
  BY <1>1 DEF Wrote, Lines, Passed
<1>3. /\ Len(Lines(d)) \in Nat /\ DOMAIN Lines(d) = 1..Len(Lines(d)) /\ Drawn \in Nat /\ q \in Nat
      /\ Len(logs[d]) = Width * Len(Lines(d)) /\ Len(logs[d]) \in Nat
  BY <1>1, FileIs DEF Wrote
<1>4. DOMAIN Lines(d)' = 1..Len(Lines(d)') /\ Len(logs'[d]) \in Nat
  <2>1. IsText(logs'[d], Lines(d)')
    BY DEF Wrote
  <2> QED
    BY <2>1, TextBytes, Zenon
<1>5. ASSUME NEW j \in DOMAIN Lines(d)'
      PROVE  \/ j \in DOMAIN Lines(d) /\ Lines(d)'[j] = Lines(d)[j]
             \/ j > Len(Lines(d)) /\ Lines(d)'[j] = Drawn + (j - Len(Lines(d)))
                /\ j - Len(Lines(d)) \in 1..q
  <2>1. j \in 1..(Len(Lines(d)) + q)
    BY <1>4 DEF Wrote
  <2>2. CASE j <= Len(Lines(d))
    BY <1>3, <2>1, <2>2 DEF Wrote
  <2>3. CASE ~(j <= Len(Lines(d)))
    <3> DEFINE i == j - Len(Lines(d))
    <3>1. i \in 1..q /\ j = Len(Lines(d)) + i /\ j > Len(Lines(d))
      BY <1>3, <2>1, <2>3
    <3> HIDE DEF i
    <3>2. Lines(d)'[j] = Drawn + i
      BY <3>1 DEF Wrote
    <3> QED
      BY <3>1, <3>2 DEF i
  <2> QED
    BY <2>2, <2>3
<1>6. d \in DOMAIN offsets => Passed(d)' = Passed(d) /\ Passed(d) <= Len(Lines(d))
  <2> SUFFICES ASSUME d \in DOMAIN offsets
               PROVE  Passed(d)' = Passed(d) /\ Passed(d) <= Len(Lines(d))
    OBVIOUS
  <2>1. PICK x \in Nat : offsets[d] = Width * x
    BY DEF OffsetFits
  <2>2. offsets[d] \in Nat /\ offsets[d] \div Width = x
    BY <2>1, PassedIs, <1>1, WholeLinesCount
  <2>3. /\ offsets[d] <= Len(logs[d]) => offsets[d] <= Len(logs'[d])
        /\ ~(offsets[d] <= Len(logs[d])) => ~(offsets[d] <= Len(logs'[d]))
    BY <1>1, <1>3, <1>4, <2>2 DEF Wrote
  <2>4. Passed(d)' = Passed(d)
    BY <1>1, <2>3 DEF Passed
  <2>5. offsets[d] <= Len(logs[d]) => x <= Len(Lines(d))
    <3> DEFINE n == Len(Lines(d))
    <3>1. n \in Nat /\ Len(logs[d]) = Width * n
      BY <1>3
    <3> HIDE DEF n
    <3>2. Width * x <= Width * n => x <= n
      BY <2>1, <3>1, LinesApart
    <3> QED
      BY <2>1, <3>1, <3>2 DEF n
  <2>6. Passed(d) <= Len(Lines(d))
    BY <1>3, <2>2, <2>5 DEF Passed
  <2> QED
    BY <2>4, <2>6
<1>7. d \notin DOMAIN offsets => Passed(d)' = Len(Lines(d)')
  BY <1>1 DEF Passed
<1>8. Drawn' = Drawn + q /\ Drawn + q <= MaxLines
  BY DEF Wrote
<1> QED
  BY <1>1, <1>2, <1>3, <1>4, <1>5, <1>6, <1>7, <1>8

LEMMA WroteText ==
    ASSUME TextFits, OffsetFits, NEW d, NEW q, Wrote(d, q)
    PROVE  TextFits'
<1>1. DOMAIN logs' \subseteq Days /\ Drawn' \in 0..MaxLines /\ written' = Width * Drawn'
  <2>1. Drawn \in Nat /\ q \in Nat /\ DOMAIN logs' = DOMAIN logs
    BY WroteIs
  <2>2. Drawn' = Drawn + q /\ Drawn + q <= MaxLines /\ written' = Width * (Drawn + q)
    BY DEF Wrote
  <2> QED
    BY <2>1, <2>2, WidthIs DEF TextFits
<1>0. HalfFits'
  BY DEF Wrote
<1>2. ASSUME NEW e \in DOMAIN logs'
      PROVE  /\ IsText(logs'[e], Lines(e)') /\ Len(Lines(e)') <= Drawn'
             /\ \A i, j \in DOMAIN Lines(e)' : i < j => Lines(e)'[i] < Lines(e)'[j]
             /\ \A i \in DOMAIN Lines(e)' : Lines(e)'[i] <= Drawn'
  <2>0. e \in DOMAIN logs /\ Drawn' = Drawn + q /\ Drawn \in Nat /\ q \in Nat
    BY <1>2, WroteIs
  <2>1. CASE e # d
    <3>1. logs'[e] = logs[e] /\ Lines(e)' = Lines(e)
      BY <2>0, <2>1, WroteIs
    <3>2. /\ IsText(logs[e], Lines(e)) /\ Len(Lines(e)) <= Drawn
          /\ \A i, j \in DOMAIN Lines(e) : i < j => Lines(e)[i] < Lines(e)[j]
          /\ \A i \in DOMAIN Lines(e) : Lines(e)[i] <= Drawn
      BY <2>0 DEF TextFits
    <3>3. Len(Lines(e)) \in Nat /\ \A i \in DOMAIN Lines(e) : Lines(e)[i] \in Nat
      BY <2>0, FileIs
    <3> QED
      BY <2>0, <3>1, <3>2, <3>3
  <2>2. CASE e = d
    <3>0. d \in DOMAIN logs /\ Len(Lines(d)) <= Drawn /\ Len(Lines(d)) \in Nat
      BY <2>0, <2>2, FileIs DEF TextFits
    <3>1. IsText(logs'[d], Lines(d)') /\ Len(Lines(d)') = Len(Lines(d)) + q
      BY DEF Wrote
    <3>2. \A j \in DOMAIN Lines(d)' :
                 \/ j \in DOMAIN Lines(d) /\ Lines(d)'[j] = Lines(d)[j]
                 \/ j > Len(Lines(d)) /\ Lines(d)'[j] = Drawn + (j - Len(Lines(d)))
                    /\ j - Len(Lines(d)) \in 1..q
      BY WroteIs
    <3>3. /\ \A i, j \in DOMAIN Lines(d) : i < j => Lines(d)[i] < Lines(d)[j]
          /\ \A i \in DOMAIN Lines(d) : Lines(d)[i] <= Drawn /\ Lines(d)[i] \in Nat
          /\ \A i \in DOMAIN Lines(d) : i \in Nat /\ i <= Len(Lines(d))
      BY <3>0, FileIs DEF TextFits
    <3>4. DOMAIN Lines(d)' \in SUBSET Nat
      BY <2>0, <3>0, <3>1, WroteIs
    <3>5. ASSUME NEW i \in DOMAIN Lines(d)', NEW j \in DOMAIN Lines(d)', i < j
          PROVE  Lines(d)'[i] < Lines(d)'[j]
      <4>0. i \in Nat /\ j \in Nat
        BY <3>4, <3>5
      <4>1. CASE j \in DOMAIN Lines(d) /\ Lines(d)'[j] = Lines(d)[j]
        <5>1. i <= Len(Lines(d))
          BY <3>0, <3>3, <3>5, <4>0, <4>1
        <5>2. i \in DOMAIN Lines(d) /\ Lines(d)'[i] = Lines(d)[i]
          BY <3>0, <3>2, <3>5, <4>0, <5>1
        <5> QED
          BY <3>3, <3>5, <4>1, <5>2
      <4>2. CASE j > Len(Lines(d)) /\ Lines(d)'[j] = Drawn + (j - Len(Lines(d))) /\ j - Len(Lines(d)) \in 1..q
        <5>1. CASE i \in DOMAIN Lines(d) /\ Lines(d)'[i] = Lines(d)[i]
          <6>1. Lines(d)[i] <= Drawn /\ Lines(d)[i] \in Nat
            BY <3>3, <5>1
          <6> QED
            BY <2>0, <3>0, <4>0, <4>2, <5>1, <6>1
        <5>2. CASE i > Len(Lines(d)) /\ Lines(d)'[i] = Drawn + (i - Len(Lines(d)))
          BY <2>0, <3>0, <3>5, <4>0, <4>2, <5>2
        <5> QED
          BY <3>2, <3>5, <5>1, <5>2
      <4> QED
        BY <3>2, <3>5, <4>1, <4>2
    <3>6. ASSUME NEW i \in DOMAIN Lines(d)' PROVE Lines(d)'[i] <= Drawn + q
      BY <2>0, <3>0, <3>2, <3>3, <3>6
    <3> QED
      BY <2>0, <2>2, <3>0, <3>1, <3>5, <3>6
  <2> QED
    BY <2>1, <2>2
<1>3. ASSUME NEW e \in DOMAIN logs', NEW f \in DOMAIN logs', e < f,
             NEW i \in DOMAIN Lines(e)', NEW j \in DOMAIN Lines(f)'
      PROVE  Lines(e)'[i] < Lines(f)'[j]
  <2>0. e \in DOMAIN logs /\ f \in DOMAIN logs /\ d \in DOMAIN logs /\ Drawn \in Nat /\ q \in Nat
        /\ Len(Lines(d)) \in Nat
    BY <1>3, WroteIs
  <2>1. e # d
    <3>1. \A x \in DOMAIN logs : x <= d /\ x \in Nat
      BY LargestIs, NewestIs, <2>0, FileIs DEF Wrote, TextFits
    <3> QED
      BY <1>3, <2>0, <3>1
  <2>2. Lines(e)' = Lines(e) /\ i \in DOMAIN Lines(e)
    BY <1>3, <2>0, <2>1, WroteIs
  <2>3. CASE f # d
    <3>1. Lines(f)' = Lines(f) /\ j \in DOMAIN Lines(f)
      BY <1>3, <2>0, <2>3, WroteIs
    <3> QED
      BY <1>3, <2>0, <2>2, <3>1 DEF TextFits
  <2>4. CASE f = d
    <3>1. CASE j \in DOMAIN Lines(d) /\ Lines(d)'[j] = Lines(d)[j]
      BY <1>3, <2>0, <2>2, <2>4, <3>1 DEF TextFits
    <3>2. CASE Lines(d)'[j] = Drawn + (j - Len(Lines(d))) /\ j - Len(Lines(d)) \in 1..q
      <4>1. Lines(e)[i] <= Drawn /\ Lines(e)[i] \in Nat
        BY <2>0, <2>2, FileIs DEF TextFits
      <4> QED
        BY <2>0, <2>2, <2>4, <3>2, <4>1
    <3> QED
      BY <1>3, <2>4, <3>1, <3>2, WroteIs
  <2> QED
    BY <2>3, <2>4
<1> QED
  BY <1>0, <1>1, <1>2, <1>3 DEF TextFits

\* A line of a file after the game wrote is one of before, or none was later.
LEMMA WroteLine ==
    ASSUME TextFits, OffsetFits, NEW d, NEW q, Wrote(d, q),
           NEW e \in DOMAIN logs', NEW j \in DOMAIN Lines(e)'
    PROVE  /\ e \in DOMAIN logs
           /\ \/ j \in DOMAIN Lines(e) /\ Lines(e)'[j] = Lines(e)[j]
              \/ e = d /\ Lines(e)'[j] > Drawn /\ j > Len(Lines(d)) /\ Lines(e)'[j] \in Nat
<1>1. e \in DOMAIN logs /\ Drawn \in Nat /\ Len(Lines(d)) \in Nat
  BY WroteIs
<1>2. CASE e # d
  BY <1>1, <1>2, WroteIs
<1>3. CASE e = d
  <2>1. \/ j \in DOMAIN Lines(d) /\ Lines(d)'[j] = Lines(d)[j]
        \/ j > Len(Lines(d)) /\ Lines(d)'[j] = Drawn + (j - Len(Lines(d)))
                    /\ j - Len(Lines(d)) \in 1..q
    BY <1>3, WroteIs
  <2> QED
    BY <1>1, <1>3, <2>1
<1> QED
  BY <1>1, <1>2, <1>3

LEMMA WroteHeard ==
    ASSUME TailInv, NEW d, NEW q, Wrote(d, q)
    PROVE  HeardFits'
<1>0. TextFits /\ OffsetFits /\ HeardFits /\ heard' = heard /\ Heard' = Heard /\ offsets' = offsets
  BY DEF TailInv, Wrote, Heard
<1>1. heard' \in Seq(1..MaxLines) /\ \A k \in DOMAIN heard : heard[k] <= Drawn /\ heard[k] \in Nat
  <2>1. heard \in Seq(1..MaxLines) /\ \A k \in DOMAIN heard : heard[k] <= Drawn
    BY <1>0 DEF HeardFits
  <2>2. \A k \in DOMAIN heard : heard[k] \in 1..MaxLines
    BY <2>1, SeqIs
  <2> QED
    BY <1>0, <2>1, <2>2
<1>2. Drawn \in Nat /\ Drawn' = Drawn + q /\ q \in Nat
  BY <1>0, WroteIs
<1>3. \A n \in Heard : n <= Drawn /\ n \in Nat
  BY <1>1 DEF Heard, ToSet
<1>4. ASSUME NEW e \in DOMAIN logs', NEW j \in DOMAIN Lines(e)', j > Passed(e)'
      PROVE  Lines(e)'[j] \notin Heard
  <2>1. CASE j \in DOMAIN Lines(e) /\ Lines(e)'[j] = Lines(e)[j] /\ e \in DOMAIN logs
    <3>1. j > Passed(e)
      <4>1. CASE e # d
        BY <1>0, <1>4, <2>1, <4>1, WroteIs
      <4>2. CASE e = d /\ d \in DOMAIN offsets
        BY <1>0, <1>4, <4>2, WroteIs
      <4>3. CASE e = d /\ d \notin DOMAIN offsets
        <5>1. Passed(d)' = Len(Lines(d)') /\ DOMAIN Lines(d)' = 1..Len(Lines(d)') /\ Len(Lines(d)') \in Nat
          <6>1. Len(Lines(d)') = Len(Lines(d)) + q /\ Len(Lines(d)) \in Nat
            BY <1>0, WroteIs DEF Wrote
          <6> QED
            BY <1>0, <1>2, <4>3, <6>1, WroteIs
        <5> QED
          BY <1>4, <4>3, <5>1
      <4> QED
        BY <4>1, <4>2, <4>3
    <3> QED
      BY <1>0, <2>1, <3>1 DEF HeardFits
  <2>2. CASE Lines(e)'[j] > Drawn /\ Lines(e)'[j] \in Nat
    BY <1>2, <1>3, <2>2
  <2> QED
    BY <1>0, <1>4, <2>1, <2>2, WroteLine
<1>5. HeardInOrder'
  <2>1. HeardInOrder
    BY <1>0 DEF HeardFits
  <2>2. ASSUME NEW k \in DOMAIN heard, NEW m \in DOMAIN heard, k < m
        PROVE  /\ heard[k] # heard[m]
               /\ \/ heard[k] < heard[m]
                  \/ \A e \in DOMAIN logs' : \A j \in DOMAIN Lines(e)' : Lines(e)'[j] # heard[k]
    <3>1. heard[k] # heard[m]
      BY <2>1, <2>2 DEF HeardInOrder
    <3>2. ASSUME ~(heard[k] < heard[m]), NEW e \in DOMAIN logs', NEW j \in DOMAIN Lines(e)'
          PROVE  Lines(e)'[j] # heard[k]
      <4>1. \A f \in DOMAIN logs : \A i \in DOMAIN Lines(f) : Lines(f)[i] # heard[k]
        BY <2>1, <2>2, <3>2 DEF HeardInOrder
      <4>2. heard[k] <= Drawn /\ heard[k] \in Nat
        BY <1>1
      <4> QED
        BY <1>0, <1>2, <3>2, <4>1, <4>2, WroteLine
    <3> QED
      BY <3>1, <3>2
  <2> QED
    BY <1>0, <2>2 DEF HeardInOrder
<1>6. \A k \in DOMAIN heard' : heard'[k] <= Drawn'
  BY <1>0, <1>1, <1>2
<1> QED
  BY <1>0, <1>1, <1>4, <1>5, <1>6 DEF HeardFits

LEMMA WroteReading ==
    ASSUME TailInv, NEW d, NEW q, Wrote(d, q)
    PROVE  ReadingFits'
<1>0. TextFits /\ OffsetFits /\ HeardFits /\ ReadingFits /\ Heard' = Heard
      /\ offsets' = offsets /\ reading' = reading /\ DOMAIN logs' = DOMAIN logs
  BY DEF TailInv, Wrote, Heard
<1> SUFFICES ASSUME reading # None PROVE ReadingFits'
  BY <1>0 DEF ReadingFits
<1>1. \A n \in Heard : n <= Drawn /\ n \in Nat
  <2>1. heard \in Seq(1..MaxLines) /\ \A k \in DOMAIN heard : heard[k] <= Drawn
    BY <1>0 DEF HeardFits
  <2>2. \A k \in DOMAIN heard : heard[k] \in 1..MaxLines
    BY <2>1, SeqIs
  <2> QED
    BY <2>1, <2>2 DEF Heard, ToSet
<1>2. ASSUME NEW e \in DOMAIN logs', e > reading.day, NEW j \in DOMAIN Lines(e)'
      PROVE  Lines(e)'[j] \notin Heard
  <2>1. \A f \in DOMAIN logs : f > reading.day => \A i \in DOMAIN Lines(f) : Lines(f)[i] \notin Heard
    BY <1>0 DEF ReadingFits
  <2>2. Drawn \in Nat
    BY <1>0, WroteIs
  <2> QED
    BY <1>0, <1>1, <1>2, <2>1, <2>2, WroteLine
<1>3. reading.day \in DOMAIN logs /\ Len(logs[reading.day]) < offsets[reading.day]
        => Len(logs'[reading.day]) < offsets[reading.day]
  <2> SUFFICES ASSUME reading.day \in DOMAIN logs, Len(logs[reading.day]) < offsets[reading.day]
               PROVE  Len(logs'[reading.day]) < offsets[reading.day]
    OBVIOUS
  <2>1. reading.day \in DOMAIN offsets
    BY <1>0 DEF ReadingFits
  <2>2. CASE reading.day = d
    BY <2>1, <2>2 DEF Wrote
  <2>3. CASE reading.day # d
    BY <2>3 DEF Wrote
  <2> QED
    BY <2>2, <2>3
<1> QED
  BY <1>0, <1>2, <1>3 DEF ReadingFits

LEMMA WroteOwed ==
    ASSUME TailInv, NEW d, NEW q, Wrote(d, q)
    PROVE  OwedFits'
<1>0. TextFits /\ OffsetFits /\ OwedFits /\ Heard' = Heard
      /\ offsets' = offsets /\ DOMAIN logs' = DOMAIN logs /\ d = Newest /\ d \in DOMAIN logs
  BY DEF TailInv, Wrote, Heard
<1>1. Newest' = Newest
  BY <1>0 DEF Newest
<1>2. Drawn \in Nat /\ Drawn' = Drawn + q /\ q \in Nat /\ Drawn + q <= MaxLines
  BY <1>0, WroteIs
<1>3. owed' \subseteq 1..MaxLines /\ \A n \in owed' : n <= Drawn'
  <2>1. ASSUME NEW n \in owed' PROVE n \in 1..MaxLines /\ n <= Drawn + q
    <3>1. CASE n \in owed
      <4>1. n \in 1..MaxLines /\ n <= Drawn
        BY <1>0, <3>1 DEF OwedFits
      <4> QED
        BY <1>2, <4>1
    <3>2. CASE \E i \in 1..q : n = Drawn + i
      BY <1>2, <3>2, WidthIs
    <3> QED
      BY <2>1, <3>1, <3>2 DEF Wrote
  <2> QED
    BY <1>2, <2>1
<1>4. ASSUME NEW e \in DOMAIN logs', NEW j \in DOMAIN Lines(e)', Lines(e)'[j] \in owed'
      PROVE  \/ Lines(e)'[j] \in Heard
             \/ e = Newest /\ e \in DOMAIN offsets /\ j > Passed(e)'
  <2>1. CASE j \in DOMAIN Lines(e) /\ Lines(e)'[j] = Lines(e)[j] /\ e \in DOMAIN logs
    <3>1. Lines(e)[j] \in owed
      <4>1. Lines(e)[j] <= Drawn /\ Lines(e)[j] \in Nat
        BY <1>0, <2>1, FileIs DEF TextFits
      <4>2. Lines(e)[j] \in owed \/ \E i \in 1..q : Lines(e)[j] = Drawn + i
        BY <1>4, <2>1 DEF Wrote
      <4> QED
        BY <1>2, <4>1, <4>2
    <3>2. Lines(e)[j] \in Heard \/ (e = Newest /\ e \in DOMAIN offsets /\ j > Passed(e))
      BY <1>0, <2>1, <3>1 DEF OwedFits
    <3>3. e = Newest /\ e \in DOMAIN offsets => Passed(e)' = Passed(e)
      BY <1>0, WroteIs
    <3> QED
      BY <2>1, <3>2, <3>3
  <2>2. CASE e = d /\ Lines(e)'[j] > Drawn /\ j > Len(Lines(d)) /\ Lines(e)'[j] \in Nat
    <3>1. d \in DOMAIN offsets
      <4>1. Lines(e)'[j] \notin owed
        BY <1>0, <1>2, <2>2 DEF OwedFits
      <4> QED
        BY <1>4, <4>1 DEF Wrote
    <3>2. Passed(d)' <= Len(Lines(d)) /\ Passed(d)' \in Nat /\ Len(Lines(d)) \in Nat
      BY <1>0, <3>1, WroteIs, PassedIs
    <3>3. j > Passed(d)'
      <4>1. j \in Nat
        BY <1>0, <1>4, <2>2, WroteIs
      <4> QED
        BY <2>2, <3>2, <4>1
    <3> QED
      BY <1>0, <2>2, <3>1, <3>3
  <2> QED
    BY <1>0, <1>4, <2>1, <2>2, WroteLine
<1> QED
  BY <1>0, <1>1, <1>3, <1>4 DEF OwedFits

LEMMA GameWritesKeeps ==
    ASSUME TailInv, GameWrites, ~astray'
    PROVE  TailInv'
<1>0. TextFits /\ OffsetFits
  BY DEF TailInv
<1>1. PICK d : \E q : Wrote(d, q)
  BY <1>0, GameWritesLines
<1>2. PICK q : Wrote(d, q)
  BY <1>1
<1>3. TextFits' /\ HeardFits' /\ ReadingFits' /\ OwedFits'
  BY <1>0, <1>2, WroteText, WroteHeard, WroteReading, WroteOwed
<1>4. OffsetFits' /\ CaughtFits'
  BY <1>0, <1>2 DEF OffsetFits, CaughtFits, Wrote
<1> QED
  BY <1>3, <1>4 DEF TailInv

LEMMA LogsStay ==
    ASSUME UNCHANGED <<logs, written, half>>
    PROVE  /\ \A d : Lines(d)' = Lines(d)
           /\ Drawn' = Drawn /\ Newest' = Newest /\ (TextFits => TextFits')
<1>1. \A d : Lines(d)' = Lines(d)
  BY DEF Lines
<1>2. Drawn' = Drawn /\ Newest' = Newest
  BY DEF Drawn, Newest
<1> QED
  BY <1>1, <1>2 DEF TextFits, HalfFits

\* A poll that returns nothing passes over no less than was.
LEMMA LooksKeeps ==
    ASSUME TailInv, UNCHANGED <<logs, written, half, heard, owed>>,
           \A d \in DOMAIN logs : \A j \in DOMAIN Lines(d) : j > Passed(d)' => j > Passed(d),
           \A d \in DOMAIN logs : \A j \in DOMAIN Lines(d) :
              d = Newest /\ d \in DOMAIN offsets /\ j > Passed(d) => d \in DOMAIN offsets' /\ j > Passed(d)'
    PROVE  TextFits' /\ HeardFits' /\ OwedFits'
<1>0. TextFits /\ HeardFits /\ OwedFits /\ Heard' = Heard /\ logs' = logs /\ heard' = heard /\ owed' = owed
  BY DEF TailInv, Heard
<1>1. (\A d : Lines(d)' = Lines(d)) /\ Drawn' = Drawn /\ Newest' = Newest /\ TextFits'
  BY <1>0, LogsStay
<1>2. HeardFits'
  <2>1. HeardInOrder'
    BY <1>0, <1>1 DEF HeardFits, HeardInOrder
  <2>2. \A d \in DOMAIN logs' : \A j \in DOMAIN Lines(d)' : j > Passed(d)' => Lines(d)'[j] \notin Heard'
    BY <1>0, <1>1 DEF HeardFits
  <2> QED
    BY <1>0, <1>1, <2>1, <2>2 DEF HeardFits
<1>3. OwedFits'
  <2>1. ASSUME NEW d \in DOMAIN logs', NEW j \in DOMAIN Lines(d)', Lines(d)'[j] \in owed'
        PROVE  \/ Lines(d)'[j] \in Heard'
               \/ d = Newest' /\ d \in DOMAIN offsets' /\ j > Passed(d)'
    <3>1. d \in DOMAIN logs /\ j \in DOMAIN Lines(d) /\ Lines(d)[j] \in owed
      BY <1>0, <1>1, <2>1
    <3>2. Lines(d)[j] \in Heard \/ (d = Newest /\ d \in DOMAIN offsets /\ j > Passed(d))
      BY <1>0, <3>1 DEF OwedFits
    <3> QED
      BY <1>0, <1>1, <3>1, <3>2
  <2> QED
    BY <1>0, <1>1, <2>1 DEF OwedFits
<1> QED
  BY <1>1, <1>2, <1>3

\* The offsets with the one of a file first met, and what is left of them when
\* there are too many.
LEMMA FirstMet ==
    ASSUME TailInv, NEW d \in DOMAIN logs, d \notin DOMAIN offsets,
           offsets' = Pruned(WithOffset(d, Len(logs[d])), d), logs' = logs, warmed' = TRUE
    PROVE  /\ OffsetFits' /\ d \in DOMAIN offsets' /\ Passed(d)' = Len(Lines(d))
           /\ \A e \in DOMAIN logs : e # d => Passed(e)' = Passed(e) \/ Passed(e)' = Len(Lines(e))
<1>0. TextFits /\ OffsetFits
  BY DEF TailInv
<1> DEFINE n == Len(logs[d])
           marks == WithOffset(d, n)
<1>1. /\ DOMAIN marks = DOMAIN offsets \cup {d} /\ marks[d] = n
      /\ \A e \in DOMAIN offsets : marks[e] = offsets[e]
  BY DEF WithOffset
<1>2. n = Width * Len(Lines(d)) /\ Len(Lines(d)) \in Nat /\ d \in Days /\ n \in Nat
  BY <1>0, FileIs
<1> HIDE DEF n, marks
<1>3. /\ d \in DOMAIN offsets' /\ DOMAIN offsets' \subseteq DOMAIN offsets \cup {d}
      /\ offsets'[d] = n /\ \A e \in DOMAIN offsets' : e # d => e \in DOMAIN offsets /\ offsets'[e] = offsets[e]
      /\ Cardinality(DOMAIN offsets') <= MaxOffsets
  <2>1. CASE Cardinality(DOMAIN marks) <= MaxOffsets
    <3>1. offsets' = marks
      BY <2>1 DEF Pruned, marks, n
    <3> QED
      BY <1>1, <2>1, <3>1
  <2>2. CASE ~(Cardinality(DOMAIN marks) <= MaxOffsets)
    <3>1. offsets' = [e \in DOMAIN marks \cap {d} |-> marks[e]]
      BY <2>2 DEF Pruned, marks, n
    <3>2. DOMAIN offsets' = {d} /\ offsets'[d] = n
      BY <1>1, <3>1
    <3>3. Cardinality({d}) = 1 /\ 1 <= MaxOffsets
      <4>1. Cardinality({d}) = 1
        BY FS_Singleton
      <4>2. MaxOffsets \in Nat \ {0}
        BY TailAssumption
      <4> QED
        BY <4>1, <4>2
    <3> QED
      BY <3>2, <3>3
  <2> QED
    BY <2>1, <2>2
<1>4. OffsetFits'
  <2>1. ASSUME NEW e \in DOMAIN offsets' PROVE \E q \in Nat : offsets'[e] = Width * q
    <3>1. CASE e = d
      BY <1>2, <1>3, <3>1
    <3>2. CASE e # d
      BY <1>0, <1>3, <2>1, <3>2 DEF OffsetFits
    <3> QED
      BY <3>1, <3>2
  <2>2. DOMAIN offsets' \subseteq Days
    BY <1>0, <1>2, <1>3 DEF OffsetFits
  <2> QED
    BY <1>3, <2>1, <2>2 DEF OffsetFits
<1>5. \A e : Lines(e)' = Lines(e)
  BY DEF Lines
<1>6. Passed(d)' = Len(Lines(d))
  <2>1. n \div Width = Len(Lines(d)) /\ n <= n
    BY <1>2, WholeLinesCount
  <2>2. offsets'[d] <= Len(logs'[d])
    BY <1>3, <2>1 DEF n
  <2>3. Passed(d)' = offsets'[d] \div Width
    BY <1>3, <2>2 DEF Passed
  <2> QED
    BY <1>3, <2>1, <2>3
<1>7. \A e \in DOMAIN logs : e # d => Passed(e)' = Passed(e) \/ Passed(e)' = Len(Lines(e))
  BY <1>3, <1>5 DEF Passed
<1> QED
  BY <1>3, <1>4, <1>6, <1>7

LEMMA CaughtUpIs ==
    ASSUME TailInv, NEW d \in DOMAIN logs, d \in DOMAIN offsets,
           Len(logs[d]) = IF Len(logs[d]) < offsets[d] THEN 0 ELSE offsets[d]
    PROVE  Passed(d) >= Len(Lines(d))
<1>0. TextFits /\ OffsetFits
  BY DEF TailInv
<1> DEFINE n == Len(Lines(d))
<1>1. Len(logs[d]) = Width * n /\ n \in Nat /\ offsets[d] \in Nat /\ Len(logs[d]) \in Nat
  BY <1>0, FileIs, PassedIs
<1> HIDE DEF n
<1>2. CASE Len(logs[d]) < offsets[d]
  <2>1. Width * n = 0 /\ Width * 0 = 0
    BY <1>1, <1>2, LineSteps
  <2>2. n = 0
    BY <1>1, <2>1, LinesApart
  <2> QED
    BY <1>0, <2>2, PassedIs DEF n
<1>3. CASE ~(Len(logs[d]) < offsets[d])
  <2>1. offsets[d] = Width * n /\ offsets[d] <= Len(logs[d])
    BY <1>1, <1>3
  <2>2. offsets[d] \div Width = n
    BY <1>1, <2>1, WholeLinesCount
  <2>3. Passed(d) = n
    BY <2>1, <2>2 DEF Passed
  <2> QED
    BY <1>1, <2>3 DEF n
<1> QED
  BY <1>2, <1>3

LEMMA PollLooksKeeps == TailInv /\ PollLooks /\ ~astray' => TailInv'
<1> SUFFICES ASSUME TailInv, PollLooks, ~astray' PROVE TailInv'
  OBVIOUS
<1>0. /\ TextFits /\ OffsetFits /\ HeardFits /\ OwedFits /\ CaughtFits /\ reading = None /\ warmed' = TRUE
      /\ half = 0 /\ half' = half /\ logs' = logs /\ written' = written /\ heard' = heard /\ owed' = owed /\ Heard' = Heard
  BY DEF TailInv, PollLooks, Heard
<1>1. (\A d : Lines(d)' = Lines(d)) /\ Newest' = Newest
  BY <1>0, LogsStay
<1>2. ASSUME offsets' = offsets
      PROVE  TextFits' /\ HeardFits' /\ OwedFits' /\ OffsetFits' /\ \A d : Passed(d)' = Passed(d)
  <2>1. \A d : Passed(d)' = Passed(d)
    BY <1>0, <1>1, <1>2 DEF Passed
  <2>2. OffsetFits'
    BY <1>0, <1>2 DEF OffsetFits
  <2> QED
    BY <1>0, <1>2, <2>1, <2>2, LooksKeeps
<1>3. CASE DOMAIN logs = {}
  <2>1. offsets' = offsets /\ reading' = reading /\ caughtUp' = caughtUp
    BY <1>3 DEF PollLooks
  <2>2. ReadingFits' /\ CaughtFits'
    BY <1>0, <1>3, <2>1 DEF ReadingFits, CaughtFits
  <2> QED
    BY <1>2, <2>1, <2>2 DEF TailInv
<1>4. CASE DOMAIN logs # {}
  <2>0. PICK d : d = Newest
    OBVIOUS
  <2>1. d \in DOMAIN logs /\ d \in Days /\ \A e \in DOMAIN logs : e <= d /\ e \in Nat
    <3>1. DOMAIN logs \subseteq Days
      BY <1>0 DEF TextFits
    <3> QED
      BY <1>4, <2>0, <3>1, LargestIs, NewestIs, TailAssumption
  <2> DEFINE n == Len(logs[d])
             from == StartsAt(d, n)
  <2>2. IF from = n
        THEN /\ offsets' = Pruned(IF d \in DOMAIN offsets THEN offsets ELSE WithOffset(d, from), d)
             /\ caughtUp' = TRUE /\ reading' = reading
        ELSE /\ reading' = [day |-> d, at |-> from]
             /\ caughtUp' = FALSE /\ offsets' = offsets
    BY <1>0, <1>4, <2>0 DEF PollLooks, Content
  <2>3. /\ d \notin DOMAIN offsets => from = n
        /\ d \in DOMAIN offsets => from = IF n < offsets[d] THEN 0 ELSE offsets[d]
    BY <1>0 DEF StartsAt, OffsetFits
  <2> HIDE DEF from
  <2>4. CASE d \notin DOMAIN offsets
    <3>1. offsets' = Pruned(WithOffset(d, Len(logs[d])), d) /\ reading' = reading
      BY <2>2, <2>3, <2>4
    <3>2. /\ OffsetFits' /\ d \in DOMAIN offsets' /\ Passed(d)' = Len(Lines(d))
          /\ \A e \in DOMAIN logs : e # d => Passed(e)' = Passed(e) \/ Passed(e)' = Len(Lines(e))
      BY <1>0, <2>1, <2>4, <3>1, FirstMet
    <3>3. \A e \in DOMAIN logs : \A j \in DOMAIN Lines(e) : j > Passed(e)' => j > Passed(e)
      <4>1. \A e \in DOMAIN logs : \A j \in DOMAIN Lines(e) : j \in Nat /\ j <= Len(Lines(e)) /\ Len(Lines(e)) \in Nat
        BY <1>0, FileIs
      <4> QED
        BY <3>2, <4>1
    <3>4. \A e \in DOMAIN logs : \A j \in DOMAIN Lines(e) :
              e = Newest /\ e \in DOMAIN offsets /\ j > Passed(e) => e \in DOMAIN offsets' /\ j > Passed(e)'
      BY <2>0, <2>4
    <3>5. TextFits' /\ HeardFits' /\ OwedFits'
      BY <1>0, <3>3, <3>4, LooksKeeps
    <3>6. ReadingFits'
      BY <1>0, <3>1 DEF ReadingFits
    <3>7. CaughtFits'
      <4>1. Passed(Newest)' = Passed(d)' /\ Lines(Newest)' = Lines(d)
        BY <1>1, <2>0 DEF Passed, Lines
      <4>2. Len(Lines(d)) \in Nat
        BY <1>0, <2>1, FileIs
      <4> QED
        BY <1>0, <1>4, <3>2, <4>1, <4>2 DEF CaughtFits
    <3> QED
      BY <3>2, <3>5, <3>6, <3>7 DEF TailInv
  <2>5. CASE d \in DOMAIN offsets
    <3>1. offsets' = offsets
      <4>1. Pruned(offsets, d) = offsets
        BY <1>0 DEF Pruned, OffsetFits
      <4> QED
        BY <2>2, <2>5, <4>1
    <3>2. CaughtFits'
      <4> SUFFICES ASSUME caughtUp' PROVE CaughtFits'
        BY DEF CaughtFits
      <4>1. from = n
        BY <2>2
      <4>2. Passed(d) >= Len(Lines(d))
        BY <2>1, <2>3, <2>5, <4>1, CaughtUpIs
      <4>3. Passed(Newest)' = Passed(d) /\ Lines(Newest)' = Lines(d)
        BY <1>0, <1>1, <2>0, <3>1 DEF Passed, Lines
      <4> QED
        BY <1>0, <1>4, <4>2, <4>3 DEF CaughtFits
    <3>3. ReadingFits'
      <4>1. CASE reading' = reading
        BY <1>0, <4>1 DEF ReadingFits
      <4>2. CASE reading' = [day |-> d, at |-> from]
        <5>1. reading'.day = d /\ reading'.at = from
          BY <4>2
        <5>2. from = offsets[d] \/ (from = 0 /\ offsets[d] # 0 /\ n < offsets[d])
          <6>1. n \in Nat /\ offsets[d] \in Nat
            BY <1>0, <2>1, <2>5, FileIs, PassedIs
          <6> QED
            BY <2>3, <2>5, <6>1
        <5>3. \A e \in DOMAIN logs : ~(e > d)
          BY <2>1
        <5> QED
          BY <1>0, <2>5, <3>1, <5>1, <5>2, <5>3 DEF ReadingFits
      <4> QED
        BY <2>2, <4>1, <4>2
    <3> QED
      BY <1>2, <3>1, <3>2, <3>3 DEF TailInv
  <2> QED
    BY <2>4, <2>5
<1> QED
  BY <1>3, <1>4

LEMMA MinIs ==
    ASSUME NEW x \in Int, NEW y \in Int, x <= y
    PROVE  Min({x, y}) = x
<1>1. x \in {x, y} /\ \A z \in {x, y} : x <= z
  OBVIOUS
<1>2. \A m \in {x, y} : (\A z \in {x, y} : m <= z) => m = x
  OBVIOUS
<1> QED
  BY <1>1, <1>2, Zenon DEF Min

LEMMA SmallerOf ==
    ASSUME NEW x \in Nat, NEW y \in Nat
    PROVE  Min({x, y}) \in Nat /\ Min({x, y}) <= x
<1>1. x <= y => Min({x, y}) = x
  BY MinIs
<1>2. y <= x => Min({y, x}) = y
  BY MinIs
<1>3. {y, x} = {x, y}
  OBVIOUS
<1>4. y <= x => Min({x, y}) = y
  BY <1>2, <1>3
<1>5. x <= y \/ y <= x
  OBVIOUS
<1> QED
  BY <1>1, <1>4, <1>5

LEMMA MaxIs ==
    ASSUME NEW x \in Int
    PROVE  Max({1, x}) = IF x >= 1 THEN x ELSE 1
BY LargerOf

\* The entries that Poll's limit lets through.
Kept(entries) == SubSeq(entries, Max({1, Len(entries) - MaxEntries + 1}), Len(entries))

LEMMA KeptIs ==
    ASSUME NEW g \in Seq(1..MaxLines)
    PROVE  /\ Kept(g) \in Seq(1..MaxLines)
           /\ \E s \in 0..Len(g) : /\ Len(Kept(g)) = Len(g) - s
                                   /\ \A k \in 1..(Len(g) - s) : Kept(g)[k] = g[s + k]
<1> DEFINE n == Len(g)
           m == n - MaxEntries + 1
           s == IF m >= 1 THEN m - 1 ELSE 0
<1>1. n \in Nat /\ MaxEntries \in Nat /\ MaxEntries >= 1
  BY SeqIs, TailAssumption
<1>2. m \in Int /\ s \in 0..n /\ (IF m >= 1 THEN m ELSE 1) = s + 1
  BY <1>1
<1>3. Max({1, m}) = s + 1
  BY <1>2, MaxIs
<1>4. Kept(g) = SubSeq(g, s + 1, n)
  BY <1>3 DEF Kept
<1> HIDE DEF s, m
<1>5. s \in Nat /\ s <= Len(g)
  BY <1>1, <1>2
<1>6. /\ SubSeq(g, s + 1, Len(g)) \in Seq(1..MaxLines) /\ Len(SubSeq(g, s + 1, Len(g))) = Len(g) - s
      /\ \A k \in 1..(Len(g) - s) : SubSeq(g, s + 1, Len(g))[k] = g[s + k]
  BY <1>5, EndIs
<1> QED
  BY <1>2, <1>4, <1>6

\* What PollReads reads of d from at.
BytesOf(d, at) ==
    IF d \in DOMAIN logs
    THEN SubSeq(Content(d), at + 1, Min({Len(Content(d)), at + MaxRead}))
    ELSE << >>

LEMMA PollReadsIs ==
    ASSUME PollReads, NEW d, NEW at, d = reading.day, at = reading.at
    PROVE  LET bytes == BytesOf(d, at)
               got == Scanned(bytes)
               entries == Entries(got.lines)
           IN /\ offsets' = Pruned(WithOffset(d, at + got.read), d)
              /\ heard' = IF astray THEN heard ELSE heard \o Kept(entries)
              /\ caughtUp' = (d \in DOMAIN logs /\ d = Newest
                                /\ at + Len(bytes) = Len(Content(d)))
              /\ astray' = (astray \/ (bytes # << >> /\ Last(bytes) # 0))
              /\ owed' = owed \ (ToSet(entries) \ ToSet(Kept(entries)))
              /\ reading' = None /\ UNCHANGED <<logs, written, half, cuts, warmed>>
BY DEF PollReads, BytesOf, Kept, NextOffset

\* No byte of a line begun is a newline.
LEMMA HalfBytes ==
    ASSUME TextFits
    PROVE  LET begun == SubSeq(Stream, written + 1, written + half)
           IN /\ begun \in Seq(0..MaxLines) /\ Len(begun) = half
              /\ \A k \in 1..half : begun[k] # 0
<1>1. /\ Drawn \in Nat /\ written = Width * Drawn /\ written \in Nat
      /\ half \in 0..LineSize /\ written + half <= Width * MaxLines
  BY Positive, WidthIs DEF TextFits, HalfFits
<1>2. half \in Nat /\ half < Width /\ LineSize \in Nat
  BY <1>1, WidthIs DEF Width
<1>3. /\ SubSeq(Stream, written + 1, written + half) \in Seq(0..MaxLines)
      /\ Len(SubSeq(Stream, written + 1, written + half)) = half
      /\ \A k \in 1..half : SubSeq(Stream, written + 1, written + half)[k] = Stream[written + k]
  BY <1>1, <1>2, StreamBytes, StreamPart
<1>4. ASSUME NEW k \in 1..half PROVE Stream[written + k] # 0
  <2>1. k \in 1..Width /\ k # Width /\ k \in Int
    BY <1>2, WidthIs
  <2>2. Drawn + 1 \in 1..MaxLines
    <3> DEFINE a == Width * Drawn
               b == Width * MaxLines
    <3>1. a \in Int /\ b \in Int /\ a < b
      BY <1>1, <1>2, <2>1, LineSteps, WidthIs
    <3>2. a < b => Drawn < MaxLines
      BY <1>1, LinesApart, WidthIs
    <3> HIDE DEF a, b
    <3> QED
      BY <1>1, <3>1, <3>2, WidthIs
  <2>3. written + k = ByteOf((Drawn + 1), k)
    <3>1. (Drawn + 1) - 1 = Drawn
      BY <1>1
    <3> QED
      BY <1>1, <3>1 DEF ByteOf
  <2>4. Stream[ByteOf((Drawn + 1), k)] = Drawn + 1
    BY <2>1, <2>2, StreamBytes
  <2> QED
    BY <1>1, <2>3, <2>4
<1> QED
  BY <1>3, <1>4

LEMMA BytesSpan ==
    ASSUME NEW b \in Seq(0..MaxLines), NEW e \in Nat, NEW z \in Nat, e + z <= Len(b)
    PROVE  /\ SubSeq(b, e + 1, e + z) \in Seq(0..MaxLines) /\ Len(SubSeq(b, e + 1, e + z)) = z
           /\ \A k \in 1..z : SubSeq(b, e + 1, e + z)[k] = b[e + k]
<1> DEFINE S == 0..MaxLines
<1>1. b \in Seq(S)
  OBVIOUS
<1> HIDE DEF S
<1>2. /\ SubSeq(b, e + 1, e + z) \in Seq(S) /\ Len(SubSeq(b, e + 1, e + z)) = z
      /\ \A k \in 1..z : SubSeq(b, e + 1, e + z)[k] = b[e + k]
  BY <1>1, SpanOf
<1> QED
  BY <1>2 DEF S

LEMMA BytesJoin ==
    ASSUME NEW s \in Seq(0..MaxLines), NEW t \in Seq(0..MaxLines)
    PROVE  /\ s \o t \in Seq(0..MaxLines) /\ Len(s \o t) = Len(s) + Len(t)
           /\ \A m \in 1..Len(s) : (s \o t)[m] = s[m]
           /\ \A m \in 1..Len(t) : (s \o t)[Len(s) + m] = t[m]
<1> DEFINE S == 0..MaxLines
<1>1. s \in Seq(S) /\ t \in Seq(S)
  OBVIOUS
<1> HIDE DEF S
<1>2. /\ s \o t \in Seq(S) /\ Len(s \o t) = Len(s) + Len(t)
      /\ \A m \in 1..Len(s) : (s \o t)[m] = s[m]
      /\ \A m \in 1..Len(t) : (s \o t)[Len(s) + m] = t[m]
  BY <1>1, JoinIs
<1> QED
  BY <1>2 DEF S

LEMMA SomeBytes ==
    ASSUME NEW b \in Seq(0..MaxLines), Len(b) >= 1
    PROVE  b # << >>
OBVIOUS

LEMMA SameBytes ==
    ASSUME NEW s \in Seq(0..MaxLines), NEW t \in Seq(0..MaxLines), Len(s) = Len(t),
           \A k \in 1..Len(s) : s[k] = t[k]
    PROVE  s = t
<1> DEFINE S == 0..MaxLines
<1>1. s \in Seq(S) /\ t \in Seq(S)
  OBVIOUS
<1> HIDE DEF S
<1> QED
  BY <1>1

LEMMA ContentIs ==
    ASSUME TextFits, NEW d \in DOMAIN logs
    PROVE  /\ Content(d) \in Seq(0..MaxLines) /\ Len(Content(d)) \in Nat
           /\ \E h \in 0..LineSize :
                /\ Len(Content(d)) = Len(logs[d]) + h
                /\ \A k \in 1..Len(logs[d]) : Content(d)[k] = logs[d][k]
                /\ \A k \in 1..h : Content(d)[Len(logs[d]) + k] # 0
<1> DEFINE begun == SubSeq(Stream, written + 1, written + half)
<1>1. begun \in Seq(0..MaxLines) /\ Len(begun) = half /\ \A k \in 1..half : begun[k] # 0
  BY HalfBytes
<1>2. logs[d] \in Seq(0..MaxLines) /\ Len(logs[d]) \in Nat
  BY FileIs
<1>3. Content(d) = logs[d] \o begun \/ Content(d) = logs[d]
  BY DEF Content
<1> HIDE DEF begun
<1>4. half \in 0..LineSize /\ 0 \in 0..LineSize
  BY WidthIs DEF TextFits, HalfFits
<1>5. CASE Content(d) = logs[d] \o begun
  <2>1. /\ logs[d] \o begun \in Seq(0..MaxLines) /\ Len(logs[d] \o begun) = Len(logs[d]) + half
        /\ \A k \in 1..Len(logs[d]) : (logs[d] \o begun)[k] = logs[d][k]
        /\ \A k \in 1..half : (logs[d] \o begun)[Len(logs[d]) + k] = begun[k]
    <3>1. begun \in Seq(0..MaxLines) /\ logs[d] \in Seq(0..MaxLines)
      BY <1>1, <1>2
    <3>2. /\ logs[d] \o begun \in Seq(0..MaxLines)
          /\ Len(logs[d] \o begun) = Len(logs[d]) + Len(begun)
          /\ \A k \in 1..Len(logs[d]) : (logs[d] \o begun)[k] = logs[d][k]
          /\ \A k \in 1..Len(begun) : (logs[d] \o begun)[Len(logs[d]) + k] = begun[k]
      BY <3>1, BytesJoin
    <3> QED
      BY <1>1, <3>2
  <2> QED
    BY <1>1, <1>2, <1>4, <1>5, <2>1
<1>6. CASE Content(d) = logs[d]
  BY <1>2, <1>4, <1>6
<1> QED
  BY <1>3, <1>5, <1>6

\* A read that ends with a newline has whole lines, those behind the first a;
\* one from behind the last newline has nothing.
LEMMA WhatIsRead ==
    ASSUME TextFits, NEW d \in DOMAIN logs, NEW a \in Nat,
           BytesOf(d, Width * a) = << >> \/ Last(BytesOf(d, Width * a)) = 0
    PROVE  /\ Width * a > Len(logs[d]) =>
                BytesOf(d, Width * a) = << >> /\ Width * a > Len(Content(d))
           /\ Width * a <= Len(logs[d]) =>
                \E z \in 0..Len(Lines(d)) :
                   /\ a <= z /\ BytesOf(d, Width * a) = SubSeq(logs[d], Width * a + 1, Width * z)
                   /\ Len(BytesOf(d, Width * a)) = Width * z - Width * a
<1> DEFINE n == Len(Lines(d))
           b == logs[d]
           size == Len(b)
           at == Width * a
           H == Content(d)
           most == at + MaxRead
           m == Min({Len(H), most})
           bytes == SubSeq(H, at + 1, m)
<1>0. BytesOf(d, Width * a) = bytes
  BY DEF BytesOf
<1>1. /\ IsText(b, Lines(d)) /\ n \in Nat /\ size = Width * n /\ size \in Nat
      /\ b \in Seq(0..MaxLines)
      /\ \A j \in 1..n : Lines(d)[j] # 0
  <2>1. DOMAIN Lines(d) = 1..n /\ \A j \in DOMAIN Lines(d) : Lines(d)[j] \in 1..MaxLines
    BY FileIs
  <2>2. \A j \in 1..n : Lines(d)[j] # 0
    BY <2>1
  <2> QED
    BY <2>2, FileIs
<1>2. PICK h \in 0..LineSize :
        /\ Len(H) = size + h
        /\ \A k \in 1..size : H[k] = b[k]
        /\ \A k \in 1..h : H[size + k] # 0
  BY ContentIs
<1>3. H \in Seq(0..MaxLines) /\ Len(H) \in Nat
  BY ContentIs
<1>4. at \in Nat
  BY Positive, WidthIs
<1>5. h \in Nat /\ h < Width /\ LineSize \in Nat
  BY WidthIs DEF Width
<1> HIDE DEF H, n, b, size
<1>6. m \in Nat /\ m <= Len(H)
  <2>1. most \in Nat
    BY <1>4, WidthIs
  <2> HIDE DEF most
  <2> QED
    BY <1>3, <2>1, SmallerOf
<1> HIDE DEF m
<1>7. CASE at > size
  <2>1. ~(a <= n)
    <3>1. a <= n => Width * a <= Width * n
      BY <1>1, LinesApart
    <3> DEFINE c == Width * n
    <3>2. c \in Nat /\ at > c
      BY <1>1, <1>7
    <3>3. a <= n => at <= c
      BY <3>1
    <3> HIDE DEF at, c
    <3> QED
      BY <1>4, <3>2, <3>3
  <2>2. Width * n + Width <= at
    BY <1>1, <2>1, LinesApart
  <2>3. at > Len(H)
    <3> DEFINE c == Width * n
    <3>1. c + Width <= at /\ size = c /\ c \in Nat
      BY <1>1, <2>2
    <3>2. Len(H) = size + h
      BY <1>2
    <3> HIDE DEF at, c
    <3> QED
      BY <1>4, <1>5, <3>1, <3>2, WidthIs
  <2> HIDE DEF at
  <2>4. at + 1 > m
    BY <1>3, <1>4, <1>6, <2>3
  <2>5. bytes = << >>
    BY <1>3, <1>4, <1>6, <2>4
  <2>6. ~(at <= size)
    BY <1>1, <1>4, <1>7
  <2>7. BytesOf(d, Width * a) = << >> /\ Width * a > Len(Content(d))
    BY <1>0, <2>3, <2>5 DEF at, H
  <2>8. ~(Width * a <= Len(logs[d]))
    BY <2>6 DEF at, size, b
  <2> QED
    BY <2>7, <2>8
<1>8. CASE at <= size /\ m <= at
  <2>1. a <= n
    BY <1>1, <1>8, LinesApart
  <2> DEFINE c == at
  <2>2. c \in Nat /\ m <= c
    BY <1>4, <1>8
  <2> HIDE DEF c, at
  <2>3. SubSeq(H, c + 1, m) = << >>
    BY <1>3, <1>6, <2>2
  <2>4. SubSeq(b, c + 1, c) = << >> /\ Len(<< >>) = 0 /\ c - c = 0
    BY <1>1, <2>2
  <2>5. BytesOf(d, Width * a) = SubSeq(b, Width * a + 1, Width * a)
        /\ Len(BytesOf(d, Width * a)) = Width * a - Width * a
    BY <1>0, <2>3, <2>4 DEF c, at
  <2>6. a \in 0..n /\ a <= a /\ ~(Width * a > size)
    BY <1>1, <1>4, <1>8, <2>1 DEF at
  <2> QED
    BY <2>5, <2>6 DEF n, b, size
<1>9. CASE at <= size /\ ~(m <= at)
  <2> DEFINE y == m - at
  <2>0. at \in Nat /\ m \in Nat
    BY <1>4, <1>6
  <2>1. y \in Nat /\ y >= 1 /\ at + y = m
    <3> HIDE DEF at
    <3> QED
      BY <1>9, <2>0
  <2>2. bytes \in Seq(0..MaxLines) /\ Len(bytes) = y /\ \A k \in 1..y : bytes[k] = H[at + k]
    <3> DEFINE c == at
    <3>1. c \in Nat /\ c + y <= Len(H) /\ c + y = m
      BY <1>4, <1>6, <2>1
    <3> HIDE DEF c, at, y
    <3>2. /\ SubSeq(H, c + 1, c + y) \in Seq(0..MaxLines) /\ Len(SubSeq(H, c + 1, c + y)) = y
          /\ \A k \in 1..y : SubSeq(H, c + 1, c + y)[k] = H[c + k]
      BY <1>3, <2>1, <3>1, SpanOf
    <3> QED
      BY <3>1, <3>2 DEF c
  <2> HIDE DEF y
  <2>3. H[m] = 0
    <3>1. bytes # << >>
      <4>1. bytes \in Seq(0..MaxLines) /\ Len(bytes) >= 1
        BY <2>1, <2>2
      <4> HIDE DEF bytes
      <4> QED
        BY <4>1, SomeBytes
    <3>2. Last(bytes) = 0
      BY <1>0, <3>1
    <3>3. Last(bytes) = bytes[y]
      BY <2>2 DEF Last
    <3>4. bytes[y] = H[at + y]
      <4>1. y \in 1..y
        BY <2>1
      <4> QED
        BY <2>2, <4>1
    <3> QED
      BY <2>1, <3>2, <3>3, <3>4
  <2>4. m \in 1..size
    <3>1. m >= 1
      <4> HIDE DEF at
      <4> QED
        BY <1>4, <2>1, <1>6
    <3>2. ASSUME ~(m <= size) PROVE FALSE
      <4>1. m - size \in 1..h /\ size + (m - size) = m
        BY <1>1, <1>2, <1>5, <1>6, <3>2
      <4>2. H[size + (m - size)] # 0
        BY <1>2, <4>1
      <4> QED
        BY <2>3, <4>1, <4>2
    <3> QED
      BY <1>1, <1>6, <3>1, <3>2
  <2>5. b[m] = 0
    BY <1>2, <2>3, <2>4
  <2>6. PICK z \in 1..n : m = Width * z
    <3>1. m \in 1..(Width * n)
      BY <1>1, <2>4
    <3>2. PICK z \in 1..n : \E r \in 1..Width : m = ByteOf(z, r)
      BY <1>1, <3>1, LineAt
    <3>3. PICK r \in 1..Width : m = ByteOf(z, r)
      BY <3>2
    <3>4. b[ByteOf(z, r)] = IF r = Width THEN 0 ELSE Lines(d)[z]
      BY <1>1, <3>3 DEF IsText, n
    <3>5. r = Width
      BY <1>1, <2>5, <3>3, <3>4
    <3>6. Width * (z - 1) + Width = Width * z
      BY <1>1, LineSteps
    <3> QED
      BY <3>3, <3>5, <3>6 DEF ByteOf
  <2>7. a <= z
    <3> DEFINE c == Width * z
    <3>1. at < c
      <4> HIDE DEF at
      <4> QED
        BY <1>4, <1>9, <1>6, <2>6
    <3>2. at < c => a < z
      BY <1>1, LinesApart
    <3> QED
      BY <1>1, <3>1, <3>2
  <2>8. SubSeq(b, at + 1, m) = bytes
    <3> DEFINE c == at
    <3>1. c \in Nat /\ c + y = m /\ m <= Len(b) /\ \A k \in 1..y : c + k \in 1..size
      <4>1. m <= Len(b)
        BY <2>4 DEF size
      <4>2. c \in Nat /\ c + y = m
        BY <1>4, <2>1
      <4> HIDE DEF c
      <4> QED
        BY <1>1, <2>1, <2>4, <4>1, <4>2
    <3>2. bytes \in Seq(0..MaxLines) /\ Len(bytes) = y /\ \A k \in 1..y : bytes[k] = H[c + k]
      BY <2>2
    <3>3. bytes = SubSeq(H, c + 1, m)
      OBVIOUS
    <3> HIDE DEF c, at, bytes
    <3>4. /\ SubSeq(b, c + 1, c + y) \in Seq(0..MaxLines) /\ Len(SubSeq(b, c + 1, c + y)) = y
          /\ \A k \in 1..y : SubSeq(b, c + 1, c + y)[k] = b[c + k]
      <4>1. b \in Seq(0..MaxLines)
        BY <1>1
      <4>2. c \in Nat
        BY <3>1
      <4>3. y \in Nat
        BY <2>1
      <4>4. c + y <= Len(b)
        BY <3>1
      <4> QED
        BY <4>1, <4>2, <4>3, <4>4, BytesSpan
    <3>5. \A k \in 1..y : SubSeq(b, c + 1, m)[k] = bytes[k]
      BY <1>2, <3>1, <3>2, <3>4
    <3>6. SubSeq(b, c + 1, m) \in Seq(0..MaxLines) /\ Len(SubSeq(b, c + 1, m)) = y
      BY <3>1, <3>4
    <3>7. SubSeq(b, c + 1, m) = bytes
      <4> DEFINE part == SubSeq(b, c + 1, m)
      <4>1. part \in Seq(0..MaxLines) /\ bytes \in Seq(0..MaxLines)
        BY <3>2, <3>6
      <4>2. Len(part) = Len(bytes) /\ \A k \in 1..Len(part) : part[k] = bytes[k]
        BY <3>2, <3>5, <3>6
      <4> HIDE DEF part
      <4>3. part = bytes
        BY <4>1, <4>2, SameBytes
      <4> QED
        BY <4>3 DEF part
    <3> QED
      BY <3>7 DEF c
  <2>9. BytesOf(d, Width * a) = SubSeq(b, Width * a + 1, Width * z)
    BY <1>0, <2>6, <2>8
  <2>10. Len(BytesOf(d, Width * a)) = Width * z - Width * a
    BY <1>0, <2>2, <2>6 DEF y
  <2>11. z \in 0..n /\ ~(Width * a > size)
    <3>1. z \in 0..n
      BY <1>1
    <3>2. ~(at > size)
      <4> HIDE DEF at
      <4> QED
        BY <1>1, <1>4, <1>9
    <3> QED
      BY <3>1, <3>2
  <2> QED
    BY <2>7, <2>9, <2>10, <2>11 DEF n, b, size
<1>10. at > size \/ (at <= size /\ m <= at) \/ (at <= size /\ ~(m <= at))
  <2> HIDE DEF at
  <2> QED
    BY <1>1, <1>4
<1> QED
  BY <1>7, <1>8, <1>9, <1>10

\* Nothing was read: the file is gone or ends before the offset.
ReadNone(d) ==
    /\ heard' = heard /\ owed' = owed /\ caughtUp' = FALSE
    /\ DOMAIN offsets' = DOMAIN offsets /\ \A e \in DOMAIN offsets : e # d => offsets'[e] = offsets[e]
    /\ IF d \in DOMAIN logs THEN offsets'[d] = offsets[d] ELSE \E q \in Nat : offsets'[d] = Width * q

\* The lines of d behind p were returned, up to the one at z.
ReadSome(d, p, z) ==
    /\ d \in DOMAIN logs /\ z \in 0..Len(Lines(d)) /\ p \in 0..z /\ Passed(d) <= p
    /\ DOMAIN offsets' = DOMAIN offsets /\ \A e \in DOMAIN offsets : e # d => offsets'[e] = offsets[e]
    /\ offsets'[d] = Width * z
    /\ \E kept \in Seq(1..MaxLines) :
        /\ heard' = heard \o kept /\ Len(kept) = z - p
        /\ \A k \in 1..Len(kept) : kept[k] = Lines(d)[p + k]
        /\ owed' \subseteq owed
        /\ \A j \in DOMAIN Lines(d) :
              j > Passed(d) /\ j <= z /\ Lines(d)[j] \in owed' => Lines(d)[j] \in ToSet(kept)
    /\ caughtUp' => d = Newest /\ z = Len(Lines(d))

LEMMA OffsetKept ==
    ASSUME OffsetFits, NEW d \in DOMAIN offsets, NEW x
    PROVE  LET marks == Pruned(WithOffset(d, x), d)
           IN /\ DOMAIN marks = DOMAIN offsets /\ marks[d] = x
              /\ \A e \in DOMAIN offsets : e # d => marks[e] = offsets[e]
<1> DEFINE marks == WithOffset(d, x)
<1>1. DOMAIN marks = DOMAIN offsets /\ marks[d] = x /\ \A e \in DOMAIN offsets : e # d => marks[e] = offsets[e]
  BY DEF WithOffset
<1>2. Cardinality(DOMAIN marks) <= MaxOffsets
  BY <1>1 DEF OffsetFits
<1>3. Pruned(marks, d) = marks
  BY <1>2 DEF Pruned
<1> QED
  BY <1>1, <1>3

LEMMA ReadsWhat ==
    ASSUME TailInv, PollReads, ~astray'
    PROVE  /\ reading' = None /\ UNCHANGED <<logs, written, half, cuts, warmed>>
           /\ reading.day \in DOMAIN offsets
           /\ \E d : d = reading.day /\ (ReadNone(d) \/ \E p, z : ReadSome(d, p, z))
<1>0. TextFits /\ OffsetFits /\ ReadingFits /\ reading # None
  BY DEF TailInv, PollReads
<1>1. PICK d : d = reading.day
  OBVIOUS
<1>2. PICK at : at = reading.at
  OBVIOUS
<1>3. /\ d \in DOMAIN offsets
      /\ \/ at = offsets[d]
         \/ at = 0 /\ offsets[d] # 0 /\ (d \in DOMAIN logs => Len(logs[d]) < offsets[d])
  BY <1>0, <1>1, <1>2 DEF ReadingFits
<1>4. PICK a \in Nat : at = Width * a
  <2>1. \E q \in Nat : offsets[d] = Width * q
    BY <1>0, <1>3 DEF OffsetFits
  <2>2. Width * 0 = 0
    BY LineSteps
  <2> QED
    BY <1>3, <2>1, <2>2
<1>5. at \in Nat
  BY <1>4, Positive, WidthIs
<1> DEFINE bytes == BytesOf(d, at)
           entries == Entries(Scanned(bytes).lines)
<1>6. /\ offsets' = Pruned(WithOffset(d, at + Scanned(bytes).read), d)
      /\ heard' = heard \o Kept(entries)
      /\ caughtUp' = (d \in DOMAIN logs /\ d = Newest /\ at + Len(bytes) = Len(Content(d)))
      /\ owed' = owed \ (ToSet(entries) \ ToSet(Kept(entries)))
      /\ reading' = None /\ UNCHANGED <<logs, written, half, cuts, warmed>>
      /\ bytes = << >> \/ Last(bytes) = 0
  BY <1>1, <1>2, PollReadsIs
<1>7. /\ DOMAIN offsets' = DOMAIN offsets /\ offsets'[d] = at + Scanned(bytes).read
      /\ \A e \in DOMAIN offsets : e # d => offsets'[e] = offsets[e]
  BY <1>0, <1>3, <1>6, OffsetKept
<1> HIDE DEF bytes
<1>8. ASSUME bytes = << >>
      PROVE  heard' = heard /\ owed' = owed /\ offsets'[d] = at /\ Len(bytes) = 0
  <2>1. Scanned(bytes).read = 0 /\ entries = << >> /\ Len(bytes) = 0
    <3>1. Len(<< >>) = 0
      OBVIOUS
    <3> QED
      BY <1>8, <3>1, NoText, ScanText
  <2>2. << >> \in Seq(1..MaxLines)
    OBVIOUS
  <2>3. Kept(<< >>) = << >>
    <3>1. Kept(<< >>) \in Seq(1..MaxLines) /\ \E s \in 0..0 : Len(Kept(<< >>)) = 0 - s
      BY <2>2, KeptIs
    <3>2. Len(Kept(<< >>)) = 0
      BY <3>1
    <3> QED
      BY <3>1, <3>2, SeqIs
  <2>4. heard \in Seq(1..MaxLines)
    BY DEF TailInv, HeardFits
  <2>5. ToSet(<< >>) = {}
    BY DEF ToSet
  <2> QED
    BY <1>5, <1>6, <1>7, <2>1, <2>3, <2>4, <2>5
<1>9. CASE d \notin DOMAIN logs
  <2>1. bytes = << >>
    BY <1>9 DEF bytes, BytesOf
  <2>2. ReadNone(d)
    BY <1>4, <1>6, <1>7, <1>8, <1>9, <2>1 DEF ReadNone
  <2> QED
    BY <1>1, <1>3, <1>6, <2>2
<1>10. CASE d \in DOMAIN logs
  <2> DEFINE f == Lines(d)
             n == Len(f)
  <2>1. /\ IsText(logs[d], f) /\ n \in Nat /\ Len(logs[d]) = Width * n /\ Len(logs[d]) \in Nat
        /\ logs[d] \in Seq(0..MaxLines) /\ f \in Seq(1..MaxLines) /\ DOMAIN f = 1..n
    BY <1>0, <1>10, FileIs
  <2>2. /\ at > Len(logs[d]) => bytes = << >> /\ at > Len(Content(d))
        /\ at <= Len(logs[d]) =>
             \E z \in 0..n : a <= z /\ bytes = SubSeq(logs[d], at + 1, Width * z)
                             /\ Len(bytes) = Width * z - at
    BY <1>0, <1>4, <1>6, <1>10, WhatIsRead DEF bytes
  <2>3. offsets[d] \in Nat /\ Len(Content(d)) \in Nat
    BY <1>0, <1>3, <1>10, PassedIs, ContentIs
  <2>4. CASE at > Len(logs[d])
    <3>1. bytes = << >> /\ at > Len(Content(d))
      BY <2>2, <2>4
    <3>2. at = offsets[d]
      BY <1>3, <2>1, <2>4
    <3>3. caughtUp' = FALSE
      <4>1. ~(at + Len(bytes) = Len(Content(d)))
        BY <1>5, <1>8, <2>3, <3>1
      <4> QED
        BY <1>6, <4>1, Zenon
    <3>4. ReadNone(d)
      BY <1>7, <1>8, <1>10, <3>1, <3>2, <3>3 DEF ReadNone
    <3> QED
      BY <1>1, <1>3, <1>6, <3>4
  <2>5. CASE ~(at > Len(logs[d]))
    <3>0. PICK z \in 0..n : /\ a <= z /\ bytes = SubSeq(logs[d], at + 1, Width * z)
                            /\ Len(bytes) = Width * z - at
      BY <1>5, <2>1, <2>2, <2>5
    <3>1. a \in 0..z /\ z \in Nat /\ z <= n
      BY <2>1, <3>0
    <3>2. Passed(d) = a
      <4>1. CASE at = offsets[d]
        <5>1. offsets[d] <= Len(logs[d]) /\ offsets[d] \div Width = a
          BY <1>4, <1>5, <2>1, <2>5, <4>1, WholeLinesCount
        <5> QED
          BY <1>3, <5>1 DEF Passed
      <4>2. CASE at = 0 /\ Len(logs[d]) < offsets[d]
        <5>1. Passed(d) = 0
          BY <1>3, <2>1, <2>3, <4>2 DEF Passed
        <5>2. Width * a = Width * 0
          BY <1>4, <4>2, LineSteps
        <5>3. a = 0
          BY <1>4, <5>2, LinesApart
        <5> QED
          BY <5>1, <5>3
      <4> QED
        BY <1>3, <1>10, <4>1, <4>2
    <3> DEFINE g == SubSeq(f, a + 1, z)
    <3>3. IsText(bytes, g)
      BY <1>4, <2>1, <3>0, <3>1, TextsPart
    <3>4. /\ g \in Seq(1..MaxLines) /\ Len(g) = z - a
          /\ \A k \in 1..(z - a) : g[k] = f[a + k]
      <4> DEFINE y == z - a
      <4>1. a \in Nat /\ y \in Nat /\ a + y <= Len(f) /\ a + y = z
        BY <2>1, <3>1
      <4> HIDE DEF y
      <4>2. /\ SubSeq(f, a + 1, a + y) \in Seq(1..MaxLines) /\ Len(SubSeq(f, a + 1, a + y)) = y
            /\ \A k \in 1..y : SubSeq(f, a + 1, a + y)[k] = f[a + k]
        <5> DEFINE S == 1..MaxLines
        <5>1. f \in Seq(S)
          BY <2>1
        <5> HIDE DEF S, f
        <5>2. a \in Nat
          BY <4>1
        <5>3. y \in Nat
          BY <4>1
        <5>4. a + y <= Len(f)
          BY <4>1
        <5>5. /\ SubSeq(f, a + 1, a + y) \in Seq(S) /\ Len(SubSeq(f, a + 1, a + y)) = y
              /\ \A k \in 1..y : SubSeq(f, a + 1, a + y)[k] = f[a + k]
          BY <5>1, <5>2, <5>3, <5>4, SpanOf
        <5> QED
          BY <5>5 DEF S
      <4> QED
        BY <4>1, <4>2 DEF y
    <3>5. entries = g /\ Scanned(bytes).read = Len(bytes)
      BY <3>3, ScanText
    <3> HIDE DEF entries, g, f
    <3>7. offsets'[d] = Width * z
      <4>1. Width * z \in Int
        BY <3>1, LineSteps
      <4> QED
        BY <1>5, <1>7, <3>0, <3>5, <4>1
    <3>8. PICK s \in 0..Len(g) : /\ Len(Kept(g)) = Len(g) - s
                                 /\ \A k \in 1..(Len(g) - s) : Kept(g)[k] = g[s + k]
      BY <3>4, KeptIs
    <3>9. Kept(g) \in Seq(1..MaxLines)
      BY <3>4, KeptIs
    <3> DEFINE p == a + s
               kept == Kept(g)
    <3>10. /\ p \in 0..z /\ a <= p /\ Len(kept) = z - p /\ s \in Nat /\ z - a - s = z - p
           /\ \A k \in 1..(z - p) : s + k \in 1..(z - a) /\ a + (s + k) = p + k
      BY <2>1, <3>1, <3>4, <3>8
    <3>11. \A k \in 1..Len(kept) : kept[k] = f[p + k]
      <4>1. ASSUME NEW k \in 1..(z - p) PROVE Kept(g)[k] = f[p + k]
        <5>1. k \in 1..(Len(g) - s)
          BY <3>4, <3>10
        <5>2. Kept(g)[k] = g[s + k]
          BY <3>8, <5>1
        <5>3. s + k \in 1..(z - a) /\ a + (s + k) = p + k
          BY <3>10
        <5>4. g[s + k] = f[a + (s + k)]
          BY <3>4, <5>3
        <5> QED
          BY <5>2, <5>3, <5>4
      <4> QED
        BY <3>10, <4>1
    <3> HIDE DEF p, kept
    <3>12. heard' = heard \o kept /\ owed' = owed \ (ToSet(g) \ ToSet(kept)) /\ kept \in Seq(1..MaxLines)
      BY <1>6, <3>5, <3>9 DEF kept
    <3>13. ASSUME NEW j \in DOMAIN f, j > a, j <= z, f[j] \in owed' PROVE f[j] \in ToSet(kept)
      <4>1. j - a \in 1..(z - a) /\ a + (j - a) = j
        BY <2>1, <3>1, <3>13
      <4>2. g[j - a] = f[j] /\ j - a \in DOMAIN g
        <5>1. DOMAIN g = 1..Len(g)
          BY <3>4, SeqIs
        <5> QED
          BY <3>4, <4>1, <5>1
      <4>3. f[j] \in ToSet(g)
        BY <4>2 DEF ToSet
      <4> QED
        BY <3>12, <3>13, <4>3
    <3>14. caughtUp' => d = Newest /\ z = n
      <4> SUFFICES ASSUME caughtUp' PROVE d = Newest /\ z = n
        OBVIOUS
      <4>1. d = Newest /\ at + Len(bytes) = Len(Content(d))
        BY <1>6
      <4>2. Len(Content(d)) >= Len(logs[d])
        <5>1. \E h \in 0..LineSize : Len(Content(d)) = Len(logs[d]) + h
          BY <1>0, <1>10, ContentIs
        <5> QED
          BY <2>1, <5>1, WidthIs
      <4> DEFINE x == Width * z
                 y == Width * n
      <4>3. x \in Int /\ y \in Int /\ x >= y
        <5>1. x \in Int
          BY <3>1, LineSteps
        <5> HIDE DEF x
        <5>2. Len(bytes) = x - at
          BY <3>0 DEF x
        <5> QED
          BY <1>5, <2>1, <2>3, <4>1, <4>2, <5>1, <5>2
      <4>4. y <= x => n <= z
        BY <2>1, <3>1, LinesApart
      <4>5. y <= x
        <5> HIDE DEF x, y
        <5> QED
          BY <4>3
      <4>6. n <= z
        BY <4>4, <4>5
      <4>7. z <= n /\ z \in Nat /\ n \in Nat
        BY <2>1, <3>1
      <4>8. z = n
        <5> HIDE DEF n
        <5> QED
          BY <4>6, <4>7
      <4> QED
        BY <4>1, <4>8
    <3>15. ReadSome(d, p, z)
      <4>1. Passed(d) <= p
        BY <3>2, <3>10
      <4>2. owed' \subseteq owed
        BY <3>12
      <4>3. \A j \in DOMAIN f : j > Passed(d) /\ j <= z /\ f[j] \in owed' => f[j] \in ToSet(kept)
        BY <3>2, <3>13
      <4>4. \E k \in Seq(1..MaxLines) :
              /\ heard' = heard \o k /\ Len(k) = z - p
              /\ \A i \in 1..Len(k) : k[i] = f[p + i]
              /\ owed' \subseteq owed
              /\ \A j \in DOMAIN f : j > Passed(d) /\ j <= z /\ f[j] \in owed' => f[j] \in ToSet(k)
        BY <3>10, <3>11, <3>12, <4>2, <4>3
      <4>5. p \in 0..z /\ z \in 0..Len(f)
        BY <3>10
      <4> QED
        BY <1>7, <1>10, <3>7, <3>14, <4>1, <4>4, <4>5 DEF ReadSome, f
    <3> QED
      BY <1>1, <1>3, <1>6, <3>15
  <2> QED
    BY <2>4, <2>5
<1> QED
  BY <1>9, <1>10

LEMMA MarkIs ==
    ASSUME TextFits, OffsetFits, NEW d, d \in DOMAIN offsets, logs' = logs, warmed' = warmed,
           DOMAIN offsets' = DOMAIN offsets, \A e \in DOMAIN offsets : e # d => offsets'[e] = offsets[e],
           \E q \in Nat : offsets'[d] = Width * q
    PROVE  OffsetFits' /\ \A e \in DOMAIN logs : e # d \/ offsets'[d] = offsets[d] => Passed(e)' = Passed(e)
<1>1. ASSUME NEW e \in DOMAIN offsets' PROVE \E q \in Nat : offsets'[e] = Width * q
  <2>1. CASE e = d
    BY <2>1
  <2>2. CASE e # d
    BY <1>1, <2>2 DEF OffsetFits
  <2> QED
    BY <2>1, <2>2
<1>2. OffsetFits'
  BY <1>1 DEF OffsetFits
<1>3. \A e : Lines(e)' = Lines(e)
  BY DEF Lines
<1>4. \A e \in DOMAIN logs : e # d \/ offsets'[d] = offsets[d] => Passed(e)' = Passed(e)
  BY <1>3 DEF Passed
<1> QED
  BY <1>2, <1>4

LEMMA ReadNoneKeeps ==
    ASSUME TailInv, NEW d, d \in DOMAIN offsets, ReadNone(d),
           reading' = None, UNCHANGED <<logs, written, half, cuts, warmed>>
    PROVE  TailInv'
<1>0. TextFits /\ OffsetFits
  BY DEF TailInv
<1>1. \E q \in Nat : offsets'[d] = Width * q
  BY <1>0 DEF ReadNone, OffsetFits
<1>2. OffsetFits' /\ \A e \in DOMAIN logs : e # d \/ offsets'[d] = offsets[d] => Passed(e)' = Passed(e)
  BY <1>0, <1>1, MarkIs DEF ReadNone
<1>3. \A e \in DOMAIN logs : Passed(e)' = Passed(e)
  BY <1>2 DEF ReadNone
<1>4. TextFits' /\ HeardFits' /\ OwedFits'
  BY <1>3, LooksKeeps DEF ReadNone
<1>5. ReadingFits' /\ CaughtFits'
  BY DEF ReadingFits, CaughtFits, ReadNone
<1> QED
  BY <1>2, <1>4, <1>5 DEF TailInv

LEMMA JoinedSet ==
    ASSUME NEW S, NEW s \in Seq(S), NEW t \in Seq(S)
    PROVE  ToSet(s \o t) = ToSet(s) \cup ToSet(t)
<1>1. /\ DOMAIN s = 1..Len(s) /\ DOMAIN t = 1..Len(t) /\ Len(s) \in Nat /\ Len(t) \in Nat
      /\ DOMAIN (s \o t) = 1..(Len(s) + Len(t))
      /\ \A m \in 1..Len(s) : (s \o t)[m] = s[m]
      /\ \A m \in 1..Len(t) : (s \o t)[Len(s) + m] = t[m]
      /\ \A m \in (Len(s) + 1)..(Len(s) + Len(t)) : (s \o t)[m] = t[m - Len(s)]
  BY SeqIs, JoinIs
<1>2. ASSUME NEW x \in ToSet(s \o t) PROVE x \in ToSet(s) \cup ToSet(t)
  <2>1. PICK m \in 1..(Len(s) + Len(t)) : x = (s \o t)[m]
    BY <1>1, <1>2 DEF ToSet
  <2>2. CASE m <= Len(s)
    <3>1. m \in DOMAIN s /\ x = s[m]
      BY <1>1, <2>1, <2>2
    <3> QED
      BY <3>1 DEF ToSet
  <2>3. CASE ~(m <= Len(s))
    <3>1. m \in (Len(s) + 1)..(Len(s) + Len(t)) /\ m - Len(s) \in DOMAIN t
      BY <1>1, <2>1, <2>3
    <3>2. x = t[m - Len(s)]
      BY <1>1, <2>1, <3>1
    <3> QED
      BY <3>1, <3>2 DEF ToSet
  <2> QED
    BY <2>2, <2>3
<1>3. ASSUME NEW x \in ToSet(s) PROVE x \in ToSet(s \o t)
  <2>1. PICK m \in 1..Len(s) : x = s[m]
    BY <1>1, <1>3 DEF ToSet
  <2>2. m \in DOMAIN (s \o t) /\ x = (s \o t)[m]
    BY <1>1, <2>1
  <2> QED
    BY <2>2 DEF ToSet
<1>4. ASSUME NEW x \in ToSet(t) PROVE x \in ToSet(s \o t)
  <2>1. PICK m \in 1..Len(t) : x = t[m]
    BY <1>1, <1>4 DEF ToSet
  <2>2. Len(s) + m \in DOMAIN (s \o t) /\ x = (s \o t)[Len(s) + m]
    BY <1>1, <2>1
  <2> QED
    BY <2>2 DEF ToSet
<1> QED
  BY <1>2, <1>3, <1>4

\* The lines returned are in order among themselves and behind what was
\* returned before, of this file and of older ones.
LEMMA ReadInOrder ==
    ASSUME TailInv, reading # None, NEW d, d = reading.day, NEW p, NEW z, ReadSome(d, p, z),
           NEW kept \in Seq(1..MaxLines), Len(kept) = z - p,
           \A k \in 1..Len(kept) : kept[k] = Lines(d)[p + k],
           heard' = heard \o kept, logs' = logs
    PROVE  HeardInOrder'
<1>0. TextFits /\ OffsetFits /\ HeardFits /\ ReadingFits
  BY DEF TailInv
<1> DEFINE h == Len(heard)
<1>1. /\ heard \in Seq(1..MaxLines) /\ h \in Nat /\ DOMAIN heard = 1..h /\ Len(kept) \in Nat
      /\ DOMAIN heard' = 1..(h + Len(kept))
      /\ \A m \in 1..h : heard'[m] = heard[m]
      /\ \A m \in (h + 1)..(h + Len(kept)) : heard'[m] = kept[m - h]
  <2>1. heard \in Seq(1..MaxLines)
    BY <1>0 DEF HeardFits
  <2> QED
    BY <2>1, SeqIs, JoinIs
<1> HIDE DEF h
<1>2. \A m \in 1..h : heard[m] \in 1..MaxLines
  BY <1>1, SeqIs DEF h
<1>3. /\ d \in DOMAIN logs /\ z \in 0..Len(Lines(d)) /\ p \in 0..z /\ Passed(d) <= p /\ Passed(d) \in Nat
      /\ Len(Lines(d)) \in Nat /\ DOMAIN Lines(d) = 1..Len(Lines(d))
      /\ \A j \in DOMAIN Lines(d) : Lines(d)[j] \in 1..MaxLines
  BY <1>0, FileIs, PassedIs DEF ReadSome
<1>4. ASSUME NEW m \in (h + 1)..(h + Len(kept))
      PROVE  p + (m - h) \in DOMAIN Lines(d) /\ heard'[m] = Lines(d)[p + (m - h)] /\ p + (m - h) > Passed(d)
  <2>1. m - h \in 1..Len(kept) /\ p + (m - h) \in 1..Len(Lines(d)) /\ p + (m - h) > Passed(d)
    BY <1>1, <1>3
  <2> QED
    BY <1>1, <1>3, <2>1
<1>5. \A e : Lines(e)' = Lines(e)
  BY DEF Lines
<1>6. ASSUME NEW k \in DOMAIN heard', NEW m \in DOMAIN heard', k < m
      PROVE  /\ heard'[k] # heard'[m]
             /\ \/ heard'[k] < heard'[m]
                \/ \A e \in DOMAIN logs : \A j \in DOMAIN Lines(e) : Lines(e)[j] # heard'[k]
  <2>0. k \in 1..(h + Len(kept)) /\ m \in 1..(h + Len(kept))
    BY <1>1
  <2>1. CASE m <= h
    <3>1. k \in 1..h /\ m \in 1..h /\ heard'[k] = heard[k] /\ heard'[m] = heard[m]
      BY <1>1, <1>6, <2>0, <2>1
    <3>2. HeardInOrder
      BY <1>0 DEF HeardFits
    <3> QED
      BY <1>1, <1>6, <3>1, <3>2 DEF HeardInOrder
  <2>2. CASE ~(k <= h)
    <3>1. k \in (h + 1)..(h + Len(kept)) /\ m \in (h + 1)..(h + Len(kept)) /\ k - h < m - h
          /\ p + (k - h) < p + (m - h)
      <4> DEFINE y == Len(kept)
      <4>1. h \in Nat /\ y \in Nat /\ k \in 1..(h + y) /\ m \in 1..(h + y)
        BY <1>1, <2>0
      <4>2. k < m /\ ~(k <= h)
        BY <1>6, <2>2
      <4>3. p \in Nat
        BY <1>3
      <4> HIDE DEF y
      <4>4. k \in (h + 1)..(h + y) /\ m \in (h + 1)..(h + y) /\ k - h < m - h
            /\ p + (k - h) < p + (m - h)
        BY <4>1, <4>2, <4>3
      <4> QED
        BY <4>4 DEF y
    <3>2. /\ p + (k - h) \in DOMAIN Lines(d) /\ heard'[k] = Lines(d)[p + (k - h)]
          /\ p + (m - h) \in DOMAIN Lines(d) /\ heard'[m] = Lines(d)[p + (m - h)]
      BY <1>4, <3>1
    <3>3. heard'[k] < heard'[m] /\ heard'[k] \in Nat /\ heard'[m] \in Nat
      <4>1. \A i, j \in DOMAIN Lines(d) : i < j => Lines(d)[i] < Lines(d)[j]
        BY <1>0, <1>3 DEF TextFits
      <4>2. Lines(d)[p + (k - h)] < Lines(d)[p + (m - h)]
        BY <3>1, <3>2, <4>1
      <4>3. \A j \in DOMAIN Lines(d) : Lines(d)[j] \in Nat
        BY <1>3
      <4> QED
        BY <3>2, <4>2, <4>3
    <3> QED
      BY <3>3
  <2>3. CASE k <= h /\ ~(m <= h)
    <3>1. k \in 1..h /\ m \in (h + 1)..(h + Len(kept)) /\ heard'[k] = heard[k]
      BY <1>1, <2>0, <2>3
    <3> DEFINE i == p + (m - h)
    <3>2. i \in DOMAIN Lines(d) /\ heard'[m] = Lines(d)[i] /\ i > Passed(d) /\ i \in Nat
      BY <1>3, <1>4, <3>1
    <3> HIDE DEF i
    <3>3. heard[k] \in Heard /\ heard[k] \in Nat
      BY <1>1, <1>2, <3>1 DEF Heard, ToSet
    <3>4. heard[k] # Lines(d)[i]
      BY <1>0, <1>3, <3>2, <3>3 DEF HeardFits
    <3>5. ASSUME ~(heard[k] < Lines(d)[i]), NEW e \in DOMAIN logs, NEW j \in DOMAIN Lines(e)
          PROVE  Lines(e)[j] # heard[k]
      <4>0. /\ e \in Nat /\ d \in Nat /\ j \in Nat /\ Lines(e)[j] \in Nat /\ Lines(d)[i] \in Nat
            /\ Passed(d) \in Nat
        <5>1. e \in Nat /\ d \in Nat
          BY <1>0, <1>3, FileIs
        <5>2. DOMAIN Lines(e) = 1..Len(Lines(e)) /\ \A x \in DOMAIN Lines(e) : Lines(e)[x] \in 1..MaxLines
          BY <1>0, FileIs
        <5>3. Lines(d)[i] \in 1..MaxLines
          BY <1>3, <3>2
        <5> QED
          BY <1>3, <5>1, <5>2, <5>3
      <4>1. CASE e > d
        BY <1>0, <3>3, <3>5, <4>1 DEF ReadingFits
      <4>2. CASE e < d
        <5>1. Lines(e)[j] < Lines(d)[i]
          BY <1>0, <1>3, <3>2, <3>5, <4>2 DEF TextFits
        <5> QED
          BY <3>3, <3>5, <4>0, <5>1
      <4>3. CASE e = d
        <5>1. CASE j > Passed(d)
          BY <1>0, <3>3, <3>5, <4>3, <5>1 DEF HeardFits
        <5>2. CASE ~(j > Passed(d))
          <6>1. j < i
            BY <3>2, <4>0, <5>2
          <6>2. Lines(d)[j] < Lines(d)[i]
            BY <1>0, <1>3, <3>2, <3>5, <4>3, <6>1 DEF TextFits
          <6> QED
            BY <3>3, <3>5, <4>0, <4>3, <6>2
        <5> QED
          BY <5>1, <5>2
      <4> QED
        BY <4>0, <4>1, <4>2, <4>3
    <3> QED
      BY <3>1, <3>2, <3>4, <3>5
  <2> QED
    BY <1>1, <2>0, <2>1, <2>2, <2>3
<1> QED
  BY <1>5, <1>6 DEF HeardInOrder

LEMMA ReadSomeKeeps ==
    ASSUME TailInv, reading # None, NEW d, d = reading.day, d \in DOMAIN offsets,
           NEW p, NEW z, ReadSome(d, p, z),
           reading' = None, UNCHANGED <<logs, written, half, cuts, warmed>>
    PROVE  TailInv'
<1>0. TextFits /\ OffsetFits /\ HeardFits /\ OwedFits
  BY DEF TailInv
<1>1. PICK kept \in Seq(1..MaxLines) :
        /\ heard' = heard \o kept /\ Len(kept) = z - p
        /\ \A k \in 1..Len(kept) : kept[k] = Lines(d)[p + k]
        /\ owed' \subseteq owed
        /\ \A j \in DOMAIN Lines(d) :
              j > Passed(d) /\ j <= z /\ Lines(d)[j] \in owed' => Lines(d)[j] \in ToSet(kept)
  BY DEF ReadSome
<1>2. /\ d \in DOMAIN logs /\ p \in 0..z /\ z \in Nat /\ z <= Len(Lines(d)) /\ Passed(d) <= p
      /\ Len(Lines(d)) \in Nat /\ DOMAIN Lines(d) = 1..Len(Lines(d)) /\ Passed(d) \in Nat
      /\ Len(logs[d]) = Width * Len(Lines(d)) /\ offsets'[d] = Width * z /\ Len(logs[d]) \in Nat
  BY <1>0, FileIs, PassedIs DEF ReadSome
<1>3. OffsetFits' /\ \A e \in DOMAIN logs : e # d => Passed(e)' = Passed(e)
  <2>1. \E q \in Nat : offsets'[d] = Width * q
    BY <1>2
  <2> QED
    BY <1>0, <2>1, MarkIs DEF ReadSome
<1>4. TextFits' /\ (\A e : Lines(e)' = Lines(e)) /\ Drawn' = Drawn /\ Newest' = Newest
  BY <1>0, LogsStay
<1>5. Passed(d)' = z
  <2>1. offsets'[d] \div Width = z
    BY <1>2, WholeLinesCount
  <2>2. offsets'[d] <= Len(logs[d])
    BY <1>2, LinesApart
  <2> QED
    BY <1>2, <2>1, <2>2 DEF Passed, ReadSome
<1>6. heard \in Seq(1..MaxLines) /\ Heard' = Heard \cup ToSet(kept) /\ heard' \in Seq(1..MaxLines)
  BY <1>0, <1>1, JoinedSet, JoinIs DEF HeardFits, Heard
<1>7. ASSUME NEW n \in ToSet(kept) PROVE \E j \in DOMAIN Lines(d) : j <= z /\ n = Lines(d)[j]
  <2>1. PICK k \in 1..Len(kept) : n = kept[k]
    BY <1>1, <1>7, SeqIs DEF ToSet
  <2>2. p + k \in DOMAIN Lines(d) /\ p + k <= z /\ n = Lines(d)[p + k]
    BY <1>1, <1>2, <2>1
  <2> QED
    BY <2>2
<1>8. HeardFits'
  <2>1. HeardInOrder'
    BY <1>1, ReadInOrder
  <2>2. ASSUME NEW e \in DOMAIN logs, NEW j \in DOMAIN Lines(e), j > Passed(e)'
        PROVE  Lines(e)[j] \notin Heard'
    <3>1. j > Passed(e)
      <4>1. e = d => j \in Nat /\ j > z /\ z >= Passed(d)
        BY <1>2, <1>5, <2>2
      <4> QED
        BY <1>2, <1>3, <2>2, <4>1
    <3>2. Lines(e)[j] \notin Heard
      BY <1>0, <2>2, <3>1 DEF HeardFits
    <3>3. ASSUME Lines(e)[j] \in ToSet(kept) PROVE FALSE
      <4>1. PICK i \in DOMAIN Lines(d) : i <= z /\ Lines(e)[j] = Lines(d)[i]
        BY <1>7, <3>3
      <4>2. e = d /\ j = i
        BY <1>0, <1>2, <2>2, <4>1, LineIsOnce
      <4> QED
        BY <1>2, <1>5, <2>2, <4>1, <4>2
    <3> QED
      BY <1>6, <3>2, <3>3
  <2>3. \A k \in DOMAIN heard' : heard'[k] <= Drawn'
    <3>1. \A n \in Heard : n <= Drawn
      BY <1>0 DEF HeardFits, Heard, ToSet
    <3>2. \A n \in ToSet(kept) : n <= Drawn
      BY <1>0, <1>2, <1>7 DEF TextFits
    <3>3. \A k \in DOMAIN heard' : heard'[k] \in Heard'
      BY DEF Heard, ToSet
    <3> QED
      BY <1>4, <1>6, <3>1, <3>2, <3>3
  <2> QED
    BY <1>4, <1>6, <2>1, <2>2, <2>3 DEF HeardFits
<1>9. OwedFits'
  <2>1. ASSUME NEW e \in DOMAIN logs, NEW j \in DOMAIN Lines(e), Lines(e)[j] \in owed'
        PROVE  \/ Lines(e)[j] \in Heard'
               \/ e = Newest /\ e \in DOMAIN offsets' /\ j > Passed(e)'
    <3>1. Lines(e)[j] \in Heard \/ (e = Newest /\ e \in DOMAIN offsets /\ j > Passed(e))
      BY <1>0, <1>1, <2>1 DEF OwedFits
    <3>2. CASE e = d
      <4>1. j \in Nat /\ z \in Nat /\ Passed(d)' = z /\ d \in DOMAIN offsets'
        BY <1>2, <1>5, <2>1, <3>2 DEF ReadSome
      <4>2. j <= z /\ j > Passed(d) => Lines(d)[j] \in ToSet(kept)
        BY <1>1, <2>1, <3>2
      <4>3. j <= z \/ j > z
        BY <4>1
      <4> QED
        BY <1>6, <2>1, <3>1, <3>2, <4>1, <4>2, <4>3
    <3>3. CASE e # d
      BY <1>3, <1>6, <2>1, <3>1, <3>3 DEF ReadSome
    <3> QED
      BY <3>2, <3>3
  <2>2. owed' \subseteq 1..MaxLines /\ \A n \in owed' : n <= Drawn'
    BY <1>0, <1>1, <1>4 DEF OwedFits
  <2> QED
    BY <1>4, <2>1, <2>2 DEF OwedFits
<1>10. CaughtFits'
  <2> SUFFICES ASSUME caughtUp' PROVE CaughtFits'
    BY DEF CaughtFits
  <2>1. d = Newest /\ Newest' = Newest /\ z = Len(Lines(d))
    BY <1>4 DEF ReadSome
  <2>2. Passed(Newest)' = Passed(d)' /\ Lines(Newest)' = Lines(d)
    BY <1>4, <2>1 DEF Passed, Lines
  <2> QED
    BY <1>2, <1>5, <2>1, <2>2 DEF CaughtFits
<1>11. ReadingFits'
  BY DEF ReadingFits
<1> QED
  BY <1>3, <1>4, <1>8, <1>9, <1>10, <1>11 DEF TailInv

LEMMA PollReadsKeeps ==
    ASSUME TailInv, PollReads, ~astray'
    PROVE  TailInv'
<1>1. reading # None
  BY DEF PollReads
<1>2. PICK d : d = reading.day /\ (ReadNone(d) \/ \E p, z : ReadSome(d, p, z))
  BY ReadsWhat
<1>3. reading' = None /\ UNCHANGED <<logs, written, half, cuts, warmed>> /\ d \in DOMAIN offsets
  BY <1>2, ReadsWhat
<1>4. CASE ReadNone(d)
  BY <1>3, <1>4, ReadNoneKeeps
<1>5. ASSUME NEW p, NEW z, ReadSome(d, p, z) PROVE TailInv'
  BY <1>1, <1>2, <1>3, <1>5, ReadSomeKeeps
<1> QED
  BY <1>2, <1>4, <1>5

LEMMA TailInitially == TailInit => TailInv
<1> SUFFICES ASSUME TailInit PROVE TailInv
  OBVIOUS
<1>0. offsets = << >> /\ DOMAIN offsets = {} /\ warmed = FALSE /\ reading = None
      /\ caughtUp = FALSE /\ heard = << >> /\ owed = {}
  BY DEF TailInit
<1>1. heard \in Seq(1..MaxLines) /\ DOMAIN heard = {} /\ Heard = {}
  BY <1>0 DEF Heard, ToSet
<1>2. OffsetFits
  <2>1. Cardinality({}) = 0 /\ 0 <= MaxOffsets
    BY FS_EmptySet, TailAssumption
  <2> QED
    BY <1>0, <2>1 DEF OffsetFits
<1>3. HeardFits /\ ReadingFits /\ OwedFits /\ CaughtFits
  BY <1>0, <1>1 DEF HeardFits, HeardInOrder, ReadingFits, OwedFits, CaughtFits
<1>5. HalfFits
  <2>1. Width * 1 <= Width * MaxLines /\ Width * 0 <= Width * 1 /\ Width * 1 = Width /\ Width * 0 = 0
    <3>1. MaxLines \in Int /\ 1 <= MaxLines
      BY WidthIs
    <3> QED
      BY <3>1, LinesApart, WidthIs
  <2>2. half = 0 /\ (written = 0 \/ written = Width)
    BY DEF TailInit, Width
  <2>3. 0 \in 0..LineSize /\ Width * MaxLines \in Int /\ Width \in Nat
    BY WidthIs, LineSteps
  <2> QED
    BY <2>1, <2>2, <2>3 DEF HalfFits
<1>4. TextFits
  <2>1. CASE logs = << >>
    <3>1. DOMAIN logs = {} /\ written = 0
      BY <2>1 DEF TailInit
    <3>2. Drawn = 0 /\ Width * 0 = 0
      BY <3>1, WholeLinesCount, LineSteps DEF Drawn
    <3> QED
      BY <1>5, <3>1, <3>2, WidthIs DEF TextFits
  <2>2. CASE logs # << >>
    <3>1. logs = [d \in {1} |-> SubSeq(Stream, 1, LineSize + 1)] /\ written = Width
      BY <2>2 DEF TailInit, Width
    <3> DEFINE f == <<1>>
    <3>2. f \in Seq(1..MaxLines) /\ Len(f) = 1 /\ f[1] = 1 /\ DOMAIN f = {1}
      <4>1. 1 \in 1..MaxLines
        BY WidthIs
      <4> QED
        BY <4>1
    <3> HIDE DEF f
    <3>3. IsText(logs[1], f)
      <4>1. \A i \in 1..1 : f[i] = 0 + i
        BY <3>2
      <4>2. 0 + 1 <= MaxLines /\ 0 \in Nat /\ 1 \in Nat
        BY WidthIs
      <4>3. IsText(SubSeq(Stream, Width * 0 + 1, Width * 0 + Width * 1), f)
        BY <3>2, <4>1, <4>2, GameLines
      <4>4. Width * 0 + 1 = 1 /\ Width * 0 + Width * 1 = LineSize + 1
        BY WidthIs DEF Width
      <4>5. logs[1] = SubSeq(Stream, 1, LineSize + 1)
        BY <3>1
      <4> QED
        BY <4>3, <4>4, <4>5
    <3>4. Lines(1) = f
      BY <3>3, TextOfIs DEF Lines
    <3>5. DOMAIN logs = {1} /\ 1 \in Days
      BY <3>1, TailAssumption
    <3>6. Drawn = 1 /\ written = Width * Drawn
      <4>1. Width * 1 = Width
        BY WidthIs
      <4> QED
        BY <3>1, <4>1, WholeLinesCount DEF Drawn
    <3> QED
      <4>1. DOMAIN logs \subseteq Days /\ Drawn \in 0..MaxLines /\ written = Width * Drawn
        BY <3>5, <3>6, WidthIs
      <4>2. ASSUME NEW d \in DOMAIN logs
            PROVE  /\ IsText(logs[d], Lines(d)) /\ Len(Lines(d)) <= Drawn
                   /\ \A i, j \in DOMAIN Lines(d) : i < j => Lines(d)[i] < Lines(d)[j]
                   /\ \A i \in DOMAIN Lines(d) : Lines(d)[i] <= Drawn
        <5>1. d = 1
          BY <3>5, <4>2
        <5>2. Lines(d) = f /\ IsText(logs[d], Lines(d))
          BY <3>3, <3>4, <5>1
        <5>3. Len(f) <= Drawn /\ \A i \in DOMAIN f : i = 1 /\ f[i] <= Drawn
          BY <3>2, <3>6
        <5>4. \A i, j \in DOMAIN f : ~(i < j)
          BY <5>3
        <5> QED
          BY <5>2, <5>3, <5>4
      <4>3. \A d, e \in DOMAIN logs : ~(d < e)
        BY <3>5
      <4> QED
        BY <1>5, <4>1, <4>2, <4>3 DEF TextFits
  <2> QED
    BY <2>1, <2>2
<1> QED
  BY <1>2, <1>3, <1>4 DEF TailInv

\* Once astray the tailer stays so.
LEMMA StaysAstray == astray /\ [TailNext]_tailVars => astray'
BY DEF TailNext, GameWrites, DayBegins, FileIsCut, FileGoes, BreaksOff, PollLooks, PollReads, tailVars

LEMMA TailStays == (~astray => TailInv) /\ [TailNext]_tailVars => (~astray' => TailInv')
<1> SUFFICES ASSUME ~astray => TailInv, [TailNext]_tailVars, ~astray' PROVE TailInv'
  OBVIOUS
<1>0. TailInv
  BY StaysAstray
<1>1. CASE TailNext
  BY <1>0, <1>1, GameWritesKeeps, DayBeginsKeeps, FileIsCutKeeps, FileGoesKeeps,
     PollLooksKeeps, PollReadsKeeps DEF TailNext
<1>2. CASE UNCHANGED tailVars
  <2>1. UNCHANGED <<logs, written, half, cuts, offsets, warmed, reading, caughtUp, heard, owed>>
    BY <1>2 DEF tailVars
  <2>2. (\A d : Lines(d)' = Lines(d)) /\ Drawn' = Drawn /\ Newest' = Newest /\ Heard' = Heard
    BY <2>1, LogsStay DEF Heard
  <2>3. \A d : Passed(d)' = Passed(d)
    BY <2>1, <2>2 DEF Passed
  <2>4. OffsetFits'
    BY <1>0, <2>1 DEF TailInv, OffsetFits
  <2>5. TextFits' /\ HeardFits' /\ OwedFits'
    BY <1>0, <2>1, <2>3, LooksKeeps
  <2>6. ReadingFits'
    BY <1>0, <2>1, <2>2 DEF TailInv, ReadingFits
  <2>7. CaughtFits'
    <3>1. Passed(Newest)' = Passed(Newest) /\ Lines(Newest)' = Lines(Newest)
      BY <2>1, <2>2 DEF Passed, Lines
    <3> QED
      BY <1>0, <2>1, <3>1 DEF TailInv, CaughtFits
  <2> QED
    BY <2>4, <2>5, <2>6, <2>7 DEF TailInv
<1> QED
  BY <1>1, <1>2

LEMMA TailHolds == (~astray => TailInv) => OnlyNewLines /\ EverythingRead
<1> SUFFICES ASSUME TailInv PROVE OnlyNewLines /\ EverythingRead
  BY DEF OnlyNewLines, EverythingRead
<1>0. TextFits /\ OffsetFits /\ HeardInOrder /\ OwedFits /\ CaughtFits
  BY DEF TailInv, HeardFits
<1>1. \A d \in DOMAIN logs : LinesIn(logs[d]) = {Lines(d)[j] : j \in DOMAIN Lines(d)}
  BY <1>0, FileIs
<1>2. OnlyNewLines
  BY <1>0, <1>1 DEF HeardInOrder, OnlyNewLines
<1>3. EverythingRead
  <2> SUFFICES ASSUME caughtUp, NEW n \in LinesIn(logs[Newest]) \cap owed PROVE n \in ToSet(heard)
    BY DEF EverythingRead
  <2>0. PICK d : d = Newest
    OBVIOUS
  <2>1. DOMAIN logs # {} /\ Passed(d) >= Len(Lines(d)) /\ d \in DOMAIN logs
    <3>1. DOMAIN logs # {} /\ DOMAIN logs \subseteq Days
      BY <1>0 DEF CaughtFits, TextFits
    <3> QED
      BY <1>0, <2>0, <3>1, LargestIs, NewestIs DEF CaughtFits
  <2>2. PICK j \in DOMAIN Lines(d) : n = Lines(d)[j]
    BY <1>1, <2>0, <2>1
  <2>3. ~(j > Passed(d))
    <3>1. j \in 1..Len(Lines(d)) /\ Len(Lines(d)) \in Nat /\ Passed(d) \in Nat
      BY <1>0, <2>1, FileIs, PassedIs
    <3> QED
      BY <2>1, <3>1
  <2>4. n \in Heard
    BY <1>0, <2>1, <2>2, <2>3 DEF OwedFits
  <2> QED
    BY <2>4 DEF Heard
<1> QED
  BY <1>2, <1>3

\* The log followed, as long as the tailer has not gone astray: no line is
\* returned twice or out of order, and a poll at the end of the newest file has
\* returned what was written to it since it was met, whatever pieces the lines
\* are written in, whatever a read's limit is, and whatever files are begun,
\* cut short or taken away between the look and the read.  For any number of
\* days, lines and offsets.
THEOREM LogStaysFollowed == PackagesSpec => []LogIsFollowed
<1> DEFINE Inv == topic = "logs" /\ ~astray => TailInv
<1>1. PackagesInit => Inv
  BY TailInitially DEF PackagesInit
<1>2. Inv /\ [PackagesNext]_packagesVars => Inv'
  <2> SUFFICES ASSUME Inv, [PackagesNext]_packagesVars, topic' = "logs", ~astray' PROVE TailInv'
    OBVIOUS
  <2>1. topic = "logs" /\ [TailNext]_tailVars
    BY DEF PackagesNext, packagesVars
  <2> QED
    BY <2>1, TailStays
<1>3. Inv => LogIsFollowed
  BY TailHolds DEF LogIsFollowed
<1> QED
  BY <1>1, <1>2, <1>3, PTL DEF PackagesSpec

---------------------------------------------------------------------------
(***************************************************************************)
(* The types.  Those of RconClient are part of its invariant; the others    *)
(* keep themselves, but for the in-degree that Place lowers, which is the   *)
(* number of edges still awaited.                                          *)
(***************************************************************************)

LEMMA LargestOf ==
    ASSUME NEW n \in Nat, NEW K \in SUBSET (1..n), K # {}
    PROVE  Max(K) \in K /\ \A e \in K : e <= Max(K)
<1>1. K \in SUBSET Nat /\ IsFiniteSet(K)
  <2>1. IsFiniteSet(1..n)
    BY UpToIs
  <2>2. IsFiniteSet(K)
    BY <2>1, FS_Subset
  <2>3. 1..n \subseteq Nat
    OBVIOUS
  <2> QED
    BY <2>2, <2>3
<1>2. Cardinality(K) \in Nat /\ Cardinality(K) # 0
  BY <1>1, FS_CardinalityType, FS_EmptySet
<1>3. PICK d \in K : Cardinality({m \in K : m <= d}) = Cardinality(K)
  BY <1>1, <1>2, RanksAre
<1>4. {m \in K : m <= d} \in SUBSET K
  OBVIOUS
<1>5. {m \in K : m <= d} = K
  BY <1>1, <1>3, <1>4, FS_Subset
<1>6. \A e \in K : d >= e
  BY <1>1, <1>5
<1>7. Max(K) \in K /\ \A e \in K : Max(K) >= e
  BY <1>6, Zenon DEF Max
<1> QED
  BY <1>1, <1>7

\* What the community's file says of each mod are rules.
LEMMA RulesAreTyped ==
    ASSUME NEW f \in RuleFiles
    PROVE  LoadSortingRules(f) \in [ModIDs -> Rules]
<1> DEFINE Sections(k) == {s \in 1..k - 1 : f[s].key = "section"}
           Said(m, key) == {k \in DOMAIN f : /\ f[k].key = key /\ Sections(k) # {}
                                             /\ f[Max(Sections(k))].of = m}
           AllOf(m, key) == UNION {f[k].of : k \in Said(m, key)}
           IsOn(m, key) == Said(m, key) # {} /\ f[Max(Said(m, key))].of
           Of(m) == [require |-> AllOf(m, "require"), after |-> AllOf(m, "after"),
                     before |-> AllOf(m, "before"), incompatible |-> AllOf(m, "incompatible"),
                     first |-> IsOn(m, "first"), last |-> IsOn(m, "last")]
<1>0. Len(f) \in Nat /\ DOMAIN f = 1..Len(f) /\ \A k \in DOMAIN f : IsRuleLine(f[k])
  BY OrderAssumption
<1>1. ASSUME NEW m, NEW key \in {"require", "after", "before", "incompatible"}
      PROVE  AllOf(m, key) \in SUBSET ModIDs
  <2>1. \A k \in DOMAIN f : f[k].key = key => f[k].of \subseteq ModIDs
    BY <1>0 DEF IsRuleLine
  <2> QED
    BY <2>1
<1>2. ASSUME NEW m, NEW key \in {"first", "last"}
      PROVE  IsOn(m, key) \in BOOLEAN
  OBVIOUS
<1>3. LoadSortingRules(f) = [m \in ModIDs |-> Of(m)]
  BY DEF LoadSortingRules
<1> HIDE DEF IsOn, AllOf
<1>4. ASSUME NEW m PROVE Of(m) \in Rules
  BY <1>1, <1>2 DEF Rules
<1> HIDE DEF Of
<1> QED
  BY <1>3, <1>4

\* The conjuncts of the type that OrderInv does not hold.
OrderTyped ==
    /\ info \in [ModIDs -> Rules] /\ extra \in [ModIDs -> Rules] /\ round \in 1..Rounds
    /\ DOMAIN waits \subseteq ModIDs /\ \A m \in DOMAIN waits : waits[m] \in Nat

LEMMA OrderTypedInitially == OrderInit => OrderTyped
<1> SUFFICES ASSUME OrderInit PROVE OrderTyped
  OBVIOUS
<1>1. info \in [ModIDs -> Rules] /\ 1 \in 1..Rounds /\ round = 1
  BY OrderAssumption DEF OrderInit
<1>2. extra \in [ModIDs -> Rules]
  BY RulesAreTyped DEF OrderInit
<1>3. waits = << >> /\ DOMAIN << >> = {}
  BY DEF OrderInit
<1> QED
  BY <1>1, <1>2, <1>3 DEF OrderTyped

LEMMA PlaceTyped == OrderInv /\ OrderTyped /\ Place => OrderTyped'
<1> SUFFICES ASSUME OrderInv, OrderTyped, Place PROVE OrderTyped'
  OBVIOUS
<1>0. /\ WaitsFit /\ list \in Listing /\ ReadyMods # {} /\ UNCHANGED <<info, extra, round>>
  BY DEF OrderInv, PlacingFits, Place
<1>1. PICK m : m = EarliestReady /\ m \in ReadyMods
  BY <1>0, NextOneIs
<1>2. waits' = [o \in DOMAIN waits \ {m} |-> waits[o] - (IF <<m, o>> \in Edges THEN 1 ELSE 0)]
  BY <1>1 DEF Place
<1>3. ASSUME NEW o \in DOMAIN waits, <<m, o>> \in Edges PROVE waits[o] >= 1
  <2>1. m \in DOMAIN waits
    BY <1>1 DEF ReadyMods
  <2>2. <<m, o>> \in Awaited(o) /\ Awaited(o) \in SUBSET Edges
    BY <1>3, <2>1 DEF Awaited
  <2>3. IsFiniteSet(Awaited(o)) /\ Cardinality(Awaited(o)) \in Nat
    BY <1>0, <2>2, EdgesAre
  <2>4. Cardinality(Awaited(o)) # 0
    BY <2>2, <2>3, FS_EmptySet
  <2> QED
    BY <1>0, <2>3, <2>4 DEF WaitsFit
<1>4. \A o \in DOMAIN waits' : waits'[o] \in Nat
  BY <1>2, <1>3 DEF OrderTyped
<1> QED
  BY <1>0, <1>2, <1>4 DEF OrderTyped

LEMMA OrderTypedStays == OrderInv /\ OrderTyped /\ [OrderNext]_orderVars => OrderTyped'
<1> SUFFICES ASSUME OrderInv, OrderTyped, [OrderNext]_orderVars PROVE OrderTyped'
  OBVIOUS
<1>1. CASE SortBegins
  <2>1. /\ UNCHANGED <<info, extra, round>>
        /\ DOMAIN waits' = Present /\ \A m \in Present : waits'[m] = Cardinality({e \in Edges : e[2] = m})
    BY <1>1 DEF SortBegins
  <2>2. list \in Listing
    BY DEF OrderInv
  <2>3. Present \subseteq ModIDs
    BY <2>2, PresentIs, EntriesOf
  <2>4. ASSUME NEW m \in Present PROVE waits'[m] \in Nat
    <3>1. {e \in Edges : e[2] = m} \in SUBSET Edges
      OBVIOUS
    <3> QED
      BY <2>1, <2>2, <3>1, EdgesAre
  <2> QED
    BY <2>1, <2>3, <2>4 DEF OrderTyped
<1>2. CASE Place
  BY <1>2, PlaceTyped
<1>3. CASE SortEnds
  BY <1>3 DEF SortEnds, OrderTyped
<1>4. CASE SortsAgain
  <2>1. UNCHANGED <<info, extra, waits>> /\ round' = round + 1 /\ round < Rounds
    BY <1>4 DEF SortsAgain
  <2>2. round' \in 1..Rounds
    BY <2>1, OrderAssumption DEF OrderTyped
  <2> QED
    BY <2>1, <2>2 DEF OrderTyped
<1>5. CASE UNCHANGED orderVars
  BY <1>5 DEF orderVars, OrderTyped
<1> QED
  BY <1>1, <1>2, <1>3, <1>4, <1>5 DEF OrderNext

LEMMA OrderIsTyped == OrderInv /\ OrderTyped => OrderTypeOK
BY DEF OrderInv, OrderTyped, OrderTypeOK, Listing

---------------------------------------------------------------------------

LEMMA ScheduleIsTyped ==
    ASSUME NEW e, Parses(e)
    PROVE  Parse(e) \in [of : [FieldNames -> SUBSET Int], domRestricted : BOOLEAN,
                         dowRestricted : BOOLEAN]
<1>1. ASSUME NEW f \in FieldNames
      PROVE  LowOf[f] \in Int /\ HighOf[f] \in Int
  BY CronAssumption DEF FieldNames, LowOf, HighOf
<1>2. ASSUME NEW f \in FieldNames, NEW p, Reads(p, f)
      PROVE  ParsePart(p, f) \in SUBSET Int
  <2> DEFINE low == IF p.kind = "all" THEN LowOf[f] ELSE ParseValue(p.low, f)
             high == IF p.kind = "all" \/ (p.kind = "value" /\ p.every > 1)
                     THEN HighOf[f] ELSE ParseValue(p.high, f)
  <2>1. p.kind # "all" => ParseValue(p.low, f) \in Int /\ ParseValue(p.high, f) \in Int
    BY <1>1, <1>2 DEF Reads
  <2>2. low \in Int /\ high \in Int
    BY <1>1, <2>1
  <2>3. ParsePart(p, f) = {v \in low..high : (v - low) % p.every = 0}
    BY DEF ParsePart
  <2> HIDE DEF low, high
  <2> QED
    BY <2>2, <2>3
<1>3. ASSUME NEW f \in FieldNames PROVE ParseField(e[f], f) \in SUBSET Int
  BY <1>2 DEF ParseField, Parses
<1> QED
  BY <1>3 DEF Parse

LEMMA SpansAreInt ==
    ASSUME NEW k \in Int
    PROVE  k * MinutesPerDay \in Int
BY SizesAre

LEMMA ClockIsTyped ==
    ASSUME zone \in Zones, NEW i \in Int
    PROVE  /\ Local(i) \in Int /\ Instant(i) \in Int /\ Day(i) \in Int
           /\ Clock(i).minute \in Int /\ Clock(i).dom \in Int
<1>1. Local(i) \in Int /\ Instant(i) \in Int
  BY ZoneIs
<1>2. Day(i) \in Int
  BY <1>1, SizesAre, DivisionIs DEF Day
<1>3. Local(i) % MinutesPerHour \in Int
  BY <1>1, SizesAre, DivisionIs DEF Hour
<1>4. Day(i) % DaysPerMonth \in Int
  BY <1>2, SizesAre, DivisionIs
<1> QED
  BY <1>1, <1>2, <1>3, <1>4 DEF Clock

LEMMA CronTypedInitially == CronInit => CronTypeOK
<1> SUFFICES ASSUME CronInit PROVE CronTypeOK
  OBVIOUS
<1>1. sched \in [of : [FieldNames -> SUBSET Int], domRestricted : BOOLEAN, dowRestricted : BOOLEAN]
  BY ScheduleIsTyped DEF CronInit
<1>2. cand \in Int
  BY CronAssumption DEF CronInit
<1> QED
  BY <1>1, <1>2 DEF CronInit, CronTypeOK

LEMMA CronTypedStays == CronTypeOK /\ [CronNext]_cronVars => CronTypeOK'
<1> SUFFICES ASSUME CronTypeOK, [CronNext]_cronVars PROVE CronTypeOK'
  OBVIOUS
<1>0. cand \in Int /\ zone \in Zones
  BY DEF CronTypeOK
<1>1. ASSUME Goes(cand'), cand' \in Int PROVE CronTypeOK'
  BY <1>1 DEF Goes, CronTypeOK
<1>2. CASE SkipMonth
  <2>1. Goes(AddDays(StartOfMonth(cand), DaysPerMonth))
    BY <1>2 DEF SkipMonth
  <2>2. StartOfMonth(cand) \in Int
    <3>1. Day(cand) - Clock(cand).dom + 1 \in Int
      BY <1>0, ClockIsTyped
    <3> QED
      BY <1>0, <3>1, SpansAreInt, ClockIsTyped DEF StartOfMonth
  <2>3. AddDays(StartOfMonth(cand), DaysPerMonth) \in Int
    <3>1. DaysPerMonth * MinutesPerDay \in Int /\ Local(StartOfMonth(cand)) \in Int
      BY <1>0, <2>2, SpansAreInt, ClockIsTyped, SizesAre
    <3>2. Local(StartOfMonth(cand)) + DaysPerMonth * MinutesPerDay \in Int
      BY <3>1
    <3> QED
      BY <1>0, <3>2, ClockIsTyped DEF AddDays
  <2> QED
    BY <1>1, <2>1, <2>3 DEF Goes
<1>3. CASE SkipDay
  <2>1. Goes(AddDays(StartOfDay(cand), 1))
    BY <1>3 DEF SkipDay
  <2>2. StartOfDay(cand) \in Int
    BY <1>0, SpansAreInt, ClockIsTyped DEF StartOfDay
  <2>3. AddDays(StartOfDay(cand), 1) \in Int
    <3>1. 1 * MinutesPerDay \in Int /\ Local(StartOfDay(cand)) \in Int
      BY <1>0, <2>2, SpansAreInt, ClockIsTyped
    <3>2. Local(StartOfDay(cand)) + 1 * MinutesPerDay \in Int
      BY <3>1
    <3> QED
      BY <1>0, <3>2, ClockIsTyped DEF AddDays
  <2> QED
    BY <1>1, <2>1, <2>3 DEF Goes
<1>4. CASE SkipHour
  <2>1. Goes(NextHour(cand))
    BY <1>4 DEF SkipHour
  <2>2. Local(cand) - Clock(cand).minute \in Int
    BY <1>0, ClockIsTyped
  <2>3. StartOfHour(cand) \in Int
    BY <1>0, <2>2, ClockIsTyped DEF StartOfHour
  <2>4. NextHour(cand) \in Int
    BY <2>3, CronAssumption DEF NextHour
  <2> QED
    BY <1>1, <2>1, <2>4 DEF Goes
<1>5. CASE SkipMinute
  <2>1. Goes(cand + 1)
    BY <1>5 DEF SkipMinute
  <2> QED
    BY <1>0, <1>1, <2>1 DEF Goes
<1>6. CASE Finds \/ GivesUp \/ UNCHANGED cronVars
  BY <1>6 DEF Finds, GivesUp, cronVars, CronTypeOK
<1> QED
  BY <1>2, <1>3, <1>4, <1>5, <1>6 DEF CronNext
---------------------------------------------------------------------------

LEMMA PieceIsTyped ==
    ASSUME NEW S, NEW s \in Seq(S), NEW m \in Nat \ {0}, NEW n \in Nat, n <= Len(s)
    PROVE  SubSeq(s, m, n) \in Seq(S)
<1>1. CASE m <= n + 1
  BY <1>1, PartIs
<1>2. CASE ~(m <= n + 1)
  <2>1. SubSeq(s, m, n) = << >>
    <3>1. Len(s) \in Nat /\ DOMAIN s = 1..Len(s)
      BY SeqIs
    <3>2. 1..(n - m + 1) = {}
      BY <1>2
    <3>3. SubSeq(s, m, n) = [k \in 1..(n - m + 1) |-> s[m + k - 1]]
      BY <1>2
    <3> QED
      BY <3>2, <3>3
  <2> QED
    BY <2>1
<1> QED
  BY <1>1, <1>2

\* A line that is not empty begins with a line's number.
LEMMA LineIsTyped ==
    ASSUME NEW b \in Seq(0..MaxLines), NEW k \in EndsOf(b), LineTo(b, k) # << >>
    PROVE  Head(LineTo(b, k)) \in 1..MaxLines
<1> DEFINE before == {e \in EndsOf(b) : e < k}
           last == Max({0} \cup before)
           to == IF b[k] = 0 THEN k - 1 ELSE k
<1>0. /\ Len(b) \in Nat /\ DOMAIN b = 1..Len(b) /\ k \in 1..Len(b) /\ MaxLines \in Nat
      /\ \A j \in 1..Len(b) : b[j] \in 0..MaxLines
  BY SeqIs, TailAssumption DEF EndsOf
<1>1. last \in {0} \cup before /\ \A e \in before : e <= last
  <2>1. CASE before = {}
    <3>1. {0} \cup before = {0}
      BY <2>1
    <3>2. Max({0}) = 0
      <4>1. 0 \in {0} /\ (\A y \in {0} : 0 >= y) /\ \A x \in {0} : x = 0
        OBVIOUS
      <4> QED
        BY <4>1, Zenon DEF Max
    <3> QED
      BY <2>1, <3>1, <3>2
  <2>2. CASE before # {}
    <3>1. before \in SUBSET (1..Len(b))
      BY <1>0 DEF EndsOf
    <3>2. Max(before) \in before /\ \A e \in before : e <= Max(before)
      BY <1>0, <2>2, <3>1, LargestOf
    <3>3. \A e \in {0} \cup before : Max(before) >= e
      BY <1>0, <3>1, <3>2
    <3>4. last \in {0} \cup before /\ \A e \in {0} \cup before : last >= e
      BY <3>2, <3>3, Zenon DEF Max
    <3>5. last \in Nat /\ \A e \in before : e \in Nat
      BY <3>1, <3>4
    <3> QED
      BY <3>4, <3>5
  <2> QED
    BY <2>1, <2>2
<1>2. last \in Nat /\ last < k
  BY <1>0, <1>1 DEF EndsOf
<1>3. LineTo(b, k) = SubSeq(b, last + 1, to)
  BY DEF LineTo
<1> HIDE DEF last, to
<1>4. to \in Nat /\ to <= k /\ (b[k] = 0 => to = k - 1)
  BY <1>0 DEF to
<1>5. last + 1 <= to
  <2> SUFFICES ASSUME ~(last + 1 <= to) PROVE FALSE
    OBVIOUS
  <2>1. last + 1 \in Nat /\ to < last + 1
    BY <1>2, <1>4
  <2>2. SubSeq(b, last + 1, to) = << >>
    BY <1>0, <1>2, <1>4, <2>1
  <2> QED
    BY <1>3, <2>2
<1>6. Head(LineTo(b, k)) = b[last + 1] /\ last + 1 \in 1..Len(b)
  <2> DEFINE z == to - last
             s == SubSeq(b, last + 1, last + z)
  <2>1. z \in Nat /\ last + z <= Len(b) /\ last + z = to /\ 1 \in 1..z /\ last + 1 \in 1..Len(b)
    BY <1>0, <1>2, <1>4, <1>5
  <2> HIDE DEF z
  <2>2. s \in Seq(0..MaxLines) /\ Len(s) = z /\ \A i \in 1..z : s[i] = b[last + i]
    BY <1>2, <2>1, SpanOf
  <2> HIDE DEF s
  <2>3. s = LineTo(b, k)
    BY <1>3, <2>1 DEF s
  <2>4. Head(s) = s[1] /\ s[1] = b[last + 1]
    BY <2>1, <2>2, <2>3, TailIs
  <2> QED
    BY <2>1, <2>3, <2>4
<1>7. b[last + 1] # 0
  <2>1. CASE last + 1 = k
    BY <1>0, <1>2, <1>4, <1>5, <2>1
  <2>2. CASE last + 1 # k
    <3>1. last + 1 < k /\ last + 1 \in DOMAIN b /\ ~(last + 1 <= last)
      BY <1>0, <1>2, <1>6, <2>2
    <3>2. last + 1 \notin before
      BY <1>1, <3>1
    <3> QED
      BY <3>1, <3>2 DEF EndsOf
  <2> QED
    BY <2>1, <2>2
<1> QED
  BY <1>0, <1>6, <1>7

LEMMA ScannedIsTyped ==
    ASSUME NEW b \in Seq(0..MaxLines)
    PROVE  Entries(Scanned(b).lines) \in Seq(1..MaxLines) /\ Scanned(b).read \in Nat
<1> DEFINE ends == EndsOf(b)
           lines == Scanned(b).lines
           full == {k \in DOMAIN lines : lines[k] # << >>}
           got == Entries(lines)
<1>0. Len(b) \in Nat /\ DOMAIN b = 1..Len(b)
  BY SeqIs
<1>1. ends \in SUBSET (1..Len(b))
  BY <1>0 DEF EndsOf
<1>2. ends \in SUBSET Nat /\ IsFiniteSet(ends)
  <2>1. IsFiniteSet(1..Len(b))
    BY <1>0, UpToIs
  <2>2. IsFiniteSet(ends)
    BY <1>1, <2>1, FS_Subset
  <2> QED
    BY <1>1, <2>2
<1>3. Cardinality(ends) \in Nat /\ \A m \in 1..Cardinality(ends) : Nth(ends, m) \in ends
  BY <1>2, RanksAre, FS_CardinalityType DEF Nth
<1>4. lines = [m \in 1..Cardinality(ends) |-> LineTo(b, Nth(ends, m))]
  BY ScannedIs
<1> HIDE DEF ends, lines
<1>5. full \in SUBSET (1..Cardinality(ends))
  BY <1>4
<1>6. full \in SUBSET Nat /\ IsFiniteSet(full)
  <2>1. IsFiniteSet(1..Cardinality(ends))
    BY <1>3, UpToIs
  <2>2. IsFiniteSet(full)
    BY <1>5, <2>1, FS_Subset
  <2> QED
    BY <1>5, <2>2
<1>7. got = [m \in 1..Cardinality(full) |-> Head(lines[Nth(full, m)])]
  BY DEF Entries
<1>8. ASSUME NEW k \in full PROVE Head(lines[k]) \in 1..MaxLines
  <2>1. k \in 1..Cardinality(ends) /\ lines[k] = LineTo(b, Nth(ends, k)) /\ lines[k] # << >>
    BY <1>4, <1>5
  <2>2. Nth(ends, k) \in EndsOf(b)
    BY <1>3, <2>1 DEF ends
  <2> QED
    BY <2>1, <2>2, LineIsTyped
<1> HIDE DEF full
<1>9. Cardinality(full) \in Nat /\ \A m \in 1..Cardinality(full) : Nth(full, m) \in full
  BY <1>6, RanksAre, FS_CardinalityType DEF Nth
<1> HIDE DEF got
<1>10. got \in Seq(1..MaxLines)
  <2>1. \A m \in 1..Cardinality(full) : got[m] \in 1..MaxLines
    BY <1>7, <1>8, <1>9
  <2>2. got = [m \in 1..Cardinality(full) |-> got[m]]
    BY <1>7
  <2> QED
    BY <1>9, <2>1, <2>2, EntriesMake
<1>11. Scanned(b).read \in Nat
  <2>1. Scanned(b).read = Len(b) + (IF b # << >> /\ Last(b) # 0 THEN 1 ELSE 0)
    BY ScannedIs
  <2>2. \A x \in Nat : x + (IF b # << >> /\ Last(b) # 0 THEN 1 ELSE 0) \in Nat
    OBVIOUS
  <2> QED
    BY <1>0, <2>1, <2>2
<1> QED
  BY <1>10, <1>11 DEF got, lines

\* What a file holds is bytes, whatever is left of it.
LEMMA ContentTyped ==
    ASSUME TailTypeOK, NEW d \in DOMAIN logs
    PROVE  Content(d) \in Seq(0..MaxLines) /\ Len(Content(d)) \in Nat
<1>1. logs[d] \in Seq(0..MaxLines) /\ Len(logs[d]) \in Nat
  BY SeqIs DEF TailTypeOK
<1>2. SubSeq(Stream, written + 1, written + half) \in Seq(0..MaxLines)
  <2>1. written \in Nat /\ half \in Nat /\ written + half <= Len(Stream)
    BY WidthIs DEF TailTypeOK
  <2> QED
    BY <2>1, StreamPart
<1>3. Content(d) \in Seq(0..MaxLines)
  BY <1>1, <1>2, JoinIs DEF Content
<1> QED
  BY <1>3, SeqIs

LEMMA ReadBytes ==
    ASSUME TailTypeOK, NEW d, NEW at \in Nat
    PROVE  BytesOf(d, at) \in Seq(0..MaxLines)
<1>1. CASE d \notin DOMAIN logs
  BY <1>1 DEF BytesOf
<1>2. CASE d \in DOMAIN logs
  <2> DEFINE s == Content(d)
             n == Len(s)
             most == at + MaxRead
             upto == Min({n, most})
  <2>1. s \in Seq(0..MaxLines) /\ n \in Nat /\ most \in Nat /\ at + 1 \in Nat \ {0}
    BY <1>2, ContentTyped, TailAssumption
  <2>2. upto \in Nat /\ upto <= n
    <3> HIDE DEF n, most
    <3>1. n \in Nat /\ most \in Nat
      BY <2>1
    <3> QED
      BY <3>1, SmallerOf
  <2>3. BytesOf(d, at) = SubSeq(s, at + 1, upto)
    BY <1>2 DEF BytesOf
  <2> HIDE DEF s, upto, most
  <2> QED
    BY <2>1, <2>2, <2>3, PieceIsTyped
<1> QED
  BY <1>1, <1>2

\* Some marks, of days, with places in files.
IsMarks(f) == DOMAIN f \subseteq Days /\ \A d \in DOMAIN f : f[d] \in Nat

LEMMA MarksAre ==
    ASSUME TailTypeOK, NEW d \in Days, NEW n \in Nat
    PROVE  /\ IsMarks(offsets) /\ IsMarks(WithOffset(d, n))
           /\ \A f : IsMarks(f) => IsMarks(Pruned(f, d))
<1>1. IsMarks(offsets)
  BY DEF TailTypeOK, IsMarks
<1>2. IsMarks(WithOffset(d, n))
  BY <1>1 DEF IsMarks, WithOffset
<1>3. \A f : IsMarks(f) => IsMarks(Pruned(f, d))
  BY DEF IsMarks, Pruned
<1> QED
  BY <1>1, <1>2, <1>3

LEMMA TailTypedInitially == TailInit => TailTypeOK
<1> SUFFICES ASSUME TailInit PROVE TailTypeOK
  OBVIOUS
<1>1. Stream \in Seq(0..MaxLines) /\ Len(Stream) = Width * MaxLines /\ Width <= Width * MaxLines
  <2>1. MaxLines \in Int /\ 1 <= MaxLines
    BY WidthIs
  <2>2. Width * 1 <= Width * MaxLines /\ Width * 1 = Width
    BY <2>1, LinesApart, WidthIs
  <2> QED
    BY <2>2, StreamBytes
<1>2. Width \in Nat /\ LineSize + 1 = Width
  BY WidthIs DEF Width
<1>3. SubSeq(Stream, 1, Width) \in Seq(0..MaxLines)
  <2> DEFINE n == Width
  <2>1. n \in Nat /\ n <= Len(Stream) /\ 1 \in Nat \ {0}
    BY <1>1, <1>2
  <2> HIDE DEF n
  <2>2. SubSeq(Stream, 1, n) \in Seq(0..MaxLines)
    BY <1>1, <2>1, PieceIsTyped
  <2> QED
    BY <2>2 DEF n
<1>4. DOMAIN logs \subseteq Days /\ \A d \in DOMAIN logs : logs[d] \in Seq(0..MaxLines)
  <2>1. CASE logs = << >>
    BY <2>1
  <2>2. CASE logs = [d \in {1} |-> SubSeq(Stream, 1, Width)]
    BY <1>3, <2>2, TailAssumption
  <2> QED
    BY <1>2, <2>1, <2>2 DEF TailInit
<1>5. written \in Nat /\ half \in 0..LineSize /\ written + half <= Len(Stream)
  <2>1. /\ Len(Stream) \in Nat /\ Width <= Len(Stream) /\ (written = 0 \/ written = Width)
        /\ half = 0 /\ 0 \in 0..LineSize
    BY <1>1, <1>2, SeqIs, WidthIs DEF TailInit
  <2> QED
    BY <1>2, <2>1
<1>6. DOMAIN offsets \subseteq Days /\ (\A d \in DOMAIN offsets : offsets[d] \in Nat) /\ heard \in Seq(1..MaxLines)
  BY DEF TailInit
<1>7. cuts \in 0..MaxCuts
  BY TailAssumption DEF TailInit
<1> QED
  BY <1>4, <1>5, <1>6, <1>7 DEF TailInit, TailTypeOK

LEMMA GameWritesTyped == TailTypeOK /\ GameWrites => TailTypeOK'
<1> SUFFICES ASSUME TailTypeOK, GameWrites PROVE TailTypeOK'
  OBVIOUS
<1>1. PICK d : d = Newest
  OBVIOUS
<1>2. PICK n \in Nat :
        /\ written + half + n <= Len(Stream)
        /\ logs' = [logs EXCEPT ![d] = @ \o BytesEnded(n)]
        /\ written' = EndedAt(written, half, n)
        /\ half' = (written + half + n) - EndedAt(written, half, n)
        /\ owed' = owed \cup (IF d \in DOMAIN offsets THEN LinesIn(BytesEnded(n)) ELSE {})
        /\ astray' = (astray \/ GrowsBack(d, Len(logs[d]) + Len(BytesEnded(n))))
  BY <1>1, GameWritesIs
<1> DEFINE bytes == BytesEnded(n)
           x == EndedAt(written, half, n)
<1>3. /\ written \in Nat /\ half \in 0..LineSize /\ half \in Nat
      /\ Len(Stream) \in Nat /\ Stream \in Seq(0..MaxLines)
  BY StreamBytes, SeqIs, WidthIs DEF TailTypeOK
<1>4. /\ x \in Nat /\ written <= x /\ x <= written + half + n
      /\ (written + half + n) - x \in 0..LineSize
  BY <1>3, EndedIs
<1> HIDE DEF x
<1>5. bytes \in Seq(0..MaxLines)
  <2> DEFINE y == x - written
  <2>1. y \in Nat /\ written + y = x /\ written + y <= Len(Stream)
    BY <1>2, <1>3, <1>4
  <2> HIDE DEF y
  <2>2. SubSeq(Stream, written + 1, written + y) \in Seq(0..MaxLines)
    BY <1>3, <2>1, StreamPart
  <2> QED
    BY <2>1, <2>2 DEF BytesEnded, x
<1>6. /\ logs' = [logs EXCEPT ![d] = @ \o bytes]
      /\ written' = x /\ half' = (written + half + n) - x
      /\ owed' = owed \cup (IF d \in DOMAIN offsets THEN LinesIn(bytes) ELSE {})
  BY <1>2 DEF x
<1>7. astray' \in BOOLEAN
  BY <1>2 DEF TailTypeOK
<1> HIDE DEF bytes
<1>8. LinesIn(bytes) \subseteq 1..MaxLines
  <2>1. \A k \in DOMAIN bytes : bytes[k] \in 0..MaxLines
    BY <1>5, SeqIs
  <2> QED
    BY <2>1, TailAssumption DEF LinesIn, ToSet
<1>9. \A e \in DOMAIN logs' : logs'[e] \in Seq(0..MaxLines)
  <2>1. \A e \in DOMAIN logs : logs[e] \in Seq(0..MaxLines) /\ logs[e] \o bytes \in Seq(0..MaxLines)
    BY <1>5, JoinIs DEF TailTypeOK
  <2> QED
    BY <1>6, <2>1
<1>10. written' \in Nat /\ half' \in 0..LineSize /\ written' + half' <= Len(Stream)
  BY <1>2, <1>3, <1>4, <1>6
<1>11. owed' \subseteq 1..MaxLines /\ DOMAIN logs' \subseteq Days
  BY <1>6, <1>8 DEF TailTypeOK
<1>12. caughtUp' = FALSE /\ UNCHANGED <<cuts, offsets, warmed, reading, heard>>
  BY DEF GameWrites
<1> QED
  BY <1>7, <1>9, <1>10, <1>11, <1>12 DEF TailTypeOK, Stream

LEMMA BreaksTyped ==
    ASSUME TailTypeOK, BreaksOff \/ UNCHANGED <<written, half, astray>>
    PROVE  /\ written' \in Nat /\ half' \in 0..LineSize /\ written' + half' <= Len(Stream)
           /\ astray' \in BOOLEAN
<1>1. written \in Nat /\ half \in 0..LineSize /\ half \in Nat /\ 0 \in 0..LineSize
      /\ written + half <= Len(Stream) /\ astray \in BOOLEAN
  BY WidthIs DEF TailTypeOK
<1>2. CASE BreaksOff
  <2> DEFINE n == Len(Stream)
             m == written + half
  <2>1. m \in Nat /\ m <= n /\ written' = m /\ half' = 0
    BY <1>1, <1>2 DEF BreaksOff
  <2>2. astray' \in BOOLEAN
    BY <1>1, <1>2 DEF BreaksOff
  <2>3. half' \in 0..LineSize
    BY <1>1, <2>1
  <2> HIDE DEF m, n
  <2>4. written' \in Nat /\ written' + half' <= n
    BY <2>1
  <2> QED
    BY <2>2, <2>3, <2>4 DEF n
<1>3. CASE UNCHANGED <<written, half, astray>>
  BY <1>1, <1>3
<1> QED
  BY <1>2, <1>3

LEMMA LogsGoTyped ==
    ASSUME TailTypeOK, DayBegins \/ \E d \in Days : FileIsCut(d) \/ FileGoes(d)
    PROVE  TailTypeOK'
<1>1. owed' \subseteq owed /\ caughtUp' = FALSE /\ UNCHANGED <<offsets, warmed, reading, heard>>
  BY DEF DayBegins, FileIsCut, FileGoes, Forgiven
<1>2. cuts' \in 0..MaxCuts
  <2>1. cuts' = cuts \/ (cuts < MaxCuts /\ cuts' = cuts + 1)
    BY DEF DayBegins, FileIsCut, FileGoes
  <2>2. cuts \in 0..MaxCuts /\ MaxCuts \in Nat
    BY TailAssumption DEF TailTypeOK
  <2> QED
    BY <2>1, <2>2
<1>3. DOMAIN logs' \subseteq Days /\ \A e \in DOMAIN logs' : logs'[e] \in Seq(0..MaxLines)
  <2>1. << >> \in Seq(0..MaxLines)
    OBVIOUS
  <2>2. CASE DayBegins
    <3>1. PICK d \in Days :
            logs' = [e \in DOMAIN logs \cup {d} |-> IF e = d THEN << >> ELSE Content(e)]
      BY <2>2 DEF DayBegins
    <3>2. \A e \in DOMAIN logs : Content(e) \in Seq(0..MaxLines)
      BY ContentTyped
    <3>3. DOMAIN logs \subseteq Days
      BY DEF TailTypeOK
    <3> QED
      BY <2>1, <3>1, <3>2, <3>3
  <2>3. ASSUME NEW d \in Days, FileIsCut(d) PROVE DOMAIN logs' \subseteq Days /\ \A e \in DOMAIN logs' : logs'[e] \in Seq(0..MaxLines)
    BY <2>1, <2>3 DEF FileIsCut, TailTypeOK
  <2>4. ASSUME NEW d \in Days, FileGoes(d) PROVE DOMAIN logs' \subseteq Days /\ \A e \in DOMAIN logs' : logs'[e] \in Seq(0..MaxLines)
    BY <2>4 DEF FileGoes, TailTypeOK
  <2> QED
    BY <2>2, <2>3, <2>4
<1>4. BreaksOff \/ UNCHANGED <<written, half, astray>>
  BY DEF DayBegins, FileIsCut, FileGoes
<1>5. /\ written' \in Nat /\ half' \in 0..LineSize /\ written' + half' <= Len(Stream)
      /\ astray' \in BOOLEAN
  BY <1>4, BreaksTyped
<1> QED
  BY <1>1, <1>2, <1>3, <1>5 DEF TailTypeOK, Stream

LEMMA PollLooksTyped == TailTypeOK /\ PollLooks => TailTypeOK'
<1> SUFFICES ASSUME TailTypeOK, PollLooks PROVE TailTypeOK'
  OBVIOUS
<1>0. /\ warmed' = TRUE /\ UNCHANGED <<logs, written, half, cuts, heard, owed>> /\ IsMarks(offsets)
      /\ astray' \in BOOLEAN
  BY DEF PollLooks, TailTypeOK, IsMarks
<1>1. CASE DOMAIN logs = {}
  BY <1>0, <1>1 DEF PollLooks, TailTypeOK, Stream
<1>2. CASE DOMAIN logs # {}
  <2>1. PICK d : d = Newest
    OBVIOUS
  <2>2. d \in DOMAIN logs /\ d \in Days
    BY <1>2, <2>1, NewestIs, LargestIs DEF TailTypeOK
  <2>3. Len(Content(d)) \in Nat
    BY <2>2, ContentTyped
  <2>4. StartsAt(d, Len(Content(d))) \in Nat
    BY <2>3 DEF StartsAt, TailTypeOK
  <2>5. CASE StartsAt(d, Len(Content(d))) = Len(Content(d))
    <3>1. /\ caughtUp' = TRUE /\ UNCHANGED reading
          /\ offsets' = Pruned(IF d \in DOMAIN offsets THEN offsets ELSE WithOffset(d, Len(Content(d))), d)
      BY <1>2, <2>1, <2>5 DEF PollLooks
    <3>2. IsMarks(offsets')
      BY <2>2, <2>3, <3>1, MarksAre
    <3> QED
      BY <1>0, <3>1, <3>2 DEF TailTypeOK, IsMarks, Stream
  <2>6. CASE StartsAt(d, Len(Content(d))) # Len(Content(d))
    <3>1. /\ caughtUp' = FALSE /\ UNCHANGED offsets
          /\ reading' = [day |-> d, at |-> StartsAt(d, Len(Content(d)))]
      BY <1>2, <2>1, <2>6 DEF PollLooks
    <3>2. reading' \in [day : Days, at : Nat]
      BY <2>2, <2>4, <3>1
    <3> QED
      BY <1>0, <3>1, <3>2 DEF TailTypeOK, Stream
  <2> QED
    BY <2>5, <2>6
<1> QED
  BY <1>1, <1>2

LEMMA PollReadsTyped == TailTypeOK /\ PollReads => TailTypeOK'
<1> SUFFICES ASSUME TailTypeOK, PollReads PROVE TailTypeOK'
  OBVIOUS
<1>1. reading \in [day : Days, at : Nat]
  BY DEF TailTypeOK, PollReads
<1>2. PICK d, at : d = reading.day /\ at = reading.at /\ d \in Days /\ at \in Nat
  BY <1>1
<1> DEFINE b == BytesOf(d, at)
           read == Scanned(b).read
           entries == Entries(Scanned(b).lines)
<1>3. /\ offsets' = Pruned(WithOffset(d, at + read), d)
      /\ heard' = IF astray THEN heard ELSE heard \o Kept(entries)
      /\ caughtUp' = (d \in DOMAIN logs /\ d = Newest /\ at + Len(b) = Len(Content(d)))
      /\ astray' = (astray \/ (b # << >> /\ Last(b) # 0))
      /\ owed' = owed \ (ToSet(entries) \ ToSet(Kept(entries)))
      /\ reading' = None /\ UNCHANGED <<logs, written, half, cuts, warmed>>
  BY <1>2, PollReadsIs
<1>4. b \in Seq(0..MaxLines)
  BY <1>2, ReadBytes
<1> HIDE DEF b
<1>5. entries \in Seq(1..MaxLines) /\ read \in Nat
  BY <1>4, ScannedIsTyped
<1> HIDE DEF entries, read
<1>6. heard' \in Seq(1..MaxLines)
  <2>1. Kept(entries) \in Seq(1..MaxLines) /\ heard \in Seq(1..MaxLines)
    BY <1>5, KeptIs DEF TailTypeOK
  <2> QED
    BY <1>3, <2>1, JoinIs
<1>7. IsMarks(offsets')
  <2>1. at + read \in Nat
    BY <1>2, <1>5
  <2> QED
    BY <1>2, <1>3, <2>1, MarksAre
<1>8. caughtUp' \in BOOLEAN /\ astray' \in BOOLEAN
  BY <1>3 DEF TailTypeOK
<1> QED
  BY <1>3, <1>6, <1>7, <1>8 DEF TailTypeOK, IsMarks, Stream

LEMMA TailTypedStays == TailTypeOK /\ [TailNext]_tailVars => TailTypeOK'
<1>1. TailTypeOK /\ UNCHANGED tailVars => TailTypeOK'
  BY DEF tailVars, TailTypeOK, Stream
<1> QED
  BY <1>1, GameWritesTyped, LogsGoTyped, PollLooksTyped, PollReadsTyped DEF TailNext

\* Every package keeps its types: Next's candidate stays an instant whatever
\* the zone, no in-degree falls below zero, and the scanner hands on lines that
\* were written, whatever is left of them.  For any number of commands, mods,
\* days and lines, any expression and any zones.
THEOREM PackagesStayTyped == PackagesSpec => []PackagesTypeOK
<1> DEFINE Inv == /\ topic = "rcon" => RconInv
                  /\ topic = "cron" => CronTypeOK
                  /\ topic = "logs" => TailTypeOK
                  /\ topic = "order" => OrderInv /\ OrderTyped
<1>1. PackagesInit => Inv
  BY RconInitially, CronTypedInitially, TailTypedInitially, OrderInitially,
     OrderTypedInitially DEF PackagesInit
<1>2. Inv /\ [PackagesNext]_packagesVars => Inv'
  <2> SUFFICES ASSUME Inv, [PackagesNext]_packagesVars PROVE Inv'
    OBVIOUS
  <2>1. topic' = topic
    BY DEF PackagesNext, packagesVars
  <2>2. /\ topic = "rcon" => [Next]_vars
        /\ topic = "cron" => [CronNext]_cronVars
        /\ topic = "logs" => [TailNext]_tailVars
        /\ topic = "order" => [OrderNext]_orderVars
    BY DEF PackagesNext, packagesVars
  <2> QED
    BY <2>1, <2>2, RconStays, CronTypedStays, TailTypedStays, OrderStays, OrderTypedStays
<1>3. Inv => PackagesTypeOK
  BY RconHolds, OrderIsTyped DEF PackagesTypeOK
<1> QED
  BY <1>1, <1>2, <1>3, PTL DEF PackagesSpec
=============================================================================
