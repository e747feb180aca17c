----------------------------- MODULE RconClient -----------------------------
(***************************************************************************)
(* internal/rcon: the pooled client of one game server.  Commands are      *)
(* serialised by Client.mu; each is sent with a sentinel whose echo ends   *)
(* the reply, a command that fails is sent once more on a new connection,  *)
(* and the connection is kept for the next command.                        *)
(*                                                                         *)
(* The game's side is external: it may answer late, in several packets,    *)
(* not at all, without ever coming to an end, ignore sentinels, refuse the *)
(* password or hang up.  A packet in a queue may still be on its way, so a *)
(* read may time out although something is queued.                         *)
(***************************************************************************)
EXTENDS Naturals, Sequences

CONSTANTS MaxCalls,     \* bound: commands issued through the client
          MaxParts      \* bound: packets of a reply that ends

ASSUME RconAssumption == MaxCalls \in Nat \ {0} /\ MaxParts \in Nat \ {0}

Calls == 1..MaxCalls
Attempts == 1..2 * MaxCalls         \* also numbers the connections dialled
MaxTries == 2

VARIABLES
    echoes,     \* the server echoes sentinels
    conn,       \* Client.conn, 0 is nil
    dialled,    \* connections dialled so far
    step,       \* where Exec is
    call,       \* the command Exec works on
    try,        \* first or second execLocked
    id,         \* its packet id; the sentinel's goes with it
    fresh,      \* history: this execLocked dialled the connection it uses
    body,       \* the chunks read so far
    answer,     \* what the last Exec returned
    out,        \* packets on their way to the server, by connection
    in,         \* packets on their way back, on the connection in use
    hung,       \* connections the server has closed
    streams,    \* connections on which the server sends without end
    ran         \* history: how often the server has run each command

client == <<conn, dialled, step, call, try, id, fresh, body, answer>>
server == <<echoes, out, in, hung, streams, ran>>
vars == <<echoes, conn, dialled, step, call, try, id, fresh, body, answer,
          out, in, hung, streams, ran>>

\* Packets: an exec or a sentinel one way, parts of a reply, echoes and the
\* id -1 of a denied command the other way.
Sent == [kind : {"exec", "sentinel"}, id : Attempts, call : Calls]
Part == [kind : {"part"}, id : Attempts, k : 1..MaxParts, of : 1..MaxParts]
Other == [kind : {"echo", "denied"}, id : Attempts]
Replies == Part \cup Other

Results == {"none", "ok", "error", "auth"}
NoAnswer == [result |-> "none", body |-> << >>, echoed |-> FALSE,
             id |-> 0, fresh |-> FALSE]

TypeOK ==
    /\ echoes \in BOOLEAN
    /\ conn \in Attempts \cup {0}
    /\ dialled \in Attempts \cup {0}
    /\ step \in {"idle", "connect", "send", "read"}
    /\ call \in Calls \cup {0}
    /\ try \in 1..MaxTries
    /\ id \in Attempts \cup {0}
    /\ fresh \in BOOLEAN
    /\ body \in Seq(Replies)
    /\ answer \in [result : Results, body : Seq(Replies), echoed : BOOLEAN,
                   id : Attempts \cup {0}, fresh : BOOLEAN]
    /\ out \in [Attempts -> Seq(Sent)]
    /\ in \in Seq(Replies)
    /\ hung \subseteq Attempts
    /\ streams \subseteq Attempts
    /\ ran \in [Calls -> 0..MaxTries]

Init ==
    /\ echoes \in BOOLEAN
    /\ conn = 0
    /\ dialled = 0
    /\ step = "idle"
    /\ call = 0
    /\ try = 1
    /\ id = 0
    /\ fresh = FALSE
    /\ body = << >>
    /\ answer = NoAnswer
    /\ out = [c \in Attempts |-> << >>]
    /\ in = << >>
    /\ hung = {}
    /\ streams = {}
    /\ ran = [n \in Calls |-> 0]

(***************************************************************************)
(* The client                                                              *)
(***************************************************************************)

\* Somebody calls Exec.
ExecBegins ==
    /\ step = "idle" /\ call < MaxCalls
    /\ call' = call + 1
    /\ try' = 1
    /\ step' = "connect"
    /\ answer' = NoAnswer
    /\ UNCHANGED <<conn, dialled, id, fresh, body, server>>

Returns(result, echoed) ==
    /\ step' = "idle"
    /\ answer' = [result |-> result, echoed |-> echoed, id |-> id,
                  body |-> IF result = "ok" THEN body ELSE << >>,
                  fresh |-> fresh]
    /\ body' = << >>
    /\ UNCHANGED <<dialled, call, try, id, fresh, server>>

\* dropLocked: what was on its way back is never read.
Drop == conn' = 0 /\ in' = << >> /\ UNCHANGED <<echoes, out, hung, streams, ran>>

\* Mutant: the connection that failed is kept for the retry.
ErrorKeeps ==
    IF try < MaxTries
    THEN /\ try' = try + 1
         /\ step' = "connect"
         /\ body' = << >>
         /\ UNCHANGED <<conn, dialled, call, id, fresh, answer, server>>
    ELSE Returns("error", FALSE) /\ UNCHANGED conn

\* Mutant: one retry too many.
ErrorRetriesTwice ==
    IF try <= MaxTries
    THEN /\ try' = try + 1
         /\ step' = "connect"
         /\ Drop
         /\ body' = << >>
         /\ UNCHANGED <<dialled, call, id, fresh, answer>>
    ELSE Returns("error", FALSE) /\ UNCHANGED conn

\* execLocked returned an error: the connection is dropped and the command
\* sent again, the first time.
Error ==
    IF try < MaxTries
    THEN /\ try' = try + 1
         /\ step' = "connect"
         /\ Drop
         /\ body' = << >>
         /\ UNCHANGED <<dialled, call, id, fresh, answer>>
    ELSE Returns("error", FALSE) /\ UNCHANGED conn

\* ErrAuthFailed is not retried.
AuthError == Returns("auth", FALSE) /\ UNCHANGED conn

\* connectLocked: the pooled connection, or a new one.
Connect ==
    /\ step = "connect"
    /\ \/ /\ conn # 0
          /\ step' = "send"
          /\ fresh' = FALSE
          /\ UNCHANGED <<conn, dialled, call, try, id, body, answer, server>>
       \/ /\ conn = 0
          /\ dialled' = dialled + 1
          /\ conn' = dialled'
          /\ step' = "send"
          /\ fresh' = TRUE
          /\ UNCHANGED <<call, try, id, body, answer, server>>
       \/ conn = 0 /\ Error             \* no connection, or no answer
       \/ conn = 0 /\ AuthError         \* id -1, or hung up

Exec(i) == [kind |-> "exec", id |-> i, call |-> call]
Sentinel(i) == [kind |-> "sentinel", id |-> i, call |-> call]

\* Mutant: the sentinel is written first.
SendsSwapped ==
    /\ step = "send" /\ conn \notin hung
    /\ id' = id + 1
    /\ step' = "read"
    /\ out' = [out EXCEPT ![conn] = @ \o <<Sentinel(id'), Exec(id')>>]
    /\ UNCHANGED <<conn, dialled, call, try, fresh, body, answer, echoes, in,
                   hung, streams, ran>>

\* execLocked writes the command and the sentinel behind it.
Send ==
    /\ step = "send"
    /\ \/ /\ id' = id + 1
          /\ step' = "read"
          /\ out' = IF conn \in hung THEN out      \* lost, nobody can tell
                    ELSE [out EXCEPT ![conn] = @ \o <<Exec(id'), Sentinel(id')>>]
          /\ UNCHANGED <<conn, dialled, call, try, fresh, body, answer, echoes,
                         in, hung, streams, ran>>
       \/ conn \in hung /\ Error

\* execLocked reads a packet.  Whatever is neither the sentinel nor id -1 is
\* taken for a chunk of the reply.
Read ==
    /\ step = "read"
    /\ in # << >>
    /\ in' = Tail(in)
    /\ LET p == Head(in) IN
       CASE p.kind = "echo" /\ p.id = id ->
              /\ step' = "idle"
              /\ answer' = [result |-> "ok", body |-> body, echoed |-> TRUE,
                            id |-> id, fresh |-> fresh]
              /\ body' = << >>
              /\ UNCHANGED <<conn, dialled, call, try, id, fresh>>
         [] p.kind = "denied" ->
              /\ step' = "idle"
              /\ answer' = [result |-> "auth", body |-> << >>, echoed |-> FALSE,
                            id |-> id, fresh |-> fresh]
              /\ body' = << >>
              /\ UNCHANGED <<conn, dialled, call, try, id, fresh>>
         [] OTHER ->
              /\ body' = Append(body, p)
              /\ UNCHANGED <<conn, dialled, step, call, try, id, fresh, answer>>
    /\ UNCHANGED <<echoes, out, hung, streams, ran>>

\* Mutant: a reply begun is waited for until the sentinel comes.
WaitsForSentinel ==
    /\ step = "read" /\ body = << >> /\ conn \notin streams \ hung
    /\ Error

\* The server has more chunks before any deadline passes.
KeepsSending(c) == c \in streams \ hung

\* The deadline passes: DrainTimeout behind a chunk, ReadTimeout before one.
\* Each chunk renews it, so chunks without end hold the loop; the first ones
\* are read by Read, the rest change nothing.
TimesOut ==
    /\ step = "read" /\ ~KeepsSending(conn)
    /\ IF body # << >> THEN Returns("ok", FALSE) /\ UNCHANGED conn ELSE Error

\* The server has hung up: EOF beats nothing in hand, a reset beats all.
ReadsEOF ==
    /\ step = "read"
    /\ conn \in hung /\ in = << >>
    /\ \/ IF body # << >> THEN Returns("ok", FALSE) /\ UNCHANGED conn ELSE Error
       \/ Error

\* Client.Close, by dropRCON or rconFor: it waits for the mutex.
Close ==
    /\ step = "idle" /\ conn # 0
    /\ Drop
    /\ UNCHANGED <<dialled, step, call, try, id, fresh, body, answer>>

(***************************************************************************)
(* The game's RCON listener                                                *)
(***************************************************************************)

\* An empty reply is one packet too.
Reply(i, n) == [k \in 1..n |-> [kind |-> "part", id |-> i, k |-> k, of |-> n]]

\* A packet is taken up, on any connection: also on one the client has left,
\* and not behind a reply that does not end.
Serve(c) ==
    /\ c \notin hung \cup streams /\ out[c] # << >>
    /\ out' = [out EXCEPT ![c] = Tail(@)]
    /\ LET p == Head(out[c])
           Answered(packets) == in' = IF c = conn THEN in \o packets ELSE in IN
       \/ /\ p.kind = "exec"
          /\ \E n \in 1..MaxParts : Answered(Reply(p.id, n))
          /\ streams' \in {streams, streams \cup {c}}
          /\ ran' = [ran EXCEPT ![p.call] = @ + 1]
       \/ /\ p.kind = "exec"
          /\ Answered(<<[kind |-> "denied", id |-> p.id]>>)
          /\ UNCHANGED <<streams, ran>>
       \/ /\ p.kind = "sentinel"
          /\ Answered(IF echoes THEN <<[kind |-> "echo", id |-> p.id]>> ELSE << >>)
          /\ UNCHANGED <<streams, ran>>
    /\ UNCHANGED <<client, echoes, hung>>

HangUp(c) ==
    /\ c <= dialled /\ c \notin hung
    /\ hung' = hung \cup {c}
    /\ out' = [out EXCEPT ![c] = << >>]
    /\ UNCHANGED <<client, echoes, in, streams, ran>>

ClientStep == Connect \/ Send \/ Read \/ TimesOut \/ ReadsEOF

Next ==
    \/ ExecBegins \/ ClientStep \/ Close
    \/ \E c \in Attempts : Serve(c) \/ HangUp(c)

\* Exec runs, and a deadline set on a connection passes unless a chunk came
\* before it.  The server owes nothing.
Spec == Init /\ [][Next]_vars /\ WF_vars(ClientStep)

(***************************************************************************)
(* Properties                                                              *)
(***************************************************************************)

OwnPart(p, i) == p.kind = "part" /\ p.id = i

\* The last chunks of b are a whole reply to attempt i, in order.
EndsWithReply(b, i) ==
    \E n \in 1..MaxParts :
        /\ n <= Len(b)
        /\ SubSeq(b, Len(b) - n + 1, Len(b)) = Reply(i, n)

\* "Seeing it echoed tells us the multi-packet reply is complete": an answer
\* ended by the echo holds every packet of the reply to this command in order,
\* whatever an earlier command left on the connection.
EchoMeansComplete ==
    answer.result = "ok" /\ answer.echoed => EndsWithReply(answer.body, answer.id)

\* A connection dialled for the command, as the retry's always is, brings no
\* packet of another command or of the first attempt.
FreshAnswerIsOwn ==
    answer.result = "ok" /\ (answer.fresh \/ try = MaxTries) =>
        \A m \in DOMAIN answer.body : OwnPart(answer.body[m], answer.id)

\* The retry sends again what may have been run already, and commands left in
\* the queues of dropped connections are run later: still never more than
\* twice, and never before Exec was called.
RunsAtMostTwice ==
    \A n \in Calls : ran[n] <= (IF n < call THEN MaxTries
                                ELSE IF n = call THEN try ELSE 0)

\* Exec returns and Client.mu is free again, unless from some time on the
\* server keeps sending chunks: only those, and no silence, delay, refusal or
\* hanging up, hold the loop (rcon.go:158-163 renews the deadline at each).
ExecReturns ==
    \/ step # "idle" ~> step = "idle"
    \/ <>[](step = "read" /\ body # << >> /\ KeepsSending(conn))
=============================================================================
