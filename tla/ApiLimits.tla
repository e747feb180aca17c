------------------------------- MODULE ApiLimits -------------------------------
(***************************************************************************)
(* What limits the external API (internal/server/apiv1.go): the token       *)
(* bucket of each key and server, one lifecycle call at a time per server,  *)
(* and the streams a key may hold open.                                     *)
(*                                                                          *)
(* Tokens are counted in parts: one part refills per tick, a request spends *)
(* Refill of them.                                                          *)
(***************************************************************************)
EXTENDS Naturals, Sequences, FiniteSets

CONSTANTS
    ApiKeys, ApiServers,
    Requests,       \* lifecycle calls under way
    Streams,        \* stream requests
    Burst,          \* rateLifecycle.Burst
    Refill,         \* ticks until a token has refilled
    Idle,           \* ticks after which a full map forgets a bucket
    MaxApiStreams,  \* maxAPIStreams
    LastApiTick,    \* bound
    MaxCallsMade,   \* bound: lifecycle calls
    MaxOpened       \* bound: stream requests

ASSUME ApiAssumption ==
    /\ Burst \in Nat \ {0} /\ Refill \in Nat \ {0} /\ MaxApiStreams \in Nat \ {0}
    /\ Idle \in Nat /\ Idle >= Burst * Refill /\ LastApiTick \in Nat

VARIABLES
    apiTick,
    buckets,    \* rateLimiter.buckets
    spent,      \* history: the ticks of the calls each bucket let through
    calls,      \* lifecycle calls: pc, key, server
    inflight,   \* apiInflight
    counter,    \* apiStreams: the count of each key
    streams,    \* stream requests: pc, key
    live,       \* keys that are not revoked
    closing,    \* streamsDone
    made, opened

apiVars == <<apiTick, buckets, spent, calls, inflight, counter, streams, live, closing, made, opened>>

Buckets == ApiKeys \X ApiServers
NoBucket == [tokens |-> 0, last |-> 0, there |-> FALSE]
NoCall == [pc |-> "idle", key |-> CHOOSE k \in ApiKeys : TRUE, server |-> CHOOSE s \in ApiServers : TRUE]
NoStream == [pc |-> "idle", key |-> CHOOSE k \in ApiKeys : TRUE]
Smaller(a, b) == IF a < b THEN a ELSE b

----------------------------------------------------------------------------
(* take *)

\* Mutant: a refusal keeps the time of the last refill.
RefilledSlowly(b) ==
    LET old == buckets[b] IN
    IF ~old.there THEN [tokens |-> Burst * Refill, last |-> apiTick, there |-> TRUE]
    ELSE LET tokens == Smaller(Burst * Refill, old.tokens + (apiTick - old.last))
         IN  [tokens |-> tokens, there |-> TRUE,
              last |-> IF tokens >= Refill THEN apiTick ELSE old.last]

\* Mutant: the refill is not capped.
RefilledPastBurst(b) ==
    LET old == buckets[b] IN
    IF ~old.there THEN [tokens |-> Burst * Refill, last |-> apiTick, there |-> TRUE]
    ELSE [tokens |-> old.tokens + (apiTick - old.last), last |-> apiTick, there |-> TRUE]

Refilled(b) ==
    LET old == buckets[b] IN
    IF ~old.there THEN [tokens |-> Burst * Refill, last |-> apiTick, there |-> TRUE]
    ELSE [tokens |-> Smaller(Burst * Refill, old.tokens + (apiTick - old.last)),
          last |-> apiTick, there |-> TRUE]

Allowed(b) == Refilled(b).tokens >= Refill

Spend(b) ==
    buckets' = [buckets EXCEPT ![b] =
                  [Refilled(b) EXCEPT !.tokens = IF @ >= Refill THEN @ - Refill ELSE @]]

\* A map of 5000 buckets drops those idle for half an hour, on the way to
\* making one more.
BucketForgotten(b) ==
    /\ buckets[b].there /\ apiTick - buckets[b].last > Idle
    /\ buckets' = [buckets EXCEPT ![b] = NoBucket]
    /\ UNCHANGED <<apiTick, spent, calls, inflight, counter, streams, live, closing, made, opened>>

ApiTickPasses ==
    /\ apiTick < LastApiTick
    /\ apiTick' = apiTick + 1
    /\ UNCHANGED <<buckets, spent, calls, inflight, counter, streams, live, closing, made, opened>>

----------------------------------------------------------------------------
(* apiLifecycle *)

\* The key is looked up, the server resolved and a token taken.
CallTakes(c, key, server) ==
    /\ calls[c].pc = "idle" /\ made < MaxCallsMade /\ key \in live /\ ~closing
    /\ made' = made + 1
    /\ Spend(<<key, server>>)
    /\ IF Allowed(<<key, server>>)
       THEN /\ calls' = [calls EXCEPT ![c] = [pc |-> "taken", key |-> key, server |-> server]]
            /\ spent' = [spent EXCEPT ![<<key, server>>] = Append(@, apiTick)]
       ELSE UNCHANGED <<calls, spent>>
    /\ UNCHANGED <<apiTick, inflight, counter, streams, live, closing, opened>>

\* Mutant: the refused call's deferred Delete runs too.
CallEntersOrClears(c) ==
    /\ calls[c].pc = "taken"
    /\ IF calls[c].server \in inflight
       THEN calls' = [calls EXCEPT ![c] = NoCall] /\ inflight' = inflight \ {calls[c].server}
       ELSE calls' = [calls EXCEPT ![c].pc = "runs"] /\ inflight' = inflight \cup {calls[c].server}
    /\ UNCHANGED <<apiTick, buckets, spent, counter, streams, live, closing, made, opened>>

\* apiInflight.LoadOrStore
CallEnters(c) ==
    /\ calls[c].pc = "taken"
    /\ IF calls[c].server \in inflight
       THEN calls' = [calls EXCEPT ![c] = NoCall] /\ UNCHANGED inflight
       ELSE calls' = [calls EXCEPT ![c].pc = "runs"] /\ inflight' = inflight \cup {calls[c].server}
    /\ UNCHANGED <<apiTick, buckets, spent, counter, streams, live, closing, made, opened>>

\* handleLifecycle returns, or panics: the deferred Delete.
CallEnds(c) ==
    /\ calls[c].pc = "runs"
    /\ inflight' = inflight \ {calls[c].server}
    /\ calls' = [calls EXCEPT ![c] = NoCall]
    /\ UNCHANGED <<apiTick, buckets, spent, counter, streams, live, closing, made, opened>>

----------------------------------------------------------------------------
(* apiStream *)

\* open.Add(1) ...
StreamCounts(s, key) ==
    /\ streams[s].pc = "idle" /\ opened < MaxOpened /\ key \in live /\ ~closing
    /\ opened' = opened + 1
    /\ counter' = [counter EXCEPT ![key] = @ + 1]
    /\ streams' = [streams EXCEPT ![s] = [key |-> key,
                     pc |-> IF counter'[key] > MaxApiStreams THEN "refused" ELSE "open"]]
    /\ UNCHANGED <<apiTick, buckets, spent, calls, inflight, live, closing, made>>

\* Mutant: a refused stream stays counted.
StreamLeaks(s) ==
    /\ streams[s].pc = "refused"
    /\ streams' = [streams EXCEPT ![s] = NoStream]
    /\ UNCHANGED <<apiTick, buckets, spent, calls, inflight, counter, live, closing, made, opened>>

\* ... and Add(-1) when that was one too many.
StreamRefused(s) ==
    /\ streams[s].pc = "refused"
    /\ counter' = [counter EXCEPT ![streams[s].key] = @ - 1]
    /\ streams' = [streams EXCEPT ![s] = NoStream]
    /\ UNCHANGED <<apiTick, buckets, spent, calls, inflight, live, closing, made, opened>>

\* The client goes, the status tick finds the key revoked, or PZAdmin stops.
StreamEnds(s) ==
    /\ streams[s].pc = "open"
    /\ counter' = [counter EXCEPT ![streams[s].key] = @ - 1]
    /\ streams' = [streams EXCEPT ![s] = NoStream]
    /\ UNCHANGED <<apiTick, buckets, spent, calls, inflight, live, closing, made, opened>>

----------------------------------------------------------------------------
(* External *)

KeyRevoked(key) ==
    /\ key \in live /\ live' = live \ {key}
    /\ UNCHANGED <<apiTick, buckets, spent, calls, inflight, counter, streams, closing, made, opened>>

StreamsStop ==
    /\ ~closing /\ closing' = TRUE
    /\ UNCHANGED <<apiTick, buckets, spent, calls, inflight, counter, streams, live, made, opened>>

ApiInit ==
    /\ apiTick = 0
    /\ buckets = [b \in Buckets |-> NoBucket] /\ spent = [b \in Buckets |-> << >>]
    /\ calls = [c \in Requests |-> NoCall] /\ inflight = {}
    /\ counter = [k \in ApiKeys |-> 0] /\ streams = [s \in Streams |-> NoStream]
    /\ live = ApiKeys /\ closing = FALSE /\ made = 0 /\ opened = 0

ApiNext ==
    \/ ApiTickPasses \/ StreamsStop
    \/ \E b \in Buckets : BucketForgotten(b)
    \/ \E c \in Requests :
          \/ \E key \in ApiKeys, server \in ApiServers : CallTakes(c, key, server)
          \/ CallEnters(c) \/ CallEnds(c)
    \/ \E s \in Streams :
          (\E key \in ApiKeys : StreamCounts(s, key)) \/ StreamRefused(s) \/ StreamEnds(s)
    \/ \E key \in ApiKeys : KeyRevoked(key)

ApiSpec == ApiInit /\ [][ApiNext]_apiVars

----------------------------------------------------------------------------
(* Properties *)

ApiTypeOK ==
    /\ buckets \in [Buckets -> [tokens: 0..Burst * Refill, last: 0..LastApiTick, there: BOOLEAN]]
    /\ calls \in [Requests -> [pc: {"idle", "taken", "runs"}, key: ApiKeys, server: ApiServers]]
    /\ inflight \subseteq ApiServers
    /\ counter \in [ApiKeys -> Nat]
    /\ streams \in [Streams -> [pc: {"idle", "refused", "open"}, key: ApiKeys]]

\* A key gets a burst, then what refills, over every stretch of time, also
\* when its bucket was forgotten in between.
BucketsHold ==
    \A b \in Buckets : \A n \in DOMAIN spent[b], m \in DOMAIN spent[b] :
        n <= m => (m - n + 1) * Refill <= Burst * Refill + spent[b][m] - spent[b][n]

\* Only one lifecycle call runs per server, and a call that was refused or has
\* ended leaves no server marked.
OneCallPerServer ==
    /\ \A c, d \in Requests : calls[c].pc = "runs" /\ calls[d].pc = "runs"
                                /\ calls[c].server = calls[d].server => c = d
    /\ inflight = {calls[c].server : c \in {c \in Requests : calls[c].pc = "runs"}}

\* A key holds at most maxAPIStreams streams, and the count of each is given
\* back, refused ones included.
StreamsAreCounted ==
    \A key \in ApiKeys :
        LET Of(pc) == {s \in Streams : streams[s].pc = pc /\ streams[s].key = key} IN
        /\ Cardinality(Of("open")) <= MaxApiStreams
        /\ counter[key] = Cardinality(Of("open")) + Cardinality(Of("refused"))

\* What any number of calls in parallel get from the external API.
ApiIsLimited == BucketsHold /\ OneCallPerServer /\ StreamsAreCounted
=============================================================================
