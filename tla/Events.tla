-------------------------------- MODULE Events --------------------------------
(***************************************************************************)
(* What becomes of an event (App.event, internal/server/server.go): the     *)
(* store's ring, live subscribers (internal/store), and the         *)
(* notifier's throttle, queue and worker (internal/notify).  Events come    *)
(* from several goroutines at once; each step below holds one lock.         *)
(***************************************************************************)
EXTENDS Naturals, Sequences, SequencesExt, FiniteSets

CONSTANTS
    Sources,        \* goroutines that report events
    Kinds,          \* kinds of events; of one server
    Destinations,   \* what they are posted to
    Listening,      \* bound: who listens: kinds each destination is told of, as
                    \* its audience sees them, and the streams opened
    Window,         \* Window[d]: playerRepeat or MinInterval, in ticks
    Subscribers,    \* event streams
    RingSize, SubSize, QueueSize,   \* maxRecentEvents, 64, 128
    LastClock,       \* bound
    MaxEvents       \* MaxEvents[s]: bound: the events of s

ASSUME EventsAssumption ==
    /\ Listening \subseteq [wants: [Destinations -> SUBSET Kinds], streams: SUBSET Subscribers]
    /\ Window \in [Destinations -> Nat]
    /\ {RingSize, SubSize, QueueSize} \subseteq Nat \ {0}
    /\ LastClock \in Nat

VARIABLES
    clock,
    listening,  \* Notifier.cfg and the browsers there are
    sources,    \* App.event of each source: pc, event, destinations to go
    ring,       \* Store.recent
    subs,       \* Store.subs and what their handlers read: queue, sent, open
    lastSent,   \* Notifier.lastSent: ticks, or none
    queue,      \* Notifier.queue
    worker,     \* Notifier.run: pc, the delivery
    arrived,    \* external: what each destination has received
    accepted,   \* history: the last tick each kind was let through, its gap
    closed      \* Notifier.stop

eventsVars == <<clock, listening, sources, ring, subs, lastSent, queue, worker, arrived, accepted, closed>>

NoEvent == [source |-> CHOOSE s \in Sources : TRUE, number |-> 0, kind |-> CHOOSE k \in Kinds : TRUE]
Quietly == [pc |-> "idle", event |-> NoEvent, todo |-> {}]
NotPosting == [pc |-> "idle", to |-> CHOOSE d \in Destinations : TRUE, event |-> NoEvent]
Never == 1000 + LastClock
LastOf(s, n) == SubSeq(s, IF Len(s) > n THEN Len(s) - n + 1 ELSE 1, Len(s))

ClockTicks ==
    /\ clock < LastClock
    /\ clock' = clock + 1
    /\ UNCHANGED <<listening, sources, ring, subs, lastSent, queue, worker, arrived, accepted, closed>>

----------------------------------------------------------------------------
(* Store.Append *)

Reports(s, kind) ==
    LET event == [source |-> s, number |-> sources[s].event.number + 1, kind |-> kind] IN
    /\ sources[s].pc = "idle" /\ event.number <= MaxEvents[s]
    /\ ring' = LastOf(Append(ring, event), RingSize)
    /\ sources' = [sources EXCEPT ![s] = [pc |-> "publish", event |-> event, todo |-> {}]]
    /\ UNCHANGED <<clock, listening, subs, lastSent, queue, worker, arrived, accepted, closed>>

\* A subscriber that is behind misses the event.
Publishes(s) ==
    /\ sources[s].pc = "publish"
    /\ subs' = [u \in Subscribers |->
                  IF subs[u].open /\ Len(subs[u].queue) < SubSize
                  THEN [subs[u] EXCEPT !.queue = Append(@, sources[s].event)] ELSE subs[u]]
    /\ sources' = [sources EXCEPT ![s].pc = "log"]
    /\ UNCHANGED <<clock, listening, ring, lastSent, queue, worker, arrived, accepted, closed>>

\* The line goes to the day's file, which only a start reads, or is lost.  A
\* quietNotice ends here.
Logs(s) ==
    /\ sources[s].pc = "log"
    /\ \/ sources' = [sources EXCEPT ![s].pc = "send", ![s].todo = Destinations]
       \/ sources' = [sources EXCEPT ![s].pc = "idle"]
    /\ UNCHANGED <<clock, listening, ring, subs, lastSent, queue, worker, arrived, accepted, closed>>

----------------------------------------------------------------------------
(* Notifier.Send *)

\* Mutant: the time is kept only of the first message.
MarksFirst(d, kind) ==
    lastSent' = [lastSent EXCEPT ![d][kind] = IF @ = Never THEN clock ELSE @]

MarksSent(d, kind) == lastSent' = [lastSent EXCEPT ![d][kind] = clock]

Throttled(d, kind) == lastSent[d][kind] # Never /\ clock - lastSent[d][kind] < Window[d]

\* One destination: not interested, throttled, queued or, the queue being
\* full, dropped.  What is dropped counts as sent.
Sends(s, d) ==
    LET event == sources[s].event IN
    /\ sources[s].pc = "send" /\ d \in sources[s].todo
    /\ sources' = [sources EXCEPT ![s].todo = @ \ {d}]
    /\ IF event.kind \notin listening.wants[d] \/ Throttled(d, event.kind)
       THEN UNCHANGED <<lastSent, queue, accepted>>
       ELSE /\ MarksSent(d, event.kind)
            /\ accepted' = [accepted EXCEPT ![d][event.kind] =
                             [at |-> clock, gap |-> IF @.at = Never THEN Never ELSE clock - @.at]]
            /\ queue' = IF Len(queue) < QueueSize THEN Append(queue, [to |-> d, event |-> event]) ELSE queue
    /\ UNCHANGED <<clock, listening, ring, subs, worker, arrived, closed>>

SendEnds(s) ==
    /\ sources[s].pc = "send" /\ sources[s].todo = {}
    /\ sources' = [sources EXCEPT ![s].pc = "idle"]
    /\ UNCHANGED <<clock, listening, ring, subs, lastSent, queue, worker, arrived, accepted, closed>>

----------------------------------------------------------------------------
(* Notifier.run *)

\* With both ready the select may take either.
WorkerTakes ==
    /\ worker.pc = "idle" /\ queue # << >>
    /\ worker' = [pc |-> "first", to |-> Head(queue).to, event |-> Head(queue).event]
    /\ queue' = Tail(queue)
    /\ UNCHANGED <<clock, listening, sources, ring, subs, lastSent, arrived, accepted, closed>>

Posted == arrived' = [arrived EXCEPT ![worker.to] = Append(@, worker.event)]

\* Mutant: what failed goes to the end of the queue.
WorkerRequeues ==
    /\ worker.pc \in {"first", "again"}
    /\ \/ Posted /\ worker' = NotPosting /\ UNCHANGED queue
       \/ /\ UNCHANGED arrived /\ worker' = NotPosting
          /\ queue' = Append(queue, [to |-> worker.to, event |-> worker.event])
    /\ UNCHANGED <<clock, listening, sources, ring, subs, lastSent, accepted, closed>>

\* A post works, fails, or arrives although no answer comes back; a failure is
\* retried once.
WorkerPosts ==
    /\ worker.pc \in {"first", "again"}
    /\ \/ Posted /\ worker' = NotPosting
       \/ /\ Posted \/ UNCHANGED arrived
          /\ worker' = IF worker.pc = "first" THEN [worker EXCEPT !.pc = "again"] ELSE NotPosting
    /\ UNCHANGED <<clock, listening, sources, ring, subs, lastSent, queue, accepted, closed>>

NotifierCloses ==
    /\ ~closed /\ closed' = TRUE
    /\ UNCHANGED <<clock, listening, sources, ring, subs, lastSent, queue, worker, arrived, accepted>>

WorkerStops ==
    /\ closed /\ worker.pc = "idle"
    /\ worker' = [NotPosting EXCEPT !.pc = "stopped"]
    /\ UNCHANGED <<clock, listening, sources, ring, subs, lastSent, queue, arrived, accepted, closed>>

----------------------------------------------------------------------------
(* Streams: handleStream, apiStream *)

Subscribes(u) ==
    /\ u \in listening.streams /\ ~subs[u].open /\ subs[u].sent = << >>
    /\ subs' = [subs EXCEPT ![u].open = TRUE]
    /\ UNCHANGED <<clock, listening, sources, ring, lastSent, queue, worker, arrived, accepted, closed>>

StreamSends(u) ==
    /\ subs[u].open /\ subs[u].queue # << >>
    /\ subs' = [subs EXCEPT ![u].queue = Tail(@), ![u].sent = Append(@, Head(subs[u].queue))]
    /\ UNCHANGED <<clock, listening, sources, ring, lastSent, queue, worker, arrived, accepted, closed>>

\* The browser goes; what is left in the channel is dropped.
Unsubscribes(u) ==
    /\ subs[u].open
    /\ subs' = [subs EXCEPT ![u].open = FALSE, ![u].queue = << >>]
    /\ UNCHANGED <<clock, listening, sources, ring, lastSent, queue, worker, arrived, accepted, closed>>

----------------------------------------------------------------------------
EventsInit ==
    /\ clock = 0 /\ listening \in Listening
    /\ sources = [s \in Sources |-> Quietly]
    /\ ring = << >>
    /\ subs = [u \in Subscribers |-> [queue |-> << >>, sent |-> << >>, open |-> FALSE]]
    /\ lastSent = [d \in Destinations |-> [k \in Kinds |-> Never]]
    /\ queue = << >> /\ worker = NotPosting
    /\ arrived = [d \in Destinations |-> << >>]
    /\ accepted = [d \in Destinations |-> [k \in Kinds |-> [at |-> Never, gap |-> Never]]]
    /\ closed = FALSE

EventsNext ==
    \/ ClockTicks \/ WorkerTakes \/ WorkerPosts \/ WorkerStops \/ NotifierCloses
    \/ \E s \in Sources :
          \/ \E kind \in Kinds : Reports(s, kind)
          \/ Publishes(s) \/ Logs(s) \/ SendEnds(s)
          \/ \E d \in Destinations : Sends(s, d)
    \/ \E u \in Subscribers : Subscribes(u) \/ StreamSends(u) \/ Unsubscribes(u)

EventsSpec == EventsInit /\ [][EventsNext]_eventsVars

----------------------------------------------------------------------------
(* Properties *)

EventsTypeOK ==
    /\ Len(ring) <= RingSize /\ Len(queue) <= QueueSize
    /\ \A u \in Subscribers : Len(subs[u].queue) <= SubSize
    /\ worker.pc \in {"idle", "first", "again", "stopped"}
    /\ \A s \in Sources : sources[s].pc \in {"idle", "publish", "log", "send"}

\* The events of one source, in the order it reported them.
Orderly(events) ==
    \A n \in DOMAIN events, m \in DOMAIN events :
        n < m /\ events[n].source = events[m].source => events[n].number <= events[m].number

\* A channel never says "back online" before "went offline": whatever fails
\* and is retried, each source's events arrive in order, and twice only when
\* the answer to the first was lost.
ArrivesInOrder ==
    \A d \in Destinations :
        /\ Orderly(arrived[d])
        /\ \A n \in DOMAIN arrived[d], m \in DOMAIN arrived[d] :
              arrived[d][n] = arrived[d][m] => n \in {m - 1, m, m + 1}

\* However many sources report it at once, a destination is told of one kind
\* once in its window.
OncePerWindow ==
    \A d \in Destinations, k \in Kinds :
        accepted[d][k].gap # Never => accepted[d][k].gap >= Window[d]

\* A stream, however slow, shows a source's events in order, each once.
StreamsInOrder ==
    \A u \in Subscribers :
        Orderly(subs[u].sent \o subs[u].queue) /\ IsInjective(subs[u].sent \o subs[u].queue)

\* What channels and browsers are told.
NewsIsOrderly == ArrivesInOrder /\ OncePerWindow /\ StreamsInOrder
=============================================================================
