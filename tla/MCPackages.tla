------------------------------ MODULE MCPackages ------------------------------
(***************************************************************************)
(* The packages that know nothing of each other, one at a time: topic says  *)
(* which one moves, the others keep their initial state.                    *)
(***************************************************************************)
EXTENDS RconClient, Cron, Tailer, LoadOrder

\* Cron: minutes, hours, days and months are few, and all fields in use.
Expr(m, h, d, mo, w) == [minute |-> m, hour |-> h, dom |-> d, month |-> mo, dow |-> w]
Star == {All}
MCExpressions ==
    {Expr(m, h, d, mo, w) : m \in {{Value(0)}, {Every(All, 2)}, Star},
                            h \in {Star, {Value(0)}, {Between(1, 2)}, {Every(Value(1), 2)}},
                            d \in {Star, {Value(2)}},
                            mo \in {Star, {Value(2)}},
                            w \in {Star, {Value(3)}, {Between(2, 3)}, {Between(1, 2), Value(3)}}}

Autumn(before) == [before |-> before, after |-> before - 2, at |-> 28]
Spring(before, at) == [before |-> before, after |-> before + 2, at |-> at]
\* London, Berlin, New York, Santiago (no midnight in spring).
MCZones == {Autumn(2), Spring(0, 26), Autumn(4), Autumn(-2), Spring(-4, 28)}
NewYork == {Autumn(-2)}
\* No midnight in spring, on the other side of Greenwich.
Cairo == {Spring(2, 30)}
MCFrom == 16..31

\* LoadOrder: three mods, every set of requirements between them.
CONSTANTS ma, mb, mc

MCMods == {ma, mb, mc}
Listed(m) == <<m, "usual">>
Again(m) == <<m, "other">>
MCLists == {<<Listed(ma), Listed(mb), Listed(mc)>>, <<Listed(mc), Listed(mb), Listed(ma)>>,
            <<Listed(mb), Listed(mc), Again(mb)>>,
            <<Again(mc), Again(ma), Listed(mc), Listed(mb)>>}

MCInfos == {[m \in MCMods |-> [NoRules EXCEPT !.require = needs[m], !.first = m \in firsts,
                                              !.last = m \in lasts]] :
              needs \in {f \in [MCMods -> SUBSET MCMods] : \A m \in MCMods : m \notin f[m]},
              firsts \in {{}, {ma}}, lasts \in {{}, {ma}, {mb}}}

MCRuleFiles ==
    {<< >>,
     <<Says("after", {mb}), Section(ma), Says("after", {mb}), Says("first", TRUE),
       Section(mb), Says("before", {mc}), Says("incompatible", {ma}),
       Section(ma), Says("first", FALSE)>>,
     <<Section(mc), Says("last", TRUE), Says("require", {mb})>>}

VARIABLE topic

Topics == {"rcon", "cron", "logs", "order"}

\* What has a choice to begin with has none while another package moves.
PackagesInit ==
    /\ topic \in Topics
    /\ Init /\ (topic # "rcon" => echoes)
    /\ \/ topic = "cron" /\ CronInit
       \/ /\ topic # "cron"
          /\ sched = Parse(Expr(Star, Star, Star, Star, Star)) /\ zone = Autumn(2)
          /\ since = 16 /\ cand = 17 /\ turn = 0 /\ found = "searching"
    /\ TailInit /\ (topic # "logs" => logs = << >>)
    /\ \/ topic = "order" /\ OrderInit
       \/ /\ topic # "order"
          /\ list = << >> /\ info = [m \in MCMods |-> NoRules] /\ extra = info
          /\ waits = << >> /\ sorted = << >> /\ phase = "start" /\ round = 1
          /\ report = NoReport

packagesVars == <<topic, vars, cronVars, tailVars, orderVars>>

PackagesNext ==
    /\ UNCHANGED topic
    /\ \/ topic = "rcon" /\ Next /\ UNCHANGED <<cronVars, tailVars, orderVars>>
       \/ topic = "cron" /\ CronNext /\ UNCHANGED <<vars, tailVars, orderVars>>
       \/ topic = "logs" /\ TailNext /\ UNCHANGED <<vars, cronVars, orderVars>>
       \/ topic = "order" /\ OrderNext /\ UNCHANGED <<vars, cronVars, tailVars>>

\* The fairness of RconClient.
PackagesSpec ==
    /\ PackagesInit /\ [][PackagesNext]_packagesVars
    /\ WF_packagesVars(topic = "rcon" /\ ClientStep /\ UNCHANGED <<topic, cronVars, tailVars, orderVars>>)

\* The type invariants of all of them.
PackagesTypeOK ==
    /\ topic = "rcon" => TypeOK
    /\ topic = "cron" => CronTypeOK
    /\ topic = "logs" => TailTypeOK
    /\ topic = "order" => OrderTypeOK

\* A package that does not move is in its initial state, so its properties
\* need only be looked at while it does.

\* RconClient: what Exec sends and hands back is right.
ExecIsSound == topic = "rcon" => EchoMeansComplete /\ FreshAnswerIsOwn /\ RunsAtMostTwice

\* Cron: Next gives the first time that fires, and comes to an end.
CronIsRight == [](topic = "cron" => NextIsFirst) /\ SearchGoesForward

\* Tailer: each line is read, and read once.
LogIsFollowed == topic = "logs" => OnlyNewLines /\ EverythingRead

\* LoadOrder: the order keeps to the rules, and sorting it again changes nothing.
LoadOrderIsRight == topic = "order" => SortedByTheRules /\ SortIsSettled

\* The search alone, as Next runs it: its loop goes on.
SearchSpec ==
    /\ PackagesInit /\ topic = "cron" /\ [][PackagesNext]_packagesVars
    /\ WF_packagesVars(topic = "cron" /\ CronNext /\ UNCHANGED <<topic, vars, tailVars, orderVars>>)
=============================================================================
