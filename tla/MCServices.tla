------------------------------ MODULE MCServices ------------------------------
(***************************************************************************)
(* The services that share no state with each other, one at a time: part    *)
(* says which one moves, the others keep their initial state.               *)
(***************************************************************************)
EXTENDS Jobs, Players, Events, SignIn, ApiLimits, StatusCards, ChannelNames, ModRequests, Settings

CONSTANTS t1, t2,   \* Jobs: one due in two minutes running, with a countdown
                    \* of one minute, and one due once
          mon, han  \* Events: a monitor and a handler

MCTasks == {t1, t2}
MCMinutes == 1..3
MCDue == [t \in MCTasks |-> IF t = t1 THEN {2, 3} ELSE {2}]
MCLeads == [t \in MCTasks |-> IF t = t1 THEN {1} ELSE {}]
WaitStep == [kind |-> "wait", goOn |-> FALSE, players |-> 0]
CommandStep(n, goOn) == [kind |-> "action", goOn |-> goOn, players |-> n]
MCSteps == [t \in MCTasks |-> IF t = t1 THEN <<WaitStep, CommandStep(1, FALSE)>>
                                        ELSE <<CommandStep(0, TRUE), WaitStep>>]

MCSources == {mon, han}
MCMaxEvents == [s \in MCSources |-> IF s = mon THEN 2 ELSE 1]
MCListening == {[wants |-> [d \in Destinations |-> Kinds], streams |-> {}],
                [wants |-> [d \in Destinations |-> {}], streams |-> Subscribers]}
MCWindow == [d \in Destinations |-> 1]

MCFree == [k \in Keys |-> 1]
MCMaxDelay == [k \in Keys |-> 1]

VARIABLE part

Parts == {"jobs", "players", "events", "sign-in", "api", "cards", "names", "mods", "settings"}

\* What has a choice to begin with has none while another part moves; places
\* and channels are interchangeable, so one is enough to begin with.
ServicesInit ==
    /\ part \in Parts
    /\ JobsInit /\ (part # "jobs" => left = CHOOSE s \in Scenarios : TRUE)
    /\ PlayersInit
    /\ EventsInit /\ (part # "events" => listening.streams = {})
    /\ SignInInit /\ (part # "sign-in" => isSetUp)
    /\ ApiInit
    /\ CardsInit /\ (part # "cards" => \A h \in Hooks : hooks[h].place = CHOOSE p \in Places : TRUE)
    /\ NamesInit /\ naming.place = CHOOSE p \in NamePlaces : TRUE
    /\ ModsInit
    /\ SettingsInit

servicesVars == <<part, jobsVars, playersVars, eventsVars, signInVars, apiVars, cardVars, nameVars, modVars, settingsVars>>

ServicesNext ==
    /\ UNCHANGED part
    /\ \/ /\ part = "jobs" /\ JobsNext
          /\ UNCHANGED <<playersVars, eventsVars, signInVars, apiVars, cardVars, nameVars, modVars, settingsVars>>
       \/ /\ part = "players" /\ PlayersNext
          /\ UNCHANGED <<jobsVars, eventsVars, signInVars, apiVars, cardVars, nameVars, modVars, settingsVars>>
       \/ /\ part = "events" /\ EventsNext
          /\ UNCHANGED <<jobsVars, playersVars, signInVars, apiVars, cardVars, nameVars, modVars, settingsVars>>
       \/ /\ part = "sign-in" /\ SignInNext
          /\ UNCHANGED <<jobsVars, playersVars, eventsVars, apiVars, cardVars, nameVars, modVars, settingsVars>>
       \/ /\ part = "api" /\ ApiNext
          /\ UNCHANGED <<jobsVars, playersVars, eventsVars, signInVars, cardVars, nameVars, modVars, settingsVars>>
       \/ /\ part = "cards" /\ CardsNext
          /\ UNCHANGED <<jobsVars, playersVars, eventsVars, signInVars, apiVars, nameVars, modVars, settingsVars>>
       \/ /\ part = "names" /\ NamesNext
          /\ UNCHANGED <<jobsVars, playersVars, eventsVars, signInVars, apiVars, cardVars, modVars, settingsVars>>
       \/ /\ part = "mods" /\ ModsNext
          /\ UNCHANGED <<jobsVars, playersVars, eventsVars, signInVars, apiVars, cardVars, nameVars, settingsVars>>
       \/ /\ part = "settings" /\ SettingsNext
          /\ UNCHANGED <<jobsVars, playersVars, eventsVars, signInVars, apiVars, cardVars, nameVars, modVars>>

ServicesSpec == ServicesInit /\ [][ServicesNext]_servicesVars

\* The type invariants of all of them.
ServicesTypeOK ==
    /\ part = "jobs" => JobsTypeOK
    /\ part = "players" => PlayersTypeOK
    /\ part = "events" => EventsTypeOK
    /\ part = "sign-in" => SignInTypeOK
    /\ part = "api" => ApiTypeOK
    /\ part = "cards" => CardsTypeOK
    /\ part = "names" => NamesTypeOK
    /\ part = "mods" => ModsTypeOK
    /\ part = "settings" => SettingsTypeOK

\* A part that does not move is in its initial state, so a property need only
\* be looked at while its own part does.

\* Jobs: a minute the loop wakes for fires all that is due in it, and none fires
\* twice, however the clock is changed; the fire log is in memory, so a restart
\* and a clock set back together may repeat a minute, once for each restart.  A
\* job that is stopped ends at once and says so.
SchedulesAreKept == part = "jobs" => FiresOncePerMinute /\ StopsCleanly

\* SignIn and ApiLimits: what one address, one account or one key may do in a
\* time is bounded, and nobody else's slot or budget pays for it.
LimitsHold == (part = "sign-in" => SignInIsLimited) /\ (part = "api" => ApiIsLimited)

\* StatusCards and ChannelNames: nothing is left behind on Discord that the
\* board could know of, and what the board takes for shown, and so never sends
\* again, is shown, but for lost answers, refusals and failed saves.
BoardIsTrue == (part = "cards" => CardsAreTrue) /\ (part = "names" => DotsAreTrue)

\* An edit, of the schedules or of the settings, saves what it is about and
\* keeps what it is not, unless it was made from a copy older than a change.
EditsAreSound == EditsKeepResults /\ [](part = "settings" => SettingsAreSound)
=============================================================================
