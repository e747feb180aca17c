------------------------------ MODULE Settings ------------------------------
(***************************************************************************)
(* internal/config's store and the handlers that save settings in it: the    *)
(* settings form (api.go: handleSettings, webhooks.go: validateWebhooks),    *)
(* the Discord bot's connect and remove (discordbot.go), the metrics token   *)
(* (metrics.go).  Update runs under the store's lock, so a save is one step; *)
(* what a handler read before it, and the notifier it configures after it,   *)
(* are steps of their own.                                                   *)
(*                                                                          *)
(* A browser never sees a secret: it posts the placeholder, and the saved    *)
(* secret is put back in its place.                                          *)
(***************************************************************************)
EXTENDS Naturals, FiniteSets

CONSTANTS Clerks,       \* handlers of owners' requests
          Channels,     \* IDs of the channels to post to
          BotTokens,    \* that Discord accepts
          MaxForms,     \* bound: requests
          MaxMishaps    \* bound: failed writes and restarts

VARIABLES conf,         \* Store.cfg
          confFile,     \* config.json; before the first save it reads as the defaults
          notifying,    \* what the notifier was configured with
          form,         \* each handler
          tokensMade,   \* metrics tokens, one number each
          forms, mishaps,
          entered,      \* history: what was last asked for and saved; token: shown
          undone,       \* history: what handlers saved from copies older than a
                        \* change of it
          newest        \* history: who saved last and is to tell the notifier;
                        \* "told", and "mixed" if an older save was told after it

settingsVars == <<conf, confFile, notifying, form, tokensMade, forms, mishaps, entered, undone,
                  newest>>

\* Where a channel posts: nowhere, through the bot, or to its own address.
Address(c) == <<"address", c>>
Targets(c) == {<<"off">>, <<"bot">>, Address(c)}
AnyTarget == UNION {Targets(c) : c \in Channels}
Redacted == <<"unchanged">>
NoAddress == <<"nowhere">>    \* switched on, without an address
NoBot == "no bot"

ASSUME SettingsAssumption ==
    /\ NoBot \notin BotTokens /\ Clerks \cap {"told", "mixed"} = {}
    /\ MaxForms \in Nat /\ MaxMishaps \in Nat

MaxTokens == MaxForms + MaxMishaps + 1

Confs == [bot : BotTokens \cup {NoBot}, token : 0..MaxTokens, posts : [Channels -> AnyTarget]]

\* What applyNotifyConfig takes from a configuration: a channel without a usable target is left out.
Notified(c) ==
    [bot |-> IF \E x \in Channels : c.posts[x] = <<"bot">> THEN c.bot ELSE NoBot,
     posts |-> [x \in Channels |-> IF c.posts[x] = <<"bot">> /\ c.bot = NoBot THEN <<"off">>
                                   ELSE c.posts[x]]]

NoForm(c) == [at |-> "idle", prev |-> c, posted |-> c.posts, holds |-> "none", bot |-> NoBot]

\* withMetricsToken: one that only memory has, until the next save.
WithMetricsToken(c) == IF c.token = 0 THEN [c EXCEPT !.token = tokensMade'] ELSE c

\* Open, and Start configures the notifier.
Opens(file) ==
    /\ conf' = WithMetricsToken(file)
    /\ notifying' = Notified(file)
    /\ form' = [p \in Clerks |-> NoForm(conf')]
    /\ newest' = "told"

SettingsInit ==
    /\ confFile = [bot |-> NoBot, token |-> 0, posts |-> [c \in Channels |-> <<"off">>]]
    /\ tokensMade = 1
    /\ conf = [confFile EXCEPT !.token = tokensMade]
    /\ notifying = Notified(conf)
    /\ form = [p \in Clerks |-> NoForm(conf)]
    /\ forms = 0 /\ mishaps = 0
    /\ entered = confFile
    /\ undone = {}
    /\ newest = "told"

(***************************************************************************)
(* Store.Update                                                             *)
(***************************************************************************)

Busy(p) == form[p].at # "idle"

FormEnds(p) == form' = [form EXCEPT ![p] = NoForm(form[p].prev)]

\* An error answered before any save.
UnchangedBy ==
    UNCHANGED <<conf, confFile, notifying, tokensMade, forms, mishaps, entered, undone, newest>>

\* Mutant: memory changes before the file is written.
UpdatesMemoryFirst(p, next) ==
    /\ conf' = next
    /\ \/ confFile' = next /\ UNCHANGED mishaps
       \/ mishaps < MaxMishaps /\ mishaps' = mishaps + 1 /\ UNCHANGED confFile

\* The file first: a write that fails changes nothing.
Updates(p, next) ==
    \/ conf' = next /\ confFile' = next /\ UNCHANGED mishaps
    \/ mishaps < MaxMishaps /\ mishaps' = mishaps + 1 /\ UNCHANGED <<conf, confFile>>

\* What a handler goes by that is no longer so.
Uses(f) ==
    CASE f.at = "settings" /\ f.holds = "channels" -> {"bot"}
      [] f.at = "settings" /\ f.holds = "throttle" -> {"bot", "posts"}
      [] f.at = "settings" /\ f.holds = "metrics" -> {"token"}
      [] f.at = "remove" -> {"posts"}
      [] OTHER -> {}
Outdated(f) == {s \in Uses(f) : f.prev[s] # conf[s]}

\* A handler's save: then the notifier is told, or the error is answered.
SavesAndTells(p, next, wish) ==
    /\ Updates(p, next)
    /\ IF confFile' = next /\ mishaps' = mishaps
       THEN /\ form' = [form EXCEPT ![p].at = "apply", ![p].prev = next]
            /\ entered' = wish
            /\ undone' = undone \cup Outdated(form[p])
            /\ newest' = p
       ELSE FormEnds(p) /\ UNCHANGED <<entered, undone, newest>>
    /\ UNCHANGED <<notifying, tokensMade, forms>>

Applies(p) ==
    /\ form[p].at = "apply"
    /\ notifying' = Notified(form[p].prev)
    /\ newest' = CASE newest = p -> "told" [] newest = "told" -> "mixed" [] OTHER -> newest
    /\ FormEnds(p)
    /\ UNCHANGED <<conf, confFile, tokensMade, forms, mishaps, entered, undone>>

(***************************************************************************)
(* The handlers                                                             *)
(***************************************************************************)

Begins(p, f) ==
    /\ ~Busy(p) /\ forms < MaxForms
    /\ forms' = forms + 1
    /\ form' = [form EXCEPT ![p] = f]
    /\ UNCHANGED <<conf, confFile, notifying, tokensMade, mishaps, entered, undone, newest>>

\* handleSettings reads the configuration, outside Update.  The form holds the
\* channels, only the throttle, or the metrics.
SettingsRead(p) ==
    \E holds \in {"channels", "throttle", "metrics"} :
    \E posted \in IF holds = "channels"
                  THEN {f \in [Channels -> AnyTarget \cup {Redacted}] :
                           \A c \in Channels : f[c] \in Targets(c) \cup {Redacted}}
                  ELSE {conf.posts} :
        Begins(p, [at |-> "settings", prev |-> conf, posted |-> posted, holds |-> holds, bot |-> NoBot])

\* Mutant: restored from the list's order, not from its IDs.
RestoredByPlace(posted, prev) ==
    [c \in Channels |-> IF posted[c] # Redacted THEN posted[c]
                        ELSE IF \E x \in Channels : prev[x] = Address(x)
                             THEN CHOOSE t \in {prev[x] : x \in Channels} : t[1] = "address"
                             ELSE NoAddress]

\* UnredactWebhooks: a placeholder without a saved address becomes none.
Restored(posted, prev) ==
    [c \in Channels |-> IF posted[c] # Redacted THEN posted[c]
                        ELSE IF prev[c] = Address(c) THEN prev[c] ELSE NoAddress]

\* validateWebhooks: a channel that is on has an address, or a bot that is there.
Valid(posts, bot) ==
    \A c \in Channels : posts[c] # NoAddress /\ (posts[c] = <<"bot">> => bot # NoBot)

\* Mutant: the bot of the form, which never carries it.
BotOfForm(f) == NoBot

\* "the settings form only ever carries it redacted"
BotKept(f) == f.prev.bot

SettingsSaved(p) ==
    /\ form[p].at = "settings"
    /\ LET f == form[p]
           posts == IF f.holds = "throttle" THEN f.prev.posts ELSE Restored(f.posted, f.prev.posts)
           next == CASE f.holds = "metrics" -> [conf EXCEPT !.token = f.prev.token]
                     [] OTHER -> [conf EXCEPT !.bot = BotKept(f), !.posts = posts]
           wish == IF f.holds = "channels" THEN [entered EXCEPT !.posts = posts] ELSE entered
       IN IF f.holds = "metrics" \/ Valid(posts, f.prev.bot)
          THEN SavesAndTells(p, next, wish)
          ELSE FormEnds(p) /\ UnchangedBy

\* handleBotConnect: a token typed in, or the saved one again, is tried out
\* with Discord, external, and saved.
BotReads(p) ==
    \E b \in BotTokens \cup ({conf.bot} \ {NoBot}) :
        Begins(p, [at |-> "connect", prev |-> conf, posted |-> conf.posts, holds |-> "bot", bot |-> b])

BotSaves(p) ==
    /\ form[p].at = "connect"
    /\ \/ SavesAndTells(p, [conf EXCEPT !.bot = form[p].bot], [entered EXCEPT !.bot = form[p].bot])
       \/ FormEnds(p) /\ UnchangedBy

\* handleBotRemove looks whether a channel posts through the bot, then saves.
BotRemoveChecks(p) ==
    /\ \A c \in Channels : conf.posts[c] # <<"bot">>
    /\ Begins(p, [at |-> "remove", prev |-> conf, posted |-> conf.posts, holds |-> "bot", bot |-> NoBot])

BotRemoves(p) ==
    /\ form[p].at = "remove"
    /\ SavesAndTells(p, [conf EXCEPT !.bot = NoBot], [entered EXCEPT !.bot = NoBot])

\* handleMetricsToken: a token nobody has had before, shown once.
TokenReplaced(p) ==
    /\ ~Busy(p) /\ forms < MaxForms
    /\ forms' = forms + 1 /\ tokensMade' = tokensMade + 1
    /\ Updates(p, [conf EXCEPT !.token = tokensMade'])
    /\ entered' = IF confFile'.token = tokensMade' THEN [entered EXCEPT !.token = tokensMade'] ELSE entered
    /\ UNCHANGED <<notifying, form, undone, newest>>

SettingsRestart ==
    /\ mishaps < MaxMishaps /\ mishaps' = mishaps + 1
    /\ tokensMade' = IF confFile.token = 0 THEN tokensMade + 1 ELSE tokensMade
    /\ Opens(confFile)
    /\ UNCHANGED <<confFile, forms, entered, undone>>

SettingsNext ==
    \/ \E p \in Clerks :
        \/ SettingsRead(p) \/ SettingsSaved(p) \/ Applies(p)
        \/ BotReads(p) \/ BotSaves(p) \/ BotRemoveChecks(p) \/ BotRemoves(p)
        \/ TokenReplaced(p)
    \/ SettingsRestart

SettingsSpec == SettingsInit /\ [][SettingsNext]_settingsVars

(***************************************************************************)
(* Properties                                                               *)
(***************************************************************************)

SettingsTypeOK ==
    /\ conf \in Confs /\ confFile \in Confs
    /\ notifying.bot \in BotTokens \cup {NoBot} /\ notifying.posts \in [Channels -> AnyTarget]
    /\ \A p \in Clerks :
        /\ form[p].at \in {"idle", "settings", "connect", "remove", "apply"}
        /\ form[p].prev \in Confs /\ form[p].bot \in BotTokens \cup {NoBot}
    /\ forms \in 0..MaxForms /\ mishaps \in 0..MaxMishaps /\ tokensMade \in 1..MaxTokens
    /\ entered \in Confs /\ undone \subseteq {"bot", "token", "posts"}
    /\ newest \in Clerks \cup {"told", "mixed"}

\* What is in force is on disk, whatever write failed, but for a metrics token
\* that Open made: "until then nobody has been shown it, so a new one on the
\* next start costs nothing" (config.go:518-521).
InForceIsOnDisk ==
    conf = confFile \/ (confFile.token = 0 /\ entered.token = 0
                          /\ conf = [confFile EXCEPT !.token = conf.token])

\* No form, however old, gives one channel another's address, or saves the
\* placeholder as one.
AddressesStayApart == \A c \in Channels : conf.posts[c] \in Targets(c)

\* Through failed writes, restarts and handlers that overlap: the bot, the
\* metrics token and the channels are those last asked for, and no channel posts
\* through a bot that is not there, unless a handler went by a copy older than
\* the change, a settings form or a removal; the notifier has what was saved
\* last, unless an older save was told after it.
SavesAreKept ==
    /\ "bot" \notin undone => conf.bot = entered.bot
    /\ "token" \notin undone /\ entered.token # 0 => conf.token = entered.token
    /\ "posts" \notin undone => conf.posts = entered.posts /\ Valid(conf.posts, conf.bot)
    /\ newest = "told" => notifying = Notified(conf)

SettingsAreSound == InForceIsOnDisk /\ AddressesStayApart /\ SavesAreKept
=============================================================================
