-------------------------------- MODULE SignIn --------------------------------
(***************************************************************************)
(* Signing in and the first set-up: the limiters (internal/server/auth.go), *)
(* handleLogin and handleSetup (api.go) and the setup code (setupcode.go).  *)
(* Requests run in parallel; a password hash takes a while and only some    *)
(* are computed at once.                                                    *)
(*                                                                          *)
(* A tick is five seconds, the first back-off delay.                        *)
(***************************************************************************)
EXTENDS Naturals, FiniteSets

CONSTANTS
    Addresses,  \* where requests come from
    Everyone,   \* the account-wide limiter's only key
    Logins,     \* requests
    Free,       \* Free[k]: failures before any delay
    MaxDelay,   \* MaxDelay[k]: the cap of the delay, in ticks
    Quiet,      \* ticks after which a failure record is forgotten
    HashSlots,  \* password hashes computed at once
    LastTick,   \* bound
    MaxGuesses  \* bound: attempts let through

Keys == Addresses \cup {Everyone}

ASSUME SignInAssumption ==
    /\ Everyone \notin Addresses
    /\ Free \in [Keys -> Nat] /\ MaxDelay \in [Keys -> Nat]
    /\ Quiet \in Nat /\ \A k \in Keys : MaxDelay[k] < Quiet
    /\ HashSlots \in Nat \ {0}

VARIABLES
    tick,       \* the clock
    failures,   \* loginLimiter.failures, of both limiters
    let,        \* history: the attempts let through on each record: how many,
                \* the last one's tick, the ticks between the last two
    known,      \* knownAddresses
    logins,     \* the requests
    isSetUp,    \* cfg.SetupComplete
    code,       \* a setup code is pending
    owners,     \* history: owner accounts made
    asked       \* attempts let through an address's limit

signInVars == <<tick, failures, let, known, logins, isSetUp, code, owners, asked>>

NoFailures == [count |-> 0, lockedTo |-> 0, last |-> 0]
NoneLet == [number |-> 0, at |-> 0, gap |-> 0]
NoLogin == [pc |-> "idle", from |-> Everyone, what |-> "wrong"]

Least(a, b) == IF a < b THEN a ELSE b
Delay(k, count) == Least(2 ^ Least(count - Free[k] - 1, 6), MaxDelay[k])

----------------------------------------------------------------------------
(* The limiters: one record, or none, for each key *)

Forgotten(k) == failures[k].count > 0 /\ tick - failures[k].last > Quiet
Locked(k) == failures[k].count > 0 /\ ~Forgotten(k) /\ tick < failures[k].lockedTo

\* recordLocked
Counted(k) ==
    LET count == (IF Forgotten(k) THEN 0 ELSE failures[k].count) + 1
    IN  [count |-> count, last |-> tick,
         lockedTo |-> IF count > Free[k] THEN tick + Delay(k, count)
                      ELSE IF count = 1 THEN 0 ELSE failures[k].lockedTo]

LetThrough(k) ==
    IF Forgotten(k) THEN [number |-> 1, at |-> tick, gap |-> 0]
    ELSE [number |-> let[k].number + 1, at |-> tick, gap |-> tick - let[k].at]

\* Mutant: an attempt is counted when its hash turns out wrong.
TakesLater(k) ==
    /\ let' = [let EXCEPT ![k] = LetThrough(k)]
    /\ UNCHANGED failures

\* take: the attempt counts as a failure before the password is looked at.
Takes(k) ==
    /\ failures' = [failures EXCEPT ![k] = Counted(k)]
    /\ let' = [let EXCEPT ![k] = LetThrough(k)]

\* succeed, for each of ks
Succeeds(ks) ==
    /\ failures' = [k \in Keys |-> IF k \in ks THEN NoFailures ELSE failures[k]]
    /\ let' = [k \in Keys |-> IF k \in ks THEN NoneLet ELSE let[k]]

----------------------------------------------------------------------------
Becomes(q, pc) == logins' = [logins EXCEPT ![q].pc = pc]
Asked == asked < MaxGuesses /\ asked' = asked + 1
Done(q) == logins' = [logins EXCEPT ![q] = NoLogin]
Elsewhere(q, what) == logins' = [logins EXCEPT ![q] = what]

Passes ==
    /\ tick < LastTick
    /\ tick' = tick + 1
    /\ UNCHANGED <<failures, let, known, logins, isSetUp, code, owners, asked>>

----------------------------------------------------------------------------
(* handleLogin *)

\* The address's limit; a request that is refused changes nothing.
LoginTakes(q, from, what) ==
    /\ logins[q].pc = "idle" /\ ~Locked(from) /\ Asked
    /\ Takes(from)
    /\ Elsewhere(q, [pc |-> "taken", from |-> from, what |-> what])
    /\ UNCHANGED <<tick, known, isSetUp, code, owners>>

\* The account-wide limit, from an address nobody has signed in from.
LoginTakesAccount(q) ==
    /\ logins[q].pc = "taken"
    /\ \/ /\ logins[q].from \in known
          /\ Becomes(q, "waits") /\ UNCHANGED <<failures, let>>
       \/ /\ logins[q].from \notin known /\ ~Locked(Everyone)
          /\ Takes(Everyone) /\ Becomes(q, "waits")
       \/ /\ logins[q].from \notin known /\ Locked(Everyone)
          /\ Done(q) /\ UNCHANGED <<failures, let>>
    /\ UNCHANGED <<tick, known, isSetUp, code, owners, asked>>

Hashing == {q \in Logins : logins[q].pc = "hashes"}

\* A slot for the hash, unless the browser has gone.
LoginHashes(q) ==
    /\ logins[q].pc = "waits"
    /\ \/ Cardinality(Hashing) < HashSlots /\ Becomes(q, "hashes")
       \/ Done(q)
    /\ UNCHANGED <<tick, failures, let, known, isSetUp, code, owners, asked>>

\* A right password clears both limits, a disabled account's only the
\* address's.
LoginEnds(q) ==
    /\ logins[q].pc = "hashes"
    /\ LET from == logins[q].from
           right == isSetUp /\ logins[q].what = "right" IN
       /\ IF right THEN Succeeds({from, Everyone})
          ELSE IF isSetUp /\ logins[q].what = "barred" THEN Succeeds({from})
          ELSE UNCHANGED <<failures, let>>
       /\ known' = IF right THEN known \cup {from} ELSE known
    /\ Done(q)
    /\ UNCHANGED <<tick, isSetUp, code, owners, asked>>

----------------------------------------------------------------------------
(* handleSetup *)

SetupTakes(q, from, what) ==
    /\ logins[q].pc = "idle" /\ ~Locked(from) /\ Asked
    /\ Takes(from)
    /\ Elsewhere(q, [pc |-> "sets up", from |-> from, what |-> what])
    /\ UNCHANGED <<tick, known, isSetUp, code, owners>>

\* SetupComplete and the code; then the rules for passwords and timezones.
SetupChecks(q) ==
    /\ logins[q].pc = "sets up"
    /\ IF isSetUp \/ ~code \/ logins[q].what = "wrong"
       THEN Done(q) /\ UNCHANGED <<failures, let>>
       ELSE /\ Succeeds({logins[q].from})
            /\ IF logins[q].what = "barred" THEN Done(q) ELSE Becomes(q, "checked")
    /\ UNCHANGED <<tick, known, isSetUp, code, owners, asked>>

\* Mutant: the update does not look again.
SetupMakesBlindly(q) ==
    /\ logins[q].pc = "checked"
    /\ isSetUp' = TRUE /\ owners' = owners + 1 /\ Becomes(q, "made")
    /\ UNCHANGED <<tick, failures, let, known, code, asked>>

\* The update looks at SetupComplete again; its save may fail.
SetupMakes(q) ==
    /\ logins[q].pc = "checked"
    /\ \/ ~isSetUp /\ isSetUp' = TRUE /\ owners' = owners + 1 /\ Becomes(q, "made")
       \/ Done(q) /\ UNCHANGED <<isSetUp, owners>>
    /\ UNCHANGED <<tick, failures, let, known, code, asked>>

\* clearSetupCode, and the owner is signed in.
SetupEnds(q) ==
    /\ logins[q].pc = "made"
    /\ code' = FALSE
    /\ Succeeds({logins[q].from})
    /\ known' = known \cup {logins[q].from}
    /\ Done(q)
    /\ UNCHANGED <<tick, isSetUp, owners, asked>>

----------------------------------------------------------------------------
SignInInit ==
    /\ tick = 0
    /\ failures = [k \in Keys |-> NoFailures] /\ let = [k \in Keys |-> NoneLet]
    /\ known = {} /\ logins = [q \in Logins |-> NoLogin]
    /\ isSetUp \in BOOLEAN /\ code = ~isSetUp /\ owners = IF isSetUp THEN 1 ELSE 0
    /\ asked = 0

SignInNext ==
    \/ Passes
    \/ \E q \in Logins :
          \/ \E from \in Addresses, what \in {"wrong", "right", "barred"} :
                IF isSetUp THEN LoginTakes(q, from, what) ELSE SetupTakes(q, from, what)
          \/ LoginTakesAccount(q) \/ LoginHashes(q) \/ LoginEnds(q)
          \/ SetupChecks(q) \/ SetupMakes(q) \/ SetupEnds(q)

SignInSpec == SignInInit /\ [][SignInNext]_signInVars

----------------------------------------------------------------------------
(* Properties *)

SignInTypeOK ==
    /\ tick \in Nat
    /\ failures \in [Keys -> [count: Nat, lockedTo: Nat, last: Nat]]
    /\ known \subseteq Addresses
    /\ isSetUp \in BOOLEAN /\ code \in BOOLEAN /\ owners \in Nat

\* "A burst of parallel guesses is limited exactly like the same guesses sent
\* one after another" (auth.go): of the attempts of one record that were let
\* through, those behind the free ones lie their delay apart, however many
\* requests and hashes are under way.
GuessesAreSpaced ==
    \A k \in Keys :
        let[k].number - 1 > Free[k] => let[k].gap >= Delay(k, let[k].number - 1)

\* Two set-ups at once make one owner, and the setup code outlives nobody's
\* set-up but the one that is just ending.
OneOwner ==
    /\ owners <= 1
    /\ isSetUp /\ code => \E q \in Logins : logins[q].pc = "made"

\* What a burst of sign-ins and set-ups in parallel may achieve.
SignInIsLimited == GuessesAreSpaced /\ OneOwner /\ Cardinality(Hashing) <= HashSlots
=============================================================================
