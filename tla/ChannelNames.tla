------------------------------ MODULE ChannelNames ------------------------------
(***************************************************************************)
(* The status dot in the name of a server's channel (internal/server/       *)
(* channelname.go): what to show, how long to wait, and Discord's two       *)
(* renames per ten minutes.  The record of one webhook; each has its own,   *)
(* also when two webhooks post to one channel.                              *)
(***************************************************************************)
EXTENDS Naturals, Sequences

CONSTANTS
    NamePlaces,     \* channels
    Settle,         \* dotSettle, in ticks
    RenameWindow, RenamesPerWindow,
    RetryAfters,    \* how long a failure holds a name back
    LastNameTick, MaxNameTurns,     \* bounds
    OtherDots,      \* bound: what others may put in a channel's name
    MaxUpsets       \* bound: edits of the configuration, renames by others,
                    \* saves that fail and starts

ASSUME NamesAssumption ==
    /\ Settle \in Nat /\ RenameWindow \in Nat \ {0} /\ RenamesPerWindow \in Nat \ {0}
    /\ RetryAfters \subseteq Nat /\ LastNameTick \in Nat

VARIABLES
    nameTick,
    naming,     \* the webhook: switched on or not, its channel
    wantedDot,  \* wantedDot of its server: a dot, or none before it is probed
    ns,         \* nameState, in memory
    nsFile,     \* ... and in livestatus.json
    unsaved,    \* syncChannelNames has returned true, board.save is next
    dots,       \* external: the dot each channel's name has
    renamed,    \* history: when PZAdmin renamed the channel of its record,
                \* since it made the record, as far as it was told and the
                \* record on disk knew when PZAdmin last started
    doubt,      \* history: channels whose name it cannot know
    nameTurns, upsets

nameVars == <<nameTick, naming, wantedDot, ns, nsFile, unsaved, dots, renamed, doubt,
              nameTurns, upsets>>

Dots == {"online", "offline", "restarting"}
NoDot == ""
ASSUME OtherDotsAssumption == OtherDots \subseteq Dots \cup {NoDot}
NoName == [there |-> FALSE, source |-> CHOOSE p \in NamePlaces : TRUE, want |-> NoDot,
              since |-> 0, shown |-> NoDot, renames |-> << >>, retry |-> 0]
Fresh(source) == [NoName EXCEPT !.there = TRUE, !.source = source]

\* budget: the renames still within the window ...  They are recorded as time
\* goes by, so these are the end of the list.
Recent(s) ==
    LET from == CHOOSE n \in 1..(Len(s.renames) + 1) :
                  \A m \in DOMAIN s.renames : m >= n <=> nameTick - s.renames[m] < RenameWindow
    IN  SubSeq(s.renames, from, Len(s.renames))

\* Mutant: one rename too many.
HasBudgetOfOneMore(s) == Len(Recent(s)) <= RenamesPerWindow

\* ... leave room for one more.
HasBudget(s) == Len(Recent(s)) < RenamesPerWindow

\* ns as syncChannelNames finds it, or makes it: a changed webhook is looked
\* up again.
Current == IF ns.there /\ ns.source = naming.place THEN ns ELSE Fresh(naming.place)

Noticed ==
    IF wantedDot = Current.want THEN Current
    ELSE [Current EXCEPT !.want = wantedDot, !.since = nameTick]

Deliberate(s) == s.want = "restarting" \/ s.shown = "restarting"

\* Whether this is the moment to rename.
RenameDue(s) ==
    /\ s.want # s.shown
    /\ s.shown = NoDot \/ Deliberate(s) \/ nameTick - s.since >= Settle
    /\ HasBudget(s)

Unseen == ns.there /\ ns.source # naming.place

\* Mutant: a rename that failed counts as shown.
OutcomesShown(s) ==
    /\ UNCHANGED <<dots, renamed, doubt>>
    /\ ns' = [s EXCEPT !.shown = s.want]

\* renameFor: the name already has the dot; Discord renames; it refuses or
\* cannot be asked; it renames and the answer is lost.
Outcomes(s) ==
    LET place == s.source
        kept == [s EXCEPT !.renames = Recent(s)]
        since == IF Unseen THEN << >> ELSE renamed
    IN
    \/ /\ dots[place] = s.want
       /\ ns' = [kept EXCEPT !.shown = s.want]
       /\ doubt' = doubt \ {place}
       /\ renamed' = since /\ UNCHANGED dots
    \/ /\ dots[place] # s.want
       /\ dots' = [dots EXCEPT ![place] = s.want]
       /\ ns' = [kept EXCEPT !.shown = s.want, !.renames = Append(@, nameTick)]
       /\ renamed' = Append(since, nameTick)
       /\ doubt' = doubt \ {place}
    \/ \E wait \in RetryAfters :
          /\ ns' = [kept EXCEPT !.retry = nameTick + wait]
          /\ renamed' = since
          /\ \/ UNCHANGED <<dots, doubt>>
             \/ dots[place] # s.want /\ dots' = [dots EXCEPT ![place] = s.want] /\ doubt' = doubt \cup {place}

NameRenamed ==
    /\ ~unsaved /\ naming.on /\ wantedDot # NoDot
    /\ nameTick >= Current.retry /\ RenameDue(Noticed)
    /\ Outcomes(Noticed)
    /\ unsaved' = TRUE
    /\ UNCHANGED <<nameTick, naming, wantedDot, nsFile, nameTurns, upsets>>

\* Held back, not known yet, shown already, too soon or no budget.
NameLeft ==
    LET held == nameTick < Current.retry \/ wantedDot = NoDot IN
    /\ ~unsaved /\ naming.on
    /\ held \/ ~RenameDue(Noticed)
    /\ ns' = IF held THEN Current ELSE Noticed
    /\ ns' # ns
    /\ renamed' = IF Unseen THEN << >> ELSE renamed
    /\ unsaved' = TRUE
    /\ UNCHANGED <<nameTick, naming, wantedDot, nsFile, dots, doubt, nameTurns, upsets>>

\* A channel no longer named gets its plain name back if the budget allows
\* and Discord agrees; its record goes either way.
NameGivenUp ==
    /\ ~unsaved /\ ~naming.on /\ ns.there
    /\ \/ UNCHANGED dots
       \/ ns.shown # NoDot /\ HasBudget(ns) /\ dots' = [dots EXCEPT ![ns.source] = NoDot]
    /\ ns' = NoName
    /\ renamed' = << >>
    /\ unsaved' = TRUE
    /\ UNCHANGED <<nameTick, naming, wantedDot, nsFile, doubt, nameTurns, upsets>>

\* A save that fails is only logged.
NamesSaved ==
    /\ unsaved /\ unsaved' = FALSE
    /\ \/ nsFile' = ns /\ UNCHANGED upsets
       \/ upsets < MaxUpsets /\ upsets' = upsets + 1 /\ UNCHANGED nsFile
    /\ UNCHANGED <<nameTick, naming, wantedDot, ns, dots, renamed, doubt, nameTurns>>

\* A save of the cards, and the one at the end, saves the names too.
CardsSaved ==
    /\ ~unsaved /\ nsFile # ns
    /\ nsFile' = ns
    /\ UNCHANGED <<nameTick, naming, wantedDot, ns, unsaved, dots, renamed, doubt, nameTurns, upsets>>

----------------------------------------------------------------------------
(* The end of the process, and what goes on meanwhile *)

\* What was not saved is lost, the renames made since among it: the next process
\* counts from the file.  It has not probed the server yet.
LoopRestarts ==
    /\ upsets < MaxUpsets /\ upsets' = upsets + 1
    /\ IF nsFile # ns
       THEN /\ doubt' = NamePlaces
            /\ renamed' = IF nsFile.there THEN nsFile.renames ELSE << >>
       ELSE UNCHANGED <<renamed, doubt>>
    /\ ns' = nsFile /\ unsaved' = FALSE /\ wantedDot' = NoDot
    /\ UNCHANGED <<nameTick, naming, nsFile, dots, nameTurns>>

NameTickPasses ==
    /\ nameTick < LastNameTick /\ nameTick' = nameTick + 1
    /\ UNCHANGED <<naming, wantedDot, ns, nsFile, unsaved, dots, renamed, doubt, nameTurns, upsets>>

DotTurns(dot) ==
    /\ nameTurns < MaxNameTurns /\ wantedDot # dot
    /\ nameTurns' = nameTurns + 1 /\ wantedDot' = dot
    /\ UNCHANGED <<nameTick, naming, ns, nsFile, unsaved, dots, renamed, doubt, upsets>>

NamingEdited(on, place) ==
    /\ upsets < MaxUpsets /\ naming # [on |-> on, place |-> place]
    /\ upsets' = upsets + 1 /\ naming' = [on |-> on, place |-> place]
    /\ UNCHANGED <<nameTick, wantedDot, ns, nsFile, unsaved, dots, renamed, doubt, nameTurns>>

\* Someone, or PZAdmin for another webhook of the channel, changes its dot.
RenamedByOther(place, dot) ==
    /\ upsets < MaxUpsets /\ dots[place] # dot
    /\ upsets' = upsets + 1
    /\ dots' = [dots EXCEPT ![place] = dot] /\ doubt' = doubt \cup {place}
    /\ UNCHANGED <<nameTick, naming, wantedDot, ns, nsFile, unsaved, renamed, nameTurns>>

NamesInit ==
    /\ nameTick = 0 /\ naming \in [on: {TRUE}, place: NamePlaces]
    /\ wantedDot = NoDot /\ ns = NoName /\ nsFile = NoName /\ unsaved = FALSE
    /\ dots = [p \in NamePlaces |-> NoDot]
    /\ renamed = << >> /\ doubt = {}
    /\ nameTurns = 0 /\ upsets = 0

NamesNext ==
    \/ NameRenamed \/ NameLeft \/ NameGivenUp \/ NamesSaved \/ CardsSaved \/ LoopRestarts \/ NameTickPasses
    \/ \E dot \in Dots : DotTurns(dot)
    \/ \E place \in NamePlaces :
          \/ \E dot \in OtherDots : RenamedByOther(place, dot)
          \/ \E on \in BOOLEAN : NamingEdited(on, place)

NamesSpec == NamesInit /\ [][NamesNext]_nameVars

----------------------------------------------------------------------------
(* Properties *)

NamesTypeOK ==
    /\ naming \in [on: BOOLEAN, place: NamePlaces] /\ wantedDot \in Dots \cup {NoDot}
    /\ \A s \in {ns, nsFile} :
          /\ s.source \in NamePlaces /\ {s.want, s.shown} \subseteq Dots \cup {NoDot}
          /\ s.since \in 0..LastNameTick /\ s.retry \in Nat /\ s.renames \in Seq(0..LastNameTick)
    /\ dots \in [NamePlaces -> Dots \cup {NoDot}] /\ doubt \subseteq NamePlaces

\* Whatever the server does and however often PZAdmin starts, it renames a channel
\* for one webhook at most RenamesPerWindow times in any RenameWindow, as far as
\* its record goes: one that is dropped, or older on disk when PZAdmin starts,
\* begins a new count.
RenamesArePaced ==
    \A n \in DOMAIN renamed :
        n + RenamesPerWindow \in DOMAIN renamed
          => renamed[n + RenamesPerWindow] - renamed[n] >= RenameWindow

\* The dot PZAdmin believes shown, and so does not send again, is shown, unless
\* somebody else changed it, an answer was lost, or a save before a restart.
ShownIsThere ==
    ns.there /\ ns.shown # NoDot /\ ns.source \notin doubt => dots[ns.source] = ns.shown

DotsAreTrue == RenamesArePaced /\ ShownIsThere
=============================================================================
