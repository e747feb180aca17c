------------------------------ MODULE StatusCards ------------------------------
(***************************************************************************)
(* The status messages PZAdmin keeps in Discord: one per server in each     *)
(* channel that asks for them, edited in place (internal/server/            *)
(* livestatus.go, the card part of internal/notify/notify.go, targetFor and *)
(* targetFromKey of webhooks.go).  One loop owns the board; Discord may     *)
(* refuse a call, carry it out although the answer is lost, answer that a   *)
(* message is gone when it is its webhook that is, and lose a message to    *)
(* someone who deletes it.  Saves of the board may fail.                    *)
(***************************************************************************)
EXTENDS Naturals, Sequences, FiniteSets

CONSTANTS
    Hooks, Watched,     \* webhooks of the configuration, servers
    Places,             \* Target.Key: webhook addresses and bot channels
    CardStates,         \* what a card may say (cardHash)
    MaxPosts, MaxEdits, MaxTurns, MaxBoots  \* bounds: posts, edits of the
                        \* configuration, changes of the servers, starts

\* A card's hash is never empty: that is the record of a paused one.
ASSUME CardsAssumption == "" \notin CardStates

VARIABLES
    hooks,      \* Notify.Webhooks: the place and the servers of each, none
                \* when it is off or its target is not valid
    says,       \* what each server's card would say, or Unsaid: not probed yet
    board,      \* liveBoard.Cards
    boardFile,  \* livestatus.json
    saveFailed, \* history: the last save of the board failed
    backing,    \* the hooks liveBoard.backoff holds back
    sync,       \* liveStatusLoop: pc, the configuration it read, what is left
    messages,   \* external: the messages, by ID
    stray,      \* history: messages no record leads to any more
    unsure,     \* history: records whose last edit got no answer, or was
                \* not saved
    edits, turns, boots

cardVars == <<hooks, says, board, boardFile, saveFailed, backing, sync, messages, stray, unsure, edits, turns, boots>>

Pairs == Hooks \X Watched
Unsaid == "unsaid"
Paused == "paused"
NoCard == [id |-> 0, url |-> CHOOSE p \in Places : TRUE, hash |-> ""]
Resting == [pc |-> "idle", hooks |-> <<>>, todo |-> {}, extra |-> {}, changed |-> FALSE]
Wanted(hs) == {pair \in Pairs : pair[2] \in hs[pair[1]].servers}
Cards(b) == {pair \in Pairs : b[pair].id # 0}
Message(place, text) == [place |-> place, text |-> text, there |-> TRUE]

\* The message of this record is where the record says.
Reachable(card) == messages[card.id].there /\ messages[card.id].place = card.url

----------------------------------------------------------------------------
(* put *)

\* Mutant: a message that moves is edited where it is, under its new address.
MovesBlindly(pair, place) ==
    /\ board' = [board EXCEPT ![pair].url = place, ![pair].hash = says[pair[2]]]
    /\ UNCHANGED <<messages, stray>>

\* The channel points somewhere else: the old message goes, whether or not
\* Discord agrees, and its record with it.
Moves(pair, place) ==
    /\ board' = [board EXCEPT ![pair] = NoCard]
    /\ \/ messages' = [messages EXCEPT ![board[pair].id].there = FALSE] /\ UNCHANGED stray
       \/ messages[board[pair].id].there /\ stray' = stray \cup {board[pair].id} /\ UNCHANGED messages

CardDone(pair) == sync' = [sync EXCEPT !.todo = @ \ {pair}, !.changed = TRUE]

\* fail: the hook's other cards wait for the next time too.
Fails(pair, wrote) ==
    /\ backing' = backing \cup {pair[1]}
    /\ sync' = [sync EXCEPT !.todo = {p \in @ : p[1] # pair[1]}, !.changed = @ \/ wrote]

\* Nothing to say, or nothing new.
CardPasses(pair) ==
    LET card == board[pair]  place == sync.hooks[pair[1]].place IN
    /\ sync.pc = "put" /\ pair \in sync.todo
    /\ \/ says[pair[2]] = Unsaid
       \/ card.id # 0 /\ card.url = place /\ card.hash = says[pair[2]]
    /\ sync' = [sync EXCEPT !.todo = @ \ {pair}]
    /\ UNCHANGED <<hooks, says, board, boardFile, saveFailed, backing, messages, stray, unsure, edits, turns, boots>>

TakesDown(pair) ==
    LET card == board[pair]  place == sync.hooks[pair[1]].place IN
    /\ sync.pc = "put" /\ pair \in sync.todo /\ says[pair[2]] # Unsaid
    /\ card.id # 0 /\ card.url # place
    /\ Moves(pair, place)
    /\ sync' = [sync EXCEPT !.changed = TRUE]
    /\ unsure' = unsure \ {pair}
    /\ UNCHANGED <<hooks, says, boardFile, saveFailed, backing, edits, turns, boots>>

\* Mutant: the record has the new text before Discord has.
EditsAtOnce(pair) ==
    LET card == board[pair]  text == says[pair[2]] IN
    /\ sync.pc = "put" /\ pair \in sync.todo /\ text # Unsaid
    /\ card.id # 0 /\ card.url = sync.hooks[pair[1]].place /\ card.hash # text
    /\ board' = [board EXCEPT ![pair].hash = text]
    /\ \/ /\ Reachable(card) /\ messages' = [messages EXCEPT ![card.id].text = text]
          /\ unsure' = unsure \ {pair} /\ CardDone(pair) /\ UNCHANGED backing
       \/ Fails(pair, FALSE) /\ UNCHANGED <<messages, unsure>>
    /\ UNCHANGED <<hooks, says, boardFile, saveFailed, stray, edits, turns, boots>>

\* EditCard works, is told 404, fails, or works without an answer.  404 means
\* the message is gone, or its webhook is and the message stays.
Edits(pair) ==
    LET card == board[pair]  text == says[pair[2]]
        Shown == messages' = [messages EXCEPT ![card.id].text = text]
    IN
    /\ sync.pc = "put" /\ pair \in sync.todo /\ text # Unsaid
    /\ card.id # 0 /\ card.url = sync.hooks[pair[1]].place /\ card.hash # text
    /\ \/ /\ Reachable(card) /\ Shown /\ CardDone(pair)
          /\ board' = [board EXCEPT ![pair].hash = text]
          /\ unsure' = unsure \ {pair} /\ UNCHANGED backing
          /\ UNCHANGED stray
       \/ /\ board' = [board EXCEPT ![pair] = NoCard]
          /\ stray' = IF messages[card.id].there THEN stray \cup {card.id} ELSE stray
          /\ sync' = [sync EXCEPT !.changed = TRUE]
          /\ unsure' = unsure \ {pair} /\ UNCHANGED <<messages, backing>>
       \/ Fails(pair, FALSE) /\ UNCHANGED <<board, messages, stray, unsure>>
       \/ /\ Reachable(card) /\ Shown /\ Fails(pair, FALSE)
          /\ unsure' = unsure \cup {pair} /\ UNCHANGED <<board, stray>>
    /\ UNCHANGED <<hooks, says, boardFile, saveFailed, edits, turns, boots>>

\* PostCard works, fails, or works without saying which message it made.
Posts(pair) ==
    LET text == says[pair[2]]  place == sync.hooks[pair[1]].place
        Made == messages' = Append(messages, Message(place, text))
    IN
    /\ sync.pc = "put" /\ pair \in sync.todo /\ text # Unsaid
    /\ board[pair].id = 0 /\ Len(messages) < MaxPosts
    /\ \/ /\ Made /\ CardDone(pair)
          /\ board' = [board EXCEPT ![pair] = [id |-> Len(messages) + 1, url |-> place, hash |-> text]]
          /\ UNCHANGED <<stray, backing>>
       \/ Fails(pair, TRUE) /\ UNCHANGED <<messages, board, stray>>
       \/ /\ Made /\ Fails(pair, TRUE)
          /\ stray' = stray \cup {Len(messages) + 1} /\ UNCHANGED board
    /\ UNCHANGED <<hooks, says, boardFile, saveFailed, unsure, edits, turns, boots>>

----------------------------------------------------------------------------
(* syncLiveStatus *)

SyncBegins ==
    /\ sync.pc = "idle"
    /\ sync' = [pc |-> "put", hooks |-> hooks, extra |-> Cards(board) \ Wanted(hooks), changed |-> FALSE,
                todo |-> {pair \in Wanted(hooks) : pair[1] \notin backing}]
    /\ UNCHANGED <<hooks, says, board, boardFile, saveFailed, backing, messages, stray, unsure, edits, turns, boots>>

\* A card that is no longer wanted; its record goes even when Discord refuses.
Removes(pair) ==
    /\ sync.pc = "put" /\ sync.todo = {} /\ pair \in sync.extra
    /\ board' = [board EXCEPT ![pair] = NoCard]
    /\ \/ messages' = [messages EXCEPT ![board[pair].id].there = FALSE] /\ UNCHANGED stray
       \/ messages[board[pair].id].there /\ stray' = stray \cup {board[pair].id} /\ UNCHANGED messages
    /\ sync' = [sync EXCEPT !.extra = @ \ {pair}, !.changed = TRUE]
    /\ unsure' = unsure \ {pair}
    /\ UNCHANGED <<hooks, says, boardFile, saveFailed, backing, edits, turns, boots>>

\* A save that fails is only logged, and not tried again; but the board is also
\* saved after a channel was renamed, whatever became of its cards.
SyncEnds ==
    /\ sync.pc = "put" /\ sync.todo = {} /\ sync.extra = {}
    /\ \/ boardFile' = board /\ saveFailed' = FALSE
       \/ sync.changed /\ saveFailed' = TRUE /\ UNCHANGED boardFile
       \/ ~sync.changed /\ UNCHANGED <<boardFile, saveFailed>>
    /\ sync' = Resting
    /\ UNCHANGED <<hooks, says, board, backing, messages, stray, unsure, edits, turns, boots>>

----------------------------------------------------------------------------
(* pauseLiveStatus *)

PauseBegins ==
    /\ sync.pc = "idle"
    /\ sync' = [Resting EXCEPT !.pc = "pause", !.todo = Cards(board)]
    /\ UNCHANGED <<hooks, says, board, boardFile, saveFailed, backing, messages, stray, unsure, edits, turns, boots>>

Pauses(pair) ==
    LET card == board[pair] IN
    /\ sync.pc = "pause" /\ pair \in sync.todo
    /\ sync' = [sync EXCEPT !.todo = @ \ {pair}]
    /\ \/ /\ Reachable(card)
          /\ messages' = [messages EXCEPT ![card.id].text = Paused]
          /\ \/ board' = [board EXCEPT ![pair].hash = ""] /\ unsure' = unsure \ {pair}
             \/ UNCHANGED board /\ unsure' = unsure \cup {pair}
       \/ UNCHANGED <<messages, board, unsure>>
    /\ UNCHANGED <<hooks, says, boardFile, saveFailed, backing, stray, edits, turns, boots>>

\* If this save fails it is as if PZAdmin had been killed before it.
PauseEnds ==
    /\ sync.pc = "pause" /\ sync.todo = {}
    /\ boardFile' = board /\ saveFailed' = FALSE
    /\ sync' = [Resting EXCEPT !.pc = "off"]
    /\ UNCHANGED <<hooks, says, board, backing, messages, stray, unsure, edits, turns, boots>>

----------------------------------------------------------------------------
(* A kill, a start, and what goes on meanwhile *)

\* What was posted and edited since the last save is only in memory.
Killed ==
    /\ sync.pc \in {"idle", "put", "pause"}
    /\ sync' = [Resting EXCEPT !.pc = "off"]
    /\ board' = boardFile
    /\ stray' = stray \cup {board[pair].id : pair \in {pair \in Cards(board) : boardFile[pair].id # board[pair].id}}
    /\ unsure' = {pair \in Cards(boardFile) : pair \in unsure \/ boardFile[pair] # board[pair]}
    /\ saveFailed' = FALSE
    /\ UNCHANGED <<hooks, says, boardFile, backing, messages, edits, turns, boots>>

Boots ==
    /\ sync.pc = "off" /\ boots < MaxBoots
    /\ boots' = boots + 1
    /\ board' = boardFile /\ backing' = {} /\ sync' = Resting
    /\ says' = [s \in Watched |-> Unsaid]
    /\ UNCHANGED <<hooks, boardFile, saveFailed, messages, stray, unsure, edits, turns>>

StateTurns(s, text) ==
    /\ turns < MaxTurns /\ says[s] # text
    /\ turns' = turns + 1 /\ says' = [says EXCEPT ![s] = text]
    /\ UNCHANGED <<hooks, board, boardFile, saveFailed, backing, sync, messages, stray, unsure, edits, boots>>

HooksEdited(h, place, servers) ==
    /\ edits < MaxEdits /\ hooks[h] # [place |-> place, servers |-> servers]
    /\ edits' = edits + 1
    /\ hooks' = [hooks EXCEPT ![h] = [place |-> place, servers |-> servers]]
    /\ UNCHANGED <<says, board, boardFile, saveFailed, backing, sync, messages, stray, unsure, turns, boots>>

BackoffEnds(h) ==
    /\ h \in backing /\ sync.pc = "idle"
    /\ backing' = backing \ {h}
    /\ UNCHANGED <<hooks, says, board, boardFile, saveFailed, sync, messages, stray, unsure, edits, turns, boots>>

\* Someone deletes a message.
MessageDeleted(id) ==
    /\ messages[id].there /\ edits < MaxEdits
    /\ edits' = edits + 1 /\ messages' = [messages EXCEPT ![id].there = FALSE]
    /\ UNCHANGED <<hooks, says, board, boardFile, saveFailed, backing, sync, stray, unsure, turns, boots>>

CardsInit ==
    /\ \E place \in Places : hooks = [h \in Hooks |-> [place |-> place, servers |-> Watched]]
    /\ says = [s \in Watched |-> Unsaid]
    /\ board = [pair \in Pairs |-> NoCard] /\ boardFile = board
    /\ saveFailed = FALSE /\ backing = {} /\ sync = Resting /\ messages = << >>
    /\ stray = {} /\ unsure = {} /\ edits = 0 /\ turns = 0 /\ boots = 0

CardsNext ==
    \/ SyncBegins \/ SyncEnds \/ PauseBegins \/ PauseEnds \/ Killed \/ Boots
    \/ \E pair \in Pairs :
          CardPasses(pair) \/ TakesDown(pair) \/ Edits(pair) \/ Posts(pair) \/ Removes(pair) \/ Pauses(pair)
    \/ \E s \in Watched, text \in CardStates : StateTurns(s, text)
    \/ \E h \in Hooks :
          \/ BackoffEnds(h)
          \/ \E place \in Places, servers \in SUBSET Watched : HooksEdited(h, place, servers)
    \/ \E id \in DOMAIN messages : MessageDeleted(id)

CardsSpec == CardsInit /\ [][CardsNext]_cardVars

----------------------------------------------------------------------------
(* Properties *)

CardsTypeOK ==
    /\ hooks \in [Hooks -> [place: Places, servers: SUBSET Watched]]
    /\ says \in [Watched -> CardStates \cup {Unsaid}]
    /\ {board, boardFile} \subseteq
         [Pairs -> [id: 0..Len(messages), url: Places, hash: CardStates \cup {""}]]
    /\ sync.pc \in {"idle", "put", "pause", "off"}
    /\ unsure \subseteq Pairs /\ stray \subseteq DOMAIN messages

\* No message is left behind in a channel: whatever is moved, deleted, refused
\* or restarted, every message PZAdmin put there is the one its board knows,
\* unless Discord never said it made it, would not delete it or said it was
\* gone, or PZAdmin stopped or was killed before the board was saved.
NoneLeftBehind ==
    /\ \A id \in DOMAIN messages :
          messages[id].there => id \in stray \/ \E pair \in Pairs : board[pair].id = id
    /\ \A p, q \in Cards(board) : board[p].id = board[q].id => p = q
    /\ \A p \in Cards(board) : Reachable(board[p]) \/ ~messages[board[p].id].there

\* What an unchanged hash lets the loop skip is really shown.
HashIsShown ==
    \A pair \in Cards(board) :
        LET card == board[pair] IN
        messages[card.id].there /\ pair \notin unsure =>
            messages[card.id].text = IF card.hash = "" THEN Paused ELSE card.hash

\* What the loop has done is saved when it rests, unless the last save failed.
RestIsSaved == sync.pc \in {"idle", "off"} /\ ~saveFailed => board = boardFile

CardsAreTrue == NoneLeftBehind /\ HashIsShown /\ RestIsSaved
=============================================================================
