----------------------------- MODULE RoomWindow -----------------------------
(***************************************************************************)
(* The messages of one room that the screen holds (src/beeper/             *)
(* beeper_ui_util.c) and the bubbles it fills with them (TexterUi).  The   *)
(* window of messages follows the LOAD and UNLOAD events of the widget and *)
(* asks the task of the client for chunks of the room; new messages come   *)
(* with /sync on their own.  The screen and the task are two threads with  *)
(* a queue each way; the server is external.  Left out: who wrote a        *)
(* message, edits and deletions, titles, the text that is sent.            *)
(***************************************************************************)
EXTENDS TexterUi

CONSTANTS Stamp,      \* the time of each event of the room, in its order
          NoMessages, \* those that are no messages
          Encrypted,  \* messages whose key comes late
          Posted,     \* how much of the room there is at the beginning
          Page,       \* how many events the server puts into one answer
          ReadAhead,  \* BEEPER_NEW_MESSAGE_READ_AHEAD
          MaxMoves    \* bound: what the user does

ASSUME WindowAssumption == Posted \in Nat /\ Page \in Nat /\ Encrypted \subseteq Nat

VARIABLES
    ui,        \* the widget (see TexterUi) with the window of the room:
               \*   list        msg_list, records [id, text, chunk, fut]
               \*   top, bot    bubble_top and bubble_bottom, as places in list
               \*   wanted      the requested chunk id of each side
               \*   behind      msg_window_is_not_caught_up
               \*   asked       requests that were sent
               \*   crashed     whether NULL was read
    posted,    \* how much of the room there is
    synced,    \* how much of it /sync has brought
    requests,  \* for the task: [chunk, dir]
    inbox,     \* c->queue: chunks and messages that could be decrypted
    readable,  \* encrypted messages whose key is there
    waiting,   \* those that the task tried to decrypt without it
    draining,  \* whether the screen is handling the widget's events
    moves

windowVars == <<ui, posted, synced, requests, inbox, readable, waiting, draining, moves>>

NoChunk == -1

NewMessage == [id |-> Nothing, text |-> FALSE, chunk |-> NoChunk, fut |-> Nothing]

EmptyUi ==
    [bubbles |-> <<>>, events |-> <<>>, text |-> [f \in Futures |-> Nothing],
     bub |-> {}, latest |-> {}, active |-> FALSE, pos |-> 0, failed |-> {},
     list |-> <<>>, top |-> 0, bot |-> 0,
     wanted |-> [up |-> NoChunk, down |-> NoChunk], behind |-> FALSE,
     asked |-> <<>>, crashed |-> FALSE]

WindowInit ==
    /\ ui = FirstFuture(EmptyUi, Min(Futures))
    /\ posted = Posted /\ synced = Posted
    /\ requests = <<>> /\ inbox = <<>>
    /\ readable = {} /\ waiting = {} /\ draining = FALSE /\ moves = 0
-----------------------------------------------------------------------------
Before(m, n) == Stamp[m] < Stamp[n] \/ (Stamp[m] = Stamp[n] /\ m < n)

Shows(e) == IF e.text THEN e.id ELSE Nothing

(* beeper_task_request_messages() for one side.                            *)
Request(w, dir, chunk) ==
    [w EXCEPT !.wanted[dir] = chunk,
              !.asked = Append(@, [chunk |-> chunk, dir |-> dir])]

(* The message gets the future, and the future the text if there is one.   *)
Lend(w, i, f) ==
    LET y == [w EXCEPT !.list[i].fut = f]
    IN  IF w.list[i].text THEN SetMessage(y, f, w.list[i].id) ELSE y

(* BUBBLE_LOAD at the top: the message above those that have a bubble.     *)
LoadTop(w, f) ==
    LET i     == IF w.top # 0 THEN w.top - 1 ELSE Len(w.list)
        chunk == IF w.top # 0 THEN w.list[w.top].chunk ELSE NoChunk
        y     == IF i # 0 THEN w
                 ELSE [w EXCEPT !.list = <<NewMessage>> \o @,
                                !.bot = IF @ = 0 THEN 0 ELSE @ + 1]
        k     == Max({i, 1})
        z     == Lend(y, k, f)
        asks  == y.list[k].id = Nothing /\ w.wanted.up = NoChunk
        r     == IF asks THEN Request(z, "up", chunk) ELSE z
    IN  [r EXCEPT !.top = k, !.bot = IF @ = 0 THEN k ELSE @]

(* BUBBLE_LOAD at the bottom: new messages come without being asked for,   *)
(* unless the window has lost them.                                        *)
LoadBottom(w, f) ==
    LET k     == IF w.bot # 0 THEN w.bot + 1 ELSE Max({Len(w.list), 1})
        chunk == IF w.bot # 0 THEN w.list[w.bot].chunk ELSE NoChunk
        y     == IF k <= Len(w.list) THEN w ELSE [w EXCEPT !.list = Append(@, NewMessage)]
        z     == Lend(y, k, f)
        asks  == y.list[k].id = Nothing /\ w.behind /\ w.wanted.down = NoChunk
        r     == IF asks THEN Request(z, "down", chunk) ELSE z
    IN  [r EXCEPT !.bot = k, !.top = IF @ = 0 THEN k ELSE @]

Emptied(w) ==
    [w EXCEPT !.list = <<>>, !.top = 0, !.bot = 0, !.behind = FALSE,
              !.wanted = [up |-> NoChunk, down |-> NoChunk]]

(* BUBBLE_UNLOAD at the top.                                               *)
UnloadTop(w) ==
    IF w.top = w.bot THEN Emptied(w)
    ELSE [w EXCEPT !.wanted.up = NoChunk,
                   !.list = SubSeq(@, w.top + 1, Len(@)),
                   !.top = 1, !.bot = @ - w.top]

\* Slip: the window forgets what was below without noting it.
UnloadBottomCaughtUp(w) ==
    IF w.top = w.bot THEN Emptied(w)
    ELSE [w EXCEPT !.wanted.down = NoChunk,
                   !.list = SubSeq(@, 1, w.bot - 1), !.bot = @ - 1]

(* BUBBLE_UNLOAD at the bottom.                                            *)
UnloadBottom(w) ==
    IF w.top = w.bot THEN Emptied(w)
    ELSE [w EXCEPT !.wanted.down = NoChunk, !.behind = TRUE,
                   !.list = SubSeq(@, 1, w.bot - 1), !.bot = @ - 1]

(* texter_event_cb()                                                       *)
TexterEvent(w, e) ==
    IF e.load
    THEN IF e.side = "top" THEN LoadTop(w, e.fut) ELSE LoadBottom(w, e.fut)
    ELSE IF e.side = "top" THEN UnloadTop(w) ELSE UnloadBottom(w)

(* event_timer_cb(), one event.                                            *)
FirstEventHandled(w) == TexterEvent([w EXCEPT !.events = Tail(@)], Head(w.events))
-----------------------------------------------------------------------------
(* The ROOM_MESSAGES event.  A chunk is [this, next, dir, msgs].           *)

(* Whether a chunk is taken in: one that was asked for if it still is, one *)
(* with new messages if the window is at the end of the room.              *)
StillWanted(w, c) == w.wanted[c.dir] # NoChunk /\ c.this = w.wanted[c.dir]

FollowsWindow(w) == ~w.behind /\ w.bot # 0

RoomAhead(w) == Len(w.list) - w.bot < ReadAhead

(* A message that was there without text gets it.                          *)
Updated(w, m) ==
    LET S == {i \in DOMAIN w.list : w.list[i].id = m.id}
    IN  IF S = {} \/ ~m.text THEN w
        ELSE LET i == Min(S)
             IN  IF w.list[i].fut = Nothing \/ w.list[i].text THEN w
                 ELSE SetMessage([w EXCEPT !.list[i].text = TRUE], w.list[i].fut, m.id)

(* The hole in the row of futures moves from place k in direction d, until *)
(* it is at the end of the row.                                            *)
MoveHole(w, k, d) ==
    LET f == w.list[k + d].fut
        y == [w EXCEPT !.list[k].fut = f, !.list[k + d].fut = Nothing]
        z == SetMessage(y, f, Shows(w.list[k]))
    IN  [z EXCEPT !.top = IF @ = k + d THEN k ELSE @, !.bot = IF @ = k + d THEN k ELSE @]

CloseHole(w, k, d) ==
    LET row == {n \in 0..Len(w.list) : \A j \in 1..n : k + j * d \in DOMAIN w.list
                                                     /\ w.list[k + j * d].fut # Nothing}
        closed[n \in 0..Max(row)] ==
            IF n = 0 THEN w ELSE MoveHole(closed[n - 1], k + (n - 1) * d, d)
    IN  closed[Max(row)]

IsIdle(e) == e.fut = Nothing /\ e.id = Nothing

Inserted(w, k, e) ==
    [w EXCEPT !.list = InsertAt(@, k, e),
              !.top = IF @ >= k THEN @ + 1 ELSE @,
              !.bot = IF @ >= k THEN @ + 1 ELSE @]

WithoutIdleEnd(w, d) ==
    IF d < 0 THEN IF ~IsIdle(Head(w.list)) THEN w
                  ELSE [w EXCEPT !.list = Tail(@), !.top = @ - 1, !.bot = @ - 1]
    ELSE IF ~IsIdle(Last(w.list)) THEN w ELSE [w EXCEPT !.list = Front(@)]

Placed(w, k, e, d) == WithoutIdleEnd(CloseHole(Inserted(w, k, e), k, d), d)

Filled(w, k, e) ==
    LET y == [w EXCEPT !.list[k] = [e EXCEPT !.fut = w.list[k].fut]]
    IN  IF e.text THEN SetMessage(y, w.list[k].fut, e.id) ELSE y

(* A new message goes to its place in time.  If the future next to that    *)
(* place waits for a message, it is used; otherwise the message goes       *)
(* between two and the futures on one side move over.                      *)
Incorporated(w, m, c) ==
    LET chunk == IF c.next # NoChunk THEN c.next ELSE c.this
        e     == [NewMessage EXCEPT !.id = m.id, !.text = m.text, !.chunk = chunk]
        known == {i \in DOMAIN w.list : w.list[i].id # Nothing}
        after == {i \in known : Before(m.id, w.list[i].id)} \union {Len(w.list) + 1}
        below == {i \in known : Before(w.list[i].id, m.id)} \union {0}
        k     == IF c.dir = "up" THEN Min(after) ELSE Max(below)
        d     == IF c.dir = "up" THEN -1 ELSE 1
    IN  IF chunk = NoChunk THEN [w EXCEPT !.crashed = TRUE]
        ELSE IF k + d \in DOMAIN w.list /\ w.list[k + d].id = Nothing
             THEN Filled(w, k + d, e)
        ELSE Placed(w, IF d < 0 THEN k ELSE k + 1, e, d)

\* Slip: after the last chunk the window does not become caught up.
AskedOnBehind(w, c) ==
    LET end == IF c.dir = "up" THEN w.top ELSE w.bot
    IN  IF c.this # NoChunk /\ c.next # NoChunk /\ end # 0 /\ w.list[end].id = Nothing
        THEN Request(w, c.dir, c.next) ELSE w

(* More is asked for while the bubble at that end waits.  After the last   *)
(* chunk the window is at the end of the room, and asks once more.         *)
AskedOn(w, c) ==
    LET end == IF c.dir = "up" THEN w.top ELSE w.bot
    IN  IF c.this = NoChunk THEN w
        ELSE IF c.next # NoChunk
             THEN IF end # 0 /\ w.list[end].id = Nothing THEN Request(w, c.dir, c.next) ELSE w
        ELSE IF c.dir = "down" /\ w.behind
             THEN [Request(w, "down", c.this) EXCEPT !.behind = FALSE]
        ELSE w

AllUpdated(w, s) ==
    LET done[n \in 0..Len(s)] == IF n = 0 THEN w ELSE Updated(done[n - 1], s[n])
    IN  done[Len(s)]

AllIncorporated(w, c, known) ==
    LET done[n \in 0..Len(c.msgs)] ==
            IF n = 0 THEN w
            ELSE IF c.msgs[n].id \in known THEN done[n - 1]
            ELSE Incorporated(done[n - 1], c.msgs[n], c)
    IN  done[Len(c.msgs)]

Processed(w, c) ==
    AskedOn(AllIncorporated(AllUpdated(w, c.msgs), c, {w.list[i].id : i \in DOMAIN w.list}), c)

RoomMessages(w, c) ==
    IF c.this # NoChunk
    THEN IF StillWanted(w, c)
         THEN Processed([w EXCEPT !.wanted[c.dir] = NoChunk], c) ELSE w
    ELSE IF ~FollowsWindow(w) THEN w
    ELSE IF RoomAhead(w) THEN Processed(w, c) ELSE [w EXCEPT !.behind = TRUE]

\* Slip: the message gets its text, its bubble does not.
MessageDecryptedAlone(w, id) ==
    LET S == {i \in DOMAIN w.list : w.list[i].id = id}
    IN  IF S = {} THEN w ELSE [w EXCEPT !.list[Min(S)].text = TRUE]

(* The MESSAGE_DECRYPTED event.                                            *)
MessageDecrypted(w, id) ==
    LET S == {i \in DOMAIN w.list : w.list[i].id = id}
    IN  IF S = {} \/ w.list[Min(S)].text THEN w
        ELSE LET i == Min(S)
                 y == [w EXCEPT !.list[i].text = TRUE]
             IN  IF w.list[i].fut = Nothing THEN y ELSE SetMessage(y, w.list[i].fut, id)
-----------------------------------------------------------------------------
Runs == ui.failed = {} /\ ~ui.crashed

(* The screen goes on with w, and sends what it asks for.                  *)
Becomes(w) ==
    /\ ui' = [w EXCEPT !.asked = <<>>]
    /\ requests' = requests \o w.asked

(* queue_poll_cb(), one item.                                              *)
QueuePoll ==
    /\ Runs /\ ~draining /\ inbox # <<>>
    /\ Becomes(IF Head(inbox).msgs = <<>> /\ Head(inbox).id # Nothing
               THEN MessageDecrypted(ui, Head(inbox).id) ELSE RoomMessages(ui, Head(inbox)))
    /\ inbox' = Tail(inbox)
    /\ UNCHANGED <<posted, synced, readable, waiting, draining, moves>>

(* The screen handles all events, those that come meanwhile too, before it *)
(* does anything else; the task goes on beside it.                         *)
EventTimer ==
    /\ Runs /\ ui.events # <<>>
    /\ Becomes(FirstEventHandled(ui))
    /\ draining' = (ui'.events # <<>>)
    /\ UNCHANGED <<posted, synced, inbox, readable, waiting, moves>>

Moves(w) ==
    /\ Runs /\ ~draining /\ moves < MaxMoves
    /\ moves' = moves + 1
    /\ Becomes(w)
    /\ UNCHANGED <<posted, synced, inbox, readable, waiting, draining>>

OpenRoom == ~ui.active /\ Moves(OpenConvo(ui))
GoBack == ui.active /\ Moves(Back(ui))
ScrollBy(d) == ui.active /\ ui.pos + d \in 0..LastPos(ui) /\ Moves(Scroll(ui, d))
-----------------------------------------------------------------------------
(* The task: what a chunk with the events of s contains.                   *)
IsReadable(m) == m \notin Encrypted \/ m \in readable

MessagesOf(s) ==
    LET among[n \in 0..Len(s)] == IF n = 0 THEN <<>>
                                 ELSE IF s[n] \in NoMessages THEN among[n - 1]
                                 ELSE Append(among[n - 1], s[n])
    IN  among[Len(s)]

Sends(this, next, dir, s) ==
    LET ms == MessagesOf(s)
    IN  /\ inbox' = Append(inbox, [this |-> this, next |-> next, dir |-> dir, id |-> Nothing,
                                   msgs |-> [i \in DOMAIN ms |->
                                               [id |-> ms[i], text |-> IsReadable(ms[i])]]])
        /\ waiting' = waiting \union {m \in Range(ms) : ~IsReadable(m)}

(* REQUEST_MESSAGES: a chunk is named by the number of events before it.   *)
RequestMessages ==
    /\ requests # <<>>
    /\ LET r    == Head(requests)
           from == IF r.chunk = NoChunk THEN posted ELSE r.chunk
           low  == Max({from - Page, 0})
           high == Min({from + Page, posted})
       IN  IF r.dir = "up"
           THEN Sends(r.chunk, IF low = 0 THEN NoChunk ELSE low, "up",
                      [i \in 1..from - low |-> from + 1 - i])
           ELSE Sends(r.chunk, IF high = posted THEN NoChunk ELSE high, "down",
                      [i \in 1..high - from |-> from + i])
    /\ requests' = Tail(requests)
    /\ UNCHANGED <<ui, posted, synced, readable, draining, moves>>

(* The timeline of the answer to /sync.                                    *)
Sync ==
    /\ synced < posted
    /\ Sends(NoChunk, synced, "down", [i \in 1..posted - synced |-> synced + i])
    /\ synced' = posted
    /\ UNCHANGED <<ui, posted, requests, readable, draining, moves>>

(* handle_room_key_event()                                                 *)
KeyArrives(m) ==
    /\ m \in Encrypted \ readable
    /\ readable' = readable \union {m}
    /\ waiting' = waiting \ {m}
    /\ inbox' = IF m \in waiting
                THEN Append(inbox, [this |-> NoChunk, next |-> NoChunk, dir |-> "down",
                                    id |-> m, msgs |-> <<>>])
                ELSE inbox
    /\ UNCHANGED <<ui, posted, synced, requests, draining, moves>>

Post ==
    /\ posted < Len(Stamp)
    /\ posted' = posted + 1
    /\ UNCHANGED <<ui, synced, requests, inbox, readable, waiting, draining, moves>>

WindowNext ==
    \/ QueuePoll \/ EventTimer \/ OpenRoom \/ GoBack
    \/ \E d \in {-1, 1} : ScrollBy(d)
    \/ RequestMessages \/ Sync \/ Post
    \/ \E m \in Encrypted : KeyArrives(m)

WindowSpec == WindowInit /\ [][WindowNext]_windowVars
-----------------------------------------------------------------------------
(* No future is put into the list of events twice, and no assertion of     *)
(* future_set_message() fails but that a future above others that gets its *)
(* first text is not the latest one ("top"), which can: what the program   *)
(* does with the futures, in any order, is what the widget relies on.      *)
WidgetAssertionsHold == ui.failed \subseteq {"top"}

(* The futures that the messages between bubble_top and bubble_bottom hold *)
(* become the bubbles of the widget once the events in its queue have been *)
(* handled, each UNLOAD letting go of exactly the message at that side: no *)
(* message keeps a future that is freed, though it holds no reference.     *)
Held == [i \in 1..ui.bot - ui.top + (IF ui.bot = 0 THEN 0 ELSE 1) |-> ui.list[ui.top + i - 1].fut]

WhenHandled(s, e) ==
    IF e.load THEN IF e.side = "top" THEN <<e.fut>> \o s ELSE Append(s, e.fut)
    ELSE IF s = <<>> THEN <<Nothing>>
    ELSE IF e.side = "top"
         THEN IF Head(s) = e.fut THEN Tail(s) ELSE <<Nothing>>
         ELSE IF Last(s) = e.fut THEN Front(s) ELSE <<Nothing>>

AfterAll(events) ==
    LET after[n \in 0..Len(events)] ==
            IF n = 0 THEN Held ELSE WhenHandled(after[n - 1], events[n])
    IN  after[Len(events)]

WindowMatchesBubbles ==
    Runs => /\ AfterAll(ui.events) = ui.bubbles
            /\ \A i \in DOMAIN ui.list :
                  ui.list[i].fut # Nothing => i \in ui.top..ui.bot

(* Each bubble shows the text of the message that holds its future.        *)
BubblesShowTheirMessages ==
    Runs => \A i \in DOMAIN ui.list :
               ui.list[i].fut \in Range(ui.bubbles) =>
                   ui.text[ui.list[i].fut] = Shows(ui.list[i])

(* What /sync brought after the last message of a window that is not       *)
(* marked as behind is still in the queue.                                 *)
Messages == {ui.list[i].id : i \in DOMAIN ui.list} \ {Nothing}

InInbox(m) == \E i \in DOMAIN inbox : \E j \in DOMAIN inbox[i].msgs : inbox[i].msgs[j].id = m

FollowsTheRoom ==
    Runs /\ ~ui.behind /\ Messages # {} =>
        \A m \in (Max(Messages) + 1..synced) \ NoMessages : InInbox(m)

(* A window that follows the room goes on to do so, from when it is empty  *)
(* and whatever is loaded, let go of or passed over, or it is marked as    *)
(* behind: nothing new is passed over without the mark.  Excepted is the   *)
(* step in which a window that is marked becomes caught up, by the last    *)
(* chunk it asked for: what it has then may end below the last message.    *)
BecomesCaughtUp == ui.behind /\ ~ui'.behind

WindowKeepsUp == [][FollowsTheRoom /\ ~BecomesCaughtUp => FollowsTheRoom']_windowVars

(* When nothing is on its way any more, a bubble that waits at the bottom  *)
(* is not one of a window that is behind: each chunk it needs is asked     *)
(* for, and none that is not wanted any more or is passed over leaves it   *)
(* waiting.  And if the window has the last message of the room, that is   *)
(* what the bubble above shows.  It is not promised that the window has    *)
(* it: one that became caught up too early may not, and one whose first    *)
(* chunk held no message does not ask for another.                         *)
Settled ==
    /\ Runs /\ ui.events = <<>> /\ requests = <<>> /\ inbox = <<>>
    /\ synced = posted /\ readable = Encrypted

LastMessage == Max((1..posted) \ NoMessages)

NoBubbleWaitsInVain ==
    Settled /\ ui.text[Last(ui.bubbles)] = Nothing =>
        /\ ~ui.behind
        /\ LastMessage \in Messages =>
              /\ Len(ui.bubbles) > 1
              /\ ui.text[ui.bubbles[Len(ui.bubbles) - 1]] = LastMessage
=============================================================================
