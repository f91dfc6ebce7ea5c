------------------------------ MODULE RoomKeys ------------------------------
(***************************************************************************)
(* How the messages of a room become readable (src/beeper/                 *)
(* beeper_task.c).  Each message is encrypted in a session whose key comes *)
(* on its own, before or after the message.  Keys are kept in a small      *)
(* cache, least recently used first to go, and in one file per session;    *)
(* messages without a key wait under their session, and the bridge's bot   *)
(* is asked for it.  A key opens its session from some index on.  Only the *)
(* files outlive the program: messages come again after a restart, keys    *)
(* do not, because what carried them can be decrypted once (OneTimeKeys).  *)
(* One room; the bot and the people who write are external.                *)
(***************************************************************************)
EXTENDS Integers, Sequences, FiniteSets, SequencesExt

CONSTANTS Timeline,    \* the room: a sequence of records [session, index]
          Earliest,    \* the first index of the key of each session that the bot sends unasked
          Capacity,    \* ROOM_SESSION_LRU_COUNT
          MaxAnswers,  \* bound: how often the bot answers a request
          MaxCrashes   \* bound: how often the program dies

Sessions == {Timeline[m].session : m \in DOMAIN Timeline}

VARIABLES
    posted,      \* how much of the timeline is there
    low, next,   \* this run has got the messages low..next - 1
    bridgebot,   \* whether room->bridgebot is known
    decrypting,  \* room->decrypting: for each session, whether it waits,
                 \*    whether the bot was asked, and the messages in order
    lru,         \* room->session_lru, without the empty slots
    file,        \* rooms/<id>/<session>: the first index of the key, or below
    up,          \* "up", "down", or "aborted" by a failed assertion
    shown,       \* messages whose text went to the screen in this run
    stuck,       \* messages that a key came for without opening them
    inbox,       \* keys on their way to this device
    unasked,     \* sessions whose key the bot has not sent on its own
    requests,    \* sessions the bot was asked for
    answers, crashes

keyVars == <<decrypting, lru, file>>
botVars == <<inbox, unasked, requests, answers>>
vars == <<posted, low, next, bridgebot, keyVars, up, shown, stuck, botVars, crashes>>

NoFile == -1
Torn == -2  \* opened with O_TRUNC and not written

NotWaiting == [waits |-> FALSE, asked |-> FALSE, msgs |-> <<>>]

NewRun ==
    /\ low' \in 1..posted + 1 /\ next' = low'
    /\ bridgebot' = FALSE
    /\ decrypting' = [s \in Sessions |-> NotWaiting]
    /\ lru' = <<>> /\ shown' = {} /\ stuck' = {}

Init ==
    /\ posted = 0 /\ low = 1 /\ next = 1 /\ bridgebot = FALSE
    /\ decrypting = [s \in Sessions |-> NotWaiting]
    /\ lru = <<>> /\ file = [s \in Sessions |-> NoFile]
    /\ up = "up" /\ shown = {} /\ stuck = {}
    /\ inbox = <<>> /\ unasked = Sessions /\ requests = {}
    /\ answers = 0 /\ crashes = 0
-----------------------------------------------------------------------------
Opens(first, m) == Timeline[m].index >= first

Entry(s) == {i \in DOMAIN lru : lru[i].session = s}

(* beeper_lru_add_unchecked(): the last one makes room.  It was saved when *)
(* it was used, so that its file is as good.                               *)
WithFirst(e, others) ==
    <<e>> \o SubSeq(others, 1, IF Len(others) < Capacity THEN Len(others) ELSE Capacity - 1)

(* beeper_lru_get(): the one that was found becomes the first.             *)
Used(i) == <<lru[i]>> \o RemoveAt(lru, i)

\* Slip: the message is appended without looking whether it waits already.
AppendAlways(msgs, m) == Append(msgs, m)

Appended(msgs, m) == IF m \in Range(msgs) THEN msgs ELSE Append(msgs, m)

Reads(m, first) ==
    IF Opens(first, m)
    THEN shown' = shown \union {m} /\ UNCHANGED stuck
    ELSE stuck' = stuck \union {m} /\ UNCHANGED shown

(* room_decrypt_message(), and room_save_sessions() after it.              *)
RoomDecryptMessage(m) ==
    LET s == Timeline[m].session
    IN \/ /\ decrypting[s].waits
          /\ decrypting' = [decrypting EXCEPT ![s].msgs = Appended(@, m)]
          /\ UNCHANGED <<lru, file, up, shown, stuck, requests>>
       \/ /\ ~decrypting[s].waits
          /\ \E i \in Entry(s) : lru' = Used(i) /\ Reads(m, lru[i].first)
          /\ UNCHANGED <<decrypting, file, up, requests>>
       \/ /\ ~decrypting[s].waits /\ Entry(s) = {} /\ file[s] >= 0
          /\ lru' = WithFirst([session |-> s, first |-> file[s]], lru)
          /\ Reads(m, file[s])
          /\ UNCHANGED <<decrypting, file, up, requests>>
       \/ /\ ~decrypting[s].waits /\ Entry(s) = {} /\ file[s] = Torn
          /\ up' = "aborted"
          /\ UNCHANGED <<keyVars, shown, stuck, requests>>
       \/ /\ ~decrypting[s].waits /\ Entry(s) = {} /\ file[s] = NoFile
          /\ decrypting' = [decrypting EXCEPT ![s] =
                                [waits |-> TRUE, asked |-> bridgebot, msgs |-> <<m>>]]
          /\ requests' = IF bridgebot THEN requests \union {s} ELSE requests
          /\ UNCHANGED <<lru, file, up, shown, stuck>>

(* The timeline of the answer to /sync.                                    *)
SyncMessage ==
    /\ up = "up" /\ next <= posted
    /\ next' = next + 1
    /\ RoomDecryptMessage(next)
    /\ UNCHANGED <<posted, low, bridgebot, inbox, unasked, answers, crashes>>

(* REQUEST_MESSAGES: the screen wants older messages, or some it had.      *)
LoadMessage(m) ==
    /\ up = "up" /\ m \in low - 1..next - 1 /\ m > 0
    /\ low' = IF m < low THEN m ELSE low
    /\ RoomDecryptMessage(m)
    /\ UNCHANGED <<posted, next, bridgebot, inbox, unasked, answers, crashes>>

\* Slip: those that wait already are not asked for when the bot gets known.
AsksForNone(d) == {}

AsksFor(d) == {s \in Sessions : d[s].waits /\ ~d[s].asked}

(* The m.bridge event: now the bot can be asked for what waits.            *)
HandleBridge ==
    /\ up = "up" /\ ~bridgebot
    /\ bridgebot' = TRUE
    /\ requests' = requests \union AsksFor(decrypting)
    /\ decrypting' = [s \in Sessions |->
                         [decrypting[s] EXCEPT !.asked = @ \/ s \in AsksFor(decrypting)]]
    /\ UNCHANGED <<posted, low, next, lru, file, up, shown, stuck, inbox, unasked, answers,
                   crashes>>
-----------------------------------------------------------------------------
Key == Head(inbox)

(* The messages before the first one that the key does not open.           *)
Opened(msgs, first) ==
    {msgs[i] : i \in {j \in DOMAIN msgs : \A k \in 1..j : Opens(first, msgs[k])}}

Known(s) == Entry(s) # {} \/ file[s] # NoFile

(* handle_room_key_event().  The key and all that waits for it; or a key   *)
(* that is there already; or a new one.                                    *)
HandleRoomKey ==
    /\ up = "up" /\ inbox # <<>>
    /\ inbox' = Tail(inbox)
    /\ LET s == Key.session
       IN \/ /\ decrypting[s].waits
             /\ lru' = WithFirst(Key, lru)
             /\ shown' = shown \union Opened(decrypting[s].msgs, Key.first)
             /\ stuck' = stuck \union (Range(decrypting[s].msgs) \ shown')
             /\ decrypting' = [decrypting EXCEPT ![s] = NotWaiting]
             /\ file' = [file EXCEPT ![s] = Key.first]
          \/ /\ ~decrypting[s].waits /\ Known(s)
             /\ UNCHANGED <<keyVars, shown, stuck>>
          \/ /\ ~decrypting[s].waits /\ ~Known(s)
             /\ lru' = WithFirst(Key, lru)
             /\ file' = [file EXCEPT ![s] = Key.first]
             /\ UNCHANGED <<decrypting, shown, stuck>>
    /\ UNCHANGED <<posted, low, next, bridgebot, up, unasked, requests, answers, crashes>>
-----------------------------------------------------------------------------
(* The program dies: between two events, while a session that a message    *)
(* was just read in is saved, or while a key is handled, which is then     *)
(* lost with or without the file.  After a failed assertion it dies too.   *)
Crash ==
    /\ up # "down"
    /\ \/ up = "aborted" /\ UNCHANGED crashes
       \/ crashes < MaxCrashes /\ crashes' = crashes + 1
    /\ up' = "down"
    /\ \/ UNCHANGED <<file, inbox>>
       \/ /\ up = "up" /\ UNCHANGED inbox
          /\ \E i \in DOMAIN lru : file' = [file EXCEPT ![lru[i].session] = Torn]
       \/ /\ up = "up" /\ inbox # <<>>
          /\ inbox' = Tail(inbox)
          /\ \/ UNCHANGED file
             \/ file' = [file EXCEPT ![Key.session] = IF Known(Key.session) THEN @ ELSE Torn]
    /\ UNCHANGED <<posted, low, next, bridgebot, decrypting, lru, shown, stuck, unasked,
                   requests, answers>>

Restart ==
    /\ up = "down"
    /\ up' = "up"
    /\ NewRun
    /\ UNCHANGED <<posted, file, botVars, crashes>>

(* External: people write, the bot shares keys and answers requests.       *)
Post ==
    /\ posted < Len(Timeline)
    /\ posted' = posted + 1
    /\ UNCHANGED <<low, next, bridgebot, keyVars, up, shown, stuck, botVars, crashes>>

Share(s) ==
    /\ s \in unasked
    /\ unasked' = unasked \ {s}
    /\ inbox' = Append(inbox, [session |-> s, first |-> Earliest[s]])
    /\ UNCHANGED <<posted, low, next, bridgebot, keyVars, up, shown, stuck, requests, answers,
                   crashes>>

Answer(s) ==
    /\ s \in requests /\ answers < MaxAnswers
    /\ answers' = answers + 1
    /\ requests' = requests \ {s}
    /\ inbox' = Append(inbox, [session |-> s, first |-> 0])
    /\ UNCHANGED <<posted, low, next, bridgebot, keyVars, up, shown, stuck, unasked, crashes>>

Next ==
    \/ SyncMessage \/ HandleBridge \/ HandleRoomKey \/ Crash \/ Restart \/ Post
    \/ \E m \in DOMAIN Timeline : LoadMessage(m)
    \/ \E s \in Sessions : Share(s) \/ Answer(s)

Spec == Init /\ [][Next]_vars

(* The answers to /sync are worked through, a room has a bridge, and its   *)
(* bot answers; nobody need share a key unasked or restart the program.    *)
Fairness ==
    /\ WF_vars(SyncMessage) /\ WF_vars(HandleBridge) /\ WF_vars(HandleRoomKey)
    /\ \A s \in Sessions : WF_vars(Answer(s))

FairSpec == Spec /\ Fairness
-----------------------------------------------------------------------------
(* Every message of this run was shown, waits for its key once, or met a   *)
(* key that did not open it or one before it.                              *)
ShownOrWaiting ==
    up = "up" => \A m \in low..next - 1 :
        \/ m \in shown \union stuck
        \/ LET d == decrypting[Timeline[m].session]
           IN d.waits /\ Cardinality({i \in DOMAIN d.msgs : d.msgs[i] = m}) = 1

(* All the messages of a run are shown in the end, unless the program      *)
(* ends, or a key came that did not open one or one that it waited behind. *)
(* MaxAnswers is no limit of the code: it bounds what the bot answers in   *)
(* an instance, and once it is reached nothing is promised.                *)
MessagesGetShown ==
    (up = "up" /\ low < next)
        ~> (low..next - 1 \subseteq shown \union stuck \/ up # "up" \/ answers = MaxAnswers)
=============================================================================
