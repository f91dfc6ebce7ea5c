---------------------------- MODULE MCBeeperTask ----------------------------
(***************************************************************************)
(* Three parts of beeper's thread that must go on to do their work: its    *)
(* queues (TaskQueue), the one-time keys (OneTimeKeys) and the keys of     *)
(* rooms (RoomKeys).  They have no state in common, so a behaviour here is *)
(* one of any one of them, the others staying as they begin: TLC checks    *)
(* them side by side.                                                      *)
(***************************************************************************)
EXTENDS Integers, Sequences

CONSTANTS MaxCommands, MaxEvents,
          TopUp, LowWatermark, OtkCapacity, MaxKeys, MaxClaims, MaxMessages, MaxOtkCrashes,
          Timeline, Earliest, RoomCapacity, MaxAnswers, MaxRoomCrashes

\* Two sessions of a room alternate.  The bot shares the key of the first
\* from its beginning, of the second from its second index on.
AlternatingTimeline ==
    <<[session |-> 1, index |-> 0], [session |-> 2, index |-> 0],
      [session |-> 1, index |-> 1], [session |-> 2, index |-> 1]>>

SecondIsLate == <<0, 1>>

VARIABLES
    part,  \* the one that this behaviour is of
    queue, evfd, section, taskAt, taskItem, uiAt, uiItem, commands, events, live, badFree,
    account, accountFile, sessions, deviceKeys, verified, server, count, at, batch, key,
    olmInbox, olmSeen, keyOf, sent, read, excused, cut, nextKey, olmCrashes,
    posted, low, next, bridgebot, decrypting, lru, file, up, shown, stuck, keyInbox,
    unasked, requests, answers, crashes

queueVars == <<queue, evfd, section, taskAt, taskItem, uiAt, uiItem, commands, events, live,
               badFree>>
olmVars == <<account, accountFile, sessions, deviceKeys, verified, server, count, at, batch,
             key, olmInbox, olmSeen, keyOf, sent, read, excused, cut, nextKey, olmCrashes>>
roomVars == <<posted, low, next, bridgebot, decrypting, lru, file, up, shown, stuck, keyInbox,
              unasked, requests, answers, crashes>>

Queue == INSTANCE TaskQueue
Olm == INSTANCE OneTimeKeys WITH
           inbox <- olmInbox, seen <- olmSeen, crashes <- olmCrashes,
           Capacity <- OtkCapacity, MaxCrashes <- MaxOtkCrashes
Room == INSTANCE RoomKeys WITH
            inbox <- keyInbox, Capacity <- RoomCapacity, MaxCrashes <- MaxRoomCrashes

ASSUME RoomAssumption ==
    /\ Timeline \in Seq(Room!Range(Timeline))
    /\ Earliest \in [Room!Sessions -> Nat]

ASSUME OlmAssumption == TopUp \in Nat /\ OtkCapacity \in Nat \ {0}

Init ==
    /\ part \in {"queue", "olm", "room"}
    /\ Queue!Init /\ Olm!Init /\ Room!Init

Next ==
    \/ part = "queue" /\ Queue!Next /\ UNCHANGED <<part, olmVars, roomVars>>
    \/ part = "olm" /\ Olm!Next /\ UNCHANGED <<part, queueVars, roomVars>>
    \/ part = "room" /\ Room!Next /\ UNCHANGED <<part, queueVars, olmVars>>

vars == <<part, queueVars, olmVars, roomVars>>

(* The fairness of each part, in the behaviours of that part.              *)
Fairness ==
    /\ \A q \in {"commands", "events"} :
          /\ WF_queueVars(part = "queue" /\ Queue!EndPush(q))
          /\ WF_queueVars(part = "queue" /\ Queue!EndPop(q))
    /\ WF_queueVars(part = "queue" /\ Queue!Task)
    /\ WF_queueVars(part = "queue" /\ Queue!Ui)
    /\ WF_olmVars(part = "olm" /\ Olm!Thread)
    /\ WF_roomVars(part = "room" /\ Room!SyncMessage)
    /\ WF_roomVars(part = "room" /\ Room!HandleBridge)
    /\ WF_roomVars(part = "room" /\ Room!HandleRoomKey)
    /\ \A s \in Room!Sessions : WF_roomVars(part = "room" /\ Room!Answer(s))

FairSpec == Init /\ [][Next]_vars /\ Fairness
-----------------------------------------------------------------------------
(* A command given before the app is closed is carried out: the thread     *)
(* does not end with commands left, so a text that was sent is not lost.   *)
HandledBeforeExit == Queue!HandledBeforeExit

(* Closing the app ends the thread and returns, whatever the thread does.  *)
StopEndsTheTask == Queue!StopEndsTheTask

(* Every event is taken out of the queue: the callback is called for it.   *)
EventsAreTaken == Queue!EventsAreTaken

(* A one-time key that the server may hand out or that somebody claimed is *)
(* in the account file until a message has used it, up to a program that   *)
(* ends while it writes that file.                                         *)
HeldKeysAreSaved == Olm!HeldKeysAreSaved

(* What a message says is handed on at most once, also when the server     *)
(* delivers it again after a crash and its session was lost; except in a   *)
(* session of which a message was being handled when the program ended.    *)
NothingReadTwice == Olm!NothingReadTwice

(* A message that was acknowledged was read, unless the program ended      *)
(* while it was handled, its session was lost, or the program ended while  *)
(* it wrote the account, after which every message is dropped.             *)
NothingDropped == Olm!NothingDropped

(* While the program runs, the server gets new keys when few are left.     *)
KeysToppedUp == Olm!KeysToppedUp

(* Every message of this run was shown, waits for its key once, or met a   *)
(* key that did not open it or one before it.                              *)
ShownOrWaiting == Room!ShownOrWaiting

(* All the messages of a run are shown in the end, unless the program      *)
(* ends, or a key came that did not open one or one that it waited behind. *)
(* MaxAnswers is no limit of the code: it bounds what the bot answers in   *)
(* an instance, and once it is reached nothing is promised.                *)
MessagesGetShown == Room!MessagesGetShown
=============================================================================
