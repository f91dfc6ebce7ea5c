------------------------------ MODULE Sending ------------------------------
(***************************************************************************)
(* How a text is sent (SEND_TEXT in src/beeper/beeper_task.c).  The texts  *)
(* of a room are encrypted in an outbound session; a new session is first  *)
(* shared with every device of the bridge's bot.  The session in use is in *)
(* memory, the session of each room in a file that is written after each   *)
(* encryption.  Every request carries a transaction id (TxnId), is tried   *)
(* once more when the connection fails, and is carried out by the server   *)
(* once per id.  The program may die between any two steps.                *)
(***************************************************************************)
EXTENDS TxnId, FiniteSets

CONSTANTS Rooms,
          BotDevices,  \* the devices of the bridge's bot
          Retries,     \* REQUEST_RETRY_COUNT
          MaxTexts     \* bound: how many texts are written

ASSUME SendingAssumption ==
    /\ BotDevices # {}  \* asserted where the key is shared
    /\ 0 \notin BotDevices /\ 0 \notin Rooms
    /\ Retries \in Nat

VARIABLES
    queue,        \* the SEND_TEXT commands: the texts, by number, with their rooms
    written,      \* how many texts were written
    outbound,     \* t->outbound_session and its room
    outFile,      \* rooms_outbound/<room>
    inboundCopy,  \* own sessions whose inbound half is in the room's files
    userSession,  \* the device that sessions[0] of the bot is with, in users/<bot>
    step,         \* where the handler is
    todo,         \* the devices that the new session must still be shared with
    cipher,       \* the encrypted text
    request,      \* the transaction id of the request that is on its way
    triesLeft,
    done,         \* server: the ids of the requests it carried out
    botKeys,      \* server: what each device of the bot was sent and can read
    rooms,        \* server: the messages, in order
    nextSession

sendVars == <<queue, written, outbound, outFile, inboundCopy, userSession, step, todo, cipher,
              request, triesLeft, done, botKeys, rooms, nextSession>>
serverVars == <<done, botKeys, rooms>>
allVars == <<vars, sendVars>>

None == 0
NoSession == [room |-> None, session |-> None, index |-> 0]
TornFile == [room |-> None, session |-> -1, index |-> 0]  \* opened with O_TRUNC, not written

SendInit ==
    /\ Init
    /\ queue = <<>> /\ written = 0
    /\ outbound = NoSession /\ outFile = [r \in Rooms |-> NoSession]
    /\ inboundCopy = {} /\ userSession = None
    /\ step = "idle" /\ todo = {} /\ cipher = NoSession
    /\ request = NoFile /\ triesLeft = Retries
    /\ done = {} /\ botKeys = [d \in BotDevices |-> {}] /\ rooms = <<>>
    /\ nextSession = 1

Text == Head(queue)

(* The next device, in the order of the list.                              *)
Device == CHOOSE d \in todo : TRUE
-----------------------------------------------------------------------------
WriteText(r) ==
    /\ at \in {"up", "issuing"} \union Update /\ written < MaxTexts
    /\ written' = written + 1
    /\ queue' = Append(queue, [room |-> r, text |-> written'])
    /\ UNCHANGED <<vars, outbound, outFile, inboundCopy, userSession, step, todo, cipher,
                   request, triesLeft, serverVars, nextSession>>

\* Slip: a new session is saved before it is shared.
FileWithNewSaved(s) == [outFile EXCEPT ![s.room] = s]

FileWithNew(s) == outFile

(* The session of the room: the one in memory, the one of the file, or a   *)
(* new one, whose inbound half is kept for the own messages of the room.   *)
TakeText ==
    /\ at = "up" /\ step = "idle" /\ queue # <<>>
    /\ LET r == Text.room
       IN \/ /\ outbound.room = r
             /\ step' = "encrypt"
             /\ UNCHANGED <<outbound, outFile, todo, inboundCopy, nextSession>>
          \/ /\ outbound.room # r /\ outFile[r] \notin {NoSession, TornFile}
             /\ outbound' = outFile[r]
             /\ step' = "encrypt"
             /\ UNCHANGED <<outFile, todo, inboundCopy, nextSession>>
          \/ /\ outbound.room # r /\ outFile[r] = TornFile
             /\ step' = "aborted"
             /\ UNCHANGED <<outbound, outFile, todo, inboundCopy, nextSession>>
          \/ /\ outbound.room # r /\ outFile[r] = NoSession
             /\ outbound' = [room |-> r, session |-> nextSession, index |-> 0]
             /\ outFile' = FileWithNew(outbound')
             /\ inboundCopy' = inboundCopy \union {nextSession}
             /\ nextSession' = nextSession + 1
             /\ todo' = BotDevices
             /\ step' = "share"
    /\ UNCHANGED <<vars, queue, written, userSession, cipher, request, triesLeft, serverVars>>

(* A message to this device: decrypt() puts the session that could read it *)
(* before the others, an old one or a new one.                             *)
Hears(d) ==
    /\ at = "up" /\ step = "idle" /\ userSession # d
    /\ userSession' = d
    /\ UNCHANGED <<vars, queue, written, outbound, outFile, inboundCopy, step, todo, cipher,
                   request, triesLeft, serverVars, nextSession>>

(* encrypt_and_send() up to user_sessions_save(): the first session with   *)
(* the user is taken, whichever device it is with.                         *)
EncryptKey ==
    /\ step = "share"
    /\ userSession' = IF userSession = None THEN Device ELSE userSession
    /\ step' = "shareId"
    /\ UNCHANGED <<vars, queue, written, outbound, outFile, inboundCopy, todo, cipher, request,
                   triesLeft, serverVars, nextSession>>

\* Slip: the session is saved as it was before the text.
PickledBefore(s) == s

(* olm_group_encrypt() advances the session.                               *)
Pickled(s) == [s EXCEPT !.index = @ + 1]

Encrypt ==
    /\ step = "encrypt"
    /\ cipher' = outbound
    /\ outbound' = [outbound EXCEPT !.index = @ + 1]
    /\ outFile' = [outFile EXCEPT ![outbound.room] = Pickled(outbound)]
    /\ step' = "textId"
    /\ UNCHANGED <<vars, queue, written, inboundCopy, userSession, todo, request, triesLeft,
                   serverVars, nextSession>>

(* txnid_next(), for the key or the text.                                  *)
IssueId ==
    /\ step \in {"shareId", "textId"}
    /\ Issue
    /\ request' = txnid
    /\ triesLeft' = Retries
    /\ step' = IF step = "shareId" THEN "sharing" ELSE "sending"
    /\ UNCHANGED <<queue, written, outbound, outFile, inboundCopy, userSession, todo, cipher,
                   serverVars, nextSession>>
-----------------------------------------------------------------------------
(* The server carries out each id once.  A device can read a key that was  *)
(* encrypted in a session with it.                                         *)
ShareAt(d) ==
    /\ done' = done \union {request}
    /\ botKeys' = IF request \notin done /\ userSession = d
                  THEN [botKeys EXCEPT ![d] = @ \union {outbound.session}] ELSE botKeys
    /\ UNCHANGED rooms

SendAt ==
    /\ done' = done \union {request}
    /\ rooms' = IF request \in done THEN rooms ELSE
                Append(rooms, [text |-> Text.text, session |-> cipher.session,
                               index |-> cipher.index])
    /\ UNCHANGED botKeys

ShareRequest ==
    /\ step = "sharing"
    /\ ShareAt(Device)
    /\ todo' = todo \ {Device}
    /\ step' = IF todo' = {} THEN "encrypt" ELSE "share"
    /\ UNCHANGED <<vars, queue, written, outbound, outFile, inboundCopy, userSession, cipher,
                   request, triesLeft, nextSession>>

SendRequest ==
    /\ step = "sending"
    /\ SendAt
    /\ queue' = Tail(queue)
    /\ step' = "idle"
    /\ UNCHANGED <<vars, written, outbound, outFile, inboundCopy, userSession, todo, cipher,
                   request, triesLeft, nextSession>>

\* Slip: the second try is a request of its own.
RetriedAsNew == IF step = "sending" THEN "textId" ELSE "shareId"

RetriedAs == step

(* The connection fails, before or after the server carried the request    *)
(* out.  The same request is sent again, and then asserted to succeed.     *)
RequestFails ==
    /\ step \in {"sharing", "sending"}
    /\ \/ UNCHANGED serverVars
       \/ step = "sending" /\ SendAt
       \/ step = "sharing" /\ ShareAt(Device)
    /\ \/ triesLeft > 0 /\ triesLeft' = triesLeft - 1 /\ step' = RetriedAs
       \/ triesLeft = 0 /\ step' = "aborted" /\ UNCHANGED triesLeft
    /\ UNCHANGED <<vars, queue, written, outbound, outFile, inboundCopy, userSession, todo,
                   cipher, request, nextSession>>
-----------------------------------------------------------------------------
(* user_sessions_save(), for the key or for a message that was heard.      *)
SavesUser == step = "shareId" \/ (step = "idle" /\ at = "up")

(* Everything in memory is lost, the commands too; a file that was being   *)
(* written is left empty.                                                  *)
Die ==
    /\ Crash
    /\ queue' = <<>> /\ outbound' = NoSession /\ step' = "idle" /\ todo' = {}
    /\ cipher' = NoSession
    /\ \/ UNCHANGED <<outFile, userSession>>
       \/ step = "encrypt" /\ outFile' = [outFile EXCEPT ![outbound.room] = TornFile]
          /\ UNCHANGED userSession
       \/ SavesUser /\ userSession' = None /\ UNCHANGED outFile
    /\ UNCHANGED <<written, inboundCopy, request, triesLeft, serverVars, nextSession>>

TxnIdStep ==
    /\ \/ Start \/ StartUnreadable \/ Open \/ Write
       \/ RenewRange /\ step \in {"shareId", "textId"}
    /\ UNCHANGED sendVars

SendNext ==
    \/ TakeText \/ EncryptKey \/ Encrypt \/ IssueId \/ ShareRequest \/ SendRequest
    \/ RequestFails \/ Die \/ TxnIdStep
    \/ \E r \in Rooms : WriteText(r)
    \/ \E d \in BotDevices : Hears(d)

SendSpec == SendInit /\ [][SendNext]_allVars
-----------------------------------------------------------------------------
(* A text is in its room once, whatever was retried and whenever the       *)
(* program died; texts are there in the order in which they were written.  *)
TextsArriveOnce ==
    \A i, j \in DOMAIN rooms : i < j => rooms[i].text < rooms[j].text

(* No two texts are encrypted with the same key of the same session: what  *)
(* a crash brings back from a file was not used before.                    *)
KeysUsedOnce ==
    \A i, j \in DOMAIN rooms :
        rooms[i].session = rooms[j].session /\ rooms[i].index = rooms[j].index => i = j

(* A text that is in its room can be read by this device when it comes     *)
(* back, and by a device of the bot: the one that the first session is     *)
(* with when the key is shared, whichever it is and whatever fails.  No    *)
(* more is promised: the other devices are sent a key encrypted for that   *)
(* one, so only a bot with one device reads on all it has.                 *)
TextsAreReadable ==
    \A i \in DOMAIN rooms :
        /\ rooms[i].session \in inboundCopy
        /\ \E d \in BotDevices : rooms[i].session \in botKeys[d]
=============================================================================
