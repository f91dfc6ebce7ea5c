-------------------------- MODULE BeeperTextsProofs --------------------------
(***************************************************************************)
(* Theorems about TxnId and Sending, for any rooms, retries and            *)
(* increments, and about the loop that MCBeeperTexts takes from PollLoop,  *)
(* for any handles and descriptors.  First of the ids: the file always     *)
(* covers what was issued, and no id is issued twice.  Uniqueness is not   *)
(* inductive: it follows from the order of the ids, and that order         *)
(* survives a crash only because the stored number is beyond all of them.  *)
(* Then of the texts: a request is new to the server because its id was    *)
(* issued after every id that the server has seen.  Then of the loop: a    *)
(* callback is called only for the registration whose event was polled,    *)
(* although callbacks remove and add registrations and memory is used      *)
(* again.                                                                  *)
(***************************************************************************)
EXTENDS MCBeeperTexts, SequenceTheorems, FiniteSetTheorems, TLAPS

Issued == 1..Len(issued)

TypeOK ==
    /\ stored \in Nat \union {NoFile, Truncated}
    /\ txnid \in Nat
    /\ rangeEnd \in Nat
    /\ at \in Places
    /\ caller \in {"init", "next"}
    /\ issued \in Seq(Nat)

(* While the program runs, the next id is beyond all that were issued.     *)
NextIsNew ==
    at \in Update \union {"up", "issuing"} => \A i \in Issued : issued[i] < txnid

(* The file is absent only as long as nothing was issued.                  *)
AbsentMeansNone == stored = NoFile => issued = <<>>

(* A running program issues below the number in the file.                  *)
InRange ==
    /\ at = "writing" => rangeEnd = txnid + Increment
    /\ at \in {"up", "issuing"} => stored = rangeEnd /\ txnid <= rangeEnd
    /\ at = "issuing" => txnid < rangeEnd

IInv ==
    /\ TypeOK
    /\ TxnIdsUnique
    /\ RangeCoversIssued
    /\ NextIsNew
    /\ AbsentMeansNone
    /\ InRange
-----------------------------------------------------------------------------
(* The first run starts without a file and with nothing issued.            *)
LEMMA InitIInv == Init => IInv
  <1> SUFFICES ASSUME Init PROVE IInv
    OBVIOUS
  <1>1. issued = <<>> /\ Len(issued) = 0
    BY DEF Init
  <1>2. TypeOK
    BY <1>1 DEF Init, TypeOK, Places, Down, NoFile
  <1>3. TxnIdsUnique /\ RangeCoversIssued /\ NextIsNew /\ AbsentMeansNone
    BY <1>1 DEF TxnIdsUnique, RangeCoversIssued, NextIsNew, AbsentMeansNone, Issued
  <1>4. InRange
    BY DEF Init, InRange, Down
  <1> QED
    BY <1>2, <1>3, <1>4 DEF IInv

(* Issuing keeps the order of the ids: the new one is the largest.         *)
LEMMA IssueKeepsIInv == IInv /\ Issue => IInv'
  <1> SUFFICES ASSUME IInv, Issue PROVE IInv'
    OBVIOUS
  <1> USE TxnIdAssumption
  <1>1. /\ issued \in Seq(Nat)
        /\ txnid \in Nat
        /\ rangeEnd \in Nat
    BY DEF IInv, TypeOK
  <1>2. /\ at \in {"up", "issuing"}
        /\ stored = rangeEnd
        /\ txnid < rangeEnd
    BY <1>1 DEF IInv, Issue, InRange
  <1>3. \A i \in Issued : issued[i] < txnid
    BY <1>2 DEF IInv, NextIsNew
  <1>4. /\ issued' \in Seq(Nat)
        /\ Len(issued') = Len(issued) + 1
        /\ issued'[Len(issued) + 1] = txnid
        /\ \A i \in Issued : issued'[i] = issued[i]
    BY <1>1 DEF Issue, Issued
  <1>5. /\ Len(issued) \in Nat
        /\ \A i \in Issued : issued[i] \in Nat
    BY <1>1 DEF Issued
  <1>6. \A i \in Issued' : i \in Issued \/ i = Len(issued) + 1
    BY <1>4, <1>5 DEF Issued
  <1>7. TypeOK'
    BY <1>1, <1>4 DEF Issue, IInv, TypeOK, Places
  <1>8. TxnIdsUnique'
    <2> SUFFICES ASSUME NEW i \in Issued', NEW j \in Issued', issued'[i] = issued'[j]
                 PROVE  i = j
      BY DEF TxnIdsUnique, Issued
    <2>1. CASE i \in Issued /\ j \in Issued
      BY <2>1, <1>4 DEF IInv, TxnIdsUnique, Issued
    <2>2. CASE i \in Issued /\ j = Len(issued) + 1
      BY <2>2, <1>1, <1>3, <1>4, <1>5
    <2>3. CASE i = Len(issued) + 1 /\ j \in Issued
      BY <2>3, <1>1, <1>3, <1>4, <1>5
    <2>4. CASE i = Len(issued) + 1 /\ j = Len(issued) + 1
      BY <2>4
    <2> QED
      BY <2>1, <2>2, <2>3, <2>4, <1>6
  <1>9. \A i \in Issued' : issued'[i] <= txnid /\ issued'[i] \in Nat
    <2> SUFFICES ASSUME NEW i \in Issued'
                 PROVE  issued'[i] <= txnid /\ issued'[i] \in Nat
      OBVIOUS
    <2>1. CASE i \in Issued
      BY <2>1, <1>1, <1>3, <1>4, <1>5
    <2>2. CASE i = Len(issued) + 1
      BY <2>2, <1>1, <1>4
    <2> QED
      BY <2>1, <2>2, <1>6
  <1>10. RangeCoversIssued'
    BY <1>1, <1>2, <1>9 DEF Issue, RangeCoversIssued, Issued
  <1>11. NextIsNew'
    <2>1. txnid' = txnid + 1
      BY DEF Issue
    <2>2. \A i \in Issued' : issued'[i] < txnid'
      BY <1>1, <1>9, <2>1
    <2> QED
      BY <2>2 DEF NextIsNew
  <1>12. AbsentMeansNone'
    BY <1>1, <1>2 DEF Issue, AbsentMeansNone, NoFile
  <1>13. InRange'
    BY <1>1, <1>2 DEF Issue, InRange
  <1> QED
    BY <1>7, <1>8, <1>10, <1>11, <1>12, <1>13 DEF IInv

(* Every step keeps the invariant.                                         *)
LEMMA StepKeepsIInv == IInv /\ [Next]_vars => IInv'
  <1> SUFFICES ASSUME IInv, [Next]_vars PROVE IInv'
    OBVIOUS
  <1> USE TxnIdAssumption
  <1>1. CASE Start
    <2>1. TypeOK'
      BY <1>1 DEF Start, FirstOf, IInv, TypeOK, Places, Update, NoFile, Truncated
    <2>2. NextIsNew'
      BY <1>1 DEF Start, FirstOf, IInv, TypeOK, NextIsNew, RangeCoversIssued,
                  AbsentMeansNone, Issued, NoFile, Truncated
    <2>3. InRange'
      BY <1>1 DEF Start, InRange
    <2> QED
      BY <1>1, <2>1, <2>2, <2>3
         DEF Start, IInv, TxnIdsUnique, RangeCoversIssued, AbsentMeansNone
  <1>2. CASE StartUnreadable \/ Crash
    BY <1>2 DEF StartUnreadable, Crash, IInv, TypeOK, Places, Update, Down, Aborted,
                TxnIdsUnique, RangeCoversIssued, NextIsNew, AbsentMeansNone, InRange, Issued
  <1>3. CASE Open
    <2>1. TypeOK'
      BY <1>3 DEF Open, IInv, TypeOK, Places, Update, Truncated
    <2>2. InRange'
      BY <1>3 DEF Open, InRange
    <2> QED
      BY <1>3, <2>1, <2>2
         DEF Open, IInv, TxnIdsUnique, RangeCoversIssued, NextIsNew, AbsentMeansNone,
             Issued, Update, NoFile, Truncated
  <1>4. CASE Write
    <2>1. /\ rangeEnd = txnid + Increment
          /\ \A i \in Issued : issued[i] < txnid
          /\ txnid \in Nat
          /\ issued \in Seq(Nat)
      BY <1>4 DEF Write, IInv, TypeOK, InRange, NextIsNew, Update
    <2>2. \A i \in Issued : issued[i] < rangeEnd
      BY <2>1 DEF Issued
    <2>3. TypeOK'
      BY <1>4 DEF Write, EndWritten, IInv, TypeOK, Places
    <2>4. RangeCoversIssued' /\ NextIsNew'
      BY <1>4, <2>1, <2>2 DEF Write, EndWritten, RangeCoversIssued, NextIsNew, Issued
    <2>5. InRange' /\ AbsentMeansNone'
      BY <1>4, <2>1 DEF Write, EndWritten, InRange, AbsentMeansNone, NoFile
    <2> QED
      BY <1>4, <2>3, <2>4, <2>5 DEF Write, IInv, TxnIdsUnique
  <1>5. CASE RenewRange
    BY <1>5 DEF RenewRange, IInv, TypeOK, Places, Update, TxnIdsUnique,
                RangeCoversIssued, NextIsNew, AbsentMeansNone, InRange, Issued
  <1>6. CASE Issue
    BY <1>6, IssueKeepsIInv
  <1>7. CASE UNCHANGED vars
    BY <1>7 DEF vars, IInv, TypeOK, TxnIdsUnique, RangeCoversIssued, NextIsNew,
                AbsentMeansNone, InRange, Issued
  <1> QED
    BY <1>1, <1>2, <1>3, <1>4, <1>5, <1>6, <1>7 DEF Next

(* The invariant holds in every run of the program, for every increment.   *)
THEOREM TxnIdInvariant == Spec => []IInv
  BY InitIInv, StepKeepsIInv, PTL DEF Spec

(* txnid_next() never returns an id twice, over any number of runs of the  *)
(* program and crashes between any two file operations.                    *)
THEOREM TxnIdsAreUnique == Spec => []TxnIdsUnique
  <1>1. IInv => TxnIdsUnique
    BY DEF IInv
  <1> QED
    BY <1>1, TxnIdInvariant, PTL

(* A number in the file is beyond every id issued before.                  *)
THEOREM TxnIdRangeCovers == Spec => []RangeCoversIssued
  <1>1. IInv => RangeCoversIssued
    BY DEF IInv
  <1> QED
    BY <1>1, TxnIdInvariant, PTL
-----------------------------------------------------------------------------

Ids == {issued[i] : i \in Issued}

Command == [room : Rooms, text : Nat \ {0}]
Session == [room : Rooms, session : Nat \ {0}, index : Nat]
Sent == [text : Nat \ {0}, session : Nat \ {0}, index : Nat]
Steps == {"idle", "share", "shareId", "sharing", "encrypt", "textId", "sending", "aborted"}

SendTypes ==
    /\ queue \in Seq(Command)
    /\ written \in Nat
    /\ outbound \in Session \union {NoSession}
    /\ outFile \in [Rooms -> Session \union {NoSession, TornFile}]
    /\ inboundCopy \subseteq Nat
    /\ step \in Steps
    /\ cipher \in Session \union {NoSession}
    /\ botKeys \in [BotDevices -> SUBSET Nat]
    /\ rooms \in Seq(Sent)
    /\ nextSession \in Nat \ {0}

(* The handler has a command and a session from its second step on.        *)
Handling ==
    step \notin {"idle", "aborted"} =>
        /\ queue # <<>>
        /\ outbound # NoSession

(* The request under way has an issued id, and the server has seen no      *)
(* other ids.                                                              *)
RequestIsIssued ==
    /\ done \subseteq Ids
    /\ step \in {"sharing", "sending"} => request \in Ids

(* The server has the text at the head of the queue.                       *)
HeadIsSent == step = "sending" /\ request \in done

(* What is in the rooms was written before what waits; the first in the    *)
(* queue may be in its room already while its request is under way.        *)
QueueBehindRooms ==
    /\ \A i \in DOMAIN rooms : rooms[i].text <= written
    /\ \A k \in DOMAIN queue : queue[k].text <= written
    /\ \A k, l \in DOMAIN queue : k < l => queue[k].text < queue[l].text
    /\ step # "aborted" =>
          \A i \in DOMAIN rooms, k \in DOMAIN queue :
              \/ rooms[i].text < queue[k].text
              \/ HeadIsSent /\ k = 1 /\ rooms[i].text = queue[k].text

TextsInv == SendTypes /\ Handling /\ RequestIsIssued /\ QueueBehindRooms /\ TextsArriveOnce
-----------------------------------------------------------------------------
Files == {outFile[r] : r \in Rooms} \ {NoSession, TornFile}

(* A session belongs to one room, whose file has it as it is in memory.    *)
SessionsOfRooms ==
    /\ \A r \in Rooms : outFile[r] \in Files => outFile[r].room = r
    /\ \A s \in Files : s.session < nextSession
    /\ \A s, t \in Files : s.session = t.session => s.room = t.room
    /\ outbound # NoSession =>
          /\ outbound.session < nextSession
          /\ \A s \in Files : s.session = outbound.session => s = outbound
          /\ outFile[outbound.room] \in {NoSession, outbound}

(* The text that is encrypted has the key before the next.                 *)
CipherIsLast ==
    step \in {"textId", "sending"} =>
        /\ cipher.session = outbound.session
        /\ outbound.index = cipher.index + 1

(* Every session is beyond the keys that texts in the rooms have used.     *)
KeysBehindSessions ==
    \A i \in DOMAIN rooms :
        /\ rooms[i].session < nextSession
        /\ \A s \in Files \union {outbound} :
              rooms[i].session = s.session => rooms[i].index < s.index
        /\ step \in {"textId", "sending"} /\ ~HeadIsSent /\ rooms[i].session = cipher.session =>
              rooms[i].index < cipher.index

KeysInv == SessionsOfRooms /\ CipherIsLast /\ KeysBehindSessions /\ KeysUsedOnce
-----------------------------------------------------------------------------
(* This device and one of the bot can read the texts of session s.         *)
Readable(s) == s \in inboundCopy /\ \E d \in BotDevices : s \in botKeys[d]

(* The device that the first session is with has its turn or has had it;   *)
(* when there is no session yet, nobody has had it.                        *)
SharedInTurn ==
    /\ todo \subseteq BotDevices /\ todo # {}
    /\ IF userSession = None THEN todo = BotDevices
       ELSE userSession \in todo \/ outbound.session \in botKeys[userSession]

Sharing == {"share", "shareId", "sharing"}

(* A session is in a file, or encrypts a text, only when it was shared.    *)
SharedBeforeUse ==
    /\ \A s \in Files : Readable(s.session)
    /\ outbound # NoSession /\ step # "aborted" =>
          /\ outbound.session \in inboundCopy
          /\ step \notin Sharing => Readable(outbound.session)
    /\ userSession \in BotDevices \union {None}
    /\ step \in Sharing => SharedInTurn
    /\ step \in {"shareId", "sharing"} => userSession # None
    /\ step = "sharing" /\ request \in done /\ userSession = Device =>
          outbound.session \in botKeys[userSession]
    /\ step \in {"textId", "sending"} => Readable(cipher.session)

-----------------------------------------------------------------------------
(* The steps of the handler are steps of the transaction ids, or leave     *)
(* them alone.                                                             *)
LEMMA StepOfTxnId == [SendNext]_allVars => [Next]_vars
  BY DEF SendNext, allVars, TakeText, EncryptKey, Encrypt, IssueId, ShareRequest, SendRequest,
         RequestFails, Die, TxnIdStep, WriteText, Hears, Next

LEMMA SendingTxnId == SendSpec => []IInv
  <1>1. SendInit => Init
    BY DEF SendInit
  <1> QED
    BY <1>1, StepOfTxnId, TxnIdInvariant, PTL DEF SendSpec, Spec

(* The oldest command, and what stays in the queue when it is done.        *)
LEMMA QueueHead ==
    ASSUME queue \in Seq(Command), queue # <<>>
    PROVE  /\ Len(queue) \in Nat \ {0} /\ Text = queue[1]
           /\ Text \in Command
           /\ Tail(queue) \in Seq(Command)
           /\ Len(Tail(queue)) = Len(queue) - 1
           /\ \A k \in 1 .. Len(queue) - 1 : Tail(queue)[k] = queue[k + 1]
  <1>1. Len(queue) \in Nat \ {0}
    BY EmptySeq
  <1>2. Head(queue) = queue[1] /\ queue[1] \in Command
    BY <1>1, ElementOfSeq
  <1>3. /\ Tail(queue) \in Seq(Command)
        /\ Len(Tail(queue)) = Len(queue) - 1
        /\ \A k \in 1 .. Len(Tail(queue)) : Tail(queue)[k] = queue[k + 1]
    BY HeadTailProperties
  <1> QED
    BY <1>1, <1>2, <1>3 DEF Text

(* The number of the next request is new to the server.                    *)
LEMMA NewRequest ==
    ASSUME IInv, Issue, done \subseteq Ids
    PROVE  txnid \notin done /\ txnid \in Ids' /\ Ids \subseteq Ids'
  <1>1. \A i \in Issued : issued[i] < txnid
    BY DEF Issue, IInv, NextIsNew
  <1>2. issued \in Seq(Nat) /\ txnid \in Nat
    BY DEF IInv, TypeOK
  <1>3. issued' = Append(issued, txnid)
    BY DEF Issue
  <1>4. /\ Len(issued') = Len(issued) + 1
        /\ issued'[Len(issued) + 1] = txnid
        /\ \A i \in Issued : issued'[i] = issued[i]
    BY <1>2, <1>3, AppendProperties DEF Issued
  <1>5. Len(issued) \in Nat
    BY <1>2
  <1>6. Issued \subseteq Issued' /\ Len(issued) + 1 \in Issued'
    BY <1>4, <1>5 DEF Issued
  <1> QED
    BY <1>1, <1>2, <1>4, <1>6 DEF Ids

(* A text that reaches the server is in its room after all others.         *)
LEMMA RoomsGrow ==
    ASSUME SendTypes, NEW e \in Sent, rooms' = Append(rooms, e)
    PROVE  /\ rooms' \in Seq(Sent)
           /\ DOMAIN rooms = 1 .. Len(rooms) /\ DOMAIN rooms' = 1 .. Len(rooms) + 1
           /\ Len(rooms) \in Nat
           /\ \A i \in DOMAIN rooms : rooms'[i] = rooms[i]
           /\ rooms'[Len(rooms) + 1] = e
  <1>1. rooms \in Seq(Sent)
    BY DEF SendTypes
  <1> QED
    BY <1>1, AppendProperties, LenProperties

(* What the server does with the request of a text.                        *)
LEMMA ServerAppends ==
    ASSUME SendTypes, Handling, CipherIsLast, step = "sending", SendAt
    PROVE  \/ request \in done /\ UNCHANGED <<rooms, done>>
           \/ /\ request \notin done /\ done' = done \union {request}
              /\ \E e \in Sent : /\ rooms' = Append(rooms, e)
                                /\ e.text = queue[1].text
                                /\ e.session = cipher.session
                                /\ e.index = cipher.index
  <1> DEFINE e == [text |-> Text.text, session |-> cipher.session, index |-> cipher.index]
  <1>1. outbound \in Session /\ cipher.session = outbound.session /\ cipher.index \in Nat
    BY DEF SendTypes, Handling, CipherIsLast, Session, NoSession
  <1>2. Text \in Command /\ Text = queue[1]
    BY QueueHead DEF SendTypes, Handling
  <1>3. e \in Sent
    BY <1>1, <1>2 DEF Sent, Session, Command
  <1> HIDE DEF e
  <1>4. e.text = Text.text /\ e.session = cipher.session /\ e.index = cipher.index
    BY DEF e
  <1> QED
    BY <1>2, <1>3, <1>4 DEF SendAt, e

(* The types are kept, and a handler that goes on has what it works on.    *)
LEMMA TypesStep ==
    SendTypes /\ Handling /\ CipherIsLast /\ [SendNext]_allVars => SendTypes' /\ Handling'
  <1> SUFFICES ASSUME SendTypes, Handling, CipherIsLast, [SendNext]_allVars
               PROVE  SendTypes' /\ Handling'
    OBVIOUS
  <1> USE SendingAssumption DEF None, NoSession, TornFile
  <1>1. ASSUME NEW r \in Rooms, WriteText(r) PROVE SendTypes' /\ Handling'
    <2>1. [room |-> r, text |-> written'] \in Command
      BY <1>1 DEF WriteText, SendTypes, Command
    <2>2. queue' = Append(queue, [room |-> r, text |-> written']) /\ queue \in Seq(Command)
      BY <1>1 DEF WriteText, SendTypes
    <2>3. queue' \in Seq(Command) /\ queue' # <<>>
      BY <2>1, <2>2, AppendProperties
    <2> QED
      BY <1>1, <2>3 DEF WriteText, SendTypes, Handling, serverVars
  <1>2. CASE TakeText
    <2>1. Text.room \in Rooms
      BY <1>2, QueueHead DEF TakeText, SendTypes, Command
    <2> DEFINE r == Text.room
    <2>2. /\ step' \in Steps
          /\ outbound' \in Session \union {NoSession}
          /\ step' # "aborted" => outbound' # NoSession
      BY <1>2, <2>1 DEF TakeText, SendTypes, Steps, Session
    <2>3. /\ outFile' = outFile
          /\ inboundCopy' \subseteq Nat
          /\ nextSession' \in Nat \ {0}
          /\ UNCHANGED <<queue, written, cipher, botKeys, rooms>>
      <3>1. inboundCopy \subseteq Nat /\ nextSession \in Nat \ {0}
        BY DEF SendTypes
      <3>2. \/ UNCHANGED <<inboundCopy, nextSession>>
            \/ inboundCopy' = inboundCopy \union {nextSession} /\ nextSession' = nextSession + 1
        BY <1>2 DEF TakeText
      <3>3. outFile' = outFile /\ UNCHANGED <<queue, written, cipher, botKeys, rooms>>
        BY <1>2 DEF TakeText, FileWithNew, serverVars
      <3>4. inboundCopy' \subseteq Nat
        BY <3>1, <3>2
      <3>5. nextSession' \in Nat \ {0}
        BY <3>1, <3>2
      <3> QED
        BY <3>3, <3>4, <3>5
    <2>4. queue # <<>>
      BY <1>2 DEF TakeText
    <2> QED
      BY <2>2, <2>3, <2>4 DEF SendTypes, Handling
  <1>3. CASE EncryptKey \/ \E d \in BotDevices : Hears(d)
    BY <1>3 DEF EncryptKey, Hears, SendTypes, Handling, Steps, serverVars
  <1>4. CASE Encrypt
    <2>1. outbound \in Session /\ queue # <<>>
      BY <1>4 DEF Encrypt, SendTypes, Handling
    <2>2. [outbound EXCEPT !.index = @ + 1] \in Session
      BY <2>1 DEF Session
    <2>3. outFile' \in [Rooms -> Session \union {NoSession, TornFile}]
      BY <1>4, <2>1, <2>2 DEF Encrypt, Pickled, SendTypes, Session
    <2>4. outbound' # NoSession
      BY <1>4, <2>1 DEF Encrypt, Session
    <2> QED
      BY <1>4, <2>1, <2>2, <2>3, <2>4 DEF Encrypt, SendTypes, Handling, Steps, serverVars
  <1>5. CASE IssueId
    BY <1>5 DEF IssueId, SendTypes, Handling, Steps, serverVars
  <1>6. CASE ShareRequest \/ SendRequest \/ RequestFails
    <2>1. outbound # NoSession /\ queue # <<>>
      BY <1>6 DEF ShareRequest, SendRequest, RequestFails, Handling
    <2>2. rooms' \in Seq(Sent)
      <3>1. CASE UNCHANGED rooms
        BY <3>1 DEF SendTypes
      <3>2. CASE SendAt /\ step = "sending"
        BY <2>1, <3>2, ServerAppends, RoomsGrow DEF SendTypes
      <3> QED
        BY <1>6, <3>1, <3>2 DEF ShareRequest, SendRequest, RequestFails, ShareAt, serverVars
    <2>3. botKeys' \in [BotDevices -> SUBSET Nat]
      <3>1. outbound.session \in Nat
        BY <2>1 DEF SendTypes, Session
      <3> QED
        BY <1>6, <3>1 DEF ShareRequest, SendRequest, RequestFails, ShareAt, SendAt, serverVars,
                          SendTypes
    <2>4. queue' \in Seq(Command) /\ (step' \notin {"idle", "aborted"} => queue' # <<>>)
      BY <1>6, <2>1, QueueHead DEF ShareRequest, SendRequest, RequestFails, SendTypes
    <2>5. /\ step' \in Steps
          /\ UNCHANGED <<written, outbound, outFile, inboundCopy, cipher, nextSession>>
      BY <1>6 DEF ShareRequest, SendRequest, RequestFails, RetriedAs, Steps
    <2> QED
      BY <2>1, <2>2, <2>3, <2>4, <2>5 DEF SendTypes, Handling
  <1>7. CASE Die
    BY <1>7, EmptySeq DEF Die, SendTypes, Handling, Steps, serverVars
  <1>8. CASE UNCHANGED sendVars
    BY <1>8 DEF sendVars, SendTypes, Handling
  <1> QED
    BY <1>1, <1>2, <1>3, <1>4, <1>5, <1>6, <1>7, <1>8 DEF SendNext, TxnIdStep, allVars

(* Which ids the server knows.                                             *)
LEMMA RequestsStep ==
    ASSUME IInv, RequestIsIssued, [SendNext]_allVars
    PROVE  RequestIsIssued'
  <1>1. CASE IssueId
    BY <1>1, NewRequest DEF IssueId, RequestIsIssued, serverVars
  <1>2. CASE ~IssueId
    <2>1. issued' = issued
      BY <1>2 DEF SendNext, allVars, vars, TakeText, EncryptKey, Encrypt, ShareRequest,
                  SendRequest, RequestFails, Die, Crash, TxnIdStep, Start, StartUnreadable,
                  Open, Write, RenewRange, WriteText, Hears
    <2>2. Ids' = Ids
      BY <2>1 DEF Ids, Issued
    <2>3. CASE ShareRequest \/ SendRequest \/ RequestFails
      BY <2>2, <2>3 DEF ShareRequest, SendRequest, RequestFails, RetriedAs, ShareAt, SendAt,
                        serverVars, RequestIsIssued
    <2>4. CASE ~(ShareRequest \/ SendRequest \/ RequestFails)
      BY <1>2, <2>2, <2>4 DEF SendNext, allVars, sendVars, TakeText, EncryptKey, Encrypt, Die,
                              TxnIdStep, WriteText, Hears, serverVars, RequestIsIssued
    <2> QED
      BY <2>3, <2>4
  <1> QED
    BY <1>1, <1>2

(* The text whose request reaches the server comes after the texts that    *)
(* are there.                                                              *)
LEMMA SentTextIsNext ==
    ASSUME TextsInv, CipherIsLast, step = "sending", SendAt
    PROVE  /\ TextsArriveOnce'
           /\ request \in done'
           /\ rooms' \in Seq(Sent)
           /\ \A i \in DOMAIN rooms' : rooms'[i].text <= queue[1].text
  <1>1. /\ queue \in Seq(Command) /\ queue # <<>> /\ rooms \in Seq(Sent)
        /\ SendTypes /\ Handling
    BY DEF TextsInv, SendTypes, Handling
  <1>2. 1 \in DOMAIN queue /\ queue[1].text \in Nat
    BY <1>1, QueueHead DEF Command
  <1>3. /\ \A i \in DOMAIN rooms : rooms[i].text \in Nat
        /\ DOMAIN rooms = 1 .. Len(rooms) /\ Len(rooms) \in Nat
    <2>1. \A i \in 1 .. Len(rooms) : rooms[i] \in Sent
      BY <1>1, ElementOfSeq
    <2> QED
      BY <1>1, <2>1, LenProperties DEF Sent
  <1>4. \A i \in DOMAIN rooms : \/ rooms[i].text < queue[1].text
                                \/ request \in done /\ rooms[i].text = queue[1].text
    BY <1>2 DEF TextsInv, QueueBehindRooms, HeadIsSent
  <1>5. CASE request \in done /\ UNCHANGED <<rooms, done>>
    BY <1>1, <1>2, <1>3, <1>4, <1>5 DEF TextsInv, TextsArriveOnce
  <1>6. ASSUME request \notin done, done' = done \union {request},
               NEW e \in Sent, rooms' = Append(rooms, e), e.text = queue[1].text
        PROVE  /\ TextsArriveOnce'
               /\ request \in done'
               /\ rooms' \in Seq(Sent)
               /\ \A i \in DOMAIN rooms' : rooms'[i].text <= queue[1].text
    <2>1. /\ rooms' \in Seq(Sent)
          /\ DOMAIN rooms' = 1 .. Len(rooms) + 1
          /\ \A i \in DOMAIN rooms : rooms'[i] = rooms[i]
          /\ rooms'[Len(rooms) + 1] = e
      BY <1>1, <1>6, RoomsGrow
    <2>2. \A i \in DOMAIN rooms' : i \in DOMAIN rooms \/ i = Len(rooms) + 1
      BY <1>3, <2>1
    <2>3. \A i \in DOMAIN rooms : rooms'[i].text < queue[1].text
      BY <1>4, <1>6, <2>1
    <2>4. \A i \in DOMAIN rooms' : rooms'[i].text <= queue[1].text
      BY <1>2, <1>3, <1>6, <2>1, <2>2, <2>3
    <2>5. TextsArriveOnce'
      <3> SUFFICES ASSUME NEW i \in DOMAIN rooms', NEW j \in DOMAIN rooms', i < j
                   PROVE  rooms'[i].text < rooms'[j].text
        BY DEF TextsArriveOnce
      <3>1. i \in DOMAIN rooms
        BY <1>3, <2>1, <2>2
      <3>2. CASE j \in DOMAIN rooms
        BY <2>1, <3>1, <3>2 DEF TextsInv, TextsArriveOnce
      <3>3. CASE j = Len(rooms) + 1
        BY <1>6, <2>1, <2>3, <3>1, <3>3
      <3> QED
        BY <2>2, <3>2, <3>3
    <2> QED
      BY <1>6, <2>1, <2>4, <2>5
  <1> QED
    BY <1>1, <1>5, <1>6, ServerAppends

(* The order of the texts is kept.                                         *)
LEMMA TextsStep ==
    ASSUME IInv, TextsInv, CipherIsLast, [SendNext]_allVars, SendTypes'
    PROVE  QueueBehindRooms' /\ TextsArriveOnce'
  <1>1. /\ queue \in Seq(Command) /\ rooms \in Seq(Sent) /\ written \in Nat
        /\ rooms' \in Seq(Sent) /\ queue' \in Seq(Command)
    BY DEF TextsInv, SendTypes
  <1>2. /\ Len(queue) \in Nat /\ DOMAIN queue = 1 .. Len(queue)
        /\ \A k \in DOMAIN queue : queue[k].text \in Nat
    <2>1. Len(queue) \in Nat /\ DOMAIN queue = 1 .. Len(queue)
      BY <1>1, LenProperties
    <2>2. \A k \in 1 .. Len(queue) : queue[k] \in Command
      BY <1>1, ElementOfSeq
    <2> QED
      BY <2>1, <2>2 DEF Command
  <1>3. \A i \in DOMAIN rooms : rooms[i].text \in Nat
    <2>1. DOMAIN rooms = 1 .. Len(rooms)
      BY <1>1, LenProperties
    <2>2. \A i \in 1 .. Len(rooms) : rooms[i] \in Sent
      BY <1>1, ElementOfSeq
    <2> QED
      BY <2>1, <2>2 DEF Sent
  <1>4. CASE /\ UNCHANGED <<queue, written, rooms>>
             /\ ~HeadIsSent /\ ~HeadIsSent' /\ (step = "aborted" => step' = "aborted")
    BY <1>4 DEF TextsInv, QueueBehindRooms, TextsArriveOnce
  <1>5. ASSUME NEW r \in Rooms, WriteText(r) PROVE QueueBehindRooms' /\ TextsArriveOnce'
    <2>1. /\ written' = written + 1
          /\ queue' = Append(queue, [room |-> r, text |-> written + 1])
          /\ UNCHANGED <<rooms, step, request, done>>
      BY <1>5 DEF WriteText, serverVars
    <2>2. [room |-> r, text |-> written + 1] \in Command
      BY <1>1 DEF Command
    <2>3. /\ Len(queue') = Len(queue) + 1 /\ DOMAIN queue' = 1 .. Len(queue) + 1
          /\ \A k \in DOMAIN queue : queue'[k] = queue[k]
          /\ queue'[Len(queue) + 1].text = written + 1
      BY <1>1, <1>2, <2>1, <2>2, AppendProperties, LenProperties
    <2>4. \A k \in DOMAIN queue' : k \in DOMAIN queue \/ k = Len(queue) + 1
      BY <1>2, <2>3
    <2>5. HeadIsSent' = HeadIsSent
      BY <2>1 DEF HeadIsSent
    <2>6. \A k \in DOMAIN queue' : queue'[k].text <= written'
      BY <1>1, <1>2, <2>1, <2>3, <2>4 DEF TextsInv, QueueBehindRooms
    <2>7. \A i \in DOMAIN rooms' : rooms'[i].text <= written'
      BY <1>1, <1>3, <2>1 DEF TextsInv, QueueBehindRooms
    <2>8. ASSUME NEW k \in DOMAIN queue', NEW l \in DOMAIN queue', k < l
          PROVE  queue'[k].text < queue'[l].text
      <3>1. k \in DOMAIN queue
        BY <1>2, <2>3, <2>4, <2>8
      <3>2. queue[k].text <= written
        BY <3>1 DEF TextsInv, QueueBehindRooms
      <3>3. CASE l \in DOMAIN queue
        BY <2>3, <2>8, <3>1, <3>3 DEF TextsInv, QueueBehindRooms
      <3>4. CASE l = Len(queue) + 1
        BY <1>1, <1>2, <2>3, <3>1, <3>2, <3>4
      <3> QED
        BY <2>4, <3>3, <3>4
    <2>9. ASSUME step' # "aborted", NEW i \in DOMAIN rooms', NEW k \in DOMAIN queue'
          PROVE  \/ rooms'[i].text < queue'[k].text
                 \/ HeadIsSent' /\ k = 1 /\ rooms'[i].text = queue'[k].text
      <3>1. CASE k \in DOMAIN queue
        BY <2>1, <2>3, <2>5, <2>9, <3>1 DEF TextsInv, QueueBehindRooms
      <3>2. CASE k = Len(queue) + 1
        <4>1. rooms[i].text <= written /\ rooms[i].text \in Nat
          BY <1>3, <2>1 DEF TextsInv, QueueBehindRooms
        <4> QED
          BY <1>1, <2>1, <2>3, <3>2, <4>1
      <3> QED
        BY <2>4, <3>1, <3>2
    <2>10. TextsArriveOnce'
      BY <2>1 DEF TextsInv, TextsArriveOnce
    <2> QED
      BY <2>6, <2>7, <2>8, <2>9, <2>10 DEF QueueBehindRooms
  <1>6. CASE IssueId
    <2>1. txnid \notin done
      BY <1>6, NewRequest DEF IssueId, TextsInv, RequestIsIssued
    <2> QED
      BY <1>4, <1>6, <2>1 DEF IssueId, HeadIsSent, serverVars
  <1>7. CASE SendRequest
    <2>1. /\ TextsArriveOnce'
          /\ \A i \in DOMAIN rooms' : rooms'[i].text <= queue[1].text
      BY <1>7, SentTextIsNext DEF SendRequest
    <2>2. queue # <<>>
      BY <1>7 DEF SendRequest, TextsInv, Handling
    <2>3. queue' = Tail(queue) /\ written' = written
      BY <1>7 DEF SendRequest
    <2>4. /\ DOMAIN queue' = 1 .. Len(queue) - 1
          /\ \A k \in 1 .. Len(queue) - 1 : queue'[k] = queue[k + 1]
      BY <1>1, <2>2, <2>3, QueueHead, LenProperties
    <2>5. \A k \in DOMAIN queue' : queue[1].text < queue'[k].text
      <3> SUFFICES ASSUME NEW k \in DOMAIN queue' PROVE queue[1].text < queue'[k].text
        OBVIOUS
      <3>1. 1 \in DOMAIN queue /\ k + 1 \in DOMAIN queue /\ 1 < k + 1
        BY <1>2, <2>4
      <3>2. \A l, m \in DOMAIN queue : l < m => queue[l].text < queue[m].text
        BY DEF TextsInv, QueueBehindRooms
      <3> QED
        BY <2>4, <3>1, <3>2
    <2>6. \A i \in DOMAIN rooms' : rooms'[i].text \in Nat
      <3>1. DOMAIN rooms' = 1 .. Len(rooms')
        BY <1>1, LenProperties
      <3>2. \A i \in 1 .. Len(rooms') : rooms'[i] \in Sent
        BY <1>1, ElementOfSeq
      <3> QED
        BY <3>1, <3>2 DEF Sent
    <2>7. 1 \in DOMAIN queue /\ queue[1].text <= written
      BY <1>1, <1>2, <2>2, QueueHead DEF TextsInv, QueueBehindRooms
    <2>8. \A k \in DOMAIN queue' : k \in 1 .. Len(queue) - 1 /\ k + 1 \in DOMAIN queue
      BY <1>2, <2>4
    <2>9. \A k \in DOMAIN queue' : queue'[k].text <= written'
      BY <2>3, <2>4, <2>8 DEF TextsInv, QueueBehindRooms
    <2>10. ASSUME NEW i \in DOMAIN rooms' PROVE rooms'[i].text <= written'
      <3>1. rooms'[i].text <= queue[1].text /\ rooms'[i].text \in Nat
        BY <2>1, <2>6
      <3>2. queue[1].text <= written /\ queue[1].text \in Nat /\ written' = written
        BY <1>2, <2>3, <2>7
      <3> QED
        BY <1>1, <3>1, <3>2
    <2>11. \A k, l \in DOMAIN queue' : k < l => queue'[k].text < queue'[l].text
      <3> SUFFICES ASSUME NEW k \in DOMAIN queue', NEW l \in DOMAIN queue', k < l
                   PROVE  queue'[k].text < queue'[l].text
        OBVIOUS
      <3>1. k + 1 \in DOMAIN queue /\ l + 1 \in DOMAIN queue /\ k + 1 < l + 1
        BY <2>4, <2>8
      <3>2. \A n, m \in DOMAIN queue : n < m => queue[n].text < queue[m].text
        BY DEF TextsInv, QueueBehindRooms
      <3> QED
        BY <2>4, <2>8, <3>1, <3>2
    <2>12. \A i \in DOMAIN rooms', k \in DOMAIN queue' : rooms'[i].text < queue'[k].text
      BY <1>2, <2>1, <2>4, <2>5, <2>6, <2>7, <2>8
    <2> QED
      BY <2>1, <2>9, <2>10, <2>11, <2>12 DEF QueueBehindRooms
  <1>8. CASE RequestFails
    <2>1. UNCHANGED <<queue, written, request>>
      BY <1>8 DEF RequestFails
    <2>2. CASE step = "sending" /\ SendAt
      <3>1. /\ TextsArriveOnce' /\ request \in done'
            /\ \A i \in DOMAIN rooms' : rooms'[i].text <= queue[1].text
        BY <2>2, SentTextIsNext
      <3>2. 1 \in DOMAIN queue /\ queue[1].text <= written
        BY <1>1, <1>2, <2>2, QueueHead DEF TextsInv, QueueBehindRooms, Handling
      <3>3. \A i \in DOMAIN rooms' : rooms'[i].text \in Nat
        <4>1. DOMAIN rooms' = 1 .. Len(rooms')
          BY <1>1, LenProperties
        <4>2. \A i \in 1 .. Len(rooms') : rooms'[i] \in Sent
          BY <1>1, ElementOfSeq
        <4> QED
          BY <4>1, <4>2 DEF Sent
      <3>4. \A i \in DOMAIN rooms' : rooms'[i].text <= written'
        BY <1>1, <1>2, <2>1, <3>1, <3>2, <3>3
      <3>5. \A k \in DOMAIN queue : k = 1 \/ queue[1].text < queue[k].text
        BY <1>2, <3>2 DEF TextsInv, QueueBehindRooms
      <3>6. step' = "aborted" \/ HeadIsSent'
        BY <1>8, <2>1, <2>2, <3>1 DEF RequestFails, RetriedAs, HeadIsSent
      <3>7. \A i \in DOMAIN rooms', k \in DOMAIN queue :
               rooms'[i].text < queue[k].text \/ (k = 1 /\ rooms'[i].text = queue[k].text)
        BY <1>2, <3>1, <3>2, <3>3, <3>5
      <3> QED
        BY <2>1, <3>1, <3>4, <3>6, <3>7 DEF TextsInv, QueueBehindRooms
    <2>3. CASE UNCHANGED serverVars
      BY <1>8, <2>1, <2>3 DEF RequestFails, RetriedAs, serverVars, TextsInv, QueueBehindRooms,
                              HeadIsSent, TextsArriveOnce
    <2>4. CASE step = "sharing" /\ ShareAt(Device)
      BY <1>4, <1>8, <2>4 DEF RequestFails, RetriedAs, ShareAt, HeadIsSent
    <2> QED
      BY <1>8, <2>2, <2>3, <2>4 DEF RequestFails
  <1>9. CASE Die
    <2>1. /\ queue' = <<>> /\ UNCHANGED <<written, rooms>>
      BY <1>9 DEF Die, serverVars
    <2>2. DOMAIN queue' = {}
      BY <1>1, <2>1, EmptySeq, LenProperties
    <2> QED
      BY <2>1, <2>2 DEF TextsInv, QueueBehindRooms, TextsArriveOnce
  <1>10. CASE TakeText \/ EncryptKey \/ Encrypt \/ ShareRequest \/ \E d \in BotDevices : Hears(d)
    BY <1>4, <1>10 DEF TakeText, EncryptKey, Encrypt, ShareRequest, ShareAt, Hears, HeadIsSent,
                       serverVars
  <1>11. CASE UNCHANGED sendVars
    BY <1>11 DEF sendVars, TextsInv, QueueBehindRooms, HeadIsSent, TextsArriveOnce
  <1> QED
    BY <1>5, <1>6, <1>7, <1>8, <1>9, <1>10, <1>11 DEF SendNext, TxnIdStep, allVars
-----------------------------------------------------------------------------
(* What is in the files and in memory is a session, and its number counts. *)
LEMMA SessionFacts ==
    ASSUME SendTypes
    PROVE  /\ Files \subseteq Session
           /\ outbound # NoSession => outbound \in Session
           /\ \A r \in Rooms : outFile[r] \in Files <=> outFile[r] \notin {NoSession, TornFile}
           /\ \A i \in DOMAIN rooms : rooms[i] \in Sent
  <1>1. \A r \in Rooms : outFile[r] \in Session \union {NoSession, TornFile}
    BY DEF SendTypes
  <1>2. Files \subseteq Session
    BY <1>1 DEF Files
  <1>3. \A i \in DOMAIN rooms : rooms[i] \in Sent
    <2>1. rooms \in Seq(Sent)
      BY DEF SendTypes
    <2>2. DOMAIN rooms = 1 .. Len(rooms)
      BY <2>1, LenProperties
    <2> QED
      BY <2>1, <2>2, ElementOfSeq
  <1> QED
    BY <1>2, <1>3 DEF Files, SendTypes

(* Steps that leave the sessions, the files and the rooms alone.           *)
LEMMA KeysUntouched ==
    ASSUME KeysInv,
           UNCHANGED <<outbound, outFile, cipher, rooms, nextSession>>,
           step' \in {"textId", "sending"} => /\ step \in {"textId", "sending"}
                                              /\ HeadIsSent => HeadIsSent'
    PROVE  KeysInv'
  <1>1. SessionsOfRooms'
    BY DEF KeysInv, SessionsOfRooms, Files
  <1>2. CipherIsLast' /\ KeysUsedOnce'
    BY DEF KeysInv, CipherIsLast, KeysUsedOnce
  <1>3. KeysBehindSessions'
    BY DEF KeysInv, KeysBehindSessions, Files
  <1> QED
    BY <1>1, <1>2, <1>3 DEF KeysInv

(* The session of a text is the one of the file, or a new one.             *)
LEMMA TakeTextKeys == ASSUME TextsInv, KeysInv, TakeText PROVE KeysInv'
  <1> USE SendingAssumption DEF None, NoSession, TornFile
  <1> DEFINE r == Text.room
  <1>1. r \in Rooms /\ SendTypes
    BY QueueHead DEF TakeText, TextsInv, SendTypes, Command
  <1>2. /\ outFile' = outFile
        /\ UNCHANGED <<cipher, rooms>>
        /\ step' \notin {"textId", "sending"}
        /\ step = "idle"
    BY DEF TakeText, FileWithNew, serverVars
  <1>3. /\ Files' = Files
        /\ CipherIsLast' /\ KeysUsedOnce'
    BY <1>2 DEF Files, CipherIsLast, KeysInv, KeysUsedOnce
  <1>4. CASE UNCHANGED <<outbound, nextSession>>
    BY <1>2, <1>4, KeysUntouched
  <1>5. CASE outbound' = outFile[r] /\ outFile[r] \in Files /\ UNCHANGED nextSession
    <2>1. SessionsOfRooms'
      <3>1. \A s, t \in Files : s.session = t.session => s = t
        BY <1>1 DEF KeysInv, SessionsOfRooms, Files
      <3> QED
        BY <1>1, <1>2, <1>3, <1>5, <3>1 DEF KeysInv, SessionsOfRooms
    <2>2. KeysBehindSessions'
      BY <1>2, <1>3, <1>5 DEF KeysInv, KeysBehindSessions
    <2> QED
      BY <1>3, <2>1, <2>2 DEF KeysInv
  <1>6. CASE /\ outbound' = [room |-> r, session |-> nextSession, index |-> 0]
             /\ outFile[r] = NoSession
             /\ nextSession' = nextSession + 1
    <2>1. nextSession \in Nat \ {0} /\ Files \subseteq Session
      BY <1>1, SessionFacts DEF SendTypes
    <2>2. \A s \in Files : s.session < nextSession /\ s.session \in Nat
      BY <2>1 DEF KeysInv, SessionsOfRooms, Session
    <2>3. SessionsOfRooms'
      <3>1. \A q \in Rooms : outFile'[q] \in Files' => outFile'[q].room = q
        BY <1>2, <1>3 DEF KeysInv, SessionsOfRooms
      <3>2. \A s \in Files' : s.session < nextSession' /\ s.session # outbound'.session
        BY <1>3, <1>6, <2>1, <2>2
      <3>3. \A s, t \in Files' : s.session = t.session => s.room = t.room
        BY <1>3 DEF KeysInv, SessionsOfRooms
      <3>4. outbound'.session < nextSession' /\ outbound'.room = r
        BY <1>6, <2>1
      <3> QED
        BY <1>2, <1>6, <3>1, <3>2, <3>3, <3>4 DEF SessionsOfRooms
    <2>4. \A i \in DOMAIN rooms : rooms[i].session < nextSession /\ rooms[i].session \in Nat
      BY <1>1, SessionFacts DEF KeysInv, KeysBehindSessions, Sent
    <2>5. KeysBehindSessions'
      <3> SUFFICES ASSUME NEW i \in DOMAIN rooms
                   PROVE  /\ rooms[i].session < nextSession'
                          /\ \A s \in Files' \union {outbound'} :
                                rooms[i].session = s.session => rooms[i].index < s.index
        BY <1>2 DEF KeysBehindSessions
      <3>1. rooms[i].session < nextSession' /\ rooms[i].session # outbound'.session
        BY <1>6, <2>1, <2>4
      <3>2. \A s \in Files : rooms[i].session = s.session => rooms[i].index < s.index
        BY DEF KeysInv, KeysBehindSessions
      <3> QED
        BY <1>3, <3>1, <3>2
    <2> QED
      BY <1>3, <2>3, <2>5 DEF KeysInv
  <1>7. outFile[r] \notin {NoSession, TornFile} => outFile[r] \in Files
    BY <1>1 DEF Files
  <1>8. \/ UNCHANGED <<outbound, nextSession>>
        \/ outbound' = outFile[r] /\ outFile[r] \in Files /\ UNCHANGED nextSession
        \/ /\ outbound' = [room |-> r, session |-> nextSession, index |-> 0]
           /\ outFile[r] = NoSession
           /\ nextSession' = nextSession + 1
    BY <1>7 DEF TakeText
  <1> QED
    BY <1>4, <1>5, <1>6, <1>8

(* The session moves on, in memory and in its file, before the text is     *)
(* sent.                                                                   *)
LEMMA EncryptKeys == ASSUME TextsInv, KeysInv, Encrypt PROVE KeysInv'
  <1> USE SendingAssumption
  <1>1. /\ outbound \in Session /\ SendTypes
        /\ outbound # NoSession
    BY SessionFacts DEF Encrypt, TextsInv, Handling
  <1> DEFINE new == [outbound EXCEPT !.index = @ + 1]
             q == outbound.room
  <1>2. /\ outbound' = new /\ cipher' = outbound /\ step' = "textId"
        /\ outFile' = [outFile EXCEPT ![q] = new]
        /\ UNCHANGED <<rooms, nextSession>>
    BY DEF Encrypt, Pickled, serverVars
  <1>3. /\ new \in Session /\ new.room = q /\ new.session = outbound.session
        /\ new.index = outbound.index + 1 /\ outbound.index \in Nat /\ q \in Rooms
    BY <1>1 DEF Session
  <1> HIDE DEF new
  <1>4. /\ outFile'[q] = new
        /\ \A r \in Rooms : r # q => outFile'[r] = outFile[r]
    BY <1>1, <1>2, <1>3 DEF SendTypes
  <1>5. ASSUME NEW s \in Files'
        PROVE  s = new \/ (s \in Files /\ s.room # q /\ s.session # new.session)
    <2>1. PICK r \in Rooms : s = outFile'[r] /\ s \notin {NoSession, TornFile}
      BY DEF Files
    <2>2. CASE r # q
      <3>1. s = outFile[r] /\ s \in Files
        BY <1>4, <2>1, <2>2 DEF Files
      <3>2. s.room = r
        BY <3>1 DEF KeysInv, SessionsOfRooms
      <3> QED
        BY <1>1, <1>3, <2>2, <3>1, <3>2 DEF KeysInv, SessionsOfRooms
    <2> QED
      BY <1>4, <2>1, <2>2
  <1>6. SessionsOfRooms'
    <2>1. ASSUME NEW r \in Rooms, outFile'[r] \in Files' PROVE outFile'[r].room = r
      <3>1. CASE r = q
        BY <1>3, <1>4, <3>1
      <3>2. CASE r # q
        <4>1. outFile'[r] = outFile[r] /\ outFile[r] \notin {NoSession, TornFile}
          BY <1>4, <2>1, <3>2 DEF Files
        <4> QED
          BY <1>1, <4>1, SessionFacts DEF KeysInv, SessionsOfRooms
      <3> QED
        BY <3>1, <3>2
    <2>2. \A s \in Files' : s.session < nextSession'
      BY <1>1, <1>2, <1>3, <1>5 DEF KeysInv, SessionsOfRooms
    <2>3. \A s, t \in Files' : s.session = t.session => s.room = t.room
      BY <1>5 DEF KeysInv, SessionsOfRooms
    <2>4. \A s \in Files' : s.session = outbound'.session => s = outbound'
      BY <1>2, <1>5
    <2>5. outbound'.session < nextSession'
      BY <1>1, <1>2, <1>3 DEF KeysInv, SessionsOfRooms
    <2> QED
      BY <1>2, <1>3, <1>4, <2>1, <2>2, <2>3, <2>4, <2>5 DEF SessionsOfRooms
  <1>7. CipherIsLast'
    BY <1>2, <1>3 DEF CipherIsLast
  <1>8. KeysBehindSessions'
    <2> SUFFICES ASSUME NEW i \in DOMAIN rooms
                 PROVE  /\ rooms[i].session < nextSession
                        /\ \A s \in Files' \union {new} :
                              rooms[i].session = s.session => rooms[i].index < s.index
                        /\ rooms[i].session = outbound.session => rooms[i].index < outbound.index
      BY <1>2 DEF KeysBehindSessions
    <2>1. /\ rooms[i].session < nextSession
          /\ \A s \in Files \union {outbound} :
                rooms[i].session = s.session => rooms[i].index < s.index
      BY DEF KeysInv, KeysBehindSessions
    <2>2. rooms[i].index \in Nat
      BY <1>1, SessionFacts DEF Sent
    <2>3. rooms[i].session = new.session => rooms[i].index < new.index
      BY <1>3, <2>1, <2>2
    <2> QED
      BY <1>5, <2>1, <2>3
  <1>9. KeysUsedOnce'
    BY <1>2 DEF KeysInv, KeysUsedOnce
  <1> QED
    BY <1>6, <1>7, <1>8, <1>9 DEF KeysInv

(* The text that reaches the server has a key that no other text has.      *)
LEMMA SentTextKeys ==
    ASSUME TextsInv, KeysInv, step = "sending", request \notin done,
           NEW e \in Sent, rooms' = Append(rooms, e),
           e.session = cipher.session, e.index = cipher.index,
           UNCHANGED <<outbound, outFile, cipher, nextSession>>,
           step' # "textId", step' = "sending" => HeadIsSent'
    PROVE  KeysInv'
  <1>1. /\ DOMAIN rooms = 1 .. Len(rooms) /\ DOMAIN rooms' = 1 .. Len(rooms) + 1
        /\ Len(rooms) \in Nat
        /\ \A i \in DOMAIN rooms : rooms'[i] = rooms[i]
        /\ rooms'[Len(rooms) + 1] = e
    BY RoomsGrow DEF TextsInv
  <1>2. \A i \in DOMAIN rooms' : i \in DOMAIN rooms \/ i = Len(rooms) + 1
    BY <1>1
  <1>3. /\ outbound \in Session /\ outbound # NoSession
        /\ cipher.session = outbound.session /\ outbound.index = cipher.index + 1
        /\ cipher.index \in Nat
    BY SessionFacts DEF TextsInv, Handling, KeysInv, CipherIsLast, Sent
  <1>4. \A i \in DOMAIN rooms : rooms[i].session = e.session => rooms[i].index < e.index
    BY DEF KeysInv, KeysBehindSessions, HeadIsSent
  <1>5. SessionsOfRooms' /\ CipherIsLast'
    BY DEF KeysInv, SessionsOfRooms, CipherIsLast, Files
  <1>6. Files' = Files
    BY DEF Files
  <1>7. KeysBehindSessions'
    <2> SUFFICES ASSUME NEW i \in DOMAIN rooms'
                 PROVE  /\ rooms'[i].session < nextSession
                        /\ \A s \in Files \union {outbound} :
                              rooms'[i].session = s.session => rooms'[i].index < s.index
      BY <1>6 DEF KeysBehindSessions
    <2>1. CASE i \in DOMAIN rooms
      BY <1>1, <2>1 DEF KeysInv, KeysBehindSessions
    <2>2. CASE i = Len(rooms) + 1
      <3>1. \A s \in Files \union {outbound} : s.session = e.session => s = outbound
        BY <1>3 DEF KeysInv, SessionsOfRooms
      <3>2. e.index < outbound.index
        BY <1>3
      <3>3. e.session < nextSession
        BY <1>3 DEF KeysInv, SessionsOfRooms
      <3> QED
        BY <1>1, <2>2, <3>1, <3>2, <3>3
    <2> QED
      BY <1>2, <2>1, <2>2
  <1>8. KeysUsedOnce'
    <2> SUFFICES ASSUME NEW i \in DOMAIN rooms', NEW j \in DOMAIN rooms',
                        rooms'[i].session = rooms'[j].session,
                        rooms'[i].index = rooms'[j].index
                 PROVE  i = j
      BY DEF KeysUsedOnce
    <2>1. \A k \in DOMAIN rooms : rooms[k].session = e.session => rooms[k].index # e.index
      BY <1>3, <1>4
    <2>2. CASE i \in DOMAIN rooms /\ j \in DOMAIN rooms
      BY <1>1, <2>2 DEF KeysInv, KeysUsedOnce
    <2> QED
      BY <1>1, <1>2, <2>1, <2>2
  <1> QED
    BY <1>5, <1>7, <1>8 DEF KeysInv

(* A crash loses what is in memory; a file goes back to no session at all  *)
(* or stays as it was saved.                                               *)
LEMMA DieKeys == ASSUME TextsInv, KeysInv, Die PROVE KeysInv'
  <1> USE SendingAssumption DEF None, NoSession, TornFile
  <1>1. /\ outbound' = NoSession /\ step' = "idle"
        /\ UNCHANGED <<rooms, nextSession>>
        /\ \/ outFile' = outFile
           \/ outFile' = [outFile EXCEPT ![outbound.room] = TornFile]
    BY DEF Die, serverVars
  <1>2. outFile \in [Rooms -> Session \union {NoSession, TornFile}] /\ SendTypes
    BY DEF TextsInv, SendTypes
  <1>3. \A r \in Rooms : outFile'[r] = TornFile \/ outFile'[r] = outFile[r]
    BY <1>1, <1>2
  <1>4. Files' \subseteq Files
    BY <1>3 DEF Files
  <1>5. \A r \in Rooms : outFile'[r] \in Files' => outFile[r] \in Files /\ outFile'[r] = outFile[r]
    BY <1>3, <1>4 DEF Files
  <1>6. SessionsOfRooms'
    BY <1>1, <1>4, <1>5 DEF KeysInv, SessionsOfRooms
  <1>7. KeysBehindSessions'
    <2> SUFFICES ASSUME NEW i \in DOMAIN rooms
                 PROVE  /\ rooms[i].session < nextSession
                        /\ \A s \in Files' \union {NoSession} :
                              rooms[i].session = s.session => rooms[i].index < s.index
      BY <1>1 DEF KeysBehindSessions
    <2>1. rooms[i].session # 0
      BY <1>2, SessionFacts DEF Sent
    <2> QED
      BY <1>4, <2>1 DEF KeysInv, KeysBehindSessions
  <1>8. CipherIsLast' /\ KeysUsedOnce'
    BY <1>1 DEF CipherIsLast, KeysInv, KeysUsedOnce
  <1> QED
    BY <1>6, <1>7, <1>8 DEF KeysInv

(* No step lets a key be used again.                                       *)
LEMMA KeysStep == ASSUME IInv, TextsInv, KeysInv, [SendNext]_allVars PROVE KeysInv'
  <1>1. CASE TakeText
    BY <1>1, TakeTextKeys
  <1>2. CASE Encrypt
    BY <1>2, EncryptKeys
  <1>3. CASE Die
    BY <1>3, DieKeys
  <1>4. CASE IssueId
    <2>1. txnid \notin done
      BY <1>4, NewRequest DEF IssueId, TextsInv, RequestIsIssued
    <2> QED
      BY <1>4, <2>1, KeysUntouched DEF IssueId, HeadIsSent, serverVars
  <1>5. CASE SendRequest \/ (RequestFails /\ step = "sending" /\ SendAt)
    <2>1. /\ step = "sending" /\ SendAt
          /\ UNCHANGED <<outbound, outFile, cipher, nextSession, request>>
          /\ step' \in {"idle", "sending", "aborted"}
      BY <1>5 DEF SendRequest, RequestFails, RetriedAs
    <2>2. step' = "sending" => HeadIsSent'
      BY <2>1 DEF HeadIsSent, SendAt
    <2>3. CASE request \in done /\ UNCHANGED <<rooms, done>>
      BY <2>1, <2>2, <2>3, KeysUntouched
    <2>4. ASSUME request \notin done,
                 NEW e \in Sent, rooms' = Append(rooms, e),
                 e.session = cipher.session, e.index = cipher.index
          PROVE  KeysInv'
      BY <2>1, <2>2, <2>4, SentTextKeys
    <2> QED
      BY <2>1, <2>3, <2>4, ServerAppends DEF TextsInv, KeysInv
  <1>6. CASE RequestFails /\ ~(step = "sending" /\ SendAt)
    BY <1>6, KeysUntouched DEF RequestFails, RetriedAs, ShareAt, serverVars, HeadIsSent
  <1>7. CASE \/ \E r \in Rooms : WriteText(r)
             \/ \E d \in BotDevices : Hears(d)
             \/ EncryptKey \/ ShareRequest \/ UNCHANGED sendVars
    BY <1>7, KeysUntouched DEF WriteText, Hears, EncryptKey, ShareRequest, ShareAt, sendVars,
                               serverVars, HeadIsSent
  <1> QED
    BY <1>1, <1>2, <1>3, <1>4, <1>5, <1>6, <1>7 DEF SendNext, TxnIdStep, allVars
-----------------------------------------------------------------------------
(* The first session is shared with the device it is with.                 *)
LEMMA SharedStep ==
    ASSUME IInv, TextsInv, KeysInv, SharedBeforeUse, TextsAreReadable, [SendNext]_allVars
    PROVE  SharedBeforeUse' /\ TextsAreReadable'
  <1> USE SendingAssumption
  <1>1. SendTypes /\ (todo # {} => Device \in todo) /\ None \notin BotDevices
    BY DEF TextsInv, Device, None
  <1>2. step \in {"shareId", "sharing"} =>
            /\ SharedInTurn /\ Device \in todo /\ todo \subseteq BotDevices
            /\ userSession \in BotDevices
            /\ userSession \in todo \/ outbound.session \in botKeys[userSession]
    BY <1>1 DEF SharedBeforeUse, SharedInTurn, Sharing
  <1>3. ASSUME UNCHANGED <<inboundCopy, botKeys, rooms, outbound, outFile, cipher, userSession,
                           todo, done>>,
               \/ UNCHANGED <<step, request>>
               \/ step = "shareId" /\ step' = "sharing" /\ request' \notin done
               \/ step = "textId" /\ step' = "sending"
               \/ step' = "aborted"
               \/ step = "sending" /\ step' = "idle"
               \/ step = "idle" /\ step' = "encrypt"
        PROVE  SharedBeforeUse' /\ TextsAreReadable'
    BY <1>3 DEF SharedBeforeUse, SharedInTurn, Sharing, TextsAreReadable, Readable, Files, Device
  <1>4. CASE TakeText
    <2> DEFINE r == Text.room
    <2>1. /\ step = "idle" /\ outFile' = outFile
          /\ UNCHANGED <<botKeys, rooms, cipher, userSession, done, request>>
      BY <1>4 DEF TakeText, FileWithNew, serverVars
    <2>2. CASE UNCHANGED <<outbound, todo, inboundCopy>> /\ step' \in {"encrypt", "aborted"}
      BY <1>3, <2>1, <2>2
    <2>3. CASE /\ outbound' = outFile[r] /\ outFile[r] \notin {NoSession, TornFile}
               /\ UNCHANGED <<todo, inboundCopy>> /\ step' = "encrypt"
      <3>1. r \in Rooms
        BY <1>1, <1>4, QueueHead DEF TakeText, SendTypes, Command
      <3>2. outbound' \in Files /\ Files' = Files
        BY <2>1, <2>3, <3>1 DEF Files
      <3> QED
        BY <2>1, <2>3, <3>2 DEF SharedBeforeUse, Sharing, TextsAreReadable, Readable
    <2>4. CASE /\ outbound'.session = nextSession
               /\ inboundCopy' = inboundCopy \union {nextSession}
               /\ todo' = BotDevices /\ step' = "share"
      BY <2>1, <2>4 DEF SharedBeforeUse, SharedInTurn, Sharing, TextsAreReadable, Readable, Files
    <2> QED
      BY <1>4, <2>2, <2>3, <2>4 DEF TakeText
  <1>5. CASE EncryptKey
    <2>1. /\ SharedInTurn /\ Device \in BotDevices /\ Device \in todo
          /\ step = "share" /\ step' = "shareId"
          /\ userSession' = IF userSession = None THEN Device ELSE userSession
          /\ UNCHANGED <<inboundCopy, botKeys, rooms, outbound, outFile, cipher, todo>>
      BY <1>1, <1>5 DEF EncryptKey, SharedBeforeUse, SharedInTurn, Sharing, serverVars
    <2>2. /\ userSession' \in BotDevices /\ userSession' # None
          /\ SharedInTurn'
      BY <1>1, <2>1 DEF SharedBeforeUse, SharedInTurn
    <2> QED
      BY <2>1, <2>2 DEF SharedBeforeUse, Sharing, TextsAreReadable, Readable, Files
  <1>6. CASE Encrypt
    <2>1. /\ outbound # NoSession /\ step = "encrypt"
          /\ cipher' = outbound /\ step' = "textId"
          /\ outbound'.session = outbound.session
          /\ UNCHANGED <<inboundCopy, botKeys, rooms, userSession, todo>>
      BY <1>1, <1>6, SessionFacts DEF Encrypt, serverVars, TextsInv, Handling, Session
    <2>2. \A r \in Rooms : outFile'[r] = outFile[r] \/ outFile'[r].session = outbound.session
      BY <1>1, <1>6, <2>1, SessionFacts DEF Encrypt, Pickled, SendTypes, Session
    <2>3. \A s \in Files' : s \in Files \/ s.session = outbound.session
      BY <2>2 DEF Files
    <2>4. Readable(outbound.session)
      BY <2>1 DEF SharedBeforeUse, Sharing
    <2> QED
      BY <2>1, <2>3, <2>4 DEF SharedBeforeUse, Sharing, TextsAreReadable, Readable
  <1>7. CASE IssueId
    <2>1. txnid \notin done
      BY <1>7, NewRequest DEF IssueId, TextsInv, RequestIsIssued
    <2> QED
      BY <1>3, <1>7, <2>1 DEF IssueId, serverVars
  <1>8. CASE step = "sharing" /\ ShareAt(Device) /\ (ShareRequest \/ RequestFails)
    <2> DEFINE s == outbound.session
    <2>1. /\ userSession \in BotDevices /\ userSession # None
          /\ outbound # NoSession /\ s \in inboundCopy /\ s \in Nat
          /\ botKeys \in [BotDevices -> SUBSET Nat]
      BY <1>1, <1>2, <1>8 DEF SharedBeforeUse, TextsInv, Handling, SendTypes, Session
    <2>2. /\ UNCHANGED <<inboundCopy, rooms, outbound, outFile, cipher, userSession, request>>
          /\ \/ todo' = todo \ {Device} /\ step' = IF todo' = {} THEN "encrypt" ELSE "share"
             \/ todo' = todo /\ step' \in {"sharing", "aborted"}
      BY <1>8 DEF ShareRequest, RequestFails, RetriedAs, ShareAt
    <2>3. /\ \A d \in BotDevices : \A k : k \in botKeys[d] => k \in botKeys'[d]
          /\ userSession = Device => s \in botKeys'[userSession]
      BY <1>8, <2>1 DEF ShareAt, SharedBeforeUse
    <2>4. userSession \in todo' \/ s \in botKeys'[userSession]
      BY <1>2, <1>8, <2>1, <2>2, <2>3
    <2>5. todo' = todo => Device' = Device
      BY DEF Device
    <2>6. Files' = Files
      BY <2>2 DEF Files
    <2>7. \A k : Readable(k) => Readable(k)'
      BY <2>2, <2>3 DEF Readable
    <2>8. TextsAreReadable'
      BY <2>2, <2>3 DEF TextsAreReadable
    <2>9. step' \notin {"sharing", "share"} => step' = "aborted" \/ Readable(s)'
      BY <2>1, <2>2, <2>4 DEF Readable
    <2>10. step' \in {"sharing", "share"} => SharedInTurn'
      BY <1>2, <1>8, <2>1, <2>2, <2>4 DEF SharedInTurn
    <2>11. \A f \in Files' : Readable(f.session)'
      BY <2>6, <2>7 DEF SharedBeforeUse
    <2>12. step' = "sharing" /\ userSession' = Device' => s \in botKeys'[userSession]
      BY <2>2, <2>3, <2>5
    <2>13. step' \in {"sharing", "share", "encrypt", "aborted"}
      BY <2>2
    <2> QED
      BY <2>1, <2>2, <2>8, <2>9, <2>10, <2>11, <2>12, <2>13 DEF SharedBeforeUse, Sharing
  <1>9. CASE step = "sending" /\ SendAt /\ (SendRequest \/ RequestFails)
    <2>1. /\ UNCHANGED <<inboundCopy, botKeys, outbound, outFile, cipher, userSession, todo>>
          /\ step' \in {"idle", "sending", "aborted"}
      BY <1>9 DEF SendRequest, RequestFails, RetriedAs, SendAt
    <2>2. Readable(cipher.session) /\ Readable(outbound.session)
      BY <1>9 DEF SharedBeforeUse, Sharing, TextsInv, Handling
    <2>3. \A i \in DOMAIN rooms' : \/ i \in DOMAIN rooms /\ rooms'[i] = rooms[i]
                                   \/ rooms'[i].session = cipher.session
      <3>1. CASE UNCHANGED rooms
        BY <3>1
      <3>2. ASSUME NEW e \in Sent, rooms' = Append(rooms, e), e.session = cipher.session
            PROVE  \A i \in DOMAIN rooms' : \/ i \in DOMAIN rooms /\ rooms'[i] = rooms[i]
                                            \/ rooms'[i].session = cipher.session
        BY <1>1, <3>2, RoomsGrow
      <3> QED
        BY <1>1, <1>9, <3>1, <3>2, ServerAppends DEF TextsInv, KeysInv
    <2>4. TextsAreReadable'
      BY <2>1, <2>2, <2>3 DEF TextsAreReadable, Readable
    <2>5. Files' = Files
      BY <2>1 DEF Files
    <2> QED
      BY <2>1, <2>2, <2>4, <2>5 DEF SharedBeforeUse, Sharing, Readable
  <1>10. CASE RequestFails /\ UNCHANGED serverVars
    BY <1>3, <1>10 DEF RequestFails, RetriedAs, serverVars
  <1>11. CASE Die
    <2>1. /\ outbound' = NoSession /\ step' = "idle" /\ userSession' \in {userSession, None}
          /\ UNCHANGED <<inboundCopy, botKeys, rooms>>
          /\ \/ outFile' = outFile
             \/ outFile' = [outFile EXCEPT ![outbound.room] = TornFile]
      BY <1>11 DEF Die, serverVars
    <2>2. \A r \in Rooms : outFile'[r] = TornFile \/ outFile'[r] = outFile[r]
      BY <1>1, <2>1 DEF SendTypes
    <2>3. Files' \subseteq Files
      BY <2>2 DEF Files, TornFile
    <2> QED
      BY <2>1, <2>3 DEF SharedBeforeUse, Sharing, TextsAreReadable, Readable
  <1>12. CASE (\E r \in Rooms : WriteText(r)) \/ UNCHANGED sendVars
    BY <1>3, <1>12 DEF WriteText, sendVars, serverVars
  <1>13. ASSUME NEW d \in BotDevices, Hears(d) PROVE SharedBeforeUse' /\ TextsAreReadable'
    BY <1>13 DEF Hears, serverVars, SharedBeforeUse, Sharing, TextsAreReadable, Readable, Files
  <1> QED
    BY <1>4, <1>5, <1>6, <1>7, <1>8, <1>9, <1>10, <1>11, <1>12, <1>13
       DEF SendNext, TxnIdStep, ShareRequest, SendRequest, RequestFails, allVars
-----------------------------------------------------------------------------
SendInv == TextsInv /\ KeysInv

LEMMA InitSendInv == SendInit => SendInv
  <1> SUFFICES ASSUME SendInit PROVE SendInv
    OBVIOUS
  <1> USE SendingAssumption DEF SendInit, None, NoSession, TornFile
  <1>1. SendTypes
    BY EmptySeq DEF SendTypes, Steps
  <1>2. DOMAIN rooms = {} /\ DOMAIN queue = {}
    BY EmptySeq, LenProperties
  <1>3. Handling /\ RequestIsIssued /\ QueueBehindRooms /\ TextsArriveOnce
    BY <1>2 DEF Handling, RequestIsIssued, QueueBehindRooms, TextsArriveOnce
  <1>4. Files = {}
    BY DEF Files
  <1>5. KeysInv
    BY <1>2, <1>4 DEF KeysInv, SessionsOfRooms, CipherIsLast, KeysBehindSessions, KeysUsedOnce
  <1> QED
    BY <1>1, <1>3, <1>5 DEF SendInv, TextsInv

LEMMA StepSendInv == IInv /\ SendInv /\ [SendNext]_allVars => SendInv'
  <1> SUFFICES ASSUME IInv, SendInv, [SendNext]_allVars PROVE SendInv'
    OBVIOUS
  <1>1. SendTypes' /\ Handling'
    BY TypesStep DEF SendInv, TextsInv, KeysInv
  <1>2. RequestIsIssued'
    BY RequestsStep DEF SendInv, TextsInv
  <1>3. QueueBehindRooms' /\ TextsArriveOnce'
    BY <1>1, TextsStep DEF SendInv, KeysInv
  <1>4. KeysInv'
    BY KeysStep DEF SendInv
  <1> QED
    BY <1>1, <1>2, <1>3, <1>4 DEF SendInv, TextsInv

(* The order of the texts and the keys of the sessions, in every run.      *)
THEOREM SendingInvariant == SendSpec => []SendInv
  BY InitSendInv, StepSendInv, SendingTxnId, PTL DEF SendSpec

(* A text is in its room once and in the order of writing, however often   *)
(* its request was repeated and whenever the program died.                 *)
THEOREM SendingTextsArriveOnce == SendSpec => []TextsArriveOnce
  <1>1. SendInv => TextsArriveOnce
    BY DEF SendInv, TextsInv
  <1> QED
    BY <1>1, SendingInvariant, PTL

(* No key of a session encrypts two texts: what a crash brings back from a *)
(* file is beyond what was sent.                                           *)
THEOREM SendingKeysUsedOnce == SendSpec => []KeysUsedOnce
  <1>1. SendInv => KeysUsedOnce
    BY DEF SendInv, KeysInv
  <1> QED
    BY <1>1, SendingInvariant, PTL

(* Every text in a room can be read by this device and by a device of the  *)
(* bot, for any number of devices, retries and crashes.                    *)
THEOREM SendingTextsAreReadable == SendSpec => []TextsAreReadable
  <1>1. SendInit => SharedBeforeUse /\ TextsAreReadable
    <2> SUFFICES ASSUME SendInit PROVE SharedBeforeUse /\ TextsAreReadable
      OBVIOUS
    <2>1. Files = {} /\ DOMAIN rooms = {}
      BY EmptySeq, LenProperties DEF SendInit, Files
    <2> QED
      BY <2>1 DEF SendInit, SharedBeforeUse, Sharing, TextsAreReadable
  <1>2. /\ IInv /\ SendInv /\ SharedBeforeUse /\ TextsAreReadable /\ [SendNext]_allVars
        => SharedBeforeUse' /\ TextsAreReadable'
    BY SharedStep DEF SendInv
  <1> QED
    BY <1>1, <1>2, SendingInvariant, SendingTxnId, PTL DEF SendSpec
-----------------------------------------------------------------------------
(* The loop calls the callback of the registration whose event was polled. *)
Handles ==
    [fd : Fds \union {NULL}, events : SUBSET Loop!Events, prev : Addresses \union {NULL},
     next : Addresses \union {NULL}, number : Nat]

Interests == [address : Addresses \union {NULL}, events : SUBSET Loop!Events]

LoopTypes ==
    /\ handle \in [Addresses -> Handles]
    /\ interest \in [Fds -> Interests]
    /\ batch \in Seq(Interests) /\ Len(polled) = Len(batch)
    /\ running \in Nat /\ index \in Nat \ {0} /\ added \in Nat
    /\ head \in Addresses \union {NULL}
    /\ loopAt \in {"outside", "between", "callback"}

(* The kernel and the program agree on who is registered for what.         *)
InterestIsOfHandles ==
    /\ \A f \in Fds : interest[f].address # NULL => handle[interest[f].address].fd = f
    /\ \A a \in Loop!Used : interest[handle[a].fd].address = a

(* An event that is still to come is of a registration that is still there.*)
ToCome == {i \in DOMAIN batch : i >= index /\ (loopAt = "callback" => i > index)}

OfItsOwn(i) ==
    batch[i].address # NULL =>
        /\ batch[i].address \in Loop!Used
        /\ handle[batch[i].address].number = polled[i]

EventsAreOfTheirOwn ==
    /\ \A i \in ToCome : OfItsOwn(i)
    /\ loopAt = "outside" => batch = <<>>
    /\ loopAt = "callback" => running = index

LoopInv == LoopTypes /\ InterestIsOfHandles /\ EventsAreOfTheirOwn
-----------------------------------------------------------------------------
LEMMA LoopStarts ==
    ASSUME Loop!Init PROVE LoopInv
  <1>1. LoopTypes
    BY DEF Loop!Init, LoopTypes, Handles, Interests, Loop!Unused
  <1>2. Loop!Used = {}
    BY DEF Loop!Init, Loop!Used, Loop!Unused
  <1>3. InterestIsOfHandles
    BY <1>2 DEF InterestIsOfHandles, Loop!Init
  <1>4. EventsAreOfTheirOwn
    BY DEF EventsAreOfTheirOwn, ToCome, Loop!Init
  <1> QED
    BY <1>1, <1>3, <1>4 DEF LoopInv

LEMMA LoopAdd ==
    ASSUME LoopInv, NEW a \in Addresses, NEW f \in Fds, NEW w \in Loop!Wants,
           Loop!Add(a, f, {w}), UNCHANGED <<running, loopAt, index>>
    PROVE  LoopInv'
  <1> DEFINE new == [fd |-> f, events |-> {w}, prev |-> NULL, next |-> head, number |-> added + 1]
  <1> USE DEF LoopInv
  <1>1. LoopTypes /\ new \in Handles /\ a \notin Loop!Used /\ f # NULL
    <2>1. LoopTypes
      OBVIOUS
    <2>2. a \notin Loop!Used
      BY DEF Loop!Add
    <2>3. f # NULL
      BY NULLAssumption
    <2>4. {w} \in SUBSET Loop!Events
      BY DEF Loop!Events, Loop!Wants
    <2>5. head \in Addresses \union {NULL} /\ added + 1 \in Nat
      BY <2>1 DEF LoopTypes
    <2> QED
      BY <2>1, <2>2, <2>3, <2>4, <2>5 DEF Handles
  <1>2. /\ handle' = Loop!Linked(a, new) /\ interest[f].address = NULL
        /\ interest' = [interest EXCEPT ![f] = [address |-> a, events |-> {w}]]
        /\ batch' = batch /\ polled' = polled /\ added' = added + 1 /\ head' = a
    BY DEF Loop!Add
  <1> HIDE DEF new
  <1>3. /\ handle'[a] = new
        /\ \A b \in Addresses : b # a =>
              handle'[b].fd = handle[b].fd /\ handle'[b].number = handle[b].number
        /\ handle' \in [Addresses -> Handles]
    BY <1>1, <1>2, SMTT(30) DEF Loop!Linked, LoopTypes, Handles
  <1>4. new.fd = f
    BY DEF new
  <1>5. Loop!Used' = Loop!Used \union {a}
    BY <1>1, <1>3, <1>4 DEF Loop!Used
  <1>6. LoopTypes'
    BY <1>1, <1>2, <1>3 DEF LoopTypes, Interests, Loop!Events, Loop!Wants
  <1>7. InterestIsOfHandles'
    <2>1. \A g \in Fds : interest'[g].address # NULL => handle'[interest'[g].address].fd = g
      BY <1>1, <1>2, <1>3, <1>4, NULLAssumption DEF InterestIsOfHandles, LoopTypes, Interests, Loop!Used
    <2>2. \A b \in Loop!Used' : interest'[handle'[b].fd].address = b
      <3>1. \A b \in Loop!Used : b # a /\ handle'[b].fd = handle[b].fd /\ handle[b].fd \in Fds
        BY <1>1, <1>3 DEF Loop!Used, LoopTypes, Handles
      <3>2. \A b \in Loop!Used : handle[b].fd # f
        BY <1>2, NULLAssumption DEF InterestIsOfHandles, Loop!Used
      <3> QED
        BY <1>1, <1>2, <1>3, <1>4, <1>5, <3>1, <3>2 DEF InterestIsOfHandles, LoopTypes
    <2> QED
      BY <2>1, <2>2 DEF InterestIsOfHandles
  <1>8. EventsAreOfTheirOwn'
    BY <1>1, <1>2, <1>3, <1>5 DEF EventsAreOfTheirOwn, ToCome, OfItsOwn, Loop!Used
  <1> QED
    BY <1>6, <1>7, <1>8 DEF LoopInv

LEMMA LoopModify ==
    ASSUME LoopInv, NEW a \in Loop!Used, NEW w \in Loop!Wants,
           Loop!Modify(a, {w}), UNCHANGED <<running, loopAt, index>>
    PROVE  LoopInv'
  <1> USE DEF LoopInv
  <1>1. /\ LoopTypes /\ a \in Addresses /\ handle[a].fd \in Fds /\ {w} \in SUBSET Loop!Events
        /\ interest[handle[a].fd].address = a
    BY DEF LoopTypes, Loop!Used, Handles, Loop!Events, Loop!Wants, InterestIsOfHandles
  <1>2. /\ handle' = [handle EXCEPT ![a].events = {w}]
        /\ interest' = [interest EXCEPT ![handle[a].fd] = [address |-> a, events |-> {w}]]
        /\ batch' = batch /\ polled' = polled /\ added' = added /\ head' = head
    BY DEF Loop!Modify
  <1>3. /\ \A b \in Addresses : handle'[b].fd = handle[b].fd /\ handle'[b].number = handle[b].number
        /\ handle' \in [Addresses -> Handles]
    BY <1>1, <1>2 DEF LoopTypes, Handles
  <1>4. /\ \A f \in Fds : interest'[f].address = interest[f].address
        /\ interest' \in [Fds -> Interests]
    BY <1>1, <1>2 DEF LoopTypes, Interests
  <1>5. Loop!Used' = Loop!Used
    BY <1>3 DEF Loop!Used
  <1>6. LoopTypes'
    BY <1>1, <1>2, <1>3, <1>4 DEF LoopTypes
  <1>7. InterestIsOfHandles'
    <2>1. \A f \in Fds : interest[f].address \in Addresses \union {NULL}
      BY <1>1 DEF LoopTypes, Interests
    <2>2. \A b \in Loop!Used : b \in Addresses /\ handle[b].fd \in Fds
      BY <1>1 DEF LoopTypes, Handles, Loop!Used
    <2> QED
      BY <1>3, <1>4, <1>5, <2>1, <2>2 DEF InterestIsOfHandles
  <1>8. EventsAreOfTheirOwn'
    BY <1>2, <1>3, <1>5 DEF EventsAreOfTheirOwn, ToCome, OfItsOwn, Loop!Used
  <1> QED
    BY <1>6, <1>7, <1>8

LEMMA LoopRemove ==
    ASSUME LoopInv, NEW a \in Loop!Used, Loop!Remove(a),
           loopAt \in {"outside", "callback"}, UNCHANGED <<running, loopAt, index>>
    PROVE  LoopInv'
  <1> DEFINE f == handle[a].fd
  <1> USE DEF LoopInv
  <1>1. /\ LoopTypes /\ a \in Addresses /\ f \in Fds /\ interest[f].address = a
        /\ f # NULL /\ a # NULL
    BY NULLAssumption DEF LoopTypes, Loop!Used, Handles, InterestIsOfHandles
  <1>2. /\ handle' = Loop!Unlinked(a)
        /\ interest' = [interest EXCEPT ![f] = [address |-> NULL, events |-> {}]]
        /\ batch' = [i \in 1..Len(batch) |->
                        IF i \in Loop!ToForget(a) THEN [batch[i] EXCEPT !.address = NULL]
                        ELSE batch[i]]
        /\ polled' = polled /\ added' = added
        /\ head' = IF head = a THEN handle[a].next ELSE head
    BY DEF Loop!Remove
  <1>3. /\ handle'[a] = Loop!Unused
        /\ \A b \in Addresses : b # a =>
              handle'[b].fd = handle[b].fd /\ handle'[b].number = handle[b].number
        /\ handle' \in [Addresses -> Handles]
    <2>1. handle[a].prev \in Addresses \union {NULL} /\ handle[a].next \in Addresses \union {NULL}
      BY <1>1 DEF LoopTypes, Handles
    <2>2. Loop!Unused \in Handles
      BY DEF Loop!Unused, Handles
    <2>3. \A b \in Addresses : handle[b] \in Handles
      BY <1>1 DEF LoopTypes
    <2>4. handle'[a] = Loop!Unused
      BY <1>1, <1>2 DEF Loop!Unlinked
    <2>5. \A b \in Addresses : b # a =>
             handle'[b] \in {[handle[b] EXCEPT !.next = handle[a].next],
                             [handle[b] EXCEPT !.prev = handle[a].prev], handle[b]}
      BY <1>1, <1>2 DEF Loop!Unlinked
    <2>6. \A b \in Addresses : b # a =>
             /\ handle'[b].fd = handle[b].fd /\ handle'[b].number = handle[b].number
             /\ handle'[b] \in Handles
      <3> SUFFICES ASSUME NEW b \in Addresses, b # a
                   PROVE  /\ handle'[b].fd = handle[b].fd /\ handle'[b].number = handle[b].number
                          /\ handle'[b] \in Handles
        OBVIOUS
      <3>1. CASE handle'[b] = [handle[b] EXCEPT !.next = handle[a].next]
        BY <2>1, <2>3, <3>1 DEF Handles
      <3>2. CASE handle'[b] = [handle[b] EXCEPT !.prev = handle[a].prev]
        BY <2>1, <2>3, <3>2 DEF Handles
      <3>3. CASE handle'[b] = handle[b]
        BY <2>3, <3>3
      <3> QED
        BY <2>5, <3>1, <3>2, <3>3
    <2>7. handle' = [b \in Addresses |-> handle'[b]]
      BY <1>2 DEF Loop!Unlinked
    <2> QED
      BY <2>2, <2>4, <2>6, <2>7
  <1>4. Loop!Used' = Loop!Used \ {a}
    BY <1>1, <1>3 DEF Loop!Used, Loop!Unused
  <1>5. /\ Len(batch') = Len(batch) /\ DOMAIN batch' = DOMAIN batch /\ batch' \in Seq(Interests)
        /\ \A i \in DOMAIN batch : batch'[i].address \in {batch[i].address, NULL}
        /\ \A i \in DOMAIN batch : i > running => batch'[i].address # a
    <2>1. DOMAIN batch = 1..Len(batch) /\ Len(batch) \in Nat
      BY <1>1, LenProperties DEF LoopTypes
    <2>2. \A i \in 1..Len(batch) : batch[i] \in Interests
      BY <1>1, <2>1, ElementOfSeq DEF LoopTypes
    <2>3. \A i \in 1..Len(batch) : batch'[i] \in Interests /\ batch'[i].address \in {batch[i].address, NULL}
      BY <1>2, <2>2 DEF Interests
    <2>4. \A i \in 1..Len(batch) : i > running => batch'[i].address # a
      <3> SUFFICES ASSUME NEW i \in 1..Len(batch), i > running
                   PROVE  batch'[i].address # a
        OBVIOUS
      <3>1. batch[i].address = a => i \in Loop!ToForget(a)
        BY <1>1, <2>1 DEF Loop!ToForget, LoopTypes
      <3> QED
        BY <1>1, <1>2, <2>2, <3>1 DEF Interests
    <2>5. batch' \in Seq(Interests) /\ Len(batch') = Len(batch)
      BY <1>2, <2>1, <2>3
    <2> QED
      BY <1>2, <2>1, <2>3, <2>4, <2>5
  <1>6. LoopTypes'
    <2>1. head' \in Addresses \union {NULL}
      BY <1>1, <1>2 DEF LoopTypes, Handles
    <2> QED
      BY <1>1, <1>2, <1>3, <1>5, <2>1 DEF LoopTypes, Interests
  <1>7. InterestIsOfHandles'
    <2>1. \A g \in Fds : interest[g].address \in Addresses \union {NULL}
      BY <1>1 DEF LoopTypes, Interests
    <2>2. \A b \in Loop!Used : b \in Addresses /\ handle[b].fd \in Fds
      BY <1>1 DEF LoopTypes, Handles, Loop!Used
    <2>3. \A g \in Fds : interest'[g].address = IF g = f THEN NULL ELSE interest[g].address
      BY <1>1, <1>2 DEF LoopTypes
    <2>4. \A b \in Loop!Used : handle[b].fd = f => b = a
      BY <1>1 DEF InterestIsOfHandles
    <2> QED
      BY <1>1, <1>3, <1>4, <2>1, <2>2, <2>3, <2>4 DEF InterestIsOfHandles
  <1>8. EventsAreOfTheirOwn'
    <2>1. CASE loopAt = "outside"
      BY <1>2, <1>5, <2>1, EmptySeq DEF EventsAreOfTheirOwn, ToCome, OfItsOwn, LoopTypes
    <2>2. CASE loopAt = "callback"
      <3>1. \A i \in ToCome' : i \in ToCome /\ i > running
        BY <1>1, <1>5, <2>2 DEF ToCome, EventsAreOfTheirOwn
      <3> SUFFICES ASSUME NEW i \in ToCome', batch'[i].address # NULL
                   PROVE  /\ batch'[i].address \in Loop!Used'
                          /\ handle'[batch'[i].address].number = polled'[i]
        BY <2>2 DEF EventsAreOfTheirOwn, OfItsOwn
      <3>2. i \in DOMAIN batch
        BY <3>1 DEF ToCome
      <3>3. batch'[i].address = batch[i].address /\ batch[i].address # a
        BY <1>5, <3>1, <3>2
      <3>4. batch[i].address \in Loop!Used /\ handle[batch[i].address].number = polled[i]
        BY <3>1, <3>3 DEF EventsAreOfTheirOwn, OfItsOwn
      <3> QED
        BY <1>2, <1>3, <1>4, <3>3, <3>4 DEF Loop!Used
    <2> QED
      BY <2>1, <2>2
  <1> QED
    BY <1>6, <1>7, <1>8

LEMMA LoopWait ==
    ASSUME LoopInv, Loop!Wait
    PROVE  LoopInv'
  <1> USE DEF LoopInv
  <1>1. LoopTypes
    OBVIOUS
  <1>2. PICK fds \in SUBSET {f \in Fds : interest[f].address # NULL} :
           \E order \in Loop!Orders(fds) :
             /\ \E ev \in [1..Len(order) -> SUBSET Loop!Events] :
                   /\ \A i \in DOMAIN ev : ev[i] \in Loop!Reported(order[i])
                   /\ batch' = [i \in 1..Len(order) |->
                          [address |-> interest[order[i]].address, events |-> ev[i]]]
             /\ polled' = [i \in 1..Len(order) |-> handle[interest[order[i]].address].number]
    BY DEF Loop!Wait
  <1>3. PICK order \in Loop!Orders(fds) :
             /\ \E ev \in [1..Len(order) -> SUBSET Loop!Events] :
                   batch' = [i \in 1..Len(order) |->
                          [address |-> interest[order[i]].address, events |-> ev[i]]]
             /\ polled' = [i \in 1..Len(order) |-> handle[interest[order[i]].address].number]
    BY <1>2
  <1>4. PICK ev \in [1..Len(order) -> SUBSET Loop!Events] :
            batch' = [i \in 1..Len(order) |->
                         [address |-> interest[order[i]].address, events |-> ev[i]]]
    BY <1>3
  <1>5. Cardinality(fds) \in Nat
    BY FdsAssumption, FS_Subset, FS_CardinalityType
  <1>6. Len(order) \in Nat /\ \A i \in 1..Len(order) : order[i] \in fds
    <2>1. order \in [1..Cardinality(fds) -> fds]
      BY Zenon DEF Loop!Orders, Loop!Cardinality, Cardinality
    <2>2. order \in Seq(fds) /\ Len(order) = Cardinality(fds)
      BY <1>5, <2>1
    <2> QED
      BY <1>5, <2>1, <2>2
  <1>7. \A i \in 1..Len(order) :
            LET b == interest[order[i]].address
            IN  b \in Addresses /\ handle[b].fd = order[i] /\ b \in Loop!Used
    BY <1>1, <1>6, NULLAssumption DEF LoopTypes, Interests, InterestIsOfHandles, Loop!Used
  <1>8. /\ batch' \in Seq(Interests) /\ Len(batch') = Len(order) /\ Len(polled') = Len(order)
        /\ DOMAIN batch' = 1..Len(order)
    BY <1>3, <1>4, <1>6, <1>7 DEF Interests
  <1>9. UNCHANGED <<handle, head, interest, running, added>> /\ index' = 1 /\ loopAt' = "between"
    BY DEF Loop!Wait
  <1>10. LoopTypes'
    BY <1>1, <1>8, <1>9 DEF LoopTypes
  <1>11. Loop!Used' = Loop!Used
    BY <1>9 DEF Loop!Used
  <1>12. InterestIsOfHandles'
    BY <1>9, <1>11 DEF InterestIsOfHandles
  <1>13. EventsAreOfTheirOwn'
    BY <1>3, <1>4, <1>7, <1>8, <1>9, <1>11 DEF EventsAreOfTheirOwn, ToCome, OfItsOwn
  <1> QED
    BY <1>10, <1>12, <1>13

LEMMA LoopGoesOn ==
    ASSUME LoopInv, Loop!Skip \/ Loop!Call \/ Loop!Return \/ Loop!EndRun
    PROVE  LoopInv'
  <1> USE DEF LoopInv
  <1>1. LoopTypes /\ UNCHANGED <<handle, head, interest, added>>
    BY DEF Loop!Skip, Loop!Call, Loop!Return, Loop!EndRun
  <1>2. Loop!Used' = Loop!Used
    BY <1>1 DEF Loop!Used
  <1>3. InterestIsOfHandles'
    BY <1>1, <1>2 DEF InterestIsOfHandles
  <1>4. LoopTypes'
    <2>1. DOMAIN batch = 1..Len(batch) /\ Len(batch) \in Nat
      BY <1>1, LenProperties DEF LoopTypes
    <2>2. CASE Loop!Skip \/ Loop!Call \/ Loop!Return
      BY <1>1, <2>1, <2>2 DEF LoopTypes, Loop!Skip, Loop!Call, Loop!Return
    <2>3. CASE Loop!EndRun
      <3>1. batch' = <<>> /\ polled' = <<>> /\ index' = 1 /\ loopAt' = "outside" /\ running' = running
        BY <2>3 DEF Loop!EndRun
      <3>2. batch' \in Seq(Interests) /\ Len(batch') = 0 /\ Len(polled') = 0
        BY <3>1
      <3> QED
        BY <1>1, <3>1, <3>2 DEF LoopTypes
    <2> QED
      BY <2>2, <2>3
  <1>5. EventsAreOfTheirOwn'
    <2>1. CASE Loop!Skip \/ Loop!Call \/ Loop!Return
      <3>1. batch' = batch /\ polled' = polled /\ loopAt' # "outside" /\ index \in Nat
        BY <2>1 DEF Loop!Skip, Loop!Call, Loop!Return, LoopTypes
      <3>2. ToCome' \subseteq ToCome
        <4>1. DOMAIN batch \subseteq Nat
          BY <1>1, LenProperties DEF LoopTypes
        <4> QED
          BY <2>1, <3>1, <4>1 DEF Loop!Skip, Loop!Call, Loop!Return, ToCome
      <3>3. loopAt' = "callback" => running' = index'
        BY <2>1 DEF Loop!Skip, Loop!Call, Loop!Return
      <3> QED
        BY <1>1, <1>2, <3>1, <3>2, <3>3 DEF EventsAreOfTheirOwn, OfItsOwn
    <2>2. CASE Loop!EndRun
      BY <2>2 DEF Loop!EndRun, EventsAreOfTheirOwn, ToCome
    <2> QED
      BY <2>1, <2>2
  <1> QED
    BY <1>3, <1>4, <1>5

LEMMA LoopStep ==
    ASSUME LoopInv, [Loop!Next]_loopVars
    PROVE  LoopInv'
  <1>1. CASE Loop!ProgramStep
    BY <1>1, LoopAdd, LoopModify, LoopRemove DEF Loop!ProgramStep
  <1>2. CASE Loop!Wait
    BY <1>2, LoopWait
  <1>3. CASE Loop!Skip \/ Loop!Call \/ Loop!Return \/ Loop!EndRun
    BY <1>3, LoopGoesOn
  <1>4. CASE UNCHANGED loopVars
    BY <1>4 DEF loopVars, LoopInv, LoopTypes, InterestIsOfHandles, EventsAreOfTheirOwn, ToCome,
                OfItsOwn, Loop!Used
  <1> QED
    BY <1>1, <1>2, <1>3, <1>4 DEF Loop!Next

(* For any handles, descriptors and number of registrations: a callback is *)
(* only called for the registration whose event was polled, though others  *)
(* were removed and their memory was used again meanwhile.                 *)
THEOREM LoopCallsAreForTheirOwn == Loop!Spec => CallsAreForTheirOwn
  <1>1. Loop!Init => LoopInv
    BY LoopStarts
  <1>2. LoopInv /\ [Loop!Next]_loopVars => LoopInv'
    BY LoopStep
  <1>3. LoopInv /\ Loop!Call => /\ batch[index].address \in Loop!Used
                                /\ handle[batch[index].address].number = polled[index]
    <2> SUFFICES ASSUME LoopInv, Loop!Call
                 PROVE  /\ batch[index].address \in Loop!Used
                        /\ handle[batch[index].address].number = polled[index]
      OBVIOUS
    <2>1. loopAt = "between" /\ index <= Len(batch) /\ batch[index].address # NULL
      BY DEF Loop!Call, Loop!Wanted
    <2>2. index \in ToCome
      BY <2>1, LenProperties DEF ToCome, LoopInv, LoopTypes
    <2> QED
      BY <2>1, <2>2 DEF LoopInv, EventsAreOfTheirOwn, OfItsOwn
  <1> QED
    BY <1>1, <1>2, <1>3, PTL DEF Loop!Spec, CallsAreForTheirOwn, Loop!CallsAreForTheirOwn, Loop!vars, loopVars
=============================================================================
