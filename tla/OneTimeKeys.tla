---------------------------- MODULE OneTimeKeys ----------------------------
(***************************************************************************)
(* The one-time keys and the sessions they begin (src/beeper/              *)
(* beeper_task.c).  The device leaves public keys with the server.         *)
(* Another device claims one, begins a session with it, and writes to this *)
(* device in that session.  The private keys are in the account, a file;   *)
(* the sessions with one user are in another file, the latest first.  The  *)
(* thread works through the answers to /sync, and the program may die      *)
(* between any two file operations: what it did not acknowledge by its     *)
(* next /sync comes again.  The server and the other devices are external. *)
(* Fallback keys, and olm's limit of a hundred keys, are left out.         *)
(***************************************************************************)
EXTENDS Integers, Sequences, FiniteSets, SequencesExt

CONSTANTS TopUp,         \* ONE_TIME_KEY_COUNT_TOPUP
          LowWatermark,  \* ONE_TIME_KEY_COUNT_LOW_WATERMARK
          Capacity,      \* USER_SESSION_LRU_COUNT
          MaxKeys,       \* bound: the keys made by the account
          MaxClaims,     \* bound: the sessions begun by others
          MaxMessages,   \* bound: the messages in all sessions
          MaxCrashes     \* bound: how often the program dies

VARIABLES
    account,      \* t->olm_account: whether it has the identity that it was made
                  \* with, its keys, and those not marked as published
    accountFile,  \* olm_account_pickle
    sessions,     \* users/<id>: a sequence of sessions, or Broken
    deviceKeys,   \* the server knows this device's identity keys
    verified,     \* and they are signed by the self-signing key
    server,       \* the one-time keys the server may hand out
    count,        \* device_one_time_keys_count of the answer, or None
    at,           \* where the thread is
    batch,        \* what get_n_one_time_keys() returned
    key,          \* the key a new session is based on
    inbox, seen,  \* messages for this device, and how many it has dealt with
    keyOf,        \* the key each claim got
    sent,         \* messages sent in the session of each claim
    read,         \* messages that were decrypted and handed on, in order
    excused,      \* claims whose messages need not be readable
    cut,          \* messages whose handling was cut short by the end of the program
    nextKey, crashes

accountVars == <<account, accountFile>>
statusVars == <<deviceKeys, verified>>
peerVars == <<server, keyOf, sent, inbox>>
ghosts == <<read, excused, cut>>
vars == <<accountVars, sessions, statusVars, peerVars, count, at, batch, key, seen,
          ghosts, nextKey, crashes>>

None == -1
NewAccount == [own |-> TRUE, keys |-> {}, unpublished |-> {}]
NoFile == NewAccount  \* without a file, an account is made
Blank == [own |-> FALSE, keys |-> {}, unpublished |-> {}]  \* olm_account() and no more
Torn == Blank         \* opened with O_TRUNC and not written: nothing is read from it
Broken == <<[claim |-> None, got |-> {}]>>      \* ends inside a line

Init ==
    /\ account = NewAccount /\ accountFile = NoFile
    /\ sessions = <<>> /\ deviceKeys = FALSE /\ verified = FALSE
    /\ server = {} /\ count = None /\ at = "down"
    /\ batch = {} /\ key = None
    /\ inbox = <<>> /\ seen = 0 /\ keyOf = <<>> /\ sent = <<>>
    /\ read = <<>> /\ excused = {} /\ cut = {}
    /\ nextKey = 1 /\ crashes = 0
-----------------------------------------------------------------------------
(* The start of the thread: the account is read or made.  Reading a torn   *)
(* file fails, which is not looked at: the thread goes on with a blank     *)
(* account, whose identity is whatever the memory held, and saves that in  *)
(* place of the one it had.  That the device was verified may not be known *)
(* yet (KeyList).                                                          *)
Start ==
    /\ at = "down"
    /\ account' = accountFile
    /\ \/ ~deviceKeys /\ at' = "first"
       \/ deviceKeys /\ at' = "uploaded"
       \/ deviceKeys /\ verified /\ at' = "idle"
    /\ UNCHANGED <<accountFile, sessions, statusVars, peerVars, count, batch, key, seen,
                   ghosts, nextKey, crashes>>

\* Slip: the account is saved only after its keys were uploaded.
SavedBeforeUploadNot(a) == accountFile

SavedBeforeUpload(a) == a

(* get_n_one_time_keys(): the unpublished keys and as many new ones as are *)
(* missing; there must not be more of them than asked for.                 *)
GetKeys(n) ==
    IF Cardinality(account.unpublished) > n
    THEN at' = "aborted" /\ UNCHANGED <<accountVars, batch, nextKey>>
    ELSE LET new == nextKey..nextKey + n - Cardinality(account.unpublished) - 1
         IN /\ nextKey + n - Cardinality(account.unpublished) <= MaxKeys + 1
            /\ account' = [account EXCEPT !.keys = @ \union new,
                                         !.unpublished = @ \union new]
            /\ accountFile' = SavedBeforeUpload(account')
            /\ batch' = account'.unpublished
            /\ nextKey' = nextKey + Cardinality(new)
            /\ at' = "got"

FirstKeys ==
    /\ at = "first"
    /\ GetKeys(TopUp)
    /\ UNCHANGED <<sessions, statusVars, peerVars, count, key, seen, ghosts, crashes>>

\* Slip: one key fewer counts as few.
FewerThanFew(n) == n < LowWatermark - 1

Few(n) == n < LowWatermark

(* device_one_time_keys_count: the count is of when the server answered.   *)
HandleCount ==
    /\ at = "idle" /\ count # None
    /\ count' = None
    /\ \/ Few(count) /\ GetKeys(TopUp - count)
       \/ ~Few(count) /\ UNCHANGED <<accountVars, at, batch, nextKey>>
    /\ UNCHANGED <<sessions, statusVars, peerVars, key, seen, ghosts, crashes>>

(* keys/upload, which the server is asserted to accept.                    *)
Upload ==
    /\ at = "got"
    /\ server' = server \union batch
    /\ deviceKeys' = TRUE
    /\ batch' = {}
    /\ at' = "uploaded"
    /\ UNCHANGED <<accountVars, sessions, verified, keyOf, sent, inbox, count, key, seen,
                   ghosts, nextKey, crashes>>

(* olm_account_mark_keys_as_published(), pickle_account().                 *)
MarkPublished ==
    /\ at = "uploaded"
    /\ account' = [account EXCEPT !.unpublished = {}]
    /\ accountFile' = account'
    /\ at' = "idle"
    /\ UNCHANGED <<sessions, statusVars, peerVars, count, batch, key, seen, ghosts,
                   nextKey, crashes>>

(* The next /sync acknowledges the messages of the answer before it.       *)
Sync ==
    /\ at = "idle" /\ count = None
    /\ inbox' = SubSeq(inbox, seen + 1, Len(inbox))
    /\ seen' = 0
    /\ count' = Cardinality(server)
    /\ UNCHANGED <<accountVars, sessions, statusVars, server, keyOf, sent, at, batch, key,
                   ghosts, nextKey, crashes>>
-----------------------------------------------------------------------------
Message == inbox[seen + 1]

(* user_session_cmp() decrypts with the first session that can: a message  *)
(* can be decrypted once.  With a blank account nothing is: messages are   *)
(* for the identity that the server knows, and if that is the blank one    *)
(* itself, nobody has its private half.                                    *)
CanDecrypt(s, m) == s.claim = m.claim /\ m.n \notin s.got

Latest(i, s) == <<[sessions[i] EXCEPT !.got = s.got \union @]>> \o RemoveAt(sessions, i)

\* Slip: a new session is not kept when the file is full.
WithNewIfRoom(s) == IF Len(sessions) < Capacity THEN <<s>> \o sessions ELSE sessions

(* beeper_lru_add_unchecked(): the session that was used least recently    *)
(* makes room.                                                             *)
WithNew(s) ==
    <<s>> \o SubSeq(sessions, 1, IF Len(sessions) < Capacity THEN Len(sessions) ELSE Capacity - 1)

(* decrypt() up to user_sessions_save().                                   *)
Decrypt ==
    /\ at = "idle" /\ seen < Len(inbox) /\ account.own /\ sessions # Broken
    /\ LET m == Message
           one == [claim |-> m.claim, got |-> {m.n}]
           able == {i \in DOMAIN sessions : CanDecrypt(sessions[i], m)}
       IN \/ \E i \in able :
                /\ sessions' = Latest(i, one)
                /\ at' = "saving"
                /\ UNCHANGED <<key, seen, excused>>
          \/ /\ able = {} /\ m.preKey /\ keyOf[m.claim] \in account.keys
             /\ sessions' = WithNew(one)
             /\ excused' = excused \union
                   {sessions[i].claim : i \in {j \in DOMAIN sessions : j >= Capacity}}
             /\ key' = keyOf[m.claim]
             /\ at' = "saving"
             /\ UNCHANGED seen
          \/ /\ able = {} /\ (m.preKey => keyOf[m.claim] \notin account.keys)
             /\ seen' = seen + 1
             /\ UNCHANGED <<sessions, at, key, excused>>
    /\ UNCHANGED <<accountVars, statusVars, peerVars, count, batch, read, cut, nextKey, crashes>>

DecryptBroken ==
    /\ at = "idle" /\ seen < Len(inbox) /\ account.own /\ sessions = Broken
    /\ at' = "aborted"
    /\ UNCHANGED <<accountVars, sessions, statusVars, peerVars, count, batch, key, seen,
                   ghosts, nextKey, crashes>>

DropUnread ==
    /\ at = "idle" /\ seen < Len(inbox) /\ ~account.own
    /\ seen' = seen + 1
    /\ UNCHANGED <<accountVars, sessions, statusVars, peerVars, count, at, batch, key,
                   ghosts, nextKey, crashes>>

\* Slip: the key stays in the account.
KeptIn(a) == a

WithoutKey(a) ==
    [a EXCEPT !.keys = @ \ {key}, !.unpublished = @ \ {key}]

(* olm_remove_one_time_keys() and pickle_account(), for a new session.     *)
RemoveKey ==
    /\ at = "saving"
    /\ account' = IF key = None THEN account ELSE WithoutKey(account)
    /\ accountFile' = IF key = None THEN accountFile ELSE account'
    /\ key' = None
    /\ at' = "decrypted"
    /\ UNCHANGED <<sessions, statusVars, peerVars, count, batch, seen, ghosts, nextKey, crashes>>

(* decrypt() returns what the message says.                                *)
HandOn ==
    /\ at = "decrypted"
    /\ read' = Append(read, <<Message.claim, Message.n>>)
    /\ seen' = seen + 1
    /\ at' = "idle"
    /\ UNCHANGED <<accountVars, sessions, statusVars, peerVars, count, batch, key, excused,
                   cut, nextKey, crashes>>
-----------------------------------------------------------------------------
(* The program ends, by itself after a failed assertion.  The server and   *)
(* the files stay; a file it was writing is cut short.                     *)
SavesAccount ==
    \/ at \in {"first", "uploaded"}
    \/ at = "idle" /\ count # None /\ Few(count)
    \/ at = "saving" /\ key # None

Crash ==
    /\ at # "down"
    /\ \/ at = "aborted" /\ UNCHANGED crashes
       \/ crashes < MaxCrashes /\ crashes' = crashes + 1
    /\ \/ UNCHANGED <<accountFile, sessions, excused>>
       \/ SavesAccount /\ accountFile' = Torn /\ UNCHANGED <<sessions, excused>>
       \/ /\ at = "saving"
          /\ sessions' \in {<<>>, Broken}
          /\ excused' = excused \union {sessions[i].claim : i \in DOMAIN sessions}
          /\ UNCHANGED accountFile
    /\ cut' = cut \union
          (IF at \in {"saving", "decrypted"} THEN {<<Message.claim, Message.n>>} ELSE {})
    /\ at' = "down" /\ account' = NewAccount
    /\ batch' = {} /\ key' = None /\ count' = None /\ seen' = 0
    /\ UNCHANGED <<statusVars, peerVars, read, nextKey>>

(* Another device of the user verifies this one.                           *)
GetVerified ==
    /\ at = "idle" /\ ~verified
    /\ verified' = TRUE
    /\ UNCHANGED <<accountVars, sessions, deviceKeys, peerVars, count, at, batch, key, seen,
                   ghosts, nextKey, crashes>>

(* The other devices.                                                      *)
Claim ==
    /\ Len(keyOf) < MaxClaims
    /\ \E k \in server :
          /\ server' = server \ {k}
          /\ keyOf' = Append(keyOf, k)
          /\ excused' = excused \union
                {c \in DOMAIN keyOf' : k \in Range(keyOf) /\ keyOf'[c] = k}
    /\ sent' = Append(sent, 0)
    /\ UNCHANGED <<accountVars, sessions, statusVars, inbox, count, at, batch, key, seen,
                   read, cut, nextKey, crashes>>

(* The first message of a session says on which key it is based; a later   *)
(* one need not, once this device has read one.                            *)
SendMessage ==
    /\ FoldSeq(LAMBDA n, sum : n + sum, 0, sent) < MaxMessages
    /\ \E c \in DOMAIN keyOf :
        /\ sent' = [sent EXCEPT ![c] = @ + 1]
        /\ \E preKey \in {TRUE} \union {\A i \in DOMAIN read : read[i][1] # c} :
              inbox' = Append(inbox, [claim |-> c, n |-> sent[c] + 1, preKey |-> preKey])
        /\ UNCHANGED <<accountVars, sessions, statusVars, server, keyOf, count, at, batch,
                       key, seen, ghosts, nextKey, crashes>>

Thread ==
    \/ Start \/ FirstKeys \/ HandleCount \/ Upload \/ MarkPublished \/ Sync
    \/ Decrypt \/ DecryptBroken \/ DropUnread \/ RemoveKey \/ HandOn

Next == Thread \/ Crash \/ GetVerified \/ Claim \/ SendMessage

Spec == Init /\ [][Next]_vars

Fairness == WF_vars(Thread)

FairSpec == Spec /\ Fairness
-----------------------------------------------------------------------------
Used(c) ==
    \/ c \in excused
    \/ \E n \in 1..sent[c] : <<c, n>> \in Range(read) \union cut
    \/ at \in {"saving", "decrypted"} /\ Message.claim = c

(* A key that the server may hand out or that somebody has claimed is in   *)
(* the account file until a message has used it: the program may end at    *)
(* any point and still read what is sent to it.  That is so until it ends  *)
(* while it writes that file: then the account is lost, and the file holds *)
(* none of these keys from then on.                                        *)
HeldKeysAreSaved ==
    accountFile.own =>
        \A k \in server \union Range(keyOf) :
            k \in accountFile.keys \/ \E c \in DOMAIN keyOf : keyOf[c] = k /\ Used(c)

(* What a message says is handed on at most once, also when the server     *)
(* delivers it again after a crash and its session was lost.  Excepted are *)
(* sessions of which a message was being handled when the program ended:   *)
(* if its session was saved and the key was not removed, the message       *)
(* begins a second session when it comes again, and either of them reads   *)
(* what the other has read.                                                *)
NothingReadTwice ==
    \A i, j \in DOMAIN read :
        i # j /\ read[i] = read[j] => \E m \in cut : m[1] = read[i][1]

(* A message that was acknowledged was read, unless the program ended      *)
(* between the saving of its session and its handling, or its session was  *)
(* lost: cut short in the file, pushed out by newer ones, or begun with a  *)
(* key that the server handed out twice.  That is so until the program     *)
(* ends while it writes the account: then every message is dropped.        *)
NothingDropped ==
    accountFile.own => \A c \in DOMAIN keyOf \ excused : \A n \in 1..sent[c] :
        \/ <<c, n>> \in Range(read) \union cut
        \/ \E i \in seen + 1..Len(inbox) : inbox[i].claim = c /\ inbox[i].n = n

(* While the program runs, the server gets new keys when few are left.     *)
KeysToppedUp ==
    (at = "idle" /\ Cardinality(server) < LowWatermark)
        ~> (\/ Cardinality(server) >= LowWatermark
            \/ at \in {"down", "aborted"}
            \/ nextKey + TopUp > MaxKeys + 1)

(* get_n_one_time_keys() asserts that there are not more unpublished keys  *)
(* than it was asked for: "assured by the usage pattern".                  *)
NotMoreThanAsked == at # "aborted" \/ sessions = Broken
=============================================================================
