------------------------------ MODULE KeyList ------------------------------
(***************************************************************************)
(* What the client knows of the devices of others (key_list_ in            *)
(* src/beeper/beeper_task.c): for each user whether there are cross-       *)
(* signing keys, and which devices have keys and are signed.  The list is  *)
(* a cache of what the server has: the answers to /sync name the users     *)
(* whose devices changed, who become outdated and are asked for again      *)
(* before they are used, or when the answer has been worked through.  The  *)
(* list is kept in a file, which is written anew at the end of an answer,  *)
(* and a start without it asks again.  The server is external.             *)
(***************************************************************************)
EXTENDS Integers, FiniteSets

CONSTANTS Own, Bots,     \* the own user, and the bots of bridges
          Devices,       \* names of devices
          ThisDevice,    \* the one the program runs on
          MaxChanges,    \* bound: what others do to their keys
          MaxRestarts    \* bound: how often the program ends and starts

Users == Bots \union {Own}

VARIABLES
    keys,         \* server: the cross-signing keys and the devices of each user
    sharing,      \* server: the bots that share a room with the own user
    changed,      \* server: users that the next answer to /sync names as changed
    left,         \* server: and as left
    since,        \* server: whether this run has had its first answer
    list,         \* t->key_list_users: a function from those that are listed
    hasOutdated,  \* t->key_list_has_outdated
    needsSave,    \* t->key_list_needs_save
    file,         \* key_list, and whether it is whole
    at,           \* where the thread is
    answer,       \* the users that the answer being worked through names
    missed,       \* users who changed without an answer that says so
    changes, restarts

serverVars == <<keys, sharing, changed, left, since>>
listVars == <<list, hasOutdated, needsSave>>
vars == <<serverVars, listVars, file, at, answer, missed, changes, restarts>>

NoUsers == [u \in {} |-> <<>>]
NoDevices == [d \in {} |-> ""]
Torn == [whole |-> FALSE, users |-> NoUsers]  \* truncated, not yet written
NoAnswer == [changed |-> {}, left |-> {}]

Init ==
    /\ keys = [u \in Users |-> [cross |-> u = Own, devices |-> NoDevices]]
    /\ sharing = Users /\ changed = {} /\ left = {} /\ since = FALSE
    /\ list = NoUsers /\ hasOutdated = FALSE /\ needsSave = FALSE
    /\ file = [whole |-> TRUE, users |-> NoUsers]
    /\ at = "down" /\ answer = NoAnswer /\ missed = {}
    /\ changes = 0 /\ restarts = 0
-----------------------------------------------------------------------------
(* key_list_update_() for one user: the cross-signing keys are replaced,   *)
(* the devices too if all of them are wanted.  A device that was asked for *)
(* and is not in the answer stays as it was.                               *)
Devised(u, user) ==
    LET ds == keys[u].devices
    IN [d \in IF user.allDevices THEN DOMAIN ds ELSE DOMAIN user.devices |->
           IF d \in DOMAIN ds THEN ds[d] ELSE user.devices[d]]

HadSomething(u, user) ==
    keys[u].cross \/ \E d \in DOMAIN Devised(u, user) : Devised(u, user)[d] # "none"

Fetched(u, user) ==
    [user EXCEPT !.cross = keys[u].cross, !.devices = Devised(u, user), !.outdated = FALSE,
                 !.dontSave = ~HadSomething(u, user)]

Outdated(l) == {u \in DOMAIN l : l[u].outdated}

(* Asking for the devices of somebody by name, key_list_update_() asserts  *)
(* that there are names.                                                   *)
AsksForNone(l) == \E u \in Outdated(l) : ~l[u].allDevices /\ DOMAIN l[u].devices = {}

(* key_list_update_(): all that is outdated is asked for at once, if the   *)
(* flag says that something is.                                            *)
Asked(l, flag) ==
    IF flag THEN [u \in DOMAIN l |-> IF l[u].outdated THEN Fetched(u, l[u]) ELSE l[u]] ELSE l

GotSomething(l, flag) == flag /\ \E u \in Outdated(l) : HadSomething(u, l[u])

Update(l, flag, next) ==
    /\ list' = Asked(l, flag)
    /\ hasOutdated' = FALSE
    /\ missed' = IF flag THEN missed \ Outdated(l) ELSE missed
    /\ at' = IF flag /\ AsksForNone(l) THEN "failed" ELSE next
-----------------------------------------------------------------------------
Adding(f, x, v) == [y \in DOMAIN f \union {x} |-> IF y = x THEN v ELSE f[y]]

NewUser == [outdated |-> TRUE, dontSave |-> FALSE, allDevices |-> FALSE, cross |-> FALSE,
            devices |-> NoDevices]

(* key_list_user_get_().                                                   *)
WithUser(l, u) == IF u \in DOMAIN l THEN l ELSE Adding(l, u, NewUser)

(* key_list_user_device_get(): a device that is not listed is added.       *)
WithDevice(l, u, d) ==
    IF d \in DOMAIN l[u].devices THEN l
    ELSE [l EXCEPT ![u].devices = Adding(@, d, "none"), ![u].outdated = TRUE]

(* key_list_user_device_get_all().                                         *)
WithAll(l, u) ==
    IF l[u].allDevices THEN l ELSE [l EXCEPT ![u].allDevices = TRUE, ![u].outdated = TRUE]

(* Both ask before they return what they found, or added to l0.            *)
Get(l0, l, u, next) ==
    LET flag == hasOutdated \/ Outdated(l) # Outdated(l0)
    IN IF l[u].outdated
       THEN /\ Update(l, flag, next)
            /\ needsSave' = (needsSave \/ GotSomething(l, flag))
       ELSE list' = l /\ at' = next /\ UNCHANGED <<hasOutdated, needsSave, missed>>

Working == at \in {"up", "answer"}

(* SAS_MATCHES and the MAC of another device: key_list_device_get().       *)
DeviceGet(d) ==
    /\ Working
    /\ Get(list, WithDevice(WithUser(list, Own), Own, d), Own, at)
    /\ UNCHANGED <<serverVars, file, answer, changes, restarts>>

(* A key is asked for or shared: key_list_device_get_all().                *)
DeviceGetAll(u) ==
    /\ Working
    /\ Get(list, WithAll(WithUser(list, u), u), u, at)
    /\ UNCHANGED <<serverVars, file, answer, changes, restarts>>
-----------------------------------------------------------------------------
(* key_list_init() and device_key_status(): nothing that comes from the    *)
(* file is outdated.                                                       *)
Start ==
    /\ at = "down" /\ file.whole
    /\ Get(file.users, WithDevice(WithUser(file.users, Own), Own, ThisDevice), Own,
           IF ThisDevice \in DOMAIN keys[Own].devices THEN "up" ELSE "upload")
    /\ UNCHANGED <<serverVars, file, answer, changes, restarts>>

(* The assertions of key_list_init() want the whole file.                  *)
StartTorn ==
    /\ at = "down" /\ ~file.whole
    /\ at' = "torn"
    /\ UNCHANGED <<serverVars, listVars, file, answer, missed, changes, restarts>>

(* The server tells of a change in the next answer, but never in the first *)
(* of a run, which has no "since".                                         *)
Tells(u) ==
    IF since THEN changed' = changed \union {u} /\ UNCHANGED missed
    ELSE missed' = missed \union {u} /\ UNCHANGED changed

(* keys/upload, of a device that the server did not know.                  *)
Upload ==
    /\ at = "upload"
    /\ keys' = [keys EXCEPT ![Own].devices = Adding(@, ThisDevice, "keys")]
    /\ Tells(Own)
    /\ at' = "up"
    /\ UNCHANGED <<sharing, left, since, listVars, file, answer, changes, restarts>>

(* An answer to /sync; while it is worked through, lists are used.         *)
Answer ==
    /\ at = "up"
    /\ answer' = IF since THEN [changed |-> changed, left |-> left] ELSE NoAnswer
    /\ since' = TRUE /\ changed' = {} /\ left' = {}
    /\ at' = "answer"
    /\ UNCHANGED <<keys, sharing, listVars, file, missed, changes, restarts>>

(* key_list_apply_devicelists(): those who left are removed, also when     *)
(* they changed; and who changed is outdated.                              *)
Stays == DOMAIN list \ answer.left

Applied == [u \in Stays |-> [list[u] EXCEPT !.outdated = @ \/ u \in answer.changed]]

\* Slip: that somebody is outdated is not noted.
NotesNothing == hasOutdated

NotesOutdated == hasOutdated \/ Stays \intersect answer.changed # {}

(* key_list_save(): the file is opened, which truncates it, if there is    *)
(* something to write.                                                     *)
Save(l, flag, needs, writing, done) ==
    LET write == needs \/ GotSomething(l, flag)
    IN /\ Update(l, flag, IF write THEN writing ELSE done)
       /\ needsSave' = FALSE
       /\ file' = IF write /\ at' # "failed" THEN Torn ELSE file

(* The end of an answer.                                                   *)
EndOfAnswer ==
    /\ at = "answer"
    /\ Save(Applied, NotesOutdated, needsSave \/ Stays # DOMAIN list, "writing", "up")
    /\ answer' = NoAnswer
    /\ UNCHANGED <<serverVars, changes, restarts>>

(* STOP: key_list_destroy().                                               *)
Close ==
    /\ at = "up" /\ restarts < MaxRestarts
    /\ Save(list, hasOutdated, needsSave, "lastWrite", "closed")
    /\ UNCHANGED <<serverVars, answer, changes, restarts>>

SavedDevices(user) ==
    [d \in {e \in DOMAIN user.devices : user.devices[e] # "none"} |-> user.devices[d]]

(* What is in the file when it is closed, as key_list_init() reads it.     *)
Write ==
    /\ at \in {"writing", "lastWrite"}
    /\ file' = [whole |-> TRUE,
                 users |-> [u \in {v \in DOMAIN list : ~list[v].dontSave} |->
                     [list[u] EXCEPT !.devices = SavedDevices(list[u]), !.outdated = FALSE]]]
    /\ at' = IF at = "writing" THEN "up" ELSE "closed"
    /\ UNCHANGED <<serverVars, listVars, answer, missed, changes, restarts>>

(* What the file does not know: what was not saved, and who had something  *)
(* at the last save and had nothing when asked again.                      *)
Unsaved ==
    IF needsSave THEN DOMAIN file.users
    ELSE {u \in DOMAIN file.users \intersect DOMAIN list : list[u].dontSave}

(* The program ends, closed or not.                                        *)
Die ==
    /\ at \notin {"down", "torn", "failed"} /\ restarts < MaxRestarts
    /\ restarts' = restarts + 1
    /\ missed' = missed \union changed \union answer.changed \union Unsaved
    /\ at' = "down"
    /\ list' = NoUsers /\ hasOutdated' = FALSE /\ needsSave' = FALSE
    /\ answer' = NoAnswer /\ since' = FALSE /\ changed' = {} /\ left' = {}
    /\ UNCHANGED <<keys, sharing, file, changes>>
-----------------------------------------------------------------------------
(* What others do.                                                         *)
Change(u, k) ==
    /\ changes < MaxChanges
    /\ changes' = changes + 1
    /\ keys' = [keys EXCEPT ![u] = k]
    /\ Tells(u)
    /\ UNCHANGED <<sharing, left, since, listVars, file, at, answer, restarts>>

Others(u) == IF u = Own THEN Devices \ {ThisDevice} ELSE Devices

NewDevice(u, d) ==
    /\ d \in Others(u) \ DOMAIN keys[u].devices
    /\ Change(u, [keys[u] EXCEPT !.devices = Adding(@, d, "keys")])

LogOut(u, d) ==
    /\ d \in Others(u) \intersect DOMAIN keys[u].devices
    /\ Change(u, [keys[u] EXCEPT !.devices = [e \in DOMAIN @ \ {d} |-> @[e]]])

SignDevice(u, d) ==
    /\ keys[u].cross /\ d \in DOMAIN keys[u].devices /\ keys[u].devices[d] = "keys"
    /\ Change(u, [keys[u] EXCEPT !.devices[d] = "signed"])

CrossSign(u) ==
    /\ ~keys[u].cross
    /\ Change(u, [keys[u] EXCEPT !.cross = TRUE])

Leave(u) ==
    /\ u \in sharing /\ changes < MaxChanges
    /\ changes' = changes + 1
    /\ sharing' = sharing \ {u}
    /\ left' = IF since THEN left \union {u} ELSE left
    /\ changed' = changed \ {u}
    /\ UNCHANGED <<keys, since, listVars, file, at, answer, missed, restarts>>

Join(u) ==
    /\ u \notin sharing
    /\ sharing' = sharing \union {u}
    /\ left' = left \ {u}
    /\ Tells(u)
    /\ UNCHANGED <<keys, since, listVars, file, at, answer, changes, restarts>>

Next ==
    \/ Start \/ StartTorn \/ Upload \/ Answer \/ EndOfAnswer \/ Close \/ Write \/ Die
    \/ \E d \in Devices : DeviceGet(d)
    \/ \E u \in Bots : DeviceGetAll(u) \/ Leave(u) \/ Join(u)
    \/ \E u \in Users : CrossSign(u)
    \/ \E u \in Users, d \in Devices : NewDevice(u, d) \/ LogOut(u, d) \/ SignDevice(u, d)

Spec == Init /\ [][Next]_vars
-----------------------------------------------------------------------------
(* Devices that were asked for by name and are gone from the server: an    *)
(* answer does not have them, and key_list_update_() leaves a device that  *)
(* is not in the answer as it is, with its keys and whether it is signed.  *)
Outlived(user, k) ==
    IF user.allDevices THEN {} ELSE DOMAIN user.devices \ DOMAIN k.devices

(* As far as it was asked for, what is listed is what the server has, but  *)
(* for the devices that outlived their log out.                            *)
Matches(user, k) ==
    /\ user.cross = k.cross
    /\ user.allDevices => DOMAIN k.devices \subseteq DOMAIN user.devices
    /\ \A d \in DOMAIN user.devices \ Outlived(user, k) :
          d \in DOMAIN k.devices /\ user.devices[d] = k.devices[d]

AskedBeforeUse(u) == list[u].outdated /\ hasOutdated

(* What the next use of a list finds is what the server has of every       *)
(* device that is still there: the list is asked for then, or it is up to  *)
(* date.  It is not promised that a device is gone from the list when it   *)
(* is gone from the server, unless all devices of the user are asked for:  *)
(* one asked for by name stays (Outlived).  Excepted are also those whose  *)
(* change no answer has named yet, or ever will, because it came while the *)
(* program was down or was not saved.  And nobody is asked for without a   *)
(* device to ask for, also when the file left a user without devices.      *)
ListsAreCurrent ==
    /\ at # "failed"
    /\ \A u \in (DOMAIN list \intersect sharing) \ (changed \union answer.changed \union missed) :
          AskedBeforeUse(u) \/ Matches(list[u], keys[u])
=============================================================================
