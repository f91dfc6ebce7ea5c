---------------------------- MODULE Verification ----------------------------
(***************************************************************************)
(* The emoji verification of src/beeper/beeper_task.c and                  *)
(* beeper_ui_verify.c.  Another device of the same user asks, the two      *)
(* exchange keys, both show seven emojis, and after both users said that   *)
(* they match each sends a MAC of its keys and then done.  The steps of    *)
(* this device live in local variables of the thread: a restart forgets    *)
(* them.  The server keeps the messages to this device until a /sync that  *)
(* follows theirs, so after a restart some come again.  The other devices  *)
(* are external; they do as the protocol says, and may give up.            *)
(***************************************************************************)
EXTENDS Integers, Sequences, SequencesExt

CONSTANTS Devices,      \* the other devices of the user
          MaxAttempts,  \* bound: how many verifications are begun
          MaxPresses,   \* bound: how many presses of the button wait in the queue
          MaxRestarts   \* bound: how often the app restarts

VARIABLES
    step,         \* sas_step
    sasDevice,    \* sas_device_id
    sasTxid,      \* sas_txid
    peerMac,      \* whose MAC is kept in sas_peer_mac_content
    isVerified,   \* what the key list said when the thread began
    ui,           \* what the verification screen shows
    presses,      \* the SAS_MATCHES commands in the queue
    inbox, seen,  \* messages to this device, and how many it has handled
    outbox,       \* messages to each other device
    other,        \* where each other device is, and with which attempt
    attempts, restarts,
    saidYes,      \* attempts whose emojis the user of this device confirmed
    otherYes,     \* attempts that were confirmed on the other device
    signed,       \* attempts at whose end the other device signed this one
    completed,    \* attempts that this device called complete
    broken        \* attempts that ended by a restart here or giving up there

deviceVars == <<step, sasDevice, sasTxid, peerMac, isVerified>>
ghosts == <<saidYes, otherYes, signed, completed, broken>>
vars == <<deviceVars, ui, presses, inbox, seen, outbox, other, attempts, restarts, ghosts>>

None == 0
Message(type, d, x) == [type |-> type, from |-> d, txid |-> x, old |-> FALSE]

Forgotten ==
    /\ step' = "request" /\ sasDevice' = None /\ sasTxid' = None /\ peerMac' = None

Init ==
    /\ step = "request" /\ sasDevice = None /\ sasTxid = None /\ peerMac = None
    /\ isVerified = FALSE
    /\ ui = "instructions" /\ presses = 0
    /\ inbox = <<>> /\ seen = 0
    /\ outbox = [d \in Devices |-> <<>>]
    /\ other = [d \in Devices |-> [at |-> "idle", txid |-> None, mac |-> FALSE]]
    /\ attempts = 0 /\ restarts = 0
    /\ saidYes = {} /\ otherYes = {} /\ signed = {} /\ completed = {} /\ broken = {}
-----------------------------------------------------------------------------
(* One to-device event of the answer to /sync.                             *)
Takes(type) ==
    /\ seen < Len(inbox) /\ inbox[seen + 1].type = type
    /\ seen' = seen + 1
    /\ UNCHANGED <<inbox, isVerified, other, attempts, restarts, saidYes, otherYes,
                   signed, broken>>

Event == inbox[seen + 1]

(* A message of this device goes through the server at once and in order.  *)
Send(d, types) ==
    outbox' = [outbox EXCEPT ![d] = @ \o [i \in 1..Len(types) |->
                                             [type |-> types[i], txid |-> sasTxid']]]

Denied == UNCHANGED <<step, sasDevice, sasTxid, peerMac, ui, presses, outbox, completed>>

AcceptsRequest(m) == ~isVerified /\ step = "request" /\ ~m.old

HandleRequest ==
    /\ Takes("request")
    /\ \/ /\ AcceptsRequest(Event)
          /\ step' = "start" /\ sasDevice' = Event.from /\ sasTxid' = Event.txid
          /\ Send(Event.from, <<"ready">>)
          /\ UNCHANGED <<peerMac, ui, presses, completed>>
       \/ ~AcceptsRequest(Event) /\ Denied

AcceptsStart(m) == step = "start" /\ m.from = sasDevice /\ m.txid = sasTxid

HandleStart ==
    /\ Takes("start")
    /\ \/ /\ AcceptsStart(Event)
          /\ step' = "key"
          /\ UNCHANGED <<sasDevice, sasTxid, peerMac, ui, presses, completed>>
          /\ Send(sasDevice, <<"accept", "key">>)
       \/ ~AcceptsStart(Event) /\ Denied

AcceptsKey(m) == step = "key" /\ m.txid = sasTxid

HandleKey ==
    /\ Takes("key")
    /\ \/ /\ AcceptsKey(Event)
          /\ ui' = "emojis"
          /\ step' = "needMatchAndMac"
          /\ UNCHANGED <<sasDevice, sasTxid, peerMac, presses, outbox, completed>>
       \/ ~AcceptsKey(Event) /\ Denied

AcceptsMac(m) == step \in {"needMatchAndMac", "needMac"} /\ m.txid = sasTxid

(* sas_process_peer_mac_and_send_done() asserts that a MAC is right; here  *)
(* it is when it comes from the other device of this verification.  It     *)
(* also asserts that the list has that device signed; ending there, with a *)
(* list that is old, is a Restart.                                         *)
HandleMac ==
    /\ Takes("mac")
    /\ \/ /\ AcceptsMac(Event) /\ step = "needMac"
          /\ step' = "done"
          /\ UNCHANGED <<sasDevice, sasTxid, peerMac, ui, presses, completed>>
          /\ Send(sasDevice, <<"done">>)
       \/ /\ AcceptsMac(Event) /\ step = "needMatchAndMac"
          /\ peerMac' = Event.txid
          /\ step' = "needMatch"
          /\ UNCHANGED <<sasDevice, sasTxid, ui, presses, outbox, completed>>
       \/ ~AcceptsMac(Event) /\ Denied

\* Slip: done of another verification is believed.
AcceptsDoneOfAny(m) == step = "done"

AcceptsDone(m) == step = "done" /\ m.txid = sasTxid

HandleDone ==
    /\ Takes("done")
    /\ \/ /\ AcceptsDone(Event)
          /\ ui' = "verified"
          /\ step' = "end"
          /\ completed' = completed \union {sasTxid}
          /\ UNCHANGED <<sasDevice, sasTxid, peerMac, presses, outbox>>
       \/ ~AcceptsDone(Event) /\ Denied

HandleEvent == HandleRequest \/ HandleStart \/ HandleKey \/ HandleMac \/ HandleDone

(* The next /sync tells the server how far this device has got.            *)
Acknowledge ==
    /\ seen > 0
    /\ inbox' = SubSeq(inbox, seen + 1, Len(inbox))
    /\ seen' = 0
    /\ UNCHANGED <<deviceVars, ui, presses, outbox, other, attempts, restarts, ghosts>>
-----------------------------------------------------------------------------
(* sas_matches_cb(): the button may be pressed again while it is there.    *)
PressYes ==
    /\ ui = "emojis" /\ presses < MaxPresses
    /\ presses' = presses + 1
    /\ saidYes' = saidYes \union {sasTxid}
    /\ UNCHANGED <<deviceVars, ui, inbox, seen, outbox, other, attempts, restarts,
                   otherYes, signed, completed, broken>>

\* Slip: the MAC that came before the user's answer is forgotten.
NeedsMacAfterAnyMatch == step \in {"needMatchAndMac", "needMatch"}

NeedsMacAfterMatch == step = "needMatchAndMac"

(* The thread takes SAS_MATCHES: it sends its MAC and, when the other one  *)
(* is here already, done.                                                  *)
Match ==
    /\ presses > 0
    /\ presses' = presses - 1
    /\ IF step \notin {"needMatchAndMac", "needMatch"}
       THEN UNCHANGED <<step, sasDevice, sasTxid, peerMac, outbox>>
       ELSE /\ UNCHANGED <<sasDevice, sasTxid>>
            /\ \/ /\ NeedsMacAfterMatch
                  /\ step' = "needMac"
                  /\ Send(sasDevice, <<"mac">>)
                  /\ UNCHANGED peerMac
               \/ /\ ~NeedsMacAfterMatch
                  /\ step' = "done"
                  /\ Send(sasDevice, <<"mac", "done">>)
                  /\ peerMac' = None
    /\ UNCHANGED <<isVerified, ui, inbox, seen, other, attempts, restarts, ghosts>>

(* The app ends and starts: the steps are lost, and the messages that were *)
(* not acknowledged come again.  The key list says whether this device is  *)
(* signed; it may not have heard of the last signature (KeyList).          *)
Restart ==
    /\ restarts < MaxRestarts
    /\ restarts' = restarts + 1
    /\ Forgotten
    /\ isVerified' \in {FALSE, signed # {}}
    /\ ui' = IF isVerified' THEN "verified" ELSE "instructions"
    /\ presses' = 0 /\ seen' = 0
    /\ broken' = broken \union ({sasTxid} \ {None})
    /\ UNCHANGED <<inbox, outbox, other, attempts, saidYes, otherYes, signed, completed>>
-----------------------------------------------------------------------------
(* The other devices.                                                      *)
Receives(d, types) ==
    inbox' = inbox \o [i \in 1..Len(types) |-> Message(types[i], d, other'[d].txid)]

OtherStep == UNCHANGED <<deviceVars, ui, presses, seen, restarts, saidYes, completed>>

OtherRequests(d) ==
    /\ other[d].at = "idle" /\ attempts < MaxAttempts
    /\ attempts' = attempts + 1
    /\ other' = [other EXCEPT ![d] = [at |-> "requested", txid |-> attempts', mac |-> FALSE]]
    /\ Receives(d, <<"request">>)
    /\ OtherStep /\ UNCHANGED <<outbox, otherYes, signed, broken>>

(* What it makes of a message, by where it is: ready is answered by start, *)
(* a key by a key, and a MAC by done once its user has confirmed.          *)
Reaction(o, type) ==
    CASE o.at = "requested" /\ type = "ready"  -> [to |-> "started", say |-> <<"start">>]
      [] o.at = "started"   /\ type = "accept" -> [to |-> "accepted", say |-> <<>>]
      [] o.at = "accepted"  /\ type = "key"    -> [to |-> "emojis", say |-> <<"key">>]
      [] o.at = "confirmed" /\ type = "mac"    -> [to |-> "done", say |-> <<"done">>]
      [] OTHER -> [to |-> o.at, say |-> <<>>]

OtherReceives(d) ==
    /\ outbox[d] # <<>>
    /\ LET m == Head(outbox[d])
           r == Reaction(other[d], m.type)
       IN IF m.txid = other[d].txid
          THEN /\ other' = [other EXCEPT ![d].at = r.to, ![d].mac = @ \/ m.type = "mac"]
               /\ Receives(d, r.say)
               /\ signed' = signed \union (IF r.to = "done" THEN {m.txid} ELSE {})
          ELSE UNCHANGED <<other, inbox, signed>>
    /\ outbox' = [outbox EXCEPT ![d] = Tail(@)]
    /\ OtherStep /\ UNCHANGED <<attempts, otherYes, broken>>

OtherConfirms(d) ==
    /\ other[d].at = "emojis"
    /\ otherYes' = otherYes \union {other[d].txid}
    /\ other' = [other EXCEPT ![d].at = IF other[d].mac THEN "done" ELSE "confirmed"]
    /\ Receives(d, IF other[d].mac THEN <<"mac", "done">> ELSE <<"mac">>)
    /\ signed' = IF other[d].mac THEN signed \union {other[d].txid} ELSE signed
    /\ OtherStep /\ UNCHANGED <<outbox, attempts, broken>>

(* It gives up, by its user or because ten minutes have passed; in that    *)
(* case the request is too old for this device as well.  The cancel it     *)
(* sends is a message this device has no handler for.                      *)
OtherGivesUp(d) ==
    /\ other[d].at \notin {"idle", "done"}
    /\ broken' = broken \union {other[d].txid}
    /\ other' = [other EXCEPT ![d] = [at |-> "idle", txid |-> None, mac |-> FALSE]]
    /\ \/ UNCHANGED inbox
       \/ inbox' = [i \in DOMAIN inbox |->
                       IF inbox[i].from = d THEN [inbox[i] EXCEPT !.old = TRUE] ELSE inbox[i]]
    /\ OtherStep /\ UNCHANGED <<outbox, attempts, otherYes, signed>>

Next ==
    \/ HandleEvent \/ Acknowledge \/ PressYes \/ Match \/ Restart
    \/ \E d \in Devices : OtherRequests(d) \/ OtherReceives(d) \/ OtherConfirms(d)
                          \/ OtherGivesUp(d)

Spec == Init /\ [][Next]_vars

(* The thread and the network go on, and both users answer what they see.  *)
Fairness ==
    /\ WF_vars(HandleEvent) /\ WF_vars(Match)
    /\ WF_vars(PressYes /\ presses = 0 /\ sasTxid \notin saidYes)
    /\ \A d \in Devices : WF_vars(OtherReceives(d)) /\ WF_vars(OtherConfirms(d))

FairSpec == Spec /\ Fairness
-----------------------------------------------------------------------------
(* The app says that it is verified (SAS_COMPLETE) only for an attempt     *)
(* that the user confirmed on both devices and at whose end the other one  *)
(* signed this device: also after restarts and with messages of several    *)
(* attempts in between.                                                    *)
CompleteOnlyIfConfirmed ==
    completed \subseteq (saidYes \intersect otherYes \intersect signed)

(* An attempt that this device accepted is completed, whichever user       *)
(* answers first, unless the app restarts or the other device gives up.    *)
VerificationCompletes ==
    \A x \in 1..MaxAttempts : sasTxid = x ~> x \in completed \union broken
=============================================================================
