-------------------------- MODULE MCBeeperDevices --------------------------
(***************************************************************************)
(* What beeper does with the devices of its user and of others: the        *)
(* verification by another device (Verification) and the list of devices   *)
(* and their keys (KeyList).  They have no state in common here, so a      *)
(* behaviour is one of either: TLC checks them side by side.               *)
(***************************************************************************)
EXTENDS Integers

CONSTANTS OtherDevices, MaxAttempts, MaxPresses, MaxRestarts,
          Own, Bots, DeviceNames, ThisDevice, MaxChanges, MaxEnds

(* This device is one that the list of the own user may hold.              *)
ASSUME DevicesAssumption == ThisDevice \in DeviceNames

VARIABLES
    part,  \* the one that this behaviour is of
    step, sasDevice, sasTxid, peerMac, isVerified, ui, presses, inbox, seen, outbox, other,
    attempts, restarts, saidYes, otherYes, signed, completed, broken,
    keys, sharing, changed, left, since, list, hasOutdated, needsSave, file, at, answer,
    missed, changes, ends

sasVars == <<step, sasDevice, sasTxid, peerMac, isVerified, ui, presses, inbox, seen, outbox,
             other, attempts, restarts, saidYes, otherYes, signed, completed, broken>>
keyVars == <<keys, sharing, changed, left, since, list, hasOutdated, needsSave, file, at,
             answer, missed, changes, ends>>

Sas == INSTANCE Verification WITH Devices <- OtherDevices
Keys == INSTANCE KeyList WITH
            Devices <- DeviceNames, restarts <- ends, MaxRestarts <- MaxEnds

Init ==
    /\ part \in {"sas", "keys"}
    /\ Sas!Init /\ Keys!Init

Next ==
    \/ part = "sas" /\ Sas!Next /\ UNCHANGED <<part, keyVars>>
    \/ part = "keys" /\ Keys!Next /\ UNCHANGED <<part, sasVars>>

vars == <<part, sasVars, keyVars>>

(* The fairness of Verification, in its behaviours.                        *)
Fairness ==
    /\ WF_sasVars(part = "sas" /\ Sas!HandleEvent)
    /\ WF_sasVars(part = "sas" /\ Sas!Match)
    /\ WF_sasVars(part = "sas" /\ Sas!PressYes /\ presses = 0 /\ sasTxid \notin saidYes)
    /\ \A d \in OtherDevices :
          /\ WF_sasVars(part = "sas" /\ Sas!OtherReceives(d))
          /\ WF_sasVars(part = "sas" /\ Sas!OtherConfirms(d))

FairSpec == Init /\ [][Next]_vars /\ Fairness
-----------------------------------------------------------------------------
(* The app says that it is verified only for an attempt that both users    *)
(* confirmed and at whose end the other device signed this one.            *)
CompleteOnlyIfConfirmed == Sas!CompleteOnlyIfConfirmed

(* An attempt that this device accepted is completed, whichever user       *)
(* answers first, unless the app restarts or the other device gives up.    *)
VerificationCompletes == Sas!VerificationCompletes

(* What is found in the list of devices is what the server has of them,    *)
(* unless no answer has told of a change.  Where all devices of a user are *)
(* asked for there are no others; a device asked for by name stays in the  *)
(* list when it is gone from the server.                                   *)
ListsAreCurrent == Keys!ListsAreCurrent
=============================================================================
