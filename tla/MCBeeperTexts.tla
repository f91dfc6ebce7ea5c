---------------------------- MODULE MCBeeperTexts ----------------------------
(***************************************************************************)
(* What keeps texts safe: on their way out (Sending, and the transaction   *)
(* ids it takes), in the window of a room on the screen (RoomWindow), and  *)
(* in the loop that calls the handlers of the program's descriptors        *)
(* (PollLoop).  They have no state in common, so a behaviour here is one   *)
(* of any one of them: TLC checks them side by side.                       *)
(***************************************************************************)
EXTENDS Sending, RoomWindow

CONSTANTS Addresses, Fds, NULL, MaxAdds

ASSUME NULLAssumption == NULL \notin Addresses \union Fds
ASSUME FdsAssumption == IsFiniteSet(Fds)

\* The events of the room came in the order of their time.
InOrder == <<1, 2, 3, 4, 5, 6>>

VARIABLES
    part,  \* the one that this behaviour is of
    handle, head, interest, batch, polled, running, loopAt, index, added

loopVars == <<handle, head, interest, batch, polled, running, loopAt, index, added>>

Loop == INSTANCE PollLoop WITH at <- loopAt

(* Descriptors that are not registered are alike, so the handle at an      *)
(* address takes the descriptor of that number; free memory that no event  *)
(* points to is alike, so the first is taken: both to no loss.             *)
FirstAlike ==
    LET alike == {a \in Addresses \ Loop!Used : \A i \in DOMAIN batch : batch[i].address # a}
    IN  /\ \A f \in Fds : interest'[f].address \in {f, NULL}
        /\ \A a \in alike : handle'[a].fd = NULL \/ \A b \in alike : a <= b

TextsInit ==
    /\ part \in {"sending", "window", "loop"}
    /\ SendInit /\ WindowInit /\ Loop!Init

TextsNext ==
    \/ part = "sending" /\ SendNext /\ UNCHANGED <<part, windowVars, loopVars>>
    \/ part = "window" /\ WindowNext /\ UNCHANGED <<part, allVars, loopVars>>
    \/ part = "loop" /\ Loop!Next /\ FirstAlike /\ UNCHANGED <<part, allVars, windowVars>>

TextsSpec == TextsInit /\ [][TextsNext]_<<part, allVars, windowVars, loopVars>>
-----------------------------------------------------------------------------
(* A callback is only called for the registration whose event was polled.  *)
CallsAreForTheirOwn == Loop!CallsAreForTheirOwn
=============================================================================
