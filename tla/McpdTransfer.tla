---------------------------- MODULE McpdTransfer ----------------------------
(***************************************************************************)
(* How mcpd moves the bytes of mcpd_read() and mcpd_write()                *)
(* (continue_transfer() in src/mcpd/mcpd.c).  A transfer that finds no     *)
(* bytes, or no room, is left alone until the poller, a second state       *)
(* machine of the same thread, reports that the module became readable or  *)
(* writable.  The poller advances whenever the daemon waits for a byte of  *)
(* the backplane, so its report can fall between the question of a         *)
(* transfer and the answer.                                                *)
(*                                                                         *)
(* The peers and their clients are fixed here; McpdDaemon brings them.     *)
(***************************************************************************)
EXTENDS Integers, FiniteSets

CONSTANTS
    Peers,     \* the tokens of the peers, numbers in slot order
    Chunk,     \* bytes one exchange moves (255)
    Uses,      \* the directions in which each module is used
    PipeCap,   \* bytes the backplane keeps for a module, each way
    MaxLen     \* bound on transaction_remaining_len

ASSUME TransferAssumption ==
    /\ Peers \subseteq Nat
    /\ IsFiniteSet(Peers)
    /\ Uses \in [Peers -> SUBSET {"read", "write"}]
    /\ Chunk \in Nat \ {0}
    /\ PipeCap \in Nat \ {0}
    /\ MaxLen \in Nat \ {0}

Nobody == -1
Ways == {"read", "write"}
NoReport == [token |-> Nobody, flags |-> {}]

VARIABLES
    isDoing,            \* peer_data_t.is_doing
    wasUnblocked,       \* peer_data_t.was_unblocked
    left,               \* peer_data_t.transaction_remaining_len
    somethingHappened,  \* s1.something_happened
    pc,                 \* where the daemon is
    cur,                \* the peer continue_transfer() works on
    scan,               \* the peers the loop over peer_datas has yet to see
    actual,             \* actually_move, once the backplane has answered
    inPipe,             \* bytes a module has sent and nobody has read
    outPipe,            \* bytes written to a module and not taken by it
    pending,            \* reports the backplane has yet to make
    flight,             \* the report the poller is reading
    supplied,           \* bytes of a write its client has put in the socket
    asked,              \* the length of each client's request, 0 without one
    delivered           \* how much of it has reached the other side

pollVars == <<pending, flight>>
pipeVars == <<inPipe, outPipe>>
clientVars == <<supplied, asked, delivered>>
vars == <<isDoing, wasUnblocked, left, somethingHappened, pc, cur, scan, actual,
          pipeVars, pollVars, clientVars>>

Smaller(a, b) == IF a <= b THEN a ELSE b

\* was_unblocked of a new peer is memory realloc() handed out.
Init ==
    /\ isDoing = [t \in Peers |-> "idle"]
    /\ wasUnblocked \in [Peers -> BOOLEAN]
    /\ left = [t \in Peers |-> 0]
    /\ somethingHappened = FALSE
    /\ pc = "top"
    /\ cur = Nobody
    /\ scan = {}
    /\ actual = 0
    /\ inPipe = [t \in Peers |-> 0]
    /\ outPipe = [t \in Peers |-> 0]
    /\ pending = {}
    /\ flight = NoReport
    /\ supplied = [t \in Peers |-> 0]
    /\ asked = [t \in Peers |-> 0]
    /\ delivered = [t \in Peers |-> 0]

(***************************************************************************)
(* The modules and the backplane.  A report is due when a pipe that was    *)
(* empty gets a byte, or one that was full gets room; it is made once.     *)
(***************************************************************************)

ModuleSends(t) ==
    /\ "read" \in Uses[t]
    /\ inPipe[t] < PipeCap
    /\ inPipe' = [inPipe EXCEPT ![t] = @ + 1]
    /\ pending' = IF inPipe[t] = 0 THEN pending \cup {<<t, "read">>} ELSE pending
    /\ UNCHANGED <<isDoing, wasUnblocked, left, somethingHappened, pc, cur, scan,
                   actual, outPipe, flight, clientVars>>

ModuleTakes(t) ==
    /\ outPipe[t] > 0
    /\ outPipe' = [outPipe EXCEPT ![t] = @ - 1]
    /\ pending' = IF outPipe[t] = PipeCap THEN pending \cup {<<t, "write">>} ELSE pending
    /\ UNCHANGED <<isDoing, wasUnblocked, left, somethingHappened, pc, cur, scan,
                   actual, inPipe, flight, clientVars>>

\* The poll that is always outstanding is answered for one module.
Report(t) ==
    /\ flight = NoReport
    /\ \E way \in Ways : <<t, way>> \in pending
    /\ flight' = [token |-> t, flags |-> {way \in Ways : <<t, way>> \in pending}]
    /\ pending' = pending \ ({t} \X Ways)
    /\ UNCHANGED <<isDoing, wasUnblocked, left, somethingHappened, pc, cur, scan,
                   actual, pipeVars, clientVars>>

\* Where the daemon waits in poll() or for a byte of the backplane.
Multitasking == pc \in {"top", "asked", "answered", "moving"}

\* Slip: the peer whose transfer is under way is thought to need no report.
ConcernsWaiting(t) == isDoing[t] \in flight.flags /\ t # cur

\* The report is about what module t's transfer waits for.
Concerns(t) == isDoing[t] \in flight.flags

\* The poller has read the token of a report.
PollerReport ==
    /\ Multitasking
    /\ flight # NoReport
    /\ IF Concerns(flight.token)
       THEN /\ wasUnblocked' = [wasUnblocked EXCEPT ![flight.token] = TRUE]
            /\ somethingHappened' = TRUE
       ELSE UNCHANGED <<wasUnblocked, somethingHappened>>
    /\ flight' = NoReport
    /\ UNCHANGED <<isDoing, left, pc, cur, scan, actual, pipeVars, pending,
                   clientVars>>

(***************************************************************************)
(* The main loop.                                                          *)
(***************************************************************************)

\* poll() found a request: OPERATION_READ or OPERATION_WRITE of n bytes.  The
\* asynchronous calls of the library also ask for none.  A client served after
\* another in one round may find a report noted; here the report is served
\* first, as it is when it was there before poll().
Begin(t, way, n) ==
    /\ pc = "top"
    /\ ~somethingHappened
    /\ isDoing[t] = "idle"
    /\ isDoing' = [isDoing EXCEPT ![t] = way]
    /\ left' = [left EXCEPT ![t] = n]
    /\ pc' = "transfer"
    /\ cur' = t
    /\ scan' = {}
    /\ asked' = [asked EXCEPT ![t] = n]
    /\ UNCHANGED <<wasUnblocked, somethingHappened, actual, pipeVars, pollVars,
                   supplied, delivered>>

\* Slip: the loop ends one slot early.
ToScanButLast == {t \in Peers : \E u \in Peers : u > t}

ToScan == Peers

\* while(s.s1.something_happened): look at every peer.
StartScan ==
    /\ pc = "top"
    /\ somethingHappened
    /\ somethingHappened' = FALSE
    /\ scan' = ToScan
    /\ pc' = "scan"
    /\ UNCHANGED <<isDoing, wasUnblocked, left, cur, actual, pipeVars, pollVars,
                   clientVars>>

\* The peers are looked at in slot order.
ScanPeer ==
    /\ pc = "scan"
    /\ \E t \in scan :
          /\ \A u \in scan : t <= u
          /\ scan' = scan \ {t}
          /\ IF isDoing[t] # "idle" /\ wasUnblocked[t]
             THEN pc' = "transfer" /\ cur' = t
             ELSE UNCHANGED <<pc, cur>>
    /\ UNCHANGED <<isDoing, wasUnblocked, left, somethingHappened, actual,
                   pipeVars, pollVars, clientVars>>

EndScan ==
    /\ pc = "scan"
    /\ scan = {}
    /\ pc' = "top"
    /\ UNCHANGED <<isDoing, wasUnblocked, left, somethingHappened, cur, scan,
                   actual, pipeVars, pollVars, clientVars>>

\* Leaving continue_transfer(): on with the loop over the peers, if it was
\* called from there.
Leave ==
    /\ pc' = IF scan = {} THEN "top" ELSE "scan"
    /\ cur' = Nobody
    /\ actual' = 0

(***************************************************************************)
(* continue_transfer().                                                    *)
(***************************************************************************)

TryToMove(t) == Smaller(left[t], Chunk)

\* The question is sent: opcode, length and token.
Ask ==
    /\ pc = "transfer"
    /\ left[cur] > 0
    /\ wasUnblocked' = [wasUnblocked EXCEPT ![cur] = FALSE]
    /\ pc' = "asked"
    /\ UNCHANGED <<isDoing, left, somethingHappened, cur, scan, actual, pipeVars,
                   pollVars, clientVars>>

\* The backplane looks at its pipe and sends what it can move.
Answer ==
    /\ pc = "asked"
    /\ actual' = Smaller(TryToMove(cur),
                         IF isDoing[cur] = "read" THEN inPipe[cur]
                                                  ELSE PipeCap - outPipe[cur])
    /\ pc' = "answered"
    /\ UNCHANGED <<isDoing, wasUnblocked, left, somethingHappened, cur, scan,
                   pipeVars, pollVars, clientVars>>

\* Nothing can be moved: again if a report came meanwhile, else later.
NothingToMove ==
    /\ pc = "answered"
    /\ actual = 0
    /\ IF wasUnblocked[cur]
       THEN pc' = "transfer" /\ UNCHANGED <<cur, actual>>
       ELSE Leave
    /\ UNCHANGED <<isDoing, wasUnblocked, left, somethingHappened, scan, pipeVars,
                   pollVars, clientVars>>

\* The bytes of a write are taken from the client, however long that takes;
\* nothing else in the daemon moves meanwhile.
SomethingToMove ==
    /\ pc = "answered"
    /\ actual > 0
    /\ pc' = IF isDoing[cur] = "read" THEN "moving" ELSE "filling"
    /\ UNCHANGED <<isDoing, wasUnblocked, left, somethingHappened, cur, scan,
                   actual, pipeVars, pollVars, clientVars>>

Fill ==
    /\ pc = "filling"
    /\ supplied[cur] - delivered[cur] >= actual
    /\ pc' = "moving"
    /\ UNCHANGED <<isDoing, wasUnblocked, left, somethingHappened, cur, scan,
                   actual, pipeVars, pollVars, clientVars>>

\* Slip: all that was tried counts as moved.
LeftAfterTry(t) == left[t] - TryToMove(t)

LeftAfter(t) == left[t] - actual

Move ==
    /\ pc = "moving"
    /\ IF isDoing[cur] = "read"
       THEN inPipe' = [inPipe EXCEPT ![cur] = @ - actual] /\ UNCHANGED outPipe
       ELSE outPipe' = [outPipe EXCEPT ![cur] = @ + actual] /\ UNCHANGED inPipe
    /\ left' = [left EXCEPT ![cur] = LeftAfter(cur)]
    /\ delivered' = [delivered EXCEPT ![cur] = @ + actual]
    /\ pc' = "transfer"
    /\ UNCHANGED <<isDoing, wasUnblocked, somethingHappened, cur, scan, actual,
                   pollVars, supplied, asked>>

\* The last byte is moved: the slot is polled again.
Finish ==
    /\ pc = "transfer"
    /\ left[cur] = 0
    /\ isDoing' = [isDoing EXCEPT ![cur] = "idle"]
    /\ Leave
    /\ supplied' = [supplied EXCEPT ![cur] = 0]
    /\ asked' = [asked EXCEPT ![cur] = 0]
    /\ delivered' = [delivered EXCEPT ![cur] = 0]
    /\ UNCHANGED <<wasUnblocked, left, somethingHappened, scan, pipeVars, pollVars>>

\* mcpd_write() puts everything in the socket at once, mcpd_async_continue()
\* what fits.
ClientSupplies(t) ==
    /\ isDoing[t] = "write"
    /\ supplied[t] < asked[t]
    /\ supplied' = [supplied EXCEPT ![t] = @ + 1]
    /\ UNCHANGED <<isDoing, wasUnblocked, left, somethingHappened, pc, cur, scan,
                   actual, pipeVars, pollVars, asked, delivered>>

(***************************************************************************)
(* The specification.                                                      *)
(***************************************************************************)

Daemon ==
    \/ StartScan
    \/ ScanPeer
    \/ EndScan
    \/ Ask
    \/ NothingToMove
    \/ SomethingToMove
    \/ Fill
    \/ Move
    \/ Finish

Next ==
    \/ Daemon
    \/ Answer
    \/ PollerReport
    \/ \E t \in Peers :
          \/ ModuleSends(t)
          \/ ModuleTakes(t)
          \/ Report(t)
          \/ ClientSupplies(t)
          \/ \E way \in Uses[t], n \in 0 .. MaxLen : Begin(t, way, n)

Spec == Init /\ [][Next]_vars

\* The daemon and the backplane never stop; a signal of the poller's socket
\* is looked for each time round the loop and in every wait for a byte, so
\* the poller cannot be passed over for ever; the backplane passes over no
\* module for ever either; modules send and take, and clients supply the bytes
\* they announced.
Fairness ==
    /\ WF_vars(Daemon)
    /\ WF_vars(Answer)
    /\ SF_vars(PollerReport)
    /\ \A t \in Peers :
          /\ SF_vars(Report(t))
          /\ WF_vars(ModuleSends(t))
          /\ WF_vars(ModuleTakes(t))
          /\ WF_vars(ClientSupplies(t))

FairSpec == Spec /\ Fairness

(***************************************************************************)
(* Properties.                                                             *)
(***************************************************************************)

TypeOK ==
    /\ isDoing \in [Peers -> Ways \cup {"idle"}]
    /\ wasUnblocked \in [Peers -> BOOLEAN]
    /\ left \in [Peers -> 0 .. MaxLen]
    /\ somethingHappened \in BOOLEAN
    /\ pc \in {"top", "scan", "transfer", "asked", "answered", "filling", "moving"}
    /\ cur \in Peers \cup {Nobody}
    /\ scan \in SUBSET Peers
    /\ actual \in Nat
    /\ inPipe \in [Peers -> 0 .. PipeCap]
    /\ outPipe \in [Peers -> 0 .. PipeCap]
    /\ pending \in SUBSET (Peers \X Ways)
    /\ flight \in [token : Peers \cup {Nobody}, flags : SUBSET Ways]
    /\ supplied \in [Peers -> 0 .. MaxLen]
    /\ asked \in [Peers -> 0 .. MaxLen]
    /\ delivered \in [Peers -> 0 .. MaxLen]

\* The backplane could move bytes of peer t's transfer.
Movable(t) ==
    \/ isDoing[t] = "read" /\ inPipe[t] > 0
    \/ isDoing[t] = "write" /\ outPipe[t] < PipeCap

\* A report for t that matches its transfer is due, on the wire, or taken.
Reported(t) ==
    \/ <<t, isDoing[t]>> \in pending
    \/ flight.token = t /\ isDoing[t] \in flight.flags
    \/ wasUnblocked[t]

\* A transfer that waits though its bytes could move has a report on the
\* way: no wakeup is lost between the backplane's answer and the decision to
\* wait, and none was swallowed while the peer was not transferring.
NoLostWakeup ==
    \A t \in Peers : t # cur /\ Movable(t) => Reported(t)

\* A report that was taken is acted on: the loop is due to look at the peer
\* again, or has not come to it yet.
ReportsAreSeen ==
    \A t \in Peers :
        isDoing[t] # "idle" /\ wasUnblocked[t] /\ t # cur =>
            somethingHappened \/ t \in scan

\* Every byte of a request is accounted for, and a slot is given back to its
\* client exactly when all of them have been moved.
BytesAccounted ==
    \A t \in Peers :
        /\ delivered[t] + left[t] = asked[t]
        /\ isDoing[t] = "idle" <=> left[t] = 0 /\ t # cur
        /\ isDoing[t] = "write" => delivered[t] <= supplied[t]

\* Every transfer ends.
TransfersEnd == \A t \in Peers : isDoing[t] # "idle" ~> isDoing[t] = "idle"

=============================================================================
