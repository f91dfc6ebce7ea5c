------------------------- MODULE McpdTransferProofs -------------------------
(***************************************************************************)
(* Proofs about McpdTransfer: for any set of peers, any sizes of the       *)
(* pipes, of an exchange and of the requests, the types are right, every   *)
(* byte is accounted for, no wakeup is lost and no report is forgotten.    *)
(***************************************************************************)
EXTENDS McpdTransfer, TLAPS

(***************************************************************************)
(* The inductive invariant.                                                *)
(***************************************************************************)

InTransfer == pc \in {"transfer", "asked", "answered", "filling", "moving"}

\* continue_transfer() works on a busy peer, and the loop over the peers has
\* none left to see when the daemon is at the top.
Place ==
    /\ InTransfer <=> cur # Nobody
    /\ pc = "top" => scan = {}

\* How many bytes the pipe of a transferring peer can move.
Room(t) == IF isDoing[t] = "read" THEN inPipe[t] ELSE PipeCap - outPipe[t]

\* An exchange never moves more than is asked for, is in the pipe, or was
\* supplied by the client.
Exchange ==
    /\ pc \in {"asked", "answered", "filling", "moving"} => left[cur] > 0
    /\ pc \in {"answered", "filling", "moving"} =>
          actual <= left[cur] /\ actual <= Room(cur)
    /\ pc = "filling" => isDoing[cur] = "write"
    /\ pc = "moving" /\ isDoing[cur] = "write" =>
          delivered[cur] + actual <= supplied[cur]

\* A slot that is idle has no request, and no client supplies more than it
\* announced.
Requests ==
    \A t \in Peers :
        /\ isDoing[t] = "idle" => asked[t] = 0
        /\ supplied[t] <= asked[t]

\* What NoLostWakeup says of the peer in continue_transfer() once the
\* backplane has answered that nothing can be moved.
WakeupOfCurrent ==
    pc = "answered" /\ actual = 0 /\ Movable(cur) => Reported(cur)

IInv ==
    /\ TypeOK
    /\ Place
    /\ BytesAccounted
    /\ Exchange
    /\ Requests
    /\ NoLostWakeup
    /\ WakeupOfCurrent
    /\ ReportsAreSeen

\* Every step of the poller, of continue_transfer() and of the programs around
\* them keeps the invariant: one case per action, one step per conjunct that
\* the action can disturb.
LEMMA StepKeepsIInv == IInv /\ [Next]_vars => IInv'
<1> SUFFICES ASSUME IInv, [Next]_vars PROVE IInv'
  OBVIOUS
<1> USE TransferAssumption DEF IInv, Nobody, Ways, NoReport
<1>1. CASE StartScan
  <2>1. TypeOK'
    BY <1>1 DEF StartScan, ToScan, pipeVars, pollVars, clientVars, TypeOK
  <2>2. Place' /\ Exchange'
    BY <1>1 DEF StartScan, ToScan, pipeVars, pollVars, clientVars, TypeOK, Place,
       InTransfer, Exchange, Room
  <2>3. BytesAccounted' /\ Requests'
    BY <1>1 DEF StartScan, ToScan, pipeVars, pollVars, clientVars, TypeOK,
       BytesAccounted, Requests
  <2>4. NoLostWakeup' /\ WakeupOfCurrent'
    BY <1>1 DEF StartScan, ToScan, pipeVars, pollVars, clientVars, TypeOK,
       NoLostWakeup, WakeupOfCurrent, Movable, Reported
  <2>5. ReportsAreSeen'
    BY <1>1 DEF StartScan, ToScan, pipeVars, pollVars, clientVars, TypeOK,
       ReportsAreSeen
  <2> QED
    BY <2>1, <2>2, <2>3, <2>4, <2>5
<1>2. CASE ScanPeer
  <2>1. TypeOK'
    BY <1>2 DEF ScanPeer, pipeVars, pollVars, clientVars, TypeOK
  <2>2. Place' /\ Exchange'
    BY <1>2 DEF ScanPeer, pipeVars, pollVars, clientVars, TypeOK, Place,
       InTransfer, Exchange, Room
  <2>3. BytesAccounted' /\ Requests'
    <3>1. cur = Nobody /\ \A t \in Peers : t # cur
      BY <1>2 DEF ScanPeer, TypeOK, Place, InTransfer
    <3>2. \/ cur' = cur
          \/ cur' \in Peers /\ isDoing[cur'] # "idle"
      BY <1>2 DEF ScanPeer, TypeOK
    <3>3. UNCHANGED <<isDoing, left, asked, delivered, supplied>>
      BY <1>2 DEF ScanPeer, clientVars
    <3>4. Requests'
      BY <3>3 DEF Requests
    <3>5. ASSUME NEW t \in Peers
          PROVE  isDoing[t] = "idle" <=> left[t] = 0 /\ t # cur'
      BY <3>1, <3>2 DEF BytesAccounted
    <3> QED
      BY <3>3, <3>4, <3>5 DEF BytesAccounted
  <2>4. NoLostWakeup' /\ WakeupOfCurrent'
    BY <1>2 DEF ScanPeer, pipeVars, pollVars, clientVars, TypeOK, Place,
       InTransfer, NoLostWakeup, WakeupOfCurrent, Movable, Reported
  <2>5. ReportsAreSeen'
    BY <1>2 DEF ScanPeer, pipeVars, pollVars, clientVars, TypeOK, Place,
       InTransfer, ReportsAreSeen
  <2> QED
    BY <2>1, <2>2, <2>3, <2>4, <2>5
<1>3. CASE EndScan
  <2>1. TypeOK'
    BY <1>3 DEF EndScan, pipeVars, pollVars, clientVars, TypeOK
  <2>2. Place' /\ Exchange'
    BY <1>3 DEF EndScan, pipeVars, pollVars, clientVars, TypeOK, Place,
       InTransfer, Exchange, Room
  <2>3. BytesAccounted' /\ Requests'
    BY <1>3 DEF EndScan, pipeVars, pollVars, clientVars, TypeOK,
       BytesAccounted, Requests
  <2>4. NoLostWakeup' /\ WakeupOfCurrent'
    BY <1>3 DEF EndScan, pipeVars, pollVars, clientVars, TypeOK,
       NoLostWakeup, WakeupOfCurrent, Movable, Reported
  <2>5. ReportsAreSeen'
    BY <1>3 DEF EndScan, pipeVars, pollVars, clientVars, TypeOK,
       ReportsAreSeen
  <2> QED
    BY <2>1, <2>2, <2>3, <2>4, <2>5
<1>4. CASE Ask
  <2>1. TypeOK'
    BY <1>4 DEF Ask, pipeVars, pollVars, clientVars, TypeOK
  <2>2. Place' /\ Exchange'
    BY <1>4 DEF Ask, pipeVars, pollVars, clientVars, TypeOK, Place,
       InTransfer, Exchange, Room
  <2>3. BytesAccounted' /\ Requests'
    BY <1>4 DEF Ask, pipeVars, pollVars, clientVars, TypeOK, BytesAccounted,
       Requests
  <2>4. NoLostWakeup' /\ WakeupOfCurrent'
    BY <1>4 DEF Ask, pipeVars, pollVars, clientVars, TypeOK, NoLostWakeup,
       WakeupOfCurrent, Movable, Reported
  <2>5. ReportsAreSeen'
    BY <1>4 DEF Ask, pipeVars, pollVars, clientVars, TypeOK, ReportsAreSeen
  <2> QED
    BY <2>1, <2>2, <2>3, <2>4, <2>5
<1>5. CASE Answer
  <2>1. TypeOK'
    BY <1>5 DEF Answer, TryToMove, Smaller, pipeVars, pollVars, clientVars,
       TypeOK, Place, InTransfer
  <2>2. Place' /\ Exchange'
    BY <1>5 DEF Answer, TryToMove, Smaller, pipeVars, pollVars, clientVars,
       TypeOK, Place, InTransfer, Exchange, Room
  <2>3. BytesAccounted' /\ Requests'
    BY <1>5 DEF Answer, TryToMove, Smaller, pipeVars, pollVars, clientVars,
       TypeOK, BytesAccounted, Requests
  <2>4. NoLostWakeup' /\ WakeupOfCurrent'
    BY <1>5 DEF Answer, TryToMove, Smaller, pipeVars, pollVars, clientVars,
       TypeOK, Place, InTransfer, Exchange, NoLostWakeup, WakeupOfCurrent,
       Movable, Reported
  <2>5. ReportsAreSeen'
    BY <1>5 DEF Answer, TryToMove, Smaller, pipeVars, pollVars, clientVars,
       TypeOK, ReportsAreSeen
  <2> QED
    BY <2>1, <2>2, <2>3, <2>4, <2>5
<1>6. CASE NothingToMove
  <2>1. TypeOK'
    BY <1>6 DEF NothingToMove, Leave, pipeVars, pollVars, clientVars, TypeOK
  <2>2. Place' /\ Exchange'
    BY <1>6 DEF NothingToMove, Leave, pipeVars, pollVars, clientVars,
       TypeOK, Place, InTransfer, Exchange, Room
  <2>3. BytesAccounted' /\ Requests'
    BY <1>6 DEF NothingToMove, Leave, pipeVars, pollVars, clientVars,
       TypeOK, Place, InTransfer, Exchange, BytesAccounted, Requests
  <2>4. NoLostWakeup' /\ WakeupOfCurrent'
    BY <1>6 DEF NothingToMove, Leave, pipeVars, pollVars, clientVars,
       TypeOK, NoLostWakeup, WakeupOfCurrent, Movable, Reported
  <2>5. ReportsAreSeen'
    BY <1>6 DEF NothingToMove, Leave, pipeVars, pollVars, clientVars,
       TypeOK, ReportsAreSeen
  <2> QED
    BY <2>1, <2>2, <2>3, <2>4, <2>5
<1>7. CASE SomethingToMove
  <2>1. TypeOK'
    BY <1>7 DEF SomethingToMove, pipeVars, pollVars, clientVars, TypeOK
  <2>2. Place' /\ Exchange'
    BY <1>7 DEF SomethingToMove, pipeVars, pollVars, clientVars, TypeOK,
       Place, InTransfer, Exchange, Room, BytesAccounted, Requests
  <2>3. BytesAccounted' /\ Requests'
    BY <1>7 DEF SomethingToMove, pipeVars, pollVars, clientVars, TypeOK,
       BytesAccounted, Requests
  <2>4. NoLostWakeup' /\ WakeupOfCurrent'
    BY <1>7 DEF SomethingToMove, pipeVars, pollVars, clientVars, TypeOK,
       NoLostWakeup, WakeupOfCurrent, Movable, Reported
  <2>5. ReportsAreSeen'
    BY <1>7 DEF SomethingToMove, pipeVars, pollVars, clientVars, TypeOK,
       ReportsAreSeen
  <2> QED
    BY <2>1, <2>2, <2>3, <2>4, <2>5
<1>8. CASE Fill
  <2>1. TypeOK'
    BY <1>8 DEF Fill, pipeVars, pollVars, clientVars, TypeOK
  <2>2. Place' /\ Exchange'
    BY <1>8 DEF Fill, pipeVars, pollVars, clientVars, TypeOK, Place,
       InTransfer, Exchange, Room
  <2>3. BytesAccounted' /\ Requests'
    BY <1>8 DEF Fill, pipeVars, pollVars, clientVars, TypeOK,
       BytesAccounted, Requests
  <2>4. NoLostWakeup' /\ WakeupOfCurrent'
    BY <1>8 DEF Fill, pipeVars, pollVars, clientVars, TypeOK, NoLostWakeup,
       WakeupOfCurrent, Movable, Reported
  <2>5. ReportsAreSeen'
    BY <1>8 DEF Fill, pipeVars, pollVars, clientVars, TypeOK, ReportsAreSeen
  <2> QED
    BY <2>1, <2>2, <2>3, <2>4, <2>5
<1>9. CASE Move
  <2>1. TypeOK'
    BY <1>9 DEF Move, LeftAfter, pollVars, TypeOK, Place, InTransfer, Exchange, Room,
       BytesAccounted, Requests
  <2>2. Place' /\ Exchange'
    BY <1>9 DEF Move, LeftAfter, pollVars, TypeOK, Place, InTransfer, Exchange, Room
  <2>3. BytesAccounted' /\ Requests'
    BY <1>9 DEF Move, LeftAfter, pollVars, TypeOK, Place, InTransfer, Exchange,
       BytesAccounted, Requests
  <2>4. NoLostWakeup' /\ WakeupOfCurrent'
    BY <1>9 DEF Move, LeftAfter, pollVars, TypeOK, NoLostWakeup, WakeupOfCurrent,
       Movable, Reported
  <2>5. ReportsAreSeen'
    BY <1>9 DEF Move, LeftAfter, pollVars, TypeOK, ReportsAreSeen
  <2> QED
    BY <2>1, <2>2, <2>3, <2>4, <2>5
<1>10. CASE Finish
  <2>1. TypeOK'
    BY <1>10 DEF Finish, Leave, pipeVars, pollVars, TypeOK
  <2>2. Place' /\ Exchange'
    BY <1>10 DEF Finish, Leave, pipeVars, pollVars, TypeOK, Place,
       InTransfer, Exchange, Room
  <2>3. BytesAccounted' /\ Requests'
    BY <1>10 DEF Finish, Leave, pipeVars, pollVars, TypeOK, BytesAccounted,
       Requests
  <2>4. NoLostWakeup' /\ WakeupOfCurrent'
    BY <1>10 DEF Finish, Leave, pipeVars, pollVars, TypeOK, NoLostWakeup,
       WakeupOfCurrent, Movable, Reported
  <2>5. ReportsAreSeen'
    BY <1>10 DEF Finish, Leave, pipeVars, pollVars, TypeOK, ReportsAreSeen
  <2> QED
    BY <2>1, <2>2, <2>3, <2>4, <2>5
<1>11. CASE PollerReport
  <2>1. TypeOK'
    BY <1>11 DEF PollerReport, Concerns, Multitasking, pipeVars, clientVars, TypeOK
  <2>2. Place' /\ Exchange'
    BY <1>11 DEF PollerReport, Concerns, Multitasking, pipeVars, clientVars, TypeOK,
       Place, InTransfer, Exchange, Room
  <2>3. BytesAccounted' /\ Requests'
    BY <1>11 DEF PollerReport, Concerns, Multitasking, pipeVars, clientVars, TypeOK,
       BytesAccounted, Requests
  <2>4. NoLostWakeup' /\ WakeupOfCurrent'
    BY <1>11 DEF PollerReport, Concerns, Multitasking, pipeVars, clientVars, TypeOK,
       Place, InTransfer, NoLostWakeup, WakeupOfCurrent, Movable, Reported
  <2>5. ReportsAreSeen'
    BY <1>11 DEF PollerReport, Concerns, Multitasking, pipeVars, clientVars, TypeOK,
       ReportsAreSeen
  <2> QED
    BY <2>1, <2>2, <2>3, <2>4, <2>5
<1>12. ASSUME NEW t \in Peers, ModuleSends(t)
      PROVE  IInv'
  <2>1. TypeOK'
    BY <1>12 DEF ModuleSends, clientVars, TypeOK
  <2>2. Place' /\ Exchange'
    BY <1>12 DEF ModuleSends, clientVars, TypeOK, Place, InTransfer,
       Exchange, Room
  <2>3. BytesAccounted' /\ Requests'
    BY <1>12 DEF ModuleSends, clientVars, TypeOK, BytesAccounted, Requests
  <2>4. NoLostWakeup' /\ WakeupOfCurrent'
    BY <1>12 DEF ModuleSends, clientVars, TypeOK, NoLostWakeup,
       WakeupOfCurrent, Movable, Reported
  <2>5. ReportsAreSeen'
    BY <1>12 DEF ModuleSends, clientVars, TypeOK, ReportsAreSeen
  <2> QED
    BY <2>1, <2>2, <2>3, <2>4, <2>5
<1>13. ASSUME NEW t \in Peers, ModuleTakes(t)
      PROVE  IInv'
  <2>1. TypeOK'
    BY <1>13 DEF ModuleTakes, clientVars, TypeOK
  <2>2. Place' /\ Exchange'
    BY <1>13 DEF ModuleTakes, clientVars, TypeOK, Place, InTransfer,
       Exchange, Room
  <2>3. BytesAccounted' /\ Requests'
    BY <1>13 DEF ModuleTakes, clientVars, TypeOK, BytesAccounted, Requests
  <2>4. NoLostWakeup' /\ WakeupOfCurrent'
    BY <1>13 DEF ModuleTakes, clientVars, TypeOK, NoLostWakeup,
       WakeupOfCurrent, Movable, Reported
  <2>5. ReportsAreSeen'
    BY <1>13 DEF ModuleTakes, clientVars, TypeOK, ReportsAreSeen
  <2> QED
    BY <2>1, <2>2, <2>3, <2>4, <2>5
<1>14. ASSUME NEW t \in Peers, Report(t)
      PROVE  IInv'
  <2>1. TypeOK'
    BY <1>14 DEF Report, pipeVars, clientVars, TypeOK
  <2>2. Place' /\ Exchange'
    BY <1>14 DEF Report, pipeVars, clientVars, TypeOK, Place, InTransfer,
       Exchange, Room
  <2>3. BytesAccounted' /\ Requests'
    BY <1>14 DEF Report, pipeVars, clientVars, TypeOK, BytesAccounted,
       Requests
  <2>4. NoLostWakeup' /\ WakeupOfCurrent'
    BY <1>14 DEF Report, pipeVars, clientVars, TypeOK, NoLostWakeup,
       WakeupOfCurrent, Movable, Reported
  <2>5. ReportsAreSeen'
    BY <1>14 DEF Report, pipeVars, clientVars, TypeOK, ReportsAreSeen
  <2> QED
    BY <2>1, <2>2, <2>3, <2>4, <2>5
<1>15. ASSUME NEW t \in Peers, ClientSupplies(t)
      PROVE  IInv'
  <2>1. TypeOK'
    BY <1>15 DEF ClientSupplies, pipeVars, pollVars, TypeOK
  <2>2. Place' /\ Exchange'
    BY <1>15 DEF ClientSupplies, pipeVars, pollVars, TypeOK, Place,
       InTransfer, Exchange, Room
  <2>3. BytesAccounted' /\ Requests'
    BY <1>15 DEF ClientSupplies, pipeVars, pollVars, TypeOK, BytesAccounted,
       Requests
  <2>4. NoLostWakeup' /\ WakeupOfCurrent'
    BY <1>15 DEF ClientSupplies, pipeVars, pollVars, TypeOK, NoLostWakeup,
       WakeupOfCurrent, Movable, Reported
  <2>5. ReportsAreSeen'
    BY <1>15 DEF ClientSupplies, pipeVars, pollVars, TypeOK, ReportsAreSeen
  <2> QED
    BY <2>1, <2>2, <2>3, <2>4, <2>5
<1>16. ASSUME NEW t \in Peers, NEW way \in Uses[t], NEW n \in 0 .. MaxLen,
             Begin(t, way, n)
      PROVE  IInv'
  <2>1. TypeOK'
    BY <1>16 DEF Begin, pipeVars, pollVars, TypeOK
  <2>2. Place' /\ Exchange'
    BY <1>16 DEF Begin, pipeVars, pollVars, TypeOK, Place, InTransfer,
       Exchange, Room
  <2>3. BytesAccounted' /\ Requests'
    BY <1>16 DEF Begin, pipeVars, pollVars, TypeOK, Place, InTransfer,
       BytesAccounted, Requests
  <2>4. NoLostWakeup' /\ WakeupOfCurrent'
    BY <1>16 DEF Begin, pipeVars, pollVars, TypeOK, Place, InTransfer,
       NoLostWakeup, WakeupOfCurrent, Movable, Reported
  <2>5. ReportsAreSeen'
    BY <1>16 DEF Begin, pipeVars, pollVars, TypeOK, Place, InTransfer,
       ReportsAreSeen
  <2> QED
    BY <2>1, <2>2, <2>3, <2>4, <2>5
<1>17. CASE UNCHANGED vars
  BY <1>17 DEF vars, pipeVars, pollVars, clientVars, TypeOK, Place, InTransfer,
     Exchange, Room, BytesAccounted, Requests, NoLostWakeup, WakeupOfCurrent,
     Movable, Reported, ReportsAreSeen
<1> QED
  BY <1>1, <1>2, <1>3, <1>4, <1>5, <1>6, <1>7, <1>8, <1>9,
     <1>10, <1>11, <1>12, <1>13, <1>14, <1>15, <1>16, <1>17 DEF Next, Daemon

(***************************************************************************)
(* Theorems.                                                               *)
(***************************************************************************)

\* mcpd starts with no transfer, no report and nothing to scan.
LEMMA InitIInv == Init => IInv
<1> SUFFICES ASSUME Init PROVE IInv
  OBVIOUS
<1> USE TransferAssumption DEF Init, Nobody, Ways, NoReport
<1>1. TypeOK
  <2>1. flight \in [token : Peers \cup {Nobody}, flags : SUBSET Ways]
    OBVIOUS
  <2>2. wasUnblocked \in [Peers -> BOOLEAN]
    OBVIOUS
  <2>3. pending \in SUBSET (Peers \X Ways) /\ scan \in SUBSET Peers
    OBVIOUS
  <2>4. isDoing \in [Peers -> Ways \cup {"idle"}]
    OBVIOUS
  <2>5. /\ left \in [Peers -> 0 .. MaxLen]
        /\ supplied \in [Peers -> 0 .. MaxLen]
        /\ asked \in [Peers -> 0 .. MaxLen]
        /\ delivered \in [Peers -> 0 .. MaxLen]
    OBVIOUS
  <2>6. inPipe \in [Peers -> 0 .. PipeCap] /\ outPipe \in [Peers -> 0 .. PipeCap]
    OBVIOUS
  <2>7. /\ somethingHappened \in BOOLEAN
        /\ pc = "top"
        /\ cur = Nobody
        /\ actual \in Nat
    OBVIOUS
  <2> HIDE DEF Init, Nobody, Ways, NoReport
  <2> QED
    BY <2>1, <2>2, <2>3, <2>4, <2>5, <2>6, <2>7 DEF TypeOK
<1>2. Place /\ Exchange
  BY DEF Place, InTransfer, Exchange
<1>3. BytesAccounted /\ Requests
  BY DEF BytesAccounted, Requests
<1>4. NoLostWakeup /\ WakeupOfCurrent
  BY DEF NoLostWakeup, WakeupOfCurrent, Movable
<1>5. ReportsAreSeen
  BY DEF ReportsAreSeen
<1> QED
  BY <1>1, <1>2, <1>3, <1>4, <1>5 DEF IInv

\* The invariant holds in every state of every behaviour of the engine.
THEOREM TransferInvariant == Spec => []IInv
  BY InitIInv, StepKeepsIInv, PTL DEF Spec

\* In every state of every behaviour the variables of the transfer engine
\* have their types: no pipe, count or length ever leaves its bounds.
THEOREM TransferTypes == Spec => []TypeOK
  BY TransferInvariant, PTL DEF IInv

\* A transfer of continue_transfer() that waits for the poller though its
\* bytes could be moved has a report on the way or already noted.
THEOREM TransferNoLostWakeup == Spec => []NoLostWakeup
  BY TransferInvariant, PTL DEF IInv

\* A report the poller noted for a waiting transfer is seen by the loop over
\* the peers: the one that is running, or one that is due.
THEOREM TransferReportsAreSeen == Spec => []ReportsAreSeen
  BY TransferInvariant, PTL DEF IInv

\* A slot is given back to its client exactly when every byte of its request
\* has been moved, and no byte of a write is moved before it was supplied.
THEOREM TransferBytesAccounted == Spec => []BytesAccounted
  BY TransferInvariant, PTL DEF IInv

=============================================================================
