------------------------ MODULE McpdResourcesProofs ------------------------
(***************************************************************************)
(* Proofs about McpdResources, for any board, any number of clients and    *)
(* whatever they ask for: what a client was told it has stays its own, the *)
(* crosspoint switch connects what the peers have recorded, and no pin is  *)
(* lent twice.  The operations on pins and peripherals leave the main loop *)
(* as McpdDaemon has it, so what McpdDaemonProofs shows holds here too.    *)
(***************************************************************************)
EXTENDS McpdResources, McpdDaemonProofs

ResTypes ==
    /\ owner \in [Periphs -> Tokens \cup {NoToken}]
    /\ driver \in [Periphs -> AllDrivers \cup {NoDriver}]
    /\ resources \in [Tokens -> Seq(Resource)]
    /\ answer \in [Clients -> Nat]
    /\ asked \in [Clients -> OtherRequests \cup {NoRequest}]
    /\ periphs \in [Clients -> SUBSET (Periphs \X AllDrivers)]
    /\ gpios \in [Clients -> SUBSET (Nat \X Pins)]

\* The peripheral and the pin with a number belong to module t.
PeriphOf(t, p, d) == p \in Periphs /\ owner[p] = t /\ driver[p] = d
GpioOf(t, n, x) == /\ n + 1 \in 1 .. Len(resources[t])
                   /\ resources[t][n + 1] = [from |-> NoPin, to |-> x]

HandlesHeld ==
    \A c \in Clients :
        /\ periphs[c] # {} \/ gpios[c] # {} => Holds(c)
        /\ \A h \in periphs[c] : PeriphOf(wants[c], h[1], h[2])
        /\ \A h \in gpios[c] : GpioOf(wants[c], h[1], h[2])

\* A request that will be answered is the one its client waits for.
AskedIsSent ==
    \A c \in Clients : \A i \in 1 .. Len(sock[c]) :
        sock[c][i] \in OtherRequests /\ sock[c][i].op # "gpio_set" =>
            asked[c] = sock[c][i]

\* A number on its way to the client is already good.
AnswersHeld ==
    \A c \in Clients : client[c] = "asking" /\ reply[c] = "ok" =>
        /\ asked[c].op = "resource_acquire" =>
              asked[c].driver \in AllDrivers /\ PeriphOf(wants[c], answer[c], asked[c].driver)
        /\ asked[c].op = "gpio_acquire" =>
              asked[c].pin \in Pins /\ GpioOf(wants[c], answer[c], asked[c].pin)

HandlesInv == HandlesHeld /\ AskedIsSent /\ AnswersHeld

\* Only a module with a client has something.
HeldByConnected ==
    \A t \in Tokens :
        /\ fd[t] = None => resources[t] = <<>> /\ \A p \in Periphs : owner[p] # t
        /\ resources[t] # <<>> => t \in PeerSet

\* A recorded connection is between a pin of an own peripheral and one of another
\* module.
RouteOfOwn(t, e) ==
    \E p \in Periphs : \E k \in DOMAIN Io[p] : \E x \in Pins \ OwnPins :
        owner[p] = t /\ e = RouteOf(p, k, x)

OwnRoutes ==
    \A t \in Tokens : \A i \in 1 .. Len(resources[t]) :
        resources[t][i].from # NoPin => RouteOfOwn(t, resources[t][i])

\* Some peer has recorded the connection x.
Recorded(x) ==
    \E t \in Tokens : \E i \in 1 .. Len(resources[t]) :
        /\ resources[t][i].from # NoPin
        /\ x = <<resources[t][i].from, resources[t][i].to>>

RoutesInv ==
    /\ OwnRoutes
    /\ routes \subseteq Pins \X Pins
    /\ \A x \in Pins \X Pins : x \in routes <=> Recorded(x)

RIInv == ResTypes /\ HandlesInv /\ HeldByConnected /\ RoutesInv /\ GpioPinsLentOnce

(***************************************************************************)
(* The main loop, which these operations leave as it is.                   *)
(***************************************************************************)

\* An operation on pins and peripherals is one that McpdDaemon leaves open, with
\* some answer.
LEMMA OperationIsOther ==
    ASSUME NEW t, ResourceOperation(t)
    PROVE  \E a \in Results \cup {"none"} : ServeOther(t, a)
<1>1. PICK r \in OtherRequests :
         \/ GpioAcquire(t, r) \/ GpioSet(t, r) \/ ResourceRefused(t, r)
         \/ ResourceAcquire(t, r) \/ RouteRefused(t, r) \/ Route(t, r)
         \/ ResourceGetPath(t, r)
  BY DEF ResourceOperation
<1>2. RouteError(t, r) \in Results \cup {"none"}
  BY DEF RouteError, Results
<1>3. \E a \in Results \cup {"none"} : \E n : Answered(t, a, n)
  <2>1. CASE GpioAcquire(t, r)
    BY <2>1 DEF GpioAcquire, Results
  <2>2. CASE GpioSet(t, r)
    BY <2>2 DEF GpioSet, Results
  <2>3. CASE ResourceRefused(t, r)
    BY <2>3 DEF ResourceRefused, Results
  <2>4. CASE ResourceAcquire(t, r)
    BY <2>4 DEF ResourceAcquire, Results
  <2>5. CASE RouteRefused(t, r)
    BY <2>5, <1>2 DEF RouteRefused
  <2>6. CASE Route(t, r)
    BY <2>6 DEF Route, Results
  <2>7. CASE ResourceGetPath(t, r)
    BY <2>7 DEF ResourceGetPath, Results
  <2> QED
    BY <1>1, <2>1, <2>2, <2>3, <2>4, <2>5, <2>6, <2>7
<1> QED
  BY <1>3 DEF Answered

LEMMA StepsOfDaemon == [RNext]_allVars => [Next]_vars
<1> SUFFICES ASSUME [RNext]_allVars PROVE [Next]_vars
  OBVIOUS
<1>1. CASE Elsewhere
  BY <1>1 DEF Elsewhere, Next, Operate, ClientStep
<1>2. CASE \E t \in Tokens : QuitAndRelease(t)
  BY <1>2 DEF QuitAndRelease, Next, Operate
<1>3. CASE \E t \in Tokens : ResourceOperation(t)
  BY <1>3, OperationIsOther DEF Next, Operate
<1>4. CASE \E c \in Clients :
             (\E r \in OtherRequests : Ask(c, r)) \/ AskDone(c) \/ DisconnectAll(c)
  BY <1>4 DEF Ask, AskDone, DisconnectAll, Next, ClientStep
<1>5. CASE UNCHANGED allVars
  BY <1>5 DEF allVars
<1> QED
  BY <1>1, <1>2, <1>3, <1>4, <1>5 DEF RNext

\* The specification with pins and peripherals is one of the main loop, so that
\* everything proved of that loop holds of it: one client per module, answers that
\* match calls, watchers that are told every module (RNext, mcpd.c).
THEOREM ResourcesKeepDaemon == RSpec => Spec
<1>1. RInit => Init
  BY DEF RInit
<1> QED
  BY <1>1, StepsOfDaemon, PTL DEF RSpec, Spec

(***************************************************************************)
(* What the steps of the main loop other than QUIT leave alone.            *)
(***************************************************************************)

Steady ==
    /\ \A c \in Clients : Holds(c) => Holds(c)' /\ wants'[c] = wants[c]
    /\ \A c \in Clients : client'[c] = "asking" => client[c] = "asking"
    /\ \A c \in Clients : client'[c] = "asking" /\ reply'[c] = "ok" => reply[c] = "ok"
    /\ \A c \in Clients : \A i \in 1 .. Len(sock'[c]) :
          sock'[c][i] \in OtherRequests =>
              \E j \in 1 .. Len(sock[c]) : sock'[c][i] = sock[c][j]
    /\ \A t \in Tokens : fd'[t] = None => fd[t] = None
    /\ PeerSet \subseteq PeerSet'

LEMMA QuietIsSteady ==
    ASSUME UNCHANGED <<client, wants, sock, reply, fd, peers>>
    PROVE  Steady
  BY DEF Steady, Holds, PeerSet

\* The slots follow from the number of known modules, which only grows.
LEMMA AddTokensIsSteady == ASSUME IInv, AddTokens PROVE Steady
<1>1. UNCHANGED <<client, wants, sock, reply, fd>>
  BY DEF AddTokens, clientVars
<1>2. PeerSet \subseteq PeerSet'
  <2>1. SlotsInv /\ SlotsInv'
    BY AddTokensKeeps DEF IInv
  <2>2. /\ globalTokenCount \in Nat /\ globalTokenCount' \in Nat
        /\ globalTokenCount <= globalTokenCount'
    BY <2>1, DaemonAssumption DEF SlotsInv, Counts, AddTokens
  <2>3. Len(peers) <= Len(peers')
    <3>1. /\ Len(peers) = IF MyToken < globalTokenCount
                          THEN globalTokenCount - 1 ELSE globalTokenCount
          /\ Len(peers') = IF MyToken < globalTokenCount'
                           THEN globalTokenCount' - 1 ELSE globalTokenCount'
      BY <2>1 DEF SlotsInv, SlotsEnumerateTokens
    <3>2. MyToken \in Nat
      BY DaemonAssumption
    <3> DEFINE n == globalTokenCount
               m == globalTokenCount'
    <3>3. n \in Nat /\ m \in Nat /\ n <= m
      BY <2>2
    <3> HIDE DEF n, m
    <3>4. (IF MyToken < n THEN n - 1 ELSE n) <= (IF MyToken < m THEN m - 1 ELSE m)
      BY <3>2, <3>3
    <3> QED
      BY <3>1, <3>4 DEF n, m
  <2>4. DOMAIN peers = 1 .. Len(peers) /\ DOMAIN peers' = 1 .. Len(peers')
    BY <2>1 DEF SlotsInv
  <2>5. \A i \in DOMAIN peers : i \in DOMAIN peers' /\ peers'[i] = peers[i]
    <3>1. /\ \A i \in DOMAIN peers : peers[i] = IF i <= MyToken THEN i - 1 ELSE i
          /\ \A i \in DOMAIN peers' : peers'[i] = IF i <= MyToken THEN i - 1 ELSE i
      BY <2>1 DEF SlotsInv, SlotsEnumerateTokens
    <3>2. Len(peers) \in Nat /\ Len(peers') \in Nat
      BY <2>1 DEF SlotsInv
    <3> QED
      BY <3>1, <3>2, <2>3, <2>4
  <2> QED
    BY <2>5 DEF PeerSet
<1> QED
  BY <1>1, <1>2 DEF Steady, Holds

LEMMA AcceptClientIsSteady == ASSUME IInv, AcceptClient PROVE Steady
<1> DEFINE b == Head(backlog)
<1>1. backlog # <<>> /\ b \in Connection /\ b = backlog[1] /\ 1 \in 1 .. Len(backlog)
  BY HeadOfBacklog DEF AcceptClient, IInv, ClientsInv, ReadyStays
<1>2. b.fd \in Clients /\ b.token \in Tokens
  BY <1>1 DEF AcceptClient, Connection
<1>3. client[b.fd] = "connecting"
  BY <1>1, <1>2 DEF IInv, ClientsInv, BacklogWaits
<1>4. /\ UNCHANGED <<client, wants, sock, peers>>
      /\ reply' = [reply EXCEPT ![b.fd] = Response(b.token)]
      /\ fd' = IF Response(b.token) = "ok" THEN [fd EXCEPT ![b.token] = b.fd] ELSE fd
  BY DEF AcceptClient
<1> HIDE DEF b
<1>5. \A c \in Clients : client'[c] = "asking" => reply'[c] = reply[c]
  BY <1>3, <1>4
<1>6. \A t \in Tokens : fd'[t] = None => fd[t] = None
  BY <1>2, <1>4, DaemonAssumption DEF IInv, ClientsInv, ClientTypes
<1> QED
  BY <1>4, <1>5, <1>6 DEF Steady, Holds, PeerSet

\* A transfer leaves its client's socket and may answer it.
LEMMA TransferIsSteady ==
    ASSUME IInv, NEW t \in Tokens,
           ServeTransfer(t) \/ ServeTransferAtOnce(t)
    PROVE  Steady
<1> DEFINE c == fd[t]
<1>1. PeerTurn(t) /\ Head(sock[c]).op \in {"read", "write"}
  BY DEF ServeTransfer, ServeTransferAtOnce
<1>2. c \in Clients /\ sock[c] # <<>>
  BY <1>1, TurnOfUser DEF IInv
<1>3. /\ UNCHANGED <<client, wants, fd, peers>>
      /\ sock' = [sock EXCEPT ![c] = Tail(@)]
      /\ Head(sock[c]).op # "read" => reply' = reply
      /\ reply' \in {reply, [reply EXCEPT ![c] = "ok"]}
  BY <1>1 DEF ServeTransfer, ServeTransferAtOnce, Serve
<1>4. Head(sock[c]).op = "read" => client[c] = "reading"
  BY <1>2, HeadOfSocket DEF IInv
<1>5. /\ Len(sock[c]) \in Nat \ {0}
      /\ Len(Tail(sock[c])) = Len(sock[c]) - 1
      /\ \A i \in 1 .. Len(Tail(sock[c])) : Tail(sock[c])[i] = sock[c][i + 1]
  BY <1>2, HeadOfSocket DEF IInv
<1> HIDE DEF c
<1>6. \A d \in Clients : client'[d] = "asking" => reply'[d] = reply[d]
  BY <1>3, <1>4 DEF IInv, ClientsInv, ClientTypes
<1>7. \A d \in Clients : \A i \in 1 .. Len(sock'[d]) :
         \E j \in 1 .. Len(sock[d]) : sock'[d][i] = sock[d][j]
  <2> SUFFICES ASSUME NEW d \in Clients, NEW i \in 1 .. Len(sock'[d])
               PROVE  \E j \in 1 .. Len(sock[d]) : sock'[d][i] = sock[d][j]
    OBVIOUS
  <2>1. sock \in [Clients -> Seq(Requests)]
    BY DEF IInv, ClientsInv, ClientTypes
  <2>2. CASE d = c
    <3>1. sock'[d] = Tail(sock[c])
      BY <1>3, <2>1, <2>2
    <3>2. i + 1 \in 1 .. Len(sock[d]) /\ sock'[d][i] = sock[d][i + 1]
      BY <3>1, <1>5, <2>2
    <3> QED
      BY <3>2
  <2>3. CASE d # c
    BY <1>3, <2>1, <2>3
  <2> QED
    BY <2>2, <2>3
<1> QED
  BY <1>3, <1>6, <1>7 DEF Steady, Holds, PeerSet

LEMMA DoneIsSteady == ASSUME IInv, NEW t \in Tokens, TransferDone(t) PROVE Steady
<1>1. UNCHANGED <<client, wants, sock, fd, peers>> /\ reply' = DoneReply(t)
  BY DEF TransferDone
<1>2. isDoing[t] = "read" => client[fd[t]] = "reading"
  BY DEF IInv, ClientsInv, TransfersOfUsers
<1>3. \A d \in Clients : client'[d] = "asking" => reply'[d] = reply[d]
  BY <1>1, <1>2 DEF DoneReply
<1> QED
  BY <1>1, <1>3 DEF Steady, Holds, PeerSet

LEMMA CallersAreSteady ==
    ASSUME IInv, NEW c \in Clients,
           \/ \E t \in Tokens : Connect(c, t)
           \/ Connected(c) \/ RequestWrite(c) \/ RequestRead(c) \/ Disconnected(c)
    PROVE  Steady
<1>0. /\ client \in [Clients -> ClientStates] /\ sock \in [Clients -> Seq(Requests)]
      /\ wants \in [Clients -> Tokens] /\ reply \in [Clients -> Results \cup {"none"}]
  BY DEF IInv, ClientsInv, ClientTypes
<1>1. CASE \E t \in Tokens : Connect(c, t)
  <2>1. PICK t \in Tokens : Connect(c, t)
    BY <1>1
  <2> QED
    BY <2>1, <1>0 DEF Connect, Steady, Holds, PeerSet, daemonVars
<1>2. CASE Connected(c)
  BY <1>2, <1>0 DEF Connected, Steady, Holds, PeerSet, daemonVars
<1>3. CASE RequestWrite(c) \/ RequestRead(c)
  <2>1. PICK r \in {[op |-> "write"], [op |-> "read"]}, after \in {"open", "reading"} :
           Request(c, r, after)
    BY <1>3 DEF RequestWrite, RequestRead
  <2>2. r \notin OtherRequests
    BY DaemonAssumption
  <2>3. sock' = [sock EXCEPT ![c] = Append(@, r)] /\ r \in Requests
    BY <2>1 DEF Request, Requests
  <2>4. \A d \in Clients : \A i \in 1 .. Len(sock'[d]) :
           sock'[d][i] \in OtherRequests =>
               \E j \in 1 .. Len(sock[d]) : sock'[d][i] = sock[d][j]
    <3> SUFFICES ASSUME NEW d \in Clients, NEW i \in 1 .. Len(sock'[d]),
                        sock'[d][i] \in OtherRequests
                 PROVE  \E j \in 1 .. Len(sock[d]) : sock'[d][i] = sock[d][j]
      OBVIOUS
    <3>1. CASE d = c
      <4>1. /\ Len(sock'[c]) = Len(sock[c]) + 1 /\ Len(sock[c]) \in Nat
            /\ \A j \in 1 .. Len(sock[c]) : sock'[c][j] = sock[c][j]
            /\ sock'[c][Len(sock[c]) + 1] = r
        BY <2>3, <1>0
      <4> QED
        BY <4>1, <3>1, <2>2
    <3>2. CASE d # c
      BY <3>2, <2>3, <1>0
    <3> QED
      BY <3>1, <3>2
  <2>5. /\ client[c] = "open" /\ client' = [client EXCEPT ![c] = after]
        /\ UNCHANGED <<wants, reply, fd, peers>>
    BY <2>1 DEF Request, daemonVars
  <2> QED
    BY <2>4, <2>5, <1>0 DEF Steady, Holds, PeerSet
<1>4. CASE Disconnected(c)
  BY <1>4, <1>0 DEF Disconnected, Steady, Holds, PeerSet, daemonVars
<1> QED
  BY <1>1, <1>2, <1>3, <1>4

LEMMA ElsewhereIsSteady == ASSUME IInv, Elsewhere PROVE Steady
<1>1. CASE ModuleArrives
  BY <1>1, QuietIsSteady DEF ModuleArrives, daemonVars, clientVars
<1>2. CASE MainLoop
  <2>1. CASE AddTokens
    BY <2>1, AddTokensIsSteady
  <2>2. CASE AcceptClient
    BY <2>2, AcceptClientIsSteady
  <2>3. CASE PollerPresence
    BY <2>3, QuietIsSteady DEF PollerPresence, daemonVars, clientVars
  <2>4. CASE WriteToken
    BY <2>4, QuietIsSteady DEF WriteToken, clientVars
  <2>5. CASE WriteToClosed \/ WatcherUpToDate
    BY <2>5, QuietIsSteady DEF WriteToClosed, WatcherUpToDate, clientVars
  <2>6. CASE Poll \/ AcceptWatcher
    BY <2>6, QuietIsSteady DEF Poll, AcceptWatcher, clientVars
  <2>7. CASE \E i \in DOMAIN watch :
               \/ WatcherHungUp(i) \/ FreshReadsZero(i) \/ FreshReadsPollout(i)
               \/ FreshReadsPollhup(i) \/ FreshReadsOther(i)
    BY <2>7, QuietIsSteady DEF WatcherHungUp, FreshReadsZero, FreshReadsPollout,
       FreshReadsPollhup, FreshReadsOther, clientVars
  <2> QED
    BY <1>2, <2>1, <2>2, <2>3, <2>4, <2>5, <2>6, <2>7 DEF MainLoop
<1>3. CASE \E t \in Tokens : \/ ServeTransfer(t) \/ ServeTransferAtOnce(t)
                             \/ TransferDone(t)
  BY <1>3, TransferIsSteady, DoneIsSteady
<1>4. CASE \E c \in Clients : \/ \E t \in Tokens : Connect(c, t)
                              \/ Connected(c) \/ RequestWrite(c) \/ RequestRead(c)
                              \/ Disconnected(c)
  BY <1>4, CallersAreSteady
<1>5. CASE \E w \in Watchers : WatcherStep(w)
  BY <1>5, QuietIsSteady DEF WatcherStep, WatchCreate, WatchWait, WatchDestroy, daemonVars,
     clientVars
<1> QED
  BY <1>1, <1>2, <1>3, <1>4, <1>5 DEF Elsewhere

(***************************************************************************)
(* The steps in which nobody gains or loses anything.                      *)
(***************************************************************************)

LEMMA SteadyKeepsHandles ==
    ASSUME IInv, HandlesInv, Steady, UNCHANGED resVars
    PROVE  HandlesInv'
<1>1. UNCHANGED <<owner, driver, resources, answer, asked, periphs, gpios>>
  BY DEF resVars, handleVars
<1>2. \A u, p, d : PeriphOf(u, p, d) => PeriphOf(u, p, d)'
  BY <1>1 DEF PeriphOf
<1>3. \A u, n, x : GpioOf(u, n, x) => GpioOf(u, n, x)'
  BY <1>1 DEF GpioOf
<1>4. HandlesHeld'
  <2> SUFFICES ASSUME NEW c \in Clients
               PROVE  /\ periphs[c] # {} \/ gpios[c] # {} => Holds(c)'
                      /\ \A h \in periphs[c] : PeriphOf(wants[c], h[1], h[2])'
                      /\ \A h \in gpios[c] : GpioOf(wants[c], h[1], h[2])'
    BY <1>1 DEF HandlesHeld
  <2>1. CASE periphs[c] = {} /\ gpios[c] = {}
    BY <2>1
  <2>2. CASE periphs[c] # {} \/ gpios[c] # {}
    <3>1. Holds(c)
      BY <2>2 DEF HandlesInv, HandlesHeld
    <3>2. Holds(c)' /\ wants'[c] = wants[c]
      BY <3>1 DEF Steady
    <3>3. /\ \A h \in periphs[c] : PeriphOf(wants[c], h[1], h[2])
          /\ \A h \in gpios[c] : GpioOf(wants[c], h[1], h[2])
      BY DEF HandlesInv, HandlesHeld
    <3>4. /\ \A h \in periphs[c] : PeriphOf(wants[c], h[1], h[2])'
          /\ \A h \in gpios[c] : GpioOf(wants[c], h[1], h[2])'
      BY <3>2, <3>3, <1>1 DEF PeriphOf, GpioOf
    <3> QED
      BY <3>2, <3>4
  <2> QED
    BY <2>1, <2>2
<1>5. AskedIsSent'
  BY <1>1 DEF HandlesInv, AskedIsSent, Steady
<1>6. AnswersHeld'
  <2> SUFFICES ASSUME NEW c \in Clients, client'[c] = "asking", reply'[c] = "ok"
               PROVE  /\ asked[c].op = "resource_acquire" =>
                           /\ asked[c].driver \in AllDrivers
                           /\ PeriphOf(wants[c], answer[c], asked[c].driver)'
                      /\ asked[c].op = "gpio_acquire" =>
                           asked[c].pin \in Pins /\ GpioOf(wants[c], answer[c], asked[c].pin)'
    BY <1>1 DEF AnswersHeld
  <2>1. client[c] = "asking" /\ reply[c] = "ok"
    BY DEF Steady
  <2>2. wants'[c] = wants[c]
    BY <2>1 DEF Steady, Holds
  <2> QED
    BY <1>1, <2>1, <2>2 DEF HandlesInv, AnswersHeld, PeriphOf, GpioOf
<1> QED
  BY <1>4, <1>5, <1>6 DEF HandlesInv

LEMMA SteadyKeeps ==
    ASSUME IInv, RIInv, Steady, UNCHANGED resVars
    PROVE  RIInv'
<1>1. UNCHANGED <<owner, driver, resources, routes, answer, asked, periphs, gpios>>
  BY DEF resVars, handleVars
<1>2. HandlesInv'
  BY SteadyKeepsHandles DEF RIInv
<1>3. ResTypes'
  BY <1>1 DEF RIInv, ResTypes
<1>4. HeldByConnected'
  BY <1>1 DEF RIInv, HeldByConnected, Steady
<1>5. RoutesInv' /\ GpioPinsLentOnce'
  BY <1>1 DEF RIInv, RoutesInv, OwnRoutes, RouteOfOwn, Recorded, GpioPinsLentOnce
<1> QED
  BY <1>2, <1>3, <1>4, <1>5 DEF RIInv

(***************************************************************************)
(* QUIT.                                                                   *)
(***************************************************************************)

\* A client that holds a module, and the slot of that module.
LEMMA HolderHasSlot ==
    ASSUME IInv, NEW c \in Clients, Holds(c)
    PROVE  wants[c] \in Tokens /\ fd[wants[c]] = c
  BY DEF IInv, ClientsInv, ClientTypes, SlotsAreUsed, Uses

\* What QUIT does to the client and to all others.
LEMMA QuitFacts ==
    ASSUME IInv, NEW t \in Tokens, ServeQuit(t), NEW c, c = fd[t]
    PROVE  /\ c \in Clients /\ client[c] = "quitting"
           /\ UNCHANGED <<client, wants, peers>>
           /\ fd' = [fd EXCEPT ![t] = None]
           /\ Len(sock'[c]) = 0
           /\ \A d \in Clients : d # c => sock'[d] = sock[d] /\ reply'[d] = reply[d]
           /\ \A d \in Clients : Holds(d) => wants[d] # t
<1>0. /\ sock \in [Clients -> Seq(Requests)] /\ reply \in [Clients -> Results \cup {"none"}]
  BY DEF IInv, ClientsInv, ClientTypes
<1>1. c \in Clients /\ sock[c] # <<>>
  BY TurnOfUser DEF ServeQuit, IInv
<1>2. /\ UNCHANGED <<client, wants, peers>> /\ fd' = [fd EXCEPT ![t] = None]
      /\ sock' = [sock EXCEPT ![c] = Tail(@)] /\ reply' = [reply EXCEPT ![c] = "ok"]
  BY DEF ServeQuit, Serve
<1>3. /\ client[c] = "quitting" /\ Len(sock[c]) = 1
      /\ Len(Tail(sock[c])) = Len(sock[c]) - 1
  BY <1>1, HeadOfSocket DEF ServeQuit, IInv
<1>4. ASSUME NEW d \in Clients, Holds(d) PROVE wants[d] # t
  <2>1. fd[wants[d]] = d
    BY <1>4, HolderHasSlot
  <2> QED
    BY <2>1, <1>3, <1>4 DEF Holds
<1> QED
  BY <1>0, <1>1, <1>2, <1>3, <1>4

LEMMA QuitKeepsHandles ==
    ASSUME IInv, RIInv, NEW t \in Tokens, QuitAndRelease(t)
    PROVE  HandlesInv'
<1> DEFINE c == fd[t]
<1>1. /\ c \in Clients /\ client[c] = "quitting"
      /\ UNCHANGED <<client, wants, peers>>
      /\ Len(sock'[c]) = 0
      /\ \A d \in Clients : d # c => sock'[d] = sock[d] /\ reply'[d] = reply[d]
      /\ \A d \in Clients : Holds(d) => wants[d] # t
  BY QuitFacts DEF QuitAndRelease
<1> HIDE DEF c
<1>2. /\ owner' = OwnersWithout(t) /\ resources' = [resources EXCEPT ![t] = <<>>]
      /\ UNCHANGED <<driver, answer, asked, periphs, gpios>>
  BY DEF QuitAndRelease, handleVars
<1>3. \A u \in Tokens \ {t} : \A p, d : PeriphOf(u, p, d) => PeriphOf(u, p, d)'
  BY <1>2 DEF PeriphOf, OwnersWithout
<1>4. \A u \in Tokens \ {t} : \A n, x : GpioOf(u, n, x) => GpioOf(u, n, x)'
  BY <1>2 DEF GpioOf, RIInv, ResTypes
<1>5. \A d \in Clients : Holds(d) => Holds(d)' /\ wants[d] \in Tokens \ {t}
  BY <1>1, HolderHasSlot DEF Holds
<1>6. HandlesHeld'
  <2> SUFFICES ASSUME NEW d \in Clients
               PROVE  /\ periphs[d] # {} \/ gpios[d] # {} => Holds(d)'
                      /\ \A h \in periphs[d] : PeriphOf(wants[d], h[1], h[2])'
                      /\ \A h \in gpios[d] : GpioOf(wants[d], h[1], h[2])'
    BY <1>2 DEF HandlesHeld
  <2>1. CASE periphs[d] = {} /\ gpios[d] = {}
    BY <2>1
  <2>2. CASE periphs[d] # {} \/ gpios[d] # {}
    <3>1. Holds(d) /\ /\ \A h \in periphs[d] : PeriphOf(wants[d], h[1], h[2])
                      /\ \A h \in gpios[d] : GpioOf(wants[d], h[1], h[2])
      BY <2>2 DEF RIInv, HandlesInv, HandlesHeld
    <3>2. \A u : u = wants[d] =>
             /\ \A h \in periphs[d] : PeriphOf(u, h[1], h[2])'
             /\ \A h \in gpios[d] : GpioOf(u, h[1], h[2])'
      BY <3>1, <1>3, <1>4, <1>5
    <3>3. wants'[d] = wants[d]
      BY <1>1
    <3> QED
      BY <3>1, <3>2, <3>3, <1>5 DEF PeriphOf, GpioOf
  <2> QED
    BY <2>1, <2>2
<1>7. AskedIsSent'
  <2> SUFFICES ASSUME NEW d \in Clients, NEW i \in 1 .. Len(sock'[d])
               PROVE  sock'[d][i] \in OtherRequests /\ sock'[d][i].op # "gpio_set" =>
                         asked[d] = sock'[d][i]
    BY <1>2 DEF AskedIsSent
  <2>1. d # c
    BY <1>1
  <2> QED
    BY <2>1, <1>1 DEF RIInv, HandlesInv, AskedIsSent
<1>8. AnswersHeld'
  <2> SUFFICES ASSUME NEW d \in Clients, client[d] = "asking", reply'[d] = "ok"
               PROVE  /\ asked[d].op = "resource_acquire" =>
                           /\ asked[d].driver \in AllDrivers
                           /\ PeriphOf(wants[d], answer[d], asked[d].driver)'
                      /\ asked[d].op = "gpio_acquire" =>
                           asked[d].pin \in Pins /\ GpioOf(wants[d], answer[d], asked[d].pin)'
    BY <1>1, <1>2 DEF AnswersHeld
  <2>1. reply[d] = "ok"
    BY <1>1
  <2>2. wants'[d] = wants[d] /\ wants[d] \in Tokens \ {t}
    BY <1>1, <1>5 DEF Holds
  <2>3. /\ asked[d].op = "resource_acquire" =>
             /\ asked[d].driver \in AllDrivers
             /\ PeriphOf(wants[d], answer[d], asked[d].driver)
        /\ asked[d].op = "gpio_acquire" =>
             asked[d].pin \in Pins /\ GpioOf(wants[d], answer[d], asked[d].pin)
    BY <2>1 DEF RIInv, HandlesInv, AnswersHeld
  <2>4. \A u, n, a : u = wants[d] /\ n = answer[d] /\ a = asked[d] =>
           /\ a.op = "resource_acquire" => PeriphOf(u, n, a.driver)'
           /\ a.op = "gpio_acquire" => GpioOf(u, n, a.pin)'
    BY <2>2, <2>3, <1>3, <1>4
  <2> QED
    BY <2>2, <2>3, <2>4, <1>2 DEF PeriphOf, GpioOf
<1> QED
  BY <1>6, <1>7, <1>8 DEF HandlesInv

\* A pair has one pin of the daemon's and it tells the peripheral, so the peer:
\* no other peer has recorded what this one has.
LEMMA RouteTellsPeer ==
    ASSUME NEW t \in Tokens, NEW u \in Tokens, NEW e, NEW f,
           RouteOfOwn(t, e), RouteOfOwn(u, f), e.from = f.from, e.to = f.to
    PROVE  t = u
<1>1. PICK p \in Periphs : \E k \in DOMAIN Io[p] : \E x \in Pins \ OwnPins :
         owner[p] = t /\ e = RouteOf(p, k, x)
  BY DEF RouteOfOwn
<1>2. PICK k \in DOMAIN Io[p] : \E x \in Pins \ OwnPins :
         owner[p] = t /\ e = RouteOf(p, k, x)
  BY <1>1
<1>3. PICK x \in Pins \ OwnPins : owner[p] = t /\ e = RouteOf(p, k, x)
  BY <1>2
<1>4. PICK q \in Periphs : \E l \in DOMAIN Io[q] : \E y \in Pins \ OwnPins :
         owner[q] = u /\ f = RouteOf(q, l, y)
  BY DEF RouteOfOwn
<1>5. PICK l \in DOMAIN Io[q] : \E y \in Pins \ OwnPins :
         owner[q] = u /\ f = RouteOf(q, l, y)
  BY <1>4
<1>6. PICK y \in Pins \ OwnPins : owner[q] = u /\ f = RouteOf(q, l, y)
  BY <1>5
<1>7. Io[p][k].pin \in OwnPins /\ Io[q][l].pin \in OwnPins
  BY ResourceAssumption
<1>8. \/ e.from = x /\ e.to = Io[p][k].pin
      \/ e.from = Io[p][k].pin /\ e.to = x
  BY <1>3 DEF RouteOf
<1>9. \/ f.from = y /\ f.to = Io[q][l].pin
      \/ f.from = Io[q][l].pin /\ f.to = y
  BY <1>6 DEF RouteOf
<1>10. Io[p][k].pin = Io[q][l].pin
  BY <1>7, <1>8, <1>9
<1>11. p = q
  BY <1>10, BoardAssumption
<1> QED
  BY <1>3, <1>6, <1>11

LEMMA EntryType ==
    ASSUME ResTypes, NEW t \in Tokens, NEW i \in 1 .. Len(resources[t])
    PROVE  resources[t][i] \in Resource
  BY DEF ResTypes

LEMMA QuitKeepsRoutes ==
    ASSUME IInv, RIInv, NEW t \in Tokens, QuitAndRelease(t)
    PROVE  RoutesInv'
<1>1. /\ owner' = OwnersWithout(t) /\ resources' = [resources EXCEPT ![t] = <<>>]
      /\ routes' = RoutesWithout(t) /\ resources \in [Tokens -> Seq(Resource)]
  BY DEF QuitAndRelease, RIInv, ResTypes
<1>2. /\ Len(resources'[t]) = 0
      /\ \A u \in Tokens : u # t => resources'[u] = resources[u]
  BY <1>1
<1>3. ASSUME NEW u \in Tokens, u # t, NEW e, RouteOfOwn(u, e) PROVE RouteOfOwn(u, e)'
  BY <1>3, <1>1 DEF RouteOfOwn, OwnersWithout
<1>4. OwnRoutes'
  BY <1>2, <1>3 DEF RIInv, RoutesInv, OwnRoutes
<1>5. DOMAIN resources[t] = 1 .. Len(resources[t])
  BY <1>1
<1>6. \A x : x \in routes' <=>
         /\ x \in routes
         /\ \A i \in 1 .. Len(resources[t]) :
               x # <<resources[t][i].from, resources[t][i].to>>
  BY <1>1, <1>5 DEF RoutesWithout
<1>7. ASSUME NEW x \in Pins \X Pins PROVE x \in routes' <=> Recorded(x)'
  <2>1. ASSUME x \in routes' PROVE Recorded(x)'
    <3>1. Recorded(x)
      BY <2>1, <1>6 DEF RIInv, RoutesInv
    <3>2. PICK u \in Tokens : \E i \in 1 .. Len(resources[u]) :
             /\ resources[u][i].from # NoPin
             /\ x = <<resources[u][i].from, resources[u][i].to>>
      BY <3>1 DEF Recorded
    <3>3. u # t
      BY <2>1, <1>6, <3>2
    <3> QED
      BY <3>2, <3>3, <1>2 DEF Recorded
  <2>2. ASSUME Recorded(x)' PROVE x \in routes'
    <3>1. PICK u \in Tokens : \E i \in 1 .. Len(resources'[u]) :
             /\ resources'[u][i].from # NoPin
             /\ x = <<resources'[u][i].from, resources'[u][i].to>>
      BY <2>2 DEF Recorded
    <3>2. u # t
      BY <3>1, <1>2
    <3>3. PICK i \in 1 .. Len(resources[u]) :
             /\ resources[u][i].from # NoPin
             /\ x = <<resources[u][i].from, resources[u][i].to>>
      BY <3>1, <3>2, <1>2
    <3>4. x \in routes
      BY <3>3 DEF RIInv, RoutesInv, Recorded
    <3>5. ASSUME NEW j \in 1 .. Len(resources[t])
          PROVE  x # <<resources[t][j].from, resources[t][j].to>>
      <4>1. SUFFICES ASSUME x = <<resources[t][j].from, resources[t][j].to>> PROVE FALSE
        OBVIOUS
      <4>2. /\ resources[t][j].from = resources[u][i].from
            /\ resources[t][j].to = resources[u][i].to
        BY <4>1, <3>3
      <4>3. RouteOfOwn(t, resources[t][j]) /\ RouteOfOwn(u, resources[u][i])
        BY <4>2, <3>3 DEF RIInv, RoutesInv, OwnRoutes
      <4> QED
        BY <4>2, <4>3, <3>2, RouteTellsPeer
    <3> QED
      BY <3>4, <3>5, <1>6
  <2> QED
    BY <2>1, <2>2
<1>8. routes' \subseteq Pins \X Pins
  BY <1>6 DEF RIInv, RoutesInv
<1> QED
  BY <1>4, <1>7, <1>8 DEF RoutesInv

LEMMA QuitKeepsAll ==
    ASSUME IInv, RIInv, NEW t \in Tokens, QuitAndRelease(t)
    PROVE  RIInv'
<1>1. /\ owner' = OwnersWithout(t) /\ resources' = [resources EXCEPT ![t] = <<>>]
      /\ UNCHANGED <<driver, answer, asked, periphs, gpios>>
      /\ resources \in [Tokens -> Seq(Resource)]
  BY DEF QuitAndRelease, handleVars, RIInv, ResTypes
<1>2. /\ resources'[t] = <<>> /\ Len(resources'[t]) = 0
      /\ \A u \in Tokens : u # t => resources'[u] = resources[u]
  BY <1>1
<1>3. ResTypes'
  <2>1. owner' \in [Periphs -> Tokens \cup {NoToken}]
    BY <1>1 DEF OwnersWithout, RIInv, ResTypes
  <2>2. resources' \in [Tokens -> Seq(Resource)]
    BY <1>1
  <2> QED
    BY <2>1, <2>2, <1>1 DEF RIInv, ResTypes
<1>4. HeldByConnected'
  <2>1. fd' = [fd EXCEPT ![t] = None] /\ PeerSet' = PeerSet
    BY DEF QuitAndRelease, ServeQuit, PeerSet
  <2>2. \A u \in Tokens : u # t => fd'[u] = fd[u]
    BY <2>1 DEF IInv, ClientsInv, ClientTypes
  <2>3. \A u \in Tokens : u # t =>
           \A p \in Periphs : owner[p] # u => owner'[p] # u
    BY <1>1, DaemonAssumption DEF OwnersWithout, NoToken, Tokens
  <2>4. \A p \in Periphs : owner'[p] # t
    BY <1>1, DaemonAssumption DEF OwnersWithout, NoToken, Tokens
  <2> QED
    BY <1>2, <2>1, <2>2, <2>3, <2>4 DEF RIInv, HeldByConnected
<1>5. GpioPinsLentOnce'
  <2>1. DOMAIN resources'[t] = {}
    BY <1>2
  <2> QED
    BY <1>2, <2>1 DEF RIInv, GpioPinsLentOnce
<1> QED
  BY <1>3, <1>4, <1>5, QuitKeepsHandles, QuitKeepsRoutes DEF RIInv

(***************************************************************************)
(* The operations on pins and peripherals.                                 *)
(***************************************************************************)

\* The answer to a request: its client waits for it and for nothing else.
LEMMA AnsweredFacts ==
    ASSUME IInv, RIInv, NEW t \in Tokens, NEW r, NEW result \in Results \cup {"none"},
           NEW number, Serving(t, r), Answered(t, result, number), NEW c, c = fd[t]
    PROVE  /\ c \in Clients /\ wants[c] = t /\ t \in PeerSet /\ fd[t] # None
           /\ UNCHANGED <<client, wants, fd, peers, asked, periphs, gpios>>
           /\ answer' = [answer EXCEPT ![c] = number]
           /\ result # "none" => client[c] = "asking" /\ asked[c] = r /\ reply'[c] = result
           /\ result = "none" => reply' = reply /\ reply[c] = "none"
           /\ \A d \in Clients : d # c => reply'[d] = reply[d]
           /\ \A d \in Clients : \A i \in 1 .. Len(sock'[d]) :
                 \E j \in 1 .. Len(sock[d]) : sock'[d][i] = sock[d][j]
<1>0. /\ sock \in [Clients -> Seq(Requests)] /\ reply \in [Clients -> Results \cup {"none"}]
  BY DEF IInv, ClientsInv, ClientTypes
<1>1. /\ c \in Clients /\ wants[c] = t /\ sock[c] # <<>> /\ reply[c] = "none"
  BY TurnOfUser DEF Serving, IInv
<1>2. t \in PeerSet
  BY DEF Serving, PeerTurn, PeerSet
<1>3. fd[t] # None
  BY <1>1, DaemonAssumption
<1>4. /\ UNCHANGED <<client, wants, fd, peers, asked, periphs, gpios>>
      /\ answer' = [answer EXCEPT ![c] = number]
      /\ sock' = [sock EXCEPT ![c] = Tail(@)]
      /\ reply' = IF result = "none" THEN reply ELSE [reply EXCEPT ![c] = result]
      /\ r = Head(sock[c]) /\ r \in OtherRequests
      /\ result = "none" <=> r.op = "gpio_set"
  BY DEF Answered, ServeOther, Serve, handleVars, Serving
<1>5. /\ Head(sock[c]) = sock[c][1]
      /\ Len(sock[c]) \in Nat \ {0}
      /\ Len(Tail(sock[c])) = Len(sock[c]) - 1
      /\ \A i \in 1 .. Len(Tail(sock[c])) : Tail(sock[c])[i] = sock[c][i + 1]
      /\ Head(sock[c]) \in OtherRequests /\ Head(sock[c]).op # "gpio_set" =>
            client[c] = "asking" /\ Len(sock[c]) = 1
  BY <1>1, HeadOfSocket DEF IInv
<1>6. result # "none" => client[c] = "asking" /\ asked[c] = r
  <2>1. 1 \in 1 .. Len(sock[c])
    BY <1>5
  <2> QED
    BY <2>1, <1>1, <1>4, <1>5 DEF RIInv, HandlesInv, AskedIsSent
<1>7. ASSUME NEW d \in Clients, NEW i \in 1 .. Len(sock'[d])
      PROVE  \E j \in 1 .. Len(sock[d]) : sock'[d][i] = sock[d][j]
  <2>1. CASE d = c
    <3>1. sock'[d] = Tail(sock[c])
      BY <1>0, <1>4, <2>1
    <3>2. i + 1 \in 1 .. Len(sock[d]) /\ sock'[d][i] = sock[d][i + 1]
      BY <3>1, <1>5, <2>1
    <3> QED
      BY <3>2
  <2>2. CASE d # c
    BY <1>0, <1>4, <2>2
  <2> QED
    BY <2>1, <2>2
<1>8. /\ \A d \in Clients : d # c => reply'[d] = reply[d]
      /\ result # "none" => reply'[c] = result
      /\ result = "none" => reply' = reply
  BY <1>0, <1>1, <1>4
<1> QED
  BY <1>1, <1>2, <1>3, <1>4, <1>6, <1>7, <1>8

\* If nobody loses anything and the number of an OK is good, the handles stay good.
LEMMA AnsweredKeepsHandles ==
    ASSUME IInv, RIInv, NEW t \in Tokens, NEW r, NEW result \in Results \cup {"none"},
           NEW number, Serving(t, r), Answered(t, result, number),
           \A u \in Tokens : \A p, d : PeriphOf(u, p, d) => PeriphOf(u, p, d)',
           \A u \in Tokens : \A n, x : GpioOf(u, n, x) => GpioOf(u, n, x)',
           result = "ok" /\ r.op = "resource_acquire" =>
               r.driver \in AllDrivers /\ PeriphOf(t, number, r.driver)',
           result = "ok" /\ r.op = "gpio_acquire" =>
               r.pin \in Pins /\ GpioOf(t, number, r.pin)'
    PROVE  HandlesInv'
<1> DEFINE c == fd[t]
<1>1. /\ c \in Clients /\ wants[c] = t /\ t \in PeerSet /\ fd[t] # None
      /\ UNCHANGED <<client, wants, fd, peers, asked, periphs, gpios>>
      /\ answer' = [answer EXCEPT ![c] = number]
      /\ result # "none" => client[c] = "asking" /\ asked[c] = r /\ reply'[c] = result
      /\ result = "none" => reply' = reply /\ reply[c] = "none"
      /\ \A d \in Clients : d # c => reply'[d] = reply[d]
      /\ \A d \in Clients : \A i \in 1 .. Len(sock'[d]) :
            \E j \in 1 .. Len(sock[d]) : sock'[d][i] = sock[d][j]
  BY AnsweredFacts
<1> HIDE DEF c
<1>2. wants \in [Clients -> Tokens] /\ answer \in [Clients -> Nat]
  BY DEF IInv, ClientsInv, ClientTypes, RIInv, ResTypes
<1>3. HandlesHeld'
  <2> SUFFICES ASSUME NEW d \in Clients
               PROVE  /\ periphs[d] # {} \/ gpios[d] # {} => Holds(d)
                      /\ \A h \in periphs[d] : PeriphOf(wants[d], h[1], h[2])'
                      /\ \A h \in gpios[d] : GpioOf(wants[d], h[1], h[2])'
    BY <1>1 DEF HandlesHeld, Holds
  <2>1. /\ periphs[d] # {} \/ gpios[d] # {} => Holds(d)
        /\ \A h \in periphs[d] : PeriphOf(wants[d], h[1], h[2])
        /\ \A h \in gpios[d] : GpioOf(wants[d], h[1], h[2])
    BY DEF RIInv, HandlesInv, HandlesHeld
  <2>2. \A u : u = wants[d] =>
           /\ \A h \in periphs[d] : PeriphOf(u, h[1], h[2])'
           /\ \A h \in gpios[d] : GpioOf(u, h[1], h[2])'
    BY <2>1, <1>2
  <2> QED
    BY <2>1, <2>2, <1>1 DEF PeriphOf, GpioOf
<1>4. AskedIsSent'
  <2> SUFFICES ASSUME NEW d \in Clients, NEW i \in 1 .. Len(sock'[d]),
                      sock'[d][i] \in OtherRequests, sock'[d][i].op # "gpio_set"
               PROVE  asked[d] = sock'[d][i]
    BY <1>1 DEF AskedIsSent
  <2>1. PICK j \in 1 .. Len(sock[d]) : sock'[d][i] = sock[d][j]
    BY <1>1
  <2> QED
    BY <2>1 DEF RIInv, HandlesInv, AskedIsSent
<1>5. AnswersHeld'
  <2> SUFFICES ASSUME NEW d \in Clients, client[d] = "asking", reply'[d] = "ok"
               PROVE  /\ asked[d].op = "resource_acquire" =>
                           /\ asked[d].driver \in AllDrivers
                           /\ PeriphOf(wants[d], answer[d], asked[d].driver)'
                      /\ asked[d].op = "gpio_acquire" =>
                           asked[d].pin \in Pins /\ GpioOf(wants[d], answer[d], asked[d].pin)'
    BY <1>1 DEF AnswersHeld
  <2>1. CASE d = c
    <3>1. result = "ok" /\ asked[d] = r
      BY <1>1, <2>1
    <3>2. wants'[d] = t /\ answer'[d] = number
      BY <1>1, <1>2, <2>1
    <3>3. \A u, n, a : u = wants'[d] /\ n = answer'[d] /\ a = asked[d] =>
             /\ a.op = "resource_acquire" =>
                   a.driver \in AllDrivers /\ PeriphOf(u, n, a.driver)'
             /\ a.op = "gpio_acquire" => a.pin \in Pins /\ GpioOf(u, n, a.pin)'
      BY <3>1, <3>2
    <3>4. asked'[d] = asked[d]
      BY <1>1
    <3> QED
      BY <3>3, <3>4 DEF PeriphOf, GpioOf
  <2>2. CASE d # c
    <3>1. /\ asked[d].op = "resource_acquire" =>
               /\ asked[d].driver \in AllDrivers
               /\ PeriphOf(wants[d], answer[d], asked[d].driver)
          /\ asked[d].op = "gpio_acquire" =>
               asked[d].pin \in Pins /\ GpioOf(wants[d], answer[d], asked[d].pin)
      BY <1>1, <2>2 DEF RIInv, HandlesInv, AnswersHeld
    <3>2. \A u, n, a : u = wants[d] /\ n = answer[d] /\ a = asked[d] =>
             /\ a.op = "resource_acquire" => PeriphOf(u, n, a.driver)'
             /\ a.op = "gpio_acquire" => GpioOf(u, n, a.pin)'
      BY <3>1, <1>2
    <3>3. wants'[d] = wants[d] /\ answer'[d] = answer[d] /\ asked' = asked
      BY <1>1, <1>2, <2>2
    <3> QED
      BY <3>1, <3>2, <3>3 DEF PeriphOf, GpioOf
  <2> QED
    BY <2>1, <2>2
<1> QED
  BY <1>3, <1>4, <1>5 DEF HandlesInv

\* What a request that changes no resource leaves.
LEMMA QuietRequestKeeps ==
    ASSUME IInv, RIInv, NEW t \in Tokens, NEW r, NEW result \in Results \cup {"none"},
           NEW number \in Nat, Serving(t, r), Answered(t, result, number),
           result = "ok" => r.op = "resource_get_path",
           UNCHANGED <<owner, driver, resources, routes>>
    PROVE  RIInv'
<1>1. UNCHANGED <<client, wants, fd, peers, asked, periphs, gpios>>
      /\ answer' = [answer EXCEPT ![fd[t]] = number]
  BY AnsweredFacts
<1>2. HandlesInv'
  <2>1. \A u \in Tokens : \A p, d : PeriphOf(u, p, d) => PeriphOf(u, p, d)'
    BY DEF PeriphOf
  <2>2. \A u \in Tokens : \A n, x : GpioOf(u, n, x) => GpioOf(u, n, x)'
    BY DEF GpioOf
  <2> QED
    BY <2>1, <2>2, AnsweredKeepsHandles
<1>3. ResTypes'
  BY <1>1 DEF RIInv, ResTypes
<1>4. HeldByConnected'
  BY <1>1 DEF RIInv, HeldByConnected, PeerSet
<1>5. RoutesInv' /\ GpioPinsLentOnce'
  BY <1>1 DEF RIInv, RoutesInv, OwnRoutes, RouteOfOwn, Recorded, GpioPinsLentOnce
<1> QED
  BY <1>2, <1>3, <1>4, <1>5 DEF RIInv

LEMMA QuietRequestsKeep ==
    ASSUME IInv, RIInv, NEW t \in Tokens, NEW r,
           \/ GpioSet(t, r) \/ ResourceRefused(t, r) \/ RouteRefused(t, r)
           \/ ResourceGetPath(t, r)
    PROVE  RIInv'
<1>1. CASE GpioSet(t, r)
  <2>1. fd[t] \in Clients
    BY <1>1, TurnOfUser DEF GpioSet, Serving, IInv
  <2>2. answer[fd[t]] \in Nat
    BY <2>1 DEF RIInv, ResTypes
  <2> QED
    BY <1>1, <2>2, QuietRequestKeeps DEF GpioSet
<1>2. CASE ResourceRefused(t, r)
  BY <1>2, QuietRequestKeeps DEF ResourceRefused, Results
<1>3. CASE RouteRefused(t, r)
  <2>1. RouteError(t, r) \in Results \cup {"none"} /\ RouteError(t, r) # "ok"
    BY DEF RouteError, Results
  <2> QED
    BY <1>3, <2>1, QuietRequestKeeps DEF RouteRefused
<1>4. CASE ResourceGetPath(t, r)
  BY <1>4, QuietRequestKeeps DEF ResourceGetPath, Results
<1> QED
  BY <1>1, <1>2, <1>3, <1>4

\* A peripheral that nobody owns is nobody's handle, so taking it takes it from
\* no other client.
LEMMA AcquireKeeps ==
    ASSUME IInv, RIInv, NEW t \in Tokens, NEW r \in OtherRequests, ResourceAcquire(t, r)
    PROVE  RIInv'
<1>1. PICK p \in Candidates(r.periph, r.driver) :
         /\ owner' = [owner EXCEPT ![p] = t]
         /\ driver' = [driver EXCEPT ![p] = IF @ = NoDriver THEN r.driver ELSE @]
         /\ \/ Answered(t, "ok", p)
            \/ Answered(t, "unavailable", 255)
  BY DEF ResourceAcquire
<1>2. /\ p \in Periphs /\ PeriphType[p] = r.periph /\ owner[p] = NoToken
      /\ driver[p] \in {NoDriver, r.driver} /\ r.driver \in DriversOf[r.periph]
  BY DEF Candidates, ResourceAcquire
<1>3. PICK result \in {"ok", "unavailable"}, number \in Nat :
         Answered(t, result, number) /\ (result = "ok" => number = p)
  BY <1>1, <1>2, ResourceAssumption
<1>4. /\ Serving(t, r) /\ UNCHANGED <<resources, routes, driven>>
      /\ r.op = "resource_acquire"
  BY DEF ResourceAcquire
<1>5. result \in Results \cup {"none"}
  BY DEF Results
<1>6. /\ UNCHANGED <<client, wants, fd, peers, asked, periphs, gpios>>
      /\ answer' = [answer EXCEPT ![fd[t]] = number] /\ t \in PeerSet /\ fd[t] # None
  BY <1>3, <1>4, <1>5, AnsweredFacts
<1>7. /\ owner \in [Periphs -> Tokens \cup {NoToken}]
      /\ driver \in [Periphs -> AllDrivers \cup {NoDriver}]
  BY DEF RIInv, ResTypes
<1>8. r.driver \in AllDrivers
  BY <1>2 DEF AllDrivers
<1>9. /\ owner'[p] = t /\ driver'[p] = r.driver
      /\ \A q \in Periphs : q # p => owner'[q] = owner[q] /\ driver'[q] = driver[q]
      /\ \A u \in Tokens : u # NoToken
  BY <1>1, <1>2, <1>7, DaemonAssumption DEF Tokens, NoToken
<1>10. \A u \in Tokens : \A q, d : PeriphOf(u, q, d) => PeriphOf(u, q, d)'
  BY <1>2, <1>9 DEF PeriphOf
<1>11. HandlesInv'
  <2>1. \A u \in Tokens : \A n, x : GpioOf(u, n, x) => GpioOf(u, n, x)'
    BY <1>4 DEF GpioOf
  <2>2. result = "ok" => PeriphOf(t, number, r.driver)'
    BY <1>2, <1>3, <1>9 DEF PeriphOf
  <2>3. r.op # "gpio_acquire"
    BY <1>4
  <2> QED
    BY <2>1, <2>2, <2>3, <1>3, <1>4, <1>5, <1>8, <1>10, AnsweredKeepsHandles
<1>12. ResTypes'
  <2>1. owner' \in [Periphs -> Tokens \cup {NoToken}]
    BY <1>1, <1>7
  <2>2. driver' \in [Periphs -> AllDrivers \cup {NoDriver}]
    BY <1>1, <1>7, <1>8
  <2>3. answer' \in [Clients -> Nat]
    BY <1>6 DEF RIInv, ResTypes
  <2> QED
    BY <2>1, <2>2, <2>3, <1>4, <1>6 DEF RIInv, ResTypes
<1>13. HeldByConnected'
  BY <1>4, <1>6, <1>9 DEF RIInv, HeldByConnected, PeerSet
<1>14. RoutesInv'
  <2>1. ASSUME NEW u \in Tokens, NEW e, RouteOfOwn(u, e) PROVE RouteOfOwn(u, e)'
    BY <2>1, <1>2, <1>9 DEF RouteOfOwn
  <2> QED
    BY <2>1, <1>4 DEF RIInv, RoutesInv, OwnRoutes, Recorded
<1>15. GpioPinsLentOnce'
  BY <1>4 DEF RIInv, GpioPinsLentOnce
<1> QED
  BY <1>11, <1>12, <1>13, <1>14, <1>15 DEF RIInv

\* The list of a peer with an entry more.
LEMMA EntryAppended ==
    ASSUME ResTypes, NEW t \in Tokens, NEW e \in Resource,
           resources' = [resources EXCEPT ![t] = Append(@, e)]
    PROVE  /\ resources' \in [Tokens -> Seq(Resource)]
           /\ Len(resources[t]) \in Nat /\ Len(resources'[t]) = Len(resources[t]) + 1
           /\ \A i \in 1 .. Len(resources[t]) : resources'[t][i] = resources[t][i]
           /\ resources'[t][Len(resources[t]) + 1] = e
           /\ \A u \in Tokens : u # t => resources'[u] = resources[u]
           /\ \A u \in Tokens : \A i \in 1 .. Len(resources[u]) :
                 i \in 1 .. Len(resources'[u]) /\ resources'[u][i] = resources[u][i]
           /\ \A u \in Tokens : \A i \in 1 .. Len(resources'[u]) :
                 \/ u = t /\ i = Len(resources[t]) + 1 /\ resources'[u][i] = e
                 \/ i \in 1 .. Len(resources[u]) /\ resources'[u][i] = resources[u][i]
<1>1. resources \in [Tokens -> Seq(Resource)]
  BY DEF ResTypes
<1>2. resources'[t] = Append(resources[t], e) /\ resources[t] \in Seq(Resource)
  BY <1>1
<1>3. /\ Len(resources[t]) \in Nat /\ Len(resources'[t]) = Len(resources[t]) + 1
      /\ \A i \in 1 .. Len(resources[t]) : resources'[t][i] = resources[t][i]
      /\ resources'[t][Len(resources[t]) + 1] = e
  BY <1>2
<1>4. \A u \in Tokens : u # t => resources'[u] = resources[u]
  BY <1>1
<1>5. resources' \in [Tokens -> Seq(Resource)]
  BY <1>1
<1>6. \A u \in Tokens : \A i \in 1 .. Len(resources[u]) :
         i \in 1 .. Len(resources'[u]) /\ resources'[u][i] = resources[u][i]
  BY <1>3, <1>4
<1>7. \A u \in Tokens : \A i \in 1 .. Len(resources'[u]) :
         \/ u = t /\ i = Len(resources[t]) + 1 /\ resources'[u][i] = e
         \/ i \in 1 .. Len(resources[u]) /\ resources'[u][i] = resources[u][i]
  BY <1>3, <1>4
<1> QED
  BY <1>3, <1>4, <1>5, <1>6, <1>7

\* The parts that GPIO_ACQUIRE and RESOURCE_ROUTE have in common.
LEMMA EntryKeeps ==
    ASSUME IInv, RIInv, NEW t \in Tokens, NEW r, NEW number \in Nat, NEW e \in Resource,
           Serving(t, r), Answered(t, "ok", number),
           resources' = [resources EXCEPT ![t] = Append(@, e)],
           UNCHANGED <<owner, driver>>,
           r.op # "resource_acquire",
           r.op = "gpio_acquire" =>
               /\ number = Len(resources[t])
               /\ r.pin \in Pins /\ e = [from |-> NoPin, to |-> r.pin]
    PROVE  HandlesInv' /\ ResTypes' /\ HeldByConnected'
<1>1. /\ resources' \in [Tokens -> Seq(Resource)]
      /\ Len(resources[t]) \in Nat /\ Len(resources'[t]) = Len(resources[t]) + 1
      /\ resources'[t][Len(resources[t]) + 1] = e
      /\ \A u \in Tokens : u # t => resources'[u] = resources[u]
      /\ \A u \in Tokens : \A i \in 1 .. Len(resources[u]) :
            i \in 1 .. Len(resources'[u]) /\ resources'[u][i] = resources[u][i]
  BY EntryAppended DEF RIInv
<1>2. /\ t \in PeerSet /\ fd[t] # None
      /\ UNCHANGED <<client, wants, fd, peers, asked, periphs, gpios>>
      /\ answer' = [answer EXCEPT ![fd[t]] = number]
  BY AnsweredFacts DEF Results
<1>3. HandlesInv'
  <2>1. \A u \in Tokens : \A p, d : PeriphOf(u, p, d) => PeriphOf(u, p, d)'
    BY DEF PeriphOf
  <2>2. \A u \in Tokens : \A n, x : GpioOf(u, n, x) => GpioOf(u, n, x)'
    BY <1>1 DEF GpioOf
  <2>3. r.op = "gpio_acquire" => r.pin \in Pins /\ GpioOf(t, number, r.pin)'
    BY <1>1 DEF GpioOf
  <2>4. "ok" \in Results \cup {"none"}
    BY DEF Results
  <2> QED
    BY <2>1, <2>2, <2>3, <2>4, AnsweredKeepsHandles
<1>4. ResTypes'
  <2>1. answer' \in [Clients -> Nat]
    BY <1>2 DEF RIInv, ResTypes
  <2> QED
    BY <2>1, <1>1, <1>2 DEF RIInv, ResTypes
<1>5. HeldByConnected'
  <2> SUFFICES ASSUME NEW u \in Tokens
               PROVE  /\ fd[u] = None =>
                            resources'[u] = <<>> /\ \A p \in Periphs : owner[p] # u
                      /\ resources'[u] # <<>> => u \in PeerSet
    BY <1>2 DEF HeldByConnected, PeerSet
  <2>1. CASE u = t
    BY <2>1, <1>2
  <2>2. CASE u # t
    BY <2>2, <1>1 DEF RIInv, HeldByConnected
  <2> QED
    BY <2>1, <2>2
<1> QED
  BY <1>3, <1>4, <1>5

\* A pin that no resource of any peer has is in no list.
LEMMA GpioAcquireKeeps ==
    ASSUME IInv, RIInv, NEW t \in Tokens, NEW r \in OtherRequests, GpioAcquire(t, r)
    PROVE  RIInv'
<1>1. /\ Serving(t, r) /\ r.op = "gpio_acquire"
      /\ UNCHANGED <<owner, driver, routes, driven>>
  BY DEF GpioAcquire
<1>2. CASE UNCHANGED resources /\ Answered(t, "unavailable", 255)
  BY <1>1, <1>2, QuietRequestKeeps DEF Results
<1>3. CASE /\ r.pin \in Pins \ OwnPins /\ ~InUse(r.pin) /\ Answered(t, "ok", NewNumber(t))
           /\ resources' = [resources EXCEPT ![t] = Append(@, [from |-> NoPin, to |-> r.pin])]
  <2>1. PICK e \in Resource : /\ e = [from |-> NoPin, to |-> r.pin]
                              /\ resources' = [resources EXCEPT ![t] = Append(@, e)]
    BY <1>3 DEF Resource
  <2>2. e.from = NoPin /\ e.to = r.pin
    BY <2>1
  <2>3. NewNumber(t) \in Nat /\ NewNumber(t) = Len(resources[t])
    BY DEF NewNumber, RIInv, ResTypes
  <2>4. HandlesInv' /\ ResTypes' /\ HeldByConnected'
    BY <1>1, <1>3, <2>1, <2>3, EntryKeeps
  <2>5. /\ \A u \in Tokens : \A i \in 1 .. Len(resources[u]) :
              i \in 1 .. Len(resources'[u]) /\ resources'[u][i] = resources[u][i]
        /\ \A u \in Tokens : \A i \in 1 .. Len(resources'[u]) :
              \/ u = t /\ i = Len(resources[t]) + 1 /\ resources'[u][i] = e
              \/ i \in 1 .. Len(resources[u]) /\ resources'[u][i] = resources[u][i]
        /\ resources' \in [Tokens -> Seq(Resource)]
    <3>1. ResTypes
      BY DEF RIInv
    <3>2. /\ \A u \in Tokens : \A i \in 1 .. Len(resources[u]) :
                i \in 1 .. Len(resources'[u]) /\ resources'[u][i] = resources[u][i]
          /\ resources' \in [Tokens -> Seq(Resource)]
      BY <2>1, <3>1, EntryAppended
    <3>3. \A u \in Tokens : \A i \in 1 .. Len(resources'[u]) :
              \/ u = t /\ i = Len(resources[t]) + 1 /\ resources'[u][i] = e
              \/ i \in 1 .. Len(resources[u]) /\ resources'[u][i] = resources[u][i]
      BY <2>1, <3>1, EntryAppended
    <3> QED
      BY <3>2, <3>3
  <2>6. RoutesInv'
    <3>1. OwnRoutes'
      <4>1. ASSUME NEW u \in Tokens, NEW i \in 1 .. Len(resources'[u]),
                   resources'[u][i].from # NoPin
            PROVE  i \in 1 .. Len(resources[u]) /\ resources'[u][i] = resources[u][i]
        BY <4>1, <2>2, <2>5
      <4>2. ASSUME NEW u, NEW f, RouteOfOwn(u, f) PROVE RouteOfOwn(u, f)'
        BY <1>1, <4>2 DEF RouteOfOwn
      <4>3. ASSUME NEW u \in Tokens, NEW i \in 1 .. Len(resources'[u]),
                   resources'[u][i].from # NoPin, NEW f, f = resources'[u][i]
            PROVE  RouteOfOwn(u, f)'
        BY <4>1, <4>2, <4>3 DEF RIInv, RoutesInv, OwnRoutes
      <4> QED
        BY <4>3 DEF OwnRoutes
    <3>2. ASSUME NEW x PROVE Recorded(x)' <=> Recorded(x)
      BY <2>2, <2>5 DEF Recorded
    <3> QED
      BY <3>1, <3>2, <1>1 DEF RIInv, RoutesInv
  <2>7. GpioPinsLentOnce'
    <3>1. ASSUME NEW u \in Tokens, NEW i \in 1 .. Len(resources[u])
          PROVE  resources[u][i].to # r.pin
      <4>1. resources \in [Tokens -> Seq(Resource)]
        BY DEF RIInv, ResTypes
      <4>2. resources[u] # <<>>
        BY <4>1
      <4>3. u \in PeerSet
        BY <4>2 DEF RIInv, HeldByConnected
      <4>4. i \in DOMAIN resources[u]
        BY <4>1
      <4>5. resources[u][i] \in Entries
        BY <4>3, <4>4 DEF Entries
      <4> QED
        BY <4>5, <1>3 DEF InUse
    <3>2. \A u \in Tokens : DOMAIN resources'[u] = 1 .. Len(resources'[u])
      BY <2>5
    <3>3. \A u \in Tokens : DOMAIN resources[u] = 1 .. Len(resources[u])
      BY DEF RIInv, ResTypes
    <3>4. SUFFICES ASSUME NEW u \in Tokens, NEW v \in Tokens,
                          NEW i \in 1 .. Len(resources'[u]), NEW j \in 1 .. Len(resources'[v]),
                          resources'[u][i].from = NoPin, resources'[v][j].from = NoPin,
                          resources'[u][i].to = resources'[v][j].to
                   PROVE  u = v /\ i = j
      BY <3>2 DEF GpioPinsLentOnce
    <3>5. CASE i \in 1 .. Len(resources[u]) /\ j \in 1 .. Len(resources[v])
      <4>1. /\ resources[u][i].from = NoPin /\ resources[v][j].from = NoPin
            /\ resources[u][i].to = resources[v][j].to
        BY <3>4, <3>5, <2>5
      <4> QED
        BY <4>1, <3>3, <3>5 DEF RIInv, GpioPinsLentOnce
    <3>6. CASE ~(i \in 1 .. Len(resources[u]))
      <4>1. u = t /\ i = Len(resources[t]) + 1 /\ resources'[u][i] = e
        BY <3>6, <2>5
      <4>2. ~(j \in 1 .. Len(resources[v]))
        BY <4>1, <3>1, <3>4, <2>2, <2>5
      <4> QED
        BY <4>1, <4>2, <2>5
    <3>7. CASE ~(j \in 1 .. Len(resources[v]))
      <4>1. v = t /\ j = Len(resources[t]) + 1 /\ resources'[v][j] = e
        BY <3>7, <2>5
      <4>2. ~(i \in 1 .. Len(resources[u]))
        BY <4>1, <3>1, <3>4, <2>2, <2>5
      <4> QED
        BY <4>1, <4>2, <2>5
    <3> QED
      BY <3>5, <3>6, <3>7
  <2> QED
    BY <2>4, <2>6, <2>7 DEF RIInv
<1> QED
  BY <1>2, <1>3 DEF GpioAcquire

\* A connection is recorded by the owner of the peripheral it leads to.
LEMMA RouteKeeps ==
    ASSUME IInv, RIInv, NEW t \in Tokens, NEW r \in OtherRequests, Route(t, r)
    PROVE  RIInv'
<1>0. PICK e : e = RouteOf(r.id, r.io, r.pin)
  OBVIOUS
<1>1. /\ Serving(t, r) /\ r.op = "resource_route" /\ RouteError(t, r) = "none"
      /\ routes' = routes \cup {<<e.from, e.to>>}
      /\ resources' = [resources EXCEPT ![t] = Append(@, e)]
      /\ Answered(t, "ok", 0)
      /\ UNCHANGED <<owner, driver>>
  BY <1>0 DEF Route
<1>2. /\ r.pin # NoPin /\ r.id \in Periphs /\ owner[r.id] = t
      /\ r.pin \notin OwnPins /\ r.io \in DOMAIN Io[r.id]
  BY <1>1 DEF RouteError
<1>3. r.pin \in Pins \ OwnPins
  BY <1>1, <1>2, ResourceAssumption
<1>4. Io[r.id][r.io].pin \in OwnPins /\ OwnPins \subseteq Pins /\ NoPin \notin Pins
  BY <1>2, ResourceAssumption
<1>5. e \in Resource /\ e.from # NoPin /\ e.from \in Pins /\ e.to \in Pins
  BY <1>0, <1>3, <1>4 DEF RouteOf, Resource
<1>6. RouteOfOwn(t, e)
  BY <1>0, <1>2, <1>3 DEF RouteOfOwn
<1>7. HandlesInv' /\ ResTypes' /\ HeldByConnected'
  BY <1>1, <1>5, EntryKeeps
<1>8. /\ \A u \in Tokens : \A i \in 1 .. Len(resources[u]) :
            i \in 1 .. Len(resources'[u]) /\ resources'[u][i] = resources[u][i]
      /\ \A u \in Tokens : \A i \in 1 .. Len(resources'[u]) :
            \/ u = t /\ i = Len(resources[t]) + 1 /\ resources'[u][i] = e
            \/ i \in 1 .. Len(resources[u]) /\ resources'[u][i] = resources[u][i]
      /\ resources' \in [Tokens -> Seq(Resource)]
      /\ Len(resources[t]) \in Nat /\ Len(resources'[t]) = Len(resources[t]) + 1
      /\ resources'[t][Len(resources[t]) + 1] = e
  <2>1. ResTypes
    BY DEF RIInv
  <2>2. /\ \A u \in Tokens : \A i \in 1 .. Len(resources[u]) :
              i \in 1 .. Len(resources'[u]) /\ resources'[u][i] = resources[u][i]
        /\ resources' \in [Tokens -> Seq(Resource)]
        /\ Len(resources[t]) \in Nat /\ Len(resources'[t]) = Len(resources[t]) + 1
        /\ resources'[t][Len(resources[t]) + 1] = e
    BY <2>1, <1>1, <1>5, EntryAppended
  <2>3. \A u \in Tokens : \A i \in 1 .. Len(resources'[u]) :
            \/ u = t /\ i = Len(resources[t]) + 1 /\ resources'[u][i] = e
            \/ i \in 1 .. Len(resources[u]) /\ resources'[u][i] = resources[u][i]
    BY <2>1, <1>1, <1>5, EntryAppended
  <2> QED
    BY <2>2, <2>3
<1>9. RoutesInv'
  <2>1. ASSUME NEW u, NEW f, RouteOfOwn(u, f) PROVE RouteOfOwn(u, f)'
    BY <1>1, <2>1 DEF RouteOfOwn
  <2>2. OwnRoutes'
    <3> SUFFICES ASSUME NEW u \in Tokens, NEW i \in 1 .. Len(resources'[u]),
                        resources'[u][i].from # NoPin
                 PROVE  \A f : f = resources'[u][i] => RouteOfOwn(u, f)'
      BY DEF OwnRoutes
    <3>1. CASE i \in 1 .. Len(resources[u]) /\ resources'[u][i] = resources[u][i]
      BY <3>1, <2>1 DEF RIInv, RoutesInv, OwnRoutes
    <3>2. CASE u = t /\ resources'[u][i] = e
      BY <3>2, <2>1, <1>6
    <3> QED
      BY <3>1, <3>2, <1>8
  <2>3. routes' \subseteq Pins \X Pins
    BY <1>1, <1>5 DEF RIInv, RoutesInv
  <2>4. ASSUME NEW x \in Pins \X Pins PROVE x \in routes' <=> Recorded(x)'
    <3>1. x \in routes' <=> x \in routes \/ x = <<e.from, e.to>>
      BY <1>1
    <3>2. ASSUME Recorded(x) PROVE Recorded(x)'
      <4>1. PICK u \in Tokens : \E i \in 1 .. Len(resources[u]) :
               /\ resources[u][i].from # NoPin
               /\ x = <<resources[u][i].from, resources[u][i].to>>
        BY <3>2 DEF Recorded
      <4>2. PICK i \in 1 .. Len(resources[u]) :
               /\ resources[u][i].from # NoPin
               /\ x = <<resources[u][i].from, resources[u][i].to>>
        BY <4>1
      <4>3. i \in 1 .. Len(resources'[u]) /\ resources'[u][i] = resources[u][i]
        BY <1>8
      <4> QED
        BY <4>2, <4>3 DEF Recorded
    <3>3. ASSUME x = <<e.from, e.to>> PROVE Recorded(x)'
      <4>1. Len(resources[t]) + 1 \in 1 .. Len(resources'[t])
        BY <1>8
      <4> QED
        BY <4>1, <3>3, <1>5, <1>8 DEF Recorded
    <3>4. ASSUME Recorded(x)' PROVE Recorded(x) \/ x = <<e.from, e.to>>
      <4>1. PICK u \in Tokens : \E i \in 1 .. Len(resources'[u]) :
               /\ resources'[u][i].from # NoPin
               /\ x = <<resources'[u][i].from, resources'[u][i].to>>
        BY <3>4 DEF Recorded
      <4>2. PICK i \in 1 .. Len(resources'[u]) :
               /\ resources'[u][i].from # NoPin
               /\ x = <<resources'[u][i].from, resources'[u][i].to>>
        BY <4>1
      <4>3. CASE i \in 1 .. Len(resources[u]) /\ resources'[u][i] = resources[u][i]
        BY <4>2, <4>3 DEF Recorded
      <4>4. CASE resources'[u][i] = e
        BY <4>2, <4>4
      <4> QED
        BY <4>3, <4>4, <1>8
    <3>5. x \in routes <=> Recorded(x)
      BY DEF RIInv, RoutesInv
    <3> QED
      BY <3>1, <3>2, <3>3, <3>4, <3>5
  <2> QED
    BY <2>2, <2>3, <2>4 DEF RoutesInv
<1>10. GpioPinsLentOnce'
  <2>1. \A u \in Tokens : DOMAIN resources'[u] = 1 .. Len(resources'[u])
    BY <1>8
  <2>2. \A u \in Tokens : DOMAIN resources[u] = 1 .. Len(resources[u])
    BY DEF RIInv, ResTypes
  <2>3. SUFFICES ASSUME NEW u \in Tokens, NEW v \in Tokens,
                        NEW i \in 1 .. Len(resources'[u]), NEW j \in 1 .. Len(resources'[v]),
                        resources'[u][i].from = NoPin, resources'[v][j].from = NoPin,
                        resources'[u][i].to = resources'[v][j].to
                 PROVE  u = v /\ i = j
    BY <2>1 DEF GpioPinsLentOnce
  <2>4. /\ i \in 1 .. Len(resources[u]) /\ resources'[u][i] = resources[u][i]
        /\ j \in 1 .. Len(resources[v]) /\ resources'[v][j] = resources[v][j]
    BY <2>3, <1>5, <1>8
  <2> QED
    BY <2>2, <2>3, <2>4 DEF RIInv, GpioPinsLentOnce
<1> QED
  BY <1>7, <1>9, <1>10 DEF RIInv

(***************************************************************************)
(* The callers.                                                            *)
(***************************************************************************)

\* They do not touch what the daemon keeps.
LEMMA CallersKeepResources ==
    ASSUME RIInv, UNCHANGED <<fd, peers, owner, driver, resources, routes>>
    PROVE  HeldByConnected' /\ RoutesInv' /\ GpioPinsLentOnce'
  BY DEF RIInv, HeldByConnected, PeerSet, RoutesInv, OwnRoutes, RouteOfOwn, Recorded,
     GpioPinsLentOnce

\* A client that asks waits for nothing else.
LEMMA AskKeeps ==
    ASSUME IInv, RIInv, NEW c \in Clients, NEW r \in OtherRequests, Ask(c, r)
    PROVE  RIInv'
<1>1. /\ UNCHANGED <<owner, driver, resources, routes, answer, periphs, gpios>>
      /\ asked' = IF r.op = "gpio_set" THEN asked ELSE [asked EXCEPT ![c] = r]
      /\ client[c] = "open" /\ sock' = [sock EXCEPT ![c] = Append(@, r)]
      /\ client' = [client EXCEPT ![c] = IF r.op = "gpio_set" THEN "open" ELSE "asking"]
      /\ UNCHANGED <<wants, reply, fd, peers>>
  BY DEF Ask, RequestOther, Request, daemonVars
<1>2. /\ client \in [Clients -> ClientStates] /\ sock \in [Clients -> Seq(Requests)]
      /\ asked \in [Clients -> OtherRequests \cup {NoRequest}]
  BY DEF IInv, ClientsInv, ClientTypes, RIInv, ResTypes
<1>3. reply[c] = "none"
  BY <1>1 DEF IInv, ClientsInv, AnswersInOrder, ClientTypes
<1>4. /\ \A d \in Clients : d # c => asked'[d] = asked[d] /\ client'[d] = client[d]
                                     /\ sock'[d] = sock[d]
      /\ r.op # "gpio_set" => asked'[c] = r
      /\ \A d \in Clients : Holds(d) => Holds(d)'
  BY <1>1, <1>2 DEF Holds
<1>5. HandlesHeld'
  BY <1>1, <1>4 DEF RIInv, HandlesInv, HandlesHeld, PeriphOf, GpioOf
<1>6. AskedIsSent'
  <2> SUFFICES ASSUME NEW d \in Clients, NEW i \in 1 .. Len(sock'[d]),
                      sock'[d][i] \in OtherRequests, sock'[d][i].op # "gpio_set"
               PROVE  asked'[d] = sock'[d][i]
    BY DEF AskedIsSent
  <2>1. CASE d # c
    BY <2>1, <1>4 DEF RIInv, HandlesInv, AskedIsSent
  <2>2. CASE d = c
    <3>1. /\ Len(sock[c]) \in Nat /\ Len(sock'[c]) = Len(sock[c]) + 1
          /\ \A j \in 1 .. Len(sock[c]) : sock'[c][j] = sock[c][j]
          /\ sock'[c][Len(sock[c]) + 1] = r
      BY <1>1, <1>2 DEF Requests
    <3>2. ASSUME NEW j \in 1 .. Len(sock[c]), sock[c][j] \in OtherRequests,
                 sock[c][j].op # "gpio_set"
          PROVE  FALSE
      BY <3>2, <1>1 DEF IInv, ClientsInv, RequestsInOrder
    <3>3. i = Len(sock[c]) + 1
      BY <2>2, <3>1, <3>2
    <3> QED
      BY <2>2, <3>1, <3>3, <1>4
  <2> QED
    BY <2>1, <2>2
<1>7. AnswersHeld'
  <2> SUFFICES ASSUME NEW d \in Clients, client'[d] = "asking", reply[d] = "ok"
               PROVE  /\ asked'[d].op = "resource_acquire" =>
                           /\ asked'[d].driver \in AllDrivers
                           /\ PeriphOf(wants[d], answer[d], asked[d].driver)'
                      /\ asked'[d].op = "gpio_acquire" =>
                           /\ asked'[d].pin \in Pins
                           /\ GpioOf(wants[d], answer[d], asked[d].pin)'
    BY <1>1 DEF AnswersHeld
  <2>1. d # c
    BY <1>3
  <2> QED
    BY <2>1, <1>1, <1>4 DEF RIInv, HandlesInv, AnswersHeld, PeriphOf, GpioOf
<1>8. ResTypes'
  <2>1. asked' \in [Clients -> OtherRequests \cup {NoRequest}]
    BY <1>1, <1>2
  <2> QED
    BY <2>1, <1>1 DEF RIInv, ResTypes
<1> QED
  BY <1>1, <1>5, <1>6, <1>7, <1>8, CallersKeepResources DEF RIInv, HandlesInv

\* A number that was good when the daemon sent it is good when it is read.
LEMMA AskDoneKeeps ==
    ASSUME IInv, RIInv, NEW c \in Clients, AskDone(c)
    PROVE  RIInv'
<1> DEFINE won(op) == client[c] = "asking" /\ asked[c].op = op /\ reply[c] = "ok"
           newPeriph == <<answer[c], asked[c].driver>>
           newGpio == <<answer[c], asked[c].pin>>
<1>1. /\ UNCHANGED <<owner, driver, resources, routes, wants, sock, fd, peers>>
      /\ client[c] \in {"reading", "asking"} /\ reply[c] # "none"
      /\ client' = [client EXCEPT ![c] = "open"] /\ reply' = [reply EXCEPT ![c] = "none"]
      /\ periphs' = IF won("resource_acquire")
                    THEN [periphs EXCEPT ![c] = @ \cup {newPeriph}] ELSE periphs
      /\ gpios' = IF won("gpio_acquire")
                  THEN [gpios EXCEPT ![c] = @ \cup {newGpio}] ELSE gpios
      /\ asked' = [asked EXCEPT ![c] = NoRequest]
      /\ answer' = [answer EXCEPT ![c] = 255]
  BY DEF AskDone, CallDone, daemonVars
<1>2. /\ client \in [Clients -> ClientStates] /\ reply \in [Clients -> Results \cup {"none"}]
      /\ ResTypes
  BY DEF IInv, ClientsInv, ClientTypes, RIInv
<1>3. /\ \A d \in Clients : d # c => /\ client'[d] = client[d] /\ reply'[d] = reply[d]
                                     /\ asked'[d] = asked[d] /\ answer'[d] = answer[d]
                                     /\ periphs'[d] = periphs[d] /\ gpios'[d] = gpios[d]
      /\ client'[c] = "open" /\ reply'[c] = "none"
      /\ \A d \in Clients : Holds(d) => Holds(d)'
  BY <1>1, <1>2 DEF ResTypes, Holds
<1>4. /\ won("resource_acquire") =>
            asked[c].driver \in AllDrivers /\ PeriphOf(wants[c], answer[c], asked[c].driver)
      /\ won("gpio_acquire") =>
            asked[c].pin \in Pins /\ GpioOf(wants[c], answer[c], asked[c].pin)
  BY DEF RIInv, HandlesInv, AnswersHeld
<1>5. /\ won("resource_acquire") =>
            newPeriph \in Periphs \X AllDrivers /\ PeriphOf(wants[c], newPeriph[1], newPeriph[2])
      /\ won("gpio_acquire") =>
            newGpio \in Nat \X Pins /\ GpioOf(wants[c], newGpio[1], newGpio[2])
  BY <1>2, <1>4 DEF PeriphOf, ResTypes
<1>6. /\ \A h \in periphs'[c] : h \in periphs[c] \/ (won("resource_acquire") /\ h = newPeriph)
      /\ \A h \in gpios'[c] : h \in gpios[c] \/ (won("gpio_acquire") /\ h = newGpio)
  BY <1>1, <1>2 DEF ResTypes
<1>7. periphs' \in [Clients -> SUBSET (Periphs \X AllDrivers)]
      /\ gpios' \in [Clients -> SUBSET (Nat \X Pins)]
  BY <1>1, <1>2, <1>5 DEF ResTypes
<1> HIDE DEF won, newPeriph, newGpio
<1>8. ResTypes'
  <2>1. asked' \in [Clients -> OtherRequests \cup {NoRequest}] /\ answer' \in [Clients -> Nat]
    BY <1>1, <1>2 DEF ResTypes
  <2> QED
    BY <2>1, <1>1, <1>2, <1>7 DEF ResTypes
<1>9. HandlesHeld'
  <2> SUFFICES ASSUME NEW d \in Clients
               PROVE  /\ periphs'[d] # {} \/ gpios'[d] # {} => Holds(d)'
                      /\ \A h \in periphs'[d] : PeriphOf(wants[d], h[1], h[2])'
                      /\ \A h \in gpios'[d] : GpioOf(wants[d], h[1], h[2])'
    BY DEF HandlesHeld
  <2>1. CASE d # c
    BY <2>1, <1>1, <1>3 DEF RIInv, HandlesInv, HandlesHeld, PeriphOf, GpioOf
  <2>2. CASE d = c
    <3>1. Holds(c)'
      BY <1>3 DEF Holds
    <3>2. /\ \A h \in periphs'[c] : PeriphOf(wants[c], h[1], h[2])
          /\ \A h \in gpios'[c] : GpioOf(wants[c], h[1], h[2])
      BY <1>5, <1>6 DEF RIInv, HandlesInv, HandlesHeld
    <3>3. /\ \A h \in periphs'[c] : PeriphOf(wants[c], h[1], h[2])'
          /\ \A h \in gpios'[c] : GpioOf(wants[c], h[1], h[2])'
      BY <3>2, <1>1 DEF PeriphOf, GpioOf
    <3> QED
      BY <2>2, <3>1, <3>3
  <2> QED
    BY <2>1, <2>2
<1>10. AskedIsSent'
  <2>1. sock[c] = <<>>
    BY <1>1, NothingAsked DEF IInv
  <2> QED
    BY <2>1, <1>1, <1>3 DEF RIInv, HandlesInv, AskedIsSent
<1>11. AnswersHeld'
  <2> SUFFICES ASSUME NEW d \in Clients, client'[d] = "asking", reply'[d] = "ok"
               PROVE  /\ asked'[d].op = "resource_acquire" =>
                           /\ asked'[d].driver \in AllDrivers
                           /\ PeriphOf(wants[d], answer[d], asked[d].driver)'
                      /\ asked'[d].op = "gpio_acquire" =>
                           /\ asked'[d].pin \in Pins
                           /\ GpioOf(wants[d], answer[d], asked[d].pin)'
    BY DEF AnswersHeld
  <2>1. d # c
    BY <1>3
  <2> QED
    BY <2>1, <1>1, <1>3 DEF RIInv, HandlesInv, AnswersHeld, PeriphOf, GpioOf
<1> QED
  BY <1>1, <1>8, <1>9, <1>10, <1>11, CallersKeepResources DEF RIInv, HandlesInv

\* With its QUIT a client forgets its numbers.
LEMMA DisconnectAllKeeps ==
    ASSUME IInv, RIInv, NEW c \in Clients, DisconnectAll(c)
    PROVE  RIInv'
<1>1. /\ UNCHANGED <<owner, driver, resources, routes, answer, asked, wants, reply, fd, peers>>
      /\ client[c] = "open" /\ client' = [client EXCEPT ![c] = "quitting"]
      /\ sock' = [sock EXCEPT ![c] = Append(@, [op |-> "quit"])]
      /\ periphs' = [periphs EXCEPT ![c] = {}] /\ gpios' = [gpios EXCEPT ![c] = {}]
  BY DEF DisconnectAll, Disconnect, Request, daemonVars
<1>2. /\ client \in [Clients -> ClientStates] /\ sock \in [Clients -> Seq(Requests)]
      /\ ResTypes
  BY DEF IInv, ClientsInv, ClientTypes, RIInv
<1>3. /\ \A d \in Clients : d # c => /\ client'[d] = client[d] /\ sock'[d] = sock[d]
                                     /\ periphs'[d] = periphs[d] /\ gpios'[d] = gpios[d]
      /\ client'[c] = "quitting" /\ periphs'[c] = {} /\ gpios'[c] = {}
  BY <1>1, <1>2 DEF ResTypes
<1>4. ResTypes'
  <2>1. periphs' \in [Clients -> SUBSET (Periphs \X AllDrivers)]
        /\ gpios' \in [Clients -> SUBSET (Nat \X Pins)]
    BY <1>1, <1>2 DEF ResTypes
  <2> QED
    BY <2>1, <1>1, <1>2 DEF ResTypes
<1>5. HandlesHeld'
  <2> SUFFICES ASSUME NEW d \in Clients
               PROVE  /\ periphs'[d] # {} \/ gpios'[d] # {} => Holds(d)'
                      /\ \A h \in periphs'[d] : PeriphOf(wants[d], h[1], h[2])'
                      /\ \A h \in gpios'[d] : GpioOf(wants[d], h[1], h[2])'
    BY DEF HandlesHeld
  <2>1. CASE d # c
    BY <2>1, <1>1, <1>3 DEF RIInv, HandlesInv, HandlesHeld, PeriphOf, GpioOf, Holds
  <2>2. CASE d = c
    BY <2>2, <1>3
  <2> QED
    BY <2>1, <2>2
<1>6. AskedIsSent'
  <2> SUFFICES ASSUME NEW d \in Clients, NEW i \in 1 .. Len(sock'[d]),
                      sock'[d][i] \in OtherRequests, sock'[d][i].op # "gpio_set"
               PROVE  asked[d] = sock'[d][i]
    BY <1>1 DEF AskedIsSent
  <2>1. CASE d # c
    BY <2>1, <1>3 DEF RIInv, HandlesInv, AskedIsSent
  <2>2. CASE d = c
    <3>1. /\ Len(sock[c]) \in Nat /\ Len(sock'[c]) = Len(sock[c]) + 1
          /\ \A j \in 1 .. Len(sock[c]) : sock'[c][j] = sock[c][j]
          /\ sock'[c][Len(sock[c]) + 1] = [op |-> "quit"]
      BY <1>1, <1>2 DEF Requests
    <3>2. [op |-> "quit"] \notin OtherRequests
      BY DaemonAssumption
    <3>3. i \in 1 .. Len(sock[c]) /\ sock'[d][i] = sock[c][i]
      BY <2>2, <3>1, <3>2
    <3> QED
      BY <2>2, <3>3 DEF RIInv, HandlesInv, AskedIsSent
  <2> QED
    BY <2>1, <2>2
<1>7. AnswersHeld'
  <2> SUFFICES ASSUME NEW d \in Clients, client'[d] = "asking", reply[d] = "ok"
               PROVE  /\ asked[d].op = "resource_acquire" =>
                           /\ asked[d].driver \in AllDrivers
                           /\ PeriphOf(wants[d], answer[d], asked[d].driver)'
                      /\ asked[d].op = "gpio_acquire" =>
                           /\ asked[d].pin \in Pins
                           /\ GpioOf(wants[d], answer[d], asked[d].pin)'
    BY <1>1 DEF AnswersHeld
  <2> QED
    BY <1>1, <1>3 DEF RIInv, HandlesInv, AnswersHeld, PeriphOf, GpioOf
<1> QED
  BY <1>1, <1>4, <1>5, <1>6, <1>7, CallersKeepResources DEF RIInv, HandlesInv

(***************************************************************************)
(* The theorems.                                                           *)
(***************************************************************************)

LEMMA InitRIInv == RInit => RIInv
<1> SUFFICES ASSUME RInit PROVE RIInv
  OBVIOUS
<1> USE DEF RInit, Init
<1>1. ResTypes
  BY DEF ResTypes
<1>2. HandlesInv
  BY DEF HandlesInv, HandlesHeld, AskedIsSent, AnswersHeld
<1>3. HeldByConnected
  BY DaemonAssumption DEF HeldByConnected, Tokens, NoToken
<1>4. RoutesInv
  BY DEF RoutesInv, OwnRoutes, Recorded
<1>5. GpioPinsLentOnce
  BY DEF GpioPinsLentOnce
<1> QED
  BY <1>1, <1>2, <1>3, <1>4, <1>5 DEF RIInv

LEMMA ResourcesStep == IInv /\ RIInv /\ [RNext]_allVars => RIInv'
<1> SUFFICES ASSUME IInv, RIInv, [RNext]_allVars PROVE RIInv'
  OBVIOUS
<1>1. CASE Elsewhere
  BY <1>1, ElsewhereIsSteady, SteadyKeeps DEF Elsewhere
<1>2. CASE \E t \in Tokens : QuitAndRelease(t)
  BY <1>2, QuitKeepsAll
<1>3. ASSUME NEW t \in Tokens, NEW r \in OtherRequests,
             \/ GpioAcquire(t, r) \/ GpioSet(t, r) \/ ResourceRefused(t, r)
             \/ ResourceAcquire(t, r) \/ RouteRefused(t, r) \/ Route(t, r)
             \/ ResourceGetPath(t, r)
      PROVE  RIInv'
  BY <1>3, GpioAcquireKeeps, QuietRequestsKeep, AcquireKeeps, RouteKeeps
<1>4. CASE \E t \in Tokens : ResourceOperation(t)
  BY <1>3, <1>4 DEF ResourceOperation
<1>5. CASE \E c \in Clients :
             (\E r \in OtherRequests : Ask(c, r)) \/ AskDone(c) \/ DisconnectAll(c)
  BY <1>5, AskKeeps, AskDoneKeeps, DisconnectAllKeeps
<1>6. CASE UNCHANGED allVars
  BY <1>6, QuietIsSteady, SteadyKeeps DEF allVars, vars, clientVars, daemonVars
<1> QED
  BY <1>1, <1>2, <1>4, <1>5, <1>6 DEF RNext

\* The daemon's invariant and that of the resources hold together: the second needs
\* to know whose slot a request comes from.
THEOREM ResourcesInvariant == RSpec => [](IInv /\ RIInv)
<1>1. RInit => IInv /\ RIInv
  BY InitRIInv, InitIInv DEF RInit
<1>2. IInv /\ RIInv /\ [RNext]_allVars => (IInv /\ RIInv)'
  BY StepsOfDaemon, SlotsStep, WatchStep, ClientsStep, ResourcesStep DEF IInv
<1> QED
  BY <1>1, <1>2, PTL DEF RSpec

\* What a client was told it has, the daemon has in its name until the client lets
\* go of it, whoever comes and quits meanwhile.
THEOREM ResourcesHandlesAreGood == RSpec => []HandlesAreGood
<1>1. RIInv => HandlesAreGood
  <2> SUFFICES ASSUME RIInv, NEW c \in Clients
               PROVE  /\ \A p \in periphs[c] : owner[p[1]] = wants[c] /\ driver[p[1]] = p[2]
                      /\ \A g \in gpios[c] :
                            /\ g[1] < Len(resources[wants[c]])
                            /\ resources[wants[c]][g[1] + 1] = [from |-> NoPin, to |-> g[2]]
    BY DEF HandlesAreGood
  <2>1. \A p \in periphs[c] : owner[p[1]] = wants[c] /\ driver[p[1]] = p[2]
    BY DEF RIInv, HandlesInv, HandlesHeld, PeriphOf
  <2>2. ASSUME NEW g \in gpios[c]
        PROVE  /\ g[1] < Len(resources[wants[c]])
               /\ resources[wants[c]][g[1] + 1] = [from |-> NoPin, to |-> g[2]]
    <3>1. GpioOf(wants[c], g[1], g[2]) /\ g[1] \in Nat
      BY DEF RIInv, HandlesInv, HandlesHeld, ResTypes
    <3>2. g[1] + 1 \in 1 .. Len(resources[wants[c]])
      BY <3>1 DEF GpioOf
    <3> QED
      BY <3>1, <3>2 DEF GpioOf
  <2> QED
    BY <2>1, <2>2
<1> QED
  BY <1>1, ResourcesInvariant, PTL

\* The crosspoint switch connects what the peers have recorded, and a module with no
\* client has nothing (OPERATION_QUIT).
THEOREM ResourcesRoutesMatch == RSpec => []RoutesMatchResources
<1>1. IInv /\ RIInv => RoutesMatchResources
  <2> SUFFICES ASSUME IInv, RIInv PROVE RoutesMatchResources
    OBVIOUS
  <2> DEFINE recorded == {<<e.from, e.to>> : e \in {f \in Entries : f.from # NoPin}}
  <2>1. PeerSet \subseteq Tokens
    BY DEF PeerSet, IInv, SlotsInv
  <2>2. \A t \in Tokens : DOMAIN resources[t] = 1 .. Len(resources[t])
    BY DEF RIInv, ResTypes
  <2>3. ASSUME NEW x \in recorded PROVE x \in routes
    <3>1. PICK e \in Entries : e.from # NoPin /\ x = <<e.from, e.to>>
      OBVIOUS
    <3>2. PICK t \in PeerSet : \E i \in DOMAIN resources[t] : e = resources[t][i]
      BY <3>1 DEF Entries
    <3>3. PICK i \in 1 .. Len(resources[t]) : e = resources[t][i]
      BY <2>1, <2>2, <3>2
    <3>4. e \in Resource
      BY <2>1, <3>3, EntryType DEF RIInv
    <3>5. Recorded(x) /\ x \in Pins \X Pins
      BY <2>1, <3>1, <3>3, <3>4 DEF Recorded, Resource
    <3> QED
      BY <3>5 DEF RIInv, RoutesInv
  <2>4. ASSUME NEW x \in routes PROVE x \in recorded
    <3>1. Recorded(x)
      BY DEF RIInv, RoutesInv
    <3>2. PICK t \in Tokens : \E i \in 1 .. Len(resources[t]) :
             /\ resources[t][i].from # NoPin
             /\ x = <<resources[t][i].from, resources[t][i].to>>
      BY <3>1 DEF Recorded
    <3>3. PICK i \in 1 .. Len(resources[t]) :
             /\ resources[t][i].from # NoPin
             /\ x = <<resources[t][i].from, resources[t][i].to>>
      BY <3>2
    <3>4. resources[t] # <<>>
      BY <2>2, <3>3
    <3>5. t \in PeerSet
      BY <3>4 DEF RIInv, HeldByConnected
    <3>6. resources[t][i] \in Entries
      BY <2>2, <3>3, <3>5 DEF Entries
    <3> QED
      BY <3>3, <3>6
  <2>5. routes = recorded
    BY <2>3, <2>4
  <2> QED
    BY <2>5 DEF RIInv, HeldByConnected, RoutesMatchResources
<1> QED
  BY <1>1, ResourcesInvariant, PTL

\* No pin is lent for direct use to two clients, nor to one twice.
THEOREM ResourcesGpioPinsLentOnce == RSpec => []GpioPinsLentOnce
<1>1. RIInv => GpioPinsLentOnce
  BY DEF RIInv
<1> QED
  BY <1>1, ResourcesInvariant, PTL
=============================================================================
