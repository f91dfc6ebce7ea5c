-------------------------- MODULE McpdDaemonProofs --------------------------
(***************************************************************************)
(* Proofs about McpdDaemon, for any numbers of modules, clients, watchers  *)
(* and requests in flight: the slots list the modules, no module has two   *)
(* users, no answer is taken for that of another call, no watcher misses a *)
(* module or hears of one twice, and the daemon implements                 *)
(* ModuleDirectory.                                                        *)
(***************************************************************************)
EXTENDS McpdDaemon, SequenceTheorems, FiniteSetTheorems, WellFoundedInduction, TLAPS

(***************************************************************************)
(* The slots.                                                              *)
(***************************************************************************)

\* The daemon hears of modules late, and makes slots later still.
Counts ==
    /\ presence \in 0 .. MaxTokens
    /\ newGlobalTokenCount \in 0 .. presence
    /\ globalTokenCount \in 0 .. newGlobalTokenCount

SlotsInv ==
    /\ Counts
    /\ peers \in Seq(Tokens)
    /\ SlotsEnumerateTokens

(***************************************************************************)
(* The watchers, and the place of the daemon in its loop.                  *)
(***************************************************************************)

WatchTypes ==
    /\ somethingHappened \in BOOLEAN
    /\ pc \in {"top", "updateAll", "updateNew", "dispatch", "aborted"}
    /\ watch \in Seq([fd : Watchers, next : 0 .. MaxTokens])
    /\ ready \in SUBSET Fds
    /\ fresh \in SUBSET Watchers
    /\ watcher \in [Watchers -> WatcherStates]
    /\ inbox \in [Watchers -> Seq(Tokens)]
    /\ got \in [Watchers -> Seq(Tokens)]

\* The daemon updates a watcher it has, and goes through descriptors only
\* while some are left.
Place ==
    /\ wi \in Nat \ {0}
    /\ pc \in {"updateAll", "updateNew"} => wi <= Len(watch)
    /\ remaining \in Nat
    /\ pc \in {"updateNew", "dispatch"} => remaining > 0

(***************************************************************************)
(* The clients.                                                            *)
(***************************************************************************)

Connection == [fd : Clients, token : Tokens] \cup [fd : Watchers, token : {WatchRequest}]

ClientTypes ==
    /\ fd \in [Tokens -> Clients \cup {None}]
    /\ isDoing \in [Tokens -> {"idle", "read", "write"}]
    /\ client \in [Clients -> ClientStates]
    /\ wants \in [Clients -> Tokens]
    /\ sock \in [Clients -> Seq(Requests)]
    /\ reply \in [Clients -> Results \cup {"none"}]
    /\ backlog \in Seq(Connection)

\* The daemon keeps a slot for the client from the answer to mcpd_connect()
\* to the answer to mcpd_disconnect().
Uses(c) ==
    \/ Holds(c)
    \/ client[c] = "connecting" /\ reply[c] = "ok"
    \/ client[c] = "quitting" /\ reply[c] = "none"

SlotsAreUsed ==
    \A c \in Clients, t \in Tokens : fd[t] = c <=> Uses(c) /\ wants[c] = t

\* A request that has an answer is the last one in its socket.
RequestsInOrder ==
    \A c \in Clients : \A i \in 1 .. Len(sock[c]) :
        /\ client[c] \notin {"off", "connecting"}
        /\ reply[c] = "none"
        /\ sock[c][i].op = "quit" => client[c] = "quitting" /\ i = Len(sock[c])
        /\ sock[c][i].op = "read" => client[c] = "reading" /\ i = Len(sock[c])
        /\ sock[c][i] \in OtherRequests /\ sock[c][i].op # "gpio_set" =>
              client[c] = "asking" /\ i = Len(sock[c])

\* An answer is there only for a caller that waits, and of its kind.
AnswersInOrder ==
    \A c \in Clients :
        /\ reply[c] # "none" => client[c] \notin {"off", "open"}
        /\ client[c] \in {"reading", "quitting"} => reply[c] \in {"none", "ok"}
        /\ client[c] \in {"reading", "asking"} /\ reply[c] # "none" =>
              isDoing[wants[c]] = "idle"

\* The client of a read waits for it and has asked for nothing else.
TransfersOfUsers ==
    \A t \in Tokens :
        /\ isDoing[t] # "idle" => fd[t] # None
        /\ isDoing[t] = "read" => /\ client[fd[t]] = "reading"
                                  /\ sock[fd[t]] = <<>>
                                  /\ reply[fd[t]] = "none"

\* What poll() found is still there when its turn comes.
ReadyStays ==
    /\ pc = "dispatch" /\ "srv" \in ready => backlog # <<>>
    /\ \A c \in Clients : c \in ready => sock[c] # <<>> /\ isDoing[wants[c]] = "idle"

\* A connection that is not accepted yet belongs to a client that waits.
BacklogWaits ==
    /\ \A i \in 1 .. Len(backlog) : backlog[i].fd \in Clients =>
          /\ client[backlog[i].fd] = "connecting"
          /\ reply[backlog[i].fd] = "none"
          /\ wants[backlog[i].fd] = backlog[i].token
    /\ \A i, j \in 1 .. Len(backlog) :
          backlog[i].fd \in Clients /\ backlog[i].fd = backlog[j].fd => i = j

ClientsInv ==
    /\ ClientTypes
    /\ SlotsAreUsed
    /\ RequestsInOrder
    /\ AnswersInOrder
    /\ TransfersOfUsers
    /\ ReadyStays
    /\ BacklogWaits

WatchInv == WatchTypes /\ Place

IInv == SlotsInv /\ WatchInv /\ ClientsInv

LEMMA NoWrap == ASSUME NEW n \in 0 .. 255 PROVE n % 256 = n
  OBVIOUS

\* AddTokens appends what is missing, whatever the jump.
LEMMA AddTokensKeeps == SlotsInv /\ AddTokens => SlotsInv'
<1> SUFFICES ASSUME SlotsInv, AddTokens PROVE SlotsInv'
  OBVIOUS
<1> USE DaemonAssumption DEF SlotsInv, Counts
<1> DEFINE n == TokensToAdd
           new == [k \in 1 .. n |-> AppendedToken(k)]
<1>1. /\ presence' = presence
      /\ newGlobalTokenCount' = newGlobalTokenCount
      /\ globalTokenCount' = newGlobalTokenCount
      /\ peers' = peers \o new
  BY DEF AddTokens
<1>2. (newGlobalTokenCount - globalTokenCount) % 256 = newGlobalTokenCount - globalTokenCount
  <2>1. newGlobalTokenCount - globalTokenCount \in 0 .. 255
    OBVIOUS
  <2> QED
    BY <2>1, NoWrap
<1>3. /\ n \in Nat
      /\ n = IF MyToken >= globalTokenCount /\ MyToken < newGlobalTokenCount
             THEN newGlobalTokenCount - globalTokenCount - 1
             ELSE newGlobalTokenCount - globalTokenCount
  BY <1>2 DEF TokensToAdd
<1>4. \A k \in 1 .. n :
         /\ AppendedToken(k) \in Tokens
         /\ AppendedToken(k) = IF globalTokenCount <= MyToken /\ MyToken <= globalTokenCount + k - 1
                               THEN globalTokenCount + k ELSE globalTokenCount + k - 1
  BY <1>3 DEF AppendedToken, Tokens
<1> HIDE DEF n
<1>5. new \in Seq(Tokens) /\ Len(new) = n /\ \A k \in 1 .. n : new[k] = AppendedToken(k)
  BY <1>3, <1>4
<1> HIDE DEF new
<1>6. /\ peers' \in Seq(Tokens)
      /\ Len(peers') = Len(peers) + n
      /\ \A i \in 1 .. Len(peers) + n :
            peers'[i] = IF i <= Len(peers) THEN peers[i] ELSE new[i - Len(peers)]
  <2>1. peers \in Seq(Tokens) /\ new \in Seq(Tokens)
    BY <1>5
  <2>2. /\ peers \o new \in Seq(Tokens)
        /\ Len(peers \o new) = Len(peers) + Len(new)
        /\ \A i \in 1 .. Len(peers) + Len(new) : (peers \o new)[i] =
              IF i <= Len(peers) THEN peers[i] ELSE new[i - Len(peers)]
    BY <2>1, ConcatProperties, Zenon
  <2> QED
    BY <1>1, <1>5, <2>2
<1>7. SlotsEnumerateTokens'
  <2>1. Len(peers') = IF MyToken < globalTokenCount'
                      THEN globalTokenCount' - 1 ELSE globalTokenCount'
    BY <1>1, <1>3, <1>6 DEF SlotsEnumerateTokens
  <2>2. ASSUME NEW i \in 1 .. Len(peers) + n
        PROVE  peers'[i] = IF i <= MyToken THEN i - 1 ELSE i
    <3>1. CASE i <= Len(peers)
      BY <3>1, <1>6 DEF SlotsEnumerateTokens
    <3>2. CASE i > Len(peers)
      <4>1. i - Len(peers) \in 1 .. n
        BY <3>2, <1>3
      <4>2. peers'[i] = AppendedToken(i - Len(peers))
        BY <4>1, <1>5, <1>6
      <4> QED
        BY <4>1, <4>2, <1>4 DEF SlotsEnumerateTokens
    <3> QED
      BY <3>1, <3>2
  <2>3. DOMAIN peers' = 1 .. Len(peers) + n
    BY <1>6
  <2> QED
    BY <2>1, <2>2, <2>3 DEF SlotsEnumerateTokens
<1> QED
  BY <1>1, <1>6, <1>7

\* Nothing else touches the slots.
LEMMA SlotsStep == SlotsInv /\ [Next]_vars => SlotsInv'
<1> SUFFICES ASSUME SlotsInv, [Next]_vars PROVE SlotsInv'
  OBVIOUS
<1> USE DaemonAssumption
<1>1. CASE AddTokens
  BY <1>1, AddTokensKeeps
<1>2. CASE ModuleArrives
  BY <1>2 DEF ModuleArrives, SlotsInv, Counts, SlotsEnumerateTokens, pollerVars, daemonVars
<1>3. CASE PollerPresence
  BY <1>3 DEF PollerPresence, SlotsInv, Counts, SlotsEnumerateTokens, daemonVars
<1>4. CASE UNCHANGED <<presence, newGlobalTokenCount, globalTokenCount, peers>>
  BY <1>4 DEF SlotsInv, Counts, SlotsEnumerateTokens
<1>5. UNCHANGED <<presence, newGlobalTokenCount, globalTokenCount, peers>>
      \/ AddTokens \/ ModuleArrives \/ PollerPresence
  BY DEF Next, MainLoop, Operate, ClientStep, WatcherStep, WriteToken, WriteToClosed,
         WatcherUpToDate, Poll, AcceptClient, AcceptWatcher, WatcherHungUp,
         FreshReadsZero, FreshReadsPollout, FreshReadsPollhup, FreshReadsOther,
         ServeQuit, ServeTransfer, ServeTransferAtOnce, ServeOther, TransferDone,
         Connect, Connected, Request, RequestWrite, RequestRead, RequestOther,
         Disconnect, CallDone, Disconnected, WatchCreate, WatchWait, WatchDestroy,
         vars, pollerVars, daemonVars
<1> QED
  BY <1>1, <1>2, <1>3, <1>4, <1>5

(***************************************************************************)
(* Steps that leave the clients, their slots and their sockets alone.      *)
(***************************************************************************)

LEMMA QuietKeeps ==
    ASSUME ClientsInv,
           UNCHANGED <<fd, isDoing, client, wants, sock, reply, backlog>>,
           ready' \in SUBSET ready,
           pc' = "dispatch" /\ "srv" \in ready' => pc = "dispatch"
    PROVE  ClientsInv'
<1>1. ClientTypes'
  BY DEF ClientsInv, ClientTypes
<1>2. SlotsAreUsed' /\ RequestsInOrder' /\ AnswersInOrder' /\ TransfersOfUsers'
  BY DEF ClientsInv, SlotsAreUsed, Uses, Holds, RequestsInOrder, AnswersInOrder,
         TransfersOfUsers
<1>3. ReadyStays'
  BY DEF ClientsInv, ReadyStays
<1>4. BacklogWaits'
  BY DEF ClientsInv, BacklogWaits
<1> QED
  BY <1>1, <1>2, <1>3, <1>4 DEF ClientsInv

\* What holds of the client whose turn it is.
LEMMA TurnOfUser ==
    ASSUME ClientsInv, WatchInv, NEW t \in Tokens, PeerTurn(t)
    PROVE  /\ fd[t] \in Clients
           /\ wants[fd[t]] = t
           /\ isDoing[t] = "idle"
           /\ sock[fd[t]] \in Seq(Requests)
           /\ sock[fd[t]] # <<>>
           /\ reply[fd[t]] = "none"
           /\ client[fd[t]] \in {"open", "reading", "asking", "quitting"}
           /\ "srv" \notin ready
<1> USE DaemonAssumption
<1>1. fd[t] \in Clients
  BY DEF PeerTurn, ClientsInv, ClientTypes, WatchInv, WatchTypes, Fds
<1>2. wants[fd[t]] = t
  BY <1>1 DEF ClientsInv, SlotsAreUsed
<1>3. isDoing[t] = "idle" /\ sock[fd[t]] # <<>>
  BY <1>1, <1>2 DEF PeerTurn, ClientsInv, ReadyStays
<1>4. sock[fd[t]] \in Seq(Requests)
  BY <1>1 DEF ClientsInv, ClientTypes
<1>5. 1 \in 1 .. Len(sock[fd[t]])
  BY <1>3, <1>4
<1>6. reply[fd[t]] = "none" /\ client[fd[t]] \notin {"off", "connecting"}
  BY <1>1, <1>5 DEF ClientsInv, RequestsInOrder
<1> QED
  BY <1>1, <1>2, <1>3, <1>6 DEF PeerTurn, ClientsInv, ClientTypes, ClientStates

\* poll() reports the clients that wait in slots it looks at.
LEMMA WhatIsReady ==
    ASSUME WatchInv, SlotsInv, ClientsInv, NEW f \in ReadyFds
    PROVE  \/ f = "srv" /\ backlog # <<>>
           \/ f \in Watchers
           \/ /\ f \in Clients
              /\ sock[f] # <<>>
              /\ isDoing[wants[f]] = "idle"
<1> USE DaemonAssumption
<1>1. CASE f \in ReadyListener
  BY <1>1 DEF ReadyListener
<1>2. CASE f \in Watching
  <2>1. PICK i \in 1 .. Len(watch) : f = watch[i].fd
    BY <1>2 DEF Watching, WatchInv, WatchTypes
  <2>2. watch[i] \in [fd : Watchers, next : 0 .. MaxTokens]
    BY ElementOfSeq DEF WatchInv, WatchTypes
  <2> QED
    BY <2>1, <2>2
<1>3. CASE \E u \in PeerSet : /\ f = fd[u] /\ fd[u] # None
                              /\ isDoing[u] = "idle" /\ sock[fd[u]] # <<>>
  <2>1. PICK u \in PeerSet : /\ f = fd[u] /\ fd[u] # None
                             /\ isDoing[u] = "idle" /\ sock[fd[u]] # <<>>
    BY <1>3
  <2>2. u \in Tokens
    BY DEF PeerSet, SlotsInv
  <2>3. f \in Clients /\ wants[f] = u
    BY <2>1, <2>2 DEF ClientsInv, ClientTypes, SlotsAreUsed
  <2> QED
    BY <2>1, <2>3
<1>4. ReadyFds = ReadyListener
        \cup {fd[t] : t \in {u \in PeerSet : /\ fd[u] # None
                                             /\ isDoing[u] = "idle"
                                             /\ sock[fd[u]] # <<>>}}
        \cup {w \in Watching : watcher[w] = "closed"}
  BY DEF ReadyFds
<1> QED
  BY <1>1, <1>2, <1>3, <1>4

\* So what it reported is there when it is looked at.
LEMMA PollKeeps ==
    ASSUME ClientsInv, WatchInv, SlotsInv, Poll
    PROVE  ClientsInv'
<1> USE DaemonAssumption DEF ClientsInv, ClientTypes
<1>1. /\ UNCHANGED <<fd, isDoing, client, wants, sock, reply, backlog>>
      /\ ready' = ReadyFds
  BY DEF Poll, clientVars
<1>2. \A f \in ReadyFds : \/ f = "srv" /\ backlog # <<>>
                          \/ f \in Watchers
                          \/ /\ f \in Clients /\ sock[f] # <<>>
                             /\ isDoing[wants[f]] = "idle"
  BY WhatIsReady
<1>3. ClientTypes'
  BY <1>1, <1>2 DEF Connection, Requests, Results, ClientStates
<1>4. SlotsAreUsed'
  BY <1>1, <1>2 DEF SlotsAreUsed, Uses, Holds
<1>5. RequestsInOrder'
  BY <1>1, <1>2 DEF RequestsInOrder
<1>6. AnswersInOrder'
  BY <1>1, <1>2 DEF AnswersInOrder
<1>7. TransfersOfUsers'
  BY <1>1, <1>2 DEF TransfersOfUsers
<1>8. ReadyStays'
  BY <1>1, <1>2 DEF ReadyStays
<1>9. BacklogWaits'
  BY <1>1, <1>2 DEF BacklogWaits
<1> QED
  BY <1>3, <1>4, <1>5, <1>6, <1>7, <1>8, <1>9

\* A descriptor that had its turn is not looked at again.
LEMMA ReadyShrinks ==
    ASSUME NEW handled, NextReady(handled)
    PROVE  ready' \in SUBSET (ready \ handled) /\ pc' \in {"top", "dispatch"}
  BY DEF NextReady

\* The oldest connection attempt: what was asked, and what stays in line.
LEMMA HeadOfBacklog ==
    ASSUME ClientsInv, backlog # <<>>
    PROVE  /\ Head(backlog) = backlog[1] /\ Head(backlog) \in Connection
           /\ Tail(backlog) \in Seq(Connection)
           /\ Len(Tail(backlog)) = Len(backlog) - 1
           /\ \A i \in 1 .. Len(Tail(backlog)) : Tail(backlog)[i] = backlog[i + 1]
  BY HeadTailProperties DEF ClientsInv, ClientTypes

\* A client that is accepted waits for the answer, and gets the slot only
\* if nobody has it.
LEMMA AcceptClientKeeps ==
    ASSUME ClientsInv, WatchInv, AcceptClient,
           NEW c, c = Head(backlog).fd, NEW t, t = Head(backlog).token
    PROVE  ClientsInv'
<1> USE DaemonAssumption DEF ClientsInv, ClientTypes
<1>1. backlog # <<>>
  BY DEF AcceptClient, ReadyStays
<1>2. /\ c \in Clients /\ t \in Tokens
      /\ backlog[1].fd = c /\ backlog[1].token = t
      /\ Len(backlog) \in Nat \ {0}
      /\ backlog' \in Seq(Connection)
      /\ Len(backlog') = Len(backlog) - 1
      /\ \A i \in 1 .. Len(backlog') : backlog'[i] = backlog[i + 1]
  BY <1>1, HeadOfBacklog DEF AcceptClient, Connection
<1>3. client[c] = "connecting" /\ reply[c] = "none" /\ wants[c] = t
  BY <1>2 DEF BacklogWaits
<1>4. /\ UNCHANGED <<isDoing, client, wants, sock>>
      /\ reply' = [reply EXCEPT ![c] = Response(t)]
      /\ fd' = IF Response(t) = "ok" THEN [fd EXCEPT ![t] = c] ELSE fd
      /\ Response(t) \in {"ok", "busy", "doesnt_exist"}
      /\ Response(t) = "ok" => fd[t] = None
  BY DEF AcceptClient, Response
<1>5. ready' \in SUBSET (ready \ {"srv"})
  BY ReadyShrinks DEF AcceptClient
<1>6. ClientTypes'
  BY <1>2, <1>4 DEF Connection, Requests, Results, ClientStates
<1>7. SlotsAreUsed'
  BY <1>3, <1>4 DEF SlotsAreUsed, Uses, Holds
<1>8. RequestsInOrder'
  BY <1>3, <1>4 DEF RequestsInOrder
<1>9. AnswersInOrder'
  BY <1>3, <1>4 DEF AnswersInOrder
<1>10. TransfersOfUsers'
  BY <1>3, <1>4 DEF TransfersOfUsers
<1>11. ReadyStays'
  BY <1>4, <1>5 DEF ReadyStays
<1>12. BacklogWaits'
  <2>1. \A i \in 1 .. Len(backlog') :
          i + 1 \in 1 .. Len(backlog) /\ backlog'[i] = backlog[i + 1]
    BY <1>2
  <2>2. ASSUME NEW i \in 1 .. Len(backlog'), backlog'[i].fd \in Clients
        PROVE  /\ client'[backlog'[i].fd] = "connecting"
               /\ reply'[backlog'[i].fd] = "none"
               /\ wants'[backlog'[i].fd] = backlog'[i].token
    <3>1. i + 1 \in 1 .. Len(backlog) /\ 1 \in 1 .. Len(backlog) /\ i + 1 # 1
      BY <1>2
    <3>2. backlog'[i] = backlog[i + 1]
      BY <2>1
    <3>3. /\ client[backlog[i + 1].fd] = "connecting"
          /\ reply[backlog[i + 1].fd] = "none"
          /\ wants[backlog[i + 1].fd] = backlog[i + 1].token
      BY <2>2, <3>1, <3>2 DEF BacklogWaits
    <3>4. backlog[i + 1].fd # backlog[1].fd
      BY <2>2, <3>1, <3>2 DEF BacklogWaits
    <3> QED
      BY <3>3, <3>4, <1>2, <1>4
  <2>3. ASSUME NEW i \in 1 .. Len(backlog'), NEW j \in 1 .. Len(backlog'),
               backlog'[i].fd \in Clients, backlog'[i].fd = backlog'[j].fd
        PROVE  i = j
    <3>1. /\ i + 1 \in 1 .. Len(backlog) /\ j + 1 \in 1 .. Len(backlog)
          /\ backlog[i + 1].fd \in Clients /\ backlog[i + 1].fd = backlog[j + 1].fd
      BY <2>1, <2>3
    <3>2. i + 1 = j + 1
      BY <3>1 DEF BacklogWaits
    <3> QED
      BY <3>2
  <2> QED
    BY <2>2, <2>3 DEF BacklogWaits
<1> QED
  BY <1>6, <1>7, <1>8, <1>9, <1>10, <1>11, <1>12

\* Accepting a watcher changes nothing for the clients.
LEMMA AcceptWatcherKeeps ==
    ASSUME ClientsInv, WatchInv, AcceptWatcher
    PROVE  ClientsInv'
<1> USE DaemonAssumption DEF ClientsInv, ClientTypes
<1>1. backlog # <<>>
  BY DEF AcceptWatcher, ReadyStays
<1>2. /\ Head(backlog) = backlog[1]
      /\ Len(backlog) \in Nat \ {0}
      /\ backlog' \in Seq(Connection)
      /\ Len(backlog') = Len(backlog) - 1
      /\ \A i \in 1 .. Len(backlog') : backlog'[i] = backlog[i + 1]
  BY <1>1, HeadOfBacklog DEF AcceptWatcher
<1>3. UNCHANGED <<fd, isDoing, client, wants, sock, reply, ready>> /\ pc' # "dispatch"
  BY DEF AcceptWatcher, clientVars
<1>4. ClientTypes'
  BY <1>2, <1>3 DEF Connection, Requests, Results, ClientStates
<1>5. SlotsAreUsed'
  BY <1>3 DEF SlotsAreUsed, Uses, Holds
<1>6. RequestsInOrder'
  BY <1>3 DEF RequestsInOrder
<1>7. AnswersInOrder'
  BY <1>3 DEF AnswersInOrder
<1>8. TransfersOfUsers'
  BY <1>3 DEF TransfersOfUsers
<1>9. ReadyStays'
  BY <1>3 DEF ReadyStays
<1>10. BacklogWaits'
  <2>1. \A i \in 1 .. Len(backlog') :
          i + 1 \in 1 .. Len(backlog) /\ backlog'[i] = backlog[i + 1]
    BY <1>2
  <2>2. ASSUME NEW i \in 1 .. Len(backlog'), backlog'[i].fd \in Clients
        PROVE  /\ client'[backlog'[i].fd] = "connecting"
               /\ reply'[backlog'[i].fd] = "none"
               /\ wants'[backlog'[i].fd] = backlog'[i].token
    <3>1. i + 1 \in 1 .. Len(backlog) /\ 1 \in 1 .. Len(backlog) /\ i + 1 # 1
      BY <1>2
    <3>2. backlog'[i] = backlog[i + 1]
      BY <2>1
    <3>3. /\ client[backlog[i + 1].fd] = "connecting"
          /\ reply[backlog[i + 1].fd] = "none"
          /\ wants[backlog[i + 1].fd] = backlog[i + 1].token
      BY <2>2, <3>1, <3>2 DEF BacklogWaits
    <3> QED
      BY <3>3, <1>2, <1>3
  <2>3. ASSUME NEW i \in 1 .. Len(backlog'), NEW j \in 1 .. Len(backlog'),
               backlog'[i].fd \in Clients, backlog'[i].fd = backlog'[j].fd
        PROVE  i = j
    <3>1. /\ i + 1 \in 1 .. Len(backlog) /\ j + 1 \in 1 .. Len(backlog)
          /\ backlog[i + 1].fd \in Clients /\ backlog[i + 1].fd = backlog[j + 1].fd
      BY <2>1, <2>3
    <3>2. i + 1 = j + 1
      BY <3>1 DEF BacklogWaits
    <3> QED
      BY <3>2
  <2> QED
    BY <2>2, <2>3 DEF BacklogWaits
<1> QED
  BY <1>4, <1>5, <1>6, <1>7, <1>8, <1>9, <1>10

\* The oldest request of a client, and what is left of its socket.
LEMMA HeadOfSocket ==
    ASSUME ClientsInv, NEW c \in Clients, sock[c] # <<>>
    PROVE  /\ Head(sock[c]) = sock[c][1] /\ Head(sock[c]) \in Requests
           /\ Len(sock[c]) \in Nat \ {0}
           /\ Tail(sock[c]) \in Seq(Requests)
           /\ Len(Tail(sock[c])) = Len(sock[c]) - 1
           /\ \A i \in 1 .. Len(Tail(sock[c])) : Tail(sock[c])[i] = sock[c][i + 1]
           /\ Head(sock[c]).op = "quit" => client[c] = "quitting" /\ Len(sock[c]) = 1
           /\ Head(sock[c]).op = "read" => client[c] = "reading" /\ Len(sock[c]) = 1
           /\ Head(sock[c]) \in OtherRequests /\ Head(sock[c]).op # "gpio_set" =>
                 client[c] = "asking" /\ Len(sock[c]) = 1
<1>1. sock[c] \in Seq(Requests)
  BY DEF ClientsInv, ClientTypes
<1>2. /\ Head(sock[c]) = sock[c][1] /\ Head(sock[c]) \in Requests
      /\ Len(sock[c]) \in Nat \ {0}
      /\ Tail(sock[c]) \in Seq(Requests)
      /\ Len(Tail(sock[c])) = Len(sock[c]) - 1
      /\ \A i \in 1 .. Len(Tail(sock[c])) : Tail(sock[c])[i] = sock[c][i + 1]
  BY <1>1, HeadTailProperties
<1>3. 1 \in 1 .. Len(sock[c])
  BY <1>2
<1>4. /\ sock[c][1].op = "quit" => client[c] = "quitting" /\ 1 = Len(sock[c])
      /\ sock[c][1].op = "read" => client[c] = "reading" /\ 1 = Len(sock[c])
      /\ sock[c][1] \in OtherRequests /\ sock[c][1].op # "gpio_set" =>
            client[c] = "asking" /\ 1 = Len(sock[c])
  BY <1>3 DEF ClientsInv, RequestsInOrder
<1> QED
  BY <1>2, <1>4

\* A client that has a request in its socket has a slot.
LEMMA AskersAreUsers ==
    ASSUME ClientsInv, NEW c \in Clients, sock[c] # <<>>
    PROVE  fd[wants[c]] = c
<1>1. sock[c] \in Seq(Requests)
  BY DEF ClientsInv, ClientTypes
<1>2. 1 \in 1 .. Len(sock[c])
  BY <1>1
<1>3. client[c] \notin {"off", "connecting"} /\ reply[c] = "none"
  BY <1>2 DEF ClientsInv, RequestsInOrder
<1>4. client[c] \in ClientStates /\ wants[c] \in Tokens
  BY DEF ClientsInv, ClientTypes
<1>5. Uses(c)
  BY <1>3, <1>4 DEF Uses, Holds, ClientStates
<1> QED
  BY <1>4, <1>5 DEF ClientsInv, SlotsAreUsed

\* QUIT is the last request of its client, so the slot it leaves is not used.
LEMMA QuitKeeps ==
    ASSUME ClientsInv, WatchInv, NEW t \in Tokens, ServeQuit(t), NEW c, c = fd[t]
    PROVE  ClientsInv'
<1> USE DaemonAssumption DEF ClientsInv, ClientTypes
<1>1. /\ c \in Clients /\ wants[c] = t /\ isDoing[t] = "idle" /\ sock[c] # <<>>
      /\ reply[c] = "none" /\ client[c] \in {"open", "reading", "asking", "quitting"}
      /\ "srv" \notin ready
  BY TurnOfUser DEF ServeQuit
<1>2. /\ sock[c][1] = Head(sock[c]) /\ Head(sock[c]) \in Requests
      /\ Len(sock[c]) \in Nat \ {0}
      /\ Tail(sock[c]) \in Seq(Requests) /\ Len(Tail(sock[c])) = Len(sock[c]) - 1
      /\ \A i \in 1 .. Len(Tail(sock[c])) : Tail(sock[c])[i] = sock[c][i + 1]
  BY <1>1, HeadOfSocket
<1>3. sock' = [sock EXCEPT ![c] = Tail(@)] /\ ready' \in SUBSET (ready \ {c})
  BY ReadyShrinks DEF ServeQuit, Serve
<1>4. /\ UNCHANGED <<isDoing, client, wants, backlog>>
      /\ reply' = [reply EXCEPT ![c] = "ok"] /\ fd' = [fd EXCEPT ![t] = None]
  BY DEF ServeQuit, Serve
<1>5. client[c] = "quitting" /\ Len(sock[c]) = 1
  BY <1>1, HeadOfSocket DEF ServeQuit
<1>6. ClientTypes'
  BY <1>2, <1>3, <1>4 DEF Connection, Requests, Results, ClientStates
<1>7. SlotsAreUsed'
  BY <1>4, <1>5 DEF SlotsAreUsed, Uses, Holds
<1>8. RequestsInOrder'
  BY <1>1, <1>3, <1>4, <1>5 DEF RequestsInOrder
<1>9. AnswersInOrder'
  BY <1>4, <1>5 DEF AnswersInOrder
<1>10. TransfersOfUsers'
  BY <1>1, <1>3, <1>4 DEF TransfersOfUsers
<1>11. ReadyStays'
  BY <1>1, <1>3, <1>4 DEF ReadyStays
<1>12. BacklogWaits'
  BY <1>4, <1>5 DEF BacklogWaits
<1> QED
  BY <1>6, <1>7, <1>8, <1>9, <1>10, <1>11, <1>12

\* A read that stays behind has a client that waits for it.
LEMMA TransferKeeps ==
    ASSUME ClientsInv, WatchInv, NEW t \in Tokens, ServeTransfer(t), NEW c, c = fd[t]
    PROVE  ClientsInv'
<1> USE DaemonAssumption DEF ClientsInv, ClientTypes
<1>1. /\ c \in Clients /\ wants[c] = t /\ isDoing[t] = "idle" /\ sock[c] # <<>>
      /\ reply[c] = "none" /\ client[c] \in {"open", "reading", "asking", "quitting"}
      /\ "srv" \notin ready
  BY TurnOfUser DEF ServeTransfer
<1>2. /\ sock[c][1] = Head(sock[c]) /\ Head(sock[c]) \in Requests
      /\ Len(sock[c]) \in Nat \ {0}
      /\ Tail(sock[c]) \in Seq(Requests) /\ Len(Tail(sock[c])) = Len(sock[c]) - 1
      /\ \A i \in 1 .. Len(Tail(sock[c])) : Tail(sock[c])[i] = sock[c][i + 1]
  BY <1>1, HeadOfSocket
<1>3. sock' = [sock EXCEPT ![c] = Tail(@)] /\ ready' \in SUBSET (ready \ {c})
  BY ReadyShrinks DEF ServeTransfer, Serve
<1>4. /\ UNCHANGED <<fd, client, wants, reply, backlog>>
      /\ isDoing' = [isDoing EXCEPT ![t] = Head(sock[c]).op]
  BY DEF ServeTransfer, Serve
<1>5. /\ Head(sock[c]).op \in {"read", "write"}
      /\ Head(sock[c]).op = "read" => client[c] = "reading" /\ Len(sock[c]) = 1
  BY <1>1, HeadOfSocket DEF ServeTransfer
<1>6. \A u \in Tokens : fd[u] = c => u = t
  BY <1>1 DEF SlotsAreUsed
<1>7. \A b \in Clients : wants[b] = t /\ client[b] \in {"reading", "asking"} => b = c
  BY <1>1 DEF SlotsAreUsed, Uses, Holds
<1>8. ClientTypes'
  BY <1>2, <1>3, <1>4, <1>5 DEF Connection, Requests, Results, ClientStates
<1>9. SlotsAreUsed'
  BY <1>4 DEF SlotsAreUsed, Uses, Holds
<1>10. RequestsInOrder'
  BY <1>3, <1>4 DEF RequestsInOrder
<1>11. AnswersInOrder'
  BY <1>1, <1>4, <1>7 DEF AnswersInOrder
<1>12. TransfersOfUsers'
  BY <1>1, <1>2, <1>3, <1>4, <1>5, <1>6 DEF TransfersOfUsers
<1>13. ReadyStays'
  <2>1. ASSUME NEW b \in Clients, b \in ready'
        PROVE  sock'[b] # <<>> /\ isDoing'[wants'[b]] = "idle"
    <3>1. b \in ready /\ b # c /\ sock[b] # <<>> /\ isDoing[wants[b]] = "idle"
      BY <2>1, <1>3 DEF ReadyStays
    <3>2. fd[wants[b]] = b /\ wants[b] \in Tokens
      BY <3>1, AskersAreUsers
    <3> QED
      BY <3>1, <3>2, <1>3, <1>4
  <2> QED
    BY <2>1, <1>1, <1>3 DEF ReadyStays
<1>14. BacklogWaits'
  BY <1>4 DEF BacklogWaits
<1> QED
  BY <1>8, <1>9, <1>10, <1>11, <1>12, <1>13, <1>14

\* A read that is done at once answers its client.
LEMMA TransferAtOnceKeeps ==
    ASSUME ClientsInv, WatchInv, NEW t \in Tokens, ServeTransferAtOnce(t), NEW c, c = fd[t]
    PROVE  ClientsInv'
<1> USE DaemonAssumption DEF ClientsInv, ClientTypes
<1>1. /\ c \in Clients /\ wants[c] = t /\ isDoing[t] = "idle" /\ sock[c] # <<>>
      /\ reply[c] = "none" /\ client[c] \in {"open", "reading", "asking", "quitting"}
      /\ "srv" \notin ready
  BY TurnOfUser DEF ServeTransferAtOnce
<1>2. /\ sock[c][1] = Head(sock[c]) /\ Head(sock[c]) \in Requests
      /\ Len(sock[c]) \in Nat \ {0}
      /\ Tail(sock[c]) \in Seq(Requests) /\ Len(Tail(sock[c])) = Len(sock[c]) - 1
      /\ \A i \in 1 .. Len(Tail(sock[c])) : Tail(sock[c])[i] = sock[c][i + 1]
  BY <1>1, HeadOfSocket
<1>3. sock' = [sock EXCEPT ![c] = Tail(@)] /\ ready' \in SUBSET (ready \ {c})
  BY ReadyShrinks DEF ServeTransferAtOnce, Serve
<1>4. /\ UNCHANGED <<fd, isDoing, client, wants, backlog>>
      /\ reply' = IF Head(sock[c]).op = "read" THEN [reply EXCEPT ![c] = "ok"] ELSE reply
  BY DEF ServeTransferAtOnce, Serve
<1>5. /\ Head(sock[c]).op \in {"read", "write"}
      /\ Head(sock[c]).op = "read" => client[c] = "reading" /\ Len(sock[c]) = 1
  BY <1>1, HeadOfSocket DEF ServeTransferAtOnce
<1>6. ClientTypes'
  BY <1>2, <1>3, <1>4 DEF Connection, Requests, Results, ClientStates
<1>7. SlotsAreUsed'
  BY <1>4, <1>5 DEF SlotsAreUsed, Uses, Holds
<1>8. RequestsInOrder'
  BY <1>3, <1>4 DEF RequestsInOrder
<1>9. AnswersInOrder'
  BY <1>1, <1>4, <1>5 DEF AnswersInOrder
<1>10. TransfersOfUsers'
  BY <1>3, <1>4, <1>5 DEF TransfersOfUsers
<1>11. ReadyStays'
  BY <1>1, <1>3, <1>4 DEF ReadyStays
<1>12. BacklogWaits'
  BY <1>4, <1>5 DEF BacklogWaits
<1> QED
  BY <1>6, <1>7, <1>8, <1>9, <1>10, <1>11, <1>12

\* A pin or peripheral request is answered if its client waits.
LEMMA OtherKeeps ==
    ASSUME ClientsInv, WatchInv, NEW t \in Tokens, NEW a \in Results \cup {"none"},
           ServeOther(t, a), NEW c, c = fd[t]
    PROVE  ClientsInv'
<1> USE DaemonAssumption DEF ClientsInv, ClientTypes
<1>1. /\ c \in Clients /\ wants[c] = t /\ isDoing[t] = "idle" /\ sock[c] # <<>>
      /\ reply[c] = "none" /\ client[c] \in {"open", "reading", "asking", "quitting"}
      /\ "srv" \notin ready
  BY TurnOfUser DEF ServeOther
<1>2. /\ sock[c][1] = Head(sock[c]) /\ Head(sock[c]) \in Requests
      /\ Len(sock[c]) \in Nat \ {0}
      /\ Tail(sock[c]) \in Seq(Requests) /\ Len(Tail(sock[c])) = Len(sock[c]) - 1
      /\ \A i \in 1 .. Len(Tail(sock[c])) : Tail(sock[c])[i] = sock[c][i + 1]
  BY <1>1, HeadOfSocket
<1>3. sock' = [sock EXCEPT ![c] = Tail(@)] /\ ready' \in SUBSET (ready \ {c})
  BY ReadyShrinks DEF ServeOther, Serve
<1>4. /\ UNCHANGED <<fd, isDoing, client, wants, backlog>>
      /\ reply' = IF a = "none" THEN reply ELSE [reply EXCEPT ![c] = a]
  BY DEF ServeOther, Serve
<1>5. a # "none" => client[c] = "asking" /\ Len(sock[c]) = 1
  BY <1>1, HeadOfSocket DEF ServeOther
<1>6. ClientTypes'
  BY <1>2, <1>3, <1>4 DEF Connection, Requests, Results, ClientStates
<1>7. SlotsAreUsed'
  BY <1>4, <1>5 DEF SlotsAreUsed, Uses, Holds
<1>8. RequestsInOrder'
  BY <1>3, <1>4, <1>5 DEF RequestsInOrder
<1>9. AnswersInOrder'
  BY <1>1, <1>4, <1>5 DEF AnswersInOrder
<1>10. TransfersOfUsers'
  BY <1>3, <1>4, <1>5 DEF TransfersOfUsers
<1>11. ReadyStays'
  BY <1>1, <1>3, <1>4 DEF ReadyStays
<1>12. BacklogWaits'
  BY <1>4, <1>5 DEF BacklogWaits
<1> QED
  BY <1>6, <1>7, <1>8, <1>9, <1>10, <1>11, <1>12

\* A transfer that ends late answers only the client of a read.
LEMMA DoneKeeps ==
    ASSUME ClientsInv, WatchInv, NEW t \in Tokens, TransferDone(t), NEW c, c = fd[t]
    PROVE  ClientsInv'
<1> USE DaemonAssumption DEF ClientsInv, ClientTypes
<1>1. c \in Clients /\ wants[c] = t /\ isDoing[t] \in {"read", "write"}
  BY DEF TransferDone, TransfersOfUsers, SlotsAreUsed
<1>2. /\ UNCHANGED <<fd, client, wants, sock, backlog, ready, pc>>
      /\ isDoing' = [isDoing EXCEPT ![t] = "idle"]
      /\ reply' = IF isDoing[t] = "read" THEN [reply EXCEPT ![c] = "ok"] ELSE reply
  BY DEF TransferDone, DoneReply
<1>3. isDoing[t] = "read" => client[c] = "reading" /\ sock[c] = <<>> /\ reply[c] = "none"
  BY <1>1 DEF TransfersOfUsers
<1>4. \A u \in Tokens : fd[u] = c => u = t
  BY <1>1 DEF SlotsAreUsed
<1>5. ClientTypes'
  BY <1>2 DEF Connection, Requests, Results, ClientStates
<1>6. SlotsAreUsed'
  BY <1>2, <1>3 DEF SlotsAreUsed, Uses, Holds
<1>7. RequestsInOrder'
  BY <1>2, <1>3 DEF RequestsInOrder
<1>8. AnswersInOrder'
  BY <1>1, <1>2, <1>3 DEF AnswersInOrder
<1>9. TransfersOfUsers'
  BY <1>2, <1>4 DEF TransfersOfUsers
<1>10. ReadyStays'
  BY <1>2 DEF ReadyStays
<1>11. BacklogWaits'
  BY <1>2, <1>3 DEF BacklogWaits
<1> QED
  BY <1>5, <1>6, <1>7, <1>8, <1>9, <1>10, <1>11

\* A request and an answer are never in a socket together, and a caller that
\* has no connection has neither.
LEMMA NothingAsked ==
    ASSUME ClientsInv, NEW c \in Clients,
           client[c] \in {"off", "connecting"} \/ reply[c] # "none"
    PROVE  sock[c] = <<>>
<1>1. sock[c] \in Seq(Requests)
  BY DEF ClientsInv, ClientTypes
<1>2. SUFFICES ASSUME sock[c] # <<>> PROVE FALSE
  OBVIOUS
<1>3. 1 \in 1 .. Len(sock[c])
  BY <1>1, <1>2
<1> QED
  BY <1>3 DEF ClientsInv, RequestsInOrder

\* A connection attempt joins the end of the line.
LEMMA BacklogGrows ==
    ASSUME ClientsInv, NEW b \in Connection
    PROVE  /\ Append(backlog, b) \in Seq(Connection)
           /\ Len(backlog) \in Nat
           /\ Len(Append(backlog, b)) = Len(backlog) + 1
           /\ \A i \in 1 .. Len(backlog) : Append(backlog, b)[i] = backlog[i]
           /\ Append(backlog, b)[Len(backlog) + 1] = b
  BY AppendProperties DEF ClientsInv, ClientTypes

\* A client that asks for a module waits once, and has nothing yet.
LEMMA ConnectKeeps ==
    ASSUME ClientsInv, WatchInv, NEW c \in Clients, NEW t \in Tokens, Connect(c, t)
    PROVE  ClientsInv'
<1> USE DaemonAssumption DEF ClientsInv, ClientTypes
<1>1. /\ UNCHANGED <<fd, isDoing, sock, reply, ready, pc>>
      /\ client[c] = "off" /\ client' = [client EXCEPT ![c] = "connecting"]
      /\ wants' = [wants EXCEPT ![c] = t]
  BY DEF Connect, daemonVars
<1>2. /\ backlog' \in Seq(Connection) /\ Len(backlog) \in Nat
      /\ Len(backlog') = Len(backlog) + 1
      /\ \A i \in 1 .. Len(backlog) : backlog'[i] = backlog[i]
      /\ backlog'[Len(backlog) + 1] = [fd |-> c, token |-> t]
  BY BacklogGrows DEF Connect, Connection
<1>3. sock[c] = <<>> /\ reply[c] = "none"
  BY <1>1, NothingAsked DEF AnswersInOrder
<1>4. \A i \in 1 .. Len(backlog) : backlog[i].fd # c
  BY <1>1 DEF BacklogWaits
<1>5. ClientTypes'
  BY <1>1, <1>2 DEF Connection, Requests, Results, ClientStates
<1>6. SlotsAreUsed'
  BY <1>1, <1>3 DEF SlotsAreUsed, Uses, Holds
<1>7. RequestsInOrder'
  BY <1>1 DEF RequestsInOrder
<1>8. AnswersInOrder'
  BY <1>1 DEF AnswersInOrder
<1>9. TransfersOfUsers'
  BY <1>1 DEF TransfersOfUsers
<1>10. ReadyStays'
  BY <1>1, <1>2, <1>3 DEF ReadyStays
<1>11. BacklogWaits'
  <2> DEFINE n == Len(backlog) + 1
  <2>1. /\ \A i \in 1 .. Len(backlog') : i \in 1 .. Len(backlog) \/ i = n
        /\ \A i \in 1 .. Len(backlog) : backlog'[i] = backlog[i]
    BY <1>2
  <2>2. ASSUME NEW i \in 1 .. Len(backlog'), backlog'[i].fd \in Clients
        PROVE  /\ client'[backlog'[i].fd] = "connecting"
               /\ reply'[backlog'[i].fd] = "none"
               /\ wants'[backlog'[i].fd] = backlog'[i].token
    <3>1. CASE i \in 1 .. Len(backlog)
      <4>1. backlog'[i] = backlog[i] /\ backlog[i].fd \in Clients
        BY <3>1, <2>1, <2>2
      <4>2. /\ client[backlog[i].fd] = "connecting"
            /\ reply[backlog[i].fd] = "none"
            /\ wants[backlog[i].fd] = backlog[i].token
        BY <3>1, <4>1 DEF BacklogWaits
      <4> QED
        BY <4>1, <4>2, <1>1
    <3>2. CASE i = n
      BY <3>2, <1>1, <1>2, <1>3
    <3> QED
      BY <2>1, <3>1, <3>2
  <2>3. ASSUME NEW i \in 1 .. Len(backlog'), NEW j \in 1 .. Len(backlog'),
               backlog'[i].fd \in Clients, backlog'[i].fd = backlog'[j].fd
        PROVE  i = j
    <3>1. CASE i \in 1 .. Len(backlog) /\ j \in 1 .. Len(backlog)
      BY <3>1, <2>1, <2>3 DEF BacklogWaits
    <3>2. CASE i = n \/ j = n
      <4>1. \A k \in 1 .. Len(backlog) :
               backlog[k].fd \in Clients => backlog[k].fd # backlog'[n].fd
        BY <1>2, <1>4
      <4> QED
        BY <3>2, <4>1, <2>1, <2>3
    <3> QED
      BY <2>1, <3>1, <3>2
  <2> QED
    BY <2>2, <2>3 DEF BacklogWaits
<1> QED
  BY <1>5, <1>6, <1>7, <1>8, <1>9, <1>10, <1>11

\* A watcher that waits to be accepted is no client.
LEMMA WatchCreateKeeps ==
    ASSUME ClientsInv, WatchInv, NEW w \in Watchers, WatchCreate(w)
    PROVE  ClientsInv'
<1> USE DaemonAssumption DEF ClientsInv, ClientTypes
<1>1. UNCHANGED <<fd, isDoing, client, wants, sock, reply, ready, pc>>
  BY DEF WatchCreate, daemonVars, clientVars
<1>2. /\ backlog' \in Seq(Connection) /\ Len(backlog) \in Nat
      /\ Len(backlog') = Len(backlog) + 1
      /\ \A i \in 1 .. Len(backlog) : backlog'[i] = backlog[i]
      /\ backlog'[Len(backlog) + 1] = [fd |-> w, token |-> WatchRequest]
  BY BacklogGrows DEF WatchCreate, Connection
<1>3. ClientTypes'
  BY <1>1, <1>2 DEF Connection, Requests, Results, ClientStates
<1>4. SlotsAreUsed'
  BY <1>1 DEF SlotsAreUsed, Uses, Holds
<1>5. RequestsInOrder'
  BY <1>1 DEF RequestsInOrder
<1>6. AnswersInOrder'
  BY <1>1 DEF AnswersInOrder
<1>7. TransfersOfUsers'
  BY <1>1 DEF TransfersOfUsers
<1>8. ReadyStays'
  BY <1>1, <1>2 DEF ReadyStays
<1>9. BacklogWaits'
  <2> DEFINE n == Len(backlog) + 1
  <2>1. /\ \A i \in 1 .. Len(backlog') : i \in 1 .. Len(backlog) \/ i = n
        /\ \A i \in 1 .. Len(backlog) : backlog'[i] = backlog[i]
    BY <1>2
  <2>2. ASSUME NEW i \in 1 .. Len(backlog'), backlog'[i].fd \in Clients
        PROVE  /\ client'[backlog'[i].fd] = "connecting"
               /\ reply'[backlog'[i].fd] = "none"
               /\ wants'[backlog'[i].fd] = backlog'[i].token
    <3>1. CASE i \in 1 .. Len(backlog)
      <4>1. backlog'[i] = backlog[i] /\ backlog[i].fd \in Clients
        BY <3>1, <2>1, <2>2
      <4>2. /\ client[backlog[i].fd] = "connecting"
            /\ reply[backlog[i].fd] = "none"
            /\ wants[backlog[i].fd] = backlog[i].token
        BY <3>1, <4>1 DEF BacklogWaits
      <4> QED
        BY <4>1, <4>2, <1>1
    <3>2. CASE i = n
      BY <3>2, <2>2, <1>2
    <3> QED
      BY <2>1, <3>1, <3>2
  <2>3. ASSUME NEW i \in 1 .. Len(backlog'), NEW j \in 1 .. Len(backlog'),
               backlog'[i].fd \in Clients, backlog'[i].fd = backlog'[j].fd
        PROVE  i = j
    <3>1. CASE i \in 1 .. Len(backlog) /\ j \in 1 .. Len(backlog)
      BY <3>1, <2>1, <2>3 DEF BacklogWaits
    <3>2. CASE i = n \/ j = n
      <4>1. \A k \in 1 .. Len(backlog) :
               backlog[k].fd \in Clients => backlog[k].fd # backlog'[n].fd
        BY <1>2
      <4> QED
        BY <3>2, <4>1, <2>1, <2>3
    <3> QED
      BY <2>1, <3>1, <3>2
  <2> QED
    BY <2>2, <2>3 DEF BacklogWaits
<1> QED
  BY <1>3, <1>4, <1>5, <1>6, <1>7, <1>8, <1>9

\* The client that was told OK, and no other, has the slot.
LEMMA ConnectedKeeps ==
    ASSUME ClientsInv, WatchInv, NEW c \in Clients, Connected(c)
    PROVE  ClientsInv'
<1> USE DaemonAssumption DEF ClientsInv, ClientTypes
<1>1. /\ UNCHANGED <<fd, isDoing, wants, sock, backlog, ready, pc>>
      /\ client[c] \in {"connecting"} /\ reply[c] # "none"
      /\ client' = [client EXCEPT ![c] = IF reply[c] = "ok" THEN "open" ELSE "off"]
      /\ reply' = [reply EXCEPT ![c] = "none"]
  BY DEF Connected, daemonVars
<1>2. ClientTypes'
  BY <1>1 DEF Connection, Requests, Results, ClientStates
<1>3. SlotsAreUsed'
  BY <1>1 DEF SlotsAreUsed, Uses, Holds
<1>4. RequestsInOrder'
  BY <1>1 DEF RequestsInOrder
<1>5. AnswersInOrder'
  BY <1>1 DEF AnswersInOrder
<1>6. TransfersOfUsers'
  BY <1>1 DEF TransfersOfUsers
<1>7. ReadyStays'
  BY <1>1 DEF ReadyStays
<1>8. BacklogWaits'
  BY <1>1 DEF BacklogWaits
<1> QED
  BY <1>2, <1>3, <1>4, <1>5, <1>6, <1>7, <1>8

\* A client that has its answer has nothing under way.
LEMMA CallDoneKeeps ==
    ASSUME ClientsInv, WatchInv, NEW c \in Clients, CallDone(c)
    PROVE  ClientsInv'
<1> USE DaemonAssumption DEF ClientsInv, ClientTypes
<1>1. /\ UNCHANGED <<fd, isDoing, wants, sock, backlog, ready, pc>>
      /\ client[c] \in {"reading", "asking"} /\ reply[c] # "none"
      /\ client' = [client EXCEPT ![c] = "open"]
      /\ reply' = [reply EXCEPT ![c] = "none"]
  BY DEF CallDone, daemonVars
<1>2. ClientTypes'
  BY <1>1 DEF Connection, Requests, Results, ClientStates
<1>3. SlotsAreUsed'
  BY <1>1 DEF SlotsAreUsed, Uses, Holds
<1>4. RequestsInOrder'
  BY <1>1 DEF RequestsInOrder
<1>5. AnswersInOrder'
  BY <1>1 DEF AnswersInOrder
<1>6. TransfersOfUsers'
  BY <1>1 DEF TransfersOfUsers
<1>7. ReadyStays'
  BY <1>1 DEF ReadyStays
<1>8. BacklogWaits'
  BY <1>1 DEF BacklogWaits
<1> QED
  BY <1>2, <1>3, <1>4, <1>5, <1>6, <1>7, <1>8

\* A client that was told it has quit has no slot.
LEMMA DisconnectedKeeps ==
    ASSUME ClientsInv, WatchInv, NEW c \in Clients, Disconnected(c)
    PROVE  ClientsInv'
<1> USE DaemonAssumption DEF ClientsInv, ClientTypes
<1>1. /\ UNCHANGED <<fd, isDoing, wants, sock, backlog, ready, pc>>
      /\ client[c] \in {"quitting"} /\ reply[c] # "none"
      /\ client' = [client EXCEPT ![c] = "off"]
      /\ reply' = [reply EXCEPT ![c] = "none"]
  BY DEF Disconnected, daemonVars
<1>2. ClientTypes'
  BY <1>1 DEF Connection, Requests, Results, ClientStates
<1>3. SlotsAreUsed'
  BY <1>1 DEF SlotsAreUsed, Uses, Holds
<1>4. RequestsInOrder'
  BY <1>1 DEF RequestsInOrder
<1>5. AnswersInOrder'
  BY <1>1 DEF AnswersInOrder
<1>6. TransfersOfUsers'
  BY <1>1 DEF TransfersOfUsers
<1>7. ReadyStays'
  BY <1>1 DEF ReadyStays
<1>8. BacklogWaits'
  BY <1>1 DEF BacklogWaits
<1> QED
  BY <1>2, <1>3, <1>4, <1>5, <1>6, <1>7, <1>8

\* A client that has asked for something to wait for asks for nothing else.
LEMMA RequestKeeps ==
    ASSUME ClientsInv, WatchInv, NEW c \in Clients, NEW r \in Requests, NEW after,
           Request(c, r, after),
           after = CASE r.op = "quit" -> "quitting"
                     [] r.op = "read" -> "reading"
                     [] r.op \in {"write", "gpio_set"} -> "open"
                     [] OTHER -> "asking"
    PROVE  ClientsInv'
<1> USE DaemonAssumption DEF ClientsInv, ClientTypes
<1>1. /\ UNCHANGED <<fd, isDoing, wants, reply, backlog, ready, pc>>
      /\ client[c] = "open"
      /\ sock' = [sock EXCEPT ![c] = Append(@, r)]
      /\ client' = [client EXCEPT ![c] = after]
  BY DEF Request, daemonVars
<1>2. reply[c] = "none"
  BY <1>1 DEF AnswersInOrder
<1>3. \A i \in 1 .. Len(sock[c]) :
        /\ sock[c][i].op \notin {"quit", "read"}
        /\ sock[c][i] \in OtherRequests => sock[c][i].op = "gpio_set"
  BY <1>1 DEF RequestsInOrder
<1>4. ClientTypes'
  BY <1>1 DEF Connection, Requests, Results, ClientStates
<1>5. SlotsAreUsed'
  BY <1>1, <1>2 DEF SlotsAreUsed, Uses, Holds
<1>6. RequestsInOrder'
  <2>1. ASSUME NEW b \in Clients, NEW i \in 1 .. Len(sock'[b])
        PROVE  /\ client'[b] \notin {"off", "connecting"}
               /\ reply'[b] = "none"
               /\ sock'[b][i].op = "quit" => client'[b] = "quitting" /\ i = Len(sock'[b])
               /\ sock'[b][i].op = "read" => client'[b] = "reading" /\ i = Len(sock'[b])
               /\ sock'[b][i] \in OtherRequests /\ sock'[b][i].op # "gpio_set" =>
                     client'[b] = "asking" /\ i = Len(sock'[b])
    <3>1. CASE b # c
      BY <3>1, <1>1 DEF RequestsInOrder
    <3>2. CASE b = c /\ i \in 1 .. Len(sock[c])
      <4>1. sock'[b][i] = sock[c][i] /\ client'[b] = after
        BY <3>2, <1>1
      <4>2. reply'[b] = "none" /\ client'[b] \notin {"off", "connecting"}
        BY <3>2, <1>1, <1>2
      <4>3. /\ sock'[b][i].op \notin {"quit", "read"}
            /\ sock'[b][i] \in OtherRequests => sock'[b][i].op = "gpio_set"
        BY <3>2, <4>1, <1>3
      <4> QED
        BY <4>2, <4>3
    <3>3. CASE b = c /\ i = Len(sock[c]) + 1
      BY <3>3, <1>1, <1>2
    <3> QED
      BY <3>1, <3>2, <3>3, <1>1
  <2> QED
    BY <2>1 DEF RequestsInOrder
<1>7. AnswersInOrder'
  BY <1>1 DEF AnswersInOrder
<1>8. TransfersOfUsers'
  BY <1>1 DEF TransfersOfUsers
<1>9. ReadyStays'
  BY <1>1 DEF ReadyStays
<1>10. BacklogWaits'
  BY <1>1 DEF BacklogWaits
<1> QED
  BY <1>4, <1>5, <1>6, <1>7, <1>8, <1>9, <1>10

\* No step disturbs what is known of the clients.
LEMMA ClientsStep == IInv /\ [Next]_vars => ClientsInv'
<1> SUFFICES ASSUME IInv, [Next]_vars PROVE ClientsInv'
  OBVIOUS
<1> USE DaemonAssumption DEF IInv
<1>1. CASE Poll
  BY <1>1, PollKeeps
<1>2. CASE AcceptClient
  BY <1>2, AcceptClientKeeps
<1>3. CASE AcceptWatcher
  BY <1>3, AcceptWatcherKeeps
<1>4. CASE Operate
  <2>1. ASSUME NEW t \in Tokens, ServeQuit(t) PROVE ClientsInv'
    BY <2>1, QuitKeeps
  <2>2. ASSUME NEW t \in Tokens, ServeTransfer(t) PROVE ClientsInv'
    BY <2>2, TransferKeeps
  <2>3. ASSUME NEW t \in Tokens, ServeTransferAtOnce(t) PROVE ClientsInv'
    BY <2>3, TransferAtOnceKeeps
  <2>4. ASSUME NEW t \in Tokens, NEW a \in Results \cup {"none"}, ServeOther(t, a)
        PROVE  ClientsInv'
    BY <2>4, OtherKeeps
  <2> QED
    BY <1>4, <2>1, <2>2, <2>3, <2>4 DEF Operate
<1>5. CASE \E t \in Tokens : TransferDone(t)
  BY <1>5, DoneKeeps
<1>6. ASSUME NEW c \in Clients, ClientStep(c) PROVE ClientsInv'
  <2>1. ASSUME NEW t \in Tokens, Connect(c, t) PROVE ClientsInv'
    BY <2>1, ConnectKeeps
  <2>2. CASE Connected(c)
    BY <2>2, ConnectedKeeps
  <2>3. CASE CallDone(c)
    BY <2>3, CallDoneKeeps
  <2>4. CASE Disconnected(c)
    BY <2>4, DisconnectedKeeps
  <2>5. CASE RequestWrite(c)
    BY <2>5, RequestKeeps DEF RequestWrite, Requests
  <2>6. CASE RequestRead(c)
    BY <2>6, RequestKeeps DEF RequestRead, Requests
  <2>7. CASE Disconnect(c)
    BY <2>7, RequestKeeps DEF Disconnect, Requests
  <2>8. ASSUME NEW r \in OtherRequests, RequestOther(c, r) PROVE ClientsInv'
    <3>1. r \in Requests /\ r.op \notin {"quit", "read", "write"}
      BY DEF Requests
    <3> QED
      BY <2>8, <3>1, RequestKeeps DEF RequestOther
  <2> QED
    BY <1>6, <2>1, <2>2, <2>3, <2>4, <2>5, <2>6, <2>7, <2>8 DEF ClientStep
<1>7. ASSUME NEW w \in Watchers, WatchCreate(w) PROVE ClientsInv'
  BY <1>7, WatchCreateKeeps
<1>8. CASE /\ UNCHANGED <<fd, isDoing, client, wants, sock, reply, backlog>>
           /\ ready' \in SUBSET ready
           /\ pc' = "dispatch" /\ "srv" \in ready' => pc = "dispatch"
  BY <1>8, QuietKeeps
<1>9. \/ /\ UNCHANGED <<fd, isDoing, client, wants, sock, reply, backlog>>
         /\ ready' \in SUBSET ready
         /\ pc' = "dispatch" /\ "srv" \in ready' => pc = "dispatch"
      \/ Poll \/ AcceptClient \/ AcceptWatcher \/ Operate
      \/ \E t \in Tokens : TransferDone(t)
      \/ \E c \in Clients : ClientStep(c)
      \/ \E w \in Watchers : WatchCreate(w)
  <2> DEFINE Quiet == /\ UNCHANGED <<fd, isDoing, client, wants, sock, reply, backlog>>
                      /\ ready' \in SUBSET ready
                      /\ pc' = "dispatch" /\ "srv" \in ready' => pc = "dispatch"
  <2>1. CASE MainLoop
    <3>1. PollerPresence => Quiet
      BY DEF PollerPresence, daemonVars, clientVars
    <3>2. AddTokens => Quiet
      BY DEF AddTokens, clientVars
    <3>3. WriteToken => Quiet
      BY DEF WriteToken, clientVars
    <3>4. ASSUME NEW i, NEW count, AfterWatcher(i, count)
          PROVE  /\ ready' \in SUBSET ready
                 /\ pc' = "dispatch" /\ "srv" \in ready' => pc = "dispatch"
      <4>1. CASE pc = "updateAll"
        BY <3>4, <4>1 DEF AfterWatcher
      <4>2. CASE pc # "updateAll"
        BY <3>4, <4>2 DEF AfterWatcher, NextReady
      <4> QED
        BY <4>1, <4>2
    <3>5. WriteToClosed => Quiet
      BY <3>4 DEF WriteToClosed, clientVars
    <3>6. WatcherUpToDate => Quiet
      BY <3>4 DEF WatcherUpToDate, clientVars
    <3>7. ASSUME NEW i \in DOMAIN watch, WatcherHungUp(i) PROVE Quiet
      BY <3>7 DEF WatcherHungUp, WatcherTurn, NextReady, clientVars
    <3>8. ASSUME NEW i \in DOMAIN watch,
                 FreshReadsZero(i) \/ FreshReadsPollout(i) \/ FreshReadsPollhup(i)
                 \/ FreshReadsOther(i)
          PROVE  Quiet
      BY <3>8 DEF FreshReadsZero, FreshReadsPollout, FreshReadsPollhup,
             FreshReadsOther, WatcherTurn, NextReady, clientVars
    <3> HIDE DEF Quiet
    <3> QED
      BY <2>1, <3>1, <3>2, <3>3, <3>5, <3>6, <3>7, <3>8 DEF MainLoop, Quiet
  <2>2. CASE ModuleArrives \/ UNCHANGED vars
    BY <2>2 DEF ModuleArrives, vars, daemonVars, clientVars
  <2>3. CASE \E w \in Watchers : WatcherStep(w)
    BY <2>3 DEF WatcherStep, WatchWait, WatchDestroy, daemonVars, clientVars
  <2> QED
    BY <2>1, <2>2, <2>3 DEF Next
<1> QED
  BY <1>1, <1>2, <1>3, <1>4, <1>5, <1>6, <1>7, <1>8, <1>9

(***************************************************************************)
(* The watchers.                                                           *)
(***************************************************************************)

Entry == [fd : Watchers, next : 0 .. MaxTokens]

\* The daemon goes on with a descriptor only if one is left.
LEMMA NextReadyKeeps ==
    ASSUME WatchInv, pc \in {"updateNew", "dispatch"}, NEW handled, NextReady(handled)
    PROVE  /\ pc' \in {"top", "dispatch"}
           /\ ready' \in SUBSET Fds
           /\ remaining' \in Nat
           /\ pc' = "dispatch" => remaining' > 0
  BY DEF WatchInv, WatchTypes, Place, NextReady

\* One watcher less.
LEMMA WithoutWatcherType ==
    ASSUME WatchInv, NEW i \in 1 .. Len(watch)
    PROVE  /\ WithoutWatcher(i) \in Seq(Entry)
           /\ Len(WithoutWatcher(i)) = Len(watch) - 1
<1>1. watch \in Seq(Entry) /\ Len(watch) \in 1 .. Len(watch)
  BY DEF WatchInv, WatchTypes, Entry
<1>2. watch[Len(watch)] \in Entry
  BY <1>1, ElementOfSeq
<1>3. /\ [watch EXCEPT ![i] = watch[Len(watch)]] \in Seq(Entry)
      /\ Len([watch EXCEPT ![i] = watch[Len(watch)]]) = Len(watch)
  BY <1>1, <1>2, ExceptSeq
<1> QED
  BY <1>1, <1>3, SubSeqProperties DEF WithoutWatcher

\* The update of one watcher is followed by that of the next or by the end.
LEMMA AfterWatcherKeeps ==
    ASSUME WatchInv, pc \in {"updateAll", "updateNew"},
           NEW i \in Nat \ {0}, NEW count \in Nat, AfterWatcher(i, count)
    PROVE  /\ pc' \in {"top", "updateAll", "dispatch"}
           /\ wi' \in Nat \ {0}
           /\ pc' = "updateAll" => wi' <= count
           /\ ready' \in SUBSET Fds
           /\ remaining' \in Nat
           /\ pc' = "dispatch" => remaining' > 0
<1>1. CASE pc = "updateAll"
  BY <1>1 DEF AfterWatcher, WatchInv, WatchTypes, Place
<1>2. CASE pc = "updateNew"
  BY <1>2, NextReadyKeeps DEF AfterWatcher
<1> QED
  BY <1>1, <1>2

\* The numbers are well ordered.
LEMMA LowestIsIn ==
    ASSUME NEW S \in SUBSET Nat, S # {}
    PROVE  Lowest(S) \in S
<1>1. IsWellFoundedOn(OpToRel(<, Nat), Nat)
  BY NatLessThanWellFounded
<1>2. \E x \in S : \A y \in S : ~ (<<y, x>> \in OpToRel(<, Nat))
  BY <1>1, WFMin
<1>3. PICK x \in S : \A y \in S : ~ (<<y, x>> \in OpToRel(<, Nat))
  BY <1>2
<1>4. ASSUME NEW y \in S PROVE x <= y
  <2>1. y < x => <<y, x>> \in OpToRel(<, Nat)
    BY Zenon DEF OpToRel
  <2>2. ~ (<<y, x>> \in OpToRel(<, Nat))
    BY <1>3, Zenon
  <2>3. ~ (y < x)
    BY <2>1, <2>2, Zenon
  <2> QED
    BY <2>3
<1>5. \E z \in S : \A y \in S : z <= y
  BY <1>4
<1> QED
  BY <1>5 DEF Lowest

\* A change of one counter.
LEMMA NextUpdate ==
    ASSUME WatchInv, NEW i \in 1 .. Len(watch), NEW n \in 0 .. MaxTokens
    PROVE  /\ [watch EXCEPT ![i].next = n] \in Seq(Entry)
           /\ Len([watch EXCEPT ![i].next = n]) = Len(watch)
<1>1. watch \in Seq(Entry)
  BY DEF WatchInv, WatchTypes, Entry
<1>2. watch[i] \in Entry
  BY <1>1, ElementOfSeq
<1>3. [watch[i] EXCEPT !.next = n] \in Entry
  BY <1>2 DEF Entry
<1>4. PICK e \in Entry : e = [watch[i] EXCEPT !.next = n]
  BY <1>3
<1>5. /\ [watch EXCEPT ![i] = e] \in Seq(Entry)
      /\ Len([watch EXCEPT ![i] = e]) = Len(watch)
  BY <1>1, ExceptSeq
<1>6. [watch EXCEPT ![i].next = n] = [watch EXCEPT ![i] = e]
  BY <1>4
<1> QED
  BY <1>5, <1>6

\* One byte for one watcher.
LEMMA WriteTokenKeeps == SlotsInv /\ WatchInv /\ WriteToken => WatchInv'
<1> SUFFICES ASSUME SlotsInv, WatchInv, WriteToken PROVE WatchInv'
  OBVIOUS
<1> USE DaemonAssumption
<1> DEFINE w == watch[wi].fd
           t == Lowest(Unsent(wi))
<1>1. /\ inbox' = [inbox EXCEPT ![w] = Append(@, t)]
      /\ watch' = [watch EXCEPT ![wi].next = t + 1]
      /\ UNCHANGED <<somethingHappened, pc, ready, fresh, watcher, got, wi, remaining>>
      /\ pc \in {"updateAll", "updateNew"} /\ Unsent(wi) # {}
  BY DEF WriteToken, pollerVars
<1>2. wi \in 1 .. Len(watch) /\ watch[wi] \in Entry
  <2>1. wi \in 1 .. Len(watch) /\ watch \in Seq(Entry)
    BY <1>1 DEF WatchInv, WatchTypes, Place, Entry
  <2> QED
    BY <2>1, ElementOfSeq
<1>3. t \in Tokens
  <2>1. watch[wi].next \in Nat /\ globalTokenCount \in 0 .. MaxTokens
    BY <1>2 DEF Entry, SlotsInv, Counts
  <2>2. Unsent(wi) \subseteq Tokens
    BY <2>1 DEF Unsent, OtherTokens, Tokens
  <2>3. Unsent(wi) \in SUBSET Nat
    BY <2>2 DEF Tokens
  <2> QED
    BY <1>1, <2>2, <2>3, LowestIsIn
<1> HIDE DEF t
<1>4. watch' \in Seq(Entry) /\ Len(watch') = Len(watch)
  <2>1. t + 1 \in 0 .. MaxTokens
    BY <1>3 DEF Tokens
  <2> QED
    BY <1>1, <1>2, <2>1, NextUpdate
<1>5. inbox' \in [Watchers -> Seq(Tokens)]
  <2>1. inbox \in [Watchers -> Seq(Tokens)] /\ w \in Watchers
    BY <1>2 DEF WatchInv, WatchTypes, Entry
  <2>2. Append(inbox[w], t) \in Seq(Tokens)
    BY <1>3, <2>1, AppendProperties
  <2> QED
    BY <1>1, <2>1, <2>2
<1> QED
  BY <1>1, <1>4, <1>5 DEF WatchInv, WatchTypes, Place, Entry

\* The end of the update of one watcher.
LEMMA UpdateEndsKeeps ==
    SlotsInv /\ WatchInv /\ (WriteToClosed \/ WatcherUpToDate) => WatchInv'
<1> SUFFICES ASSUME SlotsInv, WatchInv, WriteToClosed \/ WatcherUpToDate PROVE WatchInv'
  OBVIOUS
<1> USE DaemonAssumption
<1>1. /\ pc \in {"updateAll", "updateNew"}
      /\ UNCHANGED <<somethingHappened, fresh, watcher, inbox, got>>
  BY DEF WriteToClosed, WatcherUpToDate, pollerVars, watcherVars
<1>2. wi \in 1 .. Len(watch)
  BY <1>1 DEF WatchInv, WatchTypes, Place
<1>3. /\ watch' \in Seq(Entry)
      /\ pc' \in {"top", "updateAll", "dispatch"}
      /\ wi' \in Nat \ {0}
      /\ pc' = "updateAll" => wi' <= Len(watch')
      /\ ready' \in SUBSET Fds
      /\ remaining' \in Nat
      /\ pc' = "dispatch" => remaining' > 0
  <2>1. CASE WriteToClosed
    <3>1. /\ watch' = WithoutWatcher(wi)
          /\ AfterWatcher(wi, Len(watch) - 1)
          /\ wi \in Nat \ {0}
          /\ Len(watch) - 1 \in Nat
      BY <2>1, <1>2 DEF WriteToClosed
    <3>2. watch' \in Seq(Entry) /\ Len(watch') = Len(watch) - 1
      BY <1>2, <3>1, WithoutWatcherType
    <3> QED
      BY <1>1, <3>1, <3>2, AfterWatcherKeeps
  <2>2. CASE WatcherUpToDate
    <3>1. /\ watch' = [watch EXCEPT ![wi].next = globalTokenCount]
          /\ AfterWatcher(wi + 1, Len(watch))
          /\ wi + 1 \in Nat \ {0}
          /\ Len(watch) \in Nat
      BY <2>2, <1>2 DEF WatcherUpToDate
    <3>2. watch' \in Seq(Entry) /\ Len(watch') = Len(watch)
      <4>1. globalTokenCount \in 0 .. MaxTokens
        BY DEF SlotsInv, Counts
      <4> QED
        BY <1>2, <3>1, <4>1, NextUpdate
    <3> QED
      BY <1>1, <3>1, <3>2, AfterWatcherKeeps
  <2> QED
    BY <2>1, <2>2
<1> QED
  BY <1>1, <1>3 DEF WatchInv, WatchTypes, Place, Entry

\* poll() returns a number of descriptors that is not zero.
LEMMA PollFindsSome == SlotsInv /\ WatchInv /\ ClientsInv /\ Poll => WatchInv'
<1> SUFFICES ASSUME SlotsInv, WatchInv, ClientsInv, Poll PROVE WatchInv'
  OBVIOUS
<1> USE DaemonAssumption
<1>1. ReadyFds \subseteq Fds
  BY WhatIsReady DEF Fds
<1>2. IsFiniteSet(Fds)
  <2>1. IsFiniteSet(Clients \cup Watchers)
    BY FS_Union, Zenon
  <2> QED
    BY <2>1, FS_Singleton, FS_Union, Zenon DEF Fds
<1>3. IsFiniteSet(ReadyFds)
  BY <1>1, <1>2, FS_Subset, Zenon
<1>4. Cardinality(ReadyFds) \in Nat
  BY <1>3, FS_CardinalityType, Zenon
<1>5. Cardinality(ReadyFds) # 0
  BY <1>3, FS_EmptySet, Zenon DEF Poll
<1>6. /\ pc' = "dispatch" /\ ready' = ReadyFds /\ remaining' = Cardinality(ReadyFds)
      /\ fresh' = {}
      /\ UNCHANGED <<somethingHappened, watch, watcher, inbox, got, wi>>
  BY DEF Poll, pollerVars, watcherVars
<1> QED
  BY <1>1, <1>4, <1>5, <1>6 DEF WatchInv, WatchTypes, Place

\* The turn of a descriptor that is not a new watcher.
LEMMA TurnKeeps ==
    ASSUME WatchInv, pc = "dispatch", NEW handled, NextReady(handled),
           UNCHANGED <<somethingHappened, watcher, inbox, got, wi>>,
           watch' \in Seq(Entry), fresh' \in SUBSET Watchers
    PROVE  WatchInv'
<1>1. /\ pc' \in {"top", "dispatch"}
      /\ ready' \in SUBSET Fds
      /\ remaining' \in Nat
      /\ pc' = "dispatch" => remaining' > 0
  BY NextReadyKeeps
<1> QED
  BY <1>1 DEF WatchInv, WatchTypes, Place, Entry

\* The connection of a watcher.
LEMMA NewWatcherKeeps == WatchInv /\ ClientsInv /\ AcceptWatcher => WatchInv'
<1> SUFFICES ASSUME WatchInv, ClientsInv, AcceptWatcher PROVE WatchInv'
  OBVIOUS
<1> USE DaemonAssumption
<1>1. Head(backlog) \in Connection
  BY HeadOfBacklog DEF AcceptWatcher, ClientsInv, ReadyStays
<1>2. Head(backlog).fd \in Watchers
  BY <1>1 DEF AcceptWatcher, Connection, WatchRequest, Tokens
<1>3. [fd |-> Head(backlog).fd, next |-> 0] \in Entry
  BY <1>2 DEF Entry
<1>4. watch \in Seq(Entry)
  BY DEF WatchInv, WatchTypes, Entry
<1>5. /\ watch' = Append(watch, [fd |-> Head(backlog).fd, next |-> 0])
      /\ fresh' = {Head(backlog).fd}
      /\ wi' = Len(watch) + 1
      /\ pc = "dispatch" /\ pc' = "updateNew"
      /\ UNCHANGED <<somethingHappened, ready, remaining, watcher, inbox, got>>
  BY DEF AcceptWatcher, pollerVars, watcherVars
<1>6. watch' \in Seq(Entry) /\ Len(watch') = Len(watch) + 1
  BY <1>3, <1>4, <1>5
<1>7. wi' \in Nat \ {0} /\ wi' <= Len(watch')
  BY <1>5
<1> QED
  BY <1>5, <1>6, <1>7 DEF WatchInv, WatchTypes, Place, Entry

\* No step disturbs what is known of the watchers and of the daemon's place.
LEMMA WatchStep == IInv /\ [Next]_vars => WatchInv'
<1> SUFFICES ASSUME IInv, [Next]_vars PROVE WatchInv'
  OBVIOUS
<1> USE DaemonAssumption DEF IInv
<1>1. watch \in Seq(Entry) /\ fresh \in SUBSET Watchers
  BY DEF WatchInv, WatchTypes, Entry
<1>2. CASE UNCHANGED <<somethingHappened, pc, watch, ready, fresh, watcher, inbox,
                       got, wi, remaining>>
  BY <1>2 DEF WatchInv, WatchTypes, Place
<1>3. CASE ModuleArrives \/ UNCHANGED vars
  BY <1>2, <1>3 DEF ModuleArrives, vars, pollerVars, daemonVars, watcherVars
<1>4. CASE MainLoop
  <2>1. CASE PollerPresence
    BY <2>1 DEF PollerPresence, daemonVars, watcherVars, WatchInv, WatchTypes, Place
  <2>2. CASE AddTokens
    <3>1. watch # <<>> => Len(watch) \in Nat \ {0}
      BY <1>1, EmptySeq
    <3>2. /\ somethingHappened' = FALSE /\ wi' = 1
          /\ pc' = "top" \/ (pc' = "updateAll" /\ watch # <<>>)
          /\ UNCHANGED <<watch, ready, fresh, watcher, inbox, got, remaining>>
      BY <2>2, Zenon DEF AddTokens, watcherVars
    <3>3. WatchTypes'
      BY <3>2 DEF WatchInv, WatchTypes
    <3>4. Place'
      BY <3>1, <3>2 DEF WatchInv, Place
    <3> QED
      BY <3>3, <3>4 DEF WatchInv
  <2>3. CASE WriteToken
    BY <2>3, WriteTokenKeeps
  <2>4. CASE WriteToClosed \/ WatcherUpToDate
    BY <2>4, UpdateEndsKeeps
  <2>5. CASE Poll
    BY <2>5, PollFindsSome
  <2>6. CASE AcceptClient
    <3>1. /\ pc = "dispatch" /\ NextReady({"srv"})
          /\ UNCHANGED <<somethingHappened, watch, fresh, watcher, inbox, got, wi>>
      BY <2>6 DEF AcceptClient, pollerVars, watcherVars
    <3> QED
      BY <1>1, <3>1, TurnKeeps
  <2>7. CASE AcceptWatcher
    BY <2>7, NewWatcherKeeps
  <2>8. ASSUME NEW i \in DOMAIN watch, WatcherHungUp(i) \/ FreshReadsPollhup(i)
        PROVE  WatchInv'
    <3>1. i \in 1 .. Len(watch)
      BY <1>1
    <3>2. watch' \in Seq(Entry)
      BY <2>8, <3>1, WithoutWatcherType DEF WatcherHungUp, FreshReadsPollhup
    <3>3. PICK handled : NextReady(handled)
      BY <2>8, Zenon DEF WatcherHungUp, FreshReadsPollhup
    <3>4. /\ pc = "dispatch" /\ fresh' \in SUBSET Watchers
          /\ UNCHANGED <<somethingHappened, watcher, inbox, got, wi>>
      BY <1>1, <2>8 DEF WatcherHungUp, FreshReadsPollhup, WatcherTurn, pollerVars, watcherVars
    <3> QED
      BY <3>2, <3>3, <3>4, TurnKeeps
  <2>9. ASSUME NEW i \in DOMAIN watch, FreshReadsZero(i) \/ FreshReadsOther(i)
        PROVE  WatchInv'
    <3>1. /\ fresh' \in SUBSET Watchers /\ pc' \in {pc, "aborted"}
          /\ UNCHANGED <<somethingHappened, watch, ready, watcher, inbox, got, wi, remaining>>
      BY <1>1, <2>9 DEF FreshReadsZero, FreshReadsOther, pollerVars, watcherVars
    <3>2. WatchTypes'
      BY <3>1 DEF WatchInv, WatchTypes
    <3>3. Place'
      BY <3>1 DEF WatchInv, Place
    <3> QED
      BY <3>2, <3>3 DEF WatchInv
  <2>10. ASSUME NEW i \in DOMAIN watch, FreshReadsPollout(i) PROVE WatchInv'
    <3>1. /\ pc = "dispatch" /\ NextReady({}) /\ fresh' = {}
          /\ UNCHANGED <<somethingHappened, watch, watcher, inbox, got, wi>>
      BY <2>10 DEF FreshReadsPollout, WatcherTurn, pollerVars, watcherVars
    <3> QED
      BY <1>1, <3>1, TurnKeeps
  <2> QED
    BY <1>4, <2>1, <2>2, <2>3, <2>4, <2>5, <2>6, <2>7, <2>8, <2>9, <2>10 DEF MainLoop
<1>5. CASE Operate
  <2>1. PICK handled : /\ pc = "dispatch" /\ NextReady(handled)
                       /\ UNCHANGED <<somethingHappened, watch, fresh, watcher, inbox, got, wi>>
    <3>1. ASSUME NEW t \in Tokens, ServeQuit(t) \/ ServeTransfer(t) \/ ServeTransferAtOnce(t)
          PROVE  /\ pc = "dispatch" /\ NextReady({fd[t]})
                 /\ UNCHANGED <<somethingHappened, watch, fresh, watcher, inbox, got, wi>>
      BY <3>1 DEF ServeQuit, ServeTransfer, ServeTransferAtOnce, Serve, PeerTurn, pollerVars,
                  watcherVars
    <3>2. ASSUME NEW t \in Tokens, NEW a, ServeOther(t, a)
          PROVE  /\ pc = "dispatch" /\ NextReady({fd[t]})
                 /\ UNCHANGED <<somethingHappened, watch, fresh, watcher, inbox, got, wi>>
      BY <3>2 DEF ServeOther, Serve, PeerTurn, pollerVars, watcherVars
    <3> QED
      BY <1>5, <3>1, <3>2, Zenon DEF Operate
  <2> QED
    BY <1>1, <2>1, TurnKeeps
<1>6. CASE \E t \in Tokens : TransferDone(t)
  BY <1>2, <1>6 DEF TransferDone, pollerVars, watcherVars
<1>7. ASSUME NEW c \in Clients, ClientStep(c) PROVE WatchInv'
  BY <1>2, <1>7 DEF ClientStep, Connect, Connected, Request, RequestWrite, RequestRead,
         RequestOther, Disconnect, CallDone, Disconnected, pollerVars, daemonVars, watcherVars
<1>8. ASSUME NEW w \in Watchers, WatcherStep(w) PROVE WatchInv'
  <2>1. CASE WatchCreate(w) \/ WatchDestroy(w)
    <3>1. /\ \/ watcher' = [watcher EXCEPT ![w] = "open"]
             \/ watcher' = [watcher EXCEPT ![w] = "closed"]
          /\ UNCHANGED <<somethingHappened, pc, watch, ready, fresh, inbox, got, wi, remaining>>
      BY <2>1 DEF WatchCreate, WatchDestroy, pollerVars, daemonVars
    <3>2. watcher' \in [Watchers -> WatcherStates]
      BY <3>1 DEF WatchInv, WatchTypes, WatcherStates
    <3> QED
      BY <3>1, <3>2 DEF WatchInv, WatchTypes, Place
  <2>2. CASE WatchWait(w)
    <3>1. inbox[w] \in Seq(Tokens) /\ got[w] \in Seq(Tokens) /\ inbox[w] # <<>>
      BY <2>2 DEF WatchWait, WatchInv, WatchTypes
    <3>2. Tail(inbox[w]) \in Seq(Tokens) /\ Append(got[w], Head(inbox[w])) \in Seq(Tokens)
      BY <3>1, HeadTailProperties, AppendProperties
    <3> QED
      BY <2>2, <3>2 DEF WatchWait, pollerVars, daemonVars, WatchInv, WatchTypes, Place
  <2> QED
    BY <1>8, <2>1, <2>2 DEF WatcherStep
<1> QED
  BY <1>3, <1>4, <1>5, <1>6, <1>7, <1>8 DEF Next

(***************************************************************************)
(* The theorems.                                                           *)
(***************************************************************************)

LEMMA InitIInv == Init => IInv
<1> SUFFICES ASSUME Init PROVE IInv
  OBVIOUS
<1> USE DaemonAssumption DEF Init
<1>1. SlotsInv
  BY DEF SlotsInv, Counts, SlotsEnumerateTokens
<1>2. WatchInv
  <2>1. WatchTypes
    <3>1. watch \in Seq([fd : Watchers, next : 0 .. MaxTokens])
      BY EmptySeq
    <3>2. inbox \in [Watchers -> Seq(Tokens)] /\ got \in [Watchers -> Seq(Tokens)]
      BY EmptySeq
    <3> QED
      BY <3>1, <3>2 DEF WatchTypes, WatcherStates
  <2>2. Place
    BY DEF Place
  <2> QED
    BY <2>1, <2>2 DEF WatchInv
<1>3. ClientTypes
  BY DEF ClientTypes, ClientStates, Tokens
<1>4. SlotsAreUsed
  BY DEF SlotsAreUsed, Uses, Holds
<1>5. RequestsInOrder /\ AnswersInOrder /\ TransfersOfUsers /\ ReadyStays /\ BacklogWaits
  BY DEF RequestsInOrder, AnswersInOrder, TransfersOfUsers, ReadyStays, BacklogWaits
<1> QED
  BY <1>1, <1>2, <1>3, <1>4, <1>5 DEF IInv, ClientsInv

\* The slots, the loop and the clients are always as IInv says: no step of the
\* daemon, of a client or of a watcher leads out of it.
THEOREM DaemonInvariant == Spec => []IInv
<1>1. IInv /\ [Next]_vars => IInv'
  BY SlotsStep, WatchStep, ClientsStep DEF IInv
<1> QED
  BY InitIInv, <1>1, PTL DEF Spec

\* Every variable of the daemon and of its callers keeps its type; in particular
\* the slot indices stay in range and remaining_ready_fds never goes below zero.
THEOREM DaemonTypes == Spec => []TypeOK
<1>1. IInv => TypeOK
  BY DaemonAssumption DEF IInv, SlotsInv, Counts, WatchInv, WatchTypes, Place, ClientsInv,
     ClientTypes, Connection, TypeOK
<1> QED
  BY <1>1, DaemonInvariant, PTL

\* The slots name every module the daemon has heard of except itself, once and in
\* order (the uint8_t arithmetic of the loop that appends peer_datas).
THEOREM DaemonSlots == Spec => []SlotsEnumerateTokens
<1>1. IInv => SlotsEnumerateTokens
  BY DEF IInv, SlotsInv
<1> QED
  BY <1>1, DaemonInvariant, PTL

\* No two clients use one module, from the OK of mcpd_connect() to the QUIT of
\* mcpd_disconnect().
THEOREM DaemonOneClientPerModule == Spec => []OneClientPerModule
<1>1. IInv => OneClientPerModule
  <2> SUFFICES ASSUME IInv, NEW c \in Clients, NEW d \in Clients,
                      Holds(c), Holds(d), wants[c] = wants[d]
               PROVE  c = d
    BY DEF OneClientPerModule
  <2>1. wants[c] \in Tokens /\ Uses(c) /\ Uses(d)
    BY DEF IInv, ClientsInv, ClientTypes, Uses
  <2>2. fd[wants[c]] = c /\ fd[wants[c]] = d
    BY <2>1 DEF IInv, ClientsInv, SlotsAreUsed
  <2> QED
    BY <2>2
<1> QED
  BY <1>1, DaemonInvariant, PTL

\* The byte a client reads answers the call it made, even if a transfer that
\* nobody waits for ends late.
THEOREM DaemonAnswersMatchCalls == Spec => []AnswersMatchCalls
<1>1. IInv => AnswersMatchCalls
  <2> SUFFICES ASSUME IInv, NEW c \in Clients
               PROVE  /\ reply[c] # "none" => client[c] \notin {"off", "open"}
                      /\ client[c] \in {"reading", "quitting"} => reply[c] \in {"none", "ok"}
                      /\ client[c] \in {"reading", "asking"} /\ reply[c] # "none" =>
                            sock[c] = <<>> /\ isDoing[wants[c]] = "idle"
    BY DEF AnswersMatchCalls
  <2>1. reply[c] # "none" => sock[c] = <<>>
    BY EmptySeq DEF IInv, ClientsInv, ClientTypes, RequestsInOrder
  <2> QED
    BY <2>1 DEF IInv, ClientsInv, AnswersInOrder
<1> QED
  BY <1>1, DaemonInvariant, PTL

(***************************************************************************)
(* What the watchers were told.                                            *)
(***************************************************************************)

\* What a watcher has read or can read.
Heard(w) == got[w] \o inbox[w]

\* Those who wait to be accepted.
Line == {backlog[k].fd : k \in 1 .. Len(backlog)}

\* No watcher is in the line of those who wait to be accepted twice.
OnceInLine ==
    \A i, j \in 1 .. Len(backlog) :
        backlog[i].fd \in Watchers /\ backlog[i].fd = backlog[j].fd => i = j

\* A watcher is connected once: it waits to be accepted, or has one entry.
WatchersOnce ==
    /\ OnceInLine
    /\ \A i, j \in 1 .. Len(watch) : watch[i].fd = watch[j].fd => i = j
    /\ \A i \in 1 .. Len(watch) : watch[i].fd \notin Line /\ watcher[watch[i].fd] # "off"
    /\ \A w \in Watchers : watcher[w] = "off" => w \notin Line
    /\ \A w \in Watchers : watcher[w] = "off" \/ w \in Line => got[w] = <<>> /\ inbox[w] = <<>>

\* wd.next[] is how far a watcher has been told.
HeardUpToNext ==
    \A i \in 1 .. Len(watch) : /\ watch[i].next <= globalTokenCount
                               /\ Heard(watch[i].fd) = TokensBelow(watch[i].next)

\* Only the entries that the loop over the watchers has not come to are behind.
BehindAreAhead ==
    /\ pc \in {"top", "dispatch"} => \A i \in 1 .. Len(watch) : Unsent(i) = {}
    /\ pc \in {"updateAll", "updateNew"} => \A i \in 1 .. wi - 1 : Unsent(i) = {}
    /\ pc = "updateNew" => wi = Len(watch)

ToldInv == WatchersOnce /\ HeardUpToNext /\ BehindAreAhead

\* How many tokens below n name a module.
LEMMA TokensBelowFacts ==
    ASSUME NEW n \in 0 .. MaxTokens
    PROVE  /\ TokensBelow(n) \in Seq(Tokens)
           /\ Len(TokensBelow(n)) = IF MyToken < n THEN n - 1 ELSE n
           /\ \A k \in 1 .. Len(TokensBelow(n)) :
                 TokensBelow(n)[k] = IF k <= MyToken THEN k - 1 ELSE k
<1> USE DaemonAssumption
<1> DEFINE c == IF MyToken < n THEN n - 1 ELSE n
<1>1. OtherTokens(0, n) = (0 .. n - 1) \ {MyToken}
  BY DEF OtherTokens
<1>2. IsFiniteSet(0 .. n - 1) /\ Cardinality(0 .. n - 1) = n
  BY FS_Interval
<1>3. Cardinality(OtherTokens(0, n)) = c
  <2>1. Cardinality((0 .. n - 1) \ {MyToken}) = IF MyToken \in 0 .. n - 1 THEN n - 1 ELSE n
    BY <1>2, FS_RemoveElement
  <2>2. MyToken \in 0 .. n - 1 <=> MyToken < n
    OBVIOUS
  <2> QED
    BY <1>1, <2>1, <2>2
<1>4. TokensBelow(n) = [k \in 1 .. c |-> IF k <= MyToken THEN k - 1 ELSE k]
  BY <1>3 DEF TokensBelow
<1>5. c \in Nat
  OBVIOUS
<1>6. \A k \in 1 .. c : (IF k <= MyToken THEN k - 1 ELSE k) \in Tokens
  BY DEF Tokens
<1> HIDE DEF c
<1>7. TokensBelow(n) \in Seq(Tokens) /\ Len(TokensBelow(n)) = c
  BY <1>4, <1>5, <1>6
<1> QED
  BY <1>4, <1>7 DEF c

\* The next token a watcher is told continues what it has heard.
LEMMA NextToken ==
    ASSUME NEW n \in 0 .. MaxTokens, NEW g \in n .. MaxTokens,
           OtherTokens(n, g) # {}, NEW t, t = Lowest(OtherTokens(n, g))
    PROVE  /\ t \in n .. g - 1 /\ t # MyToken /\ t + 1 \in 0 .. g
           /\ \A u \in 0 .. g - 1 : u # MyToken => (u < t <=> u < n)
           /\ TokensBelow(t + 1) = Append(TokensBelow(n), t)
<1> USE DaemonAssumption
<1> DEFINE S == OtherTokens(n, g)
<1>1. S \in SUBSET Nat
  BY DEF OtherTokens
<1>2. t \in S
  BY <1>1, LowestIsIn
<1>3. \A u \in S : t <= u
  <2>1. \E x \in S : \A u \in S : x <= u
    <3>1. IsWellFoundedOn(OpToRel(<, Nat), Nat)
      BY NatLessThanWellFounded
    <3>2. \E x \in S : \A y \in S : ~ (<<y, x>> \in OpToRel(<, Nat))
      BY <1>1, <3>1, WFMin
    <3>3. PICK x \in S : \A y \in S : ~ (<<y, x>> \in OpToRel(<, Nat))
      BY <3>2
    <3>4. ASSUME NEW y \in S PROVE x <= y
      <4>1. y < x => <<y, x>> \in OpToRel(<, Nat)
        BY <1>1, Zenon DEF OpToRel
      <4>2. ~ (<<y, x>> \in OpToRel(<, Nat))
        BY <3>3, Zenon
      <4>3. ~ (y < x)
        BY <4>1, <4>2, Zenon
      <4> QED
        BY <1>1, <4>3
    <3> QED
      BY <3>4
  <2> QED
    BY <2>1 DEF Lowest
<1>4. t \in n .. g - 1 /\ t # MyToken
  BY <1>2 DEF OtherTokens
<1>5. t = IF n = MyToken THEN n + 1 ELSE n
  <2>1. ASSUME NEW u \in n .. g - 1, u # MyToken PROVE t <= u
    BY <1>3, <2>1 DEF OtherTokens
  <2> QED
    BY <1>4, <2>1
<1>6. TokensBelow(t + 1) = Append(TokensBelow(n), t)
  <2>1. t + 1 \in 0 .. MaxTokens /\ t \in Tokens
    BY <1>4 DEF Tokens
  <2> DEFINE a == TokensBelow(n)
             b == TokensBelow(t + 1)
  <2>2. /\ a \in Seq(Tokens) /\ Len(a) = (IF MyToken < n THEN n - 1 ELSE n)
        /\ \A k \in 1 .. Len(a) : a[k] = IF k <= MyToken THEN k - 1 ELSE k
    BY TokensBelowFacts
  <2>3. /\ b \in Seq(Tokens) /\ Len(b) = (IF MyToken < t + 1 THEN t ELSE t + 1)
        /\ \A k \in 1 .. Len(b) : b[k] = IF k <= MyToken THEN k - 1 ELSE k
    <3> DEFINE m == t + 1
    <3>1. /\ TokensBelow(m) \in Seq(Tokens)
          /\ Len(TokensBelow(m)) = (IF MyToken < m THEN m - 1 ELSE m)
          /\ \A k \in 1 .. Len(TokensBelow(m)) :
                TokensBelow(m)[k] = IF k <= MyToken THEN k - 1 ELSE k
      <4>1. m \in 0 .. MaxTokens
        BY <2>1
      <4> HIDE DEF m
      <4> QED
        BY <4>1, TokensBelowFacts
    <3>2. m - 1 = t
      BY <2>1 DEF Tokens
    <3> HIDE DEF TokensBelow
    <3> QED
      BY <3>1, <3>2
  <2> HIDE DEF a, b
  <2>4. /\ Append(a, t) \in Seq(Tokens)
        /\ Len(Append(a, t)) = Len(a) + 1
        /\ \A k \in 1 .. Len(a) : Append(a, t)[k] = a[k]
        /\ Append(a, t)[Len(a) + 1] = t
    BY <2>1, <2>2, AppendProperties
  <2>5. Len(b) = Len(a) + 1 /\ Len(a) \in Nat
    BY <1>4, <1>5, <2>2, <2>3
  <2>6. t = IF Len(a) + 1 <= MyToken THEN Len(a) ELSE Len(a) + 1
    BY <1>4, <1>5, <2>2
  <2>7. \A k \in 1 .. Len(b) : b[k] = Append(a, t)[k]
    BY <2>2, <2>3, <2>4, <2>5, <2>6
  <2>8. b = Append(a, t)
    BY <2>3, <2>4, <2>5, <2>7, SeqEqual
  <2> QED
    BY <2>8 DEF a, b
<1> QED
  BY <1>4, <1>5, <1>6

\* A watcher that is not behind has been told everything.
LEMMA NothingLeft ==
    ASSUME NEW n \in 0 .. MaxTokens, NEW g \in n .. MaxTokens, OtherTokens(n, g) = {}
    PROVE  TokensBelow(n) = TokensBelow(g)
<1> USE DaemonAssumption
<1>1. n = g \/ (n = MyToken /\ g = n + 1)
  <2>1. \A u \in n .. g - 1 : u = MyToken
    BY DEF OtherTokens
  <2>2. CASE n < g
    <3>1. n \in n .. g - 1 /\ g - 1 \in n .. g - 1
      BY <2>2
    <3> QED
      BY <2>1, <3>1
  <2> QED
    BY <2>2
<1>2. CASE n = MyToken /\ g = n + 1
  <2> DEFINE a == TokensBelow(n)
             b == TokensBelow(g)
  <2>1. /\ a \in Seq(Tokens) /\ Len(a) = n
        /\ \A k \in 1 .. Len(a) : a[k] = IF k <= MyToken THEN k - 1 ELSE k
    BY <1>2, TokensBelowFacts
  <2>2. /\ b \in Seq(Tokens) /\ Len(b) = n
        /\ \A k \in 1 .. Len(b) : b[k] = IF k <= MyToken THEN k - 1 ELSE k
    BY <1>2, TokensBelowFacts
  <2> HIDE DEF a, b
  <2>3. a = b
    BY <2>1, <2>2, SeqEqual
  <2> QED
    BY <2>3 DEF a, b
<1> QED
  BY <1>1, <1>2

\* What moves from a socket to its reader stays the same in all.
LEMMA HeardStays ==
    ASSUME NEW a \in Seq(Tokens), NEW b \in Seq(Tokens), b # <<>>
    PROVE  Append(a, Head(b)) \o Tail(b) = a \o b
<1>1. /\ Head(b) \in Tokens /\ Tail(b) \in Seq(Tokens) /\ Len(Tail(b)) = Len(b) - 1
      /\ \A i \in 1 .. Len(b) - 1 : Tail(b)[i] = b[i + 1]
      /\ Len(b) \in Nat \ {0} /\ Head(b) = b[1]
  BY HeadTailProperties, EmptySeq
<1>2. /\ Append(a, Head(b)) \in Seq(Tokens) /\ Len(Append(a, Head(b))) = Len(a) + 1
      /\ \A i \in 1 .. Len(a) : Append(a, Head(b))[i] = a[i]
      /\ Append(a, Head(b))[Len(a) + 1] = b[1]
      /\ Len(a) \in Nat
  BY <1>1, AppendProperties
<1> DEFINE x == Append(a, Head(b)) \o Tail(b)
           y == a \o b
<1>3. /\ x \in Seq(Tokens) /\ Len(x) = Len(a) + Len(b)
      /\ \A i \in 1 .. Len(a) + Len(b) :
            x[i] = IF i <= Len(a) + 1 THEN Append(a, Head(b))[i] ELSE Tail(b)[i - (Len(a) + 1)]
  <2>1. /\ x \in Seq(Tokens) /\ Len(x) = (Len(a) + 1) + (Len(b) - 1)
        /\ \A i \in 1 .. (Len(a) + 1) + (Len(b) - 1) :
              x[i] = IF i <= Len(a) + 1 THEN Append(a, Head(b))[i] ELSE Tail(b)[i - (Len(a) + 1)]
    BY <1>1, <1>2, ConcatProperties
  <2> QED
    BY <1>1, <1>2, <2>1
<1>4. /\ y \in Seq(Tokens) /\ Len(y) = Len(a) + Len(b)
      /\ \A i \in 1 .. Len(a) + Len(b) : y[i] = IF i <= Len(a) THEN a[i] ELSE b[i - Len(a)]
  BY ConcatProperties
<1> HIDE DEF x, y
<1>5. ASSUME NEW i \in 1 .. Len(x) PROVE x[i] = y[i]
  <2>1. CASE i <= Len(a)
    BY <1>1, <1>2, <1>3, <1>4, <2>1
  <2>2. CASE i = Len(a) + 1
    BY <1>1, <1>2, <1>3, <1>4, <2>2
  <2>3. CASE i > Len(a) + 1
    <3> DEFINE k == i - (Len(a) + 1)
    <3>1. k \in 1 .. Len(b) - 1 /\ k + 1 = i - Len(a)
      BY <1>1, <1>2, <1>3, <2>3
    <3>2. x[i] = Tail(b)[k]
      BY <1>2, <1>3, <2>3
    <3>3. y[i] = b[i - Len(a)]
      BY <1>2, <1>3, <1>4, <2>3
    <3> HIDE DEF k
    <3>4. Tail(b)[k] = b[k + 1]
      BY <1>1, <3>1
    <3> QED
      BY <3>1, <3>2, <3>3, <3>4
  <2>4. i \in Nat
    BY <1>1, <1>2, <1>3
  <2> QED
    BY <1>2, <2>1, <2>2, <2>3, <2>4
<1>6. x = y
  BY <1>3, <1>4, <1>5, SeqEqual
<1> QED
  BY <1>6 DEF x, y

\* What is sent comes last.
LEMMA HeardGrows ==
    ASSUME NEW a \in Seq(Tokens), NEW b \in Seq(Tokens), NEW e \in Tokens
    PROVE  a \o Append(b, e) = Append(a \o b, e)
<1>1. <<e>> \in Seq(Tokens)
  OBVIOUS
<1>2. Append(b, e) = b \o <<e>> /\ a \o b \in Seq(Tokens)
  BY AppendIsConcat, ConcatProperties
<1>3. Append(a \o b, e) = (a \o b) \o <<e>>
  BY <1>2, AppendIsConcat
<1>4. (a \o b) \o <<e>> = a \o (b \o <<e>>)
  BY <1>1, ConcatAssociative
<1> QED
  BY <1>2, <1>3, <1>4

\* One entry less: the last one has taken the place of the one removed.
LEMMA EntriesWithout ==
    ASSUME WatchInv, NEW i \in 1 .. Len(watch)
    PROVE  \A j \in 1 .. Len(watch) - 1 :
               WithoutWatcher(i)[j] = IF j = i THEN watch[Len(watch)] ELSE watch[j]
<1>1. watch \in Seq(Entry) /\ Len(watch) \in 1 .. Len(watch)
  BY DEF WatchInv, WatchTypes, Entry
<1>2. watch[Len(watch)] \in Entry
  BY <1>1, ElementOfSeq
<1> DEFINE x == [watch EXCEPT ![i] = watch[Len(watch)]]
<1>3. x \in Seq(Entry) /\ Len(x) = Len(watch)
  BY <1>1, <1>2, ExceptSeq
<1>4. ASSUME NEW j \in 1 .. Len(watch) - 1
      PROVE  x[j] = IF j = i THEN watch[Len(watch)] ELSE watch[j]
  <2>1. j \in DOMAIN watch
    BY <1>1
  <2> QED
    BY <2>1
<1> HIDE DEF x
<1>5. ASSUME NEW j \in 1 .. Len(watch) - 1 PROVE SubSeq(x, 1, Len(watch) - 1)[j] = x[j]
  BY <1>1, <1>3, SubSeqProperties
<1> QED
  BY <1>4, <1>5 DEF x, WithoutWatcher

\* The counter of one entry moves, and nothing else.
LEMMA EntriesUpdated ==
    ASSUME WatchInv, NEW i \in 1 .. Len(watch), NEW n \in 0 .. MaxTokens
    PROVE  \A j \in 1 .. Len(watch) :
               /\ [watch EXCEPT ![i].next = n][j].fd = watch[j].fd
               /\ [watch EXCEPT ![i].next = n][j].next = IF j = i THEN n ELSE watch[j].next
<1>1. watch \in Seq(Entry) /\ DOMAIN watch = 1 .. Len(watch)
  BY DEF WatchInv, WatchTypes, Entry
<1>2. \A j \in 1 .. Len(watch) : watch[j] \in Entry
  BY <1>1, ElementOfSeq
<1> QED
  BY <1>1, <1>2 DEF Entry

LEMMA InRange ==
    ASSUME NEW g \in 0 .. MaxTokens, NEW n \in 0 .. g
    PROVE  n \in 0 .. MaxTokens /\ g \in n .. MaxTokens
  BY DaemonAssumption

\* Every entry is one of a watcher, and has counted no further than the daemon.
LEMMA EntryFacts ==
    ASSUME IInv, ToldInv, NEW j \in 1 .. Len(watch)
    PROVE  /\ watch[j].fd \in Watchers
           /\ globalTokenCount \in 0 .. MaxTokens
           /\ watch[j].next \in 0 .. globalTokenCount
<1>1. watch[j] \in Entry
  BY ElementOfSeq DEF IInv, WatchInv, WatchTypes, Entry
<1>2. watch[j].fd \in Watchers /\ watch[j].next \in Nat
  BY <1>1, DaemonAssumption DEF Entry
<1>3. globalTokenCount \in 0 .. MaxTokens
  BY DaemonAssumption DEF IInv, SlotsInv, Counts
<1>4. watch[j].next <= globalTokenCount
  BY DEF ToldInv, HeardUpToNext
<1> QED
  BY <1>2, <1>3, <1>4

\* A connection leaves the line.
LEMMA LineShrinks ==
    ASSUME ClientsInv, OnceInLine, backlog # <<>>, backlog' = Tail(backlog)
    PROVE  /\ OnceInLine'
           /\ \A w \in Watchers : w \in Line' => w \in Line /\ w # Head(backlog).fd
           /\ Head(backlog).fd \in Line
<1>1. /\ Head(backlog) = backlog[1]
      /\ Len(backlog) \in Nat \ {0}
      /\ Len(backlog') = Len(backlog) - 1
      /\ \A i \in 1 .. Len(backlog') : backlog'[i] = backlog[i + 1]
  BY HeadOfBacklog, EmptySeq DEF ClientsInv, ClientTypes
<1>2. \A i \in 1 .. Len(backlog') : i + 1 \in 1 .. Len(backlog) /\ i + 1 # 1
  BY <1>1
<1>3. OnceInLine'
  <2> SUFFICES ASSUME NEW i \in 1 .. Len(backlog'), NEW j \in 1 .. Len(backlog'),
                      backlog'[i].fd \in Watchers, backlog'[i].fd = backlog'[j].fd
               PROVE  i = j
    BY DEF OnceInLine
  <2>1. backlog[i + 1].fd \in Watchers /\ backlog[i + 1].fd = backlog[j + 1].fd
    BY <1>1
  <2>2. i + 1 = j + 1
    BY <1>2, <2>1 DEF OnceInLine
  <2> QED
    BY <2>2
<1>4. ASSUME NEW w \in Watchers, NEW k \in 1 .. Len(backlog'), backlog'[k].fd = w
      PROVE  w \in Line /\ w # Head(backlog).fd
  <2>1. k + 1 \in 1 .. Len(backlog) /\ 1 \in 1 .. Len(backlog) /\ backlog[k + 1].fd = w
    BY <1>1, <1>2, <1>4
  <2>2. backlog[1].fd # w
    BY <1>2, <2>1 DEF OnceInLine
  <2> QED
    BY <1>1, <2>1, <2>2 DEF Line
<1>5. Head(backlog).fd \in Line
  BY <1>1 DEF Line
<1> QED
  BY <1>3, <1>4, <1>5 DEF Line

\* A connection joins the end of the line.
LEMMA LineGrows ==
    ASSUME ClientsInv, OnceInLine, NEW b \in Connection, backlog' = Append(backlog, b),
           b.fd \in Watchers => b.fd \notin Line
    PROVE  /\ OnceInLine'
           /\ \A w \in Watchers : w \in Line' <=> w \in Line \/ w = b.fd
<1> DEFINE n == Len(backlog) + 1
<1>1. /\ Len(backlog) \in Nat
      /\ Len(backlog') = n
      /\ \A i \in 1 .. Len(backlog) : backlog'[i] = backlog[i]
      /\ backlog'[n] = b
  BY BacklogGrows
<1>2. \A i \in 1 .. n : i \in 1 .. Len(backlog) \/ i = n
  BY <1>1
<1>3. n \in 1 .. n /\ \A i \in 1 .. Len(backlog) : i \in 1 .. n
  BY <1>1
<1> HIDE DEF n
<1>4. b.fd \in Watchers => \A i \in 1 .. Len(backlog) : backlog[i].fd # b.fd
  BY DEF Line
<1>5. OnceInLine'
  <2> SUFFICES ASSUME NEW i \in 1 .. n, NEW j \in 1 .. n,
                      backlog'[i].fd \in Watchers, backlog'[i].fd = backlog'[j].fd
               PROVE  i = j
    BY <1>1 DEF OnceInLine
  <2>1. CASE i \in 1 .. Len(backlog) /\ j \in 1 .. Len(backlog)
    BY <1>1, <2>1 DEF OnceInLine
  <2> QED
    BY <1>1, <1>2, <1>4, <2>1
<1>6. ASSUME NEW w \in Watchers PROVE w \in Line' <=> w \in Line \/ w = b.fd
  <2>1. w \in Line' <=> \E k \in 1 .. n : backlog'[k].fd = w
    BY <1>1 DEF Line
  <2>2. (\E k \in 1 .. n : backlog'[k].fd = w)
        <=> (\E k \in 1 .. Len(backlog) : backlog'[k].fd = w) \/ backlog'[n].fd = w
    BY <1>2, <1>3
  <2>3. (\E k \in 1 .. Len(backlog) : backlog'[k].fd = w) <=> w \in Line
    BY <1>1 DEF Line
  <2> QED
    BY <1>1, <2>1, <2>2, <2>3
<1> QED
  BY <1>5, <1>6

\* An entry is removed; what the other watchers have heard stays true.
LEMMA ToldRemoval ==
    ASSUME IInv, ToldInv, NEW i \in 1 .. Len(watch), watch' = WithoutWatcher(i),
           UNCHANGED <<watcher, inbox, got, globalTokenCount, backlog>>
    PROVE  /\ WatchersOnce' /\ HeardUpToNext'
           /\ Len(watch') = Len(watch) - 1
           /\ \A j \in 1 .. Len(watch) - 1 :
                 Unsent(j)' = IF j = i THEN Unsent(Len(watch)) ELSE Unsent(j)
<1>1. /\ Len(watch') = Len(watch) - 1
      /\ Len(watch) \in 1 .. Len(watch)
      /\ \A j \in 1 .. Len(watch) - 1 :
            watch'[j] = IF j = i THEN watch[Len(watch)] ELSE watch[j]
  <2>1. WatchInv
    BY DEF IInv
  <2>2. Len(watch) \in Nat
    BY <2>1 DEF WatchInv, WatchTypes
  <2>3. Len(WithoutWatcher(i)) = Len(watch) - 1
    BY <2>1, WithoutWatcherType
  <2>4. \A j \in 1 .. Len(watch) - 1 :
            WithoutWatcher(i)[j] = IF j = i THEN watch[Len(watch)] ELSE watch[j]
    BY <2>1, EntriesWithout
  <2> QED
    BY <2>2, <2>3, <2>4
<1>2. \A j \in 1 .. Len(watch) - 1 : j \in 1 .. Len(watch) /\ j # Len(watch)
  OBVIOUS
<1>3. WatchersOnce'
  <2>1. ASSUME NEW j \in 1 .. Len(watch'), NEW k \in 1 .. Len(watch'), watch'[j].fd = watch'[k].fd
        PROVE  j = k
    <3> DEFINE m == IF j = i THEN Len(watch) ELSE j
               n == IF k = i THEN Len(watch) ELSE k
    <3>1. j \in 1 .. Len(watch) - 1 /\ k \in 1 .. Len(watch) - 1
      BY <1>1
    <3>2. m \in 1 .. Len(watch) /\ n \in 1 .. Len(watch) /\ (m = n => j = k)
      BY <1>1, <1>2, <3>1
    <3>3. watch'[j] = watch[m] /\ watch'[k] = watch[n]
      BY <1>1, <3>1
    <3> HIDE DEF m, n
    <3>4. m = n
      BY <2>1, <3>2, <3>3 DEF ToldInv, WatchersOnce
    <3> QED
      BY <3>2, <3>4
  <2>2. ASSUME NEW j \in 1 .. Len(watch')
        PROVE  watch'[j].fd \notin Line /\ watcher[watch'[j].fd] # "off"
    BY <1>1, <1>2 DEF ToldInv, WatchersOnce
  <2>3. Line' = Line
    BY DEF Line
  <2> QED
    BY <2>1, <2>2, <2>3 DEF ToldInv, WatchersOnce, OnceInLine
<1>4. HeardUpToNext'
  <2>1. ASSUME NEW j \in 1 .. Len(watch')
        PROVE  /\ watch'[j].next <= globalTokenCount
               /\ Heard(watch'[j].fd) = TokensBelow(watch'[j].next)
    BY <1>1, <1>2 DEF ToldInv, HeardUpToNext
  <2> QED
    BY <2>1 DEF HeardUpToNext, Heard
<1>5. ASSUME NEW j \in 1 .. Len(watch) - 1
      PROVE  Unsent(j)' = IF j = i THEN Unsent(Len(watch)) ELSE Unsent(j)
  BY <1>1 DEF Unsent
<1> QED
  BY <1>1, <1>3, <1>4, <1>5

\* The counter of an entry moves together with what its watcher has heard.
LEMMA ToldUpdate ==
    ASSUME IInv, ToldInv, NEW i \in 1 .. Len(watch), NEW n \in 0 .. globalTokenCount,
           watch' = [watch EXCEPT ![i].next = n],
           UNCHANGED <<watcher, globalTokenCount, backlog>>,
           \A w \in Watchers : w # watch[i].fd => UNCHANGED <<inbox[w], got[w]>>,
           got'[watch[i].fd] \o inbox'[watch[i].fd] = TokensBelow(n)
    PROVE  /\ WatchersOnce' /\ HeardUpToNext'
           /\ Len(watch') = Len(watch)
           /\ \A j \in 1 .. Len(watch) : j # i => Unsent(j)' = Unsent(j)
           /\ Unsent(i)' = OtherTokens(n, globalTokenCount)
<1> DEFINE w == watch[i].fd
<1>1. n \in 0 .. MaxTokens /\ globalTokenCount \in 0 .. MaxTokens
  <2>1. globalTokenCount \in 0 .. MaxTokens
    BY EntryFacts
  <2> QED
    BY <2>1, InRange
<1>2. /\ Len(watch') = Len(watch)
      /\ \A j \in 1 .. Len(watch) :
            /\ watch'[j].fd = watch[j].fd
            /\ watch'[j].next = IF j = i THEN n ELSE watch[j].next
  BY <1>1, NextUpdate, EntriesUpdated DEF IInv
<1>3. WatchersOnce'
  <2>1. Line' = Line
    BY DEF Line
  <2>2. /\ OnceInLine'
        /\ \A j, k \in 1 .. Len(watch') : watch'[j].fd = watch'[k].fd => j = k
        /\ \A j \in 1 .. Len(watch') :
              watch'[j].fd \notin Line /\ watcher[watch'[j].fd] # "off"
    BY <1>2 DEF ToldInv, WatchersOnce, OnceInLine
  <2>3. w \in Watchers /\ w \notin Line /\ watcher[w] # "off"
    BY EntryFacts DEF ToldInv, WatchersOnce
  <2>4. \A u \in Watchers : watcher[u] = "off" \/ u \in Line => got'[u] = <<>> /\ inbox'[u] = <<>>
    <3> SUFFICES ASSUME NEW u \in Watchers, watcher[u] = "off" \/ u \in Line
                 PROVE  got'[u] = <<>> /\ inbox'[u] = <<>>
      OBVIOUS
    <3>1. u # w
      BY <2>3
    <3>2. got[u] = <<>> /\ inbox[u] = <<>>
      BY DEF ToldInv, WatchersOnce
    <3> QED
      BY <3>1, <3>2
  <2> QED
    BY <2>1, <2>2, <2>4 DEF ToldInv, WatchersOnce
<1>4. HeardUpToNext'
  <2> SUFFICES ASSUME NEW j \in 1 .. Len(watch)
               PROVE  /\ watch'[j].next <= globalTokenCount
                      /\ got'[watch[j].fd] \o inbox'[watch[j].fd] = TokensBelow(watch'[j].next)
    BY <1>2 DEF HeardUpToNext, Heard
  <2>1. CASE j = i
    <3>1. n <= globalTokenCount
      BY <1>1
    <3>2. watch'[j].next = n
      BY <1>2, <2>1
    <3> QED
      BY <2>1, <3>1, <3>2
  <2>2. CASE j # i
    <3>1. watch[j].fd # watch[i].fd /\ watch[j].fd \in Watchers
      BY <2>2, EntryFacts DEF ToldInv, WatchersOnce
    <3>2. UNCHANGED <<inbox[watch[j].fd], got[watch[j].fd]>>
      BY <3>1
    <3>3. /\ watch[j].next <= globalTokenCount
          /\ Heard(watch[j].fd) = TokensBelow(watch[j].next)
      BY DEF ToldInv, HeardUpToNext
    <3> QED
      BY <1>2, <2>2, <3>2, <3>3 DEF Heard
  <2> QED
    BY <2>1, <2>2
<1>5. /\ \A j \in 1 .. Len(watch) : j # i => Unsent(j)' = Unsent(j)
      /\ Unsent(i)' = OtherTokens(n, globalTokenCount)
  BY <1>2 DEF Unsent
<1> QED
  BY <1>2, <1>3, <1>4, <1>5

\* Steps that leave the watchers and their entries alone.
LEMMA ToldStays ==
    ASSUME ToldInv, UNCHANGED <<watch, watcher, inbox, got, globalTokenCount>>,
           OnceInLine', \A w \in Watchers : w \in Line' => w \in Line,
           \A j \in 1 .. Len(watch) : watch[j].fd \in Watchers,
           \/ pc \in {"top", "dispatch"} /\ pc' \in {"top", "dispatch"}
           \/ UNCHANGED <<pc, wi>>
           \/ pc' = "aborted"
    PROVE  ToldInv'
<1>1. WatchersOnce'
  BY DEF ToldInv, WatchersOnce
<1>2. HeardUpToNext'
  BY DEF ToldInv, HeardUpToNext, Heard
<1>3. BehindAreAhead'
  BY DEF ToldInv, BehindAreAhead, Unsent
<1> QED
  BY <1>1, <1>2, <1>3 DEF ToldInv

\* With no slot to append there is nothing new to tell.
LEMMA NoNewTokens ==
    ASSUME SlotsInv, ~(TokensToAdd > 0)
    PROVE  OtherTokens(globalTokenCount, newGlobalTokenCount) = {}
<1> USE DaemonAssumption DEF SlotsInv, Counts
<1>1. (newGlobalTokenCount - globalTokenCount) % 256 = newGlobalTokenCount - globalTokenCount
  <2>1. newGlobalTokenCount - globalTokenCount \in 0 .. 255
    OBVIOUS
  <2> QED
    BY <2>1, NoWrap
<1> QED
  BY <1>1 DEF TokensToAdd, OtherTokens

\* The counts grow only when everybody has been told of the modules so far.
LEMMA AddTokensTells == ASSUME IInv, ToldInv, AddTokens PROVE ToldInv'
<1> USE DaemonAssumption
<1>1. /\ pc = "top" /\ globalTokenCount' = newGlobalTokenCount /\ wi' = 1
      /\ pc' \in {"top", "updateAll"}
      /\ pc' = "top" => ~(TokensToAdd > 0) \/ watch = <<>>
      /\ UNCHANGED <<watch, watcher, inbox, got, backlog>>
  BY DEF AddTokens, watcherVars
<1>2. /\ globalTokenCount \in 0 .. MaxTokens /\ newGlobalTokenCount \in 0 .. MaxTokens
      /\ globalTokenCount <= newGlobalTokenCount
  BY DEF IInv, SlotsInv, Counts
<1>3. WatchersOnce'
  BY <1>1 DEF ToldInv, WatchersOnce, OnceInLine, Line
<1>4. ASSUME NEW i \in 1 .. Len(watch)
      PROVE  watch[i].next \in Nat /\ watch[i].next <= globalTokenCount
  BY EntryFacts, <1>2
<1>5. HeardUpToNext'
  <2>1. \A i \in 1 .. Len(watch) : watch[i].next <= newGlobalTokenCount
    BY <1>2, <1>4
  <2> QED
    BY <1>1, <2>1 DEF ToldInv, HeardUpToNext, Heard
<1>6. BehindAreAhead'
  <2>1. ASSUME pc' = "top", NEW i \in 1 .. Len(watch)
        PROVE  OtherTokens(watch[i].next, newGlobalTokenCount) = {}
    <3>1. OtherTokens(globalTokenCount, newGlobalTokenCount) = {}
      <4>1. Len(watch) # 0
        BY DEF IInv, WatchInv, WatchTypes
      <4> QED
        BY <1>1, <2>1, <4>1, NoNewTokens DEF IInv
    <3>2. OtherTokens(watch[i].next, globalTokenCount) = {}
      BY <1>1 DEF ToldInv, BehindAreAhead, Unsent
    <3> QED
      BY <1>2, <1>4, <3>1, <3>2 DEF OtherTokens
  <2> QED
    BY <1>1, <2>1 DEF BehindAreAhead, Unsent
<1> QED
  BY <1>3, <1>5, <1>6 DEF ToldInv

\* The byte sent is the one after what the watcher has heard.
LEMMA WriteTokenTells == ASSUME IInv, ToldInv, WriteToken PROVE ToldInv'
<1> USE DaemonAssumption
<1> DEFINE w == watch[wi].fd
           n == watch[wi].next
           g == globalTokenCount
           t == Lowest(Unsent(wi))
<1>1. /\ inbox' = [inbox EXCEPT ![w] = Append(@, t)]
      /\ watch' = [watch EXCEPT ![wi].next = t + 1]
      /\ UNCHANGED <<watcher, got, backlog, globalTokenCount, pc, wi>>
      /\ pc \in {"updateAll", "updateNew"} /\ Unsent(wi) # {}
  BY DEF WriteToken
<1>2. wi \in 1 .. Len(watch)
  BY <1>1 DEF IInv, WatchInv, WatchTypes, Place
<1>3. w \in Watchers /\ g \in 0 .. MaxTokens /\ n \in 0 .. g
  BY <1>2, EntryFacts
<1>4. n \in 0 .. MaxTokens /\ g \in n .. MaxTokens /\ OtherTokens(n, g) # {} /\ t = Lowest(OtherTokens(n, g))
  <2>1. n \in 0 .. MaxTokens /\ g \in n .. MaxTokens
    BY <1>3, InRange
  <2> QED
    BY <1>1, <2>1 DEF Unsent
<1> HIDE DEF t
<1>5. t \in n .. g - 1 /\ t + 1 \in 0 .. g /\ TokensBelow(t + 1) = Append(TokensBelow(n), t)
  BY <1>4, NextToken
<1>6. got'[w] \o inbox'[w] = TokensBelow(t + 1)
  <2>1. inbox[w] \in Seq(Tokens) /\ got[w] \in Seq(Tokens)
    <3> HIDE DEF w, n, g
    <3>1. WatchTypes
      BY DEF IInv, WatchInv
    <3> QED
      BY <1>3, <3>1 DEF WatchTypes
  <2>5. t \in Tokens
    <3> HIDE DEF w, n, g
    <3>1. g <= MaxTokens /\ g \in Nat /\ n \in Nat /\ MaxTokens \in Nat
      BY <1>3
    <3>2. t \in Nat /\ t < MaxTokens
      BY <1>5, <3>1
    <3> QED
      BY <3>2 DEF Tokens
  <2>2. Heard(w) = TokensBelow(n)
    BY <1>2 DEF ToldInv, HeardUpToNext
  <2>3. inbox'[w] = Append(inbox[w], t) /\ got'[w] = got[w]
    BY <1>1, <1>3 DEF IInv, WatchInv, WatchTypes
  <2>4. got[w] \o Append(inbox[w], t) = Append(Heard(w), t)
    BY <2>1, <2>5, HeardGrows DEF Heard
  <2> QED
    BY <1>5, <2>2, <2>3, <2>4
<1>7. \A u \in Watchers : u # w => UNCHANGED <<inbox[u], got[u]>>
  BY <1>1 DEF IInv, WatchInv, WatchTypes
<1>8. /\ WatchersOnce' /\ HeardUpToNext'
      /\ Len(watch') = Len(watch)
      /\ \A j \in 1 .. Len(watch) : j # wi => Unsent(j)' = Unsent(j)
  BY <1>1, <1>2, <1>5, <1>6, <1>7, ToldUpdate
<1>9. BehindAreAhead'
  BY <1>1, <1>2, <1>8 DEF ToldInv, BehindAreAhead
<1> QED
  BY <1>8, <1>9 DEF ToldInv

\* The loop over the watchers leaves behind it only those who know everything.
LEMMA UpdateEndsTells ==
    ASSUME IInv, ToldInv, WriteToClosed \/ WatcherUpToDate PROVE ToldInv'
<1> USE DaemonAssumption
<1>1. /\ pc \in {"updateAll", "updateNew"}
      /\ UNCHANGED <<watcher, inbox, got, backlog, globalTokenCount>>
  BY DEF WriteToClosed, WatcherUpToDate, watcherVars
<1>2. wi \in 1 .. Len(watch) /\ Len(watch) \in Nat
  BY <1>1 DEF IInv, WatchInv, WatchTypes, Place
<1>3. /\ \A j \in 1 .. wi - 1 : Unsent(j) = {}
      /\ pc = "updateNew" => wi = Len(watch)
  BY <1>1 DEF ToldInv, BehindAreAhead
<1>4. CASE WriteToClosed
  <2>1. /\ watch' = WithoutWatcher(wi)
        /\ AfterWatcher(wi, Len(watch) - 1)
    BY <1>4 DEF WriteToClosed
  <2>2. /\ WatchersOnce' /\ HeardUpToNext'
        /\ Len(watch') = Len(watch) - 1
        /\ \A j \in 1 .. Len(watch) - 1 :
              Unsent(j)' = IF j = wi THEN Unsent(Len(watch)) ELSE Unsent(j)
    BY <1>1, <1>2, <2>1, ToldRemoval
  <2>3. /\ pc' \in {"top", "dispatch"} => wi = Len(watch)
        /\ pc' \in {"top", "dispatch", "updateAll"}
        /\ pc' = "updateAll" => wi' = wi
    BY <1>1, <1>2, <1>3, <2>1 DEF AfterWatcher, NextReady
  <2>4. \A j \in 1 .. wi - 1 : j \in 1 .. Len(watch) - 1 /\ Unsent(j)' = {}
    BY <1>2, <1>3, <2>2
  <2>5. BehindAreAhead'
    BY <2>2, <2>3, <2>4 DEF BehindAreAhead
  <2> QED
    BY <2>2, <2>5 DEF ToldInv
<1>5. CASE WatcherUpToDate
  <2> DEFINE g == globalTokenCount
             w == watch[wi].fd
             n == watch[wi].next
  <2>1. /\ watch' = [watch EXCEPT ![wi].next = g]
        /\ AfterWatcher(wi + 1, Len(watch))
        /\ OtherTokens(n, g) = {}
    BY <1>5 DEF WatcherUpToDate, Unsent
  <2>2. w \in Watchers /\ g \in 0 .. MaxTokens /\ n \in 0 .. g
    BY <1>2, EntryFacts
  <2>3. n \in 0 .. MaxTokens /\ g \in n .. MaxTokens /\ g \in 0 .. g
    BY <2>2, InRange
  <2>4. Heard(w) = TokensBelow(n) /\ TokensBelow(n) = TokensBelow(g)
    BY <1>2, <2>1, <2>3, NothingLeft DEF ToldInv, HeardUpToNext
  <2>5. got'[w] \o inbox'[w] = TokensBelow(g)
    BY <1>1, <2>4 DEF Heard
  <2>6. WatchersOnce' /\ HeardUpToNext' /\ Len(watch') = Len(watch)
    BY <1>1, <1>2, <2>1, <2>3, <2>5, ToldUpdate
  <2>7. OtherTokens(g, g) = {}
    BY <2>2 DEF OtherTokens
  <2>8. \A j \in 1 .. wi : j \in 1 .. Len(watch) /\ OtherTokens(watch'[j].next, g) = {}
    <3> SUFFICES ASSUME NEW j \in 1 .. wi
                 PROVE  j \in 1 .. Len(watch) /\ OtherTokens(watch'[j].next, g) = {}
      OBVIOUS
    <3>1. j \in 1 .. Len(watch) /\ (j = wi \/ j \in 1 .. wi - 1)
      BY <1>2
    <3>2. CASE j = wi
      <4>1. watch'[wi].next = g
        BY <1>2, <2>1, <2>2, EntriesUpdated DEF IInv
      <4> QED
        BY <2>7, <3>1, <3>2, <4>1
    <3>3. CASE j # wi
      <4>1. watch'[j].next = watch[j].next
        BY <1>2, <2>1, <2>2, <3>1, <3>3, EntriesUpdated DEF IInv
      <4> QED
        BY <1>3, <3>1, <3>3, <4>1 DEF Unsent
    <3> QED
      BY <3>2, <3>3
  <2>9. /\ pc' \in {"top", "dispatch"} => wi = Len(watch)
        /\ pc' \in {"top", "dispatch", "updateAll"}
        /\ pc' = "updateAll" => wi' = wi + 1
    BY <1>1, <1>2, <1>3, <2>1 DEF AfterWatcher, NextReady
  <2>10. BehindAreAhead'
    <3> DEFINE Told(j) == OtherTokens(watch[j].next, globalTokenCount) = {}
    <3>1. \A j \in 1 .. wi : Told(j)'
      BY <1>1, <2>8
    <3>2. BehindAreAhead' <=>
             /\ pc' \in {"top", "dispatch"} => \A i \in 1 .. Len(watch') : Told(i)'
             /\ pc' \in {"updateAll", "updateNew"} => \A i \in 1 .. wi' - 1 : Told(i)'
             /\ pc' = "updateNew" => wi' = Len(watch')
      BY DEF BehindAreAhead, Unsent
    <3> HIDE DEF Told
    <3>3. /\ pc' \in {"top", "dispatch"} => \A i \in 1 .. Len(watch') : Told(i)'
          /\ pc' \in {"updateAll", "updateNew"} => \A i \in 1 .. wi' - 1 : Told(i)'
          /\ pc' # "updateNew"
      BY <1>2, <2>6, <2>9, <3>1
    <3> QED
      BY <3>2, <3>3
  <2> QED
    BY <2>6, <2>10 DEF ToldInv
<1> QED
  BY <1>4, <1>5

\* A watcher that is accepted has heard nothing, and is the next to be told.
LEMMA AcceptWatcherTells == ASSUME IInv, ToldInv, AcceptWatcher PROVE ToldInv'
<1> USE DaemonAssumption
<1> DEFINE w == Head(backlog).fd
           e == [fd |-> w, next |-> 0]
           n == Len(watch) + 1
<1>1. /\ pc = "dispatch" /\ "srv" \in ready
      /\ Head(backlog).token = WatchRequest
      /\ watch' = Append(watch, e)
      /\ backlog' = Tail(backlog)
      /\ wi' = n /\ pc' = "updateNew"
      /\ UNCHANGED <<globalTokenCount, watcher, inbox, got>>
  BY DEF AcceptWatcher, watcherVars
<1>2. backlog # <<>>
  BY <1>1 DEF IInv, ClientsInv, ReadyStays
<1>3. w \in Watchers
  <2>1. Head(backlog) \in Connection
    BY <1>2, HeadOfBacklog DEF IInv
  <2> QED
    BY <1>1, <2>1 DEF Connection, WatchRequest, Tokens
<1>4. /\ OnceInLine'
      /\ \A u \in Watchers : u \in Line' => u \in Line /\ u # w
      /\ w \in Line
  BY <1>1, <1>2, LineShrinks DEF IInv, ToldInv, WatchersOnce
<1>5. /\ Len(watch) \in Nat /\ Len(watch') = n
      /\ \A i \in 1 .. Len(watch) : watch'[i] = watch[i]
      /\ watch'[n].fd = w /\ watch'[n].next = 0
  <2>1. watch \in Seq(Entry)
    BY DEF IInv, WatchInv, WatchTypes, Entry
  <2>2. e \in Entry
    BY <1>3 DEF Entry
  <2> QED
    BY <1>1, <2>1, <2>2, AppendProperties
<1> HIDE DEF e, w, n
<1>6. n = Len(watch) + 1 /\ \A i \in 1 .. n : i \in 1 .. Len(watch) \/ i = n
  BY <1>5 DEF n
<1>7. \A i \in 1 .. Len(watch) : watch[i].fd # w /\ watch[i].fd \in Watchers
  BY <1>4, EntryFacts DEF ToldInv, WatchersOnce
<1>8. got[w] = <<>> /\ inbox[w] = <<>> /\ watcher[w] # "off"
  BY <1>3, <1>4 DEF ToldInv, WatchersOnce
<1>9. WatchersOnce'
  <2>1. \A i, j \in 1 .. Len(watch') : watch'[i].fd = watch'[j].fd => i = j
    BY <1>5, <1>6, <1>7 DEF ToldInv, WatchersOnce
  <2>2. \A i \in 1 .. Len(watch') : watch'[i].fd \notin Line' /\ watcher'[watch'[i].fd] # "off"
    <3> SUFFICES ASSUME NEW i \in 1 .. n
                 PROVE  watch'[i].fd \notin Line' /\ watcher[watch'[i].fd] # "off"
      BY <1>1, <1>5
    <3>1. CASE i \in 1 .. Len(watch)
      <4>1. watch'[i].fd = watch[i].fd /\ watch[i].fd \in Watchers
        BY <1>5, <1>7, <3>1
      <4>2. watch[i].fd \notin Line /\ watcher[watch[i].fd] # "off"
        BY <3>1 DEF ToldInv, WatchersOnce
      <4> QED
        BY <1>4, <4>1, <4>2
    <3>2. CASE i = n
      BY <1>3, <1>4, <1>5, <1>8, <3>2
    <3> QED
      BY <1>6, <3>1, <3>2
  <2>3. \A u \in Watchers : watcher'[u] = "off" => u \notin Line'
    BY <1>1, <1>4 DEF ToldInv, WatchersOnce
  <2>4. \A u \in Watchers : watcher'[u] = "off" \/ u \in Line' => got'[u] = <<>> /\ inbox'[u] = <<>>
    BY <1>1, <1>4 DEF ToldInv, WatchersOnce
  <2> QED
    BY <1>4, <2>1, <2>2, <2>3, <2>4 DEF WatchersOnce
<1>10. HeardUpToNext'
  <2>1. globalTokenCount \in Nat
    BY DEF IInv, SlotsInv, Counts
  <2>2. TokensBelow(0) = <<>>
    <3>1. TokensBelow(0) \in Seq(Tokens) /\ Len(TokensBelow(0)) = 0
      <4>1. 0 \in 0 .. MaxTokens /\ ~(MyToken < 0)
        OBVIOUS
      <4> QED
        BY <4>1, TokensBelowFacts
    <3> QED
      BY <3>1, EmptySeq
  <2>3. got[w] \o inbox[w] = <<>>
    BY <1>8
  <2>4. ASSUME NEW i \in 1 .. n
        PROVE  /\ watch'[i].next <= globalTokenCount
               /\ got[watch'[i].fd] \o inbox[watch'[i].fd] = TokensBelow(watch'[i].next)
    <3>1. CASE i \in 1 .. Len(watch)
      BY <1>5, <3>1 DEF ToldInv, HeardUpToNext, Heard
    <3>2. CASE i = n
      <4>1. watch'[i].fd = w /\ watch'[i].next = 0
        BY <1>5, <3>2
      <4>2. watch'[i].next <= globalTokenCount
        BY <2>1, <4>1
      <4>3. got[w] \o inbox[w] = TokensBelow(0)
        BY <2>2, <2>3, Zenon
      <4> QED
        BY <4>1, <4>2, <4>3, Zenon
    <3> QED
      BY <1>6, <3>1, <3>2
  <2> QED
    BY <1>1, <1>5, <2>4 DEF HeardUpToNext, Heard
<1>11. BehindAreAhead'
  BY <1>1, <1>5, <1>6 DEF ToldInv, BehindAreAhead, Unsent
<1> QED
  BY <1>9, <1>10, <1>11 DEF ToldInv

\* A watcher that is removed takes nothing from the others.
LEMMA HangUpTells ==
    ASSUME IInv, ToldInv, NEW i \in DOMAIN watch, WatcherHungUp(i) \/ FreshReadsPollhup(i)
    PROVE  ToldInv'
<1>1. i \in 1 .. Len(watch) /\ Len(watch) \in Nat
  BY DEF IInv, WatchInv, WatchTypes
<1>2. /\ pc = "dispatch" /\ pc' \in {"top", "dispatch"}
      /\ watch' = WithoutWatcher(i)
      /\ UNCHANGED <<watcher, inbox, got, globalTokenCount, backlog>>
  BY DEF WatcherHungUp, FreshReadsPollhup, WatcherTurn, NextReady, watcherVars
<1>3. /\ WatchersOnce' /\ HeardUpToNext'
      /\ Len(watch') = Len(watch) - 1
      /\ \A j \in 1 .. Len(watch) - 1 :
            Unsent(j)' = IF j = i THEN Unsent(Len(watch)) ELSE Unsent(j)
  BY <1>1, <1>2, ToldRemoval
<1>4. \A j \in 1 .. Len(watch) : Unsent(j) = {}
  BY <1>2 DEF ToldInv, BehindAreAhead
<1>5. \A j \in 1 .. Len(watch) - 1 : j \in 1 .. Len(watch) /\ Len(watch) \in 1 .. Len(watch)
  BY <1>1
<1>6. \A j \in 1 .. Len(watch') : Unsent(j)' = {}
  BY <1>3, <1>4, <1>5
<1>7. BehindAreAhead'
  BY <1>2, <1>6 DEF BehindAreAhead
<1> QED
  BY <1>3, <1>7 DEF ToldInv

\* A watcher joins the line with nothing in its socket.
LEMMA WatchCreateTells ==
    ASSUME IInv, ToldInv, NEW w \in Watchers, WatchCreate(w) PROVE ToldInv'
<1> DEFINE b == [fd |-> w, token |-> WatchRequest]
<1>1. /\ watcher[w] = "off" /\ watcher' = [watcher EXCEPT ![w] = "open"]
      /\ backlog' = Append(backlog, b)
      /\ UNCHANGED <<globalTokenCount, watch, pc, wi, inbox, got>>
  BY DEF WatchCreate, daemonVars
<1>2. w \notin Line /\ got[w] = <<>> /\ inbox[w] = <<>>
  BY <1>1 DEF ToldInv, WatchersOnce
<1>3. OnceInLine' /\ \A u \in Watchers : u \in Line' <=> u \in Line \/ u = w
  <2>1. b \in Connection /\ b.fd = w
    BY DEF Connection
  <2> HIDE DEF b
  <2> QED
    BY <1>1, <1>2, <2>1, LineGrows DEF IInv, ToldInv, WatchersOnce
<1>4. \A i \in 1 .. Len(watch) : watch[i].fd \in Watchers /\ watch[i].fd # w
  BY <1>1, EntryFacts DEF ToldInv, WatchersOnce
<1>5. \A u \in Watchers : watcher'[u] = IF u = w THEN "open" ELSE watcher[u]
  BY <1>1 DEF IInv, WatchInv, WatchTypes
<1>6. WatchersOnce'
  <2>1. \A i, j \in 1 .. Len(watch) : watch[i].fd = watch[j].fd => i = j
    BY DEF ToldInv, WatchersOnce
  <2>2. \A i \in 1 .. Len(watch) : watch[i].fd \notin Line' /\ watcher'[watch[i].fd] # "off"
    BY <1>3, <1>4, <1>5 DEF ToldInv, WatchersOnce
  <2>3. \A u \in Watchers : watcher'[u] = "off" => u \notin Line'
    BY <1>3, <1>5 DEF ToldInv, WatchersOnce
  <2>4. \A u \in Watchers : watcher'[u] = "off" \/ u \in Line' => got[u] = <<>> /\ inbox[u] = <<>>
    BY <1>2, <1>3, <1>5 DEF ToldInv, WatchersOnce
  <2> QED
    BY <1>1, <1>3, <2>1, <2>2, <2>3, <2>4 DEF WatchersOnce
<1>7. HeardUpToNext' /\ BehindAreAhead'
  BY <1>1 DEF ToldInv, HeardUpToNext, Heard, BehindAreAhead, Unsent
<1> QED
  BY <1>6, <1>7 DEF ToldInv

\* Reading moves a byte from the socket to the program.
LEMMA WatchWaitTells ==
    ASSUME IInv, ToldInv, NEW w \in Watchers, WatchWait(w) PROVE ToldInv'
<1>1. /\ watcher[w] = "open" /\ inbox[w] # <<>>
      /\ got' = [got EXCEPT ![w] = Append(@, Head(inbox[w]))]
      /\ inbox' = [inbox EXCEPT ![w] = Tail(@)]
      /\ UNCHANGED <<globalTokenCount, watch, pc, wi, watcher, backlog>>
  BY DEF WatchWait, daemonVars
<1>2. w \notin Line
  BY <1>1 DEF ToldInv, WatchersOnce
<1>3. inbox \in [Watchers -> Seq(Tokens)] /\ got \in [Watchers -> Seq(Tokens)]
  BY DEF IInv, WatchInv, WatchTypes
<1>4. Append(got[w], Head(inbox[w])) \o Tail(inbox[w]) = got[w] \o inbox[w]
  BY <1>1, <1>3, HeardStays
<1>5. \A u \in Watchers : got'[u] \o inbox'[u] = got[u] \o inbox[u]
  BY <1>1, <1>3, <1>4
<1>6. \A u \in Watchers : u # w => got'[u] = got[u] /\ inbox'[u] = inbox[u]
  BY <1>1, <1>3
<1>7. WatchersOnce'
  <2>1. Line' = Line
    BY <1>1 DEF Line
  <2>2. \A u \in Watchers : watcher[u] = "off" \/ u \in Line => got'[u] = <<>> /\ inbox'[u] = <<>>
    BY <1>1, <1>2, <1>6 DEF ToldInv, WatchersOnce
  <2> QED
    BY <1>1, <2>1, <2>2 DEF ToldInv, WatchersOnce, OnceInLine
<1>8. HeardUpToNext'
  <2>1. \A i \in 1 .. Len(watch) : watch[i].fd \in Watchers
    BY EntryFacts
  <2> QED
    BY <1>1, <1>5, <2>1 DEF ToldInv, HeardUpToNext, Heard
<1>9. BehindAreAhead'
  BY <1>1 DEF ToldInv, BehindAreAhead, Unsent
<1> QED
  BY <1>7, <1>8, <1>9 DEF ToldInv

\* A watcher that leaves keeps its entry until the daemon notices.
LEMMA WatchDestroyTells ==
    ASSUME IInv, ToldInv, NEW w \in Watchers, WatchDestroy(w) PROVE ToldInv'
<1>1. /\ watcher[w] = "open" /\ watcher' = [watcher EXCEPT ![w] = "closed"]
      /\ UNCHANGED <<globalTokenCount, watch, pc, wi, backlog, inbox, got>>
  BY DEF WatchDestroy, daemonVars
<1>2. \A u \in Watchers : watcher'[u] = "off" <=> watcher[u] = "off"
  BY <1>1 DEF IInv, WatchInv, WatchTypes
<1>3. \A i \in 1 .. Len(watch) : watch[i].fd \in Watchers
  BY EntryFacts
<1>4. WatchersOnce'
  <2>1. Line' = Line
    BY <1>1 DEF Line
  <2> QED
    BY <1>1, <1>2, <1>3, <2>1 DEF ToldInv, WatchersOnce, OnceInLine
<1>5. HeardUpToNext' /\ BehindAreAhead'
  BY <1>1 DEF ToldInv, HeardUpToNext, Heard, BehindAreAhead, Unsent
<1> QED
  BY <1>4, <1>5 DEF ToldInv

\* A client joins or leaves the line of connections between the watchers.
LEMMA ClientsInLine ==
    ASSUME IInv, ToldInv, AcceptClient \/ \E c \in Clients, t \in Tokens : Connect(c, t)
    PROVE  ToldInv'
<1> USE DaemonAssumption
<1>1. \A j \in 1 .. Len(watch) : watch[j].fd \in Watchers
  BY EntryFacts
<1>2. CASE AcceptClient
  <2>1. /\ pc = "dispatch" /\ "srv" \in ready /\ backlog' = Tail(backlog)
        /\ pc' \in {"top", "dispatch"}
        /\ UNCHANGED <<watch, watcher, inbox, got, globalTokenCount>>
    BY <1>2 DEF AcceptClient, NextReady, watcherVars
  <2>2. backlog # <<>>
    BY <2>1 DEF IInv, ClientsInv, ReadyStays
  <2>3. OnceInLine' /\ \A w \in Watchers : w \in Line' => w \in Line
    BY <2>1, <2>2, LineShrinks DEF IInv, ToldInv, WatchersOnce
  <2> QED
    BY <1>1, <2>1, <2>3, ToldStays
<1>3. ASSUME NEW c \in Clients, NEW t \in Tokens, Connect(c, t) PROVE ToldInv'
  <2> DEFINE b == [fd |-> c, token |-> t]
  <2>1. /\ backlog' = Append(backlog, b)
        /\ UNCHANGED <<watch, watcher, inbox, got, globalTokenCount, pc, wi>>
    BY <1>3 DEF Connect, daemonVars, watcherVars
  <2>2. b \in Connection /\ b.fd = c /\ c \notin Watchers
    BY DEF Connection
  <2> HIDE DEF b
  <2>3. OnceInLine' /\ \A w \in Watchers : w \in Line' => w \in Line
    BY <2>1, <2>2, LineGrows DEF IInv, ToldInv, WatchersOnce
  <2> QED
    BY <1>1, <2>1, <2>3, ToldStays
<1> QED
  BY <1>2, <1>3

\* Every other step leaves the watchers, their entries and the line alone.
Aside ==
    /\ UNCHANGED <<watch, watcher, inbox, got, globalTokenCount, backlog>>
    /\ \/ pc \in {"top", "dispatch"} /\ pc' \in {"top", "dispatch"}
       \/ UNCHANGED <<pc, wi>>
       \/ pc' = "aborted"

LEMMA AsideTells == ASSUME IInv, ToldInv, Aside PROVE ToldInv'
<1>1. OnceInLine' /\ Line' = Line
  BY DEF Aside, Line, ToldInv, WatchersOnce, OnceInLine
<1>2. \A j \in 1 .. Len(watch) : watch[j].fd \in Watchers
  BY EntryFacts
<1> QED
  BY <1>1, <1>2, ToldStays DEF Aside

\* The steps that are aside, by the kind of their actor.
LEMMA DaemonAside ==
    ASSUME \/ UNCHANGED vars \/ ModuleArrives \/ PollerPresence \/ Poll \/ Operate
           \/ \E i \in DOMAIN watch : \/ FreshReadsZero(i) \/ FreshReadsPollout(i)
                                       \/ FreshReadsOther(i)
           \/ \E t \in Tokens : TransferDone(t)
    PROVE  Aside
<1>1. CASE UNCHANGED vars \/ ModuleArrives \/ PollerPresence \/ Poll
  BY <1>1 DEF vars, ModuleArrives, PollerPresence, Poll, daemonVars, watcherVars, Aside
<1>2. CASE Operate
  <2>1. ASSUME NEW t \in Tokens, ServeQuit(t) \/ ServeTransfer(t) \/ ServeTransferAtOnce(t)
        PROVE  Aside
    BY <2>1 DEF ServeQuit, ServeTransfer, ServeTransferAtOnce, PeerTurn, Serve, NextReady,
                watcherVars, Aside
  <2>2. ASSUME NEW t \in Tokens, NEW a, ServeOther(t, a) PROVE Aside
    BY <2>2 DEF ServeOther, PeerTurn, Serve, NextReady, watcherVars, Aside
  <2> QED
    BY <1>2, <2>1, <2>2, Zenon DEF Operate
<1>3. ASSUME NEW i \in DOMAIN watch,
             FreshReadsZero(i) \/ FreshReadsPollout(i) \/ FreshReadsOther(i)
      PROVE  Aside
  BY <1>3 DEF FreshReadsZero, FreshReadsPollout, FreshReadsOther, WatcherTurn, NextReady,
              watcherVars, Aside
<1>4. ASSUME NEW t \in Tokens, TransferDone(t) PROVE Aside
  BY <1>4 DEF TransferDone, watcherVars, Aside
<1> QED
  BY <1>1, <1>2, <1>3, <1>4

LEMMA ClientsAside ==
    ASSUME NEW c \in Clients, ClientStep(c), ~ \E t \in Tokens : Connect(c, t)
    PROVE  Aside
  BY DEF ClientStep, Connected, Request, RequestWrite, RequestRead, RequestOther, Disconnect,
         CallDone, Disconnected, daemonVars, watcherVars, Aside

\* No step disturbs what is known of the bytes sent to the watchers.
LEMMA ToldStep == IInv /\ ToldInv /\ [Next]_vars => ToldInv'
<1> SUFFICES ASSUME IInv, ToldInv, [Next]_vars PROVE ToldInv'
  OBVIOUS
<1>1. CASE \/ UNCHANGED vars \/ ModuleArrives \/ PollerPresence \/ Poll \/ Operate
           \/ \E i \in DOMAIN watch : \/ FreshReadsZero(i) \/ FreshReadsPollout(i)
                                       \/ FreshReadsOther(i)
           \/ \E t \in Tokens : TransferDone(t)
  BY <1>1, DaemonAside, AsideTells
<1>2. CASE AddTokens
  BY <1>2, AddTokensTells
<1>3. CASE WriteToken
  BY <1>3, WriteTokenTells
<1>4. CASE WriteToClosed \/ WatcherUpToDate
  BY <1>4, UpdateEndsTells
<1>5. CASE AcceptClient \/ \E c \in Clients, t \in Tokens : Connect(c, t)
  BY <1>5, ClientsInLine
<1>6. CASE AcceptWatcher
  BY <1>6, AcceptWatcherTells
<1>7. ASSUME NEW i \in DOMAIN watch, WatcherHungUp(i) \/ FreshReadsPollhup(i) PROVE ToldInv'
  BY <1>7, HangUpTells
<1>8. ASSUME NEW c \in Clients, ClientStep(c) PROVE ToldInv'
  <2>1. CASE \E t \in Tokens : Connect(c, t)
    BY <1>5, <2>1
  <2>2. CASE ~ \E t \in Tokens : Connect(c, t)
    BY <1>8, <2>2, ClientsAside, AsideTells
  <2> QED
    BY <2>1, <2>2
<1>9. ASSUME NEW w \in Watchers, WatcherStep(w) PROVE ToldInv'
  BY <1>9, WatchCreateTells, WatchWaitTells, WatchDestroyTells DEF WatcherStep
<1>10. CASE MainLoop
  BY <1>1, <1>2, <1>3, <1>4, <1>5, <1>6, <1>7, <1>10, Zenon DEF MainLoop
<1> QED
  BY <1>1, <1>8, <1>9, <1>10, Zenon DEF Next

LEMMA InitToldInv == Init => ToldInv
<1> SUFFICES ASSUME Init PROVE ToldInv
  OBVIOUS
<1>1. backlog = <<>> /\ watch = <<>> /\ pc = "top" /\ wi = 1
  BY DEF Init
<1>2. WatchersOnce
  BY <1>1 DEF Init, WatchersOnce, OnceInLine, Line
<1> QED
  BY <1>1, <1>2 DEF ToldInv, HeardUpToNext, BehindAreAhead

\* What has been written to the watchers is always as ToldInv says.
THEOREM DaemonTold == Spec => [](IInv /\ ToldInv)
<1>1. IInv /\ [Next]_vars => IInv'
  BY SlotsStep, WatchStep, ClientsStep DEF IInv
<1> QED
  BY InitIInv, InitToldInv, <1>1, ToldStep, PTL DEF Spec

\* Whenever the daemon sleeps in poll(), every watcher it keeps has been sent each
\* other module once and in order (update_watcher() and close_watcher(), whatever
\* watchers came and went while the tokens were written).
THEOREM DaemonWatchersToldEverything == Spec => []WatchersToldEverything
<1>1. IInv /\ ToldInv => WatchersToldEverything
  <2> SUFFICES ASSUME IInv, ToldInv, pc \in {"top", "dispatch"}, NEW i \in DOMAIN watch
               PROVE  got[watch[i].fd] \o inbox[watch[i].fd] = TokensBelow(globalTokenCount)
    BY DEF WatchersToldEverything, Watching
  <2> DEFINE n == watch[i].next
             g == globalTokenCount
  <2>1. i \in 1 .. Len(watch)
    BY DEF IInv, WatchInv, WatchTypes
  <2>2. n \in 0 .. MaxTokens /\ g \in n .. MaxTokens
    BY <2>1, EntryFacts, InRange
  <2>3. OtherTokens(n, g) = {}
    BY <2>1 DEF ToldInv, BehindAreAhead, Unsent
  <2>4. TokensBelow(n) = TokensBelow(g)
    BY <2>2, <2>3, NothingLeft
  <2> QED
    BY <2>1, <2>4 DEF ToldInv, HeardUpToNext, Heard
<1> QED
  BY <1>1, DaemonTold, PTL

(***************************************************************************)
(* The daemon implements the abstract directory.                           *)
(***************************************************************************)

\* A slot that has a client is the slot of a module.
SlotsAreModules == \A t \in Tokens : fd[t] # None => t \in PeerSet

\* The slots are those of the modules the daemon knows.
LEMMA PeersAreModules ==
    SlotsInv => PeerSet = (0 .. globalTokenCount - 1) \ {MyToken}
<1> SUFFICES ASSUME SlotsInv PROVE PeerSet = (0 .. globalTokenCount - 1) \ {MyToken}
  OBVIOUS
<1> USE DaemonAssumption DEF SlotsInv, Counts, SlotsEnumerateTokens
<1> DEFINE g == globalTokenCount
<1>1. DOMAIN peers = 1 .. Len(peers) /\ g \in Nat
  OBVIOUS
<1>2. ASSUME NEW k \in DOMAIN peers PROVE peers[k] \in (0 .. g - 1) \ {MyToken}
  <2>1. peers[k] = IF k <= MyToken THEN k - 1 ELSE k
    BY <1>1
  <2>2. Len(peers) = IF MyToken < g THEN g - 1 ELSE g
    OBVIOUS
  <2> QED
    BY <1>1, <2>1, <2>2
<1>3. ASSUME NEW t \in (0 .. g - 1) \ {MyToken} PROVE t \in PeerSet
  <2> DEFINE k == IF t < MyToken THEN t + 1 ELSE t
  <2>1. k \in DOMAIN peers
    BY <1>1
  <2>2. peers[k] = IF k <= MyToken THEN k - 1 ELSE k
    BY <1>1, <2>1
  <2>3. peers[k] = t
    BY <2>2
  <2> QED
    BY <2>1, <2>3 DEF PeerSet
<1> QED
  BY <1>2, <1>3 DEF PeerSet

\* Modules never leave, and only a module is given to a client.
LEMMA ModulesStep == IInv /\ SlotsAreModules /\ [Next]_vars => SlotsAreModules'
<1> SUFFICES ASSUME IInv, SlotsAreModules, [Next]_vars PROVE SlotsAreModules'
  OBVIOUS
<1>1. CASE AddTokens
  <2>1. SlotsInv /\ SlotsInv'
    BY SlotsStep DEF IInv
  <2>2. /\ PeerSet = (0 .. globalTokenCount - 1) \ {MyToken}
        /\ (PeerSet = (0 .. globalTokenCount - 1) \ {MyToken})'
    BY <2>1, PeersAreModules, PTL
  <2>3. globalTokenCount' = newGlobalTokenCount /\ UNCHANGED fd
    BY <1>1 DEF AddTokens
  <2>4. PeerSet \subseteq PeerSet'
    BY <2>1, <2>2, <2>3 DEF SlotsInv, Counts
  <2> QED
    BY <2>3, <2>4 DEF SlotsAreModules
<1>2. CASE AcceptClient
  <2>1. /\ peers' = peers
        /\ fd' = IF Response(Head(backlog).token) = "ok"
                 THEN [fd EXCEPT ![Head(backlog).token] = Head(backlog).fd] ELSE fd
    BY <1>2 DEF AcceptClient
  <2>2. Response(Head(backlog).token) = "ok" => Head(backlog).token \in PeerSet
    BY DEF Response
  <2>3. PeerSet' = PeerSet
    BY <2>1 DEF PeerSet
  <2>4. fd \in [Tokens -> Clients \cup {None}]
    BY DEF IInv, ClientsInv, ClientTypes
  <2> QED
    BY <2>1, <2>2, <2>3, <2>4 DEF SlotsAreModules
<1>3. ASSUME peers' = peers, fd' = fd \/ \E t \in Tokens : fd' = [fd EXCEPT ![t] = None]
      PROVE  SlotsAreModules'
  <2>1. fd \in [Tokens -> Clients \cup {None}]
    BY DEF IInv, ClientsInv, ClientTypes
  <2> QED
    BY <1>3, <2>1 DEF SlotsAreModules, PeerSet
<1>4. CASE UNCHANGED vars \/ ModuleArrives \/ \E t \in Tokens : TransferDone(t)
  BY <1>3, <1>4 DEF vars, ModuleArrives, TransferDone, daemonVars
<1>5. CASE MainLoop
  <2>1. CASE \/ PollerPresence \/ WriteToken \/ WriteToClosed \/ WatcherUpToDate \/ Poll
             \/ AcceptWatcher
    BY <1>3, <2>1 DEF PollerPresence, WriteToken, WriteToClosed, WatcherUpToDate, Poll,
                      AcceptWatcher, daemonVars
  <2>2. ASSUME NEW i \in DOMAIN watch,
               \/ WatcherHungUp(i) \/ FreshReadsZero(i) \/ FreshReadsPollout(i)
               \/ FreshReadsPollhup(i) \/ FreshReadsOther(i)
        PROVE  SlotsAreModules'
    BY <1>3, <2>2 DEF WatcherHungUp, FreshReadsZero, FreshReadsPollout, FreshReadsPollhup,
                      FreshReadsOther
  <2> QED
    BY <1>1, <1>2, <1>5, <2>1, <2>2, Zenon DEF MainLoop
<1>6. ASSUME NEW t \in Tokens,
             \/ ServeQuit(t) \/ ServeTransfer(t) \/ ServeTransferAtOnce(t)
             \/ \E a \in Results \cup {"none"} : ServeOther(t, a)
      PROVE  SlotsAreModules'
  <2>1. peers' = peers /\ (fd' = fd \/ fd' = [fd EXCEPT ![t] = None])
    BY <1>6 DEF ServeQuit, ServeTransfer, ServeTransferAtOnce, ServeOther
  <2> QED
    BY <1>3, <2>1
<1>7. ASSUME NEW c \in Clients, ClientStep(c) PROVE SlotsAreModules'
  BY <1>3, <1>7 DEF ClientStep, Connect, Connected, Request, RequestWrite, RequestRead,
         RequestOther, Disconnect, CallDone, Disconnected, daemonVars
<1>8. ASSUME NEW w \in Watchers, WatcherStep(w) PROVE SlotsAreModules'
  BY <1>3, <1>8 DEF WatcherStep, WatchCreate, WatchWait, WatchDestroy, daemonVars
<1> QED
  BY <1>4, <1>5, <1>6, <1>7, <1>8, Zenon DEF Next, Operate

\* The state of the directory.
held == {h \in Clients \X Tokens : Holds(h[1]) /\ wants[h[1]] = h[2]}
told == [w \in Watchers |-> got[w] \o inbox[w]]
Known == (0 .. globalTokenCount - 1) \ {MyToken}

DirVars == <<globalTokenCount, held, told>>

DirLearn ==
    /\ globalTokenCount' \in globalTokenCount + 1 .. MaxTokens
    /\ UNCHANGED <<held, told>>

DirGrant(c, t) ==
    /\ \A d \in Clients : <<d, t>> \notin held
    /\ \A u \in Known : <<c, u>> \notin held
    /\ held' = held \cup {<<c, t>>}
    /\ UNCHANGED <<globalTokenCount, told>>

DirRelease(c, t) ==
    /\ <<c, t>> \in held
    /\ held' = held \ {<<c, t>>}
    /\ UNCHANGED <<globalTokenCount, told>>

DirTell(w, t) ==
    /\ \A u \in Known : u < t <=> u \in {told[w][i] : i \in DOMAIN told[w]}
    /\ told' = [told EXCEPT ![w] = Append(@, t)]
    /\ UNCHANGED <<globalTokenCount, held>>

\* A step of the directory under the refinement mapping.
DirStep ==
    \/ UNCHANGED DirVars
    \/ DirLearn
    \/ \E c \in Clients, t \in Known : DirGrant(c, t) \/ DirRelease(c, t)
    \/ \E w \in Watchers, t \in Known : DirTell(w, t)

LEMMA StepsOfDirectory == DirStep => [Directory!Next]_(Directory!dirVars)
<1>1. Directory!Modules = Known
  BY DEF Directory!Modules, Known
<1>2. DirLearn => Directory!Learn
  BY DEF DirLearn, Directory!Learn, held, told
<1>3. ASSUME NEW c, NEW t \in Known
      PROVE  /\ DirGrant(c, t) => Directory!Grant(c, t)
             /\ DirRelease(c, t) => Directory!Release(c, t)
  BY <1>1 DEF DirGrant, Directory!Grant, DirRelease, Directory!Release, held, told
<1>4. ASSUME NEW w, NEW t \in Known PROVE DirTell(w, t) => Directory!Tell(w, t)
  BY <1>1 DEF DirTell, Directory!Tell, held, told
<1>5. UNCHANGED DirVars => UNCHANGED Directory!dirVars
  BY DEF DirVars, Directory!dirVars, held, told
<1> QED
  BY <1>1, <1>2, <1>3, <1>4, <1>5, Zenon DEF DirStep, Directory!Next

\* Who holds what, with and without a user of the slot.
LEMMA HeldFacts ==
    ASSUME IInv, SlotsAreModules
    PROVE  /\ \A c \in Clients : wants[c] \in Tokens
           /\ \A c \in Clients, t \in Tokens : <<c, t>> \in held <=> Holds(c) /\ wants[c] = t
           /\ \A c \in Clients : Uses(c) => wants[c] \in Known /\ fd[wants[c]] = c
           /\ Known \subseteq Tokens
<1> USE DaemonAssumption
<1>1. \A c \in Clients : wants[c] \in Tokens
  BY DEF IInv, ClientsInv, ClientTypes
<1>2. Known = PeerSet
  BY PeersAreModules DEF IInv, Known
<1>3. ASSUME NEW c \in Clients, Uses(c) PROVE wants[c] \in Known /\ fd[wants[c]] = c
  <2>1. fd[wants[c]] = c
    BY <1>1, <1>3 DEF IInv, ClientsInv, SlotsAreUsed
  <2> QED
    BY <1>1, <1>2, <2>1 DEF SlotsAreModules
<1>4. Known \subseteq Tokens
  <2>1. globalTokenCount \in 0 .. MaxTokens
    BY DEF IInv, SlotsInv, Counts
  <2> QED
    BY <2>1 DEF Known, Tokens
<1> QED
  BY <1>1, <1>3, <1>4 DEF held

\* A client that keeps what it holds, or holds nothing, changes no grant.
LEMMA HeldStays ==
    ASSUME \A c \in Clients :
               /\ Holds(c)' <=> Holds(c)
               /\ Holds(c) => wants'[c] = wants[c]
    PROVE  UNCHANGED held
  BY DEF held

\* The OK that a client reads is the grant.
LEMMA ConnectedGrants ==
    ASSUME IInv, SlotsAreModules, NEW c \in Clients, Connected(c) PROVE DirStep
<1>1. /\ client[c] = "connecting" /\ reply[c] # "none"
      /\ client' = [client EXCEPT ![c] = IF reply[c] = "ok" THEN "open" ELSE "off"]
      /\ UNCHANGED <<wants, globalTokenCount, got, inbox>>
  BY DEF Connected, daemonVars, watcherVars
<1>2. told' = told
  BY <1>1 DEF told
<1>3. client \in [Clients -> ClientStates]
  BY DEF IInv, ClientsInv, ClientTypes
<1>4. \A d \in Clients : d # c => (Holds(d)' <=> Holds(d))
  BY <1>1, <1>3 DEF Holds
<1>5. ~Holds(c)
  BY <1>1 DEF Holds
<1>6. CASE reply[c] = "ok"
  <2> DEFINE t == wants[c]
  <2>1. Uses(c) /\ Holds(c)'
    BY <1>1, <1>3, <1>6 DEF Uses, Holds
  <2>2. t \in Known /\ fd[t] = c /\ t \in Tokens
    BY <2>1, HeldFacts
  <2>3. \A d \in Clients : <<d, t>> \notin held
    <3> SUFFICES ASSUME NEW d \in Clients, Holds(d), wants[d] = t PROVE FALSE
      BY <2>2, HeldFacts
    <3>1. fd[t] = d
      BY HeldFacts DEF Uses
    <3> QED
      BY <1>5, <2>2, <3>1
  <2>4. \A u \in Known : <<c, u>> \notin held
    BY <1>5, HeldFacts
  <2>5. held' = held \cup {<<c, t>>}
    BY <1>1, <1>4, <1>5, <2>1, <2>2 DEF held
  <2>6. DirGrant(c, t)
    BY <1>1, <1>2, <2>3, <2>4, <2>5 DEF DirGrant
  <2> QED
    BY <2>2, <2>6 DEF DirStep
<1>7. CASE reply[c] # "ok"
  <2>1. ~Holds(c)'
    BY <1>1, <1>3, <1>7 DEF Holds
  <2>2. held' = held
    BY <1>1, <1>4, <1>5, <2>1, HeldStays
  <2> QED
    BY <1>1, <1>2, <2>2 DEF DirStep, DirVars
<1> QED
  BY <1>6, <1>7

\* The QUIT that a client writes is the release.
LEMMA DisconnectReleases ==
    ASSUME IInv, SlotsAreModules, NEW c \in Clients, Disconnect(c) PROVE DirStep
<1> DEFINE t == wants[c]
<1>1. /\ client[c] = "open" /\ client' = [client EXCEPT ![c] = "quitting"]
      /\ UNCHANGED <<wants, globalTokenCount, got, inbox>>
  BY DEF Disconnect, Request, daemonVars, watcherVars
<1>2. told' = told
  BY <1>1 DEF told
<1>3. client \in [Clients -> ClientStates]
  BY DEF IInv, ClientsInv, ClientTypes
<1>4. \A d \in Clients : d # c => (Holds(d)' <=> Holds(d))
  BY <1>1, <1>3 DEF Holds
<1>5. Holds(c) /\ Uses(c) /\ ~Holds(c)'
  BY <1>1, <1>3 DEF Holds, Uses
<1>6. t \in Known /\ t \in Tokens /\ <<c, t>> \in held
  BY <1>5, HeldFacts
<1>7. held' = held \ {<<c, t>>}
  BY <1>1, <1>4, <1>5, <1>6 DEF held
<1>8. DirRelease(c, t)
  BY <1>1, <1>2, <1>6, <1>7 DEF DirRelease
<1> QED
  BY <1>6, <1>8 DEF DirStep

\* The tokens a watcher has heard are those of the modules below its counter.
LEMMA HeardModules ==
    ASSUME NEW n \in 0 .. MaxTokens, NEW u \in Nat, u # MyToken
    PROVE  u < n <=> u \in {TokensBelow(n)[i] : i \in DOMAIN TokensBelow(n)}
<1> USE DaemonAssumption
<1> DEFINE a == TokensBelow(n)
<1>1. /\ a \in Seq(Tokens) /\ Len(a) = (IF MyToken < n THEN n - 1 ELSE n)
      /\ \A k \in 1 .. Len(a) : a[k] = IF k <= MyToken THEN k - 1 ELSE k
  BY TokensBelowFacts
<1> HIDE DEF a
<1>2. DOMAIN a = 1 .. Len(a)
  BY <1>1
<1>3. ASSUME u < n PROVE u \in {a[i] : i \in DOMAIN a}
  <2> DEFINE k == IF u < MyToken THEN u + 1 ELSE u
  <2>1. k \in DOMAIN a /\ a[k] = u
    BY <1>1, <1>2, <1>3
  <2> QED
    BY <2>1
<1>4. ASSUME NEW i \in DOMAIN a, u = a[i] PROVE u < n
  BY <1>1, <1>2, <1>4
<1> QED
  BY <1>3, <1>4 DEF a

\* A byte written to a watcher is the lowest module it has not been told.
LEMMA WriteTokenIsTell == ASSUME IInv, ToldInv, WriteToken PROVE DirStep
<1> USE DaemonAssumption
<1> DEFINE w == watch[wi].fd
           n == watch[wi].next
           g == globalTokenCount
           t == Lowest(Unsent(wi))
<1>1. /\ inbox' = [inbox EXCEPT ![w] = Append(@, t)]
      /\ UNCHANGED <<got, client, wants, globalTokenCount>>
      /\ pc \in {"updateAll", "updateNew"} /\ Unsent(wi) # {}
  BY DEF WriteToken, clientVars
<1>2. wi \in 1 .. Len(watch)
  BY <1>1 DEF IInv, WatchInv, WatchTypes, Place
<1>3. w \in Watchers /\ g \in 0 .. MaxTokens /\ n \in 0 .. g
  BY <1>2, EntryFacts
<1>4. n \in 0 .. MaxTokens /\ g \in n .. MaxTokens /\ OtherTokens(n, g) # {} /\ t = Lowest(OtherTokens(n, g))
  <2>1. n \in 0 .. MaxTokens /\ g \in n .. MaxTokens
    BY <1>3, InRange
  <2> QED
    BY <1>1, <2>1 DEF Unsent
<1> HIDE DEF t
<1>5. /\ t \in n .. g - 1 /\ t # MyToken
      /\ \A u \in 0 .. g - 1 : u # MyToken => (u < t <=> u < n)
  BY <1>4, NextToken
<1>6. t \in Known /\ t \in Tokens
  BY <1>3, <1>5 DEF Known, Tokens
<1>7. told[w] = TokensBelow(n)
  BY <1>2, <1>3 DEF ToldInv, HeardUpToNext, Heard, told
<1>8. \A u \in Known : u < t <=> u \in {told[w][i] : i \in DOMAIN told[w]}
  <2> SUFFICES ASSUME NEW u \in Known
               PROVE  u < t <=> u \in {told[w][i] : i \in DOMAIN told[w]}
    OBVIOUS
  <2>1. u \in 0 .. g - 1 /\ u # MyToken /\ u \in Nat
    BY <1>3 DEF Known
  <2>2. u < t <=> u < n
    BY <1>5, <2>1
  <2>3. u < n <=> u \in {TokensBelow(n)[i] : i \in DOMAIN TokensBelow(n)}
    BY <1>4, <2>1, HeardModules
  <2> QED
    BY <1>7, <2>2, <2>3, Zenon
<1>9. told' = [told EXCEPT ![w] = Append(@, t)]
  <2>1. inbox \in [Watchers -> Seq(Tokens)] /\ got \in [Watchers -> Seq(Tokens)]
    BY DEF IInv, WatchInv, WatchTypes
  <2>2. inbox[w] \in Seq(Tokens) /\ got[w] \in Seq(Tokens)
    BY <1>3, <2>1
  <2>3. got[w] \o Append(inbox[w], t) = Append(got[w] \o inbox[w], t)
    BY <1>6, <2>2, HeardGrows
  <2> QED
    BY <1>1, <1>3, <2>1, <2>3 DEF told
<1>10. held' = held
  BY <1>1 DEF held, Holds
<1>11. DirTell(w, t)
  BY <1>1, <1>8, <1>9, <1>10 DEF DirTell
<1> QED
  BY <1>3, <1>6, <1>11 DEF DirStep

\* What is held and what was told stay as they are.
LEMMA DirStutters ==
    ASSUME UNCHANGED <<globalTokenCount, got, inbox>>,
           \A c \in Clients :
               /\ Holds(c)' <=> Holds(c)
               /\ Holds(c) => wants'[c] = wants[c]
    PROVE  DirStep
<1>1. held' = held
  BY HeldStays
<1> QED
  BY <1>1 DEF DirStep, DirVars, told

\* The other steps of a client change nothing that it holds.
LEMMA ClientsStutter ==
    ASSUME IInv, NEW c \in Clients, ClientStep(c), ~Connected(c), ~Disconnect(c)
    PROVE  DirStep
<1>1. client \in [Clients -> ClientStates] /\ wants \in [Clients -> Tokens]
  BY DEF IInv, ClientsInv, ClientTypes
<1>2. UNCHANGED <<globalTokenCount, got, inbox>>
  BY DEF ClientStep, Connect, Request, RequestWrite, RequestRead, RequestOther, CallDone,
         Disconnected, daemonVars, watcherVars
<1>3. /\ \/ client[c] = "off" /\ client' = [client EXCEPT ![c] = "connecting"]
         \/ client[c] = "quitting" /\ client' = [client EXCEPT ![c] = "off"]
         \/ /\ wants' = wants
            /\ Holds(c)
            /\ \E after \in {"open", "reading", "asking"} : client' = [client EXCEPT ![c] = after]
      /\ wants' = wants \/ \E t \in Tokens : wants' = [wants EXCEPT ![c] = t]
  BY DEF ClientStep, Connect, Request, RequestWrite, RequestRead, RequestOther, CallDone,
         Disconnected, Holds
<1>4. ASSUME NEW d \in Clients
      PROVE  /\ Holds(d)' <=> Holds(d)
             /\ Holds(d) => wants'[d] = wants[d]
  BY <1>1, <1>3 DEF Holds
<1> QED
  BY <1>2, <1>4, DirStutters

\* A watcher that comes, reads or leaves has been told what it had been told.
LEMMA WatchersStutter ==
    ASSUME IInv, NEW w \in Watchers, WatcherStep(w) PROVE DirStep
<1>1. UNCHANGED <<globalTokenCount, client, wants>>
  BY DEF WatcherStep, WatchCreate, WatchWait, WatchDestroy, daemonVars, clientVars
<1>2. held' = held
  BY <1>1, HeldStays DEF Holds
<1>3. told' = told
  <2>1. CASE WatchCreate(w) \/ WatchDestroy(w)
    BY <2>1 DEF WatchCreate, WatchDestroy, told
  <2>2. CASE WatchWait(w)
    <3>1. /\ inbox[w] # <<>>
          /\ got' = [got EXCEPT ![w] = Append(@, Head(inbox[w]))]
          /\ inbox' = [inbox EXCEPT ![w] = Tail(@)]
      BY <2>2 DEF WatchWait
    <3>2. inbox \in [Watchers -> Seq(Tokens)] /\ got \in [Watchers -> Seq(Tokens)]
      BY DEF IInv, WatchInv, WatchTypes
    <3>3. Append(got[w], Head(inbox[w])) \o Tail(inbox[w]) = got[w] \o inbox[w]
      BY <3>1, <3>2, HeardStays
    <3>4. \A u \in Watchers : got'[u] \o inbox'[u] = got[u] \o inbox[u]
      BY <3>1, <3>2, <3>3
    <3> QED
      BY <3>4 DEF told
  <2> QED
    BY <2>1, <2>2 DEF WatcherStep
<1> QED
  BY <1>1, <1>2, <1>3 DEF DirStep, DirVars

\* New modules are learnt.
LEMMA AddTokensLearns == ASSUME IInv, AddTokens PROVE DirStep
<1>1. globalTokenCount' = newGlobalTokenCount /\ UNCHANGED <<client, wants, got, inbox>>
  BY DEF AddTokens, clientVars, watcherVars
<1>2. held' = held /\ told' = told
  BY <1>1 DEF held, told, Holds
<1>3. /\ globalTokenCount \in 0 .. MaxTokens /\ newGlobalTokenCount \in 0 .. MaxTokens
      /\ globalTokenCount <= newGlobalTokenCount
  BY DaemonAssumption DEF IInv, SlotsInv, Counts
<1> QED
  BY <1>1, <1>2, <1>3 DEF DirStep, DirLearn, DirVars

\* Every step of the daemon and of its callers is one of the directory or none.
LEMMA DirectoryStep == IInv /\ ToldInv /\ SlotsAreModules /\ [Next]_vars => DirStep
<1> SUFFICES ASSUME IInv, ToldInv, SlotsAreModules, [Next]_vars PROVE DirStep
  OBVIOUS
<1>1. ASSUME UNCHANGED <<globalTokenCount, client, wants, got, inbox>> PROVE DirStep
  BY <1>1, DirStutters DEF Holds
<1>2. CASE \/ UNCHANGED vars \/ ModuleArrives \/ \E t \in Tokens : TransferDone(t)
  BY <1>1, <1>2 DEF vars, ModuleArrives, TransferDone, daemonVars, clientVars, watcherVars
<1>3. CASE MainLoop
  <2>1. CASE \/ PollerPresence \/ WriteToClosed \/ WatcherUpToDate \/ Poll
             \/ AcceptClient \/ AcceptWatcher
    BY <1>1, <2>1 DEF PollerPresence, WriteToClosed, WatcherUpToDate, Poll, AcceptClient,
                      AcceptWatcher, daemonVars, clientVars, watcherVars
  <2>2. ASSUME NEW i \in DOMAIN watch,
               \/ WatcherHungUp(i) \/ FreshReadsZero(i) \/ FreshReadsPollout(i)
               \/ FreshReadsPollhup(i) \/ FreshReadsOther(i)
        PROVE  DirStep
    BY <1>1, <2>2 DEF WatcherHungUp, FreshReadsZero, FreshReadsPollout, FreshReadsPollhup,
                      FreshReadsOther, clientVars, watcherVars
  <2> QED
    BY <1>3, <2>1, <2>2, AddTokensLearns, WriteTokenIsTell, Zenon DEF MainLoop
<1>4. ASSUME NEW t \in Tokens,
             \/ ServeQuit(t) \/ ServeTransfer(t) \/ ServeTransferAtOnce(t)
             \/ \E a \in Results \cup {"none"} : ServeOther(t, a)
      PROVE  DirStep
  BY <1>1, <1>4 DEF ServeQuit, ServeTransfer, ServeTransferAtOnce, ServeOther, watcherVars
<1>5. ASSUME NEW c \in Clients, ClientStep(c) PROVE DirStep
  BY <1>5, ConnectedGrants, DisconnectReleases, ClientsStutter
<1>6. ASSUME NEW w \in Watchers, WatcherStep(w) PROVE DirStep
  BY <1>6, WatchersStutter
<1> QED
  BY <1>2, <1>3, <1>4, <1>5, <1>6, Zenon DEF Next, Operate

\* The daemon with its slots, sockets and transfers does what ModuleDirectory
\* promises the callers: a client holds a module between the OK it reads and the QUIT
\* it writes, and nobody else does; a watcher is told each module once and in order.
THEOREM DaemonImplementsDirectory == Spec => ImplementsDirectory
<1>1. Init => Directory!Init /\ SlotsAreModules
  BY DEF Init, Directory!Init, SlotsAreModules, Holds
<1>2. IInv /\ ToldInv /\ SlotsAreModules /\ [Next]_vars => [Directory!Next]_(Directory!dirVars)
  BY DirectoryStep, StepsOfDirectory
<1> QED
  BY <1>1, <1>2, DaemonTold, ModulesStep, PTL DEF Spec, ImplementsDirectory, Directory!Spec

=============================================================================
