----------------------------- MODULE McpdDaemon -----------------------------
(***************************************************************************)
(* The main loop of mcpd (src/mcpd/mcpd.c): the daemon learns from the     *)
(* backplane how many modules are plugged in, gives each of them a peer    *)
(* slot that at most one client may occupy, tells every watcher about      *)
(* every module, and serves the requests of the connected clients.         *)
(*                                                                         *)
(* The daemon is one thread.  Everything it does between two points where  *)
(* it may sleep is one action; it may sleep at the top of the loop (poll)  *)
(* and in the write of one byte to a watcher.  The state machine that      *)
(* polls the backplane runs in the same thread and only sets flags that    *)
(* the top of the loop reads, so its steps are taken there.                *)
(*                                                                         *)
(* The clients and the watchers are the callers of src/mcpd/mcpd_lib.c.    *)
(* A byte-by-byte READ or WRITE is here a slot that is busy for a while;   *)
(* McpdTransfer opens it up.  McpdResources adds pins and peripherals.     *)
(***************************************************************************)
EXTENDS Integers, Sequences, FiniteSets

CONSTANTS
    MyToken,    \* the token the backplane assigned to the daemon itself
    MaxTokens,  \* the modules the backplane ever holds, the daemon's included
    Clients,    \* the sockets of mcpd_connect()
    Watchers,   \* the sockets of mcpd_watch_create()
    SockCap,    \* bytes the socket of a watcher buffers
    MaxRequests,\* requests a client leaves unserved in its socket
    OtherRequests, \* requests about pins and peripherals (McpdResources)
    None        \* an empty slot (pollfd.fd = -1)

ASSUME DaemonAssumption ==
    /\ MaxTokens \in 1 .. 255
    /\ MyToken \in 0 .. MaxTokens - 1
    /\ SockCap \in Nat \ {0}
    /\ MaxRequests \in Nat \ {0}
    /\ \A r \in OtherRequests : r.op \notin {"quit", "read", "write"}
    /\ IsFiniteSet(Clients) /\ IsFiniteSet(Watchers)
    /\ Clients \cap Watchers = {}
    /\ None \notin Clients \cup Watchers
    /\ {"srv"} \cap (Clients \cup Watchers \cup {None}) = {}

VARIABLES
    presence,             \* the backplane's token count
    newGlobalTokenCount,  \* s1.new_global_token_count
    somethingHappened,    \* s1.something_happened
    globalTokenCount,     \* s.global_token_count
    peers,                \* peer_datas[i].token, in slot order
    fd,                   \* the client in a token's pollfd, or None
    isDoing,              \* peer_data_t.is_doing; a busy slot is not polled
    watch,                \* pollfds[offset..] with wd.next[], in order
    pc,                   \* where the daemon is in its loop
    ready,                \* descriptors with revents from the last poll()
    remaining,            \* remaining_ready_fds
    wi,                   \* wd.i
    fresh,                \* watchers whose revents poll() never wrote
    backlog,              \* connections not accepted yet
    client,               \* what each client is waiting for
    wants,                \* the token each client asked for
    sock,                 \* requests in a client's socket, oldest first
    reply,                \* the answer in a client's socket, or "none"
    watcher,              \* the life of each watcher's own end
    inbox,                \* bytes in a watcher's socket
    got                   \* bytes a watcher has read

daemonVars == <<globalTokenCount, peers, fd, isDoing, watch, pc, ready,
                remaining, wi, fresh>>
pollerVars == <<newGlobalTokenCount, somethingHappened>>
clientVars == <<client, wants, sock, reply>>
watcherVars == <<watcher, inbox, got>>
vars == <<presence, pollerVars, daemonVars, backlog, clientVars, watcherVars>>

Tokens == 0 .. MaxTokens - 1
PeerSet == {peers[i] : i \in DOMAIN peers}
Fds == Clients \cup Watchers \cup {"srv"}

\* The byte that asks for the stream of tokens instead of one module.
WatchRequest == 255
Results == {"ok", "doesnt_exist", "busy", "unavailable", "bad_request"}
Requests == {[op |-> "quit"], [op |-> "read"], [op |-> "write"]} \cup OtherRequests

ClientStates == {"off", "connecting", "open", "reading", "asking", "quitting"}
WatcherStates == {"off", "open", "closed"}

Init ==
    /\ presence = 1 + MyToken
    /\ newGlobalTokenCount = 0
    /\ somethingHappened = FALSE
    /\ globalTokenCount = 0
    /\ peers = <<>>
    /\ fd = [t \in Tokens |-> None]
    /\ isDoing = [t \in Tokens |-> "idle"]
    /\ watch = <<>>
    /\ pc = "top"
    /\ ready = {}
    /\ remaining = 0
    /\ wi = 1
    /\ fresh = {}
    /\ backlog = <<>>
    /\ client = [c \in Clients |-> "off"]
    /\ wants = [c \in Clients |-> 0]
    /\ sock = [c \in Clients |-> <<>>]
    /\ reply = [c \in Clients |-> "none"]
    /\ watcher = [w \in Watchers |-> "off"]
    /\ inbox = [w \in Watchers |-> <<>>]
    /\ got = [w \in Watchers |-> <<>>]

(***************************************************************************)
(* The backplane, and the poller state machine that listens to it.         *)
(***************************************************************************)

\* A module is plugged in; the backplane never takes a token back.
ModuleArrives ==
    /\ presence < MaxTokens
    /\ presence' = presence + 1
    /\ UNCHANGED <<pollerVars, daemonVars, backlog, clientVars, watcherVars>>

\* A poll response with the PRESENCE flag is complete.
PollerPresence ==
    /\ pc = "top"
    /\ newGlobalTokenCount # presence
    /\ newGlobalTokenCount' = presence
    /\ somethingHappened' = TRUE
    /\ UNCHANGED <<presence, daemonVars, backlog, clientVars, watcherVars>>

(***************************************************************************)
(* The top of the loop: new tokens become peers, then every watcher is     *)
(* brought up to date.                                                     *)
(***************************************************************************)

\* The tokens in from .. below-1 that name another module, lowest first.
OtherTokens(from, below) == {t \in from .. below - 1 : t # MyToken}

\* uint8_t arithmetic: the slots to append for the new token count.
TokensToAdd ==
    LET grown == (newGlobalTokenCount - globalTokenCount) % 256
        own   == MyToken >= globalTokenCount /\ MyToken < newGlobalTokenCount
    IN  IF own THEN grown - 1 ELSE grown

\* Slip: the own token is not skipped.
AppendedTokenUnskipped(k) == globalTokenCount + k - 1

\* The token of the k-th appended slot: consecutive, skipping the own one.
AppendedToken(k) ==
    LET t == globalTokenCount + k - 1
    IN  IF globalTokenCount <= MyToken /\ MyToken <= t THEN t + 1 ELSE t

AddTokens ==
    /\ pc = "top"
    /\ somethingHappened
    /\ somethingHappened' = FALSE
    /\ globalTokenCount' = newGlobalTokenCount
    /\ peers' = peers \o [k \in 1 .. TokensToAdd |-> AppendedToken(k)]
    /\ wi' = 1
    /\ pc' = IF TokensToAdd > 0 /\ watch # <<>> THEN "updateAll" ELSE "top"
    /\ UNCHANGED <<presence, newGlobalTokenCount, fd, isDoing, watch, ready,
                   remaining, fresh, backlog, clientVars, watcherVars>>

(***************************************************************************)
(* update_watcher(): one byte per step, because the daemon sleeps in       *)
(* write() while the socket is full.  The local wn is kept in next, which  *)
(* nothing else reads meanwhile.                                           *)
(***************************************************************************)

\* Slip: the newest module is left for the next time.
UnsentButLast(i) == OtherTokens(watch[i].next, globalTokenCount - 1)

Unsent(i) == OtherTokens(watch[i].next, globalTokenCount)

Lowest(S) == CHOOSE t \in S : \A u \in S : t <= u

\* Slip: only the descriptor moves, the counter of the closed one stays.
WithoutWatcherKeepingNext(i) ==
    SubSeq([watch EXCEPT ![i].fd = watch[Len(watch)].fd], 1, Len(watch) - 1)

\* close_watcher(): the last entry takes the place of the closed one.
WithoutWatcher(i) ==
    SubSeq([watch EXCEPT ![i] = watch[Len(watch)]], 1, Len(watch) - 1)

\* The end of one descriptor's turn, with its --remaining_ready_fds.
NextReady(handled) ==
    /\ remaining' = remaining - 1
    /\ pc' = IF remaining = 1 THEN "top" ELSE "dispatch"
    /\ ready' = IF remaining = 1 THEN {} ELSE ready \ handled

\* The loop over the watchers, or the update of an accepted one, goes on.
AfterWatcher(i, count) ==
    IF pc = "updateAll"
    THEN /\ pc' = IF i > count THEN "top" ELSE "updateAll"
         /\ wi' = IF i > count THEN 1 ELSE i
         /\ UNCHANGED <<ready, remaining>>
    ELSE /\ NextReady({"srv"})
         /\ wi' = 1

WriteToken ==
    /\ pc \in {"updateAll", "updateNew"}
    /\ Unsent(wi) # {}
    /\ LET w == watch[wi].fd
           t == Lowest(Unsent(wi))
       IN  /\ watcher[w] = "open"
           /\ Len(inbox[w]) < SockCap
           /\ inbox' = [inbox EXCEPT ![w] = Append(@, t)]
           /\ watch' = [watch EXCEPT ![wi].next = t + 1]
    /\ UNCHANGED <<presence, pollerVars, globalTokenCount, peers, fd, isDoing,
                   pc, ready, remaining, wi, fresh, backlog, clientVars,
                   watcher, got>>

\* The write fails with EPIPE.
WriteToClosed ==
    /\ pc \in {"updateAll", "updateNew"}
    /\ Unsent(wi) # {}
    /\ watcher[watch[wi].fd] = "closed"
    /\ watch' = WithoutWatcher(wi)
    /\ AfterWatcher(wi, Len(watch) - 1)
    /\ UNCHANGED <<presence, pollerVars, globalTokenCount, peers, fd, isDoing,
                   fresh, backlog, clientVars, watcherVars>>

WatcherUpToDate ==
    /\ pc \in {"updateAll", "updateNew"}
    /\ Unsent(wi) = {}
    /\ watch' = [watch EXCEPT ![wi].next = globalTokenCount]
    /\ AfterWatcher(wi + 1, Len(watch))
    /\ UNCHANGED <<presence, pollerVars, globalTokenCount, peers, fd, isDoing,
                   fresh, backlog, clientVars, watcherVars>>

(***************************************************************************)
(* poll(), and the descriptors it found ready: the listening socket, the   *)
(* peers in slot order, the watchers in order.                             *)
(***************************************************************************)

Watching == {watch[i].fd : i \in DOMAIN watch}

\* Slip: nobody is accepted while a transfer is under way.
ReadyListenerBetweenTransfers ==
    {"srv" : b \in {i \in DOMAIN backlog : \A t \in PeerSet : isDoing[t] = "idle"}}

ReadyListener == {"srv" : b \in DOMAIN backlog}

ReadyFds ==
    ReadyListener
    \cup {fd[t] : t \in {u \in PeerSet : /\ fd[u] # None
                                          /\ isDoing[u] = "idle"
                                          /\ sock[fd[u]] # <<>>}}
    \cup {w \in Watching : watcher[w] = "closed"}

Poll ==
    /\ pc = "top"
    /\ ~somethingHappened
    /\ ReadyFds # {}
    /\ ready' = ReadyFds
    /\ remaining' = Cardinality(ReadyFds)
    /\ fresh' = {}
    /\ pc' = "dispatch"
    /\ UNCHANGED <<presence, pollerVars, globalTokenCount, peers, fd, isDoing,
                   watch, wi, backlog, clientVars, watcherVars>>

\* Slip: a slot that is disabled by its transfer counts as vacant.
ResponseTakingDisabled(t) ==
    IF t \notin PeerSet THEN "doesnt_exist"
    ELSE IF fd[t] # None /\ isDoing[t] = "idle" THEN "busy"
    ELSE "ok"

Response(t) ==
    IF t \notin PeerSet THEN "doesnt_exist"
    ELSE IF fd[t] # None THEN "busy"
    ELSE "ok"

\* A client connected and named a module.
AcceptClient ==
    /\ pc = "dispatch"
    /\ "srv" \in ready
    /\ LET c == Head(backlog).fd
           t == Head(backlog).token
       IN  /\ t # WatchRequest
           /\ reply' = [reply EXCEPT ![c] = Response(t)]
           /\ fd' = IF Response(t) = "ok" THEN [fd EXCEPT ![t] = c] ELSE fd
    /\ backlog' = Tail(backlog)
    /\ NextReady({"srv"})
    /\ UNCHANGED <<presence, pollerVars, globalTokenCount, peers, isDoing,
                   watch, wi, fresh, client, wants, sock, watcherVars>>

\* A watcher connected: it gets an entry at the end, with next = 0 and a
\* revents field nobody has written, and is told every known token now.
AcceptWatcher ==
    /\ pc = "dispatch"
    /\ "srv" \in ready
    /\ Head(backlog).token = WatchRequest
    /\ watch' = Append(watch, [fd |-> Head(backlog).fd, next |-> 0])
    /\ fresh' = {Head(backlog).fd}
    /\ backlog' = Tail(backlog)
    /\ wi' = Len(watch) + 1
    /\ pc' = "updateNew"
    /\ UNCHANGED <<presence, pollerVars, globalTokenCount, peers, fd, isDoing,
                   ready, remaining, clientVars, watcherVars>>

\* It is the turn of the ready peer in the lowest slot.
PeerTurn(t) ==
    /\ pc = "dispatch"
    /\ "srv" \notin ready
    /\ \E i \in DOMAIN peers :
          /\ peers[i] = t
          /\ fd[t] \in ready
          /\ \A j \in 1 .. i - 1 : fd[peers[j]] \notin ready

\* What every request does to the sockets: it leaves the client's, and the
\* answer, if the operation has one, enters it.
Serve(c, answer) ==
    /\ sock' = [sock EXCEPT ![c] = Tail(@)]
    /\ reply' = IF answer = "none" THEN reply ELSE [reply EXCEPT ![c] = answer]
    /\ NextReady({c})

\* OPERATION_QUIT.
ServeQuit(t) ==
    /\ PeerTurn(t)
    /\ Head(sock[fd[t]]).op = "quit"
    /\ Serve(fd[t], "ok")
    /\ fd' = [fd EXCEPT ![t] = None]
    /\ UNCHANGED <<presence, pollerVars, globalTokenCount, peers, isDoing,
                   watch, wi, fresh, backlog, client, wants, watcherVars>>

\* OPERATION_READ and OPERATION_WRITE: pfd->fd = -pfd->fd, and
\* continue_transfer() leaves some of the bytes for later.
ServeTransfer(t) ==
    /\ PeerTurn(t)
    /\ Head(sock[fd[t]]).op \in {"read", "write"}
    /\ Serve(fd[t], "none")
    /\ isDoing' = [isDoing EXCEPT ![t] = Head(sock[fd[t]]).op]
    /\ UNCHANGED <<presence, pollerVars, globalTokenCount, peers, fd, watch, wi,
                   fresh, backlog, client, wants, watcherVars>>

\* continue_transfer() moves all the bytes of the request at once.
ServeTransferAtOnce(t) ==
    /\ PeerTurn(t)
    /\ Head(sock[fd[t]]).op \in {"read", "write"}
    /\ Serve(fd[t], IF Head(sock[fd[t]]).op = "read" THEN "ok" ELSE "none")
    /\ UNCHANGED <<presence, pollerVars, globalTokenCount, peers, fd, isDoing,
                   watch, wi, fresh, backlog, client, wants, watcherVars>>

\* The other operations; all but OPERATION_GPIO_SET have an answer.
ServeOther(t, answer) ==
    /\ PeerTurn(t)
    /\ Head(sock[fd[t]]) \in OtherRequests
    /\ answer = "none" <=> Head(sock[fd[t]]).op = "gpio_set"
    /\ Serve(fd[t], answer)
    /\ UNCHANGED <<presence, pollerVars, globalTokenCount, peers, fd, isDoing,
                   watch, wi, fresh, backlog, client, wants, watcherVars>>

\* Slip: the client of a write is told when it is done, as that of a read.
DoneReplyToAll(t) == [reply EXCEPT ![fd[t]] = "ok"]

\* The last bytes of a read complete the call; a write completed before.
DoneReply(t) ==
    IF isDoing[t] = "read" THEN [reply EXCEPT ![fd[t]] = "ok"] ELSE reply

\* continue_transfer() has moved the last byte, later.
TransferDone(t) ==
    /\ pc = "top"
    /\ isDoing[t] # "idle"
    /\ isDoing' = [isDoing EXCEPT ![t] = "idle"]
    /\ reply' = DoneReply(t)
    /\ UNCHANGED <<presence, pollerVars, globalTokenCount, peers, fd, watch, pc,
                   ready, remaining, wi, fresh, backlog, client, wants, sock,
                   watcherVars>>

\* The loop over the watchers has come to entry i: no descriptor before it
\* is left to examine.  An accepted watcher counts as examined only if it
\* has moved to a place the loop still reaches.
WatcherTurn(i) ==
    LET examined == ready \cup fresh
    IN  /\ pc = "dispatch"
        /\ "srv" \notin ready
        /\ \A t \in PeerSet : fd[t] \notin ready
        /\ i \in DOMAIN watch
        /\ watch[i].fd \in examined
        /\ \A j \in 1 .. i - 1 : watch[j].fd \notin examined

\* POLLHUP.
WatcherHungUp(i) ==
    /\ WatcherTurn(i)
    /\ watch[i].fd \in ready
    /\ watch' = WithoutWatcher(i)
    /\ NextReady({watch[i].fd})
    /\ UNCHANGED <<presence, pollerVars, globalTokenCount, peers, fd, isDoing,
                   wi, fresh, backlog, clientVars, watcherVars>>

(***************************************************************************)
(* The entry of a watcher accepted since the poll: its revents is memory   *)
(* realloc() handed out, so any value is possible.                         *)
(***************************************************************************)

FreshReadsZero(i) ==
    /\ WatcherTurn(i)
    /\ watch[i].fd \in fresh
    /\ fresh' = {}
    /\ UNCHANGED <<presence, pollerVars, globalTokenCount, peers, fd, isDoing,
                   watch, pc, ready, remaining, wi, backlog, clientVars,
                   watcherVars>>

\* Nothing is left to send to it, so update_watcher() changes nothing.
FreshReadsPollout(i) ==
    /\ WatcherTurn(i)
    /\ watch[i].fd \in fresh
    /\ fresh' = {}
    /\ NextReady({})
    /\ UNCHANGED <<presence, pollerVars, globalTokenCount, peers, fd, isDoing,
                   watch, wi, backlog, clientVars, watcherVars>>

FreshReadsPollhup(i) ==
    /\ WatcherTurn(i)
    /\ watch[i].fd \in fresh
    /\ fresh' = {}
    /\ watch' = WithoutWatcher(i)
    /\ NextReady({})
    /\ UNCHANGED <<presence, pollerVars, globalTokenCount, peers, fd, isDoing,
                   wi, backlog, clientVars, watcherVars>>

\* assert(0): the daemon is gone.
FreshReadsOther(i) ==
    /\ WatcherTurn(i)
    /\ watch[i].fd \in fresh
    /\ pc' = "aborted"
    /\ UNCHANGED <<presence, pollerVars, globalTokenCount, peers, fd, isDoing,
                   watch, ready, remaining, wi, fresh, backlog, clientVars,
                   watcherVars>>

(***************************************************************************)
(* The callers: mcpd_lib.c.                                                *)
(***************************************************************************)

\* mcpd_connect(), up to the write of the token.
Connect(c, t) ==
    /\ client[c] = "off"
    /\ client' = [client EXCEPT ![c] = "connecting"]
    /\ wants' = [wants EXCEPT ![c] = t]
    /\ backlog' = Append(backlog, [fd |-> c, token |-> t])
    /\ UNCHANGED <<presence, pollerVars, daemonVars, sock, reply, watcherVars>>

\* mcpd_connect(), the response.
Connected(c) ==
    /\ client[c] = "connecting"
    /\ reply[c] # "none"
    /\ client' = [client EXCEPT ![c] = IF reply[c] = "ok" THEN "open" ELSE "off"]
    /\ reply' = [reply EXCEPT ![c] = "none"]
    /\ UNCHANGED <<presence, pollerVars, daemonVars, backlog, wants, sock,
                   watcherVars>>

\* A call of the library writes a request; after = what the caller does then.
Request(c, request, after) ==
    /\ client[c] = "open"
    /\ Len(sock[c]) < MaxRequests
    /\ sock' = [sock EXCEPT ![c] = Append(@, request)]
    /\ client' = [client EXCEPT ![c] = after]
    /\ UNCHANGED <<presence, pollerVars, daemonVars, backlog, wants, reply,
                   watcherVars>>

\* mcpd_write() does not wait for the daemon; mcpd_read() does, and so does
\* mcpd_disconnect().
RequestWrite(c) == Request(c, [op |-> "write"], "open")
RequestRead(c) == Request(c, [op |-> "read"], "reading")
Disconnect(c) == Request(c, [op |-> "quit"], "quitting")

\* The calls about pins and peripherals wait, except mcpd_gpio_set().
RequestOther(c, r) == Request(c, r, IF r.op = "gpio_set" THEN "open" ELSE "asking")

CallDone(c) ==
    /\ client[c] \in {"reading", "asking"}
    /\ reply[c] # "none"
    /\ client' = [client EXCEPT ![c] = "open"]
    /\ reply' = [reply EXCEPT ![c] = "none"]
    /\ UNCHANGED <<presence, pollerVars, daemonVars, backlog, wants, sock,
                   watcherVars>>

Disconnected(c) ==
    /\ client[c] = "quitting"
    /\ reply[c] # "none"
    /\ client' = [client EXCEPT ![c] = "off"]
    /\ reply' = [reply EXCEPT ![c] = "none"]
    /\ UNCHANGED <<presence, pollerVars, daemonVars, backlog, wants, sock,
                   watcherVars>>

\* mcpd_watch_create().
WatchCreate(w) ==
    /\ watcher[w] = "off"
    /\ watcher' = [watcher EXCEPT ![w] = "open"]
    /\ backlog' = Append(backlog, [fd |-> w, token |-> WatchRequest])
    /\ UNCHANGED <<presence, pollerVars, daemonVars, clientVars, inbox, got>>

\* mcpd_watch_wait().
WatchWait(w) ==
    /\ watcher[w] = "open"
    /\ inbox[w] # <<>>
    /\ got' = [got EXCEPT ![w] = Append(@, Head(inbox[w]))]
    /\ inbox' = [inbox EXCEPT ![w] = Tail(@)]
    /\ UNCHANGED <<presence, pollerVars, daemonVars, backlog, clientVars, watcher>>

\* mcpd_watch_destroy().
WatchDestroy(w) ==
    /\ watcher[w] = "open"
    /\ watcher' = [watcher EXCEPT ![w] = "closed"]
    /\ UNCHANGED <<presence, pollerVars, daemonVars, backlog, clientVars, inbox, got>>

(***************************************************************************)
(* The specification.                                                      *)
(***************************************************************************)

MainLoop ==
    \/ PollerPresence
    \/ AddTokens
    \/ WriteToken
    \/ WriteToClosed
    \/ WatcherUpToDate
    \/ Poll
    \/ AcceptClient
    \/ AcceptWatcher
    \/ \E i \in DOMAIN watch :
          \/ WatcherHungUp(i)
          \/ FreshReadsZero(i)
          \/ FreshReadsPollout(i)
          \/ FreshReadsPollhup(i)
          \/ FreshReadsOther(i)

Operate ==
    \E t \in Tokens :
        \/ ServeQuit(t)
        \/ ServeTransfer(t)
        \/ ServeTransferAtOnce(t)
        \/ \E a \in Results \cup {"none"} : ServeOther(t, a)

ClientStep(c) ==
    \/ \E t \in Tokens : Connect(c, t)
    \/ Connected(c)
    \/ RequestWrite(c)
    \/ RequestRead(c)
    \/ \E r \in OtherRequests : RequestOther(c, r)
    \/ Disconnect(c)
    \/ CallDone(c)
    \/ Disconnected(c)

WatcherStep(w) == WatchCreate(w) \/ WatchWait(w) \/ WatchDestroy(w)

Next ==
    \/ ModuleArrives
    \/ MainLoop
    \/ Operate
    \/ \E t \in Tokens : TransferDone(t)
    \/ \E c \in Clients : ClientStep(c)
    \/ \E w \in Watchers : WatcherStep(w)

Spec == Init /\ [][Next]_vars

\* The daemon never stops while it can act, and serves the poller's pins in
\* every round before it looks at its sockets; the library reads the answer it
\* waits for, and the program behind a watcher keeps calling
\* mcpd_watch_wait() (mcp_init.c does nothing else).  Nobody has to connect,
\* to disconnect or to finish a transfer.
Fairness ==
    /\ WF_vars(MainLoop \/ Operate)
    /\ SF_vars(PollerPresence)
    /\ \A c \in Clients : WF_vars(Connected(c))
    /\ \A w \in Watchers : WF_vars(WatchWait(w))

FairSpec == Spec /\ Fairness

(***************************************************************************)
(* Properties.                                                             *)
(***************************************************************************)

TypeOK ==
    /\ presence \in 0 .. MaxTokens
    /\ newGlobalTokenCount \in 0 .. MaxTokens
    /\ somethingHappened \in BOOLEAN
    /\ globalTokenCount \in 0 .. MaxTokens
    /\ peers \in Seq(Tokens)
    /\ fd \in [Tokens -> Clients \cup {None}]
    /\ isDoing \in [Tokens -> {"idle", "read", "write"}]
    /\ watch \in Seq([fd : Watchers, next : 0 .. MaxTokens])
    /\ pc \in {"top", "updateAll", "updateNew", "dispatch", "aborted"}
    /\ ready \in SUBSET Fds
    /\ remaining \in Nat
    /\ wi \in Nat \ {0}
    /\ fresh \in SUBSET Watchers
    /\ backlog \in Seq([fd : Clients, token : Tokens]
                       \cup [fd : Watchers, token : {WatchRequest}])
    /\ client \in [Clients -> ClientStates]
    /\ wants \in [Clients -> Tokens]
    /\ sock \in [Clients -> Seq(Requests)]
    /\ reply \in [Clients -> Results \cup {"none"}]
    /\ watcher \in [Watchers -> WatcherStates]
    /\ inbox \in [Watchers -> Seq(Tokens)]
    /\ got \in [Watchers -> Seq(Tokens)]

\* The slots name every module the daemon has heard of except itself, each
\* once and in the order of the tokens, whatever jumps the token count made
\* (the loop that appends peer_datas).
SlotsEnumerateTokens ==
    /\ Len(peers) = IF MyToken < globalTokenCount
                    THEN globalTokenCount - 1 ELSE globalTokenCount
    /\ \A i \in DOMAIN peers : peers[i] = IF i <= MyToken THEN i - 1 ELSE i

\* A client may use a module from the moment mcpd_connect() returned OK
\* until it calls mcpd_disconnect().
Holds(c) == client[c] \in {"open", "reading", "asking"}

\* No two clients ever use the same module, even while the slot of the one
\* is disabled by its transfer or its QUIT is on the way.
OneClientPerModule ==
    \A c, d \in Clients :
        Holds(c) /\ Holds(d) /\ wants[c] = wants[d] => c = d

\* The byte a client reads is the answer to the call it made: no transfer
\* that finishes late, such as that of a mcpd_write() nobody waited for, can
\* be taken for the answer of a later call.
AnswersMatchCalls ==
    \A c \in Clients :
        /\ reply[c] # "none" => client[c] \notin {"off", "open"}
        /\ client[c] \in {"reading", "quitting"} => reply[c] \in {"none", "ok"}
        /\ client[c] \in {"reading", "asking"} /\ reply[c] # "none" =>
              sock[c] = <<>> /\ isDoing[wants[c]] = "idle"

\* The tokens a watcher must have been sent, in order.
TokensBelow(n) ==
    [k \in 1 .. Cardinality(OtherTokens(0, n)) |-> IF k <= MyToken THEN k - 1 ELSE k]

\* Whenever the daemon goes to sleep in poll(), every watcher it keeps has
\* been sent every other module exactly once and in order, however many
\* watchers came and went while the tokens were written.
WatchersToldEverything ==
    pc \in {"top", "dispatch"} =>
        \A w \in Watching : got[w] \o inbox[w] = TokensBelow(globalTokenCount)

\* A connection attempt is answered, even if a transfer of another client
\* never ends.
ConnectAnswered ==
    \A c \in Clients : client[c] = "connecting" ~> client[c] # "connecting"

\* The daemon has crashed, or taken an unwritten revents of the watcher for a
\* hang-up (NeverAborts below).
Abandoned(w) ==
    \/ pc = "aborted"
    \/ w \notin Watching /\ \A i \in DOMAIN backlog : backlog[i].fd # w

\* Every module that is plugged in is announced to every watcher that stays
\* and that the daemon has not abandoned, also while clients keep coming.
ModulesAnnounced ==
    \A w \in Watchers :
        watcher[w] = "open" ~> \/ watcher[w] = "closed"
                               \/ Abandoned(w)
                               \/ got[w] = TokensBelow(presence)

\* The daemon implements the abstract directory: a client holds a module
\* between the OK it read and the QUIT it writes, and a watcher has been told
\* what it read or can read.
Directory == INSTANCE ModuleDirectory WITH
    known <- globalTokenCount,
    held  <- {h \in Clients \X Tokens : Holds(h[1]) /\ wants[h[1]] = h[2]},
    told  <- [w \in Watchers |-> got[w] \o inbox[w]]

ImplementsDirectory == Directory!Spec

\* The revents of a watcher are POLLHUP or POLLOUT, as the assert(0) at the
\* end of the loop over the watchers says.
NeverAborts == pc # "aborted"

=============================================================================
