---------------------------- MODULE McpdResources ----------------------------
(***************************************************************************)
(* The pins and peripherals mcpd lends to the clients of McpdDaemon: who   *)
(* owns a peripheral, which pins are taken, and what the daemon has told   *)
(* the backplane's crosspoint switch.  It extends the main loop with the   *)
(* resource operations and adds to QUIT what QUIT gives back.              *)
(***************************************************************************)
EXTENDS McpdDaemon

CONSTANTS
    Periphs,      \* the indices of mcp_pins[]
    PeriphType,   \* the type of each peripheral
    DriversOf,    \* the drivers each type of peripheral has
    Io,           \* the pins of each peripheral: [pin, input] per io_type
    Pins,         \* every socket pin, the daemon's own included
    OwnPins,      \* the pins of the two sockets the daemon sits in
    NoPin,        \* a pinno of 4 or more in a request; -1 in a resource
    MaxResources  \* bound on the resources a peer collects

NoToken == 255
NoDriver == "none"
NoRequest == [op |-> "none"]

ASSUME ResourceAssumption ==
    /\ Periphs \subseteq Nat
    /\ OwnPins \subseteq Pins
    /\ NoPin \notin Pins
    /\ MaxResources \in 1 .. 255
    /\ \A p \in Periphs : \A k \in DOMAIN Io[p] : Io[p][k].pin \in OwnPins
    /\ \A r \in OtherRequests :
          r.op \in {"gpio_acquire", "resource_route"} => r.pin \in Pins \cup {NoPin}

\* mcp_pins[] comes with the board.  QUIT cuts a connection without looking at
\* those of other peers, so no two peripherals of the table may share a pin.
ASSUME BoardAssumption ==
    \A p, q \in Periphs : \A k \in DOMAIN Io[p], l \in DOMAIN Io[q] :
        Io[p][k].pin = Io[q][l].pin => p = q

VARIABLES
    owner,        \* s.pin_periph_owners
    driver,       \* s.pin_driver_active
    resources,    \* peer_data_t.resources, per token
    routes,       \* the connections of the crosspoint switch
    driven,       \* the pins the crosspoint switch drives directly
    answer,       \* the number that follows reply in a client's socket
    asked,        \* the request a client waits for
    periphs,      \* the peripherals a client was told it has, with drivers
    gpios         \* the pins a client was told it has, with their numbers

handleVars == <<asked, periphs, gpios>>
resVars == <<owner, driver, resources, routes, driven, answer, handleVars>>
allVars == <<vars, resVars>>

AllDrivers == UNION {DriversOf[PeriphType[p]] : p \in Periphs}
Resource == [from : Pins \cup {NoPin}, to : Pins]

RInit ==
    /\ Init
    /\ owner = [p \in Periphs |-> NoToken]
    /\ driver = [p \in Periphs |-> NoDriver]
    /\ resources = [t \in Tokens |-> <<>>]
    /\ routes = {}
    /\ driven = {}
    /\ answer = [c \in Clients |-> 255]
    /\ asked = [c \in Clients |-> NoRequest]
    /\ periphs = [c \in Clients |-> {}]
    /\ gpios = [c \in Clients |-> {}]

\* Every resource of every peer.
Entries == UNION {{resources[t][i] : i \in DOMAIN resources[t]} : t \in PeerSet}

\* It is the turn of peer t, and its request is r.
Serving(t, r) ==
    /\ PeerTurn(t)
    /\ r = Head(sock[fd[t]])

\* A resource request is answered; the slot and the connections stay.
Answered(t, result, number) ==
    /\ ServeOther(t, result)
    /\ answer' = [answer EXCEPT ![fd[t]] = number]
    /\ UNCHANGED handleVars

(***************************************************************************)
(* OPERATION_QUIT, with everything it gives back.  A pin the peer drove    *)
(* directly stays as it is.                                                *)
(***************************************************************************)

OwnersWithout(t) == [p \in Periphs |-> IF owner[p] = t THEN NoToken ELSE owner[p]]

\* Slip: the connections stay in the crosspoint switch.
RoutesAsBefore(t) == routes

RoutesWithout(t) ==
    routes \ {<<resources[t][i].from, resources[t][i].to>> : i \in DOMAIN resources[t]}

QuitAndRelease(t) ==
    /\ ServeQuit(t)
    /\ owner' = OwnersWithout(t)
    /\ routes' = RoutesWithout(t)
    /\ resources' = [resources EXCEPT ![t] = <<>>]
    /\ UNCHANGED <<driver, driven, answer, handleVars>>

(***************************************************************************)
(* GPIO pins.                                                              *)
(***************************************************************************)

\* Slip: only the pins of a peripheral count as taken.
InUseByPeripheral(x) == \E e \in Entries : e.to = x /\ e.from # NoPin

InUse(x) == \E e \in Entries : e.to = x

\* The number by which the client will name the pin: its index.
NewNumber(t) == Len(resources[t])

GpioAcquire(t, r) ==
    /\ Serving(t, r)
    /\ r.op = "gpio_acquire"
    /\ \/ /\ r.pin \in OwnPins \cup {NoPin} \/ InUse(r.pin)
          /\ Answered(t, "unavailable", 255)
          /\ UNCHANGED resources
       \/ /\ r.pin \in Pins \ OwnPins
          /\ ~InUse(r.pin)
          /\ Answered(t, "ok", NewNumber(t))
          /\ resources' = [resources EXCEPT
                ![t] = Append(@, [from |-> NoPin, to |-> r.pin])]
    /\ UNCHANGED <<owner, driver, routes, driven>>

\* mcpd_gpio_set() gets no answer.
GpioSet(t, r) ==
    /\ Serving(t, r)
    /\ r.op = "gpio_set"
    /\ LET known == /\ r.gpio < Len(resources[t])
                    /\ resources[t][r.gpio + 1].from = NoPin
           pin == resources[t][r.gpio + 1].to
       IN  driven' = IF ~known THEN driven
                     ELSE IF r.en THEN driven \cup {pin} ELSE driven \ {pin}
    /\ Answered(t, "none", answer[fd[t]])
    /\ UNCHANGED <<owner, driver, resources, routes>>

(***************************************************************************)
(* Peripherals.                                                            *)
(***************************************************************************)

\* Slip: a peripheral whose driver is another one is taken too.
CandidatesOfAnyDriver(type, wanted) ==
    {p \in Periphs : PeriphType[p] = type /\ owner[p] = NoToken}

\* Free peripherals of the type whose driver is the wanted one, or not chosen.
Candidates(type, wanted) ==
    {p \in Periphs : /\ PeriphType[p] = type
                     /\ owner[p] = NoToken
                     /\ driver[p] \in {NoDriver, wanted}}

\* The first with the driver running, else the first.
IsChoice(p, type, wanted) ==
    LET C == Candidates(type, wanted)
        running == {q \in C : driver[q] = wanted}
    IN  p = Lowest(IF running # {} THEN running ELSE C)

ResourceRefused(t, r) ==
    /\ Serving(t, r)
    /\ r.op = "resource_acquire"
    /\ Candidates(r.periph, r.driver) = {} \/ r.driver \notin DriversOf[r.periph]
    /\ Answered(t, "unavailable", 255)
    /\ UNCHANGED <<owner, driver, resources, routes, driven>>

\* The owner and the driver are recorded before boardctl() installs the
\* driver, and stay recorded if it fails.
ResourceAcquire(t, r) ==
    /\ Serving(t, r)
    /\ r.op = "resource_acquire"
    /\ r.driver \in DriversOf[r.periph]
    /\ \E p \in Candidates(r.periph, r.driver) :
          /\ IsChoice(p, r.periph, r.driver)
          /\ owner' = [owner EXCEPT ![p] = t]
          /\ driver' = [driver EXCEPT ![p] = IF @ = NoDriver THEN r.driver ELSE @]
          /\ \/ Answered(t, "ok", p)
             \/ /\ driver[p] = NoDriver      \* boardctl() fails
                /\ Answered(t, "unavailable", 255)
    /\ UNCHANGED <<resources, routes, driven>>

\* The crosspoint connection between pin x and io of peripheral p.
RouteOf(p, io, x) ==
    IF Io[p][io].input THEN [from |-> x, to |-> Io[p][io].pin]
                       ELSE [from |-> Io[p][io].pin, to |-> x]

RouteError(t, r) ==
    IF r.pin = NoPin \/ r.id \notin Periphs THEN "bad_request"
    ELSE IF owner[r.id] # t THEN "bad_request"
    ELSE IF r.pin \in OwnPins THEN "unavailable"
    ELSE IF r.io \notin DOMAIN Io[r.id] THEN "bad_request"
    ELSE "none"

RouteRefused(t, r) ==
    /\ Serving(t, r)
    /\ r.op = "resource_route"
    /\ RouteError(t, r) # "none"
    /\ Answered(t, RouteError(t, r), 255)
    /\ UNCHANGED <<owner, driver, resources, routes, driven>>

\* The destination stops being driven directly, then is connected.
Route(t, r) ==
    /\ Serving(t, r)
    /\ r.op = "resource_route"
    /\ RouteError(t, r) = "none"
    /\ LET e == RouteOf(r.id, r.io, r.pin)
       IN  /\ driven' = driven \ {e.to}
           /\ routes' = routes \cup {<<e.from, e.to>>}
           /\ resources' = [resources EXCEPT ![t] = Append(@, e)]
    /\ Answered(t, "ok", 0)
    /\ UNCHANGED <<owner, driver>>

\* The answer is the driver the path is built from, or nothing.
ResourceGetPath(t, r) ==
    /\ Serving(t, r)
    /\ r.op = "resource_get_path"
    /\ LET mine == r.id \in Periphs /\ owner[r.id] = t
       IN  Answered(t, IF mine THEN "ok" ELSE "unavailable", 255)
    /\ UNCHANGED <<owner, driver, resources, routes, driven>>

(***************************************************************************)
(* The callers.                                                            *)
(***************************************************************************)

\* mcpd_gpio_acquire(), mcpd_gpio_set(), mcpd_resource_*().  The bound is
\* on requests, so the daemon's handlers are not weakened.
Ask(c, r) ==
    /\ RequestOther(c, r)
    /\ r.op \in {"gpio_acquire", "resource_route"} =>
          Len(resources[wants[c]]) < MaxResources
    /\ asked' = IF r.op = "gpio_set" THEN asked ELSE [asked EXCEPT ![c] = r]
    /\ UNCHANGED <<owner, driver, resources, routes, driven, answer, periphs, gpios>>

\* A call returns; an acquired number is kept by the caller.
AskDone(c) ==
    /\ CallDone(c)
    /\ LET won(op) == client[c] = "asking" /\ asked[c].op = op /\ reply[c] = "ok"
       IN  /\ periphs' = IF won("resource_acquire")
                         THEN [periphs EXCEPT ![c] = @ \cup {<<answer[c], asked[c].driver>>}]
                         ELSE periphs
           /\ gpios' = IF won("gpio_acquire")
                       THEN [gpios EXCEPT ![c] = @ \cup {<<answer[c], asked[c].pin>>}]
                       ELSE gpios
    /\ asked' = [asked EXCEPT ![c] = NoRequest]
    /\ answer' = [answer EXCEPT ![c] = 255]
    /\ UNCHANGED <<owner, driver, resources, routes, driven>>

\* mcpd_disconnect(): the numbers mean nothing after it.
DisconnectAll(c) ==
    /\ Disconnect(c)
    /\ periphs' = [periphs EXCEPT ![c] = {}]
    /\ gpios' = [gpios EXCEPT ![c] = {}]
    /\ UNCHANGED <<owner, driver, resources, routes, driven, answer, asked>>

(***************************************************************************)
(* The specification: McpdDaemon with the operations above in place of its *)
(* unspecified ones.                                                       *)
(***************************************************************************)

ResourceOperation(t) ==
    \E r \in OtherRequests :
        \/ GpioAcquire(t, r)
        \/ GpioSet(t, r)
        \/ ResourceRefused(t, r)
        \/ ResourceAcquire(t, r)
        \/ RouteRefused(t, r)
        \/ Route(t, r)
        \/ ResourceGetPath(t, r)

Elsewhere ==
    /\ \/ ModuleArrives
       \/ MainLoop
       \/ \E t \in Tokens :
             \/ ServeTransfer(t)
             \/ ServeTransferAtOnce(t)
             \/ TransferDone(t)
       \/ \E c \in Clients :
             \/ \E t \in Tokens : Connect(c, t)
             \/ Connected(c)
             \/ RequestWrite(c)
             \/ RequestRead(c)
             \/ Disconnected(c)
       \/ \E w \in Watchers : WatcherStep(w)
    /\ UNCHANGED resVars

RNext ==
    \/ Elsewhere
    \/ \E t \in Tokens : QuitAndRelease(t) \/ ResourceOperation(t)
    \/ \E c \in Clients :
          \/ \E r \in OtherRequests : Ask(c, r)
          \/ AskDone(c)
          \/ DisconnectAll(c)

RSpec == RInit /\ [][RNext]_allVars

(***************************************************************************)
(* Properties.                                                             *)
(***************************************************************************)

\* What a client was told it has, the daemon has in its name: the peripheral
\* is owned by its module and runs the driver it asked for, and the pin's
\* number still leads to that pin, also while other clients come, quit and
\* take over what was released.
HandlesAreGood ==
    \A c \in Clients :
        /\ \A p \in periphs[c] : owner[p[1]] = wants[c] /\ driver[p[1]] = p[2]
        /\ \A g \in gpios[c] :
              /\ g[1] < Len(resources[wants[c]])
              /\ resources[wants[c]][g[1] + 1] = [from |-> NoPin, to |-> g[2]]

\* The crosspoint switch connects exactly what the peers have recorded, so
\* the QUIT of one never cuts a connection of another and leaves none of its
\* own behind; and nothing stays in the name of a module nobody is connected
\* to (OPERATION_QUIT).
RoutesMatchResources ==
    /\ routes = {<<e.from, e.to>> : e \in {f \in Entries : f.from # NoPin}}
    /\ \A t \in Tokens : fd[t] = None =>
          resources[t] = <<>> /\ \A p \in Periphs : owner[p] # t

\* A pin is never lent twice for direct use.
GpioPinsLentOnce ==
    \A t, u \in Tokens : \A i \in DOMAIN resources[t], j \in DOMAIN resources[u] :
        /\ resources[t][i].from = NoPin
        /\ resources[u][j].from = NoPin
        /\ resources[t][i].to = resources[u][j].to
        => <<t, i>> = <<u, j>>

=============================================================================
