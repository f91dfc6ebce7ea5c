----------------------------- MODULE TaskQueue -----------------------------
(***************************************************************************)
(* The two queues between the user interface of the beeper app and the     *)
(* thread that talks to the server: src/beeper/beeper_util.c (the queue),  *)
(* beeper_task.c (the thread) and beeper_ui_util.c (the user interface).   *)
(* Commands go to the thread, events come back.  A queue is an array under *)
(* a mutex and an eventfd that both sides poll WITHOUT the mutex.  What    *)
(* commands and events point to is allocated by one thread and freed by    *)
(* the other; what is in either queue when the app closes is freed by      *)
(* whoever closes it.                                                      *)
(***************************************************************************)
EXTENDS Integers, Sequences

CONSTANTS MaxCommands,  \* bound on the commands the user interface sends
          MaxEvents     \* bound: /sync gives rise to no event from here on

VARIABLES
    queue,     \* the array of each queue
    evfd,      \* the counter of its eventfd
    section,   \* what the thread that holds its mutex is doing
    taskAt, taskItem,  \* the thread: where it is, the command it handles
    uiAt, uiItem,      \* the user interface: likewise, with an event
    commands, events,  \* how many were sent
    live,      \* what is allocated
    badFree    \* has something been freed that is not allocated?

taskVars == <<taskAt, taskItem>>
uiVars   == <<uiAt, uiItem>>
heapVars == <<live, badFree>>
vars == <<queue, evfd, section, taskVars, uiVars, commands, events, heapVars>>

Queues == {"commands", "events"}

(* The data of an item: nothing, the number of an allocation, or a boolean *)
(* in the place of a pointer, as VERIFICATION_STATUS has it.               *)
Null  == <<"null", 0>>
Bool1 == <<"bool", 1>>

Item(kind, data) == [kind |-> kind, data |-> data]
NoItem == Item("none", Null)
Stop   == Item("stop", Null)

Command(kind) ==
    Item(kind, IF kind = "sas" THEN Null ELSE <<kind, commands + 1>>)

(* ROOM_MESSAGES has further allocations inside the one it points to.      *)
Owns(item) ==
    CASE item.kind \in {"request", "text", "title"} -> {item.data}
      [] item.kind = "messages" -> {item.data, <<"content", item.data[2]>>}
      [] OTHER -> {}
-----------------------------------------------------------------------------
(* beeper_queue_push() and beeper_queue_pop().  The thread in a section    *)
(* holds the queue's mutex: a push writes the eventfd and then appends, a  *)
(* pop removes and then reads the eventfd.                                 *)
Free == [by |-> "nobody", does |-> "nothing", item |-> NoItem]

Outside(th) == \A q \in Queues : section[q].by # th

FlagAfterPush(q) == IF queue[q] = <<>> THEN evfd[q] + 1 ELSE evfd[q]

BeginPush(th, q, item) ==
    /\ Outside(th)
    /\ section[q] = Free
    /\ section' = [section EXCEPT ![q] = [by |-> th, does |-> "push", item |-> item]]
    /\ evfd' = [evfd EXCEPT ![q] = FlagAfterPush(q)]
    /\ UNCHANGED queue

\* Slip: the new item is placed before the others.
PlacedFirst(items, item) == <<item>> \o items

Placed(items, item) == Append(items, item)

EndPush(q) ==
    /\ section[q].does = "push"
    /\ queue' = [queue EXCEPT ![q] = Placed(queue[q], section[q].item)]
    /\ section' = [section EXCEPT ![q] = Free]
    /\ UNCHANGED <<evfd, taskVars, uiVars, commands, events, heapVars>>

BeginPop(th, q) ==
    /\ section' = [section EXCEPT
                     ![q] = [by |-> th, does |-> "pop", item |-> Head(queue[q])]]
    /\ queue' = [queue EXCEPT ![q] = Tail(queue[q])]
    /\ UNCHANGED evfd

\* Slip: every pop reads the eventfd, as if it counted the items.
AlwaysReadsFlag(q) == TRUE

ReadsFlag(q) == queue[q] = <<>>

(* read() blocks while the counter is zero and otherwise takes it all.     *)
EndPop(q) ==
    /\ section[q].does = "pop"
    /\ ReadsFlag(q) => evfd[q] > 0
    /\ evfd' = [evfd EXCEPT ![q] = IF ReadsFlag(q) THEN 0 ELSE evfd[q]]
    /\ section' = [section EXCEPT ![q] = Free]
    /\ UNCHANGED <<queue, taskVars, uiVars, commands, events, heapVars>>

EndSection == \E q \in Queues : EndPush(q) \/ EndPop(q)

(* free() of every one of a set of pointers; free(NULL) does nothing.      *)
FreeAll(pointers) ==
    /\ live' = live \ pointers
    /\ badFree' = (badFree \/ ~(pointers \subseteq live \union {Null}))

Init ==
    /\ queue = [q \in Queues |-> <<>>]
    /\ evfd = [q \in Queues |-> 0]
    /\ section = [q \in Queues |-> Free]
    /\ taskAt = "none" /\ taskItem = NoItem
    /\ uiAt = "login" /\ uiItem = NoItem
    /\ commands = 0 /\ events = 0
    /\ live = {} /\ badFree = FALSE
-----------------------------------------------------------------------------
(* The thread.                                                             *)
TaskSends(item) ==
    /\ BeginPush("task", "events", item)
    /\ events' = events + 1
    /\ live' = live \union Owns(item)
    /\ UNCHANGED <<uiVars, commands, badFree>>

(* Login and keys, of which the queues see the status of verification.     *)
TaskStarts ==
    /\ taskAt = "starting"
    /\ \E verified \in {Null, Bool1} : TaskSends(Item("status", verified))
    /\ taskAt' = "loop"
    /\ UNCHANGED taskItem

TaskPops ==
    /\ taskAt = "loop" /\ Outside("task")
    /\ section["commands"] = Free
    /\ queue["commands"] # <<>>
    /\ BeginPop("task", "commands")
    /\ taskItem' = Head(queue["commands"])
    /\ taskAt' = IF taskItem' = Stop THEN "exited" ELSE "handling"
    /\ UNCHANGED <<uiVars, commands, events, heapVars>>

TaskFindsNone ==
    /\ taskAt = "loop" /\ Outside("task")
    /\ section["commands"] = Free
    /\ queue["commands"] = <<>>
    /\ taskAt' = "sync"
    /\ UNCHANGED <<queue, evfd, section, taskItem, uiVars, commands, events, heapVars>>

(* A request for messages is answered with an event.                       *)
TaskAnswers ==
    /\ taskAt = "handling" /\ taskItem.kind = "request"
    /\ TaskSends(Item("messages", <<"messages", events + 1>>))
    /\ taskAt' = "handled"
    /\ UNCHANGED taskItem

DestroyedBy(item) == IF item.kind \in {"request", "text"} THEN {item.data} ELSE {}

TaskDestroys ==
    /\ \/ taskAt = "handled"
       \/ taskAt = "handling" /\ taskItem.kind # "request"
    /\ Outside("task")
    /\ FreeAll(DestroyedBy(taskItem))
    /\ taskItem' = NoItem
    /\ taskAt' = "loop"
    /\ UNCHANGED <<queue, evfd, section, uiVars, commands, events>>

(* An answer to /sync may give rise to events; there may be no answer yet. *)
SyncSends ==
    /\ taskAt \in {"sync", "synced"}
    /\ events < MaxEvents
    /\ \E kind \in {"title", "messages"} : TaskSends(Item(kind, <<kind, events + 1>>))
    /\ taskAt' = "synced"
    /\ UNCHANGED taskItem

SyncReturns ==
    /\ taskAt \in {"sync", "synced"} /\ Outside("task")
    /\ taskAt' = IF taskAt = "synced" THEN "loop" ELSE "polling"
    /\ UNCHANGED <<queue, evfd, section, taskItem, uiVars, commands, events, heapVars>>

PollReturns ==
    /\ taskAt = "polling"
    /\ taskAt' = "loop"
    /\ UNCHANGED <<queue, evfd, section, taskItem, uiVars, commands, events, heapVars>>

QueueWakesTask   == evfd["commands"] > 0 /\ PollReturns
NetworkWakesTask == PollReturns
-----------------------------------------------------------------------------
(* The user interface: one thread, LVGL's loop.                            *)
UiLogsIn ==
    /\ uiAt = "login"
    /\ uiAt' = "idle"
    /\ taskAt' = "starting"
    /\ UNCHANGED <<queue, evfd, section, taskItem, uiItem, commands, events, heapVars>>

(* The user sends a text, confirms the emoji or scrolls; a request also    *)
(* follows from the handling of messages.                                  *)
UiCommands ==
    /\ commands < MaxCommands
    /\ \E kind \in {"request", "text", "sas"} :
          /\ \/ uiAt = "idle"
             \/ uiAt = "handling" /\ uiItem.kind = "messages" /\ kind = "request"
          /\ BeginPush("ui", "commands", Command(kind))
          /\ live' = live \union Owns(Command(kind))
    /\ commands' = commands + 1
    /\ UNCHANGED <<taskVars, uiVars, events, badFree>>

(* queue_poll_cb() handles what it finds until the queue is empty, and     *)
(* asserts that it found something.                                        *)
QueueWakesUi ==
    /\ uiAt = "idle" /\ Outside("ui")
    /\ evfd["events"] > 0
    /\ uiAt' = "woken"
    /\ UNCHANGED <<queue, evfd, section, taskVars, uiItem, commands, events, heapVars>>

UiPops ==
    /\ uiAt \in {"woken", "draining"} /\ Outside("ui")
    /\ section["events"] = Free
    /\ queue["events"] # <<>>
    /\ BeginPop("ui", "events")
    /\ uiItem' = Head(queue["events"])
    /\ uiAt' = "handling"
    /\ UNCHANGED <<taskVars, commands, events, heapVars>>

UiFindsNone ==
    /\ uiAt \in {"woken", "draining"} /\ Outside("ui")
    /\ section["events"] = Free
    /\ queue["events"] = <<>>
    /\ uiAt' = IF uiAt = "woken" THEN "aborted" ELSE "idle"
    /\ UNCHANGED <<queue, evfd, section, taskVars, uiItem, commands, events, heapVars>>

UiHandles ==
    /\ uiAt = "handling" /\ Outside("ui")
    /\ FreeAll(Owns(uiItem))
    /\ uiItem' = NoItem
    /\ uiAt' = "draining"
    /\ UNCHANGED <<queue, evfd, section, taskVars, commands, events>>

(* base_obj_delete_cb() and beeper_task_destroy(): after pthread_join()    *)
(* there is one thread left, so a pop is one step from here on.            *)
UiCloses ==
    /\ uiAt = "idle"
    /\ BeginPush("ui", "commands", Stop)
    /\ uiAt' = "joining"
    /\ UNCHANGED <<taskVars, uiItem, commands, events, heapVars>>

UiJoins ==
    /\ uiAt = "joining" /\ Outside("ui")
    /\ taskAt = "exited" /\ Outside("task")
    /\ uiAt' = "dropping commands"
    /\ UNCHANGED <<queue, evfd, section, taskVars, uiItem, commands, events, heapVars>>

UiClosesLogin ==
    /\ uiAt = "login"
    /\ uiAt' = "dropping events"
    /\ UNCHANGED <<queue, evfd, section, taskVars, uiItem, commands, events, heapVars>>

(* base_obj_delete_cb() frees the pointer of an event, whatever its kind.  *)
Pointer(item) == {item.data}

Dropped(q) == IF q = "commands" THEN DestroyedBy(Head(queue[q]))
                                ELSE Pointer(Head(queue[q]))

UiDrops(q, place, after) ==
    /\ uiAt = place
    /\ IF queue[q] = <<>>
       THEN uiAt' = after /\ UNCHANGED <<queue, evfd, heapVars>>
       ELSE /\ Len(queue[q]) = 1 => evfd[q] > 0
            /\ queue' = [queue EXCEPT ![q] = Tail(queue[q])]
            /\ evfd' = [evfd EXCEPT ![q] = IF Len(queue[q]) = 1 THEN 0 ELSE evfd[q]]
            /\ FreeAll(Dropped(q))
            /\ UNCHANGED uiAt
    /\ UNCHANGED <<section, taskVars, uiItem, commands, events>>

UiDropsCommands == UiDrops("commands", "dropping commands", "dropping events")

UiDropsEvents == UiDrops("events", "dropping events", "closed")
-----------------------------------------------------------------------------
Task == \/ TaskStarts \/ TaskPops \/ TaskFindsNone \/ TaskAnswers \/ TaskDestroys
        \/ SyncSends \/ SyncReturns \/ QueueWakesTask

Closing == UiJoins \/ UiDropsCommands \/ UiDropsEvents

Ui == QueueWakesUi \/ UiPops \/ UiFindsNone \/ UiHandles \/ Closing

Next == EndSection \/ Task \/ NetworkWakesTask \/ Ui
        \/ UiLogsIn \/ UiCommands \/ UiCloses \/ UiClosesLogin

Spec == Init /\ [][Next]_vars

(* Both threads are scheduled and the server answers; the user need not do *)
(* anything and nothing need arrive from the network.                      *)
Fairness ==
    /\ \A q \in Queues : WF_vars(EndPush(q)) /\ WF_vars(EndPop(q))
    /\ WF_vars(Task)
    /\ WF_vars(Ui)

FairSpec == Spec /\ Fairness
-----------------------------------------------------------------------------
(* A command given before the app is closed is carried out: the thread     *)
(* does not end with commands left, so a text that was sent is not lost.   *)
HandledBeforeExit == taskAt = "exited" => queue["commands"] = <<>>

(* Closing the app ends the thread and returns, whatever the thread does.  *)
StopEndsTheTask == uiAt = "joining" ~> uiAt = "closed"

(* Every event is taken out of the queue: the callback is called for it.   *)
EventsAreTaken == queue["events"] # <<>> ~> queue["events"] = <<>>

(* Only what was allocated is freed: VERIFICATION_STATUS carries a bool.   *)
OnlyPointersFreed == ~badFree
=============================================================================
