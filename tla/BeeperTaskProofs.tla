-------------------------- MODULE BeeperTaskProofs --------------------------
(***************************************************************************)
(* Theorems about beeper's thread (MCBeeperTask), for any capacities and   *)
(* bounds: no command is left behind, no one-time key that somebody may    *)
(* use is lost, and every message of a room is shown or waits.             *)
(***************************************************************************)
EXTENDS MCBeeperTask, FiniteSets, SequenceTheorems, FiniteSetTheorems, TLAPS

(* The commands.  Stop is the last to be pushed, by a user interface that  *)
(* pushes no more, and the first of them that ends the thread.             *)
Kinds == {"none", "stop", "status", "messages", "title", "request", "text", "sas"}
Data == {"null", "bool", "messages", "title", "request", "text"} \X Nat
Items == [kind : Kinds, data : Data]

Threads == {"nobody", "task", "ui"}
Sections == [by : Threads, does : {"nothing", "push", "pop"}, item : Items]

Open == {"login", "idle", "woken", "draining", "handling", "aborted"}

Commands == queue["commands"]
Section == section["commands"]

QueueTypes ==
    /\ queue \in [Queue!Queues -> Seq(Items)]
    /\ section \in [Queue!Queues -> Sections]
    /\ commands \in Nat /\ events \in Nat

StopIsLast ==
    /\ \A i \in DOMAIN Commands : Commands[i] = Queue!Stop =>
          i = Len(Commands) /\ Section.does # "push"
    /\ uiAt \in Open =>
          /\ \A i \in DOMAIN Commands : Commands[i] # Queue!Stop
          /\ Section.does = "push" => Section.item # Queue!Stop
          /\ taskAt # "exited"
    /\ taskAt = "exited" => Section.does # "push"

QueueInv == QueueTypes /\ StopIsLast /\ HandledBeforeExit
-----------------------------------------------------------------------------
LEMMA TailIs ==
    ASSUME NEW S, NEW s \in Seq(S), s # <<>>
    PROVE  /\ Tail(s) \in Seq(S) /\ Head(s) \in S /\ Head(s) = s[1] /\ 1 \in DOMAIN s
           /\ \A i \in DOMAIN Tail(s) : i + 1 \in DOMAIN s /\ Tail(s)[i] = s[i + 1]
           /\ Len(Tail(s)) = Len(s) - 1
           /\ Len(s) = 1 => Tail(s) = <<>>
  <1>1. Len(s) \in Nat /\ DOMAIN s = 1..Len(s) /\ Len(s) # 0
    BY LenProperties, EmptySeq
  <1>2. Tail(s) \in Seq(S) /\ Head(s) \in S /\ Len(Tail(s)) = Len(s) - 1
    BY HeadTailProperties
  <1>3. DOMAIN Tail(s) = 1..Len(s) - 1
    BY <1>2, LenProperties
  <1>4. \A i \in 1..Len(s) - 1 : Tail(s)[i] = s[i + 1]
    BY <1>1
  <1>5. Len(s) = 1 => Tail(s) = <<>>
    <2>1. Len(s) = 1 => Len(Tail(s)) = 0
      BY <1>2
    <2> QED
      BY <1>2, <2>1, EmptySeq
  <1>6. Head(s) = s[1]
    OBVIOUS
  <1> QED
    BY <1>1, <1>2, <1>3, <1>4, <1>5, <1>6

LEMMA AppendIs ==
    ASSUME NEW S, NEW s \in Seq(S), NEW x \in S
    PROVE  /\ Append(s, x) \in Seq(S)
           /\ Len(Append(s, x)) = Len(s) + 1 /\ DOMAIN Append(s, x) = 1..Len(s) + 1
           /\ \A i \in DOMAIN s : Append(s, x)[i] = s[i]
           /\ Append(s, x)[Len(s) + 1] = x
  BY AppendProperties, LenProperties

LEMMA SubSeqIs ==
    ASSUME NEW S, NEW s \in Seq(S), NEW a \in Nat, NEW b \in Nat, a <= b, b <= Len(s)
    PROVE  /\ SubSeq(s, a + 1, b) \in Seq(S) /\ Len(SubSeq(s, a + 1, b)) = b - a
           /\ \A i \in 1..b - a : SubSeq(s, a + 1, b)[i] = s[a + i]
  <1>1. DOMAIN s = 1..Len(s) /\ Len(s) \in Nat
    BY LenProperties
  <1>2. \A i \in a + 1..b : s[i] \in S
    BY <1>1
  <1>3. PICK c \in Int : c = a + 1
    OBVIOUS
  <1>4. /\ SubSeq(s, c, b) \in Seq(S)
        /\ Len(SubSeq(s, c, b)) = IF c <= b THEN b - c + 1 ELSE 0
        /\ \A i \in 1..b - c + 1 : SubSeq(s, c, b)[i] = s[c + i - 1]
    BY <1>2, <1>3, SubSeqProperties
  <1>5. \A i \in 1..b - a : i \in 1..b - c + 1 /\ c + i - 1 = a + i
    BY <1>3
  <1>6. (IF c <= b THEN b - c + 1 ELSE 0) = b - a
    BY <1>3
  <1> QED
    BY <1>3, <1>4, <1>5, <1>6
-----------------------------------------------------------------------------
(* A step of the queues changes the commands in one of four ways.          *)
LEMMA CommandsStay ==
    ASSUME QueueInv, QueueTypes', Commands' = Commands, Section' = Section,
           uiAt' \in Open => uiAt \in Open,
           taskAt' = "exited" => taskAt = "exited"
    PROVE  QueueInv'
  <1>1. taskAt' = "exited" => uiAt' \notin Open
    BY DEF QueueInv, StopIsLast
  <1>2. StopIsLast'
    BY <1>1 DEF QueueInv, StopIsLast
  <1>3. HandledBeforeExit'
    BY DEF QueueInv, HandledBeforeExit, Queue!HandledBeforeExit, Commands
  <1> QED
    BY <1>2, <1>3 DEF QueueInv

LEMMA ItemsOfCommands ==
    /\ Queue!NoItem \in Items /\ Queue!Stop \in Items
    /\ \A kind \in Kinds, data \in Data : Queue!Item(kind, data) \in Items
    /\ \A kind \in Kinds, data \in Data : kind # "stop" => Queue!Item(kind, data) # Queue!Stop
    /\ Queue!Null \in Data /\ Queue!Bool1 \in Data
  BY DEF Queue!NoItem, Queue!Stop, Queue!Item, Queue!Null, Queue!Bool1, Items, Kinds, Data

LEMMA EndSectionStep ==
    ASSUME QueueInv, Queue!EndSection
    PROVE  QueueInv'
  <1>1. QueueTypes /\ StopIsLast
    BY DEF QueueInv
  <1>2. PICK q \in Queue!Queues : Queue!EndPush(q) \/ Queue!EndPop(q)
    BY DEF Queue!EndSection
  <1>3. /\ section' = [section EXCEPT ![q] = Queue!Free]
        /\ UNCHANGED <<taskAt, uiAt, commands, events>>
    BY <1>2 DEF Queue!EndPush, Queue!EndPop, Queue!taskVars, Queue!uiVars
  <1>4. Queue!Free \in Sections /\ Queue!Free.does # "push"
    BY ItemsOfCommands DEF Queue!Free, Sections, Threads
  <1>5. section[q].item \in Items /\ queue[q] \in Seq(Items)
    BY <1>1 DEF QueueTypes, Sections
  <1>6. section' \in [Queue!Queues -> Sections]
    BY <1>1, <1>3, <1>4 DEF QueueTypes
  <1>7. CASE q = "events"
    <2>1. queue' \in [Queue!Queues -> Seq(Items)] /\ queue'["commands"] = queue["commands"]
      <3>1. CASE Queue!EndPush(q)
        <4>1. Append(queue[q], section[q].item) \in Seq(Items)
          BY <1>5, AppendIs
        <4> QED
          BY <1>1, <1>7, <3>1, <4>1 DEF Queue!EndPush, Queue!Placed, QueueTypes
      <3>2. CASE Queue!EndPop(q)
        BY <1>1, <3>2 DEF Queue!EndPop, QueueTypes
      <3> QED
        BY <1>2, <3>1, <3>2
    <2>2. section'["commands"] = section["commands"]
      BY <1>1, <1>3, <1>7 DEF QueueTypes
    <2> QED
      BY <1>1, <1>3, <1>6, <2>1, <2>2, CommandsStay DEF QueueTypes, Commands, Section
  <1>8. CASE q = "commands" /\ Queue!EndPop(q)
    <2>1. queue' = queue /\ Section'.does # "push"
      BY <1>1, <1>3, <1>4, <1>8 DEF Queue!EndPop, QueueTypes, Section
    <2>2. StopIsLast'
      BY <1>1, <1>3, <2>1 DEF StopIsLast, Commands
    <2> QED
      BY <1>1, <1>3, <1>6, <2>1, <2>2 DEF QueueInv, QueueTypes, HandledBeforeExit,
         Queue!HandledBeforeExit
  <1>9. CASE q = "commands" /\ Queue!EndPush(q)
    <2>1. Section.does = "push" /\ queue' = [queue EXCEPT ![q] = Append(Commands, Section.item)]
      BY <1>9 DEF Queue!EndPush, Queue!Placed, Commands, Section
    <2>2. /\ Append(Commands, Section.item) \in Seq(Items)
          /\ Len(Append(Commands, Section.item)) = Len(Commands) + 1
          /\ DOMAIN Append(Commands, Section.item) = 1..Len(Commands) + 1
          /\ \A i \in DOMAIN Commands : Append(Commands, Section.item)[i] = Commands[i]
          /\ Append(Commands, Section.item)[Len(Commands) + 1] = Section.item
      BY <1>5, <1>9, AppendIs DEF Commands, Section
    <2>3. Commands' = Append(Commands, Section.item)
      BY <1>1, <1>9, <2>1 DEF QueueTypes, Commands
    <2>4. DOMAIN Commands = 1..Len(Commands) /\ Len(Commands) \in Nat
      BY <1>5, <1>9, LenProperties DEF Commands
    <2>5. \A i \in DOMAIN Commands : Commands[i] # Queue!Stop
      BY <1>1, <2>1 DEF StopIsLast
    <2>6. Section'.does # "push"
      BY <1>1, <1>3, <1>4, <1>9 DEF QueueTypes, Section
    <2>7. taskAt' # "exited"
      BY <1>1, <1>3, <2>1 DEF StopIsLast
    <2>8. \A i \in DOMAIN Commands' : Commands'[i] = Queue!Stop =>
             i = Len(Commands') /\ Section.item = Queue!Stop
      BY <2>2, <2>3, <2>4, <2>5
    <2>9. StopIsLast'
      BY <1>1, <1>3, <2>1, <2>6, <2>7, <2>8 DEF StopIsLast
    <2>10. queue' \in [Queue!Queues -> Seq(Items)]
      BY <1>1, <2>1, <2>2 DEF QueueTypes
    <2> QED
      BY <1>1, <1>3, <1>6, <2>7, <2>9, <2>10 DEF QueueInv, QueueTypes, HandledBeforeExit,
         Queue!HandledBeforeExit
  <1> QED
    BY <1>2, <1>7, <1>8, <1>9 DEF Queue!Queues

LEMMA PopTypes ==
    ASSUME QueueTypes, NEW th \in {"task", "ui"}, NEW q \in Queue!Queues, queue[q] # <<>>,
           Queue!BeginPop(th, q)
    PROVE  /\ queue' \in [Queue!Queues -> Seq(Items)]
           /\ section' \in [Queue!Queues -> Sections]
           /\ section'[q].does = "pop"
  <1>1. queue[q] \in Seq(Items)
    BY DEF QueueTypes
  <1>2. Tail(queue[q]) \in Seq(Items) /\ Head(queue[q]) \in Items
    BY <1>1, TailIs
  <1>3. [by |-> th, does |-> "pop", item |-> Head(queue[q])] \in Sections
    BY <1>2 DEF Sections, Threads
  <1> QED
    BY <1>2, <1>3 DEF Queue!BeginPop, QueueTypes

LEMMA PushTypes ==
    ASSUME QueueTypes, NEW th \in {"task", "ui"}, NEW q \in Queue!Queues, NEW item \in Items,
           Queue!BeginPush(th, q, item)
    PROVE  /\ queue' = queue
           /\ section' \in [Queue!Queues -> Sections]
           /\ section'[q] = [by |-> th, does |-> "push", item |-> item]
           /\ \A p \in Queue!Queues \ {q} : section'[p] = section[p]
  <1>1. [by |-> th, does |-> "push", item |-> item] \in Sections
    BY DEF Sections, Threads
  <1> QED
    BY <1>1 DEF Queue!BeginPush, QueueTypes

(* The thread sends events; it takes the commands one by one.              *)
LEMMA SendsStep ==
    ASSUME QueueInv, NEW item \in Items, Queue!TaskSends(item), taskAt' # "exited"
    PROVE  QueueInv'
  <1>1. QueueTypes
    BY DEF QueueInv
  <1>2. "events" \in Queue!Queues /\ "commands" \in Queue!Queues
    BY DEF Queue!Queues
  <1>3. /\ Queue!BeginPush("task", "events", item) /\ events' = events + 1
        /\ UNCHANGED <<uiAt, commands>>
    BY DEF Queue!TaskSends, Queue!uiVars
  <1>4. /\ queue' = queue
        /\ section' \in [Queue!Queues -> Sections]
        /\ \A p \in Queue!Queues \ {"events"} : section'[p] = section[p]
    BY <1>1, <1>2, <1>3, PushTypes
  <1>5. Commands' = Commands /\ Section' = Section
    BY <1>2, <1>4 DEF Commands, Section
  <1>6. QueueTypes'
    BY <1>1, <1>3, <1>4 DEF QueueTypes
  <1> QED
    BY <1>3, <1>5, <1>6, CommandsStay

LEMMA TaskStep ==
    ASSUME QueueInv, Queue!Task \/ Queue!NetworkWakesTask
    PROVE  QueueInv'
  <1>1. QueueTypes /\ StopIsLast
    BY DEF QueueInv
  <1>2. CASE Queue!TaskStarts \/ Queue!TaskAnswers \/ Queue!SyncSends
    <2>1. PICK item \in Items : Queue!TaskSends(item)
      <3>1. events + 1 \in Nat
        BY <1>1 DEF QueueTypes
      <3>2. \A kind \in {"messages", "title"} : Queue!Item(kind, <<kind, events + 1>>) \in Items
        BY <3>1, ItemsOfCommands DEF Kinds, Data
      <3>3. \A status \in {Queue!Null, Queue!Bool1} : Queue!Item("status", status) \in Items
        BY ItemsOfCommands DEF Kinds
      <3>4. CASE Queue!TaskStarts
        BY <3>3, <3>4 DEF Queue!TaskStarts
      <3>5. CASE Queue!TaskAnswers
        BY <3>2, <3>5 DEF Queue!TaskAnswers
      <3>6. CASE Queue!SyncSends
        BY <3>2, <3>6 DEF Queue!SyncSends
      <3> QED
        BY <1>2, <3>4, <3>5, <3>6
    <2>2. taskAt' # "exited"
      BY <1>2 DEF Queue!TaskStarts, Queue!TaskAnswers, Queue!SyncSends
    <2> QED
      BY <2>1, <2>2, SendsStep
  <1>3. CASE Queue!TaskFindsNone \/ Queue!TaskDestroys \/ Queue!SyncReturns
             \/ Queue!QueueWakesTask \/ Queue!NetworkWakesTask
    <2>1. UNCHANGED <<queue, section, uiAt, commands, events>> /\ taskAt' # "exited"
      BY <1>3 DEF Queue!TaskFindsNone, Queue!TaskDestroys, Queue!SyncReturns, Queue!QueueWakesTask,
         Queue!NetworkWakesTask, Queue!PollReturns, Queue!uiVars
    <2>2. QueueTypes' /\ Commands' = Commands /\ Section' = Section
      BY <1>1, <2>1 DEF QueueTypes, Commands, Section
    <2> QED
      BY <2>1, <2>2, CommandsStay
  <1>4. CASE Queue!TaskPops
    <2>1. /\ Commands # <<>> /\ Queue!BeginPop("task", "commands")
          /\ taskAt' = "exited" => Head(Commands) = Queue!Stop
          /\ UNCHANGED <<uiAt, commands, events>>
      BY <1>4 DEF Queue!TaskPops, Queue!uiVars, Commands
    <2>2. /\ queue' \in [Queue!Queues -> Seq(Items)]
          /\ section' \in [Queue!Queues -> Sections]
          /\ section'["commands"].does = "pop"
      <3>1. "commands" \in Queue!Queues /\ queue["commands"] # <<>>
        BY <2>1 DEF Queue!Queues, Commands
      <3> QED
        BY <1>1, <2>1, <3>1, PopTypes
    <2>3. Commands' = Tail(Commands)
      BY <1>1, <2>1 DEF Queue!BeginPop, QueueTypes, Commands, Queue!Queues
    <2>4. Commands \in Seq(Items)
      BY <1>1 DEF QueueTypes, Commands, Queue!Queues
    <2>5. /\ Head(Commands) = Commands[1] /\ 1 \in DOMAIN Commands
          /\ \A i \in DOMAIN Commands' : i + 1 \in DOMAIN Commands /\ Commands'[i] = Commands[i + 1]
          /\ Len(Commands') = Len(Commands) - 1
          /\ Len(Commands) = 1 => Commands' = <<>>
      BY <2>1, <2>3, <2>4, TailIs
    <2>6. taskAt' = "exited" => Commands' = <<>> /\ uiAt \notin Open
      BY <1>1, <2>1, <2>5 DEF StopIsLast
    <2>7. \A i \in DOMAIN Commands' : Commands'[i] = Queue!Stop => i = Len(Commands')
      <3>1. Len(Commands) \in Nat
        BY <2>4, LenProperties
      <3> TAKE i \in DOMAIN Commands'
      <3>2. i \in Nat
        <4>1. Commands' \in Seq(Items)
          BY <2>3, <2>4, <2>1, TailIs
        <4> QED
          BY <4>1, LenProperties
      <3>3. Commands'[i] = Queue!Stop => i + 1 = Len(Commands)
        BY <1>1, <2>5 DEF StopIsLast
      <3> QED
        BY <2>5, <3>1, <3>2, <3>3
    <2>8. Section'.does = "pop"
      BY <2>2 DEF Section
    <2>9. uiAt' \in Open => \A i \in DOMAIN Commands' : Commands'[i] # Queue!Stop
      BY <1>1, <2>1, <2>5 DEF StopIsLast
    <2>10. StopIsLast'
      BY <2>1, <2>6, <2>7, <2>8, <2>9 DEF StopIsLast
    <2>11. HandledBeforeExit'
      BY <2>6 DEF HandledBeforeExit, Queue!HandledBeforeExit, Commands
    <2> QED
      BY <1>1, <2>1, <2>2, <2>10, <2>11 DEF QueueInv, QueueTypes
  <1> QED
    BY <1>2, <1>3, <1>4 DEF Queue!Task

(* The user interface pushes commands, and Stop once.                      *)
LEMMA UiPushStep ==
    ASSUME QueueInv, NEW item \in Items, Queue!BeginPush("ui", "commands", item),
           uiAt \in Open, uiAt' = uiAt \/ uiAt' \notin Open, taskAt' = taskAt,
           item = Queue!Stop => uiAt' \notin Open,
           commands' \in Nat, events' = events
    PROVE  QueueInv'
  <1>1. QueueTypes /\ StopIsLast /\ "commands" \in Queue!Queues
    BY DEF QueueInv, Queue!Queues
  <1>2. /\ queue' = queue
        /\ section' \in [Queue!Queues -> Sections]
        /\ section'["commands"] = [by |-> "ui", does |-> "push", item |-> item]
    BY <1>1, PushTypes
  <1>3. Commands' = Commands /\ Section'.does = "push" /\ Section'.item = item
    BY <1>2 DEF Commands, Section
  <1>4. QueueTypes'
    BY <1>1, <1>2 DEF QueueTypes
  <1>5. StopIsLast'
    BY <1>1, <1>3 DEF StopIsLast
  <1>6. HandledBeforeExit'
    BY <1>1 DEF StopIsLast, HandledBeforeExit, Queue!HandledBeforeExit
  <1> QED
    BY <1>4, <1>5, <1>6 DEF QueueInv

LEMMA UiStep ==
    ASSUME QueueInv,
           Queue!Ui \/ Queue!UiLogsIn \/ Queue!UiCommands \/ Queue!UiCloses \/ Queue!UiClosesLogin
    PROVE  QueueInv'
  <1>1. QueueTypes /\ StopIsLast
    BY DEF QueueInv
  <1>2. CASE Queue!QueueWakesUi \/ Queue!UiFindsNone \/ Queue!UiHandles \/ Queue!UiJoins
             \/ Queue!UiClosesLogin \/ Queue!UiLogsIn
    <2>1. UNCHANGED <<queue, section, commands, events>>
      BY <1>2 DEF Queue!QueueWakesUi, Queue!UiFindsNone, Queue!UiHandles, Queue!UiJoins,
         Queue!UiClosesLogin, Queue!UiLogsIn
    <2>2. (uiAt' \in Open => uiAt \in Open) /\ (taskAt' = taskAt \/ taskAt' = "starting")
      BY <1>2 DEF Queue!QueueWakesUi, Queue!UiFindsNone, Queue!UiHandles, Queue!UiJoins,
         Queue!UiClosesLogin, Queue!UiLogsIn, Queue!taskVars, Open
    <2>3. QueueTypes' /\ Commands' = Commands /\ Section' = Section
      BY <1>1, <2>1 DEF QueueTypes, Commands, Section
    <2> QED
      BY <2>2, <2>3, CommandsStay
  <1>3. CASE Queue!UiPops
    <2>1. /\ queue["events"] # <<>> /\ Queue!BeginPop("ui", "events")
          /\ uiAt \in Open /\ UNCHANGED <<taskAt, commands, events>>
      BY <1>3 DEF Queue!UiPops, Queue!taskVars, Open
    <2>2. /\ queue' \in [Queue!Queues -> Seq(Items)]
          /\ section' \in [Queue!Queues -> Sections]
      BY <1>1, <2>1, PopTypes DEF Queue!Queues
    <2>3. Commands' = Commands /\ Section' = Section
      BY <1>1, <2>1 DEF Queue!BeginPop, QueueTypes, Queue!Queues, Commands, Section
    <2>4. QueueTypes'
      BY <1>1, <2>1, <2>2 DEF QueueTypes
    <2> QED
      BY <2>1, <2>3, <2>4, CommandsStay
  <1>4. CASE Queue!UiCommands
    <2>1. PICK kind \in {"request", "text", "sas"} :
              Queue!BeginPush("ui", "commands", Queue!Command(kind))
      BY <1>4 DEF Queue!UiCommands
    <2>2. /\ uiAt \in Open /\ uiAt' = uiAt /\ taskAt' = taskAt
          /\ commands' = commands + 1 /\ events' = events
      BY <1>4 DEF Queue!UiCommands, Queue!uiVars, Queue!taskVars, Open
    <2>3. commands + 1 \in Nat
      BY <1>1 DEF QueueTypes
    <2>4. kind # "sas" => <<kind, commands + 1>> \in Data
      BY <2>3 DEF Data
    <2>5. (IF kind = "sas" THEN Queue!Null ELSE <<kind, commands + 1>>) \in Data
      BY <2>4, ItemsOfCommands
    <2>6. Queue!Command(kind) \in Items /\ Queue!Command(kind) # Queue!Stop
      BY <2>5, ItemsOfCommands DEF Kinds, Queue!Command
    <2> QED
      BY <2>1, <2>2, <2>3, <2>6, UiPushStep
  <1>5. CASE Queue!UiCloses
    <2>1. /\ Queue!BeginPush("ui", "commands", Queue!Stop)
          /\ uiAt \in Open /\ uiAt' \notin Open /\ UNCHANGED <<taskAt, commands, events>>
      BY <1>5 DEF Queue!UiCloses, Queue!taskVars, Open
    <2>2. commands \in Nat
      BY <1>1 DEF QueueTypes
    <2> QED
      BY <2>1, <2>2, ItemsOfCommands, UiPushStep
  <1>6. CASE Queue!UiDropsEvents \/ Queue!UiDropsCommands
    <2>1. PICK q \in Queue!Queues :
            /\ queue' = queue \/ (queue[q] # <<>> /\ queue' = [queue EXCEPT ![q] = Tail(queue[q])])
            /\ UNCHANGED <<section, taskAt, commands, events>>
      BY <1>6 DEF Queue!UiDropsEvents, Queue!UiDropsCommands, Queue!UiDrops, Queue!taskVars,
         Queue!Queues
    <2>2. uiAt' \notin Open
      BY <1>6 DEF Queue!UiDropsEvents, Queue!UiDropsCommands, Queue!UiDrops, Open
    <2>3. queue[q] \in Seq(Items) /\ Commands \in Seq(Items)
      BY <1>1 DEF QueueTypes, Queue!Queues, Commands
    <2>4. queue' \in [Queue!Queues -> Seq(Items)]
      <3>1. queue[q] # <<>> => Tail(queue[q]) \in Seq(Items)
        BY <2>3, TailIs
      <3> QED
        BY <1>1, <2>1, <3>1 DEF QueueTypes
    <2>5. QueueTypes'
      BY <1>1, <2>1, <2>4 DEF QueueTypes
    <2>6. Section' = Section
      BY <2>1 DEF Section
    <2>7. Commands' = Commands \/ (Commands # <<>> /\ Commands' = Tail(Commands))
      BY <1>1, <2>1 DEF QueueTypes, Queue!Queues, Commands
    <2>8. CASE Commands' = Commands
      BY <2>1, <2>2, <2>5, <2>6, <2>8, CommandsStay
    <2>9. CASE Commands # <<>> /\ Commands' = Tail(Commands)
      <3>1. /\ \A i \in DOMAIN Commands' :
                   i + 1 \in DOMAIN Commands /\ Commands'[i] = Commands[i + 1]
            /\ Len(Commands') = Len(Commands) - 1
        BY <2>3, <2>9, TailIs
      <3>2. \A i \in DOMAIN Commands' : Commands'[i] = Queue!Stop => i = Len(Commands')
        <4>1. Len(Commands) \in Nat /\ Commands' \in Seq(Items)
          BY <2>3, <2>9, TailIs, LenProperties
        <4>2. DOMAIN Commands' = 1..Len(Commands')
          BY <4>1, LenProperties
        <4> TAKE i \in DOMAIN Commands'
        <4>3. Commands'[i] = Queue!Stop => i + 1 = Len(Commands)
          BY <1>1, <3>1 DEF StopIsLast
        <4> QED
          BY <3>1, <4>1, <4>2, <4>3
      <3>3. taskAt # "exited"
        BY <2>9 DEF QueueInv, HandledBeforeExit, Queue!HandledBeforeExit, Commands
      <3>4. Commands' # <<>> \/ Commands' = <<>>
        OBVIOUS
      <3>5. \A i \in DOMAIN Commands' : Commands'[i] = Queue!Stop => Section.does # "push"
        BY <1>1, <3>1 DEF StopIsLast
      <3>6. StopIsLast'
        BY <2>1, <2>2, <2>6, <3>2, <3>3, <3>5 DEF StopIsLast
      <3>7. HandledBeforeExit'
        BY <2>1, <3>3 DEF HandledBeforeExit, Queue!HandledBeforeExit
      <3> QED
        BY <2>5, <3>6, <3>7 DEF QueueInv
    <2> QED
      BY <2>7, <2>8, <2>9
  <1> QED
    BY <1>2, <1>3, <1>4, <1>5, <1>6 DEF Queue!Ui, Queue!Closing

LEMMA QueueInitially == Queue!Init => QueueInv
  <1> SUFFICES ASSUME Queue!Init
               PROVE  QueueInv
    OBVIOUS
  <1>1. Queue!Free \in Sections /\ Queue!Free.does # "push"
    BY ItemsOfCommands DEF Queue!Free, Sections, Threads
  <1>2. <<>> \in Seq(Items) /\ DOMAIN <<>> = {}
    BY EmptySeq
  <1>3. QueueTypes
    BY <1>1, <1>2 DEF Queue!Init, QueueTypes
  <1>4. Commands = <<>> /\ Section = Queue!Free /\ taskAt = "none"
    BY DEF Queue!Init, Commands, Section, Queue!Queues
  <1>5. StopIsLast
    BY <1>1, <1>2, <1>4 DEF StopIsLast
  <1> QED
    BY <1>3, <1>4, <1>5 DEF QueueInv, HandledBeforeExit, Queue!HandledBeforeExit

(* Stop is the last command, so that the thread leaves none behind.        *)
THEOREM QueueInvariant == FairSpec => []QueueInv
  <1>1. Init => QueueInv
    BY QueueInitially DEF Init
  <1>2. QueueInv /\ [Next]_vars => QueueInv'
    <2> SUFFICES ASSUME QueueInv, [Next]_vars
                 PROVE  QueueInv'
      OBVIOUS
    <2>1. CASE Queue!Next
      BY <2>1, EndSectionStep, TaskStep, UiStep DEF Queue!Next
    <2>2. CASE UNCHANGED queueVars
      BY <2>2 DEF queueVars, QueueInv, QueueTypes, StopIsLast, HandledBeforeExit,
         Queue!HandledBeforeExit, Commands, Section
    <2> QED
      BY <2>1, <2>2 DEF Next, vars
  <1> QED
    BY <1>1, <1>2, PTL DEF FairSpec

(* A command given before the app is closed is carried out: when the       *)
(* thread has ended, no command is left.                                   *)
THEOREM TaskHandlesBeforeExit == FairSpec => []HandledBeforeExit
  <1>1. QueueInv => HandledBeforeExit
    BY DEF QueueInv
  <1> QED
    BY <1>1, QueueInvariant, PTL
-----------------------------------------------------------------------------
(* The messages of a room.  One that this run has got was decided, or it   *)
(* waits under its session, in which no message waits twice.               *)
Waiting == [waits : BOOLEAN, asked : BOOLEAN, msgs : Seq(Nat)]

RoomTypes ==
    /\ posted \in 0..Len(Timeline)
    /\ next \in 1..posted + 1 /\ low \in 1..next
    /\ bridgebot \in BOOLEAN
    /\ decrypting \in [Room!Sessions -> Waiting]
    /\ keyInbox \in Seq([session : Room!Sessions, first : Nat])

OnceEach ==
    \A s \in Room!Sessions : \A i, j \in DOMAIN decrypting[s].msgs :
        decrypting[s].msgs[i] = decrypting[s].msgs[j] => i = j

Covered(m) ==
    \/ m \in shown \union stuck
    \/ /\ decrypting[Timeline[m].session].waits
       /\ m \in Room!Range(decrypting[Timeline[m].session].msgs)

AllCovered == up = "up" => \A m \in low..next - 1 : Covered(m)

RoomInv == RoomTypes /\ OnceEach /\ AllCovered
-----------------------------------------------------------------------------
LEMMA RoomSingleton ==
    ASSUME NEW x
    PROVE  Room!Cardinality({x}) = 1
  <1>1. Room!Cardinality({x}) = Cardinality({x})
    BY DEF Room!Cardinality, Cardinality
  <1> QED
    BY <1>1, FS_Singleton

LEMMA TimelineIs ==
    /\ Len(Timeline) \in Nat /\ DOMAIN Timeline = 1..Len(Timeline)
    /\ \A m \in DOMAIN Timeline : m \in Nat /\ Timeline[m].session \in Room!Sessions
  <1>1. Len(Timeline) \in Nat /\ DOMAIN Timeline = 1..Len(Timeline)
    BY RoomAssumption, LenProperties
  <1> QED
    BY <1>1 DEF Room!Sessions

(* What waits under a session does, once, also with one more.              *)
LEMMA AppendedIs ==
    ASSUME NEW msgs \in Seq(Nat), NEW m \in Nat,
           \A i, j \in DOMAIN msgs : msgs[i] = msgs[j] => i = j,
           NEW more, more = Room!Appended(msgs, m)
    PROVE  /\ more \in Seq(Nat)
           /\ \A i, j \in DOMAIN more : more[i] = more[j] => i = j
           /\ Room!Range(more) = Room!Range(msgs) \union {m}
  <1>1. CASE m \in Room!Range(msgs)
    BY <1>1 DEF Room!Appended
  <1>2. CASE m \notin Room!Range(msgs)
    <2>1. more = Append(msgs, m)
      BY <1>2 DEF Room!Appended
    <2>2. /\ more \in Seq(Nat) /\ Len(msgs) \in Nat /\ DOMAIN msgs = 1..Len(msgs)
          /\ DOMAIN more = 1..Len(msgs) + 1
          /\ \A i \in DOMAIN msgs : more[i] = msgs[i]
          /\ more[Len(msgs) + 1] = m
      BY <2>1, AppendIs, LenProperties
    <2>3. \A i \in DOMAIN msgs : msgs[i] # m
      BY <1>2 DEF Room!Range
    <2>4. \A i \in DOMAIN more : i \in DOMAIN msgs \/ i = Len(msgs) + 1
      BY <2>2
    <2>5. Len(msgs) + 1 \in DOMAIN more /\ DOMAIN msgs \subseteq DOMAIN more
      BY <2>2
    <2>6. \A i, j \in DOMAIN more : more[i] = more[j] => i = j
      BY <2>2, <2>3, <2>4
    <2>7. Room!Range(more) = Room!Range(msgs) \union {m}
      <3>1. \A i \in DOMAIN more : more[i] \in Room!Range(msgs) \union {m}
        BY <2>2, <2>4 DEF Room!Range
      <3>2. \A i \in DOMAIN msgs : i \in DOMAIN more /\ msgs[i] = more[i]
        BY <2>2, <2>5
      <3>3. m \in Room!Range(more)
        BY <2>2, <2>5 DEF Room!Range
      <3>4. Room!Range(msgs) \subseteq Room!Range(more)
        BY <3>2 DEF Room!Range
      <3>5. Room!Range(more) \subseteq Room!Range(msgs) \union {m}
        <4>1. SUFFICES ASSUME NEW i \in DOMAIN more
                       PROVE  more[i] \in Room!Range(msgs) \union {m}
          BY DEF Room!Range
        <4> QED
          BY <3>1
      <3> QED
        BY <3>3, <3>4, <3>5
    <2> QED
      BY <2>2, <2>6, <2>7
  <1> QED
    BY <1>1, <1>2

LEMMA OneWaits ==
    ASSUME NEW m \in Nat
    PROVE  /\ <<m>> \in Seq(Nat)
           /\ \A i, j \in DOMAIN <<m>> : <<m>>[i] = <<m>>[j] => i = j
           /\ m \in Room!Range(<<m>>)
  BY DEF Room!Range

(* A message that is met is decided or waits, and the others stay so.      *)
LEMMA DecryptMessageStep ==
    ASSUME RoomTypes, OnceEach, NEW m \in DOMAIN Timeline, Room!RoomDecryptMessage(m)
    PROVE  /\ decrypting' \in [Room!Sessions -> Waiting]
           /\ OnceEach'
           /\ up' = "up" => up = "up" /\ Covered(m)'
           /\ \A n \in DOMAIN Timeline : Covered(n) => Covered(n)'
  <1> DEFINE s == Timeline[m].session
  <1>1. m \in Nat /\ s \in Room!Sessions /\ decrypting[s] \in Waiting
    BY TimelineIs DEF RoomTypes
  <1>2. decrypting \in [Room!Sessions -> Waiting]
    BY DEF RoomTypes
  <1>3. CASE /\ decrypting' = decrypting
             /\ \/ (shown' = shown \union {m} /\ UNCHANGED stuck)
                \/ (stuck' = stuck \union {m} /\ UNCHANGED shown)
             /\ UNCHANGED up
    BY <1>2, <1>3 DEF OnceEach, Covered
  <1>4. CASE UNCHANGED <<decrypting, shown, stuck>> /\ up' = "aborted"
    BY <1>2, <1>4 DEF OnceEach, Covered
  <1>5. ASSUME NEW d, d \in Waiting, d.waits,
               \A i, j \in DOMAIN d.msgs : d.msgs[i] = d.msgs[j] => i = j,
               m \in Room!Range(d.msgs),
               decrypting[s].waits => Room!Range(decrypting[s].msgs) \subseteq Room!Range(d.msgs),
               decrypting' = [decrypting EXCEPT ![s] = d],
               UNCHANGED <<up, shown, stuck>>
        PROVE  /\ decrypting' \in [Room!Sessions -> Waiting]
               /\ OnceEach'
               /\ up' = "up" => up = "up" /\ Covered(m)'
               /\ \A n \in DOMAIN Timeline : Covered(n) => Covered(n)'
    <2>1. /\ decrypting' \in [Room!Sessions -> Waiting] /\ decrypting'[s] = d
          /\ \A r \in Room!Sessions \ {s} : decrypting'[r] = decrypting[r]
      BY <1>1, <1>2, <1>5
    <2>2. OnceEach'
      BY <1>5, <2>1 DEF OnceEach
    <2>3. Covered(m)'
      BY <1>5, <2>1 DEF Covered
    <2>4. ASSUME NEW n \in DOMAIN Timeline, Covered(n)
          PROVE  Covered(n)'
      <3>1. Timeline[n].session \in Room!Sessions
        BY TimelineIs
      <3> QED
        BY <1>5, <2>1, <2>4, <3>1 DEF Covered
    <2> QED
      BY <1>5, <2>1, <2>2, <2>3, <2>4
  <1>6. CASE /\ decrypting[s].waits
             /\ decrypting' = [decrypting EXCEPT ![s].msgs = Room!Appended(@, m)]
             /\ UNCHANGED <<up, shown, stuck>>
    <2>1. PICK more : more = Room!Appended(decrypting[s].msgs, m)
      OBVIOUS
    <2>2. PICK d : d = [decrypting[s] EXCEPT !.msgs = more]
      OBVIOUS
    <2>3. decrypting' = [decrypting EXCEPT ![s] = d]
      BY <1>1, <1>2, <1>6, <2>1, <2>2
    <2>4. decrypting[s].msgs \in Seq(Nat)
      BY <1>1 DEF Waiting
    <2>5. \A i, j \in DOMAIN decrypting[s].msgs :
             decrypting[s].msgs[i] = decrypting[s].msgs[j] => i = j
      BY <1>1 DEF OnceEach
    <2>6. /\ more \in Seq(Nat)
          /\ \A i, j \in DOMAIN more : more[i] = more[j] => i = j
          /\ Room!Range(more) = Room!Range(decrypting[s].msgs) \union {m}
      BY <1>1, <2>1, <2>4, <2>5, AppendedIs
    <2>7. d \in Waiting /\ d.waits /\ d.msgs = more
      BY <1>1, <1>6, <2>2, <2>6 DEF Waiting
    <2> QED
      BY <1>5, <1>6, <2>3, <2>6, <2>7
  <1>7. CASE /\ ~decrypting[s].waits
             /\ decrypting' = [decrypting EXCEPT ![s] =
                                 [waits |-> TRUE, asked |-> bridgebot, msgs |-> <<m>>]]
             /\ UNCHANGED <<up, shown, stuck>>
    <2>1. PICK d : d = [waits |-> TRUE, asked |-> bridgebot, msgs |-> <<m>>]
      OBVIOUS
    <2>2. d \in Waiting /\ d.waits /\ d.msgs = <<m>>
      <3>1. bridgebot \in BOOLEAN /\ <<m>> \in Seq(Nat)
        BY <1>1, OneWaits DEF RoomTypes
      <3> QED
        BY <2>1, <3>1 DEF Waiting
    <2> QED
      BY <1>1, <1>5, <1>7, <2>1, <2>2, OneWaits
  <1> QED
    BY <1>3, <1>4, <1>6, <1>7 DEF Room!RoomDecryptMessage, Room!Reads, Room!keyVars

LEMMA SyncMessageStep ==
    ASSUME RoomInv, Room!SyncMessage
    PROVE  RoomInv'
  <1>1. RoomTypes /\ OnceEach /\ AllCovered
    BY DEF RoomInv
  <1>2. /\ next' = next + 1 /\ next <= posted /\ Room!RoomDecryptMessage(next)
        /\ UNCHANGED <<posted, low, bridgebot, keyInbox>>
    BY DEF Room!SyncMessage
  <1>3. /\ posted \in Nat /\ posted <= Len(Timeline) /\ next \in Nat /\ low \in Nat
        /\ 1 <= low /\ low <= next /\ next \in DOMAIN Timeline
    BY <1>1, <1>2, TimelineIs DEF RoomTypes
  <1>4. PICK m \in DOMAIN Timeline : m = next
    BY <1>3
  <1>5. /\ decrypting' \in [Room!Sessions -> Waiting] /\ OnceEach'
        /\ up' = "up" => up = "up" /\ Covered(m)'
        /\ \A n \in DOMAIN Timeline : Covered(n) => Covered(n)'
    BY <1>1, <1>2, <1>4, DecryptMessageStep
  <1>6. RoomTypes'
    BY <1>1, <1>2, <1>3, <1>5 DEF RoomTypes
  <1>7. AllCovered'
    <2>1. SUFFICES ASSUME up' = "up", NEW n \in low..next
                   PROVE  Covered(n)'
      BY <1>2, <1>3 DEF AllCovered
    <2>2. CASE n = m
      BY <1>5, <2>1, <2>2
    <2>3. CASE n # m
      <3>1. n \in low..next - 1 /\ n \in DOMAIN Timeline
        BY <1>3, <1>4, <2>3, TimelineIs
      <3> QED
        BY <1>1, <1>5, <2>1, <3>1 DEF AllCovered
    <2> QED
      BY <2>2, <2>3
  <1> QED
    BY <1>5, <1>6, <1>7 DEF RoomInv

LEMMA LoadMessageStep ==
    ASSUME RoomInv, NEW m \in DOMAIN Timeline, Room!LoadMessage(m)
    PROVE  RoomInv'
  <1>1. RoomTypes /\ OnceEach /\ AllCovered
    BY DEF RoomInv
  <1>2. /\ m \in low - 1..next - 1 /\ m > 0
        /\ low' = (IF m < low THEN m ELSE low) /\ Room!RoomDecryptMessage(m)
        /\ UNCHANGED <<posted, next, bridgebot, keyInbox>>
    BY DEF Room!LoadMessage
  <1>3. /\ posted \in Nat /\ posted <= Len(Timeline) /\ next \in Nat /\ low \in Nat
        /\ 1 <= low /\ low <= next /\ next <= posted + 1 /\ m \in Nat
    BY <1>1, <1>2, TimelineIs DEF RoomTypes
  <1>4. low' \in 1..next
    BY <1>2, <1>3
  <1>5. /\ decrypting' \in [Room!Sessions -> Waiting] /\ OnceEach'
        /\ up' = "up" => up = "up" /\ Covered(m)'
        /\ \A n \in DOMAIN Timeline : Covered(n) => Covered(n)'
    BY <1>1, <1>2, DecryptMessageStep
  <1>6. RoomTypes'
    BY <1>1, <1>2, <1>4, <1>5 DEF RoomTypes
  <1>7. AllCovered'
    <2>1. SUFFICES ASSUME up' = "up", NEW n \in low'..next - 1
                   PROVE  Covered(n)'
      BY <1>2 DEF AllCovered
    <2>2. CASE n = m
      BY <1>5, <2>1, <2>2
    <2>3. CASE n # m
      <3>1. n \in low..next - 1 /\ n \in DOMAIN Timeline
        BY <1>2, <1>3, <2>3, TimelineIs
      <3> QED
        BY <1>1, <1>5, <2>1, <3>1 DEF AllCovered
    <2> QED
      BY <2>2, <2>3
  <1> QED
    BY <1>5, <1>6, <1>7 DEF RoomInv

LEMMA HandleBridgeStep ==
    ASSUME RoomInv, Room!HandleBridge
    PROVE  RoomInv'
  <1>1. RoomTypes /\ OnceEach /\ AllCovered
    BY DEF RoomInv
  <1>2. /\ decrypting' = [s \in Room!Sessions |->
               [decrypting[s] EXCEPT !.asked = @ \/ s \in Room!AsksFor(decrypting)]]
        /\ bridgebot' = TRUE
        /\ UNCHANGED <<posted, low, next, up, shown, stuck, keyInbox>>
    BY DEF Room!HandleBridge
  <1>3. ASSUME NEW s \in Room!Sessions
        PROVE  /\ decrypting'[s] \in Waiting
               /\ decrypting'[s].waits = decrypting[s].waits
               /\ decrypting'[s].msgs = decrypting[s].msgs
    <2>1. decrypting[s] \in Waiting
      BY <1>1 DEF RoomTypes
    <2>2. PICK asks \in BOOLEAN : asks = (decrypting[s].asked \/ s \in Room!AsksFor(decrypting))
      OBVIOUS
    <2>3. decrypting'[s] = [decrypting[s] EXCEPT !.asked = asks]
      BY <1>2, <2>2
    <2> QED
      BY <2>1, <2>3 DEF Waiting
  <1>4. decrypting' \in [Room!Sessions -> Waiting]
    BY <1>2, <1>3
  <1>5. RoomTypes'
    BY <1>1, <1>2, <1>4 DEF RoomTypes
  <1>6. OnceEach'
    BY <1>1, <1>3 DEF OnceEach
  <1>7. AllCovered'
    <2>1. SUFFICES ASSUME up' = "up", NEW n \in low..next - 1
                   PROVE  Covered(n)'
      BY <1>2 DEF AllCovered
    <2>2. Covered(n)
      BY <1>1, <1>2, <2>1 DEF AllCovered
    <2>3. Timeline[n].session \in Room!Sessions
      BY <1>1, <2>1, TimelineIs DEF RoomTypes
    <2> QED
      BY <1>2, <1>3, <2>2, <2>3 DEF Covered
  <1> QED
    BY <1>5, <1>6, <1>7 DEF RoomInv

LEMMA HandleRoomKeyStep ==
    ASSUME RoomInv, Room!HandleRoomKey
    PROVE  RoomInv'
  <1>1. RoomTypes /\ OnceEach /\ AllCovered
    BY DEF RoomInv
  <1>2. /\ keyInbox # <<>> /\ keyInbox' = Tail(keyInbox)
        /\ UNCHANGED <<posted, low, next, bridgebot, up>>
    BY DEF Room!HandleRoomKey
  <1>3. PICK s : s = Room!Key.session
    OBVIOUS
  <1>4. /\ keyInbox' \in Seq([session : Room!Sessions, first : Nat])
        /\ s \in Room!Sessions
    <2>1. keyInbox \in Seq([session : Room!Sessions, first : Nat])
      BY <1>1 DEF RoomTypes
    <2>2. Head(keyInbox) \in [session : Room!Sessions, first : Nat]
      BY <1>2, <2>1, TailIs
    <2> QED
      BY <1>2, <1>3, <2>1, <2>2, TailIs DEF Room!Key
  <1>5. \A n \in low..next - 1 : Timeline[n].session \in Room!Sessions
    BY <1>1, TimelineIs DEF RoomTypes
  <1>6. CASE UNCHANGED <<decrypting, shown, stuck>>
    <2>1. RoomTypes'
      BY <1>1, <1>2, <1>4, <1>6 DEF RoomTypes
    <2>2. OnceEach' /\ AllCovered'
      BY <1>1, <1>2, <1>6 DEF OnceEach, AllCovered, Covered
    <2> QED
      BY <2>1, <2>2 DEF RoomInv
  <1>7. CASE /\ decrypting' = [decrypting EXCEPT ![s] = Room!NotWaiting]
             /\ shown \subseteq shown'
             /\ stuck' = stuck \union (Room!Range(decrypting[s].msgs) \ shown')
    <2>1. Room!NotWaiting \in Waiting /\ DOMAIN Room!NotWaiting.msgs = {}
      BY EmptySeq DEF Room!NotWaiting, Waiting
    <2>2. /\ decrypting' \in [Room!Sessions -> Waiting]
          /\ decrypting'[s] = Room!NotWaiting
          /\ \A r \in Room!Sessions \ {s} : decrypting'[r] = decrypting[r]
      BY <1>1, <1>4, <1>7, <2>1 DEF RoomTypes
    <2>3. RoomTypes'
      BY <1>1, <1>2, <1>4, <2>2 DEF RoomTypes
    <2>4. OnceEach'
      BY <1>1, <2>1, <2>2 DEF OnceEach
    <2>5. AllCovered'
      <3>1. SUFFICES ASSUME up' = "up", NEW n \in low..next - 1
                     PROVE  Covered(n)'
        BY <1>2 DEF AllCovered
      <3>2. Covered(n)
        BY <1>1, <1>2, <3>1 DEF AllCovered
      <3> QED
        BY <1>5, <1>7, <2>2, <3>2 DEF Covered
    <2> QED
      BY <2>3, <2>4, <2>5 DEF RoomInv
  <1> QED
    BY <1>3, <1>6, <1>7 DEF Room!HandleRoomKey, Room!keyVars

(* What the others do, a crash and a restart.                              *)
LEMMA RoomSurroundings ==
    ASSUME RoomInv,
           \/ Room!Crash \/ Room!Restart \/ Room!Post
           \/ \E s \in Room!Sessions : Room!Share(s) \/ Room!Answer(s)
    PROVE  RoomInv'
  <1>1. RoomTypes /\ OnceEach /\ AllCovered
    BY DEF RoomInv
  <1>2. keyInbox \in Seq([session : Room!Sessions, first : Nat])
    BY <1>1 DEF RoomTypes
  <1>3. CASE Room!Crash
    <2>1. /\ UNCHANGED <<posted, low, next, bridgebot, decrypting>> /\ up' = "down"
          /\ keyInbox' = keyInbox \/ (keyInbox # <<>> /\ keyInbox' = Tail(keyInbox))
      BY <1>3 DEF Room!Crash
    <2>2. keyInbox' \in Seq([session : Room!Sessions, first : Nat])
      BY <1>2, <2>1, TailIs
    <2>3. RoomTypes'
      BY <1>1, <2>1, <2>2 DEF RoomTypes
    <2> QED
      BY <1>1, <2>1, <2>3 DEF RoomInv, OnceEach, AllCovered
  <1>4. CASE Room!Restart
    <2>1. /\ low' \in 1..posted + 1 /\ next' = low' /\ bridgebot' = FALSE
          /\ decrypting' = [s \in Room!Sessions |-> Room!NotWaiting]
          /\ UNCHANGED <<posted, keyInbox>>
      BY <1>4 DEF Room!Restart, Room!NewRun, Room!botVars
    <2>2. Room!NotWaiting \in Waiting /\ DOMAIN Room!NotWaiting.msgs = {}
      BY EmptySeq DEF Room!NotWaiting, Waiting
    <2>3. posted \in Nat /\ low' \in 1..next' /\ next' \in 1..posted + 1
      BY <1>1, <2>1, TimelineIs DEF RoomTypes
    <2>4. RoomTypes'
      BY <1>1, <2>1, <2>2, <2>3 DEF RoomTypes
    <2>5. OnceEach'
      BY <2>1, <2>2 DEF OnceEach
    <2>6. AllCovered'
      <3>1. low' \in Nat /\ low'..next' - 1 = {}
        <4>1. PICK r \in Nat : r = low'
          BY <2>1, <2>3
        <4>2. r..r - 1 = {}
          OBVIOUS
        <4> QED
          BY <2>1, <4>1, <4>2
      <3> QED
        BY <3>1 DEF AllCovered
    <2> QED
      BY <2>4, <2>5, <2>6 DEF RoomInv
  <1>5. CASE Room!Post
    <2>1. /\ posted < Len(Timeline) /\ posted' = posted + 1
          /\ UNCHANGED <<low, next, bridgebot, decrypting, up, shown, stuck, keyInbox>>
      BY <1>5 DEF Room!Post, Room!keyVars, Room!botVars
    <2>2. posted' \in 0..Len(Timeline) /\ next \in 1..posted' + 1
      BY <1>1, <2>1, TimelineIs DEF RoomTypes
    <2>3. RoomTypes'
      BY <1>1, <2>1, <2>2 DEF RoomTypes
    <2> QED
      BY <1>1, <2>1, <2>3 DEF RoomInv, OnceEach, AllCovered, Covered
  <1>6. CASE \E s \in Room!Sessions : Room!Share(s) \/ Room!Answer(s)
    <2>1. PICK s \in Room!Sessions :
              /\ \/ keyInbox' = Append(keyInbox, [session |-> s, first |-> Earliest[s]])
                 \/ keyInbox' = Append(keyInbox, [session |-> s, first |-> 0])
              /\ UNCHANGED <<posted, low, next, bridgebot, decrypting, up, shown, stuck>>
      BY <1>6 DEF Room!Share, Room!Answer, Room!keyVars
    <2>2. /\ [session |-> s, first |-> Earliest[s]] \in [session : Room!Sessions, first : Nat]
          /\ [session |-> s, first |-> 0] \in [session : Room!Sessions, first : Nat]
      BY RoomAssumption
    <2>3. keyInbox' \in Seq([session : Room!Sessions, first : Nat])
      <3>1. \A k \in [session : Room!Sessions, first : Nat] :
               Append(keyInbox, k) \in Seq([session : Room!Sessions, first : Nat])
        BY <1>2, AppendIs
      <3> QED
        BY <2>1, <2>2, <3>1
    <2>4. RoomTypes'
      BY <1>1, <2>1, <2>3 DEF RoomTypes
    <2> QED
      BY <1>1, <2>1, <2>4 DEF RoomInv, OnceEach, AllCovered, Covered
  <1> QED
    BY <1>3, <1>4, <1>5, <1>6

LEMMA RoomInitially == Room!Init => RoomInv
  <1> SUFFICES ASSUME Room!Init
               PROVE  RoomInv
    OBVIOUS
  <1>1. /\ Room!NotWaiting \in Waiting /\ DOMAIN Room!NotWaiting.msgs = {}
        /\ <<>> \in Seq([session : Room!Sessions, first : Nat])
    BY EmptySeq DEF Room!NotWaiting, Waiting
  <1>2. posted = 0 /\ low = 1 /\ next = 1 /\ bridgebot = FALSE
    BY DEF Room!Init
  <1>3. RoomTypes
    <2>1. posted \in 0..Len(Timeline) /\ next \in 1..posted + 1 /\ low \in 1..next
      BY <1>2, TimelineIs
    <2>2. /\ decrypting = [s \in Room!Sessions |-> Room!NotWaiting]
          /\ keyInbox = <<>>
      BY DEF Room!Init
    <2> QED
      BY <1>1, <1>2, <2>1, <2>2 DEF RoomTypes
  <1>4. OnceEach
    BY <1>1 DEF Room!Init, OnceEach
  <1>5. AllCovered
    BY <1>2 DEF AllCovered
  <1> QED
    BY <1>3, <1>4, <1>5 DEF RoomInv

(* A message that this run has got was decided or waits, once.             *)
THEOREM RoomInvariant == FairSpec => []RoomInv
  <1>1. Init => RoomInv
    BY RoomInitially DEF Init
  <1>2. RoomInv /\ [Next]_vars => RoomInv'
    <2> SUFFICES ASSUME RoomInv, [Next]_vars
                 PROVE  RoomInv'
      OBVIOUS
    <2>1. CASE Room!Next
      BY <2>1, SyncMessageStep, LoadMessageStep, HandleBridgeStep, HandleRoomKeyStep,
         RoomSurroundings DEF Room!Next
    <2>2. CASE UNCHANGED roomVars
      BY <2>2 DEF roomVars, RoomInv, RoomTypes, OnceEach, AllCovered, Covered
    <2> QED
      BY <2>1, <2>2 DEF Next, vars
  <1> QED
    BY <1>1, <1>2, PTL DEF FairSpec

(* A message of this run is on the screen, or waits for its key, under its *)
(* session and once, or met a key that did not open it or one before it.   *)
THEOREM TaskMessagesAreShownOrWait == FairSpec => []ShownOrWaiting
  <1>1. ASSUME RoomInv, up = "up", NEW m \in low..next - 1, m \notin shown \union stuck
        PROVE  /\ decrypting[Timeline[m].session].waits
               /\ Room!Cardinality({i \in DOMAIN decrypting[Timeline[m].session].msgs :
                                       decrypting[Timeline[m].session].msgs[i] = m}) = 1
    <2>1. Timeline[m].session \in Room!Sessions
      BY <1>1, TimelineIs DEF RoomInv, RoomTypes
    <2>2. /\ decrypting[Timeline[m].session].waits
          /\ m \in Room!Range(decrypting[Timeline[m].session].msgs)
      BY <1>1 DEF RoomInv, AllCovered, Covered
    <2>3. PICK i \in DOMAIN decrypting[Timeline[m].session].msgs :
              decrypting[Timeline[m].session].msgs[i] = m
      BY <2>2 DEF Room!Range
    <2>4. {j \in DOMAIN decrypting[Timeline[m].session].msgs :
              decrypting[Timeline[m].session].msgs[j] = m} = {i}
      BY <1>1, <2>1, <2>3 DEF RoomInv, OnceEach
    <2> QED
      BY <2>2, <2>4, RoomSingleton
  <1>2. RoomInv => ShownOrWaiting
    BY <1>1 DEF ShownOrWaiting, Room!ShownOrWaiting
  <1> QED
    BY <1>2, RoomInvariant, PTL
-----------------------------------------------------------------------------
(* The one-time keys.  What this device has handled of the sessions begun  *)
(* with them: messages handed on, the one in hand, and those that the end  *)
(* of the program cut short.                                               *)
Hand ==
    IF at \in {"saving", "decrypted"}
    THEN {<<olmInbox[olmSeen + 1].claim, olmInbox[olmSeen + 1].n>>} ELSE {}

Done == Olm!Range(read)
Handled == Done \union cut \union Hand
Begun(c) == \E n \in Nat : <<c, n>> \in Handled
Claims == DOMAIN keyOf

Messages == [claim : Nat, n : Nat, preKey : BOOLEAN]
Entries == [claim : Int, got : SUBSET Nat]
Accounts ==
    [own : BOOLEAN, keys : SUBSET (1..nextKey - 1), unpublished : SUBSET (1..nextKey - 1)]

OlmTypes ==
    /\ nextKey \in Nat \ {0}
    /\ account \in Accounts
    /\ accountFile \in Accounts
    /\ server \subseteq 1..nextKey - 1 /\ batch \subseteq 1..nextKey - 1
    /\ count \in Int /\ key \in Int
    /\ keyOf \in Seq(Nat) /\ \A c \in Claims : keyOf[c] \in 1..nextKey - 1
    /\ sent \in Seq(Nat) /\ Len(sent) = Len(keyOf)
    /\ olmInbox \in Seq(Messages) /\ olmSeen \in 0..Len(olmInbox)
    /\ sessions \in Seq(Entries) /\ read \in Seq(Nat \X Nat) /\ cut \subseteq Nat \X Nat

(* Only what was sent arrives and is handled.                              *)
OnlySent ==
    /\ \A i \in DOMAIN olmInbox :
          /\ olmInbox[i].claim \in Claims
          /\ olmInbox[i].n \in 1..sent[olmInbox[i].claim]
    /\ \A m \in Done \union cut : m[1] \in Claims /\ m[2] \in 1..sent[m[1]]
    /\ \A i \in DOMAIN sessions : sessions[i].claim \in Claims \union {Olm!None}

(* The account in memory is the one in the file while the thread runs.     *)
(* One that is blank has nothing in hand.                                  *)
AccountSaved ==
    /\ at # "down" => account = accountFile
    /\ account.unpublished \subseteq account.keys
    /\ accountFile.unpublished \subseteq accountFile.keys
    /\ at = "got" => batch \subseteq accountFile.keys
    /\ at \in {"saving", "decrypted"} => olmSeen < Len(olmInbox)
    /\ key # Olm!None => at = "saving" /\ key = keyOf[olmInbox[olmSeen + 1].claim]

KeysHeld ==
    accountFile.own =>
        \A k \in server \union Olm!Range(keyOf) :
            \/ k \in accountFile.keys
            \/ \E c \in Claims : keyOf[c] = k /\ (c \in excused \/ Begun(c))

(* A session that was begun and need be readable is in the file, and knows *)
(* what it has read.                                                       *)
SessionsKept ==
    /\ \A c \in Claims \ excused : Begun(c) => \E i \in DOMAIN sessions : sessions[i].claim = c
    /\ \A i \in DOMAIN sessions : \A n \in sessions[i].got : <<sessions[i].claim, n>> \in Handled
    /\ \A c, d \in Claims : c # d /\ keyOf[c] = keyOf[d] => c \in excused
    /\ \A i \in DOMAIN olmInbox :
          ~olmInbox[i].preKey => \E n \in Nat : <<olmInbox[i].claim, n>> \in Done

Pending(c, n) ==
    \E i \in olmSeen + 1..Len(olmInbox) : olmInbox[i].claim = c /\ olmInbox[i].n = n

NoneDropped ==
    accountFile.own =>
        \A c \in Claims \ excused : \A n \in 1..sent[c] : <<c, n>> \in Handled \/ Pending(c, n)

(* A session of which no message was cut short began once: its key is gone *)
(* or goes next.  It has read what was handed on.                          *)
Uncut == {c \in Claims : \A m \in cut : m[1] # c}

Spent(c) ==
    \/ keyOf[c] \notin accountFile.keys
    \/ key = keyOf[c] /\ \E n \in Nat : <<c, n>> \in Hand

KeysSpent ==
    \A c \in Uncut :
        \/ Spent(c)
        \/ /\ \A i \in DOMAIN sessions : sessions[i].claim # c
           /\ \A n \in Nat : <<c, n>> \notin Done \union Hand

ReadOnce ==
    /\ \A i, j \in DOMAIN sessions :
          sessions[i].claim = sessions[j].claim /\ sessions[i].claim \in Uncut => i = j
    /\ \A i \in DOMAIN sessions : \A n \in Nat :
          sessions[i].claim \in Uncut /\ <<sessions[i].claim, n>> \in Done \union Hand
              => n \in sessions[i].got
    /\ \A m \in Hand : m[1] \in Uncut => m \notin Done
    /\ \A i, j \in DOMAIN read : read[i] = read[j] /\ read[i][1] \in Uncut => i = j

OlmInv ==
    /\ OlmTypes /\ OnlySent /\ AccountSaved /\ KeysHeld
    /\ SessionsKept /\ NoneDropped /\ KeysSpent /\ ReadOnce
-----------------------------------------------------------------------------
LEMMA OlmCardinality ==
    ASSUME NEW S
    PROVE  Olm!Cardinality(S) = Cardinality(S)
  BY DEF Olm!Cardinality, Cardinality

LEMMA AccountsAre ==
    ASSUME OlmTypes
    PROVE  /\ accountFile.keys \subseteq Nat /\ account.keys \subseteq Nat
           /\ accountFile.own \in BOOLEAN /\ account.own \in BOOLEAN
           /\ Olm!NewAccount \in Accounts /\ Olm!Torn \in Accounts
           /\ ~Olm!Torn.own /\ Olm!Torn.keys = {} /\ Olm!Torn.unpublished = {}
           /\ \A c \in Claims : keyOf[c] \in Nat /\ c \in Nat
  <1>1. account.keys \subseteq Nat /\ accountFile.keys \subseteq Nat
    BY DEF OlmTypes, Accounts
  <1>2. accountFile.own \in BOOLEAN /\ account.own \in BOOLEAN
    BY DEF OlmTypes, Accounts
  <1>3. Olm!NewAccount \in Accounts
    BY DEF Olm!NewAccount, Accounts
  <1>4. Olm!Torn = [own |-> FALSE, keys |-> {}, unpublished |-> {}]
    BY DEF Olm!Torn, Olm!Blank
  <1>5. Olm!Torn \in Accounts
    BY <1>4 DEF Accounts
  <1>6. DOMAIN keyOf = 1..Len(keyOf) /\ Len(keyOf) \in Nat
    BY LenProperties DEF OlmTypes
  <1>7. \A c \in Claims : keyOf[c] \in Nat /\ c \in Nat
    BY <1>6 DEF OlmTypes, Claims
  <1> QED
    BY <1>1, <1>2, <1>3, <1>4, <1>5, <1>7

(* A step that neither handles nor sends a message keeps what there is to  *)
(* say of them.                                                            *)
Messaging == <<sessions, read, cut, excused, keyOf, sent, olmInbox, olmSeen, Hand>>

LEMMA MessagesStay ==
    ASSUME OlmInv, Messaging' = Messaging, accountFile'.own => accountFile.own
    PROVE  /\ OnlySent' /\ SessionsKept' /\ NoneDropped' /\ ReadOnce'
           /\ Handled' = Handled /\ Done' = Done /\ Uncut' = Uncut /\ Claims' = Claims
  <1>1. /\ UNCHANGED <<sessions, read, cut, excused, keyOf, sent, olmInbox, olmSeen>>
        /\ Hand' = Hand
    BY DEF Messaging
  <1>2. Handled' = Handled /\ Done' = Done /\ Uncut' = Uncut /\ Claims' = Claims
    BY <1>1 DEF Handled, Done, Uncut, Claims
  <1>3. OnlySent'
    BY <1>1, <1>2 DEF OlmInv, OnlySent
  <1>4. SessionsKept'
    BY <1>1, <1>2 DEF OlmInv, SessionsKept, Begun
  <1>5. NoneDropped'
    <2>1. \A c, n : Pending(c, n)' <=> Pending(c, n)
      BY <1>1 DEF Pending
    <2>2. NoneDropped
      BY DEF OlmInv
    <2> QED
      BY <1>1, <1>2, <2>1, <2>2, Zenon DEF NoneDropped
  <1>6. ReadOnce'
    BY <1>1, <1>2 DEF OlmInv, ReadOnce
  <1> QED
    BY <1>2, <1>3, <1>4, <1>5, <1>6

LEMMA KeysStaySpent ==
    ASSUME OlmInv, Messaging' = Messaging, accountFile'.own => accountFile.own, key' = key,
           \A c \in Claims : keyOf[c] \in accountFile'.keys => keyOf[c] \in accountFile.keys
    PROVE  KeysSpent'
  <1>1. /\ UNCHANGED <<sessions, read, keyOf>> /\ Hand' = Hand
        /\ Done' = Done /\ Uncut' = Uncut
    BY MessagesStay DEF Messaging
  <1>2. \A c \in Uncut : Spent(c) => Spent(c)'
    BY <1>1 DEF Spent, Uncut
  <1> QED
    BY <1>1, <1>2 DEF OlmInv, KeysSpent

(* The keys that are out stay in the file, if those in the file do.        *)
LEMMA KeysStayHeld ==
    ASSUME OlmInv, Messaging' = Messaging, accountFile'.own => accountFile.own,
           \A k \in server \union Olm!Range(keyOf) :
               k \in accountFile.keys => k \in accountFile'.keys,
           \A k \in server' : k \in server \/ k \in accountFile'.keys
    PROVE  KeysHeld'
  <1>1. UNCHANGED <<excused, keyOf>> /\ Handled' = Handled /\ Claims' = Claims
    BY MessagesStay DEF Messaging
  <1>2. \A c \in Claims : Begun(c)' <=> Begun(c)
    BY <1>1 DEF Begun
  <1> QED
    BY <1>1, <1>2 DEF OlmInv, KeysHeld

LEMMA GetKeysStep ==
    ASSUME OlmInv, NEW n \in Int, Olm!GetKeys(n), at \in {"first", "idle"}
    PROVE  \/ at' = "aborted" /\ UNCHANGED <<account, accountFile, batch, nextKey>>
           \/ /\ at' = "got" /\ accountFile' = account'
              /\ nextKey' \in Nat /\ nextKey <= nextKey'
              /\ account' \in Accounts' /\ batch' = account'.unpublished
              /\ account'.unpublished \subseteq account'.keys
              /\ account.keys \subseteq account'.keys /\ account'.own = account.own
              /\ \A k \in account'.keys : k \in account.keys \/ k >= nextKey
  <1>1. CASE at' = "aborted" /\ UNCHANGED Olm!accountVars /\ UNCHANGED <<batch, nextKey>>
    BY <1>1 DEF Olm!accountVars
  <1>2. CASE ~(Olm!Cardinality(account.unpublished) > n)
    <2>1. PICK c : c = Olm!Cardinality(account.unpublished)
      OBVIOUS
    <2>2. /\ nextKey \in Nat /\ nextKey # 0
          /\ account.unpublished \subseteq 1..nextKey - 1 /\ account.keys \subseteq 1..nextKey - 1
          /\ account.unpublished \subseteq account.keys
          /\ account \in Accounts /\ account.own \in BOOLEAN
      BY DEF OlmInv, OlmTypes, Accounts, AccountSaved
    <2>3. c \in Nat
      <3>1. IsFiniteSet(1..nextKey - 1)
        <4>1. 1 \in Int /\ nextKey - 1 \in Int
          BY <2>2
        <4> QED
          BY <4>1, FS_Interval
      <3>2. IsFiniteSet(account.unpublished)
        BY <2>2, <3>1, FS_Subset
      <3> QED
        BY <2>1, <3>2, FS_CardinalityType, OlmCardinality
    <2>4. PICK d \in Nat : d = n - c
      BY <1>2, <2>1, <2>3
    <2>5. PICK new : new = nextKey..nextKey + n - c - 1
      OBVIOUS
    <2>6. new = nextKey..nextKey + d - 1
      BY <2>2, <2>3, <2>4, <2>5
    <2>7. Olm!Cardinality(new) = d
      <3>1. nextKey \in Int /\ nextKey + d - 1 \in Int
        BY <2>2
      <3>2. Cardinality(new) = IF nextKey > nextKey + d - 1 THEN 0 ELSE nextKey + d - 1 - nextKey + 1
        BY <2>6, <3>1, FS_Interval
      <3> QED
        BY <2>2, <3>2, OlmCardinality
    <2>8. /\ account' = [account EXCEPT !.keys = @ \union new,
                                       !.unpublished = @ \union new]
          /\ accountFile' = account' /\ batch' = account'.unpublished
          /\ nextKey' = nextKey + Olm!Cardinality(new) /\ at' = "got"
      BY <1>2, <2>1, <2>5 DEF Olm!GetKeys, Olm!SavedBeforeUpload
    <2>9. nextKey' = nextKey + d
      BY <2>7, <2>8
    <2>10. new \subseteq 1..nextKey' - 1 /\ 1..nextKey - 1 \subseteq 1..nextKey' - 1
      BY <2>2, <2>6, <2>9
    <2>11. account' \in Accounts'
      BY <2>2, <2>8, <2>10 DEF Accounts
    <2>12. \A k \in account'.keys : k \in account.keys \/ k >= nextKey
      BY <2>2, <2>6, <2>8
    <2> QED
      BY <2>2, <2>8, <2>9, <2>11, <2>12
  <1> QED
    BY <1>1, <1>2 DEF Olm!GetKeys

(* The thread starts, or the server hears of keys.                         *)
LEMMA KeysOutStep ==
    ASSUME OlmInv, Olm!Start \/ Olm!Upload \/ Olm!DecryptBroken \/ Olm!GetVerified
    PROVE  OlmInv'
  <1>1. /\ OlmTypes /\ AccountSaved /\ KeysHeld
    BY DEF OlmInv
  <1>2. /\ UNCHANGED <<accountFile, sessions, read, cut, excused, keyOf, sent, olmInbox, olmSeen,
                       count, key, nextKey>>
        /\ at \notin {"saving", "decrypted"} /\ at' \notin {"saving", "decrypted"}
    BY DEF Olm!Start, Olm!Upload, Olm!DecryptBroken, Olm!GetVerified, Olm!accountVars, Olm!peerVars,
       Olm!ghosts
  <1>3. Messaging' = Messaging
    BY <1>2 DEF Messaging, Hand
  <1>4. /\ account' = account \/ account' = accountFile
        /\ at' # "down" => account' = accountFile
    BY <1>1 DEF AccountSaved, Olm!Start, Olm!Upload, Olm!DecryptBroken, Olm!GetVerified,
       Olm!accountVars
  <1>5. /\ server' \subseteq server \union batch
        /\ batch' = batch \/ batch' = {}
        /\ at' = "got" => FALSE
        /\ at # "got" => server' = server
    BY DEF Olm!Start, Olm!Upload, Olm!DecryptBroken, Olm!GetVerified, Olm!peerVars
  <1>6. OlmTypes'
    <2>1. account' \in Accounts
      BY <1>1, <1>4, AccountsAre DEF OlmTypes
    <2>2. account' \in Accounts' /\ accountFile' \in Accounts'
      BY <1>1, <1>2, <2>1 DEF OlmTypes, Accounts
    <2>3. server' \subseteq 1..nextKey - 1 /\ batch' \subseteq 1..nextKey - 1
      BY <1>1, <1>5 DEF OlmTypes
    <2> QED
      BY <1>1, <1>2, <2>2, <2>3 DEF OlmTypes, Claims
  <1>7. AccountSaved'
    BY <1>1, <1>2, <1>4, <1>5 DEF AccountSaved
  <1>8. KeysHeld'
    <2>1. \A k \in server' : k \in server \/ k \in accountFile'.keys
      BY <1>1, <1>2, <1>5 DEF AccountSaved
    <2> QED
      BY <1>2, <1>3, <2>1, KeysStayHeld
  <1> QED
    BY <1>2, <1>3, <1>6, <1>7, <1>8, MessagesStay, KeysStaySpent DEF OlmInv

(* The account gets keys.                                                  *)
LEMMA NewKeysStep ==
    ASSUME OlmInv, Olm!FirstKeys \/ Olm!HandleCount
    PROVE  OlmInv'
  <1>1. /\ OlmTypes /\ AccountSaved /\ KeysHeld
    BY DEF OlmInv
  <1>2. /\ UNCHANGED <<server, sessions, read, cut, excused, keyOf, sent, olmInbox, olmSeen, key>>
        /\ at \in {"first", "idle"}
        /\ count' = count \/ count' = Olm!None
    BY DEF Olm!FirstKeys, Olm!HandleCount, Olm!peerVars, Olm!ghosts
  <1>3. \/ at' # "got" /\ at' \in {"aborted", "idle"}
              /\ UNCHANGED <<account, accountFile, batch, nextKey>>
        \/ /\ at' = "got" /\ accountFile' = account'
           /\ nextKey' \in Nat /\ nextKey <= nextKey'
           /\ account' \in Accounts' /\ batch' = account'.unpublished
           /\ account'.unpublished \subseteq account'.keys
           /\ account.keys \subseteq account'.keys /\ account'.own = account.own
           /\ \A k \in account'.keys : k \in account.keys \/ k >= nextKey
    <2>1. CASE \E n \in Int : Olm!GetKeys(n)
      BY <1>2, <2>1, GetKeysStep
    <2>2. CASE UNCHANGED <<account, accountFile, batch, nextKey, at>> /\ at = "idle"
      BY <2>2
    <2>3. TopUp \in Int /\ TopUp - count \in Int
      BY <1>1, OlmAssumption DEF OlmTypes
    <2> QED
      BY <2>1, <2>2, <2>3 DEF Olm!FirstKeys, Olm!HandleCount, Olm!accountVars
  <1>4. at' \notin {"saving", "decrypted"} /\ Messaging' = Messaging
    BY <1>2, <1>3 DEF Messaging, Hand
  <1>5. account = accountFile /\ accountFile'.own = accountFile.own
    BY <1>1, <1>2, <1>3 DEF AccountSaved
  <1>6. OlmTypes'
    <2>1. nextKey' \in Nat /\ nextKey' # 0 /\ 1..nextKey - 1 \subseteq 1..nextKey' - 1
      BY <1>1, <1>3 DEF OlmTypes
    <2>2. account' \in Accounts' /\ accountFile' \in Accounts'
      BY <1>1, <1>3, <1>5 DEF OlmTypes, Accounts
    <2>3. batch' \subseteq 1..nextKey' - 1
      BY <1>1, <1>3, <2>1, <2>2 DEF OlmTypes, Accounts
    <2>4. server' \subseteq 1..nextKey' - 1 /\ \A c \in Claims' : keyOf'[c] \in 1..nextKey' - 1
      BY <1>1, <1>2, <2>1 DEF OlmTypes, Claims
    <2>5. count' \in Int
      BY <1>1, <1>2 DEF OlmTypes, Olm!None
    <2> QED
      BY <1>1, <1>2, <2>1, <2>2, <2>3, <2>4, <2>5 DEF OlmTypes
  <1>7. AccountSaved'
    BY <1>1, <1>2, <1>3, <1>4, <1>5 DEF AccountSaved
  <1>8. KeysHeld'
    BY <1>2, <1>3, <1>4, <1>5, KeysStayHeld
  <1>9. \A c \in Claims : keyOf[c] \in accountFile'.keys => keyOf[c] \in accountFile.keys
    BY <1>1, <1>3, <1>5 DEF OlmTypes
  <1> QED
    BY <1>2, <1>4, <1>5, <1>6, <1>7, <1>8, <1>9, MessagesStay, KeysStaySpent DEF OlmInv

LEMMA MarkPublishedStep ==
    ASSUME OlmInv, Olm!MarkPublished
    PROVE  OlmInv'
  <1>1. /\ OlmTypes /\ AccountSaved /\ KeysHeld
    BY DEF OlmInv
  <1>2. /\ UNCHANGED <<server, sessions, read, cut, excused, keyOf, sent, olmInbox, olmSeen, key,
                       batch, count, nextKey>>
        /\ at = "uploaded" /\ at' = "idle"
        /\ account' = [account EXCEPT !.unpublished = {}] /\ accountFile' = account'
    BY DEF Olm!MarkPublished, Olm!peerVars, Olm!ghosts
  <1>3. Messaging' = Messaging
    BY <1>2 DEF Messaging, Hand
  <1>4. account = accountFile /\ account \in Accounts
    BY <1>1, <1>2 DEF AccountSaved, OlmTypes
  <1>5. /\ account' \in Accounts /\ account'.keys = account.keys /\ account'.unpublished = {}
        /\ accountFile' = account' /\ account'.own = account.own
    BY <1>2, <1>4 DEF Accounts
  <1>6. OlmTypes'
    BY <1>1, <1>2, <1>5 DEF OlmTypes, Accounts, Claims
  <1>7. AccountSaved'
    BY <1>1, <1>2, <1>5 DEF AccountSaved
  <1>8. KeysHeld'
    BY <1>2, <1>3, <1>4, <1>5, KeysStayHeld
  <1> QED
    BY <1>2, <1>3, <1>4, <1>5, <1>6, <1>7, <1>8, MessagesStay, KeysStaySpent DEF OlmInv

(* The message in hand, or the one that is handled next.                   *)
LEMMA NextMessageIs ==
    ASSUME OlmInv, olmSeen < Len(olmInbox)
    PROVE  /\ olmSeen \in Nat /\ Len(olmInbox) \in Nat /\ olmSeen + 1 \in DOMAIN olmInbox
           /\ olmInbox[olmSeen + 1] \in Messages
           /\ olmInbox[olmSeen + 1].claim \in Claims
           /\ olmInbox[olmSeen + 1].n \in 1..sent[olmInbox[olmSeen + 1].claim]
           /\ olmInbox[olmSeen + 1].claim \in Nat /\ olmInbox[olmSeen + 1].n \in Nat
  <1>1. /\ olmInbox \in Seq(Messages) /\ olmSeen \in 0..Len(olmInbox)
    BY DEF OlmInv, OlmTypes
  <1>2. DOMAIN olmInbox = 1..Len(olmInbox) /\ Len(olmInbox) \in Nat
    BY <1>1, LenProperties
  <1>3. olmSeen \in Nat /\ olmSeen + 1 \in DOMAIN olmInbox
    BY <1>1, <1>2
  <1>4. olmInbox[olmSeen + 1] \in Messages
    BY <1>1, <1>2, <1>3
  <1> QED
    BY <1>2, <1>3, <1>4 DEF OlmInv, OnlySent, Messages

LEMMA HandIs ==
    ASSUME OlmInv, at \in {"saving", "decrypted"},
           NEW c, c = olmInbox[olmSeen + 1].claim, NEW n, n = olmInbox[olmSeen + 1].n
    PROVE  /\ Hand = {<<c, n>>} /\ c \in Claims /\ c \in Nat /\ n \in Nat /\ n \in 1..sent[c]
           /\ olmSeen \in Nat /\ olmSeen + 1 \in DOMAIN olmInbox /\ olmSeen < Len(olmInbox)
  <1>1. olmSeen < Len(olmInbox)
    BY DEF OlmInv, AccountSaved
  <1> QED
    BY <1>1, NextMessageIs DEF Hand

LEMMA HandledWereSent ==
    ASSUME OlmInv, NEW m \in Handled
    PROVE  m[1] \in Claims /\ m[2] \in 1..sent[m[1]]
  <1>1. CASE m \in Hand
    <2>1. at \in {"saving", "decrypted"}
      BY <1>1 DEF Hand
    <2> QED
      BY <1>1, <2>1, HandIs
  <1> QED
    BY <1>1 DEF Handled, OlmInv, OnlySent

LEMMA RemoveKeyStep ==
    ASSUME OlmInv, Olm!RemoveKey
    PROVE  OlmInv'
  <1>1. /\ OlmTypes /\ AccountSaved /\ KeysHeld
    BY DEF OlmInv
  <1>2. /\ UNCHANGED <<server, sessions, read, cut, excused, keyOf, sent, olmInbox, olmSeen,
                       batch, count, nextKey>>
        /\ at = "saving" /\ at' = "decrypted" /\ key' = Olm!None
    BY DEF Olm!RemoveKey, Olm!peerVars, Olm!ghosts
  <1>3. Messaging' = Messaging
    BY <1>2 DEF Messaging, Hand
  <1>4. account = accountFile /\ account \in Accounts
    BY <1>1, <1>2 DEF AccountSaved, OlmTypes
  <1>5. /\ accountFile' = account'
        /\ account' \in Accounts /\ account'.unpublished \subseteq account'.keys
        /\ key # Olm!None => account'.keys = account.keys \ {key}
        /\ key = Olm!None => account' = account
        /\ accountFile'.own = accountFile.own
    <2>1. CASE key = Olm!None
      BY <1>1, <1>4, <2>1 DEF Olm!RemoveKey, AccountSaved
    <2>2. CASE key # Olm!None
      <3>1. account' = [account EXCEPT !.keys = @ \ {key}, !.unpublished = @ \ {key}]
            /\ accountFile' = account'
        BY <2>2 DEF Olm!RemoveKey, Olm!WithoutKey
      <3> QED
        BY <1>1, <1>4, <2>2, <3>1 DEF AccountSaved, Accounts
    <2> QED
      BY <2>1, <2>2
  <1>6. OlmTypes'
    BY <1>1, <1>2, <1>5 DEF OlmTypes, Accounts, Claims, Olm!None
  <1>7. AccountSaved'
    BY <1>1, <1>2, <1>5 DEF AccountSaved
  <1>8. PICK c, n : c = olmInbox[olmSeen + 1].claim /\ n = olmInbox[olmSeen + 1].n
    OBVIOUS
  <1>9. Hand = {<<c, n>>} /\ c \in Claims /\ n \in Nat
    BY <1>2, <1>8, HandIs
  <1>10. KeysHeld'
    <2>1. UNCHANGED <<server, keyOf, excused>> /\ Handled' = Handled /\ Claims' = Claims
      BY <1>2, <1>3, <1>5, MessagesStay
    <2>2. \A d : Begun(d)' <=> Begun(d)
      BY <2>1 DEF Begun
    <2>3. Begun(c)
      BY <1>9 DEF Begun, Handled
    <2>4. SUFFICES ASSUME accountFile.own, NEW k \in server \union Olm!Range(keyOf)
                   PROVE  \/ k \in accountFile'.keys
                          \/ \E d \in Claims : keyOf[d] = k /\ (d \in excused \/ Begun(d))
      BY <1>5, <2>1, <2>2 DEF KeysHeld
    <2>5. CASE k = key /\ key # Olm!None
      <3>1. keyOf[c] = k
        BY <1>1, <1>8, <2>5 DEF AccountSaved
      <3> QED
        BY <1>9, <2>3, <3>1
    <2>6. CASE ~(k = key /\ key # Olm!None)
      BY <1>1, <1>4, <1>5, <2>4, <2>6 DEF KeysHeld
    <2> QED
      BY <2>5, <2>6
  <1>11. KeysSpent'
    <2>1. /\ UNCHANGED <<sessions, read, keyOf>> /\ Hand' = Hand
          /\ Done' = Done /\ Uncut' = Uncut
      BY <1>3, <1>5, MessagesStay DEF Messaging
    <2>2. \A d \in Uncut : Spent(d) => keyOf[d] \notin accountFile'.keys
      <3>1. \A d \in Uncut : keyOf[d] # Olm!None
        BY AccountsAre, <1>1 DEF Uncut, Olm!None
      <3> QED
        BY <1>4, <1>5, <3>1 DEF Spent
    <2> QED
      BY <2>1, <2>2 DEF OlmInv, KeysSpent, Spent
  <1> QED
    BY <1>3, <1>5, <1>6, <1>7, <1>10, <1>11, MessagesStay DEF OlmInv

LEMMA RangeOfAppend ==
    ASSUME NEW S, NEW s \in Seq(S), NEW x \in S
    PROVE  Olm!Range(Append(s, x)) = Olm!Range(s) \union {x}
  <1>1. PICK t : t = Append(s, x)
    OBVIOUS
  <1>2. /\ Len(s) \in Nat /\ DOMAIN s = 1..Len(s) /\ DOMAIN t = 1..Len(s) + 1
        /\ \A i \in DOMAIN s : t[i] = s[i]
        /\ t[Len(s) + 1] = x
    BY <1>1, AppendIs, LenProperties
  <1>3. \A i \in DOMAIN t : i \in DOMAIN s \/ i = Len(s) + 1
    BY <1>2
  <1>4. Len(s) + 1 \in DOMAIN t /\ DOMAIN s \subseteq DOMAIN t
    BY <1>2
  <1>5. \A i \in DOMAIN t : t[i] \in Olm!Range(s) \union {x}
    BY <1>2, <1>3 DEF Olm!Range
  <1>6. x \in Olm!Range(t) /\ Olm!Range(s) \subseteq Olm!Range(t)
    <2>1. \A i \in DOMAIN s : i \in DOMAIN t /\ s[i] = t[i]
      BY <1>2, <1>4
    <2> QED
      BY <1>2, <1>4, <2>1 DEF Olm!Range
  <1>7. Olm!Range(t) \subseteq Olm!Range(s) \union {x}
    <2>1. SUFFICES ASSUME NEW i \in DOMAIN t
                   PROVE  t[i] \in Olm!Range(s) \union {x}
      BY DEF Olm!Range
    <2> QED
      BY <1>5
  <1> QED
    BY <1>1, <1>6, <1>7

LEMMA HandOnStep ==
    ASSUME OlmInv, Olm!HandOn
    PROVE  OlmInv'
  <1>1. /\ OlmTypes /\ OnlySent /\ AccountSaved /\ KeysHeld
        /\ SessionsKept /\ NoneDropped /\ KeysSpent /\ ReadOnce
    BY DEF OlmInv
  <1>2. /\ UNCHANGED <<account, accountFile, server, sessions, cut, excused, keyOf, sent, olmInbox,
                       key, batch, count, nextKey>>
        /\ at = "decrypted" /\ at' = "idle" /\ olmSeen' = olmSeen + 1
    BY DEF Olm!HandOn, Olm!accountVars, Olm!peerVars
  <1>3. PICK c, n : c = olmInbox[olmSeen + 1].claim /\ n = olmInbox[olmSeen + 1].n
    OBVIOUS
  <1>4. PICK m : m = <<c, n>>
    OBVIOUS
  <1>5. /\ Hand = {m} /\ c \in Claims /\ m \in Nat \X Nat /\ m[1] = c /\ m[2] \in 1..sent[c]
        /\ olmSeen \in Nat /\ olmSeen + 1 \in DOMAIN olmInbox /\ olmSeen < Len(olmInbox)
    BY <1>2, <1>3, <1>4, HandIs
  <1>6. read' = Append(read, m) /\ read \in Seq(Nat \X Nat)
    BY <1>1, <1>3, <1>4 DEF Olm!HandOn, Olm!Message, OlmTypes
  <1>7. Done' = Done \union {m} /\ Hand' = {}
    <2>1. Hand' = {}
      BY <1>2 DEF Hand
    <2>2. PICK t : t = Append(read, m)
      OBVIOUS
    <2>3. Olm!Range(t) = Olm!Range(read) \union {m}
      BY <1>5, <1>6, <2>2, RangeOfAppend
    <2>4. read' = t
      BY <1>6, <2>2
    <2>5. Done' = Olm!Range(t)
      BY <2>4 DEF Done, Olm!Range
    <2> QED
      BY <2>1, <2>3, <2>5 DEF Done
  <1>8. Handled' = Handled /\ Uncut' = Uncut /\ Claims' = Claims
    BY <1>2, <1>5, <1>7 DEF Handled, Uncut, Claims
  <1>9. \A d : Begun(d)' <=> Begun(d)
    BY <1>8 DEF Begun
  <1>10. OlmTypes'
    <2>1. read' \in Seq(Nat \X Nat)
      BY <1>5, <1>6, AppendIs
    <2>2. olmSeen' \in 0..Len(olmInbox')
      BY <1>1, <1>2, <1>5 DEF OlmTypes
    <2> QED
      BY <1>1, <1>2, <2>1, <2>2 DEF OlmTypes, Accounts, Claims
  <1>11. OnlySent'
    BY <1>1, <1>2, <1>5, <1>7, <1>8 DEF OnlySent
  <1>12. AccountSaved' /\ key = Olm!None
    BY <1>1, <1>2 DEF AccountSaved
  <1>13. KeysHeld'
    BY <1>1, <1>2, <1>8, <1>9 DEF KeysHeld
  <1>14. SessionsKept'
    BY <1>1, <1>2, <1>7, <1>8, <1>9 DEF SessionsKept
  <1>15. NoneDropped'
    <2>1. SUFFICES ASSUME accountFile.own, NEW d \in Claims \ excused, NEW k \in 1..sent[d],
                          <<d, k>> \notin Handled
                   PROVE  Pending(d, k)'
      BY <1>2, <1>8 DEF NoneDropped
    <2>2. PICK i \in olmSeen + 1..Len(olmInbox) : olmInbox[i].claim = d /\ olmInbox[i].n = k
      BY <1>1, <2>1 DEF NoneDropped, Pending
    <2>3. <<d, k>> # m
      BY <1>5, <2>1 DEF Handled
    <2>4. i # olmSeen + 1
      BY <1>3, <1>4, <2>2, <2>3
    <2>5. i \in olmSeen + 1 + 1..Len(olmInbox)
      BY <1>5, <2>2, <2>4
    <2> QED
      BY <1>2, <2>2, <2>5 DEF Pending
  <1>16. KeysSpent'
    <2>1. \A d \in Uncut : Spent(d) => keyOf[d] \notin accountFile.keys
      <3>1. \A d \in Uncut : keyOf[d] # Olm!None
        BY AccountsAre, <1>1 DEF Uncut, Olm!None
      <3> QED
        BY <1>12, <3>1 DEF Spent
    <2> QED
      BY <1>1, <1>2, <1>5, <1>7, <1>8, <2>1 DEF KeysSpent, Spent
  <1>17. ReadOnce'
    <2>1. \A i, j \in DOMAIN sessions :
             sessions[i].claim = sessions[j].claim /\ sessions[i].claim \in Uncut => i = j
      BY <1>1 DEF ReadOnce
    <2>2. \A i \in DOMAIN sessions : \A k \in Nat :
             sessions[i].claim \in Uncut /\ <<sessions[i].claim, k>> \in Done' \union Hand'
                 => k \in sessions[i].got
      BY <1>1, <1>5, <1>7 DEF ReadOnce
    <2>3. m[1] \in Uncut => m \notin Done
      BY <1>1, <1>5 DEF ReadOnce
    <2>4. ASSUME NEW i \in DOMAIN read', NEW j \in DOMAIN read', read'[i] = read'[j],
                 read'[i][1] \in Uncut
          PROVE  i = j
      <3>1. /\ Len(read) \in Nat /\ DOMAIN read = 1..Len(read) /\ DOMAIN read' = 1..Len(read) + 1
            /\ \A k \in DOMAIN read : read'[k] = read[k]
            /\ read'[Len(read) + 1] = m
        BY <1>5, <1>6, AppendIs, LenProperties
      <3>2. \A k \in DOMAIN read' : k \in DOMAIN read \/ k = Len(read) + 1
        BY <3>1
      <3>3. \A k \in DOMAIN read : read[k] \in Done
        BY DEF Done, Olm!Range
      <3>4. CASE i \in DOMAIN read /\ j \in DOMAIN read
        BY <1>1, <2>4, <3>1, <3>4 DEF ReadOnce
      <3>5. CASE i \notin DOMAIN read \/ j \notin DOMAIN read
        BY <2>3, <2>4, <3>1, <3>2, <3>3, <3>5
      <3> QED
        BY <3>4, <3>5
    <2> QED
      BY <1>2, <1>7, <1>8, <2>1, <2>2, <2>4 DEF ReadOnce
  <1> QED
    BY <1>10, <1>11, <1>12, <1>13, <1>14, <1>15, <1>16, <1>17 DEF OlmInv

LEMMA OlmSyncStep ==
    ASSUME OlmInv, Olm!Sync
    PROVE  OlmInv'
  <1>1. /\ OlmTypes /\ OnlySent /\ AccountSaved /\ KeysHeld
        /\ SessionsKept /\ NoneDropped /\ KeysSpent /\ ReadOnce
    BY DEF OlmInv
  <1>2. /\ UNCHANGED <<account, accountFile, server, sessions, read, cut, excused, keyOf, sent,
                       key, batch, nextKey, at>>
        /\ at = "idle" /\ olmSeen' = 0
        /\ olmInbox' = SubSeq(olmInbox, olmSeen + 1, Len(olmInbox))
        /\ count' = Olm!Cardinality(server)
    BY DEF Olm!Sync, Olm!accountVars, Olm!statusVars, Olm!ghosts
  <1>3. Hand = {} /\ Hand' = {}
    BY <1>2 DEF Hand
  <1>4. Done' = Done /\ Handled' = Handled /\ Uncut' = Uncut /\ Claims' = Claims
    BY <1>2, <1>3 DEF Done, Handled, Uncut, Claims
  <1>5. \A d : Begun(d)' <=> Begun(d)
    BY <1>4 DEF Begun
  <1>6. olmInbox \in Seq(Messages) /\ olmSeen \in Nat /\ olmSeen <= Len(olmInbox)
        /\ Len(olmInbox) \in Nat /\ DOMAIN olmInbox = 1..Len(olmInbox)
    <2>1. olmInbox \in Seq(Messages) /\ olmSeen \in 0..Len(olmInbox)
      BY <1>1 DEF OlmTypes
    <2> QED
      BY <2>1, LenProperties
  <1>7. /\ olmInbox' \in Seq(Messages) /\ Len(olmInbox') = Len(olmInbox) - olmSeen
        /\ \A i \in 1..Len(olmInbox) - olmSeen : olmInbox'[i] = olmInbox[olmSeen + i]
    <2>1. PICK b \in Nat : b = Len(olmInbox)
      BY <1>6
    <2>2. /\ SubSeq(olmInbox, olmSeen + 1, b) \in Seq(Messages)
          /\ Len(SubSeq(olmInbox, olmSeen + 1, b)) = b - olmSeen
          /\ \A i \in 1..b - olmSeen : SubSeq(olmInbox, olmSeen + 1, b)[i] = olmInbox[olmSeen + i]
      <3>1. /\ olmInbox \in Seq(Messages) /\ olmSeen \in Nat
            /\ olmSeen <= b /\ b <= Len(olmInbox)
        BY <1>6, <2>1
      <3>2. ASSUME NEW a \in Nat, a <= b
            PROVE  /\ SubSeq(olmInbox, a + 1, b) \in Seq(Messages)
                   /\ Len(SubSeq(olmInbox, a + 1, b)) = b - a
                   /\ \A i \in 1..b - a : SubSeq(olmInbox, a + 1, b)[i] = olmInbox[a + i]
        BY <3>1, <3>2, SubSeqIs
      <3> QED
        BY <3>1, <3>2, Zenon
    <2>3. olmInbox' = SubSeq(olmInbox, olmSeen + 1, b)
      BY <1>2, <2>1
    <2> QED
      BY <2>1, <2>2, <2>3
  <1>8. /\ DOMAIN olmInbox' = 1..Len(olmInbox) - olmSeen
        /\ \A i \in DOMAIN olmInbox' : olmSeen + i \in DOMAIN olmInbox
    BY <1>6, <1>7, LenProperties
  <1>9. OlmTypes'
    <2>1. count' \in Int
      <3>1. IsFiniteSet(1..nextKey - 1)
        BY <1>1, FS_Interval DEF OlmTypes
      <3>2. IsFiniteSet(server)
        BY <1>1, <3>1, FS_Subset DEF OlmTypes
      <3> QED
        BY <1>2, <3>2, FS_CardinalityType, OlmCardinality
    <2>2. olmSeen' \in 0..Len(olmInbox')
      <3>1. PICK b \in Nat : b = Len(olmInbox')
        BY <1>7, LenProperties
      <3>2. olmSeen' = 0
        BY <1>2
      <3> QED
        BY <3>1, <3>2
    <2> QED
      BY <1>1, <1>2, <1>7, <2>1, <2>2 DEF OlmTypes, Accounts, Claims
  <1>10. OnlySent'
    BY <1>1, <1>2, <1>4, <1>7, <1>8 DEF OnlySent
  <1>11. AccountSaved'
    BY <1>1, <1>2 DEF AccountSaved
  <1>12. KeysHeld'
    BY <1>1, <1>2, <1>4, <1>5 DEF KeysHeld
  <1>13. SessionsKept'
    <2>1. \A i \in DOMAIN olmInbox' :
             ~olmInbox'[i].preKey => \E n \in Nat : <<olmInbox'[i].claim, n>> \in Done
      BY <1>1, <1>7, <1>8 DEF SessionsKept
    <2> QED
      BY <1>1, <1>2, <1>4, <1>5, <2>1 DEF SessionsKept
  <1>14. NoneDropped'
    <2>1. SUFFICES ASSUME accountFile.own, NEW d \in Claims \ excused, NEW k \in 1..sent[d],
                          <<d, k>> \notin Handled
                   PROVE  Pending(d, k)'
      BY <1>2, <1>4 DEF NoneDropped
    <2>2. PICK i \in olmSeen + 1..Len(olmInbox) : olmInbox[i].claim = d /\ olmInbox[i].n = k
      BY <1>1, <2>1 DEF NoneDropped, Pending
    <2>3. PICK j \in 1..Len(olmInbox) - olmSeen : i = olmSeen + j
      BY <1>6, <2>2
    <2>4. j \in olmSeen' + 1..Len(olmInbox') /\ olmInbox'[j] = olmInbox[i]
      BY <1>2, <1>7, <2>3
    <2> QED
      BY <2>2, <2>4 DEF Pending
  <1>15. KeysSpent' /\ ReadOnce'
    BY <1>1, <1>2, <1>3, <1>4 DEF KeysSpent, Spent, ReadOnce
  <1> QED
    BY <1>9, <1>10, <1>11, <1>12, <1>13, <1>14, <1>15 DEF OlmInv

LEMMA ClaimStep ==
    ASSUME OlmInv, Olm!Claim
    PROVE  OlmInv'
  <1>1. /\ OlmTypes /\ OnlySent /\ AccountSaved /\ KeysHeld
        /\ SessionsKept /\ NoneDropped /\ KeysSpent /\ ReadOnce
    BY DEF OlmInv
  <1>2. PICK k \in server :
            /\ server' = server \ {k} /\ keyOf' = Append(keyOf, k)
            /\ excused' = excused \union {c \in DOMAIN keyOf' : k \in Olm!Range(keyOf) /\ keyOf'[c] = k}
    BY DEF Olm!Claim
  <1>3. /\ UNCHANGED <<account, accountFile, sessions, read, cut, olmInbox, olmSeen, key, batch,
                       count, nextKey, at>>
        /\ sent' = Append(sent, 0)
    BY DEF Olm!Claim, Olm!accountVars
  <1>4. PICK new \in Nat : new = Len(keyOf) + 1
    BY <1>1, LenProperties DEF OlmTypes
  <1>5. k \in Nat /\ k \in 1..nextKey - 1
    BY <1>1, <1>2 DEF OlmTypes
  <1>6. /\ keyOf' \in Seq(Nat) /\ Len(keyOf') = Len(keyOf) + 1
        /\ Claims' = Claims \union {new} /\ new \notin Claims
        /\ \A c \in Claims : keyOf'[c] = keyOf[c]
        /\ keyOf'[new] = k
    <2>1. keyOf \in Seq(Nat) /\ Len(keyOf) \in Nat /\ Claims = 1..Len(keyOf)
      BY <1>1, LenProperties DEF OlmTypes, Claims
    <2>2. /\ keyOf' \in Seq(Nat) /\ Len(keyOf') = Len(keyOf) + 1
          /\ Claims' = 1..Len(keyOf) + 1
          /\ \A c \in Claims : keyOf'[c] = keyOf[c]
          /\ keyOf'[Len(keyOf) + 1] = k
      BY <1>2, <1>5, <2>1, AppendIs DEF Claims
    <2>3. 1..Len(keyOf) + 1 = 1..Len(keyOf) \union {new} /\ new \notin 1..Len(keyOf)
      BY <1>4, <2>1
    <2> QED
      BY <1>4, <2>1, <2>2, <2>3
  <1>7. /\ sent' \in Seq(Nat) /\ Len(sent') = Len(keyOf')
        /\ \A c \in Claims : sent'[c] = sent[c]
        /\ sent'[new] = 0
    <2>1. sent \in Seq(Nat) /\ Len(sent) = Len(keyOf) /\ DOMAIN sent = Claims /\ Len(sent) \in Nat
      BY <1>1, LenProperties DEF OlmTypes, Claims
    <2>2. /\ sent' \in Seq(Nat) /\ Len(sent') = Len(sent) + 1
          /\ \A c \in Claims : sent'[c] = sent[c]
          /\ sent'[Len(sent) + 1] = 0
      BY <1>3, <2>1, AppendIs
    <2> QED
      BY <1>4, <1>6, <2>1, <2>2
  <1>8. Hand' = Hand /\ Done' = Done /\ Handled' = Handled
    BY <1>3 DEF Hand, Done, Handled
  <1>9. /\ excused \subseteq excused'
        /\ \A c, d \in Claims' : c # d /\ keyOf'[c] = k /\ keyOf'[d] = k => c \in excused'
    <2>1. \A c \in Claims : keyOf[c] \in Olm!Range(keyOf)
      BY DEF Claims, Olm!Range
    <2>2. \A c, d \in Claims' : c # d => c \in Claims \/ d \in Claims
      BY <1>6
    <2> QED
      BY <1>2, <1>6, <2>1, <2>2 DEF Claims
  <1>10. \A c : Begun(c)' <=> Begun(c)
    BY <1>8 DEF Begun
  <1>11. /\ \A n \in Nat : <<new, n>> \notin Handled
         /\ \A i \in DOMAIN sessions : sessions[i].claim # new
    <2>1. \A m \in Handled : m[1] # new
      BY <1>6, HandledWereSent
    <2>2. new # Olm!None
      BY <1>4 DEF Olm!None
    <2> QED
      BY <1>1, <1>6, <2>1, <2>2 DEF OnlySent
  <1>12. Uncut' \subseteq Uncut \union {new}
    BY <1>3, <1>6 DEF Uncut
  <1>13. OlmTypes'
    BY <1>1, <1>2, <1>3, <1>5, <1>6, <1>7 DEF OlmTypes, Accounts
  <1>14. OnlySent'
    BY <1>1, <1>3, <1>6, <1>7, <1>8 DEF OnlySent
  <1>15. AccountSaved'
    <2>1. at \in {"saving", "decrypted"} => olmInbox[olmSeen + 1].claim \in Claims
      BY <1>1, NextMessageIs DEF AccountSaved
    <2> QED
      BY <1>1, <1>3, <1>6, <2>1 DEF AccountSaved
  <1>16. KeysHeld'
    <2>1. Olm!Range(keyOf') = Olm!Range(keyOf) \union {k}
      BY <1>1, <1>2, <1>5, RangeOfAppend DEF OlmTypes
    <2>2. \A j \in server' \union Olm!Range(keyOf') : j \in server \union Olm!Range(keyOf)
      BY <1>2, <2>1
    <2> QED
      BY <1>1, <1>3, <1>6, <1>9, <1>10, <2>2 DEF KeysHeld
  <1>17. SessionsKept'
    <2>1. \A c \in Claims' \ excused' : Begun(c) => \E i \in DOMAIN sessions : sessions[i].claim = c
      <3>1. ~Begun(new)
        BY <1>11 DEF Begun
      <3> QED
        BY <1>1, <1>6, <1>9, <3>1 DEF SessionsKept
    <2>2. \A c, d \in Claims' : c # d /\ keyOf'[c] = keyOf'[d] => c \in excused'
      BY <1>1, <1>6, <1>9 DEF SessionsKept
    <2> QED
      BY <1>1, <1>3, <1>8, <1>10, <2>1, <2>2 DEF SessionsKept
  <1>18. NoneDropped'
    <2>1. \A c, n : Pending(c, n)' <=> Pending(c, n)
      BY <1>3 DEF Pending
    <2>2. \A n \in 1..sent'[new] : FALSE
      BY <1>7
    <2>3. SUFFICES ASSUME accountFile.own, NEW c \in Claims' \ excused', NEW n \in 1..sent'[c]
                   PROVE  <<c, n>> \in Handled \/ Pending(c, n)
      BY <1>3, <1>8, <2>1, Zenon DEF NoneDropped
    <2>4. c \in Claims \ excused /\ n \in 1..sent[c]
      BY <1>6, <1>7, <1>9, <2>2, <2>3
    <2> QED
      BY <1>1, <2>3, <2>4 DEF NoneDropped
  <1>19. KeysSpent'
    <2>1. SUFFICES ASSUME NEW c \in Uncut'
                   PROVE  \/ Spent(c)'
                          \/ /\ \A i \in DOMAIN sessions : sessions[i].claim # c
                             /\ \A n \in Nat : <<c, n>> \notin Done \union Hand
      BY <1>3, <1>8 DEF KeysSpent
    <2>2. CASE c = new
      BY <1>11, <2>2 DEF Handled
    <2>3. CASE c \in Uncut
      <3>1. keyOf'[c] = keyOf[c]
        BY <1>6, <2>3 DEF Uncut
      <3>2. Spent(c) => Spent(c)'
        BY <1>3, <1>8, <3>1 DEF Spent
      <3> QED
        BY <1>1, <2>3, <3>2 DEF KeysSpent
    <2> QED
      BY <1>12, <2>1, <2>2, <2>3
  <1>20. ReadOnce'
    <2>1. /\ \A i \in DOMAIN sessions : sessions[i].claim \in Uncut' => sessions[i].claim \in Uncut
          /\ \A m \in Done \union Hand : m[1] \in Uncut' => m[1] \in Uncut
      <3>1. \A m \in Done \union Hand : m[1] # new
        BY <1>6, HandledWereSent DEF Handled
      <3> QED
        BY <1>11, <1>12, <3>1
    <2>2. \A i \in DOMAIN read : read[i][1] \in Uncut' => read[i][1] \in Uncut
      BY <2>1 DEF Done, Olm!Range
    <2> QED
      BY <1>1, <1>3, <1>8, <2>1, <2>2 DEF ReadOnce
  <1> QED
    BY <1>13, <1>14, <1>15, <1>16, <1>17, <1>18, <1>19, <1>20 DEF OlmInv

LEMMA SendMessageStep ==
    ASSUME OlmInv, Olm!SendMessage
    PROVE  OlmInv'
  <1>1. /\ OlmTypes /\ OnlySent /\ AccountSaved /\ KeysHeld
        /\ SessionsKept /\ NoneDropped /\ KeysSpent /\ ReadOnce
    BY DEF OlmInv
  <1>2. PICK c \in DOMAIN keyOf :
            /\ sent' = [sent EXCEPT ![c] = @ + 1]
            /\ \E preKey \in {TRUE} \union {\A i \in DOMAIN read : read[i][1] # c} :
                   olmInbox' = Append(olmInbox, [claim |-> c, n |-> sent[c] + 1, preKey |-> preKey])
            /\ UNCHANGED <<account, accountFile, server, sessions, read, cut, excused, keyOf, olmSeen,
                           key, batch, count, nextKey, at>>
    BY DEF Olm!SendMessage, Olm!accountVars, Olm!ghosts
  <1>3. PICK preKey \in BOOLEAN :
            /\ olmInbox' = Append(olmInbox, [claim |-> c, n |-> sent[c] + 1, preKey |-> preKey])
            /\ ~preKey => \E i \in DOMAIN read : read[i][1] = c
    <2>1. PICK preKey \in {TRUE} \union {\A i \in DOMAIN read : read[i][1] # c} :
              olmInbox' = Append(olmInbox, [claim |-> c, n |-> sent[c] + 1, preKey |-> preKey])
      BY <1>2
    <2>2. preKey \in BOOLEAN /\ (~preKey => \E i \in DOMAIN read : read[i][1] = c)
      BY <2>1
    <2> QED
      BY <2>1, <2>2
  <1>4. /\ sent \in Seq(Nat) /\ Len(sent) \in Nat /\ DOMAIN sent = Claims /\ c \in Claims
        /\ c \in Nat /\ sent[c] \in Nat
    <2>1. sent \in Seq(Nat) /\ Len(sent) = Len(keyOf) /\ keyOf \in Seq(Nat) /\ c \in Claims
      BY <1>1 DEF OlmTypes, Claims
    <2>2. /\ DOMAIN sent = 1..Len(sent) /\ Len(sent) \in Nat
          /\ \A d \in 1..Len(sent) : sent[d] \in Nat
          /\ Claims = 1..Len(keyOf)
      BY <2>1, LenProperties DEF Claims
    <2> QED
      BY <2>1, <2>2
  <1>5. /\ sent' \in Seq(Nat) /\ Len(sent') = Len(sent) /\ sent'[c] = sent[c] + 1
        /\ \A d \in Claims : d # c => sent'[d] = sent[d]
        /\ \A d \in Claims : 1..sent[d] \subseteq 1..sent'[d]
    <2>1. sent[c] + 1 \in Nat
      BY <1>4
    <2>2. sent' \in Seq(Nat) /\ Len(sent') = Len(sent)
      BY <1>2, <1>4, <2>1, ExceptSeq
    <2>3. sent'[c] = sent[c] + 1 /\ \A d \in Claims : d # c => sent'[d] = sent[d]
      BY <1>2, <1>4
    <2>4. 1..sent[c] \subseteq 1..sent[c] + 1
      BY <1>4
    <2> QED
      BY <2>2, <2>3, <2>4
  <1>6. PICK m \in Messages : m = [claim |-> c, n |-> sent[c] + 1, preKey |-> preKey]
    <2>1. sent[c] + 1 \in Nat
      BY <1>4
    <2>2. [claim |-> c, n |-> sent[c] + 1, preKey |-> preKey] \in Messages
      BY <1>4, <2>1 DEF Messages
    <2> QED
      BY <2>2
  <1>7. /\ olmInbox' \in Seq(Messages) /\ Len(olmInbox) \in Nat
        /\ Len(olmInbox') = Len(olmInbox) + 1 /\ DOMAIN olmInbox = 1..Len(olmInbox)
        /\ DOMAIN olmInbox' = 1..Len(olmInbox) + 1
        /\ \A i \in DOMAIN olmInbox : olmInbox'[i] = olmInbox[i]
        /\ olmInbox'[Len(olmInbox) + 1] = m
        /\ olmSeen \in Nat /\ olmSeen <= Len(olmInbox)
    <2>1. olmInbox \in Seq(Messages) /\ olmSeen \in 0..Len(olmInbox) /\ Len(olmInbox) \in Nat
          /\ DOMAIN olmInbox = 1..Len(olmInbox)
      BY <1>1, LenProperties DEF OlmTypes
    <2>2. olmInbox' = Append(olmInbox, m)
      BY <1>3, <1>6
    <2> QED
      BY <2>1, <2>2, AppendIs
  <1>8. \A i \in DOMAIN olmInbox' : i \in DOMAIN olmInbox \/ i = Len(olmInbox) + 1
    BY <1>7
  <1>9. at \in {"saving", "decrypted"} => olmInbox'[olmSeen + 1] = olmInbox[olmSeen + 1]
    BY <1>1, <1>7, NextMessageIs DEF AccountSaved
  <1>10. Hand' = Hand /\ Done' = Done /\ Handled' = Handled /\ Uncut' = Uncut /\ Claims' = Claims
    BY <1>2, <1>9 DEF Hand, Done, Handled, Uncut, Claims
  <1>11. \A d : Begun(d)' <=> Begun(d)
    BY <1>10 DEF Begun
  <1>12. OlmTypes'
    <2>1. olmSeen' \in 0..Len(olmInbox')
      BY <1>2, <1>7
    <2> QED
      BY <1>1, <1>2, <1>5, <1>7, <1>10, <2>1 DEF OlmTypes, Accounts
  <1>13. OnlySent'
    <2>1. m.claim = c /\ m.n = sent[c] + 1 /\ m.n \in 1..sent'[c]
      BY <1>4, <1>5, <1>6
    <2>2. \A i \in DOMAIN olmInbox' :
             olmInbox'[i].claim \in Claims /\ olmInbox'[i].n \in 1..sent'[olmInbox'[i].claim]
      BY <1>1, <1>4, <1>5, <1>7, <1>8, <2>1 DEF OnlySent
    <2>3. \A k \in Done \union cut : k[1] \in Claims /\ k[2] \in 1..sent'[k[1]]
      BY <1>1, <1>5 DEF OnlySent
    <2> QED
      BY <1>1, <1>2, <1>10, <2>2, <2>3 DEF OnlySent
  <1>14. AccountSaved'
    <2>1. at \in {"saving", "decrypted"} => olmSeen < Len(olmInbox')
      BY <1>1, <1>7 DEF AccountSaved
    <2> QED
      BY <1>1, <1>2, <1>9, <2>1 DEF AccountSaved
  <1>15. KeysHeld'
    BY <1>1, <1>2, <1>10, <1>11 DEF KeysHeld
  <1>16. SessionsKept'
    <2>1. ~preKey => \E n \in Nat : <<c, n>> \in Done
      <3>1. \A i \in DOMAIN read : read[i] \in Done /\ read[i] \in Nat \X Nat
        BY <1>1, LenProperties DEF OlmTypes, Done, Olm!Range
      <3>2. SUFFICES ASSUME ~preKey
                     PROVE  \E n \in Nat : <<c, n>> \in Done
        OBVIOUS
      <3>3. PICK i \in DOMAIN read : read[i][1] = c
        BY <1>3, <3>2
      <3>4. PICK r : r = read[i]
        OBVIOUS
      <3>5. r \in Nat \X Nat /\ r \in Done /\ r[1] = c
        BY <3>1, <3>3, <3>4
      <3>6. r = <<c, r[2]>> /\ r[2] \in Nat
        BY <3>5
      <3> QED
        BY <3>5, <3>6
    <2>2. m.claim = c /\ m.preKey = preKey
      BY <1>6
    <2>3. \A i \in DOMAIN olmInbox' :
             ~olmInbox'[i].preKey => \E n \in Nat : <<olmInbox'[i].claim, n>> \in Done
      BY <1>1, <1>7, <1>8, <2>1, <2>2 DEF SessionsKept
    <2> QED
      BY <1>1, <1>2, <1>10, <1>11, <2>3 DEF SessionsKept
  <1>17. NoneDropped'
    <2>1. SUFFICES ASSUME accountFile.own, NEW d \in Claims \ excused, NEW k \in 1..sent'[d],
                          <<d, k>> \notin Handled
                   PROVE  Pending(d, k)'
      BY <1>2, <1>10 DEF NoneDropped
    <2>2. CASE k \in 1..sent[d]
      <3>1. PICK i \in olmSeen + 1..Len(olmInbox) : olmInbox[i].claim = d /\ olmInbox[i].n = k
        BY <1>1, <2>1, <2>2 DEF NoneDropped, Pending
      <3>2. i \in olmSeen' + 1..Len(olmInbox') /\ olmInbox'[i] = olmInbox[i]
        BY <1>2, <1>7, <3>1
      <3> QED
        BY <3>1, <3>2 DEF Pending
    <2>3. CASE k \notin 1..sent[d]
      <3>1. d = c
        BY <1>5, <2>1, <2>3
      <3>2. k = sent[c] + 1
        BY <1>4, <1>5, <2>1, <2>3, <3>1
      <3>3. Len(olmInbox) + 1 \in olmSeen' + 1..Len(olmInbox')
        BY <1>2, <1>7
      <3> QED
        BY <1>6, <1>7, <3>1, <3>2, <3>3 DEF Pending
    <2> QED
      BY <2>2, <2>3
  <1>18. KeysSpent' /\ ReadOnce'
    BY <1>1, <1>2, <1>10 DEF KeysSpent, Spent, ReadOnce
  <1> QED
    BY <1>12, <1>13, <1>14, <1>15, <1>16, <1>17, <1>18 DEF OlmInv

(* The end of the program: what was in hand is cut short.                  *)
LEMMA OlmCrashStep ==
    ASSUME OlmInv, Olm!Crash
    PROVE  OlmInv'
  <1>1. /\ OlmTypes /\ OnlySent /\ AccountSaved /\ KeysHeld
        /\ SessionsKept /\ NoneDropped /\ KeysSpent /\ ReadOnce
    BY DEF OlmInv
  <1>2. /\ UNCHANGED <<server, read, keyOf, sent, olmInbox, nextKey>>
        /\ cut' = cut \union Hand
        /\ at' = "down" /\ account' = Olm!NewAccount
        /\ batch' = {} /\ key' = Olm!None /\ count' = Olm!None /\ olmSeen' = 0
    BY DEF Olm!Crash, Olm!statusVars, Olm!peerVars, Olm!Message, Hand
  <1>3. accountFile' = accountFile \/ (accountFile' = Olm!Torn /\ ~accountFile'.own)
    BY <1>1, AccountsAre DEF Olm!Crash
  <1>4. \/ sessions' = sessions /\ excused' = excused
        \/ /\ sessions' = <<>> \/ sessions' = Olm!Broken
           /\ excused' = excused \union {sessions[i].claim : i \in DOMAIN sessions}
    BY DEF Olm!Crash
  <1>5. Hand' = {} /\ Done' = Done /\ Handled' = Handled /\ Claims' = Claims
    BY <1>2 DEF Hand, Done, Handled, Claims
  <1>6. \A d : Begun(d)' <=> Begun(d)
    BY <1>5 DEF Begun
  <1>7. Uncut' \subseteq Uncut /\ \A d \in Uncut' : \A n : <<d, n>> \notin Hand
    BY <1>2 DEF Uncut, Claims
  <1>8. /\ sessions' \in Seq(Entries)
        /\ \A i \in DOMAIN sessions' :
              \/ sessions' = sessions
              \/ sessions'[i].claim = Olm!None /\ sessions'[i].got = {}
    <2>1. CASE sessions' = <<>>
      BY <2>1, EmptySeq
    <2>2. CASE sessions' = Olm!Broken
      <3>1. Olm!Broken = <<[claim |-> -1, got |-> {}]>>
        BY DEF Olm!Broken, Olm!None
      <3> QED
        BY <2>2, <3>1 DEF Entries, Olm!None
    <2> QED
      BY <1>1, <1>4, <2>1, <2>2 DEF OlmTypes
  <1>9. OlmTypes'
    <2>1. Olm!NewAccount \in Accounts /\ Olm!Torn \in Accounts
      BY <1>1, AccountsAre
    <2>2. Len(olmInbox) \in Nat /\ 0 \in 0..Len(olmInbox)
      BY <1>1, LenProperties DEF OlmTypes
    <2>3. cut' \subseteq Nat \X Nat
      <3>1. Hand \subseteq Nat \X Nat
        <4>1. CASE at \in {"saving", "decrypted"}
          BY <4>1, HandIs
        <4> QED
          BY <4>1 DEF Hand
      <3> QED
        BY <1>1, <1>2, <3>1 DEF OlmTypes
    <2>4. count' \in Int /\ key' \in Int
      BY <1>2 DEF Olm!None
    <2> QED
      BY <1>1, <1>2, <1>3, <1>5, <1>8, <2>1, <2>2, <2>3, <2>4 DEF OlmTypes, Accounts
  <1>10. OnlySent'
    <2>1. \A m \in Done \union cut' : m[1] \in Claims /\ m[2] \in 1..sent[m[1]]
      BY <1>2, HandledWereSent DEF Handled
    <2>2. \A i \in DOMAIN sessions' : sessions'[i].claim \in Claims \union {Olm!None}
      BY <1>1, <1>8 DEF OnlySent
    <2> QED
      BY <1>1, <1>2, <1>5, <2>1, <2>2 DEF OnlySent
  <1>11. AccountSaved'
    <2>1. /\ Olm!NewAccount.unpublished \subseteq Olm!NewAccount.keys
          /\ Olm!Torn.unpublished \subseteq Olm!Torn.keys
      BY DEF Olm!NewAccount, Olm!Blank, Olm!Torn
    <2> QED
      BY <1>1, <1>2, <1>3, <2>1 DEF AccountSaved
  <1>12. KeysHeld'
    BY <1>1, <1>2, <1>3, <1>4, <1>5, <1>6 DEF KeysHeld
  <1>13. SessionsKept'
    <2>1. \A c \in Claims \ excused' : Begun(c) => \E i \in DOMAIN sessions' : sessions'[i].claim = c
      BY <1>1, <1>4 DEF SessionsKept
    <2>2. \A i \in DOMAIN sessions' : \A n \in sessions'[i].got : <<sessions'[i].claim, n>> \in Handled
      BY <1>1, <1>8 DEF SessionsKept
    <2>3. \A c, d \in Claims : c # d /\ keyOf[c] = keyOf[d] => c \in excused'
      BY <1>1, <1>4 DEF SessionsKept
    <2> QED
      BY <1>1, <1>2, <1>5, <1>6, <2>1, <2>2, <2>3 DEF SessionsKept
  <1>14. NoneDropped'
    <2>1. SUFFICES ASSUME accountFile.own, NEW d \in Claims \ excused, NEW k \in 1..sent[d],
                          <<d, k>> \notin Handled
                   PROVE  Pending(d, k)'
      BY <1>2, <1>3, <1>4, <1>5 DEF NoneDropped
    <2>2. PICK i \in olmSeen + 1..Len(olmInbox) : olmInbox[i].claim = d /\ olmInbox[i].n = k
      BY <1>1, <2>1 DEF NoneDropped, Pending
    <2>3. olmSeen \in Nat /\ Len(olmInbox) \in Nat
      BY <1>1, LenProperties DEF OlmTypes
    <2>4. i \in olmSeen' + 1..Len(olmInbox')
      BY <1>2, <2>2, <2>3
    <2> QED
      BY <1>2, <2>2, <2>4 DEF Pending
  <1>15. KeysSpent'
    <2>1. SUFFICES ASSUME NEW c \in Uncut'
                   PROVE  \/ keyOf[c] \notin accountFile'.keys
                          \/ /\ \A i \in DOMAIN sessions' : sessions'[i].claim # c
                             /\ \A n \in Nat : <<c, n>> \notin Done
      BY <1>2, <1>5 DEF KeysSpent, Spent
    <2>2. c \in Uncut /\ keyOf[c] \in Nat /\ c \in Nat
      BY <1>1, <1>7, AccountsAre DEF Uncut
    <2>3. CASE Spent(c)
      <3>1. keyOf[c] \notin accountFile.keys
        BY <1>7, <2>1, <2>3 DEF Spent
      <3>2. keyOf[c] \notin Olm!Torn.keys
        BY <1>1, AccountsAre
      <3> QED
        BY <1>3, <3>1, <3>2
    <2>4. CASE ~Spent(c)
      <3>1. c # Olm!None
        BY <2>2 DEF Olm!None
      <3> QED
        BY <1>1, <1>8, <2>2, <2>4, <3>1 DEF KeysSpent
    <2> QED
      BY <2>3, <2>4
  <1>16. ReadOnce'
    <2>1. \A c \in Uncut' : c # Olm!None
      BY <1>1, <1>7, AccountsAre DEF Uncut, Olm!None
    <2>2. \A i \in DOMAIN sessions' : sessions'[i].claim \in Uncut' => sessions' = sessions
      BY <1>8, <2>1
    <2> QED
      BY <1>1, <1>2, <1>5, <1>7, <2>2 DEF ReadOnce
  <1> QED
    BY <1>9, <1>10, <1>11, <1>12, <1>13, <1>14, <1>15, <1>16 DEF OlmInv

(* The session that was used comes first: t is s without its old place,    *)
(* or, if it is new and old is 0, without those that no longer fit.        *)
Was(old, k) == IF k <= old \/ old = 0 THEN k - 1 ELSE k

Moved(s, t, old) ==
    /\ t \in Seq(Entries) /\ 1 \in DOMAIN t
    /\ \A k \in DOMAIN t \ {1} :
          Was(old, k) \in DOMAIN s \ {old} /\ t[k] = s[Was(old, k)]
    /\ \A k, l \in DOMAIN t \ {1} : Was(old, k) = Was(old, l) => k = l
    /\ \A j \in DOMAIN s \ {old} : old # 0 \/ j < OtkCapacity =>
          \E k \in DOMAIN t \ {1} : Was(old, k) = j

LEMMA FirstIs ==
    ASSUME NEW S, NEW e \in S, NEW r \in Seq(S)
    PROVE  /\ <<e>> \o r \in Seq(S) /\ DOMAIN (<<e>> \o r) = 1..Len(r) + 1
           /\ (<<e>> \o r)[1] = e
           /\ \A k \in DOMAIN (<<e>> \o r) \ {1} : k - 1 \in 1..Len(r) /\ (<<e>> \o r)[k] = r[k - 1]
  <1>1. <<e>> \in Seq(S) /\ Len(<<e>>) = 1 /\ <<e>>[1] = e /\ Len(r) \in Nat
    BY LenProperties
  <1>2. /\ <<e>> \o r \in Seq(S) /\ Len(<<e>> \o r) = 1 + Len(r)
        /\ \A i \in 1..1 + Len(r) : (<<e>> \o r)[i] = IF i <= 1 THEN <<e>>[i] ELSE r[i - 1]
    BY <1>1, ConcatProperties
  <1>3. DOMAIN (<<e>> \o r) = 1..Len(r) + 1
    BY <1>1, <1>2, LenProperties
  <1>4. (<<e>> \o r)[1] = e
    BY <1>1, <1>2
  <1>5. ASSUME NEW k \in (1..Len(r) + 1) \ {1}
        PROVE  k - 1 \in 1..Len(r) /\ (<<e>> \o r)[k] = r[k - 1]
    BY <1>1, <1>2
  <1> QED
    BY <1>2, <1>3, <1>4, <1>5

LEMMA RemoveAtIs ==
    ASSUME NEW S, NEW s \in Seq(S), NEW i \in 1..Len(s), NEW r, r = Olm!RemoveAt(s, i)
    PROVE  /\ r \in Seq(S) /\ Len(r) = Len(s) - 1
           /\ \A k \in 1..Len(s) - 1 : r[k] = IF k < i THEN s[k] ELSE s[k + 1]
  <1>1. Len(s) \in Nat /\ i \in Nat /\ 1 <= i /\ i <= Len(s)
    BY LenProperties
  <1>2. PICK h \in Nat : h = i - 1
    BY <1>1
  <1>3. PICK n \in Nat : n = Len(s)
    BY <1>1
  <1>4. PICK a, b : a = SubSeq(s, 0 + 1, h) /\ b = SubSeq(s, i + 1, n)
    OBVIOUS
  <1>5. r = a \o b
    BY <1>2, <1>3, <1>4 DEF Olm!RemoveAt
  <1>6. a \in Seq(S) /\ Len(a) = h /\ \A k \in 1..h : a[k] = s[k]
    <2>1. h <= Len(s) /\ 0 <= h
      BY <1>1, <1>2
    <2>2. a \in Seq(S) /\ Len(a) = h - 0 /\ \A k \in 1..h - 0 : a[k] = s[0 + k]
      BY <1>4, <2>1, SubSeqIs
    <2> QED
      BY <2>2
  <1>7. b \in Seq(S) /\ Len(b) = n - i /\ \A k \in 1..n - i : b[k] = s[i + k]
    BY <1>1, <1>3, <1>4, SubSeqIs
  <1>8. /\ r \in Seq(S) /\ Len(r) = h + (n - i)
        /\ \A k \in 1..h + (n - i) : r[k] = IF k <= h THEN a[k] ELSE b[k - h]
    <2>1. /\ a \o b \in Seq(S) /\ Len(a \o b) = Len(a) + Len(b)
          /\ \A k \in 1..Len(a) + Len(b) : (a \o b)[k] = IF k <= Len(a) THEN a[k] ELSE b[k - Len(a)]
      BY <1>6, <1>7, ConcatProperties
    <2>2. Len(a) = h /\ Len(b) = n - i
      BY <1>6, <1>7
    <2> QED
      BY <1>5, <2>1, <2>2
  <1>9. h + (n - i) = n - 1
    BY <1>1, <1>2
  <1>10. ASSUME NEW k \in 1..n - 1
         PROVE  r[k] = IF k < i THEN s[k] ELSE s[k + 1]
    <2>1. CASE k < i
      <3>1. k \in 1..h /\ k <= h
        BY <1>1, <1>2, <2>1
      <3> QED
        BY <1>6, <1>8, <1>9, <2>1, <3>1
    <2>2. CASE ~(k < i)
      <3>1. ~(k <= h) /\ k - h \in 1..n - i /\ i + (k - h) = k + 1
        BY <1>1, <1>2, <2>2
      <3>2. r[k] = b[k - h]
        BY <1>8, <1>9, <3>1
      <3>3. b[k - h] = s[k + 1]
        BY <1>7, <3>1
      <3> QED
        BY <2>2, <3>2, <3>3
    <2> QED
      BY <2>1, <2>2
  <1> QED
    BY <1>3, <1>8, <1>9, <1>10

LEMMA LatestMoves ==
    ASSUME sessions \in Seq(Entries), NEW i \in DOMAIN sessions, NEW one \in Entries,
           NEW t, t = Olm!Latest(i, one)
    PROVE  /\ Moved(sessions, t, i)
           /\ t[1].claim = sessions[i].claim /\ t[1].got = one.got \union sessions[i].got
  <1>1. Len(sessions) \in Nat /\ DOMAIN sessions = 1..Len(sessions) /\ sessions[i] \in Entries
        /\ i \in Nat /\ i # 0
    BY LenProperties
  <1>2. PICK e : e = [sessions[i] EXCEPT !.got = one.got \union @]
    OBVIOUS
  <1>3. e \in Entries /\ e.claim = sessions[i].claim /\ e.got = one.got \union sessions[i].got
    BY <1>1, <1>2 DEF Entries
  <1>4. PICK r : r = Olm!RemoveAt(sessions, i)
    OBVIOUS
  <1>5. PICK n \in Nat : n = Len(sessions)
    BY <1>1
  <1>6. /\ r \in Seq(Entries) /\ Len(r) = n - 1
        /\ \A k \in 1..n - 1 : r[k] = IF k < i THEN sessions[k] ELSE sessions[k + 1]
    <2>1. /\ r \in Seq(Entries) /\ Len(r) = Len(sessions) - 1
          /\ \A k \in 1..Len(sessions) - 1 : r[k] = IF k < i THEN sessions[k] ELSE sessions[k + 1]
      <3>1. i \in 1..Len(sessions)
        BY <1>1
      <3> QED
        BY <1>4, <3>1, RemoveAtIs
    <2> QED
      BY <1>5, <2>1
  <1>7. t = <<e>> \o r
    BY <1>2, <1>4 DEF Olm!Latest
  <1>8. /\ t \in Seq(Entries) /\ DOMAIN t = 1..Len(r) + 1 /\ t[1] = e
        /\ \A k \in DOMAIN t \ {1} : k - 1 \in 1..Len(r) /\ t[k] = r[k - 1]
    BY <1>3, <1>6, <1>7, FirstIs
  <1>9. DOMAIN t = 1..n
    BY <1>6, <1>8
  <1>10. ASSUME NEW k \in DOMAIN t \ {1}
         PROVE  Was(i, k) \in DOMAIN sessions \ {i} /\ t[k] = sessions[Was(i, k)]
    <2>1. k \in 1..n /\ k # 1 /\ k - 1 \in 1..n - 1 /\ t[k] = r[k - 1]
      BY <1>6, <1>8, <1>9
    <2>2. CASE k <= i
      <3>1. Was(i, k) = k - 1 /\ k - 1 < i /\ k - 1 \in 1..n /\ k - 1 # i
        BY <1>1, <2>1, <2>2 DEF Was
      <3> QED
        BY <1>1, <1>5, <1>6, <2>1, <3>1
    <2>3. CASE ~(k <= i)
      <3>1. Was(i, k) = k /\ ~(k - 1 < i) /\ k # i /\ k - 1 + 1 = k
        BY <1>1, <2>1, <2>3 DEF Was
      <3> QED
        BY <1>1, <1>5, <1>6, <2>1, <3>1
    <2> QED
      BY <2>2, <2>3
  <1>11. \A k, l \in DOMAIN t \ {1} : Was(i, k) = Was(i, l) => k = l
    <2>1. \A k, l \in (1..n) \ {1} : Was(i, k) = Was(i, l) => k = l
      BY <1>1 DEF Was
    <2> QED
      BY <1>9, <2>1
  <1>12. ASSUME NEW j \in DOMAIN sessions \ {i}
         PROVE  \E k \in DOMAIN t \ {1} : Was(i, k) = j
    <2>1. CASE j < i
      <3>1. j + 1 \in (1..n) \ {1} /\ Was(i, j + 1) = j
        BY <1>1, <1>5, <2>1 DEF Was
      <3> QED
        BY <1>9, <3>1
    <2>2. CASE ~(j < i)
      <3>1. j \in (1..n) \ {1} /\ Was(i, j) = j
        BY <1>1, <1>5, <1>12, <2>2 DEF Was
      <3> QED
        BY <1>9, <3>1
    <2> QED
      BY <2>1, <2>2
  <1>13. 1 \in DOMAIN t
    BY <1>1, <1>5, <1>9
  <1> QED
    BY <1>3, <1>8, <1>10, <1>11, <1>12, <1>13 DEF Moved

LEMMA WithNewMoves ==
    ASSUME sessions \in Seq(Entries), NEW one \in Entries, NEW t, t = Olm!WithNew(one)
    PROVE  Moved(sessions, t, 0) /\ t[1] = one
  <1>1. Len(sessions) \in Nat /\ DOMAIN sessions = 1..Len(sessions)
    BY LenProperties
  <1>2. PICK b : b = IF Len(sessions) < OtkCapacity THEN Len(sessions) ELSE OtkCapacity - 1
    OBVIOUS
  <1>3. b \in Nat /\ b <= Len(sessions) /\ \A j \in 1..Len(sessions) : j < OtkCapacity => j <= b
    BY <1>1, <1>2, OlmAssumption
  <1>4. PICK r : r = SubSeq(sessions, 0 + 1, b)
    OBVIOUS
  <1>5. r \in Seq(Entries) /\ Len(r) = b /\ \A k \in 1..b : r[k] = sessions[k]
    <2>1. 0 <= b
      BY <1>3
    <2>2. r \in Seq(Entries) /\ Len(r) = b - 0 /\ \A k \in 1..b - 0 : r[k] = sessions[0 + k]
      BY <1>3, <1>4, <2>1, SubSeqIs
    <2> QED
      BY <1>3, <2>2
  <1>6. t = <<one>> \o r
    BY <1>2, <1>4 DEF Olm!WithNew
  <1>7. /\ t \in Seq(Entries) /\ DOMAIN t = 1..b + 1 /\ t[1] = one
        /\ \A k \in DOMAIN t \ {1} : k - 1 \in 1..b /\ t[k] = r[k - 1]
    BY <1>5, <1>6, FirstIs
  <1>8. \A k : Was(0, k) = k - 1
    BY DEF Was
  <1>9. \A k \in DOMAIN t \ {1} : Was(0, k) \in DOMAIN sessions \ {0} /\ t[k] = sessions[Was(0, k)]
    <2>1. \A k \in 1..b : k \in 1..Len(sessions) /\ k # 0
      BY <1>1, <1>3
    <2> QED
      BY <1>1, <1>5, <1>7, <1>8, <2>1
  <1>10. \A k, l \in DOMAIN t \ {1} : Was(0, k) = Was(0, l) => k = l
    <2>1. \A k, l \in 1..b + 1 : k - 1 = l - 1 => k = l
      BY <1>3
    <2> QED
      BY <1>7, <1>8, <2>1
  <1>11. ASSUME NEW j \in DOMAIN sessions, j < OtkCapacity
         PROVE  \E k \in DOMAIN t \ {1} : Was(0, k) = j
    <2>1. j + 1 \in (1..b + 1) \ {1} /\ j + 1 - 1 = j
      BY <1>1, <1>3, <1>11
    <2> QED
      BY <1>7, <1>8, <2>1
  <1>12. 1 \in DOMAIN t
    BY <1>3, <1>7
  <1> QED
    BY <1>7, <1>9, <1>10, <1>11, <1>12 DEF Moved

(* A message is decrypted in a session: an old one that had not read it,   *)
(* or, when none can, a new one for which the key is there.                *)
DecryptsIn(c, n, old) ==
    /\ at = "idle" /\ at' = "saving" /\ olmSeen < Len(olmInbox)
    /\ c = olmInbox[olmSeen + 1].claim /\ n = olmInbox[olmSeen + 1].n
    /\ UNCHANGED <<account, accountFile, server, read, cut, keyOf, sent, olmInbox, olmSeen, batch,
                   count, nextKey>>
    /\ Moved(sessions, sessions', old) /\ sessions'[1].claim = c
    /\ excused \subseteq excused'
    /\ \/ /\ old \in DOMAIN sessions /\ sessions[old].claim = c /\ n \notin sessions[old].got
          /\ sessions'[1].got = {n} \union sessions[old].got
          /\ key' = key
       \/ /\ old = 0 /\ sessions'[1].got = {n}
          /\ keyOf[c] \in account.keys /\ key' = keyOf[c]
          /\ \A j \in DOMAIN sessions : j >= OtkCapacity => sessions[j].claim \in excused'

(* The entries after the first, and where they went.                       *)
LEMMA OthersKept ==
    ASSUME OlmInv, NEW c, NEW n, NEW old, DecryptsIn(c, n, old)
    PROVE  /\ \A k \in DOMAIN sessions' \ {1} :
                 \E w \in DOMAIN sessions \ {old} : sessions'[k] = sessions[w]
           /\ \A j \in DOMAIN sessions :
                 \/ sessions[j].claim \in excused' \/ sessions[j].claim = c
                 \/ \E k \in DOMAIN sessions' : sessions'[k] = sessions[j]
  <1>1. Moved(sessions, sessions', old)
    BY DEF DecryptsIn
  <1>2. \A k \in DOMAIN sessions' \ {1} :
           \E w \in DOMAIN sessions \ {old} : sessions'[k] = sessions[w]
    BY <1>1 DEF Moved
  <1>3. ASSUME NEW j \in DOMAIN sessions, sessions[j].claim \notin excused', sessions[j].claim # c
        PROVE  \E k \in DOMAIN sessions' : sessions'[k] = sessions[j]
    <2>1. OtkCapacity \in Nat /\ \A i \in DOMAIN sessions : i \in Nat /\ i # 0
      BY LenProperties, OlmAssumption DEF OlmInv, OlmTypes
    <2>2. j # old /\ (old # 0 \/ j < OtkCapacity)
      <3>1. CASE old \in DOMAIN sessions /\ sessions[old].claim = c
        BY <1>3, <2>1, <3>1
      <3>2. CASE old = 0 /\ (j >= OtkCapacity => sessions[j].claim \in excused')
        BY <1>3, <2>1, <3>2
      <3> QED
        BY <3>1, <3>2 DEF DecryptsIn
    <2>3. PICK k \in DOMAIN sessions' \ {1} : Was(old, k) = j
      BY <1>1, <2>2 DEF Moved
    <2> QED
      BY <1>1, <2>3 DEF Moved
  <1> QED
    BY <1>2, <1>3

LEMMA DecryptsInStep ==
    ASSUME OlmInv, NEW c, NEW n, NEW old, DecryptsIn(c, n, old)
    PROVE  OlmInv'
  <1>1. /\ OlmTypes /\ OnlySent /\ AccountSaved /\ KeysHeld
        /\ SessionsKept /\ NoneDropped /\ KeysSpent /\ ReadOnce
    BY DEF OlmInv
  <1>2. /\ at = "idle" /\ at' = "saving" /\ olmSeen < Len(olmInbox)
        /\ c = olmInbox[olmSeen + 1].claim /\ n = olmInbox[olmSeen + 1].n
        /\ UNCHANGED <<account, accountFile, server, read, cut, keyOf, sent, olmInbox, olmSeen, batch,
                       count, nextKey>>
        /\ sessions' \in Seq(Entries) /\ 1 \in DOMAIN sessions' /\ sessions'[1].claim = c
        /\ excused \subseteq excused'
    BY DEF DecryptsIn, Moved
  <1>3. c \in Claims /\ c \in Nat /\ n \in Nat /\ keyOf[c] \in Nat /\ c # Olm!None
    BY <1>1, <1>2, NextMessageIs, AccountsAre DEF Olm!None
  <1>4. Hand = {} /\ Hand' = {<<c, n>>}
    BY <1>2 DEF Hand
  <1>5. Done' = Done /\ Handled' = Handled \union {<<c, n>>} /\ Uncut' = Uncut /\ Claims' = Claims
    BY <1>2, <1>4 DEF Done, Handled, Uncut, Claims
  <1>6. /\ \A d : Begun(d) => Begun(d)'
        /\ \A d : Begun(d)' => Begun(d) \/ d = c
    BY <1>5 DEF Begun
  <1>7. account = accountFile /\ key = Olm!None
    BY <1>1, <1>2 DEF AccountSaved
  <1>8. \A d \in Uncut : Spent(d) => keyOf[d] \notin accountFile.keys
    BY <1>4 DEF Spent
  <1>9. old \in DOMAIN sessions \/ old = 0
    BY DEF DecryptsIn
  <1>10. /\ old \in DOMAIN sessions =>
               /\ sessions[old].claim = c /\ n \notin sessions[old].got
               /\ sessions'[1].got = {n} \union sessions[old].got
               /\ key' = key
         /\ old \notin DOMAIN sessions =>
               /\ sessions'[1].got = {n} /\ keyOf[c] \in account.keys /\ key' = keyOf[c]
    <2>1. 0 \notin DOMAIN sessions
      BY <1>1, LenProperties DEF OlmTypes
    <2> QED
      BY <2>1 DEF DecryptsIn
  <1>11. OlmTypes'
    <2>1. key' \in Int
      BY <1>1, <1>3, <1>9, <1>10 DEF OlmTypes
    <2>2. Accounts' = Accounts
      BY <1>2 DEF Accounts
    <2> QED
      BY <1>1, <1>2, <1>5, <2>1, <2>2 DEF OlmTypes
  <1>12. OnlySent'
    <2>1. \A k \in DOMAIN sessions' : sessions'[k].claim \in Claims \union {Olm!None}
      <3>1. \A k \in DOMAIN sessions' \ {1} : sessions'[k].claim \in Claims \union {Olm!None}
        BY <1>1, OthersKept DEF OnlySent
      <3> QED
        BY <1>2, <1>3, <3>1
    <2> QED
      BY <1>1, <1>2, <1>5, <2>1 DEF OnlySent
  <1>13. AccountSaved'
    BY <1>1, <1>2, <1>7, <1>10 DEF AccountSaved
  <1>14. KeysHeld'
    BY <1>1, <1>2, <1>5, <1>6 DEF KeysHeld
  <1>15. SessionsKept'
    <2>1. ASSUME NEW d \in Claims \ excused', Begun(d)'
          PROVE  \E k \in DOMAIN sessions' : sessions'[k].claim = d
      <3>1. CASE d = c
        BY <1>2, <3>1
      <3>2. CASE d # c
        <4>1. PICK j \in DOMAIN sessions : sessions[j].claim = d
          BY <1>1, <1>2, <1>6, <2>1, <3>2 DEF SessionsKept
        <4> QED
          BY <2>1, <3>2, <4>1, OthersKept
      <3> QED
        BY <3>1, <3>2
    <2>2. ASSUME NEW k \in DOMAIN sessions', NEW x \in sessions'[k].got
          PROVE  <<sessions'[k].claim, x>> \in Handled'
      <3>1. CASE k = 1
        BY <1>1, <1>2, <1>5, <1>9, <1>10, <2>2, <3>1 DEF SessionsKept
      <3>2. CASE k # 1
        <4>1. PICK w \in DOMAIN sessions : sessions'[k] = sessions[w]
          BY <3>2, OthersKept
        <4> QED
          BY <1>1, <1>5, <2>2, <4>1 DEF SessionsKept
      <3> QED
        BY <3>1, <3>2
    <2>3. \A d, e \in Claims : d # e /\ keyOf[d] = keyOf[e] => d \in excused'
      BY <1>1, <1>2 DEF SessionsKept
    <2> QED
      BY <1>1, <1>2, <1>5, <2>1, <2>2, <2>3 DEF SessionsKept
  <1>16. NoneDropped'
    <2>1. \A d, k : Pending(d, k)' <=> Pending(d, k)
      BY <1>2 DEF Pending
    <2>2. ASSUME accountFile.own, NEW d \in Claims \ excused', NEW k \in 1..sent[d]
          PROVE  <<d, k>> \in Handled' \/ Pending(d, k)
      BY <1>1, <1>2, <1>5, <2>2 DEF NoneDropped
    <2> QED
      BY <1>2, <1>5, <2>1, <2>2, Zenon DEF NoneDropped
  <1>17. KeysSpent'
    <2>1. Spent(c)' \/ c \notin Uncut
      <3>1. CASE old \in DOMAIN sessions
        <4>1. c \in Uncut => Spent(c)
          BY <1>1, <1>10, <3>1 DEF KeysSpent
        <4> QED
          BY <1>2, <1>8, <4>1 DEF Spent
      <3>2. CASE old \notin DOMAIN sessions
        BY <1>2, <1>3, <1>4, <1>10, <3>2 DEF Spent
      <3> QED
        BY <3>1, <3>2
    <2>2. ASSUME NEW d \in Uncut, d # c
          PROVE  \/ Spent(d)'
                 \/ /\ \A k \in DOMAIN sessions' : sessions'[k].claim # d
                    /\ \A x \in Nat : <<d, x>> \notin Done' \union Hand'
      <3>1. CASE Spent(d)
        BY <1>2, <1>8, <3>1 DEF Spent
      <3>2. CASE ~Spent(d)
        <4>1. /\ \A j \in DOMAIN sessions : sessions[j].claim # d
              /\ \A x \in Nat : <<d, x>> \notin Done
          BY <1>1, <3>2 DEF KeysSpent
        <4>2. \A k \in DOMAIN sessions' \ {1} : sessions'[k].claim # d
          BY <4>1, OthersKept
        <4> QED
          BY <1>2, <1>4, <1>5, <2>2, <4>1, <4>2
      <3> QED
        BY <3>1, <3>2
    <2> QED
      BY <1>5, <2>1, <2>2 DEF KeysSpent
  <1>18. ReadOnce'
    <2>1. ASSUME c \in Uncut, old \notin DOMAIN sessions
          PROVE  /\ \A j \in DOMAIN sessions : sessions[j].claim # c
                 /\ \A x \in Nat : <<c, x>> \notin Done
      <3>1. ~Spent(c)
        BY <1>7, <1>8, <1>10, <2>1
      <3> QED
        BY <1>1, <2>1, <3>1 DEF KeysSpent
    <2>2. c \in Uncut => \A k \in DOMAIN sessions' \ {1} : sessions'[k].claim # c
      <3>1. SUFFICES ASSUME c \in Uncut, NEW k \in DOMAIN sessions' \ {1}
                     PROVE  sessions'[k].claim # c
        OBVIOUS
      <3>2. PICK w \in DOMAIN sessions \ {old} : sessions'[k] = sessions[w]
        BY OthersKept
      <3>3. CASE old \in DOMAIN sessions
        BY <1>1, <1>10, <3>1, <3>2, <3>3 DEF ReadOnce
      <3>4. CASE old \notin DOMAIN sessions
        BY <2>1, <3>1, <3>2, <3>4
      <3> QED
        BY <3>3, <3>4
    <2>3. ASSUME NEW i \in DOMAIN sessions', NEW j \in DOMAIN sessions',
                 sessions'[i].claim = sessions'[j].claim, sessions'[i].claim \in Uncut
          PROVE  i = j
      <3>1. CASE sessions'[i].claim = c
        BY <2>2, <2>3, <3>1
      <3>2. CASE sessions'[i].claim # c
        <4>1. i # 1 /\ j # 1 /\ Moved(sessions, sessions', old)
          BY <1>2, <2>3, <3>2 DEF DecryptsIn
        <4>2. /\ Was(old, i) \in DOMAIN sessions /\ sessions'[i] = sessions[Was(old, i)]
              /\ Was(old, j) \in DOMAIN sessions /\ sessions'[j] = sessions[Was(old, j)]
              /\ Was(old, i) = Was(old, j) => i = j
          BY <4>1 DEF Moved
        <4> QED
          BY <1>1, <2>3, <4>2 DEF ReadOnce
      <3> QED
        BY <3>1, <3>2
    <2>4. c \in Uncut => <<c, n>> \notin Done
      <3>1. CASE old \in DOMAIN sessions
        BY <1>1, <1>3, <1>10, <3>1 DEF ReadOnce
      <3>2. CASE old \notin DOMAIN sessions
        BY <1>3, <2>1, <3>2
      <3> QED
        BY <3>1, <3>2
    <2>5. ASSUME NEW k \in DOMAIN sessions', NEW x \in Nat, sessions'[k].claim \in Uncut,
                 <<sessions'[k].claim, x>> \in Done \union {<<c, n>>}
          PROVE  x \in sessions'[k].got
      <3>1. CASE k = 1
        <4>1. sessions'[k].claim = c
          BY <1>2, <3>1
        <4>2. CASE x = n
          BY <1>9, <1>10, <3>1, <4>2
        <4>3. CASE x # n
          <5>1. <<c, x>> \in Done
            BY <2>5, <4>1, <4>3
          <5>2. old \in DOMAIN sessions
            BY <2>1, <2>5, <4>1, <5>1
          <5> QED
            BY <1>1, <1>10, <2>5, <3>1, <4>1, <5>1, <5>2 DEF ReadOnce
        <4> QED
          BY <4>2, <4>3
      <3>2. CASE k # 1
        <4>1. PICK w \in DOMAIN sessions : sessions'[k] = sessions[w]
          BY <3>2, OthersKept
        <4>2. sessions'[k].claim # c
          BY <2>2, <2>5, <3>2
        <4>3. <<sessions[w].claim, x>> \in Done
          BY <2>5, <4>1, <4>2
        <4> QED
          BY <1>1, <2>5, <4>1, <4>3 DEF ReadOnce
      <3> QED
        BY <3>1, <3>2
    <2>6. \A i, j \in DOMAIN read : read[i] = read[j] /\ read[i][1] \in Uncut => i = j
      BY <1>1 DEF ReadOnce
    <2>7. \A m \in Hand' : m[1] \in Uncut => m \notin Done
      BY <1>4, <2>4
    <2> QED
      BY <1>2, <1>4, <1>5, <2>3, <2>5, <2>6, <2>7 DEF ReadOnce
  <1> QED
    BY <1>11, <1>12, <1>13, <1>14, <1>15, <1>16, <1>17, <1>18 DEF OlmInv

(* A message that cannot be decrypted is passed over: it had been handled, *)
(* or its session is excused, or the account was lost.                     *)
LEMMA PassesOverStep ==
    ASSUME OlmInv, at = "idle", olmSeen < Len(olmInbox), olmSeen' = olmSeen + 1,
           UNCHANGED <<account, accountFile, server, read, cut, excused, keyOf, sent, olmInbox, batch,
                       count, nextKey, sessions, key, at>>,
           NEW c, c = olmInbox[olmSeen + 1].claim, NEW n, n = olmInbox[olmSeen + 1].n,
           account.own => /\ \A i \in DOMAIN sessions :
                                 sessions[i].claim = c => n \in sessions[i].got
                          /\ olmInbox[olmSeen + 1].preKey => keyOf[c] \notin account.keys
    PROVE  OlmInv'
  <1>1. /\ OlmTypes /\ OnlySent /\ AccountSaved /\ KeysHeld
        /\ SessionsKept /\ NoneDropped /\ KeysSpent /\ ReadOnce
    BY DEF OlmInv
  <1>2. /\ c \in Claims /\ n \in Nat /\ olmSeen \in Nat /\ Len(olmInbox) \in Nat
        /\ olmSeen + 1 \in DOMAIN olmInbox
    BY NextMessageIs
  <1>3. Hand' = Hand /\ Done' = Done /\ Handled' = Handled /\ Uncut' = Uncut /\ Claims' = Claims
    BY DEF Hand, Done, Handled, Uncut, Claims
  <1>4. \A d : Begun(d)' <=> Begun(d)
    BY <1>3 DEF Begun
  <1>5. account = accountFile
    BY <1>1 DEF AccountSaved
  <1>6. accountFile.own => c \in excused \/ <<c, n>> \in Handled
    <2>1. SUFFICES ASSUME accountFile.own, c \notin excused, <<c, n>> \notin Handled
                   PROVE  FALSE
      OBVIOUS
    <2>2. ~Begun(c)
      <3>1. SUFFICES ASSUME Begun(c)
                     PROVE  FALSE
        OBVIOUS
      <3>2. PICK i \in DOMAIN sessions : sessions[i].claim = c
        BY <1>1, <1>2, <2>1, <3>1 DEF SessionsKept
      <3> QED
        BY <1>1, <1>5, <2>1, <3>2 DEF SessionsKept
    <2>3. olmInbox[olmSeen + 1].preKey
      <3>1. ~olmInbox[olmSeen + 1].preKey => \E x \in Nat : <<c, x>> \in Done
        BY <1>1, <1>2 DEF SessionsKept
      <3> QED
        BY <2>2, <3>1 DEF Begun, Handled
    <2>4. keyOf[c] \in Olm!Range(keyOf)
      BY <1>2 DEF Claims, Olm!Range
    <2>5. PICK d \in Claims : keyOf[d] = keyOf[c] /\ (d \in excused \/ Begun(d))
      BY <1>1, <1>5, <2>1, <2>3, <2>4 DEF KeysHeld
    <2> QED
      BY <1>1, <1>2, <2>1, <2>2, <2>5 DEF SessionsKept
  <1>7. OlmTypes'
    <2>1. olmSeen' \in 0..Len(olmInbox')
      BY <1>2
    <2>2. Accounts' = Accounts
      BY DEF Accounts
    <2> QED
      BY <1>1, <1>3, <2>1, <2>2 DEF OlmTypes
  <1>8. OnlySent' /\ AccountSaved'
    BY <1>1, <1>3 DEF OnlySent, AccountSaved
  <1>9. KeysHeld'
    BY <1>1, <1>3, <1>4 DEF KeysHeld
  <1>10. SessionsKept'
    BY <1>1, <1>3, <1>4 DEF SessionsKept
  <1>11. NoneDropped'
    <2>1. SUFFICES ASSUME accountFile.own, NEW d \in Claims \ excused, NEW k \in 1..sent[d],
                          <<d, k>> \notin Handled
                   PROVE  Pending(d, k)'
      BY <1>3 DEF NoneDropped
    <2>2. PICK i \in olmSeen + 1..Len(olmInbox) : olmInbox[i].claim = d /\ olmInbox[i].n = k
      BY <1>1, <2>1 DEF NoneDropped, Pending
    <2>3. i # olmSeen + 1
      BY <1>6, <2>1, <2>2
    <2>4. i \in olmSeen' + 1..Len(olmInbox')
      BY <1>2, <2>2, <2>3
    <2> QED
      BY <2>2, <2>4 DEF Pending
  <1>12. KeysSpent' /\ ReadOnce'
    BY <1>1, <1>3 DEF KeysSpent, Spent, ReadOnce
  <1> QED
    BY <1>7, <1>8, <1>9, <1>10, <1>11, <1>12 DEF OlmInv

LEMMA DecryptStep ==
    ASSUME OlmInv, Olm!Decrypt
    PROVE  OlmInv'
  <1>1. /\ at = "idle" /\ olmSeen < Len(olmInbox)
        /\ UNCHANGED <<account, accountFile, server, read, cut, keyOf, sent, olmInbox, batch,
                       count, nextKey>>
    BY DEF Olm!Decrypt, Olm!accountVars, Olm!peerVars
  <1>2. PICK c, n : c = olmInbox[olmSeen + 1].claim /\ n = olmInbox[olmSeen + 1].n
    OBVIOUS
  <1>3. c \in Nat /\ n \in Nat
    BY <1>1, <1>2, NextMessageIs
  <1>4. PICK one : one = [claim |-> c, got |-> {n}]
    OBVIOUS
  <1>5. one \in Entries /\ one.claim = c /\ one.got = {n}
    BY <1>3, <1>4 DEF Entries
  <1>6. sessions \in Seq(Entries) /\ DOMAIN sessions \subseteq Nat \ {0}
    BY LenProperties DEF OlmInv, OlmTypes
  <1>7. PICK able : able = {i \in DOMAIN sessions : sessions[i].claim = c /\ n \notin sessions[i].got}
    OBVIOUS
  <1>8. \/ \E i \in able : /\ sessions' = Olm!Latest(i, one) /\ at' = "saving"
                           /\ UNCHANGED <<key, olmSeen, excused>>
        \/ /\ able = {} /\ keyOf[c] \in account.keys
           /\ sessions' = Olm!WithNew(one)
           /\ excused' = excused \union
                 {sessions[i].claim : i \in {j \in DOMAIN sessions : j >= OtkCapacity}}
           /\ key' = keyOf[c] /\ at' = "saving" /\ olmSeen' = olmSeen
        \/ /\ able = {}
           /\ olmInbox[olmSeen + 1].preKey => keyOf[c] \notin account.keys
           /\ olmSeen' = olmSeen + 1
           /\ UNCHANGED <<sessions, at, key, excused>>
    BY <1>2, <1>4, <1>7 DEF Olm!Decrypt, Olm!Message, Olm!CanDecrypt
  <1>9. ASSUME NEW i \in able, sessions' = Olm!Latest(i, one), at' = "saving",
               UNCHANGED <<key, olmSeen, excused>>
        PROVE  DecryptsIn(c, n, i)
    <2>1. i \in DOMAIN sessions /\ sessions[i].claim = c /\ n \notin sessions[i].got
      BY <1>7, <1>9
    <2>2. PICK t : t = Olm!Latest(i, one)
      OBVIOUS
    <2>3. /\ Moved(sessions, t, i)
          /\ t[1].claim = sessions[i].claim /\ t[1].got = one.got \union sessions[i].got
      BY <1>5, <1>6, <2>1, <2>2, LatestMoves
    <2>4. sessions' = t
      BY <1>9, <2>2
    <2> QED
      BY <1>1, <1>2, <1>5, <1>9, <2>1, <2>3, <2>4 DEF DecryptsIn
  <1>10. ASSUME keyOf[c] \in account.keys, sessions' = Olm!WithNew(one),
                excused' = excused \union
                    {sessions[i].claim : i \in {j \in DOMAIN sessions : j >= OtkCapacity}},
                key' = keyOf[c], at' = "saving", olmSeen' = olmSeen
         PROVE  DecryptsIn(c, n, 0)
    <2>1. PICK t : t = Olm!WithNew(one)
      OBVIOUS
    <2>2. Moved(sessions, t, 0) /\ t[1] = one
      BY <1>5, <1>6, <2>1, WithNewMoves
    <2>3. sessions' = t
      BY <1>10, <2>1
    <2>4. \A j \in DOMAIN sessions : j >= OtkCapacity => sessions[j].claim \in excused'
      BY <1>10
    <2> QED
      BY <1>1, <1>2, <1>5, <1>10, <2>2, <2>3, <2>4 DEF DecryptsIn
  <1>11. ASSUME able = {}, olmInbox[olmSeen + 1].preKey => keyOf[c] \notin account.keys,
                olmSeen' = olmSeen + 1, UNCHANGED <<sessions, at, key, excused>>
         PROVE  OlmInv'
    <2>1. \A i \in DOMAIN sessions : sessions[i].claim = c => n \in sessions[i].got
      BY <1>7, <1>11
    <2> QED
      BY <1>1, <1>2, <1>11, <2>1, PassesOverStep
  <1> QED
    BY <1>8, <1>9, <1>10, <1>11, DecryptsInStep

LEMMA DropUnreadStep ==
    ASSUME OlmInv, Olm!DropUnread
    PROVE  OlmInv'
  <1>1. /\ at = "idle" /\ olmSeen < Len(olmInbox) /\ ~account.own /\ olmSeen' = olmSeen + 1
        /\ UNCHANGED <<account, accountFile, server, read, cut, excused, keyOf, sent, olmInbox,
                       batch, count, nextKey, sessions, key, at>>
    BY DEF Olm!DropUnread, Olm!accountVars, Olm!peerVars, Olm!ghosts
  <1>2. PICK c, n : c = olmInbox[olmSeen + 1].claim /\ n = olmInbox[olmSeen + 1].n
    OBVIOUS
  <1> QED
    BY <1>1, <1>2, PassesOverStep

LEMMA OlmInitially == Olm!Init => OlmInv
  <1> SUFFICES ASSUME Olm!Init
               PROVE  OlmInv
    OBVIOUS
  <1>1. /\ account = Olm!NewAccount /\ accountFile = Olm!NewAccount
        /\ sessions = <<>> /\ server = {} /\ count = Olm!None /\ at = "down"
        /\ batch = {} /\ key = Olm!None /\ olmInbox = <<>> /\ olmSeen = 0
        /\ keyOf = <<>> /\ sent = <<>> /\ read = <<>> /\ cut = {} /\ nextKey = 1
    BY DEF Olm!Init, Olm!NoFile
  <1>2. \A S : <<>> \in Seq(S)
    BY EmptySeq
  <1>3. Len(<<>>) = 0 /\ DOMAIN <<>> = {}
    BY EmptySeq
  <1>4. Claims = {} /\ Olm!Range(keyOf) = {} /\ Done = {} /\ Hand = {}
    BY <1>1, <1>3 DEF Claims, Olm!Range, Done, Hand
  <1>5. Olm!NewAccount \in Accounts /\ Olm!NewAccount.unpublished \subseteq Olm!NewAccount.keys
    BY DEF Olm!NewAccount, Accounts
  <1>6. OlmTypes
    <2>1. count \in Int /\ key \in Int
      BY <1>1 DEF Olm!None
    <2> QED
      BY <1>1, <1>2, <1>3, <1>4, <1>5, <2>1 DEF OlmTypes
  <1>7. OnlySent /\ AccountSaved
    BY <1>1, <1>3, <1>4, <1>5 DEF OnlySent, AccountSaved
  <1>8. KeysHeld /\ SessionsKept /\ NoneDropped
    BY <1>1, <1>3, <1>4 DEF KeysHeld, SessionsKept, NoneDropped
  <1>9. KeysSpent /\ ReadOnce
    BY <1>1, <1>3, <1>4 DEF KeysSpent, ReadOnce, Uncut
  <1> QED
    BY <1>6, <1>7, <1>8, <1>9 DEF OlmInv

(* A key serves one session, whose messages are read once.                 *)
THEOREM OneTimeKeysInvariant == FairSpec => []OlmInv
  <1>1. Init => OlmInv
    BY OlmInitially DEF Init
  <1>2. OlmInv /\ [Next]_vars => OlmInv'
    <2> SUFFICES ASSUME OlmInv, [Next]_vars
                 PROVE  OlmInv'
      OBVIOUS
    <2>1. CASE Olm!Thread
      BY <2>1, KeysOutStep, NewKeysStep, MarkPublishedStep, OlmSyncStep, DecryptStep,
         DropUnreadStep,
         RemoveKeyStep, HandOnStep DEF Olm!Thread
    <2>2. CASE Olm!Crash \/ Olm!GetVerified \/ Olm!Claim \/ Olm!SendMessage
      BY <2>2, OlmCrashStep, KeysOutStep, ClaimStep, SendMessageStep
    <2>3. CASE UNCHANGED olmVars
      <3>1. UNCHANGED <<account, accountFile, sessions, server, count, at, batch, key, olmInbox,
                        olmSeen, keyOf, sent, read, excused, cut, nextKey>>
        BY <2>3 DEF olmVars
      <3>2. /\ Hand' = Hand /\ Done' = Done /\ Handled' = Handled /\ Uncut' = Uncut
            /\ Claims' = Claims /\ Accounts' = Accounts
        BY <3>1 DEF Hand, Done, Handled, Uncut, Claims, Accounts
      <3>3. Messaging' = Messaging
        BY <3>1, <3>2 DEF Messaging
      <3>4. OlmTypes' /\ AccountSaved'
        BY <3>1, <3>2 DEF OlmInv, OlmTypes, AccountSaved
      <3> QED
        BY <3>1, <3>3, <3>4, MessagesStay, KeysStaySpent, KeysStayHeld DEF OlmInv
    <2> QED
      BY <2>1, <2>2, <2>3 DEF Next, vars, Olm!Next
  <1> QED
    BY <1>1, <1>2, PTL DEF FairSpec

(* A key that the server may hand out or that somebody claimed is in the   *)
(* account file until a message has used it: RemoveKey is the only step    *)
(* that takes one out, and it does so with a message of its session in     *)
(* hand.  That is so as long as the program has not ended while it wrote   *)
(* that file: it then goes on with a blank account.                        *)
THEOREM TaskHeldKeysAreSaved == FairSpec => []HeldKeysAreSaved
  <1>1. ASSUME OlmInv, NEW c \in Claims, Begun(c)
        PROVE  Olm!Used(c)
    <2>1. PICK n \in Nat : <<c, n>> \in Handled
      BY <1>1 DEF Begun
    <2>2. CASE <<c, n>> \in Hand
      <3>1. at \in {"saving", "decrypted"}
        BY <2>2 DEF Hand
      <3>2. olmInbox[olmSeen + 1].claim = c
        BY <2>2, <3>1 DEF Hand
      <3> QED
        BY <3>1, <3>2 DEF Olm!Used, Olm!Message
    <2>3. CASE <<c, n>> \in Done \union cut
      <3>1. n \in 1..sent[c]
        BY <1>1, <2>1, HandledWereSent
      <3> QED
        BY <2>3, <3>1 DEF Olm!Used, Done
    <2> QED
      BY <2>1, <2>2, <2>3 DEF Handled
  <1>2. OlmInv => HeldKeysAreSaved
    BY <1>1 DEF OlmInv, KeysHeld, HeldKeysAreSaved, Olm!HeldKeysAreSaved, Olm!Used, Claims
  <1> QED
    BY <1>2, OneTimeKeysInvariant, PTL

(* A message that was acknowledged was read, or the program ended while it *)
(* was in hand, unless its session was lost: what the thread passes over   *)
(* was read before, because the key of a session that was not begun is     *)
(* there and one that was begun is in the file.  That is so as long as the *)
(* account is the device's own; with a blank one everything is passed over.*)
THEOREM TaskDropsNothing == FairSpec => []NothingDropped
  <1>1. ASSUME OlmInv, accountFile.own, NEW c \in Claims \ excused, NEW n \in 1..sent[c]
        PROVE  \/ <<c, n>> \in Done \union cut
               \/ \E i \in olmSeen + 1..Len(olmInbox) :
                      olmInbox[i].claim = c /\ olmInbox[i].n = n
    <2>1. CASE <<c, n>> \in Hand
      <3>1. at \in {"saving", "decrypted"}
        BY <2>1 DEF Hand
      <3>2. olmInbox[olmSeen + 1].claim = c /\ olmInbox[olmSeen + 1].n = n
        BY <2>1, <3>1 DEF Hand
      <3>3. olmSeen + 1 \in olmSeen + 1..Len(olmInbox)
        <4>1. olmSeen \in Nat /\ Len(olmInbox) \in Nat /\ olmSeen < Len(olmInbox)
          BY <1>1, <3>1, NextMessageIs DEF OlmInv, AccountSaved
        <4> QED
          BY <4>1
      <3> QED
        BY <3>2, <3>3
    <2> QED
      BY <1>1, <2>1 DEF OlmInv, NoneDropped, Pending, Handled
  <1>2. OlmInv => NothingDropped
    BY <1>1 DEF NothingDropped, Olm!NothingDropped, Claims, Done
  <1> QED
    BY <1>2, OneTimeKeysInvariant, PTL

(* What a message says is handed on at most once, however often the server *)
(* delivers it and the program restarts; except in a session of which a    *)
(* message was in hand when the program ended.                             *)
THEOREM TaskReadsNothingTwice == FairSpec => []NothingReadTwice
  <1>1. OlmInv => NothingReadTwice
    <2> SUFFICES ASSUME OlmInv, NEW i \in DOMAIN read, NEW j \in DOMAIN read,
                        i # j, read[i] = read[j]
                 PROVE  \E m \in cut : m[1] = read[i][1]
      BY DEF NothingReadTwice, Olm!NothingReadTwice
    <2>1. read[i][1] \in Claims
      BY DEF OlmInv, OnlySent, Done, Olm!Range
    <2> QED
      BY <2>1 DEF OlmInv, ReadOnce, Uncut
  <1> QED
    BY <1>1, OneTimeKeysInvariant, PTL
=============================================================================
