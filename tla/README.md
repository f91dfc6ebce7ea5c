# A verification project for mcp_apps

TLA+ models of the programs of this repository, model-checked with TLC and,
for the most part of their safety, proved with TLAPS. `src/...` below is a path in the
repository; the file `PROJECT.json` names, for every definition that models code, the lines it
stands for.

## 1. The system

mcp_apps is the software of a small modular computer that runs NuttX. Modules
are plugged into a backplane; programs talk to a module by its *token*, a small
number the backplane hands out in the order of arrival and never takes back.

| part | source | state it keeps | operations | talks to |
|---|---|---|---|---|
| mcpd | `mcpd/mcpd.c` | count of tokens; a slot per module with its client, transfer and lent pins; watchers with the next token to tell; owner and driver of each peripheral; the poller's state | one loop around `poll()`: accept, tell watchers, QUIT, READ, WRITE, GPIO and peripheral requests | the backplane by a two-wire bus, clients by sockets |
| mcpd library | `mcpd/mcpd_lib.c` | a socket per connection; the state of a non-blocking read or write | connect, disconnect, watch, read, write, async calls, pins, peripherals | mcpd |
| mcp_init | `mcp_init/mcp_init.c` | none | starts the other programs, then waits on a watch and runs a loader per module | mcpd library |
| mcp_forth | `mcp_forth/` | a file that counts loaded libraries | runs the Forth program of a module, loads compiled libraries | mcp_fs, mcpd library |
| mcp_fs | `mcp_fs/mcp_fs.c` | per peer a connection and a count of open files; the index of the module it runs on; a cache of file contents | open, read, write, close, stat, opendir, content cache | mcpd library, NuttX VFS |
| poll loop | `mcp_lvgl_common/` | a linked list of handles known to epoll | add, modify, remove, run | every program with a screen |
| mcp_lvgl | `mcp_lvgl/mcp_lvgl.c` | list of apps, drivers, async calls, static frame buffer | start drivers, run apps, async mcpd calls | poll loop, mcpd library |
| texter_ui | `texter_ui/texter_ui.c` | a window of message bubbles per conversation, futures, a queue of events | create, load, resolve, scroll, delete | LVGL |
| beeper thread | `beeper/beeper_task.c` | transaction ids, device keys, one-time keys, room sessions, verification, pending commands | the sync loop and the commands of the user | the server, the queues |
| beeper user interface | `beeper/beeper_ui_*.c`, `beeper_util.c` | rooms, windows of messages, screens | handle events, send commands, close | texter_ui, the queues |
| peanut_gb | `peanut_gb/peanut_gb.c` | emulator, frame clock | run frames, keys, save | mcp_lvgl |

How they interact: modules appear on the backplane; mcpd hears of them through
its poller, makes a slot and tells mcp_init's watcher, which starts a loader for
the module; the loader and mcp_fs connect to mcpd like any other client. The
beeper app is two threads joined by two queues. Everything with a screen is one
thread around the poll loop, so its hard behaviour lies in callbacks that change
what the loop is iterating over.

What is hard here, and what makes each part correct:

* **mcpd, loop.** Watchers are removed from an array while it is scanned, a
  disabled slot must not look vacant, an answer must reach the call it belongs
  to. Correct when a module has one user, answers match calls, every watcher is
  told every module once and in order, and connecting never waits for a transfer.
* **mcpd, transfers.** The poller runs inside every wait for a bus byte, so its
  report can fall between a question and its answer. Correct when no wakeup is
  lost and every byte is accounted for.
* **mcpd, pins.** Handles are indices into tables others change. Correct when
  what a client was told it has is recorded in its name, a pin is lent once, and
  QUIT returns everything.
* **Transaction ids.** Written before they are used, so that a crash loses some
  and repeats none. Correct when no id is issued twice.
* **The queues.** The eventfd is polled without the mutex and carries only the
  edges between empty and not empty. Correct when it agrees with the queue, the
  thread can always be stopped, and what is queued at the end is freed once.
* **The poll loop.** A callback may remove a handle whose event comes later in
  the same batch, and `malloc()` may give its memory to a new one. Correct when a
  callback is only called for the registration whose event was polled.
* **mcp_fs.** A connection shared by the open files of a peer; the search for
  the own index races with modules that arrive; the cache survives restarts.
  Correct when a module is held in mcpd exactly while it is used, a listing names
  every module, and the path of a cached file leads to the whole content.
* **texter_ui, room windows.** Bubbles are loaded and unloaded through futures
  and queued events; chunks requested in two directions merge with live messages.
  Correct when the widget's assertions hold, a bubble shows the message that holds
  its future, and no bubble waits for a message that will not be asked for.
* **Sessions and keys.** Keys arrive before or after the messages they open, are
  persisted in steps, and can be used once. Correct when what others send to this
  device can be read after a crash, nothing is read or sent twice, no key is used
  for two texts, and a message waits for its key only as long as the key is missing.
* **The key list.** A cache of other users' devices, told of changes by /sync
  and kept in a file. Correct when a list that is used has what the server has.
* **Verification.** Devices verify each other by a protocol of seven messages, with
  a user at each end. Correct when nothing counts as verified unless both users
  confirmed it, and a verification that nobody disturbs ends.

The complete list of hazards, each with its line and the properties that watch
it, is `hazards` in `PROJECT.json`.

## 2. The modules

| module | models | lines of code behind it |
|---|---|---|
| `ModuleDirectory` | what mcpd promises its callers: a growing list, exclusive holds, ordered announcements | (abstract) |
| `McpdDaemon` | main loop of mcpd, the calls of the library, mcp_init's watch | `mcpd.c` 589-919, 1125-1156, `mcpd_lib.c` 48-229 |
| `McpdDaemonProofs` | its theorems | |
| `McpdResources` | extends `McpdDaemon` with pins and peripherals | `mcpd.c` 911-1123 |
| `McpdResourcesProofs` | its theorems, on those about `McpdDaemon` | |
| `McpdTransfer` | `continue_transfer()` and the poller | `mcpd.c` 338-395, 543-587, 799-805 |
| `McpdTransferProofs` | its theorems | |
| `McpFs` | the file system over the modules | `mcp_fs.c` 27-709 |
| `FsCache` | extends `McpFs` with the cache of files | `mcp_fs.c` 711-810 |
| `McpFsProofs` | theorems about both | |
| `PollLoop` | the poll loop of the screen programs | `mcp_lvgl_common.c` 31-176 |
| `TaskQueue` | the two queues of beeper, their threads and the heap they share | `beeper_util.c` 94-180, `beeper_task.c` 2422-2442, 2911-2942, 3954-3960, 4030-4113, `beeper_ui_util.c` 76-406 |
| `TxnId` | transaction ids in a file | `beeper_task.c` 311-382 |
| `Sending` | extends `TxnId` with the texts that are sent | `beeper_task.c` 705-846, 1271-1421, 3135-3309 |
| `OneTimeKeys` | one-time keys and the sessions they begin | `beeper_task.c` 393-522, 988-1238, 2811-2904, 3317-3382, 3689-3714, 3945-3950 |
| `RoomKeys` | the keys of a room and the messages that wait for them | `beeper_task.c` 1976-2360, 3118-3133, 3867-3903, 3962-3968 |
| `KeyList` | the list of users, their devices and keys | `beeper_task.c` 1460-1876, 3936-3985 |
| `Verification` | the emoji verification | `beeper_task.c` 2583-2723, 2906-3064, 3400-3688, 3943-3968, `beeper_ui_verify.c` |
| `BeeperTaskProofs` | theorems about `TaskQueue`, `OneTimeKeys` and `RoomKeys`, as `MCBeeperTask` holds them | |
| `BeeperTextsProofs` | theorems about `TxnId`, `Sending` and `PollLoop`, as `MCBeeperTexts` holds them | |
| `BeeperDevicesProofs` | theorems about `Verification` and `KeyList`, as `MCBeeperDevices` holds them | |
| `TexterUi` | the list of bubbles of a conversation: operators | `texter_ui.c` |
| `RoomWindow` | the window of messages of a room, on top of `TexterUi` | `beeper_ui_util.c`, `beeper_ui_texter.c` |
| `RoomWindowProofs` | theorems about both | |
| `MC*` | small instances for TLC | |

`PROJECT.json` has the exact lines of each definition. Compositions: `McpdResources`,
`FsCache` and `Sending` extend the module whose steps theirs use; `RoomWindow`
composes the screen, the widget, the task's thread and the server.

### Several parts in one run

`MCBeeperTask` (`TaskQueue`, `OneTimeKeys`, `RoomKeys`), `MCBeeperTexts`
(`Sending`, `RoomWindow`, `PollLoop`) and `MCBeeperDevices` (`Verification`,
`KeyList`) hold parts of one program that share no variable. Their product would
say nothing more than each of them alone, so `part` chooses at the beginning
which one takes steps, and the state spaces lie side by side. This is no
composition; it only lets one run ask related questions. In the same way `cast`
of `MCMcpdDaemon` lets either clients with a watcher or three watchers take part, and
`offer` of `MCMcpdResources` lets the programs make one of two kinds of requests.
`FirstAlike` of `MCBeeperTexts` takes one of several free addresses, or of
several descriptors, that differ in nothing but their name.

### McpdDaemon

One thread. An action is what the daemon does between two points where it may
sleep: `poll()` at the top of the loop, and the write of one byte to a watcher.
`pc` is `top`, `updateAll` (telling every watcher of new tokens), `updateNew`
(telling an accepted one), `dispatch` (going through the descriptors `poll()`
reported) or `aborted`. `ready` and `remaining` are the `revents` and
`remaining_ready_fds`; the order of the scan (listener, peers by slot, watchers)
is in the guards `PeerTurn` and `WatcherTurn`. A negated descriptor of a busy
slot is `isDoing[t] # "idle"` with `fd[t]` kept. `TokensToAdd` is the 8-bit
arithmetic that skips the daemon's own token. `WithoutWatcher` moves the last
entry into the place of the closed one, as `close_watcher()` does.

The poller only sets flags that the top of the loop reads, so `PollerPresence`
is taken there. A transfer finishes in the action that begins it
(`ServeTransferAtOnce`) or at some later time at the top (`TransferDone`); which
of them, and when, is what `McpdTransfer` opens up. `ServeOther` gives any
answer to a pin or peripheral request; `McpdResources` replaces it by the
handlers. Clients and watchers are the blocking calls of the library: a client
that waits in `connect`, `read`, a resource call or `disconnect` does nothing
else, while `mcpd_write()` and `mcpd_gpio_set()` return at once.

The uninitialised `revents` of a watcher accepted in this round is a choice
over every value (`FreshReads...`).

### McpdResources

`RSpec` is `Spec` with each request handled as in the code, and `QuitAndRelease`
in place of QUIT: owners cleared, connections cut, the list of resources freed.
`asked`, `periphs` and `gpios` are history: what each client was told it has.
`ResourceAcquire` takes the first free peripheral of the type whose driver already
runs, else the first free one (`IsChoice`); `boardctl()` may then fail, after owner
and driver were recorded, and they stay recorded as in the code. What remains
unstated is in the hazards: the minor number nobody wrote in that case.

### McpdTransfer

Peers are fixed. `pending` and `flight` are the backplane's reports: due, and on
the wire. `PollerReport` is enabled wherever the daemon waits (`Multitasking`),
so it falls before, between and after `Ask`, `Answer` and `NothingToMove`. While
the daemon takes the bytes of a write from its client (`filling`) nothing else
moves, as in the code. When several clients are served in one round, a report noted on behalf of
an earlier one is served before the next, where the code comes to it after the round. The backplane is external: it reports once when an empty
pipe gets a byte or a full one gets room.

### TxnId, Sending

`stored` is the file: none, truncated, or a number. The file operations of
`txnid_range_end_update_()` are two actions, and `Crash` is possible between any
two. What is modelled is the death of the program, or the restart of the app:
what was written stays. The loss of power and a partial write of the 16 digits
are not modelled.

`Sending` adds the handler of SEND_TEXT: `TakeText` finds the session of the room in
memory, in its file, or makes one; a new one is shared with each device of the
bot (`EncryptKey`, `IssueId`, `ShareRequest`); `Encrypt` advances and saves it; and
the text goes out (`SendRequest`). `userSession` is the device whose session with the bot's user
is the first one, in which every key is encrypted; a message from another device puts that one
first (`Hears`), and a crash while the sessions are saved leaves none. `RequestFails` is a connection that breaks
before or after the server did what was asked; `request()` sends the same again
once. The server does each transaction id once.

### OneTimeKeys

`account` is in memory, `accountFile` and `sessions` are files, which `Crash` leaves as
they are or cuts short, at the file operations of each step. Messages stay with
the server until the /sync after the one that brought them (`Sync`). A session in
`sessions` remembers which of its messages it has read, as olm does. `excused`
and `cut` name what may be lost: the session was pushed out or cut short, the key was
handed out twice, or the program ended between the saving and the use.
An account file that was cut short is read as the blank account (`Blank`), with which `Start` goes
on, since nobody looks at what `olm_unpickle_account()` returned; every message is then dropped
(`DropUnread`), and what is saved keeps neither the identity (`own`) nor the keys.

### RoomKeys

`decrypting` holds what waits under its session, `lru` and `file` the keys. Reading
moves a key to the front of `lru`; a key that arrives opens what waits up to the
first message that it does not open, where `handle_room_key_event()` leaves its loop
(`src/beeper/beeper_task.c:2311`): `stuck` records those. The bot answers only what
it was asked, and shares keys unasked whenever it likes.

### KeyList

`list` is `key_list_users` as a function from the listed users; `hasOutdated` and
`needsSave` are the two flags. A use (`DeviceGet`, `DeviceGetAll`) adds what is
missing and asks the server if that user is outdated. An answer to /sync is taken
at `Answer` and applied at `EndOfAnswer`; in between lists are used and devices
change. Saving truncates the file (`Save`) and writes it (`Write`), and `Die` may come
between. The server does not tell of changes in the first answer of a run, which
has no `since`: `missed` names the users who changed meanwhile. Users whose devices are all asked
for (`allDevices`) get the devices of the answer; of the others only devices asked for by name are
listed, and one that is not in the answer stays as it is (`Outlived`).

### Verification

`step` and the variables after it are the locals of `thread()`. Each other device
follows the protocol and may give up; its messages come in order, mixed with those of
others, and again after a restart. The assertions on the other device's signed keys are folded
into the MAC being right, and a failing one into `Restart`. The user presses the button any number of times.

### TaskQueue

Each queue is its array, its eventfd (`evfd`) and what the holder of its mutex
is doing (`section`). A push writes the eventfd, then appends; a pop removes,
then reads the eventfd, in that order in the code and both under the mutex, while
the other side polls the eventfd without it. `live` is the set of allocations and
`badFree` records a `free()` of anything else. The user interface may close the
app at any time: STOP is pushed, the thread is joined, both queues are drained.
The thread waits on its queue and on the network.

### PollLoop

A handle is an address that `mcp_lvgl_poll_add()` may reuse after
`mcp_lvgl_poll_remove()`; `number` distinguishes registrations for the
properties only. `Wait` takes a batch of up to the events that `epoll_wait()`
returns, in any order; during a callback the program may add, modify or remove
any handle, the running one included, as the callbacks in `mcp_lvgl.c` do.

### McpFs, FsCache

mcp_fs is one thread that serves one call at a time (`job`); `peers`, `selfIndex`,
`fds` and `dirs` are `volinfo_t` and the open files and directories. `holder` is
what `ModuleDirectory` promises of mcpd: a module is lent to one client, and a connect to one
that is lent fails. A look at the root connects to each number in turn, and modules
arrive in between; connecting and letting go again is one step, so that no other client meets the
module while it is only probed. Programs block in their calls, so each has one file and one
directory open, with any number of descriptors up to the bound.

`FsCache` is `mcp_fs_cache_file()` as its callers run it: the hash is asked of the module
without the file system, the semaphore of the hash is taken after it, and the copy
goes through the file system of `McpFs`, where it may find the module in use. `Restart`
leaves the cache as it is: a copy that was cut off, or whose source was
replaced meanwhile, is in `spoiled`.

### TexterUi, RoomWindow

The handlers of the widget call each other and the program's handlers, all in one
thread, so a handler is an operator on the record `ui`, and a loop of a handler a
recursive function over its rounds. An assertion of the widget that fails is recorded
by name in `failed`, and the screen does nothing more. `RoomWindow` has the actions:
the user opens, scrolls and leaves; the widget's events are handled one at a time, the
user and the queue of the task waiting until none is left (`draining`);
the task answers requests with chunks, from a server with pages; /sync brings new
messages; keys come late. A text has the height of one unit and the screen shows
`Viewport` of them; the thresholds of loading and unloading are in the same unit.
One conversation is modelled, without edits, deletions and titles.

### Slips

An operator marked *Slip* states a plausible mistake in the definition next to
it: a guard forgotten, an index off by one, a counter not moved. It is not used
by the specification. Putting it in the place of the definition makes TLC report
the property named for it in `mutants` of `PROJECT.json`, which shows that the
property depends on that code.

## 3. The runs

| run | instance | shows |
|---|---|---|
| `Daemon` | 3 tokens, own token 1; 2 clients and 1 watcher, or 3 watchers, whose sockets hold one byte; one request unserved per client, one with and one without an answer | `SlotsEnumerateTokens`, `OneClientPerModule`, `AnswersMatchCalls`, `WatchersToldEverything`, `ConnectAnswered`, `ModulesAnnounced`, and that `McpdDaemon` implements `ModuleDirectory` |
| `Resources` | 2 clients, 2 peripherals of one type; either 2 drivers and routes, or pins and requests valid or not | `HandlesAreGood`, `RoutesMatchResources`, `GpioPinsLentOnce` |
| `Transfer` | 2 peers, one sends and one receives, exchanges, pipes and requests of 2 bytes | `BytesAccounted`, `NoLostWakeup`, `ReportsAreSeen`, `TransfersEnd` |
| `Fs` | 2 modules, 2 programs that cache and one that uses files; a file of two pieces and an empty one; either 3 calls of files, or 1 and 2 of the cache; one write, one restart | `ConnectionsMatchFiles`, `RootListsModules`, `CacheHoldsContent`, `CachingEnds` |
| `BeeperDevices` | 2 other devices, 2 attempts, 1 restart; own user and a bot with 2 devices each, 2 changes, 2 ends of the program | `CompleteOnlyIfConfirmed`, `VerificationCompletes`, `ListsAreCurrent` |
| `BeeperTask` | 2 commands and events; 4 one-time keys, 2 claims, 3 messages, one session kept; 4 messages in 2 alternating sessions, one cached, 2 answers; a crash in each part | `HandledBeforeExit`, `StopEndsTheTask`, `EventsAreTaken`, `HeldKeysAreSaved`, `NothingReadTwice`, `NothingDropped`, `KeysToppedUp`, `ShownOrWaiting`, `MessagesGetShown` |
| `BeeperTexts` | 2 rooms, a bot with 2 devices, ranges of 3 ids up to 9, one retry, 3 texts; a room of 6 events, 4 of them there at the beginning, the fifth no message and one encrypted, pages of 2, 8 moves of the user; 3 handles and descriptors, one registration more | `TxnIdsUnique`, `TextsArriveOnce`, `KeysUsedOnce`, `TextsAreReadable`, `WidgetAssertionsHold`, `WindowMatchesBubbles`, `BubblesShowTheirMessages`, `NoBubbleWaitsInVain`, `WindowKeepsUp`, `CallsAreForTheirOwn` |
| `DaemonFresh` | 3 watchers, 2 tokens | finding 1 |
| `TxnIdCrash` | ranges of 3 ids | finding 2 |
| `QueueClose` | 1 command, 1 event | finding 3 |
| `FsRoot` | 3 modules, own token 2, 3 calls of one program, nobody caches | finding 4 |
| `OtkAssert` | 4 one-time keys, 3 claims, a crash | finding 5 |

Why the bounds are enough to meet the interesting cases:

* The daemon's own token (`MyToken`) lies between two modules, so slots are
  appended before, across and after it, in one jump or several.
* Two clients are what a claim of exclusiveness needs: one that uses a slot,
  perhaps disabled by its transfer, and one that asks for it.
* Three watchers are the least for which the last entry moves into the place of
  one that is neither it nor its neighbour, and for which one can be accepted in
  the round that closes another. A socket of one byte makes the daemon sleep in
  every write.
* `MaxRequests` is 1: one more request in the socket than the one being served
  is what a caller that does not wait can leave behind; larger values only
  lengthen the queue, which is read one request at a time.
* One resource per client (`MaxResources`) and four pins over two peripherals
  give every clash between two clients: the same pin, a pin and a route, the
  same peripheral with the same and with different drivers.
* A request of two bytes (`MaxLen`) needs two exchanges when the pipe holds one
  byte or only one has been sent, so it is suspended between them.
* Two modules around the own number let a look at the root pass it, and two programs
  that cache compete for one content, on one module or on two. A file of two pieces can
  be cut off in the middle.
* Two other devices and two attempts mix the messages of two verifications, of one
  device or of two, before and after a restart. One press waiting in the queue is
  enough: it may be pressed again when the first was taken, in a later step.
* One session kept per user (`OtkCapacity`) and one cached per room
  (`RoomCapacity`) make every second session push the first one out. Three messages
  are two in one session, out of order with one of another.
* A user whose devices change twice changes once between the answer and its end
  and once before or after; two ends of the program let a file be written,
  loaded and written again.
* Three ids per range let a run end inside a range, at its end, and during the
  renewal, of the first and of later ranges; two rooms take turns in
  `outbound`, so that a session comes back from its file. Two devices of the bot are
  enough for a key to be encrypted for the wrong one, and for the order of their sessions to change.
* Six events and a screen of one text let chunks be asked for on either side, come back
  after the window has moved on, and meet new messages. With the fifth no message a
  window becomes caught up below the last message, and its bottom bubble then waits: the two
  cases that `WindowKeepsUp` and `NoBubbleWaitsInVain` except do occur. The other bounds
  (`MaxTxnId`, `MaxCommands`, `MaxEvents`, `MaxAdds`, `MaxMoves`) stop counters that
  only grow.
* `CHECK_DEADLOCK FALSE` is used where the program may stop: every watcher has
  gone, the app is closed, an assertion has failed, no registration is left to be
  made, or the users do nothing more.

### Fairness

* `McpdDaemon`: weak fairness of the daemon as a whole (one thread that never
  stops while it can act), of a client that has its answer and only has to read
  it, and of a watcher's `mcpd_watch_wait()`, which mcp_init calls in a loop. The
  poller's news is served at the top of each round before any socket
  (`src/mcpd/mcpd.c:798-814`), so `PollerPresence` is strongly fair.
  Nothing makes anybody connect, disconnect or finish a transfer, so
  `ConnectAnswered` holds although transfers may last for ever. It would fail if a
  program kept a watch open and did not read it: see the divergence below.
* `McpdTransfer`: weak fairness of the daemon's steps and of the backplane's
  answer; strong fairness of the poller, whose signal is looked for each time
  round the loop and in every wait, and of the backplane's reports, since it
  passes over no module for ever; weak fairness of modules and clients, so
  `TransfersEnd` says that a transfer ends *if* the bytes come and go.
* `TaskQueue`: both threads are scheduled, and requests to the server return.
  The user need do nothing, nothing need arrive from the network, and waking by
  the network is not fair: only the eventfd can be relied on.
* `FsCache`: the thread of mcp_fs answers (weak), and so does the module; a caller's
  steps are strongly fair, because the semaphore and the module it waits for are
  free again and again. Nobody need call, write or restart.
* `Verification`: the thread, the network and both users go on; the other device may
  give up and the app restart, which the property excepts.
* `OneTimeKeys`: the thread only. `RoomKeys`: the thread, the event that names the
  bridge, and the bot's answers; nobody need write or share a key unasked.

## 4. What the checks found

1. **A watcher may be dropped, or the daemon aborted, by memory nobody wrote**
   (`DaemonFresh`, `NeverAborts`). `src/mcpd/mcpd.c:873` enlarges the array with
   `realloc()`, and the entry of an accepted watcher has no `revents` until the
   next `poll()`. When another watcher hangs up in the same round,
   `close_watcher()` copies that entry to a place the loop still examines. A
   value with POLLHUP closes the new watcher; one that is neither 0, POLLOUT
   nor POLLHUP reaches `assert(0)` at line 1153. `ModulesAnnounced` therefore
   excepts an abandoned watcher.
2. **A crash can make the app unable to start** (`TxnIdCrash`,
   `NeverUnreadable`). The file of transaction ids is truncated at
   `src/beeper/beeper_task.c:334` and written at 338; if the program dies in
   between, the next start reads 0 bytes and fails `assert(rwres == 16)`
   (line 363), and so does each one after it.
3. **Closing the app may free a bool** (`QueueClose`, `OnlyPointersFreed`).
   `base_obj_delete_cb()` frees the data of every queued event
   (`src/beeper/beeper_ui_util.c:404`), and the data of
   BEEPER_TASK_EVENT_VERIFICATION_STATUS is the truth value itself
   (`src/beeper/beeper_task.h:40`).

4. **The file system may take a module for itself, and then abort** (`FsRoot`,
   `AtMostOneIsMissing`). A look at the root takes the first number that does not
   answer for the own one. If modules are still arriving it may be one that comes
   later. When all are there and a file of a module above the own one has been named, the
   next look asks the own number, which does not answer, and fails
   `assert(vinfo->self_index < 0)` (`src/mcp_fs/mcp_fs.c:385`).
5. **After a crash the app may fail an assertion at every start** (`OtkAssert`,
   `NotMoreThanAsked`). New one-time keys are saved, uploaded, and marked as
   published. If the program dies after the upload, a verified device does not mark
   them when it starts (`src/beeper/beeper_task.c:2901`); after one more key was used
   it asks for fewer than it holds: `assert(otks_n <= n)` (line 426).

Observations without a run of their own, met while modelling:

* The comment at `src/mcpd/mcpd.c:884` says "set non-blocking", but line 887 clears
  `O_NONBLOCK`, so the socket of a watcher blocks and the EAGAIN path of
  `update_watcher()` is never taken. The model has what the code does: `WriteToken`
  waits for room. A program that stops reading its watch stops the daemon.
* A restart during `sendfile()` leaves a part of a copy that later callers take for
  the whole (`src/mcp_fs/mcp_fs.c:755`, 777): `CacheHoldsContent` excepts `spoiled`.
* The key list is a cache that nothing invalidates for what changed while the
  program was down: the first /sync has no `since`, and its answer names nobody.
  `device_key_status()` reads this list too, so a device that was verified shortly before
  a crash may show as not verified (the comment at `src/beeper/beeper_task.c:2856` says "check
  whether ... our keys have been signed"). `Verification` and `OneTimeKeys` let the
  status be old after a restart. `ListsAreCurrent` excepts `missed`.
* `key_list_save()` truncates the file before it writes it, like the transaction ids, and
  `key_list_init()` asserts that it is whole: `StartTorn` ends every later start.
  Files of sessions cut short fail an assertion in the same way, at each message.
* A user who had keys and has none any more is not saved (`dont_save`), and does not
  cause a save either: the file keeps the old ones.
* A session is saved (`src/beeper/beeper_task.c:1218`) before its one-time key is removed
  (1221). If the program dies in between, the first message is delivered again, the
  saved session has read it already, and it begins a second session with the key that is
  still there. Two sessions of one claim know different messages as read: after another
  crash the one opens what the other has read, and the event is handled twice.
  `NothingReadTwice` excepts these sessions (`cut`). The run `BeeperTask` keeps one session
  and has one crash, where this cannot happen; with two of each TLC finds it when the
  exception is left out, and the theorem holds for any number.
* `src/beeper/beeper_task.c:2311`: one waiting message that a key does not open drops
  all that wait after it. A key opens its own index and all later ones, so these are messages
  that it would have opened. A forwarded key that opens more than the one at hand is ignored.
  `ShownOrWaiting` and `MessagesGetShown` except what was dropped (`stuck`).
* `src/beeper/beeper_task.c:1274`: the key of a room is sent to each device of the bot (3225), but
  encrypted each time in the first session with that user. With two devices, all but the one
  that this session is with get a key that they cannot open. `TextsAreReadable` promises
  therefore this device and one device of the bot. Put `\A d \in BotDevices` in the place of `\E`,
  and TLC finds the other one in `BeeperTexts`.
* An account that is cut short is lost without a word. `pickle_account()` truncates the file, and if
  the program dies before it is written, the next start reads nothing, does not look at the result of
  `olm_unpickle_account()` (`src/beeper/beeper_task.c:2824`) and goes on with the memory of an account
  that was neither read nor made. A device that is not verified marks and saves it at once (2906-2908),
  a verified one when keys are next topped up. The server goes on handing out keys that nobody
  has, and messages, addressed to the old identity, are dropped at 3689-3703 and acknowledged by the next
  /sync. `HeldKeysAreSaved` and `NothingDropped` hold up to there (`accountFile.own`): no
  assertion or comment of the code says what it expects of such a file.
* `src/beeper/beeper_task.c:1648-1660`: a device that was asked for by name and has logged out is not in
  the answer, and `key_list_update_()` leaves it listed as it was, with its keys and whether it is
  signed. `ListsAreCurrent` excepts such devices (`Outlived`). Only where all devices of a user are asked
  for are they made anew from the answer.
* `src/mcpd/mcpd.c:1041`: a route is granted without a look at who else has recorded the pin, so a
  pin that was lent for direct use may be connected, and driven directly as well by a
  later `mcpd_gpio_set()`. The other way round a pin with a route is not lent
  (`src/mcpd/mcpd.c:952-964`). `GpioPinsLentOnce` is about pins that are lent, and
  `RoutesMatchResources` about the connections; nothing is claimed of a pin that is both.
* `src/texter_ui/texter_ui.c:807`: `assert(!fut->is_latest)` can fail when the last message
  cannot be read yet, with the times of all messages in order. A new message comes by /sync to
  a closed room: its future becomes the latest, and a future below it is made, whose LOAD is
  queued. Before that is handled, the answer to the room's first request brings a still later
  message whose key is missing. It is inserted at the end of the window and takes over the
  future (`src/beeper/beeper_ui_util.c:237-261`), whose text becomes NULL. The room is opened,
  without a bubble for it. When the key comes, the future gets its text; there is one
  below it, and it is the latest. TLC finds these 11 states for `WindowSpec` with the constants of
  `BeeperTexts` but `NoMessages = {}` and `Encrypted = {6}`, and `ui.failed = {}` as the invariant.
  `WidgetAssertionsHold` is about all the other assertions, and in the instance of
  `BeeperTexts` this one does not fail either.
* A window may have gaps. When an UNLOAD has cut a chunk in two, the message left at the
  edge still has the chunk id of the whole (`src/beeper/beeper_ui_util.c:238`, 287), so the
  next LOAD asks from the end of that chunk (lines 452 and 480) and what was dropped is
  passed over. In the instance of `BeeperTexts`: the room shows 3 and 4, the user leaves, 3
  is dropped, the user comes back, and above 4 stands 2.
* The last chunk before the end of a room makes the window caught up
  (`src/beeper/beeper_ui_util.c:342-347`) although it may hold no message, or none above what
  came meanwhile. What /sync brought after the end of the window is then missing until that part
  of the room is loaded anew. `FollowsTheRoom` is therefore not an invariant, in the instance of `BeeperTexts`
  either; `WindowKeepsUp` says that this step is the only one that ends it, and `NoBubbleWaitsInVain` promises
  the last message only to a window that has it.
* The first request of a room has no chunk id. Its answer looks like one of /sync, and
  nothing more is asked for (`src/beeper/beeper_ui_util.c:322`): a room whose last page holds
  no message stays empty, with a bubble that waits. `NoBubbleWaitsInVain` does not promise more
  there. Such rooms occur with 7 events, `NoMessages = {5, 6}` and 4 events at the beginning, where
  TLC finds `WindowKeepsUp` and `NoBubbleWaitsInVain` true as well.
* The chunk id of an event may be NULL (`src/beeper/beeper_task.h:26-27`) and is
  given to `strlen()`; `crashed` would record it. No state of the instance in `BeeperTexts`
  reaches it.
* A message at the edge of the window that cannot be read stops loading on that side; the
  preview of a closed conversation is not refreshed (`src/texter_ui/texter_ui.c:502-504`).

## 5. The proofs

TLC checks the instances above; these hold for every value of the constants.

**McpdTransferProofs.** From `TransferAssumption` (the peers are a finite set of
numbers, the sizes positive) and nothing else: `TransferTypes`,
`TransferBytesAccounted`, `TransferNoLostWakeup`, `TransferReportsAreSeen`. None
of the four is inductive by itself. The invariant `IInv` adds

* `Place`: `cur` is a peer exactly while `continue_transfer()` runs, and the scan
  is over when the daemon is at the top;
* `Exchange`: what the backplane offered is no more than what is left, than what
  the pipe can move, and, once taken from the client, than what it supplied. Only
  this keeps `left` from going below zero and the pipes within their capacity;
* `Requests`: an idle slot has no request, a client supplies no more than it
  announced;
* `WakeupOfCurrent`: for the peer being worked on, which `NoLostWakeup` leaves
  out, a report is on the way if the answer was "nothing" and bytes could move
  now. It is what makes the decision to wait safe.

`StepKeepsIInv` goes action by action, and within one conjunct by conjunct where
the action disturbs it.

**McpdDaemonProofs.** From `DaemonAssumption` (at most 255 modules, an own token
below that number, finite sets of clients and watchers whose sockets differ, other
requests that are not called quit, read or write): `DaemonTypes`, `DaemonSlots`,
`DaemonOneClientPerModule`, `DaemonAnswersMatchCalls`, `DaemonWatchersToldEverything`,
`DaemonImplementsDirectory`. `DaemonSlots` is inductive
with the order of the three token counts (`Counts`), from which 8-bit subtraction
never wraps. The next three rest on one invariant, `IInv`, of these parts:

* `SlotsAreUsed`: a slot belongs to a client exactly from the OK in its socket to
  the answer to its QUIT. Exclusive use follows at once, but it is preserved only
  with the parts below, which say when a client may be answered at all;
* `RequestsInOrder`: a request that has an answer is the last one in its socket:
  requests without an answer may precede it, none follows;
* `AnswersInOrder` and `TransfersOfUsers`: an answer is there only for a client that
  waits, and a read under way has a client that waits for it and asked for nothing
  else. Together they exclude that the end of a transfer answers another call;
* `ReadyStays`: what `poll()` found is still there when the loop comes to it, although
  the loop serves others first;
* `BacklogWaits`: a connection that is not accepted belongs to a client that waits
  for the answer, and no client is in the queue twice;
* `Place` and `WatchTypes`: `remaining_ready_fds` is positive while the loop runs, and
  the watcher under update exists, across every removal.

`SlotsStep`, `WatchStep` and `ClientsStep` go action by action; `ClientsStep` cites
one lemma for each step of the daemon or the library that a client can notice.

`DaemonWatchersToldEverything` needs `ToldInv` besides:

* `WatchersOnce`: a watcher waits to be accepted or has one entry, and no two entries are
  of one socket, whichever entry moves into the place of another;
* `HeardUpToNext`: what is in its socket and what it has read are together the tokens
  below `next`, so that writing one byte and adding one to `next` is right;
* `BehindAreAhead`: only the entries the loop has not come to are behind, so that none is
  behind when the daemon sleeps.

`DaemonImplementsDirectory` is the refinement: `DirStep` writes out the actions of
`ModuleDirectory` under the mapping, `DirectoryStep` shows of each action of the daemon,
the clients and the watchers that it is one of them or changes none of its variables.
A grant needs `OneClientPerModule`, an announcement needs `HeardUpToNext`.

**McpdResourcesProofs.** From `DaemonAssumption`, `ResourceAssumption` (what the table of
peripherals and the requests are made of; a peer has at most 255 resources) and
`BoardAssumption`: no two peripherals of `mcp_pins[]` share a pin. That table comes with the
board and is not in the repository. The code relies on it: QUIT disconnects a route
without looking whether another peer has recorded the same one, so with a shared
pin `RoutesMatchResources` would be false. `ResourcesKeepDaemon` says that each handler is a step of
`ServeOther`, so that all of `McpdDaemonProofs` holds of `RSpec`.
`ResourcesHandlesAreGood`, `ResourcesRoutesMatch` and `ResourcesGpioPinsLentOnce` rest on
`RIInv`:

* `HandlesHeld`, `AskedIsSent`, `AnswersHeld`: a handle is good not only once it was read but
  from the moment its number is in the socket, and the request that is answered is
  the one its client remembers to have made;
* `HeldByConnected`: without a client nothing is owned and nothing recorded;
* `RoutesInv`: a recorded route starts at a pin of a peripheral of its own module
  (`OwnRoutes`), and a connection exists exactly if some peer has recorded it. The first
  part is what `BoardAssumption` makes exclusive.

**McpFsProofs.** From `FsAssumption` and `CacheAssumption` (programs that cache are
programs; sizes are numbers): `FsConnectionsMatchFiles`, `FsRootListsModules`,
`FsCacheHoldsContent`, all of `FsCache`'s specification. The steps are first brought
into the form `Acts`, in which what concerns only the cache looks like an answer
(`StepsAreActs`). The invariant is

* `FilesInv`: `ConnectionsMatchFiles`, one user and one module at a time; a call under way
  is never about a module that has open files;
* `RootInv`: the numbers in `peers` have no gap, a look beyond the own number has found it
  (`LookInv`), and a listing under way has named all numbers up to its cursor
  (`ListedSoFar`);
* `CopyInv`: who waits for a hash holds the module, one caller is inside the semaphore of
  a hash, and a caller has a file open exactly between the answer to its open and its
  close (`CopiersFiles`), which ties the copy to the call in `job`;
* `CacheInv`: what each place of a caller says of the content (`HashOk`, `PlaceOk`,
  `ReturnOk`): a part of a copy means that somebody is making it, and a content that
  was returned is not removed.

**BeeperTextsProofs.** Three parts.

* From `TxnIdAssumption` (a range is not empty): `TxnIdsAreUnique` and
  `TxnIdRangeCovers`. They hold in `Sending` too, whose steps are steps of `TxnId` or leave
  its variables alone. The invariant adds `NextIsNew` (the next id is beyond all issued
  ones), `AbsentMeansNone` (without a file nothing was ever issued) and `InRange`
  (where the next id lies between the issued ones and the end of the range, at each place
  of the program).
* From `SendingAssumption` besides (the devices of the bot are numbered, rooms are not 0,
  retries are a number): `SendingTextsArriveOnce`, `SendingKeysUsedOnce` and
  `SendingTextsAreReadable`, for any number of devices. An id that is being issued is new to the server
  (`TxnIdInvariant`); the invariant adds
  - `RequestIsIssued`, `QueueBehindRooms`: the server has seen only issued ids, and what is in a
    room was written before all that waits, except that the first in the queue may be there
    already while its request is under way;
  - `SessionsOfRooms`, `CipherIsLast`, `KeysBehindSessions`: a file has its session as it is in
    memory, or none; the text being sent has the key before the next one; and every
    session, in memory or in a file, is beyond the keys that were used. This is where
    saving before sending matters;
  - `SharedBeforeUse`: a session is in a file only when a device of the bot has its key, and while
    it is shared, the device of the first session has it or its turn is still to come.
* From `NULLAssumption` and `FdsAssumption` (NULL is no address; descriptors are numbers):
  `LoopCallsAreForTheirOwn`, an action property. The invariant is `InterestIsOfHandles` (epoll knows
  a descriptor exactly as long as a handle in the list is for it, and by that handle's
  address) and `EventsAreOfTheirOwn`: each event of the batch that is still to come
  is of the registration that now lives at its address. Only taking removed handles
  out of the batch keeps the second when the address is used again.

**RoomWindowProofs.** `WindowAlwaysMatchesBubbles`, `BubblesAlwaysShowTheirMessages` and
`WidgetAssertionsAlwaysHold`, from `WindowAssumption` and `TexterAssumption` (sizes are
numbers, the upper threshold is not 0) and the hypothesis `FuturesAreUnlimited` (futures are
numbers, and there is a greater one than each): `Futures` bounds what TLC uses at a time, while
the code allocates one when it needs it. They are one induction, since none of them is
preserved without the others. Its
invariant, `WindowInv`, says that there is a sequence H of futures, those that the messages
from `bubble_top` to `bubble_bottom` hold, and a map C of what their messages show, such that

* `Fits`: the list of messages holds exactly H there, nothing outside, and what each message
  shows is in C. Between the steps of an insertion the row has a hole, whose place is a
  parameter: `MoveHole` moves it one place on, and `CloseHole` to the end;
* `Leads`: the queued events turn H into the bubbles, each LOAD adding at its end and each
  UNLOAD taking its own future from its end, with every future in one event at most. It is
  said with the path of lists that the events pass through (`IsPath`), so that an event can be
  taken from the front by the window, added at the back by the widget, and cancelled in
  the middle when a LOAD is withdrawn;
* `Shape`: a bubble shows what C says; at most one bubble is the latest and below it is
  at most one, which waits (`LatestBut`); while the conversation is open only bubbles at the
  ends may wait (`DrawnBut`). Both are stated with a set of futures excepted, since
  `future_set_message()` breaks them and mends them. The assertions of the widget follow from
  this shape, and only from it;
* `Scrolled`: the open area is scrolled no further than its height, so that `update_scroll()`
  does not let go of the last bubble (`MayGo`);
* `Rest`: a conversation that is closed has one bubble with the latest text or the first
  future, and at most one below it that waits for the next;
* `Asks`: requests are well formed, and a window without bubbles wants no chunk.

Each handler is shown to keep this for the new H (a LOAD or UNLOAD changes it, a text or a
chunk does not) and then each action is a few of these lemmas. Loops of handlers
are recursive functions over the rounds; what holds of each round holds of all by
looking at the first round where it would not (`AllUpTo`), because the library's
induction theorems are out of the prover's reach.

**BeeperDevicesProofs.** From `DevicesAssumption` (this device has a name that a list may
hold): `VerificationIsConfirmed` and `KeyListIsCurrent`. For the first, `SasInv` adds
`OthersConfirmed` (the other device signs only what its user confirmed) and
`PressesAreOfThisAttempt` (the button is not there before an attempt shows its
emoji, so a press in the queue is about the attempt under way: a new attempt cannot
take one of the last). For the second, `KeysInv` adds

* `ListIsCurrent` and `FileIsCurrent`: the list is what the server has of the devices that are
  still there (`Matches`), and so is the file unless it will be written or the entry is marked not to be saved;
* `FileIsListed`: who is in the file is in the list, unless the file will be written;
* `ListShape`, `FileShape`, `AnswersInv`: between two steps nobody listed is outdated, nobody
  outdated is ever written, and what an answer has named is not yet applied only
  between the answer and its end.

**BeeperTaskProofs.** Three invariants, one for each part of the run.

* `TaskHandlesBeforeExit`, without assumptions: `StopIsLast` says that STOP is pushed once,
  nothing is pushed after it, and the thread has not ended before it.
* `TaskMessagesAreShownOrWait`, from `RoomAssumption` (the timeline is a sequence; each
  session has an earliest index): `AllCovered` is the property; `OnceEach` says that no
  message waits twice, so that taking it out of the queue once is enough.
* `TaskHeldKeysAreSaved`, `TaskDropsNothing` and `TaskReadsNothingTwice`, from
  `OlmAssumption` (at least one session is kept per user). The three need each other's
  parts, are stated up to an account that was cut short (`own`), and are all about `Handled`, the messages handed on, in the hand of the
  thread or cut short, a set that only grows:
  - `OnlySent`, `AccountSaved`: what arrives was sent; memory and file agree while
    the thread runs, and a key is to be removed only with its message in hand;
  - `KeysHeld`: a key is in the file until a message of its claim was handled;
  - `SessionsKept`: a session that was begun and need be readable is in the file, and has
    read only what was handled. So a message that comes again after a crash finds it;
  - `NoneDropped`: what was sent is handled or still with the server;
  - `KeysSpent`, `ReadOnce`: a claim of which nothing was cut short has one session,
    since its key is gone or goes next, and that session knows all that was handed on.

The parts `TaskQueue`, `OneTimeKeys`, `RoomKeys`, `Verification` and `KeyList` share no
variable, so an invariant of one is preserved by the steps of the others trivially;
the theorems are stated of the modules that hold them because the runs are.

**Model-checked only.**

* Liveness (`ConnectAnswered`, `ModulesAnnounced`, `TransfersEnd`, `StopEndsTheTask`,
  `EventsAreTaken`, `CachingEnds`, `VerificationCompletes`, `KeysToppedUp`,
  `MessagesGetShown`), because the prover has no fairness.
* `WindowKeepsUp` and `NoBubbleWaitsInVain`, which are stated with the exceptions of section 4. An
  induction for them would have to follow requests and chunks through the queue, beyond what
  `WindowInv` knows of them. TLC also finds them true in rooms of 8 events with 10 moves, the last two
  no messages, and with pages of 1.

## 6. What is not modelled

* The two-wire protocol below the exchanges of mcpd (`pin_wait()`, `sm_next()`,
  `run_socket()`): it drives a library that is not in the repository. Its effect,
  one byte at a time with the poller running in between, is in `McpdTransfer`.
* The asynchronous calls of mcp_lvgl and of mcpd's library, its list of apps; the
  counter of mcp_forth. They are small and planned, below.
* texter_ui with several conversations, their deletion, titles and typed text, and
  heights in pixels.
* Of beeper: login, HTTP, TLS and the parsing of JSON, cryptography beyond who can
  read and who has signed what, the screens, edits and deletions of messages.
* Drawing, the emoji pictures, the desktop simulator, the demonstrations, and the Forth
  engine and emulator cores, which are empty submodules; the frame clock of
  peanut_gb has no state that outlives a frame but the emulator's.
* A client of mcpd that dies without QUIT: no program here closes such a socket
  otherwise, and the daemon asserts that it does not happen.

## 7. Plan

Done, in this order: `ModuleDirectory`, `McpdDaemon` and its proofs; `McpdResources`;
`McpdTransfer` and its proofs; `TxnId` and its proofs; `TaskQueue`; `PollLoop`;
`McpFs` and `FsCache`; `Verification`; `OneTimeKeys` and `RoomKeys`; `Sending`;
`TexterUi` and `RoomWindow`; `KeyList`.

Proved since: `WatchersToldEverything` and the refinement of `ModuleDirectory`;
`McpdResources`; `McpFs` and `FsCache`; `Sending`; `Verification` and `KeyList`;
`TaskQueue`, `RoomKeys` and `OneTimeKeys`; `PollLoop`; `TexterUi` and `RoomWindow`. Every
invariant of a passing run is proved, but `NoBubbleWaitsInVain`.

Next, proofs: what a step may never do (`issued` only grows, the told tokens only grow) as
action properties on the invariants that exist; `WindowKeepsUp`, and the conditions on the
server under which a window has no gaps.

Then, models: the asynchronous calls of mcp_lvgl, the counter of mcp_forth, deletion in
texter_ui.
