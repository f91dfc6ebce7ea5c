------------------------------- MODULE McpFs -------------------------------
(***************************************************************************)
(* The file system over the modules, src/mcp_fs/mcp_fs.c: one thread in    *)
(* userfs_run() that serves the file operations of all programs one at a   *)
(* time.  A module is a directory with its token as the name.  mcpd lends  *)
(* a module to one client at a time, so the files open on one share a      *)
(* connection.  The file system is not told the token of the module it     *)
(* runs on: it takes the one number that is missing among its peers.       *)
(* A program blocks in its call; errors are not told apart.                *)
(***************************************************************************)
EXTENDS Integers, FiniteSets

CONSTANTS Own,       \* the token of the module this runs on
          Last,      \* the highest token
          Users,     \* the programs that use the file system
          Plans      \* bound: how many calls the programs make, one of these

ASSUME FsAssumption == Last \in Nat /\ Own \in 0..Last

VARIABLES
    arrived,    \* the tokens below this one are on the backplane
    holder,     \* whom mcpd lends each module to
    peers,      \* vinfo->peers: from 0 to peer_count - 1
    selfIndex,  \* vinfo->self_index
    job,        \* the call being served, if any
    fds,        \* per program the module its file is on, and its descriptors
    dirs,       \* per program its open directory
    result,     \* per program what its last call returned
    early,      \* did a look at the root begin before all below Own were there?
    aborted,    \* has an assertion failed?
    left        \* how many calls are still to come: of files, of the cache

fsVars == <<arrived, holder, peers, selfIndex, job, fds, dirs, result, early,
            aborted, left>>

Tokens  == 0..Last
Modules == Tokens \ {Own}

PeerCount == Cardinality(DOMAIN peers)
NewPeer   == [con |-> FALSE, refcount |-> 0, visited |-> FALSE, reading |-> FALSE]

Idle   == [op |-> "idle"]
NoFile == [on |-> -1, count |-> 0]
NoDir  == [is |-> "closed"]

Init ==
    /\ arrived = 0
    /\ holder = [t \in Modules |-> "nobody"]
    /\ peers = [i \in {} |-> NewPeer]
    /\ selfIndex = -1
    /\ job = Idle
    /\ fds = [u \in Users |-> NoFile]
    /\ dirs = [u \in Users |-> NoDir]
    /\ result = [u \in Users |-> "none"]
    /\ early = FALSE /\ aborted = FALSE
    /\ left \in Plans
-----------------------------------------------------------------------------
(* The backplane hands out tokens in order; the step past Own is nobody's. *)
ModuleArrives ==
    /\ arrived <= Last
    /\ arrived' = arrived + 1
    /\ UNCHANGED <<holder, peers, selfIndex, job, fds, dirs, result, early, aborted, left>>

(* mcpd_connect(): the daemon's own token does not exist for its clients.  *)
Exists(t) == t \in Modules /\ t < arrived
Vacant(t) == holder[t] = "nobody"

(* volinfo_ensure_peer(), after which the peer is marked as connected to.  *)
Ensured(t)  == [i \in 0..t \union DOMAIN peers |->
                   IF i \in DOMAIN peers THEN peers[i] ELSE NewPeer]
Visited(t)  == [Ensured(t) EXCEPT ![t].visited = TRUE]

InUse(t) == t \in DOMAIN peers /\ peers[t].con

(* What op_open(), op_opendir() and op_unlink() find before any exchange.  *)
Refuses(t) == t = selfIndex \/ InUse(t) \/ ~Exists(t)

Serve(u) == job = Idle /\ ~aborted
Spend(f) == left[f] > 0 /\ left' = [left EXCEPT ![f] = @ - 1]
Answer(u, r) == result' = [result EXCEPT ![u] = r]

Refused(u, t) ==
    /\ Serve(u) /\ Refuses(t)
    /\ Answer(u, "error")
    /\ UNCHANGED <<arrived, holder, peers, selfIndex, job, fds, dirs, early, aborted>>

FoundBusy(u, t) ==
    /\ Serve(u) /\ ~Refuses(t) /\ ~Vacant(t)
    /\ peers' = Visited(t)
    /\ Answer(u, "error")
    /\ UNCHANGED <<arrived, holder, selfIndex, job, fds, dirs, early, aborted>>

(* The connection is made; what the module answers comes later.            *)
Begin(op, u, t, reading) ==
    /\ Serve(u) /\ ~Refuses(t) /\ Vacant(t)
    /\ peers' = Visited(t)
    /\ holder' = [holder EXCEPT ![t] = "fs"]
    /\ job' = [op |-> op, user |-> u, on |-> t, reading |-> reading]
    /\ UNCHANGED <<arrived, selfIndex, fds, dirs, result, early, aborted>>

Calls(op, u, t, reading) ==
    Refused(u, t) \/ FoundBusy(u, t) \/ Begin(op, u, t, reading)

Serving(op) == job.op = op
Hangup(t)   == holder' = [holder EXCEPT ![t] = "nobody"]

(* op_open(): an unknown protocol or an error code of the module.          *)
OpenFails ==
    /\ Serving("open")
    /\ Hangup(job.on)
    /\ Answer(job.user, "error")
    /\ job' = Idle
    /\ UNCHANGED <<arrived, peers, selfIndex, fds, dirs, early, aborted, left>>

OpenSucceeds ==
    /\ Serving("open")
    /\ peers' = [peers EXCEPT ![job.on] =
                   [@ EXCEPT !.con = TRUE, !.refcount = 1, !.reading = job.reading]]
    /\ fds' = [fds EXCEPT ![job.user] = [on |-> job.on, count |-> 1]]
    /\ Answer(job.user, "ok")
    /\ job' = Idle
    /\ UNCHANGED <<arrived, holder, selfIndex, dirs, early, aborted, left>>

(* op_close(): only the last descriptor ends the connection; the module    *)
(* may report that what was written is lost.                               *)
LastOf(t) == peers[t].refcount = 1

\* Slip: the connection ends with the first descriptor.
LastOfAny(t) == TRUE

EndsConnection(t) == LastOf(t)

Close(u) ==
    LET t == fds[u].on IN
    /\ Serve(u) /\ fds[u].count > 0
    /\ peers' = [peers EXCEPT ![t].refcount = @ - 1, ![t].con = ~EndsConnection(t)]
    /\ IF EndsConnection(t) THEN Hangup(t) ELSE UNCHANGED holder
    /\ fds' = [fds EXCEPT ![u] = IF @.count = 1 THEN NoFile
                                 ELSE [on |-> t, count |-> @.count - 1]]
    /\ \/ Answer(u, "ok")
       \/ EndsConnection(t) /\ ~peers[t].reading /\ Answer(u, "error")
    /\ UNCHANGED <<arrived, selfIndex, job, dirs, early, aborted>>

Dup(u) ==
    /\ Serve(u) /\ fds[u].count \in 1..2
    /\ peers' = [peers EXCEPT ![fds[u].on].refcount = @ + 1]
    /\ fds' = [fds EXCEPT ![u].count = @ + 1]
    /\ UNCHANGED <<arrived, holder, selfIndex, job, dirs, result, early, aborted>>

(* op_read() and op_write() of a file opened the other way return EBADF;   *)
(* otherwise the module tells how it went.                                 *)
Transfer(u, read) ==
    /\ Serve(u) /\ fds[u].count > 0
    /\ \/ peers[fds[u].on].reading = read /\ Answer(u, "ok")
       \/ Answer(u, "error")
    /\ UNCHANGED <<arrived, holder, peers, selfIndex, job, fds, dirs, early, aborted>>
-----------------------------------------------------------------------------
(* op_stat() of a module's directory looks whether it is there, once.  Of  *)
(* a file it is open, fstat and close; that this close cannot fail is what *)
(* the code asserts and what a module is taken to keep.                    *)
StatDir(u, t) ==
    /\ Serve(u)
    /\ LET known == t \in DOMAIN peers /\ peers[t].visited IN
       \/ /\ t = selfIndex \/ (~known /\ ~Exists(t))
          /\ Answer(u, "error") /\ UNCHANGED peers
       \/ /\ t # selfIndex /\ (known \/ Exists(t))
          /\ Answer(u, "ok")
          /\ peers' = IF known THEN peers ELSE Visited(t)
    /\ UNCHANGED <<arrived, holder, selfIndex, job, fds, dirs, early, aborted>>

(* The exchange that ends a stat, an unlink or the listing of a module.    *)
Exchanged ==
    /\ job.op \in {"stat", "unlink", "list"}
    /\ Hangup(job.on)
    /\ \/ \E r \in {"ok", "error"} :
             job.op # "list" /\ Answer(job.user, r) /\ UNCHANGED dirs
       \/ /\ job.op = "list"
          /\ Answer(job.user, "ok")
          /\ dirs' = [dirs EXCEPT ![job.user] = [is |-> "module"]]
    /\ job' = Idle
    /\ UNCHANGED <<arrived, peers, selfIndex, fds, early, aborted, left>>
-----------------------------------------------------------------------------
(* op_opendir() of the root: the peers not yet seen are probed, then the   *)
(* numbers after them until one is missing that is not the own one.        *)
LookAtRoot(u) ==
    /\ Serve(u) /\ dirs[u] = NoDir
    /\ job' = [op |-> "look", user |-> u, at |-> 0, whole |-> arrived > Last]
    /\ early' = (early \/ arrived < Own)
    /\ UNCHANGED <<arrived, holder, peers, selfIndex, fds, dirs, result, aborted>>

Looking == Serving("look") /\ ~aborted
Onward  == job' = [job EXCEPT !.at = @ + 1]

Skipped(i) == InUse(i) \/ peers[i].visited \/ i = selfIndex

PassKnown ==
    /\ Looking /\ job.at < PeerCount /\ Skipped(job.at)
    /\ Onward
    /\ UNCHANGED <<arrived, holder, peers, selfIndex, fds, dirs, result, early, aborted, left>>

(* check_peer_is_present(): a module that answers is connected to and let  *)
(* go of in one step, so no program finds it busy in between.              *)
ProbeFinds ==
    /\ Looking /\ (job.at < PeerCount => ~Skipped(job.at))
    /\ Exists(job.at)
    /\ peers' = Visited(job.at)
    /\ Onward
    /\ UNCHANGED <<arrived, holder, selfIndex, fds, dirs, result, early, aborted, left>>

(* An absent number is the own one; a second one fails the assertion when  *)
(* it lies among the known peers, and ends the look when it lies beyond.   *)
TakeForOwn ==
    /\ Looking /\ (job.at < PeerCount => ~Skipped(job.at))
    /\ ~Exists(job.at) /\ selfIndex < 0
    /\ selfIndex' = job.at
    /\ peers' = Ensured(job.at)
    /\ Onward
    /\ UNCHANGED <<arrived, holder, fds, dirs, result, early, aborted, left>>

TwoAreMissing ==
    /\ Looking /\ job.at < PeerCount /\ ~Skipped(job.at)
    /\ ~Exists(job.at) /\ selfIndex >= 0
    /\ aborted' = TRUE
    /\ UNCHANGED <<arrived, holder, peers, selfIndex, job, fds, dirs, result, early, left>>

\* Slip: the loop ends at the first number that is missing.
EndOfLookAtGap == job.at = PeerCount /\ ~Exists(job.at)

EndOfLook == job.at = PeerCount /\ ~Exists(job.at) /\ selfIndex >= 0

LookDone ==
    /\ Looking /\ EndOfLook
    /\ dirs' = [dirs EXCEPT ![job.user] = [is |-> "root", count |-> PeerCount,
                    cursor |-> 0, listed |-> {}, whole |-> job.whole, ended |-> FALSE]]
    /\ Answer(job.user, "ok")
    /\ job' = Idle
    /\ UNCHANGED <<arrived, holder, peers, selfIndex, fds, early, aborted, left>>

(* op_readdir() leaves out the own number; listed is for the property.     *)
ReadDir(u) ==
    /\ Serve(u) /\ dirs[u].is = "root" /\ ~dirs[u].ended
    /\ LET d == dirs[u]
           c == IF d.cursor = selfIndex THEN d.cursor + 1 ELSE d.cursor
       IN dirs' = [dirs EXCEPT ![u] =
             IF c >= d.count THEN [d EXCEPT !.cursor = c, !.ended = TRUE]
             ELSE [d EXCEPT !.cursor = c + 1, !.listed = @ \union {c}]]
    /\ UNCHANGED <<arrived, holder, peers, selfIndex, job, fds, result, early, aborted>>

RewindDir(u) ==
    /\ Serve(u) /\ dirs[u].is = "root"
    /\ dirs' = [dirs EXCEPT ![u] = [@ EXCEPT !.cursor = 0, !.listed = {}, !.ended = FALSE]]
    /\ UNCHANGED <<arrived, holder, peers, selfIndex, job, fds, result, early, aborted>>

CloseDir(u) ==
    /\ Serve(u) /\ dirs[u] # NoDir
    /\ dirs' = [dirs EXCEPT ![u] = NoDir]
    /\ UNCHANGED <<arrived, holder, peers, selfIndex, job, fds, result, early, aborted>>
-----------------------------------------------------------------------------
(* Another program, a loader say, uses a module without the file system.   *)
ProgramConnects(t) ==
    /\ Exists(t) /\ Vacant(t)
    /\ holder' = [holder EXCEPT ![t] = "program"]
    /\ UNCHANGED <<arrived, peers, selfIndex, job, fds, dirs, result, early, aborted>>

ProgramDisconnects(t) ==
    /\ holder[t] = "program"
    /\ Hangup(t)
    /\ UNCHANGED <<arrived, peers, selfIndex, job, fds, dirs, result, early, aborted, left>>

Replies == OpenFails \/ OpenSucceeds \/ Exchanged

Look == PassKnown \/ ProbeFinds \/ TakeForOwn \/ TwoAreMissing \/ LookDone

Operation(u) ==
    /\ Spend("files")
    /\ \/ \E t \in Tokens, reading \in BOOLEAN :
             fds[u] = NoFile /\ Calls("open", u, t, reading)
       \/ Dup(u)
       \/ \E read \in BOOLEAN : Transfer(u, read)
       \/ \E t \in Tokens : StatDir(u, t)
       \/ \E t \in Tokens, op \in {"stat", "unlink"} : Calls(op, u, t, TRUE)
       \/ \E t \in Tokens : dirs[u] = NoDir /\ Calls("list", u, t, TRUE)
       \/ LookAtRoot(u)
       \/ \E t \in Modules : ProgramConnects(t)
       \/ RewindDir(u)

Closing(u) == (Close(u) \/ CloseDir(u)) /\ UNCHANGED left
Listing(u) == ReadDir(u) /\ UNCHANGED left

FsStep == Replies \/ Look \/ ModuleArrives \/ \E t \in Modules : ProgramDisconnects(t)

Next == FsStep \/ \E u \in Users : Operation(u) \/ Closing(u) \/ Listing(u)

Spec == Init /\ [][Next]_fsVars
-----------------------------------------------------------------------------
(* The file system holds a module in mcpd exactly while files on it are    *)
(* open or a call about it is served, and counts their descriptors right:  *)
(* op_open(), op_close(), op_dup() and every error path between.           *)
ConnectionsMatchFiles ==
    \A t \in Modules :
        LET users == {u \in Users : fds[u].on = t}
            busy  == job.op \in {"open", "stat", "unlink", "list"} /\ job.on = t
        IN /\ holder[t] = "fs" <=> (users # {} \/ busy)
           /\ users # {} <=> (t \in DOMAIN peers /\ peers[t].con)
           /\ \A u \in users : peers[t].refcount = fds[u].count /\ users = {u}

(* A listing of the root that was begun when all modules were there names  *)
(* each of them and not the own token, whatever else was opened between.   *)
RootListsModules ==
    \A u \in Users :
        dirs[u].is = "root" /\ dirs[u].ended /\ dirs[u].whole /\ ~early
            => dirs[u].listed = Modules

(* op_opendir() asserts vinfo->self_index < 0: at most one is missing.     *)
AtMostOneIsMissing == ~aborted
=============================================================================
