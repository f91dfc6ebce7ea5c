------------------------------ MODULE FsCache ------------------------------
(***************************************************************************)
(* mcp_fs_cache_file() of src/mcp_fs/mcp_fs.c: any program copies a file   *)
(* of a module into a directory that outlives restarts, under the hash of  *)
(* its content.  A module computes the hash itself.  A named semaphore per *)
(* hash keeps two programs from copying the same content at once; it is    *)
(* taken after the hash is read.  The copy goes through the file system of *)
(* McpFs, where the module may be in use.  A restart of the machine leaves *)
(* a copy as far as it got.                                                *)
(***************************************************************************)
EXTENDS McpFs

CONSTANTS Cachers,     \* the programs that call mcp_fs_cache_file()
          Contents,    \* contents of files, and so their hashes
          SizeOf,      \* their sizes, in pieces that are copied at once
          Initial,     \* what files the modules may come with
          MaxWrites,   \* bound: how often a file is replaced
          MaxRestarts  \* bound: how often the machine restarts

ASSUME CacheAssumption ==
    /\ Cachers \subseteq Users
    /\ "none" \notin Contents
    /\ \A c \in Contents : SizeOf[c] \in Nat
    /\ Initial \subseteq [Modules -> Contents]

VARIABLES
    content,   \* the file of each module
    cache,     \* per hash: absent, or the content copied and how much of it
    sem,       \* the semaphore of each hash
    at,        \* where each caller is
    want,      \* the module it wants, with the hash it was told
    returned,  \* the hash whose path it got back, or none
    spoiled,   \* hashes whose copy was cut off or is of a replaced file
    writes, restarts

cacheVars == <<content, cache, sem, at, want, returned, spoiled, writes, restarts>>
vars == <<fsVars, cacheVars>>

NoHash  == "none"
Absent  == [of |-> NoHash, size |-> 0]
NoWish  == [on |-> -1, hash |-> NoHash]
Complete(h) == [of |-> h, size |-> SizeOf[h]]

CInit ==
    /\ Init
    /\ content \in Initial
    /\ cache = [h \in Contents |-> Absent]
    /\ sem = [h \in Contents |-> 1]
    /\ at = [u \in Cachers |-> "idle"]
    /\ want = [u \in Cachers |-> NoWish]
    /\ returned = [u \in Cachers |-> NoHash]
    /\ spoiled = {}
    /\ writes = 0 /\ restarts = 0
-----------------------------------------------------------------------------
Go(u, place) == at' = [at EXCEPT ![u] = place]
Hash(u) == want[u].hash

(* The caller connects to the module itself and asks for the hash.         *)
BeginHash(u, t) ==
    /\ at[u] = "idle"
    /\ Spend("cache")
    /\ Exists(t) /\ Vacant(t)
    /\ holder' = [holder EXCEPT ![t] = "caller"]
    /\ want' = [want EXCEPT ![u] = [on |-> t, hash |-> NoHash]]
    /\ Go(u, "hashing")
    /\ UNCHANGED <<arrived, peers, selfIndex, job, fds, dirs, result, early, aborted,
                   content, cache, sem, returned, spoiled, writes, restarts>>

HashDone(u) ==
    /\ at[u] = "hashing"
    /\ Hangup(want[u].on)
    /\ \/ /\ want' = [want EXCEPT ![u].hash = content[want[u].on]]
          /\ Go(u, "hashed")
       \/ want' = [want EXCEPT ![u] = NoWish] /\ Go(u, "idle")
    /\ UNCHANGED <<arrived, peers, selfIndex, job, fds, dirs, result, early, aborted, left,
                   content, cache, sem, returned, spoiled, writes, restarts>>

CacheStep == UNCHANGED <<arrived, holder, peers, selfIndex, job, fds, dirs, early, aborted,
                         left, content, writes, restarts>>

\* Slip: the semaphore lets everybody pass.
MayPassAlways(h) == TRUE

MayPass(h) == sem[h] > 0

SemWait(u) ==
    /\ at[u] = "hashed"
    /\ MayPass(Hash(u))
    /\ sem' = [sem EXCEPT ![Hash(u)] = 0]
    /\ Go(u, "looking")
    /\ CacheStep /\ UNCHANGED <<result, cache, want, returned, spoiled>>

(* stat(): a file that is not empty counts as the copy, and an empty one   *)
(* when empty is what the hash stands for.                                 *)
Cached(h) == cache[h] # Absent /\ (cache[h].size > 0 \/ SizeOf[h] = 0)

\* Slip: a call that cannot open the file leaves without sem_post().
PostedIfOpened(u) == sem[Hash(u)] + (IF at[u] = "opening" THEN 0 ELSE 1)

Posted(u) == sem[Hash(u)] + 1

Leave(u, h) ==
    /\ sem' = [sem EXCEPT ![Hash(u)] = Posted(u)]
    /\ returned' = [returned EXCEPT ![u] = h]
    /\ want' = [want EXCEPT ![u] = NoWish]
    /\ Go(u, "idle")

FindCached(u) ==
    /\ at[u] = "looking" /\ Cached(Hash(u))
    /\ Leave(u, Hash(u))
    /\ CacheStep /\ UNCHANGED <<result, cache, spoiled>>

(* open() with O_CREAT and not O_TRUNC; then the file is opened through    *)
(* the file system.                                                        *)
CreateCopy(u) ==
    /\ at[u] = "looking" /\ ~Cached(Hash(u))
    /\ cache' = [cache EXCEPT ![Hash(u)] = IF @ = Absent THEN [of |-> Hash(u), size |-> 0]
                                                           ELSE @]
    /\ Answer(u, "none")
    /\ Go(u, "opening")
    /\ CacheStep /\ UNCHANGED <<sem, want, returned, spoiled>>

(* Or the copy cannot be opened on the card, and nothing has changed.      *)
CopyNotCreated(u) ==
    /\ at[u] = "looking" /\ ~Cached(Hash(u))
    /\ Leave(u, NoHash)
    /\ CacheStep /\ UNCHANGED <<result, cache, spoiled>>

OpenFile(u) ==
    /\ at[u] = "opening" /\ result[u] = "none"
    /\ Calls("open", u, want[u].on, TRUE)
    /\ UNCHANGED <<left, cacheVars>>

AfterFailure(u) == Absent

(* unlink() of what there is of the copy.                                  *)
OpenFailed(u) ==
    /\ at[u] = "opening" /\ result[u] = "error"
    /\ cache' = [cache EXCEPT ![Hash(u)] = AfterFailure(u)]
    /\ Leave(u, NoHash)
    /\ CacheStep /\ UNCHANGED <<result, spoiled>>

OpenDone(u) ==
    /\ at[u] = "opening" /\ result[u] = "ok"
    /\ cache' = [cache EXCEPT ![Hash(u)].of = content[want[u].on]]
    /\ spoiled' = IF content[want[u].on] = Hash(u) THEN spoiled ELSE spoiled \union {Hash(u)}
    /\ Go(u, "copying")
    /\ CacheStep /\ UNCHANGED <<result, sem, want, returned>>

(* sendfile(): piece by piece, and short if the module fails.              *)
CopyPiece(u) ==
    /\ at[u] = "copying" /\ Serve(u)
    /\ cache[Hash(u)].size < SizeOf[content[want[u].on]]
    /\ cache' = [cache EXCEPT ![Hash(u)].size = @ + 1]
    /\ CacheStep /\ UNCHANGED <<result, at, sem, want, returned, spoiled>>

CopyBreaks(u) ==
    /\ at[u] = "copying" /\ Serve(u)
    /\ cache[Hash(u)].size < SizeOf[content[want[u].on]]
    /\ Go(u, "failed")
    /\ CacheStep /\ UNCHANGED <<result, cache, sem, want, returned, spoiled>>

CloseFile(u) ==
    /\ \/ at[u] = "failed" /\ Go(u, "removing")
       \/ /\ at[u] = "copying"
          /\ cache[Hash(u)].size = SizeOf[content[want[u].on]]
          /\ Go(u, "copied")
    /\ Close(u)
    /\ UNCHANGED <<left, content, cache, sem, want, returned, spoiled, writes, restarts>>

(* Too short, or close() of the copy fails: it is removed.                 *)
CopyFailed(u) ==
    /\ at[u] \in {"copied", "removing"}
    /\ cache' = [cache EXCEPT ![Hash(u)] = AfterFailure(u)]
    /\ Leave(u, NoHash)
    /\ CacheStep /\ UNCHANGED <<result, spoiled>>

CopyDone(u) ==
    /\ at[u] = "copied"
    /\ Leave(u, Hash(u))
    /\ CacheStep /\ UNCHANGED <<result, cache, spoiled>>
-----------------------------------------------------------------------------
(* A program replaces the file of a module, which it opened for writing.   *)
ReplaceFile(u) ==
    /\ u \notin Cachers /\ writes < MaxWrites
    /\ fds[u] # NoFile /\ ~peers[fds[u].on].reading
    /\ \E c \in Contents \ {content[fds[u].on]} :
          content' = [content EXCEPT ![fds[u].on] = c]
    /\ writes' = writes + 1
    /\ UNCHANGED <<fsVars, cache, sem, at, want, returned, spoiled, restarts>>

(* The machine restarts: only the files survive.  The paths that programs  *)
(* were given are forgotten with them.                                     *)
Restart ==
    /\ restarts < MaxRestarts
    /\ restarts' = restarts + 1
    /\ spoiled' = spoiled \union {h \in Contents : cache[h].size \in 1..(SizeOf[h] - 1)}
    /\ arrived' = 0
    /\ holder' = [t \in Modules |-> "nobody"]
    /\ peers' = [i \in {} |-> NewPeer] /\ selfIndex' = -1
    /\ job' = Idle
    /\ fds' = [u \in Users |-> NoFile]
    /\ dirs' = [u \in Users |-> NoDir]
    /\ result' = [u \in Users |-> "none"]
    /\ early' = FALSE /\ aborted' = FALSE
    /\ sem' = [h \in Contents |-> 1]
    /\ at' = [u \in Cachers |-> "idle"]
    /\ want' = [u \in Cachers |-> NoWish]
    /\ returned' = [u \in Cachers |-> NoHash]
    /\ UNCHANGED <<left, content, cache, writes>>

CacheFile(u) ==
    \/ HashDone(u) \/ SemWait(u) \/ FindCached(u) \/ CreateCopy(u) \/ CopyNotCreated(u)
    \/ OpenFile(u) \/ OpenFailed(u) \/ OpenDone(u) \/ CopyPiece(u) \/ CopyBreaks(u) \/ CloseFile(u)
    \/ CopyFailed(u) \/ CopyDone(u)

Files(u) == Operation(u) \/ Closing(u) \/ Listing(u)

CNext ==
    \/ FsStep /\ UNCHANGED cacheVars
    \/ \E u \in Users \ Cachers : (Files(u) /\ UNCHANGED cacheVars) \/ ReplaceFile(u)
    \/ \E u \in Cachers : CacheFile(u) \/ \E t \in Modules : BeginHash(u, t)
    \/ Restart

CSpec == CInit /\ [][CNext]_vars

(* Programs run, the file system answers, modules answer.  Nothing makes   *)
(* anybody call, and a program need not give back a module it uses.        *)
FairCSpec ==
    /\ CSpec
    /\ WF_vars((Replies \/ Look) /\ UNCHANGED cacheVars)
    /\ \A u \in Cachers : SF_vars(CacheFile(u))
-----------------------------------------------------------------------------
(* A path that mcp_fs_cache_file() returned names a complete copy of the   *)
(* content its hash stands for, for as long as the caller may use it and   *)
(* however many programs copy at once; but for a file that was replaced    *)
(* between its hash and its copy, and a copy that a restart cut off.       *)
CacheHoldsContent ==
    \A u \in Cachers :
        returned[u] \notin spoiled \union {NoHash} => cache[returned[u]] = Complete(returned[u])

(* A call of mcp_fs_cache_file() comes to an end: whichever way one ends,  *)
(* the semaphore and the module go on to the next.  A file system that     *)
(* failed an assertion answers nobody.                                     *)
CachingEnds == \A u \in Cachers : at[u] # "idle" ~> (at[u] = "idle" \/ aborted)
=============================================================================
