---------------------------- MODULE McpFsProofs ----------------------------
(***************************************************************************)
(* Proofs about McpFs and FsCache: for any tokens, any programs and any    *)
(* contents, the file system holds in mcpd the modules it uses and no      *)
(* other, a listing of the root is complete, and the path that             *)
(* mcp_fs_cache_file() returns names a complete copy.                      *)
(***************************************************************************)
EXTENDS FsCache, FiniteSetTheorems, TLAPS

(***************************************************************************)
(* The state of the file system.                                           *)
(***************************************************************************)

Peer == [con : BOOLEAN, refcount : Int, visited : BOOLEAN, reading : BOOLEAN]

File == {NoFile} \union [on : Modules, count : 1..3]

ExchangeOps == {"open", "stat", "unlink", "list"}

Exchanges == [op : ExchangeOps, user : Users, on : Modules, reading : BOOLEAN]

Looks == [op : {"look"}, user : Users, at : Nat, whole : BOOLEAN]

Roots == [is : {"root"}, count : Nat, cursor : Nat, listed : SUBSET Nat, whole : BOOLEAN,
          ended : BOOLEAN]

Results == {"none", "ok", "error"}

Dirs == {NoDir, [is |-> "module"]} \union Roots

FsTypes ==
    /\ arrived \in Nat
    /\ holder \in [Modules -> {"nobody", "fs", "program", "caller"}]
    /\ peers \in [DOMAIN peers -> Peer]
    /\ selfIndex \in Int
    /\ job \in {Idle} \union Exchanges \union Looks
    /\ fds \in [Users -> File]
    /\ dirs \in [Users -> Dirs]
    /\ result \in [Users -> Results]
    /\ early \in BOOLEAN

\* The file system keeps the directory PeersInRow of numbers without a gap.
PeersInRow == \E n \in Nat : DOMAIN peers = 0..(n - 1)

(***************************************************************************)
(* The files that are open, and the connections they go through.           *)
(***************************************************************************)

Used(t) == \E u \in Users : fds[u].on = t
Busy(t) == job.op \in ExchangeOps /\ job.on = t

\* ConnectionsMatchFiles, one user and one module at a time; besides, a call is
\* never about a module with open files, and an open is for a new file.
FilesInv ==
    /\ \A t \in Modules : holder[t] = "fs" <=> (Used(t) \/ Busy(t))
    /\ \A t \in Modules : Used(t) <=> InUse(t)
    /\ \A u \in Users : fds[u] # NoFile => peers[fds[u].on].refcount = fds[u].count
    /\ \A u, v \in Users : fds[u] # NoFile /\ fds[v].on = fds[u].on => u = v
    /\ \A t \in Modules : Busy(t) => t \in DOMAIN peers /\ ~ Used(t)
    /\ job.op = "open" => fds[job.user] = NoFile

(***************************************************************************)
(* The steps, as the file system sees them.  Copying looks like answering; *)
(* what others do with a module leaves alone those the file system holds.  *)
(***************************************************************************)

JustAnswers ==
    /\ result' \in [Users -> Results]
    /\ UNCHANGED <<arrived, holder, peers, selfIndex, job, fds, dirs, early>>

OthersMove(t, h) ==
    /\ holder[t] # "fs" /\ holder' = [holder EXCEPT ![t] = h]
    /\ UNCHANGED <<arrived, peers, selfIndex, job, fds, dirs, result, early>>

Reset ==
    /\ arrived' = 0
    /\ holder' = [t \in Modules |-> "nobody"]
    /\ peers' = [i \in {} |-> NewPeer] /\ selfIndex' = -1
    /\ job' = Idle
    /\ fds' = [u \in Users |-> NoFile]
    /\ dirs' = [u \in Users |-> NoDir]
    /\ result' = [u \in Users |-> "none"]
    /\ early' = FALSE

Acts ==
    \/ JustAnswers
    \/ \E t \in Modules, h \in {"nobody", "program", "caller"} : OthersMove(t, h)
    \/ Reset
    \/ ModuleArrives \/ OpenFails \/ OpenSucceeds \/ Exchanged
    \/ PassKnown \/ ProbeFinds \/ TakeForOwn \/ LookDone
    \/ \E u \in Users, t \in Tokens :
          \/ FoundBusy(u, t) \/ StatDir(u, t)
          \/ \E op \in ExchangeOps, reading \in BOOLEAN :
                (op = "open" => fds[u] = NoFile) /\ Begin(op, u, t, reading)
    \/ \E u \in Users : \/ Close(u) \/ Dup(u)
                        \/ LookAtRoot(u) \/ ReadDir(u) \/ RewindDir(u) \/ CloseDir(u)

-----------------------------------------------------------------------------
LEMMA TokensAreNaturals == Tokens \subseteq Nat /\ Modules \subseteq Tokens
BY FsAssumption DEF Tokens, Modules

LEMMA PeerSeen ==
    ASSUME NEW p \in Peer
    PROVE  [p EXCEPT !.visited = TRUE] \in Peer
BY DEF Peer

LEMMA PeerInUse ==
    ASSUME NEW p \in Peer, NEW b \in BOOLEAN, NEW c \in BOOLEAN, NEW n \in Int
    PROVE  [p EXCEPT !.con = c, !.refcount = n, !.reading = b] \in Peer
BY DEF Peer

LEMMA PeerRecounted ==
    ASSUME NEW p \in Peer, NEW n \in Int
    PROVE  [p EXCEPT !.refcount = n] \in Peer
BY DEF Peer

LEMMA PeerMarked ==
    ASSUME NEW p \in Peer, NEW c \in BOOLEAN
    PROVE  [p EXCEPT !.con = c] \in Peer
BY DEF Peer

LEMMA FileCounted ==
    ASSUME NEW f \in [on : Modules, count : 1..3]
    PROVE  f.count \in 1..2 => [f EXCEPT !.count = @ + 1] \in File
BY DEF File

LEMMA RootUpdates ==
    ASSUME NEW d \in Roots, NEW c \in Nat
    PROVE  /\ [d EXCEPT !.cursor = c, !.ended = TRUE] \in Roots
           /\ [d EXCEPT !.cursor = c + 1, !.listed = @ \union {c}] \in Roots
           /\ [d EXCEPT !.cursor = 0, !.listed = {}, !.ended = FALSE] \in Roots
<1>1. [d EXCEPT !.cursor = c, !.ended = TRUE] \in Roots
    BY DEF Roots
<1>2. [d EXCEPT !.cursor = c + 1, !.listed = @ \union {c}] \in Roots
  <2>1. c + 1 \in Nat /\ d.listed \union {c} \in SUBSET Nat
      BY DEF Roots
  <2> DEFINE n == c + 1
             l == d.listed \union {c}
  <2>2. n \in Nat /\ l \in SUBSET Nat
      BY <2>1
  <2>3. [d EXCEPT !.cursor = c + 1, !.listed = @ \union {c}] =
           [d EXCEPT !.cursor = n, !.listed = l]
      OBVIOUS
  <2> HIDE DEF n, l
  <2>4. [d EXCEPT !.cursor = n, !.listed = l] \in Roots
      BY <2>2 DEF Roots
  <2> QED
      BY <2>3, <2>4
<1>3. [d EXCEPT !.cursor = 0, !.listed = {}, !.ended = FALSE] \in Roots
    BY DEF Roots
<1> QED
    BY <1>1, <1>2, <1>3

\* What op_open(), op_dup() and op_close() do to the peer of a file: from p to q.
OthersSame(p, t, q) ==
    /\ q \in [DOMAIN q -> Peer] /\ DOMAIN q = DOMAIN p
    /\ q[t].visited = p[t].visited
    /\ \A i \in DOMAIN p : i # t => q[i] = p[i]

IsOpened(p, t, b, q) ==
    OthersSame(p, t, q) /\ q[t].con = TRUE /\ q[t].refcount = 1 /\ q[t].reading = b

IsCounted(p, t, n, q) ==
    /\ OthersSame(p, t, q)
    /\ q[t].refcount = n /\ q[t].con = p[t].con /\ q[t].reading = p[t].reading

IsClosed(p, t, c, q) ==
    /\ OthersSame(p, t, q)
    /\ q[t].refcount = p[t].refcount - 1 /\ q[t].con = c /\ q[t].reading = p[t].reading

LEMMA PeerOpened ==
    ASSUME NEW p, NEW t, NEW b,
           p \in [DOMAIN p -> Peer], t \in DOMAIN p, b \in BOOLEAN
    PROVE  IsOpened(p, t, b, [p EXCEPT ![t] =
                    [@ EXCEPT !.con = TRUE, !.refcount = 1, !.reading = b]])
<1> DEFINE r == [p[t] EXCEPT !.con = TRUE, !.refcount = 1, !.reading = b]
           q == [p EXCEPT ![t] = r]
<1>2. p[t] \in Peer /\ TRUE \in BOOLEAN /\ 1 \in Int /\ b \in BOOLEAN
    OBVIOUS
<1>3. r \in Peer
    BY <1>2, PeerInUse, Zenon
<1>4. r.con = TRUE /\ r.refcount = 1 /\ r.reading = b /\ r.visited = p[t].visited
    BY <1>2 DEF Peer
<1> HIDE DEF r
<1>5. /\ q \in [DOMAIN q -> Peer] /\ DOMAIN q = DOMAIN p /\ q[t] = r
      /\ \A i \in DOMAIN p : i # t => q[i] = p[i]
    BY <1>3
<1>6. [p EXCEPT ![t] = [@ EXCEPT !.con = TRUE, !.refcount = 1, !.reading = b]] = q
    BY Zenon DEF r
<1> HIDE DEF q
<1> QED
    BY <1>4, <1>5, <1>6 DEF IsOpened, OthersSame

LEMMA PeerCounted ==
    ASSUME NEW p, NEW t, NEW n,
           p \in [DOMAIN p -> Peer], t \in DOMAIN p, n \in Int
    PROVE  IsCounted(p, t, n, [p EXCEPT ![t].refcount = n])
<1> DEFINE r == [p[t] EXCEPT !.refcount = n]
           q == [p EXCEPT ![t] = r]
<1>1. p[t] \in Peer
    OBVIOUS
<1>2. r \in Peer
    BY <1>1, PeerRecounted, Zenon
<1>3. /\ r.refcount = n /\ r.con = p[t].con
      /\ r.reading = p[t].reading /\ r.visited = p[t].visited
    BY <1>1 DEF Peer
<1> HIDE DEF r
<1>4. /\ q \in [DOMAIN q -> Peer] /\ DOMAIN q = DOMAIN p /\ q[t] = r
      /\ \A i \in DOMAIN p : i # t => q[i] = p[i]
    BY <1>2
<1>5. [p EXCEPT ![t].refcount = n] = q
    BY Zenon DEF r
<1> HIDE DEF q
<1> QED
    BY <1>3, <1>4, <1>5 DEF IsCounted, OthersSame

LEMMA PeerClosed ==
    ASSUME NEW p, NEW t, NEW c,
           p \in [DOMAIN p -> Peer], t \in DOMAIN p, c \in BOOLEAN
    PROVE  IsClosed(p, t, c, [p EXCEPT ![t].refcount = @ - 1, ![t].con = c])
<1> DEFINE n == p[t].refcount - 1
           s == [p EXCEPT ![t].refcount = n]
           r == [s[t] EXCEPT !.con = c]
           q == [s EXCEPT ![t] = r]
<1>1. n \in Int
    BY DEF Peer
<1> HIDE DEF n
<1>2. IsCounted(p, t, n, s)
    BY <1>1, PeerCounted, Zenon
<1> HIDE DEF s
<1>3. s[t] \in Peer
    BY <1>2 DEF IsCounted, OthersSame
<1>4. r \in Peer
    BY <1>3, PeerMarked, Zenon
<1>5. /\ r.con = c /\ r.refcount = s[t].refcount
      /\ r.reading = s[t].reading /\ r.visited = s[t].visited
    BY <1>3 DEF Peer
<1> HIDE DEF r
<1>6. /\ q \in [DOMAIN q -> Peer] /\ DOMAIN q = DOMAIN p /\ q[t] = r
      /\ \A i \in DOMAIN p : i # t => q[i] = s[i]
    BY <1>2, <1>4 DEF IsCounted, OthersSame
<1>7. [p EXCEPT ![t].refcount = @ - 1, ![t].con = c] = q
    BY Zenon DEF q, r, s, n
<1> HIDE DEF q
<1>8. IsClosed(p, t, c, q)
    BY <1>2, <1>5, <1>6 DEF n, IsClosed, IsCounted, OthersSame
<1> QED
    BY <1>7, <1>8, Zenon

\* volinfo_ensure_peer() adds peers and leaves alone the state of those there are.
LEMMA EnsuredKeeps ==
    ASSUME NEW t \in Nat, peers \in [DOMAIN peers -> Peer]
    PROVE  /\ Ensured(t) \in [DOMAIN Ensured(t) -> Peer]
           /\ DOMAIN Ensured(t) = 0..t \union DOMAIN peers
           /\ \A i \in DOMAIN Ensured(t) :
                 Ensured(t)[i] = IF i \in DOMAIN peers THEN peers[i] ELSE NewPeer
BY DEF Ensured, Peer, NewPeer

LEMMA VisitedKeeps ==
    ASSUME NEW t \in Nat, peers \in [DOMAIN peers -> Peer]
    PROVE  /\ Visited(t) \in [DOMAIN Visited(t) -> Peer]
           /\ DOMAIN Visited(t) = 0..t \union DOMAIN peers
           /\ \A i \in DOMAIN Visited(t) :
                 /\ Visited(t)[i].con = (IF i \in DOMAIN peers THEN peers[i].con ELSE FALSE)
                 /\ i \in DOMAIN peers => /\ Visited(t)[i].refcount = peers[i].refcount
                                          /\ Visited(t)[i].reading = peers[i].reading
                 /\ Visited(t)[i].visited => i = t \/ (i \in DOMAIN peers /\ peers[i].visited)
<1> DEFINE e == Ensured(t)
<1>1. /\ e \in [DOMAIN e -> Peer] /\ DOMAIN e = 0..t \union DOMAIN peers
      /\ \A i \in DOMAIN e : e[i] = IF i \in DOMAIN peers THEN peers[i] ELSE NewPeer
    BY EnsuredKeeps
<1>2. Visited(t) = [e EXCEPT ![t].visited = TRUE]
    BY DEF Visited
<1> HIDE DEF e
<1>3. t \in DOMAIN e
    BY <1>1
<1>4. /\ DOMAIN Visited(t) = DOMAIN e
      /\ \A i \in DOMAIN e :
            Visited(t)[i] = IF i = t THEN [e[t] EXCEPT !.visited = TRUE] ELSE e[i]
    BY <1>1, <1>2, <1>3
<1>5. [e[t] EXCEPT !.visited = TRUE] \in Peer
  <2>1. e[t] \in Peer
      BY <1>1, <1>3
  <2> QED
      BY <2>1, PeerSeen, Zenon
<1>6. Visited(t) \in [DOMAIN Visited(t) -> Peer]
    BY <1>1, <1>2, <1>3, <1>5
<1>7. ASSUME NEW i \in DOMAIN e
      PROVE  /\ Visited(t)[i].con = e[i].con
             /\ Visited(t)[i].refcount = e[i].refcount
             /\ Visited(t)[i].reading = e[i].reading
             /\ Visited(t)[i].visited => i = t \/ e[i].visited
    BY <1>1, <1>4 DEF Peer
<1>8. NewPeer.con = FALSE /\ NewPeer.visited = FALSE
    BY DEF NewPeer
<1> QED
    BY <1>1, <1>4, <1>6, <1>7, <1>8

LEMMA FsTypesHold ==
    ASSUME FsTypes, FilesInv, Acts
    PROVE  FsTypes'
<1> USE TokensAreNaturals
<1>1. CASE JustAnswers \/ Reset
  <2>1. CASE JustAnswers
      BY <2>1 DEF FsTypes, JustAnswers
  <2>2. CASE Reset
    <3>1. peers' \in [DOMAIN peers' -> Peer]
        BY <2>2 DEF Reset
    <3>2. /\ holder' \in [Modules -> {"nobody", "fs", "program", "caller"}]
          /\ fds' \in [Users -> File]
          /\ dirs' \in [Users -> Dirs]
          /\ result' \in [Users -> Results]
        BY <2>2 DEF Reset, File, Dirs, Results
    <3>3. arrived' = 0 /\ selfIndex' = -1 /\ early' = FALSE /\ job' = Idle
        BY <2>2, Zenon DEF Reset
    <3>4. arrived' \in Nat /\ selfIndex' \in Int
        BY <3>3
    <3>5. early' \in BOOLEAN /\ job' \in {Idle} \union Exchanges \union Looks
        BY <3>3, Zenon
    <3> QED
        BY <3>1, <3>2, <3>4, <3>5, Zenon DEF FsTypes
  <2> QED
      BY <1>1, <2>1, <2>2
<1>2. CASE \E t \in Modules, h \in {"nobody", "program", "caller"} : OthersMove(t, h)
    BY <1>2 DEF FsTypes, OthersMove
<1>3. CASE ModuleArrives
    BY <1>3 DEF FsTypes, ModuleArrives
<1>4. CASE OpenFails
    BY <1>4 DEF FsTypes, OpenFails, Serving, Hangup, Answer, Exchanges, Looks, Idle, Results
<1>5. CASE OpenSucceeds
  <2>1. job \in Exchanges
      BY <1>5 DEF FsTypes, OpenSucceeds, Serving, Exchanges, Looks, Idle
  <2>2. peers' \in [DOMAIN peers' -> Peer]
    <3>1. /\ peers \in [DOMAIN peers -> Peer]
          /\ peers' = [peers EXCEPT ![job.on] =
                           [@ EXCEPT !.con = TRUE, !.refcount = 1, !.reading = job.reading]]
          /\ job.reading \in BOOLEAN
        BY <1>5, <2>1 DEF FsTypes, OpenSucceeds, Exchanges
    <3>2. job.on \in DOMAIN peers
        BY <2>1 DEF FilesInv, Busy, Exchanges
    <3> QED
        BY <3>1, <3>2, PeerOpened, Zenon DEF IsOpened, OthersSame
  <2>3. fds' \in [Users -> File]
      BY <1>5, <2>1 DEF FsTypes, OpenSucceeds, File, Exchanges
  <2> QED
      BY <1>5, <2>1, <2>2, <2>3 DEF FsTypes, OpenSucceeds, Answer, Exchanges, Results
<1>6. CASE Exchanged
    BY <1>6 DEF FsTypes, Exchanged, Hangup, Answer, Exchanges, Looks, Idle, Results, Dirs
<1>7. CASE PassKnown
    BY <1>7 DEF FsTypes, PassKnown, Looking, Serving, Onward, Exchanges, Looks, Idle, ExchangeOps
<1>8. CASE ProbeFinds
  <2>1. job \in Looks
      BY <1>8 DEF FsTypes, ProbeFinds, Looking, Serving, Exchanges, Looks, Idle, ExchangeOps
  <2>2. peers' \in [DOMAIN peers' -> Peer]
      BY <1>8, <2>1, VisitedKeeps DEF FsTypes, ProbeFinds, Looks
  <2> QED
      BY <1>8, <2>1, <2>2 DEF FsTypes, ProbeFinds, Onward, Looks
<1>9. CASE TakeForOwn
  <2>1. job \in Looks
      BY <1>9 DEF FsTypes, TakeForOwn, Looking, Serving, Exchanges, Looks, Idle, ExchangeOps
  <2>2. peers' \in [DOMAIN peers' -> Peer]
      BY <1>9, <2>1, EnsuredKeeps DEF FsTypes, TakeForOwn, Looks
  <2> QED
      BY <1>9, <2>1, <2>2 DEF FsTypes, TakeForOwn, Onward, Looks
<1>10. CASE LookDone
  <2>1. job \in Looks
      BY <1>10 DEF FsTypes, LookDone, Looking, Serving, Exchanges, Looks, Idle, ExchangeOps
  <2>2. PeerCount \in Nat
      BY <1>10, <2>1 DEF LookDone, EndOfLook, Looks
  <2>3. dirs' \in [Users -> Dirs]
      BY <1>10, <2>1, <2>2 DEF FsTypes, LookDone, Looks, Roots, Dirs
  <2> QED
      BY <1>10, <2>1, <2>3 DEF FsTypes, LookDone, Looks, Answer, Results
<1>11. ASSUME NEW u \in Users, NEW t \in Tokens, FoundBusy(u, t) \/ StatDir(u, t)
       PROVE  FsTypes'
  <2>1. peers' \in [DOMAIN peers' -> Peer]
    <3>1. t \in Nat /\ peers \in [DOMAIN peers -> Peer]
        BY DEF FsTypes
    <3>2. Visited(t) \in [DOMAIN Visited(t) -> Peer]
        BY <3>1, VisitedKeeps
    <3>3. peers' = peers \/ peers' = Visited(t)
        BY <1>11 DEF FoundBusy, StatDir
    <3> QED
        BY <3>1, <3>2, <3>3
  <2>2. result' \in [Users -> Results]
      BY <1>11 DEF FsTypes, FoundBusy, StatDir, Answer, Results
  <2> QED
      BY <1>11, <2>1, <2>2 DEF FsTypes, FoundBusy, StatDir
<1>12. ASSUME NEW u \in Users, NEW t \in Tokens, NEW op \in ExchangeOps,
              NEW reading \in BOOLEAN, Begin(op, u, t, reading)
       PROVE  FsTypes'
  <2>1. t \in Modules
      BY <1>12 DEF Begin, Refuses, Exists
  <2>2. job' \in Exchanges
      BY <1>12, <2>1 DEF Begin, Exchanges
  <2> QED
      BY <1>12, <2>1, <2>2, VisitedKeeps DEF FsTypes, Begin
<1>13. ASSUME NEW u \in Users, Close(u) \/ Dup(u)
       PROVE  FsTypes'
  <2>1. fds[u] \in [on : Modules, count : 1..3]
      BY <1>13 DEF FsTypes, Close, Dup, File, NoFile
  <2>2. peers' \in [DOMAIN peers' -> Peer]
    <3>1. peers \in [DOMAIN peers -> Peer] /\ fds[u].on \in DOMAIN peers
        BY <2>1 DEF FsTypes, FilesInv, Used, InUse
    <3>2. peers[fds[u].on].refcount + 1 \in Int
        BY <3>1 DEF Peer
    <3>4. CASE Dup(u)
      <4> DEFINE n == peers[fds[u].on].refcount + 1
      <4>1. n \in Int /\ peers' = [peers EXCEPT ![fds[u].on].refcount = n]
          BY <3>2, <3>4, Zenon DEF Dup
      <4> HIDE DEF n
      <4> QED
          BY <3>1, <4>1, PeerCounted, Zenon DEF IsCounted, OthersSame
    <3>5. CASE Close(u)
      <4> DEFINE c == ~ EndsConnection(fds[u].on)
      <4>1. /\ c \in BOOLEAN
            /\ peers' = [peers EXCEPT ![fds[u].on].refcount = @ - 1, ![fds[u].on].con = c]
          BY <3>5, Zenon DEF Close
      <4> HIDE DEF c
      <4> QED
          BY <3>1, <4>1, PeerClosed, Zenon DEF IsClosed, OthersSame
    <3> QED
        BY <1>13, <3>4, <3>5
  <2>3. fds' \in [Users -> File]
    <3>1. NoFile \in File /\ fds \in [Users -> File]
        BY DEF FsTypes, File
    <3>2. CASE Dup(u)
      <4> DEFINE f == [fds[u] EXCEPT !.count = @ + 1]
      <4>1. f \in File /\ fds' = [fds EXCEPT ![u] = f]
          BY <2>1, <3>2, FileCounted, Zenon DEF Dup
      <4> HIDE DEF f
      <4> QED
          BY <3>1, <4>1
    <3>3. CASE Close(u)
      <4> DEFINE f == [on |-> fds[u].on, count |-> fds[u].count - 1]
      <4>1. fds[u].count # 1 => f \in File
          BY <2>1 DEF File
      <4>2. fds' = [fds EXCEPT ![u] = IF fds[u].count = 1 THEN NoFile ELSE f]
          BY <3>3, Zenon DEF Close
      <4> HIDE DEF f
      <4> QED
          BY <3>1, <4>1, <4>2
    <3> QED
        BY <1>13, <3>2, <3>3
  <2> QED
      BY <1>13, <2>1, <2>2, <2>3 DEF FsTypes, Close, Dup, Hangup, Answer, Results
<1>14. ASSUME NEW u \in Users, LookAtRoot(u)
       PROVE  FsTypes'
    BY <1>14 DEF FsTypes, LookAtRoot, Looks
<1>15. ASSUME NEW u \in Users, ReadDir(u) \/ RewindDir(u)
       PROVE  FsTypes'
  <2>1. dirs[u] \in Roots
      BY <1>15 DEF FsTypes, ReadDir, RewindDir, Dirs, NoDir
  <2>2. dirs' \in [Users -> Dirs]
    <3> DEFINE d == dirs[u]
               c == IF d.cursor = selfIndex THEN d.cursor + 1 ELSE d.cursor
    <3>1. /\ c \in Nat
          /\ [d EXCEPT !.cursor = c, !.ended = TRUE] \in Roots
          /\ [d EXCEPT !.cursor = c + 1, !.listed = @ \union {c}] \in Roots
          /\ [d EXCEPT !.cursor = 0, !.listed = {}, !.ended = FALSE] \in Roots
      <4>1. c \in Nat
          BY <2>1 DEF Roots
      <4> QED
          BY <2>1, <4>1, RootUpdates
    <3> QED
        BY <1>15, <3>1 DEF FsTypes, ReadDir, RewindDir, Dirs
  <2> QED
      BY <1>15, <2>2 DEF FsTypes, ReadDir, RewindDir
<1>16. ASSUME NEW u \in Users, CloseDir(u)
       PROVE  FsTypes'
    BY <1>16 DEF FsTypes, CloseDir, Dirs
<1> QED
    BY <1>1, <1>2, <1>3, <1>4, <1>5, <1>6, <1>7, <1>8, <1>9, <1>10, <1>11, <1>12, <1>13,
       <1>14, <1>15, <1>16 DEF Acts

-----------------------------------------------------------------------------
\* A step that touches neither files nor what the file system holds.
PeersGrow ==
    /\ DOMAIN peers \subseteq DOMAIN peers'
    /\ \A i \in DOMAIN peers' :
          /\ peers'[i].con = (IF i \in DOMAIN peers THEN peers[i].con ELSE FALSE)
          /\ i \in DOMAIN peers => /\ peers'[i].refcount = peers[i].refcount
                                   /\ peers'[i].reading = peers[i].reading

LEMMA FilesAlone ==
    ASSUME FsTypes, FilesInv, fds' = fds, PeersGrow, job'.op = "open" => job' = job,
           \A t \in Modules : /\ holder'[t] = "fs" <=> holder[t] = "fs"
                              /\ Busy(t)' <=> Busy(t)
    PROVE  FilesInv'
<1>1. \A t : Used(t)' <=> Used(t)
    BY DEF Used
<1>2. \A t : InUse(t)' <=> InUse(t)
    BY DEF InUse, PeersGrow
<1>3. ASSUME NEW u \in Users, fds'[u] # NoFile
      PROVE  peers'[fds'[u].on].refcount = fds'[u].count
  <2>1. fds[u] # NoFile /\ fds[u].on \in Modules
      BY <1>3 DEF FsTypes, File
  <2>2. fds[u].on \in DOMAIN peers /\ peers[fds[u].on].refcount = fds[u].count
      BY <2>1 DEF FilesInv, InUse, Used
  <2> QED
      BY <2>2 DEF PeersGrow
<1> QED
    BY <1>1, <1>2, <1>3 DEF FilesInv, PeersGrow

\* Looking for modules adds peers, of which none is connected to.
LEMMA PeersOnlyGrow ==
    ASSUME FsTypes,
           \/ peers' = peers
           \/ \E t \in Nat : peers' = Visited(t) \/ peers' = Ensured(t)
    PROVE  PeersGrow
<1>1. peers \in [DOMAIN peers -> Peer] /\ NewPeer.con = FALSE
    BY DEF FsTypes, NewPeer
<1>2. CASE peers' = peers
    BY <1>1, <1>2 DEF PeersGrow, Peer
<1>3. ASSUME NEW t \in Nat, peers' = Visited(t)
      PROVE  PeersGrow
    BY <1>1, <1>3, VisitedKeeps DEF PeersGrow
<1>4. ASSUME NEW t \in Nat, peers' = Ensured(t)
      PROVE  PeersGrow
    BY <1>1, <1>4, EnsuredKeeps DEF PeersGrow
<1> QED
    BY <1>2, <1>3, <1>4

\* What op_open() and op_close() leave of the peers: only the count and the mark
\* of the connection change, and at an open the way the file is opened.
LEMMA OpenedPeers ==
    ASSUME FsTypes, FilesInv, OpenSucceeds
    PROVE  /\ job \in Exchanges /\ job.op = "open" /\ job.on \in DOMAIN peers
           /\ DOMAIN peers' = DOMAIN peers
           /\ peers'[job.on].con = TRUE /\ peers'[job.on].refcount = 1
           /\ peers'[job.on].reading = job.reading
           /\ peers'[job.on].visited = peers[job.on].visited
           /\ \A i \in DOMAIN peers : i # job.on => peers'[i] = peers[i]
<1>1. job \in Exchanges /\ job.op = "open" /\ job.reading \in BOOLEAN
    BY DEF FsTypes, OpenSucceeds, Serving, Exchanges, Looks, Idle
<1>2. job.on \in DOMAIN peers /\ peers \in [DOMAIN peers -> Peer]
    BY <1>1 DEF FilesInv, Busy, ExchangeOps, Exchanges, FsTypes
<1>3. peers' = [peers EXCEPT ![job.on] =
                  [@ EXCEPT !.con = TRUE, !.refcount = 1, !.reading = job.reading]]
    BY DEF OpenSucceeds
<1>4. IsOpened(peers, job.on, job.reading, peers')
    BY <1>1, <1>2, <1>3, PeerOpened, Zenon
<1> QED
    BY <1>1, <1>2, <1>4 DEF IsOpened, OthersSame

LEMMA ClosedPeers ==
    ASSUME FsTypes, FilesInv, NEW u \in Users, Close(u)
    PROVE  LET t == fds[u].on
           IN /\ fds[u] # NoFile /\ t \in Modules /\ t \in DOMAIN peers
              /\ DOMAIN peers' = DOMAIN peers
              /\ peers'[t].refcount = peers[t].refcount - 1
              /\ peers'[t].con <=> ~ EndsConnection(t)
              /\ peers'[t].reading = peers[t].reading
              /\ peers'[t].visited = peers[t].visited
              /\ \A i \in DOMAIN peers : i # t => peers'[i] = peers[i]
<1> DEFINE t == fds[u].on
           c == ~ EndsConnection(t)
<1>1. fds[u] # NoFile /\ t \in Modules /\ t \in DOMAIN peers
  <2>1. fds[u] # NoFile /\ t \in Modules
      BY DEF FsTypes, File, Close, NoFile
  <2> QED
      BY <2>1 DEF FilesInv, Used, InUse
<1>2. /\ c \in BOOLEAN
      /\ peers' = [peers EXCEPT ![t].refcount = @ - 1, ![t].con = c]
    BY Zenon DEF Close
<1>3. peers \in [DOMAIN peers -> Peer] /\ t \in DOMAIN peers
    BY <1>1 DEF FsTypes
<1> HIDE DEF c, t
<1>4. IsClosed(peers, t, c, peers')
    BY <1>2, <1>3, PeerClosed, Zenon
<1> QED
    BY <1>1, <1>4 DEF c, t, IsClosed, OthersSame

LEMMA DuplicatedPeers ==
    ASSUME FsTypes, FilesInv, NEW u \in Users, Dup(u)
    PROVE  LET t == fds[u].on
           IN /\ fds[u] # NoFile /\ t \in Modules /\ t \in DOMAIN peers
              /\ DOMAIN peers' = DOMAIN peers
              /\ peers'[t].refcount = peers[t].refcount + 1
              /\ peers'[t].con = peers[t].con
              /\ peers'[t].reading = peers[t].reading
              /\ peers'[t].visited = peers[t].visited
              /\ \A i \in DOMAIN peers : i # t => peers'[i] = peers[i]
<1> DEFINE t == fds[u].on
           n == peers[t].refcount + 1
<1>1. fds[u] # NoFile /\ t \in Modules /\ t \in DOMAIN peers
  <2>1. fds[u] # NoFile /\ t \in Modules
      BY DEF FsTypes, File, Dup, NoFile
  <2> QED
      BY <2>1 DEF FilesInv, Used, InUse
<1>2. n \in Int /\ peers \in [DOMAIN peers -> Peer] /\ t \in DOMAIN peers
    BY <1>1 DEF FsTypes, Peer
<1>3. peers' = [peers EXCEPT ![t].refcount = n]
    BY DEF Dup
<1> HIDE DEF n, t
<1>4. IsCounted(peers, t, n, peers')
    BY <1>2, <1>3, PeerCounted, Zenon
<1> QED
    BY <1>1, <1>4 DEF n, t, IsCounted, OthersSame

LEMMA FilesInvHolds ==
    ASSUME FsTypes, FilesInv, Acts
    PROVE  FilesInv'
<1> USE TokensAreNaturals
<1>1. CASE Reset
  <2>1. \A t \in Modules : ~ Used(t)' /\ ~ Busy(t)' /\ ~ InUse(t)'
    <3>1. \A u \in Users : fds'[u] = NoFile
        BY <1>1, Zenon DEF Reset
    <3>2. \A t \in Modules : t # -1
        BY FsAssumption DEF Modules, Tokens
    <3>3. job' = Idle /\ DOMAIN peers' = {}
        BY <1>1 DEF Reset
    <3> QED
        BY <3>1, <3>2, <3>3 DEF Used, Busy, InUse, NoFile, Idle, ExchangeOps
  <2>2. /\ \A t \in Modules : holder'[t] = "nobody"
        /\ \A u \in Users : fds'[u] = NoFile
        /\ job' = Idle
      BY <1>1, Zenon DEF Reset
  <2> QED
      BY <2>1, <2>2 DEF FilesInv, Idle
<1>2. CASE JustAnswers \/ ModuleArrives
    BY <1>2, FilesAlone, PeersOnlyGrow DEF JustAnswers, ModuleArrives, Busy
<1>3. ASSUME NEW t \in Modules, NEW h \in {"nobody", "program", "caller"}, OthersMove(t, h)
      PROVE  FilesInv'
    BY <1>3, FilesAlone, PeersOnlyGrow DEF FsTypes, OthersMove, Busy
<1>4. CASE PassKnown \/ LookDone
    BY <1>4, FilesAlone, PeersOnlyGrow
       DEF FsTypes, PassKnown, LookDone, Looking, Serving, Onward, Busy, Looks, Exchanges, Idle, ExchangeOps
<1>5. CASE ProbeFinds \/ TakeForOwn
  <2>1. job \in Looks
      BY <1>5 DEF FsTypes, ProbeFinds, TakeForOwn, Looking, Serving, Exchanges, Looks, Idle,
                  ExchangeOps
  <2>2. job.at \in Nat /\ job.op = "look" /\ job'.op = "look"
      BY <1>5, <2>1 DEF ProbeFinds, TakeForOwn, Onward, Looks
  <2> QED
      BY <1>5, <2>2, FilesAlone, PeersOnlyGrow DEF ProbeFinds, TakeForOwn, Busy, ExchangeOps
<1>6. ASSUME NEW u \in Users, NEW t \in Tokens, FoundBusy(u, t) \/ StatDir(u, t)
      PROVE  FilesInv'
  <2>1. t \in Nat /\ (peers' = peers \/ peers' = Visited(t))
      BY <1>6 DEF FoundBusy, StatDir
  <2> QED
      BY <1>6, <2>1, FilesAlone, PeersOnlyGrow DEF FoundBusy, StatDir, Busy
<1>7. ASSUME NEW u \in Users, LookAtRoot(u)
      PROVE  FilesInv'
    BY <1>7, FilesAlone, PeersOnlyGrow DEF LookAtRoot, Serve, Busy, Idle, ExchangeOps
<1>8. ASSUME NEW u \in Users, ReadDir(u) \/ RewindDir(u) \/ CloseDir(u)
      PROVE  FilesInv'
    BY <1>8, FilesAlone, PeersOnlyGrow DEF ReadDir, RewindDir, CloseDir, Busy
<1>9. CASE OpenFails \/ Exchanged
  <2>1. job \in Exchanges /\ fds' = fds /\ peers' = peers /\ job' = Idle
      BY <1>9 DEF FsTypes, OpenFails, Exchanged, Serving, Exchanges, Looks, Idle
  <2>2. Busy(job.on) /\ job.on \in Modules
      BY <2>1 DEF Busy, Exchanges
  <2>3. \A t \in Modules : holder'[t] = IF t = job.on THEN "nobody" ELSE holder[t]
      BY <1>9 DEF FsTypes, OpenFails, Exchanged, Hangup
  <2>4. \A t \in Modules : ~ Busy(t)' /\ (Busy(t) <=> t = job.on)
      BY <2>1 DEF Busy, Idle, ExchangeOps, Exchanges
  <2> QED
      BY <2>1, <2>2, <2>3, <2>4 DEF FilesInv, Used, InUse, Idle
<1>10. ASSUME NEW u \in Users, NEW t \in Tokens, NEW op \in ExchangeOps,
              NEW reading \in BOOLEAN, op = "open" => fds[u] = NoFile,
              Begin(op, u, t, reading)
       PROVE  FilesInv'
  <2>1. /\ t \in Modules /\ holder[t] = "nobody" /\ job = Idle
        /\ job' = [op |-> op, user |-> u, on |-> t, reading |-> reading]
        /\ fds' = fds /\ peers' = Visited(t)
      BY <1>10, Zenon DEF Begin, Refuses, Exists, Vacant, Serve
  <2>2. PeersGrow
      BY <2>1, PeersOnlyGrow
  <2>3. \A i \in Modules : holder'[i] = IF i = t THEN "fs" ELSE holder[i]
      BY <1>10 DEF FsTypes, Begin
  <2>4. \A i : (Busy(i)' <=> i = t) /\ ~ Busy(i)
      BY <2>1 DEF Busy, Idle, ExchangeOps
  <2>5. t \in DOMAIN peers'
    <3>1. t \in Nat /\ peers \in [DOMAIN peers -> Peer]
        BY <2>1 DEF FsTypes
    <3>2. DOMAIN Visited(t) = 0..t \union DOMAIN peers
        BY <3>1, VisitedKeeps
    <3> QED
        BY <2>1, <3>1, <3>2
  <2>6. \A i : Used(i)' <=> Used(i)
      BY <2>1 DEF Used
  <2>7. \A i : InUse(i)' <=> InUse(i)
      BY <2>2 DEF InUse, PeersGrow
  <2>8. ~ Used(t)
      BY <2>1 DEF FilesInv
  <2>9. ASSUME NEW v \in Users, fds'[v] # NoFile
        PROVE  peers'[fds'[v].on].refcount = fds'[v].count
    <3>1. fds[v] # NoFile /\ fds[v].on \in Modules
        BY <2>1, <2>9 DEF FsTypes, File
    <3>2. fds[v].on \in DOMAIN peers /\ peers[fds[v].on].refcount = fds[v].count
        BY <3>1 DEF FilesInv, InUse, Used
    <3> QED
        BY <2>1, <2>2, <3>2 DEF PeersGrow
  <2>10. job'.op = "open" => fds'[job'.user] = NoFile
      BY <1>10, <2>1
  <2> QED
      BY <2>1, <2>3, <2>4, <2>5, <2>6, <2>7, <2>8, <2>9, <2>10 DEF FilesInv
<1>11. CASE OpenSucceeds
  <2> DEFINE t == job.on
             w == job.user
  <2>1. /\ job \in Exchanges /\ job.op = "open" /\ w \in Users /\ t \in Modules
        /\ job.reading \in BOOLEAN
      BY <1>11 DEF FsTypes, OpenSucceeds, Serving, Exchanges, Looks, Idle
  <2>2. Busy(t) /\ t \in DOMAIN peers /\ ~ Used(t) /\ holder[t] = "fs" /\ fds[w] = NoFile
      BY <2>1 DEF FilesInv, Busy, ExchangeOps
  <2>3. /\ DOMAIN peers' = DOMAIN peers
        /\ peers'[t].con = TRUE /\ peers'[t].refcount = 1
        /\ \A i \in DOMAIN peers : i # t => peers'[i] = peers[i]
      BY <1>11, OpenedPeers
  <2>4. \A v \in Users : fds'[v] = IF v = w THEN [on |-> t, count |-> 1] ELSE fds[v]
      BY <1>11, <2>1 DEF OpenSucceeds, FsTypes
  <2>5. job' = Idle /\ holder' = holder
      BY <1>11 DEF OpenSucceeds
  <2>6. \A i \in Modules : Used(i)' <=> (i = t \/ Used(i))
      BY <2>1, <2>2, <2>4 DEF Used, NoFile, Modules, Tokens
  <2>7. \A i \in Modules : InUse(i)' <=> (i = t \/ InUse(i))
      BY <2>2, <2>3 DEF InUse
  <2>8. \A i : ~ Busy(i)' /\ (Busy(i) <=> i = t)
      BY <2>1, <2>5 DEF Busy, Idle, ExchangeOps
  <2>9. ASSUME NEW v \in Users, fds'[v] # NoFile
        PROVE  /\ peers'[fds'[v].on].refcount = fds'[v].count
               /\ \A x \in Users : fds'[x].on = fds'[v].on => x = v
    <3>1. fds[v] # NoFile => /\ fds[v].on \in Modules /\ fds[v].on # t
                             /\ fds[v].on \in DOMAIN peers
        BY <2>2 DEF FsTypes, File, FilesInv, Used, InUse
    <3>2. v # w => fds[v] # NoFile
        BY <2>4, <2>9
    <3>3. \A x \in Users : fds[x].on # t
        BY <2>2 DEF Used
    <3> QED
        BY <2>2, <2>3, <2>4, <3>1, <3>2, <3>3 DEF FilesInv, NoFile
  <2> QED
      BY <2>2, <2>5, <2>6, <2>7, <2>8, <2>9 DEF FilesInv, Idle
<1>12. ASSUME NEW u \in Users, Dup(u)
       PROVE  FilesInv'
  <2> DEFINE t == fds[u].on
             n == peers[t].refcount + 1
  <2>1. fds[u] # NoFile /\ t \in Modules /\ fds[u].count \in 1..2
      BY <1>12 DEF FsTypes, File, Dup, NoFile
  <2>2. t \in DOMAIN peers /\ peers[t].refcount = fds[u].count
      BY <2>1 DEF FilesInv, Used, InUse
  <2>4. /\ DOMAIN peers' = DOMAIN peers
        /\ peers'[t].refcount = n /\ peers'[t].con = peers[t].con
        /\ \A i \in DOMAIN peers : i # t => peers'[i] = peers[i]
      BY <1>12, DuplicatedPeers
  <2> HIDE DEF n
  <2>5. /\ \A v \in Users : v # u => fds'[v] = fds[v]
        /\ fds'[u].on = t /\ fds'[u].count = n /\ fds'[u] # NoFile
      BY <1>12, <2>1, <2>2 DEF Dup, FsTypes, File, n, NoFile
  <2>6. \A i : Used(i)' <=> Used(i)
      BY <2>5 DEF Used
  <2>7. \A i : InUse(i)' <=> InUse(i)
      BY <2>2, <2>4 DEF InUse
  <2>8. job' = job /\ job = Idle /\ holder' = holder
      BY <1>12 DEF Dup, Serve
  <2>9. \A i : ~ Busy(i)' /\ ~ Busy(i)
      BY <2>8 DEF Busy, Idle, ExchangeOps
  <2>10. ASSUME NEW v \in Users, fds'[v] # NoFile
         PROVE  /\ peers'[fds'[v].on].refcount = fds'[v].count
                /\ \A x \in Users : fds'[x].on = fds'[v].on => x = v
    <3>1. /\ fds[v] # NoFile /\ fds'[v].on = fds[v].on
          /\ fds[v].on \in DOMAIN peers /\ (v # u => fds[v].on # t)
        BY <2>1, <2>5, <2>10 DEF FsTypes, File, FilesInv, Used, InUse
    <3> QED
        BY <2>1, <2>2, <2>4, <2>5, <3>1 DEF FilesInv
  <2> QED
      BY <2>6, <2>7, <2>8, <2>9, <2>10 DEF FilesInv, Idle
<1>13. ASSUME NEW u \in Users, Close(u)
       PROVE  FilesInv'
  <2> DEFINE t == fds[u].on
             c == ~ EndsConnection(t)
  <2>1. fds[u] # NoFile /\ t \in Modules /\ fds[u].count \in 1..3
      BY <1>13 DEF FsTypes, File, Close, NoFile
  <2>2. t \in DOMAIN peers /\ peers[t].refcount = fds[u].count /\ peers[t].con /\ Used(t)
      BY <2>1 DEF FilesInv, Used, InUse
  <2>4. c <=> fds[u].count # 1
      BY <2>2 DEF EndsConnection, LastOf
  <2>5. \A i \in Modules : holder'[i] = IF i = t /\ ~ c THEN "nobody" ELSE holder[i]
      BY <1>13 DEF Close, Hangup, FsTypes
  <2>6. /\ DOMAIN peers' = DOMAIN peers
        /\ peers'[t].refcount = peers[t].refcount - 1 /\ (peers'[t].con <=> c)
        /\ \A i \in DOMAIN peers : i # t => peers'[i] = peers[i]
      BY <1>13, ClosedPeers
  <2> HIDE DEF c
  <2>7. /\ \A v \in Users : v # u => fds'[v] = fds[v]
        /\ fds'[u] = IF fds[u].count = 1 THEN NoFile
                     ELSE [on |-> t, count |-> fds[u].count - 1]
      BY <1>13 DEF Close, FsTypes
  <2>8. job' = job /\ job = Idle
      BY <1>13 DEF Close, Serve
  <2>9. \A i : ~ Busy(i)' /\ ~ Busy(i)
      BY <2>8 DEF Busy, Idle, ExchangeOps
  <2>10. \A v \in Users : v # u => fds[v].on # t
      BY <2>1 DEF FilesInv
  <2>11. \A i \in Modules : Used(i)' <=> Used(i) /\ (i = t => c)
    <3>1. \A i \in Modules : NoFile.on # i
        BY FsAssumption DEF NoFile, Modules, Tokens
    <3> QED
        BY <2>2, <2>4, <2>7, <2>10, <3>1 DEF Used
  <2>12. \A i \in Modules : InUse(i)' <=> InUse(i) /\ (i = t => c)
      BY <2>2, <2>6 DEF InUse
  <2>13. ASSUME NEW v \in Users, fds'[v] # NoFile
         PROVE  /\ peers'[fds'[v].on].refcount = fds'[v].count
                /\ \A x \in Users : fds'[x].on = fds'[v].on => x = v
    <3>1. /\ fds[v] # NoFile /\ fds'[v].on = fds[v].on /\ fds[v].on \in Modules
          /\ fds[v].on \in DOMAIN peers /\ (v # u => fds[v].on # t)
        BY <2>1, <2>7, <2>13, <2>10 DEF FsTypes, File, FilesInv, Used, InUse
    <3>2. \A x \in Users : fds'[x].on = fds'[v].on => fds[x].on = fds[v].on
        BY <2>7, <3>1, FsAssumption DEF NoFile, Modules, Tokens
    <3>3. peers'[fds'[v].on].refcount = fds'[v].count
      <4>1. peers[fds[v].on].refcount = fds[v].count
          BY <3>1 DEF FilesInv
      <4>2. v = u => fds'[v].count = fds[v].count - 1
          BY <2>7, <2>13
      <4> QED
          BY <2>2, <2>6, <2>7, <3>1, <4>1, <4>2
    <3>4. \A x \in Users : fds[x].on = fds[v].on => x = v
        BY <3>1 DEF FilesInv
    <3> QED
        BY <3>2, <3>3, <3>4
  <2> QED
      BY <2>1, <2>2, <2>5, <2>8, <2>9, <2>11, <2>12, <2>13 DEF FilesInv, Idle
<1> QED
    BY <1>1, <1>2, <1>3, <1>4, <1>5, <1>6, <1>7, <1>8, <1>9, <1>10, <1>11, <1>12, <1>13 DEF Acts

(***************************************************************************)
(* The peers and the listing of the root.                                  *)
(***************************************************************************)

\* Only a module is connected to or seen.
OnlyModulesSeen == \A i \in DOMAIN peers : peers[i].con \/ peers[i].visited => i \in Modules

\* Without an early look no number but the own one is taken for the own one.
OwnIsFound ==
    /\ selfIndex \in {-1, Own}
    /\ selfIndex = Own => Own \in DOMAIN peers
    /\ DOMAIN peers \subseteq Tokens

\* A look that is past the own number has found it.
LookInv ==
    job.op = "look" =>
        /\ job.whole => arrived > Last
        /\ ~ early => arrived >= Own /\ (job.at > Own => selfIndex = Own)

\* A listing of the whole has named all numbers up to where it is.
ListedSoFar(d) ==
    /\ selfIndex = Own
    /\ d.count = Last + 1
    /\ d.cursor <= d.count
    /\ d.listed = (0..(d.cursor - 1)) \ {Own}
    /\ d.ended => d.cursor = d.count

ListingsSoFar == \A u \in Users :
    dirs[u].is = "root" /\ dirs[u].whole /\ ~ early => ListedSoFar(dirs[u])

RootInv ==
    /\ PeersInRow
    /\ OnlyModulesSeen
    /\ ~ early => OwnIsFound
    /\ LookInv
    /\ ListingsSoFar

LEMMA RowExtends ==
    ASSUME NEW n \in Nat, NEW t \in Nat
    PROVE  \E m \in Nat : 0..t \union 0..(n - 1) = 0..(m - 1)
<1>1. CASE t < n
    BY <1>1
<1>2. CASE t >= n
  <2>1. 0..t \union 0..(n - 1) = 0..((t + 1) - 1)
      BY <1>2
  <2> QED
      BY <2>1
<1> QED
    BY <1>1, <1>2

LEMMA PeersCounted ==
    ASSUME NEW n \in Nat, DOMAIN peers = 0..(n - 1)
    PROVE  PeerCount = n
<1>1. 0 \in Int /\ n - 1 \in Int /\ (0 > n - 1 => n = 0)
    OBVIOUS
<1>2. Cardinality(0..(n - 1)) = IF 0 > n - 1 THEN 0 ELSE (n - 1) - 0 + 1
    BY <1>1, FS_Interval
<1> QED
    BY <1>1, <1>2 DEF PeerCount

\* Looks find peers in a row, and mark as seen the module they probe.
LEMMA RowGrows ==
    ASSUME FsTypes, PeersInRow, OnlyModulesSeen, NEW t \in Nat,
           peers' = Ensured(t) \/ (peers' = Visited(t) /\ t \in Modules)
    PROVE  /\ PeersInRow' /\ OnlyModulesSeen'
           /\ DOMAIN peers' = 0..t \union DOMAIN peers
<1>1. peers \in [DOMAIN peers -> Peer]
    BY DEF FsTypes
<1>2. DOMAIN peers' = 0..t \union DOMAIN peers
    BY <1>1, EnsuredKeeps, VisitedKeeps
<1>3. PeersInRow'
    BY <1>2, RowExtends DEF PeersInRow
<1>4. ASSUME NEW i \in DOMAIN peers', peers'[i].con \/ peers'[i].visited
      PROVE  i \in Modules
  <2>1. NewPeer.con = FALSE /\ NewPeer.visited = FALSE
      BY DEF NewPeer
  <2>2. CASE peers' = Ensured(t)
      BY <1>1, <1>2, <1>4, <2>1, <2>2, EnsuredKeeps DEF OnlyModulesSeen
  <2>3. CASE peers' = Visited(t) /\ t \in Modules
      BY <1>1, <1>2, <1>4, <2>3, VisitedKeeps DEF OnlyModulesSeen
  <2> QED
      BY <2>2, <2>3
<1> QED
    BY <1>2, <1>3, <1>4 DEF OnlyModulesSeen

\* Steps that touch neither the own number nor listings, and begin no look.
LEMMA RootAlone ==
    ASSUME FsTypes, RootInv, PeersInRow', OnlyModulesSeen',
           \/ DOMAIN peers' = DOMAIN peers
           \/ \E t \in Modules : DOMAIN peers' = 0..t \union DOMAIN peers,
           selfIndex' = selfIndex, early' = early, dirs' = dirs,
           arrived' >= arrived, arrived' \in Nat,
           job' = job \/ job'.op # "look"
    PROVE  RootInv'
<1>1. ASSUME ~ early'
      PROVE  OwnIsFound'
  <2>1. OwnIsFound
      BY <1>1 DEF RootInv
  <2>2. \A t \in Modules : 0..t \subseteq Tokens
      BY FsAssumption DEF Modules, Tokens
  <2> QED
      BY <2>1, <2>2 DEF OwnIsFound
<1>2. LookInv'
    BY FsAssumption DEF RootInv, LookInv, FsTypes
<1>3. ListingsSoFar'
    BY DEF RootInv, ListingsSoFar, ListedSoFar
<1> QED
    BY <1>1, <1>2, <1>3 DEF RootInv

\* A step of the file system on the file or the directory of a program does not
\* look for modules: the peers and what is seen of them are as they were.
LEMMA RowStays ==
    ASSUME PeersInRow, OnlyModulesSeen, DOMAIN peers' = DOMAIN peers,
           \A i \in DOMAIN peers :
              /\ peers'[i].visited = peers[i].visited
              /\ peers'[i].con => peers[i].con \/ i \in Modules
    PROVE  PeersInRow' /\ OnlyModulesSeen'
BY DEF PeersInRow, OnlyModulesSeen

\* The number that a look takes for the own one is the own one, unless the look
\* began before all modules below were there.
LEMMA OwnNumberTaken ==
    ASSUME FsTypes, RootInv, TakeForOwn, ~ early
    PROVE  job.at = Own
<1>1. job.op = "look" /\ job \in Looks /\ job.at \in Nat
    BY DEF FsTypes, TakeForOwn, Looking, Serving, Exchanges, Looks, Idle, ExchangeOps
<1>2. arrived >= Own /\ ~ (job.at > Own)
    BY <1>1, FsAssumption DEF RootInv, LookInv, OwnIsFound, TakeForOwn
<1>3. job.at < Own => job.at \in Modules /\ job.at < arrived
    BY <1>1, <1>2, FsAssumption DEF FsTypes, Modules, Tokens
<1> QED
    BY <1>1, <1>2, <1>3, FsAssumption DEF TakeForOwn, Exists

LEMMA RootInvHolds ==
    ASSUME FsTypes, FilesInv, RootInv, Acts
    PROVE  RootInv'
<1> USE TokensAreNaturals
<1>1. CASE Reset
  <2>1. DOMAIN peers' = {} /\ {} = 0..(0 - 1)
      BY <1>1 DEF Reset
  <2>2. selfIndex' = -1 /\ job' = Idle /\ \A u \in Users : dirs'[u] = NoDir
      BY <1>1, Zenon DEF Reset
  <2>3. PeersInRow'
      BY <2>1 DEF PeersInRow
  <2>4. OnlyModulesSeen'
      BY <2>1 DEF OnlyModulesSeen
  <2>5. OwnIsFound'
      BY <2>1, <2>2, FsAssumption DEF OwnIsFound
  <2>6. LookInv'
      BY <2>2 DEF LookInv, Idle
  <2>7. ListingsSoFar'
      BY <2>2 DEF ListingsSoFar, NoDir
  <2> QED
      BY <2>3, <2>4, <2>5, <2>6, <2>7 DEF RootInv
<1>2. CASE JustAnswers \/ ModuleArrives
  <2>1. arrived' >= arrived /\ arrived' \in Nat /\ peers' = peers
      BY <1>2 DEF JustAnswers, ModuleArrives, FsTypes
  <2>2. PeersInRow' /\ OnlyModulesSeen'
      BY <2>1 DEF RootInv, PeersInRow, OnlyModulesSeen
  <2> QED
      BY <1>2, <2>1, <2>2, RootAlone DEF JustAnswers, ModuleArrives
<1>3. ASSUME NEW t \in Modules, NEW h \in {"nobody", "program", "caller"}, OthersMove(t, h)
      PROVE  RootInv'
  <2>1. arrived' = arrived /\ peers' = peers /\ arrived' >= arrived /\ arrived' \in Nat
      BY <1>3 DEF OthersMove, FsTypes
  <2>2. PeersInRow' /\ OnlyModulesSeen'
      BY <2>1 DEF RootInv, PeersInRow, OnlyModulesSeen
  <2> QED
      BY <1>3, <2>1, <2>2, RootAlone DEF OthersMove
<1>4. CASE OpenFails
  <2>1. arrived' >= arrived /\ arrived' \in Nat /\ peers' = peers /\ job'.op # "look"
      BY <1>4 DEF OpenFails, FsTypes, Idle
  <2>2. PeersInRow' /\ OnlyModulesSeen'
      BY <2>1 DEF RootInv, PeersInRow, OnlyModulesSeen
  <2> QED
      BY <1>4, <2>1, <2>2, RootAlone DEF OpenFails
<1>5. CASE OpenSucceeds
  <2>1. arrived' >= arrived /\ arrived' \in Nat /\ job'.op # "look"
      BY <1>5 DEF OpenSucceeds, FsTypes, Idle
  <2>2. DOMAIN peers' = DOMAIN peers
      BY <1>5, OpenedPeers
  <2>3. job.on \in Modules
      BY <1>5, OpenedPeers DEF Exchanges
  <2>4. PeersInRow' /\ OnlyModulesSeen'
      BY <1>5, <2>2, <2>3, OpenedPeers, RowStays DEF RootInv
  <2> QED
      BY <1>5, <2>1, <2>2, <2>4, RootAlone DEF OpenSucceeds
<1>6. CASE Exchanged
  <2>1. /\ arrived' >= arrived /\ arrived' \in Nat /\ peers' = peers /\ job' = Idle
        /\ selfIndex' = selfIndex /\ early' = early
      BY <1>6 DEF Exchanged, FsTypes
  <2>2. PeersInRow' /\ OnlyModulesSeen'
      BY <2>1 DEF RootInv, PeersInRow, OnlyModulesSeen
  <2>3. ~ early' => OwnIsFound'
      BY <2>1 DEF RootInv, OwnIsFound
  <2>4. LookInv'
      BY <2>1 DEF LookInv, Idle
  <2>5. \A u \in Users : dirs'[u] = dirs[u] \/ dirs'[u] = [is |-> "module"]
      BY <1>6 DEF Exchanged, FsTypes
  <2>6. ListingsSoFar'
      BY <2>1, <2>5 DEF RootInv, ListingsSoFar, ListedSoFar
  <2> QED
      BY <2>2, <2>3, <2>4, <2>6 DEF RootInv
<1>7. ASSUME PassKnown \/ ProbeFinds \/ TakeForOwn
      PROVE  RootInv'
  <2>1. job \in Looks /\ job.op = "look" /\ job.at \in Nat
      BY <1>7 DEF FsTypes, PassKnown, ProbeFinds, TakeForOwn, Looking, Serving, Exchanges,
                  Looks, Idle, ExchangeOps
  <2>2. /\ job'.at = job.at + 1 /\ job'.whole = job.whole
        /\ arrived' = arrived /\ early' = early /\ dirs' = dirs
      BY <1>7, <2>1 DEF PassKnown, ProbeFinds, TakeForOwn, Onward, Looks
  <2>3. PeersInRow' /\ OnlyModulesSeen'
    <3>1. CASE PassKnown
        BY <3>1 DEF RootInv, PassKnown, PeersInRow, OnlyModulesSeen
    <3>2. CASE ProbeFinds
        BY <2>1, <3>2, RowGrows DEF RootInv, ProbeFinds, Exists
    <3>3. CASE TakeForOwn
        BY <2>1, <3>3, RowGrows DEF RootInv, TakeForOwn
    <3> QED
        BY <1>7, <3>1, <3>2, <3>3
  <2>4. ASSUME ~ early
        PROVE  OwnIsFound' /\ (job'.at > Own => selfIndex' = Own)
               /\ (selfIndex >= 0 => selfIndex' = selfIndex)
    <3>1. OwnIsFound /\ (job.at > Own => selfIndex = Own)
        BY <2>1, <2>4 DEF RootInv, LookInv
    <3>2. CASE PassKnown
      <4>1. job.at \in DOMAIN peers /\ Skipped(job.at)
          BY <2>1, <3>2, PeersCounted DEF PassKnown, RootInv, PeersInRow
      <4>2. job.at = Own => selfIndex = Own
          BY <4>1 DEF Skipped, InUse, RootInv, OnlyModulesSeen, Modules
      <4> QED
          BY <2>1, <2>2, <3>1, <3>2, <4>2, FsAssumption DEF PassKnown, OwnIsFound
    <3>3. CASE ProbeFinds
      <4>1. job.at \in Modules /\ DOMAIN peers' = 0..job.at \union DOMAIN peers
          BY <2>1, <3>3, RowGrows DEF RootInv, ProbeFinds, Exists
      <4>2. 0..job.at \subseteq Tokens /\ job.at # Own
          BY <4>1, FsAssumption DEF Modules, Tokens
      <4> QED
          BY <2>1, <2>2, <3>1, <3>3, <4>1, <4>2, FsAssumption DEF ProbeFinds, OwnIsFound
    <3>4. CASE TakeForOwn
      <4>1. job.at = Own
          BY <2>4, <3>4, OwnNumberTaken
      <4>2. DOMAIN peers' = 0..Own \union DOMAIN peers /\ selfIndex' = Own
          BY <2>1, <3>4, <4>1, RowGrows DEF RootInv, TakeForOwn
      <4>3. 0..Own \subseteq Tokens /\ Own \in 0..Own
          BY FsAssumption DEF Tokens
      <4> QED
          BY <3>1, <3>4, <4>2, <4>3 DEF OwnIsFound, TakeForOwn
    <3> QED
        BY <1>7, <3>2, <3>3, <3>4
  <2>5. LookInv'
      BY <2>1, <2>2, <2>4 DEF RootInv, LookInv
  <2>6. ListingsSoFar'
      BY <2>2, <2>4, FsAssumption DEF RootInv, ListingsSoFar, ListedSoFar
  <2> QED
      BY <2>2, <2>3, <2>4, <2>5, <2>6 DEF RootInv
<1>8. CASE LookDone
  <2>1. job \in Looks /\ job.op = "look" /\ job.at \in Nat
      BY <1>8 DEF FsTypes, LookDone, Looking, Serving, Exchanges, Looks, Idle, ExchangeOps
  <2>2. /\ arrived' = arrived /\ early' = early /\ peers' = peers /\ job' = Idle
        /\ selfIndex' = selfIndex
      BY <1>8 DEF LookDone
  <2>3. PeersInRow' /\ OnlyModulesSeen' /\ (~ early' => OwnIsFound') /\ LookInv'
      BY <2>2 DEF RootInv, PeersInRow, OnlyModulesSeen, OwnIsFound, LookInv, Idle
  <2>4. ASSUME job.whole, ~ early
        PROVE  selfIndex = Own /\ PeerCount = Last + 1
    <3>1. PICK n \in Nat : DOMAIN peers = 0..(n - 1)
        BY DEF RootInv, PeersInRow
    <3>2. job.at = n /\ PeerCount = n
        BY <1>8, <3>1, PeersCounted DEF LookDone, EndOfLook
    <3>3. arrived > Last /\ OwnIsFound
        BY <2>1, <2>4 DEF RootInv, LookInv
    <3>4. selfIndex = Own /\ Own \in DOMAIN peers
        BY <1>8, <3>3 DEF LookDone, EndOfLook, OwnIsFound
    <3>5. n > 0 => n - 1 \in 0..(n - 1)
        BY <3>1
    <3>6. n <= Last + 1 /\ n > Own
        BY <3>1, <3>3, <3>4, <3>5, FsAssumption DEF OwnIsFound, Tokens
    <3>7. n \notin Modules \/ ~ (n < arrived)
        BY <1>8, <3>2 DEF LookDone, EndOfLook, Exists
    <3> QED
        BY <3>2, <3>3, <3>4, <3>6, <3>7, FsAssumption DEF FsTypes, Modules, Tokens
  <2>5. \A u \in Users : dirs'[u] = dirs[u] \/
           dirs'[u] = [is |-> "root", count |-> PeerCount, cursor |-> 0, listed |-> {},
                       whole |-> job.whole, ended |-> FALSE]
      BY <1>8 DEF LookDone, FsTypes
  <2>6. {} = 0..(0 - 1)
      OBVIOUS
  <2>7. ASSUME NEW u \in Users, dirs'[u].is = "root", dirs'[u].whole, ~ early'
        PROVE  ListedSoFar(dirs'[u])
    <3>1. CASE dirs'[u] = dirs[u]
        BY <2>2, <2>7, <3>1 DEF RootInv, ListingsSoFar, ListedSoFar
    <3>2. CASE dirs'[u] # dirs[u]
      <4>1. /\ dirs'[u].count = PeerCount /\ dirs'[u].cursor = 0 /\ dirs'[u].listed = {}
            /\ dirs'[u].whole = job.whole /\ ~ dirs'[u].ended
          BY <2>5, <3>2
      <4> QED
          BY <2>2, <2>4, <2>6, <2>7, <4>1, FsAssumption DEF ListedSoFar
    <3> QED
        BY <3>1, <3>2
  <2>8. ListingsSoFar'
      BY <2>2, <2>7 DEF ListingsSoFar, ListedSoFar
  <2> QED
      BY <2>3, <2>8 DEF RootInv
<1>9. ASSUME NEW u \in Users, NEW t \in Tokens, FoundBusy(u, t) \/ StatDir(u, t)
      PROVE  RootInv'
  <2>1. peers' = peers \/ (t \in Modules /\ peers' = Visited(t))
      BY <1>9 DEF FoundBusy, StatDir, Refuses, Exists
  <2>2. /\ PeersInRow' /\ OnlyModulesSeen'
        /\ \/ DOMAIN peers' = DOMAIN peers
           \/ t \in Modules /\ DOMAIN peers' = 0..t \union DOMAIN peers
      BY <2>1, RowGrows DEF RootInv, PeersInRow, OnlyModulesSeen
  <2>3. /\ arrived' = arrived /\ arrived' >= arrived /\ arrived' \in Nat
        /\ early' = early /\ dirs' = dirs /\ job' = job /\ selfIndex' = selfIndex
      BY <1>9 DEF FoundBusy, StatDir, FsTypes
  <2> QED
      BY <2>2, <2>3, RootAlone
<1>10. ASSUME NEW u \in Users, NEW t \in Tokens, NEW op \in ExchangeOps,
              NEW reading \in BOOLEAN, Begin(op, u, t, reading)
       PROVE  RootInv'
  <2>1. t \in Modules /\ peers' = Visited(t)
      BY <1>10 DEF Begin, Refuses, Exists
  <2>2. PeersInRow' /\ OnlyModulesSeen' /\ DOMAIN peers' = 0..t \union DOMAIN peers
      BY <2>1, RowGrows DEF RootInv
  <2>3. /\ arrived' = arrived /\ arrived' >= arrived /\ arrived' \in Nat
        /\ early' = early /\ dirs' = dirs /\ job'.op # "look" /\ selfIndex' = selfIndex
      BY <1>10 DEF Begin, FsTypes, ExchangeOps
  <2> QED
      BY <2>1, <2>2, <2>3, RootAlone
<1>11. ASSUME NEW u \in Users, Close(u) \/ Dup(u)
       PROVE  RootInv'
  <2>1. /\ arrived' = arrived /\ arrived' >= arrived /\ arrived' \in Nat
        /\ early' = early /\ dirs' = dirs /\ job' = job /\ selfIndex' = selfIndex
      BY <1>11 DEF Close, Dup, FsTypes
  <2>2. /\ DOMAIN peers' = DOMAIN peers
        /\ \A i \in DOMAIN peers :
              /\ peers'[i].visited = peers[i].visited
              /\ peers'[i].con => peers[i].con \/ i \in Modules
      BY <1>11, ClosedPeers, DuplicatedPeers
  <2>3. PeersInRow' /\ OnlyModulesSeen'
      BY <2>2, RowStays DEF RootInv
  <2> QED
      BY <2>1, <2>2, <2>3, RootAlone
<1>12. ASSUME NEW u \in Users, LookAtRoot(u)
       PROVE  RootInv'
  <2>1. /\ arrived' = arrived /\ peers' = peers /\ dirs' = dirs /\ selfIndex' = selfIndex
        /\ early' = (early \/ arrived < Own)
        /\ job' = [op |-> "look", user |-> u, at |-> 0, whole |-> arrived > Last]
      BY <1>12 DEF LookAtRoot
  <2>2. PeersInRow' /\ OnlyModulesSeen' /\ (~ early' => OwnIsFound') /\ ListingsSoFar'
      BY <2>1 DEF RootInv, PeersInRow, OnlyModulesSeen, OwnIsFound, ListingsSoFar, ListedSoFar
  <2>3. /\ job'.at = 0 /\ (job'.whole <=> arrived > Last)
        /\ ~ early' => arrived >= Own
    <3>1. job'.at = 0 /\ (job'.whole <=> arrived > Last)
        BY <2>1, Zenon
    <3>2. ~ early' => ~ (arrived < Own)
        BY <2>1, Zenon
    <3>3. ~ early' => arrived >= Own
        BY <3>2, FsAssumption DEF FsTypes
    <3> QED
        BY <3>1, <3>3, Zenon
  <2>4. LookInv'
      BY <2>1, <2>3, FsAssumption DEF LookInv
  <2> QED
      BY <2>2, <2>4 DEF RootInv
<1>13. ASSUME NEW u \in Users, ReadDir(u) \/ RewindDir(u) \/ CloseDir(u)
       PROVE  RootInv'
  <2>1. /\ arrived' = arrived /\ peers' = peers /\ early' = early /\ job' = job
        /\ selfIndex' = selfIndex
      BY <1>13 DEF ReadDir, RewindDir, CloseDir
  <2>2. PeersInRow' /\ OnlyModulesSeen' /\ (~ early' => OwnIsFound') /\ LookInv'
      BY <2>1 DEF RootInv, PeersInRow, OnlyModulesSeen, OwnIsFound, LookInv
  <2>3. \A v \in Users : v # u => dirs'[v] = dirs[v]
      BY <1>13 DEF ReadDir, RewindDir, CloseDir, FsTypes
  <2>4. ASSUME dirs'[u].is = "root", dirs'[u].whole, ~ early
        PROVE  ListedSoFar(dirs'[u])
    <3> DEFINE d == dirs[u]
               c == IF d.cursor = selfIndex THEN d.cursor + 1 ELSE d.cursor
    <3>1. CASE CloseDir(u)
        BY <2>4, <3>1 DEF CloseDir, FsTypes, NoDir
    <3>2. ASSUME ReadDir(u) \/ RewindDir(u)
          PROVE  ListedSoFar(dirs'[u])
      <4>1. d \in Roots
          BY <3>2 DEF FsTypes, ReadDir, RewindDir, Dirs, NoDir
      <4>2. dirs'[u].whole = d.whole /\ d.is = "root"
        <5>1. dirs'[u] \in { [d EXCEPT !.cursor = c, !.ended = TRUE],
                             [d EXCEPT !.cursor = c + 1, !.listed = @ \union {c}],
                             [d EXCEPT !.cursor = 0, !.listed = {}, !.ended = FALSE] }
            BY <3>2 DEF FsTypes, ReadDir, RewindDir
        <5> HIDE DEF c
        <5> QED
            BY <4>1, <5>1 DEF Roots
      <4>3. ListedSoFar(d)
          BY <2>4, <4>2 DEF RootInv, ListingsSoFar
      <4>4. CASE RewindDir(u)
        <5>1. /\ dirs'[u].cursor = 0 /\ dirs'[u].listed = {} /\ ~ dirs'[u].ended
              /\ dirs'[u].count = d.count
            BY <4>1, <4>4 DEF FsTypes, RewindDir, Roots
        <5>2. {} = 0..(0 - 1)
            OBVIOUS
        <5> QED
            BY <4>1, <4>3, <5>1, <5>2, FsAssumption DEF ListedSoFar, Roots
      <4>5. CASE ReadDir(u)
        <5>1. /\ c \in Nat /\ ~ d.ended /\ d.cursor \in Nat /\ d.count \in Nat
              /\ (0..(c - 1)) \ {Own} = (0..(d.cursor - 1)) \ {Own}
              /\ c <= d.cursor + 1 /\ c # Own
            BY <4>1, <4>3, <4>5, FsAssumption DEF Roots, ListedSoFar, ReadDir
        <5>2. CASE c >= d.count
          <6>1. /\ dirs'[u].cursor = c /\ dirs'[u].listed = d.listed
                /\ dirs'[u].count = d.count
              BY <4>1, <4>5, <5>2 DEF FsTypes, ReadDir, Roots
          <6>2. c = d.count
              BY <4>3, <5>1, <5>2, FsAssumption DEF ListedSoFar
          <6> QED
              BY <4>3, <5>1, <6>1, <6>2 DEF ListedSoFar
        <5>3. CASE ~ (c >= d.count)
          <6>1. /\ dirs'[u].cursor = c + 1 /\ dirs'[u].listed = d.listed \union {c}
                /\ dirs'[u].count = d.count /\ ~ dirs'[u].ended
              BY <4>1, <4>5, <5>1, <5>3 DEF FsTypes, ReadDir, Roots
          <6>2. (0..((c + 1) - 1)) \ {Own} = ((0..(c - 1)) \ {Own}) \union {c}
              BY <5>1
          <6> QED
              BY <4>3, <5>1, <5>3, <6>1, <6>2 DEF ListedSoFar
        <5> QED
            BY <5>2, <5>3
      <4> QED
          BY <3>2, <4>4, <4>5
    <3> QED
        BY <1>13, <3>1, <3>2
  <2>5. ListingsSoFar'
      BY <2>1, <2>3, <2>4 DEF RootInv, ListingsSoFar, ListedSoFar
  <2> QED
      BY <2>2, <2>5 DEF RootInv
<1> QED
    BY <1>1, <1>2, <1>3, <1>4, <1>5, <1>6, <1>7, <1>8, <1>9, <1>10, <1>11, <1>12, <1>13 DEF Acts

(***************************************************************************)
(* The callers of mcp_fs_cache_file().                                     *)
(***************************************************************************)

Inside == {"looking", "opening", "copying", "failed", "removing", "copied"}

Copy == [of : Contents \union {NoHash}, size : Nat]

Wish == [on : Modules \union {-1}, hash : Contents \union {NoHash}]

CopyTypes ==
    /\ content \in [Modules -> Contents]
    /\ cache \in [Contents -> Copy]
    /\ sem \in [Contents -> {0, 1}]
    /\ at \in [Cachers -> {"idle", "hashing", "hashed"} \union Inside]
    /\ want \in [Cachers -> Wish]
    /\ returned \in [Cachers -> Contents \union {NoHash}]
    /\ spoiled \subseteq Contents
    /\ \A u \in Cachers : /\ at[u] # "idle" => want[u].on \in Modules
                          /\ at[u] \in Inside \union {"hashed"} => Hash(u) \in Contents

\* Who waits for a hash holds the module, and two have two modules.
HashersHold ==
    /\ \A u \in Cachers : at[u] = "hashing" => holder[want[u].on] = "caller"
    /\ \A u, v \in Cachers :
          at[u] = "hashing" /\ at[v] = "hashing" /\ want[u].on = want[v].on => u = v

\* The semaphore of a hash is down while one caller is inside, and one only.
OneInside ==
    /\ \A u \in Cachers : at[u] \in Inside => sem[Hash(u)] = 0
    /\ \A u, v \in Cachers : at[u] \in Inside /\ at[v] \in Inside /\ Hash(u) = Hash(v) => u = v

\* A caller has a file open from the answer to its open() to its close().
HasFile(u) == at[u] \in {"copying", "failed"} \/ (at[u] = "opening" /\ result[u] = "ok")

CopiersFiles ==
    \A u \in Cachers :
        /\ fds[u] = IF HasFile(u) THEN [on |-> want[u].on, count |-> 1] ELSE NoFile
        /\ job # Idle /\ job.user = u =>
              /\ job.op = "open" /\ job.on = want[u].on
              /\ at[u] = "opening" /\ result[u] = "none"

CopyInv == CopyTypes /\ HashersHold /\ OneInside /\ CopiersFiles

\* Every step is one of those the proofs above are about.
LEMMA StepsAreActs ==
    ASSUME FsTypes, FilesInv, CopyInv, [CNext]_vars
    PROVE  Acts
<1> USE CacheAssumption, TokensAreNaturals
<1>1. CASE UNCHANGED vars
    BY <1>1 DEF vars, fsVars, FsTypes, Acts, JustAnswers
<1>2. CASE FsStep
  <2>1. CASE Replies \/ PassKnown \/ ProbeFinds \/ TakeForOwn \/ LookDone \/ ModuleArrives
      BY <2>1 DEF Acts, Replies
  <2>2. CASE TwoAreMissing
      BY <2>2 DEF TwoAreMissing, FsTypes, Acts, JustAnswers
  <2>3. ASSUME NEW t \in Modules, ProgramDisconnects(t)
        PROVE  Acts
      BY <2>3 DEF ProgramDisconnects, Hangup, Acts, OthersMove
  <2> QED
      BY <1>2, <2>1, <2>2, <2>3 DEF FsStep, Look
<1>3. ASSUME NEW u \in Users, NEW t \in Tokens, NEW op \in ExchangeOps, NEW reading \in BOOLEAN,
             op = "open" => fds[u] = NoFile, Calls(op, u, t, reading)
      PROVE  Acts
  <2>1. CASE Refused(u, t)
      BY <2>1 DEF Refused, Answer, FsTypes, Results, Acts, JustAnswers
  <2> QED
      BY <1>3, <2>1 DEF Calls, Acts
<1>4. ASSUME NEW u \in Users, Files(u)
      PROVE  Acts
  <2>1. ASSUME NEW read \in BOOLEAN, Transfer(u, read)
        PROVE  Acts
      BY <2>1 DEF Transfer, Answer, FsTypes, Results, Acts, JustAnswers
  <2>2. ASSUME NEW t \in Modules, ProgramConnects(t)
        PROVE  Acts
      BY <2>2 DEF ProgramConnects, Vacant, Acts, OthersMove
  <2>3. CASE Closing(u) \/ Listing(u)
      BY <2>3 DEF Closing, Listing, Acts
  <2>4. CASE Operation(u)
    <3>1. CASE \E t \in Tokens, reading \in BOOLEAN :
                  fds[u] = NoFile /\ Calls("open", u, t, reading)
        BY <1>3, <3>1 DEF ExchangeOps
    <3>2. CASE \E t \in Tokens, op \in {"stat", "unlink"} : Calls(op, u, t, TRUE)
        BY <1>3, <3>2 DEF ExchangeOps
    <3>3. CASE \E t \in Tokens : dirs[u] = NoDir /\ Calls("list", u, t, TRUE)
        BY <1>3, <3>3 DEF ExchangeOps
    <3>4. CASE Dup(u) \/ LookAtRoot(u) \/ RewindDir(u) \/ \E t \in Tokens : StatDir(u, t)
        BY <3>4 DEF Acts
    <3> QED
        BY <2>1, <2>2, <2>4, <3>1, <3>2, <3>3, <3>4 DEF Operation
  <2> QED
      BY <1>4, <2>3, <2>4 DEF Files
<1>5. ASSUME NEW u \in Users, ReplaceFile(u)
      PROVE  Acts
    BY <1>5 DEF ReplaceFile, fsVars, FsTypes, Acts, JustAnswers
<1>6. ASSUME NEW u \in Cachers, NEW t \in Modules, BeginHash(u, t)
      PROVE  Acts
    BY <1>6 DEF BeginHash, Vacant, Acts, OthersMove
<1>7. CASE Restart
    BY <1>7 DEF Restart, Acts, Reset
<1>8. ASSUME NEW u \in Cachers, CacheFile(u)
      PROVE  Acts
  <2>1. CASE HashDone(u)
    <3>1. want[u].on \in Modules /\ holder[want[u].on] = "caller"
        BY <2>1 DEF HashDone, CopyInv, CopyTypes, HashersHold
    <3> QED
        BY <2>1, <3>1 DEF HashDone, Hangup, Acts, OthersMove
  <2>2. CASE OpenFile(u)
    <3>1. want[u].on \in Modules /\ fds[u] = NoFile
        BY <2>2 DEF OpenFile, CopyInv, CopyTypes, CopiersFiles, HasFile, Inside
    <3> QED
        BY <1>3, <2>2, <3>1 DEF OpenFile, ExchangeOps
  <2>3. CASE CloseFile(u)
      BY <2>3 DEF CloseFile, Acts
  <2>4. CASE CreateCopy(u)
      BY <2>4 DEF CreateCopy, CacheStep, Answer, FsTypes, Results, Acts, JustAnswers
  <2>5. CASE SemWait(u) \/ FindCached(u) \/ OpenFailed(u) \/ OpenDone(u) \/ CopyPiece(u)
             \/ CopyBreaks(u) \/ CopyFailed(u) \/ CopyDone(u) \/ CopyNotCreated(u)
      BY <2>5 DEF CopyNotCreated, SemWait, FindCached, OpenFailed, OpenDone, CopyPiece,
                  CopyBreaks, CopyFailed,
                  CopyDone, CacheStep, FsTypes, Acts, JustAnswers
  <2> QED
      BY <1>8, <2>1, <2>2, <2>3, <2>4, <2>5 DEF CacheFile
<1> QED
    BY <1>1, <1>2, <1>4, <1>5, <1>6, <1>7, <1>8 DEF CNext

\* Two updates of a copy.
LEMMA CopyRenamed ==
    ASSUME NEW c \in Copy, NEW x \in Contents
    PROVE  /\ [c EXCEPT !.of = x] \in Copy
           /\ [c EXCEPT !.of = x].of = x /\ [c EXCEPT !.of = x].size = c.size
BY DEF Copy

LEMMA CopyResized ==
    ASSUME NEW c \in Copy, NEW n \in Nat
    PROVE  /\ [c EXCEPT !.size = n] \in Copy
           /\ [c EXCEPT !.size = n].of = c.of /\ [c EXCEPT !.size = n].size = n
BY DEF Copy

LEMMA CopyEquals ==
    ASSUME NEW c \in Copy, NEW h \in Contents
    PROVE  /\ c = Complete(h) <=> c.of = h /\ c.size = SizeOf[h]
           /\ c = Absent <=> c.of = NoHash /\ c.size = 0
           /\ Absent \in Copy /\ Absent.of = NoHash /\ Absent.size = 0
           /\ Complete(h).of = h /\ Complete(h) # Absent
           /\ h # NoHash /\ SizeOf[h] \in Nat
<1>1. c = [of |-> c.of, size |-> c.size]
    BY DEF Copy
<1>2. h # NoHash /\ SizeOf[h] \in Nat
    BY CacheAssumption DEF NoHash
<1> QED
    BY <1>1, <1>2 DEF Copy, Complete, Absent

\* What each step of a caller does, seen from all callers and all hashes: u goes
\* to place p, and leaves if that is "idle".
Goes(u, p) == \A v \in Cachers : at'[v] = IF v = u THEN p ELSE at[v]

Leaves(u, h) ==
    /\ Goes(u, "idle")
    /\ \A v \in Cachers : /\ want'[v] = IF v = u THEN NoWish ELSE want[v]
                          /\ returned'[v] = IF v = u THEN h ELSE returned[v]
    /\ \A x \in Contents : sem'[x] = IF x = Hash(u) THEN 1 ELSE sem[x]
    /\ sem' \in [Contents -> {0, 1}]

LEMMA CallerLeaves ==
    ASSUME CopyTypes, OneInside, NEW u \in Cachers, at[u] \in Inside,
           NEW h \in Contents \union {NoHash}, Leave(u, h)
    PROVE  /\ Leaves(u, h)
           /\ want' \in [Cachers -> Wish]
           /\ returned' \in [Cachers -> Contents \union {NoHash}]
           /\ at' \in [Cachers -> {"idle", "hashing", "hashed"} \union Inside]
<1>1. Hash(u) \in Contents /\ sem[Hash(u)] = 0
    BY DEF CopyTypes, OneInside
<1>2. Posted(u) = 1
    BY <1>1 DEF Posted
<1>3. NoWish \in Wish
    BY DEF NoWish, Wish
<1> QED
    BY <1>1, <1>2, <1>3 DEF CopyTypes, Leave, Go, Leaves, Goes

LEMMA CopyTypesHold ==
    ASSUME FsTypes, FilesInv, CopyInv, [CNext]_vars
    PROVE  CopyTypes'
<1> USE CacheAssumption DEF CopyInv
<1>1. CASE UNCHANGED cacheVars
    BY <1>1 DEF cacheVars, CopyTypes, Hash
<1>2. ASSUME NEW u \in Users \ Cachers, ReplaceFile(u)
      PROVE  CopyTypes'
  <2>1. content' \in [Modules -> Contents]
      BY <1>2 DEF ReplaceFile, CopyTypes
  <2> QED
      BY <1>2, <2>1 DEF ReplaceFile, CopyTypes, Hash
<1>3. CASE Restart
  <2>1. /\ sem' \in [Contents -> {0, 1}] /\ spoiled' \subseteq Contents
        /\ content' = content /\ cache' = cache
      BY <1>3 DEF Restart, CopyTypes
  <2>2. \A u \in Cachers : at'[u] = "idle"
      BY <1>3 DEF Restart
  <2>3. /\ at' \in [Cachers -> {"idle", "hashing", "hashed"} \union Inside]
        /\ want' \in [Cachers -> Wish]
        /\ returned' \in [Cachers -> Contents \union {NoHash}]
      BY <1>3 DEF Restart, Wish, NoWish
  <2> QED
      BY <2>1, <2>2, <2>3 DEF CopyTypes, Inside
<1>4. ASSUME NEW u \in Cachers, NEW t \in Modules, BeginHash(u, t)
      PROVE  CopyTypes'
  <2>1. [on |-> t, hash |-> NoHash] \in Wish
      BY DEF Wish
  <2> QED
      BY <1>4, <2>1 DEF BeginHash, CopyTypes, Hash, Go, Inside
<1>5. ASSUME NEW u \in Cachers, HashDone(u)
      PROVE  CopyTypes'
  <2> DEFINE x == content[want[u].on]
  <2>1. x \in Contents /\ want[u].on \in Modules /\ want[u] \in Wish
      BY <1>5 DEF HashDone, CopyTypes
  <2>2. [want[u] EXCEPT !.hash = x] \in Wish /\ NoWish \in Wish
        /\ [want[u] EXCEPT !.hash = x].on = want[u].on
        /\ [want[u] EXCEPT !.hash = x].hash = x
      BY <2>1 DEF Wish, NoWish
  <2> DEFINE w == [want[u] EXCEPT !.hash = x]
  <2>3. \/ want' = [want EXCEPT ![u] = w] /\ at' = [at EXCEPT ![u] = "hashed"]
        \/ want' = [want EXCEPT ![u] = NoWish] /\ at' = [at EXCEPT ![u] = "idle"]
      BY <1>5 DEF HashDone, Go
  <2>4. w \in Wish /\ w.on = want[u].on /\ w.hash = x
      BY <2>2, Zenon
  <2> HIDE DEF w
  <2>5. /\ content' = content /\ sem' = sem /\ returned' = returned
        /\ cache' = cache /\ spoiled' = spoiled
      BY <1>5 DEF HashDone
  <2>6. /\ want' \in [Cachers -> Wish]
        /\ at' \in [Cachers -> {"idle", "hashing", "hashed"} \union Inside]
      BY <2>2, <2>3, <2>4 DEF CopyTypes
  <2>7. ASSUME NEW v \in Cachers
        PROVE  /\ at'[v] # "idle" => want'[v].on \in Modules
               /\ at'[v] \in Inside \union {"hashed"} => want'[v].hash \in Contents
      BY <2>1, <2>3, <2>4 DEF CopyTypes, Hash, Inside
  <2> QED
      BY <2>5, <2>6, <2>7 DEF CopyTypes, Hash
<1>6. ASSUME NEW u \in Cachers, SemWait(u)
      PROVE  CopyTypes'
  <2>1. Hash(u) \in Contents /\ want[u].on \in Modules
      BY <1>6 DEF SemWait, CopyTypes
  <2> QED
      BY <1>6, <2>1 DEF SemWait, CacheStep, CopyTypes, Hash, Go, Inside
<1>7. ASSUME NEW u \in Cachers, NEW h \in Contents \union {NoHash}, at[u] \in Inside,
             Leave(u, h), CacheStep, spoiled' = spoiled,
             cache' = cache \/ cache' = [cache EXCEPT ![Hash(u)] = Absent]
      PROVE  CopyTypes'
  <2>1. Absent \in Copy
      BY DEF Absent, Copy
  <2>2. cache' \in [Contents -> Copy] /\ content' = content
      BY <1>7, <2>1 DEF CopyTypes, CacheStep
  <2> QED
      BY <1>7, <2>2, CallerLeaves DEF CopyTypes, Leaves, Goes, Hash, Inside
<1>8. ASSUME NEW u \in Cachers, CreateCopy(u) \/ OpenDone(u) \/ CopyPiece(u)
      PROVE  CopyTypes'
  <2> DEFINE h == Hash(u)
             x == content[want[u].on]
  <2>1. h \in Contents /\ want[u].on \in Modules /\ x \in Contents /\ cache[h] \in Copy
      BY <1>8 DEF CreateCopy, OpenDone, CopyPiece, CopyTypes, Inside
  <2>2. cache' \in [Contents -> Copy]
    <3>1. CASE CreateCopy(u)
      <4>1. [of |-> h, size |-> 0] \in Copy
          BY <2>1 DEF Copy
      <4> QED
          BY <2>1, <3>1, <4>1 DEF CreateCopy, CopyTypes
    <3>2. CASE OpenDone(u)
      <4> DEFINE c == [cache[h] EXCEPT !.of = x]
      <4>1. c \in Copy
          BY <2>1, CopyRenamed, Zenon
      <4>2. cache' = [cache EXCEPT ![h] = c]
          BY <3>2, Zenon DEF OpenDone
      <4> HIDE DEF c
      <4> QED
          BY <2>1, <4>1, <4>2 DEF CopyTypes
    <3>3. CASE CopyPiece(u)
      <4> DEFINE n == cache[h].size + 1
                 c == [cache[h] EXCEPT !.size = n]
      <4>1. n \in Nat
          BY <2>1 DEF Copy
      <4>2. cache' = [cache EXCEPT ![h] = c]
          BY <3>3, Zenon DEF CopyPiece
      <4> HIDE DEF n
      <4>3. c \in Copy
          BY <2>1, <4>1, CopyResized, Zenon
      <4> HIDE DEF c
      <4> QED
          BY <2>1, <4>2, <4>3 DEF CopyTypes
    <3> QED
        BY <1>8, <3>1, <3>2, <3>3
  <2>3. content' = content /\ sem' = sem /\ want' = want /\ returned' = returned
      BY <1>8 DEF CreateCopy, OpenDone, CopyPiece, CacheStep
  <2>4. /\ at' \in [Cachers -> {"idle", "hashing", "hashed"} \union Inside]
        /\ \A v \in Cachers : at'[v] = at[v] \/ v = u
      BY <1>8 DEF CreateCopy, OpenDone, CopyPiece, Go, CopyTypes, Inside
  <2>5. spoiled' \subseteq Contents
      BY <1>8, <2>1 DEF CreateCopy, OpenDone, CopyPiece, CopyTypes
  <2> QED
      BY <2>1, <2>2, <2>3, <2>4, <2>5 DEF CopyTypes, Hash
<1>9. ASSUME NEW u \in Cachers, CopyBreaks(u) \/ CloseFile(u)
      PROVE  CopyTypes'
  <2>1. /\ content' = content /\ sem' = sem /\ want' = want /\ returned' = returned
        /\ cache' = cache /\ spoiled' = spoiled
      BY <1>9 DEF CopyBreaks, CloseFile, CacheStep
  <2>2. /\ at' \in [Cachers -> {"idle", "hashing", "hashed"} \union Inside]
        /\ \A v \in Cachers : at'[v] = at[v] \/ (v = u /\ at[u] \in Inside)
      BY <1>9 DEF CopyBreaks, CloseFile, Go, CopyTypes, Inside
  <2> QED
      BY <2>1, <2>2 DEF CopyTypes, Hash, Inside
<1>10. ASSUME NEW u \in Cachers, CacheFile(u)
       PROVE  CopyTypes'
  <2>1. CASE OpenFile(u)
      BY <1>1, <2>1 DEF OpenFile
  <2>2. CASE FindCached(u) \/ CopyDone(u) \/ OpenFailed(u) \/ CopyFailed(u) \/ CopyNotCreated(u)
    <3>1. at[u] \in Inside
        BY <2>2 DEF FindCached, CopyDone, CopyNotCreated, OpenFailed, CopyFailed, Inside
    <3>2. Hash(u) \in Contents
        BY <3>1 DEF CopyTypes
    <3> QED
        BY <1>7, <2>2, <3>1, <3>2 DEF FindCached, CopyDone, CopyNotCreated, OpenFailed,
                                      CopyFailed, AfterFailure
  <2> QED
      BY <1>5, <1>6, <1>8, <1>9, <1>10, <2>1, <2>2 DEF CacheFile
<1> QED
    BY <1>1, <1>2, <1>3, <1>4, <1>10 DEF CNext, vars

\* The steps that work on files, of programs and of callers.
FileSteps ==
    \/ FsStep
    \/ \E u \in Users : Files(u) \/ Close(u)
    \/ \E u \in Users, t \in Tokens : Calls("open", u, t, TRUE)

\* The file system leaves alone a module that a caller asks for a hash.
LEMMA CallersKeepModules ==
    ASSUME FsTypes, FilesInv, FileSteps, NEW i \in Modules, holder[i] = "caller"
    PROVE  holder'[i] = "caller"
<1>1. CASE OpenFails \/ Exchanged
  <2>1. job \in Exchanges
      BY <1>1 DEF FsTypes, OpenFails, Exchanged, Serving, Exchanges, Looks, Idle
  <2>2. holder[job.on] = "fs"
      BY <2>1 DEF FilesInv, Busy, Exchanges
  <2> QED
      BY <1>1, <2>2 DEF OpenFails, Exchanged, Hangup, FsTypes
<1>2. ASSUME NEW u \in Users, Close(u)
      PROVE  holder'[i] = "caller"
  <2>1. holder[fds[u].on] = "fs"
      BY <1>2, ClosedPeers DEF FilesInv, Used
  <2> QED
      BY <1>2, <2>1 DEF Close, Hangup, FsTypes
<1>3. ASSUME NEW u \in Users, NEW t \in Tokens, NEW op, NEW reading, Calls(op, u, t, reading)
      PROVE  holder'[i] = "caller"
    BY <1>3 DEF Calls, Refused, FoundBusy, Begin, Vacant, FsTypes
<1>4. CASE FsStep
  <2>1. ASSUME NEW t \in Modules, ProgramDisconnects(t)
        PROVE  holder'[i] = "caller"
      BY <2>1 DEF ProgramDisconnects, Hangup, FsTypes
  <2>2. CASE OpenSucceeds \/ Look \/ ModuleArrives
      BY <2>2 DEF OpenSucceeds, Look, PassKnown, ProbeFinds, TakeForOwn, TwoAreMissing,
                  LookDone, ModuleArrives
  <2> QED
      BY <1>1, <1>4, <2>1, <2>2 DEF FsStep, Replies
<1>5. ASSUME NEW u \in Users, Files(u)
      PROVE  holder'[i] = "caller"
  <2>1. ASSUME NEW t \in Modules, ProgramConnects(t)
        PROVE  holder'[i] = "caller"
      BY <2>1 DEF ProgramConnects, Vacant, FsTypes
  <2>2. CASE \/ Dup(u) \/ (\E read \in BOOLEAN : Transfer(u, read))
             \/ (\E t \in Tokens : StatDir(u, t)) \/ LookAtRoot(u) \/ RewindDir(u)
      BY <2>2 DEF Dup, Transfer, StatDir, LookAtRoot, RewindDir
  <2>3. CASE Operation(u)
      BY <1>3, <2>1, <2>2, <2>3 DEF Operation
  <2>4. CASE Closing(u) \/ Listing(u)
      BY <1>2, <2>4 DEF Closing, Listing, CloseDir, ReadDir
  <2> QED
      BY <1>5, <2>3, <2>4 DEF Files
<1> QED
    BY <1>2, <1>3, <1>4, <1>5 DEF FileSteps

\* What each step of a caller does to the places of the callers and to what they
\* want: other than to begin or to end, want and the semaphores stay.
LEMMA CopyStepKinds ==
    ASSUME CopyTypes, OneInside, NEW u \in Cachers, CacheFile(u)
    PROVE  \/ HashDone(u)
           \/ SemWait(u)
           \/ \E h \in Contents \union {NoHash} :
                 at[u] \in Inside /\ Leaves(u, h) /\ UNCHANGED <<holder, job, fds, peers, result>>
           \/ /\ UNCHANGED <<sem, want, returned>>
              /\ at[u] \in Inside /\ \E p \in Inside : Goes(u, p)
<1> DEFINE Kept == UNCHANGED <<sem, want, returned>>
<1>1. ASSUME NEW h \in Contents \union {NoHash}, at[u] \in Inside, Leave(u, h), CacheStep,
             result' = result
      PROVE  Leaves(u, h) /\ UNCHANGED <<holder, job, fds, peers, result>>
    BY <1>1, CallerLeaves DEF CacheStep
<1>2. CASE FindCached(u) \/ CopyDone(u) \/ OpenFailed(u) \/ CopyFailed(u) \/ CopyNotCreated(u)
  <2>1. at[u] \in Inside /\ Hash(u) \in Contents
      BY <1>2 DEF FindCached, CopyDone, CopyNotCreated, OpenFailed, CopyFailed, Inside, CopyTypes
  <2> QED
      BY <1>1, <1>2, <2>1 DEF FindCached, CopyDone, CopyNotCreated, OpenFailed, CopyFailed
<1>3. CASE CreateCopy(u) \/ OpenDone(u) \/ CopyBreaks(u) \/ CloseFile(u)
    BY <1>3 DEF CreateCopy, OpenDone, CopyBreaks, CloseFile, Go, Goes, Inside, CopyTypes
<1>4. CASE OpenFile(u) \/ CopyPiece(u)
    BY <1>4 DEF OpenFile, CopyPiece, cacheVars, Goes, Inside, CopyTypes
<1> QED
    BY <1>2, <1>3, <1>4 DEF CacheFile

LEMMA OneInsideHolds ==
    ASSUME FsTypes, FilesInv, CopyInv, [CNext]_vars
    PROVE  OneInside'
<1> USE DEF CopyInv
<1>1. CASE UNCHANGED cacheVars \/ \E u \in Users \ Cachers : ReplaceFile(u)
    BY <1>1 DEF cacheVars, ReplaceFile, OneInside, Hash
<1>2. CASE Restart
  <2>1. \A u \in Cachers : at'[u] = "idle"
      BY <1>2 DEF Restart
  <2> QED
      BY <2>1 DEF OneInside, Inside
<1>3. ASSUME NEW u \in Cachers, NEW t \in Modules, BeginHash(u, t)
      PROVE  OneInside'
    BY <1>3 DEF BeginHash, Go, OneInside, Hash, Inside, CopyTypes
<1>4. ASSUME NEW u \in Cachers, HashDone(u)
      PROVE  OneInside'
  <2>1. /\ \A v \in Cachers : v # u => want'[v] = want[v] /\ at'[v] = at[v]
        /\ at'[u] \notin Inside /\ sem' = sem
      BY <1>4 DEF HashDone, Go, Inside, CopyTypes
  <2> QED
      BY <2>1 DEF OneInside, Hash
<1>5. ASSUME NEW u \in Cachers, SemWait(u)
      PROVE  OneInside'
  <2>1. Hash(u) \in Contents /\ sem[Hash(u)] > 0 /\ want' = want
      BY <1>5 DEF SemWait, CopyTypes, MayPass
  <2>2. /\ \A v \in Cachers : v # u => at'[v] = at[v]
        /\ \A x \in Contents : sem'[x] = IF x = Hash(u) THEN 0 ELSE sem[x]
      BY <1>5, <2>1 DEF SemWait, Go, CopyTypes
  <2>3. \A v \in Cachers : at[v] \in Inside => Hash(v) # Hash(u) /\ Hash(v) \in Contents
      BY <2>1 DEF OneInside, CopyTypes
  <2> QED
      BY <2>1, <2>2, <2>3 DEF OneInside, Hash
<1>6. ASSUME NEW u \in Cachers, CacheFile(u)
      PROVE  OneInside'
  <2>1. ASSUME NEW h \in Contents \union {NoHash}, at[u] \in Inside, Leaves(u, h)
        PROVE  OneInside'
    <3>1. \A v \in Cachers : at'[v] \in Inside =>
              v # u /\ at[v] \in Inside /\ want'[v] = want[v] /\ Hash(v) \in Contents
        BY <2>1 DEF Leaves, Goes, Inside, CopyTypes
    <3>2. \A v \in Cachers : at'[v] \in Inside => sem'[Hash(v)] = 0
        BY <2>1, <3>1 DEF Leaves, OneInside
    <3> QED
        BY <3>1, <3>2 DEF OneInside, Hash
  <2>2. ASSUME UNCHANGED <<sem, want, returned>>, at[u] \in Inside, \E p \in Inside : Goes(u, p)
        PROVE  OneInside'
    <3>1. \A v \in Cachers : at'[v] \in Inside <=> at[v] \in Inside
        BY <2>2 DEF Goes
    <3> QED
        BY <2>2, <3>1 DEF OneInside, Hash
  <2> QED
      BY <1>4, <1>5, <1>6, <2>1, <2>2, CopyStepKinds
<1> QED
    BY <1>1, <1>2, <1>3, <1>6 DEF CNext, vars

LEMMA HashersHoldStill ==
    ASSUME FsTypes, FilesInv, CopyInv, [CNext]_vars
    PROVE  HashersHold'
<1> USE DEF CopyInv
<1> USE CacheAssumption, TokensAreNaturals
<1>1. ASSUME FileSteps, \A u \in Cachers : at'[u] = "hashing" => at[u] = "hashing" /\ want'[u] = want[u]
      PROVE  HashersHold'
  <2>1. \A u \in Cachers : at'[u] = "hashing" => holder'[want'[u].on] = "caller"
      BY <1>1, CallersKeepModules DEF HashersHold, CopyTypes
  <2> QED
      BY <1>1, <2>1 DEF HashersHold
<1>2. ASSUME UNCHANGED holder, \A u \in Cachers : at'[u] = "hashing" => at[u] = "hashing" /\ want'[u] = want[u]
      PROVE  HashersHold'
    BY <1>2 DEF HashersHold
<1>3. CASE UNCHANGED vars \/ \E u \in Users \ Cachers : ReplaceFile(u)
    BY <1>2, <1>3 DEF vars, cacheVars, fsVars, ReplaceFile
<1>4. CASE UNCHANGED cacheVars /\ (FsStep \/ \E u \in Users \ Cachers : Files(u))
    BY <1>1, <1>4 DEF cacheVars, FileSteps
<1>5. CASE Restart
  <2>1. \A u \in Cachers : at'[u] = "idle"
      BY <1>5 DEF Restart
  <2> QED
      BY <2>1 DEF HashersHold
<1>6. ASSUME NEW u \in Cachers, NEW t \in Modules, BeginHash(u, t)
      PROVE  HashersHold'
  <2>1. /\ \A v \in Cachers : v # u => want'[v] = want[v] /\ at'[v] = at[v]
        /\ at'[u] = "hashing" /\ want'[u].on = t
        /\ holder[t] = "nobody"
        /\ \A i \in Modules : holder'[i] = IF i = t THEN "caller" ELSE holder[i]
      BY <1>6 DEF BeginHash, Go, Vacant, CopyTypes, FsTypes
  <2>2. \A v \in Cachers : v # u /\ at[v] = "hashing" => want[v].on \in Modules /\ want[v].on # t
      BY <2>1 DEF HashersHold, CopyTypes
  <2> QED
      BY <2>1, <2>2 DEF HashersHold
<1>7. ASSUME NEW u \in Cachers, HashDone(u)
      PROVE  HashersHold'
  <2>1. /\ \A v \in Cachers : v # u => want'[v] = want[v] /\ at'[v] = at[v]
        /\ at'[u] # "hashing" /\ at[u] = "hashing" /\ want[u].on \in Modules
        /\ \A i \in Modules : i # want[u].on => holder'[i] = holder[i]
      BY <1>7 DEF HashDone, Hangup, Go, CopyTypes, FsTypes
  <2>2. \A v \in Cachers : v # u /\ at[v] = "hashing" =>
            want[v].on \in Modules /\ want[v].on # want[u].on
      BY <2>1 DEF HashersHold, CopyTypes
  <2>3. ASSUME NEW v \in Cachers, at'[v] = "hashing"
        PROVE  /\ at[v] = "hashing" /\ want'[v] = want[v]
               /\ holder'[want'[v].on] = "caller"
    <3>1. v # u /\ at[v] = "hashing" /\ want'[v] = want[v]
        BY <2>1, <2>3
    <3>2. holder[want[v].on] = "caller"
        BY <3>1 DEF HashersHold
    <3> QED
        BY <2>1, <2>2, <3>1, <3>2
  <2> QED
      BY <2>3 DEF HashersHold
<1>8. ASSUME NEW u \in Cachers, CacheFile(u), ~ HashDone(u)
      PROVE  HashersHold'
  <2>1. \A v \in Cachers : at'[v] = "hashing" => at[v] = "hashing" /\ want'[v] = want[v]
    <3>1. CASE SemWait(u)
        BY <3>1 DEF SemWait, Go, CopyTypes
    <3>2. CASE ~ SemWait(u)
        BY <1>8, <3>2, CopyStepKinds DEF Leaves, Goes, Inside
    <3> QED
        BY <3>1, <3>2
  <2>2. UNCHANGED holder \/ FileSteps
    <3>1. CASE OpenFile(u)
      <4>1. want[u].on \in Tokens /\ u \in Users
          BY <3>1 DEF OpenFile, CopyTypes
      <4> QED
          BY <3>1, <4>1 DEF OpenFile, FileSteps
    <3>2. CASE CloseFile(u)
        BY <3>2 DEF CloseFile, FileSteps
    <3>3. CASE SemWait(u) \/ FindCached(u) \/ OpenFailed(u) \/ OpenDone(u) \/ CopyPiece(u)
             \/ CopyBreaks(u) \/ CopyFailed(u) \/ CopyDone(u) \/ CreateCopy(u)
             \/ CopyNotCreated(u)
        BY <3>3 DEF CopyNotCreated, SemWait, FindCached, OpenFailed, OpenDone, CopyPiece,
                    CopyBreaks, CopyFailed,
                    CopyDone, CreateCopy, CacheStep
    <3> QED
        BY <1>8, <3>1, <3>2, <3>3 DEF CacheFile
  <2> QED
      BY <1>1, <1>2, <2>1, <2>2
<1> QED
    BY <1>3, <1>4, <1>5, <1>6, <1>7, <1>8 DEF CNext

\* A step that is not about v leaves alone what v is told and has open.
NotAbout(v) ==
    /\ at'[v] = at[v] /\ want'[v] = want[v]
    /\ fds'[v] = fds[v] /\ result'[v] = result[v]
    /\ job' = job \/ job' = Idle \/ job'.user # v

CopierFile(v) ==
    /\ fds[v] = IF HasFile(v) THEN [on |-> want[v].on, count |-> 1] ELSE NoFile
    /\ job # Idle /\ job.user = v =>
          /\ job.op = "open" /\ job.on = want[v].on
          /\ at[v] = "opening" /\ result[v] = "none"

\* A program that is no caller of mcp_fs_cache_file() disturbs none of them.
LEMMA ProgramsAreNotAbout ==
    ASSUME FsTypes, NEW w \in Users \ Cachers, Files(w), UNCHANGED <<at, want>>,
           NEW v \in Cachers
    PROVE  NotAbout(v)
<1> USE CacheAssumption
<1>1. v \in Users /\ v # w
    OBVIOUS
<1>2. ASSUME NEW t \in Tokens, NEW op \in ExchangeOps, NEW reading, Calls(op, w, t, reading)
      PROVE  NotAbout(v)
    BY <1>1, <1>2 DEF NotAbout, Calls, Refused, FoundBusy, Begin, Answer, FsTypes, ExchangeOps
<1>3. CASE Dup(w) \/ (\E read \in BOOLEAN : Transfer(w, read)) \/ RewindDir(w)
    BY <1>1, <1>3 DEF NotAbout, Dup, Transfer, RewindDir, Answer, FsTypes
<1>4. CASE \E t \in Tokens : StatDir(w, t)
    BY <1>1, <1>4 DEF NotAbout, StatDir, Answer, FsTypes
<1>5. CASE LookAtRoot(w)
    BY <1>1, <1>5 DEF NotAbout, LookAtRoot
<1>6. CASE \E t \in Modules : ProgramConnects(t)
    BY <1>6 DEF NotAbout, ProgramConnects
<1>7. CASE Operation(w)
    BY <1>2, <1>3, <1>4, <1>5, <1>6, <1>7 DEF Operation, ExchangeOps
<1>8. CASE Closing(w) \/ Listing(w)
    BY <1>1, <1>8 DEF NotAbout, Closing, Listing, Close, CloseDir, ReadDir, Answer, FsTypes
<1> QED
    BY <1>7, <1>8 DEF Files

LEMMA FileOfNotAbout ==
    ASSUME CopyTypes, NEW v \in Cachers, CopierFile(v), NotAbout(v)
    PROVE  CopierFile(v)'
BY DEF CopierFile, NotAbout, HasFile

LEMMA CopiersFilesHold ==
    ASSUME FsTypes, FilesInv, CopyInv, [CNext]_vars
    PROVE  CopiersFiles'
<1> USE DEF CopyInv
<1> USE CacheAssumption, TokensAreNaturals
<1> SUFFICES ASSUME NEW v \in Cachers PROVE CopierFile(v)'
    BY DEF CopierFile, CopiersFiles, HasFile
<1>1. CopierFile(v) /\ v \in Users
    BY DEF CopierFile, CopiersFiles
<1>2. CASE UNCHANGED vars \/ \E u \in Users \ Cachers : ReplaceFile(u)
  <2>1. NotAbout(v)
      BY <1>2 DEF vars, cacheVars, fsVars, ReplaceFile, NotAbout
  <2> QED
      BY <1>1, <2>1, FileOfNotAbout
<1>3. CASE UNCHANGED cacheVars /\ \E u \in Users \ Cachers : Files(u)
  <2>1. NotAbout(v)
      BY <1>3, ProgramsAreNotAbout DEF cacheVars
  <2> QED
      BY <1>1, <2>1, FileOfNotAbout
<1>4. CASE UNCHANGED cacheVars /\ FsStep
  <2>1. at' = at /\ want' = want
      BY <1>4 DEF cacheVars
  <2>2. CASE (\E t \in Modules : ProgramDisconnects(t)) \/ ModuleArrives \/ TwoAreMissing
    <3>1. NotAbout(v)
        BY <2>1, <2>2 DEF ProgramDisconnects, ModuleArrives, TwoAreMissing, NotAbout
    <3> QED
        BY <1>1, <3>1, FileOfNotAbout
  <2>3. CASE PassKnown \/ ProbeFinds \/ TakeForOwn
    <3>1. job.op = "look" /\ job \in Looks
        BY <2>3 DEF PassKnown, ProbeFinds, TakeForOwn, Looking, Serving, FsTypes, Exchanges,
                    Looks, Idle, ExchangeOps
    <3>2. job.user # v
        BY <1>1, <3>1 DEF CopierFile, Idle
    <3>3. job'.user = job.user /\ fds' = fds /\ result' = result
        BY <2>3, <3>1 DEF PassKnown, ProbeFinds, TakeForOwn, Onward, Looks
    <3> QED
        BY <1>1, <2>1, <3>2, <3>3 DEF CopierFile, HasFile
  <2>4. CASE LookDone \/ Exchanged
    <3>1. job # Idle /\ job.op # "open"
        BY <2>4 DEF LookDone, Exchanged, Looking, Serving, Idle
    <3>2. job.user # v
        BY <1>1, <3>1 DEF CopierFile
    <3>3. job' = Idle /\ fds' = fds /\ result'[v] = result[v]
        BY <1>1, <2>4, <3>2 DEF LookDone, Exchanged, Answer, FsTypes
    <3> QED
        BY <1>1, <2>1, <3>3 DEF CopierFile, HasFile
  <2>5. CASE OpenFails \/ OpenSucceeds
    <3>1. job # Idle /\ job \in Exchanges /\ job.user \in Users
        BY <2>5 DEF OpenFails, OpenSucceeds, Serving, FsTypes, Exchanges, Looks, Idle
    <3>2. CASE job.user # v
      <4>1. job' = Idle /\ fds'[v] = fds[v] /\ result'[v] = result[v]
          BY <1>1, <2>5, <3>1, <3>2 DEF OpenFails, OpenSucceeds, Answer, FsTypes
      <4> QED
          BY <1>1, <2>1, <4>1 DEF CopierFile, HasFile
    <3>3. CASE job.user = v
      <4>1. job.on = want[v].on /\ at[v] = "opening" /\ result[v] = "none" /\ fds[v] = NoFile
          BY <1>1, <3>1, <3>3 DEF CopierFile, HasFile
      <4>2. CASE OpenFails
        <5>1. job' = Idle /\ fds'[v] = fds[v] /\ result'[v] = "error"
            BY <1>1, <3>3, <4>2 DEF OpenFails, Answer, FsTypes
        <5> QED
            BY <2>1, <4>1, <5>1 DEF CopierFile, HasFile
      <4>3. CASE OpenSucceeds
        <5>1. job' = Idle /\ fds'[v] = [on |-> job.on, count |-> 1] /\ result'[v] = "ok"
            BY <1>1, <3>3, <4>3 DEF OpenSucceeds, Answer, FsTypes
        <5> QED
            BY <2>1, <4>1, <5>1 DEF CopierFile, HasFile
      <4> QED
          BY <2>5, <4>2, <4>3
    <3> QED
        BY <3>2, <3>3
  <2> QED
      BY <1>4, <2>2, <2>3, <2>4, <2>5 DEF FsStep, Replies, Look
<1>5. CASE Restart
  <2>1. at'[v] = "idle" /\ fds'[v] = NoFile /\ job' = Idle
      BY <1>1, <1>5 DEF Restart
  <2> QED
      BY <2>1 DEF CopierFile, HasFile
<1>6. ASSUME NEW u \in Cachers, NEW t \in Modules, BeginHash(u, t) \/ HashDone(u)
      PROVE  CopierFile(v)'
  <2>1. fds' = fds /\ job' = job /\ result' = result
      BY <1>6 DEF BeginHash, HashDone
  <2>2. v # u => at'[v] = at[v] /\ want'[v] = want[v]
      BY <1>6 DEF BeginHash, HashDone, Go, CopyTypes
  <2>3. v = u => at[v] \in {"idle", "hashing"} /\ at'[v] \in {"idle", "hashing", "hashed"}
      BY <1>6 DEF BeginHash, HashDone, Go, CopyTypes
  <2> QED
      BY <1>1, <2>1, <2>2, <2>3 DEF CopierFile, HasFile
<1>7. ASSUME NEW u \in Cachers, CacheFile(u), ~ HashDone(u)
      PROVE  CopierFile(v)'
  <2>1. v # u => at'[v] = at[v] /\ want'[v] = want[v]
    <3>1. CASE SemWait(u)
        BY <3>1 DEF SemWait, Go, CopyTypes
    <3>2. CASE ~ SemWait(u)
        BY <1>7, <3>2, CopyStepKinds DEF Leaves, Goes
    <3> QED
        BY <3>1, <3>2
  <2>2. CASE OpenFile(u)
    <3>1. /\ at' = at /\ want' = want /\ at[u] = "opening" /\ result[u] = "none"
          /\ Calls("open", u, want[u].on, TRUE) /\ fds' = fds
        BY <2>2 DEF OpenFile, cacheVars, Calls, Refused, FoundBusy, Begin
    <3>2. CASE Begin("open", u, want[u].on, TRUE)
      <4>1. /\ job' = [op |-> "open", user |-> u, on |-> want[u].on, reading |-> TRUE]
            /\ result' = result
          BY <3>2 DEF Begin
      <4> QED
          BY <1>1, <3>1, <4>1 DEF CopierFile, HasFile
    <3>3. CASE ~ Begin("open", u, want[u].on, TRUE)
      <4>1. job' = job /\ job = Idle
            /\ \A x \in Users : result'[x] = IF x = u THEN "error" ELSE result[x]
          BY <3>1, <3>3 DEF Calls, Refused, FoundBusy, Answer, Serve, FsTypes
      <4> QED
          BY <1>1, <3>1, <4>1 DEF CopierFile, HasFile
    <3> QED
        BY <3>2, <3>3
  <2>3. CASE CloseFile(u)
    <3>1. /\ want' = want /\ at[u] \in {"failed", "copying"} /\ at'[u] \in {"removing", "copied"}
          /\ job' = job /\ job = Idle /\ Close(u)
        BY <2>3 DEF CloseFile, Close, Serve, Go, CopyTypes
    <3>2. fds[u].count = 1
      <4>1. fds[u] = [on |-> want[u].on, count |-> 1]
          BY <3>1 DEF CopiersFiles, HasFile
      <4> QED
          BY <4>1
    <3>3. /\ fds'[u] = NoFile
          /\ v # u => fds'[v] = fds[v] /\ result'[v] = result[v]
        BY <1>1, <3>1, <3>2 DEF Close, Answer, FsTypes
    <3> QED
        BY <1>1, <2>1, <3>1, <3>3 DEF CopierFile, HasFile
  <2>4. CASE CreateCopy(u)
    <3>1. /\ want' = want /\ at[u] = "looking" /\ at'[u] = "opening" /\ job' = job /\ fds' = fds
          /\ \A x \in Users : result'[x] = IF x = u THEN "none" ELSE result[x]
        BY <2>4 DEF CreateCopy, CacheStep, Go, Answer, CopyTypes, FsTypes
    <3> QED
        BY <1>1, <2>1, <3>1 DEF CopierFile, HasFile
  <2>5. CASE OpenDone(u) \/ CopyPiece(u) \/ CopyBreaks(u)
    <3>1. /\ want' = want /\ result' = result /\ job' = job /\ fds' = fds
          /\ \/ at[u] = "opening" /\ result[u] = "ok" /\ at'[u] = "copying"
             \/ at[u] = "copying" /\ at'[u] \in {"copying", "failed"}
        BY <2>5 DEF OpenDone, CopyPiece, CopyBreaks, CacheStep, Go, CopyTypes
    <3> QED
        BY <1>1, <2>1, <3>1 DEF CopierFile, HasFile
  <2>6. CASE SemWait(u) \/ FindCached(u) \/ OpenFailed(u) \/ CopyFailed(u) \/ CopyDone(u)
             \/ CopyNotCreated(u)
    <3>1. /\ result' = result /\ job' = job /\ fds' = fds
          /\ at'[u] \in {"looking", "idle"}
          /\ \/ at[u] \in {"hashed", "looking", "copied", "removing"}
             \/ at[u] = "opening" /\ result[u] = "error"
        BY <2>6 DEF CopyNotCreated, SemWait, FindCached, OpenFailed, CopyFailed, CopyDone,
                    CacheStep, Leave, Go,
                    CopyTypes
    <3> QED
        BY <1>1, <2>1, <3>1 DEF CopierFile, HasFile
  <2> QED
      BY <1>7, <2>2, <2>3, <2>4, <2>5, <2>6 DEF CacheFile
<1>8. ASSUME NEW u \in Cachers, HashDone(u)
      PROVE  CopierFile(v)'
  <2>1. want[u].on \in Modules
      BY <1>8 DEF HashDone, CopyTypes
  <2> QED
      BY <1>6, <1>8, <2>1
<1> QED
    BY <1>2, <1>3, <1>4, <1>5, <1>6, <1>7, <1>8 DEF CNext

\* The three parts of CacheInv, of one hash and of one caller.
Whole(h)   == cache[h].of = h /\ cache[h].size = SizeOf[h]
Partial(h) == cache[h].size \in 1..(SizeOf[h] - 1)
Making(h)  == \E u \in Cachers : Hash(u) = h /\ at[u] \in {"copying", "failed", "removing"}

HashOk(h) ==
    h \notin spoiled => \/ cache[h].of = NoHash /\ cache[h].size = 0
                        \/ /\ cache[h].of = h /\ cache[h].size <= SizeOf[h]
                           /\ Partial(h) => Making(h)

PlaceOk(u) ==
    LET h == Hash(u)
    IN /\ at[u] \in {"opening", "copying", "failed", "copied"} => cache[h].of # NoHash
       /\ h \notin spoiled => /\ at[u] = "opening" => cache[h].size = 0
                              /\ at[u] = "copying" => content[want[u].on] = h
                              /\ at[u] = "copied" => Whole(h)

ReturnOk(v) ==
    returned[v] \notin spoiled \union {NoHash} =>
        /\ Whole(returned[v])
        /\ \A u \in Cachers : at[u] \in Inside /\ Hash(u) = returned[v] => at[u] = "looking"

CacheInv ==
    /\ \A h \in Contents : HashOk(h)
    /\ \A u \in Cachers : PlaceOk(u) /\ ReturnOk(u)

LEMMA CacheInvSuffices ==
    ASSUME CopyTypes, CacheInv
    PROVE  CacheHoldsContent
<1> SUFFICES ASSUME NEW v \in Cachers, returned[v] \notin spoiled \union {NoHash}
             PROVE  cache[returned[v]] = Complete(returned[v])
    BY DEF CacheHoldsContent
<1>1. returned[v] \in Contents /\ cache[returned[v]] \in Copy
    BY DEF CopyTypes
<1>2. Whole(returned[v])
    BY DEF CacheInv, ReturnOk
<1> QED
    BY <1>1, <1>2, CopyEquals DEF Whole

\* A step that changes neither copies nor places of callers in them.
LEMMA CacheAlone ==
    ASSUME CopyTypes, CacheInv, UNCHANGED <<cache, spoiled, returned>>,
           \A u \in Cachers :
              /\ at'[u] \in Inside => \/ at'[u] = at[u] /\ want'[u] = want[u]
                                      \/ at'[u] = "looking"
              /\ at'[u] = "copying" => content'[want[u].on] = content[want[u].on]
              /\ at[u] \in {"copying", "failed", "removing"} =>
                     at'[u] = at[u] /\ want'[u] = want[u]
    PROVE  CacheInv'
<1>1. ASSUME NEW h \in Contents
      PROVE  HashOk(h)'
  <2>1. Making(h) => Making(h)'
      BY DEF Making, Hash
  <2> QED
      BY <2>1 DEF CacheInv, HashOk, Partial
<1>2. ASSUME NEW u \in Cachers
      PROVE  PlaceOk(u)'
  <2>1. CASE at'[u] \in Inside \ {"looking"}
    <3>1. /\ at'[u] = at[u] /\ want'[u] = want[u]
          /\ at[u] = "copying" => content'[want[u].on] = content[want[u].on]
        BY <2>1
    <3> QED
        BY <3>1 DEF CacheInv, PlaceOk, Whole, Hash
  <2>2. CASE at'[u] \notin Inside \ {"looking"}
      BY <2>2 DEF PlaceOk, Inside
  <2> QED
      BY <2>1, <2>2
<1>3. ASSUME NEW v \in Cachers
      PROVE  ReturnOk(v)'
  <2>1. ReturnOk(v)
      BY DEF CacheInv
  <2> QED
      BY <2>1 DEF ReturnOk, Whole, Hash, Inside
<1> QED
    BY <1>1, <1>2, <1>3 DEF CacheInv

\* A caller that leaves with a hash leaves a whole copy of it, unless the copy is
\* spoiled; and one that leaves with none has removed what there was.
LEMMA CacheLeft ==
    ASSUME CopyTypes, OneInside, CacheInv, NEW u \in Cachers, at[u] \in Inside,
           NEW h, Leaves(u, h), spoiled' = spoiled, content' = content,
           \/ /\ h = Hash(u) /\ cache' = cache
              /\ at[u] \in {"looking", "copied"} /\ (h \notin spoiled => Whole(h))
           \/ /\ h = NoHash /\ at[u] # "looking"
              /\ cache' = [cache EXCEPT ![Hash(u)] = Absent]
           \/ h = NoHash /\ at[u] = "looking" /\ cache' = cache
    PROVE  CacheInv'
<1> DEFINE g == Hash(u)
<1>1. g \in Contents /\ g # NoHash
    BY CacheAssumption DEF CopyTypes, NoHash
<1>2. \A v \in Cachers : at'[v] \in Inside =>
          v # u /\ at'[v] = at[v] /\ want'[v] = want[v] /\ Hash(v) # g /\ Hash(v) \in Contents
    BY DEF Leaves, Goes, OneInside, Inside, CopyTypes
<1>3. \A x \in Contents : x # g => cache'[x] = cache[x]
    BY DEF CopyTypes
<1>4. ASSUME NEW x \in Contents
      PROVE  HashOk(x)'
  <2>1. CASE x # g
    <3>1. Making(x) => Making(x)'
        BY <2>1 DEF Making, Leaves, Goes, Hash
    <3> QED
        BY <1>3, <2>1, <3>1 DEF CacheInv, HashOk, Partial
  <2>2. CASE x = g /\ h = NoHash /\ at[u] # "looking"
    <3>1. cache'[x] = Absent
        BY <1>1, <2>2 DEF CopyTypes
    <3> QED
        BY <3>1 DEF HashOk, Absent
  <2>3. CASE x = g /\ h # NoHash
    <3>1. x \notin spoiled => Whole(x) /\ SizeOf[x] \in Nat
        BY <2>3, CacheAssumption
    <3>2. cache' = cache
        BY <2>3
    <3> QED
        BY <3>1, <3>2 DEF HashOk, Whole, Partial
  <2>4. CASE x = g /\ h = NoHash /\ at[u] = "looking"
    <3>1. Making(x) => Making(x)'
        BY <2>4 DEF Making, Leaves, Goes, Hash
    <3>2. cache' = cache
        BY <2>4
    <3> QED
        BY <3>1, <3>2 DEF CacheInv, HashOk, Partial
  <2> QED
      BY <2>1, <2>2, <2>3, <2>4
<1>5. ASSUME NEW v \in Cachers
      PROVE  PlaceOk(v)'
  <2>1. CASE at'[v] \in Inside
      BY <1>2, <1>3, <2>1 DEF CacheInv, PlaceOk, Whole, Hash
  <2>2. CASE at'[v] \notin Inside
      BY <2>2 DEF PlaceOk, Inside
  <2> QED
      BY <2>1, <2>2
<1>6. ASSUME NEW v \in Cachers
      PROVE  ReturnOk(v)'
  <2>1. CASE v = u
      BY <1>1, <1>2, <2>1 DEF Leaves, ReturnOk, Whole, Hash
  <2>2. CASE v # u
    <3>1. ReturnOk(v) /\ returned'[v] = returned[v] /\ returned[v] \in Contents \union {NoHash}
        BY <2>2 DEF CacheInv, Leaves, CopyTypes
    <3>2. returned[v] = g /\ g \notin spoiled => at[u] = "looking"
        BY <1>1, <3>1 DEF ReturnOk
    <3>3. returned[v] \notin spoiled \union {NoHash} => cache'[returned[v]] = cache[returned[v]]
        BY <1>3, <3>1, <3>2
    <3> QED
        BY <1>2, <3>1, <3>3 DEF ReturnOk, Whole, Hash
  <2> QED
      BY <2>1, <2>2
<1> QED
    BY <1>4, <1>5, <1>6 DEF CacheInv

\* A caller that goes on inside, and changes at most the copy of its own hash.
LEMMA CacheMade ==
    ASSUME CopyTypes, OneInside, CacheInv, NEW u \in Cachers, at[u] \in Inside,
           NEW p \in Inside, Goes(u, p), UNCHANGED <<want, returned, content>>,
           NEW g \in Contents, Hash(u) = g,
           \A x \in Contents : x # g => cache'[x] = cache[x],
           spoiled' = spoiled \/ spoiled' = spoiled \union {g},
           at[u] = "looking" => ~ Whole(g),
           HashOk(g)', PlaceOk(u)'
    PROVE  CacheInv'
<1>1. \A v \in Cachers : v # u /\ at'[v] \in Inside =>
          at'[v] = at[v] /\ Hash(v) # g /\ Hash(v) \in Contents
    BY DEF Goes, OneInside, CopyTypes
<1>2. g # NoHash
    BY CacheAssumption DEF NoHash
<1>3. ASSUME NEW x \in Contents
      PROVE  HashOk(x)'
  <2>1. CASE x = g
      BY <2>1
  <2>2. CASE x # g
    <3>1. Making(x) => Making(x)'
        BY <2>2 DEF Making, Goes, Hash
    <3> QED
        BY <2>2, <3>1 DEF CacheInv, HashOk, Partial
  <2> QED
      BY <2>1, <2>2
<1>4. ASSUME NEW v \in Cachers
      PROVE  PlaceOk(v)'
  <2>1. CASE v # u /\ at'[v] \in Inside
      BY <1>1, <2>1 DEF CacheInv, PlaceOk, Whole, Hash
  <2>2. CASE at'[v] \notin Inside
      BY <2>2 DEF PlaceOk, Inside
  <2> QED
      BY <2>1, <2>2
<1>5. ASSUME NEW v \in Cachers
      PROVE  ReturnOk(v)'
  <2>1. ReturnOk(v) /\ returned[v] \in Contents \union {NoHash}
      BY DEF CacheInv, CopyTypes
  <2>2. returned[v] \in spoiled' \union {NoHash} \/ returned[v] # g
      BY <1>2, <2>1 DEF ReturnOk
  <2>3. returned[v] \notin spoiled' \union {NoHash} =>
            returned[v] \notin spoiled \union {NoHash} /\ cache'[returned[v]] = cache[returned[v]]
      BY <2>1, <2>2
  <2> QED
      BY <1>1, <2>1, <2>2, <2>3 DEF ReturnOk, Whole, Hash, Goes
<1> QED
    BY <1>3, <1>4, <1>5 DEF CacheInv

LEMMA CacheInvHolds ==
    ASSUME FsTypes, FilesInv, CopyInv, CacheInv, [CNext]_vars
    PROVE  CacheInv'
<1> USE DEF CopyInv
<1>1. CASE UNCHANGED cacheVars
    BY <1>1, CacheAlone DEF cacheVars
<1>2. ASSUME NEW w \in Users \ Cachers, ReplaceFile(w)
      PROVE  CacheInv'
  <2>1. /\ UNCHANGED <<cache, spoiled, returned, at, want>>
        /\ \A i \in Modules : i # fds[w].on => content'[i] = content[i]
      BY <1>2 DEF ReplaceFile, CopyTypes
  <2>2. ASSUME NEW u \in Cachers, at[u] = "copying"
        PROVE  content'[want[u].on] = content[want[u].on]
    <3>1. fds[u] = [on |-> want[u].on, count |-> 1] /\ want[u].on \in Modules
        BY <2>2 DEF CopiersFiles, HasFile, CopyTypes
    <3>2. fds[u] # NoFile /\ fds[u].on = want[u].on
        BY <3>1, FsAssumption DEF NoFile, Modules, Tokens
    <3>3. fds[w].on # want[u].on
        BY <3>2, CacheAssumption DEF FilesInv
    <3> QED
        BY <2>1, <3>1, <3>3
  <2> QED
      BY <2>1, <2>2, CacheAlone
<1>3. CASE Restart
  <2>1. /\ \A u \in Cachers : at'[u] = "idle" /\ returned'[u] = NoHash
        /\ cache' = cache
        /\ spoiled' = spoiled \union {h \in Contents : cache[h].size \in 1..(SizeOf[h] - 1)}
      BY <1>3 DEF Restart
  <2>2. ASSUME NEW h \in Contents
        PROVE  HashOk(h)'
      BY <2>1 DEF CacheInv, HashOk, Partial
  <2>3. ASSUME NEW u \in Cachers
        PROVE  PlaceOk(u)' /\ ReturnOk(u)'
      BY <2>1 DEF PlaceOk, ReturnOk
  <2> QED
      BY <2>2, <2>3 DEF CacheInv
<1>4. ASSUME NEW u \in Cachers, NEW t \in Modules, BeginHash(u, t)
      PROVE  CacheInv'
    BY <1>4, CacheAlone DEF BeginHash, Go, CopyTypes, Inside
<1>5. ASSUME NEW u \in Cachers, HashDone(u) \/ SemWait(u)
      PROVE  CacheInv'
  <2>1. UNCHANGED <<cache, spoiled, returned, content>>
      BY <1>5 DEF HashDone, SemWait, CacheStep
  <2>2. /\ at[u] \in {"hashing", "hashed"} /\ at'[u] \in {"idle", "hashed", "looking"}
        /\ \A v \in Cachers : v # u => at'[v] = at[v] /\ want'[v] = want[v]
      BY <1>5 DEF HashDone, SemWait, Go, CopyTypes
  <2> QED
      BY <2>1, <2>2, CacheAlone DEF Inside
<1>6. ASSUME NEW u \in Cachers, CreateCopy(u) \/ OpenDone(u) \/ CopyPiece(u) \/ CopyBreaks(u)
                                \/ CloseFile(u)
      PROVE  CacheInv'
  <2> DEFINE g == Hash(u)
             x == content[want[u].on]
  <2>1. /\ at[u] \in {"looking", "opening", "copying", "failed"}
        /\ UNCHANGED <<want, returned, content>>
      BY <1>6 DEF CreateCopy, OpenDone, CopyPiece, CopyBreaks, CloseFile, CacheStep
  <2>2. /\ at[u] \in Inside /\ g \in Contents /\ x \in Contents /\ cache[g] \in Copy
        /\ SizeOf[g] \in Nat /\ SizeOf[x] \in Nat /\ g # NoHash
      BY <2>1, CacheAssumption DEF Inside, CopyTypes, NoHash
  <2>3. HashOk(g) /\ PlaceOk(u)
      BY <2>2 DEF CacheInv
  <2>4. \A h : h = g => Hash(u)' = h
      BY <2>1 DEF Hash
  <2>5. CASE CreateCopy(u)
    <3>1. /\ at[u] = "looking" /\ Goes(u, "opening") /\ spoiled' = spoiled
          /\ cache' = [cache EXCEPT ![g] = IF @ = Absent THEN [of |-> g, size |-> 0] ELSE @]
          /\ ~ Cached(g)
        BY <2>5 DEF CreateCopy, CacheStep, Go, Goes, CopyTypes
    <3>2. /\ cache[g] # Absent => cache[g].size = 0
          /\ cache[g] = Absent <=> cache[g].of = NoHash /\ cache[g].size = 0
        BY <2>2, <3>1, CopyEquals DEF Cached, Copy
    <3>3. ~ Whole(g)
        BY <2>2, <3>1, CopyEquals DEF Cached, Whole, Copy
    <3>4. /\ cache'[g].size = 0 /\ cache'[g].of # NoHash
          /\ cache'[g].of = IF cache[g] = Absent THEN g ELSE cache[g].of
      <4>1. cache'[g] = IF cache[g] = Absent THEN [of |-> g, size |-> 0] ELSE cache[g]
          BY <2>2, <3>1 DEF CopyTypes
      <4> QED
          BY <2>2, <3>2, <4>1 DEF Copy
    <3>5. \A h : h = g => HashOk(h)'
        BY <2>2, <2>3, <3>1, <3>2, <3>4 DEF HashOk, Partial
    <3>6. PlaceOk(u)'
        BY <2>4, <3>1, <3>4 DEF PlaceOk, Goes
    <3>7. \A h \in Contents : h # g => cache'[h] = cache[h]
        BY <3>1 DEF CopyTypes
    <3> QED
        BY <2>1, <2>2, <3>1, <3>3, <3>5, <3>6, <3>7, CacheMade DEF Inside
  <2>6. CASE OpenDone(u)
    <3> DEFINE c == [cache[g] EXCEPT !.of = x]
    <3>1. /\ at[u] = "opening" /\ Goes(u, "copying") /\ cache' = [cache EXCEPT ![g] = c]
          /\ spoiled' = IF x = g THEN spoiled ELSE spoiled \union {g}
        BY <2>6 DEF OpenDone, Go, Goes, CopyTypes
    <3>2. c.of = x /\ c.size = cache[g].size
        BY <2>2, CopyRenamed, Zenon
    <3> HIDE DEF c
    <3>3. cache'[g] = c /\ \A h \in Contents : h # g => cache'[h] = cache[h]
        BY <2>2, <3>1 DEF CopyTypes
    <3>4. g \notin spoiled' => x = g /\ g \notin spoiled /\ cache[g].size = 0
        BY <2>3, <3>1 DEF PlaceOk
    <3>5. x # NoHash
        BY <2>2, CacheAssumption DEF NoHash
    <3>6. \A h : h = g => HashOk(h)'
        BY <2>2, <3>2, <3>3, <3>4 DEF HashOk, Partial
    <3>7. PlaceOk(u)'
        BY <2>1, <2>4, <3>1, <3>2, <3>3, <3>4, <3>5 DEF PlaceOk, Goes
    <3>8. spoiled' = spoiled \/ spoiled' = spoiled \union {g}
        BY <3>1
    <3> QED
        BY <2>1, <2>2, <3>1, <3>3, <3>6, <3>7, <3>8, CacheMade DEF Inside
  <2>7. CASE CopyPiece(u)
    <3> DEFINE n == cache[g].size + 1
               c == [cache[g] EXCEPT !.size = n]
    <3>1. /\ at[u] = "copying" /\ Goes(u, "copying") /\ cache' = [cache EXCEPT ![g] = c]
          /\ spoiled' = spoiled /\ cache[g].size < SizeOf[x]
        BY <2>7 DEF CopyPiece, CacheStep, Goes, CopyTypes
    <3>2. n \in Nat
        BY <2>2 DEF Copy
    <3>3. c.of = cache[g].of /\ c.size = n
      <4> HIDE DEF n
      <4> QED
          BY <2>2, <3>2, CopyResized, Zenon
    <3> HIDE DEF c
    <3>4. cache'[g] = c /\ \A h \in Contents : h # g => cache'[h] = cache[h]
        BY <2>2, <3>1 DEF CopyTypes
    <3>5. g \notin spoiled => x = g
        BY <2>3, <3>1 DEF PlaceOk
    <3>6. cache[g].of # NoHash
        BY <2>3, <3>1 DEF PlaceOk
    <3>7. \A h : h = g => Making(h)'
        BY <2>4, <3>1 DEF Making, Goes
    <3>8. \A h : h = g => HashOk(h)'
      <4>1. g \notin spoiled => cache[g].of = g /\ cache[g].size < SizeOf[g]
          BY <2>3, <3>1, <3>5, <3>6 DEF HashOk
      <4>2. cache[g].size \in Nat
          BY <2>2 DEF Copy
      <4> QED
          BY <2>2, <3>1, <3>3, <3>4, <3>7, <4>1, <4>2 DEF HashOk, Partial
    <3>9. PlaceOk(u)'
        BY <2>1, <2>4, <3>1, <3>3, <3>4, <3>5, <3>6 DEF PlaceOk, Goes
    <3> QED
        BY <2>1, <2>2, <3>1, <3>4, <3>8, <3>9, CacheMade DEF Inside
  <2>8. CASE CopyBreaks(u) \/ CloseFile(u)
    <3>1. /\ cache' = cache /\ spoiled' = spoiled
          /\ \/ at[u] = "copying" /\ Goes(u, "failed")
             \/ at[u] = "failed" /\ Goes(u, "removing")
             \/ at[u] = "copying" /\ Goes(u, "copied") /\ cache[g].size = SizeOf[x]
        BY <2>8 DEF CopyBreaks, CloseFile, CacheStep, Go, Goes, CopyTypes
    <3>2. PICK p \in Inside :
             /\ Goes(u, p) /\ p \in {"failed", "removing", "copied"}
             /\ at[u] \in {"copying", "failed"}
             /\ p = "copied" => at[u] = "copying" /\ cache[g].size = SizeOf[x]
        BY <3>1 DEF Inside
    <3>3. cache[g].of # NoHash /\ (g \notin spoiled /\ at[u] = "copying" => x = g)
        BY <2>3, <3>2 DEF PlaceOk
    <3>4. g \notin spoiled => cache[g].of = g /\ cache[g].size <= SizeOf[g]
        BY <2>3, <3>3 DEF HashOk
    <3>5. \A h : h = g => HashOk(h)'
      <4>1. CASE p = "copied"
          BY <2>2, <3>1, <3>2, <3>3, <3>4, <4>1 DEF HashOk, Partial
      <4>2. CASE p # "copied"
        <5>1. \A h : h = g => Making(h)'
            BY <2>4, <3>2, <4>2 DEF Making, Goes
        <5> QED
            BY <3>1, <3>4, <5>1 DEF HashOk
      <4> QED
          BY <4>1, <4>2
    <3>6. PlaceOk(u)'
        BY <2>4, <3>1, <3>2, <3>3, <3>4 DEF PlaceOk, Goes, Whole
    <3> QED
        BY <2>1, <2>2, <3>1, <3>2, <3>5, <3>6, CacheMade
  <2> QED
      BY <1>6, <2>5, <2>6, <2>7, <2>8
<1>7. ASSUME NEW u \in Cachers, FindCached(u) \/ CopyDone(u)
      PROVE  CacheInv'
  <2> DEFINE g == Hash(u)
  <2>1. /\ at[u] \in {"looking", "copied"} /\ Leave(u, g) /\ content' = content
        /\ cache' = cache /\ spoiled' = spoiled
      BY <1>7 DEF FindCached, CopyDone, CacheStep
  <2>2. at[u] \in Inside /\ g \in Contents /\ cache[g] \in Copy /\ SizeOf[g] \in Nat
      BY <2>1, CacheAssumption DEF Inside, CopyTypes
  <2>3. g \notin spoiled => Whole(g)
    <3>1. CASE CopyDone(u)
        BY <3>1 DEF CacheInv, PlaceOk, CopyDone
    <3>2. CASE FindCached(u)
      <4>1. at[u] = "looking" /\ cache[g] # Absent /\ (cache[g].size > 0 \/ SizeOf[g] = 0)
          BY <3>2 DEF FindCached, Cached
      <4>2. ~ Making(g)
        <5>1. \A v \in Cachers : at[v] \in Inside /\ Hash(v) = g => v = u
            BY <2>2 DEF OneInside
        <5> QED
            BY <4>1, <5>1 DEF Making, Inside
      <4>3. ~ (cache[g].of = NoHash /\ cache[g].size = 0)
          BY <2>2, <4>1, CopyEquals
      <4> QED
          BY <2>2, <4>1, <4>2, <4>3 DEF CacheInv, HashOk, Whole, Partial, Copy
    <3> QED
        BY <1>7, <3>1, <3>2
  <2>4. Leaves(u, g)
      BY <2>1, <2>2, CallerLeaves
  <2> QED
      BY <2>1, <2>2, <2>3, <2>4, CacheLeft
<1>8. ASSUME NEW u \in Cachers, OpenFailed(u) \/ CopyFailed(u)
      PROVE  CacheInv'
  <2>1. /\ at[u] \in {"opening", "copied", "removing"} /\ Leave(u, NoHash) /\ content' = content
        /\ cache' = [cache EXCEPT ![Hash(u)] = Absent] /\ spoiled' = spoiled
      BY <1>8 DEF OpenFailed, CopyFailed, CacheStep, AfterFailure
  <2>2. at[u] \in Inside /\ at[u] # "looking"
      BY <2>1 DEF Inside
  <2>3. Leaves(u, NoHash)
      BY <2>1, <2>2, CallerLeaves
  <2> QED
      BY <2>1, <2>2, <2>3, CacheLeft
<1>9. ASSUME NEW u \in Cachers, OpenFile(u)
      PROVE  CacheInv'
    BY <1>1, <1>9 DEF OpenFile
<1>10. ASSUME NEW u \in Cachers, CopyNotCreated(u)
       PROVE  CacheInv'
  <2>1. /\ at[u] = "looking" /\ Leave(u, NoHash) /\ content' = content
        /\ cache' = cache /\ spoiled' = spoiled
      BY <1>10 DEF CopyNotCreated, CacheStep
  <2>2. at[u] \in Inside
      BY <2>1 DEF Inside
  <2>3. Leaves(u, NoHash)
      BY <2>1, <2>2, CallerLeaves
  <2> QED
      BY <2>1, <2>2, <2>3, CacheLeft
<1> QED
    BY <1>1, <1>2, <1>3, <1>4, <1>5, <1>6, <1>7, <1>8, <1>9, <1>10 DEF CNext, CacheFile, vars

(***************************************************************************)
(* The theorems.                                                           *)
(***************************************************************************)

IInv == FsTypes /\ FilesInv /\ RootInv /\ CopyInv /\ CacheInv

LEMMA InitiallyIInv == CInit => IInv
<1> SUFFICES ASSUME CInit PROVE IInv
    OBVIOUS
<1> USE CacheAssumption, FsAssumption
<1>1. /\ arrived = 0 /\ holder = [t \in Modules |-> "nobody"]
      /\ peers = [i \in {} |-> NewPeer] /\ selfIndex = -1 /\ job = Idle
      /\ fds = [u \in Users |-> NoFile] /\ dirs = [u \in Users |-> NoDir]
      /\ result = [u \in Users |-> "none"] /\ early = FALSE
    BY Zenon DEF CInit, Init
<1>2. DOMAIN peers = {} /\ {} = 0..(0 - 1)
    BY <1>1
<1>3. FsTypes
  <2>1. /\ holder \in [Modules -> {"nobody", "fs", "program", "caller"}]
        /\ fds \in [Users -> File] /\ dirs \in [Users -> Dirs]
        /\ result \in [Users -> Results]
      BY <1>1 DEF File, Dirs, Results
  <2>2. peers \in [DOMAIN peers -> Peer]
      BY <1>1
  <2>3. arrived \in Nat /\ selfIndex \in Int
      BY <1>1
  <2>4. early \in BOOLEAN /\ job \in {Idle} \union Exchanges \union Looks
      BY <1>1, Zenon
  <2> QED
      BY <2>1, <2>2, <2>3, <2>4, Zenon DEF FsTypes
<1>4. FilesInv
  <2>1. /\ \A t \in Modules : holder[t] = "nobody" /\ t # -1
        /\ \A u \in Users : fds[u] = NoFile
      BY <1>1 DEF Modules, Tokens
  <2> QED
      BY <1>1, <1>2, <2>1 DEF FilesInv, Used, Busy, InUse, Idle, NoFile, ExchangeOps
<1>5. RootInv
    BY <1>1, <1>2 DEF RootInv, PeersInRow, OnlyModulesSeen, OwnIsFound, LookInv, ListingsSoFar,
                      Idle, NoDir
<1>6. /\ content \in [Modules -> Contents] /\ cache = [h \in Contents |-> Absent]
      /\ sem = [h \in Contents |-> 1] /\ spoiled = {}
      /\ \A u \in Cachers : at[u] = "idle" /\ want[u] = NoWish /\ returned[u] = NoHash
      /\ at = [u \in Cachers |-> "idle"] /\ want = [u \in Cachers |-> NoWish]
      /\ returned = [u \in Cachers |-> NoHash]
    BY DEF CInit
<1>7. CopyTypes
  <2>1. Absent \in Copy /\ NoWish \in Wish
      BY DEF Absent, Copy, NoWish, Wish
  <2> QED
      BY <1>6, <2>1 DEF CopyTypes, Inside
<1>8. HashersHold /\ OneInside
    BY <1>6 DEF HashersHold, OneInside, Inside
<1>9. CopiersFiles
    BY <1>1, <1>6 DEF CopiersFiles, HasFile
<1>10. CacheInv
    BY <1>6 DEF CacheInv, HashOk, PlaceOk, ReturnOk, Absent, Inside
<1> QED
    BY <1>3, <1>4, <1>5, <1>7, <1>8, <1>9, <1>10 DEF IInv, CopyInv

LEMMA StepKeepsIInv == IInv /\ [CNext]_vars => IInv'
<1> SUFFICES ASSUME IInv, [CNext]_vars PROVE IInv'
    OBVIOUS
<1>1. Acts
    BY StepsAreActs DEF IInv
<1>2. FsTypes' /\ FilesInv' /\ RootInv'
    BY <1>1, FsTypesHold, FilesInvHolds, RootInvHolds DEF IInv
<1>3. CopyInv'
    BY CopyTypesHold, OneInsideHolds, HashersHoldStill, CopiersFilesHold DEF IInv, CopyInv
<1>4. CacheInv'
    BY CacheInvHolds DEF IInv
<1> QED
    BY <1>2, <1>3, <1>4 DEF IInv

\* The types, and the whole inductive invariant, hold in every state.
THEOREM FsInvariant == CSpec => []IInv
BY InitiallyIInv, StepKeepsIInv, PTL DEF CSpec

\* The file system holds a module in mcpd exactly while files on it are open or
\* a call about it is served, and counts their descriptors right.
THEOREM FsConnectionsMatchFiles == CSpec => []ConnectionsMatchFiles
<1>1. IInv => ConnectionsMatchFiles
  <2> SUFFICES ASSUME IInv, NEW t \in Modules
               PROVE  LET users == {u \in Users : fds[u].on = t}
                          busy  == job.op \in {"open", "stat", "unlink", "list"} /\ job.on = t
                      IN /\ holder[t] = "fs" <=> (users # {} \/ busy)
                         /\ users # {} <=> (t \in DOMAIN peers /\ peers[t].con)
                         /\ \A u \in users : peers[t].refcount = fds[u].count /\ users = {u}
      BY DEF ConnectionsMatchFiles
  <2>1. FilesInv /\ NoFile.on # t
      BY FsAssumption DEF IInv, NoFile, Modules, Tokens
  <2>2. {u \in Users : fds[u].on = t} # {} <=> Used(t)
      BY DEF Used
  <2>3. ASSUME NEW u \in Users, fds[u].on = t
        PROVE  /\ peers[t].refcount = fds[u].count
               /\ {v \in Users : fds[v].on = t} = {u}
      BY <2>1, <2>3 DEF FilesInv
  <2> QED
      BY <2>1, <2>2, <2>3 DEF FilesInv, Busy, InUse, ExchangeOps
<1> QED
    BY <1>1, FsInvariant, PTL

\* A listing of the root that was begun when all modules were there names each of
\* them and not the own token, whatever else was opened between.
THEOREM FsRootListsModules == CSpec => []RootListsModules
<1>1. IInv => RootListsModules
  <2> SUFFICES ASSUME IInv, NEW u \in Users, dirs[u].is = "root", dirs[u].ended,
                      dirs[u].whole, ~ early
               PROVE  dirs[u].listed = Modules
      BY DEF RootListsModules
  <2>1. ListedSoFar(dirs[u])
      BY DEF IInv, RootInv, ListingsSoFar
  <2>2. (0..((Last + 1) - 1)) = 0..Last
      BY FsAssumption
  <2> QED
      BY <2>1, <2>2 DEF ListedSoFar, Modules, Tokens
<1> QED
    BY <1>1, FsInvariant, PTL

\* A path that mcp_fs_cache_file() returned names a complete copy of the content
\* its hash stands for, for as long as the caller may use it.
THEOREM FsCacheHoldsContent == CSpec => []CacheHoldsContent
<1>1. IInv => CacheHoldsContent
    BY CacheInvSuffices DEF IInv, CopyInv
<1> QED
    BY <1>1, FsInvariant, PTL
=============================================================================
