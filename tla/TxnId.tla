------------------------------- MODULE TxnId -------------------------------
(***************************************************************************)
(* The transaction ids of the beeper task (src/beeper/beeper_task.c).      *)
(* An id must never be used twice by a device, also not by a later run of  *)
(* the program.  The task therefore keeps in a file the end of the range   *)
(* it may issue from, moves that end on by a fixed increment before it     *)
(* issues the first id of a new range, and starts a run at the end it      *)
(* finds in the file.  Only the task's thread calls txnid_init() and       *)
(* txnid_next(), so the steps here are the file operations of one thread,  *)
(* and a crash of the program may fall between any two of them.            *)
(***************************************************************************)
EXTENDS Integers, Sequences

CONSTANTS Increment,  \* TXNID_INCREMNET
          MaxTxnId    \* bound: no range is begun from here on (for TLC)

ASSUME TxnIdAssumption == Increment \in Nat \ {0}

VARIABLES
    stored,    \* what the file holds: a number, or one of the two below
    txnid,     \* t->txnid
    rangeEnd,  \* t->txnid_range_end
    at,        \* where the thread is
    caller,    \* who called txnid_range_end_update_()
    issued     \* the ids that txnid_next() returned, in order, over all runs

vars == <<stored, txnid, rangeEnd, at, caller, issued>>

NoFile    == -1  \* open() for reading fails with ENOENT
Truncated == -2  \* the file is there and empty

Down    == "down"
Aborted == "aborted"
Update  == {"opening", "writing"}
Places  == {Down, Aborted, "up", "issuing"} \union Update

Init ==
    /\ stored = NoFile
    /\ txnid = 0
    /\ rangeEnd = 0
    /\ at = Down
    /\ caller = "init"
    /\ issued = <<>>
-----------------------------------------------------------------------------
\* Slip: the run starts one short of the stored end, as if it were the last id.
FirstOfLast(contents) == IF contents = NoFile THEN 0 ELSE contents - 1

(* txnid_init(): an absent file means that no id was ever issued; a file   *)
(* that does not hold 16 digits fails the assertion on read().             *)
FirstOf(contents) == IF contents = NoFile THEN 0 ELSE contents

Start ==
    /\ at = Down
    /\ stored # Truncated
    /\ txnid' = FirstOf(stored)
    /\ at' = "opening"
    /\ caller' = "init"
    /\ UNCHANGED <<stored, rangeEnd, issued>>

StartUnreadable ==
    /\ at = Down
    /\ stored = Truncated
    /\ at' = Aborted
    /\ UNCHANGED <<stored, txnid, rangeEnd, caller, issued>>

(* txnid_range_end_update_(): open() truncates, then write() fills.        *)
Open ==
    /\ at = "opening"
    /\ txnid < MaxTxnId
    /\ rangeEnd' = txnid + Increment
    /\ stored' = Truncated
    /\ at' = "writing"
    /\ UNCHANGED <<txnid, caller, issued>>

EndWritten == rangeEnd

Write ==
    /\ at = "writing"
    /\ stored' = EndWritten
    /\ at' = IF caller = "init" THEN "up" ELSE "issuing"
    /\ UNCHANGED <<txnid, rangeEnd, caller, issued>>

(* txnid_next(): a range that is used up is renewed first.                 *)
RenewRange ==
    /\ at = "up"
    /\ txnid = rangeEnd
    /\ at' = "opening"
    /\ caller' = "next"
    /\ UNCHANGED <<stored, txnid, rangeEnd, issued>>

Issue ==
    /\ \/ at = "up" /\ txnid # rangeEnd
       \/ at = "issuing"
    /\ issued' = Append(issued, txnid)
    /\ txnid' = txnid + 1
    /\ at' = "up"
    /\ UNCHANGED <<stored, rangeEnd, caller>>

(* The program is stopped or dies; the file stays as it is.                *)
Crash ==
    /\ at # Down
    /\ at' = Down
    /\ UNCHANGED <<stored, txnid, rangeEnd, caller, issued>>

Next == Start \/ StartUnreadable \/ Open \/ Write \/ RenewRange \/ Issue \/ Crash

Spec == Init /\ [][Next]_vars
-----------------------------------------------------------------------------
(* No id is ever returned twice by txnid_next(), whatever the points at    *)
(* which earlier runs ended: what the comment on txnid_init() asks for.    *)
TxnIdsUnique ==
    \A i, j \in 1..Len(issued) : issued[i] = issued[j] => i = j

(* A number in the file is beyond every id issued so far, also while a run *)
(* is using its range: the next run may start from it at any moment.       *)
RangeCoversIssued ==
    stored \notin {NoFile, Truncated} =>
        \A i \in 1..Len(issued) : issued[i] < stored

(* txnid_init() asserts rwres == 16: a file that is there can be read.     *)
NeverUnreadable == at # Aborted
=============================================================================
