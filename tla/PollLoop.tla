------------------------------ MODULE PollLoop ------------------------------
(***************************************************************************)
(* The poll loop of src/mcp_lvgl_common/mcp_lvgl_common.c.  Programs       *)
(* register file descriptors with callbacks; mcp_lvgl_poll_run() takes the *)
(* ready ones from epoll in one batch and calls their callbacks one after  *)
(* the other.  A callback may add, modify and remove any registration,     *)
(* also one whose event is still to come in the batch, and the memory of a *)
(* removed one may be handed out again at once.  A handle is therefore an  *)
(* address here, and every registration has a number of its own that the   *)
(* code does not have.                                                     *)
(***************************************************************************)
EXTENDS Integers, Sequences, FiniteSets

CONSTANTS Addresses,  \* memory for handles
          Fds,        \* file descriptors
          NULL,
          MaxAdds     \* bound on the registrations of a behaviour

VARIABLES
    handle,      \* what the memory at each address holds; Unused when free
    head,        \* g->head
    interest,    \* the epoll instance: per descriptor what epoll_ctl() gave
    batch,       \* g->ep_eventlist, up to running_poll_event_count
    polled,      \* the number of the registration of each event of batch
    running,     \* g->running_poll_i, 1-based
    at,          \* "outside" the loop, "between" callbacks, "callback"
    index,       \* the loop variable i, 1-based
    added        \* how many registrations were made

vars == <<handle, head, interest, batch, polled, running, at, index, added>>

Wants == {"in", "out"}
Events == Wants \union {"hup"}  \* EPOLLHUP and EPOLLERR

Unused == [fd |-> NULL, events |-> {}, prev |-> NULL, next |-> NULL, number |-> 0]
Used   == {a \in Addresses : handle[a].fd # NULL}

Init ==
    /\ handle = [a \in Addresses |-> Unused]
    /\ head = NULL
    /\ interest = [f \in Fds |-> [address |-> NULL, events |-> {}]]
    /\ batch = <<>>
    /\ polled = <<>>
    /\ running = 0
    /\ at = "outside"
    /\ index = 1
    /\ added = 0
-----------------------------------------------------------------------------
(* mcp_lvgl_poll_add(): malloc() gives any free address.                   *)
Linked(a, new) ==
    [b \in Addresses |-> IF b = a THEN new
                         ELSE IF b = head THEN [handle[b] EXCEPT !.prev = a]
                         ELSE handle[b]]

Add(a, f, events) ==
    /\ a \notin Used /\ interest[f].address = NULL
    /\ added < MaxAdds
    /\ added' = added + 1
    /\ handle' = Linked(a, [fd |-> f, events |-> events, prev |-> NULL,
                            next |-> head, number |-> added + 1])
    /\ head' = a
    /\ interest' = [interest EXCEPT ![f] = [address |-> a, events |-> events]]
    /\ UNCHANGED <<batch, polled>>

(* mcp_lvgl_poll_modify().                                                 *)
Modify(a, events) ==
    /\ handle' = [handle EXCEPT ![a].events = events]
    /\ interest' = [interest EXCEPT ![handle[a].fd] = [address |-> a, events |-> events]]
    /\ UNCHANGED <<head, batch, polled, added>>

\* Slip: the search starts one too far.
ToForgetLater(a) == {i \in (running + 2)..Len(batch) : batch[i].address = a}

(* mcp_lvgl_poll_remove(): the events after the running one that point to  *)
(* the handle are forgotten, and the handle is unlinked and freed.         *)
ToForget(a) == {i \in (running + 1)..Len(batch) : batch[i].address = a}

Unlinked(a) ==
    LET p == handle[a].prev
        n == handle[a].next
    IN  [b \in Addresses |-> IF b = a THEN Unused
                             ELSE IF b = p THEN [handle[b] EXCEPT !.next = n]
                             ELSE IF b = n THEN [handle[b] EXCEPT !.prev = p]
                             ELSE handle[b]]

Remove(a) ==
    /\ interest' = [interest EXCEPT ![handle[a].fd] = [address |-> NULL, events |-> {}]]
    /\ batch' = [i \in 1..Len(batch) |->
                    IF i \in ToForget(a) THEN [batch[i] EXCEPT !.address = NULL]
                    ELSE batch[i]]
    /\ head' = IF head = a THEN handle[a].next ELSE head
    /\ handle' = Unlinked(a)
    /\ UNCHANGED <<polled, added>>

(* What the program does outside mcp_lvgl_poll_run(), in LVGL's timers,    *)
(* and in the callbacks that the loop calls.                               *)
ProgramStep ==
    /\ at \in {"outside", "callback"}
    /\ \/ \E a \in Addresses, f \in Fds, w \in Wants : Add(a, f, {w})
       \/ \E a \in Used, w \in Wants : {w} # handle[a].events /\ Modify(a, {w})
       \/ \E a \in Used : Remove(a)
    /\ UNCHANGED <<running, at, index>>
-----------------------------------------------------------------------------
(* epoll_wait(): some of the registered descriptors, in any order, each    *)
(* with some of the events asked for, or with a hang-up.  At most n_polls  *)
(* events fit, so none is left behind.                                     *)
Reported(f) == {e \in SUBSET Events : e # {} /\ e \subseteq interest[f].events \union {"hup"}}

Orders(fds) == {s \in [1..Cardinality(fds) -> fds] :
                   \A i, j \in 1..Cardinality(fds) : s[i] = s[j] => i = j}

Wait ==
    /\ at = "outside"
    /\ Used # {}
    /\ \E fds \in SUBSET {f \in Fds : interest[f].address # NULL} :
          \E order \in Orders(fds) :
             /\ \E ev \in [1..Len(order) -> SUBSET Events] :
                   /\ \A i \in DOMAIN ev : ev[i] \in Reported(order[i])
                   /\ batch' = [i \in 1..Len(order) |->
                          [address |-> interest[order[i]].address, events |-> ev[i]]]
             /\ polled' = [i \in 1..Len(order) |-> handle[interest[order[i]].address].number]
    /\ index' = 1
    /\ at' = "between"
    /\ UNCHANGED <<handle, head, interest, running, added>>

(* An event is passed over when its handle was removed, or asks for none   *)
(* of it any more.                                                         *)
Wanted(event) ==
    IF event.address = NULL THEN {}
    ELSE (handle[event.address].events \union {"hup"}) \intersect event.events

Skip ==
    /\ at = "between" /\ index <= Len(batch)
    /\ Wanted(batch[index]) = {}
    /\ index' = index + 1
    /\ UNCHANGED <<handle, head, interest, batch, polled, running, at, added>>

Call ==
    /\ at = "between" /\ index <= Len(batch)
    /\ Wanted(batch[index]) # {}
    /\ running' = index
    /\ at' = "callback"
    /\ UNCHANGED <<handle, head, interest, batch, polled, index, added>>

Return ==
    /\ at = "callback"
    /\ index' = index + 1
    /\ at' = "between"
    /\ UNCHANGED <<handle, head, interest, batch, polled, running, added>>

EndRun ==
    /\ at = "between" /\ index > Len(batch)
    /\ batch' = <<>> /\ polled' = <<>>
    /\ index' = 1
    /\ at' = "outside"
    /\ UNCHANGED <<handle, head, interest, running, added>>

Next == ProgramStep \/ Wait \/ Skip \/ Call \/ Return \/ EndRun

Spec == Init /\ [][Next]_vars
-----------------------------------------------------------------------------
(* A callback is only called for the registration whose event was polled: *)
(* never for one that was removed since, also if its memory is used again. *)
CallsAreForTheirOwn ==
    [][Call => /\ batch[index].address \in Used
               /\ handle[batch[index].address].number = polled[index]]_vars

=============================================================================
