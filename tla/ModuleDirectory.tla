--------------------------- MODULE ModuleDirectory ---------------------------
(***************************************************************************)
(* What mcpd promises its callers, without slots, sockets or a main loop:  *)
(* a growing list of modules, an exclusive hold on each of them, and for   *)
(* every watcher the list of the modules, in order and without gaps.       *)
(***************************************************************************)
EXTENDS Integers, Sequences

CONSTANTS
    MyToken,    \* the token that is not a module but the daemon itself
    MaxTokens,
    Clients,
    Watchers

VARIABLES
    known,      \* tokens below this are known
    held,       \* the pairs of a client and the module it may use
    told        \* what each watcher has been told

dirVars == <<known, held, told>>

Modules == (0 .. known - 1) \ {MyToken}

Init ==
    /\ known = 0
    /\ held = {}
    /\ told = [w \in Watchers |-> <<>>]

Learn ==
    /\ known' \in known + 1 .. MaxTokens
    /\ UNCHANGED <<held, told>>

Grant(c, t) ==
    /\ t \in Modules
    /\ \A d \in Clients : <<d, t>> \notin held
    /\ \A u \in Modules : <<c, u>> \notin held
    /\ held' = held \cup {<<c, t>>}
    /\ UNCHANGED <<known, told>>

Release(c, t) ==
    /\ <<c, t>> \in held
    /\ held' = held \ {<<c, t>>}
    /\ UNCHANGED <<known, told>>

\* The watcher is told the lowest module it has not been told.
Tell(w, t) ==
    /\ t \in Modules
    /\ \A u \in Modules : u < t <=> u \in {told[w][i] : i \in DOMAIN told[w]}
    /\ told' = [told EXCEPT ![w] = Append(@, t)]
    /\ UNCHANGED <<known, held>>

Next ==
    \/ Learn
    \/ \E c \in Clients, t \in Modules : Grant(c, t) \/ Release(c, t)
    \/ \E w \in Watchers, t \in Modules : Tell(w, t)

Spec == Init /\ [][Next]_dirVars

=============================================================================
