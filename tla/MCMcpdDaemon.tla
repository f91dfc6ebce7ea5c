---------------------------- MODULE MCMcpdDaemon ----------------------------
(***************************************************************************)
(* Small instances of McpdDaemon for TLC.                                  *)
(***************************************************************************)
EXTENDS McpdDaemon

CONSTANTS c1, c2, w1, w2, w3

TwoClients == {c1, c2}
ThreeWatchers == {w1, w2, w3}

\* One request with an answer, one without.
SomeRequests == {[op |-> "resource_acquire"], [op |-> "gpio_set"]}

VARIABLE cast  \* who takes part, besides the daemon, the first watcher and modules

CastTakesPart ==
    /\ cast = "clients" => \A w \in Watchers \ {w1} : watcher'[w] = "off"
    /\ cast = "watchers" => \A c \in Clients : client'[c] = "off"

MCInit == Init /\ cast \in {"clients", "watchers"}

MCNext == Next /\ CastTakesPart /\ UNCHANGED cast

\* Nobody is fair about coming, so that some stay away takes no fairness away.
MCSpec == MCInit /\ [][MCNext]_<<vars, cast>> /\ Fairness

=============================================================================
