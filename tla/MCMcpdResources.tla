--------------------------- MODULE MCMcpdResources ---------------------------
(***************************************************************************)
(* A board with two peripherals of one type, and a module with two pins.   *)
(***************************************************************************)
EXTENDS McpdResources, TLC

CONSTANTS c1, c2, x1, x2, out0, in0, out1, in1, spi

TwoClients == {c1, c2}
TwoPeriphs == {0, 1}
BothSpi == [p \in TwoPeriphs |-> spi]
SpiDrivers == [t \in {spi} |-> {"raw", "sdcard"}]
BoardIo == [p \in TwoPeriphs |->
              IF p = 0 THEN [clk |-> [pin |-> out0, input |-> FALSE],
                             miso |-> [pin |-> in0, input |-> TRUE]]
                       ELSE [clk |-> [pin |-> out1, input |-> FALSE],
                             miso |-> [pin |-> in1, input |-> TRUE]]]
BoardPins == {out0, in0, out1, in1}
AllPins == BoardPins \cup {x1, x2}

Take(d) == [op |-> "resource_acquire", periph |-> spi, driver |-> d]
RouteTo(r) == [op |-> "resource_route", id |-> r[1], io |-> r[2], pin |-> r[3]]

\* Two drivers for the peripherals, and their pins connected to one of a module.
DriverRequests ==
    {Take("raw"), Take("sdcard"), RouteTo(<<0, "clk", x1>>), RouteTo(<<1, "miso", x1>>)}

\* Pins for direct use and for a route, and requests that make no sense.
PinRequests ==
    {[op |-> "gpio_acquire", pin |-> x] : x \in {x1, out0}}
    \cup {[op |-> "gpio_set", gpio |-> 0, en |-> TRUE], Take("raw"),
          [op |-> "resource_get_path", id |-> 0]}
    \cup {RouteTo(r) : r \in {<<0, "clk", x1>>, <<0, "cs", x1>>, <<0, "clk", NoPin>>}}

AllRequests == DriverRequests \cup PinRequests

VARIABLE offer  \* which of them the programs make

MCInit == RInit /\ offer \in {DriverRequests, PinRequests}

MCNext ==
    /\ RNext
    /\ \A c \in Clients : \A i \in DOMAIN sock'[c] : sock'[c][i] \in AllRequests => sock'[c][i] \in offer
    /\ UNCHANGED offer

MCSpec == MCInit /\ [][MCNext]_<<allVars, offer>>

ClientSymmetry == Permutations(Clients)

=============================================================================
