\* Two peripherals of one type, two clients that ask for them, for pins and
\* routes, sensibly or not.
CONSTANTS
    c1 = c1
    c2 = c2
    x1 = x1
    x2 = x2
    out0 = out0
    in0 = in0
    out1 = out1
    in1 = in1
    spi = spi
    None = None
    NoPin = NoPin
    MyToken = 2
    MaxTokens = 3
    Clients <- TwoClients
    Watchers = {}
    SockCap = 1
    MaxRequests = 1
    OtherRequests <- AllRequests
    Periphs <- TwoPeriphs
    PeriphType <- BothSpi
    DriversOf <- SpiDrivers
    Io <- BoardIo
    Pins <- AllPins
    OwnPins <- BoardPins
    MaxResources = 1

SPECIFICATION MCSpec
SYMMETRY ClientSymmetry
INVARIANT HandlesAreGood
INVARIANT RoutesMatchResources
INVARIANT GpioPinsLentOnce
