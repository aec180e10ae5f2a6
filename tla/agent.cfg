SPECIFICATION FairSpec
CONSTANTS
    Mux = Mux
    Grpc = Grpc
    NoCaller = NoCaller
    Users = {main, signal}
    Calls = {produce, consume}
    MaxFaults = 2
CHECK_DEADLOCK FALSE
INVARIANTS
    TypeOK
    HandlersHaveLog
    MembershipSet
    NilMeansClosed
PROPERTIES
    ShutdownReturns
