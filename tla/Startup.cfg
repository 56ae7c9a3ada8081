CONSTANTS
    Process = {p1, p2}
    here = here
    elsewhere = elsewhere
    Local = {here}
    CommandLine <- MC_Lines
    Missing = Missing
    NoAddress = NoAddress
    NoNumber = NoNumber
    NoEndpoint = NoEndpoint
SPECIFICATION FairSpec
INVARIANTS
    TypeOK
    OneServerPerEndpoint
    ServesWhereAsked
PROPERTIES
    RestartIsPossible
    BoundIsServed
