\* Two calls with any mode for any kind of address, domains with up to two mail hosts;
\* localhost has two addresses, so the next address of a host is tried as well.
CONSTANTS
    MaxHosts = 2
    HostKinds = {"named", "loopback"}
    MaxEndpoints = 1
    MaxLines = 2
    MaxRows = 2
SPECIFICATION FairSpec
INVARIANTS
    VerdictIsTrue
    SettledBeforeUse
PROPERTY
    CallReturns
