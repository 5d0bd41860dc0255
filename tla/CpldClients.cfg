\* One CPLD client probed and removed repeatedly, two sysfs writers and one
\* caller of the exported functions.  No symmetry: the run checks liveness.
CONSTANTS
    NoOwner = NoOwner
    NoCall = NoCall
    t1 = t1
    t2 = t2
    e1 = e1
    Threads <- ThreadsMC
    Regs <- RegsMC
    Calls <- CallsMC
    RETRY <- RETRY_MC
    Callers <- CallersMC
    ExtOps <- ExtOpsMC
    OurAddr <- OurAddrMC
SPECIFICATION Spec
INVARIANT TypeOK
INVARIANT ExportedCallsOnLiveClient
PROPERTY RemoveCompletes
PROPERTY ExportedCallsReturn
