\* Load and unload with every step of init and probe able to fail.  After
\* the last unload the system may stay unloaded: no deadlock check.
CONSTANTS
    Ports <- PortsMC
    MAX_LOADS <- MAX_LOADS_MC
    EnableCanFail = TRUE
SPECIFICATION Spec
INVARIANT TypeOK
INVARIANT LoadedMeansRegistered
INVARIANT PortRegistersDisjoint
CHECK_DEADLOCK FALSE
