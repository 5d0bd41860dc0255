\* The EEPROM client list stays consistent through probes and removes.
CONSTANTS
    MAX_GEN <- MAX_GEN_MC
    Kind <- KindMC
SPECIFICATION Spec
INVARIANTS TypeOK ListedClientsAlive
CHECK_DEADLOCK FALSE
