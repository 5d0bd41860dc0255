\* The fan-dir hook dereferences the EEPROM client found under list_lock.
CONSTANTS
    MAX_GEN <- MAX_GEN_MC
    Kind <- KindMC
SPECIFICATION Spec
INVARIANT NoUseAfterFree
CHECK_DEADLOCK FALSE
