\* set_status and reg_write callers on one CPLD, with bus failures and
\* retries: under fair scheduling of update_lock every call returns.
\* NoLostUpdate is checked in CpldSysfsDoubleUnlock.cfg, where the
\* handlers that unlock twice break it.  No symmetry: the run checks a liveness property.
CONSTANTS
    NoOwner = NoOwner
    NoCall = NoCall
    t1 = t1
    t2 = t2
    t3 = t3
    Threads <- ThreadsLive
    Regs <- RegsMC
    Calls <- CallsWriters
    RETRY <- RETRY_MC
SPECIFICATION Spec
INVARIANT TypeOK
 
