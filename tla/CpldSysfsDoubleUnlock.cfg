\* All handlers on one CPLD: show_status and reg_read unlock update_lock a
\* second time, which frees it while another thread holds it.
CONSTANTS
    NoOwner = NoOwner
    NoCall = NoCall
    t1 = t1
    t2 = t2
    t3 = t3
    Threads <- ThreadsMC
    Regs <- RegsMC
    Calls <- CallsAll
    RETRY <- RETRY_MC
SYMMETRY ThreadSymmetry
SPECIFICATION Spec
INVARIANT NoLostUpdate
