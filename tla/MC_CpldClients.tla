---------------------------- MODULE MC_CpldClients ----------------------------
EXTENDS CpldClients, TLC

CONSTANTS t1, t2, e1

ThreadsMC == {t1, t2}
ThreadSymmetry == Permutations(ThreadsMC)
RegsMC == {"r0"}
RETRY_MC == 2

\* set_status on two bits of r0, and reg_write of r0.
CallsMC ==
    {[kind |-> "set_status", reg |-> "r0", bit |-> b, val |-> v] : b \in {0, 1}, v \in {0, 1}}
    \cup {[kind |-> "reg_write", reg |-> "r0", bit |-> 0, val |-> 3]}

CallersMC == {e1}
OurAddrMC == 1

\* An exported read and write of r0, and a write to an address no client has.
ExtOpsMC ==
    {[kind |-> "read", addr |-> 1, reg |-> "r0", val |-> 0],
     [kind |-> "write", addr |-> 1, reg |-> "r0", val |-> 0],
     [kind |-> "write", addr |-> 2, reg |-> "r0", val |-> 0]}
=============================================================================
