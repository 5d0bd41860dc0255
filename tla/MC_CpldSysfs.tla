--------------------------- MODULE MC_CpldSysfs ---------------------------
(***************************************************************************)
(* Instances of CpldSysfs for TLC: three threads on one CPLD client, the  *)
(* attributes of two bits of register r0, and a second register r1 for   *)
(* the access attribute to select.  RETRY = 2 keeps both a retried and a *)
(* finally failed transfer in reach (the driver's count is 10).            *)
(***************************************************************************)
EXTENDS CpldSysfs, TLC

CONSTANTS t1, t2, t3

ThreadsMC == {t1, t2, t3}

\* The threads run the same code: any permutation of them is a symmetry
\* (used for the safety runs only).
ThreadSymmetry == Permutations(ThreadsMC)

RegsMC == {"r0", "r1"}

SetCalls ==
    {[kind |-> "set_status", reg |-> "r0", bit |-> b, val |-> v] : b \in {0, 1}, v \in {0, 1}}

\* Writers only: set_status on two bits of r0, an access write of r0, and
\* access selections (which take no lock).
CallsWriters ==
    SetCalls \cup
    {[kind |-> "reg_write", reg |-> "r0", bit |-> 0, val |-> 3],
     [kind |-> "reg_select", reg |-> "r1", bit |-> 0, val |-> 0]}

\* Every handler: the writers, show_status of a bit of r0, and reads
\* through the access attribute.
CallsAll ==
    CallsWriters \cup
    {[kind |-> "show_status", reg |-> "r0", bit |-> 0, val |-> 0],
     [kind |-> "reg_read", reg |-> "r0", bit |-> 0, val |-> 0],
     [kind |-> "reg_select", reg |-> "r0", bit |-> 0, val |-> 0]}

\* Two threads for the liveness run (its state graph is not reduced by
\* symmetry).
ThreadsLive == {t1, t2}

RegsLive == {"r0"}

\* Every handler, on r0 only.
CallsLive == {c \in CallsAll : c.reg = "r0"}

RETRY_MC == 2

=============================================================================
