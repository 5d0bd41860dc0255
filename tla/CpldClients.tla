---------------------------- MODULE CpldClients ----------------------------
(***************************************************************************)
(* One CPLD client of accton_as9737_32db_cpld.c through its life: probe   *)
(* (sysfs group, then as9737_32db_cpld_add_client onto cpld_client_list), *)
(* remove (as9737_32db_cpld_remove_client, sysfs_remove_group, kfree),    *)
(* the sysfs handlers of CpldSysfs on its registers while its files exist, *)
(* and the exported as9737_32db_cpld_read / _write of other kernel         *)
(* modules, which find the client by address under list_lock and do a     *)
(* retried transfer while holding it, but do not take update_lock.         *)
(*                                                                         *)
(* list_lock sections without a bus transfer (add_client, remove_client)  *)
(* are one step each: nothing they do can be observed before they unlock. *)
(***************************************************************************)
EXTENDS Naturals

CONSTANTS
    Threads, Regs, Calls, RETRY, NoOwner, NoCall,  \* as in CpldSysfs
    Callers,    \* kernel code calling the exported functions
    ExtOps,     \* the exported calls they make
    OurAddr     \* the client's I2C address; other addresses match nothing

VARIABLES
    hw, sel, owner, pc, op, tmp, retry, expect,    \* as in CpldSysfs
    st,         \* the client: "absent", "files", "bound", "unlisted", "draining"
    listed,     \* a cpld_client_node for it is on cpld_client_list
    llock,      \* the owner of list_lock
    epc,        \* where each caller is in an exported call
    eop,        \* the exported call
    eretry      \* its retry counter

sysVars == <<hw, sel, owner, pc, op, tmp, retry, expect>>
cliVars == <<st, listed, llock, epc, eop, eretry>>
cvars == <<hw, sel, owner, pc, op, tmp, retry, expect, st, listed, llock, epc, eop, eretry>>

Sys == INSTANCE CpldSysfs
       WITH hw <- hw, sel <- sel, owner <- owner, pc <- pc, op <- op,
            tmp <- tmp, retry <- retry, expect <- expect

NoExt == [kind |-> "none", addr |-> OurAddr, reg |-> "none", val |-> 0]

\* A sysfs handler can be entered from sysfs_create_group until
\* sysfs_remove_group deactivates the files.
FilesLive == st \in {"files", "bound", "unlisted"}

Init ==
    /\ Sys!Init
    /\ st = "absent"
    /\ listed = FALSE
    /\ llock = NoOwner
    /\ epc = [e \in Callers |-> "idle"]
    /\ eop = [e \in Callers |-> NoExt]
    /\ eretry = [e \in Callers |-> 0]

(***************************************************************************)
(* as9737_32db_cpld_probe (lines 593-646) up to the sysfs group: a failed *)
(* i2c_check_functionality, kzalloc or sysfs_create_group returns an       *)
(* error (the latter after kfree(data)).                                   *)
(***************************************************************************)
Probe ==
    /\ st = "absent"
    /\ st' \in {"absent", "files"}
    /\ UNCHANGED <<listed, llock, epc, eop, eretry>>
    /\ UNCHANGED sysVars

(***************************************************************************)
(* as9737_32db_cpld_add_client (lines 548-562), then probe returns 0: if  *)
(* kzalloc of the node fails it returns without adding the client.        *)
(***************************************************************************)
add_client ==
    /\ st = "files"
    /\ \/ /\ llock = NoOwner
          /\ listed' = TRUE
       \/ UNCHANGED listed                        \* kzalloc failed
    /\ st' = "bound"
    /\ UNCHANGED <<llock, epc, eop, eretry>>
    /\ UNCHANGED sysVars

\* Mutant: remove_client deletes the node without taking list_lock.
remove_client_unlocked ==
    /\ st = "bound"
    /\ listed' = FALSE
    /\ st' = "unlisted"
    /\ UNCHANGED <<llock, epc, eop, eretry>>
    /\ UNCHANGED sysVars

\* as9737_32db_cpld_remove (line 653) -> remove_client (lines 564-588):
\* under list_lock, delete and free the node if found.
remove_client ==
    /\ st = "bound"
    /\ llock = NoOwner
    /\ listed' = FALSE
    /\ st' = "unlisted"
    /\ UNCHANGED <<llock, epc, eop, eretry>>
    /\ UNCHANGED sysVars

(***************************************************************************)
(* The rest of remove (lines 655-676).  sysfs_remove_group first          *)
(* deactivates the group's files (a new open or read fails), then waits   *)
(* for the handlers already running in them; kfree(data) follows, and     *)
(* after remove the i2c core frees the client.                            *)
(***************************************************************************)
remove_group_deactivate ==
    /\ st = "unlisted"
    /\ st' = "draining"
    /\ UNCHANGED <<listed, llock, epc, eop, eretry>>
    /\ UNCHANGED sysVars

remove_group ==
    /\ st = "draining"
    /\ \A t \in Threads : pc[t] = "idle"
    /\ st' = "absent"
    /\ UNCHANGED <<listed, llock, epc, eop, eretry>>
    /\ UNCHANGED sysVars

\* A caller enters as9737_32db_cpld_read / _write.
ExtStart(e, x) ==
    /\ epc[e] = "idle"
    /\ epc' = [epc EXCEPT ![e] = "lock"]
    /\ eop' = [eop EXCEPT ![e] = x]
    /\ UNCHANGED <<st, listed, llock, eretry>>
    /\ UNCHANGED sysVars

\* Mutant: with no node for the address the call returns without
\* mutex_unlock(&list_lock).
ExtLockMissNoUnlock(e) ==
    /\ epc[e] = "lock"
    /\ llock = NoOwner
    /\ llock' = e
    /\ IF listed /\ eop[e].addr = OurAddr
       THEN /\ epc' = [epc EXCEPT ![e] = "xfer"]
            /\ eretry' = [eretry EXCEPT ![e] = RETRY]
            /\ UNCHANGED eop
       ELSE /\ epc' = [epc EXCEPT ![e] = "idle"]
            /\ eop' = [eop EXCEPT ![e] = NoExt]
            /\ UNCHANGED eretry
    /\ UNCHANGED <<st, listed>>
    /\ UNCHANGED sysVars

(***************************************************************************)
(* mutex_lock(&list_lock) and the list walk (lines 721-731, 745-755): on  *)
(* a node with the address the call goes to the retried transfer; with    *)
(* none it unlocks and returns -EPERM (read) or -EIO (write).              *)
(***************************************************************************)
ExtLock(e) ==
    /\ epc[e] = "lock"
    /\ llock = NoOwner
    /\ llock' = e
    /\ IF listed /\ eop[e].addr = OurAddr
       THEN /\ epc' = [epc EXCEPT ![e] = "xfer"]
            /\ eretry' = [eretry EXCEPT ![e] = RETRY]
       ELSE /\ epc' = [epc EXCEPT ![e] = "unlock"]
            /\ UNCHANGED eretry
    /\ UNCHANGED <<st, listed, eop>>
    /\ UNCHANGED sysVars

\* A successful attempt of _read_internal / _write_internal (lines
\* 679-713); a write stores the caller's value, with no update_lock.
ExtXferOk(e) ==
    /\ epc[e] = "xfer"
    /\ IF eop[e].kind = "write"
       THEN /\ hw' = [hw EXCEPT ![eop[e].reg] = eop[e].val]
            /\ expect' = [expect EXCEPT ![eop[e].reg] = eop[e].val]
       ELSE UNCHANGED <<hw, expect>>
    /\ epc' = [epc EXCEPT ![e] = "unlock"]
    /\ UNCHANGED <<st, listed, llock, eop, eretry>>
    /\ UNCHANGED <<sel, owner, pc, op, tmp, retry>>

\* Mutant: the loop gives up one attempt late (retry reaches -1).
ExtXferFailOffByOne(e) ==
    /\ epc[e] = "xfer"
    /\ eretry' = [eretry EXCEPT ![e] = @ - 1]
    /\ epc' = [epc EXCEPT ![e] = IF eretry[e] - 1 < 0 THEN "unlock" ELSE "xfer"]
    /\ UNCHANGED <<hw, expect, st, listed, llock, eop>>
    /\ UNCHANGED sysVars

\* A failed attempt sleeps and retries; after RETRY failures the error is
\* returned.
ExtXferFail(e) ==
    /\ epc[e] = "xfer"
    /\ eretry' = [eretry EXCEPT ![e] = @ - 1]
    /\ epc' = [epc EXCEPT ![e] = IF eretry[e] - 1 = 0 THEN "unlock" ELSE "xfer"]
    /\ UNCHANGED <<hw, expect, st, listed, llock, eop>>
    /\ UNCHANGED sysVars

\* mutex_unlock(&list_lock); return ret (lines 733-735, 757-759).
ExtUnlock(e) ==
    /\ epc[e] = "unlock"
    /\ llock' = NoOwner
    /\ epc' = [epc EXCEPT ![e] = "idle"]
    /\ eop' = [eop EXCEPT ![e] = NoExt]
    /\ eretry' = [eretry EXCEPT ![e] = 0]
    /\ UNCHANGED <<st, listed>>
    /\ UNCHANGED sysVars

\* A sysfs thread's steps inside a handler (CpldSysfs), the client unchanged.
SysLock(t) == Sys!Lock(t) /\ UNCHANGED cliVars
SysRun(t) ==
    /\ Sys!ReadOk(t) \/ Sys!BusFail(t) \/ Sys!WriteOk(t) \/ Sys!Unlock(t) \/ Sys!Exit(t)
    /\ UNCHANGED cliVars

Next ==
    \/ Probe \/ add_client \/ remove_client
    \/ remove_group_deactivate \/ remove_group
    \/ /\ \E t \in Threads, c \in Calls : FilesLive /\ Sys!Start(t, c)
       /\ UNCHANGED cliVars
    \/ \E t \in Threads : SysLock(t) \/ SysRun(t)
    \/ \E e \in Callers :
          \/ \E x \in ExtOps : ExtStart(e, x)
          \/ ExtLock(e) \/ ExtXferOk(e) \/ ExtXferFail(e) \/ ExtUnlock(e)

(***************************************************************************)
(* Fairness.  The sysfs threads as in CpldSysfs.  An exported caller in    *)
(* mutex_lock(&list_lock) gets it by the mutex hand-off (strong), and     *)
(* then runs (weak).  A remove that has unlisted the client goes on: the  *)
(* deactivation runs, and the drain ends once the handlers are idle.      *)
(* Starting a call, a probe or a remove is up to the environment.         *)
(***************************************************************************)
Fairness ==
    /\ \A t \in Threads :
          /\ SF_cvars(SysLock(t))
          /\ WF_cvars(SysRun(t))
    /\ \A e \in Callers :
          /\ SF_cvars(ExtLock(e))
          /\ WF_cvars(ExtXferOk(e) \/ ExtXferFail(e) \/ ExtUnlock(e))
    /\ WF_cvars(remove_group_deactivate)
    /\ WF_cvars(remove_group)

Spec == Init /\ [][Next]_cvars /\ Fairness

-----------------------------------------------------------------------------

TypeOK ==
    /\ Sys!TypeOK
    /\ st \in {"absent", "files", "bound", "unlisted", "draining"}
    /\ listed \in BOOLEAN
    /\ llock \in Callers \cup {NoOwner}
    /\ epc \in [Callers -> {"idle", "lock", "xfer", "unlock"}]
    /\ eop \in [Callers -> ExtOps \cup {NoExt}]
    /\ eretry \in [Callers -> 0..RETRY]

(***************************************************************************)
(* An exported call transfers only through a client that still exists:    *)
(* between finding the node and the end of its retried transfer, remove   *)
(* cannot free the node or the client, because remove_client waits for   *)
(* list_lock.                                                              *)
(***************************************************************************)
ExportedCallsOnLiveClient ==
    \A e \in Callers : epc[e] = "xfer" => st # "absent" /\ listed

(***************************************************************************)
(* A remove that has taken the client off the list completes: the sysfs   *)
(* handlers in flight finish (update_lock is handed on, retries are        *)
(* bounded) and sysfs_remove_group stops new ones, so its drain ends.     *)
(***************************************************************************)
RemoveCompletes == st = "unlisted" ~> st = "absent"

(***************************************************************************)
(* Every exported as9737_32db_cpld_read / _write returns: list_lock is     *)
(* released on the found and the not-found path, and the retried transfer *)
(* it holds the lock across gives up after RETRY attempts.                *)
(***************************************************************************)
ExportedCallsReturn == \A e \in Callers : epc[e] # "idle" ~> epc[e] = "idle"

(***************************************************************************)
(* Every client that probed successfully is reachable by the exported     *)
(* functions.  Fails: add_client returns quietly when kzalloc of the node  *)
(* fails, probe still returns 0, and every as9737_32db_cpld_read of that   *)
(* address returns -EPERM.                                                 *)
(***************************************************************************)
BoundClientListed == st = "bound" => listed

(***************************************************************************)
(* No lost update, with the exported writes: the registers hold what the   *)
(* completed writes give when each runs alone.  Fails: an exported write   *)
(* takes list_lock, not update_lock, so it lands between the read and the *)
(* write of a set_status, which then writes back the old value.           *)
(***************************************************************************)
NoLostUpdateWithExports == Sys!NoLostUpdate

=============================================================================
