----------------------------- MODULE CpldSysfs -----------------------------
(***************************************************************************)
(* Concurrent callers of the sysfs handlers of one CPLD client of          *)
(* accton_as9737_32db_cpld.c: show_status, set_status, reg_read and       *)
(* reg_write (the "access" attribute), all sharing data->update_lock and   *)
(* data->reg.  Each handler is split at the points where another thread   *)
(* can run: taking the mutex, every bus attempt of                         *)
(* as9737_32db_cpld_read_internal / _write_internal (a failed attempt     *)
(* sleeps I2C_RW_RETRY_INTERVAL and retries, at most RETRY times), and     *)
(* every mutex_unlock.                                                     *)
(*                                                                         *)
(* mutex_unlock by a thread that does not own the mutex is what the        *)
(* kernel does without lock debugging: the slow path clears the owner      *)
(* whoever holds it (and hands it to a waiter), so the mutex is free.      *)
(*                                                                         *)
(* Data: a register is a value of the two bits the attributes in the model *)
(* touch; which attribute maps to which bit is CpldAttr's business.        *)
(***************************************************************************)
EXTENDS Naturals
LOCAL INSTANCE Bitwise

CONSTANTS
    Threads,    \* user-space threads calling into sysfs
    Regs,       \* CPLD registers in the model
    Calls,      \* the handler calls a thread may make (see CallKinds)
    RETRY,      \* I2C_RW_RETRY_COUNT
    NoOwner,    \* the mutex is free
    NoCall      \* the op of a thread outside the handlers

VARIABLES
    hw,         \* hw[r]: the CPLD register r
    sel,        \* data->reg, the register the access attribute reads
    owner,      \* the owner of data->update_lock
    pc,         \* where each thread is in its handler
    op,         \* the call each thread is executing
    tmp,        \* the register value a thread read
    retry,      \* the retry counter of the thread's current bus transfer
    expect      \* history: the registers if every write applied atomically

vars == <<hw, sel, owner, pc, op, tmp, retry, expect>>

Vals == 0..3

CallKinds == {"show_status", "set_status", "reg_read", "reg_write", "reg_select"}

Mask(bit) == 2^bit

\* status |= mask, or status &= ~mask (set_status, lines 458-462).
SetBit(v, bit, on) == IF on = 1 THEN v | Mask(bit) ELSE v - (v & Mask(bit))

\* The handlers that unlock a second time at their exit label on success.
DoubleUnlock == {"show_status", "reg_read"}

Init ==
    /\ hw \in [Regs -> Vals]
    /\ sel \in Regs
    /\ owner = NoOwner
    /\ pc = [t \in Threads |-> "idle"]
    /\ op = [t \in Threads |-> NoCall]
    /\ tmp = [t \in Threads |-> 0]
    /\ retry = [t \in Threads |-> 0]
    /\ expect = hw

(***************************************************************************)
(* A thread enters a handler.  reg_write with one argument stores          *)
(* data->reg without taking the mutex and returns (lines 533-536); the     *)
(* other handlers go to mutex_lock.                                        *)
(***************************************************************************)
Start(t, c) ==
    /\ pc[t] = "idle"
    /\ \/ /\ c.kind = "reg_select"
          /\ sel' = c.reg
          /\ UNCHANGED <<pc, op, hw, owner, tmp, retry, expect>>
       \/ /\ c.kind # "reg_select"
          /\ pc' = [pc EXCEPT ![t] = "lock"]
          /\ op' = [op EXCEPT ![t] = c]
          /\ UNCHANGED <<hw, sel, owner, tmp, retry, expect>>

\* Mutant: the handler does not take update_lock.
LockNoWait(t) ==
    /\ pc[t] = "lock"
    /\ owner' = t
    /\ pc' = [pc EXCEPT ![t] = IF op[t].kind = "reg_write" THEN "write" ELSE "read"]
    /\ op' = IF op[t].kind = "reg_read" THEN [op EXCEPT ![t].reg = sel] ELSE op
    /\ retry' = [retry EXCEPT ![t] = RETRY]
    /\ UNCHANGED <<hw, sel, tmp, expect>>

\* mutex_lock(&data->update_lock); reg_read then reads data->reg (line 482),
\* reg_write goes straight to the write (line 527).
Lock(t) ==
    /\ pc[t] = "lock"
    /\ owner = NoOwner
    /\ owner' = t
    /\ pc' = [pc EXCEPT ![t] = IF op[t].kind = "reg_write" THEN "write" ELSE "read"]
    /\ op' = IF op[t].kind = "reg_read" THEN [op EXCEPT ![t].reg = sel] ELSE op
    /\ retry' = [retry EXCEPT ![t] = RETRY]
    /\ UNCHANGED <<hw, sel, tmp, expect>>

(***************************************************************************)
(* One attempt of as9737_32db_cpld_read_internal.  On success the handler *)
(* goes on: set_status to its write, show_status and reg_read to the       *)
(* mutex_unlock before the sprintf.  A failed attempt decrements retry;    *)
(* the last one returns the error and the handler jumps to exit.           *)
(***************************************************************************)
ReadOk(t) ==
    /\ pc[t] = "read"
    /\ tmp' = [tmp EXCEPT ![t] = hw[op[t].reg]]
    /\ pc' = [pc EXCEPT ![t] = IF op[t].kind = "set_status" THEN "write" ELSE "unlock"]
    /\ retry' = [retry EXCEPT ![t] = RETRY]
    /\ UNCHANGED <<hw, sel, owner, op, expect>>

\* Mutant: the loop runs while (retry >= 0), one attempt too many.
BusFailOffByOne(t) ==
    /\ pc[t] \in {"read", "write"}
    /\ retry' = [retry EXCEPT ![t] = @ - 1]
    /\ pc' = [pc EXCEPT ![t] = IF retry[t] - 1 < 0 THEN "exit" ELSE @]
    /\ UNCHANGED <<hw, sel, owner, op, tmp, expect>>

BusFail(t) ==
    /\ pc[t] \in {"read", "write"}
    /\ retry' = [retry EXCEPT ![t] = @ - 1]
    /\ pc' = [pc EXCEPT ![t] = IF retry[t] - 1 = 0 THEN "exit" ELSE @]
    /\ UNCHANGED <<hw, sel, owner, op, tmp, expect>>

\* The value a successful write stores, and the one it would store had
\* every write been applied to the latest register value.
WriteVal(t, v) ==
    IF op[t].kind = "set_status" THEN SetBit(v, op[t].bit, op[t].val) ELSE op[t].val

\* One successful attempt of as9737_32db_cpld_write_internal.
WriteOk(t) ==
    /\ pc[t] = "write"
    /\ hw' = [hw EXCEPT ![op[t].reg] = WriteVal(t, tmp[t])]
    /\ expect' = [expect EXCEPT ![op[t].reg] = WriteVal(t, @)]
    /\ pc' = [pc EXCEPT ![t] = "unlock"]
    /\ UNCHANGED <<sel, owner, op, tmp, retry>>

\* The handler returns; its locals are dead (reset so that states that
\* differ only in them are one state).
Return(t) ==
    /\ pc' = [pc EXCEPT ![t] = "idle"]
    /\ op' = [op EXCEPT ![t] = NoCall]
    /\ tmp' = [tmp EXCEPT ![t] = 0]
    /\ retry' = [retry EXCEPT ![t] = 0]

(***************************************************************************)
(* The mutex_unlock of the success path (lines 413, 467, 486, 531).        *)
(* show_status and reg_read then fall through to exit: and unlock again.  *)
(***************************************************************************)
Unlock(t) ==
    /\ pc[t] = "unlock"
    /\ owner' = NoOwner
    /\ IF op[t].kind \in DoubleUnlock
       THEN /\ pc' = [pc EXCEPT ![t] = "exit"]
            /\ UNCHANGED <<op, tmp, retry>>
       ELSE Return(t)
    /\ UNCHANGED <<hw, sel, expect>>

\* Mutant: the error exit returns without mutex_unlock.
ExitNoUnlock(t) ==
    /\ pc[t] = "exit"
    /\ Return(t)
    /\ UNCHANGED <<hw, sel, expect, owner>>

\* exit: mutex_unlock(&data->update_lock); return (lines 428-430, 470-472,
\* 490-492, 543-545).
Exit(t) ==
    /\ pc[t] = "exit"
    /\ owner' = NoOwner
    /\ Return(t)
    /\ UNCHANGED <<hw, sel, expect>>

Step(t) == Lock(t) \/ ReadOk(t) \/ BusFail(t) \/ WriteOk(t) \/ Unlock(t) \/ Exit(t)

Next ==
    \E t \in Threads :
        \/ \E c \in Calls : Start(t, c)
        \/ Step(t)

(***************************************************************************)
(* Fairness: a thread inside a handler keeps running (weak fairness); a   *)
(* thread waiting in mutex_lock gets the mutex if it is free infinitely    *)
(* often, which the kernel mutex's hand-off to a starving waiter provides  *)
(* (strong fairness).  Starting a call is up to the user: no fairness.    *)
(***************************************************************************)
Fairness ==
    \A t \in Threads :
        /\ SF_vars(Lock(t))
        /\ WF_vars(ReadOk(t) \/ BusFail(t) \/ WriteOk(t) \/ Unlock(t) \/ Exit(t))

Spec == Init /\ [][Next]_vars /\ Fairness

-----------------------------------------------------------------------------

TypeOK ==
    /\ hw \in [Regs -> Vals]
    /\ expect \in [Regs -> Vals]
    /\ sel \in Regs
    /\ owner \in Threads \cup {NoOwner}
    /\ pc \in [Threads -> {"idle", "lock", "read", "write", "unlock", "exit"}]
    /\ op \in [Threads -> {NoCall} \cup Calls \cup {[c EXCEPT !.reg = r] : c \in Calls, r \in Regs}]
    /\ tmp \in [Threads -> Vals]
    /\ retry \in [Threads -> 0..RETRY]

(***************************************************************************)
(* No lost update: the registers always hold what the completed writes    *)
(* would give had each read-modify-write of set_status run alone.  It     *)
(* fails when two set_status calls on bits of one register overlap: one   *)
(* writes back a value it read before the other's write, undoing it.      *)
(* update_lock exists to prevent exactly that.                             *)
(***************************************************************************)
NoLostUpdate == hw = expect

=============================================================================
