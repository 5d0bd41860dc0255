------------------------------ MODULE CpldMux ------------------------------
(***************************************************************************)
(* The I2C mux of accton_as9737_32db_mux.c on its parent bus.  The probe   *)
(* adds one child adapter per channel (AS9737_MUX_NCHANS) and deletes them *)
(* all if one fails; remove deletes them.  A transfer on child adapter c   *)
(* goes through the i2c-mux core of a parent-locked mux (i2c_mux_alloc     *)
(* flags 0): it takes the parent bus lock, calls select_chan (write        *)
(* chan & 0x7 to register 0), does the transfer only if select succeeded,  *)
(* calls deselect_mux (write AS9737_MUX_DESELECT_VAL) and releases the     *)
(* lock.  Other clients of the parent bus take the same lock and transfer  *)
(* directly.  The register value v connects channel v; a write that fails *)
(* leaves the register as it was.                                          *)
(***************************************************************************)
EXTENDS Naturals
LOCAL INSTANCE Bitwise

CONSTANTS
    Children,   \* users of the child adapters
    Parents,    \* other clients of the parent bus
    UseChans,   \* the channels the children transfer on
    PowerOn,    \* the register's value at power-on
    NoOwner

VARIABLES
    reg,        \* the mux CPLD's select register
    bus,        \* the owner of the parent adapter's bus lock
    pc,         \* where each user is in its transfer
    chan,       \* the channel of each child's transfer
    adapters,   \* the child adapters registered
    mpc,        \* the mux device: "unbound", "adding", "bound"
    k,          \* the probe's loop index
    misrouted,  \* history: a child transfer reached a channel not its own
    exposed     \* history: a parent transfer ran with a channel connected

vars == <<reg, bus, pc, chan, adapters, mpc, k, misrouted, exposed>>

AS9737_MUX_NCHANS == 7
AS9737_MUX_SELECT_REG == 0
AS9737_MUX_DESELECT_VAL == 3

\* chips[as9737_32db_mux], the one chip_desc the driver knows; the model's
\* reg is its select_reg.
chips == [nchans |-> AS9737_MUX_NCHANS, select_reg |-> AS9737_MUX_SELECT_REG,
          deselect_val |-> AS9737_MUX_DESELECT_VAL]

Chans == 0..(AS9737_MUX_NCHANS - 1)
Users == Children \cup Parents

\* The values select_chan writes: each one connects a channel.
SelectVal(c) == c & 7
ChannelVals == {SelectVal(c) : c \in Chans}

Init ==
    /\ reg = PowerOn
    /\ bus = NoOwner
    /\ pc = [u \in Users |-> "idle"]
    /\ chan = [u \in Users |-> 0]
    /\ adapters = {}
    /\ mpc = "unbound"
    /\ k = 0
    /\ misrouted = FALSE
    /\ exposed = FALSE

(***************************************************************************)
(* as9737_32db_mux_probe (lines 137-173): i2c_check_functionality and     *)
(* i2c_mux_alloc may fail and return; otherwise the adapter loop starts.  *)
(***************************************************************************)
Probe ==
    /\ mpc = "unbound"
    /\ \/ /\ mpc' = "adding"
          /\ k' = 0
       \/ UNCHANGED <<mpc, k>>                    \* -ENODEV / -ENOMEM
    /\ UNCHANGED <<reg, bus, pc, chan, adapters, misrouted, exposed>>

\* as9737_32db_mux_cleanup (lines 128-131): i2c_mux_del_adapters deletes
\* every child adapter added so far.
as9737_32db_mux_cleanup == adapters' = {}

\* Mutant: a failed i2c_mux_add_adapter returns without the cleanup.
AddAdapterNoCleanup ==
    /\ mpc = "adding"
    /\ \/ /\ adapters' = adapters \cup {k}
          /\ k' = k + 1
          /\ mpc' = IF k + 1 < chips.nchans THEN "adding" ELSE "bound"
       \/ /\ mpc' = "unbound"
          /\ UNCHANGED <<adapters, k>>
    /\ UNCHANGED <<reg, bus, pc, chan, misrouted, exposed>>

\* Mutant: the loop runs for i <= nchans, one adapter too many.
AddAdapterPastEnd ==
    /\ mpc = "adding"
    /\ \/ /\ adapters' = adapters \cup {k}
          /\ k' = k + 1
          /\ mpc' = IF k + 1 <= chips.nchans THEN "adding" ELSE "bound"
       \/ /\ adapters' = {}
          /\ mpc' = "unbound"
          /\ UNCHANGED k
    /\ UNCHANGED <<reg, bus, pc, chan, misrouted, exposed>>

\* One pass of the loop (lines 162-166): i2c_mux_add_adapter(muxc, 0, k, 0);
\* on failure the probe jumps to exit_mux and the cleanup.
AddAdapter ==
    /\ mpc = "adding"
    /\ \/ /\ adapters' = adapters \cup {k}
          /\ k' = k + 1
          /\ mpc' = IF k + 1 < chips.nchans THEN "adding" ELSE "bound"
       \/ /\ as9737_32db_mux_cleanup
          /\ mpc' = "unbound"
          /\ UNCHANGED k
    /\ UNCHANGED <<reg, bus, pc, chan, misrouted, exposed>>

\* as9737_32db_mux_remove (lines 175-180): the cleanup; the core deletes a
\* child adapter once no transfer uses it.
Remove ==
    /\ mpc = "bound"
    /\ \A u \in Children : pc[u] = "idle"
    /\ as9737_32db_mux_cleanup
    /\ mpc' = "unbound"
    /\ UNCHANGED <<reg, bus, pc, chan, k, misrouted, exposed>>

\* A transfer is issued on a registered child adapter, or on the parent.
ChildStart(u, c) ==
    /\ pc[u] = "idle"
    /\ c \in adapters
    /\ pc' = [pc EXCEPT ![u] = "lock"]
    /\ chan' = [chan EXCEPT ![u] = c]
    /\ UNCHANGED <<reg, bus, adapters, mpc, k, misrouted, exposed>>

ParentStart(u) ==
    /\ pc[u] = "idle"
    /\ pc' = [pc EXCEPT ![u] = "lock"]
    /\ UNCHANGED <<reg, bus, chan, adapters, mpc, k, misrouted, exposed>>

\* Mutant: the mux does not hold the parent lock (a mux-locked mux whose
\* callbacks write with the unlocked __i2c_smbus_xfer).
LockBusNoWait(u) ==
    /\ pc[u] = "lock"
    /\ bus' = u
    /\ pc' = [pc EXCEPT ![u] = IF u \in Children THEN "select" ELSE "xfer"]
    /\ UNCHANGED <<reg, chan, adapters, mpc, k, misrouted, exposed>>

\* i2c_lock_bus of the parent adapter (a child transfer locks its parent).
LockBus(u) ==
    /\ pc[u] = "lock"
    /\ bus = NoOwner
    /\ bus' = u
    /\ pc' = [pc EXCEPT ![u] = IF u \in Children THEN "select" ELSE "xfer"]
    /\ UNCHANGED <<reg, chan, adapters, mpc, k, misrouted, exposed>>

(***************************************************************************)
(* as9737_32db_mux_write (lines 86-94): one unlocked SMBus byte write; it  *)
(* stores val or fails and leaves the register.  update_lock is taken      *)
(* around it (lines 102, 122), always under the bus lock.                  *)
(***************************************************************************)
MuxWrite(val, ok) == reg' = IF ok THEN val ELSE reg

\* as9737_32db_mux_select_chan (lines 96-114); the core skips the transfer
\* when it fails.
select_chan(u) ==
    /\ pc[u] = "select"
    /\ \E ok \in BOOLEAN :
         /\ MuxWrite(SelectVal(chan[u]), ok)
         /\ pc' = [pc EXCEPT ![u] = IF ok THEN "xfer" ELSE "deselect"]
    /\ UNCHANGED <<bus, chan, adapters, mpc, k, misrouted, exposed>>

\* The transfer reaches the devices connected to the parent bus now.
Transfer(u) ==
    /\ pc[u] = "xfer"
    /\ IF u \in Children
       THEN /\ misrouted' = (misrouted \/ reg # SelectVal(chan[u]))
            /\ pc' = [pc EXCEPT ![u] = "deselect"]
            /\ UNCHANGED exposed
       ELSE /\ exposed' = (exposed \/ reg \in ChannelVals)
            /\ pc' = [pc EXCEPT ![u] = "unlock"]
            /\ UNCHANGED misrouted
    /\ UNCHANGED <<reg, bus, chan, adapters, mpc, k>>

\* as9737_32db_mux_deselect_mux (lines 116-127), called by the core after
\* every child transfer, whether or not select succeeded.
deselect_mux(u) ==
    /\ pc[u] = "deselect"
    /\ \E ok \in BOOLEAN : MuxWrite(chips.deselect_val, ok)
    /\ pc' = [pc EXCEPT ![u] = "unlock"]
    /\ UNCHANGED <<bus, chan, adapters, mpc, k, misrouted, exposed>>

UnlockBus(u) ==
    /\ pc[u] = "unlock"
    /\ bus' = NoOwner
    /\ pc' = [pc EXCEPT ![u] = "idle"]
    /\ chan' = [chan EXCEPT ![u] = 0]
    /\ UNCHANGED <<reg, adapters, mpc, k, misrouted, exposed>>

Next ==
    \/ Probe \/ AddAdapter \/ Remove
    \/ \E u \in Children, c \in UseChans : ChildStart(u, c)
    \/ \E u \in Parents : ParentStart(u)
    \/ \E u \in Users :
          \/ LockBus(u) \/ select_chan(u) \/ Transfer(u)
          \/ deselect_mux(u) \/ UnlockBus(u)

Spec == Init /\ [][Next]_vars

-----------------------------------------------------------------------------

TypeOK ==
    /\ reg \in 0..255
    /\ bus \in Users \cup {NoOwner}
    /\ pc \in [Users -> {"idle", "lock", "select", "xfer", "deselect", "unlock"}]
    /\ chan \in [Users -> Chans]
    /\ adapters \subseteq Chans
    /\ mpc \in {"unbound", "adding", "bound"}
    /\ k \in 0..AS9737_MUX_NCHANS
    /\ misrouted \in BOOLEAN /\ exposed \in BOOLEAN

(***************************************************************************)
(* Every transfer on child adapter c reaches channel c: no other transfer *)
(* can write the select register between its select_chan and its transfer *)
(* (the parent lock held by the i2c-mux core).                            *)
(***************************************************************************)
MuxedTransfersRouted == ~misrouted

(***************************************************************************)
(* The probe creates every child adapter or none: after a failed           *)
(* i2c_mux_add_adapter the cleanup leaves no adapter behind, and a bound   *)
(* mux has all AS9737_MUX_NCHANS.                                          *)
(***************************************************************************)
ProbeAllOrNothing ==
    /\ mpc = "unbound" => adapters = {}
    /\ mpc = "bound" => adapters = Chans

(***************************************************************************)
(* A client of the parent bus never talks to the devices behind a channel: *)
(* deselect_mux leaves no channel connected.  Fails: the deselect value 3  *)
(* is what select_chan writes for channel 3, and a failed deselect write   *)
(* leaves the last channel connected.                                      *)
(***************************************************************************)
ParentTrafficIsolated == ~exposed

=============================================================================
