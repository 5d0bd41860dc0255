----------------------------- MODULE CpldAttr -----------------------------
(***************************************************************************)
(* The transceiver attributes of accton_as9737_32db_cpld.c, one caller at *)
(* a time: the attribute numbering (QDD_/SFP_TRANSCEIVER_ATTR_ID), the     *)
(* attribute_mappings table from attribute to register bit, the sysfs      *)
(* group that places a port on CPLD2 or CPLD3, and the show_status and     *)
(* set_status handlers on the registers of the two CPLDs.  A bus           *)
(* transfer that still fails after the retries of                          *)
(* as9737_32db_cpld_read_internal / _write_internal is one outcome of the  *)
(* step; the retries themselves and the mutex are in CpldSysfs.            *)
(*                                                                         *)
(* The registers are the hardware: the transceivers drive the bits of the  *)
(* read-only families at the place their register names give               *)
(* (XCVR_P16_P9_PWR_GOOD_REG holds ports 9..16 in bits 0..7).  That place  *)
(* is RefReg/RefBit, and SigView reads every signal from it; the driver    *)
(* reaches a bit only through attribute_mappings.                          *)
(***************************************************************************)
EXTENDS Integers, FiniteSetsExt
LOCAL INSTANCE Bitwise

CONSTANTS
    Sigs,       \* the <<family, port>> signals in the model
    Inputs,     \* the values written to a writable attribute
    BadInput    \* a string kstrtou8 rejects

VARIABLES
    hw,         \* hw[c][r]: register r of CPLD client c
    out         \* what the last handler returned to user space

vars == <<hw, out>>

PORT_NUM == 34

Clients == {"cpld2", "cpld3"}

\* Family order of the attribute enum: MODULE_<FAM>_<i> = (i-1) + PORT_NUM*k.
FamIndex == [present |-> 0, lpmode |-> 1, reset |-> 2, pwr_good |-> 3,
             pwr_enable |-> 4, tx_disable |-> 5, rx_los |-> 6, tx_fault |-> 7]

AttrId(f, p) == (p - 1) + PORT_NUM * FamIndex[f]

\* One range of attribute_mappings: indexes lo..hi share {attr_base, reg, revert}.
Row(f, lo, hi, f0, p0, reg, revert) ==
    [lo |-> AttrId(f, lo), hi |-> AttrId(f, hi),
     attr_base |-> AttrId(f0, p0), reg |-> reg, revert |-> revert]

attribute_mappings == <<
    Row("present", 1, 8, "present", 1, \h12, 1),
    Row("present", 9, 16, "present", 9, \h13, 1),
    Row("present", 17, 24, "present", 17, \h12, 1),
    Row("present", 25, 32, "present", 25, \h13, 1),
    Row("present", 33, 34, "present", 33, \h20, 1),
    Row("lpmode", 1, 8, "lpmode", 1, \h60, 0),
    Row("lpmode", 9, 16, "lpmode", 9, \h61, 0),
    Row("lpmode", 17, 24, "lpmode", 17, \h60, 0),
    Row("lpmode", 25, 32, "lpmode", 25, \h61, 0),
    Row("reset", 1, 8, "reset", 1, \h14, 1),
    Row("reset", 9, 16, "reset", 9, \h15, 1),
    Row("reset", 17, 24, "reset", 17, \h14, 1),
    Row("reset", 25, 32, "reset", 25, \h15, 1),
    Row("pwr_good", 1, 8, "pwr_good", 1, \h83, 0),
    Row("pwr_good", 9, 16, "pwr_good", 1, \h84, 0),
    Row("pwr_good", 17, 24, "pwr_good", 1, \h83, 0),
    Row("pwr_good", 25, 32, "pwr_good", 1, \h84, 0),
    Row("pwr_enable", 1, 8, "pwr_enable", 1, \h81, 0),
    Row("pwr_enable", 9, 16, "pwr_enable", 1, \h82, 0),
    Row("pwr_enable", 17, 24, "pwr_enable", 1, \h81, 0),
    Row("pwr_enable", 25, 32, "pwr_enable", 1, \h82, 0),
    Row("tx_disable", 33, 34, "tx_disable", 33, \h21, 0),
    Row("rx_los", 33, 34, "rx_los", 33, \h26, 0),
    Row("tx_fault", 33, 34, "tx_fault", 33, \h27, 0) >>

\* The table as the C array: index -> row, {0, 0, 0} where no range covers it.
AttrTable ==
    [i \in 0..AttrId("tx_fault", 34) |->
        IF \E k \in DOMAIN attribute_mappings :
               attribute_mappings[k].lo <= i /\ i <= attribute_mappings[k].hi
        THEN LET k == CHOOSE k \in DOMAIN attribute_mappings :
                          attribute_mappings[k].lo <= i /\ i <= attribute_mappings[k].hi
             IN  attribute_mappings[k]
        ELSE [lo |-> 0, hi |-> 0, attr_base |-> 0, reg |-> 0, revert |-> 0]]

Mapping(i) == AttrTable[i]

(***************************************************************************)
(* The attributes a port declares (DECLARE_QDD_/SFP_TRANSCEIVER_SENSOR_    *)
(* DEVICE_ATTR): each family's store handler, "none" where the mode is    *)
(* S_IRUGO only.  Ports 1..32 are QSFP-DD ports, 33 and 34 SFP ports.     *)
(***************************************************************************)
QddAttrs == [present |-> "none", reset |-> "set_status", lpmode |-> "set_status",
             pwr_good |-> "none", pwr_enable |-> "set_status"]
SfpAttrs == [present |-> "none", tx_disable |-> "set_status",
             rx_los |-> "none", tx_fault |-> "none"]

PortAttrs(p) == IF p <= 32 THEN QddAttrs ELSE SfpAttrs

\* The ports whose attributes each client type's attribute group lists.
GroupPorts == [fpga |-> {}, cpld2 |-> 1..16, cpld3 |-> 17..34]

\* Probe registers the group of the client's type, so a port's files, and
\* the client show_status / set_status are called with, belong to the
\* client whose group lists the port.
ClientOf(p) == CHOOSE c \in DOMAIN GroupPorts : p \in GroupPorts[c]

Regs == {attribute_mappings[k].reg : k \in DOMAIN attribute_mappings}

(***************************************************************************)
(* Where the hardware keeps a signal, from the register names: a QDD bank *)
(* of 8 ports per register, the SFP ports 33/34 in bits 0/1 ("Bit 1:SFP   *)
(* P2, Bit 0: SFP P1"), present and reset active low.                      *)
(***************************************************************************)
Banks == [present |-> <<\h12, \h13, \h12, \h13, \h20>>,
          lpmode |-> <<\h60, \h61, \h60, \h61>>,
          reset |-> <<\h14, \h15, \h14, \h15>>,
          pwr_good |-> <<\h83, \h84, \h83, \h84>>,
          pwr_enable |-> <<\h81, \h82, \h81, \h82>>,
          tx_disable |-> <<0, 0, 0, 0, \h21>>,
          rx_los |-> <<0, 0, 0, 0, \h26>>,
          tx_fault |-> <<0, 0, 0, 0, \h27>>]

RefReg(f, p) == Banks[f][(p - 1) \div 8 + 1]
RefBit(p) == (p - 1) % 8
RefRevert(f) == f \in {"present", "reset"}

\* The CPLD whose registers hold a port's bits: the CPLD2 defines name
\* ports 1..16, the CPLD3 defines ports 17..32 and the SFPs.
RefClient(p) == IF p <= 16 THEN "cpld2" ELSE "cpld3"

BitOf(v, b) == (v \div 2^b) % 2

\* Where each modelled signal lives (a constant, computed once).
SigLoc ==
    [s \in Sigs |-> [c |-> RefClient(s[2]), r |-> RefReg(s[1], s[2]),
                     b |-> RefBit(s[2]), revert |-> RefRevert(s[1])]]

SigView ==
    [s \in Sigs |->
        LET raw == BitOf(hw[SigLoc[s].c][SigLoc[s].r], SigLoc[s].b)
        IN  IF SigLoc[s].revert THEN 1 - raw ELSE raw]

NoOut == [op |-> "none"]

\* ok: the handler returned a count (no error); val: the bit a read printed,
\* or the number a successful write was given.
Result(op, s, ok, val) == [op |-> op, sig |-> s, ok |-> ok, val |-> val]

\* Power-up register contents: any value of the modelled bits, 0 elsewhere.
HwOf(S) ==
    [c \in Clients |-> [r \in Regs |->
        SumSet({2^RefBit(s[2]) :
                    s \in {x \in S : RefClient(x[2]) = c /\ RefReg(x[1], x[2]) = r}})]]

Init ==
    /\ \E S \in SUBSET Sigs : hw = HwOf(S)
    /\ out = NoOut

(***************************************************************************)
(* show_status: read the mapped register, shift by the distance from      *)
(* attr_base, keep bit 0, invert when revert is set.  reg_val is a u8     *)
(* promoted to int, so a shift of 8..31 gives 0.                           *)
(***************************************************************************)
\* Mutant: the "& 0x01" dropped, the whole shifted register is printed.
ShowStatusBitNoMask(i, status) ==
    LET reg_val == status \div 2^(i - Mapping(i).attr_base)
    IN  IF Mapping(i).revert = 1 THEN 1 - reg_val ELSE reg_val

ShowStatusBit(i, status) ==
    LET reg_val == BitOf(status, i - Mapping(i).attr_base)
    IN  IF Mapping(i).revert = 1 THEN 1 - reg_val ELSE reg_val

show_status(s) ==
    LET i == AttrId(s[1], s[2])
        status == hw[ClientOf(s[2])][Mapping(i).reg]
    IN  /\ s[1] \in DOMAIN PortAttrs(s[2])
        /\ out' \in {Result("show", s, FALSE, 0),
                     Result("show", s, TRUE, ShowStatusBit(i, status))}
        /\ UNCHANGED hw

(***************************************************************************)
(* set_status: kstrtou8, then mask = 0x01 << (index - attr_base) stored   *)
(* in a u8, should_set_bit = revert ? !input : input, read-modify-write.  *)
(* A shift of 8..31 leaves mask = 0 (1 << 31 overflows int; GCC gives    *)
(* 0x80000000, whose low byte is 0 as well).                              *)
(***************************************************************************)
SetMask(i) == (2^(i - Mapping(i).attr_base)) % 256

\* Mutant: revert ignored on the write path.
ShouldSetBitNoRevert(i, input) == input # 0

ShouldSetBit(i, input) ==
    IF Mapping(i).revert = 1 THEN input = 0 ELSE input # 0

SetStatusValue(i, input, status) ==
    IF ShouldSetBit(i, input) THEN status | SetMask(i)
    ELSE status - (status & SetMask(i))

set_status(s, input) ==
    LET i == AttrId(s[1], s[2])
        c == ClientOf(s[2])
        r == Mapping(i).reg
    IN  /\ s[1] \in DOMAIN PortAttrs(s[2])
        /\ PortAttrs(s[2])[s[1]] = "set_status"
        /\ \/ /\ out' = Result("set", s, FALSE, 0)     \* parse, read or write failed
              /\ UNCHANGED hw
           \/ /\ input # BadInput
              /\ hw' = [hw EXCEPT ![c][r] = SetStatusValue(i, input, hw[c][r])]
              /\ out' = Result("set", s, TRUE, input)

\* A transceiver changes one of its status lines (not driver code).
HwChange(s) ==
    LET c == RefClient(s[2])
        r == RefReg(s[1], s[2])
        b == 2^RefBit(s[2])
    IN  /\ s[1] \in {"present", "pwr_good", "rx_los", "tx_fault"}
        /\ hw' = [hw EXCEPT ![c][r] = IF BitOf(@, RefBit(s[2])) = 1
                                      THEN @ - b ELSE @ + b]
        /\ UNCHANGED out

Next ==
    \E s \in Sigs :
        \/ show_status(s)
        \/ \E input \in Inputs : set_status(s, input)
        \/ HwChange(s)

Spec == Init /\ [][Next]_vars

-----------------------------------------------------------------------------

TypeOK ==
    /\ hw \in [Clients -> [Regs -> 0..255]]
    /\ out \in {NoOut} \cup [op : {"show", "set"}, sig : Sigs,
                             ok : BOOLEAN, val : {0, 1} \cup (Inputs \ {BadInput})]

(***************************************************************************)
(* Refinement: every sequence of show_status / set_status calls behaves   *)
(* like reading and writing one bit per port signal, the bit the hardware *)
(* keeps at the place its register names give.  It fails when an         *)
(* attribute_mappings row names the wrong register or bit base, when     *)
(* show_status and set_status disagree on the revert flag, or when        *)
(* set_status touches another port's bit.                                 *)
(***************************************************************************)
Abs == INSTANCE PortSignals WITH sig <- SigView

ImplementsPortSignals == Abs!Spec

=============================================================================
