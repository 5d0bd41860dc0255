------------------------------ MODULE FpgaI2c ------------------------------
(***************************************************************************)
(* Load and unload of accton_as9737_32db_fpga.c: module init registers    *)
(* the platform driver and device, which runs the probe: enable the FPGA  *)
(* PCI device and create one ocores-i2c platform device per port.  Module *)
(* exit unregisters the device (running remove, which tears the ports     *)
(* down only if pci_is_enabled) and the driver.                            *)
(*                                                                         *)
(* Kernel behaviour the driver relies on (the environment):                *)
(*  - pci_enable_device increments enable_cnt and enables the hardware    *)
(*    unless the new count is above 1; if enabling fails it decrements    *)
(*    again.  pci_disable_device decrements (warning at <= 0) and         *)
(*    disables the hardware when the count reaches 0.  pci_is_enabled is  *)
(*    enable_cnt > 0.                                                      *)
(*  - platform_device_add fails for a name ("ocores-i2c.<id>") already    *)
(*    registered; platform_device_unregister(NULL) does nothing.          *)
(*  - A probe that fails leaves the device unbound; remove is called only *)
(*    for a bound device.                                                  *)
(***************************************************************************)
EXTENDS Integers, FiniteSets, Sequences

CONSTANTS
    Ports,          \* 1..PORT_NUM, the ocores-i2c port devices
    MAX_LOADS,      \* bound on insmod calls
    EnableCanFail   \* whether pci_enable_device may fail

VARIABLES
    pc,         \* "unloaded", "dev_reg", "probe", "enable", "ports", "loaded"
    drv,        \* pcie_fpga_i2c_driver registered
    dev,        \* the platform device pdev registered
    bound,      \* the probe returned 0 (remove will be called)
    enable_cnt, \* the PCI core's enable count of the FPGA
    hw_on,      \* the FPGA's PCI function is enabled in hardware
    fpga_i2c,   \* fpga_dev->fpga_i2c[i]: "DEV" or "NULL"
    registered, \* the ocores-i2c devices on the platform bus
    i,          \* the probe's loop index
    loads,      \* insmod calls so far
    devref      \* references on the FPGA pci_dev that the driver took

vars == <<pc, drv, dev, bound, enable_cnt, hw_on, fpga_i2c, registered, i, loads, devref>>

NoSlots == [p \in Ports |-> "NULL"]

Init ==
    /\ pc = "unloaded"
    /\ drv = FALSE /\ dev = FALSE /\ bound = FALSE
    /\ enable_cnt = 0 /\ hw_on = FALSE
    /\ fpga_i2c = NoSlots
    /\ registered = {}
    /\ i = 0
    /\ loads = 0
    /\ devref = 0

\* pci_disable_device: one decrement; the hardware goes off at 0.
PciDisable ==
    /\ enable_cnt' = enable_cnt - 1
    /\ hw_on' = IF enable_cnt - 1 = 0 THEN FALSE ELSE hw_on

\* as9737_32db_pcie_fpga_i2c_init (lines 326-350), first step:
\* platform_driver_register.
Insmod ==
    /\ pc = "unloaded"
    /\ loads < MAX_LOADS
    /\ loads' = loads + 1
    /\ \/ /\ drv' = TRUE
          /\ pc' = "dev_reg"
       \/ UNCHANGED <<drv, pc>>                   \* status < 0: return
    /\ UNCHANGED <<dev, bound, enable_cnt, hw_on, fpga_i2c, registered, i, devref>>

\* Mutant: the exit_pci unwinding (platform_driver_unregister) left out.
RegisterDeviceNoUnwind ==
    /\ pc = "dev_reg"
    /\ \/ /\ dev' = TRUE
          /\ pc' = "probe"
       \/ pc' = "unloaded"
    /\ UNCHANGED <<drv, dev, bound, enable_cnt, hw_on, fpga_i2c, registered, i, loads, devref>>

\* platform_device_register_simple: on success the device is added and the
\* driver's probe runs; on failure the driver is unregistered (exit_pci).
RegisterDevice ==
    /\ pc = "dev_reg"
    /\ \/ /\ dev' = TRUE
          /\ pc' = "probe"
          /\ UNCHANGED drv
       \/ /\ drv' = FALSE
          /\ pc' = "unloaded"
          /\ UNCHANGED dev
    /\ UNCHANGED <<bound, enable_cnt, hw_on, fpga_i2c, registered, i, loads, devref>>

\* Probe lines 241-253: devm_kzalloc and pci_get_device (which returns the
\* pci_dev with a reference taken); either failure returns an error at
\* once, and the device stays unbound.  Nothing ever calls pci_dev_put.
ProbeStart ==
    /\ pc = "probe"
    /\ \/ /\ pc' = "enable"
          /\ devref' = devref + 1
       \/ /\ pc' = "loaded"                       \* -ENOMEM or -ENODEV
          /\ UNCHANGED devref
    /\ UNCHANGED <<drv, dev, bound, enable_cnt, hw_on, fpga_i2c, registered, i, loads>>

\* Probe lines 255-261, 294-297: pci_enable_device; on failure the code
\* goes to exit_pci_disable and calls pci_disable_device anyway.
EnablePci ==
    /\ pc = "enable"
    /\ \/ /\ enable_cnt' = enable_cnt + 1
          /\ hw_on' = (hw_on \/ enable_cnt + 1 <= 1)
          /\ pc' = "ports"
          /\ i' = 1
       \/ /\ EnableCanFail
          /\ PciDisable
          /\ pc' = "loaded"
          /\ UNCHANGED i
    /\ UNCHANGED <<drv, dev, bound, fpga_i2c, registered, loads, devref>>

(***************************************************************************)
(* Where each port's ocores-i2c controller sits in BAR0.  port[] (the     *)
(* #else table, lines 127-166) gives the offset of port i+1's registers;  *)
(* ocore_i2c_device_add hands the device a memory resource of 0x14 bytes   *)
(* from there (line 192), and the platform data (lines 168-184) tells the *)
(* ocores driver its registers are reg_shift = 2 apart.  The channel and  *)
(* cpld fields are unused in this build.                                   *)
(***************************************************************************)
PORT_NUM == 32 + 2

PortOffset == <<
    \h0000, \h0014, \h0028, \h003C, \h0050, \h0064, \h0078, \h008C,
    \h00A0, \h00B4, \h00C8, \h00DC, \h00F0, \h0104, \h0118, \h012C,
    \h0140, \h0154, \h0168, \h017C, \h0190, \h01A4, \h01B8, \h01CC,
    \h01E0, \h01F4, \h0208, \h021C, \h0230, \h0244, \h0258, \h026C,
    \h0280, \h0294 >>

reg_shift == 2

\* Mutant: the resource sized by the table comments' "0x0000 - 0x0010".
MemSizeFromComment == \h10

MemSize == \h14

\* The ocores core's registers (PRER lo/hi, CTR, TXR/RXR, CR/SR), as the
\* i2c-ocores driver addresses them: register k at k << reg_shift.
OCORES_NREGS == 5

RegAddrs(p) == {PortOffset[p] + k * 2^reg_shift : k \in 0..(OCORES_NREGS - 1)}

Window(p) == PortOffset[p]..(PortOffset[p] + MemSize - 1)

(***************************************************************************)
(* ocore_i2c_device_add (lines 186-230) returns the new device, or NULL    *)
(* when allocation, resources, data or platform_device_add fail (a name   *)
(* still registered always fails); it never returns an ERR_PTR.            *)
(***************************************************************************)
ocore_i2c_device_add(p) == IF p \in registered THEN {"NULL"} ELSE {"DEV", "NULL"}

\* The probe's test of the result (line 278): false for NULL as for a device.
IS_ERR(ptr) == ptr \notin {"DEV", "NULL"}

\* Mutant: the loop runs for i <= PORT_NUM, one pass past the array.
ProbePortPastEnd ==
    /\ pc = "ports"
    /\ \E ret \in ocore_i2c_device_add(i) :
         /\ fpga_i2c' = [fpga_i2c EXCEPT ![i] = ret]
         /\ registered' = IF ret = "DEV" THEN registered \cup {i} ELSE registered
         /\ i' = i + 1
         /\ pc' = IF i \in Ports THEN "ports" ELSE "loaded"
         /\ bound' = (i \notin Ports)
         /\ UNCHANGED <<enable_cnt, hw_on>>
    /\ UNCHANGED <<drv, dev, loads, devref>>

(***************************************************************************)
(* One pass of the probe's loop (lines 274-298): the call, the IS_ERR     *)
(* test, and on an error the unwinding of exit_ocores_device and          *)
(* exit_pci_disable.  A NULL passes the test and the loop goes on.        *)
(***************************************************************************)
ProbePort ==
    /\ pc = "ports"
    /\ \E ret \in ocore_i2c_device_add(i) :
         /\ fpga_i2c' = [fpga_i2c EXCEPT ![i] = ret]
         /\ IF IS_ERR(ret)
            THEN /\ registered' = registered \ {p \in Ports : p < i /\ fpga_i2c[p] = "DEV"}
                 /\ PciDisable
                 /\ pc' = "loaded"
                 /\ UNCHANGED <<bound, i>>
            ELSE /\ registered' = IF ret = "DEV" THEN registered \cup {i} ELSE registered
                 /\ i' = i + 1
                 /\ pc' = IF i + 1 \in Ports THEN "ports" ELSE "loaded"
                 /\ bound' = (i + 1 \notin Ports)     \* return 0
                 /\ UNCHANGED <<enable_cnt, hw_on>>
    /\ UNCHANGED <<drv, dev, loads, devref>>

\* Mutant: remove disables the PCI device without unregistering the ports.
RmmodNoPortUnregister ==
    /\ pc = "loaded"
    /\ IF bound /\ enable_cnt > 0
       THEN /\ PciDisable /\ UNCHANGED registered
       ELSE UNCHANGED <<registered, enable_cnt, hw_on>>
    /\ pc' = "unloaded"
    /\ drv' = FALSE /\ dev' = FALSE /\ bound' = FALSE
    /\ fpga_i2c' = NoSlots
    /\ i' = 0
    /\ UNCHANGED <<loads, devref>>

(***************************************************************************)
(* as9737_32db_pcie_fpga_i2c_exit (lines 352-356): unregistering pdev runs *)
(* remove (lines 300-315) on a bound device: only if pci_is_enabled, every *)
(* fpga_i2c[i] is unregistered and the PCI device disabled.  Then the     *)
(* driver is unregistered; devm frees fpga_dev.                            *)
(***************************************************************************)
Rmmod ==
    /\ pc = "loaded"
    /\ IF bound /\ enable_cnt > 0
       THEN /\ registered' = registered \ {p \in Ports : fpga_i2c[p] = "DEV"}
            /\ PciDisable
       ELSE UNCHANGED <<registered, enable_cnt, hw_on>>
    /\ pc' = "unloaded"
    /\ drv' = FALSE /\ dev' = FALSE /\ bound' = FALSE
    /\ fpga_i2c' = NoSlots
    /\ i' = 0
    /\ UNCHANGED <<loads, devref>>

Next ==
    \/ Insmod
    \/ RegisterDevice
    \/ ProbeStart
    \/ EnablePci
    \/ ProbePort
    \/ Rmmod

Spec == Init /\ [][Next]_vars

-----------------------------------------------------------------------------

TypeOK ==
    /\ pc \in {"unloaded", "dev_reg", "probe", "enable", "ports", "loaded"}
    /\ drv \in BOOLEAN /\ dev \in BOOLEAN /\ bound \in BOOLEAN /\ hw_on \in BOOLEAN
    /\ enable_cnt \in -MAX_LOADS..1
    /\ fpga_i2c \in [Ports -> {"DEV", "NULL"}]
    /\ registered \subseteq Ports
    /\ i \in 0..(Cardinality(Ports) + 1)
    /\ loads \in 0..MAX_LOADS
    /\ devref \in 0..MAX_LOADS

(***************************************************************************)
(* The module is loaded exactly while its platform driver and device are  *)
(* registered: init unwinds the driver registration when                   *)
(* platform_device_register_simple fails, and exit removes both.           *)
(***************************************************************************)
LoadedMeansRegistered ==
    /\ pc = "unloaded" => ~drv /\ ~dev /\ ~bound
    /\ pc \in {"probe", "enable", "ports", "loaded"} => drv /\ dev

(***************************************************************************)
(* A probe that returns 0 has created every port's ocores-i2c device      *)
(* (the comment at lines 265-269: the ports exist before user space can   *)
(* reach them).  Fails: a NULL from ocore_i2c_device_add passes IS_ERR.   *)
(***************************************************************************)
ProbeSuccessMeansAllPorts ==
    bound => \A p \in Ports : p \in registered /\ fpga_i2c[p] = "DEV"

(***************************************************************************)
(* After rmmod nothing of the driver is left: no ocores-i2c port device   *)
(* stays registered and the FPGA's PCI function is disabled.  It takes    *)
(* load, unload and load again to break: a failed pci_enable_device       *)
(* followed by pci_disable_device leaves enable_cnt at -1, the next load's *)
(* enable only brings it to 0, and remove then sees !pci_is_enabled.      *)
(***************************************************************************)
UnloadReleasesAll ==
    pc = "unloaded" => registered = {} /\ ~hw_on

(***************************************************************************)
(* The driver holds no reference on the FPGA's pci_dev once it is          *)
(* unloaded.  Fails: the probe's pci_get_device takes one that neither    *)
(* exit_pci_disable nor remove drops (there is no pci_dev_put), so every  *)
(* load that gets past pci_get_device leaks one.                          *)
(***************************************************************************)
PciDevReleased == pc = "unloaded" => devref = 0

(***************************************************************************)
(* Once the probe has returned 0, none of the 34 ocores-i2c devices it    *)
(* created drives another's register: every register of port p's          *)
(* controller lies in the memory resource ocore_i2c_device_add gave it    *)
(* (bar_base + port[p].offset, size 0x14), and the resources of two ports *)
(* do not overlap.  A wrong offset in port[], or a resource too small for *)
(* the five registers at reg_shift 2, makes two I2C buses share hardware  *)
(* or a controller be mapped short.  All 34 entries of the table are      *)
(* checked, not only the ports of the model.                              *)
(***************************************************************************)
PortRegistersDisjoint ==
    bound =>
        /\ Len(PortOffset) = PORT_NUM
        /\ \A p \in 1..PORT_NUM : RegAddrs(p) \subseteq Window(p)
        /\ \A p, q \in 1..PORT_NUM :
              p # q => Window(p) \cap Window(q) = {}

=============================================================================
