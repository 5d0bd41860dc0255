---------------------------- MODULE PortSignals ----------------------------
(***************************************************************************)
(* What the transceiver attributes of the AS9737-32DB CPLD driver promise *)
(* user space: every <<family, port>> signal is one bit.  Reading          *)
(* module_<family>_<port> returns that bit (or an error), writing a        *)
(* writable one sets the bit to "input is non-zero", and the hardware      *)
(* may change the read-only ones (present, pwr_good, rx_los, tx_fault) at  *)
(* any time.  CpldAttr is checked to implement this specification.         *)
(***************************************************************************)
EXTENDS Naturals

CONSTANTS
    Sigs,       \* the <<family, port>> signals in the model
    Inputs,     \* the values a writer passes to a writable attribute
    BadInput    \* a string kstrtou8 rejects

VARIABLES sig, out

vars == <<sig, out>>

\* Families with a set_status handler (S_IWUSR in the sysfs declarations).
WritableFams == {"lpmode", "reset", "pwr_enable", "tx_disable"}

NoOut == [op |-> "none"]

\* ok: the handler returned a count (no error); val: the bit a read printed,
\* or the number a successful write was given.
Result(op, s, ok, val) == [op |-> op, sig |-> s, ok |-> ok, val |-> val]

Init ==
    /\ sig \in [Sigs -> {0, 1}]
    /\ out = NoOut

\* A read returns the current bit, or fails and changes nothing.
Get(s) ==
    /\ out' \in {Result("show", s, FALSE, 0), Result("show", s, TRUE, sig[s])}
    /\ UNCHANGED sig

\* A write of a number sets the bit to (input # 0), or fails and changes
\* nothing; a write of a non-number fails.
Set(s, input) ==
    /\ s[1] \in WritableFams
    /\ \/ /\ out' = Result("set", s, FALSE, 0)
          /\ UNCHANGED sig
       \/ /\ input # BadInput
          /\ sig' = [sig EXCEPT ![s] = IF input # 0 THEN 1 ELSE 0]
          /\ out' = Result("set", s, TRUE, input)

\* The transceiver changes a status signal.
Change(s) ==
    /\ s[1] \notin WritableFams
    /\ sig' = [sig EXCEPT ![s] = 1 - sig[s]]
    /\ UNCHANGED out

Next ==
    \E s \in Sigs :
        \/ Get(s)
        \/ \E input \in Inputs : Set(s, input)
        \/ Change(s)

Spec == Init /\ [][Next]_vars

=============================================================================
