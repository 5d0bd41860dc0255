---------------------------- MODULE MC_CpldAttr ----------------------------
(***************************************************************************)
(* Instances of CpldAttr for TLC.  The signals are picked at the edges of *)
(* the register banks: the first and last port of a bank, two ports that *)
(* share a register (lpmode 1 and 8), ports 16 and 17 on either side of *)
(* the CPLD2 / CPLD3 split, and both SFP ports.                           *)
(***************************************************************************)
EXTENDS CpldAttr

\* Every family, on ports whose rows of attribute_mappings start at the
\* right bit (power good and power enable only on ports 1..8).
SigsMapped ==
    {<<"present", 16>>, <<"rx_los", 34>>, <<"lpmode", 1>>, <<"lpmode", 8>>,
     <<"reset", 17>>, <<"pwr_enable", 1>>, <<"pwr_good", 8>>,
     <<"tx_disable", 34>>, <<"tx_fault", 33>>}

\* Power enable and power good beyond port 8, where the rows reuse the
\* attr_base of port 1.
SigsPower ==
    {<<"pwr_enable", 1>>, <<"pwr_enable", 9>>,
     <<"pwr_good", 8>>, <<"pwr_good", 17>>}

\* 0, a non-zero value other than 1, and a string kstrtou8 rejects.
InputsMC == {0, 2, BadInput}

=============================================================================
