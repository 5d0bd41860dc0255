----------------------------- MODULE MC_FpgaI2c -----------------------------
EXTENDS FpgaI2c

\* Two of the 34 ports: a failure at the first or at the last.
PortsMC == 1..2

\* Three loads: a failed enable, then a load that succeeds, then one more.
MAX_LOADS_MC == 3

\* Without enable failures: all 34 ports stand for four, five loads.
PortsClean == 1..4
MAX_LOADS_CLEAN == 5
=============================================================================
