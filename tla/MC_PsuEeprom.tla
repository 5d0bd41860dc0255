---------------------------- MODULE MC_PsuEeprom ----------------------------
(* Three probes of the EEPROM client: removal, a new client, and a fan-dir   *)
(* read holding the old one.                                               *)
EXTENDS PsuEeprom

MAX_GEN_MC == 3
KindMC == "CR"
=============================================================================
