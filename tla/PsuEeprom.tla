----------------------------- MODULE PsuEeprom -----------------------------
(***************************************************************************)
(* The PSU EEPROM client list of pddf_custom_psu.c and the fan-direction  *)
(* hook that reads through it.  PDDF calls pddf_custom_psu_post_probe for *)
(* every PSU client it probes (the PMBus one and the EEPROM one) and       *)
(* pddf_custom_psu_post_remove when it removes one; an EEPROM client      *)
(* removed and probed again is a new client (a new generation).  A read  *)
(* of psu_fan_dir on the PMBus client runs pddf_post_get_custom_psu_fan_dir *)
(* after PDDF's own read: it finds the EEPROM client on the same adapter   *)
(* under list_lock, drops the lock, then reads the client's psu_data and  *)
(* its cached psu_model_name, which a psu_model_name read of the EEPROM   *)
(* client fills (PDDF do_get) and pddf_post_get_custom_psu_model_name     *)
(* patches ('-' at index 8).                                               *)
(*                                                                         *)
(* The PDDF core is not part of this code; its order is taken as: probe   *)
(* allocates psu_data, then post_probe; remove runs post_remove, then     *)
(* frees psu_data and the client.  The other order (free, then            *)
(* post_remove) only widens the window checked below.                     *)
(***************************************************************************)
EXTENDS Naturals

CONSTANTS
    MAX_GEN,    \* bound on EEPROM client probes
    Kind        \* the PSU's model: "CR" (YM-2401H-CR) or "DR" (YM-2401H-DR)

VARIABLES
    gen,        \* the EEPROM client's generation (0: never probed)
    est,        \* the EEPROM client: "absent", "live", "unlisted"
    data_live,  \* its psu_data is allocated
    list,       \* psu_eeprom_client_list: the clients its nodes point to
    model,      \* the cached psu_model_name: "empty", "raw", "patched"
    mpc,        \* the psu_model_name reader: "idle", "post"
    fpc,        \* the psu_fan_dir reader: "idle", "use"
    fptr,       \* the client find_psu_eeprom_client returned (0: NULL)
    fan,        \* psu_fan_dir's value: "dev" (PDDF's read), "F2B", "B2F"
    uaf,        \* history: the fan-dir hook read a freed client or psu_data
    pst,        \* the PMBus client (which carries psu_fan_dir) is probed
    mod,        \* this module: "in" (loaded) or "out" (unloaded)
    oops        \* history: PDDF called a hook of the unloaded module

vars == <<gen, est, data_live, list, model, mpc, fpc, fptr, fan, uaf, pst, mod, oops>>

\* The variables of the PSU clients and hooks, which load and unload leave.
cliVars == <<gen, est, data_live, model, mpc, fpc, fptr, fan, uaf, pst>>

\* EEPROM content, not code: strlen of the model string as the PSU holds it: "YM-2401H?CR" or
\* "YM-2401H?DR", byte 8 not yet the '-' that the strcmp names expect.
MODEL_LEN == 11

\* The PMBus client, told apart from every EEPROM client generation.
PMBUS == MAX_GEN + 1

Init ==
    /\ gen = 0
    /\ est = "absent"
    /\ data_live = FALSE
    /\ list = {}
    /\ model = "empty"
    /\ mpc = "idle"
    /\ fpc = "idle"
    /\ fptr = 0
    /\ fan = "dev"
    /\ uaf = FALSE
    /\ pst = FALSE
    /\ mod = "in"
    /\ oops = FALSE

\* Mutant: the dev_id name check dropped: every PSU client is added.
PmbusPostProbeNoNameCheck ==
    /\ mod = "in"
    /\ ~pst
    /\ pst' = TRUE
    /\ list' = list \cup {PMBUS}
    /\ UNCHANGED <<gen, est, data_live, model, mpc, fpc, fptr, fan, uaf>>
    /\ UNCHANGED <<mod, oops>>

(***************************************************************************)
(* pddf_custom_psu_post_probe (lines 200-221) for the PMBus client: its   *)
(* dev_id name is not "psu_eeprom", so it returns 0 and adds nothing.      *)
(* The PMBus client is probed once and not removed here.                 *)
(***************************************************************************)
PmbusPostProbe ==
    /\ mod = "in"
    /\ ~pst
    /\ pst' = TRUE
    /\ UNCHANGED <<gen, est, data_live, list, model, mpc, fpc, fptr, fan, uaf>>
    /\ UNCHANGED <<mod, oops>>

(***************************************************************************)
(* PDDF probes the EEPROM client (new generation, psu_data allocated) and  *)
(* calls post_probe: kzalloc the node, or return -ENOMEM and fail the      *)
(* probe; list_add under list_lock.                                        *)
(***************************************************************************)
pddf_custom_psu_post_probe ==
    /\ mod = "in"
    /\ est = "absent"
    /\ gen < MAX_GEN
    /\ gen' = gen + 1
    /\ model' = "empty"
    /\ \/ /\ list' = list \cup {gen + 1}
          /\ est' = "live"
          /\ data_live' = TRUE
       \/ UNCHANGED <<list, est, data_live>>       \* -ENOMEM
    /\ UNCHANGED <<mpc, fpc, fptr, fan, uaf, pst>>
    /\ UNCHANGED <<mod, oops>>

\* Mutant: list_del_init left out; the node stays linked while the client
\* goes on to be freed.
post_remove_no_unlink ==
    /\ mod = "in"
    /\ est = "live"
    /\ mpc = "idle"
    /\ est' = "unlisted"
    /\ UNCHANGED <<gen, data_live, list, model, mpc, fpc, fptr, fan, uaf, pst>>
    /\ UNCHANGED <<mod, oops>>

\* pddf_custom_psu_post_remove (lines 223-248): under list_lock, delete and
\* free the node of this client.  PDDF removes the EEPROM client only once
\* its own attribute reads (the model-name reader) are done.
pddf_custom_psu_post_remove ==
    /\ mod = "in"
    /\ est = "live"
    /\ mpc = "idle"
    /\ list' = list \ {gen}
    /\ est' = "unlisted"
    /\ UNCHANGED <<gen, data_live, model, mpc, fpc, fptr, fan, uaf, pst>>
    /\ UNCHANGED <<mod, oops>>

\* PDDF frees psu_data; the i2c core frees the client.  That this comes
\* after post_remove is PDDF's order (not in this file), assumed here by the
\* guard rather than checked.
FreeClient ==
    /\ est = "unlisted"
    /\ est' = "absent"
    /\ data_live' = FALSE
    /\ UNCHANGED <<gen, list, model, mpc, fpc, fptr, fan, uaf, pst>>
    /\ UNCHANGED <<mod, oops>>

\* A psu_model_name read: PDDF's do_get caches the EEPROM string.
ModelDoGet ==
    /\ est = "live" /\ mpc = "idle"
    /\ model' = "raw"
    /\ mpc' = "post"
    /\ UNCHANGED <<gen, est, data_live, list, fpc, fptr, fan, uaf, pst>>
    /\ UNCHANGED <<mod, oops>>

\* pddf_post_get_custom_psu_model_name (lines 119-128): strlen > 8, so
\* strval[8] = '-', which makes the string one of the two strcmp names.
pddf_post_get_custom_psu_model_name ==
    /\ mod = "in"
    /\ mpc = "post"
    /\ model' = IF MODEL_LEN > 8 THEN "patched" ELSE model
    /\ mpc' = "idle"
    /\ UNCHANGED <<gen, est, data_live, list, fpc, fptr, fan, uaf, pst>>
    /\ UNCHANGED <<mod, oops>>

(***************************************************************************)
(* A psu_fan_dir read: PDDF's do_get, then the hook's                       *)
(* find_psu_eeprom_client (lines 133-151): lock, first node on the same   *)
(* adapter (every node here is), unlock, return the client; NULL returns.  *)
(***************************************************************************)
find_psu_eeprom_client ==
    /\ mod = "in"
    /\ pst /\ fpc = "idle"
    /\ fan' = "dev"
    /\ \/ /\ list # {}
          /\ fptr' \in list
          /\ fpc' = "use"
       \/ /\ list = {}
          /\ UNCHANGED <<fptr, fpc>>
    /\ UNCHANGED <<gen, est, data_live, list, model, mpc, uaf, pst>>
    /\ UNCHANGED <<mod, oops>>

(***************************************************************************)
(* The rest of pddf_post_get_custom_psu_fan_dir (lines 170-197), after the *)
(* lock is dropped: i2c_get_clientdata of the client, the attr_info scan   *)
(* for psu_model_name, and the strcmp with the two model names.  The read *)
(* is of freed memory unless the client is still the live one.            *)
(***************************************************************************)
FanDirUse ==
    /\ mod = "in"
    /\ fpc = "use"
    /\ LET valid == fptr = gen /\ data_live
       IN  /\ uaf' = (uaf \/ ~valid)
           /\ fan' = IF valid /\ model = "patched"
                     THEN IF Kind = "CR" THEN "F2B" ELSE "B2F"
                     ELSE fan
    /\ fpc' = "idle"
    /\ fptr' = 0
    /\ UNCHANGED <<gen, est, data_live, list, model, mpc, pst>>
    /\ UNCHANGED <<mod, oops>>

(***************************************************************************)
(* pddf_custom_psu_exit (lines 264-267) returns and does nothing else: the *)
(* module's code and its static list go away, while PDDF's access_psu_*   *)
(* and pddf_psu_ops still point at the hooks and the nodes are never       *)
(* freed.  A hook running at the time runs on in freed code.               *)
(***************************************************************************)
pddf_custom_psu_exit ==
    /\ mod = "in"
    /\ mod' = "out"
    /\ UNCHANGED <<list, oops>>
    /\ UNCHANGED cliVars

\* pddf_custom_psu_init (lines 252-262): a fresh, empty LIST_HEAD and
\* list_lock, and the six PDDF hooks set to this module's functions.
pddf_custom_psu_init ==
    /\ mod = "out"
    /\ mod' = "in"
    /\ list' = {}
    /\ UNCHANGED oops
    /\ UNCHANGED cliVars

\* With the module unloaded, PDDF probes or removes a PSU client or reads
\* psu_v_out, psu_model_name or psu_fan_dir, and calls through a hook
\* pointer pddf_custom_psu_exit left behind.
CallUnloadedHook ==
    /\ mod = "out"
    /\ oops' = TRUE
    /\ UNCHANGED <<list, mod>>
    /\ UNCHANGED cliVars

Next ==
    \/ pddf_custom_psu_exit
    \/ pddf_custom_psu_init
    \/ CallUnloadedHook
    \/ PmbusPostProbe
    \/ pddf_custom_psu_post_probe
    \/ pddf_custom_psu_post_remove
    \/ FreeClient
    \/ ModelDoGet
    \/ pddf_post_get_custom_psu_model_name
    \/ find_psu_eeprom_client
    \/ FanDirUse

Spec == Init /\ [][Next]_vars

-----------------------------------------------------------------------------

TypeOK ==
    /\ gen \in 0..MAX_GEN
    /\ est \in {"absent", "live", "unlisted"}
    /\ data_live \in BOOLEAN
    /\ list \subseteq 1..MAX_GEN
    /\ model \in {"empty", "raw", "patched"}
    /\ mpc \in {"idle", "post"} /\ fpc \in {"idle", "use"}
    /\ fptr \in 0..MAX_GEN
    /\ fan \in {"dev", "F2B", "B2F"}
    /\ uaf \in BOOLEAN /\ pst \in BOOLEAN
    /\ mod \in {"in", "out"} /\ oops \in BOOLEAN

(***************************************************************************)
(* Every node on psu_eeprom_client_list points to the EEPROM client that  *)
(* is live now: post_remove unlinks a client before it is freed, and a     *)
(* client is never on the list twice or after a new one replaced it.      *)
(***************************************************************************)
ListedClientsAlive ==
    \A c \in list : c = gen /\ est = "live" /\ data_live

(***************************************************************************)
(* The fan-direction hook reads only a live EEPROM client and its         *)
(* psu_data.  Fails: find_psu_eeprom_client returns the client after       *)
(* mutex_unlock, so post_remove and the freeing of the client can run     *)
(* before the hook's i2c_get_clientdata and strcmp.                       *)
(***************************************************************************)
NoUseAfterFree == ~uaf

(***************************************************************************)
(* PDDF never calls into this module after it is unloaded.  Fails:        *)
(* pddf_custom_psu_exit leaves the hooks pddf_custom_psu_init installed,   *)
(* so the next PSU probe, remove or attribute read after rmmod jumps into  *)
(* freed module text.                                                      *)
(***************************************************************************)
NoCallIntoUnloadedModule == ~oops

=============================================================================
