------------------------------ MODULE PsuVout ------------------------------
(***************************************************************************)
(* The PSU output-voltage attribute of pddf_custom_psu.c: one read of      *)
(* psu_v_out runs pddf_show_custom_psu_v_out, which calls psu_get_v_out    *)
(* (PMBus READ_VOUT, a word) and psu_get_vout_mode (VOUT_MODE, a byte),    *)
(* decodes the low 5 bits of VOUT_MODE with two_complement_to_int and      *)
(* prints mantissa * 2^exponent * 1000.                                    *)
(*                                                                         *)
(* Each helper keeps the result of i2c_smbus_read_*_data, an int that is   *)
(* the register or a negative errno, in an unsigned status (u16 / u8),     *)
(* tests status < 0 to retry up to 10 times, and returns 0 when the test   *)
(* still holds after the loop.  Every bus attempt is a step with either    *)
(* the register's value or an errno.                                       *)
(***************************************************************************)
EXTENDS Integers
LOCAL INSTANCE Bitwise

CONSTANTS
    Words,      \* READ_VOUT values the PSU may report (u16)
    Modes,      \* VOUT_MODE values the PSU may report (u8)
    Errs        \* negative errnos an SMBus read may return

VARIABLES
    vreg, mreg, \* the PSU's READ_VOUT and VOUT_MODE registers
    pc,         \* "idle", "vout" (in psu_get_v_out), "mode" (in psu_get_vout_mode), "show"
    retry,      \* the loop counter of the helper being run
    value,      \* what psu_get_v_out returned
    vout_mode,  \* what psu_get_vout_mode returned
    failed,     \* history: some bus attempt of this show failed
    out         \* what the last show printed, in mV

vars == <<vreg, mreg, pc, retry, value, vout_mode, failed, out>>

RETRY == 10     \* "retry = 10" in both helpers

\* An int converted to an unsigned type of w bits (C: modulo 2^w).
ToUnsigned(x, w) == x % 2^w

\* Mutant: the sign bit taken one place too high (>> valid_bit).
two_complement_to_int_off(data, valid_bit, mask) ==
    LET valid_data == data & mask
        is_negative == (valid_data \div 2^valid_bit) # 0
    IN  IF is_negative THEN -((mask - valid_data) + 1) ELSE valid_data

(***************************************************************************)
(* two_complement_to_int(data, valid_bit, mask): ~valid_data & mask is    *)
(* mask - valid_data, since valid_data has no bit outside mask.            *)
(***************************************************************************)
two_complement_to_int(data, valid_bit, mask) ==
    LET valid_data == data & mask
        is_negative == (valid_data \div 2^(valid_bit - 1)) # 0
    IN  IF is_negative THEN -((mask - valid_data) + 1) ELSE valid_data

(***************************************************************************)
(* The printed value (lines 110-115).  (mantissa << exponent) * 1000 is an *)
(* int product: past INT_MAX it wraps modulo 2^32 (the kernel builds with  *)
(* -fno-strict-overflow).  The shift itself stays below 2^31 (a u16 moved  *)
(* by at most 15).  TLC's integers are 32-bit as well, so WrapMul forms    *)
(* the product in 16-bit halves: a * b = (ah * b) * 2^16 + al * b.         *)
(***************************************************************************)
INT_MAX == 2147483647
INT_MIN == -INT_MAX - 1

WrapMul(a, b) ==
    LET lo == (a % 2^16) * b
        hi == ((a \div 2^16) * b + lo \div 2^16) % 2^16
    IN  (IF hi >= 2^15 THEN hi - 2^16 ELSE hi) * 2^16 + (lo % 2^16)

VoutMv(v, mode) ==
    LET exponent == two_complement_to_int(mode, 5, \h1f)
        mantissa == v
        multiplier == 1000
    IN  IF exponent >= 0
        THEN WrapMul(mantissa * 2^exponent, multiplier)
        ELSE (mantissa * multiplier) \div 2^(-exponent)

Init ==
    /\ vreg \in Words
    /\ mreg \in Modes
    /\ pc = "idle"
    /\ retry = 0
    /\ value = 0
    /\ vout_mode = 0
    /\ failed = FALSE
    /\ out = 0

\* A read of psu_v_out enters pddf_show_custom_psu_v_out.
Show ==
    /\ pc = "idle"
    /\ pc' = "vout"
    /\ retry' = RETRY
    /\ failed' = FALSE
    /\ UNCHANGED <<vreg, mreg, value, vout_mode, out>>

(***************************************************************************)
(* One pass of the retry loop of a helper reading register reg into a     *)
(* w-bit status: on status < 0 it sleeps and retries while retry stays    *)
(* positive; otherwise it leaves the loop and returns status, or 0 when   *)
(* status < 0 (the "Get PSU ... failed" branch).                          *)
(***************************************************************************)
HelperAttempt(reg, w, ret, next) ==
    \E r \in {reg} \cup Errs :
        LET status == ToUnsigned(r, w)
        IN  /\ failed' = (failed \/ r \in Errs)
            /\ IF status < 0 /\ retry - 1 > 0
               THEN /\ retry' = retry - 1
                    /\ UNCHANGED <<pc, ret>>
               ELSE /\ ret' = IF status < 0 THEN 0 ELSE status
                    /\ pc' = next
                    /\ retry' = RETRY

\* psu_get_v_out (lines 73-98): i2c_smbus_read_word_data(READ_VOUT).
psu_get_v_out ==
    /\ pc = "vout"
    /\ HelperAttempt(vreg, 16, value, "mode")
    /\ UNCHANGED <<vreg, mreg, vout_mode, out>>

\* Mutant: the byte helper's status declared u16, as in psu_get_v_out.
psu_get_vout_mode_u16 ==
    /\ pc = "mode"
    /\ HelperAttempt(mreg, 16, vout_mode, "show")
    /\ UNCHANGED <<vreg, mreg, value, out>>

\* psu_get_vout_mode (lines 46-71): i2c_smbus_read_byte_data(VOUT_MODE).
psu_get_vout_mode ==
    /\ pc = "mode"
    /\ HelperAttempt(mreg, 8, vout_mode, "show")
    /\ UNCHANGED <<vreg, mreg, value, out>>

\* pddf_show_custom_psu_v_out prints the decoded value (lines 110-115).
pddf_show_custom_psu_v_out ==
    /\ pc = "show"
    /\ out' = VoutMv(value, vout_mode)
    /\ pc' = "idle"
    /\ value' = 0          \* locals of the handler, dead on return
    /\ vout_mode' = 0
    /\ UNCHANGED <<vreg, mreg, retry, failed>>

\* The PSU's output and mode change between reads (not driver code).
PsuChange ==
    /\ pc = "idle"
    /\ vreg' \in Words
    /\ mreg' \in Modes
    /\ <<vreg', mreg'>> # <<vreg, mreg>>
    /\ UNCHANGED <<pc, retry, value, vout_mode, failed, out>>

Next ==
    \/ Show
    \/ psu_get_v_out
    \/ psu_get_vout_mode
    \/ pddf_show_custom_psu_v_out
    \/ PsuChange

Spec == Init /\ [][Next]_vars

-----------------------------------------------------------------------------

TypeOK ==
    /\ vreg \in Words /\ mreg \in Modes
    /\ pc \in {"idle", "vout", "mode", "show"}
    /\ retry \in 0..RETRY
    /\ value \in 0..(2^16 - 1)
    /\ vout_mode \in 0..(2^8 - 1)
    /\ failed \in BOOLEAN
    /\ out \in INT_MIN..INT_MAX

(***************************************************************************)
(* PMBus linear format: the exponent is the low 5 bits of VOUT_MODE read  *)
(* as a two's-complement number in -16..15.                                *)
(***************************************************************************)
LinearExponent(mode) == IF mode % 32 >= 16 THEN (mode % 32) - 32 ELSE mode % 32

(***************************************************************************)
(* two_complement_to_int(vout_mode, 5, 0x1f) is the PMBus exponent for    *)
(* every VOUT_MODE byte psu_get_vout_mode can return, the truncated errnos *)
(* included.                                                               *)
(***************************************************************************)
ExponentIsTwosComplement ==
    pc = "show" => two_complement_to_int(vout_mode, 5, \h1f) = LinearExponent(vout_mode)

(***************************************************************************)
(* A bus error is never decoded as a register: each helper returns the    *)
(* register it read or, after a failed read, 0 (lines 61-65, 88-92), so a *)
(* printed voltage is the registers' value with possibly 0 for either.     *)
(* Fails because status is unsigned: status < 0 never holds, the loop     *)
(* does not retry, and -EIO comes back as 0xFFFB / 0xFB.                  *)
(***************************************************************************)
HelperErrorsNotDecoded ==
    pc = "show" => /\ value \in {vreg, 0}
                   /\ vout_mode \in {mreg, 0}


(***************************************************************************)
(* A read of psu_v_out never prints a negative voltage: READ_VOUT is      *)
(* taken as an unsigned mantissa.  Fails: with a non-negative exponent     *)
(* (mantissa << exponent) * 1000 passes INT_MAX and wraps (line 113), so   *)
(* a large reading prints as a negative or a too small number of mV.      *)
(***************************************************************************)
PrintedVoutNonNegative == out >= 0

=============================================================================
