\* The Vout path with bus errors; the exponent decoding is checked for every
\* VOUT_MODE byte the helper returns.
CONSTANTS
    Words <- WordsMC
    Modes <- ModesMC
    Errs <- ErrsMC
SPECIFICATION Spec
INVARIANT TypeOK
INVARIANT ExponentIsTwosComplement
