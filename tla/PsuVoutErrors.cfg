\* A failed SMBus read must not reach the decoder as a register value.
CONSTANTS
    Words <- WordsMC
    Modes <- ModesMC
    Errs <- ErrsMC
SPECIFICATION Spec
INVARIANT HelperErrorsNotDecoded
