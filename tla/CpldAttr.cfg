\* The attribute mapping of every family, at the bank edges, implements
\* the one-bit-per-signal specification.
CONSTANTS
    BadInput = BadInput
    Sigs <- SigsMapped
    Inputs <- InputsMC
SPECIFICATION Spec
INVARIANT TypeOK
PROPERTY ImplementsPortSignals
