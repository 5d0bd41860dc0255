\* Power enable / power good of ports 9..32: the attribute_mappings rows
\* take attr_base = MODULE_PWR_*_1, so the driver misses the port's bit.
CONSTANTS
    BadInput = BadInput
    Sigs <- SigsPower
    Inputs <- InputsMC
SPECIFICATION Spec
PROPERTY ImplementsPortSignals
