\* Two users of child adapters and one client of the parent bus, with the
\* mux probed, removed and probed again, and every mux write able to fail.
CONSTANTS
    c1 = c1
    c2 = c2
    p1 = p1
    NoOwner = NoOwner
    Children <- ChildrenMC
    Parents <- ParentsMC
    UseChans <- UseChansMC
    PowerOn <- PowerOnMC
SYMMETRY ChildSymmetry
SPECIFICATION Spec
INVARIANT TypeOK
INVARIANT MuxedTransfersRouted
INVARIANT ProbeAllOrNothing
