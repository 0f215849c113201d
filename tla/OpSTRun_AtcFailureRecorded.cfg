CONSTANTS
    c1 = c1
    c2 = c2
    c3 = c3
    CaseOrder <- MC_CaseOrder2
    NOut <- MC_NOut
    MaxReloads <- MC_NoReload
SPECIFICATION Spec
INVARIANT AtcFailureRecorded
