CONSTANTS
    MaxSize <- MC_MaxSize
    MaxFilter <- MC_MaxFilter
    MaxDilation <- MC_MaxDilation
    MaxStride <- MC_MaxStride
SPECIFICATION Spec
INVARIANT ValidOutputNonNegative
