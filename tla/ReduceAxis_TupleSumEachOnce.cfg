CONSTANTS
    MaxRank <- MC_MaxRank
    MaxDim <- MC_MaxDim
    MaxAxes <- MC_MaxAxes
SPECIFICATION Spec
INVARIANT TupleSumEachOnce
