CONSTANTS
    MaxSegs <- MC_MaxSegs
    MaxCases <- MC_MaxCases
SPECIFICATION Spec
INVARIANT ExpectFollowsParent
