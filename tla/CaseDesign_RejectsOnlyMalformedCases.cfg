CONSTANTS
    n1 = n1
    n2 = n2
    Names <- MC_Names
    MaxObjs <- MC_MaxObjs
    MaxFiles <- MC_MaxFiles
SPECIFICATION Spec
INVARIANT RejectsOnlyMalformedCases
