CONSTANT MaxLines <- MC_MaxLines
SPECIFICATION Spec
INVARIANT SelectsConcernedSuites
