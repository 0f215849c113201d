SPECIFICATION Spec
INVARIANT TypeOK
INVARIANT ValidMatchesTF
INVARIANT SameMatchesTF
INVARIANT CeilDivAndAlignMatch
INVARIANT RefineAxisMatches
INVARIANT ReduceAxisCheckMatches
INVARIANT TupleSumSupport
INVARIANT AutoCastSound
 
INVARIANT DecoratorAdmitsExactlySupported
INVARIANT OtherFileExactly
INVARIANT AcceptedThresholdWellFormed
INVARIANT RunThresholdPrecedence
INVARIANT DesignedCasesInOrder
INVARIANT AclJsonListsEachCaseOnce
INVARIANT SummaryAgreesWithTraces
INVARIANT RecordedFailureWins
INVARIANT CompareVerdictSound
INVARIANT ParentFoundUnlessShadowed
INVARIANT InputDataReachesExpect
