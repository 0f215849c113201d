SPECIFICATION Spec
INVARIANT CaseThresholdHonoured
