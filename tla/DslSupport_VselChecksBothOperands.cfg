SPECIFICATION Spec
INVARIANT VselChecksBothOperands
