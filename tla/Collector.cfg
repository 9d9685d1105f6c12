CONSTANT Count = 3
SPECIFICATION Spec
INVARIANTS CleanReturn FreshResult
PROPERTY CollectReturns
