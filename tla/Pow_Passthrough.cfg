SPECIFICATION Spec
INVARIANT PowPassthroughMatchesSpec
