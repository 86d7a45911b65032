SPECIFICATION Spec
INVARIANTS
    GroupMessageMatchesSpec
    PowSolveMatchesSpec
    LoginDecodeMatchesTable
    PushDispatchMatchesSpec
