CONSTANTS
    NKeys <- MC_NKeys
    Times <- MC_OnlyNow
    StartTime <- MC_StartTime
    MissLimit <- MC_MissLimit
    MaxInflight <- MC_MaxInflight
    BatchLen <- MC_BatchLen
    MaxPushes <- MC_FewPushes
    Payloads <- MC_AllPayloads
SPECIFICATION Spec
INVARIANT CachedMeansDelivered
