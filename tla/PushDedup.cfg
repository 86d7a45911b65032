CONSTANTS
    NKeys <- MC_SmallNKeys
    Times <- MC_Times
    StartTime <- MC_StartTime
    MissLimit <- MC_SmallMissLimit
    MaxInflight <- MC_MaxInflight
    BatchLen <- MC_BatchLen
    MaxPushes <- MC_MixedPushes
    Payloads <- MC_AllPayloads
SPECIFICATION Spec
INVARIANT TypeOK
INVARIANT CacheBounded
PROPERTY BatchAbandonedOnlyByPanic
