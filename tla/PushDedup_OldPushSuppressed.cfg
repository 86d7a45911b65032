CONSTANTS
    NKeys <- MC_NKeys
    Times <- MC_Times
    StartTime <- MC_StartTime
    MissLimit <- MC_MissLimit
    MaxInflight <- MC_MaxInflight
    BatchLen <- MC_BatchLen
    MaxPushes <- MC_FewPushes
    Payloads <- MC_OkPayloads
SPECIFICATION Spec
PROPERTY OldPushSuppressed
