CONSTANTS
    t1 = t1  t2 = t2
    Tasks <- MC_TwoTasks
    Seqs <- MC_Seqs
    MsgTime <- MC_MsgTime
    StartTime <- MC_StartTime
    MaxPasses <- MC_MaxPasses
    Reappear = FALSE
SPECIFICATION Spec
INVARIANT AtMostOnceDelivery
