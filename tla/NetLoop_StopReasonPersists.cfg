CONSTANTS
    MaxAppFrames <- MC_MaxAppFrames
    MaxInbound <- MC_MaxInbound
    Capacity <- MC_Capacity
SPECIFICATION Spec
PROPERTY StopReasonPersists
