CONSTANTS
    MaxAppFrames <- MC_MaxAppFrames
    MaxInbound <- MC_MaxInbound
    Capacity <- MC_SmallCapacity
SPECIFICATION Spec
INVARIANT TypeOK
INVARIANT LossOnlyByLag
INVARIANT StartEndsOffline
PROPERTY SessionRefined
