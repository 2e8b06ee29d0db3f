\* The driver's calls in any order after reset: initialize (either
\* inversion, any offsets), fill, clear, set_offset.
SPECIFICATION Spec
CONSTANTS
    PanelW = 2
    PanelH = 2
    Offsets = {0, 1}
    Sizes = {0, 1, 2}
    Colors = {0, 63488}
    MaxBytesToSend = 2
    MaxCalls = 3
CONSTRAINT WithinCalls
INVARIANTS  PanelStaysConfigured ClearSendsArea
INVARIANT FillPaintsArea
