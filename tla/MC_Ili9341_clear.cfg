\* clear(x, y, width, height, color): the window is one past the area with
\* its height taken from width (lines 149, 151), and memset stores the
\* colour's low byte in every byte (line 174).  A 2x2 clear in 0xF800 shows both.
SPECIFICATION Spec
CONSTANTS
    PanelW = 2
    PanelH = 2
    Offsets = {0}
    Sizes = {2}
    Colors = {63488}
    MaxBytesToSend = 2
    MaxCalls = 2
CONSTRAINT WithinCalls
INVARIANT ClearPaintsArea
