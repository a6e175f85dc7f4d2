SPECIFICATION Spec
CONSTANTS
    Frames <- MCFrames
    Overlays <- MCOverlays
    Late <- MCLate
    FirstSize <- MCFirstSize
INVARIANTS FrameShown ModesFollow CursorVisibility IdleIsSilent
