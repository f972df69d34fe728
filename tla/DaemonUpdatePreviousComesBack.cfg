SPECIFICATION Spec
CONSTANTS
    Newest = 2
    Held = {}
    PrevRetained = 2
    MaxFailedBoots = 2
    MaxMishaps = 0
PROPERTIES
    PreviousComesBack
CHECK_DEADLOCK FALSE
