CONSTANTS
    Objects = {o1, o2}
    Keys = {k1, k2}
SPECIFICATION LeakSpec
PROPERTY
    DroppedIsAnnounced
