SPECIFICATION Spec
CONSTANTS
    a = a
    b = b
    t1 = t1
    t2 = t2
    t3 = t3
    Sessions = {a, b}
    Turns = {t1, t2, t3}
    Gates = {g1, g2, g3, g4}
    Scenes <- MixedScenes
    None = None
INVARIANTS
    LimitsHold
    RepliesAlone
PROPERTIES
    WaitersServed
