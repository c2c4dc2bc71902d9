\* Everything may come to rest: people need not do anything more.
CONSTANTS
    i1 = i1
    i2 = i2
    c1 = c1
    c2 = c2
    t1 = t1
    t2 = t2
    Drafter = drafter
    Attachers = {attacher}
    Intents = {i1, i2}
    Calls = {c1, c2}
    Types = {t1, t2}
    PrivateFirst = {t1}
    Nobody = nobody
    Doors = {"page"}
    MaxPuts = 2
    MaxVersion = 3
    MaxEdits = 1

SPECIFICATION Spec

SYMMETRY Symmetry

PROPERTIES
    PageDecidedOnTheFilesSeen

CHECK_DEADLOCK FALSE
