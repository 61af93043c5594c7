SPECIFICATION Spec
CONSTANTS
    i1 = i1
    i2 = i2
    Nobody = Nobody
    Instances <- TwoInstances
    MaxTime = 3
    DayLength = 2
    Zones <- TwoZones
    RecentDays = 2
    Raws <- TwoRaws
    Corrected <- OneTime
    Scales <- TwoScales
CONSTRAINT OneChange
SYMMETRY Symmetry
INVARIANTS TypeOK OnePerDayAndEvent ImportComplete EarliestOfDay LockHeld
