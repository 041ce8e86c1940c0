CONSTANTS
    rule = rule
    robot = robot
    mail = mail
    Rules = {rule}
    Packages <- MCPackages
    Channels = {robot, mail}
    Events <- MCEvents
    Bound <- MCBound
    Robots = {robot}
    Full <- MCPackages
    Group <- MCGroup
    Calendar <- MCCalendar
    Schedules <- MCSchedules
    FirstSchedule <- MCFirst
    MaxRows = 2
    MaxFaults = 1
    MaxChanges = 1
SPECIFICATION FairSpec
INVARIANTS
    DigestToldOnce
    SentIsAccounted
    StrandedHasCause
PROPERTIES
    DigestGoesOut
    IsOutbox
