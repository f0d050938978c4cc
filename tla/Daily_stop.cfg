CONSTANTS
    User = {ana}
    LastDay = 2
SPECIFICATION StopSpec
PROPERTIES StoppedUserNotRun
