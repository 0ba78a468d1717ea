SPECIFICATION FairSpec
CONSTANTS
    NumCpus = 2
    Signal = {SIGINT, SIGTERM}
    Capacity = 1
    MaxSends = 2
    MaxSignals = 2
PROPERTIES SignalStopsCpus SecondSignalExits
CHECK_DEADLOCK FALSE
