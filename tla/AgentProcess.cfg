SPECIFICATION MonSpec
CONSTANTS
    WarningAge = 1
    CriticalAge = 2
    MaxAge = 3
PROPERTY
    DeadAgentReported
