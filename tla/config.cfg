SPECIFICATION SourceSpec
CONSTANTS
    MaxWrites = 4
    MaxFailures = 2
PROPERTIES
    NewestIsServed
    ConfigNeverGoesBack
CHECK_DEADLOCK FALSE
