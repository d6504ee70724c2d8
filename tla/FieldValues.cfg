SPECIFICATION Spec
CHECK_DEADLOCK FALSE
CONSTANTS
    Dates = {504, 520}
    Seconds = {3600, 86399}
    Micros = {0, 4000, 123456, 999999}
    Offsets <- MCOffsets
    Decimals <- MCDecimals
    Durations <- MCDurations
    CurrentZone = 7200
    MaxSaves = 3
INVARIANT StoredAsMeant
INVARIANT RoundTrip
INVARIANT InspectStable
PROPERTY ResaveStable
 
