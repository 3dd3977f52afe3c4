SPECIFICATION RegistrySpec
CONSTANTS
    Workers = {w1}
    Checkers = {h}
    Maintainers = {}
    Threshold = 3
    MaxLapses = 0
    NoEntry = NoEntry
PROPERTIES
    ThreeFailuresUnhealthy
