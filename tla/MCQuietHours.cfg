\* Deferral over two days for 36 windows and five zones.
SPECIFICATION Spec
CONSTANTS
    Instants <- HalfHours
    Hours <- SomeHours
    Zones <- SomeZones
INVARIANTS
    TypeOK
    LandsOutsideQuietHours
    NothingAllowedSooner
PROPERTIES
    DeferralMovesForward
CHECK_DEADLOCK FALSE
