\* Five instants: 0, 2047, 4095, 2^42 - 2^30 + 4095 and 2^42 + 4100
\* microseconds.  Their differences are delays below 2048, delays of 12 bits,
\* delays whose low bits are cut, the longest delay that is not clamped, and
\* delays that are.
CONSTANTS
    PacketNumbers = {1, 2, 3, 4, 5, 6}
    Instants = {{},
                {0, 1, 2, 3, 4, 5, 6, 7, 8, 9, 10},
                {0, 1, 2, 3, 4, 5, 6, 7, 8, 9, 10, 11},
                {0, 1, 2, 3, 4, 5, 6, 7, 8, 9, 10, 11,
                 30, 31, 32, 33, 34, 35, 36, 37, 38, 39, 40, 41},
                {2, 12, 42}}
    MaxTime = 4
SPECIFICATION Spec
INVARIANTS
    TypeOK
    SackUnion
    RangesCoalesced
    AckFrameTellsLatest
