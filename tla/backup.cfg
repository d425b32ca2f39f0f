SPECIFICATION Spec
CONSTANTS
    Takes = {t1}
    Backups = {b1, b2}
    MaxRestores = 2
    MaxDamaged = 1
SYMMETRY Interchangeable
INVARIANTS
    RestoredRowsHaveFiles
    PassMeansWhole
    NoFalseAlarm
CHECK_DEADLOCK FALSE
