CONSTANTS
    MaxMessages = 3
    MaxDamage = 1
SPECIFICATION FilesSpec
INVARIANTS OldOrNew DamageCostsOneWrite EditTouchesOne
