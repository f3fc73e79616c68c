\* Three 3DS owners, and a PID without an account; a call beside other clients.
CONSTANTS
    PIDs = {a, b, e, u}
    Unresolved = {u}
    MaxQueue = 0
    Slots = {c}
    Idle = Idle
    MaxElsewhere = 1
SPECIFICATION Spec
INVARIANTS
    TypeOK
    MutualAddCompletes

    
    
SYMMETRY MCSymmetry
