\* Three updates of a chat, with one mishap.
SPECIFICATION Spec
CONSTANTS
    MaxUpdates = 3
    MaxConvs = 2
    MaxMishaps = 1
INVARIANT IntakeInv
PROPERTIES JoinsTheCurrent EveryInputDecided
