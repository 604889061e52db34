SPECIFICATION EngineSpec
CONSTANTS
    Offered <- MCOffered
    Doubled <- MCDoubled
    ByHand <- MCByHand
    Disableable <- MCDisableable
    MaxDisabled = 1
    MaxMissing = 1
    MaxRegister = 2
INVARIANTS
    
    DocumentOrderSafe
CHECK_DEADLOCK FALSE
