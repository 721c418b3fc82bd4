SPECIFICATION Spec
CONSTANTS
    Item = {i1, i2}
    None = None
    Texts = {"", "x"}
    LastPage = 2
    MaxCalls = 2
    MaxActs <- MCMaxActs
INVARIANTS
    TypeOK
    Fresh
    OneWrite
    NoStuck
    OwnDialog
    
    ReadIsStored
    OnePaymentPerForm
CHECK_DEADLOCK FALSE
