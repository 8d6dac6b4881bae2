CONSTANTS
    SP = SP
    NoneValue = NoneValue
    InvalidGrant = InvalidGrant
    NoErrorValue = NoErrorValue
    Space <- SP
    None <- NoneValue
    ReqChunks = 1
    RespChunks = 1
    Statuses <- MCStatuses
    ErrorCodes <- MCErrorCodes
    NoError <- NoErrorValue
    Chars <- MCChars
    MaxLine = 3
    States = {State1, State2}
    IssuedCode = IssuedCode
    InjectedCode = InjectedCode
    ClientId = Client
    RedirectUri = Uri
INIT Init
NEXT Next
INVARIANT
    ExchangeBoundToAuthorization
PROPERTY
    ImplementsGrant
