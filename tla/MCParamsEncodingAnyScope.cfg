CONSTANTS
    SP = SP
    NoneValue = NoneValue
    Space <- SP
    None <- NoneValue
    ClientIds = {Client}
    RedirectUris = {Uri}
    States = {St}
    Codes = {Code}
    Verifiers = {Verifier}
    RefreshTokens = {Refresh}
    ScopeTokens <- MCAnyTokens
    MaxScopes = 2
INIT Init
NEXT Next
INVARIANT EncodingRoundTrip
