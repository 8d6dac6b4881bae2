CONSTANTS
    InvalidGrant = InvalidGrant
    InvalidClient = InvalidClient
    NoErrorValue = NoErrorValue
    ReqChunks <- MCReqChunks
    RespChunks <- MCRespChunks
    Statuses <- MCStatuses
    ErrorCodes <- MCErrorCodes
    NoError <- NoErrorValue
SPECIFICATION FairSpec
PROPERTIES
    ImplementsProtocol
