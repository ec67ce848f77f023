CONSTANTS
    FieldParams <- MCFieldParams
    Vals <- MCVals
    ListInputs <- MCListInputs
    BytesInputs <- MCBytesInputs
    AUTO = AUTO

SPECIFICATION Spec

INVARIANTS
    TypeOK
    ElementCountInBounds
    DecodeEncodeRoundTrip
