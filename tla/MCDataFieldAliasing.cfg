CONSTANTS
    FieldParams <- MCFieldParams
    Vals <- MCVals
    ListInputs <- MCListInputs
    BytesInputs <- MCBytesInputs
    AUTO = AUTO

SPECIFICATION AliasingSpec

INVARIANTS
    ElementCountInBounds
