CONSTANTS
    FieldParams <- MCU16ArrayParams
    Vals <- MCVals
    ListInputs <- MCListInputs
    BytesInputs <- MCBytesInputs
    AUTO = AUTO

SPECIFICATION Spec

INVARIANTS
    DecodeEncodeRoundTrip
