---------------------------- MODULE MCDataField ----------------------------
(* DataField on the field shapes the L2 messages use: a U8 and a U16      *)
(* scalar, a variable U8 array that may be empty and a fixed U8 array.     *)
EXTENDS DataField

P(dtype, minSize, maxSize) == [dtype |-> dtype, minSize |-> minSize, maxSize |-> maxSize]

MCFieldParams ==
    { P("UINT8", 1, 1), P("UINT16", 1, 1), P("UINT8", 0, 3), P("UINT8", 2, 2) }

\* A U16 array of fixed size 2.
MCU16ArrayParams == { P("UINT16", 2, 2) }

MCVals == {-1, 0, 1, 256}

MCListInputs == { <<>>, <<1>>, <<256>>, <<0, 1>>, <<1, 256>>, <<-1, 0, 1>>, <<0, 1, 0, 1>> }

MCBytesInputs == { <<>>, <<1>>, <<0, 1>>, <<1, 0, 1>>, <<1, 0, 0, 1>> }
=============================================================================
