----------------------------- MODULE DataField -----------------------------
(***************************************************************************)
(* One field of a message (class DataField of                              *)
(* src/tvl/messages/datafield.py) under the process-wide byte order        *)
(* (src/tvl/messages/endianness.py).                                       *)
(*                                                                         *)
(* A field holds a list of integers, or AUTO, and has fixed parameters:    *)
(* the element type, whose width is nb_bytes, and min_size/max_size.       *)
(* Assigning `value` (ValueDescriptor.__set__) converts an int, a bytes    *)
(* object or a list to a list, rejects a list longer than max_size and     *)
(* pads a short one with zeros; to_bytes packs the list with struct.pack.  *)
(* A list given to the setter is stored as it is, not copied, and the      *)
(* getter of an array field returns the stored list itself: the caller    *)
(* keeps a reference to the field's state (`alias`).                       *)
(***************************************************************************)
EXTENDS Integers, Sequences

CONSTANTS
    FieldParams,   \* the Params of the fields considered
    Vals,          \* the integers put into fields
    ListInputs,    \* the lists assigned to fields
    BytesInputs,   \* the bytes objects assigned to fields
    AUTO           \* the AUTO singleton

\* Dtype and its nb_bytes (struct.calcsize of the format character).
NbBytes == [UINT8 |-> 1, UINT16 |-> 2, UINT32 |-> 4, UINT64 |-> 8]
Dtypes == DOMAIN NbBytes

Byte == 0 .. 255

\* Params.__post_init__: the parameters it accepts without ParamError.
ValidParams(p) ==
    /\ p.dtype \in Dtypes
    /\ p.minSize \in Nat
    /\ p.maxSize \in Nat \ {0}
    /\ p.minSize <= p.maxSize

ASSUME FieldParamsAssumption == \A p \in FieldParams : ValidParams(p)
ASSUME ValsAssumption == Vals \subseteq Int
ASSUME ListInputsAssumption == ListInputs \subseteq Seq(Vals)
ASSUME BytesInputsAssumption == BytesInputs \subseteq Seq(Byte)

VARIABLES
    params,  \* DataField.params
    value,   \* DataField._value
    alias,   \* the caller holds a reference to the list in `value`
    endian,  \* Endianness._endianness
    out      \* the result of the last to_bytes

vars == <<params, value, alias, endian, out>>

-----------------------------------------------------------------------------
(* Conversions *)

Width(p) == NbBytes[p.dtype]

\* Params.has_variable_size
HasVariableSize(p) == p.minSize # p.maxSize

\* The length __set__ pads to.
MinLength(p) == IF HasVariableSize(p) THEN p.minSize ELSE p.maxSize

\* 256 ^ (i - 1), the place value of byte i of an element of at most
\* eight bytes (struct's unsigned formats B, H, I and Q).
PlaceValue(i) ==
    CASE i = 1 -> 1
      [] i = 2 -> 256
      [] i = 3 -> 65536
      [] i = 4 -> 16777216
      [] i = 5 -> 16777216 * 256
      [] i = 6 -> 16777216 * 65536
      [] i = 7 -> 16777216 * 16777216
      [] i = 8 -> 16777216 * 16777216 * 256

\* Packing without reducing each byte modulo 256.
LittleBytesNoMod(x, w) == [i \in 1 .. w |-> x \div PlaceValue(i)]

\* The bytes of x, least significant first, as struct.pack writes a w-byte
\* unsigned integer in little-endian order.
LittleBytes(x, w) == [i \in 1 .. w |-> (x \div PlaceValue(i)) % 256]

\* struct.pack of one element in byte order e.
PackElem(x, w, e) ==
    IF e = "little" THEN LittleBytes(x, w)
    ELSE [i \in 1 .. w |-> LittleBytes(x, w)[w + 1 - i]]

\* The unsigned integer a sequence of bytes encodes, most significant first.
BigValue(bs) ==
    LET acc[i \in 0 .. Len(bs)] ==
            IF i = 0 THEN 0 ELSE acc[i - 1] * 256 + bs[i]
    IN  acc[Len(bs)]

\* Unpacking in the other byte order than the one packed with.
UnpackElemSwapped(bs, e) ==
    IF e = "little" THEN BigValue(bs)
    ELSE BigValue([i \in 1 .. Len(bs) |-> bs[Len(bs) + 1 - i]])

\* struct.unpack of one element in byte order e.
UnpackElem(bs, e) ==
    IF e = "big" THEN BigValue(bs)
    ELSE BigValue([i \in 1 .. Len(bs) |-> bs[Len(bs) + 1 - i]])

\* struct.pack raises struct.error for an element outside the type's range.
Packable(v, w) == \A i \in 1 .. Len(v) : 0 <= v[i] /\ v[i] < 256 ^ w

\* DataField.to_bytes on a list: the elements packed one after the other.
ToBytes(v, w, e) ==
    [k \in 1 .. Len(v) * w |-> PackElem(v[(k - 1) \div w + 1], w, e)[((k - 1) % w) + 1]]

\* _format_to_list: an int is one element; bytes are unpacked as one element
\* of the field's type when they have exactly its width, and otherwise as
\* one element per byte; a list is taken as it is.
FormatToList(in, p, e) ==
    CASE in.kind = "int"   -> <<in.val>>
      [] in.kind = "bytes" -> IF Len(in.val) = Width(p)
                              THEN <<UnpackElem(in.val, e)>>
                              ELSE in.val
      [] in.kind = "list"  -> in.val

\* Padding off by one: only a list at least two elements short is padded.
PadOffByOne(lst, n) ==
    IF n - Len(lst) > 1 THEN lst \o [i \in 1 .. n - Len(lst) |-> 0] ELSE lst

\* Zero padding up to n elements.
Pad(lst, n) ==
    IF n - Len(lst) > 0 THEN lst \o [i \in 1 .. n - Len(lst) |-> 0] ELSE lst

\* ValueDescriptor.__set__: `ok` is FALSE when it raises ListTooLongError,
\* and `val` is the list it stores otherwise.
SetResult(in, p, e) ==
    LET lst == FormatToList(in, p, e) IN
    IF Len(lst) > p.maxSize THEN [ok |-> FALSE, val |-> lst]
    ELSE [ok |-> TRUE, val |-> Pad(lst, MinLength(p))]

\* What to_bytes returned, or the exception it raised, with the list it
\* packed and the byte order it packed in.
Out(kind, bytes) == [kind |-> kind, bytes |-> bytes, src |-> <<>>, order |-> "little"]
NoOutput == Out("none", <<>>)

Inputs ==
    [kind : {"int"}, val : Vals]
      \cup [kind : {"list"}, val : ListInputs]
      \cup [kind : {"bytes"}, val : BytesInputs]

-----------------------------------------------------------------------------
(* A field built by DataField.__init__, then used *)

Init ==
    /\ params \in FieldParams
    /\ endian = "little"
    /\ \E in \in Inputs :
          /\ SetResult(in, params, endian).ok
          /\ value = SetResult(in, params, endian).val
          /\ alias = (in.kind = "list")
    /\ out = NoOutput

\* field.value = in (ValueDescriptor.__set__).  On ListTooLongError the
\* field keeps its value.
SetValue ==
    \E in \in Inputs :
        LET r == SetResult(in, params, endian) IN
        /\ r.ok
        /\ value' = r.val
        /\ alias' = (in.kind = "list")
        /\ UNCHANGED <<params, endian, out>>

\* field.value = AUTO
SetAuto ==
    /\ value' = AUTO
    /\ alias' = FALSE
    /\ UNCHANGED <<params, endian, out>>

\* field.value read on an ArrayDataField: the stored list itself.
GetArrayValue ==
    /\ value # AUTO
    /\ params.maxSize > 1
    /\ alias' = TRUE
    /\ UNCHANGED <<params, value, endian, out>>

\* field.to_bytes(): AssertionError on AUTO, DataValueError when an
\* element does not fit the type.
FieldToBytes ==
    /\ out' = IF value = AUTO THEN Out("AssertionError", <<>>)
              ELSE IF ~Packable(value, Width(params)) THEN Out("DataValueError", <<>>)
              ELSE [kind |-> "bytes", bytes |-> ToBytes(value, Width(params), endian),
                    src |-> value, order |-> endian]
    /\ UNCHANGED <<params, value, alias, endian>>

\* endianness.set(e)
SetEndianness ==
    /\ \E e \in {"little", "big"} : endian' = e
    /\ UNCHANGED <<params, value, alias, out>>

Next ==
    \/ SetValue
    \/ SetAuto
    \/ GetArrayValue
    \/ FieldToBytes
    \/ SetEndianness

Spec == Init /\ [][Next]_vars

\* The caller mutates a list it passed to, or read from, the field.
CallerAppends ==
    /\ alias
    /\ value # AUTO
    /\ \E x \in Vals : value' = Append(value, x)
    /\ UNCHANGED <<params, alias, endian, out>>

\* A program that keeps and reuses its lists.
AliasingSpec == Init /\ [][Next \/ CallerAppends]_vars

-----------------------------------------------------------------------------
(* Properties *)

TypeOK ==
    /\ params \in FieldParams
    /\ value \in Seq(Int) \cup {AUTO}
    /\ alias \in BOOLEAN
    /\ endian \in {"little", "big"}
    /\ out \in [kind : {"none", "bytes", "AssertionError", "DataValueError"},
               bytes : Seq(Byte), src : Seq(Int), order : {"little", "big"}]

\* The field invariant the serializer relies on: a field holds between
\* min_size and max_size elements, and exactly max_size when its size is
\* fixed.
ElementCountInBounds ==
    value # AUTO =>
        /\ params.minSize <= Len(value)
        /\ Len(value) <= params.maxSize
        /\ ~HasVariableSize(params) => Len(value) = params.maxSize

\* Assigning the bytes the last to_bytes returned to a field with the same
\* parameters, in the byte order they were packed in, gives back the list
\* that was packed.
DecodeEncodeRoundTrip ==
    out.kind = "bytes" =>
        SetResult([kind |-> "bytes", val |-> out.bytes], params, out.order)
            = [ok |-> TRUE, val |-> out.src]

=============================================================================
