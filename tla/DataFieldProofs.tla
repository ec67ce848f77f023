--------------------------- MODULE DataFieldProofs ---------------------------
(***************************************************************************)
(* The element-count invariant and the type invariant of DataField for   *)
(* every set of parameters, values, lists and bytes.  The type invariant  *)
(* needs the elements unpacked from bytes to be integers: BigValue is a   *)
(* recursive function over the bytes, and what it returns is shown to be a *)
(* natural by least-counterexample arguments on its accumulator.          *)
(***************************************************************************)
EXTENDS DataField, SequenceTheorems, WellFoundedInduction, TLAPS

USE FieldParamsAssumption, ValsAssumption, ListInputsAssumption,
    BytesInputsAssumption

\* Whatever an element of a stored list is: an integer given by the caller,
\* or the element _format_to_list unpacked from a bytes object assigned.
Elems == Int \cup {UnpackElem(bs, e) : bs \in BytesInputs, e \in {"little", "big"}}

\* The inductive invariant behind ElementCountInBounds: the parameters are
\* ones Params accepted and a stored value is a list of such elements.
LInv ==
    /\ params \in FieldParams
    /\ endian \in {"little", "big"}
    /\ value \in Seq(Elems) \cup {AUTO}
    /\ ElementCountInBounds

-----------------------------------------------------------------------------
(* Padding *)

\* Zero padding up to n elements gives a list of length max(Len(lst), n)
\* that keeps lst as its prefix.
LEMMA PadProperties ==
    ASSUME NEW S, 0 \in S, NEW lst \in Seq(S), NEW n \in Nat
    PROVE  /\ Pad(lst, n) \in Seq(S)
           /\ Len(Pad(lst, n)) = IF n > Len(lst) THEN n ELSE Len(lst)
<1>1. CASE n - Len(lst) > 0
  <2>1. [i \in 1 .. n - Len(lst) |-> 0] \in Seq(S)
    <3>1. n - Len(lst) \in Nat
      BY <1>1, LenProperties
    <3>. QED
      BY <3>1, IsASeq
  <2>2. Len([i \in 1 .. n - Len(lst) |-> 0]) = n - Len(lst)
    BY <1>1, LenProperties
  <2>. QED
    BY <1>1, <2>1, <2>2, ConcatProperties, LenProperties DEF Pad
<1>2. CASE ~(n - Len(lst) > 0)
  BY <1>2, LenProperties DEF Pad
<1>. QED
  BY <1>1, <1>2

\* What _format_to_list returns is a list of elements.
LEMMA FormatToListType ==
    ASSUME NEW in \in Inputs, NEW p \in FieldParams, NEW e \in {"little", "big"}
    PROVE  FormatToList(in, p, e) \in Seq(Elems)
<1>1. CASE in.kind = "int"
  <2>1. in.val \in Int
    BY <1>1 DEF Inputs
  <2>. QED
    BY <1>1, <2>1 DEF FormatToList, Elems
<1>2. CASE in.kind = "list"
  <2>1. in.val \in Seq(Vals)
    BY <1>2 DEF Inputs
  <2>2. Vals \subseteq Elems
    BY DEF Elems
  <2>. QED
    BY <1>2, <2>1, <2>2, SeqMonotonic DEF FormatToList
<1>3. CASE in.kind = "bytes"
  <2>1. in.val \in Seq(Byte)
    BY <1>3 DEF Inputs
  <2>2. in.val \in Seq(Elems)
    <3>1. Byte \subseteq Elems
      BY DEF Elems, Byte
    <3>. QED
      BY <2>1, <3>1, SeqMonotonic
  <2>3. UnpackElem(in.val, e) \in Elems
    BY <1>3 DEF Elems, Inputs
  <2>. QED
    BY <1>3, <2>1, <2>2, <2>3 DEF FormatToList
<1>. QED
  BY <1>1, <1>2, <1>3 DEF Inputs

\* A value __set__ accepts fits the field: between min_size and max_size
\* elements, exactly max_size when the size is fixed.
LEMMA SetResultInBounds ==
    ASSUME NEW in \in Inputs, NEW p \in FieldParams, NEW e \in {"little", "big"},
           SetResult(in, p, e).ok
    PROVE  LET v == SetResult(in, p, e).val IN
           /\ v \in Seq(Elems)
           /\ p.minSize <= Len(v)
           /\ Len(v) <= p.maxSize
           /\ ~HasVariableSize(p) => Len(v) = p.maxSize
<1>. DEFINE lst == FormatToList(in, p, e)
<1>1. lst \in Seq(Elems) /\ Len(lst) \in Nat
  BY FormatToListType, LenProperties
<1>2. Len(lst) <= p.maxSize /\ SetResult(in, p, e).val = Pad(lst, MinLength(p))
  <2>1. p.maxSize \in Nat
    BY DEF ValidParams
  <2>. QED
    BY <1>1, <2>1 DEF SetResult
<1>3. ValidParams(p) /\ MinLength(p) \in Nat
  BY DEF ValidParams, MinLength
<1>4. /\ Pad(lst, MinLength(p)) \in Seq(Elems)
      /\ Len(Pad(lst, MinLength(p)))
           = IF MinLength(p) > Len(lst) THEN MinLength(p) ELSE Len(lst)
  <2>1. 0 \in Elems
    BY DEF Elems
  <2>. QED
    BY <1>1, <1>3, <2>1, PadProperties
<1>. QED
  BY <1>1, <1>2, <1>3, <1>4 DEF ValidParams, MinLength, HasVariableSize

-----------------------------------------------------------------------------

LEMMA InitLInv == Init => LInv
<1>. SUFFICES ASSUME Init PROVE LInv
  OBVIOUS
<1>1. PICK in \in Inputs : SetResult(in, params, endian).ok
                           /\ value = SetResult(in, params, endian).val
  BY DEF Init
<1>. QED
  BY <1>1, SetResultInBounds DEF Init, LInv, ElementCountInBounds

LEMMA NextLInv == LInv /\ [Next]_vars => LInv'
<1>. SUFFICES ASSUME LInv, [Next]_vars PROVE LInv'
  OBVIOUS
<1>1. CASE SetValue
  <2>1. PICK in \in Inputs : /\ SetResult(in, params, endian).ok
                             /\ value' = SetResult(in, params, endian).val
                             /\ UNCHANGED <<params, endian>>
    BY <1>1 DEF SetValue
  <2>. QED
    BY <2>1, SetResultInBounds DEF LInv, ElementCountInBounds
<1>2. CASE SetAuto
  BY <1>2 DEF SetAuto, LInv, ElementCountInBounds
<1>3. CASE GetArrayValue
  BY <1>3 DEF GetArrayValue, LInv, ElementCountInBounds, HasVariableSize
<1>4. CASE FieldToBytes
  BY <1>4 DEF FieldToBytes, LInv, ElementCountInBounds, HasVariableSize
<1>5. CASE SetEndianness
  BY <1>5 DEF SetEndianness, LInv, ElementCountInBounds, HasVariableSize
<1>6. CASE UNCHANGED vars
  BY <1>6 DEF vars, LInv, ElementCountInBounds, HasVariableSize
<1>. QED
  BY <1>1, <1>2, <1>3, <1>4, <1>5, <1>6 DEF Next

\* Whatever ints, lists and bytes a program assigns, in whichever byte
\* order, a DataField holds between min_size and max_size elements, and
\* exactly max_size when its size is fixed (ValueDescriptor.__set__
\* rejecting long lists and padding short ones).
THEOREM ElementCountTheorem == Spec => []ElementCountInBounds
<1>1. Spec => []LInv
  BY InitLInv, NextLInv, PTL DEF Spec
<1>. QED
  BY <1>1, PTL DEF LInv

-----------------------------------------------------------------------------
(* struct.unpack: BigValue is a natural number.  Its accumulator acc is a  *)
(* recursive function over 0 .. Len(bs), that is a CHOOSE of a function    *)
(* satisfying its defining equation; AccFix is that equation.  The two     *)
(* inductions below (that such a function exists, and that its values are *)
(* naturals) go through the least counterexample.                          *)

AccFix(f, bs, n) ==
    f = [i \in 0 .. n |-> IF i = 0 THEN 0 ELSE f[i - 1] * 256 + bs[i]]

\* A non-empty set of naturals has a least element.
LEMMA LeastNat ==
    ASSUME NEW T \in SUBSET Nat, T # {}
    PROVE  \E m \in T : \A y \in T : ~(y < m)
<1>1. \E x \in T : \A y \in T : ~(<<y, x>> \in OpToRel(<, Nat))
  BY NatLessThanWellFounded, WFMin
<1>2. \A x, y \in Nat : <<y, x>> \in OpToRel(<, Nat) <=> y < x
  BY DEF OpToRel
<1>. QED
  BY <1>1, <1>2

\* The accumulator over the first n bytes exists.
LEMMA AccExists ==
    ASSUME NEW bs \in Seq(Byte), NEW n \in 0 .. Len(bs)
    PROVE  \E f : AccFix(f, bs, n)
<1>. DEFINE T == {k \in 0 .. Len(bs) : ~\E f : AccFix(f, bs, k)}
<1>. SUFFICES ASSUME n \in T PROVE FALSE
  OBVIOUS
<1>0. Len(bs) \in Nat
  BY LenProperties
<1>a. T \in SUBSET Nat /\ T # {}
  BY <1>0
<1>1. PICK m \in T : \A y \in T : ~(y < m)
  BY <1>a, LeastNat
<1>2. CASE m = 0
  <2>1. AccFix([i \in 0 .. 0 |-> 0], bs, 0)
    BY DEF AccFix
  <2>. QED
    BY <1>1, <1>2, <2>1
<1>3. CASE m # 0
  <2>1. m - 1 \in 0 .. Len(bs) /\ m - 1 \notin T
    BY <1>0, <1>1, <1>3
  <2>2. PICK g : AccFix(g, bs, m - 1)
    BY <2>1
  <2>. DEFINE h == [i \in 0 .. m |-> IF i < m THEN g[i] ELSE g[m - 1] * 256 + bs[m]]
  <2>3. \A i \in 0 .. m - 1 : g[i] = IF i = 0 THEN 0 ELSE g[i - 1] * 256 + bs[i]
    BY <2>2 DEF AccFix
  <2>4. \A i \in 0 .. m : h[i] = IF i = 0 THEN 0 ELSE h[i - 1] * 256 + bs[i]
    BY <1>0, <1>3, <2>1, <2>3
  <2>5. AccFix(h, bs, m)
    BY <2>4 DEF AccFix
  <2>. QED
    BY <1>1, <2>5
<1>. QED
  BY <1>2, <1>3

\* Every value of the accumulator is a natural number.
LEMMA AccNat ==
    ASSUME NEW bs \in Seq(Byte), NEW n \in 0 .. Len(bs), NEW f, AccFix(f, bs, n)
    PROVE  \A i \in 0 .. n : f[i] \in Nat
<1>. DEFINE T == {k \in 0 .. n : f[k] \notin Nat}
<1>. SUFFICES ASSUME T # {} PROVE FALSE
  OBVIOUS
<1>0. Len(bs) \in Nat /\ \A i \in 1 .. Len(bs) : bs[i] \in Byte
  BY LenProperties, ElementOfSeq
<1>1. \A i \in 0 .. n : f[i] = IF i = 0 THEN 0 ELSE f[i - 1] * 256 + bs[i]
  BY DEF AccFix
<1>a. T \in SUBSET Nat
  OBVIOUS
<1>2. PICK m \in T : \A y \in T : ~(y < m)
  BY <1>a, LeastNat
<1>3. CASE m = 0
  BY <1>1, <1>2, <1>3
<1>4. CASE m # 0
  <2>1. f[m - 1] \in Nat /\ bs[m] \in Byte
    BY <1>0, <1>2, <1>4
  <2>2. f[m] = f[m - 1] * 256 + bs[m]
    BY <1>1, <1>4
  <2>3. \A a \in Nat, b \in Byte : a * 256 + b \in Nat
    BY DEF Byte
  <2>4. f[m - 1] * 256 + bs[m] \in Nat
    BY <2>1, <2>3
  <2>5. f[m] \in Nat
    BY <2>2, <2>4
  <2>. QED
    BY <2>5
<1>. QED
  BY <1>3, <1>4

\* struct.unpack of a bytes object gives a natural number.
LEMMA BigValueNat ==
    ASSUME NEW bs \in Seq(Byte)
    PROVE  BigValue(bs) \in Nat
<1>. DEFINE acc == CHOOSE f : AccFix(f, bs, Len(bs))
<1>0. Len(bs) \in Nat
  BY LenProperties
<1>1. BigValue(bs) = acc[Len(bs)]
  BY DEF BigValue, AccFix
<1>2. AccFix(acc, bs, Len(bs))
  BY <1>0, AccExists
<1>. QED
  BY <1>0, <1>1, <1>2, AccNat

\* struct.unpack of an element, in either byte order, is a natural number.
LEMMA UnpackElemNat ==
    ASSUME NEW bs \in Seq(Byte), NEW e
    PROVE  UnpackElem(bs, e) \in Nat
<1>1. [i \in 1 .. Len(bs) |-> bs[Len(bs) + 1 - i]] \in Seq(Byte)
  <2>1. Len(bs) \in Nat /\ \A i \in 1 .. Len(bs) : bs[Len(bs) + 1 - i] \in Byte
    BY LenProperties, ElementOfSeq
  <2>. QED
    BY <2>1, IsASeq
<1>. QED
  BY <1>1, BigValueNat DEF UnpackElem

\* Every element a field stores is an integer.
LEMMA ElemsInt == Elems \subseteq Int
BY UnpackElemNat, BytesInputsAssumption DEF Elems

-----------------------------------------------------------------------------
(* struct.pack: every byte to_bytes writes is in 0 .. 255. *)

\* The place values of the bytes of an element of at most eight bytes.
LEMMA PlaceValuePositive == \A i \in 1 .. 8 : PlaceValue(i) \in Nat \ {0}
BY DEF PlaceValue

\* struct.pack of one element of at most eight bytes, in either byte
\* order, writes w bytes.
LEMMA PackElemType ==
    ASSUME NEW x \in Int, NEW w \in 1 .. 8, NEW e
    PROVE  PackElem(x, w, e) \in [1 .. w -> Byte]
<1>1. LittleBytes(x, w) \in [1 .. w -> Byte]
  <2>1. ASSUME NEW i \in 1 .. w PROVE (x \div PlaceValue(i)) % 256 \in Byte
    <3>1. i \in 1 .. 8
      OBVIOUS
    <3>2. PlaceValue(i) \in Nat \ {0}
      BY <3>1, PlaceValuePositive
    <3>3. \A y \in Int, d \in Nat \ {0} : (y \div d) % 256 \in 0 .. 255
      OBVIOUS
    <3>. QED
      BY <3>2, <3>3 DEF Byte
  <2>. QED
    BY <2>1 DEF LittleBytes
<1>2. \A i \in 1 .. w : w + 1 - i \in 1 .. w
  OBVIOUS
<1>. QED
  BY <1>1, <1>2 DEF PackElem

\* The element and the byte of it that byte k of to_bytes comes from.
LEMMA ToBytesIndex ==
    ASSUME NEW n \in Nat, NEW w \in {1, 2, 4, 8}, NEW k \in 1 .. n * w
    PROVE  /\ (k - 1) \div w + 1 \in 1 .. n
           /\ ((k - 1) % w) + 1 \in 1 .. w
<1>1. CASE w = 1
  BY <1>1
<1>2. CASE w = 2
  BY <1>2
<1>4. CASE w = 4
  BY <1>4
<1>8. CASE w = 8
  BY <1>8
<1>. QED
  BY <1>1, <1>2, <1>4, <1>8

\* DataField.to_bytes of a list of integers is a bytes object.
LEMMA ToBytesType ==
    ASSUME NEW v \in Seq(Int), NEW w \in {1, 2, 4, 8}, NEW e
    PROVE  ToBytes(v, w, e) \in Seq(Byte)
<1>0. Len(v) \in Nat /\ Len(v) * w \in Nat
  BY LenProperties
<1>1. ASSUME NEW k \in 1 .. Len(v) * w
      PROVE  PackElem(v[(k - 1) \div w + 1], w, e)[((k - 1) % w) + 1] \in Byte
  <2>1. (k - 1) \div w + 1 \in 1 .. Len(v) /\ ((k - 1) % w) + 1 \in 1 .. w
    BY <1>0, ToBytesIndex
  <2>2. v[(k - 1) \div w + 1] \in Int
    BY <2>1, ElementOfSeq
  <2>3. PackElem(v[(k - 1) \div w + 1], w, e) \in [1 .. w -> Byte]
    <3>1. w \in 1 .. 8
      OBVIOUS
    <3>. QED
      BY <2>2, <3>1, PackElemType
  <2>. QED
    BY <2>1, <2>3
<1>. QED
  BY <1>0, <1>1, IsASeq DEF ToBytes

-----------------------------------------------------------------------------
(* The type invariant.  With the elements unpacked from bytes known to be  *)
(* naturals, TypeOK is inductive as it stands.                             *)

\* The width of every field's type is one of struct's 1, 2, 4 or 8 bytes.
LEMMA WidthType ==
    ASSUME NEW p \in FieldParams
    PROVE  Width(p) \in {1, 2, 4, 8}
BY DEF Width, NbBytes, ValidParams, Dtypes

\* What __set__ stores is a list of integers.
LEMMA SetResultType ==
    ASSUME NEW in \in Inputs, NEW p \in FieldParams, NEW e \in {"little", "big"},
           SetResult(in, p, e).ok
    PROVE  SetResult(in, p, e).val \in Seq(Int)
<1>1. SetResult(in, p, e).val \in Seq(Elems)
  BY SetResultInBounds
<1>. QED
  BY <1>1, ElemsInt, SeqMonotonic

LEMMA InitTypeOK == Init => TypeOK
<1>. SUFFICES ASSUME Init PROVE TypeOK
  OBVIOUS
<1>1. PICK in \in Inputs : /\ SetResult(in, params, endian).ok
                           /\ value = SetResult(in, params, endian).val
                           /\ alias = (in.kind = "list")
  BY DEF Init
<1>2. value \in Seq(Int)
  BY <1>1, SetResultType DEF Init
<1>. QED
  BY <1>1, <1>2 DEF Init, TypeOK, NoOutput, Out

LEMMA NextTypeOK == TypeOK /\ [Next]_vars => TypeOK'
<1>. SUFFICES ASSUME TypeOK, [Next]_vars PROVE TypeOK'
  OBVIOUS
<1>1. CASE SetValue
  <2>1. PICK in \in Inputs : /\ SetResult(in, params, endian).ok
                             /\ value' = SetResult(in, params, endian).val
                             /\ alias' = (in.kind = "list")
                             /\ UNCHANGED <<params, endian, out>>
    BY <1>1 DEF SetValue
  <2>2. value' \in Seq(Int)
    BY <2>1, SetResultType DEF TypeOK
  <2>. QED
    BY <2>1, <2>2 DEF TypeOK
<1>2. CASE SetAuto
  BY <1>2 DEF SetAuto, TypeOK
<1>3. CASE GetArrayValue
  BY <1>3 DEF GetArrayValue, TypeOK
<1>4. CASE FieldToBytes
  <2>1. CASE value = AUTO \/ ~Packable(value, Width(params))
    BY <1>4, <2>1 DEF FieldToBytes, TypeOK, Out
  <2>2. CASE value # AUTO /\ Packable(value, Width(params))
    <3>1. value \in Seq(Int) /\ Width(params) \in {1, 2, 4, 8}
      BY <2>2, WidthType DEF TypeOK
    <3>2. ToBytes(value, Width(params), endian) \in Seq(Byte)
      BY <3>1, ToBytesType
    <3>. QED
      BY <1>4, <2>2, <3>1, <3>2 DEF FieldToBytes, TypeOK
  <2>. QED
    BY <2>1, <2>2
<1>5. CASE SetEndianness
  BY <1>5 DEF SetEndianness, TypeOK
<1>6. CASE UNCHANGED vars
  BY <1>6 DEF vars, TypeOK
<1>. QED
  BY <1>1, <1>2, <1>3, <1>4, <1>5, <1>6 DEF Next

\* Whatever a program assigns to a DataField, in whichever byte order, the
\* field holds AUTO or a list of integers, and every to_bytes returns a
\* bytes object (each byte struct.pack writes is in 0 .. 255) or raises
\* AssertionError or DataValueError.
THEOREM DataFieldTypeCorrect == Spec => []TypeOK
BY InitTypeOK, NextTypeOK, PTL DEF Spec

=============================================================================
