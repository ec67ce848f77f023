# TLA+ models of the TROPIC01 verification library (ts-tvl)

This directory holds the formal models kept beside `src/tvl`. They are TLA+
modules checked with TLC, plus the proofs that TLAPS checks. The Python
package is a functional model of the TROPIC01 secure element. A host drives
it through an SPI byte interface, `BaseModel.spi_send`. The SPI layer (L1)
hands each complete frame to `BaseModel.process_input`. That method parses
the L2 request, checks its CRC and dispatches it to the handler registered
for its type. The handlers for Encrypted_Cmd decrypt an L3 command under the
secure channel session, check the access privileges of the session's pairing
key against the UAP configuration registers, execute the command and
encrypt its result.

## 1. Inventory

| Part | Source | State | Operations | Interacts with |
|---|---|---|---|---|
| Data fields | `messages/datafield.py` | `params`, `_value` (a list or AUTO) | `__set__` (int, bytes or list; length check; padding), `__get__`, `to_bytes`, `__len__`, `Params.__post_init__` | Byte order; every message |
| Byte order | `messages/endianness.py` | process-wide `_endianness` | `set`, `get`, `fmt` | `to_bytes` and the parsing of bytes |
| L2 message layouts | `api/l2_api.py` 23-204 | none (declarative) | none | Data fields |
| L2API handlers | `api/l2_api.py` 207-307 | none | every handler raises NotImplementedError | Handler registry |
| Handler registry | `targets/model/meta_model.py` | the singledispatchmethod registries | `MetaModel.__new__`, `base`, `api`, `_log_processing` | BaseModel, L2API and its subclasses |
| BaseModel | `targets/model/base_model.py` | session, `pairing_key_slot`, `_config`, `command_buffer`, `spi_fsm`, registers | `process_input`, `_process_input`, `config`, `check_access_privileges`, `invalidate_session`, `encrypt_result`, `decrypt_command`, `power_off` | everything |
| Session, command buffer, SPI FSM, pairing keys, configuration objects, Tropic01Model handlers | not under `src/` | as described in spec.md §3-§4 | handshake, abort, resend, L3 commands, the L1 FSM | BaseModel |
| Configuration file model | `configuration_file_model.py` | none | pydantic parsing | model construction |
| Server logging | `server/logging_utils.py` | loggers | set-up | none |

The system is single-threaded (spec §5). Its hard behaviours are therefore
not thread interleavings. They come from:

- sequences of requests that reach a state nobody wrote a test for: an abort
  or handshake in the middle of a session, a replayed ciphertext, or a
  power-off between requests;
- state cached in one request and used in a later one: `_config`, the Resend
  buffer, the recorded pairing key slot;
- exceptions that escape `_process_input`, which catches only
  L2ProcessingError;
- Python object semantics: lists that are aliased instead of copied, a
  dispatcher object shared by a class hierarchy, and a process-wide byte order;
- byte-level conversions at their boundaries: width, padding and the
  per-byte fallback when bytes are parsed.

## 2. Modules

| Module | Models | Kind |
|---|---|---|
| `TropicModel` | BaseModel request processing, with the session, Resend buffer, pairing keys, UAP registers and config cache | component |
| `MCTropicModel` | instance: 2 slots, 2 bits, 2 handshakes, 2 commands per session | MC |
| `TropicModelProofs` | TLAPS proofs about `TropicModel` | proofs |
| `DataField` | one message field under the global byte order | component |
| `MCDataField` | instance: four field shapes, a few values, lists and byte strings | MC |
| `MetaModel` | the creation of model classes and the registration of their handlers | component |
| `MCMetaModel` | the class chain L2API, Tropic01Model, DebugModel; and a chip model adding a handler under a name of its own | MC |
| `L2Dispatch` | `_process_input` on the registry MetaModel builds, with the L2Enum table and the L2API stubs | component (extends MetaModel) |
| `MCL2Dispatch` | L2API and a chip model implementing the five requests TropicModel models | MC |
| `L2Requests` | the L2 request frames a host can send and the handler `process_input` runs for each (`Dispatch`) | component (extends TropicModel) |
| `HostExchange` | what the chip promises a host, one logical request at a time | abstract specification (extends L2Requests) |
| `SpiTropic` | the SPI transport and a host driving it, composed with `TropicModel` | component (extends L2Requests) |
| `MCSpiTropic` | frames of 2 bytes, responses of 2 chunks, busy schedule `<<TRUE, FALSE>>`, 2 faults, 3 ciphertexts | MC |
| `SpiTropicProofs` | TLAPS proofs about `SpiTropic`: its invariant, and the projection on `TropicModel` | proofs |
| `SpiRefinementProofs` | TLAPS proofs that `SpiTropic` is well typed and implements `Exchange` | proofs |
| `DataFieldProofs` | TLAPS proofs of the DataField element-count and type invariants | proofs |

### TropicModel

Each action is one call of `process_input` that runs to its response, or a
power-off.

| Action | Code | What it does |
|---|---|---|
| `RejectFrame(fault)` | `_process_input` 347-365 | returns CRC_ERR, UNKNOWN_REQ or CRC_ERR (malformed) before any handler runs |
| `GetInfo` | handler (spec) | returns REQ_OK; no state change |
| `Handshake(slot)` | handler (spec) | opens a session on a slot that holds a key, with fresh key material (`epoch + 1`, nonce 0, slot recorded); otherwise `invalidate_session` and GEN_ERR. `slot` ranges one past the last slot |
| `EncryptedSessionAbt` | handler (spec) | `invalidate_session` |
| `Resend` | command buffer (spec §4.4) | returns the buffered response, or GEN_ERR when the buffer is empty |
| `EncryptedCmd(ct)` | `decrypt_command`, `config`, `check_access_privileges`, `process_l3_command`, `encrypt_result`, and the `try` of `_process_input` 366-371 | see below |
| `PowerOff` | `_process_power_off` 412-416 | `invalidate_session`, buffer reset, `_config = None` |

`EncryptedCmd(ct)` runs these steps in order:

1. It decrypts `ct`. A ciphertext is `[epoch, nonce, cmd]`: the key material
   it was sealed with, its sequence number and the L3 command inside.
   Decryption fails (GEN_ERR) unless the session is established and both
   numbers match.
2. It reads `config`, which caches `i_config & r_config` on a miss.
3. It runs `check_access_privileges` on the register that guards the command.
   - When no slot is recorded, the check raises `RuntimeError`. The model
     records this as an uncaught exception (`Uncaught`): only
     L2ProcessingError is caught at `_process_input` 368-371, so the
     exception leaves `process_input`.
   - When the slot's bit is clear, the result is UNAUTHORIZED.
4. Otherwise it executes the command: `PairingKeyWrite` or `IConfigWrite`
   (`ExecuteL3`). BaseModel's `process_l3_command` only raises
   NotImplementedError, and the chip model's L3 handlers are not under
   `src/`, so `ExecuteL3` is modelled from the spec.
5. It advances the nonce (`encrypt_result`) and buffers the response.

The register values are sets of bit indices, so `&` is intersection and
clearing bit `b` is set difference. The ghost variables are:

- `accepted`: every `(epoch, nonce)` the session has opened;
- `powerOnEff`: `i_config & r_config` at the last power-on.

### DataField

| Action | Code |
|---|---|
| `SetValue` | `ValueDescriptor.__set__`, which includes `_format_to_list`, the `max_size` check and the padding |
| `SetAuto` | `__set__` with AUTO |
| `GetArrayValue` | `__get__` of an ArrayDataField, which returns the stored list itself |
| `FieldToBytes` | `to_bytes`: AssertionError on AUTO, DataValueError on a value that does not fit, otherwise `struct.pack` |
| `SetEndianness` | `endianness.set` |

The byte conversions are modelled by what they do:

- `LittleBytes` and `PackElem` are `struct.pack` of a `w`-byte unsigned
  integer in either byte order. Byte `i` is `(x \div PlaceValue(i)) % 256`.
  `PlaceValue(i)` is `256 ^ (i - 1)`, written out for the eight byte
  positions of struct's B, H, I and Q formats. It has one `CASE` arm per
  position, with products for the values above 2^31, because TLC rejects
  larger literals and SMT evaluates `256 ^ n` only up to about 2^40.
- `UnpackElem` and `BigValue` are `struct.unpack`.
- `FormatToList` is the fallback of `_format_to_list`: bytes whose length
  is not the element width are unpacked one element per byte.

The variable `alias` records that the caller still holds the stored list.
This is true after a list was assigned or read through the array getter.
`CallerAppends` is a caller that appends to that list, and `AliasingSpec`
adds it to the next-state relation.

### MetaModel

Classes form a tree under BaseModel (`Root`). `MetaModel.__new__` for a
class whose parent exists is three actions, as its code runs:

1. `StartClass`: the MRO walk (`Mro`, the recursive function `Up`)
   collects the base method (`Dispatcher`: the most derived class declaring
   `@base`) and `api_over`, the set of overload names (`OverNames`).
2. `RegisterOverload`, once per name, in any order: the set is iterated in
   string-hash order, which Python randomises per process. For the name `n`
   it registers `getattr(new_cls, n)` (`Owner`: the most derived class
   defining `n`) for each type of `n` (`NameTypes`: the explicit types of
   `@api`, or the annotated one), replacing what that dispatcher held.
3. `FinishClass`: `__new__` returns.

`DispatchL2(c, t)` is what `self.process_l2_request(request)` runs on an
instance of `c`. `DispatchFollowsMro` is checked between class creations
(`building = {}`).

### L2Dispatch

`L2Dispatch` extends MetaModel with `outcome`, what the last
`process_input` returned or raised. `ProcessInput` is `_process_input` for
an instance of a created chip model (BaseModel and L2API are only bases):

1. a bad CRC gives CRC_ERR;
2. an identifier outside `L2Enum` (`l2_api.py` 24-45) gives UNKNOWN_REQ;
3. a payload that does not parse gives CRC_ERR;
4. otherwise `process_l2_request` runs the registered function. The base
   method and the generated L2API stubs raise NotImplementedError, which is
   not an L2ProcessingError and leaves `process_input`. A chip model's own
   handler ends with a response or an L2ProcessingError, turned into a
   status.

### SpiTropic

`SpiTropic` extends `TropicModel`, through `L2Requests`, with the transport
and the host. `L2Requests` holds the request frames (`Requests`) and
`Dispatch(r)`, the handler `process_input` 324-345 runs on a complete
frame `r`; the abstract specification `HostExchange` shares them. The FSM
(`internal/spi_fsm`, not under `src/`) is modelled from spec §4.3; the
BaseModel entry points that drive it are modelled from the source.

| Action | Code | What it does |
|---|---|---|
| `HostStart(r)` | host | the host picks its next logical request |
| `SpiCsnLow` | `spi_drive_csn_low` 285-287 | IDLE to RECEIVING; the host sends its request, or a Resend when the chip already processed it |
| `SpiReceive` | `spi_send` 301-322 | one byte; the last one runs `process_input` (`Dispatch`, a step of `TropicModel`'s `Next`) |
| `SpiPoll` | FSM (spec) | a poll while PROCESSING, answered busy or not by the next entry of the cyclic busy schedule |
| `SpiSendChunk` | FSM (spec) | one chunk of the response; the last one is what the host reads |
| `SpiCsnHigh` | `spi_drive_csn_high` 289-291 | back to IDLE; the partial frame is dropped. Before the host read the response, it is an abort (a fault) |
| `SpiPowerOff` | `power_off` 410-416 | `_process_power_off`, including `spi_fsm.reset()` |

The host recovers the way the L2 protocol intends. It re-sends a request
the chip never completed, and asks for Resend when it lost a response.
Aborts and power-offs together are bounded by `MaxFaults`. Two history
variables serve the properties:

- `answer` is the response `process_input` produced for the host's own
  request;
- `mixed` records a frame spliced from bytes of two chip-select windows.

`SpiTropic` is shown to implement an abstract specification.

- `Exchange == INSTANCE HostExchange WITH ...` is what the host relies on.
  `HostExchange` has the core variables and three of its own: the host's
  logical request `pending`, the response the chip produced for it
  `result`, and the response the host received `delivered`. Its actions
  are `Request(r)`, `Process` (one `Dispatch(pending)`, whose response
  becomes `result`), `Retransmit` (a `Resend` that returns `result` and
  changes nothing else), `Deliver`, `Done` and `Crash` (a `PowerOff`).
  The refinement mapping is `pending <- hostReq`,
  `result <- IF processed /\ hostReq # None THEN answer ELSE None` and
  `delivered <- hostGot`.

Under this mapping:

| SPI step | HostExchange step |
|---|---|
| `HostStart(r)` | `Request(r)` |
| the completion of the host's own frame | `Process` |
| the completion of a Resend frame after the request was processed | `Retransmit` |
| the last response chunk | `Deliver` |
| `SpiCsnHigh` after the host read its response | `Done` |
| `SpiPowerOff` | `Crash` |
| `SpiCsnLow`, `SpiPoll`, the other bytes and chunks, an abort | stutter |

So each logical request is executed once, however many times it is framed,
and a retry after a lost response executes nothing again. A host that
re-frames its request instead of asking for a Resend (`SpiCsnLowRepeat`)
breaks the refinement: the request runs twice.

## 3. Runs

| Run | Checks | Result |
|---|---|---|
| `tropic_core` (`MCTropicModel.cfg`) | `TypeOK`, `SessionSlotConsistent`, `NoUncaughtException`, `AcceptedAreSpent`, `ConfigCacheIsPowerOnConfig`, `UapEnforced`, `WriteNeedsFreshCiphertext` | pass: 421,072 distinct states, about 1 minute |
| `datafield_codec` (`MCDataField.cfg`) | `TypeOK`, `ElementCountInBounds`, `DecodeEncodeRoundTrip` | pass |
| `datafield_u16_roundtrip` (`MCDataFieldU16Array.cfg`) | `DecodeEncodeRoundTrip` on a fixed U16 array of 2 elements | violation |
| `datafield_aliasing` (`MCDataFieldAliasing.cfg`, `AliasingSpec`) | `ElementCountInBounds` | violation |
| `metamodel_shared_dispatch` (`MCMetaModel.cfg`) | `DispatchFollowsMro` | violation |
| `metamodel_two_names` (`MCMetaModelTwoNames.cfg`) | `DispatchFollowsMro`, with a chip model that declares its own `@base` and adds `handler` for Handshake | violation |
| `l2_stub_escapes` (`MCL2Dispatch.cfg`) | `NoErrorEscapes` | violation |
| `spi_transport` (`MCSpiTropic.cfg`) | `SpiTypeOK`, `HostGetsItsAnswer`, `HostProgress`, `ImplementsExchange` | pass: 270,310 distinct states, about 40 seconds |

What the properties say:

- **`SessionSlotConsistent`**: a pairing key slot is recorded exactly while
  a session is established.
- **`NoUncaughtException`**: no request sequence makes
  `check_access_privileges` meet a decrypted command with no slot recorded.
- **`AcceptedAreSpent`**: every ciphertext ever opened belongs to an older
  key epoch, to an older nonce of the current session, or to a closed
  session. So no ciphertext is executed twice, across aborts, re-handshakes
  and power-offs.
- **`ConfigCacheIsPowerOnConfig`**: the cached configuration is always the
  one the registers gave at the last power-on, even after I_Config_Write has
  cleared bits of `i_config`.
- **`UapEnforced`** (an action property): with encryption on, a pairing key
  or `i_config` changes only in a step taken by a session whose slot bit is
  set in the guarding register of the power-on configuration.
- **`WriteNeedsFreshCiphertext`** (an action property): with encryption
  on, a step that changes a pairing key or `i_config` opens a ciphertext
  that no earlier step opened. A replayed command, or a second command under
  a sequence number `encrypt_result` failed to advance, never takes effect.
- **`HostGetsItsAnswer`**: a response the host finishes reading is the one
  `process_input` produced for its own request. It must survive aborts in
  the middle of a frame, lost responses recovered by Resend, and power-offs.
- **`HostProgress`** (liveness): a request the host started is eventually
  answered, unless a power-off drops it. It holds only for busy schedules
  that hold a non-busy entry. The schedule is an injected test input, and a
  schedule of TRUE only stalls every request by construction, so no run
  checks one.
- **`ImplementsExchange`** (refinement): every behaviour of `SpiSpec` is a
  behaviour of `Exchange!HSpec`, under the mapping above.
- **`NoErrorEscapes`**: spec §7's dispatcher boundary. Every handler error
  becomes a response.
- **`ElementCountInBounds`**: the spec §3 field invariant.
- **`DecodeEncodeRoundTrip`**: assigning the bytes of `to_bytes` back gives
  the list that was packed. This is spec §8 for fixed fields, and it is
  checked for variable fields too.

Each property of a passing run has a mutant in `PROJECT.json`: a plausible
bug in the mapped code that TLC finds. Examples are testing the bits of the
slot number instead of its bit, not advancing the nonce, keeping `_config`
on power-off, and padding one element short.

**Bounds.** `tropic_core` uses 2 slots and 2 register bits. This is enough
for a slot to be authorized in one register and not in the other. With 2
handshakes, old-session ciphertexts exist. With 2 commands per session, a
command can replay an earlier one. Every argument range goes one past its
valid values (slot `NbSlots`, bit `BitWidth`, an unknown address), so the
error paths run. The initial state ranges over every pairing key state and
every register value.

`MCDataField` covers:

- the shapes U8 scalar, U16 scalar, U8 array of 0 to 3 elements, and fixed
  U8 array of 2;
- the values -1, 0, 1 and 256, which lie on both sides of both widths;
- lists that are too long, too short and exact;
- byte strings of 0 to 4 bytes.

`MCSpiTropic` uses frames of 2 bytes, which is the least that lets an abort
fall in the middle of a frame. Responses of 2 chunks let an abort fall in
the middle of a response. `MaxFaults = 2` allows an abort followed by a
power-off, or two aborts, within one request. Its three ciphertexts are one
Pairing_Key_Write, one I_Config_Write and a second command of the session.

**Fairness.** `TropicModel` assumes none: every request is the host's
choice. `SpiSpec` assumes weak fairness of `SpiCsnLow`, `SpiReceive`,
`SpiPoll` and `SpiSendChunk`. That is a host that, once it has a request,
keeps driving the transport: it lowers chip select, sends the frame, polls
and reads the response, as a test driver loops until it gets an answer.
Nothing is fair about `HostStart`, `SpiCsnHigh` and `SpiPowerOff`: the host
may stop, abort or power off, and `MaxFaults` bounds the last two.

## 4. Proofs

### TropicModelProofs

The proofs hold for every value of the constants allowed by the assumptions
`NbSlotsAssumption`, `BitWidthAssumption`, `BoundsAssumption`,
`EncryptionAssumption` and `NoneAssumption` (None is neither a
configuration nor a response).

- **`TypeCorrect`**: `Spec => []TypeOK`. It rests on one lemma per action,
  and on lemmas about `ExecuteL3`, `Config`, `Reply` and
  `InvalidateSession`.
- **`SafetyInvariant`**: `Spec => []IInv`. `IInv` is the conjunction of
  `TypeOK`, the four state properties above and `CacheFresh`. `CacheFresh`
  says that while nothing is cached, `i_config & r_config` still equals the
  power-on value. It is needed because `ConfigCacheIsPowerOnConfig` alone is
  not inductive: a cache miss must compute the power-on value. The invariant
  holds because every command that can clear a bit reads the configuration
  first, and so fills the cache. `NoUncaughtException` in turn needs
  `SessionSlotConsistent`: decryption succeeds only in an established
  session, which therefore has a slot.
- **`SlotConsistent`**, **`CacheIsPowerOn`**, **`NoUncaught`** and
  **`ReplayFree`** are the properties of `IInv`, one by one.
- **`UapEnforcedTheorem`**: `Spec => UapEnforced`. It follows from `IInv`:
  the configuration read in a step is `powerOnEff`. A further lemma,
  `ExecuteL3Frame`, shows that an L3 command changes only the state that its
  guarding register protects.

- **`FreshCiphertextTheorem`**: `Spec => WriteNeedsFreshCiphertext`. It
  also follows from `IInv`. A step that writes is an `EncryptedCmd` whose
  ciphertext `decrypt_command` opened, so its `(epoch, nonce)` is the
  session's current one. `AcceptedAreSpent` says that no accepted pair is
  current in an established session, so the pair is new to `accepted`.

`IInv` was checked with TLC on the `tropic_core` instance before it was
proved.

### SpiTropicProofs

These add `TransportAssumption` (positive frame length and chunk count),
`ScheduleAssumption` and `RequestsAssumption`. `ScheduleAssumption` asks
for a non-empty list of Booleans. The configuration file's
`Optional[List[StrictBool]]` also admits the empty list, which the model
leaves out, because a cyclic schedule needs at least one entry.

The lemma `NextRefines` shows that each transport step leaves the core
variables unchanged, and that a frame completion is a step of `Next`. The
lemma `DispatchNext` shows the last part for each kind of request.
`NextSInv` uses `NextRefines` to carry `IInv` across SPI steps. No
theorem states `SpiSpec => Spec` on its own: the SPI actions are built from
`TropicModel`'s actions, so that statement holds by construction and says
nothing about the code.
- **`AnswerTheorem`**: `SpiSpec => []HostGetsItsAnswer`. The inductive
  invariant is `SInv == IInv /\ HInv`. `HInv` says:
  - no frame is spliced;
  - an IDLE FSM holds no partial frame;
  - a frame being received is the host's request, or a Resend once the chip
    processed it;
  - while processing or sending, the outbound response is `answer`;
  - once the request is processed, `answer` is what the command buffer
    holds (`Buffered`).

  The last conjunct is what makes a Resend after a lost response return
  `answer`. `IInv` is needed because a frame completion must not raise
  (`NoUncaughtException`), and so must produce a response.
  `DispatchBuffer` shows what each request leaves in the buffer.

`HInv /\ IInv` was checked with TLC on the `spi_transport` instance first.
The conjunct `hostGot # None => fsm = "SENDING" /\ tx = NbChunks` is what
the exchange refinement needs: a last chunk is sent only when the host holds
no response yet.

### SpiRefinementProofs

- **`ExchangeRefinement`**: `SpiSpec => ImplementsExchange`. The lemmas
  `ExchangeInitIsInit`, `ExchangeResendIsResend`,
  `ExchangePowerOffIsPowerOff`, `ExchangeInBounds` and `ExchangeDispatch`
  unfold the instance `Exchange`. `InitExchange` maps the initial state.
  `NextExchange` maps every step, from `SInv`, with one case per SPI action
  as in the table of section 2. These are the invariant facts it uses:
  - a frame completes only for a pending request, with no response yet
    delivered;
  - the completed frame is the host's request before processing, and a
    Resend after it (`HInv`);
  - the Resend returns `Buffered(cmdBuf)`, which is `answer`
    (`DispatchBuffer`, `HInv`) and never None (`BufferedNotNone`);
  - `NoUncaughtException` holds in the next state, which `DispatchBuffer`
    needs;
  - a last chunk finds `hostGot = None` and `txResp = answer`.

### DataFieldProofs

These use the module's assumptions on `FieldParams`, `Vals`,
`ListInputs` and `BytesInputs`.

- **`ElementCountTheorem`**: `Spec => []ElementCountInBounds`, for every
  set of parameters, values, lists and bytes. The inductive invariant `LInv`
  adds three facts to the property:
  - the parameters are ones `Params.__post_init__` accepts;
  - the byte order is one of the two;
  - a stored value is a sequence, of integers or of elements unpacked from
    an assigned bytes object.

  The operator lemmas are these:
  - `PadProperties`: `Pad(lst, n)` has length `max(Len(lst), n)`;
  - `FormatToListType`: `_format_to_list` returns a sequence;
  - `SetResultInBounds`: a value `__set__` accepts fits the field.

  `LInv` was checked with TLC on the `datafield_codec` instance first.
- **`DataFieldTypeCorrect`**: `Spec => []TypeOK`, for every set of
  parameters, values, lists and bytes. `TypeOK` is inductive as it stands
  (`InitTypeOK`, `NextTypeOK`). What it needs is that every element
  `_format_to_list` unpacks from bytes is an integer. The lemmas are these:
  - `LeastNat`: a non-empty set of naturals has a least element. It comes
    from `WFMin` and `NatLessThanWellFounded` of WellFoundedInduction.
  - `AccExists` and `AccNat`: TLAPS reads the recursive function `acc` of
    `BigValue` as `CHOOSE f : AccFix(f, bs, Len(bs))`, where `AccFix` is its
    defining equation. `AccExists` shows that such a function exists on
    every prefix `0 .. n`. `AccNat` shows that all its values are naturals.
    Both take the least `n` for which the claim fails and derive a
    contradiction. This replaces an induction rule with an operator
    parameter, which the provers cannot instantiate.
  - `BigValueNat` and `UnpackElemNat`: `struct.unpack` gives a natural, in
    either byte order. `ElemsInt`: hence `Elems \subseteq Int`.
  - `PlaceValuePositive`, `PackElemType`, `ToBytesIndex` and `ToBytesType`:
    every byte `struct.pack` writes is in `0 .. 255`. Byte `k` of
    `to_bytes` comes from an element of the list and a byte position inside
    that element.
  - `WidthType` and `SetResultType`: the width is 1, 2, 4 or 8, and what
    `__set__` stores is a list of integers.

### What only TLC checks

- **`HostProgress`**, and any liveness property. TLAPS cannot reason about
  ENABLED or about liveness under fairness.
- **DataField's `DecodeEncodeRoundTrip`**. It is false for some field
  parameters (finding 2), so it has no theorem. Even where it holds,
  stating it needs the value `BigValue` computes for every byte sequence,
  that is, that unpacking inverts `ToBytes` digit by digit. Only the type of
  `BigValue` is proved (`BigValueNat`). Its value would need an induction
  over the digits that relates `acc` to the place values, and that is not
  proved here.
- **The MetaModel and L2Dispatch properties** are not proved: the code
  violates `DispatchFollowsMro` and `NoErrorEscapes` (findings 1, 4 and 5),
  and their runs show the counterexamples.

## 5. Findings

1. **Shared dispatcher (`meta_model.py:69`).** Overloads are registered into
   the one `singledispatchmethod` stored in BaseModel, which every subclass
   shares. Creating a subclass that overrides a handler (Tropic01Model over
   L2API, or a debug model over Tropic01Model) redirects the requests of
   instances of the parent class to the subclass's function. TLC finds this
   in 9 states, once the second class is complete. A Python run with two such classes shows the same.
2. **No round trip for multi-element wide arrays (`datafield.py:141`).** The
   bytes of a fixed U16 array of 2 elements are re-parsed as 4 UINT8
   elements, and the assignment raises ListTooLongError. Spec §8 says
   `decode(encode(x)) == x`.
3. **Aliasing (`datafield.py:185`).** The list is stored without a copy and
   the array getter returns it. Appending to the list later grows the field
   past `max_size`, which breaks the spec §3 invariant.

4. **Set order decides the handler (`meta_model.py:64`).** `api_over` is
   a set of names. When a chip model handles a request type under a new
   name, as L2API's docstring (`def handler(...)`) invites, the inherited
   L2API stub of that type is registered too. In the iteration orders that
   register the stub last, requests of that type raise NotImplementedError.
   The order depends on string hashing and changes between runs.
5. **NotImplementedError escapes `process_input` (`base_model.py:370`).**
   Only L2ProcessingError is caught. A well-formed Sleep, Startup, Get_Log
   or firmware-update request that the chip model does not override reaches
   the L2API stub, and its NotImplementedError propagates to the SPI FSM.
   Spec §7 says no error may escape to the transport.
A point of reading: spec §4.7 says a register write invalidates the cached
configuration, while §3 says the cache lasts until power-off. Under `src/`,
`_config` is reset only in `_process_power_off`, and the model follows the
code.

## 6. Not modelled, and next steps

- **The FSM's byte-level framing** (the length byte, the CRC bytes, the
  chip status byte and chunks of a multi-frame response) is abstracted to a
  frame of `FrameLen` bytes and a response of `NbChunks` chunks.
- **The message layouts and framing** (`from_bytes` and CRC) are not under
  `src/` beyond the declarations. The handlers of Sleep, Startup, Get_Log
  and the firmware update are not under `src/`, and L2Dispatch abstracts
  them to their outcome.
- **The configuration file and logging** are pure parsing and output;
  only `busy_iter` is modelled, as the `Schedule` constant.
- **The process-wide byte order** is modelled in DataField, where
  `DecodeEncodeRoundTrip` parses in the order the bytes were packed in.
  Parsing after `endianness.set` of the other order is a caller's choice,
  and no property is stated about it.
