# TLA+ models of the seata-go protocol package

The repository is the protocol layer of seata-go: the messages that a
transaction manager (TM), a resource manager (RM) and a transaction
coordinator (TC) exchange, the codecs that turn them into octets and back, the
registry that finds a codec for a message type, and generated gRPC code for
the same messages. Everything that *uses* the layer (remoting, sessions,
transactions) is outside the repository, and so are the byte buffer
(`pkg/util/bytes`), the error codes (`pkg/util/errors`) and the transport.

## 1. Inventory

| Component | Source | State | Operations | What is hard |
|---|---|---|---|---|
| codec registry | `protocol/codec/codec.go` 43-86 | package variables `codecManager`, `onceCodecManager`; per manager a mutex and a map of maps | `GetCodecManager`, `RegisterCodec`, `GetCodec` | unsynchronised nil check before `sync.Once`; map writes under a mutex, map reads without one |
| start-up | `codec.go` 119-150 | none of its own | `Init`: 23 registrations in sequence | two Inits at once; lookups while an Init runs |
| frames | `codec.go` 88-117 | none | `Encode`, `Decode` (type code, then the codec's body) | a type without codec gives nil; a failed type assertion panics in some codecs and encodes a zero message in others |
| codecs | `protocol/codec/*_codec.go` | none | `Encode`, `Decode`, `GetMessageType` of 24 codecs (4 more are shared by embedding) | field order, length prefixes and cuts must agree between two hand-written functions |
| messages | `protocol/message` | none | `GetTypeCode` of 28 structs; constants; `NewMessageFuture` | numbering by `iota` with four gaps; two names for one number would be silent |
| branch and status constants | `protocol/branch`, `message/constant.go` | none | `String` | int8 constants that travel as one octet |
| generated protobuf files | `protocol/grpc/.../transaction/*.pb.go` (46, with 40 messages and 6 enums) | per file: descriptor, tables dropped after the build, compressed descriptor behind a `sync.Once`; per message: its fields and a pointer to its `MessageInfo` | `init`, `Descriptor`, `Reset`, `ProtoReflect`, getters, enum tables | initialisers that call each other across 46 files; tables and tags that must agree with a serialised descriptor; first use by several goroutines; a message used again |
| gRPC service stub | `grpcMessage_grpc.pb.go`, `grpc/constant.go` | none of its own; `Recv` allocates | `SendRequest`, `Send`, `Recv`, `CloseSend` at the client, the same and the handler's result at the server | both ends act at any time; the runtime below may lose the connection |
| connection | `protocol/connection` | none | an interface without implementation | - |

How they interact: a program calls `Init` once, before it opens connections;
`Init` calls `GetCodecManager().RegisterCodec` for each codec. From then on the
remoting code calls `Encode(CodecTypeSeata, msg)` to send and
`Decode(CodecTypeSeata, frame)` on what arrives, on any goroutine; both look
the codec up with `GetCodec`, without a lock. Nothing in the package prevents a
registration (another `Init`, a codec of another family) at that time.

What makes each component correct:

- registry: one manager ever; a registration is in the table when
  `RegisterCodec` returns and stays until a codec of the same type replaces it;
  a lookup answers with the registered codec of the asked family and type; no
  call blocks forever;
- start-up: after `Init` has returned, lookups are exact and the process cannot
  die of a map race unless `Init` is called again;
- frames and codecs: what `Decode` returns is what `Encode` was given (up to
  what the protocol drops by design), it reads the frame to its end, and no
  frame is ever read as another message;
- messages: each message has one type code, its codec declares the same one;
- generated files: (initialisation) a file is built after the files it imports and once only,
  its references mean what its descriptor says, initialisation ends, and
  whoever asks for a compressed descriptor gets one; (messages) what a peer
  sent is what the getters show, what is marshalled is what a peer reads, and a
  reflection handle stays usable;
- service stub: each end gets what the other one sent, in order, and keeps it;
  an end is told of a regular end only when it is one; nobody waits for an
  answer that the server has already refused.

The hazards, each at its line and with the properties that watch it, are
listed in `PROJECT.json`.

## 2. Modules

| Module | Models | Role |
|---|---|---|
| `Registry` | what the registry promises: one table, one kind of step | abstract specification |
| `CodecManager` | `GetCodecManager`, `RegisterCodec`, `GetCodec` as goroutines execute them | detailed specification; implements `Registry` |
| `CodecManagerProofs` | the inductive invariant and the theorems about `CodecManager` | proofs |
| `CodecStartup` | `Init` and the lookups after it, on top of `CodecManager` | composition |
| `CodecStartupProofs` | theorems about start-up, on those about the registry | proofs |
| `MessageTypes` | type codes, message structs, zero values | data |
| `ByteBuffer` | integers and length-prefixed strings as octets | external library |
| `ByteBufferProofs` | integers and strings come out as they went in | proofs |
| `SeataCodec` | all 24 codecs and the 4 shared ones, and `Init`'s list | pure operators |
| `SeataCodecProofs` | layouts that agree undo each other | proofs |
| `CodecLink` | `CodecManager.Encode` at one process, `Decode` at another, while both start up | composition |
| `CodecLinkProofs` | each of `Init`'s codecs is well made; theorems about `CodecLink` | proofs |
| `ProtoFiles` | imports, references, calls and index tables of the 46 generated files | data |
| `ProtoInit` | package initialisation from those tables, then `file_X_proto_rawDescGZIP` | protobuf bindings |
| `ProtoInitProofs` | theorems about initialisation and descriptors, for any files | proofs |
| `ProtoMessages` | fields, tags and schemas of the 40 messages, constants of the 6 enums | data |
| `ProtoMessage` | one such message, shared by goroutines: `ProtoReflect`, `Reset`, getters, under the protobuf runtime | protobuf bindings |
| `ProtoMessageProofs` | what is marshalled is what is read; handles outlive `Reset` | proofs |
| `DuplexStream` | what the two ends of `sendRequest` may count on: two queues | abstract specification |
| `GrpcStream` | the service stub at both ends, over the gRPC runtime | detailed specification; implements `DuplexStream` |
| `GrpcStreamProofs` | the refinement of `DuplexStream` | proofs |
| `MCCodecManager`, `MCCodecStartup`, `MCCodecLink`, `MCProtoInit`, `MCProtoAnyOrder`, `MCProtoMessage` | values for the constants; `MCProtoMessage` also compares the two bindings | model checking |

### CodecManager

A step is what a goroutine does between two points where another one can
interfere. `pc` names the points: `check` (the unsynchronised nil test),
`once`, `build`, `load` in `GetCodecManager`; `lock`, `makeInner`,
`assignOuter`, `storeCodec`, `assignInner`, `unlock` in `RegisterCodec`;
`getType`, `getCodec`, `found` in `GetCodec`. A map write is two steps, because
a Go map is not atomic: a reader that arrives between them dies ("concurrent
map read and map write"), or, since the runtime's detection is best effort,
reads the old value, the new one, or, when the write inserts a key, nothing.
Writers exclude each other by the mutex; that they do is the property
`WritersExclusive`, so the model has no "concurrent map writes" crash.

`codecManager = &CodecManager{codecMap: make(...)}` is two stores. Readers that
skip `Once` synchronise with neither, so on a weakly ordered machine they may
see the pointer without the map (constant `Reorder`). This is the only
reordering modelled; all other memory is sequentially consistent.

Heap objects are named by the goroutine that allocates them, which is exact:
a goroutine builds at most one manager, and one inner map per family.

### SeataCodec and CodecLink

A codec is a pair of layouts, one for each direction, written down separately
from the two functions in the source; `EncodeBody` and `DecodeBody` interpret
them. Strings are sequences of octets. What the external buffer returns when a
read runs past the end is not known here: the reader only notes that it
happened (`ok` is FALSE), and the properties require that it does not.

`CodecLink` gives each end a table that grows through `Init`'s registrations
(`CodecManager` refines exactly such a table), a sender that encodes values or
pointers, and a channel that keeps frames whole and in order. A pointer makes
the strict codecs panic (`in.(T)`) and the lenient ones (`data, _ := in.(T)`)
write a frame of the zero message; the properties expect that zero message and
so show that nothing else can be blanked.

The transport is not in the repository, so `ReceiveShort` also hands over
frames of no octet or one. `Decode` drops the error of its `ReadInt16` and goes
on with type code 0; no codec may have that type at any point of start-up, or
`in[2:]` panics.

`HasType` gives the fields their Go types, `Meaning` is what the protocol
carries of a message, and `Carries` says that `Decode` returned exactly that
and has nothing of the frame left. What the format can carry is in `Fits`:
names of fewer than 65536 octets, timeouts of fewer than 2^32 ms, error codes of
one octet (the Go type is wider), and rollback messages of fewer than 256
octets (see the findings). `FramesFaithful` holds exactly up to there. Beyond, lengths
and timeouts start over at 0, and nothing is claimed but `TimeoutInRange`.

### ProtoFiles and ProtoInit

Each generated file says what it is twice: in the serialised descriptor and in
Go tables. `ProtoFiles` has both, per file: imports and referred types read
out of the octets of `_rawDesc`, and the initialisers called, `_goTypes` and
`_depIdxs` read from the Go code. A type has the name of the file that declares
it. `ProtoInit` runs the init functions on one goroutine: `stack` holds the
nested initialisers, `CheckBuilt` is their guard (tested on entry only),
`CallImport` the calls, `Build` the `TypeBuilder` with what follows it. After
that, goroutines go through the `Once` of `file_X_proto_rawDescGZIP`.

### ProtoMessages and ProtoMessage

`ProtoMessages` lists each message twice: the Go fields in the order of the
numbers in their tags, and the fields of the schema as the serialised
descriptor has them. A definition stands for the struct and for the methods
generated from it. `ProtoMessage` takes one message of any type through these
methods as the protobuf runtime drives them: `proto.Unmarshal` takes a handle
(`LoadMessageInfo`, `StoreMessageInfo`), calls `Reset` (`Assign`,
`RestoreMessageInfo`: `*x = X{}` clears the message's own state before it is
stored again) and fills the fields *through that handle* (`FinishUnmarshal`).
Marshalling reads the struct by its tags; the peer reads by the schema. As the
runtime demands, nobody else works with the message during an Unmarshal, but
another goroutine may keep a handle across it.

A message is a function from paths of fields to the scalar fields of the struct
they lead to: `<<>>` is the message itself, and a path is in the domain when
none of its pointers is nil. On the wire the same paths are numbers. In the
runs a scalar is zero or one other value: a constant of its enum, or the name
of its field, so that a value in the wrong field shows; the proofs ask nothing
of the values. Lists, maps, octets and `Any` are scalars; `String` and builds
without `unsafe` are left out.

`MCProtoMessage` compares the two bindings of the protocol as assumptions
(`EnumsAgree`, `FieldsAgree`): message types, global and branch statuses have
the same numbers, and each request and response has the same fields (but for
the name of the exception code). Each side has numbers the other lacks: the
protobuf binding has no heartbeat type and no branch type XA, the other one no
`PhaseOne_RDONLY`.

### GrpcStream

One call of `sendRequest`. Of the stub: the stream descriptor with its two
flags, `SendRequest`, `Recv` in two steps (a new message, and the message or
the error of `RecvMsg`), `Send`, and the server that only embeds
`UnimplementedSeataServiceServer`. Of the runtime, from how the stub uses it:
it dispatches the call by name, keeps the messages of a direction in order,
carries the handler's result behind the server's messages, and may lose the
connection. What had arrived by then - messages, the half-close, the handler's
result - an end may still be told after the loss, or not (`EndErrors` and
`RecvErrors`); a result given later reaches nobody. `heap` holds the messages `Recv` has allocated and `held` the
pointers it returned; the refinement mapping reads the messages through these
pointers *now*, so a message that changed after it was returned would not be a
step of `DuplexStream`.

## 3. Runs

| Run | Question | Bounds |
|---|---|---|
| `manager_ordered` | Are registration and lookup right in every interleaving? | 2 goroutines, 2 families, 2 message types, 3 codecs of which 2 share a type; calls unbounded |
| `manager_reordered` | Does the singleton survive reordered stores, and does every call return? | 3 goroutines, 1 family, 1 codec |
| `startup` | Are lookups exact after Init, even with a second Init running, and does every Init return? | 2 goroutines, 3 registered codecs and 1 left out, 3 Inits |
| `link_every` | Is every frame the message it was made from? | all 25 requests and responses, of which `GlobalReportRequest` and `UndoLogDeleteRequest` have no codec after `Init`, so that no frame is made of them (`Init` leaves out the codec of the first, and `link_report` shows that it would not help; the second has no codec in the package); every field at the values where its encoding changes, every constant of a status or branch type, real widths (256, int64 of 8 octets) |
| `link_startup` | Can a frame be lost or misread while the ends start up? | 2 sends, all 24 x 24 start-up points, strict and lenient codecs, values and pointers, frames too short for a type code |
| `link_limits` | Is the format right up to its limits, and what becomes of timeouts beyond them? | octets of 16 values; strings of 15, 16, 255 and 256 octets in every field; timeouts around zero and around 2^32 ms |
| `proto_sorted` | Do all generated files initialise correctly and to the end, and are descriptors usable? | all 46 files in the order of the go tool, then 3 goroutines and 2 files |
| `proto_any_order` | Does it depend on the order of the init functions? | the 11 files behind branch reports, every order |
| `proto_message` | Do getters and peers see what was sent, and do handles survive? | all 40 messages, 2 goroutines; nothing or everything set but for one field, every constant of an enum |
| `grpc_stream` | Is the stub two queues, and is a client of an unimplemented server told? | 2 messages per end, 2 contents, with the connection lost at any time |
| `link_report` | violation: see below | |
| `link_rollback` | violation: see below | |

Two families and two types are enough for the registry because an operation
touches one family and one type, and interference needs one other of each. Two
codecs with the same type make replacement happen; two goroutines are the
smallest number that can race; three are used where a third one can arrive
between publication and completion. The symmetry of `manager_ordered` and
`proto_message` permutes goroutines (and families), which no definition
distinguishes; runs with a liveness property use none.

Octets of 16 values put every limit of the format (one-, two- and four-octet
counts, int8 and int16 cuts) within reach; the layouts are parameterised by
`Octets`, so they are the ones that `link_every` checks with 256. One deviating
field is enough for `proto_message`, because tags and `Reset` treat fields one
by one. Two messages per direction are enough for a stream: the second one is
the first that could overwrite or overtake another.

Deadlock checking is off where the modelled process may stop: after a crash of
the runtime, or when the bounded number of sends is used up. It is on for the
generated files, where nothing may stop. `MaxDepth` bounds nested initialisers
at 6 where the import graph needs 6 at most, so it cuts nothing off; with a
circle in the graph it would (and `InitEnds` would fail).

Fairness: every goroutine that can go on does (weak fairness of its steps: the
Go scheduler preempts), and a goroutine waiting for the mutex gets it if it is
free again and again (strong fairness of `LockManager`: `sync.Mutex` hands the
lock to a waiter that has starved for a millisecond). Making a call is never
required to happen. In `GrpcStream` the runtime dispatches the call and
returns from `RecvMsg` when it can, and the unimplemented handler, which has
nothing to wait for, returns; an implementation's handler, sends and closes may
never come. Package initialisation goes on once begun (the Go runtime
runs it to its end before `main`).

### Findings

- `link_report`: `GlobalReportRequestCodec.GetMessageType` returns the type of
  the *response*. `Init` does not register this codec; if the program does, it
  displaces the response's codec and `GlobalReportRequest` still has none.
- `link_rollback`: `BranchRollbackResponseCodec.Encode` cuts `Msg` at
  `math.MaxInt16` but writes a one-octet length. From 256 octets on the length
  wraps and every later field is read from the text of the message.

## 4. Proofs

`CodecManagerProofs` proves, for any sets of goroutines, families, message
types and codecs, and with or without reordered stores (assumption
`ManagerAssumption`: codecs declare a message type; NIL is none of the other
values):

| Theorem | Says |
|---|---|
| `TypeCorrect` | `Spec => []TypeOK` |
| `Singleton` | `Spec => []OneManager` |
| `MutualExclusion` | `Spec => []WritersExclusive` |
| `RegistrationVisible` | `Spec => []RegisteredAtReturn` |
| `LookupCorrect` | `Spec => []LookupSound` |
| `NoNilMapPanic` | `Spec => []NilMapOnlyIfReordered` |
| `Refinement` | `Spec => RefinesRegistry` |

None of these is inductive alone, not even `TypeOK`: that `load` finds a
manager depends on what `Once` has done. The inductive invariant `IInv` adds
the state of `Once` (`OnceInv`), who holds the lock (`LockInv`), what each
stage of `RegisterCodec` knows of the table (`HolderInv`), where the map found
by `GetCodec` comes from (`ReaderInv`), and that families do not share inner
maps and codecs sit under their own type (`TableInv`). Each part has a step
lemma with one case per action. `EntryStep` says that only `EndInner` changes
the table; with `EntryStored` it gives the refinement, and with `EntryStays`
and `InnerMapStays` the soundness of lookups: the answer was registered under
the family and type asked for, and read out of that family's own inner map,
which tells a wrong family apart even when both hold the same codec.

`ProtoInitProofs` proves, for any files, tables, order of the init functions,
bound on the stack and goroutines (`ProtoInitAssumption`: calls and questions
are about files of the program; `ResolveAssumption`: a file's references are
not one of the two markers):

| Theorem | Says | Asks of the tables |
|---|---|---|
| `ImportsFirst` | `Spec => []ImportsBuilt` | `CallsImports` |
| `BuiltRight` | `Spec => []ReferencesRight` | `Acyclic`, `TablesAgree` |
| `DescriptorsUsable` | `Spec => []DescriptorUsable` | nothing |

`CallsImports`, `TablesAgree` and `Acyclic` are facts about data;
`MCProtoAnyOrder` has TLC check them of all 46 real files (`RealTables`, with
the depth of the calls as the ranking that `Acyclic` wants). `InitInv` says that a frame below the top
is in the middle of the call that made the one above it, that what a frame
called before is built, and that what a built file calls is built. Circles do
not harm it, because a file is built after its last call has returned: in a
circle nothing is ever built. `OnceInv` adds that ranks fall along the stack.
So no file is on it twice, and a file past its guard is still unbuilt with its
tables in place when `Build` comes to it: the guard is tested on entry only,
and this is why that is enough. `GzipInv` ties each stage of the `Once` to what
the descriptor's octets are, with at most one goroutine compressing a file.

`CodecStartupProofs` proves, for any codecs in any order of registration, any
goroutines and any number of Inits (`StartupAssumption`: the registered codecs
are codecs of different message types):

| Theorem | Says |
|---|---|
| `StartupUsesRegistry` | `SSpec => Spec` |
| `LookupsExact` | `SSpec => []LookupExact` |
| `OneInitIsSafe` | `SSpec => []RaceNeedsSecondInit` |

By the first one `IInv` and every theorem about the registry carry over.
`StartupTypeOK` adds what a goroutine inside Init is registering;
`StartupTableInv` says that the table holds nothing but Init's codecs, and all
of those that some Init has come past: a second Init overwrites an entry with
the same codec, which is why lookups stay exact while it runs. `OneInitInv`
says that as long as Init was called once, one goroutine is inside it and
nobody looks up before it has returned; a race needs two.

`GrpcStreamProofs` proves `StreamImplementsDuplex`, `Spec => RefinesDuplex`,
for any messages and any number of them. The abstract stream sees the messages
through the pointers that `Recv` returned, so the proof needs `HeapInv`: a
struct that waits to be filled is in nobody's hands, and the two ends never
wait for the same one. `QueueInv` says that what one end sent is what the other
one sees and then what is on its way, `EndInv` that there is no status before
the handler has returned, and who was told of it. Each step of the stub is then `Put`, `Get`, `Finish` or `Tell`,
or changes nothing the abstract stream shows.

Three modules show that messages survive the wire, for every size of an octet
that is an even number (`OctetsAssumption`), every width of an int64, and
messages whose fields have the types the Go structs give them
(`LinkAssumption`); type codes fit an int16 (`SeataCodecAssumption`):

| Theorem | Says | Hypothesis |
|---|---|---|
| `UnsignedRoundTrip` | `UnsignedOf(Integer(w, n)) = n` | `n` fits `w` octets |
| `SignedRoundTrip` | `SignedOf(Integer(w, n)) = n` | `n` fits `w` octets, signed |
| `LayoutRoundTrip` | `DecodeBody` finds what `EncodeBody` wrote, to the last octet | the layouts agree; the message has room in each item |
| `FramesAreFaithful` | `Spec => []FramesFaithful` | `ExtraAgrees` |
| `NothingIsMisread` | `Spec => []NeverMisread` | `ExtraAgrees` |
| `NothingIsLost` | `Spec => NothingLostAfterInit` | no codecs but Init's; NIL is no message |
| `TimeoutsNeverGrow` | `Spec => []TimeoutNeverGrows` | `ExtraAgrees` |
| `TimeoutsInRange` | `Spec => []TimeoutInRange` | `ExtraAgrees` |

`ByteBufferProofs` and `SeataCodecProofs` are about recursive functions: over
the octets of an integer and over the items of a layout. Their inductions go
through `SetInduction`, which speaks of the set of numbers for which a fact
holds and follows from the well-foundedness of `<`, because the library's
induction theorems take an operator; `RecursionExists` gives the values of such
a function. `CodecLinkProofs` then shows of each of the 23 codecs of `InitOrder`
that it is `WellMade`: it has the type code of its message, its two layouts
agree item by item, every field the protocol carries has an item, and the item
gives it the room that `Fits` promises. A well-made codec whose message fits
reads a frame of its own as the `Meaning` of the message.

Frames are written and read by tables of different age, so the last part is
about them: the first registrations of `Init` give a type code its codec or
none, never another one (`ExtraAgrees`: codecs the program adds are well made
too and take no other codec's type code). `ExtraAgrees` holds of this
repository, where nothing is added (`NothingExtraAgrees`), and is exactly what
the run `link_report` breaks, by adding `GlobalReportRequestCodec`. `LinkInv`
says that each frame in flight was encoded from its message by some point of the
sender's start-up, and that what `Decode` returned came from such a frame; the
five properties are consequences of it. `TimeoutsNeverGrow` and
`TimeoutsInRange` do not ask that the timeout fits, and hold of the ones that
wrap.

`ProtoMessageProofs` is about the generated messages, for any goroutines and
whatever the messages of a type hold (`ProtoMessageAssumption`: what `Contents`
gives has the fields of its type, along paths of its fields):

| Theorem | Says |
|---|---|
| `WireRoundTrip` | `Merge` by tags or schema undoes `Encode` by tags or schema, on a new message |
| `HandlesSurvive` | `Spec => []HandleSurvivesReset` |
| `SourceIsRead` | `Spec => []GoReads` |
| `SentIsRead` | `Spec => []PeerReads` |

`SchemaKept` opens the tables of all 40 messages: each struct numbers its
fields as the schema does. So a path of fields has the same numbers on both
sides and the numbers lead back to it (`NumbersOfPath`, by induction on the
path), and a field left out is zero at both ends: `WireRoundTrip`. It does not
ask that the messages are small or nested to a bound. `MessageInv` carries it
over to goroutines: `UnmarshalsAlone` (the rule of the runtime, as the guards of
the callers keep it) and `HandlesHaveInfo`, by which a handle misses its
MessageInfo only while another goroutine is between the two halves of `Reset`,
when no one may use it; `SourceArrives` and `SentWasWritten` say what the struct
and the last wire format hold.

Only model-checked:

- liveness: `CallsReturn`, `InitReturns`, `InitEnds`, `DescriptorReturns`,
  `UnimplementedTold` (out of the prover's reach);
- the assumptions on data that TLC evaluates: `RealTables`, `EnumsAgree`,
  `FieldsAgree`.

## 5. Not modelled

- `MessageFuture`: the repository has its constructor only; nothing completes
  or waits for one.
- `Connection`: an interface without implementation or caller.
- `RpcMessage`, frame headers, heartbeats, compression: declared, never used.
- `String` methods, logging, JSON tags.
- of the generated code: `String`, the deprecated `Descriptor` methods, builds
  without `unsafe`, lists and maps beyond empty and not empty.
- the error values of the gRPC runtime beyond regular end, refusal and loss;
  flow control; the header names of `grpc/constant.go`, which nothing uses.
- What becomes of a timeout of 2^32 ms or more or of a name of 65536 octets or
  more, beyond that they wrap, and of a frame cut short inside its body: no
  codec looks at the errors of its reads.

## 6. Plan

Every safety property of the runs that the code satisfies has a theorem. Left:
steps towards the liveness properties that need no fairness (what is never
disabled), and data for the hazard without a property (frames cut short).
