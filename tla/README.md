# A TLA+ model of Succinct

Succinct is an Android app for field teams of an emergency service. Phones of
one team replicate append-only files among themselves over Wi-Fi; the team
leader's phone turns the records in them into messages and sends those to the
operations centre (EOC) over HTTP, SMS or an Iridium modem ("Rock"), whichever
works. Forms that are filled in are compressed for the narrow channels. This
directory models that code, with the two libraries it carries in its own tree
(LMDB and expat) as far as it relies on them, checks the models with TLC on
small instances and proves the central invariants with TLAPS for every instance.

`J` below is `src/app/src/main/java/org/servalproject/succinct`, and `C` is
`src/app/src/main/cpp`. `PROJECT.json` maps every definition to its lines, and
lists the hazards with the property that would catch each of them, and for
every checked property a mutation of the code that violates it.

## 1. Inventory

| Component | State it keeps | Operations | Correct when |
|---|---|---|---|
| Record storage: `J/storage/RecordStore`, `Storage`, `C/storage.cpp` | bytes of each file; in LMDB the committed length, digest and hash state of each file, an index digest -> file, the XOR of all digests; `.marks` files; in memory the append in progress, the active transfer, the sync keys | open, append + flush, `appendAt` of a peer's block, rewind, marks, `init_sync_state`, `receive_metadata` | committed bytes are never lost or changed and always match their digest; what is advertised to peers is what is stored |
| Outgoing queue: `J/messaging/MessageQueue`, `HttpTransport`, `TeamMessages`, `MemberEnrolments`, `QueueWatcher` | fragments file with marks `http_acked` and `sending`; a memory-mapped partial fragment; a `sent` mark per source | alarm handler (`sendViaHttp`, `sendNextFragment`), fragmenting, `markAck`, recovery at start, `close` | every record reaches the EOC once a channel works; nothing marked as sent is missing; fragment numbers are unique and gap-free |
| Sequence tracker: `J/utils/SeqTracker` | linked list of ranges, saved as text | `received`, `nextMissing`, `toString`, parse | behaves as a set |
| Transports: `SMSTransport`, `RockTransport`, `rock/RockMessaging` | what is being sent; connection, lock and error state of the modem | `checkAvailable`, `trySend`, `done`, callbacks of the modem, posted observers | a transport is given a fragment only when the last one is settled; the transport becomes free again; the modem is on exactly while it is needed |
| Incoming fragments: `MessageQueue.storeFragment`, `processFragments`, `HttpTransport.receiveHttpFragments` | incoming file, tracker, `processed` mark, alarm | receive over HTTP or Rock, process | each EOC message is shown exactly once |
| Members: `MembershipList`, `MemberEnrolments`, `ChatQueueWatcher` | enrolment records, positions, `sent` marks | enrol, revoke, reload, send | a message names its author rightly; positions are stable and agree everywhere |
| Peers and transfers: `J/networking/Peer`, `PeerConnection`, metadata in `storage.cpp` | transfers possible, requested and active; queue of a connection | offers, block requests, broken connections, dead links | two connected peers end with the same files |
| Set reconciliation: `C/sync_keys.cpp` | trie of keys per device, with what it believes of each peer | add key, build and receive messages | finds exactly the difference |
| Interfaces and heartbeats: `Networks`, `IPInterface`, `C/networks.cpp` | Wi-Fi interfaces, alarm, next address to probe | netlink messages, heartbeat, probe | a Wi-Fi interface that is there is used, one that is gone is not |
| STUN tool: `src/stun/stun.c` | table of senders | packet | a reply names the peers that were just heard on that port |
| Wire numbers: `pack_uint`, `unpack_uint` | | | a number comes back |
| Form compression: `C/forms/*` | recipes, records, coder registers, statistics, digests | XHTML to recipe, XML to stripped text and back, record to symbols, symbols to bits | what an accepted form holds comes back |
| LMDB: `C/lmdb/mdb.c`, `midl.c` | pages, free lists, meta pages, reader table, cursors | put, delete, cursor moves, commit, abort, readers, recovery | a sorted map with atomic, durable transactions and stable snapshots |
| expat: `C/expat/xmlrole.c`, `xmlparse.c` (`doProlog`) | handler of the next token, scaffold of a content model, entities, attributes | token of a prolog | declarations are kept as written, within the arrays |
| Location service, chat database, UI, I/O loop, JNI glue | | | not modelled, see section 6 |

How they interact. A commit in storage notifies observers (`StorageWatcher`),
whose callbacks run on the background thread; the watchers enrol people and
remember peers with unsent chat, and set the queue's alarm. The alarm's runnable
runs on the same thread. Connectivity broadcasts, modem callbacks and the UI
(`leave`, `hasUnsent`) come from other threads, without locks on the queue.
Storage is called from the network thread (`appendAt`), the background thread
and the UI thread under `synchronized`. Heartbeats carry the root hash of the
storage; a peer with another one starts set reconciliation, whose result makes
`Peer` ask for metadata and then for blocks, which end in `appendAt`.

What is hard here: Android kills the process between any two steps, and three
files (marks, mapped buffer, record file) are written one after another;
iterators are shared between threads; replies and acks get lost; wakeups come
from six places; digests and root hash are maintained incrementally; native
code indexes arrays with what it read; the coders lose a form silently when the
two sides disagree on one bit.

## 2. Modules

### RecordStore (`RecordStore.tla`, `MCRecordStore.tla`, `RecordStoreProofs.tla`)

The variables `disk`, `files`, `index`, `rootDb` and `markFile` survive the
process; the others are `struct dbstate`, `struct file_data`, `Storage.state` and
the fields of `RecordStore.java`, under their names. Actions: `OpenStorage`
(`open_db`, with the clearing of another version's database), `Close`,
`OpenFile`, `AppendRecord`, `SetTransfer`, `CancelTransfer`, `AppendAt`,
`SetMark`, `InitSyncState`, `ReceiveMetadata`. `AppendRecord` and `AppendAt`
contain the whole flush: the hash check, the LMDB transaction, the update of the
root hash, index and sync keys, the callback that cuts the file, or the rewind.
`AppendRecordDies` and `SetMarkDies` are the kills inside a step; a kill
anywhere else is `Close`, because an orderly close saves nothing.

A hash state is the byte sequence it absorbed; a digest is an independent vector
over GF(2), so XOR is symmetric difference: collisions of SHA-256 are excluded,
cancellation of equal digests is not. LMDB is taken to make a transaction
atomic and durable, which `LmdbTxn` checks of LMDB itself. The methods are
`synchronized`, so each is one step.

### MessageQueue (`MessageQueue.tla`, `MCQueueThreads.tla`, `MessageQueueProofs.tla`)

The queue of the team leader. `pc`, `mode`, `src`, `it`, `work`, `send`
are where the background thread is and its locals, `ack` those of `markAck`, and
`ask` is where the UI thread is in `hasUnsent`. The code between two writes to
disk, two requests or two calls of a shared `RecordIterator` is one step, so that
kills and the other threads' steps can come in between:

| Steps | Code |
|---|---|
| `RunAlarm`, `Visit` | the alarm's runnable with `checkMonitoring`; `StorageWatcher.observe` and `Visit` |
| `SendViaHttp`, `NotYetAcked`, `AckReply`, `AckRequestFails`, `Uploaded`, `UploadFails` | `HttpTransport.sendViaHttp` |
| `AckStep`, `AckScan`, `AckFound`, `MarkAcked`, `SendingFollows` | `HttpTransport.markAck`: `MarkAck` chooses the direction, then each `next`, `prev`, read and mark of the search |
| `NextFragment`, `FirstFragment`, `Poll`, `Take`, `ReadRecord`, `MarkSent` | `nextFragment` and the sources' `nextMessage`: go to the mark, move, read, mark |
| `BeginFragment`, `Put`, `EndFragment`, `ClearBuffer` | `fragmentMessage`, `beginFragment`, `endFragment`: append, then empty the buffer |
| `GetFragment`, `GoToEnded`, `ReadEnded`, `TrySend`, `PassSent`, `MarkSending`, `NoFragment`, `Done` | `getFragment`, `sendNextFragment`, `done`, `close` |
| `LeaveBegins`, `LeaveRecorded`, `HasUnsent`, `UnsentFragment`, `HasMessage` | UI thread: `TeamStorage.leave`; `MessageQueue.hasUnsent` with the sources' `hasMessage`, at most `MaxAsks` times |
| `AppendChat`, `PersonJoins`, `NetChanges`, `ServiceChanges`, `DeadlinePasses`, `TimerFires` | records from this phone or peers, broadcasts, time |
| `Killed`, `Restart` | the end of the process; `reloadTeam` and the constructor |

Messages are counted in units and spread over fragments of `Cap` units; a unit is
longer than the message header and the buffer's length field. The EOC server is
external: it keeps the first fragment of each number and acknowledges the last
number before the first gap, as the code that uses it expects. SMS and Rock are
one flag `svc` here; `Transports` has them in detail. Location and form messages
are left out. An exception on the background thread ends the process (`Dies`),
as it does in Android. `MCQueueThreads` has the sets of constants of the two
passing runs, and `AskingSpec` for `queue_ui_loses`.

### SeqSet, SeqTracker (`MCSync.tla`, `SeqTrackerProofs.tla`)

`SeqSet` is the abstract promise: a set of numbers, whether the last was new,
and the least one missing. `SeqTracker` is the linked list as a sequence of
ranges, with `received` (its walk, growth at either end, insertion, merging),
`nextMissing`, and saving and reloading through text. It refines `SeqSet` under
the mapping `seen <- Covered(ranges)`. It is a part of `MCSync`, the run on what
two sides know to have arrived.

### Incoming (`MCTransfers.tla`, `ArrivalProofs.tla`)

`Incoming` has two threads with a program counter each: the background thread
that asks the server for the next missing fragment and sets its alarm, and the
UI thread that gets fragments from the modem. Both go through `storeFragment`
(tracker, append, properties) and `processFragments` (shared iterator, chat,
mark), one step per access to what they share; the tracker is a set, which
`SeqTracker` implements, and its saved text is separate from the one in memory.

### Transports, Members (`MCTeam.tla`, `TeamProofs.tla`)

`Transports` has the loop of `sendNextFragment` that offers a fragment to each
transport, SMS with its intents, and Rock with the driver: connection, lock and
error states, a command per `checkAvailable`, the callbacks of the framework and
the observers that are posted to the UI thread. The framework of the modem is
external, modelled from how `RockMessaging` uses it.

`Members` has the leader's records of enrolments and revocations, the position
each reader computes from them, and the messages to the EOC that name a person
by position, with kills between the send and the mark.

### Transfers, SyncKeys, PackUint (`MCTransfers.tla`, `MCSync.tla`, `ArrivalProofs.tla`)

`SyncKeys` has the trie of `sync_keys.cpp` with its comparisons by whole bytes
and by bits, every message and every callback, between two devices. `Transfers`
takes the keys that were found from there: `Difference`, `send_metadata`,
`receive_metadata`, `processRequest`, `ProcessData` on a queue ordered by type
and a wire that keeps the order, with `linksDied` and connections that break.
The loops of `fillWriteBuffer` and `nextTransfer` are a turn (`WriteOne`, `Turn`)
and a recursive function that repeats it.
`PackUint` has the packing of the numbers in those messages, with the sign
extension of an `int` shift in `unpack_uint`.

### Networks, AddressWalk, Stun (`MCNetwork.tla`, `NetworkProofs.tla`)

`Networks` has the kernel's addresses, the messages of the netlink socket, the
interfaces that `Networks.java` keeps and the heartbeat's alarm. `AddressWalk`
has `nextAddress` of `IPInterface`, which decreases an address (byte by byte with
borrow in the code, modulo a power of two here). `Stun` has the table of the
command line tool, with the choice of a slot, the reply and the buffer it is
written to: a turn whose reply does not fit is `Overrun`, after which nothing is
known of the process.

### Form compression (`MCCompression.tla`, `MCForms.tla`)

Bottom up: `Arithmetic` has the range coder as operators on its registers, with
the carry and the rescaling of `arithmetic.c`, and `RangeCoder` a message
through it; `Interpolative` the coding of ascending lists; `Smac` the text
compressor with its layers (case, letters, non-letters, unicode, packed ASCII);
`PackedStats` the statistics behind it; `Digest` the streaming of SHA-256 and
MD5. Above them: `FieldCodec` has how each type of field becomes symbols;
`FormRecord` the parsing of a stripped form with sub-forms and its walk along a
recipe; `XhtmlRecipe` the SAX handlers that build recipes from a form's XHTML;
`Strip` XML to stripped text and back; `RecipeText` the reading and freeing of
recipes. What a coder that is full (`Rooms`), a text that is cut to the length of
its field (`MaxCut`), a line that is ignored for its length (`Long`), names that
several forms have or none (`Shared`, `Strays`) and texts of any size (`MAX_SIZE`)
do is modelled; `TextRoundTrip`, `FormRoundTrip` and their like then say what is
still kept, and section 4 what is not. Register widths, alphabets and block sizes are parameters; what matters
is how they relate, which each module's assumption states.

### Midl, LmdbPages, LmdbTree, LmdbTxn (`MCLmdb.tla`)

`Midl` has the lists of page numbers; `LmdbPages` pages and cursors with search,
split, merge and rebalance; `LmdbTree` one database in a write transaction;
`LmdbTxn` transactions with dirty and free pages, spilling, the two meta pages,
the reader table, kills, power failures and failing writes. Trees in `LmdbTxn`
are kept to two entries, because `LmdbTree` is about their shape.

### XmlRoles, XmlDtd (`MCXml.tla`)

`XmlRoles` is the table of handlers in `xmlrole.c`; `XmlDtd` what `doProlog`
keeps: the scaffold of a content model and its arrays, entities, attributes. The
parser is built without `XML_DTD`.

## 3. Runs

Components that share no state that matters to the properties are checked in one
run without interleaving them: a variable `part` (or `which`) says of which
component, or of which set of constants, a behaviour is, and the others rest in
an initial state. A definition in the MC module states a component's property
for the parts in which it is asked; what a theorem states is checked under its
own name, of the module that the MC module extends.

| Run | Parts and bounds | Invariants; action and temporal properties |
|---|---|---|
| `record_store` | 2 files (symmetric), 2 byte values, files of at most 2 bytes, one peer version, one mark | `CommittedOnDisk`, `AppendCoherent`, `RootIsXor`, `Findable`, `MarksInRange`; `AppendOnly`, `TransferVerified` |
| `queue_crashes` | a chat message of 2 units, fragments of 2 units; kills: 1 member, 2 kills; members: 2 members, no kill | `NoMessageLost`, `AcksRight`, `AttemptedOrAcked`, `SeqsContiguous` |
| `queue_threads` | threads: 1 member, the network may drop, the UI leaves, and asks once, between any two steps of the background thread; delivery: 2 members, fair | `NumbersRight`; `DeliveredAlone` |
| `team` | modem: 3 fragments, 3 drops, the team closes; both: SMS and modem, posted updates, every failure once; join and rejoin: 2 people, 2 kills or 3 records each | `ModemHeld`, `OneInAir`, `PositionsRight`; `HandedOver`, `SentAlone` |
| `network` | networks: 2 Wi-Fi and 1 other interface, 2 addresses, 3 changes; table and one port: 5 senders on 2 ports or 4 on one, 4 slots, replies with room for 2; walk: networks of 8 in 5 bits, every own address | `InterfacesRight`, `TableRight`; `RepliesRight`, `InRange`, `WalkProbes` |
| `sync` | broken: 3 keys, one loss of the peer; reordered: 2 keys, one new file, messages that overtake; the second device starts with no fewer files than the first; tracker: numbers 0..6 | `SyncSound`, `DifferenceFound`, `Canonical`; `EventuallyEqual`, `TracksSet` |
| `transfers` | http: 3 fragments, 1 kill, refusal and outage; satellite: 3 fragments that may come twice, 2 kills; same: 2 peers, 3 blocks; differ: 2 peers with different bytes, a break and a dead link; two: 2 files; pack: numbers below the sign bit of a 10-bit `int` | `ReceivedKept`, `ShownRight`, `TransfersSound`, `CommittedWhole`; `AllArrives` |
| `lmdb` | tree: 6 keys, nodes of 4 sizes; cursor: 5 keys on 3 levels; midl: lists of up to 5; writer: 5 transactions of 2 operations; readers: 2 readers, 4 transactions; crash: power failure or kill, failing writes | `TreeSound`, `StoreSound`; `AtomicCommit` |
| `xml` | declarations of 9 to 14 tokens of each kind; whole declarations of the grammar | `DeclarationsKept` |
| `compression` | coder: registers of 8 bits, every message under two models; lists: up to 10 numbers below 12; text: up to 5 of 8 characters, those of up to 3 also cut after any byte, with statistics from a file or mapped; stats: 3 orders, a digit that another is folded to; digests: up to 26 bytes in any pieces | `CodedBack` |
| `forms` | every type of field at the limits of its precisions, with dates before 1970 and after 2038; forms of up to 5 lines, 9 with a sub-form, in a coder with room for 4 or 20 symbols; 2 fields, one of several forms, and 2 sub-forms in any nesting, or 3 selects; answers with up to 3 records; 2 recipes of up to 3 lines, also empty or too long | `AnswersKept`, `RecipesRight` |
| `queue_ui_loses` | the UI asks, the leader leaves | `NoMessageLost` is violated |

Where a run checks many components, its properties are conjunctions of the
named ones of the components, types included:

- `Findable`: `IndexResolves`, `SyncKeysCurrent`; `AcksRight`: `AckedReceived`, `AckNeverFails`; `NumbersRight`: `SeqsContiguous`, `UniqueSeqs`.
- `SyncSound`: types, `TriesSound`, `AssertionsHold`, `BeliefsTrue`.
- `TransfersSound`: types (those of `Incoming` too), `ActiveAnswered`, `WindowExact`, `RoundTrip` of `PackUint`; `AllArrives`: `AllShown` and `AsksAgain` of the messages, `CatchesUp` of the files.
- `TreeSound`: types, `NeverInError`, `HoldsMap`, `WellFormed`, `Lookups`, and of a cursor `OnPath`, `NeverSkips`.
- `StoreSound`: `CurrentIntact`, `NothingLost`, `FallbackIntact`, `SnapshotStable`, `Audit`; of the page lists `PageNumbersKept`, `ListsOrdered`, `DirtyAscending`.
- `DeclarationsKept`: types, `InBounds`, `ModelAsWritten`, `EntityFirst`, `AttributesFirst`, `PrologWhole`, `Accepted`.
- `CodedBack`: types, `SpaceLeft`, `RoundTrip`, `DecoderInRange`, `ListRoundTrip`, `TextRoundTrip`, `InStep`, `LongestContext`, `VectorUsable`, `ShaOfBytes`, `Md5OfBytes`.
- `AnswersKept`: of the fields `SymbolsInRange`, `PrefixFree`, `Lossless`; of records `ParsedWhole`, `FormRoundTrip`, `FreedOnce`, `MissingFieldsAllowed`; `StrippedExact`, `Reconstituted`.
- `RecipesRight`: `FieldsInTheirForm`, `TemplateBalanced`, `OptionsExact`, `ReturnedWhole`; `ReadWhole`, `EnumBounded`, `AllFreed`.
- `InterfacesRight`: types, `NeverStale`, `LoneFound`, `HeartbeatsGoOn`; `TableRight`: types, `OneSlotEach`, `FewFit`; `WalkProbes`: `AllProbed`.
- `PositionsRight`: types, `ListRight`, `NamedRight`; `HandedOver`: types, `NoCrash`, `TornDown`, `AllHanded`; `SentAlone`: `AllSent` of people who stay.

Each property is stated in words where it is defined. What the less obvious ones
say: `RootIsXor`: the root hash that heartbeats carry is the XOR of the digests
of the committed files, however files were replaced, refused or rewound.
`TransferVerified`: a transfer that ends with a flush of its own leaves the version
whose digest was offered (an `appendRecord` in the middle of one commits what has
arrived so far without asking, with a digest over it). `IndexResolves`: the entry of
a committed digest has the file's length; its name is not part of it. `AttemptedOrAcked`: a fragment before the mark `sending` was
given to a service or acknowledged. `OneInAir`: the modem has no fragment but the
one that `RockTransport` waits for or is about to wait for. `DifferenceFound`: when nothing is on the
way and both have heard each other's root, each knows every key it lacks.
`Audit`: every page below the last is in exactly one place (in use by a tree,
free, or waiting for a reader). `NeverSkips`: a cursor that goes on to the next
key passes over none that was there all the time. `PrefixFree`: two values of a
field that are encoded differently differ before either code ends, so a decoder
can tell where the next field begins. `SymbolsInRange`, `PrefixFree` and `Lossless`
name the values they leave out (`Undated`, `IsEscape`, `Kept`, `Partial`), which are
enumerated all the same; so do `TextRoundTrip` and `InStep` (`InLast`, `Packed`),
`LongestContext`, `OptionsExact` (`Alone`) and `FieldsInTheirForm`. `CommittedWhole`: what is committed to a
file is a version that one peer had, all of it and nothing of another one's.
`RepliesRight`: a reply of the STUN tool names peers on the asker's port that were
heard within ten seconds, never the asker, and all of them while there is a slot
for everybody, one port, and the reply fits its buffer; `FewFit` of `TableRight`: it
fits while no more peers were heard than it has room for. `InRange`: every probed
address is a host of the network other than the phone, unless the phone has the
first. `PositionsRight`: a position stands for one person, on
the phone and at the EOC, through leaving, joining again and kills.

Why the bounds are enough. Two bytes allow a commit, an append on top that is
rewound or lost, and another commit; two files are the least for a root hash in
which digests cancel. With a team record, an enrolment and a chat message of two
units, fragments of two units are filled exactly, shared and spanned; two kills
allow one inside the recovery of the other. Seven numbers allow four separate
ranges and every way to join them. Three keys give a trie with a node at an odd
bit below one at an even bit. Six keys of two sizes split and merge leaves and
branches on both sides; five transactions reuse pages that were freed two
transactions before. Four fragments of the satellite are one repeated. The
widths of the coder keep the relations between the code's 32, 24 and 16 bits.

Deadlock is checked in `record_store` and the queue's runs; the others end when
their bounds are used up, and several components really stop (a document that
has been read, a team that has closed).

Fairness. The background thread never stops (`WF` on its steps). Its looper is
a FIFO: what is posted runs although other things are posted again and again
(`SF` on `RunAlarm`, `Visit`, `QueueAlarm`, `ChatVisit`). Time passes, a set
alarm fires, and `leave` returns (`WF`). In `AllArrives` an outage ends and a
minute passes, and what is on a wire arrives; in `HandedOver` the modem answers
and transmits; in `SentAlone` Android restarts the process; in `EventuallyEqual`
heartbeats go on and what is on a wire arrives. Nothing is assumed of the server, the services
or users; `EventuallyDelivered`, which `DeliveredAlone` asks, itself assumes that the network stays up from
some time on.

## 4. Where code and its comments or README disagree

`queue_ui_loses` is a run of its own, with an entry in `findings`: `hasUnsent`
on the UI thread moves the iterators of the background thread, and a record that
was never read is marked as sent. The following were found in the same way, with
the constants or the formula changed as said; the runs above leave those cases
out, and each property named here is in its module.

**Queue** (`MessageQueue`)
- `RecoveredIntact`, one kill: the constructor adds the recorded length, which counts its own 4 bytes, to a position of 4 (`J/messaging/MessageQueue.java:126`): a recovered fragment has 4 bytes too many, and a full one cannot be recovered. ":124 recover pre-quit fragment?"
- `UniqueSeqs`, one kill: a kill between appending a fragment and emptying the buffer (`:185`) yields two fragments with one number; ":389 ignore duplicate seq numbers".
- `ClosingDelivered`, `CanLeave`, fair: `TeamStorage.leave` clears `teamActive` before the closing record is stored (`J/storage/TeamStorage.java:216`), and the queue may close in between; ":215 But keep syncing and sending message fragments".
- `EventuallyDelivered`, `MaxErrors = 1`, fair: after an error reply nothing wakes the queue (`HttpTransport.java:264`); README:38 "all data messages ... should be sent as soon as they are created".
- `AttemptedOrAcked`, `MaxAsks = 1` and `CanLeave`: `hasUnsent` makes the background thread step over a fragment (`MessageQueue.java:263`).
- `AcksRight`, `MaxAsks = 1`: `markAck` moves and reads the shared iterator many times (`HttpTransport.java:178-211`). `hasUnsent` in between moves it: `next` and `mark("http_acked")` then pass fragments that the server does not have (`:201`), the search reads no record (`:200`) or runs off the file and throws, which ends the process. The same of a source's iterator between its `next` and its read. What does hold with the UI thread asking is `NumbersRight`.
- Only the length of an index entry is checked (`IndexResolves`): metadata of a peer may overwrite its name (`storage.cpp:292`).

**Incoming** (`Incoming`)
- `NoneSkipped`, network and satellite together: both threads move one iterator without a lock (`MessageQueue.java:405`), and a record that neither has read falls behind the mark.
- `ReceivedKept`, network, satellite and one kill: the other thread saves the tracker with a number whose fragment is not appended yet (`:390`).
- `ShownOnce`, one kill: the tracker's text is saved only with the next mark (`:394`); the fragment is asked for and shown again; ":389 ignore duplicate seq numbers".
- `AsksAgain`, `MaxPrefs = 1` or `MaxErrors = 1`: a changed setting replaces the alarm and is refused because the minute is not over (`HttpTransport.java:102`); an exception skips the next alarm (`:383`). README:39 "will also check for incoming data messages once per minute".

**Transports** (`Transports`)
- `AllHanded`, `HasSms`: the last part is numbered `parts-1`, and the receiver waits for `parts` (`SMSTransport.java:55`): SMS stays busy after its first fragment, which also ends the search for another transport.
- `AllHanded`, `MaxErrors = 1`: an error that comes after the connection was lost keeps the modem unavailable (`RockTransport.java:62`).
- `NoCrash`, `OnUiThread = FALSE`: two posted updates of one shared message are both seen as transmitted, and the second dereferences `sendingMsg` (`:161`).
- `TornDown`, `MaxFails = 1`: a message that fails neither enables the modem's timeout nor removes the observer (`:171`).

**Members** (`Members`)
- `AllSent`, people who leave: the position of a person who left is null and its unboxing throws, at every start again (`MemberEnrolments.java:39`).

**Reconciliation and transfers** (`SyncKeys`, `Transfers`)
- `DifferenceFound`, a broken connection: nothing starts the exchange again while both root hashes stay (`Peer.java:67`).
- `CatchesUp`, two peers: only the peer that delivered a file asks for the next (`Peer.java:209`); a broken connection: its requests are lost while their transfers stay active (`PeerConnection.java:126`); dead links: bytes that arrived are not cut off and an older, shorter version never ends (`RecordStore.java:182`); a bad digest: `flush` throws before `activeTransfer` is cleared (`:183`).
- `KnownNotAsked`: `receive_metadata` looks a digest up among file names (`storage.cpp:175`), so it is never known; ":160 do we already know what this hash refers to?"

**Interfaces and STUN** (`Networks`, `AddressWalk`, `Stun`)
- `InterfaceUsed`: an address that is added before the old one is deleted loses the interface (`Networks.java:270`).
- `HeartbeatEverywhere`: the buffer is not rewound between interfaces (`:360`): all but the first get an empty packet.
- `InRange` without `First`: with the first address of its network as its own, a phone probes the network address, and the walk leaves the network (`IPInterface.java:82`).
- `RepliesComplete`, two ports: a slot of another port is overwritten though others are free (`stun.c:114`).
- `LengthTold`: the high byte of the length is always 0 (`stun.c:126`).
- `~overrun`: the table has 255 slots (`stun.c:40`) and the reply 3 bytes and 5 for each peer in a buffer of 1024 (`:66`, `:110-112`): with more than 204 peers on one port within ten seconds it is written past its end.

**Forms**
- `RangeCoder`, `TwoBitsConclude`: `range_conclude` needs more than the two bits of "arithmetic.c:472".
- `Smac`, `MidSequenceRefused`: a text cut inside a character is accepted (`unicode.c:58`); `NeverLonger`: the uncompressed form is never chosen (`smac.c:292`, against the comment `unicode.c:48`). The app's statistics are a mapped asset without a file (`compression.cpp:24`), in which the pages of unicode are looked for (`packed_stats.c:533`): a text with a character that is not ASCII ends the process (`Dies`). `InStep` without `Packed`: of a text field that is cut (`recipe_compress.c:359`) and packed as ASCII all characters of the text are written, and the decoder is out of step for the fields behind it; the recipes of the app have precision 0 and no such cut (`xhtml2recipe.c:118-132`, `:325`).
- `PackedStats`, `BlocksLoaded`, mode of blocks: `fread` without a seek (`packed_stats.c:200`). The tree in memory is descended by `charIdx`, which takes the digits 1 to 9 for one and all of unicode for another (`:371`), while the file is compared with the character itself (`:295`): with and without the tree such texts end in different contexts (`LongestContext` says which).
- `FieldCodec`: `AboveMaximumEscaped`, the number after the maximum becomes the escape symbol with no text (`recipe_compress.c:69`), and what follows is read as its text; `FixedPointKept`, a decimal is encoded in one bit (`:108`); `UuidBits`, precision counts bytes, not bits (`:412`, `recipe.h:29`); `TextWhole`, a long text is always cut (`:359`, `recipe.h:27`). `SymbolsInRange` without `Undated`: years from 0 to 2299 pass (`:147`), but the upper half of a time before 1970 or after 2038 is outside its alphabet (`:196`), and the coder drops it; fractions and the time zone are never encoded. Missing seconds are whatever the variable held (`:115`).
- `FormRecord`, `MissingFieldsAllowed`, any `UninitIndex`: `lookup_recipe` starts from an index that is never set (`compression.cpp:102`). `ParsedWhole` without `Long`: a line of 1000 or more characters is dropped with a line in the log (`recipe.c:366`, `:454-462`). `TooBigRefused`, a small room in `Rooms`: the coder has 1 KB and the output too, so "too big for output buffer" (`recipe_compress.c:564`) never happens, and most callers ignore that a full coder refuses a symbol (`:464-497`): the form is cut short in silence.
- `XhtmlRecipe`: `OptionsExact`, a select whose name begins with another's gets its options (`xhtml2recipe.c:395`), and text in several pieces becomes several options (`:401`); a select that is declared nowhere is a null pointer (`StrayOption`, `:389`); `FieldsInTheirForm` of a name that two forms have (`Shared`): every bind goes to the form that declared the name first, as the TODO at `:82` says; a bind of a name that is declared nowhere goes to the form of the bind before it, and ends the process if it is a sub-form's (`:271`, `:323`); sub-forms deeper than `subform_tags` has room for are not noticed (`:216`; `MaxDepth` stays below); `MainFirst`, the recipes are returned from wherever `curr_r` is (`:555`); `SubformsInTheirForm`, the bind of a sub-form goes to the bind before it (`:271`).
- `Strip`, `Reconstituted`, records with gaps: an empty field takes the value of a later record (`dexml.c:201`).
- `RecipeText`: a text that is empty or over 1 MB is refused (`recipe.c:155`), and if it is the first, `build_recipe` reads through the null pointer (`compression.cpp:69`; phase `dead`); `FieldLimit`, 1001 definitions are accepted (`recipe.c:192`); `EnumHasOption`, an empty list is one empty option (`:253`).

**LMDB**
- `Midl`, `FirstNotLess`: lists descend, and a search finds the first less or equal (`midl.c:62`, against `midl.h:88`).
- `LmdbTree`, two cursors or `PrevFromAny`: `NextFinds`, `C_EOF` survives a put of a larger key (`mdb.c:6667`); `NeverInError`, a cursor behind the last node is not moved along (`:8777`).
- `LmdbTxn`: `SnapshotHasTxnid`, a reader may have the roots of a later transaction than its number says (`lmdb.h:1020`); `CurrentIntact`, a failed meta page, a restart and a power failure bring back a transaction whose pages were reused (`mdb.c:4215`).

## 5. Proofs

TLAPS checks every theorem below for every value of the constants under the
named assumptions, which TLC evaluates on the runs. `PROJECT.json` lists them
with the property each states.

**`RecordStoreProofs`.** For every finite set of files, every set of bytes,
records and versions and files of every length (`FilesFinite`, `InputsAreBytes`,
`MaxLenNat`), `Spec` implies `[]TypeOK`, `[]CommittedOnDisk`,
`[]AppendCoherent`, `[]Findable`, `[]RootIsXor`, `[]MarksInRange`, and the action
properties `AppendOnly` and `TransferVerified`.

- `StorageInv` is the conjunction of the first three, none of which is inductive
  alone: that a committed digest is over the bytes on disk survives a flush only
  if the hash in progress has absorbed exactly the bytes on disk
  (`AppendCoherent`), which survives opening a file only if the committed state
  matches the disk (`CommittedOnDisk`). The lemmas are on prefixes and in-place
  writes (`PrefixFacts`, `WriteAtFacts`), on what an append leaves
  (`AppendFacts`), on the three outcomes of a flush (`FlushedFacts`,
  `FlushKeeps`, `FlushTypes`), and one per kind of step.
- `StepEffect` sorts the steps by what they do to the committed state: a step
  commits one new content of one file, drops the whole database, or leaves the
  committed state alone (`Commits`, `Clears`, `Leaves`). The other five follow
  from it without the actions.
- The root hash: XOR is symmetric difference, so a digest is in the root exactly
  when an odd number of files has it. `RootInv` says so of the root in the
  database and of the one in memory, and `CommitParity` that replacing one
  file's digest changes the parity of the old and the new digest and of no other.
- Marks: `MarksInv` adds that the saved marks of an open file are in range too,
  so that the first commit to a file that an upgrade left empty leaves no old
  mark behind; `LengthsGrow` says that a committed length shrinks only when the
  database is dropped.

**`MessageQueueProofs`.** For every capacity, size and number of messages,
members, kills and errors: `[]SeqsContiguous`, also with the UI thread
asking and leaving between any two steps; and `[]AcksRight`, `[]AttemptedOrAcked`
and `[]NoMessageLost` if `MaxAsks = 0` (section 4 has the counterexamples when it
asks). The invariant is `QueueInv`: types, `Where` (what each value of the program
counter says of iterator, buffer and last fragment), `Numbered` (each fragment's
number is its predecessor's or one more, with the buffer and `nextSeq` behind the
last, also between the append of a fragment and the emptying of the buffer) and
`Given` (nobody has a number or fragment that is not in the file). The steps are classified once for each of these:
`StepSeqs` (numbers are kept, begun, ended, cleared or recovered), `StepGives`,
`StepKeeps`. `SearchInv` is about the steps of `markAck`: the server has all
numbers up to the acknowledged one (`Confirmed`), its fragment lies ahead of the
iterator in the direction that was chosen (`Sought`), and is where the iterator
stops (`Passed`). `MarkAckFacts` says that the search begins on the right side,
wherever the iterator stands, and `AheadFacts` that a step cannot jump over the
fragment, since numbers ascend by at most one. `AtSending` ties the iterator to
the mark while a fragment is being offered; the UI thread's `hasUnsent` is what
breaks both, and `Alone` says that it does not run.

`NoMessageLost` rests on `PackedInv`, to which TLC found no counterexample on the
instances of `queue_crashes` before it was proved. `Stored` is what is written and
will not be emptied any more: between the append of a fragment and the emptying of
the buffer it is the file alone, so that no step ever takes anything away from it
(`StoredGrows`). `Marked` says that marked messages are whole in `Stored`, `Taken`
the same of those the source put since its mark, and `InHand` that `Stored`
followed by what is left of the message in hand ends with that message; the four
bytes too many that a restart leaves can only lie before its first unit.
`FlattenFacts` says what one fragment more does to the concatenation of all:
`FlattenSeq` is a recursive function, and that it exists and is unique is shown
with a shortest counterexample (`FoldExists`).

**`SeqTrackerProofs`.** `[]Canonical` and the refinement `TracksSet` of the set
by the list of ranges, for every `MaxSeq`. The invariant is
`TypeOK /\ Canonical`; lemmas say of each list operation (`InsertFacts`,
`MergeFacts`, `GrowFirstFacts`, `GrowLastFacts`) that the result ascends and
covers exactly one number more (or the same ones), and `ReloadStep` that parsing
inverts printing.

**`TeamProofs`.** Of the transports, for any number of fragments and parts, with or without
SMS and modem, and any number of drops, errors, failures and changes of airplane
mode: `[]TypeOK`, `[]OneInAir`, `[]ModemHeld`; and `[](NoCrash /\ TornDown)` if
the framework calls back on the UI thread and no message fails. Section 4 shows
that both conditions are needed. `TransportsInv` says what the loop of the queue
has handed over (`Handing`: the mark counts it), that a device belongs to a
connection (`Linked`), that what is in the air is the one fragment that is waited
for and none that has a final status (`Loaded`, `Airborne`), and that the modem's
own timeout is off while one is in the air (`StaysOn`). A step that touches none
of the messages is a `QuietStep` and is treated once. `Closing` adds, for the
second pair, that nothing is posted, that a closed queue is idle and that only
fragments that were handed over are in the driver's table.

Of the members, for any number of people, records, kills and messages:
`[]PositionsRight`. The list that a phone computes from the records is a recursive
function over them (`ListsOf`), so the invariant can speak of the list after so many
records: what a phone has in memory is one of these (`Listed`), a name that the EOC
has stands at its place of the whole list (`ToldRight`), and whoever has a position
was told to the EOC or will be by a record that is still to be sent (`ToldAll`),
which a kill between the send and the mark only makes come true again. That
positions are never taken back, and so agree however much of the file was read, is
`ListsFacts` and `ListsAppend`.

**`ArrivalProofs`.** Of the messages of the EOC, for any number of fragments from either side, kills,
refusals, outages and changes of the setting: `[]TypeOK`; and, if fragments come
from one side only (`OneSource`: no network or no satellite), `[]ReceivedKept`
and `[]ShownRight`. Section 4 has the counterexamples with both. `IncomingInv`
says of each thread where its fragment is (`OneThread`: the other one is idle,
the iterator and the alarm belong to the one that runs), that what the tracker
has, in memory or as saved text, is appended but for the one fragment the thread
has in hand (`Kept`), and that the records before the mark and those the iterator
has passed were shown (`Processed`). That the number asked for is the least one
missing rests on `LeastNumber`, a minimal counterexample in place of an
induction. A step that touches none of the files is a `QuietStep` and is treated
once. That a message is shown only once does not hold after a kill (section 4).

Of the files of other phones, for any number of peers, files, lost connections and
dead links, files of any length, messages of any size and a wire of any capacity
(`TransferBounds`): `[]CommittedWhole`. The invariant `TransferInv` says of every
place a byte passes what it may be: a transfer is of a version that its peer has
(`Offers`), also the one that fills a file; a metadata message names a version of
its sender and a block is a block of bytes at an offset (`Carried`), whoever sent
it and whatever it is a part of; and a file holds, up to its EOF, a version of a
peer (`WholeFile`). Blocks may therefore be of another version, come twice or late,
or start in the middle of what is there: `AppendAtFacts` says that `appendAt`
leaves what is committed as it is, and `FlushFacts` that `flush` commits exactly the
version whose digest it compares. The loops of `nextTransfer` and
`fillWriteBuffer` are recursive functions; `LoopExists` says that they exist, and
`Climb` that what a turn keeps the loop keeps. Versions only grow, and with them all
of these sets (`Monotone`), so each action is judged by the versions before it.

**`NetworkProofs`.** Of the interfaces, for any number of them, of addresses and of
changes: `[]InterfacesRight`. `TakenBack` says that an address that is used, or that
a message still in the netlink socket adds, is one of the kernel's, or a later
message takes it back; when the socket is empty that is `NeverStale`. `Found` says
the same of what is there and not used yet, while at most one change has happened:
with more, section 4 has the counterexample. The reading of the messages is a
recursive function whose turns are described by `NewsFacts`.

Of the STUN tool, for any number of senders, ports and slots, given that no packet
comes from port 0 (which marks a free slot): `[]TableRight`, since a sender that has
a slot is given that one and the slot says when it was last heard, and since a reply
has an entry for each of different peers that were heard, which bounds its length
by their number (`OverrunKeeps`); and the action property `RepliesRight`. Its first half follows from the types and the loop over
the table (`ToldFacts`); the second needs `AllKept`: as long as there is a slot for
everybody, a sender that was just heard is in the table. A turn whose reply does not
fit is not a `Receive`, and nothing is said of its reply. A packet of a new sender
finds a slot that is free or stale, because the senders that were heard lately are
fewer than the slots (a pigeonhole argument on `Heard`).

Of the walk, the action property `InRange` for addresses of any width, networks of
any size and every own address of a host; it makes no claim for the first, where
section 4 has the counterexample. `DecrFacts` says
that a decrease within the network does not wrap around, `NetworkOf` which network
a number belongs to; the invariant `Walks` is that the walk stays among the hosts
of one network, those between its first address and the broadcast address.

**Only model-checked.** All liveness (`DeliveredAlone`, `AllArrives`, `HandedOver`,
`SentAlone`, `WalkProbes`, `EventuallyEqual`): the prover has no rules for fairness.
`TransfersSound`: that the window of requests is exact is a sum over all messages
under way, whose changes would need an induction over each queue. `SyncSound` and
`DifferenceFound` are about tries; what the coders, recipes and parsers compute
(`CodedBack`, `AnswersKept`, `RecipesRight`, `DeclarationsKept`) and LMDB's trees
(`TreeSound`, `StoreSound`) likewise. These modules use recursive operators on trees,
texts and registers, which the prover does not take, and what they compute for
every input is an induction over data, which it cannot do either.


## 6. Not modelled

By decision: the tokenizer of expat and its encodings (tables of characters),
namespaces and the events of elements, which `XhtmlRecipe` takes as its input;
of LMDB nested transactions, sorted duplicates, overflow pages, `WRITEMAP` and
copies of an environment, none of which `storage.cpp` uses; which of two
connections between the same peers is kept, and links; location records (only
the last position of each person is ever sent), forms in the queue (queued as
chat is), the pieces of a fragment; the chat database (an SQLite mirror for the
screen), the UI but for the calls that race with the queue, the I/O loop (a thin
wrapper of `java.nio`), JNI glue; loss of the page cache of record files in a
power failure; two `RecordStore` objects of one file; wrap-around of 32-bit
sequence numbers; a database entry of another size
than the struct (`storage.cpp:377`), which is taken for a new file and can only be of
another build with the same version; the
growth of a file that two devices reconcile (`SyncKeys` has one digest per file, and
`RecordStore` the root over current digests); the cut of values at 1000 characters
and of the output at 64 KB when a form is stripped (`dexml.c:444`, `:315`), which the
lengths in `FormRecord` then stand for; a sub-form's element
and its version are one name, and names that differ only in case are not tried.
