---------------------------- MODULE RecordStore ----------------------------
(***************************************************************************)
(* The append-only record files of one team's storage: RecordStore.java    *)
(* and Storage.java above the native file/LMDB code of storage.cpp.        *)
(*                                                                         *)
(* A file's bytes live in an ordinary file (disk).  What is COMMITTED of   *)
(* it - length, SHA-256 digest and the hash state to carry on from - lives *)
(* in an LMDB database (files, index, rootDb), written in one transaction. *)
(* Everything else is memory and is lost when the process ends.  Bytes are *)
(* first appended to disk and absorbed by the in-progress hash, then       *)
(* flush() either commits them or rewinds to the committed state.          *)
(*                                                                         *)
(* Abstractions.  A hash state is the sequence of bytes it has absorbed.   *)
(* A digest is a vector over GF(2) in which distinct contents are          *)
(* independent: the singleton of the contents, combined by symmetric       *)
(* difference, so XOR cancels equal digests and nothing else.  The         *)
(* all-zero digest of a file that was never committed is the empty set.    *)
(* The per-file version counter, written but never compared, is left out.  *)
(***************************************************************************)
EXTENDS Integers, Sequences, FiniteSets

CONSTANTS
    Files,      \* relative paths of the store's files
    Byte,       \* what a byte can be
    Records,    \* the serialised records the app appends
    Versions,   \* the versions of files that peers have and send
    MarkNames,  \* names of the iterator marks kept beside a file
    MaxLen,     \* bound: no file grows past this many bytes
    NoTransfer  \* activeTransfer == null

ASSUME FilesFinite == IsFiniteSet(Files)
ASSUME InputsAreBytes == Records \subseteq Seq(Byte) \ {<<>>} /\ Versions \subseteq Seq(Byte) \ {<<>>}
ASSUME MaxLenNat == MaxLen \in Nat

VARIABLES
    disk,           \* contents of each file, committed or not (survives)
    files,          \* LMDB "files": what is committed of each file (survives)
    index,          \* LMDB "index": digest -> file name and length (survives)
    rootDb,         \* LMDB index["_"]: XOR of all the current digests (survives)
    markFile,       \* the .marks file beside each file, 0 where absent (survives)
    up,             \* the storage is open
    root,           \* dbstate.root: the root hash in memory
    state,          \* Storage.state: the root hash last passed to jniCallback
    syncKeys,       \* keys of sync_state; {} while it is not allocated
    synced,         \* dbstate.sync_state != NULL
    opened,         \* files with a RecordStore object
    native,         \* struct file_data of each open file
    EOF,            \* RecordStore.EOF
    appendOffset,   \* RecordStore.appendOffset
    activeTransfer, \* RecordStore.activeTransfer
    properties      \* RecordStore.properties: the marks in memory

persistent == <<disk, files, index, rootDb, markFile>>
dbVars == <<root, state, syncKeys, synced>>
fileVars == <<opened, native, EOF, appendOffset, activeTransfer, properties>>
vars == <<disk, files, index, rootDb, markFile, up, root, state, syncKeys, synced,
          opened, native, EOF, appendOffset, activeTransfer, properties>>

Contents == Seq(Byte)
Digest(c) == {c}
ZeroHash == {}
Xor(a, b) == (a \ b) \cup (b \ a)
NoMarks == [m \in MarkNames |-> 0]

Prefix(c, n) == SubSeq(c, 1, n)

(* The persisted part of struct file_data (PERSIST_LEN).  A missing entry   *)
(* and a freshly zeroed one with an initialised hash read the same.         *)
FileData == [length : Nat, hash : SUBSET Contents, partial_hash : Contents]
NoFile == [length |-> 0, hash |-> ZeroHash, partial_hash |-> <<>>]

(* struct file_data: the persisted part and the append in progress.         *)
NativeFile == [length : Nat, hash : SUBSET Contents, partial_hash : Contents,
               new_length : Nat, new_hash : Contents]
Loaded(d) == [length |-> d.length, hash |-> d.hash, partial_hash |-> d.partial_hash,
              new_length |-> d.length, new_hash |-> d.partial_hash]
Persisted(n) == [length |-> n.length, hash |-> n.hash, partial_hash |-> n.partial_hash]

IndexEntry == [name : Files, length : Nat]
Transfer == [newLength : Nat, expectedHash : Contents]

-----------------------------------------------------------------------------
(* Initially nothing was ever stored and the app is not running.            *)
Init ==
    /\ disk = [f \in Files |-> <<>>]
    /\ files = [f \in Files |-> NoFile]
    /\ index = [h \in {} |-> NoFile]
    /\ rootDb = ZeroHash
    /\ markFile = [f \in Files |-> NoMarks]
    /\ up = FALSE
    /\ root = ZeroHash
    /\ state = ZeroHash
    /\ syncKeys = {}
    /\ synced = FALSE
    /\ opened = {}
    /\ native = [f \in Files |-> Loaded(NoFile)]
    /\ EOF = [f \in Files |-> -1]
    /\ appendOffset = [f \in Files |-> 0]
    /\ activeTransfer = [f \in Files |-> NoTransfer]
    /\ properties = [f \in Files |-> NoMarks]

(* Storage(): open_db reloads the root hash, after dropping both databases  *)
(* when another VERSION of the app wrote them (stale), and reports it.      *)
(* The files' bytes and marks stay where they are.                          *)
OpenStorage(stale) ==
    /\ ~up
    /\ up' = TRUE
    /\ files' = IF stale THEN [f \in Files |-> NoFile] ELSE files
    /\ index' = IF stale THEN [h \in {} |-> NoFile] ELSE index
    /\ rootDb' = IF stale THEN ZeroHash ELSE rootDb
    /\ root' = rootDb'
    /\ state' = rootDb'
    /\ UNCHANGED <<disk, markFile, syncKeys, synced, fileVars>>

(* The process ends.  Storage.close() saves nothing that is not already on  *)
(* disk, so an orderly close and a kill leave the same behind.              *)
Gone ==
    /\ up' = FALSE
    /\ root' = ZeroHash
    /\ state' = ZeroHash
    /\ syncKeys' = {}
    /\ synced' = FALSE
    /\ opened' = {}
    /\ native' = [f \in Files |-> Loaded(NoFile)]
    /\ EOF' = [f \in Files |-> -1]
    /\ appendOffset' = [f \in Files |-> 0]
    /\ activeTransfer' = [f \in Files |-> NoTransfer]
    /\ properties' = [f \in Files |-> NoMarks]

Close ==
    /\ up
    /\ Gone
    /\ UNCHANGED persistent

(* RecordStore(): file_open loads the committed state and jniCallback sets  *)
(* EOF from it; appendOffset is still 0, so bytes beyond it are not cut     *)
(* off.  readProperties then loads the marks, or deletes the marks of an    *)
(* empty file.  (Every writer of the database stores a whole file_data, so  *)
(* that file_open meets no entry of another length, which it would read as  *)
(* an empty file.)                                                          *)
OpenFile_keepsMarks(f) ==
    LET d == files[f] IN
    /\ up
    /\ f \notin opened
    /\ opened' = opened \cup {f}
    /\ native' = [native EXCEPT ![f] = Loaded(d)]
    /\ EOF' = [EOF EXCEPT ![f] = d.length]
    /\ appendOffset' = [appendOffset EXCEPT ![f] = d.length]
    /\ properties' = [properties EXCEPT ![f] = markFile[f]]
    /\ UNCHANGED <<disk, files, index, rootDb, markFile, up, dbVars, activeTransfer>>

OpenFile_appendsAtStart(f) ==
    LET d == files[f] IN
    /\ up
    /\ f \notin opened
    /\ opened' = opened \cup {f}
    /\ native' = [native EXCEPT ![f] = Loaded(d)]
    /\ EOF' = [EOF EXCEPT ![f] = d.length]
    /\ markFile' = IF d.length = 0 THEN [markFile EXCEPT ![f] = NoMarks] ELSE markFile
    /\ properties' = [properties EXCEPT ![f] = IF d.length = 0 THEN NoMarks ELSE markFile[f]]
    /\ UNCHANGED <<disk, files, index, rootDb, up, dbVars, appendOffset, activeTransfer>>

OpenFile(f) ==
    LET d == files[f] IN
    /\ up
    /\ f \notin opened
    /\ opened' = opened \cup {f}
    /\ native' = [native EXCEPT ![f] = Loaded(d)]
    /\ EOF' = [EOF EXCEPT ![f] = d.length]
    /\ appendOffset' = [appendOffset EXCEPT ![f] = d.length]
    /\ markFile' = IF d.length = 0 THEN [markFile EXCEPT ![f] = NoMarks] ELSE markFile
    /\ properties' = [properties EXCEPT ![f] = IF d.length = 0 THEN NoMarks ELSE markFile[f]]
    /\ UNCHANGED <<disk, files, index, rootDb, up, dbVars, activeTransfer>>

(* file.seek(offset); file.write(bytes): overwrites in place, keeps what    *)
(* lies beyond.                                                             *)
WriteAt(c, offset, bytes) ==
    Prefix(c, offset) \o bytes \o SubSeq(c, offset + Len(bytes) + 1, Len(c))

(* file_append: absorb the bytes into the hash in progress.                 *)
Absorb(n, bytes) ==
    [n EXCEPT !.new_length = @ + Len(bytes), !.new_hash = @ \o bytes]

(* What file_flush returns for a file in state n: 0 nothing to do, -1 the   *)
(* hash is not the expected one or the transaction failed, 1 committed.     *)
NothingNew(n) == n.length = n.new_length
HashMatches_unchecked(n, expected) == TRUE
HashMatches(n, expected) == expected = {} \/ Digest(n.new_hash) \in expected
FlushRet(n, expected, commits) ==
    CASE NothingNew(n) -> 0
      [] ~NothingNew(n) /\ HashMatches(n, expected) /\ commits -> 1
      [] OTHER -> -1

Rewound_keepsHash(n) == [n EXCEPT !.new_length = n.length]
Rewound(n) == [n EXCEPT !.new_length = n.length, !.new_hash = n.partial_hash]
Advanced(n) == [n EXCEPT !.length = n.new_length, !.partial_hash = n.new_hash,
                         !.hash = Digest(n.new_hash)]

(* index[hash] = (name, length) of the new version; older keys stay.        *)
IndexPut_first(idx, key, name, length) ==
    [h \in DOMAIN idx \cup {key} |-> IF h \in DOMAIN idx THEN idx[h]
                                      ELSE [name |-> name, length |-> Len(key) - 1]]
IndexPut(idx, key, name, length) ==
    [h \in DOMAIN idx \cup {key} |-> IF h = key THEN [name |-> name, length |-> length]
                                                ELSE idx[h]]

(* jniCallback(length): cut the file back to the committed length when more *)
(* than that was appended.                                                  *)
Truncated(c, appended, length) == IF appended > length THEN Prefix(c, length) ELSE c

(* XOR the old and the new digest of a file with the root hash.             *)
NewRoot_keepsOld(r, old, new) == Xor(r, new)
NewRoot(r, old, new) == Xor(Xor(r, new), old)

(* sync_add_key, once there is a sync_state; older keys stay.               *)
SyncAdd(n, hash) == IF synced THEN syncKeys \cup hash ELSE syncKeys

(* RecordStore.flush on file f once the pending append is done: its bytes   *)
(* are c, appendOffset is a, the native state n and file_flush returns ret. *)
(* Commits in one LMDB transaction, then the copies in memory, the sync     *)
(* keys and the Java side (jniCallback) follow; or rewinds; or, with        *)
(* nothing new, only keeps the append.                                      *)
Flush(f, c, a, n, ret) ==
    LET n2 == CASE ret = 1 -> Advanced(n) [] ret = -1 -> Rewound(n) [] OTHER -> n
    IN
    /\ native' = [native EXCEPT ![f] = n2]
    /\ EOF' = IF ret = 0 THEN EOF ELSE [EOF EXCEPT ![f] = n2.length]
    /\ appendOffset' = [appendOffset EXCEPT ![f] = IF ret = 0 THEN a ELSE n2.length]
    /\ disk' = [disk EXCEPT ![f] = IF ret = 0 THEN c ELSE Truncated(c, a, n2.length)]
    /\ files' = IF ret = 1 THEN [files EXCEPT ![f] = Persisted(n2)] ELSE files
    /\ index' = IF ret = 1 THEN IndexPut(index, n2.partial_hash, f, n2.length) ELSE index
    /\ root' = IF ret = 1 THEN NewRoot(root, n.hash, n2.hash) ELSE root
    /\ rootDb' = IF ret = 1 THEN root' ELSE rootDb
    /\ state' = IF ret = 1 THEN root' ELSE state
    /\ syncKeys' = IF ret = 1 THEN SyncAdd(n, n2.hash) ELSE syncKeys

(* appendRecord: append the whole record and flush it.                      *)
AppendRecord(f, record, commits) ==
    LET n == Absorb(native[f], record)
        a == appendOffset[f] + Len(record)
    IN
    /\ f \in opened
    /\ a <= MaxLen
    /\ Flush(f, WriteAt(disk[f], appendOffset[f], record), a, n, FlushRet(n, {}, commits))
    /\ UNCHANGED <<markFile, up, synced, opened, activeTransfer, properties>>

(* The process dies in appendRecord after the write and before the commit.  *)
AppendRecordDies(f, record) ==
    /\ f \in opened
    /\ appendOffset[f] + Len(record) <= MaxLen
    /\ disk' = [disk EXCEPT ![f] = WriteAt(@, appendOffset[f], record)]
    /\ Gone
    /\ UNCHANGED <<files, index, rootDb, markFile>>

(* setTranfer: at most one transfer fills a file.                           *)
SetTransfer(f, t) ==
    /\ f \in opened
    /\ activeTransfer[f] = NoTransfer
    /\ activeTransfer' = [activeTransfer EXCEPT ![f] = t]
    /\ UNCHANGED <<persistent, up, dbVars, opened, native, EOF, appendOffset, properties>>

(* cancel: the peer that feeds the transfer is gone.                        *)
CancelTransfer(f) ==
    /\ f \in opened
    /\ activeTransfer[f] # NoTransfer
    /\ activeTransfer' = [activeTransfer EXCEPT ![f] = NoTransfer]
    /\ UNCHANGED <<persistent, up, dbVars, opened, native, EOF, appendOffset, properties>>

(* appendAt: a block of a peer's copy, at its offset there.  What this file *)
(* already has is skipped; a block beyond the end is refused.  When the     *)
(* transfer's length is reached the file is flushed against the expected    *)
(* hash; the transfer ends only if that does not throw.                     *)
AppendAt(f, fileOffset, bytes, commits) ==
    LET skip == appendOffset[f] - fileOffset
        rest == SubSeq(bytes, skip + 1, Len(bytes))
        n    == Absorb(native[f], rest)
        c    == WriteAt(disk[f], appendOffset[f], rest)
        a    == appendOffset[f] + Len(rest)
        t    == activeTransfer[f]
        full == t # NoTransfer /\ t.newLength = a
        ret  == FlushRet(n, {Digest(t.expectedHash)}, commits)
    IN
    /\ f \in opened
    /\ fileOffset <= appendOffset[f]
    /\ a <= MaxLen
    /\ \/ /\ full
          /\ Flush(f, c, a, n, ret)
          /\ activeTransfer' = IF ret = -1 THEN activeTransfer
                               ELSE [activeTransfer EXCEPT ![f] = NoTransfer]
       \/ /\ ~full
          /\ disk' = [disk EXCEPT ![f] = c]
          /\ native' = [native EXCEPT ![f] = n]
          /\ appendOffset' = [appendOffset EXCEPT ![f] = a]
          /\ UNCHANGED <<files, index, rootDb, root, state, syncKeys, EOF, activeTransfer>>
    /\ UNCHANGED <<markFile, up, synced, opened, properties>>

(* setMark: remember an iterator's offset, in memory and - unless nothing   *)
(* changes - on disk; an empty file keeps no marks file.                    *)
SetMark(f, m, offset) ==
    /\ f \in opened
    /\ properties[f][m] # offset
    /\ properties' = [properties EXCEPT ![f][m] = offset]
    /\ markFile' = [markFile EXCEPT ![f] = IF EOF[f] = 0 THEN NoMarks ELSE properties'[f]]
    /\ UNCHANGED <<disk, files, index, rootDb, up, dbVars, opened, native, EOF,
                   appendOffset, activeTransfer>>

(* The process dies in setMark once opening the marks file has emptied it.  *)
SetMarkDies(f, m, offset) ==
    /\ f \in opened
    /\ properties[f][m] # offset
    /\ markFile' = [markFile EXCEPT ![f] = NoMarks]
    /\ Gone
    /\ UNCHANGED <<disk, files, index, rootDb>>

(* init_sync_state: a session's first sync message loads the current hash   *)
(* of every committed file.                                                 *)
InitSyncState ==
    /\ up
    /\ ~synced
    /\ synced' = TRUE
    /\ syncKeys' = UNION {files[f].hash : f \in Files}
    /\ UNCHANGED <<persistent, up, root, state, fileVars>>

(* receive_metadata: a peer says which file and length a digest stands for. *)
(* It answers from its own index, so contents c is a version of that file.  *)
ReceiveMetadata(c, f) ==
    /\ up
    /\ synced
    /\ index' = IndexPut(index, c, f, Len(c))
    /\ UNCHANGED <<disk, files, rootDb, markFile, up, dbVars, fileVars>>

Next ==
    \/ \E stale \in BOOLEAN : OpenStorage(stale)
    \/ Close
    \/ InitSyncState
    \/ \E f \in Files :
        \/ OpenFile(f)
        \/ CancelTransfer(f)
        \/ \E r \in Records :
            \/ \E commits \in BOOLEAN : AppendRecord(f, r, commits)
            \/ AppendRecordDies(f, r)
        \/ \E v \in Versions :
            \/ SetTransfer(f, [newLength |-> Len(v), expectedHash |-> v])
            \/ \E offset \in 0..Len(v), end \in 1..Len(v), commits \in BOOLEAN :
                  AppendAt(f, offset, SubSeq(v, offset + 1, end), commits)
            \/ ReceiveMetadata(v, f)
        \/ \E m \in MarkNames : \E offset \in 0..EOF[f] :
            \/ SetMark(f, m, offset)
            \/ SetMarkDies(f, m, offset)

Spec == Init /\ [][Next]_vars

-----------------------------------------------------------------------------
(* Types, and what being open means: only an open storage has open files,   *)
(* and a RecordStore's EOF is -1 until its file is open.                     *)
TypeOK ==
    /\ disk \in [Files -> Contents]
    /\ files \in [Files -> FileData]
    /\ DOMAIN index \subseteq Contents
    /\ \A h \in DOMAIN index : index[h] \in IndexEntry
    /\ rootDb \subseteq Contents
    /\ markFile \in [Files -> [MarkNames -> Nat]]
    /\ up \in BOOLEAN
    /\ root \subseteq Contents
    /\ state \subseteq Contents
    /\ syncKeys \subseteq Contents
    /\ synced \in BOOLEAN
    /\ opened \subseteq Files
    /\ native \in [Files -> NativeFile]
    /\ EOF \in [Files -> Int]
    /\ appendOffset \in [Files -> Nat]
    /\ activeTransfer \in [Files -> Transfer \cup {NoTransfer}]
    /\ properties \in [Files -> [MarkNames -> Nat]]
    /\ \A f \in Files : IF f \in opened THEN up /\ EOF[f] \in Nat ELSE EOF[f] = -1

(* CommittedOnDisk: whatever was appended, cut short, rewound or lost in a   *)
(* crash, the bytes on disk below a file's committed length are the ones     *)
(* its committed digest was computed over (file_append, file_flush,          *)
(* jniCallback, RecordStore.append).                                         *)
CommittedOnDisk ==
    \A f \in Files :
        LET d == files[f] IN
        /\ d.length <= Len(disk[f])
        /\ d.partial_hash = Prefix(disk[f], d.length)
        /\ d.hash = IF d.length = 0 THEN ZeroHash ELSE Digest(Prefix(disk[f], d.length))

(* AppendCoherent: the Java side and the native side of an open file agree:  *)
(* EOF is the committed length, appendOffset the length in progress, and the *)
(* hash in progress has absorbed exactly the bytes on disk below it          *)
(* (RecordStore.append, appendAt, jniCallback; file_append, file_flush).     *)
AppendCoherent ==
    \A f \in opened :
        LET n == native[f] IN
        /\ Persisted(n) = files[f]
        /\ EOF[f] = n.length
        /\ appendOffset[f] = n.new_length
        /\ n.length <= n.new_length
        /\ n.new_length <= Len(disk[f])
        /\ n.new_hash = Prefix(disk[f], n.new_length)

(* RootIsXor: the root hash a store advertises to its peers is the one in    *)
(* the database, and holds a digest exactly when an odd number of files      *)
(* currently have it: it is the XOR of the current digests, and of no        *)
(* earlier one (file_flush's root update, open_db, Storage.jniCallback).     *)
Having(h) == {f \in Files : files[f].hash = Digest(h)}
RootIsXor ==
    /\ \A h \in rootDb : Cardinality(Having(h)) % 2 = 1
    /\ \A f \in Files : \A h \in files[f].hash :
          Cardinality(Having(h)) % 2 = 1 => h \in rootDb
    /\ up => root = rootDb /\ state = rootDb

(* IndexResolves: a peer that asks about the current digest of any committed *)
(* file gets an answer, with the length of the version the digest is of,     *)
(* whoever wrote the entry (file_flush, receive_metadata, send_metadata).    *)
IndexResolves ==
    /\ \A f \in Files : files[f].hash \subseteq DOMAIN index
    /\ \A h \in DOMAIN index : index[h].length = Len(h)

(* SyncKeysCurrent: once a session syncs, every file's current digest is     *)
(* among the keys the difference with a peer is computed from                *)
(* (init_sync_state, file_flush's sync_add_key).                             *)
SyncKeysCurrent ==
    synced => \A f \in Files : files[f].hash \subseteq syncKeys

(* Findable: a peer that syncs finds every committed file: its digest is     *)
(* among the keys, and the index says what the digest is of.                 *)
Findable == IndexResolves /\ SyncKeysCurrent

(* MarksInRange: RecordIterator.reset never finds a mark beyond the end of   *)
(* its file, which it answers with IllegalStateException - also after a      *)
(* crash, and after an upgrade emptied the database but not the marks files  *)
(* (setMark, flushProperties, readProperties).                               *)
MarksInRange ==
    /\ \A f \in opened, m \in MarkNames : properties[f][m] <= EOF[f]
    /\ \A f \in Files, m \in MarkNames :
          files[f].length = 0 \/ markFile[f][m] <= files[f].length

(* AppendOnly: no step other than opening a database of another version      *)
(* takes back or rewrites a committed byte, on disk or in the digest         *)
(* (append's seek, appendAt's skip, jniCallback's setLength).                *)
IsPrefixOf(s, t) == Len(s) <= Len(t) /\ s = Prefix(t, Len(s))
AppendOnly ==
    [][\A f \in Files :
          \/ ~up /\ up'
          \/ /\ IsPrefixOf(files[f].partial_hash, files'[f].partial_hash)
             /\ IsPrefixOf(files[f].partial_hash, disk'[f])]_vars

(* TransferVerified: a block from a peer makes new bytes part of the file    *)
(* only if the file is then byte for byte the version the transfer was for   *)
(* (appendAt's flush(expectedHash)).                                         *)
TransferVerified ==
    [][\A f \in Files :
          ( /\ activeTransfer[f] # NoTransfer
            /\ activeTransfer'[f] = NoTransfer
            /\ files'[f] # files[f]
            /\ up /\ up' )
          => Prefix(disk'[f], files'[f].length) = activeTransfer[f].expectedHash]_vars
=============================================================================
