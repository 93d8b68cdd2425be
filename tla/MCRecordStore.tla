--------------------------- MODULE MCRecordStore ---------------------------
(* RecordStore with two files of at most two bytes: long enough for a        *)
(* commit, an append on top of it that is rewound, and the next commit.      *)
EXTENDS RecordStore, TLC

CONSTANTS f1, f2, sent

MCFiles == {f1, f2}
MCByte == {0, 1}
MCRecords == {<<0>>, <<1>>}
MCVersions == {<<0, 1>>}
MCMarkNames == {sent}

MCSymmetry == Permutations(MCFiles)
=============================================================================
