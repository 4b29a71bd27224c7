------------------------------ MODULE LogFile ------------------------------
(***************************************************************************)
(* The format of leveldb's logs and manifests: a file of blocks, a record  *)
(* in one fragment or, over the ends of blocks, in several.  The writer    *)
(* may stop at any byte, by a crash or a write that fails and is followed  *)
(* by others; the reader has to find the records again.  A byte is the     *)
(* number of its fragment and its place in it; None is the filling of the  *)
(* end of a block.  A fragment whose bytes are not all there does not pass *)
(* the checksum, and neither does anything that is not one from its start. *)
(***************************************************************************)
EXTENDS Integers, SequencesExt

CONSTANTS
  None, Eof,
  BlockSize, HeaderSize,  \* kBlockSize, kHeaderSize
  Sizes,                  \* the sizes of records
  MaxRecords,             \* bound: records written
  MaxFailures             \* bound: writes that fail

SizesAssumption ==
  /\ HeaderSize \in Nat \ {0} /\ BlockSize \in Nat /\ BlockSize > HeaderSize
  /\ Sizes \subseteq Nat
  /\ Eof \notin Nat /\ Eof # None
  /\ None \notin Nat \cup (Nat \X Nat) \cup Seq(Nat)

VARIABLES
  file,          \* the bytes
  fragments,     \* the fragments emitted: record, type and length
  blockOffset,   \* block_offset_
  left, begin,   \* of AddRecord: what is left of the record (None: no call),
                 \* and whether its first fragment is to come
  added,         \* the records AddRecord was called for
  complete,      \* history: those it answered ok for, with the end of each
  failures,
  at,            \* the reader's place in the file, None before there is one, Eof at the end
  scratch,       \* its fragments of a record, None outside of one
  got            \* the records it returned, each with its fragments

writer == <<fragments, blockOffset, left, begin, added, complete, failures>>
reader == <<at, scratch, got>>
vars   == <<file, writer, reader>>

Init ==
  /\ file = <<>> /\ fragments = <<>> /\ blockOffset = 0
  /\ left = None /\ begin = FALSE
  /\ added = 0 /\ complete = <<>> /\ failures = 0
  /\ at = None /\ scratch = None /\ got = <<>>
-----------------------------------------------------------------------------
(* The writer                                                              *)

AddRecord(size) ==
  /\ at = None /\ left = None
  /\ added < MaxRecords
  /\ left' = size
  /\ begin' = TRUE
  /\ added' = added + 1
  /\ UNCHANGED <<file, fragments, blockOffset, complete, failures, reader>>

(* The bytes that fill a block with no room for a header.                  *)
Trailer ==
  LET leftover == BlockSize - blockOffset
  IN  IF leftover < HeaderSize THEN [i \in 1 .. leftover |-> None] ELSE <<>>

Offset == IF BlockSize - blockOffset < HeaderSize THEN 0 ELSE blockOffset

FragmentLength == Min({left, BlockSize - Offset - HeaderSize})

Type ==
  LET end == left = FragmentLength
  IN  CASE begin /\ end -> "full" [] begin /\ ~end -> "first"
        [] ~begin /\ end -> "last" [] OTHER -> "middle"

Fragment == [record |-> added, type |-> Type, length |-> FragmentLength]

Bytes == [i \in 1 .. HeaderSize + FragmentLength |-> <<Len(fragments) + 1, i>>]

(* One turn of AddRecord's loop: a fragment is emitted.                    *)
EmitPhysicalRecord ==
  /\ at = None /\ left # None
  /\ file' = file \o Trailer \o Bytes
  /\ fragments' = Append(fragments, Fragment)
  /\ blockOffset' = Offset + HeaderSize + FragmentLength
  /\ begin' = FALSE
  /\ IF left = FragmentLength
     THEN left' = None /\ complete' = Append(complete, [record |-> added, end |-> Len(file')])
     ELSE left' = left - FragmentLength /\ UNCHANGED complete
  /\ UNCHANGED <<added, failures, reader>>

(* Only m bytes of the filling of a block are written: nobody asks, and the*)
(* offset is that of the next block all the same.                          *)
FillFails(m) ==
  /\ at = None /\ left # None
  /\ failures < MaxFailures
  /\ failures' = failures + 1
  /\ m < Len(Trailer)
  /\ file' = file \o SubSeq(Trailer, 1, m)
  /\ blockOffset' = 0
  /\ UNCHANGED <<fragments, left, begin, added, complete, reader>>

(* Only n bytes of a fragment are written; AddRecord returns the error, and has    *)
(* moved its offset all the same.                                          *)
EmitFails(n) ==
  /\ at = None /\ left # None
  /\ failures < MaxFailures
  /\ failures' = failures + 1
  /\ n < HeaderSize + FragmentLength
  /\ file' = file \o Trailer \o SubSeq(Bytes, 1, n)
  /\ fragments' = Append(fragments, Fragment)
  /\ blockOffset' = Offset + HeaderSize + FragmentLength
  /\ left' = None
  /\ UNCHANGED <<begin, added, complete, reader>>

(* The writer stops, with the first bytes of the file on the disk, and a   *)
(* reader opens it.                                                        *)
Crash(bytes) ==
  /\ at = None
  /\ file' = SubSeq(file, 1, bytes)
  /\ at' = 0
  /\ UNCHANGED <<writer, scratch, got>>
-----------------------------------------------------------------------------
(* The reader                                                              *)

(* The end of the block buffer_ was read from, and of what was read.       *)
BlockEnd  == ((at \div BlockSize) + 1) * BlockSize
BufferEnd == Min({BlockEnd, Len(file)})

Reading == at # None /\ at # Eof

(* MUTANT of SkipTrailer: the end of a block is taken for that of the file.*)
SkipNothing ==
  /\ Reading
  /\ BufferEnd - at < HeaderSize
  /\ at' = Eof
  /\ UNCHANGED <<file, writer, scratch, got>>

(* There is no header in the rest of the buffer: the next block is read,   *)
(* or, if the last read was not a full one, the file has ended.            *)
SkipTrailer ==
  /\ Reading
  /\ BufferEnd - at < HeaderSize
  /\ at' = IF BufferEnd = BlockEnd THEN BlockEnd ELSE Eof
  /\ UNCHANGED <<file, writer, scratch, got>>

(* The fragment that starts here with all its bytes, or none.              *)
Here ==
  {f \in DOMAIN fragments :
     LET size == HeaderSize + fragments[f].length
     IN  /\ at + size <= BufferEnd
         /\ \A i \in 1 .. size : file[at + i] = <<f, i>>}

(* A fragment of the type is read and ReadRecord goes on.                  *)
ReadFragment(f) ==
  /\ at' = at + HeaderSize + fragments[f].length
  /\ CASE fragments[f].type = "full" ->
            got' = Append(got, <<f>>) /\ scratch' = None
       [] fragments[f].type = "first" ->
            scratch' = <<f>> /\ UNCHANGED got
       [] fragments[f].type = "middle" ->
            /\ scratch' = IF scratch = None THEN None ELSE Append(scratch, f)
            /\ UNCHANGED got
       [] fragments[f].type = "last" ->
            /\ got' = IF scratch = None THEN got ELSE Append(got, Append(scratch, f))
            /\ scratch' = None

(* MUTANT of BadRecord: what was read of a record is kept.                 *)
BadRecordKeeps == at' = BufferEnd /\ UNCHANGED <<scratch, got>>

(* MUTANT of BadRecord: the buffer is kept.                                *)
BadRecordStays == at' = at /\ scratch' = None /\ UNCHANGED got

(* Anything else - a length beyond the buffer, zeros, a wrong checksum -   *)
(* makes it drop the rest of the buffer and what it had of a record.       *)
BadRecord == at' = BufferEnd /\ scratch' = None /\ UNCHANGED got

ReadPhysicalRecord ==
  /\ Reading
  /\ BufferEnd - at >= HeaderSize
  /\ \/ \E f \in Here : ReadFragment(f)
     \/ Here = {} /\ BadRecord
  /\ UNCHANGED <<file, writer>>

Next ==
  \/ \E size \in Sizes : AddRecord(size)
  \/ EmitPhysicalRecord
  \/ \E m \in 0 .. HeaderSize : FillFails(m)
  \/ \E n \in 0 .. BlockSize : EmitFails(n)
  \/ \E bytes \in 0 .. Len(file) : Crash(bytes)
  \/ SkipTrailer
  \/ ReadPhysicalRecord

Spec == Init /\ [][Next]_vars
-----------------------------------------------------------------------------
RecordOf(g) == fragments[g[1]].record

IsIncreasing(g) == \A k, l \in DOMAIN g : k < l => g[k] < g[l]

(* If no write failed, a reader that has come to the end returned exactly  *)
(* the records whose last byte is on the disk: a crash at any byte costs   *)
(* those it cut off and no other, at the ends of blocks as well            *)
(* (log_reader.cc:156 "just ignore the entire logical record").            *)
CompleteRecordsAreRead ==
  at = Eof /\ failures = 0 =>
    /\ DOMAIN got = {j \in DOMAIN complete : complete[j].end <= Len(file)}
    /\ \A j \in DOMAIN got : RecordOf(got[j]) = complete[j].record

(* Whatever was lost on the way, a record that is returned is one that was *)
(* completely written, with all of its fragments in order: never the start *)
(* of one and the end of another, and none twice.                          *)
RecordsAreNotMixed ==
  \A i \in DOMAIN got :
    /\ ToSet(got[i]) = {f \in DOMAIN fragments :
                          fragments[f].record = RecordOf(got[i])}
    /\ IsIncreasing(got[i])
    /\ \E j \in DOMAIN complete : complete[j].record = RecordOf(got[i])
    /\ \A j \in 1 .. i - 1 : RecordOf(got[j]) < RecordOf(got[i])
=============================================================================
