---------------------------- MODULE TorrentFiles ----------------------------
(***************************************************************************)
(* The files of a torrent as metainfo sees them: file.go, piece.go and     *)
(* info.go compute which pieces and blocks a file needs, and in which file *)
(* a byte of the torrent is; writer.go and reader.go move blocks to and    *)
(* from the disk, one file after the other.                                *)
(*                                                                         *)
(* An application chooses files, computes their blocks and writes them in  *)
(* any order, repeating the ones that failed, while another goroutine      *)
(* reads.  The byte at position i of the torrent is i itself, so a byte    *)
(* that is in the wrong place shows.                                       *)
(***************************************************************************)
EXTENDS Integers, Sequences, FiniteSets, FiniteSetsExt

CONSTANTS
    Layouts,      \* the torrents: sequences of file lengths
    PieceLength,  \* info.PieceLength
    BlockLength,  \* 16384
    ReadLength,   \* the length of a read
    MaxFail       \* bound: the failures of the disk

ASSUME LayoutAssumption ==
    /\ \A l \in Layouts : l \in Seq(Nat) /\ \E f \in DOMAIN l : l[f] > 0
    /\ {PieceLength, BlockLength, ReadLength} \subseteq Nat \ {0}
    /\ MaxFail \in Nat

VARIABLES
    lengths,  \* the lengths of info.Files
    chosen,   \* the files that the application wants
    blocks,   \* the blocks that are not written yet
    disk,     \* the bytes of each file on the disk
    w,        \* the last call of WriteAt,
    r,        \* and of ReadAt, with what it has read and what was there before
    fails     \* failures so far

vars == <<lengths, chosen, blocks, disk, w, r, fails>>

\* A byte of a file that was skipped by a write behind it reads as zero.
Hole == -1

File == DOMAIN lengths

\* File.Offset: the position of the first byte of f in the torrent, and behind
\* the last file the length of the torrent.
Offsets ==
    [l \in Layouts |->
        LET start[f \in 1..(Len(l) + 1)] == IF f = 1 THEN 0 ELSE start[f - 1] + l[f - 1]
        IN  [f \in 1..(Len(l) + 1) |-> start[f]]]

Offset(f) == Offsets[lengths][f]

\* Info.TotalLength
TotalLength == Offset(Len(lengths) + 1)

-----------------------------------------------------------------------------
(***************************************************************************)
(* Pieces and blocks.  A part of a piece is called FilePiece in the code.  *)
(***************************************************************************)

FilePiece(i, off, len) == [index |-> i, offset |-> off, length |-> len]

\* GeneratePieces makes a hash of each PieceLength bytes and of the rest, if any.
CountPieces == Cardinality({i \in 0..TotalLength : i * PieceLength < TotalLength})

\* Piece.Length
LengthOfPiece(i) ==
    IF i = CountPieces - 1 THEN TotalLength - i * PieceLength ELSE PieceLength

PieceOffset(i, off) == i * PieceLength + off

\* The pieces of a file.  The last one is empty when the file ends with a piece.
FilePieces(f) ==
    LET start == Offset(f)
        end == start + lengths[f]
        first == start \div PieceLength
        last == end \div PieceLength
    IN  IF lengths[f] < 1 THEN {}
        ELSE IF first = last
        THEN {FilePiece(first, start % PieceLength, (end % PieceLength) - (start % PieceLength))}
        ELSE {FilePiece(first, start % PieceLength, PieceLength - (start % PieceLength))}
             \cup {FilePiece(i, 0, PieceLength) : i \in (first + 1)..(last - 1)}
             \cup {FilePiece(last, 0, end % PieceLength)}

\* FilePieces.Less
Less(a, b) == a.index < b.index \/ (a.index = b.index /\ a.offset < b.offset)

\* sort.Sort is not stable: parts that begin at the same place come in any order.
Sorted(fps) ==
    {s \in [1..Cardinality(fps) -> fps] :
        \A i, j \in DOMAIN s : i < j => s[i] # s[j] /\ ~Less(s[j], s[i])}

\* Mutant: a part is merged with whatever comes before it in its piece.
ContiguousInPiece(a, b) == a.index = b.index

Contiguous(a, b) == a.index = b.index /\ a.offset + a.length = b.offset

\* The last result is the part that grows.
MergeNext(done, fp) ==
    IF done # <<>> /\ Contiguous(done[Len(done)], fp)
    THEN [done EXCEPT ![Len(done)].length = @ + fp.length]
    ELSE Append(done, fp)

\* FilePieces.Merge of the sorted parts.
Merge(s) ==
    LET merged[n \in 0..Len(s)] == IF n = 0 THEN <<>> ELSE MergeNext(merged[n - 1], s[n])
    IN  merged[Len(s)]

\* FilePiece.Blocks
Blocks(fp) ==
    {FilePiece(fp.index, fp.offset + k * BlockLength, Min({BlockLength, fp.length - k * BlockLength})) :
        k \in {j \in 0..fp.length : j * BlockLength < fp.length}}

-----------------------------------------------------------------------------
(***************************************************************************)
(* Files                                                                   *)
(***************************************************************************)

\* Mutant: the byte behind a file is taken for one of the file.
GetFileByOffsetLate(off) ==
    LET hit == {f \in File : off <= Offset(f) + lengths[f]}
        f == IF hit = {} THEN Len(lengths) ELSE Min(hit)
    IN  [file |-> f, offset |-> off - Offset(f)]

\* Info.GetFileByOffset, which counts the offset down file by file: the end of
\* the torrent is in the last file.  Behind the end the whole length has been
\* taken off when the loop is over.
GetFileByOffset(off) ==
    LET last == Len(lengths)
        hit(f) == off < Offset(f + 1) \/ (f = last /\ off = TotalLength)
    IN  IF off <= TotalLength
        THEN LET f == CHOOSE g \in File : hit(g) /\ \A h \in 1..(g - 1) : ~hit(h)
             IN  [file |-> f, offset |-> off - Offset(f)]
        ELSE [file |-> last, offset |-> off - TotalLength]

\* Mutant: WriteAt does not stop at the end of a file.
ChunkToEnd(c) == c.len - c.n

\* The file that the loop of WriteAt or ReadAt works on, and the end of it.
Place(c) == GetFileByOffset(c.off + c.n)
AtEnd(c) == lengths[Place(c).file] \in {0, Place(c).offset}
Chunk(c) == Min({c.len - c.n, lengths[Place(c).file] - Place(c).offset})

Idle == [pc |-> "idle", off |-> 0, len |-> 0, n |-> 0, err |-> FALSE, got |-> <<>>, before |-> {}]
Call(off, len) == [Idle EXCEPT !.pc = "run", !.off = off, !.len = len]

-----------------------------------------------------------------------------
(***************************************************************************)
(* The disk                                                                *)
(***************************************************************************)

\* os.File.WriteAt of the next m bytes of a call, with a hole before them if
\* the file is shorter.
Stored(c, m) ==
    LET at == Place(c)
        old == disk[at.file]
        byte(i) == IF at.offset <= i /\ i < at.offset + m THEN c.off + c.n + i - at.offset
                   ELSE IF i < Len(old) THEN old[i + 1] ELSE Hole
    IN  [disk EXCEPT ![at.file] =
            [i \in 1..Max({Len(old), IF m = 0 THEN 0 ELSE at.offset + m}) |-> byte(i - 1)]]

\* os.File.ReadAt: what the file holds of the next bytes of a call.
Loaded(c) ==
    LET at == Place(c)
        end == Min({at.offset + Chunk(c), Len(disk[at.file])})
    IN  SubSeq(disk[at.file], at.offset + 1, end)

\* The positions of the torrent that are on the disk.
Present == (UNION {{disk[f][i] : i \in DOMAIN disk[f]} : f \in File}) \ {Hole}

Init ==
    /\ lengths \in Layouts
    /\ chosen = {}
    /\ blocks = {}
    /\ disk = [f \in File |-> <<>>]
    /\ w = Idle
    /\ r = Idle
    /\ fails = 0

\* The application computes the blocks of the files that it wants.
Choose(fs) ==
    /\ chosen = {}
    /\ chosen' = fs
    /\ \E s \in Sorted(UNION {FilePieces(f) : f \in fs}) :
          blocks' = UNION {Blocks(Merge(s)[i]) : i \in DOMAIN Merge(s)}
    /\ UNCHANGED <<lengths, disk, w, r, fails>>

\* writer.WriteBlock is called,
WriteBlock(b) ==
    /\ w.pc = "idle"
    /\ w' = Call(PieceOffset(b.index, b.offset), b.length)
    /\ UNCHANGED <<lengths, chosen, blocks, disk, r, fails>>

\* or, when all is done, WriteAt at the end of the torrent and over it.
WriteOverEnd ==
    /\ w.pc = "idle" /\ chosen # {} /\ blocks = {}
    /\ \E off \in {TotalLength - 1, TotalLength} : w' = Call(off, 2)
    /\ UNCHANGED <<lengths, chosen, blocks, disk, r, fails>>

\* One round of the loop of WriteAt: the part of the data that belongs to one
\* file is written, or some of it when the file cannot be opened or written.
WriteAt ==
    /\ w.pc = "run" /\ w.n < w.len
    /\ \/ /\ AtEnd(w)
          /\ w' = [w EXCEPT !.pc = "done", !.err = TRUE]
          /\ UNCHANGED <<disk, fails>>
       \/ /\ ~AtEnd(w)
          /\ disk' = Stored(w, Chunk(w))
          /\ w' = [w EXCEPT !.n = @ + Chunk(w)]
          /\ UNCHANGED fails
       \/ /\ ~AtEnd(w) /\ fails < MaxFail
          /\ \E m \in 0..(Chunk(w) - 1) :
                disk' = Stored(w, m) /\ w' = [w EXCEPT !.pc = "done", !.n = @ + m, !.err = TRUE]
          /\ fails' = fails + 1
    /\ UNCHANGED <<lengths, chosen, blocks, r>>

WriteReturns ==
    /\ w.pc = "run" /\ w.n = w.len
    /\ w' = [w EXCEPT !.pc = "done"]
    /\ UNCHANGED <<lengths, chosen, blocks, disk, r, fails>>

\* The application is done with a block that is written, and tries again if not.
Written ==
    /\ w.pc = "done"
    /\ blocks' = {b \in blocks : w.err \/ PieceOffset(b.index, b.offset) # w.off \/ b.length # w.len}
    /\ w' = Idle
    /\ UNCHANGED <<lengths, chosen, disk, r, fails>>

\* reader.ReadAt is called for some bytes.
Read(off, len) ==
    /\ r.pc = "idle" /\ chosen # {}
    /\ r' = [Call(off, len) EXCEPT !.before = Present]
    /\ UNCHANGED <<lengths, chosen, blocks, disk, w, fails>>

\* One round of the loop of ReadAt.  A file that is missing cannot be opened,
\* and one that is too short ends the call as well.
ReadAt ==
    /\ r.pc = "run" /\ r.n < r.len
    /\ \/ /\ AtEnd(r)
          /\ r' = [r EXCEPT !.pc = "done", !.err = TRUE]
       \/ /\ ~AtEnd(r)
          /\ LET bytes == Loaded(r)
                 short == Len(bytes) < Chunk(r)
             IN  r' = [r EXCEPT !.n = @ + Len(bytes), !.got = @ \o bytes, !.err = short,
                                !.pc = IF short THEN "done" ELSE "run"]
    /\ UNCHANGED <<lengths, chosen, blocks, disk, w, fails>>

\* Mutant: there is no loop over the files.
ReadReturnsEarly ==
    /\ r.pc = "run" /\ r.n > 0
    /\ r' = [r EXCEPT !.pc = "done"]
    /\ UNCHANGED <<lengths, chosen, blocks, disk, w, fails>>

ReadReturns ==
    /\ r.pc = "run" /\ r.n = r.len
    /\ r' = [r EXCEPT !.pc = "done"]
    /\ UNCHANGED <<lengths, chosen, blocks, disk, w, fails>>

ReadUsed ==
    /\ r.pc = "done"
    /\ r' = Idle
    /\ UNCHANGED <<lengths, chosen, blocks, disk, w, fails>>

Next ==
    \/ \E fs \in (SUBSET File) \ {{}} : Choose(fs)
    \/ \E b \in blocks : WriteBlock(b)
    \/ WriteOverEnd \/ WriteAt \/ WriteReturns \/ Written
    \/ ReadAt \/ ReadReturns \/ ReadUsed
    \/ \E off \in 0..TotalLength : Read(off, ReadLength)

Spec == Init /\ [][Next]_vars

\* The goroutines of the application run; the disk fails at most MaxFail times.
FairSpec ==
    /\ Spec
    /\ WF_vars(WriteAt) /\ WF_vars(WriteReturns \/ Written) /\ WF_vars(\E b \in blocks : WriteBlock(b))
    /\ WF_vars(ReadAt) /\ WF_vars(ReadReturns)

-----------------------------------------------------------------------------
TypeOK ==
    /\ lengths \in Layouts
    /\ chosen \subseteq File
    /\ blocks \subseteq [index : Nat, offset : 0..(PieceLength - 1), length : 1..BlockLength]
    /\ disk \in [File -> Seq(Int)]
    /\ {w, r} \subseteq [pc : {"idle", "run", "done"}, off : 0..TotalLength, len : Nat, n : Nat,
                         err : BOOLEAN, got : Seq(Int), before : SUBSET (0..(TotalLength - 1))]
    /\ fails \in 0..MaxFail

Positions(off, len) == off..(off + len - 1)
Bytes(b) == Positions(PieceOffset(b.index, b.offset), b.length)
ChosenBytes == UNION {Positions(Offset(f), lengths[f]) : f \in chosen}

(***************************************************************************)
(* A file on the disk is never longer than the torrent says and has each   *)
(* byte at its place, or a hole: GetFileByOffset and the loop of WriteAt   *)
(* find file and offset also for blocks that span files and for files that *)
(* are empty.                                                              *)
(***************************************************************************)
BytesInPlace ==
    \A f \in File :
        /\ Len(disk[f]) <= lengths[f]
        /\ \A i \in DOMAIN disk[f] : disk[f][i] \in {Hole, Offset(f) + i - 1}

(***************************************************************************)
(* The contract of io.ReaderAt, with a writer at work: fewer bytes if and  *)
(* only if there is an error; each byte is right, or a hole if it had not  *)
(* been written when the call began; and no error if all had been.         *)
(***************************************************************************)
ReadsAreRight ==
    r.pc = "done" =>
        /\ r.err <=> r.n < r.len
        /\ Positions(r.off, r.len) \subseteq r.before => ~r.err
        /\ \A i \in 1..r.n :
              \/ r.got[i] = r.off + i - 1
              \/ r.got[i] = Hole /\ r.off + i - 1 \notin r.before

(***************************************************************************)
(* FilePieces, Merge and Blocks lose nothing: each byte of a chosen file   *)
(* is on the disk or in a block that is still to be written, so the files  *)
(* are complete when no block is left, whatever failed in between.  Nor do *)
(* they ask for a byte twice, for one of another file, or for more than a  *)
(* piece has, although FilePieces may name a piece behind the last one.    *)
(***************************************************************************)
BlocksAreExact ==
    /\ ChosenBytes \subseteq Present \cup UNION {Bytes(b) : b \in blocks}
    /\ \A b \in blocks : b.index < CountPieces /\ b.offset + b.length <= LengthOfPiece(b.index)
    /\ \A b \in blocks : Bytes(b) \subseteq ChosenBytes
    /\ \A b, c \in blocks : b # c => Bytes(b) \cap Bytes(c) = {}

(***************************************************************************)
(* All blocks get written, and every read returns: the loops of WriteAt    *)
(* and ReadAt end.                                                         *)
(***************************************************************************)
DownloadFinishes == (chosen # {} ~> blocks = {}) /\ (r.pc = "run" ~> r.pc = "done")

=============================================================================
