------------------------- MODULE TorrentFilesProofs -------------------------
(***************************************************************************)
(* Proofs about TorrentFiles, for any torrents, any lengths of pieces,     *)
(* blocks and reads, and any number of failures of the disk.  Sums and     *)
(* merged lists are recursive functions; what they are is proved by        *)
(* induction, which is stated here for sets of numbers.                    *)
(***************************************************************************)
EXTENDS TorrentFiles, FiniteSetTheorems, TLAPS

\* A set of numbers has a least element.
LEMMA LeastNumber ==
    ASSUME NEW S \in SUBSET Nat, S # {}
    PROVE  \E m \in S : \A n \in S : m <= n
<1>1. PICK m \in S : \A y \in S : ~(<<y, m>> \in OpToRel(<, Nat))
  BY NatLessThanWellFounded, WFMin, Zenon
<1>2. \A y \in S : ~(y < m)
  BY <1>1 DEF OpToRel
<1>3. QED
  BY <1>2

\* Induction: a set with the first number that has with each its successor.
LEMMA NumbersFrom ==
    ASSUME NEW a \in Nat, NEW b \in Nat, NEW T, a \in T,
           \A n \in a..(b - 1) : n \in T => n + 1 \in T
    PROVE  a..b \subseteq T
<1>1. SUFFICES ASSUME (a..b) \ T # {} PROVE FALSE
  BY Zenon
<1>2. (a..b) \ T \in SUBSET Nat
  OBVIOUS
<1>3. PICK m \in (a..b) \ T : \A n \in (a..b) \ T : m <= n
  BY <1>1, <1>2, LeastNumber, Zenon
<1>4. m \in a..b /\ m \notin T /\ m # a
  BY <1>3, Zenon
<1>5. m - 1 \in a..(b - 1) /\ m - 1 \in a..b /\ ~(m <= m - 1) /\ (m - 1) + 1 = m
  BY <1>4
<1>6. QED
  BY <1>3, <1>4, <1>5, Zenon

-----------------------------------------------------------------------------
(***************************************************************************)
(* The files of a torrent                                                  *)
(***************************************************************************)

\* The function that start is defined to be: the sums of the lengths.
IsSum(g, l, n) ==
    /\ g \in [1..n -> Nat]
    /\ g[1] = 0
    /\ \A f \in 1..(n - 1) : g[f + 1] = g[f] + l[f]

\* There is one for each part of the list of files.
LEMMA SumExists ==
    ASSUME NEW l \in Seq(Nat)
    PROVE  \E g : IsSum(g, l, Len(l) + 1)
<1> DEFINE T == {n \in Nat : \E g : IsSum(g, l, n)}
<1>1. Len(l) \in Nat /\ \A f \in 1..Len(l) : l[f] \in Nat
  OBVIOUS
<1>2. 1 \in T
  <2>1. IsSum([f \in 1..1 |-> 0], l, 1)
    BY DEF IsSum
  <2>2. QED
    BY <2>1
<1>3. ASSUME NEW n \in 1..Len(l), n \in T PROVE n + 1 \in T
  <2>1. PICK g : IsSum(g, l, n)
    BY <1>3
  <2> DEFINE h == [f \in 1..(n + 1) |-> IF f = n + 1 THEN g[n] + l[n] ELSE g[f]]
  <2>2. \A f \in 1..n : g[f] \in Nat /\ h[f] = g[f]
    BY <2>1, <1>1 DEF IsSum
  <2>3. h[n + 1] = g[n] + l[n] /\ h[n + 1] \in Nat
    <3>1. n + 1 \in 1..(n + 1) /\ n \in 1..n
      OBVIOUS
    <3>2. h[n + 1] = g[n] + l[n]
      BY <3>1, Zenon
    <3>3. g[n] \in Nat /\ l[n] \in Nat
      BY <3>1, <2>2, <1>1, Zenon
    <3> HIDE DEF h
    <3>4. QED
      BY <3>2, <3>3
  <2>4. h \in [1..(n + 1) -> Nat]
    <3>1. \A f \in 1..(n + 1) : f \in 1..n \/ f = n + 1
      OBVIOUS
    <3>2. \A f \in 1..(n + 1) : h[f] \in Nat
      BY <3>1, <2>2, <2>3, Zenon
    <3>3. QED
      BY <3>2, Zenon
  <2>5. h[1] = 0
    BY <2>1, <2>2 DEF IsSum
  <2>6. ASSUME NEW f \in 1..n PROVE h[f + 1] = h[f] + l[f]
    <3>1. CASE f = n
      BY <3>1, <2>2, <2>3
    <3>2. CASE f # n
      <4>1. f \in 1..(n - 1) /\ f + 1 \in 1..n
        BY <3>2
      <4>2. QED
        BY <4>1, <2>1, <2>2 DEF IsSum
    <3>3. QED
      BY <3>1, <3>2
  <2> HIDE DEF h
  <2>7. IsSum(h, l, n + 1)
    BY <2>4, <2>5, <2>6 DEF IsSum
  <2>8. QED
    BY <2>7
<1> HIDE DEF T
<1>4. 1..(Len(l) + 1) \subseteq T
  <2>1. 1 \in Nat /\ Len(l) + 1 \in Nat /\ 1..((Len(l) + 1) - 1) = 1..Len(l)
    BY <1>1
  <2>2. \A n \in 1..((Len(l) + 1) - 1) : n \in T => n + 1 \in T
    BY <2>1, <1>3, Zenon
  <2>3. QED
    BY <2>1, <2>2, <1>2, NumbersFrom, Zenon
<1>5. Len(l) + 1 \in T
  BY <1>1, <1>4
<1>6. QED
  BY <1>5 DEF T

\* File.Offset adds the lengths of the files before.
LEMMA OffsetsAreSums ==
    ASSUME NEW l \in Layouts
    PROVE  IsSum(Offsets[l], l, Len(l) + 1)
<1> DEFINE start == CHOOSE g : g = [f \in 1..(Len(l) + 1) |-> IF f = 1 THEN 0 ELSE g[f - 1] + l[f - 1]]
<1>1. l \in Seq(Nat) /\ Len(l) \in Nat
  BY LayoutAssumption
<1>2. PICK g : IsSum(g, l, Len(l) + 1)
  BY <1>1, SumExists
<1>3. g = [f \in 1..(Len(l) + 1) |-> IF f = 1 THEN 0 ELSE g[f - 1] + l[f - 1]]
  <2>1. ASSUME NEW f \in 1..(Len(l) + 1)
        PROVE  g[f] = IF f = 1 THEN 0 ELSE g[f - 1] + l[f - 1]
    <3>1. f = 1 \/ (f - 1 \in 1..((Len(l) + 1) - 1) /\ (f - 1) + 1 = f /\ f # 1)
      BY <1>1
    <3>2. QED
      BY <1>2, <3>1, Zenon DEF IsSum
  <2>2. g = [f \in 1..(Len(l) + 1) |-> g[f]]
    BY <1>2, Zenon DEF IsSum
  <2>3. QED
    BY <2>1, <2>2, Zenon
<1>4. start = [f \in 1..(Len(l) + 1) |-> IF f = 1 THEN 0 ELSE start[f - 1] + l[f - 1]]
  BY <1>3, Zenon
<1>5. Offsets[l] = [f \in 1..(Len(l) + 1) |-> start[f]]
  BY Zenon DEF Offsets
<1> HIDE DEF start
<1>6. \A f \in 1..(Len(l) + 1) : start[f] = g[f]
  <2> DEFINE T == {f \in Nat : start[f] = g[f]}
  <2>1. 1 \in T
    BY <1>1, <1>2, <1>4 DEF IsSum
  <2>2. ASSUME NEW n \in 1..((Len(l) + 1) - 1), n \in T PROVE n + 1 \in T
    <3>1. n + 1 \in 1..(Len(l) + 1) /\ n + 1 # 1 /\ (n + 1) - 1 = n /\ n \in 1..((Len(l) + 1) - 1)
      BY <1>1
    <3>2. start[n + 1] = start[n] + l[n] /\ g[n + 1] = g[n] + l[n]
      BY <1>2, <1>4, <3>1 DEF IsSum
    <3>3. QED
      BY <2>2, <3>1, <3>2
  <2> HIDE DEF T
  <2>3. 1..(Len(l) + 1) \subseteq T
    <3>1. 1 \in Nat /\ Len(l) + 1 \in Nat
      BY <1>1
    <3>2. QED
      BY <3>1, <2>1, <2>2, NumbersFrom, Zenon
  <2>4. QED
    BY <2>3 DEF T
<1>7. Offsets[l] = g
  BY <1>1, <1>2, <1>5, <1>6 DEF IsSum
<1>8. QED
  BY <1>2, <1>7, Zenon

\* The files follow one another and fill the torrent, which is not empty.
LEMMA Layout ==
    ASSUME lengths \in Layouts
    PROVE  /\ Len(lengths) \in Nat /\ File = 1..Len(lengths)
           /\ \A f \in File : lengths[f] \in Nat /\ Offset(f + 1) = Offset(f) + lengths[f]
           /\ Offset(1) = 0
           /\ \A f \in 1..(Len(lengths) + 1) : Offset(f) \in Nat
           /\ \A f, g \in 1..(Len(lengths) + 1) : f <= g => Offset(f) <= Offset(g)
           /\ TotalLength \in Nat /\ TotalLength > 0
<1> DEFINE N == Len(lengths) + 1
<1>1. lengths \in Seq(Nat) /\ \E f \in DOMAIN lengths : lengths[f] > 0
  BY LayoutAssumption
<1>2. Len(lengths) \in Nat /\ File = 1..Len(lengths) /\ \A f \in File : lengths[f] \in Nat
  BY <1>1 DEF File
<1>3. IsSum(Offsets[lengths], lengths, N)
  BY OffsetsAreSums
<1>4. /\ \A f \in 1..N : Offset(f) \in Nat
      /\ Offset(1) = 0
      /\ \A f \in File : Offset(f + 1) = Offset(f) + lengths[f]
  <2>1. File = 1..(N - 1)
    BY <1>2
  <2> HIDE DEF N
  <2>2. QED
    BY <1>3, <2>1, Zenon DEF IsSum, Offset
<1>5. ASSUME NEW f \in 1..N, NEW g \in 1..N, f <= g PROVE Offset(f) <= Offset(g)
  <2> DEFINE T == {h \in f..N : Offset(f) <= Offset(h)}
  <2>1. f \in T
    BY <1>2, <1>4
  <2>2. ASSUME NEW n \in f..(N - 1), n \in T PROVE n + 1 \in T
    <3>1. n \in File /\ n \in 1..N /\ n + 1 \in 1..N /\ n + 1 \in f..N
      BY <1>2
    <3>2. lengths[n] \in Nat /\ Offset(n + 1) = Offset(n) + lengths[n] /\ Offset(n) \in Nat /\ Offset(f) \in Nat
      BY <3>1, <1>2, <1>4, Zenon
    <3>3. Offset(f) <= Offset(n)
      BY <2>2
    <3>4. Offset(f) <= Offset(n + 1)
      BY <3>2, <3>3
    <3>5. QED
      BY <3>1, <3>4
  <2>3. f \in Nat /\ N \in Nat /\ g \in f..N
    BY <1>2, <1>5
  <2> HIDE DEF T, N
  <2>4. f..N \subseteq T
    BY <2>1, <2>2, <2>3, NumbersFrom, Zenon
  <2>5. QED
    BY <2>3, <2>4 DEF T
<1>6. TotalLength \in Nat /\ TotalLength > 0
  <2>1. PICK f \in File : lengths[f] > 0
    BY <1>1 DEF File
  <2>2. f \in 1..N /\ f + 1 \in 1..N /\ N \in 1..N /\ f + 1 <= N
    BY <1>2
  <2>3. Offset(f + 1) <= Offset(N)
    BY <2>2, <1>5
  <2>4. Offset(f + 1) = Offset(f) + lengths[f] /\ Offset(f) \in Nat /\ lengths[f] \in Nat /\ Offset(N) \in Nat
    BY <2>2, <1>2, <1>4, Zenon
  <2>5. TotalLength = Offset(N)
    BY DEF TotalLength
  <2> HIDE DEF N
  <2>6. QED
    BY <2>1, <2>3, <2>4, <2>5
<1>7. QED
  BY <1>2, <1>4, <1>5, <1>6, Zenon

\* A position inside of two files: they are the same.
LEMMA FilesAreDisjoint ==
    ASSUME lengths \in Layouts, NEW f \in File, NEW g \in File, NEW p \in Int,
           Offset(f) <= p, p < Offset(f) + lengths[f], Offset(g) <= p, p < Offset(g) + lengths[g]
    PROVE  f = g
<1>1. f \in 1..Len(lengths) /\ g \in 1..Len(lengths) /\ Len(lengths) \in Nat
  BY Layout, Zenon
<1>2. /\ f \in 1..(Len(lengths) + 1) /\ f + 1 \in 1..(Len(lengths) + 1)
      /\ g \in 1..(Len(lengths) + 1) /\ g + 1 \in 1..(Len(lengths) + 1)
  BY <1>1
<1>3. Offset(f) \in Nat /\ Offset(g) \in Nat /\ Offset(f + 1) \in Nat /\ Offset(g + 1) \in Nat
  BY <1>2, Layout, Zenon
<1>4. Offset(f + 1) = Offset(f) + lengths[f] /\ Offset(g + 1) = Offset(g) + lengths[g]
  BY Layout, Zenon
<1>5. f + 1 <= g => Offset(f + 1) <= Offset(g)
  BY <1>2, Layout, Zenon
<1>6. g + 1 <= f => Offset(g + 1) <= Offset(f)
  BY <1>2, Layout, Zenon
<1>7. ~(f + 1 <= g) /\ ~(g + 1 <= f)
  BY <1>3, <1>4, <1>5, <1>6
<1>8. QED
  BY <1>1, <1>7

\* A file is inside of the torrent.
LEMMA FileInTorrent ==
    ASSUME lengths \in Layouts, NEW f \in File
    PROVE  Offset(f) \in Nat /\ lengths[f] \in Nat /\ Offset(f) + lengths[f] <= TotalLength
<1>1. f \in 1..Len(lengths) /\ Len(lengths) \in Nat
  BY Layout, Zenon
<1>2. f \in 1..(Len(lengths) + 1) /\ f + 1 \in 1..(Len(lengths) + 1) /\ f + 1 <= Len(lengths) + 1
      /\ Len(lengths) + 1 \in 1..(Len(lengths) + 1)
  BY <1>1
<1>3. QED
  BY <1>2, Layout, Zenon DEF TotalLength

\* GetFileByOffset finds the file and the offset in it, and skips empty files;
\* the end of the torrent is the end of a file.
LEMMA FileAt ==
    ASSUME lengths \in Layouts, NEW off \in 0..TotalLength, NEW at, at = GetFileByOffset(off)
    PROVE  /\ at.file \in File /\ at.offset \in Nat
           /\ off = Offset(at.file) + at.offset
           /\ IF off < TotalLength THEN at.offset < lengths[at.file] ELSE at.offset = lengths[at.file]
<1> DEFINE last == Len(lengths)
           hit(f) == off < Offset(f + 1) \/ (f = last /\ off = TotalLength)
           H == {g \in File : hit(g)}
           first(g) == hit(g) /\ \A h \in 1..(g - 1) : ~hit(h)
<1>1. Len(lengths) \in Nat /\ File = 1..Len(lengths) /\ TotalLength \in Nat /\ TotalLength > 0 /\ Offset(1) = 0
  BY Layout, Zenon
<1>2. TotalLength = Offset(last + 1)
  BY DEF TotalLength
<1>3. \E g \in File : first(g)
  <2>1. last # 0
    BY <1>1, <1>2
  <2>2. last \in H
    BY <1>1, <1>2, <2>1
  <2>3. H \in SUBSET Nat
    BY <1>1
  <2>4. PICK m \in H : \A n \in H : m <= n
    BY <2>2, <2>3, LeastNumber, Zenon
  <2>5. \A h \in 1..(m - 1) : h \in File /\ ~(m <= h)
    BY <2>4, <1>1
  <2>6. \A h \in 1..(m - 1) : ~hit(h)
    BY <2>4, <2>5, Zenon
  <2>7. QED
    BY <2>4, <2>6, Zenon
<1> DEFINE f == CHOOSE g \in File : first(g)
<1>4. f \in File /\ first(f)
  BY <1>3, Zenon
<1>5. off <= TotalLength /\ off \in Nat
  BY <1>1
<1>6. at = [file |-> f, offset |-> off - Offset(f)]
  BY <1>5, Zenon DEF GetFileByOffset
<1>7. hit(f) /\ \A h \in 1..(f - 1) : ~hit(h)
  BY <1>4, Zenon
<1> HIDE DEF f, first
<1>8. Offset(f) \in Nat /\ lengths[f] \in Nat /\ Offset(f + 1) = Offset(f) + lengths[f] /\ Offset(f + 1) <= TotalLength
  BY <1>4, FileInTorrent, Layout, Zenon
<1>9. Offset(f) <= off
  <2>1. CASE f = 1
    BY <2>1, <1>1, <1>5
  <2>2. CASE f # 1
    <3>1. f - 1 \in 1..(f - 1) /\ (f - 1) + 1 = f
      BY <2>2, <1>1, <1>4
    <3>2. ~(off < Offset(f))
      BY <3>1, <1>7, Zenon
    <3>3. QED
      BY <3>2, <1>5, <1>8
  <2>3. QED
    BY <2>1, <2>2
<1>10. off < Offset(f + 1) \/ (f = last /\ off = TotalLength /\ Offset(f + 1) = TotalLength)
  BY <1>2, <1>7, Zenon
<1>11. at.file = f /\ at.offset = off - Offset(f)
  BY <1>6
<1> HIDE DEF last, hit
<1>12. off - Offset(f) \in Nat /\ off = Offset(f) + (off - Offset(f))
  BY <1>5, <1>8, <1>9
<1>13. off < TotalLength => off - Offset(f) < lengths[f]
  BY <1>1, <1>5, <1>8, <1>10
<1>14. ~(off < TotalLength) => off - Offset(f) = lengths[f]
  BY <1>1, <1>5, <1>8, <1>10
<1>15. QED
  BY <1>4, <1>11, <1>12, <1>13, <1>14, Zenon

-----------------------------------------------------------------------------
(***************************************************************************)
(* The disk                                                                *)
(***************************************************************************)

\* The smaller and the larger of two numbers.
LEMMA MinOfTwo ==
    ASSUME NEW a \in Int, NEW b \in Int
    PROVE  Min({a, b}) = IF a <= b THEN a ELSE b
<1>1. \E x \in {a, b} : \A y \in {a, b} : x <= y
  OBVIOUS
<1>2. Min({a, b}) \in {a, b} /\ \A y \in {a, b} : Min({a, b}) <= y
  BY <1>1, Zenon DEF Min
<1>3. QED
  BY <1>2

\* The larger of two numbers, for the length of a file that a write may extend.
LEMMA MaxOfTwo ==
    ASSUME NEW a \in Int, NEW b \in Int
    PROVE  Max({a, b}) = IF a >= b THEN a ELSE b
<1>1. \E x \in {a, b} : \A y \in {a, b} : x >= y
  OBVIOUS
<1>2. Max({a, b}) \in {a, b} /\ \A y \in {a, b} : Max({a, b}) >= y
  BY <1>1, Zenon DEF Max
<1>3. QED
  BY <1>2

\* A call that is not at the end of its bytes and not behind the torrent.
Running(c) == {c.off, c.n, c.len} \subseteq Nat /\ c.n < c.len /\ c.off + c.n <= TotalLength

\* The loop of WriteAt and ReadAt ends at the end of the torrent and not
\* before, and what a round moves is in one file and one call.
LEMMA RoundFacts ==
    ASSUME lengths \in Layouts, NEW c, Running(c), NEW at, at = Place(c)
    PROVE  /\ at.file \in File /\ at.offset \in Nat /\ lengths[at.file] \in Nat
           /\ c.off + c.n = Offset(at.file) + at.offset
           /\ AtEnd(c) => c.off + c.n = TotalLength
           /\ ~AtEnd(c) => /\ Chunk(c) \in Nat /\ Chunk(c) > 0
                           /\ c.n + Chunk(c) <= c.len
                           /\ at.offset + Chunk(c) <= lengths[at.file]
<1> DEFINE off == c.off + c.n
<1>1. TotalLength \in Nat /\ {c.off, c.n, c.len} \subseteq Nat /\ c.n < c.len /\ c.off + c.n <= TotalLength
  BY Layout, Zenon DEF Running
<1>2. off \in 0..TotalLength /\ at = GetFileByOffset(off)
  BY <1>1 DEF Place
<1> HIDE DEF off
<1>3. /\ at.file \in File /\ at.offset \in Nat
      /\ off = Offset(at.file) + at.offset
      /\ IF off < TotalLength THEN at.offset < lengths[at.file] ELSE at.offset = lengths[at.file]
  BY <1>2, FileAt, Zenon
<1>4. lengths[at.file] \in Nat
  BY <1>3, Layout, Zenon
<1>5. AtEnd(c) <=> (lengths[at.file] = 0 \/ lengths[at.file] = at.offset)
  BY DEF AtEnd
<1>6. Chunk(c) = Min({c.len - c.n, lengths[at.file] - at.offset})
  BY DEF Chunk
<1>7. ASSUME AtEnd(c) PROVE off = TotalLength
  BY <1>2, <1>3, <1>4, <1>5, <1>7, <1>1
<1>8. ASSUME ~AtEnd(c) PROVE at.offset < lengths[at.file]
  <2>1. lengths[at.file] # at.offset
    BY <1>5, <1>8, Zenon
  <2>2. QED
    BY <2>1, <1>3, Zenon
<1>9. ASSUME ~AtEnd(c)
      PROVE  /\ Chunk(c) \in Nat /\ Chunk(c) > 0
             /\ c.n + Chunk(c) <= c.len
             /\ at.offset + Chunk(c) <= lengths[at.file]
  <2> DEFINE a == c.len - c.n
             b == lengths[at.file] - at.offset
  <2>1. a \in Nat /\ a > 0 /\ b \in Nat /\ b > 0
    BY <1>1, <1>3, <1>4, <1>8, <1>9
  <2>2. Chunk(c) \in {a, b} /\ Chunk(c) <= a /\ Chunk(c) <= b
    BY <2>1, <1>6, MinOfTwo
  <2>3. Chunk(c) \in Nat /\ Chunk(c) > 0
    BY <2>1, <2>2
  <2>4. c.n + Chunk(c) <= c.len /\ at.offset + Chunk(c) <= lengths[at.file]
    BY <2>2, <2>3, <1>1, <1>3, <1>4
  <2>5. QED
    BY <2>3, <2>4
<1>10. QED
  BY <1>3, <1>4, <1>7, <1>9, Zenon DEF off

\* The position p of the torrent is on the disk.
LEMMA PresentMeans ==
    ASSUME NEW p
    PROVE  p \in Present <=> p # Hole /\ \E f \in File : \E i \in DOMAIN disk[f] : disk[f][i] = p
BY DEF Present

\* A position that is present is in the file that it belongs to.
LEMMA PresentInPlace ==
    ASSUME lengths \in Layouts, disk \in [File -> Seq(Int)], BytesInPlace,
           NEW f \in File, NEW i \in 1..lengths[f], Offset(f) + i - 1 \in Present
    PROVE  i \in DOMAIN disk[f] /\ disk[f][i] = Offset(f) + i - 1
<1> DEFINE p == Offset(f) + i - 1
<1>1. Offset(f) \in Nat /\ lengths[f] \in Nat
  BY FileInTorrent, Zenon
<1>2. p \in Int /\ Offset(f) <= p /\ p < Offset(f) + lengths[f]
  BY <1>1
<1>3. p # Hole /\ \E g \in File : \E j \in DOMAIN disk[g] : disk[g][j] = p
  BY PresentMeans, Zenon
<1>4. PICK g, j : g \in File /\ j \in DOMAIN disk[g] /\ disk[g][j] = p
  BY <1>3, Zenon
<1>5. Offset(g) \in Nat /\ lengths[g] \in Nat
  BY <1>4, FileInTorrent, Zenon
<1>6. Len(disk[g]) <= lengths[g] /\ disk[g][j] \in {Hole, Offset(g) + j - 1}
  BY <1>4, Zenon DEF BytesInPlace
<1>7. j \in 1..Len(disk[g]) /\ Len(disk[g]) \in Nat
  BY <1>4
<1> HIDE DEF p
<1>8. p = Offset(g) + j - 1
  BY <1>3, <1>4, <1>6, Zenon
<1>9. Offset(g) <= p /\ p < Offset(g) + lengths[g]
  BY <1>5, <1>6, <1>7, <1>8
<1>10. f = g
  BY <1>2, <1>4, <1>9, FilesAreDisjoint, Zenon
<1>11. i = j
  BY <1>1, <1>7, <1>8, <1>10 DEF p
<1>12. QED
  BY <1>4, <1>10, <1>11, Zenon DEF p

\* What is present is a position of the torrent.
LEMMA PresentInTorrent ==
    ASSUME lengths \in Layouts, disk \in [File -> Seq(Int)], BytesInPlace
    PROVE  Present \subseteq 0..(TotalLength - 1)
<1>1. SUFFICES ASSUME NEW p \in Present PROVE p \in 0..(TotalLength - 1)
  BY Zenon
<1>2. PICK f, i : f \in File /\ i \in DOMAIN disk[f] /\ disk[f][i] = p /\ p # Hole
  BY <1>1, PresentMeans, Zenon
<1>3. Offset(f) \in Nat /\ lengths[f] \in Nat /\ Offset(f) + lengths[f] <= TotalLength /\ TotalLength \in Nat
  BY <1>2, FileInTorrent, Layout, Zenon
<1>4. Len(disk[f]) <= lengths[f] /\ disk[f][i] \in {Hole, Offset(f) + i - 1}
  BY <1>2, Zenon DEF BytesInPlace
<1>5. i \in 1..Len(disk[f]) /\ Len(disk[f]) \in Nat
  BY <1>2
<1>6. p = Offset(f) + i - 1
  BY <1>2, <1>4, Zenon
<1>7. QED
  BY <1>3, <1>4, <1>5, <1>6

\* A function on 1..n is a sequence.
LEMMA IsSequence ==
    ASSUME NEW n \in Nat, NEW s \in [1..n -> Int]
    PROVE  s \in Seq(Int) /\ Len(s) = n /\ DOMAIN s = 1..n
OBVIOUS

\* The file that a round of WriteAt leaves: the new bytes are in it and the old
\* ones as well, each at its place.
Leaves(c, m, at, new) ==
    /\ Stored(c, m) = [disk EXCEPT ![at.file] = new]
    /\ new \in Seq(Int) /\ Len(new) <= lengths[at.file] /\ Len(disk[at.file]) <= Len(new)
    /\ \A i \in 1..Len(new) : new[i] \in {Hole, Offset(at.file) + i - 1}
    /\ \A i \in 1..Len(disk[at.file]) : disk[at.file][i] # Hole => new[i] = disk[at.file][i]
    /\ \A i \in 1..m : at.offset + i <= Len(new) /\ new[at.offset + i] = c.off + c.n + i - 1

\* Stored writes such a file.
LEMMA StoredFile ==
    ASSUME lengths \in Layouts, disk \in [File -> Seq(Int)], BytesInPlace,
           NEW c, Running(c), ~AtEnd(c), NEW m \in 0..Chunk(c),
           NEW at, at = Place(c), NEW new, new = Stored(c, m)[at.file]
    PROVE  Leaves(c, m, at, new)
<1> DEFINE F == at.file
           o == at.offset
           old == disk[F]
           byte(i) == IF o <= i /\ i < o + m THEN c.off + c.n + i - o
                      ELSE IF i < Len(old) THEN old[i + 1] ELSE Hole
           N == Max({Len(old), IF m = 0 THEN 0 ELSE o + m})
           file == [i \in 1..N |-> byte(i - 1)]
<1>1. /\ F \in File /\ o \in Nat /\ lengths[F] \in Nat
      /\ c.off + c.n = Offset(F) + o
      /\ Chunk(c) \in Nat /\ o + Chunk(c) <= lengths[F]
  BY RoundFacts, Zenon
<1>2. Stored(c, m) = [disk EXCEPT ![F] = file]
  BY Zenon DEF Stored
<1>3. new = file
  BY <1>1, <1>2, Zenon
<1>4. old \in Seq(Int) /\ Len(old) \in Nat /\ Len(old) <= lengths[F]
      /\ \A i \in 1..Len(old) : old[i] \in Int /\ old[i] \in {Hole, Offset(F) + i - 1}
  BY <1>1 DEF BytesInPlace
<1>5. Offset(F) \in Nat
  BY <1>1, FileInTorrent, Zenon
<1>6. m \in Nat /\ o + m <= lengths[F]
  BY <1>1
<1> HIDE DEF F, o, old
<1>7. N \in Nat /\ N <= lengths[F] /\ Len(old) <= N /\ (m # 0 => o + m <= N)
  <2> DEFINE e == IF m = 0 THEN 0 ELSE o + m
  <2>1. e \in Nat /\ e <= lengths[F] /\ (m # 0 => e = o + m)
    BY <1>1, <1>6
  <2>2. N = Max({Len(old), e})
    OBVIOUS
  <2> HIDE DEF e, N
  <2>3. N = IF Len(old) >= e THEN Len(old) ELSE e
    <3>1. Len(old) \in Int /\ e \in Int
      BY <2>1, <1>4
    <3>2. QED
      BY <3>1, <2>2, MaxOfTwo, Zenon
  <2>4. QED
    BY <2>1, <2>3, <1>4
<1> HIDE DEF N
<1>8. \A i \in 1..N : file[i] = byte(i - 1)
  BY Zenon
<1>9. ASSUME NEW i \in 1..N PROVE file[i] \in Int /\ file[i] \in {Hole, Offset(F) + i - 1}
  <2>1. i - 1 \in Int /\ (i - 1) + 1 = i /\ (i - 1 < Len(old) => i \in 1..Len(old))
    BY <1>4, <1>7
  <2>2. c.off + c.n + (i - 1) - o = Offset(F) + i - 1 /\ Offset(F) + i - 1 \in Int
    BY <1>1, <1>5
  <2>3. Hole \in Int
    BY DEF Hole
  <2>4. QED
    BY <1>4, <1>8, <2>1, <2>2, <2>3, Zenon
<1>10. ASSUME NEW i \in 1..Len(old), old[i] # Hole PROVE file[i] = old[i]
  <2>1. i \in 1..N /\ (i - 1) + 1 = i /\ i - 1 < Len(old)
    BY <1>4, <1>7
  <2>2. c.off + c.n + (i - 1) - o = Offset(F) + i - 1
    BY <1>1, <1>5
  <2>3. old[i] = Offset(F) + i - 1
    BY <1>4, <1>10, Zenon
  <2>4. QED
    BY <1>8, <2>1, <2>2, <2>3, Zenon
<1>11. ASSUME NEW i \in 1..m PROVE o + i <= N /\ file[o + i] = c.off + c.n + i - 1
  <2>1. o + i \in 1..N /\ o <= (o + i) - 1 /\ (o + i) - 1 < o + m
    BY <1>1, <1>6, <1>7
  <2>2. c.off + c.n + ((o + i) - 1) - o = c.off + c.n + i - 1
    BY <1>1, <1>5
  <2>3. o + i <= N
    BY <2>1, <1>7
  <2>4. QED
    BY <1>8, <2>1, <2>2, <2>3, Zenon
<1>12. file \in [1..N -> Int]
  <2>1. file = [i \in 1..N |-> file[i]]
    BY Zenon
  <2> HIDE DEF file
  <2>2. QED
    BY <2>1, <1>9, Zenon
<1> HIDE DEF file
<1>13. file \in Seq(Int) /\ Len(file) = N
  BY <1>7, <1>12, IsSequence, Zenon
<1>14. QED
  BY <1>2, <1>3, <1>7, <1>9, <1>10, <1>11, <1>13, Zenon DEF F, o, old, Leaves

\* A round of WriteAt keeps the bytes of the disk at their places, loses none
\* and adds the ones that it counts.
LEMMA RoundOfWrite ==
    ASSUME lengths \in Layouts, lengths' = lengths, disk \in [File -> Seq(Int)], BytesInPlace,
           NEW c, Running(c), ~AtEnd(c), NEW m \in 0..Chunk(c), disk' = Stored(c, m)
    PROVE  /\ disk' \in [File -> Seq(Int)] /\ BytesInPlace'
           /\ Present \subseteq Present'
           /\ Positions(c.off + c.n, m) \subseteq Present'
<1>0. PICK at, new : at = Place(c) /\ new = Stored(c, m)[at.file]
  BY Zenon
<1> DEFINE F == at.file
<1>1. /\ F \in File /\ at.offset \in Nat /\ lengths[F] \in Nat
      /\ c.off + c.n = Offset(F) + at.offset
      /\ Chunk(c) \in Nat
  BY <1>0, RoundFacts, Zenon
<1>2. /\ disk' = [disk EXCEPT ![F] = new]
      /\ new \in Seq(Int) /\ Len(new) <= lengths[F] /\ Len(disk[F]) <= Len(new)
      /\ \A i \in 1..Len(new) : new[i] \in {Hole, Offset(F) + i - 1}
      /\ \A i \in 1..Len(disk[F]) : disk[F][i] # Hole => new[i] = disk[F][i]
      /\ \A i \in 1..m : at.offset + i <= Len(new) /\ new[at.offset + i] = c.off + c.n + i - 1
  <2>1. Leaves(c, m, at, new)
    BY <1>0, StoredFile, Zenon
  <2>2. QED
    BY <2>1, Zenon DEF Leaves
<1> HIDE DEF F
<1>3. disk' \in [File -> Seq(Int)]
  BY <1>1, <1>2, Zenon
<1>4. File' = File /\ \A f \in File : Offset(f)' = Offset(f)
  BY DEF File, Offset
<1>5. \A f \in File : f # F => disk'[f] = disk[f]
  BY <1>2, Zenon
<1>6. \A f \in File : disk[f] \in Seq(Int) /\ disk'[f] \in Seq(Int)
  BY <1>3, Zenon
<1>7. new = disk'[F] /\ \A f \in File : DOMAIN disk[f] = 1..Len(disk[f]) /\ DOMAIN disk'[f] = 1..Len(disk'[f])
  BY <1>1, <1>2, <1>6
<1>8. BytesInPlace'
  <2>1. ASSUME NEW f \in File
        PROVE  /\ Len(disk'[f]) <= lengths[f]
               /\ \A i \in DOMAIN disk'[f] : disk'[f][i] \in {Hole, Offset(f) + i - 1}
    BY <1>2, <1>5, <1>7, Zenon DEF BytesInPlace
  <2>2. QED
    BY <2>1, <1>4, Zenon DEF BytesInPlace, Hole
<1>9. \A p : p \in Present' <=> p # Hole /\ \E f \in File : \E i \in DOMAIN disk'[f] : disk'[f][i] = p
  BY <1>4 DEF Present, Hole
<1>10. ASSUME NEW p \in Present PROVE p \in Present'
  <2>1. PICK f, i : f \in File /\ i \in DOMAIN disk[f] /\ disk[f][i] = p /\ p # Hole
    BY <1>10, PresentMeans, Zenon
  <2>2. Len(disk[F]) \in Nat /\ Len(new) \in Nat /\ \A j \in 1..Len(disk[F]) : j \in 1..Len(new)
    BY <1>1, <1>2, <1>6
  <2>3. i \in DOMAIN disk'[f] /\ disk'[f][i] = p
    <3>1. CASE f = F
      BY <3>1, <2>1, <2>2, <1>2, <1>7, Zenon
    <3>2. CASE f # F
      BY <3>2, <2>1, <1>5, Zenon
    <3>3. QED
      BY <3>1, <3>2
  <2>4. QED
    BY <2>1, <2>3, <1>9, Zenon
<1>11. ASSUME NEW p \in Positions(c.off + c.n, m) PROVE p \in Present'
  <2> DEFINE i == p - (c.off + c.n) + 1
  <2>1. Offset(F) \in Nat /\ m \in Nat
    BY <1>1, FileInTorrent
  <2>2. i \in 1..m /\ c.off + c.n + i - 1 = p /\ p # Hole
    <3>1. PICK q : q = c.off + c.n
      BY Zenon
    <3>2. q \in Nat
      BY <3>1, <1>1, <2>1
    <3>3. p \in q..(q + m - 1)
      BY <3>1, Zenon DEF Positions
    <3>4. p - q + 1 \in 1..m /\ q + (p - q + 1) - 1 = p /\ p # Hole
      BY <3>2, <3>3, <2>1 DEF Hole
    <3>5. QED
      BY <3>1, <3>4
  <2> HIDE DEF i
  <2>3. at.offset + i \in 1..Len(new)
    <3>1. at.offset + i <= Len(new) /\ Len(new) \in Nat
      BY <1>2, <2>2
    <3>2. QED
      BY <3>1, <2>1, <2>2, <1>1
  <2>4. new[at.offset + i] = p
    BY <1>2, <2>2, Zenon
  <2>5. QED
    BY <1>1, <1>7, <1>9, <2>2, <2>3, <2>4, Zenon
<1>12. QED
  BY <1>3, <1>8, <1>10, <1>11, Zenon

\* SubSeq of a sequence, up to an end that is inside of it.
LEMMA SubSequence ==
    ASSUME NEW s \in Seq(Int), NEW o \in Nat, NEW e \in 0..Len(s)
    PROVE  /\ SubSeq(s, o + 1, e) \in Seq(Int)
           /\ Len(SubSeq(s, o + 1, e)) = IF o + 1 <= e THEN e - o ELSE 0
           /\ \A i \in 1..Len(SubSeq(s, o + 1, e)) : SubSeq(s, o + 1, e)[i] = s[o + i]
OBVIOUS

\* What is read of h bytes if k are wanted from o on.
LEMMA Available ==
    ASSUME NEW o \in Nat, NEW k \in Nat, NEW h \in Nat, NEW e, e = IF o + k <= h THEN o + k ELSE h,
           NEW n, n = IF o + 1 <= e THEN e - o ELSE 0
    PROVE  n \in Nat /\ n <= k /\ (n > 0 => o + n <= h) /\ (n < k => h < o + n + 1)
OBVIOUS

\* A byte that a call of ReadAt has read is right, or a hole where nothing was
\* written before the call.
Right(c, i, byte) == byte = c.off + i - 1 \/ (byte = Hole /\ c.off + i - 1 \notin c.before)

\* A round of ReadAt reads the bytes of the call that the file has, and ends
\* before a byte that is not on the disk if it reads less than it wants.
LEMMA RoundOfRead ==
    ASSUME lengths \in Layouts, disk \in [File -> Seq(Int)], BytesInPlace,
           NEW c, Running(c), ~AtEnd(c), c.before \subseteq Present, NEW bytes, bytes = Loaded(c)
    PROVE  /\ bytes \in Seq(Int) /\ Len(bytes) <= Chunk(c)
           /\ \A i \in 1..Len(bytes) : Right(c, c.n + i, bytes[i])
           /\ Len(bytes) < Chunk(c) => c.off + c.n + Len(bytes) \notin c.before
<1>0. PICK at, F, o, have, k, start, size :
         /\ at = Place(c) /\ F = at.file /\ o = at.offset /\ have = disk[F] /\ k = Chunk(c)
         /\ start = Offset(F) /\ size = lengths[F]
  BY Zenon
<1>1. /\ F \in File /\ o \in Nat /\ size \in Nat /\ start \in Nat
      /\ c.off + c.n = start + o
      /\ k \in Nat /\ k > 0 /\ o + k <= size
  BY <1>0, RoundFacts, FileInTorrent, Zenon
<1>2. have \in Seq(Int) /\ DOMAIN have = 1..Len(have)
  BY <1>0, <1>1
<1>3. Len(have) \in Nat /\ Len(have) <= size
  BY <1>0, <1>1, <1>2 DEF BytesInPlace
<1>4. \A i \in 1..Len(have) : have[i] \in {Hole, start + i - 1}
  BY <1>0, <1>1, <1>2, Zenon DEF BytesInPlace
<1>5. \A i \in 1..size : start + i - 1 \in Present => i \in 1..Len(have) /\ have[i] = start + i - 1
  BY <1>0, <1>1, <1>2, PresentInPlace, Zenon
<1>6. PICK end : end = Min({o + k, Len(have)})
  BY Zenon
<1>7. end = IF o + k <= Len(have) THEN o + k ELSE Len(have)
  <2>1. o + k \in Int /\ Len(have) \in Int
    BY <1>1, <1>3
  <2>2. QED
    BY <1>6, <2>1, MinOfTwo, Zenon
<1>8. end \in 0..Len(have)
  BY <1>1, <1>3, <1>7
<1>9. bytes = SubSeq(have, o + 1, end)
  BY <1>0, <1>6, Zenon DEF Loaded
<1>10. /\ bytes \in Seq(Int)
       /\ Len(bytes) = IF o + 1 <= end THEN end - o ELSE 0
       /\ \A i \in 1..Len(bytes) : bytes[i] = have[o + i]
  <2>1. /\ SubSeq(have, o + 1, end) \in Seq(Int)
        /\ Len(SubSeq(have, o + 1, end)) = IF o + 1 <= end THEN end - o ELSE 0
        /\ \A i \in 1..Len(SubSeq(have, o + 1, end)) : SubSeq(have, o + 1, end)[i] = have[o + i]
    BY <1>1, <1>2, <1>8, SubSequence
  <2>2. QED
    BY <1>9, <2>1, Zenon
<1>11. /\ Len(bytes) \in Nat /\ Len(bytes) <= k
       /\ Len(bytes) > 0 => o + Len(bytes) <= Len(have)
       /\ Len(bytes) < k => Len(have) < o + Len(bytes) + 1
  BY <1>1, <1>3, <1>7, <1>10, Available
<1>12. c.off \in Nat /\ c.n \in Nat
  BY DEF Running
<1>13. ASSUME NEW i \in 1..Len(bytes) PROVE Right(c, c.n + i, bytes[i])
  <2>1. o + i \in 1..Len(have) /\ o + i \in 1..size
    BY <1>1, <1>3, <1>11
  <2>2. c.off + (c.n + i) - 1 = start + (o + i) - 1 /\ start + (o + i) - 1 # Hole
    <3>1. i \in Nat \ {0}
      BY <1>11
    <3>2. \A a, b \in Nat : a + b = start + o => a + (b + i) - 1 = start + (o + i) - 1
      BY <3>1, <1>1
    <3>3. start + (o + i) - 1 # Hole
      BY <3>1, <1>1 DEF Hole
    <3>4. QED
      BY <3>2, <3>3, <1>1, <1>12, Zenon
  <2>3. bytes[i] = have[o + i]
    BY <1>10, Zenon
  <2>4. QED
    BY <1>4, <1>5, <2>1, <2>2, <2>3, Zenon DEF Right
<1>14. ASSUME Len(bytes) < k PROVE c.off + c.n + Len(bytes) \notin c.before
  <2> DEFINE i == o + Len(bytes) + 1
  <2>1. i \in 1..size /\ i \notin 1..Len(have)
    BY <1>1, <1>3, <1>11, <1>14
  <2>2. start + i - 1 = c.off + c.n + Len(bytes)
    BY <1>1, <1>11, <1>12
  <2>3. QED
    BY <2>1, <2>2, <1>5, Zenon
<1>15. QED
  BY <1>0, <1>10, <1>11, <1>13, <1>14, Zenon

-----------------------------------------------------------------------------
(***************************************************************************)
(* Pieces                                                                  *)
(***************************************************************************)

\* Quotient and rest.
LEMMA DivMod ==
    ASSUME NEW a \in Nat, NEW b \in Nat \ {0}
    PROVE  a \div b \in Nat /\ a % b \in Nat /\ a % b < b /\ a = (a \div b) * b + (a % b)
OBVIOUS

\* Multiples of n are n apart.
LEMMA Multiples ==
    ASSUME NEW a \in Nat, NEW b \in Nat, NEW n \in Nat
    PROVE  a * n \in Nat /\ b * n \in Nat /\ (a < b => a * n + n <= b * n)
<1>1. a * n \in Nat /\ b * n \in Nat
  OBVIOUS
<1>2. ASSUME a < b PROVE a * n + n <= b * n
  <2>1. PICK d \in Nat : b = a + 1 + d
    <3>1. b - a - 1 \in Nat /\ b = a + 1 + (b - a - 1)
      BY <1>2
    <3>2. QED
      BY <3>1
  <2>2. b * n = a * n + n + d * n
    BY <2>1
  <2>3. d * n \in Nat
    OBVIOUS
  <2>4. QED
    BY <2>2, <2>3, <1>1
<1>3. QED
  BY <1>1, <1>2

\* A number is in one multiple of n only.
LEMMA SameMultiple ==
    ASSUME NEW a \in Nat, NEW b \in Nat, NEW n \in Nat, NEW x \in Nat, NEW y \in Nat, y < n,
           a * n + x <= b * n + y
    PROVE  a <= b
<1>1. a * n \in Nat /\ b * n \in Nat /\ (b < a => b * n + n <= a * n)
  BY Multiples
<1>2. QED
  BY <1>1

\* A part of a piece, and the part of piece i that is between start and end.
IsPart(p) ==
    /\ p \in [index : Nat, offset : Nat, length : Nat]
    /\ p.offset + p.length <= PieceLength

From(start, i) == IF i = start \div PieceLength THEN start % PieceLength ELSE 0
Upto(end, i) == IF i = end \div PieceLength THEN end % PieceLength ELSE PieceLength

Between(start, end, i) == FilePiece(i, From(start, i), Upto(end, i) - From(start, i))

PartsBetween(start, end) ==
    {Between(start, end, i) : i \in (start \div PieceLength)..(end \div PieceLength)}

\* Bounds and positions of the parts of a file.
LEMMA PartOfFile ==
    ASSUME NEW start \in Nat, NEW end \in Nat, start < end,
           NEW i \in (start \div PieceLength)..(end \div PieceLength)
    PROVE  /\ i \in Nat
           /\ From(start, i) \in Nat /\ Upto(end, i) \in Nat /\ From(start, i) <= Upto(end, i)
           /\ Upto(end, i) <= PieceLength
           /\ start <= i * PieceLength + From(start, i)
           /\ i * PieceLength + Upto(end, i) <= end
<1>0. PICK n, a, b, x, y : /\ n = PieceLength
                           /\ a = start \div n /\ b = end \div n /\ x = start % n /\ y = end % n
  OBVIOUS
<1>1. /\ n \in Nat \ {0} /\ a \in Nat /\ b \in Nat /\ x \in Nat /\ y \in Nat
      /\ x < n /\ y < n /\ start = a * n + x /\ end = b * n + y
  BY <1>0, LayoutAssumption, DivMod
<1>2. i \in Nat /\ a <= i /\ i <= b
  BY <1>0, <1>1
<1>3. /\ a * n \in Nat /\ b * n \in Nat /\ i * n \in Nat
      /\ (a < i => a * n + n <= i * n) /\ (i < b => i * n + n <= b * n)
  BY <1>1, <1>2, Multiples
<1>4. From(start, i) = (IF i = a THEN x ELSE 0) /\ Upto(end, i) = (IF i = b THEN y ELSE n)
  BY <1>0, Zenon DEF From, Upto
<1>5. From(start, i) \in Nat /\ Upto(end, i) \in Nat /\ Upto(end, i) <= n
  BY <1>1, <1>4
<1>6. start <= i * n + From(start, i)
  BY <1>1, <1>2, <1>3, <1>4
<1>7. i * n + Upto(end, i) <= end
  BY <1>1, <1>2, <1>3, <1>4
<1>8. From(start, i) <= Upto(end, i)
  <2>1. CASE i = a /\ i = b
    <3>1. a * n = b * n
      BY <2>1
    <3>2. x <= y
      BY <3>1, <1>1, <1>3
    <3>3. QED
      BY <2>1, <3>2, <1>4, Zenon
  <2>2. CASE i # a \/ i # b
    BY <2>2, <1>1, <1>4
  <2>3. QED
    BY <2>1, <2>2
<1>9. QED
  BY <1>0, <1>2, <1>5, <1>6, <1>7, <1>8, Zenon

\* Each position of a file is in one of its parts.
LEMMA PartsCoverFile ==
    ASSUME NEW start \in Nat, NEW end \in Nat, NEW p \in Nat, start <= p, p < end,
           NEW i, i = p \div PieceLength
    PROVE  /\ i \in (start \div PieceLength)..(end \div PieceLength)
           /\ i * PieceLength + From(start, i) <= p
           /\ p < i * PieceLength + Upto(end, i)
<1>0. PICK n, a, b, x, y, z : /\ n = PieceLength
                              /\ a = start \div n /\ b = end \div n /\ x = start % n /\ y = end % n
                              /\ z = p % n
  OBVIOUS
<1>1. /\ n \in Nat \ {0} /\ a \in Nat /\ b \in Nat /\ x \in Nat /\ y \in Nat
      /\ x < n /\ y < n /\ start = a * n + x /\ end = b * n + y
  BY <1>0, LayoutAssumption, DivMod
<1>2. i \in Nat /\ z \in Nat /\ z < n /\ p = i * n + z
  BY <1>0, <1>1, DivMod
<1>3. a * n \in Nat /\ b * n \in Nat /\ i * n \in Nat
  BY <1>1, <1>2, Multiples
<1>4. a <= i /\ i <= b
  <2>1. a * n + x <= i * n + z /\ i * n + z <= b * n + y
    BY <1>1, <1>2, <1>3
  <2>2. QED
    BY <1>1, <1>2, <2>1, SameMultiple
<1>5. From(start, i) = (IF i = a THEN x ELSE 0) /\ Upto(end, i) = (IF i = b THEN y ELSE n)
  BY <1>0, Zenon DEF From, Upto
<1>6. i * n + From(start, i) <= p
  BY <1>1, <1>2, <1>3, <1>5
<1>7. p < i * n + Upto(end, i)
  BY <1>1, <1>2, <1>3, <1>5
<1>8. i \in a..b
  BY <1>1, <1>2, <1>4
<1>9. QED
  BY <1>0, <1>6, <1>7, <1>8, Zenon

\* FilePieces has such a part for each piece of a file that is not empty.
LEMMA FilePiecesAre ==
    ASSUME NEW f, NEW start \in Nat, NEW end \in Nat, start = Offset(f), end = start + lengths[f],
           lengths[f] \in Nat \ {0}
    PROVE  FilePieces(f) = PartsBetween(start, end)
<1>0. PICK a, b : a = start \div PieceLength /\ b = end \div PieceLength
  BY Zenon
<1> DEFINE part(i) == Between(start, end, i)
<1>1. /\ a \in Nat /\ b \in Nat /\ a <= b
      /\ start % PieceLength \in Nat /\ end % PieceLength \in Nat
  <2>1. /\ a \in Nat /\ b \in Nat /\ start % PieceLength \in Nat /\ end % PieceLength \in Nat
        /\ start % PieceLength < PieceLength /\ end % PieceLength < PieceLength /\ PieceLength \in Nat
        /\ start = a * PieceLength + (start % PieceLength) /\ end = b * PieceLength + (end % PieceLength)
    BY <1>0, DivMod, LayoutAssumption
  <2>2. start <= end
    OBVIOUS
  <2>3. a <= b
    <3>1. a * PieceLength + (start % PieceLength) <= b * PieceLength + (end % PieceLength)
      BY <2>1, <2>2, Zenon
    <3>2. QED
      BY <2>1, <3>1, SameMultiple, Zenon
  <2>4. QED
    BY <2>1, <2>3
<1>2. ~(lengths[f] < 1) /\ PieceLength \in Nat
  BY LayoutAssumption
<1>3. ASSUME a = b PROVE FilePieces(f) = {part(i) : i \in a..b}
  <2>1. FilePieces(f) = {part(a)}
    BY <1>0, <1>2, <1>3, Zenon DEF FilePieces, Between, From, Upto
  <2>2. \A i : i \in a..b <=> i = a
    BY <1>1, <1>3
  <2>3. QED
    BY <2>1, <2>2, Zenon
<1>4. ASSUME a # b PROVE FilePieces(f) = {part(i) : i \in a..b}
  <2>1. FilePieces(f) = {FilePiece(a, start % PieceLength, PieceLength - (start % PieceLength))}
                        \cup {FilePiece(i, 0, PieceLength) : i \in (a + 1)..(b - 1)}
                        \cup {FilePiece(b, 0, end % PieceLength)}
    BY <1>0, <1>2, <1>4, Zenon DEF FilePieces
  <2>2. part(a) = FilePiece(a, start % PieceLength, PieceLength - (start % PieceLength))
    BY <1>0, <1>4, Zenon DEF Between, From, Upto
  <2>3. part(b) = FilePiece(b, 0, end % PieceLength)
    <3>1. (end % PieceLength) - 0 = end % PieceLength
      BY <1>1
    <3>2. QED
      BY <1>0, <1>4, <3>1, Zenon DEF Between, From, Upto
  <2>4. \A i \in (a + 1)..(b - 1) : part(i) = FilePiece(i, 0, PieceLength)
    <3>1. PieceLength - 0 = PieceLength /\ \A i \in (a + 1)..(b - 1) : i # a /\ i # b
      BY <1>1, <1>2
    <3>2. QED
      BY <1>0, <3>1, Zenon DEF Between, From, Upto
  <2>5. \A i : i \in a..b <=> i = a \/ i = b \/ i \in (a + 1)..(b - 1)
    BY <1>1, <1>4
  <2> HIDE DEF part
  <2>6. FilePieces(f) = {part(a)} \cup {part(i) : i \in (a + 1)..(b - 1)} \cup {part(b)}
    <3>1. {part(i) : i \in (a + 1)..(b - 1)} = {FilePiece(i, 0, PieceLength) : i \in (a + 1)..(b - 1)}
      BY <2>4, Zenon
    <3>2. QED
      BY <2>1, <2>2, <2>3, <3>1, Zenon
  <2>7. QED
    BY <2>5, <2>6, Zenon
<1>5. QED
  BY <1>0, <1>3, <1>4, Zenon DEF PartsBetween

\* The bytes of a part.
LEMMA BytesOfPart ==
    ASSUME NEW p, IsPart(p)
    PROVE  /\ p.index * PieceLength \in Nat /\ p.offset \in Nat /\ p.length \in Nat
           /\ \A x : x \in Bytes(p) <=> /\ x \in Int
                                        /\ p.index * PieceLength + p.offset <= x
                                        /\ x < p.index * PieceLength + p.offset + p.length
<1>1. p.index \in Nat /\ p.offset \in Nat /\ p.length \in Nat /\ PieceLength \in Nat
  BY LayoutAssumption DEF IsPart
<1>2. p.index * PieceLength \in Nat
  BY <1>1, Multiples
<1>3. PICK a, b : a = p.index * PieceLength + p.offset /\ b = p.length
  BY Zenon
<1>4. a \in Nat /\ b \in Nat
  BY <1>1, <1>2, <1>3
<1>5. Bytes(p) = a..(a + b - 1)
  BY <1>3, Zenon DEF Bytes, Positions, PieceOffset
<1>6. \A x : x \in a..(a + b - 1) <=> x \in Int /\ a <= x /\ x < a + b
  BY <1>4
<1>7. QED
  BY <1>1, <1>2, <1>3, <1>5, <1>6, Zenon

\* Parts of different pieces have no byte in common.
LEMMA PiecesAreDisjoint ==
    ASSUME NEW p, NEW q, IsPart(p), IsPart(q), NEW x, x \in Bytes(p), x \in Bytes(q)
    PROVE  p.index = q.index
<1>1. PICK i, j, n, a, b, c, d :
         /\ i = p.index /\ j = q.index /\ n = PieceLength
         /\ a = p.offset /\ b = p.length /\ c = q.offset /\ d = q.length
  BY Zenon
<1>2. {i, j, n, a, b, c, d} \subseteq Nat /\ a + b <= n /\ c + d <= n
  BY <1>1, LayoutAssumption DEF IsPart
<1>3. /\ i * n \in Nat /\ j * n \in Nat
      /\ x \in Int /\ i * n + a <= x /\ x < i * n + a + b /\ j * n + c <= x /\ x < j * n + c + d
  BY <1>1, BytesOfPart, Zenon
<1>4. (i < j => i * n + n <= j * n) /\ (j < i => j * n + n <= i * n)
  BY <1>2, Multiples
<1>5. ~(i < j) /\ ~(j < i)
  BY <1>2, <1>3, <1>4
<1>6. QED
  BY <1>1, <1>2, <1>5

\* The pieces of a file: parts that have each byte of the file and no other.
LEMMA PartsOfFile ==
    ASSUME lengths \in Layouts, NEW f \in File
    PROVE  /\ \A p \in FilePieces(f) : IsPart(p) /\ Bytes(p) \subseteq Positions(Offset(f), lengths[f])
           /\ \A x \in Positions(Offset(f), lengths[f]) : \E p \in FilePieces(f) : x \in Bytes(p)
           /\ \A p, q \in FilePieces(f) : p.index = q.index => p = q
           /\ IsFiniteSet(FilePieces(f))
<1>0. PICK start, end, size, a, b :
         /\ start = Offset(f) /\ size = lengths[f] /\ end = start + size
         /\ a = start \div PieceLength /\ b = end \div PieceLength
  BY Zenon
<1>1. start \in Nat /\ size \in Nat /\ end \in Nat
  <2>1. start \in Nat /\ size \in Nat
    BY <1>0, FileInTorrent, Zenon
  <2>2. QED
    BY <2>1, <1>0
<1>2. CASE size < 1
  <2>1. FilePieces(f) = {}
    BY <1>0, <1>2, Zenon DEF FilePieces
  <2>2. Positions(start, size) = {}
    BY <1>1, <1>2 DEF Positions
  <2>3. QED
    BY <1>0, <2>1, <2>2, FS_EmptySet, Zenon
<1>3. CASE ~(size < 1)
  <2>1. size \in Nat \ {0} /\ start < end
    BY <1>0, <1>1, <1>3
  <2>2. FilePieces(f) = {Between(start, end, i) : i \in a..b}
    <3>1. start = Offset(f) /\ end = start + lengths[f] /\ lengths[f] \in Nat \ {0}
      BY <1>0, <2>1, Zenon
    <3>2. FilePieces(f) = PartsBetween(start, end)
      BY <3>1, <1>1, FilePiecesAre, Zenon
    <3>3. QED
      BY <3>2, <1>0, Zenon DEF PartsBetween
  <2>3. ASSUME NEW i \in a..b, NEW p, p = Between(start, end, i)
        PROVE  /\ IsPart(p) /\ p.index = i
               /\ \A x : x \in Bytes(p) <=> /\ x \in Int /\ i * PieceLength + From(start, i) <= x
                                            /\ x < i * PieceLength + Upto(end, i)
               /\ Bytes(p) \subseteq Positions(start, size)
    <3>0. PICK u, v : u = From(start, i) /\ v = Upto(end, i)
      BY Zenon
    <3>1. /\ i \in Nat /\ u \in Nat /\ v \in Nat /\ u <= v /\ v <= PieceLength
          /\ start <= i * PieceLength + u /\ i * PieceLength + v <= end
      BY <3>0, <1>0, <1>1, <2>1, PartOfFile, Zenon
    <3>2. p.index = i /\ p.offset = u /\ p.length = v - u
          /\ p = [index |-> i, offset |-> u, length |-> v - u]
      BY <2>3, <3>0 DEF Between, FilePiece
    <3>3. v - u \in Nat /\ u + (v - u) = v
      BY <3>1
    <3>4. IsPart(p)
      BY <3>1, <3>2, <3>3 DEF IsPart
    <3>5. i * PieceLength \in Nat
          /\ \A x : x \in Bytes(p) <=> /\ x \in Int /\ i * PieceLength + u <= x
                                       /\ x < i * PieceLength + u + (v - u)
      BY <3>2, <3>4, BytesOfPart, Zenon
    <3>6. PICK k : k = i * PieceLength
      BY Zenon
    <3>7. k + u + (v - u) = k + v /\ k \in Nat
      BY <3>1, <3>5, <3>6
    <3>8. \A x : x \in Bytes(p) <=> x \in Int /\ k + u <= x /\ x < k + v
      BY <3>5, <3>6, <3>7, Zenon
    <3>9. ASSUME NEW x \in Bytes(p) PROVE x \in Positions(start, size)
      <4>1. x \in Int /\ k + u <= x /\ x < k + v
        BY <3>8, Zenon
      <4>2. start <= k + u /\ k + v <= start + size
        BY <3>1, <3>6, <1>0, Zenon
      <4>3. QED
        BY <4>1, <4>2, <3>1, <3>7, <1>1 DEF Positions
    <3>10. QED
      BY <3>0, <3>2, <3>4, <3>6, <3>8, <3>9, Zenon
  <2>4. ASSUME NEW x \in Positions(start, size) PROVE \E p \in FilePieces(f) : x \in Bytes(p)
    <3>1. x \in Nat /\ start <= x /\ x < end
      BY <1>0, <1>1 DEF Positions
    <3>2. PICK i, p : i = x \div PieceLength /\ p = Between(start, end, i)
      BY Zenon
    <3>3. i \in a..b /\ i * PieceLength + From(start, i) <= x /\ x < i * PieceLength + Upto(end, i)
      BY <3>1, <3>2, <1>0, <1>1, PartsCoverFile, Zenon
    <3>4. x \in Int
      BY <3>1
    <3>5. p \in FilePieces(f) /\ x \in Bytes(p)
      BY <2>2, <2>3, <3>2, <3>3, <3>4, Zenon
    <3>6. QED
      BY <3>5, Zenon
  <2>5. IsFiniteSet(FilePieces(f))
    <3> DEFINE g == [i \in a..b |-> Between(start, end, i)]
    <3>1. PieceLength \in Nat \ {0}
      BY LayoutAssumption
    <3>2. a \in Int /\ b \in Int
      BY <3>1, <1>0, <1>1, DivMod
    <3>3. g \in Surjection(a..b, FilePieces(f))
      BY <2>2, Zenon DEF Surjection
    <3>4. QED
      BY <3>2, <3>3, FS_Interval, FS_Surjection, Zenon
  <2>6. \A p \in FilePieces(f) : \E i \in a..b : p = Between(start, end, i)
    BY <2>2, Zenon
  <2>7. ASSUME NEW p \in FilePieces(f) PROVE IsPart(p) /\ Bytes(p) \subseteq Positions(start, size)
    BY <2>3, <2>6, Zenon
  <2>8. ASSUME NEW p \in FilePieces(f), NEW q \in FilePieces(f), p.index = q.index PROVE p = q
    <3>1. PICK i \in a..b : p = Between(start, end, i)
      BY <2>6, Zenon
    <3>2. PICK j \in a..b : q = Between(start, end, j)
      BY <2>6, Zenon
    <3>3. p.index = i /\ q.index = j
      BY <3>1, <3>2, <2>3, Zenon
    <3>4. QED
      BY <3>1, <3>2, <3>3, <2>8, Zenon
  <2>9. QED
    BY <1>0, <2>4, <2>5, <2>7, <2>8, Zenon
<1>4. QED
  BY <1>2, <1>3, Zenon

PartsOf(fs) == UNION {FilePieces(f) : f \in fs}

\* The parts of some files: finitely many, and no two with a byte in common.
LEMMA PartsOfFiles ==
    ASSUME lengths \in Layouts, NEW fs \in SUBSET File, NEW fps, fps = PartsOf(fs)
    PROVE  /\ IsFiniteSet(fps)
           /\ \A p \in fps : IsPart(p)
           /\ \A p, q \in fps : \A x : p # q => ~(x \in Bytes(p) /\ x \in Bytes(q))
<1>1. \A f \in fs : /\ IsFiniteSet(FilePieces(f))
                    /\ \A p \in FilePieces(f) : IsPart(p) /\ Bytes(p) \subseteq Positions(Offset(f), lengths[f])
                    /\ \A p, q \in FilePieces(f) : p.index = q.index => p = q
  BY PartsOfFile, Zenon
<1>2. IsFiniteSet(fps)
  <2> DEFINE g == [f \in fs |-> FilePieces(f)]
             S == {FilePieces(f) : f \in fs}
  <2>1. g \in Surjection(fs, S)
    BY Zenon DEF Surjection
  <2>2. 1 \in Int /\ Len(lengths) \in Int /\ File = 1..Len(lengths)
    BY Layout
  <2>3. IsFiniteSet(fs)
    <3>1. IsFiniteSet(File)
      BY <2>2, FS_Interval, Zenon
    <3>2. QED
      BY <3>1, FS_Subset, Zenon
  <2>4. \A T \in S : IsFiniteSet(T)
    BY <1>1, Zenon
  <2>5. fps = UNION S
    BY Zenon DEF PartsOf
  <2> HIDE DEF g, S
  <2>6. IsFiniteSet(S)
    BY <2>1, <2>3, FS_Surjection, Zenon
  <2>7. QED
    BY <2>4, <2>5, <2>6, FS_UNION, Zenon
<1>3. \A p \in fps : \E f \in fs : p \in FilePieces(f)
  BY Zenon DEF PartsOf
<1>4. \A p \in fps : IsPart(p)
  BY <1>1, <1>3, Zenon
<1>5. ASSUME NEW p \in fps, NEW q \in fps, NEW x, x \in Bytes(p), x \in Bytes(q) PROVE p = q
  <2>1. PICK f \in fs : p \in FilePieces(f)
    BY <1>3, Zenon
  <2>2. PICK g \in fs : q \in FilePieces(g)
    BY <1>3, Zenon
  <2>3. x \in Positions(Offset(f), lengths[f]) /\ x \in Positions(Offset(g), lengths[g])
    BY <1>1, <1>5, <2>1, <2>2, Zenon
  <2>4. f \in File /\ g \in File
    BY Zenon
  <2>5. Offset(f) \in Nat /\ lengths[f] \in Nat /\ Offset(g) \in Nat /\ lengths[g] \in Nat
    BY <2>4, FileInTorrent, Zenon
  <2>6. x \in Int /\ Offset(f) <= x /\ x < Offset(f) + lengths[f] /\ Offset(g) <= x /\ x < Offset(g) + lengths[g]
    BY <2>3, <2>5 DEF Positions
  <2>7. f = g
    BY <2>4, <2>6, FilesAreDisjoint, Zenon
  <2>8. p.index = q.index
    BY <1>4, <1>5, PiecesAreDisjoint, Zenon
  <2>9. QED
    BY <1>1, <2>1, <2>2, <2>7, <2>8, Zenon
<1>6. QED
  BY <1>2, <1>4, <1>5, Zenon

\* sort.Sort gives each part once.
LEMMA SortedParts ==
    ASSUME NEW fps, IsFiniteSet(fps), NEW s \in Sorted(fps)
    PROVE  /\ Cardinality(fps) \in Nat /\ s \in [1..Cardinality(fps) -> fps]
           /\ \A i, j \in 1..Cardinality(fps) : i # j => s[i] # s[j]
           /\ \A p \in fps : \E i \in 1..Cardinality(fps) : s[i] = p
<1>1. PICK N : N = Cardinality(fps)
  BY Zenon
<1>2. N \in Nat /\ s \in [1..N -> fps] /\ \A i, j \in DOMAIN s : i < j => s[i] # s[j]
  BY <1>1, FS_CardinalityType, Zenon DEF Sorted
<1>3. ASSUME NEW i \in 1..N, NEW j \in 1..N, i # j PROVE s[i] # s[j]
  <2>1. i < j \/ j < i
    BY <1>2, <1>3
  <2>2. i \in DOMAIN s /\ j \in DOMAIN s
    BY <1>2, Zenon
  <2>3. QED
    BY <1>2, <2>1, <2>2, Zenon
<1>4. s \in Injection(1..N, fps)
  BY <1>2, <1>3, Zenon DEF Injection, IsInjective
<1>5. Cardinality(1..N) = N
  <2>1. 1 \in Int /\ N \in Int
    BY <1>2
  <2>2. Cardinality(1..N) = IF 1 > N THEN 0 ELSE N - 1 + 1
    BY <2>1, FS_Interval, Zenon
  <2>3. QED
    BY <2>2, <1>2
<1>6. s \in Surjection(1..N, fps)
  BY <1>1, <1>4, <1>5, FS_Injection, Zenon
<1>7. \A p \in fps : \E i \in 1..N : s[i] = p
  BY <1>6, Zenon DEF Surjection
<1>8. QED
  BY <1>1, <1>2, <1>3, <1>7, Zenon

Grown(a, fp) == [a EXCEPT !.length = @ + fp.length]

\* A part that grows by the one behind it has the bytes of both.
LEMMA GrownPart ==
    ASSUME NEW a, NEW fp, IsPart(a), IsPart(fp), Contiguous(a, fp), NEW new, new = Grown(a, fp)
    PROVE  IsPart(new) /\ \A x : x \in Bytes(new) <=> x \in Bytes(a) \/ x \in Bytes(fp)
<1>1. PICK i, o, l, m : i = a.index /\ o = a.offset /\ l = a.length /\ m = fp.length
  BY Zenon
<1>2. i \in Nat /\ o \in Nat /\ l \in Nat /\ m \in Nat /\ fp.index = i /\ fp.offset = o + l
      /\ (o + l) + m <= PieceLength
  BY <1>1 DEF IsPart, Contiguous
<1>3. new.index = i /\ new.offset = o /\ new.length = l + m /\ new \in [index : Nat, offset : Nat, length : Nat]
  BY <1>1, <1>2 DEF IsPart, Grown
<1>4. IsPart(new)
  BY <1>2, <1>3, LayoutAssumption DEF IsPart
<1>5. PICK k : k = i * PieceLength
  BY Zenon
<1>6. k \in Nat
      /\ \A x : /\ x \in Bytes(a) <=> x \in Int /\ k + o <= x /\ x < k + o + l
                /\ x \in Bytes(fp) <=> x \in Int /\ k + (o + l) <= x /\ x < k + (o + l) + m
                /\ x \in Bytes(new) <=> x \in Int /\ k + o <= x /\ x < k + o + (l + m)
  BY <1>1, <1>2, <1>3, <1>4, <1>5, BytesOfPart, Zenon
<1>7. \A x \in Int : k + o <= x /\ x < k + o + (l + m) <=>
                       (k + o <= x /\ x < k + o + l) \/ (k + (o + l) <= x /\ x < k + (o + l) + m)
  BY <1>2, <1>6
<1>8. QED
  BY <1>4, <1>6, <1>7, Zenon

\* The result of Merge after the first n parts: parts that are disjoint and
\* that have the same bytes.
Merged(done, s, n) ==
    /\ \E l \in Nat : DOMAIN done = 1..l
    /\ done \in Seq({p \in [index : Nat, offset : Nat, length : Nat] : IsPart(p)})
    /\ \A x : (\E i \in DOMAIN done : x \in Bytes(done[i])) <=> \E i \in 1..n : x \in Bytes(s[i])
    /\ \A i, j \in DOMAIN done : \A x : i # j => ~(x \in Bytes(done[i]) /\ x \in Bytes(done[j]))

\* Another round of Merge.
LEMMA MergeRound ==
    ASSUME NEW N \in Nat, NEW s, \A i \in 1..N : IsPart(s[i]),
           \A i, j \in 1..N : \A x : i # j => ~(x \in Bytes(s[i]) /\ x \in Bytes(s[j])),
           NEW n \in 0..(N - 1), NEW done, Merged(done, s, n)
    PROVE  Merged(MergeNext(done, s[n + 1]), s, n + 1)
<1> DEFINE Parts == {p \in [index : Nat, offset : Nat, length : Nat] : IsPart(p)}
<1>0. PICK L, fp, new : L = Len(done) /\ fp = s[n + 1] /\ new = MergeNext(done, fp)
  BY Zenon
<1>1. n + 1 \in 1..N /\ n + 1 \in 1..(n + 1) /\ \A i : i \in 1..(n + 1) <=> i \in 1..n \/ i = n + 1
  OBVIOUS
<1>2. \A i \in 1..n : i \in 1..N /\ i # n + 1
  OBVIOUS
<1>3. done \in Seq(Parts) /\ L \in Nat /\ DOMAIN done = 1..L
  BY <1>0 DEF Merged
<1>4. \A i \in 1..L : IsPart(done[i]) /\ done[i] \in Parts
  BY <1>3
<1>5. IsPart(fp) /\ fp \in Parts
  BY <1>0, <1>1, Zenon DEF IsPart
<1>6. \A i \in 1..L : \A x : ~(x \in Bytes(done[i]) /\ x \in Bytes(fp))
  BY <1>0, <1>1, <1>2, <1>3, Zenon DEF Merged
<1>7. CASE done # <<>> /\ Contiguous(done[L], fp)
  <2>1. L \in 1..L
    BY <1>3, <1>7
  <2>2. PICK a, g : a = done[L] /\ g = Grown(a, fp)
    BY Zenon
  <2>3. new = [done EXCEPT ![L] = g]
    BY <1>0, <1>7, <2>2, Zenon DEF MergeNext, Grown
  <2>4. IsPart(g) /\ \A x : x \in Bytes(g) <=> x \in Bytes(a) \/ x \in Bytes(fp)
    <3>1. IsPart(a) /\ Contiguous(a, fp)
      BY <1>4, <1>7, <2>1, <2>2, Zenon
    <3>2. QED
      BY <3>1, <1>5, <2>2, GrownPart, Zenon
  <2>5. g \in Parts
    BY <2>4, Zenon DEF IsPart
  <2>6. DOMAIN new = 1..L /\ new[L] = g /\ \A i \in 1..L : i # L => new[i] = done[i]
    BY <1>3, <2>1, <2>3, Zenon
  <2>7. new \in Seq(Parts)
    <3> HIDE DEF Parts
    <3>1. QED
      BY <1>3, <2>1, <2>3, <2>5
  <2>8. ASSUME NEW x
        PROVE  (\E i \in 1..L : x \in Bytes(new[i])) <=> \E i \in 1..(n + 1) : x \in Bytes(s[i])
    <3>1. (\E i \in 1..L : x \in Bytes(new[i])) <=> (\E i \in 1..L : x \in Bytes(done[i])) \/ x \in Bytes(fp)
      BY <2>1, <2>2, <2>4, <2>6, Zenon
    <3>2. (\E i \in 1..(n + 1) : x \in Bytes(s[i])) <=> (\E i \in 1..n : x \in Bytes(s[i])) \/ x \in Bytes(fp)
      BY <1>0, <1>1, Zenon
    <3>3. (\E i \in 1..L : x \in Bytes(done[i])) <=> (\E i \in 1..n : x \in Bytes(s[i]))
      BY <1>3, Zenon DEF Merged
    <3>4. QED
      BY <3>1, <3>2, <3>3, Zenon
  <2>9. ASSUME NEW i \in 1..L, NEW j \in 1..L, NEW x, i # j, x \in Bytes(new[i]), x \in Bytes(new[j])
        PROVE  FALSE
    <3>1. ~(x \in Bytes(done[i]) /\ x \in Bytes(done[j]))
      BY <1>3, <2>9, Zenon DEF Merged
    <3>2. (x \in Bytes(done[i]) \/ (i = L /\ x \in Bytes(fp))) /\ (x \in Bytes(done[j]) \/ (j = L /\ x \in Bytes(fp)))
      BY <2>2, <2>4, <2>6, <2>9, Zenon
    <3>3. QED
      BY <3>1, <3>2, <1>6, <2>9, Zenon
  <2>10. QED
    BY <1>0, <1>3, <2>6, <2>7, <2>8, <2>9, Zenon DEF Merged
<1>8. CASE ~(done # <<>> /\ Contiguous(done[L], fp))
  <2>1. new = Append(done, fp)
    BY <1>0, <1>8, Zenon DEF MergeNext
  <2>2. new \in Seq(Parts) /\ DOMAIN new = 1..(L + 1) /\ new[L + 1] = fp
        /\ \A i \in 1..L : new[i] = done[i]
    <3> HIDE DEF Parts
    <3>1. QED
      BY <1>0, <1>3, <1>5, <2>1
  <2>3. L + 1 \in Nat /\ \A i : i \in 1..(L + 1) <=> i \in 1..L \/ i = L + 1
    BY <1>3
  <2>4. ASSUME NEW x
        PROVE  (\E i \in 1..(L + 1) : x \in Bytes(new[i])) <=> \E i \in 1..(n + 1) : x \in Bytes(s[i])
    <3>1. (\E i \in 1..(L + 1) : x \in Bytes(new[i])) <=> (\E i \in 1..L : x \in Bytes(done[i])) \/ x \in Bytes(fp)
      BY <2>2, <2>3, Zenon
    <3>2. (\E i \in 1..(n + 1) : x \in Bytes(s[i])) <=> (\E i \in 1..n : x \in Bytes(s[i])) \/ x \in Bytes(fp)
      BY <1>0, <1>1, Zenon
    <3>3. (\E i \in 1..L : x \in Bytes(done[i])) <=> (\E i \in 1..n : x \in Bytes(s[i]))
      BY <1>3, Zenon DEF Merged
    <3>4. QED
      BY <3>1, <3>2, <3>3, Zenon
  <2>5. ASSUME NEW i \in 1..(L + 1), NEW j \in 1..(L + 1), NEW x, i # j, x \in Bytes(new[i]), x \in Bytes(new[j])
        PROVE  FALSE
    <3>1. \A k, m \in 1..L : k # m => ~(x \in Bytes(done[k]) /\ x \in Bytes(done[m]))
      BY <1>3, Zenon DEF Merged
    <3>2. QED
      BY <3>1, <1>6, <2>2, <2>3, <2>5, Zenon
  <2>6. QED
    BY <1>0, <2>2, <2>3, <2>4, <2>5, Zenon DEF Merged
<1>9. QED
  BY <1>7, <1>8, Zenon

\* The results after each round up to n.
IsMerge(g, s, n) ==
    g = [k \in 0..n |-> IF k = 0 THEN <<>> ELSE MergeNext(g[k - 1], s[k])]

\* The loop of merge can be run to any length: the recursive function of Merge exists.
LEMMA MergeExists ==
    ASSUME NEW s, NEW N \in Nat
    PROVE  \E g : IsMerge(g, s, N)
<1> DEFINE T == {n \in Nat : \E g : IsMerge(g, s, n)}
<1>1. 0 \in T
  <2> DEFINE g == [k \in 0..0 |-> <<>>]
  <2>1. \A k \in 0..0 : k = 0
    OBVIOUS
  <2>2. IsMerge(g, s, 0)
    BY <2>1, Zenon DEF IsMerge
  <2>3. QED
    BY <2>2
<1>2. ASSUME NEW n \in 0..(N - 1), n \in T PROVE n + 1 \in T
  <2>1. PICK g : IsMerge(g, s, n)
    BY <1>2
  <2> DEFINE h == [k \in 0..(n + 1) |-> IF k = n + 1 THEN MergeNext(g[n], s[n + 1]) ELSE g[k]]
  <2>2. ASSUME NEW k \in 0..(n + 1)
        PROVE  h[k] = IF k = 0 THEN <<>> ELSE MergeNext(h[k - 1], s[k])
    <3>1. CASE k = n + 1
      <4>1. k # 0 /\ k - 1 = n /\ n \in 0..(n + 1) /\ n # n + 1
        BY <3>1
      <4>2. h[k] = MergeNext(g[n], s[k]) /\ h[n] = g[n]
        BY <3>1, <4>1, Zenon
      <4>3. QED
        BY <4>1, <4>2, Zenon
    <3>2. CASE k # n + 1
      <4>1. k \in 0..n /\ (k # 0 => k - 1 \in 0..(n + 1) /\ k - 1 # n + 1)
        BY <3>2
      <4>2. h[k] = g[k] /\ (k # 0 => h[k - 1] = g[k - 1])
        BY <3>2, <4>1, Zenon
      <4>3. g[k] = IF k = 0 THEN <<>> ELSE MergeNext(g[k - 1], s[k])
        BY <2>1, <4>1, Zenon DEF IsMerge
      <4>4. QED
        BY <4>2, <4>3, Zenon
    <3>3. QED
      BY <3>1, <3>2
  <2>3. h = [k \in 0..(n + 1) |-> h[k]]
    BY Zenon
  <2> HIDE DEF h
  <2>4. IsMerge(h, s, n + 1)
    BY <2>2, <2>3, Zenon DEF IsMerge
  <2>5. n + 1 \in Nat
    OBVIOUS
  <2>6. QED
    BY <2>4, <2>5, Zenon
<1> HIDE DEF T
<1>3. 0 \in Nat /\ N \in 0..N
  OBVIOUS
<1>4. N \in T
  BY <1>1, <1>2, <1>3, NumbersFrom, Zenon
<1>5. QED
  BY <1>4 DEF T

\* Merge: the results are disjoint parts with the bytes of all the parts.
LEMMA MergeParts ==
    ASSUME NEW N \in Nat, NEW s, Len(s) = N, \A i \in 1..N : IsPart(s[i]),
           \A i, j \in 1..N : \A x : i # j => ~(x \in Bytes(s[i]) /\ x \in Bytes(s[j]))
    PROVE  Merged(Merge(s), s, N)
<1> DEFINE merged == CHOOSE g : g = [k \in 0..N |-> IF k = 0 THEN <<>> ELSE MergeNext(g[k - 1], s[k])]
           T == {n \in Nat : Merged(merged[n], s, n)}
<1>1. merged = [k \in 0..N |-> IF k = 0 THEN <<>> ELSE MergeNext(merged[k - 1], s[k])]
  <2>1. \E g : g = [k \in 0..N |-> IF k = 0 THEN <<>> ELSE MergeNext(g[k - 1], s[k])]
    BY MergeExists, Zenon DEF IsMerge
  <2>2. QED
    BY <2>1, Zenon
<1>2. Merge(s) = merged[N]
  BY Zenon DEF Merge
<1> HIDE DEF merged
<1>3. 0 \in T
  <2>1. 0 \in 0..N /\ \A i : i \notin 1..0
    OBVIOUS
  <2>2. merged[0] = <<>>
    BY <1>1, <2>1, Zenon
  <2>3. DOMAIN <<>> = 1..0 /\ <<>> \in Seq({p \in [index : Nat, offset : Nat, length : Nat] : IsPart(p)})
    OBVIOUS
  <2>4. Merged(<<>>, s, 0)
    BY <2>1, <2>3, Zenon DEF Merged
  <2>5. QED
    BY <2>2, <2>4, Zenon
<1>4. ASSUME NEW n \in 0..(N - 1), n \in T PROVE n + 1 \in T
  <2>1. n + 1 \in 0..N /\ n + 1 # 0 /\ (n + 1) - 1 = n /\ n + 1 \in Nat
    OBVIOUS
  <2>2. merged[n + 1] = MergeNext(merged[n], s[n + 1])
    BY <1>1, <2>1, Zenon
  <2>3. Merged(merged[n], s, n)
    BY <1>4
  <2>4. Merged(merged[n + 1], s, n + 1)
    BY <2>2, <2>3, MergeRound, Zenon
  <2>5. QED
    BY <2>1, <2>4, Zenon
<1> HIDE DEF T
<1>5. 0 \in Nat /\ N \in 0..N
  OBVIOUS
<1>6. N \in T
  BY <1>3, <1>4, <1>5, NumbersFrom, Zenon
<1>7. QED
  BY <1>2, <1>6, Zenon DEF T

\* FilePiece.Blocks cuts a part into blocks: each byte is in one of them.
LEMMA BlocksOfPart ==
    ASSUME NEW p, IsPart(p)
    PROVE  /\ \A b \in Blocks(p) : IsPart(b) /\ b.length \in 1..BlockLength /\ Bytes(b) \subseteq Bytes(p)
           /\ \A x \in Bytes(p) : \E b \in Blocks(p) : x \in Bytes(b)
           /\ \A b, c \in Blocks(p) : \A x : b # c => ~(x \in Bytes(b) /\ x \in Bytes(c))
<1>0. PICK i, o, l, B, k : i = p.index /\ o = p.offset /\ l = p.length /\ B = BlockLength /\ k = i * PieceLength
  BY Zenon
<1>1. /\ i \in Nat /\ o \in Nat /\ l \in Nat /\ B \in Nat \ {0} /\ k \in Nat /\ PieceLength \in Nat
      /\ o + l <= PieceLength
      /\ \A x : x \in Bytes(p) <=> x \in Int /\ k + o <= x /\ x < k + o + l
  <2>1. i \in Nat /\ o \in Nat /\ l \in Nat /\ B \in Nat \ {0} /\ PieceLength \in Nat /\ o + l <= PieceLength
    BY <1>0, LayoutAssumption DEF IsPart
  <2>2. QED
    BY <1>0, <2>1, BytesOfPart, Zenon
<1> DEFINE J == {j \in 0..l : j * B < l}
           size(j) == IF B <= l - j * B THEN B ELSE l - j * B
           block(j) == FilePiece(i, o + j * B, size(j))
<1>2. ASSUME NEW j \in J PROVE j \in Nat /\ j * B \in Nat /\ j * B < l
  BY <1>1, Multiples
<1>3. \A j \in J : Min({B, l - j * B}) = size(j)
  <2>1. ASSUME NEW j \in J PROVE B \in Int /\ l - j * B \in Int
    BY <1>1, <1>2
  <2>2. QED
    BY <2>1, MinOfTwo, Zenon
<1>4. Blocks(p) = {block(j) : j \in J}
  <2>1. Blocks(p) = {FilePiece(i, o + j * B, Min({B, l - j * B})) : j \in J}
    BY <1>0, Zenon DEF Blocks
  <2> HIDE DEF J, size
  <2>2. QED
    BY <2>1, <1>3, Zenon
<1>5. ASSUME NEW j \in J, NEW b, b = block(j)
      PROVE  /\ IsPart(b) /\ b.length \in 1..B
             /\ \A x : x \in Bytes(b) <=> x \in Int /\ k + (o + j * B) <= x /\ x < k + (o + j * B) + size(j)
             /\ j * B + size(j) <= l
  <2>1. PICK u, v : u = j * B /\ v = size(j)
    BY Zenon
  <2>2. u \in Nat /\ u < l
    BY <2>1, <1>2, Zenon
  <2>3. v = IF B <= l - u THEN B ELSE l - u
    BY <2>1, Zenon
  <2> HIDE DEF J, size
  <2>4. v \in 1..B /\ u + v <= l /\ v \in Nat
    BY <2>2, <2>3, <1>1
  <2>5. b.index = i /\ b.offset = o + u /\ b.length = v /\ b = [index |-> i, offset |-> o + u, length |-> v]
    BY <2>1, <1>5 DEF FilePiece
  <2>6. o + u \in Nat /\ (o + u) + v <= PieceLength
    BY <2>2, <2>4, <1>1
  <2>7. IsPart(b)
    BY <2>4, <2>5, <2>6, <1>1 DEF IsPart
  <2>8. \A x : x \in Bytes(b) <=> x \in Int /\ k + (o + u) <= x /\ x < k + (o + u) + v
    BY <2>5, <2>7, <1>0, BytesOfPart, Zenon
  <2>9. QED
    BY <2>1, <2>4, <2>5, <2>7, <2>8, Zenon
<1>6. ASSUME NEW j \in J, NEW b, b = block(j) PROVE Bytes(b) \subseteq Bytes(p)
  <2>1. PICK u, v : u = j * B /\ v = size(j)
    BY Zenon
  <2>2. u \in Nat /\ v \in Nat /\ u + v <= l
    BY <2>1, <1>1, <1>2, <1>5
  <2>3. \A x : x \in Bytes(b) => x \in Int /\ k + (o + u) <= x /\ x < k + (o + u) + v
    BY <2>1, <1>5, <1>6, Zenon
  <2>4. \A x \in Int : k + (o + u) <= x /\ x < k + (o + u) + v => k + o <= x /\ x < k + o + l
    BY <2>2, <1>1
  <2>5. QED
    BY <2>3, <2>4, <1>1, Zenon
<1>7. ASSUME NEW x \in Bytes(p) PROVE \E b \in Blocks(p) : x \in Bytes(b)
  <2>1. x \in Int /\ k + o <= x /\ x < k + o + l
    BY <1>1, Zenon
  <2>2. PICK y, j, z : y = x - k - o /\ j = y \div B /\ z = y % B
    BY Zenon
  <2>3. y \in Nat /\ y < l /\ x = k + o + y
    BY <2>1, <2>2, <1>1
  <2>4. j \in Nat /\ z \in Nat /\ z < B /\ y = j * B + z
    BY <2>2, <2>3, <1>1, DivMod
  <2>5. PICK u : u = j * B
    BY Zenon
  <2>6. u \in Nat /\ u <= y /\ j <= u
    <3>1. j * B \in Nat /\ j * B >= j
      BY <2>4, <1>1
    <3>2. QED
      BY <3>1, <2>4, <2>5
  <2>7. j \in J
    <3>1. j \in 0..l /\ u < l
      BY <2>3, <2>4, <2>6, <1>1
    <3>2. QED
      BY <3>1, <2>5, Zenon
  <2>8. PICK v, b : v = size(j) /\ b = block(j)
    BY Zenon
  <2>9. v = IF B <= l - u THEN B ELSE l - u
    BY <2>5, <2>8, Zenon
  <2>10. k + (o + u) <= x /\ x < k + (o + u) + v
    BY <2>3, <2>4, <2>5, <2>6, <2>9, <1>1
  <2>11. x \in Bytes(b) /\ b \in Blocks(p)
    BY <2>1, <2>5, <2>7, <2>8, <2>10, <1>4, <1>5, Zenon
  <2>12. QED
    BY <2>11, Zenon
<1>8. ASSUME NEW b \in Blocks(p), NEW c \in Blocks(p), NEW x, x \in Bytes(b), x \in Bytes(c) PROVE b = c
  <2>1. PICK j \in J : b = block(j)
    BY <1>4, Zenon
  <2>2. PICK m \in J : c = block(m)
    BY <1>4, Zenon
  <2>3. PICK u, v, s, t : u = j * B /\ v = size(j) /\ s = m * B /\ t = size(m)
    BY Zenon
  <2>4. /\ j \in Nat /\ m \in Nat /\ u \in Nat /\ s \in Nat /\ v <= B /\ t <= B /\ v \in Nat /\ t \in Nat
    BY <2>1, <2>2, <2>3, <1>1, <1>2, <1>5
  <2>5. x \in Int /\ k + (o + u) <= x /\ x < k + (o + u) + v /\ k + (o + s) <= x /\ x < k + (o + s) + t
    BY <2>1, <2>2, <2>3, <1>5, <1>8, Zenon
  <2>6. (j < m => u + B <= s) /\ (m < j => s + B <= u)
    BY <2>3, <2>4, <1>1, Multiples
  <2>7. ~(j < m) /\ ~(m < j)
    BY <2>4, <2>5, <2>6, <1>1
  <2>8. j = m
    BY <2>4, <2>7
  <2>9. QED
    BY <2>1, <2>2, <2>8, Zenon
<1>9. QED
  BY <1>0, <1>4, <1>5, <1>6, <1>7, <1>8, Zenon

\* The bytes of some files.
BytesOf(fs) == UNION {Positions(Offset(f), lengths[f]) : f \in fs}

\* Blocks that have the bytes of some files, each byte once, and no others.
AreBlocksOf(bs, fs) ==
    /\ \A b \in bs : IsPart(b) /\ b.length \in 1..BlockLength /\ Bytes(b) \subseteq BytesOf(fs)
    /\ \A x \in BytesOf(fs) : \E b \in bs : x \in Bytes(b)
    /\ \A b, c \in bs : \A x : b # c => ~(x \in Bytes(b) /\ x \in Bytes(c))

\* FilePieces, Merge and Blocks together give the blocks of the chosen files.
LEMMA BlocksOfFiles ==
    ASSUME lengths \in Layouts, NEW fs \in SUBSET File, NEW s \in Sorted(PartsOf(fs))
    PROVE  AreBlocksOf(UNION {Blocks(Merge(s)[i]) : i \in DOMAIN Merge(s)}, fs)
<1>0. PICK fps, N, M : fps = PartsOf(fs) /\ N = Cardinality(fps) /\ M = Merge(s)
  BY Zenon
<1> DEFINE bs == UNION {Blocks(M[i]) : i \in DOMAIN M}
<1>1. /\ IsFiniteSet(fps) /\ \A p \in fps : IsPart(p)
      /\ \A p, q \in fps : \A x : p # q => ~(x \in Bytes(p) /\ x \in Bytes(q))
  <2>1. /\ IsFiniteSet(PartsOf(fs)) /\ \A p \in PartsOf(fs) : IsPart(p)
        /\ \A p, q \in PartsOf(fs) : \A x : p # q => ~(x \in Bytes(p) /\ x \in Bytes(q))
    BY PartsOfFiles
  <2>2. QED
    BY <1>0, <2>1, Zenon
<1>2. /\ N \in Nat /\ s \in [1..N -> fps]
      /\ \A i, j \in 1..N : i # j => s[i] # s[j]
      /\ \A p \in fps : \E i \in 1..N : s[i] = p
  <2>1. s \in Sorted(fps)
    BY <1>0, Zenon
  <2>2. QED
    BY <1>0, <1>1, <2>1, SortedParts
<1>3. Len(s) = N
  BY <1>2
<1>4. /\ \A i \in 1..N : s[i] \in fps /\ IsPart(s[i])
      /\ \A i, j \in 1..N : \A x : i # j => ~(x \in Bytes(s[i]) /\ x \in Bytes(s[j]))
  BY <1>1, <1>2, Zenon
<1>5. Merged(M, s, N)
  BY <1>0, <1>2, <1>3, <1>4, MergeParts, Zenon
<1>6. \A i \in DOMAIN M : IsPart(M[i])
  BY <1>5 DEF Merged
<1>7. /\ \A x : (\E i \in DOMAIN M : x \in Bytes(M[i])) <=> \E i \in 1..N : x \in Bytes(s[i])
      /\ \A i, j \in DOMAIN M : \A x : i # j => ~(x \in Bytes(M[i]) /\ x \in Bytes(M[j]))
  BY <1>5, Zenon DEF Merged
<1>8. \A x : (\E i \in 1..N : x \in Bytes(s[i])) <=> x \in BytesOf(fs)
  <2>1. ASSUME NEW x, NEW i \in 1..N, x \in Bytes(s[i]) PROVE x \in BytesOf(fs)
    <3>1. PICK f \in fs : s[i] \in FilePieces(f)
      BY <1>0, <1>4, Zenon DEF PartsOf
    <3>2. x \in Positions(Offset(f), lengths[f])
      BY <2>1, <3>1, PartsOfFile, Zenon
    <3>3. QED
      BY <3>2, Zenon DEF BytesOf
  <2>2. ASSUME NEW x \in BytesOf(fs) PROVE \E i \in 1..N : x \in Bytes(s[i])
    <3>1. PICK f \in fs : x \in Positions(Offset(f), lengths[f])
      BY Zenon DEF BytesOf
    <3>2. PICK p \in FilePieces(f) : x \in Bytes(p)
      BY <3>1, PartsOfFile, Zenon
    <3>3. p \in fps
      BY <3>2, <1>0, Zenon DEF PartsOf
    <3>4. QED
      BY <3>2, <3>3, <1>2, Zenon
  <2>3. QED
    BY <2>1, <2>2, Zenon
<1>9. \A b \in bs : \E i \in DOMAIN M : b \in Blocks(M[i])
  BY Zenon
<1>10. ASSUME NEW b \in bs PROVE IsPart(b) /\ b.length \in 1..BlockLength /\ Bytes(b) \subseteq BytesOf(fs)
  <2>1. PICK i \in DOMAIN M : b \in Blocks(M[i])
    BY <1>9, Zenon
  <2>2. IsPart(b) /\ b.length \in 1..BlockLength /\ Bytes(b) \subseteq Bytes(M[i])
    BY <2>1, <1>6, BlocksOfPart, Zenon
  <2>3. Bytes(M[i]) \subseteq BytesOf(fs)
    BY <1>7, <1>8, Zenon
  <2>4. QED
    BY <2>2, <2>3, Zenon
<1>11. ASSUME NEW x \in BytesOf(fs) PROVE \E b \in bs : x \in Bytes(b)
  <2>1. PICK i \in DOMAIN M : x \in Bytes(M[i])
    BY <1>7, <1>8, Zenon
  <2>2. PICK b \in Blocks(M[i]) : x \in Bytes(b)
    BY <2>1, <1>6, BlocksOfPart, Zenon
  <2>3. QED
    BY <2>2, Zenon
<1>12. ASSUME NEW b \in bs, NEW c \in bs, NEW x, x \in Bytes(b), x \in Bytes(c) PROVE b = c
  <2>1. PICK i \in DOMAIN M : b \in Blocks(M[i])
    BY <1>9, Zenon
  <2>2. PICK j \in DOMAIN M : c \in Blocks(M[j])
    BY <1>9, Zenon
  <2>3. x \in Bytes(M[i]) /\ x \in Bytes(M[j])
    BY <1>6, <1>12, <2>1, <2>2, BlocksOfPart, Zenon
  <2>4. i = j
    BY <1>7, <2>3, Zenon
  <2>5. QED
    BY <1>6, <1>12, <2>1, <2>2, <2>4, BlocksOfPart, Zenon
<1> HIDE DEF bs
<1>13. AreBlocksOf(bs, fs)
  BY <1>10, <1>11, <1>12, Zenon DEF AreBlocksOf
<1>14. QED
  BY <1>0, <1>13, Zenon DEF bs

\* The number of pieces is rounded up.
LEMMA CountOfPieces ==
    ASSUME lengths \in Layouts
    PROVE  CountPieces = ((TotalLength - 1) \div PieceLength) + 1
<1>0. PICK n, t, q, z : n = PieceLength /\ t = TotalLength /\ q = (t - 1) \div n /\ z = (t - 1) % n
  BY Zenon
<1>1. n \in Nat \ {0} /\ t \in Nat /\ t > 0
  BY <1>0, LayoutAssumption, Layout
<1>2. q \in Nat /\ z \in Nat /\ z < n /\ t - 1 = q * n + z /\ q * n \in Nat
  <2>1. t - 1 \in Nat
    BY <1>1
  <2>2. QED
    BY <1>0, <1>1, <2>1, DivMod, Multiples
<1>3. q <= q * n
  BY <1>1, <1>2
<1>4. q \in 0..t
  BY <1>1, <1>2, <1>3
<1>5. ASSUME NEW i \in Nat PROVE i * n < t <=> i <= q
  <2>1. i * n \in Nat /\ (i < q => i * n + n <= q * n) /\ (q < i => q * n + n <= i * n)
    BY <1>1, <1>2, Multiples
  <2>2. CASE i < q
    BY <2>1, <2>2, <1>1, <1>2
  <2>3. CASE i = q
    BY <2>3, <1>1, <1>2
  <2>4. CASE q < i
    BY <2>1, <2>4, <1>1, <1>2
  <2>5. QED
    BY <2>2, <2>3, <2>4, <1>2
<1>6. {i \in 0..t : i * n < t} = 0..q
  <2>1. \A i : i \in 0..t /\ i * n < t <=> i \in 0..q
    BY <1>1, <1>2, <1>4, <1>5
  <2>2. QED
    BY <2>1, Zenon
<1>7. Cardinality(0..q) = q + 1
  <2>1. 0 \in Int /\ q \in Int
    BY <1>2
  <2>2. Cardinality(0..q) = IF 0 > q THEN 0 ELSE q - 0 + 1
    BY <2>1, FS_Interval, Zenon
  <2>3. QED
    BY <2>2, <1>2
<1>8. QED
  BY <1>0, <1>6, <1>7, Zenon DEF CountPieces

\* A block with bytes of the torrent is inside of a piece of the torrent.
LEMMA BlockInPiece ==
    ASSUME lengths \in Layouts, NEW b, IsPart(b), b.length \in 1..BlockLength,
           Bytes(b) \subseteq 0..(TotalLength - 1)
    PROVE  /\ b \in [index : Nat, offset : 0..(PieceLength - 1), length : 1..BlockLength]
           /\ b.index < CountPieces /\ b.offset + b.length <= LengthOfPiece(b.index)
           /\ PieceOffset(b.index, b.offset) \in 0..TotalLength
<1>0. PICK i, o, l, n, t, q, z, k :
         /\ i = b.index /\ o = b.offset /\ l = b.length /\ n = PieceLength /\ t = TotalLength
         /\ q = (t - 1) \div n /\ z = (t - 1) % n /\ k = i * n
  BY Zenon
<1>1. /\ i \in Nat /\ o \in Nat /\ l \in Nat /\ l > 0 /\ o + l <= n
      /\ n \in Nat \ {0} /\ t \in Nat /\ t > 0
  BY <1>0, LayoutAssumption, Layout DEF IsPart
<1>2. q \in Nat /\ z \in Nat /\ z < n /\ t - 1 = q * n + z
  <2>1. t - 1 \in Nat
    BY <1>1
  <2>2. QED
    BY <1>0, <1>1, <2>1, DivMod
<1>3. k \in Nat /\ q * n \in Nat /\ (q < i => q * n + n <= k)
  BY <1>0, <1>1, <1>2, Multiples
<1>4. k + o + l <= t
  <2>1. \A x : x \in Bytes(b) <=> x \in Int /\ k + o <= x /\ x < k + o + l
    BY <1>0, BytesOfPart, Zenon
  <2>2. k + o + l - 1 \in Int /\ k + o <= k + o + l - 1 /\ k + o + l - 1 < k + o + l
    BY <1>1, <1>3
  <2>3. k + o + l - 1 \in 0..(t - 1)
    BY <2>1, <2>2, <1>0, Zenon
  <2>4. QED
    BY <2>3, <1>1, <1>3
<1>5. i <= q
  <2>1. ~(q < i)
    BY <1>1, <1>2, <1>3, <1>4
  <2>2. QED
    BY <2>1, <1>1, <1>2
<1>6. CountPieces = q + 1
  BY <1>0, CountOfPieces, Zenon
<1>7. i < CountPieces
  BY <1>1, <1>2, <1>5, <1>6
<1>8. o + l <= LengthOfPiece(i)
  <2>1. LengthOfPiece(i) = IF i = CountPieces - 1 THEN t - k ELSE n
    BY <1>0, Zenon DEF LengthOfPiece
  <2>2. o + l <= t - k
    BY <1>1, <1>3, <1>4
  <2>3. QED
    BY <2>1, <2>2, <1>1, Zenon
<1>9. PieceOffset(i, o) \in 0..t
  <2>1. PieceOffset(i, o) = k + o
    BY <1>0, Zenon DEF PieceOffset
  <2>2. QED
    BY <2>1, <1>1, <1>3, <1>4
<1>10. b \in [index : Nat, offset : 0..(n - 1), length : 1..BlockLength]
  <2>1. o \in 0..(n - 1)
    BY <1>1
  <2>2. QED
    BY <2>1, <1>0, <1>1 DEF IsPart
<1>11. QED
  BY <1>0, <1>7, <1>8, <1>9, <1>10, Zenon

-----------------------------------------------------------------------------
(***************************************************************************)
(* The inductive invariant.  A call has written, or read, the bytes that   *)
(* it counts.  This alone does not follow from the calls before: it needs  *)
(* that what is on the disk stays there, and at its place.                 *)
(***************************************************************************)
CallOf(total) == [pc : {"idle", "run", "done"}, off : 0..total, len : Nat, n : Nat,
                  err : BOOLEAN, got : Seq(Int), before : SUBSET (0..(total - 1))]

InTorrent(c, total) == c \in CallOf(total) /\ c.n <= c.len /\ c.off + c.n <= total

WriteOK(c, total, present) ==
    /\ InTorrent(c, total)
    /\ Positions(c.off, c.n) \subseteq present
    /\ c.pc = "done" /\ ~c.err => c.n = c.len

ReadOK(c, total, present) ==
    /\ InTorrent(c, total)
    /\ c.before \subseteq present
    /\ Len(c.got) = c.n
    /\ \A i \in 1..c.n : Right(c, i, c.got[i])
    /\ c.pc = "run" => ~c.err
    /\ c.pc = "done" => (c.err <=> c.n < c.len)
    /\ c.err => ~(Positions(c.off, c.len) \subseteq c.before)

BlocksOK(bs, fs, present) ==
    /\ BytesOf(fs) \subseteq present \cup UNION {Bytes(b) : b \in bs}
    /\ \A b \in bs : IsPart(b) /\ b.length \in 1..BlockLength /\ Bytes(b) \subseteq BytesOf(fs)
    /\ \A b, c \in bs : \A x : b # c => ~(x \in Bytes(b) /\ x \in Bytes(c))

IInv ==
    /\ lengths \in Layouts
    /\ disk \in [File -> Seq(Int)] /\ BytesInPlace
    /\ chosen \subseteq File /\ fails \in 0..MaxFail
    /\ chosen = {} => blocks = {}
    /\ BlocksOK(blocks, chosen, Present)
    /\ WriteOK(w, TotalLength, Present)
    /\ ReadOK(r, TotalLength, Present)

\* The bytes of files are bytes of the torrent.
LEMMA BytesInTorrent ==
    ASSUME lengths \in Layouts, NEW fs \in SUBSET File
    PROVE  BytesOf(fs) \subseteq 0..(TotalLength - 1)
<1>1. ASSUME NEW f \in fs PROVE Positions(Offset(f), lengths[f]) \subseteq 0..(TotalLength - 1)
  <2>1. Offset(f) \in Nat /\ lengths[f] \in Nat /\ Offset(f) + lengths[f] <= TotalLength /\ TotalLength \in Nat
    BY FileInTorrent, Layout, Zenon
  <2>2. QED
    BY <2>1 DEF Positions
<1>2. QED
  BY <1>1, Zenon DEF BytesOf

\* A block is inside of a piece of the torrent.
LEMMA BlocksInPieces ==
    ASSUME lengths \in Layouts, NEW fs \in SUBSET File, NEW bs, NEW present, BlocksOK(bs, fs, present),
           NEW b \in bs
    PROVE  /\ b \in [index : Nat, offset : 0..(PieceLength - 1), length : 1..BlockLength]
           /\ b.index < CountPieces /\ b.offset + b.length <= LengthOfPiece(b.index)
           /\ PieceOffset(b.index, b.offset) \in 0..TotalLength
<1>1. IsPart(b) /\ b.length \in 1..BlockLength /\ Bytes(b) \subseteq BytesOf(fs)
  BY Zenon DEF BlocksOK
<1>2. Bytes(b) \subseteq 0..(TotalLength - 1)
  BY <1>1, BytesInTorrent, Zenon
<1>3. QED
  BY <1>1, <1>2, BlockInPiece, Zenon

\* The invariant has what is claimed.
LEMMA InvariantImplies ==
    ASSUME IInv
    PROVE  TypeOK /\ BytesInPlace /\ ReadsAreRight /\ BlocksAreExact
<1>1. TypeOK
  <2>1. blocks \subseteq [index : Nat, offset : 0..(PieceLength - 1), length : 1..BlockLength]
    BY BlocksInPieces, Zenon DEF IInv
  <2>2. QED
    BY <2>1, Zenon DEF IInv, TypeOK, WriteOK, ReadOK, InTorrent, CallOf
<1>2. ReadsAreRight
  BY Zenon DEF IInv, ReadOK, ReadsAreRight, Right
<1>3. BlocksAreExact
  <2>1. ChosenBytes = BytesOf(chosen)
    BY Zenon DEF ChosenBytes, BytesOf
  <2>2. ASSUME NEW b \in blocks
        PROVE  b.index < CountPieces /\ b.offset + b.length <= LengthOfPiece(b.index)
    BY BlocksInPieces, Zenon DEF IInv
  <2>3. /\ BytesOf(chosen) \subseteq Present \cup UNION {Bytes(b) : b \in blocks}
        /\ \A b \in blocks : Bytes(b) \subseteq BytesOf(chosen)
    BY Zenon DEF IInv, BlocksOK
  <2>4. ASSUME NEW b \in blocks, NEW c \in blocks, b # c PROVE Bytes(b) \cap Bytes(c) = {}
    BY <2>4, Zenon DEF IInv, BlocksOK
  <2>5. QED
    BY <2>1, <2>2, <2>3, <2>4, Zenon DEF BlocksAreExact
<1>4. QED
  BY <1>1, <1>2, <1>3, Zenon DEF IInv

\* What depends on the torrent only.
LEMMA LayoutStays ==
    ASSUME lengths' = lengths
    PROVE  /\ File' = File /\ TotalLength' = TotalLength
           /\ \A f : Offset(f)' = Offset(f)
           /\ \A fs : BytesOf(fs)' = BytesOf(fs)
           /\ \A bs, fs, present : BlocksOK(bs, fs, present)' <=> BlocksOK(bs, fs, present)
BY DEF File, TotalLength, Offset, BytesOf, BlocksOK

\* What depends on the disk as well.
LEMMA DiskStays ==
    ASSUME lengths' = lengths, disk' = disk
    PROVE  /\ Present' = Present
           /\ disk \in [File -> Seq(Int)] => disk' \in [File' -> Seq(Int)]
           /\ BytesInPlace => BytesInPlace'
BY DEF File, Offset, Present, BytesInPlace, Hole

\* A disk with more bytes is as good.
LEMMA MoreOnDisk ==
    ASSUME NEW total, NEW present, NEW more, present \subseteq more
    PROVE  /\ \A c : WriteOK(c, total, present) => WriteOK(c, total, more)
           /\ \A c : ReadOK(c, total, present) => ReadOK(c, total, more)
           /\ \A bs, fs : BlocksOK(bs, fs, present) => BlocksOK(bs, fs, more)
<1>1. ASSUME NEW c, WriteOK(c, total, present) PROVE WriteOK(c, total, more)
  BY <1>1, Zenon DEF WriteOK
<1>2. ASSUME NEW c, ReadOK(c, total, present) PROVE ReadOK(c, total, more)
  BY <1>2, Zenon DEF ReadOK
<1>3. ASSUME NEW bs, NEW fs, BlocksOK(bs, fs, present) PROVE BlocksOK(bs, fs, more)
  <2>1. BytesOf(fs) \subseteq present \cup UNION {Bytes(b) : b \in bs}
    BY <1>3, Zenon DEF BlocksOK
  <2>2. BytesOf(fs) \subseteq more \cup UNION {Bytes(b) : b \in bs}
    BY <2>1, Zenon
  <2>3. QED
    BY <1>3, <2>2, Zenon DEF BlocksOK
<1>4. QED
  BY <1>1, <1>2, <1>3, Zenon

\* A call that has moved nothing yet.
IsFresh(c, total) ==
    c \in CallOf(total) /\ c.n = 0 /\ c.pc # "done" /\ c.err = FALSE /\ c.got = <<>>

\* A call of WriteAt or ReadAt that has moved nothing satisfies what is kept of calls.
LEMMA FreshIsOK ==
    ASSUME lengths \in Layouts, NEW c, IsFresh(c, TotalLength), NEW present, c.before \subseteq present
    PROVE  WriteOK(c, TotalLength, present) /\ ReadOK(c, TotalLength, present)
<1>1. TotalLength \in Nat
  BY Layout, Zenon
<1>2. c.off \in 0..TotalLength /\ c.len \in Nat
  BY DEF IsFresh, CallOf
<1>3. 0 <= c.len /\ c.off + 0 <= TotalLength /\ Positions(c.off, 0) = {}
  BY <1>1, <1>2 DEF Positions
<1>4. Len(<<>>) = 0 /\ \A i : i \notin 1..0
  OBVIOUS
<1>5. InTorrent(c, TotalLength)
  BY <1>3, Zenon DEF InTorrent, IsFresh
<1>6. WriteOK(c, TotalLength, present)
  BY <1>3, <1>5, Zenon DEF WriteOK, IsFresh
<1>7. ReadOK(c, TotalLength, present)
  BY <1>4, <1>5, Zenon DEF ReadOK, IsFresh
<1>8. QED
  BY <1>6, <1>7, Zenon

\* Calls begin like this.
LEMMA CallsAreFresh ==
    ASSUME NEW total \in Nat, NEW off \in 0..total, NEW len \in Nat
    PROVE  /\ IsFresh(Idle, total) /\ Idle.before = {} /\ Idle.pc = "idle"
           /\ IsFresh(Call(off, len), total) /\ Call(off, len).before = {}
<1>1. IsFresh(Idle, total) /\ Idle.before = {} /\ Idle.pc = "idle"
  <2>1. /\ FALSE \in BOOLEAN /\ <<>> \in Seq(Int) /\ 0 \in Nat /\ 0 \in 0..total /\ {} \in SUBSET (0..(total - 1))
        /\ "idle" \in {"idle", "run", "done"} /\ "idle" # "done"
    OBVIOUS
  <2>2. Idle \in CallOf(total)
    BY <2>1, Zenon DEF CallOf, Idle
  <2>3. Idle.n = 0 /\ Idle.pc = "idle" /\ Idle.err = FALSE /\ Idle.got = <<>> /\ Idle.before = {}
    BY Zenon DEF Idle
  <2>4. QED
    BY <2>1, <2>2, <2>3, Zenon DEF IsFresh
<1>2. ASSUME NEW c, IsFresh(c, total), NEW d, d = [c EXCEPT !.pc = "run", !.off = off, !.len = len]
      PROVE  IsFresh(d, total) /\ d.before = c.before
  BY <1>2 DEF IsFresh, CallOf
<1>3. IsFresh(Call(off, len), total) /\ Call(off, len).before = {}
  BY <1>1, <1>2, Zenon DEF Call
<1>4. QED
  BY <1>1, <1>3, Zenon

\* ReadAt records, for the properties, what is on the disk when it begins.
LEMMA FreshBefore ==
    ASSUME NEW total, NEW c, IsFresh(c, total), NEW before \in SUBSET (0..(total - 1))
    PROVE  /\ IsFresh([c EXCEPT !.before = before], total)
           /\ [c EXCEPT !.before = before].before = before
BY DEF IsFresh, CallOf

\* The first states.
LEMMA InitIInv ==
    ASSUME Init
    PROVE  IInv
<1>1. lengths \in Layouts /\ TotalLength \in Nat
  BY Layout, Zenon DEF Init
<1>2. disk \in [File -> Seq(Int)] /\ \A f \in File : disk[f] = <<>>
  BY DEF Init
<1>3. BytesInPlace
  <2>1. \A f \in File : lengths[f] \in Nat
    BY <1>1, Layout, Zenon
  <2>2. Len(<<>>) = 0 /\ DOMAIN <<>> = {}
    OBVIOUS
  <2>3. \A f \in File : Len(disk[f]) <= lengths[f]
    BY <1>2, <2>1, <2>2
  <2>4. QED
    BY <1>2, <2>2, <2>3, Zenon DEF BytesInPlace
<1>4. chosen = {} /\ blocks = {} /\ w = Idle /\ r = Idle
  BY Zenon DEF Init
<1>5. BlocksOK(blocks, chosen, Present)
  BY <1>4, Zenon DEF BlocksOK, BytesOf
<1>6. 0 \in 0..TotalLength /\ 0 \in Nat
  BY <1>1
<1>7. IsFresh(Idle, TotalLength) /\ Idle.before \subseteq Present
  BY <1>1, <1>6, CallsAreFresh, Zenon
<1>8. WriteOK(w, TotalLength, Present) /\ ReadOK(r, TotalLength, Present)
  BY <1>1, <1>4, <1>7, FreshIsOK, Zenon
<1>9. chosen \subseteq File /\ fails \in 0..MaxFail
  BY <1>4, LayoutAssumption DEF Init
<1>10. QED
  BY <1>1, <1>2, <1>3, <1>4, <1>5, <1>8, <1>9, Zenon DEF IInv

\* What a step keeps when it leaves the torrent and the disk alone.
LEMMA KeptByCalls ==
    ASSUME IInv, lengths' = lengths, disk' = disk,
           chosen' \subseteq File, fails' \in 0..MaxFail, chosen' = {} => blocks' = {},
           BlocksOK(blocks', chosen', Present),
           WriteOK(w', TotalLength, Present), ReadOK(r', TotalLength, Present)
    PROVE  IInv'
<1>1. /\ lengths' \in Layouts
      /\ disk' \in [File' -> Seq(Int)] /\ BytesInPlace' /\ Present' = Present
  BY DiskStays, Zenon DEF IInv
<1>2. File' = File /\ TotalLength' = TotalLength
  BY LayoutStays, Zenon
<1>3. \A fs : BytesOf(fs)' = BytesOf(fs)
  BY LayoutStays, Zenon
<1>4. BlocksOK(blocks, chosen, Present)'
  BY <1>1, <1>3 DEF BlocksOK
<1>5. WriteOK(w, TotalLength, Present)' /\ ReadOK(r, TotalLength, Present)'
  BY <1>1, <1>2, Zenon DEF WriteOK, ReadOK, InTorrent, CallOf, Positions, Right, Hole
<1>6. QED
  BY <1>1, <1>2, <1>4, <1>5, Zenon DEF IInv

\* The application computes the blocks of its files.
LEMMA ChooseKeeps ==
    ASSUME IInv, NEW fs \in (SUBSET File) \ {{}}, Choose(fs)
    PROVE  IInv'
<1>1. PICK s \in Sorted(UNION {FilePieces(f) : f \in fs}) :
         blocks' = UNION {Blocks(Merge(s)[i]) : i \in DOMAIN Merge(s)}
  BY Zenon DEF Choose
<1>2. chosen' = fs /\ fs # {} /\ fs \subseteq File
  BY Zenon DEF Choose
<1>3. lengths' = lengths /\ disk' = disk /\ w' = w /\ r' = r /\ fails' = fails
  BY Zenon DEF Choose
<1>4. AreBlocksOf(blocks', fs)
  <2>1. s \in Sorted(PartsOf(fs)) /\ lengths \in Layouts /\ fs \in SUBSET File
    BY <1>1, <1>2, Zenon DEF PartsOf, IInv
  <2>2. AreBlocksOf(UNION {Blocks(Merge(s)[i]) : i \in DOMAIN Merge(s)}, fs)
    BY <2>1, BlocksOfFiles, Zenon
  <2>3. QED
    BY <1>1, <2>2, Zenon
<1>5. BlocksOK(blocks', chosen', Present)
  BY <1>2, <1>4, Zenon DEF BlocksOK, AreBlocksOf
<1>6. QED
  BY <1>2, <1>3, <1>5, KeptByCalls, Zenon DEF IInv

\* A call of WriteAt begins, with a block or at the end of the torrent.
LEMMA WriteBegins ==
    ASSUME IInv, NEW off \in 0..TotalLength, NEW len \in Nat, w' = Call(off, len),
           UNCHANGED <<lengths, chosen, blocks, disk, r, fails>>
    PROVE  IInv'
<1>1. lengths \in Layouts /\ TotalLength \in Nat
  BY Layout, Zenon DEF IInv
<1>2. IsFresh(w', TotalLength) /\ w'.before = {}
  BY <1>1, CallsAreFresh, Zenon
<1>3. w'.before \subseteq Present
  BY <1>2, Zenon
<1>4. WriteOK(w', TotalLength, Present)
  BY <1>1, <1>2, <1>3, FreshIsOK, Zenon
<1>5. lengths' = lengths /\ disk' = disk /\ chosen' = chosen /\ blocks' = blocks /\ r' = r /\ fails' = fails
  BY Zenon
<1>6. QED
  BY <1>4, <1>5, KeptByCalls, Zenon DEF IInv

\* WriteBlock begins a call inside the torrent, at the place of its block.
LEMMA WriteBlockKeeps ==
    ASSUME IInv, NEW b \in blocks, WriteBlock(b)
    PROVE  IInv'
<1>1. /\ b \in [index : Nat, offset : 0..(PieceLength - 1), length : 1..BlockLength]
      /\ PieceOffset(b.index, b.offset) \in 0..TotalLength
  BY BlocksInPieces, Zenon DEF IInv
<1>2. b.length \in Nat
  BY <1>1, LayoutAssumption
<1>3. QED
  BY <1>1, <1>2, WriteBegins, Zenon DEF WriteBlock

\* WriteAt with bytes over the end of the torrent begins inside it.
LEMMA WriteOverEndKeeps ==
    ASSUME IInv, WriteOverEnd
    PROVE  IInv'
<1>1. PICK off \in {TotalLength - 1, TotalLength} : w' = Call(off, 2)
  BY Zenon DEF WriteOverEnd
<1>2. TotalLength \in Nat /\ TotalLength > 0
  BY Layout, Zenon DEF IInv
<1>3. off \in 0..TotalLength /\ 2 \in Nat
  BY <1>2
<1>4. UNCHANGED <<lengths, chosen, blocks, disk, r, fails>>
  BY Zenon DEF WriteOverEnd
<1>5. QED
  BY <1>1, <1>3, <1>4, WriteBegins, Zenon

\* WriteAt returns.
LEMMA WriteReturnsKeeps ==
    ASSUME IInv, WriteReturns
    PROVE  IInv'
<1>1. /\ w.n = w.len /\ w' = [w EXCEPT !.pc = "done"]
      /\ lengths' = lengths /\ disk' = disk /\ chosen' = chosen /\ blocks' = blocks /\ r' = r /\ fails' = fails
  BY Zenon DEF WriteReturns
<1>2. w \in CallOf(TotalLength)
  BY Zenon DEF IInv, WriteOK, InTorrent
<1>3. w' \in CallOf(TotalLength) /\ w'.off = w.off /\ w'.n = w.n /\ w'.len = w.len
  BY <1>1, <1>2 DEF CallOf
<1>4. WriteOK(w', TotalLength, Present)
  BY <1>1, <1>3, Zenon DEF IInv, WriteOK, InTorrent
<1>5. QED
  BY <1>1, <1>4, KeptByCalls, Zenon DEF IInv

\* The application drops the blocks that are written.
LEMMA WrittenKeeps ==
    ASSUME IInv, Written
    PROVE  IInv'
<1> DEFINE kept(b) == w.err \/ PieceOffset(b.index, b.offset) # w.off \/ b.length # w.len
<1>1. /\ w.pc = "done" /\ w' = Idle /\ blocks' = {b \in blocks : kept(b)}
      /\ lengths' = lengths /\ disk' = disk /\ chosen' = chosen /\ r' = r /\ fails' = fails
  BY Zenon DEF Written
<1>2. lengths \in Layouts /\ TotalLength \in Nat
  BY Layout, Zenon DEF IInv
<1>3. WriteOK(w', TotalLength, Present)
  <2>1. 0 \in 0..TotalLength /\ 0 \in Nat
    BY <1>2
  <2>2. IsFresh(Idle, TotalLength) /\ Idle.before \subseteq Present
    BY <1>2, <2>1, CallsAreFresh, Zenon
  <2>3. QED
    BY <1>1, <1>2, <2>2, FreshIsOK, Zenon
<1>4. ASSUME NEW b \in blocks, ~kept(b) PROVE Bytes(b) \subseteq Present
  <2>1. ~w.err /\ PieceOffset(b.index, b.offset) = w.off /\ b.length = w.len
    BY <1>4, Zenon
  <2>2. w.n = w.len /\ Positions(w.off, w.n) \subseteq Present
    BY <1>1, <2>1, Zenon DEF IInv, WriteOK
  <2>3. Bytes(b) = Positions(w.off, w.n)
    BY <2>1, <2>2, Zenon DEF Bytes
  <2>4. QED
    BY <2>2, <2>3, Zenon
<1> HIDE DEF kept
<1>5. BlocksOK(blocks', chosen', Present)
  <2>1. ASSUME NEW x \in BytesOf(chosen), x \notin Present PROVE \E b \in blocks' : x \in Bytes(b)
    <3>1. PICK b \in blocks : x \in Bytes(b)
      BY <2>1, Zenon DEF IInv, BlocksOK
    <3>2. kept(b)
      BY <3>1, <2>1, <1>4, Zenon
    <3>3. QED
      BY <3>1, <3>2, <1>1, Zenon
  <2>2. blocks' \subseteq blocks
    BY <1>1, Zenon
  <2>3. BytesOf(chosen) \subseteq Present \cup UNION {Bytes(b) : b \in blocks'}
    BY <2>1, Zenon
  <2>4. /\ \A b \in blocks' : IsPart(b) /\ b.length \in 1..BlockLength /\ Bytes(b) \subseteq BytesOf(chosen)
        /\ \A b, c \in blocks' : \A x : b # c => ~(x \in Bytes(b) /\ x \in Bytes(c))
    BY <2>2, Zenon DEF IInv, BlocksOK
  <2>5. QED
    BY <2>3, <2>4, <1>1, Zenon DEF BlocksOK
<1>6. chosen' = {} => blocks' = {}
  BY <1>1, Zenon DEF IInv
<1>7. QED
  BY <1>1, <1>3, <1>5, <1>6, KeptByCalls, Zenon DEF IInv

\* A call that is not over is one of the loop's.
LEMMA CallRuns ==
    ASSUME lengths \in Layouts, NEW c, InTorrent(c, TotalLength), c.n < c.len
    PROVE  /\ Running(c) /\ c.off \in Nat /\ c.n \in Nat /\ c.len \in Nat
           /\ ~AtEnd(c) => c.off + c.n + Chunk(c) <= TotalLength
<1>1. TotalLength \in Nat
  BY Layout, Zenon
<1>2. c.off \in Nat /\ c.n \in Nat /\ c.len \in Nat /\ c.off + c.n <= TotalLength
  BY <1>1 DEF InTorrent, CallOf
<1>3. Running(c)
  BY <1>2 DEF Running
<1>4. ASSUME ~AtEnd(c) PROVE c.off + c.n + Chunk(c) <= TotalLength
  <2>1. PICK at, k, o, l : at = Place(c) /\ k = Chunk(c) /\ o = Offset(at.file) /\ l = lengths[at.file]
    BY Zenon
  <2>2. at.file \in File /\ at.offset \in Nat /\ c.off + c.n = o + at.offset /\ k \in Nat /\ at.offset + k <= l
    BY <1>3, <1>4, <2>1, RoundFacts, Zenon
  <2>3. o \in Nat /\ l \in Nat /\ o + l <= TotalLength
    BY <2>1, <2>2, FileInTorrent, Zenon
  <2>4. c.off + c.n + k <= TotalLength
    BY <1>1, <2>2, <2>3
  <2>5. QED
    BY <2>1, <2>4, Zenon
<1>5. QED
  BY <1>2, <1>3, <1>4, Zenon

\* A round of WriteAt, whether it succeeds or fails, writes m of the bytes.
LEMMA WriteRound ==
    ASSUME IInv, w.n < w.len, ~AtEnd(w), NEW m \in 0..Chunk(w), disk' = Stored(w, m),
           NEW pc \in {"run", "done"}, NEW err \in BOOLEAN, pc = "done" => err,
           w' = [w EXCEPT !.pc = pc, !.n = @ + m, !.err = err],
           fails' \in 0..MaxFail, UNCHANGED <<lengths, chosen, blocks, r>>
    PROVE  IInv'
<1>1. /\ lengths \in Layouts /\ lengths' = lengths /\ disk \in [File -> Seq(Int)] /\ BytesInPlace
      /\ InTorrent(w, TotalLength) /\ Positions(w.off, w.n) \subseteq Present
      /\ chosen' = chosen /\ blocks' = blocks /\ r' = r
  BY Zenon DEF IInv, WriteOK
<1>2. Running(w) /\ w.off \in Nat /\ w.n \in Nat /\ w.len \in Nat /\ w.off + w.n + Chunk(w) <= TotalLength
  BY <1>1, CallRuns, Zenon
<1>3. Chunk(w) \in Nat /\ w.n + Chunk(w) <= w.len /\ TotalLength \in Nat
  BY <1>1, <1>2, RoundFacts, Layout, Zenon
<1>4. /\ disk' \in [File -> Seq(Int)] /\ BytesInPlace' /\ Present \subseteq Present'
      /\ Positions(w.off + w.n, m) \subseteq Present'
  BY <1>1, <1>2, RoundOfWrite, Zenon
<1>5. File' = File /\ TotalLength' = TotalLength /\ \A fs : BytesOf(fs)' = BytesOf(fs)
  BY <1>1, LayoutStays, Zenon
<1>6. m \in Nat /\ m <= Chunk(w)
  BY <1>3
<1>7. w \in CallOf(TotalLength)
  BY <1>1, Zenon DEF InTorrent
<1>8. w' \in CallOf(TotalLength) /\ w'.off = w.off /\ w'.len = w.len /\ w'.n = w.n + m /\ w'.pc = pc /\ w'.err = err
  <2>1. w.n + m \in Nat /\ pc \in {"idle", "run", "done"}
    BY <1>2, <1>6
  <2>2. QED
    BY <2>1, <1>7, Zenon DEF CallOf
<1>9. w.n + m <= w.len /\ w.off + (w.n + m) <= TotalLength
  BY <1>2, <1>3, <1>6
<1>10. Positions(w.off, w.n + m) \subseteq Present'
  <2>1. Positions(w.off, w.n + m) = Positions(w.off, w.n) \cup Positions(w.off + w.n, m)
    BY <1>2, <1>6 DEF Positions
  <2>2. QED
    BY <2>1, <1>1, <1>4, Zenon
<1>11. WriteOK(w', TotalLength, Present')
  BY <1>8, <1>9, <1>10, Zenon DEF WriteOK, InTorrent
<1>12. ReadOK(r, TotalLength, Present') /\ BlocksOK(blocks, chosen, Present')
  BY <1>4, MoreOnDisk, Zenon DEF IInv
<1>13. BlocksOK(blocks, chosen, Present)'
  BY <1>1, <1>5, <1>12 DEF BlocksOK
<1>14. WriteOK(w, TotalLength, Present)' /\ ReadOK(r, TotalLength, Present)'
  BY <1>1, <1>5, <1>11, <1>12, Zenon DEF WriteOK, ReadOK, InTorrent, CallOf, Positions, Right, Hole
<1>15. chosen' \subseteq File' /\ (chosen' = {} => blocks' = {}) /\ lengths' \in Layouts
  BY <1>1, <1>5, Zenon DEF IInv
<1>16. QED
  BY <1>4, <1>5, <1>13, <1>14, <1>15, Zenon DEF IInv

\* A round of WriteAt writes its bytes into the file at the place, or fails and ends.
LEMMA WriteAtKeeps ==
    ASSUME IInv, WriteAt
    PROVE  IInv'
<1>1. /\ w.pc = "run" /\ w.n < w.len /\ lengths \in Layouts /\ InTorrent(w, TotalLength)
      /\ UNCHANGED <<lengths, chosen, blocks, r>>
  BY Zenon DEF WriteAt, IInv, WriteOK
<1>2. w \in CallOf(TotalLength) /\ fails \in 0..MaxFail /\ MaxFail \in Nat
  BY <1>1, LayoutAssumption, Zenon DEF InTorrent, IInv
<1>3. ASSUME AtEnd(w), w' = [w EXCEPT !.pc = "done", !.err = TRUE], UNCHANGED <<disk, fails>>
      PROVE  IInv'
  <2>1. w' \in CallOf(TotalLength) /\ w'.off = w.off /\ w'.len = w.len /\ w'.n = w.n /\ w'.err = TRUE
    BY <1>2, <1>3 DEF CallOf
  <2>2. WriteOK(w', TotalLength, Present)
    BY <2>1, Zenon DEF IInv, WriteOK, InTorrent
  <2>3. lengths' = lengths /\ disk' = disk /\ chosen' = chosen /\ blocks' = blocks /\ r' = r /\ fails' = fails
    BY <1>1, <1>3, Zenon
  <2>4. QED
    BY <2>2, <2>3, KeptByCalls, Zenon DEF IInv
<1>4. ASSUME ~AtEnd(w) PROVE Chunk(w) \in Nat
  BY <1>1, <1>4, CallRuns, RoundFacts, Zenon
<1>5. ASSUME ~AtEnd(w), disk' = Stored(w, Chunk(w)), w' = [w EXCEPT !.n = @ + Chunk(w)], fails' = fails
      PROVE  IInv'
  <2>1. w.err \in BOOLEAN
    BY <1>2 DEF CallOf
  <2>2. w' = [w EXCEPT !.pc = "run", !.n = @ + Chunk(w), !.err = w.err]
    BY <1>1, <1>2, <1>5 DEF CallOf
  <2>3. "run" \in {"run", "done"} /\ "run" # "done" /\ Chunk(w) \in 0..Chunk(w)
    BY <1>4, <1>5
  <2>4. fails' \in 0..MaxFail
    BY <1>2, <1>5, Zenon
  <2>5. QED
    BY <1>1, <1>5, <2>1, <2>2, <2>3, <2>4, WriteRound, Zenon
<1>6. ASSUME ~AtEnd(w), fails < MaxFail, NEW m \in 0..(Chunk(w) - 1), disk' = Stored(w, m),
             w' = [w EXCEPT !.pc = "done", !.n = @ + m, !.err = TRUE], fails' = fails + 1
      PROVE  IInv'
  <2>1. m \in 0..Chunk(w) /\ "done" \in {"run", "done"} /\ TRUE \in BOOLEAN
    BY <1>4, <1>6
  <2>2. fails' \in 0..MaxFail
    BY <1>2, <1>6
  <2>3. QED
    BY <1>1, <1>6, <2>1, <2>2, WriteRound, Zenon
<1>7. QED
  BY <1>3, <1>5, <1>6, Zenon DEF WriteAt

\* ReadAt is called.
LEMMA ReadKeeps ==
    ASSUME IInv, NEW off \in 0..TotalLength, Read(off, ReadLength)
    PROVE  IInv'
<1>1. /\ r' = [Call(off, ReadLength) EXCEPT !.before = Present]
      /\ lengths' = lengths /\ disk' = disk /\ chosen' = chosen /\ blocks' = blocks /\ w' = w /\ fails' = fails
  BY Zenon DEF Read
<1>2. lengths \in Layouts /\ TotalLength \in Nat /\ ReadLength \in Nat
  BY Layout, LayoutAssumption DEF IInv
<1>3. Present \in SUBSET (0..(TotalLength - 1))
  BY PresentInTorrent, Zenon DEF IInv
<1>4. IsFresh(r', TotalLength) /\ r'.before = Present
  <2>1. PICK b \in SUBSET (0..(TotalLength - 1)) : b = Present
    BY <1>3, Zenon
  <2>2. r' = [Call(off, ReadLength) EXCEPT !.before = b]
    BY <1>1, <2>1, Zenon
  <2>3. /\ IsFresh([Call(off, ReadLength) EXCEPT !.before = b], TotalLength)
        /\ [Call(off, ReadLength) EXCEPT !.before = b].before = b
    <3>1. IsFresh(Call(off, ReadLength), TotalLength)
      BY <1>2, CallsAreFresh, Zenon
    <3>2. QED
      BY <3>1, FreshBefore
  <2>4. QED
    BY <2>1, <2>2, <2>3, Zenon
<1>5. r'.before \subseteq Present
  BY <1>4, Zenon
<1>6. ReadOK(r', TotalLength, Present)
  BY <1>2, <1>4, <1>5, FreshIsOK, Zenon
<1>7. QED
  BY <1>1, <1>6, KeptByCalls, Zenon DEF IInv

\* What ReadAt has read, followed by what this round has read.
LEMMA Concatenation ==
    ASSUME NEW s \in Seq(Int), NEW t \in Seq(Int)
    PROVE  /\ s \o t \in Seq(Int) /\ Len(s \o t) = Len(s) + Len(t)
           /\ \A i \in 1..Len(s) : (s \o t)[i] = s[i]
           /\ \A i \in 1..Len(t) : (s \o t)[Len(s) + i] = t[i]
OBVIOUS

\* One round of ReadAt.
LEMMA ReadAtKeeps ==
    ASSUME IInv, ReadAt
    PROVE  IInv'
<1>1. /\ r.pc = "run" /\ r.n < r.len /\ lengths \in Layouts /\ InTorrent(r, TotalLength)
      /\ lengths' = lengths /\ disk' = disk /\ chosen' = chosen /\ blocks' = blocks /\ w' = w /\ fails' = fails
  BY Zenon DEF ReadAt, IInv, ReadOK
<1>2. /\ r \in CallOf(TotalLength) /\ Running(r) /\ r.off \in Nat /\ r.n \in Nat /\ r.len \in Nat
      /\ TotalLength \in Nat /\ r.off + r.n <= TotalLength
  BY <1>1, CallRuns, Layout, Zenon DEF InTorrent
<1>3. /\ r.before \subseteq Present /\ Len(r.got) = r.n
      /\ \A i \in 1..r.n : Right(r, i, r.got[i])
  BY Zenon DEF IInv, ReadOK
<1>4. r.got \in Seq(Int) /\ r.before \subseteq 0..(TotalLength - 1)
  BY <1>2 DEF CallOf
<1>5. ASSUME NEW c, c.off = r.off, c.before = r.before PROVE \A i, b : Right(c, i, b) <=> Right(r, i, b)
  BY <1>5, Zenon DEF Right
<1>6. SUFFICES ReadOK(r', TotalLength, Present)
  BY <1>1, KeptByCalls, Zenon DEF IInv
<1>7. ASSUME AtEnd(r), r' = [r EXCEPT !.pc = "done", !.err = TRUE]
      PROVE  ReadOK(r', TotalLength, Present)
  <2>1. /\ r' \in CallOf(TotalLength) /\ r'.off = r.off /\ r'.len = r.len /\ r'.n = r.n
        /\ r'.got = r.got /\ r'.before = r.before
    BY <1>2, <1>7 DEF CallOf
  <2>2. r'.pc = "done" /\ r'.err = TRUE /\ "done" # "run"
    BY <1>2, <1>7 DEF CallOf
  <2>3. r.off + r.n = TotalLength
    BY <1>1, <1>2, <1>7, RoundFacts, Zenon
  <2>4. TotalLength \in Positions(r.off, r.len) /\ TotalLength \notin 0..(TotalLength - 1)
    BY <1>1, <1>2, <2>3 DEF Positions
  <2>5. ~(Positions(r'.off, r'.len) \subseteq r'.before)
    BY <2>1, <2>4, <1>4, Zenon
  <2>6. \A i \in 1..r.n : Right(r', i, r.got[i])
    BY <1>3, <1>5, <2>1, Zenon
  <2>7. InTorrent(r', TotalLength)
    BY <1>1, <2>1, Zenon DEF InTorrent
  <2>8. QED
    BY <1>1, <1>3, <2>1, <2>2, <2>5, <2>6, <2>7, Zenon DEF ReadOK
<1>8. ASSUME ~AtEnd(r), NEW bytes, bytes = Loaded(r), NEW short, short = (Len(bytes) < Chunk(r)),
             r' = [r EXCEPT !.n = @ + Len(bytes), !.got = @ \o bytes, !.err = short,
                            !.pc = IF short THEN "done" ELSE "run"]
      PROVE  ReadOK(r', TotalLength, Present)
  <2>0. PICK k, m : k = Chunk(r) /\ m = Len(bytes)
    BY Zenon
  <2>1. k \in Nat /\ r.n + k <= r.len /\ r.off + r.n + k <= TotalLength
    BY <1>1, <1>2, <1>8, <2>0, RoundFacts, CallRuns, Zenon
  <2>2. /\ bytes \in Seq(Int) /\ m <= k
        /\ \A i \in 1..m : Right(r, r.n + i, bytes[i])
        /\ m < k => r.off + r.n + m \notin r.before
    BY <1>1, <1>2, <1>3, <1>8, <2>0, RoundOfRead, Zenon DEF IInv
  <2>3. m \in Nat
    BY <2>0, <2>2
  <2>4. PICK g : g = r.got \o bytes
    BY Zenon
  <2>5. /\ g \in Seq(Int) /\ Len(g) = r.n + m
        /\ \A i \in 1..r.n : g[i] = r.got[i]
        /\ \A i \in 1..m : g[r.n + i] = bytes[i]
    <3>1. /\ r.got \o bytes \in Seq(Int) /\ Len(r.got \o bytes) = Len(r.got) + Len(bytes)
          /\ \A i \in 1..Len(r.got) : (r.got \o bytes)[i] = r.got[i]
          /\ \A i \in 1..Len(bytes) : (r.got \o bytes)[Len(r.got) + i] = bytes[i]
      BY <1>4, <2>2, Concatenation
    <3>2. QED
      BY <3>1, <1>3, <2>0, <2>4, Zenon
  <2>6. r.n + m \in Nat /\ r.n + m <= r.len /\ r.off + (r.n + m) <= TotalLength /\ (m < k => r.n + m < r.len)
    <3>1. PICK n, off, len : n = r.n /\ off = r.off /\ len = r.len
      BY Zenon
    <3>2. n \in Nat /\ off \in Nat /\ len \in Nat /\ n + k <= len /\ off + n + k <= TotalLength /\ m <= k
      BY <3>1, <1>2, <2>1, <2>2, Zenon
    <3>3. n + m \in Nat /\ n + m <= len /\ off + (n + m) <= TotalLength /\ (m < k => n + m < len)
      BY <3>2, <2>1, <2>3, <1>2
    <3>4. QED
      BY <3>1, <3>3, Zenon
  <2>7. short \in BOOLEAN /\ (short <=> m < k)
    <3>1. short = (m < k)
      BY <1>8, <2>0, Zenon
    <3>2. CASE m < k
      <4>1. short = TRUE
        BY <3>1, <3>2, Zenon
      <4>2. QED
        BY <3>2, <4>1, Zenon
    <3>3. CASE ~(m < k)
      <4>1. (m < k) = FALSE
        BY <3>3, <2>1, <2>3, SMT
      <4>2. short = FALSE
        BY <3>1, <4>1, Zenon
      <4>3. QED
        BY <3>3, <4>2, Zenon
    <3>4. QED
      BY <3>2, <3>3, Zenon
  <2>8. (IF short THEN "done" ELSE "run") \in {"idle", "run", "done"} /\ "done" # "run"
    BY <2>7
  <2>9. r' \in CallOf(TotalLength)
    BY <1>2, <1>8, <2>0, <2>4, <2>5, <2>6, <2>7, <2>8, Zenon DEF CallOf
  <2>10. /\ r'.off = r.off /\ r'.len = r.len /\ r'.before = r.before /\ r'.n = r.n + m /\ r'.got = g
         /\ r'.err = short /\ r'.pc = IF short THEN "done" ELSE "run"
    BY <1>2, <1>8, <2>0, <2>4, Zenon DEF CallOf
  <2>11. InTorrent(r', TotalLength)
    BY <2>6, <2>9, <2>10, Zenon DEF InTorrent
  <2>12. ASSUME NEW i \in 1..(r.n + m) PROVE Right(r', i, g[i])
    <3>1. CASE i \in 1..r.n
      BY <3>1, <1>3, <1>5, <2>5, <2>10, Zenon
    <3>2. CASE i \notin 1..r.n
      <4>1. PICK j \in 1..m : i = r.n + j
        <5>1. i - r.n \in 1..m /\ i = r.n + (i - r.n)
          BY <3>2, <1>2, <2>3
        <5>2. QED
          BY <5>1, Zenon
      <4>2. QED
        BY <4>1, <1>5, <2>2, <2>5, <2>10, Zenon
    <3>3. QED
      BY <3>1, <3>2
  <2>13. ASSUME short PROVE ~(Positions(r.off, r.len) \subseteq r.before) /\ r.n + m < r.len
    <3>1. m < k
      BY <2>7, <2>13, Zenon
    <3>2. r.off + r.n + m \in Positions(r.off, r.len)
      BY <3>1, <1>2, <2>3, <2>6 DEF Positions
    <3>3. QED
      BY <3>1, <3>2, <2>2, <2>6, Zenon
  <2>14. QED
    BY <2>5, <2>7, <2>8, <2>10, <2>11, <2>12, <2>13, <1>3, Zenon DEF ReadOK
<1>9. QED
  BY <1>7, <1>8, Zenon DEF ReadAt

\* ReadAt returns when it has read as much as was asked for.
LEMMA ReadReturnsKeeps ==
    ASSUME IInv, ReadReturns
    PROVE  IInv'
<1>1. /\ r.pc = "run" /\ r.n = r.len /\ r' = [r EXCEPT !.pc = "done"]
      /\ lengths' = lengths /\ disk' = disk /\ chosen' = chosen /\ blocks' = blocks /\ w' = w /\ fails' = fails
  BY Zenon DEF ReadReturns
<1>2. r \in CallOf(TotalLength) /\ ~r.err
  BY <1>1, Zenon DEF IInv, ReadOK, InTorrent
<1>3. /\ r' \in CallOf(TotalLength) /\ r'.off = r.off /\ r'.n = r.n /\ r'.len = r.len
      /\ r'.got = r.got /\ r'.before = r.before
  BY <1>1, <1>2 DEF CallOf
<1>4. r'.pc = "done" /\ ~r'.err /\ "done" # "run" /\ ~(r.n < r.len)
  BY <1>1, <1>2 DEF CallOf
<1>5. \A i \in 1..r.n : Right(r', i, r.got[i])
  BY <1>3, Zenon DEF IInv, ReadOK, Right
<1>6. ReadOK(r', TotalLength, Present)
  BY <1>3, <1>4, <1>5, Zenon DEF IInv, ReadOK, InTorrent
<1>7. QED
  BY <1>1, <1>6, KeptByCalls, Zenon DEF IInv

\* The application has used what was read.
LEMMA ReadUsedKeeps ==
    ASSUME IInv, ReadUsed
    PROVE  IInv'
<1>1. /\ r' = Idle
      /\ lengths' = lengths /\ disk' = disk /\ chosen' = chosen /\ blocks' = blocks /\ w' = w /\ fails' = fails
  BY Zenon DEF ReadUsed
<1>2. lengths \in Layouts /\ TotalLength \in Nat
  BY Layout, Zenon DEF IInv
<1>3. 0 \in 0..TotalLength /\ 0 \in Nat
  BY <1>2
<1>4. IsFresh(Idle, TotalLength) /\ Idle.before \subseteq Present
  BY <1>2, <1>3, CallsAreFresh, Zenon
<1>5. ReadOK(r', TotalLength, Present)
  BY <1>1, <1>2, <1>4, FreshIsOK, Zenon
<1>6. QED
  BY <1>1, <1>5, KeptByCalls, Zenon DEF IInv

\* The invariant holds in every state.
LEMMA Invariance == Spec => []IInv
<1>1. Init => IInv
  BY InitIInv
<1>2. IInv /\ [Next]_vars => IInv'
  <2>1. SUFFICES ASSUME IInv, [Next]_vars PROVE IInv'
    OBVIOUS
  <2>2. ASSUME UNCHANGED vars PROVE IInv'
    <3>1. /\ lengths' = lengths /\ disk' = disk /\ chosen' = chosen /\ blocks' = blocks
          /\ w' = w /\ r' = r /\ fails' = fails
      BY <2>2, Zenon DEF vars
    <3>2. QED
      BY <2>1, <3>1, KeptByCalls, Zenon DEF IInv
  <2>3. QED
    BY <2>1, <2>2, ChooseKeeps, WriteBlockKeeps, WriteOverEndKeeps, WriteAtKeeps, WriteReturnsKeeps,
       WrittenKeeps, ReadKeeps, ReadAtKeeps, ReadReturnsKeeps, ReadUsedKeeps, Zenon DEF Next
<1>3. QED
  BY <1>1, <1>2, PTL DEF Spec

\* The variables keep their types: no call leaves the torrent.
THEOREM TypeCorrect == Spec => []TypeOK
<1>1. IInv => TypeOK
  BY InvariantImplies
<1>2. QED
  BY <1>1, Invariance, PTL

\* GetFileByOffset and the loop of writer.WriteAt put each byte into the file
\* and at the offset where the torrent has it, for any list of files, empty
\* ones included, any blocks, and any failures of the disk.
THEOREM BytesStayInPlace == Spec => []BytesInPlace
<1>1. IInv => BytesInPlace
  BY InvariantImplies
<1>2. QED
  BY <1>1, Invariance, PTL

\* reader.ReadAt keeps the contract of io.ReaderAt while writer.WriteAt is at
\* work on the same files.
THEOREM ReadsKeepTheContract == Spec => []ReadsAreRight
<1>1. IInv => ReadsAreRight
  BY InvariantImplies
<1>2. QED
  BY <1>1, Invariance, PTL

\* File.FilePieces, FilePieces.Merge and FilePiece.Blocks ask for each byte of
\* the chosen files once and for no other, whatever order sort.Sort leaves
\* equal parts in, until it is on the disk.
THEOREM BlocksStayExact == Spec => []BlocksAreExact
<1>1. IInv => BlocksAreExact
  BY InvariantImplies
<1>2. QED
  BY <1>1, Invariance, PTL

=============================================================================
