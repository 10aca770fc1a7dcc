-------------------- MODULE FlexibleBufferWrapperProofs ---------------------
(***************************************************************************)
(* The circular buffer for any length, and the wrapper for any period, any *)
(* number of channels, any sequence of calls and any number of exceptions. *)
(***************************************************************************)
EXTENDS FlexibleBufferWrapper, SequenceTheorems, TLAPS

-----------------------------------------------------------------------------
(* Rows.                                                                   *)

\* A stretch of a row, given by the numbers of columns before its begin and its end.
LEMMA Stretch ==
  ASSUME NEW Column, NEW row \in Seq(Column), NEW a \in Nat, NEW b \in Nat,
         a <= b, b <= Len(row)
  PROVE  /\ SubSeq(row, a + 1, b) \in Seq(Column)
         /\ Len(SubSeq(row, a + 1, b)) = b - a
         /\ \A i \in 1 .. b - a : SubSeq(row, a + 1, b)[i] = row[a + i]
<1> DEFINE k == a + 1
           part == SubSeq(row, k, b)
           r == b - a
<1>1. /\ k \in 1 .. Len(row) + 1 /\ b \in 0 .. Len(row) /\ Len(row) \in Nat
      /\ r = b - k + 1 /\ (k <= b => r > 0) /\ (~ k <= b => r = 0)
  BY LenProperties
<1> HIDE DEF k, r
<1>2. /\ part \in Seq(Column) /\ Len(part) = IF k <= b THEN b - k + 1 ELSE 0
      /\ \A i \in 1 .. b - k + 1 : part[i] = row[k + i - 1]
  BY <1>1
<1> HIDE DEF part
<1>3. Len(part) = r
  BY <1>1, <1>2
<1>4. ASSUME NEW i \in 1 .. r
      PROVE  part[i] = row[a + i]
  <2>1. k + i - 1 = a + i
    BY <1>1 DEF k
  <2>2. part[i] = row[k + i - 1]
    BY <1>1, <1>2
  <2> QED
    BY <2>1, <2>2
<1> QED
  BY <1>2, <1>3, <1>4 DEF part, k, r

\* Copying replaces a stretch of a row and keeps its length.
LEMMA Copied ==
  ASSUME NEW Column, NEW row \in Seq(Column), NEW data \in Seq(Column), NEW offset \in Nat,
         offset + Len(data) <= Len(row)
  PROVE  /\ CopyTo(row, offset, data) \in Seq(Column)
         /\ Len(CopyTo(row, offset, data)) = Len(row)
         /\ \A i \in 1 .. Len(row) :
              CopyTo(row, offset, data)[i] =
                IF i > offset /\ i <= offset + Len(data) THEN data[i - offset] ELSE row[i]
<1> DEFINE l == Len(row)
           n == Len(data)
           k == offset + n
           first == SubSeq(row, 1, offset)
           last  == SubSeq(row, k + 1, l)
           r     == l - offset - n
           begin == first \o data
           whole == begin \o last
<1>1. l \in Nat /\ n \in Nat /\ offset \in 0 .. l /\ offset + n <= l
      /\ r \in Nat /\ k = offset + n /\ offset + n + r = l
  BY LenProperties
<1>2. /\ first \in Seq(Column) /\ Len(first) = offset
      /\ \A i \in 1 .. offset : first[i] = row[i]
  BY <1>1
<1>3. /\ last \in Seq(Column) /\ Len(last) = r
      /\ \A i \in 1 .. r : last[i] = row[k + i]
  <2>1. k \in Nat /\ l \in Nat /\ k <= l /\ l <= Len(row) /\ r = l - k
    BY <1>1
  <2> HIDE DEF l, k, r
  <2>2. /\ last \in Seq(Column) /\ Len(last) = l - k
        /\ \A i \in 1 .. l - k : last[i] = row[k + i]
    BY <2>1, Stretch
  <2> QED
    BY <2>1, <2>2
<1>4. whole = CopyTo(row, offset, data)
  BY DEF CopyTo
<1> HIDE DEF l, n, k, r, first, last
<1>5. /\ begin \in Seq(Column) /\ Len(begin) = offset + n
      /\ \A i \in 1 .. offset + n : begin[i] = IF i <= offset THEN first[i] ELSE data[i - offset]
  <2>1. /\ begin \in Seq(Column) /\ Len(begin) = Len(first) + Len(data)
        /\ \A i \in 1 .. Len(first) + Len(data) :
             begin[i] = IF i <= Len(first) THEN first[i] ELSE data[i - Len(first)]
    BY <1>2, ConcatProperties
  <2>2. Len(data) = n
    BY DEF n
  <2> HIDE DEF begin
  <2> QED
    BY <1>2, <2>1, <2>2
<1> HIDE DEF begin
<1>6. /\ whole \in Seq(Column) /\ Len(whole) = offset + n + r
      /\ \A i \in 1 .. offset + n + r :
           whole[i] = IF i <= offset + n THEN begin[i] ELSE last[i - (offset + n)]
  <2>1. /\ whole \in Seq(Column) /\ Len(whole) = Len(begin) + Len(last)
        /\ \A i \in 1 .. Len(begin) + Len(last) :
             whole[i] = IF i <= Len(begin) THEN begin[i] ELSE last[i - Len(begin)]
    BY <1>3, <1>5, ConcatProperties
  <2> HIDE DEF whole
  <2> QED
    BY <1>3, <1>5, <2>1
<1> HIDE DEF whole
<1>7. ASSUME NEW i \in 1 .. l
      PROVE  whole[i] = IF i > offset /\ i <= offset + n THEN data[i - offset] ELSE row[i]
  <2>1. CASE i <= offset
    BY <1>1, <1>2, <1>5, <1>6, <2>1
  <2>2. CASE i > offset /\ i <= offset + n
    BY <1>1, <1>5, <1>6, <2>2
  <2>3. CASE i > offset + n
    <3>1. i - (offset + n) \in 1 .. r /\ offset + n + (i - (offset + n)) = i
      BY <1>1, <2>3
    <3>2. last[i - (offset + n)] = row[i]
      BY <1>1, <1>3, <3>1
    <3> QED
      BY <1>1, <1>6, <2>3, <3>2
  <2> QED
    BY <1>1, <2>1, <2>2, <2>3
<1>8. Len(whole) = l
  BY <1>1, <1>6
<1> QED
  BY <1>4, <1>6, <1>7, <1>8 DEF l, n

-----------------------------------------------------------------------------
(* The ring.                                                               *)

BufferOf(Column) ==
  [length : Nat, allocated : Nat \ {0}, head : Nat, columns : Seq(Column)]

\* The two halves of the row agree, so that reading needs no wraparound.
Mirrored(b) == \A i \in 1 .. b.allocated : b.columns[i + b.allocated] = b.columns[i]

RingOK(b, Column) == b \in BufferOf(Column) /\ IsBuffer(b, Column) /\ Mirrored(b)

\* The column that has been written d columns ago.
Latest(b, d) == b.columns[b.allocated + b.head + 1 - d]

\* What is in place i of the ring after data has been written from the head on.
Place(b, data, i) ==
  LET end == b.head + Len(data)
  IN CASE i + b.allocated <= end -> data[i + b.allocated - b.head]
       [] i > b.head /\ i <= end /\ i + b.allocated > end -> data[i - b.head]
       [] OTHER -> b.columns[i]

\* Both halves of the row are brought up to date by a write that is committed.
LEMMA Committed ==
  ASSUME NEW Column, NEW b, RingOK(b, Column), NEW data \in Seq(Column),
         Len(data) <= b.allocated,
         NEW w, w = CommitWrite(WriteColumns(b, data), Len(data))
  PROVE  /\ w.length = b.length /\ w.allocated = b.allocated
         /\ w.head = (b.head + Len(data)) % b.allocated
         /\ w.columns \in Seq(Column) /\ Len(w.columns) = 2 * b.allocated
         /\ w \in BufferOf(Column)
         /\ \A i \in 1 .. b.allocated :
              /\ w.columns[i] = Place(b, data, i)
              /\ w.columns[i + b.allocated] = Place(b, data, i)
<1> DEFINE L == b.allocated
           h == b.head
           n == Len(data)
           c == b.columns
           end == h + n
           first == IF end < L THEN end ELSE L
           written == CopyTo(c, h, data)
           block == SubSeq(written, h + 1, first)
           up == CopyTo(written, h + L, block)
           over == SubSeq(up, L + 1, end)
           whole == IF end > L THEN CopyTo(up, 0, over) ELSE up
<1>1. /\ L \in Nat \ {0} /\ h \in 0 .. L - 1 /\ n \in Nat /\ n <= L /\ b.length \in Nat
      /\ c \in Seq(Column) /\ Len(c) = 2 * L
      /\ \A i \in 1 .. L : c[i + L] = c[i]
  BY LenProperties DEF RingOK, BufferOf, IsBuffer, Mirrored
<1>2. w = [b EXCEPT !.head = end % L, !.columns = whole]
  BY DEF CommitWrite, WriteColumns, RingOK, BufferOf
<1>3. ASSUME NEW i \in 1 .. L
      PROVE  Place(b, data, i) = IF i + L <= end THEN data[i + L - h]
                                 ELSE IF i > h /\ i <= end THEN data[i - h] ELSE c[i]
  BY <1>1 DEF Place
<1> HIDE DEF L, h, n, c
<1>4. /\ end \in 0 .. 2 * L - 1 /\ first \in h .. L /\ first <= end /\ h + n <= 2 * L
      /\ (end > L => first = L) /\ (end <= L => first = end)
  BY <1>1
<1> HIDE DEF end, first
<1>5. /\ written \in Seq(Column) /\ Len(written) = 2 * L
      /\ \A i \in 1 .. 2 * L :
           written[i] = IF i > h /\ i <= h + n THEN data[i - h] ELSE c[i]
  <2>1. /\ written \in Seq(Column) /\ Len(written) = Len(c)
        /\ \A i \in 1 .. Len(c) :
             written[i] = IF i > h /\ i <= h + Len(data) THEN data[i - h] ELSE c[i]
    <3>1. h \in Nat /\ h + Len(data) <= Len(c) /\ c \in Seq(Column)
      BY <1>1, <1>4 DEF n
    <3> QED
      BY <3>1, Copied
  <2>2. Len(data) = n
    BY DEF n
  <2> HIDE DEF written
  <2> QED
    BY <1>1, <2>1, <2>2
<1> HIDE DEF written
<1>6. /\ block \in Seq(Column) /\ Len(block) = first - h
      /\ \A i \in 1 .. first - h : block[i] = written[h + i]
  BY <1>1, <1>4, <1>5, Stretch
<1> HIDE DEF block
<1>7. /\ up \in Seq(Column) /\ Len(up) = 2 * L
      /\ \A i \in 1 .. 2 * L :
           up[i] = IF i > h + L /\ i <= L + first THEN written[i - L] ELSE written[i]
  <2> DEFINE o == h + L
  <2>1. o \in Nat /\ o + Len(block) = L + first /\ o + Len(block) <= Len(written)
    <3>1. h \in Nat /\ L \in Nat /\ first \in Nat /\ first <= L
      BY <1>1, <1>4
    <3> QED
      BY <1>5, <1>6, <3>1
  <2>2. \A i \in 1 .. 2 * L : i > o /\ i <= L + first =>
           i - o \in 1 .. first - h /\ h + (i - o) = i - L
    BY <1>1, <1>4
  <2> HIDE DEF o
  <2> DEFINE copied == CopyTo(written, o, block)
  <2>3. /\ copied \in Seq(Column) /\ Len(copied) = Len(written)
        /\ \A i \in 1 .. Len(written) :
             copied[i] = IF i > o /\ i <= o + Len(block) THEN block[i - o] ELSE written[i]
    BY <1>5, <1>6, <2>1, Copied
  <2>4. up = copied
    BY DEF o
  <2> HIDE DEF up, copied
  <2>5. up \in Seq(Column) /\ Len(up) = 2 * L
    BY <1>5, <2>3, <2>4
  <2>6. ASSUME NEW i \in 1 .. 2 * L
        PROVE  up[i] = IF i > o /\ i <= L + first THEN written[i - L] ELSE written[i]
    <3>1. up[i] = IF i > o /\ i <= L + first THEN block[i - o] ELSE written[i]
      BY <1>5, <2>1, <2>3, <2>4
    <3> QED
      BY <1>6, <2>2, <3>1
  <2> QED
    BY <2>5, <2>6 DEF o
<1> HIDE DEF up
<1>8. /\ whole \in Seq(Column) /\ Len(whole) = 2 * L
      /\ \A i \in 1 .. 2 * L :
           whole[i] = IF i + L <= end THEN up[L + i] ELSE up[i]
  <2>1. CASE end > L
    <3>1. L \in Nat /\ end \in Nat /\ L <= end /\ end <= Len(up) /\ end - L <= 2 * L
      BY <1>1, <1>4, <1>7, <2>1
    <3>2. /\ over \in Seq(Column) /\ Len(over) = end - L
          /\ \A i \in 1 .. end - L : over[i] = up[L + i]
      BY <1>7, <3>1, Stretch
    <3> HIDE DEF over
    <3> DEFINE copied == CopyTo(up, 0, over)
    <3>3. /\ copied \in Seq(Column) /\ Len(copied) = Len(up)
          /\ \A i \in 1 .. Len(up) :
               copied[i] = IF i > 0 /\ i <= 0 + Len(over) THEN over[i - 0] ELSE up[i]
      <4>1. 0 \in Nat /\ 0 + Len(over) <= Len(up)
        BY <1>7, <3>1, <3>2
      <4> QED
        BY <1>7, <3>2, <4>1, Copied
    <3>4. whole = copied
      BY <2>1
    <3> HIDE DEF whole, copied
    <3>5. ASSUME NEW i \in 1 .. 2 * L
          PROVE  whole[i] = IF i + L <= end THEN up[L + i] ELSE up[i]
      <4>1. (i + L <= end <=> i > 0 /\ i <= 0 + Len(over)) /\ i - 0 = i /\ i \in 1 .. Len(up)
        BY <1>1, <1>4, <1>7, <3>2
      <4>2. i + L <= end => i \in 1 .. end - L
        BY <1>1, <1>4
      <4> QED
        BY <3>2, <3>3, <3>4, <4>1, <4>2
    <3> QED
      BY <1>7, <3>3, <3>4, <3>5
  <2>2. CASE ~ end > L
    <3>1. \A i \in 1 .. 2 * L : ~ i + L <= end
      BY <1>1, <1>4, <2>2
    <3> QED
      BY <1>7, <2>2, <3>1
  <2> QED
    BY <2>1, <2>2
<1> HIDE DEF whole
<1>9. ASSUME NEW i \in 1 .. L
      PROVE  whole[i] = Place(b, data, i) /\ whole[i + L] = Place(b, data, i)
  <2> DEFINE j == i + L
  <2>1. /\ i \in 1 .. 2 * L /\ j \in 1 .. 2 * L /\ L + i = j /\ j - L = i
        /\ ~ j + L <= end /\ ~ i > h + L /\ (j > h + L <=> i > h) /\ i <= j
    BY <1>1, <1>4
  <2>2. Place(b, data, i) = IF j <= end THEN data[j - h]
                            ELSE IF i > h /\ i <= end THEN data[i - h] ELSE c[i]
    BY <1>1, <1>3, <1>4
  <2>3. c[j] = c[i]
    BY <1>1
  <2>4. whole[i] = IF j <= end THEN up[j] ELSE up[i]
    BY <1>8, <2>1
  <2> HIDE DEF j
  <2>5. whole[j] = up[j]
    BY <1>8, <2>1
  <2>6. up[j] = IF j > h + L /\ j <= L + first THEN written[i] ELSE written[j]
    BY <1>7, <2>1
  <2>7. up[i] = written[i]
    BY <1>7, <2>1
  <2>8. written[i] = IF i > h /\ i <= h + n THEN data[i - h] ELSE c[i]
    BY <1>5, <2>1
  <2>9. written[j] = IF j > h /\ j <= h + n THEN data[j - h] ELSE c[i]
    BY <1>5, <2>1, <2>3
  <2>10. whole[i] = Place(b, data, i) /\ whole[j] = Place(b, data, i)
    <3>1. CASE j <= end
      <4>1. ~ j > h + L /\ j > h /\ j <= h + n
        BY <1>1, <1>4, <2>1, <3>1 DEF end
      <4> QED
        BY <2>2, <2>4, <2>5, <2>6, <2>9, <3>1, <4>1
    <3>2. CASE ~ j <= end /\ i > h /\ i <= end
      <4>1. j > h + L /\ j <= L + first /\ i <= h + n
        BY <1>1, <1>4, <2>1, <3>2 DEF end
      <4> QED
        BY <2>2, <2>4, <2>5, <2>6, <2>7, <2>8, <3>2, <4>1
    <3>3. CASE ~ j <= end /\ ~ (i > h /\ i <= end)
      <4>1. ~ (j > h + L /\ j <= L + first) /\ ~ (i > h /\ i <= h + n) /\ ~ (j <= h + n)
        BY <1>1, <1>4, <2>1, <3>3 DEF end
      <4> QED
        BY <2>2, <2>4, <2>5, <2>6, <2>7, <2>8, <2>9, <3>3, <4>1
    <3> QED
      BY <3>1, <3>2, <3>3
  <2> QED
    BY <2>10 DEF j
<1>10. end % L \in Nat
  BY <1>1, <1>4
<1>11. /\ w = [length |-> b.length, allocated |-> L, head |-> end % L, columns |-> whole]
  <2> DEFINE e == end % L
  <2>1. w = [b EXCEPT !.head = e, !.columns = whole]
    BY <1>2
  <2> HIDE DEF e
  <2> QED
    BY <2>1 DEF RingOK, BufferOf, L, e
<1>12. w.length = b.length /\ w.allocated = L /\ w.head = end % L /\ w.columns = whole
  BY <1>11
<1>13. w \in BufferOf(Column)
  BY <1>1, <1>8, <1>10, <1>11 DEF BufferOf
<1> QED
  BY <1>8, <1>9, <1>12, <1>13 DEF L, h, n, end

\* The write head wraps around at the boundary.
LEMMA WrapsAround ==
  ASSUME NEW L \in Nat \ {0}, NEW end \in 0 .. 2 * L - 1
  PROVE  end % L = IF end < L THEN end ELSE end - L
<1>1. CASE end < L
  BY <1>1
<1>2. CASE ~ end < L
  BY <1>2
<1> QED
  BY <1>1, <1>2

\* After a write, the columns of the ring are those written last, then those before.
LEMMA Advanced ==
  ASSUME NEW Column, NEW b, RingOK(b, Column), NEW data \in Seq(Column),
         Len(data) <= b.allocated,
         NEW w, w = CommitWrite(WriteColumns(b, data), Len(data))
  PROVE  /\ RingOK(w, Column) /\ w.length = b.length /\ w.allocated = b.allocated
         /\ \A d \in 1 .. b.allocated :
              Latest(w, d) = IF d <= Len(data) THEN data[Len(data) - d + 1]
                             ELSE Latest(b, d - Len(data))
<1> DEFINE L == b.allocated
           h == b.head
           n == Len(data)
           c == b.columns
           end == h + n
           g == w.head
<1>1. /\ L \in Nat \ {0} /\ h \in 0 .. L - 1 /\ n \in Nat /\ n <= L /\ b.length \in Nat
      /\ L >= b.length /\ \A i \in 1 .. L : c[i + L] = c[i]
  BY LenProperties DEF RingOK, BufferOf, IsBuffer, Mirrored
<1>2. /\ w.length = b.length /\ w.allocated = L /\ g = end % L
      /\ w.columns \in Seq(Column) /\ Len(w.columns) = 2 * L /\ w \in BufferOf(Column)
      /\ \A i \in 1 .. L : w.columns[i] = Place(b, data, i) /\ w.columns[i + L] = Place(b, data, i)
  BY Committed
<1>3. ASSUME NEW i \in 1 .. L
      PROVE  Place(b, data, i) = IF i + L <= end THEN data[i + L - h]
                                 ELSE IF i > h /\ i <= end THEN data[i - h] ELSE c[i]
  BY <1>1 DEF Place
<1> HIDE DEF L, h, n, c, end, g
<1>4. end \in 0 .. 2 * L - 1 /\ end = h + n
  BY <1>1 DEF end
<1>5. g = (IF end < L THEN end ELSE end - L) /\ g \in 0 .. L - 1
  <2>1. g = IF end < L THEN end ELSE end - L
    BY <1>1, <1>2, <1>4, WrapsAround
  <2> QED
    BY <1>1, <1>4, <2>1
<1>6. RingOK(w, Column)
  BY <1>1, <1>2, <1>5 DEF RingOK, IsBuffer, Mirrored, g
<1>7. ASSUME NEW d \in 1 .. L
      PROVE  Latest(w, d) = IF d <= n THEN data[n - d + 1] ELSE Latest(b, d - n)
  <2> DEFINE p == L + g + 1 - d
             i == IF p <= L THEN p ELSE p - L
  <2>1. i \in 1 .. L /\ (p <= L => i = p) /\ (p > L => p = i + L) /\ p \in Int
    BY <1>1, <1>5
  <2>2. Latest(w, d) = w.columns[p]
    BY <1>2 DEF Latest, g
  <2>3. Latest(w, d) = IF i + L <= end THEN data[i + L - h]
                       ELSE IF i > h /\ i <= end THEN data[i - h] ELSE c[i]
    <3> HIDE DEF p, i
    <3>1. Latest(w, d) = Place(b, data, i)
      BY <1>1, <1>2, <2>1, <2>2
    <3> QED
      BY <1>1, <1>3, <1>4, <2>1, <3>1
  <2>4. CASE d <= n
    <3>1. CASE i + L <= end
      <4>1. i + L - h = n - d + 1
        BY <1>1, <1>4, <1>5, <2>1, <2>4, <3>1
      <4> HIDE DEF p, i
      <4> QED
        BY <2>3, <2>4, <3>1, <4>1
    <3>2. CASE ~ i + L <= end
      <4>1. i > h /\ i <= end /\ i - h = n - d + 1
        BY <1>1, <1>4, <1>5, <2>1, <2>4, <3>2
      <4> HIDE DEF p, i
      <4> QED
        BY <2>3, <2>4, <3>2, <4>1
    <3> QED
      BY <3>1, <3>2
  <2>5. CASE ~ d <= n
    <3> DEFINE q == L + h + 1 - (d - n)
    <3>1. ~ i + L <= end /\ ~ (i > h /\ i <= end) /\ (q = i \/ q = i + L)
      BY <1>1, <1>4, <1>5, <2>1, <2>5
    <3>2. Latest(b, d - n) = c[q]
      BY DEF Latest, L, h, c
    <3> HIDE DEF p, i, q
    <3>3. c[q] = c[i]
      BY <1>1, <2>1, <3>1
    <3> QED
      BY <2>3, <2>5, <3>1, <3>2, <3>3
  <2> QED
    BY <2>4, <2>5
<1> QED
  BY <1>2, <1>6, <1>7 DEF L, n

\* What is read: the columns from a delay on.
LEMMA ReadBack ==
  ASSUME NEW Column, NEW b, RingOK(b, Column), NEW delay \in 0 .. b.allocated,
         NEW n \in 0 .. delay, NEW arbitrary
  PROVE  LET columns == ReadColumns(b, delay, n, arbitrary)
         IN /\ columns \in Seq(Column) /\ Len(columns) = n
            /\ \A i \in 1 .. n : columns[i] = Latest(b, delay - i + 1)
<1> DEFINE L == b.allocated
           h == b.head
           c == b.columns
           o == L + h - delay
           e == o + n
           columns == ReadColumns(b, delay, n, arbitrary)
<1>1. L \in Nat \ {0} /\ h \in 0 .. L - 1 /\ c \in Seq(Column) /\ Len(c) = 2 * L
  BY DEF RingOK, BufferOf, IsBuffer
<1>2. o \in Nat /\ e \in Nat /\ o <= e /\ e <= Len(c) /\ ~ o < 0 /\ e - o = n
  <2>1. delay \in 0 .. L /\ n \in 0 .. delay
    OBVIOUS
  <2> HIDE DEF L, h, c
  <2>2. o \in Nat /\ e \in Nat /\ o <= e /\ ~ o < 0 /\ e - o = n /\ e <= 2 * L
    BY <1>1, <2>1
  <2> QED
    BY <1>1, <2>2
<1>3. columns = SubSeq(c, o + 1, e)
  BY <1>2 DEF ReadColumns, ReadOffset
<1>4. ASSUME NEW i \in 1 .. n
      PROVE  Latest(b, delay - i + 1) = c[o + i]
  <2>1. L + h + 1 - (delay - i + 1) = o + i
    BY <1>1
  <2> HIDE DEF o
  <2> QED
    BY <2>1 DEF Latest
<1> HIDE DEF L, h, c, o, e, columns
<1>5. /\ columns \in Seq(Column) /\ Len(columns) = e - o
      /\ \A i \in 1 .. e - o : columns[i] = c[o + i]
  BY <1>1, <1>2, <1>3, Stretch
<1>6. \A i \in 1 .. n : columns[i] = Latest(b, delay - i + 1)
  BY <1>2, <1>4, <1>5
<1> QED
  BY <1>2, <1>5, <1>6 DEF columns

\* A read never gives anything but columns of the ring, or arbitrary ones.
LEMMA ReadTyped ==
  ASSUME NEW Column, NEW b, RingOK(b, Column), NEW delay \in Nat,
         NEW n \in 0 .. delay, NEW arbitrary
  PROVE  \A i \in 1 .. n : ReadColumns(b, delay, n, arbitrary)[i] \in Column \cup {arbitrary}
<1> DEFINE o == ReadOffset(b, delay)
           e == o + n
           L == b.allocated
           c == b.columns
<1>1. L \in Nat \ {0} /\ b.head \in 0 .. L - 1 /\ c \in Seq(Column) /\ Len(c) = 2 * L
  BY DEF RingOK, BufferOf, IsBuffer
<1> DEFINE h == b.head
<1>2. o = L + h - delay
  BY DEF ReadOffset
<1> HIDE DEF L, o, h
<1>3. o \in Int /\ e - o = n /\ e <= Len(c) /\ o <= e
  <2>1. h \in 0 .. L - 1 /\ n \in 0 .. delay
    BY <1>1 DEF h
  <2>2. o \in Int /\ e - o = n /\ e <= 2 * L /\ o <= e
    BY <1>1, <1>2, <2>1
  <2> HIDE DEF c, e
  <2> QED
    BY <1>1, <2>2
<1>4. CASE o < 0
  BY <1>4 DEF ReadColumns, o
<1>5. CASE ~ o < 0
  <2>1. o \in Nat /\ e \in Nat
    BY <1>3, <1>5
  <2>2. ReadColumns(b, delay, n, arbitrary) = SubSeq(c, o + 1, e)
    BY <1>5 DEF ReadColumns, o
  <2>3. SubSeq(c, o + 1, e) \in Seq(Column) /\ Len(SubSeq(c, o + 1, e)) = e - o
    <3> HIDE DEF e, c
    <3> QED
      BY <1>1, <1>3, <2>1, Stretch
  <2> HIDE DEF e, c
  <2>4. \A i \in 1 .. n : SubSeq(c, o + 1, e)[i] \in Column
    BY <1>3, <2>3
  <2> QED
    BY <2>2, <2>4
<1> QED
  BY <1>4, <1>5

\* A buffer that has been created holds silence.
LEMMA Created ==
  ASSUME NEW Column, NEW length \in Nat \ {0}, NEW silence \in Column
  PROVE  LET b == NewBuffer(length, 0, silence)
         IN RingOK(b, Column) /\ b.length = length /\ b.allocated = length
<1> DEFINE b == NewBuffer(length, 0, silence)
           c == [i \in 1 .. 2 * length |-> silence]
<1>1. b = [length |-> length, allocated |-> length, head |-> 0, columns |-> c]
  BY DEF NewBuffer, NextAlignedSize
<1>2. 2 * length \in Nat /\ 0 \in 0 .. length - 1
  OBVIOUS
<1>3. c \in Seq(Column) /\ Len(c) = 2 * length
  BY <1>2
<1>4. \A i \in 1 .. length : c[i + length] = c[i]
  OBVIOUS
<1> HIDE DEF b, c
<1>5. b \in BufferOf(Column)
  BY <1>1, <1>2, <1>3 DEF BufferOf
<1> QED
  BY <1>1, <1>2, <1>3, <1>4, <1>5 DEF RingOK, IsBuffer, Mirrored, b

-----------------------------------------------------------------------------
(* The host's memory.                                                      *)

Layouts == {"planar", "interleaved"}

LEMMA Products ==
  ASSUME NEW a \in Nat, NEW b \in Nat, NEW n \in Nat, a < b
  PROVE  a * n \in Nat /\ b * n \in Nat /\ a * n + n <= b * n
<1>1. (a + 1) * n = a * n + n
  OBVIOUS
<1>2. (a + 1) * n <= b * n
  OBVIOUS
<1> QED
  BY <1>1, <1>2

\* Two numbers below n and below m that are put into one can be told apart.
LEMMA Digits ==
  ASSUME NEW n \in Nat, NEW a \in Nat, NEW b \in Nat, NEW f \in 0 .. n - 1, NEW g \in 0 .. n - 1,
         a * n + f = b * n + g
  PROVE  a = b /\ f = g
<1>1. CASE a < b
  BY <1>1, Products
<1>2. CASE b < a
  BY <1>2, Products
<1>3. CASE a = b
  <2>1. a * n \in Nat
    OBVIOUS
  <2> DEFINE k == a * n
  <2> HIDE DEF k
  <2>2. k + f = k + g /\ k \in Nat
    BY <1>3, <2>1 DEF k
  <2> QED
    BY <1>3, <2>2
<1> QED
  BY <1>1, <1>2, <1>3

\* Each sample of a call has a place of its own in the host's memory.
LEMMA Addresses ==
  ASSUME NEW layout \in Layouts, NEW n \in Nat, NEW c \in Channel, NEW f \in 0 .. n - 1
  PROVE  /\ Address(Strides(layout, n), c, f) \in 0 .. Channels * n - 1
         /\ \A d \in Channel, g \in 0 .. n - 1 :
              Address(Strides(layout, n), c, f) = Address(Strides(layout, n), d, g) =>
                c = d /\ f = g
<1>1. Channels \in Nat \ {0} /\ c \in 0 .. Channels - 1 /\ Channel = 0 .. Channels - 1
  BY WrapperAssumption DEF Channel
<1>2. CASE layout = "planar"
  <2>1. \A d \in Nat, g \in Nat : Address(Strides(layout, n), d, g) = d * n + g
    BY <1>2 DEF Address, Strides
  <2>2. c * n + f \in 0 .. Channels * n - 1
    <3>1. c * n \in Nat /\ Channels * n \in Nat /\ c * n + n <= Channels * n
      BY <1>1, Products
    <3> QED
      BY <3>1
  <2>3. ASSUME NEW d \in Channel, NEW g \in 0 .. n - 1, c * n + f = d * n + g
        PROVE  c = d /\ f = g
    BY <1>1, <2>3, Digits
  <2>4. Address(Strides(layout, n), c, f) \in 0 .. Channels * n - 1
    <3>1. c \in Nat /\ f \in Nat
      BY <1>1
    <3>2. Address(Strides(layout, n), c, f) = c * n + f
      BY <2>1, <3>1
    <3> QED
      BY <2>2, <3>2
  <2>5. ASSUME NEW d \in Channel, NEW g \in 0 .. n - 1,
               Address(Strides(layout, n), c, f) = Address(Strides(layout, n), d, g)
        PROVE  c = d /\ f = g
    <3>1. d \in Nat /\ g \in Nat /\ c \in Nat /\ f \in Nat
      BY <1>1
    <3>2. c * n + f = d * n + g
      BY <2>1, <2>5, <3>1
    <3> QED
      BY <2>3, <3>2
  <2> QED
    BY <2>4, <2>5
<1>3. CASE layout = "interleaved"
  <2>1. \A d \in Nat, g \in Nat : Address(Strides(layout, n), d, g) = g * Channels + d
    BY <1>1, <1>3 DEF Address, Strides
  <2>2. f * Channels + c \in 0 .. Channels * n - 1
    <3>1. f * Channels \in Nat /\ n * Channels \in Nat /\ f * Channels + Channels <= n * Channels
      BY <1>1, Products
    <3>2. n * Channels = Channels * n
      BY <1>1
    <3> QED
      BY <1>1, <3>1, <3>2
  <2>3. ASSUME NEW d \in Channel, NEW g \in 0 .. n - 1, f * Channels + c = g * Channels + d
        PROVE  c = d /\ f = g
    BY <1>1, <2>3, Digits
  <2>4. Address(Strides(layout, n), c, f) \in 0 .. Channels * n - 1
    <3>1. c \in Nat /\ f \in Nat
      BY <1>1
    <3>2. Address(Strides(layout, n), c, f) = f * Channels + c
      BY <2>1, <3>1
    <3> QED
      BY <2>2, <3>2
  <2>5. ASSUME NEW d \in Channel, NEW g \in 0 .. n - 1,
               Address(Strides(layout, n), c, f) = Address(Strides(layout, n), d, g)
        PROVE  c = d /\ f = g
    <3>1. d \in Nat /\ g \in Nat /\ c \in Nat /\ f \in Nat
      BY <1>1
    <3>2. f * Channels + c = g * Channels + d
      BY <2>1, <2>5, <3>1
    <3> QED
      BY <2>3, <3>2
  <2> QED
    BY <2>4, <2>5
<1> QED
  BY <1>2, <1>3 DEF Layouts

\* There is no place that belongs to no sample.
LEMMA EveryPlaceUsed ==
  ASSUME NEW layout \in Layouts, NEW n \in Nat, NEW a \in 0 .. Channels * n - 1
  PROVE  \E c \in Channel, f \in 0 .. n - 1 : Address(Strides(layout, n), c, f) = a
<1>1. Channels \in Nat \ {0} /\ Channel = 0 .. Channels - 1 /\ n \in Nat \ {0} /\ a \in Nat
  <2>1. Channels \in Nat \ {0} /\ Channel = 0 .. Channels - 1
    BY WrapperAssumption DEF Channel
  <2> QED
    BY <2>1
<1>2. CASE layout = "planar"
  <2> DEFINE c == a \div n
             f == a % n
  <2>1. f \in 0 .. n - 1 /\ c \in Nat /\ c * n + f = a
    BY <1>1
  <2>2. c \in Channel
    <3>1. CASE c < Channels
      BY <1>1, <2>1, <3>1
    <3>2. CASE Channels <= c
      <4>1. Channels * n <= c * n
        BY <1>1, <2>1, <3>2
      <4> QED
        BY <1>1, <2>1, <4>1
    <3> QED
      BY <1>1, <2>1, <3>1, <3>2
  <2> HIDE DEF c, f
  <2>3. Address(Strides(layout, n), c, f) = c * n + f
    BY <1>1, <1>2, <2>1, <2>2 DEF Address, Strides
  <2> QED
    BY <2>1, <2>2, <2>3
<1>3. CASE layout = "interleaved"
  <2> DEFINE f == a \div Channels
             c == a % Channels
  <2>1. c \in 0 .. Channels - 1 /\ f \in Nat /\ f * Channels + c = a
    BY <1>1
  <2>2. f \in 0 .. n - 1
    <3>1. CASE f < n
      BY <1>1, <2>1, <3>1
    <3>2. CASE n <= f
      <4>1. n * Channels <= f * Channels /\ n * Channels = Channels * n
        BY <1>1, <2>1, <3>2
      <4> QED
        BY <1>1, <2>1, <4>1
    <3> QED
      BY <1>1, <2>1, <3>1, <3>2
  <2> HIDE DEF c, f
  <2>3. Address(Strides(layout, n), c, f) = f * Channels + c
    BY <1>1, <1>3, <2>1, <2>2 DEF Address, Strides
  <2> QED
    BY <1>1, <2>1, <2>2, <2>3
<1> QED
  BY <1>2, <1>3 DEF Layouts

-----------------------------------------------------------------------------
(* The inductive invariant.                                                *)

Sample == (Channel \X (0 .. MaxFrames)) \cup {Untouched}

Memory(n) == [0 .. Channels * n - 1 -> Sample]

\* The calls for n frames.
Calls(n) ==
  [ at : {"head", "flow", "play"}, numFrames : {n}, processed : 0 .. n, chunk : 0 .. Period,
    input  : {Strides(layout, n) : layout \in CaptureLayouts},
    output : {Strides(layout, n) : layout \in PlaybackLayouts},
    capture : Memory(n), playback : Memory(n) ]

\* The wrapper's rings hold two periods.
Ring(buffer) ==
  RingOK(buffer, Frames) /\ buffer.length = 2 * Period /\ buffer.allocated = 2 * Period

Typed ==
  /\ Ring(mInputBuffer) /\ Ring(mOutputBuffer)
  /\ mInputBufferLevel \in 0 .. Period /\ mOutputBufferLevel \in Nat
  /\ captured \in 0 .. MaxFrames
  /\ fed \in Seq(Frames)
  /\ played \in Seq([Channel -> Sample])
  /\ failures \in 0 .. MaxFailures
  /\ call # NoCall => call.numFrames \in FrameCounts /\ call \in Calls(call.numFrames)

\* The frames that are captured and not yet played in this round of the loop ...
InHand == IF call.at \in {"flow", "play"} THEN call.chunk ELSE 0

\* ... and the number of frames captured before this call.
Start == captured - (IF call = NoCall THEN 0 ELSE call.processed + InHand)

\* The host's memory holds the frames that follow those of earlier calls.
CallInv ==
  call # NoCall =>
    /\ call.processed + InHand <= call.numFrames
    /\ Start \in Nat /\ Start + call.numFrames <= MaxFrames
    /\ \A c \in Channel, f \in 0 .. call.numFrames - 1 :
         call.capture[Address(call.input, c, f)] = <<c, Start + f + 1>>
    /\ call.at = "flow" => mInputBufferLevel = Period

\* What is missing in the input buffer is there in the output buffer; after an
\* exception there is more.
LevelInv ==
  /\ mOutputBufferLevel >= Period - mInputBufferLevel + InHand
  /\ failures = 0 =>
       /\ mOutputBufferLevel = Period - mInputBufferLevel + InHand
       /\ mInputBufferLevel = Period => call.at = "flow"

\* The input buffer ends with the captured frames that have not been fed ...
InputInv ==
  \A d \in 1 .. mInputBufferLevel : Latest(mInputBuffer, d) = Delay!Frame(captured - d + 1)

\* ... and the output buffer with the delayed frames that have not been played.
OutputInv ==
  failures = 0 =>
    \A d \in 1 .. mOutputBufferLevel :
      Latest(mOutputBuffer, d) = Delay!Delayed(Period + Len(fed) - d + 1)

PlayedInv == failures = 0 => Len(played) = Start

\* The part of the host's output that is complete, in the planar layout.
PlaybackInv ==
  failures = 0 /\ call # NoCall /\ PlaybackLayouts \subseteq {"planar"} =>
    \A c \in Channel, f \in 0 .. call.processed - 1 :
      call.playback[Address(call.output, c, f)] = Delay!Delayed(Len(played) + f + 1)[c]

IInv ==
  /\ Typed /\ CallInv /\ LevelInv /\ InputInv /\ FedInOrder
  /\ OutputInv /\ PlayedInv /\ PlaybackInv

LEMMA FrameFacts ==
  /\ \A n \in 0 .. MaxFrames : Delay!Frame(n) \in Frames
  /\ Silence \in Frames /\ Frames \subseteq [Channel -> Sample]
  /\ \A n : \A c \in Channel : Delay!Frame(n)[c] = <<c, n>>
  /\ \A n : [c \in Channel |-> Delay!Frame(n)[c]] = Delay!Frame(n)
<1>1. MaxFrames \in Nat /\ 0 \in 0 .. MaxFrames
  BY WrapperAssumption
<1>2. \A n : Delay!Frame(n) = [c \in Channel |-> <<c, n>>]
  BY DEF Delay!Frame
<1>3. \A n \in 0 .. MaxFrames : [c \in Channel |-> <<c, n>>] \in [Channel -> Sample]
  BY DEF Sample
<1>4. Frames \subseteq [Channel -> Sample]
  BY <1>2, <1>3 DEF Frames
<1>5. \A n \in 0 .. MaxFrames : Delay!Frame(n) \in Frames
  BY DEF Frames
<1> QED
  BY <1>1, <1>2, <1>4, <1>5 DEF Silence

LEMMA TypesOfInvariant == Typed => TypeOK
BY DEF Typed, TypeOK, Calls, NoCall, Ring, RingOK

LEMMA InitInvariant == Init => IInv
<1> SUFFICES ASSUME Init PROVE IInv
  OBVIOUS
<1> DEFINE b == NewBuffer(2 * Period, 0, Silence)
           quiet == [i \in 1 .. Period |-> Silence]
<1>1. Period \in Nat \ {0} /\ 2 * Period \in Nat \ {0} /\ MaxFrames \in Nat /\ MaxFailures \in Nat
  BY WrapperAssumption
<1>2. Silence \in Frames
  BY FrameFacts
<1>3. RingOK(b, Frames) /\ b.length = 2 * Period /\ b.allocated = 2 * Period
  BY <1>1, <1>2, Created
<1>4. quiet \in Seq(Frames) /\ Len(quiet) = Period /\ \A i \in 1 .. Period : quiet[i] = Silence
  BY <1>1, <1>2
<1>5. mInputBuffer = b /\ mOutputBuffer = CommitWrite(WriteColumns(b, quiet), Period)
  BY DEF Init
<1> HIDE DEF b, quiet
<1>6. /\ RingOK(mOutputBuffer, Frames) /\ mOutputBuffer.length = 2 * Period
      /\ mOutputBuffer.allocated = 2 * Period
      /\ \A d \in 1 .. Period : Latest(mOutputBuffer, d) = Silence
  <2>1. /\ RingOK(mOutputBuffer, Frames) /\ mOutputBuffer.length = b.length
        /\ mOutputBuffer.allocated = b.allocated
        /\ \A d \in 1 .. b.allocated :
             Latest(mOutputBuffer, d) = IF d <= Len(quiet) THEN quiet[Len(quiet) - d + 1]
                                        ELSE Latest(b, d - Len(quiet))
    <3>1. Len(quiet) <= b.allocated
      BY <1>1, <1>3, <1>4
    <3>2. mOutputBuffer = CommitWrite(WriteColumns(b, quiet), Len(quiet))
      BY <1>4, <1>5
    <3> QED
      BY <1>3, <1>4, <3>1, <3>2, Advanced
  <2>2. ASSUME NEW d \in 1 .. Period
        PROVE  Latest(mOutputBuffer, d) = Silence
    <3>1. d \in 1 .. b.allocated /\ d <= Len(quiet) /\ Len(quiet) - d + 1 \in 1 .. Period
      BY <1>1, <1>3, <1>4
    <3> QED
      BY <1>4, <2>1, <3>1
  <2> QED
    BY <1>3, <2>1, <2>2
<1>7. /\ mInputBufferLevel = 0 /\ mOutputBufferLevel = Period /\ call = NoCall
      /\ captured = 0 /\ fed = <<>> /\ played = <<>> /\ failures = 0 /\ call.at = "outside"
  BY DEF Init, NoCall
<1>8. /\ <<>> \in Seq(Frames) /\ <<>> \in Seq([Channel -> Sample]) /\ Len(<<>>) = 0
      /\ DOMAIN <<>> = {}
  OBVIOUS
<1>9. Typed
  <2>1. Ring(mInputBuffer) /\ Ring(mOutputBuffer)
    BY <1>3, <1>5, <1>6 DEF Ring
  <2> QED
    BY <1>1, <1>7, <1>8, <2>1 DEF Typed
<1>10. CallInv /\ LevelInv /\ InputInv /\ FedInOrder /\ PlaybackInv /\ PlayedInv
  <2>1. InHand = 0 /\ Start = 0
    BY <1>7 DEF InHand, Start
  <2>2. 0 # Period /\ Period >= Period - 0 + 0 /\ Period = Period - 0 + 0
    BY <1>1
  <2>3. LevelInv /\ CallInv /\ PlaybackInv
    BY <1>7, <2>1, <2>2 DEF LevelInv, CallInv, PlaybackInv
  <2>4. FedInOrder /\ InputInv
    BY <1>7, <1>8 DEF FedInOrder, InputInv
  <2> QED
    BY <1>7, <1>8, <2>1, <2>3, <2>4 DEF PlayedInv
<1>11. OutputInv
  <2>1. ASSUME NEW d \in 1 .. Period
        PROVE  Delay!Delayed(Period + 0 - d + 1) = Silence
    <3>1. Period + 0 - d + 1 <= Period
      BY <1>1
    <3> QED
      BY <3>1 DEF Delay!Delayed, Silence
  <2> QED
    BY <1>6, <1>7, <1>8, <2>1 DEF OutputInv
<1> QED
  BY <1>9, <1>10, <1>11 DEF IInv

\* The facts about a call in progress that every step needs.
LEMMA CallFacts ==
  ASSUME Typed, call # NoCall
  PROVE  /\ call.numFrames \in FrameCounts /\ call.numFrames \in Nat
         /\ call \in Calls(call.numFrames)
         /\ call.processed \in 0 .. call.numFrames /\ call.chunk \in 0 .. Period
         /\ call.at \in {"head", "flow", "play"}
         /\ \E in \in CaptureLayouts : call.input = Strides(in, call.numFrames)
         /\ \E out \in PlaybackLayouts : call.output = Strides(out, call.numFrames)
         /\ call.capture \in Memory(call.numFrames) /\ call.playback \in Memory(call.numFrames)
BY WrapperAssumption DEF Typed, Calls

LEMMA Constants ==
  /\ Period \in Nat \ {0} /\ 2 * Period \in Nat /\ Channels \in Nat \ {0}
  /\ MaxFrames \in Nat /\ MaxFailures \in Nat /\ FrameCounts \subseteq Nat
  /\ CaptureLayouts \subseteq Layouts /\ PlaybackLayouts \subseteq Layouts
BY WrapperAssumption DEF Layouts

\* The memory the host passes holds the next frames, each sample in its place.
LEMMA CallKeeps ==
  ASSUME IInv, NEW n \in FrameCounts, NEW in \in CaptureLayouts, NEW out \in PlaybackLayouts,
         Call(n, in, out)
  PROVE  IInv'
<1> DEFINE input    == Strides(in, n)
           places   == 0 .. Channels * n - 1
           Holds(a, s) == a = Address(input, s[1], s[2] - captured - 1)
           samples  == Channel \X (captured + 1 .. captured + n)
           capture  == [a \in places |-> CHOOSE s \in samples : Holds(a, s)]
           playback == [a \in places |-> Untouched]
<1>1. /\ call = NoCall /\ captured + n <= MaxFrames
      /\ call' = [at |-> "head", numFrames |-> n, processed |-> 0, chunk |-> 0,
                  input |-> input, output |-> Strides(out, n),
                  capture |-> capture, playback |-> playback]
      /\ UNCHANGED <<mInputBuffer, mOutputBuffer, levels, captured, fed, played, failures>>
  BY DEF Call
<1>2. n \in Nat /\ in \in Layouts /\ captured \in Nat /\ MaxFrames \in Nat /\ Period \in Nat
  BY Constants DEF IInv, Typed
<1>3. ASSUME NEW a \in places
      PROVE  /\ capture[a] \in samples /\ Holds(a, capture[a])
  <2>1. PICK c \in Channel, f \in 0 .. n - 1 : Address(input, c, f) = a
    BY <1>2, EveryPlaceUsed
  <2>2. captured + 1 + f \in captured + 1 .. captured + n /\ captured + 1 + f - captured - 1 = f
    BY <1>2
  <2> DEFINE s == <<c, captured + 1 + f>>
  <2>3. s \in samples /\ s[1] = c /\ s[2] = captured + 1 + f
    BY <2>2
  <2>4. Holds(a, s)
    <3>1. s[2] - captured - 1 = f
      <4>1. s[2] = captured + 1 + f /\ captured \in Int /\ f \in Int
        BY <1>2
      <4> HIDE DEF s
      <4> QED
        BY <4>1
    <3> HIDE DEF s
    <3>2. a = Address(input, s[1], s[2] - captured - 1)
      BY <2>1, <2>3, <3>1
    <3> QED
      BY <3>2
  <2> HIDE DEF s, samples, Holds
  <2>5. \E t \in samples : Holds(a, t)
    BY <2>3, <2>4
  <2>6. capture[a] = CHOOSE t \in samples : Holds(a, t)
    OBVIOUS
  <2> QED
    BY <2>5, <2>6
<1>4. capture \in Memory(n)
  <2>1. samples \subseteq Sample
    BY <1>1, <1>2 DEF Sample
  <2> HIDE DEF samples, Holds
  <2>2. \A a \in places : capture[a] \in Sample
    BY <1>3, <2>1
  <2> QED
    BY <2>2 DEF Memory
<1>5. ASSUME NEW c \in Channel, NEW f \in 0 .. n - 1
      PROVE  capture[Address(input, c, f)] = <<c, captured + f + 1>>
  <2> DEFINE a == Address(input, c, f)
             s == capture[a]
  <2>1. a \in places
    BY <1>2, Addresses
  <2>2. s \in samples /\ a = Address(input, s[1], s[2] - captured - 1)
    BY <1>3, <2>1
  <2> HIDE DEF a, capture, s
  <2>3. PICK d \in Channel, k \in captured + 1 .. captured + n : s = <<d, k>>
    BY <2>2
  <2>4. k - captured - 1 \in 0 .. n - 1 /\ a = Address(input, d, k - captured - 1)
    BY <1>2, <2>2, <2>3
  <2>5. c = d /\ f = k - captured - 1
    BY <1>2, <2>4, Addresses DEF a
  <2>6. k = captured + f + 1
    BY <1>2, <2>5
  <2> QED
    BY <2>3, <2>5, <2>6 DEF s, a
<1>6. playback \in Memory(n)
  BY DEF Memory, Sample
<1> HIDE DEF capture, playback, input
<1>7. call' \in Calls(n)
  <2>1. 0 \in 0 .. n /\ 0 \in 0 .. Period
    BY <1>2
  <2>2. input \in {Strides(layout, n) : layout \in CaptureLayouts}
    BY DEF input
  <2> QED
    BY <1>1, <1>4, <1>6, <2>1, <2>2 DEF Calls
<1>8. /\ call'.at = "head" /\ call'.numFrames = n /\ call'.processed = 0
      /\ call'.input = input /\ call'.capture = capture /\ call' # NoCall
  BY <1>1 DEF NoCall
<1>9. InHand' = 0 /\ InHand = 0 /\ Start = captured /\ Start' = captured
  BY <1>1, <1>2, <1>8 DEF InHand, Start, NoCall
<1>10. Typed'
  BY <1>1, <1>7, <1>8 DEF IInv, Typed, Ring, levels
<1>11. CallInv'
  BY <1>1, <1>2, <1>5, <1>8, <1>9 DEF CallInv, levels
<1>12. LevelInv'
  BY <1>1, <1>9 DEF IInv, LevelInv, levels, NoCall
<1>13. InputInv' /\ FedInOrder' /\ OutputInv' /\ PlayedInv'
  BY <1>1, <1>9 DEF IInv, InputInv, FedInOrder, OutputInv, PlayedInv, levels
<1>14. PlaybackInv'
  BY <1>8 DEF PlaybackInv
<1> QED
  BY <1>10, <1>11, <1>12, <1>13, <1>14 DEF IInv

\* A ring of two periods after a write of at most one period.
LEMMA Written ==
  ASSUME NEW b, Ring(b), NEW k \in 0 .. Period, NEW data \in Seq(Frames), Len(data) = k,
         NEW w, w = CommitWrite(WriteColumns(b, data), k)
  PROVE  /\ Ring(w)
         /\ \A d \in 1 .. 2 * Period :
              Latest(w, d) = IF d <= k THEN data[k - d + 1] ELSE Latest(b, d - k)
<1>1. RingOK(b, Frames) /\ b.allocated = 2 * Period /\ b.length = 2 * Period
  BY DEF Ring
<1>2. Len(data) <= b.allocated /\ w = CommitWrite(WriteColumns(b, data), Len(data))
  BY <1>1, WrapperAssumption
<1>3. /\ RingOK(w, Frames) /\ w.length = b.length /\ w.allocated = b.allocated
      /\ \A d \in 1 .. b.allocated :
           Latest(w, d) = IF d <= Len(data) THEN data[Len(data) - d + 1]
                          ELSE Latest(b, d - Len(data))
  BY <1>1, <1>2, Advanced
<1>4. ASSUME NEW d \in 1 .. 2 * Period
      PROVE  Latest(w, d) = IF d <= k THEN data[k - d + 1] ELSE Latest(b, d - k)
  BY <1>1, <1>3
<1> QED
  BY <1>1, <1>3, <1>4 DEF Ring

\* The chunk that is captured continues the stream.
LEMMA CaptureChunkKeeps ==
  ASSUME IInv, CaptureChunk
  PROVE  IInv'
<1> DEFINE k == ChunkFrames
           n == call.numFrames
           frame(i) == [c \in Channel |->
                          call.capture[Address(call.input, c, call.processed + i - 1)]]
           chunk == [i \in 1 .. k |-> frame(i)]
<1>1. /\ call.at = "head" /\ call.processed < n /\ call # NoCall
      /\ mInputBuffer' = CommitWrite(WriteColumns(mInputBuffer, chunk), k)
      /\ mInputBufferLevel' = mInputBufferLevel + k
      /\ captured' = captured + k
      /\ call' = [call EXCEPT !.chunk = k,
                              !.at    = IF mInputBufferLevel' = Period THEN "flow" ELSE "play"]
      /\ UNCHANGED <<mOutputBuffer, mOutputBufferLevel, fed, played, failures>>
  BY DEF CaptureChunk, NoCall
<1>2. /\ Period \in Nat \ {0} /\ mInputBufferLevel \in 0 .. Period /\ captured \in Nat
      /\ MaxFrames \in Nat /\ mOutputBufferLevel \in Nat
  BY Constants DEF IInv, Typed
<1>3. /\ n \in Nat /\ call.processed \in 0 .. n /\ call \in Calls(n) /\ n \in FrameCounts
  BY <1>1, CallFacts DEF IInv
<1>4. /\ k \in 0 .. Period /\ k <= Period - mInputBufferLevel /\ k <= n - call.processed
      /\ (k = Period - mInputBufferLevel \/ k = n - call.processed)
  <2> DEFINE remaining == n - call.processed
             room == Period - mInputBufferLevel
  <2>1. remaining \in Nat /\ room \in 0 .. Period
    BY <1>2, <1>3
  <2>2. k = IF remaining < room THEN remaining ELSE room
    BY DEF ChunkFrames
  <2> HIDE DEF k, remaining, room
  <2>3. k \in 0 .. Period /\ k <= room /\ k <= remaining /\ (k = room \/ k = remaining)
    BY <1>2, <2>1, <2>2
  <2> QED
    BY <2>3 DEF remaining, room
<1>5. /\ InHand = 0 /\ Start = captured - call.processed
      /\ Start \in Nat /\ Start + n <= MaxFrames
      /\ \A c \in Channel, f \in 0 .. n - 1 :
           call.capture[Address(call.input, c, f)] = <<c, Start + f + 1>>
  <2>1. InHand = 0
    BY <1>1 DEF InHand
  <2>2. Start = captured - call.processed
    <3> DEFINE p == call.processed
    <3>1. Start = captured - (p + 0)
      BY <1>1, <2>1 DEF Start
    <3> HIDE DEF p
    <3>2. p \in Nat
      BY <1>3 DEF p
    <3> QED
      BY <1>2, <3>1, <3>2 DEF p
  <2> QED
    BY <1>1, <2>1, <2>2 DEF IInv, CallInv
<1> HIDE DEF k
<1>6. ASSUME NEW i \in 1 .. k
      PROVE  frame(i) = Delay!Frame(captured + i) /\ captured + i \in 0 .. MaxFrames
  <2> DEFINE f == call.processed + i - 1
  <2>1. f \in 0 .. n - 1 /\ Start + f + 1 = captured + i /\ captured + i \in 0 .. MaxFrames
    BY <1>2, <1>3, <1>4, <1>5
  <2> HIDE DEF f
  <2>2. \A c \in Channel : call.capture[Address(call.input, c, f)] = <<c, captured + i>>
    BY <1>5, <2>1
  <2>3. [c \in Channel |-> call.capture[Address(call.input, c, f)]] =
          [c \in Channel |-> <<c, captured + i>>]
    BY <2>2
  <2> QED
    BY <2>1, <2>3 DEF f, Delay!Frame
<1> HIDE DEF frame
<1>7. /\ chunk \in Seq(Frames) /\ Len(chunk) = k
      /\ \A i \in 1 .. k : chunk[i] = Delay!Frame(captured + i)
  <2>1. \A i \in 1 .. k : frame(i) \in Frames /\ frame(i) = Delay!Frame(captured + i)
    BY <1>6, FrameFacts
  <2>2. k \in Nat
    BY <1>4
  <2> QED
    BY <2>1, <2>2
<1> HIDE DEF chunk
<1>8. /\ Ring(mInputBuffer')
      /\ \A d \in 1 .. 2 * Period :
           Latest(mInputBuffer', d) = IF d <= k THEN chunk[k - d + 1]
                                      ELSE Latest(mInputBuffer, d - k)
  <2>1. Ring(mInputBuffer)
    BY DEF IInv, Typed
  <2> QED
    BY <1>1, <1>4, <1>7, <2>1, Written
<1>9. InputInv'
  <2> SUFFICES ASSUME NEW d \in 1 .. mInputBufferLevel'
               PROVE  Latest(mInputBuffer', d) = Delay!Frame(captured' - d + 1)
    BY DEF InputInv
  <2>1. d \in 1 .. mInputBufferLevel + k /\ captured' - d + 1 = captured + k - d + 1
    BY <1>1, <1>2, <1>4
  <2>2. d \in 1 .. 2 * Period
    BY <1>2, <1>4, <2>1
  <2>3. CASE d <= k
    <3>1. k - d + 1 \in 1 .. k /\ captured + (k - d + 1) = captured + k - d + 1
      BY <1>2, <1>4, <2>1, <2>3
    <3> QED
      BY <1>7, <1>8, <2>1, <2>2, <2>3, <3>1
  <2>4. CASE ~ d <= k
    <3>1. d - k \in 1 .. mInputBufferLevel /\ captured - (d - k) + 1 = captured + k - d + 1
      BY <1>2, <1>4, <2>1, <2>4
    <3>2. Latest(mInputBuffer, d - k) = Delay!Frame(captured - (d - k) + 1)
      BY <3>1 DEF IInv, InputInv
    <3> QED
      BY <1>8, <2>1, <2>2, <2>4, <3>1, <3>2
  <2> QED
    BY <2>3, <2>4
<1> DEFINE at == IF mInputBufferLevel' = Period THEN "flow" ELSE "play"
<1>10. at \in {"flow", "play"} /\ (at = "flow" => mInputBufferLevel' = Period)
       /\ (mInputBufferLevel' = Period => at = "flow")
  OBVIOUS
<1>11. call' = [call EXCEPT !.chunk = k, !.at = at]
  BY <1>1
<1> HIDE DEF at, n
<1>12. /\ call' \in Calls(n)
       /\ call'.at = at /\ call'.chunk = k /\ call'.numFrames = n
       /\ call'.processed = call.processed /\ call'.input = call.input
       /\ call'.output = call.output
       /\ call'.capture = call.capture /\ call'.playback = call.playback
  BY <1>3, <1>4, <1>10, <1>11 DEF Calls
<1>13. call' # NoCall
  BY <1>10, <1>12 DEF NoCall
<1>14. InHand' = k /\ Start' = Start
  <2>1. InHand' = k
    BY <1>10, <1>12 DEF InHand
  <2>2. captured + k - (call.processed + k) = captured - call.processed
    BY <1>2, <1>3, <1>4
  <2>3. Start' = captured' - (call'.processed + InHand')
    BY <1>13 DEF Start
  <2>4. Start' = captured + k - (call.processed + k)
    BY <1>1, <1>2, <1>3, <1>4, <1>12, <2>1, <2>3
  <2> QED
    BY <1>5, <2>1, <2>2, <2>4
<1>15. Typed'
  <2>1. captured + k \in 0 .. MaxFrames /\ mInputBufferLevel + k \in 0 .. Period
    BY <1>2, <1>3, <1>4, <1>5
  <2> QED
    BY <1>1, <1>3, <1>8, <1>12, <2>1 DEF IInv, Typed
<1>16. CallInv'
  <2>1. call.processed + k <= n
    BY <1>3, <1>4
  <2> QED
    BY <1>5, <1>10, <1>12, <1>14, <2>1 DEF CallInv
<1>17. LevelInv'
  <2>1. Period - (mInputBufferLevel + k) + k = Period - mInputBufferLevel + 0
    BY <1>2, <1>4
  <2> QED
    BY <1>1, <1>5, <1>10, <1>12, <1>14, <2>1 DEF IInv, LevelInv
<1>18. FedInOrder'
  <2>1. Len(fed) \in Nat /\ captured = Len(fed) + mInputBufferLevel
    BY DEF IInv, FedInOrder, Typed
  <2>2. captured + k = Len(fed) + (mInputBufferLevel + k)
    BY <1>2, <1>4, <2>1
  <2> QED
    BY <1>1, <2>2 DEF IInv, FedInOrder
<1>19. OutputInv' /\ PlayedInv'
  BY <1>1, <1>14 DEF IInv, OutputInv, PlayedInv
<1>20. PlaybackInv'
  BY <1>1, <1>12, <1>13 DEF IInv, PlaybackInv
<1> QED
  BY <1>9, <1>15, <1>16, <1>17, <1>18, <1>19, <1>20 DEF IInv

\* The block for the flow consists of the frames that follow those it has been fed.
LEMMA BlockIsNext ==
  ASSUME IInv, call.at = "flow"
  PROVE  /\ FlowBlock \in Seq(Frames) /\ Len(FlowBlock) = Period
         /\ mInputBufferLevel = Period /\ captured = Len(fed) + Period
         /\ \A i \in 1 .. Period : FlowBlock[i] = Delay!Frame(Len(fed) + i)
<1>1. /\ Period \in Nat \ {0} /\ mInputBufferLevel = Period /\ captured = Len(fed) + Period
      /\ Len(fed) \in Nat
  BY Constants DEF IInv, Typed, CallInv, FedInOrder, NoCall
<1>2. RingOK(mInputBuffer, Frames) /\ mInputBuffer.allocated = 2 * Period
  BY DEF IInv, Typed, Ring
<1>3. Period \in 0 .. mInputBuffer.allocated /\ Period \in 0 .. Period
  BY <1>1, <1>2
<1>4. /\ FlowBlock \in Seq(Frames) /\ Len(FlowBlock) = Period
      /\ \A i \in 1 .. Period : FlowBlock[i] = Latest(mInputBuffer, Period - i + 1)
  BY <1>2, <1>3, ReadBack DEF FlowBlock
<1>5. ASSUME NEW i \in 1 .. Period
      PROVE  FlowBlock[i] = Delay!Frame(Len(fed) + i)
  <2>1. /\ Period - i + 1 \in 1 .. mInputBufferLevel
        /\ captured - (Period - i + 1) + 1 = Len(fed) + i
    BY <1>1
  <2>2. Latest(mInputBuffer, Period - i + 1) = Delay!Frame(captured - (Period - i + 1) + 1)
    BY <2>1 DEF IInv, InputInv
  <2> QED
    BY <1>4, <2>1, <2>2
<1> QED
  BY <1>1, <1>4, <1>5

\* The block goes to the end of the output buffer, behind what is not played yet.
LEMMA ProcessPeriodKeeps ==
  ASSUME IInv, ProcessPeriod
  PROVE  IInv'
<1> DEFINE block == FlowBlock
           l == Len(fed)
           n == call.numFrames
<1>1. /\ call.at = "flow" /\ call # NoCall
      /\ mOutputBuffer' = CommitWrite(WriteColumns(mOutputBuffer, block), Period)
      /\ mInputBufferLevel' = mInputBufferLevel - Period
      /\ mOutputBufferLevel' = mOutputBufferLevel + Period
      /\ fed' = fed \o block
      /\ call' = [call EXCEPT !.at = "play"]
      /\ UNCHANGED <<mInputBuffer, captured, played, failures>>
  BY DEF ProcessPeriod, NoCall
<1>2. /\ Period \in Nat \ {0} /\ captured \in Nat /\ mOutputBufferLevel \in Nat
      /\ fed \in Seq(Frames) /\ l \in Nat
  BY Constants DEF IInv, Typed
<1>3. /\ block \in Seq(Frames) /\ Len(block) = Period
      /\ mInputBufferLevel = Period /\ captured = l + Period
      /\ \A i \in 1 .. Period : block[i] = Delay!Frame(l + i)
  BY <1>1, BlockIsNext
<1>4. /\ call \in Calls(n) /\ call.chunk \in 0 .. Period /\ n \in FrameCounts
  BY <1>1, CallFacts DEF IInv
<1>5. /\ fed' \in Seq(Frames) /\ Len(fed') = l + Period
      /\ \A i \in 1 .. l + Period : fed'[i] = IF i <= l THEN fed[i] ELSE block[i - l]
  <2> DEFINE longer == fed \o block
  <2> HIDE DEF block
  <2>1. /\ longer \in Seq(Frames) /\ Len(longer) = Len(fed) + Len(block)
        /\ \A i \in 1 .. Len(fed) + Len(block) :
             longer[i] = IF i <= Len(fed) THEN fed[i] ELSE block[i - Len(fed)]
    BY <1>2, <1>3, ConcatProperties
  <2> HIDE DEF longer
  <2> QED
    BY <1>1, <1>3, <2>1 DEF longer
<1> HIDE DEF block, l, n
<1>6. /\ call' \in Calls(n) /\ call'.at = "play" /\ call'.chunk = call.chunk
      /\ call'.numFrames = n /\ call.numFrames = n
      /\ call'.processed = call.processed /\ call'.input = call.input
      /\ call'.output = call.output
      /\ call'.capture = call.capture /\ call'.playback = call.playback
  BY <1>1, <1>4 DEF Calls, n
<1>7. call' # NoCall /\ InHand' = call.chunk /\ InHand = call.chunk
  BY <1>1, <1>6 DEF NoCall, InHand
<1>8. Start' = Start
  BY <1>1, <1>6, <1>7 DEF Start
<1>9. /\ Ring(mOutputBuffer')
      /\ \A d \in 1 .. 2 * Period :
           Latest(mOutputBuffer', d) = IF d <= Period THEN block[Period - d + 1]
                                       ELSE Latest(mOutputBuffer, d - Period)
  <2>1. Period \in 0 .. Period
    BY <1>2
  <2>2. Ring(mOutputBuffer)
    BY DEF IInv, Typed
  <2> QED
    BY <1>1, <1>3, <2>1, <2>2, Written
<1>10. mInputBufferLevel' = 0 /\ mInputBufferLevel' \in 0 .. Period
  BY <1>1, <1>2, <1>3
<1>11. Typed'
  <2>1. mOutputBufferLevel' \in Nat
    BY <1>1, <1>2
  <2> QED
    BY <1>1, <1>4, <1>5, <1>6, <1>9, <1>10, <2>1 DEF IInv, Typed
<1>12. CallInv'
  BY <1>1, <1>6, <1>7, <1>8 DEF IInv, CallInv
<1>13. LevelInv'
  <2>1. mOutputBufferLevel >= Period - Period + call.chunk
    BY <1>3, <1>7 DEF IInv, LevelInv
  <2>2. failures = 0 => mOutputBufferLevel = Period - Period + call.chunk
    BY <1>3, <1>7 DEF IInv, LevelInv
  <2>3. mOutputBufferLevel' >= Period - 0 + call.chunk
    BY <1>1, <1>2, <1>4, <2>1
  <2>4. failures = 0 => mOutputBufferLevel' = Period - 0 + call.chunk
    BY <1>1, <1>2, <1>4, <2>2
  <2>5. mInputBufferLevel' # Period
    BY <1>2, <1>10
  <2> QED
    BY <1>1, <1>7, <1>10, <2>3, <2>4, <2>5 DEF LevelInv
<1>14. InputInv'
  BY <1>10 DEF InputInv
<1>15. FedInOrder'
  <2>1. ASSUME NEW i \in DOMAIN fed'
        PROVE  fed'[i] = Delay!Frame(i)
    <3>1. i \in 1 .. l + Period
      BY <1>5
    <3>2. CASE i <= l
      <4>1. i \in DOMAIN fed
        BY <1>2, <3>1, <3>2 DEF l
      <4> QED
        BY <1>5, <3>1, <3>2, <4>1 DEF IInv, FedInOrder
    <3>3. CASE ~ i <= l
      <4>1. i - l \in 1 .. Period /\ l + (i - l) = i
        BY <1>2, <3>1, <3>3
      <4> QED
        BY <1>3, <1>5, <3>1, <3>3, <4>1
    <3> QED
      BY <3>2, <3>3
  <2>2. captured' = Len(fed') + mInputBufferLevel'
    BY <1>1, <1>2, <1>3, <1>5, <1>10
  <2> QED
    BY <2>1, <2>2 DEF FedInOrder
<1>16. OutputInv'
  <2> SUFFICES ASSUME failures = 0, NEW d \in 1 .. mOutputBufferLevel'
               PROVE  Latest(mOutputBuffer', d) = Delay!Delayed(Period + Len(fed') - d + 1)
    BY <1>1 DEF OutputInv
  <2>1. mOutputBufferLevel = call.chunk
    BY <1>2, <1>3, <1>4, <1>7 DEF IInv, LevelInv
  <2>2. /\ d \in 1 .. call.chunk + Period /\ d \in 1 .. 2 * Period
        /\ Period + Len(fed') - d + 1 = Period + (l + Period) - d + 1
    BY <1>1, <1>2, <1>4, <1>5, <2>1
  <2>3. CASE d <= Period
    <3>1. Period - d + 1 \in 1 .. Period
      BY <1>2, <2>2, <2>3
    <3>2. Delay!Delayed(Period + (l + Period) - d + 1) = Delay!Frame(l + (Period - d + 1))
      <4> DEFINE x == Period + (l + Period) - d + 1
                 y == l + (Period - d + 1)
      <4>1. ~ x <= Period /\ x - Period = y
        BY <1>2, <2>2, <2>3
      <4> HIDE DEF x, y
      <4>2. Delay!Delayed(x) = Delay!Frame(y)
        BY <4>1 DEF Delay!Delayed
      <4> QED
        BY <4>2 DEF x, y
    <3> QED
      BY <1>3, <1>9, <2>2, <2>3, <3>1, <3>2
  <2>4. CASE ~ d <= Period
    <3>1. /\ d - Period \in 1 .. mOutputBufferLevel
          /\ Period + l - (d - Period) + 1 = Period + (l + Period) - d + 1
      BY <1>2, <1>4, <2>1, <2>2, <2>4
    <3>2. Latest(mOutputBuffer, d - Period) = Delay!Delayed(Period + l - (d - Period) + 1)
      BY <3>1 DEF IInv, OutputInv, l
    <3> QED
      BY <1>9, <2>2, <2>4, <3>1, <3>2
  <2> QED
    BY <2>3, <2>4
<1>17. PlayedInv' /\ PlaybackInv'
  BY <1>1, <1>6, <1>7, <1>8 DEF IInv, PlayedInv, PlaybackInv
<1> QED
  BY <1>11, <1>12, <1>13, <1>14, <1>15, <1>16, <1>17 DEF IInv

\* An exception of the flow leaves the buffers as they are: the block is fed later.
LEMMA FlowThrowsKeeps ==
  ASSUME IInv, FlowThrows
  PROVE  IInv'
<1>1. /\ failures < MaxFailures /\ call' = NoCall /\ failures' = failures + 1
      /\ UNCHANGED <<mInputBuffer, mOutputBuffer, levels, captured, fed, played>>
      /\ call.at = "flow" /\ call # NoCall
  BY DEF FlowThrows, NoCall
<1>2. /\ failures' \in 0 .. MaxFailures /\ failures' # 0 /\ mOutputBufferLevel \in Nat
      /\ mInputBufferLevel \in 0 .. Period /\ Period \in Nat
  BY <1>1, Constants DEF IInv, Typed
<1>3. InHand' = 0 /\ InHand = call.chunk /\ call.chunk \in 0 .. Period
  BY <1>1, CallFacts DEF InHand, NoCall, IInv
<1>4. Typed'
  BY <1>1, <1>2 DEF IInv, Typed, levels
<1>5. LevelInv'
  <2>1. mOutputBufferLevel >= Period - mInputBufferLevel + call.chunk
    BY <1>3 DEF IInv, LevelInv
  <2>2. mOutputBufferLevel >= Period - mInputBufferLevel + 0
    BY <1>2, <1>3, <2>1
  <2> QED
    BY <1>1, <1>2, <1>3, <2>2 DEF LevelInv, levels
<1>6. InputInv' /\ FedInOrder'
  BY <1>1 DEF IInv, InputInv, FedInOrder, levels
<1>7. CallInv' /\ OutputInv' /\ PlayedInv' /\ PlaybackInv'
  BY <1>1, <1>2 DEF CallInv, OutputInv, PlayedInv, PlaybackInv
<1> QED
  BY <1>4, <1>5, <1>6, <1>7 DEF IInv

\* The samples of the chunk that are stored at an address.
StoredAt(a) == {s \in Channel \X (0 .. call.chunk - 1) : PlaybackAddress(s[1], s[2]) = a}

\* In the planar layout a chunk goes behind what earlier chunks have left.
LEMMA PlanarStores ==
  ASSUME Typed, call # NoCall, PlaybackLayouts \subseteq {"planar"},
         call.processed + call.chunk <= call.numFrames,
         NEW c \in Channel, NEW f \in 0 .. call.processed + call.chunk - 1
  PROVE  /\ Address(call.output, c, f) \in 0 .. Channels * call.numFrames - 1
         /\ StoredAt(Address(call.output, c, f)) =
              IF f < call.processed THEN {} ELSE {<<c, f - call.processed>>}
<1> DEFINE n == call.numFrames
           p == call.processed
           k == call.chunk
           a == Address(call.output, c, f)
<1>1. n \in Nat /\ p \in 0 .. n /\ k \in 0 .. Period /\ Period \in Nat /\ p + k <= n
  BY CallFacts, Constants
<1>2. call.output = Strides("planar", n) /\ "planar" \in Layouts
  BY CallFacts DEF Layouts
<1>3. f \in 0 .. n - 1
  BY <1>1
<1>4. a \in 0 .. Channels * n - 1
  BY <1>1, <1>2, <1>3, Addresses
<1>5. ASSUME NEW d \in Channel, NEW g \in 0 .. k - 1
      PROVE  PlaybackAddress(d, g) = Address(call.output, d, p + g) /\ p + g \in 0 .. n - 1
  <2>1. d \in Nat /\ d * n \in Nat
    BY <1>1, WrapperAssumption DEF Channel
  <2>2. PlaybackAddress(d, g) = p + (d * n + g * 1)
    BY <1>2 DEF PlaybackAddress, Address, Strides
  <2>3. Address(call.output, d, p + g) = d * n + (p + g) * 1
    BY <1>2 DEF Address, Strides
  <2> DEFINE r == d * n
  <2>4. r \in Nat
    BY <2>1
  <2> HIDE DEF r, n, p
  <2>5. p + (r + g * 1) = r + (p + g) * 1
    BY <1>1, <2>4
  <2> QED
    BY <1>1, <2>2, <2>3, <2>5 DEF r
<1>6. ASSUME NEW d \in Channel, NEW g \in 0 .. k - 1
      PROVE  PlaybackAddress(d, g) = a <=> d = c /\ g = f - p
  <2>1. Address(call.output, d, p + g) = a <=> c = d /\ f = p + g
    <3> DEFINE q == p + g
    <3>1. q \in 0 .. n - 1
      BY <1>5
    <3> HIDE DEF n, p, q
    <3>2. Address(Strides("planar", n), c, f) = Address(Strides("planar", n), d, q) =>
            c = d /\ f = q
      BY <1>1, <1>2, <1>3, <3>1, Addresses
    <3> QED
      BY <1>2, <3>2 DEF q
  <2> QED
    BY <1>1, <1>3, <1>5, <2>1
<1> HIDE DEF n, p, k, a
<1>7. StoredAt(a) = IF f < p THEN {} ELSE {<<c, f - p>>}
  <2>1. CASE f < p
    <3>1. \A g \in 0 .. k - 1 : g # f - p
      BY <1>1, <1>3, <2>1
    <3> QED
      BY <1>6, <2>1, <3>1 DEF StoredAt, k
  <2>2. CASE ~ f < p
    <3>1. f - p \in 0 .. k - 1
      BY <1>1, <1>3, <2>2 DEF p, k
    <3>2. StoredAt(a) = {<<c, f - p>>}
      BY <1>6, <3>1 DEF StoredAt, k
    <3> QED
      BY <2>2, <3>2
  <2> QED
    BY <2>1, <2>2
<1> QED
  BY <1>4, <1>7 DEF n, p, a

\* The chunk that is played, and the host's memory after it.
Played == ReadColumns(mOutputBuffer, mOutputBufferLevel, call.chunk, Arbitrary)

Heard(a) ==
  IF StoredAt(a) = {} THEN call.playback[a]
  ELSE LET s == CHOOSE s \in StoredAt(a) : TRUE IN Played[s[2] + 1][s[1]]

\* The level of the output buffer covers the chunk; without exceptions the chunk
\* is the next part of the delayed stream.
LEMMA ChunkPlayed ==
  ASSUME IInv, call.at = "play"
  PROVE  /\ call.chunk \in Nat /\ call.chunk <= mOutputBufferLevel
         /\ \A i \in 1 .. call.chunk : Played[i] \in [Channel -> Sample]
         /\ failures = 0 =>
              /\ Len(played) = captured - (call.processed + call.chunk)
              /\ Period + Len(fed) - mOutputBufferLevel = Len(played) + call.processed
              /\ \A i \in 1 .. call.chunk :
                   Played[i] = Delay!Delayed(Len(played) + call.processed + i)
<1> DEFINE k == call.chunk
           out == mOutputBufferLevel
           in == mInputBufferLevel
           p == call.processed
           l == Len(fed)
           m == Len(played)
<1>1. /\ call # NoCall /\ InHand = k
  BY DEF NoCall, InHand
<1>2. /\ k \in 0 .. Period /\ p \in Nat /\ out \in Nat /\ in \in 0 .. Period /\ Period \in Nat
      /\ l \in Nat /\ captured = l + in /\ captured \in Nat
  <2>1. k \in 0 .. Period /\ p \in 0 .. call.numFrames /\ call.numFrames \in Nat
    BY <1>1, CallFacts DEF IInv
  <2> QED
    BY <2>1, Constants DEF IInv, Typed, FedInOrder
<1>3. out >= Period - in + k /\ (failures = 0 => out = Period - in + k)
  BY <1>1 DEF IInv, LevelInv
<1>4. k \in 0 .. out
  BY <1>2, <1>3
<1>5. RingOK(mOutputBuffer, Frames) /\ mOutputBuffer.allocated = 2 * Period
  BY DEF IInv, Typed, Ring
<1>6. ASSUME NEW i \in 1 .. k
      PROVE  Played[i] \in [Channel -> Sample]
  <2>1. Arbitrary \in [Channel -> Sample]
    BY DEF Arbitrary, Sample, Untouched
  <2>2. Played[i] \in Frames \cup {Arbitrary}
    BY <1>2, <1>4, <1>5, ReadTyped DEF Played
  <2> QED
    BY <2>1, <2>2, FrameFacts
<1>7. ASSUME failures = 0
      PROVE  /\ m = captured - (p + k) /\ Period + l - out = m + p
             /\ \A i \in 1 .. k : Played[i] = Delay!Delayed(m + p + i)
  <2>1. m = captured - (p + k)
    BY <1>1, <1>7 DEF IInv, PlayedInv, Start
  <2>2. Period + l - out = m + p /\ out \in 0 .. 2 * Period
    <3>1. out = Period - in + k
      BY <1>3, <1>7
    <3> HIDE DEF m, l, p, k, in, out
    <3> QED
      BY <1>2, <2>1, <3>1
  <2>3. \A i \in 1 .. k : Played[i] = Latest(mOutputBuffer, out - i + 1)
    BY <1>4, <1>5, <2>2, ReadBack DEF Played
  <2>4. ASSUME NEW i \in 1 .. k
        PROVE  Played[i] = Delay!Delayed(m + p + i)
    <3>1. out - i + 1 \in 1 .. out /\ Period + l - (out - i + 1) + 1 = m + p + i
      <4>1. m \in Int /\ i \in Int
        BY <1>2, <2>1
      <4> HIDE DEF m, l, p, out, k
      <4> QED
        BY <1>2, <1>4, <2>2, <4>1
    <3>2. Latest(mOutputBuffer, out - i + 1) = Delay!Delayed(Period + l - (out - i + 1) + 1)
      BY <1>7, <3>1 DEF IInv, OutputInv
    <3> QED
      BY <2>3, <3>1, <3>2
  <2> QED
    BY <2>1, <2>2, <2>4
<1> QED
  BY <1>4, <1>6, <1>7

LEMMA PlayChunkKeeps ==
  ASSUME IInv, PlayChunk
  PROVE  IInv'
<1> DEFINE k == call.chunk
           n == call.numFrames
           p == call.processed
           new == [a \in 0 .. Channels * n - 1 |-> Heard(a)]
<1>1. /\ call.at = "play" /\ call # NoCall
      /\ mOutputBufferLevel' = mOutputBufferLevel - k
      /\ UNCHANGED <<mInputBuffer, mOutputBuffer, mInputBufferLevel, captured, fed, played,
                     failures>>
  BY DEF PlayChunk, NoCall
<1>2. /\ n \in Nat /\ n \in FrameCounts /\ call \in Calls(n) /\ p \in 0 .. n
      /\ call.playback \in Memory(n) /\ k \in 0 .. Period
  BY <1>1, CallFacts DEF IInv
<1>3. call' = [call EXCEPT !.at = "head", !.processed = p + k, !.playback = new]
  <2>1. DOMAIN call.playback = 0 .. Channels * n - 1
    BY <1>2 DEF Memory
  <2> QED
    BY <2>1 DEF PlayChunk, Heard, StoredAt, Played
<1>4. /\ k \in Nat /\ k <= mOutputBufferLevel
      /\ \A i \in 1 .. k : Played[i] \in [Channel -> Sample]
      /\ failures = 0 =>
           \A i \in 1 .. k : Played[i] = Delay!Delayed(Len(played) + p + i)
  BY <1>1, ChunkPlayed
<1>5. InHand = k /\ p + k <= n /\ Start = captured - (p + k)
  BY <1>1 DEF IInv, CallInv, InHand, Start
<1>6. new \in Memory(n)
  <2>1. ASSUME NEW a \in 0 .. Channels * n - 1
        PROVE  Heard(a) \in Sample
    <3>1. CASE StoredAt(a) = {}
      BY <1>2, <3>1 DEF Heard, Memory
    <3>2. CASE StoredAt(a) # {}
      <4> DEFINE s == CHOOSE s \in StoredAt(a) : TRUE
      <4>1. s \in StoredAt(a)
        BY <3>2
      <4>2. Heard(a) = Played[s[2] + 1][s[1]]
        BY <3>2 DEF Heard
      <4> HIDE DEF s
      <4>3. s[1] \in Channel /\ s[2] \in 0 .. k - 1
        BY <4>1 DEF StoredAt
      <4>4. s[2] + 1 \in 1 .. k
        BY <1>4, <4>3
      <4> QED
        BY <1>4, <4>2, <4>3, <4>4
    <3> QED
      BY <3>1, <3>2
  <2> QED
    BY <2>1 DEF Memory
<1> HIDE DEF new, n
<1>7. /\ call' \in Calls(n) /\ call'.at = "head" /\ call'.chunk = k
      /\ call'.numFrames = n /\ call'.processed = p + k /\ call'.input = call.input
      /\ call'.output = call.output /\ call'.capture = call.capture /\ call'.playback = new
  <2> DEFINE q == p + k
  <2>1. q \in 0 .. n
    BY <1>2, <1>4, <1>5
  <2>2. call' = [call EXCEPT !.at = "head", !.processed = q, !.playback = new]
    BY <1>3
  <2> HIDE DEF q
  <2> QED
    BY <1>2, <1>6, <2>1, <2>2 DEF Calls, q
<1>8. call' # NoCall /\ InHand' = 0
  BY <1>7 DEF NoCall, InHand
<1>9. Start' = Start
  <2>1. Start' = captured - (p + k + 0)
    BY <1>1, <1>7, <1>8 DEF Start
  <2> QED
    BY <1>2, <1>4, <1>5, <2>1
<1>10. mOutputBufferLevel \in Nat /\ mInputBufferLevel \in 0 .. Period /\ Period \in Nat
  BY Constants DEF IInv, Typed
<1>11. Typed'
  <2>1. mOutputBufferLevel' \in Nat
    BY <1>1, <1>4, <1>10
  <2> QED
    BY <1>1, <1>2, <1>7, <2>1 DEF IInv, Typed
<1>12. CallInv'
  <2>1. p + k + 0 <= n
    BY <1>2, <1>4, <1>5
  <2>2. /\ Start \in Nat /\ Start + n <= MaxFrames
        /\ \A c \in Channel, f \in 0 .. n - 1 :
             call.capture[Address(call.input, c, f)] = <<c, Start + f + 1>>
    BY <1>1 DEF IInv, CallInv, n
  <2> QED
    BY <1>7, <1>8, <1>9, <2>1, <2>2 DEF CallInv
<1>13. LevelInv'
  <2>1. mOutputBufferLevel >= Period - mInputBufferLevel + k
    BY <1>5 DEF IInv, LevelInv
  <2>2. failures = 0 => mOutputBufferLevel = Period - mInputBufferLevel + k
    BY <1>5 DEF IInv, LevelInv
  <2>3. mOutputBufferLevel' >= Period - mInputBufferLevel + 0
    BY <1>1, <1>4, <1>10, <2>1
  <2>4. failures = 0 => mOutputBufferLevel' = Period - mInputBufferLevel + 0
    BY <1>1, <1>4, <1>10, <2>2
  <2>5. failures = 0 => mInputBufferLevel # Period
    BY <1>1 DEF IInv, LevelInv
  <2> QED
    BY <1>1, <1>8, <2>3, <2>4, <2>5 DEF LevelInv
<1>14. InputInv' /\ FedInOrder' /\ PlayedInv'
  BY <1>1, <1>9 DEF IInv, InputInv, FedInOrder, PlayedInv
<1>15. OutputInv'
  <2> SUFFICES ASSUME failures = 0, NEW d \in 1 .. mOutputBufferLevel'
               PROVE  Latest(mOutputBuffer, d) = Delay!Delayed(Period + Len(fed) - d + 1)
    BY <1>1 DEF OutputInv
  <2>1. d \in 1 .. mOutputBufferLevel
    BY <1>1, <1>4, <1>10
  <2> QED
    BY <2>1 DEF IInv, OutputInv
<1>16. ASSUME failures = 0, PlaybackLayouts \subseteq {"planar"},
              NEW c \in Channel, NEW f \in 0 .. p + k - 1
       PROVE  new[Address(call.output, c, f)] = Delay!Delayed(Len(played) + f + 1)[c]
  <2> DEFINE a == Address(call.output, c, f)
  <2>1. /\ a \in 0 .. Channels * n - 1
        /\ StoredAt(a) = IF f < p THEN {} ELSE {<<c, f - p>>}
    BY <1>1, <1>5, <1>16, PlanarStores DEF IInv, n
  <2>2. new[a] = Heard(a)
    BY <2>1 DEF new
  <2>3. CASE f < p
    <3>1. f \in 0 .. p - 1
      BY <1>2, <1>4, <2>3
    <3>2. call.playback[a] = Delay!Delayed(Len(played) + f + 1)[c]
      BY <1>1, <1>16, <3>1 DEF IInv, PlaybackInv
    <3> QED
      BY <2>1, <2>2, <2>3, <3>2 DEF Heard
  <2>4. CASE ~ f < p
    <3> DEFINE s == CHOOSE s \in StoredAt(a) : TRUE
               j == f - p
    <3>1. StoredAt(a) = {<<c, j>>}
      BY <2>1, <2>4
    <3>2. s = <<c, j>>
      BY <3>1
    <3>3. Heard(a) = Played[s[2] + 1][s[1]]
      BY <3>1 DEF Heard
    <3>4. j + 1 \in 1 .. k /\ Len(played) + p + (j + 1) = Len(played) + f + 1
      <4>1. Len(played) \in Int
        BY DEF IInv, Typed
      <4> QED
        BY <1>2, <1>4, <2>4, <4>1
    <3> HIDE DEF s, j, a
    <3>5. s[1] = c /\ s[2] = j
      BY <3>2
    <3>6. Heard(a) = Played[j + 1][c]
      BY <3>3, <3>5
    <3>7. Played[j + 1] = Delay!Delayed(Len(played) + f + 1)
      BY <1>4, <1>16, <3>4
    <3> QED
      BY <2>2, <3>6, <3>7 DEF a
  <2> QED
    BY <2>3, <2>4
<1>17. PlaybackInv'
  <2> SUFFICES ASSUME failures' = 0, call' # NoCall, PlaybackLayouts \subseteq {"planar"},
                      NEW c \in Channel, NEW f \in 0 .. call'.processed - 1
               PROVE  call'.playback[Address(call'.output, c, f)] =
                        Delay!Delayed(Len(played') + f + 1)[c]
    BY DEF PlaybackInv
  <2>1. f \in 0 .. p + k - 1
    <3> DEFINE q == p + k
    <3>1. call'.processed = q
      BY <1>7
    <3> HIDE DEF q
    <3>2. f \in 0 .. q - 1
      BY <3>1
    <3>3. q = p + k /\ p \in Nat /\ k \in Nat
      BY <1>2, <1>4 DEF q
    <3> HIDE DEF p, k
    <3>4. q - 1 = p + k - 1
      BY <3>3
    <3> QED
      BY <3>2, <3>4
  <2>2. failures = 0
    BY <1>1
  <2>3. new[Address(call.output, c, f)] = Delay!Delayed(Len(played) + f + 1)[c]
    BY <1>16, <2>1, <2>2
  <2> QED
    BY <1>1, <1>7, <2>3
<1> QED
  BY <1>11, <1>12, <1>13, <1>14, <1>15, <1>17 DEF IInv

\* The frames a call returns, read from the host's memory.
Output ==
  [i \in 1 .. call.numFrames |->
     [c \in Channel |-> call.playback[Address(call.output, c, i - 1)]]]

LEMMA OutputFacts ==
  ASSUME IInv, call # NoCall
  PROVE  /\ Output \in Seq([Channel -> Sample]) /\ Len(Output) = call.numFrames
         /\ failures = 0 /\ call.processed = call.numFrames
              /\ PlaybackLayouts \subseteq {"planar"} =>
                Output = [i \in 1 .. call.numFrames |-> Delay!Delayed(Len(played) + i)]
<1> DEFINE n == call.numFrames
           Sound(i) == [c \in Channel |-> call.playback[Address(call.output, c, i - 1)]]
<1>1. n \in Nat /\ call.playback \in Memory(n)
  BY CallFacts DEF IInv
<1>2. PICK out \in Layouts : call.output = Strides(out, n)
  BY CallFacts, Constants DEF IInv
<1> HIDE DEF n
<1>3. ASSUME NEW i \in 1 .. n
      PROVE  Sound(i) \in [Channel -> Sample]
  <2>1. i - 1 \in 0 .. n - 1
    BY <1>1
  <2>2. ASSUME NEW c \in Channel
        PROVE  call.playback[Address(call.output, c, i - 1)] \in Sample
    <3> DEFINE a == Address(call.output, c, i - 1)
    <3>1. a \in 0 .. Channels * n - 1
      BY <1>1, <1>2, <2>1, Addresses
    <3> HIDE DEF a
    <3>2. call.playback[a] \in Sample
      BY <1>1, <3>1 DEF Memory
    <3> QED
      BY <3>2 DEF a
  <2> QED
    BY <2>2
<1>4. Output = [i \in 1 .. n |-> Sound(i)]
  BY DEF Output, n
<1>5. ASSUME failures = 0, call.processed = n, PlaybackLayouts \subseteq {"planar"},
             NEW i \in 1 .. n
      PROVE  Sound(i) = Delay!Delayed(Len(played) + i)
  <2> DEFINE m == Len(played)
             j == i - 1
  <2>1. j \in 0 .. n - 1 /\ m + j + 1 = m + i
    <3>1. m \in Nat
      BY DEF IInv, Typed
    <3> HIDE DEF m
    <3> QED
      BY <1>1, <3>1
  <2> HIDE DEF j
  <2>2. ASSUME NEW c \in Channel
        PROVE  call.playback[Address(call.output, c, j)] = Delay!Delayed(m + j + 1)[c]
    <3>1. j \in 0 .. call.processed - 1
      BY <1>5, <2>1
    <3> QED
      BY <1>5, <3>1 DEF IInv, PlaybackInv
  <2>3. [c \in Channel |-> call.playback[Address(call.output, c, j)]] =
          [c \in Channel |-> Delay!Delayed(m + i)[c]]
    BY <2>1, <2>2
  <2>4. [c \in Channel |-> Delay!Delayed(m + i)[c]] = Delay!Delayed(m + i)
    BY FrameFacts DEF Delay!Delayed
  <2> QED
    BY <2>3, <2>4 DEF j
<1> HIDE DEF Sound
<1>6. Output \in Seq([Channel -> Sample]) /\ Len(Output) = n
  BY <1>1, <1>3, <1>4
<1>7. failures = 0 /\ call.processed = n /\ PlaybackLayouts \subseteq {"planar"} =>
        Output = [i \in 1 .. n |-> Delay!Delayed(Len(played) + i)]
  BY <1>4, <1>5
<1> QED
  BY <1>6, <1>7 DEF n

\* A call returns when all its frames are captured and played.
LEMMA ReturnKeeps ==
  ASSUME IInv, Return
  PROVE  IInv'
<1> DEFINE n == call.numFrames
           m == Len(played)
<1>1. /\ call.at = "head" /\ call # NoCall /\ call.processed = n /\ call' = NoCall
      /\ played' = IF failures = 0 THEN played \o Output ELSE played
      /\ UNCHANGED <<mInputBuffer, mOutputBuffer, levels, captured, fed, failures>>
  BY DEF Return, NoCall, Output
<1>2. /\ Output \in Seq([Channel -> Sample]) /\ Len(Output) = n
      /\ played \in Seq([Channel -> Sample]) /\ captured \in Nat
      /\ n \in Nat
  BY <1>1, OutputFacts, CallFacts, Constants DEF IInv, Typed
<1>3. InHand = 0 /\ InHand' = 0
  BY <1>1 DEF InHand, NoCall
<1>4. Start' = captured /\ Start = captured - n
  <2>1. Start = captured - (n + 0) /\ Start' = captured - 0
    BY <1>1, <1>3 DEF Start
  <2> HIDE DEF n
  <2> QED
    BY <1>2, <2>1
<1>5. played' \in Seq([Channel -> Sample]) /\ (failures = 0 => Len(played') = m + n)
  <2> DEFINE longer == played \o Output
  <2> HIDE DEF n
  <2>1. longer \in Seq([Channel -> Sample]) /\ Len(longer) = Len(played) + Len(Output)
    BY <1>2, ConcatProperties
  <2> HIDE DEF longer
  <2> QED
    BY <1>1, <1>2, <2>1 DEF longer
<1>6. Typed'
  BY <1>1, <1>5 DEF IInv, Typed, levels
<1>7. LevelInv'
  BY <1>1, <1>3 DEF IInv, LevelInv, levels, NoCall
<1>8. InputInv' /\ FedInOrder' /\ OutputInv'
  BY <1>1 DEF IInv, InputInv, FedInOrder, OutputInv, levels
<1>9. PlayedInv'
  <2>1. failures = 0 => m = captured - n
    BY <1>4 DEF IInv, PlayedInv
  <2> HIDE DEF m, n
  <2>2. failures = 0 => Len(played') = captured
    BY <1>2, <1>5, <2>1
  <2> QED
    BY <1>1, <1>4, <2>2 DEF PlayedInv
<1>10. CallInv' /\ PlaybackInv'
  BY <1>1 DEF CallInv, PlaybackInv
<1> QED
  BY <1>6, <1>7, <1>8, <1>9, <1>10 DEF IInv

LEMMA StepInvariant == IInv /\ [Next]_vars => IInv'
<1> SUFFICES ASSUME IInv, [Next]_vars PROVE IInv'
  OBVIOUS
<1>1. CASE \E n \in FrameCounts, in \in CaptureLayouts, out \in PlaybackLayouts :
             Call(n, in, out)
  BY <1>1, CallKeeps
<1>2. CASE CaptureChunk
  BY <1>2, CaptureChunkKeeps
<1>3. CASE ProcessPeriod
  BY <1>3, ProcessPeriodKeeps
<1>4. CASE PlayChunk
  BY <1>4, PlayChunkKeeps
<1>5. CASE Return
  BY <1>5, ReturnKeeps
<1>6. CASE FlowThrows
  BY <1>6, FlowThrowsKeeps
<1>7. CASE UNCHANGED vars
  <2>1. UNCHANGED <<mInputBuffer, mOutputBuffer, mInputBufferLevel, mOutputBufferLevel,
                    call, captured, fed, played, failures>>
    BY <1>7 DEF vars, levels
  <2>2. InHand' = InHand
    BY <2>1 DEF InHand
  <2>3. Start' = Start
    BY <2>1, <2>2 DEF Start
  <2>4. Typed' /\ InputInv' /\ FedInOrder' /\ OutputInv'
    BY <2>1 DEF IInv, Typed, InputInv, FedInOrder, OutputInv
  <2>5. CallInv' /\ LevelInv' /\ PlayedInv' /\ PlaybackInv'
    BY <2>1, <2>2, <2>3 DEF IInv, CallInv, LevelInv, PlayedInv, PlaybackInv
  <2> QED
    BY <2>4, <2>5 DEF IInv
<1> QED
  BY <1>1, <1>2, <1>3, <1>4, <1>5, <1>6, <1>7 DEF Next, Loop

-----------------------------------------------------------------------------
(* Theorems.                                                               *)

\* The rings hold the captured and the delayed frames at the levels of process(),
\* whatever the host asks for and however often the flow throws.
THEOREM Inductive == Spec => []IInv
<1>1. Init => IInv
  BY InitInvariant
<1>2. IInv /\ [Next]_vars => IInv'
  BY StepInvariant
<1> QED
  BY <1>1, <1>2, PTL DEF Spec

\* The state of the wrapper has its type: its levels stay within the period and
\* the counters of a call within the frames the host has asked for.
THEOREM TypeCorrectness == Spec => []TypeOK
<1>1. IInv => TypeOK
  BY TypesOfInvariant DEF IInv
<1> QED
  BY <1>1, Inductive, PTL

\* The flow gets every captured frame exactly once and in order: process() leaves
\* the period an exception has interrupted in the input buffer for the next call.
THEOREM EveryFrameFedOnce == Spec => []FedInOrder
<1>1. IInv => FedInOrder
  BY DEF IInv
<1> QED
  BY <1>1, Inductive, PTL

\* As long as the flow has not thrown, both assertions of process() hold.
LEMMA AssertionsOfInvariant == IInv /\ failures = 0 => AssertionsHold
<1> SUFFICES ASSUME IInv, failures = 0 PROVE AssertionsHold
  OBVIOUS
<1>1. /\ mInputBufferLevel \in 0 .. Period /\ mOutputBufferLevel \in Nat /\ Period \in Nat
      /\ mOutputBuffer.length = 2 * Period
  BY Constants DEF IInv, Typed, Ring
<1>2. /\ mOutputBufferLevel = Period - mInputBufferLevel + InHand
      /\ mInputBufferLevel = Period => call.at = "flow"
  BY DEF IInv, LevelInv
<1>3. InHand \in 0 .. Period
  <2>1. CASE call = NoCall
    BY <1>1, <2>1 DEF InHand, NoCall
  <2>2. CASE call # NoCall
    BY <1>1, <2>2, CallFacts DEF InHand, IInv
  <2> QED
    BY <2>1, <2>2
<1>4. mOutputBufferLevel <= 2 * Period
  BY <1>1, <1>2, <1>3
<1>5. call.at = "head" => mInputBufferLevel < Period
  BY <1>1, <1>2
<1> QED
  BY <1>1, <1>4, <1>5 DEF AssertionsHold

\* The assertions at the head of the loop and in getReadPointer() are never
\* violated if the flow does not throw; after an exception they are.
THEOREM AssertionsWithoutFailures == MaxFailures = 0 => (Spec => []AssertionsHold)
<1> SUFFICES ASSUME MaxFailures = 0 PROVE Spec => []AssertionsHold
  OBVIOUS
<1>1. IInv => AssertionsHold
  <2>1. IInv => failures = 0
    BY DEF IInv, Typed
  <2> QED
    BY <2>1, AssertionsOfInvariant
<1> QED
  BY <1>1, Inductive, PTL

\* A returning call delivers what the delay does.
LEMMA ReturnPlays ==
  ASSUME IInv, Return, PlaybackLayouts \subseteq {"planar"}
  PROVE  [Delay!Next]_played
<1>1. /\ call # NoCall /\ call.processed = call.numFrames
      /\ played' = IF failures = 0 THEN played \o Output ELSE played
  BY DEF Return, NoCall, Output
<1>2. CASE failures = 0
  <2>1. played' = played \o [i \in 1 .. call.numFrames |-> Delay!Delayed(Len(played) + i)]
    BY <1>1, <1>2, OutputFacts
  <2>2. call.numFrames \in FrameCounts
    BY <1>1, CallFacts DEF IInv
  <2> QED
    BY <2>1, <2>2 DEF Delay!Next, Delay!Play
<1>3. CASE failures # 0
  BY <1>1, <1>3
<1> QED
  BY <1>2, <1>3

\* The host gets the stream of the flow one period late, for every sequence of
\* calls of process(), if it asks for planar output.
THEOREM DelayedByOnePeriod ==
  PlaybackLayouts \subseteq {"planar"} => (Spec => OnePeriodLatency)
<1> SUFFICES ASSUME PlaybackLayouts \subseteq {"planar"} PROVE Spec => OnePeriodLatency
  OBVIOUS
<1>1. Init => Delay!Init
  BY DEF Init, Delay!Init
<1>2. IInv /\ [Next]_vars => [Delay!Next]_played
  <2> SUFFICES ASSUME IInv, [Next]_vars PROVE [Delay!Next]_played
    OBVIOUS
  <2>1. CASE Return
    BY <2>1, ReturnPlays
  <2>2. CASE UNCHANGED vars
    BY <2>2 DEF vars
  <2>3. CASE /\ Next
             /\ ~ Return
    <3>1. played' = played
      BY <2>3 DEF Next, Loop, Call, CaptureChunk, ProcessPeriod, PlayChunk, FlowThrows
    <3> QED
      BY <3>1
  <2> QED
    BY <2>1, <2>2, <2>3
<1> QED
  BY <1>1, <1>2, Inductive, PTL DEF Spec, OnePeriodLatency, Delay!Spec
=============================================================================
