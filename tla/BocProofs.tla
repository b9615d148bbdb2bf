----------------------------- MODULE BocProofs ------------------------------
(***************************************************************************)
(* The byte level of bags of cells, for every stream: whatever is sent and *)
(* wherever it is cut, what the cells hold lies in the stream              *)
(* (CellsInStream), and the bytes are taken for the cells they were made   *)
(* of (TreeIsItems).                                                       *)
(***************************************************************************)
EXTENDS BocBytes, Counting, SequenceTheorems

-----------------------------------------------------------------------------
(***************************************************************************)
(* What was sent, byte by byte.                                            *)
(***************************************************************************)
Bytes == 0 .. 255

IsHeader(h) ==
  {h.first, h.offset_size, h.cells_count, h.roots_count} \subseteq Bytes

IsCellSent(c) ==
  /\ c.d1 \in Bytes /\ c.d2 \in Bytes /\ c.data \in Seq(Bytes) /\ c.refs \in Seq(Bytes)
  /\ Len(c.data) = c.d2 \div 2 + (c.d2 % 2) /\ Len(c.refs) = c.d1 % 8

IsSent(s) ==
  /\ IsHeader(s.header) /\ s.cut \in Nat /\ Len(s.cells) \in Nat
  /\ \A i \in 1 .. Len(s.cells) : IsCellSent(s.cells[i])

LEMMA StreamsAreSent == \A s \in Streams : IsSent(s)
  <1> SUFFICES ASSUME NEW s \in Streams PROVE IsSent(s)
    OBVIOUS
  <1>1. IsHeader(s.header) /\ s.cut \in Nat /\ Len(s.cells) \in Nat
    BY StreamsAssumption DEF IsHeader, Bytes
  <1>2. ASSUME NEW i \in 1 .. Len(s.cells) PROVE IsCellSent(s.cells[i])
    <2> DEFINE c == s.cells[i]
    <2>1. /\ {c.d1, c.d2} \subseteq 0 .. 255 /\ AreBytes(c.data) /\ AreBytes(c.refs)
          /\ Len(c.data) = c.d2 \div 2 + (c.d2 % 2) /\ Len(c.refs) = c.d1 % 8
      BY StreamsAssumption
    <2> HIDE DEF c
    <2>2. IsCellSent(c)
      BY <2>1 DEF IsCellSent, AreBytes, Bytes
    <2> QED
      BY <2>2 DEF c
  <1> QED
    BY <1>1, <1>2 DEF IsSent

LEMMA Joined ==
  ASSUME NEW S, NEW a \in Seq(S), NEW b \in Seq(S)
  PROVE  /\ a \o b \in Seq(S) /\ Len(a \o b) = Len(a) + Len(b)
         /\ \A k \in 1 .. Len(a) : (a \o b)[k] = a[k]
         /\ \A k \in 1 .. Len(b) : (a \o b)[Len(a) + k] = b[k]
  <1>1. Len(a) \in Nat /\ Len(b) \in Nat
    OBVIOUS
  <1>2. a \o b \in Seq(S) /\ Len(a \o b) = Len(a) + Len(b)
    OBVIOUS
  <1>3. ASSUME NEW k \in 1 .. Len(a)
        PROVE  (a \o b)[k] = a[k]
    BY <1>1
  <1>4. ASSUME NEW k \in 1 .. Len(b)
        PROVE  (a \o b)[Len(a) + k] = b[k]
    <2>1. Len(a) + k \in 1 .. Len(a) + Len(b) /\ ~(Len(a) + k <= Len(a))
          /\ Len(a) + k - Len(a) = k
      BY <1>1
    <2> QED
      BY <2>1
  <1> QED
    BY <1>2, <1>3, <1>4

HeaderLaid(h, text) ==
  /\ text \in Seq(Bytes)
  /\ Len(text) = 5 + h.offset_size + h.roots_count
  /\ text[1] = h.first /\ text[2] = h.offset_size
  /\ text[3] = h.cells_count /\ text[4] = h.roots_count

LEMMA HeaderBytes ==
  ASSUME NEW h, IsHeader(h)
  PROVE  HeaderLaid(h, EncodeHeader(h))
  <1> DEFINE five  == <<h.first, h.offset_size, h.cells_count, h.roots_count, 0>>
             sizes == [i \in 1 .. h.offset_size |-> 0]
             root  == [i \in 1 .. h.roots_count |-> 0]
  <1>1. five \in Seq(Bytes) /\ Len(five) = 5
    BY DEF IsHeader, Bytes
  <1>2. h.offset_size \in Nat /\ h.roots_count \in Nat /\ 0 \in Bytes
    BY DEF IsHeader, Bytes
  <1>3. sizes \in Seq(Bytes) /\ Len(sizes) = h.offset_size
    BY <1>2
  <1>4. root \in Seq(Bytes) /\ Len(root) = h.roots_count
    BY <1>2
  <1>5. /\ five[1] = h.first /\ five[2] = h.offset_size
        /\ five[3] = h.cells_count /\ five[4] = h.roots_count
    OBVIOUS
  <1>6. EncodeHeader(h) = (five \o sizes) \o root
    BY DEF EncodeHeader
  <1> HIDE DEF five, sizes, root
  <1>7. /\ five \o sizes \in Seq(Bytes) /\ Len(five \o sizes) = Len(five) + Len(sizes)
        /\ \A k \in 1 .. Len(five) : (five \o sizes)[k] = five[k]
    BY <1>1, <1>3, Joined
  <1> DEFINE front == five \o sizes
  <1> HIDE DEF front
  <1>8. /\ front \o root \in Seq(Bytes) /\ Len(front \o root) = Len(front) + Len(root)
        /\ \A k \in 1 .. Len(front) : (front \o root)[k] = front[k]
    <2>1. front \in Seq(Bytes)
      BY <1>7 DEF front
    <2> QED
      BY <1>4, <2>1, Joined
  <1>9. /\ Len(front) = 5 + h.offset_size
        /\ \A k \in {1, 2, 3, 4} : front[k] = five[k]
    BY <1>1, <1>3, <1>7 DEF front
  <1>10. /\ Len(front \o root) = 5 + h.offset_size + h.roots_count
         /\ \A k \in {1, 2, 3, 4} : (front \o root)[k] = five[k]
    BY <1>2, <1>4, <1>8, <1>9
  <1> QED
    BY <1>5, <1>6, <1>8, <1>10 DEF HeaderLaid, front

CellLaid(c, text) ==
  /\ text \in Seq(Bytes)
  /\ Len(text) = 2 + Len(c.data) + Len(c.refs)
  /\ text[1] = c.d1 /\ text[2] = c.d2
  /\ \A k \in 1 .. Len(c.data) : text[2 + k] = c.data[k]
  /\ \A k \in 1 .. Len(c.refs) : text[2 + Len(c.data) + k] = c.refs[k]

LEMMA CellBytes ==
  ASSUME NEW c, IsCellSent(c)
  PROVE  CellLaid(c, EncodeCell(c))
  <1> DEFINE two == <<c.d1, c.d2>>
             front == two \o c.data
  <1>1. two \in Seq(Bytes) /\ Len(two) = 2 /\ two[1] = c.d1 /\ two[2] = c.d2
    BY DEF IsCellSent
  <1>2. c.data \in Seq(Bytes) /\ c.refs \in Seq(Bytes)
    BY DEF IsCellSent
  <1> HIDE DEF two
  <1>3. /\ front \in Seq(Bytes) /\ Len(front) = Len(two) + Len(c.data)
        /\ \A k \in 1 .. Len(two) : front[k] = two[k]
        /\ \A k \in 1 .. Len(c.data) : front[Len(two) + k] = c.data[k]
    BY <1>1, <1>2, Joined
  <1>4. EncodeCell(c) = front \o c.refs
    BY DEF EncodeCell, two
  <1> HIDE DEF front
  <1>5. /\ front \o c.refs \in Seq(Bytes) /\ Len(front \o c.refs) = Len(front) + Len(c.refs)
        /\ \A k \in 1 .. Len(front) : (front \o c.refs)[k] = front[k]
        /\ \A k \in 1 .. Len(c.refs) : (front \o c.refs)[Len(front) + k] = c.refs[k]
    <2> DEFINE refs == c.refs
    <2>1. front \in Seq(Bytes) /\ refs \in Seq(Bytes)
      BY <1>2, <1>3
    <2> HIDE DEF refs
    <2>2. /\ front \o refs \in Seq(Bytes) /\ Len(front \o refs) = Len(front) + Len(refs)
          /\ \A k \in 1 .. Len(front) : (front \o refs)[k] = front[k]
          /\ \A k \in 1 .. Len(refs) : (front \o refs)[Len(front) + k] = refs[k]
      BY <2>1, Joined
    <2> QED
      BY <2>2 DEF refs
  <1>6. Len(c.data) \in Nat /\ Len(c.refs) \in Nat /\ Len(front) = 2 + Len(c.data)
    BY <1>1, <1>2, <1>3
  <1>7. /\ EncodeCell(c)[1] = c.d1 /\ EncodeCell(c)[2] = c.d2
        /\ \A k \in 1 .. Len(c.data) : EncodeCell(c)[2 + k] = c.data[k]
    <2>1. /\ \A k \in 1 .. 2 : k \in 1 .. Len(front)
          /\ \A k \in 1 .. Len(c.data) : 2 + k \in 1 .. Len(front)
      BY <1>6
    <2> QED
      BY <1>1, <1>3, <1>4, <1>5, <2>1
  <1>8. \A k \in 1 .. Len(c.refs) : EncodeCell(c)[2 + Len(c.data) + k] = c.refs[k]
    BY <1>4, <1>5, <1>6
  <1> QED
    BY <1>4, <1>5, <1>6, <1>7, <1>8 DEF CellLaid

\* upto, as its recursion says.
IsUpTo(s, upto) ==
  /\ upto \in [0 .. Len(s.cells) -> Seq(Bytes)]
  /\ upto[0] = EncodeHeader(s.header)
  /\ \A i \in 1 .. Len(s.cells) : upto[i] = upto[i - 1] \o EncodeCell(s.cells[i])

LEMMA BytesAreUpTo ==
  ASSUME NEW s, IsSent(s)
  PROVE  IsUpTo(s, BytesUpTo(s))
  <1> DEFINE n == Len(s.cells)
             base == EncodeHeader(s.header)
             code == [i \in 1 .. n |-> EncodeCell(s.cells[i])]
             Is(f) == f = [i \in 0 .. n |-> IF i = 0 THEN base
                                            ELSE f[i - 1] \o EncodeCell(s.cells[i])]
  <1>1. BytesUpTo(s) = CHOOSE f : Is(f)
    BY DEF BytesUpTo
  <1>2. n \in Nat /\ base \in Seq(Bytes) /\ \A i \in 1 .. n : EncodeCell(s.cells[i]) \in Seq(Bytes)
    <2>1. n \in Nat /\ IsHeader(s.header) /\ \A i \in 1 .. n : IsCellSent(s.cells[i])
      BY DEF IsSent
    <2> QED
      BY <2>1, HeaderBytes, CellBytes DEF HeaderLaid, CellLaid
  <1> HIDE DEF base
  <1>3. \E f : Is(f)
    <2> DEFINE step == [i \in 1 .. n |-> [v \in Seq(Bytes) |-> v \o EncodeCell(s.cells[i])]]
    <2>1. step \in [1 .. n -> [Seq(Bytes) -> Seq(Bytes)]]
      <3>1. \A i \in 1 .. n, v \in Seq(Bytes) : v \o EncodeCell(s.cells[i]) \in Seq(Bytes)
        BY <1>2, ConcatProperties
      <3> QED
        BY <3>1
    <2>2. \A v \in Seq(Bytes), i \in 1 .. n : step[i][v] = v \o EncodeCell(s.cells[i])
      OBVIOUS
    <2> HIDE DEF step, n
    <2>3. PICK f : Iterated(f, Seq(Bytes), n, base, step)
      BY <1>2, <2>1, Iterates, Zenon
    <2>4. ASSUME NEW i \in 0 .. n, i # 0
          PROVE  f[i] = f[i - 1] \o EncodeCell(s.cells[i])
      <3>1. i \in 1 .. n /\ i - 1 \in 0 .. n
        BY <1>2, <2>4
      <3>2. f[i - 1] \in Seq(Bytes) /\ f[i] = step[i][f[i - 1]]
        BY <2>3, <3>1 DEF Iterated
      <3> QED
        BY <2>2, <3>1, <3>2
    <2>5. f \in [0 .. n -> Seq(Bytes)] /\ f[0] = base
      BY <2>3 DEF Iterated
    <2>6. Is(f)
      BY <2>4, <2>5
    <2> QED
      BY <2>6
  <1>4. PICK u : Is(u) /\ u = CHOOSE f : Is(f)
    <2> HIDE DEF Is
    <2> QED
      BY <1>3
  <1> HIDE DEF n
  <1>5. /\ u[0] = base
        /\ \A i \in 1 .. n : u[i] = u[i - 1] \o EncodeCell(s.cells[i])
    <2>1. u = [i \in 0 .. n |-> IF i = 0 THEN base ELSE u[i - 1] \o EncodeCell(s.cells[i])]
      BY <1>4
    <2>2. 0 \in 0 .. n /\ \A i \in 1 .. n : i \in 0 .. n /\ i # 0
      BY <1>2
    <2> QED
      BY <2>1, <2>2
  <1>6. \A i \in 0 .. n : u[i] \in Seq(Bytes)
    <2> DEFINE T == {i \in Nat : i <= n => u[i] \in Seq(Bytes)}
    <2>1. 0 \in T
      BY <1>2, <1>5
    <2>2. ASSUME NEW i \in Nat, i \in T
          PROVE  i + 1 \in T
      <3> SUFFICES ASSUME i + 1 <= n PROVE u[i + 1] \in Seq(Bytes)
        OBVIOUS
      <3>1. u[i] \in Seq(Bytes) /\ i + 1 \in 1 .. n /\ (i + 1) - 1 = i
        BY <1>2, <2>2
      <3>2. u[i + 1] = u[i] \o EncodeCell(s.cells[i + 1])
        BY <1>5, <3>1
      <3>3. EncodeCell(s.cells[i + 1]) \in Seq(Bytes)
        BY <1>2, <3>1
      <3> QED
        BY <3>1, <3>2, <3>3, ConcatProperties
    <2>3. T \in SUBSET Nat
      OBVIOUS
    <2> HIDE DEF T
    <2>4. T = Nat
      BY <2>1, <2>2, <2>3, EveryCount
    <2> QED
      BY <1>2, <2>4 DEF T
  <1>7. u \in [0 .. n -> Seq(Bytes)]
    BY <1>4, <1>6
  <1>8. BytesUpTo(s) = u
    BY <1>1, <1>4
  <1> HIDE DEF Is
  <1> QED
    BY <1>5, <1>7, <1>8 DEF IsUpTo, n, base

\* The bytes up to a cell are the first of the bytes up to a later one.
LEMMA UpToGrows ==
  ASSUME NEW s, NEW u, IsUpTo(s, u), Len(s.cells) \in Nat,
         \A i \in 1 .. Len(s.cells) : EncodeCell(s.cells[i]) \in Seq(Bytes),
         NEW i \in 0 .. Len(s.cells)
  PROVE  \A j \in i .. Len(s.cells) :
           /\ Len(u[i]) <= Len(u[j])
           /\ \A k \in 1 .. Len(u[i]) : u[j][k] = u[i][k]
  <1> DEFINE n == Len(s.cells)
             Grown(j) == /\ Len(u[i]) <= Len(u[j])
                         /\ \A k \in 1 .. Len(u[i]) : u[j][k] = u[i][k]
             T == {d \in Nat : i + d <= n => Grown(i + d)}
  <1>1. \A j \in 0 .. n : u[j] \in Seq(Bytes) /\ Len(u[j]) \in Nat
    BY DEF IsUpTo
  <1>2. i \in Nat /\ n \in Nat /\ i <= n
    OBVIOUS
  <1>3. 0 \in T
    <2>1. i + 0 = i /\ Len(u[i]) \in Nat
      BY <1>1, <1>2
    <2> QED
      BY <2>1
  <1>4. ASSUME NEW d \in Nat, d \in T
        PROVE  d + 1 \in T
    <2> SUFFICES ASSUME i + (d + 1) <= n PROVE Grown(i + (d + 1))
      OBVIOUS
    <2> DEFINE j == i + d
    <2>1. j \in 0 .. n /\ j + 1 \in 1 .. n /\ i + (d + 1) = j + 1 /\ (j + 1) - 1 = j
      BY <1>2
    <2>2. Grown(j)
      BY <1>2, <1>4
    <2> HIDE DEF j
    <2> DEFINE code == EncodeCell(s.cells[j + 1])
    <2>3. u[j + 1] = u[j] \o code
      BY <2>1 DEF IsUpTo
    <2>4. u[j] \in Seq(Bytes) /\ code \in Seq(Bytes) /\ Len(u[i]) \in Nat
      BY <1>1, <2>1
    <2> HIDE DEF code
    <2>5. /\ Len(u[j] \o code) = Len(u[j]) + Len(code)
          /\ \A k \in 1 .. Len(u[j]) : (u[j] \o code)[k] = u[j][k]
      BY <2>4, Joined
    <2>6. Len(u[j]) \in Nat /\ Len(code) \in Nat
      BY <2>4
    <2>7. Len(u[i]) <= Len(u[j + 1])
      BY <2>2, <2>3, <2>4, <2>5, <2>6
    <2>8. ASSUME NEW k \in 1 .. Len(u[i])
          PROVE  u[j + 1][k] = u[i][k]
      <3>1. k \in 1 .. Len(u[j])
        BY <2>2, <2>4, <2>6
      <3> QED
        BY <2>2, <2>3, <2>5, <3>1
    <2> QED
      BY <2>1, <2>7, <2>8
  <1>5. T = Nat
    <2>1. T \in SUBSET Nat
      OBVIOUS
    <2> HIDE DEF T
    <2> QED
      BY <1>3, <1>4, <2>1, EveryCount
  <1> HIDE DEF Grown
  <1>6. ASSUME NEW j \in i .. n
        PROVE  Grown(j)
    <2>1. j - i \in Nat /\ i + (j - i) = j /\ j <= n
      BY <1>2
    <2>2. j - i \in T
      BY <1>5, <2>1
    <2> QED
      BY <2>1, <2>2
  <1> QED
    BY <1>6 DEF Grown

(***************************************************************************)
(* A stream s as it is sent, and the bytes str that are left of it: the    *)
(* header, and at the place of each cell its bytes.                        *)
(***************************************************************************)
Begins(s, i) == Len(BytesUpTo(s)[i - 1])

IsLaid(s, str) ==
  /\ Len(str) \in Nat
  /\ \A k \in 1 .. Len(EncodeHeader(s.header)) :
       k <= Len(str) => str[k] = EncodeHeader(s.header)[k]
  /\ Begins(s, 1) = Len(EncodeHeader(s.header))
  /\ \A i \in 1 .. Len(s.cells) :
       /\ Begins(s, i) \in Nat
       /\ Begins(s, i + 1) = Begins(s, i) + Len(EncodeCell(s.cells[i]))
       /\ \A k \in 1 .. Len(EncodeCell(s.cells[i])) :
            Begins(s, i) + k <= Len(str) =>
              str[Begins(s, i) + k] = EncodeCell(s.cells[i])[k]
  /\ \A i, j \in 1 .. Len(s.cells) + 1 : i <= j => Begins(s, i) <= Begins(s, j)
  /\ Len(str) <= Begins(s, Len(s.cells) + 1)

LEMMA StreamIsLaid ==
  ASSUME NEW s, IsSent(s)
  PROVE  IsLaid(s, Encode(s)) /\ Encode(s) \in Seq(Bytes)
  <1> DEFINE n == Len(s.cells)
             u == BytesUpTo(s)
             all == u[n]
             str == Encode(s)
  <1>1. IsUpTo(s, u)
    BY BytesAreUpTo
  <1>2. n \in Nat /\ \A i \in 1 .. n : EncodeCell(s.cells[i]) \in Seq(Bytes)
    <2>1. n \in Nat /\ \A i \in 1 .. n : IsCellSent(s.cells[i])
      BY DEF IsSent
    <2> QED
      BY <2>1, CellBytes DEF CellLaid
  <1> HIDE DEF u
  <1>3. \A i \in 0 .. n : u[i] \in Seq(Bytes) /\ Len(u[i]) \in Nat
    BY <1>1 DEF IsUpTo
  <1>4. \A i \in 0 .. n : \A j \in i .. n :
          Len(u[i]) <= Len(u[j]) /\ \A k \in 1 .. Len(u[i]) : u[j][k] = u[i][k]
    BY <1>1, <1>2, UpToGrows
  <1>5. /\ str \in Seq(Bytes) /\ Len(str) <= Len(all)
        /\ \A k \in 1 .. Len(str) : str[k] = all[k]
    <2>1. all \in Seq(Bytes) /\ Len(all) \in Nat /\ s.cut \in Nat
      BY <1>2, <1>3 DEF IsSent
    <2>2. str = IF s.cut < Len(all) THEN SubSeq(all, 1, s.cut) ELSE all
      BY DEF Encode, u
    <2> HIDE DEF all, str
    <2>3. CASE s.cut < Len(all)
      <3>1. \A k \in 1 .. s.cut : all[k] \in Bytes
        BY <2>1, <2>3
      <3> DEFINE cut == s.cut
      <3>2. cut \in Nat
        BY <2>1
      <3> HIDE DEF cut
      <3>3. /\ SubSeq(all, 1, cut) \in Seq(Bytes) /\ Len(SubSeq(all, 1, cut)) = cut
            /\ \A k \in 1 .. cut : SubSeq(all, 1, cut)[k] = all[k]
        BY <2>1, <2>3, <3>1, <3>2 DEF cut
      <3> QED
        BY <2>1, <2>2, <2>3, <3>3 DEF cut
    <2>4. CASE ~(s.cut < Len(all))
      BY <2>1, <2>2, <2>4
    <2> QED
      BY <2>3, <2>4
  <1> HIDE DEF str
  <1>6. Len(str) \in Nat
    BY <1>5
  <1>7. \A i \in 1 .. n + 1 : Begins(s, i) = Len(u[i - 1]) /\ i - 1 \in 0 .. n
    BY <1>2 DEF Begins, u
  <1>8. u[0] = EncodeHeader(s.header)
    BY <1>1 DEF IsUpTo
  <1>9. \A k \in 1 .. Len(EncodeHeader(s.header)) :
          k <= Len(str) => str[k] = EncodeHeader(s.header)[k]
    <2> SUFFICES ASSUME NEW k \in 1 .. Len(u[0]), k <= Len(str) PROVE str[k] = u[0][k]
      BY <1>8
    <2>1. 0 \in 0 .. n /\ n \in 0 .. n
      BY <1>2
    <2>2. k \in 1 .. Len(str)
      BY <1>6
    <2> QED
      BY <1>4, <1>5, <2>1, <2>2
  <1>10. Begins(s, 1) = Len(EncodeHeader(s.header))
    BY <1>2, <1>7, <1>8
  <1>11. ASSUME NEW i \in 1 .. n
         PROVE  /\ Begins(s, i) \in Nat
                /\ Begins(s, i + 1) = Begins(s, i) + Len(EncodeCell(s.cells[i]))
                /\ \A k \in 1 .. Len(EncodeCell(s.cells[i])) :
                     Begins(s, i) + k <= Len(str) =>
                       str[Begins(s, i) + k] = EncodeCell(s.cells[i])[k]
    <2> DEFINE code == EncodeCell(s.cells[i])
               front == u[i - 1]
    <2>1. /\ i - 1 \in 0 .. n /\ i \in 0 .. n /\ n \in i .. n
          /\ i \in 1 .. n + 1 /\ i + 1 \in 1 .. n + 1 /\ (i + 1) - 1 = i
      BY <1>2
    <2>2. u[i] = front \o code
      BY <1>1 DEF IsUpTo
    <2>3. front \in Seq(Bytes) /\ code \in Seq(Bytes)
      BY <1>2, <1>3, <2>1
    <2>4. Begins(s, i) = Len(front) /\ Begins(s, i + 1) = Len(u[i])
      BY <1>7, <2>1
    <2> HIDE DEF front, code
    <2>5. /\ Len(front \o code) = Len(front) + Len(code)
          /\ \A k \in 1 .. Len(code) : (front \o code)[Len(front) + k] = code[k]
      BY <2>3, Joined
    <2>6. Len(front) \in Nat /\ Len(code) \in Nat
      BY <2>3
    <2>7. ASSUME NEW k \in 1 .. Len(code), Len(front) + k <= Len(str)
          PROVE  str[Len(front) + k] = code[k]
      <3> DEFINE at == Len(front) + k
      <3>1. at \in 1 .. Len(u[i]) /\ at \in 1 .. Len(str)
        BY <1>6, <2>2, <2>5, <2>6, <2>7
      <3>2. u[i][at] = code[k]
        BY <2>2, <2>5
      <3> HIDE DEF at
      <3>3. str[at] = u[n][at] /\ u[n][at] = u[i][at]
        BY <1>4, <1>5, <2>1, <3>1
      <3> QED
        BY <3>2, <3>3 DEF at
    <2> QED
      BY <2>2, <2>4, <2>5, <2>6, <2>7 DEF code
  <1>12. ASSUME NEW i \in 1 .. n + 1, NEW j \in 1 .. n + 1, i <= j
         PROVE  Begins(s, i) <= Begins(s, j)
    <2>1. i - 1 \in 0 .. n /\ j - 1 \in (i - 1) .. n
      BY <1>2, <1>12
    <2> QED
      BY <1>4, <1>7, <2>1
  <1>13. Len(str) <= Begins(s, n + 1)
    <2>1. n + 1 \in 1 .. n + 1 /\ (n + 1) - 1 = n
      BY <1>2
    <2> QED
      BY <1>5, <1>7, <2>1
  <1> QED
    BY <1>5, <1>6, <1>9, <1>10, <1>11, <1>12, <1>13 DEF IsLaid, str

-----------------------------------------------------------------------------
(***************************************************************************)
(* One cell: what both deserialize_cell, of the bytes and of the item,     *)
(* find in the cell c when left bytes of the stream remain.                *)
(***************************************************************************)
CodeSize(c) == 2 + Len(c.data) + Len(c.refs)

LEMMA CellTyped ==
  ASSUME NEW c, IsCellSent(c)
  PROVE  /\ c.d1 \in Bytes /\ c.d2 \in Bytes
         /\ Len(c.data) \in Nat /\ Len(c.refs) \in Nat /\ CodeSize(c) \in Nat
         /\ \A r \in 1 .. Len(c.refs) : c.refs[r] \in Nat
         /\ c.refs = << >> <=> Len(c.refs) = 0
  <1>1. ASSUME NEW text \in Seq(Bytes)
        PROVE  /\ Len(text) \in Nat
               /\ \A r \in 1 .. Len(text) : text[r] \in Nat
               /\ text = << >> <=> Len(text) = 0
    <2>1. Len(text) \in Nat /\ \A r \in 1 .. Len(text) : text[r] \in Bytes
      OBVIOUS
    <2>2. text = << >> <=> Len(text) = 0
      BY EmptySeq
    <2>3. \A v \in Bytes : v \in Nat
      BY DEF Bytes
    <2>4. \A r \in 1 .. Len(text) : text[r] \in Nat
      BY <2>1, <2>3
    <2> QED
      BY <2>1, <2>2, <2>4
  <1>2. c.data \in Seq(Bytes) /\ c.refs \in Seq(Bytes) /\ c.d1 \in Bytes /\ c.d2 \in Bytes
    BY DEF IsCellSent
  <1> DEFINE data == c.data
             refs == c.refs
  <1>3. /\ Len(data) \in Nat /\ Len(refs) \in Nat
        /\ \A r \in 1 .. Len(refs) : refs[r] \in Nat
        /\ refs = << >> <=> Len(refs) = 0
    <2>1. data \in Seq(Bytes) /\ refs \in Seq(Bytes)
      BY <1>2
    <2> HIDE DEF data, refs
    <2> QED
      BY <1>1, <2>1
  <1>4. CodeSize(c) \in Nat
    <2> HIDE DEF data, refs
    <2>1. 2 + Len(data) + Len(refs) \in Nat
      BY <1>3
    <2> QED
      BY <2>1 DEF CodeSize, data, refs
  <1> QED
    BY <1>2, <1>3, <1>4

Sound(c, left, index, cells_left) ==
  /\ left > 1
  /\ c.d1 = PRUNED_BRANCH_D1 \/ (c.d1 \div 8) % 4 = 0
  /\ Len(c.refs) <= MAX_REFERENCES_COUNT
  /\ c.d1 = PRUNED_BRANCH_D1 => Len(c.data) = PRUNED_BRANCH_DATA_SIZE
  /\ \A r \in 1 .. Len(c.refs) : c.refs[r] <= cells_left /\ c.refs[r] > index
  /\ Len(c.refs) > 0 => left >= CodeSize(c)

LEMMA ItemSize ==
  ASSUME NEW c, IsCellSent(c), NEW left
  PROVE  DataSize(CellItem(c, left)) = Len(c.data)
  <1> DEFINE fields == <<Fld(4 * c.d2, c.data)>>
  <1>1. fields = CellItem(c, left).data
    BY DEF CellItem
  <1>2. c.d2 \in 0 .. 255
    BY DEF IsCellSent, Bytes
  <1>3. Len(fields) = 1 /\ fields[1].w = 4 * c.d2
    BY DEF Fld
  <1>4. 4 * c.d2 \in Nat
    BY <1>2
  <1> HIDE DEF fields
  <1>5. \A i \in 1 .. Len(fields) : fields[i].w \in Nat
    BY <1>3, <1>4
  <1>6. PICK u : AddedUp(u, fields) /\ BitsOf(fields) = u[Len(fields)]
    <2>1. Len(fields) \in Nat
      BY <1>3
    <2> QED
      BY <1>5, <2>1, BitsAddUp
  <1>7. BitsOf(fields) = 4 * c.d2
    <2>1. u[0] = 0 /\ u[1] = u[1 - 1] + 4 * c.d2
      BY <1>3, <1>6 DEF AddedUp
    <2> QED
      BY <1>3, <1>4, <1>6, <2>1
  <1>8. (4 * c.d2 + 7) \div 8 = c.d2 \div 2 + (c.d2 % 2)
    BY <1>2
  <1> QED
    BY <1>1, <1>7, <1>8 DEF DataSize, BitLen, IsCellSent

LEMMA ItemVerdict ==
  ASSUME NEW c, IsCellSent(c), NEW left \in Nat, left > 0,
         NEW index \in Nat, NEW cells_left \in Nat
  PROVE  deserialize_cell(CellItem(c, left), index, cells_left)
           = IF ~Sound(c, left, index, cells_left) THEN "ERR_INVALID_CELL"
             ELSE IF left < CodeSize(c) THEN "ERR_END_OF_STREAM" ELSE SUCCESS
  <1> DEFINE item == CellItem(c, left)
  <1>1. DataSize(item) = Len(c.data)
    BY ItemSize
  <1>2. Len(EncodeCell(c)) = CodeSize(c)
    BY CellBytes DEF CellLaid, CodeSize
  <1>3. /\ Len(c.data) \in Nat /\ Len(c.refs) \in Nat /\ CodeSize(c) \in Nat
        /\ \A r \in 1 .. Len(c.refs) : c.refs[r] \in Nat
        /\ c.refs = << >> <=> Len(c.refs) = 0
    BY CellTyped
  <1>4. item.refs = c.refs /\ (item.kind = "cell" <=> left # 1)
    BY DEF CellItem
  <1>5. item.whole <=> left >= CodeSize(c)
    BY <1>2 DEF CellItem
  <1>6. /\ item.type = "pruned" <=> c.d1 = PRUNED_BRANCH_D1
        /\ item.type \in {"ordinary", "pruned"}
             <=> c.d1 = PRUNED_BRANCH_D1 \/ (c.d1 \div 8) % 4 = 0
    BY DEF CellItem
  <1> HIDE DEF item
  <1>7. Sound(c, left, index, cells_left)
          <=> ~(\/ item.kind # "cell"
                \/ item.type \notin {"ordinary", "pruned"}
                \/ Len(item.refs) > MAX_REFERENCES_COUNT
                \/ item.type = "pruned" /\ DataSize(item) # PRUNED_BRANCH_DATA_SIZE
                \/ \E r \in 1 .. Len(item.refs) :
                      item.refs[r] > cells_left \/ item.refs[r] <= index
                \/ ~item.whole /\ item.refs # << >>)
    <2>1. left > 1 <=> item.kind = "cell"
      BY <1>4
    <2>2. Len(c.refs) <= MAX_REFERENCES_COUNT <=> ~(Len(item.refs) > MAX_REFERENCES_COUNT)
      BY <1>3, <1>4 DEF MAX_REFERENCES_COUNT
    <2>3. (\A r \in 1 .. Len(c.refs) : c.refs[r] <= cells_left /\ c.refs[r] > index)
            <=> ~\E r \in 1 .. Len(item.refs) :
                   item.refs[r] > cells_left \/ item.refs[r] <= index
      BY <1>3, <1>4
    <2>4. (Len(c.refs) > 0 => left >= CodeSize(c)) <=> ~(~item.whole /\ item.refs # << >>)
      BY <1>3, <1>4, <1>5
    <2> QED
      BY <1>1, <1>6, <2>1, <2>2, <2>3, <2>4 DEF Sound
  <1>8. left < CodeSize(c) <=> ~item.whole
    BY <1>3, <1>5
  <1> QED
    BY <1>7, <1>8 DEF deserialize_cell, item

(***************************************************************************)
(* Cell m + 1 begins in the stream, at the byte after at.                  *)
(***************************************************************************)
AtCell(m, at) ==
  /\ IsSent(sent) /\ stream = Encode(sent)
  /\ m \in Nat /\ m < Len(sent.cells)
  /\ at = Begins(sent, m + 1) /\ at < Len(stream)

Stands(c, left, at, m) ==
  /\ IsCellSent(c) /\ left \in Nat /\ left > 0
  /\ at \in Nat /\ Len(stream) \in Nat /\ left = Len(stream) - at
  /\ stream[at + 1] = c.d1 /\ (left > 1 => stream[at + 2] = c.d2)
  /\ \A k \in 1 .. Len(c.data) :
       left >= 2 + k => stream[at + 2 + k] = c.data[k]
  /\ \A r \in 1 .. Len(c.refs) :
       left >= 2 + Len(c.data) + r => stream[at + 2 + Len(c.data) + r] = c.refs[r]
  /\ Begins(sent, m + 2) = at + CodeSize(c)

LEMMA CellHere ==
  ASSUME NEW m, NEW at, AtCell(m, at)
  PROVE  Stands(sent.cells[m + 1], Len(stream) - at, at, m)
  <1> DEFINE c == sent.cells[m + 1]
             left == Len(stream) - at
             code == EncodeCell(c)
  <1>1. m + 1 \in 1 .. Len(sent.cells) /\ (m + 1) + 1 = m + 2
    BY DEF AtCell, IsSent
  <1>2. IsCellSent(c)
    BY <1>1 DEF AtCell, IsSent
  <1>3. CellLaid(c, code) /\ Len(code) = CodeSize(c)
    BY <1>2, CellBytes DEF CellLaid, CodeSize
  <1>4. IsLaid(sent, stream)
    BY StreamIsLaid DEF AtCell
  <1>5. /\ at \in Nat /\ Len(stream) \in Nat
        /\ Begins(sent, m + 2) = at + Len(code)
        /\ \A k \in 1 .. Len(code) :
             at + k <= Len(stream) => stream[at + k] = code[k]
    BY <1>1, <1>4 DEF IsLaid, AtCell
  <1> HIDE DEF c, code
  <1>6. left \in Nat /\ left > 0 /\ \A k \in Nat : left >= k <=> at + k <= Len(stream)
    BY <1>5 DEF AtCell
  <1> HIDE DEF left
  <1>7. Len(c.data) \in Nat /\ Len(c.refs) \in Nat
    BY <1>2, CellTyped
  <1>8. stream[at + 1] = c.d1 /\ (left > 1 => stream[at + 2] = c.d2)
    <2>1. 1 \in 1 .. Len(code) /\ 2 \in 1 .. Len(code)
      <3> DEFINE d == Len(c.data)
                 e == Len(c.refs)
      <3>1. d \in Nat /\ e \in Nat /\ Len(code) = 2 + d + e
        BY <1>3, <1>7 DEF CodeSize
      <3> HIDE DEF d, e
      <3> QED
        BY <3>1
    <2>2. at + 1 <= Len(stream) /\ (left > 1 => at + 2 <= Len(stream))
      BY <1>5, <1>6
    <2> QED
      BY <1>3, <1>5, <2>1, <2>2 DEF CellLaid
  <1>9. ASSUME NEW k \in 1 .. Len(c.data), left >= 2 + k
        PROVE  stream[at + 2 + k] = c.data[k]
    <2>1. 2 + k \in 1 .. Len(code) /\ at + (2 + k) = at + 2 + k /\ 2 + k \in Nat
      <3> DEFINE d == Len(c.data)
                 r == Len(c.refs)
      <3>1. d \in Nat /\ r \in Nat /\ Len(code) = 2 + d + r /\ k \in 1 .. d
        BY <1>3, <1>7 DEF CodeSize
      <3> HIDE DEF d, r
      <3> QED
        BY <1>5, <3>1
    <2>2. stream[at + (2 + k)] = code[2 + k]
      BY <1>5, <1>6, <1>9, <2>1
    <2> QED
      BY <1>3, <2>1, <2>2 DEF CellLaid
  <1>10. ASSUME NEW r \in 1 .. Len(c.refs), left >= 2 + Len(c.data) + r
         PROVE  stream[at + 2 + Len(c.data) + r] = c.refs[r]
    <2> DEFINE k == 2 + Len(c.data) + r
    <2>1. k \in 1 .. Len(code) /\ at + k = at + 2 + Len(c.data) + r /\ k \in Nat
      <3> DEFINE d == Len(c.data)
                 e == Len(c.refs)
      <3>1. d \in Nat /\ e \in Nat /\ Len(code) = 2 + d + e /\ r \in 1 .. e
        BY <1>3, <1>7 DEF CodeSize
      <3> HIDE DEF d, e
      <3>2. 2 + d + r \in 1 .. Len(code) /\ at + (2 + d + r) = at + 2 + d + r
        BY <1>5, <3>1
      <3>3. 2 + d + r \in Nat
        BY <3>1
      <3> QED
        BY <3>2, <3>3 DEF d
    <2>2. code[k] = c.refs[r]
      BY <1>3 DEF CellLaid
    <2> HIDE DEF k
    <2>3. stream[at + k] = code[k]
      BY <1>5, <1>6, <1>10, <2>1 DEF k
    <2> QED
      BY <2>1, <2>2, <2>3
  <1> QED
    BY <1>2, <1>3, <1>5, <1>6, <1>8, <1>9, <1>10 DEF Stands, c, left

\* The classes of d1.
LEMMA Classes ==
  ASSUME NEW d1 \in 0 .. 255
  PROVE  /\ (d1 \div 16) % 2 = 1 <=> (d1 \div 8) % 4 \in {2, 3}
         /\ (d1 \div 8) % 2 = 1 <=> (d1 \div 8) % 4 \in {1, 3}
         /\ (d1 \div 8) % 4 \in 0 .. 3
  <1> DEFINE q == d1 \div 8
  <1>1. q \in 0 .. 31 /\ d1 \div 16 = q \div 2
    OBVIOUS
  <1> HIDE DEF q
  <1>2. /\ (q \div 2) % 2 = 1 <=> q % 4 \in {2, 3}
        /\ q % 2 = 1 <=> q % 4 \in {1, 3}
        /\ q % 4 \in 0 .. 3
    BY <1>1
  <1> QED
    BY <1>1, <1>2 DEF q

LEMMA CellVerdict ==
  ASSUME NEW c, NEW left, NEW m \in Nat, Stands(c, left, offset, m), count \in Nat
  PROVE  /\ CellValid(m) <=> Sound(c, left, m, count)
         /\ left > 1 => /\ data_size = Len(c.data) /\ rc = Len(c.refs)
                        /\ cell_size = CodeSize(c)
                        /\ Available(cell_size) <=> left >= CodeSize(c)
  <1>1. /\ IsCellSent(c) /\ left \in Nat /\ left > 0 /\ offset \in Nat
        /\ left = Len(stream) - offset /\ Len(stream) \in Nat
        /\ get_d1 = c.d1 /\ (left > 1 => get_d2 = c.d2)
        /\ \A r \in 1 .. Len(c.refs) :
             left >= 2 + Len(c.data) + r => stream[offset + 2 + Len(c.data) + r] = c.refs[r]
    BY DEF Stands, get_d1, get_d2
  <1>2. c.d1 \in 0 .. 255 /\ Len(c.data) \in Nat /\ Len(c.refs) \in Nat
        /\ \A r \in 1 .. Len(c.refs) : c.refs[r] \in Nat
    BY <1>1, CellTyped DEF Bytes
  <1>3. rc = Len(c.refs) /\ (left > 1 => data_size = Len(c.data))
    BY <1>1 DEF rc, data_size, IsCellSent
  <1>4. left > 1 => cell_size = CodeSize(c) /\ (Available(cell_size) <=> left >= CodeSize(c))
    <2>1. left > 1 => cell_size = CodeSize(c)
      BY <1>3 DEF cell_size, CodeSize, CELL_DATA_OFFSET
    <2>2. CodeSize(c) \in Nat
      BY <1>1, CellTyped
    <2>3. Available(CodeSize(c)) <=> left >= CodeSize(c)
      BY <1>1, <2>2 DEF Available
    <2> QED
      BY <2>1, <2>3
  <1>5. (~hashes /\ (exotic => get_d1 = PRUNED_BRANCH_D1))
          <=> (c.d1 = PRUNED_BRANCH_D1 \/ (c.d1 \div 8) % 4 = 0)
    <2>1. /\ (c.d1 \div 16) % 2 = 1 <=> (c.d1 \div 8) % 4 \in {2, 3}
          /\ (c.d1 \div 8) % 2 = 1 <=> (c.d1 \div 8) % 4 \in {1, 3}
          /\ (c.d1 \div 8) % 4 \in 0 .. 3
      BY <1>2, Classes
    <2>2. c.d1 = 40 => (c.d1 \div 8) % 4 = 1
      OBVIOUS
    <2> DEFINE class == (c.d1 \div 8) % 4
    <2>3. /\ hashes <=> class \in {2, 3}
          /\ exotic <=> class \in {1, 3}
          /\ class \in 0 .. 3 /\ (c.d1 = 40 => class = 1)
      BY <1>1, <2>1, <2>2 DEF hashes, exotic
    <2> HIDE DEF class
    <2>4. (~hashes /\ (exotic => get_d1 = PRUNED_BRANCH_D1))
            <=> (c.d1 = PRUNED_BRANCH_D1 \/ class = 0)
      BY <1>1, <2>3 DEF PRUNED_BRANCH_D1
    <2> QED
      BY <2>4 DEF class
  <1>6. left > 1 =>
          ((\A r \in 1 .. rc : RefValid(r, m))
             <=> /\ \A r \in 1 .. Len(c.refs) : c.refs[r] <= count /\ c.refs[r] > m
                 /\ Len(c.refs) > 0 => left >= CodeSize(c))
    <2> SUFFICES ASSUME left > 1
                 PROVE  (\A r \in 1 .. rc : RefValid(r, m))
                          <=> /\ \A r \in 1 .. Len(c.refs) : c.refs[r] <= count /\ c.refs[r] > m
                              /\ Len(c.refs) > 0 => left >= CodeSize(c)
      OBVIOUS
    <2>1. ASSUME NEW r \in 1 .. Len(c.refs)
          PROVE  RefValid(r, m) <=> /\ left >= 2 + Len(c.data) + r
                                    /\ c.refs[r] <= count /\ c.refs[r] > m
      <3>1. left > 2 + Len(c.data) + r - 1 <=> left >= 2 + Len(c.data) + r
        BY <1>1, <1>2
      <3>2. left >= 2 + Len(c.data) + r => ref(r) = c.refs[r]
        BY <1>1, <1>3 DEF ref, CELL_DATA_OFFSET
      <3> QED
        BY <1>1, <1>3, <3>1, <3>2 DEF RefValid, Cell_get_length, CELL_DATA_OFFSET
    <2>2. (\A r \in 1 .. Len(c.refs) : left >= 2 + Len(c.data) + r)
            <=> (Len(c.refs) > 0 => left >= CodeSize(c))
      <3> DEFINE d == Len(c.data)
                 e == Len(c.refs)
      <3>1. d \in Nat /\ e \in Nat /\ CodeSize(c) = 2 + d + e
        BY <1>2 DEF CodeSize
      <3> HIDE DEF d, e
      <3>2. (\A r \in 1 .. e : left >= 2 + d + r) <=> (e > 0 => left >= 2 + d + e)
        BY <1>1, <3>1
      <3> QED
        BY <3>1, <3>2 DEF d, e
    <2> QED
      BY <1>3, <2>1, <2>2
  <1>7. CellValid(m) <=> Sound(c, left, m, count)
    <2>1. Cell_get_length = left
      BY <1>1 DEF Cell_get_length
    <2>2. CASE ~(left > 1)
      BY <2>1, <2>2 DEF CellValid, Sound
    <2>3. CASE left > 1
      BY <1>1, <1>3, <1>5, <1>6, <2>1, <2>3 DEF CellValid, Sound
    <2> QED
      BY <2>2, <2>3
  <1> QED
    BY <1>3, <1>4, <1>7

-----------------------------------------------------------------------------
(***************************************************************************)
(* The tree of the items that were sent.                                   *)
(***************************************************************************)
\* What deserialize_cell finds in item i + 1.
CodeOf(i) ==
  IF i >= MAX_CONTRACT_CELLS_COUNT THEN "ERR_INVALID_CONTRACT"
  ELSE deserialize_cell(CellItem(sent.cells[i + 1], Len(stream) - Begins(sent, i + 1)), i,
                        sent.header.cells_count)

Result == deserialize_cells_tree(ZeroBoc, ItemsSent)

\* The first b cells begin in the stream.
FirstBegun(b) ==
  /\ b \in 0 .. Len(sent.cells)
  /\ \A i \in 1 .. Len(sent.cells) : i <= b <=> Begins(sent, i) < Len(stream)

LEMMA SomeBegun ==
  ASSUME IsSent(sent), stream = Encode(sent)
  PROVE  \E b : FirstBegun(b)
  <1> DEFINE n == Len(sent.cells)
             begun == {i \in 1 .. n : Begins(sent, i) < Len(stream)}
  <1>1. n \in Nat /\ IsLaid(sent, stream)
    BY StreamIsLaid DEF IsSent
  <1>2. CASE begun = {}
    <2>1. FirstBegun(0)
      BY <1>1, <1>2 DEF FirstBegun
    <2> QED
      BY <2>1
  <1>3. CASE begun # {}
    <2>1. begun \in SUBSET (0 .. n)
      BY <1>1
    <2> DEFINE b == Max(begun)
    <2>2. b \in begun /\ \A i \in begun : i <= b
      <3> HIDE DEF begun, n
      <3> QED
        BY <1>1, <1>3, <2>1, Greatest
    <2>3. b \in 1 .. n /\ Begins(sent, b) < Len(stream)
      BY <2>2
    <2>4. ASSUME NEW i \in 1 .. n, Begins(sent, i) < Len(stream) PROVE i <= b
      BY <2>2, <2>4
    <2> HIDE DEF b
    <2>5. ASSUME NEW i \in 1 .. n, i <= b PROVE Begins(sent, i) < Len(stream)
      <3>1. i \in 1 .. n + 1 /\ b \in 1 .. n + 1
        BY <1>1, <2>3
      <3>2. Begins(sent, i) <= Begins(sent, b) /\ Begins(sent, i) \in Nat
            /\ Begins(sent, b) \in Nat /\ Len(stream) \in Nat
        BY <1>1, <2>3, <2>5, <3>1 DEF IsLaid
      <3> QED
        BY <2>3, <3>2
    <2>6. FirstBegun(b)
      BY <1>1, <2>3, <2>4, <2>5 DEF FirstBegun
    <2> QED
      BY <2>6
  <1> QED
    BY <1>2, <1>3

ItemsAre(b) ==
  /\ Len(ItemsSent) = b + 1 /\ Head(ItemsSent) = HeaderItem(sent.header)
  /\ \A i \in 1 .. b :
       ItemsSent[i + 1] = CellItem(sent.cells[i], Len(stream) - Begins(sent, i))
  /\ \A m \in 0 .. b :
       /\ Len(SubSeq(ItemsSent, 2, m + 1)) = m
       /\ DOMAIN SubSeq(ItemsSent, 2, m + 1) = 1 .. m
       /\ \A i \in 1 .. m : SubSeq(ItemsSent, 2, m + 1)[i] = ItemsSent[i + 1]

LEMMA Preceded ==
  ASSUME NEW S, NEW h, <<h>> \in Seq(S), NEW a \in Seq(S)
  PROVE  /\ <<h>> \o a \in Seq(S) /\ Len(<<h>> \o a) = 1 + Len(a)
         /\ (<<h>> \o a)[1] = h
         /\ \A i \in 1 .. Len(a) : (<<h>> \o a)[1 + i] = a[i]
  <1> DEFINE one == <<h>>
  <1>1. one \in Seq(S) /\ Len(one) = 1 /\ one[1] = h /\ 1 \in 1 .. 1
    OBVIOUS
  <1> HIDE DEF one
  <1>2. /\ one \o a \in Seq(S) /\ Len(one \o a) = Len(one) + Len(a)
        /\ \A i \in 1 .. Len(one) : (one \o a)[i] = one[i]
        /\ \A i \in 1 .. Len(a) : (one \o a)[Len(one) + i] = a[i]
    BY <1>1, Joined
  <1>3. /\ one \o a \in Seq(S) /\ Len(one \o a) = 1 + Len(a)
        /\ (one \o a)[1] = h /\ \A i \in 1 .. Len(a) : (one \o a)[1 + i] = a[i]
    BY <1>1, <1>2
  <1> QED
    BY <1>3 DEF one

LEMMA ItemsBegun ==
  ASSUME NEW b, FirstBegun(b), IsSent(sent)
  PROVE  ItemsAre(b)
  <1> DEFINE n == Len(sent.cells)
             item == [i \in 1 .. b |-> CellItem(sent.cells[i], Len(stream) - Begins(sent, i))]
             header == HeaderItem(sent.header)
             S == {header} \cup {item[i] : i \in 1 .. b}
  <1>1. b \in Nat /\ n \in Nat /\ b <= n
    BY DEF FirstBegun, IsSent
  <1>2. {i \in 1 .. n : BeginOf(i) < Len(stream)} = 1 .. b
    BY <1>1 DEF FirstBegun, BeginOf, Begins
  <1>3. ItemsSent = <<header>> \o item
    BY <1>2 DEF ItemsSent, BeginOf, Begins
  <1>4. \A i \in 1 .. b : item[i] = CellItem(sent.cells[i], Len(stream) - Begins(sent, i))
    OBVIOUS
  <1>5. item \in Seq(S) /\ Len(item) = b
    <2>1. item \in [1 .. b -> S]
      OBVIOUS
    <2>2. DOMAIN item = 1 .. b
      OBVIOUS
    <2> HIDE DEF item, S
    <2> QED
      BY <1>1, <2>1, <2>2, SeqDef
  <1>6. <<header>> \in Seq(S) /\ Len(<<header>>) = 1 /\ <<header>>[1] = header
    <2>1. header \in S
      OBVIOUS
    <2> HIDE DEF header, S
    <2> QED
      BY <2>1
  <1> HIDE DEF item, header, S
  <1>7. /\ ItemsSent \in Seq(S) /\ Len(ItemsSent) = 1 + b
        /\ ItemsSent[1] = header
        /\ \A i \in 1 .. b : ItemsSent[1 + i] = item[i]
    BY <1>3, <1>5, <1>6, Preceded
  <1> DEFINE all == ItemsSent
  <1>8. ASSUME NEW m \in 0 .. b
        PROVE  /\ Len(SubSeq(all, 2, m + 1)) = m
               /\ DOMAIN SubSeq(all, 2, m + 1) = 1 .. m
               /\ \A i \in 1 .. m : SubSeq(all, 2, m + 1)[i] = all[i + 1]
    <2>1. all \in Seq(S) /\ Len(all) = 1 + b /\ m \in Nat /\ m <= b
      BY <1>1, <1>7
    <2> HIDE DEF all
    <2>2. \A i \in 2 .. m + 1 : all[i] \in S
      BY <1>1, <2>1
    <2>3. /\ SubSeq(all, 2, m + 1) \in Seq(S)
          /\ Len(SubSeq(all, 2, m + 1)) = m
          /\ \A i \in 1 .. m : SubSeq(all, 2, m + 1)[i] = all[2 + i - 1]
      BY <2>1, <2>2, SubSeqProperties
    <2>4. \A i \in 1 .. m : 2 + i - 1 = i + 1
      OBVIOUS
    <2>5. DOMAIN SubSeq(all, 2, m + 1) = 1 .. m
      BY <2>3, LenProperties
    <2> QED
      BY <2>3, <2>4, <2>5
  <1>9. Head(ItemsSent) = ItemsSent[1]
    BY <1>1, <1>7, HeadTailProperties
  <1>10. \A i \in 1 .. b : i + 1 = 1 + i
    OBVIOUS
  <1>11. 1 + b = b + 1
    BY <1>1
  <1> QED
    BY <1>4, <1>7, <1>8, <1>9, <1>10, <1>11 DEF ItemsAre, header

HeaderGood ==
  /\ sent.header.first < 32 /\ sent.header.first % 8 = 1
  /\ sent.header.offset_size \in 1 .. 8
  /\ sent.header.roots_count = MAX_ROOTS_COUNT

LEMMA HeaderIsItem == HeaderOk(HeaderItem(sent.header)) <=> HeaderGood
  BY DEF HeaderOk, HeaderItem, HeaderGood

(***************************************************************************)
(* The tree by the number of cells that are read: an error in its header,  *)
(* no cell of those it declares, an error in the first bad cell, or none.  *)
(***************************************************************************)
LEMMA TreeOf ==
  ASSUME NEW b, FirstBegun(b), IsSent(sent),
         NEW read, read = IF sent.header.cells_count < b THEN sent.header.cells_count ELSE b
  PROVE  /\ ~HeaderGood => Result.err = "ERR_INVALID_CONTRACT"
         /\ HeaderGood =>
              /\ sent.header.cells_count > 0 /\ read = 0 => Result.err = "ERR_INVALID_CELL"
              /\ \A m \in 0 .. read - 1 :
                   /\ CodeOf(m) # SUCCESS
                   /\ \A i \in 0 .. m - 1 : CodeOf(i) = SUCCESS
                   => Result.err = CodeOf(m)
              /\ /\ \A i \in 0 .. read - 1 : CodeOf(i) = SUCCESS
                 /\ sent.header.cells_count > 0 => read > 0
                 => /\ Result.err = SUCCESS
                    /\ Result.bc.cells = SubSeq(ItemsSent, 2, read + 1)
  <1> DEFINE src == ItemsSent
             cells_sent == Head(src).cells_count
             CodeAt(i) == IF i >= MAX_CONTRACT_CELLS_COUNT THEN "ERR_INVALID_CONTRACT"
                          ELSE deserialize_cell(src[i + 2], i, cells_sent)
             bad == {i \in 0 .. read - 1 : CodeAt(i) # SUCCESS}
  <1>1. ItemsAre(b) /\ b \in Nat /\ sent.header.cells_count \in Nat
    <2>1. sent.header.cells_count \in 0 .. 255
      BY DEF IsSent, IsHeader, Bytes
    <2>2. ItemsAre(b)
      BY ItemsBegun
    <2>3. b \in Nat
      BY DEF FirstBegun, IsSent
    <2>4. sent.header.cells_count \in Nat
      BY <2>1
    <2> QED
      BY <2>2, <2>3, <2>4
  <1>2. /\ Head(src) = HeaderItem(sent.header) /\ Len(src) - 1 = b
        /\ cells_sent = sent.header.cells_count
    BY <1>1 DEF ItemsAre, HeaderItem
  <1>3. read \in Nat /\ read <= b
    BY <1>1
  <1>4. \A i \in 0 .. read - 1 : CodeAt(i) = CodeOf(i)
    <2> SUFFICES ASSUME NEW i \in 0 .. read - 1 PROVE CodeAt(i) = CodeOf(i)
      OBVIOUS
    <2>1. i + 1 \in 1 .. b /\ (i + 1) + 1 = i + 2
      BY <1>1, <1>3
    <2>2. src[i + 2] = CellItem(sent.cells[i + 1], Len(stream) - Begins(sent, i + 1))
      BY <1>1, <2>1 DEF ItemsAre
    <2> QED
      BY <1>2, <2>2 DEF CodeOf
  <1>5. Result = IF ~HeaderOk(Head(src))
                 THEN [bc |-> ZeroBoc, err |-> "ERR_INVALID_CONTRACT"]
                 ELSE [bc |-> [ZeroBoc EXCEPT !.cells = SubSeq(src, 2, read + 1)],
                       err |-> IF bad # {} THEN CodeAt(Min(bad))
                               ELSE IF cells_sent > 0 /\ read = 0 THEN "ERR_INVALID_CELL"
                               ELSE SUCCESS]
    BY <1>2 DEF Result, deserialize_cells_tree, CellsRead
  <1>6. HeaderOk(Head(src)) <=> HeaderGood
    BY <1>2, HeaderIsItem
  <1> HIDE DEF src, cells_sent, CodeAt
  <1>7. ASSUME ~HeaderGood PROVE Result.err = "ERR_INVALID_CONTRACT"
    BY <1>5, <1>6, <1>7
  <1>8. ASSUME HeaderGood
        PROVE  /\ Result.bc.cells = SubSeq(src, 2, read + 1)
               /\ Result.err = IF bad # {} THEN CodeAt(Min(bad))
                               ELSE IF cells_sent > 0 /\ read = 0 THEN "ERR_INVALID_CELL"
                               ELSE SUCCESS
    <2>1. [ZeroBoc EXCEPT !.cells = SubSeq(src, 2, read + 1)].cells = SubSeq(src, 2, read + 1)
      BY DEF ZeroBoc
    <2> HIDE DEF bad
    <2> QED
      BY <1>5, <1>6, <1>8, <2>1
  <1>9. ASSUME HeaderGood, sent.header.cells_count > 0, read = 0
        PROVE  Result.err = "ERR_INVALID_CELL"
    <2>1. bad = {}
      BY <1>9
    <2> QED
      BY <1>2, <1>8, <1>9, <2>1
  <1>10. ASSUME HeaderGood, NEW m \in 0 .. read - 1, CodeOf(m) # SUCCESS,
                \A i \in 0 .. m - 1 : CodeOf(i) = SUCCESS
         PROVE  Result.err = CodeOf(m)
    <2>1. m \in bad
      BY <1>4, <1>10
    <2>2. ASSUME NEW i \in bad PROVE m <= i
      <3>1. i \in 0 .. read - 1 /\ CodeOf(i) # SUCCESS
        BY <1>4, <2>2
      <3>2. i \notin 0 .. m - 1
        BY <1>10, <3>1
      <3> QED
        BY <1>3, <3>1, <3>2
    <2>3. \A x \in bad : x \in Int
      BY <1>3
    <2>4. Min(bad) = m
      <3> HIDE DEF bad
      <3>1. \A x \in bad : (\A y \in bad : x =< y) => x = m
        BY <2>1, <2>2, <2>3
      <3> QED
        BY <2>1, <2>2, <3>1 DEF Min
    <2> HIDE DEF bad
    <2> QED
      BY <1>4, <1>8, <1>10, <2>1, <2>4
  <1>11. ASSUME HeaderGood, \A i \in 0 .. read - 1 : CodeOf(i) = SUCCESS,
                sent.header.cells_count > 0 => read > 0
         PROVE  /\ Result.err = SUCCESS
                /\ Result.bc.cells = SubSeq(src, 2, read + 1)
    <2>1. bad = {}
      BY <1>4, <1>11
    <2>2. ~(cells_sent > 0 /\ read = 0)
      BY <1>2, <1>3, <1>11
    <2> QED
      BY <1>8, <1>11, <2>1, <2>2
  <1> QED
    BY <1>7, <1>9, <1>10, <1>11 DEF src

-----------------------------------------------------------------------------
(***************************************************************************)
(* The inductive invariant.  In the header the cursor stands where the     *)
(* stage says and what is read so far was good; after it, the first m      *)
(* cells are read, each was whole and sound, and the cursor stands at the  *)
(* next; what is thrown is what the tree of the items throws.              *)
(***************************************************************************)
HeaderSize == Len(EncodeHeader(sent.header))

FirstGood  == sent.header.first < 32 /\ sent.header.first % 8 = 1
OffsetGood == FirstGood /\ sent.header.offset_size \in 1 .. 8
Counted    == count = sent.header.cells_count

HeaderStage ==
  \/ next \in {"init", "first"} /\ offset = 0
  \/ next = "offset_size" /\ offset = 1 /\ FirstGood
  \/ next = "cells_count" /\ offset = 2 /\ OffsetGood
  \/ next = "roots_count" /\ offset = 3 /\ OffsetGood /\ Counted
  \/ next = "absent_count" /\ offset = 4 /\ HeaderGood /\ Counted
  \/ next = "total_cells_size" /\ offset = 5 /\ HeaderGood /\ Counted
  \/ next = "roots" /\ offset = 5 + sent.header.offset_size /\ HeaderGood /\ Counted

WholeCells(m) ==
  /\ HeaderGood /\ Counted
  /\ m <= Len(sent.cells) /\ m <= count /\ m <= MAX_CONTRACT_CELLS_COUNT
  /\ offset = Begins(sent, m + 1)
  /\ \A i \in 1 .. m : cells[i].begin = Begins(sent, i) /\ CodeOf(i - 1) = SUCCESS

CellStage ==
  \/ next = "cell" /\ Len(cells) < count /\ (Len(cells) = 0 \/ offset < Len(stream))
  \/ next = "done" /\ (Len(cells) = count \/ (Len(cells) > 0 /\ offset = Len(stream)))

IsCut == Len(stream) < HeaderSize

ThrownStage == next = "thrown" /\ (IsCut \/ Result.err = err)

Placed ==
  /\ IsSent(sent) /\ stream = Encode(sent)
  /\ offset \in Nat /\ offset <= Len(stream)
  /\ count \in Nat
  /\ cells \in Seq([begin : Nat, length : Nat])

BocInv ==
  /\ Placed
  /\ \/ HeaderStage /\ cells = << >>
     \/ CellStage /\ WholeCells(Len(cells))
     \/ ThrownStage /\ (cells = << >> \/ WholeCells(Len(cells)))

LEMMA HeaderFacts ==
  ASSUME Placed
  PROVE  LET h == sent.header
         IN  /\ {h.first, h.offset_size, h.cells_count, h.roots_count} \subseteq Nat
             /\ Len(stream) \in Nat
             /\ HeaderSize = 5 + h.offset_size + h.roots_count
             /\ Begins(sent, 1) = HeaderSize
             /\ 1 <= Len(stream) => stream[1] = h.first
             /\ 2 <= Len(stream) => stream[2] = h.offset_size
             /\ 3 <= Len(stream) => stream[3] = h.cells_count
             /\ 4 <= Len(stream) => stream[4] = h.roots_count
  <1> DEFINE h == sent.header
             head == EncodeHeader(sent.header)
  <1>1. {h.first, h.offset_size, h.cells_count, h.roots_count} \subseteq 0 .. 255
    BY DEF Placed, IsSent, IsHeader, Bytes
  <1>2. IsLaid(sent, stream)
    BY StreamIsLaid DEF Placed
  <1>3. HeaderLaid(h, head)
    BY HeaderBytes DEF Placed, IsSent
  <1>4. /\ Len(stream) \in Nat /\ Begins(sent, 1) = Len(head)
        /\ \A k \in 1 .. Len(head) : k <= Len(stream) => stream[k] = head[k]
    BY <1>2 DEF IsLaid
  <1>5. HeaderSize = Len(head)
    BY DEF HeaderSize
  <1> HIDE DEF h, head
  <1>6. /\ Len(head) = 5 + h.offset_size + h.roots_count
        /\ head[1] = h.first /\ head[2] = h.offset_size
        /\ head[3] = h.cells_count /\ head[4] = h.roots_count
    BY <1>3 DEF HeaderLaid
  <1>7. {h.first, h.offset_size, h.cells_count, h.roots_count} \subseteq Nat
    <2>1. \A n \in 0 .. 255 : n \in Nat
      OBVIOUS
    <2> QED
      BY <1>1, <2>1, Zenon
  <1>8. Len(head) \in Nat /\ Len(head) >= 5
    <2> DEFINE e == h.offset_size
               r == h.roots_count
    <2>1. e \in Nat /\ r \in Nat /\ Len(head) = 5 + e + r
      BY <1>6, <1>7
    <2> HIDE DEF e, r
    <2> QED
      BY <2>1
  <1>9. {1, 2, 3, 4} \subseteq 1 .. Len(head)
    BY <1>8
  <1>10. /\ 1 <= Len(stream) => stream[1] = h.first
         /\ 2 <= Len(stream) => stream[2] = h.offset_size
         /\ 3 <= Len(stream) => stream[3] = h.cells_count
         /\ 4 <= Len(stream) => stream[4] = h.roots_count
    BY <1>4, <1>6, <1>9
  <1> QED
    BY <1>4, <1>5, <1>6, <1>7, <1>10 DEF h

\* The items of a header that breaks a rule are refused for it.
LEMMA HeaderRefused ==
  ASSUME Placed, ~HeaderGood
  PROVE  Result.err = "ERR_INVALID_CONTRACT"
  <1>1. IsSent(sent) /\ stream = Encode(sent)
    BY DEF Placed
  <1>2. PICK b : FirstBegun(b)
    BY <1>1, SomeBegun
  <1> DEFINE read == IF sent.header.cells_count < b THEN sent.header.cells_count ELSE b
  <1> QED
    BY <1>1, <1>2, TreeOf

LEMMA HeaderThrows ==
  ASSUME Placed, cells = << >>, Throw(err'), count' \in Nat,
         IsCut \/ Result.err = err'
  PROVE  BocInv'
  <1>1. /\ next' = "thrown" /\ sent' = sent /\ stream' = stream /\ offset' = offset
        /\ cells' = cells
    BY DEF Throw
  <1>2. Placed'
    BY <1>1 DEF Placed
  <1>3. IsCut' <=> IsCut
    BY <1>1 DEF IsCut, HeaderSize
  <1>4. Result' = Result
    BY <1>1 DEF Result, ItemsSent, BeginOf
  <1>5. ThrownStage'
    BY <1>1, <1>3, <1>4 DEF ThrownStage
  <1> QED
    BY <1>1, <1>2, <1>5 DEF BocInv

LEMMA HeaderMoves ==
  ASSUME Placed, cells = << >>, UNCHANGED <<sent, stream, cells>>, count' \in Nat,
         offset' \in Nat, offset' <= Len(stream), HeaderStage'
  PROVE  BocInv'
  <1>1. Placed'
    BY DEF Placed
  <1> QED
    BY <1>1 DEF BocInv

LEMMA FirstStep ==
  ASSUME Placed, HeaderStage, cells = << >>, first_byte
  PROVE  BocInv'
  <1>1. /\ next = "first" /\ offset = 0 /\ (TRUE) /\ count' = count
        /\ count \in Nat
    BY DEF first_byte, HeaderStage, Placed
  <1>2. /\ Len(stream) \in Nat /\ HeaderSize \in Nat /\ HeaderSize >= 5
        /\ 1 <= Len(stream) => stream[1] = sent.header.first
    BY HeaderFacts
  <1>3. Available(1) <=> 1 <= Len(stream)
    BY <1>1, <1>2 DEF Available
  <1>4. CASE ~Available(1)
    <2>1. Throw("ERR_END_OF_STREAM") /\ err' = "ERR_END_OF_STREAM"
      BY <1>4 DEF first_byte, Read, Throw
    <2>2. IsCut
      BY <1>2, <1>3, <1>4 DEF IsCut
    <2> QED
      BY <1>1, <2>1, <2>2, HeaderThrows
  <1>5. CASE Available(1) /\ ~(byte < 32 /\ byte % 8 = 1)
    <2>1. Throw("ERR_INVALID_CONTRACT") /\ err' = "ERR_INVALID_CONTRACT"
      BY <1>5 DEF first_byte, Read, Throw
    <2>2. byte = sent.header.first
      BY <1>1, <1>2, <1>3, <1>5 DEF byte
    <2>3. ~HeaderGood
      BY <1>5, <2>2 DEF HeaderGood
    <2> QED
      BY <1>1, <2>1, <2>3, HeaderRefused, HeaderThrows
  <1>6. CASE Available(1) /\ (byte < 32 /\ byte % 8 = 1)
    <2>1. /\ offset' = offset + 1 /\ next' = "offset_size"
          /\ sent' = sent /\ stream' = stream /\ cells' = cells
      BY <1>6 DEF first_byte, Read
    <2>2. byte = sent.header.first
      BY <1>1, <1>2, <1>3, <1>6 DEF byte
    <2>3. FirstGood
      BY <1>1, <1>6, <2>2 DEF FirstGood, OffsetGood, HeaderGood
    <2>4. HeaderStage'
      BY <1>1, <2>1, <2>3 DEF HeaderStage, FirstGood, OffsetGood, HeaderGood, Counted
    <2>5. offset' \in Nat /\ offset' <= Len(stream)
      BY <1>1, <1>2, <1>3, <1>6, <2>1
    <2> QED
      BY <1>1, <2>1, <2>4, <2>5, HeaderMoves
  <1> QED
    BY <1>4, <1>5, <1>6

LEMMA OffsetStep ==
  ASSUME Placed, HeaderStage, cells = << >>, offset_size
  PROVE  BocInv'
  <1>1. /\ next = "offset_size" /\ offset = 1 /\ (FirstGood) /\ count' = count
        /\ count \in Nat
    BY DEF offset_size, HeaderStage, Placed
  <1>2. /\ Len(stream) \in Nat /\ HeaderSize \in Nat /\ HeaderSize >= 5
        /\ 2 <= Len(stream) => stream[2] = sent.header.offset_size
    BY HeaderFacts
  <1>3. Available(1) <=> 2 <= Len(stream)
    BY <1>1, <1>2 DEF Available
  <1>4. CASE ~Available(1)
    <2>1. Throw("ERR_END_OF_STREAM") /\ err' = "ERR_END_OF_STREAM"
      BY <1>4 DEF offset_size, Read, Throw
    <2>2. IsCut
      BY <1>2, <1>3, <1>4 DEF IsCut
    <2> QED
      BY <1>1, <2>1, <2>2, HeaderThrows
  <1>5. CASE Available(1) /\ ~(byte \in 1 .. 8)
    <2>1. Throw("ERR_INVALID_CONTRACT") /\ err' = "ERR_INVALID_CONTRACT"
      BY <1>5 DEF offset_size, Read, Throw
    <2>2. byte = sent.header.offset_size
      BY <1>1, <1>2, <1>3, <1>5 DEF byte
    <2>3. ~HeaderGood
      BY <1>5, <2>2 DEF HeaderGood
    <2> QED
      BY <1>1, <2>1, <2>3, HeaderRefused, HeaderThrows
  <1>6. CASE Available(1) /\ (byte \in 1 .. 8)
    <2>1. /\ offset' = offset + 1 /\ next' = "cells_count"
          /\ sent' = sent /\ stream' = stream /\ cells' = cells
      BY <1>6 DEF offset_size, Read
    <2>2. byte = sent.header.offset_size
      BY <1>1, <1>2, <1>3, <1>6 DEF byte
    <2>3. OffsetGood
      BY <1>1, <1>6, <2>2 DEF FirstGood, OffsetGood, HeaderGood
    <2>4. HeaderStage'
      BY <1>1, <2>1, <2>3 DEF HeaderStage, FirstGood, OffsetGood, HeaderGood, Counted
    <2>5. offset' \in Nat /\ offset' <= Len(stream)
      BY <1>1, <1>2, <1>3, <1>6, <2>1
    <2> QED
      BY <1>1, <2>1, <2>4, <2>5, HeaderMoves
  <1> QED
    BY <1>4, <1>5, <1>6

LEMMA RootsStep ==
  ASSUME Placed, HeaderStage, cells = << >>, roots_count
  PROVE  BocInv'
  <1>1. /\ next = "roots_count" /\ offset = 3 /\ (OffsetGood /\ Counted) /\ count' = count
        /\ count \in Nat
    BY DEF roots_count, HeaderStage, Placed
  <1>2. /\ Len(stream) \in Nat /\ HeaderSize \in Nat /\ HeaderSize >= 5
        /\ 4 <= Len(stream) => stream[4] = sent.header.roots_count
    BY HeaderFacts
  <1>3. Available(1) <=> 4 <= Len(stream)
    BY <1>1, <1>2 DEF Available
  <1>4. CASE ~Available(1)
    <2>1. Throw("ERR_END_OF_STREAM") /\ err' = "ERR_END_OF_STREAM"
      BY <1>4 DEF roots_count, Read, Throw
    <2>2. IsCut
      BY <1>2, <1>3, <1>4 DEF IsCut
    <2> QED
      BY <1>1, <2>1, <2>2, HeaderThrows
  <1>5. CASE Available(1) /\ ~(byte = MAX_ROOTS_COUNT)
    <2>1. Throw("ERR_INVALID_CONTRACT") /\ err' = "ERR_INVALID_CONTRACT"
      BY <1>5 DEF roots_count, Read, Throw
    <2>2. byte = sent.header.roots_count
      BY <1>1, <1>2, <1>3, <1>5 DEF byte
    <2>3. ~HeaderGood
      BY <1>5, <2>2 DEF HeaderGood
    <2> QED
      BY <1>1, <2>1, <2>3, HeaderRefused, HeaderThrows
  <1>6. CASE Available(1) /\ (byte = MAX_ROOTS_COUNT)
    <2>1. /\ offset' = offset + 1 /\ next' = "absent_count"
          /\ sent' = sent /\ stream' = stream /\ cells' = cells
      BY <1>6 DEF roots_count, Read
    <2>2. byte = sent.header.roots_count
      BY <1>1, <1>2, <1>3, <1>6 DEF byte
    <2>3. HeaderGood /\ Counted
      BY <1>1, <1>6, <2>2 DEF FirstGood, OffsetGood, HeaderGood
    <2>4. HeaderStage'
      BY <1>1, <2>1, <2>3 DEF HeaderStage, FirstGood, OffsetGood, HeaderGood, Counted
    <2>5. offset' \in Nat /\ offset' <= Len(stream)
      BY <1>1, <1>2, <1>3, <1>6, <2>1
    <2> QED
      BY <1>1, <2>1, <2>4, <2>5, HeaderMoves
  <1> QED
    BY <1>4, <1>5, <1>6

LEMMA InitStep ==
  ASSUME Placed, HeaderStage, cells = << >>, ByteStream_init
  PROVE  BocInv'
  <1>1. next = "init" /\ offset = 0 /\ count' = count /\ count \in Nat
    BY DEF ByteStream_init, HeaderStage, Placed
  <1>2. Len(stream) \in Nat /\ HeaderSize \in Nat /\ HeaderSize >= 5
    BY HeaderFacts
  <1>3. Available(0)
    BY <1>1, <1>2 DEF Available
  <1>4. CASE stream = << >>
    <2>1. Throw("ERR_END_OF_STREAM") /\ err' = "ERR_END_OF_STREAM"
      BY <1>4 DEF ByteStream_init, Throw
    <2>2. IsCut
      BY <1>2, <1>4 DEF IsCut
    <2> QED
      BY <1>1, <2>1, <2>2, HeaderThrows
  <1>5. CASE stream # << >>
    <2>1. /\ offset' = offset + 0 /\ next' = "first"
          /\ sent' = sent /\ stream' = stream /\ cells' = cells
      BY <1>3, <1>5 DEF ByteStream_init, Read
    <2>2. HeaderStage'
      BY <1>1, <2>1 DEF HeaderStage
    <2> QED
      BY <1>1, <1>2, <2>1, <2>2, HeaderMoves
  <1> QED
    BY <1>4, <1>5

LEMMA CountStep ==
  ASSUME Placed, HeaderStage, cells = << >>, cells_count
  PROVE  BocInv'
  <1>1. next = "cells_count" /\ offset = 2 /\ OffsetGood /\ count \in Nat
    BY DEF cells_count, HeaderStage, Placed
  <1>2. /\ Len(stream) \in Nat /\ HeaderSize \in Nat /\ HeaderSize >= 5
        /\ 3 <= Len(stream) => stream[3] = sent.header.cells_count
        /\ sent.header.cells_count \in Nat
    BY HeaderFacts
  <1>3. Available(1) <=> 3 <= Len(stream)
    BY <1>1, <1>2 DEF Available
  <1>4. CASE ~Available(1)
    <2>1. Throw("ERR_END_OF_STREAM") /\ err' = "ERR_END_OF_STREAM" /\ count' = count
      BY <1>4 DEF cells_count, Read, Throw
    <2>2. IsCut
      BY <1>2, <1>3, <1>4 DEF IsCut
    <2> QED
      BY <1>1, <2>1, <2>2, HeaderThrows
  <1>5. CASE Available(1)
    <2>1. /\ offset' = offset + 1 /\ next' = "roots_count" /\ count' = byte
          /\ sent' = sent /\ stream' = stream /\ cells' = cells
      BY <1>5 DEF cells_count, Read
    <2>2. byte = sent.header.cells_count
      BY <1>1, <1>2, <1>3, <1>5 DEF byte
    <2>3. offset' = 3 /\ count' = sent.header.cells_count
      BY <1>1, <2>1, <2>2
    <2>4. HeaderStage'
      BY <1>1, <2>1, <2>3 DEF HeaderStage, OffsetGood, FirstGood, Counted
    <2>5. offset' \in Nat /\ offset' <= Len(stream)
      BY <1>2, <1>3, <1>5, <2>3
    <2> QED
      BY <1>2, <2>1, <2>3, <2>4, <2>5, HeaderMoves
  <1> QED
    BY <1>4, <1>5

LEMMA AbsentStep ==
  ASSUME Placed, HeaderStage, cells = << >>, absent_count
  PROVE  BocInv'
  <1>1. /\ next = "absent_count" /\ offset = 4 /\ HeaderGood /\ Counted /\ count' = count
        /\ count \in Nat
    BY DEF absent_count, HeaderStage, Placed
  <1>2. Len(stream) \in Nat /\ HeaderSize \in Nat /\ HeaderSize >= 5
    BY HeaderFacts
  <1>3. Available(1) <=> 5 <= Len(stream)
    BY <1>1, <1>2 DEF Available
  <1>4. CASE ~Available(1)
    <2>1. Throw("ERR_END_OF_STREAM") /\ err' = "ERR_END_OF_STREAM"
      BY <1>4 DEF absent_count, Read, Throw
    <2>2. IsCut
      BY <1>2, <1>3, <1>4 DEF IsCut
    <2> QED
      BY <1>1, <2>1, <2>2, HeaderThrows
  <1>5. CASE Available(1)
    <2>1. /\ offset' = offset + 1 /\ next' = "total_cells_size"
          /\ sent' = sent /\ stream' = stream /\ cells' = cells
      BY <1>5 DEF absent_count, Read
    <2>2. offset' = 5
      BY <1>1, <2>1
    <2>3. HeaderStage'
      BY <1>1, <2>1, <2>2 DEF HeaderStage, HeaderGood, Counted
    <2>4. offset' \in Nat /\ offset' <= Len(stream)
      BY <1>2, <1>3, <1>5, <2>2
    <2> QED
      BY <1>1, <2>1, <2>3, <2>4, HeaderMoves
  <1> QED
    BY <1>4, <1>5

LEMMA SizeStep ==
  ASSUME Placed, HeaderStage, cells = << >>, total_cells_size
  PROVE  BocInv'
  <1> DEFINE n == sent.header.offset_size
  <1>1. /\ next = "total_cells_size" /\ offset = 5 /\ HeaderGood /\ Counted
        /\ count' = count /\ count \in Nat
    BY DEF total_cells_size, HeaderStage, Placed
  <1>2. /\ Len(stream) \in Nat /\ n \in Nat /\ sent.header.roots_count \in Nat
        /\ HeaderSize = 5 + n + sent.header.roots_count
        /\ 2 <= Len(stream) => stream[2] = n
    BY HeaderFacts
  <1>3. offset <= Len(stream)
    BY DEF Placed
  <1>4. stream[2] = n
    BY <1>1, <1>2, <1>3
  <1> HIDE DEF n
  <1>5. Available(n) <=> 5 + n <= Len(stream)
    BY <1>1, <1>2 DEF Available
  <1>6. Read(n, TRUE, "roots")
    BY <1>4 DEF total_cells_size
  <1>7. CASE ~Available(n)
    <2>1. Throw("ERR_END_OF_STREAM") /\ err' = "ERR_END_OF_STREAM"
      BY <1>6, <1>7 DEF Read, Throw
    <2>2. IsCut
      <3> DEFINE r == sent.header.roots_count
      <3>1. r \in Nat /\ HeaderSize = 5 + n + r
        BY <1>2
      <3> HIDE DEF r
      <3> QED
        BY <1>2, <1>5, <1>7, <3>1 DEF IsCut
    <2> QED
      BY <1>1, <2>1, <2>2, HeaderThrows
  <1>8. CASE Available(n)
    <2>1. /\ offset' = offset + n /\ next' = "roots"
          /\ sent' = sent /\ stream' = stream /\ cells' = cells
      BY <1>6, <1>8 DEF Read
    <2>2. offset' = 5 + n
      BY <1>1, <2>1
    <2>3. HeaderStage'
      BY <1>1, <2>1, <2>2 DEF HeaderStage, HeaderGood, Counted, n
    <2>4. offset' \in Nat /\ offset' <= Len(stream)
      BY <1>2, <1>5, <1>8, <2>2
    <2> QED
      BY <1>1, <2>1, <2>3, <2>4, HeaderMoves
  <1> QED
    BY <1>7, <1>8

LEMMA CodesKept ==
  ASSUME sent' = sent, stream' = stream
  PROVE  /\ HeaderGood' <=> HeaderGood
         /\ Result' = Result /\ HeaderSize' = HeaderSize
         /\ \A i : Begins(sent, i)' = Begins(sent, i)
         /\ \A i : CodeOf(i)' = CodeOf(i)
  BY DEF HeaderGood, Result, ItemsSent, BeginOf, HeaderSize, Begins, CodeOf

LEMMA RootStep ==
  ASSUME Placed, HeaderStage, cells = << >>, roots
  PROVE  BocInv'
  <1> DEFINE n == sent.header.offset_size
  <1>1. /\ next = "roots" /\ offset = 5 + n /\ HeaderGood /\ Counted
        /\ count' = count /\ count \in Nat
    BY DEF roots, HeaderStage, Placed
  <1>2. /\ Len(stream) \in Nat /\ n \in Nat
        /\ HeaderSize = 5 + n + 1 /\ Begins(sent, 1) = HeaderSize
    <2>1. sent.header.roots_count = 1
      BY <1>1 DEF HeaderGood, MAX_ROOTS_COUNT
    <2> QED
      BY <2>1, HeaderFacts
  <1> HIDE DEF n
  <1>3. Available(1) <=> HeaderSize <= Len(stream)
    BY <1>1, <1>2 DEF Available
  <1>4. CASE ~Available(1)
    <2>1. Throw("ERR_END_OF_STREAM") /\ err' = "ERR_END_OF_STREAM"
      BY <1>4 DEF roots, Read, Throw
    <2>2. IsCut
      BY <1>2, <1>3, <1>4 DEF IsCut
    <2> QED
      BY <1>1, <2>1, <2>2, HeaderThrows
  <1>5. CASE Available(1)
    <2>1. /\ offset' = offset + 1 /\ next' = (IF count = 0 THEN "done" ELSE "cell")
          /\ sent' = sent /\ stream' = stream /\ cells' = cells
      BY <1>5 DEF roots, Read
    <2>2. /\ offset' = Begins(sent, 1) /\ offset' \in Nat /\ offset' <= Len(stream)
      BY <1>1, <1>2, <1>3, <1>5, <2>1
    <2>3. Placed'
      BY <1>1, <2>1, <2>2 DEF Placed
    <2>4. cells' = << >> /\ Len(cells') = 0
      BY <2>1
    <2>5. CellStage'
      BY <1>1, <2>1, <2>4 DEF CellStage
    <2>6. WholeCells(0)'
      <3>1. HeaderGood' /\ Counted' /\ count' \in Nat
        BY <1>1, <2>1, CodesKept DEF Counted
      <3>2. offset' = Begins(sent, 0 + 1)'
        BY <2>1, <2>2 DEF Begins
      <3>3. Len(sent'.cells) \in Nat
        BY <2>1 DEF Placed, IsSent
      <3> QED
        BY <3>1, <3>2, <3>3 DEF WholeCells, MAX_CONTRACT_CELLS_COUNT
    <2>7. WholeCells(Len(cells))'
      BY <2>4, <2>6
    <2> QED
      BY <2>3, <2>5, <2>7 DEF BocInv
  <1> QED
    BY <1>4, <1>5

-----------------------------------------------------------------------------
(***************************************************************************)
(* A cell is read.                                                         *)
(***************************************************************************)
LEMMA CellsKept ==
  ASSUME Placed, WholeCells(Len(cells)), UNCHANGED <<sent, stream, offset, count, cells>>
  PROVE  Placed' /\ WholeCells(Len(cells))'
  <1>1. Placed'
    BY DEF Placed
  <1>2. /\ HeaderGood' <=> HeaderGood
        /\ \A i : Begins(sent, i)' = Begins(sent, i)
        /\ \A i : CodeOf(i)' = CodeOf(i)
    BY CodesKept
  <1>3. WholeCells(Len(cells))'
    BY <1>2 DEF WholeCells, Counted, Begins
  <1> QED
    BY <1>1, <1>3

LEMMA CellThrows ==
  ASSUME Placed, WholeCells(Len(cells)), Throw(err'), count' = count, Result.err = err'
  PROVE  BocInv'
  <1>1. /\ next' = "thrown" /\ sent' = sent /\ stream' = stream /\ offset' = offset
        /\ cells' = cells
    BY DEF Throw
  <1>2. Placed' /\ WholeCells(Len(cells))'
    BY <1>1, CellsKept
  <1>3. ThrownStage'
    BY <1>1, CodesKept DEF ThrownStage
  <1> QED
    BY <1>2, <1>3 DEF BocInv

\* The cell that stands at the cursor is the next of those that were sent.
LEMMA NextCell ==
  ASSUME Placed, NEW m \in Nat, WholeCells(m), m < count, offset < Len(stream)
  PROVE  /\ AtCell(m, offset)
         /\ CodeOf(m) # SUCCESS => Result.err = CodeOf(m)
  <1>1. /\ IsSent(sent) /\ stream = Encode(sent) /\ count \in Nat
        /\ HeaderGood /\ count = sent.header.cells_count
        /\ m <= Len(sent.cells) /\ offset = Begins(sent, m + 1)
        /\ \A i \in 1 .. m : CodeOf(i - 1) = SUCCESS
    BY DEF Placed, WholeCells, Counted
  <1>2. Len(sent.cells) \in Nat /\ Len(stream) \in Nat /\ offset \in Nat
    BY HeaderFacts DEF Placed, IsSent
  <1>3. m < Len(sent.cells)
    <2>1. Len(stream) <= Begins(sent, Len(sent.cells) + 1)
      BY <1>1, StreamIsLaid DEF IsLaid
    <2>2. m # Len(sent.cells)
      BY <1>1, <1>2, <2>1
    <2> QED
      BY <1>1, <1>2, <2>2
  <1>4. AtCell(m, offset)
    BY <1>1, <1>3 DEF AtCell
  <1>5. PICK b : FirstBegun(b)
    BY <1>1, SomeBegun
  <1>6. m + 1 <= b /\ b \in Nat
    <2>1. m + 1 \in 1 .. Len(sent.cells)
      BY <1>2, <1>3
    <2> QED
      BY <1>1, <1>5, <2>1 DEF FirstBegun
  <1> DEFINE read == IF sent.header.cells_count < b THEN sent.header.cells_count ELSE b
  <1>7. m \in 0 .. read - 1
    BY <1>1, <1>6
  <1>8. \A i \in 0 .. m - 1 : CodeOf(i) = SUCCESS
    <2> SUFFICES ASSUME NEW i \in 0 .. m - 1 PROVE CodeOf(i) = SUCCESS
      OBVIOUS
    <2>1. i + 1 \in 1 .. m /\ (i + 1) - 1 = i
      OBVIOUS
    <2> QED
      BY <1>1, <2>1
  <1>9. \A k \in 0 .. read - 1 :
          /\ CodeOf(k) # SUCCESS
          /\ \A i \in 0 .. k - 1 : CodeOf(i) = SUCCESS
          => Result.err = CodeOf(k)
    BY <1>1, <1>5, TreeOf
  <1>10. CodeOf(m) # SUCCESS => Result.err = CodeOf(m)
    BY <1>7, <1>8, <1>9
  <1> QED
    BY <1>4, <1>10

\* No cell at all is left of the stream.
LEMMA NoCell ==
  ASSUME Placed, WholeCells(0), 0 < count, offset = Len(stream)
  PROVE  Result.err = "ERR_INVALID_CELL"
  <1>1. /\ IsSent(sent) /\ stream = Encode(sent) /\ count \in Nat
        /\ HeaderGood /\ count = sent.header.cells_count
        /\ Begins(sent, 1) = Len(stream)
    BY DEF Placed, WholeCells, Counted
  <1>2. PICK b : FirstBegun(b)
    BY <1>1, SomeBegun
  <1>3. Len(stream) \in Nat /\ Len(sent.cells) \in Nat
    BY HeaderFacts DEF IsSent, Placed
  <1>4. b = 0
    <2>1. b \in 0 .. Len(sent.cells)
      BY <1>2 DEF FirstBegun
    <2>2. ASSUME b # 0 PROVE FALSE
      <3>1. 1 \in 1 .. Len(sent.cells) /\ 1 <= b
        BY <1>3, <2>1, <2>2
      <3>2. Begins(sent, 1) < Len(stream)
        BY <1>2, <3>1 DEF FirstBegun
      <3> QED
        BY <1>1, <1>3, <3>2
    <2> QED
      BY <2>2
  <1> DEFINE read == IF sent.header.cells_count < b THEN sent.header.cells_count ELSE b
  <1>5. read = 0
    BY <1>1, <1>4
  <1>6. sent.header.cells_count > 0
    BY <1>1
  <1>7. HeaderGood =>
          (sent.header.cells_count > 0 /\ read = 0 => Result.err = "ERR_INVALID_CELL")
    BY <1>1, <1>2, TreeOf
  <1> QED
    BY <1>1, <1>5, <1>6, <1>7

LEMMA TakeStep ==
  ASSUME Placed, NEW m, m = Len(cells), WholeCells(m), m < count,
         m < MAX_CONTRACT_CELLS_COUNT, m < Len(sent.cells), CodeOf(m) = SUCCESS,
         Available(cell_size), offset + cell_size = Begins(sent, m + 2), cell_size \in Nat,
         TakeCell, count' = count
  PROVE  BocInv'
  <1> DEFINE cell == [begin |-> offset, length |-> Cell_get_length]
             S == [begin : Nat, length : Nat]
  <1>1. /\ offset' = offset + cell_size /\ cells' = Append(cells, cell)
        /\ next' = (IF offset' >= Len(stream) \/ Len(cells') = count THEN "done" ELSE "cell")
        /\ sent' = sent /\ stream' = stream
    BY DEF TakeCell
  <1>2. /\ offset \in Nat /\ offset <= Len(stream) /\ Len(stream) \in Nat /\ count \in Nat
        /\ cells \in Seq(S) /\ m \in Nat
    BY HeaderFacts DEF Placed
  <1>3. offset' \in Nat /\ offset' <= Len(stream)
    BY <1>1, <1>2 DEF Available
  <1>4. cell \in S
    <2>1. Cell_get_length \in Nat
      BY <1>2 DEF Cell_get_length
    <2> QED
      BY <1>2, <2>1
  <1>5. /\ cells' \in Seq(S) /\ Len(cells') = m + 1
        /\ cells'[m + 1].begin = offset
        /\ \A i \in 1 .. m : cells'[i] = cells[i]
    <2>1. cell.begin = offset
      OBVIOUS
    <2> HIDE DEF cell, S
    <2>2. /\ cells' \in Seq(S) /\ Len(cells') = m + 1
          /\ cells'[m + 1] = cell
          /\ \A i \in 1 .. m : cells'[i] = cells[i]
      BY <1>1, <1>2, <1>4, AppendProperties
    <2> QED
      BY <2>1, <2>2
  <1> HIDE DEF cell
  <1>6. Placed'
    BY <1>1, <1>2, <1>3, <1>5 DEF Placed
  <1>7. WholeCells(m + 1)'
    <2>1. /\ HeaderGood /\ Counted /\ m <= Len(sent.cells) /\ m <= count
          /\ m <= MAX_CONTRACT_CELLS_COUNT /\ offset = Begins(sent, m + 1)
          /\ \A i \in 1 .. m : cells[i].begin = Begins(sent, i) /\ CodeOf(i - 1) = SUCCESS
      BY DEF WholeCells
    <2>2. /\ HeaderGood' <=> HeaderGood
          /\ \A i : Begins(sent, i)' = Begins(sent, i)
          /\ \A i : CodeOf(i)' = CodeOf(i)
      BY <1>1, CodesKept
    <2>3. HeaderGood' /\ Counted'
      BY <1>1, <2>1, <2>2 DEF Counted
    <2>4. m + 1 <= Len(sent'.cells) /\ m + 1 <= count' /\ m + 1 <= MAX_CONTRACT_CELLS_COUNT
      <3>1. Len(sent.cells) \in Nat
        BY DEF Placed, IsSent
      <3> QED
        BY <1>1, <1>2, <3>1 DEF MAX_CONTRACT_CELLS_COUNT
    <2>5. offset' = Begins(sent', (m + 1) + 1)
      <3>1. (m + 1) + 1 = m + 2
        BY <1>2
      <3> QED
        BY <1>1, <3>1
    <2>6. ASSUME NEW i \in 1 .. m + 1
          PROVE  cells'[i].begin = Begins(sent', i) /\ CodeOf(i - 1)' = SUCCESS
      <3>1. CASE i = m + 1
        <4>1. i - 1 = m
          BY <1>2, <3>1
        <4> QED
          BY <1>1, <1>5, <2>1, <2>2, <3>1, <4>1
      <3>2. CASE i # m + 1
        <4>1. i \in 1 .. m
          BY <1>2, <3>2
        <4> QED
          BY <1>1, <1>5, <2>1, <2>2, <4>1
      <3> QED
        BY <3>1, <3>2
    <2> QED
      BY <2>3, <2>4, <2>5, <2>6 DEF WholeCells
  <1>8. CellStage'
    <2>1. Len(cells') > 0 /\ count' = count /\ stream' = stream
      BY <1>1, <1>2, <1>5
    <2>2. CASE next' = "done"
      <3>1. offset' >= Len(stream) \/ Len(cells') = count
        BY <1>1, <2>2
      <3>2. offset' = Len(stream) \/ Len(cells') = count
        BY <1>2, <1>3, <3>1
      <3> QED
        BY <2>1, <2>2, <3>2 DEF CellStage
    <2>3. CASE next' # "done"
      <3>1. next' = "cell" /\ ~(offset' >= Len(stream)) /\ Len(cells') # count
        BY <1>1, <2>3
      <3>2. offset' < Len(stream) /\ Len(cells') < count
        BY <1>2, <1>3, <1>5, <3>1
      <3> QED
        BY <2>1, <3>1, <3>2 DEF CellStage
    <2> QED
      BY <2>2, <2>3
  <1>9. WholeCells(Len(cells))'
    BY <1>5, <1>7
  <1> QED
    BY <1>6, <1>8, <1>9 DEF BocInv

LEMMA CellStep ==
  ASSUME Placed, CellStage, WholeCells(Len(cells)), read_cell
  PROVE  BocInv'
  <1> DEFINE m == Len(cells)
             c == sent.cells[m + 1]
             left == Len(stream) - offset
  <1>1. /\ next = "cell" /\ count' = count /\ m < count /\ (m = 0 \/ offset < Len(stream))
        /\ IF m >= MAX_CONTRACT_CELLS_COUNT THEN Throw("ERR_INVALID_CONTRACT")
           ELSE IF ~CellValid(m) THEN Throw("ERR_INVALID_CELL") ELSE TakeCell
    BY DEF read_cell, CellStage
  <1>2. /\ m \in Nat /\ m <= MAX_CONTRACT_CELLS_COUNT /\ count \in Nat
        /\ offset \in Nat /\ offset <= Len(stream) /\ Len(stream) \in Nat
        /\ count = sent.header.cells_count /\ WholeCells(m)
    <2>1. m \in Nat
      BY DEF Placed
    <2> QED
      BY <2>1, HeaderFacts DEF Placed, WholeCells, Counted
  <1> HIDE DEF m
  <1>3. CASE m >= MAX_CONTRACT_CELLS_COUNT
    <2>1. Throw("ERR_INVALID_CONTRACT") /\ err' = "ERR_INVALID_CONTRACT"
      BY <1>1, <1>3 DEF Throw
    <2>2. m # 0 /\ offset < Len(stream)
      BY <1>1, <1>2, <1>3 DEF MAX_CONTRACT_CELLS_COUNT
    <2>3. CodeOf(m) = "ERR_INVALID_CONTRACT"
      BY <1>3 DEF CodeOf
    <2>4. Result.err = "ERR_INVALID_CONTRACT"
      BY <1>1, <1>2, <2>2, <2>3, NextCell DEF SUCCESS
    <2> QED
      BY <1>1, <2>1, <2>4, CellThrows
  <1>4. CASE m < MAX_CONTRACT_CELLS_COUNT /\ offset < Len(stream)
    <2>1. AtCell(m, offset) /\ (CodeOf(m) # SUCCESS => Result.err = CodeOf(m))
      BY <1>1, <1>2, <1>4, NextCell
    <2>2. Stands(c, left, offset, m)
      BY <2>1, CellHere
    <2>3. /\ CellValid(m) <=> Sound(c, left, m, count)
          /\ left > 1 => /\ cell_size = CodeSize(c)
                         /\ Available(cell_size) <=> left >= CodeSize(c)
      BY <1>2, <2>2, CellVerdict
    <2>4. /\ IsCellSent(c) /\ left \in Nat /\ left > 0
          /\ Begins(sent, m + 2) = offset + CodeSize(c)
      BY <2>2 DEF Stands
    <2>5. CodeOf(m) = IF ~Sound(c, left, m, count) THEN "ERR_INVALID_CELL"
                      ELSE IF left < CodeSize(c) THEN "ERR_END_OF_STREAM" ELSE SUCCESS
      <3>1. offset = Begins(sent, m + 1)
        BY <2>1 DEF AtCell
      <3>2. CodeOf(m) = deserialize_cell(CellItem(c, left), m, count)
        BY <1>2, <1>4, <3>1 DEF CodeOf, MAX_CONTRACT_CELLS_COUNT
      <3> QED
        BY <1>2, <2>4, <3>2, ItemVerdict
    <2>6. CodeSize(c) \in Nat
      BY <2>4, CellTyped
    <2>7. m < Len(sent.cells)
      BY <2>1 DEF AtCell
    <2> HIDE DEF c, left
    <2>8. CASE ~CellValid(m)
      <3>1. Throw("ERR_INVALID_CELL") /\ err' = "ERR_INVALID_CELL"
        BY <1>1, <1>2, <1>4, <2>8 DEF Throw, MAX_CONTRACT_CELLS_COUNT
      <3>2. Result.err = "ERR_INVALID_CELL"
        BY <2>1, <2>3, <2>5, <2>8 DEF SUCCESS
      <3> QED
        BY <1>1, <3>1, <3>2, CellThrows
    <2>9. CASE CellValid(m)
      <3>1. TakeCell /\ left > 1 /\ Sound(c, left, m, count)
        BY <1>1, <1>2, <1>4, <2>3, <2>9 DEF Sound, MAX_CONTRACT_CELLS_COUNT
      <3>2. CASE ~Available(cell_size)
        <4>1. Throw("ERR_END_OF_STREAM") /\ err' = "ERR_END_OF_STREAM"
          BY <3>1, <3>2 DEF TakeCell, Throw
        <4>2. left < CodeSize(c)
          BY <2>3, <2>4, <2>6, <3>1, <3>2
        <4>3. Result.err = "ERR_END_OF_STREAM"
          BY <2>1, <2>5, <3>1, <4>2 DEF SUCCESS
        <4> QED
          BY <1>1, <4>1, <4>3, CellThrows
      <3>3. CASE Available(cell_size)
        <4>1. ~(left < CodeSize(c))
          BY <2>3, <2>4, <2>6, <3>1, <3>3
        <4>2. CodeOf(m) = SUCCESS
          BY <2>5, <3>1, <4>1
        <4>3. offset + cell_size = Begins(sent, m + 2) /\ cell_size \in Nat
          BY <2>3, <2>4, <2>6, <3>1
        <4> QED
          BY <1>1, <1>2, <1>4, <2>7, <3>1, <3>3, <4>2, <4>3, TakeStep DEF m
      <3> QED
        BY <3>2, <3>3
    <2> QED
      BY <2>8, <2>9
  <1>5. CASE m < MAX_CONTRACT_CELLS_COUNT /\ ~(offset < Len(stream))
    <2>1. m = 0 /\ offset = Len(stream)
      BY <1>1, <1>2, <1>5
    <2>2. ~CellValid(m)
      BY <1>2, <2>1 DEF CellValid, Cell_get_length
    <2>3. Throw("ERR_INVALID_CELL") /\ err' = "ERR_INVALID_CELL"
      BY <1>1, <1>2, <1>5, <2>2 DEF Throw, MAX_CONTRACT_CELLS_COUNT
    <2>4. Result.err = "ERR_INVALID_CELL"
      BY <1>1, <1>2, <2>1, NoCell
    <2> QED
      BY <1>1, <2>3, <2>4, CellThrows
  <1>6. m >= MAX_CONTRACT_CELLS_COUNT \/ m < MAX_CONTRACT_CELLS_COUNT
    BY <1>2 DEF MAX_CONTRACT_CELLS_COUNT
  <1> QED
    BY <1>3, <1>4, <1>5, <1>6

LEMMA BocInvIsInvariant == BocSpec => []BocInv
  <1>1. BocInit => BocInv
    <2> SUFFICES ASSUME BocInit PROVE BocInv
      OBVIOUS
    <2>1. IsSent(sent) /\ stream = Encode(sent) /\ offset = 0 /\ count = 0 /\ cells = << >>
          /\ next = "init"
      BY StreamsAreSent DEF BocInit
    <2>2. Len(stream) \in Nat
      BY <2>1, StreamIsLaid DEF IsLaid
    <2>3. Placed
      BY <2>1, <2>2 DEF Placed
    <2> QED
      BY <2>1, <2>3 DEF BocInv, HeaderStage
  <1>2. BocInv /\ [BocNext]_boc => BocInv'
    <2> SUFFICES ASSUME BocInv, [BocNext]_boc PROVE BocInv'
      OBVIOUS
    <2>1. CASE UNCHANGED boc
      <3>1. /\ sent' = sent /\ stream' = stream /\ offset' = offset /\ count' = count
            /\ cells' = cells /\ next' = next /\ err' = err
        BY <2>1 DEF boc
      <3>2. Placed /\ Placed'
        BY <3>1 DEF BocInv, Placed
      <3>3. CASE HeaderStage /\ cells = << >>
        <4>1. HeaderStage'
          BY <3>1, <3>3 DEF HeaderStage, FirstGood, OffsetGood, HeaderGood, Counted
        <4> QED
          BY <3>1, <3>2, <3>3, <4>1 DEF BocInv
      <3>4. CASE CellStage /\ WholeCells(Len(cells))
        <4>1. CellStage' /\ WholeCells(Len(cells))'
          BY <3>1, <3>2, <3>4, CellsKept DEF CellStage
        <4> QED
          BY <3>2, <4>1 DEF BocInv
      <3>5. CASE ThrownStage /\ (cells = << >> \/ WholeCells(Len(cells)))
        <4>1. Result' = Result /\ HeaderSize' = HeaderSize
          BY <3>1, CodesKept
        <4>2. ThrownStage'
          BY <3>1, <3>5, <4>1 DEF ThrownStage, IsCut
        <4>3. cells' = << >> \/ WholeCells(Len(cells))'
          BY <3>1, <3>2, <3>5, CellsKept
        <4> QED
          BY <3>2, <4>2, <4>3 DEF BocInv
      <3> QED
        BY <3>3, <3>4, <3>5 DEF BocInv
    <2>2. CASE read_cell
      <3>1. next = "cell"
        BY <2>2 DEF read_cell
      <3>2. Placed /\ CellStage /\ WholeCells(Len(cells))
        BY <3>1 DEF BocInv, HeaderStage, ThrownStage
      <3> QED
        BY <2>2, <3>2, CellStep
    <2>3. CASE \/ ByteStream_init \/ first_byte \/ offset_size \/ cells_count \/ roots_count
               \/ absent_count \/ total_cells_size \/ roots
      <3>1. next \in {"init", "first", "offset_size", "cells_count", "roots_count",
                      "absent_count", "total_cells_size", "roots"}
        BY <2>3 DEF ByteStream_init, first_byte, offset_size, cells_count, roots_count,
                    absent_count, total_cells_size, roots
      <3>2. Placed /\ HeaderStage /\ cells = << >>
        BY <3>1 DEF BocInv, CellStage, ThrownStage
      <3> QED
        BY <2>3, <3>2, InitStep, FirstStep, OffsetStep, CountStep, RootsStep,
           AbsentStep, SizeStep, RootStep
    <2> QED
      BY <2>1, <2>2, <2>3 DEF BocNext
  <1> QED
    BY <1>1, <1>2, PTL DEF BocSpec

-----------------------------------------------------------------------------
(***************************************************************************)
(* What the cells that are read hold.                                      *)
(***************************************************************************)
LEMMA Part ==
  ASSUME NEW S, NEW str \in Seq(S), NEW part \in Seq(S), NEW a \in Nat,
         a + Len(part) <= Len(str), \A k \in 1 .. Len(part) : str[a + k] = part[k]
  PROVE  SubSeq(str, a + 1, a + Len(part)) = part
  <1> DEFINE n == Len(part)
             sub == SubSeq(str, a + 1, a + n)
  <1>1. n \in Nat /\ Len(str) \in Nat /\ \A i \in 1 .. Len(str) : str[i] \in S
    OBVIOUS
  <1> HIDE DEF n
  <1>2. \A i \in a + 1 .. a + n : str[i] \in S
    <2>1. a + n <= Len(str)
      BY DEF n
    <2>2. \A i \in a + 1 .. a + n : i \in 1 .. Len(str)
      BY <1>1, <2>1
    <2> QED
      BY <1>1, <2>2
  <1>3. /\ sub \in Seq(S) /\ Len(sub) = n
        /\ \A i \in 1 .. n : sub[i] = str[a + i]
    <2>1. /\ sub \in Seq(S)
          /\ Len(sub) = IF a + 1 <= a + n THEN (a + n) - (a + 1) + 1 ELSE 0
          /\ \A i \in 1 .. (a + n) - (a + 1) + 1 : sub[i] = str[(a + 1) + i - 1]
      <3>1. a + 1 \in Int /\ a + n \in Int
        BY <1>1
      <3> QED
        BY <1>2, <3>1, SubSeqProperties
    <2>2. /\ (a + n) - (a + 1) + 1 = n
          /\ \A i \in 1 .. n : (a + 1) + i - 1 = a + i
          /\ ~(a + 1 <= a + n) => n = 0
      BY <1>1
    <2> HIDE DEF sub
    <2>3. Len(sub) = n
      BY <2>1, <2>2
    <2> QED
      BY <2>1, <2>2, <2>3
  <1> HIDE DEF sub
  <1>4. \A i \in 1 .. Len(sub) : sub[i] = part[i]
    BY <1>3 DEF n
  <1>5. Len(sub) = Len(part)
    BY <1>3 DEF n
  <1>6. sub = part
    BY <1>3, <1>4, <1>5, SeqEqual
  <1> QED
    BY <1>6 DEF sub, n

\* Cell i is whole: its bytes stand in the stream, before the cursor.
IsWhole(i) ==
  LET c == sent.cells[i]
      at == Begins(sent, i)
  IN  /\ i \in 1 .. Len(sent.cells)
      /\ at + CodeSize(c) <= offset
      /\ Begins(sent, i + 1) = at + CodeSize(c)
      /\ Stands(c, Len(stream) - at, at, i - 1)

LEMMA WholeCell ==
  ASSUME Placed, NEW m \in Nat, WholeCells(m), NEW i \in 1 .. m
  PROVE  IsWhole(i)
  <1> DEFINE c == sent.cells[i]
             at == Begins(sent, i)
  <1>1. /\ IsSent(sent) /\ stream = Encode(sent) /\ m <= Len(sent.cells)
        /\ offset = Begins(sent, m + 1)
    BY DEF Placed, WholeCells
  <1>2. /\ Len(sent.cells) \in Nat /\ Len(stream) \in Nat /\ offset \in Nat
        /\ offset <= Len(stream)
    BY HeaderFacts DEF Placed, IsSent
  <1>3. /\ i \in 1 .. Len(sent.cells) /\ i + 1 \in 1 .. Len(sent.cells) + 1
        /\ m + 1 \in 1 .. Len(sent.cells) + 1 /\ i + 1 <= m + 1
        /\ i - 1 \in Nat /\ (i - 1) + 1 = i
    BY <1>1, <1>2
  <1>4. IsCellSent(c) /\ Len(EncodeCell(c)) = CodeSize(c)
    <2>1. IsCellSent(c)
      BY <1>1, <1>3 DEF IsSent
    <2> QED
      BY <2>1, CellBytes DEF CellLaid, CodeSize
  <1>5. /\ at \in Nat /\ Begins(sent, i + 1) = at + CodeSize(c)
        /\ Begins(sent, i + 1) <= offset
    <2>1. IsLaid(sent, stream)
      BY <1>1, StreamIsLaid
    <2> QED
      BY <1>1, <1>3, <1>4, <2>1 DEF IsLaid
  <1>6. CodeSize(c) \in Nat /\ CodeSize(c) >= 2
    <2> DEFINE d == Len(c.data)
               e == Len(c.refs)
    <2>1. d \in Nat /\ e \in Nat /\ CodeSize(c) = 2 + d + e
      BY <1>4, CellTyped DEF CodeSize
    <2> HIDE DEF d, e
    <2> QED
      BY <2>1
  <1> HIDE DEF c, at
  <1>7. at < Len(stream)
    BY <1>2, <1>5, <1>6
  <1>8. AtCell(i - 1, at)
    <2>1. i - 1 < Len(sent.cells)
      BY <1>2, <1>3
    <2>2. at = Begins(sent, (i - 1) + 1)
      BY <1>3 DEF at
    <2> QED
      BY <1>1, <1>3, <1>7, <2>1, <2>2 DEF AtCell
  <1>9. Stands(sent.cells[(i - 1) + 1], Len(stream) - at, at, i - 1)
    BY <1>8, CellHere
  <1> QED
    BY <1>3, <1>5, <1>9 DEF IsWhole, c, at

\* What is read through the pointer to cell i.
LEMMA CellIsRead ==
  ASSUME Placed, NEW i, IsWhole(i), NEW cell, cell.begin = Begins(sent, i)
  PROVE  /\ SizeAt(cell.begin) = CodeSize(sent.cells[i])
         /\ CellRead(cell) = [data |-> sent.cells[i].data, refs |-> sent.cells[i].refs]
  <1> DEFINE c == sent.cells[i]
             at == Begins(sent, i)
             d == Len(c.data)
             e == Len(c.refs)
  <1>1. /\ at + CodeSize(c) <= offset /\ offset \in Nat /\ offset <= Len(stream)
        /\ Stands(c, Len(stream) - at, at, i - 1)
    BY DEF IsWhole, Placed
  <1>2. /\ IsCellSent(c) /\ at \in Nat /\ Len(stream) \in Nat
        /\ stream[at + 1] = c.d1 /\ (Len(stream) - at > 1 => stream[at + 2] = c.d2)
        /\ \A k \in 1 .. d :
             Len(stream) - at >= 2 + k => stream[at + 2 + k] = c.data[k]
        /\ \A r \in 1 .. e :
             Len(stream) - at >= 2 + d + r => stream[at + 2 + d + r] = c.refs[r]
    BY <1>1 DEF Stands
  <1>3. /\ d \in Nat /\ e \in Nat /\ CodeSize(c) = 2 + d + e
        /\ c.data \in Seq(Bytes) /\ c.refs \in Seq(Bytes)
    BY <1>2, CellTyped DEF CodeSize, IsCellSent
  <1>4. d = c.d2 \div 2 + (c.d2 % 2) /\ e = c.d1 % 8 /\ c.d2 \in 0 .. 255
    BY <1>2 DEF IsCellSent, Bytes
  <1>5. stream \in Seq(Bytes)
    BY StreamIsLaid DEF Placed
  <1>6. d = Len(c.data) /\ e = Len(c.refs)
    OBVIOUS
  <1> HIDE DEF c, at, d, e
  <1> DEFINE end == at + 2 + d + e
             rest == at + 2 + d
  <1>7. /\ end \in Nat /\ rest \in Nat /\ end <= Len(stream) /\ Len(stream) - at > 1
        /\ at + 2 \in Nat /\ (at + 2) + 1 = at + 3
        /\ at + 2 + d = rest /\ rest + e = end /\ at + (2 + d + e) = end /\ end - e = rest
        /\ rest <= Len(stream)
    BY <1>1, <1>2, <1>3
  <1>8. SizeAt(at) = 2 + d + e
    <2> DEFINE half == c.d2 \div 2
               odd == c.d2 % 2
    <2>1. half \in Nat /\ odd \in Nat /\ d = half + odd
      BY <1>4
    <2>2. SizeAt(at) = 2 + half + odd + e
      BY <1>2, <1>4, <1>7 DEF SizeAt, CELL_DATA_OFFSET
    <2> HIDE DEF half, odd
    <2> QED
      BY <1>3, <2>1, <2>2
  <1>9. SubSeq(stream, at + 3, rest) = c.data
    <2>1. \A k \in 1 .. d : stream[(at + 2) + k] = c.data[k]
      BY <1>2, <1>3, <1>7
    <2>2. SubSeq(stream, (at + 2) + 1, (at + 2) + Len(c.data)) = c.data
      <3>1. at + 2 \in Nat /\ (at + 2) + Len(c.data) <= Len(stream)
            /\ \A k \in 1 .. Len(c.data) : stream[(at + 2) + k] = c.data[k]
        BY <1>6, <1>7, <2>1
      <3> QED
        BY <1>3, <1>5, <3>1, Part
    <2> QED
      BY <1>6, <1>7, <2>2
  <1>10. SubSeq(stream, rest + 1, end) = c.refs
    <2>1. \A r \in 1 .. e : stream[rest + r] = c.refs[r]
      <3> SUFFICES ASSUME NEW r \in 1 .. e PROVE stream[rest + r] = c.refs[r]
        OBVIOUS
      <3>1. Len(stream) - at >= 2 + d + r /\ at + 2 + d + r = rest + r
        BY <1>2, <1>3, <1>7
      <3> QED
        BY <1>2, <3>1
    <2> HIDE DEF rest, end
    <2>2. SubSeq(stream, rest + 1, rest + Len(c.refs)) = c.refs
      <3>1. rest \in Nat /\ rest + Len(c.refs) <= Len(stream)
            /\ \A k \in 1 .. Len(c.refs) : stream[rest + k] = c.refs[k]
        BY <1>6, <1>7, <2>1
      <3> QED
        BY <1>3, <1>5, <3>1, Part
    <2> QED
      BY <1>6, <1>7, <2>2
  <1> HIDE DEF rest, end
  <1>11. CellRead(cell) = [data |-> c.data, refs |-> c.refs]
    <2>1. cell.begin = at /\ stream[at + 1] % 8 = e
      BY <1>2, <1>4 DEF at
    <2>2. cell.begin + SizeAt(cell.begin) = end
      BY <1>7, <1>8, <2>1
    <2>3. CellRead(cell) = [data |-> SubSeq(stream, at + 3, end - e),
                            refs |-> SubSeq(stream, end - e + 1, end)]
      BY <2>1, <2>2 DEF CellRead
    <2> QED
      BY <1>7, <1>9, <1>10, <2>3
  <1> QED
    BY <1>3, <1>8, <1>11 DEF c, at

(***************************************************************************)
(* For every stream: the cells that are counted follow each other without  *)
(* a gap up to the cursor, which is in the stream.  What the getters and   *)
(* calc_cell_hash read of them without a look at the length is there.      *)
(***************************************************************************)
THEOREM CellsAlwaysInStream == BocSpec => []CellsInStream
  <1>1. BocInv => CellsInStream
    <2> SUFFICES ASSUME BocInv PROVE CellsInStream
      OBVIOUS
    <2> DEFINE m == Len(cells)
    <2>1. Placed /\ m \in Nat /\ (cells = << >> \/ WholeCells(m))
      BY DEF BocInv, Placed
    <2>2. offset <= Len(stream)
      BY <2>1 DEF Placed
    <2> HIDE DEF m
    <2>3. ASSUME NEW i \in 1 .. m
          PROVE  cells[i].begin + SizeAt(cells[i].begin)
                   = IF i < m THEN cells[i + 1].begin ELSE offset
      <3>1. WholeCells(m)
        BY <2>1, <2>3 DEF m
      <3>2. IsWhole(i)
        BY <2>1, <3>1, WholeCell
      <3>3. cells[i].begin = Begins(sent, i)
        BY <3>1 DEF WholeCells
      <3>4. SizeAt(cells[i].begin) = CodeSize(sent.cells[i])
        BY <2>1, <3>2, <3>3, CellIsRead
      <3>5. cells[i].begin + SizeAt(cells[i].begin) = Begins(sent, i + 1)
        BY <3>2, <3>3, <3>4 DEF IsWhole
      <3>6. CASE i < m
        <4>1. i + 1 \in 1 .. m
          BY <2>1, <3>6
        <4>2. cells[i + 1].begin = Begins(sent, i + 1)
          BY <3>1, <4>1 DEF WholeCells
        <4> QED
          BY <3>5, <3>6, <4>2
      <3>7. CASE ~(i < m)
        <4>1. i = m
          BY <2>1, <3>7
        <4>2. offset = Begins(sent, i + 1)
          BY <3>1, <4>1 DEF WholeCells
        <4> QED
          BY <3>5, <3>7, <4>2
      <3> QED
        BY <3>6, <3>7
    <2> QED
      BY <2>2, <2>3 DEF CellsInStream, m
  <1> QED
    BY <1>1, BocInvIsInvariant, PTL

\* The loop ends with all the cells that the tree of the items has.
LEMMA AllRead ==
  ASSUME Placed, next = "done", CellStage, NEW m, m = Len(cells), WholeCells(m)
  PROVE  /\ Result.err = SUCCESS
         /\ DOMAIN Result.bc.cells = 1 .. m
         /\ \A i \in 1 .. m :
              Result.bc.cells[i] = CellItem(sent.cells[i], Len(stream) - Begins(sent, i))
  <1>1. /\ IsSent(sent) /\ stream = Encode(sent) /\ count \in Nat /\ m \in Nat
        /\ HeaderGood /\ count = sent.header.cells_count
        /\ m <= Len(sent.cells) /\ m <= count /\ offset = Begins(sent, m + 1)
        /\ \A i \in 1 .. m : CodeOf(i - 1) = SUCCESS
    BY DEF Placed, WholeCells, Counted
  <1>2. m = count \/ (m > 0 /\ offset = Len(stream))
    BY DEF CellStage
  <1>3. Len(sent.cells) \in Nat /\ Len(stream) \in Nat /\ offset \in Nat
        /\ offset <= Len(stream)
    BY HeaderFacts DEF Placed, IsSent
  <1>4. PICK b : FirstBegun(b)
    BY <1>1, SomeBegun
  <1> DEFINE read == IF sent.header.cells_count < b THEN sent.header.cells_count ELSE b
  <1>5. b \in Nat /\ b <= Len(sent.cells)
    BY <1>3, <1>4 DEF FirstBegun
  <1>6. m <= b
    <2>1. CASE m = 0
      BY <1>5, <2>1
    <2>2. CASE m # 0
      <3> DEFINE at == Begins(sent, m)
                 size == CodeSize(sent.cells[m])
      <3>1. m \in 1 .. m
        BY <1>1, <2>2
      <3>2. IsWhole(m)
        BY <1>1, <3>1, WholeCell
      <3>3. /\ m \in 1 .. Len(sent.cells) /\ at + size <= offset
            /\ at \in Nat /\ IsCellSent(sent.cells[m]) /\ Len(stream) - at > 0
        BY <3>2 DEF IsWhole, Stands
      <3> HIDE DEF at
      <3>4. at < Len(stream)
        BY <1>3, <3>3
      <3> QED
        BY <1>4, <3>3, <3>4 DEF FirstBegun, at
    <2> QED
      BY <2>1, <2>2
  <1>7. read = m
    <2>1. CASE m = count
      BY <1>1, <1>5, <1>6, <2>1
    <2>2. CASE m > 0 /\ offset = Len(stream)
      <3>1. b <= m
        <4> SUFFICES ASSUME ~(b <= m) PROVE FALSE
          OBVIOUS
        <4>1. m + 1 <= b /\ m + 1 \in 1 .. Len(sent.cells)
          BY <1>1, <1>3, <1>5
        <4>2. Begins(sent, m + 1) < Len(stream)
          BY <1>4, <4>1 DEF FirstBegun
        <4> QED
          BY <1>1, <1>3, <2>2, <4>2
      <3> QED
        BY <1>1, <1>5, <1>6, <3>1
    <2> QED
      BY <1>2, <2>1, <2>2
  <1>8. \A i \in 0 .. read - 1 : CodeOf(i) = SUCCESS
    <2> SUFFICES ASSUME NEW i \in 0 .. m - 1 PROVE CodeOf(i) = SUCCESS
      BY <1>7
    <2>1. i + 1 \in 1 .. m /\ (i + 1) - 1 = i
      BY <1>1
    <2> QED
      BY <1>1, <2>1
  <1>9. sent.header.cells_count > 0 => read > 0
    BY <1>1, <1>2, <1>7
  <1>10. Result.err = SUCCESS /\ Result.bc.cells = SubSeq(ItemsSent, 2, m + 1)
    <2>1. HeaderGood =>
            (/\ \A i \in 0 .. read - 1 : CodeOf(i) = SUCCESS
             /\ sent.header.cells_count > 0 => read > 0
             => /\ Result.err = SUCCESS
                /\ Result.bc.cells = SubSeq(ItemsSent, 2, read + 1))
      BY <1>1, <1>4, TreeOf
    <2> HIDE DEF read
    <2> QED
      BY <1>1, <1>7, <1>8, <1>9, <2>1
  <1>11. ItemsAre(b) /\ m \in 0 .. b
    BY <1>1, <1>4, <1>5, <1>6, ItemsBegun
  <1>12. DOMAIN Result.bc.cells = 1 .. m
    BY <1>10, <1>11 DEF ItemsAre
  <1>13. ASSUME NEW i \in 1 .. m
         PROVE  Result.bc.cells[i]
                  = CellItem(sent.cells[i], Len(stream) - Begins(sent, i))
    <2>1. i \in 1 .. b
      BY <1>1, <1>5, <1>6
    <2> QED
      BY <1>10, <1>11, <2>1 DEF ItemsAre
  <1> QED
    BY <1>10, <1>12, <1>13

(***************************************************************************)
(* For every stream that is sent and wherever it is cut: the loop over the *)
(* bytes takes it if and only if the tree of its items is taken, with the  *)
(* same data and references in every cell, and throws the same error.      *)
(***************************************************************************)
THEOREM TreeAlwaysItems == BocSpec => []TreeIsItems
  <1>1. BocInv => TreeIsItems
    <2> SUFFICES ASSUME BocInv PROVE TreeIsItems
      OBVIOUS
    <2> DEFINE m == Len(cells)
               taken == Result.bc.cells
    <2>1. Placed /\ m \in Nat /\ DOMAIN cells = 1 .. m
      BY DEF BocInv, Placed
    <2>2. ASSUME next = "thrown", ~IsCut
          PROVE  Result.err = err
      BY <2>2 DEF BocInv, HeaderStage, CellStage, ThrownStage
    <2>3. ASSUME next = "done"
          PROVE  /\ ~IsCut /\ Result.err = SUCCESS
                 /\ [i \in DOMAIN cells |-> CellRead(cells[i])]
                      = [i \in DOMAIN taken |->
                           [data |-> taken[i].data[1].v, refs |-> taken[i].refs]]
      <3>1. CellStage /\ WholeCells(m)
        BY <2>3 DEF BocInv, HeaderStage, ThrownStage
      <3> HIDE DEF m
      <3>2. ~IsCut
        <4>1. /\ IsSent(sent) /\ stream = Encode(sent) /\ m <= Len(sent.cells)
              /\ offset = Begins(sent, m + 1)
          BY <2>1, <3>1 DEF Placed, WholeCells
        <4>2. /\ Len(sent.cells) \in Nat /\ Len(stream) \in Nat /\ offset \in Nat
              /\ offset <= Len(stream) /\ Begins(sent, 1) = HeaderSize
          BY <2>1, HeaderFacts DEF Placed, IsSent
        <4>3. Begins(sent, 1) <= Begins(sent, m + 1)
          <5>1. /\ 1 \in 1 .. Len(sent.cells) + 1 /\ m + 1 \in 1 .. Len(sent.cells) + 1
                /\ 1 <= m + 1
            BY <2>1, <4>1, <4>2
          <5>2. IsLaid(sent, stream)
            BY <4>1, StreamIsLaid
          <5> QED
            BY <5>1, <5>2 DEF IsLaid
        <4>4. HeaderSize \in Nat
          <5>1. IsHeader(sent.header)
            BY <4>1 DEF IsSent
          <5>2. EncodeHeader(sent.header) \in Seq(Bytes)
            BY <5>1, HeaderBytes DEF HeaderLaid
          <5> QED
            BY <5>2 DEF HeaderSize
        <4> QED
          BY <4>1, <4>2, <4>3, <4>4 DEF IsCut
      <3>3. /\ Result.err = SUCCESS /\ DOMAIN taken = 1 .. m
            /\ \A i \in 1 .. m :
                 taken[i] = CellItem(sent.cells[i], Len(stream) - Begins(sent, i))
        BY <2>1, <2>3, <3>1, AllRead DEF m
      <3> HIDE DEF taken
      <3>4. ASSUME NEW i \in 1 .. m
            PROVE  CellRead(cells[i])
                     = [data |-> taken[i].data[1].v, refs |-> taken[i].refs]
        <4>1. IsWhole(i)
          BY <2>1, <3>1, WholeCell
        <4>2. cells[i].begin = Begins(sent, i)
          BY <3>1 DEF WholeCells
        <4>3. CellRead(cells[i])
                = [data |-> sent.cells[i].data, refs |-> sent.cells[i].refs]
          BY <2>1, <4>1, <4>2, CellIsRead
        <4>4. /\ taken[i].data[1].v = sent.cells[i].data
              /\ taken[i].refs = sent.cells[i].refs
          BY <3>3 DEF CellItem, Fld
        <4> QED
          BY <4>3, <4>4
      <3>5. [i \in DOMAIN cells |-> CellRead(cells[i])]
              = [i \in 1 .. m |-> [data |-> taken[i].data[1].v, refs |-> taken[i].refs]]
        BY <2>1, <3>4
      <3> QED
        BY <3>2, <3>3, <3>5
    <2> QED
      BY <2>2, <2>3 DEF TreeIsItems, Result, IsCut, HeaderSize
  <1> QED
    BY <1>1, BocInvIsInvariant, PTL
=============================================================================
