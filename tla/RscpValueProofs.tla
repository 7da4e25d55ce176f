--------------------------- MODULE RscpValueProofs ---------------------------
(***************************************************************************)
(* What the codec keeps to, whatever is appended: a container stays within *)
(* its memory and its elements lie one behind the other.                   *)
(***************************************************************************)
EXTENDS RscpValue, DataInduction

-----------------------------------------------------------------------------
(* Sequences of anything *)

IsSeq(s) == \E S : s \in Seq(S)

LEMMA AppendSeq ==
  ASSUME NEW s, IsSeq(s), NEW e
  PROVE  /\ IsSeq(Append(s, e))
         /\ Len(Append(s, e)) = Len(s) + 1
         /\ DOMAIN Append(s, e) = 1..Len(s) + 1
         /\ \A i \in 1..Len(s) : Append(s, e)[i] = s[i]
         /\ Append(s, e)[Len(s) + 1] = e
<1>1. PICK S : s \in Seq(S)
  BY DEF IsSeq
<1> DEFINE T == S \cup {e}
<1>2. s \in Seq(T) /\ e \in T
  BY <1>1
<1> HIDE DEF T
<1>3. Append(s, e) \in Seq(T)
  BY <1>2
<1> QED BY <1>2, <1>3 DEF IsSeq

LEMMA SeqDomain ==
  ASSUME NEW s, IsSeq(s)
  PROVE  Len(s) \in Nat /\ DOMAIN s = 1..Len(s)
BY DEF IsSeq

LEMMA EmptySeq == IsSeq(<<>>) /\ Len(<<>>) = 0
<1>1. <<>> \in Seq({})
  OBVIOUS
<1> QED BY <1>1 DEF IsSeq

-----------------------------------------------------------------------------
(* Values *)

IsValue(v) ==
  /\ v = [tag |-> v.tag, length |-> v.length, content |-> v.content,
          allocated |-> v.allocated, items |-> v.items]
  /\ v.length \in Nat
  /\ IsSeq(v.items)

\* The place behind the first n elements.
Behind(v, n) == IF n = 0 THEN 0 ELSE ItemEnd(v.items[n])

\* A container as long as its memory, its elements one behind the other up to
\* its end.
Fits(v) ==
  /\ IsValue(v)
  /\ v.length <= RSCP_MAX_DATA_LENGTH
  /\ v.allocated = v.length
  /\ Behind(v, Len(v.items)) = v.length
  /\ \A i \in DOMAIN v.items : /\ v.items[i].at = Behind(v, i - 1)
                               /\ v.items[i].value.length \in Nat
                               /\ ItemEnd(v.items[i]) \in 0..v.length

LEMMA DataIsValue ==
  ASSUME NEW tag, NEW length \in Nat, NEW content
  PROVE  /\ IsValue(Data(tag, length, content))
         /\ Data(tag, length, content).length = length
         /\ Data(tag, length, content).tag = tag
         /\ Data(tag, length, content).content = content
         /\ Data(tag, length, content).items = <<>>
         /\ Data(tag, length, content).allocated = length
BY EmptySeq DEF Data, IsValue

\* The fields of a value an element was appended to, if there was room for it.
LEMMA Appended ==
  ASSUME NEW r, IsValue(r), NEW v, NEW n \in Nat
  PROVE  /\ IsValue(Append16(r, v, n))
         /\ Append16(r, v, n).tag = r.tag
         /\ Append16(r, v, n).content = r.content
         /\ r.length + n > RSCP_MAX_DATA_LENGTH => Append16(r, v, n) = r
         /\ r.length + n <= RSCP_MAX_DATA_LENGTH =>
              /\ Append16(r, v, n).length = r.length + n
              /\ Append16(r, v, n).allocated = r.length + n
              /\ Append16(r, v, n).items = Append(r.items, Item(r.length, v))
<1> DEFINE t == r.tag
           l == r.length
           c == r.content
           a == r.allocated
           s == r.items
           w == Append(s, Item(l, v))
<1>1. r = [tag |-> t, length |-> l, content |-> c, allocated |-> a, items |-> s]
      /\ l \in Nat /\ IsSeq(s)
  BY DEF IsValue
<1>2. IsSeq(w)
  BY <1>1, AppendSeq
<1> HIDE DEF t, l, c, a, s, w
<1>3. CASE l + n > RSCP_MAX_DATA_LENGTH
  <2>1. Append16(r, v, n) = r
    BY <1>1, <1>3 DEF Append16
  <2> QED BY <2>1, <1>1, <1>3 DEF RSCP_MAX_DATA_LENGTH, IsValue, l
<1>4. CASE l + n <= RSCP_MAX_DATA_LENGTH
  <2>1. l + n \in Nat /\ Uint16(l + n) = l + n
    BY <1>1, <1>4 DEF Uint16, Uint16Limit, RSCP_MAX_DATA_LENGTH
  <2>2. Append16(r, v, n) =
          [tag |-> t, length |-> l + n, content |-> c, allocated |-> l + n, items |-> w]
    <3>1. ~(l + n > RSCP_MAX_DATA_LENGTH)
      BY <1>1, <1>4 DEF RSCP_MAX_DATA_LENGTH
    <3>2. Append16(r, v, n) =
            [tag |-> t, content |-> c, length |-> Uint16(l + n), allocated |-> l + n, items |-> w]
      BY <3>1, Zenon DEF Append16, w, t, l, c, s
    <3> QED BY <3>2, <2>1
  <2>3. /\ IsValue(Append16(r, v, n))
        /\ Append16(r, v, n).tag = t /\ Append16(r, v, n).content = c
        /\ Append16(r, v, n).length = l + n /\ Append16(r, v, n).allocated = l + n
        /\ Append16(r, v, n).items = w
    BY <2>1, <2>2, <1>2 DEF IsValue
  <2> QED BY <2>3, <1>1, <1>4 DEF RSCP_MAX_DATA_LENGTH, t, l, c, s, w
<1> QED BY <1>1, <1>3, <1>4 DEF RSCP_MAX_DATA_LENGTH

\* Growing by what the element takes keeps a container in order.
LEMMA AppendFits ==
  ASSUME NEW r, Fits(r), NEW v, v.length \in Nat
  PROVE  Fits(Append16(r, v, HeaderSize + v.length))
<1> DEFINE n == HeaderSize + v.length
           q == Append16(r, v, n)
           k == Len(r.items)
<1>1. IsValue(r) /\ n \in Nat /\ r.length \in Nat /\ n = HeaderSize + v.length /\ IsSeq(r.items)
  BY DEF Fits, HeaderSize, IsValue
<1> HIDE DEF n
<1>2. CASE r.length + n > RSCP_MAX_DATA_LENGTH
  BY <1>1, <1>2, Appended DEF n
<1>3. CASE r.length + n <= RSCP_MAX_DATA_LENGTH
  <2>1. /\ IsValue(q) /\ q.length = r.length + n /\ q.allocated = r.length + n
        /\ q.items = Append(r.items, Item(r.length, v))
    BY <1>1, <1>3, Appended
  <2>2. /\ k \in Nat /\ DOMAIN r.items = 1..k
        /\ Len(q.items) = k + 1 /\ DOMAIN q.items = 1..k + 1
        /\ \A i \in 1..k : q.items[i] = r.items[i]
        /\ q.items[k + 1] = Item(r.length, v)
    BY <1>1, <2>1, AppendSeq, SeqDomain
  <2> HIDE DEF q, k
  <2>3. /\ ItemEnd(q.items[k + 1]) = q.length /\ q.length \in Nat
        /\ q.items[k + 1].at = r.length /\ q.items[k + 1].value.length \in Nat
    <3>1. q.items[k + 1].at = r.length /\ q.items[k + 1].value = v
      BY <2>2 DEF Item
    <3>2. ItemEnd(q.items[k + 1]) = r.length + HeaderSize + v.length
      BY <3>1 DEF ItemEnd
    <3>3. r.length + HeaderSize + v.length = r.length + n /\ r.length + n \in Nat
      BY <1>1 DEF HeaderSize
    <3> QED BY <3>1, <3>2, <3>3, <2>1
  <2>4. Behind(q, k + 1) = q.length
    BY <2>2, <2>3 DEF Behind
  <2>5. \A i \in 0..k : Behind(q, i) = Behind(r, i)
    BY <2>2 DEF Behind
  <2>6. ASSUME NEW i \in 1..k + 1
        PROVE  /\ q.items[i].at = Behind(q, i - 1) /\ ItemEnd(q.items[i]) \in 0..q.length
               /\ q.items[i].value.length \in Nat
    <3>1. CASE i = k + 1
      <4>1. Behind(r, k) = r.length
        BY DEF Fits, k
      <4> QED BY <3>1, <4>1, <2>1, <2>2, <2>3, <2>5, <1>1
    <3>2. CASE i \in 1..k
      <4>1. /\ r.items[i].at = Behind(r, i - 1) /\ ItemEnd(r.items[i]) \in 0..r.length
            /\ r.items[i].value.length \in Nat
        BY <3>2, <2>2 DEF Fits
      <4>2. Behind(q, i - 1) = Behind(r, i - 1) /\ q.items[i] = r.items[i]
        BY <3>2, <2>2, <2>5
      <4>3. ItemEnd(r.items[i]) \in 0..r.length + n
        BY <4>1, <1>1
      <4> QED BY <4>1, <4>2, <4>3, <2>1
    <3> QED BY <3>1, <3>2, <2>2
  <2>7. Behind(q, Len(q.items)) = q.length
    BY <2>2, <2>4
  <2> QED BY <2>1, <2>2, <2>6, <2>7, <1>3 DEF Fits, n, q
<1> QED BY <1>1, <1>2, <1>3 DEF n, RSCP_MAX_DATA_LENGTH

LEMMA DataLengths == \A n \in 0..RSCP_MAX_DATA_LENGTH : n \in Nat /\ n <= RSCP_MAX_DATA_LENGTH
<1>1. RSCP_MAX_DATA_LENGTH \in Int
  BY DEF RSCP_MAX_DATA_LENGTH
<1> QED BY <1>1

LEMMA AsAppended ==
  ASSUME NEW r, NEW v, v.length \in Nat
  PROVE  /\ AppendContainer(r, v) = Append16(r, v, HeaderSize + v.length)
         /\ v.length <= RSCP_MAX_DATA_LENGTH =>
              AppendValue(r, v) = Append16(r, v, HeaderSize + v.length)
<1>1. v.length <= RSCP_MAX_DATA_LENGTH => Uint16(HeaderSize + v.length) = HeaderSize + v.length
  BY DEF Uint16, Uint16Limit, HeaderSize, RSCP_MAX_DATA_LENGTH
<1> QED BY <1>1 DEF AppendContainer, AppendValue

\* A container without elements is in order.
LEMMA EmptyFits == \A tag : Fits(CreateContainerValue(tag))
<1> SUFFICES ASSUME NEW tag PROVE Fits(CreateContainerValue(tag))
  OBVIOUS
<1> DEFINE v == Data(tag, 0, 0)
<1>1. IsValue(v) /\ v.length = 0 /\ v.items = <<>> /\ v.allocated = 0
  BY DataIsValue
<1> HIDE DEF v
<1>2. Fits(v)
  BY <1>1, EmptySeq DEF Fits, Behind, RSCP_MAX_DATA_LENGTH
<1> QED BY <1>2 DEF v, CreateContainerValue

\* appendValue(response, tag, value): with data of up to 65528 bytes, the most that
\* the sum in 16 bits holds, the container stays in order, and its memory is what
\* its length says, whether the element found room or not.
THEOREM ElementKeepsFit ==
  ASSUME NEW r, Fits(r), NEW v, v.length \in 0..RSCP_MAX_DATA_LENGTH
  PROVE  Fits(AppendValue(r, v))
<1>1. v.length \in Nat /\ v.length <= RSCP_MAX_DATA_LENGTH
  BY DataLengths
<1> QED BY <1>1, AppendFits, AsAppended

\* appendValue(response, container), whose sum has 32 bits: for every container.
THEOREM ContainerKeepsFit ==
  ASSUME NEW r, Fits(r), NEW v, v.length \in Nat
  PROVE  Fits(AppendContainer(r, v))
BY AppendFits, AsAppended

\* createFrameAsBuffer: the frame is as long as its header says, and its checksum
\* covers header and data exactly when the data has at most 65517 bytes, 11 less
\* than the codec allows (calculateCRC32 takes a uint16_t).
THEOREM ChecksumCoversFrame ==
  ASSUME NEW root, Fits(root)
  PROVE  LET frame == CreateFrameAsBuffer(root)
         IN /\ FrameIsSound(frame)
            /\ frame.dataLength = root.length
            /\ frame.crcCovers = FrameHeaderSize + frame.dataLength <=> root.length <= 65517
<1> DEFINE n == root.length
           frame == CreateFrameAsBuffer(root)
<1>1. n \in Nat /\ n <= 65528
  BY DEF Fits, IsValue, RSCP_MAX_DATA_LENGTH
<1>2. /\ frame.dataLength = Uint16(n)
      /\ frame.length = FrameHeaderSize + Uint16(n) + RSCP_CRC_SIZE_BYTES
      /\ frame.crcCovers = Uint16(FrameHeaderSize + Uint16(n))
  BY DEF CreateFrameAsBuffer
<1> HIDE DEF n, frame
<1>3. Uint16(n) = n
  BY <1>1 DEF Uint16, Uint16Limit
<1>4. Uint16(FrameHeaderSize + n) = FrameHeaderSize + n <=> n <= 65517
  BY <1>1 DEF Uint16, Uint16Limit, FrameHeaderSize
<1>5. FrameIsSound(frame)
  BY <1>1, <1>2, <1>3 DEF FrameIsSound, FrameHeaderSize, RSCP_CRC_SIZE_BYTES
<1>6. frame.dataLength = n /\ (frame.crcCovers = FrameHeaderSize + frame.dataLength <=> n <= 65517)
  BY <1>2, <1>3, <1>4
<1> QED BY <1>5, <1>6 DEF n, frame

-----------------------------------------------------------------------------
(* Taking apart *)

\* The values of the elements behind the first k.
ValuesFrom(items, k) == [j \in 1..Len(items) - k |-> items[k + j].value]

\* All the elements of a container, in their order.
ValuesOf(v) == [i \in DOMAIN v.items |-> v.items[i].value]

LEMMA OneMore ==
  ASSUME NEW items, Len(items) \in Nat, NEW k \in 0..Len(items) - 1
  PROVE  <<items[k + 1].value>> \o ValuesFrom(items, k + 1) = ValuesFrom(items, k)
<1> DEFINE n == Len(items)
           S == {items[i].value : i \in 1..n}
           a == ValuesFrom(items, k)
           b == ValuesFrom(items, k + 1)
           e == items[k + 1].value
<1>1. n \in Nat /\ k \in Nat /\ n - k \in Nat /\ n - (k + 1) \in Nat
  OBVIOUS
<1>2. a \in Seq(S) /\ Len(a) = n - k
  <2>1. \A j \in 1..n - k : items[k + j].value \in S
    OBVIOUS
  <2> QED BY <1>1, <2>1 DEF ValuesFrom
<1>3. b \in Seq(S) /\ Len(b) = n - (k + 1)
  <2>1. ASSUME NEW j \in 1..n - (k + 1) PROVE items[k + 1 + j].value \in S
    <3>1. k + 1 + j \in 1..n
      BY <1>1
    <3> QED BY <3>1
  <2> QED BY <1>1, <2>1 DEF ValuesFrom
<1>4. e \in S /\ a[1] = e
  BY DEF ValuesFrom
<1>5. \A j \in 1..n - (k + 1) : a[j + 1] = b[j]
  BY <1>1 DEF ValuesFrom
<1> HIDE DEF n, S, a, b, e
<1>6. <<e>> \o b \in Seq(S) /\ Len(<<e>> \o b) = n - k
  BY <1>1, <1>3, <1>4
<1>7. ASSUME NEW j \in 1..n - k PROVE (<<e>> \o b)[j] = a[j]
  <2>1. CASE j = 1
    BY <2>1, <1>3, <1>4
  <2>2. CASE j # 1
    <3>1. j - 1 \in 1..n - (k + 1) /\ (j - 1) + 1 = j
      BY <2>2, <1>1
    <3>2. (<<e>> \o b)[j] = b[j - 1]
      BY <3>1, <1>1, <1>3, <1>4
    <3> QED BY <3>1, <3>2, <1>5
  <2> QED BY <2>1, <2>2
<1>8. <<e>> \o b = a
  BY <1>2, <1>6, <1>7
<1> QED BY <1>8 DEF e, a, b

\* The places of the elements in a container that fits.
LEMMA PlacesInOrder ==
  ASSUME NEW v, Fits(v)
  PROVE  LET n == Len(v.items)
         IN /\ n \in Nat /\ v.length \in Nat /\ DOMAIN v.items = 1..n
            /\ Behind(v, 0) = 0 /\ Behind(v, n) = v.length
            /\ \A k \in 0..n : Behind(v, k) \in 0..v.length
            /\ \A k \in 0..n - 1 : /\ v.items[k + 1].at = Behind(v, k)
                                   /\ v.items[k + 1].value.length \in Nat
                                   /\ Behind(v, k + 1) = Behind(v, k) + HeaderSize + v.items[k + 1].value.length
            /\ \A j \in 0..n : \A k \in 0..j - 1 : Behind(v, k) < Behind(v, j)
<1> DEFINE n == Len(v.items)
           B(k) == Behind(v, k)
           T == {j \in 0..n : \A k \in 0..j - 1 : B(k) < B(j)}
<1>1. n \in Nat /\ v.length \in Nat /\ DOMAIN v.items = 1..n
  BY SeqDomain DEF Fits, IsValue
<1>2. B(0) = 0 /\ B(n) = v.length
  BY DEF Behind, Fits
<1>3. ASSUME NEW k \in 0..n PROVE B(k) \in 0..v.length
  <2>1. CASE k = 0
    BY <2>1, <1>1, <1>2
  <2>2. CASE k # 0
    <3>1. k \in 1..n
      BY <2>2, <1>1
    <3> QED BY <3>1, <2>2, <1>1 DEF Behind, Fits
  <2> QED BY <2>1, <2>2
<1>4. ASSUME NEW k \in 0..n - 1
      PROVE  /\ v.items[k + 1].at = B(k)
             /\ v.items[k + 1].value.length \in Nat
             /\ B(k + 1) = B(k) + HeaderSize + v.items[k + 1].value.length
  <2>1. k + 1 \in 1..n /\ (k + 1) - 1 = k /\ k + 1 # 0
    BY <1>1
  <2>2. v.items[k + 1].at = B(k) /\ v.items[k + 1].value.length \in Nat
    BY <2>1, <1>1 DEF Fits
  <2>3. B(k + 1) = ItemEnd(v.items[k + 1])
    BY <2>1 DEF Behind
  <2> QED BY <2>2, <2>3 DEF ItemEnd
<1> HIDE DEF n, B
<1>5. 0 \in T
  BY <1>1
<1>6. ASSUME NEW j \in 0..n - 1, j \in T PROVE j + 1 \in T
  <2>1. j + 1 \in 0..n /\ j \in 0..n
    BY <1>1
  <2>2. B(j) \in Nat /\ B(j) < B(j + 1)
    <3> DEFINE l == v.items[j + 1].value.length
    <3>1. l \in Nat /\ B(j + 1) = B(j) + HeaderSize + l
      BY <1>4
    <3>2. B(j) \in Nat
      BY <2>1, <1>1, <1>3
    <3> HIDE DEF l
    <3> QED BY <3>1, <3>2 DEF HeaderSize
  <2>3. ASSUME NEW k \in 0..(j + 1) - 1 PROVE B(k) < B(j + 1)
    <3>1. CASE k = j
      BY <3>1, <2>2
    <3>2. CASE k # j
      <4>1. k \in 0..j - 1 /\ k \in 0..n /\ j + 1 \in 0..n
        BY <3>2, <1>1
      <4>2. B(k) < B(j)
        BY <4>1, <1>6
      <4>3. B(k) \in Nat /\ B(j + 1) \in Nat
        BY <4>1, <1>1, <1>3
      <4> QED BY <4>2, <4>3, <2>2
    <3> QED BY <3>1, <3>2
  <2> QED BY <2>1, <2>3
<1> HIDE DEF T
<1>7. 0..n \subseteq T
  BY <1>1, <1>5, <1>6, SetInductionTo
<1>8. \A j \in 0..n : \A k \in 0..j - 1 : B(k) < B(j)
  BY <1>7 DEF T
<1> QED BY <1>1, <1>2, <1>3, <1>4, <1>8 DEF n, B

\* parseData gives back what appendValue laid down: of a container that fits, all its
\* elements in their order, and nothing else.
THEOREM TakenApart ==
  ASSUME NEW v, Fits(v)
  PROVE  ParseData(v.items, v.length) = ValuesOf(v)
<1> DEFINE n == Len(v.items)
           length == v.length
           B(k) == Behind(v, k)
           Value(k) == v.items[k].value
           At(pos) == {i \in DOMAIN v.items : v.items[i].at = pos}
           First(pos) == v.items[CHOOSE i \in At(pos) : TRUE].value
           Step(g, pos) == IF pos < length /\ At(pos) # {}
                           THEN IF pos + First(pos).length <= length
                                THEN <<First(pos)>> \o g[pos + HeaderSize + First(pos).length]
                                ELSE <<>>
                           ELSE <<>>
           Walk == CHOOSE g : g = [pos \in Nat |-> Step(g, pos)]
           Rest(k) == ValuesFrom(v.items, k)
<1>1. ParseData(v.items, v.length) = Walk[0]
  BY DEF ParseData
<1>2. /\ n \in Nat /\ length \in Nat /\ DOMAIN v.items = 1..n
      /\ B(0) = 0 /\ B(n) = length
      /\ \A k \in 0..n : B(k) \in 0..length
      /\ \A k \in 0..n - 1 : /\ v.items[k + 1].at = B(k)
                             /\ Value(k + 1).length \in Nat
                             /\ B(k + 1) = B(k) + HeaderSize + Value(k + 1).length
      /\ \A j \in 0..n : \A k \in 0..j - 1 : B(k) < B(j)
  BY PlacesInOrder
<1>3. \A k \in 0..n - 1 : <<Value(k + 1)>> \o Rest(k + 1) = Rest(k)
  BY <1>2, OneMore
<1>4. Rest(n) = <<>> /\ Rest(0) = ValuesOf(v)
  <2>1. Len(v.items) \in Nat /\ DOMAIN v.items = 1..Len(v.items)
    BY <1>2
  <2>2. Rest(n) = <<>>
    BY <2>1 DEF ValuesFrom
  <2>3. Rest(0) = ValuesOf(v)
    BY <2>1 DEF ValuesFrom, ValuesOf
  <2> QED BY <2>2, <2>3
<1> HIDE DEF n, length, B, Rest
\* The element at the place behind the first k is the next one.
<1>5. ASSUME NEW k \in 0..n - 1 PROVE At(B(k)) = {k + 1}
  <2>1. k + 1 \in 1..n /\ k \in 0..n
    BY <1>2
  <2>2. ASSUME NEW i \in 1..n, v.items[i].at = B(k) PROVE i = k + 1
    <3>1. i - 1 \in 0..n - 1 /\ (i - 1) + 1 = i /\ i - 1 \in 0..n
      BY <1>2
    <3>2. B(i - 1) = B(k) /\ B(k) \in Nat
      BY <3>1, <2>1, <2>2, <1>2
    <3>5. \A j \in 0..n : \A l \in 0..j - 1 : B(l) < B(j)
      BY <1>2
    <3>3. ~(i - 1 < k)
      <4>1. i - 1 < k => i - 1 \in 0..k - 1
        BY <3>1, <2>1, <1>2
      <4> QED BY <4>1, <3>2, <3>5, <2>1
    <3>4. ~(k < i - 1)
      <4>1. k < i - 1 => k \in 0..(i - 1) - 1
        BY <3>1, <2>1, <1>2
      <4> QED BY <4>1, <3>1, <3>2, <3>5
    <3> QED BY <3>1, <3>3, <3>4, <2>1, <1>2
  <2> QED BY <2>1, <2>2, <1>2
<1>6. At(length) = {}
  <2>1. ASSUME NEW i \in 1..n, v.items[i].at = length PROVE FALSE
    <3>1. i - 1 \in 0..n - 1 /\ (i - 1) + 1 = i /\ n \in 0..n
      BY <1>2
    <3>2. B(i - 1) < B(n) /\ B(i - 1) = length
      BY <3>1, <2>1, <1>2
    <3> QED BY <3>2, <1>2
  <2> QED BY <2>1, <1>2
<1>7. ASSUME NEW k \in 0..n - 1, NEW g
      PROVE  Step(g, B(k)) = <<Value(k + 1)>> \o g[B(k + 1)]
  <2>1. First(B(k)) = Value(k + 1) /\ At(B(k)) # {}
    BY <1>5
  <2>2. k \in 0..n /\ k + 1 \in 0..n
    BY <1>2
  <2> HIDE DEF At, First
  <2>3. B(k) \in Nat /\ B(k + 1) \in 0..length /\ B(k + 1) = B(k) + HeaderSize + Value(k + 1).length
        /\ Value(k + 1).length \in Nat
    BY <2>2, <1>2
  <2> HIDE DEF Value
  <2>4. B(k) < length /\ B(k) + Value(k + 1).length <= length
    BY <2>3, <1>2 DEF HeaderSize
  <2> QED BY <2>1, <2>3, <2>4
\* There is such a function, ...
<1>8. Walk = [pos \in Nat |-> Step(Walk, pos)]
  <2> DEFINE W == [pos \in Nat |-> IF \E k \in 0..n - 1 : B(k) = pos
                                   THEN Rest(CHOOSE k \in 0..n - 1 : B(k) = pos) ELSE <<>>]
  <2>1. ASSUME NEW k \in 0..n PROVE W[B(k)] = Rest(k)
    <3>1. B(k) \in Nat
      BY <1>2
    <3>2. CASE k \in 0..n - 1
      <4>1. \A j \in 0..n - 1 : B(j) = B(k) => j = k
        <5>1. \A j \in 0..n - 1 : At(B(j)) = {j + 1}
          BY <1>5
        <5> HIDE DEF At, B
        <5>2. ASSUME NEW j \in 0..n - 1, B(j) = B(k) PROVE j = k
          <6>1. {j + 1} = {k + 1}
            BY <5>1, <5>2, <3>2
          <6>2. j + 1 = k + 1
            BY <6>1
          <6> QED BY <6>2, <3>2, <1>2
        <5> QED BY <5>2
      <4> QED BY <4>1, <3>1, <3>2
    <3>3. CASE k = n
      <4>1. \A j \in 0..n - 1 : B(j) # B(n)
        <5>1. \A j \in 0..n - 1 : At(B(j)) = {j + 1}
          BY <1>5
        <5>2. At(B(n)) = {}
          BY <1>2, <1>6
        <5> HIDE DEF At
        <5> QED BY <5>1, <5>2
      <4> QED BY <4>1, <3>1, <3>3, <1>4
    <3> QED BY <3>2, <3>3, <1>2
  <2>2. ASSUME NEW pos \in Nat PROVE W[pos] = Step(W, pos)
    <3>1. CASE \E k \in 0..n - 1 : B(k) = pos
      <4>1. PICK k \in 0..n - 1 : B(k) = pos
        BY <3>1
      <4>2. k \in 0..n /\ k + 1 \in 0..n
        BY <1>2
      <4>3. W[B(k)] = Rest(k) /\ W[B(k + 1)] = Rest(k + 1)
        BY <4>2, <2>1
      <4> HIDE DEF W, Step
      <4> QED BY <4>1, <4>3, <1>3, <1>7
    <3>2. CASE ~\E k \in 0..n - 1 : B(k) = pos
      <4>1. At(pos) = {}
        <5>1. ASSUME NEW i \in 1..n, v.items[i].at = pos PROVE FALSE
          <6>1. i - 1 \in 0..n - 1 /\ (i - 1) + 1 = i
            BY <1>2
          <6>2. B(i - 1) = pos
            BY <6>1, <5>1, <1>2
          <6> QED BY <6>1, <6>2, <3>2
        <5> QED BY <5>1, <1>2
      <4>2. W[pos] = <<>>
        BY <3>2
      <4> HIDE DEF W, At
      <4> QED BY <4>1, <4>2
    <3> QED BY <3>1, <3>2
  <2>3. W = [pos \in Nat |-> W[pos]]
    OBVIOUS
  <2> HIDE DEF W, Step
  <2>4. W = [pos \in Nat |-> Step(W, pos)]
    BY <2>2, <2>3
  <2> QED BY <2>4
<1> HIDE DEF Walk
<1>9. \A pos \in Nat : Walk[pos] = Step(Walk, pos)
  <2> HIDE DEF Step
  <2> QED BY <1>8
\* ... and it goes from element to element.
<1> DEFINE T == {k \in 0..n : Walk[B(k)] = Rest(k)}
<1>10. n \in T
  <2>1. Walk[length] = <<>>
    <3>1. Step(Walk, length) = <<>>
      BY <1>6
    <3> HIDE DEF Step
    <3> QED BY <3>1, <1>2, <1>9
  <2> QED BY <2>1, <1>2, <1>4
<1>11. ASSUME NEW k \in 0..n - 1, k + 1 \in T PROVE k \in T
  <2>1. k \in 0..n /\ B(k) \in Nat /\ Walk[B(k + 1)] = Rest(k + 1)
    BY <1>2, <1>11
  <2>2. Walk[B(k)] = <<Value(k + 1)>> \o Walk[B(k + 1)]
    <3> HIDE DEF Step
    <3> QED BY <2>1, <1>7, <1>9
  <2> QED BY <2>1, <2>2, <1>3
<1> HIDE DEF T
<1>12. 0..n \subseteq T
  BY <1>2, <1>10, <1>11, SetInductionDown
<1>13. 0 \in T
  BY <1>12, <1>2
<1>14. Walk[B(0)] = Rest(0)
  BY <1>13 DEF T
<1> QED BY <1>1, <1>2, <1>4, <1>14

\* The values of a frame are the elements it was built from.
THEOREM FrameTakenApart ==
  ASSUME NEW root, Fits(root)
  PROVE  ParseFrame(CreateFrameAsBuffer(root)) = ValuesOf(root)
<1> DEFINE frame == CreateFrameAsBuffer(root)
<1>1. FrameIsSound(frame) /\ frame.dataLength = root.length
  BY ChecksumCoversFrame
<1>2. frame.items = root.items
  BY DEF CreateFrameAsBuffer
<1> HIDE DEF frame
<1>3. ParseFrame(frame) = ParseData(root.items, root.length)
  BY <1>1, <1>2 DEF ParseFrame
<1> QED BY <1>3, TakenApart DEF frame
=============================================================================
