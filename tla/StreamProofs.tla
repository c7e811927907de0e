---------------------------- MODULE StreamProofs ----------------------------
(***************************************************************************)
(* Proofs about a stream from end to end, for any dials, whatever they     *)
(* write, and any limits of the wire.  What a reader makes of the bytes    *)
(* that have arrived is stated by what has not: of the bytes `b` that did  *)
(* and the `x` that are to come, b \o x is what was written.               *)
(***************************************************************************)
EXTENDS Stream, TLAPS

Bytes == Seq(Nat)
-----------------------------------------------------------------------------
(* Sequences of bytes *)

LEMMA CatBytes ==
  ASSUME NEW k1 \in Bytes, NEW k2 \in Bytes
  PROVE  k1 \o k2 \in Bytes /\ Len(k1 \o k2) = Len(k1) + Len(k2)
BY DEF Bytes

LEMMA Same ==
  ASSUME NEW k1 \in Bytes, NEW k2 \in Bytes, Len(k1) = Len(k2),
         \A i \in 1..Len(k1) : k1[i] = k2[i]
  PROVE  k1 = k2
<1>1. k1 = [i \in 1..Len(k1) |-> k1[i]] /\ k2 = [i \in 1..Len(k2) |-> k2[i]]
  BY DEF Bytes
<1> QED BY <1>1

LEMMA SliceOf ==
  ASSUME NEW b \in Bytes, NEW m \in 1..(Len(b) + 1), NEW n \in (m - 1)..Len(b)
  PROVE  /\ SubSeq(b, m, n) \in Bytes /\ Len(SubSeq(b, m, n)) = n - m + 1
         /\ \A i \in 1..(n - m + 1) : SubSeq(b, m, n)[i] = b[m + i - 1]
<1>1. m \in Nat \ {0} /\ n \in Nat /\ n <= Len(b) /\ m <= n + 1 /\ Len(b) \in Nat
  BY DEF Bytes
<1>2. \A i \in m..n : b[i] \in Nat
  BY <1>1 DEF Bytes
<1>3. SubSeq(b, m, n) = [i \in 1..(1 + n - m) |-> b[i + m - 1]]
  BY <1>1
<1>4. n - m + 1 = 1 + n - m /\ 1 + n - m \in Nat
  BY <1>1
<1>5. [i \in 1..(1 + n - m) |-> b[i + m - 1]] \in Bytes
  BY <1>1, <1>2, <1>4 DEF Bytes
<1> QED BY <1>1, <1>3, <1>4, <1>5 DEF Bytes

LEMMA CatAt ==
  ASSUME NEW k1 \in Bytes, NEW k2 \in Bytes
  PROVE  /\ \A i \in 1..Len(k1) : (k1 \o k2)[i] = k1[i]
         /\ \A i \in 1..Len(k2) : (k1 \o k2)[Len(k1) + i] = k2[i]
BY DEF Bytes

LEMMA CatEmpty ==
  ASSUME NEW k1 \in Bytes
  PROVE  k1 \o <<>> = k1 /\ <<>> \o k1 = k1
BY DEF Bytes

LEMMA CatAssoc ==
  ASSUME NEW k1 \in Bytes, NEW k2 \in Bytes, NEW k3 \in Bytes
  PROVE  (k1 \o k2) \o k3 = k1 \o (k2 \o k3)
<1> DEFINE l == (k1 \o k2) \o k3
           r == k1 \o (k2 \o k3)
<1>1. /\ l \in Bytes /\ Len(l) = Len(k1) + Len(k2) + Len(k3)
      /\ r \in Bytes /\ Len(r) = Len(k1) + Len(k2) + Len(k3)
  BY DEF Bytes
<1>2. ASSUME NEW i \in 1..(Len(k1) + Len(k2) + Len(k3))
      PROVE  l[i] = r[i]
  BY <1>2 DEF Bytes
<1> HIDE DEF l, r
<1>3. l = r
  BY <1>1, <1>2, Same
<1> QED BY <1>3 DEF l, r

\* A sequence is its parts before and after a place.
LEMMA Halves ==
  ASSUME NEW k1 \in Bytes, NEW n \in Nat, n <= Len(k1)
  PROVE  /\ SubSeq(k1, 1, n) \in Bytes /\ Len(SubSeq(k1, 1, n)) = n
         /\ \A i \in 1..n : SubSeq(k1, 1, n)[i] = k1[i]
         /\ SubSeq(k1, n + 1, Len(k1)) \in Bytes
         /\ Len(SubSeq(k1, n + 1, Len(k1))) = Len(k1) - n
         /\ \A i \in 1..(Len(k1) - n) : SubSeq(k1, n + 1, Len(k1))[i] = k1[n + i]
         /\ k1 = SubSeq(k1, 1, n) \o SubSeq(k1, n + 1, Len(k1))
<1> DEFINE p == SubSeq(k1, 1, n)
           q == SubSeq(k1, n + 1, Len(k1))
<1>0. Len(k1) \in Nat
  BY DEF Bytes
<1>1. /\ p \in Bytes /\ Len(p) = n - 1 + 1 /\ \A i \in 1..(n - 1 + 1) : p[i] = k1[1 + i - 1]
      /\ q \in Bytes /\ Len(q) = Len(k1) - (n + 1) + 1
      /\ \A i \in 1..(Len(k1) - (n + 1) + 1) : q[i] = k1[(n + 1) + i - 1]
  <2>0. /\ 1 \in 1..(Len(k1) + 1) /\ n \in (1 - 1)..Len(k1)
        /\ n + 1 \in 1..(Len(k1) + 1) /\ Len(k1) \in ((n + 1) - 1)..Len(k1)
    BY <1>0
  <2> QED BY <2>0, SliceOf
<1> HIDE DEF p, q
<1>2. /\ Len(p) = n /\ \A i \in 1..n : p[i] = k1[i]
      /\ Len(q) = Len(k1) - n /\ \A i \in 1..(Len(k1) - n) : q[i] = k1[n + i]
  BY <1>0, <1>1
<1>3. k1 = p \o q
  <2>1. p \o q \in Bytes /\ Len(p \o q) = Len(k1)
    BY <1>0, <1>1, <1>2, CatBytes
  <2>2. /\ \A i \in 1..n : (p \o q)[i] = k1[i]
        /\ \A i \in 1..(Len(k1) - n) : (p \o q)[n + i] = k1[n + i]
    BY <1>0, <1>1, <1>2, CatAt
  <2>3. ASSUME NEW i \in 1..Len(k1)
        PROVE  (p \o q)[i] = k1[i]
    <3>1. CASE i <= n
      <4>1. i \in 1..n
        BY <1>0, <3>1
      <4> QED BY <2>2, <4>1
    <3>2. CASE i > n
      <4>1. i - n \in 1..(Len(k1) - n) /\ i = n + (i - n)
        BY <1>0, <3>2
      <4> QED BY <2>2, <4>1
    <3>3. i \in Nat
      BY <1>0
    <3>4. i <= n \/ i > n
      BY <3>3
    <3> QED BY <3>1, <3>2, <3>4
  <2> QED BY <2>1, <2>3, Same
<1> QED BY <1>1, <1>2, <1>3 DEF p, q

LEMMA Split ==
  ASSUME NEW k1 \in Bytes, NEW k2 \in Bytes, NEW k3 \in Bytes, NEW k4 \in Bytes,
         k1 \o k2 = k3 \o k4, Len(k3) <= Len(k1)
  PROVE  /\ SubSeq(k1, 1, Len(k3)) = k3
         /\ SubSeq(k1, Len(k3) + 1, Len(k1)) \in Bytes
         /\ SubSeq(k1, Len(k3) + 1, Len(k1)) \o k2 = k4
<1> DEFINE n == Len(k3)
           p == SubSeq(k1, 1, n)
           q == SubSeq(k1, n + 1, Len(k1))
<1>0. n \in Nat /\ Len(k1) \in Nat /\ Len(k2) \in Nat /\ Len(k4) \in Nat
  BY DEF Bytes
<1>1. /\ p \in Bytes /\ Len(p) = n /\ \A i \in 1..n : p[i] = k1[i]
      /\ q \in Bytes /\ Len(q) = Len(k1) - n /\ \A i \in 1..(Len(k1) - n) : q[i] = k1[n + i]
  BY <1>0, Halves
<1>2. /\ Len(k1) + Len(k2) = n + Len(k4)
      /\ \A i \in 1..Len(k1) : (k3 \o k4)[i] = k1[i]
      /\ \A i \in 1..Len(k2) : (k3 \o k4)[Len(k1) + i] = k2[i]
      /\ \A i \in 1..n : (k3 \o k4)[i] = k3[i]
      /\ \A i \in 1..Len(k4) : (k3 \o k4)[n + i] = k4[i]
  <2>1. Len(k1 \o k2) = Len(k1) + Len(k2) /\ Len(k3 \o k4) = n + Len(k4)
    BY CatBytes
  <2> QED BY <2>1, CatAt
<1> HIDE DEF p, q
<1>3. p = k3
  <2>1. \A i \in 1..n : p[i] = k3[i]
    BY <1>0, <1>1, <1>2
  <2> QED BY <1>1, <2>1, Same
<1>4. q \o k2 = k4
  <2>1. q \o k2 \in Bytes /\ Len(q \o k2) = Len(k4)
    BY <1>0, <1>1, <1>2, CatBytes
  <2>2. ASSUME NEW i \in 1..Len(k4)
        PROVE  (q \o k2)[i] = k4[i]
    <3>1. CASE i <= Len(k1) - n
      <4>1. (q \o k2)[i] = q[i] /\ q[i] = k1[n + i]
        BY <1>0, <1>1, <3>1, CatAt
      <4>2. k1[n + i] = k4[i]
        BY <1>0, <1>2, <3>1
      <4> QED BY <4>1, <4>2
    <3>2. CASE i > Len(k1) - n
      <4>1. PICK j \in 1..Len(k2) : i = (Len(k1) - n) + j
        <5>1. i - (Len(k1) - n) \in 1..Len(k2)
          BY <1>0, <1>2, <2>2, <3>2
        <5>2. i = (Len(k1) - n) + (i - (Len(k1) - n))
          BY <1>0, <2>2
        <5> QED BY <5>1, <5>2
      <4>2. (q \o k2)[i] = k2[j]
        BY <1>1, <4>1, CatAt
      <4>3. k2[j] = k4[i]
        <5>1. Len(k1) + j = n + i
          BY <1>0, <2>2, <4>1
        <5> QED BY <1>2, <5>1
      <4> QED BY <4>2, <4>3
    <3>3. i \in Nat /\ Len(k1) - n \in Int
      BY <1>0, <2>2
    <3>4. i <= Len(k1) - n \/ i > Len(k1) - n
      BY <3>3
    <3> QED BY <3>1, <3>2, <3>4
  <2> QED BY <2>1, <2>2, Same
<1> QED BY <1>1, <1>3, <1>4 DEF p, q

\* What follows a sequence is what is left of the whole after it.
LEMMA After ==
  ASSUME NEW k1 \in Bytes, NEW k2 \in Bytes
  PROVE  SubSeq(k1 \o k2, Len(k1) + 1, Len(k1 \o k2)) = k2
<1> DEFINE w == k1 \o k2
           n == Len(k1)
           e == SubSeq(w, n + 1, Len(w))
<1>1. w \in Bytes /\ Len(w) = n + Len(k2) /\ n \in Nat /\ Len(k2) \in Nat
  BY CatBytes DEF Bytes
<1>2. \A i \in 1..Len(k2) : w[n + i] = k2[i]
  BY CatAt
<1>2a. n <= Len(w)
  BY <1>1
<1> HIDE DEF w, n
<1>3. e \in Bytes /\ Len(e) = Len(w) - n /\ \A i \in 1..(Len(w) - n) : e[i] = w[n + i]
  BY <1>1, <1>2a, Halves
<1> HIDE DEF e
<1>4. Len(e) = Len(k2) /\ \A i \in 1..Len(e) : e[i] = k2[i]
  BY <1>1, <1>2, <1>3
<1>5. e = k2
  BY <1>3, <1>4, Same
<1> QED BY <1>5 DEF e, w, n

LEMMA Heads ==
  ASSUME NEW k1 \in Bytes, k1 # <<>>, NEW k2 \in Bytes
  PROVE  /\ Head(k1) \in Nat /\ Tail(k1) \in Bytes /\ Len(k1) = Len(Tail(k1)) + 1
         /\ k1 = <<Head(k1)>> \o Tail(k1)
         /\ k1 \o k2 # <<>> /\ Head(k1 \o k2) = Head(k1) /\ Tail(k1 \o k2) = Tail(k1) \o k2
<1>1. Head(k1) \in Nat /\ Tail(k1) \in Bytes /\ Len(k1) = Len(Tail(k1)) + 1 /\ Len(k2) \in Nat
  BY DEF Bytes
<1>2. k1 = <<Head(k1)>> \o Tail(k1)
  BY DEF Bytes
<1>3. k1 \o k2 # <<>> /\ Head(k1 \o k2) = Head(k1)
  BY DEF Bytes
<1>4. Tail(k1 \o k2) = Tail(k1) \o k2
  <2>1. k1 \o k2 \in Bytes /\ Len(k1 \o k2) = Len(k1) + Len(k2)
    BY CatBytes
  <2>2. Tail(k1 \o k2) \in Bytes /\ Len(Tail(k1 \o k2)) = Len(Tail(k1)) + Len(k2)
    BY <1>1, <1>3, <2>1 DEF Bytes
  <2>3. Tail(k1) \o k2 \in Bytes /\ Len(Tail(k1) \o k2) = Len(Tail(k1)) + Len(k2)
    BY <1>1, CatBytes
  <2>4. \A i \in 1..(Len(Tail(k1)) + Len(k2)) : Tail(k1 \o k2)[i] = (Tail(k1) \o k2)[i]
    BY <1>1, <2>1 DEF Bytes
  <2> QED BY <2>2, <2>3, <2>4 DEF Bytes
<1> QED BY <1>1, <1>2, <1>3, <1>4

\* The first byte goes from the second sequence to the end of the first.
LEMMA Shift ==
  ASSUME NEW k1 \in Bytes, NEW k2 \in Bytes, k2 # <<>>
  PROVE  Append(k1, Head(k2)) \in Bytes /\ Append(k1, Head(k2)) \o Tail(k2) = k1 \o k2
<1>1. Head(k2) \in Nat /\ Tail(k2) \in Bytes /\ k2 = <<Head(k2)>> \o Tail(k2)
  BY Heads, CatEmpty DEF Bytes
<1>2. <<Head(k2)>> \in Bytes /\ Append(k1, Head(k2)) = k1 \o <<Head(k2)>>
  BY <1>1 DEF Bytes
<1>3. (k1 \o <<Head(k2)>>) \o Tail(k2) = k1 \o (<<Head(k2)>> \o Tail(k2))
  BY <1>1, <1>2, CatAssoc
<1> QED BY <1>1, <1>2, <1>3, CatBytes

LEMMA CatCancel ==
  ASSUME NEW k1 \in Bytes, NEW k2 \in Bytes, NEW k3 \in Bytes, k1 \o k2 = k1 \o k3
  PROVE  k2 = k3
<1>1. SubSeq(k1, Len(k1) + 1, Len(k1)) \o k2 = k3
  <2>1. Len(k1) \in Nat
    BY DEF Bytes
  <2>2. Len(k1) <= Len(k1)
    BY <2>1
  <2> QED BY <2>2, Split
<1>2. SubSeq(k1, Len(k1) + 1, Len(k1)) = <<>>
  BY DEF Bytes
<1> QED BY <1>1, <1>2, CatEmpty

LEMMA PrefixOf ==
  ASSUME NEW k1 \in Bytes, NEW k2 \in Bytes, NEW k3 \in Bytes, k1 \o k2 = k3
  PROVE  \A n \in Len(k1)..Len(k3) : IsPrefix(k1, Prefix(k3, n))
<1> SUFFICES ASSUME NEW n \in Len(k1)..Len(k3)
             PROVE  IsPrefix(k1, Prefix(k3, n))
  OBVIOUS
<1>1. Len(k1) \in Nat /\ Len(k3) \in Nat /\ n \in Nat /\ Len(k1) <= n /\ n <= Len(k3)
  BY DEF Bytes
<1>2. /\ Prefix(k3, n) \in Bytes /\ Len(Prefix(k3, n)) = n
      /\ \A i \in 1..n : Prefix(k3, n)[i] = k3[i]
  BY <1>1 DEF Prefix, Bytes
<1>3. \A i \in 1..Len(k1) : k3[i] = k1[i]
  BY <1>1 DEF Bytes
<1> HIDE DEF Prefix
<1> DEFINE l == SubSeq(k1, 1, Len(k1))
           r == SubSeq(Prefix(k3, n), 1, Len(k1))
<1>4. l \in Bytes /\ Len(l) = Len(k1) /\ \A i \in 1..Len(k1) : l[i] = k1[i]
  BY <1>1 DEF Bytes
<1>5. r \in Bytes /\ Len(r) = Len(k1) /\ \A i \in 1..Len(k1) : r[i] = Prefix(k3, n)[i]
  BY <1>1, <1>2 DEF Bytes
<1> HIDE DEF l, r
<1>6. l = r
  <2>1. \A i \in 1..Len(k1) : l[i] = r[i]
    BY <1>1, <1>2, <1>3, <1>4, <1>5
  <2> QED BY <1>4, <1>5, <2>1, Same
<1> QED BY <1>1, <1>2, <1>6 DEF IsPrefix, l, r
-----------------------------------------------------------------------------
(* What the readers make of what was written *)

Read(r) == r.read = "done"

\* A reader read `v`: with `x` still to come, `t` is left to be read.
Took(r, v, x, t) ==
  Read(r) => r.value = v /\ r.rest \in Bytes /\ r.rest \o x = t

LEMMA ByteRead ==
  ASSUME NEW b \in Bytes, NEW x \in Bytes, NEW n \in Nat, NEW t \in Bytes,
         b \o x = <<n>> \o t
  PROVE  /\ Took(ReadByte(b), n, x, t)
         /\ ~Read(ReadByte(b)) => b = <<>> /\ ReadByte(b) = More
<1>1. CASE b = <<>>
  BY <1>1 DEF ReadByte, Took, Read, More
<1>2. CASE b # <<>>
  <2> DEFINE one == <<n>>
  <2>1. /\ one \in Bytes /\ one # <<>> /\ Head(one) = n /\ Tail(one) = <<>>
        /\ b \o x = one \o t
    BY DEF Bytes
  <2> HIDE DEF one
  <2>2. Head(one \o t) = Head(one) /\ Tail(one \o t) = Tail(one) \o t
    BY <2>1, Heads
  <2>3. Tail(one) \o t = t
    BY <2>1, CatEmpty
  <2>4. Tail(b) \in Bytes /\ Head(b \o x) = Head(b) /\ Tail(b \o x) = Tail(b) \o x
    BY <1>2, Heads
  <2>5. Head(b) = n /\ Tail(b) \in Bytes /\ Tail(b) \o x = t
    BY <2>1, <2>2, <2>3, <2>4
  <2> QED BY <1>2, <2>5 DEF ReadByte, Took, Read, Gives
<1> QED BY <1>1, <1>2

LEMMA BytesRead ==
  ASSUME NEW b \in Bytes, NEW x \in Bytes, NEW s \in Bytes, NEW t \in Bytes,
         b \o x = s \o t
  PROVE  Took(ReadBytes(Len(s), b), s, x, t)
<1>1. CASE Len(b) < Len(s)
  BY <1>1 DEF ReadBytes, Took, Read, More
<1>2. CASE ~(Len(b) < Len(s))
  <2>1. Len(s) <= Len(b)
    BY <1>2 DEF Bytes
  <2>2. /\ SubSeq(b, 1, Len(s)) = s
        /\ SubSeq(b, Len(s) + 1, Len(b)) \in Bytes
        /\ SubSeq(b, Len(s) + 1, Len(b)) \o x = t
    BY <2>1, Split
  <2>3. ReadBytes(Len(s), b) = Gives(s, SubSeq(b, Len(s) + 1, Len(b)))
    BY <1>2, <2>2 DEF ReadBytes
  <2> HIDE DEF Bytes
  <2> QED BY <2>2, <2>3 DEF Took, Gives
<1> QED BY <1>1, <1>2

LEMMA ReadStrIs ==
  ASSUME NEW b
  PROVE  ReadStr(b) =
           LET q == ReadByte(b)
               r == IF Read(q) THEN ReadBytes(q.value, q.rest) ELSE q
           IN  IF Read(r) THEN Texts(r.value, r.rest) ELSE r
<1> DEFINE One(q) == IF Read(q) THEN ReadBytes(q.value, q.rest) ELSE q
           Two(r) == IF Read(r) THEN Texts(r.value, r.rest) ELSE r
<1>1. ReadStr(b) = CHOOSE n \in {Two(r) : r \in
                     {CHOOSE m \in {One(q) : q \in {ReadByte(b)}} : TRUE}} : TRUE
  BY DEF ReadStr, Then, Read
<1> HIDE DEF One, Two
<1>2. ReadStr(b) = Two(One(ReadByte(b)))
  BY <1>1
<1> QED BY <1>2 DEF One, Two

\* Nothing of a string is read before all of it has arrived.
LEMMA StrRead ==
  ASSUME NEW b \in Bytes, NEW x \in Bytes, NEW s \in Bytes, NEW t \in Bytes,
         b \o x = Str(s) \o t
  PROVE  Took(ReadStr(b), s, x, t)
<1> SUFFICES ASSUME Read(ReadStr(b))
             PROVE  Took(ReadStr(b), s, x, t)
  BY DEF Took
<1> DEFINE q == ReadByte(b)
           r == IF Read(q) THEN ReadBytes(q.value, q.rest) ELSE q
<1>1. b \o x = <<Len(s)>> \o (s \o t) /\ s \o t \in Bytes /\ Len(s) \in Nat
  <2>1. <<Len(s)>> \in Bytes
    BY DEF Bytes
  <2> QED BY <2>1, CatAssoc, CatBytes DEF Str, Bytes
<1>2. Took(q, Len(s), x, s \o t)
  BY <1>1, ByteRead
<1> HIDE DEF q
<1>3. ReadStr(b) = IF Read(r) THEN Texts(r.value, r.rest) ELSE r
  BY ReadStrIs DEF q
<1>4. Read(q)
  BY <1>3 DEF Texts
<1>5. Took(r, s, x, t)
  <2>1. q.value = Len(s) /\ q.rest \in Bytes /\ q.rest \o x = s \o t
    BY <1>2, <1>4 DEF Took
  <2>2. Took(ReadBytes(Len(s), q.rest), s, x, t)
    BY <2>1, BytesRead
  <2> QED BY <1>4, <2>1, <2>2
<1> HIDE DEF r
<1>6. Read(r)
  BY <1>3
<1>7. ReadStr(b) = Gives(r.value, r.rest)
  BY <1>3, <1>6 DEF Texts, Fails, Read
<1> QED BY <1>5, <1>6, <1>7 DEF Took, Gives

\* An optional string: none, or one.
Optional == {o \in Seq(Bytes) : Len(o) <= 1}

LEMMA OptionalIs ==
  ASSUME NEW o \in Optional
  PROVE  \/ o = <<>> /\ Opt(o) = << 0 >>
         \/ \E s \in Bytes : o = <<s>> /\ Opt(o) = << 1 >> \o Str(s)
<1>1. o \in Seq(Bytes) /\ (Len(o) = 0 \/ Len(o) = 1)
  <2>1. o \in Seq(Bytes) /\ Len(o) <= 1
    BY DEF Optional
  <2>2. Len(o) \in Nat
    BY <2>1
  <2>3. \A n \in Nat : n <= 1 => n = 0 \/ n = 1
    OBVIOUS
  <2> QED BY <2>1, <2>2, <2>3
<1>2. CASE Len(o) = 0
  BY <1>1, <1>2 DEF Opt
<1>3. CASE Len(o) = 1
  <2>1. o[1] \in Bytes /\ o = <<o[1]>> /\ o # <<>>
    BY <1>1, <1>3
  <2> QED BY <2>1 DEF Opt
<1> QED BY <1>1, <1>2, <1>3

LEMMA StrIsBytes ==
  ASSUME NEW s \in Bytes
  PROVE  Str(s) \in Bytes
BY DEF Str, Bytes

LEMMA OptIsBytes ==
  ASSUME NEW o \in Optional
  PROVE  Opt(o) \in Bytes
<1>1. << 0 >> \in Bytes /\ << 1 >> \in Bytes
  BY DEF Bytes
<1> QED BY <1>1, OptionalIs, StrIsBytes, CatBytes

LEMMA ReadOptIs ==
  ASSUME NEW b
  PROVE  ReadOpt(b) =
           LET q == ReadByte(b)
               r == ReadStr(q.rest)
           IN  IF Read(q)
               THEN CASE q.value = 0 -> Gives(<<>>, q.rest)
                      [] q.value = 1 -> IF Read(r) THEN Gives(<<r.value>>, r.rest) ELSE r
                      [] OTHER -> Fails("bad")
               ELSE q
<1> DEFINE Some(r) == IF Read(r) THEN Gives(<<r.value>>, r.rest) ELSE r
           Tag(q) == IF Read(q)
                     THEN CASE q.value = 0 -> Gives(<<>>, q.rest)
                            [] q.value = 1 ->
                                 CHOOSE m \in {Some(r) : r \in {ReadStr(q.rest)}} : TRUE
                            [] OTHER -> Fails("bad")
                     ELSE q
<1>1. ReadOpt(b) = CHOOSE n \in {Tag(q) : q \in {ReadByte(b)}} : TRUE
  BY DEF ReadOpt, Then, Read
<1> HIDE DEF Tag
<1>2. ReadOpt(b) = Tag(ReadByte(b))
  BY <1>1
<1> HIDE DEF Some
<1>3. \A q : (CHOOSE m \in {Some(r) : r \in {ReadStr(q.rest)}} : TRUE) = Some(ReadStr(q.rest))
  OBVIOUS
<1> DEFINE one == ReadByte(b)
<1>4. Tag(one) = IF Read(one)
                 THEN CASE one.value = 0 -> Gives(<<>>, one.rest)
                        [] one.value = 1 -> Some(ReadStr(one.rest))
                        [] OTHER -> Fails("bad")
                 ELSE one
  <2> HIDE DEF one
  <2> QED BY <1>3 DEF Tag
<1> QED BY <1>2, <1>4 DEF Some

LEMMA OptRead ==
  ASSUME NEW b \in Bytes, NEW x \in Bytes, NEW o \in Optional, NEW t \in Bytes,
         b \o x = Opt(o) \o t
  PROVE  Took(ReadOpt(b), o, x, t)
<1> SUFFICES ASSUME Read(ReadOpt(b))
             PROVE  Took(ReadOpt(b), o, x, t)
  BY DEF Took
<1> DEFINE q == ReadByte(b)
           r == ReadStr(q.rest)
<1>0. 0 \in Nat /\ 1 \in Nat /\ << 0 >> \in Bytes /\ << 1 >> \in Bytes
  BY DEF Bytes
<1>1. CASE o = <<>> /\ Opt(o) = << 0 >>
  <2>1. Took(q, 0, x, t)
    BY <1>0, <1>1, ByteRead
  <2>2. ReadOpt(b) = IF Read(q)
               THEN CASE q.value = 0 -> Gives(<<>>, q.rest)
                      [] q.value = 1 -> IF Read(r) THEN Gives(<<r.value>>, r.rest) ELSE r
                      [] OTHER -> Fails("bad")
               ELSE q
    BY ReadOptIs
  <2> HIDE DEF q, r
  <2>3. Read(q) /\ q.value = 0
    BY <2>1, <2>2 DEF Took
  <2>4. ReadOpt(b) = Gives(<<>>, q.rest)
    BY <2>2, <2>3
  <2> QED BY <1>1, <2>1, <2>3, <2>4 DEF Took, Gives
<1>2. ASSUME NEW s \in Bytes, o = <<s>>, Opt(o) = << 1 >> \o Str(s)
      PROVE  Took(ReadOpt(b), o, x, t)
  <2>0. b \o x = << 1 >> \o (Str(s) \o t) /\ Str(s) \o t \in Bytes
    <3>1. Str(s) \in Bytes
      BY StrIsBytes
    <3>2. (<< 1 >> \o Str(s)) \o t = << 1 >> \o (Str(s) \o t)
      BY <1>0, <3>1, CatAssoc
    <3> QED BY <1>2, <3>1, <3>2, CatBytes
  <2>1. Took(q, 1, x, Str(s) \o t)
    BY <1>0, <2>0, ByteRead
  <2>2. ReadOpt(b) = IF Read(q)
               THEN CASE q.value = 0 -> Gives(<<>>, q.rest)
                      [] q.value = 1 -> IF Read(r) THEN Gives(<<r.value>>, r.rest) ELSE r
                      [] OTHER -> Fails("bad")
               ELSE q
    BY ReadOptIs
  <2> HIDE DEF q
  <2>3. Read(q) /\ q.value = 1 /\ q.rest \in Bytes /\ q.rest \o x = Str(s) \o t
    BY <2>1, <2>2 DEF Took
  <2>4. Took(r, s, x, t)
    BY <2>3, StrRead
  <2> HIDE DEF r
  <2>5. ReadOpt(b) = IF Read(r) THEN Gives(<<r.value>>, r.rest) ELSE r
    BY <2>2, <2>3
  <2>6. Read(r)
    BY <2>5
  <2> QED BY <1>2, <2>4, <2>5, <2>6 DEF Took, Gives
<1> QED BY <1>1, <1>2, OptionalIs

\* A string that has not begun, or an optional one cut after its tag.
LEMMA CutRead ==
  ASSUME NEW b \in Bytes, NEW x \in Bytes
  PROVE  /\ b = <<>> => ~Read(ReadStr(b)) /\ ~Read(ReadOpt(b))
         /\ b \o x = << 1 >> => ~Read(ReadOpt(b))
<1>1. /\ ~Read(ReadByte(<<>>)) /\ ReadByte(<<>>) = More /\ ~Read(More)
  BY DEF ReadByte, Read, More
<1>2. ~Read(ReadStr(<<>>)) /\ ~Read(ReadOpt(<<>>))
  BY <1>1, ReadStrIs, ReadOptIs
<1>3. ASSUME b \o x = << 1 >>, Read(ReadOpt(b))
      PROVE  FALSE
  <2> DEFINE q == ReadByte(b)
             r == ReadStr(q.rest)
  <2>1. b \o x = << 1 >> \o <<>> /\ <<>> \in Bytes /\ 1 \in Nat
    BY <1>3, CatEmpty DEF Bytes
  <2>2. Took(q, 1, x, <<>>)
    BY <2>1, ByteRead
  <2>3. ReadOpt(b) = IF Read(q)
               THEN CASE q.value = 0 -> Gives(<<>>, q.rest)
                      [] q.value = 1 -> IF Read(r) THEN Gives(<<r.value>>, r.rest) ELSE r
                      [] OTHER -> Fails("bad")
               ELSE q
    BY ReadOptIs
  <2> HIDE DEF q
  <2>4. Read(q) /\ q.value = 1 /\ q.rest \in Bytes /\ q.rest \o x = <<>>
    BY <1>3, <2>2, <2>3 DEF Took
  <2>5. q.rest = <<>>
    BY <2>4 DEF Bytes
  <2>6. ~Read(r)
    BY <1>2, <2>5
  <2> HIDE DEF r
  <2>7. ReadOpt(b) = r
    BY <2>3, <2>4, <2>6
  <2> QED BY <1>3, <2>6, <2>7
<1> QED BY <1>2, <1>3

Requests == [service : Bytes, capability : Optional, membership : Optional]

LEMMA ReadBodyIs ==
  ASSUME NEW b
  PROVE  LET s == ReadStr(b)
             c == ReadOpt(s.rest)
             m == ReadOpt(c.rest)
         IN  ReadBody(b) =
               IF ~Read(s) THEN s ELSE IF ~Read(c) THEN c ELSE IF ~Read(m) THEN m
               ELSE Gives([service |-> s.value, capability |-> c.value,
                           membership |-> m.value], m.rest)
<1> DEFINE Third(s, c, m) ==
             IF Read(m) THEN Gives([service |-> s.value, capability |-> c.value,
                                    membership |-> m.value], m.rest)
                        ELSE m
           Second(s, c) ==
             IF Read(c) THEN CHOOSE n \in {Third(s, c, m) : m \in {ReadOpt(c.rest)}} : TRUE
                        ELSE c
           First(s) ==
             IF Read(s) THEN CHOOSE n \in {Second(s, c) : c \in {ReadOpt(s.rest)}} : TRUE
                        ELSE s
<1>1. ReadBody(b) = CHOOSE n \in {First(s) : s \in {ReadStr(b)}} : TRUE
  BY DEF ReadBody, Then, Read
<1> HIDE DEF First
<1>2. ReadBody(b) = First(ReadStr(b))
  BY <1>1
<1> HIDE DEF Second
<1>3. \A s : First(s) = IF Read(s) THEN Second(s, ReadOpt(s.rest)) ELSE s
  BY DEF First
<1> HIDE DEF Third
<1>4. \A s, c : Second(s, c) = IF Read(c) THEN Third(s, c, ReadOpt(c.rest)) ELSE c
  BY DEF Second
<1>5. \A s, c, m : Third(s, c, m) =
        IF ~Read(m) THEN m ELSE Gives([service |-> s.value, capability |-> c.value,
                                       membership |-> m.value], m.rest)
  BY DEF Third
<1> DEFINE s == ReadStr(b)
           c == ReadOpt(s.rest)
           m == ReadOpt(c.rest)
<1>6. ReadBody(b) = IF Read(s) THEN IF Read(c) THEN Third(s, c, m) ELSE c ELSE s
  BY <1>2, <1>3, <1>4
<1> HIDE DEF s, c, m
<1>7. ReadBody(b) =
        IF ~Read(s) THEN s ELSE IF ~Read(c) THEN c ELSE IF ~Read(m) THEN m
        ELSE Gives([service |-> s.value, capability |-> c.value,
                    membership |-> m.value], m.rest)
  BY <1>5, <1>6
<1> QED BY <1>7 DEF s, c, m

LEMMA BodyRead ==
  ASSUME NEW b \in Bytes, NEW x \in Bytes, NEW r \in Requests, NEW t \in Bytes,
         b \o x = Str(r.service) \o (Opt(r.capability) \o (Opt(r.membership) \o t))
  PROVE  Took(ReadBody(b), r, x, t)
<1> SUFFICES ASSUME Read(ReadBody(b))
             PROVE  Took(ReadBody(b), r, x, t)
  BY DEF Took
<1> DEFINE s == ReadStr(b)
           c == ReadOpt(s.rest)
           m == ReadOpt(c.rest)
           t3 == Opt(r.membership) \o t
           t2 == Opt(r.capability) \o t3
<1>1. /\ r.service \in Bytes /\ r.capability \in Optional /\ r.membership \in Optional
      /\ r = [service |-> r.service, capability |-> r.capability,
              membership |-> r.membership]
  BY DEF Requests
<1>2. t3 \in Bytes /\ t2 \in Bytes
  BY <1>1, OptIsBytes, CatBytes
<1>3. ReadBody(b) =
        IF ~Read(s) THEN s ELSE IF ~Read(c) THEN c ELSE IF ~Read(m) THEN m
        ELSE Gives([service |-> s.value, capability |-> c.value,
                    membership |-> m.value], m.rest)
  BY ReadBodyIs
<1>4. Took(s, r.service, x, t2)
  BY <1>1, <1>2, StrRead
<1> HIDE DEF s, t2
<1>5. Read(s) /\ s.value = r.service /\ s.rest \in Bytes /\ s.rest \o x = t2
  BY <1>3, <1>4 DEF Took
<1>6. Took(c, r.capability, x, t3)
  <2>1. s.rest \o x = Opt(r.capability) \o t3
    BY <1>5 DEF t2
  <2> HIDE DEF t3
  <2> QED BY <1>1, <1>2, <1>5, <2>1, OptRead
<1> HIDE DEF c
<1>7. Read(c) /\ c.value = r.capability /\ c.rest \in Bytes /\ c.rest \o x = t3
  BY <1>3, <1>5, <1>6 DEF Took
<1>8. Took(m, r.membership, x, t)
  BY <1>1, <1>7, OptRead
<1> HIDE DEF m, t3
<1>9. Read(m) /\ m.value = r.membership /\ m.rest \in Bytes /\ m.rest \o x = t
  BY <1>3, <1>5, <1>7, <1>8 DEF Took
<1>10. ReadBody(b) = Gives(r, m.rest)
  BY <1>1, <1>3, <1>5, <1>7, <1>9
<1> QED BY <1>9, <1>10 DEF Took, Gives

LEMMA BodyCut ==
  ASSUME NEW b \in Bytes, NEW x \in Bytes, NEW r \in Requests,
         \/ b \o x = <<>>
         \/ b \o x = Str(r.service) \o << 1 >>
         \/ b \o x = Str(r.service) \o (Opt(r.capability) \o << 1 >>)
  PROVE  ~Read(ReadBody(b))
<1> SUFFICES ASSUME Read(ReadBody(b))
             PROVE  FALSE
  OBVIOUS
<1> DEFINE s == ReadStr(b)
           c == ReadOpt(s.rest)
           m == ReadOpt(c.rest)
<1>1. /\ r.service \in Bytes /\ r.capability \in Optional /\ << 1 >> \in Bytes
      /\ Str(r.service) \in Bytes /\ Opt(r.capability) \in Bytes
  BY StrIsBytes, OptIsBytes DEF Requests, Bytes
<1>2. ReadBody(b) =
        IF ~Read(s) THEN s ELSE IF ~Read(c) THEN c ELSE IF ~Read(m) THEN m
        ELSE Gives([service |-> s.value, capability |-> c.value,
                    membership |-> m.value], m.rest)
  BY ReadBodyIs
<1>3. CASE b \o x = <<>>
  <2>1. b = <<>>
    BY <1>3 DEF Bytes
  <2>2. ~Read(s)
    BY <2>1, CutRead
  <2> HIDE DEF s, c, m
  <2> QED BY <1>2, <2>2
<1>4. CASE b \o x = Str(r.service) \o << 1 >>
  <2>1. Took(s, r.service, x, << 1 >>)
    BY <1>1, <1>4, StrRead
  <2> HIDE DEF s
  <2>2. Read(s)
    BY <1>2
  <2>3. s.rest \in Bytes /\ s.rest \o x = << 1 >>
    BY <2>1, <2>2 DEF Took
  <2>4. ~Read(c)
    BY <2>3, CutRead
  <2> HIDE DEF c, m
  <2> QED BY <1>2, <2>2, <2>4
<1>5. CASE b \o x = Str(r.service) \o (Opt(r.capability) \o << 1 >>)
  <2>1. Took(s, r.service, x, Opt(r.capability) \o << 1 >>)
    BY <1>1, <1>5, StrRead, CatBytes
  <2> HIDE DEF s
  <2>2. Read(s)
    BY <1>2
  <2>3. s.rest \in Bytes /\ s.rest \o x = Opt(r.capability) \o << 1 >>
    BY <2>1, <2>2 DEF Took
  <2>4. Took(c, r.capability, x, << 1 >>)
    BY <1>1, <2>3, OptRead
  <2> HIDE DEF c
  <2>5. Read(c)
    BY <1>2, <2>2
  <2>6. c.rest \in Bytes /\ c.rest \o x = << 1 >>
    BY <2>4, <2>5 DEF Took
  <2>7. ~Read(m)
    BY <2>6, CutRead
  <2> HIDE DEF m
  <2> QED BY <1>2, <2>2, <2>5, <2>7
<1> QED BY <1>3, <1>4, <1>5

LEMMA ReadVersionIs ==
  ASSUME NEW b
  PROVE  ReadVersion(b) =
           LET q == ReadBytes(2, b) IN
           IF ~Read(q) THEN q
           ELSE IF q.value[1] \in Capitals THEN Fails("foreign") ELSE Gives(q.value, q.rest)
<1> DEFINE On(q) == IF Read(q)
                    THEN IF q.value[1] \in Capitals THEN Fails("foreign")
                                                    ELSE Gives(q.value, q.rest)
                    ELSE q
<1>1. ReadVersion(b) = CHOOSE n \in {On(q) : q \in {ReadBytes(2, b)}} : TRUE
  BY DEF ReadVersion, Then, Read
<1> HIDE DEF On
<1>2. ReadVersion(b) = On(ReadBytes(2, b))
  BY <1>1
<1> QED BY <1>2 DEF On

LEMMA ReadPreambleIs ==
  ASSUME NEW b
  PROVE  LET i == ReadBytes(2, b)
             v == ReadVersion(i.rest)
         IN  ReadPreamble(b) =
               IF ~Read(i) THEN i
               ELSE IF i.value # Identity THEN Fails("foreign")
               ELSE IF ~Read(v) THEN v
               ELSE IF v.value # Version THEN Fails("version") ELSE Gives(v.value, v.rest)
<1> DEFINE One(q) == IF Read(q)
                     THEN IF q.value # Identity THEN Fails("foreign") ELSE ReadVersion(q.rest)
                     ELSE q
           Two(q) == IF Read(q)
                     THEN IF q.value # Version THEN Fails("version")
                                               ELSE Gives(q.value, q.rest)
                     ELSE q
<1>1. ReadPreamble(b) = CHOOSE n \in {Two(v) : v \in
                          {CHOOSE m \in {One(i) : i \in {ReadBytes(2, b)}} : TRUE}} : TRUE
  BY DEF ReadPreamble, Then, Read
<1> HIDE DEF One, Two
<1>2. ReadPreamble(b) = Two(One(ReadBytes(2, b)))
  BY <1>1
<1> DEFINE i == ReadBytes(2, b)
           v == ReadVersion(i.rest)
<1>3. ReadPreamble(b) = Two(One(i))
  BY <1>2
<1>4. One(i) = IF Read(i) THEN IF i.value # Identity THEN Fails("foreign") ELSE v ELSE i
  <2> HIDE DEF i
  <2> QED BY DEF One
<1> HIDE DEF i, v
<1>5. ~Read(Fails("foreign"))
  BY DEF Read, Fails
<1>6. ReadPreamble(b) =
        IF ~Read(i) THEN i
        ELSE IF i.value # Identity THEN Fails("foreign")
        ELSE IF ~Read(v) THEN v
        ELSE IF v.value # Version THEN Fails("version") ELSE Gives(v.value, v.rest)
  BY <1>3, <1>4, <1>5 DEF Two
<1> QED BY <1>6 DEF i, v

\* The preamble of `magic` passes only if it is this release's, and a version
\* is told to be another only of this wire.
LEMMA PreambleRead ==
  ASSUME NEW b \in Bytes, NEW x \in Bytes, NEW magic \in Bytes, Len(magic) = 4,
         NEW t \in Bytes, b \o x = magic \o t
  PROVE  LET p == ReadPreamble(b) IN
         /\ Took(p, Version, x, t)
         /\ Read(p) => magic = Magic
         /\ Read(p) \/ p.read = "version" =>
              Prefix(magic, 2) = Identity /\ magic[3] \notin Capitals
         /\ p.read \in {"done", "more", "foreign", "version"}
<1> DEFINE p == ReadPreamble(b)
           i == ReadBytes(2, b)
           v == ReadVersion(i.rest)
           w == ReadBytes(2, i.rest)
           one == SubSeq(magic, 1, 2)
           two == SubSeq(magic, 3, 4)
<1>1. /\ one \in Bytes /\ Len(one) = 2 /\ two \in Bytes /\ Len(two) = 2
      /\ two[1] = magic[3] /\ magic = one \o two
  <2>1. /\ one \in Bytes /\ Len(one) = 2
        /\ SubSeq(magic, 2 + 1, Len(magic)) \in Bytes
        /\ Len(SubSeq(magic, 2 + 1, Len(magic))) = Len(magic) - 2
        /\ \A k \in 1..(Len(magic) - 2) : SubSeq(magic, 2 + 1, Len(magic))[k] = magic[2 + k]
        /\ magic = one \o SubSeq(magic, 2 + 1, Len(magic))
    BY 2 \in Nat, 2 <= Len(magic), Halves
  <2>2. two = SubSeq(magic, 2 + 1, Len(magic))
    OBVIOUS
  <2> HIDE DEF one, two
  <2> QED BY <2>1, <2>2
<1>2. Prefix(magic, 2) = one
  BY DEF Prefix
<1> HIDE DEF one, two
<1>3. b \o x = one \o (two \o t) /\ two \o t \in Bytes
  <2>0. one \in Bytes /\ two \in Bytes
    BY <1>1
  <2>1. (one \o two) \o t = one \o (two \o t)
    BY <2>0, CatAssoc
  <2> QED BY <1>1, <2>1, CatBytes
<1>4. Took(i, one, x, two \o t)
  BY <1>1, <1>3, BytesRead
<1>5. p = IF ~Read(i) THEN i
          ELSE IF i.value # Identity THEN Fails("foreign")
          ELSE IF ~Read(v) THEN v
          ELSE IF v.value # Version THEN Fails("version") ELSE Gives(v.value, v.rest)
  BY ReadPreambleIs
<1>6. ~Read(i) => i.read = "more"
  BY DEF ReadBytes, Read, More, Gives
<1>7. v = IF ~Read(w) THEN w
          ELSE IF w.value[1] \in Capitals THEN Fails("foreign") ELSE Gives(w.value, w.rest)
  BY ReadVersionIs
<1>8. ~Read(w) => w.read = "more"
  BY DEF ReadBytes, Read, More, Gives
<1>9. ASSUME Read(i)
      PROVE  Took(w, two, x, t)
  <2>1. i.rest \in Bytes /\ i.rest \o x = two \o t
    BY <1>4, <1>9 DEF Took
  <2> QED BY <1>1, <2>1, BytesRead
<1> HIDE DEF p, i, v, w
<1>10. CASE ~Read(i) \/ i.value # Identity
  BY <1>5, <1>6, <1>10 DEF Took, Read, Fails, p
<1>11. CASE Read(i) /\ i.value = Identity
  <2>1. one = Identity /\ Took(w, two, x, t)
    BY <1>4, <1>9, <1>11 DEF Took
  <2>2. CASE ~Read(w)
    BY <1>5, <1>7, <1>8, <1>11, <2>2 DEF Took, Read, p
  <2>3. CASE Read(w) /\ w.value[1] \in Capitals
    BY <1>5, <1>7, <1>11, <2>3 DEF Took, Read, Fails, p
  <2>4. CASE Read(w) /\ w.value[1] \notin Capitals
    <3>1. w.value = two /\ w.rest \in Bytes /\ w.rest \o x = t
      BY <2>1, <2>4 DEF Took
    <3>2. v = Gives(two, w.rest)
      BY <1>7, <2>4, <3>1
    <3>3. p = IF two # Version THEN Fails("version") ELSE Gives(two, w.rest)
      BY <1>5, <1>11, <3>2 DEF Read, Gives
    <3>4. magic[3] \notin Capitals
      BY <1>1, <2>4, <3>1
    <3>5. CASE two # Version
      BY <1>2, <2>1, <3>3, <3>4, <3>5 DEF Took, Read, Fails, p
    <3>6. CASE two = Version
      <4>1. magic = Magic
        BY <1>1, <2>1, <3>6 DEF Magic
      <4> QED BY <1>2, <2>1, <3>1, <3>3, <3>4, <3>6, <4>1 DEF Took, Read, Gives, p
    <3> QED BY <3>5, <3>6
  <2> QED BY <2>2, <2>3, <2>4
<1> QED BY <1>10, <1>11

Wrote(magic, r) == RequestFrame(magic, r)

\* The request's frame, in the order its reader goes through it.
LEMMA FrameIs ==
  ASSUME NEW magic \in Bytes, NEW r \in Requests
  PROVE  /\ Wrote(magic, r).whole \in BOOLEAN /\ Wrote(magic, r).bytes \in Bytes
         /\ Wrote(magic, r).whole =>
              \A t \in Bytes : Wrote(magic, r).bytes \o t =
                magic \o (Str(r.service) \o (Opt(r.capability) \o (Opt(r.membership) \o t)))
         /\ ~Wrote(magic, r).whole =>
              \/ Wrote(magic, r).bytes = magic \o <<>>
              \/ Wrote(magic, r).bytes = magic \o (Str(r.service) \o << 1 >>)
              \/ Wrote(magic, r).bytes = magic \o (Str(r.service) \o (Opt(r.capability) \o << 1 >>))
<1> DEFINE s == Str(r.service)
           c == Opt(r.capability)
           m == Opt(r.membership)
           one == << 1 >>
<1>1. s \in Bytes /\ c \in Bytes /\ m \in Bytes /\ one \in Bytes
  BY StrIsBytes, OptIsBytes DEF Requests, Bytes
<1>2. \/ Wrote(magic, r) = [bytes |-> magic, whole |-> FALSE]
      \/ Wrote(magic, r) = [bytes |-> (magic \o s) \o one, whole |-> FALSE]
      \/ Wrote(magic, r) = [bytes |-> ((magic \o s) \o c) \o one, whole |-> FALSE]
      \/ Wrote(magic, r) = [bytes |-> ((magic \o s) \o c) \o m, whole |-> TRUE]
  BY DEF Wrote, RequestFrame
<1> HIDE DEF s, c, m, one
<1>3. /\ magic \o s \in Bytes /\ (magic \o s) \o c \in Bytes
      /\ (magic \o s) \o one \in Bytes
      /\ ((magic \o s) \o c) \o one \in Bytes /\ ((magic \o s) \o c) \o m \in Bytes
  BY <1>1, CatBytes
<1>4. magic = magic \o <<>>
  BY CatEmpty
<1> DEFINE ms == magic \o s
           msc == ms \o c
<1>m. /\ magic \in Bytes /\ ms \in Bytes /\ msc \in Bytes
      /\ ms \o one \in Bytes /\ msc \o one \in Bytes /\ msc \o m \in Bytes
  BY <1>3
<1>5. ms \o one = magic \o (s \o one)
  BY <1>1, CatAssoc
<1>5a. \A t \in Bytes : ms \o t = magic \o (s \o t)
  BY <1>1, CatAssoc
<1> HIDE DEF ms
<1>6a. \A t \in Bytes : msc \o t = ms \o (c \o t)
  BY <1>1, <1>m, CatAssoc
<1> HIDE DEF msc
<1>6b. \A t \in Bytes : (msc \o m) \o t = msc \o (m \o t)
  BY <1>1, <1>m, CatAssoc
<1>6c. \A t \in Bytes : c \o t \in Bytes /\ m \o t \in Bytes
  BY <1>1, CatBytes
<1> HIDE DEF Bytes
<1>6. msc \o one = magic \o (s \o (c \o one))
  BY <1>1, <1>5a, <1>6a, <1>6c
<1>7. \A t \in Bytes : (msc \o m) \o t = magic \o (s \o (c \o (m \o t)))
  BY <1>1, <1>5a, <1>6a, <1>6b, <1>6c
<1> DEFINE w == Wrote(magic, r)
<1>8. CASE w = [bytes |-> magic, whole |-> FALSE]
  <2>1. w.bytes = magic /\ w.whole = FALSE
    BY <1>8
  <2> HIDE DEF w
  <2>2. /\ w.whole \in BOOLEAN /\ w.bytes \in Bytes /\ ~w.whole /\ w.bytes = magic \o <<>>
    BY <1>4, <1>m, <2>1
  <2> QED BY <2>2 DEF w
<1>9. CASE w = [bytes |-> ms \o one, whole |-> FALSE]
  <2>1. w.bytes = ms \o one /\ w.whole = FALSE
    BY <1>9
  <2> HIDE DEF w
  <2>2. /\ w.whole \in BOOLEAN /\ w.bytes \in Bytes /\ ~w.whole
        /\ w.bytes = magic \o (s \o one)
    BY <1>5, <1>m, <2>1
  <2> QED BY <2>2 DEF w, s, one
<1>10. CASE w = [bytes |-> msc \o one, whole |-> FALSE]
  <2>1. w.bytes = msc \o one /\ w.whole = FALSE
    BY <1>10
  <2> HIDE DEF w
  <2>2. /\ w.whole \in BOOLEAN /\ w.bytes \in Bytes /\ ~w.whole
        /\ w.bytes = magic \o (s \o (c \o one))
    BY <1>6, <1>m, <2>1
  <2> QED BY <2>2 DEF w, s, c, one
<1>11. CASE w = [bytes |-> msc \o m, whole |-> TRUE]
  <2>1. w.bytes = msc \o m /\ w.whole = TRUE
    BY <1>11
  <2> HIDE DEF w
  <2>2. /\ w.whole \in BOOLEAN /\ w.bytes \in Bytes /\ w.whole
        /\ \A t \in Bytes : w.bytes \o t = magic \o (s \o (c \o (m \o t)))
    BY <1>7, <1>m, <2>1
  <2> QED BY <2>2 DEF w, s, c, m
<1>12. \/ w = [bytes |-> magic, whole |-> FALSE]
       \/ w = [bytes |-> ms \o one, whole |-> FALSE]
       \/ w = [bytes |-> msc \o one, whole |-> FALSE]
       \/ w = [bytes |-> msc \o m, whole |-> TRUE]
  BY <1>2 DEF ms, msc
<1> QED BY <1>8, <1>9, <1>10, <1>11, <1>12

LEMMA ReadRequestIs ==
  ASSUME NEW b
  PROVE  LET p == ReadPreamble(b) IN
         ReadRequest(b) = IF Read(p) THEN ReadBody(p.rest) ELSE p
<1> DEFINE On(p) == IF Read(p) THEN ReadBody(p.rest) ELSE p
<1>1. ReadRequest(b) = CHOOSE n \in {On(p) : p \in {ReadPreamble(b)}} : TRUE
  BY DEF ReadRequest, Then, Read
<1> HIDE DEF On
<1>2. ReadRequest(b) = On(ReadPreamble(b))
  BY <1>1
<1> QED BY <1>2 DEF On

(***************************************************************************)
(* A request is read as it was written, and only when all of it was; what  *)
(* is left is what follows it.  Of a request that could not be written     *)
(* whole nothing follows.                                                  *)
(***************************************************************************)
LEMMA RequestRead ==
  ASSUME NEW b \in Bytes, NEW x \in Bytes, NEW magic \in Bytes, Len(magic) = 4,
         NEW r \in Requests, NEW t \in Bytes,
         b \o x = Wrote(magic, r).bytes \o t, ~Wrote(magic, r).whole => t = <<>>
  PROVE  /\ Read(ReadRequest(b)) => magic = Magic /\ Wrote(magic, r).whole
         /\ Took(ReadRequest(b), r, x, t)
         /\ Read(ReadRequest(b)) \/ ReadRequest(b).read = "version" =>
              Prefix(magic, 2) = Identity /\ magic[3] \notin Capitals
<1> DEFINE s == Str(r.service)
           c == Opt(r.capability)
           m == Opt(r.membership)
           p == ReadPreamble(b)
<1>1. s \in Bytes /\ c \in Bytes /\ m \in Bytes /\ << 1 >> \in Bytes /\ <<>> \in Bytes
  BY StrIsBytes, OptIsBytes DEF Requests, Bytes
<1>2. PICK u \in Bytes :
        /\ b \o x = magic \o u
        /\ IF Wrote(magic, r).whole THEN u = s \o (c \o (m \o t))
           ELSE u = <<>> \/ u = s \o << 1 >> \/ u = s \o (c \o << 1 >>)
  <2>1. /\ s \o (c \o (m \o t)) \in Bytes
        /\ s \o << 1 >> \in Bytes /\ s \o (c \o << 1 >>) \in Bytes
    BY <1>1, CatBytes
  <2>2. CASE Wrote(magic, r).whole
    BY <2>1, <2>2, FrameIs
  <2>3. CASE ~Wrote(magic, r).whole
    <3>1. b \o x = Wrote(magic, r).bytes
      BY <2>3, FrameIs, CatEmpty
    <3> QED BY <1>1, <2>1, <2>3, <3>1, FrameIs
  <2> QED BY <2>2, <2>3
<1>3. /\ Took(p, Version, x, u)
      /\ Read(p) => magic = Magic
      /\ Read(p) \/ p.read = "version" =>
           Prefix(magic, 2) = Identity /\ magic[3] \notin Capitals
  <2> HIDE DEF s, c, m
  <2> QED BY <1>2, PreambleRead
<1>4. ReadRequest(b) = IF Read(p) THEN ReadBody(p.rest) ELSE p
  BY ReadRequestIs
<1> HIDE DEF p
<1>3a. Read(p) => p.rest \in Bytes /\ p.rest \o x = u
  BY <1>3 DEF Took
<1>5. CASE ~Read(p)
  BY <1>3, <1>4, <1>5 DEF Took, Read
<1>6. CASE Read(p)
  <2>1. CASE Wrote(magic, r).whole
    <3>1. Took(ReadBody(p.rest), r, x, t)
      BY <1>2, <1>3a, <1>6, <2>1, BodyRead
    <3> QED BY <1>3, <1>4, <1>6, <2>1, <3>1
  <2>2. CASE ~Wrote(magic, r).whole
    <3>1. ~Read(ReadBody(p.rest))
      BY <1>2, <1>3a, <1>6, <2>2, BodyCut
    <3> QED BY <1>3, <1>4, <1>6, <3>1 DEF Took
  <2> QED BY <2>1, <2>2
<1> QED BY <1>5, <1>6

LEMMA ReadRefusalIs ==
  ASSUME NEW b
  PROVE  LET q == ReadByte(b)
             r == ReadDetail(q.rest)
         IN  ReadRefusal(b) =
               IF Read(q)
               THEN CASE q.value = 0 -> Gives("notAdmitted", q.rest)
                      [] q.value = 1 -> IF Read(r) THEN Gives("badRequest", r.rest) ELSE r
                      [] q.value = 2 -> IF Read(r) THEN Gives("unavailable", r.rest) ELSE r
                      [] OTHER -> Fails("bad")
               ELSE q
<1> DEFINE Bad(r) == IF Read(r) THEN Gives("badRequest", r.rest) ELSE r
           Away(r) == IF Read(r) THEN Gives("unavailable", r.rest) ELSE r
           Class(q) ==
             IF Read(q)
             THEN CASE q.value = 0 -> Gives("notAdmitted", q.rest)
                    [] q.value = 1 ->
                         CHOOSE m \in {Bad(r) : r \in {ReadDetail(q.rest)}} : TRUE
                    [] q.value = 2 ->
                         CHOOSE m \in {Away(r) : r \in {ReadDetail(q.rest)}} : TRUE
                    [] OTHER -> Fails("bad")
             ELSE q
<1>1. ReadRefusal(b) = CHOOSE n \in {Class(q) : q \in {ReadByte(b)}} : TRUE
  BY DEF ReadRefusal, Then, Read, Codes
<1> HIDE DEF Class
<1>2. ReadRefusal(b) = Class(ReadByte(b))
  BY <1>1
<1> HIDE DEF Bad, Away
<1>3. /\ \A q : (CHOOSE m \in {Bad(r) : r \in {ReadDetail(q.rest)}} : TRUE)
                  = Bad(ReadDetail(q.rest))
      /\ \A q : (CHOOSE m \in {Away(r) : r \in {ReadDetail(q.rest)}} : TRUE)
                  = Away(ReadDetail(q.rest))
  OBVIOUS
<1> DEFINE q == ReadByte(b)
           r == ReadDetail(q.rest)
<1>4. Class(q) = IF Read(q)
                 THEN CASE q.value = 0 -> Gives("notAdmitted", q.rest)
                        [] q.value = 1 -> Bad(r)
                        [] q.value = 2 -> Away(r)
                        [] OTHER -> Fails("bad")
                 ELSE q
  <2> HIDE DEF q
  <2> QED BY <1>3 DEF Class
<1> HIDE DEF q, r
<1>5. ReadRefusal(b) = Class(q)
  BY <1>2 DEF q
<1>6. ReadRefusal(b) = IF Read(q)
                       THEN CASE q.value = 0 -> Gives("notAdmitted", q.rest)
                              [] q.value = 1 -> Bad(r)
                              [] q.value = 2 -> Away(r)
                              [] OTHER -> Fails("bad")
                       ELSE q
  BY <1>4, <1>5
<1> QED BY <1>6 DEF q, r, Bad, Away

LEMMA ReadResponseIs ==
  ASSUME NEW b
  PROVE  LET q == ReadByte(b) IN
         ReadResponse(b) = IF Read(q)
                           THEN CASE q.value = 0 -> Gives("ok", q.rest)
                                  [] q.value = 1 -> ReadRefusal(q.rest)
                                  [] OTHER -> Fails("bad")
                           ELSE q
<1> DEFINE On(q) == IF Read(q)
                    THEN CASE q.value = 0 -> Gives("ok", q.rest)
                           [] q.value = 1 -> ReadRefusal(q.rest)
                           [] OTHER -> Fails("bad")
                    ELSE q
<1>1. ReadResponse(b) = CHOOSE n \in {On(q) : q \in {ReadByte(b)}} : TRUE
  BY DEF ReadResponse, Then, Read
<1> HIDE DEF On
<1>2. ReadResponse(b) = On(ReadByte(b))
  BY <1>1
<1> QED BY <1>2 DEF On

LEMMA ResponseIs ==
  ASSUME NEW answer \in {"ok"} \cup Classes
  PROVE  /\ ResponseFrame(answer, Detail) \in Bytes
         /\ \/ answer = "ok" /\ ResponseFrame(answer, Detail) = << 0 >>
            \/ /\ answer # "ok"
               /\ \E d \in Bytes : ResponseFrame(answer, Detail) = <<1, Codes[answer]>> \o d
         /\ answer \in Classes =>
              /\ Codes[answer] \in 0..2
              /\ Codes[answer] = 0 <=> answer = "notAdmitted"
              /\ Codes[answer] = 1 <=> answer = "badRequest"
              /\ Codes[answer] = 2 <=> answer = "unavailable"
<1> DEFINE two(n) == <<1, n>>
           f == ResponseFrame(answer, Detail)
<1>1. Classes = {"notAdmitted", "badRequest", "unavailable"}
  BY DEF Classes, Codes
<1>2. Detail \in Bytes /\ <<>> \in Bytes /\ << 0 >> \in Bytes /\ Str(Detail) \in Bytes
  BY StreamAssumption, StrIsBytes DEF Bytes
<1>3. ASSUME NEW n \in Nat
      PROVE  two(n) \in Bytes
  BY DEF Bytes
<1>4. answer \in Classes =>
        /\ Codes[answer] \in 0..2
        /\ Codes[answer] = 0 <=> answer = "notAdmitted"
        /\ Codes[answer] = 1 <=> answer = "badRequest"
        /\ Codes[answer] = 2 <=> answer = "unavailable"
  BY <1>1 DEF Codes
<1>5. CASE answer = "ok"
  BY <1>1, <1>2, <1>5 DEF ResponseFrame
<1>6. CASE answer = "notAdmitted"
  <2>1. f = two(0) /\ Codes[answer] = 0 /\ two(0) \in Bytes
    BY <1>3, <1>6 DEF ResponseFrame, Codes
  <2> HIDE DEF two
  <2>2. f = two(Codes[answer]) \o <<>>
    BY <2>1, CatEmpty
  <2> QED BY <1>2, <1>4, <1>6, <2>1, <2>2 DEF two
<1>7. CASE answer \in Classes \ {"notAdmitted"}
  <2>1. f = two(Codes[answer]) \o Str(Detail)
    BY <1>1, <1>7 DEF ResponseFrame
  <2>2. two(Codes[answer]) \in Bytes
    BY <1>3, <1>4, <1>7
  <2> HIDE DEF two
  <2>3. f \in Bytes
    BY <1>2, <2>1, <2>2, CatBytes
  <2> QED BY <1>1, <1>2, <1>4, <1>7, <2>1, <2>3 DEF two
<1> QED BY <1>1, <1>5, <1>6, <1>7

(***************************************************************************)
(* An answer is read as the one that was written; after an acceptance what *)
(* is left is what follows it.                                             *)
(***************************************************************************)
LEMMA ResponseRead ==
  ASSUME NEW answer \in {"ok"} \cup Classes, NEW b \in Bytes, NEW x \in Bytes,
         NEW t \in Bytes, b \o x = ResponseFrame(answer, Detail) \o t
  PROVE  LET p == ReadResponse(b) IN
         /\ Read(p) => p.value = answer
         /\ answer = "ok" => Took(p, "ok", x, t)
<1> DEFINE p == ReadResponse(b)
           q == ReadByte(b)
           c == ReadByte(q.rest)
           r == ReadRefusal(q.rest)
           d == ReadDetail(c.rest)
<1>1. p = IF Read(q)
          THEN CASE q.value = 0 -> Gives("ok", q.rest)
                 [] q.value = 1 -> r
                 [] OTHER -> Fails("bad")
          ELSE q
  BY ReadResponseIs
<1>2. r = IF Read(c)
          THEN CASE c.value = 0 -> Gives("notAdmitted", c.rest)
                 [] c.value = 1 -> IF Read(d) THEN Gives("badRequest", d.rest) ELSE d
                 [] c.value = 2 -> IF Read(d) THEN Gives("unavailable", d.rest) ELSE d
                 [] OTHER -> Fails("bad")
          ELSE c
  BY ReadRefusalIs
<1>3. CASE answer = "ok"
  <2>1. b \o x = << 0 >> \o t
    BY <1>3, ResponseIs
  <2>2. Took(q, 0, x, t)
    BY <2>1, ByteRead
  <2> HIDE DEF p, q, r
  <2> QED BY <1>1, <1>3, <2>2 DEF Took, Read, Gives, p
<1>4. CASE answer # "ok"
  <2>0. answer \in Classes
    BY <1>4
  <2>1. PICK u \in Bytes : ResponseFrame(answer, Detail) = <<1, Codes[answer]>> \o u
    BY <1>4, ResponseIs
  <2>2. /\ Codes[answer] \in 0..2
        /\ Codes[answer] = 0 <=> answer = "notAdmitted"
        /\ Codes[answer] = 1 <=> answer = "badRequest"
        /\ Codes[answer] = 2 <=> answer = "unavailable"
    BY <2>0, ResponseIs
  <2> DEFINE n == Codes[answer]
             one == << 1 >>
             two == <<n>>
  <2>3. n \in Nat /\ one \in Bytes /\ two \in Bytes /\ <<1, n>> = one \o two
    BY <2>2 DEF Bytes
  <2>4. b \o x = one \o (two \o (u \o t)) /\ u \o t \in Bytes /\ two \o (u \o t) \in Bytes
    <3>0. one \in Bytes /\ two \in Bytes
      BY <2>3
    <3>1. ResponseFrame(answer, Detail) = (one \o two) \o u
      BY <2>1, <2>3
    <3> HIDE DEF one, two, n
    <3>a. one \in Bytes /\ two \in Bytes
      BY <3>0 DEF one, two
    <3>2. \A v \in Bytes : (one \o two) \o v = one \o (two \o v)
      BY <3>a, CatAssoc
    <3> DEFINE e == one \o two
    <3>3. e \in Bytes
      BY <3>a, CatBytes
    <3> HIDE DEF e
    <3>4. (e \o u) \o t = e \o (u \o t)
      BY <3>3, CatAssoc
    <3>5. u \o t \in Bytes
      BY CatBytes
    <3>6. two \o (u \o t) \in Bytes
      BY <3>a, <3>5, CatBytes
    <3> QED BY <3>1, <3>2, <3>4, <3>5, <3>6 DEF e
  <2>5. Took(q, 1, x, two \o (u \o t))
    BY <2>4, ByteRead
  <2>6. ASSUME Read(q)
        PROVE  Took(c, n, x, u \o t)
    <3>1. q.rest \in Bytes /\ q.rest \o x = <<n>> \o (u \o t)
      BY <2>5, <2>6 DEF Took
    <3> HIDE DEF n, q
    <3> QED BY <2>3, <2>4, <3>1, ByteRead
  <2> HIDE DEF p, q, r, c, d, n
  <2>7. CASE Read(p)
    <3>1. Read(q) /\ q.value = 1
      BY <1>1, <2>5, <2>7 DEF Took
    <3>2. p = r
      BY <1>1, <3>1
    <3>3. Read(c) /\ c.value = n
      BY <1>2, <2>6, <2>7, <3>1, <3>2 DEF Took
    <3>4. n = 0 \/ n = 1 \/ n = 2
      BY <2>2 DEF n
    <3>5. Read(Fails("bad")) = FALSE
      BY DEF Read, Fails
    <3>6. ASSUME n = 0
         PROVE  p.value = answer
      <4>1. p = Gives("notAdmitted", c.rest)
        BY <1>2, <3>2, <3>3, <3>6
      <4> QED BY <2>2, <3>6, <4>1 DEF Gives, n
    <3>7. ASSUME n = 1
         PROVE  p.value = answer
      <4>1. p = Gives("badRequest", d.rest)
        BY <1>2, <2>7, <3>2, <3>3, <3>7
      <4> QED BY <2>2, <3>7, <4>1 DEF Gives, n
    <3>8. ASSUME n = 2
         PROVE  p.value = answer
      <4>1. p = Gives("unavailable", d.rest)
        BY <1>2, <2>7, <3>2, <3>3, <3>8
      <4> QED BY <2>2, <3>8, <4>1 DEF Gives, n
    <3>9. p.value = answer
      BY <3>4, <3>6, <3>7, <3>8
    <3> QED BY <1>4, <3>9 DEF p
  <2> QED BY <1>4, <2>7 DEF p
<1> QED BY <1>3, <1>4

LEMMA ReadFrameIs ==
  ASSUME NEW b
  PROVE  LET q == ReadByte(b) IN
         ReadFrame(b) = IF ~Read(q) THEN q
                        ELSE IF 1 + q.value > MaxFrame THEN Fails("tooLong")
                        ELSE ReadBytes(q.value, q.rest)
<1> DEFINE On(q) == IF Read(q)
                    THEN IF 1 + q.value > MaxFrame THEN Fails("tooLong")
                                                   ELSE ReadBytes(q.value, q.rest)
                    ELSE q
<1>1. ReadFrame(b) = CHOOSE n \in {On(q) : q \in {ReadByte(b)}} : TRUE
  BY DEF ReadFrame, Then, Read
<1> HIDE DEF On
<1>2. ReadFrame(b) = On(ReadByte(b))
  BY <1>1
<1> QED BY <1>2 DEF On

\* The frame of a typed service takes its own bytes and none of what follows.
LEMMA FrameTaken ==
  ASSUME NEW client \in Bytes, NEW b \in Bytes, NEW x \in Bytes, b \o x = client,
         Read(ReadFrame(b))
  PROVE  /\ client # <<>> /\ Head(client) \in Nat /\ 1 + Head(client) <= Len(client)
         /\ ReadFrame(b).rest \in Bytes
         /\ ReadFrame(b).rest \o x = SubSeq(client, (1 + Head(client)) + 1, Len(client))
<1> DEFINE q == ReadByte(b)
           n == Head(client)
           c == Tail(client)
           b1 == Tail(b)
           P == SubSeq(c, 1, n)
           Q == SubSeq(c, n + 1, Len(c))
<1>1. ReadFrame(b) = IF ~Read(q) THEN q
                     ELSE IF 1 + q.value > MaxFrame THEN Fails("tooLong")
                     ELSE ReadBytes(q.value, q.rest)
  BY ReadFrameIs
<1>2. b # <<>> /\ q = Gives(Head(b), Tail(b))
  BY <1>1 DEF ReadByte, Read, More
<1>3. /\ client # <<>> /\ n \in Nat /\ c \in Bytes /\ Len(client) = Len(c) + 1
      /\ b1 \in Bytes /\ Head(b) = n /\ b1 \o x = c /\ client = <<n>> \o c
  <2>1. b1 \in Bytes /\ client # <<>> /\ n = Head(b) /\ c = b1 \o x
    BY <1>2, Heads
  <2>2. n \in Nat /\ c \in Bytes /\ Len(client) = Len(c) + 1 /\ client = <<n>> \o c
    BY <2>1, Heads, CatEmpty DEF Bytes
  <2> QED BY <2>1, <2>2
<1>4. ReadFrame(b) = ReadBytes(n, b1)
  <2> HIDE DEF n, b1
  <2> QED BY <1>1, <1>2, <1>3 DEF Gives, Read, Fails, b1
<1>5. n <= Len(b1) /\ ReadFrame(b).rest = SubSeq(b1, n + 1, Len(b1))
  <2> HIDE DEF n, b1
  <2>1. ~(Len(b1) < n)
    BY <1>4 DEF ReadBytes, Read, More
  <2> DEFINE head == SubSeq(b1, 1, n)
             left == SubSeq(b1, n + 1, Len(b1))
  <2>2. ReadFrame(b) = Gives(head, left)
    BY <1>4, <2>1 DEF ReadBytes
  <2> HIDE DEF head, left
  <2>3. ReadFrame(b).rest = left
    BY <2>2 DEF Gives
  <2> USE DEF left
  <2> QED BY <1>3, <2>1, <2>3 DEF Bytes
<1> HIDE DEF q, n, c, b1
<1>6. Len(c) = Len(b1) + Len(x) /\ Len(b1) \in Nat /\ Len(x) \in Nat /\ n <= Len(c)
  BY <1>3, <1>5, CatBytes DEF Bytes
<1>7. P \in Bytes /\ Len(P) = n /\ Q \in Bytes /\ c = P \o Q
  BY <1>3, <1>6, Halves
<1> HIDE DEF P, Q
<1>8. ReadFrame(b).rest \in Bytes /\ ReadFrame(b).rest \o x = Q
  <2>1. b1 \in Bytes /\ b1 \o x = P \o Q /\ Len(P) <= Len(b1)
    BY <1>3, <1>5, <1>7
  <2>2. /\ SubSeq(b1, Len(P) + 1, Len(b1)) \in Bytes
        /\ SubSeq(b1, Len(P) + 1, Len(b1)) \o x = Q
    BY <1>7, <2>1, Split
  <2>3. ReadFrame(b).rest = SubSeq(b1, Len(P) + 1, Len(b1))
    BY <1>5, <1>7
  <2> QED BY <2>2, <2>3
<1> DEFINE one == <<n>>
<1>9. one \in Bytes /\ Len(one) = 1 /\ client = one \o c
  BY <1>3 DEF Bytes
<1> HIDE DEF one
<1>10. /\ one \o P \in Bytes /\ Len(one \o P) = 1 + n /\ client \in Bytes
       /\ client = (one \o P) \o Q
  <2>1. one \o P \in Bytes /\ Len(one \o P) = 1 + n
    BY <1>7, <1>9, CatBytes
  <2>2. (one \o P) \o Q = one \o (P \o Q)
    BY <1>7, <1>9, CatAssoc
  <2> QED BY <1>7, <1>9, <2>1, <2>2
<1> DEFINE s == one \o P
<1>11. SubSeq(client, (1 + n) + 1, Len(client)) = Q
  <2>1. client \in Bytes /\ s \in Bytes /\ Len(s) = 1 + n /\ client = s \o Q
    BY <1>10
  <2> HIDE DEF s
  <2>2. SubSeq(s \o Q, Len(s) + 1, Len(s \o Q)) = Q
    BY <1>7, <2>1, After
  <2> QED BY <2>1, <2>2
<1>12. 1 + n <= Len(client)
  BY <1>3, <1>6
<1> QED BY <1>3, <1>8, <1>11, <1>12 DEF n
-----------------------------------------------------------------------------
(* The inductive invariant *)

\* Sequences put one after the other, kept folded where only the laws of it
\* matter.
a ++ b == a \o b

W       == RequestFrame(dial.magic, dial.request)
Echo    == dial.handler = "echo"
Out     == IF dial.handler = "source" THEN "sink" ELSE "sin"
Answer  == ResponseFrame(host.ruled, Detail)
Sent    == IF W.whole THEN dial.client ELSE <<>>
Script  == IF Echo THEN dial.client ELSE ServiceSays

ClientUnsaid  == SubSeq(dial.client, said.client + 1, Len(dial.client))
ServiceUnsaid == SubSeq(ServiceSays, said.service + 1, Len(ServiceSays))
Unsaid        == IF Echo THEN ClientUnsaid ELSE ServiceUnsaid

Waiting  == dialer.at \in {"writing", "awaiting"}
DialerOn == dialer.at # "over"
HostOn   == host.at \notin {"over", "silenced"}

Ends3 == {"open", "fin", "cut"}

Typed ==
  /\ dial \in Dials
  /\ pipe \in [Pipes -> [bytes : Bytes, end : Ends3, taken : BOOLEAN]]
  /\ dialer \in [at : {"writing", "awaiting", "carrying", "over"},
                 told : {"nothing", "ok", "broken"} \cup Classes, left : Bytes]
  /\ host \in [at : {"reading", "answering", "framing", "connecting", "serving",
                     "silenced", "over"},
               left : Bytes, asked : {<<>>, <<dial.request>>},
               ruled : {"nothing", "ok"} \cup Classes]
  /\ copy \in [Copies -> {"idle", "run", "done"}]
  /\ moved \in BOOLEAN /\ broken \in BOOLEAN
  /\ said \in [client : 0..Len(dial.client), service : 0..Len(ServiceSays)]

\* Where the dialer is, and what it has.
DialerStages ==
  /\ dialer.at # "writing" => dialer.left = <<>>
  /\ dialer.at \in {"awaiting", "carrying"} => W.whole
  /\ Waiting =>
       /\ pipe["cout"].bytes = <<>> /\ dialer.told = "nothing"
       /\ copy["dialUp"] = "idle" /\ copy["dialDown"] = "idle"
  /\ dialer.at = "carrying" => host.ruled = "ok"
  /\ dialer.told \in {"ok"} \cup Classes => dialer.told = host.ruled
  /\ pipe["cin"].taken <=> DialerOn
  /\ pipe["down"].taken <=> DialerOn

\* Where the host is, and what it has.
HostStages ==
  /\ host.at # "answering" => host.left = <<>>
  /\ host.at = "reading" => host.ruled = "nothing" /\ host.asked = <<>>
  /\ host.at \in {"framing", "connecting", "serving"} =>
       host.ruled = "ok" /\ host.asked # <<>>
  /\ host.at = "framing" => dial.handler = "typed"
  /\ host.at \in {"reading", "answering", "framing", "connecting"} => copy["hostUp"] = "idle"
  /\ copy["hostUp"] = "idle" =>
       /\ pipe["sin"].bytes = <<>> /\ pipe["sink"].bytes = <<>> /\ pipe["sout"].bytes = <<>>
       /\ said.service = 0 /\ copy["hostDown"] = "idle" /\ pipe["sin"].taken
  /\ host.at \in {"connecting", "serving"} \/ copy["hostUp"] # "idle" =>
       FrameSize <= Len(dial.client)
  /\ copy["hostUp"] # "idle" => host.asked # <<>>
  /\ Echo => copy["hostDown"] # "run"
  /\ host.ruled = "nothing" => pipe["down"].bytes = <<>> /\ host.at \in {"reading", "over"}
  /\ host.ruled # "nothing" => Prefix(dial.magic, 2) = Identity /\ dial.magic[3] \notin Capitals
  /\ host.asked = <<>> => host.ruled \in {"nothing", "badRequest"}
  /\ host.asked # <<>> => dial.magic = Magic /\ W.whole
  /\ pipe["up"].taken <=> HostOn
  /\ pipe["sout"].taken <=> HostOn
  /\ pipe["sink"].taken

\* The copy that writes to a pipe, and when it does.
DownCopy == IF Echo THEN "hostUp" ELSE "hostDown"

\* As long as nothing failed, an end has passed on the end of its input.
Clean ==
  ~broken =>
    /\ pipe["cout"].taken /\ pipe["sin"].taken
    /\ ~DialerOn => copy["dialUp"] = "done" /\ copy["dialDown"] = "done"
    /\ ~HostOn => copy["hostUp"] = "done" /\ copy["hostDown"] = "done" /\ host.at = "over"
    /\ copy["dialUp"] = "done" => pipe["cin"].bytes = <<>> /\ pipe["cin"].end = "fin"
    /\ copy["dialDown"] = "done" => pipe["down"].bytes = <<>> /\ pipe["down"].end = "fin"
    /\ copy["hostUp"] = "done" => pipe["up"].bytes = <<>> /\ pipe["up"].end = "fin"
    /\ copy["hostDown"] = "done" /\ ~Echo => pipe["sout"].bytes = <<>> /\ pipe["sout"].end = "fin"
    /\ pipe["up"].end = "fin" => copy["dialUp"] = "done"
    /\ pipe["cout"].end = "fin" => copy["dialDown"] = "done"
    /\ pipe["down"].end = "fin" => copy[DownCopy] = "done"
    /\ pipe["sin"].end = "fin" => copy["hostUp"] = "done" /\ ~Echo /\ Out = "sin"

\* `Y` is what is still to be written to the tunnel after the request, `Z`
\* what the host has still to write after its answer.
Coming(Y, Z) ==
  /\ W.whole /\ (DialerOn \/ ~broken) => Y = pipe["cin"].bytes ++ ClientUnsaid
  /\ W.whole => Len(ClientUnsaid) <= Len(Y)
  /\ ~Echo /\ (HostOn \/ ~broken) => Z = pipe["sout"].bytes ++ ServiceUnsaid
  /\ Echo /\ host.asked # <<>> /\ (HostOn \/ ~broken) =>
       Z = pipe["up"].bytes ++ (dialer.left ++ Y)
  /\ Len(Unsaid) <= Len(Z)

\* What was taken from the tunnel, what it carries and what is to come are
\* the whole of what was to be said.
UpFlow(Y) ==
  /\ host.at = "reading" => pipe["up"].bytes ++ (dialer.left ++ Y) = W.bytes ++ Sent
  /\ host.asked # <<>> /\ (HostOn \/ ~broken) /\ ~Echo /\ pipe[Out].taken =>
       pipe[Out].bytes ++ (pipe["up"].bytes ++ (dialer.left ++ Y)) =
         IF host.at \in {"answering", "framing"} THEN dial.client ELSE Payload

DownFlow(Z) ==
  /\ host.ruled # "nothing" /\ Waiting =>
       pipe["down"].bytes ++ (host.left ++ Z) = Answer ++ Script
  /\ (dialer.at = "carrying" \/ (~DialerOn /\ ~broken)) /\ pipe["cout"].taken =>
       pipe["cout"].bytes ++ (pipe["down"].bytes ++ (host.left ++ Z)) = Script

FlowBy(Y, Z) == Coming(Y, Z) /\ UpFlow(Y) /\ DownFlow(Z)

Flow == \E Y, Z \in Bytes : FlowBy(Y, Z)

\* What was given is the beginning of what was said, whatever failed since.
HeardBy(R) == pipe["cout"].bytes ++ R = Script /\ Len(Unsaid) <= Len(R)
GivenBy(R) == pipe["sin"].bytes ++ R = Payload

Heard == \E R \in Bytes : HeardBy(R)
Given == \E R \in Bytes : GivenBy(R)

\* Nothing crossed: all there may be on the way down is the answer.
QuietBy(V) ==
  ~moved \/ host.at = "silenced" =>
    /\ pipe["cout"].bytes = <<>> /\ pipe["sin"].bytes = <<>>
    /\ dialer.at = "carrying" => pipe["down"].bytes = <<>> /\ host.left = <<>>
    /\ Waiting /\ host.ruled # "nothing" => pipe["down"].bytes ++ (host.left ++ V) = Answer

Quiet == \E V \in Bytes : QuietBy(V)

IInv == Typed /\ DialerStages /\ HostStages /\ Clean /\ Flow /\ Heard /\ Given /\ Quiet
-----------------------------------------------------------------------------
(* The laws of ++, and what is still unsaid *)

LEMMA PlusIs ==
  ASSUME NEW k1 \in Bytes, NEW k2 \in Bytes
  PROVE  k1 ++ k2 \in Bytes /\ Len(k1 ++ k2) = Len(k1) + Len(k2) /\ Len(k1) \in Nat
BY CatBytes DEF ++, Bytes

LEMMA PlusNone ==
  ASSUME NEW k1 \in Bytes
  PROVE  k1 ++ <<>> = k1 /\ <<>> ++ k1 = k1 /\ <<>> \in Bytes
BY CatEmpty DEF ++, Bytes

LEMMA PlusAssoc ==
  ASSUME NEW k1 \in Bytes, NEW k2 \in Bytes, NEW k3 \in Bytes
  PROVE  (k1 ++ k2) ++ k3 = k1 ++ (k2 ++ k3)
BY CatAssoc DEF ++

\* A byte that passes on, with what comes after it.
LEMMA Passed ==
  ASSUME NEW k1 \in Bytes, NEW k2 \in Bytes, k2 # <<>>
  PROVE  /\ Head(k2) \in Nat /\ Tail(k2) \in Bytes /\ Len(k2) = Len(Tail(k2)) + 1
         /\ Append(k1, Head(k2)) \in Bytes
         /\ Append(k1, Head(k2)) ++ Tail(k2) = k1 ++ k2
         /\ \A k3 \in Bytes :
              /\ Append(k1, Head(k2)) ++ (Tail(k2) ++ k3) = k1 ++ (k2 ++ k3)
              /\ \A k4 \in Bytes :
                   Append(k1, Head(k2)) ++ ((Tail(k2) ++ k3) ++ k4) = k1 ++ ((k2 ++ k3) ++ k4)
<1> DEFINE p == Append(k1, Head(k2))
           t == Tail(k2)
<1>1. Head(k2) \in Nat /\ Len(k2) = Len(Tail(k2)) + 1
  BY Heads, CatEmpty DEF Bytes
<1>2. t \in Bytes
  BY Heads, CatEmpty DEF Bytes
<1>3. p \in Bytes /\ p ++ t = k1 ++ k2
  BY Shift DEF ++
<1> HIDE DEF p, t
<1>4. ASSUME NEW k3 \in Bytes
      PROVE  p ++ (t ++ k3) = k1 ++ (k2 ++ k3)
  <2>1. (p ++ t) ++ k3 = p ++ (t ++ k3)
    BY <1>2, <1>3, PlusAssoc
  <2>2. (k1 ++ k2) ++ k3 = k1 ++ (k2 ++ k3)
    BY PlusAssoc
  <2> QED BY <1>3, <2>1, <2>2
<1>5. ASSUME NEW k3 \in Bytes, NEW k4 \in Bytes
      PROVE  p ++ ((t ++ k3) ++ k4) = k1 ++ ((k2 ++ k3) ++ k4)
  <2>1. (t ++ k3) ++ k4 = t ++ (k3 ++ k4) /\ (k2 ++ k3) ++ k4 = k2 ++ (k3 ++ k4)
    BY <1>2, PlusAssoc
  <2>2. k3 ++ k4 \in Bytes
    BY PlusIs
  <2> QED BY <1>4, <2>1, <2>2
<1> QED BY <1>1, <1>2, <1>3, <1>4, <1>5 DEF p, t

LEMMA UnsaidIs ==
  ASSUME NEW script \in Bytes, NEW n \in 0..Len(script)
  PROVE  LET rest(k) == SubSeq(script, k + 1, Len(script)) IN
         /\ rest(n) \in Bytes /\ Len(rest(n)) = Len(script) - n
         /\ rest(0) = script
         /\ n < Len(script) =>
              /\ rest(n) # <<>> /\ Head(rest(n)) = script[n + 1]
              /\ Tail(rest(n)) = rest(n + 1)
<1> DEFINE rest(k) == SubSeq(script, k + 1, Len(script))
<1>1. Len(script) \in Nat
  BY DEF Bytes
<1>2. /\ rest(n) \in Bytes /\ Len(rest(n)) = Len(script) - n
      /\ \A i \in 1..(Len(script) - n) : rest(n)[i] = script[n + i]
  <2>1. n \in Nat /\ n <= Len(script)
    BY <1>1
  <2> QED BY <2>1, Halves
<1>3. rest(0) = script
  BY DEF Bytes
<1>4. ASSUME n < Len(script)
      PROVE  /\ rest(n) # <<>> /\ Head(rest(n)) = script[n + 1]
             /\ Tail(rest(n)) = rest(n + 1)
  <2>1. n + 1 \in Nat /\ n + 1 <= Len(script)
    BY <1>1, <1>4
  <2>2. /\ rest(n + 1) \in Bytes /\ Len(rest(n + 1)) = Len(script) - (n + 1)
        /\ \A i \in 1..(Len(script) - (n + 1)) : rest(n + 1)[i] = script[(n + 1) + i]
    BY <2>1, Halves
  <2> DEFINE a == rest(n)
             b == rest(n + 1)
  <2> HIDE DEF rest
  <2> HIDE DEF a, b
  <2>3. /\ a \in Bytes /\ Len(a) = Len(script) - n
        /\ \A i \in 1..(Len(script) - n) : a[i] = script[n + i]
        /\ b \in Bytes /\ Len(b) = Len(script) - (n + 1)
        /\ \A i \in 1..(Len(script) - (n + 1)) : b[i] = script[(n + 1) + i]
    BY <1>2, <2>2 DEF a, b
  <2>4. a # <<>> /\ Len(a) > 0 /\ Head(a) = a[1] /\ a[1] = script[n + 1]
    <3>1. 1 \in 1..(Len(script) - n) /\ Len(a) > 0
      BY <1>1, <1>4, <2>3
    <3>2. a # <<>> /\ Head(a) = a[1]
      BY <2>3, <3>1 DEF Bytes
    <3> QED BY <2>3, <3>1, <3>2
  <2>5. Tail(a) \in Bytes /\ Len(Tail(a)) = Len(a) - 1
        /\ \A i \in 1..(Len(a) - 1) : Tail(a)[i] = a[i + 1]
    BY <2>3, <2>4 DEF Bytes
  <2>6. \A i \in 1..(Len(a) - 1) : Tail(a)[i] = b[i]
    <3> SUFFICES ASSUME NEW i \in 1..(Len(a) - 1)
                 PROVE  a[i + 1] = b[i]
      BY <2>5
    <3>1. i + 1 \in 1..(Len(script) - n) /\ i \in 1..(Len(script) - (n + 1))
      BY <1>1, <2>3
    <3>2. a[i + 1] = script[n + (i + 1)] /\ b[i] = script[(n + 1) + i]
      BY <2>3, <3>1
    <3>3. n + (i + 1) = (n + 1) + i
      BY <1>1
    <3> QED BY <3>2, <3>3
  <2>7. Tail(a) = b
    <3>1. Len(Tail(a)) = Len(b) /\ Len(Tail(a)) = Len(a) - 1
      BY <1>1, <2>3, <2>5
    <3>2. \A i \in 1..Len(Tail(a)) : Tail(a)[i] = b[i]
      BY <2>6, <3>1
    <3> QED BY <2>3, <2>5, <3>1, <3>2, Same
  <2> QED BY <2>4, <2>7 DEF a, b
<1> QED BY <1>2, <1>3, <1>4

\* What the dial, and what was said, amount to.
LEMMA DialIs ==
  ASSUME Typed
  PROVE  /\ dial.magic \in Bytes /\ Len(dial.magic) = 4 /\ dial.request \in Requests
         /\ dial.client \in Bytes /\ ServiceSays \in Bytes
         /\ dial.handler \in Handlers
         /\ W.whole \in BOOLEAN /\ W.bytes \in Bytes /\ Sent \in Bytes /\ Script \in Bytes
         /\ host.ruled # "nothing" => Answer \in Bytes
<1>1. /\ dial.magic \in Bytes /\ Len(dial.magic) = 4
      /\ dial.client \in Bytes /\ ServiceSays \in Bytes /\ dial.handler \in Handlers
  BY StreamAssumption DEF Typed, Bytes
<1>2. dial.request \in Requests
  <2>1. /\ dial.request \in [service : Bytes, capability : Seq(Bytes), membership : Seq(Bytes)]
        /\ Len(dial.request.capability) <= 1 /\ Len(dial.request.membership) <= 1
    BY StreamAssumption DEF Typed, Bytes
  <2> QED BY <2>1 DEF Requests, Optional
<1>3. W.whole \in BOOLEAN /\ W.bytes \in Bytes
  BY <1>1, <1>2, FrameIs DEF W, Wrote
<1>4. Sent \in Bytes /\ Script \in Bytes
  BY <1>1, PlusNone DEF Sent, Script, Bytes
<1>5. ASSUME host.ruled # "nothing"
      PROVE  Answer \in Bytes
  <2>1. host.ruled \in {"ok"} \cup Classes
    BY <1>5 DEF Typed
  <2> QED BY <2>1, ResponseIs DEF Answer
<1> QED BY <1>1, <1>2, <1>3, <1>4, <1>5

LEMMA SaidIs ==
  ASSUME Typed
  PROVE  /\ ClientUnsaid \in Bytes /\ Len(ClientUnsaid) = Len(dial.client) - said.client
         /\ ServiceUnsaid \in Bytes /\ Len(ServiceUnsaid) = Len(ServiceSays) - said.service
         /\ Unsaid \in Bytes
         /\ said.service = 0 => ServiceUnsaid = ServiceSays
         /\ said.client = 0 => ClientUnsaid = dial.client
<1>1. dial.client \in Bytes /\ ServiceSays \in Bytes
  BY DialIs
<1>2. said.client \in 0..Len(dial.client) /\ said.service \in 0..Len(ServiceSays)
  BY DEF Typed
<1>3. ClientUnsaid \in Bytes /\ Len(ClientUnsaid) = Len(dial.client) - said.client
  BY <1>1, <1>2, UnsaidIs DEF ClientUnsaid
<1>4. ServiceUnsaid \in Bytes /\ Len(ServiceUnsaid) = Len(ServiceSays) - said.service
  BY <1>1, <1>2, UnsaidIs DEF ServiceUnsaid
<1>5. said.service = 0 => ServiceUnsaid = ServiceSays
  BY <1>1, <1>2, UnsaidIs DEF ServiceUnsaid
<1>6. said.client = 0 => ClientUnsaid = dial.client
  BY <1>1, <1>2, UnsaidIs DEF ClientUnsaid
<1> QED BY <1>3, <1>4, <1>5, <1>6 DEF Unsaid

LEMMA PayloadIs ==
  ASSUME Typed
  PROVE  /\ FrameSize \in Nat /\ Payload \in Bytes
         /\ dial.handler # "typed" => FrameSize = 0 /\ Payload = dial.client
         /\ FrameSize <= Len(dial.client) => Len(Payload) = Len(dial.client) - FrameSize
<1> DEFINE c == dial.client
           n == FrameSize
           p == SubSeq(c, n + 1, Len(c))
<1>1. c \in Bytes /\ Len(c) \in Nat
  BY DialIs DEF Bytes
<1>2. n \in Nat
  <2>1. c # <<>> => Head(c) \in Nat
    BY <1>1 DEF Bytes
  <2> QED BY <2>1 DEF FrameSize
<1>3. Payload = p
  BY DEF Payload
<1>4. ASSUME dial.handler # "typed"
      PROVE  FrameSize = 0 /\ Payload = c
  <2>1. FrameSize = 0
    BY <1>4 DEF FrameSize
  <2>2. SubSeq(c, 0 + 1, Len(c)) = c
    BY <1>1, UnsaidIs DEF Bytes
  <2> QED BY <1>3, <2>1, <2>2
<1> HIDE DEF c, n
<1>5. n <= Len(c) => p \in Bytes /\ Len(p) = Len(c) - n
  BY <1>1, <1>2, Halves
<1>6. ~(n <= Len(c)) => p = <<>>
  BY <1>1, <1>2 DEF Bytes
<1> HIDE DEF p
<1>7. p \in Bytes
  <2>1. <<>> \in Bytes
    BY DEF Bytes
  <2> QED BY <1>5, <1>6, <2>1
<1> QED BY <1>2, <1>3, <1>4, <1>5, <1>7 DEF c, n, p
-----------------------------------------------------------------------------
(* Steps that carry no byte *)

LEMMA Views ==
  ASSUME UNCHANGED dial
  PROVE  /\ W' = W /\ Echo' = Echo /\ Out' = Out /\ Sent' = Sent /\ Script' = Script
         /\ FrameSize' = FrameSize /\ Payload' = Payload /\ DownCopy' = DownCopy
         /\ host'.ruled = host.ruled => Answer' = Answer
         /\ UNCHANGED said =>
              ClientUnsaid' = ClientUnsaid /\ ServiceUnsaid' = ServiceUnsaid /\ Unsaid' = Unsaid
BY DEF W, Echo, Out, Sent, Script, FrameSize, Payload, Answer, ClientUnsaid, ServiceUnsaid,
       Unsaid, DownCopy

(***************************************************************************)
(* What such a step may do: nothing passes, an end that goes over may drop *)
(* what it had left and what it has not read, and both of it for a clean   *)
(* end only when there was nothing.                                        *)
(***************************************************************************)
Carrying == dialer.at = "carrying" \/ (~DialerOn /\ ~broken)

Framed == host.at \in {"answering", "framing"}

Stands ==
  /\ UNCHANGED <<dial, said>>
  /\ \A p \in {"cout", "sin", "sink"} :
       pipe'[p].bytes = pipe[p].bytes /\ (pipe'[p].taken => pipe[p].taken)
  /\ DialerOn' \/ ~broken' => \A p \in {"cin", "down"} : pipe'[p].bytes = pipe[p].bytes
  /\ HostOn' \/ ~broken' =>
       /\ pipe'["up"].bytes = pipe["up"].bytes
       /\ ~Echo => pipe'["sout"].bytes = pipe["sout"].bytes
  /\ DialerOn' => DialerOn
  /\ HostOn' => HostOn
  /\ broken => broken'
  /\ dialer'.left = dialer.left \/ (dialer'.left = <<>> /\ ~DialerOn' /\ broken')
  /\ host'.left = host.left \/ (host'.left = <<>> /\ ~HostOn' /\ broken')
  /\ host'.ruled = host.ruled /\ host'.asked = host.asked
  /\ Waiting' => Waiting
  /\ Carrying' => Carrying
  /\ dialer'.at = "carrying" => dialer.at = "carrying"
  /\ host'.at = "reading" => host.at = "reading"
  /\ ~moved' \/ host'.at = "silenced" => ~moved \/ host.at = "silenced"
  /\ host.asked # <<>> /\ (HostOn' \/ ~broken') =>
       Framed' = Framed \/ Payload = dial.client

LEMMA StandsStill ==
  ASSUME Typed, Typed', Stands, Flow, Heard, Given, Quiet
  PROVE  Flow' /\ Heard' /\ Given' /\ Quiet'
<1>1. /\ W' = W /\ Echo' = Echo /\ Out' = Out /\ Sent' = Sent /\ Script' = Script
      /\ Payload' = Payload /\ Answer' = Answer /\ dial' = dial
      /\ ClientUnsaid' = ClientUnsaid /\ ServiceUnsaid' = ServiceUnsaid /\ Unsaid' = Unsaid
  BY Views DEF Stands
<1>2. /\ dialer.left \in Bytes /\ host.left \in Bytes
      /\ dialer'.left \in Bytes /\ host'.left \in Bytes
  BY DEF Typed
<1>3. /\ Len(ClientUnsaid) \in Nat /\ Len(Unsaid) \in Nat
  BY SaidIs, PlusIs
<1>4. PICK Y \in Bytes, Z \in Bytes : FlowBy(Y, Z)
  BY DEF Flow
<1>5. PICK Y2 \in Bytes :
        /\ dialer'.left ++ Y2 = dialer.left ++ Y /\ Len(Y) <= Len(Y2)
        /\ Y2 = Y \/ (~DialerOn' /\ broken')
  <2>1. CASE dialer'.left = dialer.left
    BY <2>1, PlusIs
  <2>2. CASE dialer'.left = <<>> /\ ~DialerOn' /\ broken'
    <3> DEFINE y == dialer.left ++ Y
    <3>1. y \in Bytes /\ Len(Y) <= Len(y)
      BY <1>2, PlusIs
    <3> HIDE DEF y
    <3>2. <<>> ++ y = y
      BY <3>1, PlusNone
    <3> QED BY <2>2, <3>1, <3>2 DEF y
  <2> QED BY <2>1, <2>2 DEF Stands
<1>6. PICK Z2 \in Bytes :
        /\ host'.left ++ Z2 = host.left ++ Z /\ Len(Z) <= Len(Z2)
        /\ Z2 = Z \/ (~HostOn' /\ broken')
  <2>1. CASE host'.left = host.left
    BY <2>1, PlusIs
  <2>2. CASE host'.left = <<>> /\ ~HostOn' /\ broken'
    <3> DEFINE z == host.left ++ Z
    <3>1. z \in Bytes /\ Len(Z) <= Len(z)
      BY <1>2, PlusIs
    <3> HIDE DEF z
    <3>2. <<>> ++ z = z
      BY <3>1, PlusNone
    <3> QED BY <2>2, <3>1, <3>2 DEF z
  <2> QED BY <2>1, <2>2 DEF Stands
<1>7. Coming(Y2, Z2)'
  <2>1. Len(ClientUnsaid) <= Len(Y) => Len(ClientUnsaid) <= Len(Y2)
    BY <1>3, <1>5, PlusIs
  <2>2. Len(Unsaid) <= Len(Z) => Len(Unsaid) <= Len(Z2)
    BY <1>3, <1>6, PlusIs
  <2> QED BY <1>1, <1>4, <1>5, <1>6, <2>1, <2>2 DEF FlowBy, Coming, Stands
<1>8. UpFlow(Y2)'
  <2>1. HostOn' \/ ~broken' => HostOn \/ ~broken
    BY DEF Stands
  <2>2. host'.at = "reading" => HostOn' /\ host.at = "reading"
    BY DEF Stands, HostOn
  <2>3. pipe'[Out].bytes = pipe[Out].bytes /\ (pipe'[Out].taken => pipe[Out].taken)
    BY DEF Stands, Out
  <2> QED BY <1>1, <1>4, <1>5, <2>1, <2>2, <2>3 DEF FlowBy, UpFlow, Stands, Framed
<1>9. DownFlow(Z2)'
  <2>1. Waiting' \/ Carrying' => DialerOn' \/ ~broken'
    BY DEF Waiting, Carrying, DialerOn
  <2>2. Waiting' => Waiting
    BY DEF Stands
  <2>3. Carrying' => Carrying
    BY DEF Stands
  <2> QED BY <1>1, <1>4, <1>6, <2>1, <2>2, <2>3 DEF FlowBy, DownFlow, Stands, Carrying
<1>10. Flow'
  BY <1>7, <1>8, <1>9 DEF Flow, FlowBy
<1>11. Heard' /\ Given'
  BY <1>1 DEF Heard, Given, HeardBy, GivenBy, Stands
<1>12. Quiet'
  <2>1. PICK V \in Bytes : QuietBy(V)
    BY DEF Quiet
  <2>2. PICK V2 \in Bytes : host'.left ++ V2 = host.left ++ V
    <3>1. CASE host'.left = host.left
      BY <3>1
    <3>2. CASE host'.left = <<>>
      <4>1. host.left ++ V \in Bytes
        BY <1>2, PlusIs
      <4> QED BY <3>2, <4>1, PlusNone
    <3> QED BY <3>1, <3>2 DEF Stands
  <2>3. Waiting' \/ dialer'.at = "carrying" => DialerOn'
    BY DEF Waiting, DialerOn
  <2>4. ~moved' \/ host'.at = "silenced" => ~moved \/ host.at = "silenced"
    BY DEF Stands
  <2>5. QuietBy(V2)'
    BY <1>1, <2>1, <2>2, <2>3, <2>4 DEF QuietBy, Stands
  <2> QED BY <2>5 DEF Quiet
<1> QED BY <1>10, <1>11, <1>12

Placed == Typed /\ DialerStages /\ HostStages /\ Clean

LEMMA PipesAre ==
  ASSUME Typed
  PROVE  /\ Pipes = {"up", "down", "cin", "cout", "sin", "sout", "sink"}
         /\ \A p \in Pipes : /\ pipe[p].bytes \in Bytes /\ pipe[p].taken \in BOOLEAN
                             /\ pipe[p].end \in Ends3
BY DEF Typed, Pipes, Tunnel, Local

LEMMA EndsStep ==
  ASSUME Placed, NEW p \in {"cin", "sout"}, Ends(p)
  PROVE  Placed' /\ Stands
<1> USE DEF Placed
<1>1. /\ UNCHANGED <<dial, dialer, host, copy, moved, said, broken>>
      /\ pipe' = [pipe EXCEPT ![p].end = "fin"] /\ p \in Pipes
  BY PipesAre DEF Ends
<1>2. Typed'
  BY <1>1, PipesAre DEF Typed, Ends3
<1>3. /\ \A q \in Pipes : pipe'[q].bytes = pipe[q].bytes /\ pipe'[q].taken = pipe[q].taken
      /\ \A q \in Pipes \ {p} : pipe'[q].end = pipe[q].end
      /\ pipe'[p].end = "fin"
  BY <1>1 DEF Typed
<1>4. /\ W' = W /\ Echo' = Echo /\ Out' = Out /\ FrameSize' = FrameSize /\ DownCopy' = DownCopy
  BY <1>1, Views
<1>5. DialerStages'
  BY <1>1, <1>3, <1>4, PipesAre DEF DialerStages, Waiting, DialerOn
<1>6. HostStages'
  BY <1>1, <1>3, <1>4, PipesAre DEF HostStages, HostOn
<1>7. Clean'
  BY <1>1, <1>3, <1>4, PipesAre DEF Clean, HostOn, DialerOn
<1>8. Stands
  BY <1>1, <1>3, <1>4, PipesAre DEF Stands, Waiting, DialerOn, HostOn, Carrying, Framed
<1> QED BY <1>2, <1>5, <1>6, <1>7, <1>8

LEMMA GoesStep ==
  ASSUME Placed, NEW p \in {"cin", "sout"}, NEW q \in {"cout", "sin"}, Goes(p, q),
         q = "sin" => copy["hostUp"] # "idle"
  PROVE  Placed' /\ Stands
<1> USE DEF Placed
<1>1. /\ UNCHANGED <<dial, dialer, host, copy, moved, said>> /\ broken' = TRUE
      /\ pipe' = [pipe EXCEPT ![p].end = "cut", ![q].taken = FALSE]
      /\ p \in Pipes /\ q \in Pipes
  BY PipesAre DEF Goes
<1>2. Typed'
  <2>1. p # q /\ pipe \in [Pipes -> [bytes : Bytes, end : Ends3, taken : BOOLEAN]]
    BY DEF Typed
  <2>2. [pipe[p] EXCEPT !.end = "cut"] \in [bytes : Bytes, end : Ends3, taken : BOOLEAN]
    BY <1>1, <2>1 DEF Ends3
  <2>3. [pipe[q] EXCEPT !.taken = FALSE] \in [bytes : Bytes, end : Ends3, taken : BOOLEAN]
    BY <1>1, <2>1
  <2>4. pipe' = [r \in Pipes |-> IF r = p THEN [pipe[p] EXCEPT !.end = "cut"]
                                 ELSE IF r = q THEN [pipe[q] EXCEPT !.taken = FALSE]
                                 ELSE pipe[r]]
    BY <1>1, <2>1
  <2>5. pipe' \in [Pipes -> [bytes : Bytes, end : Ends3, taken : BOOLEAN]]
    BY <2>1, <2>2, <2>3, <2>4
  <2> QED BY <1>1, <2>5 DEF Typed
<1>3. /\ \A r \in Pipes : pipe'[r].bytes = pipe[r].bytes
      /\ \A r \in Pipes \ {q} : pipe'[r].taken = pipe[r].taken
      /\ pipe'[q].taken = FALSE
  BY <1>1 DEF Typed
<1>4. /\ W' = W /\ Echo' = Echo /\ Out' = Out /\ FrameSize' = FrameSize /\ DownCopy' = DownCopy
  BY <1>1, Views
<1>5. DialerStages'
  BY <1>1, <1>3, <1>4, PipesAre DEF DialerStages, Waiting, DialerOn
<1>6. HostStages'
  BY <1>1, <1>3, <1>4, PipesAre DEF HostStages, HostOn
<1>7. Clean'
  BY <1>1, <1>3, <1>4, PipesAre DEF Clean, HostOn, DialerOn
<1>8. Stands
  BY <1>1, <1>3, <1>4, PipesAre DEF Stands, Waiting, DialerOn, HostOn, Carrying, Framed
<1> QED BY <1>2, <1>5, <1>6, <1>7, <1>8

LEMMA SessionLostStep ==
  ASSUME Placed, SessionLost
  PROVE  Placed' /\ Stands
<1> USE DEF Placed
<1>1. /\ UNCHANGED <<dial, dialer, host, copy, moved, said>> /\ broken' = TRUE
      /\ pipe' = [p \in Pipes |->
                    IF p \in Tunnel THEN [pipe[p] EXCEPT !.end = "cut"] ELSE pipe[p]]
  BY DEF SessionLost
<1>2. Typed'
  BY <1>1, PipesAre DEF Typed, Ends3
<1>3. \A r \in Pipes : pipe'[r].bytes = pipe[r].bytes /\ pipe'[r].taken = pipe[r].taken
  BY <1>1 DEF Typed
<1>4. /\ W' = W /\ Echo' = Echo /\ Out' = Out /\ FrameSize' = FrameSize /\ DownCopy' = DownCopy
  BY <1>1, Views
<1>5. DialerStages'
  BY <1>1, <1>3, <1>4, PipesAre DEF DialerStages, Waiting, DialerOn
<1>6. HostStages'
  BY <1>1, <1>3, <1>4, PipesAre DEF HostStages, HostOn
<1>7. Clean'
  BY <1>1, <1>3, <1>4, PipesAre DEF Clean, HostOn, DialerOn
<1>8. Stands
  BY <1>1, <1>3, <1>4, PipesAre DEF Stands, Waiting, DialerOn, HostOn, Carrying, Framed
<1> QED BY <1>2, <1>5, <1>6, <1>7, <1>8

LEMMA DialerWaitsStep ==
  ASSUME Placed, DialerWaits
  PROVE  Placed' /\ Stands
<1> USE DEF Placed
<1>1. /\ UNCHANGED <<dial, pipe, host, copy, moved, said, broken>>
      /\ dialer.at = "writing" /\ dialer.left = <<>> /\ W.whole
      /\ dialer'.at = "awaiting" /\ dialer'.left = dialer.left /\ dialer'.told = dialer.told
      /\ dialer' = [dialer EXCEPT !.at = "awaiting"]
  BY DEF DialerWaits, W, Typed
<1>2. Typed'
  BY <1>1 DEF Typed
<1>3. \A r \in Pipes : pipe'[r] = pipe[r]
  BY <1>1
<1>4. /\ W' = W /\ Echo' = Echo /\ Out' = Out /\ FrameSize' = FrameSize /\ DownCopy' = DownCopy
  BY <1>1, Views
<1>5. DialerStages'
  BY <1>1, <1>3, <1>4, PipesAre DEF DialerStages, Waiting, DialerOn
<1>6. HostStages'
  BY <1>1, <1>3, <1>4, PipesAre DEF HostStages, HostOn
<1>7. Clean'
  BY <1>1, <1>3, <1>4, PipesAre DEF Clean, HostOn, DialerOn
<1>8. Stands
  BY <1>1, <1>3, <1>4, PipesAre DEF Stands, Waiting, DialerOn, HostOn, Carrying, Framed
<1> QED BY <1>2, <1>5, <1>6, <1>7, <1>8

LEMMA FrameBeginsStep ==
  ASSUME Placed, FrameBegins
  PROVE  Placed' /\ Stands
<1> USE DEF Placed
<1>1. UNCHANGED <<dial, pipe, dialer, host, copy, said, broken>> /\ ~moved /\ moved' = TRUE
  BY DEF FrameBegins
<1>2. Typed'
  BY <1>1 DEF Typed
<1>3. \A r \in Pipes : pipe'[r] = pipe[r]
  BY <1>1
<1>4. /\ W' = W /\ Echo' = Echo /\ Out' = Out /\ FrameSize' = FrameSize /\ DownCopy' = DownCopy
  BY <1>1, Views
<1>5. DialerStages'
  BY <1>1, <1>3, <1>4, PipesAre DEF DialerStages, Waiting, DialerOn
<1>6. HostStages'
  BY <1>1, <1>3, <1>4, PipesAre DEF HostStages, HostOn
<1>7. Clean'
  BY <1>1, <1>3, <1>4, PipesAre DEF Clean, HostOn, DialerOn
<1>8. Stands
  BY <1>1, <1>3, <1>4, PipesAre DEF Stands, Waiting, DialerOn, HostOn, Carrying, Framed
<1> QED BY <1>2, <1>5, <1>6, <1>7, <1>8

LEMMA HostConnectsStep ==
  ASSUME Placed, HostConnects
  PROVE  Placed' /\ Stands
<1> USE DEF Placed
<1>1. /\ UNCHANGED <<dial, pipe, dialer, moved, said, broken>>
      /\ host.at = "connecting" /\ host' = [host EXCEPT !.at = "serving"]
      /\ host'.at = "serving" /\ host'.left = host.left
      /\ host'.asked = host.asked /\ host'.ruled = host.ruled
      /\ copy' = [copy EXCEPT !["hostUp"] = "run",
                              !["hostDown"] = IF Echo THEN "done" ELSE "run"]
      /\ copy'["hostUp"] = "run" /\ copy'["hostDown"] = (IF Echo THEN "done" ELSE "run")
      /\ copy'["dialUp"] = copy["dialUp"] /\ copy'["dialDown"] = copy["dialDown"]
  BY DEF HostConnects, Typed, Copies, Echo
<1>2. Typed'
  BY <1>1 DEF Typed
<1>3. \A r \in Pipes : pipe'[r] = pipe[r]
  BY <1>1
<1>4. /\ W' = W /\ Echo' = Echo /\ Out' = Out /\ FrameSize' = FrameSize /\ DownCopy' = DownCopy
  BY <1>1, Views
<1>5. DialerStages'
  BY <1>1, <1>3, <1>4, PipesAre DEF DialerStages, Waiting, DialerOn
<1>6. HostStages'
  BY <1>1, <1>3, <1>4, PipesAre DEF HostStages, HostOn
<1>7. Clean'
  BY <1>1, <1>3, <1>4, PipesAre DEF Clean, HostOn, DialerOn, DownCopy, HostStages
<1>8. Stands
  BY <1>1, <1>3, <1>4, PipesAre DEF Stands, Waiting, DialerOn, HostOn, Carrying, Framed
<1> QED BY <1>2, <1>5, <1>6, <1>7, <1>8

LEMMA HostOksStep ==
  ASSUME Placed, HostOks
  PROVE  Placed' /\ Stands
<1> USE DEF Placed
<1>1. /\ UNCHANGED <<dial, pipe, dialer, copy, moved, said, broken>>
      /\ host.at = "answering" /\ host.left = <<>> /\ host.ruled = "ok"
      /\ host' = [host EXCEPT !.at = IF dial.handler = "typed" THEN "framing"
                                                                ELSE "connecting"]
      /\ host'.at = (IF dial.handler = "typed" THEN "framing" ELSE "connecting")
      /\ host'.left = host.left /\ host'.asked = host.asked /\ host'.ruled = host.ruled
  BY DEF HostOks, Typed
<1>2. Typed'
  BY <1>1 DEF Typed
<1>3. /\ \A r \in Pipes : pipe'[r] = pipe[r]
      /\ dial.handler # "typed" => Payload = dial.client /\ FrameSize = 0
      /\ Len(dial.client) \in Nat
  BY <1>1, PayloadIs, DialIs DEF Bytes
<1>4. /\ W' = W /\ Echo' = Echo /\ Out' = Out /\ FrameSize' = FrameSize /\ DownCopy' = DownCopy
  BY <1>1, Views
<1>5. DialerStages'
  BY <1>1, <1>3, <1>4, PipesAre DEF DialerStages, Waiting, DialerOn
<1>6. HostStages'
  BY <1>1, <1>3, <1>4, PipesAre DEF HostStages, HostOn
<1>7. Clean'
  BY <1>1, <1>3, <1>4, PipesAre DEF Clean, HostOn, DialerOn
<1>8. Stands
  BY <1>1, <1>3, <1>4, PipesAre DEF Stands, Waiting, DialerOn, HostOn, Carrying, Framed
<1> QED BY <1>2, <1>5, <1>6, <1>7, <1>8

LEMMA ToIs ==
  /\ From["dialUp"] = "cin" /\ To["dialUp"] = "up"
  /\ From["dialDown"] = "down" /\ To["dialDown"] = "cout"
  /\ From["hostUp"] = "up" /\ To["hostUp"] = (IF Echo THEN "down" ELSE Out)
  /\ From["hostDown"] = "sout" /\ To["hostDown"] = "down"
BY DEF From, To, Echo, Out

LEMMA CopyEndsStep ==
  ASSUME Placed, NEW end \in {"dialer", "host"}, NEW c \in Copies, CopyEnds(end, c)
  PROVE  Placed' /\ Stands
<1> USE DEF Placed
<1>0. /\ c \in {"dialUp", "dialDown", "hostUp", "hostDown"}
      /\ c \in {"dialUp", "dialDown"} <=> end = "dialer"
      /\ copy[c] = "run" /\ Carries(end)
      /\ Echo => c # "hostDown"
      /\ From[c] \in Pipes /\ To[c] \in Pipes
      /\ From[c] = (CASE c = "dialUp" -> "cin" [] c = "dialDown" -> "down"
                      [] c = "hostUp" -> "up" [] c = "hostDown" -> "sout")
      /\ To[c] = (CASE c = "dialUp" -> "up" [] c = "dialDown" -> "cout"
                    [] c = "hostUp" -> (IF Echo THEN "down" ELSE Out)
                    [] c = "hostDown" -> "down")
  BY ToIs, PipesAre DEF CopyEnds, Running, CopiesOf, HostStages, Copies, Out
<1>1. /\ UNCHANGED <<dial, dialer, host, moved, said, broken>>
      /\ copy' = [copy EXCEPT ![c] = "done"] /\ copy'[c] = "done"
      /\ \A d \in Copies \ {c} : copy'[d] = copy[d]
      /\ pipe' = [pipe EXCEPT ![To[c]].end = "fin"]
      /\ pipe[From[c]].bytes = <<>> /\ pipe[From[c]].end = "fin"
  BY DEF CopyEnds, Typed
<1>2. Typed'
  BY <1>0, <1>1, PipesAre DEF Typed, Ends3
<1>3. /\ \A r \in Pipes : pipe'[r].bytes = pipe[r].bytes /\ pipe'[r].taken = pipe[r].taken
      /\ \A r \in Pipes \ {To[c]} : pipe'[r].end = pipe[r].end
      /\ {"dialUp", "dialDown", "hostUp", "hostDown"} = Copies
  BY <1>0, <1>1 DEF Typed, Copies
<1>4. /\ W' = W /\ Echo' = Echo /\ Out' = Out /\ FrameSize' = FrameSize /\ DownCopy' = DownCopy
  BY <1>1, Views
<1>5. DialerStages'
  <2>1. Waiting => copy'["dialUp"] = copy["dialUp"] /\ copy'["dialDown"] = copy["dialDown"]
    BY <1>0, <1>1, <1>3 DEF Carries, Waiting
  <2> QED BY <1>1, <1>3, <1>4, <2>1, PipesAre DEF DialerStages, Waiting, DialerOn
<1>6. HostStages'
  BY <1>0, <1>1, <1>3, <1>4, PipesAre DEF HostStages, HostOn
<1>7. Clean'
  <2>1. CASE c = "dialUp"
    BY <1>0, <1>1, <1>3, <1>4, <2>1, PipesAre DEF Clean, HostOn, DialerOn, DownCopy
  <2>2. CASE c = "dialDown"
    BY <1>0, <1>1, <1>3, <1>4, <2>2, PipesAre DEF Clean, HostOn, DialerOn, DownCopy
  <2>3. CASE c = "hostUp"
    BY <1>0, <1>1, <1>3, <1>4, <2>3, PipesAre DEF Clean, HostOn, DialerOn, DownCopy, Out
  <2>4. CASE c = "hostDown"
    BY <1>0, <1>1, <1>3, <1>4, <2>4, PipesAre DEF Clean, HostOn, DialerOn, DownCopy
  <2> QED BY <1>0, <2>1, <2>2, <2>3, <2>4
<1>8. Stands
  BY <1>1, <1>3, <1>4, PipesAre DEF Stands, Waiting, DialerOn, HostOn, Carrying, Framed
<1> QED BY <1>2, <1>5, <1>6, <1>7, <1>8

\* What an end that is over leaves of the pipes.
LEMMA DialerDropped ==
  ASSUME Typed, Drop("dialer")
  PROVE  /\ pipe' \in [Pipes -> [bytes : Bytes, end : Ends3, taken : BOOLEAN]]
         /\ \A p \in {"cin", "down"} :
              pipe'[p].bytes = <<>> /\ ~pipe'[p].taken /\ pipe'[p].end = pipe[p].end
         /\ \A p \in {"up", "cout"} :
              /\ pipe'[p].bytes = pipe[p].bytes /\ pipe'[p].taken = pipe[p].taken
              /\ pipe[p].end # "open" => pipe'[p].end = pipe[p].end
         /\ \A p \in {"sin", "sout", "sink"} : pipe'[p] = pipe[p]
<1>1. PICK local \in {"fin", "cut"} : pipe' = Dropped("dialer", local)
  BY DEF Drop
<1>2. Reads("dialer") = {"cin", "down"} /\ Writes("dialer") = {"up", "cout"}
  BY ToIs DEF Reads, Writes, Out
<1> DEFINE v(p) ==
      CASE p \in Reads("dialer") -> [pipe[p] EXCEPT !.taken = FALSE, !.bytes = <<>>]
        [] p \in Writes("dialer") /\ pipe[p].end = "open" ->
             [pipe[p] EXCEPT !.end = IF p \in Tunnel THEN "fin" ELSE local]
        [] OTHER -> pipe[p]
<1>3. pipe' = [p \in Pipes |-> v(p)]
  BY <1>1 DEF Dropped
<1>4. ASSUME NEW p \in Pipes, p \in Reads("dialer")
      PROVE  /\ v(p) \in [bytes : Bytes, end : Ends3, taken : BOOLEAN]
             /\ v(p).bytes = <<>> /\ ~v(p).taken /\ v(p).end = pipe[p].end
  <2>1. <<>> \in Bytes /\ pipe[p] \in [bytes : Bytes, end : Ends3, taken : BOOLEAN]
    BY DEF Typed, Bytes
  <2>2. v(p) = [pipe[p] EXCEPT !.taken = FALSE, !.bytes = <<>>]
    BY <1>2, <1>4
  <2> QED BY <2>1, <2>2
<1>5. ASSUME NEW p \in Pipes, p \notin Reads("dialer")
      PROVE  /\ v(p) \in [bytes : Bytes, end : Ends3, taken : BOOLEAN]
             /\ v(p).bytes = pipe[p].bytes /\ v(p).taken = pipe[p].taken
             /\ pipe[p].end # "open" \/ p \notin Writes("dialer") => v(p) = pipe[p]
  <2>1. pipe[p] \in [bytes : Bytes, end : Ends3, taken : BOOLEAN]
    BY DEF Typed
  <2>2. CASE p \in Writes("dialer") /\ pipe[p].end = "open"
    <3>1. v(p) = [pipe[p] EXCEPT !.end = IF p \in Tunnel THEN "fin" ELSE local]
      BY <1>5, <2>2
    <3> QED BY <2>1, <2>2, <3>1 DEF Ends3
  <2>3. CASE ~(p \in Writes("dialer") /\ pipe[p].end = "open")
    BY <1>5, <2>1, <2>3
  <2> QED BY <2>2, <2>3
<1> HIDE DEF v
<1>6. \A p \in Pipes : pipe'[p] = v(p)
  BY <1>3
<1>7. pipe' \in [Pipes -> [bytes : Bytes, end : Ends3, taken : BOOLEAN]]
  BY <1>3, <1>4, <1>5
<1> QED BY <1>2, <1>4, <1>5, <1>6, <1>7, PipesAre

LEMMA HostDropped ==
  ASSUME Typed, Drop("host")
  PROVE  /\ pipe' \in [Pipes -> [bytes : Bytes, end : Ends3, taken : BOOLEAN]]
         /\ \A p \in {"up", "sout"} :
              pipe'[p].bytes = <<>> /\ ~pipe'[p].taken /\ pipe'[p].end = pipe[p].end
         /\ \A p \in {"down", "sin", "sink"} :
              /\ pipe'[p].bytes = pipe[p].bytes /\ pipe'[p].taken = pipe[p].taken
              /\ pipe[p].end # "open" => pipe'[p].end = pipe[p].end
         /\ Echo \/ Out # "sin" => pipe'["sin"] = pipe["sin"]
         /\ \A p \in {"cin", "cout"} : pipe'[p] = pipe[p]
<1>1. PICK local \in {"fin", "cut"} : pipe' = Dropped("host", local)
  BY DEF Drop
<1>2. /\ Reads("host") = {"up", "sout"}
      /\ Writes("host") = {"down", IF Echo THEN "down" ELSE Out}
      /\ Out \in {"sin", "sink"}
  BY ToIs DEF Reads, Writes, Out
<1> DEFINE v(p) ==
      CASE p \in Reads("host") -> [pipe[p] EXCEPT !.taken = FALSE, !.bytes = <<>>]
        [] p \in Writes("host") /\ pipe[p].end = "open" ->
             [pipe[p] EXCEPT !.end = IF p \in Tunnel THEN "fin" ELSE local]
        [] OTHER -> pipe[p]
<1>3. pipe' = [p \in Pipes |-> v(p)]
  BY <1>1 DEF Dropped
<1>4. ASSUME NEW p \in Pipes, p \in Reads("host")
      PROVE  /\ v(p) \in [bytes : Bytes, end : Ends3, taken : BOOLEAN]
             /\ v(p).bytes = <<>> /\ ~v(p).taken /\ v(p).end = pipe[p].end
  <2>1. <<>> \in Bytes /\ pipe[p] \in [bytes : Bytes, end : Ends3, taken : BOOLEAN]
    BY DEF Typed, Bytes
  <2>2. v(p) = [pipe[p] EXCEPT !.taken = FALSE, !.bytes = <<>>]
    BY <1>2, <1>4
  <2> QED BY <2>1, <2>2
<1>5. ASSUME NEW p \in Pipes, p \notin Reads("host")
      PROVE  /\ v(p) \in [bytes : Bytes, end : Ends3, taken : BOOLEAN]
             /\ v(p).bytes = pipe[p].bytes /\ v(p).taken = pipe[p].taken
             /\ pipe[p].end # "open" \/ p \notin Writes("host") => v(p) = pipe[p]
  <2>1. pipe[p] \in [bytes : Bytes, end : Ends3, taken : BOOLEAN]
    BY DEF Typed
  <2>2. CASE p \in Writes("host") /\ pipe[p].end = "open"
    <3>1. v(p) = [pipe[p] EXCEPT !.end = IF p \in Tunnel THEN "fin" ELSE local]
      BY <1>5, <2>2
    <3> QED BY <2>1, <2>2, <3>1 DEF Ends3
  <2>3. CASE ~(p \in Writes("host") /\ pipe[p].end = "open")
    BY <1>5, <2>1, <2>3
  <2> QED BY <2>2, <2>3
<1> HIDE DEF v
<1>6. \A p \in Pipes : pipe'[p] = v(p)
  BY <1>3
<1>7. pipe' \in [Pipes -> [bytes : Bytes, end : Ends3, taken : BOOLEAN]]
  BY <1>3, <1>4, <1>5
<1> QED BY <1>2, <1>4, <1>5, <1>6, <1>7, PipesAre

LEMMA DialerJoinsStep ==
  ASSUME Placed, Joins("dialer")
  PROVE  Placed' /\ Stands
<1> USE DEF Placed
<1>1. /\ UNCHANGED <<dial, copy, host, moved, said, broken>>
      /\ dialer.at = "carrying" /\ dialer' = [dialer EXCEPT !.at = "over"]
      /\ dialer'.at = "over" /\ dialer'.left = dialer.left /\ dialer'.told = dialer.told
      /\ copy["dialUp"] = "done" /\ copy["dialDown"] = "done"
      /\ Drop("dialer")
  BY DEF Joins, Carries, BothDone, CopiesOf, Typed
<1>3. /\ pipe' \in [Pipes -> [bytes : Bytes, end : Ends3, taken : BOOLEAN]]
      /\ \A p \in {"cin", "down"} :
           pipe'[p].bytes = <<>> /\ ~pipe'[p].taken /\ pipe'[p].end = pipe[p].end
      /\ \A p \in {"up", "cout"} :
           /\ pipe'[p].bytes = pipe[p].bytes /\ pipe'[p].taken = pipe[p].taken
           /\ pipe[p].end # "open" => pipe'[p].end = pipe[p].end
      /\ \A p \in {"sin", "sout", "sink"} : pipe'[p] = pipe[p]
  BY <1>1, DialerDropped
<1>2. Typed'
  BY <1>1, <1>3 DEF Typed
<1>4. /\ W' = W /\ Echo' = Echo /\ Out' = Out /\ FrameSize' = FrameSize /\ DownCopy' = DownCopy
  BY <1>1, Views
<1>5. DialerStages'
  BY <1>1, <1>3, <1>4, PipesAre DEF DialerStages, Waiting, DialerOn
<1>6. HostStages'
  BY <1>1, <1>3, <1>4, PipesAre DEF HostStages, HostOn, DialerStages
<1>7. Clean'
  BY <1>1, <1>3, <1>4, PipesAre DEF Clean, HostOn, DialerOn
<1>8. Stands
  BY <1>1, <1>3, <1>4, PipesAre DEF Stands, Clean, Waiting, DialerOn, HostOn, Carrying, Framed
<1> QED BY <1>2, <1>5, <1>6, <1>7, <1>8

LEMMA HostJoinsStep ==
  ASSUME Placed, Joins("host")
  PROVE  Placed' /\ Stands
<1> USE DEF Placed
<1>1. /\ UNCHANGED <<dial, copy, dialer, moved, said, broken>>
      /\ host.at = "serving" /\ host' = [host EXCEPT !.at = "over"]
      /\ host'.at = "over" /\ host'.left = host.left
      /\ host'.asked = host.asked /\ host'.ruled = host.ruled
      /\ copy["hostUp"] = "done" /\ copy["hostDown"] = "done"
      /\ Drop("host")
  BY DEF Joins, Carries, BothDone, CopiesOf, Typed
<1>3. /\ pipe' \in [Pipes -> [bytes : Bytes, end : Ends3, taken : BOOLEAN]]
      /\ \A p \in {"up", "sout"} :
           pipe'[p].bytes = <<>> /\ ~pipe'[p].taken /\ pipe'[p].end = pipe[p].end
      /\ \A p \in {"down", "sin", "sink"} :
           /\ pipe'[p].bytes = pipe[p].bytes /\ pipe'[p].taken = pipe[p].taken
           /\ pipe[p].end # "open" => pipe'[p].end = pipe[p].end
      /\ Echo \/ Out # "sin" => pipe'["sin"] = pipe["sin"]
      /\ \A p \in {"cin", "cout"} : pipe'[p] = pipe[p]
  BY <1>1, HostDropped
<1>2. Typed'
  BY <1>1, <1>3 DEF Typed
<1>4. /\ W' = W /\ Echo' = Echo /\ Out' = Out /\ FrameSize' = FrameSize /\ DownCopy' = DownCopy
  BY <1>1, Views
<1>5. DialerStages'
  BY <1>1, <1>3, <1>4, PipesAre DEF DialerStages, Waiting, DialerOn
<1>6. HostStages'
  BY <1>1, <1>3, <1>4, PipesAre DEF HostStages, HostOn
<1>7. Clean'
  BY <1>1, <1>3, <1>4, PipesAre DEF Clean, HostOn, DialerOn, DownCopy, HostStages
<1>8. Stands
  BY <1>1, <1>3, <1>4, PipesAre DEF Stands, Clean, Waiting, DialerOn, HostOn, Carrying, Framed
<1> QED BY <1>2, <1>5, <1>6, <1>7, <1>8

LEMMA DialerOverStep ==
  ASSUME Placed, NEW told \in {"ok", "broken"} \cup Classes, DialerOver(told),
         told \in {"ok"} \cup Classes => told = host.ruled
  PROVE  Placed' /\ Stands
<1> USE DEF Placed
<1>1. /\ UNCHANGED <<dial, copy, host, moved, said>> /\ broken' = TRUE
      /\ dialer' = [at |-> "over", left |-> <<>>, told |-> told]
      /\ dialer'.at = "over" /\ dialer'.left = <<>> /\ dialer'.told = told
      /\ Drop("dialer")
  BY DEF DialerOver
<1>3. /\ pipe' \in [Pipes -> [bytes : Bytes, end : Ends3, taken : BOOLEAN]]
      /\ \A p \in {"cin", "down"} :
           pipe'[p].bytes = <<>> /\ ~pipe'[p].taken /\ pipe'[p].end = pipe[p].end
      /\ \A p \in {"up", "cout"} :
           pipe'[p].bytes = pipe[p].bytes /\ pipe'[p].taken = pipe[p].taken
      /\ \A p \in {"sin", "sout", "sink"} : pipe'[p] = pipe[p]
  BY <1>1, DialerDropped
<1>2. Typed'
  <2>1. <<>> \in Bytes
    BY DEF Bytes
  <2> QED BY <1>1, <1>3, <2>1 DEF Typed
<1>4. /\ W' = W /\ Echo' = Echo /\ Out' = Out /\ FrameSize' = FrameSize /\ DownCopy' = DownCopy
  BY <1>1, Views
<1>5. DialerStages'
  BY <1>1, <1>3, <1>4, PipesAre DEF DialerStages, Waiting, DialerOn
<1>6. HostStages'
  BY <1>1, <1>3, <1>4, PipesAre DEF HostStages, HostOn
<1>7. Clean'
  BY <1>1 DEF Clean
<1>8. Stands
  BY <1>1, <1>3, <1>4, PipesAre DEF Stands, Waiting, DialerOn, HostOn, Carrying, Framed
<1> QED BY <1>2, <1>5, <1>6, <1>7, <1>8

LEMMA HostOverStep ==
  ASSUME Placed, HostOn, NEW at \in {"over", "silenced"}, HostOver(at),
         at = "silenced" => ~moved /\ host.ruled # "nothing"
  PROVE  Placed' /\ Stands
<1> USE DEF Placed
<1>1. /\ UNCHANGED <<dial, copy, dialer, moved, said>> /\ broken' = TRUE
      /\ host' = [host EXCEPT !.at = at, !.left = <<>>]
      /\ host'.at = at /\ host'.left = <<>>
      /\ host'.asked = host.asked /\ host'.ruled = host.ruled
      /\ Drop("host")
  BY DEF HostOver, Typed
<1>3. /\ pipe' \in [Pipes -> [bytes : Bytes, end : Ends3, taken : BOOLEAN]]
      /\ \A p \in {"up", "sout"} :
           pipe'[p].bytes = <<>> /\ ~pipe'[p].taken /\ pipe'[p].end = pipe[p].end
      /\ \A p \in {"down", "sin", "sink"} :
           pipe'[p].bytes = pipe[p].bytes /\ pipe'[p].taken = pipe[p].taken
      /\ \A p \in {"cin", "cout"} : pipe'[p] = pipe[p]
  BY <1>1, HostDropped
<1>2. Typed'
  <2>1. <<>> \in Bytes
    BY DEF Bytes
  <2> QED BY <1>1, <1>3, <2>1 DEF Typed
<1>4. /\ W' = W /\ Echo' = Echo /\ Out' = Out /\ FrameSize' = FrameSize /\ DownCopy' = DownCopy
  BY <1>1, Views
<1>5. DialerStages'
  BY <1>1, <1>3, <1>4, PipesAre DEF DialerStages, Waiting, DialerOn
<1>6. HostStages'
  BY <1>1, <1>3, <1>4, PipesAre DEF HostStages, HostOn
<1>7. Clean'
  BY <1>1 DEF Clean
<1>8. Stands
  BY <1>1, <1>3, <1>4, PipesAre DEF Stands, Waiting, DialerOn, HostOn, Carrying, Framed
<1> QED BY <1>2, <1>5, <1>6, <1>7, <1>8

-----------------------------------------------------------------------------
(* Steps that carry a byte *)

\* What a byte put on a pipe does.
LEMMA PutIs ==
  ASSUME Typed, NEW p \in Pipes, NEW byte \in Nat
  PROVE  LET q == Put(p, byte) IN
         /\ q \in [Pipes -> [bytes : Bytes, end : Ends3, taken : BOOLEAN]]
         /\ q[p].bytes = IF pipe[p].taken THEN Append(pipe[p].bytes, byte) ELSE pipe[p].bytes
         /\ q[p].end = pipe[p].end /\ q[p].taken = pipe[p].taken
         /\ \A r \in Pipes \ {p} : q[r] = pipe[r]
<1> DEFINE b == IF pipe[p].taken THEN Append(pipe[p].bytes, byte) ELSE pipe[p].bytes
<1>1. pipe[p] \in [bytes : Bytes, end : Ends3, taken : BOOLEAN] /\ b \in Bytes
  BY DEF Typed, Bytes
<1>2. Put(p, byte) = [pipe EXCEPT ![p].bytes = b]
  BY DEF Put
<1> HIDE DEF b
<1>3. /\ Put(p, byte) \in [Pipes -> [bytes : Bytes, end : Ends3, taken : BOOLEAN]]
      /\ Put(p, byte)[p].bytes = b
      /\ Put(p, byte)[p].end = pipe[p].end /\ Put(p, byte)[p].taken = pipe[p].taken
      /\ \A r \in Pipes \ {p} : Put(p, byte)[r] = pipe[r]
  BY <1>1, <1>2 DEF Typed
<1> QED BY <1>3 DEF b

LEMMA LeaveIs ==
  ASSUME Typed, NEW p \in Pipes, NEW b \in Bytes
  PROVE  /\ Leave(p, b) \in [Pipes -> [bytes : Bytes, end : Ends3, taken : BOOLEAN]]
         /\ Leave(p, b)[p].bytes = b
         /\ Leave(p, b)[p].end = pipe[p].end /\ Leave(p, b)[p].taken = pipe[p].taken
         /\ \A r \in Pipes \ {p} : Leave(p, b)[r] = pipe[r]
<1>1. pipe[p] \in [bytes : Bytes, end : Ends3, taken : BOOLEAN]
  BY DEF Typed
<1> QED BY <1>1 DEF Typed, Leave

LEMMA MoveIs ==
  ASSUME Typed, NEW p \in Pipes, NEW r \in Pipes, p # r, pipe[p].bytes # <<>>,
         pipe' = [Put(r, Head(pipe[p].bytes)) EXCEPT ![p].bytes = Tail(@)]
  PROVE  /\ pipe' \in [Pipes -> [bytes : Bytes, end : Ends3, taken : BOOLEAN]]
         /\ pipe'[p].bytes = Tail(pipe[p].bytes)
         /\ pipe'[p].end = pipe[p].end /\ pipe'[p].taken = pipe[p].taken
         /\ pipe'[r].bytes = IF pipe[r].taken THEN Append(pipe[r].bytes, Head(pipe[p].bytes))
                                              ELSE pipe[r].bytes
         /\ pipe'[r].end = pipe[r].end /\ pipe'[r].taken = pipe[r].taken
         /\ \A q \in Pipes \ {p, r} : pipe'[q] = pipe[q]
<1> DEFINE put == Put(r, Head(pipe[p].bytes))
<1>1. pipe[p].bytes \in Bytes /\ Head(pipe[p].bytes) \in Nat /\ Tail(pipe[p].bytes) \in Bytes
  BY PipesAre, Passed
<1>2. /\ put \in [Pipes -> [bytes : Bytes, end : Ends3, taken : BOOLEAN]]
      /\ put[r].bytes = IF pipe[r].taken THEN Append(pipe[r].bytes, Head(pipe[p].bytes))
                                         ELSE pipe[r].bytes
      /\ put[r].end = pipe[r].end /\ put[r].taken = pipe[r].taken
      /\ \A q \in Pipes \ {r} : put[q] = pipe[q]
  BY <1>1, PutIs
<1> HIDE DEF put
<1>3. pipe' = [put EXCEPT ![p].bytes = Tail(@)]
  BY DEF put
<1>4. put[p] = pipe[p] /\ put[p] \in [bytes : Bytes, end : Ends3, taken : BOOLEAN]
  BY <1>2
<1> DEFINE rest == Tail(pipe[p].bytes)
<1>5. rest \in Bytes /\ pipe' = [put EXCEPT ![p].bytes = rest]
  BY <1>1, <1>3, <1>4
<1> HIDE DEF rest
<1>6. /\ pipe' \in [Pipes -> [bytes : Bytes, end : Ends3, taken : BOOLEAN]]
      /\ pipe'[p].bytes = rest
      /\ pipe'[p].end = pipe[p].end /\ pipe'[p].taken = pipe[p].taken
      /\ \A q \in Pipes \ {p} : pipe'[q] = put[q]
  <2>1. /\ put \in [Pipes -> [bytes : Bytes, end : Ends3, taken : BOOLEAN]]
        /\ put[p] \in [bytes : Bytes, end : Ends3, taken : BOOLEAN]
    BY <1>2, <1>4
  <2>2. pipe' = [put EXCEPT ![p] = [put[p] EXCEPT !.bytes = rest]]
    BY <1>5, <2>1
  <2>3. [put[p] EXCEPT !.bytes = rest] \in [bytes : Bytes, end : Ends3, taken : BOOLEAN]
    BY <1>5, <2>1
  <2>4. pipe'[p] = [put[p] EXCEPT !.bytes = rest] /\ \A q \in Pipes \ {p} : pipe'[q] = put[q]
    BY <2>1, <2>2
  <2>5. pipe' \in [Pipes -> [bytes : Bytes, end : Ends3, taken : BOOLEAN]]
    BY <2>1, <2>2, <2>3
  <2> QED BY <1>4, <2>1, <2>4, <2>5
<1> QED BY <1>2, <1>6 DEF rest

LEMMA ClientSaysStep ==
  ASSUME Placed, Flow, Heard, Given, Quiet, Says("client", "cin", dial.client)
  PROVE  Placed' /\ Flow' /\ Heard' /\ Given' /\ Quiet'
<1> USE DEF Placed
<1> DEFINE byte == dial.client[said.client + 1]
<1>0. /\ dial.client \in Bytes /\ Len(dial.client) \in Nat /\ said.client \in 0..Len(dial.client)
      /\ said.client < Len(dial.client)
  BY DialIs DEF Says, Typed, Bytes
<1>0a. ClientUnsaid # <<>> /\ Head(ClientUnsaid) = byte
  BY <1>0, UnsaidIs DEF ClientUnsaid
<1>0b. ClientUnsaid \in Bytes /\ byte \in Nat
  BY <1>0a, SaidIs, Passed
<1>1. /\ UNCHANGED <<dial, dialer, host, copy, moved, broken>>
      /\ said' = [said EXCEPT !["client"] = @ + 1]
      /\ said'.client = said.client + 1 /\ said'.service = said.service
      /\ pipe' = Put("cin", byte) /\ pipe["cin"].end = "open"
  BY DEF Says, Typed
<1>3. /\ pipe' \in [Pipes -> [bytes : Bytes, end : Ends3, taken : BOOLEAN]]
      /\ pipe'["cin"].bytes = IF pipe["cin"].taken THEN Append(pipe["cin"].bytes, byte)
                                                   ELSE pipe["cin"].bytes
      /\ pipe'["cin"].end = pipe["cin"].end /\ pipe'["cin"].taken = pipe["cin"].taken
      /\ \A r \in Pipes \ {"cin"} : pipe'[r] = pipe[r]
  <2> HIDE DEF byte
  <2>1. "cin" \in Pipes
    BY PipesAre
  <2>2. byte \in Nat /\ pipe' = Put("cin", byte)
    BY <1>0b, <1>1 DEF byte
  <2> QED BY <2>1, <2>2, PutIs
<1> HIDE DEF byte
<1>2. Typed'
  BY <1>0, <1>1, <1>3 DEF Typed
<1>4. /\ W' = W /\ Echo' = Echo /\ Out' = Out /\ FrameSize' = FrameSize /\ DownCopy' = DownCopy
      /\ Sent' = Sent /\ Script' = Script /\ Payload' = Payload
  BY <1>1, Views
<1>5. DialerStages'
  BY <1>1, <1>3, <1>4, PipesAre DEF DialerStages, Waiting, DialerOn
<1>6. HostStages'
  BY <1>1, <1>3, <1>4, PipesAre DEF HostStages, HostOn
<1>7. Clean'
  BY <1>1, <1>3, <1>4, PipesAre DEF Clean, HostOn, DialerOn
<1>8. ClientUnsaid' = Tail(ClientUnsaid)
  <2>1. ClientUnsaid' = SubSeq(dial.client, (said.client + 1) + 1, Len(dial.client))
    BY <1>1 DEF ClientUnsaid
  <2> QED BY <1>0, <2>1, UnsaidIs DEF ClientUnsaid
<1>9. ServiceUnsaid' = ServiceUnsaid /\ Answer' = Answer
  BY <1>1 DEF ServiceUnsaid, Answer
<1>10. /\ Len(ClientUnsaid) = Len(ClientUnsaid') + 1 /\ Len(ClientUnsaid') \in Nat
       /\ pipe["cin"].taken =>
            pipe'["cin"].bytes ++ ClientUnsaid' = pipe["cin"].bytes ++ ClientUnsaid
  <2>1. pipe["cin"].bytes \in Bytes
    BY PipesAre
  <2>2. /\ Len(ClientUnsaid) = Len(Tail(ClientUnsaid)) + 1 /\ Tail(ClientUnsaid) \in Bytes
        /\ Append(pipe["cin"].bytes, Head(ClientUnsaid)) ++ Tail(ClientUnsaid) =
             pipe["cin"].bytes ++ ClientUnsaid
    BY <1>0a, <1>0b, <2>1, Passed
  <2>3. Len(Tail(ClientUnsaid)) \in Nat
    BY <2>2, PlusIs
  <2> QED BY <1>0a, <1>3, <1>8, <2>2, <2>3
<1>11. DialerOn \/ ~broken => pipe["cin"].taken
  BY <1>1 DEF Clean, DialerStages
<1>12. \A n \in Nat : Len(Unsaid) <= n => Len(Unsaid') <= n
  <2>1. Len(Unsaid) \in Nat /\ Len(Unsaid') \in Nat /\ Len(Unsaid') <= Len(Unsaid)
    <3>1. Len(ServiceUnsaid) \in Nat
      BY SaidIs, PlusIs
    <3> QED BY <1>4, <1>9, <1>10, <3>1 DEF Unsaid
  <2> QED BY <2>1
<1>13. Flow'
  <2>1. PICK Y \in Bytes, Z \in Bytes : FlowBy(Y, Z)
    BY DEF Flow
  <2>2. Len(Y) \in Nat /\ Len(Z) \in Nat
    BY PlusIs
  <2>3. Coming(Y, Z)'
    BY <1>1, <1>3, <1>4, <1>9, <1>10, <1>11, <1>12, <2>1, <2>2, PipesAre
       DEF FlowBy, Coming, DialerOn, HostOn
  <2>4. UpFlow(Y)'
    BY <1>1, <1>3, <1>4, <2>1, PipesAre DEF FlowBy, UpFlow, HostOn, Out
  <2>5. DownFlow(Z)'
    BY <1>1, <1>3, <1>4, <1>9, <2>1, PipesAre DEF FlowBy, DownFlow, DialerOn, Waiting
  <2> QED BY <2>3, <2>4, <2>5 DEF Flow, FlowBy
<1>14. Heard' /\ Given'
  <2>1. \A R \in Bytes : Len(R) \in Nat
    BY PlusIs
  <2> QED BY <1>3, <1>4, <1>12, <2>1, PipesAre DEF Heard, Given, HeardBy, GivenBy
<1>15. Quiet'
  BY <1>1, <1>3, <1>4, <1>9, PipesAre DEF Quiet, QuietBy, Waiting
<1> QED BY <1>2, <1>5, <1>6, <1>7, <1>13, <1>14, <1>15

LEMMA ServiceSaysStep ==
  ASSUME Placed, Flow, Heard, Given, Quiet, Connected, Says("service", "sout", ServiceSays)
  PROVE  Placed' /\ Flow' /\ Heard' /\ Given' /\ Quiet'
<1> USE DEF Placed
<1> DEFINE byte == ServiceSays[said.service + 1]
<1>0. /\ ServiceSays \in Bytes /\ Len(ServiceSays) \in Nat
      /\ said.service \in 0..Len(ServiceSays) /\ said.service < Len(ServiceSays)
  BY DialIs DEF Says, Typed, Bytes
<1>0a. ServiceUnsaid # <<>> /\ Head(ServiceUnsaid) = byte
  BY <1>0, UnsaidIs DEF ServiceUnsaid
<1>0b. ServiceUnsaid \in Bytes /\ byte \in Nat
  BY <1>0a, SaidIs, Passed
<1>1. /\ UNCHANGED <<dial, dialer, host, copy, moved, broken>>
      /\ said' = [said EXCEPT !["service"] = @ + 1]
      /\ said'.service = said.service + 1 /\ said'.client = said.client
      /\ pipe' = Put("sout", byte) /\ pipe["sout"].end = "open"
      /\ copy["hostUp"] # "idle" /\ ~Echo
  BY DEF Says, Typed, Connected, Echo
<1>3. /\ pipe' \in [Pipes -> [bytes : Bytes, end : Ends3, taken : BOOLEAN]]
      /\ pipe'["sout"].bytes = IF pipe["sout"].taken THEN Append(pipe["sout"].bytes, byte)
                                                     ELSE pipe["sout"].bytes
      /\ pipe'["sout"].end = pipe["sout"].end /\ pipe'["sout"].taken = pipe["sout"].taken
      /\ \A r \in Pipes \ {"sout"} : pipe'[r] = pipe[r]
  <2> HIDE DEF byte
  <2>1. "sout" \in Pipes
    BY PipesAre
  <2>2. byte \in Nat /\ pipe' = Put("sout", byte)
    BY <1>0b, <1>1 DEF byte
  <2> QED BY <2>1, <2>2, PutIs
<1> HIDE DEF byte
<1>2. Typed'
  BY <1>0, <1>1, <1>3 DEF Typed
<1>4. /\ W' = W /\ Echo' = Echo /\ Out' = Out /\ FrameSize' = FrameSize /\ DownCopy' = DownCopy
      /\ Sent' = Sent /\ Script' = Script /\ Payload' = Payload
  BY <1>1, Views
<1>5. DialerStages'
  BY <1>1, <1>3, <1>4, PipesAre DEF DialerStages, Waiting, DialerOn
<1>6. HostStages'
  BY <1>1, <1>3, <1>4, PipesAre DEF HostStages, HostOn
<1>7. Clean'
  <2>1. ~broken => ~(copy["hostDown"] = "done")
    BY <1>1 DEF Clean
  <2>2. /\ pipe'["cin"] = pipe["cin"] /\ pipe'["cout"] = pipe["cout"]
        /\ pipe'["up"] = pipe["up"] /\ pipe'["down"] = pipe["down"]
        /\ pipe'["sin"] = pipe["sin"] /\ copy' = copy /\ broken' = broken
        /\ dialer' = dialer /\ host' = host
    BY <1>1, <1>3, PipesAre
  <2> QED BY <1>4, <2>1, <2>2 DEF Clean, HostOn, DialerOn
<1>8. ServiceUnsaid' = Tail(ServiceUnsaid)
  <2>1. ServiceUnsaid' = SubSeq(ServiceSays, (said.service + 1) + 1, Len(ServiceSays))
    BY <1>1 DEF ServiceUnsaid
  <2> QED BY <1>0, <2>1, UnsaidIs DEF ServiceUnsaid
<1>9. ClientUnsaid' = ClientUnsaid /\ Answer' = Answer
  BY <1>1 DEF ClientUnsaid, Answer
<1>10. /\ Len(ServiceUnsaid) = Len(ServiceUnsaid') + 1 /\ Len(ServiceUnsaid') \in Nat
       /\ pipe["sout"].taken =>
            pipe'["sout"].bytes ++ ServiceUnsaid' = pipe["sout"].bytes ++ ServiceUnsaid
  <2>1. pipe["sout"].bytes \in Bytes
    BY PipesAre
  <2>2. /\ Len(ServiceUnsaid) = Len(Tail(ServiceUnsaid)) + 1 /\ Tail(ServiceUnsaid) \in Bytes
        /\ Append(pipe["sout"].bytes, Head(ServiceUnsaid)) ++ Tail(ServiceUnsaid) =
             pipe["sout"].bytes ++ ServiceUnsaid
    BY <1>0a, <1>0b, <2>1, Passed
  <2>3. Len(Tail(ServiceUnsaid)) \in Nat
    BY <2>2, PlusIs
  <2> QED BY <1>0a, <1>3, <1>8, <2>2, <2>3
<1>11. HostOn \/ ~broken => pipe["sout"].taken
  BY <1>1 DEF Clean, HostStages
<1>12. \A n \in Nat : Len(Unsaid) <= n => Len(Unsaid') <= n
  BY <1>1, <1>4, <1>10 DEF Unsaid
<1>13. Flow'
  <2>1. PICK Y \in Bytes, Z \in Bytes : FlowBy(Y, Z)
    BY DEF Flow
  <2>2. Len(Y) \in Nat /\ Len(Z) \in Nat
    BY PlusIs
  <2>3. Coming(Y, Z)'
    BY <1>1, <1>3, <1>4, <1>9, <1>10, <1>11, <1>12, <2>1, <2>2, PipesAre
       DEF FlowBy, Coming, DialerOn, HostOn
  <2>4. UpFlow(Y)'
    BY <1>1, <1>3, <1>4, <2>1, PipesAre DEF FlowBy, UpFlow, HostOn, Out
  <2>5. DownFlow(Z)'
    BY <1>1, <1>3, <1>4, <1>9, <2>1, PipesAre DEF FlowBy, DownFlow, DialerOn, Waiting
  <2> QED BY <2>3, <2>4, <2>5 DEF Flow, FlowBy
<1>14. Heard' /\ Given'
  <2>1. \A R \in Bytes : Len(R) \in Nat
    BY PlusIs
  <2> QED BY <1>3, <1>4, <1>12, <2>1, PipesAre DEF Heard, Given, HeardBy, GivenBy
<1>15. Quiet'
  BY <1>1, <1>3, <1>4, <1>9, PipesAre DEF Quiet, QuietBy, Waiting
<1> QED BY <1>2, <1>5, <1>6, <1>7, <1>13, <1>14, <1>15

LEMMA DialerWritesStep ==
  ASSUME Placed, Flow, Heard, Given, Quiet, DialerWrites
  PROVE  Placed' /\ Flow' /\ Heard' /\ Given' /\ Quiet'
<1> USE DEF Placed
<1> DEFINE byte == Head(dialer.left)
<1>0. dialer.left \in Bytes /\ dialer.left # <<>> /\ byte \in Nat /\ Tail(dialer.left) \in Bytes
  BY Passed DEF DialerWrites, Typed
<1>1. /\ UNCHANGED <<dial, host, copy, moved, said, broken>>
      /\ dialer.at = "writing"
      /\ dialer' = [dialer EXCEPT !.left = Tail(@)]
      /\ dialer'.left = Tail(dialer.left) /\ dialer'.at = dialer.at /\ dialer'.told = dialer.told
      /\ pipe' = Put("up", byte) /\ pipe["up"].end = "open"
  BY DEF DialerWrites, Typed, Takes
<1>3. /\ pipe' \in [Pipes -> [bytes : Bytes, end : Ends3, taken : BOOLEAN]]
      /\ pipe'["up"].bytes = IF pipe["up"].taken THEN Append(pipe["up"].bytes, byte)
                                                 ELSE pipe["up"].bytes
      /\ pipe'["up"].end = pipe["up"].end /\ pipe'["up"].taken = pipe["up"].taken
      /\ \A r \in Pipes \ {"up"} : pipe'[r] = pipe[r]
  <2> HIDE DEF byte
  <2>1. "up" \in Pipes
    BY PipesAre
  <2>2. byte \in Nat /\ pipe' = Put("up", byte)
    BY <1>0, <1>1 DEF byte
  <2> QED BY <2>1, <2>2, PutIs
<1>2. Typed'
  BY <1>0, <1>1, <1>3 DEF Typed
<1>4. /\ W' = W /\ Echo' = Echo /\ Out' = Out /\ FrameSize' = FrameSize /\ DownCopy' = DownCopy
      /\ Sent' = Sent /\ Script' = Script /\ Payload' = Payload
  BY <1>1, Views
<1>5. DialerStages'
  BY <1>1, <1>3, <1>4, PipesAre DEF DialerStages, Waiting, DialerOn
<1>6. HostStages'
  BY <1>1, <1>3, <1>4, PipesAre DEF HostStages, HostOn
<1>7. Clean'
  BY <1>1, <1>3, <1>4, PipesAre DEF Clean, HostOn, DialerOn
<1>8. /\ Answer' = Answer /\ ClientUnsaid' = ClientUnsaid /\ ServiceUnsaid' = ServiceUnsaid
      /\ Unsaid' = Unsaid
  BY <1>1, Views
<1>9. HostOn \/ ~broken => pipe["up"].taken
  BY <1>1 DEF Clean, HostStages
<1>10. ASSUME NEW Y \in Bytes, pipe["up"].taken
       PROVE  pipe'["up"].bytes ++ (dialer'.left ++ Y) = pipe["up"].bytes ++ (dialer.left ++ Y)
  <2>1. pipe["up"].bytes \in Bytes
    BY PipesAre
  <2>2. Append(pipe["up"].bytes, byte) ++ (Tail(dialer.left) ++ Y) =
          pipe["up"].bytes ++ (dialer.left ++ Y)
    BY <1>0, <2>1, Passed
  <2> QED BY <1>1, <1>3, <1>10, <2>2
<1>11. Flow'
  <2>1. PICK Y \in Bytes, Z \in Bytes : FlowBy(Y, Z)
    BY DEF Flow
  <2>2. HostOn \/ ~broken =>
          pipe'["up"].bytes ++ (dialer'.left ++ Y) = pipe["up"].bytes ++ (dialer.left ++ Y)
    BY <1>9, <1>10
  <2>3. Coming(Y, Z)'
    BY <1>1, <1>3, <1>4, <1>8, <2>1, <2>2, PipesAre DEF FlowBy, Coming, DialerOn, HostOn
  <2>4. UpFlow(Y)'
    BY <1>1, <1>3, <1>4, <2>1, <2>2, PipesAre DEF FlowBy, UpFlow, HostOn, Out
  <2>5. DownFlow(Z)'
    BY <1>1, <1>3, <1>4, <1>8, <2>1, PipesAre DEF FlowBy, DownFlow, DialerOn, Waiting
  <2> QED BY <2>3, <2>4, <2>5 DEF Flow, FlowBy
<1>12. Heard' /\ Given'
  BY <1>3, <1>4, <1>8, PipesAre DEF Heard, Given, HeardBy, GivenBy
<1>13. Quiet'
  BY <1>1, <1>3, <1>4, <1>8, PipesAre DEF Quiet, QuietBy, Waiting
<1> QED BY <1>2, <1>5, <1>6, <1>7, <1>11, <1>12, <1>13

LEMMA HostWritesStep ==
  ASSUME Placed, Flow, Heard, Given, Quiet, HostWrites
  PROVE  Placed' /\ Flow' /\ Heard' /\ Given' /\ Quiet'
<1> USE DEF Placed
<1> DEFINE byte == Head(host.left)
<1>0. host.left \in Bytes /\ host.left # <<>> /\ byte \in Nat /\ Tail(host.left) \in Bytes
  BY Passed DEF HostWrites, Typed
<1>1. /\ UNCHANGED <<dial, dialer, copy, moved, said, broken>>
      /\ host.at = "answering"
      /\ host' = [host EXCEPT !.left = Tail(@)]
      /\ host'.left = Tail(host.left) /\ host'.at = host.at
      /\ host'.asked = host.asked /\ host'.ruled = host.ruled
      /\ pipe' = Put("down", byte) /\ pipe["down"].end = "open"
  BY DEF HostWrites, Typed, Takes
<1>3. /\ pipe' \in [Pipes -> [bytes : Bytes, end : Ends3, taken : BOOLEAN]]
      /\ pipe'["down"].bytes = IF pipe["down"].taken THEN Append(pipe["down"].bytes, byte)
                                                     ELSE pipe["down"].bytes
      /\ pipe'["down"].end = pipe["down"].end /\ pipe'["down"].taken = pipe["down"].taken
      /\ \A r \in Pipes \ {"down"} : pipe'[r] = pipe[r]
  <2> HIDE DEF byte
  <2>1. "down" \in Pipes
    BY PipesAre
  <2>2. byte \in Nat /\ pipe' = Put("down", byte)
    BY <1>0, <1>1 DEF byte
  <2> QED BY <2>1, <2>2, PutIs
<1>2. Typed'
  BY <1>0, <1>1, <1>3 DEF Typed
<1>4. /\ W' = W /\ Echo' = Echo /\ Out' = Out /\ FrameSize' = FrameSize /\ DownCopy' = DownCopy
      /\ Sent' = Sent /\ Script' = Script /\ Payload' = Payload
  BY <1>1, Views
<1>5. DialerStages'
  BY <1>1, <1>3, <1>4, PipesAre DEF DialerStages, Waiting, DialerOn
<1>6. HostStages'
  BY <1>1, <1>3, <1>4, PipesAre DEF HostStages, HostOn
<1>7. Clean'
  BY <1>1, <1>3, <1>4, PipesAre DEF Clean, HostOn, DialerOn
<1>8. /\ Answer' = Answer /\ ClientUnsaid' = ClientUnsaid /\ ServiceUnsaid' = ServiceUnsaid
      /\ Unsaid' = Unsaid
  BY <1>1, Views
<1>9. DialerOn \/ ~broken => pipe["down"].taken
  BY <1>1 DEF Clean, DialerStages
<1>10. ASSUME NEW Z \in Bytes, pipe["down"].taken
       PROVE  pipe'["down"].bytes ++ (host'.left ++ Z) = pipe["down"].bytes ++ (host.left ++ Z)
  <2>1. pipe["down"].bytes \in Bytes
    BY PipesAre
  <2>2. Append(pipe["down"].bytes, byte) ++ (Tail(host.left) ++ Z) =
          pipe["down"].bytes ++ (host.left ++ Z)
    BY <1>0, <2>1, Passed
  <2> QED BY <1>1, <1>3, <1>10, <2>2
<1>11. Flow'
  <2>1. PICK Y \in Bytes, Z \in Bytes : FlowBy(Y, Z)
    BY DEF Flow
  <2>2. DialerOn \/ ~broken =>
          pipe'["down"].bytes ++ (host'.left ++ Z) = pipe["down"].bytes ++ (host.left ++ Z)
    BY <1>9, <1>10
  <2>3. Coming(Y, Z)'
    BY <1>1, <1>3, <1>4, <1>8, <2>1, PipesAre DEF FlowBy, Coming, DialerOn, HostOn
  <2>4. UpFlow(Y)'
    BY <1>1, <1>3, <1>4, <2>1, PipesAre DEF FlowBy, UpFlow, HostOn, Out
  <2>5. DownFlow(Z)'
    BY <1>1, <1>3, <1>4, <1>8, <2>1, <2>2, PipesAre DEF FlowBy, DownFlow, DialerOn, Waiting
  <2> QED BY <2>3, <2>4, <2>5 DEF Flow, FlowBy
<1>12. Heard' /\ Given'
  BY <1>3, <1>4, <1>8, PipesAre DEF Heard, Given, HeardBy, GivenBy
<1>13. Quiet'
  <2>1. PICK V \in Bytes : QuietBy(V)
    BY DEF Quiet
  <2>2. Waiting => pipe'["down"].bytes ++ (host'.left ++ V) = pipe["down"].bytes ++ (host.left ++ V)
    BY <1>9, <1>10 DEF Waiting, DialerOn
  <2>3. QuietBy(V)'
    BY <1>0, <1>1, <1>3, <1>4, <1>8, <2>1, <2>2, PipesAre DEF QuietBy, Waiting
  <2> QED BY <2>3 DEF Quiet
<1> QED BY <1>2, <1>5, <1>6, <1>7, <1>11, <1>12, <1>13

\* What the dialer reads while it waits is the host's ruling.
LEMMA ToldIs ==
  ASSUME Placed, Flow, Waiting, Read(ReadResponse(pipe["down"].bytes))
  PROVE  /\ host.ruled \in {"ok"} \cup Classes /\ pipe["down"].bytes \in Bytes
         /\ ReadResponse(pipe["down"].bytes).value = host.ruled
<1> USE DEF Placed
<1> DEFINE b == pipe["down"].bytes
<1>1. b \in Bytes /\ host.left \in Bytes /\ Script \in Bytes
  BY PipesAre, DialIs DEF Typed
<1>2. host.ruled \in {"ok"} \cup Classes
  <2>1. ~Read(ReadResponse(<<>>))
    BY ReadResponseIs DEF ReadByte, More, Read
  <2>2. host.ruled # "nothing"
    BY <2>1 DEF HostStages
  <2> QED BY <2>2 DEF Typed
<1>3. PICK Z \in Bytes : b ++ (host.left ++ Z) = Answer ++ Script
  <2>1. host.ruled # "nothing"
    BY <1>2 DEF Classes, Codes
  <2> QED BY <2>1 DEF Flow, FlowBy, DownFlow
<1> HIDE DEF b
<1>4. host.left ++ Z \in Bytes
  BY <1>1, PlusIs
<1>5. b \o (host.left ++ Z) = ResponseFrame(host.ruled, Detail) \o Script
  BY <1>3 DEF ++, Answer
<1>6. Read(ReadResponse(b)) => ReadResponse(b).value = host.ruled
  <2> DEFINE x == host.left ++ Z
  <2> HIDE DEF x
  <2>1. x \in Bytes /\ b \o x = ResponseFrame(host.ruled, Detail) \o Script
    BY <1>4, <1>5 DEF x
  <2> QED BY <1>1, <1>2, <2>1, ResponseRead
<1> QED BY <1>1, <1>2, <1>6 DEF b

\* What follows an acceptance is what is carried after it.
LEMMA AcceptanceRead ==
  ASSUME NEW b \in Bytes, NEW left \in Bytes, NEW Z \in Bytes, NEW t \in Bytes,
         b ++ (left ++ Z) = ResponseFrame("ok", Detail) ++ t, Read(ReadResponse(b))
  PROVE  /\ ReadResponse(b).rest \in Bytes
         /\ ReadResponse(b).rest ++ (left ++ Z) = t
<1> DEFINE x == left ++ Z
<1>1. x \in Bytes
  BY PlusIs
<1> HIDE DEF x
<1>2. b \o x = ResponseFrame("ok", Detail) \o t
  BY DEF x, ++
<1>3. Took(ReadResponse(b), "ok", x, t)
  BY <1>1, <1>2, ResponseRead
<1>4. ReadResponse(b).rest \in Bytes /\ ReadResponse(b).rest \o x = t
  BY <1>3 DEF Took
<1> QED BY <1>4 DEF x, ++

LEMMA DialerToldStep ==
  ASSUME Placed, Flow, Heard, Given, Quiet, dialer.at = "awaiting",
         LET answer == ReadResponse(pipe["down"].bytes) IN
         /\ Read(answer) /\ answer.value = "ok"
         /\ dialer' = [dialer EXCEPT !.at = "carrying", !.told = "ok"]
         /\ pipe' = Leave("down", answer.rest)
         /\ copy' = [copy EXCEPT !["dialUp"] = "run", !["dialDown"] = "run"]
         /\ UNCHANGED <<dial, host, moved, said, broken>>
  PROVE  Placed' /\ Flow' /\ Heard' /\ Given' /\ Quiet'
<1> USE DEF Placed
<1> DEFINE b == pipe["down"].bytes
           rest == ReadResponse(b).rest
<1>0. Waiting /\ DialerOn
  BY DEF Waiting, DialerOn
<1>0a. /\ b \in Bytes /\ host.ruled = "ok" /\ host.left \in Bytes
       /\ Answer = ResponseFrame("ok", Detail) /\ Script \in Bytes
       /\ pipe["cout"].bytes = <<>>
  BY <1>0, ToldIs, DialIs DEF Answer, Typed, DialerStages
<1>1. PICK Y \in Bytes, Z \in Bytes : FlowBy(Y, Z)
  BY DEF Flow
<1>1a. b ++ (host.left ++ Z) = ResponseFrame("ok", Detail) ++ Script
  BY <1>0, <1>0a, <1>1 DEF FlowBy, DownFlow
<1>2. PICK V \in Bytes :
        ~moved \/ host.at = "silenced" =>
          pipe["sin"].bytes = <<>> /\ b ++ (host.left ++ V) = ResponseFrame("ok", Detail)
  BY <1>0, <1>0a DEF Quiet, QuietBy
<1>3. Read(ReadResponse(b))
  OBVIOUS
<1>4. /\ UNCHANGED <<dial, host, moved, said, broken>>
      /\ dialer' = [dialer EXCEPT !.at = "carrying", !.told = "ok"]
      /\ dialer'.at = "carrying" /\ dialer'.told = "ok" /\ dialer'.left = dialer.left
      /\ copy' = [copy EXCEPT !["dialUp"] = "run", !["dialDown"] = "run"]
      /\ pipe' = Leave("down", rest)
  BY DEF Typed
<1> HIDE DEF b
<1>5. rest \in Bytes /\ rest ++ (host.left ++ Z) = Script
  <2> HIDE DEF rest
  <2> QED BY <1>0a, <1>1a, <1>3, AcceptanceRead DEF rest
<1>6. ~moved \/ host.at = "silenced" => rest = <<>> /\ host.left = <<>>
  <2> SUFFICES ASSUME ~moved \/ host.at = "silenced" PROVE rest = <<>> /\ host.left = <<>>
    OBVIOUS
  <2>1. <<>> \in Bytes /\ ResponseFrame("ok", Detail) \in Bytes
    BY <1>0a, DialIs, PlusNone
  <2>2. b ++ (host.left ++ V) = ResponseFrame("ok", Detail) ++ <<>>
    BY <1>2, <2>1, PlusNone
  <2>3. rest ++ (host.left ++ V) = <<>>
    BY <1>0a, <1>3, <2>1, <2>2, AcceptanceRead
  <2> HIDE DEF rest
  <2>4. /\ Len(rest) + Len(host.left ++ V) = Len(<<>>) /\ host.left ++ V \in Bytes
        /\ Len(host.left ++ V) = Len(host.left) + Len(V)
        /\ Len(rest) \in Nat /\ Len(host.left) \in Nat /\ Len(V) \in Nat
    BY <1>0a, <1>5, <2>3, PlusIs
  <2>5. Len(rest) = 0 /\ Len(host.left) = 0
    BY <2>4
  <2> QED BY <1>0a, <1>5, <2>5 DEF Bytes
<1> HIDE DEF rest
<1>7. /\ pipe' \in [Pipes -> [bytes : Bytes, end : Ends3, taken : BOOLEAN]]
      /\ pipe'["down"].bytes = rest
      /\ pipe'["down"].end = pipe["down"].end /\ pipe'["down"].taken = pipe["down"].taken
      /\ \A r \in Pipes \ {"down"} : pipe'[r] = pipe[r]
  <2>1. "down" \in Pipes
    BY PipesAre
  <2> QED BY <1>4, <1>5, <2>1, LeaveIs
<1>8. Typed'
  BY <1>4, <1>7 DEF Typed
<1>9. /\ W' = W /\ Echo' = Echo /\ Out' = Out /\ FrameSize' = FrameSize /\ DownCopy' = DownCopy
      /\ Sent' = Sent /\ Script' = Script /\ Payload' = Payload
  BY <1>4, Views
<1>10. /\ Answer' = Answer /\ ClientUnsaid' = ClientUnsaid /\ ServiceUnsaid' = ServiceUnsaid
       /\ Unsaid' = Unsaid
  BY <1>4, Views
<1>10a. copy \in [Copies -> {"idle", "run", "done"}] /\ copy["dialUp"] = "idle"
        /\ copy["dialDown"] = "idle" /\ copy'["dialUp"] = "run" /\ copy'["dialDown"] = "run"
        /\ copy'["hostUp"] = copy["hostUp"] /\ copy'["hostDown"] = copy["hostDown"]
  BY <1>0, <1>4 DEF Typed, DialerStages, Copies
<1>11. DialerStages'
  BY <1>0, <1>0a, <1>4, <1>7, <1>9, PipesAre DEF DialerStages, Waiting, DialerOn
<1>12. HostStages'
  BY <1>0a, <1>4, <1>7, <1>9, <1>10a, PipesAre DEF HostStages, HostOn
<1>13. Clean'
  BY <1>0, <1>4, <1>7, <1>9, <1>10a, PipesAre DEF Clean, HostOn, DialerOn, DownCopy
<1>14. Flow'
  <2>1. Coming(Y, Z)'
    BY <1>0, <1>1, <1>4, <1>7, <1>9, <1>10, PipesAre DEF FlowBy, Coming, DialerOn, HostOn
  <2>2. UpFlow(Y)'
    BY <1>1, <1>4, <1>7, <1>9, PipesAre DEF FlowBy, UpFlow, HostOn, Out
  <2>3. pipe'["cout"].bytes ++ (pipe'["down"].bytes ++ (host.left ++ Z)) = Script
    <3>1. <<>> ++ Script = Script
      BY <1>0a, PlusNone
    <3>2. pipe'["cout"] = pipe["cout"]
      BY <1>7, PipesAre
    <3> QED BY <1>0a, <1>5, <1>7, <3>1, <3>2
  <2>4. DownFlow(Z)'
    BY <1>4, <1>9, <1>10, <2>3 DEF DownFlow, Waiting
  <2> QED BY <2>1, <2>2, <2>4 DEF Flow, FlowBy
<1>15. Heard' /\ Given'
  BY <1>7, <1>9, <1>10, PipesAre DEF Heard, Given, HeardBy, GivenBy
<1>16. Quiet'
  <2>1. pipe'["cout"] = pipe["cout"] /\ pipe'["sin"] = pipe["sin"]
    BY <1>7, PipesAre
  <2>2. QuietBy(V)'
    BY <1>0a, <1>2, <1>4, <1>6, <1>7, <2>1 DEF QuietBy, Waiting
  <2> QED BY <2>2 DEF Quiet
<1> QED BY <1>8, <1>11, <1>12, <1>13, <1>14, <1>15, <1>16

\* A request that is read is the one that was written; what is left, with
\* what is to come, is what the client says.
LEMMA AskedIs ==
  ASSUME Placed, host.at = "reading", NEW Y \in Bytes, UpFlow(Y),
         W.whole => Len(ClientUnsaid) <= Len(Y)
  PROVE  LET request == ReadRequest(pipe["up"].bytes) IN
         /\ Read(request) => dial.magic = Magic /\ W.whole /\ request.value = dial.request
         /\ Read(request) => /\ request.rest \in Bytes
                             /\ request.rest ++ (dialer.left ++ Y) = dial.client
         /\ Read(request) \/ request.read = "version" =>
              Prefix(dial.magic, 2) = Identity /\ dial.magic[3] \notin Capitals
<1> USE DEF Placed
<1> DEFINE b == pipe["up"].bytes
           x == dialer.left ++ Y
           p == ReadRequest(b)
<1>1. /\ b \in Bytes /\ x \in Bytes /\ dial.magic \in Bytes /\ Len(dial.magic) = 4
      /\ dial.request \in Requests /\ Sent \in Bytes /\ W.whole \in BOOLEAN
  BY PipesAre, DialIs, PlusIs DEF Typed
<1>2. b \o x = Wrote(dial.magic, dial.request).bytes \o Sent
  BY DEF UpFlow, ++, W, Wrote
<1>3. ~Wrote(dial.magic, dial.request).whole => Sent = <<>>
  BY DEF Sent, W, Wrote
<1> HIDE DEF b, x
<1>4. /\ Read(p) => dial.magic = Magic /\ Wrote(dial.magic, dial.request).whole
      /\ Took(p, dial.request, x, Sent)
      /\ Read(p) \/ p.read = "version" =>
           Prefix(dial.magic, 2) = Identity /\ dial.magic[3] \notin Capitals
  BY <1>1, <1>2, <1>3, RequestRead
<1> HIDE DEF p
<1>5. Read(p) => W.whole /\ Sent = dial.client
  BY <1>4 DEF Wrote, W, Sent
<1>6. Read(p) => p.value = dial.request /\ p.rest \in Bytes /\ p.rest \o x = Sent
  BY <1>4 DEF Took
<1> QED BY <1>4, <1>5, <1>6 DEF p, b, x, ++

\* What stays in place when the host answers.
LEMMA HostAnswersStep ==
  ASSUME Placed, Flow, Heard, Given, Quiet, host.at = "reading",
         NEW asked \in {<<>>, <<dial.request>>}, NEW answer \in {"ok"} \cup Classes,
         NEW rest \in Bytes, HostAnswers(asked, answer, rest),
         Prefix(dial.magic, 2) = Identity, dial.magic[3] \notin Capitals,
         asked = <<>> => answer = "badRequest",
         asked # <<>> =>
           /\ dial.magic = Magic /\ W.whole
           /\ \A Y, Z \in Bytes :
                FlowBy(Y, Z) => rest ++ (dialer.left ++ Y) = dial.client
  PROVE  Placed' /\ Flow' /\ Heard' /\ Given' /\ Quiet'
<1> USE DEF Placed
<1> DEFINE frame == ResponseFrame(answer, Detail)
<1>0. /\ frame \in Bytes /\ Script \in Bytes /\ dial.client \in Bytes /\ <<>> \in Bytes
      /\ host.ruled = "nothing" /\ host.asked = <<>> /\ pipe["down"].bytes = <<>>
      /\ copy["hostUp"] = "idle" /\ HostOn /\ answer # "nothing"
      /\ pipe["sin"].bytes = <<>> /\ pipe["sink"].bytes = <<>> /\ pipe["sout"].bytes = <<>>
      /\ said.service = 0 /\ host.left = <<>>
  BY ResponseIs, DialIs, PlusNone DEF HostStages, HostOn, Classes, Codes
<1>0a. /\ ClientUnsaid \in Bytes /\ ServiceUnsaid = ServiceSays /\ ServiceSays \in Bytes
       /\ Unsaid \in Bytes /\ Len(Unsaid) \in Nat
       /\ Len(ClientUnsaid) <= Len(dial.client) /\ Len(ClientUnsaid) \in Nat
       /\ Len(dial.client) \in Nat
  <2>1. /\ ClientUnsaid \in Bytes /\ ServiceUnsaid = ServiceSays /\ ServiceSays \in Bytes
        /\ Unsaid \in Bytes /\ Len(ClientUnsaid) = Len(dial.client) - said.client
    BY <1>0, SaidIs, DialIs
  <2>2. Len(Unsaid) \in Nat /\ Len(dial.client) \in Nat
    BY <1>0, <2>1, PlusIs
  <2>3. said.client \in 0..Len(dial.client)
    BY DEF Typed
  <2>4. Len(ClientUnsaid) <= Len(dial.client) /\ Len(ClientUnsaid) \in Nat
    BY <2>1, <2>2, <2>3
  <2> QED BY <2>1, <2>2, <2>4
<1>1. /\ UNCHANGED <<dial, dialer, copy, moved, said, broken>>
      /\ host' = [at |-> "answering", left |-> frame, asked |-> asked, ruled |-> answer]
      /\ host'.at = "answering" /\ host'.left = frame /\ host'.asked = asked
      /\ host'.ruled = answer
      /\ pipe' = Leave("up", rest)
  BY DEF HostAnswers
<1>2. PICK Y \in Bytes, Z \in Bytes : FlowBy(Y, Z)
  BY DEF Flow
<1>2a. asked # <<>> => rest ++ (dialer.left ++ Y) = dial.client
  BY <1>2
<1>3. /\ pipe' \in [Pipes -> [bytes : Bytes, end : Ends3, taken : BOOLEAN]]
      /\ pipe'["up"].bytes = rest
      /\ pipe'["up"].end = pipe["up"].end /\ pipe'["up"].taken = pipe["up"].taken
      /\ \A r \in Pipes \ {"up"} : pipe'[r] = pipe[r]
  <2>1. "up" \in Pipes
    BY PipesAre
  <2> QED BY <1>1, <2>1, LeaveIs
<1> HIDE DEF frame
<1>4. Typed'
  <2>1. host' \in [at : {"reading", "answering", "framing", "connecting", "serving",
                         "silenced", "over"},
                   left : Bytes, asked : {<<>>, <<dial.request>>},
                   ruled : {"nothing", "ok"} \cup Classes]
    BY <1>0, <1>1
  <2> QED BY <1>1, <1>3, <2>1 DEF Typed
<1>5. /\ W' = W /\ Echo' = Echo /\ Out' = Out /\ FrameSize' = FrameSize /\ DownCopy' = DownCopy
      /\ Sent' = Sent /\ Script' = Script /\ Payload' = Payload
      /\ ClientUnsaid' = ClientUnsaid /\ ServiceUnsaid' = ServiceUnsaid /\ Unsaid' = Unsaid
  BY <1>1, Views
<1>6. Answer' = frame
  BY <1>1 DEF Answer, frame
<1>7. DialerStages'
  <2>1. dialer.at # "carrying" /\ dialer.told \notin {"ok"} \cup Classes
    BY <1>0 DEF DialerStages, Classes, Codes
  <2> QED BY <1>1, <1>3, <1>5, <2>1, PipesAre DEF DialerStages, Waiting, DialerOn
<1>8. HostStages'
  BY <1>0, <1>1, <1>3, <1>5, PipesAre DEF HostStages, HostOn
<1>9. Clean'
  BY <1>0, <1>1, <1>3, <1>5, PipesAre DEF Clean, HostOn, DialerOn, DownCopy
<1>10. PICK Z2 \in Bytes :
         /\ Z2 = Script
         /\ Len(Unsaid) <= Len(Z2)
         /\ ~Echo => Z2 = pipe["sout"].bytes ++ ServiceUnsaid
         /\ Echo /\ asked # <<>> => Z2 = rest ++ (dialer.left ++ Y)
  <2>1. <<>> ++ ServiceUnsaid = ServiceSays
    BY <1>0a, PlusNone
  <2>2. Len(Unsaid) <= Len(Script)
    BY <1>0a, PlusIs DEF Unsaid, Script
  <2>3. /\ ~Echo => Script = pipe["sout"].bytes ++ ServiceUnsaid
        /\ Echo /\ asked # <<>> => Script = rest ++ (dialer.left ++ Y)
    BY <1>0, <1>2a, <2>1 DEF Script
  <2> QED BY <1>0, <2>2, <2>3
<1>11. Coming(Y, Z2)'
  BY <1>1, <1>2, <1>3, <1>5, <1>10, PipesAre DEF FlowBy, Coming, DialerOn, HostOn
<1>12. UpFlow(Y)'
  <2>1. asked # <<>> => <<>> ++ (rest ++ (dialer.left ++ Y)) = dial.client
    BY <1>0, <1>2a, PlusNone
  <2>2. pipe'["up"].bytes = rest /\ pipe'[Out].bytes = <<>>
    BY <1>0, <1>3, PipesAre DEF Out
  <2> QED BY <1>1, <1>5, <2>1, <2>2 DEF UpFlow
<1>13. DownFlow(Z2)'
  <2>1. dialer.at # "carrying"
    BY <1>0 DEF DialerStages
  <2>2. <<>> ++ (frame ++ Script) = frame ++ Script
    BY <1>0, PlusNone, PlusIs
  <2>3. dialer.at = "over" /\ ~broken => FALSE
    BY <1>0 DEF Clean, HostStages, DialerOn, DialerStages, DownCopy
  <2>4. pipe'["down"].bytes = <<>>
    BY <1>0, <1>3, PipesAre
  <2> QED BY <1>1, <1>5, <1>6, <1>10, <2>1, <2>2, <2>3, <2>4 DEF DownFlow, DialerOn
<1>14. Flow'
  BY <1>11, <1>12, <1>13 DEF Flow, FlowBy
<1>15. Heard' /\ Given'
  BY <1>3, <1>5, PipesAre DEF Heard, Given, HeardBy, GivenBy
<1>16. Quiet'
  <2>1. <<>> ++ (frame ++ <<>>) = frame
    BY <1>0, PlusNone
  <2>2. PICK V \in Bytes : QuietBy(V)
    BY DEF Quiet
  <2>3. dialer.at # "carrying"
    BY <1>0 DEF DialerStages
  <2>4. /\ pipe'["cout"] = pipe["cout"] /\ pipe'["sin"] = pipe["sin"]
        /\ pipe'["down"].bytes = <<>>
    BY <1>0, <1>3, PipesAre
  <2>5. QuietBy(<<>>)'
    BY <1>0, <1>1, <1>6, <2>1, <2>2, <2>3, <2>4 DEF QuietBy
  <2> QED BY <1>0, <2>5 DEF Quiet
<1> QED BY <1>4, <1>7, <1>8, <1>9, <1>14, <1>15, <1>16

LEMMA HostReadsStep ==
  ASSUME Placed, Flow, Heard, Given, Quiet, host.at = "reading",
         LET request == ReadRequest(pipe["up"].bytes) IN
         \/ /\ request.read = "done"
            /\ \E answer \in {"ok"} \cup Classes :
                 HostAnswers(<<request.value>>, answer, request.rest)
         \/ request.read = "version" /\ HostAnswers(<<>>, "badRequest", <<>>)
  PROVE  Placed' /\ Flow' /\ Heard' /\ Given' /\ Quiet'
<1> DEFINE p == ReadRequest(pipe["up"].bytes)
<1>1. \A Y, Z \in Bytes : FlowBy(Y, Z) =>
        /\ Read(p) => dial.magic = Magic /\ W.whole /\ p.value = dial.request
        /\ Read(p) => p.rest \in Bytes /\ p.rest ++ (dialer.left ++ Y) = dial.client
        /\ Read(p) \/ p.read = "version" =>
             Prefix(dial.magic, 2) = Identity /\ dial.magic[3] \notin Capitals
  BY AskedIs DEF FlowBy, Coming
<1>2. \E Y, Z \in Bytes : FlowBy(Y, Z)
  BY DEF Flow
<1>3. CASE p.read = "done" /\ \E answer \in {"ok"} \cup Classes :
                                HostAnswers(<<p.value>>, answer, p.rest)
  <2> HIDE DEF p
  <2>1. PICK answer \in {"ok"} \cup Classes : HostAnswers(<<p.value>>, answer, p.rest)
    BY <1>3
  <2>2. /\ Read(p) /\ dial.magic = Magic /\ W.whole /\ p.value = dial.request
        /\ p.rest \in Bytes
        /\ Prefix(dial.magic, 2) = Identity /\ dial.magic[3] \notin Capitals
    BY <1>1, <1>2, <1>3 DEF Read
  <2>3. \A Y, Z \in Bytes : FlowBy(Y, Z) => p.rest ++ (dialer.left ++ Y) = dial.client
    BY <1>1, <2>2
  <2> DEFINE rest == p.rest
             asked == <<dial.request>>
  <2>4. HostAnswers(asked, answer, rest) /\ rest \in Bytes /\ asked # <<>>
        /\ asked \in {<<>>, <<dial.request>>}
        /\ \A Y, Z \in Bytes : FlowBy(Y, Z) => rest ++ (dialer.left ++ Y) = dial.client
    BY <2>1, <2>2, <2>3
  <2> HIDE DEF rest
  <2> QED BY <2>2, <2>4, HostAnswersStep
<1>4. CASE p.read = "version" /\ HostAnswers(<<>>, "badRequest", <<>>)
  <2> HIDE DEF p
  <2>1. Prefix(dial.magic, 2) = Identity /\ dial.magic[3] \notin Capitals
    BY <1>1, <1>2, <1>4
  <2>2. "badRequest" \in {"ok"} \cup Classes /\ <<>> \in Bytes
    BY PlusNone DEF Classes, Codes, Bytes
  <2> DEFINE asked == <<>>
  <2>3. HostAnswers(asked, "badRequest", <<>>) /\ asked = <<>> /\ asked \in {<<>>, <<dial.request>>}
    BY <1>4
  <2> QED BY <2>1, <2>2, <2>3, HostAnswersStep
<1> QED BY <1>3, <1>4

LEMMA FrameReadStep ==
  ASSUME Placed, Flow, Heard, Given, Quiet, host.at = "framing",
         LET frame == ReadFrame(pipe["up"].bytes) IN
         /\ frame.read = "done"
         /\ pipe' = Leave("up", frame.rest)
         /\ host' = [host EXCEPT !.at = "connecting"]
         /\ UNCHANGED <<dial, dialer, copy, moved, said, broken>>
  PROVE  Placed' /\ Flow' /\ Heard' /\ Given' /\ Quiet'
<1> USE DEF Placed
<1> DEFINE b == pipe["up"].bytes
           c == dial.client
           rest == ReadFrame(b).rest
<1>0. /\ HostOn /\ dial.handler = "typed" /\ ~Echo /\ Out = "sin" /\ host.asked # <<>>
      /\ host.ruled = "ok" /\ copy["hostUp"] = "idle" /\ pipe["sin"].taken
      /\ pipe["sin"].bytes = <<>> /\ b \in Bytes /\ c \in Bytes /\ dialer.left \in Bytes
      /\ Read(ReadFrame(b))
  BY PipesAre, DialIs DEF HostStages, HostOn, Echo, Out, Typed, Read
<1>1. /\ UNCHANGED <<dial, dialer, copy, moved, said, broken>>
      /\ host'.at = "connecting" /\ host'.left = host.left /\ host'.asked = host.asked
      /\ host'.ruled = host.ruled /\ host' = [host EXCEPT !.at = "connecting"]
      /\ pipe' = Leave("up", rest)
  BY DEF Typed
<1>2. PICK Y \in Bytes, Z \in Bytes : FlowBy(Y, Z)
  BY DEF Flow
<1> HIDE DEF rest
<1>3. b ++ (dialer.left ++ Y) = c
  <2>1. <<>> ++ (b ++ (dialer.left ++ Y)) = c
    BY <1>0, <1>2 DEF FlowBy, UpFlow
  <2>2. b ++ (dialer.left ++ Y) \in Bytes
    BY <1>0, PlusIs
  <2> HIDE DEF b, c
  <2> QED BY <2>1, <2>2, PlusNone
<1>4. /\ rest \in Bytes /\ FrameSize <= Len(c)
      /\ rest ++ (dialer.left ++ Y) = Payload
  <2> DEFINE x == dialer.left ++ Y
  <2>1. x \in Bytes /\ b \in Bytes /\ c \in Bytes /\ Read(ReadFrame(b))
    BY <1>0, PlusIs
  <2>2. b \o x = c
    BY <1>3 DEF ++
  <2> HIDE DEF b, c, x
  <2>3. /\ c # <<>> /\ Head(c) \in Nat /\ 1 + Head(c) <= Len(c)
        /\ ReadFrame(b).rest \in Bytes
        /\ ReadFrame(b).rest \o x = SubSeq(c, (1 + Head(c)) + 1, Len(c))
    BY <2>1, <2>2, FrameTaken
  <2>4. FrameSize = 1 + Head(c)
    BY <1>0, <2>3 DEF FrameSize, c
  <2>5. Payload = SubSeq(c, (1 + Head(c)) + 1, Len(c))
    BY <2>4 DEF Payload, c
  <2> QED BY <2>3, <2>4, <2>5 DEF rest, x, ++
<1> HIDE DEF b
<1>5. /\ pipe' \in [Pipes -> [bytes : Bytes, end : Ends3, taken : BOOLEAN]]
      /\ pipe'["up"].bytes = rest
      /\ pipe'["up"].end = pipe["up"].end /\ pipe'["up"].taken = pipe["up"].taken
      /\ \A r \in Pipes \ {"up"} : pipe'[r] = pipe[r]
  <2>1. "up" \in Pipes
    BY PipesAre
  <2> QED BY <1>1, <1>4, <2>1, LeaveIs
<1>6. Typed'
  BY <1>1, <1>5 DEF Typed
<1>7. /\ W' = W /\ Echo' = Echo /\ Out' = Out /\ FrameSize' = FrameSize /\ DownCopy' = DownCopy
      /\ Sent' = Sent /\ Script' = Script /\ Payload' = Payload /\ Answer' = Answer
      /\ ClientUnsaid' = ClientUnsaid /\ ServiceUnsaid' = ServiceUnsaid /\ Unsaid' = Unsaid
  BY <1>1, Views
<1>8. DialerStages'
  BY <1>1, <1>5, <1>7, PipesAre DEF DialerStages, Waiting, DialerOn
<1>9. HostStages'
  BY <1>0, <1>1, <1>4, <1>5, <1>7, PipesAre DEF HostStages, HostOn
<1>10. Clean'
  BY <1>0, <1>1, <1>5, <1>7, PipesAre DEF Clean, HostOn, DialerOn, DownCopy
<1>11. Coming(Y, Z)'
  BY <1>0, <1>1, <1>2, <1>5, <1>7, PipesAre DEF FlowBy, Coming, DialerOn, HostOn
<1>12. UpFlow(Y)'
  <2>1. <<>> ++ (rest ++ (dialer.left ++ Y)) = Payload
    <3>1. Payload \in Bytes
      BY PayloadIs
    <3> QED BY <1>4, <3>1, PlusNone
  <2>2. pipe'["sin"].bytes = <<>>
    BY <1>0, <1>5, PipesAre
  <2> QED BY <1>0, <1>1, <1>5, <1>7, <2>1, <2>2 DEF UpFlow
<1>13. DownFlow(Z)'
  BY <1>1, <1>2, <1>5, <1>7, PipesAre DEF FlowBy, DownFlow, Waiting, DialerOn
<1>14. Flow'
  BY <1>11, <1>12, <1>13 DEF Flow, FlowBy
<1>15. Heard' /\ Given'
  BY <1>5, <1>7, PipesAre DEF Heard, Given, HeardBy, GivenBy
<1>16. Quiet'
  BY <1>0, <1>1, <1>5, <1>7, PipesAre DEF Quiet, QuietBy, Waiting
<1> QED BY <1>6, <1>8, <1>9, <1>10, <1>14, <1>15, <1>16

\* What a byte that is copied changes of the pipes, and that every end stays
\* where it is.
Fed(p, r) ==
  /\ pipe[p].bytes # <<>> /\ pipe[r].end = "open"
  /\ pipe'[p].bytes = Tail(pipe[p].bytes)
  /\ pipe'[r].bytes = IF pipe[r].taken THEN Append(pipe[r].bytes, Head(pipe[p].bytes))
                                       ELSE pipe[r].bytes
  /\ \A q \in Pipes : pipe'[q].taken = pipe[q].taken /\ pipe'[q].end = pipe[q].end
  /\ \A q \in Pipes \ {p, r} : pipe'[q] = pipe[q]

Copied(c) ==
  CASE c = "dialUp"   -> Fed("cin", "up") /\ dialer.at = "carrying"
    [] c = "dialDown" -> Fed("down", "cout") /\ dialer.at = "carrying"
    [] c = "hostUp"   -> Fed("up", IF Echo THEN "down" ELSE Out) /\ host.at = "serving"
    [] c = "hostDown" -> Fed("sout", "down") /\ host.at = "serving" /\ ~Echo

LEMMA CopyMovesStep ==
  ASSUME Placed, NEW end \in {"dialer", "host"}, NEW c \in Copies, CopyMoves(end, c)
  PROVE  /\ Placed' /\ Copied(c) /\ copy[c] = "run"
         /\ UNCHANGED <<dial, dialer, host, copy, said, broken>>
         /\ moved' = (moved \/ Crosses(c))
<1> USE DEF Placed
<1> DEFINE p == From[c]
           r == To[c]
<1>0. /\ c \in {"dialUp", "dialDown", "hostUp", "hostDown"}
      /\ c \in {"dialUp", "dialDown"} <=> end = "dialer"
      /\ copy[c] = "run" /\ Carries(end)
      /\ Echo => c # "hostDown"
      /\ p \in Pipes /\ r \in Pipes /\ p # r
      /\ p = (CASE c = "dialUp" -> "cin" [] c = "dialDown" -> "down"
                [] c = "hostUp" -> "up" [] c = "hostDown" -> "sout")
      /\ r = (CASE c = "dialUp" -> "up" [] c = "dialDown" -> "cout"
                [] c = "hostUp" -> (IF Echo THEN "down" ELSE Out)
                [] c = "hostDown" -> "down")
  BY ToIs, PipesAre DEF CopyMoves, Running, CopiesOf, HostStages, Copies, Out
<1>1. /\ UNCHANGED <<dial, dialer, host, copy, said, broken>>
      /\ moved' = (moved \/ Crosses(c))
      /\ pipe[p].bytes # <<>> /\ pipe[r].end = "open"
      /\ pipe' = [Put(r, Head(pipe[p].bytes)) EXCEPT ![p].bytes = Tail(@)]
  BY DEF CopyMoves, Takes
<1> HIDE DEF p, r
<1>3. /\ pipe' \in [Pipes -> [bytes : Bytes, end : Ends3, taken : BOOLEAN]]
      /\ Fed(p, r)
  <2>1. /\ pipe' \in [Pipes -> [bytes : Bytes, end : Ends3, taken : BOOLEAN]]
        /\ pipe'[p].bytes = Tail(pipe[p].bytes)
        /\ pipe'[p].end = pipe[p].end /\ pipe'[p].taken = pipe[p].taken
        /\ pipe'[r].bytes = IF pipe[r].taken THEN Append(pipe[r].bytes, Head(pipe[p].bytes))
                                             ELSE pipe[r].bytes
        /\ pipe'[r].end = pipe[r].end /\ pipe'[r].taken = pipe[r].taken
        /\ \A q \in Pipes \ {p, r} : pipe'[q] = pipe[q]
    <3>1. /\ p \in Pipes /\ r \in Pipes /\ p # r /\ pipe[p].bytes # <<>> /\ Typed
          /\ pipe' = [Put(r, Head(pipe[p].bytes)) EXCEPT ![p].bytes = Tail(@)]
      BY <1>0, <1>1
    <3> QED BY <3>1, MoveIs
  <2> QED BY <1>1, <2>1 DEF Fed
<1>3a. /\ pipe[p].bytes # <<>> /\ pipe[r].end = "open"
       /\ \A q \in Pipes : pipe'[q].taken = pipe[q].taken /\ pipe'[q].end = pipe[q].end
       /\ \A q \in Pipes \ {p, r} : pipe'[q] = pipe[q]
  BY <1>3 DEF Fed
<1>2. Typed'
  <2>1. moved' \in BOOLEAN
    BY <1>1 DEF Typed, Crosses
  <2> QED BY <1>1, <1>3, <2>1 DEF Typed
<1>4. /\ W' = W /\ Echo' = Echo /\ Out' = Out /\ FrameSize' = FrameSize /\ DownCopy' = DownCopy
  BY <1>1, Views
<1>5. DialerStages'
  <2>1. Waiting => pipe'["cout"] = pipe["cout"]
    BY <1>0, <1>3a, PipesAre DEF Carries, Waiting, Out
  <2>2. /\ pipe'["cin"].taken = pipe["cin"].taken
        /\ pipe'["down"].taken = pipe["down"].taken
    BY <1>3a, PipesAre
  <2> QED BY <1>1, <1>4, <2>1, <2>2 DEF DialerStages, Waiting, DialerOn
<1>6. HostStages'
  <2>1. copy["hostUp"] = "idle" =>
          pipe'["sin"] = pipe["sin"] /\ pipe'["sink"] = pipe["sink"] /\ pipe'["sout"] = pipe["sout"]
    BY <1>0, <1>3a, PipesAre DEF HostStages, Out
  <2>2. host.ruled = "nothing" => pipe'["down"] = pipe["down"]
    BY <1>0, <1>3a, PipesAre DEF HostStages, DialerStages, Carries, Out
  <2>3. /\ pipe'["up"].taken = pipe["up"].taken /\ pipe'["sout"].taken = pipe["sout"].taken
        /\ pipe'["sink"].taken = pipe["sink"].taken
    BY <1>3a, PipesAre
  <2> QED BY <1>1, <1>4, <2>1, <2>2, <2>3 DEF HostStages, HostOn
<1>7. Clean'
  <2> SUFFICES ASSUME ~broken PROVE Clean'
    BY <1>1 DEF Clean
  <2>1. /\ pipe'["cout"].taken = pipe["cout"].taken /\ pipe'["sin"].taken = pipe["sin"].taken
        /\ pipe'["cin"].end = pipe["cin"].end /\ pipe'["down"].end = pipe["down"].end
        /\ pipe'["up"].end = pipe["up"].end /\ pipe'["sout"].end = pipe["sout"].end
        /\ pipe'["cout"].end = pipe["cout"].end /\ pipe'["sin"].end = pipe["sin"].end
    BY <1>3a, PipesAre
  <2>2. copy["dialUp"] = "done" => pipe'["cin"] = pipe["cin"]
    BY <1>0, <1>3a, PipesAre DEF Out
  <2>3. copy["dialDown"] = "done" => pipe'["down"] = pipe["down"]
    BY <1>0, <1>3a, PipesAre DEF Out, Clean
  <2>4. copy["hostUp"] = "done" => pipe'["up"] = pipe["up"]
    BY <1>0, <1>3a, PipesAre DEF Out, Clean
  <2>5. copy["hostDown"] = "done" /\ ~Echo => pipe'["sout"] = pipe["sout"]
    BY <1>0, <1>3a, PipesAre DEF Out
  <2> QED BY <1>1, <1>4, <2>1, <2>2, <2>3, <2>4, <2>5 DEF Clean, HostOn, DialerOn
<1>8. Copied(c)
  BY <1>0, <1>3 DEF Copied, Carries
<1> QED BY <1>0, <1>1, <1>2, <1>5, <1>6, <1>7, <1>8

\* A byte that moves from one pipe to the next, with all that is behind it.
LEMMA FedIs ==
  ASSUME Typed, NEW p \in Pipes, NEW r \in Pipes, Fed(p, r)
  PROVE  /\ pipe[p].bytes \in Bytes /\ pipe[r].bytes \in Bytes
         /\ pipe'[p].bytes \in Bytes /\ pipe'[r].bytes \in Bytes
         /\ pipe[r].taken =>
              \A k \in Bytes : pipe'[r].bytes ++ (pipe'[p].bytes ++ k) =
                               pipe[r].bytes ++ (pipe[p].bytes ++ k)
<1>1. pipe[p].bytes \in Bytes /\ pipe[r].bytes \in Bytes /\ pipe[p].bytes # <<>>
  BY PipesAre DEF Fed
<1> DEFINE P == pipe[p].bytes
           R == pipe[r].bytes
<1>2. /\ pipe'[p].bytes = Tail(P)
      /\ pipe'[r].bytes = IF pipe[r].taken THEN Append(R, Head(P)) ELSE R
  BY DEF Fed
<1> HIDE DEF P, R
<1>3. /\ Tail(P) \in Bytes /\ Append(R, Head(P)) \in Bytes
      /\ \A k \in Bytes : Append(R, Head(P)) ++ (Tail(P) ++ k) = R ++ (P ++ k)
  <2>1. P \in Bytes /\ R \in Bytes /\ P # <<>>
    BY <1>1 DEF P, R
  <2> QED BY <2>1, Passed
<1> QED BY <1>1, <1>2, <1>3 DEF P, R

RestStays == UNCHANGED <<dial, dialer, host, copy, said, broken>>

LEMMA DialUpStep ==
  ASSUME Placed, Flow, Heard, Given, Quiet, RestStays, Fed("cin", "up"),
         dialer.at = "carrying", moved' = moved
  PROVE  Flow' /\ Heard' /\ Given' /\ Quiet'
<1> USE DEF Placed
<1>1. /\ UNCHANGED <<dial, dialer, host, copy, said, broken>>
      /\ W' = W /\ Echo' = Echo /\ Out' = Out /\ FrameSize' = FrameSize
      /\ Sent' = Sent /\ Script' = Script /\ Payload' = Payload /\ Answer' = Answer
      /\ ClientUnsaid' = ClientUnsaid /\ ServiceUnsaid' = ServiceUnsaid /\ Unsaid' = Unsaid
  BY Views DEF RestStays
<1>2. /\ pipe["up"].end = "open" /\ pipe'["up"].taken = pipe["up"].taken
      /\ \A q \in {"cout", "sin", "sink", "sout", "down"} : pipe'[q] = pipe[q]
  BY PipesAre DEF Fed
<1>3. DialerOn /\ W.whole /\ dialer.left = <<>>
  BY DEF DialerOn, DialerStages
<1>4. HostOn \/ ~broken => pipe["up"].taken
  BY <1>2 DEF Clean, HostStages
<1>5. PICK Y \in Bytes, Z \in Bytes : FlowBy(Y, Z)
  BY DEF Flow
<1>6. /\ pipe["cin"].bytes \in Bytes /\ pipe["up"].bytes \in Bytes
      /\ pipe'["cin"].bytes \in Bytes /\ pipe'["up"].bytes \in Bytes
      /\ pipe["up"].taken => pipe'["up"].bytes ++ (pipe'["cin"].bytes ++ ClientUnsaid) =
                             pipe["up"].bytes ++ (pipe["cin"].bytes ++ ClientUnsaid)
      /\ ClientUnsaid \in Bytes
  BY FedIs, SaidIs, PipesAre
<1>7. PICK Y2 \in Bytes :
        /\ Y2 = pipe'["cin"].bytes ++ ClientUnsaid /\ Len(ClientUnsaid) <= Len(Y2)
        /\ <<>> ++ Y2 = Y2 /\ <<>> ++ Y = Y
  <2> DEFINE y == pipe'["cin"].bytes ++ ClientUnsaid
  <2>1. /\ y \in Bytes /\ Len(y) = Len(pipe'["cin"].bytes) + Len(ClientUnsaid)
        /\ Len(pipe'["cin"].bytes) \in Nat /\ Len(ClientUnsaid) \in Nat
    BY <1>6, PlusIs
  <2> HIDE DEF y
  <2>2. Len(ClientUnsaid) <= Len(y) /\ <<>> ++ y = y /\ <<>> ++ Y = Y
    BY <2>1, PlusNone
  <2> QED BY <2>1, <2>2 DEF y
<1>8. Y = pipe["cin"].bytes ++ ClientUnsaid
  BY <1>3, <1>5 DEF FlowBy, Coming
<1>9. pipe["up"].taken => pipe'["up"].bytes ++ (dialer.left ++ Y2) =
                          pipe["up"].bytes ++ (dialer.left ++ Y)
  BY <1>3, <1>6, <1>7, <1>8
<1>10. Coming(Y2, Z)'
  BY <1>1, <1>2, <1>4, <1>5, <1>7, <1>9 DEF FlowBy, Coming, DialerOn, HostOn
<1>11. UpFlow(Y2)'
  <2>1. pipe'[Out] = pipe[Out]
    BY <1>2 DEF Out
  <2>2. host.at = "reading" => HostOn
    BY DEF HostOn
  <2> QED BY <1>1, <1>4, <1>5, <1>9, <2>1, <2>2 DEF FlowBy, UpFlow, HostOn
<1>12. DownFlow(Z)'
  BY <1>1, <1>2, <1>5 DEF FlowBy, DownFlow, Waiting, DialerOn
<1>13. Flow'
  BY <1>7, <1>10, <1>11, <1>12 DEF Flow, FlowBy
<1>14. Heard' /\ Given'
  BY <1>1, <1>2 DEF Heard, Given, HeardBy, GivenBy
<1>15. Quiet'
  BY <1>1, <1>2 DEF Quiet, QuietBy, Waiting
<1> QED BY <1>13, <1>14, <1>15

LEMMA DialDownStep ==
  ASSUME Placed, Flow, Heard, Given, Quiet, RestStays, Fed("down", "cout"),
         dialer.at = "carrying", moved' = moved
  PROVE  Flow' /\ Heard' /\ Given' /\ Quiet'
<1> USE DEF Placed
<1>1. /\ UNCHANGED <<dial, dialer, host, copy, said, broken>>
      /\ W' = W /\ Echo' = Echo /\ Out' = Out /\ FrameSize' = FrameSize
      /\ Sent' = Sent /\ Script' = Script /\ Payload' = Payload /\ Answer' = Answer
      /\ ClientUnsaid' = ClientUnsaid /\ ServiceUnsaid' = ServiceUnsaid /\ Unsaid' = Unsaid
  BY Views DEF RestStays
<1>2. /\ pipe'["cout"].taken = pipe["cout"].taken /\ pipe["down"].bytes # <<>>
      /\ ~pipe["cout"].taken => pipe'["cout"].bytes = pipe["cout"].bytes
      /\ \A q \in {"cin", "up", "sin", "sink", "sout"} : pipe'[q] = pipe[q]
  BY PipesAre DEF Fed
<1>3. PICK Y \in Bytes, Z \in Bytes : FlowBy(Y, Z)
  BY DEF Flow
<1>4. host.left \in Bytes /\ host.left ++ Z \in Bytes
  BY PlusIs DEF Typed
<1>5. /\ pipe'["down"].bytes \in Bytes
      /\ pipe["cout"].taken =>
           pipe'["cout"].bytes ++ (pipe'["down"].bytes ++ (host.left ++ Z)) =
           pipe["cout"].bytes ++ (pipe["down"].bytes ++ (host.left ++ Z))
  BY <1>4, FedIs, PipesAre
<1>6. pipe["cout"].taken =>
        pipe'["cout"].bytes ++ (pipe'["down"].bytes ++ (host.left ++ Z)) = Script
  BY <1>3, <1>5 DEF FlowBy, DownFlow
<1>7. Flow'
  <2>1. Coming(Y, Z)'
    BY <1>1, <1>2, <1>3 DEF FlowBy, Coming, DialerOn, HostOn
  <2>2. UpFlow(Y)'
    BY <1>1, <1>2, <1>3 DEF FlowBy, UpFlow, HostOn, Out
  <2>3. DownFlow(Z)'
    BY <1>1, <1>2, <1>6 DEF DownFlow, Waiting, DialerOn
  <2> QED BY <2>1, <2>2, <2>3 DEF Flow, FlowBy
<1>8. Heard'
  <2>1. CASE ~pipe["cout"].taken
    BY <1>1, <1>2, <2>1 DEF Heard, HeardBy
  <2>2. CASE pipe["cout"].taken
    <3> DEFINE R == pipe'["down"].bytes ++ (host.left ++ Z)
    <3>1. /\ R \in Bytes /\ Len(R) = Len(pipe'["down"].bytes) + (Len(host.left) + Len(Z))
          /\ Len(pipe'["down"].bytes) \in Nat /\ Len(host.left) \in Nat /\ Len(Z) \in Nat
      <4>1. /\ Len(host.left ++ Z) = Len(host.left) + Len(Z)
            /\ Len(host.left) \in Nat /\ Len(Z) \in Nat
        BY <1>4, PlusIs
      <4>2. /\ R \in Bytes /\ Len(R) = Len(pipe'["down"].bytes) + Len(host.left ++ Z)
            /\ Len(pipe'["down"].bytes) \in Nat
        BY <1>4, <1>5, PlusIs
      <4> QED BY <4>1, <4>2
    <3>2. Len(Unsaid) <= Len(Z) /\ Len(Unsaid) \in Nat
      BY <1>3, SaidIs, PlusIs DEF FlowBy, Coming
    <3>3. pipe'["cout"].bytes ++ R = Script
      BY <1>6, <2>2
    <3> HIDE DEF R
    <3>4. Len(Unsaid) <= Len(R)
      <4>1. \A i, j, m, n \in Nat : n <= m => n <= i + (j + m)
        OBVIOUS
      <4> QED BY <3>1, <3>2, <4>1
    <3> QED BY <1>1, <3>1, <3>3, <3>4 DEF Heard, HeardBy
  <2> QED BY <2>1, <2>2
<1>9. Given'
  BY <1>1, <1>2 DEF Given, GivenBy
<1>10. Quiet'
  <2>1. moved /\ host.at # "silenced"
    BY <1>2 DEF Quiet, QuietBy, Typed
  <2>2. QuietBy(Z)'
    BY <1>1, <2>1 DEF QuietBy
  <2> QED BY <2>2 DEF Quiet
<1> QED BY <1>7, <1>8, <1>9, <1>10

\* What a byte does that the host takes for the local side.
LEMMA HostUpStep ==
  ASSUME Placed, Flow, Heard, Given, Quiet, RestStays, ~Echo, Fed("up", Out),
         host.at = "serving", moved' = TRUE
  PROVE  Flow' /\ Heard' /\ Given' /\ Quiet'
<1> USE DEF Placed
<1>1. /\ UNCHANGED <<dial, dialer, host, copy, said, broken>>
      /\ W' = W /\ Echo' = Echo /\ Out' = Out /\ FrameSize' = FrameSize
      /\ Sent' = Sent /\ Script' = Script /\ Payload' = Payload /\ Answer' = Answer
      /\ ClientUnsaid' = ClientUnsaid /\ ServiceUnsaid' = ServiceUnsaid /\ Unsaid' = Unsaid
  BY Views DEF RestStays
<1>2. /\ pipe'[Out].taken = pipe[Out].taken
      /\ ~pipe[Out].taken => pipe'[Out].bytes = pipe[Out].bytes
      /\ \A q \in {"cin", "cout", "down", "sout"} : pipe'[q] = pipe[q]
      /\ Out # "sin" => pipe'["sin"] = pipe["sin"]
      /\ Out \in Pipes /\ "up" \in Pipes
  BY PipesAre DEF Fed, Out
<1>3. HostOn /\ host.asked # <<>>
  BY DEF HostOn, HostStages
<1>4. PICK Y \in Bytes, Z \in Bytes : FlowBy(Y, Z)
  BY DEF Flow
<1>5. dialer.left ++ Y \in Bytes
  BY PlusIs DEF Typed
<1>6. /\ pipe'["up"].bytes \in Bytes
      /\ pipe[Out].taken =>
           pipe'[Out].bytes ++ (pipe'["up"].bytes ++ (dialer.left ++ Y)) =
           pipe[Out].bytes ++ (pipe["up"].bytes ++ (dialer.left ++ Y))
  BY <1>2, <1>5, FedIs
<1>7. pipe[Out].taken =>
        pipe'[Out].bytes ++ (pipe'["up"].bytes ++ (dialer.left ++ Y)) = Payload
  BY <1>3, <1>4, <1>6 DEF FlowBy, UpFlow
<1>8. Flow'
  <2>1. Coming(Y, Z)'
    BY <1>1, <1>2, <1>4 DEF FlowBy, Coming, DialerOn, HostOn
  <2>2. UpFlow(Y)'
    BY <1>1, <1>2, <1>7 DEF UpFlow
  <2>3. DownFlow(Z)'
    BY <1>1, <1>2, <1>4 DEF FlowBy, DownFlow, Waiting, DialerOn
  <2> QED BY <2>1, <2>2, <2>3 DEF Flow, FlowBy
<1>9. Heard'
  BY <1>1, <1>2 DEF Heard, HeardBy
<1>10. Given'
  <2>1. CASE Out # "sin" \/ ~pipe[Out].taken
    BY <1>1, <1>2, <2>1 DEF Given, GivenBy
  <2>2. CASE Out = "sin" /\ pipe[Out].taken
    <3>1. pipe'["up"].bytes ++ (dialer.left ++ Y) \in Bytes
      BY <1>5, <1>6, PlusIs
    <3> QED BY <1>1, <1>7, <2>2, <3>1 DEF Given, GivenBy
  <2> QED BY <2>1, <2>2
<1>11. Quiet'
  BY <1>1, <1>4 DEF Quiet, QuietBy
<1> QED BY <1>8, <1>9, <1>10, <1>11

\* What a byte does that the host puts on the tunnel, from the pipe `p` and
\* with `k` behind it.
LEMMA DownStep ==
  ASSUME Placed, Flow, Heard, Given, Quiet, RestStays, NEW p \in {"up", "sout"},
         Fed(p, "down"), host.at = "serving", moved' = TRUE,
         p = "up" <=> Echo
  PROVE  Flow' /\ Heard' /\ Given' /\ Quiet'
<1> USE DEF Placed
<1>1. /\ UNCHANGED <<dial, dialer, host, copy, said, broken>>
      /\ W' = W /\ Echo' = Echo /\ Out' = Out /\ FrameSize' = FrameSize
      /\ Sent' = Sent /\ Script' = Script /\ Payload' = Payload /\ Answer' = Answer
      /\ ClientUnsaid' = ClientUnsaid /\ ServiceUnsaid' = ServiceUnsaid /\ Unsaid' = Unsaid
  BY Views DEF RestStays
<1>2. /\ pipe["down"].end = "open" /\ p \in Pipes /\ "down" \in Pipes
      /\ \A q \in {"cin", "cout", "sin", "sink"} : pipe'[q] = pipe[q]
      /\ p = "sout" => pipe'["up"] = pipe["up"]
  BY PipesAre DEF Fed
<1>3. HostOn /\ host.asked # <<>> /\ host.left = <<>> /\ W.whole
  BY DEF HostOn, HostStages
<1>4. DialerOn \/ ~broken => pipe["down"].taken
  BY <1>2 DEF Clean, DialerStages
<1>5. PICK Y \in Bytes, Z \in Bytes : FlowBy(Y, Z)
  BY DEF Flow
<1>6. PICK k \in Bytes :
        /\ Z = pipe[p].bytes ++ k
        /\ k = IF Echo THEN dialer.left ++ Y ELSE ServiceUnsaid
        /\ Len(Unsaid) <= Len(k)
  <2>1. CASE Echo
    <3>1. /\ dialer.left ++ Y \in Bytes /\ Len(dialer.left ++ Y) = Len(dialer.left) + Len(Y)
          /\ Len(dialer.left) \in Nat /\ Len(Y) \in Nat
      BY PlusIs DEF Typed
    <3>2. Len(Unsaid) <= Len(Y) /\ Len(Unsaid) \in Nat
      BY <1>3, <1>5, <2>1, SaidIs, PlusIs DEF FlowBy, Coming, Unsaid
    <3>3. Z = pipe[p].bytes ++ (dialer.left ++ Y)
      BY <1>3, <1>5, <2>1 DEF FlowBy, Coming
    <3>4. Len(Unsaid) <= Len(dialer.left ++ Y)
      BY <3>1, <3>2
    <3> QED BY <2>1, <3>1, <3>3, <3>4
  <2>2. CASE ~Echo
    <3>1. ServiceUnsaid \in Bytes /\ Len(Unsaid) <= Len(ServiceUnsaid)
      BY <2>2, SaidIs, PlusIs DEF Unsaid
    <3>2. Z = pipe[p].bytes ++ ServiceUnsaid
      BY <1>3, <1>5, <2>2 DEF FlowBy, Coming
    <3> QED BY <2>2, <3>1, <3>2
  <2> QED BY <2>1, <2>2
<1>7. /\ pipe[p].bytes \in Bytes /\ pipe'[p].bytes \in Bytes
      /\ pipe["down"].taken => pipe'["down"].bytes ++ (pipe'[p].bytes ++ k) =
                               pipe["down"].bytes ++ (pipe[p].bytes ++ k)
  BY <1>2, FedIs
<1>8. PICK Z2 \in Bytes :
        /\ Z2 = pipe'[p].bytes ++ k /\ Len(Unsaid) <= Len(Z2)
        /\ <<>> ++ Z2 = Z2 /\ <<>> ++ Z = Z
  <2> DEFINE z == pipe'[p].bytes ++ k
  <2>1. /\ z \in Bytes /\ Len(z) = Len(pipe'[p].bytes) + Len(k)
        /\ Len(pipe'[p].bytes) \in Nat /\ Len(k) \in Nat
    BY <1>7, PlusIs
  <2>2. Len(Unsaid) \in Nat /\ Len(Unsaid) <= Len(k)
    BY <1>6, SaidIs, PlusIs
  <2> HIDE DEF z
  <2>3. Len(Unsaid) <= Len(z) /\ <<>> ++ z = z /\ <<>> ++ Z = Z
    BY <2>1, <2>2, PlusNone
  <2> QED BY <2>1, <2>3 DEF z
<1>10. DialerOn \/ ~broken => pipe'["down"].bytes ++ (host.left ++ Z2) =
                              pipe["down"].bytes ++ (host.left ++ Z)
  BY <1>3, <1>4, <1>6, <1>7, <1>8
<1>11. Coming(Y, Z2)'
  BY <1>1, <1>2, <1>5, <1>6, <1>8 DEF FlowBy, Coming, DialerOn, HostOn
<1>12. UpFlow(Y)'
  <2>1. pipe'[Out] = pipe[Out]
    BY <1>2 DEF Out
  <2>2. ~Echo => pipe'["up"] = pipe["up"]
    BY <1>2
  <2> QED BY <1>1, <1>5, <2>1, <2>2 DEF FlowBy, UpFlow, HostOn
<1>13. DownFlow(Z2)'
  <2>1. Waiting \/ dialer.at = "carrying" => DialerOn
    BY DEF Waiting, DialerOn
  <2>2. pipe'["cout"] = pipe["cout"]
    BY <1>2
  <2> QED BY <1>1, <1>5, <1>10, <2>1, <2>2 DEF FlowBy, DownFlow, Waiting, DialerOn
<1>14. Flow'
  BY <1>8, <1>11, <1>12, <1>13 DEF Flow, FlowBy
<1>15. Heard' /\ Given'
  BY <1>1, <1>2 DEF Heard, Given, HeardBy, GivenBy
<1>16. Quiet'
  BY <1>1, <1>5 DEF Quiet, QuietBy
<1> QED BY <1>14, <1>15, <1>16
-----------------------------------------------------------------------------
(* Every step *)

\* A step that carries nothing, whatever it is.
LEMMA StillStep ==
  ASSUME IInv, Placed', Stands
  PROVE  IInv'
BY StandsStill DEF IInv, Placed

LEMMA LocalStep ==
  ASSUME IInv, Client \/ Service \/ SessionLost
  PROVE  IInv'
<1> USE DEF IInv
<1>0. Placed
  BY DEF Placed
<1>1. CASE Says("client", "cin", dial.client)
  BY <1>0, <1>1, ClientSaysStep DEF Placed
<1>2. CASE Connected /\ Says("service", "sout", ServiceSays)
  BY <1>0, <1>2, ServiceSaysStep DEF Placed
<1>3. CASE Ends("cin")
  BY <1>0, <1>3, EndsStep, StillStep
<1>4. CASE Ends("sout")
  BY <1>0, <1>4, EndsStep, StillStep
<1>5. CASE Goes("cin", "cout")
  BY <1>0, <1>5, GoesStep, StillStep
<1>6. CASE Connected /\ Goes("sout", "sin")
  <2>1. copy["hostUp"] # "idle"
    BY <1>6 DEF Connected
  <2> QED BY <1>0, <1>6, <2>1, GoesStep, StillStep
<1>7. CASE SessionLost
  BY <1>0, <1>7, SessionLostStep, StillStep
<1> HIDE DEF IInv
<1> QED BY <1>1, <1>2, <1>3, <1>4, <1>5, <1>6, <1>7 DEF Client, Service

LEMMA DialerStep ==
  ASSUME IInv, Dialer
  PROVE  IInv'
<1> USE DEF IInv
<1>0. Placed
  BY DEF Placed
<1>1. CASE DialerWrites
  BY <1>0, <1>1, DialerWritesStep DEF Placed
<1>2. CASE DialerWaits
  BY <1>0, <1>2, DialerWaitsStep, StillStep
<1>3. "broken" \notin {"ok"} \cup Classes
  BY DEF Classes, Codes
<1>4. ASSUME DialerOver("broken")
      PROVE  IInv'
  BY <1>0, <1>3, <1>4, DialerOverStep, StillStep
<1>5. CASE DialerWriteFails
  BY <1>4, <1>5 DEF DialerWriteFails
<1>6. CASE DialerTold
  <2> DEFINE answer == ReadResponse(pipe["down"].bytes)
  <2>1. CASE Read(answer) /\ answer.value = "ok"
    <3>1. /\ dialer.at = "awaiting" /\ Read(answer) /\ answer.value = "ok"
          /\ dialer' = [dialer EXCEPT !.at = "carrying", !.told = "ok"]
          /\ pipe' = Leave("down", answer.rest)
          /\ copy' = [copy EXCEPT !["dialUp"] = "run", !["dialDown"] = "run"]
          /\ UNCHANGED <<dial, host, moved, said, broken>>
      BY <1>6, <2>1 DEF DialerTold, Read
    <3>2. Placed' /\ Flow' /\ Heard' /\ Given' /\ Quiet'
      BY <1>0, <3>1, DialerToldStep
    <3> QED BY <3>2 DEF Placed
  <2>2. CASE Read(answer) /\ answer.value # "ok" /\ DialerOver(answer.value)
    <3>1. Waiting
      BY <1>6 DEF DialerTold, Waiting
    <3>2. host.ruled \in {"ok"} \cup Classes /\ answer.value = host.ruled
      BY <1>0, <2>2, <3>1, ToldIs
    <3> HIDE DEF answer
    <3>3. DialerOver(host.ruled) /\ host.ruled \in {"ok", "broken"} \cup Classes
      BY <2>2, <3>2
    <3> QED BY <1>0, <3>3, DialerOverStep, StillStep
  <2>3. CASE DialerOver("broken")
    BY <1>4, <2>3
  <2> QED BY <1>6, <2>1, <2>2, <2>3 DEF DialerTold, Read
<1> QED BY <1>1, <1>2, <1>5, <1>6 DEF Dialer

LEMMA HostStep ==
  ASSUME IInv, Frames \/ Handler \/ RequestTimesOut \/ FirstTrafficFires
  PROVE  IInv'
<1> USE DEF IInv
<1>0. Placed
  BY DEF Placed
<1>1. ASSUME HostOn, HostOver("over")
      PROVE  IInv'
  BY <1>0, <1>1, HostOverStep, StillStep
<1>2. CASE FirstTrafficFires
  <2>1. HostOn /\ ~moved /\ host.ruled # "nothing" /\ HostOver("silenced")
    BY <1>2 DEF FirstTrafficFires, HostOn, HostStages
  <2> QED BY <1>0, <2>1, HostOverStep, StillStep
<1>3. CASE RequestTimesOut
  BY <1>1, <1>3 DEF RequestTimesOut, HostOn
<1>4. CASE HostReads
  <2>1. CASE HostOver("over")
    BY <1>1, <1>4, <2>1 DEF HostReads, HostOn
  <2>2. CASE ~HostOver("over")
    <3>1. /\ host.at = "reading"
          /\ LET request == ReadRequest(pipe["up"].bytes) IN
             \/ /\ request.read = "done"
                /\ \E answer \in {"ok"} \cup Classes :
                     HostAnswers(<<request.value>>, answer, request.rest)
             \/ request.read = "version" /\ HostAnswers(<<>>, "badRequest", <<>>)
      BY <1>4, <2>2 DEF HostReads
    <3>2. Placed' /\ Flow' /\ Heard' /\ Given' /\ Quiet'
      BY <1>0, <3>1, HostReadsStep
    <3> QED BY <3>2 DEF Placed
  <2> QED BY <2>1, <2>2
<1>5. CASE HostWrites
  BY <1>0, <1>5, HostWritesStep DEF Placed
<1>6. CASE HostWriteFails
  BY <1>1, <1>6 DEF HostWriteFails, HostOn
<1>7. CASE HostRefused
  BY <1>1, <1>7 DEF HostRefused, HostOn
<1>8. CASE HostOks
  BY <1>0, <1>8, HostOksStep, StillStep
<1>9. CASE FrameBegins
  BY <1>0, <1>9, FrameBeginsStep, StillStep
<1>10. CASE FrameRead
  <2>1. CASE HostOver("over")
    BY <1>1, <1>10, <2>1 DEF FrameRead, HostOn
  <2>2. CASE ~HostOver("over")
    <3>1. /\ host.at = "framing"
          /\ LET frame == ReadFrame(pipe["up"].bytes) IN
             /\ frame.read = "done"
             /\ pipe' = Leave("up", frame.rest)
             /\ host' = [host EXCEPT !.at = "connecting"]
             /\ UNCHANGED <<dial, dialer, copy, moved, said, broken>>
      BY <1>10, <2>2 DEF FrameRead
    <3>2. Placed' /\ Flow' /\ Heard' /\ Given' /\ Quiet'
      BY <1>0, <3>1, FrameReadStep
    <3> QED BY <3>2 DEF Placed
  <2> QED BY <2>1, <2>2
<1>11. CASE HostConnects
  BY <1>0, <1>11, HostConnectsStep, StillStep
<1>12. CASE ConnectFails
  BY <1>1, <1>12 DEF ConnectFails, HostOn
<1> HIDE DEF IInv
<1> QED BY <1>2, <1>3, <1>4, <1>5, <1>6, <1>7, <1>8, <1>9, <1>10, <1>11, <1>12 DEF Frames, Handler

LEMMA SpliceStep ==
  ASSUME IInv, NEW end \in {"dialer", "host"}, Splice(end)
  PROVE  IInv'
<1> USE DEF IInv
<1>0. Placed
  BY DEF Placed
<1>1. CASE Joins(end)
  BY <1>0, <1>1, DialerJoinsStep, HostJoinsStep, StillStep
<1>2. ASSUME NEW c \in Copies, CopyEnds(end, c)
      PROVE  IInv'
  BY <1>0, <1>2, CopyEndsStep, StillStep
<1>3. ASSUME NEW c \in Copies, CopyFails(end, c)
      PROVE  IInv'
  <2>1. CASE end = "dialer"
    <3>1. DialerOver("ok") /\ host.ruled = "ok"
      BY <1>3, <2>1 DEF CopyFails, Running, Carries, DialerStages
    <3> QED BY <1>0, <3>1, DialerOverStep, StillStep
  <2>2. CASE end = "host"
    <3>1. HostOver("over") /\ HostOn
      BY <1>3, <2>2 DEF CopyFails, Running, Carries, HostOn
    <3> QED BY <1>0, <3>1, HostOverStep, StillStep
  <2> QED BY <2>1, <2>2
<1>4. ASSUME NEW c \in Copies, CopyMoves(end, c)
      PROVE  IInv'
  <2>1. /\ Placed' /\ Copied(c) /\ RestStays
        /\ moved' = (moved \/ Crosses(c))
    BY <1>0, <1>4, CopyMovesStep DEF RestStays
  <2>2. CASE c = "dialUp"
    <3>1. Fed("cin", "up") /\ dialer.at = "carrying" /\ moved' = moved
      BY <2>1, <2>2 DEF Copied, Crosses, Typed
    <3>2. Flow' /\ Heard' /\ Given' /\ Quiet'
      BY <1>0, <2>1, <3>1, DialUpStep
    <3> QED BY <2>1, <3>2 DEF Placed
  <2>3. CASE c = "dialDown"
    <3>1. Fed("down", "cout") /\ dialer.at = "carrying" /\ moved' = moved
      BY <2>1, <2>3 DEF Copied, Crosses, Typed
    <3>2. Flow' /\ Heard' /\ Given' /\ Quiet'
      BY <1>0, <2>1, <3>1, DialDownStep
    <3> QED BY <2>1, <3>2 DEF Placed
  <2>4. CASE c = "hostUp" /\ ~Echo
    <3>1. Fed("up", Out) /\ host.at = "serving" /\ moved' = TRUE
      BY <2>1, <2>4 DEF Copied, Crosses
    <3>2. Flow' /\ Heard' /\ Given' /\ Quiet'
      BY <1>0, <2>1, <2>4, <3>1, HostUpStep
    <3> QED BY <2>1, <3>2 DEF Placed
  <2>5. CASE c = "hostUp" /\ Echo
    <3>1. Fed("up", "down") /\ host.at = "serving" /\ moved' = TRUE
      BY <2>1, <2>5 DEF Copied, Crosses
    <3>2. Flow' /\ Heard' /\ Given' /\ Quiet'
      BY <1>0, <2>1, <2>5, <3>1, DownStep
    <3> QED BY <2>1, <3>2 DEF Placed
  <2>6. CASE c = "hostDown"
    <3>1. Fed("sout", "down") /\ host.at = "serving" /\ moved' = TRUE /\ ~Echo
      BY <2>1, <2>6 DEF Copied, Crosses
    <3>2. Flow' /\ Heard' /\ Given' /\ Quiet'
      BY <1>0, <2>1, <3>1, DownStep
    <3> QED BY <2>1, <3>2 DEF Placed
  <2> QED BY <2>2, <2>3, <2>4, <2>5, <2>6 DEF Copies
<1> HIDE DEF IInv
<1> QED BY <1>1, <1>2, <1>3, <1>4 DEF Splice

LEMMA UnchangedStep ==
  ASSUME IInv, UNCHANGED vars
  PROVE  IInv'
<1>1. /\ UNCHANGED <<dial, pipe, dialer, host, copy, moved, said, broken>>
      /\ W' = W /\ Echo' = Echo /\ Out' = Out /\ Sent' = Sent /\ Script' = Script
      /\ FrameSize' = FrameSize /\ Payload' = Payload /\ DownCopy' = DownCopy
      /\ Answer' = Answer
      /\ ClientUnsaid' = ClientUnsaid /\ ServiceUnsaid' = ServiceUnsaid /\ Unsaid' = Unsaid
  BY Views DEF vars
<1>2. Typed' /\ DialerStages' /\ HostStages' /\ Clean'
  BY <1>1 DEF IInv, Typed, DialerStages, HostStages, Clean, Waiting, DialerOn, HostOn
<1>3. Flow'
  BY <1>1 DEF IInv, Flow, FlowBy, Coming, UpFlow, DownFlow, Waiting, DialerOn, HostOn
<1>4. Heard' /\ Given' /\ Quiet'
  BY <1>1 DEF IInv, Heard, Given, Quiet, HeardBy, GivenBy, QuietBy, Waiting
<1> QED BY <1>2, <1>3, <1>4 DEF IInv

LEMMA NextStep ==
  ASSUME IInv, [Next]_vars
  PROVE  IInv'
BY LocalStep, DialerStep, HostStep, SpliceStep, UnchangedStep DEF Next
-----------------------------------------------------------------------------
(* The first state *)

LEMMA FirstState ==
  ASSUME Init
  PROVE  IInv
<1>1. /\ dial \in Dials /\ pipe = [p \in Pipes |-> Empty]
      /\ dialer = [at |-> "writing", told |-> "nothing", left |-> W.bytes]
      /\ host = [at |-> "reading", left |-> <<>>, asked |-> <<>>, ruled |-> "nothing"]
      /\ copy = [c \in Copies |-> "idle"]
      /\ moved = FALSE /\ said = [client |-> 0, service |-> 0] /\ broken = FALSE
      /\ dialer.at = "writing" /\ dialer.told = "nothing" /\ dialer.left = W.bytes
      /\ host.at = "reading" /\ host.left = <<>> /\ host.asked = <<>> /\ host.ruled = "nothing"
      /\ said.client = 0 /\ said.service = 0
  BY DEF Init, W
<1>2. /\ dial.magic \in Bytes /\ dial.request \in Requests /\ dial.client \in Bytes
      /\ ServiceSays \in Bytes /\ W.bytes \in Bytes /\ <<>> \in Bytes
  <2>1. /\ dial.magic \in Bytes /\ dial.client \in Bytes /\ ServiceSays \in Bytes
        /\ dial.request \in [service : Bytes, capability : Seq(Bytes), membership : Seq(Bytes)]
        /\ Len(dial.request.capability) <= 1 /\ Len(dial.request.membership) <= 1
    BY <1>1, StreamAssumption DEF Bytes
  <2>2. dial.request \in Requests
    BY <2>1 DEF Requests, Optional
  <2>3. W.bytes \in Bytes
    BY <2>1, <2>2, FrameIs DEF W, Wrote
  <2> QED BY <2>1, <2>2, <2>3, PlusNone
<1>3. \A p \in Pipes : pipe[p].bytes = <<>> /\ pipe[p].end = "open" /\ pipe[p].taken = TRUE
  BY <1>1 DEF Empty
<1>4. Typed
  <2>1. Empty \in [bytes : Bytes, end : Ends3, taken : BOOLEAN]
    BY <1>2 DEF Empty, Ends3
  <2>2. 0 \in 0..Len(dial.client) /\ 0 \in 0..Len(ServiceSays)
    BY <1>2 DEF Bytes
  <2> QED BY <1>1, <1>2, <2>1, <2>2 DEF Typed
<1>5. DialerStages /\ HostStages /\ Clean
  <2>1. /\ copy["dialUp"] = "idle" /\ copy["dialDown"] = "idle"
        /\ copy["hostUp"] = "idle" /\ copy["hostDown"] = "idle"
    BY <1>1 DEF Copies
  <2>2. "nothing" \notin {"ok"} \cup Classes
    BY DEF Classes, Codes
  <2>3. DialerStages
    BY <1>1, <1>3, <1>4, <2>1, <2>2, PipesAre DEF DialerStages, Waiting, DialerOn
  <2>4. HostStages
    BY <1>1, <1>3, <1>4, <2>1, <2>2, PipesAre DEF HostStages, HostOn
  <2>5. Clean
    BY <1>1, <1>3, <1>4, <2>1, <2>2, PipesAre DEF Clean, HostOn, DialerOn, DownCopy
  <2> QED BY <2>3, <2>4, <2>5
<1>6. /\ ClientUnsaid = dial.client /\ ServiceUnsaid = ServiceSays /\ Unsaid = Script
      /\ Len(Script) \in Nat /\ Len(dial.client) \in Nat
      /\ Script \in Bytes /\ Sent \in Bytes /\ Payload \in Bytes
      /\ <<>> ++ dial.client = dial.client /\ <<>> ++ ServiceSays = ServiceSays
      /\ <<>> ++ (W.bytes ++ Sent) = W.bytes ++ Sent
      /\ <<>> ++ Script = Script /\ <<>> ++ Payload = Payload
  <2>1. ClientUnsaid = dial.client /\ ServiceUnsaid = ServiceSays /\ Unsaid = Script
    BY <1>1, <1>4, SaidIs DEF Unsaid, Script
  <2>2. Script \in Bytes /\ Sent \in Bytes /\ Payload \in Bytes
    BY <1>4, DialIs, PayloadIs
  <2>3. W.bytes ++ Sent \in Bytes /\ Len(Script) \in Nat /\ Len(dial.client) \in Nat
    BY <1>2, <2>2, PlusIs
  <2> QED BY <1>2, <2>1, <2>2, <2>3, PlusNone
<1>7. /\ pipe["cin"].bytes = <<>> /\ pipe["cout"].bytes = <<>> /\ pipe["up"].bytes = <<>>
      /\ pipe["sin"].bytes = <<>> /\ pipe["sout"].bytes = <<>> /\ pipe["down"].bytes = <<>>
  BY <1>3, <1>4, PipesAre
<1>8. Flow
  <2>1. Coming(Sent, Script)
    BY <1>1, <1>6, <1>7 DEF Coming, Sent, Script, Echo
  <2>2. UpFlow(Sent)
    BY <1>1, <1>6, <1>7 DEF UpFlow
  <2>3. DownFlow(Script)
    BY <1>1 DEF DownFlow, DialerOn
  <2> QED BY <1>6, <2>1, <2>2, <2>3 DEF Flow, FlowBy
<1>9. Heard /\ Given
  BY <1>6, <1>7 DEF Heard, Given, HeardBy, GivenBy
<1>10. Quiet
  BY <1>1, <1>2, <1>7 DEF Quiet, QuietBy
<1> QED BY <1>4, <1>5, <1>8, <1>9, <1>10 DEF IInv
-----------------------------------------------------------------------------
(* What the invariant says of what is carried *)

\* What a sequence begins with is its prefix of that length.
LEMMA PrefixIs ==
  ASSUME NEW k1 \in Bytes, NEW k2 \in Bytes, NEW k3 \in Bytes, k1 \o k2 = k3
  PROVE  /\ Prefix(k3, Len(k1)) = k1
         /\ Prefix(k3, Len(k3)) = k3
<1>1. Len(k1) \in Nat /\ Len(k3) = Len(k1) + Len(k2) /\ Len(k2) \in Nat /\ Len(k3) \in Nat
  BY CatBytes DEF Bytes
<1>2. ASSUME NEW n \in Nat, n <= Len(k3)
      PROVE  /\ Prefix(k3, n) \in Bytes /\ Len(Prefix(k3, n)) = n
             /\ \A i \in 1..n : Prefix(k3, n)[i] = k3[i]
  BY <1>1, <1>2 DEF Prefix, Bytes
<1>3. \A i \in 1..Len(k1) : k3[i] = k1[i]
  BY <1>1 DEF Bytes
<1> HIDE DEF Prefix
<1>4. Prefix(k3, Len(k1)) = k1
  <2>1. /\ Prefix(k3, Len(k1)) \in Bytes /\ Len(Prefix(k3, Len(k1))) = Len(k1)
        /\ \A i \in 1..Len(k1) : Prefix(k3, Len(k1))[i] = k3[i]
    BY <1>1, <1>2
  <2> QED BY <1>3, <2>1, Same
<1>5. Prefix(k3, Len(k3)) = k3
  <2>1. /\ Prefix(k3, Len(k3)) \in Bytes /\ Len(Prefix(k3, Len(k3))) = Len(k3)
        /\ \A i \in 1..Len(k3) : Prefix(k3, Len(k3))[i] = k3[i]
    BY <1>1, <1>2
  <2> QED BY <2>1, Same
<1> QED BY <1>4, <1>5

\* How much of the script was said.
SaidOfIt == IF Echo THEN said.client ELSE said.service

LEMMA SpeakerIs ==
  ASSUME Typed
  PROVE  /\ Speaker.said = Prefix(Script, SaidOfIt)
         /\ SaidOfIt \in Nat /\ Len(Script) \in Nat
         /\ Len(Unsaid) = Len(Script) - SaidOfIt
<1>1. Script \in Bytes
  BY DialIs
<1>2. Len(Script) \in Nat
  BY <1>1, PlusIs
<1>3. said.client \in Nat /\ said.service \in Nat
  BY DEF Typed
<1>4. Speaker.said = Prefix(Script, SaidOfIt)
  BY DEF Speaker, SaidOfIt, Echo, Script
<1>5. Len(Unsaid) = Len(Script) - SaidOfIt
  BY SaidIs DEF Unsaid, Script, SaidOfIt
<1> QED BY <1>2, <1>3, <1>4, <1>5 DEF SaidOfIt

LEMMA WhatIsGiven ==
  ASSUME IInv
  PROVE  PayloadIsUntouched
<1>1. Typed /\ Heard /\ Given
  BY DEF IInv
<1>2. Shape
  BY <1>1 DEF Typed, Shape, Bytes, Ends3
<1>3. IsPrefix(pipe["cout"].bytes, Speaker.said)
  <2> DEFINE s == pipe["cout"].bytes
  <2>1. PICK R \in Bytes : s ++ R = Script /\ Len(Unsaid) <= Len(R)
    BY <1>1 DEF Heard, HeardBy
  <2>2. s \in Bytes /\ Script \in Bytes
    BY <1>1, PipesAre, DialIs
  <2> HIDE DEF s
  <2>3. s \o R = Script
    BY <2>1 DEF ++
  <2>4. Len(s) + Len(R) = Len(Script) /\ Len(s) \in Nat /\ Len(R) \in Nat
    BY <2>1, <2>2, PlusIs
  <2>5. /\ Speaker.said = Prefix(Script, SaidOfIt)
        /\ SaidOfIt \in Nat /\ Len(Unsaid) = Len(Script) - SaidOfIt
        /\ SaidOfIt <= Len(Script) /\ Len(Script) \in Nat
    <3>1. Len(Unsaid) \in Nat
      BY <1>1, SaidIs, PlusIs
    <3> QED BY <1>1, <3>1, SpeakerIs
  <2>6. SaidOfIt \in Len(s)..Len(Script)
    BY <2>1, <2>4, <2>5
  <2>7. IsPrefix(s, Prefix(Script, SaidOfIt))
    BY <2>2, <2>3, <2>6, PrefixOf
  <2> QED BY <2>5, <2>7 DEF s
<1>4. IsPrefix(pipe["sin"].bytes, Payload)
  <2> DEFINE s == pipe["sin"].bytes
  <2>1. PICK R \in Bytes : s ++ R = Payload
    BY <1>1 DEF Given, GivenBy
  <2>2. s \in Bytes /\ Payload \in Bytes
    BY <1>1, PipesAre, PayloadIs
  <2> HIDE DEF s
  <2>3. s \o R = Payload
    BY <2>1 DEF ++
  <2>4. Len(s) + Len(R) = Len(Payload) /\ Len(s) \in Nat /\ Len(R) \in Nat
    BY <2>1, <2>2, PlusIs
  <2>5. Len(Payload) \in Len(s)..Len(Payload)
    BY <2>4
  <2>6. IsPrefix(s, Prefix(Payload, Len(Payload))) /\ Prefix(Payload, Len(Payload)) = Payload
    BY <2>2, <2>3, <2>5, PrefixOf, PrefixIs
  <2> QED BY <2>6 DEF s
<1> QED BY <1>2, <1>3, <1>4 DEF PayloadIsUntouched

\* When the copies of a direction are done nothing of it is on its way.
LEMMA WhatIsWhole ==
  ASSUME IInv
  PROVE  CleanEndIsWhole
<1> SUFFICES ASSUME ~broken
             PROVE  /\ pipe["cout"].end = "fin" =>
                         pipe[Speaker.out].end = "fin" /\ pipe["cout"].bytes = Speaker.said
                    /\ pipe["sin"].end = "fin" =>
                         pipe["cin"].end = "fin" /\ Len(pipe["sin"].bytes) = PayloadSaid
  BY DEF CleanEndIsWhole
<1>1. Typed /\ DialerStages /\ HostStages /\ Clean /\ Flow
  BY DEF IInv
<1>2. PICK Y \in Bytes, Z \in Bytes : Coming(Y, Z) /\ UpFlow(Y) /\ DownFlow(Z)
  BY <1>1 DEF Flow, FlowBy
<1>3. pipe["cout"].bytes \in Bytes /\ pipe["sin"].bytes \in Bytes
  BY <1>1, PipesAre
<1>4. /\ ClientUnsaid \in Bytes /\ ServiceUnsaid \in Bytes /\ Unsaid \in Bytes
      /\ \A k \in Bytes : <<>> ++ k = k
  BY <1>1, SaidIs, PlusNone
<1>5. ASSUME copy["hostUp"] = "done"
      PROVE  /\ pipe["up"].bytes = <<>> /\ pipe["cin"].end = "fin" /\ dialer.left = <<>>
             /\ host.asked # <<>> /\ W.whole /\ Y = ClientUnsaid
  <2>1. pipe["up"].bytes = <<>> /\ copy["dialUp"] = "done"
    BY <1>1, <1>5 DEF Clean
  <2>2. pipe["cin"].bytes = <<>> /\ pipe["cin"].end = "fin" /\ dialer.left = <<>>
    BY <1>1, <2>1 DEF Clean, DialerStages, Waiting
  <2>3. host.asked # <<>> /\ W.whole
    BY <1>1, <1>5 DEF HostStages
  <2>4. Y = ClientUnsaid
    BY <1>2, <1>4, <2>2, <2>3 DEF Coming
  <2> QED BY <2>1, <2>2, <2>3, <2>4
<1>6. ASSUME pipe["cout"].end = "fin"
      PROVE  pipe[Speaker.out].end = "fin" /\ pipe["cout"].bytes = Speaker.said
  <2>1. /\ copy["dialDown"] = "done" /\ pipe["cout"].taken
        /\ pipe["down"].bytes = <<>> /\ copy[DownCopy] = "done"
    BY <1>1, <1>6 DEF Clean
  <2>2. dialer.at = "carrying" \/ ~DialerOn
    BY <1>1, <2>1 DEF DialerStages, Waiting, DialerOn, Typed
  <2>3. host.left = <<>>
    BY <1>1, <2>1 DEF HostStages, DownCopy
  <2>4. pipe["cout"].bytes ++ (<<>> ++ (<<>> ++ Z)) = Script
    BY <1>2, <2>1, <2>2, <2>3 DEF DownFlow
  <2>5. pipe["cout"].bytes ++ Z = Script
    BY <1>4, <2>4
  <2>6. Z = Unsaid /\ pipe[Speaker.out].end = "fin"
    <3>1. CASE Echo
      <4>1. copy["hostUp"] = "done"
        BY <2>1, <3>1 DEF DownCopy
      <4>2. Z = <<>> ++ (<<>> ++ ClientUnsaid)
        BY <1>2, <1>5, <3>1, <4>1 DEF Coming
      <4>3. Z = ClientUnsaid
        BY <1>4, <4>2
      <4> QED BY <1>5, <3>1, <4>1, <4>3 DEF Unsaid, Speaker, Echo
    <3>2. CASE ~Echo
      <4>1. pipe["sout"].bytes = <<>> /\ pipe["sout"].end = "fin"
        BY <1>1, <2>1, <3>2 DEF Clean, DownCopy
      <4>2. Z = <<>> ++ ServiceUnsaid
        BY <1>2, <3>2, <4>1 DEF Coming
      <4>3. Z = ServiceUnsaid
        BY <1>4, <4>2
      <4> QED BY <3>2, <4>1, <4>3 DEF Unsaid, Speaker, Echo
    <3> QED BY <3>1, <3>2
  <2>7. pipe["cout"].bytes = Speaker.said
    <3> DEFINE s == pipe["cout"].bytes
    <3>1. s \in Bytes /\ s \o Unsaid = Script /\ Script \in Bytes
      BY <1>1, <1>3, <2>5, <2>6, DialIs DEF ++
    <3>2. /\ Speaker.said = Prefix(Script, SaidOfIt)
          /\ SaidOfIt \in Nat /\ Len(Script) \in Nat
          /\ Len(Unsaid) = Len(Script) - SaidOfIt
      BY <1>1, SpeakerIs
    <3> HIDE DEF s
    <3>3. Len(Script) = Len(s) + Len(Unsaid) /\ Len(s) \in Nat
      BY <1>4, <3>1, CatBytes DEF Bytes
    <3>4. SaidOfIt = Len(s)
      BY <3>2, <3>3
    <3>5. Prefix(Script, Len(s)) = s
      BY <1>4, <3>1, PrefixIs
    <3> QED BY <3>2, <3>4, <3>5 DEF s
  <2> QED BY <2>6, <2>7
<1>7. ASSUME pipe["sin"].end = "fin"
      PROVE  pipe["cin"].end = "fin" /\ Len(pipe["sin"].bytes) = PayloadSaid
  <2>1. copy["hostUp"] = "done" /\ ~Echo /\ Out = "sin" /\ pipe["sin"].taken
    BY <1>1, <1>7 DEF Clean
  <2>2. host.at \notin {"answering", "framing"} /\ FrameSize <= Len(dial.client)
    BY <1>1, <2>1 DEF HostStages
  <2>3. pipe["sin"].bytes ++ (<<>> ++ (<<>> ++ ClientUnsaid)) = Payload
    BY <1>2, <1>5, <2>1, <2>2 DEF UpFlow
  <2>4. pipe["sin"].bytes ++ ClientUnsaid = Payload
    BY <1>4, <2>3
  <2> DEFINE s == pipe["sin"].bytes
  <2>5. /\ Len(Payload) = Len(s) + Len(ClientUnsaid) /\ Len(s) \in Nat
        /\ Len(ClientUnsaid) = Len(dial.client) - said.client
        /\ Len(Payload) = Len(dial.client) - FrameSize
        /\ FrameSize \in Nat /\ Len(dial.client) \in Nat /\ said.client \in Nat
    <3>1. Len(Payload) = Len(s) + Len(ClientUnsaid) /\ Len(s) \in Nat
      BY <1>3, <1>4, <2>4, PlusIs
    <3>2. /\ Len(ClientUnsaid) = Len(dial.client) - said.client
          /\ said.client \in 0..Len(dial.client) /\ dial.client \in Bytes
      BY <1>1, SaidIs, DialIs DEF Typed
    <3>3. Len(Payload) = Len(dial.client) - FrameSize /\ FrameSize \in Nat
      BY <1>1, <2>2, PayloadIs
    <3>4. Len(dial.client) \in Nat
      BY <3>2, PlusIs
    <3> QED BY <3>1, <3>2, <3>3, <3>4
  <2> HIDE DEF s
  <2>6. Len(s) = said.client - FrameSize
    BY <2>5
  <2> QED BY <1>5, <2>1, <2>6 DEF PayloadSaid, s
<1> QED BY <1>6, <1>7

(***************************************************************************)
(* A relayed byte is the byte that was said, in its place, and a clean end *)
(* says that nothing is missing: whatever the dial, however the two ends   *)
(* run and whichever half closes first (request_service, serve_ready and   *)
(* splice).                                                                *)
(***************************************************************************)
THEOREM WhatIsCarriedArrives == Spec => []PayloadArrives
<1>1. Init => IInv
  BY FirstState
<1>2. IInv /\ [Next]_vars => IInv'
  BY NextStep
<1>3. IInv => PayloadArrives
  BY WhatIsGiven, WhatIsWhole DEF PayloadArrives
<1> QED BY <1>1, <1>2, <1>3, PTL DEF Spec

(***************************************************************************)
(* The dialer is told what the host ruled, on the request as it was        *)
(* written (Request::read, Response::read and their writers).              *)
(***************************************************************************)
THEOREM AnswersAreTheRulings == Spec => []AnswersAreUnderstood
<1>1. Init => IInv
  BY FirstState
<1>2. IInv /\ [Next]_vars => IInv'
  BY NextStep
<1>3. IInv => AnswersAreUnderstood
  BY DEF IInv, Typed, DialerStages, HostStages, AnswersAreUnderstood
<1> QED BY <1>1, <1>2, <1>3, PTL DEF Spec

(***************************************************************************)
(* FirstTraffic cuts a stream only before a byte went either way.          *)
(***************************************************************************)
THEOREM OnlySilenceIsCut == Spec => []SilenceCutsNothing
<1>1. Init => IInv
  BY FirstState
<1>2. IInv /\ [Next]_vars => IInv'
  BY NextStep
<1>3. IInv => SilenceCutsNothing
  BY DEF IInv, Quiet, QuietBy, SilenceCutsNothing
<1> QED BY <1>1, <1>2, <1>3, PTL DEF Spec
=============================================================================
