----------------------------- MODULE RingProofs -----------------------------
(***************************************************************************)
(* What the ring of circular_q does, for every size and contents, and with *)
(* it what its users keep: a daily_file_sink the newest files, a ring      *)
(* buffer and a backtrace the newest messages.                             *)
(***************************************************************************)
EXTENDS DailySink, LogSinks, FiniteSetTheorems, SequenceTheorems, WellFoundedInduction, TLAPS

-----------------------------------------------------------------------------
(* The ring.                                                               *)

\* A queue that was given a size.
IsQ(q) ==
    /\ q = [max |-> q.max, head |-> q.head, tail |-> q.tail, v |-> q.v]
    /\ q.max \in Nat \ {0} /\ q.head \in 0 .. q.max - 1 /\ q.tail \in 0 .. q.max - 1
    /\ q.v = [i \in 0 .. q.max - 1 |-> q.v[i]]

\* a % m for what the ring computes: at most one round more.
Round(m, a) == IF a < m THEN a ELSE a - m
Ahead(m, h, t) == IF t >= h THEN t - h ELSE m - (h - t)

LEMMA RoundLemma ==
    ASSUME NEW m \in Nat \ {0}, NEW h \in 0 .. m - 1, NEW i \in 0 .. m
    PROVE  (h + i) % m = Round(m, h + i) /\ Round(m, h + i) \in 0 .. m - 1
<1>1. ASSUME NEW a \in 0 .. m - 1 PROVE a % m = a
  OBVIOUS
<1>2. ASSUME NEW a \in m .. 2 * m - 1 PROVE a % m = a - m
  OBVIOUS
<1>3. CASE h + i < m
  <2>1. h + i \in 0 .. m - 1
    BY <1>3
  <2> QED
    BY <1>1, <1>3, <2>1 DEF Round
<1>4. CASE ~(h + i < m)
  <2>1. h + i \in m .. 2 * m - 1
    BY <1>4
  <2>2. (h + i) % m = (h + i) - m
    BY <1>2, <2>1
  <2> QED
    BY <1>4, <2>1, <2>2 DEF Round
<1> QED
  BY <1>3, <1>4

LEMMA SizeLemma ==
    ASSUME NEW q, IsQ(q)
    PROVE  /\ SizeQ(q) = Ahead(q.max, q.head, q.tail) /\ SizeQ(q) \in 0 .. q.max - 1
           /\ EmptyQ(q) <=> SizeQ(q) = 0
           /\ FullQ(q) <=> SizeQ(q) = q.max - 1
<1>1. q.max \in Nat \ {0} /\ q.head \in 0 .. q.max - 1 /\ q.tail \in 0 .. q.max - 1 /\ 1 \in 0 .. q.max
  BY DEF IsQ
<1>2. (q.tail + 1) % q.max = Round(q.max, q.tail + 1)
  BY <1>1, RoundLemma
<1>3. SizeQ(q) = Ahead(q.max, q.head, q.tail)
  BY DEF SizeQ, Ahead
<1> QED
  BY <1>1, <1>2, <1>3 DEF EmptyQ, FullQ, Ahead, Round

LEMMA ContentsLemma ==
    ASSUME NEW q, IsQ(q)
    PROVE  /\ Len(ContentsQ(q)) = SizeQ(q) /\ DOMAIN ContentsQ(q) = 1 .. SizeQ(q)
           /\ \A i \in 1 .. SizeQ(q) : ContentsQ(q)[i] = q.v[Round(q.max, q.head + (i - 1))]
<1>1. SizeQ(q) \in Nat
  BY SizeLemma DEF IsQ
<1>2. ASSUME NEW i \in 1 .. SizeQ(q)
      PROVE  ContentsQ(q)[i] = q.v[Round(q.max, q.head + (i - 1))]
  <2>1. i - 1 \in 0 .. q.max /\ q.max \in Nat \ {0} /\ q.head \in 0 .. q.max - 1
    BY SizeLemma DEF IsQ
  <2>2. (q.head + (i - 1)) % q.max = Round(q.max, q.head + (i - 1))
    BY <2>1, RoundLemma
  <2> QED
    BY <2>2 DEF ContentsQ, AtQ
<1> QED
  BY <1>1, <1>2 DEF ContentsQ

\* pop_front takes the oldest.
LEMMA PopLemma ==
    ASSUME NEW q, IsQ(q), ~EmptyQ(q)
    PROVE  /\ IsQ(PopQ(q)) /\ PopQ(q).max = q.max /\ SizeQ(PopQ(q)) = SizeQ(q) - 1
           /\ FrontQ(q) = ContentsQ(q)[1]
           /\ \A i \in 1 .. SizeQ(q) - 1 : ContentsQ(PopQ(q))[i] = ContentsQ(q)[i + 1]
<1> DEFINE m == q.max
           h == q.head
           t == q.tail
           p == PopQ(q)
           n == SizeQ(q)
<1>1. /\ m \in Nat \ {0} /\ h \in 0 .. m - 1 /\ t \in 0 .. m - 1 /\ n = Ahead(m, h, t)
      /\ n \in 1 .. m - 1 /\ t # h /\ 1 \in 0 .. m
  BY SizeLemma DEF IsQ, EmptyQ
<1>2. (h + 1) % m = Round(m, h + 1) /\ Round(m, h + 1) \in 0 .. m - 1
  BY <1>1, RoundLemma
<1>3. p = [max |-> m, head |-> (h + 1) % m, tail |-> t, v |-> [q.v EXCEPT ![h] = Nothing]]
  <2> DEFINE r == [max |-> m, head |-> h, tail |-> t, v |-> q.v]
  <2>1. q = r
    BY DEF IsQ
  <2>2. r.max = m /\ r.head = h /\ r.tail = t /\ r.v = q.v
    OBVIOUS
  <2>3. PopQ(r) = [max |-> m, head |-> (h + 1) % m, tail |-> t, v |-> [q.v EXCEPT ![h] = Nothing]]
    <3>1. PopQ(r) = [[r EXCEPT !.v = [q.v EXCEPT ![h] = Nothing]] EXCEPT !.head = (h + 1) % m]
      BY <2>2, Zenon DEF PopQ
    <3> QED
      BY <3>1
  <2> QED
    BY <2>1, <2>3
<1>4. p.max = m /\ p.head = Round(m, h + 1) /\ p.tail = t /\ p.v = [q.v EXCEPT ![h] = Nothing]
  BY <1>2, <1>3
<1>5. \A i \in 0 .. m - 1 : i # h => p.v[i] = q.v[i]
  BY <1>4 DEF IsQ
<1>6. IsQ(p)
  <2>1. p.v = [i \in 0 .. m - 1 |-> p.v[i]]
    BY <1>4 DEF IsQ
  <2> QED
    BY <1>1, <1>2, <1>3, <1>4, <2>1 DEF IsQ
<1>7. SizeQ(p) = n - 1
  <2>1. SizeQ(p) = Ahead(m, Round(m, h + 1), t)
    BY <1>4, <1>6, SizeLemma
  <2> HIDE DEF p, m, h, t, n
  <2> QED
    BY <1>1, <2>1 DEF Ahead, Round
<1>8. FrontQ(q) = ContentsQ(q)[1]
  <2>1. 1 \in 1 .. n /\ Round(m, h + (1 - 1)) = h
    BY <1>1 DEF Round
  <2> QED
    BY <2>1, ContentsLemma DEF FrontQ
<1>0. /\ \A i \in 1 .. SizeQ(p) : ContentsQ(p)[i] = p.v[Round(p.max, p.head + (i - 1))]
      /\ \A i \in 1 .. n : ContentsQ(q)[i] = q.v[Round(m, h + (i - 1))]
  BY <1>6, ContentsLemma
<1>9. ASSUME NEW i \in 1 .. n - 1 PROVE ContentsQ(p)[i] = ContentsQ(q)[i + 1]
  <2> HIDE DEF p, m, h, t, n
  <2>1. i \in 1 .. SizeQ(p) /\ i + 1 \in 1 .. n /\ i - 1 \in 0 .. m - 1 /\ i \in 0 .. m - 1
        /\ i - 1 < m - 1 /\ (i - 1) + 1 = i /\ 0 \in 0 .. m - 1 /\ i # 0 /\ (i + 1) - 1 = i
    BY <1>1, <1>7
  <2>2. ContentsQ(p)[i] = p.v[Round(m, Round(m, h + 1) + (i - 1))]
    BY <1>0, <1>4, <2>1
  <2>3. ContentsQ(q)[i + 1] = q.v[Round(m, h + ((i + 1) - 1))]
    BY <1>0, <2>1
  <2>4. Round(m, Round(m, h + 1) + (i - 1)) = Round(m, h + ((i - 1) + 1))
    BY <1>1, <2>1 DEF Round
  <2>5. Round(m, h + i) # h
    BY <1>1, <2>1 DEF Round
  <2>6. Round(m, h + i) \in 0 .. m - 1
    BY <1>1, <2>1 DEF Round
  <2> QED
    BY <1>5, <2>1, <2>2, <2>3, <2>4, <2>5, <2>6
<1> QED
  BY <1>4, <1>6, <1>7, <1>8, <1>9

\* push_back, when there is room, puts a message behind the others.
LEMMA PushLemma ==
    ASSUME NEW q, IsQ(q), ~FullQ(q), NEW x
    PROVE  /\ IsQ(PushQ(q, x)) /\ PushQ(q, x).max = q.max /\ SizeQ(PushQ(q, x)) = SizeQ(q) + 1
           /\ \A i \in 1 .. SizeQ(q) : ContentsQ(PushQ(q, x))[i] = ContentsQ(q)[i]
           /\ ContentsQ(PushQ(q, x))[SizeQ(q) + 1] = x
<1> DEFINE m == q.max
           h == q.head
           t == q.tail
           p == PushQ(q, x)
           n == SizeQ(q)
<1>1. /\ m \in Nat \ {0} /\ h \in 0 .. m - 1 /\ t \in 0 .. m - 1 /\ n = Ahead(m, h, t)
      /\ n \in 0 .. m - 1 /\ n # m - 1 /\ 1 \in 0 .. m /\ m # 0
  BY SizeLemma DEF IsQ
<1>2. (t + 1) % m = Round(m, t + 1) /\ Round(m, t + 1) \in 0 .. m - 1 /\ Round(m, t + 1) # h
  <2>1. (t + 1) % m = Round(m, t + 1) /\ Round(m, t + 1) \in 0 .. m - 1
    BY <1>1, RoundLemma
  <2> HIDE DEF p, m, h, t, n
  <2> QED
    BY <1>1, <2>1 DEF Round, Ahead
<1>3. p = [max |-> m, head |-> h, tail |-> (t + 1) % m, v |-> [q.v EXCEPT ![t] = x]]
  <2> DEFINE r == [max |-> m, head |-> h, tail |-> t, v |-> q.v]
  <2>1. q = r
    BY DEF IsQ
  <2>2. PushQ(r, x) = [max |-> m, head |-> h, tail |-> (t + 1) % m, v |-> [q.v EXCEPT ![t] = x]]
    BY <1>1, <1>2 DEF PushQ
  <2> QED
    BY <2>1, <2>2
<1>4. p.max = m /\ p.head = h /\ p.tail = Round(m, t + 1) /\ p.v = [q.v EXCEPT ![t] = x]
  BY <1>2, <1>3
<1>5. p.v[t] = x /\ \A i \in 0 .. m - 1 : i # t => p.v[i] = q.v[i]
  BY <1>1, <1>4 DEF IsQ
<1>6. IsQ(p)
  <2>1. p.v = [i \in 0 .. m - 1 |-> p.v[i]]
    BY <1>4 DEF IsQ
  <2> QED
    BY <1>1, <1>2, <1>3, <1>4, <2>1 DEF IsQ
<1>7. SizeQ(p) = n + 1
  <2>1. SizeQ(p) = Ahead(m, h, Round(m, t + 1))
    BY <1>4, <1>6, SizeLemma
  <2> HIDE DEF p, m, h, t, n
  <2> QED
    BY <1>1, <1>2, <2>1 DEF Ahead, Round
<1>0. /\ \A i \in 1 .. SizeQ(p) : ContentsQ(p)[i] = p.v[Round(p.max, p.head + (i - 1))]
      /\ \A i \in 1 .. n : ContentsQ(q)[i] = q.v[Round(m, h + (i - 1))]
  BY <1>6, ContentsLemma
<1> HIDE DEF p, m, h, t, n
<1>8. Round(m, h + n) = t
  BY <1>1 DEF Round, Ahead
<1>9. ASSUME NEW i \in 1 .. n PROVE ContentsQ(p)[i] = ContentsQ(q)[i]
  <2>1. i \in 1 .. SizeQ(p) /\ i - 1 \in 0 .. m - 1 /\ i - 1 # n
    BY <1>1, <1>7
  <2>2. /\ ContentsQ(p)[i] = p.v[Round(m, h + (i - 1))]
        /\ ContentsQ(q)[i] = q.v[Round(m, h + (i - 1))]
    BY <1>0, <1>4, <2>1
  <2>3. Round(m, h + (i - 1)) # t
    BY <1>1, <2>1 DEF Round, Ahead
  <2>4. Round(m, h + (i - 1)) \in 0 .. m - 1
    BY <1>1, <2>1 DEF Round
  <2> QED
    BY <1>5, <2>2, <2>3, <2>4
<1>10. ContentsQ(p)[n + 1] = x
  <2>1. n + 1 \in 1 .. SizeQ(p) /\ (n + 1) - 1 = n
    BY <1>1, <1>7
  <2>2. ContentsQ(p)[n + 1] = p.v[Round(m, h + ((n + 1) - 1))]
    BY <1>0, <1>4, <2>1
  <2> QED
    BY <1>5, <1>8, <2>1, <2>2
<1> QED
  BY <1>4, <1>6, <1>7, <1>9, <1>10 DEF p, m, n

LEMMA NewLemma ==
    ASSUME NEW n \in Nat
    PROVE  IsQ(NewQ(n)) /\ NewQ(n).max = n + 1 /\ ContentsQ(NewQ(n)) = <<>>
<1>1. IsQ(NewQ(n)) /\ NewQ(n).max = n + 1 /\ NewQ(n).head = 0 /\ NewQ(n).tail = 0
  BY DEF IsQ, NewQ
<1>2. SizeQ(NewQ(n)) = 0
  BY <1>1, SizeLemma DEF Ahead
<1> QED
  BY <1>1, <1>2 DEF ContentsQ

LEMMA ContentsIsSeq ==
    ASSUME NEW q, IsQ(q)
    PROVE  \E S : ContentsQ(q) \in Seq(S)
<1> DEFINE n == SizeQ(q)
           c == ContentsQ(q)
           S == {c[i] : i \in 1 .. n}
<1>1. n \in Nat
  BY SizeLemma DEF IsQ
<1>2. c \in [1 .. n -> S]
  <2>1. c = [i \in 1 .. n |-> c[i]]
    BY DEF ContentsQ
  <2> HIDE DEF c, n
  <2> QED
    BY <2>1
<1> HIDE DEF S, c, n
<1>3. c \in Seq(S)
  BY <1>1, <1>2, SeqDef
<1> QED
  BY <1>3, Zenon DEF c

\* push_back on a full queue overruns the oldest.
LEMMA OverrunLemma ==
    ASSUME NEW q, IsQ(q), FullQ(q), NEW x
    PROVE  /\ IsQ(PushQ(q, x)) /\ PushQ(q, x).max = q.max /\ SizeQ(PushQ(q, x)) = SizeQ(q)
           /\ \A i \in 1 .. SizeQ(q) :
                 ContentsQ(PushQ(q, x))[i] = IF i = SizeQ(q) THEN x ELSE ContentsQ(q)[i + 1]
<1> DEFINE m == q.max
           h == q.head
           t == q.tail
           p == PushQ(q, x)
           n == SizeQ(q)
<1>1. /\ m \in Nat \ {0} /\ h \in 0 .. m - 1 /\ t \in 0 .. m - 1 /\ n = Ahead(m, h, t)
      /\ n = m - 1 /\ 1 \in 0 .. m /\ m # 0
  BY SizeLemma DEF IsQ
<1>2. (t + 1) % m = h /\ h = Round(m, t + 1) /\ (h + 1) % m = Round(m, h + 1) /\ Round(m, h + 1) \in 0 .. m - 1
  BY <1>1, RoundLemma DEF FullQ
<1>3. p = [max |-> m, head |-> (h + 1) % m, tail |-> h,
           v |-> [[q.v EXCEPT ![t] = x] EXCEPT ![h] = Nothing]]
  <2> DEFINE r == [max |-> m, head |-> h, tail |-> t, v |-> q.v]
  <2>1. q = r
    BY DEF IsQ
  <2>2. PushQ(r, x) = [max |-> m, head |-> (h + 1) % m, tail |-> h,
                       v |-> [[q.v EXCEPT ![t] = x] EXCEPT ![h] = Nothing]]
    BY <1>1, <1>2 DEF PushQ
  <2> QED
    BY <2>1, <2>2
<1>4. /\ p.max = m /\ p.head = Round(m, h + 1) /\ p.tail = h
      /\ p.v = [[q.v EXCEPT ![t] = x] EXCEPT ![h] = Nothing]
  BY <1>2, <1>3
<1>5. /\ t # h => p.v[t] = x
      /\ \A i \in 0 .. m - 1 : i # t /\ i # h => p.v[i] = q.v[i]
  BY <1>1, <1>4 DEF IsQ
<1>6. IsQ(p)
  <2>1. p.v = [i \in 0 .. m - 1 |-> p.v[i]]
    BY <1>4 DEF IsQ
  <2> QED
    BY <1>1, <1>2, <1>3, <1>4, <2>1 DEF IsQ
<1>7. SizeQ(p) = n
  <2>1. SizeQ(p) = Ahead(m, Round(m, h + 1), h)
    BY <1>4, <1>6, SizeLemma
  <2> HIDE DEF p, m, h, t, n
  <2> QED
    BY <1>1, <1>2, <2>1 DEF Ahead, Round
<1>0. /\ \A i \in 1 .. SizeQ(p) : ContentsQ(p)[i] = p.v[Round(p.max, p.head + (i - 1))]
      /\ \A i \in 1 .. n : ContentsQ(q)[i] = q.v[Round(m, h + (i - 1))]
  BY <1>6, ContentsLemma
<1> HIDE DEF p, m, h, t, n
<1>8. ASSUME NEW i \in 1 .. n
      PROVE  ContentsQ(p)[i] = IF i = n THEN x ELSE ContentsQ(q)[i + 1]
  <2>1. /\ i \in 1 .. SizeQ(p) /\ (i # n => i + 1 \in 1 .. n) /\ (i + 1) - 1 = i
        /\ i \in 0 .. m - 1 /\ i # 0
    BY <1>1, <1>7
  <2>2. ContentsQ(p)[i] = p.v[Round(m, Round(m, h + 1) + (i - 1))]
    BY <1>0, <1>4, <2>1
  <2>3. Round(m, Round(m, h + 1) + (i - 1)) = Round(m, h + i)
    BY <1>1, <2>1 DEF Round
  <2>4. Round(m, h + i) # h /\ Round(m, h + i) \in 0 .. m - 1
    BY <1>1, <2>1 DEF Round
  <2>5. CASE i = n
    <3>1. Round(m, h + i) = t
      BY <1>1, <2>1, <2>5 DEF Round, Ahead
    <3> QED
      BY <1>5, <2>2, <2>3, <2>4, <2>5, <3>1
  <2>6. CASE i # n
    <3>1. Round(m, h + i) # t
      BY <1>1, <2>1, <2>6 DEF Round, Ahead
    <3>2. ContentsQ(q)[i + 1] = q.v[Round(m, h + i)]
      BY <1>0, <2>1, <2>6
    <3> QED
      BY <1>5, <2>2, <2>3, <2>4, <2>6, <3>1, <3>2
  <2> QED
    BY <2>5, <2>6
<1> QED
  BY <1>4, <1>6, <1>7, <1>8 DEF p, m, n

\* Whether there is room or not, the queue has the newest of what it was given.
LEMMA NewestLemma ==
    ASSUME NEW q, IsQ(q), NEW x
    PROVE  /\ IsQ(PushQ(q, x)) /\ PushQ(q, x).max = q.max
           /\ ContentsQ(PushQ(q, x)) = LastOf(q.max - 1, Append(ContentsQ(q), x))
<1> DEFINE n == SizeQ(q)
           p == PushQ(q, x)
           c == ContentsQ(q)
           a == Append(c, x)
<1>1. /\ q.max \in Nat \ {0} /\ n \in 0 .. q.max - 1 /\ (FullQ(q) <=> n = q.max - 1)
      /\ Len(c) = n
  BY SizeLemma, ContentsLemma DEF IsQ
<1>2. a = [i \in 1 .. n + 1 |-> IF i = n + 1 THEN x ELSE c[i]] /\ Len(a) = n + 1
  <2>1. PICK S : c \in Seq(S)
    BY ContentsIsSeq
  <2> HIDE DEF c, n
  <2>2. c \in Seq(S \cup {x}) /\ x \in S \cup {x}
    BY <2>1
  <2>3. a \in Seq(S \cup {x}) /\ Len(a) = n + 1 /\ a[n + 1] = x /\ \A i \in 1 .. n : a[i] = c[i]
    BY <1>1, <2>2, AppendProperties
  <2> HIDE DEF a
  <2>4. a = [i \in 1 .. n + 1 |-> a[i]]
    BY <2>3
  <2>5. ASSUME NEW i \in 1 .. n + 1 PROVE a[i] = IF i = n + 1 THEN x ELSE c[i]
    <3>1. i = n + 1 \/ i \in 1 .. n
      BY <1>1
    <3> QED
      BY <1>1, <2>3, <3>1
  <2> QED
    BY <2>3, <2>4, <2>5
<1>3. CASE ~FullQ(q)
  <2>1. /\ IsQ(p) /\ p.max = q.max /\ SizeQ(p) = n + 1
        /\ \A i \in 1 .. n : ContentsQ(p)[i] = c[i]
        /\ ContentsQ(p)[n + 1] = x
    BY <1>3, PushLemma
  <2>2. ContentsQ(p) = [i \in 1 .. n + 1 |-> ContentsQ(p)[i]]
    BY <2>1 DEF ContentsQ
  <2> HIDE DEF p, n, c, a
  <2>3. ContentsQ(p) = a
    <3>1. ASSUME NEW i \in 1 .. n + 1 PROVE ContentsQ(p)[i] = IF i = n + 1 THEN x ELSE c[i]
      <4>1. i = n + 1 \/ i \in 1 .. n
        BY <1>1
      <4>2. i \in 1 .. n => i # n + 1
        BY <1>1
      <4> QED
        BY <2>1, <4>1, <4>2
    <3> QED
      BY <1>2, <2>2, <3>1
  <2>4. LastOf(q.max - 1, a) = a
    <3> HIDE DEF a
    <3>1. Len(a) <= q.max - 1
      BY <1>1, <1>2, <1>3
    <3> QED
      BY <3>1 DEF LastOf
  <2> QED
    BY <2>1, <2>3, <2>4 DEF p, a, c
<1>4. CASE FullQ(q)
  <2>1. /\ IsQ(p) /\ p.max = q.max /\ SizeQ(p) = n
        /\ \A i \in 1 .. n : ContentsQ(p)[i] = IF i = n THEN x ELSE c[i + 1]
    BY <1>4, OverrunLemma
  <2>2. ContentsQ(p) = [i \in 1 .. n |-> ContentsQ(p)[i]]
    BY <2>1 DEF ContentsQ
  <2> HIDE DEF p, n, c, a
  <2>3. LastOf(q.max - 1, a) = SubSeq(a, 2, n + 1)
    <3>1. ~(Len(a) <= q.max - 1) /\ Len(a) - (q.max - 1) + 1 = 2 /\ Len(a) = n + 1
      BY <1>1, <1>2, <1>4
    <3> QED
      BY <3>1 DEF LastOf
  <2>4. SubSeq(a, 2, n + 1) = [i \in 1 .. n |-> a[i + 1]]
    BY <1>1
  <2>5. ASSUME NEW i \in 1 .. n PROVE ContentsQ(p)[i] = a[i + 1]
    BY <1>1, <1>2, <2>1
  <2> QED
    BY <2>1, <2>2, <2>3, <2>4, <2>5 DEF p, a, c
<1> QED
  BY <1>3, <1>4 DEF p, a, c

-----------------------------------------------------------------------------
(* Induction, and what is defined by recursion on a number.                *)

\* A set of numbers has a least one.
LEMMA LeastNumber ==
    ASSUME NEW T \in SUBSET Nat, T # {}
    PROVE  \E x \in T : \A y \in T : x <= y
<1>1. \E x \in T : \A y \in T : ~(<<y, x>> \in OpToRel(<, Nat))
  BY NatLessThanWellFounded, WFMin
<1>2. PICK x \in T : \A y \in T : ~(<<y, x>> \in OpToRel(<, Nat))
  BY <1>1
<1>3. ASSUME NEW y \in T PROVE ~(y < x)
  BY <1>2 DEF OpToRel
<1> QED
  BY <1>3

\* Induction, over a set of numbers.
LEMMA Induction ==
    ASSUME NEW m \in Nat, NEW T, 0 \in T, \A n \in T : n \in 0 .. m - 1 => n + 1 \in T
    PROVE  0 .. m \subseteq T
<1> DEFINE U == {n \in 0 .. m : n \notin T}
<1> SUFFICES ASSUME U # {} PROVE FALSE
  OBVIOUS
<1>1. U \in SUBSET Nat
  OBVIOUS
<1>2. PICK n \in U : \A k \in U : n <= k
  BY <1>1, LeastNumber
<1>3. n # 0 /\ n \in 0 .. m /\ n \notin T
  BY <1>2
<1>4. n - 1 \in 0 .. m - 1 /\ (n - 1) + 1 = n
  BY <1>3
<1>5. n - 1 \in T
  <2> SUFFICES ASSUME n - 1 \notin T PROVE FALSE
    OBVIOUS
  <2>1. n - 1 \in U
    BY <1>4
  <2> QED
    BY <1>2, <1>3, <2>1
<1> QED
  BY <1>3, <1>4, <1>5

-----------------------------------------------------------------------------
(* A logger with its backtrace, the filter and the ring buffer.            *)

Reaches(f, r, n) == [filter |-> f, ring |-> r, newest |-> n]
Filter(t, p, n) == [time |-> t, payload |-> p, skips |-> n]

\* What a message reaches keeps the newest.
KeepsNewest(s) ==
    /\ s = Reaches(s.filter, s.ring, s.newest)
    /\ IsQ(s.ring) /\ s.ring.max = ring.max /\ ContentsQ(s.ring) = s.newest

\* What the filter remembers is a record.
Remembers(s) == s.filter = Filter(s.filter.time, s.filter.payload, s.filter.skips)

SinksInv ==
    /\ attached \in Nat
    /\ KeepsNewest(Reached) /\ Remembers(Reached)
    /\ tracer = [enabled |-> tracer.enabled, q |-> tracer.q]
    /\ tracer.enabled => IsQ(tracer.q) /\ ContentsQ(tracer.q) = traced

LEMMA GivenLemma ==
    ASSUME NEW s, KeepsNewest(s), NEW x
    PROVE  KeepsNewest(Given(s, x)) /\ Given(s, x).filter = s.filter
<1> DEFINE r == PushQ(s.ring, x)
           n == LastOf(ring.max - 1, Append(s.newest, x))
<1>1. Given(s, x) = Reaches(s.filter, r, n)
  <2> DEFINE w == Reaches(s.filter, s.ring, s.newest)
  <2>1. s = w
    BY DEF KeepsNewest
  <2>2. ASSUME NEW p, NEW a
        PROVE  [w EXCEPT !.ring = p, !.newest = a] = Reaches(s.filter, p, a)
    <3>1. /\ [w EXCEPT !.ring = p] = Reaches(s.filter, p, s.newest)
          /\ [Reaches(s.filter, p, s.newest) EXCEPT !.newest = a]
                = Reaches(s.filter, p, a)
      BY DEF Reaches
    <3>2. [w EXCEPT !.ring = p, !.newest = a] = [[w EXCEPT !.ring = p] EXCEPT !.newest = a]
      BY Zenon
    <3> HIDE DEF w
    <3> QED
      BY <3>1, <3>2
  <2> HIDE DEF w
  <2>3. Given(s, x) = [s EXCEPT !.ring = r, !.newest = n]
    BY Zenon DEF Given
  <2> HIDE DEF r, n
  <2> QED
    BY <2>1, <2>2, <2>3
<1>2. IsQ(r) /\ r.max = ring.max /\ ContentsQ(r) = n
  BY NewestLemma DEF KeepsNewest
<1> HIDE DEF r, n
<1>3. /\ Given(s, x).filter = s.filter /\ Given(s, x).ring = r
      /\ Given(s, x).newest = n
  BY <1>1 DEF Reaches
<1> QED
  BY <1>1, <1>2, <1>3 DEF KeepsNewest

\* What the ring buffer was after it was given x n times.
GivenTimes(s, x, m) ==
    CHOOSE f : f = [n \in 0 .. m |-> IF n = 0 THEN s ELSE Given(f[n - 1], x)]

LEMMA GivenTimesLemma ==
    ASSUME NEW s, NEW x, NEW m \in Nat
    PROVE  GivenTimes(s, x, m)
             = [n \in 0 .. m |-> IF n = 0 THEN s ELSE Given(GivenTimes(s, x, m)[n - 1], x)]
<1> DEFINE Is(f, k) == f = [n \in 0 .. k |-> IF n = 0 THEN s ELSE Given(f[n - 1], x)]
           T == {k \in 0 .. m : \E f : Is(f, k)}
<1>1. 0 \in T
  <2>1. Is([n \in 0 .. 0 |-> s], 0)
    OBVIOUS
  <2>2. \E f : Is(f, 0)
    <3> WITNESS [n \in 0 .. 0 |-> s]
    <3> QED
      BY <2>1
  <2> QED
    BY <2>2
<1>2. ASSUME NEW k \in T, k \in 0 .. m - 1 PROVE k + 1 \in T
  <2>1. PICK f : Is(f, k)
    OBVIOUS
  <2> DEFINE g == [n \in 0 .. k + 1 |-> IF n \in 0 .. k THEN f[n] ELSE Given(f[k], x)]
  <2>2. Is(g, k + 1)
    <3>1. ASSUME NEW n \in 0 .. k + 1
          PROVE  g[n] = IF n = 0 THEN s ELSE Given(g[n - 1], x)
      <4>1. CASE n \in 0 .. k
        BY <2>1, <4>1
      <4>2. CASE n = k + 1
        BY <4>2
      <4> QED
        BY <4>1, <4>2
    <3> QED
      BY <3>1
  <2>3. k + 1 \in 0 .. m
    BY <1>2
  <2> QED
    BY <2>2, <2>3
<1>3. 0 .. m \subseteq T
  <2> HIDE DEF T
  <2> QED
    BY <1>1, <1>2, Induction
<1>4. PICK f : Is(f, m)
  BY <1>3
<1> QED
  BY <1>4 DEF GivenTimes

\* However often the ring buffer is in the list.
LEMMA DistLemma ==
    ASSUME NEW s, KeepsNewest(s), NEW x, NEW l, NEW times \in Nat
    PROVE  KeepsNewest(Dist(s, x, l, times)) /\ Dist(s, x, l, times).filter = s.filter
<1> DEFINE f == GivenTimes(s, x, times)
           Fine(r) == KeepsNewest(r) /\ r.filter = s.filter
           T == {n \in 0 .. times : Fine(f[n])}
<1>1. f[0] = s /\ \A n \in 1 .. times : f[n] = Given(f[n - 1], x)
  <2> HIDE DEF f
  <2>1. f = [n \in 0 .. times |-> IF n = 0 THEN s ELSE Given(f[n - 1], x)]
    BY GivenTimesLemma DEF f
  <2> QED
    BY <2>1
<1> HIDE DEF f
<1>2. 0 \in T
  BY <1>1
<1>3. ASSUME NEW n \in T, n \in 0 .. times - 1 PROVE n + 1 \in T
  <2>1. f[n + 1] = Given(f[n], x) /\ n + 1 \in 0 .. times
    BY <1>1, <1>3
  <2> QED
    BY <2>1, GivenLemma
<1>4. times \in T
  <2> HIDE DEF T
  <2>1. 0 .. times \subseteq T
    BY <1>2, <1>3, Induction
  <2> QED
    BY <2>1
<1>5. Dist(s, x, l, times) = IF l < RingLevel THEN s ELSE f[times]
  BY DEF Dist, GivenTimes, f
<1> QED
  BY <1>4, <1>5

LEMMA DupFilterLemma ==
    ASSUME attached \in Nat, NEW s, KeepsNewest(s), Remembers(s), NEW m
    PROVE  KeepsNewest(DupFilter(s, m)) /\ Remembers(DupFilter(s, m))
<1> DEFINE f == Filter(s.filter.time, s.filter.payload, s.filter.skips)
<1>1. s = Reaches(f, s.ring, s.newest)
  BY DEF KeepsNewest, Remembers
<1>2. CASE ~Shows(s.filter, m)
  <2> DEFINE g == Filter(s.filter.time, s.filter.payload, s.filter.skips + 1)
  <2>1. DupFilter(s, m) = [s EXCEPT !.filter.skips = @ + 1]
    BY <1>2 DEF DupFilter
  <2>2. [s EXCEPT !.filter.skips = @ + 1] = Reaches(g, s.ring, s.newest)
    <3>1. [f EXCEPT !.skips = s.filter.skips + 1] = g
      BY DEF Filter
    <3>2. s.filter = f /\ s.filter.skips = f.skips
      BY DEF Remembers
    <3>3. [s EXCEPT !.filter.skips = @ + 1]
             = [s EXCEPT !.filter = [s.filter EXCEPT !.skips = s.filter.skips + 1]]
      BY Zenon
    <3> HIDE DEF f, g
    <3>4. [s EXCEPT !.filter = g] = Reaches(g, s.ring, s.newest)
      BY <1>1 DEF Reaches
    <3> QED
      BY <3>1, <3>2, <3>3, <3>4
  <2> QED
    BY <2>1, <2>2 DEF KeepsNewest, Remembers, Reaches, Filter
<1>3. CASE Shows(s.filter, m)
  <2> DEFINE told == Dist(s, Skipped(s.filter.skips), m.level, attached)
             report == IF s.filter.skips = 0 THEN s ELSE told
             last == Dist(report, m.payload, m.level, attached)
             g == Filter(m.time, m.payload, 0)
  <2>1. KeepsNewest(told)
    BY DistLemma
  <2>2. DupFilter(s, m) = [last EXCEPT !.filter = g]
    BY <1>3 DEF DupFilter, Filter
  <2> HIDE DEF told
  <2>3. KeepsNewest(report)
    BY <2>1
  <2> HIDE DEF report
  <2>4. KeepsNewest(last)
    BY <2>3, DistLemma
  <2> HIDE DEF last
  <2>5. [last EXCEPT !.filter = g] = Reaches(g, last.ring, last.newest)
    BY <2>4 DEF KeepsNewest, Reaches
  <2> QED
    BY <2>2, <2>4, <2>5 DEF KeepsNewest, Remembers, Reaches, Filter
<1> QED
  BY <1>2, <1>3

\* What the first n messages of ms reached.
FilteredAll(s, ms, m) ==
    CHOOSE f : f = [n \in 0 .. m |-> IF n = 0 THEN s ELSE DupFilter(f[n - 1], ms[n])]

LEMMA FilteredAllLemma ==
    ASSUME NEW s, NEW ms, NEW m \in Nat
    PROVE  FilteredAll(s, ms, m)
             = [n \in 0 .. m |-> IF n = 0 THEN s ELSE DupFilter(FilteredAll(s, ms, m)[n - 1], ms[n])]
<1> DEFINE Is(f, k) == f = [n \in 0 .. k |-> IF n = 0 THEN s ELSE DupFilter(f[n - 1], ms[n])]
           T == {k \in 0 .. m : \E f : Is(f, k)}
<1>1. 0 \in T
  <2>1. Is([n \in 0 .. 0 |-> s], 0)
    OBVIOUS
  <2>2. \E f : Is(f, 0)
    <3> WITNESS [n \in 0 .. 0 |-> s]
    <3> QED
      BY <2>1
  <2> QED
    BY <2>2
<1>2. ASSUME NEW k \in T, k \in 0 .. m - 1 PROVE k + 1 \in T
  <2>1. PICK f : Is(f, k)
    OBVIOUS
  <2> DEFINE g == [n \in 0 .. k + 1 |-> IF n \in 0 .. k THEN f[n] ELSE DupFilter(f[k], ms[k + 1])]
  <2>2. Is(g, k + 1)
    <3>1. ASSUME NEW n \in 0 .. k + 1
          PROVE  g[n] = IF n = 0 THEN s ELSE DupFilter(g[n - 1], ms[n])
      <4>1. CASE n \in 0 .. k
        BY <2>1, <4>1
      <4>2. CASE n = k + 1
        BY <4>2
      <4> QED
        BY <4>1, <4>2
    <3> QED
      BY <3>1
  <2>3. k + 1 \in 0 .. m
    BY <1>2
  <2> QED
    BY <2>2, <2>3
<1>3. 0 .. m \subseteq T
  <2> HIDE DEF T
  <2> QED
    BY <1>1, <1>2, Induction
<1>4. PICK f : Is(f, m)
  BY <1>3
<1> QED
  BY <1>4 DEF FilteredAll

LEMMA SinkAllLemma ==
    ASSUME attached \in Nat, NEW s, KeepsNewest(s), Remembers(s), NEW ms, Len(ms) \in Nat
    PROVE  KeepsNewest(SinkAll(s, ms)) /\ Remembers(SinkAll(s, ms))
<1> DEFINE f == FilteredAll(s, ms, Len(ms))
           T == {n \in 0 .. Len(ms) : KeepsNewest(f[n]) /\ Remembers(f[n])}
<1>1. f[0] = s /\ \A n \in 1 .. Len(ms) : f[n] = DupFilter(f[n - 1], ms[n])
  <2> HIDE DEF f
  <2>1. f = [n \in 0 .. Len(ms) |-> IF n = 0 THEN s ELSE DupFilter(f[n - 1], ms[n])]
    BY FilteredAllLemma DEF f
  <2> QED
    BY <2>1
<1> HIDE DEF f
<1>2. 0 \in T
  BY <1>1
<1>3. ASSUME NEW n \in T, n \in 0 .. Len(ms) - 1 PROVE n + 1 \in T
  <2>1. f[n + 1] = DupFilter(f[n], ms[n + 1]) /\ n + 1 \in 0 .. Len(ms)
    BY <1>1, <1>3
  <2> QED
    BY <2>1, DupFilterLemma
<1>4. Len(ms) \in T
  <2> HIDE DEF T
  <2>1. 0 .. Len(ms) \subseteq T
    BY <1>2, <1>3, Induction
  <2> QED
    BY <2>1
<1>5. SinkAll(s, ms) = f[Len(ms)]
  BY DEF SinkAll, FilteredAll, f
<1> QED
  BY <1>4, <1>5

\* What n turns of foreach_pop leave.
OneLess(q) == IF EmptyQ(q) THEN q ELSE PopQ(q)

Popped(q, m) ==
    CHOOSE f : f = [n \in 0 .. m |-> IF n = 0 THEN q ELSE OneLess(f[n - 1])]

LEMMA PoppedLemma ==
    ASSUME NEW q, NEW m \in Nat
    PROVE  Popped(q, m)
             = [n \in 0 .. m |-> IF n = 0 THEN q ELSE OneLess(Popped(q, m)[n - 1])]
<1> DEFINE Is(f, k) == f = [n \in 0 .. k |-> IF n = 0 THEN q ELSE OneLess(f[n - 1])]
           T == {k \in 0 .. m : \E f : Is(f, k)}
<1>1. 0 \in T
  <2>1. Is([n \in 0 .. 0 |-> q], 0)
    OBVIOUS
  <2>2. \E f : Is(f, 0)
    <3> WITNESS [n \in 0 .. 0 |-> q]
    <3> QED
      BY <2>1
  <2> QED
    BY <2>2
<1>2. ASSUME NEW k \in T, k \in 0 .. m - 1 PROVE k + 1 \in T
  <2>1. PICK f : Is(f, k)
    OBVIOUS
  <2> DEFINE g == [n \in 0 .. k + 1 |-> IF n \in 0 .. k THEN f[n] ELSE OneLess(f[k])]
  <2>2. Is(g, k + 1)
    <3>1. ASSUME NEW n \in 0 .. k + 1
          PROVE  g[n] = IF n = 0 THEN q ELSE OneLess(g[n - 1])
      <4>1. CASE n \in 0 .. k
        BY <2>1, <4>1
      <4>2. CASE n = k + 1
        BY <4>2
      <4> QED
        BY <4>1, <4>2
    <3> QED
      BY <3>1
  <2>3. k + 1 \in 0 .. m
    BY <1>2
  <2> QED
    BY <2>2, <2>3
<1>3. 0 .. m \subseteq T
  <2> HIDE DEF T
  <2> QED
    BY <1>1, <1>2, Induction
<1>4. PICK f : Is(f, m)
  BY <1>3
<1> QED
  BY <1>4 DEF Popped

\* A queue that is popped until it is empty.
LEMMA DrainedLemma ==
    ASSUME NEW q, IsQ(q)
    PROVE  IsQ(Drained(q)) /\ ContentsQ(Drained(q)) = <<>>
<1> DEFINE m == q.max
           f == Popped(q, m)
           Fine(n) == /\ IsQ(f[n]) /\ f[n].max = m
                      /\ SizeQ(f[n]) = 0 \/ n + SizeQ(f[n]) <= m - 1
           T == {n \in 0 .. m : Fine(n)}
<1>1. m \in Nat \ {0} /\ SizeQ(q) \in 0 .. m - 1
  BY SizeLemma DEF IsQ
<1>2. /\ f[0] = q
      /\ \A n \in 1 .. m : f[n] = IF EmptyQ(f[n - 1]) THEN f[n - 1] ELSE PopQ(f[n - 1])
  <2> HIDE DEF f, m
  <2>1. f = [n \in 0 .. m |-> IF n = 0 THEN q ELSE OneLess(f[n - 1])]
    BY <1>1, PoppedLemma DEF f
  <2> QED
    BY <1>1, <2>1 DEF OneLess
<1> HIDE DEF f
<1>3. 0 \in T
  BY <1>1, <1>2
<1>4. ASSUME NEW n \in T, n \in 0 .. m - 1 PROVE n + 1 \in T
  <2> DEFINE p == f[n]
             r == f[n + 1]
  <2> HIDE DEF m
  <2>1. r = (IF EmptyQ(p) THEN p ELSE PopQ(p)) /\ n + 1 \in 0 .. m
    <3>1. n + 1 \in 1 .. m /\ (n + 1) - 1 = n
      BY <1>1, <1>4
    <3> QED
      BY <1>1, <1>2, <3>1
  <2>2. IsQ(p) /\ p.max = m /\ (SizeQ(p) = 0 \/ n + SizeQ(p) <= m - 1)
    OBVIOUS
  <2> HIDE DEF p, r
  <2>3. SizeQ(p) \in 0 .. m - 1 /\ (EmptyQ(p) <=> SizeQ(p) = 0)
    BY <2>2, SizeLemma
  <2>4. CASE EmptyQ(p)
    <3>1. IsQ(r) /\ r.max = m /\ SizeQ(r) = 0
      BY <2>1, <2>2, <2>3, <2>4
    <3> QED
      BY <2>1, <3>1 DEF r
  <2>5. CASE ~EmptyQ(p)
    <3>1. IsQ(r) /\ r.max = m /\ SizeQ(r) = SizeQ(p) - 1
      BY <2>1, <2>2, <2>5, PopLemma
    <3>2. (n + 1) + SizeQ(r) <= m - 1
      BY <1>1, <1>4, <2>2, <2>3, <2>5, <3>1
    <3> QED
      BY <2>1, <3>1, <3>2 DEF r
  <2> QED
    BY <2>4, <2>5
<1>5. m \in T
  <2> HIDE DEF T, m
  <2>1. 0 .. m \subseteq T
    BY <1>1, <1>3, <1>4, Induction
  <2> QED
    BY <1>1, <2>1
<1>6. Drained(q) = f[m]
  BY DEF Drained, Popped, OneLess, f
<1> HIDE DEF m
<1>7. IsQ(f[m]) /\ f[m].max = m /\ SizeQ(f[m]) \in 0 .. m - 1
      /\ (SizeQ(f[m]) = 0 \/ m + SizeQ(f[m]) <= m - 1)
  <2>1. Fine(m)
    BY <1>5
  <2> QED
    BY <2>1, SizeLemma
<1>8. SizeQ(f[m]) = 0
  BY <1>1, <1>7
<1>9. ContentsQ(f[m]) = <<>>
  BY <1>8 DEF ContentsQ
<1> QED
  BY <1>6, <1>7, <1>9

LEMMA ReachLemma ==
    ASSUME NEW s, KeepsNewest(s), Remembers(s), Reach(s)
    PROVE  KeepsNewest(Reached)' /\ Remembers(Reached)'
<1>1. /\ filter' = s.filter /\ ring' = s.ring /\ newest' = s.newest
      /\ s = Reaches(s.filter, s.ring, s.newest)
  BY DEF Reach, KeepsNewest
<1>2. Reached' = s
  BY <1>1 DEF Reached, Reaches
<1>3. KeepsNewest(Reached)'
  BY <1>1, <1>2 DEF KeepsNewest, Reaches
<1>4. Remembers(Reached)'
  BY <1>2 DEF Remembers, Filter
<1> QED
  BY <1>3, <1>4

LEMMA SinksInit_Inv == SinksInit => SinksInv
<1> SUFFICES ASSUME SinksInit PROVE SinksInv
  OBVIOUS
<1>1. PICK n \in RingSizes : ring = NewQ(n)
  BY DEF SinksInit
<1>2. IsQ(ring) /\ ContentsQ(ring) = <<>>
  BY <1>1, NewLemma, SinksAssumption
<1>3. /\ attached = 1 /\ newest = <<>> /\ tracer = [enabled |-> FALSE, q |-> DisabledQ]
      /\ filter = [time |-> -MaxSkip - 1, payload |-> Nothing, skips |-> 0]
  BY DEF SinksInit
<1>4. /\ Reached.filter = filter /\ Reached.ring = ring /\ Reached.newest = newest
      /\ Reached = Reaches(filter, ring, newest)
  BY DEF Reached, Reaches
<1>5. KeepsNewest(Reached)
  BY <1>2, <1>3, <1>4 DEF KeepsNewest
<1>6. Remembers(Reached)
  BY <1>3, <1>4 DEF Remembers, Filter
<1> QED
  BY <1>3, <1>5, <1>6 DEF SinksInv

LEMMA LogMessage_Inv ==
    ASSUME SinksInv, NEW p, NEW l, LogMessage(p, l) PROVE SinksInv'
<1> DEFINE m == Message(p, l, now)
           s == IF l >= level THEN SinkAll(Reached, <<m>>) ELSE Reached
<1>1. Reach(s) /\ attached' = attached
  BY DEF LogMessage
<1>2. KeepsNewest(s) /\ Remembers(s)
  <2>1. Len(<<m>>) \in Nat
    OBVIOUS
  <2> HIDE DEF m
  <2> QED
    BY <2>1, SinkAllLemma DEF SinksInv
<1> HIDE DEF s
<1>3. KeepsNewest(Reached)' /\ Remembers(Reached)'
  BY <1>1, <1>2, ReachLemma
<1>4. CASE tracer.enabled
  <2> DEFINE r == [enabled |-> tracer.enabled, q |-> tracer.q]
  <2>1. tracer = r /\ IsQ(tracer.q) /\ ContentsQ(tracer.q) = traced
    BY <1>4 DEF SinksInv
  <2>2. /\ tracer' = [tracer EXCEPT !.q = PushQ(tracer.q, m)]
        /\ traced' = LastOf(tracer.q.max - 1, Append(traced, m))
    BY <1>4 DEF LogMessage
  <2> HIDE DEF m
  <2>3. tracer' = [enabled |-> tracer.enabled, q |-> PushQ(tracer.q, m)]
    BY <2>1, <2>2
  <2>4. IsQ(PushQ(tracer.q, m)) /\ ContentsQ(PushQ(tracer.q, m)) = traced'
    BY <2>1, <2>2, NewestLemma
  <2> QED
    BY <1>1, <1>3, <2>3, <2>4 DEF SinksInv
<1>5. CASE ~tracer.enabled
  <2>1. tracer' = tracer /\ traced' = traced
    BY <1>5 DEF LogMessage
  <2> QED
    BY <1>1, <1>3, <1>5, <2>1 DEF SinksInv
<1> QED
  BY <1>4, <1>5

LEMMA DumpBacktrace_Inv ==
    ASSUME SinksInv, DumpBacktrace PROVE SinksInv'
<1> DEFINE first == Message("Backtrace Start", InfoLevel, now)
           last == Message("Backtrace End", InfoLevel, now)
           ms == <<first>> \o ContentsQ(tracer.q) \o <<last>>
<1>1. /\ Reach(SinkAll(Reached, ms)) /\ attached' = attached /\ tracer.enabled
      /\ tracer' = [tracer EXCEPT !.q = Drained(tracer.q)] /\ traced' = <<>>
  BY DEF DumpBacktrace
<1>2. /\ tracer = [enabled |-> tracer.enabled, q |-> tracer.q] /\ IsQ(tracer.q)
      /\ attached \in Nat /\ KeepsNewest(Reached) /\ Remembers(Reached)
  BY <1>1 DEF SinksInv
<1>3. Len(ms) \in Nat
  <2> HIDE DEF first, last
  <2>1. PICK S : ContentsQ(tracer.q) \in Seq(S)
    BY <1>2, ContentsIsSeq
  <2> DEFINE A == S \cup {first, last}
             c == ContentsQ(tracer.q)
  <2> HIDE DEF c
  <2>2. c \in Seq(A) /\ <<first>> \in Seq(A) /\ <<last>> \in Seq(A)
    BY <2>1 DEF c
  <2> HIDE DEF A
  <2>3. (<<first>> \o c) \o <<last>> \in Seq(A)
    BY <2>2, ConcatProperties
  <2> QED
    BY <2>3, LenProperties DEF c
<1> HIDE DEF ms
<1>4. KeepsNewest(Reached)' /\ Remembers(Reached)'
  BY <1>1, <1>2, <1>3, SinkAllLemma, ReachLemma
<1>5. IsQ(Drained(tracer.q)) /\ ContentsQ(Drained(tracer.q)) = <<>>
  BY <1>2, DrainedLemma
<1>6. tracer' = [enabled |-> tracer.enabled, q |-> Drained(tracer.q)]
  BY <1>1, <1>2
<1> QED
  BY <1>1, <1>2, <1>4, <1>5, <1>6 DEF SinksInv

LEMMA SinksNext_Inv == SinksInv /\ [SinksNext]_sinksVars => SinksInv'
<1> SUFFICES ASSUME SinksInv, [SinksNext]_sinksVars PROVE SinksInv'
  OBVIOUS
\* What a message reaches stays.
<1>1. ASSUME UNCHANGED <<filter, ring, newest>>
      PROVE  KeepsNewest(Reached)' /\ Remembers(Reached)'
  BY <1>1 DEF SinksInv, KeepsNewest, Remembers, Reached
<1>2. ASSUME NEW p \in Payloads, NEW l \in MsgLevels, LogMessage(p, l) PROVE SinksInv'
  BY <1>2, LogMessage_Inv
<1>3. CASE DumpBacktrace
  BY <1>3, DumpBacktrace_Inv
<1>4. ASSUME NEW n \in TraceSizes, EnableBacktrace(n) PROVE SinksInv'
  <2>1. /\ tracer' = [enabled |-> TRUE, q |-> NewQ(n)] /\ traced' = <<>> /\ attached' = attached
        /\ UNCHANGED <<filter, ring, newest>>
    BY <1>4 DEF EnableBacktrace
  <2>2. IsQ(NewQ(n)) /\ ContentsQ(NewQ(n)) = <<>>
    BY NewLemma, SinksAssumption
  <2> QED
    BY <1>1, <2>1, <2>2 DEF SinksInv
<1>5. CASE DisableBacktrace
  <2>1. /\ tracer' = [tracer EXCEPT !.enabled = FALSE] /\ attached' = attached
        /\ UNCHANGED <<filter, ring, newest>>
    BY <1>5 DEF DisableBacktrace
  <2>2. tracer' = [enabled |-> FALSE, q |-> tracer.q]
    BY <2>1 DEF SinksInv
  <2> QED
    BY <1>1, <2>1, <2>2 DEF SinksInv
<1>6. CASE AddSink \/ RemoveSink
  <2>1. attached' \in Nat /\ UNCHANGED <<tracer, traced, filter, ring, newest>>
    BY <1>6 DEF AddSink, RemoveSink, SinksInv
  <2> QED
    BY <1>1, <2>1 DEF SinksInv
<1>7. ASSUME NEW t \in 0 .. MaxTime, Clock(t) PROVE SinksInv'
  BY <1>1, <1>7 DEF Clock, SinksInv
<1>8. CASE UNCHANGED sinksVars
  BY <1>1, <1>8 DEF sinksVars, SinksInv
<1> QED
  BY <1>2, <1>3, <1>4, <1>5, <1>6, <1>7, <1>8 DEF SinksNext

\* NewestKept of a logger with its backtrace, the filter and the ring buffer, for
\* every size of the rings, every order of calls and every clock: neither queue
\* loses one of the newest or keeps an older.
THEOREM RingsKeepNewest == SinksSpec => []NewestKept
<1>1. SinksInv => NewestKept
  <2> SUFFICES ASSUME SinksInv PROVE NewestKept
    OBVIOUS
  <2>1. Reached.ring = ring /\ Reached.newest = newest /\ Reached.filter = filter
    BY DEF Reached
  <2> QED
    BY <2>1 DEF SinksInv, KeepsNewest, Remembers, NewestKept
<1> QED
  BY <1>1, SinksInit_Inv, SinksNext_Inv, PTL DEF SinksSpec

-----------------------------------------------------------------------------
(* Days.                                                                   *)

\* k days after the first, at the time of rotation.
At(k) == k * TicksPerDay + rotation

LEMMA DayLemma ==
    ASSUME NEW t \in Nat
    PROVE  /\ Day(t) \in Nat
           /\ \A k \in Nat : k * TicksPerDay <= t <=> k <= Day(t)
<1>1. TicksPerDay \in Nat \ {0}
  BY DailyAssumption
<1>2. /\ Day(t) \in Nat /\ Day(t) * TicksPerDay <= t
      /\ t < Day(t) * TicksPerDay + TicksPerDay
  BY <1>1 DEF Day
<1>3. ASSUME NEW k \in Nat, NEW d \in Nat, d * TicksPerDay <= t,
             t < d * TicksPerDay + TicksPerDay
      PROVE  k * TicksPerDay <= t <=> k <= d
  BY <1>1, <1>3
<1> QED
  BY <1>2, <1>3

\* When a file is opened, the next rotation is after now.
LEMMA NextRotationLemma ==
    ASSUME clock \in Nat, rotation \in 0 .. TicksPerDay - 1
    PROVE  \E k \in Nat : NextRotation = At(k) /\ clock < At(k)
<1>1. TicksPerDay \in Nat \ {0}
  BY DailyAssumption
<1>2. /\ Day(clock) \in Nat /\ Day(clock) * TicksPerDay <= clock
      /\ clock < Day(clock) * TicksPerDay + TicksPerDay
  BY <1>1 DEF Day
<1>3. (Day(clock) + 1) * TicksPerDay = Day(clock) * TicksPerDay + TicksPerDay
  BY <1>1, <1>2
<1>4. CASE Day(clock) * TicksPerDay + rotation > clock
  BY <1>2, <1>4 DEF NextRotation, At
<1>5. CASE ~(Day(clock) * TicksPerDay + rotation > clock)
  <2>1. NextRotation = At(Day(clock) + 1)
    BY <1>1, <1>2, <1>3, <1>5 DEF NextRotation, At
  <2>2. clock < At(Day(clock) + 1)
    BY <1>1, <1>2, <1>3 DEF At
  <2> QED
    BY <1>2, <2>1, <2>2
<1> QED
  BY <1>4, <1>5

-----------------------------------------------------------------------------
(* The files of a sink.                                                    *)

Files == ContentsQ(daily.q)

\* The queue is that of the sink, and every name in it is of a day before that of
\* the next rotation; only the newest can be of the same day, and only if the
\* rotation is not at midnight.
QueueInv(k) ==
    /\ IsQ(daily.q) /\ daily.q.max = max_files + 1
    /\ k \in Nat /\ daily.rotation_tp = At(k)
    /\ \A i \in 1 .. SizeQ(daily.q) :
          /\ Files[i] \in Nat /\ Files[i] <= k
          /\ i < SizeQ(daily.q) \/ rotation = 0 => Files[i] < k

DailyTypes ==
    /\ clock \in Nat /\ max_files \in Nat \ {0} /\ rotation \in 0 .. TicksPerDay - 1
    /\ daily = [alive |-> daily.alive, file |-> daily.file,
                rotation_tp |-> daily.rotation_tp, q |-> daily.q]

\* As long as nothing fails, what the sink knows of and is on disk is queued.
SinkInv ==
    /\ \E k : QueueInv(k)
    /\ known \cap onDisk \subseteq {Files[i] : i \in 1 .. SizeQ(daily.q)}
    /\ daily.file \in onDisk \/ (max_files = 1 /\ rotation # 0)

DailyInv == DailyTypes /\ (daily.alive /\ faultless => SinkInv)

LEMMA DailyInit_Inv == DailyInit => DailyInv
  BY DailyAssumption DEF DailyInit, DailyInv, DailyTypes, NoSink

\* The sink that is made.
LEMMA ConstructDaily_Inv == ASSUME DailyInv, ConstructDaily PROVE DailyInv'
<1> DEFINE disk == onDisk \cup {Day(clock)}
           days == {d \in 0 .. Day(clock) : d > Day(clock) - max_files /\ d .. Day(clock) \subseteq disk}
           names == FoundFiles(disk)
           n == Cardinality(days)
           D == Day(clock)
<1>1. /\ clock \in Nat /\ max_files \in Nat \ {0} /\ rotation \in 0 .. TicksPerDay - 1
      /\ D \in Nat /\ TicksPerDay \in Nat \ {0}
  BY DayLemma, DailyAssumption DEF DailyInv, DailyTypes
<1>2. /\ onDisk' = disk /\ UNCHANGED <<clock, max_files, rotation, faultless>>
      /\ daily' = [alive |-> TRUE, file |-> D, rotation_tp |-> NextRotation, q |-> Queue(names)]
      /\ known' = {names[i] : i \in DOMAIN names}
  BY DEF ConstructDaily
<1>3. n \in Nat /\ n <= max_files /\ n <= D + 1 /\ names = [i \in 1 .. n |-> D - n + i]
  <2> DEFINE low == D - max_files + 1
  <2>1. low \in Int /\ low <= D /\ D - low + 1 = max_files /\ D \in Int /\ 0 \in Int
    BY <1>1
  <2>2. days \in SUBSET (low .. D) /\ days \in SUBSET (0 .. D)
    BY <1>1
  <2> HIDE DEF low, D, days
  <2>3. IsFiniteSet(low .. D) /\ Cardinality(low .. D) = max_files
    BY <2>1, FS_Interval
  <2>4. IsFiniteSet(0 .. D) /\ Cardinality(0 .. D) = D + 1
    BY <1>1, FS_Interval
  <2>5. IsFiniteSet(days) /\ Cardinality(days) <= max_files
    BY <2>2, <2>3, FS_Subset
  <2>6. Cardinality(days) <= D + 1
    BY <2>2, <2>4, FS_Subset
  <2>7. names = [i \in 1 .. n |-> D - n + i]
    BY DEF FoundFiles, days, D
  <2> QED
    BY <2>5, <2>6, <2>7, FS_CardinalityType
<1> HIDE DEF n, names, disk, D
<1>4. Len(names) = n /\ DOMAIN names = 1 .. n /\ \A i \in 1 .. n : names[i] = D - n + i
  BY <1>3
<1> DEFINE q == Queue(names)
<1>5. /\ q = [max |-> max_files + 1, head |-> 0, tail |-> n,
              v |-> [i \in 0 .. max_files |-> IF i < n THEN names[i + 1] ELSE Nothing]]
      /\ q.max = max_files + 1 /\ q.head = 0 /\ q.tail = n
      /\ q.v = [i \in 0 .. max_files |-> IF i < n THEN names[i + 1] ELSE Nothing]
  BY <1>4 DEF Queue
<1> HIDE DEF q
<1>6. IsQ(q) /\ SizeQ(q) = n
  <2>1. (max_files + 1) - 1 = max_files
    BY <1>1
  <2>2. q.v = [i \in 0 .. max_files |-> q.v[i]]
    BY <1>5
  <2> QED
    BY <1>1, <1>3, <1>5, <2>1, <2>2 DEF IsQ, SizeQ
<1>7. ASSUME NEW i \in 1 .. n PROVE ContentsQ(q)[i] = D - n + i
  <2>1. Round(q.max, q.head + (i - 1)) = i - 1 /\ i - 1 \in 0 .. max_files /\ i - 1 < n /\ (i - 1) + 1 = i
    BY <1>1, <1>3, <1>5 DEF Round
  <2>2. q.v[i - 1] = names[i]
    BY <1>5, <2>1
  <2> QED
    BY <1>4, <1>6, <2>1, <2>2, ContentsLemma
<1>8. PICK k \in Nat : NextRotation = At(k) /\ clock < At(k)
  BY <1>1, NextRotationLemma
<1>9. D <= k /\ (rotation = 0 => D < k)
  <2>1. D * TicksPerDay <= clock
    BY <1>1, DayLemma DEF D
  <2>2. D * TicksPerDay < k * TicksPerDay + rotation
    BY <1>1, <1>8, <2>1 DEF At
  <2> QED
    BY <1>1, <2>2
<1>10. daily'.q = q /\ daily'.file = D /\ daily'.rotation_tp = At(k)
  BY <1>2, <1>8 DEF q
<1>11. QueueInv(k)'
  <2>1. ASSUME NEW i \in 1 .. n
        PROVE  /\ ContentsQ(q)[i] \in Nat /\ ContentsQ(q)[i] <= k
               /\ i < n \/ rotation = 0 => ContentsQ(q)[i] < k
    BY <1>1, <1>3, <1>7, <1>9
  <2> QED
    BY <1>2, <1>5, <1>6, <1>8, <1>10, <2>1 DEF QueueInv, At, Files
<1>12. known' \subseteq {ContentsQ(q)[i] : i \in 1 .. SizeQ(q)}
  BY <1>2, <1>4, <1>6, <1>7
<1>13. D \in onDisk'
  BY <1>2 DEF disk, D
<1>14. SinkInv'
  BY <1>10, <1>11, <1>12, <1>13 DEF SinkInv, Files
<1>15. DailyTypes'
  BY <1>1, <1>2 DEF DailyTypes
<1> QED
  BY <1>14, <1>15 DEF DailyInv

\* The file of a message made at t, and the oldest file if there are too many.
LEMMA Rotated ==
    ASSUME DailyInv, daily.alive, faultless, NEW t \in 0 .. clock, t >= daily.rotation_tp,
           NEW lq, NEW ldisk,
           DeleteOld(daily.q, Day(t), onDisk \cup {Day(t)}, TRUE).q = lq,
           DeleteOld(daily.q, Day(t), onDisk \cup {Day(t)}, TRUE).disk = ldisk,
           onDisk' = ldisk, known' = known \cup {Day(t)},
           daily' = [daily EXCEPT !.file = Day(t), !.rotation_tp = NextRotation, !.q = lq],
           UNCHANGED <<clock, max_files, rotation>>
    PROVE  SinkInv' /\ DailyTypes'
<1> DEFINE q == daily.q
           n == SizeQ(q)
           D == Day(t)
<1>1. /\ clock \in Nat /\ max_files \in Nat \ {0} /\ rotation \in 0 .. TicksPerDay - 1
      /\ t \in Nat /\ t <= clock /\ D \in Nat /\ TicksPerDay \in Nat \ {0}
  BY DayLemma, DailyAssumption DEF DailyInv, DailyTypes
<1>2. PICK k \in Nat : QueueInv(k)
  BY DEF DailyInv, SinkInv, QueueInv
<1>3. /\ IsQ(q) /\ q.max = max_files + 1 /\ At(k) <= t
      /\ \A i \in 1 .. n : /\ ContentsQ(q)[i] \in Nat /\ ContentsQ(q)[i] <= k
                           /\ i < n \/ rotation = 0 => ContentsQ(q)[i] < k
      /\ known \cap onDisk \subseteq {ContentsQ(q)[i] : i \in 1 .. n}
  BY <1>2 DEF QueueInv, Files, DailyInv, SinkInv
<1>4. PICK l \in Nat : NextRotation = At(l) /\ clock < At(l)
  BY <1>1, NextRotationLemma
<1>5. k < l /\ k <= D
  <2>1. k * TicksPerDay + rotation < l * TicksPerDay + rotation /\ k * TicksPerDay <= t
    BY <1>1, <1>3, <1>4 DEF At
  <2>2. k < l
    BY <1>1, <2>1
  <2> QED
    BY <1>1, <2>1, <2>2, DayLemma
<1>6. D <= l /\ (rotation = 0 => D < l)
  <2>1. D * TicksPerDay <= t
    BY <1>1, DayLemma
  <2>2. D * TicksPerDay < l * TicksPerDay + rotation
    BY <1>1, <1>4, <2>1 DEF At
  <2> HIDE DEF D
  <2> QED
    BY <1>1, <2>2
<1>7. /\ daily' = [alive |-> daily.alive, file |-> D, rotation_tp |-> At(l), q |-> lq]
      /\ daily'.file = D /\ daily'.rotation_tp = At(l) /\ daily'.q = lq
  <2> DEFINE r == [alive |-> daily.alive, file |-> daily.file,
                   rotation_tp |-> daily.rotation_tp, q |-> daily.q]
  <2>1. daily = r
    BY DEF DailyInv, DailyTypes
  <2>2. daily' = [r EXCEPT !.file = D, !.rotation_tp = At(l), !.q = lq]
    BY <1>4, <2>1
  <2> QED
    BY <2>2
<1>8. n \in 0 .. max_files /\ (FullQ(q) <=> n = max_files) /\ (EmptyQ(q) <=> n = 0)
  BY <1>1, <1>3, SizeLemma
<1>0. /\ FullQ(q) => lq = PushQ(PopQ(q), D) /\ ldisk = (onDisk \cup {D}) \ {FrontQ(q)}
      /\ ~FullQ(q) => lq = PushQ(q, D) /\ ldisk = onDisk \cup {D}
  <2> DEFINE opened == onDisk \cup {D}
  <2> HIDE DEF q, D, n, opened
  <2>1. DeleteOld(q, D, opened, TRUE).q = lq
    BY DEF q, D, opened
  <2>2. DeleteOld(q, D, opened, TRUE).disk = ldisk
    BY DEF q, D, opened
  <2>3. /\ FullQ(q) => /\ DeleteOld(q, D, opened, TRUE).q = PushQ(PopQ(q), D)
                       /\ DeleteOld(q, D, opened, TRUE).disk = opened \ {FrontQ(q)}
        /\ ~FullQ(q) => /\ DeleteOld(q, D, opened, TRUE).q = PushQ(q, D)
                        /\ DeleteOld(q, D, opened, TRUE).disk = opened
    BY DEF DeleteOld
  <2> QED
    BY <2>1, <2>2, <2>3 DEF opened
<1> HIDE DEF q, D, n
\* It is enough to say what the queue and the disk are afterwards.
<1>9. ASSUME NEW m \in Nat, IsQ(lq), lq.max = q.max, SizeQ(lq) = m + 1,
             \A i \in 1 .. m : \E j \in 1 .. n : ContentsQ(lq)[i] = ContentsQ(q)[j],
             ContentsQ(lq)[m + 1] = D,
             \A d \in known' \cap onDisk' : d = D \/ \E i \in 1 .. m : ContentsQ(lq)[i] = d,
             D \in onDisk' \/ (max_files = 1 /\ rotation # 0)
      PROVE  SinkInv' /\ DailyTypes'
  <2>1. \A i \in 1 .. m + 1 : i \in 1 .. m \/ i = m + 1
    BY <1>9
  <2>2. ASSUME NEW i \in 1 .. m + 1
        PROVE  /\ ContentsQ(lq)[i] \in Nat /\ ContentsQ(lq)[i] <= l
               /\ i < m + 1 \/ rotation = 0 => ContentsQ(lq)[i] < l
    <3>1. CASE i \in 1 .. m
      <4>1. PICK j \in 1 .. n : ContentsQ(lq)[i] = ContentsQ(q)[j]
        BY <1>9, <3>1
      <4> QED
        BY <1>3, <1>5, <4>1
    <3>2. CASE i = m + 1
      BY <1>1, <1>6, <1>9, <3>2
    <3> QED
      BY <2>1, <3>1, <3>2
  <2>3. QueueInv(l)'
    BY <1>3, <1>7, <1>9, <2>2 DEF QueueInv, At, Files
  <2>4. known' \cap onDisk' \subseteq {ContentsQ(lq)[i] : i \in 1 .. SizeQ(lq)}
    <3>1. 1 .. m \subseteq 1 .. SizeQ(lq) /\ m + 1 \in 1 .. SizeQ(lq)
      BY <1>9
    <3> QED
      BY <1>9, <3>1
  <2>5. SinkInv'
    BY <1>7, <1>9, <2>3, <2>4 DEF SinkInv, Files
  <2> QED
    BY <1>1, <1>7, <2>5 DEF DailyTypes, DailyInv
<1>10. CASE ~FullQ(q)
  <2>1. lq = PushQ(q, D) /\ ldisk = onDisk \cup {D}
    BY <1>0, <1>10
  <2>2. /\ IsQ(lq) /\ lq.max = q.max /\ SizeQ(lq) = n + 1
        /\ \A i \in 1 .. n : ContentsQ(lq)[i] = ContentsQ(q)[i]
        /\ ContentsQ(lq)[n + 1] = D
    BY <1>3, <1>10, <2>1, PushLemma DEF n
  <2>3. \A d \in known' \cap onDisk' : d = D \/ \E i \in 1 .. n : ContentsQ(lq)[i] = d
    BY <1>3, <2>1, <2>2 DEF D
  <2>4. D \in onDisk' /\ n \in Nat
    BY <1>8, <2>1
  <2> QED
    BY <1>9, <2>2, <2>3, <2>4
<1>11. CASE FullQ(q)
  <2> DEFINE p == PopQ(q)
  <2>1. lq = PushQ(PopQ(q), D) /\ ldisk = (onDisk \cup {D}) \ {FrontQ(q)}
    BY <1>0, <1>11
  <2>2. n = max_files /\ n # 0 /\ ~EmptyQ(q)
    BY <1>1, <1>8, <1>11
  <2>3. /\ IsQ(p) /\ p.max = q.max /\ SizeQ(p) = n - 1 /\ FrontQ(q) = ContentsQ(q)[1]
        /\ \A i \in 1 .. n - 1 : ContentsQ(p)[i] = ContentsQ(q)[i + 1]
    BY <1>3, <2>2, PopLemma DEF n
  <2> HIDE DEF p
  <2>4. ~FullQ(p)
    BY <1>1, <1>3, <1>8, <2>2, <2>3, SizeLemma
  <2>5. /\ IsQ(lq) /\ lq.max = p.max /\ SizeQ(lq) = (n - 1) + 1
        /\ \A i \in 1 .. n - 1 : ContentsQ(lq)[i] = ContentsQ(p)[i]
        /\ ContentsQ(lq)[(n - 1) + 1] = D
    BY <2>1, <2>3, <2>4, PushLemma DEF p
  <2>6. \A i \in 1 .. n - 1 : i + 1 \in 1 .. n /\ ContentsQ(lq)[i] = ContentsQ(q)[i + 1]
    BY <1>8, <2>3, <2>5
  <2>7. ASSUME NEW d \in known' \cap onDisk', d # D
        PROVE  \E i \in 1 .. n - 1 : ContentsQ(lq)[i] = d
    <3>1. d \in known \cap onDisk /\ d # ContentsQ(q)[1]
      BY <2>1, <2>3, <2>7 DEF D
    <3>2. PICK j \in 1 .. n : ContentsQ(q)[j] = d
      BY <1>3, <3>1
    <3>3. j # 1 /\ j - 1 \in 1 .. n - 1 /\ (j - 1) + 1 = j
      BY <1>8, <3>1, <3>2
    <3> QED
      BY <2>6, <3>2, <3>3
  <2>8. D \in onDisk' \/ (max_files = 1 /\ rotation # 0)
    <3>1. CASE max_files = 1 /\ rotation # 0
      BY <3>1
    <3>2. CASE ~(max_files = 1 /\ rotation # 0)
      <4>1. 1 \in 1 .. n /\ (1 < n \/ rotation = 0)
        BY <1>1, <1>8, <2>2, <3>2
      <4>2. ContentsQ(q)[1] < k /\ ContentsQ(q)[1] \in Nat
        BY <1>3, <4>1
      <4>3. FrontQ(q) # D
        BY <1>1, <1>5, <2>3, <4>2
      <4> QED
        BY <2>1, <4>3
    <3> QED
      BY <3>1, <3>2
  <2>9. n - 1 \in Nat
    BY <1>8, <2>2
  <2> QED
    BY <1>9, <2>3, <2>5, <2>6, <2>7, <2>8, <2>9
<1> QED
  BY <1>10, <1>11

LEMMA SinkDaily_Inv ==
    ASSUME DailyInv, NEW t \in 0 .. clock, SinkDaily(t) PROVE DailyInv'
<1>1. CASE t < daily.rotation_tp
  <2>1. UNCHANGED <<clock, onDisk, max_files, rotation, daily, known, faultless>>
    BY <1>1 DEF SinkDaily
  <2> QED
    BY <2>1 DEF DailyInv, DailyTypes, SinkInv, QueueInv, At, Files
<1>2. CASE ~(t < daily.rotation_tp)
  <2>1. CASE faultless'
    <3>1. /\ faultless /\ daily.alive
          /\ LET opened == onDisk \cup {Day(t)}
                 left == DeleteOld(daily.q, Day(t), opened, TRUE)
             IN  /\ onDisk' = left.disk
                 /\ daily' = [daily EXCEPT !.file = Day(t), !.rotation_tp = NextRotation, !.q = left.q]
          /\ known' = known \cup {Day(t)} /\ UNCHANGED <<clock, max_files, rotation>>
      BY <1>2, <2>1 DEF SinkDaily
    <3>2. t >= daily.rotation_tp
      <4>1. clock \in Nat /\ rotation \in Nat /\ TicksPerDay \in Nat
        BY DailyAssumption DEF DailyInv, DailyTypes
      <4>2. daily.rotation_tp \in Nat
        BY <3>1, <4>1 DEF DailyInv, SinkInv, QueueInv, At
      <4> QED
        BY <1>2, <4>1, <4>2
    <3> DEFINE left == DeleteOld(daily.q, Day(t), onDisk \cup {Day(t)}, TRUE)
    <3> HIDE DEF left
    <3>4. /\ onDisk' = left.disk
          /\ daily' = [daily EXCEPT !.file = Day(t), !.rotation_tp = NextRotation, !.q = left.q]
      BY <3>1 DEF left
    <3>5. SinkInv' /\ DailyTypes'
      BY <3>1, <3>2, <3>4, Rotated DEF left
    <3> QED
      BY <3>5 DEF DailyInv
  <2>2. CASE ~faultless'
    <3> DEFINE r == [alive |-> daily.alive, file |-> daily.file,
                     rotation_tp |-> daily.rotation_tp, q |-> daily.q]
    <3>1. daily = r
      BY DEF DailyInv, DailyTypes
    <3>2. \/ daily' = [r EXCEPT !.file = Day(t)]
          \/ \E q : daily' = [r EXCEPT !.file = Day(t), !.rotation_tp = NextRotation, !.q = q]
      BY <1>2, <3>1 DEF SinkDaily
    <3>3. daily' = [alive |-> daily'.alive, file |-> daily'.file,
                    rotation_tp |-> daily'.rotation_tp, q |-> daily'.q]
      BY <3>2
    <3>4. UNCHANGED <<clock, max_files, rotation>>
      BY DEF SinkDaily
    <3> QED
      BY <2>2, <3>3, <3>4 DEF DailyInv, DailyTypes
  <2> QED
    BY <2>1, <2>2
<1> QED
  BY <1>1, <1>2

LEMMA DailyNext_Inv == DailyInv /\ [DailyNext]_dailyVars => DailyInv'
<1> SUFFICES ASSUME DailyInv, [DailyNext]_dailyVars PROVE DailyInv'
  OBVIOUS
<1>1. CASE ConstructDaily
  BY <1>1, ConstructDaily_Inv
<1>2. CASE DestroyDaily
  <2>1. /\ daily' = [alive |-> FALSE, file |-> Nothing, rotation_tp |-> 0, q |-> DisabledQ]
        /\ UNCHANGED <<clock, max_files, rotation>>
    BY <1>2 DEF DestroyDaily, NoSink
  <2> QED
    BY <2>1 DEF DailyInv, DailyTypes
<1>3. CASE Later
  <2>1. clock' = clock + 1 /\ UNCHANGED <<onDisk, max_files, rotation, daily, known, faultless>>
    BY <1>3 DEF Later
  <2> QED
    BY <2>1 DEF DailyInv, DailyTypes, SinkInv, QueueInv, At, Files
<1>4. ASSUME NEW t \in clock - MaxDelay .. clock, t >= 0, SinkDaily(t) PROVE DailyInv'
  <2>1. t \in 0 .. clock
    BY <1>4, DailyAssumption DEF DailyInv, DailyTypes
  <2> QED
    BY <1>4, <2>1, SinkDaily_Inv
<1>5. CASE UNCHANGED dailyVars
  BY <1>5 DEF dailyVars, DailyInv, DailyTypes, SinkInv, QueueInv, At, Files
<1> QED
  BY <1>1, <1>2, <1>3, <1>4, <1>5 DEF DailyNext

LEMMA DailyInv_Retains == DailyInv => RetainsNewest
<1> SUFFICES ASSUME DailyInv, daily.alive, faultless
             PROVE  /\ Cardinality(known \cap onDisk) <= max_files
                    /\ daily.file \in onDisk \/ (max_files = 1 /\ rotation # 0)
  BY DEF RetainsNewest
<1> DEFINE n == SizeQ(daily.q)
           names == {Files[i] : i \in 1 .. n}
<1>1. /\ max_files \in Nat \ {0} /\ IsQ(daily.q) /\ daily.q.max = max_files + 1
      /\ known \cap onDisk \subseteq names
      /\ daily.file \in onDisk \/ (max_files = 1 /\ rotation # 0)
  BY DEF DailyInv, DailyTypes, SinkInv, QueueInv
<1>2. n \in 0 .. max_files
  BY <1>1, SizeLemma
<1> HIDE DEF n
<1>3. IsFiniteSet(1 .. n) /\ Cardinality(1 .. n) = n
  BY <1>2, FS_Interval
<1>4. IsFiniteSet(names) /\ Cardinality(names) <= n
  <2> DEFINE f == [i \in 1 .. n |-> Files[i]]
  <2>1. f \in Surjection(1 .. n, names)
    BY DEF Surjection
  <2> HIDE DEF f, names
  <2> QED
    BY <1>3, <2>1, FS_Surjection
<1>5. Cardinality(known \cap onDisk) <= Cardinality(names) /\ IsFiniteSet(known \cap onDisk)
  BY <1>1, <1>4, FS_Subset
<1> QED
  BY <1>1, <1>2, <1>4, <1>5, FS_CardinalityType

\* RetainsNewest of the program's daily files, for every length of the day, time of
\* rotation, number of files, delay of messages and every order of restarts.
THEOREM NewestDaysRetained == DailySpec => []RetainsNewest
<1>1. DailyInit => DailyInv
  BY DailyInit_Inv
<1>2. DailyInv /\ [DailyNext]_dailyVars => DailyInv'
  BY DailyNext_Inv
<1>3. DailyInv => RetainsNewest
  BY DailyInv_Retains
<1> QED
  BY <1>1, <1>2, <1>3, PTL DEF DailySpec

=============================================================================
