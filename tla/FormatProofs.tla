---------------------------- MODULE FormatProofs ----------------------------
(***************************************************************************)
(* How a message gets its text and keeps it: the arguments of a format     *)
(* string, for every store of arguments, and the buffers of the messages   *)
(* in a queue, for every size of the queue, of the store inside a buffer   *)
(* and of the messages.                                                    *)
(*                                                                         *)
(* Both models run loops over functions.  Loops are recursive functions;   *)
(* LoopLemma says what they are, and Induction does the rest.              *)
(***************************************************************************)
EXTENDS FmtArgs, FmtFormat, LogMsgBuffer, SequenceTheorems, WellFoundedInduction, FiniteSetTheorems, TLAPS

-----------------------------------------------------------------------------
(* Induction, and loops: functions defined by recursion on a number.       *)

\* A set of numbers has a least one.
LEMMA LeastNumber ==
    ASSUME NEW T \in SUBSET Nat, T # {}
    PROVE  \E x \in T : \A y \in T : x <= y
<1>1. \E x \in T : \A y \in T : ~(<<y, x>> \in OpToRel(<, Nat))
  BY NatLessThanWellFounded, WFMin
<1>2. PICK x \in T : \A y \in T : ~(<<y, x>> \in OpToRel(<, Nat))
  BY <1>1
<1>3. ASSUME NEW y \in T PROVE ~(y < x)
  BY <1>2 DEF OpToRel
<1> QED
  BY <1>3

\* Induction, over a set of numbers.
LEMMA Induction ==
    ASSUME NEW m \in Nat, NEW T, 0 \in T, \A n \in T : n \in 0 .. m - 1 => n + 1 \in T
    PROVE  0 .. m \subseteq T
<1> DEFINE U == {n \in 0 .. m : n \notin T}
<1> SUFFICES ASSUME U # {} PROVE FALSE
  OBVIOUS
<1>1. U \in SUBSET Nat
  OBVIOUS
<1>2. PICK n \in U : \A k \in U : n <= k
  BY <1>1, LeastNumber
<1>3. n # 0 /\ n \in 0 .. m /\ n \notin T
  BY <1>2
<1>4. n - 1 \in 0 .. m - 1 /\ (n - 1) + 1 = n
  BY <1>3
<1>5. n - 1 \in T
  <2> SUFFICES ASSUME n - 1 \notin T PROVE FALSE
    OBVIOUS
  <2>1. n - 1 \in U
    BY <1>4
  <2> QED
    BY <1>2, <1>3, <2>1
<1> QED
  BY <1>3, <1>4, <1>5

\* A loop of m rounds: the nth goes from x to round[<<n, x>>].
Loop(s, m, round) ==
    CHOOSE f : f = [n \in 0 .. m |-> IF n = 0 THEN s ELSE round[<<n, f[n - 1]>>]]

LEMMA LoopLemma ==
    ASSUME NEW S, NEW s \in S, NEW m \in Nat, NEW round \in [(1 .. m) \X S -> S]
    PROVE  LET f == Loop(s, m, round)
           IN  /\ f = [n \in 0 .. m |-> IF n = 0 THEN s ELSE round[<<n, f[n - 1]>>]]
               /\ f \in [0 .. m -> S]
<1> DEFINE Is(f, k) == /\ f = [n \in 0 .. k |-> IF n = 0 THEN s ELSE round[<<n, f[n - 1]>>]]
                       /\ f \in [0 .. k -> S]
           T == {k \in 0 .. m : \E f : Is(f, k)}
<1>1. 0 \in T
  <2>1. Is([n \in 0 .. 0 |-> s], 0)
    OBVIOUS
  <2>2. \E f : Is(f, 0)
    <3> WITNESS [n \in 0 .. 0 |-> s]
    <3> QED
      BY <2>1
  <2> QED
    BY <2>2
<1>2. ASSUME NEW k \in T, k \in 0 .. m - 1 PROVE k + 1 \in T
  <2>1. PICK f : Is(f, k)
    OBVIOUS
  <2> DEFINE g == [n \in 0 .. k + 1 |-> IF n \in 0 .. k THEN f[n] ELSE round[<<k + 1, f[k]>>]]
  <2>2. k + 1 \in 1 .. m /\ f[k] \in S
    BY <1>2, <2>1
  <2>3. round[<<k + 1, f[k]>>] \in S
    BY <2>2
  <2>4. ASSUME NEW n \in 0 .. k + 1
        PROVE  g[n] \in S /\ g[n] = IF n = 0 THEN s ELSE round[<<n, g[n - 1]>>]
    <3>1. CASE n \in 0 .. k
      <4>1. g[n] = f[n] /\ (n # 0 => n - 1 \in 0 .. k /\ g[n - 1] = f[n - 1])
        BY <3>1
      <4>2. f[n] \in S /\ f[n] = IF n = 0 THEN s ELSE round[<<n, f[n - 1]>>]
        BY <2>1, <3>1
      <4> QED
        BY <4>1, <4>2
    <3>2. CASE n = k + 1
      <4>1. n - 1 = k /\ n # 0 /\ n \notin 0 .. k /\ k \in 0 .. k /\ n - 1 \in 0 .. k + 1
        BY <1>2, <3>2
      <4>2. g[n] = round[<<n, f[k]>>] /\ g[n - 1] = f[k]
        BY <3>2, <4>1
      <4> QED
        BY <2>3, <3>2, <4>1, <4>2
    <3> QED
      BY <3>1, <3>2
  <2>5. Is(g, k + 1)
    BY <2>4
  <2>6. k + 1 \in 0 .. m
    BY <1>2
  <2> QED
    BY <2>5, <2>6
<1>3. 0 .. m \subseteq T
  <2> HIDE DEF T
  <2> QED
    BY <1>1, <1>2, Induction
<1>4. PICK f : Is(f, m)
  BY <1>3
<1>5. ASSUME NEW g, g = [n \in 0 .. m |-> IF n = 0 THEN s ELSE round[<<n, g[n - 1]>>]]
      PROVE  g \in [0 .. m -> S]
  <2> DEFINE U == {n \in 0 .. m : g[n] \in S}
  <2>1. 0 \in U
    BY <1>5
  <2>2. ASSUME NEW n \in U, n \in 0 .. m - 1 PROVE n + 1 \in U
    <3>1. n + 1 \in 1 .. m /\ (n + 1) - 1 = n /\ n + 1 # 0
      BY <2>2
    <3>2. g[n + 1] = round[<<n + 1, g[n]>>]
      BY <1>5, <3>1
    <3> QED
      BY <3>1, <3>2
  <2>3. 0 .. m \subseteq U
    <3> HIDE DEF U
    <3> QED
      BY <2>1, <2>2, Induction
  <2> QED
    BY <1>5, <2>3
<1>6. Loop(s, m, round) = [n \in 0 .. m |-> IF n = 0 THEN s ELSE round[<<n, Loop(s, m, round)[n - 1]>>]]
  BY <1>4 DEF Loop
<1> QED
  BY <1>5, <1>6

-----------------------------------------------------------------------------
(* Arguments: the dynamic store, and what its views find.                  *)

Gifts == [how : {"value", "var"}, what : Texts \cup CallerVars, name : ArgNames \cup {NoName}]
Infos == [name : ArgNames, id : Nat]
Entries == [how : {"value", "var", "node", "names"}, what : Texts \cup CallerVars \cup Nat]

ArgTypes ==
    /\ given \in Seq(Gifts) /\ dynamic_args_ \in Seq(Texts)
    /\ data_ \in Seq(Entries)
    /\ named_info_ \in Seq(Infos) /\ spoiled \in BOOLEAN
    /\ named_info_ # <<>> => data_ # <<>>

\* An entry of the store is the argument that was given, perhaps in a node.
Same(entry, g, nodes) ==
    \/ entry = Entry(g.how, g.what)
    \/ /\ g.how = "value" /\ entry.how = "node" /\ entry.what \in DOMAIN nodes
       /\ nodes[entry.what] = g.what

\* The entries, behind that of the table if there is one, are the arguments.
Placed(entries, gifts, nodes, shift) ==
    /\ Len(entries) = Len(gifts) + shift
    /\ \A i \in DOMAIN gifts : Same(entries[i + shift], gifts[i], nodes)

\* A table has the names of the first n arguments, in order.
Table(names, gifts, n) ==
    /\ names \in Seq(Infos)
    /\ \A k \in DOMAIN names :
          names[k].id \in 0 .. n - 1 /\ gifts[names[k].id + 1].name = names[k].name
    /\ \A k, l \in DOMAIN names : k < l => names[k].id < names[l].id
    /\ \A i \in 1 .. n : gifts[i].name # NoName => \E k \in DOMAIN names : names[k].id = i - 1

Shift == IF named_info_ = <<>> THEN 0 ELSE 1

\* As long as no name was lost, every argument is in its place.
ArgsInv ==
    /\ ArgTypes
    /\ ~spoiled =>
          /\ Placed(data_, given, dynamic_args_, Shift)
          /\ Table(named_info_, given, Len(given))

\* One more argument: the table stays, or gets its name.
LEMMA TableLemma ==
    ASSUME NEW gifts \in Seq(Gifts), NEW n \in Nat, NEW names, Table(names, gifts, n), n < Len(gifts)
    PROVE  /\ gifts[n + 1].name = NoName => Table(names, gifts, n + 1)
           /\ gifts[n + 1].name # NoName =>
                 Table(Append(names, [name |-> gifts[n + 1].name, id |-> n]), gifts, n + 1)
<1>1. n + 1 \in 1 .. Len(gifts) /\ gifts[n + 1].name \in ArgNames \cup {NoName}
  <2>1. n + 1 \in 1 .. Len(gifts)
    BY LenProperties
  <2>2. gifts[n + 1] \in Gifts
    BY <2>1, ElementOfSeq
  <2> QED
    BY <2>1, <2>2 DEF Gifts
<1>2. names \in Seq(Infos) /\ Len(names) \in Nat /\ DOMAIN names = 1 .. Len(names)
  BY LenProperties DEF Table
<1>3. ASSUME gifts[n + 1].name = NoName PROVE Table(names, gifts, n + 1)
  <2>1. \A i \in 1 .. n + 1 : gifts[i].name # NoName => i \in 1 .. n
    BY <1>3
  <2>2. \A k \in DOMAIN names : names[k].id \in 0 .. n
    BY DEF Table
  <2> QED
    BY <1>2, <2>1, <2>2 DEF Table
<1>4. ASSUME gifts[n + 1].name # NoName
      PROVE  Table(Append(names, [name |-> gifts[n + 1].name, id |-> n]), gifts, n + 1)
  <2> DEFINE x == [name |-> gifts[n + 1].name, id |-> n]
             t == Append(names, x)
  <2>1. x \in Infos
    BY <1>1, <1>4 DEF Infos
  <2>2. /\ t \in Seq(Infos) /\ Len(t) = Len(names) + 1 /\ DOMAIN t = 1 .. Len(names) + 1
        /\ t[Len(names) + 1] = x /\ \A k \in 1 .. Len(names) : t[k] = names[k]
    BY <1>2, <2>1, AppendProperties, LenProperties
  <2>3. x.id = n /\ x.name = gifts[n + 1].name
    OBVIOUS
  <2> HIDE DEF x, t
  <2>4. ASSUME NEW k \in DOMAIN t
        PROVE  t[k].id \in 0 .. (n + 1) - 1 /\ gifts[t[k].id + 1].name = t[k].name
    <3>1. CASE k \in 1 .. Len(names)
      BY <1>2, <2>2, <3>1 DEF Table
    <3>2. CASE k = Len(names) + 1
      BY <1>2, <2>2, <2>3, <3>2
    <3> QED
      BY <1>2, <2>2, <3>1, <3>2
  <2>5. ASSUME NEW k \in DOMAIN t, NEW l \in DOMAIN t, k < l PROVE t[k].id < t[l].id
    <3>1. k \in 1 .. Len(names) /\ names[k].id < n
      BY <1>2, <2>2, <2>5 DEF Table
    <3>2. CASE l \in 1 .. Len(names)
      BY <1>2, <2>2, <2>5, <3>1, <3>2 DEF Table
    <3>3. CASE l = Len(names) + 1
      BY <1>2, <2>2, <2>3, <3>1, <3>3
    <3> QED
      BY <1>2, <2>2, <3>2, <3>3
  <2>6. ASSUME NEW i \in 1 .. n + 1, gifts[i].name # NoName
        PROVE  \E k \in DOMAIN t : t[k].id = i - 1
    <3>1. CASE i \in 1 .. n
      <4>1. PICK k \in DOMAIN names : names[k].id = i - 1
        BY <2>6, <3>1 DEF Table
      <4>2. k \in DOMAIN t /\ t[k].id = i - 1
        BY <1>2, <2>2, <4>1
      <4> QED
        BY <4>2
    <3>2. CASE i = n + 1
      <4>1. Len(names) + 1 \in DOMAIN t /\ t[Len(names) + 1].id = i - 1
        BY <1>2, <2>2, <2>3, <3>2
      <4> QED
        BY <4>1
    <3> QED
      BY <3>1, <3>2
  <2> QED
    BY <2>2, <2>4, <2>5, <2>6 DEF Table, t, x
<1> QED
  BY <1>3, <1>4

\* Later arguments do not concern the table of the first n.
LEMMA TableGrows ==
    ASSUME NEW gifts \in Seq(Gifts), NEW g \in Gifts, NEW names, Table(names, gifts, Len(gifts))
    PROVE  Table(names, Append(gifts, g), Len(gifts))
<1>1. /\ Len(gifts) \in Nat /\ \A i \in 1 .. Len(gifts) : Append(gifts, g)[i] = gifts[i]
  BY AppendProperties, LenProperties
<1>2. \A k \in DOMAIN names : names[k].id + 1 \in 1 .. Len(gifts)
  BY <1>1 DEF Table
<1> QED
  BY <1>1, <1>2 DEF Table

\* init_named_args makes such a table.
LEMMA StaticTable ==
    ASSUME given \in Seq(Gifts)
    PROVE  Table(StaticView.names, given, Len(given))
<1> DEFINE n == Len(given)
           Next0(i, t) == IF given[i].name = NoName THEN t
                          ELSE Append(t, [name |-> given[i].name, id |-> i - 1])
           round == [p \in (1 .. n) \X Seq(Infos) |-> Next0(p[1], p[2])]
           f == Loop(<<>>, n, round)
<1>1. n \in Nat /\ DOMAIN given = 1 .. n
  BY LenProperties
<1>2. ASSUME NEW i \in 1 .. n, NEW t \in Seq(Infos) PROVE Next0(i, t) \in Seq(Infos)
  <2>1. given[i] \in Gifts /\ i - 1 \in Nat
    BY <1>1, ElementOfSeq
  <2>2. given[i].name # NoName => [name |-> given[i].name, id |-> i - 1] \in Infos
    BY <2>1 DEF Gifts, Infos
  <2> QED
    BY <2>2, AppendProperties
<1>3. round \in [(1 .. n) \X Seq(Infos) -> Seq(Infos)]
  BY <1>2
<1>4. <<>> \in Seq(Infos)
  OBVIOUS
<1> HIDE DEF n
<1>5. /\ f = [i \in 0 .. n |-> IF i = 0 THEN <<>> ELSE round[<<i, f[i - 1]>>]]
      /\ f \in [0 .. n -> Seq(Infos)]
  <2> HIDE DEF round
  <2> QED
    BY <1>1, <1>3, <1>4, LoopLemma DEF n
<1> HIDE DEF f
<1>6. f = [i \in 0 .. n |-> IF i = 0 THEN <<>> ELSE Next0(i, f[i - 1])]
  <2>0. ASSUME NEW i \in 1 .. n, NEW t \in Seq(Infos) PROVE round[<<i, t>>] = Next0(i, t)
    <3> HIDE DEF Next0
    <3> QED
      OBVIOUS
  <2>1. ASSUME NEW i \in 1 .. n PROVE round[<<i, f[i - 1]>>] = Next0(i, f[i - 1])
    <3>0. i - 1 \in 0 .. n
      BY <1>1
    <3>1. f[i - 1] \in Seq(Infos)
      BY <1>5, <3>0
    <3> QED
      BY <2>0, <3>1
  <2> HIDE DEF round, Next0
  <2>2. \A i \in 0 .. n : i # 0 => i \in 1 .. n
    BY <1>1
  <2> QED
    BY <1>5, <2>1, <2>2
<1>7. StaticView.names = (CHOOSE h : h = [i \in 0 .. n |-> IF i = 0 THEN <<>> ELSE Next0(i, h[i - 1])])[n]
  BY DEF StaticView, View, n
<1> DEFINE h == CHOOSE h : h = [i \in 0 .. n |-> IF i = 0 THEN <<>> ELSE Next0(i, h[i - 1])]
<1>8. h = [i \in 0 .. n |-> IF i = 0 THEN <<>> ELSE Next0(i, h[i - 1])]
  BY <1>6
<1> HIDE DEF h
<1> DEFINE T == {i \in 0 .. n : Table(h[i], given, i)}
<1>9. 0 \in T
  BY <1>1, <1>8 DEF Table
<1>10. ASSUME NEW i \in T, i \in 0 .. n - 1 PROVE i + 1 \in T
  <2>1. i + 1 \in 0 .. n /\ i + 1 # 0 /\ (i + 1) - 1 = i /\ i \in Nat /\ i < Len(given)
    BY <1>1, <1>10 DEF n
  <2>2. h[i + 1] = Next0(i + 1, h[i])
    BY <1>8, <2>1
  <2>3. Table(h[i + 1], given, i + 1)
    BY <2>1, <2>2, TableLemma
  <2> QED
    BY <2>1, <2>3
<1>11. 0 .. n \subseteq T
  <2> HIDE DEF T
  <2> QED
    BY <1>1, <1>9, <1>10, Induction
<1>12. n \in T
  BY <1>1, <1>11
<1> QED
  BY <1>7, <1>12 DEF h, n

First(P) == CHOOSE k \in P : \A l \in P : k <= l

LEMMA FirstLemma ==
    ASSUME NEW P \in SUBSET Nat, P # {}
    PROVE  First(P) \in P /\ \A l \in P : First(P) <= l
<1>1. \E k \in P : \A l \in P : k <= l
  BY LeastNumber
<1> QED
  BY <1>1 DEF First

\* The first entry of the table that has a name is that of the first argument
\* that has it.
LEMMA FindLemma ==
    ASSUME NEW names, Table(names, given, Len(given)), given \in Seq(Gifts), NEW name \in ArgNames
    PROVE  LET G == {i \in DOMAIN given : given[i].name = name}
               N == {k \in DOMAIN names : names[k].name = name}
           IN  /\ N = {} <=> G = {}
               /\ N # {} => names[First(N)].id + 1 = First(G) /\ First(G) \in DOMAIN given
<1> DEFINE G == {i \in DOMAIN given : given[i].name = name}
           N == {k \in DOMAIN names : names[k].name = name}
<1>1. /\ names \in Seq(Infos) /\ DOMAIN names = 1 .. Len(names) /\ Len(names) \in Nat
      /\ DOMAIN given = 1 .. Len(given) /\ Len(given) \in Nat
  BY LenProperties DEF Table
<1>2. G \in SUBSET Nat /\ N \in SUBSET Nat
  BY <1>1
<1>3. ASSUME NEW k \in N PROVE names[k].id \in Nat /\ names[k].id + 1 \in G
  BY <1>1 DEF Table
<1>4. ASSUME NEW i \in G PROVE \E k \in N : names[k].id + 1 = i
  <2>1. given[i].name # NoName
    BY ArgsAssumption
  <2>2. PICK k \in DOMAIN names : names[k].id = i - 1
    BY <1>1, <2>1 DEF Table
  <2>3. names[k].id + 1 = i
    BY <1>1, <2>2
  <2>4. given[names[k].id + 1].name = names[k].name
    BY <2>2 DEF Table
  <2> QED
    BY <2>3, <2>4
<1>5. ASSUME N # {} PROVE names[First(N)].id + 1 = First(G) /\ First(G) \in DOMAIN given
  <2> DEFINE k == First(N)
             i == First(G)
  <2>1. k \in N /\ \A l \in N : k <= l
    BY <1>2, <1>5, FirstLemma
  <2>2. i \in G /\ \A j \in G : i <= j
    BY <1>2, <1>3, <1>5, FirstLemma
  <2> HIDE DEF k, i
  <2>3. PICK l \in N : names[l].id + 1 = i
    BY <1>4, <2>2
  <2>4. k < l => names[k].id < names[l].id
    BY <2>1, <2>3 DEF Table
  <2>5. k \in Nat /\ l \in Nat /\ names[k].id \in Nat /\ names[l].id \in Nat /\ i \in Nat
    BY <1>1, <1>2, <1>3, <2>1, <2>2, <2>3
  <2>6. k <= l /\ i <= names[k].id + 1
    BY <1>3, <2>1, <2>2, <2>3
  <2>7. k = l
    BY <2>3, <2>4, <2>5, <2>6
  <2> QED
    BY <2>2, <2>3, <2>7 DEF k, i
<1> HIDE DEF G, N
<1>6. N = {} <=> G = {}
  BY <1>3, <1>4
<1> QED
  BY <1>5, <1>6 DEF G, N

\* An index finds the argument of its place in either view.
Found(view, id) ==
    GetIndex(view, id) = {Says(Entry(given[id + 1].how, given[id + 1].what))}

LEMMA StaticFound ==
    ASSUME ArgTypes, NEW id \in 0 .. Len(given) + 1
    PROVE  /\ id < Len(given) => Found(StaticView, id)
           /\ id >= Len(given) => GetIndex(StaticView, id) = {Nothing0}
<1>1. Len(given) \in Nat /\ DOMAIN given = 1 .. Len(given)
  BY LenProperties DEF ArgTypes
<1> DEFINE entries == [i \in DOMAIN given |-> Entry(given[i].how, given[i].what)]
<1>2. /\ StaticView.packed = (Len(given) <= MaxPacked) /\ StaticView.size = Len(given)
      /\ StaticView.entries = entries
  BY DEF StaticView, View
<1>3. Len(entries) = Len(given)
  BY <1>1
<1>4. id < Len(given) => entries[id + 1] = Entry(given[id + 1].how, given[id + 1].what)
  BY <1>1
<1> HIDE DEF entries
<1>5. ASSUME id < Len(given) PROVE GetIndex(StaticView, id) = {Says(entries[id + 1])}
  <2>1. id < Len(StaticView.entries) /\ id < StaticView.size
    BY <1>2, <1>3, <1>5
  <2>2. StaticView.packed => id < MaxPacked
    <3>1. Len(given) <= MaxPacked => id < MaxPacked
      BY <1>1, <1>5, ArgsAssumption
    <3> HIDE DEF StaticView
    <3> QED
      BY <1>2, <3>1
  <2>3. StaticView.packed \in BOOLEAN
    BY <1>2
  <2> HIDE DEF StaticView
  <2> QED
    BY <1>2, <2>1, <2>2, <2>3 DEF GetIndex
<1>6. id >= Len(given) => GetIndex(StaticView, id) = {Nothing0}
  BY <1>1, <1>2, <1>3, ArgsAssumption DEF GetIndex
<1> QED
  BY <1>4, <1>5, <1>6 DEF Found

LEMMA SaysSame ==
    ASSUME NEW e, NEW g \in Gifts, Same(e, g, dynamic_args_)
    PROVE  Says(e) = Says(Entry(g.how, g.what))
  BY DEF Says, Entry, Same, Gifts

LEMMA DynamicFound ==
    ASSUME ArgsInv, ~spoiled, NEW id \in 0 .. Len(given) + 1
    PROVE  /\ id < Len(given) => Found(DynamicView, id)
           /\ id >= Len(given) /\ ~(id = Len(given) /\ named_info_ # <<>>) =>
                 GetIndex(DynamicView, id) = {Nothing0}
<1>1. /\ Len(given) \in Nat /\ DOMAIN given = 1 .. Len(given)
      /\ data_ \in Seq(Entries)
      /\ Len(data_) \in Nat /\ Len(data_) = Len(given) + Shift /\ Shift \in {0, 1}
  BY LenProperties DEF ArgsInv, ArgTypes, Placed, Shift
<1> DEFINE entries == IF named_info_ = <<>> THEN data_ ELSE SubSeq(data_, 2, Len(data_))
<1>2. /\ DynamicView.packed = FALSE /\ DynamicView.size = Len(data_) /\ DynamicView.entries = entries
  BY DEF DynamicView, View
<1>3. Len(entries) = Len(given) /\ \A i \in 1 .. Len(given) : entries[i] = data_[i + Shift]
  <2>1. CASE named_info_ = <<>>
    BY <1>1, <2>1 DEF Shift
  <2>2. CASE named_info_ # <<>>
    <3>1. Shift = 1 /\ entries = SubSeq(data_, 2, Len(data_)) /\ Len(data_) = Len(given) + 1
      BY <1>1, <2>2 DEF Shift
    <3>2. entries = [i \in 1 .. Len(given) |-> data_[i + 1]]
      <4>1. Len(data_) - 2 + 1 = Len(given) /\ Len(data_) >= 1
        BY <1>1, <3>1
      <4>2. \A i \in 1 .. Len(given) : 2 + i - 1 = i + 1
        BY <1>1
      <4> HIDE DEF entries
      <4> QED
        BY <1>1, <3>1, <4>1, <4>2
    <3>3. Len([i \in 1 .. Len(given) |-> data_[i + 1]]) = Len(given)
      BY <1>1
    <3> HIDE DEF entries
    <3> QED
      BY <3>1, <3>2, <3>3
  <2> QED
    BY <2>1, <2>2
<1> HIDE DEF entries
<1>4. ASSUME id < Len(given) PROVE Found(DynamicView, id)
  <2>1. id + 1 \in DOMAIN given /\ given[id + 1] \in Gifts
    BY <1>1, <1>4, ElementOfSeq DEF ArgsInv, ArgTypes
  <2>2. Same(entries[id + 1], given[id + 1], dynamic_args_)
    BY <1>1, <1>3, <2>1 DEF ArgsInv, Placed
  <2>3. GetIndex(DynamicView, id) = {Says(entries[id + 1])}
    BY <1>1, <1>2, <1>3, <1>4 DEF GetIndex
  <2> QED
    BY <2>1, <2>2, <2>3, SaysSame DEF Found
<1>5. ASSUME id >= Len(given), ~(id = Len(given) /\ named_info_ # <<>>)
      PROVE  GetIndex(DynamicView, id) = {Nothing0}
  <2>1. ~(id < Len(data_))
    <3>1. CASE named_info_ = <<>>
      BY <1>1, <1>5, <3>1 DEF Shift
    <3>2. CASE named_info_ # <<>>
      <4>0. id # Len(given)
        BY <1>5, <3>2
      <4>1. id = Len(given) + 1
        <5>1. id \in 0 .. Len(given) + 1 /\ Len(given) \in Nat /\ id >= Len(given)
          BY <1>1, <1>5
        <5> QED
          BY <4>0, <5>1
      <4>2. Len(data_) = Len(given) + 1
        BY <1>1, <3>2 DEF Shift
      <4> QED
        BY <1>1, <4>1, <4>2
    <3> QED
      BY <3>1, <3>2
  <2> HIDE DEF DynamicView
  <2> QED
    BY <1>2, <2>1 DEF GetIndex
<1> QED
  BY <1>4, <1>5

LEMMA ArgsInv_Found == ArgsInv => ArgsFound
<1> SUFFICES ASSUME ArgsInv PROVE ArgsFound
  OBVIOUS
<1>1. ArgTypes /\ given \in Seq(Gifts) /\ Len(given) \in Nat /\ DOMAIN given = 1 .. Len(given)
  BY LenProperties DEF ArgsInv, ArgTypes
<1> SUFFICES ASSUME NEW view, view = StaticView \/ (view = DynamicView /\ ~spoiled)
             PROVE  /\ \A id \in 0 .. Len(given) + 1 :
                          \/ id < Len(given) /\ Found(view, id)
                          \/ id >= Len(given) /\ GetIndex(view, id) = {Nothing0}
                          \/ id = Len(given) /\ view = DynamicView /\ named_info_ # <<>>
                    /\ \A name \in ArgNames :
                          LET G == {i \in DOMAIN given : given[i].name = name}
                          IN  GetName(view, name) =
                                IF G = {} THEN {Nothing0}
                                ELSE {Says(Entry(given[First(G)].how, given[First(G)].what))}
  BY DEF ArgsFound, Found, First
<1>2. ASSUME NEW id \in 0 .. Len(given) + 1
      PROVE  /\ id < Len(given) => Found(view, id)
             /\ \/ id < Len(given)
                \/ id >= Len(given) /\ GetIndex(view, id) = {Nothing0}
                \/ id = Len(given) /\ view = DynamicView /\ named_info_ # <<>>
  <2>1. id < Len(given) \/ id >= Len(given)
    BY <1>1
  <2>2. CASE view = StaticView
    BY <1>1, <2>1, <2>2, StaticFound
  <2>3. CASE view = DynamicView /\ ~spoiled
    BY <2>1, <2>3, DynamicFound
  <2> QED
    BY <2>2, <2>3
<1>3. Table(view.names, given, Len(given))
  <2>1. CASE view = StaticView
    BY <1>1, <2>1, StaticTable
  <2>2. CASE view = DynamicView /\ ~spoiled
    BY <2>2 DEF DynamicView, View, ArgsInv
  <2> QED
    BY <2>1, <2>2
<1>4. ASSUME NEW name \in ArgNames
      PROVE  LET G == {i \in DOMAIN given : given[i].name = name}
             IN  GetName(view, name) =
                    IF G = {} THEN {Nothing0}
                    ELSE {Says(Entry(given[First(G)].how, given[First(G)].what))}
  <2> DEFINE G == {i \in DOMAIN given : given[i].name = name}
             N == {k \in DOMAIN view.names : view.names[k].name = name}
  <2>1. GetName(view, name) = IF N = {} THEN {Nothing0} ELSE GetIndex(view, view.names[First(N)].id)
    BY DEF GetName, First
  <2>2. /\ N = {} <=> G = {}
        /\ N # {} => view.names[First(N)].id + 1 = First(G) /\ First(G) \in DOMAIN given
    BY <1>1, <1>3, FindLemma
  <2>3. ASSUME N # {} PROVE First(N) \in DOMAIN view.names
    <3>1. N \in SUBSET Nat
      BY <1>3, LenProperties DEF Table
    <3> QED
      BY <2>3, <3>1, FirstLemma
  <2> HIDE DEF G, N
  <2>4. ASSUME N # {} PROVE GetIndex(view, view.names[First(N)].id) = {Says(Entry(given[First(G)].how, given[First(G)].what))}
    <3> DEFINE id == view.names[First(N)].id
    <3>1. id \in 0 .. Len(given) - 1 /\ id + 1 = First(G)
      BY <1>3, <2>2, <2>3, <2>4 DEF Table
    <3> HIDE DEF id
    <3>2. id \in 0 .. Len(given) + 1 /\ id < Len(given)
      BY <1>1, <3>1
    <3>3. Found(view, id)
      BY <1>2, <3>2
    <3> QED
      BY <3>1, <3>3 DEF Found, id
  <2> QED
    BY <2>1, <2>2, <2>4 DEF G
<1> QED
  BY <1>2, <1>4

\* What a store has stays the same when its nodes grow.
LEMMA Appended ==
    ASSUME NEW S, NEW s \in Seq(S), NEW x \in S
    PROVE  /\ Append(s, x) \in Seq(S) /\ Len(Append(s, x)) = Len(s) + 1 /\ Len(s) \in Nat
           /\ DOMAIN s = 1 .. Len(s) /\ DOMAIN Append(s, x) = 1 .. Len(s) + 1
           /\ Append(s, x)[Len(s) + 1] = x /\ \A i \in 1 .. Len(s) : Append(s, x)[i] = s[i]
  BY AppendProperties, LenProperties

\* One more argument, with its entry; nodes are only added.
LEMMA PlacedLemma ==
    ASSUME NEW d \in Seq(Entries), NEW e \in Entries, NEW gifts \in Seq(Gifts), NEW g \in Gifts,
           NEW nodes, NEW more, NEW shift \in {0, 1}, Placed(d, gifts, nodes, shift),
           \A i \in DOMAIN nodes : i \in DOMAIN more /\ more[i] = nodes[i], Same(e, g, more)
    PROVE  Placed(Append(d, e), Append(gifts, g), more, shift)
<1> DEFINE c == Append(d, e)
           h == Append(gifts, g)
<1>1. /\ Len(d) \in Nat /\ Len(gifts) \in Nat /\ Len(d) = Len(gifts) + shift
      /\ DOMAIN gifts = 1 .. Len(gifts) /\ DOMAIN h = 1 .. Len(gifts) + 1
      /\ Len(c) = Len(d) + 1 /\ Len(h) = Len(gifts) + 1
      /\ c[Len(d) + 1] = e /\ h[Len(gifts) + 1] = g
      /\ \A i \in 1 .. Len(d) : c[i] = d[i]
      /\ \A i \in 1 .. Len(gifts) : h[i] = gifts[i]
  BY Appended DEF Placed
<1> HIDE DEF c, h
<1>2. ASSUME NEW i \in 1 .. Len(gifts) PROVE Same(c[i + shift], h[i], more)
  <2>1. Same(d[i + shift], gifts[i], nodes)
    BY <1>1 DEF Placed
  <2>2. i + shift \in 1 .. Len(d)
    BY <1>1
  <2>3. c[i + shift] = d[i + shift] /\ h[i] = gifts[i]
    BY <1>1, <2>2
  <2>4. Same(d[i + shift], gifts[i], more)
    BY <2>1 DEF Same
  <2> QED
    BY <2>3, <2>4
<1>3. Same(c[(Len(gifts) + 1) + shift], h[Len(gifts) + 1], more)
  <2>1. (Len(gifts) + 1) + shift = Len(d) + 1
    BY <1>1
  <2> QED
    BY <1>1, <2>1
<1>4. Len(c) = Len(h) + shift
  BY <1>1
<1>5. \A i \in DOMAIN h : Same(c[i + shift], h[i], more)
  BY <1>1, <1>2, <1>3
<1> QED
  BY <1>4, <1>5 DEF Placed, c, h

\* The room for the table moves every argument one place on.
LEMMA RoomLemma ==
    ASSUME NEW gifts \in Seq(Gifts), data_ \in Seq(Entries)
    PROVE  /\ WithTable \in Seq(Entries)
           /\ Placed(data_, gifts, dynamic_args_, Shift) => Placed(WithTable, gifts, dynamic_args_, 1)
<1>1. NamesEntry \in Entries
  BY DEF NamesEntry, Entry, Entries
<1>2. CASE named_info_ # <<>>
  BY <1>2 DEF WithTable, Shift
<1>3. CASE named_info_ = <<>>
  <2> DEFINE one == <<NamesEntry>>
             w == one \o data_
  <2>1. WithTable = w /\ Shift = 0
    BY <1>3 DEF WithTable, Shift
  <2>2. one \in Seq(Entries) /\ Len(one) = 1 /\ Len(data_) \in Nat
    BY <1>1, LenProperties
  <2> HIDE DEF one
  <2>3. /\ w \in Seq(Entries) /\ Len(w) = 1 + Len(data_)
        /\ \A i \in 1 .. 1 + Len(data_) : w[i] = IF i <= 1 THEN one[i] ELSE data_[i - 1]
    <3>1. /\ one \o data_ \in Seq(Entries) /\ Len(one \o data_) = Len(one) + Len(data_)
          /\ \A i \in 1 .. Len(one) + Len(data_) :
                (one \o data_)[i] = IF i <= Len(one) THEN one[i] ELSE data_[i - Len(one)]
      <4>1. one \in Seq(Entries) /\ data_ \in Seq(Entries)
        BY <2>2
      <4> QED
        BY <4>1, ConcatProperties
    <3> QED
      BY <2>2, <3>1
  <2> HIDE DEF w
  <2>4. ASSUME NEW i \in 1 .. Len(data_) PROVE w[i + 1] = data_[i]
    <3>1. i + 1 \in 1 .. 1 + Len(data_) /\ ~(i + 1 <= 1) /\ (i + 1) - 1 = i
      BY <2>2
    <3> QED
      BY <2>3, <3>1
  <2>5. ASSUME Placed(data_, gifts, dynamic_args_, 0) PROVE Placed(w, gifts, dynamic_args_, 1)
    <3>1. /\ Len(gifts) \in Nat /\ DOMAIN gifts = 1 .. Len(gifts) /\ Len(data_) = Len(gifts)
          /\ \A i \in 1 .. Len(gifts) : Same(data_[i], gifts[i], dynamic_args_)
      <4>1. /\ Len(gifts) \in Nat /\ DOMAIN gifts = 1 .. Len(gifts)
        BY LenProperties
      <4>2. \A i \in 1 .. Len(gifts) : i + 0 = i
        BY <4>1
      <4> QED
        BY <2>5, <4>1, <4>2 DEF Placed
    <3>2. \A i \in 1 .. Len(gifts) : Same(w[i + 1], gifts[i], dynamic_args_)
      BY <2>4, <3>1
    <3>3. Len(w) = Len(gifts) + 1
      BY <2>3, <3>1
    <3> QED
      BY <3>1, <3>2, <3>3 DEF Placed
  <2> QED
    BY <2>1, <2>3, <2>5
<1> QED
  BY <1>2, <1>3

\* An argument and its entry come to the end, its name into the table.
LEMMA GiveKeeps ==
    ASSUME ArgsInv, NEW g \in Gifts, NEW e \in Entries,
           given' = Append(given, g), spoiled' = spoiled,
           dynamic_args_' = dynamic_args_ \/ \E t \in Texts : dynamic_args_' = Append(dynamic_args_, t),
           Same(e, g, dynamic_args_'),
           IF g.name = NoName THEN Emplace(e) ELSE EmplaceNamed(g.name, e)
    PROVE  ArgsInv'
<1>1. /\ given \in Seq(Gifts) /\ dynamic_args_ \in Seq(Texts) /\ data_ \in Seq(Entries)
      /\ named_info_ \in Seq(Infos) /\ spoiled \in BOOLEAN
      /\ Len(given) \in Nat /\ Len(data_) \in Nat /\ DOMAIN given = 1 .. Len(given)
      /\ DOMAIN dynamic_args_ = 1 .. Len(dynamic_args_) /\ Len(dynamic_args_) \in Nat
      /\ Shift \in {0, 1}
  BY LenProperties DEF ArgsInv, ArgTypes, Shift
<1>2. /\ given' \in Seq(Gifts) /\ Len(given') = Len(given) + 1
      /\ given'[Len(given) + 1] = g
  BY <1>1, Appended
<1>3. /\ dynamic_args_' \in Seq(Texts)
      /\ \A i \in DOMAIN dynamic_args_ : i \in DOMAIN dynamic_args_' /\ dynamic_args_'[i] = dynamic_args_[i]
  <2>1. CASE dynamic_args_' = dynamic_args_
    BY <1>1, <2>1
  <2>2. CASE \E t \in Texts : dynamic_args_' = Append(dynamic_args_, t)
    <3>1. PICK t \in Texts : dynamic_args_' = Append(dynamic_args_, t)
      BY <2>2
    <3> DEFINE more == Append(dynamic_args_, t)
    <3>2. /\ more \in Seq(Texts) /\ DOMAIN more = 1 .. Len(dynamic_args_) + 1
          /\ \A i \in 1 .. Len(dynamic_args_) : more[i] = dynamic_args_[i]
      BY <1>1, Appended
    <3> HIDE DEF more
    <3>3. 1 .. Len(dynamic_args_) \subseteq 1 .. Len(dynamic_args_) + 1
      BY <1>1
    <3>4. dynamic_args_' = more
      BY <3>1 DEF more
    <3> QED
      BY <1>1, <3>2, <3>3, <3>4
  <2> QED
    BY <2>1, <2>2
<1>4. ASSUME ~spoiled
      PROVE  /\ Placed(data_, given, dynamic_args_, Shift) /\ Table(named_info_, given', Len(given))
             /\ Len(data_) = Len(given) + Shift
  BY <1>1, <1>4, TableGrows DEF ArgsInv, Placed
<1>5. CASE g.name = NoName
  <2>1. data_' = Append(data_, e) /\ named_info_' = named_info_ /\ Shift' = Shift
    BY <1>5 DEF Emplace, Shift
  <2>2. data_' \in Seq(Entries)
    BY <1>1, <2>1, Appended
  <2>3. ArgTypes'
    <3>1. data_' # <<>>
      <4>1. data_ \in Seq(Entries) /\ e \in Entries
        BY <1>1
      <4>2. Append(data_, e) # <<>>
        BY <4>1, AppendProperties
      <4> QED
        BY <2>1, <4>2
    <3> QED
      BY <1>1, <1>2, <1>3, <2>1, <2>2, <3>1 DEF ArgTypes
  <2>4. ASSUME ~spoiled
        PROVE  Placed(data_', given', dynamic_args_', Shift') /\ Table(named_info_', given', Len(given'))
    <3>1. Placed(data_', given', dynamic_args_', Shift')
      BY <1>1, <1>3, <1>4, <2>1, <2>4, PlacedLemma
    <3>2. Table(named_info_, given', Len(given) + 1)
      <4>1. Table(named_info_, given', Len(given)) /\ Len(given) < Len(given')
        BY <1>1, <1>2, <1>4, <2>4
      <4>2. given'[Len(given) + 1].name = NoName
        BY <1>2, <1>5
      <4> QED
        BY <1>1, <1>2, <4>1, <4>2, TableLemma
    <3> QED
      BY <1>2, <2>1, <3>1, <3>2
  <2> QED
    BY <2>3, <2>4 DEF ArgsInv
<1>6. CASE g.name # NoName
  <2> DEFINE x == [name |-> g.name, id |-> Len(data_') - 2]
  <2>1. data_' = Append(WithTable, e) /\ named_info_' = Append(named_info_, x)
    BY <1>6 DEF EmplaceNamed
  <2>2. WithTable \in Seq(Entries) /\ data_' \in Seq(Entries) /\ Len(data_') = Len(WithTable) + 1
    BY <1>1, <2>1, Appended, RoomLemma
  <2>3. x \in Infos
    <3>1. g.name \in ArgNames
      BY <1>6 DEF Gifts
    <3>2. Len(WithTable) \in Nat \ {0}
      <4>1. CASE named_info_ = <<>>
        <5>1. WithTable = <<NamesEntry>> \o data_
          BY <4>1 DEF WithTable
        <5>2. <<NamesEntry>> \in Seq(Entries)
          BY DEF NamesEntry, Entry, Entries
        <5>3. Len(WithTable) = Len(<<NamesEntry>>) + Len(data_) /\ Len(<<NamesEntry>>) = 1
          BY <1>1, <5>1, <5>2, ConcatProperties
        <5> QED
          BY <1>1, <5>3
      <4>2. CASE named_info_ # <<>>
        BY <1>1, <4>2, EmptySeq DEF WithTable, ArgsInv, ArgTypes
      <4> QED
        BY <4>1, <4>2
    <3> QED
      BY <2>2, <3>1, <3>2 DEF Infos
  <2> HIDE DEF x
  <2>4. named_info_' \in Seq(Infos) /\ named_info_' # <<>> /\ Shift' = 1
    <3>1. /\ named_info_' \in Seq(Infos) /\ Len(named_info_') = Len(named_info_) + 1
          /\ Len(named_info_) \in Nat
      BY <1>1, <2>1, <2>3, Appended
    <3>2. named_info_' # <<>>
      BY <3>1, EmptySeq
    <3> QED
      BY <3>1, <3>2 DEF Shift
  <2>5. ArgTypes'
    <3>1. data_' # <<>>
      BY <2>1, <2>2, AppendProperties
    <3> QED
      BY <1>1, <1>2, <1>3, <2>2, <2>4, <3>1 DEF ArgTypes
  <2>6. ASSUME ~spoiled
        PROVE  Placed(data_', given', dynamic_args_', Shift') /\ Table(named_info_', given', Len(given'))
    <3>1. Placed(WithTable, given, dynamic_args_, 1)
      BY <1>1, <1>4, <2>6, RoomLemma
    <3>2. Placed(data_', given', dynamic_args_', Shift')
      BY <1>1, <1>3, <2>1, <2>2, <2>4, <3>1, PlacedLemma
    <3>3. x = [name |-> g.name, id |-> Len(given)]
      <4>1. Len(data_') - 2 = Len(given)
        BY <1>1, <2>2, <3>1 DEF Placed
      <4> QED
        BY <4>1 DEF x
    <3>4. Table(named_info_', given', Len(given) + 1)
      <4>1. Table(named_info_, given', Len(given)) /\ Len(given) < Len(given')
        BY <1>1, <1>2, <1>4, <2>6
      <4>2. given'[Len(given) + 1].name = g.name /\ g.name # NoName
        BY <1>2, <1>6
      <4>3. named_info_' = Append(named_info_, [name |-> given'[Len(given) + 1].name, id |-> Len(given)])
        BY <2>1, <3>3, <4>2
      <4>4. Table(Append(named_info_, [name |-> given'[Len(given) + 1].name, id |-> Len(given)]),
                  given', Len(given) + 1)
        <5>1. given'[Len(given) + 1].name # NoName
          BY <4>2
        <5> HIDE DEF x
        <5> QED
          BY <1>1, <1>2, <4>1, <5>1, TableLemma
      <4> QED
        BY <4>3, <4>4
    <3> QED
      BY <1>2, <3>2, <3>4
  <2> QED
    BY <2>5, <2>6 DEF ArgsInv
<1> QED
  BY <1>5, <1>6

LEMMA PushKeeps == ASSUME ArgsInv, PushValue \/ PushCopy \/ PushRef PROVE ArgsInv'
<1>1. CASE PushValue
  <2>1. PICK t \in Texts : Gives(Given("value", t, NoName)) /\ Emplace(Entry("value", t))
    BY <1>1 DEF PushValue
  <2> DEFINE g == Given("value", t, NoName)
             e == Entry("value", t)
  <2>2. g \in Gifts /\ e \in Entries /\ g.name = NoName /\ Same(e, g, dynamic_args_')
    BY DEF Gifts, Entries, Given, Entry, Same
  <2>3. given' = Append(given, g) /\ dynamic_args_' = dynamic_args_ /\ spoiled' = spoiled
    BY <1>1, <2>1 DEF PushValue, Gives
  <2> HIDE DEF g, e
  <2>4. Emplace(e)
    BY <2>1 DEF e
  <2> QED
    BY <2>2, <2>3, <2>4, GiveKeeps
<1>2. CASE PushCopy
  <2>1. PICK t \in Texts, name \in ArgNames \cup {NoName} :
            /\ Gives(Given("value", t, name))
            /\ PushNode(t)
            /\ LET entry == Entry("node", Len(dynamic_args_'))
               IN IF name = NoName THEN Emplace(entry) ELSE EmplaceNamed(name, entry)
    BY <1>2 DEF PushCopy
  <2> DEFINE g == Given("value", t, name)
             e == Entry("node", Len(dynamic_args_'))
  <2>2. /\ dynamic_args_' = Append(dynamic_args_, t) /\ spoiled' = spoiled
        /\ Len(dynamic_args_') \in DOMAIN dynamic_args_' /\ dynamic_args_'[Len(dynamic_args_')] = t
        /\ Len(dynamic_args_') \in Nat
    <3>1. dynamic_args_' = Append(dynamic_args_, t) /\ spoiled' = spoiled
      BY <1>2, <2>1 DEF PushCopy, PushNode
    <3> QED
      BY <3>1, Appended DEF ArgsInv, ArgTypes
  <2>3. g \in Gifts /\ e \in Entries /\ g.name = name /\ Same(e, g, dynamic_args_')
    BY <2>2 DEF Gifts, Entries, Given, Entry, Same
  <2>4. given' = Append(given, g)
    BY <2>1 DEF Gives
  <2>5. IF name = NoName THEN Emplace(e) ELSE EmplaceNamed(name, e)
    BY <2>1
  <2> HIDE DEF g, e
  <2> QED
    BY <2>2, <2>3, <2>4, <2>5, GiveKeeps
<1>3. CASE PushRef
  <2>1. PICK x \in CallerVars, name \in ArgNames \cup {NoName} :
            /\ Gives(Given("var", x, name))
            /\ IF name = NoName THEN Emplace(Entry("var", x)) ELSE EmplaceNamed(name, Entry("var", x))
    BY <1>3 DEF PushRef
  <2> DEFINE g == Given("var", x, name)
             e == Entry("var", x)
  <2>2. g \in Gifts /\ e \in Entries /\ g.name = name /\ Same(e, g, dynamic_args_')
    BY DEF Gifts, Entries, Given, Entry, Same
  <2>3. given' = Append(given, g) /\ dynamic_args_' = dynamic_args_ /\ spoiled' = spoiled
    BY <1>3, <2>1 DEF PushRef, Gives
  <2>4. IF name = NoName THEN Emplace(e) ELSE EmplaceNamed(name, e)
    BY <2>1
  <2> HIDE DEF g, e
  <2> QED
    BY <2>2, <2>3, <2>4, GiveKeeps
<1> QED
  BY <1>1, <1>2, <1>3

\* Room that was made for nothing spoils the store, until it is cleared.
LEMMA FailsKeeps == ASSUME ArgsInv, PushNamedFails PROVE ArgsInv'
<1>1. /\ data_' = WithTable /\ spoiled' = (spoiled \/ named_info_ = <<>>)
      /\ UNCHANGED <<caller, given, named_info_, dynamic_args_>>
  BY DEF PushNamedFails
<1>2. WithTable \in Seq(Entries)
  BY RoomLemma DEF ArgsInv, ArgTypes
<1>3. named_info_ # <<>> => WithTable = data_
  BY DEF WithTable
<1>4. ArgTypes'
  BY <1>1, <1>2, <1>3 DEF ArgsInv, ArgTypes
<1>5. ~spoiled' => named_info_ # <<>> /\ ~spoiled /\ data_' = data_ /\ Shift' = Shift
  BY <1>1, <1>3 DEF Shift
<1> QED
  BY <1>1, <1>4, <1>5 DEF ArgsInv

\* An empty store holds the arguments of nobody.
IsEmpty ==
    /\ data_ = <<>> /\ named_info_ = <<>> /\ dynamic_args_ = <<>> /\ given = <<>>
    /\ spoiled = FALSE

LEMMA EmptyStore == IsEmpty => ArgsInv
<1> SUFFICES ASSUME IsEmpty PROVE ArgsInv
  OBVIOUS
<1>0. /\ data_ = <<>> /\ named_info_ = <<>> /\ dynamic_args_ = <<>> /\ given = <<>>
      /\ spoiled = FALSE
  BY DEF IsEmpty
<1>1. ArgTypes
  BY <1>0, EmptySeq DEF ArgTypes
<1>2. Shift = 0
  BY <1>0 DEF Shift
<1>3. /\ Len(given) = 0 /\ Len(data_) = 0 /\ DOMAIN given = {} /\ DOMAIN named_info_ = {}
  <2>1. given \in Seq({}) /\ data_ \in Seq({}) /\ named_info_ \in Seq({})
    BY <1>0, EmptySeq
  <2>2. Len(given) = 0 /\ Len(data_) = 0 /\ Len(named_info_) = 0
    BY <1>0, EmptySeq
  <2> QED
    BY <2>1, <2>2, LenProperties
<1>4. Placed(data_, given, dynamic_args_, Shift)
  BY <1>2, <1>3 DEF Placed
<1>5. Table(named_info_, given, Len(given))
  BY <1>0, <1>1, <1>3 DEF Table, ArgTypes
<1> QED
  BY <1>0, <1>1, <1>4, <1>5 DEF ArgsInv

\* A cleared store is an empty one.
LEMMA ClearKeeps == ASSUME ArgsInv, Clear PROVE ArgsInv'
<1>1. IsEmpty'
  BY DEF Clear, IsEmpty
<1> QED
  BY <1>1, EmptyStore, PTL

\* However arguments were handed over, whatever was pushed, named, refused and
\* cleared before, and whatever the caller did to its variables since: an index
\* finds the argument of that place, and a name the first that has it.
THEOREM ArgumentsFound == ArgsSpec => []ArgsFound
<1>1. ArgsInit => ArgsInv
  BY EmptyStore DEF ArgsInit, IsEmpty
<1>2. ArgsInv /\ [ArgsNext]_argVars => ArgsInv'
  <2> SUFFICES ASSUME ArgsInv, [ArgsNext]_argVars PROVE ArgsInv'
    OBVIOUS
  <2>1. CASE UNCHANGED <<given, data_, named_info_, dynamic_args_, spoiled>>
    BY <2>1 DEF ArgsInv, ArgTypes, Placed, Table, Shift
  <2>2. Change => UNCHANGED <<given, data_, named_info_, dynamic_args_, spoiled>>
    BY DEF Change
  <2> QED
    BY <2>1, <2>2, PushKeeps, FailsKeeps, ClearKeeps DEF ArgsNext, argVars
<1> QED
  BY <1>1, <1>2, ArgsInv_Found, PTL DEF ArgsSpec

-----------------------------------------------------------------------------
(* Messages that own their text: memory, and who owns it.                  *)

Chars == {Junk0} \cup (LogTexts \X {"name", "payload"} \X Nat)
Nowhere == <<"none", 0>>
Places == {Store(o) : o \in Objects} \cup {Block(b) : b \in Blocks}
Views ==
    {v \in [at : Places \cup {Nowhere}, from : Nat, len : Nat] : v.len = 0 \/ v.at \in Places}
Buffers == [data : Places, size : Nat, capacity : Nat, logger_name : Views, payload : Views]
Worlds ==
    [obj : [Objects -> Buffers \cup {Dead}], store : [Objects -> Seq(Chars)], heap : [Blocks -> Seq(Chars)]]

\* A buffer is in its object or in a block, and a block that is in use has one
\* owner.
Owned(w) ==
    /\ \A o \in Objects :
          \/ w.obj[o] = Dead
          \/ w.obj[o].data = Store(o)
          \/ \E b \in Blocks : w.obj[o].data = Block(b)
    /\ \A o \in Objects, b \in Blocks : w.obj[o].data = Block(b) => w.heap[b] # <<>>
    /\ \A o, p \in Objects, b \in Blocks : w.obj[o].data = Block(b) /\ w.obj[p].data = Block(b) => o = p
    /\ \A b \in Blocks : w.heap[b] # <<>> => \E o \in Objects : w.obj[o].data = Block(b)

\* An object is as it was, and so is the memory it has.
Untouched(w, x, p) ==
    /\ x.obj[p] = w.obj[p] /\ x.store[p] = w.store[p]
    /\ \A b \in Blocks : w.obj[p].data = Block(b) => x.heap[b] = w.heap[b]

Frame(w, x, some) ==
    /\ x \in Worlds /\ Owned(x)
    /\ \A p \in Objects \ some : Untouched(w, x, p)

\* A buffer that has the room it says it has.
Text(w, o) == Cells(w, w.obj[o].data)
Fits(w, o) ==
    /\ w.obj[o] \in Buffers /\ w.obj[o].size <= w.obj[o].capacity
    /\ w.obj[o].capacity >= 1 /\ Len(Text(w, o)) = w.obj[o].capacity
    /\ w.obj[o].data = Store(o) => w.obj[o].capacity = Inline

\* An object has a message, and its views are on its own memory.
Carries(w, o, name, payload) ==
    /\ Fits(w, o) /\ w.obj[o].size = Len(name) + Len(payload)
    /\ w.obj[o].logger_name = StringView(w.obj[o].data, 0, Len(name))
    /\ w.obj[o].payload = StringView(w.obj[o].data, Len(name), Len(payload))
    /\ \A i \in 1 .. Len(name) : Text(w, o)[i] = name[i]
    /\ \A i \in 1 .. Len(payload) : Text(w, o)[Len(name) + i] = payload[i]

\* Stores, blocks and nothing are told apart.
LEMMA PlaceLemma ==
    /\ \A b : OnHeap(Block(b)) /\ Block(b)[2] = b /\ Block(b) # Nowhere
    /\ \A o : ~OnHeap(Store(o)) /\ Store(o)[2] = o /\ Store(o) # Nowhere
    /\ \A b, c : Block(b) = Block(c) => b = c
    /\ \A b, o : Block(b) # Store(o)
    /\ \A o, p : Store(o) = Store(p) => o = p
    /\ ~OnHeap(Nowhere) /\ Dead.data = Nowhere
  BY DEF Block, Store, OnHeap, Nowhere, Dead

\* Numbers of the objects.
Rank(o) ==
    IF o = Item THEN 1 ELSE IF o = Popped THEN 2
    ELSE IF o[1] = "first" THEN o[2] + 3 ELSE o[2] + QueueSize + 4

\* There are more blocks than objects, so one is free.
LEMMA FreeLemma ==
    ASSUME NEW w \in Worlds, Owned(w)
    PROVE  FreeBlock(w) \in Blocks /\ w.heap[FreeBlock(w)] = <<>>
<1> DEFINE F == {b \in Blocks : w.heap[b] = <<>>}
           n == 2 * (QueueSize + 1) + 2
<1>1. n \in Nat /\ Blocks = 1 .. n + 1 /\ QueueSize \in Nat
  BY BufferAssumption DEF Blocks
<1> HIDE DEF n
<1>2. F # {}
  <2> SUFFICES ASSUME F = {} PROVE FALSE
    OBVIOUS
  <2> DEFINE Owner(b) == CHOOSE o \in Objects : w.obj[o].data = Block(b)
             f == [b \in 1 .. n + 1 |-> Rank(Owner(b))]
  <2>1. ASSUME NEW b \in Blocks PROVE Owner(b) \in Objects /\ w.obj[Owner(b)].data = Block(b)
    BY DEF Owned
  <2>2. ASSUME NEW o \in Objects PROVE Rank(o) \in 1 .. n
    BY <1>1 DEF Rank, Objects, Vectors, Slots, Item, Popped, n
  <2>3. ASSUME NEW o \in Objects, NEW p \in Objects, Rank(o) = Rank(p) PROVE o = p
    BY <1>1, <2>3 DEF Rank, Objects, Vectors, Slots, Item, Popped
  <2> HIDE DEF Owner
  <2>4. f \in [1 .. n + 1 -> 1 .. n]
    BY <1>1, <2>1, <2>2
  <2>5. \A b, c \in 1 .. n + 1 : f[b] = f[c] => b = c
    BY <1>1, <2>1, <2>3, PlaceLemma
  <2> HIDE DEF f
  <2>6. IsFiniteSet(1 .. n + 1) /\ IsFiniteSet(1 .. n) /\ Cardinality(1 .. n) < Cardinality(1 .. n + 1)
    <3>1. IsFiniteSet(1 .. n) /\ Cardinality(1 .. n) = IF 1 > n THEN 0 ELSE n - 1 + 1
      BY <1>1, FS_Interval
    <3>2. IsFiniteSet(1 .. n + 1) /\ Cardinality(1 .. n + 1) = IF 1 > n + 1 THEN 0 ELSE (n + 1) - 1 + 1
      <4>1. 1 \in Int /\ n + 1 \in Int
        BY <1>1
      <4> QED
        BY <4>1, FS_Interval
    <3> QED
      BY <1>1, <3>1, <3>2
  <2>7. \E b, c \in 1 .. n + 1 : b # c /\ f[b] = f[c]
    <3> DEFINE S == 1 .. n + 1
               T == 1 .. n
    <3>1. IsFiniteSet(S) /\ IsFiniteSet(T) /\ Cardinality(T) < Cardinality(S) /\ f \in [S -> T]
      BY <2>4, <2>6
    <3> HIDE DEF S, T
    <3>2. \E b, c \in S : b # c /\ f[b] = f[c]
      BY <3>1, FS_PigeonHole
    <3> QED
      BY <3>2 DEF S
  <2> QED
    BY <2>5, <2>7
<1>3. F \in SUBSET Nat
  BY <1>1
<1>4. PICK b \in F : \A c \in F : b <= c
  BY <1>2, <1>3, LeastNumber
<1>5. b \in Blocks /\ w.heap[b] = <<>> /\ \A c \in 1 .. b - 1 : w.heap[c] # <<>>
  <2>1. ASSUME NEW c \in 1 .. b - 1 PROVE c \in Blocks /\ c \notin F
    BY <1>1, <1>4
  <2> QED
    BY <1>4, <2>1
<1> QED
  BY <1>5 DEF FreeBlock

\* Only one object has changed, and it has a block of its own or none.
LEMMA Alone ==
    ASSUME NEW w \in Worlds, Owned(w), NEW x \in Worlds, NEW o \in Objects,
           \A p \in Objects \ {o} : x.obj[p] = w.obj[p] /\ x.store[p] = w.store[p],
           x.obj[o] = Dead \/ x.obj[o].data = Store(o) \/ \E b \in Blocks : x.obj[o].data = Block(b),
           \A b \in Blocks :
              IF x.obj[o].data = Block(b)
              THEN x.heap[b] # <<>> /\ (w.heap[b] = <<>> \/ w.obj[o].data = Block(b))
              ELSE x.heap[b] = IF w.obj[o].data = Block(b) THEN <<>> ELSE w.heap[b]
    PROVE  Frame(w, x, {o})
<1>1. ASSUME NEW p \in Objects \ {o}, NEW b \in Blocks, w.obj[p].data = Block(b)
      PROVE  w.heap[b] # <<>> /\ w.obj[o].data # Block(b) /\ x.obj[o].data # Block(b) /\ x.heap[b] = w.heap[b]
  BY <1>1 DEF Owned
<1>2. \A p \in Objects \ {o} : Untouched(w, x, p)
  BY <1>1 DEF Untouched
<1>3. ASSUME NEW p \in Objects, NEW b \in Blocks, x.obj[p].data = Block(b) PROVE x.heap[b] # <<>>
  BY <1>1, <1>3
<1>4. ASSUME NEW p \in Objects, NEW q \in Objects, NEW b \in Blocks,
             x.obj[p].data = Block(b), x.obj[q].data = Block(b)
      PROVE  p = q
  <2>1. CASE p = o
    BY <1>1, <1>4, <2>1
  <2>2. CASE q = o
    BY <1>1, <1>4, <2>2
  <2>3. CASE p # o /\ q # o
    BY <1>4, <2>3 DEF Owned
  <2> QED
    BY <2>1, <2>2, <2>3
<1>5. ASSUME NEW b \in Blocks, x.heap[b] # <<>> PROVE \E p \in Objects : x.obj[p].data = Block(b)
  <2>1. CASE x.obj[o].data = Block(b)
    BY <2>1
  <2>2. CASE x.obj[o].data # Block(b)
    <3>1. w.heap[b] # <<>> /\ w.obj[o].data # Block(b)
      BY <1>5, <2>2
    <3>2. PICK p \in Objects : w.obj[p].data = Block(b)
      BY <3>1 DEF Owned
    <3> QED
      BY <3>1, <3>2
  <2> QED
    BY <2>1, <2>2
<1>6. \A p \in Objects :
          x.obj[p] = Dead \/ x.obj[p].data = Store(p) \/ \E b \in Blocks : x.obj[p].data = Block(b)
  BY DEF Owned
<1>7. Owned(x)
  BY <1>3, <1>4, <1>5, <1>6 DEF Owned
<1> QED
  BY <1>2, <1>7 DEF Frame

\* One change after the other.
LEMMA FrameThen ==
    ASSUME NEW w, NEW x, NEW y, NEW some, Frame(w, x, some), Frame(x, y, some)
    PROVE  Frame(w, y, some)
  BY DEF Frame, Untouched

\* What an object has stays when others change.
LEMMA CarriesOn ==
    ASSUME NEW w \in Worlds, Owned(w), NEW x, NEW o \in Objects, Untouched(w, x, o),
           NEW name, NEW payload, Carries(w, o, name, payload)
    PROVE  Carries(x, o, name, payload)
<1>1. w.obj[o].data = Store(o) \/ \E b \in Blocks : w.obj[o].data = Block(b)
  BY PlaceLemma DEF Owned, Carries, Fits, Buffers, Places
<1>2. x.obj[o] = w.obj[o] /\ Text(x, o) = Text(w, o)
  BY <1>1, PlaceLemma DEF Untouched, Text, Cells
<1> QED
  BY <1>2 DEF Carries, Fits

\* Text that is cut out, and memory with nothing in it.
LEMMA CutLemma ==
    ASSUME NEW cells \in Seq(Chars), NEW from \in Nat, NEW n \in Nat
    PROVE  /\ Cut(cells, from, n) \in Seq(Chars) /\ Len(Cut(cells, from, n)) = n
           /\ \A i \in 1 .. n : Cut(cells, from, n)[i] =
                 IF from + i <= Len(cells) THEN cells[from + i] ELSE Junk0
<1> DEFINE c == Cut(cells, from, n)
<1>1. Len(cells) \in Nat
  BY LenProperties
<1>2. ASSUME NEW i \in 1 .. n
      PROVE  (IF from + i <= Len(cells) THEN cells[from + i] ELSE Junk0) \in Chars
  <2>1. CASE from + i <= Len(cells)
    <3>1. from + i \in 1 .. Len(cells)
      BY <1>1, <2>1
    <3> QED
      BY <2>1, <3>1, ElementOfSeq
  <2>2. CASE ~(from + i <= Len(cells))
    BY <2>2 DEF Chars
  <2> QED
    BY <2>1, <2>2
<1>3. c \in [1 .. n -> Chars]
  BY <1>2 DEF Cut
<1>4. c \in Seq(Chars)
  <2> HIDE DEF c
  <2> QED
    BY <1>3, SeqDef
<1>5. DOMAIN c = 1 .. n /\ Len(c) = n
  <2>1. DOMAIN c = 1 .. n
    BY <1>3
  <2> HIDE DEF c
  <2>2. Len(c) \in Nat /\ DOMAIN c = 1 .. Len(c)
    BY <1>4, LenProperties
  <2> QED
    BY <2>1, <2>2
<1> QED
  BY <1>4, <1>5 DEF Cut

LEMMA JunksLemma ==
    ASSUME NEW n \in Nat
    PROVE  Junks(n) \in Seq(Chars) /\ Len(Junks(n)) = n
<1> DEFINE c == Junks(n)
<1>1. c \in [1 .. n -> Chars]
  BY DEF Junks, Chars
<1>2. DOMAIN c = 1 .. n
  BY <1>1
<1> HIDE DEF c
<1>3. c \in Seq(Chars)
  BY <1>1, SeqDef
<1>4. Len(c) \in Nat /\ DOMAIN c = 1 .. Len(c)
  BY <1>3, LenProperties
<1> QED
  BY <1>2, <1>3, <1>4 DEF c

\* What was cut out, with room behind it.
LEMMA RoomBehind ==
    ASSUME NEW cells \in Seq(Chars), NEW n \in Nat, NEW k \in Nat, n <= Len(cells)
    PROVE  LET c == Cut(cells, 0, n) \o Junks(k)
           IN  /\ c \in Seq(Chars) /\ Len(c) = n + k
               /\ \A i \in 1 .. n : c[i] = cells[i]
<1> DEFINE a == Cut(cells, 0, n)
           b == Junks(k)
<1>1. /\ a \in Seq(Chars) /\ Len(a) = n /\ b \in Seq(Chars) /\ Len(b) = k
      /\ \A i \in 1 .. n : a[i] = IF 0 + i <= Len(cells) THEN cells[0 + i] ELSE Junk0
  BY CutLemma, JunksLemma
<1>2. Len(cells) \in Nat
  BY LenProperties
<1> HIDE DEF a, b
<1>3. /\ a \o b \in Seq(Chars) /\ Len(a \o b) = Len(a) + Len(b)
      /\ \A i \in 1 .. Len(a) + Len(b) : (a \o b)[i] = IF i <= Len(a) THEN a[i] ELSE b[i - Len(a)]
  BY <1>1, ConcatProperties
<1>4. ASSUME NEW i \in 1 .. n PROVE (a \o b)[i] = cells[i]
  <2>1. i \in 1 .. Len(a) + Len(b) /\ i <= Len(a) /\ 0 + i = i /\ i <= Len(cells)
    BY <1>1, <1>2
  <2> QED
    BY <1>1, <1>3, <2>1
<1> QED
  BY <1>1, <1>3, <1>4 DEF a, b

\* The fields of a world.
LEMMA WorldLemma ==
    ASSUME NEW w \in Worlds
    PROVE  /\ w = [obj |-> w.obj, store |-> w.store, heap |-> w.heap]
           /\ w.obj \in [Objects -> Buffers \cup {Dead}]
           /\ w.store \in [Objects -> Seq(Chars)] /\ w.heap \in [Blocks -> Seq(Chars)]
  BY DEF Worlds

LEMMA Constructed ==
    ASSUME NEW w \in Worlds, Owned(w), NEW o \in Objects, w.obj[o] = Dead
    PROVE  LET x == Construct0(w, o)
           IN  /\ Frame(w, x, {o}) /\ Fits(x, o) /\ x.obj[o].size = 0
               /\ x.obj[o].logger_name = NoView /\ x.obj[o].payload = NoView
<1> DEFINE x == Construct0(w, o)
           r == [data |-> Store(o), size |-> 0, capacity |-> Inline, logger_name |-> NoView, payload |-> NoView]
<1>1. x = [w EXCEPT !.obj[o] = r, !.store[o] = Junks(Inline)]
  BY DEF Construct0
<1>2. Inline \in Nat \ {0}
  BY BufferAssumption
<1>3. r \in Buffers
  BY <1>2 DEF Buffers, Places, Views, NoView, StringView, Nowhere
<1>4. Junks(Inline) \in Seq(Chars) /\ Len(Junks(Inline)) = Inline
  BY <1>2, JunksLemma
<1>5. r.data = Store(o) /\ r.size = 0 /\ r.capacity = Inline /\ r.logger_name = NoView /\ r.payload = NoView
  OBVIOUS
<1> HIDE DEF x, r
<1>6. /\ x.obj = [w.obj EXCEPT ![o] = r] /\ x.store = [w.store EXCEPT ![o] = Junks(Inline)]
      /\ x.heap = w.heap /\ x \in Worlds
  <2>1. /\ x.obj = [w.obj EXCEPT ![o] = r] /\ x.store = [w.store EXCEPT ![o] = Junks(Inline)]
        /\ x.heap = w.heap
    BY <1>1, WorldLemma
  <2>2. /\ x.obj \in [Objects -> Buffers \cup {Dead}] /\ x.store \in [Objects -> Seq(Chars)]
        /\ x.heap \in [Blocks -> Seq(Chars)]
    BY <1>3, <1>4, <2>1, WorldLemma
  <2> QED
    BY <1>1, <2>1, <2>2 DEF Worlds
<1>7. /\ x.obj[o] = r /\ x.store[o] = Junks(Inline) /\ x.heap = w.heap
      /\ \A p \in Objects \ {o} : x.obj[p] = w.obj[p] /\ x.store[p] = w.store[p]
  BY <1>6, WorldLemma
<1>8. Frame(w, x, {o})
  <2>1. \A b \in Blocks : x.obj[o].data # Block(b) /\ w.obj[o].data # Block(b)
    BY <1>5, <1>7, PlaceLemma
  <2> QED
    BY <1>5, <1>6, <1>7, <2>1, Alone
<1>9. Fits(x, o)
  BY <1>2, <1>3, <1>4, <1>5, <1>7, PlaceLemma DEF Fits, Text, Cells
<1> QED
  BY <1>5, <1>7, <1>8, <1>9 DEF x

\* A block is given back.
LEMMA DeallocateLemma ==
    ASSUME NEW w \in Worlds, NEW o \in Objects, 
           \/ w.obj[o].data \in {Nowhere, Store(o)}
           \/ \E b \in Blocks : w.obj[o].data = Block(b)
    PROVE  LET y == Deallocate(w, o)
           IN  /\ y \in Worlds /\ y.obj = w.obj /\ y.store = w.store
               /\ \A b \in Blocks : y.heap[b] = IF w.obj[o].data = Block(b) THEN <<>> ELSE w.heap[b]
<1> DEFINE y == Deallocate(w, o)
           p == w.obj[o].data
<1>1. CASE p \in {Nowhere, Store(o)}
  <2>1. y = w /\ \A b \in Blocks : p # Block(b)
    BY <1>1, PlaceLemma DEF Deallocate
  <2> QED
    BY <2>1
<1>2. ASSUME NEW c \in Blocks, p = Block(c)
      PROVE  /\ y \in Worlds /\ y.obj = w.obj /\ y.store = w.store
             /\ \A b \in Blocks : y.heap[b] = IF p = Block(b) THEN <<>> ELSE w.heap[b]
  <2>1. y = [w EXCEPT !.heap[c] = <<>>]
    BY <1>2, PlaceLemma DEF Deallocate
  <2>2. <<>> \in Seq(Chars)
    BY EmptySeq
  <2> HIDE DEF y
  <2>3. y.obj = w.obj /\ y.store = w.store /\ y.heap = [w.heap EXCEPT ![c] = <<>>]
    BY <2>1, WorldLemma
  <2>4. y \in Worlds
    <3>1. y.heap \in [Blocks -> Seq(Chars)]
      BY <2>2, <2>3, WorldLemma
    <3> QED
      BY <2>1, <2>3, <3>1, WorldLemma DEF Worlds
  <2>5. \A b \in Blocks : p = Block(b) <=> b = c
    BY <1>2, PlaceLemma
  <2> QED
    BY <2>3, <2>4, <2>5, WorldLemma
<1> QED
  BY <1>1, <1>2

LEMMA Destroyed ==
    ASSUME NEW w \in Worlds, Owned(w), NEW o \in Objects
    PROVE  Frame(w, Destroy0(w, o), {o}) /\ Destroy0(w, o).obj[o] = Dead
<1> DEFINE x == Destroy0(w, o)
           y == Deallocate(w, o)
           p == w.obj[o].data
<1>1. <<>> \in Seq(Chars)
  BY EmptySeq
<1>2. /\ y \in Worlds /\ y.obj = w.obj /\ y.store = w.store
      /\ \A b \in Blocks : y.heap[b] = IF p = Block(b) THEN <<>> ELSE w.heap[b]
  <2>1. p \in {Nowhere, Store(o)} \/ \E b \in Blocks : p = Block(b)
    BY PlaceLemma DEF Owned
  <2> HIDE DEF y
  <2> QED
    BY <2>1, DeallocateLemma DEF y
<1>3. x = [y EXCEPT !.obj[o] = Dead, !.store[o] = <<>>]
  BY DEF Destroy0
<1> HIDE DEF y, x
<1>4. /\ x.obj = [w.obj EXCEPT ![o] = Dead] /\ x.store = [w.store EXCEPT ![o] = <<>>]
      /\ x.heap = y.heap
  BY <1>2, <1>3 DEF Worlds
<1>5. x \in Worlds
  <2>1. /\ x.obj \in [Objects -> Buffers \cup {Dead}] /\ x.store \in [Objects -> Seq(Chars)]
        /\ x.heap \in [Blocks -> Seq(Chars)]
    BY <1>1, <1>2, <1>4, WorldLemma
  <2> QED
    BY <1>2, <1>3, <2>1 DEF Worlds
<1>6. x.obj[o] = Dead /\ \A q \in Objects \ {o} : x.obj[q] = w.obj[q] /\ x.store[q] = w.store[q]
  BY <1>4, WorldLemma
<1>7. ASSUME NEW b \in Blocks
      PROVE  IF x.obj[o].data = Block(b)
             THEN x.heap[b] # <<>> /\ (w.heap[b] = <<>> \/ w.obj[o].data = Block(b))
             ELSE x.heap[b] = IF w.obj[o].data = Block(b) THEN <<>> ELSE w.heap[b]
  BY <1>2, <1>4, <1>6, PlaceLemma
<1>8. Frame(w, x, {o})
  BY <1>5, <1>6, <1>7, Alone
<1> QED
  BY <1>6, <1>8 DEF x

\* More room: in a block that was free, and with the text that was there.
LEMMA Grown ==
    ASSUME NEW w \in Worlds, Owned(w), NEW o \in Objects, Fits(w, o),
           NEW size \in Nat, size > w.obj[o].capacity
    PROVE  LET x == Grow(w, o, size)
           IN  /\ Frame(w, x, {o}) /\ Fits(x, o) /\ size <= x.obj[o].capacity
               /\ x.obj[o].size = w.obj[o].size
               /\ x.obj[o].logger_name = w.obj[o].logger_name /\ x.obj[o].payload = w.obj[o].payload
               /\ \A i \in 1 .. w.obj[o].size : Text(x, o)[i] = Text(w, o)[i]
<1> DEFINE old == w.obj[o]
           more == old.capacity + old.capacity \div 2
           capacity == IF size > more THEN size ELSE more
           b == FreeBlock(w)
           cells == Cut(Text(w, o), 0, old.size) \o Junks(capacity - old.size)
           r == [old EXCEPT !.data = Block(b), !.capacity = capacity]
           x == Grow(w, o, size)
<1>1. /\ old \in Buffers /\ old.size \in Nat /\ old.capacity \in Nat /\ old.size <= old.capacity
      /\ Len(Text(w, o)) = old.capacity
  BY DEF Fits, Buffers
<1>2. b \in Blocks /\ w.heap[b] = <<>>
  BY FreeLemma
<1>3. capacity \in Nat /\ capacity >= size /\ capacity >= old.size /\ capacity - old.size \in Nat
  <2>1. more \in Nat
    BY <1>1
  <2> HIDE DEF more
  <2> QED
    BY <1>1, <2>1
<1>4. Text(w, o) \in Seq(Chars)
  <2>1. old.data = Store(o) \/ \E c \in Blocks : old.data = Block(c)
    BY <1>1, PlaceLemma DEF Owned, Buffers, Places
  <2> QED
    BY <2>1, WorldLemma, PlaceLemma DEF Text, Cells
<1>5. cells \in Seq(Chars) /\ Len(cells) = capacity /\ \A i \in 1 .. old.size : cells[i] = Text(w, o)[i]
  <2> HIDE DEF capacity
  <2> DEFINE k == capacity - old.size
             n == old.size
             t == Text(w, o)
  <2>1. n + k = capacity /\ k \in Nat /\ n \in Nat /\ n <= Len(t) /\ t \in Seq(Chars)
    BY <1>1, <1>3, <1>4
  <2>2. cells = Cut(t, 0, n) \o Junks(k)
    OBVIOUS
  <2> HIDE DEF k, n, t, cells
  <2>3. cells \in Seq(Chars) /\ Len(cells) = n + k /\ \A i \in 1 .. n : cells[i] = t[i]
    BY <2>1, <2>2, RoomBehind
  <2> QED
    BY <2>1, <2>3 DEF n, t
<1> DEFINE y == [w EXCEPT !.heap[b] = cells]
           z == Deallocate(y, o)
<1>61. x = [z EXCEPT !.obj[o].data = Block(b), !.obj[o].capacity = capacity]
  BY DEF Grow, Text
<1>62. y \in Worlds /\ y.obj = w.obj /\ y.store = w.store /\ y.heap = [w.heap EXCEPT ![b] = cells]
  <2>0. y = [w EXCEPT !.heap[b] = cells]
    OBVIOUS
  <2> HIDE DEF b, cells, y
  <2>1. y.obj = w.obj /\ y.store = w.store /\ y.heap = [w.heap EXCEPT ![b] = cells]
    BY <2>0, WorldLemma
  <2>2. y.heap \in [Blocks -> Seq(Chars)]
    BY <1>2, <1>5, <2>1, WorldLemma
  <2> QED
    BY <2>0, <2>1, <2>2, WorldLemma DEF Worlds
<1>63. /\ z \in Worlds /\ z.obj = w.obj /\ z.store = w.store
       /\ \A c \in Blocks : z.heap[c] = IF old.data = Block(c) THEN <<>> ELSE y.heap[c]
  <2> HIDE DEF y
  <2>1. y.obj[o].data = old.data
    BY <1>62
  <2>2. old.data \in {Nowhere, Store(o)} \/ \E c \in Blocks : old.data = Block(c)
    BY <1>1, PlaceLemma DEF Owned, Buffers, Places
  <2>3. /\ z \in Worlds /\ z.obj = y.obj /\ z.store = y.store
        /\ \A c \in Blocks : z.heap[c] = IF y.obj[o].data = Block(c) THEN <<>> ELSE y.heap[c]
    <3>1. y \in Worlds
      BY <1>62
    <3>2. y.obj[o].data \in {Nowhere, Store(o)} \/ \E c \in Blocks : y.obj[o].data = Block(c)
      BY <2>1, <2>2
    <3> HIDE DEF z
    <3> QED
      BY <3>1, <3>2, DeallocateLemma DEF z
  <2> QED
    BY <1>62, <2>1, <2>3
<1>7. r \in Buffers
  <2> HIDE DEF capacity, b
  <2> QED
    BY <1>1, <1>2, <1>3 DEF Buffers, Places
<1>8. /\ r.data = Block(b) /\ r.capacity = capacity /\ r.size = old.size
      /\ r.logger_name = old.logger_name /\ r.payload = old.payload
  BY <1>1 DEF Buffers
<1> HIDE DEF capacity, b, cells, r
<1>9. \A c \in Blocks : old.data = Block(c) => c # b
  BY <1>2 DEF Owned
<1> HIDE DEF x, y, z
<1>10. /\ x.obj = [w.obj EXCEPT ![o] = r] /\ x.store = w.store /\ x.heap = z.heap
  BY <1>61, <1>63 DEF Worlds, r
<1>11. x \in Worlds
  <2>1. x.obj \in [Objects -> Buffers \cup {Dead}]
    BY <1>7, <1>10, WorldLemma
  <2> QED
    BY <1>10, <1>61, <1>63, <2>1 DEF Worlds
<1>12. /\ x.obj[o] = r /\ x.heap[b] = cells /\ x.store = w.store
       /\ \A p \in Objects \ {o} : x.obj[p] = w.obj[p]
       /\ \A c \in Blocks \ {b} : x.heap[c] = IF old.data = Block(c) THEN <<>> ELSE w.heap[c]
  BY <1>2, <1>9, <1>10, <1>62, <1>63, WorldLemma
<1>13. Text(x, o) = cells
  BY <1>2, <1>8, <1>12, PlaceLemma DEF Text, Cells
<1>14. cells # <<>>
  BY <1>1, <1>3, <1>5, EmptySeq
<1>15. \A c \in Blocks : x.obj[o].data = Block(c) <=> c = b
  BY <1>8, <1>12, PlaceLemma
<1>16. Frame(w, x, {o})
  <2>1. ASSUME NEW c \in Blocks
        PROVE  IF x.obj[o].data = Block(c)
               THEN x.heap[c] # <<>> /\ (w.heap[c] = <<>> \/ w.obj[o].data = Block(c))
               ELSE x.heap[c] = IF w.obj[o].data = Block(c) THEN <<>> ELSE w.heap[c]
    BY <1>2, <1>12, <1>14, <1>15
  <2>2. \E c \in Blocks : x.obj[o].data = Block(c)
    BY <1>2, <1>15
  <2> QED
    BY <1>11, <1>12, <2>1, <2>2, Alone
<1>17. Fits(x, o)
  BY <1>1, <1>3, <1>5, <1>7, <1>8, <1>12, <1>13, PlaceLemma DEF Fits
<1> QED
  BY <1>3, <1>5, <1>8, <1>12, <1>13, <1>16, <1>17 DEF x

\* A world differs from itself nowhere.
LEMMA FrameSame ==
    ASSUME NEW w \in Worlds, Owned(w), NEW some PROVE Frame(w, w, some)
  BY DEF Frame, Untouched

\* Room for a text, in the block there is or in a larger one.
LEMMA Reserved ==
    ASSUME NEW w \in Worlds, Owned(w), NEW o \in Objects, Fits(w, o), NEW size \in Nat
    PROVE  LET x == Reserve(w, o, size)
           IN  /\ Frame(w, x, {o}) /\ Fits(x, o) /\ size <= x.obj[o].capacity
               /\ x.obj[o].size = w.obj[o].size
               /\ x.obj[o].logger_name = w.obj[o].logger_name /\ x.obj[o].payload = w.obj[o].payload
               /\ \A i \in 1 .. w.obj[o].size : Text(x, o)[i] = Text(w, o)[i]
<1>1. w.obj[o].capacity \in Nat
  BY DEF Fits, Buffers
<1>2. CASE size > w.obj[o].capacity
  BY <1>2, Grown DEF Reserve
<1>3. CASE ~(size > w.obj[o].capacity)
  BY <1>1, <1>3, FrameSame DEF Reserve
<1> QED
  BY <1>2, <1>3

\* The text of a buffer is a sequence of cells, in the object or in a block.
LEMMA TextLemma ==
    ASSUME NEW w \in Worlds, Owned(w), NEW o \in Objects, w.obj[o] \in Buffers
    PROVE  /\ w.obj[o].data = Store(o) \/ \E b \in Blocks : w.obj[o].data = Block(b)
           /\ Text(w, o) \in Seq(Chars)
<1>1. w.obj[o].data = Store(o) \/ \E b \in Blocks : w.obj[o].data = Block(b)
  BY PlaceLemma DEF Owned, Buffers, Places
<1>2. Text(w, o) \in Seq(Chars)
  BY <1>1, WorldLemma, PlaceLemma DEF Text, Cells
<1> QED
  BY <1>1, <1>2

\* Some cells are written over.
LEMMA Written ==
    ASSUME NEW w \in Worlds, Owned(w), NEW o \in Objects, Fits(w, o), NEW from \in Nat,
           NEW text \in Seq(Chars), from + Len(text) <= w.obj[o].capacity
    PROVE  LET x == WriteCells(w, w.obj[o].data, from, text)
           IN  /\ Frame(w, x, {o}) /\ Fits(x, o) /\ x.obj = w.obj
               /\ \A i \in 1 .. w.obj[o].capacity :
                     Text(x, o)[i] = IF i \in from + 1 .. from + Len(text) THEN text[i - from] ELSE Text(w, o)[i]
<1> DEFINE p == w.obj[o].data
           x == WriteCells(w, p, from, text)
           t == Text(w, o)
           c == [i \in DOMAIN t |-> IF i \in from + 1 .. from + Len(text) THEN text[i - from] ELSE t[i]]
           n == w.obj[o].capacity
<1>1. /\ p = Store(o) \/ \E b \in Blocks : p = Block(b)
      /\ t \in Seq(Chars) /\ Len(t) = n /\ DOMAIN t = 1 .. n /\ n \in Nat /\ n >= 1 /\ Len(text) \in Nat
      /\ w.obj[o] \in Buffers
  <2>1. w.obj[o] \in Buffers /\ Len(t) = n /\ n \in Nat /\ n >= 1
    BY DEF Fits, Buffers
  <2>2. p = Store(o) \/ \E b \in Blocks : p = Block(b)
    BY <2>1, TextLemma
  <2>3. t \in Seq(Chars)
    BY <2>1, TextLemma
  <2> HIDE DEF t
  <2> QED
    BY <2>1, <2>2, <2>3, LenProperties
<1> HIDE DEF t, n
<1>2. c \in Seq(Chars) /\ Len(c) = n /\ c # <<>>
  <2>1. c \in [1 .. n -> Chars]
    <3>1. ASSUME NEW i \in 1 .. n
          PROVE  (IF i \in from + 1 .. from + Len(text) THEN text[i - from] ELSE t[i]) \in Chars
      <4>1. t[i] \in Chars
        BY <1>1, ElementOfSeq
      <4>2. ASSUME i \in from + 1 .. from + Len(text) PROVE text[i - from] \in Chars
        <5>1. i - from \in 1 .. Len(text)
          BY <1>1, <4>2
        <5> QED
          BY <5>1, ElementOfSeq
      <4> QED
        BY <4>1, <4>2
    <3> QED
      BY <1>1, <3>1
  <2>2. DOMAIN c = 1 .. n
    BY <1>1
  <2> HIDE DEF c
  <2>3. c \in Seq(Chars)
    BY <1>1, <2>1, SeqDef
  <2>4. Len(c) \in Nat /\ DOMAIN c = 1 .. Len(c)
    BY <2>3, LenProperties
  <2>5. Len(c) = n
    BY <1>1, <2>2, <2>4
  <2> QED
    BY <1>1, <2>3, <2>5, EmptySeq
<1>3. \A i \in 1 .. n : c[i] = IF i \in from + 1 .. from + Len(text) THEN text[i - from] ELSE t[i]
  BY <1>1
<1>4. CASE p = Store(o)
  <2>0. t = w.store[o]
    BY <1>4, PlaceLemma DEF t, Text, Cells
  <2>1. x = [w EXCEPT !.store[o] = c]
    BY <1>4, <2>0, PlaceLemma DEF WriteCells
  <2> HIDE DEF x, c
  <2>2. x.obj = w.obj /\ x.store = [w.store EXCEPT ![o] = c] /\ x.heap = w.heap
    BY <2>1, WorldLemma
  <2>3. x \in Worlds
    <3>1. x.store \in [Objects -> Seq(Chars)]
      BY <1>2, <2>2, WorldLemma
    <3> QED
      BY <2>1, <2>2, <3>1, WorldLemma DEF Worlds
  <2>4. x.store[o] = c /\ \A q \in Objects \ {o} : x.obj[q] = w.obj[q] /\ x.store[q] = w.store[q]
    BY <2>2, WorldLemma
  <2>5. \A b \in Blocks : x.obj[o].data # Block(b) /\ w.obj[o].data # Block(b)
    BY <1>4, <2>2, PlaceLemma
  <2>6. Frame(w, x, {o})
    BY <1>4, <2>2, <2>3, <2>4, <2>5, Alone
  <2>7. Text(x, o) = c
    BY <1>4, <2>2, <2>4, PlaceLemma DEF Text, Cells
  <2>8. Fits(x, o)
    BY <1>2, <2>2, <2>7 DEF Fits, n
  <2> QED
    BY <1>3, <2>2, <2>6, <2>7, <2>8 DEF x, t, n
<1>5. ASSUME NEW b \in Blocks, p = Block(b)
      PROVE  /\ Frame(w, x, {o}) /\ Fits(x, o) /\ x.obj = w.obj
             /\ Text(x, o) = c
  <2>0. t = w.heap[b]
    BY <1>5, PlaceLemma DEF t, Text, Cells
  <2>1. x = [w EXCEPT !.heap[b] = c]
    <3>1. x = WriteCells(w, Block(b), from, text)
      BY <1>5
    <3>2. OnHeap(Block(b)) /\ Block(b)[2] = b
      BY PlaceLemma
    <3> HIDE DEF x
    <3> QED
      BY <2>0, <3>1, <3>2 DEF WriteCells
  <2> HIDE DEF x, c
  <2>2. x.obj = w.obj /\ x.heap = [w.heap EXCEPT ![b] = c] /\ x.store = w.store
    BY <2>1, WorldLemma
  <2>3. x \in Worlds
    <3>1. x.heap \in [Blocks -> Seq(Chars)]
      BY <1>2, <2>2, WorldLemma
    <3> QED
      BY <2>1, <2>2, <3>1, WorldLemma DEF Worlds
  <2>4. x.heap[b] = c /\ \A d \in Blocks \ {b} : x.heap[d] = w.heap[d]
    BY <2>2, WorldLemma
  <2>5. \A d \in Blocks : (x.obj[o].data = Block(d) <=> d = b) /\ (w.obj[o].data = Block(d) <=> d = b)
    BY <1>5, <2>2, PlaceLemma
  <2>6. Frame(w, x, {o})
    <3>1. ASSUME NEW d \in Blocks
          PROVE  IF x.obj[o].data = Block(d)
                 THEN x.heap[d] # <<>> /\ (w.heap[d] = <<>> \/ w.obj[o].data = Block(d))
                 ELSE x.heap[d] = IF w.obj[o].data = Block(d) THEN <<>> ELSE w.heap[d]
      BY <1>2, <2>4, <2>5
    <3>2. x.obj[o].data = Block(b)
      BY <2>5
    <3> QED
      BY <2>2, <2>3, <3>1, <3>2, Alone
  <2>7. Text(x, o) = c
    BY <1>5, <2>2, <2>4, PlaceLemma DEF Text, Cells
  <2>8. Fits(x, o)
    BY <1>2, <2>2, <2>7 DEF Fits, n
  <2> QED
    BY <2>2, <2>6, <2>7, <2>8
<1> QED
  BY <1>1, <1>3, <1>4, <1>5 DEF t, n

\* What an object says of its text changes, and not where it is.
LEMMA Relabelled ==
    ASSUME NEW w \in Worlds, NEW x \in Worlds, NEW o \in Objects, NEW r \in Buffers,
           Owned(w), Fits(w, o),
           r.data = w.obj[o].data, r.capacity = w.obj[o].capacity, r.size <= r.capacity,
           x.obj[o] = r, \A q \in Objects \ {o} : x.obj[q] = w.obj[q],
           x.store = w.store, x.heap = w.heap
    PROVE  Frame(w, x, {o}) /\ Fits(x, o) /\ Text(x, o) = Text(w, o)
<1>1. x.obj[o] = r /\ \A q \in Objects \ {o} : x.obj[q] = w.obj[q] /\ x.store[q] = w.store[q]
  OBVIOUS
<1>2. w.obj[o] \in Buffers
  BY DEF Fits
<1>3. r.data = Store(o) \/ \E b \in Blocks : r.data = Block(b)
  BY <1>2, TextLemma
<1>4. ASSUME NEW d \in Blocks
      PROVE  IF x.obj[o].data = Block(d)
             THEN x.heap[d] # <<>> /\ (w.heap[d] = <<>> \/ w.obj[o].data = Block(d))
             ELSE x.heap[d] = IF w.obj[o].data = Block(d) THEN <<>> ELSE w.heap[d]
  BY <1>1 DEF Owned
<1>5. Frame(w, x, {o})
  BY <1>1, <1>3, <1>4, Alone
<1>6. Text(x, o) = Text(w, o)
  BY <1>1 DEF Text, Cells
<1> QED
  BY <1>1, <1>5, <1>6 DEF Fits

\* x is w with a text after what the buffer of o held.
TextAdded(w, x, o, text) ==
    /\ Frame(w, x, {o}) /\ Fits(x, o) /\ x.obj[o].size = w.obj[o].size + Len(text)
    /\ x.obj[o].logger_name = w.obj[o].logger_name /\ x.obj[o].payload = w.obj[o].payload
    /\ \A i \in 1 .. w.obj[o].size : Text(x, o)[i] = Text(w, o)[i]
    /\ \A i \in 1 .. Len(text) : Text(x, o)[w.obj[o].size + i] = text[i]

\* A text comes behind the one that is there.
LEMMA TextAppended ==
    ASSUME NEW w \in Worlds, Owned(w), NEW o \in Objects, Fits(w, o), NEW text \in Seq(Chars)
    PROVE  TextAdded(w, AppendText(w, o, text), o, text)
<1> DEFINE n == w.obj[o].size
           size == n + Len(text)
           y == Reserve(w, o, size)
           z == WriteCells(y, y.obj[o].data, n, text)
           x == AppendText(w, o, text)
<1>1. n \in Nat /\ Len(text) \in Nat /\ size \in Nat
  <2>1. w.obj[o] \in Buffers
    BY DEF Fits
  <2>2. n \in Nat
    BY <2>1 DEF Buffers
  <2>3. Len(text) \in Nat
    BY LenProperties
  <2> QED
    BY <2>2, <2>3
<1>2. x = [z EXCEPT !.obj[o].size = size]
  BY DEF AppendText
<1> HIDE DEF x, size, n
<1>3. /\ Frame(w, y, {o}) /\ Fits(y, o) /\ size <= y.obj[o].capacity /\ y.obj[o].size = n
      /\ y.obj[o].logger_name = w.obj[o].logger_name /\ y.obj[o].payload = w.obj[o].payload
      /\ \A i \in 1 .. n : Text(y, o)[i] = Text(w, o)[i]
  <2>1. /\ Frame(w, y, {o}) /\ Fits(y, o) /\ size <= y.obj[o].capacity /\ y.obj[o].size = w.obj[o].size
        /\ y.obj[o].logger_name = w.obj[o].logger_name /\ y.obj[o].payload = w.obj[o].payload
        /\ \A i \in 1 .. w.obj[o].size : Text(y, o)[i] = Text(w, o)[i]
    BY <1>1, Reserved, ZenonT(60)
  <2> HIDE DEF y
  <2> QED
    BY <2>1 DEF n
<1> HIDE DEF y
<1>4. y \in Worlds /\ Owned(y) /\ y.obj[o] \in Buffers /\ y.obj[o].capacity \in Nat
  BY <1>3 DEF Frame, Fits, Buffers
<1>5. /\ Frame(y, z, {o}) /\ Fits(z, o) /\ z.obj = y.obj
      /\ \A i \in 1 .. y.obj[o].capacity :
            Text(z, o)[i] = IF i \in n + 1 .. n + Len(text) THEN text[i - n] ELSE Text(y, o)[i]
  <2>1. n + Len(text) <= y.obj[o].capacity
    BY <1>3 DEF size
  <2>2. n \in Nat /\ y \in Worlds /\ Owned(y) /\ Fits(y, o)
    BY <1>1, <1>3, <1>4
  <2> QED
    <3>1. /\ Frame(y, WriteCells(y, y.obj[o].data, n, text), {o})
          /\ Fits(WriteCells(y, y.obj[o].data, n, text), o)
          /\ WriteCells(y, y.obj[o].data, n, text).obj = y.obj
          /\ \A i \in 1 .. y.obj[o].capacity :
                Text(WriteCells(y, y.obj[o].data, n, text), o)[i] =
                    IF i \in n + 1 .. n + Len(text) THEN text[i - n] ELSE Text(y, o)[i]
      BY <2>1, <2>2, Written, ZenonT(60)
    <3> QED
      BY <3>1
<1> HIDE DEF z
<1> DEFINE r == [y.obj[o] EXCEPT !.size = size]
<1>6. /\ z \in Worlds /\ Owned(z) /\ r \in Buffers /\ r.data = z.obj[o].data
      /\ r.capacity = z.obj[o].capacity /\ r.size = size /\ r.size <= r.capacity
      /\ r.logger_name = y.obj[o].logger_name /\ r.payload = y.obj[o].payload
  BY <1>1, <1>3, <1>4, <1>5 DEF Frame, Buffers
<1>7. x.obj = [z.obj EXCEPT ![o] = r] /\ x.store = z.store /\ x.heap = z.heap
  BY <1>2, <1>5, <1>6 DEF Worlds
<1> HIDE DEF r
<1>8. x \in Worlds
  <2>1. x.obj \in [Objects -> Buffers \cup {Dead}]
    BY <1>6, <1>7, WorldLemma
  <2> QED
    BY <1>2, <1>6, <1>7, <2>1 DEF Worlds
<1>9. Frame(z, x, {o}) /\ Fits(x, o) /\ Text(x, o) = Text(z, o) /\ x.obj[o] = r
  <2>1. z \in Worlds /\ Owned(z) /\ Fits(z, o) /\ r \in Buffers
    BY <1>5, <1>6
  <2>2. r.data = z.obj[o].data /\ r.capacity = z.obj[o].capacity /\ r.size <= r.capacity
    BY <1>6
  <2>3. x.obj[o] = r /\ \A q \in Objects \ {o} : x.obj[q] = z.obj[q]
    BY <1>6, <1>7, WorldLemma
  <2> QED
    BY <1>7, <1>8, <2>1, <2>2, <2>3, Relabelled
<1>10. Frame(w, x, {o})
  BY <1>3, <1>5, <1>9 DEF Frame, Untouched
<1>11. ASSUME NEW i \in 1 .. n PROVE Text(x, o)[i] = Text(w, o)[i]
  <2>1. i \in 1 .. y.obj[o].capacity /\ i \notin n + 1 .. n + Len(text)
    BY <1>1, <1>3, <1>4 DEF size
  <2> QED
    BY <1>3, <1>5, <1>9, <2>1
<1>12. ASSUME NEW i \in 1 .. Len(text) PROVE Text(x, o)[n + i] = text[i]
  <2>1. n + i \in 1 .. y.obj[o].capacity /\ n + i \in n + 1 .. n + Len(text) /\ (n + i) - n = i
    BY <1>1, <1>3, <1>4 DEF size
  <2> QED
    BY <1>5, <1>9, <2>1
<1> QED
  <2>1. TextAdded(w, x, o, text)
    BY <1>3, <1>6, <1>9, <1>10, <1>11, <1>12 DEF n, size, TextAdded
  <2> QED
    BY <2>1 DEF x

\* The fields of a buffer.
MadeOf(data, size, capacity, l, m) ==
    [data |-> data, size |-> size, capacity |-> capacity, logger_name |-> l, payload |-> m]

\* A message made of two texts has them, in memory of its own.
LEMMA Captured ==
    ASSUME NEW w \in Worlds, Owned(w), NEW o \in Objects, w.obj[o] = Dead,
           NEW name \in Seq(Chars), NEW payload \in Seq(Chars)
    PROVE  LET x == Capture(w, o, name, payload)
           IN  Frame(w, x, {o}) /\ Carries(x, o, name, payload)
<1> DEFINE a == Construct0(w, o)
           b == AppendText(a, o, name)
           c == AppendText(b, o, payload)
           d == [c EXCEPT !.obj[o].logger_name.len = Len(name), !.obj[o].payload.len = Len(payload)]
           x == update_string_views(d, o)
           n == Len(name)
           k == Len(payload)
           p == c.obj[o].data
           r == [data |-> p, size |-> n + k, capacity |-> c.obj[o].capacity,
                 logger_name |-> StringView(p, 0, n), payload |-> StringView(p, n, k)]
<1>1. Capture(w, o, name, payload) = x
  BY DEF Capture
<1>2. n \in Nat /\ k \in Nat
  BY LenProperties
<1>3. /\ Frame(w, a, {o}) /\ Fits(a, o) /\ a.obj[o].size = 0 /\ a \in Worlds /\ Owned(a)
      /\ a.obj[o].logger_name = NoView /\ a.obj[o].payload = NoView
  BY Constructed DEF Frame
<1> HIDE DEF a
<1>4. /\ Frame(a, b, {o}) /\ Fits(b, o) /\ b.obj[o].size = n /\ b \in Worlds /\ Owned(b)
      /\ b.obj[o].logger_name = NoView /\ b.obj[o].payload = NoView
      /\ \A i \in 1 .. n : Text(b, o)[i] = name[i]
  <2>1. /\ Frame(a, b, {o}) /\ Fits(b, o) /\ b.obj[o].size = a.obj[o].size + n
        /\ b.obj[o].logger_name = a.obj[o].logger_name /\ b.obj[o].payload = a.obj[o].payload
        /\ \A i \in 1 .. n : Text(b, o)[a.obj[o].size + i] = name[i]
    <3>1. a \in Worlds /\ Owned(a) /\ Fits(a, o)
      BY <1>3
    <3>2. TextAdded(a, AppendText(a, o, name), o, name)
      BY <3>1, TextAppended
    <3> QED
      BY <3>2 DEF TextAdded
  <2> HIDE DEF b
  <2>2. \A i \in 1 .. n : 0 + i = i
    BY <1>2
  <2> QED
    BY <1>2, <1>3, <2>1, <2>2 DEF Frame
<1> HIDE DEF b
<1>5. /\ Frame(b, c, {o}) /\ Fits(c, o) /\ c.obj[o].size = n + k /\ c \in Worlds /\ Owned(c)
      /\ c.obj[o].logger_name = NoView /\ c.obj[o].payload = NoView
      /\ \A i \in 1 .. n : Text(c, o)[i] = name[i]
      /\ \A i \in 1 .. k : Text(c, o)[n + i] = payload[i]
  <2>1. /\ Frame(b, c, {o}) /\ Fits(c, o) /\ c.obj[o].size = b.obj[o].size + k
        /\ c.obj[o].logger_name = b.obj[o].logger_name /\ c.obj[o].payload = b.obj[o].payload
        /\ \A i \in 1 .. b.obj[o].size : Text(c, o)[i] = Text(b, o)[i]
        /\ \A i \in 1 .. k : Text(c, o)[b.obj[o].size + i] = payload[i]
    <3>1. b \in Worlds /\ Owned(b) /\ Fits(b, o)
      BY <1>4
    <3>2. TextAdded(b, AppendText(b, o, payload), o, payload)
      BY <3>1, TextAppended
    <3> QED
      BY <3>2 DEF TextAdded
  <2> HIDE DEF c
  <2> QED
    BY <1>4, <2>1 DEF Frame
<1> HIDE DEF c
<1>6. c.obj[o] \in Buffers /\ p \in Places
  BY <1>5 DEF Fits, Buffers
<1>7. d = [c EXCEPT !.obj[o].logger_name.len = n, !.obj[o].payload.len = k]
  OBVIOUS
<1>8. x = [d EXCEPT !.obj[o].logger_name = StringView(d.obj[o].data, 0, d.obj[o].logger_name.len),
                    !.obj[o].payload = StringView(d.obj[o].data, d.obj[o].logger_name.len, d.obj[o].payload.len)]
  BY DEF update_string_views
<1> HIDE DEF d, x
<1>9. /\ d.store = c.store /\ d.heap = c.heap /\ \A q \in Objects \ {o} : d.obj[q] = c.obj[q]
      /\ d.obj[o] = [c.obj[o] EXCEPT !.logger_name = [c.obj[o].logger_name EXCEPT !.len = n],
                                     !.payload = [c.obj[o].payload EXCEPT !.len = k]]
      /\ d = [obj |-> d.obj, store |-> d.store, heap |-> d.heap] /\ d.obj = [q \in Objects |-> d.obj[q]]
  BY <1>5, <1>6, <1>7 DEF Worlds, Buffers
<1>10. /\ d.obj[o].data = p /\ d.obj[o].logger_name.len = n /\ d.obj[o].payload.len = k
  BY <1>5, <1>6, <1>9 DEF Buffers, NoView, StringView
<1>11. /\ x.store = d.store /\ x.heap = d.heap /\ \A q \in Objects \ {o} : x.obj[q] = d.obj[q]
       /\ x.obj[o] = [d.obj[o] EXCEPT !.logger_name = StringView(p, 0, n), !.payload = StringView(p, n, k)]
       /\ x = [obj |-> x.obj, store |-> x.store, heap |-> x.heap]
       /\ x.obj = [q \in Objects |-> x.obj[q]]
  <2>1. x = [d EXCEPT !.obj[o].logger_name = StringView(p, 0, n), !.obj[o].payload = StringView(p, n, k)]
    BY <1>8, <1>10
  <2> QED
    BY <1>9, <2>1
<1>12. x.obj[o] = r
  <2> DEFINE e == c.obj[o]
             l == [e.logger_name EXCEPT !.len = n]
             m == [e.payload EXCEPT !.len = k]
             f == [e EXCEPT !.logger_name = l, !.payload = m]
  <2>1. e = MadeOf(e.data, e.size, e.capacity, e.logger_name, e.payload) /\ e.size = n + k
    BY <1>5, <1>6 DEF Buffers, MadeOf
  <2>2. d.obj[o] = f /\ f = [e EXCEPT !.logger_name = l, !.payload = m]
    BY <1>9
  <2> HIDE DEF l, m, e, f
  <2>3. f = MadeOf(e.data, e.size, e.capacity, l, m)
    BY <2>1, <2>2 DEF MadeOf
  <2>4. f = MadeOf(f.data, f.size, f.capacity, f.logger_name, f.payload) /\ f.data = e.data /\ f.size = e.size /\ f.capacity = e.capacity
    BY <2>3 DEF MadeOf
  <2>5. x.obj[o] = [f EXCEPT !.logger_name = StringView(p, 0, n), !.payload = StringView(p, n, k)]
    BY <1>11, <2>2
  <2>6. x.obj[o] = MadeOf(f.data, f.size, f.capacity, StringView(p, 0, n), StringView(p, n, k))
    BY <2>4, <2>5 DEF MadeOf
  <2> QED
    BY <2>1, <2>4, <2>6 DEF MadeOf, e
<1>13. /\ r \in Buffers /\ r.data = p /\ r.capacity = c.obj[o].capacity /\ r.size = n + k
       /\ r.size <= r.capacity
       /\ r.logger_name = StringView(p, 0, n) /\ r.payload = StringView(p, n, k)
  <2>1. StringView(p, 0, n) \in Views /\ StringView(p, n, k) \in Views
    BY <1>2, <1>6 DEF Views, StringView
  <2>2. c.obj[o].capacity \in Nat /\ n + k \in Nat /\ n + k <= c.obj[o].capacity
    BY <1>2, <1>5, <1>6 DEF Fits, Buffers
  <2> QED
    BY <1>6, <2>1, <2>2 DEF Buffers
<1> HIDE DEF r
<1>14. x \in Worlds
  <2>1. x.obj \in [Objects -> Buffers \cup {Dead}]
    <3>1. ASSUME NEW q \in Objects PROVE x.obj[q] \in Buffers \cup {Dead}
      <4>1. c.obj[q] \in Buffers \cup {Dead}
        BY <1>5, WorldLemma
      <4>2. q # o => x.obj[q] = c.obj[q]
        BY <1>9, <1>11
      <4> QED
        BY <1>12, <1>13, <4>1, <4>2
    <3>2. x.obj = [q \in Objects |-> x.obj[q]]
      BY <1>9, <1>11
    <3> QED
      BY <3>1, <3>2
  <2> QED
    BY <1>5, <1>9, <1>11, <2>1 DEF Worlds
<1>15. Frame(c, x, {o}) /\ Fits(x, o) /\ Text(x, o) = Text(c, o)
  <2>1. \A q \in Objects \ {o} : x.obj[q] = c.obj[q]
    BY <1>9, <1>11
  <2>2. x.store = c.store /\ x.heap = c.heap
    BY <1>9, <1>11
  <2>3. c \in Worlds /\ Owned(c) /\ Fits(c, o)
    BY <1>5
  <2> QED
    BY <1>12, <1>13, <1>14, <2>1, <2>2, <2>3, Relabelled
<1>16. Frame(w, x, {o})
  <2>1. Frame(w, b, {o}) /\ Frame(b, x, {o})
    BY <1>3, <1>4, <1>5, <1>15, FrameThen
  <2> QED
    BY <2>1, FrameThen
<1>17. Carries(x, o, name, payload)
  BY <1>5, <1>12, <1>13, <1>15 DEF Carries
<1> QED
  BY <1>1, <1>16, <1>17

\* A buffer that is moved into another leaves it what it had: the block, or a
\* copy of what was inside.
LEMMA BufferMoved ==
    ASSUME NEW u \in Worlds, NEW to \in Objects, NEW from \in Objects, to # from,
           u.obj[to] \in Buffers, u.obj[from] \in Buffers, u.obj[from].size <= u.obj[from].capacity,
           u.obj[from].data = Store(from) =>
              u.obj[from].capacity = Inline /\ Len(u.store[from]) = Inline,
           u.obj[from].data = Store(from) \/ \E b \in Blocks : u.obj[from].data = Block(b)
    PROVE  LET y == MoveBuffer(u, to, from)
               f == u.obj[from]
               t == u.obj[to]
           IN  /\ y \in Worlds /\ y.heap = u.heap
               /\ \A q \in Objects \ {to, from} : y.obj[q] = u.obj[q] /\ y.store[q] = u.store[q]
               /\ IF f.data = Store(from)
                  THEN /\ y.obj[to] = MadeOf(Store(to), f.size, f.capacity, t.logger_name, t.payload)
                       /\ y.obj[from] = f
                       /\ y.store[to] = Cut(u.store[from], 0, f.size) \o Junks(Inline - f.size)
                  ELSE /\ y.obj[to] = MadeOf(f.data, f.size, f.capacity, t.logger_name, t.payload)
                       /\ y.obj[from] = MadeOf(Store(from), f.size, 0, f.logger_name, f.payload)
<1> DEFINE f == u.obj[from]
           t == u.obj[to]
           y == MoveBuffer(u, to, from)
           cells == Cut(u.store[from], 0, f.size) \o Junks(Inline - f.size)
<1>1. /\ f = MadeOf(f.data, f.size, f.capacity, f.logger_name, f.payload)
      /\ t = MadeOf(t.data, t.size, t.capacity, t.logger_name, t.payload)
      /\ f.size \in Nat /\ f.capacity \in Nat
  BY DEF Buffers, MadeOf
<1>2. CASE f.data = Store(from)
  <2> DEFINE s == [u EXCEPT !.obj[to].data = Store(to), !.obj[to].capacity = f.capacity, !.store[to] = cells]
  <2>1. y = Resize(s, to, f.size)
    BY <1>2, PlaceLemma DEF MoveBuffer
  <2>2. s = [u EXCEPT !.obj[to].data = Store(to), !.obj[to].capacity = f.capacity, !.store[to] = cells]
    OBVIOUS
  <2>3. cells \in Seq(Chars)
    <3>1. /\ u.store[from] \in Seq(Chars) /\ f.size \in Nat /\ Inline - f.size \in Nat
          /\ f.size <= Len(u.store[from])
      BY <1>1, <1>2, BufferAssumption, WorldLemma
    <3> QED
      BY <3>1, RoomBehind
  <2> HIDE DEF s, y, cells
  <2>4. /\ s.store = [u.store EXCEPT ![to] = cells] /\ s.heap = u.heap
        /\ \A q \in Objects \ {to} : s.obj[q] = u.obj[q]
        /\ s.obj[to] = [t EXCEPT !.data = Store(to), !.capacity = f.capacity]
        /\ s = [obj |-> s.obj, store |-> s.store, heap |-> s.heap] /\ s.obj = [q \in Objects |-> s.obj[q]]
    BY <2>2 DEF Worlds
  <2>5. s.obj[to] = MadeOf(Store(to), t.size, f.capacity, t.logger_name, t.payload)
    <3> DEFINE e == s.obj[to]
    <3>1. e = [t EXCEPT !.data = Store(to), !.capacity = f.capacity]
      BY <2>4
    <3> HIDE DEF f, t, e
    <3>2. e = MadeOf(Store(to), t.size, f.capacity, t.logger_name, t.payload)
      BY <1>1, <3>1 DEF MadeOf
    <3> QED
      BY <3>2 DEF e
  <2>6. s.obj[to].capacity = f.capacity /\ ~(f.size > s.obj[to].capacity)
    BY <1>1, <2>5 DEF MadeOf
  <2>7. y = [s EXCEPT !.obj[to].size = f.size]
    BY <2>1, <2>6 DEF Resize, Reserve
  <2>8. /\ y.store = s.store /\ y.heap = s.heap /\ \A q \in Objects \ {to} : y.obj[q] = s.obj[q]
        /\ y.obj[to] = [s.obj[to] EXCEPT !.size = f.size]
        /\ y = [obj |-> y.obj, store |-> y.store, heap |-> y.heap] /\ y.obj = [q \in Objects |-> y.obj[q]]
    BY <2>4, <2>7
  <2>9. y.obj[to] = MadeOf(Store(to), f.size, f.capacity, t.logger_name, t.payload)
    BY <2>5, <2>8 DEF MadeOf
  <2>10. y \in Worlds
    <3>1. y.obj[to] \in Buffers
      BY <1>1, <2>9 DEF MadeOf, Buffers, Places
    <3>2. ASSUME NEW q \in Objects PROVE y.obj[q] \in Buffers \cup {Dead}
      <4>1. q # to => y.obj[q] = u.obj[q]
        BY <2>4, <2>8
      <4> QED
        BY <3>1, <4>1, WorldLemma
    <3>3. y.obj \in [Objects -> Buffers \cup {Dead}]
      BY <2>8, <3>2
    <3>4. y.store \in [Objects -> Seq(Chars)] /\ y.heap \in [Blocks -> Seq(Chars)]
      BY <2>3, <2>4, <2>8, WorldLemma
    <3> QED
      BY <2>8, <3>3, <3>4 DEF Worlds
  <2>11. y.store[to] = cells /\ \A q \in Objects \ {to, from} : y.store[q] = u.store[q]
    BY <2>4, <2>8, WorldLemma
  <2> QED
    BY <1>2, <2>4, <2>8, <2>9, <2>10, <2>11 DEF cells, y
<1>3. ASSUME NEW b \in Blocks, f.data = Block(b)
      PROVE  /\ y \in Worlds /\ y.heap = u.heap
             /\ \A q \in Objects \ {to, from} : y.obj[q] = u.obj[q] /\ y.store[q] = u.store[q]
             /\ y.obj[to] = MadeOf(f.data, f.size, f.capacity, t.logger_name, t.payload)
             /\ y.obj[from] = MadeOf(Store(from), f.size, 0, f.logger_name, f.payload)
  <2> DEFINE s == [u EXCEPT !.obj[to].data = f.data, !.obj[to].capacity = f.capacity,
                            !.obj[from].data = Store(from), !.obj[from].capacity = 0]
  <2>1. y = Resize(s, to, f.size)
    BY <1>3, PlaceLemma DEF MoveBuffer
  <2>2. s = [u EXCEPT !.obj[to].data = f.data, !.obj[to].capacity = f.capacity,
                      !.obj[from].data = Store(from), !.obj[from].capacity = 0]
    OBVIOUS
  <2> HIDE DEF s, y
  <2>3. /\ s.store = u.store /\ s.heap = u.heap /\ \A q \in Objects \ {to, from} : s.obj[q] = u.obj[q]
        /\ s.obj[to] = [t EXCEPT !.data = f.data, !.capacity = f.capacity]
        /\ s.obj[from] = [f EXCEPT !.data = Store(from), !.capacity = 0]
        /\ s = [obj |-> s.obj, store |-> s.store, heap |-> s.heap] /\ s.obj = [q \in Objects |-> s.obj[q]]
    BY <2>2 DEF Worlds
  <2>4. /\ s.obj[to] = MadeOf(f.data, t.size, f.capacity, t.logger_name, t.payload)
        /\ s.obj[from] = MadeOf(Store(from), f.size, 0, f.logger_name, f.payload)
    <3> DEFINE e == s.obj[to]
               g == s.obj[from]
    <3>1. e = [t EXCEPT !.data = f.data, !.capacity = f.capacity]
      BY <2>3
    <3>2. g = [f EXCEPT !.data = Store(from), !.capacity = 0]
      BY <2>3
    <3> HIDE DEF f, t, e, g
    <3>3. e = MadeOf(f.data, t.size, f.capacity, t.logger_name, t.payload)
      BY <1>1, <3>1 DEF MadeOf
    <3>4. g = MadeOf(Store(from), f.size, 0, f.logger_name, f.payload)
      BY <1>1, <3>2 DEF MadeOf
    <3> QED
      BY <3>3, <3>4 DEF e, g
  <2>5. s.obj[to].capacity = f.capacity /\ ~(f.size > s.obj[to].capacity)
    BY <1>1, <2>4 DEF MadeOf
  <2>6. y = [s EXCEPT !.obj[to].size = f.size]
    BY <2>1, <2>5 DEF Resize, Reserve
  <2>7. /\ y.store = s.store /\ y.heap = s.heap /\ \A q \in Objects \ {to} : y.obj[q] = s.obj[q]
        /\ y.obj[to] = [s.obj[to] EXCEPT !.size = f.size]
        /\ y = [obj |-> y.obj, store |-> y.store, heap |-> y.heap] /\ y.obj = [q \in Objects |-> y.obj[q]]
    BY <2>3, <2>6
  <2>8. y.obj[to] = MadeOf(f.data, f.size, f.capacity, t.logger_name, t.payload)
    BY <2>4, <2>7 DEF MadeOf
  <2>9. y.obj[from] = MadeOf(Store(from), f.size, 0, f.logger_name, f.payload)
    BY <2>4, <2>7
  <2>10. y \in Worlds
    <3>1. y.obj[to] \in Buffers /\ y.obj[from] \in Buffers
      <4>1. f.data \in Places /\ Store(from) \in Places
        BY <1>3 DEF Places
      <4> QED
        BY <1>1, <2>8, <2>9, <4>1 DEF MadeOf, Buffers
    <3>2. ASSUME NEW q \in Objects PROVE y.obj[q] \in Buffers \cup {Dead}
      <4>1. q # to /\ q # from => y.obj[q] = u.obj[q]
        BY <2>3, <2>7
      <4> QED
        BY <3>1, <4>1, WorldLemma
    <3>3. y.obj \in [Objects -> Buffers \cup {Dead}]
      BY <2>7, <3>2
    <3>4. y.store \in [Objects -> Seq(Chars)] /\ y.heap \in [Blocks -> Seq(Chars)]
      BY <2>3, <2>7, WorldLemma
    <3> QED
      BY <2>7, <3>3, <3>4 DEF Worlds
  <2> QED
    BY <2>3, <2>7, <2>8, <2>9, <2>10
<1> QED
  BY <1>2, <1>3, PlaceLemma

\* A message that is moved is whole in its new place, and the old place has
\* nothing that belongs to it.
LEMMA Moved ==
    ASSUME NEW w \in Worlds, Owned(w), NEW to \in Objects, NEW from \in Objects, to # from,
           w.obj[to] \in Buffers, NEW name \in Seq(Chars), NEW payload \in Seq(Chars),
           Carries(w, from, name, payload)
    PROVE  LET x == MoveAssign(w, to, from)
           IN  /\ Frame(w, x, {to, from}) /\ Carries(x, to, name, payload)
               /\ x.obj[from] \in Buffers /\ x.obj[from].data = Store(from)
<1> DEFINE f == w.obj[from]
           n == Len(name)
           k == Len(payload)
           v == CopyViews(w, to, from)
           u == Deallocate(v, to)
           y == MoveBuffer(u, to, from)
           x == MoveAssign(w, to, from)
<1>1. n \in Nat /\ k \in Nat
  BY LenProperties
<1>2. /\ f \in Buffers /\ f.size = n + k /\ f.size <= f.capacity /\ f.size \in Nat /\ f.capacity \in Nat
      /\ f.capacity >= 1
      /\ f.logger_name = StringView(f.data, 0, n) /\ f.payload = StringView(f.data, n, k)
      /\ f.data = Store(from) => f.capacity = Inline
      /\ f.data = Store(from) \/ \E b \in Blocks : f.data = Block(b)
      /\ Text(w, from) \in Seq(Chars) /\ Len(Text(w, from)) = f.capacity
      /\ f.data = Store(from) => w.store[from] = Text(w, from)
  <2>1. f \in Buffers
    BY DEF Carries, Fits
  <2>2. /\ f.data = Store(from) \/ \E b \in Blocks : f.data = Block(b)
        /\ Text(w, from) \in Seq(Chars)
    BY <2>1, TextLemma
  <2>3. f.data = Store(from) => w.store[from] = Text(w, from)
    BY PlaceLemma DEF Text, Cells
  <2> QED
    BY <2>1, <2>2, <2>3 DEF Carries, Fits, Buffers
<1>3. /\ v \in Worlds /\ v.store = w.store /\ v.heap = w.heap
      /\ \A q \in Objects \ {to} : v.obj[q] = w.obj[q]
      /\ v.obj[to] \in Buffers /\ v.obj[to].data = w.obj[to].data
      /\ v.obj[to].logger_name = f.logger_name /\ v.obj[to].payload = f.payload
  <2>1. v = [w EXCEPT !.obj[to].logger_name = f.logger_name, !.obj[to].payload = f.payload]
    BY DEF CopyViews
  <2> HIDE DEF v
  <2>2. /\ v.store = w.store /\ v.heap = w.heap
        /\ \A q \in Objects \ {to} : v.obj[q] = w.obj[q]
        /\ v.obj[to] = [w.obj[to] EXCEPT !.logger_name = f.logger_name, !.payload = f.payload]
        /\ v.obj = [q \in Objects |-> v.obj[q]] /\ v = [obj |-> v.obj, store |-> v.store, heap |-> v.heap]
    BY <2>1 DEF Worlds
  <2>3. /\ v.obj[to] \in Buffers /\ v.obj[to].data = w.obj[to].data
        /\ v.obj[to].logger_name = f.logger_name /\ v.obj[to].payload = f.payload
    BY <1>2, <2>2 DEF Buffers
  <2>4. v.obj \in [Objects -> Buffers \cup {Dead}]
    <3>1. ASSUME NEW q \in Objects PROVE v.obj[q] \in Buffers \cup {Dead}
      BY <2>2, <2>3, WorldLemma
    <3> QED
      BY <2>2, <3>1
  <2> QED
    BY <2>2, <2>3, <2>4 DEF Worlds
<1> HIDE DEF v
<1>4. /\ u \in Worlds /\ u.obj = v.obj /\ u.store = v.store
      /\ \A b \in Blocks : u.heap[b] = IF w.obj[to].data = Block(b) THEN <<>> ELSE w.heap[b]
  <2>1. v.obj[to].data \in {Nowhere, Store(to)} \/ \E b \in Blocks : v.obj[to].data = Block(b)
    BY <1>3, TextLemma
  <2>2. /\ u \in Worlds /\ u.obj = v.obj /\ u.store = v.store
        /\ \A b \in Blocks : u.heap[b] = IF v.obj[to].data = Block(b) THEN <<>> ELSE v.heap[b]
    BY <1>3, <2>1, DeallocateLemma
  <2> QED
    BY <1>3, <2>2
<1> HIDE DEF u
<1>5. /\ u.obj[from] = f /\ u.obj[to] \in Buffers /\ u.store[from] = w.store[from]
      /\ u.obj[to].logger_name = f.logger_name /\ u.obj[to].payload = f.payload
      /\ \A q \in Objects \ {to} : u.obj[q] = w.obj[q] /\ u.store[q] = w.store[q]
  BY <1>3, <1>4
<1> DEFINE cells == Cut(w.store[from], 0, f.size) \o Junks(Inline - f.size)
<1>6. /\ y \in Worlds /\ y.heap = u.heap
      /\ \A q \in Objects \ {to, from} : y.obj[q] = w.obj[q] /\ y.store[q] = w.store[q]
      /\ IF f.data = Store(from)
         THEN /\ y.obj[to] = MadeOf(Store(to), f.size, f.capacity, f.logger_name, f.payload)
              /\ y.obj[from] = f
              /\ y.store[to] = cells
         ELSE /\ y.obj[to] = MadeOf(f.data, f.size, f.capacity, f.logger_name, f.payload)
              /\ y.obj[from] = MadeOf(Store(from), f.size, 0, f.logger_name, f.payload)
  <2>1. /\ u.obj[from] \in Buffers /\ u.obj[from].size <= u.obj[from].capacity
        /\ u.obj[from].data = Store(from) =>
              u.obj[from].capacity = Inline /\ Len(u.store[from]) = Inline
        /\ u.obj[from].data = Store(from) \/ \E b \in Blocks : u.obj[from].data = Block(b)
    BY <1>2, <1>5
  <2>2. /\ y \in Worlds /\ y.heap = u.heap
        /\ \A q \in Objects \ {to, from} : y.obj[q] = u.obj[q] /\ y.store[q] = u.store[q]
        /\ IF u.obj[from].data = Store(from)
           THEN /\ y.obj[to] = MadeOf(Store(to), u.obj[from].size, u.obj[from].capacity,
                                      u.obj[to].logger_name, u.obj[to].payload)
                /\ y.obj[from] = u.obj[from]
                /\ y.store[to] = Cut(u.store[from], 0, u.obj[from].size) \o Junks(Inline - u.obj[from].size)
           ELSE /\ y.obj[to] = MadeOf(u.obj[from].data, u.obj[from].size, u.obj[from].capacity,
                                      u.obj[to].logger_name, u.obj[to].payload)
                /\ y.obj[from] = MadeOf(Store(from), u.obj[from].size, 0,
                                        u.obj[from].logger_name, u.obj[from].payload)
    BY <1>4, <1>5, <2>1, BufferMoved
  <2> HIDE DEF y
  <2> QED
    BY <1>5, <2>2
<1> HIDE DEF y
<1> DEFINE p == y.obj[to].data
           r == MadeOf(p, f.size, f.capacity, StringView(p, 0, n), StringView(p, n, k))
<1>7. /\ y.obj[to] = MadeOf(p, f.size, f.capacity, f.logger_name, f.payload)
      /\ p = IF f.data = Store(from) THEN Store(to) ELSE f.data
      /\ p \in Places
  BY <1>2, <1>6 DEF MadeOf, Places
<1>8. x = update_string_views(y, to)
  BY DEF MoveAssign, y, u, v
<1>9. x = [y EXCEPT !.obj[to].logger_name = StringView(p, 0, n), !.obj[to].payload = StringView(p, n, k)]
  <2>1. y.obj[to].logger_name.len = n /\ y.obj[to].payload.len = k
    BY <1>2, <1>7 DEF MadeOf, StringView
  <2> QED
    BY <1>8, <2>1 DEF update_string_views
<1> HIDE DEF x, p
<1>10. /\ x.store = y.store /\ x.heap = y.heap /\ \A q \in Objects \ {to} : x.obj[q] = y.obj[q]
       /\ x.obj[to] = [y.obj[to] EXCEPT !.logger_name = StringView(p, 0, n), !.payload = StringView(p, n, k)]
       /\ x = [obj |-> x.obj, store |-> x.store, heap |-> x.heap] /\ x.obj = [q \in Objects |-> x.obj[q]]
  BY <1>6, <1>9 DEF Worlds
<1>11. x.obj[to] = r
  <2> DEFINE e == y.obj[to]
             g == x.obj[to]
  <2>1. e = MadeOf(p, f.size, f.capacity, f.logger_name, f.payload)
    BY <1>7
  <2>2. g = [e EXCEPT !.logger_name = StringView(p, 0, n), !.payload = StringView(p, n, k)]
    BY <1>10
  <2> HIDE DEF e, g
  <2>3. g = r
    BY <2>1, <2>2 DEF MadeOf
  <2> QED
    BY <2>3 DEF g
<1>12. /\ r \in Buffers /\ r.data = p /\ r.capacity = f.capacity /\ r.size = f.size
       /\ r.logger_name = StringView(p, 0, n) /\ r.payload = StringView(p, n, k)
  <2>1. StringView(p, 0, n) \in Views /\ StringView(p, n, k) \in Views
    BY <1>1, <1>7 DEF Views, StringView
  <2> QED
    BY <1>2, <1>7, <2>1 DEF Buffers, MadeOf
<1> HIDE DEF r
<1>13. x \in Worlds
  <2>1. ASSUME NEW q \in Objects PROVE x.obj[q] \in Buffers \cup {Dead}
    <3>1. y.obj[q] \in Buffers \cup {Dead}
      BY <1>6, WorldLemma
    <3>2. q # to => x.obj[q] = y.obj[q]
      BY <1>10
    <3> QED
      BY <1>11, <1>12, <3>1, <3>2
  <2>2. x.obj \in [Objects -> Buffers \cup {Dead}]
    BY <1>10, <2>1
  <2> QED
    BY <1>6, <1>10, <2>2 DEF Worlds
<1>14. \A q \in Objects \ {to, from} : x.obj[q] = w.obj[q] /\ x.store[q] = w.store[q]
  BY <1>6, <1>10
<1>15. \A b \in Blocks : x.heap[b] = IF w.obj[to].data = Block(b) THEN <<>> ELSE w.heap[b]
  BY <1>4, <1>6, <1>10
<1>16. x.obj[from] \in Buffers /\ x.obj[from].data = Store(from)
  <2>1. x.obj[from] = y.obj[from] /\ x.obj[from] \in Buffers \cup {Dead}
    BY <1>10, <1>13, WorldLemma
  <2>2. y.obj[from].data = Store(from)
    BY <1>6 DEF MadeOf
  <2>3. x.obj[from] # Dead
    BY <2>1, <2>2, PlaceLemma
  <2> QED
    BY <2>1, <2>2, <2>3
\* Who owns what: to has what from had, from and the old block of to are free.
<1>17. ASSUME NEW b \in Blocks, NEW q \in Objects
       PROVE  /\ q \notin {to, from} => (x.obj[q].data = Block(b) <=> w.obj[q].data = Block(b))
              /\ x.obj[to].data = Block(b) <=> f.data = Block(b)
              /\ x.obj[from].data # Block(b)
  <2>1. x.obj[to].data = p
    BY <1>11, <1>12
  <2>2. p = Block(b) <=> f.data = Block(b)
    BY <1>2, <1>7, PlaceLemma
  <2>3. x.obj[from].data # Block(b)
    BY <1>16, PlaceLemma
  <2> QED
    BY <1>14, <2>1, <2>2, <2>3
<1>18. Owned(x)
  <2>1. ASSUME NEW q \in Objects
        PROVE  \/ x.obj[q] = Dead
               \/ x.obj[q].data = Store(q)
               \/ \E b \in Blocks : x.obj[q].data = Block(b)
    <3>1. CASE q = to
      BY <1>2, <1>7, <1>11, <1>12, <3>1
    <3>2. CASE q = from
      BY <1>16, <3>2
    <3>3. CASE q \notin {to, from}
      BY <1>14, <3>3 DEF Owned
    <3> QED
      BY <3>1, <3>2, <3>3
  <2>2. ASSUME NEW q \in Objects, NEW b \in Blocks, x.obj[q].data = Block(b)
        PROVE  \E s \in Objects \ {to} : w.obj[s].data = Block(b) /\ (s = q \/ (q = to /\ s = from))
    BY <1>17, <2>2
  <2>3. ASSUME NEW q \in Objects, NEW b \in Blocks, x.obj[q].data = Block(b) PROVE x.heap[b] # <<>>
    <3>1. PICK s \in Objects \ {to} : w.obj[s].data = Block(b)
      BY <2>2, <2>3
    <3>2. w.heap[b] # <<>> /\ w.obj[to].data # Block(b)
      BY <3>1 DEF Owned
    <3> QED
      BY <1>15, <3>2
  <2>4. ASSUME NEW q \in Objects, NEW s \in Objects, NEW b \in Blocks,
               x.obj[q].data = Block(b), x.obj[s].data = Block(b)
        PROVE  q = s
    <3>1. PICK c \in Objects \ {to} : w.obj[c].data = Block(b) /\ (c = q \/ (q = to /\ c = from))
      BY <2>2, <2>4
    <3>2. PICK d \in Objects \ {to} : w.obj[d].data = Block(b) /\ (d = s \/ (s = to /\ d = from))
      BY <2>2, <2>4
    <3>3. c = d
      BY <3>1, <3>2 DEF Owned
    <3>4. q # from /\ s # from
      BY <1>17, <2>4
    <3> QED
      BY <3>1, <3>2, <3>3, <3>4
  <2>5. ASSUME NEW b \in Blocks, x.heap[b] # <<>> PROVE \E q \in Objects : x.obj[q].data = Block(b)
    <3>1. w.heap[b] # <<>> /\ w.obj[to].data # Block(b)
      BY <1>15, <2>5
    <3>2. PICK q \in Objects : w.obj[q].data = Block(b)
      BY <3>1 DEF Owned
    <3>3. CASE q = from
      BY <1>17, <3>2, <3>3
    <3>4. CASE q # from
      BY <1>17, <3>1, <3>2, <3>4
    <3> QED
      BY <3>3, <3>4
  <2> QED
    BY <2>1, <2>3, <2>4, <2>5 DEF Owned
<1>19. Frame(w, x, {to, from})
  <2>1. ASSUME NEW q \in Objects \ {to, from}, NEW b \in Blocks, w.obj[q].data = Block(b)
        PROVE  x.heap[b] = w.heap[b]
    BY <1>15, <2>1 DEF Owned
  <2> QED
    BY <1>13, <1>14, <1>18, <2>1 DEF Frame, Untouched
<1>20. /\ Len(Text(x, to)) = f.capacity
       /\ \A i \in 1 .. f.size : Text(x, to)[i] = Text(w, from)[i]
  <2>1. CASE f.data = Store(from)
    <3>1. Text(x, to) = cells
      <4>1. x.obj[to].data = Store(to) /\ x.store[to] = cells
        BY <1>6, <1>7, <1>10, <1>11, <1>12, <2>1
      <4> HIDE DEF cells
      <4> QED
        BY <4>1, PlaceLemma DEF Text, Cells
    <3>2. w.store[from] = Text(w, from) /\ Inline - f.size \in Nat /\ f.size + (Inline - f.size) = f.capacity
      BY <1>2, <2>1
    <3>3. /\ Len(cells) = f.size + (Inline - f.size)
          /\ \A i \in 1 .. f.size : cells[i] = w.store[from][i]
      <4>1. /\ w.store[from] \in Seq(Chars) /\ f.size \in Nat /\ f.size <= Len(w.store[from])
        BY <1>2, <3>2
      <4> QED
        BY <3>2, <4>1, RoomBehind
    <3> HIDE DEF cells
    <3> QED
      BY <3>1, <3>2, <3>3
  <2>2. ASSUME NEW b \in Blocks, f.data = Block(b)
        PROVE  Text(x, to) = Text(w, from)
    <3>1. p = Block(b)
      BY <1>7, <2>2, PlaceLemma
    <3>2. w.obj[to].data # Block(b)
      BY <2>2 DEF Owned
    <3>3. x.heap[b] = w.heap[b]
      BY <1>15, <3>2
    <3> QED
      BY <1>11, <1>12, <2>2, <3>1, <3>3, PlaceLemma DEF Text, Cells
  <2> QED
    BY <1>2, <2>1, <2>2
<1>21. Carries(x, to, name, payload)
  <2>1. Fits(x, to)
    <3>1. x.obj[to].data = Store(to) => f.capacity = Inline
      BY <1>2, <1>7, <1>11, <1>12, PlaceLemma
    <3> QED
      BY <1>2, <1>11, <1>12, <1>20, <3>1 DEF Fits
  <2>2. ASSUME NEW i \in 1 .. n PROVE Text(x, to)[i] = name[i]
    <3>1. i \in 1 .. f.size
      BY <1>1, <1>2
    <3> QED
      BY <1>20, <3>1 DEF Carries
  <2>3. ASSUME NEW i \in 1 .. k PROVE Text(x, to)[n + i] = payload[i]
    <3>1. n + i \in 1 .. f.size
      BY <1>1, <1>2
    <3> QED
      BY <1>20, <3>1 DEF Carries
  <2> QED
    BY <1>2, <1>11, <1>12, <2>1, <2>2, <2>3 DEF Carries
<1> QED
  BY <1>16, <1>19, <1>21 DEF x

\* What a view shows.
LEMMA Shown ==
    ASSUME NEW w \in Worlds, NEW v \in Views
    PROVE  ReadView(w, v) \in Seq(Chars) /\ Len(ReadView(w, v)) = v.len
<1>1. v.len \in Nat /\ v.from \in Nat
  BY DEF Views
<1>2. CASE v.len = 0
  BY <1>2, EmptySeq DEF ReadView
<1>3. CASE v.len # 0
  <2>1. v.at \in Places
    BY <1>3 DEF Views
  <2>2. Cells(w, v.at) \in Seq(Chars)
    BY <2>1, WorldLemma, PlaceLemma DEF Places, Cells
  <2>3. ReadView(w, v) = Cut(Cells(w, v.at), v.from, v.len)
    BY <1>3 DEF ReadView
  <2> DEFINE cells == Cells(w, v.at)
  <2> HIDE DEF cells
  <2>4. Cut(cells, v.from, v.len) \in Seq(Chars) /\ Len(Cut(cells, v.from, v.len)) = v.len
    BY <1>1, <2>2, CutLemma DEF cells
  <2> QED
    BY <2>3, <2>4 DEF cells
<1> QED
  BY <1>2, <1>3

\* Two sequences with the same elements.
LEMMA SameText ==
    ASSUME NEW s \in Seq(Chars), NEW t \in Seq(Chars), Len(s) = Len(t),
           \A i \in 1 .. Len(s) : s[i] = t[i]
    PROVE  s = t
  BY LenProperties, SeqEqual

\* A message that is whole reads what it was given.
LEMMA CarriesReads ==
    ASSUME NEW w \in Worlds, Owned(w), NEW o \in Objects,
           NEW name \in Seq(Chars), NEW payload \in Seq(Chars), Carries(w, o, name, payload)
    PROVE  /\ ReadView(w, w.obj[o].logger_name) = name
           /\ ReadView(w, w.obj[o].payload) = payload
<1> DEFINE p == w.obj[o].data
           n == Len(name)
           k == Len(payload)
           t == Text(w, o)
<1>1. /\ n \in Nat /\ k \in Nat /\ w.obj[o] \in Buffers
      /\ w.obj[o].logger_name = StringView(p, 0, n) /\ w.obj[o].payload = StringView(p, n, k)
      /\ w.obj[o].logger_name \in Views /\ w.obj[o].payload \in Views
  BY LenProperties DEF Carries, Fits, Buffers
<1>2. t \in Seq(Chars) /\ n + k <= Len(t) /\ Len(t) \in Nat
  <2>1. t \in Seq(Chars)
    BY <1>1, TextLemma
  <2>2. w.obj[o].size = n + k /\ w.obj[o].size <= w.obj[o].capacity /\ Len(t) = w.obj[o].capacity
    BY DEF Carries, Fits
  <2> HIDE DEF t
  <2> QED
    BY <2>1, <2>2, LenProperties
<1>3. ReadView(w, w.obj[o].logger_name) = name
  <2> DEFINE s == ReadView(w, w.obj[o].logger_name)
  <2>1. s \in Seq(Chars) /\ Len(s) = n
    BY <1>1, Shown DEF StringView
  <2>2. ASSUME NEW i \in 1 .. n PROVE s[i] = name[i]
    <3>1. s = Cut(t, 0, n)
      BY <1>1, <2>2 DEF ReadView, StringView, Text
    <3>2. s[i] = IF 0 + i <= Len(t) THEN t[0 + i] ELSE Junk0
      BY <1>1, <1>2, <3>1, CutLemma
    <3>3. 0 + i = i /\ i <= Len(t)
      BY <1>1, <1>2
    <3> QED
      BY <3>2, <3>3 DEF Carries
  <2> HIDE DEF s
  <2>3. s = name
    BY <2>1, <2>2, SameText
  <2> QED
    BY <2>3 DEF s
<1>4. ReadView(w, w.obj[o].payload) = payload
  <2> DEFINE s == ReadView(w, w.obj[o].payload)
  <2>1. s \in Seq(Chars) /\ Len(s) = k
    BY <1>1, Shown DEF StringView
  <2>2. ASSUME NEW i \in 1 .. k PROVE s[i] = payload[i]
    <3>1. s = Cut(t, n, k)
      BY <1>1, <2>2 DEF ReadView, StringView, Text
    <3>2. s[i] = IF n + i <= Len(t) THEN t[n + i] ELSE Junk0
      BY <1>1, <1>2, <3>1, CutLemma
    <3>3. n + i <= Len(t)
      BY <1>1, <1>2
    <3> QED
      BY <3>2, <3>3 DEF Carries
  <2> HIDE DEF s
  <2>3. s = payload
    BY <2>1, <2>2, SameText
  <2> QED
    BY <2>3 DEF s
<1> QED
  BY <1>3, <1>4

\* One message has what another has.
Copied(w, x, to, from) ==
    /\ x.obj[to] \in Buffers
    /\ \A name, payload \in Seq(Chars) : Carries(w, from, name, payload) => Carries(x, to, name, payload)

LEMMA CopyConstructed ==
    ASSUME NEW w \in Worlds, Owned(w), NEW to \in Objects, NEW from \in Objects,
           w.obj[to] = Dead, w.obj[from] \in Buffers
    PROVE  LET x == CopyConstruct(w, to, from)
           IN  Frame(w, x, {to}) /\ Copied(w, x, to, from)
<1> DEFINE s == ReadView(w, w.obj[from].logger_name)
           t == ReadView(w, w.obj[from].payload)
           x == CopyConstruct(w, to, from)
<1>1. s \in Seq(Chars) /\ t \in Seq(Chars)
  BY Shown DEF Buffers
<1>2. x = Capture(w, to, s, t)
  BY DEF CopyConstruct
<1>3. ASSUME NEW name \in Seq(Chars), NEW payload \in Seq(Chars), Carries(w, from, name, payload)
      PROVE  s = name /\ t = payload
  BY <1>3, CarriesReads
<1> HIDE DEF s, t, x
<1>4. Frame(w, x, {to}) /\ Carries(x, to, s, t)
  BY <1>1, <1>2, Captured
<1>5. x.obj[to] \in Buffers
  BY <1>4 DEF Carries, Fits
<1> QED
  BY <1>3, <1>4, <1>5 DEF Copied, x

\* A vector of empty messages, where nothing was.
LEMMA NewLemma ==
    ASSUME NEW w \in Worlds, Owned(w), NEW v \in Vectors, \A i \in Slots : w.obj[<<v, i>>] = Dead
    PROVE  LET x == NewVector(w, v)
           IN  Frame(w, x, {v} \X Slots) /\ \A i \in Slots : x.obj[<<v, i>>] \in Buffers
<1> DEFINE m == QueueSize + 1
           F(n, x) == Construct0(x, <<v, n - 1>>)
           G(n, x) == /\ Frame(w, x, {v} \X (0 .. n - 1))
                      /\ \A i \in 0 .. n - 1 : x.obj[<<v, i>>] \in Buffers
           round == [q \in (1 .. m) \X Worlds |-> IF F(q[1], q[2]) \in Worlds THEN F(q[1], q[2]) ELSE q[2]]
           f == Loop(w, m, round)
<1>1. m \in Nat /\ Slots = 0 .. m - 1 /\ \A n \in 1 .. m : n - 1 \in 0 .. m - 1
  BY BufferAssumption DEF Slots
<1>2. G(0, w)
  BY FrameSame
<1>3. ASSUME NEW n \in 0 .. m - 1, NEW x, G(n, x) PROVE G(n + 1, F(n + 1, x))
  <2> DEFINE o == <<v, n>>
             y == F(n + 1, x)
  <2>1. /\ x \in Worlds /\ Owned(x) /\ \A p \in Objects \ ({v} \X (0 .. n - 1)) : Untouched(w, x, p)
    BY <1>3 DEF Frame
  <2>2. o \in Objects /\ o \notin {v} \X (0 .. n - 1) /\ n \in Slots /\ (n + 1) - 1 = n
    BY <1>1, <1>3 DEF Objects
  <2>3. \A i \in 0 .. (n + 1) - 1 : <<v, i>> # o => i \in 0 .. n - 1
    BY <1>1, <1>3
  <2>4. {v} \X (0 .. n - 1) \subseteq {v} \X (0 .. (n + 1) - 1) /\ o \in {v} \X (0 .. (n + 1) - 1)
    BY <1>1, <1>3
  <2>5. x.obj[o] = Dead /\ y = Construct0(x, o)
    BY <2>1, <2>2 DEF Untouched
  <2> HIDE DEF y, o
  <2>6. Frame(x, y, {o}) /\ y.obj[o] \in Buffers
    BY <2>1, <2>2, <2>5, Constructed DEF Fits
  <2>7. Frame(w, y, {v} \X (0 .. (n + 1) - 1))
    <3>1. \A p \in Objects \ ({v} \X (0 .. (n + 1) - 1)) : Untouched(w, x, p) /\ Untouched(x, y, p)
      BY <2>1, <2>4, <2>6 DEF Frame
    <3> QED
      BY <2>6, <3>1 DEF Frame, Untouched
  <2>8. ASSUME NEW i \in 0 .. (n + 1) - 1 PROVE y.obj[<<v, i>>] \in Buffers
    <3>1. CASE <<v, i>> = o
      BY <2>6, <3>1
    <3>2. CASE <<v, i>> # o
      <4>1. i \in 0 .. n - 1 /\ <<v, i>> \in Objects \ {o}
        BY <1>1, <1>3, <2>3, <3>2 DEF Objects
      <4> QED
        BY <1>3, <2>6, <4>1 DEF Frame, Untouched
    <3> QED
      BY <3>1, <3>2
  <2> QED
    BY <2>7, <2>8 DEF y
<1>4. ASSUME NEW n \in 0 .. m, NEW x, G(n, x) PROVE x \in Worlds
  BY <1>4 DEF Frame
<1> HIDE DEF F, G, m
\* Whatever goes from round to round this way is good all along.
<1>5. ASSUME NEW g, g[0] = w, \A n \in 1 .. m : G(n - 1, g[n - 1]) => g[n] = F(n, g[n - 1])
      PROVE  \A n \in 0 .. m : G(n, g[n])
  <2> DEFINE T == {n \in 0 .. m : G(n, g[n])}
  <2>1. 0 \in T
    BY <1>1, <1>2, <1>5
  <2>2. ASSUME NEW n \in T, n \in 0 .. m - 1 PROVE n + 1 \in T
    <3>1. n + 1 \in 1 .. m /\ n + 1 \in 0 .. m /\ (n + 1) - 1 = n
      BY <1>1, <2>2
    <3>2. g[n + 1] = F(n + 1, g[n])
      BY <1>5, <3>1
    <3>3. G(n + 1, F(n + 1, g[n]))
      BY <1>3, <2>2
    <3> QED
      BY <3>1, <3>2, <3>3
  <2>3. 0 .. m \subseteq T
    <3> HIDE DEF T
    <3> QED
      BY <1>1, <2>1, <2>2, Induction
  <2> QED
    BY <2>3
<1>6. ASSUME NEW n \in 1 .. m, NEW x \in Worlds, G(n - 1, x) PROVE round[<<n, x>>] = F(n, x)
  <2>1. G((n - 1) + 1, F((n - 1) + 1, x))
    BY <1>1, <1>3, <1>6
  <2>2. (n - 1) + 1 = n
    BY <1>1
  <2>3. F(n, x) \in Worlds
    BY <1>1, <1>4, <2>1, <2>2
  <2> QED
    BY <2>3
<1>7. round \in [(1 .. m) \X Worlds -> Worlds]
  OBVIOUS
<1> HIDE DEF round
<1>8. /\ f = [n \in 0 .. m |-> IF n = 0 THEN w ELSE round[<<n, f[n - 1]>>]]
      /\ f \in [0 .. m -> Worlds]
  BY <1>1, <1>7, LoopLemma
<1> HIDE DEF f
<1>9. \A n \in 0 .. m : G(n, f[n])
  <2>1. f[0] = w
    BY <1>1, <1>8
  <2>2. ASSUME NEW n \in 1 .. m, G(n - 1, f[n - 1]) PROVE f[n] = F(n, f[n - 1])
    <3>1. f[n] = round[<<n, f[n - 1]>>] /\ f[n - 1] \in Worlds
      BY <1>1, <1>8
    <3> QED
      BY <1>6, <2>2, <3>1
  <2> QED
    BY <1>5, <2>1, <2>2
<1>10. f = [n \in 0 .. m |-> IF n = 0 THEN w ELSE F(n, f[n - 1])]
  <2>1. ASSUME NEW n \in 1 .. m PROVE round[<<n, f[n - 1]>>] = F(n, f[n - 1])
    <3>1. n - 1 \in 0 .. m
      BY <1>1
    <3>2. G(n - 1, f[n - 1]) /\ f[n - 1] \in Worlds
      BY <1>8, <1>9, <3>1
    <3> QED
      BY <1>6, <3>2
  <2>2. \A n \in 0 .. m : n # 0 => n \in 1 .. m
    BY <1>1
  <2> QED
    BY <1>8, <2>1, <2>2
<1> DEFINE h == CHOOSE h : h = [n \in 0 .. m |-> IF n = 0 THEN w ELSE F(n, h[n - 1])]
<1>11. NewVector(w, v) = h[m]
  BY DEF NewVector, F, m
<1>12. h = [n \in 0 .. m |-> IF n = 0 THEN w ELSE F(n, h[n - 1])]
  BY <1>10
<1> HIDE DEF h
<1>13. G(m, h[m])
  <2>1. h[0] = w
    BY <1>1, <1>12
  <2>2. \A n \in 1 .. m : h[n] = F(n, h[n - 1])
    BY <1>1, <1>12
  <2> QED
    BY <1>1, <1>5, <2>1, <2>2
<1> QED
  BY <1>1, <1>11, <1>13 DEF G

\* The messages of a vector go, with their blocks.
LEMMA DeleteLemma ==
    ASSUME NEW w \in Worlds, Owned(w), NEW v \in Vectors
    PROVE  LET x == DeleteVector(w, v)
           IN  Frame(w, x, {v} \X Slots) /\ \A i \in Slots : x.obj[<<v, i>>] = Dead
<1> DEFINE m == QueueSize + 1
           F(n, x) == Destroy0(x, <<v, n - 1>>)
           G(n, x) == /\ Frame(w, x, {v} \X (0 .. n - 1))
                      /\ \A i \in 0 .. n - 1 : x.obj[<<v, i>>] = Dead
           round == [q \in (1 .. m) \X Worlds |-> IF F(q[1], q[2]) \in Worlds THEN F(q[1], q[2]) ELSE q[2]]
           f == Loop(w, m, round)
<1>1. m \in Nat /\ Slots = 0 .. m - 1 /\ \A n \in 1 .. m : n - 1 \in 0 .. m - 1
  BY BufferAssumption DEF Slots
<1>2. G(0, w)
  BY FrameSame
<1>3. ASSUME NEW n \in 0 .. m - 1, NEW x, G(n, x) PROVE G(n + 1, F(n + 1, x))
  <2> DEFINE o == <<v, n>>
             y == F(n + 1, x)
  <2>1. /\ x \in Worlds /\ Owned(x) /\ \A p \in Objects \ ({v} \X (0 .. n - 1)) : Untouched(w, x, p)
    BY <1>3 DEF Frame
  <2>2. o \in Objects /\ o \notin {v} \X (0 .. n - 1) /\ n \in Slots /\ (n + 1) - 1 = n
    BY <1>1, <1>3 DEF Objects
  <2>3. \A i \in 0 .. (n + 1) - 1 : <<v, i>> # o => i \in 0 .. n - 1
    BY <1>1, <1>3
  <2>4. {v} \X (0 .. n - 1) \subseteq {v} \X (0 .. (n + 1) - 1) /\ o \in {v} \X (0 .. (n + 1) - 1)
    BY <1>1, <1>3
  <2>5. y = Destroy0(x, o)
    BY <2>2
  <2> HIDE DEF y, o
  <2>6. Frame(x, y, {o}) /\ y.obj[o] = Dead
    BY <2>1, <2>2, <2>5, Destroyed
  <2>7. Frame(w, y, {v} \X (0 .. (n + 1) - 1))
    <3>1. \A p \in Objects \ ({v} \X (0 .. (n + 1) - 1)) : Untouched(w, x, p) /\ Untouched(x, y, p)
      BY <2>1, <2>4, <2>6 DEF Frame
    <3> QED
      BY <2>6, <3>1 DEF Frame, Untouched
  <2>8. ASSUME NEW i \in 0 .. (n + 1) - 1 PROVE y.obj[<<v, i>>] = Dead
    <3>1. CASE <<v, i>> = o
      BY <2>6, <3>1
    <3>2. CASE <<v, i>> # o
      <4>1. i \in 0 .. n - 1 /\ <<v, i>> \in Objects \ {o}
        BY <1>1, <1>3, <2>3, <3>2 DEF Objects
      <4> QED
        BY <1>3, <2>6, <4>1 DEF Frame, Untouched
    <3> QED
      BY <3>1, <3>2
  <2> QED
    BY <2>7, <2>8 DEF y
<1>4. ASSUME NEW n \in 0 .. m, NEW x, G(n, x) PROVE x \in Worlds
  BY <1>4 DEF Frame
<1> HIDE DEF F, G, m
\* Whatever goes from round to round this way is good all along.
<1>5. ASSUME NEW g, g[0] = w, \A n \in 1 .. m : G(n - 1, g[n - 1]) => g[n] = F(n, g[n - 1])
      PROVE  \A n \in 0 .. m : G(n, g[n])
  <2> DEFINE T == {n \in 0 .. m : G(n, g[n])}
  <2>1. 0 \in T
    BY <1>1, <1>2, <1>5
  <2>2. ASSUME NEW n \in T, n \in 0 .. m - 1 PROVE n + 1 \in T
    <3>1. n + 1 \in 1 .. m /\ n + 1 \in 0 .. m /\ (n + 1) - 1 = n
      BY <1>1, <2>2
    <3>2. g[n + 1] = F(n + 1, g[n])
      BY <1>5, <3>1
    <3>3. G(n + 1, F(n + 1, g[n]))
      BY <1>3, <2>2
    <3> QED
      BY <3>1, <3>2, <3>3
  <2>3. 0 .. m \subseteq T
    <3> HIDE DEF T
    <3> QED
      BY <1>1, <2>1, <2>2, Induction
  <2> QED
    BY <2>3
<1>6. ASSUME NEW n \in 1 .. m, NEW x \in Worlds, G(n - 1, x) PROVE round[<<n, x>>] = F(n, x)
  <2>1. G((n - 1) + 1, F((n - 1) + 1, x))
    BY <1>1, <1>3, <1>6
  <2>2. (n - 1) + 1 = n
    BY <1>1
  <2>3. F(n, x) \in Worlds
    BY <1>1, <1>4, <2>1, <2>2
  <2> QED
    BY <2>3
<1>7. round \in [(1 .. m) \X Worlds -> Worlds]
  OBVIOUS
<1> HIDE DEF round
<1>8. /\ f = [n \in 0 .. m |-> IF n = 0 THEN w ELSE round[<<n, f[n - 1]>>]]
      /\ f \in [0 .. m -> Worlds]
  BY <1>1, <1>7, LoopLemma
<1> HIDE DEF f
<1>9. \A n \in 0 .. m : G(n, f[n])
  <2>1. f[0] = w
    BY <1>1, <1>8
  <2>2. ASSUME NEW n \in 1 .. m, G(n - 1, f[n - 1]) PROVE f[n] = F(n, f[n - 1])
    <3>1. f[n] = round[<<n, f[n - 1]>>] /\ f[n - 1] \in Worlds
      BY <1>1, <1>8
    <3> QED
      BY <1>6, <2>2, <3>1
  <2> QED
    BY <1>5, <2>1, <2>2
<1>10. f = [n \in 0 .. m |-> IF n = 0 THEN w ELSE F(n, f[n - 1])]
  <2>1. ASSUME NEW n \in 1 .. m PROVE round[<<n, f[n - 1]>>] = F(n, f[n - 1])
    <3>1. n - 1 \in 0 .. m
      BY <1>1
    <3>2. G(n - 1, f[n - 1]) /\ f[n - 1] \in Worlds
      BY <1>8, <1>9, <3>1
    <3> QED
      BY <1>6, <3>2
  <2>2. \A n \in 0 .. m : n # 0 => n \in 1 .. m
    BY <1>1
  <2> QED
    BY <1>8, <2>1, <2>2
<1> DEFINE h == CHOOSE h : h = [n \in 0 .. m |-> IF n = 0 THEN w ELSE F(n, h[n - 1])]
<1>11. DeleteVector(w, v) = h[m]
  BY DEF DeleteVector, F, m
<1>12. h = [n \in 0 .. m |-> IF n = 0 THEN w ELSE F(n, h[n - 1])]
  BY <1>10
<1> HIDE DEF h
<1>13. G(m, h[m])
  <2>1. h[0] = w
    BY <1>1, <1>12
  <2>2. \A n \in 1 .. m : h[n] = F(n, h[n - 1])
    BY <1>1, <1>12
  <2> QED
    BY <1>1, <1>5, <2>1, <2>2
<1> QED
  BY <1>1, <1>11, <1>13 DEF G

\* A copy of a vector has the messages of the original, in memory of its own.
LEMMA CopyLemma ==
    ASSUME NEW w \in Worlds, Owned(w), NEW v \in Vectors, NEW from \in Vectors, v # from,
           \A i \in Slots : w.obj[<<v, i>>] = Dead /\ w.obj[<<from, i>>] \in Buffers
    PROVE  LET x == CopyVector(w, v, from)
           IN  /\ Frame(w, x, {v} \X Slots)
               /\ \A i \in Slots : Copied(w, x, <<v, i>>, <<from, i>>)
<1> DEFINE m == QueueSize + 1
           F(n, x) == CopyConstruct(x, <<v, n - 1>>, <<from, n - 1>>)
           G(n, x) == /\ Frame(w, x, {v} \X (0 .. n - 1))
                      /\ \A i \in 0 .. n - 1 : Copied(w, x, <<v, i>>, <<from, i>>)
           round == [q \in (1 .. m) \X Worlds |-> IF F(q[1], q[2]) \in Worlds THEN F(q[1], q[2]) ELSE q[2]]
           f == Loop(w, m, round)
<1>1. m \in Nat /\ Slots = 0 .. m - 1 /\ \A n \in 1 .. m : n - 1 \in 0 .. m - 1
  BY BufferAssumption DEF Slots
<1>2. G(0, w)
  BY FrameSame
<1>3. ASSUME NEW n \in 0 .. m - 1, NEW x, G(n, x) PROVE G(n + 1, F(n + 1, x))
  <2> DEFINE o == <<v, n>>
             y == F(n + 1, x)
  <2>1. /\ x \in Worlds /\ Owned(x) /\ \A p \in Objects \ ({v} \X (0 .. n - 1)) : Untouched(w, x, p)
    BY <1>3 DEF Frame
  <2>2. o \in Objects /\ o \notin {v} \X (0 .. n - 1) /\ n \in Slots /\ (n + 1) - 1 = n
    BY <1>1, <1>3 DEF Objects
  <2>3. \A i \in 0 .. (n + 1) - 1 : <<v, i>> # o => i \in 0 .. n - 1
    BY <1>1, <1>3
  <2>4. {v} \X (0 .. n - 1) \subseteq {v} \X (0 .. (n + 1) - 1) /\ o \in {v} \X (0 .. (n + 1) - 1)
    BY <1>1, <1>3
  <2>5. x.obj[o] = Dead /\ y = CopyConstruct(x, o, <<from, n>>) /\ Untouched(w, x, <<from, n>>)
        /\ w.obj[<<from, n>>] \in Buffers /\ <<from, n>> \in Objects
    <3>1. <<from, n>> \in Objects \ ({v} \X (0 .. n - 1))
      BY <2>2 DEF Objects
    <3> QED
      BY <2>1, <2>2, <3>1 DEF Untouched
  <2> HIDE DEF y, o
  <2>6. Frame(x, y, {o}) /\ Copied(w, y, o, <<from, n>>)
    <3>1. x.obj[<<from, n>>] \in Buffers
      BY <2>5 DEF Untouched
    <3>2. Frame(x, y, {o}) /\ Copied(x, y, o, <<from, n>>)
      BY <2>1, <2>2, <2>5, <3>1, CopyConstructed
    <3>3. ASSUME NEW name \in Seq(Chars), NEW payload \in Seq(Chars), Carries(w, <<from, n>>, name, payload)
          PROVE  Carries(y, o, name, payload)
      <4>1. Carries(x, <<from, n>>, name, payload)
        BY <2>5, <3>3, CarriesOn
      <4> QED
        BY <3>2, <4>1 DEF Copied
    <3> QED
      BY <3>2, <3>3 DEF Copied
  <2>7. Frame(w, y, {v} \X (0 .. (n + 1) - 1))
    <3>1. \A p \in Objects \ ({v} \X (0 .. (n + 1) - 1)) : Untouched(w, x, p) /\ Untouched(x, y, p)
      BY <2>1, <2>4, <2>6 DEF Frame
    <3> QED
      BY <2>6, <3>1 DEF Frame, Untouched
  <2>8. ASSUME NEW i \in 0 .. (n + 1) - 1 PROVE Copied(w, y, <<v, i>>, <<from, i>>)
    <3>1. CASE <<v, i>> = o
      <4>1. i = n
        BY <3>1 DEF o
      <4> QED
        BY <2>6, <4>1 DEF o
    <3>2. CASE <<v, i>> # o
      <4>1. i \in 0 .. n - 1 /\ <<v, i>> \in Objects \ {o}
        BY <1>1, <1>3, <2>3, <3>2 DEF Objects
      <4>2. Copied(w, x, <<v, i>>, <<from, i>>) /\ Untouched(x, y, <<v, i>>)
        BY <1>3, <2>6, <4>1 DEF Frame
      <4>3. y.obj[<<v, i>>] \in Buffers
        BY <4>2 DEF Copied, Untouched
      <4>4. ASSUME NEW name \in Seq(Chars), NEW payload \in Seq(Chars), Carries(w, <<from, i>>, name, payload)
            PROVE  Carries(y, <<v, i>>, name, payload)
        <5>1. Carries(x, <<v, i>>, name, payload)
          BY <4>2, <4>4 DEF Copied
        <5> QED
          BY <2>1, <4>1, <4>2, <5>1, CarriesOn
      <4> QED
        BY <4>3, <4>4 DEF Copied
    <3> QED
      BY <3>1, <3>2
  <2> QED
    BY <2>7, <2>8 DEF y
<1>4. ASSUME NEW n \in 0 .. m, NEW x, G(n, x) PROVE x \in Worlds
  BY <1>4 DEF Frame
<1> HIDE DEF F, G, m
\* Whatever goes from round to round this way is good all along.
<1>5. ASSUME NEW g, g[0] = w, \A n \in 1 .. m : G(n - 1, g[n - 1]) => g[n] = F(n, g[n - 1])
      PROVE  \A n \in 0 .. m : G(n, g[n])
  <2> DEFINE T == {n \in 0 .. m : G(n, g[n])}
  <2>1. 0 \in T
    BY <1>1, <1>2, <1>5
  <2>2. ASSUME NEW n \in T, n \in 0 .. m - 1 PROVE n + 1 \in T
    <3>1. n + 1 \in 1 .. m /\ n + 1 \in 0 .. m /\ (n + 1) - 1 = n
      BY <1>1, <2>2
    <3>2. g[n + 1] = F(n + 1, g[n])
      BY <1>5, <3>1
    <3>3. G(n + 1, F(n + 1, g[n]))
      BY <1>3, <2>2
    <3> QED
      BY <3>1, <3>2, <3>3
  <2>3. 0 .. m \subseteq T
    <3> HIDE DEF T
    <3> QED
      BY <1>1, <2>1, <2>2, Induction
  <2> QED
    BY <2>3
<1>6. ASSUME NEW n \in 1 .. m, NEW x \in Worlds, G(n - 1, x) PROVE round[<<n, x>>] = F(n, x)
  <2>1. G((n - 1) + 1, F((n - 1) + 1, x))
    BY <1>1, <1>3, <1>6
  <2>2. (n - 1) + 1 = n
    BY <1>1
  <2>3. F(n, x) \in Worlds
    BY <1>1, <1>4, <2>1, <2>2
  <2> QED
    BY <2>3
<1>7. round \in [(1 .. m) \X Worlds -> Worlds]
  OBVIOUS
<1> HIDE DEF round
<1>8. /\ f = [n \in 0 .. m |-> IF n = 0 THEN w ELSE round[<<n, f[n - 1]>>]]
      /\ f \in [0 .. m -> Worlds]
  BY <1>1, <1>7, LoopLemma
<1> HIDE DEF f
<1>9. \A n \in 0 .. m : G(n, f[n])
  <2>1. f[0] = w
    BY <1>1, <1>8
  <2>2. ASSUME NEW n \in 1 .. m, G(n - 1, f[n - 1]) PROVE f[n] = F(n, f[n - 1])
    <3>1. f[n] = round[<<n, f[n - 1]>>] /\ f[n - 1] \in Worlds
      BY <1>1, <1>8
    <3> QED
      BY <1>6, <2>2, <3>1
  <2> QED
    BY <1>5, <2>1, <2>2
<1>10. f = [n \in 0 .. m |-> IF n = 0 THEN w ELSE F(n, f[n - 1])]
  <2>1. ASSUME NEW n \in 1 .. m PROVE round[<<n, f[n - 1]>>] = F(n, f[n - 1])
    <3>1. n - 1 \in 0 .. m
      BY <1>1
    <3>2. G(n - 1, f[n - 1]) /\ f[n - 1] \in Worlds
      BY <1>8, <1>9, <3>1
    <3> QED
      BY <1>6, <3>2
  <2>2. \A n \in 0 .. m : n # 0 => n \in 1 .. m
    BY <1>1
  <2> QED
    BY <1>8, <2>1, <2>2
<1> DEFINE h == CHOOSE h : h = [n \in 0 .. m |-> IF n = 0 THEN w ELSE F(n, h[n - 1])]
<1>11. CopyVector(w, v, from) = h[m]
  BY DEF CopyVector, F, m
<1>12. h = [n \in 0 .. m |-> IF n = 0 THEN w ELSE F(n, h[n - 1])]
  BY <1>10
<1> HIDE DEF h
<1>13. G(m, h[m])
  <2>1. h[0] = w
    BY <1>1, <1>12
  <2>2. \A n \in 1 .. m : h[n] = F(n, h[n - 1])
    BY <1>1, <1>12
  <2> QED
    BY <1>1, <1>5, <2>1, <2>2
<1> QED
  BY <1>1, <1>11, <1>13 DEF G

-----------------------------------------------------------------------------
(* Messages that own their text: the queue, its copy, and the worker.      *)

Slot(q, i) == <<q.v, (q.head + i - 1) % (QueueSize + 1)>>

\* A queue with as many slots between head and tail as it has messages.
Ring(q, messages) ==
    /\ q \in [head : Slots, tail : Slots, v : Vectors]
    /\ messages \in Seq(LogTexts) /\ Len(messages) <= QueueSize
    /\ q.tail = (q.head + Len(messages)) % (QueueSize + 1)

Holds(w, q, messages) ==
    \A i \in 1 .. Len(messages) : Carries(w, Slot(q, i), NameOf(messages[i]), PayloadOf(messages[i]))

\* The copy of the queue, if there is one.
TwinHolds(w, t, messages, q) ==
    IF t = NoQueue THEN messages = <<>>
    ELSE Ring(t, messages) /\ Holds(w, t, messages) /\ t.v # q.v

Alive(w, v) == \A i \in Slots : w.obj[<<v, i>>] \in Buffers
Gone(w, v) == \A i \in Slots : w.obj[<<v, i>>] = Dead

\* Every message is in its slot, and nothing is alive but the elements of the
\* vectors in use and what the worker has.
BufferInv ==
    /\ world \in Worlds /\ Owned(world)
    /\ Ring(queue, kept) /\ Holds(world, queue, kept)
    /\ TwinHolds(world, twin, twinKept, queue)
    /\ world.obj[Item] = Dead
    /\ IF taken = Junk0 THEN world.obj[Popped] = Dead
       ELSE taken \in LogTexts /\ Carries(world, Popped, NameOf(taken), PayloadOf(taken))
    /\ \A v \in Vectors : IF v \in {queue.v, twin.v} THEN Alive(world, v) ELSE Gone(world, v)

\* a % m for what a queue computes: at most one round more.
LEMMA Remainder ==
    ASSUME NEW m \in Nat \ {0}, NEW a \in 0 .. 2 * m - 1
    PROVE  a % m = (IF a < m THEN a ELSE a - m) /\ a % m \in 0 .. m - 1
<1>1. CASE a < m
  BY <1>1
<1>2. CASE ~(a < m)
  BY <1>2
<1> QED
  BY <1>1, <1>2

LEMMA TextsLemma ==
    ASSUME NEW m \in LogTexts
    PROVE  /\ NameOf(m) \in Seq(Chars) /\ Len(NameOf(m)) = NameLen[m]
           /\ PayloadOf(m) \in Seq(Chars) /\ Len(PayloadOf(m)) = TextLen[m]
<1> DEFINE s == NameOf(m)
           t == PayloadOf(m)
<1>1. NameLen[m] \in Nat /\ TextLen[m] \in Nat
  BY BufferAssumption
<1>2. s \in [1 .. NameLen[m] -> Chars] /\ t \in [1 .. TextLen[m] -> Chars]
  BY <1>1 DEF NameOf, PayloadOf, Chars
<1>3. DOMAIN s = 1 .. NameLen[m] /\ DOMAIN t = 1 .. TextLen[m]
  BY <1>2
<1> HIDE DEF s, t
<1>4. s \in Seq(Chars) /\ t \in Seq(Chars)
  BY <1>1, <1>2, SeqDef
<1>5. /\ Len(s) \in Nat /\ DOMAIN s = 1 .. Len(s)
      /\ Len(t) \in Nat /\ DOMAIN t = 1 .. Len(t)
  BY <1>4, LenProperties
<1>6. Len(s) = NameLen[m] /\ Len(t) = TextLen[m]
  BY <1>1, <1>3, <1>5
<1> QED
  BY <1>4, <1>6 DEF s, t

\* The slots from h on, around the vector.
At(h, i) == IF h + i < QueueSize + 1 THEN h + i ELSE h + i - (QueueSize + 1)

LEMMA AtSlots == QueueSize \in Nat \ {0} /\ Slots = 0 .. QueueSize
  BY BufferAssumption DEF Slots

LEMMA AtPlace ==
    ASSUME NEW h \in Slots, NEW i \in 0 .. QueueSize + 1
    PROVE  (h + i) % (QueueSize + 1) = At(h, i) /\ At(h, i) \in Slots
<1> DEFINE m == QueueSize + 1
           a == h + i
<1>1. m \in Nat \ {0} /\ a \in 0 .. 2 * m - 1 /\ m - 1 = QueueSize
  BY AtSlots
<1> HIDE DEF m, a
<1>2. a % m = (IF a < m THEN a ELSE a - m) /\ a % m \in 0 .. m - 1
  BY <1>1, Remainder
<1> QED
  BY <1>1, <1>2, AtSlots DEF At, a, m

LEMMA AtRound ==
    ASSUME NEW h \in Slots
    PROVE  At(h, 0) = h /\ At(h, QueueSize + 1) = h /\ Around(h) = At(h, 1) /\ At(h, 1) \in Slots
<1>1. (h + 1) % (QueueSize + 1) = At(h, 1) /\ At(h, 1) \in Slots
  <2>1. 1 \in 0 .. QueueSize + 1
    BY AtSlots
  <2> QED
    BY <2>1, AtPlace
<1> QED
  BY <1>1, AtSlots DEF At, Around

LEMMA AtNext ==
    ASSUME NEW h \in Slots, NEW i \in 0 .. QueueSize
    PROVE  At(At(h, 1), i) = At(h, i + 1) /\ At(At(h, i), 1) = At(h, i + 1)
  BY AtSlots DEF At

LEMMA AtDiff ==
    ASSUME NEW h \in Slots, NEW i \in 0 .. QueueSize, NEW j \in 0 .. QueueSize, At(h, i) = At(h, j)
    PROVE  i = j
  BY AtSlots DEF At

\* The slots of a queue are different, and different from where the next
\* message goes.
LEMMA SlotLemma ==
    ASSUME NEW q, NEW messages, Ring(q, messages)
    PROVE  /\ Len(messages) \in 0 .. QueueSize /\ q.head \in Slots /\ q.v \in Vectors
           /\ q.tail \in Slots /\ q.tail = At(q.head, Len(messages))
           /\ \A i \in 1 .. QueueSize + 1 :
                 Slot(q, i) = <<q.v, At(q.head, i - 1)>> /\ Slot(q, i) \in {q.v} \X Slots
           /\ \A i, j \in 1 .. QueueSize + 1 : Slot(q, i) = Slot(q, j) => i = j
<1>1. /\ q.head \in Slots /\ q.tail \in Slots /\ q.v \in Vectors /\ QueueSize \in Nat
      /\ Len(messages) \in 0 .. QueueSize
  <2>1. Len(messages) \in Nat
    BY LenProperties DEF Ring
  <2> QED
    BY <2>1, AtSlots DEF Ring
<1>2. ASSUME NEW i \in 1 .. QueueSize + 1
      PROVE  /\ Slot(q, i) = <<q.v, At(q.head, i - 1)>> /\ Slot(q, i) \in {q.v} \X Slots
             /\ i - 1 \in 0 .. QueueSize
  <2>1. i - 1 \in 0 .. QueueSize + 1 /\ i - 1 \in 0 .. QueueSize /\ q.head + i - 1 = q.head + (i - 1)
    BY <1>1
  <2>2. (q.head + (i - 1)) % (QueueSize + 1) = At(q.head, i - 1) /\ At(q.head, i - 1) \in Slots
    BY <1>1, <2>1, AtPlace
  <2> QED
    BY <2>1, <2>2 DEF Slot
<1>3. q.tail = At(q.head, Len(messages))
  <2>1. Len(messages) \in 0 .. QueueSize + 1
    BY <1>1
  <2> QED
    BY <1>1, <2>1, AtPlace DEF Ring
<1>4. ASSUME NEW i \in 1 .. QueueSize + 1, NEW j \in 1 .. QueueSize + 1, Slot(q, i) = Slot(q, j) PROVE i = j
  <2>1. At(q.head, i - 1) = At(q.head, j - 1)
    BY <1>2, <1>4
  <2>2. i - 1 = j - 1
    BY <1>1, <1>2, <2>1, AtDiff
  <2> QED
    BY <1>1, <2>2
<1> QED
  BY <1>1, <1>2, <1>3, <1>4

\* Where messages are when one more has come.
LEMMA RingPushed ==
    ASSUME NEW q, NEW messages, Ring(q, messages), NEW m \in LogTexts
    PROVE  LET full == Around(q.tail) = q.head
               p == [q EXCEPT !.tail = Around(@), !.head = IF full THEN Around(@) ELSE @]
               more == Append(IF full THEN Tail(messages) ELSE messages, m)
           IN  /\ Ring(p, more) /\ p.v = q.v
               /\ \A i \in 1 .. Len(more) :
                     \/ Slot(p, i) = <<q.v, q.tail>> /\ more[i] = m
                     \/ \E j \in 1 .. Len(messages) :
                           Slot(p, i) = Slot(q, j) /\ more[i] = messages[j] /\ Slot(q, j) # <<q.v, q.tail>>
<1> DEFINE full == Around(q.tail) = q.head
           p == [q EXCEPT !.tail = Around(@), !.head = IF full THEN Around(@) ELSE @]
           rest == IF full THEN Tail(messages) ELSE messages
           more == Append(rest, m)
           n == Len(messages)
           h == q.head
<1>1. /\ n \in 0 .. QueueSize /\ h \in Slots /\ q.v \in Vectors /\ q.tail \in Slots /\ q.tail = At(h, n)
      /\ QueueSize \in Nat \ {0} /\ messages \in Seq(LogTexts)
      /\ q \in [head : Slots, tail : Slots, v : Vectors]
  BY SlotLemma, AtSlots DEF Ring
<1>2. Around(q.tail) = At(h, n + 1) /\ Around(h) = At(h, 1) /\ At(h, 1) \in Slots
  <2>1. Around(q.tail) = At(At(h, n), 1)
    BY <1>1, AtRound
  <2>2. At(At(h, n), 1) = At(h, n + 1)
    BY <1>1, AtNext
  <2> QED
    BY <1>1, <2>1, <2>2, AtRound
<1>3. full <=> n = QueueSize
  <2>1. ASSUME n = QueueSize PROVE full
    BY <1>1, <1>2, <2>1, AtRound
  <2>2. ASSUME full, n # QueueSize PROVE FALSE
    <3>1. n + 1 \in 0 .. QueueSize /\ 0 \in 0 .. QueueSize /\ n + 1 # 0
      BY <1>1, <2>2
    <3>2. At(h, n + 1) = At(h, 0)
      BY <1>1, <1>2, <2>2, AtRound
    <3> QED
      BY <1>1, <3>1, <3>2, AtDiff
  <2> QED
    BY <2>1, <2>2
<1>4. /\ rest \in Seq(LogTexts) /\ Len(rest) = (IF full THEN n - 1 ELSE n)
      /\ \A i \in 1 .. Len(rest) : rest[i] = messages[IF full THEN i + 1 ELSE i]
  <2>1. full => messages # <<>>
    BY <1>1, <1>3, EmptySeq
  <2>2. CASE full
    BY <1>1, <2>1, <2>2, HeadTailProperties
  <2>3. CASE ~full
    BY <1>1, <2>3
  <2> QED
    BY <2>2, <2>3
<1> HIDE DEF rest
<1>5. /\ more \in Seq(LogTexts) /\ Len(more) = Len(rest) + 1 /\ more[Len(rest) + 1] = m
      /\ \A i \in 1 .. Len(rest) : more[i] = rest[i]
  BY <1>4, AppendProperties, LenProperties
<1>6. /\ p.head = (IF full THEN At(h, 1) ELSE h) /\ p.tail = At(h, n + 1) /\ p.v = q.v
      /\ p \in [head : Slots, tail : Slots, v : Vectors]
  <2>1. p = [q EXCEPT !.tail = Around(@), !.head = IF full THEN Around(@) ELSE @]
    OBVIOUS
  <2>2. At(h, n + 1) \in Slots
    <3>1. n + 1 \in 0 .. QueueSize + 1
      BY <1>1
    <3> QED
      BY <1>1, <3>1, AtPlace
  <2> HIDE DEF p, full
  <2>3. p.head = (IF full THEN Around(h) ELSE h) /\ p.tail = Around(q.tail) /\ p.v = q.v
    BY <1>1, <2>1
  <2>4. p = [head |-> p.head, tail |-> p.tail, v |-> p.v]
    BY <1>1, <2>1
  <2> QED
    BY <1>1, <1>2, <2>2, <2>3, <2>4
<1> HIDE DEF more, p, full
<1>7. Len(more) \in 1 .. QueueSize
  <2>1. Len(more) = (IF full THEN n ELSE n + 1)
    BY <1>1, <1>4, <1>5
  <2>2. n \in 0 .. QueueSize /\ QueueSize \in Nat \ {0}
    BY <1>1
  <2> HIDE DEF n
  <2> QED
    BY <1>3, <2>1, <2>2
<1>8. ASSUME NEW i \in 0 .. QueueSize PROVE At(p.head, i) = At(h, IF full THEN i + 1 ELSE i)
  BY <1>1, <1>6, AtNext
<1>9. Ring(p, more)
  <2>1. p.tail = At(p.head, Len(more))
    <3>1. (IF full THEN Len(more) + 1 ELSE Len(more)) = n + 1
      BY <1>1, <1>4, <1>5
    <3> QED
      BY <1>6, <1>7, <1>8, <3>1
  <2>2. (p.head + Len(more)) % (QueueSize + 1) = At(p.head, Len(more))
    <3>1. Len(more) \in 0 .. QueueSize + 1 /\ p.head \in Slots
      BY <1>1, <1>2, <1>6, <1>7
    <3> QED
      BY <3>1, AtPlace
  <2>3. Len(more) <= QueueSize
    BY <1>1, <1>7
  <2> QED
    BY <1>5, <1>6, <2>1, <2>2, <2>3 DEF Ring
<1>10. ASSUME NEW i \in 1 .. Len(more)
       PROVE  Slot(p, i) = Slot(q, IF full THEN i + 1 ELSE i) /\ i \in 1 .. QueueSize
  <2>1. i \in 1 .. QueueSize + 1 /\ i + 1 \in 1 .. QueueSize + 1 /\ i - 1 \in 0 .. QueueSize
        /\ i \in 1 .. QueueSize /\ (i - 1) + 1 = i /\ (i + 1) - 1 = i
    BY <1>1, <1>7
  <2>2. Slot(p, i) = <<p.v, At(p.head, i - 1)>>
    BY <1>9, <2>1, SlotLemma
  <2>3. /\ Slot(q, i + 1) = <<q.v, At(h, i)>>
        /\ Slot(q, i) = <<q.v, At(h, i - 1)>>
    BY <2>1, SlotLemma
  <2>4. At(p.head, i - 1) = At(h, IF full THEN i ELSE i - 1)
    BY <1>8, <2>1
  <2> QED
    BY <1>6, <2>1, <2>2, <2>3, <2>4
<1>11. <<q.v, q.tail>> = Slot(q, n + 1)
  <2>1. n + 1 \in 1 .. QueueSize + 1 /\ (n + 1) - 1 = n
    BY <1>1
  <2> QED
    BY <1>1, <2>1, SlotLemma
<1>12. ASSUME NEW i \in 1 .. Len(more)
       PROVE  \/ Slot(p, i) = <<q.v, q.tail>> /\ more[i] = m
              \/ \E j \in 1 .. n :
                    Slot(p, i) = Slot(q, j) /\ more[i] = messages[j] /\ Slot(q, j) # <<q.v, q.tail>>
  <2> DEFINE j == IF full THEN i + 1 ELSE i
  <2>0. Slot(p, i) = Slot(q, j)
    BY <1>10
  <2>1. CASE i = Len(rest) + 1
    <3>1. j = n + 1
      BY <1>1, <1>4, <2>1
    <3> QED
      BY <1>5, <1>11, <2>0, <2>1, <3>1
  <2>2. CASE i # Len(rest) + 1
    <3>1. i \in 1 .. Len(rest) /\ j \in 1 .. n
      BY <1>1, <1>4, <1>5, <2>2
    <3>2. more[i] = messages[j]
      BY <1>4, <1>5, <3>1
    <3>3. j \in 1 .. QueueSize + 1 /\ n + 1 \in 1 .. QueueSize + 1 /\ j # n + 1
      BY <1>1, <3>1
    <3>4. Slot(q, j) # Slot(q, n + 1)
      BY <3>3, SlotLemma
    <3> HIDE DEF j
    <3> QED
      BY <1>11, <2>0, <3>1, <3>2, <3>4
  <2> QED
    BY <2>1, <2>2
<1> QED
  BY <1>6, <1>9, <1>12 DEF p, more, rest, full

\* Where they are when the oldest has gone.
LEMMA RingPopped ==
    ASSUME NEW q, NEW messages, Ring(q, messages), q.head # q.tail
    PROVE  LET p == [q EXCEPT !.head = Around(@)]
           IN  /\ Ring(p, Tail(messages)) /\ p.v = q.v
               /\ Len(messages) >= 1 /\ Slot(q, 1) = <<q.v, q.head>> /\ Head(messages) = messages[1]
               /\ \A i \in 1 .. Len(Tail(messages)) :
                     /\ Slot(p, i) = Slot(q, i + 1) /\ Tail(messages)[i] = messages[i + 1]
                     /\ i + 1 \in 2 .. Len(messages) /\ Slot(p, i) # <<q.v, q.head>>
<1> DEFINE p == [q EXCEPT !.head = Around(@)]
           rest == Tail(messages)
           n == Len(messages)
           h == q.head
<1>1. /\ n \in 0 .. QueueSize /\ h \in Slots /\ q.v \in Vectors /\ q.tail \in Slots /\ q.tail = At(h, n)
      /\ QueueSize \in Nat \ {0} /\ messages \in Seq(LogTexts)
      /\ q \in [head : Slots, tail : Slots, v : Vectors]
  BY SlotLemma, AtSlots DEF Ring
<1>2. n \in 1 .. QueueSize
  <2>1. n # 0
    BY <1>1, AtRound
  <2> QED
    BY <1>1, <2>1
<1>3. /\ rest \in Seq(LogTexts) /\ Len(rest) = n - 1 /\ Head(messages) = messages[1]
      /\ \A i \in 1 .. Len(rest) : rest[i] = messages[i + 1]
  <2>1. messages # <<>>
    BY <1>1, <1>2, EmptySeq
  <2>2. Head(messages) = messages[1]
    BY <1>1, <2>1
  <2> QED
    BY <1>1, <2>1, <2>2, HeadTailProperties
<1>4. p.head = At(h, 1) /\ p.tail = q.tail /\ p.v = q.v /\ p \in [head : Slots, tail : Slots, v : Vectors]
  <2>1. p = [head |-> Around(h), tail |-> q.tail, v |-> q.v]
    BY <1>1
  <2>2. Around(h) = At(h, 1) /\ At(h, 1) \in Slots
    BY <1>1, AtRound
  <2> QED
    BY <1>1, <2>1, <2>2
<1> HIDE DEF rest, p
<1>5. Ring(p, rest)
  <2>1. n - 1 \in 0 .. QueueSize /\ n - 1 \in 0 .. QueueSize + 1 /\ (n - 1) + 1 = n
    BY <1>1, <1>2
  <2>2. At(p.head, n - 1) = At(h, n)
    BY <1>1, <1>4, <2>1, AtNext
  <2>3. (p.head + Len(rest)) % (QueueSize + 1) = At(p.head, Len(rest))
    <3>1. Len(rest) \in 0 .. QueueSize + 1 /\ p.head \in Slots
      BY <1>3, <1>4, <2>1
    <3> QED
      BY <3>1, AtPlace
  <2>4. Len(rest) <= QueueSize
    BY <1>1, <1>3, <2>1
  <2> QED
    BY <1>1, <1>3, <1>4, <2>2, <2>3, <2>4 DEF Ring
<1>6. Slot(q, 1) = <<q.v, h>>
  <2>1. 1 \in 1 .. QueueSize + 1 /\ 1 - 1 = 0
    BY <1>1
  <2> QED
    <3>1. Slot(q, 1) = <<q.v, At(h, 1 - 1)>>
      BY <2>1, SlotLemma
    <3> QED
      BY <1>1, <2>1, <3>1, AtRound
<1>7. ASSUME NEW i \in 1 .. Len(rest)
      PROVE  /\ Slot(p, i) = Slot(q, i + 1) /\ rest[i] = messages[i + 1]
             /\ i + 1 \in 2 .. n /\ Slot(p, i) # <<q.v, h>>
  <2>1. /\ i \in 1 .. QueueSize + 1 /\ i + 1 \in 1 .. QueueSize + 1 /\ i - 1 \in 0 .. QueueSize
        /\ (i - 1) + 1 = i /\ (i + 1) - 1 = i /\ i + 1 \in 2 .. n /\ 1 \in 1 .. QueueSize + 1 /\ i + 1 # 1
    BY <1>1, <1>2, <1>3
  <2>2. Slot(p, i) = <<p.v, At(p.head, i - 1)>>
    BY <1>5, <2>1, SlotLemma
  <2>3. Slot(q, i + 1) = <<q.v, At(h, i)>> /\ Slot(q, i + 1) # Slot(q, 1)
    BY <2>1, SlotLemma
  <2>4. At(p.head, i - 1) = At(h, i)
    BY <1>1, <1>4, <2>1, AtNext
  <2> QED
    BY <1>3, <1>4, <1>6, <2>1, <2>2, <2>3, <2>4
<1> QED
  BY <1>2, <1>3, <1>4, <1>5, <1>6, <1>7 DEF p, rest

\* More may have changed than did.
LEMMA FrameMore ==
    ASSUME NEW w, NEW x, NEW some, NEW more, Frame(w, x, some), some \subseteq more
    PROVE  Frame(w, x, more)
  BY DEF Frame

LEMMA ObjectsLemma ==
    /\ Item \in Objects /\ Popped \in Objects /\ Item # Popped
    /\ \A v \in Vectors, i \in Slots :
          <<v, i>> \in Objects /\ <<v, i>> # Item /\ <<v, i>> # Popped /\ <<v, i>> \in {v} \X Slots
    /\ \A v \in Vectors : Item \notin {v} \X Slots /\ Popped \notin {v} \X Slots
    /\ NoQueue.v \notin Vectors
    /\ \A u, v \in Vectors, i \in Slots : u # v => <<u, i>> \notin {v} \X Slots
  BY DEF Objects, Item, Popped, Vectors, NoQueue

\* The messages of a queue stay, and the elements of a vector, when others
\* change.
LEMMA HoldsOn ==
    ASSUME NEW w \in Worlds, Owned(w), NEW x, NEW some, Frame(w, x, some),
           NEW q, NEW messages, Ring(q, messages), Holds(w, q, messages),
           \A i \in 1 .. Len(messages) : Slot(q, i) \notin some
    PROVE  Holds(x, q, messages)
<1> SUFFICES ASSUME NEW i \in 1 .. Len(messages)
             PROVE  Carries(x, Slot(q, i), NameOf(messages[i]), PayloadOf(messages[i]))
  BY DEF Holds
<1>1. i \in 1 .. QueueSize + 1
  BY SlotLemma, AtSlots
<1>2. Slot(q, i) \in Objects
  BY <1>1, SlotLemma, ObjectsLemma
<1>3. Untouched(w, x, Slot(q, i))
  BY <1>2 DEF Frame
<1>4. Carries(w, Slot(q, i), NameOf(messages[i]), PayloadOf(messages[i]))
  BY DEF Holds
<1> QED
  BY <1>2, <1>3, <1>4, CarriesOn

LEMMA AliveOn ==
    ASSUME NEW w, NEW x, NEW some, Frame(w, x, some), NEW v \in Vectors,
           \A i \in Slots : <<v, i>> \notin some
    PROVE  (Alive(w, v) => Alive(x, v)) /\ (Gone(w, v) => Gone(x, v))
<1>1. \A i \in Slots : x.obj[<<v, i>>] = w.obj[<<v, i>>]
  BY ObjectsLemma DEF Frame, Untouched
<1> QED
  BY <1>1 DEF Alive, Gone

\* The copy of the queue, and the vectors, when nothing changes but the vector of
\* the queue and the temporaries.
LEMMA TwinOn ==
    ASSUME NEW w \in Worlds, Owned(w), NEW x, NEW q, q.v \in Vectors,
           Frame(w, x, ({q.v} \X Slots) \cup {Item, Popped}),
           NEW t, NEW messages, TwinHolds(w, t, messages, q)
    PROVE  TwinHolds(x, t, messages, q)
<1> SUFFICES ASSUME t # NoQueue PROVE Holds(x, t, messages)
  BY DEF TwinHolds
<1>1. Ring(t, messages) /\ Holds(w, t, messages) /\ t.v # q.v /\ t.v \in Vectors
  BY SlotLemma DEF TwinHolds
<1>2. ASSUME NEW i \in 1 .. Len(messages)
      PROVE  Slot(t, i) \notin ({q.v} \X Slots) \cup {Item, Popped}
  <2>1. i \in 1 .. QueueSize + 1
    BY <1>1, SlotLemma, AtSlots
  <2>2. Slot(t, i) \in {t.v} \X Slots
    BY <1>1, <2>1, SlotLemma
  <2> QED
    BY <1>1, <2>2, ObjectsLemma
<1> QED
  BY <1>1, <1>2, HoldsOn

LEMMA VectorsOn ==
    ASSUME NEW w, NEW x, NEW u \in Vectors, Frame(w, x, ({u} \X Slots) \cup {Item, Popped}),
           NEW v \in Vectors, v # u
    PROVE  (Alive(w, v) => Alive(x, v)) /\ (Gone(w, v) => Gone(x, v))
<1>1. \A i \in Slots : <<v, i>> \notin ({u} \X Slots) \cup {Item, Popped}
  BY ObjectsLemma
<1> QED
  BY <1>1, AliveOn

\* What a change to the vector of the queue and to the temporaries leaves.
LEMMA RestStays ==
    ASSUME BufferInv, NEW x, Frame(world, x, ({queue.v} \X Slots) \cup {Item, Popped})
    PROVE  /\ TwinHolds(x, twin, twinKept, queue)
           /\ \A v \in Vectors \ {queue.v} : IF v \in {queue.v, twin.v} THEN Alive(x, v) ELSE Gone(x, v)
<1>1. queue.v \in Vectors
  BY SlotLemma DEF BufferInv
<1>2. TwinHolds(x, twin, twinKept, queue)
  BY <1>1, TwinOn DEF BufferInv
<1>3. ASSUME NEW v \in Vectors, v # queue.v
      PROVE  IF v \in {queue.v, twin.v} THEN Alive(x, v) ELSE Gone(x, v)
  <2>1. (Alive(world, v) => Alive(x, v)) /\ (Gone(world, v) => Gone(x, v))
    BY <1>1, <1>3, VectorsOn
  <2> QED
    BY <1>3, <2>1 DEF BufferInv
<1> QED
  BY <1>2, <1>3

\* What the worker has stays.
LEMMA TakenStays ==
    ASSUME BufferInv, NEW x, Untouched(world, x, Popped)
    PROVE  IF taken = Junk0 THEN x.obj[Popped] = Dead
           ELSE taken \in LogTexts /\ Carries(x, Popped, NameOf(taken), PayloadOf(taken))
<1>1. CASE taken = Junk0
  BY <1>1 DEF BufferInv, Untouched
<1>2. CASE taken # Junk0
  <2>1. /\ world \in Worlds /\ Owned(world)
        /\ taken \in LogTexts /\ Carries(world, Popped, NameOf(taken), PayloadOf(taken))
    BY <1>2 DEF BufferInv
  <2>2. Popped \in Objects
    BY ObjectsLemma
  <2> QED
    BY <1>2, <2>1, <2>2, CarriesOn
<1> QED
  BY <1>1, <1>2

\* A queue with nothing in it.
LEMMA RingEmpty ==
    ASSUME NEW q, q = [head |-> q.head, tail |-> q.tail, v |-> q.v],
           q.head = 0, q.tail = 0, q.v \in Vectors
    PROVE  Ring(q, <<>>) /\ \A w : Holds(w, q, <<>>)
<1>1. <<>> \in Seq(LogTexts) /\ Len(<<>>) = 0
  BY EmptySeq
<1>2. (0 + 0) % (QueueSize + 1) = 0 /\ 0 \in Slots /\ 0 <= QueueSize
  BY AtSlots
<1>3. Ring(q, <<>>)
  BY <1>1, <1>2 DEF Ring
<1> QED
  BY <1>1, <1>3 DEF Holds

\* A message is put at the tail, and the oldest is lost when the queue was full.
LEMMA PushMessageKeeps == BufferInv /\ PushMessage => BufferInv'
<1> SUFFICES ASSUME BufferInv, PushMessage PROVE BufferInv'
  OBVIOUS
<1> DEFINE full == Around(queue.tail) = queue.head
           to == <<queue.v, queue.tail>>
<1>1. PICK m \in LogTexts :
         /\ world' = Destroy0(MoveAssign(Capture(world, Item, NameOf(m), PayloadOf(m)), to, Item), Item)
         /\ queue' = [queue EXCEPT !.tail = Around(@), !.head = IF full THEN Around(@) ELSE @]
         /\ kept' = Append(IF full THEN Tail(kept) ELSE kept, m)
         /\ UNCHANGED <<user, twin, twinKept, taken>>
  BY DEF PushMessage
<1> DEFINE name == NameOf(m)
           payload == PayloadOf(m)
           a == Capture(world, Item, name, payload)
           b == MoveAssign(a, to, Item)
           some == {to, Item}
<1>2. name \in Seq(Chars) /\ payload \in Seq(Chars)
  BY TextsLemma
<1>3. /\ world \in Worlds /\ Owned(world) /\ world.obj[Item] = Dead /\ Ring(queue, kept)
      /\ Holds(world, queue, kept) /\ Alive(world, queue.v)
  BY SlotLemma DEF BufferInv
<1>4. queue.v \in Vectors /\ queue.tail \in Slots
  BY <1>3, SlotLemma
<1>5. to \in Objects /\ to # Item /\ to # Popped /\ Item \in Objects /\ Popped # Item
      /\ to \in {queue.v} \X Slots
  BY <1>4, ObjectsLemma
<1> HIDE DEF name, payload
<1>6. Frame(world, a, {Item}) /\ Carries(a, Item, name, payload)
  BY <1>2, <1>3, <1>5, Captured
<1>7. world' = Destroy0(b, Item)
  BY <1>1 DEF name, payload
<1> HIDE DEF a
<1>8. a \in Worlds /\ Owned(a) /\ a.obj[to] \in Buffers
  <2>1. a.obj[to] = world.obj[to]
    BY <1>5, <1>6 DEF Frame, Untouched
  <2> QED
    BY <1>3, <1>4, <1>6, <2>1 DEF Frame, Alive
<1> HIDE DEF to
<1>9. Frame(a, b, some) /\ Carries(b, to, name, payload)
  BY <1>2, <1>5, <1>6, <1>8, Moved
<1> HIDE DEF b
<1>10. b \in Worlds /\ Owned(b)
  BY <1>9 DEF Frame
<1>11. Frame(b, world', {Item}) /\ world'.obj[Item] = Dead
  BY <1>5, <1>7, <1>10, Destroyed
<1>12. Frame(world, world', some)
  <2>1. Frame(world, a, some) /\ Frame(b, world', some)
    BY <1>6, <1>11, FrameMore
  <2>2. Frame(world, b, some)
    BY <1>9, <2>1, FrameThen
  <2> QED
    BY <2>1, <2>2, FrameThen
<1>13. Carries(world', to, name, payload)
  <2>1. Untouched(b, world', to)
    BY <1>5, <1>11 DEF Frame
  <2> QED
    BY <1>5, <1>9, <1>10, <2>1, CarriesOn
<1>14. /\ Ring(queue', kept') /\ queue'.v = queue.v
       /\ \A i \in 1 .. Len(kept') :
             \/ Slot(queue', i) = to /\ kept'[i] = m
             \/ \E j \in 1 .. Len(kept) :
                   Slot(queue', i) = Slot(queue, j) /\ kept'[i] = kept[j] /\ Slot(queue, j) # to
  <2> DEFINE p == [queue EXCEPT !.tail = Around(@), !.head = IF full THEN Around(@) ELSE @]
             more == Append(IF full THEN Tail(kept) ELSE kept, m)
  <2>1. /\ Ring(p, more) /\ p.v = queue.v
        /\ \A i \in 1 .. Len(more) :
              \/ Slot(p, i) = <<queue.v, queue.tail>> /\ more[i] = m
              \/ \E j \in 1 .. Len(kept) :
                    Slot(p, i) = Slot(queue, j) /\ more[i] = kept[j] /\ Slot(queue, j) # <<queue.v, queue.tail>>
    BY <1>3, RingPushed
  <2>2. queue' = p /\ kept' = more
    BY <1>1
  <2> HIDE DEF p, more
  <2> QED
    BY <2>1, <2>2 DEF to
<1>15. Holds(world', queue', kept')
  <2> SUFFICES ASSUME NEW i \in 1 .. Len(kept')
               PROVE  Carries(world', Slot(queue', i), NameOf(kept'[i]), PayloadOf(kept'[i]))
    BY DEF Holds
  <2>1. CASE Slot(queue', i) = to /\ kept'[i] = m
    BY <1>13, <2>1 DEF name, payload
  <2>2. ASSUME NEW j \in 1 .. Len(kept), Slot(queue', i) = Slot(queue, j), kept'[i] = kept[j],
               Slot(queue, j) # to
        PROVE  Carries(world', Slot(queue', i), NameOf(kept'[i]), PayloadOf(kept'[i]))
    <3>1. j \in 1 .. QueueSize + 1
      BY <1>3, SlotLemma, AtSlots
    <3>2. Slot(queue, j) \in {queue.v} \X Slots
      BY <1>3, <3>1, SlotLemma
    <3>3. Slot(queue, j) \in Objects /\ Slot(queue, j) # Item
      BY <1>4, <3>2, ObjectsLemma
    <3>4. Untouched(world, world', Slot(queue, j))
      BY <1>12, <2>2, <3>3 DEF Frame
    <3>5. Carries(world, Slot(queue, j), NameOf(kept[j]), PayloadOf(kept[j]))
      BY <1>3 DEF Holds
    <3>6. Carries(world', Slot(queue, j), NameOf(kept[j]), PayloadOf(kept[j]))
      BY <1>3, <3>3, <3>4, <3>5, CarriesOn
    <3> QED
      BY <2>2, <3>6
  <2> QED
    BY <1>14, <2>1, <2>2
<1>16. Frame(world, world', ({queue.v} \X Slots) \cup {Item, Popped})
  BY <1>5, <1>12, FrameMore
<1>17. /\ TwinHolds(world', twin, twinKept, queue)
       /\ \A v \in Vectors \ {queue.v} : IF v \in {queue.v, twin.v} THEN Alive(world', v) ELSE Gone(world', v)
  BY <1>16, RestStays
<1>18. Alive(world', queue.v)
  <2> SUFFICES ASSUME NEW i \in Slots PROVE world'.obj[<<queue.v, i>>] \in Buffers
    BY DEF Alive
  <2>1. CASE <<queue.v, i>> = to
    BY <1>13, <2>1 DEF Carries, Fits
  <2>2. CASE <<queue.v, i>> # to
    <3>1. <<queue.v, i>> \in Objects \ some
      BY <1>4, <2>2, ObjectsLemma
    <3>2. world'.obj[<<queue.v, i>>] = world.obj[<<queue.v, i>>]
      BY <1>12, <3>1 DEF Frame, Untouched
    <3> QED
      BY <1>3, <3>2 DEF Alive
  <2> QED
    BY <2>1, <2>2
<1>19. IF taken' = Junk0 THEN world'.obj[Popped] = Dead
       ELSE taken' \in LogTexts /\ Carries(world', Popped, NameOf(taken'), PayloadOf(taken'))
  <2>1. Popped \in Objects \ some
    BY <1>5, ObjectsLemma
  <2>2. Untouched(world, world', Popped)
    BY <1>12, <2>1 DEF Frame
  <2>3. taken' = taken
    BY <1>1
  <2> QED
    BY <2>2, <2>3, TakenStays
<1>20. world' \in Worlds /\ Owned(world')
  BY <1>12 DEF Frame
<1>21. twin' = twin /\ twinKept' = twinKept
  BY <1>1
<1>22. TwinHolds(world', twin', twinKept', queue')
  BY <1>14, <1>17, <1>21 DEF TwinHolds
<1>23. \A v \in Vectors : IF v \in {queue'.v, twin'.v} THEN Alive(world', v) ELSE Gone(world', v)
  BY <1>14, <1>17, <1>18, <1>21
<1> QED
  BY <1>11, <1>14, <1>15, <1>19, <1>20, <1>22, <1>23 DEF BufferInv

\* The oldest message goes to the worker.
LEMMA PopMessageKeeps == BufferInv /\ PopMessage => BufferInv'
<1> SUFFICES ASSUME BufferInv, PopMessage PROVE BufferInv'
  OBVIOUS
<1> DEFINE from == <<queue.v, queue.head>>
           a == Construct0(world, Popped)
           b == MoveAssign(a, Popped, from)
           name == NameOf(kept[1])
           payload == PayloadOf(kept[1])
           some == {Popped, from}
           p == [queue EXCEPT !.head = Around(@)]
           rest == Tail(kept)
<1>1. /\ taken = Junk0 /\ queue.head # queue.tail
      /\ world' = b /\ queue' = p /\ taken' = Head(kept) /\ kept' = rest
      /\ twin' = twin /\ twinKept' = twinKept
  BY DEF PopMessage
<1>2. /\ world \in Worlds /\ Owned(world) /\ world.obj[Item] = Dead /\ Ring(queue, kept)
      /\ Holds(world, queue, kept) /\ Alive(world, queue.v) /\ world.obj[Popped] = Dead
  BY <1>1, SlotLemma DEF BufferInv
<1>3. /\ Ring(p, rest) /\ p.v = queue.v
      /\ Len(kept) >= 1 /\ Slot(queue, 1) = from /\ Head(kept) = kept[1]
      /\ \A i \in 1 .. Len(rest) :
            /\ Slot(p, i) = Slot(queue, i + 1) /\ rest[i] = kept[i + 1]
            /\ i + 1 \in 2 .. Len(kept) /\ Slot(p, i) # from
  BY <1>1, <1>2, RingPopped
<1>4. /\ queue.v \in Vectors /\ queue.head \in Slots /\ Len(kept) \in 0 .. QueueSize
      /\ 1 \in 1 .. Len(kept) /\ kept \in Seq(LogTexts)
  <2>1. queue.v \in Vectors /\ queue.head \in Slots /\ Len(kept) \in 0 .. QueueSize
    BY <1>2, SlotLemma
  <2> QED
    BY <1>2, <1>3, <2>1 DEF Ring
<1>5. /\ from \in Objects /\ from # Item /\ from # Popped /\ Item \in Objects /\ Popped \in Objects
      /\ Item # Popped /\ from \in {queue.v} \X Slots
  BY <1>4, ObjectsLemma
<1>6. kept[1] \in LogTexts /\ kept[1] # Junk0
  <2>1. kept[1] \in LogTexts
    BY <1>4, ElementOfSeq
  <2> QED
    BY <2>1, BufferAssumption
<1>7. name \in Seq(Chars) /\ payload \in Seq(Chars)
  BY <1>6, TextsLemma
<1>8. Carries(world, from, name, payload)
  BY <1>2, <1>3, <1>4 DEF Holds
<1> HIDE DEF p, rest, name, payload
<1>9. Frame(world, a, {Popped}) /\ Fits(a, Popped)
  BY <1>2, <1>5, Constructed
<1> HIDE DEF a
<1>10. a \in Worlds /\ Owned(a) /\ a.obj[Popped] \in Buffers /\ Untouched(world, a, from)
  BY <1>5, <1>9 DEF Frame, Fits
<1> HIDE DEF from
<1>11. Carries(a, from, name, payload)
  BY <1>2, <1>5, <1>8, <1>10, CarriesOn
<1>12. Frame(a, b, some) /\ Carries(b, Popped, name, payload) /\ b.obj[from] \in Buffers
  BY <1>5, <1>7, <1>10, <1>11, Moved
<1> HIDE DEF b
<1>13. Frame(world, b, some)
  <2>1. Frame(world, a, some)
    BY <1>9, FrameMore
  <2> QED
    BY <1>12, <2>1, FrameThen
<1>14. Holds(b, p, rest)
  <2> SUFFICES ASSUME NEW i \in 1 .. Len(rest)
               PROVE  Carries(b, Slot(p, i), NameOf(rest[i]), PayloadOf(rest[i]))
    BY DEF Holds
  <2>1. /\ Slot(p, i) = Slot(queue, i + 1) /\ rest[i] = kept[i + 1] /\ i + 1 \in 1 .. Len(kept)
        /\ Slot(p, i) # from /\ i + 1 \in 1 .. QueueSize + 1
    BY <1>3, <1>4, AtSlots
  <2>2. Slot(queue, i + 1) \in {queue.v} \X Slots
    BY <1>2, <2>1, SlotLemma
  <2>3. Slot(p, i) \in Objects \ some
    BY <1>4, <2>1, <2>2, ObjectsLemma
  <2>4. Untouched(world, b, Slot(p, i))
    BY <1>13, <2>3 DEF Frame
  <2>5. Carries(world, Slot(p, i), NameOf(rest[i]), PayloadOf(rest[i]))
    BY <1>2, <2>1 DEF Holds
  <2> QED
    BY <1>2, <2>3, <2>4, <2>5, CarriesOn
<1>15. Frame(world, b, ({queue.v} \X Slots) \cup {Item, Popped})
  BY <1>5, <1>13, FrameMore
<1>16. /\ TwinHolds(b, twin, twinKept, queue)
       /\ \A v \in Vectors \ {queue.v} : IF v \in {queue.v, twin.v} THEN Alive(b, v) ELSE Gone(b, v)
  BY <1>15, RestStays
<1>17. Alive(b, queue.v)
  <2> SUFFICES ASSUME NEW i \in Slots PROVE b.obj[<<queue.v, i>>] \in Buffers
    BY DEF Alive
  <2>1. CASE <<queue.v, i>> = from
    BY <1>12, <2>1
  <2>2. CASE <<queue.v, i>> # from
    <3>1. <<queue.v, i>> \in Objects \ some
      BY <1>4, <2>2, ObjectsLemma
    <3>2. b.obj[<<queue.v, i>>] = world.obj[<<queue.v, i>>]
      BY <1>13, <3>1 DEF Frame, Untouched
    <3> QED
      BY <1>2, <3>2 DEF Alive
  <2> QED
    BY <2>1, <2>2
<1>18. b \in Worlds /\ Owned(b) /\ b.obj[Item] = Dead
  BY <1>2, <1>5, <1>13 DEF Frame, Untouched
<1>19. TwinHolds(world', twin', twinKept', queue')
  BY <1>1, <1>3, <1>16 DEF TwinHolds
<1>20. \A v \in Vectors : IF v \in {queue'.v, twin'.v} THEN Alive(world', v) ELSE Gone(world', v)
  BY <1>1, <1>3, <1>16, <1>17
<1>21. taken' # Junk0 /\ taken' \in LogTexts /\ Carries(world', Popped, NameOf(taken'), PayloadOf(taken'))
  BY <1>1, <1>3, <1>6, <1>12 DEF name, payload
<1> QED
  BY <1>1, <1>3, <1>14, <1>18, <1>19, <1>20, <1>21 DEF BufferInv

\* A change that leaves the queue as it is.
LEMMA QueueStays ==
    ASSUME BufferInv, NEW x, NEW some, Frame(world, x, some),
           \A i \in Slots : <<queue.v, i>> \notin some
    PROVE  Holds(x, queue, kept) /\ Alive(x, queue.v)
<1>1. /\ world \in Worlds /\ Owned(world) /\ Ring(queue, kept) /\ Holds(world, queue, kept)
      /\ queue.v \in Vectors /\ Alive(world, queue.v)
  BY SlotLemma DEF BufferInv
<1>2. \A i \in 1 .. Len(kept) : Slot(queue, i) \notin some
  <2> TAKE i \in 1 .. Len(kept)
  <2>1. i \in 1 .. QueueSize + 1
    BY <1>1, SlotLemma, AtSlots
  <2>2. Slot(queue, i) = <<queue.v, At(queue.head, i - 1)>> /\ Slot(queue, i) \in {queue.v} \X Slots
    BY <1>1, <2>1, SlotLemma
  <2>3. At(queue.head, i - 1) \in Slots
    BY <2>2
  <2> QED
    BY <2>2, <2>3
<1>3. Holds(x, queue, kept)
  BY <1>1, <1>2, HoldsOn
<1> QED
  BY <1>1, <1>3, AliveOn

\* The worker is through with its message.
LEMMA DonePoppedKeeps == BufferInv /\ DonePopped => BufferInv'
<1> SUFFICES ASSUME BufferInv, DonePopped PROVE BufferInv'
  OBVIOUS
<1> DEFINE x == Destroy0(world, Popped)
<1>1. /\ world' = x /\ taken' = Junk0 /\ queue' = queue /\ twin' = twin /\ kept' = kept
      /\ twinKept' = twinKept
  BY DEF DonePopped
<1>2. /\ world \in Worlds /\ Owned(world) /\ Ring(queue, kept) /\ queue.v \in Vectors
      /\ world.obj[Item] = Dead
  BY SlotLemma DEF BufferInv
<1>3. Frame(world, x, {Popped}) /\ x.obj[Popped] = Dead
  BY <1>2, Destroyed, ObjectsLemma
<1> HIDE DEF x
<1>4. /\ TwinHolds(x, twin, twinKept, queue)
      /\ \A v \in Vectors \ {queue.v} : IF v \in {queue.v, twin.v} THEN Alive(x, v) ELSE Gone(x, v)
  <2>1. Frame(world, x, ({queue.v} \X Slots) \cup {Item, Popped})
    BY <1>3, FrameMore
  <2> QED
    BY <2>1, RestStays
<1>5. Holds(x, queue, kept) /\ Alive(x, queue.v)
  <2>1. \A i \in Slots : <<queue.v, i>> \notin {Popped}
    BY <1>2, ObjectsLemma
  <2> QED
    BY <1>3, <2>1, QueueStays
<1>6. x \in Worlds /\ Owned(x) /\ x.obj[Item] = Dead
  BY <1>2, <1>3, ObjectsLemma DEF Frame, Untouched
<1>7. /\ TwinHolds(world', twin', twinKept', queue')
      /\ \A v \in Vectors : IF v \in {queue'.v, twin'.v} THEN Alive(world', v) ELSE Gone(world', v)
  BY <1>1, <1>4, <1>5
<1> QED
  BY <1>1, <1>2, <1>3, <1>5, <1>6, <1>7 DEF BufferInv

\* A message is shown from its slot.
LEMMA DumpMessageKeeps == BufferInv /\ DumpMessage => BufferInv'
<1> SUFFICES ASSUME BufferInv, DumpMessage PROVE BufferInv'
  OBVIOUS
<1> DEFINE p == [queue EXCEPT !.head = Around(@)]
           rest == Tail(kept)
<1>1. /\ queue.head # queue.tail /\ queue' = p /\ kept' = rest
      /\ world' = world /\ twin' = twin /\ twinKept' = twinKept /\ taken' = taken
  BY DEF DumpMessage
<1>2. /\ Ring(p, rest) /\ p.v = queue.v
      /\ \A i \in 1 .. Len(rest) :
            /\ Slot(p, i) = Slot(queue, i + 1) /\ rest[i] = kept[i + 1] /\ i + 1 \in 2 .. Len(kept)
  <2>1. Ring(queue, kept)
    BY DEF BufferInv
  <2>2. /\ Ring(p, rest) /\ p.v = queue.v
        /\ Len(kept) >= 1 /\ Slot(queue, 1) = <<queue.v, queue.head>> /\ Head(kept) = kept[1]
        /\ \A i \in 1 .. Len(rest) :
              /\ Slot(p, i) = Slot(queue, i + 1) /\ rest[i] = kept[i + 1]
              /\ i + 1 \in 2 .. Len(kept) /\ Slot(p, i) # <<queue.v, queue.head>>
    BY <1>1, <2>1, RingPopped
  <2> HIDE DEF p, rest
  <2> QED
    BY <2>2
<1> HIDE DEF p, rest
<1>3. Holds(world, p, rest)
  <2> SUFFICES ASSUME NEW i \in 1 .. Len(rest)
               PROVE  Carries(world, Slot(p, i), NameOf(rest[i]), PayloadOf(rest[i]))
    BY DEF Holds
  <2>1. Slot(p, i) = Slot(queue, i + 1) /\ rest[i] = kept[i + 1] /\ i + 1 \in 1 .. Len(kept)
    BY <1>2
  <2>2. Holds(world, queue, kept)
    BY DEF BufferInv
  <2> QED
    BY <2>1, <2>2 DEF Holds
<1>4. TwinHolds(world, twin, twinKept, p)
  BY <1>2 DEF BufferInv, TwinHolds
<1> QED
  BY <1>1, <1>2, <1>3, <1>4 DEF BufferInv

\* Another queue takes the place of the old one.
LEMMA EnableTraceKeeps == BufferInv /\ EnableTrace => BufferInv'
<1> SUFFICES ASSUME BufferInv, EnableTrace PROVE BufferInv'
  OBVIOUS
<1> DEFINE v == queue.v
           some == {v} \X Slots
           a == DeleteVector(world, v)
           b == NewVector(a, v)
           q == [queue EXCEPT !.head = 0, !.tail = 0]
<1>1. /\ world' = b /\ queue' = q /\ kept' = <<>>
      /\ twin' = twin /\ twinKept' = twinKept /\ taken' = taken
  BY DEF EnableTrace
<1>2. /\ world \in Worlds /\ Owned(world) /\ Ring(queue, kept) /\ v \in Vectors
      /\ world.obj[Item] = Dead
  BY SlotLemma DEF BufferInv
<1>3. Frame(world, a, some) /\ \A i \in Slots : a.obj[<<v, i>>] = Dead
  <2> HIDE DEF v
  <2> QED
    BY <1>2, DeleteLemma
<1> HIDE DEF a
<1>4. a \in Worlds /\ Owned(a)
  BY <1>3 DEF Frame
<1>5. Frame(a, b, some) /\ \A i \in Slots : b.obj[<<v, i>>] \in Buffers
  <2> HIDE DEF v
  <2> QED
    BY <1>2, <1>3, <1>4, NewLemma
<1> HIDE DEF b
<1>6. Frame(world, b, some)
  <2> HIDE DEF some
  <2> QED
    BY <1>3, <1>5, FrameThen
<1>7. /\ TwinHolds(b, twin, twinKept, queue)
      /\ \A u \in Vectors \ {v} : IF u \in {v, twin.v} THEN Alive(b, u) ELSE Gone(b, u)
  <2>1. Frame(world, b, ({v} \X Slots) \cup {Item, Popped})
    BY <1>6, FrameMore
  <2> QED
    BY <2>1, RestStays
<1>13. q.head = 0 /\ q.tail = 0 /\ q.v = v /\ q = [head |-> q.head, tail |-> q.tail, v |-> q.v]
  <2>1. q = [queue EXCEPT !.head = 0, !.tail = 0] /\ queue \in [head : Slots, tail : Slots, v : Vectors]
    BY <1>2 DEF Ring
  <2> HIDE DEF q
  <2> QED
    BY <2>1
<1> HIDE DEF q
<1>8. Ring(q, <<>>) /\ Holds(b, q, <<>>) /\ q.v = v
  BY <1>2, <1>13, RingEmpty
<1>9. b \in Worlds /\ Owned(b) /\ b.obj[Item] = Dead
  BY <1>2, <1>6, ObjectsLemma DEF Frame, Untouched
<1>10. IF taken = Junk0 THEN b.obj[Popped] = Dead
       ELSE taken \in LogTexts /\ Carries(b, Popped, NameOf(taken), PayloadOf(taken))
  <2>1. Untouched(world, b, Popped)
    BY <1>2, <1>6, ObjectsLemma DEF Frame
  <2> QED
    BY <2>1, TakenStays
<1>11. TwinHolds(b, twin, twinKept, q)
  BY <1>7, <1>8 DEF TwinHolds
<1>12. \A u \in Vectors : IF u \in {q.v, twin.v} THEN Alive(b, u) ELSE Gone(b, u)
  BY <1>5, <1>7, <1>8 DEF Alive
<1> QED
  BY <1>1, <1>8, <1>9, <1>10, <1>11, <1>12 DEF BufferInv

\* A queue in another vector has the same slots there.
LEMMA RingThere ==
    ASSUME NEW q, NEW messages, Ring(q, messages), NEW u \in Vectors
    PROVE  LET t == [q EXCEPT !.v = u]
           IN  /\ Ring(t, messages) /\ t.v = u /\ t # NoQueue
               /\ \A i \in 1 .. Len(messages) : \E k \in Slots :
                     Slot(q, i) = <<q.v, k>> /\ Slot(t, i) = <<u, k>>
<1> DEFINE t == [q EXCEPT !.v = u]
<1>1. q \in [head : Slots, tail : Slots, v : Vectors]
  BY DEF Ring
<1>2. t = [q EXCEPT !.v = u]
  OBVIOUS
<1> HIDE DEF t
<1>3. t.head = q.head /\ t.tail = q.tail /\ t.v = u /\ t = [head |-> t.head, tail |-> t.tail, v |-> t.v]
  BY <1>1, <1>2
<1>4. t \in [head : Slots, tail : Slots, v : Vectors] /\ t # NoQueue
  <2>1. t \in [head : Slots, tail : Slots, v : Vectors]
    BY <1>1, <1>3
  <2> QED
    BY <1>3, <2>1, ObjectsLemma
<1>5. Ring(t, messages)
  BY <1>3, <1>4 DEF Ring
<1>6. ASSUME NEW i \in 1 .. Len(messages)
      PROVE  \E k \in Slots : Slot(q, i) = <<q.v, k>> /\ Slot(t, i) = <<u, k>>
  <2>1. i \in 1 .. QueueSize + 1
    BY SlotLemma, AtSlots
  <2>2. Slot(q, i) \in {q.v} \X Slots /\ Slot(q, i) = <<q.v, At(q.head, i - 1)>>
    BY <2>1, SlotLemma
  <2>3. Slot(t, i) = <<t.v, At(t.head, i - 1)>>
    BY <1>5, <2>1, SlotLemma
  <2> QED
    BY <1>3, <2>2, <2>3
<1> QED
  BY <1>3, <1>4, <1>5, <1>6 DEF t

\* The logger is cloned with its backtracer.
LEMMA CloneLoggerKeeps == BufferInv /\ CloneLogger => BufferInv'
<1> SUFFICES ASSUME BufferInv, CloneLogger PROVE BufferInv'
  OBVIOUS
<1>1. PICK v \in Vectors \ {queue.v} :
         world' = CopyVector(world, v, queue.v) /\ twin' = [queue EXCEPT !.v = v]
  BY DEF CloneLogger
<1> DEFINE x == CopyVector(world, v, queue.v)
           t == [queue EXCEPT !.v = v]
           some == {v} \X Slots
<1>2. /\ world' = x /\ twin' = t /\ twin = NoQueue
      /\ twinKept' = kept /\ queue' = queue /\ kept' = kept /\ taken' = taken
  BY <1>1 DEF CloneLogger
<1>3. /\ world \in Worlds /\ Owned(world) /\ Ring(queue, kept) /\ queue.v \in Vectors
      /\ Holds(world, queue, kept) /\ world.obj[Item] = Dead
      /\ v \in Vectors /\ v # queue.v
  BY SlotLemma DEF BufferInv
<1>4. Alive(world, queue.v) /\ \A u \in Vectors : u # queue.v => Gone(world, u)
  BY <1>2, <1>3, ObjectsLemma DEF BufferInv
<1>5. Frame(world, x, some) /\ \A i \in Slots : Copied(world, x, <<v, i>>, <<queue.v, i>>)
  <2>1. \A i \in Slots : world.obj[<<v, i>>] = Dead /\ world.obj[<<queue.v, i>>] \in Buffers
    BY <1>3, <1>4 DEF Alive, Gone
  <2> QED
    BY <1>3, <2>1, CopyLemma
<1> HIDE DEF x
<1>6. /\ Ring(t, kept) /\ t.v = v /\ t # NoQueue
      /\ \A i \in 1 .. Len(kept) : \E k \in Slots :
            Slot(queue, i) = <<queue.v, k>> /\ Slot(t, i) = <<v, k>>
  BY <1>3, RingThere
<1> HIDE DEF t
<1>7. Holds(x, t, kept)
  <2> SUFFICES ASSUME NEW i \in 1 .. Len(kept)
               PROVE  Carries(x, Slot(t, i), NameOf(kept[i]), PayloadOf(kept[i]))
    BY DEF Holds
  <2>1. PICK k \in Slots : Slot(queue, i) = <<queue.v, k>> /\ Slot(t, i) = <<v, k>>
    BY <1>6
  <2>2. Carries(world, <<queue.v, k>>, NameOf(kept[i]), PayloadOf(kept[i]))
    BY <1>3, <2>1 DEF Holds
  <2>3. kept[i] \in LogTexts
    BY <1>3, ElementOfSeq DEF Ring
  <2>4. NameOf(kept[i]) \in Seq(Chars) /\ PayloadOf(kept[i]) \in Seq(Chars)
    BY <2>3, TextsLemma
  <2> QED
    BY <1>5, <2>1, <2>2, <2>4 DEF Copied
<1>8. Holds(x, queue, kept) /\ Alive(x, queue.v)
  <2>1. \A i \in Slots : <<queue.v, i>> \notin some
    BY <1>3
  <2> QED
    BY <1>5, <2>1, QueueStays
<1>9. \A u \in Vectors : IF u \in {queue.v, v} THEN Alive(x, u) ELSE Gone(x, u)
  <2> TAKE u \in Vectors
  <2>1. Alive(x, v)
    BY <1>5 DEF Copied, Alive
  <2>2. CASE u \notin {queue.v, v}
    <3>1. \A i \in Slots : <<u, i>> \notin some
      BY <2>2
    <3> QED
      BY <1>4, <1>5, <2>2, <3>1, AliveOn
  <2> QED
    BY <1>8, <2>1, <2>2
<1>10. x \in Worlds /\ Owned(x) /\ x.obj[Item] = Dead /\ Untouched(world, x, Popped) /\ Popped \in Objects
  BY <1>3, <1>5, ObjectsLemma DEF Frame, Untouched
<1>11. IF taken = Junk0 THEN x.obj[Popped] = Dead
       ELSE taken \in LogTexts /\ Carries(x, Popped, NameOf(taken), PayloadOf(taken))
  BY <1>10, TakenStays
<1>12. TwinHolds(x, t, kept, queue)
  BY <1>3, <1>6, <1>7 DEF TwinHolds
<1> QED
  BY <1>2, <1>3, <1>6, <1>8, <1>9, <1>10, <1>11, <1>12 DEF BufferInv

\* The queues of the two loggers change hands.
LEMMA SwapLoggersKeeps == BufferInv /\ SwapLoggers => BufferInv'
<1> SUFFICES ASSUME BufferInv, SwapLoggers PROVE BufferInv'
  OBVIOUS
<1>1. /\ twin # NoQueue /\ queue' = twin /\ twin' = queue /\ kept' = twinKept /\ twinKept' = kept
      /\ world' = world /\ taken' = taken
  BY DEF SwapLoggers
<1>2. /\ Ring(queue, kept) /\ Holds(world, queue, kept)
      /\ Ring(twin, twinKept) /\ Holds(world, twin, twinKept) /\ twin.v # queue.v
  BY <1>1 DEF BufferInv, TwinHolds
<1>3. queue # NoQueue
  BY <1>2, SlotLemma, ObjectsLemma
<1>4. TwinHolds(world, queue, kept, twin)
  BY <1>2, <1>3 DEF TwinHolds
<1> QED
  BY <1>1, <1>2, <1>4 DEF BufferInv

\* The clone goes.
LEMMA DropCloneKeeps == BufferInv /\ DropClone => BufferInv'
<1> SUFFICES ASSUME BufferInv, DropClone PROVE BufferInv'
  OBVIOUS
<1> DEFINE v == twin.v
           some == {v} \X Slots
           x == DeleteVector(world, v)
<1>1. /\ twin # NoQueue /\ world' = x /\ twin' = NoQueue /\ twinKept' = <<>>
      /\ queue' = queue /\ kept' = kept /\ taken' = taken
  BY DEF DropClone
<1>2. /\ world \in Worlds /\ Owned(world) /\ Ring(queue, kept) /\ queue.v \in Vectors
      /\ world.obj[Item] = Dead /\ Ring(twin, twinKept) /\ v # queue.v /\ v \in Vectors
  BY <1>1, SlotLemma DEF BufferInv, TwinHolds
<1>3. Frame(world, x, some) /\ \A i \in Slots : x.obj[<<v, i>>] = Dead
  <2> HIDE DEF v
  <2> QED
    BY <1>2, DeleteLemma
<1> HIDE DEF x
<1>4. Holds(x, queue, kept) /\ Alive(x, queue.v)
  <2>1. \A i \in Slots : <<queue.v, i>> \notin some
    BY <1>2
  <2> QED
    BY <1>3, <2>1, QueueStays
<1>5. \A u \in Vectors : IF u \in {queue.v, NoQueue.v} THEN Alive(x, u) ELSE Gone(x, u)
  <2> TAKE u \in Vectors
  <2>1. CASE u = queue.v
    BY <1>4, <2>1
  <2>2. CASE u = v
    BY <1>2, <1>3, <2>2, ObjectsLemma DEF Gone
  <2>3. CASE u # queue.v /\ u # v
    <3>1. \A i \in Slots : <<u, i>> \notin some
      BY <2>3
    <3>2. Gone(world, u)
      BY <2>3 DEF BufferInv
    <3> QED
      BY <1>3, <2>3, <3>1, <3>2, AliveOn, ObjectsLemma
  <2> QED
    BY <2>1, <2>2, <2>3
<1>6. x \in Worlds /\ Owned(x) /\ x.obj[Item] = Dead /\ Untouched(world, x, Popped) /\ Popped \in Objects
  BY <1>2, <1>3, ObjectsLemma DEF Frame, Untouched
<1>7. IF taken = Junk0 THEN x.obj[Popped] = Dead
      ELSE taken \in LogTexts /\ Carries(x, Popped, NameOf(taken), PayloadOf(taken))
  BY <1>6, TakenStays
<1>8. TwinHolds(x, NoQueue, <<>>, queue)
  BY DEF TwinHolds
<1> QED
  BY <1>1, <1>2, <1>4, <1>5, <1>6, <1>7, <1>8 DEF BufferInv

\* Nothing lives at first but the elements of the first vector.
LEMMA InitHolds == BufferInit => BufferInv
<1> SUFFICES ASSUME BufferInit PROVE BufferInv
  OBVIOUS
<1> DEFINE w == [obj |-> [o \in Objects |-> Dead], store |-> [o \in Objects |-> <<>>],
                 heap |-> [b \in Blocks |-> <<>>]]
           x == NewVector(w, "first")
           some == {"first"} \X Slots
<1>1. /\ world = x /\ queue = [head |-> 0, tail |-> 0, v |-> "first"]
      /\ twin = NoQueue /\ kept = <<>> /\ twinKept = <<>> /\ taken = Junk0
  BY DEF BufferInit
<1>2. /\ w.obj = [o \in Objects |-> Dead] /\ w.store = [o \in Objects |-> <<>>]
      /\ w.heap = [b \in Blocks |-> <<>>]
  OBVIOUS
<1>3. <<>> \in Seq(Chars)
  BY EmptySeq
<1>4. w \in Worlds
  BY <1>3 DEF Worlds
<1> HIDE DEF w
<1>5. Owned(w)
  BY <1>2, PlaceLemma DEF Owned
<1>6. "first" \in Vectors /\ "second" \in Vectors /\ Vectors = {"first", "second"}
  BY DEF Vectors
<1>7. Frame(w, x, some) /\ \A i \in Slots : x.obj[<<"first", i>>] \in Buffers
  <2>1. \A i \in Slots : w.obj[<<"first", i>>] = Dead
    <3>1. \A i \in Slots : <<"first", i>> \in Objects
      BY <1>6 DEF Objects
    <3> QED
      BY <1>2, <3>1
  <2> QED
    BY <1>4, <1>5, <1>6, <2>1, NewLemma
<1> HIDE DEF x
<1>8. Ring(queue, kept) /\ Holds(x, queue, kept) /\ queue.v = "first"
  <2>1. /\ queue = [head |-> queue.head, tail |-> queue.tail, v |-> queue.v]
        /\ queue.head = 0 /\ queue.tail = 0 /\ queue.v = "first"
    BY <1>1
  <2> QED
    BY <1>1, <1>6, <2>1, RingEmpty
<1>9. TwinHolds(x, twin, twinKept, queue)
  BY <1>1 DEF TwinHolds
<1>10. x \in Worlds /\ Owned(x) /\ x.obj[Item] = Dead /\ x.obj[Popped] = Dead
  BY <1>2, <1>6, <1>7, ObjectsLemma DEF Frame, Untouched
<1>11. ASSUME NEW u \in Vectors PROVE IF u \in {queue.v, twin.v} THEN Alive(x, u) ELSE Gone(x, u)
  <2>1. CASE u = "first"
    BY <1>7, <1>8, <2>1 DEF Alive
  <2>2. CASE u # "first"
    <3>1. Gone(w, u)
      BY <1>2, ObjectsLemma DEF Gone
    <3>2. \A i \in Slots : <<u, i>> \notin some
      BY <2>2
    <3>3. Gone(x, u)
      BY <1>7, <3>1, <3>2, AliveOn
    <3> QED
      BY <1>1, <1>8, <2>2, <3>3, ObjectsLemma
  <2> QED
    BY <2>1, <2>2
<1> QED
  BY <1>1, <1>8, <1>9, <1>10, <1>11 DEF BufferInv

\* A message that is carried is readable.
LEMMA CarriedReadable ==
    ASSUME world \in Worlds, Owned(world), NEW o \in Objects, NEW m \in LogTexts,
           Carries(world, o, NameOf(m), PayloadOf(m))
    PROVE  Readable(o, m)
<1>1. NameOf(m) \in Seq(Chars) /\ PayloadOf(m) \in Seq(Chars)
  BY TextsLemma
<1>2. /\ ReadView(world, world.obj[o].logger_name) = NameOf(m)
      /\ ReadView(world, world.obj[o].payload) = PayloadOf(m)
  BY <1>1, CarriesReads
<1>3. world.obj[o].logger_name.at = world.obj[o].data /\ world.obj[o].payload.at = world.obj[o].data
  BY DEF Carries, StringView
<1> QED
  BY <1>2, <1>3 DEF Readable

LEMMA HeldReadable ==
    ASSUME world \in Worlds, Owned(world), NEW q, NEW messages, Ring(q, messages), Holds(world, q, messages)
    PROVE  AllReadable(q, messages)
<1> SUFFICES ASSUME NEW i \in DOMAIN messages PROVE Readable(Slot(q, i), messages[i])
  BY DEF AllReadable, Slot
<1>1. i \in 1 .. Len(messages) /\ messages[i] \in LogTexts
  BY LenProperties, ElementOfSeq DEF Ring
<1>2. i \in 1 .. QueueSize + 1
  BY <1>1, SlotLemma, AtSlots
<1>3. Slot(q, i) \in Objects
  BY <1>2, SlotLemma, ObjectsLemma
<1>4. Carries(world, Slot(q, i), NameOf(messages[i]), PayloadOf(messages[i]))
  BY <1>1 DEF Holds
<1> QED
  BY <1>1, <1>3, <1>4, CarriedReadable

LEMMA InvReadable == BufferInv => MessagesReadable
<1> SUFFICES ASSUME BufferInv PROVE MessagesReadable
  OBVIOUS
<1>1. world \in Worlds /\ Owned(world)
  BY DEF BufferInv
<1>2. AllReadable(queue, kept)
  BY HeldReadable DEF BufferInv
<1>3. AllReadable(twin, twinKept)
  <2>1. CASE twin = NoQueue
    <3>1. twinKept = <<>> /\ DOMAIN twinKept = {}
      BY <2>1 DEF BufferInv, TwinHolds
    <3> QED
      BY <3>1 DEF AllReadable
  <2>2. CASE twin # NoQueue
    BY <1>1, <2>2, HeldReadable DEF BufferInv, TwinHolds
  <2> QED
    BY <2>1, <2>2
<1>4. taken # Junk0 => Readable(Popped, taken)
  BY <1>1, CarriedReadable, ObjectsLemma DEF BufferInv
<1>5. ASSUME NEW b \in Blocks
      PROVE  LET owners == {o \in Objects : world.obj[o].data = Block(b)}
             IN IF world.heap[b] = <<>> THEN owners = {}
                ELSE \E o \in Objects : owners = {o}
  BY <1>1 DEF Owned
<1> QED
  BY <1>2, <1>3, <1>4, <1>5 DEF MessagesReadable

\* MessagesReadable: a message that waits in a queue or in its copy, or that the
\* worker has, reads what was logged, from memory that is its own, and every
\* block of the heap has one owner: log_msg_buffer.h and basic_memory_buffer, for
\* messages, queues and inline stores of every size.
THEOREM MessagesStayReadable == BufferSpec => []MessagesReadable
<1>1. BufferInit => BufferInv
  BY InitHolds
<1>2. BufferInv /\ [BufferNext]_bufferVars => BufferInv'
  <2> SUFFICES ASSUME BufferInv, [BufferNext]_bufferVars PROVE BufferInv'
    OBVIOUS
  <2>1. CASE PushMessage
    BY <2>1, PushMessageKeeps
  <2>2. CASE PopMessage
    BY <2>2, PopMessageKeeps
  <2>3. CASE DonePopped
    BY <2>3, DonePoppedKeeps
  <2>4. CASE DumpMessage
    BY <2>4, DumpMessageKeeps
  <2>5. CASE EnableTrace
    BY <2>5, EnableTraceKeeps
  <2>6. CASE CloneLogger
    BY <2>6, CloneLoggerKeeps
  <2>7. CASE SwapLoggers
    BY <2>7, SwapLoggersKeeps
  <2>8. CASE DropClone
    BY <2>8, DropCloneKeeps
  <2>9. CASE UNCHANGED bufferVars
    BY <2>9 DEF bufferVars, BufferInv
  <2> QED
    BY <2>1, <2>2, <2>3, <2>4, <2>5, <2>6, <2>7, <2>8, <2>9 DEF BufferNext
<1>3. BufferInv => MessagesReadable
  BY InvReadable
<1> QED
  BY <1>1, <1>2, <1>3, PTL DEF BufferSpec

-----------------------------------------------------------------------------
(* Digits: what format_uint writes, and the value that is read from it.    *)

Bases == {2, 8, 10, 16}
NumeralsOf(base) == {Numerals[case][k] : case \in {"lower", "upper"}, k \in 1 .. base}

\* The prover of arithmetic cannot read a blank, so it has a name.
LEMMA BlankLemma ==
    Blank \notin {"0", "1", "2", "3", "4", "5", "6", "7", "8", "9", "a", "b", "c", "d", "e", "f",
                  "A", "B", "C", "D", "E", "F", "-", "+"}
  BY Zenon DEF Blank

LEMMA NumeralLemma ==
    ASSUME NEW base \in Bases
    PROVE  /\ \A k \in 0 .. base - 1, case \in {"lower", "upper"} :
                 Numerals[case][k + 1] \in NumeralsOf(base) /\ NumeralValue(Numerals[case][k + 1]) = k
           /\ \A c \in NumeralsOf(base) :
                 /\ NumeralValue(c) \in 0 .. base - 1 /\ c \notin {Blank, "-", "+"}
                 /\ base <= 10 => c \notin {"x", "X", "b", "B"}
                 /\ \E k \in 1 .. base : c \in {Numerals.lower[k], Numerals.upper[k]}
           /\ "0" \in NumeralsOf(base) /\ NumeralValue("0") = 0
<1>1. ASSUME NEW k \in 0 .. base - 1, NEW case \in {"lower", "upper"}
      PROVE  /\ Numerals[case][k + 1] \in NumeralsOf(base) /\ NumeralValue(Numerals[case][k + 1]) = k
             /\ Numerals[case][k + 1] \notin {Blank, "-", "+"}
             /\ base <= 10 => Numerals[case][k + 1] \notin {"x", "X", "b", "B"}
  <2> DEFINE c == Numerals[case][k + 1]
  <2>0. k \in 0 .. 15 /\ k + 1 \in 1 .. base
    BY DEF Bases
  <2>1. \A i \in 1 .. 16 : Numerals.lower[i] = c \/ Numerals.upper[i] = c <=> i = k + 1
    BY <2>0 DEF Numerals
  <2>2. NumeralValue(c) = k
    BY <2>0, <2>1 DEF NumeralValue
  <2>3. c \in NumeralsOf(base)
    BY <2>0 DEF NumeralsOf
  <2>4. c \notin {Blank, "-", "+"}
    <3>1. k + 1 \in 1 .. 16
      BY <2>0
    <3>2. \A i \in 1 .. 16 : Numerals.lower[i] # Blank /\ Numerals.upper[i] # Blank
      BY BlankLemma DEF Numerals
    <3>3. \A i \in 1 .. 16 : Numerals.lower[i] \notin {"-", "+"} /\ Numerals.upper[i] \notin {"-", "+"}
      BY DEF Numerals
    <3> QED
      BY <3>1, <3>2, <3>3
  <2>5. base <= 10 => k \in 0 .. 9
    BY DEF Bases
  <2>6. k \in 0 .. 9 => c \notin {"x", "X", "b", "B"}
    BY DEF Numerals
  <2> QED
    BY <2>2, <2>3, <2>4, <2>5, <2>6
<1>2. ASSUME NEW c \in NumeralsOf(base)
      PROVE  /\ NumeralValue(c) \in 0 .. base - 1 /\ c \notin {Blank, "-", "+"}
             /\ base <= 10 => c \notin {"x", "X", "b", "B"}
             /\ \E k \in 1 .. base : c \in {Numerals.lower[k], Numerals.upper[k]}
  <2>1. PICK case \in {"lower", "upper"}, k \in 1 .. base : c = Numerals[case][k]
    BY DEF NumeralsOf
  <2>2. k - 1 \in 0 .. base - 1 /\ (k - 1) + 1 = k
    BY DEF Bases
  <2>3. NumeralValue(c) = k - 1 /\ c \notin {Blank, "-", "+"} /\ (base <= 10 => c \notin {"x", "X", "b", "B"})
    BY <1>1, <2>1, <2>2
  <2>4. c \in {Numerals.lower[k], Numerals.upper[k]}
    BY <2>1
  <2> QED
    BY <2>2, <2>3, <2>4
<1>3. "0" = Numerals["lower"][0 + 1] /\ 0 \in 0 .. base - 1
  BY DEF Numerals, Bases
<1> QED
  BY <1>1, <1>2, <1>3

LEMMA Division ==
    ASSUME NEW base \in Bases, NEW k \in Nat
    PROVE  /\ k \div base \in Nat /\ k % base \in 0 .. base - 1 /\ k = base * (k \div base) + (k % base)
           /\ k >= base => k \div base < k
           /\ k < base => k % base = k
<1>1. CASE base = 2
  BY <1>1
<1>2. CASE base = 8
  BY <1>2
<1>3. CASE base = 10
  BY <1>3
<1>4. CASE base = 16
  BY <1>4
<1> QED
  BY <1>1, <1>2, <1>3, <1>4 DEF Bases

\* The last digit, and the function of format_uint.
LastDigit(k, base, case) == <<Numerals[case][(k % base) + 1]>>
DigitsUpTo(f, T, base, case) ==
    f = [k \in T |-> IF k < base THEN LastDigit(k, base, case)
                     ELSE f[k \div base] \o LastDigit(k, base, case)]

LEMMA DigitsAlike ==
    ASSUME NEW base \in Bases, NEW case, NEW m \in Nat, NEW n \in Nat, NEW f, NEW g,
           DigitsUpTo(f, 0 .. m, base, case), DigitsUpTo(g, 0 .. n, base, case),
           NEW k \in Nat, k <= m, k <= n
    PROVE  f[k] = g[k]
<1> DEFINE T == {j \in Nat : j <= m /\ j <= n /\ f[j] # g[j]}
<1> SUFFICES ASSUME T # {} PROVE FALSE
  OBVIOUS
<1>1. T \in SUBSET Nat
  OBVIOUS
<1>2. PICK j \in T : \A i \in T : j <= i
  BY <1>1, LeastNumber
<1>3. j \in 0 .. m /\ j \in 0 .. n /\ j \in Nat
  OBVIOUS
<1>4. f[j] = (IF j < base THEN LastDigit(j, base, case) ELSE f[j \div base] \o LastDigit(j, base, case))
  BY <1>3 DEF DigitsUpTo
<1>5. g[j] = (IF j < base THEN LastDigit(j, base, case) ELSE g[j \div base] \o LastDigit(j, base, case))
  BY <1>3 DEF DigitsUpTo
<1>6. ASSUME ~(j < base) PROVE f[j \div base] = g[j \div base]
  <2>1. j \div base \in Nat /\ j \div base < j
    BY <1>3, <1>6, Division DEF Bases
  <2>2. j \div base \notin T
    BY <1>2, <1>3, <2>1
  <2> QED
    BY <1>3, <2>1, <2>2
<1> QED
  BY <1>4, <1>5, <1>6

LEMMA DigitsExist ==
    ASSUME NEW base \in Bases, NEW case
    PROVE  \E f : DigitsUpTo(f, Nat, base, case)
<1> DEFINE T == {m \in Nat : \E f : DigitsUpTo(f, 0 .. m, base, case)}
           L(k) == LastDigit(k, base, case)
<1>1. 0 \in T
  <2> DEFINE g == [k \in 0 .. 0 |-> L(k)]
  <2>1. DigitsUpTo(g, 0 .. 0, base, case)
    BY DEF DigitsUpTo, Bases
  <2> QED
    BY <2>1
<1>2. ASSUME NEW n \in T PROVE n + 1 \in T
  <2>1. PICK f : DigitsUpTo(f, 0 .. n, base, case)
    OBVIOUS
  <2> DEFINE g == [k \in 0 .. n + 1 |-> IF k \in 0 .. n THEN f[k]
                                        ELSE IF k < base THEN L(k) ELSE f[k \div base] \o L(k)]
  <2>2. ASSUME NEW k \in 0 .. n + 1
        PROVE  g[k] = IF k < base THEN L(k) ELSE g[k \div base] \o L(k)
    <3>1. k >= base => k \div base \in 0 .. n
      BY Division DEF Bases
    <3>2. CASE k \in 0 .. n
      <4>1. f[k] = IF k < base THEN L(k) ELSE f[k \div base] \o L(k)
        BY <2>1, <3>2 DEF DigitsUpTo
      <4>2. g[k] = f[k] /\ (k >= base => g[k \div base] = f[k \div base])
        BY <3>1, <3>2
      <4> QED
        BY <4>1, <4>2 DEF Bases
    <3>3. CASE k \notin 0 .. n
      <4>1. k >= base => g[k \div base] = f[k \div base]
        BY <3>1
      <4> QED
        BY <3>3, <4>1 DEF Bases
    <3> QED
      BY <3>2, <3>3
  <2>3. DigitsUpTo(g, 0 .. n + 1, base, case)
    BY <2>2 DEF DigitsUpTo
  <2> QED
    BY <2>3
<1>3. ASSUME NEW m \in Nat PROVE \E f : DigitsUpTo(f, 0 .. m, base, case)
  <2>1. 0 .. m \subseteq T
    BY <1>1, <1>2, Induction
  <2> QED
    BY <2>1
<1> DEFINE F(k) == CHOOSE f : DigitsUpTo(f, 0 .. k, base, case)
           d == [k \in Nat |-> F(k)[k]]
<1>4. \A k \in Nat : DigitsUpTo(F(k), 0 .. k, base, case)
  BY <1>3
<1> HIDE DEF F
<1>5. ASSUME NEW k \in Nat
      PROVE  d[k] = IF k < base THEN L(k) ELSE d[k \div base] \o L(k)
  <2>1. F(k)[k] = IF k < base THEN L(k) ELSE F(k)[k \div base] \o L(k)
    <3>1. k \in 0 .. k
      OBVIOUS
    <3> QED
      BY <1>4, <3>1 DEF DigitsUpTo
  <2>2. ASSUME ~(k < base) PROVE F(k)[k \div base] = d[k \div base]
    <3> DEFINE j == k \div base
    <3>1. j \in Nat /\ j <= k
      BY <2>2, Division DEF Bases
    <3> HIDE DEF j
    <3>2. F(k)[j] = F(j)[j]
      BY <1>4, <3>1, DigitsAlike
    <3> QED
      BY <3>1, <3>2 DEF j
  <2> QED
    BY <2>1, <2>2
<1>6. DigitsUpTo(d, Nat, base, case)
  BY <1>5 DEF DigitsUpTo
<1> QED
  BY <1>6

\* What ValueOf computes on its way.
Reads(v, s, base) ==
    /\ v \in [0 .. Len(s) -> Nat] /\ v[0] = 0
    /\ \A i \in 1 .. Len(s) : v[i] = base * v[i - 1] + NumeralValue(s[i])

LEMMA ValueLemma ==
    ASSUME NEW base \in Bases, NEW s \in Seq(NumeralsOf(base))
    PROVE  \E v : Reads(v, s, base) /\ ValueOf(s, base) = v[Len(s)]
<1> DEFINE m == Len(s)
           round == [x \in (1 .. m) \X Nat |-> base * x[2] + NumeralValue(s[x[1]])]
           v == Loop(0, m, round)
<1>1. m \in Nat /\ base \in Nat
  BY LenProperties DEF Bases
<1>2. \A i \in 1 .. m : NumeralValue(s[i]) \in Nat
  <2> SUFFICES ASSUME NEW i \in 1 .. m PROVE NumeralValue(s[i]) \in Nat
    OBVIOUS
  <2>1. s[i] \in NumeralsOf(base)
    BY ElementOfSeq
  <2>2. 0 .. base - 1 \subseteq Nat
    BY <1>1
  <2> QED
    BY <2>1, <2>2, NumeralLemma
<1>3. round \in [(1 .. m) \X Nat -> Nat]
  <2>1. ASSUME NEW x \in (1 .. m) \X Nat PROVE base * x[2] + NumeralValue(s[x[1]]) \in Nat
    <3>1. x[1] \in 1 .. m /\ x[2] \in Nat
      OBVIOUS
    <3>2. NumeralValue(s[x[1]]) \in Nat /\ base * x[2] \in Nat
      BY <1>1, <1>2, <3>1
    <3> HIDE DEF m
    <3> QED
      BY <3>2
  <2> QED
    BY <2>1
<1> HIDE DEF round
<1>4. v = [n \in 0 .. m |-> IF n = 0 THEN 0 ELSE round[<<n, v[n - 1]>>]] /\ v \in [0 .. m -> Nat]
  <2>1. 0 \in Nat
    OBVIOUS
  <2> QED
    BY <1>1, <1>3, <2>1, LoopLemma
<1> HIDE DEF v
<1>5. ASSUME NEW i \in 1 .. m PROVE v[i] = base * v[i - 1] + NumeralValue(s[i])
  <2>1. i \in 0 .. m /\ i # 0 /\ i - 1 \in 0 .. m
    BY <1>1
  <2>2. v[i] = round[<<i, v[i - 1]>>] /\ v[i - 1] \in Nat
    BY <1>4, <2>1
  <2>3. <<i, v[i - 1]>> \in (1 .. m) \X Nat
    BY <2>2
  <2> QED
    BY <2>2, <2>3 DEF round
<1>6. v[0] = 0 /\ Reads(v, s, base)
  <2>1. 0 \in 0 .. m
    BY <1>1
  <2>2. v[0] = 0
    BY <1>4, <2>1
  <2> QED
    BY <1>4, <1>5, <2>2 DEF Reads
\* ValueOf chooses a function that solves the same equations; there is one.
<1> DEFINE F(f) == [i \in 0 .. m |-> IF i = 0 THEN 0 ELSE base * f[i - 1] + NumeralValue(s[i])]
           w == CHOOSE f : f = F(f)
<1>7. v = F(v)
  <2>1. ASSUME NEW i \in 0 .. m PROVE v[i] = F(v)[i]
    <3>1. CASE i = 0
      BY <1>6, <3>1
    <3>2. CASE i # 0
      <4>1. i \in 1 .. m
        BY <1>1, <3>2
      <4> QED
        BY <1>5, <3>2, <4>1
    <3> QED
      BY <3>1, <3>2
  <2> QED
    BY <1>4, <2>1
<1>8. w = F(w)
  BY <1>7
<1>9. ValueOf(s, base) = w[m]
  BY DEF ValueOf
<1> HIDE DEF w
<1>10. \A i \in 0 .. m : w[i] = v[i]
  <2> DEFINE T == {i \in 0 .. m : w[i] = v[i]}
  <2>1. 0 \in T
    BY <1>1, <1>6, <1>8
  <2>2. ASSUME NEW i \in T, i \in 0 .. m - 1 PROVE i + 1 \in T
    <3>1. i + 1 \in 0 .. m /\ i + 1 \in 1 .. m /\ (i + 1) - 1 = i /\ i + 1 # 0
      BY <1>1, <2>2
    <3>2. w[i + 1] = base * w[i] + NumeralValue(s[i + 1])
      BY <1>8, <3>1
    <3>3. v[i + 1] = base * v[i] + NumeralValue(s[i + 1])
      BY <1>5, <3>1
    <3> QED
      BY <3>1, <3>2, <3>3
  <2>3. 0 .. m \subseteq T
    BY <1>1, <2>1, <2>2, Induction
  <2> QED
    BY <2>3
<1> QED
  BY <1>1, <1>6, <1>9, <1>10

Alike(s, a, t, b, m) == \A i \in 1 .. m : s[a + i] = t[b + i]

\* Two readings that have the same numerals have the same values, from any
\* places with the same value on.
LEMMA ReadsAlike ==
    ASSUME NEW base \in Bases, NEW s, NEW t, Len(s) \in Nat, Len(t) \in Nat, NEW v, NEW w,
           Reads(v, s, base), Reads(w, t, base),
           NEW a \in Nat, NEW b \in Nat, NEW m \in Nat, a + m <= Len(s), b + m <= Len(t), v[a] = w[b],
           Alike(s, a, t, b, m)
    PROVE  v[a + m] = w[b + m]
<1> DEFINE T == {i \in 0 .. m : v[a + i] = w[b + i]}
<1>1. 0 \in T
  OBVIOUS
<1>2. ASSUME NEW i \in T, i \in 0 .. m - 1 PROVE i + 1 \in T
  <2>1. /\ a + (i + 1) \in 1 .. Len(s) /\ (a + (i + 1)) - 1 = a + i
        /\ b + (i + 1) \in 1 .. Len(t) /\ (b + (i + 1)) - 1 = b + i /\ i + 1 \in 1 .. m /\ i + 1 \in 0 .. m
    BY <1>2
  <2>2. v[a + (i + 1)] = base * v[a + i] + NumeralValue(s[a + (i + 1)])
    BY <2>1 DEF Reads
  <2>3. w[b + (i + 1)] = base * w[b + i] + NumeralValue(t[b + (i + 1)])
    BY <2>1 DEF Reads
  <2>4. s[a + (i + 1)] = t[b + (i + 1)]
    BY <2>1 DEF Alike
  <2> QED
    BY <1>2, <2>1, <2>2, <2>3, <2>4
<1>3. 0 .. m \subseteq T
  BY <1>1, <1>2, Induction
<1> QED
  BY <1>3

\* One more numeral.
LEMMA ValueAppended ==
    ASSUME NEW base \in Bases, NEW s \in Seq(NumeralsOf(base)), NEW c \in NumeralsOf(base)
    PROVE  /\ s \o <<c>> \in Seq(NumeralsOf(base)) /\ ValueOf(s, base) \in Nat
           /\ ValueOf(s \o <<c>>, base) = base * ValueOf(s, base) + NumeralValue(c)
<1> DEFINE t == s \o <<c>>
           n == Len(s)
<1>1. /\ t \in Seq(NumeralsOf(base)) /\ Len(t) = n + 1 /\ n \in Nat
      /\ \A i \in 1 .. n : t[i] = s[i] /\ t[n + 1] = c
  <2>1. <<c>> \in Seq(NumeralsOf(base)) /\ Len(<<c>>) = 1 /\ <<c>>[1] = c
    OBVIOUS
  <2> QED
    BY <2>1, ConcatProperties, LenProperties
<1>1a. t[n + 1] = c
  <2>1. <<c>> \in Seq(NumeralsOf(base)) /\ Len(<<c>>) = 1 /\ <<c>>[1] = c
    OBVIOUS
  <2>2. n + 1 \in 1 .. n + 1 /\ ~(n + 1 <= n) /\ (n + 1) - n = 1 /\ n \in Nat
    BY <1>1
  <2> QED
    BY <2>1, <2>2, ConcatProperties
<1>2. PICK v : Reads(v, s, base) /\ ValueOf(s, base) = v[n]
  BY ValueLemma
<1> HIDE DEF t, n
<1>3. PICK w : Reads(w, t, base) /\ ValueOf(t, base) = w[n + 1]
  BY <1>1, ValueLemma
<1>4. w[n] = v[n]
  <2>1. v[0] = w[0] /\ v[0] = 0
    BY <1>2, <1>3 DEF Reads
  <2>2. Alike(s, 0, t, 0, n)
    <3>1. \A i \in 1 .. n : 0 + i = i
      BY <1>1
    <3> QED
      BY <1>1, <3>1 DEF Alike
  <2>3. /\ Len(s) \in Nat /\ Len(t) \in Nat /\ n \in Nat /\ 0 \in Nat
        /\ 0 + n <= Len(s) /\ 0 + n <= Len(t) /\ n = 0 + n
    BY <1>1 DEF n
  <2>4. v[0 + n] = w[0 + n]
    <3>1. Reads(v, s, base) /\ Reads(w, t, base) /\ v[0] = w[0]
      BY <1>2, <1>3, <2>1
    <3> HIDE DEF Reads
    <3> QED
      BY <2>2, <2>3, <3>1, ReadsAlike
  <2> QED
    BY <2>3, <2>4
<1>5. w[n + 1] = base * w[n] + NumeralValue(c)
  <2>1. n + 1 \in 1 .. Len(t) /\ (n + 1) - 1 = n
    BY <1>1
  <2> QED
    BY <1>1a, <1>3, <2>1 DEF Reads
<1>6. v[n] \in Nat
  BY <1>1, <1>2 DEF Reads, n
<1> QED
  BY <1>1, <1>2, <1>3, <1>4, <1>5, <1>6 DEF t

\* Zeros in front count nothing.
LEMMA ZerosInFront ==
    ASSUME NEW base \in Bases, NEW s \in Seq(NumeralsOf(base)), NEW z \in Nat
    PROVE  /\ Copies("0", z) \o s \in Seq(NumeralsOf(base))
           /\ ValueOf(Copies("0", z) \o s, base) = ValueOf(s, base)
<1> DEFINE o == Copies("0", z)
           t == o \o s
           n == Len(s)
<1>1. o \in Seq(NumeralsOf(base)) /\ Len(o) = z /\ \A i \in 1 .. z : o[i] = "0"
  <2>1. "0" \in NumeralsOf(base)
    BY NumeralLemma
  <2>2. o = [i \in 1 .. z |-> "0"]
    BY DEF Copies
  <2> QED
    BY <2>1, <2>2, IsASeq
<1> HIDE DEF o
<1>2. /\ t \in Seq(NumeralsOf(base)) /\ Len(t) = z + n /\ n \in Nat
      /\ \A i \in 1 .. z : t[i] = "0"
      /\ \A i \in 1 .. n : t[z + i] = s[i]
  <2>1. n \in Nat /\ t \in Seq(NumeralsOf(base)) /\ Len(t) = z + n
    BY <1>1, ConcatProperties, LenProperties
  <2>2. \A i \in 1 .. z : i \in 1 .. z + n /\ i <= z
    BY <2>1
  <2>3. \A i \in 1 .. n : z + i \in 1 .. z + n /\ ~(z + i <= z) /\ (z + i) - z = i
    BY <2>1
  <2>4. \A i \in 1 .. z + n : t[i] = IF i <= z THEN o[i] ELSE s[i - z]
    BY <1>1, ConcatProperties
  <2> QED
    BY <1>1, <2>1, <2>2, <2>3, <2>4
<1>3. PICK v : Reads(v, s, base) /\ ValueOf(s, base) = v[n]
  BY ValueLemma
<1> HIDE DEF t
<1>4. PICK w : Reads(w, t, base) /\ ValueOf(t, base) = w[z + n]
  BY <1>2, ValueLemma
<1>5. w[z] = 0
  <2> DEFINE T == {i \in 0 .. z : w[i] = 0}
  <2>1. 0 \in T
    BY <1>4 DEF Reads
  <2>2. ASSUME NEW i \in T, i \in 0 .. z - 1 PROVE i + 1 \in T
    <3>1. i + 1 \in 1 .. Len(t) /\ i + 1 \in 1 .. z /\ (i + 1) - 1 = i /\ i + 1 \in 0 .. z
      BY <1>2, <2>2
    <3>2. w[i + 1] = base * w[i] + NumeralValue("0") /\ w[i] = 0
      BY <1>2, <1>4, <3>1 DEF Reads
    <3>3. NumeralValue("0") = 0 /\ base * 0 + 0 = 0
      BY NumeralLemma DEF Bases
    <3> QED
      BY <3>1, <3>2, <3>3
  <2>3. 0 .. z \subseteq T
    BY <2>1, <2>2, Induction
  <2> QED
    BY <2>3
<1>6. w[z + n] = v[n]
  <2>1. v[0] = w[z]
    BY <1>3, <1>5 DEF Reads
  <2>2. Alike(s, 0, t, z, n)
    <3>1. \A i \in 1 .. n : 0 + i = i
      BY <1>2
    <3> QED
      BY <1>2, <3>1 DEF Alike
  <2>3. /\ Len(s) \in Nat /\ Len(t) \in Nat /\ n \in Nat /\ 0 \in Nat
        /\ 0 + n <= Len(s) /\ z + n <= Len(t) /\ n = 0 + n
    BY <1>2
  <2> HIDE DEF n
  <2>4. v[0 + n] = w[z + n]
    BY <1>3, <1>4, <2>1, <2>2, <2>3, ReadsAlike
  <2> QED
    BY <2>3, <2>4
<1> QED
  BY <1>2, <1>3, <1>4, <1>6 DEF t, o

\* format_uint: the digits it writes are those of the base, and their value is
\* the number they were made of.
LEMMA DigitsRead ==
    ASSUME NEW base \in Bases, NEW case \in {"lower", "upper"}, NEW n \in Nat
    PROVE  /\ format_uint(n, base, case) \in Seq(NumeralsOf(base)) /\ format_uint(n, base, case) # <<>>
           /\ ValueOf(format_uint(n, base, case), base) = n
<1> DEFINE d == CHOOSE f : DigitsUpTo(f, Nat, base, case)
           Good(k) == d[k] \in Seq(NumeralsOf(base)) /\ d[k] # <<>> /\ ValueOf(d[k], base) = k
<1>1. format_uint(n, base, case) = d[n]
  BY DEF format_uint, DigitsUpTo, LastDigit
<1>2. DigitsUpTo(d, Nat, base, case)
  BY DigitsExist
<1> HIDE DEF d
<1>3. ASSUME NEW k \in Nat, k >= base => Good(k \div base) PROVE Good(k)
  <2> DEFINE c == Numerals[case][(k % base) + 1]
             j == k \div base
  <2>1. /\ c \in NumeralsOf(base) /\ NumeralValue(c) = k % base /\ LastDigit(k, base, case) = <<c>>
        /\ j \in Nat /\ k = base * j + (k % base) /\ (k < base => k % base = k)
    BY Division, NumeralLemma DEF LastDigit
  <2>2. d[k] = IF k < base THEN <<c>> ELSE d[j] \o <<c>>
    BY <1>2, <2>1 DEF DigitsUpTo
  <2> HIDE DEF c
  <2>3. CASE k < base
    <3>1. <<>> \in Seq(NumeralsOf(base)) /\ <<>> \o <<c>> = <<c>>
      OBVIOUS
    <3>2. ValueOf(<<>>, base) = 0
      <4>1. PICK v : Reads(v, <<>>, base) /\ ValueOf(<<>>, base) = v[Len(<<>>)]
        BY <3>1, ValueLemma
      <4> QED
        BY <4>1 DEF Reads
    <3>3. /\ <<>> \o <<c>> \in Seq(NumeralsOf(base))
          /\ ValueOf(<<>> \o <<c>>, base) = base * ValueOf(<<>>, base) + NumeralValue(c)
      BY <2>1, <3>1, ValueAppended
    <3>4. base * 0 + (k % base) = k
      BY <2>1, <2>3 DEF Bases
    <3>5. <<c>> \in Seq(NumeralsOf(base)) /\ ValueOf(<<c>>, base) = k /\ <<c>> # <<>>
      BY <2>1, <3>1, <3>2, <3>3, <3>4
    <3> QED
      BY <2>2, <2>3, <3>5
  <2>4. CASE ~(k < base)
    <3>1. Good(j)
      BY <1>3, <2>4 DEF Bases
    <3> HIDE DEF j
    <3>2. /\ d[j] \o <<c>> \in Seq(NumeralsOf(base))
          /\ ValueOf(d[j] \o <<c>>, base) = base * ValueOf(d[j], base) + NumeralValue(c)
      BY <2>1, <3>1, ValueAppended
    <3>3. d[j] \o <<c>> # <<>>
      BY <3>1
    <3> QED
      BY <2>1, <2>2, <2>4, <3>1, <3>2, <3>3
  <2> QED
    BY <2>3, <2>4
<1> HIDE DEF Good
<1> DEFINE T == {k \in Nat : ~Good(k)}
<1>4. T = {}
  <2> SUFFICES ASSUME T # {} PROVE FALSE
    OBVIOUS
  <2>1. PICK k \in T : \A i \in T : k <= i
    <3>1. T \in SUBSET Nat
      OBVIOUS
    <3> QED
      BY <3>1, LeastNumber
  <2>2. k >= base => Good(k \div base)
    <3> SUFFICES ASSUME k >= base PROVE Good(k \div base)
      OBVIOUS
    <3>1. k \in Nat /\ k \div base \in Nat /\ k \div base < k
      BY Division
    <3>2. k \div base \notin T
      BY <2>1, <3>1
    <3> QED
      BY <3>1, <3>2
  <2> QED
    BY <1>3, <2>1, <2>2
<1> QED
  BY <1>1, <1>4 DEF Good

\* Blanks on both sides of a text that neither begins nor ends with one.
LEMMA TrimmedLemma ==
    ASSUME NEW S, NEW a \in Seq(S), NEW b \in Seq(S), NEW c \in Seq(S),
           \A i \in 1 .. Len(a) : a[i] = Blank, \A i \in 1 .. Len(c) : c[i] = Blank,
           b # <<>>, b[1] # Blank, b[Len(b)] # Blank
    PROVE  Trimmed(a \o b \o c) = b
<1> DEFINE t == a \o b \o c
           la == Len(a)
           lb == Len(b)
           lc == Len(c)
           shown == {i \in DOMAIN t : t[i] # Blank}
           first == CHOOSE i \in shown : \A j \in shown : i <= j
           last == CHOOSE i \in shown : \A j \in shown : j <= i
<1>1. la \in Nat /\ lb \in Nat \ {0} /\ lc \in Nat
  BY LenProperties, EmptySeq
<1>2. /\ t \in Seq(S) /\ Len(t) = la + lb + lc /\ DOMAIN t = 1 .. la + lb + lc
      /\ \A i \in 1 .. la + lb + lc :
            t[i] = IF i <= la THEN a[i] ELSE IF i <= la + lb THEN b[i - la] ELSE c[i - (la + lb)]
  <2>1. /\ a \o b \in Seq(S) /\ Len(a \o b) = la + lb
        /\ \A i \in 1 .. la + lb : (a \o b)[i] = IF i <= la THEN a[i] ELSE b[i - la]
    BY ConcatProperties
  <2>2. /\ t \in Seq(S) /\ Len(t) = la + lb + lc
        /\ \A i \in 1 .. la + lb + lc : t[i] = IF i <= la + lb THEN (a \o b)[i] ELSE c[i - (la + lb)]
    BY <2>1, ConcatProperties
  <2>3. DOMAIN t = 1 .. la + lb + lc
    BY <2>2, LenProperties
  <2> HIDE DEF t, la, lb, lc
  <2>4. \A i \in 1 .. la + lb + lc : i <= la => i \in 1 .. la + lb /\ i <= la + lb
    BY <1>1
  <2>5. \A i \in 1 .. la + lb + lc : i <= la + lb => i \in 1 .. la + lb
    BY <1>1
  <2> QED
    BY <2>1, <2>2, <2>3, <2>4, <2>5
<1> HIDE DEF t, la, lb, lc
<1>3. /\ la + 1 \in shown /\ la + lb \in shown
      /\ \A i \in shown : la + 1 <= i /\ i <= la + lb
  <2>1. t[la + 1] = b[1] /\ la + 1 \in 1 .. la + lb + lc
    <3>1. la + 1 \in 1 .. la + lb + lc /\ ~(la + 1 <= la) /\ la + 1 <= la + lb /\ (la + 1) - la = 1
      BY <1>1
    <3> QED
      BY <1>2, <3>1
  <2>2. t[la + lb] = b[lb] /\ la + lb \in 1 .. la + lb + lc
    <3>1. la + lb \in 1 .. la + lb + lc /\ ~(la + lb <= la) /\ la + lb <= la + lb /\ (la + lb) - la = lb
      BY <1>1
    <3> QED
      BY <1>2, <3>1
  <2>3. ASSUME NEW i \in shown PROVE la + 1 <= i /\ i <= la + lb
    <3>1. i \in 1 .. la + lb + lc /\ t[i] # Blank
      BY <1>2
    <3>2. CASE i <= la
      <4>1. i \in 1 .. la
        BY <1>1, <3>1, <3>2
      <4> QED
        BY <1>2, <3>1, <3>2, <4>1 DEF la
    <3>3. CASE i > la + lb
      <4>1. i - (la + lb) \in 1 .. lc /\ ~(i <= la) /\ ~(i <= la + lb)
        BY <1>1, <3>1, <3>3
      <4> QED
        BY <1>2, <3>1, <4>1 DEF lc
    <3> QED
      BY <1>1, <3>1, <3>2, <3>3
  <2> QED
    BY <1>2, <2>1, <2>2, <2>3 DEF lb
<1>4. \A i \in shown : i \in Int
  BY <1>2
<1> HIDE DEF shown
<1>5. first = la + 1
  BY <1>1, <1>3, <1>4
<1>6. last = la + lb
  BY <1>1, <1>3, <1>4
<1>7. SubSeq(t, la + 1, la + lb) = b
  <2> DEFINE u == SubSeq(t, la + 1, la + lb)
  <2>1. la + 1 \in Int /\ la + lb \in Int /\ la + 1 <= la + lb /\ (la + lb) - (la + 1) + 1 = lb
    BY <1>1
  <2>2. \A i \in la + 1 .. la + lb : t[i] \in S
    <3>1. \A i \in la + 1 .. la + lb : i \in 1 .. Len(t)
      BY <1>1, <1>2
    <3> QED
      BY <1>2, <3>1, ElementOfSeq
  <2>3. u \in Seq(S) /\ Len(u) = lb /\ \A i \in 1 .. lb : u[i] = t[la + 1 + i - 1]
    <3> DEFINE lo == la + 1
               hi == la + lb
    <3>1. /\ lo \in Int /\ hi \in Int /\ lo <= hi /\ hi - lo + 1 = lb
          /\ \A i \in lo .. hi : t[i] \in S
      BY <2>1, <2>2
    <3> HIDE DEF lo, hi, t, la, lb, first, last
    <3>2. /\ SubSeq(t, lo, hi) \in Seq(S)
          /\ Len(SubSeq(t, lo, hi)) = IF lo <= hi THEN hi - lo + 1 ELSE 0
          /\ \A i \in 1 .. hi - lo + 1 : SubSeq(t, lo, hi)[i] = t[lo + i - 1]
      BY <3>1, SubSeqProperties, SMTT(30)
    <3> QED
      BY <3>1, <3>2 DEF lo, hi
  <2> HIDE DEF u
  <2>4. ASSUME NEW i \in 1 .. lb PROVE u[i] = b[i]
    <3>1. /\ la + 1 + i - 1 = la + i /\ la + i \in 1 .. la + lb + lc
          /\ ~(la + i <= la) /\ la + i <= la + lb /\ (la + i) - la = i
      BY <1>1
    <3> QED
      BY <1>2, <2>3, <3>1
  <2>5. u = b
    BY <2>3, <2>4, SeqEqual DEF lb
  <2> QED
    BY <2>5 DEF u
<1>8. shown # {}
  BY <1>3
<1>9. Trimmed(t) = IF shown = {} THEN <<>> ELSE SubSeq(t, first, last)
  BY DEF Trimmed, shown
<1> QED
  BY <1>5, <1>6, <1>7, <1>8, <1>9 DEF t

LEMMA CopiesLemma ==
    ASSUME NEW S, NEW c \in S, NEW n \in Nat
    PROVE  /\ Copies(c, n) \in Seq(S) /\ Len(Copies(c, n)) = n
           /\ \A i \in 1 .. n : Copies(c, n)[i] = c
           /\ n = 0 => Copies(c, n) = <<>>
<1>1. Copies(c, n) = [i \in 1 .. n |-> c]
  BY DEF Copies
<1>2. Copies(c, n) \in Seq(S) /\ Len(Copies(c, n)) = n
  BY <1>1, IsASeq
<1>3. n = 0 => Copies(c, n) = <<>>
  BY <1>2, EmptySeq
<1> QED
  BY <1>1, <1>2, <1>3

\* write_padded: the text stands between what it is filled up with.
LEMMA PaddedLemma ==
    ASSUME NEW S, NEW specs, specs.width \in Nat, specs.fill \in S, NEW text \in Seq(S), NEW side
    PROVE  \E l \in Nat, r \in Nat :
              /\ write_padded(specs, text, side) = Copies(specs.fill, l) \o text \o Copies(specs.fill, r)
              /\ l + r = Excess(specs.width, Len(text))
<1> DEFINE padding == Excess(specs.width, Len(text))
           left == CASE <<specs.align, side>> \in {<<"left", "left">>, <<"left", "right">>, <<"none", "left">>} -> 0
                     [] specs.align = "center" -> padding \div 2
                     [] OTHER -> padding
<1>1. padding \in Nat
  BY LenProperties DEF Excess
<1>2. write_padded(specs, text, side) = Copies(specs.fill, left) \o text \o Copies(specs.fill, padding - left)
  BY DEF write_padded
<1> HIDE DEF padding
<1>3. left \in {0, padding \div 2, padding}
  <2> DEFINE lefts == <<specs.align, side>> \in {<<"left", "left">>, <<"left", "right">>, <<"none", "left">>}
             center == specs.align = "center"
  <2> HIDE DEF lefts, center
  <2>1. (CASE lefts -> 0 [] center -> padding \div 2 [] OTHER -> padding) \in {0, padding \div 2, padding}
    OBVIOUS
  <2> QED
    BY <2>1 DEF lefts, center
<1> HIDE DEF left
<1>4. left \in Nat /\ padding - left \in Nat /\ left + (padding - left) = padding
  BY <1>1, <1>3
<1> QED
  BY <1>2, <1>4 DEF padding

\* write_int: zeros between the prefix and the digits, and nothing around
\* them when the zeros are what fills the width.
LEMMA IntText ==
    ASSUME NEW S, NEW specs, specs.width \in Nat, specs.precision \in Int, specs.fill \in S, "0" \in S,
           NEW prefix \in Seq(S), NEW digits \in Seq(S)
    PROVE  \E l \in Nat, r \in Nat, z \in Nat :
              /\ write_int(specs, prefix, digits) =
                    Copies(specs.fill, l) \o (prefix \o Copies("0", z) \o digits) \o Copies(specs.fill, r)
              /\ specs.align = "numeric" => l = 0 /\ r = 0
              /\ specs.width <= l + r + Len(prefix \o Copies("0", z) \o digits)
<1> DEFINE zeros == IF specs.align = "numeric" THEN Excess(specs.width, Len(prefix) + Len(digits))
                    ELSE Excess(specs.precision, Len(digits))
           text == prefix \o Copies("0", zeros) \o digits
<1>1. Len(prefix) \in Nat /\ Len(digits) \in Nat /\ zeros \in Nat
  BY LenProperties DEF Excess
<1>2. write_int(specs, prefix, digits) = write_padded(specs, text, "right")
  BY DEF write_int
<1>3. specs.align = "numeric" => zeros + Len(prefix) + Len(digits) >= specs.width
  BY <1>1 DEF Excess
<1> HIDE DEF zeros
<1>4. text \in Seq(S) /\ Len(text) = Len(prefix) + zeros + Len(digits)
  <2>1. Copies("0", zeros) \in Seq(S) /\ Len(Copies("0", zeros)) = zeros
    BY <1>1, CopiesLemma
  <2>2. /\ prefix \o Copies("0", zeros) \in Seq(S)
        /\ Len(prefix \o Copies("0", zeros)) = Len(prefix) + zeros
    BY <2>1, ConcatProperties
  <2> QED
    BY <2>2, ConcatProperties
<1> HIDE DEF text
<1>5. PICK l \in Nat, r \in Nat :
         /\ write_padded(specs, text, "right") = Copies(specs.fill, l) \o text \o Copies(specs.fill, r)
         /\ l + r = Excess(specs.width, Len(text))
  BY <1>4, PaddedLemma
<1>6. specs.width <= l + r + Len(text) /\ (specs.align = "numeric" => l = 0 /\ r = 0)
  BY <1>1, <1>3, <1>4, <1>5 DEF Excess
<1> QED
  BY <1>1, <1>2, <1>5, <1>6 DEF text

BaseOf(type) == CASE type \in {"", "d", "L"} -> 10 [] type \in {"x", "X"} -> 16
                  [] type \in {"b", "B"} -> 2 [] type = "o" -> 8
Signs == {<<>>, <<"-">>, <<"+">>, <<Blank>>}
SignOf(sign) == IF sign = <<Blank>> THEN <<>> ELSE sign
BlankOf(sign) == IF sign = <<Blank>> THEN sign ELSE <<>>

\* The mark of the base: none, the 0 of octal numbers, or 0 and a letter.
MarkFits(mark, specs) ==
    \/ mark = <<>> /\ (specs.alt = "" \/ BaseOf(specs.type) \in {8, 10})
    \/ mark = <<"0">> /\ BaseOf(specs.type) = 8
    \/ mark = <<"0", specs.type>> /\ specs.alt # "" /\ specs.type \in {"x", "X", "b", "B"}

LEMMA InFront ==
    ASSUME NEW S, NEW c, NEW s \in Seq(S)
    PROVE  /\ (<<c>> \o s)[1] = c /\ <<c>> \o s # <<>> /\ Tail(<<c>> \o s) = s
           /\ s # <<>> => (<<c>> \o s)[Len(<<c>> \o s)] = s[Len(s)]
<1> DEFINE T == S \cup {c}
<1>1. s \in Seq(T) /\ <<c>> \in Seq(T) /\ Len(<<c>>) = 1 /\ <<c>>[1] = c
  BY SeqMonotonic
<1> DEFINE t == <<c>> \o s
<1>2. /\ t \in Seq(T) /\ Len(t) = 1 + Len(s) /\ Len(s) \in Nat
      /\ \A i \in 1 .. 1 + Len(s) : t[i] = IF i <= 1 THEN <<c>>[i] ELSE s[i - 1]
  BY <1>1, ConcatProperties, LenProperties
<1> HIDE DEF t, T
<1>3. t[1] = c /\ t # <<>>
  BY <1>1, <1>2, EmptySeq
<1>4. \A i \in 1 .. Len(s) : t[i + 1] = s[i]
  <2>1. \A i \in 1 .. Len(s) : i + 1 \in 1 .. 1 + Len(s) /\ ~(i + 1 <= 1) /\ (i + 1) - 1 = i
    BY <1>2
  <2> QED
    BY <1>2, <2>1
<1>5. Tail(t) = s
  <2>1. Tail(t) \in Seq(T) /\ Len(Tail(t)) = Len(s) /\ \A i \in 1 .. Len(s) : Tail(t)[i] = t[i + 1]
    BY <1>2, <1>3, HeadTailProperties
  <2> QED
    BY <1>1, <1>4, <2>1, SeqEqual
<1>6. s # <<>> => t[Len(t)] = s[Len(s)]
  <2>1. s # <<>> => Len(s) \in 1 .. Len(s) /\ Len(t) = Len(s) + 1
    BY <1>2, EmptySeq
  <2> QED
    BY <1>4, <2>1
<1> QED
  BY <1>3, <1>5, <1>6 DEF t

\* The body of a number, after its sign, is a mark and digits, of which the
\* value is that of the digits.
LEMMA BodyRead ==
    ASSUME NEW specs, NEW base \in Bases, base = BaseOf(specs.type), NEW mark, MarkFits(mark, specs),
           NEW d \in Seq(NumeralsOf(base)), d # <<>>,
           NEW S, NumeralsOf(base) \cup {specs.type} \subseteq S
    PROVE  LET body == mark \o d
               marked == Len(body) > 2 /\ body[2] \in {"x", "X", "b", "B"} /\ specs.alt # ""
               digits == IF marked THEN SubSeq(body, 3, Len(body)) ELSE body
           IN  /\ digits \in Seq(NumeralsOf(base)) /\ digits # <<>> /\ ValueOf(digits, base) = ValueOf(d, base)
               /\ body \in Seq(S) /\ body # <<>> /\ body[1] \in NumeralsOf(base)
               /\ body[Len(body)] \in NumeralsOf(base)
<1> DEFINE body == mark \o d
           marked == Len(body) > 2 /\ body[2] \in {"x", "X", "b", "B"} /\ specs.alt # ""
           digits == IF marked THEN SubSeq(body, 3, Len(body)) ELSE body
           N == NumeralsOf(base)
<1>1. d \in Seq(N) /\ Len(d) \in Nat \ {0} /\ d[1] \in N /\ d[Len(d)] \in N /\ d \in Seq(S) /\ "0" \in N
  <2>1. Len(d) \in Nat \ {0}
    BY EmptySeq
  <2>2. 1 \in 1 .. Len(d) /\ Len(d) \in 1 .. Len(d)
    BY <2>1
  <2>3. d[1] \in N /\ d[Len(d)] \in N
    BY <2>2, ElementOfSeq
  <2>4. d \in Seq(S)
    BY SeqMonotonic
  <2> QED
    BY <2>1, <2>3, <2>4, NumeralLemma
<1>2. ASSUME NEW s \in Seq(N), base \in {8, 10}, Len(s) > 2 PROVE s[2] \notin {"x", "X", "b", "B"}
  <2>1. 2 \in 1 .. Len(s)
    BY <1>2, LenProperties
  <2>2. s[2] \in N
    BY <2>1, ElementOfSeq
  <2>3. base <= 10
    BY <1>2
  <2> QED
    BY <2>2, <2>3, NumeralLemma
<1>3. CASE mark = <<>> /\ (specs.alt = "" \/ base \in {8, 10})
  <2>1. body = d
    BY <1>1, <1>3, ConcatEmptySeq
  <2> HIDE DEF body
  <2>2. ~marked
    BY <1>1, <1>2, <1>3, <2>1
  <2> QED
    BY <1>1, <2>1, <2>2 DEF body
<1>4. CASE mark = <<"0">> /\ base = 8
  <2>1. Copies("0", 1) = <<"0">>
    <3>1. Copies("0", 1) \in Seq(N) /\ Len(Copies("0", 1)) = 1 /\ Copies("0", 1)[1] = "0"
      <4>1. 1 \in 1 .. 1
        OBVIOUS
      <4> QED
        BY <1>1, <4>1, CopiesLemma
    <3>2. <<"0">> \in Seq(N) /\ Len(<<"0">>) = 1 /\ <<"0">>[1] = "0"
      BY <1>1
    <3> HIDE DEF N
    <3>3. \A i \in 1 .. 1 : Copies("0", 1)[i] = <<"0">>[i]
      BY <3>1, <3>2
    <3> QED
      BY <3>1, <3>2, <3>3, SeqEqual
  <2>2. body \in Seq(N) /\ ValueOf(body, base) = ValueOf(d, base)
    <3>1. 1 \in Nat
      OBVIOUS
    <3>2. Copies("0", 1) \o d \in Seq(N) /\ ValueOf(Copies("0", 1) \o d, base) = ValueOf(d, base)
      BY <1>1, <3>1, ZerosInFront
    <3> HIDE DEF N
    <3> QED
      BY <1>4, <2>1, <3>2
  <2>3. body[1] = "0" /\ body # <<>> /\ body[Len(body)] = d[Len(d)]
    BY <1>1, <1>4, InFront
  <2> HIDE DEF body
  <2>4. ~marked
    <3>1. base \in {8, 10}
      BY <1>4
    <3>2. Len(body) > 2 => body[2] \notin {"x", "X", "b", "B"}
      BY <1>2, <2>2, <3>1
    <3> QED
      BY <3>2
  <2>5. body \in Seq(S)
    BY <2>2, SeqMonotonic
  <2> QED
    BY <1>1, <2>2, <2>3, <2>4, <2>5 DEF body
<1>5. CASE mark = <<"0", specs.type>> /\ specs.alt # "" /\ specs.type \in {"x", "X", "b", "B"}
  <2>0. "0" \in S /\ specs.type \in S
    BY <1>1
  <2>1. mark \in Seq(S) /\ Len(mark) = 2 /\ mark[1] = "0" /\ mark[2] = specs.type
    <3>1. mark = <<"0", specs.type>>
      BY <1>5
    <3>2. <<"0", specs.type>> \in Seq(S) /\ Len(<<"0", specs.type>>) = 2
      BY <2>0
    <3> QED
      BY <3>1, <3>2
  <2>2. /\ body \in Seq(S) /\ Len(body) = 2 + Len(d)
        /\ \A i \in 1 .. 2 + Len(d) : body[i] = IF i <= 2 THEN mark[i] ELSE d[i - 2]
    <3>1. mark \in Seq(S) /\ d \in Seq(S)
      BY <1>1, <2>1
    <3>2. /\ mark \o d \in Seq(S) /\ Len(mark \o d) = Len(mark) + Len(d)
          /\ \A i \in 1 .. Len(mark) + Len(d) : (mark \o d)[i] = IF i <= Len(mark) THEN mark[i] ELSE d[i - Len(mark)]
      BY <3>1, ConcatProperties
    <3> QED
      BY <2>1, <3>2
  <2> HIDE DEF body
  <2>3. body[1] = "0" /\ body[2] = specs.type /\ Len(body) > 2 /\ body # <<>>
    <3>1. 1 \in 1 .. 2 + Len(d) /\ 2 \in 1 .. 2 + Len(d) /\ Len(body) > 2
      BY <1>1, <2>2
    <3> QED
      BY <2>1, <2>2, <3>1, EmptySeq
  <2>4. \A i \in 1 .. Len(d) : body[i + 2] = d[i]
    <3>1. \A i \in 1 .. Len(d) : i + 2 \in 1 .. 2 + Len(d) /\ ~(i + 2 <= 2) /\ (i + 2) - 2 = i
      BY <1>1
    <3> QED
      BY <2>2, <3>1
  <2>5. SubSeq(body, 3, Len(body)) = d
    <3> DEFINE u == SubSeq(body, 3, Len(body))
    <3>1. 3 \in Int /\ Len(body) \in Int /\ 3 <= Len(body) /\ Len(body) - 3 + 1 = Len(d)
      BY <1>1, <2>2
    <3>2. \A i \in 3 .. Len(body) : body[i] \in S
      <4>1. \A i \in 3 .. Len(body) : i \in 1 .. Len(body)
        BY <3>1
      <4> QED
        BY <2>2, <4>1, ElementOfSeq
    <3>3. u \in Seq(S) /\ Len(u) = Len(d) /\ \A i \in 1 .. Len(d) : u[i] = body[3 + i - 1]
      BY <3>1, <3>2, SubSeqProperties
    <3> HIDE DEF u
    <3>4. \A i \in 1 .. Len(d) : 3 + i - 1 = i + 2
      BY <1>1
    <3>5. \A i \in 1 .. Len(d) : u[i] = d[i]
      BY <2>4, <3>3, <3>4
    <3>6. u = d
      BY <1>1, <3>3, <3>5, SeqEqual
    <3> QED
      BY <3>6 DEF u
  <2>6. body[Len(body)] = d[Len(d)]
    <3>1. Len(d) \in 1 .. Len(d) /\ Len(body) = Len(d) + 2
      BY <1>1, <2>2
    <3> QED
      BY <2>4, <3>1
  <2>7. marked
    BY <1>5, <2>3
  <2> QED
    BY <1>1, <2>2, <2>3, <2>5, <2>6, <2>7 DEF body
<1> QED
  BY <1>3, <1>4, <1>5 DEF MarkFits

\* Blanks alone, and blanks with a sign that is one.
LEMMA BlanksLemma ==
    ASSUME NEW S, Blank \in S, NEW fill, NEW l \in Nat, fill = Blank \/ l = 0
    PROVE  \A sign \in {<<>>, <<Blank>>} :
              /\ Copies(fill, l) \o sign \in Seq(S)
              /\ \A i \in 1 .. Len(Copies(fill, l) \o sign) : (Copies(fill, l) \o sign)[i] = Blank
<1> DEFINE a == Copies(fill, l)
<1>1. a \in Seq(S) /\ \A i \in 1 .. Len(a) : a[i] = Blank
  <2>1. CASE fill = Blank
    BY <2>1, CopiesLemma
  <2>2. CASE l = 0
    <3>1. a = <<>>
      BY <2>2, CopiesLemma
    <3>2. <<>> \in Seq(S) /\ Len(<<>>) = 0
      BY EmptySeq
    <3> QED
      BY <3>1, <3>2
  <2> QED
    BY <2>1, <2>2
<1> HIDE DEF a
<1>2. a \o <<>> = a
  BY <1>1, ConcatEmptySeq
<1>3. a \o <<Blank>> \in Seq(S) /\ \A i \in 1 .. Len(a \o <<Blank>>) : (a \o <<Blank>>)[i] = Blank
  <2> DEFINE b == <<Blank>>
  <2>1. b \in Seq(S) /\ Len(b) = 1 /\ b[1] = Blank /\ Len(a) \in Nat
    BY <1>1, LenProperties
  <2> HIDE DEF b
  <2>2. /\ a \o b \in Seq(S) /\ Len(a \o b) = Len(a) + Len(b)
        /\ \A i \in 1 .. Len(a) + Len(b) : (a \o b)[i] = IF i <= Len(a) THEN a[i] ELSE b[i - Len(a)]
    BY <1>1, <2>1, ConcatProperties
  <2>3. ASSUME NEW i \in 1 .. Len(a \o b) PROVE (a \o b)[i] = Blank
    <3>1. CASE i <= Len(a)
      <4>1. i \in 1 .. Len(a) /\ i \in 1 .. Len(a) + Len(b)
        BY <2>1, <2>2, <3>1
      <4> QED
        BY <1>1, <2>2, <3>1, <4>1
    <3>2. CASE ~(i <= Len(a))
      <4>1. i - Len(a) = 1 /\ i \in 1 .. Len(a) + Len(b)
        BY <2>1, <2>2, <3>2
      <4> QED
        BY <2>1, <2>2, <3>2, <4>1
    <3> QED
      BY <3>1, <3>2
  <2> QED
    BY <2>2, <2>3 DEF b
<1> QED
  BY <1>1, <1>2, <1>3 DEF a

\* The pieces of a written number, and what is read from them.
LEMMA TextReadsBack ==
    ASSUME NEW specs, NEW base \in Bases, base = BaseOf(specs.type), NEW sign \in Signs,
           NEW mark, MarkFits(mark, specs), NEW d \in Seq(NumeralsOf(base)), d # <<>>,
           NEW n \in Int, ValueOf(d, base) = IF n < 0 THEN -n ELSE n, n < 0 <=> sign = <<"-">>,
           NEW l \in Nat, NEW r \in Nat, NEW z \in Nat, specs.fill = Blank \/ (l = 0 /\ r = 0)
    PROVE  ReadsBack(Copies(specs.fill, l) \o ((sign \o mark) \o Copies("0", z) \o d) \o Copies(specs.fill, r),
                     specs, n)
<1> DEFINE N == NumeralsOf(base)
           S == {specs.fill, specs.type, Blank, "-", "+", "0"} \cup N
           L == Copies(specs.fill, l)
           R == Copies(specs.fill, r)
           D == Copies("0", z) \o d
           body == mark \o D
           bare == SignOf(sign) \o body
           marked == Len(body) > 2 /\ body[2] \in {"x", "X", "b", "B"} /\ specs.alt # ""
           digits == IF marked THEN SubSeq(body, 3, Len(body)) ELSE body
           text == L \o ((sign \o mark) \o Copies("0", z) \o d) \o R
<1>1. D \in Seq(N) /\ D # <<>> /\ ValueOf(D, base) = ValueOf(d, base)
  <2>1. D \in Seq(N) /\ ValueOf(D, base) = ValueOf(d, base)
    BY ZerosInFront
  <2>2. "0" \in N
    BY NumeralLemma
  <2>3. Copies("0", z) \in Seq(N)
    BY <2>2, CopiesLemma
  <2>4. D # <<>>
    BY <2>3, ConcatEqualIffEmpty
  <2> QED
    BY <2>1, <2>4
<1>2. N \cup {specs.type} \subseteq S /\ "0" \in S /\ Blank \in S
  OBVIOUS
<1>3. /\ L \in Seq(S) /\ R \in Seq(S) /\ Copies("0", z) \in Seq(S) /\ d \in Seq(S) /\ sign \in Seq(S)
      /\ mark \in Seq(S)
  <2>1. L \in Seq(S) /\ R \in Seq(S) /\ Copies("0", z) \in Seq(S)
    BY CopiesLemma
  <2>2. d \in Seq(S)
    BY SeqMonotonic
  <2>3. sign \in Seq(S)
    <3>1. "-" \in S /\ "+" \in S /\ Blank \in S
      OBVIOUS
    <3> HIDE DEF S
    <3>2. /\ <<>> \in Seq(S) /\ <<"-">> \in Seq(S) /\ <<"+">> \in Seq(S)
          /\ <<Blank>> \in Seq(S)
      BY <3>1
    <3> QED
      BY <3>2 DEF Signs
  <2>4. mark \in Seq(S)
    <3>1. "0" \in S /\ specs.type \in S
      OBVIOUS
    <3> HIDE DEF S
    <3>2. <<>> \in Seq(S) /\ <<"0">> \in Seq(S) /\ <<"0", specs.type>> \in Seq(S)
      BY <3>1
    <3> QED
      BY <3>2 DEF MarkFits
  <2> QED
    BY <2>1, <2>2, <2>3, <2>4
<1> HIDE DEF S, L, R
<1>4. /\ digits \in Seq(N) /\ digits # <<>> /\ ValueOf(digits, base) = ValueOf(D, base)
      /\ body \in Seq(S) /\ body # <<>> /\ body[1] \in N /\ body[Len(body)] \in N
  <2> HIDE DEF D
  <2> QED
    BY <1>1, <1>2, BodyRead
<1>5. (sign \o mark) \o Copies("0", z) \o d = sign \o body
  <2>1. (sign \o mark) \o Copies("0", z) \o d = (sign \o mark) \o D
    <3> DEFINE p == sign \o mark
               q == Copies("0", z)
    <3>1. p \in Seq(S) /\ q \in Seq(S) /\ d \in Seq(S)
      BY <1>3, ConcatProperties
    <3> HIDE DEF p, q
    <3>2. (p \o q) \o d = p \o (q \o d)
      BY <3>1, ConcatAssociative
    <3> QED
      BY <3>2 DEF p, q
  <2>2. D \in Seq(S)
    BY <1>3, ConcatProperties
  <2> HIDE DEF D
  <2>3. (sign \o mark) \o D = sign \o (mark \o D)
    <3>1. sign \in Seq(S) /\ mark \in Seq(S) /\ D \in Seq(S)
      BY <1>3, <2>2
    <3> HIDE DEF body, digits, text, marked, bare
    <3> QED
      BY <3>1, ConcatAssociative, SMTT(30)
  <2> QED
    BY <2>1, <2>3
<1> HIDE DEF D, body, digits
<1>6. \A c \in N : c # Blank /\ c # "-" /\ c # "+"
  BY NumeralLemma
<1>7. /\ bare \in Seq(S) /\ bare # <<>> /\ bare[1] # Blank /\ bare[Len(bare)] # Blank
      /\ (bare[1] = "-" <=> sign = <<"-">>)
      /\ body = IF bare[1] \in {"-", "+"} THEN Tail(bare) ELSE bare
  <2>1. CASE sign \in {<<>>, <<Blank>>}
    <3>1. SignOf(sign) = <<>> /\ sign # <<"-">>
      <4>1. Blank # "-"
        BY BlankLemma
      <4>2. <<Blank>> # <<"-">> /\ <<>> # <<"-">>
        BY <4>1
      <4> QED
        BY <2>1, <4>2 DEF SignOf
    <3>2. bare = body
      BY <1>4, <3>1, ConcatEmptySeq
    <3> HIDE DEF bare
    <3>3. body[1] # "-" /\ body[1] # "+" /\ body[1] # Blank /\ body[Len(body)] # Blank
      BY <1>4, <1>6
    <3> QED
      BY <1>4, <3>1, <3>2, <3>3
  <2>2. ASSUME NEW c \in {"-", "+"}, sign = <<c>>
        PROVE  <1>7!1 /\ <1>7!2 /\ <1>7!3
    <3>1. SignOf(sign) = <<c>> /\ c # Blank /\ c \in S
      <4>1. Blank # "-" /\ Blank # "+"
        BY BlankLemma
      <4>2. c # Blank
        BY <4>1
      <4>3. <<c>> # <<Blank>>
        BY <4>2
      <4> QED
        BY <2>2, <4>2, <4>3 DEF SignOf, S
    <3>2. /\ bare[1] = c /\ bare # <<>> /\ Tail(bare) = body
          /\ bare[Len(bare)] = body[Len(body)]
      BY <1>4, <3>1, InFront
    <3>3. bare \in Seq(S)
      <4>1. <<c>> \in Seq(S)
        BY <3>1
      <4> QED
        BY <1>4, <3>1, <4>1, ConcatProperties
    <3> HIDE DEF bare
    <3>4. bare[1] = "-" <=> sign = <<"-">>
      BY <2>2, <3>2
    <3>5. bare[Len(bare)] # Blank
      BY <1>4, <1>6, <3>2
    <3> QED
      BY <3>1, <3>2, <3>3, <3>4, <3>5
  <2> QED
    BY <2>1, <2>2 DEF Signs
<1>8. Trimmed(text) = bare
  <2> DEFINE blank == BlankOf(sign)
  <2>1. blank \in {<<>>, <<Blank>>}
    BY DEF BlankOf
  <2>2. text = (L \o blank) \o bare \o R
    <3>1. text = L \o (sign \o body) \o R
      BY <1>5
    <3>2. CASE sign = <<Blank>>
      <4>1. blank = sign /\ bare = body
        <5>1. SignOf(sign) = <<>> /\ blank = sign
          BY <3>2 DEF SignOf, BlankOf
        <5> QED
          BY <1>4, <5>1, ConcatEmptySeq
      <4> HIDE DEF blank, bare, text
      <4>2. L \o (sign \o body) = (L \o sign) \o body
        <5>1. L \in Seq(S) /\ sign \in Seq(S) /\ body \in Seq(S)
          BY <1>3, <1>4
        <5> HIDE DEF marked
        <5> QED
          BY <5>1, ConcatAssociative, SMTT(30)
      <4> QED
        BY <3>1, <4>1, <4>2
    <3>3. CASE sign # <<Blank>>
      <4>1. blank = <<>> /\ bare = sign \o body
        BY <3>3 DEF SignOf, BlankOf
      <4>2. L \o <<>> = L
        BY <1>3, ConcatEmptySeq
      <4> HIDE DEF blank, bare, text
      <4> QED
        BY <3>1, <4>1, <4>2
    <3> QED
      BY <3>2, <3>3
  <2>3. /\ L \o blank \in Seq(S) /\ \A i \in 1 .. Len(L \o blank) : (L \o blank)[i] = Blank
    <3> HIDE DEF blank, bare, text, marked
    <3>1. \A s \in {<<>>, <<Blank>>} :
             /\ Copies(specs.fill, l) \o s \in Seq(S)
             /\ \A i \in 1 .. Len(Copies(specs.fill, l) \o s) :
                   (Copies(specs.fill, l) \o s)[i] = Blank
      <4>1. specs.fill = Blank \/ l = 0
        OBVIOUS
      <4> QED
        BY <1>2, <4>1, BlanksLemma
    <3> QED
      BY <2>1, <3>1 DEF L
  <2>4. \A i \in 1 .. Len(R) : R[i] = Blank
    <3>1. R \o <<>> = R
      BY <1>3, ConcatEmptySeq
    <3>2. \A i \in 1 .. Len(R \o <<>>) : (R \o <<>>)[i] = Blank
      BY <1>2, BlanksLemma DEF R
    <3> QED
      BY <3>1, <3>2
  <2> HIDE DEF text, bare, blank
  <2> QED
    BY <1>3, <1>7, <2>2, <2>3, <2>4, TrimmedLemma
<1> HIDE DEF text, bare
<1>9. n = IF bare[1] = "-" THEN -ValueOf(digits, base) ELSE ValueOf(digits, base)
  BY <1>1, <1>4, <1>7
<1>10. \A i \in DOMAIN digits : \E k \in 1 .. base : digits[i] \in {Numerals.lower[k], Numerals.upper[k]}
  <2> SUFFICES ASSUME NEW i \in DOMAIN digits
               PROVE  \E k \in 1 .. base : digits[i] \in {Numerals.lower[k], Numerals.upper[k]}
    OBVIOUS
  <2>1. digits[i] \in N
    <3>1. DOMAIN digits = 1 .. Len(digits)
      BY <1>4, LenProperties
    <3> QED
      BY <1>4, <3>1, ElementOfSeq
  <2> QED
    BY <2>1, NumeralLemma
<1>11. ReadsBack(text, specs, n)
  <2>1. /\ digits # <<>> /\ \A i \in DOMAIN digits : \E k \in 1 .. base : digits[i] \in {Numerals.lower[k], Numerals.upper[k]}
        /\ n = IF bare[1] = "-" THEN -ValueOf(digits, base) ELSE ValueOf(digits, base)
    BY <1>4, <1>9, <1>10
  <2>2. body = IF bare # <<>> /\ bare[1] \in {"-", "+"} THEN Tail(bare) ELSE bare
    BY <1>7
  <2>3. digits = IF Len(body) > 2 /\ body[2] \in {"x", "X", "b", "B"} /\ specs.alt # ""
                 THEN SubSeq(body, 3, Len(body)) ELSE body
    BY DEF digits
  <2> DEFINE bd == IF Trimmed(text) # <<>> /\ Trimmed(text)[1] \in {"-", "+"} THEN Tail(Trimmed(text))
                   ELSE Trimmed(text)
             dg == IF Len(bd) > 2 /\ bd[2] \in {"x", "X", "b", "B"} /\ specs.alt # ""
                   THEN SubSeq(bd, 3, Len(bd)) ELSE bd
  <2>4. ReadsBack(text, specs, n) =
            /\ dg # <<>>
            /\ \A i \in DOMAIN dg : \E k \in 1 .. BaseOf(specs.type) : dg[i] \in {Numerals.lower[k], Numerals.upper[k]}
            /\ n = IF Trimmed(text)[1] = "-" THEN -ValueOf(dg, BaseOf(specs.type)) ELSE ValueOf(dg, BaseOf(specs.type))
    BY DEF ReadsBack, BaseOf
  <2>5. bd = body
    BY <1>8, <2>2
  <2>6. dg = digits
    <3> HIDE DEF bd
    <3> QED
      BY <2>3, <2>5
  <2> HIDE DEF N, dg
  <2> QED
    BY <1>8, <2>1, <2>4, <2>6
<1> QED
  BY <1>11 DEF text, L, R

\* A written integer reads back and is as wide as was asked.
LEMMA WrittenReadsBack ==
    ASSUME NEW specs, specs.width \in Nat, specs.precision \in Int,
           NEW base \in Bases, base = BaseOf(specs.type), NEW sign \in Signs,
           NEW mark, MarkFits(mark, specs), NEW d \in Seq(NumeralsOf(base)), d # <<>>,
           NEW n \in Int, ValueOf(d, base) = IF n < 0 THEN -n ELSE n, n < 0 <=> sign = <<"-">>,
           NEW prefix, prefix = sign \o mark
    PROVE  FieldReadsBack(specs, specs.width, n, Right(write_int(specs, prefix, d)))
<1> DEFINE N == NumeralsOf(base)
           S == {specs.fill, specs.type, Blank, "-", "+", "0"} \cup N
           text == write_int(specs, prefix, d)
<1>1. prefix \in Seq(S) /\ d \in Seq(S) /\ specs.fill \in S /\ "0" \in S
  <2>1. d \in Seq(S)
    BY SeqMonotonic
  <2>2. Blank \in S /\ "-" \in S /\ "+" \in S /\ "0" \in S /\ specs.type \in S /\ specs.fill \in S
    OBVIOUS
  <2> HIDE DEF S
  <2>3. sign \in Seq(S)
    <3>1. <<>> \in Seq(S) /\ <<"-">> \in Seq(S) /\ <<"+">> \in Seq(S) /\ <<Blank>> \in Seq(S)
      BY <2>2
    <3> QED
      BY <3>1 DEF Signs
  <2>4. mark \in Seq(S)
    <3>1. <<>> \in Seq(S) /\ <<"0">> \in Seq(S) /\ <<"0", specs.type>> \in Seq(S)
      BY <2>2
    <3> QED
      BY <3>1 DEF MarkFits
  <2> QED
    BY <2>1, <2>2, <2>3, <2>4, ConcatProperties
<1> HIDE DEF S
<1>2. PICK l \in Nat, r \in Nat, z \in Nat :
         /\ text = Copies(specs.fill, l) \o (prefix \o Copies("0", z) \o d) \o Copies(specs.fill, r)
         /\ specs.align = "numeric" => l = 0 /\ r = 0
         /\ specs.width <= l + r + Len(prefix \o Copies("0", z) \o d)
  BY <1>1, IntText
<1>3. Len(text) >= specs.width
  <2> DEFINE m == prefix \o Copies("0", z) \o d
             L == Copies(specs.fill, l)
             R == Copies(specs.fill, r)
  <2>1. L \in Seq(S) /\ Len(L) = l /\ R \in Seq(S) /\ Len(R) = r /\ Copies("0", z) \in Seq(S)
    BY <1>1, CopiesLemma
  <2>2. m \in Seq(S)
    BY <1>1, <2>1, ConcatProperties
  <2>3. text = L \o m \o R /\ specs.width <= l + r + Len(m)
    BY <1>2
  <2> HIDE DEF L, m, R, text
  <2>4. L \o m \in Seq(S) /\ Len(L \o m) = Len(L) + Len(m) /\ Len(m) \in Nat
    BY <2>1, <2>2, ConcatProperties, LenProperties
  <2>5. Len((L \o m) \o R) = Len(L \o m) + Len(R)
    BY <2>1, <2>4, ConcatProperties
  <2> QED
    BY <2>1, <2>3, <2>4, <2>5
<1>4. ASSUME specs.fill = Blank \/ specs.align = "numeric" PROVE ReadsBack(text, specs, n)
  <2>1. specs.fill = Blank \/ (l = 0 /\ r = 0)
    BY <1>2, <1>4
  <2>2. ReadsBack(Copies(specs.fill, l) \o ((sign \o mark) \o Copies("0", z) \o d) \o Copies(specs.fill, r),
                  specs, n)
    BY <2>1, TextReadsBack
  <2> QED
    BY <1>2, <2>2
<1> HIDE DEF text
<1> QED
  BY <1>3, <1>4 DEF FieldReadsBack, Right, text

\* Whatever the specifications, the text of an integer reads back as that
\* integer and is as wide as was asked (int_writer, write_int).
THEOREM IntegersReadBack ==
    ASSUME NEW specs, specs.width \in Nat, specs.precision \in Int, NEW n \in Int
    PROVE  FieldReadsBack(specs, specs.width, n, int_writer(specs, n))
<1> DEFINE value == IF n < 0 THEN -n ELSE n
           sign == CASE n < 0 -> <<"-">>
                     [] n >= 0 /\ specs.sign = "plus" -> <<"+">>
                     [] n >= 0 /\ specs.sign = "space" -> <<Blank>>
                     [] OTHER -> <<>>
           named == IF specs.alt = "" THEN sign ELSE sign \o <<"0", specs.type>>
           octal == format_uint(value, 8, "lower")
           written == int_writer(specs, n)
<1>1. value \in Nat /\ value = IF n < 0 THEN -n ELSE n
  OBVIOUS
<1>2. sign \in Signs /\ (n < 0 <=> sign = <<"-">>)
  <2>1. <<Blank>> # <<"-">> /\ <<"+">> # <<"-">> /\ <<>> # <<"-">>
    <3>1. Blank # "-"
      BY BlankLemma
    <3> QED
      BY <3>1
  <2>2. n < 0 \/ n >= 0
    OBVIOUS
  <2> QED
    BY <2>1, <2>2 DEF Signs
<1> HIDE DEF value, sign
<1>3. ASSUME NEW base \in Bases, base = BaseOf(specs.type), NEW case \in {"lower", "upper"},
             NEW mark, MarkFits(mark, specs), NEW prefix, prefix = sign \o mark,
             written = Right(write_int(specs, prefix, format_uint(value, base, case)))
      PROVE  FieldReadsBack(specs, specs.width, n, written)
  <2> DEFINE d == format_uint(value, base, case)
  <2>1. d \in Seq(NumeralsOf(base)) /\ d # <<>> /\ ValueOf(d, base) = value
    BY <1>1, DigitsRead
  <2> HIDE DEF d
  <2>2. FieldReadsBack(specs, specs.width, n, Right(write_int(specs, prefix, d)))
    BY <1>1, <1>2, <1>3, <2>1, WrittenReadsBack
  <2> QED
    BY <1>3, <2>2 DEF d
<1>4. sign \o <<>> = sign /\ Append(sign, "0") = sign \o <<"0">>
  <2> DEFINE S == {Blank, "-", "+"}
  <2>1. sign \in Seq(S)
    <3>1. Blank \in S /\ "-" \in S /\ "+" \in S
      OBVIOUS
    <3> HIDE DEF S
    <3>2. <<>> \in Seq(S) /\ <<"-">> \in Seq(S) /\ <<"+">> \in Seq(S) /\ <<Blank>> \in Seq(S)
      BY <3>1
    <3> QED
      BY <1>2, <3>2 DEF Signs
  <2>2. sign \in Seq(S \cup {"0"}) /\ "0" \in S \cup {"0"}
    BY <2>1, SeqMonotonic
  <2> HIDE DEF S
  <2> QED
    BY <2>1, <2>2, ConcatEmptySeq, AppendIsConcat
<1> SUFFICES FieldReadsBack(specs, specs.width, n, written)
  OBVIOUS
<1> HIDE DEF written, named
<1>5. CASE specs.type \in {"", "d", "L"}
  <2>1. written = Right(write_int(specs, sign, format_uint(value, 10, "lower")))
    BY <1>5 DEF written, int_writer, format_decimal, value, sign
  <2>2. BaseOf(specs.type) = 10 /\ 10 \in Bases /\ MarkFits(<<>>, specs)
    BY <1>5 DEF BaseOf, Bases, MarkFits
  <2> QED
    BY <1>3, <1>4, <2>1, <2>2
<1>6. ASSUME NEW base \in Bases, base = BaseOf(specs.type), NEW case \in {"lower", "upper"},
             specs.type \in {"x", "X", "b", "B"},
             written = Right(write_int(specs, named, format_uint(value, base, case)))
      PROVE  FieldReadsBack(specs, specs.width, n, written)
  <2> DEFINE mark == IF specs.alt = "" THEN <<>> ELSE <<"0", specs.type>>
  <2>1. MarkFits(mark, specs) /\ named = sign \o mark
    BY <1>4, <1>6 DEF MarkFits, named
  <2> HIDE DEF mark
  <2> QED
    BY <1>3, <1>6, <2>1
<1>7. CASE specs.type = "x"
  <2>1. written = Right(write_int(specs, named, format_uint(value, 16, "lower")))
    BY <1>7 DEF written, named, int_writer, value, sign
  <2>2. BaseOf(specs.type) = 16 /\ 16 \in Bases
    BY <1>7 DEF BaseOf, Bases
  <2> QED
    BY <1>6, <1>7, <2>1, <2>2
<1>8. CASE specs.type = "X"
  <2>1. written = Right(write_int(specs, named, format_uint(value, 16, "upper")))
    BY <1>8 DEF written, named, int_writer, value, sign
  <2>2. BaseOf(specs.type) = 16 /\ 16 \in Bases
    BY <1>8 DEF BaseOf, Bases
  <2> QED
    BY <1>6, <1>8, <2>1, <2>2
<1>9. CASE specs.type \in {"b", "B"}
  <2>1. written = Right(write_int(specs, named, format_uint(value, 2, "lower")))
    BY <1>9 DEF written, named, int_writer, value, sign
  <2>2. BaseOf(specs.type) = 2 /\ 2 \in Bases
    BY <1>9 DEF BaseOf, Bases
  <2> QED
    BY <1>6, <1>9, <2>1, <2>2
<1>10. CASE specs.type = "o"
  <2> DEFINE marked == specs.alt # "" /\ specs.precision <= Len(octal) /\ value # 0
             mark == IF marked THEN <<"0">> ELSE <<>>
             prefix == IF marked THEN Append(sign, "0") ELSE sign
  <2>1. written = Right(write_int(specs, prefix, octal))
    BY <1>10 DEF written, int_writer, value, sign
  <2>2. BaseOf(specs.type) = 8 /\ 8 \in Bases
    BY <1>10 DEF BaseOf, Bases
  <2>3. MarkFits(mark, specs) /\ prefix = sign \o mark
    BY <1>4, <2>2 DEF MarkFits
  <2> HIDE DEF prefix, mark
  <2> QED
    BY <1>3, <2>1, <2>2, <2>3
<1>11. CASE specs.type = "c"
  BY <1>11 DEF FieldReadsBack
<1>12. CASE specs.type \notin {"", "d", "L", "x", "X", "b", "B", "o", "c"}
  <2>1. written = Wrong("invalid type specifier")
    BY <1>12, Zenon DEF written, int_writer
  <2>2. \A why : why # "" => Wrong(why).error # ""
    BY DEF Wrong
  <2>3. "invalid type specifier" # ""
    BY Zenon
  <2>4. written.error # ""
    BY <2>1, <2>2, <2>3, Zenon
  <2> QED
    BY <2>4 DEF FieldReadsBack
<1> QED
  BY <1>5, <1>7, <1>8, <1>9, <1>10, <1>11, <1>12

-----------------------------------------------------------------------------
(* The reader that compiles: its fields have specifications and arguments. *)

Fields == {"f", "args", "handler", "at", "text", "next", "id", "specs",
           "width_ref", "precision_ref", "made", "error"}
GoodId(id) == (id.by = "index" /\ id.index \in Nat) \/ id.by = "name"
GoodRef(ref) == ref.by = "none" \/ GoodId(ref)
GoodSpecs(specs) ==
    /\ DOMAIN specs = {"width", "precision", "type", "align", "sign", "alt", "fill"}
    /\ specs.width \in Nat /\ specs.precision \in Int
GoodPart(part) ==
    part.kind = "field" => /\ GoodId(part.id) /\ GoodSpecs(part.specs)
                           /\ GoodRef(part.width_ref) /\ GoodRef(part.precision_ref)
GoodParts(parts) == \E S : parts \in Seq(S) /\ \A part \in S : GoodPart(part)

Sane(r) ==
    /\ DOMAIN r = Fields /\ r.handler = "compile" /\ Len(r.f) \in Nat /\ r.next \in Int
    /\ GoodSpecs(r.specs) /\ GoodRef(r.width_ref) /\ GoodRef(r.precision_ref) /\ GoodParts(r.made)

\* A field knows its argument, unless an error was thrown.
Known(r) == r.error = "" => GoodId(r.id)

\* What a step of the parser keeps.
Keeps(r, q) == Sane(q) /\ (q.error = "" => r.error = "") /\ (Known(r) => Known(q))

LEMMA KeepsOn ==
    ASSUME NEW p, NEW q, NEW r, Keeps(p, q), Keeps(q, r)
    PROVE  Keeps(p, r)
  BY DEF Keeps

LEMMA KeepsSame == ASSUME NEW r, Sane(r) PROVE Keeps(r, r)
  BY DEF Keeps

LEMMA SkipKeeps == ASSUME NEW r, Sane(r) PROVE Keeps(r, Skip(r))
  BY DEF Skip, Keeps, Sane, Known, Fields

LEMMA ThrowKeeps ==
    ASSUME NEW r, Sane(r), NEW why
    PROVE  Keeps(r, Throw(r, why)) /\ (why # "" => Throw(r, why).error # "")
  BY DEF Throw, Keeps, Sane, Known, Fields

LEMMA PlaceKeeps ==
    ASSUME NEW r, Sane(r), NEW i, NEW j
    PROVE  Keeps(r, [r EXCEPT !.at = i]) /\ Keeps(r, [r EXCEPT !.at = i, !.text = j])
  BY DEF Keeps, Sane, Known, Fields

LEMMA SpecsKeep ==
    ASSUME NEW r, Sane(r), NEW v, NEW w, NEW i
    PROVE  /\ Keeps(r, [r EXCEPT !.specs.fill = v, !.specs.align = w, !.at = i])
           /\ Keeps(r, [r EXCEPT !.specs.align = v])
           /\ Keeps(r, [r EXCEPT !.specs.align = v, !.specs.fill = w])
           /\ Keeps(r, [r EXCEPT !.specs.sign = v])
           /\ Keeps(r, [r EXCEPT !.specs.alt = v])
           /\ Keeps(r, [r EXCEPT !.specs.type = v])
           /\ v \in Nat => \A what \in {"width", "precision"} : Keeps(r, [r EXCEPT !.specs[what] = v, !.at = i])
<1> DEFINE F == {"width", "precision", "type", "align", "sign", "alt", "fill"}
<1>1. ASSUME NEW q, DOMAIN q = Fields, q.handler = r.handler, q.f = r.f, q.next = r.next,
             GoodSpecs(q.specs), q.width_ref = r.width_ref, q.precision_ref = r.precision_ref,
             q.made = r.made, q.error = r.error, q.id = r.id
      PROVE  Keeps(r, q)
  BY <1>1 DEF Keeps, Sane, Known
<1>2. GoodSpecs(r.specs) /\ DOMAIN r = Fields
  BY DEF Sane
<1>3. ASSUME NEW c PROVE \A x \in F \ {"width", "precision"} : GoodSpecs([r.specs EXCEPT ![x] = c])
  BY <1>2 DEF GoodSpecs
<1>4. GoodSpecs([r.specs EXCEPT !.fill = v, !.align = w]) /\ GoodSpecs([r.specs EXCEPT !.align = v, !.fill = w])
  BY <1>2 DEF GoodSpecs
<1>6. Keeps(r, [r EXCEPT !.specs.fill = v, !.specs.align = w, !.at = i])
  <2> DEFINE q == [r EXCEPT !.specs.fill = v, !.specs.align = w, !.at = i]
  <2>1. q.specs = [r.specs EXCEPT !.fill = v, !.align = w]
    BY <1>2 DEF Fields
  <2>2. /\ DOMAIN q = Fields /\ q.handler = r.handler /\ q.f = r.f /\ q.next = r.next
        /\ q.width_ref = r.width_ref /\ q.precision_ref = r.precision_ref
        /\ q.made = r.made /\ q.error = r.error /\ q.id = r.id
    BY <1>2 DEF Fields
  <2> HIDE DEF q
  <2>3. Keeps(r, q)
    BY <1>1, <1>4, <2>1, <2>2
  <2> QED
    BY <2>3 DEF q
<1>7. Keeps(r, [r EXCEPT !.specs.align = v, !.specs.fill = w])
  <2> DEFINE q == [r EXCEPT !.specs.align = v, !.specs.fill = w]
  <2>1. q.specs = [r.specs EXCEPT !.align = v, !.fill = w]
    BY <1>2 DEF Fields
  <2>2. /\ DOMAIN q = Fields /\ q.handler = r.handler /\ q.f = r.f /\ q.next = r.next
        /\ q.width_ref = r.width_ref /\ q.precision_ref = r.precision_ref
        /\ q.made = r.made /\ q.error = r.error /\ q.id = r.id
    BY <1>2 DEF Fields
  <2> HIDE DEF q
  <2>3. Keeps(r, q)
    BY <1>1, <1>4, <2>1, <2>2
  <2> QED
    BY <2>3 DEF q
<1>8. Keeps(r, [r EXCEPT !.specs.align = v])
  BY <1>1, <1>2, <1>3 DEF Fields
<1>9. Keeps(r, [r EXCEPT !.specs.sign = v])
  BY <1>1, <1>2, <1>3 DEF Fields
<1>10. Keeps(r, [r EXCEPT !.specs.alt = v])
  BY <1>1, <1>2, <1>3 DEF Fields
<1>11. Keeps(r, [r EXCEPT !.specs.type = v])
  BY <1>1, <1>2, <1>3 DEF Fields
<1>12. ASSUME NEW what \in {"width", "precision"}, v \in Nat
       PROVE  Keeps(r, [r EXCEPT !.specs[what] = v, !.at = i])
  <2> DEFINE q == [r EXCEPT !.specs[what] = v, !.at = i]
  <2>1. q.specs = [r.specs EXCEPT ![what] = v]
    BY <1>2 DEF Fields
  <2>2. /\ DOMAIN q = Fields /\ q.handler = r.handler /\ q.f = r.f /\ q.next = r.next
        /\ q.width_ref = r.width_ref /\ q.precision_ref = r.precision_ref
        /\ q.made = r.made /\ q.error = r.error /\ q.id = r.id
    BY <1>2 DEF Fields
  <2> HIDE DEF q
  <2>3. GoodSpecs(q.specs)
    BY <1>2, <1>12, <2>1 DEF GoodSpecs
  <2>4. Keeps(r, q)
    BY <1>1, <2>2, <2>3
  <2> QED
    BY <2>4 DEF q
<1> QED
  BY <1>6, <1>7, <1>8, <1>9, <1>10, <1>11, <1>12

\* parse_nonnegative_int reads a number, digit by digit.
LEMMA NumberLemma ==
    ASSUME NEW f, Len(f) \in Nat, NEW i
    PROVE  parse_nonnegative_int(f, i).value \in Nat
<1> DEFINE F(g, m) == [k \in 0 .. m |-> IF k = 0 THEN [at |-> i, value |-> 0] ELSE TakeNumeral(f, g[k - 1])]
           n == Len(f)
           T == {m \in 0 .. n : \E g : g = F(g, m)}
           read == CHOOSE g : g = F(g, n)
           IsNumber(x) == DOMAIN x = {"at", "value"} /\ x.value \in Nat
<1>1. 0 \in T
  <2> DEFINE g == [k \in 0 .. 0 |-> [at |-> i, value |-> 0]]
  <2>1. g = F(g, 0)
    OBVIOUS
  <2>2. \E h : h = F(h, 0)
    BY <2>1
  <2> QED
    BY <2>2
<1>2. ASSUME NEW m \in T, m \in 0 .. n - 1 PROVE m + 1 \in T
  <2>1. PICK g : g = F(g, m)
    OBVIOUS
  <2> DEFINE x == TakeNumeral(f, g[m])
             h == [k \in 0 .. m + 1 |-> IF k \in 0 .. m THEN g[k] ELSE x]
  <2>2. ASSUME NEW k \in 0 .. m + 1
        PROVE  h[k] = IF k = 0 THEN [at |-> i, value |-> 0] ELSE TakeNumeral(f, h[k - 1])
    <3>1. CASE k \in 0 .. m
      <4>1. h[k] = g[k] /\ (k # 0 => k - 1 \in 0 .. m /\ h[k - 1] = g[k - 1])
        BY <3>1
      <4>2. g[k] = IF k = 0 THEN [at |-> i, value |-> 0] ELSE TakeNumeral(f, g[k - 1])
        BY <2>1, <3>1
      <4> QED
        BY <4>1, <4>2
    <3>2. CASE k = m + 1
      <4>1. k - 1 = m /\ k # 0 /\ k \notin 0 .. m /\ m \in 0 .. m /\ m \in 0 .. m + 1
        BY <1>2, <3>2
      <4>2. h[k] = x /\ h[k - 1] = g[m]
        BY <4>1
      <4> HIDE DEF h
      <4> QED
        BY <4>1, <4>2
    <3> QED
      BY <3>1, <3>2
  <2>3. h = F(h, m + 1)
    <3> DEFINE y == F(h, m + 1)
    <3>1. DOMAIN y = 0 .. m + 1 /\ \A k \in 0 .. m + 1 : y[k] = h[k]
      BY <2>2
    <3>2. DOMAIN h = 0 .. m + 1 /\ h = [k \in 0 .. m + 1 |-> h[k]] /\ y = [k \in 0 .. m + 1 |-> y[k]]
      OBVIOUS
    <3> HIDE DEF h, y
    <3>3. h = y
      BY <3>1, <3>2
    <3> QED
      BY <3>3 DEF y
  <2>4. m + 1 \in 0 .. n
    BY <1>2
  <2> QED
    BY <2>3, <2>4
<1>3. 0 .. n \subseteq T
  <2> HIDE DEF T
  <2> QED
    BY <1>1, <1>2, Induction
<1>4. read = F(read, n)
  <2>1. \E g : g = F(g, n)
    BY <1>3
  <2> QED
    BY <2>1
<1> HIDE DEF read
<1>5. ASSUME NEW x, IsNumber(x) PROVE IsNumber(TakeNumeral(f, x))
  <2>1. MaxInt \in Nat
    BY IntBitsAssumption
  <2>2. ASSUME NEW c, IsNumeral(c) PROVE NumeralValue(c) \in Nat
    <3>1. 10 \in Bases
      BY DEF Bases
    <3>2. PICK k \in 1 .. 10 : Numerals.lower[k] = c
      BY <2>2 DEF IsNumeral
    <3>3. k - 1 \in 0 .. 10 - 1 /\ (k - 1) + 1 = k
      OBVIOUS
    <3>4. NumeralValue(Numerals["lower"][(k - 1) + 1]) = k - 1
      BY <3>1, <3>3, NumeralLemma
    <3> QED
      BY <3>2, <3>3, <3>4
  <2>3. CASE x.at > Len(f) \/ ~IsNumeral(f[x.at])
    BY <1>5, <2>3 DEF TakeNumeral
  <2>4. CASE ~(x.at > Len(f) \/ ~IsNumeral(f[x.at])) /\ x.value > MaxInt \div 10
    <3>1. TakeNumeral(f, x) = [x EXCEPT !.value = MaxInt + 1]
      BY <2>4 DEF TakeNumeral
    <3> QED
      BY <1>5, <2>1, <3>1
  <2>5. CASE ~(x.at > Len(f) \/ ~IsNumeral(f[x.at])) /\ ~(x.value > MaxInt \div 10)
    <3>1. TakeNumeral(f, x) = [at |-> x.at + 1, value |-> x.value * 10 + NumeralValue(f[x.at])]
      BY <2>5 DEF TakeNumeral
    <3>2. NumeralValue(f[x.at]) \in Nat /\ x.value \in Nat
      BY <1>5, <2>2, <2>5
    <3> QED
      BY <3>1, <3>2
  <2> QED
    BY <2>3, <2>4, <2>5
<1>6. \A k \in 0 .. n : IsNumber(read[k])
  <2> DEFINE U == {k \in 0 .. n : IsNumber(read[k])}
  <2>1. 0 \in U
    BY <1>4
  <2>2. ASSUME NEW k \in U, k \in 0 .. n - 1 PROVE k + 1 \in U
    <3>1. k + 1 \in 0 .. n /\ (k + 1) - 1 = k /\ k + 1 # 0
      BY <2>2
    <3>2. read[k + 1] = TakeNumeral(f, read[k])
      BY <1>4, <3>1
    <3> HIDE DEF IsNumber
    <3> QED
      BY <1>5, <3>1, <3>2
  <2>3. 0 .. n \subseteq U
    <3> HIDE DEF U
    <3> QED
      BY <2>1, <2>2, Induction
  <2> QED
    BY <2>3
<1>7. parse_nonnegative_int(f, i).value = read[n].value
  BY DEF parse_nonnegative_int, read
<1> QED
  BY <1>6, <1>7

\* The prover of arithmetic cannot read what is thrown either; it is not
\* empty.
Thrown(r, q) == \E why : why # "" /\ q = Throw(r, why)

LEMMA ThrownKeeps ==
    ASSUME NEW r, Sane(r), NEW q, Thrown(r, q)
    PROVE  Keeps(r, q) /\ q.error # ""
  BY ThrowKeeps DEF Thrown

\* Once the argument is resolved, the field knows it.
LEMMA ResolveKeeps ==
    ASSUME NEW r, Sane(r), NEW id, GoodId(id) \/ id = AutoId
    PROVE  Keeps(r, ResolveId(r, id)) /\ Known(ResolveId(r, id))
<1> DEFINE q == ResolveId(r, id)
<1>1. r.next \in Int /\ DOMAIN r = Fields
  BY DEF Sane
<1>2. (r.next >= 0 <=> ~(r.next < 0)) /\ (r.next > 0 <=> ~(r.next <= 0))
  BY <1>1
<1>4. ASSUME NEW p, DOMAIN p = Fields, p.handler = r.handler, p.f = r.f, p.next \in Int,
             p.specs = r.specs, p.width_ref = r.width_ref, p.precision_ref = r.precision_ref,
             p.made = r.made, p.error = r.error, GoodId(p.id)
      PROVE  Keeps(r, p) /\ Known(p)
  BY <1>4 DEF Sane, Known, Keeps
<1> SUFFICES Keeps(r, q) /\ Known(q)
  OBVIOUS
<1> HIDE DEF q
<1>5. CASE id = AutoId
  <2>1. id.by = "auto"
    BY <1>5 DEF AutoId
  <2>2. CASE r.next >= 0
    <3>1. q = [r EXCEPT !.id = IndexId(r.next), !.next = @ + 1]
      BY <1>2, <2>1, <2>2, Zenon DEF ResolveId, q
    <3>2. GoodId(IndexId(r.next))
      BY <1>1, <2>2 DEF GoodId, IndexId
    <3>3. /\ DOMAIN q = Fields /\ q.handler = r.handler /\ q.f = r.f /\ q.next = r.next + 1
          /\ q.specs = r.specs /\ q.width_ref = r.width_ref /\ q.precision_ref = r.precision_ref
          /\ q.made = r.made /\ q.error = r.error /\ q.id = IndexId(r.next)
      BY <1>1, <3>1 DEF Fields
    <3> QED
      BY <1>1, <1>4, <3>2, <3>3
  <2>3. CASE r.next < 0
    <3>1. q = Throw(r, "cannot switch from manual to automatic argument indexing")
      BY <1>2, <2>1, <2>3, Zenon DEF ResolveId, q
    <3>2. "cannot switch from manual to automatic argument indexing" # ""
      BY Zenon
    <3>3. Thrown(r, q)
      BY <3>1, <3>2, Zenon DEF Thrown
    <3> QED
      BY <3>3, ThrownKeeps DEF Keeps, Known
  <2> QED
    BY <1>2, <2>2, <2>3
<1>6. CASE id.by = "index" /\ GoodId(id)
  <2>1. CASE r.next > 0
    <3>1. q = Throw(r, "cannot switch from automatic to manual argument indexing")
      BY <1>2, <1>6, <2>1, Zenon DEF ResolveId, q
    <3>2. "cannot switch from automatic to manual argument indexing" # ""
      BY Zenon
    <3>3. Thrown(r, q)
      BY <3>1, <3>2, Zenon DEF Thrown
    <3> QED
      BY <3>3, ThrownKeeps DEF Keeps, Known
  <2>2. CASE r.next <= 0
    <3>0. ~(r.next > 0)
      BY <1>1, <2>2
    <3>1. q = [r EXCEPT !.id = id, !.next = -1]
      BY <1>6, <2>2, <3>0, Zenon DEF ResolveId, q
    <3>2. /\ DOMAIN q = Fields /\ q.handler = r.handler /\ q.f = r.f /\ q.next = -1
          /\ q.specs = r.specs /\ q.width_ref = r.width_ref /\ q.precision_ref = r.precision_ref
          /\ q.made = r.made /\ q.error = r.error /\ q.id = id
      BY <1>1, <3>1 DEF Fields
    <3> QED
      BY <1>4, <1>6, <3>2
  <2> QED
    BY <1>1, <2>1, <2>2
<1>7. CASE id.by = "name"
  <2>1. q = [r EXCEPT !.id = id]
    BY <1>7, Zenon DEF ResolveId, q
  <2> QED
    BY <1>1, <1>4, <1>7, <2>1 DEF Fields, GoodId
<1> QED
  BY <1>5, <1>6, <1>7 DEF GoodId

LEMMA ArgIdKeeps ==
    ASSUME NEW r, Sane(r), NEW id, GoodId(id) \/ id = AutoId
    PROVE  Keeps(r, on_arg_id(r, id)) /\ Known(on_arg_id(r, id))
<1>1. r.handler = "compile"
  BY DEF Sane
<1>2. \A q : q.handler = "compile" => WithinArgs(q) = q /\ LookedUp(q) = q
  BY Zenon DEF WithinArgs, LookedUp
<1>3. on_arg_id(r, id) = LookedUp(WithinArgs(ResolveId(r, id)))
  BY <1>1, Zenon DEF on_arg_id
<1>4. Keeps(r, ResolveId(r, id)) /\ Known(ResolveId(r, id))
  BY ResolveKeeps
<1>5. ResolveId(r, id).handler = "compile"
  BY <1>4 DEF Keeps, Sane
<1> QED
  BY <1>2, <1>3, <1>4, <1>5

\* An argument that gives a width or a precision leaves the field its own.
LEMMA DynamicKeeps ==
    ASSUME NEW r, Sane(r), NEW what \in {"width", "precision"}, NEW id, GoodId(id) \/ id = AutoId
    PROVE  Keeps(r, on_dynamic(r, what, id))
<1> DEFINE known == ResolveId(r, id)
           q == on_dynamic(r, what, id)
<1>1. Sane(known) /\ Known(known) /\ (known.error = "" => r.error = "")
  BY ResolveKeeps DEF Keeps
<1> HIDE DEF known
<1>2. known.handler = "compile" /\ DOMAIN known = Fields
  BY <1>1 DEF Sane
<1>3. WithinArgs(known) = known
  BY <1>2, Zenon DEF WithinArgs
<1>4. q = GiveSpec(known, what, r.id)
  BY <1>3 DEF on_dynamic, known
<1> SUFFICES Keeps(r, q)
  OBVIOUS
<1> HIDE DEF q
<1>5. CASE known.error # ""
  <2>1. q = known
    BY <1>2, <1>4, <1>5, Zenon DEF GiveSpec
  <2> QED
    BY <1>1, <1>5, <2>1 DEF Keeps, Known
<1>6. CASE known.error = "" /\ what = "width"
  <2>1. q = [known EXCEPT !.width_ref = known.id, !.id = r.id]
    BY <1>2, <1>4, <1>6, Zenon DEF GiveSpec
  <2>2. GoodId(known.id)
    BY <1>1, <1>6 DEF Known
  <2>3. /\ DOMAIN q = Fields /\ q.handler = known.handler /\ q.f = known.f /\ q.next = known.next
        /\ q.specs = known.specs /\ q.width_ref = known.id /\ q.precision_ref = known.precision_ref
        /\ q.made = known.made /\ q.error = "" /\ q.id = r.id
    BY <1>2, <1>6, <2>1 DEF Fields
  <2>4. Sane(q)
    BY <1>1, <2>2, <2>3 DEF Sane, GoodRef
  <2> QED
    BY <1>1, <1>6, <2>3, <2>4 DEF Keeps, Known
<1>7. CASE known.error = "" /\ what = "precision"
  <2>1. q = [known EXCEPT !.precision_ref = known.id, !.id = r.id]
    BY <1>2, <1>4, <1>7, Zenon DEF GiveSpec
  <2>2. GoodId(known.id)
    BY <1>1, <1>7 DEF Known
  <2>3. /\ DOMAIN q = Fields /\ q.handler = known.handler /\ q.f = known.f /\ q.next = known.next
        /\ q.specs = known.specs /\ q.precision_ref = known.id /\ q.width_ref = known.width_ref
        /\ q.made = known.made /\ q.error = "" /\ q.id = r.id
    BY <1>2, <1>7, <2>1 DEF Fields
  <2>4. Sane(q)
    BY <1>1, <2>2, <2>3 DEF Sane, GoodRef
  <2> QED
    BY <1>1, <1>7, <2>3, <2>4 DEF Keeps, Known
<1> QED
  BY <1>5, <1>6, <1>7

\* parse_arg_id: for a field, or for its width or precision.
LEMMA TakeKeeps ==
    ASSUME NEW r, Sane(r), NEW what \in {"field", "width", "precision"}, NEW id, GoodId(id) \/ id = AutoId
    PROVE  /\ Keeps(r, TakeId(r, what, id))
           /\ what = "field" => Known(TakeId(r, what, id))
<1>1. CASE r.error # ""
  <2>1. TakeId(r, what, id) = r
    BY <1>1, Zenon DEF TakeId
  <2> QED
    BY <1>1, <2>1, KeepsSame DEF Known
<1>2. CASE r.error = "" /\ what = "field"
  <2>1. TakeId(r, what, id) = on_arg_id(r, id)
    BY <1>2, Zenon DEF TakeId
  <2> QED
    BY <1>2, <2>1, ArgIdKeeps
<1>3. CASE r.error = "" /\ what # "field"
  <2>1. TakeId(r, what, id) = on_dynamic(r, what, id)
    BY <1>3, Zenon DEF TakeId
  <2> QED
    BY <1>3, <2>1, DynamicKeeps
<1> QED
  BY <1>1, <1>2, <1>3

LEMMA EndOfIndexKeeps == ASSUME NEW r, Sane(r) PROVE Keeps(r, EndOfIndex(r))
<1>1. EndOfIndex(r) = r \/ \E why : EndOfIndex(r) = Throw(r, why)
  BY Zenon DEF EndOfIndex
<1> QED
  BY <1>1, KeepsSame, ThrowKeeps

LEMMA ParseIdKeeps ==
    ASSUME NEW r, Sane(r), NEW what \in {"field", "width", "precision"}
    PROVE  /\ Keeps(r, parse_arg_id(r, what))
           /\ what = "field" => Known(parse_arg_id(r, what))
<1> DEFINE number == IF Here(r) = "0" THEN [at |-> r.at + 1, value |-> 0, error |-> ""]
                     ELSE parse_nonnegative_int(r.f, r.at)
           end == CHOOSE e \in r.at .. Len(r.f) + 1 :
                      /\ e = Len(r.f) + 1 \/ ~NameRest(r.f[e])
                      /\ \A i \in r.at .. e - 1 : NameRest(r.f[i])
           id == CASE Here(r) \in {"}", ":"} -> AutoId
                   [] IsNumeral(Here(r)) -> IndexId(number.value)
                   [] OTHER -> NameId(SubSeq(r.f, r.at, end - 1))
           after == CASE Here(r) \in {"}", ":"} -> r
                      [] IsNumeral(Here(r)) -> EndOfIndex(Throw([r EXCEPT !.at = number.at], number.error))
                      [] Here(r) \in NameStart -> [r EXCEPT !.at = end]
                      [] OTHER -> Throw(r, "invalid format string")
<1>1. number.value \in Nat
  <2>1. Len(r.f) \in Nat
    BY DEF Sane
  <2>2. parse_nonnegative_int(r.f, r.at).value \in Nat
    BY <2>1, NumberLemma
  <2> QED
    BY <2>2
<1>2. parse_arg_id(r, what) = TakeId(after, what, id)
  BY Zenon DEF parse_arg_id
<1> HIDE DEF number, end
<1>3. id \in {AutoId, IndexId(number.value), NameId(SubSeq(r.f, r.at, end - 1))}
  BY Zenon
<1>4. after \in {r, EndOfIndex(Throw([r EXCEPT !.at = number.at], number.error)),
                [r EXCEPT !.at = end], Throw(r, "invalid format string")}
  BY Zenon
<1> HIDE DEF id, after
<1>5. GoodId(id) \/ id = AutoId
  BY <1>1, <1>3 DEF GoodId, IndexId, NameId
<1>6. Keeps(r, after)
  <2>1. Keeps(r, EndOfIndex(Throw([r EXCEPT !.at = number.at], number.error)))
    <3> DEFINE a == [r EXCEPT !.at = number.at]
               b == Throw(a, number.error)
    <3>1. Keeps(r, a)
      BY PlaceKeeps
    <3> HIDE DEF a
    <3>2. Sane(a) /\ Keeps(a, b)
      BY <3>1, ThrowKeeps DEF Keeps
    <3> HIDE DEF b
    <3>3. Keeps(b, EndOfIndex(b))
      BY <3>2, EndOfIndexKeeps DEF Keeps
    <3>4. Keeps(r, EndOfIndex(b))
      BY <3>1, <3>2, <3>3, KeepsOn
    <3> QED
      BY <3>4 DEF b, a
  <2>2. Keeps(r, [r EXCEPT !.at = end])
    BY PlaceKeeps
  <2>3. Keeps(r, Throw(r, "invalid format string"))
    BY ThrowKeeps, Zenon
  <2> QED
    BY <1>4, <2>1, <2>2, <2>3, KeepsSame, Zenon
<1>7. Sane(after)
  BY <1>6 DEF Keeps
<1>8. Keeps(after, TakeId(after, what, id)) /\ (what = "field" => Known(TakeId(after, what, id)))
  BY <1>5, <1>7, TakeKeeps
<1> QED
  BY <1>2, <1>6, <1>8, KeepsOn

-----------------------------------------------------------------------------
(* The specifications of a field.                                          *)

LEMMA AlignKeeps == ASSUME NEW r, Sane(r) PROVE Keeps(r, parse_align(r))
<1> DEFINE Filled(c, a) == [r EXCEPT !.specs.fill = c, !.specs.align = a, !.at = @ + 2]
           Aligned(a) == [Skip(r) EXCEPT !.specs.align = a]
<1>1. \/ \E why : parse_align(r) = Throw(r, why)
      \/ \E c, a : parse_align(r) = Filled(c, a)
      \/ \E a : parse_align(r) = Aligned(a)
      \/ parse_align(r) = r
  BY Zenon DEF parse_align
<1>2. Keeps(r, Skip(r)) /\ Sane(Skip(r))
  BY SkipKeeps DEF Keeps
<1>3. \A a : Keeps(r, Aligned(a))
  BY <1>2, SpecsKeep, KeepsOn
<1>4. \A c, a : Keeps(r, Filled(c, a))
  BY SpecsKeep
<1> HIDE DEF Filled, Aligned
<1> QED
  BY <1>1, <1>3, <1>4, KeepsSame, ThrowKeeps

\* Only format() and the checker know the type of the argument.
LEMMA CheckedSame == ASSUME NEW r, r.handler = "compile", NEW rule PROVE Checked(r, rule) = r
  BY Zenon DEF Checked

LEMMA SignKeeps == ASSUME NEW r, Sane(r) PROVE Keeps(r, parse_sign(r))
<1>1. Checked(r, "sign") = r
  BY CheckedSame DEF Sane
<1>2. parse_sign(r) = r \/ \E a : parse_sign(r) = [Skip(r) EXCEPT !.specs.sign = a]
  BY <1>1, Zenon DEF parse_sign, Unless
<1>3. Keeps(r, Skip(r)) /\ Sane(Skip(r))
  BY SkipKeeps DEF Keeps
<1>4. \A a : Keeps(r, [Skip(r) EXCEPT !.specs.sign = a])
  BY <1>3, SpecsKeep, KeepsOn
<1> QED
  BY <1>2, <1>4, KeepsSame

LEMMA HashKeeps == ASSUME NEW r, Sane(r) PROVE Keeps(r, parse_hash(r))
<1>1. Checked(r, "numeric") = r
  BY CheckedSame DEF Sane
<1>2. parse_hash(r) = r \/ parse_hash(r) = [Skip(r) EXCEPT !.specs.alt = "alt"]
  BY <1>1, Zenon DEF parse_hash, Unless
<1>3. Keeps(r, Skip(r)) /\ Sane(Skip(r))
  BY SkipKeeps DEF Keeps
<1>4. Keeps(r, [Skip(r) EXCEPT !.specs.alt = "alt"])
  BY <1>3, SpecsKeep, KeepsOn
<1> QED
  BY <1>2, <1>4, KeepsSame

LEMMA ZeroKeeps == ASSUME NEW r, Sane(r) PROVE Keeps(r, parse_zero(r))
<1>1. Checked(r, "numeric") = r
  BY CheckedSame DEF Sane
<1>2. parse_zero(r) = r \/ parse_zero(r) = [Skip(r) EXCEPT !.specs.align = "numeric", !.specs.fill = "0"]
  BY <1>1, Zenon DEF parse_zero, Unless
<1>3. Keeps(r, Skip(r)) /\ Sane(Skip(r))
  BY SkipKeeps DEF Keeps
<1>4. Keeps(r, [Skip(r) EXCEPT !.specs.align = "numeric", !.specs.fill = "0"])
  BY <1>3, SpecsKeep, KeepsOn
<1> QED
  BY <1>2, <1>4, KeepsSame

LEMMA CloseKeeps == ASSUME NEW r, Sane(r), NEW why PROVE Keeps(r, CloseBrace(r, why))
<1>1. CloseBrace(r, why) = r \/ CloseBrace(r, why) = Skip(r) \/ CloseBrace(r, why) = Throw(r, why)
  BY Zenon DEF CloseBrace, Unless
<1> QED
  BY <1>1, KeepsSame, SkipKeeps, ThrowKeeps

LEMMA BracedKeeps ==
    ASSUME NEW r, Sane(r), NEW what \in {"width", "precision"}
    PROVE  Keeps(r, Braced(r, what))
<1> DEFINE inner == IF AtEnd(Skip(r)) THEN Skip(r) ELSE parse_arg_id(Skip(r), what)
<1>1. \E why : Braced(r, what) = CloseBrace(inner, why)
  BY Zenon DEF Braced
<1>2. Keeps(r, Skip(r)) /\ Sane(Skip(r))
  BY SkipKeeps DEF Keeps
<1>3. Keeps(r, inner)
  BY <1>2, ParseIdKeeps, KeepsOn
<1> HIDE DEF inner
<1>4. Sane(inner)
  BY <1>3 DEF Keeps
<1> QED
  BY <1>1, <1>3, <1>4, CloseKeeps, KeepsOn

LEMMA NumberKeeps ==
    ASSUME NEW r, Sane(r), NEW what \in {"width", "precision"}
    PROVE  Keeps(r, Number(r, what))
<1> DEFINE number == parse_nonnegative_int(r.f, r.at)
           q == [r EXCEPT !.specs[what] = number.value, !.at = number.at]
<1>1. number.value \in Nat
  <2>1. Len(r.f) \in Nat
    BY DEF Sane
  <2> QED
    BY <2>1, NumberLemma
<1>2. Number(r, what) = Throw(q, number.error)
  BY DEF Number
<1> HIDE DEF number
<1>3. Keeps(r, q)
  BY <1>1, SpecsKeep
<1> HIDE DEF q
<1>4. Keeps(q, Throw(q, number.error))
  BY <1>3, ThrowKeeps DEF Keeps
<1> QED
  BY <1>2, <1>3, <1>4, KeepsOn

LEMMA WidthKeeps == ASSUME NEW r, Sane(r) PROVE Keeps(r, parse_width(r))
<1>1. parse_width(r) \in {r, Number(r, "width"), Braced(r, "width")}
  BY Zenon DEF parse_width
<1> QED
  BY <1>1, KeepsSame, NumberKeeps, BracedKeeps

LEMMA PrecisionKeeps == ASSUME NEW r, Sane(r) PROVE Keeps(r, parse_precision(r))
<1> DEFINE s == Skip(r)
           reply == CASE IsNumeral(Here(s)) -> Number(s, "precision")
                      [] Here(s) = "{" -> Braced(s, "precision")
                      [] OTHER -> Throw(s, "missing precision specifier")
<1>1. Keeps(r, s) /\ Sane(s)
  BY SkipKeeps DEF Keeps
<1>2. reply \in {Number(s, "precision"), Braced(s, "precision")} \/ \E why : reply = Throw(s, why)
  BY Zenon
<1>3. parse_precision(r) \in {r, Checked(reply, "precision")}
  BY Zenon DEF parse_precision
<1> HIDE DEF reply, s
<1>4. Keeps(s, reply)
  BY <1>1, <1>2, NumberKeeps, BracedKeeps, ThrowKeeps
<1>5. Checked(reply, "precision") = reply
  BY <1>4, CheckedSame DEF Keeps, Sane
<1> QED
  BY <1>1, <1>3, <1>4, <1>5, KeepsSame, KeepsOn

LEMMA TypeKeeps == ASSUME NEW r, Sane(r) PROVE Keeps(r, parse_type(r))
<1>1. parse_type(r) = r \/ \E c : parse_type(r) = [Skip(r) EXCEPT !.specs.type = c]
  BY Zenon DEF parse_type, Unless
<1>2. Keeps(r, Skip(r)) /\ Sane(Skip(r))
  BY SkipKeeps DEF Keeps
<1>3. \A c : Keeps(r, [Skip(r) EXCEPT !.specs.type = c])
  BY <1>2, SpecsKeep, KeepsOn
<1> QED
  BY <1>1, <1>3, KeepsSame

LEMMA SpecsParsed == ASSUME NEW r, Sane(r) PROVE Keeps(r, parse_format_specs(r))
<1> DEFINE a == parse_align(r)
           b == parse_sign(a)
           c == parse_hash(b)
           d == parse_zero(c)
           e == parse_width(d)
           g == parse_precision(e)
<1>1. parse_format_specs(r) \in {r, parse_type(g)}
  BY Zenon DEF parse_format_specs
<1>2. Keeps(r, a)
  BY AlignKeeps
<1> HIDE DEF a
<1>3. Keeps(r, b)
  BY <1>2, SignKeeps, KeepsOn DEF Keeps
<1> HIDE DEF b
<1>4. Keeps(r, c)
  BY <1>3, HashKeeps, KeepsOn DEF Keeps
<1> HIDE DEF c
<1>5. Keeps(r, d)
  BY <1>4, ZeroKeeps, KeepsOn DEF Keeps
<1> HIDE DEF d
<1>6. Keeps(r, e)
  BY <1>5, WidthKeeps, KeepsOn DEF Keeps
<1> HIDE DEF e
<1>7. Keeps(r, g)
  BY <1>6, PrecisionKeeps, KeepsOn DEF Keeps
<1> HIDE DEF g
<1>8. Keeps(r, parse_type(g))
  BY <1>7, TypeKeeps, KeepsOn DEF Keeps
<1> QED
  BY <1>1, <1>8, KeepsSame

-----------------------------------------------------------------------------
(* Parts, fields and the whole string.                                     *)

LEMMA PartsGrow ==
    ASSUME NEW parts, GoodParts(parts), NEW part, GoodPart(part)
    PROVE  GoodParts(Append(parts, part)) /\ GoodParts(parts \o <<part>>) /\ GoodParts(parts \o <<>>)
<1>1. PICK S : parts \in Seq(S) /\ \A p \in S : GoodPart(p)
  BY DEF GoodParts
<1> DEFINE T == S \cup {part}
<1>2. parts \in Seq(T) /\ part \in T /\ \A p \in T : GoodPart(p)
  BY <1>1, SeqMonotonic
<1> HIDE DEF T
<1>3. Append(parts, part) \in Seq(T) /\ parts \o <<part>> = Append(parts, part) /\ parts \o <<>> = parts
  BY <1>2, AppendProperties, AppendIsConcat, ConcatEmptySeq
<1> QED
  BY <1>2, <1>3 DEF GoodParts

LEMMA MadeKeeps ==
    ASSUME NEW r, Sane(r), NEW parts, GoodParts(parts)
    PROVE  Keeps(r, [r EXCEPT !.made = parts])
  BY DEF Keeps, Sane, Known, Fields

LEMMA TextKeeps == ASSUME NEW r, Sane(r), NEW i, NEW j PROVE Keeps(r, on_text(r, i, j))
<1> DEFINE text == SubSeq(r.f, i, j)
           q(made) == [r EXCEPT !.made = @ \o made]
<1>1. r.handler = "compile" /\ DOMAIN r = Fields /\ GoodParts(r.made)
  BY DEF Sane
<1>2. on_text(r, i, j) \in {r, q(<<TextPart(text)>>), q(<<>>)}
  BY <1>1, Zenon DEF on_text, Unless
<1> HIDE DEF text
<1>3. GoodPart(TextPart(text))
  BY DEF GoodPart, TextPart
<1>4. Keeps(r, q(<<TextPart(text)>>)) /\ Keeps(r, q(<<>>))
  BY <1>1, <1>3, PartsGrow, MadeKeeps
<1> QED
  BY <1>2, <1>4, KeepsSame

LEMMA FieldGood == ASSUME NEW r, Sane(r), Known(r), r.error = "" PROVE GoodPart(FieldPart(r))
  BY DEF Sane, Known, GoodPart, FieldPart

LEMMA FieldMade ==
    ASSUME NEW r, Sane(r), Known(r), r.error = ""
    PROVE  Keeps(r, [r EXCEPT !.made = Append(@, FieldPart(r))])
<1>1. GoodPart(FieldPart(r)) /\ GoodParts(r.made)
  BY FieldGood DEF Sane
<1>2. GoodParts(Append(r.made, FieldPart(r)))
  BY <1>1, PartsGrow
<1> QED
  BY <1>2, MadeKeeps

LEMMA EndSpecsKeep == ASSUME NEW r, Sane(r), Known(r) PROVE Keeps(r, EndSpecs(r))
<1> DEFINE closed == IF Here(r) = "}" THEN r ELSE Throw(r, "missing '}' in format string")
<1>1. r.handler = "compile"
  BY DEF Sane
<1>2. EndSpecs(r) = Unless(closed, [closed EXCEPT !.made = Append(@, FieldPart(closed))])
  BY <1>1, Zenon DEF EndSpecs
<1>3. closed = r \/ \E why : closed = Throw(r, why)
  BY Zenon
<1> HIDE DEF closed
<1>4. Keeps(r, closed)
  BY <1>3, KeepsSame, ThrowKeeps
<1>5. Sane(closed) /\ Known(closed)
  BY <1>4 DEF Keeps
<1>6. CASE closed.error # ""
  BY <1>2, <1>4, <1>6 DEF Unless
<1>7. CASE closed.error = ""
  <2>1. EndSpecs(r) = [closed EXCEPT !.made = Append(@, FieldPart(closed))]
    BY <1>2, <1>7 DEF Unless
  <2>2. Keeps(closed, EndSpecs(r))
    BY <1>5, <1>7, <2>1, FieldMade
  <2> QED
    BY <1>4, <2>2, KeepsOn
<1> QED
  BY <1>6, <1>7

LEMMA FormatSpecsKeep == ASSUME NEW r, Sane(r), Known(r) PROVE Keeps(r, on_format_specs(r))
<1> DEFINE a == [r EXCEPT !.specs = Specs]
           b == parse_format_specs(a)
<1>1. on_format_specs(r) = EndSpecs(b)
  <2>1. r.handler = "compile"
    BY DEF Sane
  <2> QED
    BY <2>1, Zenon DEF on_format_specs
<1>2. Keeps(r, a)
  <2>1. GoodSpecs(Specs)
    <3>1. \A c : DOMAIN [width |-> 0, precision |-> -1, type |-> "", align |-> "none",
                          sign |-> "none", alt |-> "", fill |-> c] =
                 {"width", "precision", "type", "align", "sign", "alt", "fill"}
      OBVIOUS
    <3> QED
      BY <3>1 DEF GoodSpecs, Specs
  <2> QED
    BY <2>1 DEF Keeps, Sane, Known, Fields
<1> HIDE DEF a
<1>3. Keeps(r, b)
  BY <1>2, SpecsParsed, KeepsOn DEF Keeps
<1> HIDE DEF b
<1>4. Sane(b) /\ Known(b)
  BY <1>3 DEF Keeps
<1> QED
  BY <1>1, <1>3, <1>4, EndSpecsKeep, KeepsOn

LEMMA ReplacementKeeps ==
    ASSUME NEW r, Sane(r), Known(r), r.error = ""
    PROVE  Keeps(r, on_replacement_field(r))
<1>1. r.handler = "compile"
  BY DEF Sane
<1>2. on_replacement_field(r) = [r EXCEPT !.made = Append(@, FieldPart(r))]
  BY <1>1, Zenon DEF on_replacement_field
<1> QED
  BY <1>2, FieldMade

LEMMA AfterIdKeeps == ASSUME NEW r, Sane(r), Known(r) PROVE Keeps(r, AfterId(r))
<1>1. CASE r.error # ""
  <2>1. AfterId(r) = r
    BY <1>1, Zenon DEF AfterId
  <2> QED
    BY <2>1, KeepsSame
<1>2. CASE r.error = ""
  <2>1. \/ AfterId(r) = Skip(on_replacement_field(r))
        \/ \E why : AfterId(r) = CloseBrace(on_format_specs(Skip(r)), why)
        \/ \E why : AfterId(r) = Throw(r, why)
    BY <1>2, Zenon DEF AfterId
  <2>2. Keeps(r, Skip(on_replacement_field(r)))
    <3>1. Keeps(r, on_replacement_field(r))
      BY <1>2, ReplacementKeeps
    <3>2. Sane(on_replacement_field(r))
      BY <3>1 DEF Keeps
    <3> QED
      BY <3>1, <3>2, SkipKeeps, KeepsOn
  <2>3. ASSUME NEW why PROVE Keeps(r, CloseBrace(on_format_specs(Skip(r)), why))
    <3>1. Keeps(r, Skip(r)) /\ Sane(Skip(r)) /\ Known(Skip(r))
      BY SkipKeeps DEF Keeps
    <3>2. Keeps(r, on_format_specs(Skip(r)))
      BY <3>1, FormatSpecsKeep, KeepsOn
    <3>3. Sane(on_format_specs(Skip(r)))
      BY <3>2 DEF Keeps
    <3> QED
      BY <3>2, <3>3, CloseKeeps, KeepsOn
  <2>4. \A why : Keeps(r, Throw(r, why))
    BY ThrowKeeps
  <2> QED
    BY <2>1, <2>2, <2>3, <2>4
<1> QED
  BY <1>1, <1>2

\* The next round of the parser; it forgets the argument of the field.
LEMMA FieldKeeps == ASSUME NEW r, Sane(r) PROVE Sane(parse_replacement_field(r))
<1> DEFINE open == [Skip(r) EXCEPT !.specs = Specs, !.width_ref = [by |-> "none"], !.precision_ref = [by |-> "none"]]
           found == IF Here(open) = "}" THEN on_arg_id(open, AutoId) ELSE parse_arg_id(open, "field")
<1>1. parse_replacement_field(r) \in
          {r, Throw(open, "invalid format string"), Skip(on_text(open, open.at, open.at)), AfterId(found)}
  BY Zenon DEF parse_replacement_field
<1>2. Sane(open)
  <2> DEFINE s == Skip(r)
             w == [by |-> "none"]
  <2>1. GoodSpecs(Specs) /\ GoodRef(w)
    <3>1. \A c : DOMAIN [width |-> 0, precision |-> -1, type |-> "", align |-> "none",
                          sign |-> "none", alt |-> "", fill |-> c] =
                 {"width", "precision", "type", "align", "sign", "alt", "fill"}
      OBVIOUS
    <3> QED
      BY <3>1 DEF GoodSpecs, Specs, GoodRef
  <2>2. Sane(s)
    BY SkipKeeps DEF Keeps
  <2> HIDE DEF s, w
  <2>3. Sane([s EXCEPT !.specs = Specs, !.width_ref = w, !.precision_ref = w])
    BY <2>1, <2>2 DEF Sane, Fields
  <2> QED
    BY <2>3 DEF s, w
<1> HIDE DEF open
<1>3. Sane(found) /\ Known(found)
  <2>1. found \in {on_arg_id(open, AutoId), parse_arg_id(open, "field")}
    BY Zenon
  <2>2. Sane(on_arg_id(open, AutoId)) /\ Known(on_arg_id(open, AutoId))
    BY <1>2, ArgIdKeeps DEF Keeps
  <2>3. Sane(parse_arg_id(open, "field")) /\ Known(parse_arg_id(open, "field"))
    BY <1>2, ParseIdKeeps DEF Keeps
  <2> HIDE DEF found
  <2> QED
    BY <2>1, <2>2, <2>3
<1> HIDE DEF found
<1>4. Sane(AfterId(found))
  BY <1>3, AfterIdKeeps DEF Keeps
<1>5. Sane(Throw(open, "invalid format string"))
  <2>1. \A why : Sane(Throw(open, why))
    BY <1>2, ThrowKeeps DEF Keeps
  <2> QED
    BY <2>1, Zenon
<1>6. Sane(Skip(on_text(open, open.at, open.at)))
  BY <1>2, TextKeeps, SkipKeeps DEF Keeps
<1> QED
  BY <1>1, <1>4, <1>5, <1>6, Zenon

LEMMA StepKeeps == ASSUME NEW r, Sane(r) PROVE Sane(ShortStep(r))
<1>1. ShortStep(r) \in {r, Skip(r), AfterField(parse_replacement_field(Pending(r, r.at - 1))),
                        TextFrom(Pending(r, r.at), r.at + 2), Throw(r, "unmatched '}' in format string")}
  BY Zenon DEF ShortStep
<1>2. \A i : Sane(Pending(r, i))
  BY TextKeeps DEF Pending, Keeps
<1>3. \A q, i : Sane(q) => Sane(TextFrom(q, i))
  BY PlaceKeeps DEF TextFrom, Keeps
<1>4. Sane(AfterField(parse_replacement_field(Pending(r, r.at - 1))))
  BY <1>2, <1>3, FieldKeeps DEF AfterField
<1>5. Sane(Skip(r)) /\ \A why : Sane(Throw(r, why))
  BY SkipKeeps, ThrowKeeps DEF Keeps
<1>6. Sane(TextFrom(Pending(r, r.at), r.at + 2))
  BY <1>2, <1>3
<1> QED
  BY <1>1, <1>4, <1>5, <1>6, Zenon

\* The loop: whatever the string is, each of its rounds finds a sane reader.
LEMMA LoopKeeps == ASSUME NEW r, Sane(r) PROVE Sane(ShortLoop(r))
<1> DEFINE F(g, m) == [i \in 0 .. m |-> IF i = 0 THEN r ELSE ShortStep(g[i - 1])]
           n == Len(r.f)
           T == {m \in 0 .. n : \E g : g = F(g, m)}
           step == CHOOSE g : g = F(g, n)
<1>0. n \in Nat
  BY DEF Sane
<1>1. 0 \in T
  <2> DEFINE g == [i \in 0 .. 0 |-> r]
  <2>1. g = F(g, 0)
    OBVIOUS
  <2>2. \E h : h = F(h, 0)
    BY <2>1
  <2> QED
    BY <1>0, <2>2
<1>2. ASSUME NEW m \in T, m \in 0 .. n - 1 PROVE m + 1 \in T
  <2>1. PICK g : g = F(g, m)
    OBVIOUS
  <2> DEFINE x == ShortStep(g[m])
             h == [i \in 0 .. m + 1 |-> IF i \in 0 .. m THEN g[i] ELSE x]
  <2>2. ASSUME NEW i \in 0 .. m + 1 PROVE h[i] = IF i = 0 THEN r ELSE ShortStep(h[i - 1])
    <3>1. CASE i \in 0 .. m
      <4>1. h[i] = g[i] /\ (i # 0 => i - 1 \in 0 .. m /\ h[i - 1] = g[i - 1])
        BY <3>1
      <4>2. g[i] = IF i = 0 THEN r ELSE ShortStep(g[i - 1])
        BY <2>1, <3>1
      <4> QED
        BY <4>1, <4>2
    <3>2. CASE i = m + 1
      <4>1. i - 1 = m /\ i # 0 /\ i \notin 0 .. m /\ m \in 0 .. m /\ m \in 0 .. m + 1
        BY <1>0, <1>2, <3>2
      <4>2. h[i] = x /\ h[i - 1] = g[m]
        BY <4>1
      <4> HIDE DEF h
      <4> QED
        BY <4>1, <4>2
    <3> QED
      BY <3>1, <3>2
  <2>3. h = F(h, m + 1)
    <3> DEFINE y == F(h, m + 1)
    <3>1. DOMAIN y = 0 .. m + 1 /\ \A i \in 0 .. m + 1 : y[i] = h[i]
      BY <2>2
    <3>2. DOMAIN h = 0 .. m + 1 /\ h = [i \in 0 .. m + 1 |-> h[i]] /\ y = [i \in 0 .. m + 1 |-> y[i]]
      OBVIOUS
    <3> HIDE DEF h, y
    <3>3. h = y
      BY <3>1, <3>2
    <3> QED
      BY <3>3 DEF y
  <2>4. m + 1 \in 0 .. n
    BY <1>0, <1>2
  <2> QED
    BY <2>3, <2>4
<1>3. 0 .. n \subseteq T
  <2> HIDE DEF T, n
  <2> QED
    BY <1>0, <1>1, <1>2, Induction
<1>4. step = F(step, n)
  <2>1. \E g : g = F(g, n)
    <3> HIDE DEF F, step, n
    <3>1. n \in T
      BY <1>0, <1>3
    <3> QED
      BY <3>1
  <2> HIDE DEF F
  <2> QED
    BY <2>1
<1> HIDE DEF step
<1>5. \A i \in 0 .. n : Sane(step[i])
  <2> DEFINE U == {i \in 0 .. n : Sane(step[i])}
  <2>1. 0 \in U
    BY <1>0, <1>4
  <2>2. ASSUME NEW i \in U, i \in 0 .. n - 1 PROVE i + 1 \in U
    <3>1. i + 1 \in 0 .. n /\ (i + 1) - 1 = i /\ i + 1 # 0
      BY <1>0, <2>2
    <3>2. step[i + 1] = ShortStep(step[i])
      BY <1>4, <3>1
    <3> QED
      BY <3>1, <3>2, StepKeeps
  <2>3. 0 .. n \subseteq U
    <3> HIDE DEF U, n
    <3> QED
      BY <1>0, <2>1, <2>2, Induction
  <2> QED
    BY <2>3
<1>6. ShortLoop(r) = Unless(step[n], Pending(step[n], n))
  BY DEF ShortLoop, Finish, step
<1>7. Sane(step[n])
  BY <1>0, <1>5
<1>8. Sane(Pending(step[n], n))
  BY <1>7, TextKeeps DEF Pending, Keeps
<1> QED
  BY <1>6, <1>7, <1>8 DEF Unless

\* Every field of a compiled string is one of these.
LEMMA CompiledParts ==
    ASSUME NEW f, Len(f) \in Nat
    PROVE  \A part \in ToSet(Compile(f).made) : GoodPart(part)
<1> DEFINE r == Reader(f, <<>>, "compile")
<1>1. Sane(r)
  <2>1. GoodSpecs(Specs)
    <3>1. \A c : DOMAIN [width |-> 0, precision |-> -1, type |-> "", align |-> "none",
                          sign |-> "none", alt |-> "", fill |-> c] =
                 {"width", "precision", "type", "align", "sign", "alt", "fill"}
      OBVIOUS
    <3> QED
      BY <3>1 DEF GoodSpecs, Specs
  <2>2. GoodParts(<<>>)
    <3>1. <<>> \in Seq({})
      OBVIOUS
    <3> QED
      BY <3>1 DEF GoodParts
  <2>3. GoodRef([by |-> "none"])
    BY DEF GoodRef
  <2> QED
    BY <2>1, <2>2, <2>3 DEF Reader, Sane, Fields
<1>2. Compile(f) = ShortLoop(r)
  BY DEF Compile, parse_format_string
<1>3. GoodParts(Compile(f).made)
  BY <1>1, <1>2, LoopKeeps DEF Sane
<1>4. PICK S : Compile(f).made \in Seq(S) /\ \A p \in S : GoodPart(p)
  BY <1>3 DEF GoodParts
<1> QED
  BY <1>4, ElementOfSeq, LenProperties DEF ToSet

-----------------------------------------------------------------------------
(* A field that is written.                                                *)

Arguments == [type : STRING, n : Int, s : Seq(STRING), name : Seq(STRING)]

LEMMA GetLemma ==
    ASSUME NEW args \in Seq(Arguments), NEW id, GoodId(id)
    PROVE  get(args, id).n \in Int
<1>1. NoArg.n \in Int
  BY DEF NoArg, Arg
<1>2. CASE id.by = "index" /\ id.index \in Nat
  <2>1. get(args, id) = IF id.index < Len(args) THEN args[id.index + 1] ELSE NoArg
    BY <1>2 DEF get
  <2>2. CASE id.index < Len(args)
    <3>1. id.index + 1 \in 1 .. Len(args)
      BY <1>2, <2>2, LenProperties
    <3>2. args[id.index + 1] \in Arguments
      BY <3>1, ElementOfSeq
    <3> QED
      BY <2>1, <2>2, <3>2 DEF Arguments
  <2> QED
    BY <1>1, <2>1, <2>2
<1>3. CASE id.by = "name"
  <2> DEFINE named == {i \in DOMAIN args : args[i].name = id.name}
             least == CHOOSE i \in named : \A j \in named : i <= j
  <2>1. get(args, id) = IF named = {} THEN NoArg ELSE args[least]
    BY <1>3 DEF get
  <2>2. CASE named # {}
    <3>1. named \in SUBSET Nat /\ named \subseteq 1 .. Len(args)
      BY LenProperties
    <3> HIDE DEF named
    <3>2. \E i \in named : \A j \in named : i <= j
      BY <2>2, <3>1, LeastNumber
    <3>3. least \in 1 .. Len(args)
      BY <3>1, <3>2
    <3>4. args[least] \in Arguments
      BY <3>3, ElementOfSeq
    <3> QED
      BY <2>1, <2>2, <3>4 DEF Arguments
  <2> QED
    BY <1>1, <2>1, <2>2
<1> QED
  BY <1>2, <1>3 DEF GoodId

\* The number that an argument gives (get_dynamic_spec, handle_dynamic_spec).
LEMMA GivenLemma ==
    ASSUME NEW what \in {"width", "precision"}, NEW arg, arg.n \in Int
    PROVE  LET reply == get_dynamic_spec(what, arg)
           IN reply.error = "" => reply.value = arg.n /\ arg.n \in Nat
<1> DEFINE reply == get_dynamic_spec(what, arg)
           odd == IF what = "width" THEN "width is not integer" ELSE "precision is not integer"
           low == IF what = "width" THEN "negative width" ELSE "negative precision"
           big == "number is too big"
           G(e, v) == [error |-> e, value |-> v]
<1>1. odd # "" /\ low # "" /\ big # ""
  BY Zenon
<1>2. reply \in {G(odd, 0), G(low, 0), G(big, 0), G("", arg.n)}
  BY Zenon DEF get_dynamic_spec
<1>3. arg.n < 0 => reply \in {G(odd, 0), G(low, 0), G(big, 0)}
  BY Zenon DEF get_dynamic_spec
<1> HIDE DEF reply, odd, low, big
<1>4. \A e, v : G(e, v).error = e /\ G(e, v).value = v
  OBVIOUS
<1> HIDE DEF G
<1>5. ASSUME reply.error = "" PROVE reply = G("", arg.n) /\ ~(arg.n < 0)
  <2>1. G(odd, 0).error # "" /\ G(low, 0).error # "" /\ G(big, 0).error # ""
    BY <1>1, <1>4
  <2>2. reply \notin {G(odd, 0), G(low, 0), G(big, 0)}
    BY <1>5, <2>1
  <2> QED
    BY <1>2, <1>3, <2>2, Zenon
<1>6. ~(arg.n < 0) => arg.n \in Nat
  OBVIOUS
<1>7. ASSUME reply.error = "" PROVE reply.value = arg.n /\ arg.n \in Nat
  <2>1. G("", arg.n).value = arg.n
    BY <1>4
  <2>2. reply.value = arg.n
    BY <1>5, <1>7, <2>1
  <2> QED
    BY <1>5, <1>6, <1>7, <2>2
<1> QED
  BY <1>7, Zenon DEF reply

\* The specifications made of specs when ref gives one of them.
GivenSpecs(made, specs, what, ref, args) ==
    made.error = "" =>
        /\ GoodSpecs(made.specs)
        /\ \A x \in DOMAIN specs \ {what} : made.specs[x] = specs[x]
        /\ made.specs[what] = IF ref.by = "none" THEN specs[what] ELSE get(args, ref).n

LEMMA ResolvedLemma ==
    ASSUME NEW specs, GoodSpecs(specs), NEW what \in {"width", "precision"}, NEW ref, GoodRef(ref),
           NEW args \in Seq(Arguments)
    PROVE  GivenSpecs(Resolved(specs, what, ref, args), specs, what, ref, args)
<1> DEFINE made == Resolved(specs, what, ref, args)
           reply == get_dynamic_spec(what, get(args, ref))
<1>1. CASE ref.by = "none"
  BY <1>1 DEF Resolved, GivenSpecs
<1>2. CASE ref.by # "none"
  <2>1. get(args, ref).n \in Int
    BY <1>2, GetLemma DEF GoodRef
  <2>2. reply.error = "" => reply.value = get(args, ref).n /\ get(args, ref).n \in Nat
    BY <2>1, GivenLemma
  <2> HIDE DEF reply
  <2>3. made = [error |-> reply.error, specs |-> [specs EXCEPT ![what] = reply.value]]
    BY <1>2 DEF Resolved, reply
  <2>4. made.error = reply.error /\ made.specs = [specs EXCEPT ![what] = reply.value]
    BY <2>3
  <2> HIDE DEF made
  <2>5. ASSUME reply.error = ""
        PROVE  /\ GoodSpecs(made.specs) /\ \A x \in DOMAIN specs \ {what} : made.specs[x] = specs[x]
               /\ made.specs[what] = reply.value
    <3>1. /\ DOMAIN specs = {"width", "precision", "type", "align", "sign", "alt", "fill"}
          /\ specs.width \in Nat /\ specs.precision \in Int
      BY DEF GoodSpecs
    <3>2. /\ DOMAIN made.specs = DOMAIN specs /\ \A x \in DOMAIN specs \ {what} : made.specs[x] = specs[x]
          /\ made.specs[what] = reply.value
      BY <2>4, <3>1
    <3>3. reply.value \in Nat
      BY <2>2, <2>5
    <3>4. made.specs.width \in Nat /\ made.specs.precision \in Int
      BY <3>1, <3>2, <3>3
    <3> QED
      BY <3>1, <3>2, <3>4 DEF GoodSpecs
  <2> QED
    BY <1>2, <2>2, <2>4, <2>5 DEF made, GivenSpecs
<1> QED
  BY <1>1, <1>2

LEMMA SameRead ==
    ASSUME NEW s, NEW t, s.type = t.type, s.alt = t.alt, NEW text, NEW n
    PROVE  ReadsBack(text, s, n) = ReadsBack(text, t, n)
<1> DEFINE R(type, alt) ==
               LET base == CASE type \in {"", "d", "L"} -> 10 [] type \in {"x", "X"} -> 16
                             [] type \in {"b", "B"} -> 2 [] type = "o" -> 8
                   bare == Trimmed(text)
                   body == IF bare # <<>> /\ bare[1] \in {"-", "+"} THEN Tail(bare) ELSE bare
                   digits == IF Len(body) > 2 /\ body[2] \in {"x", "X", "b", "B"} /\ alt # ""
                             THEN SubSeq(body, 3, Len(body)) ELSE body
                   value == ValueOf(digits, base)
               IN /\ digits # <<>>
                  /\ \A i \in DOMAIN digits :
                        \E k \in 1 .. base : digits[i] \in {Numerals.lower[k], Numerals.upper[k]}
                  /\ n = IF bare[1] = "-" THEN -value ELSE value
<1>1. ReadsBack(text, s, n) = R(s.type, s.alt) /\ ReadsBack(text, t, n) = R(t.type, t.alt)
  BY Zenon DEF ReadsBack
<1> HIDE DEF R
<1> QED
  BY <1>1

\* A compiled field whose argument is an integer (cf::vformat_to).
LEMMA FieldWritten ==
    ASSUME NEW part, GoodPart(part), part.kind = "field", NEW args \in Seq(Arguments),
           get(args, part.id).type \in {"int", "uint"}
    PROVE  FieldReadsBack(part.specs, WidthAsked(part, args), get(args, part.id).n, WriteField(part, args))
<1> DEFINE arg == get(args, part.id)
           wide == Resolved(part.specs, "width", part.width_ref, args)
           full == Resolved(wide.specs, "precision", part.precision_ref, args)
           broken == {rule \in {<<full.specs.align = "numeric", require_numeric_argument(arg.type)>>,
                                <<full.specs.sign # "none", check_sign(arg.type)>>,
                                <<full.specs.alt # "", require_numeric_argument(arg.type)>>,
                                <<full.specs.precision >= 0, check_precision(arg.type)>>} :
                         rule[1] /\ rule[2] # ""}
           why == (CHOOSE rule \in broken : TRUE)[2]
           written == WriteField(part, args)
<1>1. /\ GoodId(part.id) /\ GoodSpecs(part.specs) /\ GoodRef(part.width_ref) /\ GoodRef(part.precision_ref)
  BY DEF GoodPart
<1>2. \/ wide.error # "" /\ written = Wrong(wide.error)
      \/ full.error # "" /\ written = Wrong(full.error)
      \/ broken # {} /\ written = Wrong(why)
      \/ wide.error = "" /\ full.error = "" /\ written = FormatArg(full.specs, arg)
  BY Zenon DEF WriteField
<1>3. broken # {} => why # ""
  <2>1. \A rule \in broken : rule[2] # ""
    OBVIOUS
  <2> HIDE DEF broken
  <2> QED
    BY <2>1
<1>4. FormatArg(full.specs, arg) = int_writer(full.specs, arg.n)
  BY Zenon DEF FormatArg
<1> DEFINE Wanted(w) == FieldReadsBack(part.specs, WidthAsked(part, args), arg.n, w)
<1>5. ASSUME NEW e, e # "" PROVE Wanted(Wrong(e))
  <2>1. Wrong(e).error # ""
    BY <1>5 DEF Wrong
  <2> QED
    BY <2>1 DEF FieldReadsBack
<1>6. arg.n \in Int
  BY <1>1, GetLemma
<1>7. wide.error = "" =>
         /\ GoodSpecs(wide.specs)
         /\ \A x \in DOMAIN part.specs \ {"width"} : wide.specs[x] = part.specs[x]
         /\ wide.specs["width"] = IF part.width_ref.by = "none" THEN part.specs["width"]
                                  ELSE get(args, part.width_ref).n
  <2>1. GivenSpecs(wide, part.specs, "width", part.width_ref, args)
    BY <1>1, ResolvedLemma
  <2> HIDE DEF wide
  <2> QED
    BY <2>1 DEF GivenSpecs
<1> HIDE DEF wide
<1>8. wide.error = "" /\ full.error = "" =>
         /\ GoodSpecs(full.specs)
         /\ \A x \in DOMAIN wide.specs \ {"precision"} : full.specs[x] = wide.specs[x]
  <2>1. wide.error = "" => GivenSpecs(full, wide.specs, "precision", part.precision_ref, args)
    BY <1>1, <1>7, ResolvedLemma
  <2> HIDE DEF full
  <2> QED
    BY <2>1 DEF GivenSpecs
<1> HIDE DEF full, arg, broken, written, why
<1>9. ASSUME wide.error = "", full.error = "" PROVE Wanted(int_writer(full.specs, arg.n))
  <2> DEFINE w == int_writer(full.specs, arg.n)
  <2>1. full.specs.width \in Nat /\ full.specs.precision \in Int
    BY <1>8, <1>9 DEF GoodSpecs
  <2>2. FieldReadsBack(full.specs, full.specs.width, arg.n, w)
    BY <1>6, <2>1, IntegersReadBack
  <2>3. /\ full.specs.type = part.specs.type /\ full.specs.alt = part.specs.alt
        /\ full.specs.fill = part.specs.fill /\ full.specs.align = part.specs.align
        /\ full.specs.width = WidthAsked(part, args)
    <3>1. DOMAIN part.specs = DOMAIN wide.specs
          /\ DOMAIN wide.specs = {"width", "precision", "type", "align", "sign", "alt", "fill"}
      BY <1>1, <1>7, <1>9 DEF GoodSpecs
    <3>2. full.specs.width = wide.specs.width /\ wide.specs.width = WidthAsked(part, args)
      BY <1>7, <1>8, <1>9, <3>1 DEF WidthAsked
    <3> QED
      BY <1>7, <1>8, <1>9, <3>1, <3>2
  <2> HIDE DEF w
  <2>4. ReadsBack(w.text, full.specs, arg.n) = ReadsBack(w.text, part.specs, arg.n)
    BY <2>3, SameRead
  <2>5. FieldReadsBack(part.specs, WidthAsked(part, args), arg.n, w)
    BY <2>2, <2>3, <2>4 DEF FieldReadsBack
  <2> QED
    BY <2>5 DEF w
<1> HIDE DEF Wanted
<1>10. Wanted(written)
  BY <1>2, <1>3, <1>4, <1>5, <1>9
<1> QED
  BY <1>10 DEF Wanted, written, arg

-----------------------------------------------------------------------------
FormatTyped == format_str \in Seq(STRING) /\ format_args \in ArgLists

LEMMA TypedReads == FormatTyped => NumbersReadBack
<1> SUFFICES ASSUME FormatTyped, NEW part \in ToSet(Compile(format_str).made), part.kind = "field",
                    get(format_args, part.id).type \in {"int", "uint"}
             PROVE  FieldReadsBack(part.specs, WidthAsked(part, format_args), get(format_args, part.id).n,
                                   WriteField(part, format_args))
  BY DEF NumbersReadBack
<1>1. Len(format_str) \in Nat /\ format_args \in Seq(Arguments)
  BY FormatAssumption, LenProperties DEF FormatTyped, Arguments
<1>2. GoodPart(part)
  BY <1>1, CompiledParts
<1> QED
  BY <1>1, <1>2, FieldWritten

\* In every format string, whatever its fields ask for, and for every list of
\* arguments, the text of an integer reads back as that integer and is as wide
\* as was asked (parse_format_string, cf::vformat_to, int_writer).
THEOREM NumbersRead == FormatSpec => []NumbersReadBack
<1>1. FormatInit => FormatTyped
  BY FormatAssumption DEF FormatInit, FormatTyped
<1>2. FormatTyped /\ [FormatNext]_formatVars => FormatTyped'
  <2> SUFFICES ASSUME FormatTyped, [FormatNext]_formatVars PROVE FormatTyped'
    OBVIOUS
  <2>1. CASE FormatNext
    <3>1. PICK c \in Alphabet : format_str' = Append(format_str, c)
      BY <2>1 DEF FormatNext
    <3>2. c \in STRING /\ format_args' = format_args
      BY <2>1, FormatAssumption DEF FormatNext
    <3> QED
      BY <3>1, <3>2, AppendProperties DEF FormatTyped
  <2>2. CASE UNCHANGED formatVars
    BY <2>2 DEF FormatTyped, formatVars
  <2> QED
    BY <2>1, <2>2
<1> QED
  BY <1>1, <1>2, TypedReads, PTL DEF FormatSpec

=============================================================================
