--------------------------- MODULE LogAsyncProofs ---------------------------
(***************************************************************************)
(* Theorems about LogAsync, for every number of threads and workers, every *)
(* size of the queue and every choice of policies: what happens to a       *)
(* message between the thread that logs it and the sinks, to the flusher,  *)
(* and to the pool when its last holder lets go of it.                     *)
(***************************************************************************)
EXTENDS LogAsync, FiniteSetTheorems, SequenceTheorems, TLAPS

-----------------------------------------------------------------------------
(* The flusher.                                                            *)

\* While the loggers are registered and the pool was not replaced, the
\* registry holds it: drop_all comes before the pool is let go.
PoolIsHeld == ~replaced /\ registered => "registry" \in holders
FlusherInv == PoolIsHeld /\ FlusherSurvives

\* An exception leaves the flusher only if the pool was replaced under it, in
\* whatever order shutdown, the flusher and the loggers take their steps.
THEOREM FlusherIsSafe == Spec => []FlusherSurvives
<1> USE AsyncThreadsAssumption
<1>1. Init => FlusherInv
  BY DEF Init, FlusherInv, PoolIsHeld, FlusherSurvives
<1>2. FlusherInv /\ [Next]_vars => FlusherInv'
  <2> SUFFICES ASSUME FlusherInv, [Next]_vars PROVE FlusherInv'
    OBVIOUS
  <2> USE DEF FlusherInv, PoolIsHeld, FlusherSurvives, pool, registry, timer, calls
  <2>1. ASSUME NEW a \in Apps, NEW type, AppLogs(a, type) PROVE FlusherInv'
    BY <2>1 DEF AppLogs
  <2>2. ASSUME NEW t \in Threads, Posting(t) PROVE FlusherInv'
    BY <2>2 DEF Posting, Enqueue, NotifyPush, DropPool, Destroy, DestroyWith, JoinWorkers
  <2>3. ASSUME NEW w \in Workers, WorkerStep(w) \/ DequeueTimeout(w) PROVE FlusherInv'
    BY <2>3 DEF WorkerStep, Dequeue, NotifyPop, Process, ProcessTerminate, DequeueTimeout
  <2>4. CASE FlusherWakes \/ FlusherStep
    BY <2>4 DEF FlusherWakes, FlusherStep, FlushLogger, FlusherUnlocks
  <2>5. CASE Shutdown \/ MainStep
    BY <2>5 DEF Shutdown, MainStep, StopTimer, JoinTimer, DropAll
  <2>6. CASE ReplacePool
    BY <2>6 DEF ReplacePool
  <2>7. CASE UNCHANGED vars
    BY <2>7 DEF vars
  <2> QED
    BY <2>1, <2>2, <2>3, <2>4, <2>5, <2>6, <2>7 DEF Next
<1>3. FlusherInv => FlusherSurvives
  BY DEF FlusherInv
<1> QED
  BY <1>1, <1>2, <1>3, PTL DEF Spec

-----------------------------------------------------------------------------
(* The places of a message.                                                *)

\* What a thread may have in its hands.
Items ==
    {NoMsg} \cup [type : {"log", "flush", "terminate"}, id : Nat, from : Threads]

InSeq(m, s) == \E i \in 1 .. Len(s) : s[i] = m
OnceIn(m, s) == \A i, j \in 1 .. Len(s) : s[i] = m /\ s[j] = m => i = j
InHand(m, h) == \E t \in Threads : h[t] = m
OnceInHand(m, h) == \A t, u \in Threads : h[t] = m /\ h[u] = m => t = u

\* With hands h, queue q, sinks w and losses o, m is somewhere; at one place.
Somewhere(m, h, q, w, o) == InHand(m, h) \/ InSeq(m, q) \/ InSeq(m, w) \/ m \in o
Placed(m, h, q, w, o) ==
    /\ OnceInHand(m, h) /\ OnceIn(m, q) /\ OnceIn(m, w)
    /\ Somewhere(m, h, q, w, o)
    /\ InHand(m, h) => ~InSeq(m, q) /\ ~InSeq(m, w) /\ m \notin o
    /\ InSeq(m, q) => ~InSeq(m, w) /\ m \notin o
    /\ InSeq(m, w) => m \notin o

\* The places where a thread has a message in its hands.
Carrying == {"post", "full_wait", "notify_pop", "process"}

\* What an application posted, wherever it is, was accepted, and its number was
\* given out: the next message is nowhere yet.
OfApps(m) == m.from \in Apps /\ m.type \in {"log", "flush"}

ItemTypes ==
    /\ pc \in [Threads -> Pcs] /\ hand \in [Threads -> Items]
    /\ queue \in Seq(Items) /\ written \in Seq(Items) /\ overrun \in SUBSET Items
    /\ accepted \in SUBSET Items /\ count \in Nat
HandsFree == \A t \in Threads : pc[t] \notin Carrying => hand[t] = NoMsg
ByCount == \A m \in accepted : OfApps(m) /\ m.id <= count
AllKnown ==
    \A m \in Items :
        OfApps(m) /\ Somewhere(m, hand, queue, written, overrun) => m \in accepted
AllPlaced == \A m \in accepted : Placed(m, hand, queue, written, overrun)

PlaceInv == ItemTypes /\ HandsFree /\ ByCount /\ AllKnown /\ AllPlaced

LEMMA NoMsgLemma ==
    /\ NoMsg \in Items /\ ~OfApps(NoMsg)
    /\ Apps \subseteq Threads /\ Workers \subseteq Threads
  BY AsyncThreadsAssumption DEF Items, NoMsg, OfApps, Threads

\* What Append and Tail do to the places of a message.
LEMMA AppendPlaces ==
    ASSUME NEW S, NEW s \in Seq(S), NEW e \in S, NEW m
    PROVE  /\ Append(s, e) \in Seq(S)
           /\ InSeq(m, Append(s, e)) <=> InSeq(m, s) \/ m = e
           /\ OnceIn(m, s) /\ ~(InSeq(m, s) /\ m = e) => OnceIn(m, Append(s, e))
<1>1. /\ Append(s, e) \in Seq(S) /\ Len(Append(s, e)) = Len(s) + 1 /\ Len(s) \in Nat
      /\ \A i \in 1 .. Len(s) : Append(s, e)[i] = s[i]
      /\ Append(s, e)[Len(s) + 1] = e
  BY AppendProperties, LenProperties
<1>2. \A i \in 1 .. Len(s) + 1 : i \in 1 .. Len(s) \/ i = Len(s) + 1
  BY <1>1
<1>3. 1 .. Len(s) \subseteq 1 .. Len(s) + 1 /\ Len(s) + 1 \in 1 .. Len(s) + 1
  BY <1>1
<1> QED
  BY <1>1, <1>2, <1>3 DEF InSeq, OnceIn

LEMMA TailPlaces ==
    ASSUME NEW S, NEW s \in Seq(S), s # <<>>, NEW m
    PROVE  /\ Head(s) \in S /\ Tail(s) \in Seq(S)
           /\ InSeq(m, s) <=> InSeq(m, Tail(s)) \/ m = Head(s)
           /\ OnceIn(m, s) => OnceIn(m, Tail(s)) /\ ~(m = Head(s) /\ InSeq(m, Tail(s)))
<1>1. /\ Head(s) \in S /\ Tail(s) \in Seq(S) /\ Len(Tail(s)) = Len(s) - 1
      /\ \A i \in 1 .. Len(Tail(s)) : Tail(s)[i] = s[i + 1]
  BY HeadTailProperties
<1>2. Len(s) \in Nat \ {0} /\ Head(s) = s[1]
  BY EmptySeq
<1>3. \A i \in 1 .. Len(s) : i = 1 \/ (i - 1 \in 1 .. Len(Tail(s)) /\ Tail(s)[i - 1] = s[i])
  <2> SUFFICES ASSUME NEW i \in 1 .. Len(s), i # 1
               PROVE  i - 1 \in 1 .. Len(Tail(s)) /\ Tail(s)[i - 1] = s[i]
    OBVIOUS
  <2>1. i - 1 \in 1 .. Len(Tail(s))
    BY <1>1, <1>2
  <2>2. Tail(s)[i - 1] = s[(i - 1) + 1]
    BY <1>1, <2>1
  <2> QED
    BY <2>1, <2>2
<1>4. \A i \in 1 .. Len(Tail(s)) : i + 1 \in 1 .. Len(s) /\ i + 1 # 1
  BY <1>1, <1>2
<1>5. 1 \in 1 .. Len(s)
  BY <1>2
<1>6. InSeq(m, s) <=> InSeq(m, Tail(s)) \/ m = Head(s)
  BY <1>1, <1>2, <1>3, <1>4, <1>5 DEF InSeq
<1>7. OnceIn(m, s) => OnceIn(m, Tail(s))
  <2> SUFFICES ASSUME OnceIn(m, s), NEW i \in 1 .. Len(Tail(s)), NEW j \in 1 .. Len(Tail(s)),
                      Tail(s)[i] = m, Tail(s)[j] = m
               PROVE  i = j
    BY DEF OnceIn
  <2>1. s[i + 1] = m /\ s[j + 1] = m
    BY <1>1
  <2>2. i + 1 = j + 1
    BY <1>4, <2>1 DEF OnceIn
  <2> QED
    BY <2>2
<1>8. OnceIn(m, s) => ~(m = Head(s) /\ InSeq(m, Tail(s)))
  BY <1>1, <1>2, <1>4, <1>5 DEF OnceIn, InSeq
<1> QED
  BY <1>1, <1>6, <1>7, <1>8

\* What a thread that takes or gives a message does to the hands.
LEMMA HandPlaces ==
    ASSUME NEW h \in [Threads -> Items], NEW t \in Threads, NEW x, NEW m
    PROVE  LET g == [h EXCEPT ![t] = x]
           IN  /\ m # x /\ m # h[t] => (InHand(m, g) <=> InHand(m, h))
               /\ m # x /\ OnceInHand(m, h) => OnceInHand(m, g)
               /\ m # x /\ m = h[t] /\ OnceInHand(m, h) => ~InHand(m, g)
               /\ m = x => InHand(m, g)
               /\ m = x /\ ~InHand(m, h) => OnceInHand(m, g)
  BY DEF InHand, OnceInHand

\* The invariant is kept if no message is made and each stays at one place (a
\* call that finds no pool is counted all the same).
LEMMA Kept ==
    ASSUME PlaceInv, ItemTypes', HandsFree', accepted' = accepted,
           count' \in {count, count + 1},
           \A m \in Items : OfApps(m) =>
              /\ Somewhere(m, hand', queue', written', overrun')
                    => Somewhere(m, hand, queue, written, overrun)
              /\ Placed(m, hand, queue, written, overrun)
                    => Placed(m, hand', queue', written', overrun')
    PROVE  PlaceInv'
<1>1. accepted \subseteq Items /\ \A m \in accepted : OfApps(m)
  BY DEF PlaceInv, ItemTypes, ByCount
<1>2. ByCount'
  <2> SUFFICES ASSUME NEW m \in accepted PROVE m.id <= count'
    BY <1>1 DEF ByCount
  <2>1. m.id <= count /\ m.id \in Nat /\ count \in Nat
    <3>1. m \in Items /\ OfApps(m)
      BY <1>1
    <3>2. m # NoMsg
      BY <3>1, NoMsgLemma
    <3> QED
      BY <3>1, <3>2 DEF PlaceInv, ByCount, ItemTypes, Items
  <2> QED
    BY <2>1
<1>3. AllKnown'
  BY DEF PlaceInv, AllKnown
<1>4. AllPlaced'
  BY <1>1 DEF PlaceInv, AllPlaced
<1> QED
  BY <1>2, <1>3, <1>4 DEF PlaceInv

-----------------------------------------------------------------------------
(* Kinds of steps.                                                         *)

\* Only places in the program change, and perhaps a call finds no pool.
MovesOn == UNCHANGED <<hand, queue, overrun, written, accepted>> /\ count' \in {count, count + 1}

\* t changes the message in its hands for x; neither is of an application.
TakesOther(t, x) ==
    /\ ~OfApps(x) /\ ~OfApps(hand[t]) /\ hand' = [hand EXCEPT ![t] = x]
    /\ UNCHANGED <<queue, overrun, written, accepted, count>>

\* An application makes the message x and takes it.
TakesNew(a, x) ==
    /\ hand[a] = NoMsg /\ OfApps(x) /\ x.id = count + 1 /\ x.from = a
    /\ hand' = [hand EXCEPT ![a] = x] /\ accepted' = accepted \cup {x} /\ count' = count + 1
    /\ UNCHANGED <<queue, overrun, written>>

\* t puts what it holds behind the others.
Puts(t) ==
    /\ pc[t] = "post"
    /\ queue' = Append(queue, hand[t]) /\ hand' = [hand EXCEPT ![t] = NoMsg]
    /\ UNCHANGED <<overrun, written, accepted, count>>

\* The oldest message is overwritten first.
Overruns(t) ==
    /\ pc[t] = "post" /\ queue # <<>>
    /\ queue' = Append(Tail(queue), hand[t]) /\ overrun' = overrun \cup {Head(queue)}
    /\ hand' = [hand EXCEPT ![t] = NoMsg] /\ UNCHANGED <<written, accepted, count>>

\* w takes the oldest message.
Takes(w) ==
    /\ pc[w] = "take" /\ queue # <<>> /\ hand[w] = NoMsg
    /\ queue' = Tail(queue) /\ hand' = [hand EXCEPT ![w] = Head(queue)]
    /\ UNCHANGED <<overrun, written, accepted, count>>

\* w gives what it holds to the sinks.
Writes(w) ==
    /\ pc[w] = "process" /\ OfApps(hand[w])
    /\ written' = Append(written, hand[w]) /\ hand' = [hand EXCEPT ![w] = NoMsg]
    /\ UNCHANGED <<queue, overrun, accepted, count>>

Kind ==
    \/ MovesOn
    \/ \E t \in Threads, x \in Items : TakesOther(t, x)
    \/ \E a \in Apps, x \in Items : TakesNew(a, x)
    \/ \E t \in Threads : Puts(t) \/ Overruns(t)
    \/ \E w \in Workers : Takes(w) \/ Writes(w)

TypesKept == ItemTypes' /\ HandsFree'

LEMMA MovesOnTypes ==
    ASSUME ItemTypes, HandsFree, MovesOn, pc' \in [Threads -> Pcs],
           \A t \in Threads : pc'[t] \in Carrying \/ pc[t] \notin Carrying
    PROVE  TypesKept /\ Kind
  BY DEF ItemTypes, HandsFree, MovesOn, TypesKept, Kind

LEMMA MovesOnKeeps == ASSUME PlaceInv, MovesOn, TypesKept PROVE PlaceInv'
  BY Kept DEF MovesOn, TypesKept

LEMMA TakesOtherKeeps ==
    ASSUME PlaceInv, TypesKept, NEW t \in Threads, NEW x \in Items, TakesOther(t, x)
    PROVE  PlaceInv'
<1> USE DEF TakesOther, TypesKept
<1>1. hand \in [Threads -> Items]
  BY DEF PlaceInv, ItemTypes
<1> SUFFICES ASSUME NEW m \in Items, OfApps(m)
             PROVE  /\ InHand(m, hand') => InHand(m, hand)
                    /\ InHand(m, hand) => InHand(m, hand')
                    /\ OnceInHand(m, hand) => OnceInHand(m, hand')
  BY Kept DEF Somewhere, Placed
<1>2. m # x /\ m # hand[t]
  OBVIOUS
<1> QED
  BY <1>1, <1>2, HandPlaces

LEMMA TakesNewKeeps ==
    ASSUME PlaceInv, TypesKept, NEW a \in Apps, NEW x \in Items, TakesNew(a, x)
    PROVE  PlaceInv'
<1> USE DEF TakesNew, TypesKept
<1> USE NoMsgLemma
<1>1. hand \in [Threads -> Items] /\ accepted \subseteq Items /\ count \in Nat
  BY DEF PlaceInv, ItemTypes
<1>2. x \notin accepted
  BY <1>1 DEF PlaceInv, ByCount
<1>3. ~Somewhere(x, hand, queue, written, overrun)
  BY <1>2 DEF PlaceInv, AllKnown
<1>4. \A m \in Items : OfApps(m) /\ m # x =>
         /\ InHand(m, hand') <=> InHand(m, hand)
         /\ OnceInHand(m, hand) => OnceInHand(m, hand')
  <2> SUFFICES ASSUME NEW m \in Items, OfApps(m), m # x
               PROVE  /\ InHand(m, hand') <=> InHand(m, hand)
                      /\ OnceInHand(m, hand) => OnceInHand(m, hand')
    OBVIOUS
  <2>1. m # NoMsg
    OBVIOUS
  <2> QED
    BY <1>1, <2>1, HandPlaces
<1>5. InHand(x, hand') /\ OnceInHand(x, hand')
  BY <1>1, <1>3, HandPlaces DEF Somewhere
<1>6. ByCount'
  <2> SUFFICES ASSUME NEW m \in accepted' PROVE OfApps(m) /\ m.id <= count'
    BY DEF ByCount
  <2>1. CASE m = x
    BY <1>1, <2>1
  <2>2. CASE m \in accepted
    <3>1. OfApps(m) /\ m.id <= count /\ m.id \in Nat
      BY <1>1, <2>2 DEF PlaceInv, ByCount, Items
    <3> QED
      BY <1>1, <3>1
  <2> QED
    BY <2>1, <2>2
<1>7. AllKnown'
  BY <1>4 DEF PlaceInv, AllKnown, Somewhere
<1>8. AllPlaced'
  <2> SUFFICES ASSUME NEW m \in accepted'
               PROVE  Placed(m, hand', queue, written, overrun)
    BY DEF AllPlaced
  <2>1. CASE m = x
    <3>1. \A i \in 1 .. Len(queue) : queue[i] # x
      BY <1>3 DEF Somewhere, InSeq
    <3>2. \A i \in 1 .. Len(written) : written[i] # x
      BY <1>3 DEF Somewhere, InSeq
    <3>3. OnceIn(x, queue) /\ OnceIn(x, written)
      BY <3>1, <3>2 DEF OnceIn
    <3> QED
      BY <1>3, <1>5, <2>1, <3>3 DEF Placed, Somewhere
  <2>2. CASE m \in accepted /\ m # x
    <3>1. m \in Items /\ OfApps(m) /\ Placed(m, hand, queue, written, overrun)
      BY <1>1, <2>2 DEF PlaceInv, ByCount, AllPlaced
    <3> QED
      BY <1>4, <2>2, <3>1 DEF Placed, Somewhere
  <2> QED
    BY <2>1, <2>2
<1> QED
  BY <1>6, <1>7, <1>8 DEF PlaceInv

LEMMA PutsKeeps ==
    ASSUME PlaceInv, TypesKept, NEW t \in Threads, Puts(t)
    PROVE  PlaceInv'
<1> USE DEF Puts, TypesKept
<1> USE NoMsgLemma
<1>1. hand \in [Threads -> Items] /\ hand[t] \in Items /\ queue \in Seq(Items)
  BY DEF PlaceInv, ItemTypes
<1> SUFFICES ASSUME NEW m \in Items, OfApps(m)
             PROVE  /\ Somewhere(m, hand', queue', written, overrun)
                          => Somewhere(m, hand, queue, written, overrun)
                    /\ Placed(m, hand, queue, written, overrun)
                          => Placed(m, hand', queue', written, overrun)
  BY Kept
<1>2. /\ InSeq(m, queue') <=> InSeq(m, queue) \/ m = hand[t]
      /\ OnceIn(m, queue) /\ ~(InSeq(m, queue) /\ m = hand[t]) => OnceIn(m, queue')
  BY <1>1, AppendPlaces
<1>3. m # NoMsg
  OBVIOUS
<1>4. /\ m # hand[t] => (InHand(m, hand') <=> InHand(m, hand))
      /\ OnceInHand(m, hand) => OnceInHand(m, hand')
      /\ m = hand[t] /\ OnceInHand(m, hand) => ~InHand(m, hand')
  BY <1>1, <1>3, HandPlaces
<1>5. m = hand[t] => InHand(m, hand)
  BY DEF InHand
<1> QED
  BY <1>2, <1>4, <1>5 DEF Placed, Somewhere

LEMMA OverrunsKeeps ==
    ASSUME PlaceInv, TypesKept, NEW t \in Threads, Overruns(t)
    PROVE  PlaceInv'
<1> USE DEF Overruns, TypesKept
<1> USE NoMsgLemma
<1>1. hand \in [Threads -> Items] /\ hand[t] \in Items /\ queue \in Seq(Items)
  BY DEF PlaceInv, ItemTypes
<1> SUFFICES ASSUME NEW m \in Items, OfApps(m)
             PROVE  /\ Somewhere(m, hand', queue', written, overrun')
                          => Somewhere(m, hand, queue, written, overrun)
                    /\ Placed(m, hand, queue, written, overrun)
                          => Placed(m, hand', queue', written, overrun')
  BY Kept
<1>2. /\ Tail(queue) \in Seq(Items)
      /\ InSeq(m, queue) <=> InSeq(m, Tail(queue)) \/ m = Head(queue)
      /\ OnceIn(m, queue) => OnceIn(m, Tail(queue))
                             /\ ~(m = Head(queue) /\ InSeq(m, Tail(queue)))
  BY <1>1, TailPlaces
<1>3. /\ InSeq(m, queue') <=> InSeq(m, Tail(queue)) \/ m = hand[t]
      /\ OnceIn(m, Tail(queue)) /\ ~(InSeq(m, Tail(queue)) /\ m = hand[t])
            => OnceIn(m, queue')
  BY <1>1, <1>2, AppendPlaces
<1>4. m # NoMsg
  OBVIOUS
<1>5. /\ m # hand[t] => (InHand(m, hand') <=> InHand(m, hand))
      /\ OnceInHand(m, hand) => OnceInHand(m, hand')
      /\ m = hand[t] /\ OnceInHand(m, hand) => ~InHand(m, hand')
  BY <1>1, <1>4, HandPlaces
<1>6. m = hand[t] => InHand(m, hand)
  BY DEF InHand
<1> QED
  BY <1>2, <1>3, <1>5, <1>6 DEF Placed, Somewhere

LEMMA TakesKeeps ==
    ASSUME PlaceInv, TypesKept, NEW w \in Workers, Takes(w)
    PROVE  PlaceInv'
<1> USE DEF Takes, TypesKept
<1> USE NoMsgLemma
<1>1. hand \in [Threads -> Items] /\ queue \in Seq(Items)
  BY DEF PlaceInv, ItemTypes
<1> SUFFICES ASSUME NEW m \in Items, OfApps(m)
             PROVE  /\ Somewhere(m, hand', queue', written, overrun)
                          => Somewhere(m, hand, queue, written, overrun)
                    /\ Placed(m, hand, queue, written, overrun)
                          => Placed(m, hand', queue', written, overrun)
  BY Kept
<1>2. /\ InSeq(m, queue) <=> InSeq(m, Tail(queue)) \/ m = Head(queue)
      /\ OnceIn(m, queue) => OnceIn(m, Tail(queue))
                             /\ ~(m = Head(queue) /\ InSeq(m, Tail(queue)))
  BY <1>1, TailPlaces
<1>3. m # hand[w]
  OBVIOUS
<1>4. /\ m # Head(queue) => (InHand(m, hand') <=> InHand(m, hand))
      /\ m # Head(queue) /\ OnceInHand(m, hand) => OnceInHand(m, hand')
      /\ m = Head(queue) => InHand(m, hand')
      /\ m = Head(queue) /\ ~InHand(m, hand) => OnceInHand(m, hand')
  BY <1>1, <1>3, HandPlaces
<1> QED
  BY <1>2, <1>4 DEF Placed, Somewhere

LEMMA WritesKeeps ==
    ASSUME PlaceInv, TypesKept, NEW w \in Workers, Writes(w)
    PROVE  PlaceInv'
<1> USE DEF Writes, TypesKept
<1> USE NoMsgLemma
<1>1. hand \in [Threads -> Items] /\ hand[w] \in Items /\ written \in Seq(Items)
  BY DEF PlaceInv, ItemTypes
<1> SUFFICES ASSUME NEW m \in Items, OfApps(m)
             PROVE  /\ Somewhere(m, hand', queue, written', overrun)
                          => Somewhere(m, hand, queue, written, overrun)
                    /\ Placed(m, hand, queue, written, overrun)
                          => Placed(m, hand', queue, written', overrun)
  BY Kept
<1>2. /\ InSeq(m, written') <=> InSeq(m, written) \/ m = hand[w]
      /\ OnceIn(m, written) /\ ~(InSeq(m, written) /\ m = hand[w]) => OnceIn(m, written')
  BY <1>1, AppendPlaces
<1>3. m # NoMsg
  OBVIOUS
<1>4. /\ m # hand[w] => (InHand(m, hand') <=> InHand(m, hand))
      /\ OnceInHand(m, hand) => OnceInHand(m, hand')
      /\ m = hand[w] /\ OnceInHand(m, hand) => ~InHand(m, hand')
  BY <1>1, <1>3, HandPlaces
<1>5. m = hand[w] => InHand(m, hand)
  BY DEF InHand
<1> QED
  BY <1>2, <1>4, <1>5 DEF Placed, Somewhere

-----------------------------------------------------------------------------
(* Every message is in one place.                                          *)

LEMMA FlusherIsNoApp == Flusher \notin Apps /\ Flusher \in Threads /\ Main \in Threads
  BY AsyncThreadsAssumption DEF Threads

LEMMA FullIsNotEmpty == ASSUME ItemTypes, Full PROVE queue # <<>>
  BY AsyncSizesAssumption, EmptySeq DEF ItemTypes, Full

LEMMA PlaceInit == Init => PlaceInv
<1> SUFFICES ASSUME Init PROVE PlaceInv
  OBVIOUS
<1> USE NoMsgLemma
<1>1. pc \in [Threads -> Pcs]
  <2>1. \A t \in Threads : pc[t] \in {"idle", "take", "unused", "sleep", "running"}
    BY AsyncThreadsAssumption DEF Init, StartsAt, Threads
  <2>2. pc = [t \in Threads |-> StartsAt(t)]
    BY DEF Init
  <2> QED
    BY <2>1, <2>2 DEF Pcs, AppPcs, WorkerPcs, FlusherPcs, MainPcs
<1>2. /\ hand \in [Threads -> Items] /\ \A t \in Threads : hand[t] = NoMsg
      /\ queue = <<>> /\ written = <<>> /\ overrun = {} /\ accepted = {} /\ count = 0
  BY DEF Init
<1>3. ItemTypes /\ HandsFree
  BY <1>1, <1>2 DEF ItemTypes, HandsFree
<1>4. Len(queue) = 0 /\ Len(written) = 0
  BY <1>2
<1>5. \A m : ~InSeq(m, queue) /\ ~InSeq(m, written)
  BY <1>4 DEF InSeq
<1>6. AllKnown
  BY <1>2, <1>5 DEF AllKnown, Somewhere, InHand
<1> QED
  BY <1>2, <1>3, <1>6 DEF PlaceInv, ByCount, AllPlaced

\* Every step is of one of these kinds.
LEMMA EveryKind == ItemTypes /\ HandsFree /\ [Next]_vars => TypesKept /\ Kind
<1> SUFFICES ASSUME ItemTypes, HandsFree, [Next]_vars PROVE TypesKept /\ Kind
  OBVIOUS
<1> USE NoMsgLemma, FlusherIsNoApp
<1> USE DEF pool, registry, timer, calls, Goto, At
<1>0. ItemTypes /\ HandsFree
  OBVIOUS
<1>1. ASSUME NEW a \in Apps, NEW type \in {"log", "flush"}, AppLogs(a, type)
      PROVE  TypesKept /\ Kind
  <2>1. CASE holders = {}
    BY <1>0, <1>1, <2>1, MovesOnTypes DEF MovesOn, AppLogs, ItemTypes
  <2>2. CASE holders # {}
    <3> DEFINE x == Msg(type, count + 1, a)
    <3>1. x \in Items /\ OfApps(x) /\ x.id = count + 1 /\ x.from = a
      BY <1>0 DEF Msg, Items, OfApps, ItemTypes
    <3>2. /\ hand' = [hand EXCEPT ![a] = x] /\ accepted' = accepted \cup {x}
          /\ count' = count + 1 /\ pc' = [pc EXCEPT ![a] = "post"]
          /\ pc[a] = "idle" /\ UNCHANGED <<queue, overrun, written>>
      BY <1>1, <2>2 DEF AppLogs
    <3> HIDE DEF x
    <3>3. hand[a] = NoMsg
      BY <1>0, <3>2 DEF HandsFree, Carrying
    <3>4. ItemTypes' /\ HandsFree'
      BY <1>0, <3>1, <3>2 DEF ItemTypes, HandsFree, Pcs, PostPcs, Carrying
    <3> QED
      BY <3>1, <3>2, <3>3, <3>4 DEF TakesNew, TypesKept, Kind
  <2> QED
    BY <2>1, <2>2
<1>2. ASSUME NEW t \in Threads, Enqueue(t) PROVE TypesKept /\ Kind
  <2>1. CASE pc' = [pc EXCEPT ![t] = "full_wait"] /\ UNCHANGED <<queue, overrun, hand>>
    BY <1>0, <1>2, <2>1, MovesOnTypes DEF MovesOn, Enqueue, ItemTypes, Pcs, PostPcs, Carrying
  <2>2. CASE /\ hand' = [hand EXCEPT ![t] = NoMsg] /\ pc' = [pc EXCEPT ![t] = "notify_push"]
             /\ queue' = Append(queue, hand[t]) /\ UNCHANGED overrun
    <3>1. Append(queue, hand[t]) \in Seq(Items)
      BY <1>0, AppendProperties DEF ItemTypes
    <3>2. ItemTypes' /\ HandsFree'
      BY <1>0, <1>2, <2>2, <3>1 DEF Enqueue, ItemTypes, HandsFree, Pcs, PostPcs, Carrying
    <3> QED
      BY <1>2, <2>2, <3>2 DEF Enqueue, Puts, TypesKept, Kind
  <2>3. CASE /\ hand' = [hand EXCEPT ![t] = NoMsg] /\ pc' = [pc EXCEPT ![t] = "notify_push"]
             /\ queue' = Append(Tail(queue), hand[t]) /\ Full
             /\ overrun' = overrun \cup {Head(queue)}
    <3>1. queue # <<>>
      BY <1>0, <2>3, FullIsNotEmpty
    <3>2. Head(queue) \in Items /\ Append(Tail(queue), hand[t]) \in Seq(Items)
      BY <1>0, <3>1, HeadTailProperties, AppendProperties DEF ItemTypes
    <3>3. ItemTypes' /\ HandsFree'
      BY <1>0, <1>2, <2>3, <3>2 DEF Enqueue, ItemTypes, HandsFree, Pcs, PostPcs, Carrying
    <3> QED
      BY <1>2, <2>3, <3>1, <3>3 DEF Enqueue, Overruns, TypesKept, Kind
  <2> QED
    BY <1>2, <2>1, <2>2, <2>3 DEF Enqueue, EnqueueNoWait, EnqueueBlocking
<1>3. ASSUME NEW t \in Threads, NotifyPush(t) \/ DropPool(t) \/ JoinWorkers(t)
      PROVE  TypesKept /\ Kind
  <2>1. pc' \in [Threads -> Pcs]
    BY <1>0, <1>3 DEF NotifyPush, NotifyOne, Posted, DropPool, JoinWorkers, Resume, ItemTypes,
                      Pcs, AppPcs, PostPcs, WorkerPcs, FlusherPcs, MainPcs
  <2>2. \A s \in Threads : pc'[s] \in Carrying \/ pc[s] \notin Carrying
    BY <1>0, <1>3 DEF NotifyPush, NotifyOne, DropPool, JoinWorkers, ItemTypes, Carrying
  <2> QED
    BY <1>3, <2>1, <2>2, MovesOnTypes DEF MovesOn, NotifyPush, DropPool, JoinWorkers
<1>4. ASSUME NEW t \in Threads, Destroy(t) PROVE TypesKept /\ Kind
  <2>1. CASE pc' = [pc EXCEPT ![t] = "join"] /\ UNCHANGED hand
    BY <1>0, <1>4, <2>1, MovesOnTypes DEF MovesOn, Destroy, DestroyWith, ItemTypes, Pcs, PostPcs, Carrying
  <2>2. CASE hand' = [hand EXCEPT ![t] = Terminate(t)] /\ pc' = [pc EXCEPT ![t] = "post"]
    <3>1. Terminate(t) \in Items /\ ~OfApps(Terminate(t))
      BY DEF Terminate, Msg, Items, OfApps
    <3>2. hand[t] = NoMsg
      BY <1>0, <1>4 DEF Destroy, DestroyWith, HandsFree, Carrying
    <3>3. ItemTypes' /\ HandsFree'
      BY <1>0, <1>4, <2>2, <3>1
         DEF Destroy, DestroyWith, ItemTypes, HandsFree, Pcs, PostPcs, Carrying
    <3> QED
      BY <1>4, <2>2, <3>1, <3>2, <3>3 DEF Destroy, DestroyWith, TakesOther, TypesKept, Kind
  <2> QED
    BY <1>4, <2>1, <2>2 DEF Destroy, DestroyWith
<1>5. ASSUME NEW w \in Workers, Dequeue(w) PROVE TypesKept /\ Kind
  <2>1. CASE queue = <<>>
    BY <1>0, <1>5, <2>1, MovesOnTypes DEF MovesOn, Dequeue, ItemTypes, Pcs, WorkerPcs, Carrying
  <2>2. CASE queue # <<>>
    <3>1. hand[w] = NoMsg
      BY <1>0, <1>5 DEF Dequeue, HandsFree, Carrying
    <3>2. Head(queue) \in Items /\ Tail(queue) \in Seq(Items)
      BY <1>0, <2>2, HeadTailProperties DEF ItemTypes
    <3>3. ItemTypes' /\ HandsFree'
      BY <1>0, <1>5, <2>2, <3>2 DEF Dequeue, ItemTypes, HandsFree, Pcs, WorkerPcs, Carrying
    <3> QED
      BY <1>5, <2>2, <3>1, <3>3 DEF Dequeue, Takes, TypesKept, Kind
  <2> QED
    BY <2>1, <2>2
<1>6. ASSUME NEW w \in Workers, NotifyPop(w) \/ DequeueTimeout(w) PROVE TypesKept /\ Kind
  <2>1. pc' \in [Threads -> Pcs]
    BY <1>0, <1>6 DEF NotifyPop, NotifyOne, DequeueTimeout, ItemTypes, Pcs, PostPcs, WorkerPcs
  <2>2. \A s \in Threads : pc'[s] \in Carrying \/ pc[s] \notin Carrying
    BY <1>0, <1>6 DEF NotifyPop, NotifyOne, DequeueTimeout, ItemTypes, Carrying
  <2> QED
    BY <1>6, <2>1, <2>2, MovesOnTypes DEF MovesOn, NotifyPop, DequeueTimeout
<1>7. ASSUME NEW w \in Workers, Process(w) \/ ProcessTerminate(w) PROVE TypesKept /\ Kind
  <2>1. /\ hand' = [hand EXCEPT ![w] = NoMsg] /\ UNCHANGED <<queue, overrun, accepted, count>>
        /\ pc' = [pc EXCEPT ![w] = "take"] \/ pc' = [pc EXCEPT ![w] = "exited"]
    BY <1>7 DEF Process, ProcessTerminate
  <2>2. HandsFree' /\ pc' \in [Threads -> Pcs] /\ hand' \in [Threads -> Items]
    BY <1>0, <2>1 DEF ItemTypes, HandsFree, Pcs, WorkerPcs, Carrying
  <2>3. CASE pc[w] = "process" /\ OfApps(hand[w]) /\ written' = Append(written, hand[w])
    <3>1. written' \in Seq(Items)
      BY <1>0, <2>3, AppendProperties DEF ItemTypes
    <3>2. ItemTypes'
      BY <1>0, <2>1, <2>2, <3>1 DEF ItemTypes
    <3> QED
      BY <2>1, <2>2, <2>3, <3>2 DEF Writes, TypesKept, Kind
  <2>4. CASE ~OfApps(hand[w]) /\ UNCHANGED written
    <3>1. ItemTypes'
      BY <1>0, <2>1, <2>2, <2>4 DEF ItemTypes
    <3> QED
      BY <2>1, <2>2, <2>4, <3>1 DEF TakesOther, TypesKept, Kind
  <2>5. hand[w] \in Items /\ Nobody \notin Apps
    BY <1>0, AsyncThreadsAssumption DEF ItemTypes, Threads
  <2>6. hand[w].from \in Apps /\ hand[w].type # "terminate" => OfApps(hand[w])
    BY <2>5 DEF Items, NoMsg, OfApps
  <2> QED
    BY <1>7, <2>3, <2>4, <2>6 DEF Process, ProcessTerminate, OfApps
<1>8. CASE FlushLogger
  <2>1. CASE UNCHANGED hand
    BY <1>0, <1>8, <2>1, MovesOnTypes DEF MovesOn, FlushLogger, ItemTypes, Pcs, PostPcs, FlusherPcs, Carrying
  <2>2. CASE /\ hand' = [hand EXCEPT ![Flusher] = Msg("flush", 0, Flusher)]
             /\ pc' = [pc EXCEPT ![Flusher] = "post"]
    <3>1. Msg("flush", 0, Flusher) \in Items /\ ~OfApps(Msg("flush", 0, Flusher))
      BY DEF Msg, Items, OfApps
    <3>2. hand[Flusher] = NoMsg
      BY <1>0, <1>8 DEF FlushLogger, HandsFree, Carrying
    <3>3. ItemTypes' /\ HandsFree'
      BY <1>0, <1>8, <2>2, <3>1 DEF FlushLogger, ItemTypes, HandsFree, Pcs, PostPcs, Carrying
    <3> QED
      BY <1>8, <2>2, <3>1, <3>2, <3>3 DEF FlushLogger, TakesOther, TypesKept, Kind
  <2> QED
    BY <1>8, <2>1, <2>2 DEF FlushLogger
<1>9. CASE FlusherWakes \/ FlusherUnlocks
  BY <1>0, <1>9, MovesOnTypes DEF MovesOn, FlusherWakes, FlusherUnlocks, ItemTypes, Pcs, FlusherPcs, Carrying
<1>10. CASE Shutdown \/ MainStep \/ ReplacePool
  <2>1. pc' \in [Threads -> Pcs]
    BY <1>0, <1>10 DEF Shutdown, MainStep, StopTimer, JoinTimer, DropAll, ReplacePool,
                       RegistryDropsPool, ItemTypes, Pcs, PostPcs, MainPcs
  <2>2. \A s \in Threads : pc'[s] \in Carrying \/ pc[s] \notin Carrying
    BY <1>0, <1>10 DEF Shutdown, MainStep, StopTimer, JoinTimer, DropAll, ReplacePool,
                       RegistryDropsPool, ItemTypes, Carrying
  <2> QED
    BY <1>10, <2>1, <2>2, MovesOnTypes
       DEF MovesOn, Shutdown, MainStep, StopTimer, JoinTimer, DropAll, ReplacePool, RegistryDropsPool
<1>11. CASE UNCHANGED vars
  BY <1>0, <1>11, MovesOnTypes DEF MovesOn, vars, ItemTypes
<1> QED
  BY <1>1, <1>2, <1>3, <1>4, <1>5, <1>6, <1>7, <1>8, <1>9, <1>10, <1>11
     DEF Next, Posting, WorkerStep, FlusherStep

LEMMA PlaceNext == PlaceInv /\ [Next]_vars => PlaceInv'
<1> SUFFICES ASSUME PlaceInv, [Next]_vars PROVE PlaceInv'
  OBVIOUS
<1>1. TypesKept /\ Kind
  BY EveryKind DEF PlaceInv
<1> QED
  BY <1>1, MovesOnKeeps, TakesOtherKeeps, TakesNewKeeps, PutsKeeps, OverrunsKeeps, TakesKeeps,
     WritesKeeps DEF Kind

\* A set without two elements.
LEMMA AtMostOne ==
    ASSUME NEW S, \A x, y \in S : x = y
    PROVE  Cardinality(S) = IF S = {} THEN 0 ELSE 1
<1>1. CASE S = {}
  BY <1>1, FS_EmptySet
<1>2. CASE S # {}
  <2>1. PICK x \in S : TRUE
    BY <1>2
  <2>2. S = {x}
    BY <2>1
  <2> QED
    BY <1>2, <2>2, FS_Singleton
<1> QED
  BY <1>1, <1>2

\* Every message an application posted is, in every state, at one place: none is
\* lost between a logger, the queue, a worker and the sinks, and none is doubled.
THEOREM NothingLostNothingTwice == Spec => []InOnePlace
<1>1. PlaceInv => InOnePlace
  <2> SUFFICES ASSUME PlaceInv, NEW m \in accepted
               PROVE  Cardinality({t \in Threads : hand[t] = m})
                      + Cardinality({i \in DOMAIN queue : queue[i] = m})
                      + Cardinality({i \in DOMAIN written : written[i] = m})
                      + Cardinality({m} \cap overrun) = 1
    BY DEF InOnePlace
  <2>1. Placed(m, hand, queue, written, overrun)
    BY DEF PlaceInv, AllPlaced
  <2>2. DOMAIN queue = 1 .. Len(queue) /\ DOMAIN written = 1 .. Len(written)
    BY LenProperties DEF PlaceInv, ItemTypes
  <2> DEFINE H == {t \in Threads : hand[t] = m}
             Q == {i \in DOMAIN queue : queue[i] = m}
             W == {i \in DOMAIN written : written[i] = m}
             O == {m} \cap overrun
  <2>3. /\ Cardinality(H) = IF InHand(m, hand) THEN 1 ELSE 0
        /\ Cardinality(Q) = IF InSeq(m, queue) THEN 1 ELSE 0
        /\ Cardinality(W) = IF InSeq(m, written) THEN 1 ELSE 0
        /\ Cardinality(O) = IF m \in overrun THEN 1 ELSE 0
    <3>1. /\ \A x, y \in H : x = y
          /\ H = {} <=> ~InHand(m, hand)
      BY <2>1 DEF Placed, OnceInHand, InHand
    <3>2. /\ \A x, y \in Q : x = y
          /\ Q = {} <=> ~InSeq(m, queue)
      BY <2>1, <2>2 DEF Placed, OnceIn, InSeq
    <3>3. /\ \A x, y \in W : x = y
          /\ W = {} <=> ~InSeq(m, written)
      BY <2>1, <2>2 DEF Placed, OnceIn, InSeq
    <3>4. /\ \A x, y \in O : x = y
          /\ O = {} <=> m \notin overrun
      OBVIOUS
    <3> HIDE DEF H, Q, W, O
    <3> QED
      BY <3>1, <3>2, <3>3, <3>4, AtMostOne
  <2> HIDE DEF H, Q, W, O
  <2>4. Cardinality(H) + Cardinality(Q) + Cardinality(W) + Cardinality(O) = 1
    BY <2>1, <2>3 DEF Placed, Somewhere
  <2> QED
    BY <2>4 DEF H, Q, W, O
<1> QED
  BY <1>1, PlaceInit, PlaceNext, PTL DEF Spec

-----------------------------------------------------------------------------
(* With one worker the messages of a thread stay in order.                 *)

\* x may come before y.
Le(x, y) == OfApps(x) /\ OfApps(y) /\ x.from = y.from => x.id <= y.id
Sorted(s) == \A i, j \in 1 .. Len(s) : i < j => Le(s[i], s[j])
Els(s) == {s[i] : i \in 1 .. Len(s)}
Before(A, B) == \A x \in A, y \in B : Le(x, y)

\* A message goes from the hand of its thread through the queue and the hand of
\* the only worker w to the sinks, and none passes another.
InLine(w, h, q, wr) ==
    /\ \A t \in Threads : t = w \/ ~OfApps(h[t]) \/ h[t].from = t
    /\ Sorted(wr) /\ Sorted(q)
    /\ Before(Els(wr), {h[w]}) /\ Before(Els(wr), Els(q)) /\ Before({h[w]}, Els(q))
    /\ \A a \in Apps : Before(Els(wr) \cup {h[w]} \cup Els(q), {h[a]})

\* Only the crew works, and workers do not post.
CrewWorks ==
    \A w \in Workers : pc[w] \in WorkerPcs /\ (w \notin crew => pc[w] = "unused")

OnlyAppsWritten == \A i \in 1 .. Len(written) : OfApps(written[i])

LineInv ==
    /\ PlaceInv /\ CrewWorks /\ OnlyAppsWritten /\ crew \in Crews
    /\ \A w \in Workers : crew = {w} => InLine(w, hand, queue, written)

LEMMA LeLemma ==
    ASSUME NEW x, NEW y
    PROVE  ~OfApps(x) \/ ~OfApps(y) \/ x.from # y.from => Le(x, y)
  BY DEF Le

LEMMA AppendSorted ==
    ASSUME NEW S, NEW s \in Seq(S), NEW e \in S
    PROVE  /\ Els(Append(s, e)) = Els(s) \cup {e}
           /\ Sorted(s) /\ Before(Els(s), {e}) => Sorted(Append(s, e))
<1>1. /\ Len(Append(s, e)) = Len(s) + 1 /\ Len(s) \in Nat
      /\ \A i \in 1 .. Len(s) : Append(s, e)[i] = s[i]
      /\ Append(s, e)[Len(s) + 1] = e
  BY AppendProperties, LenProperties
<1>2. \A i \in 1 .. Len(s) + 1 : i \in 1 .. Len(s) \/ i = Len(s) + 1
  BY <1>1
<1>3. 1 .. Len(s) \subseteq 1 .. Len(s) + 1 /\ Len(s) + 1 \in 1 .. Len(s) + 1
  BY <1>1
<1>4. Els(Append(s, e)) = Els(s) \cup {e}
  BY <1>1, <1>2, <1>3 DEF Els
<1>5. ASSUME Sorted(s), Before(Els(s), {e}) PROVE Sorted(Append(s, e))
  <2> SUFFICES ASSUME NEW i \in 1 .. Len(s) + 1, NEW j \in 1 .. Len(s) + 1, i < j
               PROVE  Le(Append(s, e)[i], Append(s, e)[j])
    BY <1>1 DEF Sorted
  <2>1. i \in 1 .. Len(s)
    BY <1>1
  <2>2. CASE j \in 1 .. Len(s)
    BY <1>1, <1>5, <2>1, <2>2 DEF Sorted
  <2>3. CASE j = Len(s) + 1
    <3>1. s[i] \in Els(s)
      BY <2>1 DEF Els
    <3> QED
      BY <1>1, <1>5, <2>1, <2>3, <3>1 DEF Before
  <2> QED
    BY <1>2, <2>2, <2>3
<1> QED
  BY <1>4, <1>5

LEMMA TailSorted ==
    ASSUME NEW S, NEW s \in Seq(S), s # <<>>
    PROVE  /\ Els(s) = Els(Tail(s)) \cup {Head(s)}
           /\ Sorted(s) => Sorted(Tail(s)) /\ Before({Head(s)}, Els(Tail(s)))
<1>1. /\ Tail(s) \in Seq(S) /\ Len(Tail(s)) = Len(s) - 1
      /\ \A i \in 1 .. Len(Tail(s)) : Tail(s)[i] = s[i + 1]
  BY HeadTailProperties
<1>2. Len(s) \in Nat \ {0} /\ Head(s) = s[1] /\ 1 \in 1 .. Len(s)
  BY EmptySeq
<1>3. \A i \in 1 .. Len(Tail(s)) : i + 1 \in 1 .. Len(s) /\ 1 < i + 1
  BY <1>1, <1>2
<1>4. Els(s) = Els(Tail(s)) \cup {Head(s)}
  <2>1. \A m : m \in Els(s) <=> InSeq(m, s)
    BY DEF Els, InSeq
  <2>2. \A m : m \in Els(Tail(s)) <=> InSeq(m, Tail(s))
    BY DEF Els, InSeq
  <2>3. ASSUME NEW m PROVE InSeq(m, s) <=> InSeq(m, Tail(s)) \/ m = Head(s)
    BY TailPlaces
  <2> QED
    BY <2>1, <2>2, <2>3
<1>5. ASSUME Sorted(s) PROVE Sorted(Tail(s))
  <2> SUFFICES ASSUME NEW i \in 1 .. Len(Tail(s)), NEW j \in 1 .. Len(Tail(s)), i < j
               PROVE  Le(Tail(s)[i], Tail(s)[j])
    BY DEF Sorted
  <2>1. i + 1 < j + 1
    OBVIOUS
  <2> QED
    BY <1>1, <1>3, <1>5, <2>1 DEF Sorted
<1>6. ASSUME Sorted(s) PROVE Before({Head(s)}, Els(Tail(s)))
  <2> SUFFICES ASSUME NEW i \in 1 .. Len(Tail(s)) PROVE Le(Head(s), Tail(s)[i])
    BY DEF Before, Els
  <2> QED
    BY <1>1, <1>2, <1>3, <1>6 DEF Sorted
<1> QED
  BY <1>4, <1>5, <1>6

\* What an application holds or the sinks got can stand before the next message.
LEMMA OldBeforeNew ==
    ASSUME PlaceInv, NEW x, x.id = count + 1, NEW m \in Items,
           Somewhere(m, hand, queue, written, overrun)
    PROVE  Le(m, x)
<1>1. CASE OfApps(m)
  <2>1. m.id <= count /\ m # NoMsg /\ count \in Nat
    BY <1>1, NoMsgLemma DEF PlaceInv, AllKnown, ByCount, ItemTypes
  <2>2. m.id \in Nat
    BY <2>1 DEF Items
  <2> QED
    BY <2>1, <2>2 DEF Le
<1>2. CASE ~OfApps(m)
  BY <1>2, LeLemma
<1> QED
  BY <1>1, <1>2

LEMMA TakesOtherInLine ==
    ASSUME PlaceInv, NEW w \in Workers, InLine(w, hand, queue, written),
           NEW t \in Threads, NEW x \in Items, TakesOther(t, x)
    PROVE  InLine(w, hand', queue', written')
<1> USE NoMsgLemma
<1>1. \A u \in Threads : hand'[u] = hand[u] \/ ~OfApps(hand'[u])
  BY DEF TakesOther, PlaceInv, ItemTypes
<1>2. \A m, u : u \in Threads => (Le(m, hand[u]) => Le(m, hand'[u])) /\ (Le(hand[u], m) => Le(hand'[u], m))
  BY <1>1, LeLemma
<1>3. \A m : \A a \in Apps : Le(hand[w], hand[a]) => Le(hand'[w], hand'[a])
  BY <1>1, LeLemma
<1> QED
  BY <1>1, <1>2, <1>3 DEF TakesOther, InLine, Before

LEMMA TakesNewInLine ==
    ASSUME PlaceInv, NEW w \in Workers, InLine(w, hand, queue, written),
           NEW b \in Apps, NEW x \in Items, TakesNew(b, x)
    PROVE  InLine(w, hand', queue', written')
<1> USE NoMsgLemma
<1>1. /\ b # w /\ w \in Threads /\ b \in Threads
      /\ hand'[b] = x /\ \A u \in Threads : u # b => hand'[u] = hand[u]
      /\ UNCHANGED <<queue, written>> /\ x.id = count + 1 /\ x.from = b
  BY AsyncThreadsAssumption DEF TakesNew, PlaceInv, ItemTypes
<1>2. \A m \in Els(written) \cup {hand[w]} \cup Els(queue) : Le(m, x)
  <2>1. hand[w] \in Items /\ InHand(hand[w], hand)
    BY <1>1 DEF PlaceInv, ItemTypes, InHand
  <2>2. \A m \in Els(queue) : m \in Items /\ InSeq(m, queue)
    BY ElementOfSeq DEF Els, InSeq, PlaceInv, ItemTypes
  <2>3. \A m \in Els(written) : m \in Items /\ InSeq(m, written)
    BY ElementOfSeq DEF Els, InSeq, PlaceInv, ItemTypes
  <2> QED
    BY <1>1, <2>1, <2>2, <2>3, OldBeforeNew DEF Somewhere
<1>3. \A a \in Apps : Before(Els(written) \cup {hand[w]} \cup Els(queue), {hand'[a]})
  BY <1>1, <1>2 DEF InLine, Before
<1> QED
  BY <1>1, <1>3 DEF InLine

\* The thread that puts a message is no worker.
LEMMA GivenInLine ==
    ASSUME PlaceInv, NEW w \in Workers, InLine(w, hand, queue, written),
           NEW t \in Threads, t # w, hand' = [hand EXCEPT ![t] = NoMsg],
           written' = written, NEW q \in Seq(Items), Els(q) \subseteq Els(queue), Sorted(q),
           queue' = Append(q, hand[t])
    PROVE  InLine(w, hand', queue', written')
<1> USE NoMsgLemma
<1>1. /\ hand[t] \in Items /\ ~OfApps(hand'[t]) /\ w \in Threads
      /\ \A u \in Threads : u # t => hand'[u] = hand[u]
  BY DEF PlaceInv, ItemTypes
<1>2. \A m \in Els(written) \cup {hand[w]} \cup Els(queue) : Le(m, hand[t])
  <2>1. CASE t \in Apps
    BY <2>1 DEF InLine, Before
  <2>2. CASE t \notin Apps
    <3>1. ~OfApps(hand[t])
      BY <2>2 DEF InLine, OfApps
    <3> QED
      BY <3>1, LeLemma
  <2> QED
    BY <2>1, <2>2
<1>3. /\ Els(queue') = Els(q) \cup {hand[t]}
      /\ Sorted(q) /\ Before(Els(q), {hand[t]}) => Sorted(queue')
  <2>1. /\ Els(Append(q, hand[t])) = Els(q) \cup {hand[t]}
        /\ Sorted(q) /\ Before(Els(q), {hand[t]}) => Sorted(Append(q, hand[t]))
    BY <1>1, AppendSorted
  <2> QED
    BY <1>1, <2>1, Zenon
<1>4. Sorted(queue')
  BY <1>2, <1>3 DEF Before
<1>5. \A a \in Apps : Le(hand[t], hand'[a])
  <2> SUFFICES ASSUME NEW a \in Apps PROVE Le(hand[t], hand'[a])
    OBVIOUS
  <2>1. CASE a = t
    BY <1>1, <2>1, LeLemma
  <2>2. CASE a # t
    <3>1. a # w /\ hand'[a] = hand[a]
      BY <1>1, <2>2, AsyncThreadsAssumption
    <3>2. ~OfApps(hand[t]) \/ ~OfApps(hand[a]) \/ hand[t].from # hand[a].from
      BY <2>2, <3>1 DEF InLine
    <3> QED
      BY <3>1, <3>2, LeLemma
  <2> QED
    BY <2>1, <2>2
<1>6. \A a \in Apps : \A m : Le(m, hand[a]) => Le(m, hand'[a])
  <2> SUFFICES ASSUME NEW a \in Apps, NEW m, Le(m, hand[a]) PROVE Le(m, hand'[a])
    OBVIOUS
  <2>1. CASE a = t
    BY <1>1, <2>1, LeLemma
  <2> QED
    BY <1>1, <2>1
<1>7. \A u \in Threads : u = w \/ ~OfApps(hand'[u]) \/ hand'[u].from = u
  BY <1>1 DEF InLine
<1>8. Before(Els(written), Els(queue')) /\ Before({hand[w]}, Els(queue'))
  BY <1>2, <1>3 DEF InLine, Before
<1>9. \A a \in Apps : Before(Els(written) \cup {hand[w]} \cup Els(queue'), {hand'[a]})
  <2> SUFFICES ASSUME NEW a \in Apps, NEW m \in Els(written) \cup {hand[w]} \cup Els(queue')
               PROVE  Le(m, hand'[a])
    BY DEF Before
  <2>1. CASE m = hand[t]
    BY <1>5, <2>1
  <2>2. CASE m # hand[t]
    <3>1. m \in Els(written) \cup {hand[w]} \cup Els(queue)
      BY <1>3, <2>2
    <3>2. Le(m, hand[a])
      BY <3>1 DEF InLine, Before
    <3> QED
      BY <1>6, <3>2
  <2> QED
    BY <2>1, <2>2
<1> QED
  BY <1>1, <1>4, <1>7, <1>8, <1>9 DEF InLine

LEMMA PutsInLine ==
    ASSUME PlaceInv, CrewWorks, NEW w \in Workers, InLine(w, hand, queue, written),
           NEW t \in Threads, Puts(t) \/ Overruns(t)
    PROVE  InLine(w, hand', queue', written')
<1>1. t # w /\ queue \in Seq(Items)
  BY DEF CrewWorks, WorkerPcs, Puts, Overruns, PlaceInv, ItemTypes
<1>2. CASE Puts(t)
  BY <1>1, <1>2, GivenInLine DEF Puts, InLine
<1>3. CASE Overruns(t)
  <2>1. Tail(queue) \in Seq(Items) /\ Els(Tail(queue)) \subseteq Els(queue) /\ Sorted(Tail(queue))
    BY <1>1, <1>3, TailSorted, HeadTailProperties DEF Overruns, InLine
  <2> QED
    BY <1>1, <1>3, <2>1, GivenInLine DEF Overruns
<1> QED
  BY <1>2, <1>3

LEMMA TakesInLine ==
    ASSUME PlaceInv, CrewWorks, NEW w \in Workers, crew = {w}, InLine(w, hand, queue, written),
           NEW v \in Workers, Takes(v)
    PROVE  InLine(w, hand', queue', written')
<1> USE NoMsgLemma
<1>1. v = w
  BY DEF CrewWorks, Takes
<1>2. /\ queue \in Seq(Items) /\ queue # <<>> /\ queue' = Tail(queue) /\ written' = written
      /\ w \in Threads /\ hand'[w] = Head(queue)
      /\ \A u \in Threads : u # w => hand'[u] = hand[u]
  BY <1>1 DEF Takes, PlaceInv, ItemTypes
<1>3. /\ Els(queue) = Els(queue') \cup {hand'[w]}
      /\ Sorted(queue) => Sorted(queue') /\ Before({hand'[w]}, Els(queue'))
  BY <1>2, TailSorted
<1>4. \A a \in Apps : hand'[a] = hand[a]
  BY <1>2, AsyncThreadsAssumption
<1>5. Before(Els(written), {hand'[w]}) /\ Before(Els(written), Els(queue'))
  BY <1>3 DEF InLine, Before
<1>6. \A a \in Apps : Before(Els(written) \cup {hand'[w]} \cup Els(queue'), {hand'[a]})
  BY <1>3, <1>4 DEF InLine, Before
<1> QED
  BY <1>2, <1>3, <1>5, <1>6 DEF InLine

LEMMA WritesInLine ==
    ASSUME PlaceInv, CrewWorks, NEW w \in Workers, crew = {w}, InLine(w, hand, queue, written),
           NEW v \in Workers, Writes(v)
    PROVE  InLine(w, hand', queue', written')
<1> USE NoMsgLemma
<1>1. v = w
  BY DEF CrewWorks, Writes, WorkerPcs
<1>2. /\ written \in Seq(Items) /\ hand[w] \in Items /\ written' = Append(written, hand[w])
      /\ queue' = queue /\ w \in Threads /\ ~OfApps(hand'[w])
      /\ \A u \in Threads : u # w => hand'[u] = hand[u]
  BY <1>1 DEF Writes, PlaceInv, ItemTypes
<1>3. /\ Els(written') = Els(written) \cup {hand[w]}
      /\ Sorted(written) /\ Before(Els(written), {hand[w]}) => Sorted(written')
  <2>1. /\ Els(Append(written, hand[w])) = Els(written) \cup {hand[w]}
        /\ Sorted(written) /\ Before(Els(written), {hand[w]}) => Sorted(Append(written, hand[w]))
    BY <1>2, AppendSorted
  <2> QED
    BY <1>2, <2>1, Zenon
<1>4. \A a \in Apps : hand'[a] = hand[a]
  BY <1>2, AsyncThreadsAssumption
<1>5. \A m : Le(m, hand'[w]) /\ Le(hand'[w], m)
  BY <1>2, LeLemma
<1>6. Before(Els(written'), Els(queue)) /\ Before(Els(written'), {hand'[w]})
      /\ Before({hand'[w]}, Els(queue))
  BY <1>3, <1>5 DEF InLine, Before
<1>7. \A a \in Apps : Before(Els(written') \cup {hand'[w]} \cup Els(queue), {hand'[a]})
  BY <1>3, <1>4, <1>5 DEF InLine, Before
<1> QED
  BY <1>2, <1>3, <1>6, <1>7 DEF InLine

LEMMA CrewNext == ItemTypes /\ CrewWorks /\ [Next]_vars => CrewWorks' /\ crew' = crew
<1> SUFFICES ASSUME ItemTypes, CrewWorks, [Next]_vars PROVE CrewWorks' /\ crew' = crew
  OBVIOUS
<1> USE AsyncThreadsAssumption
<1> USE DEF ItemTypes, CrewWorks, WorkerPcs, pool, registry, timer, calls, Goto, At, Threads
<1>1. ASSUME NEW a \in Apps, NEW type \in {"log", "flush"}, AppLogs(a, type)
      PROVE  CrewWorks' /\ crew' = crew
  BY <1>1 DEF AppLogs
<1>2. ASSUME NEW t \in Threads, Enqueue(t) PROVE CrewWorks' /\ crew' = crew
  BY <1>2 DEF Enqueue, EnqueueNoWait, EnqueueBlocking
<1>3. ASSUME NEW t \in Threads, NotifyPush(t) PROVE CrewWorks' /\ crew' = crew
  BY <1>3 DEF NotifyPush, NotifyOne
<1>4. ASSUME NEW t \in Threads, DropPool(t) \/ Destroy(t) \/ JoinWorkers(t)
      PROVE  CrewWorks' /\ crew' = crew
  BY <1>4 DEF DropPool, Destroy, DestroyWith, JoinWorkers
<1>5. ASSUME NEW w \in Workers, Dequeue(w) \/ DequeueTimeout(w)
      PROVE  CrewWorks' /\ crew' = crew
  BY <1>5 DEF Dequeue, DequeueTimeout
<1>6. ASSUME NEW w \in Workers, NotifyPop(w) PROVE CrewWorks' /\ crew' = crew
  BY <1>6 DEF NotifyPop, NotifyOne
<1>7. ASSUME NEW w \in Workers, Process(w) \/ ProcessTerminate(w)
      PROVE  CrewWorks' /\ crew' = crew
  BY <1>7 DEF Process, ProcessTerminate
<1>8. CASE FlushLogger \/ FlusherWakes \/ FlusherUnlocks
  BY <1>8 DEF FlushLogger, FlusherWakes, FlusherUnlocks
<1>9. CASE Shutdown \/ MainStep \/ ReplacePool
  BY <1>9 DEF Shutdown, MainStep, StopTimer, JoinTimer, DropAll, ReplacePool, RegistryDropsPool
<1>10. CASE UNCHANGED vars
  BY <1>10 DEF vars
<1> QED
  BY <1>1, <1>2, <1>3, <1>4, <1>5, <1>6, <1>7, <1>8, <1>9, <1>10
     DEF Next, Posting, WorkerStep, FlusherStep

LEMMA LineInit == Init => LineInv
<1> SUFFICES ASSUME Init PROVE LineInv
  OBVIOUS
<1> USE NoMsgLemma
<1>1. Len(queue) = 0 /\ Len(written) = 0 /\ crew \in Crews
      /\ \A t \in Threads : hand[t] = NoMsg /\ pc[t] = StartsAt(t)
  BY DEF Init
<1>2. Els(queue) = {} /\ Els(written) = {} /\ Sorted(queue) /\ Sorted(written)
  BY <1>1 DEF Els, Sorted
<1>3. \A m : Le(m, NoMsg)
  BY LeLemma
<1>4. \A w \in Workers : InLine(w, hand, queue, written)
  BY <1>1, <1>2, <1>3 DEF InLine, Before
<1>5. CrewWorks
  BY <1>1, AsyncThreadsAssumption DEF CrewWorks, WorkerPcs, StartsAt
<1>6. OnlyAppsWritten
  BY <1>1 DEF OnlyAppsWritten
<1> QED
  BY <1>1, <1>4, <1>5, <1>6, PlaceInit DEF LineInv

LEMMA LineNext == LineInv /\ [Next]_vars => LineInv'
<1> SUFFICES ASSUME LineInv, [Next]_vars PROVE LineInv'
  OBVIOUS
<1>1. PlaceInv' /\ Kind
  BY PlaceNext, EveryKind DEF LineInv, PlaceInv
<1>2. CrewWorks' /\ crew' = crew
  BY CrewNext DEF LineInv, PlaceInv
<1>3. OnlyAppsWritten'
  <2>1. CASE UNCHANGED written
    BY <2>1 DEF LineInv, OnlyAppsWritten
  <2>2. ASSUME NEW w \in Workers, Writes(w) PROVE OnlyAppsWritten'
    <3>1. /\ written \in Seq(Items) /\ hand[w] \in Items /\ OfApps(hand[w])
          /\ written' = Append(written, hand[w])
      BY <2>2, NoMsgLemma DEF Writes, LineInv, PlaceInv, ItemTypes
    <3>2. /\ Len(written') = Len(written) + 1 /\ Len(written) \in Nat
          /\ \A i \in 1 .. Len(written) : written'[i] = written[i]
          /\ written'[Len(written) + 1] = hand[w]
      BY <3>1, AppendProperties, LenProperties
    <3>3. \A i \in 1 .. Len(written) + 1 : i \in 1 .. Len(written) \/ i = Len(written) + 1
      BY <3>2
    <3> QED
      BY <3>1, <3>2, <3>3 DEF LineInv, OnlyAppsWritten
  <2> QED
    BY <1>1, <2>1, <2>2 DEF Kind, MovesOn, TakesOther, TakesNew, Puts, Overruns, Takes
<1>4. ASSUME NEW w \in Workers, crew = {w} PROVE InLine(w, hand', queue', written')
  <2>1. InLine(w, hand, queue, written) /\ PlaceInv /\ CrewWorks
    BY <1>4 DEF LineInv
  <2>2. CASE MovesOn
    <3>1. hand' = hand /\ queue' = queue /\ written' = written
      BY <2>2 DEF MovesOn
    <3> QED
      BY <2>1, <3>1
  <2> QED
    BY <1>1, <1>4, <2>1, <2>2, TakesOtherInLine, TakesNewInLine, PutsInLine, TakesInLine,
       WritesInLine DEF Kind
<1> QED
  BY <1>1, <1>2, <1>3, <1>4 DEF LineInv

\* With one worker the sinks get the messages and flushes of a thread in the
\* order of its calls, with any number of threads, whatever was overwritten or
\* woke the worker late.
THEOREM SinksInOrder == Spec => []InOrder
<1>1. LineInv => InOrder
  <2> SUFFICES ASSUME LineInv, Cardinality(crew) = 1, NEW i \in DOMAIN written,
                      NEW j \in DOMAIN written, i < j, written[i].from = written[j].from
               PROVE  written[i].id <= written[j].id
    BY DEF InOrder
  <2>1. crew \subseteq Workers /\ IsFiniteSet(crew)
    BY AsyncThreadsAssumption, FS_Subset DEF LineInv
  <2>2. PICK w : crew = {w}
    BY <2>1, FS_Singleton
  <2>3. DOMAIN written = 1 .. Len(written)
    BY LenProperties DEF LineInv, PlaceInv, ItemTypes
  <2>4. Sorted(written)
    BY <2>1, <2>2 DEF LineInv, InLine
  <2> QED
    BY <2>3, <2>4 DEF LineInv, OnlyAppsWritten, Sorted, Le
<1> QED
  BY <1>1, LineInit, LineNext, PTL DEF Spec

-----------------------------------------------------------------------------
(* Who holds the pool, and who destroys it.                                *)

\* The places of a post, of the release of the pool and of its destructor.
PostingPcs == {"post", "full_wait", "notify_push"}
EndingPcs == {"destroy", "join"}

\* A thread in the pool that holds it no more: it runs the destructor.
Ends(t) == pc[t] \in EndingPcs \/ (pc[t] \in PostingPcs /\ t \notin holders)

DropsHeld == \A t \in Threads : pc[t] = "drop_pool" => t \in holders
HoldersInside == \A t \in Threads : t \in holders => pc[t] \in PostingPcs \cup {"drop_pool"}
EndsAlone == \A t \in Threads : Ends(t) => holders = {} /\ \A u \in Threads : Ends(u) => u = t
GoneForAll == poolGone => holders = {} /\ \A t \in Threads : ~Ends(t)
OthersPost == \A t \in Threads \ Workers : pc[t] \in AppPcs \cup PostPcs \cup FlusherPcs \cup MainPcs

HoldInv == DropsHeld /\ HoldersInside /\ EndsAlone /\ GoneForAll

\* t stays in the pool with or without a hold of it, or outside.
Stays(t) ==
    \/ pc'[t] = pc[t]
    \/ {pc[t], pc'[t]} \cap PostPcs = {}
    \/ {pc[t], pc'[t]} \subseteq PostingPcs
    \/ t \in holders /\ {pc[t], pc'[t]} \subseteq PostingPcs \cup {"drop_pool"}
    \/ t \notin holders /\ {pc[t], pc'[t]} \subseteq PostingPcs \cup EndingPcs

LEMMA StaysHold ==
    ASSUME HoldInv, UNCHANGED <<holders, poolGone>>, \A t \in Threads : Stays(t)
    PROVE  HoldInv'
<1> USE DEF PostingPcs, EndingPcs, PostPcs, Stays, Ends
<1>1. \A t \in Threads : Ends(t)' => Ends(t)
  BY DEF HoldInv, HoldersInside, DropsHeld
<1>2. DropsHeld' /\ HoldersInside'
  BY DEF HoldInv, HoldersInside, DropsHeld
<1>3. EndsAlone' /\ GoneForAll'
  BY <1>1 DEF HoldInv, EndsAlone, GoneForAll
<1> QED
  BY <1>2, <1>3 DEF HoldInv

\* t takes hold of a pool that somebody has.
LEMMA TakesHold ==
    ASSUME HoldInv, pc \in [Threads -> Pcs], NEW t \in Threads, holders # {}, poolGone' = poolGone,
           holders' = holders \cup {t}, pc' = [pc EXCEPT ![t] = "post"]
    PROVE  HoldInv'
<1> USE DEF PostingPcs, EndingPcs, Ends
<1>1. \A u \in Threads : ~Ends(u)
  BY DEF HoldInv, EndsAlone
<1>2. \A u \in Threads : ~Ends(u)'
  BY <1>1
<1> QED
  BY <1>2 DEF HoldInv, DropsHeld, HoldersInside, EndsAlone, GoneForAll

\* h, a thread or the registry, lets go of the pool; t goes on, and destroys it if
\* h was the last.
LEMMA LetsGo ==
    ASSUME HoldInv, pc \in [Threads -> Pcs], NEW t \in Threads, NEW h, NEW l \in Pcs,
           h = t \/ h \notin Threads, h = t <=> pc[t] = "drop_pool", pc[t] \notin PostPcs \ {"drop_pool"},
           l \notin PostPcs, holders' = holders \ {h}, poolGone' = poolGone,
           pc' = [pc EXCEPT ![t] = IF holders = {h} THEN "destroy" ELSE l]
    PROVE  HoldInv'
<1> USE DEF PostingPcs, EndingPcs, PostPcs
<1>1. \A u \in Threads \ {t} : pc'[u] = pc[u] /\ (u \in holders' <=> u \in holders)
  OBVIOUS
<1>2. DropsHeld' /\ HoldersInside'
  BY <1>1 DEF HoldInv, DropsHeld, HoldersInside
<1>3. CASE holders = {h}
  <2>1. \A u \in Threads : ~Ends(u)
    BY <1>3 DEF HoldInv, EndsAlone
  <2>2. \A u \in Threads \ {t} : ~Ends(u)'
    BY <1>1, <2>1 DEF Ends
  <2>3. holders' = {} /\ ~poolGone'
    BY <1>3 DEF HoldInv, GoneForAll
  <2> QED
    BY <1>2, <2>2, <2>3 DEF HoldInv, EndsAlone, GoneForAll
<1>4. CASE holders # {h}
  <2>1. pc'[t] = l /\ t \notin holders'
    BY <1>4 DEF HoldInv, HoldersInside
  <2>2. ~Ends(t)'
    BY <2>1 DEF Ends
  <2>3. \A u \in Threads : Ends(u)' => Ends(u)
    BY <1>1, <2>2 DEF Ends
  <2> QED
    BY <1>2, <2>3 DEF HoldInv, EndsAlone, GoneForAll
<1> QED
  BY <1>3, <1>4

\* The destructor returns.
LEMMA JoinsHold ==
    ASSUME HoldInv, pc \in [Threads -> Pcs], NEW t \in Threads, pc[t] = "join", NEW l \in Pcs,
           l \notin PostPcs, holders' = holders, pc' = [pc EXCEPT ![t] = l]
    PROVE  HoldInv'
<1> USE DEF PostingPcs, EndingPcs, PostPcs
<1>1. /\ holders = {} /\ ~Ends(t)'
      /\ \A u \in Threads \ {t} : ~Ends(u) /\ pc'[u] = pc[u]
  BY DEF HoldInv, EndsAlone, Ends
<1>2. \A u \in Threads : ~Ends(u)'
  BY <1>1 DEF Ends
<1> QED
  BY <1>1, <1>2 DEF HoldInv, DropsHeld, HoldersInside, EndsAlone, GoneForAll

LEMMA ResumeLemma == \A t \in Threads : Resume(t) \in Pcs \ PostPcs
  BY DEF Resume, Pcs, AppPcs, PostPcs, WorkerPcs, FlusherPcs, MainPcs

LEMMA HoldNext == ItemTypes /\ HoldInv /\ [Next]_vars => HoldInv'
<1> SUFFICES ASSUME ItemTypes, HoldInv, [Next]_vars PROVE HoldInv'
  OBVIOUS
<1> USE NoMsgLemma, FlusherIsNoApp
<1> USE DEF pool, registry, timer, calls, Goto, At
<1>0. pc \in [Threads -> Pcs]
  BY DEF ItemTypes
<1>1. ASSUME NEW a \in Apps, NEW type \in {"log", "flush"}, AppLogs(a, type) PROVE HoldInv'
  <2>1. CASE holders = {}
    BY <1>1, <2>1, StaysHold DEF AppLogs, Stays
  <2>2. CASE holders # {}
    BY <1>0, <1>1, <2>2, TakesHold DEF AppLogs
  <2> QED
    BY <2>1, <2>2
<1>2. ASSUME NEW t \in Threads, Enqueue(t) PROVE HoldInv'
  <2>1. UNCHANGED <<holders, poolGone>> /\ \A u \in Threads : Stays(u)
    BY <1>0, <1>2 DEF Enqueue, EnqueueNoWait, EnqueueBlocking, Stays, PostingPcs
  <2> QED
    BY <2>1, StaysHold
<1>3. ASSUME NEW t \in Threads, NotifyPush(t) PROVE HoldInv'
  <2>1. UNCHANGED <<holders, poolGone>> /\ \A u \in Threads : Stays(u)
    BY <1>0, <1>3 DEF NotifyPush, NotifyOne, Posted, Stays, PostingPcs, PostPcs, EndingPcs
  <2> QED
    BY <2>1, StaysHold
<1>4. ASSUME NEW t \in Threads, DropPool(t) PROVE HoldInv'
  BY <1>0, <1>4, LetsGo, ResumeLemma DEF DropPool
<1>5. ASSUME NEW t \in Threads, Destroy(t) PROVE HoldInv'
  <2>1. t \notin holders
    BY <1>5 DEF Destroy, DestroyWith, HoldInv, HoldersInside, PostingPcs
  <2>2. UNCHANGED <<holders, poolGone>> /\ \A u \in Threads : Stays(u)
    BY <1>0, <1>5, <2>1 DEF Destroy, DestroyWith, Stays, PostingPcs, EndingPcs
  <2> QED
    BY <2>2, StaysHold
<1>6. ASSUME NEW t \in Threads, JoinWorkers(t) PROVE HoldInv'
  BY <1>0, <1>6, JoinsHold, ResumeLemma DEF JoinWorkers
<1>7. ASSUME NEW w \in Workers, Dequeue(w) \/ DequeueTimeout(w) \/ Process(w) \/ ProcessTerminate(w)
      PROVE  HoldInv'
  <2>1. UNCHANGED <<holders, poolGone>> /\ \A u \in Threads : Stays(u)
    BY <1>0, <1>7 DEF Dequeue, DequeueTimeout, Process, ProcessTerminate, Stays, PostPcs
  <2> QED
    BY <2>1, StaysHold
<1>8. ASSUME NEW w \in Workers, NotifyPop(w) PROVE HoldInv'
  <2>1. UNCHANGED <<holders, poolGone>> /\ \A u \in Threads : Stays(u)
    BY <1>0, <1>8 DEF NotifyPop, NotifyOne, Stays, PostPcs, PostingPcs
  <2> QED
    BY <2>1, StaysHold
<1>9. CASE FlushLogger
  <2>1. CASE UNCHANGED holders
    <3>1. UNCHANGED <<holders, poolGone>> /\ \A u \in Threads : Stays(u)
      BY <1>0, <1>9, <2>1 DEF FlushLogger, Stays, PostPcs, HoldInv, HoldersInside, PostingPcs
    <3> QED
      BY <3>1, StaysHold
  <2>2. CASE holders' # holders
    BY <1>0, <1>9, <2>2, TakesHold DEF FlushLogger
  <2> QED
    BY <2>1, <2>2
<1>10. CASE FlusherWakes \/ FlusherUnlocks \/ Shutdown \/ StopTimer \/ JoinTimer
  <2>1. UNCHANGED <<holders, poolGone>> /\ \A u \in Threads : Stays(u)
    BY <1>0, <1>10 DEF FlusherWakes, FlusherUnlocks, Shutdown, StopTimer, JoinTimer, Stays, PostPcs
  <2> QED
    BY <2>1, StaysHold
<1>11. CASE DropAll \/ ReplacePool
  <2>1. /\ pc[Main] \in {"drop_all", "running"} /\ poolGone' = poolGone
        /\ holders' = holders \ {"registry"}
        /\ pc' = [pc EXCEPT ![Main] = IF holders = {"registry"} THEN "destroy" ELSE "returned"]
    BY <1>11 DEF DropAll, ReplacePool, RegistryDropsPool
  <2>2. "registry" \notin Threads
    BY AsyncThreadsAssumption
  <2>3. "returned" \in Pcs \ PostPcs
    BY DEF Pcs, PostPcs, MainPcs
  <2> QED
    BY <1>0, <2>1, <2>2, <2>3, LetsGo DEF PostPcs
<1>12. CASE UNCHANGED vars
  BY <1>12, StaysHold DEF vars, Stays
<1> QED
  BY <1>1, <1>2, <1>3, <1>4, <1>5, <1>6, <1>7, <1>8, <1>9, <1>10, <1>11, <1>12
     DEF Next, Posting, WorkerStep, FlusherStep, MainStep

LEMMA OthersNext == ItemTypes /\ OthersPost /\ [Next]_vars => OthersPost'
<1> SUFFICES ASSUME ItemTypes, OthersPost, [Next]_vars PROVE OthersPost'
  OBVIOUS
<1> USE AsyncThreadsAssumption, ResumeLemma
<1> USE DEF ItemTypes, OthersPost, AppPcs, PostPcs, FlusherPcs, MainPcs, pool, registry, timer, calls,
            Goto, At, Threads
<1>1. ASSUME NEW a \in Apps, NEW type \in {"log", "flush"}, AppLogs(a, type) PROVE OthersPost'
  BY <1>1 DEF AppLogs
<1>2. ASSUME NEW t \in Threads, Enqueue(t) PROVE OthersPost'
  BY <1>2 DEF Enqueue, EnqueueNoWait, EnqueueBlocking
<1>3. ASSUME NEW t \in Threads, NotifyPush(t) PROVE OthersPost'
  BY <1>3 DEF NotifyPush, NotifyOne, Posted
<1>4. ASSUME NEW t \in Threads, DropPool(t) \/ Destroy(t) \/ JoinWorkers(t) PROVE OthersPost'
  BY <1>4 DEF DropPool, Destroy, DestroyWith, JoinWorkers, Resume
<1>5. ASSUME NEW w \in Workers, WorkerStep(w) \/ DequeueTimeout(w) PROVE OthersPost'
  <2>1. \A t \in Threads \ Workers : pc'[t] \in {pc[t], "post"}
    BY <1>5 DEF WorkerStep, Dequeue, NotifyPop, NotifyOne, Process, ProcessTerminate, DequeueTimeout
  <2> QED
    BY <2>1
<1>6. CASE FlushLogger \/ FlusherWakes \/ FlusherUnlocks
  BY <1>6 DEF FlushLogger, FlusherWakes, FlusherUnlocks
<1>7. CASE Shutdown \/ MainStep \/ ReplacePool
  BY <1>7 DEF Shutdown, MainStep, StopTimer, JoinTimer, DropAll, ReplacePool, RegistryDropsPool
<1>8. CASE UNCHANGED vars
  BY <1>8 DEF vars
<1> QED
  BY <1>1, <1>2, <1>3, <1>4, <1>5, <1>6, <1>7, <1>8 DEF Next, Posting, FlusherStep

-----------------------------------------------------------------------------
(* Where the terminate messages are.                                       *)

OfferPcs == {"post", "full_wait"}
IsTerm(m) == m.type = "terminate"

\* The workers that have taken a terminate message; a thread that brings one.
Took == {w \in crew : pc[w] = "exited" \/ IsTerm(hand[w])}
Offering(t) == pc[t] \in OfferPcs /\ t \notin holders
Offered == IF \E t \in Threads : Offering(t) THEN 1 ELSE 0

\* In q the terminate messages follow the first k, which are others.
TermsAfter(q, k) == k \in 0 .. Len(q) /\ \A i \in 1 .. Len(q) : IsTerm(q[i]) <=> i > k

\* Every terminate message that was made is with a worker, in the queue or on its
\* way there, and no worker takes one before the messages posted earlier.
Balance(k) ==
    /\ TermsAfter(queue, k) /\ (Took # {} => k = 0)
    /\ terminates = Cardinality(Took) + (Len(queue) - k) + Offered

TermHeld == \A t \in Threads : pc[t] \in OfferPcs => (IsTerm(hand[t]) <=> t \notin holders)
EndsBegun ==
    /\ terminates \in Nat /\ terminates <= Cardinality(crew) /\ (terminates > 0 => holders = {})
    /\ \A t \in Threads : pc[t] = "join" => terminates = Cardinality(crew)
CountInv == TermHeld /\ EndsBegun /\ \E k : Balance(k)
GoneInv == poolGone => queue = <<>> /\ \A w \in crew : pc[w] = "exited"

DrainInv ==
    PlaceInv /\ CrewWorks /\ crew \in Crews /\ OthersPost /\ HoldInv /\ CountInv /\ GoneInv

LEMMA CrewLemma ==
    ASSUME crew \in Crews
    PROVE  /\ crew \subseteq Workers /\ crew # {} /\ crew \subseteq Threads
           /\ IsFiniteSet(crew) /\ Cardinality(crew) \in Nat
           /\ IsFiniteSet(Took) /\ Cardinality(Took) \in Nat
           /\ Cardinality(Took) = 0 <=> Took = {}
  BY AsyncThreadsAssumption, FS_Subset, FS_EmptySet, FS_CardinalityType DEF Took, Threads

\* While somebody holds the pool no terminate message was made.
LEMMA NoneWhileHeld ==
    ASSUME CountInv, crew \in Crews, queue \in Seq(Items), holders # {}
    PROVE  /\ terminates = 0 /\ Took = {} /\ \A t \in Threads : ~Offering(t)
           /\ Balance(Len(queue)) /\ \A i \in 1 .. Len(queue) : ~IsTerm(queue[i])
<1>1. terminates = 0
  BY DEF CountInv, EndsBegun
<1>2. PICK k : Balance(k)
  BY DEF CountInv
<1>3. Cardinality(Took) \in Nat /\ Len(queue) - k \in Nat /\ Offered \in 0 .. 1
  BY <1>2, CrewLemma, LenProperties DEF Balance, TermsAfter, Offered
<1>4. Cardinality(Took) = 0 /\ Len(queue) = k /\ Offered = 0
  BY <1>1, <1>2, <1>3, LenProperties DEF Balance, TermsAfter
<1>5. Took = {} /\ \A t \in Threads : ~Offering(t)
  BY <1>4, CrewLemma DEF Offered
<1> QED
  BY <1>1, <1>2, <1>4, <1>5 DEF Balance, TermsAfter

\* A step that changes neither the messages nor who brings one.
Moves(t) ==
    \/ pc'[t] = pc[t] /\ (t \in holders' <=> t \in holders)
    \/ {pc[t], pc'[t]} \subseteq OfferPcs /\ (t \in holders' <=> t \in holders)
    \/ /\ {pc[t], pc'[t]} \cap OfferPcs = {} /\ pc'[t] # "join"
       /\ t \in Workers => "exited" \notin {pc[t], pc'[t]}

LEMMA MovesCount ==
    ASSUME CountInv, crew \in Crews, UNCHANGED <<hand, queue, terminates, crew>>,
           holders = {} => holders' = {}, \A t \in Threads : Moves(t)
    PROVE  CountInv'
<1> USE DEF OfferPcs, Moves
<1>1. \A t \in Threads : Offering(t)' <=> Offering(t)
  BY DEF Offering
<1>2. Offered' = Offered
  BY <1>1 DEF Offered
<1>3. Took' = Took
  BY CrewLemma DEF Took
<1>4. TermHeld' /\ EndsBegun'
  BY DEF CountInv, TermHeld, EndsBegun
<1> QED
  BY <1>2, <1>3, <1>4 DEF CountInv, Balance, TermsAfter

\* An application, or the flusher, brings a message of its own.
LEMMA BringsCount ==
    ASSUME CountInv, ItemTypes, crew \in Crews, holders # {}, NEW t \in Threads \ Workers, NEW x,
           ~IsTerm(x), hand' = [hand EXCEPT ![t] = x], pc' = [pc EXCEPT ![t] = "post"],
           holders' = holders \cup {t}, UNCHANGED <<queue, terminates, crew>>
    PROVE  CountInv'
<1> USE DEF OfferPcs, ItemTypes
<1>1. /\ terminates = 0 /\ Took = {} /\ \A u \in Threads : ~Offering(u)
      /\ Balance(Len(queue))
  BY NoneWhileHeld
<1>2. \A u \in Threads : ~Offering(u)'
  BY <1>1 DEF Offering
<1>3. Offered' = Offered
  BY <1>1, <1>2 DEF Offered
<1>4. Took' = Took
  BY CrewLemma DEF Took
<1>5. TermHeld' /\ EndsBegun'
  BY <1>1 DEF CountInv, TermHeld, EndsBegun
<1> QED
  BY <1>1, <1>3, <1>4, <1>5 DEF CountInv, Balance, TermsAfter

\* A thread that holds the pool puts its message into the queue, and perhaps
\* overwrites the oldest.
LEMMA HeldPutsCount ==
    ASSUME CountInv, ItemTypes, crew \in Crews, NEW t \in Threads \ Workers, t \in holders,
           pc[t] \in OfferPcs, hand' = [hand EXCEPT ![t] = NoMsg],
           pc' = [pc EXCEPT ![t] = "notify_push"], NEW q \in Seq(Items), queue' = Append(q, hand[t]),
           \A i \in 1 .. Len(q) : ~IsTerm(q[i]), UNCHANGED <<holders, terminates, crew>>
    PROVE  CountInv'
<1> USE DEF OfferPcs, ItemTypes
<1>1. /\ terminates = 0 /\ Took = {} /\ \A u \in Threads : ~Offering(u)
      /\ Balance(Len(queue))
  BY NoneWhileHeld
<1>2. ~IsTerm(hand[t]) /\ hand[t] \in Items
  BY DEF CountInv, TermHeld
<1>3. /\ Len(queue') = Len(q) + 1 /\ Len(q) \in Nat
      /\ \A i \in 1 .. Len(q) : queue'[i] = q[i]
      /\ queue'[Len(q) + 1] = hand[t]
  BY <1>2, AppendProperties, LenProperties
<1>4. \A i \in 1 .. Len(queue') : ~IsTerm(queue'[i])
  <2> SUFFICES ASSUME NEW i \in 1 .. Len(queue') PROVE ~IsTerm(queue'[i])
    OBVIOUS
  <2>1. i \in 1 .. Len(q) \/ i = Len(q) + 1
    BY <1>3
  <2> QED
    BY <1>2, <1>3, <2>1
<1>5. TermsAfter(queue', Len(queue'))
  BY <1>3, <1>4 DEF TermsAfter
<1>6. \A u \in Threads : ~Offering(u)'
  BY <1>1 DEF Offering
<1>7. Offered' = 0 /\ Offered = 0
  BY <1>1, <1>6 DEF Offered
<1>8. Took' = {} /\ Cardinality(Took') = 0
  BY <1>1, CrewLemma, FS_EmptySet DEF Took
<1>9. Balance(Len(queue))'
  BY <1>1, <1>3, <1>5, <1>7, <1>8 DEF Balance
<1>10. TermHeld' /\ EndsBegun'
  BY DEF CountInv, TermHeld, EndsBegun
<1> QED
  BY <1>9, <1>10 DEF CountInv

\* The thread that destroys the pool puts a terminate message behind the others.
LEMMA TermPutsCount ==
    ASSUME CountInv, HoldInv, ItemTypes, crew \in Crews, NEW t \in Threads \ Workers,
           t \notin holders, pc[t] \in OfferPcs, hand' = [hand EXCEPT ![t] = NoMsg],
           pc' = [pc EXCEPT ![t] = "notify_push"], queue' = Append(queue, hand[t]),
           UNCHANGED <<holders, terminates, crew>>
    PROVE  CountInv'
<1> USE DEF OfferPcs, ItemTypes
<1>1. PICK k : Balance(k)
  BY DEF CountInv
<1>2. IsTerm(hand[t]) /\ hand[t] \in Items
  BY DEF CountInv, TermHeld
<1>3. /\ Len(queue') = Len(queue) + 1 /\ Len(queue) \in Nat
      /\ \A i \in 1 .. Len(queue) : queue'[i] = queue[i]
      /\ queue'[Len(queue) + 1] = hand[t]
  BY <1>2, AppendProperties, LenProperties
<1>4. TermsAfter(queue', k)
  <2>1. k \in 0 .. Len(queue) /\ \A i \in 1 .. Len(queue) : IsTerm(queue[i]) <=> i > k
    BY <1>1 DEF Balance, TermsAfter
  <2>2. k \in 0 .. Len(queue')
    BY <1>3, <2>1
  <2>3. ASSUME NEW i \in 1 .. Len(queue') PROVE IsTerm(queue'[i]) <=> i > k
    <3>1. CASE i \in 1 .. Len(queue)
      BY <1>3, <2>1, <3>1
    <3>2. CASE i = Len(queue) + 1
      BY <1>2, <1>3, <2>1, <3>2
    <3> QED
      BY <1>3, <3>1, <3>2
  <2> QED
    BY <2>2, <2>3 DEF TermsAfter
<1>5. Offering(t) /\ \A u \in Threads : ~Offering(u)'
  BY DEF HoldInv, EndsAlone, Ends, PostingPcs, Offering
<1>6. Offered = 1 /\ Offered' = 0
  BY <1>5 DEF Offered
<1>7. Took' = Took
  BY CrewLemma DEF Took
<1>8. Balance(k)'
  <2>1. Cardinality(Took) \in Nat
    BY CrewLemma
  <2> QED
    BY <1>1, <1>3, <1>4, <1>6, <1>7, <2>1 DEF Balance, TermsAfter
<1>9. TermHeld' /\ EndsBegun'
  BY DEF CountInv, TermHeld, EndsBegun
<1> QED
  BY <1>8, <1>9 DEF CountInv

\* The destructor makes the next terminate message.
LEMMA DestroyCount ==
    ASSUME CountInv, HoldInv, ItemTypes, CrewWorks, crew \in Crews, NEW t \in Threads, Destroy(t)
    PROVE  CountInv'
<1> USE DEF OfferPcs, ItemTypes, Destroy, DestroyWith, At, Goto, calls
<1>1. /\ holders = {} /\ \A u \in Threads : Ends(u) => u = t
      /\ t \notin Workers /\ UNCHANGED <<queue, holders, crew>>
  BY DEF HoldInv, EndsAlone, Ends, EndingPcs, CrewWorks, WorkerPcs
<1>2. \A u \in Threads : ~Offering(u)
  BY <1>1 DEF Offering, Ends, PostingPcs
<1>3. Cardinality(crew) \in Nat /\ Cardinality(Took) \in Nat
  BY CrewLemma
<1>4. Took' = Took
  BY <1>1, CrewLemma DEF Took
<1>5. PICK k : Balance(k)
  BY DEF CountInv
<1>6. CASE terminates < Cardinality(crew)
  <2>1. /\ terminates' = terminates + 1 /\ hand' = [hand EXCEPT ![t] = Terminate(t)]
        /\ pc' = [pc EXCEPT ![t] = "post"]
    BY <1>6
  <2>2. IsTerm(Terminate(t))
    BY DEF IsTerm, Terminate, Msg
  <2>3. Offering(t)' /\ Offered' = 1 /\ Offered = 0
    BY <1>1, <1>2, <2>1 DEF Offering, Offered
  <2>4. TermHeld'
    BY <1>1, <2>1, <2>2 DEF CountInv, TermHeld
  <2>5. terminates' \in Nat /\ terminates' <= Cardinality(crew)
    BY <1>3, <1>6, <2>1 DEF CountInv, EndsBegun
  <2>6. \A u \in Threads : pc[u] # "join" /\ pc'[u] # "join"
    BY <1>1, <2>1 DEF Ends, EndingPcs
  <2>7. EndsBegun'
    BY <1>1, <2>5, <2>6 DEF EndsBegun
  <2>8. Balance(k)'
    <3>1. Len(queue) - k \in Nat /\ TermsAfter(queue', k)
      BY <1>1, <1>5, LenProperties DEF Balance, TermsAfter
    <3> QED
      BY <1>1, <1>3, <1>4, <1>5, <2>1, <2>3, <3>1 DEF Balance
  <2> QED
    BY <2>4, <2>7, <2>8 DEF CountInv
<1>7. CASE ~(terminates < Cardinality(crew))
  <2>1. UNCHANGED <<terminates, hand>> /\ pc' = [pc EXCEPT ![t] = "join"]
    BY <1>7
  <2>2. terminates = Cardinality(crew)
    BY <1>3, <1>7 DEF CountInv, EndsBegun
  <2>3. TermHeld' /\ EndsBegun'
    BY <1>1, <2>1, <2>2 DEF CountInv, TermHeld, EndsBegun
  <2>4. Offered' = Offered
    BY <1>1, <1>2, <2>1 DEF Offered, Offering
  <2>5. Balance(k)'
    BY <1>1, <1>4, <1>5, <2>1, <2>4 DEF Balance, TermsAfter
  <2> QED
    BY <2>3, <2>5 DEF CountInv
<1> QED
  BY <1>6, <1>7

\* A worker takes the oldest message.
LEMMA TakeCount ==
    ASSUME CountInv, HandsFree, ItemTypes, CrewWorks, crew \in Crews, NEW w \in Workers,
           pc[w] = "take", queue # <<>>, hand' = [hand EXCEPT ![w] = Head(queue)],
           queue' = Tail(queue), pc' = [pc EXCEPT ![w] = "notify_pop"],
           UNCHANGED <<holders, terminates, crew>>
    PROVE  CountInv'
<1> USE DEF OfferPcs, ItemTypes
<1> USE NoMsgLemma
<1>1. PICK k : Balance(k)
  BY DEF CountInv
<1>2. w \in crew /\ hand[w] = NoMsg /\ w \notin Took
  BY DEF CrewWorks, HandsFree, Carrying, Took, IsTerm, NoMsg
<1>3. /\ Len(Tail(queue)) = Len(queue) - 1 /\ Len(queue) \in Nat \ {0} /\ Head(queue) = queue[1]
      /\ \A i \in 1 .. Len(Tail(queue)) : Tail(queue)[i] = queue[i + 1]
  BY HeadTailProperties, EmptySeq
<1>4. Offered' = Offered
  <2>1. \A t \in Threads : Offering(t)' <=> Offering(t)
    BY DEF Offering
  <2> QED
    BY <2>1 DEF Offered
<1>5. TermHeld' /\ EndsBegun'
  BY DEF CountInv, TermHeld, EndsBegun
<1>6. Cardinality(Took) \in Nat /\ IsFiniteSet(Took)
  BY CrewLemma
<1>7. k \in 0 .. Len(queue) /\ \A i \in 1 .. Len(queue) : IsTerm(queue[i]) <=> i > k
  BY <1>1 DEF Balance, TermsAfter
<1>8. 1 \in 1 .. Len(queue) /\ \A i \in 1 .. Len(queue') : i + 1 \in 1 .. Len(queue)
  BY <1>3
<1>9. CASE IsTerm(queue[1])
  <2>1. k = 0
    BY <1>7, <1>8, <1>9
  <2>2. TermsAfter(queue', 0)
    BY <1>3, <1>7, <1>8, <2>1 DEF TermsAfter
  <2>3. Took' = Took \cup {w}
    BY <1>2, <1>3, <1>9 DEF Took
  <2>4. Cardinality(Took') = Cardinality(Took) + 1
    BY <1>2, <1>6, <2>3, FS_AddElement
  <2>5. Balance(0)'
    BY <1>1, <1>3, <1>4, <1>6, <2>1, <2>2, <2>4 DEF Balance
  <2> QED
    BY <1>5, <2>5 DEF CountInv
<1>10. CASE ~IsTerm(queue[1])
  <2>1. k >= 1
    BY <1>7, <1>8, <1>10
  <2>2. TermsAfter(queue', k - 1)
    <3>1. k - 1 \in 0 .. Len(queue')
      BY <1>3, <1>7, <2>1
    <3>2. ASSUME NEW i \in 1 .. Len(queue') PROVE IsTerm(queue'[i]) <=> i > k - 1
      <4>1. IsTerm(queue[i + 1]) <=> i + 1 > k
        BY <1>7, <1>8
      <4> QED
        BY <1>3, <1>7, <4>1
    <3> QED
      BY <3>1, <3>2 DEF TermsAfter
  <2>3. Took = {}
    BY <1>1, <2>1 DEF Balance
  <2>4. Took' = Took
    BY <1>2, <1>3, <1>10 DEF Took
  <2>5. Balance(k - 1)'
    BY <1>1, <1>3, <1>4, <1>6, <1>7, <2>2, <2>3, <2>4 DEF Balance
  <2> QED
    BY <1>5, <2>5 DEF CountInv
<1> QED
  BY <1>9, <1>10

\* A worker is done with what it took.
LEMMA DoneCount ==
    ASSUME CountInv, ItemTypes, CrewWorks, crew \in Crews, NEW w \in Workers, pc[w] = "process",
           hand' = [hand EXCEPT ![w] = NoMsg],
           pc' = [pc EXCEPT ![w] = IF IsTerm(hand[w]) THEN "exited" ELSE "take"],
           UNCHANGED <<queue, holders, terminates, crew>>
    PROVE  CountInv'
<1> USE DEF OfferPcs, ItemTypes
<1> USE NoMsgLemma
<1>1. PICK k : Balance(k)
  BY DEF CountInv
<1>2. Took' = Took
  <2>1. ~IsTerm(NoMsg)
    BY DEF IsTerm, NoMsg
  <2>2. \A u \in crew : u # w => pc'[u] = pc[u] /\ hand'[u] = hand[u]
    BY CrewLemma
  <2>3. w \in crew => (w \in Took' <=> w \in Took)
    BY <2>1 DEF Took
  <2> QED
    BY <2>2, <2>3 DEF Took
<1>3. Offered' = Offered
  <2>1. \A t \in Threads : Offering(t)' <=> Offering(t)
    BY DEF Offering
  <2> QED
    BY <2>1 DEF Offered
<1>4. TermHeld' /\ EndsBegun'
  BY DEF CountInv, TermHeld, EndsBegun
<1>5. Balance(k)'
  BY <1>1, <1>2, <1>3 DEF Balance, TermsAfter
<1> QED
  BY <1>4, <1>5 DEF CountInv

LEMMA CountNext ==
    ASSUME ItemTypes, HandsFree, CrewWorks, crew \in Crews, HoldInv, CountInv, [Next]_vars
    PROVE  CountInv'
<1> USE NoMsgLemma, FlusherIsNoApp, AsyncThreadsAssumption
<1> USE DEF pool, registry, timer, calls, Goto, At
<1>0. pc \in [Threads -> Pcs] /\ queue \in Seq(Items)
  BY DEF ItemTypes
<1>1. ASSUME NEW a \in Apps, NEW type \in {"log", "flush"}, AppLogs(a, type) PROVE CountInv'
  <2>1. CASE holders = {}
    BY <1>1, <2>1, MovesCount DEF AppLogs, Moves
  <2>2. CASE holders # {}
    <3>1. a \in Threads \ Workers /\ ~IsTerm(Msg(type, count + 1, a))
      BY DEF IsTerm, Msg
    <3> QED
      BY <1>1, <2>2, <3>1, BringsCount DEF AppLogs
  <2> QED
    BY <2>1, <2>2
<1>2. ASSUME NEW t \in Threads, Enqueue(t) PROVE CountInv'
  <2>1. t \in Threads \ Workers /\ pc[t] = "post" /\ UNCHANGED <<holders, terminates, crew>>
    BY <1>2 DEF Enqueue, CrewWorks, WorkerPcs
  <2>2. CASE pc' = [pc EXCEPT ![t] = "full_wait"] /\ UNCHANGED <<queue, overrun, hand>>
    BY <1>0, <2>1, <2>2, MovesCount DEF Moves, OfferPcs
  <2>3. CASE /\ hand' = [hand EXCEPT ![t] = NoMsg] /\ pc' = [pc EXCEPT ![t] = "notify_push"]
             /\ queue' = Append(queue, hand[t])
    <3>1. CASE t \in holders
      <4>1. \A i \in 1 .. Len(queue) : ~IsTerm(queue[i])
        BY <1>0, <3>1, NoneWhileHeld
      <4> QED
        BY <1>0, <2>1, <2>3, <3>1, <4>1, HeldPutsCount DEF OfferPcs
    <3>2. CASE t \notin holders
      BY <1>0, <2>1, <2>3, <3>2, TermPutsCount DEF OfferPcs
    <3> QED
      BY <3>1, <3>2
  <2>4. CASE EnqueueNoWait(t) /\ Full /\ hand[t].type # "terminate"
    <3>1. queue # <<>>
      BY <2>4, FullIsNotEmpty
    <3>2. /\ hand' = [hand EXCEPT ![t] = NoMsg] /\ pc' = [pc EXCEPT ![t] = "notify_push"]
          /\ queue' = Append(Tail(queue), hand[t]) /\ t \in holders
      BY <2>1, <2>4 DEF EnqueueNoWait, CountInv, TermHeld, OfferPcs, IsTerm
    <3>3. /\ Tail(queue) \in Seq(Items) /\ Len(Tail(queue)) = Len(queue) - 1 /\ Len(queue) \in Nat
          /\ \A i \in 1 .. Len(Tail(queue)) : Tail(queue)[i] = queue[i + 1]
      BY <1>0, <3>1, HeadTailProperties, LenProperties
    <3>4. \A i \in 1 .. Len(Tail(queue)) : i + 1 \in 1 .. Len(queue)
      BY <3>3
    <3>5. \A i \in 1 .. Len(Tail(queue)) : ~IsTerm(Tail(queue)[i])
      BY <1>0, <3>2, <3>3, <3>4, NoneWhileHeld
    <3> QED
      BY <2>1, <3>2, <3>3, <3>5, HeldPutsCount DEF OfferPcs
  <2> QED
    BY <1>2, <2>2, <2>3, <2>4 DEF Enqueue, EnqueueNoWait, EnqueueBlocking
<1>3. ASSUME NEW t \in Threads, NotifyPush(t) PROVE CountInv'
  <2>1. \A u \in Threads : Moves(u)
    BY <1>0, <1>3 DEF NotifyPush, NotifyOne, Posted, Moves, OfferPcs
  <2> QED
    BY <1>3, <2>1, MovesCount DEF NotifyPush
<1>4. ASSUME NEW t \in Threads, DropPool(t) PROVE CountInv'
  <2>1. \A u \in Threads : Moves(u)
    BY <1>0, <1>4 DEF DropPool, Resume, Moves, OfferPcs
  <2> QED
    BY <1>4, <2>1, MovesCount DEF DropPool
<1>5. ASSUME NEW t \in Threads, JoinWorkers(t) PROVE CountInv'
  <2>1. \A u \in Threads : Moves(u)
    BY <1>0, <1>5 DEF JoinWorkers, Resume, Moves, OfferPcs
  <2> QED
    BY <1>5, <2>1, MovesCount DEF JoinWorkers
<1>6. ASSUME NEW w \in Workers, Dequeue(w) PROVE CountInv'
  <2>1. CASE queue = <<>>
    <3>1. \A u \in Threads : Moves(u)
      BY <1>0, <1>6, <2>1 DEF Dequeue, Moves, OfferPcs
    <3> QED
      BY <1>6, <2>1, <3>1, MovesCount DEF Dequeue
  <2>2. CASE queue # <<>>
    BY <1>6, <2>2, TakeCount DEF Dequeue
  <2> QED
    BY <2>1, <2>2
<1>7. ASSUME NEW w \in Workers, NotifyPop(w) \/ DequeueTimeout(w) PROVE CountInv'
  <2>1. \A u \in Threads : Moves(u)
    BY <1>0, <1>7 DEF NotifyPop, NotifyOne, DequeueTimeout, Moves, OfferPcs
  <2> QED
    BY <1>7, <2>1, MovesCount DEF NotifyPop, DequeueTimeout
<1>8. ASSUME NEW w \in Workers, Process(w) \/ ProcessTerminate(w) PROVE CountInv'
  BY <1>8, DoneCount DEF Process, ProcessTerminate, IsTerm
<1>9. CASE FlushLogger
  <2>1. CASE registered /\ holders # {}
    <3>1. Flusher \in Threads \ Workers /\ ~IsTerm(Msg("flush", 0, Flusher))
      BY DEF IsTerm, Msg
    <3> QED
      BY <1>9, <2>1, <3>1, BringsCount DEF FlushLogger
  <2>2. CASE ~(registered /\ holders # {})
    <3>1. \A u \in Threads : Moves(u)
      BY <1>0, <1>9, <2>2 DEF FlushLogger, Moves, OfferPcs
    <3> QED
      BY <1>9, <2>2, <3>1, MovesCount DEF FlushLogger
  <2> QED
    BY <2>1, <2>2
<1>10. CASE FlusherWakes \/ FlusherUnlocks \/ Shutdown \/ StopTimer \/ JoinTimer
  <2>1. /\ \A u \in Threads : Moves(u)
        /\ UNCHANGED <<hand, queue, terminates, crew, holders>>
    BY <1>0, <1>10
       DEF FlusherWakes, FlusherUnlocks, Shutdown, StopTimer, JoinTimer, Moves, OfferPcs
  <2> QED
    BY <2>1, MovesCount
<1>11. CASE DropAll \/ ReplacePool
  <2>1. /\ pc[Main] \in {"drop_all", "running"} /\ holders' = holders \ {"registry"}
        /\ pc' = [pc EXCEPT ![Main] = IF holders = {"registry"} THEN "destroy" ELSE "returned"]
        /\ UNCHANGED <<hand, queue, terminates, crew>>
    BY <1>11 DEF DropAll, ReplacePool, RegistryDropsPool
  <2>2. \A u \in Threads : Moves(u)
    BY <1>0, <2>1 DEF Moves, OfferPcs
  <2> QED
    BY <2>1, <2>2, MovesCount
<1>12. CASE UNCHANGED vars
  BY <1>12, MovesCount DEF vars, Moves
<1>13. ASSUME NEW t \in Threads, Destroy(t) PROVE CountInv'
  BY <1>13, DestroyCount
<1>14. ASSUME NEW t \in Threads, Posting(t) PROVE CountInv'
  BY <1>2, <1>3, <1>4, <1>5, <1>13, <1>14, Zenon DEF Posting
<1>15. ASSUME NEW w \in Workers, WorkerStep(w) \/ DequeueTimeout(w) PROVE CountInv'
  <2>1. Dequeue(w) => CountInv'
    BY <1>6
  <2>2. NotifyPop(w) \/ DequeueTimeout(w) => CountInv'
    BY <1>7
  <2>3. Process(w) \/ ProcessTerminate(w) => CountInv'
    BY <1>8
  <2> QED
    BY <1>15, <2>1, <2>2, <2>3, Zenon DEF WorkerStep
<1>16. CASE FlusherWakes \/ FlusherStep \/ Shutdown \/ MainStep \/ ReplacePool
  BY <1>9, <1>10, <1>11, <1>16, Zenon DEF FlusherStep, MainStep
<1> QED
  BY <1>1, <1>12, <1>14, <1>15, <1>16, Zenon DEF Next

\* When all the workers are joined they have taken all there was.
LEMMA JoinedAll ==
    ASSUME CountInv, crew \in Crews, queue \in Seq(Items), NEW t \in Threads, JoinWorkers(t)
    PROVE  queue = <<>> /\ \A w \in crew : pc[w] = "exited" /\ pc'[w] = "exited"
<1>1. /\ pc[t] = "join" /\ \A w \in crew : pc[w] = "exited"
      /\ terminates = Cardinality(crew) /\ Took = crew
  BY DEF JoinWorkers, At, CountInv, EndsBegun, Took
<1>2. PICK k : Balance(k)
  BY DEF CountInv
<1>3. k = 0 /\ Len(queue) \in Nat /\ Offered \in 0 .. 1 /\ Cardinality(crew) \in Nat
  BY <1>1, <1>2, CrewLemma, LenProperties DEF Balance, Offered
<1>4. Len(queue) = 0
  <2>1. Cardinality(crew) = Cardinality(crew) + (Len(queue) - k) + Offered
    BY <1>1, <1>2 DEF Balance
  <2> QED
    BY <1>3, <2>1
<1>5. t \notin crew
  BY <1>1
<1> QED
  BY <1>1, <1>4, <1>5, EmptySeq, CrewLemma DEF JoinWorkers, Goto

LEMMA GoneNext ==
    ASSUME ItemTypes, CrewWorks, crew \in Crews, HoldInv, CountInv, GoneInv, [Next]_vars
    PROVE  GoneInv'
<1> USE NoMsgLemma, FlusherIsNoApp, AsyncThreadsAssumption
<1> USE DEF pool, registry, timer, calls, Goto, At, GoneInv
<1>0. pc \in [Threads -> Pcs] /\ queue \in Seq(Items) /\ crew \subseteq Workers /\ crew \subseteq Threads
  BY CrewLemma DEF ItemTypes
<1>1. ASSUME NEW t \in Threads, JoinWorkers(t) PROVE GoneInv'
  BY <1>0, <1>1, JoinedAll DEF JoinWorkers
<1>2. CASE poolGone' = poolGone
  <2> SUFFICES ASSUME poolGone, poolGone' = poolGone, queue = <<>>, \A w \in crew : pc[w] = "exited"
               PROVE  queue' = <<>> /\ crew' = crew /\ \A w \in crew : pc'[w] = "exited"
    BY <1>2
  <2>1. /\ holders = {} /\ \A t \in Threads : pc[t] \notin PostingPcs \cup EndingPcs \cup {"drop_pool"}
    BY DEF HoldInv, GoneForAll, DropsHeld, Ends
  <2> USE DEF PostingPcs, EndingPcs
  <2>2. ASSUME NEW a \in Apps, NEW type \in {"log", "flush"}, AppLogs(a, type)
        PROVE  queue' = <<>> /\ crew' = crew /\ \A w \in crew : pc'[w] = "exited"
    BY <2>1, <2>2 DEF AppLogs
  <2>3. ASSUME NEW t \in Threads, Posting(t)
        PROVE  queue' = <<>> /\ crew' = crew /\ \A w \in crew : pc'[w] = "exited"
    BY <2>1, <2>3 DEF Posting, Enqueue, NotifyPush, DropPool, Destroy, DestroyWith, JoinWorkers
  <2>4. ASSUME NEW w \in Workers, WorkerStep(w) \/ DequeueTimeout(w)
        PROVE  queue' = <<>> /\ crew' = crew /\ \A u \in crew : pc'[u] = "exited"
    <3>1. pc[w] # "exited"
      BY <2>4 DEF WorkerStep, Dequeue, NotifyPop, Process, ProcessTerminate, DequeueTimeout
    <3>2. w \notin crew
      BY <3>1
    <3> QED
      BY <2>4, <3>2
         DEF WorkerStep, Dequeue, NotifyPop, Process, ProcessTerminate, DequeueTimeout, CrewWorks
  <2>5. CASE FlusherWakes \/ FlusherStep
    BY <1>0, <2>1, <2>5 DEF FlusherWakes, FlusherStep, FlushLogger, FlusherUnlocks
  <2>6. CASE Shutdown \/ MainStep \/ ReplacePool
    BY <1>0, <2>1, <2>6
       DEF Shutdown, MainStep, StopTimer, JoinTimer, DropAll, ReplacePool, RegistryDropsPool
  <2>7. CASE UNCHANGED vars
    BY <2>7 DEF vars
  <2> QED
    BY <2>2, <2>3, <2>4, <2>5, <2>6, <2>7 DEF Next
<1>3. CASE UNCHANGED vars
  BY <1>2, <1>3 DEF vars
<1>4. ASSUME NEW t \in Threads, Posting(t) PROVE GoneInv'
  BY <1>1, <1>2, <1>4 DEF Posting, Enqueue, NotifyPush, DropPool, Destroy, DestroyWith
<1>5. (\E t \in Threads : Posting(t)) \/ poolGone' = poolGone
  BY <1>3 DEF Next, AppLogs, WorkerStep, Dequeue, NotifyPop, Process, ProcessTerminate, DequeueTimeout,
              FlusherWakes, FlusherStep, FlushLogger, FlusherUnlocks, Shutdown, MainStep, StopTimer,
              JoinTimer, DropAll, ReplacePool, RegistryDropsPool, vars
<1> QED
  BY <1>2, <1>4, <1>5

LEMMA DrainInit == Init => DrainInv
<1> SUFFICES ASSUME Init PROVE DrainInv
  OBVIOUS
<1>1. /\ PlaceInv /\ CrewWorks /\ crew \in Crews
  BY PlaceInit, LineInit DEF LineInv
<1>2. /\ holders = {"registry"} /\ terminates = 0 /\ ~poolGone /\ Len(queue) = 0
      /\ \A t \in Threads : hand[t] = NoMsg /\ pc[t] = StartsAt(t)
  BY DEF Init
<1>3. \A t \in Threads : pc[t] \in {"idle", "take", "unused", "sleep", "running"}
  BY <1>2 DEF StartsAt, Threads
<1>4. OthersPost
  BY <1>1, <1>2, AsyncThreadsAssumption, CrewLemma
     DEF OthersPost, StartsAt, Threads, AppPcs, FlusherPcs, MainPcs
<1>5. HoldInv
  BY <1>2, <1>3, AsyncThreadsAssumption
     DEF HoldInv, DropsHeld, HoldersInside, EndsAlone, GoneForAll, Ends, PostingPcs, EndingPcs
<1>6. Took = {} /\ Cardinality(Took) = 0
  BY <1>1, <1>2, <1>3, CrewLemma DEF Took, IsTerm, NoMsg
<1>7. Offered = 0
  BY <1>3 DEF Offered, Offering, OfferPcs
<1>8. Balance(0)
  BY <1>2, <1>6, <1>7 DEF Balance, TermsAfter
<1>9. CountInv
  <2>1. Cardinality(crew) \in Nat
    BY <1>1, CrewLemma
  <2> QED
    BY <1>2, <1>3, <1>8, <2>1 DEF CountInv, TermHeld, EndsBegun, OfferPcs
<1> QED
  BY <1>1, <1>2, <1>4, <1>5, <1>9 DEF DrainInv, GoneInv

LEMMA DrainNext == DrainInv /\ [Next]_vars => DrainInv'
<1> SUFFICES ASSUME DrainInv, [Next]_vars PROVE DrainInv'
  OBVIOUS
<1>1. ItemTypes /\ HandsFree /\ CrewWorks /\ crew \in Crews /\ HoldInv /\ CountInv /\ GoneInv
  BY DEF DrainInv, PlaceInv
<1>2. PlaceInv' /\ CrewWorks' /\ crew' \in Crews /\ OthersPost'
  BY <1>1, PlaceNext, CrewNext, OthersNext DEF DrainInv
<1>3. HoldInv' /\ CountInv' /\ GoneInv'
  BY <1>1, HoldNext, CountNext, GoneNext
<1> QED
  BY <1>2, <1>3 DEF DrainInv

\* When the destructor of the pool has returned, whoever ran it and however many
\* workers there were, every message accepted is in the sinks or was overwritten,
\* and no thread is inside the pool.
THEOREM PoolDrains == Spec => []DrainedWhenGone
<1>1. DrainInv => DrainedWhenGone
  <2> SUFFICES ASSUME DrainInv, poolGone PROVE DrainedWhenGone
    BY DEF DrainedWhenGone
  <2>1. queue = <<>> /\ Len(queue) = 0 /\ \A w \in crew : pc[w] = "exited"
    BY DEF DrainInv, GoneInv
  <2>2. \A t \in Threads : pc[t] \notin PostPcs
    BY DEF DrainInv, HoldInv, GoneForAll, DropsHeld, Ends, PostingPcs, EndingPcs, PostPcs
  <2>3. \A t \in Threads : pc[t] \notin WorkerPcs \ {"unused", "exited"}
    <3>1. \A w \in Workers : pc[w] \in {"unused", "exited"}
      BY <2>1 DEF DrainInv, CrewWorks
    <3>2. \A t \in Threads \ Workers : pc[t] \notin WorkerPcs \ {"unused", "exited"}
      BY DEF DrainInv, OthersPost, AppPcs, PostPcs, FlusherPcs, MainPcs, WorkerPcs
    <3> QED
      BY <3>1, <3>2
  <2>4. \A t \in Threads : hand[t] = NoMsg
    BY <2>2, <2>3 DEF DrainInv, PlaceInv, HandsFree, Carrying, PostPcs, WorkerPcs
  <2>5. accepted \subseteq ToSet(written) \cup overrun
    <3> SUFFICES ASSUME NEW m \in accepted PROVE m \in ToSet(written) \cup overrun
      OBVIOUS
    <3>1. OfApps(m) /\ Somewhere(m, hand, queue, written, overrun)
      BY DEF DrainInv, PlaceInv, ByCount, AllPlaced, Placed
    <3>2. ~InHand(m, hand)
      BY <2>4, <3>1, NoMsgLemma DEF InHand
    <3>3. ~InSeq(m, queue)
      BY <2>1 DEF InSeq
    <3>4. InSeq(m, written) => m \in ToSet(written)
      BY LenProperties DEF InSeq, ToSet, DrainInv, PlaceInv, ItemTypes
    <3> QED
      BY <3>1, <3>2, <3>3, <3>4 DEF Somewhere
  <2> QED
    BY <2>1, <2>2, <2>3, <2>5 DEF DrainedWhenGone
<1> QED
  BY <1>1, DrainInit, DrainNext, PTL DEF Spec

=============================================================================
