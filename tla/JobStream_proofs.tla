---------------------------- MODULE JobStream_proofs ----------------------------
(***************************************************************************)
(* Proofs about JobStream: what is sent to the client of a job's stream,   *)
(* for any number of events, any queue bound and any faults.               *)
(***************************************************************************)
EXTENDS JobStream, Integers, FiniteSetTheorems, FunctionTheorems, SequenceTheorems, TLAPS

-------------------------------------------------------------------------------
(* Shapes. *)

Fields == {"kind", "step", "reading", "read", "shown", "seen", "sent", "queue", "inbox",
           "listener", "poller", "left", "status", "ended"}

Sources  == {"database", "redis"}
Statuses == {"none"} \cup Active \cup Terminal

EventItems == {EventItem(e, from) : e \in Events, from \in Sources}
RedisItems == {EventItem(e, "redis") : e \in Events} \cup {RefreshItem}
Items      == EventItems \cup {RefreshItem} \cup {JobItem(status) : status \in Statuses}
              \cup {JobsItem(status) : status \in Statuses} \cup {DoneItem(status) : status \in Statuses}

RowInv ==
    /\ published \in Nat /\ published <= MaxEvents
    /\ row.status \in Statuses /\ row.events \subseteq 1..published
    /\ txn # None => txn.event \in 1..published /\ txn.status \in Active \cup Terminal
    /\ due \subseteq row.events

ConnInv ==
    /\ DOMAIN conn = Fields
    /\ conn.step \in {"new", "take", "send", "done", "closed"}
    /\ conn.reading \in {"nobody", "open", "poll", "refresh", "list"}
    /\ conn.read \in Statuses
    /\ conn.queue \in Seq(Items) /\ conn.inbox \in Seq(RedisItems)
    /\ conn.left \in Seq(1..published)
    /\ conn.seen \subseteq 1..published
    /\ conn.sent \in [Sources -> [Events -> {0, 1}]]

-------------------------------------------------------------------------------
(* Phases. *)

NothingSent == [from \in Sources |-> [e \in Events |-> 0]]

\* Who reads, and what a connection that nobody opened, or that was closed, holds.
PhaseInv ==
    /\ conn.step \in {"new", "closed"} =>
          /\ conn.seen = {} /\ conn.sent = NothingSent /\ conn.queue = <<>> /\ conn.inbox = <<>>
          /\ conn.left = <<>> /\ conn.listener = "none" /\ conn.poller = "none"
    /\ conn.reading = "open" => conn.step = "new" /\ conn.kind = "job"
    /\ conn.reading = "poll" => IsOpen /\ conn.kind = "job" /\ conn.poller = "polling"
    /\ conn.reading = "refresh" => conn.step = "take" /\ conn.kind = "job"
    /\ conn.reading = "list" => conn.step = "take" /\ conn.kind = "active"
    /\ conn.step = "send" => conn.kind = "job"
    /\ conn.step = "done" => conn.kind = "job" /\ conn.shown \in Terminal /\ conn.reading = "nobody"

-------------------------------------------------------------------------------
(* Items of a queue. *)

Holds(s, x) == \E i \in DOMAIN s : s[i] = x

\* The event is in the queue, whoever put it there.
Waits(s, e) == \E i \in DOMAIN s : s[i].type = "event" /\ s[i].event = e

\* No event twice from the same source.
IsOnce(s) == \A i, j \in DOMAIN s : s[i] = s[j] /\ s[i].type = "event" => i = j

\* The item that ends the stream.
IsEnd(x) == x.type = "job" /\ x.status \in Terminal
NoEnd(s) == \A i \in DOMAIN s : ~IsEnd(s[i])

\* These events stand before every item that ends the stream.
Covered(s, events) ==
    \A k \in DOMAIN s : IsEnd(s[k]) =>
        \A e \in events : \E j \in 1..(k - 1) : s[j].type = "event" /\ s[j].event = e

-------------------------------------------------------------------------------
(* What is sent. *)

\* What waits was published and not sent; what the database sent or has queued is seen.
OnceInv ==
    /\ IsOnce(conn.queue) /\ IsOnce(conn.inbox)
    /\ \A e \in Events, from \in Sources :
        LET x == EventItem(e, from) IN
        /\ ~(Holds(conn.queue, x) /\ Holds(conn.inbox, x))
        /\ Holds(conn.queue, x) \/ Holds(conn.inbox, x) => conn.sent[from][e] = 0 /\ e <= published
        /\ conn.sent[from][e] = 1 => e <= published
    /\ \A e \in Events :
        conn.sent["database"][e] = 1 \/ Holds(conn.queue, EventItem(e, "database")) => e \in conn.seen

WasSent(sent, e)     == \E from \in Sources : sent[from][e] = 1
Unsent(events, sent) == {e \in events : ~WasSent(sent, e)}

\* An event that was seen was sent or waits.
SeenInv ==
    conn.kind = "job" =>
        \A e \in conn.seen : WasSent(conn.sent, e) \/ Waits(conn.queue, e)

ReadsEnd(reader) == conn.reading = reader /\ Ends(conn.read)
SendsEnd == conn.step = "send" /\ Ends(conn.status)

\* The poller queues a final status once, behind all that was committed with it, unless a
\* refresh that read the end later sends the rest itself.
EndInv ==
    /\ conn.step = "done" =>
          \A e \in due : WasSent(conn.sent, e) \/ (conn.ended = "refresh" /\ Waits(conn.queue, e))
    /\ conn.kind # "job" \/ conn.poller \in {"none", "polling"} => NoEnd(conn.queue)
    /\ SendsEnd /\ ~ReadsEnd("poll") =>
          \A e \in due : e \in conn.seen \/ Holds(conn.left, e)
    /\ \/ ReadsEnd("refresh") \/ SendsEnd \/ conn.step = "done"
       \/ Covered(conn.queue, Unsent(due, conn.sent))

IInv == RowInv /\ ConnInv /\ PhaseInv /\ OnceInv /\ SeenInv /\ EndInv
-------------------------------------------------------------------------------
(* The order of the events. *)

LEMMA FiniteEvents ==
  ASSUME NEW S \in SUBSET Events
  PROVE  IsFiniteSet(S) /\ Cardinality(S) \in Nat
<1>1. IsFiniteSet(Events)
  BY EventsAssumption, FS_Interval DEF Events
<1> QED
  BY <1>1, FS_Subset, FS_CardinalityType

\* The rank of an event counts the events up to it, which orders any set of them.
LEMMA OrderExists ==
  ASSUME NEW S \in SUBSET Events
  PROVE  \E s \in [1..Cardinality(S) -> S] : \A i, j \in DOMAIN s : i < j => s[i] < s[j]
<1> DEFINE n       == Cardinality(S)
           upTo(e) == {d \in S : d <= e}
           rank    == [e \in S |-> Cardinality(upTo(e))]
           s       == [i \in 1..n |-> CHOOSE e \in S : rank[e] = i]
<1>1. IsFiniteSet(S) /\ n \in Nat /\ S \subseteq Int
  BY FiniteEvents, EventsAssumption DEF Events
<1>2. ASSUME NEW e \in S
      PROVE  IsFiniteSet(upTo(e)) /\ Cardinality(upTo(e)) \in 1..n
  <2>1. IsFiniteSet(upTo(e)) /\ Cardinality(upTo(e)) <= n
    BY <1>1, FS_Subset
  <2>2. Cardinality(upTo(e)) \in Nat /\ Cardinality(upTo(e)) # 0
    <3>1. e \in upTo(e)
      BY <1>1
    <3> QED
      BY <2>1, <3>1, FS_EmptySet, FS_CardinalityType
  <2> QED
    BY <1>1, <2>1, <2>2
<1>3. rank \in [S -> 1..n]
  BY <1>2
<1>4. ASSUME NEW d \in S, NEW e \in S, d < e
      PROVE  rank[d] < rank[e]
  <2>0. \A x \in S : x \in Int
    BY <1>1
  <2>1. upTo(d) \subseteq upTo(e) /\ e \in upTo(e) /\ e \notin upTo(d)
    <3>1. ASSUME NEW x \in S, x <= d
          PROVE  x <= e
      BY <1>4, <2>0, <3>1
    <3>2. e <= e /\ ~(e <= d)
      BY <1>4, <2>0
    <3> QED
      BY <3>1, <3>2
  <2>2. /\ Cardinality(upTo(d)) <= Cardinality(upTo(e))
        /\ Cardinality(upTo(e)) = Cardinality(upTo(d)) => upTo(d) = upTo(e)
    BY <1>2, <2>1, FS_Subset
  <2>3. upTo(d) # upTo(e)
    BY <2>1
  <2> HIDE DEF upTo
  <2>4. Cardinality(upTo(d)) \in Int /\ Cardinality(upTo(e)) \in Int
    BY <1>2
  <2> QED
    BY <2>2, <2>3, <2>4
<1> HIDE DEF upTo, rank
<1>5. \A d, e \in S : rank[d] = rank[e] => d = e
  BY <1>1, <1>3, <1>4
<1>6. rank \in Injection(S, 1..n)
  BY <1>3, <1>5, Fun_IsInj
<1>7. IsFiniteSet(1..n) /\ Cardinality(1..n) = n
  BY <1>1, FS_Interval
<1>8. rank \in Surjection(S, 1..n)
  BY <1>6, <1>7, FS_Injection
<1>9. \A i \in 1..n : \E e \in S : rank[e] = i
  BY <1>8 DEF Surjection
<1>10. \A i \in 1..n : s[i] \in S /\ rank[s[i]] = i
  BY <1>9
<1>11. s \in [1..n -> S]
  BY <1>10
<1> HIDE DEF s
<1>12. ASSUME NEW i \in 1..n, NEW j \in 1..n, i < j
       PROVE  s[i] < s[j]
  <2>1. s[i] \in S /\ s[j] \in S /\ rank[s[i]] < rank[s[j]]
    BY <1>10, <1>12
  <2>2. s[j] < s[i] => rank[s[j]] < rank[s[i]]
    BY <1>4, <2>1
  <2>3. s[i] \in Int /\ s[j] \in Int
    BY <1>1, <2>1
  <2>4. rank[s[i]] \in 1..n /\ rank[s[j]] \in 1..n
    BY <1>3, <2>1
  <2>5. s[i] # s[j]
    BY <1>1, <2>1, <2>4
  <2>6. ~(s[j] < s[i])
    BY <1>1, <2>1, <2>2, <2>4
  <2> QED
    BY <2>3, <2>5, <2>6
<1> QED
  BY <1>11, <1>12

\* list_events returns every event once.
LEMMA EventsInOrder ==
  ASSUME NEW S \in SUBSET Events
  PROVE  /\ InOrder(S) \in Seq(S) /\ Len(InOrder(S)) \in Nat
         /\ DOMAIN InOrder(S) = 1..Len(InOrder(S))
         /\ \A i, j \in DOMAIN InOrder(S) : InOrder(S)[i] = InOrder(S)[j] => i = j
         /\ \A i \in DOMAIN InOrder(S) : InOrder(S)[i] \in S
         /\ \A e \in S : Holds(InOrder(S), e)
<1> DEFINE n == Cardinality(S)
           s == InOrder(S)
<1>1. IsFiniteSet(S) /\ n \in Nat /\ S \subseteq Int
  BY FiniteEvents, EventsAssumption DEF Events
<1>2. s \in [1..n -> S] /\ \A i, j \in DOMAIN s : i < j => s[i] < s[j]
  BY OrderExists DEF InOrder
<1> HIDE DEF s
<1>3. \A i, j \in DOMAIN s : s[i] = s[j] => i = j
  <2> SUFFICES ASSUME NEW i \in DOMAIN s, NEW j \in DOMAIN s, s[i] = s[j] PROVE i = j
    OBVIOUS
  <2>1. s[i] \in S /\ s[j] \in S /\ i \in 1..n /\ j \in 1..n
    BY <1>2
  <2>2. s[i] \in Int /\ s[j] \in Int
    BY <1>1, <2>1
  <2>3. ~(s[i] < s[j]) /\ ~(s[j] < s[i])
    BY <2>2
  <2>4. ~(i < j) /\ ~(j < i)
    BY <1>2, <2>3
  <2> QED
    BY <1>1, <2>1, <2>4
<1>4. s \in Injection(1..n, S)
  BY <1>2, <1>3, Fun_IsInj
<1>5. IsFiniteSet(1..n) /\ Cardinality(1..n) = n
  BY <1>1, FS_Interval
<1>6. s \in Surjection(1..n, S)
  BY <1>1, <1>4, <1>5, FS_Injection
<1>7. \A e \in S : Holds(s, e)
  BY <1>2, <1>6 DEF Surjection, Holds
<1>8. s \in Seq(S) /\ Len(s) = n
  BY <1>1, <1>2
<1> QED
  BY <1>1, <1>2, <1>3, <1>7, <1>8 DEF s

-------------------------------------------------------------------------------
(* Taking the first item, and adding at the end. *)

LEMMA TailShape ==
  ASSUME NEW T, NEW s \in Seq(T), s # <<>>
  PROVE  /\ Len(s) \in Nat /\ Len(s) > 0 /\ DOMAIN s = 1..Len(s)
         /\ Head(s) = s[1] /\ Head(s) \in T
         /\ Tail(s) \in Seq(T) /\ DOMAIN Tail(s) = 1..(Len(s) - 1)
         /\ \A i \in 1..(Len(s) - 1) : Tail(s)[i] = s[i + 1]
<1>1. Len(s) \in Nat \ {0} /\ DOMAIN s = 1..Len(s)
  BY EmptySeq, LenProperties
<1>2. /\ Head(s) \in T /\ Tail(s) \in Seq(T) /\ Len(Tail(s)) = Len(s) - 1
      /\ \A i \in 1..Len(Tail(s)) : Tail(s)[i] = s[i + 1]
  BY HeadTailProperties
<1>3. DOMAIN Tail(s) = 1..Len(Tail(s))
  BY <1>2, LenProperties
<1>4. Head(s) = s[1]
  BY <1>1
<1> QED
  BY <1>1, <1>2, <1>3, <1>4

LEMMA TailHolds ==
  ASSUME NEW T, NEW s \in Seq(T), s # <<>>, NEW x
  PROVE  Holds(s, x) <=> x = Head(s) \/ Holds(Tail(s), x)
<1>1. /\ Len(s) \in Nat /\ Len(s) > 0 /\ DOMAIN s = 1..Len(s) /\ Head(s) = s[1]
      /\ DOMAIN Tail(s) = 1..(Len(s) - 1) /\ \A i \in 1..(Len(s) - 1) : Tail(s)[i] = s[i + 1]
  BY TailShape
<1>2. ASSUME NEW i \in DOMAIN s, s[i] = x, i # 1
      PROVE  Holds(Tail(s), x)
  <2>1. i - 1 \in 1..(Len(s) - 1) /\ (i - 1) + 1 = i
    BY <1>1, <1>2
  <2>2. Tail(s)[i - 1] = x
    BY <1>1, <1>2, <2>1
  <2> QED
    BY <1>1, <2>1, <2>2 DEF Holds
<1>3. ASSUME NEW i \in DOMAIN Tail(s), Tail(s)[i] = x
      PROVE  Holds(s, x)
  <2>1. i + 1 \in DOMAIN s /\ s[i + 1] = x
    BY <1>1, <1>3
  <2> QED
    BY <2>1 DEF Holds
<1>4. 1 \in DOMAIN s
  BY <1>1
<1> QED
  BY <1>1, <1>2, <1>3, <1>4 DEF Holds

LEMMA TailWaits ==
  ASSUME NEW T, NEW s \in Seq(T), s # <<>>, NEW e
  PROVE  Waits(s, e) <=> (Head(s).type = "event" /\ Head(s).event = e) \/ Waits(Tail(s), e)
<1>1. \A x : Holds(s, x) <=> x = Head(s) \/ Holds(Tail(s), x)
  BY TailHolds
<1>2. \A q : Waits(q, e) <=> \E x : Holds(q, x) /\ x.type = "event" /\ x.event = e
  BY DEF Waits, Holds
<1> QED
  BY <1>1, <1>2

LEMMA TailOnce ==
  ASSUME NEW T, NEW s \in Seq(T), s # <<>>, IsOnce(s)
  PROVE  IsOnce(Tail(s)) /\ (Head(s).type = "event" => ~Holds(Tail(s), Head(s)))
<1>1. /\ Len(s) \in Nat /\ Len(s) > 0 /\ DOMAIN s = 1..Len(s) /\ Head(s) = s[1]
      /\ DOMAIN Tail(s) = 1..(Len(s) - 1) /\ \A i \in 1..(Len(s) - 1) : Tail(s)[i] = s[i + 1]
  BY TailShape
<1>2. ASSUME NEW i \in DOMAIN Tail(s), NEW j \in DOMAIN Tail(s),
             Tail(s)[i] = Tail(s)[j], Tail(s)[i].type = "event"
      PROVE  i = j
  <2>1. i + 1 \in DOMAIN s /\ j + 1 \in DOMAIN s /\ s[i + 1] = s[j + 1] /\ s[i + 1].type = "event"
    BY <1>1, <1>2
  <2>2. i + 1 = j + 1
    BY <2>1 DEF IsOnce
  <2> QED
    BY <1>1, <2>2
<1>3. ASSUME Head(s).type = "event", NEW i \in DOMAIN Tail(s), Tail(s)[i] = Head(s)
      PROVE  FALSE
  <2>1. i + 1 \in DOMAIN s /\ 1 \in DOMAIN s /\ s[i + 1] = s[1] /\ s[1].type = "event"
    BY <1>1, <1>3
  <2>2. i + 1 = 1
    BY <2>1 DEF IsOnce
  <2> QED
    BY <1>1, <2>2
<1>4. IsOnce(Tail(s))
  BY <1>2 DEF IsOnce
<1> QED
  BY <1>3, <1>4 DEF Holds

LEMMA TailNoEnd ==
  ASSUME NEW T, NEW s \in Seq(T), s # <<>>, NoEnd(s)
  PROVE  NoEnd(Tail(s))
<1>1. \A x : Holds(s, x) <=> x = Head(s) \/ Holds(Tail(s), x)
  BY TailHolds
<1>2. \A q : NoEnd(q) <=> \A x : Holds(q, x) => ~IsEnd(x)
  BY DEF NoEnd, Holds
<1> QED
  BY <1>1, <1>2

\* What was taken need not stand before the end any more; nothing stands before the first.
LEMMA TailCovered ==
  ASSUME NEW T, NEW s \in Seq(T), s # <<>>, NEW D, Covered(s, D)
  PROVE  /\ IsEnd(Head(s)) => D = {}
         /\ \A E : (\A e \in E : e \in D /\ ~(Head(s).type = "event" /\ Head(s).event = e))
                   => Covered(Tail(s), E)
<1>1. /\ Len(s) \in Nat /\ Len(s) > 0 /\ DOMAIN s = 1..Len(s) /\ Head(s) = s[1]
      /\ DOMAIN Tail(s) = 1..(Len(s) - 1) /\ \A i \in 1..(Len(s) - 1) : Tail(s)[i] = s[i + 1]
  BY TailShape
<1>2. ASSUME IsEnd(Head(s)), NEW e \in D
      PROVE  FALSE
  <2>1. 1 \in DOMAIN s /\ IsEnd(s[1])
    BY <1>1, <1>2
  <2>2. \E j \in 1..(1 - 1) : s[j].type = "event" /\ s[j].event = e
    BY <1>2, <2>1 DEF Covered
  <2> QED
    BY <2>2
<1>3. ASSUME NEW E, \A e \in E : e \in D /\ ~(Head(s).type = "event" /\ Head(s).event = e),
             NEW k \in DOMAIN Tail(s), IsEnd(Tail(s)[k]), NEW e \in E
      PROVE  \E j \in 1..(k - 1) : Tail(s)[j].type = "event" /\ Tail(s)[j].event = e
  <2>1. k + 1 \in DOMAIN s /\ IsEnd(s[k + 1]) /\ (k + 1) - 1 = k /\ e \in D
    BY <1>1, <1>3
  <2>2. PICK j \in 1..k : s[j].type = "event" /\ s[j].event = e
    BY <2>1 DEF Covered
  <2>3. j # 1
    BY <1>1, <1>3, <2>2
  <2>4. j - 1 \in 1..(k - 1) /\ j - 1 \in 1..(Len(s) - 1) /\ (j - 1) + 1 = j
    BY <1>1, <2>2, <2>3
  <2>5. Tail(s)[j - 1] = s[j]
    BY <1>1, <2>4
  <2> QED
    BY <2>2, <2>4, <2>5
<1> QED
  BY <1>2, <1>3 DEF Covered

LEMMA ConcatShape ==
  ASSUME NEW T, NEW s \in Seq(T), NEW t \in Seq(T)
  PROVE  /\ s \o t \in Seq(T)
         /\ Len(s) \in Nat /\ Len(t) \in Nat
         /\ DOMAIN s = 1..Len(s) /\ DOMAIN t = 1..Len(t) /\ DOMAIN (s \o t) = 1..(Len(s) + Len(t))
         /\ \A i \in DOMAIN s : i \in DOMAIN (s \o t) /\ (s \o t)[i] = s[i]
         /\ \A i \in DOMAIN t : Len(s) + i \in DOMAIN (s \o t) /\ (s \o t)[Len(s) + i] = t[i]
         /\ \A i \in DOMAIN (s \o t) : i \in DOMAIN s \/ \E j \in DOMAIN t : i = Len(s) + j
<1>1. /\ s \o t \in Seq(T) /\ Len(s \o t) = Len(s) + Len(t)
      /\ \A i \in 1..(Len(s) + Len(t)) :
            (s \o t)[i] = IF i <= Len(s) THEN s[i] ELSE t[i - Len(s)]
  BY ConcatProperties
<1>2. Len(s) \in Nat /\ Len(t) \in Nat /\ DOMAIN s = 1..Len(s) /\ DOMAIN t = 1..Len(t)
  BY LenProperties
<1>3. DOMAIN (s \o t) = 1..(Len(s) + Len(t))
  BY <1>1, LenProperties
<1>4. ASSUME NEW i \in DOMAIN s
      PROVE  i \in DOMAIN (s \o t) /\ (s \o t)[i] = s[i]
  BY <1>1, <1>2, <1>3
<1>5. ASSUME NEW i \in DOMAIN t
      PROVE  Len(s) + i \in DOMAIN (s \o t) /\ (s \o t)[Len(s) + i] = t[i]
  <2>1. Len(s) + i \in 1..(Len(s) + Len(t)) /\ ~(Len(s) + i <= Len(s)) /\ (Len(s) + i) - Len(s) = i
    BY <1>2
  <2> QED
    BY <1>1, <1>3, <2>1
<1>6. ASSUME NEW i \in DOMAIN (s \o t), i \notin DOMAIN s
      PROVE  \E j \in DOMAIN t : i = Len(s) + j
  <2>1. i - Len(s) \in DOMAIN t /\ i = Len(s) + (i - Len(s))
    BY <1>2, <1>3, <1>6
  <2> QED
    BY <2>1
<1> QED
  BY <1>1, <1>2, <1>3, <1>4, <1>5, <1>6

LEMMA ConcatHolds ==
  ASSUME NEW T, NEW s \in Seq(T), NEW t \in Seq(T)
  PROVE  /\ \A x : Holds(s \o t, x) <=> Holds(s, x) \/ Holds(t, x)
         /\ \A e : Waits(s \o t, e) <=> Waits(s, e) \/ Waits(t, e)
         /\ NoEnd(s) /\ NoEnd(t) => NoEnd(s \o t)
<1>1. \A x : Holds(s \o t, x) <=> Holds(s, x) \/ Holds(t, x)
  <2> DEFINE q == s \o t
  <2>1. /\ \A i \in DOMAIN s : i \in DOMAIN q /\ q[i] = s[i]
        /\ \A i \in DOMAIN t : Len(s) + i \in DOMAIN q /\ q[Len(s) + i] = t[i]
        /\ \A i \in DOMAIN q : i \in DOMAIN s \/ \E j \in DOMAIN t : i = Len(s) + j
    BY ConcatShape
  <2> HIDE DEF q
  <2>2. \A x : Holds(q, x) <=> Holds(s, x) \/ Holds(t, x)
    BY <2>1 DEF Holds
  <2> QED
    BY <2>2 DEF q
<1>2. \A e : \A q : Waits(q, e) <=> \E x : Holds(q, x) /\ x.type = "event" /\ x.event = e
  BY DEF Waits, Holds
<1>3. \A q : NoEnd(q) <=> \A x : Holds(q, x) => ~IsEnd(x)
  BY DEF NoEnd, Holds
<1> QED
  BY <1>1, <1>2, <1>3

LEMMA ConcatOnce ==
  ASSUME NEW T, NEW s \in Seq(T), NEW t \in Seq(T), IsOnce(s), IsOnce(t),
         \A x : x.type = "event" => ~(Holds(s, x) /\ Holds(t, x))
  PROVE  IsOnce(s \o t)
<1> DEFINE q == s \o t
<1>1. /\ \A i \in DOMAIN s : q[i] = s[i]
      /\ \A i \in DOMAIN t : q[Len(s) + i] = t[i]
      /\ \A i \in DOMAIN q : i \in DOMAIN s \/ \E j \in DOMAIN t : i = Len(s) + j
  BY ConcatShape
<1> HIDE DEF q
<1>2. ASSUME NEW i \in DOMAIN q, NEW j \in DOMAIN q, q[i] = q[j], q[i].type = "event"
      PROVE  i = j
  <2>1. CASE i \in DOMAIN s /\ j \in DOMAIN s
    BY <1>1, <1>2, <2>1 DEF IsOnce
  <2>2. CASE \E a, b \in DOMAIN t : i = Len(s) + a /\ j = Len(s) + b
    <3>1. PICK a \in DOMAIN t, b \in DOMAIN t : i = Len(s) + a /\ j = Len(s) + b
      BY <2>2
    <3>2. t[a] = t[b] /\ t[a].type = "event"
      BY <1>1, <1>2, <3>1
    <3>3. a = b
      BY <3>2 DEF IsOnce
    <3> QED
      BY <3>1, <3>3
  <2>3. ~(Holds(s, q[i]) /\ Holds(t, q[i]))
    BY <1>2
  <2>4. ASSUME NEW a \in DOMAIN q, NEW b \in DOMAIN q, q[a] = q[i], q[b] = q[i],
               a \in DOMAIN s, \E d \in DOMAIN t : b = Len(s) + d
        PROVE  FALSE
    BY <1>1, <2>3, <2>4 DEF Holds
  <2> QED
    BY <1>1, <1>2, <2>1, <2>2, <2>4
<1> QED
  BY <1>2 DEF IsOnce, q

LEMMA ConcatCovered ==
  ASSUME NEW T, NEW s \in Seq(T), NEW t \in Seq(T), NEW D
  PROVE  /\ Covered(s, D) /\ NoEnd(t) => Covered(s \o t, D)
         /\ NoEnd(s) /\ (\A e \in D : Waits(s, e)) => Covered(s \o t, D)
<1> DEFINE q == s \o t
<1>1. /\ Len(s) \in Nat /\ DOMAIN s = 1..Len(s) /\ DOMAIN t = 1..Len(t) /\ Len(t) \in Nat
      /\ \A i \in DOMAIN s : q[i] = s[i]
      /\ \A i \in DOMAIN t : q[Len(s) + i] = t[i]
      /\ \A i \in DOMAIN q : i \in DOMAIN s \/ \E j \in DOMAIN t : i = Len(s) + j
  BY ConcatShape
<1> HIDE DEF q
<1>2. ASSUME Covered(s, D), NoEnd(t), NEW k \in DOMAIN q, IsEnd(q[k]), NEW e \in D
      PROVE  \E j \in 1..(k - 1) : q[j].type = "event" /\ q[j].event = e
  <2>1. k \in DOMAIN s
    BY <1>1, <1>2 DEF NoEnd
  <2>2. PICK j \in 1..(k - 1) : s[j].type = "event" /\ s[j].event = e
    BY <1>1, <1>2, <2>1 DEF Covered
  <2>3. j \in DOMAIN s
    BY <1>1, <2>1, <2>2
  <2> QED
    BY <1>1, <2>2, <2>3
<1>3. ASSUME NoEnd(s), \A e \in D : Waits(s, e), NEW k \in DOMAIN q, IsEnd(q[k]), NEW e \in D
      PROVE  \E j \in 1..(k - 1) : q[j].type = "event" /\ q[j].event = e
  <2>1. PICK i \in DOMAIN t : k = Len(s) + i
    BY <1>1, <1>3 DEF NoEnd
  <2>2. PICK j \in DOMAIN s : s[j].type = "event" /\ s[j].event = e
    BY <1>3 DEF Waits
  <2>3. j \in 1..(k - 1)
    BY <1>1, <2>1, <2>2
  <2> QED
    BY <1>1, <2>2, <2>3
<1> QED
  BY <1>2, <1>3 DEF Covered, q

LEMMA OneItem ==
  ASSUME NEW T, NEW x \in T
  PROVE  /\ <<x>> \in Seq(T) /\ IsOnce(<<x>>)
         /\ \A y : Holds(<<x>>, y) <=> y = x
         /\ ~IsEnd(x) => NoEnd(<<x>>)
<1>1. <<x>> \in Seq(T) /\ DOMAIN <<x>> = {1} /\ <<x>>[1] = x
  OBVIOUS
<1> QED
  BY <1>1 DEF IsOnce, Holds, NoEnd

LEMMA NoItems == IsOnce(<<>>) /\ NoEnd(<<>>) /\ (\A x : ~Holds(<<>>, x)) /\ \A D : Covered(<<>>, D)
<1>1. DOMAIN <<>> = {}
  OBVIOUS
<1> QED
  BY <1>1 DEF IsOnce, NoEnd, Holds, Covered

-------------------------------------------------------------------------------
(* What a step leaves alone. *)

\* The named fields are those the step changes.
Same(changed) == DOMAIN conn' = Fields /\ \A f \in Fields \ changed : conn'[f] = conn[f]

LEMMA RowKept ==
  ASSUME RowInv, UNCHANGED <<row, txn, published>>, due' = due \/ due' = row.events
  PROVE  RowInv'
BY DEF RowInv

LEMMA DueNoted ==
  ASSUME NoteEnd
  PROVE  /\ due' = due \/ due' = row.events
         /\ row.status \in Terminal => due' = row.events
         /\ row.status \notin Terminal => due' = due
BY DEF NoteEnd

LEMMA PublishedGrows ==
  ASSUME NEW p \in Nat, NEW q \in Nat, p <= q
  PROVE  1..p \subseteq 1..q /\ Seq(1..p) \subseteq Seq(1..q)
<1>1. 1..p \subseteq 1..q
  OBVIOUS
<1> QED
  BY <1>1, SeqMonotonic

\* Nothing happens to the connection.
LEMMA ConnKept ==
  ASSUME IInv, UNCHANGED <<conn, due>>, RowInv', published <= published'
  PROVE  IInv'
<1>1. ConnInv'
  <2>1. published \in Nat /\ published' \in Nat
    BY DEF IInv, RowInv
  <2>2. 1..published \subseteq 1..published' /\ Seq(1..published) \subseteq Seq(1..published')
    BY <2>1, PublishedGrows
  <2> QED
    BY <2>2 DEF IInv, ConnInv
<1>2. PhaseInv'
  BY DEF IInv, PhaseInv, IsOpen
<1>3. OnceInv'
  <2>1. \A e \in Events : e <= published => e <= published'
    BY EventsAssumption DEF IInv, RowInv, Events
  <2> QED
    BY <2>1 DEF IInv, OnceInv
<1>4. SeenInv'
  BY DEF IInv, SeenInv
<1>5. EndInv'
  BY DEF IInv, EndInv, SendsEnd, ReadsEnd
<1> QED
  BY <1>1, <1>2, <1>3, <1>4, <1>5 DEF IInv

LEMMA OnceKept ==
  ASSUME OnceInv, Same(Fields \ {"queue", "inbox", "sent", "seen"}), UNCHANGED published
  PROVE  OnceInv'
<1>1. /\ conn'.queue = conn.queue /\ conn'.inbox = conn.inbox
      /\ conn'.sent = conn.sent /\ conn'.seen = conn.seen
  BY DEF Same, Fields
<1> QED
  BY <1>1 DEF OnceInv

LEMMA SeenKept ==
  ASSUME SeenInv, Same(Fields \ {"kind", "queue", "sent", "seen"})
  PROVE  SeenInv'
<1>1. /\ conn'.queue = conn.queue /\ conn'.kind = conn.kind
      /\ conn'.sent = conn.sent /\ conn'.seen = conn.seen
  BY DEF Same, Fields
<1> QED
  BY <1>1 DEF SeenInv

\* An item that is not an event is added to the queue, or the first item is taken from it.
LEMMA OnceAppended ==
  ASSUME OnceInv, ConnInv, NEW x \in Items, x.type # "event", UNCHANGED published,
         conn'.queue = Append(conn.queue, x), conn'.inbox = conn.inbox,
         conn'.sent = conn.sent, conn'.seen = conn.seen
  PROVE  OnceInv'
<1>1. conn.queue \in Seq(Items) /\ <<x>> \in Seq(Items) /\ IsOnce(<<x>>)
      /\ \A y : Holds(<<x>>, y) <=> y = x
  BY OneItem DEF ConnInv
<1>2. conn'.queue = conn.queue \o <<x>>
  BY <1>1, AppendIsConcat
<1>3. \A y : Holds(conn'.queue, y) <=> Holds(conn.queue, y) \/ y = x
  <2>1. \A y : Holds(conn.queue \o <<x>>, y) <=> Holds(conn.queue, y) \/ Holds(<<x>>, y)
    BY <1>1, ConcatHolds
  <2> QED
    BY <1>1, <1>2, <2>1
<1>4. IsOnce(conn'.queue)
  <2>1. IsOnce(conn.queue) /\ \A y : y.type = "event" => ~(Holds(conn.queue, y) /\ Holds(<<x>>, y))
    BY <1>1 DEF OnceInv
  <2> QED
    BY <1>1, <1>2, <2>1, ConcatOnce
<1>5. \A e, from : EventItem(e, from) # x
  BY DEF EventItem
<1>6. \A e, from : Holds(conn'.queue, EventItem(e, from)) <=> Holds(conn.queue, EventItem(e, from))
  BY <1>3, <1>5
<1> QED
  BY <1>4, <1>6 DEF OnceInv

LEMMA OnceTaken ==
  ASSUME OnceInv, ConnInv, conn.queue # <<>>, UNCHANGED published,
         conn'.queue = Tail(conn.queue), conn'.inbox = conn.inbox,
         conn'.sent = conn.sent, conn'.seen = conn.seen
  PROVE  OnceInv'
<1>1. \A x : Holds(conn'.queue, x) => Holds(conn.queue, x)
  BY TailHolds DEF ConnInv
<1>2. IsOnce(conn'.queue)
  BY TailOnce DEF OnceInv, ConnInv
<1> QED
  BY <1>1, <1>2 DEF OnceInv

-------------------------------------------------------------------------------
(* The job's writers. *)

LEMMA CommitKeepsIInv ==
  ASSUME IInv, Commit \/ Rollback
  PROVE  IInv'
<1>1. UNCHANGED <<conn, due, published>> /\ published <= published'
  BY DEF Commit, Rollback, IInv, RowInv
<1>2. RowInv'
  <2>1. CASE Commit
    BY <2>1 DEF Commit, IInv, RowInv, Statuses
  <2>2. CASE Rollback
    BY <2>2 DEF Rollback, IInv, RowInv
  <2> QED
    BY <2>1, <2>2
<1> QED
  BY <1>1, <1>2, ConnKept

LEMMA AppendEventKeepsIInv ==
  ASSUME IInv, NEW status \in Active \cup Terminal, AppendEvent(status)
  PROVE  IInv'
<1> DEFINE e     == published + 1
           items == <<EventItem(e, "redis")>>
                    \o (IF status \in Terminal THEN <<RefreshItem>> ELSE <<>>)
<1>1. /\ e \in Events /\ published' = e /\ UNCHANGED <<row, due>>
      /\ txn' = [status |-> status, event |-> e]
      /\ conn' = Hears(items) \/ UNCHANGED conn
  BY DEF AppendEvent
<1>2. published \in Nat /\ published' \in Nat /\ published <= published' /\ published' <= MaxEvents
  BY <1>1, EventsAssumption DEF IInv, RowInv, Events
<1>3. RowInv'
  <2>1. 1..published \subseteq 1..published' /\ e \in 1..published'
    BY <1>1, <1>2
  <2> QED
    BY <1>1, <1>2, <2>1 DEF IInv, RowInv
<1>4. CASE UNCHANGED conn
  BY <1>1, <1>2, <1>3, <1>4, ConnKept
<1>5. CASE conn' = Hears(items) /\ conn.listener = "subscribed"
  <2> DEFINE x == EventItem(e, "redis")
  <2>1. /\ items \in Seq(RedisItems) /\ IsOnce(items)
        /\ \A y : Holds(items, y) => y = x \/ y = RefreshItem
    <3>1. x \in RedisItems /\ RefreshItem \in RedisItems /\ x # RefreshItem
      BY <1>1 DEF RedisItems, EventItem, RefreshItem
    <3> HIDE DEF x
    <3>2. <<x>> \in Seq(RedisItems) /\ IsOnce(<<x>>) /\ \A y : Holds(<<x>>, y) <=> y = x
      BY <3>1, OneItem
    <3>3. /\ <<RefreshItem>> \in Seq(RedisItems) /\ IsOnce(<<RefreshItem>>)
          /\ \A y : Holds(<<RefreshItem>>, y) <=> y = RefreshItem
      BY <3>1, OneItem
    <3>4. <<x>> \o <<>> = <<x>>
      BY <3>2, ConcatEmptySeq
    <3>5. /\ <<x>> \o <<RefreshItem>> \in Seq(RedisItems)
          /\ \A y : Holds(<<x>> \o <<RefreshItem>>, y) <=> y = x \/ y = RefreshItem
      BY <3>2, <3>3, ConcatShape, ConcatHolds
    <3>6. IsOnce(<<x>> \o <<RefreshItem>>)
      BY <3>1, <3>2, <3>3, ConcatOnce
    <3>7. items = <<x>> \/ items = <<x>> \o <<RefreshItem>>
      BY <3>4 DEF x
    <3> HIDE DEF items
    <3> QED
      BY <3>2, <3>5, <3>6, <3>7
  <2> HIDE DEF items
  <2>2. Same({"inbox"}) /\ conn'.inbox = conn.inbox \o items
    BY <1>5 DEF Hears, IInv, ConnInv, Fields, Same
  <2>3. conn.inbox \in Seq(RedisItems) /\ conn'.inbox \in Seq(RedisItems)
    BY <2>1, <2>2, ConcatShape DEF IInv, ConnInv
  <2>4. \A y : Holds(conn'.inbox, y) <=> Holds(conn.inbox, y) \/ Holds(items, y)
    BY <2>1, <2>2, <2>3, ConcatHolds
  <2>5. ConnInv'
    <3>1. 1..published \subseteq 1..published' /\ Seq(1..published) \subseteq Seq(1..published')
      BY <1>2, PublishedGrows
    <3> QED
      BY <2>2, <2>3, <3>1 DEF IInv, ConnInv, Same, Fields
  <2>6. PhaseInv'
    BY <1>5, <2>2 DEF IInv, PhaseInv, IsOpen, Same, Fields
  <2>7. OnceInv'
    <3>1. /\ conn'.queue = conn.queue /\ conn'.sent = conn.sent /\ conn'.seen = conn.seen
      BY <2>2 DEF Same, Fields
    <3>2. \A d \in Events : (d <= published => d <= published' /\ d # e)
      BY <1>2, EventsAssumption DEF Events
    <3>3. e <= published' /\ ~(e <= published)
      BY <1>1, <1>2
    <3>4. conn.sent["redis"][e] = 0
      <4>1. conn.sent["redis"][e] # 1
        BY <1>1, <3>3 DEF IInv, OnceInv, Sources
      <4>2. conn.sent["redis"][e] \in {0, 1}
        BY <1>1 DEF IInv, ConnInv, Sources
      <4> QED
        BY <4>1, <4>2
    <3>5. ~Holds(conn.queue, x) /\ ~Holds(conn.inbox, x)
      BY <1>1, <3>3 DEF IInv, OnceInv, Sources
    <3>6. IsOnce(conn'.inbox)
      <4>1. RefreshItem.type # "event"
        BY DEF RefreshItem
      <4>2. IsOnce(conn.inbox)
        BY DEF IInv, OnceInv
      <4> QED
        BY <2>1, <2>2, <2>3, <3>5, <4>1, <4>2, ConcatOnce
    <3>7. ASSUME NEW d \in Events, NEW from \in Sources, Holds(items, EventItem(d, from))
          PROVE  d = e /\ from = "redis"
      BY <2>1, <3>7 DEF EventItem, RefreshItem
    <3>8. ASSUME NEW d \in Events, NEW from \in Sources
          PROVE  /\ ~(Holds(conn'.queue, EventItem(d, from)) /\ Holds(conn'.inbox, EventItem(d, from)))
                 /\ Holds(conn'.queue, EventItem(d, from)) \/ Holds(conn'.inbox, EventItem(d, from))
                    => conn'.sent[from][d] = 0 /\ d <= published'
                 /\ conn'.sent[from][d] = 1 => d <= published'
      <4>1. CASE Holds(items, EventItem(d, from))
        BY <3>1, <3>3, <3>4, <3>5, <3>7, <4>1 DEF IInv, OnceInv
      <4>2. CASE ~Holds(items, EventItem(d, from))
        BY <2>4, <3>1, <3>2, <4>2 DEF IInv, OnceInv
      <4> QED
        BY <4>1, <4>2
    <3>9. \A d \in Events : conn'.sent["database"][d] = 1 \/ Holds(conn'.queue, EventItem(d, "database"))
                            => d \in conn'.seen
      BY <3>1 DEF IInv, OnceInv
    <3>10. IsOnce(conn'.queue)
      BY <3>1 DEF IInv, OnceInv
    <3> QED
      BY <3>6, <3>8, <3>9, <3>10 DEF OnceInv
  <2>8. SeenInv'
    BY <2>2 DEF IInv, SeenInv, Same, Fields
  <2>9. EndInv'
    BY <1>1, <2>2 DEF IInv, EndInv, SendsEnd, ReadsEnd, Same, Fields
  <2> QED
    BY <1>3, <2>5, <2>6, <2>7, <2>8, <2>9 DEF IInv
<1>6. conn' = Hears(items) /\ conn.listener # "subscribed" => UNCHANGED conn
  BY DEF Hears
<1> QED
  BY <1>1, <1>4, <1>5, <1>6

-------------------------------------------------------------------------------
(* Opening and closing a connection. *)

LEMMA CountIs ==
  ASSUME NEW sent \in [Sources -> [Events -> {0, 1}]], NEW from \in Sources, NEW S,
         \A e \in Events : e \in S => sent[from][e] = 0
  PROVE  /\ Count(sent, from, S) \in [Sources -> [Events -> {0, 1}]]
         /\ \A e \in Events : Count(sent, from, S)[from][e] = IF e \in S THEN 1 ELSE sent[from][e]
         /\ \A other \in Sources \ {from} : Count(sent, from, S)[other] = sent[other]
<1> DEFINE new == [e \in Events |-> sent[from][e] + (IF e \in S THEN 1 ELSE 0)]
<1>1. ASSUME NEW e \in Events
      PROVE  new[e] = (IF e \in S THEN 1 ELSE sent[from][e]) /\ new[e] \in {0, 1}
  <2>1. sent[from][e] \in {0, 1}
    OBVIOUS
  <2> QED
    BY <2>1
<1>2. new \in [Events -> {0, 1}]
  BY <1>1
<1>3. Count(sent, from, S) = [sent EXCEPT ![from] = new]
  BY DEF Count
<1> HIDE DEF new
<1> QED
  BY <1>1, <1>2, <1>3

LEMMA NothingSentIs ==
  /\ NothingSent \in [Sources -> [Events -> {0, 1}]]
  /\ \A from \in Sources, e \in Events : NothingSent[from][e] = 0
BY DEF NothingSent

LEMMA NewConnectionIs ==
  ASSUME NEW kind
  PROVE  LET c == NewConnection(kind) IN
         /\ DOMAIN c = Fields /\ c.kind = kind /\ c.step = "new" /\ c.reading = "nobody"
         /\ c.read = "none" /\ c.seen = {} /\ c.sent = NothingSent /\ c.queue = <<>>
         /\ c.inbox = <<>> /\ c.left = <<>> /\ c.listener = "none" /\ c.poller = "none"
BY DEF NewConnection, Fields, NothingSent, Sources

\* A connection that nobody opened, or that was closed.
LEMMA IdleConnection ==
  ASSUME RowInv, DOMAIN conn = Fields, conn.step \in {"new", "closed"}, conn.reading = "nobody",
         conn.read = "none", conn.seen = {}, conn.sent = NothingSent, conn.queue = <<>>,
         conn.inbox = <<>>, conn.left = <<>>, conn.listener = "none", conn.poller = "none"
  PROVE  IInv
<1>1. ConnInv
  BY EmptySeq, NothingSentIs DEF ConnInv, Statuses
<1>2. PhaseInv
  BY DEF PhaseInv, IsOpen
<1>3. OnceInv
  BY NoItems, NothingSentIs DEF OnceInv, Sources
<1>4. SeenInv
  BY DEF SeenInv
<1>5. EndInv
  BY NoItems DEF EndInv, SendsEnd, ReadsEnd
<1> QED
  BY <1>1, <1>2, <1>3, <1>4, <1>5 DEF IInv

LEMMA InitIInv == Init => IInv
<1> SUFFICES ASSUME Init PROVE IInv
  OBVIOUS
<1>1. PICK kind \in Kinds : conn = NewConnection(kind)
  BY DEF Init
<1>2. RowInv
  BY EventsAssumption DEF Init, RowInv, Statuses
<1> QED
  BY <1>1, <1>2, NewConnectionIs, IdleConnection

LEMMA CloseKeepsIInv ==
  ASSUME IInv, Close
  PROVE  IInv'
<1> DEFINE c == NewConnection(conn.kind)
<1>1. conn' = [c EXCEPT !.step = "closed"] /\ UNCHANGED <<row, txn, published, due>>
  BY DEF Close
<1>2. /\ DOMAIN c = Fields /\ c.reading = "nobody"
      /\ c.read = "none" /\ c.seen = {} /\ c.sent = NothingSent /\ c.queue = <<>>
      /\ c.inbox = <<>> /\ c.left = <<>> /\ c.listener = "none" /\ c.poller = "none"
  BY NewConnectionIs
<1> HIDE DEF c
<1>3. RowInv'
  BY <1>1, RowKept DEF IInv
<1>4. /\ DOMAIN conn' = Fields /\ conn'.step = "closed" /\ conn'.reading = "nobody"
      /\ conn'.read = "none" /\ conn'.seen = {} /\ conn'.sent = NothingSent
      /\ conn'.queue = <<>> /\ conn'.inbox = <<>> /\ conn'.left = <<>>
      /\ conn'.listener = "none" /\ conn'.poller = "none"
  BY <1>1, <1>2 DEF Fields
<1>5. NothingSent' = NothingSent
  BY DEF NothingSent, Sources, Events
<1>6. ConnInv'
  BY <1>4, EmptySeq, NothingSentIs DEF ConnInv, Statuses
<1>7. PhaseInv'
  BY <1>4 DEF PhaseInv, IsOpen
<1>8. OnceInv'
  BY <1>4, NoItems, NothingSentIs DEF OnceInv, Sources
<1>9. SeenInv'
  BY <1>4 DEF SeenInv
<1>10. EndInv'
  BY <1>4, NoItems DEF EndInv, SendsEnd, ReadsEnd
<1> QED
  BY <1>3, <1>6, <1>7, <1>8, <1>9, <1>10 DEF IInv

LEMMA OpenJobKeepsIInv ==
  ASSUME IInv, OpenJob
  PROVE  IInv'
<1>1. /\ Same({"reading", "read"}) /\ conn'.reading = "open" /\ conn'.read = row.status
      /\ UNCHANGED <<row, txn, published>>
      /\ conn.kind = "job" /\ conn.step = "new" /\ conn.reading = "nobody"
  BY DEF OpenJob, ReadStatus, IsFree, IInv, ConnInv, Same, Fields
<1>2. RowInv'
  BY <1>1, DueNoted, RowKept DEF OpenJob, IInv
<1>3. ConnInv'
  BY <1>1 DEF IInv, ConnInv, RowInv, Same, Fields
<1>4. PhaseInv'
  BY <1>1 DEF IInv, PhaseInv, IsOpen, Same, Fields
<1>5. OnceInv'
  BY <1>1, OnceKept DEF IInv, Same, Fields
<1>6. SeenInv'
  BY <1>1, SeenKept DEF IInv, Same, Fields
<1>7. EndInv'
  <2>1. conn'.queue = <<>> /\ conn'.step = "new"
    BY <1>1 DEF IInv, PhaseInv, Same, Fields
  <2> QED
    BY <2>1, NoItems DEF EndInv, SendsEnd, ReadsEnd
<1> QED
  BY <1>2, <1>3, <1>4, <1>5, <1>6, <1>7 DEF IInv

LEMMA SnapshotKeepsIInv ==
  ASSUME IInv, Snapshot
  PROVE  IInv'
<1> DEFINE ends == Ends(conn.read)
<1>0. /\ conn.reading = "open" /\ conn.step = "new" /\ conn.kind = "job"
      /\ conn.seen = {} /\ conn.sent = NothingSent /\ conn.queue = <<>> /\ conn.inbox = <<>>
      /\ conn.left = <<>> /\ conn.listener = "none" /\ conn.poller = "none"
      /\ DOMAIN conn = Fields /\ UNCHANGED <<row, txn, published, due>>
  BY DEF Snapshot, IInv, PhaseInv, ConnInv
<1>1. conn' = [conn EXCEPT !.reading = "nobody", !.shown = conn.read,
                           !.seen = row.events, !.sent = Count(@, "database", row.events),
                           !.step = IF ends THEN "done" ELSE "take",
                           !.ended = IF ends THEN "snapshot" ELSE @,
                           !.listener = IF ends THEN @ ELSE "starting",
                           !.poller = IF ends THEN @ ELSE "polling"]
  BY DEF Snapshot
<1> HIDE DEF ends
<1>2. DOMAIN conn' = Fields /\ conn'.reading = "nobody" /\ conn'.shown = conn.read
  BY <1>0, <1>1 DEF Fields
<1>3. conn'.seen = row.events /\ conn'.sent = Count(conn.sent, "database", row.events)
  BY <1>0, <1>1 DEF Fields
<1>4. /\ conn'.queue = <<>> /\ conn'.inbox = <<>> /\ conn'.left = <<>> /\ conn'.kind = "job"
      /\ conn'.read = conn.read
  BY <1>0, <1>1 DEF Fields
<1>5. conn'.step = (IF ends THEN "done" ELSE "take")
  BY <1>0, <1>1 DEF Fields
<1>6. RowInv'
  BY <1>0, RowKept DEF IInv
<1>7. /\ row.events \subseteq 1..published /\ due \subseteq row.events
      /\ row.events \subseteq Events /\ \A e \in row.events : e <= published
  BY EventsAssumption DEF IInv, RowInv, Events
<1>8. /\ conn'.sent \in [Sources -> [Events -> {0, 1}]]
      /\ \A e \in Events : conn'.sent["database"][e] = IF e \in row.events THEN 1 ELSE 0
      /\ \A e \in Events : conn'.sent["redis"][e] = 0
  <2>1. /\ conn'.sent \in [Sources -> [Events -> {0, 1}]]
        /\ \A e \in Events : conn'.sent["database"][e]
                             = IF e \in row.events THEN 1 ELSE NothingSent["database"][e]
        /\ \A other \in Sources \ {"database"} : conn'.sent[other] = NothingSent[other]
    BY <1>0, <1>3, CountIs, NothingSentIs DEF Sources
  <2> QED
    BY <2>1, NothingSentIs DEF Sources
<1>9. ConnInv'
  BY <1>0, <1>2, <1>3, <1>4, <1>5, <1>7, <1>8, EmptySeq DEF IInv, ConnInv
<1>10. PhaseInv'
  BY <1>2, <1>4, <1>5 DEF PhaseInv, IsOpen, ends, Ends
<1>11. OnceInv'
  <2>1. /\ IsOnce(conn'.queue) /\ IsOnce(conn'.inbox)
        /\ \A x : ~Holds(conn'.queue, x) /\ ~Holds(conn'.inbox, x)
    BY <1>4, NoItems
  <2>2. \A e \in Events : conn'.sent["database"][e] = 1 => e \in row.events
    BY <1>8
  <2>3. \A e \in Events, from \in Sources : conn'.sent[from][e] = 1 => e <= published'
    BY <1>0, <1>7, <1>8 DEF Sources
  <2> QED
    BY <1>3, <2>1, <2>2, <2>3 DEF OnceInv
<1>12. \A e \in row.events : WasSent(conn'.sent, e)
  BY <1>7, <1>8 DEF WasSent, Sources
<1>13. SeenInv'
  BY <1>3, <1>12 DEF SeenInv
<1>14. EndInv'
  <2>1. conn'.step # "send"
    BY <1>5
  <2> QED
    BY <1>0, <1>4, <1>7, <1>12, <2>1, NoItems DEF EndInv, SendsEnd, ReadsEnd
<1> QED
  BY <1>6, <1>9, <1>10, <1>11, <1>13, <1>14 DEF IInv

LEMMA OpenActiveKeepsIInv ==
  ASSUME IInv, OpenActive
  PROVE  IInv'
<1>1. /\ Same({"step", "shown", "listener", "poller"}) /\ conn'.step = "take"
      /\ UNCHANGED <<row, txn, published, due>> /\ conn.kind = "active" /\ conn.step = "new"
  BY DEF OpenActive, IInv, ConnInv, Same, Fields
<1>2. RowInv'
  BY <1>1, RowKept DEF IInv
<1>3. ConnInv'
  BY <1>1 DEF IInv, ConnInv, Same, Fields
<1>4. PhaseInv'
  BY <1>1 DEF IInv, PhaseInv, IsOpen, Same, Fields
<1>5. OnceInv'
  BY <1>1, OnceKept DEF IInv, Same, Fields
<1>6. SeenInv'
  BY <1>1, SeenKept DEF IInv, Same, Fields
<1>7. EndInv'
  <2>1. conn'.queue = <<>> /\ conn'.step = "take"
    BY <1>1 DEF IInv, PhaseInv, Same, Fields
  <2> QED
    BY <2>1, NoItems DEF EndInv, SendsEnd, ReadsEnd
<1> QED
  BY <1>2, <1>3, <1>4, <1>5, <1>6, <1>7 DEF IInv

-------------------------------------------------------------------------------
(* The listener. *)

LEMMA SubscribeKeepsIInv ==
  ASSUME IInv, Subscribe \/ PollerFails
  PROVE  IInv'
<1>1. /\ Same({"listener", "poller"}) /\ UNCHANGED <<row, txn, published, due>>
      /\ conn'.poller = conn.poller \/ conn'.poller = "dead"
      /\ IsOpen /\ conn.reading = "nobody"
  BY DEF Subscribe, PollerFails, IsFree, IInv, ConnInv, Same, Fields
<1>2. RowInv'
  BY <1>1, RowKept DEF IInv
<1>3. ConnInv'
  BY <1>1 DEF IInv, ConnInv, Same, Fields
<1>4. PhaseInv'
  BY <1>1 DEF IInv, PhaseInv, IsOpen, Same, Fields
<1>5. OnceInv'
  BY <1>1, OnceKept DEF IInv, Same, Fields
<1>6. SeenInv'
  BY <1>1, SeenKept DEF IInv, Same, Fields
<1>7. EndInv'
  BY <1>1 DEF IInv, EndInv, SendsEnd, ReadsEnd, Same, Fields
<1> QED
  BY <1>2, <1>3, <1>4, <1>5, <1>6, <1>7 DEF IInv

LEMMA ListenerFailsKeepsIInv ==
  ASSUME IInv, ListenerFails
  PROVE  IInv'
<1>1. /\ Same({"listener", "inbox"}) /\ conn'.inbox = <<>>
      /\ UNCHANGED <<row, txn, published, due>> /\ IsOpen
  BY DEF ListenerFails, IInv, ConnInv, Same, Fields
<1>2. RowInv'
  BY <1>1, RowKept DEF IInv
<1>3. ConnInv'
  BY <1>1, EmptySeq DEF IInv, ConnInv, Same, Fields
<1>4. PhaseInv'
  BY <1>1 DEF IInv, PhaseInv, IsOpen, Same, Fields
<1>5. OnceInv'
  <2>1. /\ conn'.queue = conn.queue /\ conn'.sent = conn.sent /\ conn'.seen = conn.seen
        /\ published' = published
    BY <1>1 DEF Same, Fields
  <2>2. IsOnce(conn'.inbox) /\ \A x : ~Holds(conn'.inbox, x)
    BY <1>1, NoItems
  <2> QED
    BY <2>1, <2>2 DEF IInv, OnceInv
<1>6. SeenInv'
  BY <1>1, SeenKept DEF IInv, Same, Fields
<1>7. EndInv'
  BY <1>1 DEF IInv, EndInv, SendsEnd, ReadsEnd, Same, Fields
<1> QED
  BY <1>2, <1>3, <1>4, <1>5, <1>6, <1>7 DEF IInv

\* An item of Redis moves from the inbox to the queue.
LEMMA ForwardKeepsIInv ==
  ASSUME IInv, Forward
  PROVE  IInv'
<1> DEFINE x == Head(conn.inbox)
<1>1. /\ Same({"inbox", "queue"}) /\ conn'.inbox = Tail(conn.inbox)
      /\ conn'.queue = Append(conn.queue, x)
      /\ UNCHANGED <<row, txn, published, due>>
      /\ IsOpen /\ conn.inbox # <<>>
  BY DEF Forward, IInv, ConnInv, Same, Fields
<1>2. conn.queue \in Seq(Items) /\ conn.inbox \in Seq(RedisItems)
  BY DEF IInv, ConnInv
<1>3. /\ x \in RedisItems /\ conn'.inbox \in Seq(RedisItems)
      /\ \A y : Holds(conn.inbox, y) <=> y = x \/ Holds(conn'.inbox, y)
  BY <1>1, <1>2, TailShape, TailHolds
<1>4. x \in Items /\ ~IsEnd(x)
  BY <1>3 DEF RedisItems, Items, EventItems, Sources, IsEnd, EventItem, RefreshItem
<1> HIDE DEF x
<1>5. /\ <<x>> \in Seq(Items) /\ IsOnce(<<x>>) /\ NoEnd(<<x>>)
      /\ \A y : Holds(<<x>>, y) <=> y = x
  BY <1>4, OneItem
<1>6. conn'.queue = conn.queue \o <<x>>
  BY <1>1, <1>2, <1>4, AppendIsConcat
<1>7. /\ conn'.queue \in Seq(Items)
      /\ NoEnd(conn.queue) => NoEnd(conn'.queue)
      /\ \A y : Holds(conn'.queue, y) <=> Holds(conn.queue, y) \/ Holds(<<x>>, y)
      /\ \A e : Waits(conn.queue, e) => Waits(conn'.queue, e)
  <2> DEFINE q == conn.queue \o <<x>>
  <2>1. q \in Seq(Items)
    BY <1>2, <1>5, ConcatShape
  <2>2. /\ NoEnd(conn.queue) /\ NoEnd(<<x>>) => NoEnd(q)
        /\ \A y : Holds(q, y) <=> Holds(conn.queue, y) \/ Holds(<<x>>, y)
        /\ \A e : Waits(q, e) <=> Waits(conn.queue, e) \/ Waits(<<x>>, e)
    BY <1>2, <1>5, ConcatHolds
  <2> HIDE DEF q
  <2> QED
    BY <1>5, <1>6, <2>1, <2>2 DEF q
<1>8. RowInv'
  BY <1>1, RowKept DEF IInv
<1>9. ConnInv'
  BY <1>1, <1>3, <1>7 DEF IInv, ConnInv, Same, Fields
<1>10. PhaseInv'
  BY <1>1 DEF IInv, PhaseInv, IsOpen, Same, Fields
<1>11. OnceInv'
  <2>1. conn'.sent = conn.sent /\ conn'.seen = conn.seen /\ published' = published
    BY <1>1 DEF Same, Fields
  <2>2. IsOnce(conn.queue) /\ IsOnce(conn.inbox)
    BY DEF IInv, OnceInv
  <2>3. IsOnce(conn'.inbox) /\ (x.type = "event" => ~Holds(conn'.inbox, x))
    BY <1>1, <1>2, <2>2, TailOnce DEF x
  <2>4. x.type = "event" => \E e \in Events : x = EventItem(e, "redis")
    BY <1>3 DEF RedisItems, RefreshItem
  <2>5. x.type = "event" => ~Holds(conn.queue, x)
    <3>1. Holds(conn.inbox, x)
      BY <1>3
    <3> QED
      BY <2>4, <3>1 DEF IInv, OnceInv, Sources
  <2>6. IsOnce(conn'.queue)
    <3>1. \A y : y.type = "event" => ~(Holds(conn.queue, y) /\ Holds(<<x>>, y))
      BY <1>5, <2>5
    <3> QED
      BY <1>2, <1>5, <1>6, <2>2, <3>1, ConcatOnce
  <2>7. ASSUME NEW e \in Events, NEW from \in Sources
        PROVE  /\ ~(Holds(conn'.queue, EventItem(e, from)) /\ Holds(conn'.inbox, EventItem(e, from)))
               /\ Holds(conn'.queue, EventItem(e, from)) \/ Holds(conn'.inbox, EventItem(e, from))
                  => conn'.sent[from][e] = 0 /\ e <= published'
               /\ conn'.sent[from][e] = 1 => e <= published'
    <3>1. CASE x = EventItem(e, from)
      <4>1. x.type = "event" /\ Holds(conn.inbox, x)
        BY <1>3, <3>1 DEF EventItem
      <4> QED
        BY <2>1, <2>3, <3>1, <4>1 DEF IInv, OnceInv
    <3>2. CASE x # EventItem(e, from)
      <4>1. /\ Holds(conn'.queue, EventItem(e, from)) <=> Holds(conn.queue, EventItem(e, from))
            /\ Holds(conn'.inbox, EventItem(e, from)) <=> Holds(conn.inbox, EventItem(e, from))
        BY <1>3, <1>5, <1>7, <3>2
      <4> QED
        BY <2>1, <4>1 DEF IInv, OnceInv
    <3> QED
      BY <3>1, <3>2
  <2>8. \A e \in Events : conn'.sent["database"][e] = 1 \/ Holds(conn'.queue, EventItem(e, "database"))
                          => e \in conn'.seen
    <3>1. \A e : x # EventItem(e, "database")
      BY <1>3 DEF RedisItems, EventItem, RefreshItem
    <3>2. \A e : Holds(conn'.queue, EventItem(e, "database")) => Holds(conn.queue, EventItem(e, "database"))
      BY <1>5, <1>7, <3>1
    <3> QED
      BY <2>1, <3>2 DEF IInv, OnceInv
  <2> QED
    BY <2>3, <2>6, <2>7, <2>8 DEF OnceInv
<1>12. SeenInv'
  <2>1. conn'.sent = conn.sent /\ conn'.seen = conn.seen /\ conn'.kind = conn.kind
    BY <1>1 DEF Same, Fields
  <2> QED
    BY <1>7, <2>1 DEF IInv, SeenInv
<1>13. EndInv'
  <2>1. /\ conn'.sent = conn.sent /\ conn'.seen = conn.seen /\ conn'.kind = conn.kind
        /\ conn'.poller = conn.poller /\ conn'.step = conn.step /\ conn'.reading = conn.reading
        /\ conn'.read = conn.read /\ conn'.status = conn.status /\ conn'.left = conn.left
        /\ due' = due
    BY <1>1 DEF Same, Fields
  <2>2. conn'.step # "done"
    BY <1>1, <2>1 DEF IsOpen
  <2>3. \A D : Covered(conn.queue, D) => Covered(conn'.queue, D)
    BY <1>2, <1>5, <1>6, ConcatCovered
  <2>4. /\ ReadsEnd("refresh")' <=> ReadsEnd("refresh")
        /\ ReadsEnd("poll")' <=> ReadsEnd("poll")
        /\ SendsEnd' <=> SendsEnd
    BY <2>1 DEF ReadsEnd, SendsEnd
  <2> QED
    BY <1>7, <2>1, <2>2, <2>3, <2>4 DEF IInv, EndInv
<1> QED
  BY <1>8, <1>9, <1>10, <1>11, <1>12, <1>13 DEF IInv

-------------------------------------------------------------------------------
(* The poller. *)

\* While the poller polls, nothing in the queue ends the stream.
LEMMA PollJobKeepsIInv ==
  ASSUME IInv, PollJob
  PROVE  IInv'
<1>1. /\ Same({"reading", "read"}) /\ conn'.reading = "poll" /\ conn'.read = row.status
      /\ UNCHANGED <<row, txn, published>>
      /\ conn.kind = "job" /\ IsOpen /\ conn.reading = "nobody" /\ conn.poller = "polling"
  BY DEF PollJob, IsDue, ReadStatus, IsFree, IInv, ConnInv, Same, Fields
<1>2. RowInv'
  BY <1>1, DueNoted, RowKept DEF PollJob, IInv
<1>3. ConnInv'
  BY <1>1 DEF IInv, ConnInv, RowInv, Same, Fields
<1>4. PhaseInv'
  BY <1>1 DEF IInv, PhaseInv, IsOpen, Same, Fields
<1>5. OnceInv'
  BY <1>1, OnceKept DEF IInv, Same, Fields
<1>6. SeenInv'
  BY <1>1, SeenKept DEF IInv, Same, Fields
<1>7. EndInv'
  <2>1. /\ conn'.step # "done" /\ conn'.step = conn.step /\ conn'.seen = conn.seen
        /\ conn'.left = conn.left /\ conn'.status = conn.status
    BY <1>1 DEF IsOpen, Same, Fields
  <2>2. NoEnd(conn'.queue)
    BY <1>1 DEF IInv, EndInv, Same, Fields
  <2>3. \A D : Covered(conn'.queue, D)
    BY <2>2 DEF NoEnd, Covered
  <2>4. ASSUME SendsEnd', ~ReadsEnd("poll")'
        PROVE  \A e \in due' : e \in conn'.seen \/ Holds(conn'.left, e)
    <3>1. row.status \notin Terminal
      BY <1>1, <2>4 DEF ReadsEnd, Ends
    <3>2. due' = due
      BY <3>1, DueNoted DEF PollJob
    <3>3. SendsEnd /\ ~ReadsEnd("poll")
      BY <1>1, <2>1, <2>4 DEF SendsEnd, ReadsEnd
    <3> QED
      BY <2>1, <3>2, <3>3 DEF IInv, EndInv
  <2> QED
    BY <2>1, <2>2, <2>3, <2>4 DEF EndInv
<1> QED
  BY <1>2, <1>3, <1>4, <1>5, <1>6, <1>7 DEF IInv

LEMMA PollActiveKeepsIInv ==
  ASSUME IInv, PollActive \/ RefreshActiveJobs
  PROVE  IInv'
<1> DEFINE x == JobsItem(ListActiveJobs)
<1>1. /\ Same({"queue", "reading"}) /\ conn'.queue = Append(conn.queue, x)
      /\ conn'.reading = conn.reading \/ conn'.reading = "nobody"
      /\ UNCHANGED <<row, txn, published, due>> /\ conn.kind = "active" /\ IsOpen
      /\ conn.reading \in {"nobody", "list"}
  BY DEF PollActive, RefreshActiveJobs, IsDue, IsFree, IsOpen, IInv, ConnInv, PhaseInv, Same, Fields
<1>2. x \in Items /\ x.type # "event" /\ ~IsEnd(x)
  <2>1. ListActiveJobs \in Statuses
    BY DEF ListActiveJobs, IInv, RowInv, Statuses
  <2> QED
    BY <2>1 DEF Items, JobsItem, IsEnd
<1> HIDE DEF x
<1>3. conn.queue \in Seq(Items) /\ <<x>> \in Seq(Items) /\ NoEnd(<<x>>)
  BY <1>2, OneItem DEF IInv, ConnInv
<1>4. conn'.queue = conn.queue \o <<x>>
  BY <1>1, <1>2, <1>3, AppendIsConcat
<1>5. conn'.queue \in Seq(Items) /\ (NoEnd(conn.queue) => NoEnd(conn'.queue))
  <2>1. conn.queue \o <<x>> \in Seq(Items)
    BY <1>3, ConcatShape
  <2>2. NoEnd(conn.queue) => NoEnd(conn.queue \o <<x>>)
    BY <1>3, ConcatHolds
  <2> QED
    BY <1>4, <2>1, <2>2
<1>6. RowInv'
  BY <1>1, RowKept DEF IInv
<1>7. ConnInv'
  BY <1>1, <1>5 DEF IInv, ConnInv, Same, Fields
<1>8. PhaseInv'
  BY <1>1 DEF IInv, PhaseInv, IsOpen, Same, Fields
<1>9. OnceInv'
  <2>1. /\ conn'.inbox = conn.inbox /\ conn'.sent = conn.sent /\ conn'.seen = conn.seen
        /\ UNCHANGED published
    BY <1>1 DEF Same, Fields
  <2>2. OnceInv /\ ConnInv
    BY DEF IInv
  <2> QED
    BY <1>1, <1>2, <2>1, <2>2, OnceAppended
<1>10. SeenInv'
  BY <1>1 DEF SeenInv, Same, Fields
<1>11. EndInv'
  <2>1. conn'.step # "done" /\ conn'.step # "send"
    BY <1>1 DEF IsOpen, Same, Fields, IInv, PhaseInv
  <2>2. NoEnd(conn'.queue)
    BY <1>1, <1>5 DEF IInv, EndInv
  <2>3. \A D : Covered(conn'.queue, D)
    BY <2>2 DEF NoEnd, Covered
  <2> QED
    BY <2>1, <2>2, <2>3 DEF EndInv, SendsEnd
<1> QED
  BY <1>6, <1>7, <1>8, <1>9, <1>10, <1>11 DEF IInv

\* The poller adds the events nobody saw, the job and, at the end, "done".
LEMMA PollEventsKeepsIInv ==
  ASSUME IInv, PollEvents
  PROVE  IInv'
<1> DEFINE new    == InOrder(Unseen)
           events == [i \in DOMAIN new |-> EventItem(new[i], "database")]
           j      == JobItem(conn.read)
           done   == IF Ends(conn.read) THEN <<DoneItem(conn.read)>> ELSE <<>>
           q      == conn.queue
           qe     == q \o events
           rest   == <<j>> \o done
<1>1. /\ conn' = [conn EXCEPT !.reading = "nobody", !.seen = @ \cup Unseen,
                              !.queue = @ \o events \o <<j>> \o done, !.poller = AfterPoll]
      /\ UNCHANGED <<row, txn, published, due>>
      /\ conn.reading = "poll" /\ DOMAIN conn = Fields
  BY DEF PollEvents, IInv, ConnInv
<1>2. conn.kind = "job" /\ IsOpen /\ conn.poller = "polling" /\ NoEnd(q)
  BY <1>1 DEF IInv, PhaseInv, EndInv
<1>3. /\ row.events \subseteq 1..published /\ due \subseteq row.events
      /\ row.events \subseteq Events /\ Unseen \subseteq Events /\ \A e \in row.events : e <= published
  BY EventsAssumption DEF IInv, RowInv, Events, Unseen
<1>4. /\ new \in Seq(Unseen) /\ Len(new) \in Nat
      /\ DOMAIN new = 1..Len(new)
      /\ \A a, b \in DOMAIN new : new[a] = new[b] => a = b
      /\ \A a \in DOMAIN new : new[a] \in Unseen
      /\ \A e \in Unseen : Holds(new, e)
  BY <1>3, EventsInOrder
<1>5. \A a \in DOMAIN new : EventItem(new[a], "database") \in Items
  BY <1>3, <1>4 DEF Items, EventItems, Sources
<1> HIDE DEF new
<1>6. /\ events \in Seq(Items) /\ DOMAIN events = DOMAIN new
      /\ \A a \in DOMAIN new : events[a] = EventItem(new[a], "database")
  BY <1>4, <1>5
<1> HIDE DEF events
<1>7. /\ IsOnce(events) /\ NoEnd(events)
      /\ \A x : Holds(events, x) => \E e \in Unseen : x = EventItem(e, "database")
      /\ \A e \in Unseen : Waits(events, e)
  <2>1. IsOnce(events)
    BY <1>4, <1>6 DEF IsOnce, EventItem
  <2>2. NoEnd(events)
    BY <1>6 DEF NoEnd, IsEnd, EventItem
  <2>3. \A x : Holds(events, x) => \E e \in Unseen : x = EventItem(e, "database")
    BY <1>4, <1>6 DEF Holds
  <2>4. \A e \in Unseen : Waits(events, e)
    BY <1>4, <1>6 DEF Holds, Waits, EventItem
  <2> QED
    BY <2>1, <2>2, <2>3, <2>4
<1>8. q \in Seq(Items)
  BY DEF IInv, ConnInv
<1>9. /\ <<j>> \in Seq(Items) /\ done \in Seq(Items) /\ rest \in Seq(Items) /\ IsOnce(rest)
      /\ \A x : Holds(rest, x) => x.type # "event"
      /\ ~Ends(conn.read) => NoEnd(rest)
  <2> DEFINE d == DoneItem(conn.read)
  <2>1. /\ j \in Items /\ d \in Items /\ j.type # "event" /\ d.type # "event" /\ j # d
        /\ ~Ends(conn.read) => ~IsEnd(j)
    BY DEF IInv, ConnInv, Items, JobItem, DoneItem, Ends, IsEnd
  <2> HIDE DEF j, d
  <2>2. /\ <<j>> \in Seq(Items) /\ IsOnce(<<j>>) /\ (~IsEnd(j) => NoEnd(<<j>>))
        /\ \A y : Holds(<<j>>, y) <=> y = j
    BY <2>1, OneItem
  <2>3. <<d>> \in Seq(Items) /\ IsOnce(<<d>>) /\ \A y : Holds(<<d>>, y) <=> y = d
    BY <2>1, OneItem
  <2>4. <<j>> \o <<>> = <<j>> /\ <<>> \in Seq(Items)
    BY <2>2, ConcatEmptySeq, EmptySeq
  <2>5. /\ <<j>> \o <<d>> \in Seq(Items)
        /\ \A y : Holds(<<j>> \o <<d>>, y) <=> Holds(<<j>>, y) \/ Holds(<<d>>, y)
    BY <2>2, <2>3, ConcatShape, ConcatHolds
  <2>6. IsOnce(<<j>> \o <<d>>)
    BY <2>1, <2>2, <2>3, ConcatOnce
  <2>7. done = IF Ends(conn.read) THEN <<d>> ELSE <<>>
    BY DEF d
  <2> HIDE DEF done
  <2>8. CASE Ends(conn.read)
    BY <2>1, <2>2, <2>3, <2>5, <2>6, <2>7, <2>8
  <2>9. CASE ~Ends(conn.read)
    BY <2>1, <2>2, <2>4, <2>7, <2>9
  <2> QED
    BY <2>8, <2>9
<1> HIDE DEF j, done
<1>10. /\ qe \in Seq(Items) /\ NoEnd(qe)
       /\ \A x : Holds(qe, x) <=> Holds(q, x) \/ Holds(events, x)
       /\ \A e : Waits(qe, e) <=> Waits(q, e) \/ Waits(events, e)
  <2>1. qe \in Seq(Items)
    BY <1>6, <1>8, ConcatShape
  <2>2. /\ NoEnd(q) /\ NoEnd(events) => NoEnd(qe)
        /\ \A x : Holds(qe, x) <=> Holds(q, x) \/ Holds(events, x)
        /\ \A e : Waits(qe, e) <=> Waits(q, e) \/ Waits(events, e)
    BY <1>6, <1>8, ConcatHolds
  <2> QED
    BY <1>2, <1>7, <2>1, <2>2
<1> HIDE DEF qe
<1>11. (qe \o <<j>>) \o done = qe \o rest
  <2>1. qe \in Seq(Items) /\ <<j>> \in Seq(Items) /\ done \in Seq(Items)
    BY <1>9, <1>10
  <2>2. (qe \o <<j>>) \o done = qe \o (<<j>> \o done)
    BY <2>1, ConcatAssociative
  <2> QED
    BY <2>2
<1> HIDE DEF rest
<1>12. /\ Same({"reading", "seen", "queue", "poller"}) /\ conn'.reading = "nobody"
       /\ conn'.seen = conn.seen \cup Unseen
       /\ conn'.queue = qe \o rest /\ conn'.poller = AfterPoll
  <2>1. q \o events \o <<j>> \o done = qe \o rest
    BY <1>11 DEF qe
  <2> DEFINE all == q \o events \o <<j>> \o done
  <2>2. conn' = [conn EXCEPT !.reading = "nobody", !.seen = @ \cup Unseen,
                             !.queue = all, !.poller = AfterPoll]
    BY <1>1
  <2>3. all = qe \o rest
    BY <2>1
  <2> HIDE DEF all
  <2>4. Same({"reading", "seen", "queue", "poller"})
    BY <1>1, <2>2 DEF Same, Fields
  <2>5. conn'.reading = "nobody" /\ conn'.seen = conn.seen \cup Unseen
    BY <1>1, <2>2 DEF Fields
  <2>6. conn'.queue = all /\ conn'.poller = AfterPoll
    BY <1>1, <2>2 DEF Fields
  <2> QED
    BY <2>3, <2>4, <2>5, <2>6
<1>13. /\ conn'.queue \in Seq(Items)
       /\ \A x : Holds(conn'.queue, x) <=> Holds(qe, x) \/ Holds(rest, x)
       /\ \A e : Waits(conn'.queue, e) <=> Waits(qe, e) \/ Waits(rest, e)
       /\ NoEnd(rest) => NoEnd(conn'.queue)
  <2>1. qe \o rest \in Seq(Items)
    BY <1>9, <1>10, ConcatShape
  <2>2. /\ \A x : Holds(qe \o rest, x) <=> Holds(qe, x) \/ Holds(rest, x)
        /\ \A e : Waits(qe \o rest, e) <=> Waits(qe, e) \/ Waits(rest, e)
        /\ NoEnd(qe) /\ NoEnd(rest) => NoEnd(qe \o rest)
    BY <1>9, <1>10, ConcatHolds
  <2> QED
    BY <1>10, <1>12, <2>1, <2>2
<1>14. RowInv'
  BY <1>1, RowKept DEF IInv
<1>15. ConnInv'
  <2>1. conn'.seen \subseteq 1..published'
    BY <1>1, <1>3, <1>12 DEF IInv, ConnInv, Unseen
  <2> QED
    BY <1>1, <1>12, <1>13, <2>1 DEF IInv, ConnInv, Same, Fields
<1>16. PhaseInv'
  <2>1. conn'.kind = "job" /\ conn'.step = conn.step /\ conn'.step \in {"take", "send"}
    BY <1>2, <1>12 DEF Same, Fields, IsOpen
  <2> QED
    BY <1>12, <2>1 DEF PhaseInv
<1>17. ASSUME NEW e \in Events
       PROVE  e \in Unseen => ~Holds(q, EventItem(e, "database")) /\ conn.sent["database"][e] = 0
  <2>1. e \in Unseen => conn.sent["database"][e] # 1 /\ ~Holds(q, EventItem(e, "database"))
    BY DEF Unseen, IInv, OnceInv
  <2>2. conn.sent["database"][e] \in {0, 1}
    BY DEF IInv, ConnInv, Sources
  <2> QED
    BY <2>1, <2>2
<1>18. OnceInv'
  <2>1. conn'.inbox = conn.inbox /\ conn'.sent = conn.sent /\ published' = published
    BY <1>1, <1>12 DEF Same, Fields
  <2>2. IsOnce(conn'.queue)
    <3>1. IsOnce(q)
      BY DEF IInv, OnceInv
    <3>2. \A x : ~(Holds(q, x) /\ Holds(events, x))
      BY <1>3, <1>7, <1>17
    <3>3. IsOnce(qe)
      BY <1>6, <1>7, <1>8, <3>1, <3>2, ConcatOnce DEF qe
    <3>4. \A x : x.type = "event" => ~(Holds(qe, x) /\ Holds(rest, x))
      BY <1>9
    <3>5. IsOnce(qe \o rest)
      BY <1>9, <1>10, <3>3, <3>4, ConcatOnce
    <3> QED
      BY <1>12, <3>5
  <2>3. \A e, from : Holds(conn'.queue, EventItem(e, from))
                     => \/ Holds(q, EventItem(e, from))
                        \/ e \in Unseen /\ from = "database"
    <3>1. \A e, from : EventItem(e, from).type = "event"
      BY DEF EventItem
    <3>2. \A e, from, d : EventItem(e, from) = EventItem(d, "database") => e = d /\ from = "database"
      BY DEF EventItem
    <3> QED
      BY <1>7, <1>9, <1>10, <1>13, <3>1, <3>2
  <2>4. \A e : ~Holds(conn.inbox, EventItem(e, "database"))
    <3>1. \A e : EventItem(e, "database") \notin RedisItems
      BY DEF RedisItems, EventItem, RefreshItem
    <3>2. \A i \in DOMAIN conn.inbox : conn.inbox[i] \in RedisItems
      BY DEF IInv, ConnInv
    <3> QED
      BY <3>1, <3>2 DEF Holds
  <2>5. ASSUME NEW e \in Events, NEW from \in Sources
        PROVE  /\ ~(Holds(conn'.queue, EventItem(e, from)) /\ Holds(conn'.inbox, EventItem(e, from)))
               /\ Holds(conn'.queue, EventItem(e, from)) \/ Holds(conn'.inbox, EventItem(e, from))
                  => conn'.sent[from][e] = 0 /\ e <= published'
               /\ conn'.sent[from][e] = 1 => e <= published'
    <3>1. CASE e \in Unseen /\ from = "database"
      BY <1>3, <1>17, <2>1, <2>4, <3>1 DEF Unseen
    <3>2. CASE ~(e \in Unseen /\ from = "database")
      <4>1. Holds(conn'.queue, EventItem(e, from)) => Holds(q, EventItem(e, from))
        BY <2>3, <3>2
      <4> QED
        BY <2>1, <4>1 DEF IInv, OnceInv
    <3> QED
      BY <3>1, <3>2
  <2>6. \A e \in Events : conn'.sent["database"][e] = 1 \/ Holds(conn'.queue, EventItem(e, "database"))
                          => e \in conn'.seen
    BY <1>12, <2>1, <2>3 DEF IInv, OnceInv
  <2>7. IsOnce(conn'.inbox)
    BY <2>1 DEF IInv, OnceInv
  <2> QED
    BY <2>2, <2>5, <2>6, <2>7 DEF OnceInv
<1>19. conn'.sent = conn.sent /\ \A e \in conn'.seen : WasSent(conn.sent, e) \/ Waits(qe, e)
  BY <1>2, <1>7, <1>10, <1>12 DEF IInv, SeenInv, Same, Fields
<1>20. SeenInv'
  BY <1>13, <1>19 DEF SeenInv
<1>21. EndInv'
  <2>1. /\ conn'.step # "done" /\ conn'.kind = "job" /\ due' = due
    BY <1>1, <1>2, <1>12 DEF IsOpen, Same, Fields
  <2>2. due \subseteq conn'.seen
    BY <1>3, <1>12 DEF Unseen
  <2>3. conn'.poller \in {"none", "polling"} => NoEnd(conn'.queue)
    BY <1>9, <1>12, <1>13 DEF AfterPoll
  <2>4. Covered(conn'.queue, Unsent(due', conn'.sent))
    <3>1. \A e \in Unsent(due', conn'.sent) : Waits(qe, e)
      BY <1>19, <2>1, <2>2 DEF Unsent
    <3>2. Covered(qe \o rest, Unsent(due', conn'.sent))
      BY <1>9, <1>10, <3>1, ConcatCovered
    <3> QED
      BY <1>12, <3>2
  <2> QED
    BY <2>1, <2>2, <2>3, <2>4 DEF EndInv
<1> QED
  BY <1>14, <1>15, <1>16, <1>18, <1>20, <1>21 DEF IInv

-------------------------------------------------------------------------------
(* The consumer of a job's stream. *)

LEMMA TakenShape ==
  ASSUME IInv, conn.queue # <<>>
  PROVE  /\ conn.queue \in Seq(Items) /\ Tail(conn.queue) \in Seq(Items)
         /\ Head(conn.queue) \in Items
         /\ NoEnd(conn.queue) => NoEnd(Tail(conn.queue))
<1>1. conn.queue \in Seq(Items)
  BY DEF IInv, ConnInv
<1> QED
  BY <1>1, TailShape, TailNoEnd

LEMMA TakeJobKeepsIInv ==
  ASSUME IInv, TakeJob
  PROVE  IInv'
<1> DEFINE x == Head(conn.queue)
<1>1. /\ Same({"queue", "shown", "step", "ended"}) /\ UNCHANGED <<row, txn, published, due>>
      /\ conn'.queue = Tail(conn.queue) /\ conn'.shown = x.status
      /\ conn'.step = (IF Ends(x.status) THEN "done" ELSE "take")
      /\ conn.kind = "job" /\ conn.step = "take" /\ conn.reading = "nobody"
      /\ conn.queue # <<>> /\ x.type = "job"
  <2>1. /\ conn.kind = "job" /\ conn.step = "take" /\ conn.reading = "nobody"
        /\ conn.queue # <<>> /\ x.type = "job" /\ UNCHANGED <<row, txn, published, due>>
        /\ DOMAIN conn = Fields
    BY DEF TakeJob, Takes, IsFree, IInv, ConnInv
  <2>2. conn' = [[conn EXCEPT !.queue = Tail(@)]
                 EXCEPT !.shown = x.status,
                        !.step = IF Ends(x.status) THEN "done" ELSE @,
                        !.ended = IF Ends(x.status) THEN "poller" ELSE @]
    BY DEF TakeJob, Taken
  <2> HIDE DEF x
  <2>3. Same({"queue", "shown", "step", "ended"})
    BY <2>1, <2>2 DEF Same, Fields
  <2>4. conn'.queue = Tail(conn.queue) /\ conn'.shown = x.status
    BY <2>1, <2>2 DEF Fields
  <2>5. conn'.step = (IF Ends(x.status) THEN "done" ELSE "take")
    BY <2>1, <2>2 DEF Fields
  <2> QED
    BY <2>1, <2>3, <2>4, <2>5
<1> HIDE DEF x
<1>2. RowInv'
  BY <1>1, RowKept DEF IInv
<1>3. ConnInv'
  BY <1>1, TakenShape DEF IInv, ConnInv, Same, Fields
<1>4. PhaseInv'
  BY <1>1 DEF IInv, PhaseInv, IsOpen, Same, Fields, Ends
<1>5. OnceInv'
  <2>1. conn'.inbox = conn.inbox /\ conn'.sent = conn.sent /\ conn'.seen = conn.seen /\ UNCHANGED published
    BY <1>1 DEF Same, Fields
  <2> QED
    BY <1>1, <2>1, OnceTaken DEF IInv
<1>6. \A e : Waits(conn.queue, e) => Waits(conn'.queue, e)
  BY <1>1, TakenShape, TailWaits DEF x
<1>7. SeenInv'
  BY <1>1, <1>6 DEF IInv, SeenInv, Same, Fields
<1>8. EndInv'
  <2>1. Covered(conn.queue, Unsent(due, conn.sent))
    BY <1>1 DEF IInv, EndInv, ReadsEnd, SendsEnd
  <2>2. /\ IsEnd(x) => Unsent(due, conn.sent) = {}
        /\ Covered(conn'.queue, Unsent(due, conn.sent))
    BY <1>1, <2>1, TakenShape, TailCovered DEF x
  <2>3. due' = due /\ conn'.sent = conn.sent /\ conn'.kind = conn.kind /\ conn'.poller = conn.poller
    BY <1>1 DEF Same, Fields
  <2>4. conn'.step = "done" => IsEnd(x)
    BY <1>1 DEF IsEnd, Ends
  <2>5. conn'.step = "done" => \A e \in due' : WasSent(conn'.sent, e)
    BY <2>2, <2>3, <2>4 DEF Unsent
  <2>6. NoEnd(conn.queue) => NoEnd(conn'.queue)
    BY <1>1, TakenShape
  <2>7. conn'.step # "send"
    BY <1>1
  <2> QED
    BY <2>2, <2>3, <2>5, <2>6, <2>7 DEF IInv, EndInv, SendsEnd
<1> QED
  BY <1>2, <1>3, <1>4, <1>5, <1>7, <1>8 DEF IInv

LEMMA TakeEventKeepsIInv ==
  ASSUME IInv, TakeEvent
  PROVE  IInv'
<1> DEFINE x == Head(conn.queue)
<1>1. /\ Same({"queue", "seen", "sent"}) /\ UNCHANGED <<row, txn, published, due>>
      /\ conn'.queue = Tail(conn.queue) /\ conn'.seen = conn.seen \cup {x.event}
      /\ conn'.sent = Count(conn.sent, x.from, {x.event})
      /\ conn.kind = "job" /\ conn.step = "take" /\ conn.reading = "nobody"
      /\ conn.queue # <<>> /\ x.type = "event"
  <2>1. /\ conn.kind = "job" /\ conn.step = "take" /\ conn.reading = "nobody"
        /\ conn.queue # <<>> /\ x.type = "event" /\ UNCHANGED <<row, txn, published, due>>
        /\ DOMAIN conn = Fields
    BY DEF TakeEvent, Takes, IsFree, IInv, ConnInv
  <2>2. conn' = [[conn EXCEPT !.queue = Tail(@)]
                 EXCEPT !.seen = @ \cup {x.event}, !.sent = Count(@, x.from, {x.event})]
    BY DEF TakeEvent, Taken
  <2> HIDE DEF x
  <2>3. Same({"queue", "seen", "sent"})
    BY <2>1, <2>2 DEF Same, Fields
  <2>4. conn'.queue = Tail(conn.queue) /\ conn'.seen = conn.seen \cup {x.event}
    BY <2>1, <2>2 DEF Fields
  <2>5. conn'.sent = Count(conn.sent, x.from, {x.event})
    BY <2>1, <2>2 DEF Fields
  <2> QED
    BY <2>1, <2>3, <2>4, <2>5
<1>2. /\ conn.queue \in Seq(Items) /\ x \in Items /\ conn'.queue \in Seq(Items)
      /\ NoEnd(conn.queue) => NoEnd(conn'.queue)
  BY <1>1, TakenShape
<1>3. PICK e \in Events, from \in Sources : x = EventItem(e, from)
  BY <1>1, <1>2 DEF Items, EventItems, RefreshItem, JobItem, JobsItem, DoneItem
<1>4. x.event = e /\ x.from = from
  BY <1>3 DEF EventItem
<1> HIDE DEF x
<1>5. /\ \A y : Holds(conn.queue, y) <=> y = x \/ Holds(conn'.queue, y)
      /\ \A d : Waits(conn.queue, d) <=> d = e \/ Waits(conn'.queue, d)
      /\ IsOnce(conn'.queue) /\ ~Holds(conn'.queue, x)
  <2>1. \A y : Holds(conn.queue, y) <=> y = x \/ Holds(conn'.queue, y)
    BY <1>1, <1>2, TailHolds DEF x
  <2>2. \A d : Waits(conn.queue, d) <=> (x.type = "event" /\ x.event = d) \/ Waits(conn'.queue, d)
    BY <1>1, <1>2, TailWaits DEF x
  <2>3. IsOnce(conn.queue)
    BY DEF IInv, OnceInv
  <2>4. IsOnce(conn'.queue) /\ (x.type = "event" => ~Holds(conn'.queue, x))
    BY <1>1, <1>2, <2>3, TailOnce DEF x
  <2> QED
    BY <1>1, <1>4, <2>1, <2>2, <2>4
<1>6. conn.sent[from][e] = 0 /\ e <= published /\ ~Holds(conn.inbox, x)
  BY <1>3, <1>5 DEF IInv, OnceInv
<1>7. /\ conn'.sent \in [Sources -> [Events -> {0, 1}]]
      /\ \A d \in Events : conn'.sent[from][d] = IF d \in {e} THEN 1 ELSE conn.sent[from][d]
      /\ \A other \in Sources \ {from} : conn'.sent[other] = conn.sent[other]
  <2>1. conn.sent \in [Sources -> [Events -> {0, 1}]]
    BY DEF IInv, ConnInv
  <2>2. \A d \in Events : d \in {e} => conn.sent[from][d] = 0
    BY <1>6
  <2> QED
    BY <1>1, <1>3, <1>4, <2>1, <2>2, CountIs
<1>8. \A d \in Events : WasSent(conn'.sent, d) <=> d = e \/ WasSent(conn.sent, d)
  <2>1. \A d \in Events : conn'.sent[from][d] = 1 <=> d = e \/ conn.sent[from][d] = 1
    BY <1>7
  <2>2. \A d \in Events : \A other \in Sources \ {from} : conn'.sent[other][d] = conn.sent[other][d]
    BY <1>7
  <2> QED
    BY <1>3, <2>1, <2>2 DEF WasSent
<1>9. conn'.seen = conn.seen \cup {e}
  BY <1>1, <1>4
<1>10. RowInv'
  BY <1>1, RowKept DEF IInv
<1>11. ConnInv'
  <2>1. e \in 1..published'
    BY <1>1, <1>6, EventsAssumption DEF Events
  <2> QED
    BY <1>1, <1>2, <1>7, <1>9, <2>1 DEF IInv, ConnInv, Same, Fields
<1>12. PhaseInv'
  BY <1>1 DEF IInv, PhaseInv, IsOpen, Same, Fields
<1>13. OnceInv'
  <2>1. conn'.inbox = conn.inbox /\ published' = published
    BY <1>1 DEF Same, Fields
  <2>2. IsOnce(conn'.inbox)
    BY <2>1 DEF IInv, OnceInv
  <2>3. ASSUME NEW d \in Events, NEW f \in Sources
        PROVE  /\ ~(Holds(conn'.queue, EventItem(d, f)) /\ Holds(conn'.inbox, EventItem(d, f)))
               /\ Holds(conn'.queue, EventItem(d, f)) \/ Holds(conn'.inbox, EventItem(d, f))
                  => conn'.sent[f][d] = 0 /\ d <= published'
               /\ conn'.sent[f][d] = 1 => d <= published'
    <3>1. CASE d = e /\ f = from
      BY <1>3, <1>5, <1>6, <2>1, <3>1
    <3>2. CASE ~(d = e /\ f = from)
      <4>1. conn'.sent[f][d] = conn.sent[f][d]
        BY <1>7, <3>2
      <4>2. Holds(conn'.queue, EventItem(d, f)) => Holds(conn.queue, EventItem(d, f))
        BY <1>5
      <4> QED
        BY <2>1, <4>1, <4>2 DEF IInv, OnceInv
    <3> QED
      BY <3>1, <3>2
  <2>4. ASSUME NEW d \in Events
        PROVE  conn'.sent["database"][d] = 1 \/ Holds(conn'.queue, EventItem(d, "database"))
               => d \in conn'.seen
    <3>1. CASE d = e
      BY <1>9, <3>1
    <3>2. CASE d # e
      <4>1. conn'.sent["database"][d] = conn.sent["database"][d]
        BY <1>7, <3>2 DEF Sources
      <4>2. Holds(conn'.queue, EventItem(d, "database")) => Holds(conn.queue, EventItem(d, "database"))
        BY <1>5
      <4> QED
        BY <1>9, <4>1, <4>2 DEF IInv, OnceInv
    <3> QED
      BY <3>1, <3>2
  <2> QED
    BY <1>5, <2>2, <2>3, <2>4 DEF OnceInv
<1>14. SeenInv'
  <2>1. conn.seen \subseteq Events
    BY EventsAssumption DEF IInv, ConnInv, RowInv, Events
  <2>2. \A d \in conn.seen : WasSent(conn.sent, d) \/ Waits(conn.queue, d)
    BY <1>1 DEF IInv, SeenInv
  <2> QED
    BY <1>5, <1>8, <1>9, <2>1, <2>2 DEF SeenInv
<1>15. EndInv'
  <2>1. Covered(conn.queue, Unsent(due, conn.sent))
    BY <1>1 DEF IInv, EndInv, ReadsEnd, SendsEnd
  <2>2. due' = due /\ conn'.kind = conn.kind /\ conn'.poller = conn.poller /\ conn'.step = "take"
    BY <1>1 DEF Same, Fields
  <2>3. due \subseteq Events
    BY EventsAssumption DEF IInv, RowInv, Events
  <2>4. \A d \in Unsent(due', conn'.sent) : d \in Unsent(due, conn.sent) /\ d # e
    BY <1>8, <2>2, <2>3 DEF Unsent
  <2>5. Covered(conn'.queue, Unsent(due', conn'.sent))
    <3>1. \A E : (\A d \in E : d \in Unsent(due, conn.sent) /\ ~(x.type = "event" /\ x.event = d))
                 => Covered(conn'.queue, E)
      BY <1>1, <1>2, <2>1, TailCovered DEF x
    <3> QED
      BY <1>4, <2>4, <3>1
  <2> QED
    BY <1>2, <2>2, <2>5 DEF IInv, EndInv, SendsEnd
<1> QED
  BY <1>10, <1>11, <1>12, <1>13, <1>14, <1>15 DEF IInv

\* The row is read again: what the refresh sends instead of the queue is all that was
\* committed with the status it read.
LEMMA TakeRefreshKeepsIInv ==
  ASSUME IInv, TakeRefresh
  PROVE  IInv'
<1> DEFINE x == Head(conn.queue)
<1>1. /\ Same({"queue", "reading", "read"}) /\ UNCHANGED <<row, txn, published>>
      /\ conn'.queue = Tail(conn.queue)
      /\ conn'.reading = "refresh" /\ conn'.read = row.status
      /\ conn.kind = "job" /\ conn.step = "take" /\ conn.reading = "nobody"
      /\ conn.queue # <<>> /\ x.type = "job_refresh"
  <2>1. /\ conn.kind = "job" /\ conn.step = "take" /\ conn.reading = "nobody"
        /\ conn.queue # <<>> /\ x.type = "job_refresh" /\ UNCHANGED <<row, txn, published>>
        /\ DOMAIN conn = Fields
    BY DEF TakeRefresh, Takes, IsFree, IInv, ConnInv
  <2>2. conn' = [[conn EXCEPT !.reading = "refresh", !.read = row.status] EXCEPT !.queue = Tail(@)]
    BY DEF TakeRefresh, ReadStatus
  <2> HIDE DEF x
  <2>3. Same({"queue", "reading", "read"}) /\ conn'.queue = Tail(conn.queue)
    BY <2>1, <2>2 DEF Same, Fields
  <2>4. conn'.reading = "refresh" /\ conn'.read = row.status
    BY <2>1, <2>2 DEF Fields
  <2> QED
    BY <2>1, <2>3, <2>4
<1>2. /\ conn.queue \in Seq(Items) /\ conn'.queue \in Seq(Items)
      /\ NoEnd(conn.queue) => NoEnd(conn'.queue)
  BY <1>1, TakenShape
<1> HIDE DEF x
<1>3. RowInv'
  BY <1>1, DueNoted, RowKept DEF TakeRefresh, IInv
<1>4. ConnInv'
  BY <1>1, <1>2 DEF IInv, ConnInv, RowInv, Same, Fields
<1>5. PhaseInv'
  BY <1>1 DEF IInv, PhaseInv, IsOpen, Same, Fields
<1>6. OnceInv'
  <2>1. conn'.inbox = conn.inbox /\ conn'.sent = conn.sent /\ conn'.seen = conn.seen /\ UNCHANGED published
    BY <1>1 DEF Same, Fields
  <2> QED
    BY <1>1, <2>1, OnceTaken DEF IInv
<1>7. \A e : Waits(conn.queue, e) => Waits(conn'.queue, e)
  BY <1>1, <1>2, TailWaits DEF x
<1>8. SeenInv'
  BY <1>1, <1>7 DEF IInv, SeenInv, Same, Fields
<1>9. EndInv'
  <2>1. conn'.step = "take" /\ conn'.sent = conn.sent /\ conn'.kind = conn.kind /\ conn'.poller = conn.poller
    BY <1>1 DEF Same, Fields
  <2>2. ReadsEnd("refresh")' \/ Covered(conn'.queue, Unsent(due', conn'.sent))
    <3>1. CASE row.status \in Terminal
      BY <1>1, <3>1 DEF ReadsEnd, Ends
    <3>2. CASE row.status \notin Terminal
      <4>1. due' = due
        BY <3>2, DueNoted DEF TakeRefresh
      <4>2. Covered(conn.queue, Unsent(due, conn.sent))
        BY <1>1 DEF IInv, EndInv, ReadsEnd, SendsEnd
      <4>3. \A E : (\A d \in E : d \in Unsent(due, conn.sent) /\ ~(x.type = "event" /\ x.event = d))
                   => Covered(conn'.queue, E)
        BY <1>1, <1>2, <4>2, TailCovered DEF x
      <4>4. Covered(conn'.queue, Unsent(due, conn.sent))
        BY <1>1, <4>3
      <4> QED
        BY <2>1, <4>1, <4>4
    <3> QED
      BY <3>1, <3>2
  <2> QED
    BY <1>2, <2>1, <2>2 DEF IInv, EndInv, SendsEnd
<1> QED
  BY <1>3, <1>4, <1>5, <1>6, <1>8, <1>9 DEF IInv

LEMMA RefreshEventsKeepsIInv ==
  ASSUME IInv, RefreshEvents
  PROVE  IInv'
<1>1. /\ Same({"reading", "step", "status", "left"}) /\ UNCHANGED <<row, txn, published, due>>
      /\ conn'.reading = "nobody" /\ conn'.step = "send" /\ conn'.status = conn.read
      /\ conn'.left = InOrder(row.events)
      /\ conn.kind = "job" /\ conn.step = "take" /\ conn.reading = "refresh"
  <2>1. /\ conn.reading = "refresh" /\ conn.step = "take" /\ conn.kind = "job"
        /\ DOMAIN conn = Fields /\ UNCHANGED <<row, txn, published, due>>
    BY DEF RefreshEvents, IInv, ConnInv, PhaseInv
  <2>2. conn' = [conn EXCEPT !.reading = "nobody", !.step = "send", !.status = conn.read,
                             !.left = InOrder(row.events)]
    BY DEF RefreshEvents
  <2>3. Same({"reading", "step", "status", "left"})
    BY <2>1, <2>2 DEF Same, Fields
  <2>4. conn'.reading = "nobody" /\ conn'.step = "send" /\ conn'.status = conn.read
    BY <2>1, <2>2 DEF Fields
  <2>5. conn'.left = InOrder(row.events)
    BY <2>1, <2>2 DEF Fields
  <2> QED
    BY <2>1, <2>3, <2>4, <2>5
<1>2. row.events \subseteq 1..published /\ due \subseteq row.events /\ row.events \in SUBSET Events
  BY EventsAssumption DEF IInv, RowInv, Events
<1>3. conn'.left \in Seq(row.events) /\ \A e \in row.events : Holds(conn'.left, e)
  BY <1>1, <1>2, EventsInOrder
<1>4. conn'.left \in Seq(1..published)
  BY <1>2, <1>3, SeqMonotonic
<1>5. RowInv'
  BY <1>1, RowKept DEF IInv
<1>6. ConnInv'
  BY <1>1, <1>4 DEF IInv, ConnInv, Same, Fields
<1>7. PhaseInv'
  BY <1>1 DEF IInv, PhaseInv, IsOpen, Same, Fields
<1>8. OnceInv'
  BY <1>1, OnceKept DEF IInv, Same, Fields
<1>9. SeenInv'
  BY <1>1, SeenKept DEF IInv, Same, Fields
<1>10. EndInv'
  <2>1. /\ conn'.sent = conn.sent /\ conn'.kind = conn.kind /\ conn'.poller = conn.poller
        /\ conn'.queue = conn.queue /\ due' = due
    BY <1>1 DEF Same, Fields
  <2>2. SendsEnd' \/ Covered(conn'.queue, Unsent(due', conn'.sent))
    BY <1>1, <2>1 DEF IInv, EndInv, ReadsEnd, SendsEnd
  <2>3. \A e \in due' : Holds(conn'.left, e)
    BY <1>2, <1>3, <2>1
  <2> QED
    BY <1>1, <2>1, <2>2, <2>3 DEF IInv, EndInv
<1> QED
  BY <1>5, <1>6, <1>7, <1>8, <1>9, <1>10 DEF IInv

\* What the poller saw in the meantime is left to the queue.
LEMMA SendRefreshedKeepsIInv ==
  ASSUME IInv, SendRefreshed
  PROVE  IInv'
<1> DEFINE e   == Head(conn.left)
           new == {e} \ conn.seen
<1>1. /\ Same({"left", "seen", "sent"}) /\ UNCHANGED <<row, txn, published, due>>
      /\ conn'.left = Tail(conn.left) /\ conn'.seen = conn.seen \cup new
      /\ conn'.sent = Count(conn.sent, "database", new)
      /\ conn.step = "send" /\ conn.left # <<>> /\ conn.reading = "nobody"
  <2>1. /\ conn.step = "send" /\ conn.left # <<>> /\ conn.reading = "nobody"
        /\ DOMAIN conn = Fields /\ UNCHANGED <<row, txn, published, due>>
    BY DEF SendRefreshed, IsFree, IInv, ConnInv
  <2>2. conn' = [conn EXCEPT !.left = Tail(@), !.seen = @ \cup new,
                             !.sent = Count(@, "database", new)]
    BY DEF SendRefreshed
  <2> HIDE DEF new
  <2>3. Same({"left", "seen", "sent"})
    BY <2>1, <2>2 DEF Same, Fields
  <2>4. conn'.left = Tail(conn.left) /\ conn'.seen = conn.seen \cup new
    BY <2>1, <2>2 DEF Fields
  <2>5. conn'.sent = Count(conn.sent, "database", new)
    BY <2>1, <2>2 DEF Fields
  <2> QED
    BY <2>1, <2>3, <2>4, <2>5
<1>2. conn.left \in Seq(1..published)
  BY DEF IInv, ConnInv
<1>3. /\ e \in 1..published /\ conn'.left \in Seq(1..published)
      /\ \A d : Holds(conn.left, d) <=> d = e \/ Holds(conn'.left, d)
  <2>1. e \in 1..published /\ Tail(conn.left) \in Seq(1..published)
    BY <1>1, <1>2, TailShape
  <2>2. \A d : Holds(conn.left, d) <=> d = e \/ Holds(Tail(conn.left), d)
    BY <1>1, <1>2, TailHolds
  <2> QED
    BY <1>1, <2>1, <2>2
<1>4. e \in Events /\ e <= published
  BY <1>3, EventsAssumption DEF IInv, RowInv, Events
<1> HIDE DEF e
<1>5. conn.kind = "job"
  BY <1>1 DEF IInv, PhaseInv
<1>6. \A d \in Events : d \in new =>
          /\ conn.sent["database"][d] = 0 /\ d <= published
          /\ ~Holds(conn.queue, EventItem(d, "database"))
          /\ ~Holds(conn.inbox, EventItem(d, "database"))
  <2> SUFFICES ASSUME NEW d \in Events, d \in new
               PROVE  /\ conn.sent["database"][d] = 0 /\ d <= published
                      /\ ~Holds(conn.queue, EventItem(d, "database"))
                      /\ ~Holds(conn.inbox, EventItem(d, "database"))
    OBVIOUS
  <2>1. conn.sent["database"][d] # 1 /\ ~Holds(conn.queue, EventItem(d, "database"))
    BY DEF IInv, OnceInv
  <2>2. conn.sent["database"][d] \in {0, 1}
    BY DEF IInv, ConnInv, Sources
  <2>3. EventItem(d, "database") \notin RedisItems
    BY DEF RedisItems, EventItem, RefreshItem
  <2>4. \A i \in DOMAIN conn.inbox : conn.inbox[i] \in RedisItems
    BY DEF IInv, ConnInv
  <2>5. ~Holds(conn.inbox, EventItem(d, "database"))
    BY <2>3, <2>4 DEF Holds
  <2> QED
    BY <1>4, <2>1, <2>2, <2>5
<1>7. /\ conn'.sent \in [Sources -> [Events -> {0, 1}]]
      /\ \A d \in Events : conn'.sent["database"][d] = IF d \in new THEN 1 ELSE conn.sent["database"][d]
      /\ \A other \in Sources \ {"database"} : conn'.sent[other] = conn.sent[other]
  <2>1. conn.sent \in [Sources -> [Events -> {0, 1}]] /\ "database" \in Sources
    BY DEF IInv, ConnInv, Sources
  <2>2. \A d \in Events : d \in new => conn.sent["database"][d] = 0
    BY <1>6
  <2> HIDE DEF new
  <2> QED
    BY <1>1, <2>1, <2>2, CountIs
<1>8. \A d \in Events : WasSent(conn'.sent, d) <=> d \in new \/ WasSent(conn.sent, d)
  <2> HIDE DEF new
  <2>1. \A d \in Events : conn'.sent["database"][d] = 1 <=> d \in new \/ conn.sent["database"][d] = 1
    BY <1>7
  <2>2. \A d \in Events : \A other \in Sources \ {"database"} : conn'.sent[other][d] = conn.sent[other][d]
    BY <1>7
  <2> QED
    BY <2>1, <2>2 DEF WasSent, Sources
<1>9. RowInv'
  BY <1>1, RowKept DEF IInv
<1>10. ConnInv'
  <2>1. conn'.seen \subseteq 1..published'
    BY <1>1, <1>3 DEF IInv, ConnInv
  <2> QED
    BY <1>1, <1>3, <1>7, <2>1 DEF IInv, ConnInv, Same, Fields
<1>11. PhaseInv'
  BY <1>1 DEF IInv, PhaseInv, IsOpen, Same, Fields
<1>12. OnceInv'
  <2>1. conn'.queue = conn.queue /\ conn'.inbox = conn.inbox /\ published' = published
    BY <1>1 DEF Same, Fields
  <2>2. ASSUME NEW d \in Events, NEW f \in Sources
        PROVE  /\ ~(Holds(conn'.queue, EventItem(d, f)) /\ Holds(conn'.inbox, EventItem(d, f)))
               /\ Holds(conn'.queue, EventItem(d, f)) \/ Holds(conn'.inbox, EventItem(d, f))
                  => conn'.sent[f][d] = 0 /\ d <= published'
               /\ conn'.sent[f][d] = 1 => d <= published'
    <3>1. CASE d \in new /\ f = "database"
      BY <1>6, <2>1, <3>1
    <3>2. CASE ~(d \in new /\ f = "database")
      <4>1. conn'.sent[f][d] = conn.sent[f][d]
        BY <1>7, <3>2
      <4> QED
        BY <2>1, <4>1 DEF IInv, OnceInv
    <3> QED
      BY <3>1, <3>2
  <2>3. ASSUME NEW d \in Events
        PROVE  conn'.sent["database"][d] = 1 \/ Holds(conn'.queue, EventItem(d, "database"))
               => d \in conn'.seen
    BY <1>1, <1>7, <2>1 DEF IInv, OnceInv
  <2>4. IsOnce(conn'.queue) /\ IsOnce(conn'.inbox)
    BY <2>1 DEF IInv, OnceInv
  <2> QED
    BY <2>2, <2>3, <2>4 DEF OnceInv
<1>13. SeenInv'
  <2>1. conn.seen \subseteq Events /\ new \subseteq Events
    BY <1>4, EventsAssumption DEF IInv, ConnInv, RowInv, Events
  <2>2. \A d \in conn.seen : WasSent(conn.sent, d) \/ Waits(conn.queue, d)
    BY <1>5 DEF IInv, SeenInv
  <2>3. conn'.queue = conn.queue
    BY <1>1 DEF Same, Fields
  <2> HIDE DEF new
  <2> QED
    BY <1>1, <1>8, <2>1, <2>2, <2>3 DEF SeenInv
<1>14. EndInv'
  <2>1. /\ due' = due /\ conn'.queue = conn.queue /\ conn'.kind = conn.kind /\ conn'.poller = conn.poller
        /\ conn'.step = "send" /\ conn'.status = conn.status /\ conn'.reading = "nobody"
        /\ conn'.read = conn.read
    BY <1>1 DEF Same, Fields
  <2>2. SendsEnd' <=> SendsEnd
    BY <1>1, <2>1 DEF SendsEnd
  <2>3. SendsEnd => \A d \in due' : d \in conn'.seen \/ Holds(conn'.left, d)
    <3>1. ~ReadsEnd("poll")
      BY <1>1 DEF ReadsEnd
    <3>2. SendsEnd => \A d \in due : d \in conn.seen \/ Holds(conn.left, d)
      BY <3>1 DEF IInv, EndInv
    <3> QED
      BY <1>1, <1>3, <2>1, <3>2
  <2>4. ~SendsEnd => Covered(conn'.queue, Unsent(due', conn'.sent))
    <3>1. ~ReadsEnd("refresh") /\ conn.step # "done"
      BY <1>1 DEF ReadsEnd
    <3>2. ~SendsEnd => Covered(conn.queue, Unsent(due, conn.sent))
      BY <3>1 DEF IInv, EndInv
    <3>3. due \subseteq Events
      BY EventsAssumption DEF IInv, RowInv, Events
    <3>4. Unsent(due', conn'.sent) \subseteq Unsent(due, conn.sent)
      BY <1>8, <2>1, <3>3 DEF Unsent
    <3> QED
      BY <2>1, <3>2, <3>4 DEF Covered
  <2> QED
    BY <2>1, <2>2, <2>3, <2>4 DEF IInv, EndInv
<1> QED
  BY <1>9, <1>10, <1>11, <1>12, <1>13, <1>14 DEF IInv

LEMMA EndRefreshKeepsIInv ==
  ASSUME IInv, EndRefresh
  PROVE  IInv'
<1>1. /\ Same({"shown", "status", "step", "ended"}) /\ UNCHANGED <<row, txn, published, due>>
      /\ conn'.shown = conn.status /\ conn'.step = (IF Ends(conn.status) THEN "done" ELSE "take")
      /\ Ends(conn.status) => conn'.ended = "refresh"
      /\ conn.step = "send" /\ conn.left = <<>> /\ conn.reading = "nobody"
  <2>1. /\ conn.step = "send" /\ conn.left = <<>> /\ conn.reading = "nobody"
        /\ DOMAIN conn = Fields /\ UNCHANGED <<row, txn, published, due>>
    BY DEF EndRefresh, IsFree, IInv, ConnInv
  <2>2. conn' = [conn EXCEPT !.shown = conn.status, !.status = "none",
                             !.step = IF Ends(conn.status) THEN "done" ELSE "take",
                             !.ended = IF Ends(conn.status) THEN "refresh" ELSE @]
    BY DEF EndRefresh
  <2>3. Same({"shown", "status", "step", "ended"})
    BY <2>1, <2>2 DEF Same, Fields
  <2>4. conn'.shown = conn.status /\ conn'.step = (IF Ends(conn.status) THEN "done" ELSE "take")
    BY <2>1, <2>2 DEF Fields
  <2>5. Ends(conn.status) => conn'.ended = "refresh"
    BY <2>1, <2>2 DEF Fields
  <2> QED
    BY <2>1, <2>3, <2>4, <2>5
<1>2. conn.kind = "job"
  BY <1>1 DEF IInv, PhaseInv
<1>3. RowInv'
  BY <1>1, RowKept DEF IInv
<1>4. ConnInv'
  BY <1>1 DEF IInv, ConnInv, Same, Fields
<1>5. PhaseInv'
  BY <1>1, <1>2 DEF IInv, PhaseInv, IsOpen, Ends, Same, Fields
<1>6. OnceInv'
  BY <1>1, OnceKept DEF IInv, Same, Fields
<1>7. SeenInv'
  BY <1>1, SeenKept DEF IInv, Same, Fields
<1>8. EndInv'
  <2>1. /\ conn'.sent = conn.sent /\ conn'.kind = conn.kind /\ conn'.poller = conn.poller
        /\ conn'.queue = conn.queue /\ due' = due
    BY <1>1 DEF Same, Fields
  <2>2. ~ReadsEnd("poll") /\ ~ReadsEnd("refresh")
    BY <1>1 DEF ReadsEnd
  <2>3. CASE Ends(conn.status)
    <3>1. SendsEnd
      BY <1>1, <2>3 DEF SendsEnd
    <3>2. \A e \in due : e \in conn.seen
      <4>1. \A e : ~Holds(conn.left, e)
        BY <1>1, NoItems
      <4> QED
        BY <2>2, <3>1, <4>1 DEF IInv, EndInv
    <3>3. \A e \in due : WasSent(conn.sent, e) \/ Waits(conn.queue, e)
      BY <1>2, <3>2 DEF IInv, SeenInv
    <3>4. conn'.step = "done" /\ conn'.ended = "refresh"
      BY <1>1, <2>3
    <3> QED
      BY <2>1, <3>3, <3>4 DEF IInv, EndInv, SendsEnd
  <2>4. CASE ~Ends(conn.status)
    <3>1. Covered(conn.queue, Unsent(due, conn.sent))
      BY <1>1, <2>2, <2>4 DEF SendsEnd, IInv, EndInv
    <3>2. conn'.step = "take"
      BY <1>1, <2>4
    <3> QED
      BY <2>1, <3>1, <3>2 DEF IInv, EndInv, SendsEnd
  <2> QED
    BY <2>3, <2>4
<1> QED
  BY <1>3, <1>4, <1>5, <1>6, <1>7, <1>8 DEF IInv

-------------------------------------------------------------------------------
(* The consumer of the active jobs' stream. *)

LEMMA TakeActiveKeepsIInv ==
  ASSUME IInv, TakeJobs \/ TakeNews \/ TakeEndNews
  PROVE  IInv'
<1>1. /\ Same({"queue", "shown", "reading"}) /\ UNCHANGED <<row, txn, published, due>>
      /\ conn'.queue = Tail(conn.queue) /\ conn'.reading \in {"nobody", "list"}
      /\ conn.kind = "active" /\ conn.step = "take" /\ conn.reading = "nobody"
      /\ conn.queue # <<>>
  <2>1. /\ conn.kind = "active" /\ conn.step = "take" /\ conn.reading = "nobody"
        /\ conn.queue # <<>> /\ UNCHANGED <<row, txn, published, due>> /\ DOMAIN conn = Fields
    BY DEF TakeJobs, TakeNews, TakeEndNews, Takes, IsFree, IInv, ConnInv
  <2>2. PICK shown, reading :
           /\ conn' = [[conn EXCEPT !.queue = Tail(@)] EXCEPT !.shown = shown, !.reading = reading]
           /\ reading \in {"nobody", "list"}
    <3>1. CASE TakeJobs
      <4>1. conn' = [[conn EXCEPT !.queue = Tail(@)] EXCEPT !.shown = Head(conn.queue).status]
        BY <3>1 DEF TakeJobs, Taken
      <4>2. conn' = [[conn EXCEPT !.queue = Tail(@)]
                     EXCEPT !.shown = Head(conn.queue).status, !.reading = "nobody"]
        BY <2>1, <4>1 DEF Fields
      <4> QED
        BY <4>2
    <3>2. CASE TakeNews
      <4>1. conn' = [[conn EXCEPT !.queue = Tail(@)]
                     EXCEPT !.shown = IF row.status = "none" THEN @ ELSE row.status,
                            !.reading = IF row.status \in Active THEN @ ELSE "list"]
        BY <3>2 DEF TakeNews, Taken
      <4> DEFINE s == IF row.status = "none" THEN conn.shown ELSE row.status
                 r == IF row.status \in Active THEN conn.reading ELSE "list"
      <4>2. conn' = [[conn EXCEPT !.queue = Tail(@)] EXCEPT !.shown = s, !.reading = r]
        BY <2>1, <4>1 DEF Fields
      <4>3. r \in {"nobody", "list"}
        BY <2>1
      <4> QED
        BY <4>2, <4>3
    <3>3. CASE TakeEndNews
      <4>1. conn' = [[conn EXCEPT !.queue = Tail(@)] EXCEPT !.reading = "list"]
        BY <3>3 DEF TakeEndNews, Taken
      <4>2. conn' = [[conn EXCEPT !.queue = Tail(@)] EXCEPT !.shown = conn.shown, !.reading = "list"]
        BY <2>1, <4>1 DEF Fields
      <4> QED
        BY <4>2
    <3> QED
      BY <3>1, <3>2, <3>3
  <2>3. Same({"queue", "shown", "reading"})
    BY <2>1, <2>2 DEF Same, Fields
  <2>4. conn'.queue = Tail(conn.queue) /\ conn'.reading = reading
    BY <2>1, <2>2 DEF Fields
  <2> QED
    BY <2>1, <2>2, <2>3, <2>4
<1>2. /\ conn.queue \in Seq(Items) /\ conn'.queue \in Seq(Items)
      /\ NoEnd(conn.queue) => NoEnd(conn'.queue)
  BY <1>1, TakenShape
<1>3. RowInv'
  BY <1>1, RowKept DEF IInv
<1>4. ConnInv'
  BY <1>1, <1>2 DEF IInv, ConnInv, Same, Fields
<1>5. PhaseInv'
  BY <1>1 DEF IInv, PhaseInv, IsOpen, Same, Fields
<1>6. OnceInv'
  <2>1. conn'.inbox = conn.inbox /\ conn'.sent = conn.sent /\ conn'.seen = conn.seen /\ UNCHANGED published
    BY <1>1 DEF Same, Fields
  <2> QED
    BY <1>1, <2>1, OnceTaken DEF IInv
<1>7. SeenInv'
  BY <1>1 DEF SeenInv, Same, Fields
<1>8. EndInv'
  <2>1. NoEnd(conn'.queue)
    BY <1>1, <1>2 DEF IInv, EndInv
  <2>2. \A D : Covered(conn'.queue, D)
    BY <2>1 DEF NoEnd, Covered
  <2>3. conn'.step = "take"
    BY <1>1 DEF Same, Fields
  <2> QED
    BY <2>1, <2>2, <2>3 DEF EndInv, SendsEnd
<1> QED
  BY <1>3, <1>4, <1>5, <1>6, <1>7, <1>8 DEF IInv

-------------------------------------------------------------------------------
(* The theorems. *)

LEMMA StepKeepsIInv == IInv /\ [Next]_vars => IInv'
<1> SUFFICES ASSUME IInv, [Next]_vars PROVE IInv'
  OBVIOUS
<1>1. CASE WriteJob
  BY <1>1, AppendEventKeepsIInv, CommitKeepsIInv DEF WriteJob
<1>2. CASE OpenJob \/ Snapshot \/ OpenActive \/ Close
  BY <1>2, OpenJobKeepsIInv, SnapshotKeepsIInv, OpenActiveKeepsIInv, CloseKeepsIInv
<1>3. CASE Listen \/ ListenerFails \/ PollerFails
  BY <1>3, SubscribeKeepsIInv, ForwardKeepsIInv, ListenerFailsKeepsIInv DEF Listen
<1>4. CASE Poll \/ RefreshActiveJobs
  BY <1>4, PollJobKeepsIInv, PollEventsKeepsIInv, PollActiveKeepsIInv DEF Poll
<1>5. CASE TakeJob \/ TakeEvent \/ TakeRefresh
  BY <1>5, TakeJobKeepsIInv, TakeEventKeepsIInv, TakeRefreshKeepsIInv
<1>6. CASE RefreshEvents \/ SendRefreshed \/ EndRefresh
  BY <1>6, RefreshEventsKeepsIInv, SendRefreshedKeepsIInv, EndRefreshKeepsIInv
<1>7. CASE TakeJobs \/ TakeNews \/ TakeEndNews
  BY <1>7, TakeActiveKeepsIInv
<1>8. CASE UNCHANGED vars
  <2>1. UNCHANGED <<row, txn, published, conn, due>>
    BY <1>8 DEF vars
  <2>2. RowInv' /\ published <= published'
    BY <2>1, RowKept DEF IInv, RowInv
  <2> QED
    BY <2>1, <2>2, ConnKept
<1> QED
  BY <1>1, <1>2, <1>3, <1>4, <1>5, <1>6, <1>7, <1>8 DEF Next, Consume

LEMMA IInvHolds == Spec => []IInv
BY InitIInv, StepKeepsIInv, PTL DEF Spec

-------------------------------------------------------------------------------
(* The end of the stream. *)

\* A poller that has ended left behind it the item that ends the stream.
LeftEndInv ==
    conn.kind = "job" /\ IsOpen /\ conn.poller = "ended" => ~NoEnd(conn.queue)

\* The queue is as it was, and no poller ended.
LEMMA LeftEndKept ==
  ASSUME LeftEndInv, Same(Fields \ {"kind", "queue"}),
         conn'.poller # "ended" \/ conn.poller = "ended", IsOpen' => IsOpen
  PROVE  LeftEndInv'
<1>1. conn'.kind = conn.kind /\ conn'.queue = conn.queue
  BY DEF Same, Fields
<1> QED
  BY <1>1 DEF LeftEndInv

LEMMA EndStays ==
  ASSUME NEW T, NEW s \in Seq(T), ~NoEnd(s)
  PROVE  /\ \A t \in Seq(T) : ~NoEnd(s \o t)
         /\ ~IsEnd(Head(s)) => ~NoEnd(Tail(s))
<1>1. PICK i \in DOMAIN s : IsEnd(s[i])
  BY DEF NoEnd
<1>2. ASSUME NEW t \in Seq(T) PROVE ~NoEnd(s \o t)
  <2>1. i \in DOMAIN (s \o t) /\ (s \o t)[i] = s[i]
    BY ConcatShape
  <2> QED
    BY <1>1, <2>1 DEF NoEnd
<1>3. ASSUME ~IsEnd(Head(s)) PROVE ~NoEnd(Tail(s))
  <2>1. s # <<>>
    BY <1>1
  <2>2. /\ Len(s) \in Nat /\ DOMAIN s = 1..Len(s) /\ Head(s) = s[1]
        /\ DOMAIN Tail(s) = 1..(Len(s) - 1) /\ \A k \in 1..(Len(s) - 1) : Tail(s)[k] = s[k + 1]
    BY <2>1, TailShape
  <2>3. i # 1
    BY <1>1, <1>3, <2>2
  <2>4. i - 1 \in DOMAIN Tail(s) /\ Tail(s)[i - 1] = s[i]
    <3>1. i - 1 \in 1..(Len(s) - 1) /\ (i - 1) + 1 = i
      BY <1>1, <2>2, <2>3
    <3> QED
      BY <2>2, <3>1
  <2> QED
    BY <1>1, <2>4 DEF NoEnd
<1> QED
  BY <1>2, <1>3

LEMMA LeftEndStep == IInv /\ LeftEndInv /\ [Next]_vars => LeftEndInv'
<1> SUFFICES ASSUME IInv, LeftEndInv, [Next]_vars PROVE LeftEndInv'
  OBVIOUS
<1>0. DOMAIN conn = Fields /\ conn.queue \in Seq(Items)
  BY DEF IInv, ConnInv
<1>1. CASE UNCHANGED conn
  BY <1>1 DEF LeftEndInv, IsOpen
<1>2. CASE WriteJob \/ Subscribe \/ ListenerFails \/ PollerFails \/ PollJob \/ OpenJob
  <2>1. CASE UNCHANGED conn
    BY <1>1, <2>1
  <2>2. \/ UNCHANGED conn
        \/ Same(Fields \ {"kind", "queue", "step"}) /\ (conn'.poller = conn.poller \/ conn'.poller = "dead")
    <3>1. CASE WriteJob
      BY <1>0, <3>1 DEF WriteJob, AppendEvent, Commit, Rollback, Hears, Same, Fields
    <3>2. CASE Subscribe \/ ListenerFails \/ PollerFails
      BY <1>0, <3>2 DEF Subscribe, ListenerFails, PollerFails, Same, Fields
    <3>3. CASE PollJob \/ OpenJob
      BY <1>0, <3>3 DEF PollJob, OpenJob, ReadStatus, Same, Fields
    <3> QED
      BY <1>2, <3>1, <3>2, <3>3
  <2>3. CASE Same(Fields \ {"kind", "queue", "step"}) /\ (conn'.poller = conn.poller \/ conn'.poller = "dead")
    BY <2>3, LeftEndKept DEF Same, Fields, IsOpen
  <2> QED
    BY <2>1, <2>2, <2>3
<1>3. CASE Snapshot \/ Close
  <2>1. conn'.poller # "ended"
    <3>1. CASE Snapshot
      <4>1. conn.poller = "none"
        BY <3>1 DEF Snapshot, IInv, PhaseInv
      <4> QED
        BY <1>0, <3>1, <4>1 DEF Snapshot, Fields
    <3>2. CASE Close
      BY <3>2, NewConnectionIs DEF Close, NewConnection
    <3> QED
      BY <1>3, <3>1, <3>2
  <2> QED
    BY <2>1 DEF LeftEndInv
<1>4. CASE Forward
  <2>1. /\ conn'.kind = conn.kind /\ conn'.step = conn.step /\ conn'.poller = conn.poller
        /\ conn'.queue = Append(conn.queue, Head(conn.inbox)) /\ conn.inbox # <<>>
    BY <1>0, <1>4 DEF Forward, Fields
  <2>2. Head(conn.inbox) \in Items
    <3>1. conn.inbox \in Seq(RedisItems)
      BY DEF IInv, ConnInv
    <3>2. Head(conn.inbox) \in RedisItems
      BY <2>1, <3>1, TailShape
    <3> QED
      BY <3>2 DEF RedisItems, Items, EventItems, Sources
  <2>3. /\ <<Head(conn.inbox)>> \in Seq(Items)
        /\ conn'.queue = conn.queue \o <<Head(conn.inbox)>>
    BY <1>0, <2>1, <2>2, OneItem, AppendIsConcat
  <2> QED
    BY <1>0, <2>1, <2>3, EndStays DEF LeftEndInv, IsOpen
<1>5. CASE PollEvents
  <2> DEFINE events == [i \in DOMAIN InOrder(Unseen) |-> EventItem(InOrder(Unseen)[i], "database")]
             j      == JobItem(conn.read)
             done   == IF Ends(conn.read) THEN <<DoneItem(conn.read)>> ELSE <<>>
  <2>1. SUFFICES ASSUME conn'.poller = "ended" PROVE ~NoEnd(conn'.queue)
    BY DEF LeftEndInv
  <2>2. Ends(conn.read) /\ conn'.queue = conn.queue \o events \o <<j>> \o done
    BY <1>0, <1>5, <2>1 DEF PollEvents, AfterPoll, Fields
  <2>3. /\ conn.queue \o events \in Seq(Items) /\ j \in Items /\ done \in Seq(Items)
    <3>1. events \in Seq(Items)
      <4>1. Unseen \in SUBSET Events
        BY EventsAssumption DEF IInv, RowInv, Events, Unseen
      <4>2. InOrder(Unseen) \in Seq(Unseen)
        BY <4>1, EventsInOrder
      <4> DEFINE new == InOrder(Unseen)
      <4> HIDE DEF new
      <4>3. \A i \in DOMAIN new : EventItem(new[i], "database") \in Items
        BY <4>1, <4>2 DEF Items, EventItems, Sources, new
      <4>4. Len(new) \in Nat /\ DOMAIN new = 1..Len(new)
        BY <4>2 DEF new
      <4> QED
        BY <4>3, <4>4 DEF new
    <3>2. j \in Items /\ DoneItem(conn.read) \in Items
      BY DEF IInv, ConnInv, Items
    <3>3. done \in Seq(Items)
      BY <3>2
    <3> QED
      BY <1>0, <3>1, <3>2, <3>3, ConcatShape
  <2>4. ~NoEnd(<<j>>)
    BY <2>2 DEF NoEnd, IsEnd, JobItem, Ends
  <2> HIDE DEF events, j, done
  <2>5. ~NoEnd(conn.queue \o events \o <<j>>) /\ conn.queue \o events \o <<j>> \in Seq(Items)
    <3> DEFINE q == conn.queue \o events
    <3>1. <<j>> \in Seq(Items) /\ q \in Seq(Items) /\ 1 \in DOMAIN <<j>> /\ IsEnd(<<j>>[1])
      BY <2>3, <2>4 DEF NoEnd
    <3> HIDE DEF q
    <3>2. Len(q) + 1 \in DOMAIN (q \o <<j>>) /\ (q \o <<j>>)[Len(q) + 1] = <<j>>[1]
      BY <3>1, ConcatShape
    <3>3. q \o <<j>> \in Seq(Items) /\ ~NoEnd(q \o <<j>>)
      BY <3>1, <3>2, ConcatShape DEF NoEnd
    <3> QED
      BY <3>3 DEF q
  <2> QED
    BY <2>2, <2>3, <2>5, EndStays
<1>6. CASE TakeJob \/ TakeEvent \/ TakeRefresh
  <2>1. /\ conn'.kind = conn.kind /\ conn'.poller = conn.poller /\ conn.step = "take"
        /\ conn'.queue = Tail(conn.queue) /\ conn.queue # <<>>
        /\ IsEnd(Head(conn.queue)) => ~IsOpen'
    <3>1. CASE TakeJob
      BY <1>0, <3>1 DEF TakeJob, Takes, Taken, Fields, IsEnd, IsOpen, Ends
    <3>2. CASE TakeEvent
      BY <1>0, <3>2 DEF TakeEvent, Takes, Taken, Fields, IsEnd
    <3>3. CASE TakeRefresh
      BY <1>0, <3>3 DEF TakeRefresh, Takes, ReadStatus, Fields, IsEnd
    <3> QED
      BY <1>6, <3>1, <3>2, <3>3
  <2> QED
    BY <1>0, <2>1, EndStays DEF LeftEndInv, IsOpen
<1>7. CASE RefreshEvents \/ SendRefreshed \/ EndRefresh
  <2>1. IsOpen /\ Same(Fields \ {"kind", "queue", "poller"})
    BY <1>0, <1>7 DEF RefreshEvents, SendRefreshed, EndRefresh, IsOpen, Same, Fields, IInv, PhaseInv
  <2> QED
    BY <2>1, LeftEndKept DEF Same, Fields
<1>8. CASE OpenActive \/ PollActive \/ TakeJobs \/ TakeNews \/ TakeEndNews \/ RefreshActiveJobs
  <2>1. conn'.kind = conn.kind /\ conn.kind = "active"
    BY <1>0, <1>8 DEF OpenActive, PollActive, TakeJobs, TakeNews, TakeEndNews, RefreshActiveJobs,
       Takes, Taken, Fields, IInv, PhaseInv
  <2> QED
    BY <2>1 DEF LeftEndInv
<1> QED
  BY <1>1, <1>2, <1>3, <1>4, <1>5, <1>6, <1>7, <1>8 DEF Next, Listen, Poll, Consume, vars

LEMMA EndIsLeft == Spec => [](IInv /\ LeftEndInv)
<1>1. Init => LeftEndInv
  BY DEF Init, NewConnection, LeftEndInv
<1> QED
  BY <1>1, IInvHolds, LeftEndStep, PTL DEF Spec

\* TypeOK: whatever fails, the job, its events and the connection keep their form, only the
\* stream of a job ends (stream_job) and it ends with a final status.
THEOREM StreamTypeCorrect == Spec => []TypeOK
<1>1. IInv => TypeOK
  <2> SUFFICES ASSUME IInv PROVE TypeOK
    OBVIOUS
  <2>1. \A i \in DOMAIN conn.inbox : conn.inbox[i].type \in {"event", "job_refresh"}
    <3>1. \A i \in DOMAIN conn.inbox : conn.inbox[i] \in RedisItems
      BY DEF IInv, ConnInv
    <3>2. \A x \in RedisItems : x.type \in {"event", "job_refresh"}
      BY DEF RedisItems, EventItem, RefreshItem
    <3> QED
      BY <3>1, <3>2
  <2> QED
    BY <2>1 DEF TypeOK, IInv, RowInv, ConnInv, PhaseInv, Statuses
<1> QED
  BY <1>1, IInvHolds, PTL

\* EventsReachTheClient: for any number of events and any queue, whatever Redis loses and in
\* whatever order listener, poller and refresh move, the client of a job's stream gets an
\* event at most once from Redis and once from the database, no stream ends before what
\* was committed with the final status was sent, unless a refresh overtook the poller
\* that had queued it, and no poller ends without having queued what ends the stream.
THEOREM EventsAreSent == Spec => []EventsReachTheClient
<1>1. IInv /\ LeftEndInv => EventsReachTheClient
  <2> SUFFICES ASSUME IInv, LeftEndInv, conn.kind = "job"
               PROVE  /\ \A e \in Events : conn.sent["database"][e] <= 1 /\ conn.sent["redis"][e] <= 1
                      /\ \A e \in conn.seen : Sent(e) > 0 \/ e \in Waiting
                      /\ conn.step = "done" =>
                            \A e \in due : Sent(e) > 0 \/ (conn.ended = "refresh" /\ e \in Waiting)
                      /\ IsOpen /\ conn.poller = "ended" =>
                            \E i \in DOMAIN conn.queue : /\ conn.queue[i].type = "job"
                                                         /\ conn.queue[i].status \in Terminal
    BY DEF EventsReachTheClient
  <2>1. \A e \in Events : conn.sent["database"][e] \in {0, 1} /\ conn.sent["redis"][e] \in {0, 1}
    BY DEF IInv, ConnInv, Sources
  <2>2. \A e \in Events : WasSent(conn.sent, e) => Sent(e) > 0
    <3> SUFFICES ASSUME NEW e \in Events, WasSent(conn.sent, e) PROVE Sent(e) > 0
      OBVIOUS
    <3>1. conn.sent["database"][e] = 1 \/ conn.sent["redis"][e] = 1
      BY DEF WasSent, Sources
    <3> QED
      BY <2>1, <3>1 DEF Sent
  <2>3. \A e : Waits(conn.queue, e) => e \in Waiting
    BY DEF Waits, Waiting
  <2>4. conn.seen \subseteq Events /\ due \subseteq Events
    <3>1. conn.seen \subseteq 1..published /\ due \subseteq 1..published
      BY DEF IInv, RowInv, ConnInv
    <3>2. 1..published \subseteq Events
      BY EventsAssumption DEF IInv, RowInv, Events
    <3> QED
      BY <3>1, <3>2
  <2>5. \A e \in Events : conn.sent["database"][e] <= 1 /\ conn.sent["redis"][e] <= 1
    BY <2>1
  <2>6. \A e \in conn.seen : Sent(e) > 0 \/ e \in Waiting
    BY <2>2, <2>3, <2>4 DEF IInv, SeenInv
  <2>7. conn.step = "done" =>
          \A e \in due : Sent(e) > 0 \/ (conn.ended = "refresh" /\ e \in Waiting)
    BY <2>2, <2>3, <2>4 DEF IInv, EndInv
  <2>8. IsOpen /\ conn.poller = "ended" =>
          \E i \in DOMAIN conn.queue : conn.queue[i].type = "job" /\ conn.queue[i].status \in Terminal
    BY DEF LeftEndInv, NoEnd, IsEnd
  <2> QED
    BY <2>5, <2>6, <2>7, <2>8
<1> QED
  BY <1>1, EndIsLeft, PTL

===============================================================================
