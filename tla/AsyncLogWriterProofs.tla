------------------------ MODULE AsyncLogWriterProofs ------------------------
(***************************************************************************)
(* Proofs about AsyncLogWriter for any batch size and number of entries,   *)
(* whatever flushes fail and whenever the writer is stopped.               *)
(***************************************************************************)
EXTENDS AsyncLogWriter, SequenceTheorems, FiniteSetTheorems, TLAPS

-----------------------------------------------------------------------------
(* The invariant *)

Below(A, B) == \A m \in A, n \in B : m < n

\* table, batch and queue hold all there is to store, each in order and one
\* after the other
NothingLost ==
    /\ InOrder(stored) /\ InOrder(batch) /\ InOrder(queue)
    /\ Below(Range(stored), Range(batch))
    /\ Below(Range(stored), Range(queue))
    /\ Below(Range(batch), Range(queue))
    /\ Range(stored) \cup Range(batch) \cup Range(queue) = Kept

\* The tasks in turn: there is a writer before anything else, one that stop
\* has seen off does not come back.
Turns ==
    /\ writer = "none" => ~running /\ queue = <<>> /\ stopper = "none"
    /\ stopper # "none" => ~running
    /\ stopper = "returned" => writer = "finished"

WriterInv ==
    /\ TypeOK
    /\ failed \subseteq 1..accepted
    /\ Turns
    /\ stopper # "returned" => NothingLost
    /\ StopLosesLessThanABatch

-----------------------------------------------------------------------------
(* Sequences of entries *)

\* Two sequences laid end to end are in order if each is, and the second goes
\* on above the first.
LEMMA OrderOfConcat ==
    ASSUME NEW s \in Seq(Entries), NEW t \in Seq(Entries)
    PROVE  InOrder(s \o t) <=>
            /\ InOrder(s) /\ InOrder(t)
            /\ Below(Range(s), Range(t))
<1> DEFINE c == s \o t
<1>1. /\ Len(c) = Len(s) + Len(t)
      /\ \A i \in 1..(Len(s) + Len(t)) :
            c[i] = IF i <= Len(s) THEN s[i] ELSE t[i - Len(s)]
      /\ c \in Seq(Entries)
  BY ConcatProperties
<1> HIDE DEF c
<1>2. /\ Len(s) \in Nat /\ DOMAIN s = 1..Len(s)
      /\ Len(t) \in Nat /\ DOMAIN t = 1..Len(t)
      /\ DOMAIN c = 1..(Len(s) + Len(t))
  BY <1>1, LenProperties
<1>3. /\ \A i \in DOMAIN s : i \in DOMAIN c /\ c[i] = s[i]
      /\ \A i \in DOMAIN t : (i + Len(s)) \in DOMAIN c /\ c[i + Len(s)] = t[i]
  BY <1>1, <1>2
<1>4. ASSUME InOrder(c)
      PROVE  InOrder(s) /\ InOrder(t) /\ Below(Range(s), Range(t))
  <2>1. InOrder(s)
    BY <1>3, <1>4 DEF InOrder
  <2>2. ASSUME NEW i \in DOMAIN t, NEW j \in DOMAIN t, i < j PROVE t[i] < t[j]
    <3>1. i + Len(s) < j + Len(s)
      BY <1>2, <2>2
    <3> QED
      BY <1>3, <1>4, <3>1 DEF InOrder
  <2>3. ASSUME NEW i \in DOMAIN s, NEW j \in DOMAIN t PROVE s[i] < t[j]
    <3>1. i < j + Len(s)
      BY <1>2
    <3> QED
      BY <1>3, <1>4, <3>1 DEF InOrder
  <2> QED
    BY <2>1, <2>2, <2>3 DEF InOrder, Below, Range
<1>5. ASSUME InOrder(s), InOrder(t), Below(Range(s), Range(t))
      PROVE  InOrder(c)
  <2> SUFFICES ASSUME NEW i \in DOMAIN c, NEW j \in DOMAIN c, i < j
               PROVE  c[i] < c[j]
    BY DEF InOrder
  <2>1. CASE j <= Len(s)
    <3>1. i \in DOMAIN s /\ j \in DOMAIN s /\ c[i] = s[i] /\ c[j] = s[j]
      BY <1>1, <1>2, <2>1
    <3> QED
      BY <1>5, <3>1 DEF InOrder
  <2>2. CASE i <= Len(s) /\ j > Len(s)
    <3>1. i \in DOMAIN s /\ (j - Len(s)) \in DOMAIN t
          /\ c[i] = s[i] /\ c[j] = t[j - Len(s)]
      BY <1>1, <1>2, <2>2
    <3> QED
      BY <1>5, <3>1 DEF Below, Range
  <2>3. CASE i > Len(s)
    <3>1. /\ (i - Len(s)) \in DOMAIN t /\ (j - Len(s)) \in DOMAIN t
          /\ c[i] = t[i - Len(s)] /\ c[j] = t[j - Len(s)]
          /\ i - Len(s) < j - Len(s)
      BY <1>1, <1>2, <2>3
    <3> QED
      BY <1>5, <3>1 DEF InOrder
  <2> QED
    BY <1>2, <2>1, <2>2, <2>3
<1>6. InOrder(c) <=> InOrder(s) /\ InOrder(t) /\ Below(Range(s), Range(t))
  BY <1>4, <1>5
<1> QED
  BY <1>6 DEF c

\* A sequence of one entry.
LEMMA OneEntry ==
    ASSUME NEW n \in Entries
    PROVE  /\ <<n>> \in Seq(Entries)
           /\ Range(<<n>>) = {n}
           /\ InOrder(<<n>>)
BY DEF Range, InOrder

\* The empty sequence.
LEMMA NoEntry ==
    /\ <<>> \in Seq(Entries)
    /\ Range(<<>>) = {}
    /\ InOrder(<<>>)
BY DEF Range, InOrder

\* A sequence holds entries.
LEMMA EntriesOfType ==
    ASSUME NEW s \in Seq(Entries)
    PROVE  Range(s) \subseteq Entries
BY LenProperties, ElementOfSeq DEF Range

\* An entry at the end.
LEMMA OrderOfAppend ==
    ASSUME NEW s \in Seq(Entries), NEW n \in Entries
    PROVE  /\ Append(s, n) \in Seq(Entries)
           /\ Len(Append(s, n)) = Len(s) + 1
           /\ Range(Append(s, n)) = Range(s) \cup {n}
           /\ InOrder(Append(s, n)) <=> InOrder(s) /\ Below(Range(s), {n})
<1>1. Append(s, n) = s \o <<n>>
  BY AppendIsConcat
<1>2. Append(s, n) \in Seq(Entries) /\ Len(Append(s, n)) = Len(s) + 1
  BY AppendProperties
<1> DEFINE one == <<n>>
<1>3. one \in Seq(Entries) /\ Range(one) = {n} /\ InOrder(one)
  BY OneEntry
<1> HIDE DEF one
<1>4. Range(s \o one) = Range(s) \cup {n}
  BY <1>3, RangeConcatenation
<1>5. InOrder(s \o one) <=> InOrder(s) /\ Below(Range(s), {n})
  BY <1>3, OrderOfConcat
<1> QED
  BY <1>1, <1>2, <1>4, <1>5 DEF one

\* The entry at the head of a sequence.
LEMMA OrderOfTail ==
    ASSUME NEW s \in Seq(Entries), s # <<>>
    PROVE  /\ Head(s) \in Entries /\ Tail(s) \in Seq(Entries)
           /\ Len(Tail(s)) = Len(s) - 1
           /\ Range(s) = {Head(s)} \cup Range(Tail(s))
           /\ InOrder(s) <=>
                InOrder(Tail(s)) /\ Below({Head(s)}, Range(Tail(s)))
<1>1. /\ Head(s) \in Entries /\ Tail(s) \in Seq(Entries)
      /\ Len(Tail(s)) = Len(s) - 1
  BY HeadTailProperties
<1> DEFINE h == Head(s)
           t == Tail(s)
<1>2. s = <<h>> \o t
  OBVIOUS
<1>3. h \in Entries /\ t \in Seq(Entries)
  BY <1>1
<1> HIDE DEF h, t
<1> DEFINE one == <<h>>
<1>4. one \in Seq(Entries) /\ Range(one) = {h} /\ InOrder(one) /\ s = one \o t
  BY <1>2, <1>3, OneEntry
<1> HIDE DEF one
<1>5. Range(s) = {h} \cup Range(t)
  BY <1>3, <1>4, RangeConcatenation
<1>6. InOrder(s) <=> InOrder(t) /\ Below({h}, Range(t))
  BY <1>3, <1>4, OrderOfConcat
<1> QED
  BY <1>1, <1>5, <1>6 DEF h, t

\* A sequence has no more entries than its length.
LEMMA EntriesAreFew ==
    ASSUME NEW s \in Seq(Entries)
    PROVE  IsFiniteSet(Range(s)) /\ Cardinality(Range(s)) <= Len(s)
<1>1. Len(s) \in Nat /\ DOMAIN s = 1..Len(s) /\ s \in [1..Len(s) -> Entries]
  BY LenProperties
<1>2. s \in Surjection(1..Len(s), Range(s))
  BY <1>1 DEF Surjection, Range
<1>3. IsFiniteSet(1..Len(s)) /\ Cardinality(1..Len(s)) = Len(s)
  BY <1>1, FS_Interval
<1> QED
  BY <1>2, <1>3, FS_Surjection

-----------------------------------------------------------------------------
(* A flush, and a stop *)

\* A flush of entries ahead of the others ahead: stored or failed, nothing
\* else changes.
LEMMA FlushKeeps ==
    ASSUME NEW entries \in Seq(Entries), NEW ahead,
           TypeOK, failed \subseteq 1..accepted,
           InOrder(stored), InOrder(entries),
           Below(Range(stored), Range(entries)),
           Below(Range(stored), ahead), Below(Range(entries), ahead),
           Range(stored) \cup Range(entries) \cup ahead = Kept,
           FlushBatch(entries), UNCHANGED accepted
    PROVE  /\ stored' \in Seq(Entries)
           /\ failed' \subseteq 1..accepted' /\ failed' \subseteq Entries
           /\ InOrder(stored')
           /\ Below(Range(stored'), ahead)
           /\ Range(stored') \cup ahead = Kept'
<1>1. stored \in Seq(Entries) /\ failed \subseteq Entries /\ accepted \in 0..MaxLogs
  BY DEF TypeOK
<1>2. Range(stored) \subseteq Entries /\ Range(entries) \subseteq Entries
  BY <1>1, EntriesOfType
<1>3. CASE stored' = stored \o entries /\ UNCHANGED failed
  <2>1. stored' \in Seq(Entries)
    BY <1>1, <1>3, ConcatProperties
  <2>2. Range(stored') = Range(stored) \cup Range(entries)
    BY <1>1, <1>3, RangeConcatenation
  <2>3. InOrder(stored')
    BY <1>1, <1>3, OrderOfConcat
  <2>4. Below(Range(stored'), ahead)
    BY <2>2 DEF Below
  <2>5. Kept' = Kept
    BY <1>3 DEF Kept
  <2> QED
    BY <1>1, <1>3, <2>1, <2>2, <2>3, <2>4, <2>5
<1>4. CASE failed' = failed \cup Range(entries) /\ UNCHANGED stored
  <2>1. Range(entries) \subseteq 1..accepted
    BY DEF Kept
  <2>2. Kept' = Kept \ Range(entries)
    BY <1>4 DEF Kept
  <2>3. \A n \in Range(entries) : n \notin Range(stored) /\ n \notin ahead
    <3> SUFFICES ASSUME NEW n \in Range(entries), n \in Range(stored) \cup ahead
                 PROVE  FALSE
      OBVIOUS
    <3>1. n \in Nat
      BY <1>2 DEF Entries
    <3>2. n < n
      BY DEF Below
    <3> QED
      BY <3>1, <3>2
  <2>4. Range(stored) \cup ahead = Kept'
    BY <2>2, <2>3
  <2> QED
    BY <1>1, <1>2, <1>4, <2>1, <2>4
<1> QED
  BY <1>3, <1>4 DEF FlushBatch, Range

\* A stop that finds the queue empty loses the batch and nothing else.
LEMMA CancelLosesTheBatch ==
    ASSUME TypeOK, NothingLost, queue = <<>>,
           UNCHANGED <<stored, accepted, failed>>
    PROVE  StopLosesLessThanABatch'
<1>1. /\ stored \in Seq(Entries) /\ batch \in Seq(Entries)
      /\ Len(batch) < BatchSize /\ Len(batch) \in Nat
  BY LenProperties DEF TypeOK
<1>2. Range(queue) = {}
  BY NoEntry
<1> DEFINE lost == Kept \ Range(stored)
<1>3. lost \subseteq Range(batch) /\ Range(stored) \subseteq Kept
  BY <1>2 DEF NothingLost
<1>4. IsFiniteSet(Range(batch)) /\ Cardinality(Range(batch)) <= Len(batch)
  BY <1>1, EntriesAreFew
<1>5. /\ Cardinality(lost) <= Cardinality(Range(batch))
      /\ Cardinality(lost) \in Nat /\ Cardinality(Range(batch)) \in Nat
  BY <1>3, <1>4, FS_Subset, FS_CardinalityType
<1>6. Cardinality(lost) < BatchSize
  BY <1>1, <1>4, <1>5, BatchSizeIsPositive
<1>7. \A n \in Range(stored), m \in lost : n < m
  BY <1>3 DEF NothingLost, Below
<1>8. Kept' = Kept /\ stored' = stored
  BY DEF Kept
<1> QED
  BY <1>3, <1>6, <1>7, <1>8 DEF StopLosesLessThanABatch, NothingLost

-----------------------------------------------------------------------------
(* One lemma for each action *)

LEMMA InitInv == Init => WriterInv
<1> SUFFICES ASSUME Init PROVE WriterInv
  OBVIOUS
<1>1. Len(<<>>) = 0 /\ 0 < BatchSize /\ 0 \in 0..MaxLogs
  BY BatchSizeIsPositive, MaxLogsIsNatural
<1>2. TypeOK
  BY <1>1, NoEntry DEF Init, TypeOK
<1>3. Kept = {}
  BY DEF Init, Kept
<1>4. NothingLost
  BY <1>3, NoEntry DEF Init, NothingLost, Below
<1> QED
  BY <1>2, <1>4 DEF Init, WriterInv, Turns, StopLosesLessThanABatch

LEMMA StartKeepsInv == ASSUME WriterInv, Start PROVE WriterInv'
<1>1. queue = <<>> /\ stopper = "none"
  BY DEF WriterInv, Turns, Start
<1>2. UNCHANGED <<queue, batch, stopper, stored, accepted, failed>>
  BY <1>1 DEF Start
<1>3. Len(<<>>) = 0
  OBVIOUS
<1>4. TypeOK'
  BY <1>1, <1>2, <1>3 DEF WriterInv, TypeOK, Start
<1>5. NothingLost'
  BY <1>1, <1>2 DEF WriterInv, NothingLost, Kept
<1> QED
  BY <1>1, <1>2, <1>4, <1>5
     DEF WriterInv, Turns, Start, StopLosesLessThanABatch

LEMMA LogKeepsInv == ASSUME WriterInv, LogAsync PROVE WriterInv'
<1> DEFINE new == accepted + 1
<1>1. /\ accepted \in 0..MaxLogs /\ accepted < MaxLogs
      /\ queue \in Seq(Entries) /\ unfinished = Len(queue)
      /\ failed \subseteq 1..accepted
      /\ accepted' = new /\ queue' = Append(queue, new)
      /\ unfinished' = unfinished + 1
      /\ UNCHANGED <<running, batch, writer, stopper, stored, failed>>
      /\ running
  BY DEF LogAsync, WriterInv, TypeOK
<1>2. new \in Entries /\ new \in 0..MaxLogs
  BY <1>1, MaxLogsIsNatural DEF Entries
<1>3. stopper = "none" /\ writer # "none" /\ NothingLost
  BY <1>1 DEF WriterInv, Turns
<1>4. /\ queue' \in Seq(Entries) /\ Len(queue') = Len(queue) + 1
      /\ Range(queue') = Range(queue) \cup {new}
      /\ InOrder(queue') <=> InOrder(queue) /\ Below(Range(queue), {new})
  BY <1>1, <1>2, OrderOfAppend
<1>5. TypeOK'
  BY <1>1, <1>2, <1>4 DEF WriterInv, TypeOK
<1>6. Kept' = Kept \cup {new} /\ \A n \in Kept : n < new
  BY <1>1 DEF Kept
<1>7. /\ Below(Range(stored), {new}) /\ Below(Range(batch), {new})
      /\ Below(Range(queue), {new})
  BY <1>3, <1>6 DEF NothingLost, Below
<1>8. NothingLost'
  <2>1. InOrder(stored') /\ InOrder(batch') /\ InOrder(queue')
    BY <1>1, <1>3, <1>4, <1>7 DEF NothingLost
  <2>2. /\ Below(Range(stored), Range(queue'))
        /\ Below(Range(batch), Range(queue'))
    BY <1>3, <1>4, <1>7 DEF NothingLost, Below
  <2>3. Range(stored) \cup Range(batch) \cup Range(queue') = Kept'
    BY <1>3, <1>4, <1>6 DEF NothingLost
  <2> QED
    BY <1>1, <1>3, <2>1, <2>2, <2>3 DEF NothingLost
<1>9. failed' \subseteq 1..accepted'
  BY <1>1
<1> QED
  BY <1>1, <1>3, <1>5, <1>8, <1>9
     DEF WriterInv, Turns, StopLosesLessThanABatch

LEMMA BeginKeepsInv == ASSUME WriterInv, Begin PROVE WriterInv'
<1>1. /\ UNCHANGED <<running, queue, unfinished, batch, stopper, stored,
                     accepted, failed>>
      /\ writer = "created" /\ writer' \in {"waiting", "finished"}
  BY DEF Begin, Continue
<1>2. stopper # "returned"
  BY <1>1 DEF WriterInv, Turns
<1>3. NothingLost'
  BY <1>1, <1>2 DEF WriterInv, NothingLost, Kept
<1>4. TypeOK'
  BY <1>1 DEF WriterInv, TypeOK
<1> QED
  BY <1>1, <1>2, <1>3, <1>4
     DEF WriterInv, Turns, StopLosesLessThanABatch

LEMMA TakeKeepsInv == ASSUME WriterInv, TakeEntry PROVE WriterInv'
<1> DEFINE head == Head(queue)
           filled == Append(batch, head)
<1>1. /\ queue \in Seq(Entries) /\ queue # <<>> /\ batch \in Seq(Entries)
      /\ unfinished = Len(queue)
      /\ queue' = Tail(queue) /\ unfinished' = unfinished - 1
      /\ writer = "waiting" /\ writer' \in {"waiting", "finished"}
      /\ UNCHANGED <<running, stopper, accepted>>
  BY DEF WriterInv, TypeOK, TakeEntry, Continue
<1>2. stopper # "returned" /\ NothingLost
  BY <1>1 DEF WriterInv, Turns
<1>3. /\ head \in Entries /\ queue' \in Seq(Entries)
      /\ Len(queue') = Len(queue) - 1
      /\ Range(queue) = {head} \cup Range(queue')
      /\ InOrder(queue') /\ Below({head}, Range(queue'))
  BY <1>1, <1>2, OrderOfTail DEF NothingLost
<1>4. Below(Range(batch), {head})
  BY <1>2, <1>3 DEF NothingLost, Below
<1>5. /\ filled \in Seq(Entries) /\ Len(filled) = Len(batch) + 1
      /\ Range(filled) = Range(batch) \cup {head}
      /\ InOrder(filled)
  BY <1>1, <1>2, <1>3, <1>4, OrderOfAppend DEF NothingLost
<1>6. /\ Below(Range(stored), Range(filled))
      /\ Below(Range(stored), Range(queue'))
      /\ Below(Range(filled), Range(queue'))
      /\ Range(stored) \cup Range(filled) \cup Range(queue') = Kept
  BY <1>2, <1>3, <1>5 DEF NothingLost, Below
<1>7. \/ /\ FlushBatch(filled) /\ batch' = <<>>
      \/ /\ batch' = filled /\ UNCHANGED <<stored, failed>>
         /\ ~(Len(filled) >= BatchSize)
  BY DEF TakeEntry
<1> HIDE DEF head, filled
<1>8. CASE FlushBatch(filled) /\ batch' = <<>>
  <2>1. /\ stored' \in Seq(Entries)
        /\ failed' \subseteq 1..accepted' /\ failed' \subseteq Entries
        /\ InOrder(stored')
        /\ Below(Range(stored'), Range(queue'))
        /\ Range(stored') \cup Range(queue') = Kept'
    BY <1>1, <1>2, <1>5, <1>6, <1>8, FlushKeeps DEF WriterInv, NothingLost
  <2>2. Len(<<>>) = 0 /\ 0 < BatchSize
    BY BatchSizeIsPositive
  <2>3. TypeOK'
    BY <1>1, <1>3, <1>8, <2>1, <2>2, NoEntry DEF WriterInv, TypeOK
  <2>4. NothingLost'
    BY <1>3, <1>8, <2>1, NoEntry DEF NothingLost, Below
  <2> QED
    BY <1>1, <1>2, <2>1, <2>3, <2>4
       DEF WriterInv, Turns, StopLosesLessThanABatch
<1>9. CASE /\ batch' = filled /\ UNCHANGED <<stored, failed>>
           /\ ~(Len(filled) >= BatchSize)
  <2>1. Len(filled) < BatchSize
    BY <1>5, <1>9, BatchSizeIsPositive, LenProperties
  <2>2. TypeOK'
    BY <1>1, <1>3, <1>5, <1>9, <2>1 DEF WriterInv, TypeOK
  <2>3. Kept' = Kept
    BY <1>1, <1>9 DEF Kept
  <2>4. NothingLost'
    BY <1>2, <1>3, <1>5, <1>6, <1>9, <2>3 DEF NothingLost
  <2> QED
    BY <1>1, <1>2, <1>9, <2>2, <2>4
       DEF WriterInv, Turns, StopLosesLessThanABatch
<1> QED
  BY <1>7, <1>8, <1>9

LEMMA FlushIntervalKeepsInv == ASSUME WriterInv, FlushInterval PROVE WriterInv'
<1>1. /\ batch \in Seq(Entries)
      /\ writer = "waiting" /\ writer' \in {"waiting", "finished"}
      /\ UNCHANGED <<running, queue, unfinished, stopper, accepted>>
  BY DEF WriterInv, TypeOK, FlushInterval, Continue
<1>2. stopper # "returned" /\ NothingLost
  BY <1>1 DEF WriterInv, Turns
<1>3. CASE UNCHANGED <<batch, stored, failed>>
  <2>1. TypeOK'
    BY <1>1, <1>3 DEF WriterInv, TypeOK
  <2>2. NothingLost'
    BY <1>1, <1>2, <1>3 DEF NothingLost, Kept
  <2> QED
    BY <1>1, <1>2, <1>3, <2>1, <2>2
       DEF WriterInv, Turns, StopLosesLessThanABatch
<1>4. CASE FlushBatch(batch) /\ batch' = <<>>
  <2>1. /\ stored' \in Seq(Entries)
        /\ failed' \subseteq 1..accepted' /\ failed' \subseteq Entries
        /\ InOrder(stored')
        /\ Below(Range(stored'), Range(queue))
        /\ Range(stored') \cup Range(queue) = Kept'
    BY <1>1, <1>2, <1>4, FlushKeeps DEF WriterInv, NothingLost
  <2>2. Len(<<>>) = 0 /\ 0 < BatchSize
    BY BatchSizeIsPositive
  <2>3. TypeOK'
    BY <1>1, <1>4, <2>1, <2>2, NoEntry DEF WriterInv, TypeOK
  <2>4. NothingLost'
    BY <1>1, <1>2, <1>4, <2>1, NoEntry DEF NothingLost, Below
  <2> QED
    BY <1>1, <1>2, <2>1, <2>3, <2>4
       DEF WriterInv, Turns, StopLosesLessThanABatch
<1> QED
  BY <1>3, <1>4 DEF FlushInterval

LEMMA StopKeepsInv == ASSUME WriterInv, Stop PROVE WriterInv'
<1>1. /\ UNCHANGED <<queue, unfinished, stored, accepted, failed>>
      /\ running /\ running' = FALSE
      /\ unfinished = Len(queue) /\ queue \in Seq(Entries)
  BY DEF WriterInv, TypeOK, Stop
<1>2. stopper = "none" /\ writer # "none" /\ NothingLost
  BY <1>1 DEF WriterInv, Turns
<1>3. CASE unfinished = 0 /\ stopper' = "returned" /\ CancelWriter
  <2>1. queue = <<>>
    BY <1>1, <1>3, EmptySeq
  <2>2. StopLosesLessThanABatch'
    BY <1>1, <1>2, <2>1, CancelLosesTheBatch DEF WriterInv
  <2>3. TypeOK'
    <3>1. Len(<<>>) = 0 /\ 0 < BatchSize
      BY BatchSizeIsPositive
    <3> QED
      BY <1>1, <1>3, <3>1, NoEntry DEF WriterInv, TypeOK, CancelWriter
  <2> QED
    BY <1>1, <1>3, <2>2, <2>3 DEF WriterInv, Turns, CancelWriter
<1>4. CASE stopper' = "joining" /\ UNCHANGED <<writer, batch>>
  <2>1. TypeOK'
    BY <1>1, <1>4 DEF WriterInv, TypeOK
  <2>2. NothingLost'
    BY <1>1, <1>2, <1>4 DEF NothingLost, Kept
  <2> QED
    BY <1>1, <1>2, <1>4, <2>1, <2>2
       DEF WriterInv, Turns, StopLosesLessThanABatch
<1> QED
  BY <1>3, <1>4 DEF Stop

LEMMA JoinKeepsInv == ASSUME WriterInv, JoinReturns PROVE WriterInv'
<1>1. /\ UNCHANGED <<running, queue, unfinished, stored, accepted, failed>>
      /\ stopper = "joining" /\ stopper' = "returned"
      /\ writer' = "finished" /\ batch' = <<>>
      /\ unfinished = 0
  BY DEF JoinReturns, CancelWriter
<1>2. queue = <<>> /\ NothingLost /\ ~running
  BY <1>1, EmptySeq DEF WriterInv, Turns, TypeOK
<1>3. StopLosesLessThanABatch'
  BY <1>1, <1>2, CancelLosesTheBatch DEF WriterInv
<1>4. Len(<<>>) = 0 /\ 0 < BatchSize
  BY BatchSizeIsPositive
<1>5. TypeOK'
  BY <1>1, <1>4, NoEntry DEF WriterInv, TypeOK
<1> QED
  BY <1>1, <1>2, <1>3, <1>5 DEF WriterInv, Turns

LEMMA StutterKeepsInv == ASSUME WriterInv, UNCHANGED vars PROVE WriterInv'
<1>1. UNCHANGED <<running, queue, unfinished, batch, writer, stopper, stored,
                  accepted, failed>>
  BY DEF vars
<1>2. TypeOK'
  BY <1>1 DEF WriterInv, TypeOK
<1>3. stopper' # "returned" => NothingLost'
  BY <1>1 DEF WriterInv, NothingLost, Kept
<1>4. StopLosesLessThanABatch'
  BY <1>1 DEF WriterInv, StopLosesLessThanABatch, Kept
<1> QED
  BY <1>1, <1>2, <1>3, <1>4 DEF WriterInv, Turns

-----------------------------------------------------------------------------
(* The theorems *)

\* The conjunction the theorems rest on holds at every instant.
THEOREM WriterInvariant == Spec => []WriterInv
<1>1. WriterInv /\ [Next]_vars => WriterInv'
  BY StartKeepsInv, LogKeepsInv, BeginKeepsInv, TakeKeepsInv, StopKeepsInv,
     FlushIntervalKeepsInv, JoinKeepsInv, StutterKeepsInv DEF Next
<1> QED
  BY <1>1, InitInv, PTL DEF Spec

\* A batch is flushed before it grows past batch_size, and what join() waits
\* for is what is queued.
THEOREM TypeCorrect == Spec => []TypeOK
<1>1. WriterInv => TypeOK
  BY DEF WriterInv
<1> QED
  BY <1>1, WriterInvariant, PTL

\* Until stop has returned no entry that log_async accepted is lost, stored
\* twice or out of order, but for the batches whose transaction failed.
THEOREM NothingLostWhileRunning == Spec => []NothingLostBeforeStop
<1>1. WriterInv => NothingLostBeforeStop
  <2> SUFFICES ASSUME WriterInv, stopper # "returned"
               PROVE  /\ InOrder(stored \o batch \o queue)
                      /\ Range(stored \o batch \o queue) = Kept
    BY DEF NothingLostBeforeStop
  <2>1. /\ stored \in Seq(Entries) /\ batch \in Seq(Entries)
        /\ queue \in Seq(Entries) /\ NothingLost
    BY DEF WriterInv, TypeOK
  <2> DEFINE written == stored \o batch
  <2>2. /\ written \in Seq(Entries)
        /\ Range(written) = Range(stored) \cup Range(batch)
        /\ InOrder(written)
    BY <2>1, ConcatProperties, RangeConcatenation, OrderOfConcat DEF NothingLost
  <2> HIDE DEF written
  <2>3. Below(Range(written), Range(queue))
    BY <2>1, <2>2 DEF NothingLost, Below
  <2>4. InOrder(written \o queue)
    BY <2>1, <2>2, <2>3, OrderOfConcat DEF NothingLost
  <2>5. Range(written \o queue) = Range(written) \cup Range(queue)
    BY <2>1, <2>2, RangeConcatenation
  <2>6. Range(written \o queue) = Kept
    BY <2>1, <2>2, <2>5 DEF NothingLost
  <2> QED
    BY <2>4, <2>6 DEF written
<1> QED
  BY <1>1, WriterInvariant, PTL

\* stop() loses less than one batch, the last entries accepted.
THEOREM StopLosesFew == Spec => []StopLosesLessThanABatch
<1>1. WriterInv => StopLosesLessThanABatch
  BY DEF WriterInv
<1> QED
  BY <1>1, WriterInvariant, PTL
=============================================================================
