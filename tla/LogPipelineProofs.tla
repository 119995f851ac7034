------------------------- MODULE LogPipelineProofs -------------------------
(***************************************************************************)
(* What is proved about LogPipeline: that sorting a list of entries only   *)
(* moves them, and, by one inductive invariant, the type invariant, the    *)
(* agreement of the table with the list, the spacing of the entries of one *)
(* key and the bound on the list, for every number of keys, lines, starts  *)
(* and log entries, every window and every shift of the time zone.         *)
(***************************************************************************)
EXTENDS LogPipeline, DictTheorems, SequenceTheorems, FiniteSetTheorems

-----------------------------------------------------------------------------
(* The inductive invariant *)

\* The ids that can have been given by now.
Given == 1..ids

\* The entries that _logs and auth_logs can hold by now.
Entries == [id : Given, key : Keys, time : Times]

\* No two entries of a list have one id.
Unique(list) == \A i, j \in DOMAIN list : list[i].id = list[j].id => i = j

\* The lines that FreeRADIUS has written by now.
WrittenLines == [n : 1..written, key : Keys, at : 0..MaxTime]

\* What each variable holds, beyond its type: the lines are among those written.
FileOK ==
    /\ clock \in 0..MaxTime
    /\ written \in 0..MaxEvents /\ lastRead \in 0..written
    /\ file \in Seq(WrittenLines)
    /\ Len(file) <= written
    /\ truncated \in BOOLEAN /\ failed \in BOOLEAN

\* The parser has read no more lines than the file has ever had.
ParserOK ==
    /\ position \in 0..MaxEvents
    /\ unread \in Seq(WrittenLines)
    /\ Len(unread) <= position
    /\ recent \in Dict(Keys, 0..MaxTime)
    /\ at \in {"sleep", "lines", "rotate", "insert"}
    /\ at = "sleep" => unread = <<>>
    /\ entry \in IF at \in {"sleep", "lines"} THEN {NoKey}
                 ELSE [key : Keys, at : 0..MaxTime]

\* Each start makes an entry at most of each line it has read.
IdsOK ==
    /\ starts \in 1..MaxStarts
    /\ ids \in Nat
    /\ ids <= MaxEvents * (starts - 1) + position - Len(unread)
    /\ at \in {"rotate", "insert"} => ids >= 1

\* The list and the table hold entries that were made, each once; the list is
\* within its limit once it has been rotated, and in the table as it is while
\* an entry is being made.
ListsOK ==
    /\ logs \in Seq(Entries) /\ table \in Seq(Entries)
    /\ Unique(logs) /\ Unique(table)
    /\ at = "insert" => Len(logs) <= MaxLogs
    /\ ~failed /\ at \in {"rotate", "insert"} => table = logs

\* What recent_logs remembers of a key is when its last entry was made, and it
\* has forgotten only what is more than two windows ago.
RecentOK ==
    /\ made \in Dict(Keys, [id : Given, at : 0..MaxTime])
    /\ \A k \in DOMAIN made :
          IF k \in DOMAIN recent THEN recent[k] = made[k].at
          ELSE clock - made[k].at > 2 * Window

\* The inductive invariant.
Inv ==
    FileOK /\ ParserOK /\ IdsOK /\ ListsOK /\ RecentOK /\ TableFollowsList

-----------------------------------------------------------------------------
(* Sorting: load_logs and _rotate_logs call sorted() *)

\* A list with entries in E: what TLC computes with positions and lengths.
LEMMA Lists ==
    ASSUME NEW E, NEW list \in Seq(E)
    PROVE  /\ Len(list) \in Nat
           /\ DOMAIN list = 1..Len(list)
           /\ \A i \in DOMAIN list : list[i] \in E
BY LenProperties, ElementOfSeq

\* What comes before an entry is a set of other positions, and finite.
LEMMA BeforeIsFinite ==
    ASSUME NEW E, NEW es \in Seq(E), NEW i \in DOMAIN es,
           \A e \in E : e.time \in Int
    PROVE  /\ Before(es, i) \subseteq DOMAIN es \ {i}
           /\ IsFiniteSet(Before(es, i))
           /\ Cardinality(Before(es, i)) \in 0..(Len(es) - 1)
<1> DEFINE D == DOMAIN es
<1>1. Len(es) \in Nat /\ D = 1..Len(es)
  BY Lists
<1>2. es[i].time \in Int
  BY Lists
<1>3. Before(es, i) \subseteq D \ {i}
  BY <1>1, <1>2 DEF Before
<1>4. IsFiniteSet(D) /\ Cardinality(D) = Len(es)
  <2>1. 1 \in Int /\ Len(es) \in Int
    BY <1>1
  <2>2. /\ IsFiniteSet(1..Len(es))
        /\ Cardinality(1..Len(es)) = IF 1 > Len(es) THEN 0 ELSE Len(es) - 1 + 1
    BY <2>1, FS_Interval
  <2> QED
    BY <1>1, <2>2
<1>5. IsFiniteSet(D \ {i}) /\ Cardinality(D \ {i}) = Len(es) - 1
  BY <1>4, FS_RemoveElement
<1> HIDE DEF D
<1>6. /\ IsFiniteSet(Before(es, i))
      /\ Cardinality(Before(es, i)) <= Cardinality(D \ {i})
  BY <1>3, <1>5, FS_Subset
<1>7. Cardinality(Before(es, i)) \in Nat
  BY <1>6, FS_CardinalityType
<1> QED
  BY <1>1, <1>3, <1>5, <1>6, <1>7 DEF D

\* An entry that comes before another has fewer entries before it.
LEMMA BeforeGrows ==
    ASSUME NEW E, NEW es \in Seq(E), \A e \in E : e.time \in Int,
           NEW i \in DOMAIN es, NEW j \in Before(es, i)
    PROVE  Cardinality(Before(es, j)) < Cardinality(Before(es, i))
<1>1. j \in DOMAIN es
  BY DEF Before
<1>2. Len(es) \in Nat /\ DOMAIN es = 1..Len(es) /\ \A k \in DOMAIN es : es[k].time \in Int
  BY Lists
<1>3. Before(es, j) \subseteq Before(es, i) \ {j}
  BY <1>1, <1>2 DEF Before
<1>4. IsFiniteSet(Before(es, i)) /\ Cardinality(Before(es, i)) \in Nat
  BY BeforeIsFinite, <1>2
<1>5. /\ IsFiniteSet(Before(es, i) \ {j})
      /\ Cardinality(Before(es, i) \ {j}) = Cardinality(Before(es, i)) - 1
  BY <1>4, FS_RemoveElement
<1>6. Cardinality(Before(es, j)) <= Cardinality(Before(es, i) \ {j})
  BY <1>3, <1>5, FS_Subset
<1>7. Cardinality(Before(es, j)) \in Nat
  BY <1>1, <1>2, BeforeIsFinite
<1> QED
  BY <1>4, <1>5, <1>6, <1>7

\* Every rank is the rank of one position.
LEMMA RanksAreTaken ==
    ASSUME NEW E, NEW es \in Seq(E), \A e \in E : e.time \in Int,
           NEW r \in DOMAIN es
    PROVE  \E i \in DOMAIN es : Cardinality(Before(es, i)) = r - 1
<1> DEFINE n == Len(es)
           rank == [i \in 1..n |-> Cardinality(Before(es, i))]
<1>1. n \in Nat /\ DOMAIN es = 1..n /\ \A k \in 1..n : es[k].time \in Int
  BY Lists
<1>2. rank \in [1..n -> 0..(n - 1)]
  BY <1>1, BeforeIsFinite
<1>3. ASSUME NEW i \in 1..n, NEW j \in 1..n, rank[i] = rank[j]
      PROVE  i = j
  <2>1. Cardinality(Before(es, i)) = Cardinality(Before(es, j))
    BY <1>3
  <2>2. Cardinality(Before(es, i)) \in Int
    BY <1>1, BeforeIsFinite
  <2>3. i \notin Before(es, j) /\ j \notin Before(es, i)
    BY <1>1, <2>1, <2>2, BeforeGrows
  <2> QED
    BY <1>1, <2>3 DEF Before
<1>4. rank \in Injection(1..n, 0..(n - 1))
  BY <1>2, <1>3 DEF Injection, IsInjective
<1>5. /\ IsFiniteSet(0..(n - 1)) /\ Cardinality(0..(n - 1)) = n
      /\ Cardinality(1..n) = n
  <2>1. 0 \in Int /\ 1 \in Int /\ n - 1 \in Int /\ n \in Int
    BY <1>1
  <2>2. /\ IsFiniteSet(0..(n - 1))
        /\ Cardinality(0..(n - 1)) = IF 0 > n - 1 THEN 0 ELSE (n - 1) - 0 + 1
    BY <2>1, FS_Interval
  <2>3. Cardinality(1..n) = IF 1 > n THEN 0 ELSE n - 1 + 1
    BY <2>1, FS_Interval
  <2> QED
    BY <1>1, <2>2, <2>3
<1> HIDE DEF rank
<1>6. rank \in Surjection(1..n, 0..(n - 1))
  BY <1>4, <1>5, FS_Injection
<1>7. r - 1 \in 0..(n - 1)
  BY <1>1
<1>8. PICK i \in 1..n : rank[i] = r - 1
  BY <1>6, <1>7 DEF Surjection
<1> QED
  BY <1>1, <1>8 DEF rank

\* p puts every entry of es at one position of list.
Arranges(p, es, list) ==
    /\ DOMAIN list = DOMAIN es
    /\ \A r \in DOMAIN es : p[r] \in DOMAIN es /\ list[r] = es[p[r]]
    /\ \A r, s \in DOMAIN es : p[r] = p[s] => r = s
    /\ \A i \in DOMAIN es : \E r \in DOMAIN es : p[r] = i

\* sorted() moves the entries, loses none and doubles none.
LEMMA SortedArranges ==
    ASSUME NEW E, NEW es \in Seq(E), \A e \in E : e.time \in Int
    PROVE  /\ Sorted(es) \in Seq(E)
           /\ Len(Sorted(es)) = Len(es)
           /\ \E p : Arranges(p, es, Sorted(es))
<1> DEFINE D == DOMAIN es
           p == [r \in D |-> CHOOSE i \in D : Cardinality(Before(es, i)) = r - 1]
<1>1. Len(es) \in Nat /\ D = 1..Len(es) /\ \A k \in D : es[k] \in E
  BY Lists
<1>2. \A r \in D : p[r] \in D /\ Cardinality(Before(es, p[r])) = r - 1
  BY RanksAreTaken
<1>3. \A r \in D : Sorted(es)[r] = es[p[r]]
  BY DEF Sorted
<1>4. DOMAIN Sorted(es) = D
  BY DEF Sorted
<1>5. Sorted(es) \in [1..Len(es) -> E]
  BY <1>1, <1>2, <1>3, <1>4 DEF Sorted
<1> HIDE DEF p
<1>6. \A r, s \in D : p[r] = p[s] => r = s
  BY <1>1, <1>2
<1>7. ASSUME NEW i \in D PROVE \E r \in D : p[r] = i
  <2>1. Cardinality(Before(es, i)) \in 0..(Len(es) - 1)
    BY BeforeIsFinite
  <2>2. Cardinality(Before(es, i)) + 1 \in D
    BY <1>1, <2>1
  <2>3. PICK r \in D : r = Cardinality(Before(es, i)) + 1
    BY <2>2
  <2>4. p[r] \in D /\ Cardinality(Before(es, p[r])) = Cardinality(Before(es, i))
    BY <1>1, <1>2, <2>1, <2>3
  <2>5. i \notin Before(es, p[r]) /\ p[r] \notin Before(es, i)
    BY <2>1, <2>4, BeforeGrows
  <2>6. es[i].time \in Int /\ es[p[r]].time \in Int
    BY <1>1, <2>4
  <2>7. p[r] = i
    BY <1>1, <2>4, <2>5, <2>6 DEF Before
  <2> QED
    BY <2>7
<1>8. Arranges(p, es, Sorted(es))
  BY <1>2, <1>3, <1>4, <1>6, <1>7 DEF Arranges
<1>9. Sorted(es) \in Seq(E)
  BY <1>1, <1>5, SeqDef
<1>10. Len(Sorted(es)) = Len(es)
  BY <1>1, <1>4, <1>9, Lists
<1> QED
  BY <1>8, <1>9, <1>10

\* sorted() and a slice of it keep the ids distinct and hold entries of the list.
LEMMA SlicesOfSorted ==
    ASSUME NEW es \in Seq(Entries), Unique(es), NEW m \in 0..Len(es)
    PROVE  /\ SubSeq(Sorted(es), 1, m) \in Seq(Entries)
           /\ Len(SubSeq(Sorted(es), 1, m)) = m
           /\ Unique(SubSeq(Sorted(es), 1, m))
<1> DEFINE s == Sorted(es)
           cut == SubSeq(s, 1, m)
<1>1. \A e \in Entries : e.time \in Int
  BY ShiftIsNatural, BoundsAreNatural DEF Entries, Times
<1>2. s \in Seq(Entries) /\ Len(s) = Len(es)
  BY <1>1, SortedArranges
<1>3. PICK p : Arranges(p, es, s)
  BY <1>1, SortedArranges
<1> HIDE DEF s
<1>4. /\ Len(es) \in Nat /\ DOMAIN es = 1..Len(es)
      /\ DOMAIN s = 1..Len(es) /\ \A i \in DOMAIN s : s[i] \in Entries
  BY <1>2, Lists
<1>5. m \in Nat /\ m <= Len(es) /\ 1..m \subseteq DOMAIN s
  BY <1>4
<1>6. \A i \in 1..m : s[i] \in Entries
  BY <1>4, <1>5
<1>7. /\ cut \in Seq(Entries)
      /\ Len(cut) = IF 1 <= m THEN m - 1 + 1 ELSE 0
      /\ \A i \in 1..(m - 1 + 1) : cut[i] = s[1 + i - 1]
  BY <1>5, <1>6, SubSeqProperties
<1>8. Len(cut) = m /\ \A i \in 1..m : cut[i] = s[i]
  BY <1>5, <1>7
<1> HIDE DEF cut
<1>9. DOMAIN cut = 1..m
  BY <1>7, <1>8, Lists
<1>10. Unique(cut)
  <2> SUFFICES ASSUME NEW i \in 1..m, NEW j \in 1..m, cut[i].id = cut[j].id
               PROVE  i = j
    BY <1>9 DEF Unique
  <2>1. i \in DOMAIN es /\ j \in DOMAIN es
    BY <1>4, <1>5
  <2>2. cut[i] = es[p[i]] /\ cut[j] = es[p[j]] /\ p[i] \in DOMAIN es /\ p[j] \in DOMAIN es
    BY <1>3, <1>8, <2>1 DEF Arranges
  <2>3. p[i] = p[j]
    BY <2>2 DEF Unique
  <2> QED
    BY <1>3, <2>1, <2>3 DEF Arranges
<1> QED
  BY <1>7, <1>8, <1>10 DEF cut, s

\* What is read back is the table in another order.
LEMMA SortedTable ==
    ASSUME NEW es \in Seq(Entries), Unique(es)
    PROVE  /\ Sorted(es) \in Seq(Entries) /\ Len(Sorted(es)) = Len(es)
           /\ Unique(Sorted(es))
           /\ \A i \in DOMAIN Sorted(es) : \E j \in DOMAIN es : es[j] = Sorted(es)[i]
<1>1. \A e \in Entries : e.time \in Int
  BY ShiftIsNatural, BoundsAreNatural DEF Entries, Times
<1>2. Sorted(es) \in Seq(Entries) /\ Len(Sorted(es)) = Len(es)
  BY <1>1, SortedArranges
<1>3. PICK p : Arranges(p, es, Sorted(es))
  BY <1>1, SortedArranges
<1>4. \A i \in DOMAIN Sorted(es) : \E j \in DOMAIN es : es[j] = Sorted(es)[i]
  BY <1>3 DEF Arranges
<1>5. Unique(Sorted(es))
  <2>1. ASSUME NEW i \in DOMAIN es, NEW j \in DOMAIN es,
               Sorted(es)[i].id = Sorted(es)[j].id
        PROVE  i = j
    <3>1. /\ Sorted(es)[i] = es[p[i]] /\ Sorted(es)[j] = es[p[j]]
          /\ p[i] \in DOMAIN es /\ p[j] \in DOMAIN es
      BY <1>3 DEF Arranges
    <3>2. p[i] = p[j]
      BY <2>1, <3>1 DEF Unique
    <3> QED
      BY <1>3, <3>2 DEF Arranges
  <2>2. DOMAIN Sorted(es) = DOMAIN es
    BY DEF Sorted
  <2> QED
    BY <2>1, <2>2 DEF Unique
<1> QED
  BY <1>2, <1>4, <1>5

\* Entries made stay among those made, lines written among those written.
LEMMA Growth ==
    ASSUME ids \in Nat, ids' \in Nat, ids' >= ids,
           written \in Nat, written' \in Nat, written' >= written
    PROVE  /\ \A list \in Seq(Entries) : list \in Seq(Entries')
           /\ \A list \in Seq(WrittenLines) : list \in Seq(WrittenLines')
<1>1. Entries \subseteq Entries'
  BY DEF Entries, Given, Times
<1>2. WrittenLines \subseteq WrittenLines'
  BY DEF WrittenLines
<1> QED
  BY <1>1, <1>2, SeqMonotonic

-----------------------------------------------------------------------------
(* Init *)

\* The first start satisfies the invariant.
LEMMA InvInit ==
    ASSUME Init PROVE Inv
<1>1. FileOK
  <2>1. clock = 0 /\ written = 0 /\ lastRead = 0
    BY DEF Init
  <2>2. clock \in 0..MaxTime /\ written \in 0..MaxEvents /\ lastRead \in 0..written
    BY <2>1, BoundsAreNatural
  <2>3. file \in Seq(WrittenLines)
    BY EmptySeq DEF Init
  <2>4. Len(file) <= written
    BY <2>1, EmptySeq DEF Init
  <2>5. truncated \in BOOLEAN /\ failed \in BOOLEAN
    BY DEF Init
  <2> QED
    BY <2>2, <2>3, <2>4, <2>5 DEF FileOK
<1>2. ParserOK
  BY BoundsAreNatural, EmptySeq, EmptyDictProperties DEF Init, ParserOK
<1>3. IdsOK
  BY BoundsAreNatural DEF Init, IdsOK
<1>4. ListsOK
  BY EmptySeq DEF Init, ListsOK, Unique
<1>5. RecentOK
  BY EmptyDictProperties DEF Init, RecentOK
<1>6. TableFollowsList
  BY DEF Init, TableFollowsList
<1> QED
  BY <1>1, <1>2, <1>3, <1>4, <1>5, <1>6 DEF Inv

-----------------------------------------------------------------------------
(* The steps of the environment *)

\* What follows from the invariant about the numbers of lines and entries.
LEMMA Counts ==
    ASSUME Inv
    PROVE  /\ written \in Nat /\ written <= MaxEvents /\ Len(file) \in Nat
           /\ position \in Nat /\ Len(unread) \in Nat /\ ids \in Nat
           /\ MaxEvents \in Nat /\ MaxStarts \in Nat /\ starts \in Nat
           /\ MaxTime \in Nat /\ clock \in Nat
<1> QED
  BY Lists, BoundsAreNatural DEF Inv, FileOK, ParserOK, IdsOK

\* What is noted of the last entries.
LEMMA MadeValues ==
    ASSUME Inv, NEW k \in DOMAIN made
    PROVE  k \in Keys /\ made[k].id \in Given /\ made[k].at \in 0..MaxTime
<1> DEFINE V == [id : Given, at : 0..MaxTime]
<1>1. made \in Dict(Keys, V)
  BY DEF Inv, RecentOK
<1> HIDE DEF V
<1>2. k \in Keys /\ made[k] \in V
  BY <1>1, DictValue
<1> QED
  BY <1>2 DEF V

\* The clock moves on; what was forgotten is longer ago then.
LEMMA TickKeeps ==
    ASSUME Inv, Tick PROVE Inv'
<1> USE DEF Tick, freeradius, parser, manager, ghosts
<1>1. FileOK'
  BY BoundsAreNatural DEF Inv, FileOK, WrittenLines
<1>2. ParserOK'
  BY DEF Inv, ParserOK, WrittenLines
<1>3. IdsOK'
  BY DEF Inv, IdsOK
<1>4. ListsOK'
  BY DEF Inv, ListsOK, Unique, Entries, Given
<1>5. RecentOK'
  <2>1. \A k \in DOMAIN made : made[k].at \in 0..MaxTime
    BY MadeValues
  <2>2. clock \in Int /\ clock' = clock + 1 /\ made' = made /\ recent' = recent
    BY Counts
  <2>3. \A k \in DOMAIN made' :
          IF k \in DOMAIN recent' THEN recent'[k] = made'[k].at
          ELSE clock' - made'[k].at > 2 * Window
    <3> SUFFICES ASSUME NEW k \in DOMAIN made, k \notin DOMAIN recent
                 PROVE  clock' - made[k].at > 2 * Window
      BY <2>2 DEF Inv, RecentOK
    <3>1. clock - made[k].at > 2 * Window /\ made[k].at \in Int
      BY <2>1 DEF Inv, RecentOK
    <3> QED
      BY <2>2, <3>1, LimitsArePositive
  <2> QED
    BY <2>3 DEF Inv, RecentOK, Given
<1>6. TableFollowsList'
  BY DEF Inv, TableFollowsList
<1> QED
  BY <1>1, <1>2, <1>3, <1>4, <1>5, <1>6 DEF Inv

\* A line is written: the others are still among those written.
LEMMA AuthenticateKeeps ==
    ASSUME Inv, NEW k \in Keys, Authenticate(k) PROVE Inv'
<1> USE DEF Authenticate, parser, manager, ghosts
<1>1. /\ written' = written + 1 /\ written' \in 0..MaxEvents
      /\ written \in Nat /\ Len(file) \in Nat
  BY Counts
<1>2. file \in Seq(WrittenLines') /\ unread \in Seq(WrittenLines')
  <2>1. file \in Seq(WrittenLines) /\ unread \in Seq(WrittenLines)
    BY DEF Inv, FileOK, ParserOK
  <2>2. WrittenLines \subseteq WrittenLines'
    BY <1>1 DEF WrittenLines
  <2> QED
    BY <2>1, <2>2, SeqMonotonic
<1>3. FileOK'
  <2>1. [n |-> written', key |-> k, at |-> clock] \in WrittenLines'
    BY <1>1 DEF Inv, FileOK, WrittenLines
  <2>2. file' \in Seq(WrittenLines') /\ Len(file') = Len(file) + 1
    BY <1>2, <2>1, AppendProperties
  <2> QED
    BY <1>1, <2>2 DEF Inv, FileOK
<1>4. ParserOK'
  BY <1>2 DEF Inv, ParserOK
<1>5. IdsOK'
  BY DEF Inv, IdsOK
<1>6. ListsOK'
  BY DEF Inv, ListsOK, Unique, Entries, Given
<1>7. RecentOK'
  BY DEF Inv, RecentOK, Given
<1>8. TableFollowsList'
  BY DEF Inv, TableFollowsList
<1> QED
  BY <1>3, <1>4, <1>5, <1>6, <1>7, <1>8 DEF Inv

\* The file is replaced by an empty one.
LEMMA RotateFileKeeps ==
    ASSUME Inv, RotateFile PROVE Inv'
<1> USE DEF RotateFile, parser, manager, ghosts
<1>1. FileOK'
  <2>1. file' \in Seq(WrittenLines') /\ Len(file') = 0
    BY EmptySeq
  <2> QED
    BY <2>1 DEF Inv, FileOK
<1>2. ParserOK'
  BY DEF Inv, ParserOK, WrittenLines
<1>3. IdsOK'
  BY DEF Inv, IdsOK
<1>4. ListsOK'
  BY DEF Inv, ListsOK, Unique, Entries, Given
<1>5. RecentOK'
  BY DEF Inv, RecentOK, Given
<1>6. TableFollowsList'
  BY DEF Inv, TableFollowsList
<1> QED
  BY <1>1, <1>2, <1>3, <1>4, <1>5, <1>6 DEF Inv

-----------------------------------------------------------------------------
(* The steps of the parser *)

\* What is read is what follows the position, and the position moves past it.
LEMMA ReadLinesKeeps ==
    ASSUME Inv, ReadLines PROVE Inv'
<1> USE DEF ReadLines, freeradius, manager, ghosts
<1>1. /\ file \in Seq(WrittenLines) /\ Len(file) \in Nat /\ Len(file) <= MaxEvents
      /\ position \in Nat /\ position <= MaxEvents /\ MaxEvents \in Nat
      /\ unread = <<>> /\ Len(unread) = 0
  <2>1. /\ file \in Seq(WrittenLines) /\ Len(file) <= written /\ unread = <<>>
        /\ position \in 0..MaxEvents
    BY DEF Inv, FileOK, ParserOK
  <2>2. Len(unread) = 0
    BY <2>1, EmptySeq
  <2> QED
    BY <2>1, <2>2, Counts
<1>2. \A i \in (position + 1)..Len(file) : file[i] \in WrittenLines
  BY <1>1, Lists
<1>3. /\ SubSeq(file, position + 1, Len(file)) \in Seq(WrittenLines)
      /\ Len(SubSeq(file, position + 1, Len(file))) =
            IF position + 1 <= Len(file) THEN Len(file) - (position + 1) + 1 ELSE 0
  <2>1. position + 1 \in Int /\ Len(file) \in Int
    BY <1>1
  <2> QED
    BY <1>2, <2>1, SubSeqProperties
<1>4. /\ unread' \in Seq(WrittenLines)
      /\ Len(unread') = IF position > Len(file) THEN 0 ELSE Len(file) - position
  BY <1>1, <1>3
<1>5. /\ position' \in 0..MaxEvents /\ Len(unread') <= position'
      /\ position' - Len(unread') = position
  BY <1>1, <1>4
<1>6. WrittenLines' = WrittenLines
  BY DEF WrittenLines
<1>7. FileOK'
  BY <1>6 DEF Inv, FileOK
<1>8. ParserOK'
  BY <1>4, <1>5, <1>6 DEF Inv, ParserOK
<1>9. IdsOK'
  <2>1. ids <= MaxEvents * (starts - 1) + position - Len(unread)
    BY DEF Inv, IdsOK
  <2>2. MaxEvents * (starts - 1) \in Int
    BY Counts
  <2>3. position' \in Int /\ Len(unread') \in Int
    BY <1>4, <1>5, Lists
  <2>4. ids <= MaxEvents * (starts - 1) + position
    BY <1>1, <2>1, <2>2
  <2>5. ids <= MaxEvents * (starts - 1) + position' - Len(unread')
    BY <1>1, <1>5, <2>2, <2>3, <2>4
  <2> QED
    BY <2>5 DEF Inv, IdsOK
<1>10. ListsOK'
  BY DEF Inv, ListsOK, Unique, Entries, Given
<1>11. RecentOK'
  BY DEF Inv, RecentOK, Given
<1>12. TableFollowsList'
  BY DEF Inv, TableFollowsList
<1> QED
  BY <1>7, <1>8, <1>9, <1>10, <1>11, <1>12 DEF Inv

\* The first line that was read, and what is left without it.
LEMMA NextLine ==
    ASSUME Inv, unread # <<>>
    PROVE  /\ Head(unread) \in WrittenLines
           /\ Head(unread).n \in 0..written
           /\ Head(unread).key \in Keys /\ Head(unread).at \in 0..MaxTime
           /\ Tail(unread) \in Seq(WrittenLines)
           /\ Len(Tail(unread)) = Len(unread) - 1
           /\ Len(unread) \in Nat
<1>1. unread \in Seq(WrittenLines)
  BY DEF Inv, ParserOK
<1>2. /\ Head(unread) \in WrittenLines /\ Tail(unread) \in Seq(WrittenLines)
      /\ Len(Tail(unread)) = Len(unread) - 1
  BY <1>1, HeadTailProperties
<1>3. Head(unread).n \in 1..written
  BY <1>2 DEF WrittenLines
<1>4. Head(unread).key \in Keys /\ Head(unread).at \in 0..MaxTime
  BY <1>2 DEF WrittenLines
<1> QED
  BY <1>2, <1>3, <1>4, Counts

\* A line without an entry.
LEMMA SuppressLineKeeps ==
    ASSUME Inv, SuppressLine PROVE Inv'
<1> USE DEF SuppressLine, freeradius, manager
<1>1. WrittenLines' = WrittenLines
  BY DEF WrittenLines
<1>2. FileOK'
  BY <1>1, NextLine DEF Inv, FileOK
<1>3. Len(unread') = Len(unread) - 1 /\ unread' \in Seq(WrittenLines) /\ Len(unread) \in Nat
  BY NextLine
<1>4. ParserOK'
  <2>1. Len(unread') <= position'
    BY <1>3, Counts DEF Inv, ParserOK
  <2> QED
    BY <1>1, <1>3, <2>1 DEF Inv, ParserOK
<1>5. IdsOK'
  <2>1. ids <= MaxEvents * (starts - 1) + position - Len(unread)
    BY DEF Inv, IdsOK
  <2>2. MaxEvents * (starts - 1) \in Int /\ position \in Int /\ ids \in Int
    BY Counts
  <2>3. ids <= MaxEvents * (starts - 1) + position - Len(unread')
    BY <1>3, <2>1, <2>2
  <2> QED
    BY <2>3 DEF Inv, IdsOK
<1>6. ListsOK'
  BY DEF Inv, ListsOK, Unique, Entries, Given
<1>7. RecentOK'
  BY DEF Inv, RecentOK, Given
<1>8. TableFollowsList'
  BY DEF Inv, TableFollowsList
<1> QED
  BY <1>2, <1>4, <1>5, <1>6, <1>7, <1>8 DEF Inv

\* A list stays without doubles when an entry with another id is appended.
LEMMA AppendUnique ==
    ASSUME NEW E, NEW list \in Seq(E), Unique(list), NEW e \in E,
           \A i \in DOMAIN list : list[i].id # e.id
    PROVE  /\ Append(list, e) \in Seq(E)
           /\ Len(Append(list, e)) = Len(list) + 1
           /\ DOMAIN Append(list, e) = 1..(Len(list) + 1)
           /\ \A i \in DOMAIN list : Append(list, e)[i] = list[i]
           /\ Unique(Append(list, e))
<1> DEFINE longer == Append(list, e)
<1>1. Len(list) \in Nat /\ DOMAIN list = 1..Len(list)
  BY Lists
<1>2. /\ longer \in Seq(E) /\ Len(longer) = Len(list) + 1
      /\ \A i \in 1..Len(list) : longer[i] = list[i]
      /\ longer[Len(list) + 1] = e
  BY AppendProperties
<1> HIDE DEF longer
<1>3. DOMAIN longer = 1..(Len(list) + 1)
  BY <1>2, Lists
<1>4. ASSUME NEW i \in DOMAIN longer, NEW j \in DOMAIN longer, longer[i].id = longer[j].id
      PROVE  i = j
  <2>1. i \in DOMAIN list \/ i = Len(list) + 1
    BY <1>1, <1>3
  <2>2. j \in DOMAIN list \/ j = Len(list) + 1
    BY <1>1, <1>3
  <2>3. CASE i \in DOMAIN list /\ j \in DOMAIN list
    BY <1>1, <1>2, <1>4, <2>3 DEF Unique
  <2>4. CASE i \in DOMAIN list /\ j = Len(list) + 1
    BY <1>1, <1>2, <1>4, <2>4
  <2>5. CASE i = Len(list) + 1 /\ j \in DOMAIN list
    BY <1>1, <1>2, <1>4, <2>5
  <2> QED
    BY <2>1, <2>2, <2>3, <2>4, <2>5
<1>5. Unique(longer)
  BY <1>4 DEF Unique
<1>6. \A i \in DOMAIN list : longer[i] = list[i]
  BY <1>1, <1>2
<1> QED
  BY <1>2, <1>3, <1>5, <1>6 DEF longer

\* The lists before an entry is made: typed, without doubles, of given ids.
LEMMA ListsNow ==
    ASSUME Inv
    PROVE  /\ logs \in Seq(Entries) /\ table \in Seq(Entries)
           /\ Unique(logs) /\ Unique(table)
           /\ Len(logs) \in Nat /\ Len(table) \in Nat
           /\ DOMAIN logs = 1..Len(logs) /\ DOMAIN table = 1..Len(table)
           /\ \A i \in DOMAIN logs : logs[i].id \in Given
           /\ \A i \in DOMAIN table : table[i].id \in Given
<1>1. /\ logs \in Seq(Entries) /\ table \in Seq(Entries)
      /\ Unique(logs) /\ Unique(table)
  BY DEF Inv, ListsOK
<1>2. /\ Len(logs) \in Nat /\ DOMAIN logs = 1..Len(logs)
      /\ \A i \in DOMAIN logs : logs[i] \in Entries
  BY <1>1, Lists
<1>3. /\ Len(table) \in Nat /\ DOMAIN table = 1..Len(table)
      /\ \A i \in DOMAIN table : table[i] \in Entries
  BY <1>1, Lists
<1> QED
  BY <1>1, <1>2, <1>3 DEF Entries

\* An entry is made of the next line: its id is new, and it is the key's last.
LEMMA CreateLogEntryKeeps ==
    ASSUME Inv, CreateLogEntry PROVE Inv'
<1> DEFINE line == Head(unread)
           new == [id |-> ids', key |-> line.key, time |-> clock]
<1>1. /\ at = "lines" /\ unread # <<>> /\ unread' = Tail(unread)
      /\ lastRead' = line.n /\ ids' = ids + 1
      /\ recent' = Put(recent, line.key, clock)
      /\ made' = Put(made, line.key, [id |-> ids', at |-> clock])
      /\ logs' = Append(logs, new)
      /\ entry' = [key |-> line.key, at |-> line.at] /\ at' = "rotate"
      /\ clock' = clock /\ file' = file /\ written' = written /\ truncated' = truncated
      /\ position' = position /\ starts' = starts
      /\ \/ table' = logs' /\ failed' = failed
         \/ ~failed /\ failed' = TRUE /\ table' = table
  BY DEF CreateLogEntry, SaveData, freeradius
<1>2. /\ line.n \in 0..written /\ line.key \in Keys /\ line.at \in 0..MaxTime
      /\ Tail(unread) \in Seq(WrittenLines)
      /\ Len(Tail(unread)) = Len(unread) - 1 /\ Len(unread) \in Nat
  BY <1>1, NextLine
<1>3. /\ ids \in Nat /\ ids' \in Nat /\ ids' >= ids /\ ids' \in Given'
      /\ Given \subseteq Given' /\ ids' \notin Given
  BY <1>1, Counts DEF Given
<1>4. WrittenLines' = WrittenLines
  BY <1>1 DEF WrittenLines
<1>5. clock \in 0..MaxTime /\ clock \in Times
  BY ShiftIsNatural, BoundsAreNatural DEF Inv, FileOK, Times
<1> HIDE DEF line
<1>6. FileOK'
  BY <1>1, <1>2, <1>4 DEF Inv, FileOK
<1>7. ParserOK'
  <2>1. recent' \in Dict(Keys, 0..MaxTime)
    BY <1>1, <1>2, <1>5, PutProperties DEF Inv, ParserOK
  <2>2. Len(unread') <= position' /\ position' \in 0..MaxEvents
    BY <1>1, <1>2, Counts DEF Inv, ParserOK
  <2>3. entry' \in [key : Keys, at : 0..MaxTime]
    BY <1>1, <1>2
  <2>4. unread' \in Seq(WrittenLines')
    BY <1>1, <1>2, <1>4
  <2> QED
    BY <1>1, <2>1, <2>2, <2>3, <2>4 DEF ParserOK
<1>8. IdsOK'
  <2>1. ids <= MaxEvents * (starts - 1) + position - Len(unread)
    BY DEF Inv, IdsOK
  <2>2. MaxEvents * (starts - 1) \in Int /\ position \in Int /\ ids \in Int
    BY Counts
  <2>3. ids + 1 <= MaxEvents * (starts - 1) + position - (Len(unread) - 1)
    BY <1>2, <2>1, <2>2
  <2>4. ids' <= MaxEvents * (starts' - 1) + position' - Len(unread')
    BY <1>1, <1>2, <2>3
  <2>5. starts' \in 1..MaxStarts
    BY <1>1 DEF Inv, IdsOK
  <2>6. ids' >= 1
    BY <1>1, <1>3
  <2> QED
    BY <1>3, <2>4, <2>5, <2>6 DEF IdsOK
<1>9. /\ logs \in Seq(Entries') /\ table \in Seq(Entries')
  BY <1>1, <1>3, Counts, Growth, ListsNow
<1>10. ListsOK'
  <2>1. new \in Entries' /\ new.id = ids'
    BY <1>2, <1>3, <1>5 DEF Entries, Times
  <2>2. \A i \in DOMAIN logs : logs[i].id # new.id
    BY <1>3, <2>1, ListsNow
  <2>3. Unique(logs)
    BY ListsNow
  <2> HIDE DEF new
  <2>4. logs' \in Seq(Entries') /\ Unique(logs')
    BY <1>1, <1>9, <2>1, <2>2, <2>3, AppendUnique
  <2>5. Unique(table)
    BY ListsNow
  <2> QED
    BY <1>1, <1>9, <2>4, <2>5 DEF ListsOK, Unique
<1>11. RecentOK'
  <2> DEFINE V == [id : Given', at : 0..MaxTime]
             last == [id |-> ids', at |-> clock]
  <2>1. made \in Dict(Keys, V)
    <3>1. made \in Dict(Keys, [id : Given, at : 0..MaxTime])
      BY DEF Inv, RecentOK
    <3>2. [id : Given, at : 0..MaxTime] \subseteq V
      BY <1>3
    <3> DEFINE U == [id : Given, at : 0..MaxTime]
    <3> HIDE DEF U, V
    <3>3. made \in Dict(Keys, U) /\ U \subseteq V
      BY <3>1, <3>2 DEF U
    <3>4. \A k \in DOMAIN made : made[k] \in V
      BY <3>3, DictValue
    <3> QED
      BY <3>3, <3>4, DictValues
  <2>2. last \in V /\ last.at = clock
    BY <1>3, <1>5
  <2> HIDE DEF V
  <2>3. made' = Put(made, line.key, last)
    BY <1>1
  <2> HIDE DEF last
  <2>4. made' \in Dict(Keys, V)
    BY <1>2, <2>1, <2>2, <2>3, PutProperties
  <2>5. ASSUME NEW k \in DOMAIN made'
        PROVE  IF k \in DOMAIN recent' THEN recent'[k] = made'[k].at
               ELSE clock' - made'[k].at > 2 * Window
    <3>1. CASE k = line.key
      BY <1>1, <2>2, <2>3, <3>1 DEF Put
    <3>2. CASE k # line.key
      <4>1. k \in DOMAIN made /\ made'[k] = made[k]
        BY <2>3, <2>5, <3>2 DEF Put
      <4>2. k \in DOMAIN recent' <=> k \in DOMAIN recent
        BY <1>1, <3>2 DEF Put
      <4>3. k \in DOMAIN recent => recent'[k] = recent[k]
        BY <1>1, <3>2 DEF Put
      <4>4. IF k \in DOMAIN recent THEN recent[k] = made[k].at
            ELSE clock - made[k].at > 2 * Window
        BY <4>1 DEF Inv, RecentOK
      <4> QED
        BY <1>1, <4>1, <4>2, <4>3, <4>4
    <3> QED
      BY <3>1, <3>2
  <2> QED
    BY <2>4, <2>5 DEF RecentOK, V
<1>12. TableFollowsList'
  BY <1>1 DEF TableFollowsList
<1> QED
  BY <1>6, <1>7, <1>8, <1>10, <1>11, <1>12 DEF Inv

\* The list is cut, and the table is the list if it was.
LEMMA RotateLogsKeeps ==
    ASSUME Inv, RotateLogs PROVE Inv' /\ Len(logs') <= MaxLogs
<1>1. /\ at = "rotate" /\ at' = "insert"
      /\ clock' = clock /\ file' = file /\ written' = written /\ truncated' = truncated
      /\ position' = position /\ unread' = unread /\ recent' = recent
      /\ entry' = entry /\ made' = made /\ ids' = ids /\ lastRead' = lastRead
      /\ starts' = starts
  BY DEF RotateLogs, freeradius, parser
<1>2. MaxLogs \in Nat
  BY LimitsArePositive
<1>3. /\ logs' \in Seq(Entries) /\ Unique(logs') /\ Len(logs') <= MaxLogs
      /\ \/ logs' = logs /\ table' = table /\ failed' = failed
         \/ table' = logs' /\ failed' = failed
         \/ ~failed /\ failed' = TRUE /\ table' = table
  <2>1. CASE Len(logs) > MaxLogs
    <3>1. MaxLogs \in 0..Len(logs)
      BY <1>2, <2>1, ListsNow
    <3>2. logs' = SubSeq(Sorted(logs), 1, MaxLogs) /\ SaveData(logs')
      BY <2>1 DEF RotateLogs
    <3>3. logs \in Seq(Entries) /\ Unique(logs)
      BY ListsNow
    <3>4. logs' \in Seq(Entries) /\ Unique(logs') /\ Len(logs') = MaxLogs
      BY <3>1, <3>2, <3>3, SlicesOfSorted
    <3> QED
      BY <1>2, <3>2, <3>4 DEF SaveData
  <2>2. CASE ~(Len(logs) > MaxLogs)
    <3>1. logs' = logs /\ table' = table /\ failed' = failed
      BY <2>2 DEF RotateLogs, manager
    <3> QED
      BY <1>2, <2>2, <3>1, ListsNow
  <2> QED
    BY <2>1, <2>2
<1>4. FileOK'
  BY <1>1, <1>3 DEF Inv, FileOK, WrittenLines
<1>5. ParserOK'
  BY <1>1 DEF Inv, ParserOK, WrittenLines
<1>6. IdsOK'
  BY <1>1 DEF Inv, IdsOK
<1>7. ListsOK'
  <2>1. Entries' = Entries
    BY <1>1 DEF Entries, Given, Times
  <2>2. table' \in Seq(Entries) /\ Unique(table')
    BY <1>3, ListsNow DEF Unique
  <2>3. ~failed' => table' = logs'
    BY <1>1, <1>3 DEF Inv, ListsOK
  <2> QED
    BY <1>1, <1>3, <2>1, <2>2, <2>3 DEF ListsOK, Unique
<1>8. RecentOK'
  BY <1>1 DEF Inv, RecentOK, Given
<1>9. TableFollowsList'
  BY <1>1 DEF TableFollowsList
<1> QED
  BY <1>3, <1>4, <1>5, <1>6, <1>7, <1>8, <1>9 DEF Inv

\* The newest entry gets its date, where it is by now; the row follows unless
\* it is there already.
LEMMA InsertLogKeeps ==
    ASSUME Inv, InsertLog PROVE Inv' /\ Len(logs') <= MaxLogs
<1> DEFINE dated == [id |-> ids, key |-> entry.key, time |-> ParsedTime(entry.at)]
<1>1. /\ at = "insert" /\ at' = "lines" /\ entry' = NoKey
      /\ logs' = [i \in DOMAIN logs |-> IF logs[i].id = ids THEN dated ELSE logs[i]]
      /\ \/ /\ table' = IF \E i \in DOMAIN table : table[i].id = dated.id
                        THEN table ELSE Append(table, dated)
            /\ failed' = failed
         \/ ~failed /\ failed' = TRUE /\ table' = table
      /\ clock' = clock /\ file' = file /\ written' = written /\ truncated' = truncated
      /\ position' = position /\ unread' = unread /\ recent' = recent
      /\ made' = made /\ ids' = ids /\ lastRead' = lastRead /\ starts' = starts
  BY DEF InsertLog, SaveLog, freeradius, parser
<1>2. dated \in Entries /\ dated.id = ids
  <2>1. entry \in [key : Keys, at : 0..MaxTime]
    BY <1>1 DEF Inv, ParserOK
  <2>2. entry.key \in Keys /\ entry.at \in 0..MaxTime
    BY <2>1
  <2>3. ParsedTime(entry.at) \in Times
    BY <2>2, ShiftIsNatural, BoundsAreNatural DEF ParsedTime, Times
  <2>4. ids \in Given
    BY <1>1, Counts DEF Inv, IdsOK, Given
  <2> QED
    BY <2>2, <2>3, <2>4 DEF Entries
<1> HIDE DEF dated
<1>3. /\ Len(logs) \in Nat /\ DOMAIN logs = 1..Len(logs)
      /\ \A i \in DOMAIN logs : logs[i] \in Entries
  BY ListsNow, Lists
<1>4. /\ DOMAIN logs' = DOMAIN logs
      /\ \A i \in DOMAIN logs : /\ logs'[i] \in Entries
                                /\ logs'[i].id = logs[i].id
                                /\ logs[i].id # ids => logs'[i] = logs[i]
  BY <1>1, <1>2, <1>3
<1>5. logs' \in Seq(Entries) /\ Len(logs') = Len(logs)
  <2>1. logs' \in [1..Len(logs) -> Entries]
    BY <1>1, <1>2, <1>3
  <2>2. logs' \in Seq(Entries)
    BY <1>3, <2>1, SeqDef
  <2> QED
    BY <1>3, <1>4, <2>2, Lists
<1>6. Unique(logs')
  <2>1. \A i, j \in DOMAIN logs : logs[i].id = logs[j].id => i = j
    BY ListsNow DEF Unique
  <2> QED
    BY <1>4, <2>1 DEF Unique
<1>7. /\ table' \in Seq(Entries) /\ Unique(table')
      /\ Len(table') <= Len(table) + 1
      /\ DOMAIN table \subseteq DOMAIN table'
      /\ \A i \in DOMAIN table : table'[i] = table[i]
  <2>1. CASE table' = table
    BY <2>1, ListsNow DEF Unique
  <2>2. CASE /\ \A i \in DOMAIN table : table[i].id # dated.id
             /\ table' = Append(table, dated)
    <3>1. table \in Seq(Entries) /\ Unique(table)
      BY ListsNow
    <3> DEFINE longer == Append(table, dated)
    <3>2. /\ longer \in Seq(Entries) /\ Len(longer) = Len(table) + 1
          /\ DOMAIN longer = 1..(Len(table) + 1)
          /\ \A i \in DOMAIN table : longer[i] = table[i]
          /\ Unique(longer)
      BY <1>2, <2>2, <3>1, AppendUnique
    <3> HIDE DEF longer
    <3>3. table' = longer
      BY <2>2 DEF longer
    <3>4. Unique(table')
      BY <3>2, <3>3 DEF Unique
    <3>5. DOMAIN table \subseteq DOMAIN table' /\ Len(table') <= Len(table) + 1
      BY <3>2, <3>3, ListsNow
    <3> QED
      BY <3>2, <3>3, <3>4, <3>5
  <2> QED
    BY <1>1, <2>1, <2>2
<1>8. Len(logs) <= MaxLogs /\ (~failed => table = logs)
  BY <1>1 DEF Inv, ListsOK
<1>9. FileOK'
  BY <1>1 DEF Inv, FileOK, WrittenLines
<1>10. ParserOK'
  BY <1>1 DEF Inv, ParserOK, WrittenLines
<1>11. IdsOK'
  BY <1>1 DEF Inv, IdsOK
<1>12. ListsOK'
  <2>1. Entries' = Entries
    BY <1>1 DEF Entries, Given, Times
  <2> QED
    BY <1>1, <1>5, <1>6, <1>7, <2>1 DEF ListsOK, Unique
<1>13. RecentOK'
  BY <1>1 DEF Inv, RecentOK, Given
<1>14. TableFollowsList'
  <2>1. SUFFICES ASSUME ~failed'
                 PROVE  /\ \A i \in DOMAIN logs' : \E j \in DOMAIN table' :
                              \/ table'[j] = logs'[i]
                              \/ table'[j].id = logs'[i].id /\ logs'[i].id = ids'
                        /\ Len(table') <= Len(logs') + 1
    BY DEF TableFollowsList
  <2>2. table = logs
    BY <1>1, <1>8, <2>1
  <2>3. Len(table') <= Len(logs') + 1
    BY <1>5, <1>7, <2>2
  <2>4. ASSUME NEW i \in DOMAIN logs'
        PROVE  /\ i \in DOMAIN table'
               /\ \/ table'[i] = logs'[i]
                  \/ table'[i].id = logs'[i].id /\ logs'[i].id = ids'
    <3>1. i \in DOMAIN logs /\ i \in DOMAIN table' /\ table'[i] = logs[i]
      BY <1>4, <1>7, <2>2
    <3>2. logs'[i].id = logs[i].id /\ (logs[i].id # ids => logs'[i] = logs[i])
      BY <1>4, <3>1
    <3> QED
      BY <1>1, <3>1, <3>2
  <2> QED
    BY <2>3, <2>4
<1> QED
  BY <1>5, <1>8, <1>9, <1>10, <1>11, <1>12, <1>13, <1>14 DEF Inv

\* What is forgotten is more than two windows old.
LEMMA CleanUpKeeps ==
    ASSUME Inv, CleanUp PROVE Inv'
<1>1. /\ at = "lines" /\ unread = <<>> /\ at' = "sleep" /\ entry' = entry
      /\ recent' = [k \in {k \in DOMAIN recent : clock - recent[k] <= 2 * Window} |->
                        recent[k]]
      /\ clock' = clock /\ file' = file /\ written' = written /\ truncated' = truncated
      /\ position' = position /\ unread' = unread /\ logs' = logs /\ table' = table
      /\ made' = made /\ ids' = ids /\ lastRead' = lastRead
      /\ starts' = starts /\ failed' = failed
  BY DEF CleanUp, freeradius, manager, ghosts
<1>2. /\ \A k \in DOMAIN recent : k \in Keys /\ recent[k] \in 0..MaxTime
  BY DictValue DEF Inv, ParserOK
<1>3. recent' \in Dict(Keys, 0..MaxTime)
  <2> DEFINE T == 0..MaxTime
             S == {k \in DOMAIN recent : clock - recent[k] <= 2 * Window}
  <2>1. S \subseteq Keys /\ \A k \in S : recent[k] \in T
    BY <1>2
  <2>2. recent' = [k \in S |-> recent[k]]
    BY <1>1
  <2> HIDE DEF S, T
  <2>3. recent' \in [DOMAIN recent' -> T] /\ DOMAIN recent' \subseteq Keys
    BY <2>1, <2>2
  <2>4. recent' \in Dict(Keys, T)
    BY <2>3, DictDef
  <2> QED
    BY <2>4 DEF T
<1>4. FileOK'
  BY <1>1 DEF Inv, FileOK, WrittenLines
<1>5. ParserOK'
  BY <1>1, <1>3 DEF Inv, ParserOK, WrittenLines
<1>6. IdsOK'
  BY <1>1 DEF Inv, IdsOK
<1>7. ListsOK'
  BY <1>1 DEF Inv, ListsOK, Unique, Entries, Given, Times
<1>8. RecentOK'
  <2>1. \A k \in DOMAIN made :
          IF k \in DOMAIN recent' THEN recent'[k] = made[k].at
          ELSE clock - made[k].at > 2 * Window
    <3> SUFFICES ASSUME NEW k \in DOMAIN made
                 PROVE  IF k \in DOMAIN recent' THEN recent'[k] = made[k].at
                        ELSE clock - made[k].at > 2 * Window
      OBVIOUS
    <3>1. IF k \in DOMAIN recent THEN recent[k] = made[k].at
          ELSE clock - made[k].at > 2 * Window
      BY DEF Inv, RecentOK
    <3>2. CASE k \in DOMAIN recent /\ clock - recent[k] <= 2 * Window
      BY <1>1, <3>1, <3>2
    <3>3. CASE k \in DOMAIN recent /\ ~(clock - recent[k] <= 2 * Window)
      <4>1. recent[k] = made[k].at /\ k \notin DOMAIN recent'
        BY <1>1, <3>1, <3>3
      <4>2. clock \in Int /\ recent[k] \in Int /\ 2 * Window \in Int
        BY <1>2, <3>3, Counts, LimitsArePositive
      <4>3. clock - recent[k] > 2 * Window
        BY <3>3, <4>2
      <4> QED
        BY <4>1, <4>3
    <3>4. CASE k \notin DOMAIN recent
      BY <1>1, <3>1, <3>4
    <3> QED
      BY <3>2, <3>3, <3>4
  <2>2. made \in Dict(Keys, [id : Given, at : 0..MaxTime])
    BY DEF Inv, RecentOK
  <2> QED
    BY <1>1, <2>1, <2>2 DEF RecentOK, Given
<1>9. TableFollowsList'
  BY <1>1 DEF Inv, TableFollowsList
<1> QED
  BY <1>4, <1>5, <1>6, <1>7, <1>8, <1>9 DEF Inv

\* The next start has what the table has, or nothing, and reads from the
\* beginning: it can make an entry of every line again.
LEMMA RestartKeeps ==
    ASSUME Inv, Restart PROVE Inv'
<1>1. /\ starts < MaxStarts /\ starts' = starts + 1
      /\ \/ logs' = Sorted(table) /\ failed' = failed
         \/ ~failed /\ failed' = TRUE /\ logs' = <<>>
      /\ position' = 0 /\ unread' = <<>> /\ recent' = EmptyDict /\ made' = EmptyDict
      /\ at' = "sleep" /\ entry' = NoKey
      /\ clock' = clock /\ file' = file /\ written' = written /\ truncated' = truncated
      /\ table' = table /\ ids' = ids /\ lastRead' = lastRead
  BY DEF Restart, LoadLogs, freeradius
<1>2. FileOK'
  BY <1>1 DEF Inv, FileOK, WrittenLines
<1>3. Len(unread') = 0
  BY <1>1, EmptySeq
<1>4. ParserOK'
  <2>1. recent' \in Dict(Keys, 0..MaxTime)
    BY <1>1, EmptyDictProperties
  <2>2. unread' \in Seq(WrittenLines')
    BY <1>1, EmptySeq
  <2>3. position' \in 0..MaxEvents /\ Len(unread') <= position'
    BY <1>1, <1>3, BoundsAreNatural
  <2> QED
    BY <1>1, <2>1, <2>2, <2>3 DEF ParserOK
<1>5. IdsOK'
  <2>1. /\ ids <= MaxEvents * (starts - 1) + position - Len(unread)
        /\ position <= MaxEvents
    BY DEF Inv, IdsOK, ParserOK
  <2>2. MaxEvents * (starts - 1) + MaxEvents = MaxEvents * starts
    BY Counts
  <2>3. MaxEvents * (starts - 1) \in Int /\ MaxEvents * starts \in Int
    BY Counts
  <2>4. position - Len(unread) <= MaxEvents
    BY <2>1, Counts
  <2>5. ids <= MaxEvents * starts
    BY <2>1, <2>2, <2>3, <2>4, Counts
  <2>6. starts' - 1 = starts /\ starts' \in 1..MaxStarts
    BY <1>1, Counts
  <2>7. MaxEvents * (starts' - 1) + position' - Len(unread') = MaxEvents * starts
    BY <1>1, <1>3, <2>3, <2>6
  <2>8. ids' <= MaxEvents * (starts' - 1) + position' - Len(unread')
    BY <1>1, <2>5, <2>7
  <2>9. ids' \in Nat
    BY <1>1, Counts
  <2> QED
    BY <1>1, <2>6, <2>8, <2>9 DEF IdsOK
<1>6. table \in Seq(Entries) /\ Unique(table)
  BY ListsNow
<1>7. /\ logs' \in Seq(Entries) /\ Unique(logs')
      /\ ~failed' => /\ Len(logs') = Len(table)
                     /\ \A i \in DOMAIN logs' : \E j \in DOMAIN table : table[j] = logs'[i]
  <2>1. CASE logs' = Sorted(table) /\ failed' = failed
    <3> DEFINE s == Sorted(table)
    <3>1. /\ s \in Seq(Entries) /\ Len(s) = Len(table) /\ Unique(s)
          /\ \A i \in DOMAIN s : \E j \in DOMAIN table : table[j] = s[i]
      BY <1>6, SortedTable
    <3> HIDE DEF s
    <3>2. logs' = s
      BY <2>1 DEF s
    <3> QED
      BY <3>1, <3>2 DEF Unique
  <2>2. CASE failed' = TRUE /\ logs' = <<>>
    <3>1. logs' \in Seq(Entries) /\ DOMAIN logs' = {}
      BY <2>2, EmptySeq
    <3> QED
      BY <2>2, <3>1 DEF Unique
  <2> QED
    BY <1>1, <2>1, <2>2
<1>8. ListsOK'
  <2>1. Entries' = Entries
    BY <1>1 DEF Entries, Given, Times
  <2> QED
    BY <1>1, <1>6, <1>7, <2>1 DEF ListsOK, Unique
<1>9. RecentOK'
  <2>1. /\ made' \in Dict(Keys, [id : Given', at : 0..MaxTime])
        /\ DOMAIN made' = {}
    BY <1>1, EmptyDictProperties
  <2> QED
    BY <2>1 DEF RecentOK
<1>10. TableFollowsList'
  <2>1. ~failed' => Len(table') <= Len(logs') + 1
    BY <1>1, <1>7, ListsNow
  <2>2. ~failed' => \A i \in DOMAIN logs' : \E j \in DOMAIN table' : table'[j] = logs'[i]
    BY <1>1, <1>7
  <2> QED
    BY <2>1, <2>2 DEF TableFollowsList
<1> QED
  BY <1>2, <1>4, <1>5, <1>8, <1>9, <1>10 DEF Inv

-----------------------------------------------------------------------------
(* The invariants and the action properties of every instance *)

\* A product grows with its second factor.
LEMMA ProductsGrow ==
    ASSUME NEW m \in Nat, NEW a \in Nat, NEW b \in Nat, a <= b
    PROVE  m * a <= m * b
<1>1. PICK c \in Nat : b = a + c
  <2>1. b - a \in Nat /\ b = a + (b - a)
    OBVIOUS
  <2> QED
    BY <2>1
<1>2. m * b = m * a + m * c
  BY <1>1
<1>3. m * c \in Nat /\ m * a \in Nat
  OBVIOUS
<1> QED
  BY <1>2, <1>3

\* Every step keeps the invariant.
LEMMA NextKeeps ==
    ASSUME Inv, [Next]_vars PROVE Inv'
<1>1. CASE Tick
  BY <1>1, TickKeeps
<1>2. ASSUME NEW k \in Keys, Authenticate(k) PROVE Inv'
  BY <1>2, AuthenticateKeeps
<1>3. CASE RotateFile
  BY <1>3, RotateFileKeeps
<1>4. CASE ReadLines
  BY <1>4, ReadLinesKeeps
<1>5. CASE SuppressLine
  BY <1>5, SuppressLineKeeps
<1>6. CASE CreateLogEntry
  BY <1>6, CreateLogEntryKeeps
<1>7. CASE RotateLogs
  BY <1>7, RotateLogsKeeps
<1>8. CASE InsertLog
  BY <1>8, InsertLogKeeps
<1>9. CASE CleanUp
  BY <1>9, CleanUpKeeps
<1>10. CASE Restart
  BY <1>10, RestartKeeps
<1>11. CASE UNCHANGED vars
  <2> USE <1>11 DEF vars, freeradius, parser, manager, ghosts
  <2>1. FileOK' /\ ParserOK'
    BY DEF Inv, FileOK, ParserOK, WrittenLines
  <2>2. IdsOK' /\ RecentOK'
    BY DEF Inv, IdsOK, RecentOK, Given
  <2>3. ListsOK' /\ TableFollowsList'
    BY DEF Inv, ListsOK, TableFollowsList, Unique, Entries, Given, Times
  <2> QED
    BY <2>1, <2>2, <2>3 DEF Inv
<1> QED
  BY <1>1, <1>2, <1>3, <1>4, <1>5, <1>6, <1>7, <1>8, <1>9, <1>10, <1>11 DEF Next, Parse

\* In every behaviour the invariant holds.
THEOREM PipelineInvariant == Spec => []Inv
<1>1. Init => Inv
  BY InvInit
<1>2. Inv /\ [Next]_vars => Inv'
  BY NextKeeps
<1> QED
  BY <1>1, <1>2, PTL DEF Spec

\* Type correctness: also that no id is twice in _logs or in auth_logs, however
\* saves fail, lists are cut and the process starts again.
THEOREM TypeCorrect == Spec => []TypeOK
<1>1. Inv => TypeOK
  <2> SUFFICES ASSUME Inv PROVE TypeOK
    OBVIOUS
  <2>1. ids \in 0..(MaxEvents * MaxStarts)
    <3>1. /\ ids <= MaxEvents * (starts - 1) + position - Len(unread)
          /\ position <= MaxEvents /\ starts <= MaxStarts
      BY Counts DEF Inv, IdsOK, ParserOK
    <3>2. MaxEvents * (starts - 1) + MaxEvents = MaxEvents * starts
      BY Counts
    <3>3. MaxEvents * starts <= MaxEvents * MaxStarts
      BY <3>1, Counts, ProductsGrow
    <3>4. /\ MaxEvents * (starts - 1) \in Int /\ MaxEvents * starts \in Int
          /\ MaxEvents * MaxStarts \in Int
      BY Counts
    <3>5. position - Len(unread) <= MaxEvents
      BY <3>1, Counts
    <3>6. ids <= MaxEvents * starts
      <4> DEFINE x == MaxEvents * (starts - 1)
                 y == MaxEvents * starts
      <4>1. x \in Int /\ y \in Int /\ x + MaxEvents = y /\ ids <= x + position - Len(unread)
        BY <3>1, <3>2, <3>4
      <4> HIDE DEF x, y
      <4>2. ids <= y
        BY <3>5, <4>1, Counts
      <4> QED
        BY <4>2 DEF y
    <3> QED
      BY <3>3, <3>4, <3>6, Counts
  <2>2. Entries \subseteq Log
    <3>1. Given \subseteq 1..(MaxEvents * MaxStarts)
      BY <2>1, Counts DEF Given
    <3> QED
      BY <3>1 DEF Entries, Log
  <2>3. logs \in Seq(Log) /\ table \in Seq(Log)
    BY <2>2, ListsNow, SeqMonotonic
  <2>4. \A list \in {logs, table} : \A i, j \in DOMAIN list :
            list[i].id = list[j].id => i = j
    BY ListsNow DEF Unique
  <2>5. WrittenLines \subseteq Lines
    BY Counts DEF WrittenLines, Lines, Events
  <2>6. file \in Seq(Lines) /\ unread \in Seq(Lines)
    BY <2>5, SeqMonotonic DEF Inv, FileOK, ParserOK
  <2>7. /\ entry \in [key : Keys, at : 0..MaxTime] \cup {NoKey}
        /\ entry = NoKey <=> at \in {"sleep", "lines"}
    BY NoKeyIsNoEntry DEF Inv, ParserOK
  <2>8. /\ clock \in 0..MaxTime /\ written \in 0..MaxEvents /\ lastRead \in 0..written
        /\ truncated \in BOOLEAN /\ failed \in BOOLEAN
    BY DEF Inv, FileOK
  <2>9. /\ position \in 0..MaxEvents /\ recent \in Dict(Keys, 0..MaxTime)
        /\ at \in {"sleep", "lines", "rotate", "insert"}
    BY DEF Inv, ParserOK
  <2> QED
    BY <2>1, <2>3, <2>4, <2>6, <2>7, <2>8, <2>9 DEF TypeOK
<1> QED
  BY <1>1, PipelineInvariant, PTL

\* As long as SQLite does not fail the table follows the list.
THEOREM ListsAgree == Spec => []TableFollowsList
<1>1. Inv => TableFollowsList
  BY DEF Inv
<1> QED
  BY <1>1, PipelineInvariant, PTL

\* Two entries that one process makes of one key are a window apart.
THEOREM WindowIsKept == Spec => EntriesAreSpaced
<1> DEFINE Spaced == \A k \in DOMAIN made \cap DOMAIN made' :
                        made'[k] # made[k] => made'[k].at - made[k].at >= Window
<1>1. Inv /\ [Next]_vars => [Spaced]_vars
  <2> SUFFICES ASSUME Inv, Next PROVE Spaced
    OBVIOUS
  <2>1. CASE CreateLogEntry
    <3> DEFINE line == Head(unread)
               last == [id |-> ids', at |-> clock]
    <3>1. made' = Put(made, line.key, last) /\ ~IsDuplicate(line.key)
      BY <2>1 DEF CreateLogEntry
    <3> HIDE DEF line
    <3> SUFFICES ASSUME NEW k \in DOMAIN made, made'[k] # made[k]
                 PROVE  made'[k].at - made[k].at >= Window
      OBVIOUS
    <3>2. k = line.key /\ made'[k].at = clock
      BY <3>1 DEF Put
    <3>3. /\ made[k].at \in 0..MaxTime /\ clock \in Nat
          /\ Window \in Nat /\ Window > 0
      BY MadeValues, Counts, LimitsArePositive
    <3>4. IF k \in DOMAIN recent THEN recent[k] = made[k].at
          ELSE clock - made[k].at > 2 * Window
      BY DEF Inv, RecentOK
    <3>5. CASE k \in DOMAIN recent
      <4>1. ~(clock - recent[k] < Window) /\ recent[k] = made[k].at
        BY <3>1, <3>2, <3>4, <3>5 DEF IsDuplicate
      <4> QED
        BY <3>2, <3>3, <4>1
    <3>6. CASE k \notin DOMAIN recent
      BY <3>2, <3>3, <3>4, <3>6
    <3> QED
      BY <3>5, <3>6
  <2>2. CASE Restart
    <3>1. DOMAIN made' = {}
      BY <2>2, EmptyDictProperties DEF Restart
    <3> QED
      BY <3>1
  <2>3. CASE \/ Tick \/ (\E k \in Keys : Authenticate(k)) \/ RotateFile \/ ReadLines
             \/ SuppressLine \/ RotateLogs \/ InsertLog \/ CleanUp
    <3>1. made' = made
      BY <2>3 DEF Tick, Authenticate, RotateFile, ReadLines, SuppressLine,
                  RotateLogs, InsertLog, CleanUp, ghosts
    <3> QED
      BY <3>1
  <2> QED
    BY <2>1, <2>2, <2>3 DEF Next, Parse
<1> QED
  BY <1>1, PipelineInvariant, PTL DEF Spec, EntriesAreSpaced

\* When an entry is finished the list is within its limit.
THEOREM ListIsBounded == Spec => RotationBounds
<1> DEFINE Bounded == at = "insert" /\ at' = "lines" => Len(logs') <= MaxLogs
<1>1. Inv /\ [Next]_vars => [Bounded]_vars
  <2> SUFFICES ASSUME Inv, Next, at = "insert", at' = "lines"
               PROVE  Len(logs') <= MaxLogs
    OBVIOUS
  <2>1. InsertLog
    BY DEF Next, Parse, Tick, Authenticate, RotateFile, ReadLines, SuppressLine,
           CreateLogEntry, RotateLogs, CleanUp, Restart
  <2> QED
    BY <2>1, InsertLogKeeps
<1> QED
  BY <1>1, PipelineInvariant, PTL DEF Spec, RotationBounds

=============================================================================
