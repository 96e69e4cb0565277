--------------------------- MODULE Capture_proofs ---------------------------
(***************************************************************************)
(* What is proved about market data on its way into the event lake and out *)
(* of it again.  The store loses no envelope while its process lives       *)
(* (AppendedIsKept), and polling stores a trade once for every process     *)
(* (TradesNotInflated).  The book that KalshiNormalizer replays from the   *)
(* stored envelopes is the venue's (ReplayedBookIsTheVenues), in four parts:*)
(* what the client's sequence cache remembers; how the messages on the wire*)
(* and the envelopes in the store continue one another; that the replay    *)
(* order leaves no stored envelope out; and that the normalizer, applied   *)
(* along that order, keeps up with the venue.                              *)
(***************************************************************************)
EXTENDS Capture, Lists_proofs

-----------------------------------------------------------------------------
(* The helpers that pick positions in order.                               *)

Increasing(f) == \A i, j \in DOMAIN f : i < j => f[i] < f[j]

(* A finite set of integers can be listed in increasing order.             *)
LEMMA CanBeListed ==
    ASSUME NEW S, IsFiniteSet(S), \A x \in S : x \in Int
    PROVE  \E f \in [1 .. Cardinality(S) -> S] : Increasing(f)
<1> DEFINE F == {T \in SUBSET S : ~\E f \in [1 .. Cardinality(T) -> T] : Increasing(f)}
<1>1. SUFFICES ASSUME F # {}
               PROVE  FALSE
  BY DEF F
<1>2. PICK T \in F : \A U \in F : U \subseteq T => U = T
  <2>1. F \subseteq SUBSET S
    OBVIOUS
  <2> HIDE DEF F
  <2> QED
    BY <1>1, <2>1, Minimal
<1>3. IsFiniteSet(T) /\ \A x \in T : x \in Int
  BY FS_Subset
<1>4. ASSUME T = {}
      PROVE  FALSE
  <2>1. Cardinality(T) = 0
    BY <1>4, FS_EmptySet
  <2> DEFINE f == [i \in 1 .. Cardinality(T) |-> 0]
  <2>2. f \in [1 .. Cardinality(T) -> T] /\ Increasing(f)
    BY <2>1 DEF Increasing
  <2> QED
    BY <2>2
<1>5. PICK m \in T : \A y \in T : y <= m
  BY <1>3, <1>4, Largest
<1> DEFINE U == T \ {m}
           n == Cardinality(U)
<1>6. /\ IsFiniteSet(U) /\ n \in Nat /\ Cardinality(T) = n + 1
  <2>1. IsFiniteSet(U) /\ n = Cardinality(T) - 1
    BY <1>3, <1>5, FS_RemoveElement
  <2>2. n \in Nat /\ Cardinality(T) \in Nat
    BY <1>3, <2>1, FS_CardinalityType
  <2> QED
    BY <2>1, <2>2
<1>7. PICK f \in [1 .. n -> U] : Increasing(f)
  <2>1. U \in SUBSET S /\ U # T /\ U \subseteq T
    BY <1>5
  <2> QED
    BY <2>1, <1>2
<1> HIDE DEF n
<1> DEFINE g == [i \in 1 .. n + 1 |-> IF i = n + 1 THEN m ELSE f[i]]
<1>8. g \in [1 .. n + 1 -> T]
  BY <1>5, <1>6, <1>7
<1>9. ASSUME NEW i \in 1 .. n + 1, NEW j \in 1 .. n + 1, i < j
      PROVE  g[i] < g[j]
  <2>1. i \in 1 .. n /\ g[i] = f[i] /\ f[i] \in U
    BY <1>6, <1>7, <1>9
  <2>2. CASE j = n + 1
    BY <2>1, <2>2, <1>3, <1>5
  <2>3. CASE j # n + 1
    <3>1. j \in 1 .. n /\ g[j] = f[j]
      BY <1>6, <2>3
    <3> QED
      BY <2>1, <3>1, <1>7, <1>9 DEF Increasing
  <2> QED
    BY <2>2, <2>3
<1>10. Increasing(g)
  BY <1>9 DEF Increasing
<1> HIDE DEF g
<1> QED
  BY <1>2, <1>6, <1>8, <1>10

(* in_order lists every member of its argument once, in increasing order.  *)
LEMMA InOrder ==
    ASSUME NEW S, IsFiniteSet(S), \A x \in S : x \in Int
    PROVE  /\ Cardinality(S) \in Nat
           /\ in_order(S) \in [1 .. Cardinality(S) -> S]
           /\ Increasing(in_order(S))
           /\ \A x \in S : \E k \in 1 .. Cardinality(S) : in_order(S)[k] = x
<1> DEFINE f == in_order(S)
           n == Cardinality(S)
<1>1. f \in [1 .. n -> S] /\ Increasing(f)
  BY CanBeListed DEF in_order, Increasing
<1>2. n \in Nat
  BY FS_CardinalityType
<1> HIDE DEF f, n
<1>3. IsInjective(f)
  <2>1. ASSUME NEW i \in 1 .. n, NEW j \in 1 .. n, i # j
        PROVE  f[i] # f[j]
    <3>1. f[i] \in Int /\ f[j] \in Int
      BY <1>1
    <3>2. CASE i < j
      BY <1>1, <3>1, <3>2 DEF Increasing
    <3>3. CASE j < i
      BY <1>1, <3>1, <3>3 DEF Increasing
    <3> QED
      BY <1>2, <2>1, <3>2, <3>3
  <2> QED
    BY <1>1, <2>1 DEF IsInjective
<1>4. f \in Injection(1 .. n, S)
  BY <1>1, <1>3 DEF Injection, IsInjective
<1>5. IsFiniteSet(1 .. n) /\ Cardinality(1 .. n) = n
  <2>1. IF 1 > n THEN Cardinality(1 .. n) = 0 ELSE Cardinality(1 .. n) = n - 1 + 1
    BY <1>2, FS_Interval
  <2> QED
    BY <1>2, <2>1, FS_Interval
<1>6. f \in Surjection(1 .. n, S)
  BY <1>4, <1>5, FS_Injection DEF n
<1> QED
  BY <1>1, <1>2, <1>6 DEF Surjection, f, n
(* select picks exactly the elements at its positions.                     *)
LEMMA Selected ==
    ASSUME NEW R, NEW s \in Seq(R), NEW P, P \subseteq DOMAIN s
    PROVE  /\ select(s, P) \in Seq(R)
           /\ DOMAIN select(s, P) = 1 .. Cardinality(P)
           /\ Len(select(s, P)) = Cardinality(P) /\ Cardinality(P) <= Len(s)
           /\ \A k \in DOMAIN select(s, P) : \E i \in P : select(s, P)[k] = s[i]
           /\ \A i \in P : \E k \in DOMAIN select(s, P) : select(s, P)[k] = s[i]
<1> DEFINE at == in_order(P)
           n == Cardinality(P)
<1>1. DOMAIN s = 1 .. Len(s) /\ Len(s) \in Nat
  OBVIOUS
<1>2. IsFiniteSet(DOMAIN s) /\ Cardinality(DOMAIN s) = Len(s)
  <2>1. /\ IsFiniteSet(1 .. Len(s))
        /\ IF 1 > Len(s) THEN Cardinality(1 .. Len(s)) = 0
           ELSE Cardinality(1 .. Len(s)) = Len(s) - 1 + 1
    BY <1>1, FS_Interval
  <2> QED
    BY <1>1, <2>1
<1>3. IsFiniteSet(P) /\ n <= Len(s)
  BY <1>2, FS_Subset
<1>4. \A x \in P : x \in Int
  BY <1>1
<1>5. /\ n \in Nat /\ at \in [1 .. n -> P]
      /\ \A x \in P : \E k \in 1 .. n : at[k] = x
  BY <1>3, <1>4, InOrder
<1> HIDE DEF at, n
<1> DEFINE t == [k \in DOMAIN at |-> s[at[k]]]
<1>6. t \in [1 .. n -> R] /\ \A k \in 1 .. n : t[k] = s[at[k]]
  BY <1>1, <1>5
<1>7. t \in Seq(R) /\ Len(t) = n /\ DOMAIN t = 1 .. n
  BY <1>5, <1>6
<1>8. select(s, P) = t
  BY DEF select, at
<1> HIDE DEF t
<1>9. \A k \in 1 .. n : \E i \in P : t[k] = s[i]
  BY <1>5, <1>6
<1>10. \A i \in P : \E k \in 1 .. n : t[k] = s[i]
  BY <1>5, <1>6
<1>11. n <= Len(s)
  BY <1>3
<1> QED
  BY <1>7, <1>8, <1>9, <1>10, <1>11 DEF n

(* The larger of one and a number.                                         *)
LEMMA MaxOfTwo ==
    ASSUME NEW x \in Int
    PROVE  Max({1, x}) = IF x >= 1 THEN x ELSE 1
<1>1. \E m \in {1, x} : \A y \in {1, x} : m >= y
  OBVIOUS
<1>2. Max({1, x}) \in {1, x} /\ \A y \in {1, x} : Max({1, x}) >= y
  BY <1>1 DEF Max
<1> QED
  BY <1>2
-----------------------------------------------------------------------------
(* What the state is made of.                                              *)

Channels == {"book", "orderbook_snapshot", "orderbook_delta", "trade"}
Sids == {BookSid, TradeSid}
Book == [Prices -> 0 .. MaxQuantity]
Content == Book \cup [price : Prices, delta : {-1, 1}] \cup Nat
Time == Nat \cup {None}

Message ==
    [channel : Channels, sid : Sids, ts : Time, seq : Nat, content : Content, truth : Book]

Row ==
    [channel : Channels, exchange_ts : Time, received_at : Nat, sequence : Time,
     content : Content, sequence_gap : BOOLEAN, id : Nat, truth : Book]

File == [torn : BOOLEAN, rows : Seq(Row)]

(* The envelopes of a buffer, and of files.                                *)
Elements(rows) == {rows[i] : i \in DOMAIN rows}
OnFile(fs) == UNION {Elements(fs[f].rows) : f \in DOMAIN fs}

OneDay(rows) ==
    \A i, j \in DOMAIN rows : day(rows[i].received_at) = day(rows[j].received_at)

-----------------------------------------------------------------------------
(* ParquetEventStore.                                                      *)

(* The positions of a buffer's rows of one day, and the first of each day. *)
SameDay(rows, i) == {j \in DOMAIN rows : day(rows[j].received_at) = day(rows[i].received_at)}
Firsts(rows) == {i \in DOMAIN rows : \A j \in SameDay(rows, i) : i <= j}

(* Every row has its day's first, and the firsts can be listed in order.   *)
LEMMA FirstsListed ==
    ASSUME NEW rows \in Seq(Row)
    PROVE  LET first == in_order(Firsts(rows))
               n == Cardinality(Firsts(rows))
           IN  /\ n \in Nat /\ first \in [1 .. n -> Firsts(rows)] /\ Increasing(first)
               /\ \A x \in Firsts(rows) : \E k \in 1 .. n : first[k] = x
               /\ \A j \in DOMAIN rows : \E i \in Firsts(rows) : i \in SameDay(rows, j)
<1> DEFINE of_day(i) == SameDay(rows, i)
           firsts == Firsts(rows)
<1>2. DOMAIN rows = 1 .. Len(rows) /\ Len(rows) \in Nat
  OBVIOUS
<1>3. IsFiniteSet(DOMAIN rows)
  BY <1>2, FS_Interval
<1>4. IsFiniteSet(firsts) /\ \A x \in firsts : x \in Int
  <2>1. firsts \subseteq DOMAIN rows
    BY DEF Firsts
  <2> HIDE DEF firsts
  <2>2. IsFiniteSet(firsts)
    BY <1>3, <2>1, FS_Subset
  <2>3. \A x \in firsts : x \in Int
    BY <1>2, <2>1
  <2> QED
    BY <2>2, <2>3
<1>6. ASSUME NEW j \in DOMAIN rows
      PROVE  /\ of_day(j) \subseteq DOMAIN rows /\ j \in of_day(j)
             /\ \A i \in of_day(j) : of_day(i) = of_day(j)
  BY DEF SameDay
<1>7. ASSUME NEW j \in DOMAIN rows
      PROVE  \E i \in firsts : i \in of_day(j)
  <2> DEFINE D == of_day(j)
             M == {0 - i : i \in D}
  <2>1. D \subseteq DOMAIN rows /\ j \in D
    BY <1>6
  <2>2. IsFiniteSet(D)
    BY <1>3, <2>1, FS_Subset
  <2>3. IsFiniteSet(M)
    <3>1. IsFiniteSet(0 - Len(rows) .. 0)
      BY <1>2, FS_Interval
    <3>2. \A i \in D : i \in 1 .. Len(rows)
      BY <1>2, <2>1
    <3> HIDE DEF D
    <3>3. M \subseteq 0 - Len(rows) .. 0
      BY <1>2, <3>2
    <3> QED
      BY <3>1, <3>3, FS_Subset
  <2>4. M # {} /\ \A x \in M : x \in Int
    BY <1>2, <2>1
  <2>5. PICK x \in M : \A y \in M : y <= x
    BY <2>3, <2>4, Largest
  <2>6. PICK i \in D : x = 0 - i
    OBVIOUS
  <2>7. \A y \in D : i <= y
    <3>1. \A y \in D : 0 - y <= 0 - i
      BY <2>5, <2>6
    <3> QED
      BY <3>1, <1>2, <2>1
  <2>8. of_day(i) = of_day(j)
    BY <1>6, <2>6
  <2> QED
    BY <2>1, <2>6, <2>7, <2>8 DEF Firsts
<1> HIDE DEF firsts
<1> QED
  BY <1>4, <1>7, InOrder DEF firsts

(* A row at one of the positions is selected.                              *)
LEMMA RowSelected ==
    ASSUME NEW rows \in Seq(Row), NEW P, P \subseteq DOMAIN rows, NEW i \in P
    PROVE  \E k \in DOMAIN select(rows, P) : select(rows, P)[k] = rows[i]
<1> DEFINE R == Row
<1>1. rows \in Seq(R)
  OBVIOUS
<1> HIDE DEF R
<1>2. \A x \in P : \E k \in DOMAIN select(rows, P) : select(rows, P)[k] = rows[x]
  BY <1>1, Selected
<1> QED
  BY <1>2

(* The partitions of a buffer are files of one day each, no longer than    *)
(* the buffer, and hold what the buffer holds.                             *)
LEMMA Partitioned ==
    ASSUME NEW rows \in Seq(Row)
    PROVE  /\ by_partition(rows) \in Seq(File)
           /\ \A k \in DOMAIN by_partition(rows) :
                LET part == by_partition(rows)[k].rows
                IN  /\ Len(part) <= Len(rows) /\ OneDay(part)
                    /\ \A i \in DOMAIN part : \E j \in DOMAIN rows : part[i] = rows[j]
           /\ \A j \in DOMAIN rows : \E k \in DOMAIN by_partition(rows) :
                \E i \in DOMAIN by_partition(rows)[k].rows :
                    by_partition(rows)[k].rows[i] = rows[j]
<1> DEFINE of_day(i) == SameDay(rows, i)
           firsts == Firsts(rows)
           first == in_order(firsts)
           n == Cardinality(firsts)
           parts == [k \in DOMAIN first |-> [torn |-> FALSE, rows |-> select(rows, of_day(first[k]))]]
<1>1. by_partition(rows) = parts
  BY DEF by_partition, SameDay, Firsts
<1>2. DOMAIN rows = 1 .. Len(rows) /\ Len(rows) \in Nat
  OBVIOUS
<1>4. /\ n \in Nat /\ first \in [1 .. n -> firsts]
      /\ \A x \in firsts : \E k \in 1 .. n : first[k] = x
  BY FirstsListed
<1>5. \A k \in 1 .. n : first[k] \in DOMAIN rows
  BY <1>4 DEF Firsts
<1>6. ASSUME NEW j \in DOMAIN rows
      PROVE  /\ of_day(j) \subseteq DOMAIN rows /\ j \in of_day(j)
             /\ \A i \in of_day(j) : of_day(i) = of_day(j)
  BY DEF SameDay
<1>7. ASSUME NEW j \in DOMAIN rows
      PROVE  \E i \in firsts : i \in of_day(j)
  BY FirstsListed
<1> HIDE DEF firsts, n
<1>8. ASSUME NEW k \in 1 .. n
      PROVE  /\ parts[k] \in File
             /\ LET part == parts[k].rows
                IN  /\ Len(part) <= Len(rows) /\ OneDay(part)
                    /\ \A i \in DOMAIN part : \E j \in DOMAIN rows : part[i] = rows[j]
  <2> DEFINE P == of_day(first[k])
             part == select(rows, P)
  <2>1. P \subseteq DOMAIN rows
    BY <1>5, <1>6
  <2>2. parts[k] = [torn |-> FALSE, rows |-> part]
    BY <1>4
  <2>3. \A i, j \in P : day(rows[i].received_at) = day(rows[j].received_at)
    BY DEF SameDay
  <2> HIDE DEF P, parts
  <2>4. /\ part \in Seq(Row) /\ Len(part) <= Len(rows)
        /\ \A i \in DOMAIN part : \E j \in P : part[i] = rows[j]
    BY <2>1, Selected
  <2>5. OneDay(part)
    BY <2>3, <2>4 DEF OneDay
  <2>6. parts[k] \in File
    BY <2>2, <2>4 DEF File
  <2> QED
    BY <2>1, <2>2, <2>4, <2>5, <2>6
<1>9. DOMAIN parts = 1 .. n
  BY <1>4
<1>10. parts \in Seq(File)
  <2>1. parts \in [1 .. n -> File]
    BY <1>8, <1>9
  <2> HIDE DEF parts
  <2> QED
    BY <2>1, <1>4
<1>11. ASSUME NEW j \in DOMAIN rows
       PROVE  \E k \in DOMAIN parts : \E i \in DOMAIN parts[k].rows : parts[k].rows[i] = rows[j]
  <2>1. PICK f \in firsts : f \in of_day(j)
    BY <1>7
  <2>2. PICK k \in 1 .. n : first[k] = f
    BY <1>4
  <2> DEFINE P == of_day(first[k])
  <2>3. j \in P /\ P \subseteq DOMAIN rows
    BY <1>6, <2>1, <2>2
  <2>4. parts[k].rows = select(rows, P)
    BY <1>4
  <2> HIDE DEF P, parts, first, of_day
  <2>5. \E i \in DOMAIN select(rows, P) : select(rows, P)[i] = rows[j]
    BY <2>3, RowSelected
  <2>6. PICK i \in DOMAIN select(rows, P) : select(rows, P)[i] = rows[j]
    BY <2>5
  <2>7. k \in DOMAIN parts /\ i \in DOMAIN parts[k].rows /\ parts[k].rows[i] = rows[j]
    BY <1>9, <2>4, <2>6
  <2> QED
    BY <2>7
<1> HIDE DEF parts
<1> QED
  BY <1>1, <1>8, <1>9, <1>10, <1>11

Short(fs) == \A f \in DOMAIN fs : Len(fs[f].rows) <= BatchSize
OneDayEach(fs) == \A f \in DOMAIN fs : OneDay(fs[f].rows)

(* Adding files to files adds their envelopes.                             *)
LEMMA FilesAdded ==
    ASSUME NEW fs \in Seq(File), NEW gs \in Seq(File)
    PROVE  /\ fs \o gs \in Seq(File)
           /\ OnFile(fs \o gs) = OnFile(fs) \cup OnFile(gs)
           /\ Short(fs) /\ Short(gs) => Short(fs \o gs)
           /\ OneDayEach(fs) /\ OneDayEach(gs) => OneDayEach(fs \o gs)
<1> DEFINE hs == fs \o gs
<1>1. /\ hs \in Seq(File) /\ Len(hs) = Len(fs) + Len(gs)
      /\ \A f \in DOMAIN fs : f \in DOMAIN hs /\ hs[f] = fs[f]
      /\ \A g \in DOMAIN gs : g + Len(fs) \in DOMAIN hs /\ hs[g + Len(fs)] = gs[g]
      /\ \A h \in DOMAIN hs : \/ h \in DOMAIN fs /\ hs[h] = fs[h]
                              \/ h - Len(fs) \in DOMAIN gs /\ hs[h] = gs[h - Len(fs)]
  OBVIOUS
<1> HIDE DEF hs
<1>2. OnFile(hs) \subseteq OnFile(fs) \cup OnFile(gs)
  <2>1. SUFFICES ASSUME NEW h \in DOMAIN hs
                 PROVE  Elements(hs[h].rows) \subseteq OnFile(fs) \cup OnFile(gs)
    BY DEF OnFile
  <2>2. CASE h \in DOMAIN fs /\ hs[h] = fs[h]
    BY <2>2 DEF OnFile
  <2>3. CASE h - Len(fs) \in DOMAIN gs /\ hs[h] = gs[h - Len(fs)]
    BY <2>3 DEF OnFile
  <2> QED
    BY <1>1, <2>1, <2>2, <2>3
<1>3. OnFile(fs) \subseteq OnFile(hs) /\ OnFile(gs) \subseteq OnFile(hs)
  BY <1>1 DEF OnFile
<1>4. Short(fs) /\ Short(gs) => Short(hs)
  BY <1>1 DEF Short
<1>5. OneDayEach(fs) /\ OneDayEach(gs) => OneDayEach(hs)
  BY <1>1 DEF OneDayEach
<1> QED
  BY <1>1, <1>2, <1>3, <1>4, <1>5 DEF hs

(* A flush that writes k partitions: nothing on file is lost, what is new  *)
(* comes from the buffer, and with every partition all of it is written.   *)
LEMMA Flushed ==
    ASSUME NEW rows \in Seq(Row), NEW k \in 0 .. Len(by_partition(rows)), Len(rows) <= BatchSize
    PROVE  LET parts == SubSeq(by_partition(rows), 1, k)
           IN  /\ parts \in Seq(File) /\ Short(parts) /\ OneDayEach(parts)
               /\ OnFile(parts) \subseteq Elements(rows)
               /\ k = Len(by_partition(rows)) => OnFile(parts) = Elements(rows)
<1> DEFINE all == by_partition(rows)
           parts == SubSeq(all, 1, k)
<1>1. /\ all \in Seq(File)
      /\ \A p \in DOMAIN all :
            /\ Len(all[p].rows) <= Len(rows) /\ OneDay(all[p].rows)
            /\ \A i \in DOMAIN all[p].rows : \E j \in DOMAIN rows : all[p].rows[i] = rows[j]
      /\ \A j \in DOMAIN rows : \E p \in DOMAIN all : \E i \in DOMAIN all[p].rows :
            all[p].rows[i] = rows[j]
  BY Partitioned
<1> HIDE DEF all
<1>2. /\ parts \in Seq(File)
      /\ \A p \in DOMAIN parts : p \in DOMAIN all /\ parts[p] = all[p]
      /\ k = Len(all) => parts = all
  BY <1>1 DEF all
<1>3. \A p \in DOMAIN all : Len(all[p].rows) \in Nat
  <2>1. \A p \in DOMAIN all : all[p] \in File
    BY <1>1
  <2>2. \A p \in DOMAIN all : all[p].rows \in Seq(Row)
    BY <2>1 DEF File
  <2> QED
    BY <2>2
<1> HIDE DEF parts
<1>4. Short(parts)
  BY <1>1, <1>2, <1>3, CacheAssumption DEF Short
<1>5. OneDayEach(parts)
  BY <1>1, <1>2 DEF OneDayEach
<1>6. OnFile(parts) \subseteq Elements(rows)
  BY <1>1, <1>2 DEF OnFile, Elements
<1>7. k = Len(all) => Elements(rows) \subseteq OnFile(parts)
  BY <1>1, <1>2 DEF OnFile, Elements
<1> QED
  BY <1>2, <1>4, <1>5, <1>6, <1>7 DEF parts, all

FilesOK == files \in Seq(File) /\ Short(files) /\ OneDayEach(files)

(* flush keeps what is on file, and writes nothing but the buffer.         *)
LEMMA FlushKeeps ==
    ASSUME FilesOK, NEW rows \in Seq(Row), Len(rows) <= BatchSize, NEW k, flush(rows, k)
    PROVE  /\ FilesOK'
           /\ OnFile(files) \subseteq OnFile(files')
           /\ OnFile(files') \subseteq OnFile(files) \cup Elements(rows)
           /\ after_flush(rows, k) \in {<<>>, rows}
           /\ flush_raises(rows, k) => after_flush(rows, k) = rows
           /\ ~flush_raises(rows, k) => after_flush(rows, k) = <<>>
           /\ Elements(rows) \subseteq Elements(after_flush(rows, k)) \cup OnFile(files')
<1> DEFINE all == by_partition(rows)
           parts == SubSeq(all, 1, k)
<1>1. k \in 0 .. Len(all) /\ files' = files \o parts
  BY DEF flush
<1>2. all \in Seq(File)
  BY Partitioned
<1>3. /\ parts \in Seq(File) /\ Short(parts) /\ OneDayEach(parts)
      /\ OnFile(parts) \subseteq Elements(rows)
      /\ k = Len(all) => OnFile(parts) = Elements(rows)
  BY <1>1, Flushed
<1>4. after_flush(rows, k) = IF k = Len(all) THEN <<>> ELSE rows
  BY DEF after_flush
<1>5. flush_raises(rows, k) <=> k < Len(all)
  BY DEF flush_raises
<1> HIDE DEF parts, all
<1>6. /\ files \o parts \in Seq(File) /\ Short(files \o parts) /\ OneDayEach(files \o parts)
      /\ OnFile(files \o parts) = OnFile(files) \cup OnFile(parts)
  BY <1>3, FilesAdded DEF FilesOK
<1>7. FilesOK'
  BY <1>1, <1>6 DEF FilesOK
<1>8. Len(all) \in Nat
  BY <1>2
<1> QED
  BY <1>1, <1>3, <1>4, <1>5, <1>6, <1>7, <1>8

(* append, with the flush of a full buffer, does as well, and unless that  *)
(* flush raises it leaves room for one more.                               *)
LEMMA AppendKeeps ==
    ASSUME FilesOK, NEW rows \in Seq(Row), Len(rows) <= BatchSize, NEW k, append(rows, k)
    PROVE  /\ FilesOK'
           /\ OnFile(files) \subseteq OnFile(files')
           /\ OnFile(files') \subseteq OnFile(files) \cup Elements(rows)
           /\ after_append(rows, k) \in {<<>>, rows}
           /\ append_raises(rows, k) => after_append(rows, k) = rows
           /\ ~append_raises(rows, k) => Len(after_append(rows, k)) < BatchSize
           /\ Elements(rows) \subseteq Elements(after_append(rows, k)) \cup OnFile(files')
<1>1. CASE is_full(rows)
  <2>1. flush(rows, k) /\ after_append(rows, k) = after_flush(rows, k)
    BY <1>1 DEF append, after_append
  <2>2. append_raises(rows, k) <=> flush_raises(rows, k)
    BY <1>1 DEF append_raises
  <2>3. Len(<<>>) < BatchSize
    BY CacheAssumption
  <2> QED
    BY <2>1, <2>2, <2>3, FlushKeeps
<1>2. CASE ~is_full(rows)
  <2>1. UNCHANGED files /\ after_append(rows, k) = rows /\ ~append_raises(rows, k)
    BY <1>2 DEF append, after_append, append_raises
  <2>2. Len(rows) < BatchSize
    BY <1>2, CacheAssumption DEF is_full
  <2>3. FilesOK'
    BY <2>1 DEF FilesOK
  <2> QED
    BY <2>1, <2>2, <2>3
<1> QED
  BY <1>1, <1>2
-----------------------------------------------------------------------------
(* The inductive invariant behind CaptureTypeOK and AppendedIsKept.        *)

Phases == {"down", "discover", "session", "end session", "last flush", "poll", "trades",
           "append trades"}

(* The loop of a command is where that command can be.                     *)
ControlInv ==
    /\ command \in Commands
    /\ phase \in Phases
    /\ phase \in {"discover", "end session", "last flush"} => command = "capture_weather"
    /\ phase = "session" => command # "capture_rest"
    /\ phase \in {"poll", "trades", "append trades"} => command = "capture_rest"

(* The connection carries messages, and only a session has one.            *)
LinkInv ==
    /\ up \in BOOLEAN
    /\ up => phase = "session"
    /\ wire \in Seq(Message)
    /\ seq \in [Sids -> Nat]
    /\ last_seq \in Seq([sid : Sids, seq : Nat])
    /\ Len(last_seq) <= MaxSequenceCache

VenueInv ==
    /\ now \in Nat
    /\ ladder \in Book
    /\ trades \in Nat

(* A buffer that is full is about to be flushed; no process, no buffer.    *)
BufferInv ==
    /\ received \in Nat
    /\ answer \in Seq(Nat)
    /\ buffer \in Seq(Row)
    /\ Len(buffer) <= BatchSize
    /\ Len(buffer) < BatchSize \/ phase \in {"end session", "last flush"}
    /\ phase = "down" => buffer = <<>>

StoreInv ==
    /\ ControlInv
    /\ LinkInv
    /\ VenueInv
    /\ BufferInv
    /\ FilesOK
    /\ AppendedIsKept

(* The identities of rows, and of what is on file.                         *)
LEMMA IdsOfElements ==
    ASSUME NEW rows, NEW fs
    PROVE  /\ ids(rows) = {r.id : r \in Elements(rows)}
           /\ ids_on_file(fs) = {r.id : r \in OnFile(fs)}
<1>1. \A some : ids(some) = {r.id : r \in Elements(some)}
  BY DEF ids, Elements
<1>2. ids_on_file(fs) = UNION {{r.id : r \in Elements(fs[f].rows)} : f \in DOMAIN fs}
  BY <1>1 DEF ids_on_file
<1> QED
  BY <1>1, <1>2 DEF OnFile

(* An envelope appended is the last of its buffer.                         *)
LEMMA Appended ==
    ASSUME NEW rows \in Seq(Row), NEW r \in Row
    PROVE  /\ Append(rows, r) \in Seq(Row)
           /\ Len(Append(rows, r)) = Len(rows) + 1
           /\ Elements(Append(rows, r)) = Elements(rows) \cup {r}
<1> DEFINE more == Append(rows, r)
<1>1. /\ more \in Seq(Row) /\ Len(more) = Len(rows) + 1
      /\ \A i \in DOMAIN rows : i \in DOMAIN more /\ more[i] = rows[i]
      /\ Len(more) \in DOMAIN more /\ more[Len(more)] = r
      /\ \A i \in DOMAIN more : i \in DOMAIN rows \/ i = Len(more)
  OBVIOUS
<1> HIDE DEF more
<1>2. Elements(more) \subseteq Elements(rows) \cup {r}
  BY <1>1 DEF Elements
<1>3. Elements(rows) \cup {r} \subseteq Elements(more)
  BY <1>1 DEF Elements
<1> QED
  BY <1>1, <1>2, <1>3 DEF more

(* What an envelope is made of.                                            *)
LEMMA EnvelopeType ==
    ASSUME StoreInv
    PROVE  /\ \A m \in Message : message_to_envelope(m) \in Row
           /\ rest_envelope("book", ladder) \in Row
           /\ \A t \in Nat : rest_envelope("trade", t) \in Row
<1>1. now \in Nat /\ received + 1 \in Nat /\ ladder \in Book
  <2>1. now \in Nat /\ ladder \in Book
    BY DEF StoreInv, VenueInv
  <2>2. received \in Nat
    BY DEF StoreInv, BufferInv
  <2>3. received + 1 \in Nat
    BY <2>2
  <2> QED
    BY <2>1, <2>3
<1>2. ASSUME NEW m \in Message
      PROVE  message_to_envelope(m) \in Row
  <2>1. /\ m.channel \in Channels /\ m.ts \in Time /\ m.seq \in Time /\ m.content \in Content
        /\ m.truth \in Book
    BY DEF Message, Time
  <2>2. (expected(m.sid) \notin {None, m.seq}) \in BOOLEAN
    OBVIOUS
  <2> QED
    BY <1>1, <2>1, <2>2 DEF message_to_envelope, Row
<1>3. None \in Time
  BY DEF Time
<1>4. rest_envelope("book", ladder) \in Row
  BY <1>1, <1>3 DEF rest_envelope, Row, Channels, Content
<1>5. \A t \in Nat : rest_envelope("trade", t) \in Row
  BY <1>1, <1>3 DEF rest_envelope, Row, Channels, Content
<1> QED
  BY <1>2, <1>4, <1>5

(* The sequence cache stays within its limit.                              *)
LEMMA Remembered ==
    ASSUME LinkInv, NEW sid \in Sids, NEW n \in Nat
    PROVE  /\ remember_sequence(sid, n) \in Seq([sid : Sids, seq : Nat])
           /\ Len(remember_sequence(sid, n)) <= MaxSequenceCache
<1> DEFINE E == [sid : Sids, seq : Nat]
           others == {k \in DOMAIN last_seq : last_seq[k].sid # sid}
           kept == select(last_seq, others)
           later == Append(kept, [sid |-> sid, seq |-> n])
           from == Max({1, Len(later) - MaxSequenceCache + 1})
<1>1. MaxSequenceCache \in Nat /\ MaxSequenceCache >= 1
  <2> DEFINE one == {BookSid}
             both == {BookSid, TradeSid}
  <2>1. IsFiniteSet(one) /\ Cardinality(one) = 1
    BY FS_Singleton
  <2>2. both = one \cup {TradeSid} /\ one \subseteq both
    OBVIOUS
  <2> HIDE DEF one, both
  <2>3. IsFiniteSet(both)
    BY <2>1, <2>2, FS_AddElement
  <2>4. Cardinality(one) <= Cardinality(both) /\ Cardinality(both) \in Nat
    BY <2>2, <2>3, FS_Subset, FS_CardinalityType
  <2>5. MaxSequenceCache \in Nat /\ MaxSequenceCache >= Cardinality(both)
    BY CacheAssumption DEF both
  <2> QED
    BY <2>1, <2>4, <2>5
<1>2. last_seq \in Seq(E) /\ others \subseteq DOMAIN last_seq
  BY DEF LinkInv
<1> HIDE DEF others
<1>3. kept \in Seq(E)
  <2> DEFINE s == last_seq
  <2>1. s \in Seq(E) /\ others \subseteq DOMAIN s
    BY <1>2
  <2> HIDE DEF s, E
  <2>2. select(s, others) \in Seq(E)
    BY <2>1, Selected
  <2> QED
    BY <2>2 DEF s
<1> HIDE DEF kept
<1>4. later \in Seq(E) /\ Len(later) \in Nat
  BY <1>3
<1>5. remember_sequence(sid, n) = SubSeq(later, from, Len(later))
  BY DEF remember_sequence, kept, others
<1> HIDE DEF later, E
<1>6. from = IF Len(later) - MaxSequenceCache + 1 >= 1 THEN Len(later) - MaxSequenceCache + 1 ELSE 1
  BY <1>1, <1>4, MaxOfTwo
<1>7. from \in 1 .. Len(later) + 1 /\ Len(later) - from + 1 <= MaxSequenceCache
  BY <1>1, <1>4, <1>6
<1>8. /\ SubSeq(later, from, Len(later)) \in Seq(E)
      /\ Len(SubSeq(later, from, Len(later))) <= MaxSequenceCache
  <2> HIDE DEF from
  <2> QED
    BY <1>1, <1>4, <1>7
<1> QED
  BY <1>5, <1>8 DEF E

(* A process that ends leaves nothing behind that counts as kept but what  *)
(* is on file.                                                             *)
LEMMA TakenDown ==
    ASSUME NEW rows, take_down(rows), command' \in Commands, FilesOK', VenueInv', seq' \in [Sids -> Nat], received' \in Nat,
           \A id \in 1 .. received' : id \notin forgotten =>
               id \in ids(rows) \cup ids_on_file(files')
    PROVE  StoreInv'
<1>1. /\ phase' = "down" /\ buffer' = <<>> /\ answer' = <<>>
      /\ up' = FALSE /\ wire' = <<>> /\ last_seq' = <<>>
      /\ forgotten' = forgotten \cup (ids(rows) \ ids_on_file(files'))
  BY DEF take_down
<1>2. BatchSize \in Nat /\ BatchSize > 0 /\ MaxSequenceCache \in Nat
  BY CacheAssumption
<1>3. LinkInv'
  <2>1. wire' \in Seq(Message)
    BY <1>1
  <2>2. last_seq' \in Seq([sid : Sids, seq : Nat]) /\ Len(last_seq') = 0
    BY <1>1
  <2>3. up' \in BOOLEAN /\ (up' => phase' = "session")
    BY <1>1
  <2> QED
    BY <1>2, <2>1, <2>2, <2>3 DEF LinkInv
<1>4. BufferInv'
  BY <1>1, <1>2 DEF BufferInv
<1>5. AppendedIsKept'
  <2>1. \A id \in 1 .. received' : id \notin forgotten' => id \in ids_on_file(files')
    BY <1>1
  <2>2. AppendedIsKept' <=>
          \A id \in 1 .. received' : id \notin forgotten' =>
              id \in ids(buffer') \cup ids_on_file(files')
    BY DEF AppendedIsKept, ids, ids_on_file
  <2> HIDE <1>1
  <2> QED
    BY <2>1, <2>2
<1>6. ControlInv'
  BY <1>1 DEF ControlInv, Phases
<1> QED
  BY <1>3, <1>4, <1>5, <1>6 DEF StoreInv

(* What the store is left with when an envelope is appended.               *)
LEMMA AppendStep ==
    ASSUME StoreInv, NEW r \in Row, r.id = received + 1, received' = received + 1,
           Len(buffer) < BatchSize, NEW k, append(Append(buffer, r), k)
    PROVE  /\ FilesOK'
           /\ after_append(Append(buffer, r), k) \in Seq(Row)
           /\ Len(after_append(Append(buffer, r), k)) <= BatchSize
           /\ ~append_raises(Append(buffer, r), k) =>
                 Len(after_append(Append(buffer, r), k)) < BatchSize
           /\ received' \in Nat
           /\ \A id \in 1 .. received' : id \notin forgotten =>
                 id \in ids(after_append(Append(buffer, r), k)) \cup ids_on_file(files')
           /\ \A id \in 1 .. received' : id \notin forgotten =>
                 id \in ids(Append(buffer, r)) \cup ids_on_file(files')
<1> DEFINE rows == Append(buffer, r)
           left == after_append(rows, k)
<1>1. /\ buffer \in Seq(Row) /\ received \in Nat /\ FilesOK
      /\ \A id \in 1 .. received : id \notin forgotten => id \in ids(buffer) \cup ids_on_file(files)
  BY DEF StoreInv, BufferInv, AppendedIsKept
<1>2. /\ rows \in Seq(Row) /\ Len(rows) = Len(buffer) + 1
      /\ Elements(rows) = Elements(buffer) \cup {r}
  <2> DEFINE b == buffer
  <2>1. b \in Seq(Row)
    BY <1>1
  <2> HIDE DEF b
  <2>2. /\ Append(b, r) \in Seq(Row) /\ Len(Append(b, r)) = Len(b) + 1
        /\ Elements(Append(b, r)) = Elements(b) \cup {r}
    BY <2>1, Appended
  <2> QED
    BY <2>2 DEF b
<1>3. Len(rows) <= BatchSize
  BY <1>1, <1>2, CacheAssumption
<1> HIDE DEF rows
<1>4. /\ FilesOK'
      /\ OnFile(files) \subseteq OnFile(files')
      /\ left \in {<<>>, rows}
      /\ ~append_raises(rows, k) => Len(left) < BatchSize
      /\ Elements(rows) \subseteq Elements(left) \cup OnFile(files')
  BY <1>1, <1>2, <1>3, AppendKeeps DEF rows
<1> HIDE DEF left
<1>5. left \in Seq(Row) /\ Len(left) <= BatchSize
  <2>1. <<>> \in Seq(Row) /\ Len(<<>>) = 0 /\ 0 <= BatchSize
    BY CacheAssumption
  <2> QED
    BY <1>2, <1>3, <1>4, <2>1
<1>6. /\ ids(rows) = ids(buffer) \cup {received + 1}
      /\ ids_on_file(files) \subseteq ids_on_file(files')
      /\ ids(rows) \subseteq ids(left) \cup ids_on_file(files')
  <2>1. /\ ids(rows) = {x.id : x \in Elements(rows)}
        /\ ids(buffer) = {x.id : x \in Elements(buffer)}
        /\ ids(left) = {x.id : x \in Elements(left)}
        /\ ids_on_file(files) = {x.id : x \in OnFile(files)}
        /\ ids_on_file(files') = {x.id : x \in OnFile(files')}
    BY IdsOfElements
  <2> QED
    BY <1>2, <1>4, <2>1
<1>7. /\ received' \in Nat
      /\ \A id \in 1 .. received' : id \in 1 .. received \/ id = received + 1
  BY <1>1
<1>8. /\ \A id \in 1 .. received' : id \notin forgotten => id \in ids(left) \cup ids_on_file(files')
      /\ \A id \in 1 .. received' : id \notin forgotten => id \in ids(rows) \cup ids_on_file(files')
  BY <1>1, <1>6, <1>7
<1> QED
  BY <1>4, <1>5, <1>7, <1>8 DEF rows, left

(* The same, when the buffer is flushed.                                   *)
LEMMA FlushStep ==
    ASSUME StoreInv, NEW k, flush(buffer, k)
    PROVE  /\ FilesOK'
           /\ after_flush(buffer, k) \in Seq(Row)
           /\ Len(after_flush(buffer, k)) <= BatchSize
           /\ ~flush_raises(buffer, k) => after_flush(buffer, k) = <<>>
           /\ \A id \in 1 .. received : id \notin forgotten =>
                 id \in ids(after_flush(buffer, k)) \cup ids_on_file(files')
           /\ \A id \in 1 .. received : id \notin forgotten =>
                 id \in ids(buffer) \cup ids_on_file(files')
<1> DEFINE rows == buffer
           left == after_flush(rows, k)
<1>1. /\ rows \in Seq(Row) /\ Len(rows) <= BatchSize /\ received \in Nat /\ FilesOK
      /\ \A id \in 1 .. received : id \notin forgotten => id \in ids(rows) \cup ids_on_file(files)
      /\ flush(rows, k)
  BY DEF StoreInv, BufferInv, AppendedIsKept
<1> HIDE DEF rows
<1>2. /\ FilesOK'
      /\ OnFile(files) \subseteq OnFile(files')
      /\ left \in {<<>>, rows}
      /\ ~flush_raises(rows, k) => left = <<>>
      /\ Elements(rows) \subseteq Elements(left) \cup OnFile(files')
  BY <1>1, FlushKeeps
<1> HIDE DEF left
<1>3. left \in Seq(Row) /\ Len(left) <= BatchSize
  <2>1. <<>> \in Seq(Row) /\ Len(<<>>) = 0 /\ 0 <= BatchSize
    BY CacheAssumption
  <2> QED
    BY <1>1, <1>2, <2>1
<1>4. /\ ids_on_file(files) \subseteq ids_on_file(files')
      /\ ids(rows) \subseteq ids(left) \cup ids_on_file(files')
  <2>1. /\ ids(rows) = {x.id : x \in Elements(rows)}
        /\ ids(left) = {x.id : x \in Elements(left)}
        /\ ids_on_file(files) = {x.id : x \in OnFile(files)}
        /\ ids_on_file(files') = {x.id : x \in OnFile(files')}
    BY IdsOfElements
  <2> QED
    BY <1>2, <2>1
<1>5. /\ \A id \in 1 .. received : id \notin forgotten => id \in ids(left) \cup ids_on_file(files')
      /\ \A id \in 1 .. received : id \notin forgotten => id \in ids(rows) \cup ids_on_file(files')
  BY <1>1, <1>4
<1> QED
  BY <1>2, <1>3, <1>5 DEF rows, left

(* What a step that leaves the store, its files and the count alone keeps. *)
LEMMA StoreUntouched ==
    ASSUME StoreInv, UNCHANGED <<buffer, files, histories>>,
           ControlInv', phase' \in {"end session", "last flush"} \/ Len(buffer) < BatchSize,
           phase' = "down" => phase = "down", answer' \in Seq(Nat), LinkInv', VenueInv'
    PROVE  StoreInv'
<1>1. UNCHANGED <<buffer, files, received, forgotten>>
  BY DEF histories
<1>2. BufferInv'
  BY <1>1 DEF StoreInv, BufferInv
<1>3. FilesOK'
  BY <1>1 DEF StoreInv, FilesOK
<1>4. AppendedIsKept'
  BY <1>1 DEF StoreInv, AppendedIsKept
<1> QED
  BY <1>2, <1>3, <1>4 DEF StoreInv

(* The venue, and time.                                                    *)
LEMMA VenueKeepsStore ==
    ASSUME StoreInv,
           \/ \E p \in Prices, d \in {-1, 1}, delivered \in BOOLEAN : venue_delta(p, d, delivered)
           \/ venue_trade
           \/ tick
    PROVE  StoreInv'
<1>1. /\ ControlInv /\ BufferInv
      /\ up \in BOOLEAN /\ (up => phase = "session") /\ wire \in Seq(Message)
      /\ seq \in [Sids -> Nat] /\ last_seq \in Seq([sid : Sids, seq : Nat])
      /\ Len(last_seq) <= MaxSequenceCache
      /\ now \in Nat /\ ladder \in Book /\ trades \in Nat
  BY DEF StoreInv, LinkInv, VenueInv
<1>2. /\ answer \in Seq(Nat)
      /\ Len(buffer) < BatchSize \/ phase \in {"end session", "last flush"}
  BY <1>1 DEF BufferInv
<1>3. \A sid \in Sids : seq[sid] \in Nat /\ seq[sid] + 1 \in Nat
  BY <1>1
<1>4. \A sid \in Sids : next_seq(sid) => seq' \in [Sids -> Nat]
  BY <1>1, <1>3 DEF next_seq
<1>5. \A m \in Message : send(m) => wire' \in Seq(Message)
  BY <1>1 DEF send
<1>6. BookSid \in Sids /\ TradeSid \in Sids
  BY DEF Sids
<1>7. now \in Time
  BY <1>1 DEF Time
<1>8. ASSUME NEW p \in Prices, NEW d \in {-1, 1}, NEW delivered \in BOOLEAN,
             venue_delta(p, d, delivered)
      PROVE  StoreInv'
  <2> DEFINE book == [ladder EXCEPT ![p] = @ + d]
             m == [channel |-> "orderbook_delta", sid |-> BookSid, ts |-> now,
                   seq |-> seq[BookSid] + 1, content |-> [price |-> p, delta |-> d],
                   truth |-> book]
  <2>1. /\ book[p] \in 0 .. MaxQuantity /\ ladder' = book /\ next_seq(BookSid)
        /\ IF delivered THEN send(m) ELSE up /\ UNCHANGED wire
        /\ UNCHANGED <<now, process, up, last_seq, polling, buffer, files, normalized,
                       trades, histories>>
    BY <1>8 DEF venue_delta
  <2>2. book \in Book
    BY <1>1, <2>1 DEF Book
  <2>3. [price |-> p, delta |-> d] \in Content
    BY DEF Content
  <2>4. m \in Message
    <3> HIDE DEF book
    <3> QED
      BY <1>3, <1>6, <1>7, <2>2, <2>3 DEF Message, Channels
  <2> HIDE DEF m, book
  <2>5. wire' \in Seq(Message)
    BY <1>1, <1>5, <2>1, <2>4
  <2>6. /\ UNCHANGED <<now, command, phase, up, last_seq, answer, trades>>
        /\ UNCHANGED <<buffer, files, histories>>
    BY <2>1 DEF process, polling
  <2>7. LinkInv'
    BY <1>1, <1>4, <1>6, <2>1, <2>5, <2>6 DEF LinkInv
  <2>8. VenueInv'
    BY <1>1, <2>1, <2>2, <2>6 DEF VenueInv
  <2>9. ControlInv'
    BY <1>1, <2>6 DEF ControlInv
  <2> QED
    BY <1>2, <2>6, <2>7, <2>8, <2>9, StoreUntouched
<1>9. ASSUME venue_trade
      PROVE  StoreInv'
  <2> DEFINE m == [channel |-> "trade", sid |-> TradeSid, ts |-> now, seq |-> seq[TradeSid] + 1,
                   content |-> trades + 1, truth |-> ladder]
  <2>1. /\ trades' = trades + 1 /\ next_seq(TradeSid) /\ send(m)
        /\ UNCHANGED <<now, process, up, last_seq, polling, buffer, files, normalized,
                       ladder, histories>>
    BY <1>9 DEF venue_trade
  <2>2. trades + 1 \in Nat /\ trades + 1 \in Content
    BY <1>1 DEF Content
  <2>3. m \in Message
    BY <1>1, <1>3, <1>6, <1>7, <2>2 DEF Message, Channels
  <2> HIDE DEF m
  <2>4. wire' \in Seq(Message)
    BY <1>5, <2>1, <2>3
  <2>5. /\ UNCHANGED <<now, command, phase, up, last_seq, answer, ladder>>
        /\ UNCHANGED <<buffer, files, histories>>
    BY <2>1 DEF process, polling
  <2>6. LinkInv'
    BY <1>1, <1>4, <1>6, <2>1, <2>4, <2>5 DEF LinkInv
  <2>7. VenueInv'
    BY <1>1, <2>1, <2>2, <2>5 DEF VenueInv
  <2>8. ControlInv'
    BY <1>1, <2>5 DEF ControlInv
  <2> QED
    BY <1>2, <2>5, <2>6, <2>7, <2>8, StoreUntouched
<1>10. ASSUME tick
       PROVE  StoreInv'
  <2>1. /\ now' = now + 1
        /\ UNCHANGED <<command, phase, up, wire, seq, last_seq, answer, ladder, trades>>
        /\ UNCHANGED <<buffer, files, histories>>
    BY <1>10 DEF tick, process, link, polling, venue
  <2>2. LinkInv'
    BY <1>1, <2>1 DEF LinkInv
  <2>3. VenueInv'
    <3>1. now' \in Nat
      BY <1>1, <2>1
    <3> QED
      BY <1>1, <2>1, <3>1 DEF VenueInv
  <2>4. ControlInv'
    BY <1>1, <2>1 DEF ControlInv
  <2> QED
    BY <1>2, <2>1, <2>2, <2>3, <2>4, StoreUntouched
<1> QED
  BY <1>8, <1>9, <1>10

(* The venue answers a poll with trades in order, those not seen before.   *)
LEMMA NewTrades ==
    ASSUME NEW n \in Nat
    PROVE  /\ new_trades(n) \in Seq(Nat)
           /\ Increasing(new_trades(n))
           /\ \A k \in DOMAIN new_trades(n) : new_trades(n)[k] \notin seen_trades
<1> DEFINE from == Max({1, n - TradesLimit + 1})
           S == (from .. n) \ seen_trades
<1>1. from \in Nat
  <2>1. n - TradesLimit + 1 \in Int
    BY CacheAssumption
  <2> QED
    BY <2>1, MaxOfTwo
<1> HIDE DEF from
<1>2. IsFiniteSet(S)
  <2>1. IsFiniteSet(from .. n)
    BY <1>1, FS_Interval
  <2> QED
    BY <2>1, FS_Subset
<1>3. \A x \in S : x \in Nat /\ x \in Int /\ x \notin seen_trades
  BY <1>1
<1>4. new_trades(n) = in_order(S)
  BY DEF new_trades, from
<1> HIDE DEF S
<1> DEFINE f == in_order(S)
           c == Cardinality(S)
<1>5. c \in Nat /\ f \in [1 .. c -> S] /\ Increasing(f)
  BY <1>2, <1>3, InOrder
<1> HIDE DEF f, c
<1>6. f \in [1 .. c -> Nat] /\ \A k \in 1 .. c : f[k] \notin seen_trades
  BY <1>3, <1>5
<1>7. f \in Seq(Nat) /\ DOMAIN f = 1 .. c
  BY <1>5, <1>6
<1> QED
  BY <1>4, <1>5, <1>6, <1>7 DEF f

(* The steps that only move a process along.                               *)
LEMMA ControlKeepsStore ==
    ASSUME StoreInv,
           \/ start
           \/ \E o \in {"found", "none", "timeout"} : discover(o)
           \/ stop_session \/ get_trades \/ next_poll \/ normalize
    PROVE  StoreInv'
<1>1. /\ ControlInv /\ BufferInv /\ LinkInv /\ VenueInv
      /\ answer \in Seq(Nat) /\ trades \in Nat
      /\ Len(buffer) < BatchSize \/ phase \in {"end session", "last flush"}
      /\ phase = "down" => buffer = <<>>
  BY DEF StoreInv, BufferInv, VenueInv
<1>2. UNCHANGED <<now, venue>> => VenueInv'
  BY <1>1 DEF VenueInv, venue
<1>3. UNCHANGED link /\ (up => phase' = "session") => LinkInv'
  <2>1. SUFFICES ASSUME UNCHANGED link, up => phase' = "session"
                 PROVE  LinkInv'
    OBVIOUS
  <2>2. UNCHANGED <<up, wire, seq, last_seq>>
    BY <2>1 DEF link
  <2> QED
    BY <1>1, <2>1, <2>2 DEF LinkInv
<1>4. up => phase = "session"
  BY <1>1 DEF LinkInv
<1>5. ASSUME start
      PROVE  StoreInv'
  <2>1. /\ phase = "down"
        /\ phase' = CASE command = "capture_weather" -> "discover"
                      [] command = "capture_ws" -> "session"
                      [] command = "capture_rest" -> "poll"
        /\ buffer' = <<>>
        /\ UNCHANGED <<now, command, link, answer, files, venue, histories>>
    BY <1>5 DEF start, polling
  <2>2. ControlInv'
    BY <1>1, <2>1 DEF ControlInv, Commands, Phases
  <2>3. UNCHANGED <<buffer, files, histories>>
    BY <1>1, <2>1
  <2>4. LinkInv' /\ VenueInv'
    BY <1>2, <1>3, <1>4, <2>1
  <2>5. Len(buffer) < BatchSize /\ phase' # "down"
    BY <1>1, <2>1, <2>2 DEF ControlInv, Commands
  <2> QED
    BY <1>1, <2>1, <2>2, <2>3, <2>4, <2>5, StoreUntouched
<1>6. ASSUME NEW o, discover(o)
      PROVE  StoreInv'
  <2>1. /\ phase = "discover" /\ phase' \in {"session", "discover"}
        /\ UNCHANGED <<now, command, link, answer, venue>>
        /\ UNCHANGED <<buffer, files, histories>>
    BY <1>6 DEF discover, polling
  <2>2. ControlInv'
    BY <1>1, <2>1 DEF ControlInv, Phases
  <2>3. LinkInv' /\ VenueInv'
    BY <1>2, <1>3, <1>4, <2>1
  <2> QED
    BY <1>1, <2>1, <2>2, <2>3, StoreUntouched
<1>7. ASSUME stop_session
      PROVE  StoreInv'
  <2>1. /\ phase = "session" /\ command = "capture_weather" /\ phase' = "end session"
        /\ up' = FALSE /\ wire' = <<>> /\ last_seq' = <<>>
        /\ UNCHANGED <<now, command, seq, answer, venue>>
        /\ UNCHANGED <<buffer, files, histories>>
    BY <1>7 DEF stop_session, polling
  <2>2. ControlInv'
    BY <1>1, <2>1 DEF ControlInv, Phases
  <2>3. LinkInv'
    <3>1. wire' = <<>> /\ last_seq' = <<>> /\ up' = FALSE /\ seq' = seq
      BY <2>1
    <3>2. wire' \in Seq(Message)
      BY <3>1
    <3>3. last_seq' \in Seq([sid : Sids, seq : Nat]) /\ Len(last_seq') = 0
      BY <3>1
    <3>4. 0 <= MaxSequenceCache
      BY CacheAssumption
    <3>5. seq \in [Sids -> Nat]
      BY <1>1 DEF LinkInv
    <3> QED
      BY <3>1, <3>2, <3>3, <3>4, <3>5 DEF LinkInv
  <2>4. VenueInv'
    BY <1>2, <2>1
  <2> QED
    BY <1>1, <2>1, <2>2, <2>3, <2>4, StoreUntouched
<1>8. ASSUME get_trades
      PROVE  StoreInv'
  <2>1. /\ phase = "trades" /\ phase' = "append trades" /\ answer' = new_trades(trades)
        /\ UNCHANGED <<now, command, link, venue>>
        /\ UNCHANGED <<buffer, files, histories>>
    BY <1>8 DEF get_trades
  <2>2. answer' \in Seq(Nat)
    BY <1>1, <2>1, NewTrades
  <2>3. ControlInv'
    BY <1>1, <2>1 DEF ControlInv, Phases
  <2>4. LinkInv' /\ VenueInv'
    BY <1>2, <1>3, <1>4, <2>1
  <2> QED
    BY <1>1, <2>1, <2>2, <2>3, <2>4, StoreUntouched
<1>9. ASSUME next_poll
      PROVE  StoreInv'
  <2>1. /\ phase = "append trades" /\ phase' = "poll"
        /\ UNCHANGED <<now, command, link, answer, venue>>
        /\ UNCHANGED <<buffer, files, histories>>
    BY <1>9 DEF next_poll, polling
  <2>2. ControlInv'
    BY <1>1, <2>1 DEF ControlInv, Phases
  <2>3. LinkInv' /\ VenueInv'
    BY <1>2, <1>3, <1>4, <2>1
  <2> QED
    BY <1>1, <2>1, <2>2, <2>3, StoreUntouched
<1>10. ASSUME normalize
       PROVE  StoreInv'
  <2>1. /\ UNCHANGED <<now, command, phase, link, answer, venue>>
        /\ UNCHANGED <<buffer, files, histories>>
    BY <1>10 DEF normalize, process, polling
  <2>2. ControlInv'
    BY <1>1, <2>1 DEF ControlInv
  <2>3. LinkInv' /\ VenueInv'
    BY <1>2, <1>3, <1>4, <2>1
  <2> QED
    BY <1>1, <2>1, <2>2, <2>3, StoreUntouched
<1> QED
  BY <1>5, <1>6, <1>7, <1>8, <1>9, <1>10

(* The connection.                                                         *)
LEMMA LinkKeepsStore ==
    ASSUME StoreInv, connect \/ disconnect
    PROVE  StoreInv'
<1>1. /\ ControlInv /\ VenueInv
      /\ last_seq \in Seq([sid : Sids, seq : Nat]) /\ Len(last_seq) <= MaxSequenceCache
      /\ seq \in [Sids -> Nat] /\ ladder \in Book /\ answer \in Seq(Nat)
      /\ Len(buffer) < BatchSize \/ phase \in {"end session", "last flush"}
      /\ phase \in Phases
  BY DEF StoreInv, BufferInv, LinkInv, VenueInv, ControlInv
<1>2. ASSUME connect
      PROVE  StoreInv'
  <2> DEFINE m == [channel |-> "orderbook_snapshot", sid |-> BookSid, ts |-> None, seq |-> 1,
                   content |-> ladder, truth |-> ladder]
  <2>1. /\ phase = "session" /\ up' = TRUE /\ wire' = <<m>>
        /\ seq' = [s \in DOMAIN seq |-> IF s = BookSid THEN 1 ELSE 0]
        /\ UNCHANGED <<now, command, phase, last_seq, answer, ladder, trades>>
        /\ UNCHANGED <<buffer, files, histories>>
    BY <1>2 DEF connect, process, polling, venue
  <2>2. m \in Message
    BY <1>1 DEF Message, Channels, Sids, Time, Content
  <2> HIDE DEF m
  <2>3. wire' \in Seq(Message)
    <3>1. wire' = <<m>>
      BY <2>1
    <3> QED
      BY <2>2, <3>1
  <2>4. seq' \in [Sids -> Nat]
    BY <1>1, <2>1
  <2>5. LinkInv'
    BY <1>1, <2>1, <2>3, <2>4 DEF LinkInv
  <2>6. VenueInv'
    BY <1>1, <2>1 DEF VenueInv
  <2>7. ControlInv'
    BY <1>1, <2>1 DEF ControlInv
  <2> QED
    BY <1>1, <2>1, <2>5, <2>6, <2>7, StoreUntouched
<1>3. ASSUME disconnect
      PROVE  StoreInv'
  <2>1. /\ up' = FALSE /\ wire' = <<>>
        /\ UNCHANGED <<now, command, phase, seq, last_seq, answer, ladder, trades>>
        /\ UNCHANGED <<buffer, files, histories>>
    BY <1>3 DEF disconnect, process, polling, venue
  <2>2. wire' \in Seq(Message)
    <3>1. wire' = <<>>
      BY <2>1
    <3> QED
      BY <3>1
  <2>3. LinkInv'
    BY <1>1, <2>1, <2>2 DEF LinkInv
  <2>4. VenueInv'
    BY <1>1, <2>1 DEF VenueInv
  <2>5. ControlInv'
    BY <1>1, <2>1 DEF ControlInv
  <2> QED
    BY <1>1, <2>1, <2>3, <2>4, <2>5, StoreUntouched
<1> QED
  BY <1>2, <1>3

(* An envelope received.                                                   *)
LEMMA ReceiveKeepsStore ==
    ASSUME StoreInv, NEW k, receive(k)
    PROVE  StoreInv'
<1> DEFINE m == Head(wire)
           r == message_to_envelope(m)
           rows == Append(buffer, r)
           left == after_append(rows, k)
<1>1. /\ ControlInv /\ VenueInv /\ LinkInv /\ BufferInv
      /\ wire \in Seq(Message) /\ wire # <<>> /\ up /\ phase = "session"
      /\ seq \in [Sids -> Nat] /\ answer \in Seq(Nat) /\ received \in Nat
      /\ received' = received + 1 /\ append(rows, k)
      /\ UNCHANGED <<now, command, seq, ladder, trades>>
  BY DEF StoreInv, LinkInv, BufferInv, receive, venue
<1>2. m \in Message /\ Tail(wire) \in Seq(Message)
  <2> DEFINE w == wire
  <2>1. w \in Seq(Message) /\ w # <<>>
    BY <1>1
  <2> HIDE DEF w
  <2>2. Head(w) \in Message /\ Tail(w) \in Seq(Message)
    BY <2>1
  <2> QED
    BY <2>2 DEF w
<1>3. m.sid \in Sids /\ m.seq \in Nat
  BY <1>2 DEF Message
<1>4. r \in Row
  BY <1>2, EnvelopeType
<1>5. r.id = received + 1
  BY DEF message_to_envelope
<1>6. Len(buffer) < BatchSize
  BY <1>1 DEF BufferInv
<1>7. IF ~append_raises(rows, k)
      THEN /\ wire' = Tail(wire)
           /\ last_seq' = remember_sequence(m.sid, m.seq)
           /\ buffer' = left
           /\ UNCHANGED <<phase, up, polling, last_tickers, forgotten>>
      ELSE IF command = "capture_weather"
      THEN /\ phase' = "end session"
           /\ up' = FALSE /\ wire' = <<>> /\ last_seq' = <<>>
           /\ buffer' = left
           /\ UNCHANGED <<polling, last_tickers, forgotten>>
      ELSE take_down(rows)
  BY DEF receive
<1> HIDE DEF r, m
<1>8. /\ FilesOK' /\ left \in Seq(Row) /\ Len(left) <= BatchSize
      /\ ~append_raises(rows, k) => Len(left) < BatchSize
      /\ received' \in Nat
      /\ \A id \in 1 .. received' : id \notin forgotten => id \in ids(left) \cup ids_on_file(files')
      /\ \A id \in 1 .. received' : id \notin forgotten => id \in ids(rows) \cup ids_on_file(files')
  BY <1>1, <1>4, <1>5, <1>6, AppendStep
<1> HIDE DEF rows, left
<1>9. VenueInv'
  BY <1>1 DEF VenueInv
<1>10. ASSUME forgotten' = forgotten, buffer' = left
       PROVE  AppendedIsKept'
  BY <1>8, <1>10 DEF AppendedIsKept
<1>11. CASE ~append_raises(rows, k)
  <2>1. /\ wire' = Tail(wire) /\ last_seq' = remember_sequence(m.sid, m.seq) /\ buffer' = left
        /\ UNCHANGED <<phase, up, answer, forgotten>>
    BY <1>7, <1>11 DEF polling
  <2>2. /\ last_seq' \in Seq([sid : Sids, seq : Nat]) /\ Len(last_seq') <= MaxSequenceCache
    BY <1>1, <1>3, <2>1, Remembered
  <2>3. LinkInv'
    BY <1>1, <1>2, <2>1, <2>2 DEF LinkInv
  <2>4. ControlInv'
    BY <1>1, <2>1 DEF ControlInv
  <2>5. BufferInv'
    BY <1>1, <1>8, <1>11, <2>1 DEF BufferInv
  <2>6. AppendedIsKept'
    BY <1>10, <2>1
  <2> QED
    BY <1>8, <1>9, <2>3, <2>4, <2>5, <2>6 DEF StoreInv
<1>12. CASE append_raises(rows, k) /\ command = "capture_weather"
  <2>1. /\ phase' = "end session" /\ up' = FALSE /\ wire' = <<>> /\ last_seq' = <<>>
        /\ buffer' = left
        /\ UNCHANGED <<answer, forgotten>>
    BY <1>7, <1>12 DEF polling
  <2>2. LinkInv'
    <3>1. wire' = <<>> /\ last_seq' = <<>>
      BY <2>1
    <3>2. wire' \in Seq(Message)
      BY <3>1
    <3>3. last_seq' \in Seq([sid : Sids, seq : Nat]) /\ Len(last_seq') = 0
      BY <3>1
    <3>4. 0 <= MaxSequenceCache
      BY CacheAssumption
    <3> QED
      BY <1>1, <2>1, <3>2, <3>3, <3>4 DEF LinkInv
  <2>3. ControlInv'
    BY <1>1, <1>12, <2>1 DEF ControlInv, Phases
  <2>4. BufferInv'
    BY <1>1, <1>8, <2>1 DEF BufferInv
  <2>5. AppendedIsKept'
    BY <1>10, <2>1
  <2> QED
    BY <1>8, <1>9, <2>2, <2>3, <2>4, <2>5 DEF StoreInv
<1>13. CASE append_raises(rows, k) /\ command # "capture_weather"
  <2>1. take_down(rows)
    BY <1>7, <1>13
  <2>2. command' \in Commands /\ seq' \in [Sids -> Nat]
    BY <1>1 DEF ControlInv
  <2> QED
    BY <1>8, <1>9, <2>1, <2>2, TakenDown
<1> QED
  BY <1>11, <1>12, <1>13

(* An envelope polled.                                                     *)
LEMMA PollKeepsStore ==
    ASSUME StoreInv, NEW r \in Row, r.id = received + 1, NEW k, NEW then, NEW rest, NEW seen,
           poll_append(r, k, then, rest, seen), phase \in {"poll", "append trades"},
           then \in {"trades", "append trades"}, rest \in Seq(Nat)
    PROVE  StoreInv'
<1> DEFINE rows == Append(buffer, r)
           left == after_append(rows, k)
<1>1. /\ ControlInv /\ VenueInv /\ LinkInv /\ BufferInv
      /\ seq \in [Sids -> Nat] /\ received \in Nat
      /\ received' = received + 1 /\ append(rows, k)
      /\ UNCHANGED <<now, command, seq, ladder, trades>>
      /\ ~up
  BY DEF StoreInv, LinkInv, BufferInv, poll_append, venue
<1>2. Len(buffer) < BatchSize
  BY <1>1 DEF BufferInv
<1>3. IF append_raises(rows, k)
      THEN take_down(rows)
      ELSE /\ buffer' = left
           /\ phase' = then /\ answer' = rest /\ seen_trades' = seen
           /\ UNCHANGED <<up, wire, last_seq, last_tickers, forgotten>>
  BY DEF poll_append
<1>4. /\ FilesOK' /\ left \in Seq(Row) /\ Len(left) <= BatchSize
      /\ ~append_raises(rows, k) => Len(left) < BatchSize
      /\ received' \in Nat
      /\ \A id \in 1 .. received' : id \notin forgotten => id \in ids(left) \cup ids_on_file(files')
      /\ \A id \in 1 .. received' : id \notin forgotten => id \in ids(rows) \cup ids_on_file(files')
  BY <1>1, <1>2, AppendStep
<1> HIDE DEF rows, left
<1>5. VenueInv'
  BY <1>1 DEF VenueInv
<1>6. CASE ~append_raises(rows, k)
  <2>1. /\ buffer' = left /\ phase' = then /\ answer' = rest
        /\ UNCHANGED <<up, wire, last_seq, forgotten>>
    BY <1>3, <1>6
  <2>2. LinkInv'
    BY <1>1, <2>1 DEF LinkInv
  <2>3. ControlInv'
    BY <1>1, <2>1 DEF ControlInv, Phases
  <2>4. BufferInv'
    BY <1>1, <1>4, <1>6, <2>1 DEF BufferInv
  <2>5. AppendedIsKept'
    BY <1>4, <2>1 DEF AppendedIsKept
  <2> QED
    BY <1>4, <1>5, <2>2, <2>3, <2>4, <2>5 DEF StoreInv
<1>7. CASE append_raises(rows, k)
  <2>1. take_down(rows)
    BY <1>3, <1>7
  <2>2. command' \in Commands /\ seq' \in [Sids -> Nat]
    BY <1>1 DEF ControlInv
  <2> QED
    BY <1>4, <1>5, <2>1, <2>2, TakenDown
<1> QED
  BY <1>6, <1>7

(* The two kinds of envelope that are polled.                              *)
LEMMA PollsKeepStore ==
    ASSUME StoreInv, NEW k, poll_book(k) \/ poll_trade(k)
    PROVE  StoreInv'
<1>1. answer \in Seq(Nat)
  BY DEF StoreInv, BufferInv
<1>2. ASSUME poll_book(k)
      PROVE  StoreInv'
  <2>1. /\ phase = "poll"
        /\ poll_append(rest_envelope("book", ladder), k, "trades", <<>>, seen_trades)
    BY <1>2 DEF poll_book
  <2>2. rest_envelope("book", ladder) \in Row /\ rest_envelope("book", ladder).id = received + 1
    BY EnvelopeType DEF rest_envelope
  <2>3. <<>> \in Seq(Nat)
    OBVIOUS
  <2> QED
    BY <2>1, <2>2, <2>3, PollKeepsStore
<1>3. ASSUME poll_trade(k)
      PROVE  StoreInv'
  <2> DEFINE r == rest_envelope("trade", Head(answer))
  <2>1. /\ phase = "append trades" /\ answer # <<>>
        /\ poll_append(r, k, phase, Tail(answer), seen_trades \cup {Head(answer)})
    BY <1>3 DEF poll_trade
  <2>2. Head(answer) \in Nat /\ Tail(answer) \in Seq(Nat)
    <3> DEFINE a == answer
    <3>1. a \in Seq(Nat) /\ a # <<>>
      BY <1>1, <2>1
    <3> HIDE DEF a
    <3>2. Head(a) \in Nat /\ Tail(a) \in Seq(Nat)
      BY <3>1
    <3> QED
      BY <3>2 DEF a
  <2>3. r \in Row
    BY <2>2, EnvelopeType
  <2>4. r.id = received + 1
    BY DEF rest_envelope
  <2> HIDE DEF r
  <2> QED
    BY <2>1, <2>2, <2>3, <2>4, PollKeepsStore
<1> QED
  BY <1>2, <1>3

(* The flush after a session, and the one before a process ends.           *)
LEMMA FlushesKeepStore ==
    ASSUME StoreInv, NEW k, end_session(k) \/ last_flush(k)
    PROVE  StoreInv'
<1> DEFINE left == after_flush(buffer, k)
<1>1. /\ ControlInv /\ VenueInv /\ LinkInv /\ BufferInv
      /\ seq \in [Sids -> Nat] /\ received \in Nat
  BY DEF StoreInv, LinkInv, BufferInv
<1>2. /\ flush(buffer, k)
      /\ UNCHANGED <<now, command, seq, ladder, trades, received>>
  BY DEF end_session, last_flush, venue, histories, link
<1>3. /\ FilesOK' /\ left \in Seq(Row) /\ Len(left) <= BatchSize
      /\ ~flush_raises(buffer, k) => left = <<>>
      /\ \A id \in 1 .. received : id \notin forgotten => id \in ids(left) \cup ids_on_file(files')
      /\ \A id \in 1 .. received : id \notin forgotten => id \in ids(buffer) \cup ids_on_file(files')
  BY <1>2, FlushStep
<1>4. VenueInv'
  BY <1>1, <1>2 DEF VenueInv
<1> HIDE DEF left
<1>5. ASSUME end_session(k)
      PROVE  StoreInv'
  <2>1. /\ phase = "end session" /\ buffer' = left
        /\ phase' = IF flush_raises(buffer, k) THEN "last flush" ELSE "discover"
        /\ UNCHANGED <<command, up, wire, seq, last_seq, answer, forgotten, received>>
    BY <1>5 DEF end_session, link, polling, histories, left
  <2>2. LinkInv'
    BY <1>1, <2>1 DEF LinkInv
  <2>3. ControlInv'
    BY <1>1, <2>1 DEF ControlInv, Phases
  <2>4. left = <<>> => Len(left) < BatchSize
    BY CacheAssumption
  <2>5. BufferInv'
    BY <1>1, <1>3, <2>1, <2>4 DEF BufferInv
  <2>6. AppendedIsKept'
    BY <1>3, <2>1 DEF AppendedIsKept
  <2> QED
    BY <1>3, <1>4, <2>2, <2>3, <2>5, <2>6 DEF StoreInv
<1>6. ASSUME last_flush(k)
      PROVE  StoreInv'
  <2>1. take_down(buffer)
    BY <1>6 DEF last_flush
  <2>2. command' \in Commands /\ seq' \in [Sids -> Nat] /\ received' \in Nat
    BY <1>1, <1>2 DEF ControlInv
  <2>3. \A id \in 1 .. received' : id \notin forgotten =>
           id \in ids(buffer) \cup ids_on_file(files')
    BY <1>2, <1>3
  <2> QED
    BY <1>3, <1>4, <2>1, <2>2, <2>3, TakenDown
<1> QED
  BY <1>5, <1>6

(* A process killed, perhaps while it writes.                              *)
LEMMA KillKeepsStore ==
    ASSUME StoreInv, NEW k, NEW torn, kill(k, torn)
    PROVE  StoreInv'
<1> DEFINE parts == SubSeq(by_partition(buffer), 1, k)
           cut == IF torn THEN <<[torn |-> TRUE, rows |-> <<>>]>> ELSE <<>>
           rows == buffer
<1>1. /\ ControlInv /\ VenueInv /\ FilesOK
      /\ rows \in Seq(Row) /\ Len(rows) <= BatchSize
      /\ seq \in [Sids -> Nat] /\ received \in Nat
      /\ \A id \in 1 .. received : id \notin forgotten =>
            id \in ids(buffer) \cup ids_on_file(files)
  BY DEF StoreInv, LinkInv, BufferInv, AppendedIsKept
<1>2. /\ k \in 0 .. Len(by_partition(rows))
      /\ files' = files \o parts \o cut
      /\ take_down(buffer)
      /\ UNCHANGED <<now, command, seq, ladder, trades, received>>
  BY DEF kill, venue
<1>3. parts \in Seq(File) /\ Short(parts) /\ OneDayEach(parts)
  <2> HIDE DEF rows
  <2>1. LET some == SubSeq(by_partition(rows), 1, k)
        IN  some \in Seq(File) /\ Short(some) /\ OneDayEach(some)
    BY <1>1, <1>2, Flushed
  <2> QED
    BY <2>1 DEF rows
<1>4. cut \in Seq(File) /\ Short(cut) /\ OneDayEach(cut)
  <2>1. CASE torn
    <3> DEFINE f == [torn |-> TRUE, rows |-> <<>>]
    <3>1. f.rows = <<>> /\ f \in File
      BY DEF File
    <3>2. cut = <<f>>
      BY <2>1
    <3> HIDE DEF f, cut
    <3>3. cut \in Seq(File) /\ DOMAIN cut = {1} /\ cut[1] = f
      BY <3>1, <3>2
    <3>4. Len(<<>>) <= BatchSize /\ DOMAIN <<>> = {}
      BY CacheAssumption
    <3> QED
      BY <3>1, <3>3, <3>4 DEF Short, OneDayEach, OneDay
  <2>2. CASE ~torn
    <3>1. cut = <<>>
      BY <2>2
    <3> QED
      BY <3>1 DEF Short, OneDayEach
  <2> QED
    BY <2>1, <2>2
<1> HIDE DEF parts, cut, rows
<1>5. /\ files \o parts \in Seq(File) /\ Short(files \o parts) /\ OneDayEach(files \o parts)
      /\ OnFile(files) \subseteq OnFile(files \o parts)
  BY <1>1, <1>3, FilesAdded DEF FilesOK
<1> DEFINE most == files \o parts
<1>6. /\ most \o cut \in Seq(File) /\ Short(most \o cut) /\ OneDayEach(most \o cut)
      /\ OnFile(most) \subseteq OnFile(most \o cut)
  <2>1. most \in Seq(File) /\ Short(most) /\ OneDayEach(most)
    BY <1>5
  <2> HIDE DEF most
  <2> QED
    BY <1>4, <2>1, FilesAdded
<1>7. files' = most \o cut /\ OnFile(files) \subseteq OnFile(files')
  BY <1>2, <1>5, <1>6
<1> HIDE DEF most
<1>8. FilesOK'
  BY <1>6, <1>7 DEF FilesOK
<1>9. ids_on_file(files) \subseteq ids_on_file(files')
  <2>1. /\ ids_on_file(files) = {x.id : x \in OnFile(files)}
        /\ ids_on_file(files') = {x.id : x \in OnFile(files')}
    BY IdsOfElements
  <2> QED
    BY <1>7, <2>1
<1>10. \A id \in 1 .. received' : id \notin forgotten =>
          id \in ids(buffer) \cup ids_on_file(files')
  BY <1>1, <1>2, <1>9
<1>11. VenueInv'
  BY <1>1, <1>2 DEF VenueInv
<1>12. command' \in Commands /\ seq' \in [Sids -> Nat] /\ received' \in Nat
  BY <1>1, <1>2 DEF ControlInv
<1> QED
  BY <1>2, <1>8, <1>10, <1>11, <1>12, TakenDown

-----------------------------------------------------------------------------
(* The store, for every venue, buffer size and interleaving of failures.   *)
LEMMA StoreInitially == Init => StoreInv
<1>1. SUFFICES ASSUME Init
               PROVE  StoreInv
  OBVIOUS
<1>2. /\ command \in Commands /\ phase = "down" /\ up = FALSE
      /\ now = 0 /\ trades = 0 /\ received = 0 /\ ladder = Empty
      /\ seq = [s \in {BookSid, TradeSid} |-> 0]
  BY <1>1 DEF Init
<1>3. wire = <<>> /\ last_seq = <<>> /\ answer = <<>> /\ buffer = <<>> /\ files = <<>>
  BY <1>1 DEF Init
<1>4. 0 <= MaxSequenceCache /\ 0 < BatchSize /\ 0 \in 0 .. MaxQuantity
  BY CacheAssumption
<1>5. /\ wire \in Seq(Message) /\ last_seq \in Seq([sid : Sids, seq : Nat])
      /\ answer \in Seq(Nat) /\ buffer \in Seq(Row) /\ files \in Seq(File)
      /\ Len(last_seq) = 0 /\ Len(buffer) = 0
  BY <1>3
<1>6. ControlInv
  BY <1>2 DEF ControlInv, Phases
<1>7. LinkInv
  BY <1>2, <1>4, <1>5 DEF LinkInv, Sids
<1>8. VenueInv
  BY <1>2, <1>4 DEF VenueInv, Empty, Book
<1>9. BufferInv
  <2>1. received \in Nat
    BY <1>2
  <2>2. buffer = <<>>
    BY <1>3
  <2>3. Len(buffer) < BatchSize /\ Len(buffer) <= BatchSize
    BY <1>4, <1>5, CacheAssumption
  <2> QED
    BY <1>5, <2>1, <2>2, <2>3 DEF BufferInv
<1>10. FilesOK
  BY <1>3, <1>5 DEF FilesOK, Short, OneDayEach
<1>11. AppendedIsKept
  BY <1>2 DEF AppendedIsKept
<1> QED
  BY <1>6, <1>7, <1>8, <1>9, <1>10, <1>11 DEF StoreInv

(* Every step keeps it.                                                    *)
LEMMA StoreStep == StoreInv /\ [Next]_vars => StoreInv'
<1>1. SUFFICES ASSUME StoreInv, [Next]_vars
               PROVE  StoreInv'
  OBVIOUS
<1>2. CASE UNCHANGED vars
  <2>1. /\ UNCHANGED <<buffer, files, histories>>
        /\ UNCHANGED <<now, command, phase, up, wire, seq, last_seq, answer, ladder, trades>>
    BY <1>2 DEF vars, histories
  <2>2. ControlInv' /\ LinkInv' /\ VenueInv'
    BY <1>1, <2>1 DEF StoreInv, ControlInv, LinkInv, VenueInv
  <2>3. /\ answer \in Seq(Nat)
        /\ Len(buffer) < BatchSize \/ phase \in {"end session", "last flush"}
    BY <1>1 DEF StoreInv, BufferInv
  <2> QED
    BY <1>1, <2>1, <2>2, <2>3, StoreUntouched
<1>3. CASE Next
  BY <1>1, <1>3, VenueKeepsStore, ControlKeepsStore, LinkKeepsStore, ReceiveKeepsStore,
     PollsKeepStore, FlushesKeepStore, KillKeepsStore DEF Next
<1> QED
  BY <1>1, <1>2, <1>3

(* The invariant of the event lake's store holds in every reachable state. *)
THEOREM StoreInvariant == Spec => []StoreInv
BY StoreInitially, StoreStep, PTL DEF Spec

(* The store's objects have their types: a file holds one day's envelopes, *)
(* a buffer is flushed when it is full, the sequence cache stays bounded   *)
(* (_flush_raw, append, _remember_sequence).                               *)
THEOREM CaptureTypeCorrect == Spec => []CaptureTypeOK
<1>1. StoreInv => CaptureTypeOK
  <2>1. SUFFICES ASSUME StoreInv
                 PROVE  CaptureTypeOK
    OBVIOUS
  <2>2. phase \in {"down", "discover", "session", "end session", "last flush", "poll",
                   "trades", "append trades"}
    BY <2>1 DEF StoreInv, ControlInv, Phases
  <2>3. (up => phase = "session") /\ Len(last_seq) <= MaxSequenceCache
    BY <2>1 DEF StoreInv, LinkInv
  <2>4. Len(buffer) < BatchSize \/ phase \in {"end session", "last flush"}
    BY <2>1 DEF StoreInv, BufferInv
  <2>5. ladder \in [Prices -> 0 .. MaxQuantity]
    BY <2>1 DEF StoreInv, VenueInv, Book
  <2>6. \A f \in ToSet(files) : OneDay(f.rows)
    BY <2>1 DEF StoreInv, FilesOK, OneDayEach, ToSet
  <2> QED
    BY <2>2, <2>3, <2>4, <2>5, <2>6 DEF CaptureTypeOK, OneDay
<1> QED
  BY <1>1, StoreInvariant, PTL

(* ParquetEventStore loses no envelope while its process lives, however    *)
(* batches, days, sessions and failing writes follow one another.          *)
THEOREM AppendedEnvelopesKept == Spec => []AppendedIsKept
<1>1. StoreInv => AppendedIsKept
  BY DEF StoreInv
<1> QED
  BY <1>1, StoreInvariant, PTL
-----------------------------------------------------------------------------
(* What the store holds, from step to step.                                *)

AllRows == Elements(buffer) \cup OnFile(files)

(* The steps that append nothing.                                          *)
Quiet ==
    \/ \E p \in Prices, d \in {-1, 1}, delivered \in BOOLEAN : venue_delta(p, d, delivered)
    \/ venue_trade \/ tick
    \/ start \/ \E o \in {"found", "none", "timeout"} : discover(o)
    \/ connect \/ disconnect \/ stop_session
    \/ \E k \in 0 .. 2 : end_session(k) \/ last_flush(k)
    \/ get_trades \/ next_poll
    \/ \E k \in 0 .. 2, torn \in BOOLEAN : kill(k, torn)
    \/ normalize

(* A process killed leaves on file what was there, and a prefix of what it *)
(* was about to write.                                                     *)
LEMMA KilledFiles ==
    ASSUME StoreInv, NEW k, NEW torn, kill(k, torn)
    PROVE  /\ k \in 0 .. Len(by_partition(buffer))
           /\ OnFile(files') = OnFile(files) \cup OnFile(SubSeq(by_partition(buffer), 1, k))
<1> DEFINE parts == SubSeq(by_partition(buffer), 1, k)
           cut == IF torn THEN <<[torn |-> TRUE, rows |-> <<>>]>> ELSE <<>>
           rows == buffer
           most == files \o parts
<1>1. /\ files \in Seq(File) /\ rows \in Seq(Row) /\ Len(rows) <= BatchSize
  BY DEF StoreInv, BufferInv, FilesOK
<1>2. k \in 0 .. Len(by_partition(rows)) /\ files' = most \o cut
  BY DEF kill
<1>3. parts \in Seq(File)
  <2> HIDE DEF rows
  <2>1. LET some == SubSeq(by_partition(rows), 1, k) IN some \in Seq(File)
    BY <1>1, <1>2, Flushed
  <2> QED
    BY <2>1 DEF rows
<1>4. cut \in Seq(File) /\ OnFile(cut) = {}
  <2>1. CASE torn
    <3> DEFINE f == [torn |-> TRUE, rows |-> <<>>]
    <3>1. f.rows = <<>> /\ f \in File
      BY DEF File
    <3>2. cut = <<f>>
      BY <2>1
    <3> HIDE DEF f, cut
    <3>3. cut \in Seq(File) /\ DOMAIN cut = {1} /\ cut[1] = f
      BY <3>1, <3>2
    <3>4. DOMAIN <<>> = {}
      OBVIOUS
    <3> QED
      BY <3>1, <3>3, <3>4 DEF OnFile, Elements
  <2>2. CASE ~torn
    <3>1. cut = <<>>
      BY <2>2
    <3> QED
      BY <3>1 DEF OnFile
  <2> QED
    BY <2>1, <2>2
<1> HIDE DEF parts, cut
<1>5. most \in Seq(File) /\ OnFile(most) = OnFile(files) \cup OnFile(parts)
  BY <1>1, <1>3, FilesAdded
<1> HIDE DEF most
<1>6. OnFile(most \o cut) = OnFile(most)
  BY <1>4, <1>5, FilesAdded
<1> QED
  BY <1>2, <1>5, <1>6 DEF parts, rows

(* A quiet step adds nothing to the store and its files.                   *)
LEMMA QuietRows ==
    ASSUME StoreInv, Quiet
    PROVE  received' = received /\ AllRows' \subseteq AllRows
<1>1. /\ FilesOK /\ buffer \in Seq(Row) /\ Len(buffer) <= BatchSize
  BY DEF StoreInv, BufferInv
<1>2. ASSUME UNCHANGED <<buffer, files>>
      PROVE  AllRows' \subseteq AllRows
  BY <1>2 DEF AllRows
<1>3. ASSUME buffer' = <<>>, OnFile(files') \subseteq AllRows
      PROVE  AllRows' \subseteq AllRows
  BY <1>3 DEF AllRows, Elements
<1>4. ASSUME NEW k, flush(buffer, k)
      PROVE  /\ OnFile(files') \subseteq AllRows
             /\ after_flush(buffer, k) \in {<<>>, buffer}
  <2> DEFINE rows == buffer
  <2>1. rows \in Seq(Row) /\ Len(rows) <= BatchSize /\ flush(rows, k)
    BY <1>1, <1>4
  <2> HIDE DEF rows
  <2>2. /\ OnFile(files') \subseteq OnFile(files) \cup Elements(rows)
        /\ after_flush(rows, k) \in {<<>>, rows}
    BY <1>1, <2>1, FlushKeeps
  <2> QED
    BY <2>2 DEF rows, AllRows
<1>5. ASSUME start
      PROVE  received' = received /\ AllRows' \subseteq AllRows
  <2>1. buffer' = <<>> /\ files' = files /\ received' = received
    BY <1>5 DEF start, histories
  <2> QED
    BY <1>3, <2>1 DEF AllRows
<1>6. ASSUME NEW k, end_session(k)
      PROVE  received' = received /\ AllRows' \subseteq AllRows
  <2>1. flush(buffer, k) /\ buffer' = after_flush(buffer, k) /\ received' = received
    BY <1>6 DEF end_session, histories
  <2> QED
    BY <1>4, <2>1 DEF AllRows, Elements
<1>7. ASSUME NEW k, last_flush(k)
      PROVE  received' = received /\ AllRows' \subseteq AllRows
  <2>1. flush(buffer, k) /\ buffer' = <<>> /\ received' = received
    BY <1>7 DEF last_flush, take_down
  <2> QED
    BY <1>3, <1>4, <2>1
<1>8. ASSUME NEW k, NEW torn, kill(k, torn)
      PROVE  received' = received /\ AllRows' \subseteq AllRows
  <2>1. buffer' = <<>> /\ received' = received
    BY <1>8 DEF kill, take_down
  <2> DEFINE rows == buffer
  <2>2. /\ k \in 0 .. Len(by_partition(rows))
        /\ OnFile(files') = OnFile(files) \cup OnFile(SubSeq(by_partition(rows), 1, k))
        /\ rows \in Seq(Row) /\ Len(rows) <= BatchSize
    BY <1>1, <1>8, KilledFiles
  <2> HIDE DEF rows
  <2>3. OnFile(SubSeq(by_partition(rows), 1, k)) \subseteq Elements(rows)
    BY <2>2, Flushed
  <2> QED
    BY <1>3, <2>1, <2>2, <2>3 DEF rows, AllRows
<1> QED
  <2>1. Quiet /\ ~start /\ (\A k : ~end_session(k) /\ ~last_flush(k)) /\ (\A k, t : ~kill(k, t))
          => UNCHANGED <<buffer, files>> /\ received' = received
    BY DEF Quiet, venue_delta, venue_trade, tick, discover, connect, disconnect, stop_session,
           get_trades, next_poll, normalize, histories
  <2> QED
    BY <1>2, <1>5, <1>6, <1>7, <1>8, <2>1

(* Appending an envelope adds that envelope.                               *)
LEMMA AppendRows ==
    ASSUME StoreInv, NEW r \in Row, Len(buffer) < BatchSize, NEW k, append(Append(buffer, r), k)
    PROVE  LET left == after_append(Append(buffer, r), k)
           IN  /\ Append(buffer, r) \in Seq(Row) /\ Len(Append(buffer, r)) <= BatchSize
               /\ Elements(left) \cup OnFile(files') = AllRows \cup {r}
               /\ left \in {<<>>, Append(buffer, r)}
               /\ OnFile(files') \subseteq AllRows \cup {r}
               /\ OnFile(files) \subseteq OnFile(files')
<1> DEFINE b == buffer
           rows == Append(b, r)
           left == after_append(rows, k)
<1>1. b \in Seq(Row) /\ FilesOK /\ Len(b) < BatchSize
  BY DEF StoreInv, BufferInv
<1>2. append(rows, k)
  OBVIOUS
<1> HIDE DEF b
<1>3. rows \in Seq(Row) /\ Len(rows) = Len(b) + 1 /\ Elements(rows) = Elements(b) \cup {r}
  BY <1>1, Appended
<1>4. Len(rows) <= BatchSize
  BY <1>1, <1>3, CacheAssumption
<1> HIDE DEF rows
<1>5. /\ OnFile(files) \subseteq OnFile(files')
      /\ OnFile(files') \subseteq OnFile(files) \cup Elements(rows)
      /\ left \in {<<>>, rows}
      /\ Elements(rows) \subseteq Elements(left) \cup OnFile(files')
  BY <1>1, <1>2, <1>3, <1>4, AppendKeeps
<1> HIDE DEF left
<1>6. Elements(left) \subseteq Elements(rows)
  BY <1>5 DEF Elements
<1>7. AllRows = Elements(b) \cup OnFile(files)
  BY DEF AllRows, b
<1>8. /\ Elements(left) \cup OnFile(files') = AllRows \cup {r}
      /\ OnFile(files') \subseteq AllRows \cup {r}
  BY <1>3, <1>5, <1>6, <1>7
<1> QED
  BY <1>3, <1>4, <1>5, <1>8 DEF left, rows, b

(* What an envelope received leaves behind.                                *)
LEMMA ReceiveRows ==
    ASSUME StoreInv, NEW k, receive(k)
    PROVE  LET r == message_to_envelope(Head(wire))
           IN  /\ wire \in Seq(Message) /\ wire # <<>> /\ up /\ phase = "session"
               /\ Head(wire) \in Message /\ r \in Row /\ r.id = received + 1
               /\ received' = received + 1
               /\ Append(buffer, r) \in Seq(Row) /\ Len(Append(buffer, r)) <= BatchSize
               /\ append(Append(buffer, r), k)
               /\ AllRows' \subseteq AllRows \cup {r}
               /\ up' => /\ ~append_raises(Append(buffer, r), k)
                         /\ AllRows' = AllRows \cup {r}
               /\ buffer' \in {<<>>, Append(buffer, r)}
               /\ OnFile(files) \subseteq OnFile(files')
<1> DEFINE m == Head(wire)
           r == message_to_envelope(m)
           rows == Append(buffer, r)
           left == after_append(rows, k)
<1>1. /\ wire \in Seq(Message) /\ wire # <<>> /\ up /\ phase = "session"
      /\ received' = received + 1 /\ append(rows, k) /\ Len(buffer) < BatchSize
  BY DEF StoreInv, LinkInv, BufferInv, receive
<1>2. m \in Message
  <2> DEFINE w == wire
  <2>1. w \in Seq(Message) /\ w # <<>>
    BY <1>1
  <2> HIDE DEF w
  <2>2. Head(w) \in Message
    BY <2>1
  <2> QED
    BY <2>2 DEF w
<1>3. r \in Row /\ r.id = received + 1
  <2>1. r.id = received + 1
    BY DEF message_to_envelope
  <2> QED
    BY <1>2, <2>1, EnvelopeType
<1>4. IF ~append_raises(rows, k)
      THEN buffer' = left
      ELSE IF command = "capture_weather"
      THEN up' = FALSE /\ buffer' = left
      ELSE up' = FALSE /\ buffer' = <<>>
  BY DEF receive, take_down
<1> HIDE DEF r, m
<1>5. /\ rows \in Seq(Row) /\ Len(rows) <= BatchSize
      /\ Elements(left) \cup OnFile(files') = AllRows \cup {r}
      /\ left \in {<<>>, rows}
      /\ OnFile(files') \subseteq AllRows \cup {r} /\ OnFile(files) \subseteq OnFile(files')
  BY <1>1, <1>3, AppendRows
<1> HIDE DEF rows, left
<1>6. ASSUME buffer' = left
      PROVE  AllRows' = AllRows \cup {r}
  BY <1>5, <1>6 DEF AllRows
<1>7. ASSUME buffer' = <<>>
      PROVE  AllRows' \subseteq AllRows \cup {r}
  BY <1>5, <1>7 DEF AllRows, Elements
<1>8. /\ AllRows' \subseteq AllRows \cup {r} /\ buffer' \in {<<>>, rows}
      /\ up' => ~append_raises(rows, k) /\ AllRows' = AllRows \cup {r}
  BY <1>4, <1>5, <1>6, <1>7
<1> QED
  BY <1>1, <1>2, <1>3, <1>5, <1>8 DEF rows, r, m

(* An empty buffer holds nothing.                                          *)
LEMMA NoElements == Elements(<<>>) = {}
BY DEF Elements

(* What an envelope polled leaves behind.                                  *)
LEMMA PollRows ==
    ASSUME StoreInv, NEW r \in Row, NEW k, NEW then, NEW rest, NEW seen,
           poll_append(r, k, then, rest, seen), phase \in {"poll", "append trades"}
    PROVE  /\ Append(buffer, r) \in Seq(Row) /\ Len(Append(buffer, r)) <= BatchSize
           /\ append(Append(buffer, r), k)
           /\ AllRows' \subseteq AllRows \cup {r}
           /\ buffer' \in {<<>>, Append(buffer, r)}
           /\ OnFile(files) \subseteq OnFile(files')
<1> DEFINE rows == Append(buffer, r)
           left == after_append(rows, k)
<1>1. append(rows, k) /\ Len(buffer) < BatchSize
  BY DEF StoreInv, BufferInv, poll_append
<1>2. IF append_raises(rows, k) THEN buffer' = <<>> ELSE buffer' = left
  BY DEF poll_append, take_down
<1>3. /\ rows \in Seq(Row) /\ Len(rows) <= BatchSize
      /\ Elements(left) \cup OnFile(files') = AllRows \cup {r}
      /\ left \in {<<>>, rows}
      /\ OnFile(files') \subseteq AllRows \cup {r} /\ OnFile(files) \subseteq OnFile(files')
  BY <1>1, AppendRows
<1> HIDE DEF rows, left
<1>4. ASSUME buffer' = left
      PROVE  AllRows' \subseteq AllRows \cup {r}
  BY <1>3, <1>4 DEF AllRows
<1>5. ASSUME buffer' = <<>>
      PROVE  AllRows' \subseteq AllRows \cup {r}
  <2>1. AllRows' = Elements(buffer') \cup OnFile(files')
    BY DEF AllRows
  <2>2. Elements(<<>>) = {}
    BY NoElements
  <2> QED
    BY <1>3, <1>5, <2>1, <2>2
<1>6. AllRows' \subseteq AllRows \cup {r} /\ buffer' \in {<<>>, rows}
  BY <1>2, <1>3, <1>4, <1>5
<1> QED
  BY <1>1, <1>3, <1>6 DEF rows

-----------------------------------------------------------------------------
(* The identity of an envelope.                                            *)
IdInv ==
    /\ \A r \in AllRows : r.id \in 1 .. received
    /\ \A q, r \in AllRows : q.id = r.id => q = r

(* An envelope appended is a new one.                                      *)
LEMMA NewId ==
    ASSUME StoreInv, IdInv, NEW r, r.id = received + 1, received' = received + 1,
           AllRows' \subseteq AllRows \cup {r}
    PROVE  IdInv'
<1>1. received \in Nat
  BY DEF StoreInv, BufferInv
<1>2. \A q \in AllRows : q.id \in 1 .. received /\ q.id # received + 1
  BY <1>1 DEF IdInv
<1>3. \A q \in AllRows \cup {r} : q.id \in 1 .. received'
  BY <1>1, <1>2
<1>4. \A p, q \in AllRows \cup {r} : p.id = q.id => p = q
  BY <1>1, <1>2 DEF IdInv
<1>5. IdInv' <=> /\ \A q \in AllRows' : q.id \in 1 .. received'
                 /\ \A p, q \in AllRows' : p.id = q.id => p = q
  BY DEF IdInv
<1> HIDE DEF IdInv
<1> QED
  BY <1>3, <1>4, <1>5

(* No step gives two envelopes one identity: only an append makes one, with *)
(* the next number (message_to_envelope, rest_envelope).                   *)
LEMMA IdStep == StoreInv /\ IdInv /\ [Next]_vars => IdInv'
<1>1. SUFFICES ASSUME StoreInv, IdInv, [Next]_vars
               PROVE  IdInv'
  OBVIOUS
<1>2. CASE UNCHANGED vars
  BY <1>1, <1>2 DEF vars, IdInv, AllRows
<1>3. CASE Quiet
  <2>1. received' = received /\ AllRows' \subseteq AllRows
    BY <1>1, <1>3, QuietRows
  <2>2. IdInv' <=> /\ \A q \in AllRows' : q.id \in 1 .. received'
                   /\ \A p, q \in AllRows' : p.id = q.id => p = q
    BY DEF IdInv
  <2>3. /\ \A q \in AllRows : q.id \in 1 .. received
        /\ \A p, q \in AllRows : p.id = q.id => p = q
    BY <1>1 DEF IdInv
  <2> QED
    BY <2>1, <2>2, <2>3
<1>4. CASE \E k \in 0 .. 2 : receive(k)
  BY <1>1, <1>4, ReceiveRows, NewId
<1>5. ASSUME NEW r \in Row, NEW k, NEW then, NEW rest, NEW seen, r.id = received + 1,
             poll_append(r, k, then, rest, seen), phase \in {"poll", "append trades"}
      PROVE  IdInv'
  <2>1. received' = received + 1
    BY <1>5 DEF poll_append
  <2> QED
    BY <1>1, <1>5, <2>1, PollRows, NewId
<1>6. CASE \E k \in 0 .. 2 : poll_book(k)
  <2>1. rest_envelope("book", ladder) \in Row /\ rest_envelope("book", ladder).id = received + 1
    BY <1>1, EnvelopeType DEF rest_envelope
  <2> QED
    BY <1>5, <1>6, <2>1 DEF poll_book
<1>7. CASE \E k \in 0 .. 2 : poll_trade(k)
  <2>1. PICK k \in 0 .. 2 : poll_trade(k)
    BY <1>7
  <2> DEFINE r == rest_envelope("trade", Head(answer))
  <2>2. /\ phase = "append trades" /\ answer # <<>>
        /\ poll_append(r, k, phase, Tail(answer), seen_trades \cup {Head(answer)})
    BY <2>1 DEF poll_trade
  <2>3. Head(answer) \in Nat
    <3> DEFINE a == answer
    <3>1. a \in Seq(Nat) /\ a # <<>>
      BY <1>1, <2>2 DEF StoreInv, BufferInv
    <3> HIDE DEF a
    <3>2. Head(a) \in Nat
      BY <3>1
    <3> QED
      BY <3>2 DEF a
  <2>4. r \in Row
    BY <1>1, <2>3, EnvelopeType
  <2>5. r.id = received + 1
    BY DEF rest_envelope
  <2> HIDE DEF r
  <2> QED
    BY <1>5, <2>2, <2>4, <2>5
<1>8. [Next]_vars => \/ UNCHANGED vars \/ Quiet
                     \/ \E k \in 0 .. 2 : receive(k)
                     \/ \E k \in 0 .. 2 : poll_book(k)
                     \/ \E k \in 0 .. 2 : poll_trade(k)
  BY DEF Next, Quiet
<1> QED
  BY <1>1, <1>2, <1>3, <1>4, <1>6, <1>7, <1>8

-----------------------------------------------------------------------------
(* A trade is stored once for every process that polled it.                *)

OfTrade(rows, t) == {r.id : r \in {r \in rows : r.channel = "trade" /\ r.content = t}}

(* A process that has not seen a trade leaves room for one more copy.      *)
TradeInv ==
    command = "capture_rest" =>
        /\ starts \in Nat
        /\ phase = "append trades" =>
              Increasing(answer) /\ \A k \in DOMAIN answer : answer[k] \notin seen_trades
        /\ \A t \in Nat :
              /\ Cardinality(OfTrade(AllRows, t)) <= starts
              /\ phase # "down" /\ t \notin seen_trades =>
                     Cardinality(OfTrade(AllRows, t)) < starts

(* The copies of a trade are finitely many.                                *)
LEMMA FewCopies ==
    ASSUME StoreInv, IdInv, NEW t
    PROVE  /\ IsFiniteSet(OfTrade(AllRows, t)) /\ Cardinality(OfTrade(AllRows, t)) \in Nat
           /\ received + 1 \notin OfTrade(AllRows, t)
<1>1. received \in Nat
  BY DEF StoreInv, BufferInv
<1>2. OfTrade(AllRows, t) \subseteq 1 .. received
  BY DEF OfTrade, IdInv
<1>3. IsFiniteSet(1 .. received) /\ received + 1 \notin 1 .. received
  BY <1>1, FS_Interval
<1>4. IsFiniteSet(OfTrade(AllRows, t))
  BY <1>2, <1>3, FS_Subset
<1> QED
  BY <1>2, <1>3, <1>4, FS_CardinalityType

(* Fewer envelopes, fewer copies; and one envelope is one copy at most.    *)
LEMMA CopiesCounted ==
    ASSUME StoreInv, IdInv, NEW R, NEW t
    PROVE  /\ R \subseteq AllRows =>
                 /\ Cardinality(OfTrade(R, t)) \in Nat
                 /\ Cardinality(OfTrade(R, t)) <= Cardinality(OfTrade(AllRows, t))
           /\ \A r : r.id = received + 1 /\ R \subseteq AllRows \cup {r} =>
                 /\ Cardinality(OfTrade(R, t)) \in Nat
                 /\ Cardinality(OfTrade(R, t)) <= Cardinality(OfTrade(AllRows, t)) + 1
                 /\ ~(r.channel = "trade" /\ r.content = t) =>
                        Cardinality(OfTrade(R, t)) <= Cardinality(OfTrade(AllRows, t))
           /\ Cardinality(OfTrade(AllRows, t)) \in Nat
<1> DEFINE C == OfTrade(AllRows, t)
<1>1. IsFiniteSet(C) /\ Cardinality(C) \in Nat
  BY FewCopies
<1>2. ASSUME R \subseteq AllRows
      PROVE  Cardinality(OfTrade(R, t)) \in Nat /\ Cardinality(OfTrade(R, t)) <= Cardinality(C)
  <2>1. OfTrade(R, t) \subseteq C
    BY <1>2 DEF OfTrade
  <2> HIDE DEF C
  <2> QED
    BY <1>1, <2>1, FS_Subset, FS_CardinalityType
<1>3. ASSUME NEW r, r.id = received + 1, R \subseteq AllRows \cup {r}
      PROVE  /\ Cardinality(OfTrade(R, t)) \in Nat
             /\ Cardinality(OfTrade(R, t)) <= Cardinality(C) + 1
             /\ ~(r.channel = "trade" /\ r.content = t) => Cardinality(OfTrade(R, t)) <= Cardinality(C)
  <2> DEFINE D == C \cup {received + 1}
  <2>1. OfTrade(R, t) \subseteq D
    BY <1>3 DEF OfTrade
  <2>2. ~(r.channel = "trade" /\ r.content = t) => OfTrade(R, t) \subseteq C
    BY <1>3 DEF OfTrade
  <2> HIDE DEF C
  <2>3. IsFiniteSet(D) /\ Cardinality(D) <= Cardinality(C) + 1
    <3>1. /\ IsFiniteSet(C \cup {received + 1})
          /\ Cardinality(C \cup {received + 1}) = IF received + 1 \in C THEN Cardinality(C)
                                                  ELSE Cardinality(C) + 1
      BY <1>1, FS_AddElement
    <3> QED
      BY <1>1, <3>1
  <2> HIDE DEF D
  <2>4. Cardinality(OfTrade(R, t)) <= Cardinality(D) /\ Cardinality(D) \in Nat
        /\ Cardinality(OfTrade(R, t)) \in Nat
    BY <2>1, <2>3, FS_Subset, FS_CardinalityType
  <2>5. ~(r.channel = "trade" /\ r.content = t) => Cardinality(OfTrade(R, t)) <= Cardinality(C)
    BY <1>1, <2>2, FS_Subset
  <2> QED
    BY <1>1, <2>3, <2>4, <2>5
<1> QED
  BY <1>1, <1>2, <1>3

(* Room for a count is room for a smaller one.                             *)
LEMMA Below ==
    \A c, d, s \in Nat : c <= d /\ d <= s => c <= s /\ (d < s => c < s)
OBVIOUS

(* Steps that append no trade.                                             *)
LEMMA NoTradeAppended ==
    ASSUME StoreInv, IdInv, TradeInv, command' = command, starts' = starts,
           \/ AllRows' \subseteq AllRows
           \/ \E r : r.id = received + 1 /\ r.channel # "trade" /\ AllRows' \subseteq AllRows \cup {r},
           phase' # "down" => phase # "down" /\ seen_trades' = seen_trades,
           phase' = "append trades" /\ command = "capture_rest" =>
               Increasing(answer') /\ \A k \in DOMAIN answer' : answer'[k] \notin seen_trades'
    PROVE  TradeInv'
<1>1. SUFFICES ASSUME command = "capture_rest"
               PROVE  TradeInv'
  BY DEF TradeInv
<1>2. /\ starts \in Nat
      /\ \A t \in Nat :
            /\ Cardinality(OfTrade(AllRows, t)) <= starts
            /\ phase # "down" /\ t \notin seen_trades =>
                   Cardinality(OfTrade(AllRows, t)) < starts
  BY <1>1 DEF TradeInv
<1>3. ASSUME NEW t \in Nat
      PROVE  /\ Cardinality(OfTrade(AllRows', t)) <= starts'
             /\ phase' # "down" /\ t \notin seen_trades' =>
                    Cardinality(OfTrade(AllRows', t)) < starts'
  <2> DEFINE R == AllRows'
  <2>1. \/ R \subseteq AllRows
        \/ \E r : r.id = received + 1 /\ r.channel # "trade" /\ R \subseteq AllRows \cup {r}
    OBVIOUS
  <2>2. starts' = starts /\ starts \in Nat /\ Cardinality(OfTrade(AllRows, t)) <= starts
    BY <1>2
  <2>3. phase' # "down" /\ t \notin seen_trades' => Cardinality(OfTrade(AllRows, t)) < starts
    BY <1>2
  <2> HIDE DEF R
  <2>4. /\ Cardinality(OfTrade(R, t)) \in Nat /\ Cardinality(OfTrade(AllRows, t)) \in Nat
        /\ Cardinality(OfTrade(R, t)) <= Cardinality(OfTrade(AllRows, t))
    BY <2>1, CopiesCounted
  <2>5. /\ Cardinality(OfTrade(R, t)) <= starts'
        /\ phase' # "down" /\ t \notin seen_trades' => Cardinality(OfTrade(R, t)) < starts'
    <3>1. PICK c \in Nat : c = Cardinality(OfTrade(R, t))
      BY <2>4
    <3>2. PICK d \in Nat : d = Cardinality(OfTrade(AllRows, t))
      BY <2>4
    <3>3. PICK s \in Nat : s = starts
      BY <2>2
    <3>4. c <= d /\ d <= s
      BY <2>2, <2>4, <3>1, <3>2, <3>3
    <3>5. c <= s /\ (d < s => c < s)
      BY <3>4, Below
    <3> QED
      BY <2>2, <2>3, <3>1, <3>2, <3>3, <3>5
  <2> QED
    BY <2>5 DEF R
<1> QED
  BY <1>1, <1>2, <1>3 DEF TradeInv

(* The steps that append nothing at all.                                   *)
LEMMA QuietTrades ==
    ASSUME StoreInv, IdInv, TradeInv, Quiet
    PROVE  TradeInv'
<1>1. AllRows' \subseteq AllRows
  BY QuietRows
<1>2. SUFFICES ASSUME command = "capture_rest"
               PROVE  TradeInv'
  <2>1. command' = command
    BY DEF Quiet, venue_delta, venue_trade, tick, start, discover, connect, disconnect,
           stop_session, end_session, last_flush, get_trades, next_poll, kill, normalize, process
  <2> QED
    BY <2>1 DEF TradeInv
<1>3. /\ ControlInv /\ LinkInv /\ trades \in Nat
  BY DEF StoreInv, VenueInv
<1>4. /\ phase \in {"down", "poll", "trades", "append trades"} /\ ~up
  BY <1>2, <1>3 DEF ControlInv, LinkInv, Phases
<1>5. /\ starts \in Nat
      /\ phase = "append trades" =>
            Increasing(answer) /\ \A k \in DOMAIN answer : answer[k] \notin seen_trades
      /\ \A t \in Nat : Cardinality(OfTrade(AllRows, t)) <= starts
  BY <1>2 DEF TradeInv
<1>6. ASSUME UNCHANGED <<command, starts, phase, answer, seen_trades>>
      PROVE  TradeInv'
  BY <1>1, <1>5, <1>6, NoTradeAppended
<1>7. ASSUME start
      PROVE  TradeInv'
  <2>1. phase' = "poll" /\ starts' = starts + 1 /\ command' = command
    BY <1>2, <1>7 DEF start
  <2>2. ASSUME NEW t \in Nat
        PROVE  Cardinality(OfTrade(AllRows', t)) < starts'
    <3> DEFINE R == AllRows'
    <3>1. R \subseteq AllRows
      BY <1>1
    <3> HIDE DEF R
    <3>2. /\ Cardinality(OfTrade(R, t)) \in Nat /\ Cardinality(OfTrade(AllRows, t)) \in Nat
          /\ Cardinality(OfTrade(R, t)) <= Cardinality(OfTrade(AllRows, t))
      BY <3>1, CopiesCounted
    <3>3. Cardinality(OfTrade(AllRows, t)) <= starts /\ starts \in Nat
      BY <1>5
    <3>4. Cardinality(OfTrade(R, t)) < starts + 1
      BY <3>2, <3>3
    <3> QED
      BY <2>1, <3>4 DEF R
  <2>3. starts' \in Nat
    <3>1. starts \in Nat
      BY <1>5
    <3>2. starts + 1 \in Nat
      BY <3>1
    <3> QED
      BY <2>1, <3>2
  <2>4. \A t \in Nat : /\ Cardinality(OfTrade(AllRows', t)) <= starts'
                       /\ Cardinality(OfTrade(AllRows', t)) < starts'
    <3>1. ASSUME NEW t \in Nat
          PROVE  Cardinality(OfTrade(AllRows', t)) \in Nat
      <4> DEFINE R == AllRows'
      <4>1. R \subseteq AllRows
        BY <1>1
      <4> HIDE DEF R
      <4>2. Cardinality(OfTrade(R, t)) \in Nat
        BY <4>1, CopiesCounted
      <4> QED
        BY <4>2 DEF R
    <3>2. \A c, s \in Nat : c < s => c <= s
      OBVIOUS
    <3> QED
      BY <2>2, <2>3, <3>1, <3>2
  <2> QED
    BY <2>1, <2>3, <2>4 DEF TradeInv
<1>8. ASSUME get_trades
      PROVE  TradeInv'
  <2>1. /\ phase = "trades" /\ answer' = new_trades(trades)
        /\ UNCHANGED <<command, starts, seen_trades>>
    BY <1>8 DEF get_trades
  <2>2. Increasing(answer') /\ \A k \in DOMAIN answer' : answer'[k] \notin seen_trades'
    BY <1>3, <2>1, NewTrades
  <2> QED
    BY <1>1, <2>1, <2>2, NoTradeAppended
<1>9. ASSUME next_poll
      PROVE  TradeInv'
  <2>1. /\ phase = "append trades" /\ phase' = "poll"
        /\ UNCHANGED <<command, starts, seen_trades>>
    BY <1>9 DEF next_poll, polling
  <2> QED
    BY <1>1, <2>1, NoTradeAppended
<1>10. ASSUME NEW k, NEW torn, last_flush(k) \/ kill(k, torn)
       PROVE  TradeInv'
  <2>1. phase' = "down" /\ UNCHANGED <<command, starts>>
    BY <1>10 DEF last_flush, kill, take_down
  <2> QED
    BY <1>1, <2>1, NoTradeAppended
<1>11. \/ UNCHANGED <<command, starts, phase, answer, seen_trades>>
       \/ start \/ get_trades \/ next_poll
       \/ \E k, torn : last_flush(k) \/ kill(k, torn)
  BY <1>4 DEF Quiet, venue_delta, venue_trade, tick, discover, connect, disconnect, stop_session,
              end_session, normalize, process, polling
<1> QED
  BY <1>6, <1>7, <1>8, <1>9, <1>10, <1>11

(* A trade that is polled is the next one of the answer, not seen before.  *)
LEMMA PollTradeTrades ==
    ASSUME StoreInv, IdInv, TradeInv, NEW k, poll_trade(k)
    PROVE  TradeInv'
<1> DEFINE h == Head(answer)
           r == rest_envelope("trade", h)
           a == answer
<1>1. /\ phase = "append trades" /\ answer # <<>> /\ command = "capture_rest"
      /\ poll_append(r, k, phase, Tail(answer), seen_trades \cup {h})
      /\ answer \in Seq(Nat)
  BY DEF poll_trade, StoreInv, ControlInv, BufferInv
<1>2. /\ starts \in Nat
      /\ Increasing(answer) /\ \A i \in DOMAIN answer : answer[i] \notin seen_trades
      /\ \A t \in Nat :
            /\ Cardinality(OfTrade(AllRows, t)) <= starts
            /\ t \notin seen_trades => Cardinality(OfTrade(AllRows, t)) < starts
  BY <1>1 DEF TradeInv
<1>3. /\ h \in Nat /\ h \notin seen_trades
      /\ Tail(answer) \in Seq(Nat) /\ Increasing(Tail(answer))
      /\ \A i \in DOMAIN Tail(answer) : Tail(answer)[i] \notin seen_trades \cup {h}
  <2>1. /\ a \in Seq(Nat) /\ a # <<>> /\ Increasing(a)
        /\ \A i \in DOMAIN a : a[i] \notin seen_trades
    BY <1>1, <1>2
  <2> HIDE DEF a
  <2>2. /\ Head(a) = a[1] /\ 1 \in DOMAIN a /\ Tail(a) \in Seq(Nat)
        /\ \A i \in DOMAIN Tail(a) : /\ i + 1 \in DOMAIN a /\ Tail(a)[i] = a[i + 1]
                                     /\ i \in Nat /\ i > 0
    BY <2>1
  <2>3. \A i \in DOMAIN a : a[i] \in Nat
    BY <2>1
  <2>4. Increasing(Tail(a))
    BY <2>1, <2>2 DEF Increasing
  <2>5. \A i \in DOMAIN Tail(a) : a[1] < a[i + 1]
    <3>1. \A i \in DOMAIN Tail(a) : 1 < i + 1
      BY <2>2
    <3> QED
      BY <2>1, <2>2, <3>1 DEF Increasing
  <2>6. \A i \in DOMAIN Tail(a) : Tail(a)[i] \notin seen_trades \cup {Head(a)}
    BY <2>1, <2>2, <2>3, <2>5
  <2>7. Head(a) \in Nat /\ Head(a) \notin seen_trades
    BY <2>1, <2>2, <2>3
  <2> QED
    BY <2>2, <2>4, <2>6, <2>7 DEF a
<1>4. r \in Row /\ r.id = received + 1 /\ r.content = h
  <2>1. r \in Row
    BY <1>3, EnvelopeType
  <2> QED
    BY <2>1 DEF rest_envelope
<1> HIDE DEF r, h
<1>5. AllRows' \subseteq AllRows \cup {r}
  BY <1>1, <1>4, PollRows
<1>6. /\ UNCHANGED <<command, starts>>
      /\ \/ phase' = "down"
         \/ phase' = phase /\ answer' = Tail(answer) /\ seen_trades' = seen_trades \cup {h}
  BY <1>1 DEF poll_append, take_down
<1>7. ASSUME NEW t \in Nat
      PROVE  /\ Cardinality(OfTrade(AllRows', t)) <= starts
             /\ phase' # "down" /\ t \notin seen_trades' =>
                    Cardinality(OfTrade(AllRows', t)) < starts
  <2> DEFINE R == AllRows'
  <2>1. R \subseteq AllRows \cup {r}
    BY <1>5
  <2>2. /\ Cardinality(OfTrade(AllRows, t)) <= starts
        /\ t \notin seen_trades => Cardinality(OfTrade(AllRows, t)) < starts
    BY <1>2
  <2>3. phase' # "down" /\ t \notin seen_trades' => t # h /\ t \notin seen_trades
    BY <1>6
  <2> HIDE DEF R
  <2>4. /\ Cardinality(OfTrade(R, t)) \in Nat /\ Cardinality(OfTrade(AllRows, t)) \in Nat
        /\ Cardinality(OfTrade(R, t)) <= Cardinality(OfTrade(AllRows, t)) + 1
        /\ t # h => Cardinality(OfTrade(R, t)) <= Cardinality(OfTrade(AllRows, t))
    BY <1>4, <2>1, CopiesCounted
  <2>5. \A c, d, s \in Nat : /\ c <= d /\ d <= s => c <= s
                             /\ c <= d /\ d < s => c < s
                             /\ c <= d + 1 /\ d < s => c <= s
    OBVIOUS
  <2>6. CASE t = h
    BY <1>2, <1>3, <2>2, <2>3, <2>4, <2>5, <2>6 DEF R
  <2>7. CASE t # h
    BY <1>2, <2>2, <2>3, <2>4, <2>5, <2>7 DEF R
  <2> QED
    BY <2>6, <2>7
<1>8. phase' = "append trades" =>
          Increasing(answer') /\ \A i \in DOMAIN answer' : answer'[i] \notin seen_trades'
  BY <1>3, <1>6
<1> QED
  BY <1>2, <1>6, <1>7, <1>8 DEF TradeInv

(* Every step keeps the copies of a trade within the number of starts.     *)
LEMMA TradeStep == StoreInv /\ IdInv /\ TradeInv /\ [Next]_vars => TradeInv'
<1>1. SUFFICES ASSUME StoreInv, IdInv, TradeInv, [Next]_vars
               PROVE  TradeInv'
  OBVIOUS
<1>2. CASE UNCHANGED vars
  BY <1>1, <1>2 DEF vars, polling, TradeInv, AllRows
<1>3. CASE Quiet
  BY <1>1, <1>3, QuietTrades
<1>4. ASSUME NEW k, receive(k)
      PROVE  TradeInv'
  <2>1. phase = "session"
    BY <1>1, <1>4, ReceiveRows
  <2>2. command # "capture_rest" /\ command' = command
    BY <1>1, <1>4, <2>1 DEF StoreInv, ControlInv, receive
  <2> QED
    BY <2>2 DEF TradeInv
<1>5. ASSUME NEW k, poll_book(k)
      PROVE  TradeInv'
  <2> DEFINE r == rest_envelope("book", ladder)
  <2>1. phase = "poll" /\ poll_append(r, k, "trades", <<>>, seen_trades)
    BY <1>5 DEF poll_book
  <2>2. r \in Row /\ r.id = received + 1 /\ r.channel # "trade"
    BY <1>1, EnvelopeType DEF rest_envelope
  <2> HIDE DEF r
  <2>3. AllRows' \subseteq AllRows \cup {r}
    BY <1>1, <2>1, <2>2, PollRows
  <2>4. /\ UNCHANGED <<command, starts>>
        /\ phase' = "down" \/ (phase' = "trades" /\ seen_trades' = seen_trades)
    BY <2>1 DEF poll_append, take_down
  <2> QED
    BY <1>1, <2>1, <2>2, <2>3, <2>4, NoTradeAppended
<1>6. ASSUME NEW k, poll_trade(k)
      PROVE  TradeInv'
  BY <1>1, <1>6, PollTradeTrades
<1>7. [Next]_vars => \/ UNCHANGED vars \/ Quiet
                     \/ \E k : receive(k) \/ poll_book(k) \/ poll_trade(k)
  BY DEF Next, Quiet
<1> QED
  BY <1>1, <1>2, <1>3, <1>4, <1>5, <1>6, <1>7

(* At the start nothing is stored.                                         *)
LEMMA TradesInitially == Init => IdInv /\ TradeInv
<1>1. SUFFICES ASSUME Init
               PROVE  IdInv /\ TradeInv
  OBVIOUS
<1>2. phase = "down" /\ starts = 0 /\ buffer = <<>> /\ files = <<>>
  BY <1>1 DEF Init
<1>3. AllRows = {}
  BY <1>2 DEF AllRows, Elements, OnFile
<1>4. \A t : OfTrade(AllRows, t) = {}
  BY <1>3 DEF OfTrade
<1>5. \A t : Cardinality(OfTrade(AllRows, t)) <= starts
  <2>1. Cardinality({}) = 0
    BY FS_EmptySet
  <2>2. \A t : Cardinality(OfTrade(AllRows, t)) = 0
    BY <1>4, <2>1
  <2>3. 0 <= starts
    BY <1>2
  <2> QED
    BY <2>2, <2>3
<1> QED
  BY <1>2, <1>3, <1>5 DEF IdInv, TradeInv

(* A REST trade is stored once for every process that polled it, whatever  *)
(* flushes fail: "Trades are only appended once so repeated                *)
(* /markets/trades calls do not inflate passive fill volume"               *)
(* (capture_kalshi_rest_polls).                                            *)
THEOREM TradesStoredOnce == Spec => []TradesNotInflated
<1>1. TradeInv => TradesNotInflated
  <2>1. SUFFICES ASSUME TradeInv, command = "capture_rest", NEW t \in 1 .. trades
                 PROVE  Cardinality(ids_of(buffer, t) \cup
                                    UNION {ids_of(files[f].rows, t) : f \in DOMAIN files}) <= starts
    BY DEF TradesNotInflated
  <2>2. \A rows : ids_of(rows, t) = OfTrade(Elements(rows), t)
    BY DEF ids_of, OfTrade, Elements
  <2>3. UNION {ids_of(files[f].rows, t) : f \in DOMAIN files} = OfTrade(OnFile(files), t)
    BY <2>2 DEF OnFile, OfTrade
  <2>4. OfTrade(AllRows, t) = OfTrade(Elements(buffer), t) \cup OfTrade(OnFile(files), t)
    BY DEF AllRows, OfTrade
  <2>5. Cardinality(OfTrade(AllRows, t)) <= starts
    <3>1. t \in Nat
      BY <2>1
    <3> QED
      BY <2>1, <3>1 DEF TradeInv
  <2> QED
    BY <2>2, <2>3, <2>4, <2>5
<1>2. StoreInv /\ IdInv /\ TradeInv /\ [Next]_vars => (StoreInv /\ IdInv /\ TradeInv)'
  BY StoreStep, IdStep, TradeStep
<1>3. Init => StoreInv /\ IdInv /\ TradeInv
  BY StoreInitially, TradesInitially
<1> QED
  BY <1>1, <1>2, <1>3, PTL DEF Spec

-----------------------------------------------------------------------------
(* The sequence cache of the client remembers every subscription.          *)

CacheInv == \A k, l \in DOMAIN last_seq : last_seq[k].sid = last_seq[l].sid => k = l

(* It has room for both of them.                                           *)
LEMMA CacheRoom == MaxSequenceCache \in Nat /\ MaxSequenceCache >= 2
<1> DEFINE one == {BookSid}
           both == {BookSid, TradeSid}
<1>1. IsFiniteSet(one) /\ Cardinality(one) = 1
  BY FS_Singleton
<1>2. both = one \cup {TradeSid} /\ TradeSid \notin one
  BY DEF BookSid, TradeSid
<1> HIDE DEF one, both
<1>3. Cardinality(both) = Cardinality(one) + 1
  BY <1>1, <1>2, FS_AddElement
<1>4. MaxSequenceCache \in Nat /\ MaxSequenceCache >= Cardinality(both)
  BY CacheAssumption DEF both
<1> QED
  BY <1>1, <1>3, <1>4

(* What is expected next on a subscription that is remembered.             *)
LEMMA Expected ==
    ASSUME CacheInv, NEW k \in DOMAIN last_seq
    PROVE  expected(last_seq[k].sid) = last_seq[k].seq + 1
<1> DEFINE at == {l \in DOMAIN last_seq : last_seq[l].sid = last_seq[k].sid}
<1>1. at = {k}
  BY DEF CacheInv
<1>2. (CHOOSE l \in at : TRUE) = k
  BY <1>1
<1>3. expected(last_seq[k].sid) =
          IF at = {} THEN None ELSE last_seq[CHOOSE l \in at : TRUE].seq + 1
  BY DEF expected
<1> HIDE DEF at
<1> QED
  BY <1>1, <1>2, <1>3

(* Remembering a number on one subscription forgets none on the other.     *)
LEMMA Cached ==
    ASSUME LinkInv, CacheInv, NEW sid \in Sids, NEW n \in Nat
    PROVE  LET later == remember_sequence(sid, n)
           IN  /\ \E k \in DOMAIN later : later[k] = [sid |-> sid, seq |-> n]
               /\ \A k \in DOMAIN last_seq : last_seq[k].sid # sid =>
                      \E l \in DOMAIN later : later[l] = last_seq[k]
               /\ \A k, l \in DOMAIN later : later[k].sid = later[l].sid => k = l
<1> DEFINE E == [sid : Sids, seq : Nat]
           s == last_seq
           others == {k \in DOMAIN s : s[k].sid # sid}
           kept == select(s, others)
           e == [sid |-> sid, seq |-> n]
           later == Append(kept, e)
           from == Max({1, Len(later) - MaxSequenceCache + 1})
<1>1. s \in Seq(E) /\ \A k, l \in DOMAIN s : s[k].sid = s[l].sid => k = l
  BY DEF LinkInv, CacheInv
<1>2. remember_sequence(sid, n) = SubSeq(later, from, Len(later))
  BY DEF remember_sequence
<1>3. e \in E /\ e.sid = sid
  OBVIOUS
<1> HIDE DEF s, e
<1>4. \A k \in DOMAIN s : s[k].sid \in Sids
  <2>1. \A k \in DOMAIN s : s[k] \in E
    <3> HIDE DEF E
    <3> QED
      BY <1>1
  <2> QED
    BY <2>1
<1>5. others \subseteq DOMAIN s /\ \A k, l \in others : k = l
  BY <1>1, <1>4 DEF Sids
<1>6. /\ kept \in Seq(E)
      /\ \A k \in DOMAIN kept : \E i \in others : kept[k] = s[i]
      /\ \A i \in others : \E k \in DOMAIN kept : kept[k] = s[i]
      /\ Len(kept) = Cardinality(others)
  <2> HIDE DEF others, E
  <2> QED
    BY <1>1, <1>5, Selected
<1>7. \A k \in DOMAIN kept : kept[k].sid # sid
  BY <1>6
<1>8. Len(kept) <= 1
  <2>1. CASE others = {}
    <3>1. Cardinality(others) = 0
      BY <2>1, FS_EmptySet
    <3>2. Len(kept) = 0
      BY <1>6, <3>1
    <3> QED
      BY <3>2
  <2>2. CASE others # {}
    <3>1. PICK x \in others : TRUE
      BY <2>2
    <3>2. others = {x}
      BY <1>5, <3>1
    <3>3. Cardinality(others) = 1
      BY <3>2, FS_Singleton
    <3>4. Len(kept) = 1
      BY <1>6, <3>3
    <3> QED
      BY <3>4
  <2> QED
    BY <2>1, <2>2
<1> HIDE DEF E, kept, others
<1>9. /\ later \in Seq(E) /\ Len(later) = Len(kept) + 1
      /\ \A k \in DOMAIN kept : k \in DOMAIN later /\ later[k] = kept[k] /\ k = 1
      /\ \A k \in DOMAIN later : (k \in DOMAIN kept /\ later[k] = kept[k]) \/ k = Len(later)
      /\ Len(later) \in DOMAIN later /\ later[Len(later)] = e
  BY <1>3, <1>6, <1>8
<1> HIDE DEF later
<1>10. Len(later) \in Nat /\ Len(later) <= 2
  BY <1>6, <1>8, <1>9
<1>11. from = 1
  <2>1. Len(later) - MaxSequenceCache + 1 \in Int /\ Len(later) - MaxSequenceCache + 1 <= 1
    BY <1>10, CacheRoom
  <2> QED
    BY <2>1, MaxOfTwo
<1>12. SubSeq(later, 1, Len(later)) = later
  BY <1>9
<1>13. remember_sequence(sid, n) = later
  BY <1>2, <1>11, <1>12
<1>14. \A k \in DOMAIN s : s[k].sid # sid => \E l \in DOMAIN later : later[l] = s[k]
  <2>1. ASSUME NEW k \in DOMAIN s, s[k].sid # sid
        PROVE  \E l \in DOMAIN later : later[l] = s[k]
    <3>1. k \in others
      BY <2>1 DEF others
    <3> QED
      BY <3>1, <1>6, <1>9
  <2> QED
    BY <2>1
<1>15. \A k, l \in DOMAIN later : later[k].sid = later[l].sid => k = l
  BY <1>3, <1>7, <1>9
<1> QED
  BY <1>9, <1>13, <1>14, <1>15 DEF s, e

-----------------------------------------------------------------------------
(* How envelopes in the store continue one another.                        *)

BookRow(r) == r.channel \in {"orderbook_snapshot", "orderbook_delta"}

(* A delta that is not marked with a gap, and an envelope it continues      *)
(* among rows.                                                             *)
Continues(b) == b.channel = "orderbook_delta" /\ ~b.sequence_gap

Follows(p, b, rows) ==
    /\ BookRow(p) /\ p.id < b.id
    /\ b.truth = apply_delta(p.truth, b.content)
    /\ \A q \in rows : BookRow(q) => ~(p.id < q.id /\ q.id < b.id)

(* A buffer is in the order of arrival, so its days are too.               *)
InTime(rows) ==
    \A i, j \in DOMAIN rows :
        i <= j => rows[i].received_at <= rows[j].received_at /\ rows[i].id <= rows[j].id

(* On file there is never a delta without what it continues, and with the  *)
(* buffer on top there is none either.                                     *)
Chained(stored, rows) ==
    /\ InTime(rows)
    /\ \A b \in stored : Continues(b) =>
          \E p \in stored : Follows(p, b, stored \cup Elements(rows))
    /\ \A b \in Elements(rows) : Continues(b) =>
          \E p \in stored \cup Elements(rows) : Follows(p, b, stored \cup Elements(rows))

(* Days do not decrease with time.                                         *)
LEMMA DaysInOrder ==
    ASSUME NEW s \in Nat, NEW t \in Nat, s <= t
    PROVE  day(s) \in Int /\ day(t) \in Int /\ day(s) <= day(t)
<1>1. DayLength \in Nat \ {0}
  BY CacheAssumption
<1>2. \A d \in Nat \ {0} : s \div d \in Int /\ t \div d \in Int /\ s \div d <= t \div d
  OBVIOUS
<1> QED
  BY <1>1, <1>2 DEF day

(* A flush that writes some of its partitions has written, with each row,  *)
(* every row that came before it: the days of a buffer in the order of     *)
(* arrival are written in order (_flush_raw).                              *)
LEMMA EarlierWritten ==
    ASSUME NEW rows \in Seq(Row), InTime(rows),
           NEW k \in 0 .. Len(by_partition(rows)),
           NEW i \in DOMAIN rows, NEW j \in DOMAIN rows, i <= j,
           rows[j] \in OnFile(SubSeq(by_partition(rows), 1, k))
    PROVE  rows[i] \in OnFile(SubSeq(by_partition(rows), 1, k))
<1> DEFINE firsts == Firsts(rows)
           first == in_order(firsts)
           n == Cardinality(firsts)
           all == by_partition(rows)
           part(p) == select(rows, SameDay(rows, first[p]))
<1>1. /\ n \in Nat /\ first \in [1 .. n -> firsts] /\ Increasing(first)
      /\ \A x \in firsts : \E p \in 1 .. n : first[p] = x
      /\ \A x \in DOMAIN rows : \E f \in firsts : f \in SameDay(rows, x)
  BY FirstsListed
<1>2. all = [p \in 1 .. n |-> [torn |-> FALSE, rows |-> part(p)]]
  <2>1. all = [p \in DOMAIN first |-> [torn |-> FALSE, rows |-> part(p)]]
    BY DEF by_partition, SameDay, Firsts
  <2> QED
    BY <1>1, <2>1
<1>3. all \in Seq(File)
  BY Partitioned
<1>4. firsts \subseteq DOMAIN rows /\ \A x : SameDay(rows, x) \subseteq DOMAIN rows
  BY DEF Firsts, SameDay
<1> HIDE DEF firsts, first, n, all
<1>5. Len(all) = n
  <2>1. DOMAIN all = 1 .. n
    BY <1>2
  <2> QED
    BY <1>1, <1>3, <2>1
<1>6. k \in 0 .. n /\ DOMAIN SubSeq(all, 1, k) = 1 .. k
  BY <1>1, <1>3, <1>5 DEF all
<1>7. \A p \in 1 .. k : SubSeq(all, 1, k)[p] = all[p] /\ p \in 1 .. n
  BY <1>1, <1>3, <1>5, <1>6
<1>8. \A p \in 1 .. k : SubSeq(all, 1, k)[p].rows = part(p)
  BY <1>2, <1>7
<1> DEFINE written == SubSeq(all, 1, k)
<1> HIDE DEF written
<1>9. PICK p \in 1 .. k : rows[j] \in Elements(part(p))
  BY <1>6, <1>8 DEF OnFile, written, all
<1>10. first[p] \in firsts /\ p \in 1 .. n
  BY <1>1, <1>7, <1>9
<1>11. PICK y \in SameDay(rows, first[p]) : rows[j] = rows[y]
  <2>1. \A x \in DOMAIN part(p) : \E y \in SameDay(rows, first[p]) : part(p)[x] = rows[y]
    BY <1>4, Selected
  <2> HIDE DEF part
  <2> QED
    BY <1>9, <2>1 DEF Elements
<1>12. j \in SameDay(rows, first[p])
  BY <1>11 DEF SameDay
<1>13. first[p] \in DOMAIN rows /\ first[p] <= j
  BY <1>4, <1>10, <1>12 DEF firsts, Firsts
<1>14. PICK g \in firsts : g \in SameDay(rows, i)
  BY <1>1
<1>15. i \in SameDay(rows, g) /\ g \in DOMAIN rows /\ g <= i
  BY <1>4, <1>14 DEF firsts, Firsts, SameDay
<1>16. PICK q \in 1 .. n : first[q] = g
  BY <1>1
<1>17. q <= p
  <2>1. SUFFICES ASSUME p < q
                 PROVE  FALSE
    BY <1>1, <1>10, <1>16
  <2>2. first[p] < g
    BY <1>1, <1>10, <1>16, <2>1 DEF Increasing
  <2> DEFINE t(x) == rows[x].received_at
  <2>3. \A x, z \in DOMAIN rows : x <= z => day(t(x)) \in Int /\ day(t(z)) \in Int /\ day(t(x)) <= day(t(z))
    <3>1. \A x \in DOMAIN rows : t(x) \in Nat
      <4>1. \A x \in DOMAIN rows : rows[x] \in Row
        OBVIOUS
      <4> QED
        BY <4>1 DEF Row
    <3>2. \A x, z \in DOMAIN rows : x <= z => t(x) <= t(z)
      BY DEF InTime
    <3> HIDE DEF t
    <3> QED
      BY <3>1, <3>2, DaysInOrder
  <2>4. day(t(first[p])) = day(t(j)) /\ day(t(g)) = day(t(i))
    BY <1>12, <1>15 DEF SameDay
  <2>5. day(t(first[p])) <= day(t(g)) /\ day(t(i)) <= day(t(j))
    <3>1. first[p] <= g
      BY <1>13, <1>15, <2>2
    <3> HIDE DEF t
    <3> QED
      BY <1>13, <1>15, <2>3, <3>1
  <2>6. day(t(first[p])) = day(t(g))
    <3> HIDE DEF t
    <3>1. day(t(first[p])) \in Int /\ day(t(g)) \in Int /\ day(t(i)) \in Int /\ day(t(j)) \in Int
      BY <1>13, <1>15, <2>3
    <3> QED
      BY <2>4, <2>5, <3>1
  <2>7. first[p] \in SameDay(rows, g)
    BY <1>13, <2>6 DEF SameDay
  <2>8. g <= first[p]
    BY <2>7 DEF firsts, Firsts
  <2> QED
    BY <1>13, <1>15, <2>2, <2>8
<1>18. q \in 1 .. k
  BY <1>1, <1>6, <1>9, <1>16, <1>17
<1>19. rows[i] \in Elements(part(q))
  <2>1. i \in SameDay(rows, first[q]) /\ SameDay(rows, first[q]) \subseteq DOMAIN rows
    BY <1>4, <1>15, <1>16
  <2>2. \E x \in DOMAIN part(q) : part(q)[x] = rows[i]
    <3> DEFINE P == SameDay(rows, first[q])
    <3>1. i \in P /\ P \subseteq DOMAIN rows /\ part(q) = select(rows, P)
      BY <2>1
    <3> HIDE DEF P, part
    <3>2. \E x \in DOMAIN select(rows, P) : select(rows, P)[x] = rows[i]
      BY <3>1, RowSelected
    <3> QED
      BY <3>1, <3>2
  <2> HIDE DEF part
  <2> QED
    BY <2>2 DEF Elements
<1>20. rows[i] \in OnFile(SubSeq(all, 1, k))
  BY <1>6, <1>8, <1>18, <1>19 DEF OnFile
<1> QED
  BY <1>20 DEF all

(* What a flush writes of a chained buffer leaves the files chained, with  *)
(* the buffer and without it.                                              *)
LEMMA ChainWritten ==
    ASSUME NEW F, NEW rows \in Seq(Row), Chained(F, rows),
           NEW k \in 0 .. Len(by_partition(rows)), Len(rows) <= BatchSize
    PROVE  LET S == OnFile(SubSeq(by_partition(rows), 1, k))
           IN  Chained(F \cup S, rows) /\ Chained(F \cup S, <<>>)
<1> DEFINE S == OnFile(SubSeq(by_partition(rows), 1, k))
           E == Elements(rows)
<1>1. S \subseteq E
  BY Flushed
<1>2. \A i, j \in DOMAIN rows : i <= j /\ rows[j] \in S => rows[i] \in S
  BY EarlierWritten DEF Chained
<1> HIDE DEF S
<1>3. \A i, j \in DOMAIN rows : rows[i].id \in Nat /\ rows[j].id \in Nat /\ (i <= j => rows[i].id <= rows[j].id)
  <2>1. \A i \in DOMAIN rows : rows[i] \in Row
    OBVIOUS
  <2>2. \A i, j \in DOMAIN rows : i <= j => rows[i].id <= rows[j].id
    BY DEF Chained, InTime
  <2> QED
    BY <2>1, <2>2 DEF Row
<1>4. ASSUME NEW b \in S, NEW p \in E, p.id < b.id
      PROVE  p \in S
  <2>1. PICK i \in DOMAIN rows : p = rows[i]
    BY <1>4 DEF Elements
  <2>2. PICK j \in DOMAIN rows : b = rows[j]
    BY <1>1, <1>4 DEF Elements
  <2>3. i <= j
    <3>1. i \in Int /\ j \in Int
      OBVIOUS
    <3>2. ~(j <= i)
      BY <1>3, <1>4, <2>1, <2>2
    <3> QED
      BY <3>1, <3>2
  <2> QED
    BY <1>2, <2>1, <2>2, <2>3
<1>5. /\ \A b \in F : Continues(b) => \E p \in F : Follows(p, b, F \cup E)
      /\ \A b \in E : Continues(b) => \E p \in F \cup E : Follows(p, b, F \cup E)
      /\ InTime(rows)
  BY DEF Chained
<1>6. \A p, b, R, Q : Q \subseteq R /\ Follows(p, b, R) => Follows(p, b, Q) /\ p.id < b.id
  BY DEF Follows
<1> HIDE DEF E
<1>7. ASSUME NEW b \in F \cup S, Continues(b)
      PROVE  \E p \in F \cup S : Follows(p, b, F \cup E)
  <2>1. CASE b \in F
    BY <1>5, <1>7, <2>1
  <2>2. CASE b \in S
    <3>1. PICK p \in F \cup E : Follows(p, b, F \cup E)
      BY <1>1, <1>5, <1>7, <2>2
    <3>2. p.id < b.id
      BY <1>6, <3>1
    <3>3. p \in F \cup S
      BY <1>4, <2>2, <3>2
    <3> QED
      BY <3>1, <3>3
  <2> QED
    BY <1>7, <2>1, <2>2
<1>8. (F \cup S) \cup E = F \cup E /\ F \cup S \subseteq F \cup E
  BY <1>1
<1>9. Elements(<<>>) = {} /\ InTime(<<>>)
  BY DEF Elements, InTime
<1>10. Chained(F \cup S, rows)
  <2>1. \A b \in F \cup S : Continues(b) => \E p \in F \cup S : Follows(p, b, (F \cup S) \cup E)
    BY <1>7, <1>8
  <2>2. \A b \in E : Continues(b) => \E p \in (F \cup S) \cup E : Follows(p, b, (F \cup S) \cup E)
    BY <1>5, <1>8
  <2> QED
    BY <1>5, <2>1, <2>2 DEF Chained, E
<1>11. Chained(F \cup S, <<>>)
  <2>1. \A b \in F \cup S : Continues(b) => \E p \in F \cup S : Follows(p, b, (F \cup S) \cup {})
    BY <1>6, <1>7, <1>8
  <2> QED
    BY <1>9, <2>1 DEF Chained
<1> QED
  BY <1>10, <1>11 DEF S

(* An envelope appended keeps the chain when it is the newest and, marked  *)
(* with no gap, continues something stored.                                *)
LEMMA ChainGrows ==
    ASSUME NEW F, NEW rows \in Seq(Row), Chained(F, rows), NEW r \in Row,
           \A q \in F \cup Elements(rows) : q.id \in Nat /\ q.id < r.id,
           \A i \in DOMAIN rows : rows[i].received_at <= r.received_at,
           Continues(r) => \E p \in F \cup Elements(rows) : Follows(p, r, F \cup Elements(rows))
    PROVE  Chained(F, Append(rows, r))
<1> DEFINE more == Append(rows, r)
           E == Elements(rows)
<1>1. Elements(more) = E \cup {r}
  BY Appended
<1>2. /\ \A i \in DOMAIN rows : i \in DOMAIN more /\ more[i] = rows[i]
      /\ Len(more) \in DOMAIN more /\ more[Len(more)] = r /\ Len(more) = Len(rows) + 1
      /\ \A i \in DOMAIN more : i \in DOMAIN rows \/ i = Len(more)
  OBVIOUS
<1>3. \A i \in DOMAIN rows : i \in 1 .. Len(rows) /\ Len(rows) \in Nat /\ rows[i] \in E
  BY DEF Elements
<1>4. r.id \in Nat /\ r.received_at \in Nat
  BY DEF Row
<1> HIDE DEF more
<1>5. InTime(more)
  <2>1. SUFFICES ASSUME NEW i \in DOMAIN more, NEW j \in DOMAIN more, i <= j
                 PROVE  more[i].received_at <= more[j].received_at /\ more[i].id <= more[j].id
    BY DEF InTime
  <2>2. CASE j \in DOMAIN rows
    <3>1. i \in DOMAIN rows
      BY <1>2, <1>3, <2>1, <2>2
    <3> QED
      BY <1>2, <2>1, <2>2, <3>1 DEF Chained, InTime
  <2>3. CASE j = Len(more) /\ i \in DOMAIN rows
    BY <1>2, <1>3, <1>4, <2>3
  <2>4. CASE j = Len(more) /\ i = Len(more)
    BY <1>2, <1>4, <2>4
  <2> QED
    BY <1>2, <2>1, <2>2, <2>3, <2>4
<1> HIDE DEF E
<1>6. ASSUME NEW p, NEW b \in F \cup E, Follows(p, b, F \cup E)
      PROVE  Follows(p, b, F \cup (E \cup {r}))
  BY <1>4, <1>6 DEF Follows, E
<1>7. \A p : Follows(p, r, F \cup E) => Follows(p, r, F \cup (E \cup {r}))
  BY <1>4 DEF Follows, E
<1>8. \A b \in F : Continues(b) => \E p \in F : Follows(p, b, F \cup (E \cup {r}))
  BY <1>6 DEF Chained, E
<1>9. \A b \in E \cup {r} : Continues(b) =>
          \E p \in F \cup (E \cup {r}) : Follows(p, b, F \cup (E \cup {r}))
  BY <1>6, <1>7 DEF Chained, E
<1> QED
  BY <1>1, <1>5, <1>8, <1>9 DEF Chained, more

-----------------------------------------------------------------------------
(* The steps of the capture keep the store chained.                        *)

ChainInv ==
    /\ Chained(OnFile(files), buffer)
    /\ \A i \in DOMAIN buffer : buffer[i].received_at <= now

(* What files a flush leaves.                                              *)
LEMMA FlushedFiles ==
    ASSUME FilesOK, NEW rows \in Seq(Row), Len(rows) <= BatchSize, NEW k, flush(rows, k)
    PROVE  /\ k \in 0 .. Len(by_partition(rows))
           /\ OnFile(files') = OnFile(files) \cup OnFile(SubSeq(by_partition(rows), 1, k))
<1> DEFINE parts == SubSeq(by_partition(rows), 1, k)
           fs == files
<1>1. k \in 0 .. Len(by_partition(rows)) /\ files' = fs \o parts
  BY DEF flush
<1>2. parts \in Seq(File)
  BY <1>1, Flushed
<1>3. fs \in Seq(File)
  BY DEF FilesOK
<1> HIDE DEF parts, fs
<1>4. OnFile(fs \o parts) = OnFile(fs) \cup OnFile(parts)
  BY <1>2, <1>3, FilesAdded
<1> QED
  BY <1>1, <1>4 DEF parts, fs

(* A flush, whatever of it is written and whatever becomes of the buffer.  *)
LEMMA FlushChains ==
    ASSUME FilesOK, NEW rows \in Seq(Row), Len(rows) <= BatchSize, NEW k, flush(rows, k),
           Chained(OnFile(files), rows)
    PROVE  Chained(OnFile(files'), rows) /\ Chained(OnFile(files'), <<>>)
<1> DEFINE F == OnFile(files)
           S == OnFile(SubSeq(by_partition(rows), 1, k))
<1>1. k \in 0 .. Len(by_partition(rows)) /\ OnFile(files') = F \cup S
  BY FlushedFiles
<1> HIDE DEF F
<1>2. Chained(F, rows)
  BY DEF F
<1>3. Chained(F \cup S, rows) /\ Chained(F \cup S, <<>>)
  BY <1>1, <1>2, ChainWritten
<1> HIDE DEF S
<1> QED
  BY <1>1, <1>3

(* Emptying the buffer leaves the files chained.                           *)
LEMMA FilesChained ==
    ASSUME NEW F, NEW rows, Chained(F, rows)
    PROVE  Chained(F, <<>>)
<1>1. Elements(<<>>) = {} /\ InTime(<<>>)
  BY DEF Elements, InTime
<1>2. \A p, b : Follows(p, b, F \cup Elements(rows)) => Follows(p, b, F)
  BY DEF Follows
<1>3. \A b \in F : Continues(b) => \E p \in F : Follows(p, b, F)
  BY <1>2 DEF Chained
<1> QED
  BY <1>1, <1>3 DEF Chained

(* The steps that append nothing keep the chain.                           *)
LEMMA QuietChain ==
    ASSUME StoreInv, ChainInv, Quiet
    PROVE  ChainInv'
<1> DEFINE rows == buffer
           F == OnFile(files)
<1>1. /\ FilesOK /\ rows \in Seq(Row) /\ Len(rows) <= BatchSize
      /\ Chained(F, rows) /\ \A i \in DOMAIN rows : rows[i].received_at <= now
      /\ now \in Nat /\ \A i \in DOMAIN rows : rows[i].received_at \in Nat
  <2>1. \A i \in DOMAIN rows : rows[i] \in Row
    <3>1. rows \in Seq(Row)
      BY DEF StoreInv, BufferInv
    <3> HIDE DEF rows
    <3> QED
      BY <3>1
  <2>2. \A i \in DOMAIN rows : rows[i].received_at \in Nat
    BY <2>1 DEF Row
  <2> QED
    BY <2>2 DEF StoreInv, BufferInv, VenueInv, ChainInv
<1>2. DOMAIN <<>> = {} /\ Chained(F, <<>>)
  BY <1>1, FilesChained
<1> HIDE DEF rows
<1>3. ASSUME files' = files, buffer' \in {<<>>, rows}, now' \in {now, now + 1}
      PROVE  ChainInv'
  <2>1. OnFile(files') = F
    BY <1>3
  <2>2. CASE buffer' = <<>>
    BY <1>2, <2>1, <2>2 DEF ChainInv
  <2>3. CASE buffer' = rows
    <3>1. \A i \in DOMAIN rows : rows[i].received_at <= now'
      BY <1>1, <1>3
    <3> HIDE DEF F
    <3> QED
      BY <1>1, <2>1, <2>3, <3>1 DEF ChainInv
  <2> QED
    BY <1>3, <2>2, <2>3
<1>4. ASSUME NEW k, flush(rows, k), buffer' \in {<<>>, rows}, now' = now
      PROVE  ChainInv'
  <2>1. Chained(OnFile(files'), rows) /\ Chained(OnFile(files'), <<>>)
    BY <1>1, <1>4, FlushChains
  <2>2. CASE buffer' = <<>>
    BY <1>2, <2>1, <2>2 DEF ChainInv
  <2>3. CASE buffer' = rows
    BY <1>1, <1>4, <2>1, <2>3 DEF ChainInv
  <2> QED
    BY <1>4, <2>2, <2>3
<1>5. ASSUME NEW k, NEW torn, kill(k, torn)
      PROVE  ChainInv'
  <2> DEFINE S == OnFile(SubSeq(by_partition(rows), 1, k))
  <2>1. k \in 0 .. Len(by_partition(rows)) /\ OnFile(files') = F \cup S
    BY <1>5, KilledFiles DEF rows
  <2>2. Chained(F \cup S, <<>>)
    <3> HIDE DEF F
    <3> QED
      BY <1>1, <2>1, ChainWritten
  <2>3. buffer' = <<>>
    BY <1>5 DEF kill, take_down
  <2> HIDE DEF S, F
  <2> QED
    BY <1>2, <2>1, <2>2, <2>3 DEF ChainInv
<1>6. ASSUME NEW k, end_session(k) \/ last_flush(k)
      PROVE  ChainInv'
  <2>1. flush(rows, k) /\ now' = now /\ buffer' \in {<<>>, rows}
    BY <1>6 DEF end_session, last_flush, take_down, after_flush, rows
  <2> QED
    BY <2>1, <1>4
<1>7. \/ \E k : end_session(k) \/ last_flush(k)
      \/ \E k, torn : kill(k, torn)
      \/ files' = files /\ buffer' \in {<<>>, rows} /\ now' \in {now, now + 1}
  BY DEF Quiet, venue_delta, venue_trade, tick, start, discover, connect, disconnect,
         stop_session, get_trades, next_poll, normalize, rows
<1> QED
  BY <1>3, <1>5, <1>6, <1>7

(* An envelope appended keeps the chain, when it continues something in    *)
(* the store or is marked.                                                 *)
LEMMA AppendChains ==
    ASSUME StoreInv, IdInv, ChainInv, NEW r \in Row, r.id = received + 1, r.received_at = now,
           NEW k, append(Append(buffer, r), k), Len(Append(buffer, r)) <= BatchSize,
           Continues(r) => \E p \in AllRows : Follows(p, r, AllRows),
           buffer' \in {<<>>, Append(buffer, r)}, now' = now
    PROVE  ChainInv'
<1> DEFINE old == buffer
           rows == Append(old, r)
           F == OnFile(files)
<1>1. /\ FilesOK /\ old \in Seq(Row) /\ received \in Nat /\ now \in Nat
      /\ Chained(F, old) /\ \A i \in DOMAIN old : old[i].received_at <= now
  BY DEF StoreInv, BufferInv, VenueInv, ChainInv
<1>2. /\ \A q \in F \cup Elements(old) : q.id \in Nat /\ q.id < r.id
      /\ Continues(r) => \E p \in F \cup Elements(old) : Follows(p, r, F \cup Elements(old))
  <2>1. \A q \in AllRows : q.id \in 1 .. received
    BY DEF IdInv
  <2>2. \A q \in AllRows : q.id \in Nat /\ q.id < r.id
    BY <1>1, <2>1
  <2>3. AllRows = F \cup Elements(old)
    BY DEF AllRows
  <2> HIDE DEF F, old
  <2> QED
    BY <2>2, <2>3
<1> HIDE DEF old, F
<1>3. Chained(F, rows)
  BY <1>1, <1>2, ChainGrows
<1>4. rows \in Seq(Row) /\ Len(rows) <= BatchSize /\ append(rows, k)
  BY <1>1 DEF old
<1>5. \A i \in DOMAIN rows : rows[i].received_at <= now
  <2>1. \A i \in DOMAIN rows : (i \in DOMAIN old /\ rows[i] = old[i]) \/ rows[i] = r
    BY <1>1
  <2> QED
    BY <1>1, <2>1
<1>6. buffer' \in {<<>>, rows} /\ DOMAIN <<>> = {}
  BY DEF old
<1> HIDE DEF rows
<1>7. Chained(OnFile(files'), rows) /\ Chained(OnFile(files'), <<>>)
  <2>1. CASE is_full(rows)
    <3>1. flush(rows, k)
      BY <1>4, <2>1 DEF append
    <3> QED
      BY <1>1, <1>3, <1>4, <3>1, FlushChains DEF F
  <2>2. CASE ~is_full(rows)
    <3>1. OnFile(files') = F
      BY <1>4, <2>2 DEF append, F
    <3>2. Chained(F, <<>>)
      BY <1>3, FilesChained
    <3> QED
      BY <1>3, <3>1, <3>2
  <2> QED
    BY <2>1, <2>2
<1>8. CASE buffer' = <<>>
  BY <1>6, <1>7, <1>8 DEF ChainInv
<1>9. CASE buffer' = rows
  BY <1>5, <1>7, <1>9 DEF ChainInv
<1> QED
  BY <1>6, <1>8, <1>9

-----------------------------------------------------------------------------
(* What is under way on a connection fits the venue's book, whose history  *)
(* since the subscription is h: h[n] is the book after message n.          *)

OnBook(m) == m.sid = BookSid

Fits(m, h) ==
    /\ m.seq \in DOMAIN h /\ m.truth = h[m.seq]
    /\ \/ m.channel = "orderbook_snapshot" /\ m.seq = 1 /\ m.content = m.truth
       \/ /\ m.channel = "orderbook_delta" /\ m.seq > 1
          /\ m.truth = apply_delta(h[m.seq - 1], m.content)

(* The snapshot is still under way, or the last book envelope stored is of *)
(* this connection, and the client remembers its number.                   *)
Anchored(h) ==
    \/ \E i \in DOMAIN wire : wire[i].channel = "orderbook_snapshot"
    \/ \E p \in AllRows :
          /\ BookRow(p) /\ \A q \in AllRows : BookRow(q) => q.id <= p.id
          /\ p.sequence \in DOMAIN h /\ p.truth = h[p.sequence]
          /\ \E k \in DOMAIN last_seq : last_seq[k] = [sid |-> BookSid, seq |-> p.sequence]
          /\ \A i \in DOMAIN wire : OnBook(wire[i]) => wire[i].seq > p.sequence

Connected(h) ==
    /\ seq[BookSid] >= 1 /\ h[seq[BookSid]] = ladder
    /\ \A i \in DOMAIN wire : IF OnBook(wire[i]) THEN Fits(wire[i], h) ELSE wire[i].channel = "trade"
    /\ \A i, j \in DOMAIN wire :
          OnBook(wire[i]) /\ OnBook(wire[j]) /\ i < j => wire[i].seq < wire[j].seq
    /\ Anchored(h)

WireInv == up => \E h \in [1 .. seq[BookSid] -> Book] : Connected(h)

(* A snapshot that is stored shows the venue's book.                       *)
SnapshotInv == \A r \in AllRows : r.channel = "orderbook_snapshot" => r.content = r.truth

(* A quantity at the venue is never negative, so KalshiNormalizer computes *)
(* the venue's book.                                                       *)
LEMMA DeltaApplied ==
    ASSUME NEW book \in Book, NEW p \in Prices, NEW d \in {-1, 1},
           [book EXCEPT ![p] = @ + d][p] \in 0 .. MaxQuantity
    PROVE  apply_delta(book, [price |-> p, delta |-> d]) = [book EXCEPT ![p] = @ + d]
<1> DEFINE x == book[p] + d
<1>1. x \in Int /\ x >= 0
  BY CacheAssumption DEF Book
<1> HIDE DEF x
<1>2. Max({0, x}) \in {0, x} /\ \A y \in {0, x} : Max({0, x}) >= y
  <2>1. \E z \in {0, x} : \A y \in {0, x} : z >= y
    BY <1>1
  <2> QED
    BY <2>1 DEF Max
<1>3. Max({0, x}) = x
  BY <1>1, <1>2
<1> QED
  BY <1>3 DEF apply_delta, x

(* A message that is received: a snapshot shows the book, and a delta that *)
(* is not marked with a gap continues the last book envelope stored.       *)
LEMMA Heard ==
    ASSUME StoreInv, IdInv, CacheInv, WireInv, NEW k, receive(k)
    PROVE  LET r == message_to_envelope(Head(wire))
           IN  /\ r.channel = "orderbook_snapshot" => r.content = r.truth
               /\ Continues(r) => \E p \in AllRows : Follows(p, r, AllRows)
<1> DEFINE w == wire
           m == Head(w)
           r == message_to_envelope(m)
           n == seq[BookSid]
<1>1. w \in Seq(Message) /\ w # <<>> /\ up /\ received \in Nat
  BY ReceiveRows DEF StoreInv, BufferInv
<1>2. PICK h \in [1 .. n -> Book] : Connected(h)
  BY <1>1 DEF WireInv
<1>3. n \in Nat
  BY DEF StoreInv, LinkInv, Sids
<1>4. /\ \A i \in DOMAIN w : IF OnBook(w[i]) THEN Fits(w[i], h) ELSE w[i].channel = "trade"
      /\ \A i, j \in DOMAIN w : OnBook(w[i]) /\ OnBook(w[j]) /\ i < j => w[i].seq < w[j].seq
      /\ \/ \E i \in DOMAIN w : w[i].channel = "orderbook_snapshot"
         \/ \E p \in AllRows :
              /\ BookRow(p) /\ \A q \in AllRows : BookRow(q) => q.id <= p.id
              /\ p.sequence \in DOMAIN h /\ p.truth = h[p.sequence]
              /\ \E l \in DOMAIN last_seq : last_seq[l] = [sid |-> BookSid, seq |-> p.sequence]
              /\ \A i \in DOMAIN w : OnBook(w[i]) => w[i].seq > p.sequence
  BY <1>2 DEF Connected, Anchored
<1>5. /\ r.channel = m.channel /\ r.content = m.content /\ r.truth = m.truth /\ r.id = received + 1
      /\ r.sequence_gap = (expected(m.sid) \notin {None, m.seq})
  BY DEF message_to_envelope
<1> HIDE DEF w, r, n
<1>6. 1 \in DOMAIN w /\ m = w[1] /\ \A i \in DOMAIN w : i >= 1 /\ i \in Nat
  BY <1>1
<1> HIDE DEF m
<1>7. r.channel = "orderbook_snapshot" => r.content = r.truth
  BY <1>4, <1>5, <1>6 DEF Fits
<1>8. ASSUME Continues(r)
      PROVE  \E p \in AllRows : Follows(p, r, AllRows)
  <2>1. m.channel = "orderbook_delta" /\ expected(m.sid) \in {None, m.seq}
    BY <1>5, <1>8 DEF Continues
  <2>2. /\ OnBook(m) /\ m.seq \in 1 .. n /\ m.truth = h[m.seq] /\ m.seq > 1
        /\ m.truth = apply_delta(h[m.seq - 1], m.content)
    BY <1>4, <1>6, <2>1 DEF Fits
  <2>3. ~\E i \in DOMAIN w : w[i].channel = "orderbook_snapshot"
    <3>1. SUFFICES ASSUME NEW i \in DOMAIN w, w[i].channel = "orderbook_snapshot"
                   PROVE  FALSE
      OBVIOUS
    <3>2. OnBook(w[i]) /\ w[i].seq = 1 /\ i # 1
      BY <1>4, <1>6, <2>1, <3>1 DEF Fits
    <3>3. w[1].seq < w[i].seq
      BY <1>4, <1>6, <2>2, <3>2
    <3> QED
      BY <1>3, <1>6, <2>2, <3>2, <3>3
  <2>4. PICK p \in AllRows :
              /\ BookRow(p) /\ \A q \in AllRows : BookRow(q) => q.id <= p.id
              /\ p.sequence \in DOMAIN h /\ p.truth = h[p.sequence]
              /\ \E l \in DOMAIN last_seq : last_seq[l] = [sid |-> BookSid, seq |-> p.sequence]
              /\ \A i \in DOMAIN w : OnBook(w[i]) => w[i].seq > p.sequence
    BY <1>4, <2>3
  <2>5. expected(BookSid) = p.sequence + 1
    <3>1. PICK l \in DOMAIN last_seq : last_seq[l] = [sid |-> BookSid, seq |-> p.sequence]
      BY <2>4
    <3>2. last_seq[l].sid = BookSid /\ last_seq[l].seq = p.sequence
      BY <3>1
    <3>3. expected(last_seq[l].sid) = last_seq[l].seq + 1
      BY Expected
    <3> QED
      BY <3>2, <3>3
  <2>6. p.sequence \in 1 .. n
    BY <2>4
  <2>7. m.seq = p.sequence + 1
    <3>1. expected(BookSid) \in {None, m.seq}
      BY <2>1, <2>2 DEF OnBook
    <3>2. p.sequence + 1 # None
      BY <1>3, <2>6 DEF None
    <3> QED
      BY <2>5, <3>1, <3>2
  <2>8. m.truth = apply_delta(p.truth, m.content)
    <3>1. m.seq - 1 = p.sequence
      BY <1>3, <2>6, <2>7
    <3> QED
      BY <2>2, <2>4, <3>1
  <2>9. \A q \in AllRows : q.id \in 1 .. received
    BY DEF IdInv
  <2>10. p.id < r.id
    BY <1>1, <1>5, <2>9
  <2>11. \A q \in AllRows : BookRow(q) => ~(p.id < q.id /\ q.id < r.id)
    BY <1>1, <2>4, <2>9
  <2> QED
    BY <1>5, <2>4, <2>8, <2>10, <2>11 DEF Follows
<1> QED
  BY <1>7, <1>8 DEF r, m, w

(* The cache keeps one number for each subscription.                       *)
LEMMA CacheStep == StoreInv /\ CacheInv /\ [Next]_vars => CacheInv'
<1>1. SUFFICES ASSUME StoreInv, CacheInv, [Next]_vars
               PROVE  CacheInv'
  OBVIOUS
<1>2. CASE last_seq' = last_seq
  BY <1>1, <1>2 DEF CacheInv
<1>3. CASE last_seq' = <<>>
  BY <1>3 DEF CacheInv
<1>4. ASSUME NEW k, receive(k), last_seq' = remember_sequence(Head(wire).sid, Head(wire).seq)
      PROVE  CacheInv'
  <2> DEFINE m == Head(wire)
             later == remember_sequence(m.sid, m.seq)
  <2>1. m \in Message
    BY <1>1, <1>4, ReceiveRows
  <2>2. m.sid \in Sids /\ m.seq \in Nat
    BY <2>1 DEF Message
  <2>3. \A j, l \in DOMAIN later : later[j].sid = later[l].sid => j = l
    <3> HIDE DEF m
    <3> QED
      BY <1>1, <2>2, Cached DEF StoreInv
  <2>4. last_seq' = later
    BY <1>4
  <2> HIDE DEF later
  <2> QED
    BY <2>3, <2>4 DEF CacheInv
<1>5. ASSUME NEW k, receive(k)
      PROVE  \/ last_seq' = remember_sequence(Head(wire).sid, Head(wire).seq)
             \/ last_seq' = <<>>
  BY <1>5 DEF receive, take_down
<1>6. ASSUME NEW r, NEW k, NEW then, NEW rest, NEW seen, poll_append(r, k, then, rest, seen)
      PROVE  last_seq' = last_seq \/ last_seq' = <<>>
  BY <1>6 DEF poll_append, take_down
<1>7. ASSUME NEW k, poll_book(k) \/ poll_trade(k)
      PROVE  last_seq' = last_seq \/ last_seq' = <<>>
  BY <1>6, <1>7 DEF poll_book, poll_trade
<1>8. \/ last_seq' = last_seq \/ last_seq' = <<>>
      \/ \E k : receive(k)
      \/ \E k : poll_book(k) \/ poll_trade(k)
  BY <1>1 DEF Next, vars, link, venue_delta, venue_trade, tick, start, discover, connect, disconnect,
              stop_session, end_session, last_flush, get_trades, next_poll, kill, normalize, take_down
<1> QED
  BY <1>2, <1>3, <1>4, <1>5, <1>7, <1>8

(* The steps of the capture either append nothing or append one envelope.  *)
LEMMA CaptureSteps ==
    ASSUME StoreInv, [Next]_vars
    PROVE  \/ UNCHANGED vars
           \/ Quiet
           \/ \E k : receive(k)
           \/ \E k : poll_append(rest_envelope("book", ladder), k, "trades", <<>>, seen_trades)
                     /\ phase = "poll"
           \/ \E k : poll_append(rest_envelope("trade", Head(answer)), k, phase, Tail(answer),
                                 seen_trades \cup {Head(answer)})
                     /\ phase = "append trades" /\ answer # <<>>
BY DEF Next, Quiet, poll_book, poll_trade

(* What is polled is an envelope, and none that the book is replayed from. *)
LEMMA Polled ==
    ASSUME StoreInv,
           NEW r \in {rest_envelope("book", ladder)}
                     \cup (IF answer # <<>> THEN {rest_envelope("trade", Head(answer))} ELSE {})
    PROVE  /\ r \in Row /\ ~BookRow(r) /\ ~Continues(r)
           /\ r.id = received + 1 /\ r.received_at = now
<1> DEFINE a == answer
<1>1. a \in Seq(Nat)
  BY DEF StoreInv, BufferInv
<1> HIDE DEF a
<1>2. a # <<>> => Head(a) \in Nat
  BY <1>1
<1>3. r \in Row
  BY <1>2, EnvelopeType DEF a
<1> QED
  BY <1>3 DEF rest_envelope, BookRow, Continues

(* Every step keeps the store chained, and its snapshots true.             *)
LEMMA ChainStep ==
    StoreInv /\ IdInv /\ CacheInv /\ WireInv /\ ChainInv /\ SnapshotInv /\ [Next]_vars
        => ChainInv' /\ SnapshotInv'
<1>1. SUFFICES ASSUME StoreInv, IdInv, CacheInv, WireInv, ChainInv, SnapshotInv, [Next]_vars
               PROVE  ChainInv' /\ SnapshotInv'
  OBVIOUS
<1>2. ASSUME UNCHANGED vars
      PROVE  ChainInv' /\ SnapshotInv'
  <2>1. files' = files /\ buffer' = buffer /\ now' = now
    BY <1>2 DEF vars
  <2>2. AllRows' = AllRows
    BY <2>1 DEF AllRows
  <2> QED
    BY <1>1, <2>1, <2>2 DEF ChainInv, SnapshotInv
<1>3. ASSUME Quiet
      PROVE  ChainInv' /\ SnapshotInv'
  <2>1. AllRows' \subseteq AllRows
    BY <1>1, <1>3, QuietRows
  <2>2. SnapshotInv'
    BY <1>1, <2>1 DEF SnapshotInv
  <2> QED
    BY <1>1, <1>3, <2>2, QuietChain
<1>4. ASSUME NEW k, receive(k)
      PROVE  ChainInv' /\ SnapshotInv'
  <2> DEFINE r == message_to_envelope(Head(wire))
  <2>1. /\ r \in Row /\ r.id = received + 1
        /\ Len(Append(buffer, r)) <= BatchSize /\ append(Append(buffer, r), k)
        /\ AllRows' \subseteq AllRows \cup {r} /\ buffer' \in {<<>>, Append(buffer, r)}
    BY <1>1, <1>4, ReceiveRows
  <2>2. /\ r.channel = "orderbook_snapshot" => r.content = r.truth
        /\ Continues(r) => \E p \in AllRows : Follows(p, r, AllRows)
    BY <1>1, <1>4, Heard
  <2>3. r.received_at = now /\ now' = now
    BY <1>4 DEF receive, message_to_envelope
  <2> HIDE DEF r
  <2>4. ChainInv'
    BY <1>1, <2>1, <2>2, <2>3, AppendChains
  <2>5. SnapshotInv'
    BY <1>1, <2>1, <2>2 DEF SnapshotInv
  <2> QED
    BY <2>4, <2>5
<1>5. ASSUME NEW r \in Row, ~BookRow(r), ~Continues(r), r.id = received + 1, r.received_at = now,
             NEW k, NEW then, NEW rest, NEW seen, poll_append(r, k, then, rest, seen),
             phase \in {"poll", "append trades"}
      PROVE  ChainInv' /\ SnapshotInv'
  <2>1. /\ Len(Append(buffer, r)) <= BatchSize /\ append(Append(buffer, r), k)
        /\ AllRows' \subseteq AllRows \cup {r} /\ buffer' \in {<<>>, Append(buffer, r)}
    BY <1>1, <1>5, PollRows
  <2>2. now' = now
    BY <1>5 DEF poll_append
  <2>3. ChainInv'
    BY <1>1, <1>5, <2>1, <2>2, AppendChains
  <2>4. SnapshotInv'
    BY <1>1, <1>5, <2>1 DEF SnapshotInv, BookRow
  <2> QED
    BY <2>3, <2>4
<1>6. ASSUME NEW k, phase = "poll",
             poll_append(rest_envelope("book", ladder), k, "trades", <<>>, seen_trades)
      PROVE  ChainInv' /\ SnapshotInv'
  <2> DEFINE r == rest_envelope("book", ladder)
  <2>1. /\ r \in Row /\ ~BookRow(r) /\ ~Continues(r)
        /\ r.id = received + 1 /\ r.received_at = now
    BY <1>1, Polled
  <2> HIDE DEF r
  <2>2. poll_append(r, k, "trades", <<>>, seen_trades)
    BY <1>6 DEF r
  <2> QED
    BY <1>5, <1>6, <2>1, <2>2
<1>7. ASSUME NEW k, phase = "append trades", answer # <<>>,
             poll_append(rest_envelope("trade", Head(answer)), k, phase, Tail(answer),
                         seen_trades \cup {Head(answer)})
      PROVE  ChainInv' /\ SnapshotInv'
  <2> DEFINE r == rest_envelope("trade", Head(answer))
  <2>1. /\ r \in Row /\ ~BookRow(r) /\ ~Continues(r)
        /\ r.id = received + 1 /\ r.received_at = now
    BY <1>1, <1>7, Polled
  <2> HIDE DEF r
  <2>2. poll_append(r, k, phase, Tail(answer), seen_trades \cup {Head(answer)})
    BY <1>7 DEF r
  <2> QED
    BY <1>5, <1>7, <2>1, <2>2
<1> QED
  BY <1>1, <1>2, <1>3, <1>4, <1>6, <1>7, CaptureSteps

(* A subscription opens with a snapshot of the book.                       *)
LEMMA ConnectFits ==
    ASSUME StoreInv, connect
    PROVE  WireInv'
<1> DEFINE m == [channel |-> "orderbook_snapshot", sid |-> BookSid, ts |-> None, seq |-> 1,
                 content |-> ladder, truth |-> ladder]
<1>1. wire' = <<m>> /\ ladder' = ladder /\ seq' = [s \in DOMAIN seq |-> IF s = BookSid THEN 1 ELSE 0]
  BY DEF connect, venue
<1>2. seq'[BookSid] = 1 /\ ladder \in Book
  <2>1. BookSid \in DOMAIN seq
    BY DEF StoreInv, LinkInv, Sids
  <2> QED
    BY <1>1, <2>1 DEF StoreInv, VenueInv
<1>3. PICK h \in [1 .. 1 -> Book] : h[1] = ladder /\ DOMAIN h = 1 .. 1
  <2>1. [n \in 1 .. 1 |-> ladder] \in [1 .. 1 -> Book] /\ [n \in 1 .. 1 |-> ladder][1] = ladder
    BY <1>2
  <2> QED
    BY <2>1
<1>4. /\ m.channel = "orderbook_snapshot" /\ OnBook(m) /\ m.seq = 1
      /\ m.content = ladder /\ m.truth = ladder
  BY DEF OnBook
<1> HIDE DEF m
<1>5. DOMAIN wire' = {1} /\ wire'[1] = m
  BY <1>1
<1>6. Fits(m, h)
  BY <1>3, <1>4 DEF Fits
<1>7. Anchored(h)'
  BY <1>4, <1>5 DEF Anchored
<1>8. Connected(h)'
  BY <1>1, <1>2, <1>3, <1>4, <1>5, <1>6, <1>7 DEF Connected
<1> QED
  BY <1>2, <1>3, <1>8 DEF WireInv

(* The history grows by one book with each message of the subscription.    *)
LEMMA HistoryGrows ==
    ASSUME NEW n \in Nat, n >= 1, NEW h \in [1 .. n -> Book], NEW b \in Book
    PROVE  \E g \in [1 .. n + 1 -> Book] :
              /\ g[n + 1] = b /\ g[n] = h[n]
              /\ \A i \in 1 .. n : i \in DOMAIN g /\ g[i] = h[i]
              /\ \A m : Fits(m, h) => Fits(m, g) /\ m.seq < n + 1 /\ m.seq \in 1 .. n
<1> DEFINE g == [i \in 1 .. n + 1 |-> IF i = n + 1 THEN b ELSE h[i]]
<1>1. /\ g \in [1 .. n + 1 -> Book] /\ g[n + 1] = b /\ g[n] = h[n]
      /\ \A i \in 1 .. n : i \in DOMAIN g /\ g[i] = h[i]
  OBVIOUS
<1> HIDE DEF g
<1>2. ASSUME NEW m, Fits(m, h)
      PROVE  Fits(m, g) /\ m.seq < n + 1 /\ m.seq \in 1 .. n
  <2>1. m.seq \in 1 .. n
    BY <1>2 DEF Fits
  <2>2. m.seq > 1 => m.seq - 1 \in 1 .. n
    BY <2>1
  <2> QED
    BY <1>1, <1>2, <2>1, <2>2 DEF Fits
<1> QED
  BY <1>1, <1>2

(* The venue's next message fits, delivered or not.                        *)
LEMMA DeltaFits ==
    ASSUME StoreInv, WireInv, up, NEW p \in Prices, NEW d \in {-1, 1}, NEW delivered \in BOOLEAN,
           venue_delta(p, d, delivered)
    PROVE  WireInv'
<1> DEFINE n == seq[BookSid]
           w == wire
           book == [ladder EXCEPT ![p] = @ + d]
           m == [channel |-> "orderbook_delta", sid |-> BookSid, ts |-> now,
                 seq |-> n + 1, content |-> [price |-> p, delta |-> d], truth |-> book]
           files_and_rows == AllRows
<1>1. n \in Nat /\ ladder \in Book /\ w \in Seq(Message) /\ BookSid \in DOMAIN seq
  BY DEF StoreInv, LinkInv, VenueInv, Sids
<1>2. PICK h \in [1 .. n -> Book] : Connected(h)
  BY DEF WireInv
<1>3. n >= 1 /\ h[n] = ladder
  BY <1>2 DEF Connected
<1>4. /\ book[p] \in 0 .. MaxQuantity /\ ladder' = book /\ up' = up /\ last_seq' = last_seq
      /\ buffer' = buffer /\ files' = files
      /\ seq' = [seq EXCEPT ![BookSid] = @ + 1]
      /\ wire' = Append(w, m) \/ wire' = w
  BY DEF venue_delta, next_seq, send
<1>5. book \in Book
  BY <1>1, <1>4 DEF Book
<1>6. apply_delta(ladder, [price |-> p, delta |-> d]) = book
  BY <1>1, <1>4, DeltaApplied
<1>7. seq'[BookSid] = n + 1
  BY <1>1, <1>4
<1>8. /\ m.channel = "orderbook_delta" /\ OnBook(m) /\ m.seq = n + 1
      /\ m.content = [price |-> p, delta |-> d] /\ m.truth = book
  BY DEF OnBook
<1> HIDE DEF n, book, m, w
<1>9. PICK g \in [1 .. n + 1 -> Book] :
      /\ g[n + 1] = book /\ g[n] = h[n]
      /\ \A i \in 1 .. n : i \in DOMAIN g /\ g[i] = h[i]
      /\ \A x : Fits(x, h) => Fits(x, g) /\ x.seq < n + 1 /\ x.seq \in 1 .. n
  BY <1>1, <1>3, <1>5, HistoryGrows
<1>10. Fits(m, g)
  <2>1. m.seq \in DOMAIN g /\ m.seq > 1 /\ m.seq - 1 = n
    BY <1>1, <1>3, <1>8, <1>9
  <2> QED
    BY <1>3, <1>6, <1>8, <1>9, <2>1 DEF Fits
<1>11. /\ \A i \in DOMAIN w : IF OnBook(w[i]) THEN Fits(w[i], h) ELSE w[i].channel = "trade"
       /\ \A i, j \in DOMAIN w : OnBook(w[i]) /\ OnBook(w[j]) /\ i < j => w[i].seq < w[j].seq
  BY <1>2 DEF Connected, w
<1>12. \/ wire' = w
       \/ /\ Len(w) + 1 \in DOMAIN wire' /\ wire'[Len(w) + 1] = m
          /\ \A i \in DOMAIN w : i \in DOMAIN wire' /\ wire'[i] = w[i]
          /\ \A i \in DOMAIN wire' : i \in DOMAIN w \/ i = Len(w) + 1
  <2> DEFINE more == Append(w, m)
  <2>1. m \in Message
    BY <1>1, <1>5 DEF m, n, Message, Channels, Sids, Time, Content, StoreInv, VenueInv
  <2>2. /\ Len(w) + 1 \in DOMAIN more /\ more[Len(w) + 1] = m
        /\ \A i \in DOMAIN w : i \in DOMAIN more /\ more[i] = w[i]
        /\ \A i \in DOMAIN more : i \in DOMAIN w \/ i = Len(w) + 1
    BY <1>1, <2>1
  <2> HIDE DEF more
  <2>3. wire' = more \/ wire' = w
    BY <1>4 DEF more
  <2> QED
    BY <2>2, <2>3
<1>13. \A i \in DOMAIN w : i \in 1 .. Len(w) /\ Len(w) \in Nat
  BY <1>1
<1>14. \A i \in DOMAIN wire' : IF OnBook(wire'[i]) THEN Fits(wire'[i], g) ELSE wire'[i].channel = "trade"
  BY <1>8, <1>9, <1>10, <1>11, <1>12
<1>15. \A i, j \in DOMAIN wire' :
          OnBook(wire'[i]) /\ OnBook(wire'[j]) /\ i < j => wire'[i].seq < wire'[j].seq
  <2>1. \A i \in DOMAIN w : OnBook(w[i]) => w[i].seq < m.seq
    BY <1>8, <1>9, <1>11
  <2> QED
    BY <1>11, <1>12, <1>13, <2>1
<1>16. Anchored(g)'
  <2>1. CASE \E i \in DOMAIN w : w[i].channel = "orderbook_snapshot"
    BY <1>12, <2>1 DEF Anchored
  <2>2. CASE ~\E i \in DOMAIN w : w[i].channel = "orderbook_snapshot"
    <3>1. PICK x \in AllRows :
          /\ BookRow(x) /\ \A q \in AllRows : BookRow(q) => q.id <= x.id
          /\ x.sequence \in DOMAIN h /\ x.truth = h[x.sequence]
          /\ \E k \in DOMAIN last_seq : last_seq[k] = [sid |-> BookSid, seq |-> x.sequence]
          /\ \A i \in DOMAIN w : OnBook(w[i]) => w[i].seq > x.sequence
      BY <1>2, <2>2 DEF Connected, Anchored, w
    <3>2. AllRows' = AllRows
      BY <1>4 DEF AllRows
    <3>3. x.sequence \in 1 .. n
      BY <3>1
    <3>4. x.sequence \in DOMAIN g /\ x.truth = g[x.sequence]
      BY <1>9, <3>1, <3>3
    <3>5. \A i \in DOMAIN wire' : OnBook(wire'[i]) => wire'[i].seq > x.sequence
      BY <1>1, <1>8, <1>12, <3>1, <3>3
    <3> QED
      BY <1>4, <3>1, <3>2, <3>4, <3>5 DEF Anchored
  <2> QED
    BY <2>1, <2>2
<1>17. Connected(g)'
  BY <1>1, <1>3, <1>4, <1>7, <1>9, <1>14, <1>15, <1>16 DEF Connected
<1> QED
  BY <1>7, <1>9, <1>17 DEF WireInv

(* A trade takes no number of the book's subscription.                     *)
LEMMA TradeFits ==
    ASSUME StoreInv, WireInv, up, venue_trade
    PROVE  WireInv'
<1> DEFINE w == wire
           m == [channel |-> "trade", sid |-> TradeSid, ts |-> now, seq |-> seq[TradeSid] + 1,
                 content |-> trades + 1, truth |-> ladder]
           more == Append(w, m)
<1>1. w \in Seq(Message) /\ now \in Nat /\ trades \in Nat /\ ladder \in Book /\ seq[TradeSid] \in Nat
  BY DEF StoreInv, LinkInv, VenueInv, Sids
<1>2. PICK h \in [1 .. seq[BookSid] -> Book] : Connected(h)
  BY DEF WireInv
<1>3. /\ wire' = more /\ up' = up /\ last_seq' = last_seq /\ ladder' = ladder
      /\ buffer' = buffer /\ files' = files /\ seq' = [seq EXCEPT ![TradeSid] = @ + 1]
  BY DEF venue_trade, next_seq, send
<1>4. seq'[BookSid] = seq[BookSid]
  BY <1>3 DEF StoreInv, LinkInv, Sids, BookSid, TradeSid
<1>5. m.channel = "trade" /\ ~OnBook(m)
  BY DEF OnBook, BookSid, TradeSid
<1>6. m \in Message
  BY <1>1 DEF Message, Channels, Sids, Time, Content
<1> HIDE DEF w, m
<1>7. /\ Len(w) + 1 \in DOMAIN more /\ more[Len(w) + 1] = m
      /\ \A i \in DOMAIN w : i \in DOMAIN more /\ more[i] = w[i]
      /\ \A i \in DOMAIN more : i \in DOMAIN w \/ i = Len(w) + 1
  BY <1>1, <1>6
<1> HIDE DEF more
<1>8. /\ \A i \in DOMAIN w : IF OnBook(w[i]) THEN Fits(w[i], h) ELSE w[i].channel = "trade"
      /\ \A i, j \in DOMAIN w : OnBook(w[i]) /\ OnBook(w[j]) /\ i < j => w[i].seq < w[j].seq
      /\ seq[BookSid] >= 1 /\ h[seq[BookSid]] = ladder
  BY <1>2 DEF Connected, w
<1>9. \A i \in DOMAIN wire' : IF OnBook(wire'[i]) THEN Fits(wire'[i], h) ELSE wire'[i].channel = "trade"
  BY <1>3, <1>5, <1>7, <1>8
<1>10. \A i, j \in DOMAIN wire' :
          OnBook(wire'[i]) /\ OnBook(wire'[j]) /\ i < j => wire'[i].seq < wire'[j].seq
  BY <1>3, <1>5, <1>7, <1>8
<1>11. Anchored(h)'
  <2>1. CASE \E i \in DOMAIN w : w[i].channel = "orderbook_snapshot"
    BY <1>3, <1>7, <2>1 DEF Anchored
  <2>2. CASE ~\E i \in DOMAIN w : w[i].channel = "orderbook_snapshot"
    <3>1. PICK x \in AllRows :
          /\ BookRow(x) /\ \A q \in AllRows : BookRow(q) => q.id <= x.id
          /\ x.sequence \in DOMAIN h /\ x.truth = h[x.sequence]
          /\ \E k \in DOMAIN last_seq : last_seq[k] = [sid |-> BookSid, seq |-> x.sequence]
          /\ \A i \in DOMAIN w : OnBook(w[i]) => w[i].seq > x.sequence
      BY <1>2, <2>2 DEF Connected, Anchored, w
    <3>2. AllRows' = AllRows
      BY <1>3 DEF AllRows
    <3>3. \A i \in DOMAIN wire' : OnBook(wire'[i]) => wire'[i].seq > x.sequence
      BY <1>3, <1>5, <1>7, <3>1
    <3> QED
      BY <1>3, <3>1, <3>2, <3>3 DEF Anchored
  <2> QED
    BY <2>1, <2>2
<1>12. Connected(h)'
  BY <1>3, <1>4, <1>8, <1>9, <1>10, <1>11 DEF Connected
<1> QED
  BY <1>4, <1>12 DEF WireInv

(* A message received leaves the rest under way, and anchors it when it is *)
(* of the book.                                                            *)
LEMMA ReceiveFits ==
    ASSUME StoreInv, IdInv, CacheInv, WireInv, NEW k, receive(k), up'
    PROVE  WireInv'
<1> DEFINE w == wire
           m == Head(w)
           r == message_to_envelope(m)
           later == remember_sequence(m.sid, m.seq)
<1>1. /\ w \in Seq(Message) /\ w # <<>> /\ up /\ m \in Message
      /\ AllRows' = AllRows \cup {r} /\ received \in Nat
  BY ReceiveRows DEF StoreInv, BufferInv
<1>2. m.sid \in Sids /\ m.seq \in Nat
  BY <1>1 DEF Message
<1>3. wire' = Tail(w) /\ last_seq' = later /\ UNCHANGED <<seq, ladder>>
  BY DEF receive, take_down, venue
<1>4. /\ r.channel = m.channel /\ r.truth = m.truth /\ r.sequence = m.seq /\ r.id = received + 1
  BY DEF message_to_envelope
<1>5. PICK h \in [1 .. seq[BookSid] -> Book] : Connected(h)
  BY <1>1 DEF WireInv
<1> DEFINE v == Tail(w)
<1> HIDE DEF w
<1>6. 1 \in DOMAIN w /\ m = w[1] /\ \A i \in DOMAIN w : i = 1 \/ (i > 1 /\ i - 1 \in DOMAIN v)
  BY <1>1
<1>7. \A i \in DOMAIN v : i + 1 \in DOMAIN w /\ v[i] = w[i + 1] /\ i \in Nat /\ 1 < i + 1
  BY <1>1
<1> HIDE DEF m, r
<1>8. /\ \E l \in DOMAIN later : later[l] = [sid |-> m.sid, seq |-> m.seq]
      /\ \A l \in DOMAIN last_seq : last_seq[l].sid # m.sid =>
             \E j \in DOMAIN later : later[j] = last_seq[l]
  BY <1>2, Cached DEF StoreInv
<1> HIDE DEF v, later
<1>9. /\ \A i \in DOMAIN w : IF OnBook(w[i]) THEN Fits(w[i], h) ELSE w[i].channel = "trade"
      /\ \A i, j \in DOMAIN w : OnBook(w[i]) /\ OnBook(w[j]) /\ i < j => w[i].seq < w[j].seq
      /\ seq[BookSid] >= 1 /\ h[seq[BookSid]] = ladder
  BY <1>5 DEF Connected, w
<1>10. wire' = v
  BY <1>3 DEF v
<1>11. \A i \in DOMAIN v : IF OnBook(v[i]) THEN Fits(v[i], h) ELSE v[i].channel = "trade"
  BY <1>7, <1>9
<1>12. \A i, j \in DOMAIN v : OnBook(v[i]) /\ OnBook(v[j]) /\ i < j => v[i].seq < v[j].seq
  <2>1. \A i, j \in DOMAIN v : i < j => i + 1 < j + 1
    BY <1>7
  <2> QED
    BY <1>7, <1>9, <2>1
<1>13. \A q \in AllRows : q.id \in 1 .. received
  BY DEF IdInv
<1>14. Anchored(h)'
  <2>1. ASSUME OnBook(m)
        PROVE  Anchored(h)'
    <3>1. Fits(m, h)
      BY <1>6, <1>9, <2>1
    <3>2. BookRow(r) /\ r.sequence \in DOMAIN h /\ r.truth = h[r.sequence]
      BY <1>4, <3>1 DEF Fits, BookRow
    <3>3. r \in AllRows' /\ \A q \in AllRows' : q.id <= r.id
      BY <1>1, <1>4, <1>13
    <3>4. \E l \in DOMAIN last_seq' : last_seq'[l] = [sid |-> BookSid, seq |-> r.sequence]
      BY <1>3, <1>4, <1>8, <2>1 DEF OnBook
    <3>5. \A i \in DOMAIN wire' : OnBook(wire'[i]) => wire'[i].seq > r.sequence
      <4>1. SUFFICES ASSUME NEW i \in DOMAIN v, OnBook(v[i])
                     PROVE  v[i].seq > m.seq
        BY <1>4, <1>10
      <4>2. v[i] = w[i + 1] /\ i + 1 \in DOMAIN w /\ 1 < i + 1
        BY <1>7, <4>1
      <4>3. w[1].seq < w[i + 1].seq
        BY <1>6, <1>9, <2>1, <4>1, <4>2
      <4>4. v[i].seq \in Int
        BY <1>11, <4>1 DEF Fits
      <4> QED
        BY <1>2, <1>6, <4>2, <4>3, <4>4
    <3> QED
      BY <3>2, <3>3, <3>4, <3>5 DEF Anchored
  <2>2. ASSUME ~OnBook(m)
        PROVE  Anchored(h)'
    <3>1. m.channel = "trade" /\ ~BookRow(r)
      BY <1>4, <1>6, <1>9, <2>2 DEF BookRow
    <3>2. CASE \E i \in DOMAIN w : w[i].channel = "orderbook_snapshot"
      <4>1. PICK i \in DOMAIN w : w[i].channel = "orderbook_snapshot"
        BY <3>2
      <4>2. i # 1
        BY <1>6, <3>1, <4>1
      <4>3. i - 1 \in DOMAIN v /\ v[i - 1] = w[i]
        <5>1. i > 1 /\ i - 1 \in DOMAIN v
          BY <1>6, <4>1, <4>2
        <5>2. i \in Int
          BY <1>1
        <5>3. (i - 1) + 1 = i
          BY <5>2
        <5> QED
          BY <1>7, <5>1, <5>3
      <4> QED
        BY <1>10, <4>1, <4>3 DEF Anchored
    <3>3. CASE ~\E i \in DOMAIN w : w[i].channel = "orderbook_snapshot"
      <4>1. PICK x \in AllRows :
            /\ BookRow(x) /\ \A q \in AllRows : BookRow(q) => q.id <= x.id
            /\ x.sequence \in DOMAIN h /\ x.truth = h[x.sequence]
            /\ \E l \in DOMAIN last_seq : last_seq[l] = [sid |-> BookSid, seq |-> x.sequence]
            /\ \A i \in DOMAIN w : OnBook(w[i]) => w[i].seq > x.sequence
        BY <1>5, <3>3 DEF Connected, Anchored, w
      <4>2. x \in AllRows' /\ \A q \in AllRows' : BookRow(q) => q.id <= x.id
        BY <1>1, <3>1, <4>1
      <4>3. \E l \in DOMAIN last_seq' : last_seq'[l] = [sid |-> BookSid, seq |-> x.sequence]
        BY <1>3, <1>8, <2>2, <4>1 DEF OnBook
      <4>4. \A i \in DOMAIN wire' : OnBook(wire'[i]) => wire'[i].seq > x.sequence
        BY <1>7, <1>10, <4>1
      <4> QED
        BY <4>1, <4>2, <4>3, <4>4 DEF Anchored
    <3> QED
      BY <3>2, <3>3
  <2> QED
    BY <2>1, <2>2
<1>15. Connected(h)'
  BY <1>3, <1>9, <1>10, <1>11, <1>12, <1>14 DEF Connected
<1> QED
  BY <1>3, <1>15 DEF WireInv

(* Every step keeps what is under way fit.                                 *)
LEMMA WireStep == StoreInv /\ IdInv /\ CacheInv /\ WireInv /\ [Next]_vars => WireInv'
<1>1. SUFFICES ASSUME StoreInv, IdInv, CacheInv, WireInv, [Next]_vars, up'
               PROVE  WireInv'
  BY DEF WireInv
<1>2. ASSUME up' = up, UNCHANGED <<wire, seq, last_seq, ladder, buffer, files>>
      PROVE  WireInv'
  <2>1. PICK h \in [1 .. seq[BookSid] -> Book] : Connected(h)
    BY <1>1, <1>2 DEF WireInv
  <2>2. AllRows' = AllRows
    BY <1>2 DEF AllRows
  <2>3. Connected(h)'
    BY <1>2, <2>1, <2>2 DEF Connected, Anchored
  <2> QED
    BY <1>2, <2>3 DEF WireInv
<1>3. ASSUME up, NEW p \in Prices, NEW d \in {-1, 1}, NEW delivered \in BOOLEAN,
             venue_delta(p, d, delivered)
      PROVE  WireInv'
  BY <1>1, <1>3, DeltaFits
<1>4. ASSUME up, venue_trade
      PROVE  WireInv'
  BY <1>1, <1>4, TradeFits
<1>5. ASSUME connect
      PROVE  WireInv'
  BY <1>1, <1>5, ConnectFits
<1>6. ASSUME NEW k, receive(k)
      PROVE  WireInv'
  BY <1>1, <1>6, ReceiveFits
<1>7. ASSUME Quiet
      PROVE  \/ up' = up /\ UNCHANGED <<wire, seq, last_seq, ladder, buffer, files>>
             \/ \E p \in Prices, d \in {-1, 1}, delivered \in BOOLEAN :
                   up /\ venue_delta(p, d, delivered)
             \/ up /\ venue_trade
             \/ connect
  <2>1. ASSUME NEW p \in Prices, NEW d \in {-1, 1}, NEW delivered \in BOOLEAN,
               venue_delta(p, d, delivered)
        PROVE  up
    BY <1>1, <2>1 DEF venue_delta
  <2>2. ASSUME venue_trade
        PROVE  up
    BY <1>1, <2>2 DEF venue_trade
  <2>3. ASSUME \E k \in 0 .. 2 : end_session(k) \/ last_flush(k)
        PROVE  FALSE
    <3>1. PICK k : end_session(k) \/ last_flush(k)
      BY <2>3
    <3>2. CASE end_session(k)
      BY <1>1, <3>2 DEF end_session, link, StoreInv, LinkInv
    <3>3. CASE last_flush(k)
      BY <1>1, <3>3 DEF last_flush, take_down
    <3> QED
      BY <3>1, <3>2, <3>3
  <2>4. ASSUME \E k \in 0 .. 2, torn \in BOOLEAN : kill(k, torn)
        PROVE  FALSE
    BY <1>1, <2>4 DEF kill, take_down
  <2>5. ASSUME start
        PROVE  FALSE
    BY <1>1, <2>5 DEF start, link, StoreInv, LinkInv
  <2>6. ASSUME tick \/ (\E o \in {"found", "none", "timeout"} : discover(o)) \/ disconnect
               \/ stop_session \/ get_trades \/ next_poll \/ normalize
        PROVE  up' = up /\ UNCHANGED <<wire, seq, last_seq, ladder, buffer, files>>
    BY <1>1, <2>6 DEF tick, discover, disconnect, stop_session, get_trades, next_poll, normalize,
                      link, venue
  <2> QED
    BY <1>7, <2>1, <2>2, <2>3, <2>4, <2>5, <2>6 DEF Quiet
<1>8. ASSUME NEW r, NEW k, NEW then, NEW rest, NEW seen, poll_append(r, k, then, rest, seen),
             phase \in {"poll", "append trades"}
      PROVE  FALSE
  BY <1>1, <1>8 DEF poll_append, take_down, StoreInv, LinkInv
<1>9. ASSUME UNCHANGED vars
      PROVE  up' = up /\ UNCHANGED <<wire, seq, last_seq, ladder, buffer, files>>
  BY <1>9 DEF vars
<1> QED
  BY <1>1, <1>2, <1>3, <1>4, <1>5, <1>6, <1>7, <1>8, <1>9, CaptureSteps

-----------------------------------------------------------------------------
(* The replay order.                                                       *)

Keys == [1 .. 6 -> Int]

(* envelope_sort_key orders keys strictly: no key comes before itself, one *)
(* of two different keys comes first, and what comes before a key comes    *)
(* before all that follow it.                                              *)
LEMMA KeysOrdered ==
    /\ \A a \in Keys : ~key_before(a, a)
    /\ \A a, b \in Keys : a # b => key_before(a, b) \/ key_before(b, a)
    /\ \A a, b, c \in Keys : key_before(a, b) /\ key_before(b, c) => key_before(a, c)
<1>1. ASSUME NEW a \in Keys
      PROVE  ~key_before(a, a)
  BY DEF key_before, Keys
<1>2. ASSUME NEW a \in Keys, NEW b \in Keys, a # b
      PROVE  key_before(a, b) \/ key_before(b, a)
  <2>1. \E i \in 1 .. 6 : a[i] # b[i] /\ \A j \in 1 .. i - 1 : a[j] = b[j]
    <3>1. ~(a[1] = b[1] /\ a[2] = b[2] /\ a[3] = b[3] /\ a[4] = b[4] /\ a[5] = b[5] /\ a[6] = b[6])
      <4>1. SUFFICES ASSUME \A i \in 1 .. 6 : a[i] = b[i]
                     PROVE  FALSE
        OBVIOUS
      <4> QED
        BY <1>2, <4>1 DEF Keys
    <3>2. CASE a[1] # b[1]
      BY <3>2
    <3>3. CASE a[1] = b[1] /\ a[2] # b[2]
      BY <3>3
    <3>4. CASE a[1] = b[1] /\ a[2] = b[2] /\ a[3] # b[3]
      BY <3>4
    <3>5. CASE a[1] = b[1] /\ a[2] = b[2] /\ a[3] = b[3] /\ a[4] # b[4]
      BY <3>5
    <3>6. CASE a[1] = b[1] /\ a[2] = b[2] /\ a[3] = b[3] /\ a[4] = b[4] /\ a[5] # b[5]
      BY <3>6
    <3>7. CASE a[1] = b[1] /\ a[2] = b[2] /\ a[3] = b[3] /\ a[4] = b[4] /\ a[5] = b[5] /\ a[6] # b[6]
      BY <3>7
    <3> QED
      BY <3>1, <3>2, <3>3, <3>4, <3>5, <3>6, <3>7
  <2>2. PICK i \in 1 .. 6 : a[i] # b[i] /\ \A j \in 1 .. i - 1 : a[j] = b[j]
    BY <2>1
  <2>3. a[i] \in Int /\ b[i] \in Int /\ DOMAIN a = 1 .. 6 /\ DOMAIN b = 1 .. 6
    BY DEF Keys
  <2>4. CASE a[i] < b[i]
    BY <2>2, <2>3, <2>4 DEF key_before
  <2>5. CASE b[i] < a[i]
    BY <2>2, <2>3, <2>5 DEF key_before
  <2> QED
    BY <2>2, <2>3, <2>4, <2>5
<1>3. ASSUME NEW a \in Keys, NEW b \in Keys, NEW c \in Keys, key_before(a, b), key_before(b, c)
      PROVE  key_before(a, c)
  <2>1. PICK i \in 1 .. 6 : a[i] < b[i] /\ \A j \in 1 .. i - 1 : a[j] = b[j]
    BY <1>3 DEF key_before, Keys
  <2>2. PICK l \in 1 .. 6 : b[l] < c[l] /\ \A j \in 1 .. l - 1 : b[j] = c[j]
    BY <1>3 DEF key_before, Keys
  <2>3. \A j \in 1 .. 6 : a[j] \in Int /\ b[j] \in Int /\ c[j] \in Int
    BY DEF Keys
  <2>4. DOMAIN a = 1 .. 6
    BY DEF Keys
  <2>5. CASE i <= l
    <3>1. a[i] < c[i]
      BY <2>1, <2>2, <2>3, <2>5
    <3>2. \A j \in 1 .. i - 1 : a[j] = c[j]
      BY <2>1, <2>2, <2>5
    <3> QED
      BY <2>4, <3>1, <3>2 DEF key_before
  <2>6. CASE l < i
    <3>1. a[l] < c[l]
      BY <2>1, <2>2, <2>3, <2>6
    <3>2. \A j \in 1 .. l - 1 : a[j] = c[j]
      BY <2>1, <2>2, <2>6
    <3> QED
      BY <2>4, <3>1, <3>2 DEF key_before
  <2> QED
    BY <2>5, <2>6
<1> QED
  BY <1>1, <1>2, <1>3

(* Rows that are ordered by their keys stand in line.                      *)
LEMMA KeysInLine ==
    ASSUME NEW S, NEW key, \A x \in S : key[x] \in Keys,
           \A x, y \in S : key[x] = key[y] => x = y,
           NEW before, \A x \in S : before[x] \subseteq S,
           \A x, y \in S : y \in before[x] <=> key_before(key[y], key[x])
    PROVE  Line(before, S)
<1>1. ASSUME NEW x \in S
      PROVE  before[x] \subseteq S /\ x \notin before[x]
  BY KeysOrdered
<1>2. ASSUME NEW x \in S, NEW y \in S, x # y
      PROVE  \/ x \in before[y] /\ before[x] \subseteq before[y]
             \/ y \in before[x] /\ before[y] \subseteq before[x]
  <2>1. \A v, z \in S : v \in before[z] => before[v] \subseteq before[z]
    <3>1. SUFFICES ASSUME NEW v \in S, NEW z \in S, v \in before[z], NEW u \in before[v]
                   PROVE  u \in before[z]
      OBVIOUS
    <3>2. u \in S /\ key_before(key[u], key[v]) /\ key_before(key[v], key[z])
      BY <1>1, <3>1
    <3>3. key_before(key[u], key[z])
      BY <3>1, <3>2, KeysOrdered
    <3> QED
      BY <3>1, <3>2, <3>3
  <2>2. key_before(key[x], key[y]) \/ key_before(key[y], key[x])
    BY <1>2, KeysOrdered
  <2> QED
    BY <1>2, <2>1, <2>2
<1> QED
  BY <1>1, <1>2 DEF Line

(* Where the rows of files are.                                            *)
Places(fs) == UNION {{<<f, i>> : i \in DOMAIN fs[f].rows} : f \in DOMAIN fs}

(* The channel of a row has its rank.                                      *)
LEMMA RankType ==
    ASSUME NEW r \in Row
    PROVE  channel_rank(r) \in Int
<1> DEFINE names == <<"book", "orderbook_delta", "orderbook_snapshot", "trade">>
<1>1. r.channel \in Channels
  BY DEF Row
<1>2. \E k \in 1 .. 4 : names[k] = r.channel
  <2>1. names[1] = "book" /\ names[2] = "orderbook_delta" /\ names[3] = "orderbook_snapshot" /\ names[4] = "trade"
    OBVIOUS
  <2> HIDE DEF names
  <2> QED
    BY <1>1, <2>1 DEF Channels
<1>3. channel_rank(r) = CHOOSE k \in 1 .. 4 : names[k] = r.channel
  BY DEF channel_rank
<1> HIDE DEF names
<1> QED
  BY <1>2, <1>3

(* What read sorts by: the key of a row, and then its place.               *)
place_key(r, rank, x) == sort_key(r, rank) \o x

Place(x) == x[1] \in Nat /\ x[2] \in Nat /\ x = <<x[1], x[2]>>

(* Such a key is six numbers, the last two of them the place.              *)
LEMMA KeyType ==
    ASSUME NEW r \in Row, NEW rank, rank[r.sequence] \in Int, NEW x, Place(x)
    PROVE  /\ place_key(r, rank, x) \in Keys
           /\ place_key(r, rank, x)[5] = x[1] /\ place_key(r, rank, x)[6] = x[2]
<1> DEFINE f == x[1]
           i == x[2]
<1>1. r.exchange_ts \in Int /\ r.received_at \in Int
  <2>1. r.exchange_ts \in Time /\ r.received_at \in Nat
    BY DEF Row
  <2> QED
    BY <2>1 DEF Time, None
<1>2. event_time(r) \in Int
  BY <1>1 DEF event_time
<1>3. channel_rank(r) \in Int
  BY RankType
<1>4. \A s, t \in Seq(Int) : Len(s) = 4 /\ Len(t) = 2 =>
          s \o t \in Keys /\ (s \o t)[5] = t[1] /\ (s \o t)[6] = t[2]
  <2>1. SUFFICES ASSUME NEW s \in Seq(Int), NEW t \in Seq(Int), Len(s) = 4, Len(t) = 2
                 PROVE  s \o t \in Keys /\ (s \o t)[5] = t[1] /\ (s \o t)[6] = t[2]
    OBVIOUS
  <2> DEFINE u == s \o t
  <2>2. u \in Seq(Int) /\ Len(u) = 6 /\ u[5] = t[1] /\ u[6] = t[2]
    <3>1. /\ u \in Seq(Int) /\ Len(u) = Len(s) + Len(t)
          /\ \A j \in 1 .. Len(s) + Len(t) : u[j] = IF j <= Len(s) THEN s[j] ELSE t[j - Len(s)]
      BY ConcatProperties
    <3> HIDE DEF u
    <3>2. \A j \in 1 .. 6 : u[j] = IF j <= 4 THEN s[j] ELSE t[j - 4]
      BY <2>1, <3>1
    <3>3. u[5] = t[1] /\ u[6] = t[2]
      <4>1. u[5] = t[5 - 4] /\ u[6] = t[6 - 4] /\ 5 - 4 = 1 /\ 6 - 4 = 2
        BY <3>2
      <4> QED
        BY ONLY <4>1
    <3>4. Len(u) = 6
      BY <2>1, <3>1
    <3> QED
      BY <3>1, <3>3, <3>4
  <2> HIDE DEF u
  <2>3. u \in [1 .. 6 -> Int]
    <3>1. u \in [1 .. Len(u) -> Int]
      BY ONLY <2>2, LenProperties
    <3> QED
      BY <2>2, <3>1
  <2> USE DEF u
  <2> QED
    BY <2>2, <2>3 DEF Keys
<1>5. \A a, b, c, d \in Int : <<a, b, c, d>> \in Seq(Int) /\ Len(<<a, b, c, d>>) = 4
  OBVIOUS
<1>6. x \in Seq(Int) /\ Len(x) = 2
  <2>1. PICK m \in Nat, n \in Nat : x = <<m, n>>
    BY DEF Place
  <2> QED
    BY <2>1
<1>7. sort_key(r, rank) \in Seq(Int) /\ Len(sort_key(r, rank)) = 4
  BY <1>1, <1>2, <1>3, <1>5 DEF sort_key
<1> QED
  BY <1>4, <1>6, <1>7 DEF place_key

(* A finite number of places.                                              *)
LEMMA FinitePlaces ==
    ASSUME NEW fs \in Seq(File)
    PROVE  /\ IsFiniteSet(Places(fs))
           /\ \A x \in Places(fs) : /\ x[1] \in DOMAIN fs /\ x[2] \in DOMAIN fs[x[1]].rows
                                    /\ x = <<x[1], x[2]>> /\ x[1] \in Nat /\ x[2] \in Nat
           /\ \A f \in DOMAIN fs : \A i \in DOMAIN fs[f].rows : <<f, i>> \in Places(fs)
<1> DEFINE of(f) == {<<f, i>> : i \in DOMAIN fs[f].rows}
           all == {of(f) : f \in DOMAIN fs}
<1>1. ASSUME NEW f \in DOMAIN fs
      PROVE  /\ fs[f] \in File /\ f \in Nat
             /\ DOMAIN fs[f].rows = 1 .. Len(fs[f].rows) /\ Len(fs[f].rows) \in Nat
  <2>1. fs[f] \in File /\ f \in Nat
    OBVIOUS
  <2>2. fs[f].rows \in Seq(Row)
    BY <2>1 DEF File
  <2> QED
    BY <2>1, <2>2
<1>2. ASSUME NEW f \in DOMAIN fs
      PROVE  IsFiniteSet(of(f))
  <2> DEFINE D == DOMAIN fs[f].rows
             g == [i \in D |-> <<f, i>>]
  <2>1. IsFiniteSet(D)
    <3>1. D = 1 .. Len(fs[f].rows) /\ Len(fs[f].rows) \in Nat
      BY <1>1
    <3> HIDE DEF D
    <3>2. IsFiniteSet(1 .. Len(fs[f].rows))
      BY <3>1, FS_Interval
    <3> QED
      BY <3>1, <3>2
  <2>2. g \in Surjection(D, of(f))
    BY DEF Surjection
  <2> HIDE DEF D, g, of
  <2> QED
    BY <2>1, <2>2, FS_Surjection
<1>3. IsFiniteSet(all)
  <2> DEFINE D == DOMAIN fs
             g == [f \in D |-> of(f)]
  <2>1. IsFiniteSet(D)
    <3>1. D = 1 .. Len(fs) /\ Len(fs) \in Nat
      OBVIOUS
    <3> QED
      BY <3>1, FS_Interval
  <2>2. g \in Surjection(D, all)
    <3> HIDE DEF of
    <3> QED
      BY DEF Surjection
  <2> HIDE DEF D, g, all
  <2> QED
    BY <2>1, <2>2, FS_Surjection
<1>4. \A T \in all : IsFiniteSet(T)
  <2> HIDE DEF of
  <2> QED
    BY <1>2
<1>5. Places(fs) = UNION all
  BY DEF Places
<1>6. IsFiniteSet(UNION all)
  <2> HIDE DEF all
  <2> QED
    BY <1>3, <1>4, FS_UNION
<1>7. ASSUME NEW x \in UNION all
      PROVE  /\ x[1] \in DOMAIN fs /\ x[2] \in DOMAIN fs[x[1]].rows
             /\ x = <<x[1], x[2]>> /\ x[1] \in Nat /\ x[2] \in Nat
  <2>1. PICK f \in DOMAIN fs : x \in of(f)
    BY <1>7
  <2>2. PICK i \in DOMAIN fs[f].rows : x = <<f, i>>
    BY <2>1
  <2>3. x[1] = f /\ x[2] = i
    BY <2>2
  <2> QED
    BY <1>1, <2>2, <2>3
<1>8. ASSUME NEW f \in DOMAIN fs, NEW i \in DOMAIN fs[f].rows
      PROVE  <<f, i>> \in UNION all
  OBVIOUS
<1> HIDE DEF all
<1> QED
  BY <1>5, <1>6, <1>7, <1>8

(* The sequence numbers of rows on file have ranks.                        *)
LEMMA RankOfSequence ==
    ASSUME NEW numbers, IsFiniteSet(numbers), NEW n \in numbers
    PROVE  ranks(numbers)[n] \in Int
<1> DEFINE before == {m \in numbers : text_before(text(m), text(n))}
<1>1. IsFiniteSet(before)
  BY FS_Subset
<1>2. Cardinality(before) \in Nat
  <2> HIDE DEF before
  <2> QED
    BY <1>1, FS_CardinalityType
<1>3. ranks(numbers)[n] = Cardinality(before)
  BY DEF ranks
<1> HIDE DEF before
<1> QED
  BY <1>2, <1>3

(* An order of the paths puts no two files in the same place.              *)
LEMMA PathOrder ==
    ASSUME NEW fs \in Seq(File), NEW order \in path_orders(fs)
    PROVE  /\ \A f \in DOMAIN fs : order[f] \in Nat
           /\ \A f, g \in DOMAIN fs : order[f] = order[g] => f = g
<1> DEFINE keys(f) == {<<event_time(r), r.received_at, r.channel, r.sequence>> :
                        r \in ToSet(fs[f].rows)}
           tied == {f \in DOMAIN fs : \E g \in DOMAIN fs \ {f} : keys(f) \cap keys(g) # {}}
           D == DOMAIN fs
<1>1. PICK o \in Bijection(tied, tied) :
         order = [f \in D |-> IF f \in tied THEN o[f] ELSE f]
  BY DEF path_orders
<1>2. tied \subseteq D /\ D \subseteq Nat
  OBVIOUS
<1> HIDE DEF tied, D
<1>3. /\ o \in [tied -> tied]
      /\ \A f, g \in tied : o[f] = o[g] => f = g
  BY DEF Bijection, Injection, IsInjective
<1>4. \A f \in D : order[f] = IF f \in tied THEN o[f] ELSE f
  BY <1>1
<1>5. \A f \in D : order[f] \in Nat
  BY <1>2, <1>3, <1>4
<1>6. \A f, g \in D : order[f] = order[g] => f = g
  BY <1>2, <1>3, <1>4
<1> QED
  BY <1>5, <1>6 DEF D

(* Reading the store yields the rows that are on file, and all of them     *)
(* (ParquetEventStore.read).                                               *)
LEMMA ReadAll ==
    ASSUME NEW fs \in Seq(File), NEW order \in path_orders(fs)
    PROVE  LET rows == read(fs, order)
           IN  /\ rows \in Seq(Row)
               /\ \A k \in DOMAIN rows : rows[k] \in OnFile(fs)
               /\ \A r \in OnFile(fs) : \E k \in DOMAIN rows : rows[k] = r
<1> DEFINE places == Places(fs)
           row(x) == fs[x[1]].rows[x[2]]
           numbers == {row(x).sequence : x \in places}
           rank == ranks(numbers)
           spot(x) == <<order[x[1]], x[2]>>
           key(x) == place_key(row(x), rank, spot(x))
           entry(x) == [key |-> key(x), row |-> row(x)]
           keyed == {entry(x) : x \in places}
           earlier(e) == {y \in keyed : key_before(y.key, e.key)}
           put_at(e) == [place |-> Cardinality(earlier(e)) + 1, row |-> e.row]
           placed == {put_at(e) : e \in keyed}
           n == Cardinality(keyed)
           at(k) == CHOOSE p \in placed : p.place = k
           rows == [k \in 1 .. n |-> at(k).row]
           keys == [e \in keyed |-> e.key]
           before == [e \in keyed |-> earlier(e)]
<1>1. read(fs, order) = rows
  BY DEF read, Places, place_key
<1>2. /\ IsFiniteSet(places)
      /\ \A x \in places : /\ x[1] \in DOMAIN fs /\ x[2] \in DOMAIN fs[x[1]].rows
                           /\ x = <<x[1], x[2]>> /\ x[1] \in Nat /\ x[2] \in Nat
      /\ \A f \in DOMAIN fs : \A i \in DOMAIN fs[f].rows : <<f, i>> \in places
  BY FinitePlaces
<1> HIDE DEF places
<1>3. ASSUME NEW x \in places
      PROVE  row(x) \in Row /\ row(x) \in OnFile(fs)
  <2>1. x[1] \in DOMAIN fs /\ x[2] \in DOMAIN fs[x[1]].rows
    BY <1>2
  <2>2. fs[x[1]] \in File
    BY <2>1
  <2>3. fs[x[1]].rows \in Seq(Row)
    BY <2>2 DEF File
  <2>4. row(x) \in Row
    BY <2>1, <2>3
  <2>5. row(x) \in OnFile(fs)
    BY <2>1 DEF OnFile, Elements
  <2> QED
    BY <2>4, <2>5
<1>a. \A x \in places : rank[row(x).sequence] \in Int
  <2> DEFINE g == [x \in places |-> row(x).sequence]
  <2>1. g \in Surjection(places, numbers)
    BY DEF Surjection
  <2> HIDE DEF g, numbers
  <2>2. IsFiniteSet(numbers)
    BY <1>2, <2>1, FS_Surjection
  <2>3. \A x \in places : row(x).sequence \in numbers
    BY DEF numbers
  <2> QED
    BY <2>2, <2>3, RankOfSequence
<1> HIDE DEF rank, numbers
<1>4. ASSUME NEW x \in places
      PROVE  /\ key(x) \in Keys /\ key(x)[5] = order[x[1]] /\ key(x)[6] = x[2]
  <2>1. PICK r \in Row : r = row(x)
    BY <1>3
  <2>2. PICK f \in Nat, i \in Nat : f = order[x[1]] /\ i = x[2]
    BY <1>2, PathOrder
  <2>3. PICK z : z = <<f, i>>
    OBVIOUS
  <2>4. Place(z) /\ z[1] = f /\ z[2] = i
    BY <2>3 DEF Place
  <2>5. rank[r.sequence] \in Int
    BY <1>a, <2>1
  <2>6. /\ place_key(r, rank, z) \in Keys
        /\ place_key(r, rank, z)[5] = z[1] /\ place_key(r, rank, z)[6] = z[2]
    BY <2>4, <2>5, KeyType
  <2> QED
    BY <2>1, <2>2, <2>3, <2>4, <2>6
<1> HIDE DEF key, row
<1>b. \A x, y \in places : key(x) = key(y) => x = y
  <2>1. SUFFICES ASSUME NEW x \in places, NEW y \in places, key(x) = key(y)
                 PROVE  x = y
    OBVIOUS
  <2>2. order[x[1]] = order[y[1]] /\ x[2] = y[2]
    BY <1>4, <2>1
  <2>3. x[1] = y[1]
    BY <1>2, <2>2, PathOrder
  <2> QED
    BY <1>2, <2>2, <2>3
<1>c. IsFiniteSet(keyed)
  <2> DEFINE g == [x \in places |-> entry(x)]
  <2>1. g \in Surjection(places, keyed)
    <3> HIDE DEF entry
    <3> QED
      BY DEF Surjection
  <2> HIDE DEF g, keyed
  <2> QED
    BY <1>2, <2>1, FS_Surjection
<1>d. /\ \A e \in keyed : \E x \in places : e = entry(x)
      /\ \A x \in places : entry(x) \in keyed
  OBVIOUS
<1>e. \A x : entry(x).key = key(x) /\ entry(x).row = row(x)
  OBVIOUS
<1> HIDE DEF keyed, entry
<1>5. \A e \in keyed : keys[e] = e.key
  OBVIOUS
<1>6. \A e \in keyed : keys[e] \in Keys
  BY <1>4, <1>5, <1>d, <1>e
<1>7. \A x, y \in keyed : keys[x] = keys[y] => x = y
  <2>1. SUFFICES ASSUME NEW x \in keyed, NEW y \in keyed, keys[x] = keys[y]
                 PROVE  x = y
    OBVIOUS
  <2>2. PICK v \in places, z \in places : x = entry(v) /\ y = entry(z)
    BY <1>d
  <2>3. key(v) = key(z)
    BY <1>5, <1>e, <2>1, <2>2
  <2> QED
    BY <1>b, <2>2, <2>3
<1>8. /\ \A e \in keyed : before[e] = earlier(e) /\ before[e] \subseteq keyed
      /\ \A x, y \in keyed : y \in before[x] <=> key_before(keys[y], keys[x])
  BY <1>5
<1> HIDE DEF keys, before, earlier
<1>9. /\ n \in Nat
      /\ \A x \in keyed : Cardinality(before[x]) \in 0 .. n - 1
      /\ \A x, y \in keyed : Cardinality(before[x]) = Cardinality(before[y]) => x = y
      /\ \A k \in 0 .. n - 1 : \E x \in keyed : Cardinality(before[x]) = k
  <2>1. PICK S, ky, bf : S = keyed /\ ky = keys /\ bf = before
    OBVIOUS
  <2>2. /\ IsFiniteSet(S) /\ \A x \in S : ky[x] \in Keys
        /\ \A x, y \in S : ky[x] = ky[y] => x = y
        /\ \A x \in S : bf[x] \subseteq S
        /\ \A x, y \in S : y \in bf[x] <=> key_before(ky[y], ky[x])
    BY <1>c, <1>6, <1>7, <1>8, <2>1
  <2>3. /\ Cardinality(S) \in Nat
        /\ \A x \in S : Cardinality(bf[x]) \in 0 .. Cardinality(S) - 1
        /\ \A x, y \in S : Cardinality(bf[x]) = Cardinality(bf[y]) => x = y
        /\ \A k \in 0 .. Cardinality(S) - 1 : \E x \in S : Cardinality(bf[x]) = k
    <3>1. Line(bf, S)
      BY ONLY <2>2, KeysInLine
    <3> QED
      BY ONLY <2>2, <3>1, Ranked
  <2> QED
    BY <2>1, <2>3
<1> HIDE DEF n
<1>10. /\ \A x \in keyed : Cardinality(earlier(x)) \in 0 .. n - 1
       /\ \A x, y \in keyed : Cardinality(earlier(x)) = Cardinality(earlier(y)) => x = y
       /\ \A k \in 0 .. n - 1 : \E x \in keyed : Cardinality(earlier(x)) = k
  BY <1>8, <1>9
<1>f. /\ \A e : put_at(e).place = Cardinality(earlier(e)) + 1 /\ put_at(e).row = e.row
      /\ \A p \in placed : \E e \in keyed : p = put_at(e)
      /\ \A e \in keyed : put_at(e) \in placed
  OBVIOUS
<1> HIDE DEF placed, put_at
<1>11. \A k \in 1 .. n : at(k) \in placed /\ at(k).place = k
  <2>1. SUFFICES ASSUME NEW k \in 1 .. n
                 PROVE  \E p \in placed : p.place = k
    OBVIOUS
  <2>2. k - 1 \in 0 .. n - 1 /\ (k - 1) + 1 = k
    BY <1>9
  <2>3. PICK e \in keyed : Cardinality(earlier(e)) = k - 1
    BY <1>10, <2>2
  <2> QED
    BY <1>f, <2>2, <2>3
<1> HIDE DEF at
<1>g. \A k \in 1 .. n : \E x \in places : at(k) = put_at(entry(x)) /\ at(k).row = row(x)
  BY <1>11, <1>d, <1>e, <1>f
<1>12. rows \in [1 .. n -> Row] /\ \A k \in 1 .. n : rows[k] = at(k).row
  BY <1>3, <1>g
<1>13. rows \in Seq(Row) /\ DOMAIN rows = 1 .. n
  BY <1>9, <1>12
<1>14. \A k \in 1 .. n : rows[k] \in OnFile(fs)
  BY <1>3, <1>g, <1>12
<1>15. ASSUME NEW r \in OnFile(fs)
       PROVE  \E k \in 1 .. n : rows[k] = r
  <2>1. PICK f \in DOMAIN fs : r \in Elements(fs[f].rows)
    BY DEF OnFile
  <2>2. PICK i \in DOMAIN fs[f].rows : r = fs[f].rows[i]
    BY <2>1 DEF Elements
  <2> DEFINE x == <<f, i>>
  <2>3. x \in places /\ x[1] = f /\ x[2] = i
    BY <1>2, <2>1, <2>2
  <2>4. row(x) = r
    BY <2>2, <2>3 DEF row
  <2> HIDE DEF x, rows
  <2>a. PICK e \in keyed : e = entry(x) /\ e.row = r
    BY <1>d, <1>e, <2>3, <2>4
  <2> DEFINE k == Cardinality(earlier(e)) + 1
  <2>5. k \in 1 .. n
    <3>1. PICK c \in 0 .. n - 1 : c = Cardinality(earlier(e))
      BY <1>10
    <3>2. c + 1 \in 1 .. n
      BY ONLY <1>9
    <3> QED
      BY <3>1, <3>2
  <2>6. PICK d \in keyed : at(k) = put_at(d)
    BY <1>f, <1>11, <2>5
  <2>7. d = e
    <3>1. PICK c \in 0 .. n - 1, b \in 0 .. n - 1 :
             c = Cardinality(earlier(e)) /\ b = Cardinality(earlier(d))
      BY <1>10
    <3>2. b + 1 = c + 1
      BY <1>f, <1>11, <2>5, <2>6, <3>1
    <3> QED
      BY <1>9, <1>10, <3>1, <3>2
  <2> HIDE DEF k
  <2> QED
    BY <1>f, <1>12, <2>a, <2>5, <2>6, <2>7
<1> HIDE DEF rows
<1> QED
  BY <1>1, <1>13, <1>14, <1>15

-----------------------------------------------------------------------------
(* The normalizer along the rows.                                          *)

(* A book for each number of rows read so far.                             *)
Books(b, rows) ==
    b = [k \in 0 .. Len(rows) |-> IF k = 0 THEN Empty ELSE normalizer(b[k - 1], rows[k])]

(* There is such a function.                                               *)
LEMMA BooksExist ==
    ASSUME NEW rows \in Seq(Row)
    PROVE  \E b : Books(b, rows)
<1> DEFINE upto(b, n) == b = [k \in 0 .. n |-> IF k = 0 THEN Empty ELSE normalizer(b[k - 1], rows[k])]
           M == {0 - n : n \in {n \in 0 .. Len(rows) : ~\E b : upto(b, n)}}
<1>1. Len(rows) \in Nat
  OBVIOUS
<1>2. \E b : upto(b, 0)
  <2> DEFINE b == [k \in 0 .. 0 |-> Empty]
  <2>1. b = [k \in 0 .. 0 |-> IF k = 0 THEN Empty ELSE normalizer(b[k - 1], rows[k])]
    OBVIOUS
  <2> QED
    BY <2>1
<1>3. ASSUME NEW n \in 0 .. Len(rows) - 1, NEW b, upto(b, n)
      PROVE  \E c : upto(c, n + 1)
  <2> DEFINE c == [k \in 0 .. n + 1 |-> IF k = n + 1 THEN normalizer(b[n], rows[n + 1]) ELSE b[k]]
             d == [k \in 0 .. n + 1 |-> IF k = 0 THEN Empty ELSE normalizer(c[k - 1], rows[k])]
  <2>1. \A k \in 0 .. n : b[k] = IF k = 0 THEN Empty ELSE normalizer(b[k - 1], rows[k])
    BY <1>3
  <2>2. \A k \in 0 .. n : c[k] = b[k]
    BY <1>1
  <2>3. c[n + 1] = normalizer(b[n], rows[n + 1])
    BY <1>1
  <2>4. \A k \in 0 .. n + 1 : d[k] = IF k = 0 THEN Empty ELSE normalizer(c[k - 1], rows[k])
    OBVIOUS
  <2>5. DOMAIN c = 0 .. n + 1 /\ DOMAIN d = 0 .. n + 1
    OBVIOUS
  <2>6. c = [k \in DOMAIN c |-> c[k]] /\ d = [k \in DOMAIN d |-> d[k]]
    OBVIOUS
  <2>7. \A k \in 0 .. n + 1 : c[k] = d[k]
    <3> HIDE DEF c, d
    <3>1. ASSUME NEW k \in 0 .. n
          PROVE  c[k] = d[k]
      <4>1. k \in 0 .. n + 1 /\ (k # 0 => k - 1 \in 0 .. n)
        BY <1>1, <3>1
      <4>2. k # 0 => c[k - 1] = b[k - 1]
        BY <2>2, <4>1
      <4> QED
        BY <2>1, <2>2, <2>4, <3>1, <4>1, <4>2
    <3>2. c[n + 1] = d[n + 1]
      <4>1. n + 1 \in 0 .. n + 1 /\ n + 1 # 0 /\ (n + 1) - 1 = n /\ n \in 0 .. n
        BY <1>1
      <4> QED
        BY <2>2, <2>3, <2>4, <4>1
    <3> QED
      BY <1>1, <3>1, <3>2
  <2>8. c = d
    <3> HIDE DEF c, d
    <3> QED
      BY <2>5, <2>6, <2>7
  <2> QED
    BY <2>8
<1>4. \A n \in 0 .. Len(rows) : \E b : upto(b, n)
  <2> HIDE DEF upto
  <2>1. SUFFICES ASSUME M # {}
                 PROVE  FALSE
    OBVIOUS
  <2>2. \A x \in M : x \in Int /\ x <= 0 /\ x >= 0 - Len(rows)
    BY <1>1
  <2>3. IsFiniteSet(M)
    <3>1. IsFiniteSet(0 - Len(rows) .. 0)
      BY <1>1, FS_Interval
    <3>2. M \subseteq 0 - Len(rows) .. 0
      <4> HIDE DEF M
      <4> QED
        BY <1>1, <2>2
    <3> HIDE DEF M
    <3> QED
      BY <3>1, <3>2, FS_Subset
  <2>4. PICK x \in M : \A y \in M : y <= x
    <3> HIDE DEF M
    <3> QED
      BY <2>1, <2>2, <2>3, Largest
  <2>5. PICK n \in 0 .. Len(rows) : x = 0 - n /\ ~\E b : upto(b, n)
    OBVIOUS
  <2>6. n # 0
    BY <1>2, <2>5
  <2>7. n - 1 \in 0 .. Len(rows) - 1 /\ n - 1 \in 0 .. Len(rows) /\ (n - 1) + 1 = n
    BY <1>1, <2>6
  <2>8. 0 - (n - 1) \notin M
    <3>1. ~(0 - (n - 1) <= x)
      BY <2>5
    <3> QED
      BY <2>4, <3>1
  <2>9. \E b : upto(b, n - 1)
    BY <2>7, <2>8
  <2>10. \E b : upto(b, (n - 1) + 1)
    BY <1>3, <2>7, <2>9
  <2> QED
    BY <2>5, <2>7, <2>10
<1>5. Len(rows) \in 0 .. Len(rows)
  BY <1>1
<1>6. PICK b : upto(b, Len(rows))
  <2> HIDE DEF upto
  <2> QED
    BY <1>4, <1>5
<1> QED
  BY <1>6 DEF Books

(* What a replay shows: its rows in order, and after each row of the feed  *)
(* the book so far.                                                        *)
LEMMA Replayed ==
    ASSUME NEW rows \in Seq(Row)
    PROVE  \E b : /\ DOMAIN replay(rows) = DOMAIN rows
                  /\ b[0] = Empty
                  /\ \A k \in DOMAIN rows :
                        /\ b[k] = normalizer(b[k - 1], rows[k])
                        /\ replay(rows)[k].row = rows[k]
                        /\ rows[k].channel # "book" => replay(rows)[k].shows = b[k]
<1> DEFINE b == CHOOSE b : Books(b, rows)
<1>1. Books(b, rows)
  BY BooksExist
<1>2. replay(rows) = [k \in DOMAIN rows |->
            [row |-> rows[k], shows |-> IF rows[k].channel = "book" THEN rows[k].content ELSE b[k]]]
  BY DEF replay, Books
<1> HIDE DEF b
<1>3. Len(rows) \in Nat /\ DOMAIN rows = 1 .. Len(rows)
  OBVIOUS
<1>4. \A k \in 0 .. Len(rows) : b[k] = IF k = 0 THEN Empty ELSE normalizer(b[k - 1], rows[k])
  BY <1>1 DEF Books
<1>5. b[0] = Empty /\ \A k \in DOMAIN rows : b[k] = normalizer(b[k - 1], rows[k])
  BY <1>3, <1>4
<1> DEFINE shown == replay(rows)
<1>6. DOMAIN shown = DOMAIN rows
  BY <1>2
<1>7. \A k \in DOMAIN rows : /\ shown[k].row = rows[k]
                             /\ rows[k].channel # "book" => shown[k].shows = b[k]
  BY <1>2
<1> HIDE DEF shown
<1>8. /\ DOMAIN shown = DOMAIN rows
      /\ b[0] = Empty
      /\ \A k \in DOMAIN rows :
            /\ b[k] = normalizer(b[k - 1], rows[k])
            /\ shown[k].row = rows[k]
            /\ rows[k].channel # "book" => shown[k].shows = b[k]
  BY <1>5, <1>6, <1>7
<1> QED
  BY <1>8 DEF shown

(* A stretch without book envelopes.                                       *)
Still(rows, b, m, n) ==
    \A z \in m + 1 .. n : b[z] = normalizer(b[z - 1], rows[z]) /\ ~BookRow(rows[z])

(* Along it the normalizer keeps its book.                                 *)
LEMMA BookKept ==
    ASSUME NEW rows, NEW b, NEW m \in Int, NEW n \in Int,
           Still(rows, b, m, n)
    PROVE  \A z \in m .. n : b[z] = b[m]
<1> DEFINE S == {z \in m .. n : b[z] # b[m]}
<1>1. SUFFICES ASSUME S # {}
               PROVE  FALSE
  OBVIOUS
<1>2. PICK z \in S : \A y \in S : z <= y
  <2>1. \A x \in S : x \in m .. n
    OBVIOUS
  <2> HIDE DEF S
  <2> QED
    BY <1>1, <2>1, FirstPosition
<1>3. z \in m + 1 .. n /\ z - 1 \in m .. n
  OBVIOUS
<1>4. z - 1 \notin S
  BY <1>2, <1>3
<1>5. b[z - 1] = b[m]
  BY <1>3, <1>4
<1>6. b[z] = b[z - 1]
  BY <1>3 DEF Still, normalizer, BookRow
<1> QED
  BY <1>5, <1>6

(* Rows that are the stored ones, in some order, with the normalizer's     *)
(* books b, and a stretch of them that the replay left intact.             *)
Rebuilt(rows, b, stored) ==
    /\ \A x \in DOMAIN rows : /\ rows[x] \in stored /\ rows[x].id \in Int
                              /\ b[x] = normalizer(b[x - 1], rows[x])
    /\ \A r \in stored : \E x \in DOMAIN rows : rows[x] = r
    /\ \A r \in stored : r.channel = "orderbook_snapshot" => r.content = r.truth
    /\ \A r \in stored : Continues(r) => \E p \in stored : Follows(p, r, stored)
    /\ \A x \in DOMAIN rows : x \in Int

Intact(rows, j, k) ==
    /\ j <= k /\ \A x \in j .. k : x \in DOMAIN rows
    /\ rows[j].channel = "orderbook_snapshot" /\ BookRow(rows[k])
    /\ \A x \in j + 1 .. k : BookRow(rows[x]) => Continues(rows[x])
    /\ \A x, y \in j .. k :
           BookRow(rows[x]) /\ BookRow(rows[y]) /\ x < y => rows[x].id < rows[y].id
    /\ \A x \in DOMAIN rows :
           BookRow(rows[x]) /\ rows[x].id \in rows[j].id .. rows[k].id => x \in j .. k

(* What an envelope continues stands before it in the stretch, and no book *)
(* envelope between them.                                                  *)
LEMMA Continued ==
    ASSUME NEW rows, NEW b, NEW stored, Rebuilt(rows, b, stored),
           NEW j \in Int, NEW k \in Int, Intact(rows, j, k),
           NEW x \in j + 1 .. k, BookRow(rows[x])
    PROVE  \E y \in j .. x - 1 :
              /\ BookRow(rows[y])
              /\ rows[x].truth = apply_delta(rows[y].truth, rows[x].content)
              /\ \A z \in y + 1 .. x - 1 : ~BookRow(rows[z])
<1>1. /\ x \in Int /\ x \in j .. k /\ j \in j .. k /\ k \in j .. k /\ j < x /\ x <= k
  OBVIOUS
<1>2. \A z \in j .. k : z \in DOMAIN rows /\ rows[z].id \in Int
  BY DEF Intact, Rebuilt
<1>3. Continues(rows[x]) /\ rows[x] \in stored
  BY <1>1, <1>2 DEF Intact, Rebuilt
<1>4. PICK p \in stored : Follows(p, rows[x], stored)
  BY <1>3 DEF Rebuilt
<1>5. PICK y \in DOMAIN rows : rows[y] = p
  BY DEF Rebuilt
<1>6. /\ BookRow(rows[y]) /\ rows[y].id < rows[x].id
      /\ rows[x].truth = apply_delta(rows[y].truth, rows[x].content)
      /\ \A q \in stored : BookRow(q) => ~(rows[y].id < q.id /\ q.id < rows[x].id)
  BY <1>4, <1>5 DEF Follows
<1>7. y \in Int /\ rows[y].id \in Int
  BY DEF Rebuilt
<1>8. \A z \in j .. k : BookRow(rows[z]) => ~(rows[y].id < rows[z].id /\ rows[z].id < rows[x].id)
  BY <1>2, <1>6 DEF Rebuilt
<1>9. \A z, w \in j .. k :
          BookRow(rows[z]) /\ BookRow(rows[w]) /\ z < w => rows[z].id < rows[w].id
  BY DEF Intact
<1>10. BookRow(rows[j]) /\ BookRow(rows[k])
  BY DEF Intact, BookRow
<1>11. y \in j .. k
  <2>1. rows[j].id < rows[x].id
    BY <1>1, <1>9, <1>10
  <2>2. rows[j].id <= rows[y].id
    <3>1. rows[j].id \in Int
      BY <1>1, <1>2
    <3> QED
      BY ONLY <1>1, <1>7, <1>8, <1>10, <2>1, <3>1
  <2>3. rows[x].id <= rows[k].id
    <3>1. CASE x = k
      BY <1>1, <1>2, <3>1
    <3>2. CASE x < k
      <4>1. rows[x].id < rows[k].id
        BY <1>1, <1>9, <1>10, <3>2
      <4> QED
        BY <1>1, <1>2, <4>1
    <3> QED
      BY <1>1, <3>1, <3>2
  <2>4. rows[y].id \in rows[j].id .. rows[k].id
    <3>1. rows[j].id \in Int /\ rows[x].id \in Int /\ rows[k].id \in Int
      BY <1>1, <1>2
    <3> QED
      BY ONLY <1>6, <1>7, <2>2, <2>3, <3>1
  <2> QED
    BY <1>6, <2>4 DEF Intact
<1>12. y < x
  <2>1. x = y => FALSE
    BY <1>1, <1>2, <1>6
  <2>2. x < y => FALSE
    <3>1. x < y => rows[x].id < rows[y].id
      BY <1>1, <1>6, <1>9, <1>11
    <3>2. rows[x].id \in Int
      BY <1>1, <1>2
    <3> QED
      BY ONLY <1>6, <1>7, <3>1, <3>2
  <2> QED
    BY ONLY <1>1, <1>7, <2>1, <2>2
<1>13. \A z \in y + 1 .. x - 1 : ~BookRow(rows[z])
  <2>1. SUFFICES ASSUME NEW z \in y + 1 .. x - 1, BookRow(rows[z])
                 PROVE  FALSE
    OBVIOUS
  <2>2. z \in j .. k /\ y < z /\ z < x
    BY ONLY <1>1, <1>7, <1>11, z \in y + 1 .. x - 1, j \in Int, k \in Int
  <2>3. rows[y].id < rows[z].id /\ rows[z].id < rows[x].id
    BY <1>1, <1>6, <1>9, <1>11, <2>1, <2>2
  <2> QED
    BY <1>8, <2>1, <2>2, <2>3
<1>14. y \in j .. x - 1
  BY ONLY <1>1, <1>7, <1>11, <1>12, j \in Int, k \in Int
<1> QED
  BY <1>6, <1>13, <1>14

(* Along an intact stretch of rows the normalizer keeps up with the venue. *)
LEMMA KeepsUp ==
    ASSUME NEW rows, NEW b, NEW stored, Rebuilt(rows, b, stored),
           NEW j \in Int, NEW k \in Int, Intact(rows, j, k)
    PROVE  b[k] = rows[k].truth
<1> DEFINE S == {x \in j .. k : BookRow(rows[x]) /\ b[x] # rows[x].truth}
<1>1. SUFFICES ASSUME S # {}
               PROVE  FALSE
  <2>1. k \in j .. k /\ BookRow(rows[k])
    BY DEF Intact
  <2> QED
    BY <2>1
<1>2. PICK x \in S : \A y \in S : x <= y
  <2>1. \A y \in S : y \in j .. k
    OBVIOUS
  <2> HIDE DEF S
  <2> QED
    BY <1>1, <2>1, FirstPosition
<1>3. x \in j .. k /\ x \in Int /\ BookRow(rows[x]) /\ b[x] # rows[x].truth
  OBVIOUS
<1>4. \A y \in j .. x - 1 : BookRow(rows[y]) => b[y] = rows[y].truth
  <2>1. SUFFICES ASSUME NEW y \in j .. x - 1, BookRow(rows[y]), b[y] # rows[y].truth
                 PROVE  FALSE
    OBVIOUS
  <2>2. y \in j .. k /\ y < x
    BY <1>3
  <2>3. y \in S
    BY <2>1, <2>2
  <2> QED
    BY <1>2, <1>3, <2>2, <2>3
<1> HIDE DEF S
<1>5. /\ \A z \in j .. k : z \in DOMAIN rows
      /\ \A z \in DOMAIN rows : b[z] = normalizer(b[z - 1], rows[z])
  BY DEF Intact, Rebuilt
<1>6. CASE x = j
  <2>1. rows[j].channel = "orderbook_snapshot" /\ rows[j] \in stored
    BY <1>3, <1>5, <1>6 DEF Intact, Rebuilt
  <2>2. rows[j].content = rows[j].truth
    BY <2>1 DEF Rebuilt
  <2>3. b[j] = rows[j].content
    BY <1>3, <1>5, <1>6, <2>1 DEF normalizer
  <2> QED
    BY <1>3, <1>6, <2>2, <2>3
<1>7. CASE x # j
  <2>1. x \in j + 1 .. k
    BY <1>3, <1>7
  <2>2. PICK y \in j .. x - 1 :
              /\ BookRow(rows[y])
              /\ rows[x].truth = apply_delta(rows[y].truth, rows[x].content)
              /\ \A z \in y + 1 .. x - 1 : ~BookRow(rows[z])
    BY <1>3, <2>1, Continued
  <2>3. b[y] = rows[y].truth
    BY <1>4, <2>2
  <2>4. PICK n \in Int : n = x - 1
    BY <1>3
  <2>5. y \in Int
    OBVIOUS
  <2>6. Still(rows, b, y, n)
    <3>1. \A z \in y + 1 .. n : z \in j .. k
      BY <1>3, <2>4
    <3>2. \A z \in y + 1 .. n : z \in y + 1 .. x - 1
      BY <2>4
    <3> QED
      BY <1>5, <2>2, <3>1, <3>2 DEF Still
  <2>7. \A z \in y .. n : b[z] = b[y]
    BY ONLY <2>4, <2>5, <2>6, BookKept
  <2>8. n \in y .. n
    BY <1>3, <2>4
  <2>9. b[x - 1] = rows[y].truth
    BY <2>3, <2>4, <2>7, <2>8
  <2>10. rows[x].channel = "orderbook_delta"
    BY <1>3, <2>1 DEF Intact, Continues
  <2>11. b[x] = apply_delta(b[x - 1], rows[x].content)
    BY <1>3, <1>5, <2>10 DEF normalizer
  <2> QED
    BY <1>3, <2>2, <2>9, <2>11
<1> QED
  BY <1>6, <1>7

-----------------------------------------------------------------------------
(* The theorem.                                                            *)

(* Normalizing a chained store shows the venue's books                     *)
(* (normalize_event_lake).                                                 *)
LEMMA Normalized ==
    ASSUME StoreInv, ChainInv, SnapshotInv, normalize
    PROVE  ReplayedBookIsTheVenues'
<1> DEFINE stored == OnFile(files)
           shown == normalized'
<1>1. files \in Seq(File)
  BY DEF StoreInv, FilesOK
<1>2. phase = "down" /\ buffer = <<>>
  BY DEF normalize, StoreInv, BufferInv
<1>3. Elements(buffer) = {}
  BY <1>2 DEF Elements
<1>4. \A r \in stored : Continues(r) => \E p \in stored : Follows(p, r, stored)
  BY <1>3 DEF ChainInv, Chained
<1>5. \A r \in stored : r.channel = "orderbook_snapshot" => r.content = r.truth
  BY DEF SnapshotInv, AllRows
<1>z. PICK order \in path_orders(files) : normalized' = replay(read(files, order))
  BY DEF normalize
<1>6. PICK rows \in Seq(Row) : /\ rows = read(files, order)
                               /\ \A k \in DOMAIN rows : rows[k] \in stored
                               /\ \A r \in stored : \E k \in DOMAIN rows : rows[k] = r
  BY <1>1, ReadAll
<1>7. shown = replay(rows)
  BY <1>6, <1>z
<1> HIDE DEF stored, shown
<1>8. PICK b : /\ DOMAIN shown = DOMAIN rows
               /\ \A k \in DOMAIN rows :
                     /\ b[k] = normalizer(b[k - 1], rows[k])
                     /\ shown[k].row = rows[k]
                     /\ rows[k].channel # "book" => shown[k].shows = b[k]
  <2>1. \E b : /\ DOMAIN replay(rows) = DOMAIN rows
               /\ b[0] = Empty
               /\ \A k \in DOMAIN rows :
                     /\ b[k] = normalizer(b[k - 1], rows[k])
                     /\ replay(rows)[k].row = rows[k]
                     /\ rows[k].channel # "book" => replay(rows)[k].shows = b[k]
    BY Replayed
  <2> QED
    BY ONLY <2>1, <1>7
<1> DEFINE ws == {k \in DOMAIN shown : shown[k].row.channel \in {"orderbook_snapshot", "orderbook_delta"}}
           intact(j, k) ==
               /\ shown[j].row.channel = "orderbook_snapshot"
               /\ \A x \in ws \cap (j + 1 .. k) :
                      shown[x].row.channel = "orderbook_delta" /\ ~shown[x].row.sequence_gap
               /\ \A x, y \in ws \cap (j .. k) : x < y => shown[x].row.id < shown[y].row.id
               /\ \A x \in ws : shown[x].row.id \in shown[j].row.id .. shown[k].row.id => x \in j .. k
<1>9. SUFFICES ASSUME NEW j \in ws, NEW k \in ws, j <= k, intact(j, k)
               PROVE  shown[k].shows = shown[k].row.truth
  BY DEF ReplayedBookIsTheVenues, shown
<1>10. /\ j \in DOMAIN rows /\ k \in DOMAIN rows
       /\ \A x \in DOMAIN rows : x \in ws <=> BookRow(rows[x])
       /\ \A x \in DOMAIN rows : shown[x].row = rows[x]
  BY <1>8 DEF BookRow
<1>11. /\ j \in Int /\ k \in Int /\ \A x \in j .. k : x \in DOMAIN rows
       /\ \A x \in DOMAIN rows : x \in Int /\ rows[x].id \in Int
  <2>1. \A x \in DOMAIN rows : rows[x] \in Row
    OBVIOUS
  <2>2. \A x \in DOMAIN rows : rows[x].id \in Int
    BY <2>1 DEF Row
  <2>3. \A x \in DOMAIN rows : x \in Int
    OBVIOUS
  <2> QED
    BY <1>10, <2>2, <2>3
<1>12. /\ rows[j].channel = "orderbook_snapshot" /\ BookRow(rows[k])
       /\ shown[k].row = rows[k] /\ shown[k].shows = b[k]
  BY <1>8, <1>9, <1>10 DEF BookRow
<1>13. \A x \in j + 1 .. k : BookRow(rows[x]) => Continues(rows[x])
  <2>1. SUFFICES ASSUME NEW x \in j + 1 .. k, BookRow(rows[x])
                 PROVE  Continues(rows[x])
    OBVIOUS
  <2>2. x \in j .. k
    BY <1>11
  <2>3. x \in ws \cap (j + 1 .. k) /\ shown[x].row = rows[x]
    BY <1>10, <1>11, <2>1, <2>2
  <2> QED
    BY <1>9, <2>3 DEF Continues
<1>14. \A x, y \in j .. k :
           BookRow(rows[x]) /\ BookRow(rows[y]) /\ x < y => rows[x].id < rows[y].id
  BY <1>9, <1>10, <1>11
<1>15. \A x \in DOMAIN rows :
           BookRow(rows[x]) /\ rows[x].id \in rows[j].id .. rows[k].id => x \in j .. k
  BY <1>9, <1>10
<1> HIDE DEF ws, intact
<1>16. Intact(rows, j, k)
  BY <1>9, <1>11, <1>12, <1>13, <1>14, <1>15 DEF Intact
<1>17. PICK held : held = stored
  OBVIOUS
<1>18. Rebuilt(rows, b, held)
  BY <1>4, <1>5, <1>6, <1>8, <1>11, <1>17 DEF Rebuilt
<1>19. b[k] = rows[k].truth
  BY ONLY <1>11, <1>16, <1>18, KeepsUp
<1> QED
  BY <1>12, <1>19

(* The invariants together.                                                *)
ReplayInv ==
    /\ StoreInv /\ IdInv /\ CacheInv /\ WireInv /\ ChainInv /\ SnapshotInv
    /\ ReplayedBookIsTheVenues

(* An empty store is chained.                                              *)
LEMMA ReplayInitially == Init => ReplayInv
<1>1. SUFFICES ASSUME Init
               PROVE  ReplayInv
  OBVIOUS
<1>2. /\ up = FALSE /\ last_seq = <<>> /\ buffer = <<>> /\ files = <<>> /\ normalized = <<>>
  BY <1>1 DEF Init
<1>3. StoreInv /\ IdInv
  BY <1>1, StoreInitially, TradesInitially
<1>4. Elements(buffer) = {} /\ OnFile(files) = {} /\ AllRows = {}
  BY <1>2 DEF AllRows, Elements, OnFile
<1>5. CacheInv /\ WireInv
  BY <1>2 DEF CacheInv, WireInv
<1>6. ChainInv /\ SnapshotInv
  BY <1>2, <1>4 DEF ChainInv, Chained, InTime, SnapshotInv
<1>7. ReplayedBookIsTheVenues
  BY <1>2 DEF ReplayedBookIsTheVenues
<1> QED
  BY <1>3, <1>5, <1>6, <1>7 DEF ReplayInv

(* Only normalize writes the normalized store.                             *)
LEMMA NormalizedKept ==
    ASSUME [Next]_vars, ~normalize
    PROVE  normalized' = normalized
<1>1. CASE UNCHANGED vars
  BY <1>1 DEF vars
<1>2. CASE Next
  BY <1>2 DEF Next, venue_delta, venue_trade, tick, start, discover, connect, disconnect,
              receive, stop_session, end_session, last_flush, poll_book, get_trades, poll_trade,
              next_poll, kill, poll_append
<1> QED
  BY <1>1, <1>2

(* Every step keeps the invariants.                                        *)
LEMMA ReplayStep == ReplayInv /\ [Next]_vars => ReplayInv'
<1>1. SUFFICES ASSUME ReplayInv, [Next]_vars
               PROVE  ReplayInv'
  OBVIOUS
<1>2. StoreInv' /\ IdInv' /\ CacheInv' /\ WireInv' /\ ChainInv' /\ SnapshotInv'
  BY <1>1, StoreStep, IdStep, CacheStep, WireStep, ChainStep DEF ReplayInv
<1>3. ReplayedBookIsTheVenues'
  <2>1. CASE normalize
    BY <1>1, <2>1, Normalized DEF ReplayInv
  <2>2. CASE ~normalize
    <3>1. normalized' = normalized
      BY <1>1, <2>2, NormalizedKept
    <3> QED
      BY <1>1, <3>1 DEF ReplayInv, ReplayedBookIsTheVenues
  <2> QED
    BY <2>1, <2>2
<1> QED
  BY <1>2, <1>3 DEF ReplayInv

(* The replayed book is the venue's, whatever was lost, flushed, rotated,  *)
(* reconnected or restarted in between, wherever no gap is marked and the  *)
(* replay order is that of arrival (KalshiNormalizer over                  *)
(* ParquetEventStore.read).                                                *)
THEOREM ReplayIsTrue == Spec => []ReplayedBookIsTheVenues
<1>1. ReplayInv => ReplayedBookIsTheVenues
  BY DEF ReplayInv
<1> QED
  BY <1>1, ReplayInitially, ReplayStep, PTL DEF Spec
=============================================================================
