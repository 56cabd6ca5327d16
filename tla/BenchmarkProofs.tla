---------------------------- MODULE BenchmarkProofs ----------------------------
(***************************************************************************)
(* Proofs about Benchmark: the invariant of the driver, the key generator   *)
(* and the histogram.                                                       *)
(***************************************************************************)
EXTENDS Benchmark, FiniteSetTheorems, TLAPS

-----------------------------------------------------------------------------
(* Arithmetic *)

LEMMA Quotient ==
    ASSUME NEW a \in Int, NEW m \in Nat \ {0}
    PROVE  /\ a \div m \in Int /\ a % m \in 0 .. m - 1 /\ a = m * (a \div m) + (a % m)
           /\ a \in Nat => a \div m \in Nat
OBVIOUS

LEMMA Multiples ==
    ASSUME NEW d \in Int, NEW m \in Nat \ {0}
    PROVE  (d >= 1 => d * m >= m) /\ (d <= -1 => d * m <= -m)
OBVIOUS

\* A quotient and a remainder are determined by the number.
LEMMA ModUnique ==
    ASSUME NEW m \in Nat \ {0}, NEW q \in Int, NEW r \in 0 .. m - 1
    PROVE  (q * m + r) % m = r
<1> DEFINE a == q * m + r  e == a \div m  d == q - e
<1>1. a \in Int /\ e \in Int /\ d \in Int /\ a % m \in 0 .. m - 1
  OBVIOUS
<1>2. a = m * e + (a % m)
  BY <1>1, Quotient
<1>3. d * m = (a % m) - r
  <2>1. d * m = q * m - m * e
    BY <1>1
  <2>2. q * m = a - r
    BY <1>1
  <2> HIDE DEF a, e, d
  <2>3. QED BY <1>1, <1>2, <2>1, <2>2
<1> HIDE DEF a, e, d
<1>4. d = 0
  BY <1>1, <1>3, Multiples
<1>5. a % m = r
  BY <1>1, <1>3, <1>4
<1>6. QED BY <1>5 DEF a

\* Whole batches that start below n end at most at n, rounded up.
LEMMA RoundUpFacts ==
    ASSUME NEW n \in Nat, NEW b \in Nat \ {0}
    PROVE  /\ RoundUp(n, b) \in Nat /\ n <= RoundUp(n, b) /\ (b = 1 => RoundUp(n, b) = n)
           /\ \A k \in Nat : k % b = 0 /\ k < n => k + b <= RoundUp(n, b) /\ (k + b) % b = 0
<1> DEFINE d == (n + b - 1) \div b
<1>1. d \in Nat /\ n + b - 1 = b * d + ((n + b - 1) % b) /\ (n + b - 1) % b \in 0 .. b - 1
  <2> DEFINE a == n + b - 1
  <2>1. a \in Nat /\ a \in Int
    OBVIOUS
  <2> HIDE DEF a
  <2>2. a \div b \in Nat /\ a % b \in 0 .. b - 1 /\ a = b * (a \div b) + (a % b)
    BY <2>1, Quotient
  <2>3. QED BY <2>2 DEF a
<1>2. RoundUp(n, b) = d * b
  BY DEF RoundUp
<1>3. b * d = d * b /\ d * b \in Nat
  BY <1>1
<1> HIDE DEF d
<1>4. n <= d * b
  BY <1>1, <1>3
<1>5. b = 1 => d * b = n
  <2>1. ASSUME b = 1 PROVE d * b = n
    <3>1. (n + b - 1) % b = 0 /\ b * d = d
      BY <1>1, <2>1
    <3>2. QED BY <1>1, <1>3, <2>1, <3>1
  <2>2. QED BY <2>1
<1>6. ASSUME NEW k \in Nat, k % b = 0, k < n
      PROVE  k + b <= d * b /\ (k + b) % b = 0
  <2> DEFINE q == k \div b
  <2>1. q \in Nat /\ k = b * q
    BY <1>6, Quotient
  <2> HIDE DEF q
  <2>2. (d - q) * b = d * b - b * q /\ d - q \in Int
    BY <1>1, <2>1
  <2>3. ~(d - q <= 0)
    <3>1. ASSUME d - q <= 0 PROVE (d - q) * b <= 0
      <4>1. CASE d - q = 0
        BY <4>1
      <4>2. CASE d - q <= -1
        BY <2>2, <4>2, Multiples
      <4>3. QED BY <2>2, <3>1, <4>1, <4>2
    <3>2. QED BY <1>3, <1>4, <1>6, <2>1, <2>2, <3>1
  <2>4. (d - q) * b >= b
    BY <2>2, <2>3, Multiples
  <2>5. k + b <= d * b
    BY <1>3, <2>1, <2>2, <2>4
  <2>6. k + b = (q + 1) * b + 0
    BY <2>1
  <2>7. (k + b) % b = 0
    BY <2>1, <2>6, ModUnique
  <2>8. QED BY <2>5, <2>7
<1>7. QED BY <1>2, <1>3, <1>4, <1>5, <1>6

-----------------------------------------------------------------------------
(* The generator of keys *)

\* Adding high and low bits divides by M: the seed never becomes 0 or M.
LEMMA RandFacts ==
    ASSUME NEW s \in 1 .. M - 1
    PROVE  rand_next(s) = (A * s) % M /\ rand_next(s) \in 1 .. M - 1
<1> DEFINE p == s * A  hi == p \div (M + 1)  lo == p % (M + 1)  sum == hi + lo
<1>1. M \in Nat \ {0} /\ A \in 1 .. M - 1 /\ (A * s) % M # 0
  BY BenchmarkAssumption
<1>2. p \in Nat /\ p = A * s
  BY <1>1
<1>3. p < (M - 1) * (M + 1)
  <2>1. p <= (M - 1) * A /\ (M - 1) * A <= (M - 1) * (M - 1)
    BY <1>1
  <2>2. (M - 1) * (M - 1) < (M - 1) * (M + 1)
    BY <1>1
  <2> HIDE DEF p
  <2>3. QED BY <1>1, <1>2, <2>1, <2>2
<1>4. p % M # 0
  BY <1>1, <1>2
<1>5. rand_next(s) = IF sum > M THEN sum - M ELSE sum
  BY DEF rand_next
<1> HIDE DEF p
<1>6. hi \in Nat /\ lo \in 0 .. M /\ p = (M + 1) * hi + lo
  <2> DEFINE m == M + 1
  <2>1. m \in Nat \ {0} /\ p \in Int /\ m - 1 = M
    BY <1>1, <1>2
  <2> HIDE DEF m
  <2>2. p \div m \in Nat /\ p % m \in 0 .. m - 1 /\ p = m * (p \div m) + (p % m)
    BY <1>2, <2>1, Quotient
  <2>3. QED BY <2>1, <2>2 DEF m
<1> HIDE DEF hi, lo
<1>7. hi < M - 1
  <2>1. ASSUME hi >= M - 1 PROVE FALSE
    <3>1. (M + 1) * hi >= (M + 1) * (M - 1)
      BY <1>1, <1>6, <2>1
    <3>2. QED BY <1>1, <1>2, <1>3, <1>6, <3>1
  <2>2. QED BY <1>1, <1>6, <2>1
<1>8. p = hi * M + sum /\ p = (hi + 1) * M + (sum - M)
  BY <1>1, <1>6
<1>9. sum \in 0 .. 2 * M - 1
  BY <1>1, <1>6, <1>7
<1> HIDE DEF sum
<1>10. CASE sum >= M
  <2>1. sum - M \in 0 .. M - 1 /\ hi + 1 \in Int
    BY <1>1, <1>6, <1>9, <1>10
  <2>2. p % M = sum - M
    BY <1>1, <1>8, <2>1, ModUnique
  <2>3. sum > M
    BY <1>1, <1>4, <1>9, <1>10, <2>2
  <2>4. QED BY <1>1, <1>2, <1>4, <1>5, <2>1, <2>2, <2>3
<1>11. CASE sum < M
  <2>1. sum \in 0 .. M - 1 /\ hi \in Int /\ ~(sum > M)
    BY <1>1, <1>6, <1>9, <1>11
  <2>2. p % M = sum
    BY <1>1, <1>8, <2>1, ModUnique
  <2>3. QED BY <1>1, <1>2, <1>4, <1>5, <2>1, <2>2
<1>12. QED BY <1>1, <1>9, <1>10, <1>11

-----------------------------------------------------------------------------
(* The driver *)

Numbers == /\ NUM \in Nat \ {0} /\ HUNDRED \in Nat \ {0} /\ THOUSAND \in Nat \ {0}
           /\ BATCH \in Nat \ {0} /\ VALUE \in Nat \ {0} /\ LARGE \in Nat \ {0}
           /\ PIECE \in Nat \ {0} /\ FILL \in Nat \ {0} /\ NUMDATA \in Nat \ {0}
           /\ M \in Nat \ {0} /\ MaxBench \in Nat \ {0}

LEMMA ConstantsTyped == Numbers
BY BenchmarkAssumption DEF Numbers

LEMMA Smaller ==
    ASSUME NEW n \in Nat, NEW m \in Nat \ {0}
    PROVE  n \div m \in Nat /\ n \div m <= n
<1>1. n \div m \in Nat /\ n = m * (n \div m) + (n % m) /\ n % m >= 0
  BY Quotient
<1> DEFINE q == n \div m
<1> HIDE DEF q
<1>2. q \in Nat /\ m * q <= n
  BY <1>1 DEF q
<1>3. m * q >= q
  BY <1>2
<1>4. QED BY <1>1, <1>2, <1>3 DEF q

\* A benchmark: one of writing works on keys below NUM, and only one of batches
\* takes more than one entry at a time.
Bench(b) ==
    /\ b.op \in {"write", "read"} /\ b.n \in Nat /\ b.size \in Nat /\ b.batch \in 1 .. BATCH
    /\ b.op = "write" => b.n <= NUM /\ RoundUp(b.n, b.batch) <= RoundUp(NUM, BATCH)

LEMMA BenchTyped ==
    ASSUME flags.reads \in Nat, NEW b \in Benchmarks \cup {Read("seq", 0)}
    PROVE  Bench(b)
<1>0. Numbers /\ RoundUp(NUM, 1) = NUM /\ NUM <= RoundUp(NUM, BATCH)
  BY ConstantsTyped, RoundUpFacts DEF Numbers
<1>1. ASSUME NEW n \in Nat, n <= NUM, NEW size \in Nat, NEW o PROVE Bench(Write(o, n, size, 1))
  <2>1. RoundUp(n, 1) = n
    BY RoundUpFacts
  <2>2. RoundUp(NUM, BATCH) \in Nat /\ NUM \in Nat /\ BATCH \in Nat /\ 1 \in 1 .. BATCH
    BY <1>0, RoundUpFacts DEF Numbers
  <2>3. n <= RoundUp(NUM, BATCH)
    BY <1>0, <1>1, <2>2
  <2> DEFINE w == Write(o, n, size, 1)
  <2>4. w.op = "write" /\ w.n = n /\ w.size = size /\ w.batch = 1
    BY DEF Write
  <2> HIDE DEF w
  <2>5. Bench(w)
    BY <1>1, <2>1, <2>2, <2>3, <2>4 DEF Bench
  <2>6. QED BY <2>5 DEF w
<1>2. ASSUME NEW o PROVE Bench(Write(o, NUM, VALUE, BATCH))
  <2>1. RoundUp(NUM, BATCH) \in Nat
    BY <1>0, RoundUpFacts DEF Numbers
  <2>2. QED BY <1>0, <2>1 DEF Bench, Write, Numbers
<1>3. ASSUME NEW n \in Nat, NEW o PROVE Bench(Read(o, n))
  BY <1>0 DEF Bench, Read, Numbers
<1>4. /\ NUM \div HUNDRED \in Nat /\ NUM \div HUNDRED <= NUM
      /\ NUM \div THOUSAND \in Nat /\ NUM \div THOUSAND <= NUM
      /\ flags.reads \div THOUSAND \in Nat
      /\ NUM \in Nat /\ NUM <= NUM /\ VALUE \in Nat /\ LARGE \in Nat /\ 0 \in Nat
  BY <1>0, Smaller DEF Numbers
<1>5. CASE b = Read("seq", 0) \/ b = Read("random", flags.reads \div THOUSAND)
  BY <1>3, <1>4, <1>5
<1>6. CASE \E o \in {"seq", "random"} :
             \/ b = Write(o, NUM, VALUE, 1) \/ b = Write(o, NUM, VALUE, BATCH)
             \/ b = Write(o, NUM \div HUNDRED, VALUE, 1) \/ b = Write(o, NUM \div THOUSAND, LARGE, 1)
             \/ b = Read(o, flags.reads)
  BY <1>1, <1>2, <1>3, <1>4, <1>6
<1>7. QED BY <1>5, <1>6 DEF Benchmarks

\* The part of the invariant that is about the loops.
Loops ==
    /\ i % bench.batch = 0
    /\ pc \in {"loop", "ops"} => left > 0 /\ stmts = 3
    /\ pc = "next" => stmts = 0
    /\ pc = "ops" => i < bench.n /\ j <= bench.batch
    /\ inTrans /\ pc \in {"next", "loop", "ops"} => pc = "ops" /\ Transaction
    /\ pc = "ops" /\ Transaction => inTrans
    /\ pc # "misuse"
    /\ pc = "ops" /\ bench.op = "write" /\ bench.order = "seq" => 0 .. i + j - 1 \subseteq keys

Raw == [data : Seq(MICROS), size : Nat \ {0}]
Hist == [buckets : [Buckets -> Nat], min : Nat, max : Nat, num : Nat]
Places == {"next", "loop", "ops", "closed", "exit", "assert", "misuse"}
Flags == [histogram : BOOLEAN, raw : BOOLEAN, transaction : BOOLEAN, reads : Nat]

StatisticsTyped == raw \in Raw /\ Len(raw.data) <= raw.size /\ hist \in Hist /\ done \in Nat

\* The table of limits.
LEMMA LimitsTyped ==
    /\ Len(LIMITS) \in Nat \ {0} /\ Buckets = 1 .. Len(LIMITS)
    /\ \A b \in Buckets : LIMITS[b] \in Nat
    /\ \A b, c \in Buckets : b < c => LIMITS[b] < LIMITS[c]
<1>1. LIMITS \in Seq(Nat \ {0}) /\ LIMITS # <<>>
  BY BenchmarkAssumption, Zenon
<1>2. \A b, c \in DOMAIN LIMITS : b < c => LIMITS[b] < LIMITS[c]
  BY BenchmarkAssumption, Zenon
<1>3. Len(LIMITS) \in Nat \ {0} /\ DOMAIN LIMITS = 1 .. Len(LIMITS)
  BY <1>1
<1>4. \A b \in 1 .. Len(LIMITS) : LIMITS[b] \in Nat
  BY <1>1
<1>5. QED BY <1>2, <1>3, <1>4 DEF Buckets

LEMMA NoStatistics ==
    /\ NoRaw \in Raw /\ Len(NoRaw.data) <= NoRaw.size /\ NoTimes \in Hist
<1>1. NoRaw \in Raw /\ Len(NoRaw.data) <= NoRaw.size
  BY ConstantsTyped DEF NoRaw, Raw, Numbers
<1>2. LIMITS[Len(LIMITS)] \in Nat
  BY LimitsTyped
<1>3. NoTimes \in Hist
  BY <1>2 DEF NoTimes, Hist
<1>4. QED BY <1>1, <1>3

LEMMA CountTo ==
    ASSUME NEW l \in Nat
    PROVE  IsFiniteSet(1 .. l) /\ Cardinality(1 .. l) = l
<1>1. 1 \in Int /\ l \in Int /\ l = IF 1 > l THEN 0 ELSE l - 1 + 1
  OBVIOUS
<1>2. QED BY <1>1, FS_Interval

\* Which bucket a time belongs to.
LEMMA BucketTyped ==
    ASSUME NEW t \in Nat
    PROVE  BucketOf(t) \in Buckets
<1> DEFINE S == {b \in 1 .. Len(LIMITS) - 1 : LIMITS[b] <= t}
<1>1. Len(LIMITS) \in Nat \ {0}
  BY BenchmarkAssumption
<1>2. IsFiniteSet(1 .. Len(LIMITS) - 1) /\ Cardinality(1 .. Len(LIMITS) - 1) = Len(LIMITS) - 1
  <2> DEFINE l == Len(LIMITS) - 1
  <2>1. l \in Nat
    BY <1>1
  <2> HIDE DEF l
  <2>2. IsFiniteSet(1 .. l) /\ Cardinality(1 .. l) = l
    BY <2>1, CountTo
  <2>3. QED BY <2>2 DEF l
<1>3. S \subseteq 1 .. Len(LIMITS) - 1
  OBVIOUS
<1>4. IsFiniteSet(S) /\ Cardinality(S) \in Nat /\ Cardinality(S) <= Len(LIMITS) - 1
  BY <1>2, <1>3, FS_Subset, FS_CardinalityType
<1>5. BucketOf(t) = 1 + Cardinality(S)
  BY DEF BucketOf
<1> HIDE DEF S
<1>6. Buckets = 1 .. Len(LIMITS)
  BY BenchmarkAssumption DEF Buckets
<1>7. QED BY <1>1, <1>4, <1>5, <1>6

LEMMA TimedTyped ==
    ASSUME StatisticsTyped, Timed
    PROVE  StatisticsTyped'
<1>1. PICK t \in IF flags.histogram \/ flags.raw THEN MICROS ELSE {0} :
         /\ hist' = IF flags.histogram THEN histogram_add(hist, t) ELSE hist
         /\ raw' = IF flags.raw THEN raw_add(raw, t) ELSE raw
  BY DEF Timed
<1>2. done' \in Nat
  BY DEF Timed, StatisticsTyped
<1>3. hist' \in Hist
  <2>1. CASE flags.histogram
    <3>1. t \in MICROS /\ t \in Nat /\ BucketOf(t) \in Buckets
      BY <1>1, <2>1, BucketTyped, BenchmarkAssumption
    <3>2. hist \in Hist /\ hist' = histogram_add(hist, t)
      BY <1>1, <2>1 DEF StatisticsTyped
    <3>3. QED BY <3>1, <3>2 DEF histogram_add, Hist
  <2>2. CASE ~flags.histogram
    BY <1>1, <2>2 DEF StatisticsTyped
  <2>3. QED BY <2>1, <2>2
<1>4. raw' \in Raw /\ Len(raw'.data) <= raw'.size
  <2>1. CASE flags.raw
    <3>1. t \in MICROS /\ raw \in Raw /\ raw' = raw_add(raw, t) /\ Len(raw.data) <= raw.size
      BY <1>1, <2>1 DEF StatisticsTyped
    <3>2. raw.data \in Seq(MICROS) /\ raw.size \in Nat \ {0} /\ Len(raw.data) \in Nat
      BY <3>1 DEF Raw
    <3>3. Append(raw.data, t) \in Seq(MICROS) /\ Len(Append(raw.data, t)) = Len(raw.data) + 1
      BY <3>1, <3>2
    <3>4. QED BY <3>1, <3>2, <3>3 DEF raw_add, Raw
  <2>2. CASE ~flags.raw
    BY <1>1, <2>2 DEF StatisticsTyped
  <2>3. QED BY <2>1, <2>2
<1>5. QED BY <1>2, <1>3, <1>4 DEF StatisticsTyped

\* What the driver does not touch while a benchmark runs.
DriverTyped ==
    /\ pc \in Places /\ flags \in Flags /\ left \in 0 .. MaxBench
    /\ bench \in Benchmarks \cup {Read("seq", 0)}
    /\ i \in 0 .. RoundUp(bench.n, bench.batch) /\ j \in 0 .. BATCH
    /\ keys \subseteq Nat /\ inTrans \in BOOLEAN /\ stmts \in {0, 3} /\ seed \in 1 .. M - 1
    /\ gen \in [size : Nat, pos : Nat]

LEMMA TypeParts == TypeOK <=> DriverTyped /\ StatisticsTyped
BY DEF TypeOK, DriverTyped, StatisticsTyped, Raw, Hist, Places, Flags

LEMMA Parts == DriverInv <=> DriverTyped /\ StatisticsTyped /\ FillsEveryKey /\ ValuesInsideData /\ Loops
BY TypeParts DEF DriverInv, Loops

LEMMA Assembled ==
    ASSUME DriverTyped', StatisticsTyped', FillsEveryKey', ValuesInsideData', Loops'
    PROVE  DriverInv'
<1>1. TypeOK'
  BY DEF TypeOK, DriverTyped, StatisticsTyped, Raw, Hist, Places, Flags
<1>2. QED BY <1>1 DEF DriverInv, Loops

LEMMA Running ==
    ASSUME DriverInv
    PROVE  /\ Bench(bench) /\ bench.n \in Nat /\ bench.batch \in Nat \ {0} /\ bench.batch <= BATCH
           /\ RoundUp(bench.n, bench.batch) \in Nat /\ i \in Nat /\ j \in Nat
           /\ i < bench.n =>
                i + bench.batch <= RoundUp(bench.n, bench.batch) /\ (i + bench.batch) % bench.batch = 0
<1>1. DriverTyped /\ Loops
  BY Parts
<1>2. flags.reads \in Nat /\ bench \in Benchmarks \cup {Read("seq", 0)}
  BY <1>1 DEF DriverTyped, Flags
<1>3. Bench(bench) /\ BATCH \in Nat
  BY <1>2, BenchTyped, ConstantsTyped DEF Numbers
<1>4. bench.n \in Nat /\ bench.batch \in Nat \ {0} /\ bench.batch <= BATCH
  BY <1>3 DEF Bench
<1>5. RoundUp(bench.n, bench.batch) \in Nat
  BY <1>4, RoundUpFacts
<1>6. i \in Nat /\ j \in Nat /\ i % bench.batch = 0
  BY <1>1, <1>3, <1>5 DEF DriverTyped, Loops
<1>7. QED BY <1>3, <1>4, <1>5, <1>6, RoundUpFacts

LEMMA StartStep ==
    ASSUME DriverInv, Start
    PROVE  DriverInv'
<1>1. /\ pc = "next" /\ left > 0 /\ bench' \in Benchmarks /\ pc' = "loop" /\ i' = 0 /\ stmts' = stmts + 3
      /\ hist' = NoTimes /\ raw' = NoRaw /\ done' = 0
      /\ UNCHANGED <<flags, left, j, keys, inTrans, seed, gen>>
  BY DEF Start
<1>2. DriverTyped /\ FillsEveryKey /\ ValuesInsideData /\ Loops
  BY Parts
<1>3. bench' \in Benchmarks' /\ bench' \in Benchmarks \cup {Read("seq", 0)}
  BY <1>1 DEF Benchmarks
<1>4. PICK b : b = bench'
  OBVIOUS
<1>5. b.n \in Nat /\ b.batch \in Nat \ {0} /\ RoundUp(b.n, b.batch) \in Nat
  <2>1. Bench(b) /\ BATCH \in Nat
    BY <1>2, <1>3, <1>4, BenchTyped, ConstantsTyped DEF DriverTyped, Flags, Numbers
  <2>2. b.n \in Nat /\ b.batch \in Nat \ {0}
    BY <2>1 DEF Bench
  <2>3. QED BY <2>2, RoundUpFacts
<1>6. i' \in 0 .. RoundUp(bench'.n, bench'.batch) /\ i' % bench'.batch = 0
  BY <1>1, <1>4, <1>5
<1>7. stmts' = 3
  BY <1>1, <1>2 DEF Loops
<1>8. DriverTyped'
  BY <1>1, <1>2, <1>3, <1>6, <1>7 DEF DriverTyped, Places
<1>9. StatisticsTyped'
  BY <1>1, NoStatistics DEF StatisticsTyped
<1>10. FillsEveryKey'
  BY <1>1, <1>2 DEF FillsEveryKey
<1>11. ValuesInsideData'
  BY <1>1, <1>2 DEF ValuesInsideData
<1>12. Loops'
  BY <1>1, <1>2, <1>6, <1>7 DEF Loops
<1>13. QED BY <1>8, <1>9, <1>10, <1>11, <1>12, Assembled

LEMMA UnknownStep ==
    ASSUME DriverInv, Unknown
    PROVE  DriverInv'
<1>1. /\ pc = "next" /\ left > 0 /\ left' = left - 1
      /\ hist' = NoTimes /\ raw' = NoRaw /\ done' = 0
      /\ UNCHANGED <<pc, flags, bench, i, j, keys, inTrans, stmts, seed, gen>>
  BY DEF Unknown
<1>2. DriverTyped /\ FillsEveryKey /\ ValuesInsideData /\ Loops
  BY Parts
<1>3. left' \in 0 .. MaxBench
  BY <1>1, <1>2, ConstantsTyped DEF DriverTyped, Numbers
<1>4. DriverTyped'
  BY <1>1, <1>2, <1>3 DEF DriverTyped, Benchmarks
<1>5. StatisticsTyped'
  BY <1>1, NoStatistics DEF StatisticsTyped
<1>6. FillsEveryKey' /\ ValuesInsideData'
  BY <1>1, <1>2 DEF FillsEveryKey, ValuesInsideData
<1>7. Loops'
  BY <1>1, <1>2 DEF Loops, Transaction
<1>8. QED BY <1>4, <1>5, <1>6, <1>7, Assembled

\* What the steps of the loops leave alone.
LEMMA StatisticsKept ==
    ASSUME StatisticsTyped, UNCHANGED statistics
    PROVE  StatisticsTyped'
BY DEF StatisticsTyped, statistics

LEMMA BeginBatchStep ==
    ASSUME DriverInv, BeginBatch
    PROVE  DriverInv'
<1>1. /\ pc = "loop" /\ i < bench.n /\ j' = 0 /\ inTrans' = (inTrans \/ Transaction)
      /\ pc' = IF Transaction /\ inTrans THEN "misuse" ELSE "ops"
      /\ UNCHANGED <<flags, left, bench, i, keys, stmts, seed, gen, statistics>>
  BY DEF BeginBatch
<1>2. DriverTyped /\ StatisticsTyped /\ FillsEveryKey /\ ValuesInsideData /\ Loops
  BY Parts
<1>3. ~inTrans /\ pc' = "ops" /\ (inTrans' <=> Transaction)
  BY <1>1, <1>2 DEF Loops
<1>4. bench.batch \in Nat \ {0} /\ bench.n \in Nat /\ i \in Nat /\ i + 0 = i
  BY Running
<1>5. DriverTyped'
  BY <1>1, <1>2, <1>3, ConstantsTyped DEF DriverTyped, Benchmarks, Places, Transaction, Numbers
<1>6. FillsEveryKey' /\ ValuesInsideData'
  BY <1>1, <1>2, <1>3 DEF FillsEveryKey, ValuesInsideData
<1>7. Loops'
  <2>1. bench.op = "write" /\ bench.order = "seq" => 0 .. i' + j' - 1 \subseteq keys'
    BY <1>1, <1>2, <1>4 DEF FillsEveryKey
  <2>2. j' <= bench'.batch
    BY <1>1, <1>4
  <2>3. QED BY <1>1, <1>2, <1>3, <2>1, <2>2 DEF Loops, Transaction
<1>8. StatisticsTyped'
  BY <1>1, <1>2, StatisticsKept
<1>9. QED BY <1>5, <1>6, <1>7, <1>8, Assembled

LEMMA SeedFacts ==
    ASSUME DriverInv
    PROVE  NewSeed \in 1 .. M - 1 /\ NewSeed \in {seed, (A * seed) % M}
<1>1. seed \in 1 .. M - 1
  BY Parts DEF DriverTyped
<1>2. QED BY <1>1, RandFacts DEF NewSeed

\* A key of a benchmark that writes: below what its last batch ends at.
LEMMA KeyFacts ==
    ASSUME DriverInv, pc = "ops", bench.op = "write", j < bench.batch
    PROVE  NewKey \in 0 .. RoundUp(NUM, BATCH) - 1
<1>1. /\ Bench(bench) /\ bench.n \in Nat /\ bench.batch \in Nat \ {0} /\ i \in Nat /\ j \in Nat
      /\ RoundUp(bench.n, bench.batch) \in Nat
      /\ i < bench.n /\ i + bench.batch <= RoundUp(bench.n, bench.batch)
  BY Running, Parts DEF Loops
<1>2. RoundUp(bench.n, bench.batch) <= RoundUp(NUM, BATCH) /\ RoundUp(NUM, BATCH) \in Nat
  BY <1>1, ConstantsTyped, RoundUpFacts DEF Bench, Numbers
<1>3. bench.n <= RoundUp(bench.n, bench.batch)
  BY <1>1, RoundUpFacts
<1>4. CASE bench.order = "seq"
  BY <1>1, <1>2, <1>4 DEF NewKey
<1>5. CASE bench.order # "seq"
  <2>1. rand_next(seed) \in 1 .. M - 1
    BY RandFacts, Parts DEF DriverTyped
  <2>2. rand_next(seed) \in Int /\ bench.n \in Nat \ {0}
    BY <1>1, <2>1, ConstantsTyped DEF Numbers
  <2>3. rand_next(seed) % bench.n \in 0 .. bench.n - 1
    BY <2>2, Quotient
  <2>4. QED BY <1>1, <1>2, <1>3, <1>5, <2>3 DEF NewKey
<1>6. QED BY <1>4, <1>5

LEMMA WriteOpStep ==
    ASSUME DriverInv, WriteOp
    PROVE  DriverInv'
<1>1. /\ pc = "ops" /\ bench.op = "write" /\ j < bench.batch /\ ~TooLarge(bench.size)
      /\ gen' = [gen EXCEPT !.pos = From(bench.size) + bench.size]
      /\ keys' = keys \cup {NewKey} /\ seed' = NewSeed /\ j' = j + 1 /\ Timed
      /\ UNCHANGED <<pc, flags, left, bench, i, inTrans, stmts>>
  BY DEF WriteOp, Finished
<1>2. DriverTyped /\ StatisticsTyped /\ FillsEveryKey /\ ValuesInsideData /\ Loops
  BY Parts
<1>3. /\ Bench(bench) /\ bench.n \in Nat /\ bench.batch \in Nat \ {0} /\ bench.batch <= BATCH
      /\ i \in Nat /\ j \in Nat /\ bench.size \in Nat /\ BATCH \in Nat
  BY Running, ConstantsTyped DEF Bench, Numbers
<1>4. NewKey \in 0 .. RoundUp(NUM, BATCH) - 1 /\ RoundUp(NUM, BATCH) \in Nat
  BY <1>1, KeyFacts, ConstantsTyped, RoundUpFacts DEF Numbers
<1>5. gen' \in [size : Nat, pos : Nat] /\ gen'.pos <= gen'.size
  <2>1. gen \in [size : Nat, pos : Nat] /\ gen.pos <= gen.size
    BY <1>2 DEF DriverTyped, ValuesInsideData
  <2>2. From(bench.size) + bench.size \in Nat /\ From(bench.size) + bench.size <= gen.size
    BY <1>1, <1>3, <2>1 DEF From, TooLarge
  <2>3. QED BY <1>1, <2>1, <2>2
<1>6. DriverTyped'
  <2>1. keys' \subseteq Nat /\ seed' \in 1 .. M - 1
    BY <1>1, <1>2, <1>4, SeedFacts DEF DriverTyped
  <2>2. j' \in 0 .. BATCH
    BY <1>1, <1>3
  <2>3. QED BY <1>1, <1>2, <1>5, <2>1, <2>2 DEF DriverTyped, Benchmarks
<1>7. FillsEveryKey' /\ ValuesInsideData'
  BY <1>1, <1>2, <1>4, <1>5 DEF FillsEveryKey, ValuesInsideData
<1>8. Loops'
  <2>1. ASSUME bench.order = "seq" PROVE 0 .. i' + j' - 1 \subseteq keys'
    <3>1. 0 .. i + j - 1 \subseteq keys /\ NewKey = i + j
      BY <1>1, <1>2, <2>1 DEF Loops, NewKey
    <3>2. QED BY <1>1, <1>3, <3>1
  <2>2. j' <= bench'.batch
    BY <1>1, <1>3
  <2>3. QED BY <1>1, <1>2, <2>1, <2>2 DEF Loops, Transaction
<1>9. StatisticsTyped'
  BY <1>1, <1>2, TimedTyped
<1>10. QED BY <1>6, <1>7, <1>8, <1>9, Assembled

LEMMA WriteAssertsStep ==
    ASSUME DriverInv, WriteAsserts
    PROVE  DriverInv'
<1>1. /\ pc = "ops" /\ bench.op = "write" /\ TooLarge(bench.size)
      /\ pc' = "assert" /\ gen' = [gen EXCEPT !.pos = 0]
      /\ UNCHANGED <<flags, left, bench, i, j, keys, inTrans, stmts, seed, statistics>>
  BY DEF WriteAsserts
<1>2. DriverTyped /\ StatisticsTyped /\ FillsEveryKey /\ ValuesInsideData /\ Loops
  BY Parts
<1>3. gen' \in [size : Nat, pos : Nat] /\ gen'.pos <= gen'.size /\ gen'.size = gen.size
  BY <1>1, <1>2 DEF DriverTyped
<1>4. DriverTyped'
  BY <1>1, <1>2, <1>3 DEF DriverTyped, Benchmarks, Places
<1>5. FillsEveryKey' /\ ValuesInsideData'
  BY <1>1, <1>2, <1>3 DEF FillsEveryKey, ValuesInsideData, TooLarge
<1>6. Loops'
  BY <1>1, <1>2 DEF Loops
<1>7. StatisticsTyped'
  BY <1>1, <1>2, StatisticsKept
<1>8. QED BY <1>4, <1>5, <1>6, <1>7, Assembled

LEMMA ReadOpStep ==
    ASSUME DriverInv, ReadOp
    PROVE  DriverInv'
<1>1. /\ pc = "ops" /\ bench.op = "read" /\ j < bench.batch /\ seed' = NewSeed /\ j' = j + 1 /\ Timed
      /\ UNCHANGED <<pc, flags, left, bench, i, inTrans, stmts, keys, gen>>
  BY DEF ReadOp, Finished
<1>2. DriverTyped /\ StatisticsTyped /\ FillsEveryKey /\ ValuesInsideData /\ Loops
  BY Parts
<1>3. bench.batch \in Nat \ {0} /\ bench.batch <= BATCH /\ j \in Nat /\ BATCH \in Nat
  BY Running, ConstantsTyped DEF Numbers
<1>4. j' \in 0 .. BATCH /\ j' <= bench'.batch
  BY <1>1, <1>3
<1>5. DriverTyped'
  BY <1>1, <1>2, <1>4, SeedFacts DEF DriverTyped, Benchmarks
<1>6. FillsEveryKey' /\ ValuesInsideData'
  BY <1>1, <1>2 DEF FillsEveryKey, ValuesInsideData
<1>7. Loops'
  BY <1>1, <1>2, <1>4 DEF Loops, Transaction
<1>8. StatisticsTyped'
  BY <1>1, <1>2, TimedTyped
<1>9. QED BY <1>5, <1>6, <1>7, <1>8, Assembled

LEMMA EndBatchStep ==
    ASSUME DriverInv, EndBatch
    PROVE  DriverInv'
<1>1. /\ pc = "ops" /\ j = bench.batch /\ i' = i + bench.batch
      /\ inTrans' = (inTrans /\ ~Transaction)
      /\ pc' = IF Transaction /\ ~inTrans THEN "misuse" ELSE "loop"
      /\ UNCHANGED <<flags, left, bench, j, keys, stmts, seed, gen, statistics>>
  BY DEF EndBatch
<1>2. DriverTyped /\ StatisticsTyped /\ FillsEveryKey /\ ValuesInsideData /\ Loops
  BY Parts
<1>3. pc' = "loop" /\ ~inTrans'
  BY <1>1, <1>2 DEF Loops
<1>4. /\ i \in Nat /\ bench.batch \in Nat \ {0} /\ RoundUp(bench.n, bench.batch) \in Nat
      /\ i + bench.batch <= RoundUp(bench.n, bench.batch) /\ (i + bench.batch) % bench.batch = 0
  BY <1>1, <1>2, Running DEF Loops
<1>5. i' \in 0 .. RoundUp(bench'.n, bench'.batch) /\ i' % bench'.batch = 0
  BY <1>1, <1>4
<1>6. DriverTyped'
  BY <1>1, <1>2, <1>3, <1>5 DEF DriverTyped, Benchmarks, Places
<1>7. FillsEveryKey' /\ ValuesInsideData'
  <2>1. bench.op = "write" /\ bench.order = "seq" => 0 .. i + j - 1 \subseteq keys
    BY <1>1, <1>2 DEF Loops
  <2>2. i' - 1 = i + j - 1
    BY <1>1, <1>4
  <2>3. bench.op = "write" /\ bench.order = "seq" => 0 .. i' - 1 \subseteq keys
    BY <2>1, <2>2
  <2>4. QED BY <1>1, <1>2, <1>3, <2>3 DEF FillsEveryKey, ValuesInsideData
<1>8. Loops'
  BY <1>1, <1>2, <1>3, <1>5 DEF Loops, Transaction
<1>9. StatisticsTyped'
  BY <1>1, <1>2, StatisticsKept
<1>10. QED BY <1>6, <1>7, <1>8, <1>9, Assembled

LEMMA StopStep ==
    ASSUME DriverInv, Stop
    PROVE  DriverInv'
<1>1. /\ pc = "loop" /\ pc' = "next" /\ left' = left - 1 /\ stmts' = stmts - 3
      /\ done' = IF done < 1 THEN 1 ELSE done
      /\ UNCHANGED <<flags, bench, i, j, keys, inTrans, seed, gen, hist, raw>>
  BY DEF Stop
<1>2. DriverTyped /\ StatisticsTyped /\ FillsEveryKey /\ ValuesInsideData /\ Loops
  BY Parts
<1>3. left > 0 /\ stmts' = 0 /\ left' \in 0 .. MaxBench
  BY <1>1, <1>2, ConstantsTyped DEF Loops, DriverTyped, Numbers
<1>4. DriverTyped'
  BY <1>1, <1>2, <1>3 DEF DriverTyped, Benchmarks, Places
<1>5. FillsEveryKey' /\ ValuesInsideData'
  BY <1>1, <1>2 DEF FillsEveryKey, ValuesInsideData
<1>6. Loops'
  BY <1>1, <1>2, <1>3 DEF Loops, Transaction
<1>7. StatisticsTyped'
  BY <1>1, <1>2 DEF StatisticsTyped
<1>8. QED BY <1>4, <1>5, <1>6, <1>7, Assembled

\* The program ends: SQLite has failed, or the database is closed.
LEMMA EndStep ==
    ASSUME DriverInv, StepFails \/ Fini
    PROVE  DriverInv'
<1>1. UNCHANGED <<flags, left, bench, i, j, keys, inTrans, stmts, seed, gen, statistics>>
  BY DEF StepFails, Fini
<1>2. DriverTyped /\ StatisticsTyped /\ FillsEveryKey /\ ValuesInsideData /\ Loops
  BY Parts
<1>3. pc' \in {"exit", "closed"}
  BY <1>2 DEF StepFails, Fini, Loops
<1>4. DriverTyped'
  BY <1>1, <1>2, <1>3 DEF DriverTyped, Benchmarks, Places
<1>5. FillsEveryKey' /\ ValuesInsideData'
  BY <1>1, <1>2, <1>3 DEF FillsEveryKey, ValuesInsideData
<1>6. Loops'
  BY <1>1, <1>2, <1>3 DEF Loops
<1>7. StatisticsTyped'
  BY <1>1, <1>2, StatisticsKept
<1>8. QED BY <1>4, <1>5, <1>6, <1>7, Assembled

LEMMA InitOk ==
    ASSUME Init
    PROVE  DriverInv
<1>1. Numbers
  BY ConstantsTyped
<1>2. flags \in Flags
  <2>1. PICK h, r, t \in BOOLEAN, n \in READS :
          flags = [histogram |-> h, raw |-> r, transaction |-> t, reads |-> IF n < 0 THEN NUM ELSE n]
    BY DEF Init
  <2>2. (IF n < 0 THEN NUM ELSE n) \in Nat
    BY <1>1, BenchmarkAssumption DEF Numbers
  <2>3. QED BY <2>1, <2>2 DEF Flags
<1>3. gen \in [size : Nat, pos : Nat] /\ gen.pos = 0
  <2>1. PICK r \in RAW_LENGTHS : gen = [size |-> DataSize(r), pos |-> 0]
    BY DEF Init
  <2>2. r \in Nat \ {0}
    BY <1>1, BenchmarkAssumption DEF Numbers
  <2>3. RoundUp(PIECE, r) \in Nat \ {0}
    BY <1>1, <2>2, RoundUpFacts DEF Numbers
  <2>4. DataSize(r) \in Nat
    BY <1>1, <2>3, RoundUpFacts DEF DataSize, Numbers
  <2>5. QED BY <2>1, <2>4
<1>4. bench = Read("seq", 0) /\ bench.n = 0 /\ bench.batch = 1 /\ bench.op = "read"
  BY DEF Init, Read
<1>5. RoundUp(0, 1) \in Nat /\ 0 % 1 = 0
  BY RoundUpFacts
<1>6. RoundUp(NUM, BATCH) \in Nat
  BY <1>1, RoundUpFacts DEF Numbers
<1>7. DriverTyped
  <2>1. i \in 0 .. RoundUp(bench.n, bench.batch) /\ j \in 0 .. BATCH /\ left \in 0 .. MaxBench
    BY <1>1, <1>4, <1>5 DEF Init, Numbers
  <2>2. seed \in 1 .. M - 1
    BY BenchmarkAssumption DEF Init
  <2>3. QED BY <1>2, <1>3, <1>4, <2>1, <2>2 DEF Init, DriverTyped, Places
<1>8. StatisticsTyped
  BY NoStatistics DEF Init, StatisticsTyped
<1>9. FillsEveryKey /\ ValuesInsideData
  BY <1>3 DEF Init, FillsEveryKey, ValuesInsideData
<1>10. Loops
  BY <1>4, <1>5 DEF Init, Loops
<1>11. QED BY <1>7, <1>8, <1>9, <1>10, Parts

\* The driver's inductive invariant, for every list of benchmarks, every number
\* of entries, batch and value size, and every failure of SQLite: SQLite meets no
\* BEGIN, END or close that it refuses.
THEOREM DriverInvariant == Spec => []DriverInv
<1>1. Init => DriverInv
  BY InitOk
<1>2. DriverInv /\ [Next]_vars => DriverInv'
  <2> SUFFICES ASSUME DriverInv, [Next]_vars PROVE DriverInv'
    OBVIOUS
  <2>1. CASE UNCHANGED vars
    <3>1. DriverTyped' /\ StatisticsTyped' /\ FillsEveryKey' /\ ValuesInsideData' /\ Loops'
      BY <2>1, Parts DEF vars, DriverTyped, Benchmarks, StatisticsTyped, FillsEveryKey, ValuesInsideData,
         Loops, Transaction
    <3>2. QED BY <3>1, Assembled
  <2>2. QED BY <2>1, StartStep, UnknownStep, BeginBatchStep, WriteOpStep, WriteAssertsStep, ReadOpStep,
               EndBatchStep, StopStep, EndStep DEF Next
<1>3. QED BY <1>1, <1>2, PTL DEF Spec

\* The variables have their types: the seed is never 0 or M, where the generator
\* would stay for ever, and the raw data fit their buffer (random.c, raw.c).
THEOREM TypeCorrect == Spec => []TypeOK
<1>1. DriverInv => TypeOK
  BY DEF DriverInv
<1>2. QED BY <1>1, DriverInvariant, PTL

\* The generator of keys multiplies by A modulo M (rand_next), which adds high and
\* low bits instead of dividing.
THEOREM KeysAreLehmer == Spec => KeysFromLehmer
<1>1. DriverInv /\ [Next]_vars => [seed' \in {seed, (A * seed) % M}]_vars
  BY SeedFacts DEF Next, Start, Unknown, BeginBatch, WriteOp, WriteAsserts, ReadOp, EndBatch, Stop,
     StepFails, Fini, vars
<1>2. QED BY <1>1, DriverInvariant, PTL DEF Spec, KeysFromLehmer

-----------------------------------------------------------------------------
(* The histogram *)

\* A time is in the bucket whose limits enclose it.
Encloses(b, t) == LeftPoint(b) <= t /\ t < LIMITS[b]

\* The number of limits at or below a time is the place of its bucket, because
\* the limits increase.
LEMMA BucketEncloses ==
    ASSUME NEW t \in MICROS
    PROVE  BucketOf(t) \in Buckets /\ Encloses(BucketOf(t), t)
<1> DEFINE l == Len(LIMITS)  S == {b \in 1 .. l - 1 : LIMITS[b] <= t}  n == Cardinality(S)
<1>1. t \in Nat /\ t < LIMITS[l]
  BY BenchmarkAssumption
<1>2. l \in Nat \ {0} /\ Buckets = 1 .. l /\ \A b \in 1 .. l : LIMITS[b] \in Nat
  BY LimitsTyped
<1>3. \A b, c \in 1 .. l : b < c => LIMITS[b] < LIMITS[c]
  BY LimitsTyped
<1>4. BucketOf(t) \in 1 .. l
  BY <1>1, <1>2, BucketTyped
<1>5. BucketOf(t) = 1 + n
  BY DEF BucketOf
<1>6. \A b \in 1 .. l - 1 : b \in S <=> LIMITS[b] <= t
  OBVIOUS
<1>7. S \subseteq 1 .. l - 1
  OBVIOUS
<1> HIDE DEF l, S
<1>8. IsFiniteSet(S) /\ n \in Nat
  <2>1. l - 1 \in Nat
    BY <1>2
  <2>2. IsFiniteSet(1 .. l - 1)
    BY <2>1, CountTo
  <2>3. QED BY <1>7, <2>2, FS_Subset, FS_CardinalityType
<1> HIDE DEF n
<1>9. n \in 0 .. l - 1
  BY <1>2, <1>4, <1>5, <1>8
<1>10. ASSUME n > 0 PROVE LIMITS[n] <= t
  <2>1. ASSUME LIMITS[n] > t PROVE FALSE
    <3>1. ASSUME NEW b \in S PROVE b <= n - 1
      <4>2. b \in 1 .. l - 1 /\ LIMITS[b] <= t
        BY <1>6, <1>7
      <4>3. ~(n < b) /\ n # b
        BY <1>1, <1>2, <1>3, <1>9, <1>10, <2>1, <4>2
      <4>4. QED BY <1>9, <4>2, <4>3
    <3>2. S \subseteq 1 .. n - 1 /\ n - 1 \in Nat
      BY <1>2, <1>7, <1>9, <1>10, <3>1
    <3>3. IsFiniteSet(1 .. n - 1) /\ Cardinality(1 .. n - 1) = n - 1
      BY <3>2, CountTo
    <3>4. Cardinality(S) <= n - 1
      BY <3>2, <3>3, FS_Subset
    <3>5. QED BY <1>9, <3>4 DEF n
  <2>2. n \in 1 .. l
    BY <1>2, <1>9, <1>10
  <2>3. QED BY <1>1, <1>2, <2>1, <2>2
<1>11. ASSUME n < l - 1 PROVE t < LIMITS[n + 1]
  <2>1. ASSUME LIMITS[n + 1] <= t PROVE FALSE
    <3>1. ASSUME NEW b \in 1 .. n + 1 PROVE b \in S
      <4>1. n + 1 <= l - 1 /\ n \in Nat /\ l \in Nat
        BY <1>2, <1>9, <1>11
      <4>2. b \in 1 .. l - 1 /\ n + 1 \in 1 .. l - 1 /\ b \in 1 .. l /\ n + 1 \in 1 .. l
        BY <4>1
      <4>3. LIMITS[b] <= LIMITS[n + 1]
        <5>1. CASE b = n + 1
          BY <1>2, <4>2, <5>1
        <5>2. CASE b < n + 1
          BY <1>2, <1>3, <4>2, <5>2
        <5>3. QED BY <4>1, <5>1, <5>2
      <4>4. QED BY <1>1, <1>2, <1>6, <2>1, <4>2, <4>3
    <3>2. n + 1 \in Nat
      BY <1>9
    <3>3. Cardinality(1 .. n + 1) = n + 1
      BY <3>2, CountTo
    <3>4. n + 1 <= Cardinality(S)
      BY <1>8, <3>1, <3>3, FS_Subset
    <3>5. QED BY <1>9, <3>4 DEF n
  <2>2. n + 1 \in 1 .. l
    BY <1>2, <1>9, <1>11
  <2>3. QED BY <1>1, <1>2, <2>1, <2>2
<1>12. t < LIMITS[1 + n]
  <2>1. CASE n < l - 1
    BY <1>9, <1>11, <2>1
  <2>2. CASE n = l - 1
    <3>1. 1 + n = l
      BY <1>2, <2>2
    <3>2. QED BY <1>1, <3>1
  <2>3. QED BY <1>2, <1>9, <2>1, <2>2
<1>13. LeftPoint(1 + n) <= t
  <2>1. CASE n = 0
    BY <1>1, <2>1 DEF LeftPoint
  <2>2. CASE n > 0
    <3>1. 1 + n # 1 /\ (1 + n) - 1 = n
      BY <1>9, <2>2
    <3>2. LeftPoint(1 + n) = LIMITS[(1 + n) - 1]
      BY <3>1 DEF LeftPoint
    <3>3. QED BY <1>10, <2>2, <3>1, <3>2
  <2>3. QED BY <1>9, <2>1, <2>2
<1>14. QED BY <1>2, <1>4, <1>5, <1>12, <1>13 DEF Encloses

\* ... and no other bucket encloses it.
LEMMA OneBucket ==
    ASSUME NEW t \in MICROS, NEW b \in Buckets, Encloses(b, t)
    PROVE  b = BucketOf(t)
<1> DEFINE c == BucketOf(t)
<1>1. c \in Buckets /\ Encloses(c, t)
  BY BucketEncloses
<1>2. t \in Nat
  BY BenchmarkAssumption
<1>3. ASSUME NEW x \in Buckets, NEW y \in Buckets, Encloses(x, t), Encloses(y, t), x < y PROVE FALSE
  <2>1. y - 1 \in Buckets /\ x \in Nat /\ y \in Nat /\ y # 1
    BY <1>3, LimitsTyped
  <2>2. LIMITS[y - 1] <= t /\ t < LIMITS[x]
    BY <1>3, <2>1 DEF Encloses, LeftPoint
  <2>3. LIMITS[x] <= LIMITS[y - 1]
    <3>1. CASE x = y - 1
      BY <2>1, <3>1, LimitsTyped
    <3>2. CASE x < y - 1
      <4>1. LIMITS[x] < LIMITS[y - 1] /\ LIMITS[x] \in Nat /\ LIMITS[y - 1] \in Nat
        BY <2>1, <3>2, LimitsTyped
      <4>2. QED BY <4>1
    <3>3. QED BY <1>3, <2>1, <3>1, <3>2
  <2>4. LIMITS[x] \in Nat /\ LIMITS[y - 1] \in Nat
    BY <2>1, LimitsTyped
  <2>5. QED BY <1>2, <2>2, <2>3, <2>4
<1> HIDE DEF c
<1>4. ~(b < c) /\ ~(c < b)
  BY <1>1, <1>3
<1>5. b \in Int /\ c \in Int
  BY <1>1, LimitsTyped
<1>6. b = c
  BY <1>4, <1>5
<1>7. QED BY <1>6 DEF c

\* The operations whose time is in a bucket, of the times recorded in r.
InBucket(r, b) == {k \in DOMAIN r.data : LeftPoint(b) <= r.data[k] /\ r.data[k] < LIMITS[b]}

\* HistogramOfRaw for a histogram and raw data of their own.
CountsOf(h, r) ==
    /\ h.num = Len(r.data)
    /\ \A b \in Buckets : h.buckets[b] = Cardinality(InBucket(r, b))
    /\ \A k \in DOMAIN r.data : h.min <= r.data[k] /\ r.data[k] <= h.max

LEMMA CountsOfNothing == CountsOf(NoTimes, NoRaw)
<1>1. NoRaw.data = <<>> /\ NoTimes.num = 0 /\ \A b \in Buckets : NoTimes.buckets[b] = 0
  BY DEF NoRaw, NoTimes
<1>2. Len(NoRaw.data) = 0 /\ DOMAIN NoRaw.data = {}
  BY <1>1
<1>3. \A b \in Buckets : InBucket(NoRaw, b) = {}
  BY <1>2 DEF InBucket
<1>4. Cardinality({}) = 0
  BY FS_EmptySet
<1>5. QED BY <1>1, <1>2, <1>3, <1>4 DEF CountsOf

\* One more time is counted in its bucket and in no other.
LEMMA CountsOfOneMore ==
    ASSUME NEW h \in Hist, NEW r \in Raw, NEW t \in MICROS, CountsOf(h, r)
    PROVE  CountsOf(histogram_add(h, t), raw_add(r, t))
<1> DEFINE s == raw_add(r, t)  g == histogram_add(h, t)  l == Len(r.data)
<1>1. r.data \in Seq(MICROS) /\ l \in Nat /\ t \in Nat /\ MICROS \subseteq Nat
  <2>1. MICROS \subseteq Nat
    BY BenchmarkAssumption, Zenon
  <2>2. r.data \in Seq(MICROS)
    BY DEF Raw
  <2>3. QED BY <2>1, <2>2
<1>2. /\ s.data = Append(r.data, t) /\ DOMAIN r.data = 1 .. l /\ DOMAIN s.data = 1 .. l + 1
      /\ Len(s.data) = l + 1 /\ s.data[l + 1] = t /\ \A k \in 1 .. l : s.data[k] = r.data[k]
  BY <1>1 DEF raw_add
<1>3. /\ BucketOf(t) \in Buckets /\ h.buckets \in [Buckets -> Nat]
      /\ h.num \in Nat /\ h.min \in Nat /\ h.max \in Nat
  BY BucketEncloses DEF Hist
<1>4. /\ g.num = h.num + 1 /\ g.buckets = [h.buckets EXCEPT ![BucketOf(t)] = @ + 1]
      /\ g.min = IF h.min > t THEN t ELSE h.min
      /\ g.max = IF h.max < t THEN t ELSE h.max
  BY DEF histogram_add
<1>5. h.num = l /\ \A b \in Buckets : h.buckets[b] = Cardinality(InBucket(r, b))
  BY DEF CountsOf
<1>6. \A k \in 1 .. l : h.min <= r.data[k] /\ r.data[k] <= h.max /\ r.data[k] \in Nat
  <2>1. ASSUME NEW k \in 1 .. l PROVE r.data[k] \in Nat
    <3>1. r.data[k] \in MICROS
      BY <1>1, <2>1
    <3>2. QED BY <1>1, <3>1
  <2>2. ASSUME NEW k \in 1 .. l PROVE h.min <= r.data[k] /\ r.data[k] <= h.max
    BY <1>2, <2>2 DEF CountsOf
  <2>3. QED BY <2>1, <2>2
<1> HIDE DEF s, g, l
<1>7. g.num = Len(s.data)
  BY <1>2, <1>4, <1>5
<1>8. ASSUME NEW k \in DOMAIN s.data PROVE g.min <= s.data[k] /\ s.data[k] <= g.max
  <2>1. CASE k = l + 1
    BY <1>1, <1>2, <1>3, <1>4, <2>1
  <2>2. CASE k \in 1 .. l
    <3>1. s.data[k] = r.data[k] /\ h.min <= r.data[k] /\ r.data[k] <= h.max /\ r.data[k] \in Nat
      BY <1>2, <1>6, <2>2
    <3>2. QED BY <1>1, <1>3, <1>4, <3>1
  <2>3. k \in 1 .. l \/ k = l + 1
    BY <1>1, <1>2
  <2>4. QED BY <2>1, <2>2, <2>3
<1>9. ASSUME NEW b \in Buckets PROVE g.buckets[b] = Cardinality(InBucket(s, b))
  <2>1. IsFiniteSet(InBucket(r, b)) /\ l + 1 \notin InBucket(r, b)
    <3>1. InBucket(r, b) \subseteq 1 .. l
      BY <1>2 DEF InBucket
    <3>2. IsFiniteSet(1 .. l)
      BY <1>1, CountTo
    <3>3. l + 1 \notin 1 .. l
      BY <1>1
    <3>4. QED BY <3>1, <3>2, <3>3, FS_Subset
  <2>2. CASE b = BucketOf(t)
    <3>1. Encloses(b, t)
      BY <2>2, BucketEncloses
    <3>2. InBucket(s, b) = InBucket(r, b) \cup {l + 1}
      <4>1. l + 1 \in InBucket(s, b)
        BY <1>1, <1>2, <3>1 DEF InBucket, Encloses
      <4>2. \A k \in 1 .. l : k \in InBucket(s, b) <=> k \in InBucket(r, b)
        BY <1>1, <1>2 DEF InBucket
      <4>3. InBucket(s, b) \subseteq 1 .. l \cup {l + 1} /\ InBucket(r, b) \subseteq 1 .. l
        BY <1>1, <1>2 DEF InBucket
      <4>4. QED BY <4>1, <4>2, <4>3
    <3>3. Cardinality(InBucket(s, b)) = Cardinality(InBucket(r, b)) + 1
      BY <2>1, <3>2, FS_AddElement
    <3>4. g.buckets[b] = h.buckets[b] + 1
      BY <1>3, <1>4, <2>2
    <3>5. QED BY <1>5, <3>3, <3>4
  <2>3. CASE b # BucketOf(t)
    <3>1. ~Encloses(b, t)
      BY <2>3, OneBucket
    <3>2. InBucket(s, b) = InBucket(r, b)
      <4>1. l + 1 \notin InBucket(s, b)
        BY <1>1, <1>2, <3>1 DEF InBucket, Encloses
      <4>2. \A k \in 1 .. l : k \in InBucket(s, b) <=> k \in InBucket(r, b)
        BY <1>1, <1>2 DEF InBucket
      <4>3. InBucket(s, b) \subseteq 1 .. l \cup {l + 1} /\ InBucket(r, b) \subseteq 1 .. l
        BY <1>1, <1>2 DEF InBucket
      <4>4. QED BY <2>1, <4>1, <4>2, <4>3
    <3>3. g.buckets[b] = h.buckets[b]
      BY <1>3, <1>4, <2>3
    <3>4. QED BY <1>5, <3>2, <3>3
  <2>4. QED BY <2>2, <2>3
<1>10. CountsOf(g, s)
  BY <1>7, <1>8, <1>9 DEF CountsOf
<1>11. QED BY <1>10 DEF g, s

Counted == flags.histogram /\ flags.raw => CountsOf(hist, raw)

LEMMA TimedCounted ==
    ASSUME StatisticsTyped, Counted, Timed, UNCHANGED flags
    PROVE  Counted'
<1>1. SUFFICES ASSUME flags.histogram /\ flags.raw PROVE CountsOf(hist', raw')
  BY DEF Counted, CountsOf, InBucket, Buckets, LeftPoint
<1>2. PICK t \in MICROS : hist' = histogram_add(hist, t) /\ raw' = raw_add(raw, t)
  BY <1>1 DEF Timed
<1>3. QED BY <1>1, <1>2, CountsOfOneMore DEF Counted, StatisticsTyped

\* What the histogram says of the operations is what the raw data say: every time
\* is in the bucket whose limits enclose it, and the smallest and the largest are
\* kept, for any table of limits that increase (finished_single_op).
THEOREM HistogramAgrees == Spec => [](flags.histogram /\ flags.raw => HistogramOfRaw)
<1>1. Counted <=> (flags.histogram /\ flags.raw => HistogramOfRaw)
  BY DEF Counted, CountsOf, InBucket, HistogramOfRaw
<1>2. Init => Counted
  BY CountsOfNothing DEF Init, Counted
<1>3. DriverInv /\ Counted /\ [Next]_vars => Counted'
  <2> SUFFICES ASSUME DriverInv, Counted, [Next]_vars PROVE Counted'
    OBVIOUS
  <2>1. StatisticsTyped
    BY Parts
  <2>2. CASE UNCHANGED <<flags, hist, raw>>
    BY <2>2 DEF Counted, CountsOf, InBucket
  <2>3. CASE Start \/ Unknown
    BY <2>3, CountsOfNothing DEF Start, Unknown, Counted
  <2>4. CASE WriteOp \/ ReadOp
    BY <2>1, <2>4, TimedCounted DEF WriteOp, ReadOp, Finished
  <2>5. QED BY <2>2, <2>3, <2>4 DEF Next, BeginBatch, WriteAsserts, EndBatch, Stop, StepFails, Fini,
               statistics, vars
<1>4. QED BY <1>1, <1>2, <1>3, DriverInvariant, PTL DEF Spec
===============================================================================
