------------------------------ MODULE Benchmark ------------------------------
(***************************************************************************)
(* The benchmark, the only client of the file service: the driver that     *)
(* runs a list of benchmarks (benchmark.c), the generators of keys and     *)
(* values (random.c) and the statistics it reports (histogram.c, raw.c).   *)
(* SQLite is external: a table of keys, a transaction that is open or not, *)
(* and statements that are prepared and finalized; any step may fail.      *)
(* What is printed, the contents of values, the pragmas and the            *)
(* checkpoints are left out.                                               *)
(***************************************************************************)
EXTENDS Integers, Sequences, FiniteSets, SequencesExt

CONSTANTS
    NUM,          \* FLAGS_num
    READS,        \* possible values of FLAGS_reads, negative for "as FLAGS_num"
    HUNDRED,      \* 100, the divisor of the synchronous benchmarks
    THOUSAND,     \* 1000, the divisor of the benchmarks of large values
    BATCH,        \* 1000, the entries of a batch
    VALUE,        \* FLAGS_value_size
    LARGE,        \* 100 * 1000, the size of a large value
    PIECE, FILL,  \* 100 and 1024: length of a piece, bytes of data wanted
    RAW_LENGTHS,  \* possible lengths of the incompressible part of a piece
    M, A,         \* 2^31 - 1 and 16807, of the key generator
    SEED,         \* 301
    LIMITS,       \* bucket_limit
    NUMDATA,      \* kNumData, the initial capacity of the raw data
    MICROS,       \* times an operation may take
    MaxBench      \* bound: benchmarks in the list

\* The prime M does not divide A times a seed; bucket limits increase.
ASSUME BenchmarkAssumption ==
    /\ {NUM, HUNDRED, THOUSAND, BATCH, VALUE, LARGE, PIECE, FILL, NUMDATA, M, MaxBench}
         \subseteq Nat \ {0}
    /\ RAW_LENGTHS \subseteq 1 .. PIECE
    /\ READS \subseteq Int /\ A \in 1 .. M - 1 /\ SEED \in 1 .. M - 1
    /\ \A s \in 1 .. M - 1 : (A * s) % M # 0
    /\ LIMITS \in Seq(Nat \ {0}) /\ LIMITS # <<>>
    /\ \A b, c \in DOMAIN LIMITS : b < c => LIMITS[b] < LIMITS[c]
    /\ \A t \in MICROS : t \in Nat /\ t < LIMITS[Len(LIMITS)]

VARIABLES
    pc,       \* next benchmark, loop over batches, ops of a batch, or an end
    flags,    \* FLAGS_histogram, FLAGS_raw, FLAGS_transaction and reads_
    left,     \* how many benchmarks of the list are left
    bench,    \* the arguments of benchmark_write or benchmark_read
    i, j,     \* their loop variables
    keys, inTrans, stmts,  \* SQLite: keys in the table, BEGIN without END, handles
    seed,     \* rand_
    gen,      \* gen_: data_size_ and pos_
    hist, raw, done        \* hist_, raw_ and done_

vars == <<pc, flags, left, bench, i, j, keys, inTrans, stmts, seed, gen, hist, raw, done>>

-----------------------------------------------------------------------------
(* Keys and values.                                                        *)

\* Mutant of rand_next: the sum of the halves is not reduced.
rand_nextUnreduced(s) == ((s * A) \div (M + 1)) + ((s * A) % (M + 1))

\* The product's high bits plus its low bits, reduced once: M + 1 is the power
\* of two whose exponent is the shift, and M the mask of the low bits.
rand_next(s) ==
    LET sum == ((s * A) \div (M + 1)) + ((s * A) % (M + 1))
    IN  IF sum > M THEN sum - M ELSE sum

\* Whole copies of the incompressible part until the piece is long enough, and
\* whole pieces until there is enough data: both may end beyond what was asked.
RoundUp(n, unit) == ((n + unit - 1) \div unit) * unit
DataSize(r) == RoundUp(FILL, RoundUp(PIECE, r))

\* Where the next value of len bytes starts: at the start when it does not fit.
From(len) == IF gen.pos + len > gen.size THEN 0 ELSE gen.pos

\* The assertion, which only a value that starts over meets.
TooLarge(len) == gen.pos + len > gen.size /\ len >= gen.size

-----------------------------------------------------------------------------
(* Statistics.                                                             *)

Buckets == DOMAIN LIMITS
NoTimes == [buckets |-> [b \in Buckets |-> 0], min |-> LIMITS[Len(LIMITS)], max |-> 0, num |-> 0]
NoRaw == [data |-> <<>>, size |-> NUMDATA]

\* Mutant of BucketOf: a time equal to a limit stays below it.
BucketOfInclusive(t) == 1 + Cardinality({b \in 1 .. Len(LIMITS) - 1 : LIMITS[b] < t})
\* The first bucket whose limit is above t, or the last one.
BucketOf(t) == 1 + Cardinality({b \in 1 .. Len(LIMITS) - 1 : LIMITS[b] <= t})

histogram_add(h, t) ==
    [buckets |-> [h.buckets EXCEPT ![BucketOf(t)] = @ + 1],
     min |-> IF h.min > t THEN t ELSE h.min,
     max |-> IF h.max < t THEN t ELSE h.max,
     num |-> h.num + 1]

\* Mutant of raw_add: the buffer grows one value too late.
raw_addLate(r, t) ==
    [data |-> Append(r.data, t), size |-> IF r.size < Len(r.data) THEN 2 * r.size ELSE r.size]
raw_add(r, t) ==
    [data |-> Append(r.data, t), size |-> IF r.size < Len(r.data) + 1 THEN 2 * r.size ELSE r.size]

\* How many times fell into the buckets up to b.
UpTo(h, b) == FoldLeft(LAMBDA sum, c : sum + c, 0, SubSeq(h.buckets, 1, b))

\* percentile(50): the first bucket that reaches half of the times.
HalfBucket(h) ==
    CHOOSE b \in Buckets :
        2 * UpTo(h, b) >= h.num /\ \A c \in 1 .. b - 1 : 2 * UpTo(h, c) < h.num

LeftPoint(b) == IF b = 1 THEN 0 ELSE LIMITS[b - 1]

\* The median, as a fraction n / d: linear within the bucket, then cut to the
\* smallest and largest time. Its divisor is 0 when nothing was timed.
Median(h) ==
    LET b == HalfBucket(h)
        d == 2 * h.buckets[b]
        n == LeftPoint(b) * d
               + (LIMITS[b] - LeftPoint(b)) * (h.num - 2 * UpTo(h, b - 1))
    IN  [n |-> IF n < h.min * d THEN h.min * d ELSE IF n > h.max * d THEN h.max * d ELSE n,
         d |-> d]

\* finished_single_op: the time is recorded where the flags ask for it.
Timed ==
    /\ \E t \in IF flags.histogram \/ flags.raw THEN MICROS ELSE {0} :
         /\ hist' = IF flags.histogram THEN histogram_add(hist, t) ELSE hist
         /\ raw' = IF flags.raw THEN raw_add(raw, t) ELSE raw
    /\ done' = done + 1

statistics == <<hist, raw, done>>

-----------------------------------------------------------------------------
(* The driver.                                                             *)

Write(order, n, size, batch) ==
    [op |-> "write", order |-> order, n |-> n, size |-> size, batch |-> batch]
Read(order, n) == [op |-> "read", order |-> order, n |-> n, size |-> 0, batch |-> 1]

\* What the names in the list stand for; fillrandom and overwrite are the same.
Benchmarks ==
    (UNION {{Write(o, NUM, VALUE, 1), Write(o, NUM, VALUE, BATCH),
             Write(o, NUM \div HUNDRED, VALUE, 1), Write(o, NUM \div THOUSAND, LARGE, 1),
             Read(o, flags.reads)} : o \in {"seq", "random"}})
      \cup {Read("random", flags.reads \div THOUSAND)}

Init ==
    /\ pc = "next" /\ left = MaxBench
    /\ \E h, r, t \in BOOLEAN, n \in READS :
         flags = [histogram |-> h, raw |-> r, transaction |-> t,
                  reads |-> IF n < 0 THEN NUM ELSE n]
    /\ bench = Read("seq", 0) /\ i = 0 /\ j = 0
    /\ keys = {} /\ inTrans = FALSE /\ stmts = 0
    /\ seed = SEED
    /\ \E r \in RAW_LENGTHS : gen = [size |-> DataSize(r), pos |-> 0]
    /\ hist = NoTimes /\ raw = NoRaw /\ done = 0

Transaction == flags.transaction /\ bench.batch > 1

\* A benchmark of the list starts: its statistics, loop and three statements.
Start ==
    /\ pc = "next" /\ left > 0
    /\ bench' \in Benchmarks
    /\ pc' = "loop" /\ i' = 0 /\ stmts' = stmts + 3
    /\ hist' = NoTimes /\ raw' = NoRaw /\ done' = 0
    /\ UNCHANGED <<flags, left, j, keys, inTrans, seed, gen>>

\* A name that is unknown or empty: statistics start over, nothing is reported.
Unknown ==
    /\ pc = "next" /\ left > 0
    /\ left' = left - 1
    /\ hist' = NoTimes /\ raw' = NoRaw /\ done' = 0
    /\ UNCHANGED <<pc, flags, bench, i, j, keys, inTrans, stmts, seed, gen>>

\* The next batch; SQLite refuses BEGIN inside a transaction.
BeginBatch ==
    /\ pc = "loop" /\ i < bench.n
    /\ j' = 0
    /\ inTrans' = (inTrans \/ Transaction)
    /\ pc' = IF Transaction /\ inTrans THEN "misuse" ELSE "ops"
    /\ UNCHANGED <<flags, left, bench, i, keys, stmts, seed, gen, statistics>>

\* The key of an operation, and what it does to the generator of keys.
NewKey == IF bench.order = "seq" THEN i + j ELSE rand_next(seed) % bench.n
NewSeed == IF bench.order = "seq" THEN seed ELSE rand_next(seed)

\* An operation is over.
Finished == j' = j + 1 /\ Timed /\ UNCHANGED <<pc, flags, left, bench, i, inTrans, stmts>>

\* REPLACE of a key by the next value of the generator.
WriteOp ==
    /\ pc = "ops" /\ bench.op = "write" /\ j < bench.batch
    /\ ~TooLarge(bench.size)
    /\ gen' = [gen EXCEPT !.pos = From(bench.size) + bench.size]
    /\ keys' = keys \cup {NewKey}
    /\ seed' = NewSeed
    /\ Finished

\* The generator's assertion stops the program.
WriteAsserts ==
    /\ pc = "ops" /\ bench.op = "write" /\ j < bench.batch
    /\ TooLarge(bench.size)
    /\ pc' = "assert" /\ gen' = [gen EXCEPT !.pos = 0]
    /\ UNCHANGED <<flags, left, bench, i, j, keys, inTrans, stmts, seed, statistics>>

\* SELECT of a key, which need not be in the table.
ReadOp ==
    /\ pc = "ops" /\ bench.op = "read" /\ j < bench.batch
    /\ seed' = NewSeed
    /\ UNCHANGED <<keys, gen>>
    /\ Finished

\* Mutant of EndBatch: the transaction stays open.
EndBatchOpen ==
    /\ pc = "ops" /\ j = bench.batch
    /\ pc' = "loop" /\ i' = i + bench.batch
    /\ UNCHANGED <<flags, left, bench, j, keys, inTrans, stmts, seed, gen, statistics>>
\* All entries of the batch are done; SQLite refuses END without BEGIN.
EndBatch ==
    /\ pc = "ops" /\ j = bench.batch
    /\ i' = i + bench.batch
    /\ inTrans' = (inTrans /\ ~Transaction)
    /\ pc' = IF Transaction /\ ~inTrans THEN "misuse" ELSE "loop"
    /\ UNCHANGED <<flags, left, bench, j, keys, stmts, seed, gen, statistics>>

\* The loop is over: statements are finalized, stop() reports.
Stop ==
    /\ pc = "loop" /\ i >= bench.n
    /\ pc' = "next" /\ left' = left - 1 /\ stmts' = stmts - 3
    /\ done' = IF done < 1 THEN 1 ELSE done
    /\ UNCHANGED <<flags, bench, i, j, keys, inTrans, seed, gen, hist, raw>>

\* A step of SQLite fails, for instance on a full disk, and the program exits.
StepFails ==
    /\ \/ pc = "ops" /\ (j < bench.batch \/ Transaction)
       \/ pc = "loop" /\ i < bench.n /\ Transaction
    /\ pc' = "exit"
    /\ UNCHANGED <<flags, left, bench, i, j, keys, inTrans, stmts, seed, gen, statistics>>

\* benchmark_fini: SQLite does not close a database with statements.
Fini ==
    /\ pc = "next" /\ left = 0
    /\ pc' = IF stmts = 0 THEN "closed" ELSE "misuse"
    /\ UNCHANGED <<flags, left, bench, i, j, keys, inTrans, stmts, seed, gen, statistics>>

Next ==
    \/ Start \/ Unknown \/ BeginBatch \/ WriteOp \/ WriteAsserts \/ ReadOp
    \/ EndBatch \/ Stop \/ StepFails \/ Fini

Spec == Init /\ [][Next]_vars /\ WF_vars(Next)

-----------------------------------------------------------------------------
(* Properties.                                                             *)

\* Every variable has its type: in particular the seed is never 0 or M, where
\* the generator would stay for ever, and the raw data fit their buffer.
TypeOK ==
    /\ pc \in {"next", "loop", "ops", "closed", "exit", "assert", "misuse"}
    /\ flags \in [histogram : BOOLEAN, raw : BOOLEAN, transaction : BOOLEAN, reads : Nat]
    /\ left \in 0 .. MaxBench /\ bench \in Benchmarks \cup {Read("seq", 0)}
    /\ i \in 0 .. RoundUp(bench.n, bench.batch) /\ j \in 0 .. BATCH /\ done \in Nat
    /\ keys \subseteq Nat /\ inTrans \in BOOLEAN /\ stmts \in {0, 3} /\ seed \in 1 .. M - 1
    /\ gen \in [size : Nat, pos : Nat]
    /\ raw \in [data : Seq(MICROS), size : Nat \ {0}] /\ Len(raw.data) <= raw.size
    /\ hist \in [buckets : [Buckets -> Nat], min : Nat, max : Nat, num : Nat]

\* Every time of the raw data is counted in the bucket whose limits enclose it,
\* and the smallest and largest are kept (finished_single_op).
HistogramOfRaw ==
    /\ hist.num = Len(raw.data)
    /\ \A b \in Buckets :
         hist.buckets[b] = Cardinality({k \in DOMAIN raw.data :
                               LeftPoint(b) <= raw.data[k] /\ raw.data[k] < LIMITS[b]})
    /\ \A k \in DOMAIN raw.data : hist.min <= raw.data[k] /\ raw.data[k] <= hist.max

\* The median of the histogram lies in the bucket that holds the median of the
\* raw data, and is a number, as soon as one operation was timed (percentile).
MedianNearRaw ==
    hist.num > 0 =>
        LET sorted == SortSeq(raw.data, <)
            middle == sorted[(hist.num + 1) \div 2]
            b == BucketOf(middle)
            m == Median(hist)
        IN  m.d > 0 /\ LeftPoint(b) * m.d <= m.n /\ m.n <= LIMITS[b] * m.d

\* What is recorded of the same operations in two ways, and reported of them,
\* agrees, for any sequence of times and any two benchmarks in a row.
StatisticsAgree == flags.histogram /\ flags.raw => HistogramOfRaw /\ MedianNearRaw

\* The place in the generator's data, and what its assertion stops.
ValuesInsideData ==
    /\ gen.pos <= gen.size
    /\ pc = "assert" => bench.size >= gen.size

\* The key generator is the multiplicative generator modulo M although it
\* never divides by M.
KeysFromLehmer == [][seed' \in {seed, (A * seed) % M}]_vars

\* The keys that a sequential fill has behind it.  The last batch is written
\* whole: where BATCH does not divide NUM, the table ends with more than NUM keys.
FillsEveryKey ==
    /\ pc = "loop" /\ bench.op = "write" /\ bench.order = "seq" => 0 .. i - 1 \subseteq keys
    /\ keys \subseteq 0 .. RoundUp(NUM, BATCH) - 1

\* The inductive invariant: the loops are where they say, at a whole number of
\* batches; the statements of a benchmark and the transaction of a batch are open
\* while it runs and at no other time, so that SQLite refuses nothing; and a
\* sequential fill has its keys in the middle of a batch, too.
DriverInv ==
    /\ TypeOK /\ FillsEveryKey /\ ValuesInsideData
    /\ i % bench.batch = 0
    /\ pc \in {"loop", "ops"} => left > 0 /\ stmts = 3
    /\ pc = "next" => stmts = 0
    /\ pc = "ops" => i < bench.n /\ j <= bench.batch
    /\ inTrans /\ pc \in {"next", "loop", "ops"} => pc = "ops" /\ Transaction
    /\ pc = "ops" /\ Transaction => inTrans
    /\ pc # "misuse"
    /\ pc = "ops" /\ bench.op = "write" /\ bench.order = "seq" => 0 .. i + j - 1 \subseteq keys

\* The list of benchmarks comes to an end: SQLite is ready for every BEGIN, END
\* and close it meets, with and without transactions, so that the database is
\* closed, unless a step of SQLite fails or a benchmark of values of LARGE bytes
\* meets the assertion of rand_gen_generate.
Finishes ==
    <>(pc \in {"closed", "exit"} \/ (pc = "assert" /\ bench.size = LARGE))
=============================================================================
