----------------------------- MODULE MCBenchmark -----------------------------
EXTENDS Benchmark

MCReads == {-1, 0}
MCLimits == <<1, 2, 4, 8>>
=============================================================================
