----------------------------- MODULE MCScanner -----------------------------
(* The scanner under names of its own, and TLC's instance of it.           *)
EXTENDS Naturals, Sequences

CONSTANTS Dropped, Chunks, Subs, Known, MaxKeys, MaxFaults
VARIABLES scan, items, queue, work, posted, chat, sent, index, refused, faults, failed

Scan == INSTANCE Scanner WITH job <- work

ASSUME ScannerAssumption == Scan!ScannerAssumption

\* A directory with a file of one chunk and one that fits into its metadata,
\* and a file of two chunks, dropped together.
SomeFiles == [f \in {"big", "small", "inline"} |->
                CASE f = "big" -> 2 [] f = "small" -> 1 [] OTHER -> 0]
SomeDirs == [d \in {"dir"} |-> <<"inline", "small">>]
SomeDrop == <<"dir", "big">>

ScanSpec == Scan!Spec
ItemsShared == Scan!ItemsShared
ReportsTrue == Scan!ReportsTrue
ScanEnds == Scan!ScanEnds
=============================================================================
