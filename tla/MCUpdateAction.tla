--------------------------- MODULE MCUpdateAction ---------------------------
(* Downloads under names of their own, and TLC's instance of them.         *)
EXTENDS Naturals, Sequences

CONSTANTS Updates, Root, Entries, Above, Blocks, Size, MaybeOdd, MaxMishaps
VARIABLES up, regions, disk, list, odd, mishaps, lost, aborted

Download == INSTANCE UpdateAction WITH MaxFaults <- MaxMishaps, faults <- mishaps, failed <- aborted

ASSUME UpdateAssumption == Download!UpdateAssumption

\* A directory with two blocks of entries: a file of two chunks and an empty
\* one, and a directory with a file of one chunk.
SomeEntries ==
  [d \in {"root", "dir"} |-> IF d = "root" THEN <<"big", "empty", "dir">> ELSE <<"small">>]
SomeBlocks ==
  [d \in {"root", "dir"} |->
     IF d = "root" THEN <<[recno |-> 0, nrecs |-> 2], [recno |-> 2, nrecs |-> 1]>>
     ELSE <<[recno |-> 0, nrecs |-> 1]>>]
SomeAbove ==
  [u \in {"root", "dir", "big", "empty", "small"} |->
     CASE u = "root" -> <<>> [] u = "small" -> <<"dir", "root">> [] OTHER -> <<"root">>]
SomeSizes == [f \in {"big", "empty", "small"} |->
                CASE f = "big" -> 2 [] f = "empty" -> 0 [] OTHER -> 1]

DownloadSpec == Download!Spec
DownloadsWhole == Download!DownloadsWhole
CountsTrue == Download!CountsTrue
ErrorsRetried == Download!ErrorsRetried
DownloadEnds == Download!DownloadEnds
=============================================================================
