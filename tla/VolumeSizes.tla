---------------------------- MODULE VolumeSizes ----------------------------
(* What volumes take together: the sum of the VolSize of a volume list.    *)
EXTENDS FiniteSetsExt

TotalSize(volumes) == MapThenSumSet(LAMBDA v : v.size, volumes)
============================================================================
