-------------------------------- MODULE Sums --------------------------------
(***************************************************************************)
(* The totals the services compute: bytes on the volumes (media.service.ts) *)
(* and reading times (documents.service.ts).                               *)
(***************************************************************************)
EXTENDS FiniteSetsExt

\* The sum of f[x] over the x of a finite set S.
SumOf(f, S) == MapThenSumSet(LAMBDA x : f[x], S)
=============================================================================
