----------------------------- MODULE MCTransfers -----------------------------
EXTENDS Transfers, TLC

Base == [name |-> "upload", up |-> TRUE, resume |-> FALSE, verify |-> FALSE,
         recursive |-> FALSE, dry |-> FALSE, exclude |-> FALSE]

\* A verified upload, one that is resumed, a verified download, and syncs,
\* one of which excludes what it is to copy.
MCRequests ==
  {[Base EXCEPT !.verify = TRUE],
   [Base EXCEPT !.resume = TRUE, !.recursive = TRUE],
   [Base EXCEPT !.name = "download", !.up = FALSE, !.verify = TRUE],
   [Base EXCEPT !.name = "sync", !.recursive = TRUE, !.dry = TRUE],
   [Base EXCEPT !.name = "sync", !.up = FALSE],
   [Base EXCEPT !.name = "sync", !.recursive = TRUE, !.exclude = TRUE]}

Symmetry == Permutations(TransferCalls)
=============================================================================
