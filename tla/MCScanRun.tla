----------------------------- MODULE MCScanRun -----------------------------
(* Instances of ScanRun for TLC. *)
EXTENDS ScanRun, TLC

CONSTANTS a, b, d, e

\* Both URLs have the same domain: the second one refreshes the first one's row.
OneDomain == [u \in Url |-> d]
TwoDomains == (a :> d) @@ (b :> e)
=============================================================================
