---------------------------- MODULE MCUrlStore ----------------------------
(* The store on small instances.                                           *)
EXTENDS UrlStore, TLC

CONSTANTS d1, d2, c1, c2, e1, e2

\* A full and a sparse observation of one domain, and one of another with a
\* scan-time partial failure and no satellites.
ThreeRecords ==
    {[domain |-> d1, core |-> {c1, c2}, enrich |-> {e1, e2}, scan |-> FALSE],
     [domain |-> d1, core |-> {c1}, enrich |-> {e2}, scan |-> FALSE],
     [domain |-> d2, core |-> {}, enrich |-> {}, scan |-> TRUE]}

============================================================================
