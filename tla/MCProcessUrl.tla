---------------------------- MODULE MCProcessUrl ----------------------------
(* ProcessUrl for TLC: two safe URLs of either scheme, an unsafe one and   *)
(* two kinds of DNS records.                                               *)
EXTENDS ProcessUrl

CONSTANTS plain, secure, internal, ns, txt

MCUrl == {plain, secure, internal}
MCHttps == {secure, internal}
MCSafe == {plain, secure}
MCRecordType == {ns, txt}
=============================================================================
