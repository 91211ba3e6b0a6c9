---------------------------- MODULE MCDiscovery ----------------------------
(* Instances of Discovery for TLC: one provider of each kind, listing      *)
(* overlapping addresses of which one is known and scanned.  The second    *)
(* page of the paged one is short although a third page follows.           *)
EXTENDS Discovery

CONSTANTS a, b, e, f, d1, d2, c1, c2, p1, p2, p3

Sources == <<"proxyscrape", "proxifly", "geonode">>

KindsOf(p) == CASE p = "proxyscrape" -> "stream" [] p = "proxifly" -> "text" [] OTHER -> "paged"

Lists(p) == CASE p = "proxyscrape" -> <<<<a, b>>>>
              [] p = "proxifly" -> <<<<b>>, <<a>>>>
              [] OTHER -> <<<<b>>, <<e>>, <<f>>>>

Reports(p, u) == [count |-> IF u = 1 THEN 2 ELSE 1, total |-> 5]
=============================================================================
