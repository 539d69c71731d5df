----------------------------- MODULE MCConsole ------------------------------
(* The console for TLC: two calls, one of them named by the query. *)
EXTENDS Console, TLC
CONSTANTS c1, c2, ip1, ip2, letter
MCIpsOf == (c1 :> {ip1}) @@ (c2 :> {ip1, ip2})
MCCallFilters == <<"All", "Active">>
=============================================================================
