---------------------------- MODULE MCDesyncGroups ----------------------------
(***************************************************************************)
(* Instances of DesyncGroups for TLC.                                       *)
(***************************************************************************)
EXTENDS DesyncGroups, TLC

CONSTANTS c1, c2, d1, d2

Conns == {c1, c2}
Dests == {d1, d2}

\* --auto-mode s --auto t,p=1 --proto t --ipset d1 --auto-mode o --cache-ttl 1
\* --auto r,s,c,p=1 --auto-mode s
\* One group that is tried first, one for TLS to d1 after a reset, which the cache forgets, and
\* one after all other faults.
MCDetect == <<{}, {"torst"}, {"tls_err", "connect", "redirect"}>>
MCLevel == <<{"sort"}, {"onreconn"}, {"sort"}>>
MCOnAddr == <<Dests, {d1}, Dests>>
MCSuits == <<Kind, {"tls"}, Kind>>
MCTtl == {2}
MCPri == <<1, 1, 0>>

Symmetry == Permutations(Conns)
=============================================================================
