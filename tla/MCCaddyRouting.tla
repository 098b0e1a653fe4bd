--------------------------- MODULE MCCaddyRouting ---------------------------
(* An instance of CaddyRouting for TLC: the default route or a split one,  *)
(* over a host on which Caddy already has routes of its own.               *)
EXTENDS CaddyRouting, TLC

CONSTANTS h1, elsewhere

AllDomains(match) == [host |-> None, match |-> match]

MCRuleSets == {{}, {AllDomains("path_prefix"), AllDomains("path_exact"),
                    [host |-> h1, match |-> "host"]}}

\* A route for a path on h1 and on a host CaddyTower never publishes, and one for
\* h1 with a matcher that CaddyTower does not know.
MCUnmanaged ==
  {[to |-> None, sets |-> {[hosts |-> {h1, elsewhere}, match |-> "path_exact"]}],
   [to |-> None, sets |-> {[hosts |-> {h1}, match |-> "other"]}]}

WorkerSymmetry == Permutations(Workers)
=============================================================================
