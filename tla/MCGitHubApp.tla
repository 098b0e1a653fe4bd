------------------------------ MODULE MCGitHubApp ------------------------------
(* An instance of GitHubApp, and of Settings with it, for TLC: two root    *)
(* domains in a zone where somebody else has records, two origins of       *)
(* different record types.                                                 *)
EXTENDS GitHubApp, TLC

CONSTANTS r1, r2, z1, alias, ip

MCTypeOf == [t \in {alias, ip} |-> IF t = alias THEN "CNAME" ELSE "A"]
MCForms ==
  {[root |-> r2, zone |-> z1, origin |-> ip, token |-> TRUE],
   [root |-> r1, zone |-> z1, origin |-> alias, token |-> TRUE],
   [root |-> Blank, zone |-> z1, origin |-> alias, token |-> FALSE]}
MCAppForms == {[hook |-> TRUE, key |-> TRUE], [hook |-> TRUE, key |-> FALSE], [hook |-> FALSE, key |-> FALSE]}
MCForeign ==
  {[id |-> 0, zone |-> z1, name |-> <<"www", r1>>, type |-> "A", content |-> ip],
   [id |-> -1, zone |-> z1, name |-> <<"caddytower", r1>>, type |-> "A", content |-> ip],
   [id |-> -2, zone |-> z1, name |-> <<"caddytower", r2>>, type |-> "CNAME", content |-> alias]}

Symmetry == Permutations(Workers)
=============================================================================
