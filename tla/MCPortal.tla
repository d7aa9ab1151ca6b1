------------------------------ MODULE MCPortal ------------------------------
(* Small instances of Portal: two browsers race with two accounts.          *)
EXTENDS Portal, TLC

CONSTANTS home, away

\* Every kind of address request: a new address, none, one that comes with the location
\* of another place, and one with half a location.
AllForms == {<<home, None>>, <<None, None>>, <<away, home>>, <<away, Part>>}

Symmetry == Permutations(People) \cup Permutations(Browsers)
=============================================================================
