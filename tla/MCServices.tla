----------------------------- MODULE MCServices -----------------------------
(* The parts around the trading core on small instances. *)
EXTENDS MCRules, Services

CONSTANTS e1, e2, s1, s2, m1, m2, m3

\* A token for each address, one that renames its account, and one that claims
\* another's address.
MCIdentities == {[email |-> e1, sub |-> s1], [email |-> e1, sub |-> s2],
                 [email |-> e2, sub |-> s1]}

\* Headlines that agree and disagree, sure and unsure, in time and ahead of it.
MCWire == {[at |-> 0, score |-> 1, confidence |-> 40],
           [at |-> 0, score |-> -1, confidence |-> 8],
           [at |-> 2, score |-> -1, confidence |-> 40],
           [at |-> 3, score |-> 1, confidence |-> 8]}

\* The editions before and after a release: a module goes and one comes in.
MCEditions == {<<m1, m2>>, <<m2, m3>>}

=============================================================================
