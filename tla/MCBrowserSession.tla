---------------------------- MODULE MCBrowserSession ----------------------------
EXTENDS SessionProperties, TLC

CONSTANTS t1, t2, i1, i2, i3, ada, Ada, bob, ann, blank, empty

\* Ada is the address ada typed with a capital; a blank name is all white space.
MCEmail == {ada, Ada, bob}
MCLower == [e \in MCEmail |-> IF e = Ada THEN ada ELSE e]
MCName == {ann, blank, empty}
MCTrim == [n \in MCName |-> IF n = blank THEN empty ELSE n]
MCSeed == {[id |-> i1, email |-> bob, name |-> ann, role |-> "admin"]}
MCTwo == MCSeed \cup {[id |-> i2, email |-> ada, name |-> ann, role |-> "normal"]}
TabSymmetry == Permutations(Tab)
=============================================================================
