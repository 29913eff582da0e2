---------------------------- MODULE MCAppLifecycle ----------------------------
\* Instances of AppLifecycle: a1 is an app with a login, from its first or its
\* second version on, and in some instances with a database; a2 may depend on
\* a1's service, and in some has a login, too.
EXTENDS AppLifecycle, TLC

CONSTANTS a1, a2

Never == 3
FirstVersion == [a \in Apps |-> 1]
Never1       == [a \in Apps |-> Never]
DbOfA1       == [a \in Apps |-> IF a = a1 THEN 1 ELSE Never]
LoginLater   == [a \in Apps |-> IF a = a1 THEN 2 ELSE Never]

Independent == [a \in Apps |-> {}]
OnA1        == [a \in Apps |-> IF a = a1 THEN {} ELSE {a1}]
OwnPorts    == [a \in Apps |-> a]
OnePort     == [a \in Apps |-> a1]

ValueSymmetry == Permutations(Values)
=============================================================================
