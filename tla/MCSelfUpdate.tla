----------------------------- MODULE MCSelfUpdate -----------------------------
\* Instances of SelfUpdate.
EXTENDS SelfUpdate, TLC

V(a, b, c, pre) == [core |-> <<a, b, c>>, pre |-> pre]

\* 0.2.9 and pre-releases of 0.10.0, among them rc.2, rc.10 and plain numbers, and a
\* build between tags.
SomeVersions ==
  {V(0, 2, 9, <<>>), V(0, 10, 0, <<>>),
   V(0, 10, 0, <<Text(1)>>), V(0, 10, 0, <<Text(1), Number(2)>>),
   V(0, 10, 0, <<Text(1), Number(10)>>), V(0, 10, 0, <<Number(10)>>),
   Unordered}

Sound(v) == [tag |-> v, listed |-> TRUE, genuine |-> TRUE, runs |-> TRUE]

\* A sound release of each, and one of each way in which a release is not sound.
SomeReleases ==
  {Sound(v) : v \in SomeVersions} \cup
  {[Sound(V(0, 10, 0, <<>>)) EXCEPT ![field] = FALSE] : field \in {"listed", "genuine", "runs"}}
=============================================================================
