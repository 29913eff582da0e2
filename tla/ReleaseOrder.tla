----------------------------- MODULE ReleaseOrder -----------------------------
(***************************************************************************)
(* The order of releases (internal/update: newer, parseVersion,            *)
(* comparePre), and the precedence of semantic versioning it stands for.   *)
(***************************************************************************)
EXTENDS Integers, Sequences

\* A version: three numbers and the dot-separated identifiers of the suffix.
\* A text is represented by its place among the texts.
Number(n) == [num |-> TRUE, val |-> n]
Text(n)   == [num |-> FALSE, val |-> n]
Ident     == [num : BOOLEAN, val : Nat]
Version   == [core : Nat \X Nat \X Nat, pre : Seq(Ident)]

\* A build after the tag of a release (v0.11.0-11-g33dea43) and whatever else does
\* not parse. (A build after that of a pre-release, v0.12.0-rc1-3-gabc1234, does:
\* the whole of rc1-3-gabc1234 is the suffix of a Version, one text.)
Unordered == [core |-> <<-1, -1, -1>>, pre |-> <<>>]

parseVersion(v) == v # Unordered

Least(S) == CHOOSE i \in S : \A j \in S : i <= j

\* The places at which two suffixes differ, as far as both go.
Differ(a, b) == {i \in 1 .. (IF Len(a) < Len(b) THEN Len(a) ELSE Len(b)) : a[i] # b[i]}

\* Variant: identifiers are compared without asking whether they are numbers.
IdentAfterUntyped(x, y) == x.val > y.val

IdentAfter(x, y) == IF x.num = y.num THEN x.val > y.val ELSE y.num

\* No suffix sorts after any; numbers sort before texts; of two suffixes, one of
\* which continues the other, the longer sorts after.
comparePre(a, b) ==
  IF a = b THEN 0
  ELSE IF a = <<>> THEN 1
  ELSE IF b = <<>> THEN -1
  ELSE IF Differ(a, b) = {} THEN Len(a) - Len(b)
  ELSE LET i == Least(Differ(a, b)) IN IF IdentAfter(a[i], b[i]) THEN 1 ELSE -1

newer(a, b) ==
  /\ parseVersion(a) /\ parseVersion(b)
  /\ LET differ == {i \in 1 .. 3 : a.core[i] # b.core[i]}
     IN IF differ # {} THEN a.core[Least(differ)] > b.core[Least(differ)]
                       ELSE comparePre(a.pre, b.pre) > 0

-----------------------------------------------------------------------------
\* The precedence of semantic versioning, as the order of words over pairs: the
\* end of a suffix comes before everything, the absence of one after everything.

Word(v) ==
  [i \in 1 .. 3 |-> <<1, v.core[i]>>] \o
  (IF v.pre = <<>> THEN <<<<3, 0>>>>
   ELSE [i \in 1 .. Len(v.pre) |-> <<IF v.pre[i].num THEN 1 ELSE 2, v.pre[i].val>>]
        \o <<<<0, 0>>>>)

PairBefore(x, y) == x[1] < y[1] \/ (x[1] = y[1] /\ x[2] < y[2])

Precedes(v, w) ==
  \E i \in 1 .. Len(Word(v)) :
    /\ i <= Len(Word(w))
    /\ \A j \in 1 .. (i - 1) : Word(v)[j] = Word(w)[j]
    /\ PairBefore(Word(v)[i], Word(w)[i])
=============================================================================
