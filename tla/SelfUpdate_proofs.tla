--------------------------- MODULE SelfUpdate_proofs ---------------------------
(***************************************************************************)
(* Theorems about SelfUpdate: whatever systemd may start has been verified *)
(* and no process is followed by an older one, for all releases, in        *)
(* whatever order they come and whenever the process dies; and the order   *)
(* of releases that the code computes is the one semantic versioning       *)
(* defines, for all versions.                                              *)
(***************************************************************************)
EXTENDS SelfUpdate, SequenceTheorems, WellFoundedInduction, TLAPS

\* What the job relies on at each step: it has a release that is newer than the
\* process, and a download of it that has passed the checks so far.
JobInv ==
  /\ step # "none" => Up
  /\ step \in {"download", "sum", "verify", "replace", "record"} =>
       rel \in Release /\ (running # Dev => newer(rel.tag, running))
  /\ step \in {"sum", "verify", "replace"} => new \in Program /\ new.ver = rel.tag
  /\ step \in {"verify", "replace"} => new.whole /\ new.genuine
  /\ step = "replace" => new.runs

\* The file that systemd starts is of the version that ran last or newer, also
\* when a job has replaced it and a second one is under way.
OrderInv ==
  /\ Up => last = running
  /\ last # Dev => binary.ver = last \/ newer(binary.ver, last)

IInv == TypeOK /\ JobInv /\ StartableIsVerified /\ OrderInv

\* What one step of the job finds, the next may rely on, and a second job starts
\* afresh (update.go:201-273).
LEMMA JobStep == IInv /\ Next => TypeOK' /\ JobInv'
<1> SUFFICES ASSUME IInv, Next PROVE TypeOK' /\ JobInv'
  OBVIOUS
<1> USE DEF IInv, TypeOK, JobInv, Steps, Up, JobEnds
<1>1. CASE Publish
  BY <1>1, ReleasesAssumption DEF Publish
<1>2. CASE handleSystemUpdate
  BY <1>2 DEF handleSystemUpdate
<1>3. CASE Check
  <2>1. rel' \in Release \cup {None} /\ step' \in {"none", "download"}
    BY <1>3 DEF Check
  <2>2. step' = "download" => rel' \in Release /\ (running # Dev => newer(rel'.tag, running))
    BY <1>3 DEF Check, UpdateAvailable, CurrentVersion
  <2> QED  BY <1>3, <2>1, <2>2 DEF Check
<1>4. CASE downloadFile
  <2>1. rel \in Release /\ (running # Dev => newer(rel.tag, running))
    BY <1>4 DEF downloadFile
  <2>2. \A whole \in BOOLEAN : Downloaded(whole) \in Program /\ Downloaded(whole).ver = rel.tag
    BY <2>1 DEF Downloaded, Release, Program
  <2> QED  BY <1>4, <2>1, <2>2 DEF downloadFile
<1>5. CASE NetFails
  BY <1>5 DEF NetFails, Remove
<1>6. CASE CheckSum
  BY <1>6 DEF CheckSum, Remove
<1>7. CASE VerifyRuns
  BY <1>7 DEF VerifyRuns, Remove
<1>8. CASE Replace
  BY <1>8 DEF Replace
<1>9. CASE Record \/ RecordFails
  BY <1>9 DEF Record, RecordFails, Release
<1>10. CASE Exit \/ Crash
  BY <1>10 DEF Exit, Crash, Ends
<1>11. CASE Start
  BY <1>11, NoneAssumption DEF Start, Program
<1> QED
  BY <1>1, <1>2, <1>3, <1>4, <1>5, <1>6, <1>7, <1>8, <1>9, <1>10, <1>11 DEF Next

\* Only the replacement touches the file, and only a start the version that runs.
LEMMA OnlyReplaceAndStart ==
  Next => \/ Replace
          \/ Start
          \/ UNCHANGED <<binary, last>> /\ running' \in {running, None}
BY DEF Next, Publish, handleSystemUpdate, Check, downloadFile, NetFails, Remove, CheckSum,
       VerifyRuns, Record, RecordFails, Exit, Crash, Ends

\* The program that was installed by hand.
LEMMA IInvInit == Init => IInv
<1> SUFFICES ASSUME Init PROVE IInv
  OBVIOUS
<1>1. PICK v \in Versions \cup {Dev} :
        /\ binary = [ver |-> v, whole |-> TRUE, genuine |-> TRUE, runs |-> TRUE]
        /\ running = v /\ last = v
  BY DEF Init
<1>2. TypeOK
  BY <1>1 DEF Init, TypeOK, Steps, Program
<1>3. JobInv
  BY DEF Init, JobInv
<1>4. StartableIsVerified /\ OrderInv
  BY <1>1 DEF StartableIsVerified, OrderInv
<1> QED  BY <1>2, <1>3, <1>4 DEF IInv

LEMMA IInvStep == IInv /\ [Next]_vars => IInv'
<1> SUFFICES ASSUME IInv, [Next]_vars PROVE IInv'
  OBVIOUS
<1>1. CASE Next
  <2>1. TypeOK' /\ JobInv'
    BY <1>1, JobStep
  <2>2. CASE Replace
    <3>1. StartableIsVerified'
      BY <2>2 DEF Replace, IInv, JobInv, StartableIsVerified
    <3>2. OrderInv'
      BY <2>2 DEF Replace, IInv, JobInv, OrderInv, Up
    <3> QED  BY <2>1, <3>1, <3>2 DEF IInv
  <2>3. CASE Start
    <3>1. StartableIsVerified' /\ OrderInv'
      BY <2>3 DEF Start, IInv, OrderInv, StartableIsVerified
    <3> QED  BY <2>1, <3>1 DEF IInv
  <2>4. CASE UNCHANGED <<binary, last>> /\ running' \in {running, None}
    <3>1. StartableIsVerified' /\ OrderInv'
      BY <2>4 DEF IInv, OrderInv, StartableIsVerified, Up
    <3> QED  BY <2>1, <3>1 DEF IInv
  <2> QED  BY <1>1, <2>2, <2>3, <2>4, OnlyReplaceAndStart
<1>2. CASE UNCHANGED vars
  BY <1>2 DEF vars, IInv, TypeOK, JobInv, OrderInv, StartableIsVerified, Up
<1> QED  BY <1>1, <1>2

\* At every moment the steps taken so far bear out what the next one relies on
\* (update.go:201-273).
THEOREM Invariant == Spec => []IInv
BY IInvInit, IInvStep, PTL DEF Spec

\* The job, the files and the process keep their types, whatever releases there
\* are (update.go:201-294).
THEOREM TypeCorrect == Spec => []TypeOK
<1>1. IInv => TypeOK
  BY DEF IInv
<1> QED  BY <1>1, Invariant, PTL

\* At any moment at which the process can die, the file that systemd starts is
\* whole, was in the list of checksums and runs (update.go:225-264).
THEOREM OnlyVerifiedStarts == Spec => []StartableIsVerified
<1>1. IInv => StartableIsVerified
  BY DEF IInv
<1> QED  BY <1>1, Invariant, PTL

\* A process is followed by one of its own version or a newer one, for any order
\* of versions: the proof does not look into it (update.go:90-109, 201-294).
THEOREM NoDowngrade == Spec => NeverBackwards
<1>1. IInv /\ [Next]_vars =>
        [~Up /\ Up' /\ last # Dev => running' = last \/ newer(running', last)]_vars
  <2> SUFFICES ASSUME IInv, Next, ~Up, Up', last # Dev
               PROVE  running' = last \/ newer(running', last)
    OBVIOUS
  <2>1. CASE Start
    BY <2>1 DEF Start, IInv, OrderInv
  <2>2. CASE Replace
    BY <2>2 DEF Replace
  <2>3. CASE UNCHANGED <<binary, last>> /\ running' \in {running, None}
    BY <2>3 DEF Up
  <2> QED  BY <2>1, <2>2, <2>3, OnlyReplaceAndStart
<1> QED  BY <1>1, Invariant, PTL DEF Spec, NeverBackwards

-----------------------------------------------------------------------------
\* The order of releases.

\* A set of numbers has a least one: the loops over the numbers and over the
\* identifiers of two versions stop at the first difference (update.go:121-125, 174-194).
LEMMA LeastIs ==
  ASSUME NEW S \in SUBSET Nat, S # {}
  PROVE  Least(S) \in S /\ \A j \in S : Least(S) <= j
<1> DEFINE R == {ss \in Nat \X Nat : ss[1] < ss[2]}
<1>1. R = OpToRel(<, Nat)
  BY Zenon DEF OpToRel
<1>2. IsWellFoundedOn(R, Nat)
  BY <1>1, NatLessThanWellFounded, Zenon
<1>3. PICK i \in S : \A j \in S : ~(<<j, i>> \in R)
  <2> HIDE DEF R
  <2> QED  BY <1>2, WFMin
<1>4. \A j \in S : i <= j
  <2>1. ASSUME NEW j \in S, j < i
        PROVE  FALSE
    <3>1. <<j, i>> \in Nat \X Nat /\ <<j, i>>[1] = j /\ <<j, i>>[2] = i
      OBVIOUS
    <3>2. <<j, i>> \in R
      BY <2>1, <3>1
    <3> QED  BY <1>3, <3>2
  <2> QED  BY <2>1
<1> QED  BY <1>4 DEF Least

\* A function on the first places is a sequence of that length.
LEMMA ListIsSeq ==
  ASSUME NEW S, NEW n \in Nat, NEW f \in [1 .. n -> S]
  PROVE  f \in Seq(S) /\ Len(f) = n
<1>1. f \in Seq(S)
  BY SeqDef
<1>2. f \in [1 .. Len(f) -> S] /\ Len(f) \in Nat
  BY <1>1, LenProperties
<1> QED  BY <1>1, <1>2

\* Where the places of two sequences are found in the two put together.
LEMMA Joined ==
  ASSUME NEW S, NEW s \in Seq(S), NEW t \in Seq(S)
  PROVE  /\ s \o t \in Seq(S)
         /\ Len(s \o t) = Len(s) + Len(t)
         /\ \A i \in 1 .. Len(s) : (s \o t)[i] = s[i]
         /\ \A i \in 1 .. Len(t) : (s \o t)[Len(s) + i] = t[i]
<1>1. Len(s) \in Nat /\ Len(t) \in Nat
  BY LenProperties
<1>2. /\ s \o t \in Seq(S)
      /\ Len(s \o t) = Len(s) + Len(t)
      /\ \A i \in 1 .. Len(s) + Len(t) :
           (s \o t)[i] = IF i <= Len(s) THEN s[i] ELSE t[i - Len(s)]
  BY ConcatProperties
<1>3. ASSUME NEW i \in 1 .. Len(s)
      PROVE  (s \o t)[i] = s[i]
  <2>1. i \in 1 .. Len(s) + Len(t) /\ i <= Len(s)
    BY <1>1
  <2> QED  BY <1>2, <2>1
<1>4. ASSUME NEW i \in 1 .. Len(t)
      PROVE  (s \o t)[Len(s) + i] = t[i]
  <2>1. /\ Len(s) + i \in 1 .. Len(s) + Len(t) /\ ~(Len(s) + i <= Len(s))
        /\ (Len(s) + i) - Len(s) = i
    BY <1>1
  <2> QED  BY <1>2, <2>1
<1> QED  BY <1>2, <1>3, <1>4

\* The pair that stands for an identifier.
Pair(x) == <<IF x.num THEN 1 ELSE 2, x.val>>

\* What a word is made of, place by place.
LEMMA WordAt ==
  ASSUME NEW v \in Version
  PROVE  /\ Word(v) \in Seq((0 .. 3) \X Nat)
         /\ \A i \in 1 .. 3 : Word(v)[i] = <<1, v.core[i]>>
         /\ v.pre = <<>> => Len(Word(v)) = 4 /\ Word(v)[4] = <<3, 0>>
         /\ v.pre # <<>> =>
              /\ Len(Word(v)) = 4 + Len(v.pre)
              /\ \A i \in 1 .. Len(v.pre) : Word(v)[3 + i] = Pair(v.pre[i])
              /\ Word(v)[4 + Len(v.pre)] = <<0, 0>>
<1>1. /\ v.pre \in Seq(Ident)
      /\ \A i \in 1 .. 3 : v.core[i] \in Nat
  BY DEF Version
<1>2. PICK n \in Nat : n = Len(v.pre) /\ \A i \in 1 .. n : v.pre[i] \in Ident
  BY <1>1, LenProperties, ElementOfSeq
<1>3. \E P : P = (0 .. 3) \X Nat
  <2> WITNESS (0 .. 3) \X Nat
  <2> QED  OBVIOUS
<1>3a. PICK P : P = (0 .. 3) \X Nat
  BY <1>3
<1>4. PICK a \in [1 .. 3 -> P] : a = [i \in 1 .. 3 |-> <<1, v.core[i]>>]
  <2>1. \A i \in 1 .. 3 : <<1, v.core[i]>> \in P
    BY <1>1, <1>3a
  <2> QED  BY <2>1
<1>5. \A i \in 1 .. n : Pair(v.pre[i]) \in P
  BY <1>2, <1>3a DEF Pair, Ident
<1>6. PICK b \in [1 .. n -> P] : b = [i \in 1 .. n |-> Pair(v.pre[i])]
  BY <1>5
<1>7. <<3, 0>> \in P /\ <<0, 0>> \in P
  BY <1>3a
<1>7a. \A p \in P : <<p>> \in Seq(P) /\ Len(<<p>>) = 1 /\ <<p>>[1] = p
  OBVIOUS
<1>8. PICK absent \in Seq(P) : absent = <<<<3, 0>>>> /\ Len(absent) = 1 /\ absent[1] = <<3, 0>>
  <2>1. /\ <<<<3, 0>>>> \in Seq(P) /\ Len(<<<<3, 0>>>>) = 1
        /\ <<<<3, 0>>>>[1] = <<3, 0>>
    BY <1>7, <1>7a
  <2> QED  BY <2>1
<1>8a. PICK end \in Seq(P) : end = <<<<0, 0>>>> /\ Len(end) = 1 /\ end[1] = <<0, 0>>
  <2>1. /\ <<<<0, 0>>>> \in Seq(P) /\ Len(<<<<0, 0>>>>) = 1
        /\ <<<<0, 0>>>>[1] = <<0, 0>>
    BY <1>7, <1>7a
  <2> QED  BY <2>1
<1>9. a \in Seq(P) /\ Len(a) = 3 /\ b \in Seq(P) /\ Len(b) = n
  BY <1>2, ListIsSeq
<1>10. Word(v) = a \o (IF v.pre = <<>> THEN absent ELSE b \o end)
  BY <1>2, <1>4, <1>6, <1>7, <1>8, <1>8a DEF Word, Pair
<1>11. /\ \A i \in 1 .. 3 : a[i] = <<1, v.core[i]>>
       /\ \A i \in 1 .. n : b[i] = Pair(v.pre[i])
       /\ absent[1] = <<3, 0>> /\ end[1] = <<0, 0>>
  BY <1>4, <1>6, <1>8, <1>8a
<1>12. CASE v.pre = <<>>
  <2>1. Word(v) = a \o absent
    BY <1>10, <1>12
  <2>2. /\ a \o absent \in Seq(P)
        /\ Len(a \o absent) = Len(a) + Len(absent)
        /\ \A i \in 1 .. Len(a) : (a \o absent)[i] = a[i]
        /\ \A i \in 1 .. Len(absent) : (a \o absent)[Len(a) + i] = absent[i]
    <3>1. absent \in Seq(P)
      BY <1>8
    <3>2. a \in Seq(P)
      BY <1>9
    <3> QED  BY ONLY <3>1, <3>2, Joined
  <2>3. /\ Len(a \o absent) = 4 /\ \A i \in 1 .. 3 : (a \o absent)[i] = a[i]
        /\ (a \o absent)[4] = absent[1]
    BY <1>8, <1>9, <2>2
  <2> QED  BY <1>11, <1>3a, <1>12, <2>1, <2>2, <2>3
<1>13. CASE v.pre # <<>>
  <2>1. PICK c \in Seq(P) :
          /\ c = b \o end /\ Len(c) = n + 1
          /\ \A i \in 1 .. n : c[i] = b[i]
          /\ c[n + 1] = end[1]
    <3>1. /\ b \o end \in Seq(P)
          /\ Len(b \o end) = Len(b) + Len(end)
          /\ \A i \in 1 .. Len(b) : (b \o end)[i] = b[i]
          /\ \A i \in 1 .. Len(end) : (b \o end)[Len(b) + i] = end[i]
      BY <1>8a, <1>9, Joined
    <3>2. 1 \in 1 .. Len(end)
      BY <1>8a
    <3> WITNESS b \o end \in Seq(P)
    <3> QED  BY <1>8a, <1>9, <3>1, <3>2
  <2>2. Word(v) = a \o c
    BY <1>10, <1>13, <2>1
  <2>3. /\ a \o c \in Seq(P)
        /\ Len(a \o c) = 3 + (n + 1) /\ \A i \in 1 .. 3 : (a \o c)[i] = a[i]
        /\ \A i \in 1 .. n + 1 : (a \o c)[3 + i] = c[i]
    <3>1. /\ a \o c \in Seq(P)
          /\ Len(a \o c) = Len(a) + Len(c)
          /\ \A i \in 1 .. Len(a) : (a \o c)[i] = a[i]
          /\ \A i \in 1 .. Len(c) : (a \o c)[Len(a) + i] = c[i]
      <4>1. c \in Seq(P)
        BY <2>1
      <4>2. a \in Seq(P)
        BY <1>9
      <4> QED  BY ONLY <4>1, <4>2, Joined
    <3> QED  BY <1>9, <2>1, <3>1
  <2>4. \A i \in 1 .. n : (a \o c)[3 + i] = Pair(v.pre[i])
    <3> SUFFICES ASSUME NEW i \in 1 .. n PROVE (a \o c)[3 + i] = Pair(v.pre[i])
      OBVIOUS
    <3>1. i \in 1 .. n + 1
      BY <1>2
    <3> QED  BY <1>11, <2>1, <2>3, <3>1
  <2>5. (a \o c)[4 + n] = <<0, 0>>
    <3>1. n + 1 \in 1 .. n + 1 /\ 3 + (n + 1) = 4 + n
      BY <1>2
    <3>2. c[n + 1] = <<0, 0>>
      BY <1>11, <2>1
    <3> QED  BY <2>3, <3>1, <3>2
  <2>6. Len(a \o c) = 4 + n
    BY <1>2, <2>3
  <2> QED  BY <1>2, <1>3a, <1>11, <1>13, <2>2, <2>3, <2>4, <2>5, <2>6
<1> QED  BY <1>12, <1>13

\* A word has places for the three numbers and for at least one thing more.
LEMMA WordLength ==
  ASSUME NEW v \in Version
  PROVE  Len(Word(v)) \in Nat /\ Len(Word(v)) >= 4 /\ Len(v.pre) \in Nat
<1>1. Len(v.pre) \in Nat
  BY LenProperties DEF Version
<1> QED  BY <1>1, WordAt

\* Which of two words comes first is decided at the place where they part.
LEMMA FirstPlaceDecides ==
  ASSUME NEW a \in Version, NEW b \in Version,
         NEW k \in 1 .. Len(Word(a)), k <= Len(Word(b)),
         \A j \in 1 .. (k - 1) : Word(a)[j] = Word(b)[j],
         Word(a)[k] # Word(b)[k]
  PROVE  Precedes(a, b) <=> PairBefore(Word(a)[k], Word(b)[k])
<1>1. /\ Len(Word(a)) \in Nat
      /\ \A i \in 1 .. Len(Word(a)) : Word(a)[i] \in (0 .. 3) \X Nat
  BY WordAt, LenProperties, ElementOfSeq
<1>2. ASSUME Precedes(a, b)
      PROVE  PairBefore(Word(a)[k], Word(b)[k])
  <2>1. PICK i \in 1 .. Len(Word(a)) :
          /\ i <= Len(Word(b))
          /\ \A j \in 1 .. (i - 1) : Word(a)[j] = Word(b)[j]
          /\ PairBefore(Word(a)[i], Word(b)[i])
    BY <1>2 DEF Precedes
  <2>2. Word(a)[i] # Word(b)[i]
    BY <1>1, <2>1 DEF PairBefore
  <2>3. ~(i \in 1 .. (k - 1)) /\ ~(k \in 1 .. (i - 1))
    BY <2>1, <2>2
  <2>4. i = k
    BY <1>1, <2>3
  <2> QED  BY <2>1, <2>4
<1>3. ASSUME PairBefore(Word(a)[k], Word(b)[k])
      PROVE  Precedes(a, b)
  BY <1>3 DEF Precedes
<1> QED  BY <1>2, <1>3

\* Two versions with the same numbers and the same suffix have the same word,
\* and no word comes before itself.
LEMMA NoWordPrecedesItself ==
  ASSUME NEW a \in Version, NEW b \in Version, Word(a) = Word(b)
  PROVE  ~Precedes(a, b)
<1>1. \A i \in 1 .. Len(Word(a)) : Word(a)[i] \in (0 .. 3) \X Nat
  BY WordAt, ElementOfSeq
<1> QED  BY <1>1 DEF Precedes, PairBefore

\* Where the numbers of two versions differ, both orders look at the first one.
LEMMA NumbersFirst ==
  ASSUME NEW a \in Version, NEW b \in Version,
         \E i \in 1 .. 3 : b.core[i] # a.core[i]
  PROVE  newer(b, a) <=> Precedes(a, b)
<1> DEFINE differ == {i \in 1 .. 3 : b.core[i] # a.core[i]}
<1>1. \A i \in 1 .. 3 : a.core[i] \in Nat /\ b.core[i] \in Nat
  BY DEF Version
<1>2. PICK k \in 1 .. 3 : k = Least(differ) /\ b.core[k] # a.core[k] /\ \A j \in differ : k <= j
  <2>1. differ \in SUBSET Nat /\ differ # {}
    OBVIOUS
  <2> HIDE DEF differ
  <2>2. Least(differ) \in differ /\ \A j \in differ : Least(differ) <= j
    BY <2>1, LeastIs
  <2> QED  BY <2>2 DEF differ
<1>3. a # Unordered /\ b # Unordered
  BY <1>1 DEF Unordered
<1>4. newer(b, a) <=> b.core[k] > a.core[k]
  BY <1>2, <1>3 DEF newer, parseVersion
<1>5. \A j \in 1 .. (k - 1) : Word(a)[j] = Word(b)[j]
  <2> SUFFICES ASSUME NEW j \in 1 .. (k - 1) PROVE Word(a)[j] = Word(b)[j]
    OBVIOUS
  <2>1. j \in 1 .. 3 /\ b.core[j] = a.core[j]
    BY <1>2
  <2>2. Word(a)[j] = <<1, a.core[j]>> /\ Word(b)[j] = <<1, b.core[j]>>
    BY <2>1, WordAt
  <2> QED  BY <2>1, <2>2
<1>6. Word(a)[k] = <<1, a.core[k]>> /\ Word(b)[k] = <<1, b.core[k]>>
  BY WordAt
<1>7. k \in 1 .. Len(Word(a)) /\ k <= Len(Word(b))
  BY WordLength
<1>8. Precedes(a, b) <=> PairBefore(Word(a)[k], Word(b)[k])
  <2>1. Word(a)[k] # Word(b)[k]
    BY <1>1, <1>2, <1>6
  <2> QED  BY <1>5, <1>7, <2>1, FirstPlaceDecides
<1> QED  BY <1>1, <1>4, <1>6, <1>8 DEF PairBefore

\* Where they agree, both orders look at the suffixes.
LEMMA SuffixesDecide ==
  ASSUME NEW a \in Version, NEW b \in Version,
         \A i \in 1 .. 3 : b.core[i] = a.core[i]
  PROVE  newer(b, a) <=> Precedes(a, b)
<1>1. newer(b, a) <=> comparePre(b.pre, a.pre) > 0
  <2>1. \A i \in 1 .. 3 : a.core[i] \in Nat /\ b.core[i] \in Nat
    BY DEF Version
  <2>2. a # Unordered /\ b # Unordered
    BY <2>1 DEF Unordered
  <2>3. {i \in 1 .. 3 : b.core[i] # a.core[i]} = {}
    OBVIOUS
  <2> QED  BY <2>2, <2>3 DEF newer, parseVersion
<1>2. \A j \in 1 .. 3 : Word(a)[j] = Word(b)[j]
  BY WordAt
<1>3. /\ a.pre \in Seq(Ident) /\ b.pre \in Seq(Ident)
      /\ \A i \in 1 .. Len(a.pre) : a.pre[i] \in Ident
      /\ \A i \in 1 .. Len(b.pre) : b.pre[i] \in Ident
  BY ElementOfSeq DEF Version
<1>4. /\ Len(a.pre) \in Nat /\ Len(b.pre) \in Nat
      /\ a.pre # <<>> => Len(a.pre) >= 1
      /\ b.pre # <<>> => Len(b.pre) >= 1
  <2>1. \A s \in Seq(Ident) : s # <<>> => Len(s) \in Nat \ {0}
    BY EmptySeq
  <2> QED  BY <1>3, <2>1, WordLength
<1>5. CASE a.pre = b.pre
  <2>1. Word(a) = Word(b)
    <3>1. [i \in 1 .. 3 |-> <<1, a.core[i]>>] = [i \in 1 .. 3 |-> <<1, b.core[i]>>]
      OBVIOUS
    <3> QED  BY <1>5, <3>1 DEF Word
  <2> QED  BY <1>1, <1>5, <2>1, NoWordPrecedesItself DEF comparePre
<1>6. CASE a.pre # b.pre /\ b.pre = <<>>
  <2>1. Word(a)[3 + 1] = Pair(a.pre[1]) /\ Word(b)[4] = <<3, 0>>
    BY <1>4, <1>6, WordAt
  <2>2. PairBefore(Word(a)[4], Word(b)[4])
    BY <1>3, <1>4, <1>6, <2>1 DEF PairBefore, Pair
  <2>3. Word(a)[4] # Word(b)[4]
    BY <2>1 DEF Pair
  <2>4. Precedes(a, b)
    BY <1>2, <2>2, <2>3, FirstPlaceDecides, WordLength
  <2> QED  BY <1>1, <1>6, <2>4 DEF comparePre
<1>7. CASE a.pre = <<>> /\ b.pre # <<>>
  <2>1. Word(b)[3 + 1] = Pair(b.pre[1]) /\ Word(a)[4] = <<3, 0>>
    BY <1>4, <1>7, WordAt
  <2>2. ~PairBefore(Word(a)[4], Word(b)[4])
    BY <1>3, <1>4, <1>7, <2>1 DEF PairBefore, Pair
  <2>3. Word(a)[4] # Word(b)[4]
    BY <2>1 DEF Pair
  <2>4. ~Precedes(a, b)
    BY <1>2, <2>2, <2>3, FirstPlaceDecides, WordLength
  <2> QED  BY <1>1, <1>7, <2>4 DEF comparePre
<1>8. ASSUME a.pre # b.pre, a.pre # <<>>, b.pre # <<>>, Differ(b.pre, a.pre) = {}
      PROVE  newer(b, a) <=> Precedes(a, b)
  <2>0. /\ Len(Word(a)) = 4 + Len(a.pre) /\ Word(a)[4 + Len(a.pre)] = <<0, 0>>
        /\ Len(Word(b)) = 4 + Len(b.pre) /\ Word(b)[4 + Len(b.pre)] = <<0, 0>>
    BY <1>8, WordAt
  <2>1. newer(b, a) <=> Len(b.pre) > Len(a.pre)
    <3>1. comparePre(b.pre, a.pre) = Len(b.pre) - Len(a.pre)
      BY <1>8 DEF comparePre
    <3>2. newer(b, a) <=> Len(b.pre) - Len(a.pre) > 0
      <4>1. \A d : d = comparePre(b.pre, a.pre) => (newer(b, a) <=> d > 0)
        BY <1>1
      <4> QED  BY <3>1, <4>1, Zenon
    <3>3. Len(b.pre) - Len(a.pre) > 0 <=> Len(b.pre) > Len(a.pre)
      <4>1. \A m, n \in Nat : m - n > 0 <=> m > n
        OBVIOUS
      <4> QED  BY <1>4, <4>1, Zenon
    <3> QED  BY <3>2, <3>3
  <2>2. \A i : i \in 1 .. Len(a.pre) /\ i \in 1 .. Len(b.pre) => a.pre[i] = b.pre[i]
    BY <1>4, <1>8 DEF Differ
  <2>3. Len(a.pre) # Len(b.pre)
    BY <1>3, <1>8, <2>2, SeqEqual
  <2>4. ASSUME NEW j, j \in 1 .. 3 + Len(a.pre), j \in 1 .. 3 + Len(b.pre)
        PROVE  Word(a)[j] = Word(b)[j]
    <3>1. CASE j <= 3
      BY <1>2, <1>4, <2>4, <3>1
    <3>2. CASE j > 3
      <4>1. PICK i : i = j - 3 /\ i \in 1 .. Len(a.pre) /\ i \in 1 .. Len(b.pre) /\ j = 3 + i
        BY <1>4, <2>4, <3>2
      <4>2. Word(a)[3 + i] = Pair(a.pre[i]) /\ Word(b)[3 + i] = Pair(b.pre[i])
        BY <1>8, <4>1, WordAt
      <4> QED  BY <2>2, <4>1, <4>2
    <3> QED  BY <1>4, <2>4, <3>1, <3>2
  <2>5. CASE Len(a.pre) < Len(b.pre)
    <3>1. PICK k \in Nat : k = 4 + Len(a.pre)
      BY <1>4
    <3>2. /\ k \in 1 .. Len(Word(a)) /\ k <= Len(Word(b))
          /\ Word(a)[k] = <<0, 0>>
      BY <1>4, <2>0, <2>5, <3>1
    <3>3. PICK i \in 1 .. Len(b.pre) : k = 3 + i
      <4>1. k = 3 + (Len(a.pre) + 1) /\ Len(a.pre) + 1 \in 1 .. Len(b.pre)
        BY <1>4, <2>5, <3>1
      <4> QED  BY <4>1
    <3>4. Word(b)[k] = Pair(b.pre[i])
      BY <1>8, <3>3, WordAt
    <3>5. \A j \in 1 .. (k - 1) : Word(a)[j] = Word(b)[j]
      BY <1>4, <2>4, <2>5, <3>1
    <3>6. PairBefore(Word(a)[k], Word(b)[k]) /\ Word(a)[k] # Word(b)[k]
      BY <3>2, <3>4 DEF PairBefore, Pair
    <3> QED  BY <2>1, <2>5, <3>2, <3>5, <3>6, FirstPlaceDecides
  <2>6. CASE Len(b.pre) < Len(a.pre)
    <3>1. PICK k \in Nat : k = 4 + Len(b.pre)
      BY <1>4
    <3>2. /\ k \in 1 .. Len(Word(a)) /\ k <= Len(Word(b))
          /\ Word(b)[k] = <<0, 0>>
      BY <1>4, <2>0, <2>6, <3>1
    <3>3. PICK i \in 1 .. Len(a.pre) : k = 3 + i
      <4>1. k = 3 + (Len(b.pre) + 1) /\ Len(b.pre) + 1 \in 1 .. Len(a.pre)
        BY <1>4, <2>6, <3>1
      <4> QED  BY <4>1
    <3>4. Word(a)[k] = Pair(a.pre[i])
      BY <1>8, <3>3, WordAt
    <3>5. \A j \in 1 .. (k - 1) : Word(a)[j] = Word(b)[j]
      BY <1>4, <2>4, <2>6, <3>1
    <3>6. ~PairBefore(Word(a)[k], Word(b)[k]) /\ Word(a)[k] # Word(b)[k]
      BY <3>2, <3>4 DEF PairBefore, Pair
    <3> QED  BY <1>4, <2>1, <2>6, <3>2, <3>5, <3>6, FirstPlaceDecides
  <2> QED  BY <1>4, <2>3, <2>5, <2>6
<1>9. ASSUME a.pre # b.pre, a.pre # <<>>, b.pre # <<>>, Differ(b.pre, a.pre) # {}
      PROVE  newer(b, a) <=> Precedes(a, b)
  <2>1. PICK i : /\ i = Least(Differ(b.pre, a.pre))
                 /\ i \in 1 .. Len(a.pre) /\ i \in 1 .. Len(b.pre) /\ b.pre[i] # a.pre[i]
                 /\ \A j \in 1 .. (i - 1) : b.pre[j] = a.pre[j]
    <3>1. Differ(b.pre, a.pre) \in SUBSET Nat
      BY <1>4 DEF Differ
    <3>2. /\ Least(Differ(b.pre, a.pre)) \in Differ(b.pre, a.pre)
          /\ \A j \in Differ(b.pre, a.pre) : Least(Differ(b.pre, a.pre)) <= j
      BY <1>9, <3>1, LeastIs
    <3>3. PICK i : i = Least(Differ(b.pre, a.pre))
      OBVIOUS
    <3>4. i \in 1 .. Len(a.pre) /\ i \in 1 .. Len(b.pre) /\ b.pre[i] # a.pre[i]
      BY <1>4, <3>2, <3>3 DEF Differ
    <3>5. ASSUME NEW j \in 1 .. (i - 1), b.pre[j] # a.pre[j]
          PROVE  FALSE
      <4>1. j \in Differ(b.pre, a.pre)
        BY <1>4, <3>4, <3>5 DEF Differ
      <4>2. i <= j
        BY <3>2, <3>3, <4>1
      <4> QED  BY <1>4, <3>4, <4>2
    <3> QED  BY <3>3, <3>4, <3>5
  <2>2. newer(b, a) <=> IdentAfter(b.pre[i], a.pre[i])
    <3>1. comparePre(b.pre, a.pre) = IF IdentAfter(b.pre[i], a.pre[i]) THEN 1 ELSE -1
      BY <1>9, <2>1 DEF comparePre
    <3> QED  BY <1>1, <3>1
  <2>3. PICK k \in Nat : k = 3 + i
    BY <1>4, <2>1
  <2>4. /\ Word(a)[k] = Pair(a.pre[i]) /\ Word(b)[k] = Pair(b.pre[i])
        /\ k \in 1 .. Len(Word(a)) /\ k <= Len(Word(b))
    <3>1. /\ Len(Word(a)) = 4 + Len(a.pre) /\ Word(a)[3 + i] = Pair(a.pre[i])
          /\ Len(Word(b)) = 4 + Len(b.pre) /\ Word(b)[3 + i] = Pair(b.pre[i])
      BY <1>9, <2>1, WordAt
    <3> QED  BY <1>4, <2>1, <2>3, <3>1
  <2>5. ASSUME NEW j \in 1 .. (k - 1)
        PROVE  Word(a)[j] = Word(b)[j]
    <3>1. CASE j <= 3
      BY <1>2, <2>3, <3>1
    <3>2. CASE j > 3
      <4>1. PICK m : /\ m \in 1 .. (i - 1) /\ m \in 1 .. Len(a.pre) /\ m \in 1 .. Len(b.pre)
                     /\ j = 3 + m
        <5>1. j = 3 + (j - 3) /\ (j - 3) \in 1 .. (i - 1)
          BY <1>4, <2>1, <2>3, <3>2
        <5> QED  BY <1>4, <2>1, <5>1
      <4>2. Word(a)[3 + m] = Pair(a.pre[m]) /\ Word(b)[3 + m] = Pair(b.pre[m])
        BY <1>9, <4>1, WordAt
      <4> QED  BY <2>1, <4>1, <4>2
    <3> QED  BY <2>3, <3>1, <3>2
  <2>6. PICK x \in Ident, y \in Ident : x = a.pre[i] /\ y = b.pre[i] /\ x # y
    BY <1>3, <2>1
  <2>7. Pair(x) # Pair(y) /\ (PairBefore(Pair(x), Pair(y)) <=> IdentAfter(y, x))
    BY <2>6 DEF Ident, Pair, PairBefore, IdentAfter
  <2>8. Precedes(a, b) <=> PairBefore(Pair(x), Pair(y))
    BY <2>4, <2>5, <2>6, <2>7, FirstPlaceDecides
  <2> QED  BY <2>2, <2>6, <2>7, <2>8
<1> QED  BY <1>5, <1>6, <1>7, <1>8, <1>9

\* What newer computes is the precedence of semantic versioning, for any two
\* versions that parse and suffixes of any length (update.go:115-196).
LEMMA NewerIsPrecedes ==
  ASSUME NEW a \in Version, NEW b \in Version
  PROVE  newer(b, a) <=> Precedes(a, b)
BY NumbersFirst, SuffixesDecide

\* Of two different identifiers one sorts after the other.
LEMMA IdentsCompare ==
  \A x, y \in Ident : x # y => IdentAfter(x, y) \/ IdentAfter(y, x)
<1> SUFFICES ASSUME NEW x \in Ident, NEW y \in Ident, x # y
             PROVE  IdentAfter(x, y) \/ IdentAfter(y, x)
  OBVIOUS
<1>1. CASE x.num = y.num
  <2>1. x.val # y.val /\ x.val \in Nat /\ y.val \in Nat
    BY <1>1 DEF Ident
  <2> QED  BY <1>1, <2>1 DEF IdentAfter
<1>2. CASE x.num # y.num
  BY <1>2 DEF IdentAfter, Ident
<1> QED  BY <1>1, <1>2

\* Of two different suffixes one sorts after the other.
LEMMA SuffixesCompare ==
  ASSUME NEW a \in Seq(Ident), NEW b \in Seq(Ident), a # b
  PROVE  comparePre(a, b) > 0 \/ comparePre(b, a) > 0
<1>1. /\ Len(a) \in Nat /\ Len(b) \in Nat
      /\ \A i \in 1 .. Len(a) : a[i] \in Ident
      /\ \A i \in 1 .. Len(b) : b[i] \in Ident
  BY LenProperties, ElementOfSeq
<1>2. CASE a = <<>> \/ b = <<>>
  <2>1. comparePre(a, b) = 1 \/ comparePre(b, a) = 1
    BY <1>2 DEF comparePre
  <2> QED  BY <2>1
<1>3. Differ(a, b) = Differ(b, a)
  BY <1>1 DEF Differ
<1>4. CASE a # <<>> /\ b # <<>> /\ Differ(a, b) = {}
  <2>1. \A i : i \in 1 .. Len(a) /\ i \in 1 .. Len(b) => a[i] = b[i]
    BY <1>1, <1>4 DEF Differ
  <2>2. Len(a) # Len(b)
    BY <2>1, SeqEqual
  <2>3. comparePre(a, b) = Len(a) - Len(b) /\ comparePre(b, a) = Len(b) - Len(a)
    BY <1>3, <1>4 DEF comparePre
  <2>4. \A m, n \in Nat : m # n => m - n > 0 \/ n - m > 0
    OBVIOUS
  <2>5. Len(a) - Len(b) > 0 \/ Len(b) - Len(a) > 0
    BY <1>1, <2>2, <2>4, Zenon
  <2> QED  BY <2>3, <2>5, Zenon
<1>5. CASE a # <<>> /\ b # <<>> /\ Differ(a, b) # {}
  <2>1. PICK i : i = Least(Differ(a, b))
    OBVIOUS
  <2>2. a[i] \in Ident /\ b[i] \in Ident /\ a[i] # b[i]
    <3>1. Differ(a, b) \in SUBSET Nat
      BY <1>1 DEF Differ
    <3>2. i \in Differ(a, b)
      BY <1>5, <2>1, <3>1, LeastIs
    <3>3. i \in 1 .. Len(a) /\ i \in 1 .. Len(b) /\ a[i] # b[i]
      BY <1>1, <3>2 DEF Differ
    <3> QED  BY <1>1, <3>3
  <2>3. comparePre(a, b) = IF IdentAfter(a[i], b[i]) THEN 1 ELSE -1
    BY <1>5, <2>1 DEF comparePre
  <2>4. comparePre(b, a) = IF IdentAfter(b[i], a[i]) THEN 1 ELSE -1
    BY <1>3, <1>5, <2>1 DEF comparePre
  <2> QED  BY <2>2, <2>3, <2>4, IdentsCompare
<1> QED  BY <1>2, <1>4, <1>5

\* Of two different versions one is newer.
LEMMA VersionsCompare ==
  ASSUME NEW a \in Version, NEW b \in Version, a # b
  PROVE  newer(a, b) \/ newer(b, a)
<1>1. /\ \A i \in 1 .. 3 : a.core[i] \in Nat /\ b.core[i] \in Nat
      /\ a.pre \in Seq(Ident) /\ b.pre \in Seq(Ident)
  BY DEF Version
<1>2. a # Unordered /\ b # Unordered
  BY <1>1 DEF Unordered
<1>3. CASE \A i \in 1 .. 3 : a.core[i] = b.core[i]
  <2>1. a.pre # b.pre
    <3>1. a.core = b.core
      BY <1>3 DEF Version
    <3> QED  BY <3>1 DEF Version
  <2>2. {i \in 1 .. 3 : a.core[i] # b.core[i]} = {} /\ {i \in 1 .. 3 : b.core[i] # a.core[i]} = {}
    BY <1>3
  <2>3. (newer(a, b) <=> comparePre(a.pre, b.pre) > 0) /\ (newer(b, a) <=> comparePre(b.pre, a.pre) > 0)
    BY <1>2, <2>2 DEF newer, parseVersion
  <2> QED  BY <1>1, <2>1, <2>3, SuffixesCompare
<1>4. CASE \E i \in 1 .. 3 : a.core[i] # b.core[i]
  <2>0. PICK differ : differ = {i \in 1 .. 3 : a.core[i] # b.core[i]}
    OBVIOUS
  <2>1. /\ differ \in SUBSET Nat /\ differ # {}
        /\ differ = {i \in 1 .. 3 : a.core[i] # b.core[i]}
        /\ differ = {i \in 1 .. 3 : b.core[i] # a.core[i]}
    BY <1>4, <2>0
  <2>2. PICK k : k = Least(differ)
    OBVIOUS
  <2>3. k \in 1 .. 3 /\ a.core[k] # b.core[k]
    <3>1. k \in differ
      BY <2>1, <2>2, LeastIs
    <3> QED  BY <2>1, <3>1
  <2>4. (newer(a, b) <=> a.core[k] > b.core[k]) /\ (newer(b, a) <=> b.core[k] > a.core[k])
    BY <1>2, <2>1, <2>2 DEF newer, parseVersion
  <2> QED  BY <1>1, <2>3, <2>4
<1> QED  BY <1>3, <1>4

\* No version is newer than itself, of two different ones one is newer, and what
\* is newer than a newer version is newer: updates that never go backwards one by
\* one do not add up to one that does (update.go:115-196).
THEOREM NewerIsAnOrder ==
  /\ \A a \in Version : ~newer(a, a)
  /\ \A a, b \in Version : a # b => newer(a, b) \/ newer(b, a)
  /\ \A a, b, c \in Version : newer(c, b) /\ newer(b, a) => newer(c, a)
<1>1. ASSUME NEW a \in Version
      PROVE  ~newer(a, a)
  BY NewerIsPrecedes, NoWordPrecedesItself
<1>2. ASSUME NEW a \in Version, NEW b \in Version, NEW c \in Version,
             Precedes(a, b), Precedes(b, c)
      PROVE  Precedes(a, c)
  <2>1. \A v \in Version : \A i \in 1 .. Len(Word(v)) : Word(v)[i] \in (0 .. 3) \X Nat
    BY WordAt, ElementOfSeq
  <2>2. PICK i \in 1 .. Len(Word(a)) :
          /\ i <= Len(Word(b))
          /\ \A j \in 1 .. (i - 1) : Word(a)[j] = Word(b)[j]
          /\ PairBefore(Word(a)[i], Word(b)[i])
    BY <1>2 DEF Precedes
  <2>3. PICK k \in 1 .. Len(Word(b)) :
          /\ k <= Len(Word(c))
          /\ \A j \in 1 .. (k - 1) : Word(b)[j] = Word(c)[j]
          /\ PairBefore(Word(b)[k], Word(c)[k])
    BY <1>2 DEF Precedes
  <2>4. Len(Word(a)) \in Nat /\ Len(Word(b)) \in Nat /\ Len(Word(c)) \in Nat
    BY WordLength
  <2>5. PICK m \in 1 .. Len(Word(a)) :
          /\ m <= i /\ m <= k /\ m <= Len(Word(b)) /\ m <= Len(Word(c))
          /\ m = i \/ m = k
    BY <2>2, <2>3, <2>4
  <2>6. \A j \in 1 .. (m - 1) : Word(a)[j] = Word(c)[j]
    <3> SUFFICES ASSUME NEW j \in 1 .. (m - 1) PROVE Word(a)[j] = Word(c)[j]
      OBVIOUS
    <3>1. j \in 1 .. (i - 1) /\ j \in 1 .. (k - 1)
      BY <2>4, <2>5
    <3> QED  BY <2>2, <2>3, <3>1
  <2>7. PairBefore(Word(a)[m], Word(c)[m])
    <3>1. CASE i < k
      <4>1. m = i /\ i \in 1 .. (k - 1)
        BY <2>4, <2>5, <3>1
      <4> QED  BY <2>2, <2>3, <4>1
    <3>2. CASE k < i
      <4>1. m = k /\ k \in 1 .. (i - 1)
        BY <2>4, <2>5, <3>2
      <4> QED  BY <2>2, <2>3, <4>1
    <3>3. CASE i = k
      <4>1. m = i /\ m = k
        BY <2>5, <3>3
      <4>2. m \in 1 .. Len(Word(a)) /\ m \in 1 .. Len(Word(b)) /\ m \in 1 .. Len(Word(c))
        BY <2>4, <2>5
      <4>3. PICK x, y, z \in (0 .. 3) \X Nat :
              x = Word(a)[m] /\ y = Word(b)[m] /\ z = Word(c)[m]
        BY <2>1, <4>2
      <4>4. PairBefore(x, y) /\ PairBefore(y, z)
        BY <2>2, <2>3, <4>1, <4>3
      <4>5. PairBefore(x, z)
        BY <4>3, <4>4 DEF PairBefore
      <4> QED  BY <4>3, <4>5
    <3> QED  BY <2>4, <3>1, <3>2, <3>3
  <2> QED  BY <2>5, <2>6, <2>7 DEF Precedes
<1> QED  BY <1>1, <1>2, NewerIsPrecedes, VersionsCompare

\* What is offered as an update is exactly what semantic versioning places after
\* the version that runs; what has no place in that order, a build between tags,
\* is never offered and gets no offer (update.go:90-196).
THEOREM OffersAreByPrecedence == Spec => []OffersFollowPrecedence
<1>1. ASSUME IInv, latest # None, Up, CurrentVersion # Dev
      PROVE  UpdateAvailable(latest) <=>
               /\ CurrentVersion # Unordered /\ latest.tag # Unordered
               /\ Precedes(CurrentVersion, latest.tag)
  <2>1. CurrentVersion \in Version \cup {Unordered}
    BY <1>1, VersionsAssumption DEF IInv, TypeOK, Up, CurrentVersion
  <2>2. latest.tag \in Version \cup {Unordered}
    BY <1>1, VersionsAssumption DEF IInv, TypeOK, Release
  <2>3. UpdateAvailable(latest) <=> newer(latest.tag, CurrentVersion)
    BY <1>1 DEF UpdateAvailable
  <2>4. CASE CurrentVersion \in Version /\ latest.tag \in Version
    <3>1. Unordered \notin Version
      BY DEF Unordered, Version
    <3>2. newer(latest.tag, CurrentVersion) <=> Precedes(CurrentVersion, latest.tag)
      BY <2>4, NewerIsPrecedes
    <3> QED  BY <2>3, <2>4, <3>1, <3>2
  <2>5. CASE CurrentVersion = Unordered \/ latest.tag = Unordered
    BY <2>3, <2>5 DEF newer, parseVersion
  <2> QED  BY <2>1, <2>2, <2>4, <2>5
<1>2. IInv => OffersFollowPrecedence
  BY <1>1 DEF OffersFollowPrecedence
<1> QED  BY <1>2, Invariant, PTL

\* A version as new as v has run.
HasRun(v) == last \in Versions /\ (last = v \/ newer(last, v))

\* Once a program with a version has run, there is none without one to start.
VersionInv == last # Dev => binary.ver # Dev

\* Once a version has run, no older one ever runs again, however many updates,
\* crashes and restarts follow and whichever releases come and go: the steps of
\* NeverBackwards add up (update.go:90-127, 201-294).
THEOREM NeverOlderAgain ==
  ASSUME NEW v \in Version
  PROVE  Spec => [](HasRun(v) => []HasRun(v))
<1>1. Init => VersionInv
  BY DEF Init, VersionInv
<1>2. IInv /\ VersionInv /\ [Next]_vars => VersionInv'
  <2> SUFFICES ASSUME IInv, VersionInv, [Next]_vars PROVE VersionInv'
    OBVIOUS
  <2>1. CASE Replace
    BY <2>1, DevAssumption DEF Replace, IInv, TypeOK, JobInv, Release, VersionInv
  <2>2. CASE Start
    BY <2>2 DEF Start, VersionInv
  <2>3. CASE UNCHANGED <<binary, last>>
    BY <2>3 DEF VersionInv
  <2> QED  BY <2>1, <2>2, <2>3, OnlyReplaceAndStart DEF vars
<1>3. IInv /\ VersionInv /\ HasRun(v) /\ [Next]_vars => HasRun(v)'
  <2> SUFFICES ASSUME IInv, VersionInv, HasRun(v), [Next]_vars PROVE HasRun(v)'
    OBVIOUS
  <2>1. CASE Start
    <3>1. /\ last \in Versions /\ last # Dev /\ binary.ver \in Versions
          /\ binary.ver = last \/ newer(binary.ver, last)
      BY DevAssumption DEF IInv, TypeOK, Program, OrderInv, VersionInv, HasRun
    <3>2. binary.ver = v \/ newer(binary.ver, v)
      <4>1. CASE binary.ver = last \/ last = v
        BY <3>1, <4>1 DEF HasRun
      <4>2. CASE newer(binary.ver, last) /\ newer(last, v)
        <5>1. binary.ver \in Version /\ last \in Version
          BY <3>1, <4>2, VersionsAssumption DEF newer, parseVersion
        <5> QED  BY <4>2, <5>1, NewerIsAnOrder
      <4> QED  BY <3>1, <4>1, <4>2 DEF HasRun
    <3>3. last' = binary.ver
      BY <2>1 DEF Start
    <3> QED  BY <3>1, <3>2, <3>3 DEF HasRun
  <2>2. CASE UNCHANGED last
    BY <2>2 DEF HasRun
  <2> QED  BY <2>1, <2>2, OnlyReplaceAndStart DEF vars, Replace
<1>4. Spec => []VersionInv
  BY <1>1, <1>2, Invariant, PTL DEF Spec
<1> QED  BY <1>3, <1>4, Invariant, PTL DEF Spec
=============================================================================
