---------------------------- MODULE AnalyticsProofs ----------------------------
(***************************************************************************)
(* Proofs about Analytics: what a row computed match by match says, and    *)
(* that no match is missing from the rows, for any matches, results,       *)
(* players and interleavings of confirmations and rebuilds.                *)
(***************************************************************************)
EXTENDS Analytics, FiniteSetTheorems, SequenceTheorems, TLAPS

---------------------------------------------------------------------------
(* Sequences of matches *)

\* The positions of a sequence.
LEMMA Positions ==
  ASSUME NEW X, NEW l \in Seq(X)
  PROVE  /\ Len(l) \in Nat /\ DOMAIN l = 1..Len(l) /\ IsFiniteSet(DOMAIN l)
         /\ \A i \in 1..Len(l) : l[i] \in X
BY LenProperties, ElementOfSeq, FS_Interval, 1 \in Int

\* A match more.
LEMMA Appended ==
  ASSUME NEW l \in Seq(Match), NEW m \in Match
  PROVE  /\ Append(l, m) \in Seq(Match)
         /\ Len(Append(l, m)) = Len(l) + 1
         /\ Append(l, m)[Len(l) + 1] = m
         /\ \A i \in 1..Len(l) : Append(l, m)[i] = l[i]
BY AppendProperties, LenProperties

\* The number of entries among the matches of a set grows with the sequence.
LEMMA InAppend ==
  ASSUME NEW l \in Seq(Match), NEW m \in Match, NEW S
  PROVE  /\ In(l, S) \in Nat
         /\ In(Append(l, m), S) = IF m \in S THEN In(l, S) + 1 ELSE In(l, S)
<1> DEFINE P == {i \in DOMAIN l : l[i] \in S}
           Q == {i \in DOMAIN Append(l, m) : Append(l, m)[i] \in S}
           n == Len(l) + 1
<1>1. /\ Len(l) \in Nat /\ DOMAIN l = 1..Len(l)
      /\ DOMAIN Append(l, m) = 1..n
  BY Positions, Appended
<1>2. IsFiniteSet(P) /\ Cardinality(P) \in Nat
  BY Positions, FS_Subset, FS_CardinalityType
<1>3. n \notin P
  BY <1>1
<1>4. CASE m \in S
  <2>1. Q = P \cup {n}
    BY <1>1, <1>4, Appended
  <2>2. Cardinality(P \cup {n}) = Cardinality(P) + 1
    BY <1>2, <1>3, FS_AddElement
  <2> QED
    BY <1>2, <1>4, <2>1, <2>2 DEF In
<1>5. CASE m \notin S
  <2>1. Q = P
    BY <1>1, <1>5, Appended
  <2>2. Cardinality(Q) = Cardinality(P)
    BY <2>1
  <2>3. In(l, S) = Cardinality(P) /\ In(Append(l, m), S) = Cardinality(Q)
    BY DEF In
  <2> QED
    BY <1>2, <1>5, <2>2, <2>3
<1> QED
  BY <1>4, <1>5

LEMMA InEmpty ==
  ASSUME NEW S
  PROVE  In(<<>>, S) = 0
<1>1. {i \in DOMAIN <<>> : <<>>[i] \in S} = {}
  OBVIOUS
<1> QED
  BY <1>1, FS_EmptySet DEF In

\* It is positive when there is such an entry.
LEMMA InPositive ==
  ASSUME NEW l \in Seq(Match), NEW S
  PROVE  In(l, S) >= 1 <=> \E i \in DOMAIN l : l[i] \in S
<1> DEFINE P == {i \in DOMAIN l : l[i] \in S}
<1>1. IsFiniteSet(P) /\ Cardinality(P) \in Nat
  BY Positions, FS_Subset, FS_CardinalityType
<1>2. Cardinality(P) = 0 <=> P = {}
  BY <1>1, FS_EmptySet
<1> QED
  BY <1>1, <1>2 DEF In

\* Only the members of the set that occur matter.
LEMMA InSame ==
  ASSUME NEW l, NEW S, NEW T, \A i \in DOMAIN l : l[i] \in S <=> l[i] \in T
  PROVE  In(l, S) = In(l, T)
<1>1. {i \in DOMAIN l : l[i] \in S} = {i \in DOMAIN l : l[i] \in T}
  OBVIOUS
<1> QED
  BY <1>1 DEF In

\* How often a match is counted.
LEMMA TimesIn ==
  ASSUME NEW l, NEW m
  PROVE  Times(l, m) = In(l, {m})
<1>1. {i \in DOMAIN l : l[i] = m} = {i \in DOMAIN l : l[i] \in {m}}
  OBVIOUS
<1> QED
  BY <1>1 DEF Times, In

LEMMA TimesAppend ==
  ASSUME NEW l \in Seq(Match), NEW c \in Match, NEW m \in Match
  PROVE  /\ Times(l, m) \in Nat
         /\ Times(Append(l, c), m) = IF m = c THEN Times(l, m) + 1 ELSE Times(l, m)
         /\ Times(<<>>, m) = 0
<1>1. In(l, {m}) \in Nat /\ In(Append(l, c), {m}) = IF c \in {m} THEN In(l, {m}) + 1 ELSE In(l, {m})
  BY InAppend
<1>2. In(<<>>, {m}) = 0
  BY InEmpty
<1>3. Times(l, m) = In(l, {m}) /\ Times(Append(l, c), m) = In(Append(l, c), {m})
      /\ Times(<<>>, m) = In(<<>>, {m})
  BY TimesIn
<1> QED
  BY <1>1, <1>2, <1>3

LEMMA TimesPositive ==
  ASSUME NEW l \in Seq(Match), NEW m \in Match
  PROVE  Times(l, m) >= 1 <=> \E i \in DOMAIN l : l[i] = m
<1>1. In(l, {m}) >= 1 <=> \E i \in DOMAIN l : l[i] \in {m}
  BY InPositive
<1> QED
  BY <1>1, TimesIn

\* A sequence without repetitions has as many entries in S as S has members
\* that occur.
LEMMA InOnce ==
  ASSUME NEW l \in Seq(Match), NEW V \in SUBSET Match, NEW S \in SUBSET Match,
         NoRepeats(l), \A m \in Match : m \in V <=> \E i \in DOMAIN l : l[i] = m
  PROVE  In(l, S) = Cardinality(V \cap S)
<1> DEFINE P == {i \in DOMAIN l : l[i] \in S}
           f == [i \in P |-> l[i]]
<1>1. DOMAIN l = 1..Len(l) /\ \A i \in DOMAIN l : l[i] \in Match
  BY Positions
<1>2. f \in [P -> V \cap S]
  BY <1>1
<1>3. \A i, j \in P : f[i] = f[j] => i = j
  BY DEF NoRepeats
<1>4. \A m \in V \cap S : \E i \in P : f[i] = m
  <2> TAKE m \in V \cap S
  <2>1. PICK i \in DOMAIN l : l[i] = m
    OBVIOUS
  <2> QED
    BY <2>1
<1>5. f \in Bijection(P, V \cap S)
  BY <1>2, <1>3, <1>4, Zenon DEF Bijection, Injection, Surjection, IsInjective
<1>6. IsFiniteSet(P)
  BY Positions, FS_Subset
<1>7. Cardinality(V \cap S) = Cardinality(P)
  BY <1>5, <1>6, FS_Bijection DEF ExistsBijection
<1> QED
  BY <1>7 DEF In

---------------------------------------------------------------------------
(* The state row *)

\* The newest result goes in front, and the oldest falls out.
LEMMA Prepended ==
  ASSUME NEW w \in BOOLEAN, NEW s \in Seq(BOOLEAN), NEW n \in Nat \ {0}
  PROVE  LET r == Push(n, w, s) IN
         /\ r \in Seq(BOOLEAN)
         /\ Len(r) = Smaller(Len(s) + 1, n)
         /\ r[1] = w
         /\ \A j \in 1..Len(s) : j + 1 <= n => r[j + 1] = s[j]
<1> DEFINE r == Push(n, w, s)
           t == <<w>> \o s
           k == Smaller(Len(t), n)
<1>1. <<w>> \in Seq(BOOLEAN) /\ Len(<<w>>) = 1 /\ <<w>>[1] = w
  OBVIOUS
<1>2. Len(s) \in Nat
  BY LenProperties
<1>3. /\ t \in Seq(BOOLEAN) /\ Len(t) = Len(s) + 1
      /\ \A i \in 1..Len(s) + 1 : t[i] = IF i <= 1 THEN w ELSE s[i - 1]
  <2>1. /\ t \in Seq(BOOLEAN) /\ Len(t) = 1 + Len(s)
        /\ \A i \in 1 .. 1 + Len(s) : t[i] = IF i <= 1 THEN <<w>>[i] ELSE s[i - 1]
    BY <1>1, ConcatProperties
  <2> QED
    BY <1>1, <1>2, <2>1
<1>4. k \in Nat \ {0} /\ k <= Len(t) /\ k <= n
  BY <1>2, <1>3 DEF Smaller
<1>5. \A i \in 1..k : t[i] \in BOOLEAN
  BY <1>3, <1>4, ElementOfSeq
<1>6. /\ SubSeq(t, 1, k) \in Seq(BOOLEAN)
      /\ Len(SubSeq(t, 1, k)) = IF 1 <= k THEN k - 1 + 1 ELSE 0
      /\ \A i \in 1 .. k - 1 + 1 : SubSeq(t, 1, k)[i] = t[1 + i - 1]
  BY <1>4, <1>5, SubSeqProperties
<1>7. r = SubSeq(t, 1, k)
  BY DEF AtMost, Push
<1>8. \A i \in 1..k : r[i] = t[i]
  BY <1>4, <1>6, <1>7
<1>9. r[1] = w
  BY <1>2, <1>3, <1>4, <1>8
<1>10. \A j \in 1..Len(s) : j + 1 <= n => r[j + 1] = s[j]
  <2> SUFFICES ASSUME NEW j \in 1..Len(s), j + 1 <= n PROVE r[j + 1] = s[j]
    OBVIOUS
  <2>1. j + 1 \in 1..k /\ j + 1 \in 1 .. Len(s) + 1 /\ ~(j + 1 <= 1) /\ (j + 1) - 1 = j
    BY <1>2, <1>3 DEF Smaller
  <2> QED
    BY <1>3, <1>8, <2>1
<1>11. r \in Seq(BOOLEAN) /\ Len(r) = k
  BY <1>4, <1>6, <1>7
<1>12. k = Smaller(Len(s) + 1, n)
  BY <1>2, <1>3
<1> HIDE DEF k
<1> QED
  BY <1>9, <1>10, <1>11, <1>12

\* The number of wins among the first n bits.
LEMMA WinsNat ==
  ASSUME NEW s \in Seq(BOOLEAN), NEW n \in Nat \ {0}
  PROVE  Wins(AtMost(n, s)) \in Nat
<1> DEFINE k == Smaller(Len(s), n)
<1>1. Len(s) \in Nat /\ k \in Nat /\ k <= Len(s)
  BY LenProperties DEF Smaller
<1>2. \A i \in 1..k : s[i] \in BOOLEAN
  BY <1>1, ElementOfSeq
<1>3. SubSeq(s, 1, k) \in Seq(BOOLEAN)
  BY <1>1, <1>2, SubSeqProperties
<1>4. IsFiniteSet(DOMAIN SubSeq(s, 1, k))
  BY <1>3, Positions
<1> QED
  BY <1>4, FS_Subset, FS_CardinalityType DEF Wins, AtMost

LEMMA WindowsType ==
  ASSUME NEW p, NEW m
  PROVE  Windows(p, m) \in [WINDOWS -> Nat]
<1>1. ASSUME NEW w
      PROVE  Cardinality({n \in Match : /\ Sees(p, Applied(n)) # None
                                        /\ Day[m] - w <= Day[n] /\ Day[n] <= Day[m]}) \in Nat
  BY PlayOrder, FS_Subset, FS_CardinalityType
<1> QED
  BY <1>1 DEF Windows

\* The row after a match is a row again.
LEMMA AfterType ==
  ASSUME NEW p, NEW st \in State, NEW m \in Match, NEW e \in Event
  PROVE  After(p, st, m, e) \in State
<1> DEFINE a == After(p, st, m, e)
           q == Quality(e.old, OppAvg[m])
<1>1. /\ st.total \in Nat /\ st.wins \in Nat /\ st.close \in Nat
      /\ st.streak \in [win : BOOLEAN, len : Nat]
      /\ st.bestWin \in Nat /\ st.bestLoss \in Nat
      /\ st.recent \in Seq(BOOLEAN) /\ st.rolling \in Seq(BOOLEAN)
      /\ st.vs \in [Bucket -> [matches : Nat, wins : Nat]]
      /\ st.peak \in Int \cup {None} /\ st.log \in Seq(Match)
      /\ e.old \in Int /\ e.new \in Int
  BY DEF State, Event
<1>2. Win[m] \in BOOLEAN /\ One(Win[m]) \in Nat /\ One(Close[m]) \in Nat
  BY ResultAssumption DEF One
<1>3. Streak(st.streak, Win[m]) \in [win : BOOLEAN, len : Nat]
  BY <1>1, <1>2 DEF Streak
<1>4. Push(MAX_RECENT_FORM, Win[m], st.recent) \in Seq(BOOLEAN)
  BY <1>1, <1>2, NumberAssumption, Prepended
<1>5. Push(MAX_ROLLING_FORM, Win[m], st.rolling) \in Seq(BOOLEAN)
  BY <1>1, <1>2, NumberAssumption, Prepended
<1>6. Wins(AtMost(RECENT, Push(MAX_RECENT_FORM, Win[m], st.recent))) \in Nat
  BY <1>4, NumberAssumption, WinsNat
<1>7. q \in Bucket
  BY DEF Quality, Bucket
<1>8. [st.vs EXCEPT ![q] = [matches |-> @.matches + 1, wins |-> @.wins + One(Win[m])]]
        \in [Bucket -> [matches : Nat, wins : Nat]]
  <2>1. st.vs[q] \in [matches : Nat, wins : Nat]
    BY <1>1, <1>7
  <2>2. [matches |-> st.vs[q].matches + 1, wins |-> st.vs[q].wins + One(Win[m])]
          \in [matches : Nat, wins : Nat]
    BY <2>1, <1>2
  <2> QED
    BY <1>1, <1>7, <2>2
<1>9. Windows(p, m) \in [WINDOWS -> Nat]
  BY WindowsType
<1>10. Larger(st.peak, e.new) \in Int
  BY <1>1 DEF Larger
<1>11. Append(st.log, m) \in Seq(Match)
  BY <1>1, Appended
<1>12. /\ st.total + 1 \in Nat
       /\ st.wins + One(Win[m]) \in Nat /\ st.close + One(Close[m]) \in Nat
  BY <1>1, <1>2
<1>13. LET s == Streak(st.streak, Win[m]) IN
       /\ (IF Win[m] /\ s.len > st.bestWin THEN s.len ELSE st.bestWin) \in Nat
       /\ (IF ~Win[m] /\ s.len > st.bestLoss THEN s.len ELSE st.bestLoss) \in Nat
  BY <1>1, <1>3
<1> HIDE DEF q
<1> QED
  BY <1>1, <1>3, <1>4, <1>5, <1>6, <1>8, <1>9, <1>10, <1>11, <1>12, <1>13, Zenon
     DEF After, State, q

LEMMA EmptyType == EmptyState \in State
<1>1. <<>> \in Seq(BOOLEAN) /\ <<>> \in Seq(Match)
  BY EmptySeq
<1> QED
  BY <1>1 DEF EmptyState, State

\* What the row of the matches counted so far may be: none yet, or a row that
\* follows its log.
Base(st) == st = EmptyState \/ (st \in State /\ st.log # <<>> /\ Follows(st))

LEMMA TotalsAfter ==
  ASSUME NEW p, NEW st \in State, NEW m \in Match, event[m] \in Event,
         Totals(st), NEW a, a = After(p, st, m, event[m])
  PROVE  Totals(a)
<1> DEFINE l == st.log
           q == Quality(event[m].old, OppAvg[m])
           S(b) == {c \in Match : event[c] # None /\ Quality(event[c].old, OppAvg[c]) = b}
           T(b) == {c \in S(b) : Win[c]}
<1>1. l \in Seq(Match) /\ Len(l) \in Nat /\ a.log = Append(l, m)
  BY LenProperties DEF State, After
<1>2. Win[m] \in BOOLEAN /\ Close[m] \in BOOLEAN
  BY ResultAssumption
<1>3. a.total = Len(a.log)
  <2>1. a.total = st.total + 1
    BY DEF After
  <2> QED
    BY <1>1, <2>1, Appended DEF Totals
<1>4. a.wins = In(a.log, {c \in Match : Win[c]})
  <2>1. In(a.log, {c \in Match : Win[c]}) =
          IF m \in {c \in Match : Win[c]} THEN In(l, {c \in Match : Win[c]}) + 1
          ELSE In(l, {c \in Match : Win[c]})
    BY <1>1, InAppend
  <2>2. a.wins = st.wins + One(Win[m]) /\ st.wins = In(l, {c \in Match : Win[c]}) /\ st.wins \in Nat
    BY DEF Totals, State, After
  <2> QED
    BY <1>2, <2>1, <2>2 DEF One
<1>5. a.close = In(a.log, {c \in Match : Close[c]})
  <2>1. In(a.log, {c \in Match : Close[c]}) =
          IF m \in {c \in Match : Close[c]} THEN In(l, {c \in Match : Close[c]}) + 1
          ELSE In(l, {c \in Match : Close[c]})
    BY <1>1, InAppend
  <2>2. a.close = st.close + One(Close[m]) /\ st.close = In(l, {c \in Match : Close[c]}) /\ st.close \in Nat
    BY DEF Totals, State, After
  <2> QED
    BY <1>2, <2>1, <2>2 DEF One
<1>6. ASSUME NEW b \in Bucket
      PROVE  a.vs[b].matches = In(a.log, S(b)) /\ a.vs[b].wins = In(a.log, T(b))
  <2>1. /\ st.vs \in [Bucket -> [matches : Nat, wins : Nat]]
        /\ st.vs[b].matches = In(l, S(b)) /\ st.vs[b].wins = In(l, T(b))
    BY DEF State, Totals
  <2>2. /\ In(a.log, S(b)) = IF m \in S(b) THEN In(l, S(b)) + 1 ELSE In(l, S(b))
        /\ In(a.log, T(b)) = IF m \in T(b) THEN In(l, T(b)) + 1 ELSE In(l, T(b))
    BY <1>1, InAppend
  <2>3. (m \in S(b) <=> b = q) /\ (m \in T(b) <=> b = q /\ Win[m])
    BY NoneAssumption
  <2>4. a.vs[b] = IF b = q
                    THEN [matches |-> st.vs[b].matches + 1, wins |-> st.vs[b].wins + One(Win[m])]
                    ELSE st.vs[b]
    BY <2>1 DEF After
  <2>5. st.vs[b].matches \in Nat /\ st.vs[b].wins \in Nat
    BY <2>1
  <2> HIDE DEF q, S, T, l
  <2>6. CASE b = q
    BY <1>2, <2>1, <2>2, <2>3, <2>4, <2>5, <2>6 DEF One
  <2>7. CASE b # q
    BY <2>1, <2>2, <2>3, <2>4, <2>7
  <2> QED
    BY <2>6, <2>7
<1> QED
  BY <1>3, <1>4, <1>5, <1>6 DEF Totals

LEMMA TotalsEmpty == Totals(EmptyState)
BY InEmpty DEF Totals, EmptyState

\* The longest run after one result more, when c is how long the last one is.
LEMMA RunsAfter ==
  ASSUME NEW l \in Seq(Match), NEW m \in Match, NEW t, t = Append(l, m),
         NEW b \in BOOLEAN, NEW x, IsLargest(x, Runs(l, b)),
         NEW c \in 1..Len(l) + 1,
         \A i \in Len(l) + 2 - c .. Len(l) + 1 : Win[t[i]] = Win[m],
         c < Len(l) + 1 => Win[t[Len(l) + 1 - c]] # Win[m]
  PROVE  IsLargest(IF Win[m] = b /\ c > x THEN c ELSE x, Runs(t, b))
<1> DEFINE n == Len(l)
           y == IF Win[m] = b /\ c > x THEN c ELSE x
<1>1. /\ n \in Nat /\ Len(t) = n + 1 /\ t[n + 1] = m
      /\ \A i \in 1..n : t[i] = l[i]
  BY Appended, LenProperties
<1>2. x \in 0..n /\ \E i \in 0..n - x : \A j \in i + 1 .. i + x : Win[l[j]] = b
  BY DEF IsLargest, Runs
<1>3. x \in Runs(t, b)
  <2>1. PICK i \in 0..n - x : \A j \in i + 1 .. i + x : Win[l[j]] = b
    BY <1>2
  <2>2. i \in 0 .. Len(t) - x /\ \A j \in i + 1 .. i + x : Win[t[j]] = b
    BY <1>1, <1>2, <2>1
  <2>3. x \in 0..Len(t)
    BY <1>1, <1>2
  <2> QED
    BY <2>2, <2>3 DEF Runs
<1>4. ASSUME Win[m] = b PROVE c \in Runs(t, b)
  <2>1. /\ n + 1 - c \in 0 .. Len(t) - c /\ c \in 0..Len(t)
        /\ \A j \in (n + 1 - c) + 1 .. (n + 1 - c) + c : Win[t[j]] = b
    BY <1>1, <1>4
  <2> QED
    BY <2>1 DEF Runs
<1>5. ASSUME NEW k \in Runs(t, b) PROVE k <= y
  <2>1. k \in 0..Len(t) /\ \E i \in 0..Len(t) - k : \A j \in i + 1 .. i + k : Win[t[j]] = b
    BY <1>5 DEF Runs
  <2> PICK i \in 0..Len(t) - k : \A j \in i + 1 .. i + k : Win[t[j]] = b
    BY <2>1
  <2>2. k \in 0..n + 1 /\ i \in 0..n + 1 - k
    BY <1>1, <2>1
  <2>3. CASE i + k <= n
    <3>1. k \in 0..n /\ i \in 0..n - k /\ \A j \in i + 1 .. i + k : Win[l[j]] = b
      BY <1>1, <2>1, <2>2, <2>3
    <3>2. k \in Runs(l, b)
      BY <3>1 DEF Runs
    <3> QED
      BY <1>1, <1>2, <3>1, <3>2 DEF IsLargest
  <2>4. CASE i + k = n + 1 /\ k = 0
    BY <1>1, <1>2, <2>4
  <2>5. CASE i + k = n + 1 /\ k # 0
    <3>1. n + 1 \in i + 1 .. i + k
      BY <1>1, <2>1, <2>2, <2>5
    <3>2. Win[m] = b
      BY <1>1, <2>2, <3>1
    <3>3. k <= c
      <4> SUFFICES ASSUME c < k PROVE FALSE
        BY <1>1, <2>1
      <4>1. n + 1 - c \in i + 1 .. i + k /\ c < n + 1
        BY <1>1, <2>1, <2>2, <2>5
      <4> QED
        BY <2>2, <3>2, <4>1
    <3> QED
      BY <1>1, <1>2, <2>1, <3>2, <3>3
  <2> QED
    BY <1>1, <2>1, <2>2, <2>3, <2>4, <2>5
<1>6. y \in Runs(t, b)
  BY <1>3, <1>4
<1> QED
  BY <1>5, <1>6 DEF IsLargest

LEMMA RunsEmpty ==
  ASSUME NEW b
  PROVE  IsLargest(0, Runs(<<>>, b))
<1>1. Runs(<<>>, b) = {0}
  BY DEF Runs
<1> QED
  BY <1>1 DEF IsLargest

\* The last streak goes on or breaks.
LEMMA StreakStep ==
  ASSUME NEW l \in Seq(Match), NEW m \in Match, NEW t, t = Append(l, m),
         NEW w, NEW k \in Nat, l = <<>> => k = 0,
         l # <<>> => /\ w = Win[l[Len(l)]] /\ k \in 1..Len(l)
                     /\ \A i \in Len(l) - k + 1 .. Len(l) : Win[l[i]] = Win[l[Len(l)]]
                     /\ k < Len(l) => Win[l[Len(l) - k]] # Win[l[Len(l)]],
         NEW c, c = IF w = Win[m] /\ k > 0 THEN k + 1 ELSE 1
  PROVE  /\ c \in 1..Len(l) + 1
         /\ \A i \in Len(l) + 2 - c .. Len(l) + 1 : Win[t[i]] = Win[m]
         /\ c < Len(l) + 1 => Win[t[Len(l) + 1 - c]] # Win[m]
<1> DEFINE n == Len(l)
<1>1. /\ n \in Nat /\ Len(t) = n + 1 /\ t[n + 1] = m
      /\ \A i \in 1..n : t[i] = l[i]
  BY Appended, LenProperties
<1>2. CASE l = <<>>
  <2>1. n = 0 /\ c = 1
    BY <1>2
  <2> HIDE DEF n
  <2>2. \A i \in n + 2 - c .. n + 1 : i = n + 1
    BY <2>1
  <2> QED
    BY <1>1, <2>1, <2>2 DEF n
<1>3. CASE l # <<>> /\ w = Win[m]
  <2>1. /\ k \in 1..n /\ c = k + 1 /\ Win[l[n]] = Win[m]
        /\ \A i \in n - k + 1 .. n : Win[l[i]] = Win[m]
        /\ k < n => Win[l[n - k]] # Win[m]
    BY <1>1, <1>3
  <2>2. ASSUME NEW i \in n + 2 - c .. n + 1 PROVE Win[t[i]] = Win[m]
    <3>1. i = n + 1 \/ (i \in n - k + 1 .. n /\ i \in 1..n)
      <4>1. n \in Nat /\ k \in 1..n /\ c = k + 1 /\ i \in n + 2 - c .. n + 1
        BY <1>1, <2>1
      <4> HIDE DEF n
      <4> QED
        BY <4>1
    <3> QED
      BY <1>1, <2>1, <3>1
  <2>3. ASSUME c < n + 1 PROVE Win[t[n + 1 - c]] # Win[m]
    <3>1. k < n /\ n + 1 - c = n - k /\ n - k \in 1..n
      BY <1>1, <2>1, <2>3
    <3> QED
      BY <1>1, <2>1, <3>1
  <2>4. c \in 1..n + 1
    BY <1>1, <2>1
  <2> QED
    BY <2>2, <2>3, <2>4
<1>4. CASE l # <<>> /\ w # Win[m]
  <2>1. n \in 1..n /\ c = 1 /\ Win[l[n]] # Win[m]
    BY <1>1, <1>4
  <2>2. \A i \in n + 2 - c .. n + 1 : i = n + 1
    BY <1>1, <2>1
  <2>3. n + 1 - c = n
    BY <1>1, <2>1
  <2>4. \A i \in n + 2 - c .. n + 1 : Win[t[i]] = Win[m]
    BY <1>1, <2>2
  <2>5. Win[t[n + 1 - c]] # Win[m]
    BY <1>1, <2>1, <2>3
  <2>6. c \in 1..n + 1
    BY <1>1, <2>1
  <2> QED
    BY <2>4, <2>5, <2>6
<1> QED
  BY <1>2, <1>3, <1>4

LEMMA StreaksAfter ==
  ASSUME NEW p, NEW st, Base(st), NEW m \in Match, NEW e,
         NEW a, a = After(p, st, m, e)
  PROVE  Streaks(a)
<1>1. st \in State
  BY EmptyType DEF Base
<1>2. /\ a.log = Append(st.log, m)
      /\ a.streak.win = Win[m]
      /\ a.streak.len = IF st.streak.win = Win[m] /\ st.streak.len > 0
                          THEN st.streak.len + 1 ELSE 1
  BY DEF After, Streak
<1>3. /\ a.bestWin = IF Win[m] /\ a.streak.len > st.bestWin THEN a.streak.len ELSE st.bestWin
      /\ a.bestLoss = IF ~Win[m] /\ a.streak.len > st.bestLoss THEN a.streak.len ELSE st.bestLoss
  BY DEF After
<1>4. st.log = <<>> =>
        /\ st.streak.len = 0
        /\ IsLargest(st.bestWin, Runs(st.log, TRUE)) /\ IsLargest(st.bestLoss, Runs(st.log, FALSE))
  <2> SUFFICES ASSUME st = EmptyState
               PROVE  /\ st.streak.len = 0 /\ st.log = <<>> /\ st.bestWin = 0 /\ st.bestLoss = 0
    BY RunsEmpty DEF Base
  <2> QED
    BY DEF EmptyState
<1>5. st.log # <<>> => Streaks(st)
  <2>1. EmptyState.log = <<>>
    BY DEF EmptyState
  <2> QED
    BY <2>1 DEF Base, Follows
<1>6. st.log \in Seq(Match) /\ st.streak.len \in Nat
  BY <1>1 DEF State
<1>7. PICK l, t, w, k, c :
        /\ l = st.log /\ t = a.log /\ w = st.streak.win /\ k = st.streak.len
        /\ c = a.streak.len
  OBVIOUS
<1>8. /\ l \in Seq(Match) /\ Len(l) \in Nat /\ k \in Nat /\ (l = <<>> => k = 0)
      /\ t = Append(l, m) /\ c = IF w = Win[m] /\ k > 0 THEN k + 1 ELSE 1
      /\ Len(t) = Len(l) + 1 /\ t[Len(l) + 1] = m
  <2>1. /\ l \in Seq(Match) /\ k \in Nat /\ (l = <<>> => k = 0) /\ t = Append(l, m)
    BY <1>2, <1>4, <1>6, <1>7
  <2>2. c = IF w = Win[m] /\ k > 0 THEN k + 1 ELSE 1
    BY <1>2, <1>7
  <2>3. Len(l) \in Nat /\ Len(Append(l, m)) = Len(l) + 1 /\ Append(l, m)[Len(l) + 1] = m
    BY <2>1, LenProperties, Appended
  <2> QED
    BY <2>1, <2>2, <2>3
<1>9. l # <<>> => /\ w = Win[l[Len(l)]] /\ k \in 1..Len(l)
                  /\ \A i \in Len(l) - k + 1 .. Len(l) : Win[l[i]] = Win[l[Len(l)]]
                  /\ k < Len(l) => Win[l[Len(l) - k]] # Win[l[Len(l)]]
  BY <1>5, <1>7 DEF Streaks
<1>10. /\ c \in 1..Len(l) + 1
       /\ \A i \in Len(l) + 2 - c .. Len(l) + 1 : Win[t[i]] = Win[m]
       /\ c < Len(l) + 1 => Win[t[Len(l) + 1 - c]] # Win[m]
  BY <1>8, <1>9, StreakStep
<1>11. /\ IsLargest(st.bestWin, Runs(l, TRUE))
       /\ IsLargest(st.bestLoss, Runs(l, FALSE))
  BY <1>4, <1>5, <1>7 DEF Streaks
<1>12. /\ IsLargest(IF Win[m] = TRUE /\ c > st.bestWin THEN c ELSE st.bestWin, Runs(t, TRUE))
       /\ IsLargest(IF Win[m] = FALSE /\ c > st.bestLoss THEN c ELSE st.bestLoss, Runs(t, FALSE))
  <2>1. TRUE \in BOOLEAN /\ FALSE \in BOOLEAN
    OBVIOUS
  <2> QED
    BY <1>8, <1>10, <1>11, <2>1, RunsAfter
<1>13. IsLargest(a.bestWin, Runs(t, TRUE)) /\ IsLargest(a.bestLoss, Runs(t, FALSE))
  <2>1. Win[m] \in BOOLEAN
    BY ResultAssumption
  <2>2. CASE Win[m] = TRUE
    BY <1>3, <1>7, <1>12, <2>2
  <2>3. CASE Win[m] = FALSE
    BY <1>3, <1>7, <1>12, <2>3
  <2> QED
    BY <2>1, <2>2, <2>3
<1>14. /\ c \in 1..Len(t) /\ a.streak.win = Win[t[Len(t)]]
       /\ \A i \in Len(t) - c + 1 .. Len(t) : Win[t[i]] = Win[t[Len(t)]]
       /\ c < Len(t) => Win[t[Len(t) - c]] # Win[t[Len(t)]]
  <2>1. Len(t) - c + 1 = Len(l) + 2 - c /\ Len(t) - c = Len(l) + 1 - c
    BY <1>8, <1>10
  <2> QED
    BY <1>2, <1>8, <1>10, <2>1
<1> QED
  BY <1>7, <1>13, <1>14 DEF Streaks

\* Bits s stand for the last n results of the matches l.
Bits(s, l, n) ==
  /\ Len(s) = Smaller(Len(l), n)
  /\ \A i \in 1..Len(l) : Len(l) - i < n => s[Len(l) - i + 1] = Win[l[i]]

LEMMA BitsAfter ==
  ASSUME NEW l \in Seq(Match), NEW m \in Match, NEW t, t = Append(l, m),
         NEW n \in Nat \ {0}, NEW s \in Seq(BOOLEAN), Bits(s, l, n)
  PROVE  /\ Push(n, Win[m], s) \in Seq(BOOLEAN)
         /\ Bits(Push(n, Win[m], s), t, n)
<1>1. /\ Len(l) \in Nat /\ Len(t) = Len(l) + 1 /\ t[Len(l) + 1] = m
      /\ \A i \in 1..Len(l) : t[i] = l[i]
  BY LenProperties, Appended
<1>2. PICK w : w \in BOOLEAN /\ w = Win[m]
  BY ResultAssumption
<1>3. PICK r : /\ r = Push(n, w, s) /\ r \in Seq(BOOLEAN)
               /\ Len(r) = Smaller(Len(s) + 1, n)
               /\ r[1] = w
               /\ \A j \in 1..Len(s) : j + 1 <= n => r[j + 1] = s[j]
  <2>1. /\ Push(n, w, s) \in Seq(BOOLEAN)
        /\ Len(Push(n, w, s)) = Smaller(Len(s) + 1, n)
    BY <1>2, Prepended
  <2>2. Push(n, w, s)[1] = w
    BY <1>2, Prepended
  <2>3. \A j \in 1..Len(s) : j + 1 <= n => Push(n, w, s)[j + 1] = s[j]
    BY <1>2, Prepended
  <2> QED
    BY <2>1, <2>2, <2>3, Zenon
<1>4. PICK k : k = Len(l)
  OBVIOUS
<1>5. /\ Len(s) = Smaller(k, n)
      /\ \A i \in 1..k : k - i < n => s[k - i + 1] = Win[l[i]]
  BY <1>4 DEF Bits
<1>6. ASSUME NEW i \in 1..Len(t), Len(t) - i < n PROVE r[Len(t) - i + 1] = Win[t[i]]
  <2>1. k \in Nat /\ Len(t) = k + 1 /\ i \in 1..k + 1 /\ k + 1 - i < n
    BY <1>1, <1>4, <1>6
  <2>2. CASE i = k + 1
    <3>1. Len(t) - i + 1 = 1
      BY <2>1, <2>2
    <3> QED
      BY <1>1, <1>3, <1>2, <1>4, <2>2, <3>1
  <2>3. CASE i # k + 1
    <3>1. /\ i \in 1..k /\ k - i < n
          /\ k - i + 1 \in 1..Len(s) /\ (k - i + 1) + 1 <= n
          /\ Len(t) - i + 1 = (k - i + 1) + 1
      BY <1>5, <2>1, <2>3 DEF Smaller
    <3>2. r[(k - i + 1) + 1] = s[k - i + 1]
      BY <1>3, <1>2, <3>1
    <3>3. s[k - i + 1] = Win[l[i]] /\ t[i] = l[i]
      BY <1>1, <1>4, <1>5, <3>1
    <3> QED
      BY <3>1, <3>2, <3>3
  <2> QED
    BY <2>2, <2>3
<1>7. Len(r) = Smaller(Len(t), n)
  BY <1>1, <1>3, <1>2, <1>4, <1>5 DEF Smaller
<1> QED
  BY <1>3, <1>2, <1>6, <1>7 DEF Bits

\* The wins among the first k bits are those of the last k matches.
LEMMA RecentWins ==
  ASSUME NEW t \in Seq(Match), NEW n \in Nat \ {0}, NEW r \in Seq(BOOLEAN), Bits(r, t, n),
         NEW k \in Nat \ {0}, k <= n
  PROVE  Wins(AtMost(k, r)) = Cardinality({i \in 1..Len(t) : Len(t) - i < k /\ Win[t[i]]})
<1>1. PICK N : N = Len(t)
  OBVIOUS
<1>2. N \in Nat /\ Len(r) = Smaller(N, n)
  BY <1>1, LenProperties DEF Bits
<1> DEFINE j == Smaller(Len(r), k)
           s == AtMost(k, r)
           A == {i \in 1..N : N - i < k /\ Win[t[i]]}
           B == {i \in DOMAIN s : s[i]}
           f == [i \in A |-> N - i + 1]
<1>3. j \in Nat /\ j <= Len(r) /\ j = Smaller(N, k)
  BY <1>2 DEF Smaller
<1>4. \A i \in 1..j : r[i] \in BOOLEAN
  BY <1>2, <1>3, ElementOfSeq
<1>5. /\ s \in Seq(BOOLEAN) /\ Len(s) = j
      /\ \A i \in 1..j : s[i] = r[i]
  <2> HIDE DEF j
  <2>1. /\ SubSeq(r, 1, j) \in Seq(BOOLEAN)
        /\ Len(SubSeq(r, 1, j)) = IF 1 <= j THEN j - 1 + 1 ELSE 0
        /\ \A i \in 1 .. j - 1 + 1 : SubSeq(r, 1, j)[i] = r[1 + i - 1]
    BY <1>3, <1>4, SubSeqProperties
  <2>2. s = SubSeq(r, 1, j)
    BY DEF AtMost, j
  <2> HIDE DEF s
  <2> QED
    BY <1>3, <2>1, <2>2
<1>6. DOMAIN s = 1..j
  BY <1>5, LenProperties
<1>7. \A i \in 1..N : N - i < n => r[N - i + 1] = Win[t[i]]
  BY <1>1 DEF Bits
<1> HIDE DEF s, j
<1>8. \A i \in 1..N : N - i < k => N - i + 1 \in 1..j /\ s[N - i + 1] = Win[t[i]]
  <2> SUFFICES ASSUME NEW i \in 1..N, N - i < k
               PROVE  N - i + 1 \in 1..j /\ s[N - i + 1] = Win[t[i]]
    OBVIOUS
  <2>1. N - i + 1 \in 1..j /\ N - i < n
    BY <1>2, <1>3 DEF Smaller
  <2> QED
    BY <1>5, <1>7, <2>1
<1>9. f \in [A -> B]
  BY <1>6, <1>8
<1>10. \A x, y \in A : f[x] = f[y] => x = y
  BY <1>2
<1>11. \A y \in B : \E x \in A : f[x] = y
  <2> SUFFICES ASSUME NEW y \in B PROVE \E x \in A : f[x] = y
    OBVIOUS
  <2>1. y \in 1..j /\ s[y]
    BY <1>6
  <2>2. N - y + 1 \in 1..N /\ N - (N - y + 1) < k /\ N - (N - y + 1) + 1 = y
    BY <1>2, <1>3, <2>1 DEF Smaller
  <2>3. Win[t[N - y + 1]]
    BY <1>8, <2>1, <2>2
  <2> QED
    BY <2>2, <2>3
<1>12. f \in Bijection(A, B)
  BY <1>9, <1>10, <1>11, Zenon DEF Bijection, Injection, Surjection, IsInjective
<1>13. IsFiniteSet(A)
  <2>1. IsFiniteSet(1..N)
    BY <1>2, FS_Interval, 1 \in Int
  <2> QED
    BY <2>1, FS_Subset
<1>14. Cardinality(B) = Cardinality(A)
  BY <1>12, <1>13, FS_Bijection DEF ExistsBijection
<1> QED
  BY <1>1, <1>14 DEF Wins, s

LEMMA FormsAfter ==
  ASSUME NEW p, NEW st \in State, Forms(st), NEW m \in Match, NEW e,
         NEW a, a = After(p, st, m, e)
  PROVE  Forms(a)
<1>1. /\ a.log = Append(st.log, m)
      /\ a.recent = Push(MAX_RECENT_FORM, Win[m], st.recent)
      /\ a.rolling = Push(MAX_ROLLING_FORM, Win[m], st.rolling)
      /\ a.recentWins = Wins(AtMost(RECENT, a.recent))
  BY DEF After
<1>2. /\ st.log \in Seq(Match) /\ st.recent \in Seq(BOOLEAN) /\ st.rolling \in Seq(BOOLEAN)
  BY DEF State
<1>3. a.log \in Seq(Match)
  BY <1>1, <1>2, Appended
<1>4. /\ MAX_RECENT_FORM \in Nat \ {0} /\ MAX_ROLLING_FORM \in Nat \ {0}
      /\ RECENT \in Nat \ {0} /\ RECENT <= MAX_RECENT_FORM
  BY NumberAssumption
<1>5. Bits(st.recent, st.log, MAX_RECENT_FORM) /\ Bits(st.rolling, st.log, MAX_ROLLING_FORM)
  <2> PICK s, q, l : s = st.recent /\ q = st.rolling /\ l = st.log
    OBVIOUS
  <2>1. /\ Len(s) = Smaller(Len(l), MAX_RECENT_FORM)
        /\ Len(q) = Smaller(Len(l), MAX_ROLLING_FORM)
    BY DEF Forms
  <2>2. \A i \in 1..Len(l) : Len(l) - i < MAX_RECENT_FORM => s[Len(l) - i + 1] = Win[l[i]]
    BY DEF Forms
  <2>3. \A i \in 1..Len(l) : Len(l) - i < MAX_ROLLING_FORM => q[Len(l) - i + 1] = Win[l[i]]
    BY DEF Forms
  <2>4. Bits(s, l, MAX_RECENT_FORM)
    BY <2>1, <2>2 DEF Bits
  <2>5. Bits(q, l, MAX_ROLLING_FORM)
    BY <2>1, <2>3 DEF Bits
  <2> QED
    BY <2>4, <2>5
<1>6. a.recent \in Seq(BOOLEAN) /\ Bits(a.recent, a.log, MAX_RECENT_FORM)
  <2> PICK s, l, t : s = st.recent /\ l = st.log /\ t = a.log
    OBVIOUS
  <2>1. s \in Seq(BOOLEAN) /\ l \in Seq(Match) /\ t = Append(l, m) /\ Bits(s, l, MAX_RECENT_FORM)
    BY <1>1, <1>2, <1>5
  <2>2. /\ Push(MAX_RECENT_FORM, Win[m], s) \in Seq(BOOLEAN)
        /\ Bits(Push(MAX_RECENT_FORM, Win[m], s), t, MAX_RECENT_FORM)
    BY <1>4, <2>1, BitsAfter
  <2> QED
    BY <1>1, <2>2
<1>7. Bits(a.rolling, a.log, MAX_ROLLING_FORM)
  <2> PICK s, l, t : s = st.rolling /\ l = st.log /\ t = a.log
    OBVIOUS
  <2>1. s \in Seq(BOOLEAN) /\ l \in Seq(Match) /\ t = Append(l, m) /\ Bits(s, l, MAX_ROLLING_FORM)
    BY <1>1, <1>2, <1>5
  <2>2. Bits(Push(MAX_ROLLING_FORM, Win[m], s), t, MAX_ROLLING_FORM)
    BY <1>4, <2>1, BitsAfter
  <2> QED
    BY <1>1, <2>2
<1>8. a.recentWins =
        Cardinality({i \in 1..Len(a.log) : Len(a.log) - i < RECENT /\ Win[a.log[i]]})
  BY <1>1, <1>3, <1>4, <1>6, RecentWins
<1> QED
  BY <1>6, <1>7, <1>8 DEF Forms, Bits

LEMMA FormsEmpty == Forms(EmptyState)
<1>1. EmptyState.log = <<>> /\ EmptyState.recent = <<>> /\ EmptyState.rolling = <<>>
      /\ EmptyState.recentWins = 0
  BY DEF EmptyState
<1>2. \A i \in 1..Len(<<>>) : FALSE
  OBVIOUS
<1>3. {i \in 1..Len(<<>>) : Len(<<>>) - i < RECENT /\ Win[<<>>[i]]} = {}
  BY <1>2
<1>4. Cardinality({i \in 1..Len(<<>>) : Len(<<>>) - i < RECENT /\ Win[<<>>[i]]}) = 0
  BY <1>3, FS_EmptySet
<1>5. Len(<<>>) = 0 /\ 0 < MAX_RECENT_FORM /\ 0 < MAX_ROLLING_FORM
  BY NumberAssumption
<1> QED
  BY <1>1, <1>2, <1>4, <1>5 DEF Forms, Smaller

LEMMA LevelsAfter ==
  ASSUME NEW p, NEW st, Base(st), NEW m \in Match, NEW e \in Event, event[m] = e,
         \A i \in DOMAIN st.log : event[st.log[i]] \in Event,
         NEW a, a = After(p, st, m, e)
  PROVE  Levels(a)
<1>1. st \in State
  BY EmptyType DEF Base
<1>2. /\ a.log = Append(st.log, m) /\ a.last = m /\ a.current = e.new
      /\ a.peak = Larger(st.peak, e.new)
  BY DEF After
<1>3. PICK l, t : l = st.log /\ t = a.log
  OBVIOUS
<1>4. /\ l \in Seq(Match) /\ Len(l) \in Nat /\ DOMAIN l = 1..Len(l)
      /\ DOMAIN t = 1..Len(l) + 1 /\ Len(t) = Len(l) + 1 /\ t[Len(l) + 1] = m
      /\ \A i \in 1..Len(l) : t[i] = l[i]
  <2>1. l \in Seq(Match) /\ t = Append(l, m)
    BY <1>1, <1>2, <1>3 DEF State
  <2>2. t \in Seq(Match)
    BY <2>1, Appended
  <2> QED
    BY <2>1, <2>2, Appended, Positions
<1>5. \A i \in DOMAIN l : event[l[i]].new \in Int
  BY <1>3 DEF Event
<1>6. e.new \in Int
  BY DEF Event
<1>7. IsLargest(a.peak, {event[t[i]].new : i \in DOMAIN t})
  <2>1. {event[t[i]].new : i \in DOMAIN t} = {event[l[i]].new : i \in DOMAIN l} \cup {e.new}
    <3>1. \A i \in DOMAIN t : (i \in DOMAIN l /\ t[i] = l[i]) \/ t[i] = m
      BY <1>4
    <3>2. \A i \in DOMAIN l : i \in DOMAIN t /\ t[i] = l[i]
      BY <1>4
    <3>3. Len(l) + 1 \in DOMAIN t /\ t[Len(l) + 1] = m
      BY <1>4
    <3> QED
      BY <3>1, <3>2, <3>3
  <2>2. CASE st = EmptyState
    <3>1. st.peak = None /\ l = <<>>
      BY <1>3, <2>2 DEF EmptyState
    <3>2. {event[l[i]].new : i \in DOMAIN l} = {} /\ a.peak = e.new
      BY <1>2, <3>1 DEF Larger
    <3>3. PICK Y : Y = {event[t[i]].new : i \in DOMAIN t}
      OBVIOUS
    <3>4. Y = {e.new}
      BY <2>1, <3>2, <3>3
    <3>5. IsLargest(e.new, Y)
      BY <1>6, <3>4 DEF IsLargest
    <3> QED
      BY <3>2, <3>3, <3>5
  <2>3. CASE st.log # <<>> /\ Follows(st)
    <3>1. IsLargest(st.peak, {event[l[i]].new : i \in DOMAIN l})
      BY <1>3, <2>3 DEF Follows, Levels
    <3>2. /\ \A y \in {event[l[i]].new : i \in DOMAIN l} : y \in Int /\ y <= st.peak
          /\ st.peak \in {event[l[i]].new : i \in DOMAIN l}
      BY <1>5, <3>1 DEF IsLargest
    <3>3. st.peak \in Int /\ st.peak # None
      BY <3>2, NoneAssumption
    <3>4. a.peak = IF st.peak < e.new THEN e.new ELSE st.peak
      BY <1>2, <3>3 DEF Larger
    <3>5. PICK X, Y, x, y : /\ X = {event[l[i]].new : i \in DOMAIN l}
                           /\ Y = {event[t[i]].new : i \in DOMAIN t}
                           /\ x = st.peak /\ y = a.peak
      OBVIOUS
    <3>6. /\ Y = X \cup {e.new} /\ x \in X /\ x \in Int
          /\ \A z \in X : z \in Int /\ z <= x
          /\ y = IF x < e.new THEN e.new ELSE x
      BY <2>1, <3>2, <3>3, <3>4, <3>5
    <3>7. y \in Y /\ \A z \in Y : z <= y
      <4>1. y \in Int /\ x <= y /\ e.new <= y /\ y \in {x, e.new}
        BY <1>6, <3>6
      <4>2. \A z \in X : z <= y
        BY <3>6, <4>1
      <4> QED
        BY <3>6, <4>1, <4>2
    <3>8. IsLargest(y, Y)
      BY <3>7 DEF IsLargest
    <3> QED
      BY <3>5, <3>8
  <2> QED
    BY <2>2, <2>3 DEF Base
<1>8. a.last = t[Len(t)] /\ a.current = event[a.last].new
  BY <1>2, <1>4
<1> QED
  BY <1>3, <1>7, <1>8 DEF Levels

\* A match more, and the row still follows its log.
LEMMA BaseAfter ==
  ASSUME NEW p, NEW st, Base(st), NEW m \in Match, event[m] \in Event,
         \A i \in DOMAIN st.log : event[st.log[i]] \in Event,
         NEW a, a = After(p, st, m, event[m])
  PROVE  a \in State /\ Follows(a)
<1>1. st \in State
  BY EmptyType DEF Base
<1>2. Totals(st) /\ Forms(st)
  BY TotalsEmpty, FormsEmpty DEF Base, Follows
<1>3. a \in State
  BY <1>1, AfterType
<1>4. Totals(a)
  BY <1>1, <1>2, TotalsAfter
<1>5. Streaks(a)
  BY StreaksAfter
<1>6. Forms(a)
  BY <1>1, <1>2, FormsAfter
<1>7. Levels(a)
  BY LevelsAfter
<1> QED
  BY <1>3, <1>4, <1>5, <1>6, <1>7 DEF Follows

---------------------------------------------------------------------------
(* Keys and rows *)

LEMMA Keys ==
  /\ StateKey \in Key /\ StateKey \notin AppliedKey /\ StateKey \notin PairKey
  /\ AppliedKey \subseteq Key
  /\ \A n \in Match : Applied(n) \in AppliedKey /\ Applied(n) \notin PairKey
  /\ \A k \in AppliedKey : \E n \in Match : k = Applied(n)
  /\ \A m, n : Applied(m) = Applied(n) => m = n
  /\ PairKey \subseteq Key \ AppliedKey
  /\ Key \ AppliedKey = {StateKey} \cup PairKey
BY DEF Key, StateKey, AppliedKey, Applied, PairKey

LEMMA RowKeys ==
  ASSUME NEW m \in Match
  PROVE  /\ StateKey \in RowsOf(m) /\ RowsOf(m) \subseteq Key \ AppliedKey
         /\ <<"partner", Mate[m]>> \in PairKey
         /\ \A r \in Rivals[m] : <<"rival", r>> \in PairKey /\ <<"rival", r>> \in RowsOf(m)
<1>1. Mate[m] \in Player /\ Rivals[m] \subseteq Player
  BY ResultAssumption
<1>2. <<"partner", Mate[m]>> \in PairKey /\ {"rival"} \X Rivals[m] \subseteq PairKey
  BY <1>1 DEF PairKey
<1> QED
  BY <1>2, Keys DEF RowsOf

LEMMA RowTypes ==
  /\ \A n \in Match : Row(Applied(n)) = {TRUE}
  /\ Row(StateKey) = State
  /\ \A k \in PairKey : Row(k) = Seq(Match)
<1>1. \A n \in Match : Applied(n) \in AppliedKey
  BY Keys
<1>2. StateKey \notin AppliedKey
  BY Keys
<1>3. \A k \in PairKey : k \notin AppliedKey /\ k # StateKey
  BY Keys
<1> QED
  BY <1>1, <1>2, <1>3, Zenon DEF Row

\* The matches a row counts.
LEMMA CountedType ==
  ASSUME NEW k \in Key \ AppliedKey, NEW v \in Row(k) \cup {None}
  PROVE  CountedIn(k, v) \in Seq(Match)
<1>0. <<>> \in Seq(Match)
  BY EmptySeq
<1>1. CASE k = StateKey
  BY <1>0, <1>1, RowTypes DEF CountedIn, State
<1>2. CASE k \in PairKey
  <2>1. k # StateKey
    BY <1>2, Keys
  <2> QED
    BY <1>0, <1>2, <2>1, RowTypes DEF CountedIn
<1> QED
  BY <1>1, <1>2, Keys

LEMMA CountedNone ==
  ASSUME NEW k, NEW m \in Match
  PROVE  CountedIn(k, None) = <<>> /\ Times(CountedIn(k, None), m) = 0
<1>1. <<>> \in Seq(Match)
  BY EmptySeq
<1> QED
  BY <1>1, TimesAppend DEF CountedIn

\* A number of times that is not positive is none.
LEMMA TimesNat ==
  ASSUME NEW k \in Key \ AppliedKey, NEW v \in Row(k) \cup {None}, NEW m \in Match
  PROVE  Times(CountedIn(k, v), m) \in Nat
BY CountedType, TimesAppend

LEMMA SeesType ==
  ASSUME TypeOK, NEW p, NEW k \in Key
  PROVE  Sees(p, k) \in Row(k) \cup {None}
BY DEF TypeOK, Sees

\* The rows a transaction has written are among the rows of its match.
LEMMA WrittenRows ==
  ASSUME NEW p \in Proc, TypeOK, ProcOK(p)
  PROVE  /\ Written(p) # {} => cur[p] \in Match /\ Written(p) \subseteq RowsOf(cur[p])
         /\ Written(p) # {} => pc[p] \in {"partner", "rivals"}
         /\ pc[p] = "rivals" /\ rest[p] = {} /\ cur[p] # None => Written(p) = RowsOf(cur[p])
         /\ pc[p] \notin {"partner", "rivals"} => Written(p) = {}
<1>1. cur[p] \in Match \cup {None}
  BY DEF TypeOK
<1>2. {"rival"} \X {} = {}
  OBVIOUS
<1> QED
  BY <1>1, <1>2, RowKeys DEF Written, ProcOK

\* The row a statement of p comes to.
LEMMA NextRow ==
  ASSUME NEW p \in Proc, TypeOK, ProcOK(p), NEW k,
         \/ pc[p] = "state" /\ k = StateKey
         \/ pc[p] = "partner" /\ k = <<"partner", Mate[cur[p]]>>
         \/ \E r \in rest[p] : k = <<"rival", r>>
  PROVE  /\ cur[p] \in Match /\ pc[p] \in {"state", "partner", "rivals"}
         /\ k \in RowsOf(cur[p]) \ Written(p)
         /\ pc[p] # "state" => k \in PairKey
<1>1. cur[p] \in Match /\ pc[p] \in {"state", "partner", "rivals"}
  BY DEF TypeOK, ProcOK
<1>2. CASE pc[p] = "state" /\ k = StateKey
  BY <1>1, <1>2 DEF Written, RowsOf
<1>3. CASE pc[p] = "partner" /\ k = <<"partner", Mate[cur[p]]>>
  BY <1>1, <1>3, RowKeys DEF Written, RowsOf, StateKey
<1>4. CASE \E r \in rest[p] : k = <<"rival", r>>
  <2> PICK r \in rest[p] : k = <<"rival", r>>
    BY <1>4
  <2>1. pc[p] = "rivals" /\ r \in Rivals[cur[p]]
    BY DEF ProcOK
  <2> QED
    BY <1>1, <2>1, RowKeys DEF Written
<1> QED
  BY <1>2, <1>3, <1>4

---------------------------------------------------------------------------
(* What a step leaves alone *)

LEMMA Same ==
  /\ \A m \in Match : RowsOf(m)' = RowsOf(m) /\ Applied(m)' = Applied(m)
  /\ StateKey' = StateKey /\ Key' = Key /\ AppliedKey' = AppliedKey
BY DEF RowsOf, StateKey, Applied, Key, AppliedKey, PairKey

LEMMA CountedKept ==
  ASSUME EveryMatchCounted, UNCHANGED <<verified, table, raced>>
  PROVE  EveryMatchCounted'
BY DEF EveryMatchCounted, RowsOf, StateKey, CountedIn, Times

\* The rebuild's view of the rows.
LEMMA ReplayKept ==
  ASSUME ReplayOK, UNCHANGED <<verified, queue, beside, cur>>,
         pc'["rebuild"] \notin {"idle", "delete"} => pc["rebuild"] \notin {"idle", "delete"},
         Written("rebuild")' = Written("rebuild"),
         \A k \in Key \ AppliedKey : Sees("rebuild", k)' = Sees("rebuild", k)
  PROVE  ReplayOK'
<1> SUFFICES ASSUME pc'["rebuild"] \notin {"idle", "delete"}, NEW m \in Match, NEW k \in RowsOf(m)
             PROVE  LET n == Times(CountedIn(k, Sees("rebuild", k)'), m) IN
                    /\ m \notin verified => n = 0
                    /\ m \in verified /\ ~Pending(m, k)' => n >= 1
                    /\ m \notin beside => n <= IF Pending(m, k)' THEN 0 ELSE 1
  BY Same, Zenon DEF ReplayOK, CountedIn, Times, StateKey
<1>1. Sees("rebuild", k)' = Sees("rebuild", k)
  BY RowKeys
<1>2. Pending(m, k)' <=> Pending(m, k)
  BY Zenon DEF Pending
<1>3. LET n == Times(CountedIn(k, Sees("rebuild", k)), m) IN
      /\ m \notin verified => n = 0
      /\ m \in verified /\ ~Pending(m, k) => n >= 1
      /\ m \notin beside => n <= IF Pending(m, k) THEN 0 ELSE 1
  BY Zenon DEF ReplayOK
<1> QED
  BY <1>1, <1>2, <1>3

\* What a row says of the matches it counts depends on their rating events only.
LEMMA FollowsKept ==
  ASSUME NEW st \in State, Follows(st),
         \A i \in DOMAIN st.log : event'[st.log[i]] = event[st.log[i]]
  PROVE  Follows(st)'
<1>1. PICK l : l = st.log
  OBVIOUS
<1>2. l \in Seq(Match) /\ Len(l) \in Nat /\ DOMAIN l = 1..Len(l) /\ \A i \in DOMAIN l : l[i] \in Match
  BY <1>1, Positions DEF State
<1>3. \A i \in DOMAIN l : event'[l[i]] = event[l[i]]
  BY <1>1
<1>4. Totals(st)'
  <2> DEFINE S(b) == {m \in Match : event[m] # None /\ Quality(event[m].old, OppAvg[m]) = b}
             T(b) == {m \in Match : event'[m] # None /\ Quality(event'[m].old, OppAvg[m]) = b}
  <2>1. \A b \in Bucket : st.vs[b].matches = In(l, S(b)) /\ st.vs[b].wins = In(l, {m \in S(b) : Win[m]})
    BY <1>1 DEF Follows, Totals
  <2>2. /\ st.total = Len(l)
        /\ st.wins = In(l, {m \in Match : Win[m]})
        /\ st.close = In(l, {m \in Match : Close[m]})
    BY <1>1 DEF Follows, Totals
  <2>3. ASSUME NEW b \in Bucket
        PROVE  /\ In(l, S(b)) = In(l, T(b))
               /\ In(l, {m \in S(b) : Win[m]}) = In(l, {m \in T(b) : Win[m]})
    <3>1. \A i \in DOMAIN l : l[i] \in S(b) <=> l[i] \in T(b)
      BY <1>2, <1>3
    <3>2. \A i \in DOMAIN l : l[i] \in {m \in S(b) : Win[m]} <=> l[i] \in {m \in T(b) : Win[m]}
      BY <3>1
    <3> HIDE DEF S, T
    <3> QED
      BY <3>1, <3>2, InSame
  <2>4. \A b \in Bucket : st.vs[b].matches = In(l, T(b)) /\ st.vs[b].wins = In(l, {m \in T(b) : Win[m]})
    BY <2>1, <2>3, Zenon
  <2>5. \A b \in Bucket : st.vs[b].matches = In(st.log, T(b)) /\ st.vs[b].wins = In(st.log, {m \in T(b) : Win[m]})
    BY <1>1, <2>4
  <2>6. /\ st.total = Len(st.log)
        /\ st.wins = In(st.log, {m \in Match : Win[m]})
        /\ st.close = In(st.log, {m \in Match : Close[m]})
    BY <1>1, <2>2
  <2> QED
    BY <2>5, <2>6, Zenon DEF Totals, In, Bucket, Quality
<1>5. Levels(st)'
  <2>1. st.last = l[Len(l)] /\ st.current = event[st.last].new
        /\ IsLargest(st.peak, {event[l[i]].new : i \in DOMAIN l})
    BY <1>1 DEF Follows, Levels
  <2>2. st.peak \in {event[l[i]].new : i \in DOMAIN l}
    BY <2>1 DEF IsLargest
  <2>3. Len(l) \in DOMAIN l
    BY <1>2, <2>2
  <2>4. {event'[l[i]].new : i \in DOMAIN l} = {event[l[i]].new : i \in DOMAIN l}
    BY <1>3
  <2>5. event'[st.last] = event[st.last]
    BY <1>3, <2>1, <2>3
  <2> QED
    BY <1>1, <2>1, <2>4, <2>5, Zenon DEF Levels, IsLargest
<1>6. Streaks(st)' /\ Forms(st)'
  <2>1. Streaks(st) /\ Forms(st)
    BY DEF Follows
  <2> QED
    BY <2>1, Zenon DEF Streaks, Forms, IsLargest, Runs, Smaller
<1> QED
  BY <1>4, <1>5, <1>6 DEF Follows

LEMMA ActivityKept ==
  ASSUME NEW st, Activity(st)
  PROVE  Activity(st)'
BY DEF Activity, In

\* The entries of the state row are verified matches.
LEMMA LogVerified ==
  ASSUME TypeOK, EveryMatchCounted, table[StateKey] # None
  PROVE  /\ table[StateKey] \in State
         /\ \A i \in DOMAIN table[StateKey].log : table[StateKey].log[i] \in verified
<1> PICK l : l = table[StateKey].log
  OBVIOUS
<1>1. table[StateKey] \in State /\ l \in Seq(Match) /\ \A i \in DOMAIN l : l[i] \in Match
  <2>1. table[StateKey] \in State
    BY Keys, RowTypes DEF TypeOK
  <2>2. l \in Seq(Match)
    BY <2>1 DEF State
  <2> QED
    BY <2>1, <2>2, Positions
<1>2. ASSUME NEW i \in DOMAIN l PROVE l[i] \in verified
  <2>1. Times(l, l[i]) >= 1
    BY <1>1, TimesPositive
  <2>2. CountedIn(StateKey, table[StateKey]) = l
    BY DEF CountedIn
  <2> QED
    BY <1>1, <2>1, <2>2, RowKeys DEF EveryMatchCounted
<1> QED
  BY <1>1, <1>2

LEMMA LogKept ==
  ASSUME TypeOK, EveryMatchCounted, StateFollowsLog, UNCHANGED table,
         \A n \in verified : event'[n] = event[n]
  PROVE  StateFollowsLog'
<1> SUFFICES ASSUME table[StateKey] # None
             PROVE  /\ Follows(table[StateKey])'
                    /\ NoRepeats(table[StateKey].log) => Activity(table[StateKey])'
  BY Same DEF StateFollowsLog, NoRepeats
<1> PICK st : st = table[StateKey]
  OBVIOUS
<1>1. st = table'[StateKey]
  OBVIOUS
<1>2. st \in State /\ \A i \in DOMAIN st.log : event'[st.log[i]] = event[st.log[i]]
  BY LogVerified
<1>3. Follows(st) /\ (NoRepeats(st.log) => Activity(st))
  BY DEF StateFollowsLog
<1>4. Follows(st)' /\ (NoRepeats(st.log) => Activity(st)')
  BY <1>2, <1>3, FollowsKept, ActivityKept
<1> QED
  BY <1>1, <1>4, Same

\* So are those of a state row that a rebuild has written.
LEMMA DraftVerified ==
  ASSUME IInv, holder[StateKey] = "rebuild", draft[StateKey] # None
  PROVE  /\ draft[StateKey] \in State
         /\ \A i \in DOMAIN draft[StateKey].log : draft[StateKey].log[i] \in verified
<1> PICK l : l = draft[StateKey].log
  OBVIOUS
<1>0. TypeOK /\ ProcOK("rebuild") /\ DeleteOK /\ ReplayOK
  BY DEF IInv, Proc
<1>1. draft[StateKey] \in State /\ l \in Seq(Match) /\ \A i \in DOMAIN l : l[i] \in Match
  <2>1. draft[StateKey] \in State
    BY <1>0, Keys, RowTypes DEF TypeOK
  <2>2. l \in Seq(Match)
    BY <2>1 DEF State
  <2> QED
    BY <2>1, <2>2, Positions
<1>2. pc["rebuild"] \notin {"idle", "delete"}
  BY <1>0, Keys DEF ProcOK, DeleteOK
<1>3. ASSUME NEW i \in DOMAIN l PROVE l[i] \in verified
  <2>1. Times(l, l[i]) >= 1 /\ Times(l, l[i]) # 0
    BY <1>1, TimesPositive, TimesAppend
  <2>2. CountedIn(StateKey, Sees("rebuild", StateKey)) = l
    BY DEF CountedIn, Sees
  <2> QED
    BY <1>0, <1>1, <1>2, <2>1, <2>2, RowKeys DEF ReplayOK
<1> QED
  BY <1>1, <1>3

LEMMA DraftKept ==
  ASSUME IInv, holder'[StateKey] \in {holder[StateKey], None},
         holder'[StateKey] # None => draft'[StateKey] = draft[StateKey],
         \/ UNCHANGED event
         \/ holder'[StateKey] # "confirm" /\ \A n \in verified : event'[n] = event[n],
         holder'[StateKey] = "rebuild" /\ queue' = {} /\ pc'["rebuild"] \in {"partner", "rivals"} =>
           queue = {} /\ pc["rebuild"] \in {"partner", "rivals"}
  PROVE  DraftOK'
<1> SUFFICES ASSUME holder'[StateKey] # None, draft'[StateKey] # None
             PROVE  /\ Follows(draft[StateKey])'
                    /\ NoRepeats(draft'[StateKey].log)
                       /\ (holder'[StateKey] = "rebuild" =>
                             queue' = {} /\ pc'["rebuild"] \in {"partner", "rivals"})
                       => Activity(draft[StateKey])'
  BY Same, Zenon DEF DraftOK, NoRepeats
<1> PICK st : st = draft[StateKey]
  OBVIOUS
<1>0. TypeOK /\ DraftOK
  BY DEF IInv
<1>1. st = draft'[StateKey] /\ st # None /\ holder[StateKey] # None /\ holder'[StateKey] = holder[StateKey]
  OBVIOUS
<1>2. st \in State
  BY <1>0, <1>1, Keys, RowTypes DEF TypeOK
<1>3. \A i \in DOMAIN st.log : event'[st.log[i]] = event[st.log[i]]
  <2>1. CASE UNCHANGED event
    BY <2>1
  <2>2. CASE holder'[StateKey] # "confirm" /\ \A n \in verified : event'[n] = event[n]
    <3>1. holder[StateKey] = "rebuild"
      BY <1>0, <1>1, <2>2, Keys DEF TypeOK, Proc
    <3> QED
      BY <1>1, <2>2, <3>1, DraftVerified
  <2> QED
    BY <2>1, <2>2
<1>4. /\ Follows(st)
      /\ NoRepeats(st.log) /\ (holder[StateKey] = "rebuild" =>
           queue = {} /\ pc["rebuild"] \in {"partner", "rivals"}) => Activity(st)
  BY <1>0, <1>1 DEF DraftOK
<1>5. Follows(st)' /\ (Activity(st) => Activity(st)')
  BY <1>2, <1>3, <1>4, FollowsKept, ActivityKept
<1> QED
  BY <1>1, <1>4, <1>5, Same

---------------------------------------------------------------------------
(* One lemma per action *)

\* What a write changes.
LEMMA Writes ==
  ASSUME TypeOK, NEW p \in Proc, NEW k \in Key, NEW v \in Row(k) \cup {None}, Write(p, k, v)
  PROVE  /\ holder[k] \in {None, p}
         /\ holder' \in [Key -> Proc \cup {None}] /\ draft' = [i \in Key |-> draft'[i]]
         /\ \A i \in Key : draft'[i] \in Row(i) \cup {None}
         /\ holder'[k] = p /\ draft'[k] = v
         /\ \A i \in Key : i # k => holder'[i] = holder[i] /\ draft'[i] = draft[i]
<1>1. /\ holder \in [Key -> Proc \cup {None}] /\ draft = [i \in Key |-> draft[i]]
      /\ \A i \in Key : draft[i] \in Row(i) \cup {None}
  BY DEF TypeOK
<1>2. /\ holder[k] \in {None, p}
      /\ holder' = [holder EXCEPT ![k] = p] /\ draft' = [draft EXCEPT ![k] = v]
  BY DEF Write, MayWrite
<1>3. /\ holder' \in [Key -> Proc \cup {None}] /\ draft' = [i \in Key |-> draft'[i]]
      /\ holder'[k] = p /\ draft'[k] = v
      /\ \A i \in Key : i # k => holder'[i] = holder[i] /\ draft'[i] = draft[i]
  BY <1>1, <1>2
<1> QED
  BY <1>1, <1>2, <1>3

LEMMA ProcNames ==
  /\ Proc = {"confirm", "rebuild"} /\ "confirm" # "rebuild"
  /\ None \notin Proc /\ None \notin Match
BY NoneAssumption DEF Proc

LEMMA Inserts ==
  ASSUME IInv, NEW p \in Proc, InsertApplied(p)
  PROVE  IInv'
<1> DEFINE m == cur[p]
<1>1. TypeOK /\ ProcOK("confirm") /\ ProcOK("rebuild")
  BY ProcNames DEF IInv
<1>2. m \in Match /\ pc[p] = "applied" /\ rest[p] = {}
  BY <1>1, ProcNames DEF TypeOK, ProcOK, InsertApplied
<1>3. PICK k : k = Applied(m)
  OBVIOUS
<1>4. /\ k \in AppliedKey /\ k \in Key /\ Row(k) = {TRUE}
      /\ \A n \in Match : Applied(n) = k => n = m
  BY <1>2, <1>3, Keys, RowTypes
<1>5. /\ UNCHANGED <<verified, event, table, cur, rest, phase, todo, queue, beside, raced>>
      /\ IF Sees(p, k) = None THEN Write(p, k, TRUE) ELSE MayWrite(p, k) /\ UNCHANGED <<holder, draft>>
      /\ pc' = [pc EXCEPT ![p] = IF p = "confirm" /\ Sees(p, k) # None THEN "rivals" ELSE "state"]
  BY <1>3 DEF InsertApplied, dbVars, rbVars, hist, rowVars
\* A confirmation finds no row; a rebuild may find one.
<1>6. ASSUME p = "confirm" PROVE m \notin verified /\ holder[k] = None /\ Sees(p, k) = None
  <2>1. m \notin verified /\ holder[k] # "confirm"
    BY <1>2, <1>3, <1>6 DEF IInv, ConfirmOK
  <2>2. table[k] = None /\ holder[k] # "rebuild"
    BY <1>2, <1>3, <2>1 DEF IInv, AppliedOK
  <2>3. holder[k] \in Proc \cup {None}
    BY <1>1, <1>4 DEF TypeOK
  <2> QED
    BY <1>6, <2>1, <2>2, <2>3, ProcNames DEF Sees
<1>7. ASSUME p = "rebuild" PROVE m \in verified /\ m \notin queue
  BY <1>2, <1>7, ProcNames DEF IInv, RebuildOK
<1>8. /\ holder[k] \in {None, p}
      /\ holder' \in [Key -> Proc \cup {None}] /\ draft' = [i \in Key |-> draft'[i]]
      /\ \A i \in Key : draft'[i] \in Row(i) \cup {None}
      /\ \A i \in Key : i # k => holder'[i] = holder[i] /\ draft'[i] = draft[i]
      /\ \/ holder'[k] = p /\ draft'[k] = TRUE
         \/ p = "rebuild" /\ UNCHANGED <<holder, draft>> /\ Sees(p, k) # None
  <2>1. CASE Sees(p, k) = None
    <3>0. PICK v : v = TRUE
      OBVIOUS
    <3>1. Write(p, k, v) /\ v \in Row(k) \cup {None}
      BY <1>4, <1>5, <2>1, <3>0
    <3>2. /\ holder[k] \in {None, p}
          /\ holder' \in [Key -> Proc \cup {None}] /\ draft' = [i \in Key |-> draft'[i]]
          /\ \A i \in Key : draft'[i] \in Row(i) \cup {None}
          /\ holder'[k] = p /\ draft'[k] = v
          /\ \A i \in Key : i # k => holder'[i] = holder[i] /\ draft'[i] = draft[i]
      BY <1>1, <1>4, <3>1, Writes
    <3> QED
      BY <3>0, <3>2, Zenon
  <2>2. CASE Sees(p, k) # None
    <3>1. p = "rebuild"
      BY <1>6, <2>2, ProcNames
    <3>2. holder[k] \in {None, p} /\ UNCHANGED <<holder, draft>>
      BY <1>5, <2>2 DEF MayWrite
    <3> QED
      BY <1>1, <2>2, <3>1, <3>2 DEF TypeOK
  <2> QED
    BY <2>1, <2>2
<1>9. pc' = [pc EXCEPT ![p] = "state"]
  BY <1>5, <1>6
<1>10. /\ pc \in [Proc -> PC] /\ pc'[p] = "state"
       /\ \A q \in Proc : q # p => pc'[q] = pc[q]
       /\ pc' \in [Proc -> PC]
  BY <1>1, <1>9 DEF TypeOK, PC
<1>11. \A i \in Key \ AppliedKey : holder'[i] = holder[i] /\ draft'[i] = draft[i]
  BY <1>4, <1>8
<1>12. \A q \in Proc : Written(q)' = Written(q)
  <2>1. \A i : RowsOf(i)' = RowsOf(i)
    BY DEF RowsOf, StateKey
  <2> QED
    BY <1>2, <1>5, <1>10, <2>1, Zenon DEF Written
<1> HIDE DEF m
<1>13. TypeOK'
  BY <1>1, <1>5, <1>8, <1>10 DEF TypeOK
<1>14. \A q \in Proc : ProcOK(q)'
  <2> SUFFICES ASSUME NEW q \in Proc PROVE ProcOK(q)'
    OBVIOUS
  <2>1. ProcOK(q)
    BY DEF IInv
  <2>2. CASE q = p
    BY <1>2, <1>5, <1>10, <2>2, ProcNames DEF ProcOK, m
  <2>3. CASE q # p
    <3>1. pc[q] = "idle" => \A i \in Key : holder'[i] # q
      <4>1. \A i \in Key : holder'[i] = holder[i] \/ holder'[i] = p
        BY <1>8
      <4> QED
        BY <2>1, <2>3, <4>1 DEF ProcOK
    <3> QED
      BY <1>5, <1>10, <2>1, <2>3, <3>1 DEF ProcOK
  <2> QED
    BY <2>2, <2>3
<1>15. EventOK'
  BY <1>5 DEF IInv, EventOK
<1>16. ConfirmOK'
  <2>1. ConfirmOK
    BY DEF IInv
  <2>2. \A i \in Key \ AppliedKey :
          /\ holder'[i] = "confirm" <=> i \in Written("confirm")'
          /\ holder'[i] = "confirm" =>
               draft'[i] # None /\ CountedIn(i, draft'[i]) = Append(CountedIn(i, table[i]), cur["confirm"])
    BY <1>11, <1>12, <2>1, ProcNames DEF ConfirmOK
  <2>3. /\ pc'["confirm"] # "delete"
        /\ pc'["confirm"] # "idle" =>
             /\ cur["confirm"] \in Match \ verified
             /\ event[cur["confirm"]].no = Cardinality(verified)
    BY <1>2, <1>10, <2>1, ProcNames DEF ConfirmOK
  <2>4. ASSUME NEW n \in Match
        PROVE  /\ holder'[Applied(n)] = "confirm" <=>
                    n = cur["confirm"] /\ pc'["confirm"] \in {"state", "partner", "rivals"}
               /\ holder'[Applied(n)] = "confirm" => draft'[Applied(n)] # None
    <3>1. /\ holder[Applied(n)] = "confirm" <=>
               n = cur["confirm"] /\ pc["confirm"] \in {"state", "partner", "rivals"}
          /\ holder[Applied(n)] = "confirm" => draft[Applied(n)] # None
      BY <2>1 DEF ConfirmOK
    <3>2. Applied(n) \in Key
      BY Keys
    <3>3. CASE p = "confirm"
      <4>1. CASE n = m
        BY <1>2, <1>3, <1>8, <1>10, <3>3, <4>1, NoneAssumption, ProcNames DEF m
      <4>2. CASE n # m
        BY <1>4, <1>8, <3>1, <3>2, <3>3, <4>2 DEF m
      <4> QED
        BY <4>1, <4>2
    <3>4. CASE p = "rebuild"
      <4>1. pc'["confirm"] = pc["confirm"]
        BY <1>10, <3>4, ProcNames
      <4>2. CASE n = m
        <5>1. n # cur["confirm"] \/ pc["confirm"] = "idle"
          BY <1>7, <2>1, <3>4, <4>2 DEF ConfirmOK
        <5>2. holder'[k] # "confirm"
          BY <1>8, <3>1, <3>4, <4>2, <1>3, <5>1, ProcNames
        <5> QED
          BY <1>3, <4>1, <4>2, <5>1, <5>2
      <4>3. CASE n # m
        BY <1>4, <1>8, <3>1, <3>2, <4>1, <4>3
      <4> QED
        BY <4>2, <4>3
    <3> QED
      BY <3>3, <3>4, ProcNames
  <2> QED
    BY <1>5, <2>2, <2>3, <2>4 DEF ConfirmOK
<1>17. AppliedOK'
  <2> SUFFICES ASSUME NEW n \in Match
               PROVE  /\ table[Applied(n)] # None <=> n \in verified
                      /\ holder'[Applied(n)] = "rebuild" => n \in verified
                      /\ /\ pc'["rebuild"] \notin {"idle", "delete"}
                         /\ n \in verified /\ Sees("rebuild", Applied(n))' = None
                         => n \in queue \/ (n = cur["rebuild"] /\ pc'["rebuild"] = "applied")
    BY <1>5 DEF AppliedOK, Applied
  <2>1. /\ table[Applied(n)] # None <=> n \in verified
        /\ holder[Applied(n)] = "rebuild" => n \in verified
        /\ /\ pc["rebuild"] \notin {"idle", "delete"}
           /\ n \in verified /\ Sees("rebuild", Applied(n)) = None
           => n \in queue \/ (n = cur["rebuild"] /\ pc["rebuild"] = "applied")
    BY DEF IInv, AppliedOK
  <2>2. Applied(n) \in Key /\ Applied(n)' = Applied(n)
    BY Keys DEF Applied
  <2>3. CASE n # m
    <3>1. holder'[Applied(n)] = holder[Applied(n)] /\ draft'[Applied(n)] = draft[Applied(n)]
      BY <1>4, <1>8, <2>2, <2>3
    <3>2. Sees("rebuild", Applied(n))' = Sees("rebuild", Applied(n))
      BY <1>5, <2>2, <3>1 DEF Sees
    <3>3. p = "rebuild" => n # cur["rebuild"] /\ pc["rebuild"] = "applied"
      BY <1>2, <2>3 DEF m
    <3>4. p = "confirm" => pc'["rebuild"] = pc["rebuild"]
      BY <1>10, ProcNames
    <3> QED
      BY <2>1, <3>1, <3>2, <3>3, <3>4, ProcNames
  <2>4. CASE n = m /\ p = "confirm"
    BY <1>3, <1>6, <1>8, <2>1, <2>4, ProcNames
  <2>5. CASE n = m /\ p = "rebuild"
    <3>1. Sees("rebuild", Applied(n))' # None
      <4>1. holder'[k] = p /\ draft'[k] = TRUE => Sees("rebuild", Applied(n))' # None
        BY <1>3, <2>2, <2>5, NoneAssumption DEF Sees
      <4>2. UNCHANGED <<holder, draft>> /\ Sees(p, k) # None => Sees("rebuild", Applied(n))' # None
        BY <1>3, <1>5, <2>2, <2>5 DEF Sees
      <4> QED
        BY <1>8, <4>1, <4>2
    <3> QED
      BY <1>7, <2>1, <2>5, <3>1
  <2> QED
    BY <2>3, <2>4, <2>5, ProcNames
<1>18. \A i \in Key \ AppliedKey : Sees("rebuild", i)' = Sees("rebuild", i)
  BY <1>5, <1>11 DEF Sees
<1>19. pc'["rebuild"] \in {"idle", "delete"} <=> pc["rebuild"] \in {"idle", "delete"}
  BY <1>2, <1>10, ProcNames
<1>20. RebuildOK' /\ DeleteOK'
  <2>1. RebuildOK /\ DeleteOK
    BY DEF IInv
  <2>2. pc'["rebuild"] = pc["rebuild"] \/ (pc["rebuild"] = "applied" /\ pc'["rebuild"] = "state")
    BY <1>2, <1>10, ProcNames
  <2>3. RebuildOK'
    BY <1>5, <2>1, <2>2 DEF RebuildOK
  <2>4. ASSUME pc'["rebuild"] = "delete", NEW i \in Key, holder'[i] = "rebuild" PROVE draft'[i] = None
    <3>1. p = "confirm" /\ pc["rebuild"] = "delete"
      BY <1>10, <2>2, <2>4, ProcNames
    <3>2. holder'[k] = "confirm"
      BY <1>8, <3>1, ProcNames
    <3> QED
      BY <1>8, <2>1, <2>4, <3>1, <3>2 DEF DeleteOK
  <2>5. ASSUME pc'["rebuild"] = "delete", NEW n \in Match, NEW i \in RowsOf(n), Visited(i)',
               holder'[i] # "rebuild", Times(CountedIn(i, table[i]), n) >= 1
        PROVE  n \in beside
    <3>1. holder[i] # "rebuild"
      BY <1>11, <2>5, RowKeys
    <3>2. Visited(i)
      BY <1>5, <2>5 DEF Visited
    <3> QED
      BY <2>1, <2>2, <2>5, <3>1, <3>2, RowKeys DEF DeleteOK
  <2>6. DeleteOK'
    BY <1>5, <2>4, <2>5, Same, Zenon DEF DeleteOK, CountedIn, Times, StateKey
  <2> QED
    BY <2>3, <2>6
<1>21. ReplayOK'
  BY <1>5, <1>12, <1>18, <1>19, ProcNames, ReplayKept DEF IInv
<1>22. EveryMatchCounted' /\ StateFollowsLog'
  BY <1>1, <1>5, CountedKept, LogKept DEF IInv
<1>23. DraftOK'
  <2>1. holder'[StateKey] = holder[StateKey] /\ draft'[StateKey] = draft[StateKey]
    BY <1>11, Keys
  <2>2. pc'["rebuild"] \in {"partner", "rivals"} => pc["rebuild"] \in {"partner", "rivals"}
    BY <1>10, ProcNames
  <2> QED
    BY <1>5, <2>1, <2>2, DraftKept
<1> QED
  BY <1>13, <1>14, <1>15, <1>16, <1>17, <1>20, <1>21, <1>22, <1>23 DEF IInv

\* A statement of p counts its match in row k.
Counts(p, k) ==
  /\ cur[p] \in Match /\ pc[p] \in {"state", "partner", "rivals"}
  /\ k \in RowsOf(cur[p]) \ Written(p)
  /\ \E v \in Row(k) : /\ Write(p, k, v)
                       /\ CountedIn(k, v) = Append(CountedIn(k, Sees(p, k)), cur[p])
  /\ Written(p)' = Written(p) \cup {k}
  /\ pc' \in [Proc -> PC] /\ pc'[p] \in {"partner", "rivals"}
  /\ \A q \in Proc : q # p => pc'[q] = pc[q] /\ rest'[q] = rest[q]
  /\ rest' \in [Proc -> SUBSET Player]
  /\ rest'[p] # {} => pc'[p] = "rivals" /\ rest'[p] \subseteq Rivals[cur[p]]
  /\ UNCHANGED <<verified, event, table, cur, phase, todo, queue, beside, raced>>

\* Such a statement keeps the invariant if the state row follows its log.
LEMMA CountRow ==
  ASSUME IInv, NEW p \in Proc, NEW k, Counts(p, k), DraftOK'
  PROVE  IInv'
<1>1. /\ TypeOK /\ ProcOK("confirm") /\ ProcOK("rebuild") /\ EventOK /\ ConfirmOK /\ AppliedOK
      /\ RebuildOK /\ DeleteOK /\ ReplayOK /\ EveryMatchCounted /\ StateFollowsLog
  BY ProcNames DEF IInv
<1>2. PICK m : m = cur[p]
  OBVIOUS
<1>3. /\ m \in Match /\ pc[p] \in {"state", "partner", "rivals"} /\ k \in RowsOf(m) /\ k \notin Written(p)
      /\ Written(p)' = Written(p) \cup {k}
      /\ pc' \in [Proc -> PC] /\ pc'[p] \in {"partner", "rivals"}
      /\ \A q \in Proc : q # p => pc'[q] = pc[q] /\ rest'[q] = rest[q]
      /\ rest' \in [Proc -> SUBSET Player]
      /\ rest'[p] # {} => pc'[p] = "rivals" /\ rest'[p] \subseteq Rivals[m]
      /\ UNCHANGED <<verified, event, table, cur, phase, todo, queue, beside, raced>>
  BY <1>2 DEF Counts
<1>4. PICK v \in Row(k) : /\ Write(p, k, v)
                          /\ CountedIn(k, v) = Append(CountedIn(k, Sees(p, k)), m)
  BY <1>2 DEF Counts
<1>5. k \in Key \ AppliedKey /\ v # None
  <2>1. k \in Key \ AppliedKey
    BY <1>3, RowKeys
  <2> QED
    BY <1>4, <2>1, Keys, RowTypes, NoneAssumption
<1>6. /\ holder[k] \in {None, p}
      /\ holder' \in [Key -> Proc \cup {None}] /\ draft' = [i \in Key |-> draft'[i]]
      /\ \A i \in Key : draft'[i] \in Row(i) \cup {None}
      /\ holder'[k] = p /\ draft'[k] = v
      /\ \A i \in Key : i # k => holder'[i] = holder[i] /\ draft'[i] = draft[i]
  BY <1>1, <1>4, <1>5, Writes
<1>7. \A q \in Proc : q # p => Written(q)' = Written(q)
  BY <1>3, Same, Zenon DEF Written
<1>8. \A n \in Match : Applied(n) \in Key /\ Applied(n) # k
  BY <1>5, Keys
<1>9. \A n \in Match : holder'[Applied(n)] = holder[Applied(n)] /\ draft'[Applied(n)] = draft[Applied(n)]
  BY <1>6, <1>8
<1>10. CountedIn(k, Sees(p, k)) \in Seq(Match)
  BY <1>1, <1>5, SeesType, CountedType
<1>11. TypeOK'
  BY <1>1, <1>3, <1>6 DEF TypeOK
<1>12. ASSUME NEW q \in Proc PROVE ProcOK(q)'
  <2>1. ProcOK(q)
    BY DEF IInv
  <2>2. CASE q = p
    BY <1>2, <1>3, <2>2, NoneAssumption DEF ProcOK
  <2>3. CASE q # p
    <3>1. pc[q] = "idle" => \A i \in Key : holder'[i] # q
      <4>1. \A i \in Key : holder'[i] = holder[i] \/ holder'[i] = p
        BY <1>6
      <4> QED
        BY <2>1, <2>3, <4>1 DEF ProcOK
    <3> QED
      BY <1>3, <2>1, <2>3, <3>1 DEF ProcOK
  <2> QED
    BY <2>2, <2>3
<1>13. EventOK'
  BY <1>1, <1>3 DEF EventOK
<1>14. ConfirmOK'
  <2>1. ASSUME NEW i \in Key \ AppliedKey
        PROVE  /\ holder'[i] = "confirm" <=> i \in Written("confirm")'
               /\ holder'[i] = "confirm" =>
                    draft'[i] # None /\ CountedIn(i, draft'[i]) = Append(CountedIn(i, table[i]), cur["confirm"])
    <3>1. /\ holder[i] = "confirm" <=> i \in Written("confirm")
          /\ holder[i] = "confirm" =>
               draft[i] # None /\ CountedIn(i, draft[i]) = Append(CountedIn(i, table[i]), cur["confirm"])
      BY <1>1 DEF ConfirmOK
    <3>2. CASE i # k
      <4>1. i \in Written("confirm")' <=> i \in Written("confirm")
        BY <1>3, <1>7, <3>2, ProcNames
      <4> QED
        BY <1>6, <3>1, <3>2, <4>1
    <3>3. CASE i = k /\ p = "confirm"
      <4>1. Sees(p, k) = table[k]
        BY <1>3, <3>1, <3>3 DEF Sees
      <4> QED
        BY <1>2, <1>3, <1>4, <1>5, <1>6, <3>3, <4>1
    <3>4. CASE i = k /\ p = "rebuild"
      <4>1. i \notin Written("confirm") /\ holder'[i] = "rebuild"
        BY <1>6, <3>1, <3>4, ProcNames
      <4> QED
        BY <1>7, <3>4, <4>1, ProcNames
    <3> QED
      BY <3>2, <3>3, <3>4, ProcNames
  <2>2. /\ pc'["confirm"] # "delete"
        /\ pc'["confirm"] # "idle" =>
             /\ cur["confirm"] \in Match \ verified
             /\ event[cur["confirm"]].no = Cardinality(verified)
    BY <1>1, <1>3, ProcNames DEF ConfirmOK
  <2>3. ASSUME NEW n \in Match
        PROVE  /\ holder'[Applied(n)] = "confirm" <=>
                    n = cur["confirm"] /\ pc'["confirm"] \in {"state", "partner", "rivals"}
               /\ holder'[Applied(n)] = "confirm" => draft'[Applied(n)] # None
    <3>1. pc'["confirm"] \in {"state", "partner", "rivals"} <=> pc["confirm"] \in {"state", "partner", "rivals"}
      BY <1>3, ProcNames
    <3> QED
      BY <1>1, <1>9, <3>1 DEF ConfirmOK
  <2> QED
    BY <1>3, <2>1, <2>2, <2>3, Same DEF ConfirmOK
<1>15. AppliedOK'
  <2> SUFFICES ASSUME NEW n \in Match
               PROVE  /\ table[Applied(n)] # None <=> n \in verified
                      /\ holder'[Applied(n)] = "rebuild" => n \in verified
                      /\ /\ pc'["rebuild"] \notin {"idle", "delete"}
                         /\ n \in verified /\ Sees("rebuild", Applied(n))' = None
                         => n \in queue \/ (n = cur["rebuild"] /\ pc'["rebuild"] = "applied")
    BY <1>3 DEF AppliedOK, Applied
  <2>1. Sees("rebuild", Applied(n))' = Sees("rebuild", Applied(n))
    BY <1>3, <1>9, Same DEF Sees
  <2>2. /\ pc'["rebuild"] \in {"idle", "delete"} <=> pc["rebuild"] \in {"idle", "delete"}
        /\ pc'["rebuild"] = "applied" <=> pc["rebuild"] = "applied"
    BY <1>3, ProcNames
  <2> QED
    BY <1>1, <1>9, <2>1, <2>2 DEF AppliedOK
<1>16. RebuildOK'
  <2>1. \/ pc'["rebuild"] = pc["rebuild"]
        \/ pc["rebuild"] \notin {"idle", "delete"} /\ pc'["rebuild"] \notin {"idle", "delete"}
    BY <1>3, ProcNames
  <2> QED
    BY <1>1, <1>3, <2>1 DEF RebuildOK
<1>17. DeleteOK'
  <2>1. pc'["rebuild"] = "delete" => pc["rebuild"] = "delete" /\ p = "confirm"
    BY <1>3, ProcNames
  <2>2. ASSUME pc'["rebuild"] = "delete", NEW i \in Key, holder'[i] = "rebuild" PROVE draft'[i] = None
    BY <1>1, <1>6, <2>1, <2>2, ProcNames DEF DeleteOK
  <2>3. ASSUME pc'["rebuild"] = "delete", NEW n \in Match, NEW i \in Key, i \in RowsOf(n), Visited(i)',
               holder'[i] # "rebuild", Times(CountedIn(i, table[i]), n) >= 1
        PROVE  n \in beside
    <3>1. holder[i] # "rebuild"
      BY <1>6, <2>1, <2>3, ProcNames
    <3>2. Visited(i)
      BY <1>3, <2>3 DEF Visited
    <3> QED
      BY <1>1, <2>1, <2>3, <3>1, <3>2 DEF DeleteOK
  <2> QED
    BY <1>3, <2>2, <2>3, Same, Zenon DEF DeleteOK, CountedIn, Times, StateKey
<1>18. ReplayOK'
  <2>1. CASE p = "confirm"
    <3>1. holder[k] = None
      BY <1>1, <1>3, <1>5, <1>6, <2>1 DEF ConfirmOK
    <3>2. \A i \in Key : Sees("rebuild", i)' = Sees("rebuild", i)
      BY <1>3, <1>6, <2>1, <3>1, ProcNames DEF Sees
    <3> QED
      BY <1>1, <1>3, <1>7, <2>1, <3>2, ProcNames, ReplayKept
  <2>2. CASE p = "rebuild"
    <3>0. m \in verified /\ m \notin queue
      BY <1>1, <1>2, <1>3, <2>2, NoneAssumption DEF RebuildOK
    <3> SUFFICES ASSUME NEW n \in Match, NEW i \in RowsOf(n)
                 PROVE  LET x == Times(CountedIn(i, Sees("rebuild", i)'), n) IN
                        /\ n \notin verified => x = 0
                        /\ n \in verified /\ ~Pending(n, i)' => x >= 1
                        /\ n \notin beside => x <= IF Pending(n, i)' THEN 0 ELSE 1
      BY <1>3, Same, Zenon DEF ReplayOK, CountedIn, Times, StateKey
    <3>1. i \in Key
      BY RowKeys
    <3>2. PICK x : x = Times(CountedIn(i, Sees("rebuild", i)), n)
      OBVIOUS
    <3>3. /\ n \notin verified => x = 0
          /\ n \in verified /\ ~Pending(n, i) => x >= 1
          /\ n \notin beside => x <= IF Pending(n, i) THEN 0 ELSE 1
      BY <1>1, <1>3, <2>2, <3>2 DEF ReplayOK
    <3>4. CASE i # k
      <4>1. Sees("rebuild", i)' = Sees("rebuild", i)
        BY <1>3, <1>6, <3>1, <3>4 DEF Sees
      <4>2. Pending(n, i)' <=> Pending(n, i)
        BY <1>3, <2>2, <3>4 DEF Pending
      <4> QED
        BY <3>2, <3>3, <4>1, <4>2
    <3>5. CASE i = k
      <4>1. Sees("rebuild", i)' = v
        BY <1>6, <2>2, <3>5 DEF Sees
      <4>2. x \in Nat /\ Times(CountedIn(i, v), n) = IF n = m THEN x + 1 ELSE x
        <5> PICK l : l = CountedIn(k, Sees(p, k))
          OBVIOUS
        <5>1. l \in Seq(Match) /\ CountedIn(i, v) = Append(l, m) /\ x = Times(l, n)
          BY <1>4, <1>10, <2>2, <3>2, <3>5
        <5> QED
          BY <1>3, <5>1, TimesAppend
      <4>3. CASE n = m
        <5>1. Pending(n, i) /\ ~Pending(n, i)'
          BY <1>2, <1>3, <2>2, <3>0, <3>5, <4>3 DEF Pending
        <5> QED
          BY <3>0, <3>3, <4>1, <4>2, <4>3, <5>1
      <4>4. CASE n # m
        <5>1. Pending(n, i)' <=> Pending(n, i)
          BY <1>2, <1>3, <2>2, <4>4 DEF Pending
        <5> QED
          BY <3>3, <4>1, <4>2, <4>4, <5>1
      <4> QED
        BY <4>3, <4>4
    <3> QED
      BY <3>4, <3>5
  <2> QED
    BY <2>1, <2>2, ProcNames
<1>19. EveryMatchCounted' /\ StateFollowsLog'
  BY <1>1, <1>3, CountedKept, LogKept
<1> QED
  BY <1>11, <1>12, <1>13, <1>14, <1>15, <1>16, <1>17, <1>18, <1>19 DEF IInv

\* CountIn writes a row of k that counts the match.
LEMMA CountsIn ==
  ASSUME TypeOK, NEW p \in Proc, cur[p] \in Match, NEW k \in PairKey, CountIn(p, k)
  PROVE  \E v \in Row(k) : /\ Write(p, k, v)
                           /\ CountedIn(k, v) = Append(CountedIn(k, Sees(p, k)), cur[p])
<1>1. k \in Key \ AppliedKey /\ k # StateKey /\ Row(k) = Seq(Match)
  BY Keys, RowTypes
<1> PICK l, v : l = CountedIn(k, Sees(p, k)) /\ v = Append(l, cur[p])
  OBVIOUS
<1>2. l \in Seq(Match)
  BY <1>1, SeesType, CountedType
<1>3. v \in Seq(Match) /\ v # None
  BY <1>2, Appended, NoneAssumption
<1>4. l = IF Sees(p, k) = None THEN <<>> ELSE Sees(p, k)
  BY <1>1 DEF CountedIn
<1>5. Write(p, k, v)
  BY <1>4 DEF CountIn
<1>6. CountedIn(k, v) = v
  BY <1>1, <1>3 DEF CountedIn
<1> QED
  BY <1>1, <1>3, <1>5, <1>6

LEMMA PairDraft ==
  ASSUME IInv, NEW p \in Proc, NEW k \in PairKey, NEW v, Write(p, k, v),
         UNCHANGED <<event, queue>>,
         pc'["rebuild"] \in {"partner", "rivals"} => pc["rebuild"] \in {"partner", "rivals"}
  PROVE  DraftOK'
<1>1. StateKey \in Key /\ StateKey # k
  BY Keys
<1>2. holder \in [Key -> Proc \cup {None}] /\ draft = [i \in Key |-> draft[i]]
  BY DEF IInv, TypeOK
<1>3. holder'[StateKey] = holder[StateKey] /\ draft'[StateKey] = draft[StateKey]
  BY <1>1, <1>2 DEF Write
<1> QED
  BY <1>3, DraftKept

LEMMA CountsPartner ==
  ASSUME IInv, NEW p \in Proc, UpsertPartner(p)
  PROVE  IInv'
<1>1. TypeOK /\ ProcOK(p)
  BY DEF IInv
<1>2. PICK m, k : m = cur[p] /\ k = <<"partner", Mate[m]>>
  OBVIOUS
<1>3. /\ m \in Match /\ k \in PairKey /\ k \in RowsOf(m) \ Written(p)
  <2>1. cur[p] \in Match
    BY <1>1, NextRow DEF UpsertPartner
  <2>2. k \in RowsOf(cur[p]) \ Written(p)
    BY <1>1, <1>2, NextRow DEF UpsertPartner
  <2> QED
    BY <1>2, <2>1, <2>2, RowKeys
<1>4. /\ pc[p] = "partner" /\ CountIn(p, k) /\ pc' = [pc EXCEPT ![p] = "rivals"]
      /\ rest' = [rest EXCEPT ![p] = Rivals[m]]
      /\ UNCHANGED <<verified, event, table, cur, phase, todo, queue, beside, raced>>
  BY <1>2 DEF UpsertPartner, dbVars, rbVars, hist
<1>5. pc \in [Proc -> PC] /\ rest \in [Proc -> SUBSET Player] /\ Rivals[m] \subseteq Player
  BY <1>1, <1>3, ResultAssumption DEF TypeOK
<1>6. /\ pc' \in [Proc -> PC] /\ pc'[p] = "rivals"
      /\ \A q \in Proc : q # p => pc'[q] = pc[q] /\ rest'[q] = rest[q]
      /\ rest' \in [Proc -> SUBSET Player] /\ rest'[p] = Rivals[m]
  BY <1>4, <1>5 DEF PC
<1>7. Written(p) = {StateKey}
  BY <1>4 DEF Written
<1>8. Written(p)' = Written(p) \cup {k}
  <2>1. Written(p)' = RowsOf(m) \ ({"rival"} \X Rivals[m])
    BY <1>2, <1>3, <1>4, <1>6, NoneAssumption, Same DEF Written
  <2>2. RowsOf(m) = {StateKey, k} \cup ({"rival"} \X Rivals[m])
    BY <1>2 DEF RowsOf
  <2>3. StateKey \notin {"rival"} \X Rivals[m] /\ k \notin {"rival"} \X Rivals[m]
    BY <1>2 DEF StateKey
  <2> QED
    BY <1>7, <2>1, <2>2, <2>3
<1>9. \E v \in Row(k) : Write(p, k, v) /\ CountedIn(k, v) = Append(CountedIn(k, Sees(p, k)), m)
  BY <1>1, <1>2, <1>3, <1>4, CountsIn
<1>10. Counts(p, k)
  BY <1>2, <1>3, <1>4, <1>6, <1>8, <1>9 DEF Counts
<1>11. DraftOK'
  <2>1. pc'["rebuild"] \in {"partner", "rivals"} => pc["rebuild"] \in {"partner", "rivals"}
    BY <1>4, <1>6, ProcNames
  <2> QED
    BY <1>3, <1>4, <1>9, <2>1, PairDraft
<1> QED
  BY <1>10, <1>11, CountRow

LEMMA CountsRival ==
  ASSUME IInv, NEW p \in Proc, NEW r \in Player, UpsertRival(p, r)
  PROVE  IInv'
<1>1. TypeOK /\ ProcOK(p)
  BY DEF IInv
<1>2. PICK m, k : m = cur[p] /\ k = <<"rival", r>>
  OBVIOUS
<1>3. /\ pc[p] = "rivals" /\ r \in rest[p] /\ CountIn(p, k)
      /\ rest' = [rest EXCEPT ![p] = rest[p] \ {r}]
      /\ UNCHANGED <<verified, event, table, pc, cur, phase, todo, queue, beside, raced>>
  BY <1>2 DEF UpsertRival, dbVars, rbVars, hist
<1>4. /\ m \in Match /\ k \in PairKey /\ k \in RowsOf(m) \ Written(p)
      /\ rest[p] \subseteq Rivals[m] /\ rest[p] \subseteq Player
  <2>1. cur[p] \in Match
    BY <1>1, <1>3, NextRow
  <2>2. k \in RowsOf(cur[p]) \ Written(p)
    BY <1>1, <1>2, <1>3, NextRow
  <2>3. rest[p] \subseteq Rivals[m] /\ rest[p] \subseteq Player
    BY <1>1, <1>2, <1>3 DEF ProcOK, TypeOK
  <2> QED
    BY <1>2, <1>3, <2>1, <2>2, <2>3, RowKeys
<1>5. pc \in [Proc -> PC] /\ rest \in [Proc -> SUBSET Player]
  BY <1>1 DEF TypeOK
<1>6. /\ \A q \in Proc : q # p => rest'[q] = rest[q]
      /\ rest' \in [Proc -> SUBSET Player] /\ rest'[p] = rest[p] \ {r}
  BY <1>3, <1>5
<1>7. Written(p)' = Written(p) \cup {k}
  <2>1. Written(p) = RowsOf(m) \ ({"rival"} \X rest[p])
    BY <1>2, <1>3, <1>4, NoneAssumption DEF Written
  <2>2. Written(p)' = RowsOf(m) \ ({"rival"} \X (rest[p] \ {r}))
    BY <1>2, <1>3, <1>4, <1>6, NoneAssumption, Same DEF Written
  <2>3. {"rival"} \X rest[p] = ({"rival"} \X (rest[p] \ {r})) \cup {k}
    BY <1>2, <1>3
  <2>4. k \notin {"rival"} \X (rest[p] \ {r})
    BY <1>2
  <2> QED
    BY <1>4, <2>1, <2>2, <2>3, <2>4
<1>8. \E v \in Row(k) : Write(p, k, v) /\ CountedIn(k, v) = Append(CountedIn(k, Sees(p, k)), m)
  BY <1>1, <1>2, <1>3, <1>4, CountsIn
<1>9. Counts(p, k)
  BY <1>2, <1>3, <1>4, <1>5, <1>6, <1>7, <1>8 DEF Counts
<1>10. DraftOK'
  BY <1>3, <1>4, <1>8, PairDraft
<1> QED
  BY <1>9, <1>10, CountRow

\* The state row before the match, as the transaction of p finds it.
StateSeen(p) == IF Sees(p, StateKey) = None THEN EmptyState ELSE Sees(p, StateKey)

LEMMA SeenState ==
  ASSUME IInv, NEW p \in Proc, pc[p] = "state", NEW st, st = StateSeen(p)
  PROVE  /\ st \in State /\ CountedIn(StateKey, Sees(p, StateKey)) = st.log
         /\ Base(st) /\ \A i \in DOMAIN st.log : st.log[i] \in verified
<1>1. TypeOK /\ DraftOK /\ StateFollowsLog /\ EveryMatchCounted /\ ConfirmOK
  BY DEF IInv
<1>2. CASE Sees(p, StateKey) = None
  <2>1. st = EmptyState /\ st.log = <<>>
    BY <1>2 DEF StateSeen, EmptyState
  <2>2. CountedIn(StateKey, Sees(p, StateKey)) = <<>>
    BY <1>2 DEF CountedIn
  <2> QED
    BY <2>1, <2>2, EmptyType DEF Base
<1>3. CASE Sees(p, StateKey) # None
  <2>1. st = Sees(p, StateKey)
    BY <1>3 DEF StateSeen
  <2>2. CountedIn(StateKey, Sees(p, StateKey)) = st.log
    BY <1>3, <2>1 DEF CountedIn
  <2>3. /\ st \in State /\ Follows(st)
        /\ \A i \in DOMAIN st.log : st.log[i] \in verified
    <3>1. CASE holder[StateKey] = p
      <4>1. p = "rebuild"
        <5>1. p = "confirm" => StateKey \notin Written(p)
          BY DEF Written
        <5> QED
          BY <1>1, <3>1, <5>1, Keys, ProcNames DEF ConfirmOK
      <4>2. st = draft[StateKey] /\ st # None
        BY <1>3, <2>1, <3>1 DEF Sees
      <4>3. Follows(st)
        BY <1>1, <3>1, <4>2, ProcNames DEF DraftOK
      <4> QED
        BY <3>1, <4>1, <4>2, <4>3, DraftVerified
    <3>2. CASE holder[StateKey] # p
      <4>1. st = table[StateKey] /\ st # None
        BY <1>3, <2>1, <3>2 DEF Sees
      <4> QED
        BY <1>1, <4>1, LogVerified DEF StateFollowsLog
    <3> QED
      BY <3>1, <3>2
  <2>4. st.log # <<>>
    <3>1. st.streak.len \in 1..Len(st.log)
      BY <2>3 DEF Follows, Streaks
    <3> QED
      BY <3>1
  <2> QED
    BY <2>2, <2>3, <2>4 DEF Base
<1> QED
  BY <1>2, <1>3

\* The applied rows it finds are those of the matches the state row counts.
LEMMA SeenApplied ==
  ASSUME IInv, NEW p \in Proc, pc[p] = "state", p = "rebuild" => queue = {},
         NEW n \in Match, n # cur[p]
  PROVE  Sees(p, Applied(n)) # None <=> Times(CountedIn(StateKey, Sees(p, StateKey)), n) >= 1
<1>1. /\ TypeOK /\ ConfirmOK /\ AppliedOK /\ ReplayOK /\ EveryMatchCounted
  BY DEF IInv
<1>2. StateKey \in RowsOf(n) /\ StateKey \in Key \ AppliedKey
  BY RowKeys
<1>3. table[Applied(n)] # None <=> n \in verified
  BY <1>1 DEF AppliedOK
<1>4. CASE p = "confirm"
  <2>1. holder[StateKey] # p /\ holder[Applied(n)] # p
    <3>1. StateKey \notin Written("confirm")
      BY <1>4 DEF Written
    <3> QED
      BY <1>1, <1>2, <1>4, <3>1 DEF ConfirmOK
  <2>2. Times(CountedIn(StateKey, table[StateKey]), n) >= 1 <=> n \in verified
    BY <1>1, <1>2 DEF EveryMatchCounted
  <2> QED
    BY <1>3, <2>1, <2>2 DEF Sees
<1>5. CASE p = "rebuild"
  <2>1. Sees(p, Applied(n)) # None <=> n \in verified
    <3>1. /\ holder[Applied(n)] = "rebuild" => n \in verified
          /\ n \in verified => Sees("rebuild", Applied(n)) # None
      BY <1>1, <1>5 DEF AppliedOK
    <3> QED
      BY <1>3, <1>5, <3>1 DEF Sees
  <2>2. ~Pending(n, StateKey)
    BY <1>5 DEF Pending
  <2>3. PICK x : x = Times(CountedIn(StateKey, Sees(p, StateKey)), n)
    OBVIOUS
  <2>4. (n \notin verified => x = 0) /\ (n \in verified => x >= 1)
    BY <1>1, <1>2, <1>5, <2>2, <2>3 DEF ReplayOK
  <2> QED
    BY <2>1, <2>3, <2>4
<1> QED
  BY <1>4, <1>5, ProcNames

LEMMA CountsState ==
  ASSUME IInv, NEW p \in Proc, UpdateState(p)
  PROVE  IInv'
<1>1. TypeOK /\ ProcOK(p)
  BY DEF IInv
<1>2. PICK m, st, a : m = cur[p] /\ st = StateSeen(p) /\ a = After(p, st, m, event[m])
  OBVIOUS
<1>3. /\ m \in Match /\ pc[p] = "state" /\ rest[p] = {}
      /\ StateKey \in RowsOf(m) \ Written(p) /\ Written(p) = {}
  <2>1. cur[p] \in Match /\ StateKey \in RowsOf(cur[p]) \ Written(p)
    BY <1>1, NextRow DEF UpdateState
  <2> QED
    BY <1>1, <1>2, <2>1 DEF UpdateState, ProcOK, Written
<1>4. /\ Write(p, StateKey, a) /\ pc' = [pc EXCEPT ![p] = "partner"]
      /\ UNCHANGED <<verified, event, table, cur, rest, phase, todo, queue, beside, raced>>
  BY <1>2 DEF UpdateState, EventOf, StateSeen, dbVars, rbVars, hist
<1>5. pc \in [Proc -> PC] /\ rest \in [Proc -> SUBSET Player]
  BY <1>1 DEF TypeOK
<1>6. /\ pc' \in [Proc -> PC] /\ pc'[p] = "partner" /\ \A q \in Proc : q # p => pc'[q] = pc[q]
  BY <1>4, <1>5 DEF PC
<1>7. /\ st \in State /\ CountedIn(StateKey, Sees(p, StateKey)) = st.log
      /\ Base(st) /\ \A i \in DOMAIN st.log : st.log[i] \in verified
  BY <1>2, <1>3, SeenState
<1>8. \A n \in verified \cup {m} : event[n] \in Event
  <2>1. event \in [Match -> Event \cup {None}] /\ verified \subseteq Match
    BY <1>1 DEF TypeOK
  <2>2. m \in verified \cup {cur["confirm"]}
    BY <1>2, <1>3, NoneAssumption, ProcNames DEF IInv, RebuildOK
  <2> QED
    BY <1>3, <2>1, <2>2 DEF IInv, EventOK
<1>9. a \in State /\ a.log = Append(st.log, m) /\ Follows(a)
  <2>1. event[m] \in Event /\ \A i \in DOMAIN st.log : event[st.log[i]] \in Event
    BY <1>7, <1>8
  <2>2. Base(st) /\ m \in Match /\ a = After(p, st, m, event[m])
    BY <1>2, <1>3, <1>7
  <2>3. a.log = Append(st.log, m)
    BY <2>2 DEF After
  <2> QED
    BY <2>1, <2>2, <2>3, BaseAfter
<1>10. a # None /\ CountedIn(StateKey, a) = a.log
  BY <1>9, NoneAssumption DEF CountedIn
<1>11. Counts(p, StateKey)
  <2>1. Written(p)' = {StateKey}
    BY <1>6 DEF Written, StateKey
  <2>2. a \in Row(StateKey)
    BY <1>9, RowTypes
  <2> QED
    BY <1>2, <1>3, <1>4, <1>5, <1>6, <1>7, <1>9, <1>10, <2>1, <2>2 DEF Counts
<1>12. holder'[StateKey] = p /\ draft'[StateKey] = a
  BY <1>1, <1>4, Keys DEF TypeOK, Write
<1>13. ASSUME NoRepeats(a.log), p = "rebuild" => queue = {} PROVE Activity(a)
  <2> SUFFICES ASSUME NEW w \in WINDOWS
               PROVE  a.windows[w] = In(a.log, {c \in Match : Day[a.last] - w <= Day[c] /\ Day[c] <= Day[a.last]})
    BY DEF Activity
  <2> DEFINE V == {n \in Match : Sees(p, Applied(n)) # None}
             S == {c \in Match : Day[m] - w <= Day[c] /\ Day[c] <= Day[m]}
  <2>1. a.last = m /\ a.windows[w] = Cardinality(V \cap S)
    <3>1. V \cap S = {n \in Match : /\ Sees(p, Applied(n)) # None
                                    /\ Day[m] - w <= Day[n] /\ Day[n] <= Day[m]}
      OBVIOUS
    <3>2. a.last = m /\ a.windows = Windows(p, m)
      BY <1>2 DEF After
    <3> QED
      BY <3>1, <3>2 DEF Windows
  <2>2. PICK l : l = st.log
    OBVIOUS
  <2>3. l \in Seq(Match) /\ Append(l, m) \in Seq(Match)
    BY <1>3, <1>7, <2>2, Appended DEF State
  <2>4. ASSUME NEW n \in Match PROVE n \in V <=> \E i \in DOMAIN Append(l, m) : Append(l, m)[i] = n
    <3>1. DOMAIN l = 1..Len(l) /\ DOMAIN Append(l, m) = 1..Len(l) + 1 /\ Len(l) \in Nat
      BY <1>3, <2>3, Positions, Appended
    <3>2. (\E i \in DOMAIN Append(l, m) : Append(l, m)[i] = n) <=> n = m \/ \E i \in DOMAIN l : l[i] = n
      BY <1>3, <2>3, <3>1, Appended
    <3>3. CASE n = m
      <4>1. Sees(p, Applied(m)) # None
        <5>1. CASE p = "confirm"
          BY <1>2, <1>3, <5>1 DEF IInv, ConfirmOK, Sees
        <5>2. CASE p = "rebuild"
          BY <1>2, <1>3, <5>2, NoneAssumption DEF IInv, AppliedOK, RebuildOK
        <5> QED
          BY <5>1, <5>2, ProcNames
      <4> QED
        BY <3>2, <3>3, <4>1
    <3>4. CASE n # m
      <4>1. Sees(p, Applied(n)) # None <=> Times(l, n) >= 1
        BY <1>2, <1>3, <1>7, <1>13, <2>2, <3>4, SeenApplied
      <4> QED
        BY <2>3, <3>2, <3>4, <4>1, TimesPositive
    <3> QED
      BY <3>3, <3>4
  <2> HIDE DEF V, S
  <2>5. V \in SUBSET Match /\ S \in SUBSET Match
    BY DEF V, S
  <2>6. NoRepeats(Append(l, m))
    BY <1>9, <1>13, <2>2
  <2>7. In(Append(l, m), S) = Cardinality(V \cap S)
    BY <2>3, <2>4, <2>5, <2>6, InOnce
  <2> QED
    BY <1>9, <2>1, <2>2, <2>7 DEF S
<1>14. DraftOK'
  <2>1. Follows(a)'
    BY <1>4, <1>9, FollowsKept
  <2>2. NoRepeats(a.log) /\ (p = "rebuild" => queue = {}) => Activity(a)'
    BY <1>13, ActivityKept
  <2> QED
    BY <1>4, <1>12, <2>1, <2>2, Same DEF DraftOK, NoRepeats
<1> QED
  BY <1>11, <1>14, CountRow

\* How a transaction ends.
LEMMA Ends ==
  ASSUME TypeOK, ProcOK("confirm"), ProcOK("rebuild"), NEW p \in Proc, NEW c \in BOOLEAN, End(p, c)
  PROVE  /\ table' = [k \in Key |-> table'[k]] /\ draft' = [k \in Key |-> draft'[k]]
         /\ \A k \in Key : table'[k] \in Row(k) \cup {None} /\ draft'[k] \in Row(k) \cup {None}
         /\ holder' \in [Key -> Proc \cup {None}]
         /\ \A k \in Key : /\ table'[k] = IF c /\ holder[k] = p THEN draft[k] ELSE table[k]
                           /\ holder[k] = p => holder'[k] = None
                           /\ holder[k] # p => holder'[k] = holder[k] /\ draft'[k] = draft[k]
                           /\ holder'[k] # p
         /\ pc' \in [Proc -> PC] /\ cur' \in [Proc -> Match \cup {None}]
         /\ rest' \in [Proc -> SUBSET Player]
         /\ pc'[p] = "idle" /\ cur'[p] = None /\ rest'[p] = {}
         /\ \A q \in Proc : q # p => pc'[q] = pc[q] /\ cur'[q] = cur[q] /\ rest'[q] = rest[q]
         /\ \A q \in Proc : q # p => Written(q)' = Written(q)
         /\ Written(p)' = {}
         /\ \A q \in Proc : ProcOK(q)'
<1>1. /\ table = [k \in Key |-> table[k]] /\ draft = [k \in Key |-> draft[k]]
      /\ \A k \in Key : table[k] \in Row(k) \cup {None} /\ draft[k] \in Row(k) \cup {None}
      /\ holder \in [Key -> Proc \cup {None}]
      /\ pc \in [Proc -> PC] /\ cur \in [Proc -> Match \cup {None}] /\ rest \in [Proc -> SUBSET Player]
  BY DEF TypeOK
<1>2. /\ table' = [k \in Key |-> IF c /\ holder[k] = p THEN draft[k] ELSE table[k]]
      /\ draft' = [k \in Key |-> IF holder[k] = p THEN None ELSE draft[k]]
      /\ holder' = [k \in Key |-> IF holder[k] = p THEN None ELSE holder[k]]
      /\ pc' = [pc EXCEPT ![p] = "idle"] /\ cur' = [cur EXCEPT ![p] = None]
      /\ rest' = [rest EXCEPT ![p] = {}]
  BY DEF End
<1>3. /\ table' = [k \in Key |-> table'[k]] /\ draft' = [k \in Key |-> draft'[k]]
      /\ \A k \in Key : table'[k] \in Row(k) \cup {None} /\ draft'[k] \in Row(k) \cup {None}
  BY <1>1, <1>2
<1>4. holder' \in [Key -> Proc \cup {None}]
  BY <1>1, <1>2
<1>5. \A k \in Key : /\ table'[k] = IF c /\ holder[k] = p THEN draft[k] ELSE table[k]
                     /\ holder[k] = p => holder'[k] = None
                     /\ holder[k] # p => holder'[k] = holder[k] /\ draft'[k] = draft[k]
                     /\ holder'[k] # p
  BY <1>1, <1>2, ProcNames
<1>6. /\ pc' \in [Proc -> PC] /\ cur' \in [Proc -> Match \cup {None}]
      /\ rest' \in [Proc -> SUBSET Player]
      /\ pc'[p] = "idle" /\ cur'[p] = None /\ rest'[p] = {}
      /\ \A q \in Proc : q # p => pc'[q] = pc[q] /\ cur'[q] = cur[q] /\ rest'[q] = rest[q]
  BY <1>1, <1>2 DEF PC
<1>7. \A q \in Proc : q # p => Written(q)' = Written(q)
  BY <1>6, Same, Zenon DEF Written
<1>8. Written(p)' = {}
  BY <1>6 DEF Written
<1>9. ASSUME NEW q \in Proc PROVE ProcOK(q)'
  <2>1. CASE q = p
    BY <1>5, <1>6, <2>1, Same DEF ProcOK
  <2>2. CASE q # p
    <3>1. ProcOK(q)
      BY ProcNames
    <3>2. pc[q] = "idle" => \A k \in Key : holder'[k] # q
      <4>1. \A k \in Key : holder'[k] = holder[k] \/ holder'[k] = None
        BY <1>5
      <4> QED
        BY <3>1, <4>1, ProcNames DEF ProcOK
    <3> QED
      BY <1>6, <2>2, <3>1, <3>2, Same DEF ProcOK
  <2> QED
    BY <2>1, <2>2
<1> QED
  BY <1>3, <1>4, <1>5, <1>6, <1>7, <1>8, <1>9

\* Nothing is written by a confirmation that has ended.
LEMMA ConfirmEnded ==
  ASSUME pc'["confirm"] = "idle", \A k \in Key : holder'[k] # "confirm"
  PROVE  ConfirmOK'
<1>1. Written("confirm")' = {}
  BY DEF Written
<1>2. \A n \in Match : Applied(n) \in Key
  BY Keys
<1> QED
  BY <1>1, <1>2, Same DEF ConfirmOK

\* The rating before a match is a number.
LEMMA RatingType ==
  ASSUME TypeOK, EventOK
  PROVE  Rating \in Int /\ Cardinality(verified) \in Nat
<1>1. IsFiniteSet(verified) /\ Cardinality(verified) \in Nat
  BY PlayOrder, FS_Subset, FS_CardinalityType DEF TypeOK
<1>2. \A m \in verified : event[m] \in Event
  BY DEF TypeOK, EventOK
<1>3. \A m \in verified : event[m].no \in Nat /\ event[m].new \in Int
  BY <1>2 DEF Event
<1>4. CASE verified = {}
  BY <1>1, <1>4, NumberAssumption DEF Rating
<1>5. CASE verified # {}
  <2>1. \E m \in verified : \A n \in verified : event[n].no <= event[m].no
    <3>1. PICK m \in verified : event[m].no = Cardinality(verified) - 1
      BY <1>5 DEF EventOK
    <3>2. \A n \in verified : event[n].no < Cardinality(verified)
      BY DEF EventOK
    <3>3. \A n \in verified : event[n].no <= event[m].no
      BY <1>1, <1>3, <3>1, <3>2
    <3> QED
      BY <3>3
  <2>2. PICK c : c = CHOOSE m \in verified : \A n \in verified : event[n].no <= event[m].no
    OBVIOUS
  <2>3. c \in verified
    BY <2>1, <2>2, Zenon
  <2>4. Rating = event[c].new
    BY <1>5, <2>2 DEF Rating
  <2> QED
    BY <1>1, <1>3, <2>3, <2>4
<1> QED
  BY <1>4, <1>5

LEMMA Begins ==
  ASSUME IInv, NEW m \in Match, NEW d \in Delta, BeginVerify(m, d)
  PROVE  IInv'
<1>1. /\ TypeOK /\ ProcOK("confirm") /\ ProcOK("rebuild") /\ EventOK /\ ConfirmOK /\ AppliedOK
      /\ RebuildOK /\ DeleteOK /\ ReplayOK /\ EveryMatchCounted /\ StateFollowsLog
  BY ProcNames DEF IInv
<1>2. PICK e : e = [old |-> Rating, new |-> Rating + (IF Win[m] THEN d ELSE -d),
                    no |-> Cardinality(verified)]
  OBVIOUS
<1>3. /\ pc["confirm"] = "idle" /\ m \notin verified
      /\ pc' = [pc EXCEPT !["confirm"] = "applied"] /\ cur' = [cur EXCEPT !["confirm"] = m]
      /\ event' = [event EXCEPT ![m] = e]
      /\ UNCHANGED <<verified, table, holder, draft, rest, phase, todo, queue, beside, raced>>
  BY <1>2 DEF BeginVerify, rowVars, rbVars, hist
<1>4. e \in Event /\ e # None /\ e.no = Cardinality(verified)
  <2>1. Rating \in Int /\ Cardinality(verified) \in Nat /\ d \in Nat
    BY <1>1, RatingType, NumberAssumption
  <2>2. Rating + (IF Win[m] THEN d ELSE -d) \in Int
    BY <2>1
  <2>3. e \in Event
    BY <1>2, <2>1, <2>2 DEF Event
  <2> QED
    BY <1>2, <2>3, NoneAssumption
<1>5. /\ pc \in [Proc -> PC] /\ cur \in [Proc -> Match \cup {None}]
      /\ event \in [Match -> Event \cup {None}]
  BY <1>1 DEF TypeOK
<1>6. /\ pc' \in [Proc -> PC] /\ cur' \in [Proc -> Match \cup {None}]
      /\ event' \in [Match -> Event \cup {None}]
      /\ pc'["confirm"] = "applied" /\ pc'["rebuild"] = pc["rebuild"]
      /\ cur'["confirm"] = m /\ cur'["rebuild"] = cur["rebuild"]
      /\ event'[m] = e /\ \A n \in Match : n # m => event'[n] = event[n]
  BY <1>3, <1>4, <1>5, ProcNames DEF PC
<1>7. cur["confirm"] = None /\ rest["confirm"] = {}
  BY <1>1, <1>3 DEF ProcOK
<1>8. \A k \in Key : holder[k] # "confirm"
  BY <1>1, <1>3 DEF ProcOK
<1>9. Written("confirm")' = {} /\ Written("rebuild")' = Written("rebuild")
  <2>1. Written("confirm")' = {}
    BY <1>6 DEF Written
  <2>2. Written("rebuild")' = Written("rebuild")
    BY <1>3, <1>6, Same, Zenon DEF Written
  <2> QED
    BY <2>1, <2>2
<1>10. TypeOK'
  BY <1>1, <1>3, <1>6 DEF TypeOK
<1>11. ProcOK("confirm")' /\ ProcOK("rebuild")'
  BY <1>1, <1>3, <1>6, <1>7, NoneAssumption, Same DEF ProcOK
<1>12. EventOK'
  <2>1. \A n \in Match : event'[n] # None <=> n \in verified \cup {m}
    BY <1>1, <1>3, <1>4, <1>6, <1>7, NoneAssumption DEF EventOK
  <2>2. \A n \in verified : n \in Match /\ event'[n] = event[n]
    BY <1>1, <1>3, <1>6 DEF TypeOK
  <2>3. /\ \A n \in verified : event'[n].no < Cardinality(verified)
        /\ verified # {} => \E n \in verified : event'[n].no = Cardinality(verified) - 1
    BY <1>1, <2>2 DEF EventOK
  <2> QED
    BY <1>3, <1>6, <2>1, <2>3 DEF EventOK
<1>13. ConfirmOK'
  <2>1. \A n \in Match : Applied(n) \in Key
    BY Keys
  <2> QED
    BY <1>3, <1>4, <1>6, <1>8, <1>9, <2>1, Same DEF ConfirmOK
<1>14. AppliedOK' /\ RebuildOK' /\ DeleteOK'
  <2>1. AppliedOK'
    BY <1>1, <1>3, <1>6, Same DEF AppliedOK, Sees
  <2>2. RebuildOK'
    BY <1>1, <1>3, <1>6 DEF RebuildOK
  <2>3. DeleteOK'
    <3>1. \A k : Visited(k)' <=> Visited(k)
      BY <1>3 DEF Visited
    <3> QED
      BY <1>1, <1>3, <1>6, <3>1, Same, Zenon DEF DeleteOK, CountedIn, Times
  <2> QED
    BY <2>1, <2>2, <2>3
<1>15. ReplayOK'
  <2> SUFFICES ASSUME pc["rebuild"] \notin {"idle", "delete"}, NEW n \in Match, NEW k \in RowsOf(n)
               PROVE  LET x == Times(CountedIn(k, Sees("rebuild", k)'), n) IN
                      /\ n \notin verified => x = 0
                      /\ n \in verified /\ ~Pending(n, k)' => x >= 1
                      /\ n \notin beside => x <= IF Pending(n, k)' THEN 0 ELSE 1
    BY <1>3, <1>6, Same, Zenon DEF ReplayOK, CountedIn, Times, StateKey
  <2>1. Sees("rebuild", k)' = Sees("rebuild", k)
    BY <1>3 DEF Sees
  <2>2. Pending(n, k)' <=> Pending(n, k)
    BY <1>3, <1>6, <1>9 DEF Pending
  <2> QED
    BY <1>1, <2>1, <2>2, Zenon DEF ReplayOK
<1>16. \A n \in verified : event'[n] = event[n]
  BY <1>1, <1>3, <1>6 DEF TypeOK
<1>17. EveryMatchCounted' /\ StateFollowsLog'
  BY <1>1, <1>3, <1>16, CountedKept, LogKept
<1>18. DraftOK'
  BY <1>3, <1>6, <1>8, <1>16, Keys, DraftKept
<1> QED
  BY <1>10, <1>11, <1>12, <1>13, <1>14, <1>15, <1>17, <1>18, ProcNames DEF IInv

LEMMA CommitsVerify ==
  ASSUME IInv, CommitVerify
  PROVE  IInv'
<1>1. /\ TypeOK /\ ProcOK("confirm") /\ ProcOK("rebuild") /\ EventOK /\ ConfirmOK /\ AppliedOK
      /\ RebuildOK /\ DeleteOK /\ ReplayOK /\ EveryMatchCounted /\ StateFollowsLog /\ DraftOK
  BY ProcNames DEF IInv
<1>2. PICK m : m = cur["confirm"]
  OBVIOUS
<1>3. /\ pc["confirm"] = "rivals" /\ rest["confirm"] = {}
      /\ verified' = verified \cup {m}
      /\ beside' = IF pc["rebuild"] = "delete" THEN beside \cup {m} ELSE beside
      /\ End("confirm", TRUE)
      /\ UNCHANGED <<event, phase, todo, queue, raced>>
  BY <1>2 DEF CommitVerify, rbVars
<1>4. m \in Match /\ m \notin verified /\ event[m].no = Cardinality(verified)
  BY <1>1, <1>2, <1>3 DEF ConfirmOK
<1>5. Written("confirm") = RowsOf(m)
  BY <1>1, <1>2, <1>3, <1>4, NoneAssumption, WrittenRows, ProcNames
<1>6. /\ table' = [k \in Key |-> table'[k]] /\ draft' = [k \in Key |-> draft'[k]]
      /\ \A k \in Key : table'[k] \in Row(k) \cup {None} /\ draft'[k] \in Row(k) \cup {None}
      /\ holder' \in [Key -> Proc \cup {None}]
      /\ \A k \in Key : /\ table'[k] = IF holder[k] = "confirm" THEN draft[k] ELSE table[k]
                        /\ holder[k] = "confirm" => holder'[k] = None
                        /\ holder[k] # "confirm" => holder'[k] = holder[k] /\ draft'[k] = draft[k]
                        /\ holder'[k] # "confirm"
  BY <1>1, <1>3, Ends, ProcNames
<1>7. /\ pc' \in [Proc -> PC] /\ cur' \in [Proc -> Match \cup {None}]
      /\ rest' \in [Proc -> SUBSET Player]
      /\ pc'["confirm"] = "idle" /\ cur'["confirm"] = None
      /\ pc'["rebuild"] = pc["rebuild"] /\ cur'["rebuild"] = cur["rebuild"]
      /\ Written("rebuild")' = Written("rebuild")
      /\ \A q \in Proc : ProcOK(q)'
  BY <1>1, <1>3, Ends, ProcNames
\* The rows of the match count it once more, all others stay.
<1>8. ASSUME NEW k \in Key \ AppliedKey
      PROVE  /\ k \in RowsOf(m) => CountedIn(k, table'[k]) = Append(CountedIn(k, table[k]), m)
             /\ k \notin RowsOf(m) => table'[k] = table[k]
             /\ k \in RowsOf(m) <=> holder[k] = "confirm"
  BY <1>1, <1>2, <1>5, <1>6 DEF ConfirmOK
<1>9. ASSUME NEW n \in Match, NEW k \in RowsOf(n)
      PROVE  LET x == Times(CountedIn(k, table[k]), n) IN
             x \in Nat /\ Times(CountedIn(k, table'[k]), n) = IF n = m THEN x + 1 ELSE x
  <2>1. k \in Key \ AppliedKey
    BY RowKeys
  <2>2. PICK l : l = CountedIn(k, table[k])
    OBVIOUS
  <2>3. l \in Seq(Match)
    BY <1>1, <2>1, <2>2, CountedType DEF TypeOK
  <2>4. CASE k \in RowsOf(m)
    <3>1. CountedIn(k, table'[k]) = Append(l, m)
      BY <1>8, <2>1, <2>2, <2>4
    <3> QED
      BY <1>4, <2>2, <2>3, <3>1, TimesAppend
  <2>5. CASE k \notin RowsOf(m)
    <3>1. table'[k] = table[k] /\ n # m
      BY <1>8, <2>1, <2>5
    <3> QED
      BY <2>2, <2>3, <3>1, TimesAppend
  <2> QED
    BY <2>4, <2>5
<1>10. \A n \in Match : Applied(n) \in Key
  BY Keys
<1>11. TypeOK'
  <2>1. event' = event /\ verified' \subseteq Match /\ beside' \subseteq Match
    BY <1>1, <1>3, <1>4 DEF TypeOK
  <2> QED
    BY <1>1, <1>3, <1>6, <1>7, <2>1, Same DEF TypeOK, Row
<1>12. EventOK'
  <2>1. IsFiniteSet(verified) /\ Cardinality(verified) \in Nat
    BY <1>1, PlayOrder, FS_Subset, FS_CardinalityType DEF TypeOK
  <2>2. Cardinality(verified') = Cardinality(verified) + 1
    BY <1>3, <1>4, <2>1, FS_AddElement
  <2>3. \A n \in Match : event'[n] # None <=> n \in verified' \cup {cur'["confirm"]}
    BY <1>1, <1>2, <1>3, <1>7, NoneAssumption DEF EventOK
  <2>4. \A n \in verified : event[n].no \in Nat
    <3>1. \A n \in verified : event[n] \in Event
      BY <1>1 DEF TypeOK, EventOK
    <3> QED
      BY <3>1 DEF Event
  <2>5. \A n \in verified' : event'[n].no < Cardinality(verified')
    BY <1>1, <1>3, <1>4, <2>1, <2>2, <2>4 DEF EventOK
  <2>6. m \in verified' /\ event'[m].no = Cardinality(verified') - 1
    BY <1>3, <1>4, <2>1, <2>2
  <2> QED
    BY <2>3, <2>5, <2>6 DEF EventOK
<1>13. ConfirmOK'
  BY <1>6, <1>7, ConfirmEnded
<1>14. AppliedOK'
  <2> SUFFICES ASSUME NEW n \in Match
               PROVE  /\ table'[Applied(n)] # None <=> n \in verified'
                      /\ holder'[Applied(n)] = "rebuild" => n \in verified'
                      /\ /\ pc["rebuild"] \notin {"idle", "delete"}
                         /\ n \in verified' /\ Sees("rebuild", Applied(n))' = None
                         => n \in queue \/ (n = cur["rebuild"] /\ pc["rebuild"] = "applied")
    BY <1>3, <1>7, Same DEF AppliedOK
  <2>1. Applied(n) \in Key
    BY Keys
  <2>2. CASE n = m
    <3>1. holder[Applied(n)] = "confirm" /\ draft[Applied(n)] # None
      BY <1>1, <1>2, <1>3, <2>2 DEF ConfirmOK
    <3>2. table'[Applied(n)] # None /\ holder'[Applied(n)] = None
      BY <1>6, <2>1, <3>1
    <3>3. Sees("rebuild", Applied(n))' = table'[Applied(n)]
      BY <3>2, ProcNames, Same DEF Sees
    <3> QED
      BY <1>3, <2>2, <3>2, <3>3, ProcNames
  <2>3. CASE n # m
    <3>1. holder[Applied(n)] # "confirm"
      BY <1>1, <1>2, <2>3 DEF ConfirmOK
    <3>2. table'[Applied(n)] = table[Applied(n)] /\ holder'[Applied(n)] = holder[Applied(n)]
          /\ draft'[Applied(n)] = draft[Applied(n)]
      BY <1>6, <2>1, <3>1
    <3>3. Sees("rebuild", Applied(n))' = Sees("rebuild", Applied(n))
      BY <3>2, Same DEF Sees
    <3> QED
      BY <1>1, <1>3, <2>3, <3>2, <3>3 DEF AppliedOK
  <2> QED
    BY <2>2, <2>3
<1>15. RebuildOK'
  <2>1. \A k \in todo : table'[k] # None
    <3> SUFFICES ASSUME NEW k \in todo PROVE table'[k] # None
      OBVIOUS
    <3>1. k \in Key /\ table[k] # None
      BY <1>1 DEF RebuildOK, TypeOK
    <3>2. holder[k] = "confirm" => draft[k] # None
      BY <1>1, <3>1, Keys DEF ConfirmOK
    <3> QED
      BY <1>6, <3>1, <3>2
  <2> QED
    BY <1>1, <1>3, <1>7, <2>1 DEF RebuildOK
<1>16. DeleteOK'
  <2>1. ASSUME pc["rebuild"] = "delete", NEW k \in Key, holder'[k] = "rebuild" PROVE draft'[k] = None
    <3>1. holder[k] # "confirm"
      BY <1>6, <2>1, ProcNames
    <3> QED
      BY <1>1, <1>6, <2>1, <3>1 DEF DeleteOK
  <2>2. ASSUME pc["rebuild"] = "delete", NEW n \in Match, NEW k \in Key, k \in RowsOf(n), Visited(k)',
               holder'[k] # "rebuild", Times(CountedIn(k, table'[k]), n) >= 1
        PROVE  n \in beside'
    <3>1. CASE n = m
      BY <1>3, <2>2, <3>1
    <3>2. CASE n # m
      <4>1. Times(CountedIn(k, table[k]), n) >= 1
        BY <1>9, <2>2, <3>2
      <4>2. Visited(k)
        BY <1>3, <2>2 DEF Visited
      <4>3. holder[k] # "rebuild"
        BY <1>6, <2>2, ProcNames
      <4> QED
        BY <1>1, <1>3, <2>2, <4>1, <4>2, <4>3 DEF DeleteOK
    <3> QED
      BY <3>1, <3>2
  <2> QED
    BY <1>7, <2>1, <2>2, Same, Zenon DEF DeleteOK, CountedIn, Times
<1>17. ReplayOK'
  <2> SUFFICES ASSUME pc["rebuild"] \notin {"idle", "delete"}, NEW n \in Match, NEW k \in RowsOf(n)
               PROVE  LET x == Times(CountedIn(k, Sees("rebuild", k)'), n) IN
                      /\ n \notin verified' => x = 0
                      /\ n \in verified' /\ ~Pending(n, k)' => x >= 1
                      /\ n \notin beside' => x <= IF Pending(n, k)' THEN 0 ELSE 1
    BY <1>7, Same, Zenon DEF ReplayOK, CountedIn, Times, StateKey
  <2>1. k \in Key \ AppliedKey
    BY RowKeys
  <2>2. Pending(n, k)' <=> Pending(n, k)
    BY <1>3, <1>7 DEF Pending
  <2>3. PICK x : x = Times(CountedIn(k, Sees("rebuild", k)), n)
    OBVIOUS
  <2>4. /\ n \notin verified => x = 0
        /\ n \in verified /\ ~Pending(n, k) => x >= 1
        /\ n \notin beside => x <= IF Pending(n, k) THEN 0 ELSE 1
    BY <1>1, <2>3, Zenon DEF ReplayOK
  <2>5. beside' = beside
    BY <1>3
  <2>6. CASE holder[k] = "rebuild"
    <3>1. Sees("rebuild", k)' = Sees("rebuild", k)
      BY <1>6, <2>1, <2>6, ProcNames DEF Sees
    <3>2. n # m
      <4>1. k \notin RowsOf(m)
        BY <1>8, <2>1, <2>6, ProcNames
      <4> QED
        BY <4>1
    <3>3. n \in verified' <=> n \in verified
      BY <1>3, <3>2
    <3> QED
      BY <2>2, <2>3, <2>4, <2>5, <3>1, <3>3
  <2>7. CASE holder[k] # "rebuild"
    <3>1. Sees("rebuild", k) = table[k]
      BY <2>7 DEF Sees
    <3>2. Sees("rebuild", k)' = table'[k]
      <4>1. holder'[k] # "rebuild"
        BY <1>6, <2>1, <2>7, ProcNames
      <4> QED
        BY <4>1 DEF Sees
    <3>3. x \in Nat /\ Times(CountedIn(k, table'[k]), n) = IF n = m THEN x + 1 ELSE x
      BY <1>9, <2>3, <3>1
    <3>4. CASE n = m
      <4>1. ~Pending(n, k)
        BY <1>1, <1>4, <3>4, NoneAssumption DEF Pending, RebuildOK
      <4>2. x = 0
        BY <1>4, <2>4, <3>4
      <4> QED
        BY <1>3, <2>2, <3>2, <3>3, <3>4, <4>1, <4>2
    <3>5. CASE n # m
      <4>1. n \in verified' <=> n \in verified
        BY <1>3, <3>5
      <4> QED
        BY <2>2, <2>4, <2>5, <3>2, <3>3, <3>5, <4>1
    <3> QED
      BY <3>4, <3>5
  <2> QED
    BY <2>6, <2>7
<1>18. EveryMatchCounted'
  <2> SUFFICES ASSUME NEW n \in Match, NEW k \in RowsOf(n)
               PROVE  LET x == Times(CountedIn(k, table'[k]), n) IN
                      /\ x >= 1 <=> n \in verified'
                      /\ n \notin raced => x <= 1
    BY <1>3, Same, Zenon DEF EveryMatchCounted, CountedIn, Times, StateKey
  <2>1. PICK x : x = Times(CountedIn(k, table[k]), n)
    OBVIOUS
  <2>2. x \in Nat /\ Times(CountedIn(k, table'[k]), n) = IF n = m THEN x + 1 ELSE x
    BY <1>9, <2>1
  <2>3. (x >= 1 <=> n \in verified) /\ (n \notin raced => x <= 1)
    BY <1>1, <2>1 DEF EveryMatchCounted
  <2> QED
    BY <1>3, <1>4, <2>2, <2>3
<1>19. holder[StateKey] = "confirm" /\ StateKey \in Key
  BY <1>4, <1>8, RowKeys
<1>20. DraftOK'
  BY <1>6, <1>19, Same DEF DraftOK
<1>21. StateFollowsLog'
  <2>1. PICK st : st = draft[StateKey]
    OBVIOUS
  <2>2. st # None /\ st = table'[StateKey]
    BY <1>1, <1>6, <1>19, <2>1, Keys DEF ConfirmOK
  <2>3. st \in State /\ Follows(st) /\ (NoRepeats(st.log) => Activity(st))
    <3>1. st \in State
      BY <1>1, <1>19, <2>1, <2>2, RowTypes DEF TypeOK
    <3> QED
      BY <1>1, <1>19, <2>1, <2>2, <3>1, ProcNames DEF DraftOK
  <2>4. Follows(st)' /\ (NoRepeats(st.log) => Activity(st)')
    BY <1>3, <2>3, FollowsKept, ActivityKept
  <2> QED
    BY <2>2, <2>4, Same DEF StateFollowsLog, NoRepeats
<1> QED
  BY <1>7, <1>11, <1>12, <1>13, <1>14, <1>15, <1>16, <1>17, <1>18, <1>20, <1>21 DEF IInv

LEMMA ConfirmRollback ==
  ASSUME IInv, pc["confirm"] # "idle", Rollback("confirm")
  PROVE  IInv'
<1>1. /\ TypeOK /\ ProcOK("confirm") /\ ProcOK("rebuild") /\ EventOK /\ ConfirmOK /\ AppliedOK
      /\ RebuildOK /\ DeleteOK /\ ReplayOK /\ EveryMatchCounted /\ StateFollowsLog
  BY ProcNames DEF IInv
<1>2. PICK m : m = cur["confirm"]
  OBVIOUS
<1>3. /\ End("confirm", FALSE) /\ event' = [event EXCEPT ![m] = None]
      /\ UNCHANGED <<verified, phase, todo, queue, beside, raced>>
  BY <1>2, ProcNames DEF Rollback, rbVars
<1>4. m \in Match /\ m \notin verified
  BY <1>1, <1>2 DEF ConfirmOK
<1>5. /\ table' = [k \in Key |-> table'[k]] /\ draft' = [k \in Key |-> draft'[k]]
      /\ \A k \in Key : draft'[k] \in Row(k) \cup {None}
      /\ holder' \in [Key -> Proc \cup {None}]
      /\ \A k \in Key : /\ table'[k] = table[k]
                        /\ holder[k] = "confirm" => holder'[k] = None
                        /\ holder[k] # "confirm" => holder'[k] = holder[k] /\ draft'[k] = draft[k]
                        /\ holder'[k] # "confirm"
  BY <1>1, <1>3, Ends, ProcNames
<1>6. /\ pc' \in [Proc -> PC] /\ cur' \in [Proc -> Match \cup {None}]
      /\ rest' \in [Proc -> SUBSET Player]
      /\ pc'["confirm"] = "idle" /\ cur'["confirm"] = None
      /\ pc'["rebuild"] = pc["rebuild"] /\ cur'["rebuild"] = cur["rebuild"]
      /\ Written("rebuild")' = Written("rebuild")
      /\ \A q \in Proc : ProcOK(q)'
  BY <1>1, <1>3, Ends, ProcNames
<1>7. table' = table
  <2>1. table = [k \in Key |-> table[k]]
    BY <1>1 DEF TypeOK
  <2>2. [k \in Key |-> table'[k]] = [k \in Key |-> table[k]]
    BY <1>5
  <2> QED
    BY <1>5, <2>1, <2>2
<1>8. /\ event' \in [Match -> Event \cup {None}] /\ event'[m] = None
      /\ \A n \in Match : n # m => event'[n] = event[n]
  BY <1>1, <1>3, <1>4 DEF TypeOK
<1>9. \A k \in Key : Sees("rebuild", k)' = Sees("rebuild", k)
  BY <1>5, <1>7, ProcNames DEF Sees
<1>10. TypeOK'
  BY <1>1, <1>3, <1>5, <1>6, <1>7, <1>8 DEF TypeOK
<1>11. EventOK'
  <2>1. \A n \in Match : event'[n] # None <=> n \in verified \cup {None}
    BY <1>1, <1>2, <1>4, <1>8, NoneAssumption DEF EventOK
  <2>2. \A n \in verified : event'[n] = event[n]
    BY <1>1, <1>4, <1>8 DEF TypeOK
  <2>3. /\ \A n \in verified : event'[n].no < Cardinality(verified)
        /\ verified # {} => \E n \in verified : event'[n].no = Cardinality(verified) - 1
    BY <1>1, <2>2 DEF EventOK
  <2> QED
    BY <1>3, <1>6, <2>1, <2>3 DEF EventOK
<1>12. ConfirmOK'
  BY <1>5, <1>6, ConfirmEnded
<1>13. AppliedOK'
  <2>1. \A n \in Match : Applied(n) \in Key /\ Sees("rebuild", Applied(n))' = Sees("rebuild", Applied(n))
    BY <1>9, Keys
  <2>2. \A n \in Match : holder'[Applied(n)] = "rebuild" => holder[Applied(n)] = "rebuild"
    BY <1>5, <2>1, ProcNames
  <2> QED
    BY <1>1, <1>3, <1>6, <1>7, <2>1, <2>2, Same DEF AppliedOK
<1>14. RebuildOK'
  BY <1>1, <1>3, <1>6, <1>7 DEF RebuildOK
<1>15. DeleteOK'
  <2>1. ASSUME pc["rebuild"] = "delete", NEW k \in Key, holder'[k] = "rebuild" PROVE draft'[k] = None
    <3>1. holder[k] # "confirm"
      BY <1>5, <2>1, ProcNames
    <3> QED
      BY <1>1, <1>5, <2>1, <3>1 DEF DeleteOK
  <2>2. ASSUME pc["rebuild"] = "delete", NEW n \in Match, NEW k \in Key, k \in RowsOf(n), Visited(k)',
               holder'[k] # "rebuild", Times(CountedIn(k, table[k]), n) >= 1
        PROVE  n \in beside
    <3>1. Visited(k)
      BY <1>3, <2>2 DEF Visited
    <3>2. holder[k] # "rebuild"
      BY <1>5, <2>2, ProcNames
    <3> QED
      BY <1>1, <2>2, <3>1, <3>2 DEF DeleteOK
  <2> QED
    BY <1>3, <1>6, <1>7, <2>1, <2>2, Same, Zenon DEF DeleteOK, CountedIn, Times
<1>16. ReplayOK'
  <2> SUFFICES ASSUME pc["rebuild"] \notin {"idle", "delete"}, NEW n \in Match, NEW k \in RowsOf(n)
               PROVE  LET x == Times(CountedIn(k, Sees("rebuild", k)'), n) IN
                      /\ n \notin verified => x = 0
                      /\ n \in verified /\ ~Pending(n, k)' => x >= 1
                      /\ n \notin beside => x <= IF Pending(n, k)' THEN 0 ELSE 1
    BY <1>3, <1>6, Same, Zenon DEF ReplayOK, CountedIn, Times, StateKey
  <2>1. Sees("rebuild", k)' = Sees("rebuild", k)
    BY <1>9, RowKeys
  <2>2. Pending(n, k)' <=> Pending(n, k)
    BY <1>3, <1>6 DEF Pending
  <2> QED
    BY <1>1, <2>1, <2>2, Zenon DEF ReplayOK
<1>17. \A n \in verified : event'[n] = event[n]
  BY <1>1, <1>4, <1>8 DEF TypeOK
<1>18. EveryMatchCounted' /\ StateFollowsLog'
  BY <1>1, <1>3, <1>7, <1>17, CountedKept, LogKept
<1>19. DraftOK'
  <2>1. /\ holder'[StateKey] \in {holder[StateKey], None}
        /\ holder'[StateKey] # None => draft'[StateKey] = draft[StateKey]
        /\ holder'[StateKey] # "confirm"
    BY <1>5, Keys
  <2> QED
    BY <1>3, <1>6, <1>17, <2>1, DraftKept
<1> QED
  BY <1>6, <1>10, <1>11, <1>12, <1>13, <1>14, <1>15, <1>16, <1>18, <1>19 DEF IInv

\* When the rebuild ends the confirmation keeps what it has written.
LEMMA ConfirmKept ==
  ASSUME ConfirmOK, UNCHANGED <<verified, event>>,
         pc'["confirm"] = pc["confirm"], cur'["confirm"] = cur["confirm"],
         Written("confirm")' = Written("confirm"),
         \A k \in Key : /\ holder'[k] = "confirm" <=> holder[k] = "confirm"
                        /\ holder[k] = "confirm" => draft'[k] = draft[k] /\ table'[k] = table[k]
  PROVE  ConfirmOK'
<1>1. \A n \in Match : Applied(n) \in Key
  BY Keys
<1>2. /\ pc'["confirm"] # "delete"
      /\ pc'["confirm"] # "idle" =>
           /\ cur["confirm"] \in Match \ verified
           /\ event[cur["confirm"]].no = Cardinality(verified)
  BY DEF ConfirmOK
<1>3. ASSUME NEW k \in Key \ AppliedKey
      PROVE  /\ holder'[k] = "confirm" <=> k \in Written("confirm")'
             /\ holder'[k] = "confirm" =>
                  draft'[k] # None /\ CountedIn(k, draft'[k]) = Append(CountedIn(k, table'[k]), cur["confirm"])
  BY DEF ConfirmOK
<1>4. ASSUME NEW n \in Match
      PROVE  /\ holder'[Applied(n)] = "confirm" <=>
                  n = cur["confirm"] /\ pc'["confirm"] \in {"state", "partner", "rivals"}
             /\ holder'[Applied(n)] = "confirm" => draft'[Applied(n)] # None
  BY <1>1 DEF ConfirmOK
<1> QED
  BY <1>2, <1>3, <1>4, Same DEF ConfirmOK

LEMMA RebuildRollback ==
  ASSUME IInv, Rollback("rebuild")
  PROVE  IInv'
<1>1. /\ TypeOK /\ ProcOK("confirm") /\ ProcOK("rebuild") /\ EventOK /\ ConfirmOK /\ AppliedOK
      /\ EveryMatchCounted /\ StateFollowsLog
  BY ProcNames DEF IInv
<1>2. /\ End("rebuild", FALSE) /\ phase' = 0 /\ todo' = {} /\ queue' = {} /\ beside' = {}
      /\ UNCHANGED <<verified, event, raced>>
  BY ProcNames DEF Rollback
<1>3. /\ table' = [k \in Key |-> table'[k]] /\ draft' = [k \in Key |-> draft'[k]]
      /\ \A k \in Key : draft'[k] \in Row(k) \cup {None}
      /\ holder' \in [Key -> Proc \cup {None}]
      /\ \A k \in Key : /\ table'[k] = table[k]
                        /\ holder[k] = "rebuild" => holder'[k] = None
                        /\ holder[k] # "rebuild" => holder'[k] = holder[k] /\ draft'[k] = draft[k]
                        /\ holder'[k] # "rebuild"
  BY <1>1, <1>2, Ends, ProcNames
<1>4. /\ pc' \in [Proc -> PC] /\ cur' \in [Proc -> Match \cup {None}]
      /\ rest' \in [Proc -> SUBSET Player]
      /\ pc'["rebuild"] = "idle" /\ cur'["rebuild"] = None
      /\ pc'["confirm"] = pc["confirm"] /\ cur'["confirm"] = cur["confirm"]
      /\ Written("confirm")' = Written("confirm")
      /\ \A q \in Proc : ProcOK(q)'
  BY <1>1, <1>2, Ends, ProcNames
<1>5. table' = table
  <2>1. table = [k \in Key |-> table[k]]
    BY <1>1 DEF TypeOK
  <2>2. [k \in Key |-> table'[k]] = [k \in Key |-> table[k]]
    BY <1>3
  <2> QED
    BY <1>3, <2>1, <2>2
<1>6. TypeOK'
  BY <1>1, <1>2, <1>3, <1>4, <1>5 DEF TypeOK, DeleteOrder
<1>7. EventOK'
  BY <1>1, <1>2, <1>4 DEF EventOK
<1>8. ConfirmOK'
  <2>1. \A k \in Key : /\ holder'[k] = "confirm" <=> holder[k] = "confirm"
                       /\ holder[k] = "confirm" => draft'[k] = draft[k] /\ table'[k] = table[k]
    BY <1>3, ProcNames
  <2> QED
    BY <1>1, <1>2, <1>4, <2>1, ConfirmKept
<1>9. AppliedOK' /\ RebuildOK' /\ DeleteOK' /\ ReplayOK'
  <2>1. \A n \in Match : Applied(n) \in Key
    BY Keys
  <2>2. AppliedOK'
    BY <1>1, <1>2, <1>3, <1>4, <1>5, <2>1, Same DEF AppliedOK
  <2>3. RebuildOK' /\ DeleteOK' /\ ReplayOK'
    BY <1>2, <1>4 DEF RebuildOK, DeleteOK, ReplayOK
  <2> QED
    BY <2>2, <2>3
<1>10. EveryMatchCounted' /\ StateFollowsLog'
  BY <1>1, <1>2, <1>5, CountedKept, LogKept
<1>11. DraftOK'
  <2>1. /\ holder'[StateKey] \in {holder[StateKey], None}
        /\ holder'[StateKey] # None => draft'[StateKey] = draft[StateKey]
        /\ holder'[StateKey] # "rebuild"
    BY <1>3, Keys
  <2> QED
    BY <1>2, <2>1, DraftKept
<1> QED
  BY <1>4, <1>6, <1>7, <1>8, <1>9, <1>10, <1>11 DEF IInv

\* What the other steps of a rebuild leave alone.
LEMMA RebuildSteps ==
  ASSUME IInv, UNCHANGED <<verified, event, table, raced>>,
         pc'["confirm"] = pc["confirm"], cur'["confirm"] = cur["confirm"],
         rest'["confirm"] = rest["confirm"],
         \A k \in Key : /\ holder'[k] = "confirm" <=> holder[k] = "confirm"
                        /\ holder[k] = "confirm" => draft'[k] = draft[k]
  PROVE  ProcOK("confirm")' /\ EventOK' /\ ConfirmOK' /\ EveryMatchCounted' /\ StateFollowsLog'
<1>1. /\ TypeOK /\ ProcOK("confirm") /\ EventOK /\ ConfirmOK /\ EveryMatchCounted /\ StateFollowsLog
  BY ProcNames DEF IInv
<1>2. ProcOK("confirm")'
  BY <1>1, Same DEF ProcOK
<1>3. EventOK'
  BY <1>1 DEF EventOK
<1>4. Written("confirm")' = Written("confirm")
  BY Same, Zenon DEF Written
<1>5. ConfirmOK'
  BY <1>1, <1>4, ConfirmKept
<1>6. EveryMatchCounted' /\ StateFollowsLog'
  BY <1>1, CountedKept, LogKept
<1> QED
  BY <1>2, <1>3, <1>5, <1>6

\* A row the snapshot of a DELETE leaves out does not exist.
LEMMA Snapshot ==
  ASSUME NEW i, NEW k \in Key, k \notin Rows(i), k[1] = DeleteOrder[i], NEW n \in Match
  PROVE  table[k] = None /\ Times(CountedIn(k, table[k]), n) = 0
<1>1. table[k] = None
  BY DEF Rows
<1> QED
  BY <1>1, CountedNone

LEMMA BeginsRebuild ==
  ASSUME IInv, BeginRebuild
  PROVE  IInv'
<1>1. TypeOK /\ ProcOK("rebuild") /\ AppliedOK /\ RebuildOK
  BY ProcNames DEF IInv
<1>2. /\ pc["rebuild"] = "idle" /\ pc' = [pc EXCEPT !["rebuild"] = "delete"]
      /\ phase' = 1 /\ todo' = Rows(1)
      /\ UNCHANGED <<verified, event, table, holder, draft, cur, rest, queue, beside, raced>>
  BY DEF BeginRebuild, dbVars, rowVars, hist
<1>3. /\ pc' \in [Proc -> PC] /\ pc'["rebuild"] = "delete" /\ pc'["confirm"] = pc["confirm"]
  BY <1>1, <1>2, ProcNames DEF TypeOK, PC
<1>4. Rows(1) \subseteq Key /\ \A k \in Rows(1) : table[k] # None
  BY DEF Rows
<1>5. \A k \in Key : holder[k] # "rebuild"
  BY <1>1, <1>2 DEF ProcOK
<1>6. TypeOK'
  BY <1>1, <1>2, <1>3, <1>4 DEF TypeOK, DeleteOrder
<1>7. ProcOK("rebuild")'
  BY <1>1, <1>2, <1>3, Same DEF ProcOK
<1>8. AppliedOK'
  BY <1>1, <1>2, <1>3, Same DEF AppliedOK
<1>9. RebuildOK'
  BY <1>1, <1>2, <1>3, <1>4 DEF RebuildOK
<1>10. DeleteOK'
  <2>1. ASSUME NEW n \in Match, NEW k \in Key, Visited(k)' PROVE ~(Times(CountedIn(k, table[k]), n) >= 1)
    <3>1. k \notin Rows(1) /\ k[1] = DeleteOrder[1]
      BY <1>2, <2>1 DEF Visited, DeleteOrder
    <3>2. Times(CountedIn(k, table[k]), n) = 0
      BY <3>1, Snapshot
    <3> QED
      BY <3>2
  <2> QED
    BY <1>2, <1>5, <2>1, Same, Zenon DEF DeleteOK, CountedIn, Times
<1>11. ReplayOK'
  BY <1>3 DEF ReplayOK
<1>12. DraftOK'
  BY <1>2, <1>3, Keys, DraftKept
<1>13. ProcOK("confirm")' /\ EventOK' /\ ConfirmOK' /\ EveryMatchCounted' /\ StateFollowsLog'
  BY <1>2, <1>3, RebuildSteps
<1> QED
  BY <1>6, <1>7, <1>8, <1>9, <1>10, <1>11, <1>12, <1>13, ProcNames DEF IInv

LEMMA DeletesRow ==
  ASSUME IInv, NEW k \in Key, DeleteRow(k)
  PROVE  IInv'
<1>1. TypeOK /\ ProcOK("rebuild") /\ AppliedOK /\ RebuildOK /\ DeleteOK
  BY ProcNames DEF IInv
<1>2. /\ pc["rebuild"] = "delete" /\ k \in todo /\ Write("rebuild", k, None) /\ todo' = todo \ {k}
      /\ UNCHANGED <<verified, event, table, pc, cur, rest, phase, queue, beside, raced>>
  BY DEF DeleteRow, dbVars, hist
<1>3. /\ holder[k] \in {None, "rebuild"}
      /\ holder' \in [Key -> Proc \cup {None}] /\ draft' = [i \in Key |-> draft'[i]]
      /\ \A i \in Key : draft'[i] \in Row(i) \cup {None}
      /\ holder'[k] = "rebuild" /\ draft'[k] = None
      /\ \A i \in Key : i # k => holder'[i] = holder[i] /\ draft'[i] = draft[i]
  BY <1>1, <1>2, Writes, ProcNames
<1>4. TypeOK'
  BY <1>1, <1>2, <1>3 DEF TypeOK
<1>5. ProcOK("rebuild")'
  BY <1>1, <1>2, Same DEF ProcOK
<1>6. AppliedOK'
  <2>1. ASSUME NEW n \in Match, holder'[Applied(n)] = "rebuild" PROVE n \in verified
    <3>1. CASE Applied(n) = k
      BY <1>1, <1>2, <3>1 DEF AppliedOK, RebuildOK
    <3>2. CASE Applied(n) # k
      <4>1. holder[Applied(n)] = "rebuild"
        BY <1>3, <2>1, <3>2, Keys
      <4> QED
        BY <1>1, <4>1 DEF AppliedOK
    <3> QED
      BY <3>1, <3>2
  <2> QED
    BY <1>1, <1>2, <2>1, Same DEF AppliedOK
<1>7. RebuildOK'
  BY <1>1, <1>2 DEF RebuildOK
<1>8. DeleteOK'
  <2>1. ASSUME NEW i \in Key, holder'[i] = "rebuild" PROVE draft'[i] = None
    BY <1>1, <1>2, <1>3, <2>1 DEF DeleteOK
  <2>2. ASSUME NEW n \in Match, NEW i \in Key, i \in RowsOf(n), Visited(i)',
               holder'[i] # "rebuild", Times(CountedIn(i, table[i]), n) >= 1
        PROVE  n \in beside
    <3>1. i # k
      BY <1>3, <2>2
    <3>2. Visited(i) /\ holder[i] # "rebuild"
      BY <1>2, <1>3, <2>2, <3>1 DEF Visited
    <3> QED
      BY <1>1, <1>2, <2>2, <3>2 DEF DeleteOK
  <2> QED
    BY <1>2, <2>1, <2>2, Same, Zenon DEF DeleteOK, CountedIn, Times
<1>9. ReplayOK'
  BY <1>2 DEF ReplayOK
<1>10. DraftOK'
  <2>1. CASE k = StateKey
    BY <1>3, <2>1, Same DEF DraftOK
  <2>2. CASE k # StateKey
    BY <1>2, <1>3, <2>2, Keys, DraftKept
  <2> QED
    BY <2>1, <2>2
<1>11. ProcOK("confirm")' /\ EventOK' /\ ConfirmOK' /\ EveryMatchCounted' /\ StateFollowsLog'
  <2>1. \A i \in Key : /\ holder'[i] = "confirm" <=> holder[i] = "confirm"
                       /\ holder[i] = "confirm" => draft'[i] = draft[i]
    BY <1>3, ProcNames
  <2> QED
    BY <1>2, <2>1, RebuildSteps
<1> QED
  BY <1>4, <1>5, <1>6, <1>7, <1>8, <1>9, <1>10, <1>11, ProcNames DEF IInv

LEMMA NextsDelete ==
  ASSUME IInv, NextDelete
  PROVE  IInv'
<1>1. TypeOK /\ ProcOK("rebuild") /\ AppliedOK /\ RebuildOK /\ DeleteOK
  BY ProcNames DEF IInv
<1>2. /\ pc["rebuild"] = "delete" /\ todo = {} /\ phase < 4
      /\ phase' = phase + 1 /\ todo' = Rows(phase + 1)
      /\ UNCHANGED <<verified, event, table, holder, draft, pc, cur, rest, queue, beside, raced>>
  BY DEF NextDelete, DeleteOrder, dbVars, rowVars, hist
<1>3. phase \in 0..4 /\ phase + 1 \in 0..4
  BY <1>1, <1>2 DEF TypeOK, DeleteOrder
<1>4. Rows(phase + 1) \subseteq Key /\ \A k \in Rows(phase + 1) : table[k] # None
  BY DEF Rows
<1>5. TypeOK'
  BY <1>1, <1>2, <1>3, <1>4 DEF TypeOK, DeleteOrder
<1>6. ProcOK("rebuild")'
  BY <1>1, <1>2, Same DEF ProcOK
<1>7. AppliedOK'
  BY <1>1, <1>2, Same DEF AppliedOK
<1>8. RebuildOK'
  BY <1>1, <1>2, <1>3, <1>4 DEF RebuildOK
<1>9. DeleteOK'
  <2>1. ASSUME NEW n \in Match, NEW k \in Key, k \in RowsOf(n), Visited(k)',
               holder[k] # "rebuild", Times(CountedIn(k, table[k]), n) >= 1
        PROVE  n \in beside
    <3>1. k \notin Rows(phase + 1) /\ \E i \in 1..phase + 1 : k[1] = DeleteOrder[i]
      BY <1>2, <2>1 DEF Visited
    <3>2. CASE k[1] = DeleteOrder[phase + 1]
      <4>1. Times(CountedIn(k, table[k]), n) = 0
        BY <3>1, <3>2, Snapshot
      <4> QED
        BY <2>1, <4>1
    <3>3. CASE \E i \in 1..phase : k[1] = DeleteOrder[i]
      <4>1. Visited(k)
        BY <1>2, <3>3 DEF Visited
      <4> QED
        BY <1>1, <1>2, <2>1, <4>1 DEF DeleteOK
    <3> QED
      BY <1>3, <3>1, <3>2, <3>3
  <2>2. \A k \in Key : holder[k] = "rebuild" => draft[k] = None
    BY <1>1, <1>2 DEF DeleteOK
  <2> QED
    BY <1>2, <2>1, <2>2, Same, Zenon DEF DeleteOK, CountedIn, Times
<1>10. ReplayOK'
  BY <1>2 DEF ReplayOK
<1>11. DraftOK'
  BY <1>2, DraftKept
<1>12. ProcOK("confirm")' /\ EventOK' /\ ConfirmOK' /\ EveryMatchCounted' /\ StateFollowsLog'
  BY <1>2, RebuildSteps
<1> QED
  BY <1>5, <1>6, <1>7, <1>8, <1>9, <1>10, <1>11, <1>12, ProcNames DEF IInv

\* The next match to apply.
LEMMA ReplayPicks ==
  ASSUME TypeOK, NEW S, S # {}, Replay(S)
  PROVE  \E m \in S : /\ pc' = [pc EXCEPT !["rebuild"] = "applied"]
                      /\ cur' = [cur EXCEPT !["rebuild"] = m] /\ queue' = S \ {m}
BY DEF Replay

LEMMA SelectsVerified ==
  ASSUME IInv, SelectVerified
  PROVE  IInv'
<1>1. /\ TypeOK /\ ProcOK("rebuild") /\ AppliedOK /\ RebuildOK /\ DeleteOK /\ EveryMatchCounted
  BY ProcNames DEF IInv
<1>2. /\ pc["rebuild"] = "delete" /\ todo = {} /\ phase = 4 /\ Replay(verified)
      /\ UNCHANGED <<verified, event, table, holder, draft, rest, phase, todo, beside, raced>>
  BY DEF SelectVerified, DeleteOrder, dbVars, rowVars, hist
<1>3. queue = {} /\ cur["rebuild"] = None /\ rest["rebuild"] = {}
  BY <1>1, <1>2 DEF RebuildOK, ProcOK
<1>4. /\ pc' \in [Proc -> PC] /\ cur' \in [Proc -> Match \cup {None}]
      /\ pc'["confirm"] = pc["confirm"] /\ cur'["confirm"] = cur["confirm"]
      /\ \/ /\ pc'["rebuild"] = "rivals" /\ cur'["rebuild"] = None /\ queue' = {} /\ verified = {}
         \/ /\ pc'["rebuild"] = "applied" /\ cur'["rebuild"] \in verified
            /\ queue' = verified \ {cur'["rebuild"]}
  <2>1. pc \in [Proc -> PC] /\ cur \in [Proc -> Match \cup {None}] /\ verified \subseteq Match
    BY <1>1 DEF TypeOK
  <2>2. CASE verified = {}
    <3>1. pc' = [pc EXCEPT !["rebuild"] = "rivals"] /\ cur' = cur /\ queue' = queue
      BY <1>2, <2>2 DEF Replay
    <3> QED
      BY <1>3, <2>1, <2>2, <3>1, ProcNames DEF PC
  <2>3. CASE verified # {}
    <3>1. PICK m \in verified : /\ pc' = [pc EXCEPT !["rebuild"] = "applied"]
                                /\ cur' = [cur EXCEPT !["rebuild"] = m] /\ queue' = verified \ {m}
      BY <1>1, <1>2, <2>3, ReplayPicks
    <3> QED
      BY <2>1, <3>1, ProcNames DEF PC
  <2> QED
    BY <2>2, <2>3
<1>5. pc'["rebuild"] \notin {"idle", "delete", "partner"} /\ Written("rebuild")' = {}
  BY <1>4 DEF Written
<1>6. TypeOK'
  BY <1>1, <1>2, <1>4 DEF TypeOK
<1>7. ProcOK("rebuild")'
  <2>1. cur'["rebuild"] = None => pc'["rebuild"] = "rivals"
    BY <1>1, <1>4, NoneAssumption DEF TypeOK
  <2> QED
    BY <1>2, <1>3, <1>4, <2>1, Same DEF ProcOK
<1>8. AppliedOK'
  <2>1. \A n \in verified : n \in queue' \/ (n = cur'["rebuild"] /\ pc'["rebuild"] = "applied")
    BY <1>4
  <2> QED
    BY <1>1, <1>2, <2>1, Same DEF AppliedOK
<1>9. RebuildOK'
  <2>1. queue' \subseteq verified /\ (cur'["rebuild"] # None => cur'["rebuild"] \in verified \ queue')
    BY <1>4
  <2>2. cur'["rebuild"] = None => queue' = {}
    BY <1>1, <1>4, NoneAssumption DEF TypeOK
  <2> QED
    BY <1>1, <1>2, <1>5, <2>1, <2>2 DEF RebuildOK
<1>10. DeleteOK'
  BY <1>5 DEF DeleteOK
\* The DELETEs have come to every row.
<1>11. ASSUME NEW n \in Match, NEW k \in RowsOf(n) PROVE Visited(k)
  <2>1. k = StateKey \/ k \in PairKey
    BY Keys, RowKeys
  <2>2. k[1] \in {"state", "partner", "rival"}
    BY <2>1 DEF StateKey, PairKey
  <2>3. /\ DeleteOrder[1] = "rival" /\ DeleteOrder[2] = "partner" /\ DeleteOrder[4] = "state"
        /\ 1 \in 1..phase /\ 2 \in 1..phase /\ 4 \in 1..phase
    BY <1>2 DEF DeleteOrder
  <2> QED
    BY <1>2, <2>2, <2>3 DEF Visited
<1>12. ReplayOK'
  <2> SUFFICES ASSUME NEW n \in Match, NEW k \in RowsOf(n)
               PROVE  LET x == Times(CountedIn(k, Sees("rebuild", k)'), n) IN
                      /\ n \notin verified => x = 0
                      /\ n \in verified /\ ~Pending(n, k)' => x >= 1
                      /\ n \notin beside => x <= IF Pending(n, k)' THEN 0 ELSE 1
    BY <1>2, Same, Zenon DEF ReplayOK, CountedIn, Times, StateKey
  <2>1. n \in verified => Pending(n, k)'
    BY <1>4, <1>5 DEF Pending
  <2>2. Sees("rebuild", k)' = Sees("rebuild", k) /\ k \in Key \ AppliedKey
    BY <1>2, RowKeys DEF Sees
  <2>3. PICK x : x = Times(CountedIn(k, Sees("rebuild", k)), n)
    OBVIOUS
  <2>4. CASE holder[k] = "rebuild"
    <3>1. Sees("rebuild", k) = None
      BY <1>1, <1>2, <2>2, <2>4 DEF DeleteOK, Sees
    <3>2. x = 0
      BY <2>3, <3>1, CountedNone
    <3> QED
      BY <2>1, <2>2, <2>3, <3>2
  <2>5. CASE holder[k] # "rebuild"
    <3>1. Sees("rebuild", k) = table[k]
      BY <2>5 DEF Sees
    <3>2. x \in Nat
      BY <1>1, <2>2, <2>3, <3>1, TimesNat DEF TypeOK
    <3>3. x >= 1 <=> n \in verified
      BY <1>1, <2>3, <3>1 DEF EveryMatchCounted
    <3>4. x >= 1 => n \in beside
      BY <1>1, <1>2, <1>11, <2>2, <2>3, <2>5, <3>1 DEF DeleteOK
    <3> QED
      BY <2>1, <2>2, <2>3, <3>2, <3>3, <3>4
  <2> QED
    BY <2>4, <2>5
<1>13. DraftOK'
  BY <1>1, <1>2, Keys, DraftKept DEF DeleteOK, DraftOK
<1>14. ProcOK("confirm")' /\ EventOK' /\ ConfirmOK' /\ EveryMatchCounted' /\ StateFollowsLog'
  BY <1>2, <1>4, RebuildSteps
<1> QED
  BY <1>6, <1>7, <1>8, <1>9, <1>10, <1>12, <1>13, <1>14, ProcNames DEF IInv

LEMMA ReplaysNext ==
  ASSUME IInv, ReplayNext
  PROVE  IInv'
<1>1. TypeOK /\ ProcOK("rebuild") /\ AppliedOK /\ RebuildOK /\ ReplayOK
  BY ProcNames DEF IInv
<1>2. /\ pc["rebuild"] = "rivals" /\ rest["rebuild"] = {} /\ queue # {} /\ Replay(queue)
      /\ UNCHANGED <<verified, event, table, holder, draft, rest, phase, todo, beside, raced>>
  BY DEF ReplayNext, dbVars, rowVars, hist
<1>3. /\ cur["rebuild"] # None /\ cur["rebuild"] \in Match /\ queue \subseteq Match
      /\ Written("rebuild") = RowsOf(cur["rebuild"])
  <2>1. cur["rebuild"] # None /\ cur["rebuild"] \in Match /\ queue \subseteq Match
    BY <1>1, <1>2, ProcNames DEF RebuildOK, TypeOK
  <2> QED
    BY <1>1, <1>2, <2>1, WrittenRows, ProcNames
<1>4. PICK m \in queue : /\ pc' = [pc EXCEPT !["rebuild"] = "applied"]
                         /\ cur' = [cur EXCEPT !["rebuild"] = m] /\ queue' = queue \ {m}
  BY <1>1, <1>2, ReplayPicks
<1>5. /\ pc' \in [Proc -> PC] /\ cur' \in [Proc -> Match \cup {None}]
      /\ pc'["confirm"] = pc["confirm"] /\ cur'["confirm"] = cur["confirm"]
      /\ pc'["rebuild"] = "applied" /\ cur'["rebuild"] = m
  BY <1>1, <1>3, <1>4, ProcNames DEF TypeOK, PC
<1>6. Written("rebuild")' = {}
  BY <1>5 DEF Written
<1>7. TypeOK'
  BY <1>1, <1>2, <1>4, <1>5 DEF TypeOK
<1>8. ProcOK("rebuild")'
  BY <1>2, <1>3, <1>5, NoneAssumption, Same DEF ProcOK
<1>9. AppliedOK'
  <2>1. \A n \in queue : n \in queue' \/ (n = cur'["rebuild"] /\ pc'["rebuild"] = "applied")
    BY <1>4, <1>5
  <2>2. \A n \in Match : Sees("rebuild", Applied(n))' = Sees("rebuild", Applied(n))
    BY <1>2, Same DEF Sees
  <2> QED
    BY <1>1, <1>2, <2>1, <2>2, Same DEF AppliedOK
<1>10. RebuildOK'
  BY <1>1, <1>2, <1>3, <1>4, <1>5, NoneAssumption DEF RebuildOK
<1>11. DeleteOK'
  BY <1>5 DEF DeleteOK
<1>12. ReplayOK'
  <2> SUFFICES ASSUME NEW n \in Match, NEW k \in RowsOf(n)
               PROVE  LET x == Times(CountedIn(k, Sees("rebuild", k)'), n) IN
                      /\ n \notin verified => x = 0
                      /\ n \in verified /\ ~Pending(n, k)' => x >= 1
                      /\ n \notin beside => x <= IF Pending(n, k)' THEN 0 ELSE 1
    BY <1>2, Same, Zenon DEF ReplayOK, CountedIn, Times, StateKey
  <2>1. Pending(n, k)' <=> Pending(n, k)
    <3>1. Pending(n, k)' <=> n \in queue
      BY <1>4, <1>5, <1>6 DEF Pending
    <3>2. Pending(n, k) <=> n \in queue
      BY <1>3 DEF Pending
    <3> QED
      BY <3>1, <3>2
  <2>2. Sees("rebuild", k)' = Sees("rebuild", k)
    BY <1>2 DEF Sees
  <2>3. pc["rebuild"] \notin {"idle", "delete"}
    BY <1>2
  <2> QED
    BY <1>1, <2>1, <2>2, <2>3, Zenon DEF ReplayOK
<1>13. DraftOK'
  BY <1>2, <1>5, DraftKept
<1>14. ProcOK("confirm")' /\ EventOK' /\ ConfirmOK' /\ EveryMatchCounted' /\ StateFollowsLog'
  BY <1>2, <1>5, RebuildSteps
<1> QED
  BY <1>7, <1>8, <1>9, <1>10, <1>11, <1>12, <1>13, <1>14, ProcNames DEF IInv

LEMMA CommitsRebuild ==
  ASSUME IInv, CommitRebuild
  PROVE  IInv'
<1>1. /\ TypeOK /\ ProcOK("confirm") /\ ProcOK("rebuild") /\ EventOK /\ ConfirmOK /\ AppliedOK
      /\ RebuildOK /\ ReplayOK /\ EveryMatchCounted /\ StateFollowsLog /\ DraftOK
  BY ProcNames DEF IInv
<1>2. /\ pc["rebuild"] = "rivals" /\ rest["rebuild"] = {} /\ queue = {}
      /\ End("rebuild", TRUE) /\ phase' = 0 /\ raced' = beside /\ beside' = {}
      /\ UNCHANGED <<verified, event, todo, queue>>
  BY DEF CommitRebuild
<1>3. /\ table' = [k \in Key |-> table'[k]] /\ draft' = [k \in Key |-> draft'[k]]
      /\ \A k \in Key : table'[k] \in Row(k) \cup {None} /\ draft'[k] \in Row(k) \cup {None}
      /\ holder' \in [Key -> Proc \cup {None}]
      /\ \A k \in Key : /\ table'[k] = IF holder[k] = "rebuild" THEN draft[k] ELSE table[k]
                        /\ holder[k] = "rebuild" => holder'[k] = None
                        /\ holder[k] # "rebuild" => holder'[k] = holder[k] /\ draft'[k] = draft[k]
                        /\ holder'[k] # "rebuild"
  BY <1>1, <1>2, Ends, ProcNames
<1>4. /\ pc' \in [Proc -> PC] /\ cur' \in [Proc -> Match \cup {None}]
      /\ rest' \in [Proc -> SUBSET Player]
      /\ pc'["rebuild"] = "idle" /\ cur'["rebuild"] = None
      /\ pc'["confirm"] = pc["confirm"] /\ cur'["confirm"] = cur["confirm"]
      /\ Written("confirm")' = Written("confirm")
      /\ \A q \in Proc : ProcOK(q)'
  BY <1>1, <1>2, Ends, ProcNames
<1>5. \A k \in Key : table'[k] = Sees("rebuild", k)
  BY <1>3 DEF Sees
<1>6. todo = {}
  BY <1>1, <1>2 DEF RebuildOK
<1>7. TypeOK'
  <2>1. verified' \subseteq Match /\ event' \in [Match -> Event \cup {None}]
        /\ todo' \subseteq Key /\ queue' \subseteq Match
    BY <1>1, <1>2, Same DEF TypeOK
  <2>2. beside' \subseteq Match /\ raced' \subseteq Match
    BY <1>1, <1>2 DEF TypeOK
  <2>3. phase' \in 0..Len(DeleteOrder)
    BY <1>2 DEF DeleteOrder
  <2> QED
    BY <1>3, <1>4, <2>1, <2>2, <2>3, Same DEF TypeOK
<1>8. EventOK'
  BY <1>1, <1>2, <1>4 DEF EventOK
<1>9. ConfirmOK'
  <2>1. \A k \in Key : /\ holder'[k] = "confirm" <=> holder[k] = "confirm"
                       /\ holder[k] = "confirm" => draft'[k] = draft[k] /\ table'[k] = table[k]
    BY <1>3, ProcNames
  <2> QED
    BY <1>1, <1>2, <1>4, <2>1, ConfirmKept
<1>10. AppliedOK'
  <2>1. ASSUME NEW n \in Match PROVE table'[Applied(n)] # None <=> n \in verified
    <3>1. Applied(n) \in Key
      BY Keys
    <3>2. /\ table[Applied(n)] # None <=> n \in verified
          /\ holder[Applied(n)] = "rebuild" => n \in verified
          /\ n \in verified => Sees("rebuild", Applied(n)) # None
      BY <1>1, <1>2 DEF AppliedOK
    <3> QED
      BY <1>3, <1>5, <3>1, <3>2
  <2>2. \A n \in Match : holder'[Applied(n)] # "rebuild"
    BY <1>3, Keys
  <2> QED
    BY <1>2, <1>4, <2>1, <2>2, Same DEF AppliedOK
<1>11. RebuildOK' /\ DeleteOK' /\ ReplayOK'
  BY <1>2, <1>4, <1>6 DEF RebuildOK, DeleteOK, ReplayOK
<1>12. EveryMatchCounted'
  <2> SUFFICES ASSUME NEW n \in Match, NEW k \in RowsOf(n)
               PROVE  LET x == Times(CountedIn(k, table'[k]), n) IN
                      /\ x >= 1 <=> n \in verified
                      /\ n \notin beside => x <= 1
    BY <1>2, Same, Zenon DEF EveryMatchCounted, CountedIn, Times, StateKey
  <2>1. PICK x : x = Times(CountedIn(k, table'[k]), n)
    OBVIOUS
  <2>2. table'[k] = Sees("rebuild", k)
    BY <1>5, RowKeys
  <2>3. ~Pending(n, k)
    <3>1. n = cur["rebuild"] => k \in Written("rebuild")
      BY <1>1, <1>2, WrittenRows, ProcNames
    <3> QED
      BY <1>2, <3>1 DEF Pending
  <2>4. (n \notin verified => x = 0) /\ (n \in verified => x >= 1) /\ (n \notin beside => x <= 1)
    BY <1>1, <1>2, <2>1, <2>2, <2>3 DEF ReplayOK
  <2> QED
    BY <2>1, <2>4
<1>13. DraftOK'
  <2>1. /\ holder'[StateKey] \in {holder[StateKey], None} /\ holder'[StateKey] # "rebuild"
        /\ holder'[StateKey] # None => draft'[StateKey] = draft[StateKey]
    BY <1>3, Keys
  <2> QED
    BY <1>2, <2>1, DraftKept
<1>14. StateFollowsLog'
  <2> SUFFICES ASSUME NEW st, st = table'[StateKey], st # None
               PROVE  Follows(st)' /\ (NoRepeats(st.log) => Activity(st)')
    BY Same, Zenon DEF StateFollowsLog, NoRepeats
  <2>1. st \in State /\ Follows(st) /\ (NoRepeats(st.log) => Activity(st))
    <3>1. st \in State
      BY <1>3, Keys, RowTypes
    <3>2. CASE holder[StateKey] = "rebuild"
      <4>1. st = draft[StateKey]
        BY <1>3, <3>2, Keys
      <4> QED
        BY <1>1, <1>2, <3>1, <3>2, <4>1, ProcNames DEF DraftOK
    <3>3. CASE holder[StateKey] # "rebuild"
      <4>1. st = table[StateKey]
        BY <1>3, <3>3, Keys
      <4> QED
        BY <1>1, <3>1, <4>1 DEF StateFollowsLog
    <3> QED
      BY <3>2, <3>3
  <2> QED
    BY <1>2, <2>1, FollowsKept, ActivityKept
<1> QED
  BY <1>4, <1>7, <1>8, <1>9, <1>10, <1>11, <1>12, <1>13, <1>14 DEF IInv

---------------------------------------------------------------------------
(* Theorems *)

LEMMA Start == Init => IInv
<1> SUFFICES ASSUME Init PROVE IInv
  OBVIOUS
<1>1. /\ verified = {} /\ event = [m \in Match |-> None]
      /\ table = [k \in Key |-> None] /\ holder = [k \in Key |-> None] /\ draft = [k \in Key |-> None]
      /\ pc = [p \in Proc |-> "idle"] /\ cur = [p \in Proc |-> None] /\ rest = [p \in Proc |-> {}]
      /\ phase = 0 /\ todo = {} /\ queue = {} /\ beside = {} /\ raced = {}
  BY DEF Init
<1>2. TypeOK
  BY <1>1 DEF TypeOK, PC, DeleteOrder
<1>3. \A p \in Proc : ProcOK(p)
  BY <1>1, ProcNames DEF ProcOK
<1>4. EventOK
  BY <1>1, ProcNames, NoneAssumption DEF EventOK
<1>5. ConfirmOK
  <2>1. Written("confirm") = {}
    BY <1>1, ProcNames DEF Written
  <2>2. \A n \in Match : Applied(n) \in Key
    BY Keys
  <2> QED
    BY <1>1, <2>1, <2>2, ProcNames DEF ConfirmOK
<1>6. AppliedOK
  <2>1. \A n \in Match : Applied(n) \in Key
    BY Keys
  <2> QED
    BY <1>1, <2>1, ProcNames DEF AppliedOK
<1>7. RebuildOK /\ DeleteOK /\ ReplayOK
  BY <1>1, ProcNames DEF RebuildOK, DeleteOK, ReplayOK
<1>8. EveryMatchCounted
  <2>1. ASSUME NEW m \in Match, NEW k \in RowsOf(m) PROVE Times(CountedIn(k, table[k]), m) = 0
    <3>1. table[k] = None
      BY <1>1, RowKeys
    <3> QED
      BY <3>1, CountedNone
  <2> QED
    BY <1>1, <2>1 DEF EveryMatchCounted
<1>9. DraftOK /\ StateFollowsLog
  BY <1>1, Keys DEF DraftOK, StateFollowsLog
<1> QED
  BY <1>2, <1>3, <1>4, <1>5, <1>6, <1>7, <1>8, <1>9 DEF IInv

LEMMA Kept == IInv /\ UNCHANGED vars => IInv'
<1> SUFFICES ASSUME IInv, UNCHANGED vars PROVE IInv'
  OBVIOUS
<1>1. /\ UNCHANGED <<verified, event, table, holder, draft, pc, cur, rest, phase, todo, queue, beside, raced>>
      /\ TypeOK /\ ProcOK("rebuild") /\ AppliedOK /\ RebuildOK /\ DeleteOK /\ ReplayOK
  BY ProcNames DEF vars, dbVars, rowVars, rbVars, hist, IInv
<1>2. TypeOK' /\ ProcOK("rebuild")'
  BY <1>1, Same DEF TypeOK, ProcOK
<1>3. AppliedOK'
  BY <1>1, Same DEF AppliedOK, Sees
<1>4. RebuildOK'
  BY <1>1 DEF RebuildOK
<1>5. DeleteOK'
  <2>1. \A k : Visited(k)' <=> Visited(k)
    BY <1>1 DEF Visited
  <2> QED
    BY <1>1, <2>1, Same, Zenon DEF DeleteOK, CountedIn, Times
<1>6. ReplayOK'
  <2>1. Written("rebuild")' = Written("rebuild")
    BY <1>1, Same, Zenon DEF Written
  <2>2. \A k \in Key \ AppliedKey : Sees("rebuild", k)' = Sees("rebuild", k)
    BY <1>1 DEF Sees
  <2> QED
    BY <1>1, <2>1, <2>2, ReplayKept
<1>7. DraftOK'
  BY <1>1, DraftKept
<1>8. ProcOK("confirm")' /\ EventOK' /\ ConfirmOK' /\ EveryMatchCounted' /\ StateFollowsLog'
  BY <1>1, RebuildSteps
<1> QED
  BY <1>2, <1>3, <1>4, <1>5, <1>6, <1>7, <1>8, ProcNames DEF IInv

\* A transaction that has begun may be rolled back at any of its statements.
LEMMA RollsBack ==
  ASSUME IInv, NEW p \in Proc, pc[p] # "idle", Rollback(p)
  PROVE  IInv'
BY ConfirmRollback, RebuildRollback, ProcNames

\* The invariant is inductive: rows are written on top of what is committed,
\* and a rebuild has still to count exactly the matches that are missing.
THEOREM Invariance == Spec => []IInv
<1>1. IInv /\ [Next]_vars => IInv'
  <2> SUFFICES ASSUME IInv, [Next]_vars PROVE IInv'
    OBVIOUS
  <2>1. ASSUME NEW p \in Proc, InsertApplied(p) PROVE IInv'
    BY <2>1, Inserts
  <2>2. ASSUME NEW p \in Proc, UpdateState(p) PROVE IInv'
    BY <2>2, CountsState
  <2>3. ASSUME NEW p \in Proc, UpsertPartner(p) PROVE IInv'
    BY <2>3, CountsPartner
  <2>4. ASSUME NEW p \in Proc, NEW r \in Player, UpsertRival(p, r) PROVE IInv'
    BY <2>4, CountsRival
  <2>5. ASSUME NEW p \in Proc, DeadlockVictim(p) PROVE IInv'
    <3>1. Rollback(p) /\ Waits(p)
      BY <2>5, ProcNames DEF DeadlockVictim
    <3>2. pc[p] # "idle"
      BY <3>1 DEF Waits, Needs
    <3> QED
      BY <3>1, <3>2, RollsBack
  <2>6. ASSUME NEW p \in Proc, Fail(p) PROVE IInv'
    BY <2>6, RollsBack DEF Fail
  <2>7. ASSUME NEW m \in Match, NEW d \in Delta, BeginVerify(m, d) PROVE IInv'
    BY <2>7, Begins
  <2>8. CASE CommitVerify
    BY <2>8, CommitsVerify
  <2>9. CASE BeginRebuild
    BY <2>9, BeginsRebuild
  <2>10. ASSUME NEW k \in Key, DeleteRow(k) PROVE IInv'
    BY <2>10, DeletesRow
  <2>11. CASE NextDelete
    BY <2>11, NextsDelete
  <2>12. CASE SelectVerified
    BY <2>12, SelectsVerified
  <2>13. CASE ReplayNext
    BY <2>13, ReplaysNext
  <2>14. CASE CommitRebuild
    BY <2>14, CommitsRebuild
  <2>15. CASE UNCHANGED vars
    BY <2>15, Kept
  <2> QED
    BY <2>1, <2>2, <2>3, <2>4, <2>5, <2>6, <2>7, <2>8, <2>9, <2>10, <2>11, <2>12, <2>13, <2>14, <2>15
       DEF Next, Step, Rebuild
<1> QED
  BY <1>1, Start, PTL DEF Spec

\* Every analytics row counts each verified match of the user and no other,
\* and once unless it was verified while the last rebuild was deleting.
THEOREM Counted == Spec => []EveryMatchCounted
<1>1. IInv => EveryMatchCounted
  BY DEF IInv
<1> QED
  BY <1>1, Invariance, PTL

\* The state row is what its definition says of the matches counted in it.
THEOREM Incremental == Spec => []StateFollowsLog
<1>1. IInv => StateFollowsLog
  BY DEF IInv
<1> QED
  BY <1>1, Invariance, PTL
=============================================================================
