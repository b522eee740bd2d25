------------------------------ MODULE AIProofs ------------------------------
(***************************************************************************)
(* What holds of the two parts of app/ai.py, for every value of their      *)
(* constants: of Triage, for any number of jobs, threads and pages and any *)
(* size of a batch (first part), and of ProviderChain, for any providers,  *)
(* rank order and settings (second part).  The second part calls nothing   *)
(* of the first: one request of the triage is one run of the provider      *)
(* chain, which Triage sees by its outcomes only.                          *)
(***************************************************************************)
EXTENDS Triage, ProviderChain, Integers, FiniteSets, SequencesExt, FiniteSetTheorems,
        SequenceTheorems, TLAPS

-----------------------------------------------------------------------------
(* Sequences of jobs, and how a batch is cut into pieces.                  *)

(* The jobs of a sequence are different. *)
Distinct(s) == \A x, y \in 1 .. Len(s) : s[x] = s[y] => x = y

(* The jobs of a sequence of pieces are different, in one piece and between *)
(* them.                                                                   *)
Apart(cs) ==
    \A i, k \in 1 .. Len(cs) : \A x \in 1 .. Len(cs[i]), y \in 1 .. Len(cs[k]) :
        cs[i][x] = cs[k][y] => i = k /\ x = y

(* The jobs of a sequence of pieces.                                       *)
Held(cs) == UNION {ToSet(cs[i]) : i \in 1 .. Len(cs)}

(* The range of a sequence, by its indices.                                *)
LEMMA InSet ==
    ASSUME NEW S, NEW s \in Seq(S)
    PROVE  /\ \A x : x \in ToSet(s) <=> \E i \in 1 .. Len(s) : x = s[i]
           /\ ToSet(s) \subseteq S
           /\ ToSet(s) = {} <=> s = <<>>
  <1>1. DOMAIN s = 1 .. Len(s) /\ Len(s) \in Nat
    OBVIOUS
  <1>2. ToSet(s) = {s[i] : i \in 1 .. Len(s)}
    BY <1>1 DEF ToSet
  <1>3. \A i \in 1 .. Len(s) : s[i] \in S
    OBVIOUS
  <1>4. ToSet(s) = {} => Len(s) = 0
    <2>1. Len(s) # 0 => s[1] \in ToSet(s)
      BY <1>1, <1>2
    <2> QED
      BY <2>1
  <1>5. s = <<>> <=> Len(s) = 0
    OBVIOUS
  <1>6. Len(s) = 0 => ToSet(s) = {}
    BY <1>2
  <1> QED
    BY <1>2, <1>3, <1>4, <1>5, <1>6

(* The jobs of a sequence of pieces, by their two indices.                 *)
LEMMA InHeld ==
    ASSUME NEW S, NEW cs \in Seq(Seq(S))
    PROVE  /\ \A x : x \in Held(cs) <=> \E i \in 1 .. Len(cs) : \E k \in 1 .. Len(cs[i]) : x = cs[i][k]
           /\ Held(cs) \subseteq S
  <1>1. \A i \in 1 .. Len(cs) : cs[i] \in Seq(S)
    OBVIOUS
  <1>2. ASSUME NEW x
        PROVE  x \in Held(cs) <=> \E i \in 1 .. Len(cs) : x \in ToSet(cs[i])
    BY DEF Held
  <1>3. ASSUME NEW x, NEW i \in 1 .. Len(cs)
        PROVE  x \in ToSet(cs[i]) <=> \E k \in 1 .. Len(cs[i]) : x = cs[i][k]
    BY <1>1, InSet
  <1>4. ASSUME NEW i \in 1 .. Len(cs)
        PROVE  ToSet(cs[i]) \subseteq S
    BY <1>1, InSet
  <1> QED
    BY <1>2, <1>3, <1>4 DEF Held

(* What FirstOf() takes of a sequence.                                     *)
LEMMA FirstOfFacts ==
    ASSUME NEW S, NEW s \in Seq(S), NEW n \in Nat
    PROVE  /\ FirstOf(s, n) \in Seq(S)
           /\ Len(FirstOf(s, n)) = IF Len(s) < n THEN Len(s) ELSE n
           /\ \A i \in 1 .. Len(FirstOf(s, n)) : FirstOf(s, n)[i] = s[i]
  <1> DEFINE m == IF Len(s) < n THEN Len(s) ELSE n
  <1>1. m \in Nat /\ m <= Len(s) /\ Len(s) \in Nat
    OBVIOUS
  <1>2. \A i \in 1 .. m : s[i] \in S
    BY <1>1
  <1>3. FirstOf(s, n) = SubSeq(s, 1, m)
    BY DEF FirstOf
  <1> HIDE DEF m
  <1>4. /\ SubSeq(s, 1, m) \in Seq(S)
        /\ Len(SubSeq(s, 1, m)) = IF 1 <= m THEN m - 1 + 1 ELSE 0
        /\ \A i \in 1 .. m - 1 + 1 : SubSeq(s, 1, m)[i] = s[1 + i - 1]
    BY <1>1, <1>2, SubSeqProperties
  <1>5. Len(SubSeq(s, 1, m)) = m
    BY <1>1, <1>4
  <1>6. \A i \in 1 .. m : SubSeq(s, 1, m)[i] = s[i]
    BY <1>1, <1>4
  <1> QED
    BY <1>3, <1>4, <1>5, <1>6 DEF m

(* What After() leaves of a sequence.                                      *)
LEMMA AfterFacts ==
    ASSUME NEW S, NEW s \in Seq(S), NEW n \in Nat
    PROVE  /\ After(s, n) \in Seq(S)
           /\ Len(After(s, n)) = IF Len(s) < n THEN 0 ELSE Len(s) - n
           /\ \A i \in 1 .. Len(After(s, n)) : After(s, n)[i] = s[n + i]
  <1> DEFINE l == Len(s)
  <1>1. l \in Nat
    OBVIOUS
  <1>2. \A i \in n + 1 .. l : s[i] \in S
    OBVIOUS
  <1>3. After(s, n) = SubSeq(s, n + 1, l)
    BY DEF After
  <1> HIDE DEF l
  <1>4. /\ SubSeq(s, n + 1, l) \in Seq(S)
        /\ Len(SubSeq(s, n + 1, l)) = IF n + 1 <= l THEN l - (n + 1) + 1 ELSE 0
        /\ \A i \in 1 .. l - (n + 1) + 1 : SubSeq(s, n + 1, l)[i] = s[n + 1 + i - 1]
    BY <1>1, <1>2, SubSeqProperties
  <1>5. Len(SubSeq(s, n + 1, l)) = IF l < n THEN 0 ELSE l - n
    BY <1>1, <1>4
  <1>6. \A i \in 1 .. Len(SubSeq(s, n + 1, l)) : SubSeq(s, n + 1, l)[i] = s[n + i]
    BY <1>1, <1>4
  <1> QED
    BY <1>3, <1>4, <1>5, <1>6 DEF l

(* Both parts of a sequence of different jobs have different jobs.         *)
LEMMA StillDistinct ==
    ASSUME NEW S, NEW s \in Seq(S), Distinct(s), NEW n \in Nat
    PROVE  /\ Distinct(FirstOf(s, n)) /\ Distinct(After(s, n))
           /\ ToSet(FirstOf(s, n)) \subseteq ToSet(s) /\ ToSet(After(s, n)) \subseteq ToSet(s)
  <1> DEFINE u == FirstOf(s, n)
             v == After(s, n)
  <1>1. u \in Seq(S) /\ Len(u) <= Len(s) /\ \A i \in 1 .. Len(u) : u[i] = s[i]
    BY FirstOfFacts
  <1>2. v \in Seq(S) /\ (Len(v) = 0 \/ n + Len(v) = Len(s)) /\ \A i \in 1 .. Len(v) : v[i] = s[n + i]
    BY AfterFacts
  <1> HIDE DEF u, v
  <1>3. Distinct(u) /\ ToSet(u) \subseteq ToSet(s)
    BY <1>1, InSet DEF Distinct
  <1>4. ASSUME NEW i \in 1 .. Len(v)
        PROVE  n + i \in 1 .. Len(s) /\ v[i] = s[n + i]
    BY <1>2
  <1>5. Distinct(v)
    <2> SUFFICES ASSUME NEW x \in 1 .. Len(v), NEW y \in 1 .. Len(v), v[x] = v[y]
                 PROVE  x = y
      BY DEF Distinct
    <2>1. n + x \in 1 .. Len(s) /\ v[x] = s[n + x]
      BY <1>4
    <2>2. n + y \in 1 .. Len(s) /\ v[y] = s[n + y]
      BY <1>4
    <2>3. n + x = n + y
      BY <2>1, <2>2 DEF Distinct
    <2> QED
      BY <2>3
  <1>6. ToSet(v) \subseteq ToSet(s)
    <2>1. \A z \in ToSet(v) : \E i \in 1 .. Len(v) : z = v[i]
      BY <1>2, InSet
    <2>2. \A i \in 1 .. Len(s) : s[i] \in ToSet(s)
      BY InSet
    <2> QED
      BY <1>4, <2>1, <2>2
  <1> QED
    BY <1>3, <1>5, <1>6 DEF u, v

(* A batch that is sent whole.                                             *)
LEMMA OnePiece ==
    ASSUME NEW S, NEW s \in Seq(S), Distinct(s)
    PROVE  <<s>> \in Seq(Seq(S)) /\ Apart(<<s>>) /\ Held(<<s>>) = ToSet(s)
  BY DEF Apart, Held, Distinct

(* Nothing is left to send.                                                *)
LEMMA NoPiece ==
    Apart(<<>>) /\ Held(<<>>) = {}
  BY DEF Apart, Held

(* A job is at one place of the pieces.                                    *)
LEMMA SamePlace ==
    ASSUME NEW cs, Apart(cs),
           NEW i \in 1 .. Len(cs), NEW k \in 1 .. Len(cs),
           NEW x \in 1 .. Len(cs[i]), NEW y \in 1 .. Len(cs[k]), cs[i][x] = cs[k][y]
    PROVE  i = k /\ x = y
  BY DEF Apart

(* Places are counted without a gap.                                       *)
LEMMA SameAfterNext ==
    ASSUME NEW i \in Nat, NEW k \in Nat, i + 1 = k + 1
    PROVE  i = k
  OBVIOUS

(* The numbers of the places are natural numbers, and a place in the       *)
(* second half is a place of the whole.                                    *)
LEMMA IsPlace ==
    ASSUME NEW l \in Nat, NEW x \in 1 .. l
    PROVE  x \in Nat \ {0}
  OBVIOUS

LEMMA InSecondHalf ==
    ASSUME NEW l \in Nat, NEW mid \in Nat, mid <= l, NEW x \in 1 .. l - mid
    PROVE  mid + x \in 1 .. l
  OBVIOUS

(* A place of the two halves and the rest comes from one place of the      *)
(* pieces before, and no other place comes from it.                        *)
LEMMA OnePlaceBefore ==
    ASSUME NEW i \in Nat \ {0}, NEW k \in Nat \ {0}, NEW x \in Nat \ {0}, NEW y \in Nat \ {0},
           NEW mid \in Nat, i = 1 => x <= mid, k = 1 => y <= mid,
           (IF i <= 2 THEN 1 ELSE i - 1) = (IF k <= 2 THEN 1 ELSE k - 1),
           (IF i = 2 THEN mid + x ELSE x) = (IF k = 2 THEN mid + y ELSE y)
    PROVE  i = k /\ x = y
  OBVIOUS

(* When the first piece has been answered, the others hold the rest of the *)
(* jobs.                                                                   *)
LEMMA LessAPiece ==
    ASSUME NEW S, NEW cs \in Seq(Seq(S)), cs # <<>>, Apart(cs)
    PROVE  /\ Tail(cs) \in Seq(Seq(S)) /\ Apart(Tail(cs))
           /\ Head(cs) \in Seq(S) /\ ToSet(Head(cs)) \subseteq Held(cs)
           /\ Held(Tail(cs)) = Held(cs) \ ToSet(Head(cs))
  <1> DEFINE rest == Tail(cs)
             h == Head(cs)
  <1>1. /\ rest \in Seq(Seq(S)) /\ Len(cs) \in Nat \ {0} /\ Len(rest) = Len(cs) - 1
        /\ \A i \in 1 .. Len(rest) : rest[i] = cs[i + 1]
        /\ h = cs[1] /\ h \in Seq(S)
    OBVIOUS
  <1> HIDE DEF rest, h
  <1>a. 1 \in 1 .. Len(cs)
    BY <1>1
  <1>b. ASSUME NEW i \in 1 .. Len(rest)
        PROVE  i \in Nat \ {0} /\ i + 1 \in 1 .. Len(cs) /\ rest[i] = cs[i + 1]
    BY <1>1
  <1>2. Apart(rest)
    <2> SUFFICES ASSUME NEW i \in 1 .. Len(rest), NEW k \in 1 .. Len(rest),
                        NEW x \in 1 .. Len(rest[i]), NEW y \in 1 .. Len(rest[k]),
                        rest[i][x] = rest[k][y]
                 PROVE  i = k /\ x = y
      BY DEF Apart
    <2>1. i + 1 \in 1 .. Len(cs) /\ k + 1 \in 1 .. Len(cs) /\ rest[i] = cs[i + 1] /\ rest[k] = cs[k + 1]
      BY <1>b
    <2>2. i + 1 = k + 1 /\ x = y
      <3>1. PICK p \in 1 .. Len(cs) : p = i + 1
        BY <2>1, Zenon
      <3>2. PICK q \in 1 .. Len(cs) : q = k + 1
        BY <2>1, Zenon
      <3>3. x \in 1 .. Len(cs[p]) /\ y \in 1 .. Len(cs[q]) /\ cs[p][x] = cs[q][y]
        BY <2>1, <3>1, <3>2, Zenon
      <3>4. p = q /\ x = y
        BY <3>3, SMTT(30) DEF Apart
      <3> QED
        BY <3>1, <3>2, <3>4, Zenon
    <2>3. i \in Nat /\ k \in Nat
      BY <1>b
    <2>4. i = k
      BY <2>2, <2>3, SameAfterNext
    <2> QED
      BY <2>2, <2>4, Zenon
  <1>3. ToSet(h) \subseteq Held(cs)
    BY <1>1, <1>a DEF Held
  <1>4. ASSUME NEW z \in Held(rest)
        PROVE  z \in Held(cs) /\ z \notin ToSet(h)
    <2>0. rest \in Seq(Seq(S))
      BY <1>1
    <2>1. PICK i \in 1 .. Len(rest) : \E x \in 1 .. Len(rest[i]) : z = rest[i][x]
      BY <2>0, InHeld
    <2>x. PICK x \in 1 .. Len(rest[i]) : z = rest[i][x]
      BY <2>1
    <2>2. i + 1 \in 1 .. Len(cs) /\ rest[i] = cs[i + 1] /\ i # 0
      BY <1>b
    <2>3. z \in Held(cs)
      BY <2>x, <2>2, InHeld
    <2>4. ASSUME NEW y \in 1 .. Len(h), z = h[y]
          PROVE  FALSE
      <3>1. cs[1][y] = cs[i + 1][x] /\ y \in 1 .. Len(cs[1]) /\ x \in 1 .. Len(cs[i + 1])
        BY <1>1, <2>x, <2>2, <2>4
      <3>2. 1 = i + 1
        BY <1>a, <2>2, <3>1 DEF Apart
      <3> QED
        BY <1>b, <3>2
    <2>5. z \in ToSet(h) => \E y \in 1 .. Len(h) : z = h[y]
      <3>1. h \in Seq(S)
        BY <1>1
      <3> QED
        BY <3>1, InSet
    <2> QED
      BY <2>3, <2>4, <2>5
  <1>5. ASSUME NEW z \in Held(cs), z \notin ToSet(h)
        PROVE  z \in Held(rest)
    <2>0. \E i \in 1 .. Len(cs) : \E x \in 1 .. Len(cs[i]) : z = cs[i][x]
      <3>1. z \in Held(cs) <=> \E i \in 1 .. Len(cs) : \E x \in 1 .. Len(cs[i]) : z = cs[i][x]
        BY InHeld
      <3> QED
        BY <3>1
    <2>1. PICK i \in 1 .. Len(cs) : \E x \in 1 .. Len(cs[i]) : z = cs[i][x]
      BY <2>0
    <2>x. PICK x \in 1 .. Len(cs[i]) : z = cs[i][x]
      BY <2>1
    <2>2. i # 1
      BY <1>1, <1>5, <2>x, InSet
    <2>3. i - 1 \in 1 .. Len(rest) /\ rest[i - 1] = cs[i]
      <3>1. i \in Nat /\ i - 1 \in 1 .. Len(rest)
        BY <1>1, <2>2
      <3>2. (i - 1) + 1 = i
        BY <3>1
      <3> QED
        BY <1>b, <3>1, <3>2, Zenon
    <2>4. \E j \in 1 .. Len(rest) : \E y \in 1 .. Len(rest[j]) : z = rest[j][y]
      BY <2>x, <2>3, Zenon
    <2>5. rest \in Seq(Seq(S))
      BY <1>1
    <2> QED
      BY <2>4, <2>5, InHeld, Zenon
  <1> QED
    BY <1>1, <1>2, <1>3, <1>4, <1>5 DEF rest, h

(* A piece that is too large for the provider is replaced by its halves:   *)
(* the same jobs, each still at one place.                                 *)
LEMMA HalvesFacts ==
    ASSUME NEW S, NEW cs \in Seq(Seq(S)), cs # <<>>, Apart(cs)
    PROVE  LET new == Halves(Head(cs)) \o Tail(cs)
           IN  new \in Seq(Seq(S)) /\ Apart(new) /\ Held(new) = Held(cs)
  <1> DEFINE h == Head(cs)
             mid == Len(h) \div 2
             u == FirstOf(h, mid)
             v == After(h, mid)
             rest == Tail(cs)
             new == <<u, v>> \o rest
  <1>1. /\ rest \in Seq(Seq(S)) /\ Len(cs) \in Nat \ {0} /\ Len(rest) = Len(cs) - 1
        /\ \A i \in 1 .. Len(rest) : rest[i] = cs[i + 1]
        /\ h = cs[1] /\ h \in Seq(S)
    OBVIOUS
  <1>0. 1 \in 1 .. Len(cs) /\ Len(cs) \in Nat
    BY <1>1
  <1>2. Len(h) \in Nat /\ mid \in Nat /\ mid <= Len(h)
    <2>1. h \in Seq(S)
      BY <1>1
    <2>2. Len(h) \in Nat
      BY <2>1
    <2> HIDE DEF h
    <2> QED
      BY <2>2
  <1>3. Halves(h) = <<u, v>>
    BY DEF Halves
  <1> HIDE DEF rest, h, mid
  <1>4. u \in Seq(S) /\ Len(u) = mid /\ \A i \in 1 .. mid : u[i] = h[i]
    BY <1>1, <1>2, FirstOfFacts
  <1>5. v \in Seq(S) /\ Len(v) = Len(h) - mid /\ \A i \in 1 .. Len(v) : v[i] = h[mid + i]
    <2>1. /\ After(h, mid) \in Seq(S)
          /\ Len(After(h, mid)) = IF Len(h) < mid THEN 0 ELSE Len(h) - mid
          /\ \A i \in 1 .. Len(After(h, mid)) : After(h, mid)[i] = h[mid + i]
      BY <1>1, <1>2, AfterFacts
    <2> QED
      BY <1>2, <2>1
  <1> HIDE DEF u, v
  <1>6. <<u, v>> \in Seq(Seq(S)) /\ Len(<<u, v>>) = 2 /\ <<u, v>>[1] = u /\ <<u, v>>[2] = v
    BY <1>4, <1>5
  <1>7. /\ new \in Seq(Seq(S)) /\ Len(new) = Len(cs) + 1
        /\ new[1] = u /\ new[2] = v
        /\ \A i \in 3 .. Len(new) : new[i] = cs[i - 1]
    <2>1. /\ new \in Seq(Seq(S)) /\ Len(new) = 2 + Len(rest)
          /\ \A i \in 1 .. 2 + Len(rest) : new[i] = IF i <= 2 THEN <<u, v>>[i] ELSE rest[i - 2]
      BY <1>1, <1>6, ConcatProperties
    <2>2. ASSUME NEW i \in 3 .. 2 + Len(rest)
          PROVE  rest[i - 2] = cs[i - 1]
      <3>1. i - 2 \in 1 .. Len(rest) /\ (i - 2) + 1 = i - 1
        BY <1>1
      <3>2. \A k \in 1 .. Len(rest) : rest[k] = cs[k + 1]
        BY <1>1
      <3> QED
        BY <3>1, <3>2
    <2>3. Len(rest) \in Nat /\ 2 + Len(rest) = Len(cs) + 1
      BY <1>1
    <2> QED
      BY <1>6, <2>1, <2>2, <2>3
  <1> HIDE DEF new
  <1> DEFINE P(i) == IF i <= 2 THEN 1 ELSE i - 1
             Q(i, x) == IF i = 2 THEN mid + x ELSE x
  <1>8. ASSUME NEW i \in 1 .. Len(new), NEW x \in 1 .. Len(new[i])
        PROVE  /\ P(i) \in 1 .. Len(cs) /\ Q(i, x) \in 1 .. Len(cs[P(i)])
               /\ new[i][x] = cs[P(i)][Q(i, x)]
    <2>0. h = cs[1] /\ mid \in Nat /\ Len(h) \in Nat /\ mid <= Len(h)
      BY <1>1, <1>2
    <2>1. CASE i = 1
      <3>1. x \in 1 .. mid /\ new[i] = u /\ u[x] = h[x]
        BY <1>4, <1>7, <2>1
      <3>2. x \in 1 .. Len(h)
        BY <2>0, <3>1
      <3>3. P(i) = 1 /\ Q(i, x) = x
        BY <2>1
      <3> HIDE DEF P, Q
      <3> QED
        BY <1>0, <2>0, <3>1, <3>2, <3>3, Zenon
    <2>2. CASE i = 2
      <3>1. x \in 1 .. Len(h) - mid /\ new[i] = v /\ v[x] = h[mid + x]
        BY <1>5, <1>7, <2>2
      <3>2. mid + x \in 1 .. Len(h)
        BY <2>0, <3>1, InSecondHalf, Zenon
      <3>3. P(i) = 1 /\ Q(i, x) = mid + x
        BY <2>2
      <3> HIDE DEF P, Q
      <3> QED
        BY <1>0, <2>0, <3>1, <3>2, <3>3, Zenon
    <2>3. CASE i \in 3 .. Len(new)
      <3>1. new[i] = cs[i - 1] /\ Len(new) = Len(cs) + 1
        BY <1>7, <2>3
      <3>2. i - 1 \in 1 .. Len(cs) /\ ~(i <= 2) /\ i # 2
        BY <1>0, <2>3, <3>1
      <3>3. P(i) = i - 1 /\ Q(i, x) = x
        BY <3>2, Zenon
      <3> HIDE DEF P, Q
      <3> QED
        BY <3>1, <3>2, <3>3, Zenon
    <2>4. i = 1 \/ i = 2 \/ i \in 3 .. Len(new)
      BY <1>0, <1>7
    <2> QED
      BY <2>1, <2>2, <2>3, <2>4
  <1>9. ASSUME NEW i \in 1 .. Len(new), NEW x \in 1 .. Len(new[i]),
               NEW k \in 1 .. Len(new), NEW y \in 1 .. Len(new[k]),
               P(i) = P(k), Q(i, x) = Q(k, y)
        PROVE  i = k /\ x = y
    <2>1. new[1] = u /\ Len(u) = mid /\ mid \in Nat
      BY <1>2, <1>4, <1>7
    <2>a. new \in Seq(Seq(S))
      BY <1>7
    <2>b. Len(new) \in Nat /\ Len(new[i]) \in Nat /\ Len(new[k]) \in Nat
      <3>1. Len(new) \in Nat /\ new[i] \in Seq(S) /\ new[k] \in Seq(S)
        BY <2>a, ElementOfSeq, LenProperties
      <3> QED
        BY <3>1, LenProperties, Zenon
    <2>c. x \in Nat \ {0} /\ y \in Nat \ {0} /\ i \in Nat \ {0} /\ k \in Nat \ {0}
      BY <2>b, IsPlace, Zenon
    <2>d. ASSUME i = 1
          PROVE  x <= mid
      <3>1. Len(new[i]) = mid
        BY <2>1, <2>d, Zenon
      <3> QED
        BY <2>1, <3>1
    <2>e. ASSUME k = 1
          PROVE  y <= mid
      <3>1. Len(new[k]) = mid
        BY <2>1, <2>e, Zenon
      <3> QED
        BY <2>1, <3>1
    <2> HIDE DEF new, mid
    <2> QED
      BY <1>9, <2>1, <2>c, <2>d, <2>e, OnePlaceBefore
  <1> HIDE DEF P, Q
  <1>10. Apart(new)
    <2> SUFFICES ASSUME NEW i \in 1 .. Len(new), NEW k \in 1 .. Len(new),
                        NEW x \in 1 .. Len(new[i]), NEW y \in 1 .. Len(new[k]),
                        new[i][x] = new[k][y]
                 PROVE  i = k /\ x = y
      BY DEF Apart
    <2>1. cs[P(i)][Q(i, x)] = cs[P(k)][Q(k, y)]
      BY <1>8
    <2>a. /\ P(i) \in 1 .. Len(cs) /\ Q(i, x) \in 1 .. Len(cs[P(i)])
          /\ P(k) \in 1 .. Len(cs) /\ Q(k, y) \in 1 .. Len(cs[P(k)])
      BY <1>8
    <2>2. P(i) = P(k) /\ Q(i, x) = Q(k, y)
      <3>1. PICK p \in 1 .. Len(cs) : p = P(i)
        BY <2>a, Zenon
      <3>2. PICK q \in 1 .. Len(cs) : q = P(k)
        BY <2>a, Zenon
      <3>3. PICK m \in 1 .. Len(cs[p]) : m = Q(i, x)
        BY <2>a, <3>1, Zenon
      <3>4. PICK n \in 1 .. Len(cs[q]) : n = Q(k, y)
        BY <2>a, <3>2, Zenon
      <3>5. cs[p][m] = cs[q][n]
        BY <2>1, <3>1, <3>2, <3>3, <3>4, Zenon
      <3>6. p = q /\ m = n
        BY <3>5, SMTT(30) DEF Apart
      <3> QED
        BY <3>1, <3>2, <3>3, <3>4, <3>6, Zenon
    <2> QED
      BY <1>9, <2>2
  <1>11. ASSUME NEW z \in Held(new)
         PROVE  z \in Held(cs)
    <2>0. new \in Seq(Seq(S))
      BY <1>7
    <2>1. PICK i \in 1 .. Len(new) : \E x \in 1 .. Len(new[i]) : z = new[i][x]
      BY <2>0, InHeld
    <2>2. PICK x \in 1 .. Len(new[i]) : z = new[i][x]
      BY <2>1
    <2>3. P(i) \in 1 .. Len(cs) /\ Q(i, x) \in 1 .. Len(cs[P(i)]) /\ z = cs[P(i)][Q(i, x)]
      BY <1>8, <2>2
    <2>4. (\E k \in 1 .. Len(cs) : \E y \in 1 .. Len(cs[k]) : z = cs[k][y]) => z \in Held(cs)
      BY InHeld
    <2> QED
      BY <2>3, <2>4, Zenon
  <1>12. ASSUME NEW z \in Held(cs)
         PROVE  z \in Held(new)
    <2>0. \E i \in 1 .. Len(cs) : \E x \in 1 .. Len(cs[i]) : z = cs[i][x]
      <3>1. z \in Held(cs) <=> \E i \in 1 .. Len(cs) : \E x \in 1 .. Len(cs[i]) : z = cs[i][x]
        BY InHeld
      <3> QED
        BY <3>1
    <2>1. PICK i \in 1 .. Len(cs) : \E x \in 1 .. Len(cs[i]) : z = cs[i][x]
      BY <2>0
    <2>x. PICK x \in 1 .. Len(cs[i]) : z = cs[i][x]
      BY <2>1
    <2>2. CASE i # 1
      <3>1. i + 1 \in 3 .. Len(new) /\ i + 1 \in 1 .. Len(new)
        BY <1>1, <1>7, <2>2
      <3>2. new[i + 1] = cs[i]
        <4>1. new[i + 1] = cs[(i + 1) - 1] /\ (i + 1) - 1 = i
          <5>1. \A n \in 3 .. Len(new) : new[n] = cs[n - 1]
            BY <1>7
          <5>2. (i + 1) - 1 = i
            OBVIOUS
          <5> QED
            BY <3>1, <5>1, <5>2
        <4> QED
          BY <4>1
      <3> QED
        BY <1>7, <2>x, <3>1, <3>2, InHeld
    <2>3. CASE i = 1 /\ x <= mid
      <3>1. x \in 1 .. Len(new[1]) /\ new[1][x] = z /\ 1 \in 1 .. Len(new)
        BY <1>1, <1>2, <1>4, <1>7, <2>x, <2>3
      <3> QED
        BY <1>7, <3>1, InHeld
    <2>4. CASE i = 1 /\ x > mid
      <3>1. x - mid \in 1 .. Len(new[2]) /\ new[2][x - mid] = z /\ 2 \in 1 .. Len(new)
        BY <1>1, <1>2, <1>5, <1>7, <2>x, <2>4
      <3>2. \E j \in 1 .. Len(new) : \E y \in 1 .. Len(new[j]) : z = new[j][y]
        BY <3>1, Zenon
      <3> QED
        BY <1>7, <3>2, InHeld, Zenon
    <2> QED
      BY <1>2, <2>x, <2>2, <2>3, <2>4
  <1> QED
    BY <1>3, <1>7, <1>10, <1>11, <1>12 DEF new, rest, h

(* A query of a set of jobs, newest first, returns each of them once.      *)
LEMMA NewestFacts ==
    ASSUME Parameters, NEW S \in SUBSET Jobs
    PROVE  /\ NewestFirst(S) \in Seq(S) /\ Distinct(NewestFirst(S)) /\ ToSet(NewestFirst(S)) = S
           /\ Len(NewestFirst(S)) \in 0 .. N
  <1> DEFINE Newer(j) == {k \in S : k > j}
             c(j) == Cardinality(Newer(j))
             size == Cardinality(S)
             s == NewestFirst(S)
  <1>0. N \in Nat /\ S \subseteq Nat
    BY DEF Parameters, Jobs
  <1>1. IsFiniteSet(S) /\ size \in 0 .. N
    <2>1. IsFiniteSet(Jobs) /\ Cardinality(Jobs) = N
      BY <1>0, FS_Interval DEF Jobs
    <2>2. IsFiniteSet(S) /\ Cardinality(S) <= Cardinality(Jobs)
      BY <2>1, FS_Subset
    <2> QED
      BY <1>0, <2>1, <2>2, FS_CardinalityType
  <1>2. ASSUME NEW j \in S
        PROVE  IsFiniteSet(Newer(j)) /\ c(j) \in 0 .. size - 1
    <2>1. Newer(j) \in SUBSET S /\ Newer(j) # S
      BY <1>0
    <2>2. IsFiniteSet(Newer(j)) /\ c(j) <= size /\ c(j) # size
      BY <1>1, <2>1, FS_Subset
    <2>3. c(j) \in Nat
      BY <2>2, FS_CardinalityType
    <2> QED
      BY <1>1, <2>2, <2>3
  <1>3. ASSUME NEW j \in S, NEW k \in S, j < k
        PROVE  c(j) # c(k)
    <2>1. j \in Nat /\ k \in Nat /\ \A i \in S : i \in Nat
      BY <1>0
    <2>2. Newer(k) \subseteq Newer(j)
      <3>1. \A i \in S : i > k => i > j
        BY <1>3, <2>1
      <3> QED
        BY <3>1
    <2>3. k \in Newer(j) /\ k \notin Newer(k)
      BY <1>3, <2>1
    <2>4. IsFiniteSet(Newer(j))
      BY <1>2
    <2> HIDE DEF Newer
    <2>5. Newer(k) \in SUBSET Newer(j) /\ Newer(k) # Newer(j)
      BY <2>2, <2>3
    <2> QED
      BY <2>4, <2>5, FS_Subset
  <1> HIDE DEF c, Newer, size
  <1>4. ASSUME NEW j \in S, NEW k \in S, c(j) = c(k)
        PROVE  j = k
    <2>1. j \in Nat /\ k \in Nat
      BY <1>0
    <2>2. ~(j < k) /\ ~(k < j)
      BY <1>3, <1>4
    <2> QED
      BY <2>1, <2>2
  <1>5. ASSUME NEW i \in 1 .. size
        PROVE  \E j \in S : c(j) = i - 1
    <2> DEFINE g == [j \in S |-> c(j)]
               T == 0 .. size - 1
    <2>1. IsFiniteSet(T) /\ Cardinality(T) = size
      BY <1>1, FS_Interval
    <2>2. g \in Injection(S, T)
      <3>1. g \in [S -> T]
        BY <1>2
      <3>2. \A j, k \in S : g[j] = g[k] => j = k
        BY <1>4
      <3> QED
        BY <3>1, <3>2 DEF Injection, IsInjective
    <2>3. g \in Surjection(S, T)
      BY <2>1, <2>2, FS_Injection DEF size
    <2>4. i - 1 \in T
      BY <1>1
    <2> QED
      BY <2>3, <2>4 DEF Surjection
  <1>6. s = [i \in 1 .. size |-> CHOOSE j \in S : c(j) = i - 1]
    BY DEF NewestFirst, c, Newer, size
  <1> HIDE DEF s
  <1>7. ASSUME NEW i \in 1 .. size
        PROVE  s[i] \in S /\ c(s[i]) = i - 1
    <2>1. \E j \in S : c(j) = i - 1
      BY <1>5
    <2>2. s[i] = CHOOSE j \in S : c(j) = i - 1
      BY <1>6
    <2> QED
      BY <2>1, <2>2
  <1>8. s \in Seq(S) /\ Len(s) = size
    BY <1>1, <1>6, <1>7
  <1>9. Distinct(s)
    <2> SUFFICES ASSUME NEW x \in 1 .. size, NEW y \in 1 .. size, s[x] = s[y]
                 PROVE  x = y
      BY <1>8 DEF Distinct
    <2>1. x - 1 = y - 1
      BY <1>7
    <2> QED
      BY <1>1, <2>1
  <1>10. ASSUME NEW j \in S
         PROVE  j \in ToSet(s)
    <2>1. c(j) + 1 \in 1 .. size /\ (c(j) + 1) - 1 = c(j)
      BY <1>1, <1>2
    <2>2. s[c(j) + 1] \in S /\ c(s[c(j) + 1]) = c(j)
      BY <1>7, <2>1
    <2>3. s[c(j) + 1] = j
      BY <1>4, <2>2
    <2> QED
      BY <1>8, <2>1, <2>3, InSet
  <1>11. ToSet(s) \subseteq S
    BY <1>8, InSet
  <1> QED
    BY <1>1, <1>8, <1>9, <1>10, <1>11 DEF s

(* Multiplication distributes over a sum.                                  *)
LEMMA Times ==
    ASSUME NEW n \in Nat \ {0}, NEW p \in Int, NEW q \in Int, n * p < n * q
    PROVE  p < q
  OBVIOUS

(* A product of naturals is a natural.                                     *)
LEMMA Product == ASSUME NEW n \in Nat, NEW p \in Nat PROVE n * p \in Nat
  OBVIOUS

(* A quotient and its remainder.                                           *)
LEMMA Divided ==
    ASSUME NEW n \in Nat \ {0}, NEW a \in Nat
    PROVE  /\ a \div n \in Nat /\ a % n \in 0 .. n - 1
           /\ a = n * (a \div n) + (a % n)
  <1>0. n \in Nat /\ n > 0
    OBVIOUS
  <1>1. a \div n \in Nat
    BY <1>0
  <1>2. a % n \in 0 .. n - 1
    BY <1>0
  <1>3. a % n = a - n * (a \div n)
    BY <1>0
  <1> DEFINE q == a \div n
             r == a % n
             b == n * q
  <1>4. b \in Nat
    BY <1>0, <1>1, Product
  <1>5. r = a - b /\ r \in 0 .. n - 1
    BY <1>2, <1>3
  <1> HIDE DEF b, r
  <1>6. a = b + r
    BY <1>0, <1>4, <1>5
  <1> QED
    BY <1>1, <1>2, <1>6 DEF b, r

(* A place in a sequence is a place in one of its pieces of n.             *)
LEMMA PieceOf ==
    ASSUME NEW n \in Nat \ {0}, NEW p \in Nat, NEW q \in Nat, NEW x \in 1 .. n, NEW y \in 1 .. n,
           n * p + x = n * q + y
    PROVE  p = q /\ x = y
  <1>1. n * p \in Nat /\ n * q \in Nat
    OBVIOUS
  <1>2. n * (p - 1) = n * p - n /\ n * (q - 1) = n * q - n
    OBVIOUS
  <1>3. n * (p - 1) < n * q /\ n * (q - 1) < n * p
    <2> DEFINE b == n * p
               d == n * q
               e == n * (p - 1)
               f == n * (q - 1)
    <2>1. b \in Nat /\ d \in Nat /\ b + x = d + y
      BY <1>1
    <2>2. e = b - n /\ f = d - n
      BY <1>2
    <2> HIDE DEF b, d, e, f
    <2>3. e < d /\ f < b
      BY <2>1, <2>2
    <2> QED
      BY <2>3 DEF b, d, e, f
  <1>4. p - 1 < q /\ q - 1 < p
    BY <1>3, Times
  <1>5. p = q
    BY <1>4
  <1>6. x = y
    <2> DEFINE b == n * p
    <2>1. b \in Nat /\ b + x = b + y
      BY <1>1, <1>5
    <2> HIDE DEF b
    <2> QED
      BY <2>1
  <1> QED
    BY <1>5, <1>6

(* A sequence cut into pieces of n: the pieces hold its jobs, each at one  *)
(* place.                                                                  *)
LEMMA PiecesFacts ==
    ASSUME NEW S, NEW s \in Seq(S), Distinct(s), NEW n \in Nat \ {0}
    PROVE  Pieces(s, n) \in Seq(Seq(S)) /\ Apart(Pieces(s, n)) /\ Held(Pieces(s, n)) = ToSet(s)
  <1> DEFINE l == Len(s)
             m == (l + n - 1) \div n
             cs == Pieces(s, n)
  <1>1. l \in Nat /\ l + n - 1 \in Nat
    OBVIOUS
  <1>2. m \in Nat /\ n * m \in Nat /\ n * m >= l
    <2>1. m \in Nat /\ (l + n - 1) % n \in 0 .. n - 1 /\ l + n - 1 = n * m + ((l + n - 1) % n)
      BY <1>1, Divided
    <2>2. n * m \in Nat
      BY <2>1, Product
    <2> HIDE DEF m, l
    <2> QED
      BY <1>1, <2>1, <2>2
  <1>3. cs = [i \in 1 .. m |-> FirstOf(After(s, n * (i - 1)), n)]
    BY DEF Pieces
  <1> HIDE DEF m, cs
  <1>4. ASSUME NEW i \in 1 .. m
        PROVE  /\ i - 1 \in Nat /\ n * (i - 1) \in Nat
               /\ cs[i] \in Seq(S)
               /\ Len(cs[i]) = IF l < n * (i - 1) THEN 0
                               ELSE IF l - n * (i - 1) < n THEN l - n * (i - 1) ELSE n
               /\ \A x \in 1 .. Len(cs[i]) : cs[i][x] = s[n * (i - 1) + x]
    <2>1. i - 1 \in Nat /\ n * (i - 1) \in Nat
      <3>1. i - 1 \in Nat
        BY <1>2
      <3> QED
        BY <3>1, Product
    <2> DEFINE k == n * (i - 1)
               t == After(s, k)
    <2>2. cs[i] = FirstOf(t, n) /\ k \in Nat
      BY <1>3, <2>1
    <2> HIDE DEF k
    <2>3. /\ t \in Seq(S) /\ Len(t) = IF l < k THEN 0 ELSE l - k
          /\ \A x \in 1 .. Len(t) : t[x] = s[k + x]
      BY <2>2, AfterFacts
    <2> HIDE DEF t
    <2>4. /\ FirstOf(t, n) \in Seq(S)
          /\ Len(FirstOf(t, n)) = IF Len(t) < n THEN Len(t) ELSE n
          /\ \A x \in 1 .. Len(FirstOf(t, n)) : FirstOf(t, n)[x] = t[x]
      BY <2>3, FirstOfFacts
    <2> HIDE DEF l
    <2>5. \A x \in 1 .. Len(FirstOf(t, n)) : x \in 1 .. Len(t)
      BY <1>1, <2>2, <2>3, <2>4
    <2>6. Len(cs[i]) = IF l < k THEN 0 ELSE IF l - k < n THEN l - k ELSE n
      BY <1>1, <2>2, <2>3, <2>4
    <2>7. \A x \in 1 .. Len(cs[i]) : cs[i][x] = s[k + x]
      BY <2>2, <2>3, <2>4, <2>5
    <2> QED
      BY <2>1, <2>2, <2>4, <2>6, <2>7 DEF k
  <1>5. cs \in Seq(Seq(S)) /\ Len(cs) = m
    <2>1. \A i \in 1 .. m : cs[i] \in Seq(S)
      BY <1>4
    <2>2. DOMAIN cs = 1 .. m /\ cs = [i \in 1 .. m |-> cs[i]]
      BY <1>3
    <2> QED
      BY <1>2, <2>1, <2>2
  <1>6. ASSUME NEW i \in 1 .. m, NEW x \in 1 .. Len(cs[i])
        PROVE  x \in 1 .. n /\ n * (i - 1) + x \in 1 .. l /\ cs[i][x] = s[n * (i - 1) + x]
    <2> DEFINE k == n * (i - 1)
    <2>1. k \in Nat /\ Len(cs[i]) = IF l < k THEN 0 ELSE IF l - k < n THEN l - k ELSE n
      BY <1>4
    <2>2. cs[i][x] = s[k + x]
      BY <1>4
    <2> HIDE DEF k, l
    <2>3. x \in 1 .. n /\ k + x \in 1 .. l
      BY <1>1, <2>1
    <2> QED
      BY <2>2, <2>3 DEF k
  <1>7. Apart(cs)
    <2> SUFFICES ASSUME NEW i \in 1 .. m, NEW k \in 1 .. m,
                        NEW x \in 1 .. Len(cs[i]), NEW y \in 1 .. Len(cs[k]),
                        cs[i][x] = cs[k][y]
                 PROVE  i = k /\ x = y
      BY <1>5 DEF Apart
    <2>1. n * (i - 1) + x = n * (k - 1) + y
      <3>1. n * (i - 1) + x \in 1 .. l /\ n * (k - 1) + y \in 1 .. l
        BY <1>6
      <3>2. s[n * (i - 1) + x] = s[n * (k - 1) + y]
        BY <1>6
      <3>3. PICK a \in 1 .. l : a = n * (i - 1) + x
        BY <3>1, Zenon
      <3>4. PICK b \in 1 .. l : b = n * (k - 1) + y
        BY <3>1, Zenon
      <3>5. s[a] = s[b]
        BY <3>2, <3>3, <3>4, Zenon
      <3>6. a = b
        BY <3>5, Zenon DEF Distinct, l
      <3> QED
        BY <3>3, <3>4, <3>6, Zenon
    <2>2. i - 1 \in Nat /\ k - 1 \in Nat /\ x \in 1 .. n /\ y \in 1 .. n
      BY <1>4, <1>6
    <2>3. i - 1 = k - 1 /\ x = y
      BY <2>1, <2>2, PieceOf, SMTT(30)
    <2> QED
      BY <1>2, <2>3
  <1>8. ASSUME NEW z \in Held(cs)
        PROVE  z \in ToSet(s)
    <2>1. PICK i \in 1 .. m : \E x \in 1 .. Len(cs[i]) : z = cs[i][x]
      BY <1>5, InHeld
    <2>2. PICK x \in 1 .. Len(cs[i]) : z = cs[i][x]
      BY <2>1
    <2>3. n * (i - 1) + x \in 1 .. l /\ z = s[n * (i - 1) + x]
      BY <1>6, <2>2
    <2>4. (\E k \in 1 .. Len(s) : z = s[k]) => z \in ToSet(s)
      BY InSet
    <2> QED
      BY <2>3, <2>4
  <1>9. ASSUME NEW z \in ToSet(s)
        PROVE  z \in Held(cs)
    <2>1. PICK j \in 1 .. l : z = s[j]
      BY InSet
    <2> DEFINE a == j - 1
               q == a \div n
               r == a % n
    <2>2. a \in Nat /\ a < l
      BY <1>1
    <2>3. q \in Nat /\ r \in 0 .. n - 1 /\ a = n * q + r
      BY <2>2, Divided
    <2> HIDE DEF q, r
    <2>4. n * q \in Nat
      BY <2>3
    <2>5. n * q < n * m
      <3> DEFINE b == n * q
                 d == n * m
      <3>1. b \in Nat /\ d \in Nat /\ d >= l /\ a = b + r /\ r \in Nat
        BY <1>2, <2>3, <2>4
      <3> HIDE DEF b, d, a, l
      <3>2. b < d
        BY <1>1, <2>2, <3>1
      <3> QED
        BY <3>2 DEF b, d
    <2>6. q < m
      BY <1>2, <2>3, <2>5, Times
    <2> DEFINE i == q + 1
               x == r + 1
    <2>7. i \in 1 .. m /\ i - 1 = q
      BY <1>2, <2>3, <2>6
    <2>8. Len(cs[i]) = IF l < n * q THEN 0 ELSE IF l - n * q < n THEN l - n * q ELSE n
      BY <1>4, <2>7
    <2>9. n * q + x = j /\ x \in 1 .. n
      <3> DEFINE b == n * q
      <3>1. b \in Nat /\ a = b + r
        BY <2>3, <2>4
      <3> HIDE DEF b
      <3>2. b + x = j /\ x \in 1 .. n
        BY <1>1, <2>3, <3>1
      <3> QED
        BY <3>2 DEF b
    <2>10. x \in 1 .. Len(cs[i])
      <3> DEFINE b == n * q
      <3>1. b \in Nat /\ Len(cs[i]) = (IF l < b THEN 0 ELSE IF l - b < n THEN l - b ELSE n)
        BY <2>4, <2>8
      <3>2. b + x = j /\ x \in 1 .. n
        BY <2>9
      <3> HIDE DEF b, l, x, i
      <3> QED
        BY <1>1, <3>1, <3>2
    <2>11. cs[i][x] = s[n * q + x]
      BY <1>6, <2>7, <2>10
    <2>12. cs[i][x] = z
      BY <2>1, <2>9, <2>11
    <2> QED
      BY <1>5, <2>7, <2>10, <2>12, InHeld
  <1> QED
    BY <1>5, <1>7, <1>8, <1>9 DEF cs

-----------------------------------------------------------------------------
(* Each job is asked for: the batch of a thread, the pieces of it that are *)
(* still to be sent, and how often each of its jobs has been sent.         *)

(* The labels of a thread that has a batch.                                *)
Busy == {"call", "commit"}

(* What each kind of thread goes through. *)
Labels(a) ==
    /\ a \in Autos => pc[a] \in {"idle", "read", "next"} \cup Busy \/ (pc[a] = "clear" /\ a \in Rescores)
    /\ a \in Pages => pc[a] \in {"idle", "count"} \cup Busy
    /\ a \in Singles => pc[a] \in {"idle"} \cup Busy

(* Between two batches nothing is left of the one before. *)
Rests(a) ==
    pc[a] \notin Busy =>
        /\ batch[a] = <<>> /\ chunks[a] = <<>> /\ pass[a] = 1 /\ got[a] = {} /\ writes[a] = {}
        /\ \A j \in Jobs : tries[a][j] = 0

(* No job is in a batch twice, and what is still to be sent is a part of   *)
(* the batch, no job of it twice.                                          *)
Cut(a) ==
    /\ Distinct(list[a]) /\ Distinct(batch[a]) /\ Apart(chunks[a])
    /\ Held(chunks[a]) \subseteq ToSet(batch[a])
    /\ pc[a] = "commit" => chunks[a] = <<>>

(* A triage has asked once for each job of its batch that is not still to  *)
(* be sent, and for no other.                                              *)
Once(a) ==
    a \in Autos /\ pc[a] \in Busy => \A j \in Jobs :
        tries[a][j] = IF j \in ToSet(batch[a]) /\ j \notin Held(chunks[a]) THEN 1 ELSE 0

(* A page has asked for a job once in each pass before, and in this one if *)
(* it is not still to be sent, unless the job has its score.               *)
Again(a) ==
    a \in Pages /\ pc[a] \in Busy =>
        /\ got[a] \subseteq ToSet(batch[a])
        /\ \A j \in Jobs :
               IF j \in Held(chunks[a]) THEN tries[a][j] = pass[a] - 1
               ELSE /\ tries[a][j] \in 0 .. pass[a]
                    /\ j \in ToSet(batch[a]) => tries[a][j] = pass[a] \/ j \in got[a]

(* A thread that scores one job has not asked yet when it calls.           *)
Alone(a) ==
    a \in Singles /\ pc[a] = "call" =>
        /\ chunks[a] = <<batch[a]>> /\ got[a] = {}
        /\ \A j \in Jobs : tries[a][j] = 0

(* Nobody is forgotten by a page about to commit. *)
Complete(a) ==
    a \in Pages /\ pc[a] = "commit" =>
        \A j \in ToSet(batch[a]) : j \in got[a] \/ tries[a][j] = 3

(* What the invariant says of one thread.                                  *)
Asks(a) == Labels(a) /\ Rests(a) /\ Cut(a) /\ Once(a) /\ Again(a) /\ Alone(a) /\ Complete(a)

(* The lock is held by the trigger that is at work. *)
Locked == \A a \in Triggers : InProgress(a) => lock = a

(* The inductive invariant of EveryJobAsked.                               *)
AskInv == TriageTypeOK /\ Locked /\ \A a \in Actors : Asks(a)

(* A step leaves the thread alone.                                         *)
Same(a) ==
    /\ pc'[a] = pc[a] /\ list'[a] = list[a] /\ batch'[a] = batch[a] /\ chunks'[a] = chunks[a]
    /\ pass'[a] = pass[a] /\ got'[a] = got[a] /\ writes'[a] = writes[a] /\ tries'[a] = tries[a]

(* What a step of a does to the lock. *)
Locks(a) ==
    \/ lock' = lock /\ (pc'[a] # "idle" => pc[a] # "idle" \/ a \notin Triggers)
    \/ lock = NoOne /\ lock' = a
    \/ lock' = NoOne /\ pc[a] # "idle" /\ pc'[a] = "idle" /\ a \in Triggers

(* No thread has asked for anything at the start.                          *)
LEMMA AskInit == ASSUME Parameters PROVE TriageInit => AskInv
  <1> SUFFICES ASSUME TriageInit PROVE AskInv
    OBVIOUS
  <1>1. TriageTypeOK
    <2>1. /\ N \in Nat /\ MaxProfile \in Nat \ {0}
          /\ MaxStarts \in Nat /\ MaxFaults \in Nat /\ MaxChanges \in Nat
      BY DEF Parameters
    <2>2. /\ status \in [Jobs -> {"absent", "Saved", "other", "deleted"}]
          /\ score \in [Jobs -> 0 .. profile] /\ profile \in 1 .. MaxProfile
          /\ lock \in Triggers \cup {NoOne}
      BY <2>1 DEF TriageInit
    <2>3. /\ pc \in [Actors -> {"idle", "clear", "read", "next", "call", "commit", "count"}]
          /\ list \in [Actors -> Seq(Jobs)] /\ batch \in [Actors -> Seq(Jobs)]
          /\ using \in [Actors -> 1 .. MaxProfile] /\ chunks \in [Actors -> Seq(Seq(Jobs))]
      BY <2>1 DEF TriageInit
    <2>4. /\ pass \in [Actors -> 1 .. 3]
          /\ got \in [Actors -> SUBSET Jobs] /\ writes \in [Actors -> SUBSET Jobs]
          /\ tries \in [Actors -> [Jobs -> 0 .. 3]]
      BY <2>1 DEF TriageInit
    <2>5. /\ offset \in [Pages -> 0 .. N] /\ remaining \in [Pages -> 0 .. N] /\ mixed \in BOOLEAN
          /\ starts \in 0 .. MaxStarts /\ faults \in 0 .. MaxFaults /\ changes \in 0 .. MaxChanges
      <3>1. offset = [u \in Pages |-> 0] /\ remaining = [u \in Pages |-> 0] /\ 0 \in 0 .. N
        BY <2>1 DEF TriageInit
      <3>2. mixed = FALSE /\ starts = 0 /\ faults = 0 /\ changes = 0
        BY DEF TriageInit
      <3>3. 0 \in 0 .. MaxStarts /\ 0 \in 0 .. MaxFaults /\ 0 \in 0 .. MaxChanges
        BY <2>1
      <3> QED
        BY <3>1, <3>2, <3>3
    <2> QED
      BY <2>2, <2>3, <2>4, <2>5 DEF TriageTypeOK
  <1>2. Locked
    BY DEF TriageInit, Locked, InProgress, Actors, Autos
  <1>3. ASSUME NEW a \in Actors
        PROVE  Asks(a)
    <2>1. /\ pc[a] = "idle" /\ list[a] = <<>> /\ batch[a] = <<>> /\ chunks[a] = <<>>
          /\ pass[a] = 1 /\ got[a] = {} /\ writes[a] = {} /\ \A j \in Jobs : tries[a][j] = 0
      BY DEF TriageInit
    <2>2. Labels(a) /\ Rests(a)
      BY <2>1 DEF Labels, Rests, Busy
    <2>3. Cut(a)
      BY <2>1, NoPiece DEF Cut, Distinct
    <2>4. Once(a) /\ Again(a) /\ Alone(a) /\ Complete(a)
      BY <2>1 DEF Once, Again, Alone, Complete, Busy
    <2> QED
      BY <2>2, <2>3, <2>4 DEF Asks
  <1> QED
    BY <1>1, <1>2, <1>3 DEF AskInv

(* A thread whose state a step leaves alone asks as before.                *)
LEMMA AskSame ==
    ASSUME NEW a, Asks(a), Same(a)
    PROVE  Asks(a)'
  BY DEF Asks, Same, Labels, Rests, Cut, Once, Again, Alone, Complete

(* A step of one thread keeps the invariant when it keeps that thread's    *)
(* part of it and the lock is moved as Locks() says.                       *)
LEMMA AskFrame ==
    ASSUME Parameters, AskInv, NEW a \in Actors, TriageTypeOK', Asks(a)', Locks(a),
           \A b \in Actors \ {a} : Same(b)
    PROVE  AskInv'
  <1>1. ASSUME NEW b \in Actors
        PROVE  Asks(b)'
    BY AskSame DEF AskInv
  <1>2. Locked'
    <2> SUFFICES ASSUME NEW b \in Triggers, pc'[b] # "idle"
                 PROVE  lock' = b
      BY DEF Locked, InProgress
    <2>1. b \in Actors /\ NoOne \notin Actors
      BY DEF Actors, Autos, Parameters
    <2>2. b # a => pc[b] # "idle"
      BY <2>1 DEF Same
    <2>3. \A c \in Triggers : pc[c] # "idle" => lock = c
      BY DEF AskInv, Locked, InProgress
    <2> QED
      BY <2>1, <2>2, <2>3 DEF Locks
  <1> QED
    BY <1>1, <1>2 DEF AskInv

-----------------------------------------------------------------------------
(* What the actions have in common.                                        *)

(* What is left of a thread whose batch is dropped.                        *)
LEMMA Forgotten ==
    ASSUME TriageTypeOK, NEW a \in Actors, Forget(a)
    PROVE  /\ batch'[a] = <<>> /\ chunks'[a] = <<>> /\ pass'[a] = 1 /\ got'[a] = {} /\ writes'[a] = {}
           /\ \A j \in Jobs : tries'[a][j] = 0
           /\ \A b \in Actors \ {a} :
                  /\ batch'[b] = batch[b] /\ chunks'[b] = chunks[b] /\ pass'[b] = pass[b]
                  /\ got'[b] = got[b] /\ writes'[b] = writes[b] /\ tries'[b] = tries[b]
           /\ batch' \in [Actors -> Seq(Jobs)] /\ chunks' \in [Actors -> Seq(Seq(Jobs))]
           /\ pass' \in [Actors -> 1 .. 3]
           /\ got' \in [Actors -> SUBSET Jobs] /\ writes' \in [Actors -> SUBSET Jobs]
           /\ tries' \in [Actors -> [Jobs -> 0 .. 3]]
  BY DEF Forget, TriageTypeOK

(* A step after which a has no batch. *)
LEMMA AskResting ==
    ASSUME NEW a \in Actors, pc'[a] \notin Busy, Labels(a)', Distinct(list'[a]),
           batch'[a] = <<>>, chunks'[a] = <<>>, pass'[a] = 1, got'[a] = {}, writes'[a] = {},
           \A j \in Jobs : tries'[a][j] = 0
    PROVE  Asks(a)'
  <1>1. Rests(a)'
    BY DEF Rests
  <1>2. Cut(a)'
    BY NoPiece DEF Cut, Distinct, Busy
  <1>3. Once(a)' /\ Again(a)' /\ Alone(a)' /\ Complete(a)'
    BY DEF Once, Again, Alone, Complete, Busy
  <1> QED
    BY <1>1, <1>2, <1>3 DEF Asks

(* A thread that ends, or has an exception, is at rest.                    *)
LEMMA AskEnds ==
    ASSUME Parameters, AskInv, NEW a \in Actors, InProgress(a), Ends(a)
    PROVE  /\ Asks(a)' /\ Locks(a) /\ \A b \in Actors \ {a} : Same(b)
           /\ pc' \in [Actors -> {"idle", "clear", "read", "next", "call", "commit", "count"}]
           /\ lock' \in Triggers \cup {NoOne}
           /\ list' \in [Actors -> Seq(Jobs)] /\ using' \in [Actors -> 1 .. MaxProfile]
  <1> USE DEF AskInv
  <1>1. TriageTypeOK /\ Forget(a)
    BY DEF Ends
  <1>2. /\ pc' = [pc EXCEPT ![a] = "idle"] /\ lock' = (IF a \in Triggers THEN NoOne ELSE lock)
        /\ list' = [list EXCEPT ![a] = <<>>] /\ using' = [using EXCEPT ![a] = 1]
    BY DEF Ends, Goto
  <1>3. /\ pc' \in [Actors -> {"idle", "clear", "read", "next", "call", "commit", "count"}]
        /\ lock' \in Triggers \cup {NoOne}
        /\ list' \in [Actors -> Seq(Jobs)] /\ using' \in [Actors -> 1 .. MaxProfile]
        /\ pc'[a] = "idle" /\ list'[a] = <<>>
        /\ \A b \in Actors \ {a} : pc'[b] = pc[b] /\ list'[b] = list[b]
    BY <1>1, <1>2 DEF TriageTypeOK, Parameters
  <1>4. \A b \in Actors \ {a} : Same(b)
    BY <1>1, <1>3, Forgotten DEF Same
  <1>5. Locks(a)
    BY <1>2, <1>3 DEF Locks, InProgress
  <1>6. Asks(a)'
    <2>1. Labels(a)' /\ pc'[a] \notin Busy /\ Distinct(list'[a])
      BY <1>3 DEF Labels, Busy, Distinct
    <2> QED
      BY <1>1, <2>1, Forgotten, AskResting
  <1> QED
    BY <1>1, <1>3, <1>4, <1>5, <1>6

(* What a step of a must keep for AskInv to hold after it. *)
Kept(a) == TriageTypeOK' /\ Asks(a)' /\ Locks(a) /\ \A b \in Actors \ {a} : Same(b)

(* The labels.                                                             *)
PCs == {"idle", "clear", "read", "next", "call", "commit", "count"}

(* A thread at a new label.                                                *)
LEMMA Moved ==
    ASSUME TriageTypeOK, NEW a \in Actors, NEW label \in PCs, Goto(a, label)
    PROVE  /\ pc' \in [Actors -> PCs] /\ pc'[a] = label
           /\ \A b \in Actors \ {a} : pc'[b] = pc[b]
  BY DEF TriageTypeOK, Goto, PCs

(* A thread that starts with its batch at rest, or with the whole of it to *)
(* be sent.                                                                *)
LEMMA AskStarts ==
    ASSUME Parameters, TriageTypeOK, NEW a \in Actors, NEW label \in PCs, Starts(a, label)
    PROVE  /\ mixed' \in BOOLEAN /\ starts' \in 0 .. MaxStarts
           /\ pc[a] = "idle" /\ pc' \in [Actors -> PCs] /\ pc'[a] = label
           /\ \A b \in Actors \ {a} : pc'[b] = pc[b]
  <1>1. Goto(a, label)
    BY DEF Starts
  <1>2. mixed' \in BOOLEAN /\ starts' \in 0 .. MaxStarts /\ pc[a] = "idle"
    BY DEF Starts, InProgress, TriageTypeOK, Parameters
  <1> QED
    BY <1>1, <1>2, Moved

(* A thread that does not run keeps its part.                              *)
LEMMA AskIdle ==
    ASSUME TriageTypeOK, NEW a \in Actors, Asks(a), pc[a] \notin Busy
    PROVE  /\ Distinct(list[a]) /\ batch[a] = <<>> /\ chunks[a] = <<>> /\ pass[a] = 1
           /\ got[a] = {} /\ writes[a] = {} /\ \A j \in Jobs : tries[a][j] = 0
  BY DEF Asks, Rests, Cut

(* StartTrigger and StartTask: the trigger that starts has found the lock  *)
(* free.                                                                   *)
LEMMA AskBegin ==
    ASSUME Parameters, AskInv, NEW a \in Autos, NEW label \in {"read", "clear"},
           label = "clear" => a \in Rescores, Starts(a, label),
           \/ lock' = lock /\ a \notin Triggers
           \/ lock' = a /\ lock = NoOne /\ a \in Triggers,
           UNCHANGED <<table, profile, work, page, bounds>>
    PROVE  Kept(a)
  <1>0. a \in Actors /\ TriageTypeOK /\ Asks(a)
    BY DEF Actors, AskInv
  <1>1. /\ mixed' \in BOOLEAN /\ starts' \in 0 .. MaxStarts
        /\ pc[a] = "idle" /\ pc' \in [Actors -> PCs] /\ pc'[a] = label
        /\ \A b \in Actors \ {a} : pc'[b] = pc[b]
    BY <1>0, AskStarts DEF PCs
  <1>2. UNCHANGED <<list, using, batch, chunks, pass, got, writes, tries>>
    BY DEF work, request
  <1>3. TriageTypeOK'
    BY <1>0, <1>1, <1>2 DEF TriageTypeOK, table, page, bounds, PCs
  <1>4. \A b \in Actors \ {a} : Same(b)
    BY <1>1, <1>2 DEF Same
  <1>5. pc[a] \notin Busy /\ pc'[a] \notin Busy
    BY <1>1 DEF Busy
  <1>6. Labels(a)'
    BY <1>1 DEF Labels, Parameters
  <1>7. Asks(a)'
    BY <1>0, <1>2, <1>5, <1>6, AskIdle, AskResting
  <1>8. Locks(a)
    BY DEF Locks
  <1> QED
    BY <1>3, <1>4, <1>7, <1>8 DEF Kept

(* ClearScores changes no batch.                                           *)
LEMMA AskClear ==
    ASSUME Parameters, AskInv, NEW a \in Autos, pc[a] = "clear", Goto(a, "read"),
           status' = status, score' \in [Jobs -> 0 .. profile], faults' \in 0 .. MaxFaults,
           UNCHANGED <<profile, lock, work, page, begun, changes>>
    PROVE  Kept(a)
  <1>0. a \in Actors /\ TriageTypeOK /\ Asks(a)
    BY DEF Actors, AskInv
  <1>1. pc' \in [Actors -> PCs] /\ pc'[a] = "read" /\ \A b \in Actors \ {a} : pc'[b] = pc[b]
    BY <1>0, Moved DEF PCs
  <1>2. UNCHANGED <<list, using, batch, chunks, pass, got, writes, tries>>
    BY DEF work, request
  <1>3. TriageTypeOK'
    BY <1>0, <1>1, <1>2 DEF TriageTypeOK, page, begun, PCs
  <1>4. \A b \in Actors \ {a} : Same(b)
    BY <1>1, <1>2 DEF Same
  <1>5. pc[a] \notin Busy /\ pc'[a] \notin Busy
    BY <1>1 DEF Busy
  <1>6. Labels(a)'
    BY <1>1 DEF Labels, Parameters
  <1>7. Asks(a)'
    BY <1>0, <1>2, <1>5, <1>6, AskIdle, AskResting
  <1>8. Locks(a)
    BY DEF Locks
  <1> QED
    BY <1>3, <1>4, <1>7, <1>8 DEF Kept

(* The backlog is a sequence of different jobs.                            *)
LEMMA BacklogFacts ==
    ASSUME Parameters
    PROVE  /\ Backlog \in Seq(Jobs) /\ Distinct(Backlog) /\ Len(Backlog) \in 0 .. N
           /\ \A j \in ToSet(Backlog) : j \in Jobs /\ status[j] = "Saved" /\ score[j] = 0
  <1> DEFINE S == {j \in Jobs : status[j] = "Saved" /\ score[j] = 0}
  <1>1. S \in SUBSET Jobs
    OBVIOUS
  <1>2. Backlog = NewestFirst(S)
    BY DEF Backlog
  <1> HIDE DEF S
  <1>3. /\ Backlog \in Seq(S) /\ Distinct(Backlog) /\ ToSet(Backlog) = S
        /\ Len(Backlog) \in 0 .. N
    BY <1>1, <1>2, NewestFacts
  <1>4. Backlog \in Seq(Jobs)
    BY <1>1, <1>3
  <1> QED
    BY <1>3, <1>4 DEF S

(* ReadJobs: the jobs of one query, each once.                             *)
LEMMA AskReadJobs ==
    ASSUME Parameters, AskInv, NEW a \in Autos, ReadJobs(a)
    PROVE  Kept(a)
  <1>0. a \in Actors /\ TriageTypeOK /\ Asks(a) /\ pc[a] = "read" /\ AutoLimit \in Nat
    BY DEF Actors, AskInv, ReadJobs, Parameters
  <1>1. pc' \in [Actors -> PCs] /\ pc'[a] = "next" /\ \A b \in Actors \ {a} : pc'[b] = pc[b]
    BY <1>0, Moved DEF PCs, ReadJobs
  <1>2. UNCHANGED <<batch, chunks, pass, got, writes, tries>>
    BY DEF ReadJobs, request
  <1> DEFINE s == FirstOf(Backlog, AutoLimit)
  <1>3. s \in Seq(Jobs) /\ Distinct(s)
    BY <1>0, BacklogFacts, FirstOfFacts, StillDistinct
  <1>4. list' = [list EXCEPT ![a] = s] /\ using' = [using EXCEPT ![a] = profile]
    BY DEF ReadJobs
  <1> HIDE DEF s
  <1>5. /\ list' \in [Actors -> Seq(Jobs)] /\ list'[a] = s /\ \A b \in Actors \ {a} : list'[b] = list[b]
        /\ using' \in [Actors -> 1 .. MaxProfile]
    BY <1>0, <1>3, <1>4 DEF TriageTypeOK
  <1>6. UNCHANGED <<table, profile, lock, page, begun, bounds>>
    BY DEF ReadJobs
  <1>7. TriageTypeOK'
    BY <1>0, <1>1, <1>2, <1>5, <1>6 DEF TriageTypeOK, table, page, begun, bounds, PCs
  <1>8. \A b \in Actors \ {a} : Same(b)
    BY <1>1, <1>2, <1>5 DEF Same
  <1>9. pc[a] \notin Busy /\ pc'[a] \notin Busy /\ Distinct(list'[a])
    BY <1>0, <1>1, <1>3, <1>5 DEF Busy
  <1>10. Labels(a)'
    BY <1>1 DEF Labels, Parameters
  <1>11. Asks(a)'
    BY <1>0, <1>2, <1>9, <1>10, AskIdle, AskResting
  <1>12. Locks(a)
    BY <1>0, <1>6 DEF Locks
  <1> QED
    BY <1>7, <1>8, <1>11, <1>12 DEF Kept

(* A batch or page s is sent, in one piece. *)
LEMMA AskSends ==
    ASSUME Parameters, AskInv, NEW a \in Actors, NEW s \in Seq(Jobs), Distinct(s), s # <<>>,
           pc[a] \notin Busy, pc'[a] = "call", Ask(a, s), Distinct(list'[a])
    PROVE  /\ Asks(a)'
           /\ batch' \in [Actors -> Seq(Jobs)] /\ chunks' \in [Actors -> Seq(Seq(Jobs))]
           /\ \A b \in Actors \ {a} :
                  /\ batch'[b] = batch[b] /\ chunks'[b] = chunks[b] /\ pass'[b] = pass[b]
                  /\ got'[b] = got[b] /\ writes'[b] = writes[b] /\ tries'[b] = tries[b]
  <1>0. TriageTypeOK /\ Asks(a)
    BY DEF AskInv
  <1>1. <<s>> \in Seq(Seq(Jobs)) /\ Apart(<<s>>) /\ Held(<<s>>) = ToSet(s)
    BY OnePiece
  <1>2. /\ batch' = [batch EXCEPT ![a] = s] /\ chunks' = [chunks EXCEPT ![a] = <<s>>]
        /\ UNCHANGED <<pass, got, writes, tries>>
    BY DEF Ask
  <1>3. /\ batch' \in [Actors -> Seq(Jobs)] /\ chunks' \in [Actors -> Seq(Seq(Jobs))]
        /\ batch'[a] = s /\ chunks'[a] = <<s>>
        /\ \A b \in Actors \ {a} : batch'[b] = batch[b] /\ chunks'[b] = chunks[b]
    BY <1>0, <1>1, <1>2 DEF TriageTypeOK
  <1>4. /\ pass'[a] = 1 /\ got'[a] = {} /\ writes'[a] = {} /\ \A j \in Jobs : tries'[a][j] = 0
    BY <1>0, <1>2, AskIdle
  <1>5. Labels(a)' /\ Rests(a)'
    BY DEF Labels, Rests, Busy
  <1>6. Cut(a)'
    BY <1>1, <1>3 DEF Cut
  <1>7. Once(a)' /\ Again(a)' /\ Alone(a)' /\ Complete(a)'
    BY <1>1, <1>3, <1>4 DEF Once, Again, Alone, Complete
  <1> QED
    BY <1>2, <1>3, <1>5, <1>6, <1>7 DEF Asks

(* NextBatch: a batch is the first jobs of the list, and these leave the   *)
(* list.                                                                   *)
LEMMA AskNextBatch ==
    ASSUME Parameters, AskInv, NEW a \in Autos, NextBatch(a)
    PROVE  Kept(a)
  <1>0. a \in Actors /\ TriageTypeOK /\ Asks(a) /\ pc[a] = "next" /\ BatchSize \in Nat \ {0}
    BY DEF Actors, AskInv, NextBatch, Parameters
  <1>1. pc' \in [Actors -> PCs] /\ pc'[a] = "call" /\ \A b \in Actors \ {a} : pc'[b] = pc[b]
    BY <1>0, Moved DEF PCs, NextBatch
  <1> DEFINE s == FirstOf(list[a], BatchSize)
             rest == After(list[a], BatchSize)
  <1>2. list[a] \in Seq(Jobs) /\ list[a] # <<>> /\ Distinct(list[a])
    BY <1>0 DEF TriageTypeOK, NextBatch, Asks, Cut
  <1>3. s \in Seq(Jobs) /\ rest \in Seq(Jobs) /\ Distinct(s) /\ Distinct(rest)
    BY <1>0, <1>2, FirstOfFacts, AfterFacts, StillDistinct
  <1>4. s # <<>>
    BY <1>0, <1>2, FirstOfFacts
  <1>5. Ask(a, s) /\ list' = [list EXCEPT ![a] = rest]
    BY <1>0 DEF NextBatch, TriageTypeOK
  <1> HIDE DEF s, rest
  <1>6. list' \in [Actors -> Seq(Jobs)] /\ list'[a] = rest /\ \A b \in Actors \ {a} : list'[b] = list[b]
    BY <1>0, <1>3, <1>5 DEF TriageTypeOK
  <1>7. pc[a] \notin Busy /\ Distinct(list'[a])
    BY <1>0, <1>3, <1>6 DEF Busy
  <1>8. /\ Asks(a)'
        /\ batch' \in [Actors -> Seq(Jobs)] /\ chunks' \in [Actors -> Seq(Seq(Jobs))]
        /\ \A b \in Actors \ {a} :
               /\ batch'[b] = batch[b] /\ chunks'[b] = chunks[b] /\ pass'[b] = pass[b]
               /\ got'[b] = got[b] /\ writes'[b] = writes[b] /\ tries'[b] = tries[b]
    BY <1>0, <1>1, <1>3, <1>4, <1>5, <1>7, AskSends
  <1>9. UNCHANGED <<table, profile, lock, using, pass, got, writes, tries, page, begun, bounds>>
    BY <1>5 DEF NextBatch, Ask
  <1>10. TriageTypeOK'
    BY <1>0, <1>1, <1>6, <1>8, <1>9 DEF TriageTypeOK, table, page, begun, bounds, PCs
  <1>11. \A b \in Actors \ {a} : Same(b)
    BY <1>1, <1>6, <1>8 DEF Same
  <1>12. Locks(a)
    BY <1>0, <1>9 DEF Locks
  <1> QED
    BY <1>8, <1>10, <1>11, <1>12 DEF Kept

(* EndTriage ends with the lock given back.                                *)
LEMMA AskEnd ==
    ASSUME Parameters, AskInv, NEW a \in Actors, InProgress(a), Ends(a),
           faults' \in 0 .. MaxFaults, score' \in [Jobs -> 0 .. profile],
           remaining' \in [Pages -> 0 .. N],
           UNCHANGED <<status, profile, offset, begun, changes>>
    PROVE  Kept(a)
  <1>1. /\ Asks(a)' /\ Locks(a) /\ \A b \in Actors \ {a} : Same(b)
        /\ pc' \in [Actors -> PCs]
        /\ lock' \in Triggers \cup {NoOne}
        /\ list' \in [Actors -> Seq(Jobs)] /\ using' \in [Actors -> 1 .. MaxProfile]
    BY AskEnds DEF PCs
  <1>2. TriageTypeOK /\ Forget(a)
    BY DEF AskInv, Ends
  <1>3. /\ batch' \in [Actors -> Seq(Jobs)] /\ chunks' \in [Actors -> Seq(Seq(Jobs))]
        /\ pass' \in [Actors -> 1 .. 3]
        /\ got' \in [Actors -> SUBSET Jobs] /\ writes' \in [Actors -> SUBSET Jobs]
        /\ tries' \in [Actors -> [Jobs -> 0 .. 3]]
    BY <1>2, Forgotten
  <1>4. TriageTypeOK'
    BY <1>1, <1>2, <1>3 DEF TriageTypeOK, begun, PCs
  <1> QED
    BY <1>1, <1>4 DEF Kept

(* The batch or page of a is dealt with, and a goes on. *)
LEMMA AskForgets ==
    ASSUME Parameters, AskInv, NEW a \in Autos \cup Pages, pc[a] \in Busy, Forget(a),
           NEW label, label = (IF a \in Pages THEN "count" ELSE "next"), Goto(a, label),
           faults' \in 0 .. MaxFaults, score' \in [Jobs -> 0 .. profile],
           UNCHANGED <<status, profile, lock, list, using, page, begun, changes>>
    PROVE  Kept(a)
  <1>0. a \in Actors /\ TriageTypeOK /\ Asks(a) /\ label \in PCs
    BY DEF Actors, AskInv, PCs
  <1>1. pc' \in [Actors -> PCs] /\ pc'[a] = label /\ \A b \in Actors \ {a} : pc'[b] = pc[b]
    BY <1>0, Moved
  <1>2. /\ batch'[a] = <<>> /\ chunks'[a] = <<>> /\ pass'[a] = 1 /\ got'[a] = {} /\ writes'[a] = {}
        /\ \A j \in Jobs : tries'[a][j] = 0
        /\ \A b \in Actors \ {a} :
               /\ batch'[b] = batch[b] /\ chunks'[b] = chunks[b] /\ pass'[b] = pass[b]
               /\ got'[b] = got[b] /\ writes'[b] = writes[b] /\ tries'[b] = tries[b]
        /\ batch' \in [Actors -> Seq(Jobs)] /\ chunks' \in [Actors -> Seq(Seq(Jobs))]
        /\ pass' \in [Actors -> 1 .. 3]
        /\ got' \in [Actors -> SUBSET Jobs] /\ writes' \in [Actors -> SUBSET Jobs]
        /\ tries' \in [Actors -> [Jobs -> 0 .. 3]]
    BY <1>0, Forgotten
  <1>3. TriageTypeOK'
    BY <1>0, <1>1, <1>2 DEF TriageTypeOK, page, begun, PCs
  <1>4. \A b \in Actors \ {a} : Same(b)
    BY <1>1, <1>2 DEF Same
  <1>5. Labels(a)' /\ pc'[a] \notin Busy /\ Distinct(list'[a])
    BY <1>0, <1>1 DEF Labels, Busy, Parameters, Asks, Cut
  <1>6. Asks(a)'
    BY <1>0, <1>2, <1>5, AskResting
  <1>7. Locks(a)
    BY DEF Locks, Busy
  <1> QED
    BY <1>3, <1>4, <1>6, <1>7 DEF Kept

(* BatchFails forgets the batch whole.                                     *)
LEMMA AskBatchFails ==
    ASSUME Parameters, AskInv, NEW a \in Autos, BatchFails(a)
    PROVE  Kept(a)
  <1>1. a \notin Pages /\ pc[a] \in Busy /\ TriageTypeOK
    BY DEF Parameters, BatchFails, Busy, AskInv
  <1>2. /\ Forget(a) /\ Goto(a, "next")
        /\ UNCHANGED <<status, score, profile, lock, list, using, page, begun, faults, changes>>
    BY DEF BatchFails, table, bounds
  <1> QED
    BY <1>1, <1>2, AskForgets DEF TriageTypeOK

(* The first piece has been sent. *)
LEMMA AskAnswered ==
    ASSUME TriageTypeOK, NEW a \in Actors, Asks(a), chunks[a] # <<>>, NEW ids \in SUBSET Jobs,
           \A j \in Held(chunks[a]) : tries[a][j] <= 2, Answered(a, ids)
    PROVE  LET first == ToSet(Head(chunks[a]))
           IN  /\ first \subseteq Held(chunks[a])
               /\ got' \in [Actors -> SUBSET Jobs] /\ got'[a] = got[a] \cup ids
               /\ chunks' \in [Actors -> Seq(Seq(Jobs))] /\ chunks'[a] = Tail(chunks[a])
               /\ Apart(chunks'[a])
               /\ \A j : j \in Held(chunks'[a]) <=> j \in Held(chunks[a]) /\ j \notin first
               /\ tries' \in [Actors -> [Jobs -> 0 .. 3]]
               /\ \A j \in Jobs : tries'[a][j] = IF j \in first THEN tries[a][j] + 1 ELSE tries[a][j]
               /\ \A b \in Actors \ {a} :
                      got'[b] = got[b] /\ chunks'[b] = chunks[b] /\ tries'[b] = tries[b]
  <1> DEFINE first == ToSet(Head(chunks[a]))
             t == [j \in Jobs |-> IF j \in first THEN tries[a][j] + 1 ELSE tries[a][j]]
  <1>1. chunks[a] \in Seq(Seq(Jobs)) /\ Apart(chunks[a])
    BY DEF TriageTypeOK, Asks, Cut
  <1>2. /\ Tail(chunks[a]) \in Seq(Seq(Jobs)) /\ Apart(Tail(chunks[a]))
        /\ first \subseteq Held(chunks[a])
        /\ Held(Tail(chunks[a])) = Held(chunks[a]) \ first
    BY <1>1, LessAPiece
  <1>3. /\ got' = [got EXCEPT ![a] = got[a] \cup ids]
        /\ chunks' = [chunks EXCEPT ![a] = Tail(chunks[a])]
        /\ tries' = [tries EXCEPT ![a] = t]
    BY DEF Answered, TriageTypeOK
  <1> HIDE DEF first
  <1>4. t \in [Jobs -> 0 .. 3]
    <2>1. ASSUME NEW j \in Jobs
          PROVE  (IF j \in first THEN tries[a][j] + 1 ELSE tries[a][j]) \in 0 .. 3
      <3>1. tries[a][j] \in 0 .. 3
        BY DEF TriageTypeOK
      <3>2. j \in first => tries[a][j] <= 2
        BY <1>2
      <3> QED
        BY <3>1, <3>2
    <2> QED
      BY <2>1
  <1>5. \A j \in Jobs : t[j] = IF j \in first THEN tries[a][j] + 1 ELSE tries[a][j]
    OBVIOUS
  <1> HIDE DEF t
  <1>6. /\ got' \in [Actors -> SUBSET Jobs] /\ got'[a] = got[a] \cup ids
        /\ chunks' \in [Actors -> Seq(Seq(Jobs))] /\ chunks'[a] = Tail(chunks[a])
    BY <1>2, <1>3 DEF TriageTypeOK
  <1>7. tries' \in [Actors -> [Jobs -> 0 .. 3]] /\ tries'[a] = t
    BY <1>3, <1>4 DEF TriageTypeOK
  <1>8. \A b \in Actors \ {a} : got'[b] = got[b] /\ chunks'[b] = chunks[b] /\ tries'[b] = tries[b]
    BY <1>3 DEF TriageTypeOK
  <1> QED
    BY <1>2, <1>5, <1>6, <1>7, <1>8 DEF first

(* AutoReply: the jobs of the first piece have been asked for, once.       *)
LEMMA AskAutoReply ==
    ASSUME Parameters, AskInv, NEW a \in Autos, pc[a] = "call", chunks[a] # <<>>,
           NEW ids \in SUBSET Jobs, Answered(a, ids),
           UNCHANGED <<table, profile, lock, pc, list, using, batch, pass, writes, page, begun, bounds>>
    PROVE  Kept(a)
  <1>0. a \in Actors /\ TriageTypeOK /\ Asks(a) /\ a \notin Pages /\ a \notin Singles
    BY DEF Actors, AskInv, Parameters
  <1> DEFINE first == ToSet(Head(chunks[a]))
  <1>1. \A j \in Jobs : tries[a][j] = IF j \in ToSet(batch[a]) /\ j \notin Held(chunks[a]) THEN 1 ELSE 0
    BY <1>0 DEF Asks, Once, Busy
  <1>2. Distinct(list[a]) /\ Distinct(batch[a]) /\ Held(chunks[a]) \subseteq ToSet(batch[a])
    BY <1>0 DEF Asks, Cut
  <1>3. ToSet(batch[a]) \subseteq Jobs
    BY <1>0, InSet DEF TriageTypeOK
  <1>4. \A j \in Held(chunks[a]) : tries[a][j] <= 2
    BY <1>1, <1>2, <1>3
  <1>5. /\ first \subseteq Held(chunks[a])
        /\ got' \in [Actors -> SUBSET Jobs] /\ got'[a] = got[a] \cup ids
        /\ chunks' \in [Actors -> Seq(Seq(Jobs))] /\ chunks'[a] = Tail(chunks[a])
        /\ Apart(chunks'[a])
        /\ \A j : j \in Held(chunks'[a]) <=> j \in Held(chunks[a]) /\ j \notin first
        /\ tries' \in [Actors -> [Jobs -> 0 .. 3]]
        /\ \A j \in Jobs : tries'[a][j] = IF j \in first THEN tries[a][j] + 1 ELSE tries[a][j]
        /\ \A b \in Actors \ {a} :
               got'[b] = got[b] /\ chunks'[b] = chunks[b] /\ tries'[b] = tries[b]
    BY <1>0, <1>4, AskAnswered
  <1> HIDE DEF first
  <1>6. TriageTypeOK'
    BY <1>0, <1>5 DEF TriageTypeOK, table, page, begun, bounds
  <1>7. \A b \in Actors \ {a} : Same(b)
    BY <1>5 DEF Same
  <1>8. Labels(a)' /\ Rests(a)'
    BY <1>0 DEF Asks, Labels, Rests, Busy
  <1>9. Cut(a)'
    BY <1>2, <1>5 DEF Cut
  <1>10. Once(a)'
    <2>1. ASSUME NEW j \in Jobs
          PROVE  tries'[a][j] = IF j \in ToSet(batch[a]) /\ j \notin Held(chunks'[a]) THEN 1 ELSE 0
      BY <1>1, <1>2, <1>5
    <2> QED
      BY <2>1 DEF Once
  <1>11. Again(a)' /\ Alone(a)' /\ Complete(a)'
    BY <1>0 DEF Again, Alone, Complete
  <1>12. Locks(a)
    BY DEF Locks
  <1> QED
    BY <1>6, <1>7, <1>8, <1>9, <1>10, <1>11, <1>12 DEF Kept, Asks

(* A piece cut in half has not been asked for.                             *)
LEMMA AskHalved ==
    ASSUME Parameters, AskInv, NEW a \in Autos, pc[a] = "call", chunks[a] # <<>>,
           chunks' = [chunks EXCEPT ![a] = Halves(Head(chunks[a])) \o Tail(chunks[a])],
           UNCHANGED <<got, tries, table, profile, lock, pc, list, using, batch, pass, writes,
                       page, begun, bounds>>
    PROVE  Kept(a)
  <1>0. a \in Actors /\ TriageTypeOK /\ Asks(a) /\ a \notin Pages /\ a \notin Singles
    BY DEF Actors, AskInv, Parameters
  <1> DEFINE new == Halves(Head(chunks[a])) \o Tail(chunks[a])
  <1>1. chunks[a] \in Seq(Seq(Jobs)) /\ Apart(chunks[a])
    BY <1>0 DEF TriageTypeOK, Asks, Cut
  <1>2. new \in Seq(Seq(Jobs)) /\ Apart(new) /\ Held(new) = Held(chunks[a])
    BY <1>1, HalvesFacts
  <1> HIDE DEF new
  <1>3. /\ chunks' \in [Actors -> Seq(Seq(Jobs))] /\ chunks'[a] = new
        /\ \A b \in Actors \ {a} : chunks'[b] = chunks[b]
    BY <1>0, <1>2 DEF TriageTypeOK, new
  <1>4. TriageTypeOK'
    BY <1>0, <1>3 DEF TriageTypeOK, table, page, begun, bounds
  <1>5. \A b \in Actors \ {a} : Same(b)
    BY <1>3 DEF Same
  <1>6. Labels(a)' /\ Rests(a)'
    BY <1>0 DEF Asks, Labels, Rests, Busy
  <1>7. Cut(a)'
    BY <1>0, <1>2, <1>3 DEF Cut, Asks
  <1>8. Once(a)'
    BY <1>0, <1>2, <1>3 DEF Once, Asks
  <1>9. Again(a)' /\ Alone(a)' /\ Complete(a)'
    BY <1>0 DEF Again, Alone, Complete
  <1>10. Locks(a)
    BY DEF Locks
  <1> QED
    BY <1>4, <1>5, <1>6, <1>7, <1>8, <1>9, <1>10 DEF Kept, Asks

(* TooLarge cuts a piece, or gives up the batch.                           *)
LEMMA AskTooLarge ==
    ASSUME Parameters, AskInv, NEW a \in Autos, TooLarge(a)
    PROVE  Kept(a)
  <1>1. /\ pc[a] = "call" /\ chunks[a] # <<>>
        /\ UNCHANGED <<table, profile, lock, pc, list, using, batch, pass, writes, page, begun, bounds>>
    BY DEF TooLarge
  <1>2. CASE Answered(a, {})
    BY <1>1, <1>2, AskAutoReply
  <1>3. CASE /\ chunks' = [chunks EXCEPT ![a] = Halves(Head(@)) \o Tail(@)]
             /\ UNCHANGED <<got, tries>>
    <2>1. a \in Actors /\ chunks \in [Actors -> Seq(Seq(Jobs))]
      BY DEF AskInv, TriageTypeOK, Actors
    <2>2. chunks' = [chunks EXCEPT ![a] = Halves(Head(chunks[a])) \o Tail(chunks[a])]
      BY <1>3, <2>1
    <2> QED
      BY <1>1, <1>3, <2>2, AskHalved
  <1> QED
    BY <1>2, <1>3 DEF TooLarge

(* PageReply: the jobs of the piece have been asked for once more in this  *)
(* pass.                                                                   *)
LEMMA AskPageReply ==
    ASSUME Parameters, AskInv, NEW u \in Pages, NEW ids \in SUBSET Jobs, PageReply(u, ids)
    PROVE  Kept(u)
  <1>0. /\ u \in Actors /\ TriageTypeOK /\ Asks(u) /\ u \notin Autos /\ u \notin Singles
        /\ pc[u] = "call" /\ chunks[u] # <<>>
    BY DEF Actors, AskInv, Parameters, PageReply
  <1> DEFINE first == ToSet(Head(chunks[u]))
             own == Accepted(u, ids)
  <1>1. /\ got[u] \subseteq ToSet(batch[u])
        /\ \A j \in Jobs :
               IF j \in Held(chunks[u]) THEN tries[u][j] = pass[u] - 1
               ELSE /\ tries[u][j] \in 0 .. pass[u]
                    /\ j \in ToSet(batch[u]) => tries[u][j] = pass[u] \/ j \in got[u]
    BY <1>0 DEF Asks, Again, Busy
  <1>2. Distinct(list[u]) /\ Distinct(batch[u]) /\ Held(chunks[u]) \subseteq ToSet(batch[u])
    BY <1>0 DEF Asks, Cut
  <1>3. ToSet(batch[u]) \subseteq Jobs /\ pass[u] \in 1 .. 3
    BY <1>0, InSet DEF TriageTypeOK
  <1>4. \A j \in Held(chunks[u]) : tries[u][j] <= 2
    BY <1>1, <1>2, <1>3
  <1>5. own \in SUBSET Jobs /\ own \subseteq ToSet(batch[u])
    BY DEF Accepted
  <1>6. /\ Answered(u, own)
        /\ UNCHANGED <<table, profile, lock, pc, list, using, batch, pass, writes, page, begun, bounds>>
    BY DEF PageReply
  <1> HIDE DEF own
  <1>7. /\ first \subseteq Held(chunks[u])
        /\ got' \in [Actors -> SUBSET Jobs] /\ got'[u] = got[u] \cup own
        /\ chunks' \in [Actors -> Seq(Seq(Jobs))] /\ chunks'[u] = Tail(chunks[u])
        /\ Apart(chunks'[u])
        /\ \A j : j \in Held(chunks'[u]) <=> j \in Held(chunks[u]) /\ j \notin first
        /\ tries' \in [Actors -> [Jobs -> 0 .. 3]]
        /\ \A j \in Jobs : tries'[u][j] = IF j \in first THEN tries[u][j] + 1 ELSE tries[u][j]
        /\ \A b \in Actors \ {u} :
               got'[b] = got[b] /\ chunks'[b] = chunks[b] /\ tries'[b] = tries[b]
    BY <1>0, <1>4, <1>5, <1>6, AskAnswered
  <1> HIDE DEF first
  <1>8. TriageTypeOK'
    BY <1>0, <1>6, <1>7 DEF TriageTypeOK, table, page, begun, bounds
  <1>9. \A b \in Actors \ {u} : Same(b)
    BY <1>6, <1>7 DEF Same
  <1>10. Labels(u)' /\ Rests(u)'
    BY <1>0, <1>6 DEF Asks, Labels, Rests, Busy
  <1>11. Cut(u)'
    BY <1>0, <1>2, <1>6, <1>7 DEF Cut
  <1>12. Again(u)'
    <2>1. got'[u] \subseteq ToSet(batch[u])
      BY <1>1, <1>5, <1>7
    <2>2. ASSUME NEW j \in Jobs
          PROVE  IF j \in Held(chunks'[u]) THEN tries'[u][j] = pass[u] - 1
                 ELSE /\ tries'[u][j] \in 0 .. pass[u]
                      /\ j \in ToSet(batch[u]) => tries'[u][j] = pass[u] \/ j \in got'[u]
      BY <1>1, <1>3, <1>7
    <2> QED
      BY <1>6, <2>1, <2>2 DEF Again
  <1>13. Once(u)' /\ Alone(u)' /\ Complete(u)'
    BY <1>0, <1>6 DEF Once, Alone, Complete
  <1>14. Locks(u)
    BY <1>6 DEF Locks
  <1> QED
    BY <1>8, <1>9, <1>10, <1>11, <1>12, <1>13, <1>14 DEF Kept, Asks

(* Retry: a new pass is made for the jobs without a score, and for no      *)
(* other.                                                                  *)
LEMMA AskRetry ==
    ASSUME Parameters, AskInv, NEW u \in Pages, Retry(u)
    PROVE  Kept(u)
  <1>0. /\ u \in Actors /\ TriageTypeOK /\ Asks(u) /\ u \notin Autos /\ u \notin Singles
        /\ pc[u] = "call" /\ chunks[u] = <<>> /\ pass[u] < 3
        /\ UNCHANGED <<table, profile, lock, pc, list, using, batch, got, writes, tries,
                       page, begun, bounds>>
    BY DEF Actors, AskInv, Parameters, Retry
  <1> DEFINE n == IF pass[u] = 1 THEN RetryChunk ELSE 1
             left == ToSet(batch[u]) \ got[u]
             s == Missing(u)
             cs == Pieces(s, n)
  <1>1. n \in Nat \ {0}
    BY DEF Parameters
  <1>2. ToSet(batch[u]) \subseteq Jobs /\ pass[u] \in 1 .. 3
    BY <1>0, InSet DEF TriageTypeOK
  <1>3. left \in SUBSET Jobs /\ s = NewestFirst(left)
    BY <1>2 DEF Missing
  <1> HIDE DEF s, left
  <1>4. s \in Seq(left) /\ Distinct(s) /\ ToSet(s) = left
    BY <1>3, NewestFacts
  <1>5. s \in Seq(Jobs)
    BY <1>3, <1>4
  <1> HIDE DEF n
  <1>6. cs \in Seq(Seq(Jobs)) /\ Apart(cs) /\ Held(cs) = left
    BY <1>1, <1>4, <1>5, PiecesFacts
  <1>7. chunks' = [chunks EXCEPT ![u] = cs] /\ pass' = [pass EXCEPT ![u] = pass[u] + 1]
    BY <1>0 DEF Retry, s, n, TriageTypeOK
  <1> HIDE DEF cs
  <1>8. /\ chunks' \in [Actors -> Seq(Seq(Jobs))] /\ chunks'[u] = cs
        /\ pass' \in [Actors -> 1 .. 3] /\ pass'[u] = pass[u] + 1
        /\ \A b \in Actors \ {u} : chunks'[b] = chunks[b] /\ pass'[b] = pass[b]
    <2>1. pass[u] + 1 \in 1 .. 3
      BY <1>0, <1>2
    <2> QED
      BY <1>0, <1>6, <1>7, <2>1 DEF TriageTypeOK
  <1>9. TriageTypeOK'
    BY <1>0, <1>8 DEF TriageTypeOK, table, page, begun, bounds
  <1>10. \A b \in Actors \ {u} : Same(b)
    BY <1>0, <1>8 DEF Same
  <1>11. Labels(u)' /\ Rests(u)'
    BY <1>0 DEF Asks, Labels, Rests, Busy
  <1>12. Cut(u)'
    BY <1>0, <1>6, <1>8 DEF Cut, Asks, left
  <1>13. Again(u)'
    <2>1. /\ got[u] \subseteq ToSet(batch[u])
          /\ \A j \in Jobs : /\ tries[u][j] \in 0 .. pass[u]
                             /\ j \in ToSet(batch[u]) => tries[u][j] = pass[u] \/ j \in got[u]
      BY <1>0, NoPiece DEF Asks, Again, Busy
    <2>2. ASSUME NEW j \in Jobs
          PROVE  IF j \in left THEN tries[u][j] = pass'[u] - 1
                 ELSE /\ tries[u][j] \in 0 .. pass'[u]
                      /\ j \in ToSet(batch[u]) => tries[u][j] = pass'[u] \/ j \in got[u]
      <3>1. j \in left => tries[u][j] = pass[u]
        BY <2>1 DEF left
      <3>2. j \notin left => (j \in ToSet(batch[u]) => j \in got[u])
        BY DEF left
      <3> QED
        BY <1>2, <1>8, <2>1, <3>1, <3>2
    <2> QED
      BY <1>0, <1>6, <1>8, <2>1, <2>2 DEF Again
  <1>14. Once(u)' /\ Alone(u)' /\ Complete(u)'
    BY <1>0 DEF Once, Alone, Complete
  <1>15. Locks(u)
    BY <1>0 DEF Locks
  <1> QED
    BY <1>9, <1>10, <1>11, <1>12, <1>13, <1>14, <1>15 DEF Kept, Asks

(* A page of the backlog has each of its jobs once.                        *)
LEMMA PageOf ==
    ASSUME Parameters, NEW from \in 0 .. N
    PROVE  LET jobs == FirstOf(After(Backlog, from), PageSize)
           IN  /\ jobs \in Seq(Jobs) /\ Distinct(jobs) /\ from + Len(jobs) \in 0 .. N
               /\ \A j \in ToSet(jobs) : j \in Jobs /\ status[j] = "Saved" /\ score[j] = 0
  <1> DEFINE rest == After(Backlog, from)
             jobs == FirstOf(rest, PageSize)
  <1>0. N \in Nat /\ from \in Nat /\ PageSize \in Nat
    BY DEF Parameters
  <1>1. /\ Backlog \in Seq(Jobs) /\ Distinct(Backlog) /\ Len(Backlog) \in 0 .. N
        /\ \A j \in ToSet(Backlog) : j \in Jobs /\ status[j] = "Saved" /\ score[j] = 0
    BY BacklogFacts
  <1>2. rest \in Seq(Jobs) /\ Distinct(rest) /\ ToSet(rest) \subseteq ToSet(Backlog)
    BY <1>0, <1>1, AfterFacts, StillDistinct
  <1>3. Len(rest) = IF Len(Backlog) < from THEN 0 ELSE Len(Backlog) - from
    BY <1>0, <1>1, AfterFacts
  <1> HIDE DEF rest
  <1>4. jobs \in Seq(Jobs) /\ Distinct(jobs) /\ ToSet(jobs) \subseteq ToSet(rest)
    BY <1>0, <1>2, FirstOfFacts, StillDistinct
  <1>5. Len(jobs) = IF Len(rest) < PageSize THEN Len(rest) ELSE PageSize
    BY <1>0, <1>2, FirstOfFacts
  <1>6. from + Len(jobs) \in 0 .. N
    BY <1>0, <1>1, <1>3, <1>5
  <1> QED
    BY <1>1, <1>2, <1>4, <1>6 DEF rest

(* StartPage begins with the first pass of the whole page.                 *)
LEMMA AskStartPage ==
    ASSUME Parameters, AskInv, NEW u \in Pages, NEW from \in 0 .. N, StartPage(u, from)
    PROVE  Kept(u)
  <1>0. u \in Actors /\ TriageTypeOK /\ Asks(u)
    BY DEF Actors, AskInv
  <1> DEFINE jobs == FirstOf(After(Backlog, from), PageSize)
  <1>1. jobs \in Seq(Jobs) /\ Distinct(jobs) /\ from + Len(jobs) \in 0 .. N
    BY PageOf
  <1>2. /\ Starts(u, "call") /\ Ask(u, jobs) /\ jobs # <<>>
        /\ using' = [using EXCEPT ![u] = profile]
        /\ offset' = [offset EXCEPT ![u] = from + Len(jobs)]
        /\ UNCHANGED <<table, profile, lock, list, remaining, bounds>>
    BY DEF StartPage
  <1> HIDE DEF jobs
  <1>3. /\ mixed' \in BOOLEAN /\ starts' \in 0 .. MaxStarts
        /\ pc[u] = "idle" /\ pc' \in [Actors -> PCs] /\ pc'[u] = "call"
        /\ \A b \in Actors \ {u} : pc'[b] = pc[b]
    BY <1>0, <1>2, AskStarts DEF PCs
  <1>4. pc[u] \notin Busy /\ Distinct(list'[u])
    BY <1>0, <1>2, <1>3 DEF Busy, Asks, Cut
  <1>5. /\ Asks(u)'
        /\ batch' \in [Actors -> Seq(Jobs)] /\ chunks' \in [Actors -> Seq(Seq(Jobs))]
        /\ \A b \in Actors \ {u} :
               /\ batch'[b] = batch[b] /\ chunks'[b] = chunks[b] /\ pass'[b] = pass[b]
               /\ got'[b] = got[b] /\ writes'[b] = writes[b] /\ tries'[b] = tries[b]
    BY <1>0, <1>1, <1>2, <1>3, <1>4, AskSends
  <1>6. using' \in [Actors -> 1 .. MaxProfile] /\ offset' \in [Pages -> 0 .. N]
    BY <1>0, <1>1, <1>2 DEF TriageTypeOK
  <1>7. UNCHANGED <<pass, got, writes, tries>>
    BY <1>2 DEF Ask
  <1>8. TriageTypeOK'
    BY <1>0, <1>2, <1>3, <1>5, <1>6, <1>7 DEF TriageTypeOK, table, bounds, PCs
  <1>9. \A b \in Actors \ {u} : Same(b)
    BY <1>2, <1>3, <1>5 DEF Same
  <1>10. Locks(u)
    BY <1>2 DEF Locks, Parameters, Autos
  <1> QED
    BY <1>5, <1>8, <1>9, <1>10 DEF Kept

(* PageRefused ends the request.                                           *)
LEMMA AskPageRefused ==
    ASSUME Parameters, AskInv, NEW u \in Pages, NEW from \in 0 .. N, PageRefused(u, from)
    PROVE  AskInv'
  <1>0. TriageTypeOK
    BY DEF AskInv
  <1> DEFINE k == from + Len(FirstOf(After(Backlog, from), PageSize))
  <1>1. k \in 0 .. N /\ Len(Backlog) \in 0 .. N
    BY PageOf, BacklogFacts
  <1>2. /\ offset' = [offset EXCEPT ![u] = k]
        /\ remaining' = [remaining EXCEPT ![u] = Len(Backlog)]
        /\ UNCHANGED <<table, profile, lock, pc, work, begun, bounds>>
    BY DEF PageRefused
  <1> HIDE DEF k
  <1>3. TriageTypeOK'
    BY <1>0, <1>1, <1>2 DEF TriageTypeOK, table, work, request, begun, bounds
  <1>4. ASSUME NEW a \in Actors
        PROVE  Asks(a)'
    BY <1>2, AskSame DEF AskInv, Same, work, request
  <1>5. Locked'
    BY <1>2 DEF AskInv, Locked, InProgress
  <1> QED
    BY <1>3, <1>4, <1>5 DEF AskInv

(* StartSingle asks for one job.                                           *)
LEMMA AskStartSingle ==
    ASSUME Parameters, AskInv, NEW s \in Singles, NEW j \in Jobs, StartSingle(s, j)
    PROVE  Kept(s)
  <1>0. s \in Actors /\ TriageTypeOK /\ Asks(s)
    BY DEF Actors, AskInv
  <1>1. <<j>> \in Seq(Jobs) /\ Distinct(<<j>>) /\ <<j>> # <<>>
    BY DEF Distinct
  <1>2. /\ Starts(s, "call") /\ Ask(s, <<j>>)
        /\ using' = [using EXCEPT ![s] = profile]
        /\ UNCHANGED <<table, profile, lock, list, page, bounds>>
    BY DEF StartSingle
  <1>3. /\ mixed' \in BOOLEAN /\ starts' \in 0 .. MaxStarts
        /\ pc[s] = "idle" /\ pc' \in [Actors -> PCs] /\ pc'[s] = "call"
        /\ \A b \in Actors \ {s} : pc'[b] = pc[b]
    BY <1>0, <1>2, AskStarts DEF PCs
  <1>4. pc[s] \notin Busy /\ Distinct(list'[s])
    BY <1>0, <1>2, <1>3 DEF Busy, Asks, Cut
  <1>5. /\ Asks(s)'
        /\ batch' \in [Actors -> Seq(Jobs)] /\ chunks' \in [Actors -> Seq(Seq(Jobs))]
        /\ \A b \in Actors \ {s} :
               /\ batch'[b] = batch[b] /\ chunks'[b] = chunks[b] /\ pass'[b] = pass[b]
               /\ got'[b] = got[b] /\ writes'[b] = writes[b] /\ tries'[b] = tries[b]
    BY <1>0, <1>1, <1>2, <1>3, <1>4, AskSends
  <1>6. using' \in [Actors -> 1 .. MaxProfile]
    BY <1>0, <1>2 DEF TriageTypeOK
  <1>7. UNCHANGED <<pass, got, writes, tries>>
    BY <1>2 DEF Ask
  <1>8. TriageTypeOK'
    BY <1>0, <1>2, <1>3, <1>5, <1>6, <1>7 DEF TriageTypeOK, table, page, bounds, PCs
  <1>9. \A b \in Actors \ {s} : Same(b)
    BY <1>2, <1>3, <1>5 DEF Same
  <1>10. Locks(s)
    BY <1>2 DEF Locks, Parameters, Autos
  <1> QED
    BY <1>5, <1>8, <1>9, <1>10 DEF Kept

(* SingleReply ends with its one job, of which nothing will be written.    *)
LEMMA AskSingleReply ==
    ASSUME Parameters, AskInv, NEW s \in Singles, SingleReply(s)
    PROVE  Kept(s)
  <1>0. /\ s \in Actors /\ TriageTypeOK /\ Asks(s) /\ s \notin Autos /\ s \notin Pages
        /\ pc[s] = "call"
    BY DEF Actors, AskInv, Parameters, SingleReply
  <1> DEFINE own == ToSet(batch[s])
  <1>1. /\ Answered(s, own) /\ Goto(s, "commit")
        /\ UNCHANGED <<table, profile, lock, list, using, batch, pass, writes, page, begun, bounds>>
    BY DEF SingleReply
  <1>2. chunks[s] = <<batch[s]>> /\ \A j \in Jobs : tries[s][j] = 0
    BY <1>0 DEF Asks, Alone
  <1>3. batch[s] \in Seq(Jobs) /\ own \in SUBSET Jobs
    BY <1>0, InSet DEF TriageTypeOK
  <1>4. chunks[s] # <<>> /\ Tail(chunks[s]) = <<>>
    BY <1>2, <1>3
  <1>5. \A j \in Held(chunks[s]) : tries[s][j] <= 2
    <2>1. Held(chunks[s]) \subseteq Jobs
      BY <1>0, InHeld DEF TriageTypeOK
    <2> QED
      BY <1>2, <2>1
  <1>6. pc' \in [Actors -> PCs] /\ pc'[s] = "commit" /\ \A b \in Actors \ {s} : pc'[b] = pc[b]
    BY <1>0, <1>1, Moved DEF PCs
  <1>7. /\ writes' \in [Actors -> SUBSET Jobs]
        /\ \A b \in Actors \ {s} : writes'[b] = writes[b]
    BY <1>0, <1>1 DEF TriageTypeOK
  <1>8. /\ got' \in [Actors -> SUBSET Jobs]
        /\ chunks' \in [Actors -> Seq(Seq(Jobs))] /\ chunks'[s] = Tail(chunks[s])
        /\ Apart(chunks'[s])
        /\ tries' \in [Actors -> [Jobs -> 0 .. 3]]
        /\ \A b \in Actors \ {s} :
               got'[b] = got[b] /\ chunks'[b] = chunks[b] /\ tries'[b] = tries[b]
    BY <1>0, <1>1, <1>3, <1>4, <1>5, AskAnswered
  <1> HIDE DEF own
  <1>9. TriageTypeOK'
    BY <1>0, <1>1, <1>6, <1>7, <1>8 DEF TriageTypeOK, table, page, begun, bounds, PCs
  <1>10. \A b \in Actors \ {s} : Same(b)
    BY <1>1, <1>6, <1>7, <1>8 DEF Same
  <1>11. Labels(s)' /\ Rests(s)'
    BY <1>0, <1>6 DEF Labels, Rests, Busy
  <1>12. Cut(s)'
    BY <1>0, <1>1, <1>4, <1>8, NoPiece DEF Cut, Asks
  <1>13. Once(s)' /\ Again(s)' /\ Alone(s)' /\ Complete(s)'
    BY <1>0, <1>6 DEF Once, Again, Alone, Complete
  <1>14. Locks(s)
    BY <1>0, <1>1 DEF Locks
  <1> QED
    BY <1>9, <1>10, <1>11, <1>12, <1>13, <1>14 DEF Kept, Asks

(* Apply: a batch or page is complete when its scores are written to the   *)
(* session.                                                                *)
LEMMA AskApply ==
    ASSUME Parameters, AskInv, NEW a \in Actors, Apply(a)
    PROVE  Kept(a)
  <1>0. /\ a \in Autos \cup Pages /\ TriageTypeOK /\ Asks(a) /\ a \notin Singles
        /\ pc[a] = "call" /\ chunks[a] = <<>>
    BY DEF Actors, AskInv, Parameters, Apply
  <1>1. /\ Goto(a, "commit")
        /\ a \in Pages => (pass[a] = 3 \/ Missing(a) = <<>>)
        /\ UNCHANGED <<table, profile, lock, list, using, batch, chunks, pass, got, tries,
                       page, begun, bounds>>
    BY DEF Apply
  <1>2. pc' \in [Actors -> PCs] /\ pc'[a] = "commit" /\ \A b \in Actors \ {a} : pc'[b] = pc[b]
    BY <1>0, <1>1, Moved DEF PCs
  <1>3. /\ writes' \in [Actors -> SUBSET Jobs]
        /\ \A b \in Actors \ {a} : writes'[b] = writes[b]
    <2>1. PICK held \in {{}, ToSet(batch[a])} :
              writes' = [writes EXCEPT ![a] = Fetched(a) \cup (got[a] \cap held)]
      BY DEF Apply
    <2>2. Fetched(a) \cup (got[a] \cap held) \in SUBSET Jobs
      BY <1>0 DEF Fetched, TriageTypeOK
    <2> QED
      BY <1>0, <2>1, <2>2 DEF TriageTypeOK
  <1>4. TriageTypeOK'
    BY <1>0, <1>1, <1>2, <1>3 DEF TriageTypeOK, table, page, begun, bounds, PCs
  <1>5. \A b \in Actors \ {a} : Same(b)
    BY <1>1, <1>2, <1>3 DEF Same
  <1>6. Labels(a)' /\ Rests(a)'
    BY <1>0, <1>2 DEF Labels, Rests, Busy
  <1>7. Cut(a)'
    BY <1>0, <1>1 DEF Cut, Asks
  <1>8. Once(a)' /\ Again(a)' /\ Alone(a)'
    BY <1>0, <1>1, <1>2 DEF Once, Again, Alone, Asks, Busy
  <1>9. Complete(a)'
    <2> SUFFICES ASSUME a \in Pages, NEW j \in ToSet(batch[a])
                 PROVE  j \in got[a] \/ tries[a][j] = 3
      BY <1>1 DEF Complete
    <2>1. j \in Jobs
      BY <1>0, InSet DEF TriageTypeOK
    <2>2. tries[a][j] = pass[a] \/ j \in got[a]
      BY <1>0, <2>1, NoPiece DEF Asks, Again, Busy
    <2>3. CASE Missing(a) = <<>>
      <3> DEFINE left == ToSet(batch[a]) \ got[a]
      <3>1. left \in SUBSET Jobs /\ NewestFirst(left) = <<>>
        BY <1>0, <2>3, InSet DEF TriageTypeOK, Missing
      <3> HIDE DEF left
      <3>2. left = ToSet(<<>>)
        BY <3>1, NewestFacts
      <3>3. left = {}
        BY <3>2 DEF ToSet
      <3> QED
        BY <3>3 DEF left
    <2> QED
      BY <1>1, <2>2, <2>3
  <1>10. Locks(a)
    BY <1>0, <1>1 DEF Locks
  <1> QED
    BY <1>4, <1>5, <1>6, <1>7, <1>8, <1>9, <1>10 DEF Kept, Asks

(* The three ways a commit can end are one for what is asked for. *)
LEMMA AskAfterCommit ==
    ASSUME Parameters, AskInv, NEW a \in Actors, pc[a] = "commit", AfterCommit(a),
           faults' \in 0 .. MaxFaults, score' \in [Jobs -> 0 .. profile],
           UNCHANGED <<status, profile, page, begun, changes>>
    PROVE  Kept(a)
  <1>1. CASE a \in Singles
    <2>1. Ends(a) /\ InProgress(a)
      BY <1>1 DEF AfterCommit, InProgress
    <2>2. remaining' \in [Pages -> 0 .. N] /\ offset' = offset
      BY DEF page, AskInv, TriageTypeOK
    <2> QED
      BY <2>1, <2>2, AskEnd
  <1>2. CASE a \notin Singles
    <2>1. a \in Autos \cup Pages /\ pc[a] \in Busy
      BY <1>2 DEF Actors, Busy
    <2>2. /\ Forget(a) /\ Goto(a, IF a \in Pages THEN "count" ELSE "next")
          /\ UNCHANGED <<lock, list, using>>
      BY <1>2 DEF AfterCommit
    <2> QED
      BY <2>1, <2>2, AskForgets
  <1> QED
    BY <1>1, <1>2

(* No triage has a profile that is still to be written. *)
Current == \A a \in Actors : using[a] <= profile

(* The commits of a batch or page, and those that raise or are lost, leave *)
(* it at rest.                                                             *)
LEMMA AskCommits ==
    ASSUME Parameters, AskInv, Current, NEW a \in Actors,
           Commit(a) \/ CommitRaises(a) \/ CommitLost(a)
    PROVE  Kept(a)
  <1>0. TriageTypeOK
    BY DEF AskInv
  <1>1. CASE Commit(a)
    <2>1. /\ pc[a] = "commit" /\ AfterCommit(a)
          /\ score' = [j \in Jobs |-> IF j \in writes[a] THEN using[a] ELSE score[j]]
          /\ UNCHANGED <<status, profile, page, begun, bounds>>
      BY <1>1 DEF Commit
    <2>2. using[a] \in 0 .. profile
      BY <1>0 DEF TriageTypeOK, Current
    <2>3. faults' \in 0 .. MaxFaults /\ score' \in [Jobs -> 0 .. profile]
      BY <1>0, <2>1, <2>2 DEF TriageTypeOK, bounds
    <2> QED
      BY <2>1, <2>3, AskAfterCommit DEF bounds
  <1>2. CASE CommitRaises(a)
    <2>1. /\ pc[a] = "commit" /\ AfterCommit(a)
          /\ UNCHANGED <<table, profile, page, begun, bounds>>
      BY <1>2 DEF CommitRaises
    <2>2. faults' \in 0 .. MaxFaults /\ score' \in [Jobs -> 0 .. profile]
      BY <1>0, <2>1 DEF TriageTypeOK, table, bounds
    <2> QED
      BY <2>1, <2>2, AskAfterCommit DEF table, bounds
  <1>3. CASE CommitLost(a)
    <2>1. /\ pc[a] = "commit" /\ AfterCommit(a) /\ faults < MaxFaults /\ faults' = faults + 1
          /\ UNCHANGED <<table, profile, page, begun, changes>>
      BY <1>3 DEF CommitLost
    <2>2. faults' \in 0 .. MaxFaults /\ score' \in [Jobs -> 0 .. profile]
      BY <1>0, <2>1 DEF TriageTypeOK, table, Parameters
    <2> QED
      BY <2>1, <2>2, AskAfterCommit DEF table
  <1> QED
    BY <1>1, <1>2, <1>3

(* Every way to start a thread.                                            *)
LEMMA AskStart ==
    ASSUME Parameters, AskInv, Start
    PROVE  AskInv'
  <1>1. ASSUME NEW a \in Triggers, StartTrigger(a)
        PROVE  AskInv'
    <2>1. a \in Autos /\ a \in Actors
      BY DEF Autos, Actors
    <2>2. /\ lock = NoOne /\ lock' = a /\ Starts(a, "read")
          /\ UNCHANGED <<table, profile, work, page, bounds>>
      BY <1>1 DEF StartTrigger
    <2>3. Kept(a)
      BY <2>1, <2>2, AskBegin
    <2> QED
      BY <2>1, <2>3, AskFrame DEF Kept
  <1>2. ASSUME NEW a \in Manual \cup Rescores, StartTask(a)
        PROVE  AskInv'
    <2>1. a \in Autos /\ a \in Actors /\ a \notin Triggers
      BY DEF Autos, Actors, Parameters
    <2> DEFINE label == IF a \in Rescores THEN "clear" ELSE "read"
    <2>2. /\ Starts(a, label) /\ label \in {"read", "clear"} /\ (label = "clear" => a \in Rescores)
          /\ UNCHANGED <<table, profile, lock, work, page, bounds>>
      BY <1>2 DEF StartTask
    <2> HIDE DEF label
    <2>3. Kept(a)
      BY <2>1, <2>2, AskBegin
    <2> QED
      BY <2>1, <2>3, AskFrame DEF Kept
  <1>3. ASSUME NEW u \in Pages, NEW from \in 0 .. N, StartPage(u, from)
        PROVE  AskInv'
    <2>1. u \in Actors
      BY DEF Actors
    <2> QED
      BY <1>3, <2>1, AskStartPage, AskFrame DEF Kept
  <1>4. ASSUME NEW u \in Pages, NEW from \in 0 .. N, PageRefused(u, from)
        PROVE  AskInv'
    BY <1>4, AskPageRefused
  <1>5. ASSUME NEW s \in Singles, NEW j \in Jobs, StartSingle(s, j)
        PROVE  AskInv'
    <2>1. s \in Actors
      BY DEF Actors
    <2> QED
      BY <1>5, <2>1, AskStartSingle, AskFrame DEF Kept
  <1> QED
    BY <1>1, <1>2, <1>3, <1>4, <1>5 DEF Start

(* Every step of a thread that runs.                                       *)
LEMMA AskStep ==
    ASSUME Parameters, AskInv, Current, NEW a \in Actors, Step(a)
    PROVE  Kept(a)
  <1>0. TriageTypeOK
    BY DEF AskInv
  <1>1. ASSUME a \in Autos, ClearScores(a)
        PROVE  Kept(a)
    <2>1. /\ pc[a] = "clear" /\ Goto(a, "read") /\ status' = status
          /\ score' = [j \in Jobs |-> IF status[j] = "Saved" THEN 0 ELSE score[j]]
          /\ UNCHANGED <<profile, lock, work, page, begun, bounds>>
      BY <1>1 DEF ClearScores
    <2>2. score' \in [Jobs -> 0 .. profile] /\ faults' \in 0 .. MaxFaults
      BY <1>0, <2>1 DEF TriageTypeOK, bounds
    <2> QED
      BY <1>1, <2>1, <2>2, AskClear DEF bounds
  <1>2. ASSUME a \in Autos, ReadJobs(a)
        PROVE  Kept(a)
    BY <1>2, AskReadJobs
  <1>3. ASSUME a \in Autos, NextBatch(a)
        PROVE  Kept(a)
    BY <1>3, AskNextBatch
  <1>4. ASSUME a \in Autos, EndTriage(a)
        PROVE  Kept(a)
    <2>1. /\ pc[a] = "next" /\ Ends(a) /\ InProgress(a)
          /\ UNCHANGED <<table, profile, page, begun, bounds>>
      BY <1>4 DEF EndTriage, InProgress
    <2> QED
      BY <1>0, <2>1, AskEnd DEF table, page, bounds, TriageTypeOK
  <1>5. ASSUME a \in Autos, NEW ids \in SUBSET Jobs, AutoReply(a, ids)
        PROVE  Kept(a)
    BY <1>5, AskAutoReply DEF AutoReply
  <1>6. ASSUME a \in Autos, TooLarge(a)
        PROVE  Kept(a)
    BY <1>6, AskTooLarge
  <1>7. ASSUME a \in Autos, BatchFails(a)
        PROVE  Kept(a)
    BY <1>7, AskBatchFails
  <1>8. ASSUME a \in Pages, NEW ids \in SUBSET Jobs, PageReply(a, ids)
        PROVE  Kept(a)
    BY <1>8, AskPageReply
  <1>9. ASSUME a \in Pages, Retry(a)
        PROVE  Kept(a)
    BY <1>9, AskRetry
  <1>10. ASSUME a \in Pages, CountRemaining(a)
         PROVE  Kept(a)
    <2>1. /\ pc[a] = "count" /\ Ends(a) /\ InProgress(a)
          /\ remaining' = [remaining EXCEPT ![a] = Len(Backlog)]
          /\ UNCHANGED <<table, profile, offset, begun, bounds>>
      BY <1>10 DEF CountRemaining, InProgress
    <2>2. Len(Backlog) \in 0 .. N
      BY BacklogFacts
    <2>3. remaining' \in [Pages -> 0 .. N]
      BY <1>0, <2>1, <2>2 DEF TriageTypeOK
    <2>4. faults' \in 0 .. MaxFaults /\ score' \in [Jobs -> 0 .. profile]
      BY <1>0, <2>1 DEF TriageTypeOK, table, bounds
    <2> QED
      BY <2>1, <2>3, <2>4, AskEnd DEF table, bounds
  <1>11. ASSUME a \in Singles, SingleReply(a)
         PROVE  Kept(a)
    BY <1>11, AskSingleReply
  <1>12. ASSUME Apply(a)
         PROVE  Kept(a)
    BY <1>12, AskApply
  <1>13. ASSUME Commit(a) \/ CommitRaises(a)
         PROVE  Kept(a)
    BY <1>13, AskCommits
  <1> QED
    BY <1>1, <1>2, <1>3, <1>4, <1>5, <1>6, <1>7, <1>8, <1>9, <1>10, <1>11, <1>12, <1>13 DEF Step

(* Abort leaves the thread at rest.                                        *)
LEMMA AskAbort ==
    ASSUME Parameters, AskInv, NEW a \in Actors, Abort(a)
    PROVE  Kept(a)
  <1>1. /\ InProgress(a) /\ Ends(a) /\ faults < MaxFaults /\ faults' = faults + 1
        /\ UNCHANGED <<table, profile, page, begun, changes>>
    BY DEF Abort
  <1>2. TriageTypeOK
    BY DEF AskInv
  <1>3. faults' \in 0 .. MaxFaults
    <2>1. MaxFaults \in Nat
      BY DEF Parameters
    <2>2. faults \in 0 .. MaxFaults
      BY <1>2 DEF TriageTypeOK
    <2> QED
      BY <1>1, <2>1, <2>2
  <1>4. score' \in [Jobs -> 0 .. profile] /\ remaining' \in [Pages -> 0 .. N]
    BY <1>1, <1>2 DEF TriageTypeOK, table, page
  <1> QED
    BY <1>1, <1>3, <1>4, AskEnd DEF table, page

(* ClearLost: the thread goes on as if the scores had been cleared.        *)
LEMMA AskClearLost ==
    ASSUME Parameters, AskInv, NEW a \in Rescores, ClearLost(a)
    PROVE  Kept(a)
  <1>1. /\ pc[a] = "clear" /\ Goto(a, "read") /\ faults < MaxFaults /\ faults' = faults + 1
        /\ UNCHANGED <<table, profile, lock, work, page, begun, changes>>
    BY DEF ClearLost
  <1>2. TriageTypeOK /\ a \in Autos
    BY DEF AskInv, Autos
  <1>3. faults' \in 0 .. MaxFaults /\ score' \in [Jobs -> 0 .. profile] /\ status' = status
    BY <1>1, <1>2 DEF TriageTypeOK, Parameters, table
  <1> QED
    BY <1>1, <1>2, <1>3, AskClear

(* What is none of the triage's doing leaves its work alone. *)
LEMMA AskElsewhere ==
    ASSUME Parameters, AskInv, TriageTypeOK', UNCHANGED <<lock, pc, work>>
    PROVE  AskInv'
  <1>1. ASSUME NEW a \in Actors
        PROVE  Asks(a)'
    BY AskSame DEF AskInv, Same, work, request
  <1>2. Locked'
    BY DEF AskInv, Locked, InProgress
  <1> QED
    BY <1>1, <1>2 DEF AskInv

(* Edits of the profile, and jobs that arrive, leave or are deleted,       *)
(* change no thread.                                                       *)
LEMMA AskEdits ==
    ASSUME Parameters, AskInv, EditProfile \/ \E j \in Jobs : Change(j)
    PROVE  AskInv'
  <1>0. TriageTypeOK
    BY DEF AskInv
  <1>1. CASE EditProfile
    <2>1. profile < MaxProfile /\ profile' = profile + 1 /\ UNCHANGED <<table, lock, pc, work, page, begun, bounds>>
      BY <1>1 DEF EditProfile
    <2>2. profile' \in 1 .. MaxProfile /\ profile <= profile'
      BY <1>0, <2>1 DEF TriageTypeOK, Parameters
    <2>3. score \in [Jobs -> 0 .. profile']
      <3>1. \A j \in Jobs : score[j] \in 0 .. profile'
        BY <1>0, <2>2 DEF TriageTypeOK, Parameters
      <3> QED
        BY <1>0, <3>1 DEF TriageTypeOK
    <2>4. TriageTypeOK'
      BY <1>0, <2>1, <2>2, <2>3 DEF TriageTypeOK, table, work, request, page, begun, bounds
    <2> QED
      BY <2>1, <2>4, AskElsewhere
  <1>2. ASSUME NEW j \in Jobs, Change(j)
        PROVE  AskInv'
    <2>1. /\ changes < MaxChanges /\ changes' = changes + 1
          /\ UNCHANGED <<score, profile, lock, pc, work, page, begun, faults>>
      BY <1>2 DEF Change
    <2>2. changes' \in 0 .. MaxChanges
      BY <1>0, <2>1 DEF TriageTypeOK, Parameters
    <2>3. status' \in [Jobs -> {"absent", "Saved", "other", "deleted"}]
      BY <1>0, <1>2 DEF TriageTypeOK, Change
    <2>4. TriageTypeOK'
      BY <1>0, <2>1, <2>2, <2>3 DEF TriageTypeOK, work, request, page, begun
    <2> QED
      BY <2>1, <2>4, AskElsewhere
  <1> QED
    BY <1>1, <1>2

(* A thread has loaded a version of the profile that exists.               *)
LEMMA CurrentNext ==
    ASSUME Parameters, AskInv, Current, [TriageNext]_triageVars
    PROVE  Current'
  <1>0. /\ using \in [Actors -> 1 .. MaxProfile] /\ profile \in 1 .. MaxProfile /\ MaxProfile \in Nat
    BY DEF AskInv, TriageTypeOK, Parameters
  <1>1. CASE UNCHANGED using /\ (profile' = profile \/ profile' = profile + 1)
    BY <1>0, <1>1 DEF Current
  <1>2. CASE /\ profile' = profile
             /\ \E a \in Actors : \E k \in {1, profile} : using' = [using EXCEPT ![a] = k]
    BY <1>0, <1>2 DEF Current
  <1>3. Pages \subseteq Actors /\ Autos \subseteq Actors /\ Singles \subseteq Actors
    BY DEF Actors
  <1>4. CASE Start
    BY <1>1, <1>2, <1>3, <1>4 DEF Start, StartTrigger, StartTask, StartPage, PageRefused, StartSingle, work
  <1>5. ASSUME NEW a \in Actors, AfterCommit(a) \/ Ends(a), profile' = profile
        PROVE  Current'
    BY <1>1, <1>2, <1>5 DEF AfterCommit, Ends
  <1>6. CASE \E a \in Actors : Step(a)
    <2> PICK a \in Actors : Step(a)
      BY <1>6
    <2>1. CASE ClearScores(a)
      BY <2>1, <1>1 DEF ClearScores, work
    <2>2. CASE ReadJobs(a)
      BY <2>2, <1>2 DEF ReadJobs
    <2>3. CASE NextBatch(a) \/ BatchFails(a) \/ TooLarge(a) \/ \E ids \in SUBSET Jobs : AutoReply(a, ids)
      BY <2>3, <1>1 DEF NextBatch, BatchFails, TooLarge, AutoReply
    <2>4. CASE EndTriage(a) \/ CountRemaining(a)
      BY <2>4, <1>5 DEF EndTriage, CountRemaining
    <2>5. CASE Retry(a) \/ \E ids \in SUBSET Jobs : PageReply(a, ids)
      BY <2>5, <1>1 DEF Retry, PageReply
    <2>6. CASE SingleReply(a) \/ Apply(a)
      BY <2>6, <1>1 DEF SingleReply, Apply
    <2>7. CASE Commit(a) \/ CommitRaises(a)
      BY <2>7, <1>5 DEF Commit, CommitRaises
    <2> QED
      BY <2>1, <2>2, <2>3, <2>4, <2>5, <2>6, <2>7 DEF Step
  <1>7. CASE \E a \in Actors : CommitLost(a) \/ Abort(a)
    BY <1>5, <1>7 DEF CommitLost, Abort
  <1>8. CASE EditProfile \/ (\E j \in Jobs : Change(j)) \/ (\E a \in Rescores : ClearLost(a)) \/ UNCHANGED triageVars
    BY <1>1, <1>8 DEF EditProfile, Change, ClearLost, work, triageVars
  <1> QED
    BY <1>4, <1>6, <1>7, <1>8 DEF TriageNext

(* Every step keeps the invariant.                                         *)
LEMMA AskNext ==
    ASSUME Parameters, AskInv, Current, [TriageNext]_triageVars
    PROVE  AskInv' /\ Current'
  <1>1. ASSUME NEW a \in Actors, Step(a) \/ CommitLost(a) \/ Abort(a)
        PROVE  AskInv'
    <2>1. Kept(a)
      BY <1>1, AskStep, AskCommits, AskAbort
    <2> QED
      BY <2>1, AskFrame DEF Kept
  <1>2. ASSUME NEW a \in Rescores, ClearLost(a)
        PROVE  AskInv'
    <2>1. Kept(a) /\ a \in Actors
      BY <1>2, AskClearLost DEF Actors, Autos
    <2> QED
      BY <2>1, AskFrame DEF Kept
  <1>3. CASE UNCHANGED triageVars
    <2>1. TriageTypeOK'
      BY <1>3 DEF AskInv, TriageTypeOK, triageVars
    <2>2. UNCHANGED <<lock, pc, work>>
      BY <1>3 DEF triageVars, work, request
    <2> QED
      BY <2>1, <2>2, AskElsewhere, CurrentNext
  <1> QED
    BY <1>1, <1>2, <1>3, AskStart, AskEdits, CurrentNext DEF TriageNext

(* The invariant says that each job was asked for as often as it should    *)
(* be.                                                                     *)
LEMMA AskSound ==
    ASSUME AskInv
    PROVE  EachJobOnce
  <1>1. NobodyForgotten
    <2> SUFFICES ASSUME NEW a \in Autos \cup Pages, pc[a] = "commit", NEW j \in ToSet(batch[a])
                 PROVE  IF a \in Autos THEN tries[a][j] = 1 ELSE j \in got[a] \/ tries[a][j] = 3
      BY DEF NobodyForgotten
    <2>1. a \in Actors /\ Asks(a) /\ TriageTypeOK
      BY DEF Actors, AskInv
    <2>2. j \in Jobs
      BY <2>1, InSet DEF TriageTypeOK
    <2>3. CASE a \in Autos
      BY <2>1, <2>2, <2>3, NoPiece DEF Asks, Once, Cut, Busy
    <2>4. CASE a \notin Autos
      BY <2>1, <2>4 DEF Asks, Complete
    <2> QED
      BY <2>3, <2>4
  <1>2. NotScoredTwice
    <2> SUFFICES ASSUME NEW a \in Triggers, NEW b \in Triggers, a # b
                 PROVE  ToSet(batch[a]) \cap ToSet(batch[b]) = {}
      BY DEF NotScoredTwice
    <2>1. a \in Actors /\ b \in Actors /\ Asks(a) /\ Asks(b)
      BY DEF Actors, Autos, AskInv
    <2>2. pc[a] = "idle" \/ pc[b] = "idle"
      BY DEF AskInv, Locked, InProgress
    <2>3. batch[a] = <<>> \/ batch[b] = <<>>
      BY <2>1, <2>2 DEF Asks, Rests, Busy
    <2> QED
      BY <2>3 DEF ToSet
  <1> QED
    BY <1>1, <1>2 DEF EachJobOnce, AskInv

(* A batch or page about to be committed has sent each of its jobs to the  *)
(* AI: a triage once, a page once in every pass until it has a score,      *)
(* three passes at most; and no two triggers of the worker score the same  *)
(* job (ai.py, run_auto_triage(), run_triage_batch(); worker.py,           *)
(* _triage_lock).                                                          *)
THEOREM EveryJobAsked ==
    ASSUME Parameters
    PROVE  TriageSpec => []EachJobOnce
  <1>1. TriageInit => AskInv /\ Current
    <2> SUFFICES ASSUME TriageInit PROVE AskInv /\ Current
      OBVIOUS
    <2>1. Current
      BY DEF TriageInit, Current
    <2> QED
      BY <2>1, AskInit
  <1>2. AskInv /\ Current /\ [TriageNext]_triageVars => AskInv' /\ Current'
    BY AskNext
  <1>3. AskInv => EachJobOnce
    BY AskSound
  <1> QED
    BY <1>1, <1>2, <1>3, PTL DEF TriageSpec

(* Jobs that have arrived, whatever has become of them since. *)
Known == {j \in Jobs : status[j] # "absent"}

Present(a) ==
    ToSet(list[a]) \subseteq Known /\ ToSet(batch[a]) \subseteq Known /\ writes[a] \subseteq Known

(* What a is about to write: a page only jobs of its own, and everything   *)
(* that it has a score for; a single job's row was detached.               *)
Stored(a) ==
    pc[a] = "commit" =>
        /\ a \in Pages => writes[a] \subseteq ToSet(batch[a])
        /\ a \in Autos \cup Pages =>
               \A j \in got[a] : j \in ToSet(batch[a]) /\ Exists(j) => j \in writes[a]

(* A rescore that nothing overlaps finds scores of its own profile only.   *)
Scale(a) ==
    a \in Rescores /\ ~mixed /\ faults = 0 => \A j \in Jobs : status[j] = "Saved" =>
        /\ pc[a] = "read" => score[j] = 0
        /\ pc[a] \in {"next"} \cup Busy => score[j] \in {0, using[a]}

(* What is claimed of one thread.                                          *)
Tells(a) == Present(a) /\ Stored(a) /\ Scale(a)

(* A job that has not arrived has no score.                                *)
NotYet == \A j \in Jobs : status[j] = "absent" => score[j] = 0

(* Unless two have run at once, one thread runs at most.                   *)
Single == ~mixed => \A a, b \in Actors : InProgress(a) /\ InProgress(b) => a = b

(* The invariant of the scores.                                            *)
ScoreInv == NotYet /\ Single /\ \A a \in Actors : Tells(a)

(* The inductive invariant of the theorems on scores.                      *)
AllInv == AskInv /\ Current /\ ScoreInv

(* The claims hold at the start.                                           *)
LEMMA ScoreInit == ASSUME Parameters PROVE TriageInit => ScoreInv
  <1> SUFFICES ASSUME TriageInit PROVE ScoreInv
    OBVIOUS
  <1>1. NotYet /\ Single
    BY DEF TriageInit, NotYet, Single, InProgress
  <1>2. ASSUME NEW a \in Actors
        PROVE  Tells(a)
    <2>1. pc[a] = "idle" /\ list[a] = <<>> /\ batch[a] = <<>> /\ writes[a] = {}
      BY DEF TriageInit
    <2>2. ToSet(<<>>) = {}
      BY DEF ToSet
    <2> QED
      BY <2>1, <2>2 DEF Tells, Present, Stored, Scale, Busy
  <1> QED
    BY <1>1, <1>2 DEF ScoreInv

(* What a step of another thread, or of nobody, keeps. *)
LEMMA TellsSame ==
    ASSUME NEW a \in Actors, Present(a), Stored(a), Same(a),
           \A j \in Known : j \in Known' /\ (Exists(j)' => Exists(j)),
           Scale(a)'
    PROVE  Tells(a)'
  <1>1. Present(a)'
    BY DEF Present, Same
  <1>2. Stored(a)'
    BY DEF Stored, Same, Present
  <1> QED
    BY <1>1, <1>2 DEF Tells

(* A rescore that is not in progress claims nothing of the scale.          *)
LEMMA ScaleIdle ==
    ASSUME NEW a, pc'[a] \in {"idle", "clear", "count"} \/ a \notin Rescores \/ mixed' \/ faults' # 0
    PROVE  Scale(a)'
  BY DEF Scale, Busy

(* A rescore keeps its claim when neither a score nor a status changes.    *)
LEMMA ScaleSame ==
    ASSUME NEW a, Scale(a), pc'[a] # "read",
           pc'[a] \in {"next"} \cup Busy => pc[a] \in {"next"} \cup Busy,
           UNCHANGED <<status, score, faults, mixed>>, using'[a] = using[a]
    PROVE  Scale(a)'
  BY DEF Scale

(* A step of a alone, while it is in progress. *)
LEMMA ScoreFrame ==
    ASSUME Parameters, AskInv, ScoreInv, NEW a \in Actors, InProgress(a), Kept(a), Tells(a)',
           NotYet', status' = status, mixed' = mixed
    PROVE  ScoreInv'
  <1>1. ASSUME NEW b \in Actors, b # a
        PROVE  Tells(b)' /\ pc'[b] = pc[b]
    <2>1. Same(b) /\ Present(b) /\ Stored(b)
      BY <1>1 DEF Kept, ScoreInv, Tells
    <2>2. \A j \in Known : j \in Known' /\ (Exists(j)' => Exists(j))
      BY DEF Known, Exists
    <2>3. pc'[b] = pc[b] /\ (~mixed => pc[b] = "idle")
      BY <1>1, <2>1 DEF Same, ScoreInv, Single, InProgress
    <2>4. Scale(b)'
      BY <2>3, ScaleIdle
    <2> QED
      BY <2>1, <2>2, <2>3, <2>4, TellsSame
  <1>2. Single'
    BY <1>1 DEF ScoreInv, Single, InProgress
  <1> QED
    BY <1>1, <1>2 DEF ScoreInv

(* A step with which a begins. *)
LEMMA ScoreBegins ==
    ASSUME Parameters, AskInv, ScoreInv, NEW a \in Actors, NEW label \in PCs, Starts(a, label),
           Kept(a), Tells(a)', UNCHANGED <<table, faults>>
    PROVE  ScoreInv'
  <1>1. pc[a] = "idle" /\ mixed' = (mixed \/ \E b \in Actors : InProgress(b))
    BY DEF Starts, InProgress
  <1>2. ASSUME NEW b \in Actors, b # a
        PROVE  Tells(b)' /\ (mixed' \/ pc'[b] = "idle")
    <2>1. Same(b) /\ Present(b) /\ Stored(b)
      BY <1>2 DEF Kept, ScoreInv, Tells
    <2>2. \A j \in Known : j \in Known' /\ (Exists(j)' => Exists(j))
      BY DEF Known, Exists, table
    <2>3. mixed' \/ pc'[b] = "idle"
      BY <1>1, <2>1 DEF Same, InProgress
    <2>4. Scale(b)'
      BY <2>3, ScaleIdle
    <2> QED
      BY <2>1, <2>2, <2>3, <2>4, TellsSame
  <1>3. Single'
    BY <1>2 DEF Single, InProgress
  <1>4. NotYet'
    BY DEF ScoreInv, NotYet, table
  <1> QED
    BY <1>2, <1>3, <1>4 DEF ScoreInv

(* A step of a after which it has no batch. *)
LEMMA TellsResting ==
    ASSUME NEW a \in Actors, Asks(a)', pc'[a] \notin Busy, ToSet(list'[a]) \subseteq Known', Scale(a)'
    PROVE  Tells(a)'
  <1>1. batch'[a] = <<>> /\ writes'[a] = {}
    BY DEF Asks, Rests
  <1>2. ToSet(<<>>) = {}
    BY DEF ToSet
  <1>3. Present(a)' /\ Stored(a)'
    BY <1>1, <1>2 DEF Present, Stored, Busy
  <1> QED
    BY <1>3 DEF Tells

(* A step of a while it asks. *)
LEMMA TellsAsking ==
    ASSUME NEW a \in Actors, pc'[a] = "call", status' = status, Present(a),
           ToSet(list'[a]) \subseteq Known, ToSet(batch'[a]) \subseteq Known, writes'[a] = writes[a],
           Scale(a)'
    PROVE  Tells(a)'
  BY DEF Tells, Present, Stored, Known

(* A thread that ends claims nothing.                                      *)
LEMMA ScoreEnds ==
    ASSUME Parameters, AskInv, NEW a \in Actors, Kept(a), Ends(a)
    PROVE  Tells(a)'
  <1>1. pc'[a] = "idle" /\ list'[a] = <<>>
    BY DEF Ends, Goto, AskInv, TriageTypeOK
  <1>2. ToSet(<<>>) = {}
    BY DEF ToSet
  <1>3. Scale(a)'
    BY <1>1, ScaleIdle
  <1> QED
    BY <1>1, <1>2, <1>3, TellsResting DEF Kept, Busy

(* Every way to start a thread.                                            *)
LEMMA ScoreStart ==
    ASSUME Parameters, AskInv, Current, ScoreInv, Start
    PROVE  ScoreInv'
  <1>0. TriageTypeOK
    BY DEF AskInv
  <1>1. ASSUME NEW a \in Autos, NEW label \in {"read", "clear"}, Starts(a, label), Kept(a),
               label = "read" => a \notin Rescores, UNCHANGED <<table, work, bounds>>
        PROVE  ScoreInv'
    <2>1. a \in Actors /\ label \in PCs
      BY DEF Actors, PCs
    <2>2. pc'[a] = label
      BY <1>0, <1>1, <2>1, AskStarts
    <2>3. Scale(a)' /\ pc'[a] \notin Busy
      BY <1>1, <2>2, ScaleIdle DEF Busy
    <2>4. ToSet(list'[a]) \subseteq Known'
      BY <1>1, <2>1 DEF ScoreInv, Tells, Present, Known, table, work
    <2>5. Tells(a)'
      BY <1>1, <2>1, <2>3, <2>4, TellsResting DEF Kept
    <2> QED
      BY <1>1, <2>1, <2>5, ScoreBegins DEF bounds
  <1>2. ASSUME NEW a \in Triggers, StartTrigger(a)
        PROVE  ScoreInv'
    <2>1. a \in Autos /\ a \notin Rescores
      BY DEF Autos, Parameters
    <2>2. /\ lock = NoOne /\ lock' = a /\ Starts(a, "read")
          /\ UNCHANGED <<table, profile, work, page, bounds>>
      BY <1>2 DEF StartTrigger
    <2>3. Kept(a)
      BY <2>1, <2>2, AskBegin
    <2> QED
      BY <1>1, <2>1, <2>2, <2>3
  <1>3. ASSUME NEW a \in Manual \cup Rescores, StartTask(a)
        PROVE  ScoreInv'
    <2>1. a \in Autos /\ a \notin Triggers
      BY DEF Autos, Parameters
    <2> DEFINE label == IF a \in Rescores THEN "clear" ELSE "read"
    <2>2. /\ Starts(a, label) /\ label \in {"read", "clear"}
          /\ (label = "clear" => a \in Rescores) /\ (label = "read" => a \notin Rescores)
          /\ UNCHANGED <<table, profile, lock, work, page, bounds>>
      BY <1>3 DEF StartTask
    <2> HIDE DEF label
    <2>3. Kept(a)
      BY <2>1, <2>2, AskBegin
    <2> QED
      BY <1>1, <2>1, <2>2, <2>3
  <1>4. ASSUME NEW u \in Pages, NEW from \in 0 .. N, StartPage(u, from)
        PROVE  ScoreInv'
    <2> DEFINE jobs == FirstOf(After(Backlog, from), PageSize)
    <2>1. u \in Actors /\ u \notin Rescores /\ Kept(u)
      BY <1>4, AskStartPage DEF Actors, Autos, Parameters
    <2>2. /\ Starts(u, "call") /\ Ask(u, jobs)
          /\ UNCHANGED <<table, list, bounds>>
      BY <1>4 DEF StartPage
    <2>3. \A j \in ToSet(jobs) : j \in Jobs /\ status[j] = "Saved"
      BY PageOf
    <2> HIDE DEF jobs
    <2>4. pc'[u] = "call"
      BY <1>0, <2>1, <2>2, AskStarts DEF PCs
    <2>5. batch'[u] = jobs /\ writes'[u] = writes[u] /\ Present(u)
      BY <1>0, <2>1, <2>2 DEF Ask, TriageTypeOK, ScoreInv, Tells
    <2>6. ToSet(batch'[u]) \subseteq Known /\ ToSet(list'[u]) \subseteq Known
      BY <2>2, <2>3, <2>5 DEF Known, Present
    <2>7. Tells(u)'
      BY <2>1, <2>2, <2>4, <2>5, <2>6, TellsAsking, ScaleIdle DEF table
    <2> QED
      BY <2>1, <2>2, <2>7, ScoreBegins DEF bounds, PCs
  <1>5. ASSUME NEW u \in Pages, NEW from \in 0 .. N, PageRefused(u, from)
        PROVE  ScoreInv'
    <2>1. UNCHANGED <<table, pc, work, begun, bounds>>
      BY <1>5 DEF PageRefused
    <2>2. UNCHANGED <<status, score, pc, list, batch, using, chunks, pass, got, writes, tries, mixed, faults>>
      BY <2>1 DEF table, work, request, begun, bounds
    <2> QED
      BY <2>2 DEF ScoreInv, NotYet, Single, InProgress, Tells, Present, Known, Stored, Exists, Scale
  <1>6. ASSUME NEW s \in Singles, NEW j \in Jobs, StartSingle(s, j)
        PROVE  ScoreInv'
    <2>1. s \in Actors /\ s \notin Rescores /\ Kept(s)
      BY <1>6, AskStartSingle DEF Actors, Autos, Parameters
    <2>2. /\ Starts(s, "call") /\ Ask(s, <<j>>) /\ Exists(j)
          /\ UNCHANGED <<table, list, bounds>>
      BY <1>6 DEF StartSingle
    <2>3. pc'[s] = "call"
      BY <1>0, <2>1, <2>2, AskStarts DEF PCs
    <2>4. batch'[s] = <<j>> /\ writes'[s] = writes[s] /\ Present(s)
      BY <1>0, <2>1, <2>2 DEF Ask, TriageTypeOK, ScoreInv, Tells
    <2>5. ToSet(<<j>>) = {j}
      BY DEF ToSet
    <2>6. ToSet(batch'[s]) \subseteq Known /\ ToSet(list'[s]) \subseteq Known
      BY <2>2, <2>4, <2>5 DEF Known, Present, Exists
    <2>7. Tells(s)'
      BY <2>1, <2>2, <2>3, <2>4, <2>6, TellsAsking, ScaleIdle DEF table
    <2> QED
      BY <2>1, <2>2, <2>7, ScoreBegins DEF bounds, PCs
  <1> QED
    BY <1>2, <1>3, <1>4, <1>5, <1>6 DEF Start

(* A step of a triage keeps what is claimed of that triage.                *)
LEMMA TellsAuto ==
    ASSUME Parameters, AskInv, Current, ScoreInv, NEW a \in Autos, Kept(a),
           ClearScores(a) \/ ReadJobs(a) \/ NextBatch(a) \/ BatchFails(a) \/ TooLarge(a)
               \/ \E ids \in SUBSET Jobs : AutoReply(a, ids)
    PROVE  Tells(a)' /\ NotYet' /\ status' = status /\ mixed' = mixed /\ InProgress(a)
  <1>0. /\ a \in Actors /\ TriageTypeOK /\ Asks(a) /\ Present(a) /\ Scale(a) /\ NotYet
        /\ AutoLimit \in Nat /\ BatchSize \in Nat
    BY DEF Actors, AskInv, ScoreInv, Tells, Parameters
  <1>1. CASE ClearScores(a)
    <2>1. /\ score' = [j \in Jobs |-> IF status[j] = "Saved" THEN 0 ELSE score[j]]
          /\ pc[a] = "clear" /\ Goto(a, "read")
          /\ UNCHANGED <<status, list, mixed, faults>>
      BY <1>1 DEF ClearScores, work, begun, bounds
    <2>2. pc'[a] = "read"
      BY <1>0, <2>1, Moved DEF PCs
    <2>3. Scale(a)' /\ pc'[a] \notin Busy
      BY <2>1, <2>2 DEF Scale, Busy
    <2>4. NotYet'
      BY <1>0, <2>1 DEF NotYet
    <2>5. ToSet(list'[a]) \subseteq Known'
      BY <1>0, <2>1 DEF Present, Known
    <2> QED
      BY <1>0, <2>1, <2>3, <2>4, <2>5, TellsResting DEF Kept, InProgress
  <1>2. CASE ReadJobs(a)
    <2> DEFINE s == FirstOf(Backlog, AutoLimit)
    <2>1. /\ list' = [list EXCEPT ![a] = s] /\ using' = [using EXCEPT ![a] = profile]
          /\ pc[a] = "read" /\ Goto(a, "next")
          /\ UNCHANGED <<status, score, mixed, faults>>
      BY <1>2 DEF ReadJobs, table, begun, bounds
    <2>2. ToSet(s) \subseteq ToSet(Backlog)
      BY <1>0, BacklogFacts, StillDistinct
    <2>3. ToSet(s) \subseteq Known
      BY <2>2, BacklogFacts DEF Known
    <2> HIDE DEF s
    <2>4. pc'[a] = "next" /\ list'[a] = s
      BY <1>0, <2>1, Moved DEF PCs, TriageTypeOK
    <2>5. Scale(a)' /\ pc'[a] \notin Busy
      BY <1>0, <2>1, <2>4 DEF Scale, Busy
    <2>6. ToSet(list'[a]) \subseteq Known'
      BY <2>1, <2>3, <2>4 DEF Known
    <2>7. NotYet'
      BY <1>0, <2>1 DEF NotYet
    <2> QED
      BY <1>0, <2>1, <2>5, <2>6, <2>7, TellsResting DEF Kept, InProgress
  <1>3. CASE NextBatch(a)
    <2> DEFINE s == FirstOf(list[a], BatchSize)
               rest == After(list[a], BatchSize)
    <2>1. /\ list' = [list EXCEPT ![a] = rest] /\ Ask(a, s)
          /\ pc[a] = "next" /\ Goto(a, "call")
          /\ UNCHANGED <<status, score, mixed, faults, using>>
      BY <1>0, <1>3 DEF NextBatch, table, begun, bounds, TriageTypeOK
    <2>2. list[a] \in Seq(Jobs) /\ Distinct(list[a])
      BY <1>0 DEF TriageTypeOK, Asks, Cut
    <2>3. ToSet(s) \subseteq ToSet(list[a]) /\ ToSet(rest) \subseteq ToSet(list[a])
      BY <1>0, <2>2, StillDistinct
    <2> HIDE DEF s, rest
    <2>4. pc'[a] = "call" /\ list'[a] = rest /\ batch'[a] = s /\ writes'[a] = writes[a]
      BY <1>0, <2>1, Moved DEF PCs, TriageTypeOK, Ask
    <2>5. Scale(a)'
      BY <1>0, <2>1, <2>4, ScaleSame DEF Busy
    <2>6. ToSet(list'[a]) \subseteq Known /\ ToSet(batch'[a]) \subseteq Known
      BY <1>0, <2>3, <2>4 DEF Present
    <2>7. Tells(a)'
      BY <1>0, <2>1, <2>4, <2>5, <2>6, TellsAsking
    <2>8. NotYet'
      BY <1>0, <2>1 DEF NotYet
    <2> QED
      BY <2>1, <2>7, <2>8 DEF InProgress
  <1>4. CASE BatchFails(a)
    <2>1. /\ pc[a] = "call" /\ Goto(a, "next")
          /\ UNCHANGED <<status, score, mixed, faults, using, list>>
      BY <1>4 DEF BatchFails, table, begun, bounds
    <2>2. pc'[a] = "next"
      BY <1>0, <2>1, Moved DEF PCs
    <2>3. Scale(a)' /\ pc'[a] \notin Busy
      BY <1>0, <2>1, <2>2, ScaleSame DEF Busy
    <2>4. ToSet(list'[a]) \subseteq Known'
      BY <1>0, <2>1 DEF Present, Known
    <2>5. NotYet'
      BY <1>0, <2>1 DEF NotYet
    <2> QED
      BY <1>0, <2>1, <2>3, <2>4, <2>5, TellsResting DEF Kept, InProgress
  <1>5. CASE TooLarge(a) \/ \E ids \in SUBSET Jobs : AutoReply(a, ids)
    <2>1. /\ pc[a] = "call"
          /\ UNCHANGED <<status, score, mixed, faults, using, list, batch, writes, pc>>
      BY <1>5 DEF TooLarge, AutoReply, table, begun, bounds
    <2>2. Scale(a)'
      BY <1>0, <2>1, ScaleSame
    <2>3. ToSet(list'[a]) \subseteq Known /\ ToSet(batch'[a]) \subseteq Known
      BY <1>0, <2>1 DEF Present
    <2>4. Tells(a)'
      BY <1>0, <2>1, <2>2, <2>3, TellsAsking
    <2>5. NotYet'
      BY <1>0, <2>1 DEF NotYet
    <2> QED
      BY <2>1, <2>4, <2>5 DEF InProgress
  <1> QED
    BY <1>1, <1>2, <1>3, <1>4, <1>5

(* A step of a thread keeps what is claimed of every other: two that run   *)
(* at once make the run a mixed one.                                       *)
LEMMA TellsOthers ==
    ASSUME Parameters, AskInv, Current, ScoreInv, NEW a \in Actors, Kept(a),
           \/ a \in Pages /\ (Retry(a) \/ \E ids \in SUBSET Jobs : PageReply(a, ids))
           \/ a \in Singles /\ SingleReply(a)
           \/ Apply(a)
    PROVE  Tells(a)' /\ NotYet' /\ status' = status /\ mixed' = mixed /\ InProgress(a)
  <1>0. TriageTypeOK /\ Asks(a) /\ Present(a) /\ Scale(a) /\ NotYet /\ batch[a] \in Seq(Jobs)
    BY DEF AskInv, ScoreInv, Tells, TriageTypeOK
  <1>1. CASE a \in Pages /\ (Retry(a) \/ \E ids \in SUBSET Jobs : PageReply(a, ids))
    <2>1. /\ pc[a] = "call" /\ a \notin Rescores
          /\ UNCHANGED <<status, score, mixed, list, batch, writes, pc>>
      BY <1>1 DEF Retry, PageReply, table, begun, Parameters, Autos
    <2>2. ToSet(list'[a]) \subseteq Known /\ ToSet(batch'[a]) \subseteq Known
      BY <1>0, <2>1 DEF Present
    <2>3. Tells(a)'
      BY <1>0, <2>1, <2>2, TellsAsking, ScaleIdle
    <2>4. NotYet'
      BY <1>0, <2>1 DEF NotYet
    <2> QED
      BY <2>1, <2>3, <2>4 DEF InProgress
  <1>2. CASE a \in Singles /\ SingleReply(a)
    <2> DEFINE own == ToSet(batch[a])
    <2>1. /\ pc[a] = "call" /\ a \notin Rescores /\ a \notin Pages /\ Answered(a, own)
          /\ UNCHANGED <<status, score, mixed, list, batch, writes>>
      BY <1>2 DEF SingleReply, table, begun, Parameters, Autos
    <2>5. Present(a)'
      BY <1>0, <2>1 DEF Present, Known
    <2>6. Stored(a)'
      BY <1>2, <2>1 DEF Stored, Parameters
    <2>7. Scale(a)'
      BY <2>1, ScaleIdle
    <2>8. NotYet'
      BY <1>0, <2>1 DEF NotYet
    <2> QED
      BY <2>1, <2>5, <2>6, <2>7, <2>8 DEF InProgress, Tells
  <1>3. CASE Apply(a)
    <2>1. /\ pc[a] = "call" /\ Goto(a, "commit") /\ a \notin Singles
          /\ UNCHANGED <<status, score, mixed, faults, using, list, batch, got>>
      BY <1>3 DEF Apply, table, begun, bounds, Parameters
    <2>2. PICK held \in {{}, ToSet(batch[a])} :
              writes' = [writes EXCEPT ![a] = Fetched(a) \cup (got[a] \cap held)]
      BY <1>3 DEF Apply
    <2>3. writes'[a] = Fetched(a) \cup (got[a] \cap held)
      BY <1>0, <2>2 DEF TriageTypeOK
    <2>4. pc'[a] = "commit"
      BY <1>0, <2>1, Moved DEF PCs
    <2>5. got[a] \subseteq Jobs /\ (a \in Pages => got[a] \subseteq ToSet(batch[a]))
      BY <1>0, <2>1 DEF TriageTypeOK, Asks, Again, Busy
    <2>6. Fetched(a) \subseteq Known /\ Fetched(a) \subseteq got[a]
      BY <2>5 DEF Fetched, Known, Exists
    <2>7. Present(a)'
      BY <1>0, <2>1, <2>3, <2>6 DEF Present, Known
    <2>8. Stored(a)'
      BY <2>1, <2>3, <2>5, <2>6 DEF Stored, Fetched, Exists
    <2>9. Scale(a)'
      BY <1>0, <2>1, <2>4, ScaleSame DEF Busy
    <2>10. NotYet'
      BY <1>0, <2>1 DEF NotYet
    <2> QED
      BY <2>1, <2>7, <2>8, <2>9, <2>10 DEF InProgress, Tells
  <1> QED
    BY <1>1, <1>2, <1>3

(* A commit, however it ends, a triage or a count that ends, an error.     *)
LEMMA TellsAfter ==
    ASSUME Parameters, AskInv, Current, ScoreInv, NEW a \in Actors, Kept(a),
           Commit(a) \/ CommitRaises(a) \/ CommitLost(a) \/ Abort(a)
               \/ (a \in Autos /\ EndTriage(a)) \/ (a \in Pages /\ CountRemaining(a))
    PROVE  Tells(a)' /\ NotYet' /\ status' = status /\ mixed' = mixed /\ InProgress(a)
  <1>0. TriageTypeOK /\ Present(a) /\ Scale(a) /\ NotYet
    BY DEF AskInv, ScoreInv, Tells
  <1>1. UNCHANGED <<status, mixed>>
    BY DEF Commit, CommitRaises, CommitLost, Abort, EndTriage, CountRemaining, table, begun
  <1>2. InProgress(a) /\ (AfterCommit(a) \/ Ends(a))
    BY DEF Commit, CommitRaises, CommitLost, Abort, EndTriage, CountRemaining, InProgress
  <1>3. NotYet'
    <2>1. CASE Commit(a)
      <3>1. score' = [j \in Jobs |-> IF j \in writes[a] THEN using[a] ELSE score[j]]
        BY <2>1 DEF Commit
      <3> QED
        BY <1>0, <1>1, <3>1 DEF NotYet, Present, Known
    <2>2. CASE ~Commit(a)
      <3>1. score' = score
        BY <2>2 DEF CommitRaises, CommitLost, Abort, EndTriage, CountRemaining, table
      <3> QED
        BY <1>0, <1>1, <3>1 DEF NotYet
    <2> QED
      BY <2>1, <2>2
  <1>4. CASE Ends(a)
    BY <1>1, <1>2, <1>3, <1>4, ScoreEnds
  <1>5. CASE ~Ends(a)
    <2>1. /\ a \notin Singles /\ Goto(a, IF a \in Pages THEN "count" ELSE "next")
          /\ UNCHANGED <<list, using>> /\ pc[a] = "commit"
      BY <1>2, <1>5 DEF AfterCommit, Abort, EndTriage, CountRemaining, Commit, CommitRaises, CommitLost
    <2>2. pc'[a] = (IF a \in Pages THEN "count" ELSE "next")
      BY <1>0, <2>1, Moved DEF PCs
    <2>3. pc'[a] \notin Busy /\ ToSet(list'[a]) \subseteq Known'
      BY <1>0, <1>1, <2>1, <2>2 DEF Busy, Present, Known
    <2>4. Scale(a)'
      <3>1. CASE Commit(a)
        <4>1. /\ score' = [j \in Jobs |-> IF j \in writes[a] THEN using[a] ELSE score[j]]
              /\ faults' = faults
          BY <3>1 DEF Commit, bounds
        <4> QED
          BY <1>0, <1>1, <2>1, <2>2, <4>1 DEF Scale, Busy
      <3>2. CASE CommitRaises(a)
        <4>1. score' = score /\ faults' = faults
          BY <3>2 DEF CommitRaises, table, bounds
        <4> QED
          BY <1>0, <1>1, <2>1, <2>2, <4>1, ScaleSame DEF Busy
      <3>3. CASE CommitLost(a) \/ Abort(a)
        <4>1. faults' = faults + 1 /\ faults \in Nat
          BY <1>0, <3>3 DEF CommitLost, Abort, TriageTypeOK, Parameters
        <4>2. faults' # 0
          BY <4>1
        <4> QED
          BY <4>2, ScaleIdle
      <3>4. CASE EndTriage(a) \/ CountRemaining(a)
        BY <1>5, <3>4 DEF EndTriage, CountRemaining
      <3> QED
        BY <3>1, <3>2, <3>3, <3>4
    <2>5. Tells(a)'
      BY <2>3, <2>4, TellsResting DEF Kept
    <2> QED
      BY <1>1, <1>2, <1>3, <2>5
  <1> QED
    BY <1>4, <1>5

(* An edit of the profile or of the jobs keeps every claim.                *)
LEMMA ScoreEdits ==
    ASSUME Parameters, AskInv, Current, ScoreInv, EditProfile \/ \E j \in Jobs : Change(j)
    PROVE  ScoreInv'
  <1>0. TriageTypeOK /\ status \in [Jobs -> {"absent", "Saved", "other", "deleted"}]
    BY DEF AskInv, TriageTypeOK
  <1>1. UNCHANGED <<score, pc, work, begun, faults>>
    BY DEF EditProfile, Change, table, bounds
  <1>2. UNCHANGED <<list, using, batch, chunks, pass, got, writes, tries, mixed>>
    BY <1>1 DEF work, request, begun
  <1>3. ASSUME NEW j \in Jobs
        PROVE  \/ status'[j] = status[j]
               \/ status[j] = "absent" /\ status'[j] = "Saved"
               \/ Exists(j) /\ status'[j] \in {"other", "deleted"}
    <2>1. CASE EditProfile
      BY <2>1 DEF EditProfile, table
    <2>2. ASSUME NEW k \in Jobs, Change(k)
          PROVE  \/ status'[j] = status[j]
                 \/ status[j] = "absent" /\ status'[j] = "Saved"
                 \/ Exists(j) /\ status'[j] \in {"other", "deleted"}
      BY <1>0, <2>2 DEF Change, Exists
    <2> QED
      BY <2>1, <2>2
  <1>4. \A j \in Known : j \in Known' /\ (Exists(j)' => Exists(j))
    BY <1>3 DEF Known, Exists
  <1>5. NotYet'
    <2> SUFFICES ASSUME NEW j \in Jobs, status'[j] = "absent" PROVE score[j] = 0
      BY <1>1 DEF NotYet
    <2>1. status[j] = "absent"
      BY <1>3
    <2> QED
      BY <2>1 DEF ScoreInv, NotYet
  <1>6. Single'
    BY <1>1, <1>2 DEF ScoreInv, Single, InProgress
  <1>7. ASSUME NEW a \in Actors
        PROVE  Tells(a)'
    <2>1. Scale(a)'
      <3>1. ASSUME NEW j \in Jobs, status'[j] = "Saved"
            PROVE  status[j] = "Saved" \/ score[j] = 0
        BY <1>3, <3>1 DEF ScoreInv, NotYet
      <3>2. Scale(a)
        BY DEF ScoreInv, Tells
      <3> QED
        BY <1>1, <1>2, <3>1, <3>2 DEF Scale
    <2>2. Same(a) /\ Present(a) /\ Stored(a)
      BY <1>1, <1>2 DEF Same, ScoreInv, Tells
    <2> QED
      BY <1>4, <2>1, <2>2, TellsSame
  <1> QED
    BY <1>5, <1>6, <1>7 DEF ScoreInv

(* Every step keeps the invariant of the scores.                           *)
LEMMA ScoreNext ==
    ASSUME Parameters, AskInv, Current, ScoreInv, [TriageNext]_triageVars
    PROVE  ScoreInv'
  <1>1. ASSUME NEW a \in Actors, Step(a) \/ CommitLost(a) \/ Abort(a)
        PROVE  ScoreInv'
    <2>1. Kept(a)
      BY <1>1, AskStep, AskCommits, AskAbort
    <2>2. Tells(a)' /\ NotYet' /\ status' = status /\ mixed' = mixed /\ InProgress(a)
      <3>1. CASE a \in Autos /\ (ClearScores(a) \/ ReadJobs(a) \/ NextBatch(a) \/ BatchFails(a)
                     \/ TooLarge(a) \/ \E ids \in SUBSET Jobs : AutoReply(a, ids))
        BY <2>1, <3>1, TellsAuto
      <3>2. CASE \/ a \in Pages /\ (Retry(a) \/ \E ids \in SUBSET Jobs : PageReply(a, ids))
                 \/ a \in Singles /\ SingleReply(a)
                 \/ Apply(a)
        BY <2>1, <3>2, TellsOthers
      <3>3. CASE Commit(a) \/ CommitRaises(a) \/ CommitLost(a) \/ Abort(a)
                     \/ (a \in Autos /\ EndTriage(a)) \/ (a \in Pages /\ CountRemaining(a))
        BY <2>1, <3>3, TellsAfter
      <3> QED
        BY <1>1, <3>1, <3>2, <3>3 DEF Step
    <2> QED
      BY <2>1, <2>2, ScoreFrame
  <1>2. ASSUME NEW a \in Rescores, ClearLost(a)
        PROVE  ScoreInv'
    <2>1. Kept(a) /\ a \in Actors /\ TriageTypeOK
      BY <1>2, AskClearLost DEF Actors, Autos, AskInv
    <2>2. /\ pc[a] = "clear" /\ Goto(a, "read") /\ faults' = faults + 1
          /\ UNCHANGED <<status, score, list, mixed>>
      BY <1>2 DEF ClearLost, table, work, begun
    <2>3. pc'[a] = "read" /\ faults' # 0
      <3>1. pc'[a] = "read"
        BY <2>1, <2>2, Moved DEF PCs
      <3>2. faults \in Nat
        BY <2>1 DEF TriageTypeOK, Parameters
      <3> QED
        BY <2>2, <3>1, <3>2
    <2>4. ToSet(list'[a]) \subseteq Known'
      BY <2>1, <2>2 DEF ScoreInv, Tells, Present, Known
    <2>5. Tells(a)'
      BY <2>1, <2>3, <2>4, TellsResting, ScaleIdle DEF Kept, Busy
    <2>6. NotYet' /\ InProgress(a)
      BY <2>2 DEF ScoreInv, NotYet, InProgress
    <2> QED
      BY <2>1, <2>2, <2>5, <2>6, ScoreFrame
  <1>3. CASE UNCHANGED triageVars
    BY <1>3 DEF ScoreInv, NotYet, Single, InProgress, Tells, Present, Known, Stored, Exists, Scale, triageVars
  <1> QED
    BY <1>1, <1>2, <1>3, ScoreStart, ScoreEdits DEF TriageNext

-----------------------------------------------------------------------------
(* A commit of a page changes the scores of its own jobs only.             *)
LEMMA OwnOnly ==
    ASSUME AllInv
    PROVE  \A u \in Pages : Commit(u) => \A j \in Jobs \ ToSet(batch[u]) : score'[j] = score[j]
  <1> SUFFICES ASSUME NEW u \in Pages, Commit(u), NEW j \in Jobs \ ToSet(batch[u])
               PROVE  score'[j] = score[j]
    OBVIOUS
  <1>1. writes[u] \subseteq ToSet(batch[u])
    BY DEF AllInv, ScoreInv, Tells, Stored, Commit, Actors
  <1> QED
    BY <1>1 DEF Commit

(* A rescore that ends alone, with no fault, leaves one scale.             *)
LEMMA AllOfOneScale ==
    ASSUME AllInv
    PROVE  \A a \in Rescores : (EndTriage(a) /\ ~mixed /\ faults = 0) =>
               \A i, j \in Jobs : (status[i] = "Saved" /\ status[j] = "Saved" /\ score[i] # 0)
                                   => score[j] \in {0, score[i]}
  <1> SUFFICES ASSUME NEW a \in Rescores, EndTriage(a), ~mixed, faults = 0,
                      NEW i \in Jobs, NEW j \in Jobs,
                      status[i] = "Saved", status[j] = "Saved", score[i] # 0
               PROVE  score[j] \in {0, score[i]}
    OBVIOUS
  <1>1. Scale(a) /\ pc[a] = "next"
    BY DEF AllInv, ScoreInv, Tells, EndTriage, Actors, Autos
  <1> QED
    BY <1>1 DEF Scale

(* A commit writes every score that is reported.                           *)
LEMMA AllReported ==
    ASSUME AllInv
    PROVE  \A a \in Autos \cup Pages : Commit(a) =>
               \A j \in got[a] \cap ToSet(batch[a]) : Exists(j) => score'[j] = using[a]
  <1> SUFFICES ASSUME NEW a \in Autos \cup Pages, Commit(a), NEW j \in got[a] \cap ToSet(batch[a]), Exists(j)
               PROVE  score'[j] = using[a]
    OBVIOUS
  <1>1. j \in writes[a] /\ j \in Jobs
    BY DEF AllInv, ScoreInv, Tells, Stored, Commit, AskInv, TriageTypeOK, Actors
  <1> QED
    BY <1>1 DEF Commit

(* The two invariants hold together.                                       *)
LEMMA AllInductive ==
    ASSUME Parameters
    PROVE  TriageSpec => []AllInv
  <1>1. TriageInit => AllInv
    <2> SUFFICES ASSUME TriageInit PROVE AllInv
      OBVIOUS
    <2>1. Current
      BY DEF TriageInit, Current
    <2> QED
      BY <2>1, AskInit, ScoreInit DEF AllInv
  <1>2. AllInv /\ [TriageNext]_triageVars => AllInv'
    BY AskNext, ScoreNext DEF AllInv
  <1> QED
    BY <1>1, <1>2, PTL DEF TriageSpec

(* A page writes no score but those of its own jobs, and a rescore that    *)
(* ran alone and without a fault leaves all saved jobs that have a score   *)
(* with scores of one version of the profile (ai.py, run_triage_batch(),   *)
(* run_auto_triage() with rescore=True).                                   *)
THEOREM OwnScoresAndOneScale ==
    ASSUME Parameters
    PROVE  TriageSpec => OnlyItsOwn /\ OneScale
  <1>1. AllInv /\ [TriageNext]_triageVars =>
            [\A u \in Pages : Commit(u) =>
                 \A j \in Jobs \ ToSet(batch[u]) : score'[j] = score[j]]_triageVars
    BY OwnOnly
  <1>2. AllInv /\ [TriageNext]_triageVars =>
            [\A a \in Rescores : (EndTriage(a) /\ ~mixed /\ faults = 0) =>
                 \A i, j \in Jobs : (status[i] = "Saved" /\ status[j] = "Saved" /\ score[i] # 0)
                                     => score[j] \in {0, score[i]}]_triageVars
    BY AllOfOneScale
  <1>3. TriageSpec => []AllInv
    BY AllInductive
  <1> QED
    BY <1>1, <1>2, <1>3, PTL DEF TriageSpec, OnlyItsOwn, OneScale

(* Every score that a batch or a page reports is in the table after its    *)
(* commit (ai.py:1189), whichever requests detached rows before; with      *)
(* OwnScoresAndOneScale this is all the run checks of the scores.          *)
THEOREM ScoresAreRight ==
    ASSUME Parameters
    PROVE  TriageSpec => ScoresRight
  <1>1. AllInv /\ [TriageNext]_triageVars =>
            [\A a \in Autos \cup Pages : Commit(a) =>
                 \A j \in got[a] \cap ToSet(batch[a]) : Exists(j) => score'[j] = using[a]]_triageVars
    BY AllReported
  <1>2. TriageSpec => []AllInv
    BY AllInductive
  <1>3. TriageSpec => OnlyItsOwn /\ OneScale
    BY OwnScoresAndOneScale
  <1> QED
    BY <1>1, <1>2, <1>3, PTL DEF TriageSpec, ScoresRight, ReportedIsStored

-----------------------------------------------------------------------------
(* One request: ProviderChain. *)

Attempts == [to : Providers \cup {Legacy}, text : {"raw", "redacted"},
             stage : {"primary", "backup", "chain", "legacy"}]

(* Only the first three steps have a queue, and a request that is over     *)
(* neither calls nor waits.                                                *)
InStep ==
    /\ queue # <<>> => stage \in {"primary", "backup", "chain"}
    /\ stage \in {"primary", "backup"} => Len(queue) <= 1
    /\ target # NoProvider => stage # "over"
    /\ answer = "pending" <=> stage # "over"
    /\ stage = "opened" => target = NoProvider /\ attempts = <<>>

Typed == TypeOK /\ InStep

USE ProviderChainAssumption

(* The provider that is set as primary or backup, as a queue.              *)
LEMMA ChosenTyped ==
    ASSUME NEW p \in Providers \cup {NoProvider}
    PROVE  /\ Chosen(p) \in Seq(Providers) /\ Len(Chosen(p)) <= 1
           /\ \A i \in 1 .. Len(Chosen(p)) : Chosen(p)[i] = p
           /\ p # NoProvider => Len(Chosen(p)) = 1
  BY DEF Chosen

(* The parts of a sequence that is not empty.                              *)
LEMMA HeadAndTail ==
    ASSUME NEW S, NEW s \in Seq(S), s # <<>>
    PROVE  /\ Head(s) \in S /\ Head(s) = s[1] /\ Tail(s) \in Seq(S)
           /\ Len(s) \in Nat /\ Len(s) # 0 /\ Len(Tail(s)) = Len(s) - 1
           /\ \A i \in 1 .. Len(Tail(s)) : Tail(s)[i] = s[i + 1]
  OBVIOUS

(* A text is sent raw or redacted.                                         *)
LEMMA TextTyped == ASSUME NEW p PROVE Text(p) \in {"raw", "redacted"}
  BY DEF Text

(* A request begins in a typed state.                                      *)
LEMMA InitTyped == Init => Typed
<1> SUFFICES ASSUME Init PROVE Typed
  OBVIOUS
<1>1. rows \in RowSet /\ setting \in SettingSet
  BY DEF Init
<1>3. queue \in Seq(Providers) /\ Len(queue) <= 1
  BY DEF Init
<1>4. setting.redact \in BOOLEAN /\ agreed = ~setting.redact
  BY <1>1 DEF Init, SettingSet
<1>5. agreed \in BOOLEAN
  BY <1>4
<1>6. view \in [rows : RowSet, setting : SettingSet]
  BY <1>1 DEF Init
<1>7. attempts \in Seq(Attempts)
  BY DEF Init
<1>8. InStep
  BY <1>3 DEF Init, InStep
<1>9. /\ stage = "opened" /\ target = NoProvider /\ sent = "raw" /\ tried = {}
      /\ large = FALSE /\ error = FALSE /\ answer = "pending" /\ nulls = 0 /\ edits = 0
  BY DEF Init
<1>10. edits \in 0 .. MaxEdits /\ nulls \in Nat
  BY <1>9
<1> QED
  BY <1>1, <1>3, <1>5, <1>6, <1>7, <1>8, <1>9, <1>10 DEF Typed, TypeOK, Attempts

(* What the session holds of the rows after some of them were read. *)
LEMMA RowsRead ==
    ASSUME Typed, NEW held \in SUBSET Providers, ReadRows(held)
    PROVE  /\ view' \in [rows : RowSet, setting : SettingSet]
           /\ view'.setting = view.setting
           /\ \A p \in held : view'.rows[p] = view.rows[p]
<1> DEFINE Row == [enabled : BOOLEAN, kind : Kinds]
           new == [p \in Providers |-> IF p \in held THEN view.rows[p] ELSE rows[p]]
<1>1. /\ rows \in [Providers -> Row] /\ view \in [rows : RowSet, setting : SettingSet]
      /\ view.rows \in [Providers -> Row]
  BY DEF Typed, TypeOK, RowSet
<1>2. new \in [Providers -> Row] /\ \A p \in held : new[p] = view.rows[p]
  BY <1>1
<1>3. view' = [view EXCEPT !.rows = new]
  BY DEF ReadRows
<1>4. new \in RowSet
  BY <1>2 DEF RowSet
<1> HIDE DEF new, Row
<1>5. /\ view' \in [rows : RowSet, setting : SettingSet]
      /\ view'.setting = view.setting /\ view'.rows = new
  BY <1>1, <1>3, <1>4
<1> QED
  BY <1>2, <1>5

(* What it holds after the row of ai_config was read. *)
LEMMA RowReread ==
    ASSUME Typed, Reread
    PROVE  /\ view' \in [rows : RowSet, setting : SettingSet]
           /\ view'.rows = view.rows
           /\ view'.setting = [view.setting EXCEPT !.redact = setting.redact]
           /\ view'.setting.primary = view.setting.primary
           /\ view'.setting.backup = view.setting.backup
           /\ view'.setting.chain = view.setting.chain
           /\ view'.setting.legacy = view.setting.legacy
           /\ view'.setting.redact = setting.redact
<1> DEFINE new == [view.setting EXCEPT !.redact = setting.redact]
<1>1. view \in [rows : RowSet, setting : SettingSet] /\ view.setting \in SettingSet
  BY DEF Typed, TypeOK
<1>2. setting.redact \in BOOLEAN
  BY DEF Typed, TypeOK, SettingSet
<1>3. /\ new \in SettingSet /\ new.redact = setting.redact
      /\ new.primary = view.setting.primary /\ new.backup = view.setting.backup
      /\ new.chain = view.setting.chain /\ new.legacy = view.setting.legacy
  BY <1>1, <1>2 DEF SettingSet
<1>4. view' = [view EXCEPT !.setting = new]
  BY DEF Reread
<1> HIDE DEF new
<1>5. /\ view' \in [rows : RowSet, setting : SettingSet]
      /\ view'.rows = view.rows /\ view'.setting = new
  BY <1>1, <1>3, <1>4
<1> QED
  BY <1>3, <1>5 DEF new

(* What one call adds. *)
LEMMA SendTyped ==
    ASSUME Typed, NEW p \in Providers \cup {Legacy}, Send(p),
           stage \in {"primary", "backup", "chain", "legacy"}
    PROVE  /\ target' = p /\ sent' \in {"raw", "redacted"}
           /\ attempts \in Seq(Attempts) /\ attempts' \in Seq(Attempts)
           /\ Len(attempts') = Len(attempts) + 1
           /\ \A i \in 1 .. Len(attempts) : attempts'[i] = attempts[i]
           /\ attempts'[Len(attempts')] = [to |-> p, text |-> Text(p), stage |-> stage]
<1>1. Text(p) \in {"raw", "redacted"}
  BY TextTyped
<1>2. attempts \in Seq(Attempts)
  BY DEF Typed, TypeOK, Attempts
<1>3. [to |-> p, text |-> Text(p), stage |-> stage] \in Attempts
  BY <1>1 DEF Attempts
<1> QED
  BY <1>1, <1>2, <1>3 DEF Send

(* Every step keeps the types.                                             *)
LEMMA NextTyped == ASSUME Typed, [Next]_vars PROVE Typed'
<1> USE DEF Typed
<1> queue \in Seq(Providers)
  BY DEF TypeOK
<1>1. CASE Skip
  <2>1. Head(queue) \in Providers /\ Tail(queue) \in Seq(Providers)
        /\ (stage \in {"primary", "backup"} => Tail(queue) = <<>>)
    BY <1>1, HeadAndTail, SMTT(30) DEF Skip, Considering, InStep
  <2>2. large' \in BOOLEAN
    BY <1>1 DEF Skip, TypeOK
  <2>3. TypeOK'
    BY <1>1, <2>1, <2>2 DEF Skip, Considering, TypeOK, database
  <2>4. InStep'
    BY <1>1, <2>1, SMTT(30) DEF Skip, Considering, InStep, database
  <2> QED
    BY <2>3, <2>4
<1>2. CASE Call
  <2>0. queue # <<>> /\ (stage \in {"primary", "backup"} => Len(queue) <= 1)
    BY <1>2 DEF Call, Considering, InStep
  <2>1. Head(queue) \in Providers /\ Tail(queue) \in Seq(Providers)
        /\ (stage \in {"primary", "backup"} => Tail(queue) = <<>>)
    BY <2>0, HeadAndTail
  <2>2. stage \in {"primary", "backup", "chain"}
    BY <1>2 DEF Call, Considering, InStep
  <2>3. target' = Head(queue) /\ sent' \in {"raw", "redacted"} /\ attempts' \in Seq(Attempts)
    BY <1>2, <2>1, <2>2, SendTyped DEF Call
  <2>4. TypeOK'
    BY <1>2, <2>1, <2>2, <2>3 DEF Call, Considering, TypeOK, database, outcome, Attempts
  <2>5. InStep'
    BY <1>2, <2>1, <2>2, <2>3, SMTT(30) DEF Call, Considering, InStep, database, outcome
  <2> QED
    BY <2>4, <2>5
<1>3. CASE Succeed
  BY <1>3 DEF Succeed, End, TypeOK, InStep, database
<1>4. CASE AnswerNull
  <2>1. nulls' \in Nat /\ stage # "over"
    <3>1. nulls \in Nat /\ nulls' = nulls + 1
      BY <1>4 DEF AnswerNull, TypeOK
    <3>2. target # NoProvider
      BY <1>4 DEF AnswerNull
    <3> QED
      BY <3>1, <3>2 DEF InStep
  <2>2. CASE sent = "redacted" /\ End("empty")
    BY <1>4, <2>1, <2>2 DEF AnswerNull, End, TypeOK, InStep, database
  <2>3. CASE sent = "raw" /\ target' = NoProvider /\ UNCHANGED <<stage, queue, answer>>
    BY <1>4, <2>1, <2>3 DEF AnswerNull, TypeOK, InStep, database
  <2> QED
    BY <1>4, <2>2, <2>3 DEF AnswerNull
<1>5. CASE FailOver
  BY <1>5 DEF FailOver, TypeOK, InStep, database
<1>6. CASE FailHard
  BY <1>6 DEF FailHard, End, TypeOK, InStep, database
<1>7. CASE TryBackup
  <2>1. view.setting.backup \in Providers \cup {NoProvider}
    BY DEF TypeOK, SettingSet
  <2>2. queue' \in Seq(Providers) /\ Len(queue') <= 1
    BY <1>7, <2>1, ChosenTyped DEF TryBackup
  <2>3. view' \in [rows : RowSet, setting : SettingSet]
    BY <1>7, RowsRead DEF TryBackup
  <2> QED
    BY <1>7, <2>2, <2>3 DEF TryBackup, StageOver, TypeOK, InStep, database, outcome
<1>8. CASE TryChain
  <2>1. view' \in [rows : RowSet, setting : SettingSet] /\ queue' \in Seq(Providers)
    BY <1>8 DEF TryChain, TypeOK
  <2>2. stage = "backup" /\ queue = <<>> /\ target = NoProvider
        /\ (stage' = "chain" \/ (stage' = "legacy" /\ queue' = queue))
    BY <1>8 DEF TryChain, StageOver
  <2>3. agreed' \in BOOLEAN
    BY <1>8 DEF TryChain, TypeOK, SettingSet
  <2> QED
    BY <1>8, <2>1, <2>2, <2>3 DEF TryChain, TypeOK, InStep, database, outcome
<1>9. CASE LeaveChain
  BY <1>9 DEF LeaveChain, StageOver, TypeOK, InStep, database, outcome
<1>10. CASE CallLegacy
  <2>1. target' = Legacy /\ sent' \in {"raw", "redacted"} /\ attempts' \in Seq(Attempts)
    BY <1>10, SendTyped DEF CallLegacy, StageOver
  <2> QED
    BY <1>10, <2>1 DEF CallLegacy, StageOver, TypeOK, InStep, database, outcome, Attempts
<1>11. CASE GiveUp
  BY <1>11 DEF GiveUp, StageOver, End, TypeOK, InStep, database
<1>12. CASE Edit
  <2>1. edits' \in 0 .. MaxEdits
    BY <1>12 DEF Edit, TypeOK
  <2>2. CASE setting' = [setting EXCEPT !.redact = ~@]
             /\ agreed' = (agreed \/ ~setting'.redact) /\ UNCHANGED rows
    <3>1. setting' \in SettingSet
      BY <2>2 DEF TypeOK, SettingSet
    <3>2. agreed' \in BOOLEAN
      BY <2>2, <3>1 DEF TypeOK
    <3> QED
      BY <1>12, <2>1, <2>2, <3>1, <3>2 DEF Edit, TypeOK, InStep, outcome
  <2>3. CASE \E p \in Providers : /\ rows' = [rows EXCEPT ![p].enabled = ~@]
                                  /\ UNCHANGED <<setting, agreed>>
    <3> PICK p \in Providers : rows' = [rows EXCEPT ![p].enabled = ~@]
      BY <2>3
    <3>1. rows' \in RowSet
      <4> DEFINE Row == [enabled : BOOLEAN, kind : Kinds]
      <4>1. rows \in [Providers -> Row]
        BY DEF TypeOK, RowSet
      <4> DEFINE row == [rows[p] EXCEPT !.enabled = ~rows[p].enabled]
      <4>2. row \in Row
        BY <4>1
      <4>3. rows' = [rows EXCEPT ![p] = row]
        OBVIOUS
      <4> HIDE DEF Row, row
      <4>4. rows' \in [Providers -> Row]
        BY <4>1, <4>2, <4>3
      <4> QED
        BY <4>4 DEF RowSet, Row
    <3> QED
      BY <1>12, <2>1, <2>3, <3>1 DEF Edit, TypeOK, InStep, outcome
  <2> QED
    BY <1>12, <2>2, <2>3 DEF Edit
<1>13. CASE UNCHANGED vars
  BY <1>13 DEF vars, TypeOK, InStep
<1>14. CASE Begin
  <2>1. view.setting.primary \in Providers \cup {NoProvider}
    BY DEF TypeOK, SettingSet
  <2>2. queue' \in Seq(Providers) /\ Len(queue') <= 1
    BY <1>14, <2>1, ChosenTyped DEF Begin
  <2>3. view' \in [rows : RowSet, setting : SettingSet]
    BY <1>14, RowsRead DEF Begin
  <2> QED
    BY <1>14, <2>2, <2>3 DEF Begin, TypeOK, InStep, database, outcome
<1>15. CASE Reread
  <2>1. view' \in [rows : RowSet, setting : SettingSet]
    BY <1>15, RowReread
  <2> QED
    BY <1>15, <2>1 DEF Reread, TypeOK, InStep, database, outcome
<1> QED
  BY <1>1, <1>2, <1>3, <1>4, <1>5, <1>6, <1>7, <1>8, <1>9, <1>10, <1>11, <1>12, <1>13, <1>14,
     <1>15 DEF Next

(* The request is typed in every state.                                    *)
LEMMA AlwaysTyped == Spec => []Typed
  BY InitTyped, NextTyped, PTL DEF Spec

-----------------------------------------------------------------------------
(* What was sent in the clear.  If redaction has been on since the session *)
(* was opened, it is on in the database and in what was loaded of it.      *)

(* The text leaves in the clear only when redaction has been off.          *)
Consented == ~agreed => setting.redact /\ view.setting.redact

(* What has been agreed to when the session is opened.                     *)
LEMMA InitConsented == Init => Consented
<1> SUFFICES ASSUME Init PROVE Consented
  OBVIOUS
<1>1. setting.redact \in BOOLEAN /\ agreed = ~setting.redact
  BY DEF Init, SettingSet
<1>2. view.setting = setting
  BY DEF Init
<1> QED
  BY <1>1, <1>2 DEF Consented

(* Every step, an edit of the settings included, keeps the consent true.   *)
LEMMA NextConsented == ASSUME Typed, Consented, [Next]_vars PROVE Consented'
<1> USE DEF Consented
<1>1. CASE Edit
  <2>1. CASE setting' = [setting EXCEPT !.redact = ~@]
             /\ agreed' = (agreed \/ ~setting'.redact) /\ UNCHANGED rows
    BY <1>1, <2>1 DEF Edit
  <2>2. CASE UNCHANGED <<setting, agreed>>
    BY <1>1, <2>2 DEF Edit
  <2> QED
    BY <1>1, <2>1, <2>2 DEF Edit
<1>2. CASE TryChain
  <2>1. /\ UNCHANGED setting
        /\ \/ UNCHANGED <<view, agreed>>
           \/ view' = [rows |-> rows, setting |-> setting] /\ agreed' = ~setting.redact
    BY <1>2 DEF TryChain
  <2>2. CASE UNCHANGED <<view, agreed>>
    BY <2>1, <2>2
  <2>3. CASE view' = [rows |-> rows, setting |-> setting] /\ agreed' = ~setting.redact
    <3>1. view'.setting = setting
      BY <2>3
    <3>2. ~agreed' => setting.redact
      BY <2>3
    <3> QED
      BY <2>1, <3>1, <3>2, Zenon
  <2> QED
    BY <2>1, <2>2, <2>3
<1>3. CASE Begin \/ TryBackup
  <2>1. UNCHANGED <<setting, agreed>> /\ view'.setting = view.setting
    BY <1>3, RowsRead DEF Begin, TryBackup, database
  <2> QED
    BY <2>1
<1>4. CASE Reread
  <2>1. UNCHANGED <<setting, agreed>> /\ view'.setting.redact = setting.redact
    BY <1>4, RowReread DEF Reread, database
  <2> QED
    BY <2>1
<1>5. CASE ~Edit /\ ~TryChain /\ ~Begin /\ ~TryBackup /\ ~Reread
  <2>1. UNCHANGED <<setting, agreed, view>>
    BY <1>5 DEF Next, Skip, Call, Succeed, AnswerNull, FailOver, FailHard,
                LeaveChain, CallLegacy, GiveUp, vars, database
  <2> QED
    BY <2>1
<1> QED
  BY <1>1, <1>2, <1>3, <1>4, <1>5

(* Text leaves in the clear only if redaction has been off since the       *)
(* session it is sent from was opened (should_redact_for, ai.py:346).      *)
THEOREM ClearByConsent == Spec => RawOnlyIfAgreed
<1> DEFINE Sending == \A p \in (Providers \cup {Legacy}) \ Local :
                         (attempts' # attempts /\ target' = p /\ sent' = "raw") => agreed
<1>1. ASSUME Typed, Consented, [Next]_vars PROVE Sending
  <2> SUFFICES ASSUME NEW p \in (Providers \cup {Legacy}) \ Local,
                      attempts' # attempts, target' = p, sent' = "raw", ~agreed
               PROVE  FALSE
    OBVIOUS
  <2>1. PICK q : Send(q)
    BY <1>1 DEF Next, Begin, Reread, Skip, Call, Succeed, AnswerNull, FailOver, FailHard,
                TryBackup, TryChain, LeaveChain, CallLegacy, GiveUp, Edit, vars, database
  <2>2. q = p /\ Text(p) = "raw"
    BY <2>1 DEF Send
  <2>3. view.setting.redact
    BY <1>1 DEF Consented
  <2> QED
    BY <2>2, <2>3 DEF Text, Redacts
<1> HIDE DEF Sending
<1>2. Spec => [][Sending]_vars
  <2>1. Typed /\ Consented /\ [Next]_vars => [Sending]_vars
    BY <1>1
  <2>2. Typed /\ Consented /\ [Next]_vars => Consented'
    BY NextConsented
  <2> QED
    BY AlwaysTyped, InitConsented, <2>1, <2>2, PTL DEF Spec
<1> QED
  BY <1>2 DEF RawOnlyIfAgreed, Sending

-----------------------------------------------------------------------------
(* What a failure says.  While no call has failed, each was answered with  *)
(* null, except the one that is out.                                       *)

(* The call that is being answered.                                        *)
Waiting == IF target = NoProvider THEN 0 ELSE 1
(* Every call that was made is answered with null, or is waiting.          *)
AllNull == stage # "over" /\ ~error => Len(attempts) = nulls + Waiting
CapacityInv == AllNull /\ CapacityMeansSkipped

(* No provider has been skipped when the request begins.                   *)
LEMMA InitCapacity == Init => CapacityInv
  BY DEF Init, CapacityInv, AllNull, Waiting, CapacityMeansSkipped

(* Every step keeps the account of the calls and skips.                    *)
LEMMA NextCapacity == ASSUME Typed, CapacityInv, [Next]_vars PROVE CapacityInv'
<1> USE DEF CapacityInv
<1>1. CASE \/ Call \/ CallLegacy
  <2>1. PICK p \in Providers \cup {Legacy} : Send(p)
    <3>1. ASSUME Call PROVE Head(queue) \in Providers /\ Send(Head(queue))
      BY <3>1, HeadAndTail DEF Call, Considering, Typed, TypeOK
    <3>2. ASSUME CallLegacy PROVE Send(Legacy)
      BY <3>2 DEF CallLegacy
    <3> QED
      BY <1>1, <3>1, <3>2
  <2>2. stage \in {"primary", "backup", "chain", "legacy"} /\ target = NoProvider
    BY <1>1 DEF Call, CallLegacy, Considering, StageOver, Typed, InStep
  <2>3. /\ Len(attempts') = Len(attempts) + 1 /\ target' = p
        /\ attempts \in Seq(Attempts) /\ Len(attempts) \in Nat
    <3>1. Len(attempts') = Len(attempts) + 1 /\ target' = p /\ attempts \in Seq(Attempts)
      BY <2>1, <2>2, SendTyped
    <3> QED
      BY <3>1
  <2>4. p # NoProvider /\ UNCHANGED <<error, answer, nulls>> /\ nulls \in Nat
    BY <1>1 DEF Call, CallLegacy, outcome, Typed, TypeOK, database
  <2>5. answer = "pending" /\ answer' = "pending"
    BY <2>2, <2>4 DEF Typed, InStep
  <2>6. Waiting = 0 /\ Waiting' = 1
    BY <2>2, <2>3, <2>4 DEF Waiting
  <2>7. AllNull'
    <3>1. ~error => Len(attempts) = nulls
      BY <2>2, <2>4, <2>6 DEF AllNull
    <3>2. Len(attempts') = nulls + 1 \/ error
      BY <2>3, <3>1
    <3> QED
      BY <2>4, <2>6, <3>2 DEF AllNull
  <2> QED
    BY <2>5, <2>7 DEF CapacityMeansSkipped
<1>2. CASE AnswerNull
  <2>1. stage # "over" /\ answer = "pending" /\ target # NoProvider /\ nulls \in Nat
    BY <1>2 DEF AnswerNull, Typed, TypeOK, InStep
  <2> QED
    BY <1>2, <2>1 DEF AnswerNull, End, AllNull, Waiting, CapacityMeansSkipped
<1>3. CASE GiveUp
  <2>1. stage # "over" /\ target = NoProvider
    BY <1>3 DEF GiveUp, StageOver
  <2>2. answer' = "capacity" => ~error
    BY <1>3 DEF GiveUp, End
  <2>3. UNCHANGED <<attempts, nulls>> /\ stage' = "over" /\ nulls \in Nat
    BY <1>3 DEF GiveUp, End, Typed, TypeOK
  <2> QED
    BY <2>1, <2>2, <2>3 DEF AllNull, Waiting, CapacityMeansSkipped
<1>4. CASE Skip
  BY <1>4 DEF Skip, AllNull, Waiting, CapacityMeansSkipped
<1>5. CASE Succeed
  BY <1>5 DEF Succeed, End, AllNull, Waiting, CapacityMeansSkipped
<1>6. CASE FailOver
  BY <1>6 DEF FailOver, AllNull, Waiting, CapacityMeansSkipped
<1>7. CASE FailHard
  BY <1>7 DEF FailHard, End, AllNull, Waiting, CapacityMeansSkipped
<1>8. CASE \/ TryBackup \/ TryChain \/ LeaveChain
  BY <1>8 DEF TryBackup, TryChain, LeaveChain, StageOver, outcome,
              AllNull, Waiting, CapacityMeansSkipped
<1>9. CASE Edit
  BY <1>9 DEF Edit, outcome, AllNull, Waiting, CapacityMeansSkipped
<1>10. CASE UNCHANGED vars
  BY <1>10 DEF vars, AllNull, Waiting, CapacityMeansSkipped
<1>11. CASE Begin \/ Reread
  BY <1>11 DEF Begin, Reread, outcome, AllNull, Waiting, CapacityMeansSkipped
<1> QED
  BY <1>1, <1>2, <1>3, <1>4, <1>5, <1>6, <1>7, <1>8, <1>9, <1>10, <1>11 DEF Next

(* ContextCapacityError means that nothing was called (ai.py:153, 517).    *)
THEOREM CapacityIsTrue == Spec => []CapacityMeansSkipped
<1>1. CapacityInv => CapacityMeansSkipped
  BY DEF CapacityInv
<1> QED
  BY AlwaysTyped, InitCapacity, NextCapacity, <1>1, PTL DEF Spec

-----------------------------------------------------------------------------
(* The order of the calls.  The ranked chain has considered a prefix of    *)
(* the rank order, and has called whatever in it could be called.          *)

(* A provider the request could call.                                      *)
Fits(p) == view.rows[p].enabled /\ view.rows[p].kind = "good"
(* Providers of the chain that were considered.                            *)
Considered == Len(Ranked) - Len(queue)

InRank ==
    stage = "chain" =>
        /\ Len(queue) <= Len(Ranked)
        /\ \A i \in 1 .. Len(queue) : queue[i] = Ranked[Considered + i]
        /\ \A l \in 1 .. Considered : Fits(Ranked[l]) => Ranked[l] \in tried

Calls ==
    /\ \A i \in 1 .. Len(attempts) : attempts[i].to \in Providers => attempts[i].to \in tried
    /\ \A i \in 1 .. Len(attempts) :
           attempts[i].stage = "chain" => stage \notin {"primary", "backup"}
    /\ \A i \in 1 .. Len(attempts) : attempts[i].to = Legacy => stage \in {"last", "over"}
    /\ stage = "primary" /\ queue # <<>> => Len(attempts) = 0

OrderInv == InRank /\ Calls /\ RankRespected /\ NotCalledTwice

(* No call has been made when the request begins.                          *)
LEMMA InitOrder == Init => OrderInv
  BY DEF Init, OrderInv, InRank, Calls, RankRespected, NotCalledTwice

(* One row of the ranked chain is disposed of. *)
LEMMA ChainGoesOn ==
    ASSUME Typed, InRank, queue # <<>>, queue' = Tail(queue), UNCHANGED <<stage, view>>,
           tried \subseteq tried', Fits(Head(queue)) => Head(queue) \in tried'
    PROVE  InRank'
<1> SUFFICES ASSUME stage = "chain"
             PROVE  InRank'
  BY DEF InRank
<1> queue \in Seq(Providers) /\ Ranked \in Seq(Providers)
  BY DEF Typed, TypeOK
<1>1. /\ Head(queue) = queue[1] /\ Len(queue) \in Nat /\ Len(queue) # 0
      /\ Len(queue') = Len(queue) - 1
      /\ \A i \in 1 .. Len(queue') : queue'[i] = queue[i + 1]
  BY HeadAndTail
<1>2. Len(queue) <= Len(Ranked) /\ Len(Ranked) \in Nat
  BY DEF InRank
<1>3. Considered \in Nat /\ Considered' = Considered + 1 /\ Head(queue) = Ranked[Considered + 1]
  <2>1. Considered \in Nat /\ Considered' = Considered + 1 /\ 1 \in 1 .. Len(queue)
    BY <1>1, <1>2 DEF Considered
  <2>2. queue[1] = Ranked[Considered + 1]
    BY <2>1 DEF InRank
  <2> QED
    BY <1>1, <2>1, <2>2
<1>4. ASSUME NEW i \in 1 .. Len(queue') PROVE queue'[i] = Ranked[Considered' + i]
  <2>1. i + 1 \in 1 .. Len(queue) /\ queue'[i] = queue[i + 1]
    BY <1>1
  <2>2. queue[i + 1] = Ranked[Considered + (i + 1)]
    BY <2>1 DEF InRank
  <2>3. Considered + (i + 1) = Considered' + i
    BY <1>3
  <2> QED
    BY <2>1, <2>2, <2>3
<1>5. ASSUME NEW l \in 1 .. Considered', Fits(Ranked[l])' PROVE Ranked[l] \in tried'
  <2>1. Fits(Ranked[l])
    BY <1>5 DEF Fits
  <2>2. CASE l \in 1 .. Considered
    BY <2>1, <2>2 DEF InRank
  <2>3. CASE l = Considered + 1
    BY <2>1, <2>3, <1>3
  <2> QED
    BY <2>2, <2>3, <1>3
<1>6. Len(queue') <= Len(Ranked)
  BY <1>1, <1>2
<1> QED
  BY <1>4, <1>5, <1>6 DEF InRank

(* A call of the ranked chain comes after the calls of those ranked before. *)
LEMMA ChainCall ==
    ASSUME Typed, InRank, stage = "chain", queue # <<>>,
           NEW k \in 1 .. Len(Ranked), NEW l \in 1 .. Len(Ranked),
           Head(queue) = Ranked[k], l < k, Fits(Ranked[l])
    PROVE  Ranked[l] \in tried
<1> queue \in Seq(Providers) /\ Ranked \in Seq(Providers)
  BY DEF Typed, TypeOK
<1>1. Head(queue) = queue[1] /\ Len(queue) \in Nat /\ Len(queue) # 0
  BY HeadAndTail
<1>2. Len(queue) <= Len(Ranked) /\ Len(Ranked) \in Nat
  BY DEF InRank
<1>3. Considered + 1 \in 1 .. Len(Ranked) /\ Head(queue) = Ranked[Considered + 1]
  <2>1. Considered + 1 \in 1 .. Len(Ranked) /\ 1 \in 1 .. Len(queue)
    BY <1>1, <1>2 DEF Considered
  <2>2. queue[1] = Ranked[Considered + 1]
    BY <2>1 DEF InRank
  <2> QED
    BY <1>1, <2>1, <2>2
<1>4. k = Considered + 1
  BY <1>3
<1>5. Considered \in Nat
  BY <1>1, <1>2 DEF Considered
<1>6. l \in 1 .. Considered
  BY <1>4, <1>5
<1> QED
  BY <1>6 DEF InRank

(* A provider that is skipped is not called.                               *)
LEMMA SkipKeepsOrder == ASSUME Typed, OrderInv, Skip PROVE OrderInv'
<1>1. /\ queue # <<>> /\ queue' = Tail(queue)
      /\ UNCHANGED <<stage, view, tried, attempts>>
  BY DEF Skip, Considering
<1>2. Fits(Head(queue)) => Head(queue) \in tried
  BY DEF Skip, PassedOver, TriedBefore, Fits
<1>3. InRank'
  BY <1>1, <1>2, ChainGoesOn DEF OrderInv
<1>4. Calls'
  BY <1>1 DEF OrderInv, Calls
<1> QED
  BY <1>1, <1>3, <1>4 DEF OrderInv, RankRespected, NotCalledTwice

(* A provider is called in its turn.                                       *)
LEMMA CallKeepsOrder == ASSUME Typed, OrderInv, Call PROVE OrderInv'
<1> DEFINE p == Head(queue)
           n == Len(attempts)
<1>1. /\ queue # <<>> /\ queue' = Tail(queue) /\ target = NoProvider
      /\ UNCHANGED <<stage, view>> /\ tried' = tried \cup {p} /\ Send(p)
  BY DEF Call, Considering
<1>2. p \in Providers /\ queue \in Seq(Providers) /\ p # Legacy
  <2>1. queue \in Seq(Providers)
    BY DEF Typed, TypeOK
  <2> QED
    BY <1>1, <2>1, HeadAndTail, SMTT(30)
<1>3. stage \in {"primary", "backup", "chain"}
  BY <1>1 DEF Typed, InStep
<1>4. /\ attempts \in Seq(Attempts) /\ n \in Nat /\ Len(attempts') = n + 1
      /\ \A i \in 1 .. n : attempts'[i] = attempts[i]
      /\ attempts'[n + 1] = [to |-> p, text |-> Text(p), stage |-> stage]
  <2>1. /\ attempts \in Seq(Attempts) /\ Len(attempts') = n + 1
        /\ \A i \in 1 .. n : attempts'[i] = attempts[i]
        /\ attempts'[Len(attempts')] = [to |-> p, text |-> Text(p), stage |-> stage]
    BY <1>1, <1>2, <1>3, SendTyped
  <2>2. n \in Nat
    BY <2>1
  <2>3. attempts'[n + 1] = [to |-> p, text |-> Text(p), stage |-> stage]
    BY <2>1
  <2> QED
    BY <2>1, <2>2, <2>3
<1>5. stage = "chain" => p \notin tried
  BY DEF Call, PassedOver, TriedBefore
<1>6. InRank'
  BY <1>1, ChainGoesOn DEF OrderInv
<1>7. queue' # <<>> => stage # "primary"
  BY <1>1, <1>2, HeadAndTail, SMTT(30) DEF Typed, InStep
<1> HIDE DEF p, n
<1>8. \A i \in 1 .. n : attempts[i].to # p \/ stage = "backup"
  <2> SUFFICES ASSUME NEW i \in 1 .. n, attempts[i].to = p PROVE stage = "backup"
    OBVIOUS
  <2>1. p \in tried
    BY <1>2 DEF n, OrderInv, Calls
  <2>2. stage # "primary"
    BY <1>1, <1>4 DEF n, OrderInv, Calls
  <2> QED
    BY <2>1, <2>2, <1>3, <1>5
<1>9. Calls'
  <2>1. ASSUME NEW i \in 1 .. n + 1
        PROVE  /\ attempts'[i].to \in Providers => attempts'[i].to \in tried'
               /\ attempts'[i].stage = "chain" => stage' \notin {"primary", "backup"}
               /\ attempts'[i].to = Legacy => stage' \in {"last", "over"}
    <3>1. CASE i \in 1 .. n
      BY <3>1, <1>1, <1>4 DEF n, OrderInv, Calls
    <3>2. CASE i = n + 1
      BY <3>2, <1>1, <1>2, <1>4, SMTT(30)
    <3> QED
      BY <3>1, <3>2, <1>4
  <2> QED
    BY <2>1, <1>4, <1>7, <1>1 DEF Calls
<1>10. NotCalledTwice'
  <2> SUFFICES ASSUME NEW i \in 1 .. n + 1, NEW j \in 1 .. n + 1,
                      i < j, attempts'[i].to = attempts'[j].to
               PROVE  attempts'[j].stage = "backup"
    BY <1>4 DEF NotCalledTwice
  <2>1. i \in 1 .. n /\ attempts'[i] = attempts[i]
    BY <1>4
  <2>2. CASE j \in 1 .. n
    BY <2>1, <2>2, <1>4 DEF n, OrderInv, NotCalledTwice
  <2>3. CASE j = n + 1
    BY <2>1, <2>3, <1>4, <1>8
  <2> QED
    BY <2>2, <2>3, <1>4
<1>11. RankRespected'
  <2> SUFFICES ASSUME NEW i \in 1 .. n + 1, NEW k \in 1 .. Len(Ranked), NEW l \in 1 .. Len(Ranked),
                      attempts'[i].stage = "chain", attempts'[i].to = Ranked[k], l < k,
                      Fits(Ranked[l])
               PROVE  Ranked[l] \in tried
    BY <1>1, <1>4 DEF RankRespected, Fits
  <2>1. CASE i \in 1 .. n
    BY <2>1, <1>4 DEF n, OrderInv, RankRespected, Fits
  <2>2. CASE i = n + 1
    <3>1. stage = "chain" /\ Head(queue) = Ranked[k]
      BY <2>2, <1>4 DEF p
    <3> QED
      BY <3>1, <1>1, ChainCall DEF OrderInv
  <2> QED
    BY <2>1, <2>2, <1>4
<1> QED
  BY <1>6, <1>9, <1>10, <1>11 DEF OrderInv

(* The ranked chain begins: nothing is considered yet. *)
LEMMA ChainBegins == ASSUME Typed, OrderInv, TryChain PROVE OrderInv'
<1>1. /\ stage = "backup" /\ queue = <<>> /\ UNCHANGED <<attempts, tried>>
      /\ stage' \in {"chain", "legacy"}
  BY DEF TryChain, StageOver
<1>2. ASSUME stage' = "chain"
      PROVE  queue' = Ranked
  BY <1>2 DEF TryChain
<1>4. InRank'
  <2> SUFFICES ASSUME stage' = "chain" PROVE InRank'
    BY DEF InRank
  <2>1. Len(Ranked) \in Nat /\ Considered' = 0 /\ queue' = Ranked
    BY <1>2 DEF Considered
  <2> QED
    BY <2>1 DEF InRank
<1>5. Calls'
  BY <1>1 DEF OrderInv, Calls
<1>6. \A i \in 1 .. Len(attempts) : attempts[i].stage # "chain"
  BY <1>1 DEF OrderInv, Calls
<1>7. RankRespected'
  BY <1>1, <1>6 DEF RankRespected
<1>8. NotCalledTwice'
  BY <1>1 DEF OrderInv, NotCalledTwice
<1> QED
  BY <1>4, <1>5, <1>7, <1>8 DEF OrderInv

(* The legacy key is called last.                                          *)
LEMMA LegacyKeepsOrder == ASSUME Typed, OrderInv, CallLegacy PROVE OrderInv'
<1> DEFINE n == Len(attempts)
<1>1. /\ stage = "legacy" /\ stage' = "last" /\ UNCHANGED <<view, tried>> /\ Send(Legacy)
  BY DEF CallLegacy, StageOver
<1>2. /\ attempts \in Seq(Attempts) /\ n \in Nat /\ Len(attempts') = n + 1
      /\ \A i \in 1 .. n : attempts'[i] = attempts[i]
      /\ attempts'[n + 1] = [to |-> Legacy, text |-> Text(Legacy), stage |-> stage]
  <2>1. /\ attempts \in Seq(Attempts) /\ Len(attempts') = n + 1
        /\ \A i \in 1 .. n : attempts'[i] = attempts[i]
        /\ attempts'[Len(attempts')] = [to |-> Legacy, text |-> Text(Legacy), stage |-> stage]
    BY <1>1, SendTyped
  <2> QED
    BY <2>1
<1> HIDE DEF n
<1>3. \A i \in 1 .. n : attempts[i].to # Legacy
  BY <1>1 DEF n, OrderInv, Calls
<1>4. ASSUME NEW i \in 1 .. n + 1
      PROVE  \/ i \in 1 .. n /\ attempts'[i] = attempts[i]
             \/ i = n + 1 /\ attempts'[i].to = Legacy /\ attempts'[i].stage = "legacy"
  BY <1>1, <1>2
<1>5. InRank'
  BY <1>1 DEF InRank
<1>6. Calls'
  <2>1. ASSUME NEW i \in 1 .. n + 1
        PROVE  /\ attempts'[i].to \in Providers => attempts'[i].to \in tried'
               /\ attempts'[i].stage = "chain" => stage' \notin {"primary", "backup"}
               /\ attempts'[i].to = Legacy => stage' \in {"last", "over"}
    BY <1>1, <1>4 DEF n, OrderInv, Calls
  <2> QED
    BY <2>1, <1>1, <1>2 DEF Calls
<1>7. NotCalledTwice'
  <2> SUFFICES ASSUME NEW i \in 1 .. n + 1, NEW j \in 1 .. n + 1,
                      i < j, attempts'[i].to = attempts'[j].to
               PROVE  attempts'[j].stage = "backup"
    BY <1>2 DEF NotCalledTwice
  <2>1. i \in 1 .. n /\ attempts'[i] = attempts[i]
    BY <1>2
  <2>2. j \in 1 .. n /\ attempts'[j] = attempts[j]
    BY <2>1, <1>3, <1>4
  <2> QED
    BY <2>1, <2>2 DEF n, OrderInv, NotCalledTwice
<1>8. RankRespected'
  <2> SUFFICES ASSUME NEW i \in 1 .. n + 1, NEW k \in 1 .. Len(Ranked), NEW l \in 1 .. Len(Ranked),
                      attempts'[i].stage = "chain", attempts'[i].to = Ranked[k], l < k,
                      Fits(Ranked[l])
               PROVE  Ranked[l] \in tried
    BY <1>1, <1>2 DEF RankRespected, Fits
  <2>1. i \in 1 .. n /\ attempts'[i] = attempts[i]
    BY <1>4
  <2> QED
    BY <2>1 DEF n, OrderInv, RankRespected, Fits
<1> QED
  BY <1>5, <1>6, <1>7, <1>8 DEF OrderInv

(* Every step keeps the order of the calls.                                *)
LEMMA NextOrder == ASSUME Typed, OrderInv, [Next]_vars PROVE OrderInv'
<1>1. CASE Skip
  BY <1>1, SkipKeepsOrder
<1>2. CASE Call
  BY <1>2, CallKeepsOrder
<1>3. CASE TryChain
  BY <1>3, ChainBegins
<1>4. CASE CallLegacy
  BY <1>4, LegacyKeepsOrder
<1>5. CASE \/ UNCHANGED <<stage, queue>>
               /\ (FailOver \/ AnswerNull \/ Edit \/ UNCHANGED vars)
           \/ stage' = "over" /\ queue' = <<>>
               /\ (Succeed \/ AnswerNull \/ FailHard \/ GiveUp)
  <2>1. UNCHANGED <<view, tried, attempts>>
    BY <1>5 DEF FailOver, AnswerNull, Edit, vars, Succeed, FailHard, GiveUp
  <2>2. (UNCHANGED <<stage, queue>>) \/ (stage' = "over" /\ queue' = <<>>)
    BY <1>5
  <2>3. InRank'
    BY <2>1, <2>2 DEF OrderInv, InRank, Considered, Fits
  <2>4. Calls'
    BY <2>1, <2>2 DEF OrderInv, Calls
  <2> QED
    BY <2>1, <2>3, <2>4 DEF OrderInv, RankRespected, NotCalledTwice
<1>6. CASE LeaveChain
  <2>1. UNCHANGED <<view, tried, attempts>>
    BY <1>6 DEF LeaveChain
  <2>2. stage' = "legacy" /\ stage = "chain"
    BY <1>6 DEF LeaveChain, StageOver
  <2>3. InRank'
    BY <2>2 DEF InRank
  <2>4. Calls'
    BY <2>1, <2>2 DEF OrderInv, Calls
  <2> QED
    BY <2>1, <2>3, <2>4 DEF OrderInv, RankRespected, NotCalledTwice
<1>7. AnswerNull => (UNCHANGED <<stage, queue>>) \/ (stage' = "over" /\ queue' = <<>>)
  BY DEF AnswerNull, End
<1>8. FailOver \/ Edit \/ UNCHANGED vars => UNCHANGED <<stage, queue>>
  BY DEF FailOver, Edit, vars
<1>9. Succeed \/ FailHard \/ GiveUp => stage' = "over" /\ queue' = <<>>
  BY DEF Succeed, FailHard, GiveUp, End
<1>10. CASE Begin \/ TryBackup
  <2>1. /\ UNCHANGED <<tried, attempts>>
        /\ stage' \in {"primary", "backup"} /\ stage \in {"opened", "primary"}
        /\ stage = "primary" => stage' = "backup"
    BY <1>10 DEF Begin, TryBackup, StageOver
  <2>2. stage = "opened" => attempts = <<>>
    BY DEF Typed, InStep
  <2>3. \A i \in 1 .. Len(attempts) : attempts[i].stage # "chain"
    BY <2>1, <2>2 DEF OrderInv, Calls
  <2>4. InRank'
    BY <2>1 DEF InRank
  <2>5. Calls'
    BY <2>1, <2>2, <2>3 DEF OrderInv, Calls
  <2>6. RankRespected'
    BY <2>1, <2>3 DEF RankRespected
  <2> QED
    BY <2>1, <2>4, <2>5, <2>6 DEF OrderInv, NotCalledTwice
<1>11. CASE Reread
  <2>1. UNCHANGED <<stage, queue, tried, attempts>> /\ view'.rows = view.rows
    BY <1>11, RowReread DEF Reread
  <2>2. InRank'
    BY <2>1 DEF OrderInv, InRank, Considered, Fits
  <2>3. Calls'
    BY <2>1 DEF OrderInv, Calls
  <2>4. RankRespected' /\ NotCalledTwice'
    BY <2>1 DEF OrderInv, RankRespected, NotCalledTwice
  <2> QED
    BY <2>2, <2>3, <2>4 DEF OrderInv
<1> QED
  BY <1>1, <1>2, <1>3, <1>4, <1>5, <1>6, <1>7, <1>8, <1>9, <1>10, <1>11 DEF Next

(* Nobody is called twice, and the chain keeps to the ranks (ai.py:443-485). *)
THEOREM CallsAreInOrder == Spec => []CalledInOrder
<1>1. Typed /\ OrderInv => CalledInOrder
  BY DEF Typed, OrderInv, CalledInOrder
<1> QED
  BY AlwaysTyped, InitOrder, NextOrder, <1>1, PTL DEF Spec

-----------------------------------------------------------------------------
(* Who is left to call.  A step that has run out of rows has called those  *)
(* it was to try, if they could be called.                                 *)

Left ==
    /\ stage = "primary" =>
           /\ \A i \in 1 .. Len(queue) : queue[i] = view.setting.primary
           /\ queue = <<>> =>
                  \A p \in Providers : p = view.setting.primary /\ Fits(p) => p \in tried
    /\ stage = "backup" =>
           /\ \A p \in Providers : p = view.setting.primary /\ Fits(p) => p \in tried
           /\ \A i \in 1 .. Len(queue) : queue[i] = view.setting.backup
           /\ queue = <<>> =>
                  \A p \in Providers : p = view.setting.backup /\ Fits(p) => p \in tried
    /\ stage \in {"legacy", "last"} => \A p \in Providers : Candidate(p) => p \in tried
    /\ stage = "last" => \E i \in 1 .. Len(attempts) : attempts[i].to = Legacy

LeftInv == Left /\ GivesUpExhausted

(* Every candidate is still to be considered when the session is opened.   *)
LEMMA InitLeft == Init => LeftInv
  BY DEF Init, LeftInv, Left, GivesUpExhausted

(* The step of the look-up order that follows.                             *)
LEMMA StepGoesOn ==
    ASSUME Typed, LeftInv, queue # <<>>, queue' = Tail(queue), UNCHANGED <<stage, view, answer>>,
           tried \subseteq tried',
           stage # "chain" => (Fits(Head(queue)) => Head(queue) \in tried')
    PROVE  LeftInv'
<1>1. /\ Head(queue) = queue[1] /\ Len(queue) \in Nat /\ Len(queue) # 0
      /\ Len(queue') = Len(queue) - 1 /\ queue' \in Seq(Providers)
  BY HeadAndTail DEF Typed, TypeOK
<1>2. stage \in {"primary", "backup", "chain"} /\ answer = "pending"
  BY DEF Typed, InStep
<1>3. stage \in {"primary", "backup"} => Len(queue) = 1
  BY <1>1 DEF Typed, InStep
<1>4. stage \in {"primary", "backup"} => 1 \in 1 .. Len(queue) /\ Len(queue') = 0
  BY <1>1, <1>3
<1>5. /\ stage = "primary" => Head(queue) = view.setting.primary
      /\ stage = "backup" => Head(queue) = view.setting.backup
  BY <1>1, <1>4 DEF LeftInv, Left
<1>6. CASE stage = "primary"
  <2>1. Len(queue') = 0 /\ stage' = "primary" /\ UNCHANGED <<view, answer>>
    BY <1>4, <1>6
  <2>2. \A p \in Providers : p = view.setting.primary /\ Fits(p) => p \in tried'
    BY <1>5, <1>6
  <2> QED
    BY <1>2, <2>1, <2>2 DEF LeftInv, Left, GivesUpExhausted, Fits
<1>7. CASE stage = "backup"
  <2>1. Len(queue') = 0 /\ stage' = "backup" /\ UNCHANGED <<view, answer>>
    BY <1>4, <1>7
  <2>2. \A p \in Providers : p = view.setting.backup /\ Fits(p) => p \in tried'
    BY <1>5, <1>7
  <2>3. \A p \in Providers : p = view.setting.primary /\ Fits(p) => p \in tried'
    BY <1>7 DEF LeftInv, Left
  <2> QED
    BY <1>2, <2>1, <2>2, <2>3 DEF LeftInv, Left, GivesUpExhausted, Fits
<1>8. CASE stage = "chain"
  BY <1>2, <1>8 DEF LeftInv, Left, GivesUpExhausted
<1> QED
  BY <1>2, <1>6, <1>7, <1>8

(* The chain has considered every row when its queue is empty. *)
LEMMA ChainExhausts ==
    ASSUME Typed, InRank, stage = "chain", queue = <<>>, NEW p \in Providers, Fits(p)
    PROVE  p \in tried
<1>1. PICK k \in 1 .. Len(Ranked) : Ranked[k] = p
  OBVIOUS
<1>2. Considered = Len(Ranked)
  BY DEF Considered
<1> QED
  BY <1>1, <1>2 DEF InRank

(* Every step keeps the account of the candidates that are left.           *)
LEMMA NextLeft == ASSUME Typed, OrderInv, LeftInv, [Next]_vars PROVE LeftInv'
<1>1. CASE Skip
  <2>1. queue # <<>> /\ queue' = Tail(queue) /\ UNCHANGED <<stage, view, answer, tried>>
    BY <1>1 DEF Skip, Considering
  <2>2. stage # "chain" => (Fits(Head(queue)) => Head(queue) \in tried')
    BY <1>1 DEF Skip, PassedOver, TriedBefore, Fits
  <2> QED
    BY <2>1, <2>2, StepGoesOn
<1>2. CASE Call
  <2>1. /\ queue # <<>> /\ queue' = Tail(queue) /\ UNCHANGED <<stage, view, answer>>
        /\ tried' = tried \cup {Head(queue)}
    BY <1>2 DEF Call, Considering, outcome
  <2> QED
    BY <2>1, StepGoesOn
<1>3. CASE TryBackup
  <2>1. /\ stage = "primary" /\ stage' = "backup" /\ queue = <<>>
        /\ queue' = Chosen(view.setting.backup) /\ UNCHANGED <<tried, answer>>
    BY <1>3 DEF TryBackup, StageOver, outcome
  <2>5. PICK held \in SUBSET Providers :
            /\ \A p \in Providers :
                   p # view.setting.backup \/ p = view.setting.primary => p \in held
            /\ ReadRows(held)
    BY <1>3 DEF TryBackup
  <2>6. /\ view'.setting = view.setting
        /\ \A p \in held : view'.rows[p] = view.rows[p]
    BY <2>5, RowsRead
  <2>7. \A p \in Providers : p = view.setting.primary /\ Fits(p)' => p \in tried
    BY <2>1, <2>5, <2>6 DEF LeftInv, Left, Fits
  <2>2. view.setting.backup \in Providers \cup {NoProvider}
    BY DEF Typed, TypeOK, SettingSet
  <2>3. /\ \A i \in 1 .. Len(queue') : queue'[i] = view.setting.backup
        /\ queue' = <<>> => view.setting.backup = NoProvider
    <3>1. CASE view.setting.backup = NoProvider
      BY <2>1, <3>1 DEF Chosen
    <3>2. CASE view.setting.backup # NoProvider
      BY <2>1, <3>2 DEF Chosen
    <3> QED
      BY <3>1, <3>2
  <2>4. answer = "pending"
    BY <2>1 DEF Typed, InStep
  <2> QED
    BY <2>1, <2>3, <2>4, <2>6, <2>7 DEF LeftInv, Left, GivesUpExhausted
<1>4. CASE TryChain
  <2>1. /\ stage = "backup" /\ queue = <<>> /\ UNCHANGED <<tried, answer>>
        /\ stage' = "chain" \/ (stage' = "legacy" /\ ~view.setting.chain /\ UNCHANGED view)
    BY <1>4 DEF TryChain, StageOver, outcome
  <2>2. answer = "pending"
    BY <2>1 DEF Typed, InStep
  <2>3. CASE stage' = "chain"
    BY <2>1, <2>2, <2>3 DEF LeftInv, Left, GivesUpExhausted
  <2>4. CASE stage' = "legacy" /\ ~view.setting.chain /\ UNCHANGED view
    <3>1. \A p \in Providers : Candidate(p)' => p \in tried'
      BY <2>1, <2>4 DEF LeftInv, Left, Candidate, Fits
    <3> QED
      BY <2>1, <2>2, <2>4, <3>1 DEF LeftInv, Left, GivesUpExhausted
  <2> QED
    BY <2>1, <2>3, <2>4
<1>5. CASE LeaveChain
  <2>1. /\ stage = "chain" /\ stage' = "legacy" /\ queue = <<>>
        /\ UNCHANGED <<view, tried, answer>>
    BY <1>5 DEF LeaveChain, StageOver, outcome
  <2>2. answer = "pending"
    BY <2>1 DEF Typed, InStep
  <2>3. \A p \in Providers : Candidate(p)' => p \in tried'
    BY <2>1, ChainExhausts DEF OrderInv, Candidate, Fits
  <2> QED
    BY <2>1, <2>2, <2>3 DEF LeftInv, Left, GivesUpExhausted
<1>6. CASE CallLegacy
  <2>1. /\ stage = "legacy" /\ stage' = "last" /\ Send(Legacy)
        /\ UNCHANGED <<view, tried, answer>>
    BY <1>6 DEF CallLegacy, StageOver, outcome
  <2>2. answer = "pending"
    BY <2>1 DEF Typed, InStep
  <2>3. \E i \in 1 .. Len(attempts') : attempts'[i].to = Legacy
    <3>1. /\ attempts \in Seq(Attempts) /\ Len(attempts') = Len(attempts) + 1
          /\ attempts'[Len(attempts')] = [to |-> Legacy, text |-> Text(Legacy), stage |-> stage]
      BY <2>1, SendTyped
    <3>2. Len(attempts') \in 1 .. Len(attempts') /\ attempts'[Len(attempts')].to = Legacy
      BY <3>1
    <3> QED
      BY <3>2
  <2>4. \A p \in Providers : Candidate(p)' => p \in tried'
    BY <2>1 DEF LeftInv, Left, Candidate
  <2> QED
    BY <2>1, <2>2, <2>3, <2>4 DEF LeftInv, Left, GivesUpExhausted
<1>7. CASE GiveUp
  <2>1. /\ stage = "last" \/ (stage = "legacy" /\ ~view.setting.legacy)
        /\ stage' = "over" /\ queue' = <<>> /\ UNCHANGED <<view, tried, attempts>>
    BY <1>7 DEF GiveUp, StageOver, End
  <2>2. \A p \in Providers : Candidate(p) => p \in tried
    BY <2>1 DEF LeftInv, Left
  <2>3. view.setting.legacy => \E i \in 1 .. Len(attempts) : attempts[i].to = Legacy
    BY <2>1 DEF LeftInv, Left
  <2>4. Exhausted'
    BY <2>1, <2>2, <2>3 DEF Exhausted, Candidate
  <2> QED
    BY <2>1, <2>4 DEF LeftInv, Left, GivesUpExhausted
<1>8. CASE \/ stage' = "over" /\ answer' \in {"text", "empty", "raised"}
           \/ UNCHANGED <<stage, queue, view, tried, answer, attempts>>
  BY <1>8 DEF LeftInv, Left, GivesUpExhausted, Exhausted, Candidate, Fits
<1>9. Succeed \/ AnswerNull \/ FailHard \/ FailOver \/ Edit \/ UNCHANGED vars
      => \/ stage' = "over" /\ answer' \in {"text", "empty", "raised"}
         \/ UNCHANGED <<stage, queue, view, tried, answer, attempts>>
  BY DEF Succeed, AnswerNull, FailHard, FailOver, Edit, vars, End, outcome
<1>10. CASE Begin
  <2>1. /\ stage' = "primary" /\ stage = "opened" /\ UNCHANGED <<tried, answer>>
        /\ queue' = Chosen(view.setting.primary) /\ view'.setting = view.setting
    BY <1>10, RowsRead DEF Begin, outcome
  <2>2. view.setting.primary \in Providers \cup {NoProvider} /\ answer = "pending"
    BY <2>1 DEF Typed, TypeOK, SettingSet, InStep
  <2>3. /\ \A i \in 1 .. Len(queue') : queue'[i] = view.setting.primary
        /\ queue' = <<>> => view.setting.primary = NoProvider
    <3>1. CASE view.setting.primary = NoProvider
      BY <2>1, <3>1 DEF Chosen
    <3>2. CASE view.setting.primary # NoProvider
      BY <2>1, <3>2 DEF Chosen
    <3> QED
      BY <3>1, <3>2
  <2> QED
    BY <2>1, <2>2, <2>3 DEF LeftInv, Left, GivesUpExhausted
<1>11. CASE Reread
  <2>1. /\ UNCHANGED <<stage, queue, tried, attempts, answer>> /\ stage # "over"
        /\ view'.rows = view.rows /\ view'.setting.primary = view.setting.primary
        /\ view'.setting.backup = view.setting.backup /\ view'.setting.chain = view.setting.chain
    BY <1>11, RowReread DEF Reread, outcome
  <2>2. answer = "pending"
    BY <2>1 DEF Typed, InStep
  <2>3. \A p \in Providers : (Fits(p)' <=> Fits(p)) /\ (Candidate(p)' <=> Candidate(p))
    BY <2>1 DEF Fits, Candidate
  <2> QED
    BY <2>1, <2>2, <2>3 DEF LeftInv, Left, GivesUpExhausted
<1> QED
  BY <1>1, <1>2, <1>3, <1>4, <1>5, <1>6, <1>7, <1>8, <1>9, <1>10, <1>11 DEF Next

(* The request gives up only when nothing is left to call, and blames the  *)
(* size of the prompt only when nothing was called (ai.py:514-533).        *)
THEOREM FailuresAreRight == Spec => []FailsRightly
<1>1. LeftInv /\ CapacityInv => FailsRightly
  BY DEF LeftInv, CapacityInv, FailsRightly
<1> QED
  BY AlwaysTyped, InitOrder, NextOrder, InitLeft, NextLeft, InitCapacity, NextCapacity,
     <1>1, PTL DEF Spec
=============================================================================
