---------------------------- MODULE StudioProofs ----------------------------
(* Safety of the studio for any projects, accounts, sessions, ports, tracks *)
(* and runs: of its sign-in sessions, of its audio library, of the links    *)
(* between projects and accounts, and of all of them in one process.        *)
EXTENDS Studio, RunStoreProofs, SequenceTheorems, NaturalsInduction, WellFoundedInduction, TLAPS

(***************************************************************************)
(* Sequences and numbers                                                   *)
(***************************************************************************)

\* Induction on the natural numbers, for a set of them.
LEMMA SetInduction ==
  ASSUME NEW S, 0 \in S, \A n \in Nat : n \in S => n + 1 \in S
  PROVE  \A n \in Nat : n \in S
<1> DEFINE T == {n \in Nat : n \notin S}
<1> SUFFICES ASSUME T # {} PROVE FALSE
  OBVIOUS
<1>1. PICK m \in T : \A n \in T : ~(<<n, m>> \in OpToRel(<, Nat))
  <2>1. T \subseteq Nat
    OBVIOUS
  <2> HIDE DEF T
  <2> QED
    BY <2>1, NatLessThanWellFounded, WFMin
<1>2. m \in Nat /\ m \notin S /\ m # 0
  OBVIOUS
<1>3. m - 1 \in Nat /\ (m - 1) + 1 = m /\ m - 1 < m
  BY <1>2
<1>4. m - 1 \notin T
  BY <1>1, <1>2, <1>3 DEF OpToRel
<1> QED
  BY <1>2, <1>3, <1>4

\* A nonempty set of natural numbers has a least.
LEMMA Least ==
  ASSUME NEW T \in SUBSET Nat, T # {}
  PROVE  Min(T) \in T /\ \A k \in T : Min(T) <= k
<1>1. PICK m \in T : \A n \in T : ~(<<n, m>> \in OpToRel(<, Nat))
  BY NatLessThanWellFounded, WFMin
<1>2. ASSUME NEW n \in T PROVE m <= n
  <2>1. n \in Nat /\ m \in Nat /\ ~(<<n, m>> \in OpToRel(<, Nat))
    BY <1>1
  <2>2. n \in Nat /\ m \in Nat /\ ~(n < m)
    BY <2>1 DEF OpToRel
  <2> QED
    BY ONLY <2>2
<1> QED
  BY <1>2 DEF Min

\* A function on 1..n is a sequence of length n.
LEMMA SeqOfFunction ==
  ASSUME NEW S, NEW n \in Nat, NEW f \in [1..n -> S]
  PROVE  f \in Seq(S) /\ Len(f) = n /\ DOMAIN f = 1..n
<1>1. f \in Seq(S)
  BY SeqDef
<1>2. Len(f) \in Nat /\ DOMAIN f = 1..Len(f)
  BY <1>1, LenProperties
<1> QED
  BY <1>1, <1>2

\* t has some of the elements of s, in the order they have there.
Thinned(s, t) ==
  \E m \in [DOMAIN t -> DOMAIN s] :
    /\ \A k \in DOMAIN t : t[k] = s[m[k]]
    /\ \A k, l \in DOMAIN t : k < l => m[k] < m[l]

LEMMA SameThinned ==
  ASSUME NEW s
  PROVE  Thinned(s, s)
<1> DEFINE m == [k \in DOMAIN s |-> k]
<1>1. m \in [DOMAIN s -> DOMAIN s] /\ \A k \in DOMAIN s : m[k] = k
  OBVIOUS
<1> HIDE DEF m
<1> QED
  BY <1>1 DEF Thinned

\* Without keeps exactly the rows that do not go, in their order: its first i rounds...
KeptSoFar(rows, gone, t, i) ==
  /\ t \in Seq({rows[j] : j \in DOMAIN rows})
  /\ \E m \in [DOMAIN t -> 1..i] :
       /\ \A k \in DOMAIN t : t[k] = rows[m[k]] /\ t[k] \notin gone
       /\ \A k, l \in DOMAIN t : k < l => m[k] < m[l]
       /\ \A j \in 1..i : rows[j] \notin gone => \E k \in DOMAIN t : m[k] = j

LEMMA KeepOneMore ==
  ASSUME NEW S, NEW rows \in Seq(S), NEW gone, NEW i \in Nat, i + 1 \in DOMAIN rows,
         NEW t, KeptSoFar(rows, gone, t, i)
  PROVE  KeptSoFar(rows, gone, IF rows[i + 1] \in gone THEN t ELSE Append(t, rows[i + 1]), i + 1)
<1> DEFINE R == {rows[j] : j \in DOMAIN rows}
           x == rows[i + 1]
           u == Append(t, x)
<1>1. PICK m \in [DOMAIN t -> 1..i] :
        /\ \A k \in DOMAIN t : t[k] = rows[m[k]] /\ t[k] \notin gone
        /\ \A k, l \in DOMAIN t : k < l => m[k] < m[l]
        /\ \A j \in 1..i : rows[j] \notin gone => \E k \in DOMAIN t : m[k] = j
  BY DEF KeptSoFar
<1>2. t \in Seq(R) /\ Len(t) \in Nat /\ DOMAIN t = 1..Len(t) /\ x \in R
  BY LenProperties DEF KeptSoFar
<1>3. \A j \in 1..(i + 1) : j \in 1..i \/ j = i + 1
  OBVIOUS
<1>4. CASE x \in gone
  <2>1. m \in [DOMAIN t -> 1..(i + 1)]
    BY <1>1
  <2>2. \A j \in 1..(i + 1) : rows[j] \notin gone => \E k \in DOMAIN t : m[k] = j
    BY <1>1, <1>3, <1>4
  <2>3. KeptSoFar(rows, gone, t, i + 1)
    BY <1>1, <1>2, <2>1, <2>2 DEF KeptSoFar
  <2> QED
    BY <1>4, <2>3
<1>5. CASE x \notin gone
  <2>1. /\ u \in Seq(R) /\ Len(u) = Len(t) + 1
        /\ \A k \in 1..Len(t) : u[k] = t[k]
        /\ u[Len(t) + 1] = x
    BY <1>2, AppendProperties
  <2>2. DOMAIN u = 1..(Len(t) + 1)
    BY <2>1, LenProperties
  <2> HIDE DEF u, x, R
  <2> DEFINE n == [k \in DOMAIN u |-> IF k = Len(t) + 1 THEN i + 1 ELSE m[k]]
  <2>3. \A k \in DOMAIN u : k = Len(t) + 1 \/ k \in DOMAIN t
    BY <1>2, <2>2
  <2>4. n[Len(t) + 1] = i + 1 /\ \A k \in DOMAIN t : n[k] = m[k] /\ m[k] \in 1..i /\ k # Len(t) + 1
                                                  /\ k \in DOMAIN u
    BY <1>1, <1>2, <2>2
  <2>5. n \in [DOMAIN u -> 1..(i + 1)]
    BY <2>3, <2>4
  <2> HIDE DEF n
  <2>6. \A k \in DOMAIN u : u[k] = rows[n[k]] /\ u[k] \notin gone
    <3>1. u[Len(t) + 1] = rows[n[Len(t) + 1]] /\ u[Len(t) + 1] \notin gone
      BY <1>5, <2>1, <2>4 DEF x
    <3>2. ASSUME NEW k \in DOMAIN t PROVE u[k] = rows[n[k]] /\ u[k] \notin gone
      BY <1>1, <1>2, <2>1, <2>4
    <3> QED
      BY <2>3, <3>1, <3>2
  <2>7. ASSUME NEW k \in DOMAIN u, NEW l \in DOMAIN u, k < l PROVE n[k] < n[l]
    <3>1. k \in DOMAIN t
      BY <1>2, <2>2, <2>7
    <3>2. CASE l \in DOMAIN t
      BY <1>1, <2>4, <2>7, <3>1, <3>2
    <3>3. CASE l = Len(t) + 1
      BY <2>4, <3>1, <3>3
    <3> QED
      BY <2>3, <3>2, <3>3
  <2>8. \A j \in 1..(i + 1) : rows[j] \notin gone => \E k \in DOMAIN u : n[k] = j
    <3>1. Len(t) + 1 \in DOMAIN u
      BY <1>2, <2>2
    <3> QED
      BY <1>1, <1>3, <2>4, <3>1
  <2>9. KeptSoFar(rows, gone, u, i + 1)
    BY <2>1, <2>5, <2>6, <2>7, <2>8 DEF KeptSoFar, R
  <2> QED
    BY <1>5, <2>9 DEF u, x
<1> QED
  BY <1>4, <1>5

\* ... and all of them.
LEMMA WithoutIs ==
  ASSUME NEW S, NEW rows \in Seq(S), NEW gone
  PROVE  LET t == Without(rows, gone)
         IN  /\ t \in Seq(S) /\ Thinned(rows, t)
             /\ \A k \in DOMAIN t : t[k] \notin gone
             /\ \A i \in DOMAIN rows : rows[i] \notin gone => \E k \in DOMAIN t : t[k] = rows[i]
<1> DEFINE Next1(t, i) == IF rows[i] \in gone THEN t ELSE Append(t, rows[i])
           Eq(u, n) == u = [i \in 0..n |-> IF i = 0 THEN << >> ELSE Next1(u[i - 1], i)]
           Rows1 == {rows[j] : j \in DOMAIN rows}
<1>1. Len(rows) \in Nat /\ DOMAIN rows = 1..Len(rows) /\ \A j \in DOMAIN rows : rows[j] \in S
  BY LenProperties, ElementOfSeq
<1>2. \A n \in Nat : \E u : Eq(u, n)
  <2> DEFINE T == {n \in Nat : \E u : Eq(u, n)}
  <2> HIDE DEF Next1
  <2>1. 0 \in T
    <3>1. Eq([i \in 0..0 |-> << >>], 0)
      OBVIOUS
    <3> QED
      BY <3>1
  <2>2. ASSUME NEW n \in Nat, n \in T PROVE n + 1 \in T
    <3>1. PICK u : Eq(u, n)
      BY <2>2
    <3> DEFINE v == [i \in 0..(n + 1) |-> IF i = n + 1 THEN Next1(u[n], n + 1) ELSE u[i]]
    <3>2. ASSUME NEW i \in 0..(n + 1)
          PROVE  v[i] = IF i = 0 THEN << >> ELSE Next1(v[i - 1], i)
      <4>1. CASE i = n + 1
        BY <4>1
      <4>2. CASE i # n + 1
        <5>1. i \in 0..n /\ v[i] = u[i]
          BY <4>2
        <5>2. u[i] = IF i = 0 THEN << >> ELSE Next1(u[i - 1], i)
          BY <3>1, <5>1
        <5>3. i # 0 => v[i - 1] = u[i - 1]
          BY <5>1
        <5> QED
          BY <5>1, <5>2, <5>3
      <4> QED
        BY <4>1, <4>2
    <3>3. Eq(v, n + 1)
      BY <3>2
    <3>4. n + 1 \in Nat
      OBVIOUS
    <3> QED
      BY <3>3, <3>4
  <2> HIDE DEF T
  <2>3. \A n \in Nat : n \in T
    BY <2>1, <2>2, SetInduction
  <2> QED
    BY <2>3 DEF T
<1> DEFINE done == CHOOSE u : Eq(u, Len(rows))
<1>3. Eq(done, Len(rows))
  BY <1>1, <1>2
<1>4. Without(rows, gone) = done[Len(rows)]
  BY DEF Without
<1>5. done[0] = << >> /\ \A i \in 1..Len(rows) : done[i] = Next1(done[i - 1], i)
  <2> HIDE DEF done, Next1
  <2> QED
    BY <1>1, <1>3
<1> HIDE DEF done
<1> DEFINE T == {i \in Nat : i <= Len(rows) => KeptSoFar(rows, gone, done[i], i)}
<1>6. 0 \in T
  <2>1. << >> \in Seq(Rows1) /\ DOMAIN << >> = {}
    BY EmptySeq
  <2> DEFINE e == << >>
  <2> HIDE DEF e
  <2>2. PICK m : m = [k \in {} |-> 0]
    OBVIOUS
  <2>3. e \in Seq(Rows1) /\ DOMAIN e = {}
    BY <2>1 DEF e
  <2>4. m \in [DOMAIN e -> 1..0] /\ \A j \in 1..0 : FALSE
    BY <2>2, <2>3
  <2>5. KeptSoFar(rows, gone, e, 0)
    BY <2>3, <2>4 DEF KeptSoFar
  <2> QED
    BY <1>5, <2>5 DEF e
<1>7. ASSUME NEW i \in Nat, i \in T PROVE i + 1 \in T
  <2> SUFFICES ASSUME i + 1 <= Len(rows) PROVE KeptSoFar(rows, gone, done[i + 1], i + 1)
    OBVIOUS
  <2>1. KeptSoFar(rows, gone, done[i], i) /\ i + 1 \in DOMAIN rows
    BY <1>1, <1>7
  <2>2. done[i + 1] = IF rows[i + 1] \in gone THEN done[i] ELSE Append(done[i], rows[i + 1])
    <3>1. i + 1 \in 1..Len(rows) /\ (i + 1) - 1 = i
      BY <1>1
    <3> QED
      BY <1>5, <3>1
  <2> QED
    BY <2>1, <2>2, KeepOneMore
<1>8. Len(rows) \in T
  <2> HIDE DEF T
  <2> QED
    BY <1>1, <1>6, <1>7, SetInduction
<1>9. KeptSoFar(rows, gone, Without(rows, gone), Len(rows))
  BY <1>1, <1>4, <1>8
<1> DEFINE t == Without(rows, gone)
<1> HIDE DEF t
<1>10. PICK m \in [DOMAIN t -> 1..Len(rows)] :
        /\ \A k \in DOMAIN t : t[k] = rows[m[k]] /\ t[k] \notin gone
        /\ \A k, l \in DOMAIN t : k < l => m[k] < m[l]
        /\ \A j \in 1..Len(rows) : rows[j] \notin gone => \E k \in DOMAIN t : m[k] = j
  BY <1>9 DEF KeptSoFar, t
<1>11. t \in Seq(S)
  <2>1. t \in Seq(Rows1) /\ Rows1 \subseteq S
    BY <1>1, <1>9 DEF KeptSoFar, t
  <2> QED
    BY <2>1, SeqMonotonic
<1>12. Thinned(rows, t)
  BY <1>1, <1>10 DEF Thinned
<1> QED
  BY <1>1, <1>10, <1>11, <1>12 DEF t

\* RemoveAt takes one element out.
LEMMA RemoveAtIs ==
  ASSUME NEW S, NEW s \in Seq(S), NEW i \in DOMAIN s
  PROVE  LET t == RemoveAt(s, i)
         IN  /\ t \in Seq(S) /\ Thinned(s, t)
             /\ \A k \in DOMAIN t : \E j \in DOMAIN s : j # i /\ t[k] = s[j]
             /\ \A j \in DOMAIN s : j # i => \E k \in DOMAIN t : t[k] = s[j]
<1>1. Len(s) \in Nat /\ DOMAIN s = 1..Len(s) /\ i \in 1..Len(s)
  BY LenProperties
<1> DEFINE a == SubSeq(s, 1, i - 1)
           b == SubSeq(s, i + 1, Len(s))
           t == RemoveAt(s, i)
<1>2. /\ a \in Seq(S) /\ Len(a) = i - 1 /\ \A k \in 1..(i - 1) : a[k] = s[k]
      /\ b \in Seq(S) /\ Len(b) = Len(s) - i /\ \A k \in 1..(Len(s) - i) : b[k] = s[i + k]
  <2>1. /\ \A x, y \in Nat : x \in 1..(Len(s) + 1) /\ y \in (x - 1)..Len(s) =>
             /\ SubSeq(s, x, y) \in Seq(S) /\ Len(SubSeq(s, x, y)) = y - x + 1
             /\ \A k \in 1..(y - x + 1) : SubSeq(s, x, y)[k] = s[x + k - 1]
    BY <1>1, SubSeqProperties
  <2>2. /\ 1 \in Nat /\ i - 1 \in Nat /\ 1 \in 1..(Len(s) + 1) /\ i - 1 \in (1 - 1)..Len(s)
        /\ i + 1 \in Nat /\ i + 1 \in 1..(Len(s) + 1) /\ Len(s) \in ((i + 1) - 1)..Len(s)
    BY <1>1
  <2>3. /\ a \in Seq(S) /\ Len(a) = (i - 1) - 1 + 1
        /\ \A k \in 1..((i - 1) - 1 + 1) : a[k] = s[1 + k - 1]
    BY <2>1, <2>2
  <2>4. /\ b \in Seq(S) /\ Len(b) = Len(s) - (i + 1) + 1
        /\ \A k \in 1..(Len(s) - (i + 1) + 1) : b[k] = s[(i + 1) + k - 1]
    BY <1>1, <2>1, <2>2
  <2> HIDE DEF a, b
  <2>5. (i - 1) - 1 + 1 = i - 1 /\ Len(s) - (i + 1) + 1 = Len(s) - i
    BY <1>1
  <2>6. \A k \in 1..(i - 1) : a[k] = s[k]
    <3>1. \A k \in 1..(i - 1) : 1 + k - 1 = k
      BY <1>1
    <3> QED
      BY <2>3, <2>5, <3>1
  <2>7. \A k \in 1..(Len(s) - i) : b[k] = s[i + k]
    <3>1. \A k \in 1..(Len(s) - i) : (i + 1) + k - 1 = i + k
      BY <1>1
    <3> QED
      BY <2>4, <2>5, <3>1
  <2> QED
    BY <2>3, <2>4, <2>5, <2>6, <2>7
<1>3. /\ t \in Seq(S) /\ Len(t) = Len(s) - 1
      /\ \A k \in 1..(Len(s) - 1) : t[k] = IF k < i THEN s[k] ELSE s[k + 1]
  <2>1. t = a \o b
    BY DEF RemoveAt
  <2> HIDE DEF a, b, t
  <2>2. /\ t \in Seq(S) /\ Len(t) = Len(a) + Len(b)
        /\ \A k \in 1..(Len(a) + Len(b)) : t[k] = IF k <= Len(a) THEN a[k] ELSE b[k - Len(a)]
    BY <1>2, <2>1, ConcatProperties
  <2>3. Len(a) + Len(b) = Len(s) - 1
    BY <1>1, <1>2
  <2>4. ASSUME NEW k \in 1..(Len(s) - 1) PROVE t[k] = IF k < i THEN s[k] ELSE s[k + 1]
    <3>1. CASE k < i
      <4>1. k <= Len(a) /\ k \in 1..(i - 1)
        BY <1>1, <1>2, <3>1
      <4> QED
        BY <1>2, <2>2, <2>3, <3>1, <4>1
    <3>2. CASE ~(k < i)
      <4>1. /\ ~(k <= Len(a)) /\ k - Len(a) \in 1..(Len(s) - i) /\ i + (k - Len(a)) = k + 1
        BY <1>1, <1>2, <3>2
      <4>2. t[k] = b[k - Len(a)]
        BY <2>2, <2>3, <4>1
      <4>3. b[k - Len(a)] = s[i + (k - Len(a))]
        BY <1>2, <4>1
      <4> QED
        BY <3>2, <4>1, <4>2, <4>3
    <3> QED
      BY <3>1, <3>2
  <2> QED
    BY <2>2, <2>3, <2>4
<1> HIDE DEF t
<1>4. DOMAIN t = 1..(Len(s) - 1)
  BY <1>3, LenProperties
<1> DEFINE m == [k \in DOMAIN t |-> IF k < i THEN k ELSE k + 1]
<1>5. /\ m \in [DOMAIN t -> DOMAIN s]
      /\ \A k \in DOMAIN t : t[k] = s[m[k]] /\ m[k] # i
      /\ \A k, l \in DOMAIN t : k < l => m[k] < m[l]
  BY <1>1, <1>3, <1>4
<1>6. \A j \in DOMAIN s : j # i => \E k \in DOMAIN t : m[k] = j
  <2> SUFFICES ASSUME NEW j \in DOMAIN s, j # i PROVE \E k \in DOMAIN t : m[k] = j
    OBVIOUS
  <2>1. CASE j < i
    <3>1. j \in DOMAIN t /\ m[j] = j
      BY <1>1, <1>4, <2>1
    <3> QED
      BY <3>1
  <2>2. CASE j > i
    <3>1. j - 1 \in DOMAIN t /\ m[j - 1] = j
      BY <1>1, <1>4, <2>2
    <3> QED
      BY <3>1
  <2> QED
    BY <1>1, <2>1, <2>2
<1> HIDE DEF m
<1>7. Thinned(s, t)
  BY <1>5 DEF Thinned
<1> QED
  BY <1>3, <1>5, <1>6, <1>7 DEF t

-----------------------------------------------------------------------------
(***************************************************************************)
(* The sign-in sessions                                                    *)
(***************************************************************************)

\* The kind of a session is known once anything stands for it or runs it.
Opened ==
  /\ \A s \in sessions : sess[s].kind = "login"
  /\ \A a \in Account : inspects[a] # None => sess[inspects[a]].kind = "viewer"
  /\ \A s \in containers : sess[s].kind # "none"
  /\ \A c \in calls : sess[c.s].kind # "none"

\* A login that is being launched is in the map, and nobody can finish or cancel it yet.
Launching ==
  \A c \in calls :
    c.op = "launch" /\ sess[c.s].kind = "login"
      => c.s \in sessions /\ \A d \in calls : d.s = c.s => d.op = "launch"

\* A login about to be dropped runs no more.
Dropping ==
  \A c \in calls :
    c.op = "cancel" /\ c.at = "drop" /\ sess[c.s].kind = "login" => c.s \notin containers

LoginInv == LoginTypeOK /\ Opened /\ Launching /\ Dropping /\ NothingLeaks

SessionsAsTheyWere ==
  \A s \in Session : sess'[s].kind = sess[s].kind /\ sess'[s].port = sess[s].port

-----------------------------------------------------------------------------
(* Types *)

LEMMA CallTyped ==
  ASSUME LoginTypeOK, NEW c \in calls
  PROVE  c \in Call /\ c.s \in Session /\ sess[c.s] \in FxSession /\ sess[c.s].dir \in Session
<1>1. c \in Call /\ c.s \in Session
  BY DEF LoginTypeOK, Call
<1>2. sess[c.s] \in FxSession
  BY <1>1 DEF LoginTypeOK
<1> QED
  BY <1>1, <1>2 DEF FxSession

LEMMA GoesTyped ==
  ASSUME LoginTypeOK, NEW c \in calls,
         NEW at \in {"run", "wait", "stop", "free", "persist", "drop", "wipe", "reap"},
         Goes(c, at)
  PROVE  calls' \subseteq Call
<1>1. Stage(c, at) \in Call
  BY CallTyped DEF Stage, Call
<1> QED
  BY <1>1 DEF Goes, LoginTypeOK

\* A session whose status changes keeps all else.
LEMMA StatusTyped ==
  ASSUME LoginTypeOK, NEW s \in Session, NEW status \in {"ready", "finished", "error"},
         sess' = [sess EXCEPT ![s].status = status]
  PROVE  sess' \in [Session -> FxSession] /\ SessionsAsTheyWere
<1>1. sess \in [Session -> FxSession] /\ sess[s] \in FxSession
  BY DEF LoginTypeOK
<1>2. /\ [sess[s] EXCEPT !.status = status] \in FxSession
      /\ [sess[s] EXCEPT !.status = status].kind = sess[s].kind
      /\ [sess[s] EXCEPT !.status = status].port = sess[s].port
  BY <1>1 DEF FxSession
<1>3. sess' = [sess EXCEPT ![s] = [sess[s] EXCEPT !.status = status]]
  OBVIOUS
<1> QED
  BY <1>1, <1>2, <1>3 DEF SessionsAsTheyWere

\* A session that opens was unknown, and the others stay as they are.
LEMMA OpenTyped ==
  ASSUME LoginTypeOK, NEW s \in Session, NEW kind \in {"login", "viewer"}, NEW p \in Port,
         NEW d \in Session, NEW pr \in Project \cup {None}, Open(s, kind, p, d, pr)
  PROVE  /\ sess' \in [Session -> FxSession] /\ calls' \subseteq Call
         /\ sess[s].kind = "none" /\ sess'[s].kind = kind /\ sess'[s].port = p
         /\ \A t \in Session : t # s => sess'[t] = sess[t]
         /\ \A c \in calls' : c \in calls \/ (c.op = "launch" /\ c.s = s /\ c.at = "run")
<1> DEFINE new == [kind |-> kind, port |-> p, dir |-> d, project |-> pr, status |-> "starting"]
<1>1. new \in FxSession /\ new.kind = kind /\ new.port = p
  BY PortAssumption DEF FxSession
<1>2. sess' = [sess EXCEPT ![s] = new] /\ sess[s].kind = "none"
  BY DEF Open
<1>3. NewCall("launch", s, "run") \in Call
  BY DEF NewCall, Call
<1>4. calls' = calls \cup {NewCall("launch", s, "run")}
  BY DEF Open
<1> HIDE DEF new
<1>5. sess' \in [Session -> FxSession] /\ sess'[s] = new
  BY <1>1, <1>2 DEF LoginTypeOK
<1>6. \A t \in Session : t # s => sess'[t] = sess[t]
  BY <1>2 DEF LoginTypeOK
<1> QED
  BY <1>1, <1>2, <1>3, <1>4, <1>5, <1>6 DEF LoginTypeOK, NewCall

LEMMA ViewerPorts ==
  ASSUME LoginTypeOK, NEW a \in Account
  PROVE  WithoutViewer(a) \subseteq usedPort
BY DEF WithoutViewer

-----------------------------------------------------------------------------
(* HandlersKeep that go on *)

\* A handler that goes on or returns, frees a port that its session marked, or removes a
\* container.
LEMMA Quiet ==
  ASSUME LoginInv, SessionsAsTheyWere, calls' \subseteq Call, containers' \subseteq containers,
         sessions' = sessions, inspects' = inspects, usedPort' \subseteq usedPort,
         \A d \in calls' : \E c \in calls :
           /\ d.s = c.s /\ d.op = c.op
           /\ d.at = "drop" => c.at = "drop" \/ d.s \notin containers'
  PROVE  Opened' /\ Launching' /\ Dropping' /\ NothingLeaks'
<1>1. LoginTypeOK /\ Opened /\ Launching /\ Dropping /\ NothingLeaks
  BY DEF LoginInv
<1>2. /\ \A s \in Session : sess'[s].kind = sess[s].kind /\ sess'[s].port = sess[s].port
      /\ \A d \in calls : d.s \in Session
      /\ \A d \in calls' : d.s \in Session
  BY <1>1, CallTyped DEF SessionsAsTheyWere, Call
<1>3. Opened'
  BY <1>1, <1>2 DEF Opened, LoginTypeOK
<1>4. Launching'
  BY <1>1, <1>2 DEF Launching
<1>5. Dropping'
  BY <1>1, <1>2 DEF Dropping
<1>6. Held' = Held /\ \A s \in Held : s \in Session
  BY <1>1 DEF Held, LoginTypeOK
<1>7. NothingLeaks'
  BY <1>1, <1>2, <1>6 DEF NothingLeaks, LoginTypeOK
<1> QED
  BY <1>3, <1>4, <1>5, <1>7

LEMMA StageIs ==
  ASSUME NEW c \in Call, NEW at
  PROVE  Stage(c, at).s = c.s /\ Stage(c, at).op = c.op /\ Stage(c, at).at = at
BY DEF Stage, Call

LEMMA HandlersKeep ==
  ASSUME LoginInv, NEW c \in calls,
         \/ BecomesReady(c) \/ Fail(c) \/ RemoveContainer(c) \/ FinishSession(c)
         \/ RemoveProfile(c) \/ Persisted(c)
  PROVE  LoginInv'
<1>1. LoginTypeOK /\ c \in Call /\ c.s \in Session /\ sess[c.s].dir \in Session
  BY CallTyped DEF LoginInv
<1>2. CASE BecomesReady(c)
  <2>1. sess' \in [Session -> FxSession] /\ SessionsAsTheyWere
    BY <1>1, <1>2, StatusTyped DEF BecomesReady
  <2>2. LoginTypeOK'
    BY <1>1, <1>2, <2>1 DEF BecomesReady, Returns, LoginTypeOK
  <2>3. \A d \in calls' : d \in calls
    BY <1>2 DEF BecomesReady, Returns
  <2> QED
    BY <1>2, <2>1, <2>2, <2>3, Quiet DEF BecomesReady, LoginInv, LoginTypeOK
<1>3. CASE Fail(c)
  <2>1. sess' \in [Session -> FxSession] /\ SessionsAsTheyWere
    BY <1>1, <1>3, StatusTyped DEF Fail
  <2>2. calls' \subseteq Call
    BY <1>1, <1>3, GoesTyped DEF Fail
  <2>3. LoginTypeOK'
    BY <1>1, <1>3, <2>1, <2>2 DEF Fail, LoginTypeOK
  <2>4. \A d \in calls' : d \in calls \/ (d.s = c.s /\ d.op = c.op /\ d.at = "reap")
    BY <1>1, <1>3, StageIs DEF Fail, Goes
  <2> QED
    BY <1>3, <2>1, <2>2, <2>3, <2>4, Quiet DEF Fail, LoginInv
<1>4. CASE RemoveContainer(c)
  <2>1. SessionsAsTheyWere
    BY <1>4 DEF RemoveContainer, SessionsAsTheyWere
  <2>2. calls' \subseteq Call
    BY <1>1, <1>4, GoesTyped DEF RemoveContainer, Returns, LoginTypeOK
  <2>3. LoginTypeOK'
    BY <1>1, <1>4, <2>2 DEF RemoveContainer, LoginTypeOK
  <2>4. \A d \in calls' : d \in calls \/ (d.s = c.s /\ d.op = c.op)
    BY <1>1, <1>4, StageIs DEF RemoveContainer, Goes, Returns
  <2>5. c.s \notin containers'
    BY <1>4 DEF RemoveContainer
  <2> QED
    BY <1>4, <2>1, <2>2, <2>3, <2>4, <2>5, Quiet DEF RemoveContainer, LoginInv
<1>5. CASE FinishSession(c)
  <2>1. sess' \in [Session -> FxSession] /\ SessionsAsTheyWere
    BY <1>1, <1>5, StatusTyped DEF FinishSession
  <2>2. calls' \subseteq Call
    BY <1>1, <1>5, GoesTyped DEF FinishSession
  <2>3. LoginTypeOK'
    BY <1>1, <1>5, <2>1, <2>2 DEF FinishSession, LoginTypeOK
  <2>4. \A d \in calls' : d \in calls \/ (d.s = c.s /\ d.op = c.op /\ d.at = "persist")
    BY <1>1, <1>5, StageIs DEF FinishSession, Goes
  <2> QED
    BY <1>5, <2>1, <2>2, <2>3, <2>4, Quiet DEF FinishSession, LoginInv
<1>6. CASE RemoveProfile(c) \/ Persisted(c)
  <2>1. SessionsAsTheyWere /\ calls' \subseteq calls
    BY <1>6 DEF RemoveProfile, Persisted, Returns, SessionsAsTheyWere
  <2>2. LoginTypeOK'
    BY <1>1, <1>6, <2>1 DEF RemoveProfile, Persisted, LoginTypeOK
  <2> QED
    BY <1>6, <2>1, <2>2, Quiet DEF RemoveProfile, Persisted, LoginInv, LoginTypeOK
<1> QED
  BY <1>2, <1>3, <1>4, <1>5, <1>6

\* docker run starts the container of a login that is in the map.
LEMMA Launches ==
  ASSUME LoginInv, NEW c \in calls, Launch(c)
  PROVE  LoginInv'
<1>1. /\ LoginTypeOK /\ Opened /\ Launching /\ Dropping /\ NothingLeaks
      /\ c \in Call /\ c.s \in Session /\ sess[c.s].dir \in Session
  BY CallTyped DEF LoginInv
<1>2. /\ c.op = "launch" /\ containers' = containers \cup {c.s}
      /\ UNCHANGED <<sess, sessions, inspects, usedPort>>
  BY DEF Launch
<1>3. calls' \subseteq Call
  BY <1>1, GoesTyped DEF Launch
<1>4. LoginTypeOK'
  BY <1>1, <1>2, <1>3 DEF Launch, LoginTypeOK
<1>5. \A d \in calls' : d \in calls \/ (d.s = c.s /\ d.op = "launch")
  BY <1>1, <1>2, StageIs DEF Launch, Goes
<1>6. Opened'
  BY <1>1, <1>2, <1>5 DEF Opened
<1>7. Launching'
  BY <1>1, <1>2, <1>5 DEF Launching
<1>8. Dropping'
  BY <1>1, <1>2, <1>5 DEF Dropping, Launching
<1>9. NothingLeaks'
  BY <1>1, <1>2 DEF NothingLeaks, Held, Launching
<1> QED
  BY <1>4, <1>6, <1>7, <1>8, <1>9 DEF LoginInv

\* cancel drops a login that no longer runs, and its port.
LEMMA Drops ==
  ASSUME LoginInv, NEW c \in calls, DropSession(c)
  PROVE  LoginInv'
<1>1. /\ LoginTypeOK /\ Opened /\ Launching /\ Dropping /\ NothingLeaks
      /\ c \in Call /\ c.s \in Session
  BY CallTyped DEF LoginInv
<1>2. /\ c.op = "cancel" /\ c.at = "drop"
      /\ usedPort' = usedPort \ {sess[c.s].port} /\ sessions' = sessions \ {c.s}
      /\ UNCHANGED <<sess, inspects, containers, dirs>>
  BY DEF DropSession
<1>3. calls' \subseteq Call
  BY <1>1, GoesTyped DEF DropSession
<1>4. LoginTypeOK'
  BY <1>1, <1>2, <1>3 DEF LoginTypeOK
<1>5. \A d \in calls' : d \in calls \/ (d.s = c.s /\ d.op = "cancel" /\ d.at = "wipe")
  BY <1>1, <1>2, StageIs DEF DropSession, Goes
<1>6. Opened'
  BY <1>1, <1>2, <1>5 DEF Opened
<1>7. Launching'
  BY <1>1, <1>2, <1>5 DEF Launching
<1>8. Dropping'
  BY <1>1, <1>2, <1>5 DEF Dropping
<1>9. \A s \in Held : s # c.s => s \in Held'
  BY <1>2 DEF Held
<1>10. NothingLeaks'
  <2>1. \A p \in usedPort' : \E s \in Held' : sess'[s].port = p
    BY <1>1, <1>2, <1>9 DEF NothingLeaks
  <2>2. \A s \in containers' : sess'[s].kind = "login" => s \in sessions'
    BY <1>1, <1>2 DEF NothingLeaks, Dropping
  <2> QED
    BY <2>1, <2>2 DEF NothingLeaks
<1> QED
  BY <1>4, <1>6, <1>7, <1>8, <1>10 DEF LoginInv

-----------------------------------------------------------------------------
(* Requests *)

LEMMA LoginOpens ==
  ASSUME LoginInv, NEW s \in Session, NEW p \in Port, NEW pr \in Project \cup {None},
         StartLogin(s, p, pr)
  PROVE  LoginInv'
<1>1. LoginTypeOK /\ Opened /\ Launching /\ Dropping /\ NothingLeaks
  BY DEF LoginInv
<1>2. /\ sessions' = sessions \cup {s} /\ usedPort' = usedPort \cup {p}
      /\ UNCHANGED <<inspects, containers, dirs>> /\ Open(s, "login", p, s, pr)
  BY DEF StartLogin
<1>3. /\ sess' \in [Session -> FxSession] /\ calls' \subseteq Call
      /\ sess[s].kind = "none" /\ sess'[s].kind = "login" /\ sess'[s].port = p
      /\ \A t \in Session : t # s => sess'[t] = sess[t]
      /\ \A c \in calls' : c \in calls \/ (c.op = "launch" /\ c.s = s /\ c.at = "run")
  BY <1>1, <1>2, OpenTyped
<1>4. LoginTypeOK'
  BY <1>1, <1>2, <1>3 DEF LoginTypeOK
<1>5. /\ s \notin sessions /\ s \notin containers
      /\ \A c \in calls : c.s # s /\ c.s \in Session
      /\ \A a \in Account : inspects[a] # s
  BY <1>1, <1>3, NoneAssumption, CallTyped DEF Opened
<1>6. \A t \in sessions \cup containers : t \in Session /\ sess'[t] = sess[t]
  BY <1>1, <1>3, <1>5 DEF LoginTypeOK
<1>7. \A a \in Account : inspects[a] # None => inspects[a] \in Session /\ sess'[inspects[a]] = sess[inspects[a]]
  BY <1>1, <1>3, <1>5 DEF LoginTypeOK
<1>8. Opened'
  BY <1>1, <1>2, <1>3, <1>5, <1>6, <1>7 DEF Opened
<1>9. Launching'
  BY <1>1, <1>2, <1>3, <1>5 DEF Launching
<1>10. Dropping'
  BY <1>1, <1>2, <1>3, <1>5 DEF Dropping
<1>11. \A t \in Held : t \in Held' /\ sess'[t] = sess[t]
  BY <1>2, <1>6, <1>7 DEF Held
<1>12. NothingLeaks'
  <2>1. s \in Held'
    BY <1>2 DEF Held
  <2> QED
    BY <1>1, <1>2, <1>3, <1>6, <1>11, <2>1 DEF NothingLeaks
<1> QED
  BY <1>4, <1>8, <1>9, <1>10, <1>12 DEF LoginInv

\* The viewers of the other accounts still hold the ports that are left once one is dropped.
LEMMA OthersHold ==
  ASSUME LoginInv, NEW a \in Account, NEW s,
         sessions' = sessions, inspects' = [inspects EXCEPT ![a] = s]
  PROVE  \A p \in WithoutViewer(a) : \E t \in Held : t \in Held' /\ t \in Session /\ sess[t].port = p
<1>1. LoginTypeOK /\ NothingLeaks
  BY DEF LoginInv
<1>2. \A b \in Account : b # a => inspects'[b] = inspects[b]
  BY <1>1 DEF LoginTypeOK
<1>3. \A t \in Held : t \in Session
  BY <1>1 DEF Held, LoginTypeOK
<1>4. \A t \in Held : t \in Held' \/ (inspects[a] # None /\ t = inspects[a])
  BY <1>2 DEF Held
<1>5. \A p \in WithoutViewer(a) :
        p \in usedPort /\ (inspects[a] # None => p # sess[inspects[a]].port)
  BY DEF WithoutViewer
<1> QED
  BY <1>1, <1>3, <1>4, <1>5 DEF NothingLeaks

LEMMA ViewerOpens ==
  ASSUME LoginInv, NEW a \in Account, NEW s \in Session, NEW d \in Session, NEW p \in Port,
         Inspect(a, s, d, p)
  PROVE  LoginInv'
<1>1. LoginTypeOK /\ Opened /\ Launching /\ Dropping /\ NothingLeaks
  BY DEF LoginInv
<1>2. /\ inspects' = [inspects EXCEPT ![a] = s] /\ usedPort' = WithoutViewer(a) \cup {p}
      /\ UNCHANGED <<sessions, containers, dirs>> /\ Open(s, "viewer", p, d, None)
  BY DEF Inspect
<1>3. /\ sess' \in [Session -> FxSession] /\ calls' \subseteq Call
      /\ sess[s].kind = "none" /\ sess'[s].kind = "viewer" /\ sess'[s].port = p
      /\ \A t \in Session : t # s => sess'[t] = sess[t]
      /\ \A c \in calls' : c \in calls \/ (c.op = "launch" /\ c.s = s /\ c.at = "run")
  BY <1>1, <1>2, OpenTyped
<1>4. LoginTypeOK'
  BY <1>1, <1>2, <1>3, ViewerPorts DEF LoginTypeOK
<1>5. /\ s \notin sessions /\ s \notin containers
      /\ \A c \in calls : c.s # s /\ c.s \in Session
      /\ \A b \in Account : inspects[b] # s
  BY <1>1, <1>3, NoneAssumption, CallTyped DEF Opened
<1>6. \A t \in sessions \cup containers : t \in Session /\ sess'[t] = sess[t]
  BY <1>1, <1>3, <1>5 DEF LoginTypeOK
<1>7. \A b \in Account : b # a => inspects'[b] = inspects[b]
  BY <1>1, <1>2 DEF LoginTypeOK
<1>8. inspects'[a] = s /\ s # None
  BY <1>1, <1>2, NoneAssumption DEF LoginTypeOK
<1>9. Opened'
  <2>1. \A b \in Account : inspects'[b] # None => sess'[inspects'[b]].kind = "viewer"
    BY <1>1, <1>3, <1>5, <1>7, <1>8 DEF Opened, LoginTypeOK
  <2> QED
    BY <1>1, <1>2, <1>3, <1>5, <1>6, <2>1 DEF Opened
<1>10. Launching'
  BY <1>1, <1>2, <1>3, <1>5 DEF Launching
<1>11. Dropping'
  BY <1>1, <1>2, <1>3, <1>5 DEF Dropping
<1>12. NothingLeaks'
  <2>1. s \in Held'
    BY <1>8 DEF Held
  <2>2. \A t \in Held : t # s
    BY <1>5 DEF Held
  <2>3. \A q \in usedPort' : \E t \in Held' : sess'[t].port = q
    <3>1. \A q \in WithoutViewer(a) :
            \E t \in Held : t \in Held' /\ t \in Session /\ sess[t].port = q
      BY <1>2, OthersHold
    <3> QED
      BY <1>2, <1>3, <2>1, <2>2, <3>1
  <2> QED
    BY <1>1, <1>2, <1>6, <2>3 DEF NothingLeaks
<1> QED
  BY <1>4, <1>9, <1>10, <1>11, <1>12 DEF LoginInv

\* A viewer goes, with its port.
LEMMA ViewersGo ==
  ASSUME LoginInv, NEW a \in Account, InspectRefused(a) \/ StopInspect(a)
  PROVE  LoginInv'
<1>1. LoginTypeOK /\ Opened /\ Launching /\ Dropping /\ NothingLeaks
  BY DEF LoginInv
<1>2. /\ inspects' = [inspects EXCEPT ![a] = None] /\ usedPort' = WithoutViewer(a)
      /\ UNCHANGED <<sess, sessions, containers, dirs>>
  BY DEF InspectRefused, StopInspect, WithoutViewer
<1>3. \A c \in calls' : \/ c \in calls
                        \/ /\ c \in Call /\ c.op = "close" /\ c.at = "reap"
                           /\ sess[c.s].kind = "viewer"
  <2>1. CASE InspectRefused(a)
    BY <2>1 DEF InspectRefused
  <2>2. CASE StopInspect(a)
    <3>1. inspects[a] \in Session /\ sess[inspects[a]].kind = "viewer"
      BY <1>1, <2>2 DEF StopInspect, LoginTypeOK, Opened
    <3> QED
      BY <2>2, <3>1 DEF StopInspect, NewCall, Call
  <2> QED
    BY <2>1, <2>2
<1>4. LoginTypeOK'
  BY <1>1, <1>2, <1>3, ViewerPorts DEF LoginTypeOK
<1>5. Opened'
  <2>1. \A b \in Account : inspects'[b] # None => inspects[b] = inspects'[b]
    BY <1>1, <1>2 DEF LoginTypeOK
  <2> QED
    BY <1>1, <1>2, <1>3, <2>1 DEF Opened
<1>6. Launching'
  BY <1>1, <1>2, <1>3 DEF Launching
<1>7. Dropping'
  BY <1>1, <1>2, <1>3 DEF Dropping
<1>8. NothingLeaks'
  <2>1. \A p \in usedPort' : \E t \in Held : t \in Held' /\ t \in Session /\ sess[t].port = p
    BY <1>2, OthersHold
  <2> QED
    BY <1>1, <1>2, <2>1 DEF NothingLeaks
<1> QED
  BY <1>4, <1>5, <1>6, <1>7, <1>8 DEF LoginInv

LEMMA SessionEnds ==
  ASSUME LoginInv, NEW s \in Session, Finish(s) \/ Cancel(s)
  PROVE  LoginInv'
<1>1. LoginTypeOK /\ Opened /\ Launching /\ Dropping /\ NothingLeaks
  BY DEF LoginInv
<1>2. /\ UNCHANGED <<sess, sessions, inspects, usedPort, containers, dirs>>
      /\ s \in sessions /\ \A c \in calls : c.s = s => c.op # "launch"
  BY DEF Finish, Cancel, Known
<1>3. \A c \in calls' : \/ c \in calls
                        \/ c \in Call /\ c.s = s /\ c.op # "launch" /\ c.at = "stop"
  <2>1. PICK op \in {"finish", "cancel"} : calls' = calls \cup {NewCall(op, s, "stop")}
    BY DEF Finish, Cancel
  <2> DEFINE new == NewCall(op, s, "stop")
  <2>2. new \in Call /\ new.s = s /\ new.op = op /\ new.at = "stop"
    BY DEF NewCall, Call
  <2>3. op # "launch"
    BY <2>1
  <2> HIDE DEF new
  <2>4. calls' = calls \cup {new}
    BY <2>1 DEF new
  <2> QED
    BY <2>2, <2>3, <2>4
<1>4. LoginTypeOK'
  BY <1>1, <1>2, <1>3 DEF LoginTypeOK
<1>5. Opened'
  BY <1>1, <1>2, <1>3 DEF Opened
<1>6. Launching'
  BY <1>1, <1>2, <1>3 DEF Launching
<1>7. Dropping'
  BY <1>1, <1>2, <1>3 DEF Dropping
<1>8. NothingLeaks'
  BY <1>1, <1>2 DEF NothingLeaks, Held
<1> QED
  BY <1>4, <1>5, <1>6, <1>7, <1>8 DEF LoginInv

LEMMA Restarts ==
  ASSUME LoginInv, RestartApi
  PROVE  LoginInv'
<1>1. LoginTypeOK /\ Opened
  BY DEF LoginInv
<1>2. /\ sessions' = {} /\ inspects' = [a \in Account |-> None] /\ usedPort' = {}
      /\ calls' = {} /\ containers' = {s \in containers : sess[s].kind = "viewer"}
      /\ UNCHANGED <<sess, dirs>>
  BY DEF RestartApi
<1>3. LoginTypeOK'
  BY <1>1, <1>2 DEF LoginTypeOK
<1>4. Opened' /\ Launching' /\ Dropping'
  BY <1>1, <1>2 DEF Opened, Launching, Dropping
<1>5. NothingLeaks'
  BY <1>2 DEF NothingLeaks
<1> QED
  BY <1>3, <1>4, <1>5 DEF LoginInv

-----------------------------------------------------------------------------
LEMMA LoginStarts == LoginInit => LoginInv
<1> SUFFICES ASSUME LoginInit PROVE LoginInv
  OBVIOUS
<1>1. \A s \in Session :
        [kind |-> "none", port |-> 0, dir |-> s, project |-> None, status |-> "starting"]
          \in FxSession
  BY DEF FxSession
<1>2. LoginTypeOK
  BY <1>1 DEF LoginInit, LoginTypeOK
<1>3. Opened /\ Launching /\ Dropping
  BY DEF LoginInit, Opened, Launching, Dropping
<1>4. NothingLeaks
  BY DEF LoginInit, NothingLeaks
<1> QED
  BY <1>2, <1>3, <1>4 DEF LoginInv

LEMMA LoginKeeps ==
  ASSUME LoginInv, [LoginNext]_loginVars
  PROVE  LoginInv'
<1>1. CASE UNCHANGED loginVars
  BY <1>1 DEF loginVars, LoginInv, LoginTypeOK, Opened, Launching, Dropping, NothingLeaks, Held
<1>2. ASSUME NEW c \in calls, Proceed(c) \/ Persisted(c) PROVE LoginInv'
  BY <1>2, HandlersKeep, Launches, Drops DEF Proceed
<1> QED
  BY <1>1, <1>2, LoginOpens, ViewerOpens, ViewersGo, SessionEnds, Restarts DEF LoginNext

\* The invariant of the sign-in sessions holds however their handlers interleave, fail and are
\* cut off (firefox_login.go).
THEOREM LoginInvariant == LoginSpec => []LoginInv
BY LoginStarts, LoginKeeps, PTL DEF LoginSpec

\* The maps, containers and handlers keep their types.
THEOREM LoginTyped == LoginSpec => []LoginTypeOK
BY LoginInvariant, PTL DEF LoginInv

\* No port stays marked and no login's container runs without a session to answer for it.
THEOREM NothingIsLeaked == LoginSpec => []NothingLeaks
BY LoginInvariant, PTL DEF LoginInv

(***************************************************************************)
(* The audio library                                                       *)
(***************************************************************************)

\* What makes TrackHasObject inductive: a track is sent once, until its row is inserted no
\* other handler is at work on it, and what is about to be removed has no row, or one whose
\* commit the handler did not hear of.
CallsKnow ==
  /\ \A t \in Track : Stored(t) => t \in begun
  /\ \A c \in audioCalls :
       /\ c.t \in begun
       /\ c.at = "insert" => /\ ~Stored(c.t) /\ c.t \in objects
                             /\ \A d \in audioCalls : d.t = c.t => d = c
       /\ c.at \in {"cleanup", "remove"} => ~Stored(c.t) \/ c.t \in unacked

AudioInv == AudioTypeOK /\ CallsKnow /\ TrackHasObject

-----------------------------------------------------------------------------
(* Types *)

LEMMA StageTyped ==
  ASSUME AudioTypeOK, NEW c \in audioCalls, NEW at \in {"cleanup", "patch"}, AudioGoes(c, at)
  PROVE  audioCalls' \subseteq AudioCall
<1>1. c \in AudioCall
  BY DEF AudioTypeOK
<1>2. [c EXCEPT !.at = at] \in AudioCall
  BY <1>1 DEF AudioCall
<1> QED
  BY <1>2 DEF AudioGoes, AudioTypeOK

LEMMA AudioTypes ==
  ASSUME AudioTypeOK, [AudioNext]_audioVars
  PROVE  AudioTypeOK'
<1> USE DEF AudioTypeOK
<1>1. CASE UNCHANGED audioVars
  BY <1>1 DEF audioVars
<1>2. ASSUME NEW t \in Track, PutFails(t) \/ RetagTrack(t) \/ DeleteTrack(t)
      PROVE  AudioTypeOK'
  <2>1. CASE PutFails(t)
    BY <2>1 DEF PutFails
  <2>2. CASE RetagTrack(t)
    <3>1. tracks[t] \in TrackRow
      BY <2>2 DEF RetagTrack, Stored
    <3>2. [tracks[t] EXCEPT !.tags = "edited"] \in TrackRow
      BY <3>1 DEF TrackRow
    <3> QED
      BY <2>2, <3>2 DEF RetagTrack
  <2>3. CASE DeleteTrack(t)
    <3>1. tracks[t] \in TrackRow
      BY <2>3 DEF DeleteTrack, Stored
    <3>2. [t |-> t, project |-> tracks[t].project, import |-> FALSE, at |-> "remove"]
            \in AudioCall
      BY <3>1 DEF TrackRow, AudioCall
    <3>3. audioCalls' \subseteq AudioCall
      BY <2>3, <3>2 DEF DeleteTrack
    <3> QED
      BY <2>3, <3>3 DEF DeleteTrack
  <2> QED
    BY <1>2, <2>1, <2>2, <2>3
<1>3. ASSUME NEW t \in Track, NEW p \in Project \cup {None}, NEW import \in BOOLEAN,
             PutObject(t, p, import)
      PROVE  AudioTypeOK'
  <2>1. [t |-> t, project |-> p, import |-> import, at |-> "insert"] \in AudioCall
    BY <1>3 DEF AudioCall
  <2> QED
    BY <1>3, <2>1 DEF PutObject
<1>4. ASSUME NEW c \in audioCalls, NEW known \in SUBSET Project, AudioStep(c, known)
      PROVE  AudioTypeOK'
  <2>1. c \in AudioCall /\ c.t \in Track
    BY DEF AudioCall
  <2>2. CASE InsertTrack(c, known)
    <3>1. [project |-> c.project, source |-> "manual", tags |-> "given"] \in TrackRow
      BY <2>1, <2>2 DEF InsertTrack, TrackRow
    <3>2. tracks' \in [Track -> TrackRow \cup {NoTrack}]
      BY <2>2, <3>1 DEF InsertTrack
    <3>3. audioCalls' \subseteq AudioCall
      BY <2>2, StageTyped DEF InsertTrack, AudioReturns
    <3> QED
      BY <2>1, <2>2, <3>2, <3>3 DEF InsertTrack
  <2>3. CASE InsertFails(c)
    <3>1. audioCalls' \subseteq AudioCall
      BY <2>3, StageTyped DEF InsertFails
    <3> QED
      BY <2>3, <3>1 DEF InsertFails
  <2>4. CASE RemoveObject(c)
    BY <2>4 DEF RemoveObject, AudioReturns
  <2>5. CASE PatchSource(c)
    <3>1. ASSUME Stored(c.t) PROVE [tracks[c.t] EXCEPT !.source = "imported"] \in TrackRow
      BY <2>1, <3>1 DEF Stored, TrackRow
    <3>2. tracks' \in [Track -> TrackRow \cup {NoTrack}]
      BY <2>5, <3>1 DEF PatchSource
    <3> QED
      BY <2>5, <3>2 DEF PatchSource, AudioReturns
  <2> QED
    BY <1>4, <2>2, <2>3, <2>4, <2>5 DEF AudioStep
<1>5. ASSUME NEW p \in Project, CascadeTracks(p) PROVE AudioTypeOK'
  BY <1>5 DEF CascadeTracks
<1>6. CASE CrashAudio
  BY <1>6 DEF CrashAudio
<1> QED
  BY <1>1, <1>2, <1>3, <1>4, <1>5, <1>6 DEF AudioNext

-----------------------------------------------------------------------------
(* Rows, objects and handlers *)

\* A step that stores no track, takes away no object that is needed, and starts no handler:
\* all there is to see of most of them.
LEMMA LessKnows ==
  ASSUME AudioInv, AudioTypeOK',
         \A u \in Track : Stored(u)' => Stored(u),
         audioCalls' \subseteq audioCalls,
         objects \subseteq objects', begun \subseteq begun', unacked \subseteq unacked'
  PROVE  CallsKnow' /\ TrackHasObject'
<1>1. \A c \in audioCalls : c.t \in Track
  BY DEF AudioInv, AudioTypeOK, AudioCall
<1>2. CallsKnow'
  BY <1>1 DEF AudioInv, CallsKnow
<1>3. TrackHasObject'
  BY DEF AudioInv, TrackHasObject
<1> QED
  BY <1>2, <1>3

LEMMA PutKnows ==
  ASSUME AudioInv, NEW t \in Track, NEW p, NEW import, PutObject(t, p, import)
  PROVE  CallsKnow' /\ TrackHasObject'
<1> DEFINE new == [t |-> t, project |-> p, import |-> import, at |-> "insert"]
<1>1. /\ t \notin begun /\ begun' = begun \cup {t} /\ objects' = objects \cup {t}
      /\ audioCalls' = audioCalls \cup {new}
      /\ tracks' = tracks /\ unacked' = unacked
  BY DEF PutObject
<1>2. \A u \in Track : Stored(u)' <=> Stored(u)
  BY <1>1 DEF Stored
<1>3. \A c \in audioCalls : c.t \in Track /\ c.t # t
  BY <1>1 DEF AudioInv, AudioTypeOK, AudioCall, CallsKnow
<1>4. ~Stored(t)
  BY <1>1 DEF AudioInv, CallsKnow
<1>5. new.t = t /\ new.at = "insert"
  OBVIOUS
<1>6. \A c \in audioCalls' : c = new \/ c \in audioCalls
  BY <1>1
<1> HIDE DEF new
<1>7. CallsKnow'
  <2>1. \A u \in Track : Stored(u)' => u \in begun'
    BY <1>1, <1>2 DEF AudioInv, CallsKnow
  <2>2. ASSUME NEW c \in audioCalls
        PROVE  /\ c.t \in begun'
               /\ c.at = "insert" => /\ ~Stored(c.t)' /\ c.t \in objects'
                                     /\ \A d \in audioCalls' : d.t = c.t => d = c
               /\ c.at \in {"cleanup", "remove"} => ~Stored(c.t)' \/ c.t \in unacked'
    BY <1>1, <1>2, <1>3, <1>5, <1>6 DEF AudioInv, CallsKnow
  <2>3. ~Stored(new.t)' /\ \A d \in audioCalls' : d.t = new.t => d = new
    BY <1>2, <1>3, <1>4, <1>5, <1>6
  <2> QED
    BY <1>1, <1>5, <1>6, <2>1, <2>2, <2>3 DEF CallsKnow
<1>8. TrackHasObject'
  BY <1>1, <1>2 DEF AudioInv, TrackHasObject
<1> QED
  BY <1>7, <1>8

LEMMA InsertKnows ==
  ASSUME AudioInv, NEW c \in audioCalls, NEW known, InsertTrack(c, known)
  PROVE  CallsKnow' /\ TrackHasObject'
<1>1. /\ c.at = "insert" /\ c.t \in Track /\ c.t \in objects /\ c.t \in begun
      /\ \A d \in audioCalls : d.t = c.t => d = c
  BY DEF AudioInv, AudioTypeOK, AudioCall, CallsKnow, InsertTrack
<1>2. /\ objects' = objects /\ begun' = begun
      /\ \A u \in Track : u # c.t => (Stored(u)' <=> Stored(u))
  BY DEF AudioInv, AudioTypeOK, InsertTrack, Stored
<1>3. unacked \subseteq unacked'
  BY DEF InsertTrack
<1>4. \A d \in audioCalls' : \/ d \in audioCalls /\ d # c
                             \/ d.t = c.t /\ d.at = "patch"
                             \/ d.t = c.t /\ d.at = "cleanup" /\ c.t \in unacked'
  BY DEF InsertTrack, AudioGoes, AudioReturns, AudioInv, AudioTypeOK, AudioCall
<1>5. \A d \in audioCalls : d # c => d.t \in Track /\ d.t # c.t
  BY <1>1 DEF AudioInv, AudioTypeOK, AudioCall
<1>6. CallsKnow'
  <2>1. \A u \in Track : Stored(u)' => u \in begun'
    BY <1>1, <1>2 DEF AudioInv, CallsKnow
  <2>2. ASSUME NEW d \in audioCalls'
        PROVE  /\ d.t \in begun'
               /\ d.at = "insert" => /\ ~Stored(d.t)' /\ d.t \in objects'
                                     /\ \A e \in audioCalls' : e.t = d.t => e = d
               /\ d.at \in {"cleanup", "remove"} => ~Stored(d.t)' \/ d.t \in unacked'
    <3>1. CASE d \in audioCalls /\ d # c
      BY <1>2, <1>3, <1>4, <1>5, <3>1 DEF AudioInv, CallsKnow
    <3>2. CASE d.t = c.t /\ d.at = "patch"
      BY <1>1, <1>2, <3>2
    <3>3. CASE d.t = c.t /\ d.at = "cleanup" /\ c.t \in unacked'
      BY <1>1, <1>2, <3>3
    <3> QED
      BY <1>4, <3>1, <3>2, <3>3
  <2> QED
    BY <2>1, <2>2 DEF CallsKnow
<1>7. TrackHasObject'
  BY <1>1, <1>2, <1>3 DEF AudioInv, TrackHasObject
<1> QED
  BY <1>6, <1>7

LEMMA FailKnows ==
  ASSUME AudioInv, NEW c \in audioCalls, InsertFails(c)
  PROVE  CallsKnow' /\ TrackHasObject'
<1>1. c.at = "insert" /\ c.t \in Track /\ ~Stored(c.t) /\ c.t \in begun
  BY DEF AudioInv, AudioTypeOK, AudioCall, CallsKnow, InsertFails
<1>2. /\ objects' = objects /\ begun' = begun /\ unacked' = unacked
      /\ \A u \in Track : Stored(u)' <=> Stored(u)
  BY DEF InsertFails, Stored
<1>3. \A d \in audioCalls' : \/ d \in audioCalls /\ d # c
                             \/ d.t = c.t /\ d.at = "cleanup"
  BY DEF InsertFails, AudioGoes, AudioInv, AudioTypeOK, AudioCall
<1>4. \A d \in audioCalls : d # c => d.t \in Track /\ d.t # c.t
  BY <1>1 DEF AudioInv, AudioTypeOK, AudioCall, CallsKnow
<1>5. CallsKnow'
  BY <1>1, <1>2, <1>3, <1>4 DEF AudioInv, CallsKnow
<1>6. TrackHasObject'
  BY <1>2 DEF AudioInv, TrackHasObject
<1> QED
  BY <1>5, <1>6

LEMMA RemoveKnows ==
  ASSUME AudioInv, NEW c \in audioCalls, RemoveObject(c)
  PROVE  CallsKnow' /\ TrackHasObject'
<1>1. /\ c.at \in {"cleanup", "remove"} /\ c.t \in Track
      /\ ~Stored(c.t) \/ c.t \in unacked
  BY DEF AudioInv, AudioTypeOK, AudioCall, CallsKnow, RemoveObject
<1>2. /\ begun' = begun /\ unacked' = unacked
      /\ \A u \in Track : Stored(u)' <=> Stored(u)
      /\ audioCalls' \subseteq audioCalls
      /\ \A u \in objects : u # c.t => u \in objects'
  BY DEF RemoveObject, AudioReturns, Stored
<1>3. \A d \in audioCalls : d.t \in Track
  BY DEF AudioInv, AudioTypeOK, AudioCall
<1>4. ASSUME NEW d \in audioCalls, d.at = "insert" PROVE d.t # c.t
  BY <1>1, <1>4 DEF AudioInv, CallsKnow
<1>5. CallsKnow'
  BY <1>2, <1>3, <1>4 DEF AudioInv, CallsKnow
<1>6. TrackHasObject'
  BY <1>1, <1>2 DEF AudioInv, TrackHasObject
<1> QED
  BY <1>5, <1>6

LEMMA DeleteKnows ==
  ASSUME AudioInv, NEW t \in Track, DeleteTrack(t)
  PROVE  CallsKnow' /\ TrackHasObject'
<1> DEFINE new == [t |-> t, project |-> tracks[t].project, import |-> FALSE, at |-> "remove"]
<1>1. /\ Stored(t) /\ objects' = objects /\ begun' = begun /\ unacked' = unacked
      /\ audioCalls' \subseteq audioCalls \cup {new}
      /\ new.t = t /\ new.at = "remove"
  BY DEF DeleteTrack
<1>2. ~Stored(t)' /\ \A u \in Track : Stored(u)' => Stored(u)
  BY DEF AudioInv, AudioTypeOK, DeleteTrack, Stored
<1> HIDE DEF new
<1>3. t \in begun
  BY <1>1 DEF AudioInv, CallsKnow
<1>4. \A d \in audioCalls : d.t \in Track /\ (d.at = "insert" => d.t # t)
  BY <1>1 DEF AudioInv, AudioTypeOK, AudioCall, CallsKnow
<1>5. CallsKnow'
  BY <1>1, <1>2, <1>3, <1>4 DEF AudioInv, CallsKnow
<1>6. TrackHasObject'
  BY <1>1, <1>2 DEF AudioInv, TrackHasObject
<1> QED
  BY <1>5, <1>6

-----------------------------------------------------------------------------
LEMMA AudioStarts == AudioInit => AudioInv
BY DEF AudioInit, AudioInv, AudioTypeOK, CallsKnow, TrackHasObject, Stored

LEMMA AudioKeeps ==
  ASSUME AudioInv, [AudioNext]_audioVars
  PROVE  AudioInv'
<1>1. AudioTypeOK'
  BY AudioTypes DEF AudioInv
<1>2. CallsKnow' /\ TrackHasObject'
  <2>1. CASE UNCHANGED audioVars
    BY <1>1, <2>1, LessKnows DEF audioVars, Stored
  <2>2. ASSUME NEW t \in Track, PutFails(t) PROVE CallsKnow' /\ TrackHasObject'
    BY <1>1, <2>2, LessKnows DEF PutFails, Stored
  <2>3. ASSUME NEW t \in Track, RetagTrack(t) PROVE CallsKnow' /\ TrackHasObject'
    <3>1. \A u \in Track : Stored(u)' => Stored(u)
      BY <2>3 DEF RetagTrack, Stored, AudioInv, AudioTypeOK
    <3> QED
      BY <1>1, <2>3, <3>1, LessKnows DEF RetagTrack
  <2>4. ASSUME NEW t \in Track, NEW p \in Project \cup {None}, NEW import \in BOOLEAN,
               PutObject(t, p, import)
        PROVE  CallsKnow' /\ TrackHasObject'
    BY <2>4, PutKnows
  <2>5. ASSUME NEW c \in audioCalls, NEW known \in SUBSET Project, AudioStep(c, known)
        PROVE  CallsKnow' /\ TrackHasObject'
    <3>1. CASE PatchSource(c)
      <4>1. \A u \in Track : Stored(u)' => Stored(u)
        BY <3>1 DEF PatchSource, Stored, AudioInv, AudioTypeOK
      <4> QED
        BY <1>1, <3>1, <4>1, LessKnows DEF PatchSource, AudioReturns
    <3> QED
      BY <2>5, <3>1, InsertKnows, FailKnows, RemoveKnows DEF AudioStep
  <2>6. ASSUME NEW p \in Project, CascadeTracks(p) PROVE CallsKnow' /\ TrackHasObject'
    <3>1. \A u \in Track : Stored(u)' => Stored(u)
      BY <2>6 DEF CascadeTracks, Stored
    <3> QED
      BY <1>1, <2>6, <3>1, LessKnows DEF CascadeTracks
  <2>7. CASE CrashAudio
    BY <1>1, <2>7, LessKnows DEF CrashAudio, Stored
  <2> QED
    BY <2>1, <2>2, <2>3, <2>4, <2>5, <2>6, <2>7, DeleteKnows DEF AudioNext
<1> QED
  BY <1>1, <1>2 DEF AudioInv

\* The invariant of the library holds however uploads, imports, edits, deletions, cascades and
\* crashes interleave (app/command/audiolib/commands.go).
THEOREM AudioInvariant == AudioSpec => []AudioInv
BY AudioStarts, AudioKeeps, PTL DEF AudioSpec

\* The state of the library keeps its types.
THEOREM AudioTyped == AudioSpec => []AudioTypeOK
BY AudioInvariant, PTL DEF AudioInv

\* Every track in the library has its object, unless a commit went unheard.
THEOREM TracksHaveObjects == AudioSpec => []TrackHasObject
BY AudioInvariant, PTL DEF AudioInv

(***************************************************************************)
(* Links between projects and accounts                                     *)
(***************************************************************************)

\* Whatever users and their transactions do to what they keep.
CatalogueNext ==
  \/ \E p \in Project : DropProject(p) \/ UpsertPlot(p)
  \/ \E p \in Project, d \in Defaults : CreateProject(p, d) \/ UpdateProject(p, d)
  \/ \E s \in Sheet : DeleteSheet(s)
  \/ \E s \in Sheet, p \in Project, k \in Kind : CreateSheet(s, p, k)
  \/ \E a \in Account : SetOAuth(a) \/ DropAccount(a)
  \/ \E a \in Account, platform \in Platform, profile \in Session \cup {None} :
       \/ \E p \in Project \cup {None} : CreateAccount(a, platform, profile, p)
       \/ \E extra \in BOOLEAN : EditAccount(a, platform, profile, extra)
  \/ \E p \in Project, a \in Account : Unlink(p, a)
  \/ \E p \in Project, a \in Account, default \in BOOLEAN : BeginLink(p, a, default)
  \/ \E i \in DOMAIN linkTxs : CommitLink(i) \/ AbortLink(i)
  \/ \E t \in Template, steps \in StepLists : CreateTemplate(t, steps)
  \/ \E t \in Template, row \in TemplateRow : ReadTemplate(t, row)
  \/ \E e \in edits : SaveTemplate(e)
  \/ \E f \in FormatId : DeleteFormat(f) \/ \E scope \in {"user", "system"} : SaveFormat(f, scope)
  \/ CrashCatalogue

\* Rows of links and the transactions on them, by what they are about.
Same(l, k) == l.project = k.project /\ l.account = k.account
Rivals(l, k) ==
  l.project = k.project /\ accounts[l.account].platform = accounts[k.account].platform
Excused(l) == <<l.project, accounts[l.account].platform>> \in excused

\* An account is linked to a project once, and is there; whoever links it holds its row.
LinksOnce == \A i, j \in DOMAIN links : Same(links[i], links[j]) => i = j
LinksHaveAccounts == \A i \in DOMAIN links : Exists(accounts, links[i].account)
TxsOnce == \A s, t \in DOMAIN linkTxs : Same(linkTxs[s], linkTxs[t]) => s = t
TxsHaveLinks ==
  \A t \in DOMAIN linkTxs : \E i \in DOMAIN links :
    Same(links[i], linkTxs[t]) /\ links[i].committed = ~linkTxs[t].fresh

UncommittedHaveTxs ==
  \A i \in DOMAIN links : ~links[i].committed => \E t \in DOMAIN linkTxs : Same(links[i], linkTxs[t])

\* A transaction that makes a default clears every other that is one by then...
DefaultsGo ==
  \A t \in DOMAIN linkTxs, i \in DOMAIN links :
    /\ linkTxs[t].default /\ links[i].default /\ links[i].committed
    /\ Rivals(links[i], linkTxs[t]) /\ links[i].account # linkTxs[t].account
    => links[i].account \in linkTxs[t].clears \/ Excused(links[i])

\* ... and, waiting for the rows it clears, those that became one since it began.
DefaultsWait ==
  \A s, t \in DOMAIN linkTxs :
    s < t /\ linkTxs[s].default /\ linkTxs[t].default /\ Rivals(linkTxs[s], linkTxs[t])
    => linkTxs[s].account \in linkTxs[t].clears \/ Excused(linkTxs[t])

LinksInv ==
  /\ CatalogueTypeOK /\ Rows(accounts) \subseteq made
  /\ LinksOnce /\ LinksHaveAccounts /\ TxsOnce /\ TxsHaveLinks /\ UncommittedHaveTxs
  /\ DefaultsGo /\ DefaultsWait /\ OneDefaultButForRaces

-----------------------------------------------------------------------------
(* Types *)

LEMMA RowsTyped ==
  ASSUME CatalogueTypeOK
  PROVE  /\ Len(links) \in Nat /\ DOMAIN links = 1..Len(links)
         /\ \A i \in DOMAIN links : links[i] \in Link
         /\ Len(linkTxs) \in Nat /\ DOMAIN linkTxs = 1..Len(linkTxs)
         /\ \A i \in DOMAIN linkTxs : linkTxs[i] \in LinkTx
         /\ DOMAIN accounts = Account /\ DOMAIN projects = Project
         /\ \A a \in Account : Exists(accounts, a) => accounts[a] \in AccountRow
<1>1. ASSUME NEW S, NEW s \in Seq(S)
      PROVE  Len(s) \in Nat /\ DOMAIN s = 1..Len(s) /\ \A i \in DOMAIN s : s[i] \in S
  BY LenProperties, ElementOfSeq
<1>2. links \in Seq(Link) /\ linkTxs \in Seq(LinkTx)
  BY DEF CatalogueTypeOK
<1> QED
  BY <1>1, <1>2 DEF CatalogueTypeOK, Exists

\* The link of a project and an account is where LinkAt says.
LEMMA LinkFound ==
  ASSUME CatalogueTypeOK, NEW p, NEW a
  PROVE  /\ LinkAt(p, a) # 0 => /\ LinkAt(p, a) \in DOMAIN links
                                /\ links[LinkAt(p, a)].project = p
                                /\ links[LinkAt(p, a)].account = a
         /\ LinkAt(p, a) = 0 => \A i \in DOMAIN links : ~(links[i].project = p /\ links[i].account = a)
<1> DEFINE I == {i \in 1..Len(links) : links[i].project = p /\ links[i].account = a}
<1>1. Len(links) \in Nat /\ DOMAIN links = 1..Len(links)
  BY RowsTyped
<1>2. LinkAt(p, a) = IF I # {} THEN Min(I) ELSE 0
  BY DEF LinkAt, SelectInSeq
<1>3. I \in SUBSET Nat /\ 0 \notin I
  BY <1>1
<1>4. \A i \in I : i \in DOMAIN links /\ links[i].project = p /\ links[i].account = a
  BY <1>1
<1>5. I = {} => \A i \in DOMAIN links : ~(links[i].project = p /\ links[i].account = a)
  BY <1>1
<1> HIDE DEF I
<1> QED
  BY <1>2, <1>3, <1>4, <1>5, Least

LEMMA Appended ==
  ASSUME NEW S, NEW s \in Seq(S), NEW e \in S
  PROVE  /\ Append(s, e) \in Seq(S) /\ Len(s) \in Nat /\ DOMAIN s = 1..Len(s)
         /\ DOMAIN Append(s, e) = 1..(Len(s) + 1)
         /\ \A i \in DOMAIN s : Append(s, e)[i] = s[i]
         /\ Append(s, e)[Len(s) + 1] = e
<1>1. Len(s) \in Nat /\ DOMAIN s = 1..Len(s)
  BY LenProperties
<1>2. /\ Append(s, e) \in Seq(S) /\ Len(Append(s, e)) = Len(s) + 1
      /\ \A i \in 1..Len(s) : Append(s, e)[i] = s[i] /\ Append(s, e)[Len(s) + 1] = e
      /\ Append(s, e)[Len(s) + 1] = e
  BY AppendProperties
<1>3. DOMAIN Append(s, e) = 1..Len(Append(s, e))
  BY <1>2, LenProperties
<1> QED
  BY <1>1, <1>2, <1>3

\* What a transaction begins with, and what it leaves when it commits.
Began(p, a, default, tx, l) ==
  /\ linkTxs' = Append(linkTxs, tx)
  /\ tx.project = p /\ tx.account = a /\ tx.default = default
  /\ tx.fresh = (LinkAt(p, a) = 0)
  /\ tx.clears = IF default THEN Cleared(p, a) ELSE {}
  /\ l.project = p /\ l.account = a /\ l.default = default /\ l.committed = FALSE
  /\ links' = IF tx.fresh THEN Append(links, l) ELSE links

LEMMA BegunTx ==
  ASSUME CatalogueTypeOK, NEW p \in Project, NEW a \in Account, NEW default \in BOOLEAN,
         BeginLink(p, a, default)
  PROVE  \E tx \in LinkTx, l \in Link : Began(p, a, default, tx, l)
<1> DEFINE tx == [project |-> p, account |-> a, default |-> default, fresh |-> LinkAt(p, a) = 0,
                  clears |-> IF default THEN Cleared(p, a) ELSE {}]
           l == [project |-> p, account |-> a, default |-> default, committed |-> FALSE]
<1>1. (IF default THEN Cleared(p, a) ELSE {}) \in SUBSET Account
  BY DEF Cleared
<1>2. tx \in LinkTx /\ l \in Link
  BY <1>1 DEF LinkTx, Link
<1>3. linkTxs' = Append(linkTxs, tx) /\ links' = IF tx.fresh THEN Append(links, l) ELSE links
  BY DEF BeginLink
<1>4. Began(p, a, default, tx, l)
  BY <1>3 DEF Began
<1> QED
  BY <1>2, <1>4

LEMMA CommittedLinks ==
  ASSUME CatalogueTypeOK, NEW i \in DOMAIN linkTxs, CommitLink(i)
  PROVE  LET tx == linkTxs[i]
         IN  /\ links' \in Seq(Link) /\ DOMAIN links' = DOMAIN links
             /\ \A k \in DOMAIN links :
                  /\ links'[k].project = links[k].project /\ links'[k].account = links[k].account
                  /\ Same(links[k], tx) => links'[k].default = tx.default /\ links'[k].committed
                  /\ ~Same(links[k], tx) =>
                       /\ links'[k].committed = links[k].committed
                       /\ links'[k].default => links[k].default
                       /\ links[k].project = tx.project /\ links[k].account \in tx.clears
                          => ~links'[k].default
<1> DEFINE tx == linkTxs[i]
           row(k) == IF links[k].project = tx.project /\ links[k].account = tx.account
                     THEN [links[k] EXCEPT !.default = tx.default, !.committed = TRUE]
                     ELSE IF links[k].project = tx.project /\ links[k].account \in tx.clears
                     THEN [links[k] EXCEPT !.default = FALSE] ELSE links[k]
<1>1. links' = [k \in DOMAIN links |-> row(k)]
  BY DEF CommitLink
<1>2. DOMAIN links' = DOMAIN links /\ \A k \in DOMAIN links : links'[k] = row(k)
  BY <1>1
<1>3. tx \in LinkTx /\ tx.default \in BOOLEAN
  BY RowsTyped DEF LinkTx
<1>4. ASSUME NEW k \in DOMAIN links
      PROVE  /\ links'[k] \in Link
             /\ links'[k].project = links[k].project /\ links'[k].account = links[k].account
             /\ Same(links[k], tx) => links'[k].default = tx.default /\ links'[k].committed
             /\ ~Same(links[k], tx) =>
                  /\ links'[k].committed = links[k].committed
                  /\ links'[k].default => links[k].default
                  /\ links[k].project = tx.project /\ links[k].account \in tx.clears
                     => ~links'[k].default
  <2>1. links[k] \in Link /\ links'[k] = row(k)
    BY <1>2, RowsTyped
  <2> HIDE DEF tx
  <2>2. CASE Same(links[k], tx)
    <3>1. row(k) = [links[k] EXCEPT !.default = tx.default, !.committed = TRUE]
      BY <2>2 DEF Same
    <3> QED
      BY <1>3, <2>1, <2>2, <3>1 DEF Link
  <2>3. CASE ~Same(links[k], tx) /\ links[k].project = tx.project /\ links[k].account \in tx.clears
    <3>1. row(k) = [links[k] EXCEPT !.default = FALSE]
      BY <2>3 DEF Same
    <3> QED
      BY <1>3, <2>1, <2>3, <3>1 DEF Link
  <2>4. CASE ~Same(links[k], tx) /\ ~(links[k].project = tx.project /\ links[k].account \in tx.clears)
    <3>1. row(k) = links[k]
      BY <2>4 DEF Same
    <3> QED
      BY <1>3, <2>1, <2>4, <3>1
  <2> QED
    BY <2>2, <2>3, <2>4
<1>5. links' \in Seq(Link)
  <2>1. links' \in [1..Len(links) -> Link] /\ Len(links) \in Nat
    <3>1. links' = [k \in 1..Len(links) |-> row(k)]
      BY <1>1, RowsTyped
    <3>2. \A k \in 1..Len(links) : row(k) \in Link
      BY <1>2, <1>4, RowsTyped
    <3> HIDE DEF row
    <3> QED
      BY <3>1, <3>2, RowsTyped
  <2> QED
    BY <2>1, SeqOfFunction
<1> QED
  BY <1>2, <1>4, <1>5

LEMMA CatalogueTypes ==
  ASSUME CatalogueTypeOK, [CatalogueNext]_catalogueVars
  PROVE  CatalogueTypeOK'
<1> USE DEF CatalogueTypeOK
<1>1. ASSUME NEW gone PROVE Without(links, gone) \in Seq(Link)
  BY WithoutIs
<1>2. ASSUME NEW p \in Project, DropProject(p) \/ UpsertPlot(p) PROVE CatalogueTypeOK'
  <2>1. CASE DropProject(p)
    <3>1. \A s \in Sheet : (IF s \in Rows(sheets) /\ sheets[s].project = p THEN None
                           ELSE sheets[s]) \in SheetRow \cup {None}
      OBVIOUS
    <3>2. sheets' \in [Sheet -> SheetRow \cup {None}]
      BY <2>1, <3>1 DEF DropProject
    <3> QED
      BY <1>1, <2>1, <3>2 DEF DropProject
  <2>2. CASE UpsertPlot(p)
    BY <2>2 DEF UpsertPlot
  <2> QED
    BY <1>2, <2>1, <2>2
<1>3. ASSUME NEW p \in Project, NEW d \in Defaults, CreateProject(p, d) \/ UpdateProject(p, d)
      PROVE  CatalogueTypeOK'
  BY <1>3 DEF CreateProject, UpdateProject
<1>4. ASSUME NEW s \in Sheet, DeleteSheet(s) PROVE CatalogueTypeOK'
  BY <1>4 DEF DeleteSheet
<1>5. ASSUME NEW s \in Sheet, NEW p \in Project, NEW k \in Kind, CreateSheet(s, p, k)
      PROVE  CatalogueTypeOK'
  <2>1. [project |-> p, kind |-> k] \in SheetRow
    BY DEF SheetRow
  <2> QED
    BY <1>5, <2>1 DEF CreateSheet
<1>6. ASSUME NEW a \in Account, SetOAuth(a) PROVE CatalogueTypeOK'
  <2>1. accounts[a] \in AccountRow /\ accounts' = [accounts EXCEPT ![a].tokens = TRUE]
    BY <1>6, RowsTyped DEF SetOAuth
  <2>2. [accounts[a] EXCEPT !.tokens = TRUE] \in AccountRow
    BY <2>1 DEF AccountRow
  <2> QED
    BY <1>6, <2>1, <2>2 DEF SetOAuth
<1>7. ASSUME NEW a \in Account, DropAccount(a) PROVE CatalogueTypeOK'
  BY <1>1, <1>7 DEF DropAccount
<1>8. ASSUME NEW a \in Account, NEW platform \in Platform, NEW profile \in Session \cup {None},
             NEW p \in Project \cup {None}, CreateAccount(a, platform, profile, p)
      PROVE  CatalogueTypeOK'
  <2>1. [platform |-> platform, profile |-> profile, tokens |-> FALSE] \in AccountRow
    BY DEF AccountRow
  <2>2. p # None => [project |-> p, account |-> a, default |-> FALSE, committed |-> TRUE] \in Link
    BY DEF Link
  <2>3. links' \in Seq(Link)
    BY <1>8, <2>2, Appended DEF CreateAccount
  <2> QED
    BY <1>8, <2>1, <2>3 DEF CreateAccount
<1>9. ASSUME NEW a \in Account, NEW platform \in Platform, NEW profile \in Session \cup {None},
             NEW extra \in BOOLEAN, EditAccount(a, platform, profile, extra)
      PROVE  CatalogueTypeOK'
  <2>1. accounts[a] \in AccountRow
    BY <1>9, RowsTyped DEF EditAccount
  <2>2. [platform |-> platform, profile |-> profile, tokens |-> accounts[a].tokens /\ ~extra]
          \in AccountRow
    BY <2>1 DEF AccountRow
  <2>3. LinkedTo(a) \subseteq Project
    BY RowsTyped DEF LinkedTo, Link
  <2>4. excused' \subseteq Project \X Platform
    BY <1>9, <2>3 DEF EditAccount
  <2> QED
    BY <1>9, <2>2, <2>4 DEF EditAccount
<1>10. ASSUME NEW p \in Project, NEW a \in Account, Unlink(p, a) PROVE CatalogueTypeOK'
  <2>1. RemoveAt(links, LinkAt(p, a)) \in Seq(Link)
    BY <1>10, LinkFound, RemoveAtIs DEF Unlink
  <2> QED
    BY <1>10, <2>1 DEF Unlink
<1>11. ASSUME NEW p \in Project, NEW a \in Account, NEW default \in BOOLEAN,
              BeginLink(p, a, default)
       PROVE  CatalogueTypeOK'
  <2>1. links' \in Seq(Link) /\ linkTxs' \in Seq(LinkTx)
    <3> HIDE DEF CatalogueTypeOK
    <3>1. PICK tx \in LinkTx, l \in Link : Began(p, a, default, tx, l)
      BY <1>11, BegunTx
    <3> QED
      BY <3>1, Appended DEF CatalogueTypeOK, Began
  <2>2. accounts[a] \in AccountRow
    BY <1>11, RowsTyped DEF BeginLink
  <2>3. excused' \subseteq Project \X Platform
    BY <1>11, <2>2 DEF BeginLink, AccountRow
  <2> QED
    BY <1>11, <2>1, <2>3 DEF BeginLink
<1>12. ASSUME NEW i \in DOMAIN linkTxs, CommitLink(i) \/ AbortLink(i) PROVE CatalogueTypeOK'
  <2>1. RemoveAt(linkTxs, i) \in Seq(LinkTx)
    BY RemoveAtIs
  <2>2. links' \in Seq(Link)
    BY <1>1, <1>12, CommittedLinks DEF AbortLink
  <2> QED
    BY <1>12, <2>1, <2>2 DEF CommitLink, AbortLink
<1>13. ASSUME NEW t \in Template, NEW steps \in StepLists, CreateTemplate(t, steps)
       PROVE  CatalogueTypeOK'
  <2>1. [steps |-> steps, is_test |-> FALSE] \in TemplateRow
    BY DEF TemplateRow
  <2> QED
    BY <1>13, <2>1 DEF CreateTemplate
<1>14. ASSUME NEW t \in Template, NEW row \in TemplateRow, ReadTemplate(t, row)
       PROVE  CatalogueTypeOK'
  <2>1. [template |-> t, row |-> row] \in Edit
    BY DEF Edit
  <2> QED
    BY <1>14, <2>1 DEF ReadTemplate
<1>15. ASSUME NEW e \in edits, SaveTemplate(e) PROVE CatalogueTypeOK'
  <2>1. e.template \in Template /\ e.row \in TemplateRow
    BY DEF Edit
  <2> QED
    BY <1>15, <2>1 DEF SaveTemplate
<1>16. ASSUME NEW f \in FormatId, DeleteFormat(f) \/ \E scope \in {"user", "system"} : SaveFormat(f, scope)
       PROVE  CatalogueTypeOK'
  BY <1>16 DEF DeleteFormat, SaveFormat
<1>17. CASE CrashCatalogue
  <2>1. << >> \in Seq(LinkTx)
    BY EmptySeq
  <2> QED
    BY <1>1, <1>17, <2>1 DEF CrashCatalogue
<1>18. CASE UNCHANGED catalogueVars
  BY <1>18 DEF catalogueVars
<1> HIDE DEF CatalogueTypeOK
<1> QED
  BY <1>2, <1>3, <1>4, <1>5, <1>6, <1>7, <1>8, <1>9, <1>10, <1>11, <1>12, <1>13, <1>14, <1>15,
     <1>16, <1>17, <1>18 DEF CatalogueNext

-----------------------------------------------------------------------------
(* Steps that only take links and transactions away *)

LEMMA Indexes ==
  ASSUME NEW S, NEW s \in Seq(S)
  PROVE  Len(s) \in Nat /\ DOMAIN s = 1..Len(s) /\ \A i \in DOMAIN s : i \in Nat /\ s[i] \in S
BY LenProperties, ElementOfSeq

\* Each element of what is left was one before, and no two were the same.
Stems(s, t, m) ==
  /\ \A k \in DOMAIN t : m[k] \in DOMAIN s /\ m[k] \in Nat /\ t[k] = s[m[k]]
  /\ \A k, l \in DOMAIN t : k < l => m[k] < m[l]
  /\ \A k, l \in DOMAIN t : k # l => m[k] # m[l]

LEMMA ThinnedIs ==
  ASSUME NEW S, NEW s \in Seq(S), NEW t \in Seq(S), Thinned(s, t)
  PROVE  \E m : Stems(s, t, m)
<1>1. PICK m \in [DOMAIN t -> DOMAIN s] :
        /\ \A k \in DOMAIN t : t[k] = s[m[k]]
        /\ \A k, l \in DOMAIN t : k < l => m[k] < m[l]
  BY DEF Thinned
<1>2. (\A k \in DOMAIN t : k \in Nat) /\ (\A k \in DOMAIN s : k \in Nat)
  BY Indexes
<1>3. \A k \in DOMAIN t : m[k] \in DOMAIN s /\ m[k] \in Nat
  BY <1>1, <1>2
<1>4. ASSUME NEW k \in DOMAIN t, NEW l \in DOMAIN t, k # l PROVE m[k] # m[l]
  <2>1. k < l \/ l < k
    BY <1>2, <1>4
  <2>2. m[k] < m[l] \/ m[l] < m[k]
    BY <1>1, <2>1
  <2> QED
    BY <1>3, <2>2
<1> QED
  BY <1>1, <1>3, <1>4 DEF Stems

LEMMA FewerLinks ==
  ASSUME LinksInv, CatalogueTypeOK', (Rows(accounts) \subseteq made)',
         TxsHaveLinks', UncommittedHaveTxs',
         Thinned(links, links'), Thinned(linkTxs, linkTxs'), excused' = excused,
         \A i \in DOMAIN links' : accounts'[links'[i].account] = accounts[links'[i].account],
         DOMAIN accounts' = DOMAIN accounts
  PROVE  LinksInv'
<1>1. PICK m :
        /\ \A k \in DOMAIN links' : m[k] \in DOMAIN links /\ m[k] \in Nat /\ links'[k] = links[m[k]]
        /\ \A k, l \in DOMAIN links' : k < l => m[k] < m[l]
        /\ \A k, l \in DOMAIN links' : k # l => m[k] # m[l]
  <2>1. links \in Seq(Link) /\ links' \in Seq(Link)
    BY DEF LinksInv, CatalogueTypeOK
  <2>2. PICK m : Stems(links, links', m)
    BY <2>1, ThinnedIs
  <2> QED
    BY <2>2 DEF Stems
<1>2. PICK n :
        /\ \A k \in DOMAIN linkTxs' : /\ n[k] \in DOMAIN linkTxs /\ n[k] \in Nat
                                      /\ linkTxs'[k] = linkTxs[n[k]]
        /\ \A k, l \in DOMAIN linkTxs' : k < l => n[k] < n[l]
        /\ \A k, l \in DOMAIN linkTxs' : k # l => n[k] # n[l]
  <2>1. linkTxs \in Seq(LinkTx) /\ linkTxs' \in Seq(LinkTx)
    BY DEF LinksInv, CatalogueTypeOK
  <2>2. PICK n : Stems(linkTxs, linkTxs', n)
    BY <2>1, ThinnedIs
  <2> QED
    BY <2>2 DEF Stems
<1>3. \A t \in DOMAIN linkTxs' : accounts'[linkTxs'[t].account] = accounts[linkTxs'[t].account]
  BY DEF TxsHaveLinks, Same
<1>4. LinksOnce' /\ TxsOnce'
  BY <1>1, <1>2 DEF LinksInv, LinksOnce, TxsOnce, Same
<1>5. LinksHaveAccounts'
  BY <1>1 DEF LinksInv, LinksHaveAccounts, Exists
<1>6. DefaultsGo'
  <2> SUFFICES ASSUME NEW t \in DOMAIN linkTxs', NEW i \in DOMAIN links',
                      linkTxs'[t].default, links'[i].default, links'[i].committed,
                      Rivals(links[i], linkTxs[t])', links'[i].account # linkTxs'[t].account
               PROVE  links'[i].account \in linkTxs'[t].clears \/ Excused(links[i])'
    BY DEF DefaultsGo
  <2>1. Rivals(links[m[i]], linkTxs[n[t]])
    BY <1>1, <1>2, <1>3 DEF Rivals
  <2>2. links[m[i]].account \in linkTxs[n[t]].clears \/ Excused(links[m[i]])
    BY <1>1, <1>2, <2>1 DEF LinksInv, DefaultsGo
  <2> QED
    BY <1>1, <1>2, <2>2 DEF Excused
<1>7. DefaultsWait'
  <2> SUFFICES ASSUME NEW s \in DOMAIN linkTxs', NEW t \in DOMAIN linkTxs', s < t,
                      linkTxs'[s].default, linkTxs'[t].default, Rivals(linkTxs[s], linkTxs[t])'
               PROVE  linkTxs'[s].account \in linkTxs'[t].clears \/ Excused(linkTxs[t])'
    BY DEF DefaultsWait
  <2>1. Rivals(linkTxs[n[s]], linkTxs[n[t]])
    BY <1>2, <1>3 DEF Rivals
  <2>2. linkTxs[n[s]].account \in linkTxs[n[t]].clears \/ Excused(linkTxs[n[t]])
    BY <1>2, <2>1 DEF LinksInv, DefaultsWait
  <2> QED
    BY <1>2, <1>3, <2>2 DEF Excused
<1>8. OneDefaultButForRaces'
  BY <1>1 DEF LinksInv, OneDefaultButForRaces
<1> QED
  BY <1>4, <1>5, <1>6, <1>7, <1>8 DEF LinksInv

\* Steps that have nothing to do with links.
LEMMA LinksUndisturbed ==
  ASSUME LinksInv, CatalogueTypeOK', UNCHANGED <<accounts, links, linkTxs, excused>>, made \subseteq made'
  PROVE  LinksInv'
<1>1. (Rows(accounts) \subseteq made)' /\ TxsHaveLinks' /\ UncommittedHaveTxs'
  BY DEF LinksInv, Rows, TxsHaveLinks, UncommittedHaveTxs
<1>2. Thinned(links, links') /\ Thinned(linkTxs, linkTxs')
  BY SameThinned
<1> QED
  BY <1>1, <1>2, FewerLinks

\* Steps that take away links, and no transaction's.
LEMMA LinksGo ==
  ASSUME LinksInv, CatalogueTypeOK', NEW gone, links' = Without(links, gone),
         UNCHANGED <<linkTxs, excused>>, (Rows(accounts) \subseteq made)',
         DOMAIN accounts' = DOMAIN accounts,
         \A i \in DOMAIN links :
           links[i] \notin gone => accounts'[links[i].account] = accounts[links[i].account],
         \A i \in DOMAIN links, t \in DOMAIN linkTxs : Same(links[i], linkTxs[t]) => links[i] \notin gone
  PROVE  LinksInv'
<1>1. /\ Thinned(links, links')
      /\ \A k \in DOMAIN links' : links'[k] \notin gone
      /\ \A i \in DOMAIN links : links[i] \notin gone => \E k \in DOMAIN links' : links'[k] = links[i]
  <2>1. links \in Seq(Link)
    BY DEF LinksInv, CatalogueTypeOK
  <2> QED
    BY <2>1, WithoutIs
<1>2. \A k \in DOMAIN links' : \E i \in DOMAIN links : links'[k] = links[i]
  BY <1>1 DEF Thinned
<1>3. TxsHaveLinks'
  <2> SUFFICES ASSUME NEW t \in DOMAIN linkTxs
               PROVE  \E k \in DOMAIN links' : /\ Same(links'[k], linkTxs[t])
                                               /\ links'[k].committed = ~linkTxs[t].fresh
    BY DEF TxsHaveLinks, Same
  <2>1. PICK i \in DOMAIN links :
          Same(links[i], linkTxs[t]) /\ links[i].committed = ~linkTxs[t].fresh
    BY DEF LinksInv, TxsHaveLinks
  <2>2. PICK k \in DOMAIN links' : links'[k] = links[i]
    BY <1>1, <2>1
  <2> QED
    BY <2>1, <2>2
<1>4. UncommittedHaveTxs'
  BY <1>2 DEF LinksInv, UncommittedHaveTxs, Same
<1>5. \A k \in DOMAIN links' : accounts'[links'[k].account] = accounts[links'[k].account]
  BY <1>1, <1>2
<1>6. Thinned(linkTxs, linkTxs')
  BY SameThinned
<1> QED
  BY <1>1, <1>3, <1>4, <1>5, <1>6, FewerLinks

LEMMA DropsKeep ==
  ASSUME LinksInv, CatalogueTypeOK',
         \/ \E p \in Project : DropProject(p)
         \/ \E a \in Account : DropAccount(a)
  PROVE  LinksInv'
<1>1. CatalogueTypeOK /\ \A i \in DOMAIN links : links[i] \in Link
  BY RowsTyped DEF LinksInv
<1>2. ASSUME NEW p \in Project, DropProject(p) PROVE LinksInv'
  <2> DEFINE gone == {l \in Link : l.project = p}
  <2>1. /\ links' = Without(links, gone) /\ UNCHANGED <<linkTxs, excused, accounts, made>>
        /\ \A t \in DOMAIN linkTxs : linkTxs[t].project # p
    BY <1>2 DEF DropProject
  <2>2. (Rows(accounts) \subseteq made)'
    BY <2>1 DEF LinksInv, Rows
  <2>3. \A i \in DOMAIN links, t \in DOMAIN linkTxs : Same(links[i], linkTxs[t]) => links[i] \notin gone
    BY <2>1 DEF Same
  <2> HIDE DEF gone
  <2> QED
    BY <2>1, <2>2, <2>3, LinksGo
<1>3. ASSUME NEW a \in Account, DropAccount(a) PROVE LinksInv'
  <2> DEFINE gone == {l \in Link : l.account = a}
  <2>1. /\ links' = Without(links, gone) /\ UNCHANGED <<linkTxs, excused, made>>
        /\ accounts' = [accounts EXCEPT ![a] = None]
        /\ \A t \in DOMAIN linkTxs : linkTxs[t].account # a
    BY <1>3 DEF DropAccount
  <2>2. (Rows(accounts) \subseteq made)'
    BY <2>1 DEF LinksInv, Rows
  <2>3. \A i \in DOMAIN links, t \in DOMAIN linkTxs : Same(links[i], linkTxs[t]) => links[i] \notin gone
    BY <2>1 DEF Same
  <2>4. \A i \in DOMAIN links :
          links[i] \notin gone => accounts'[links[i].account] = accounts[links[i].account]
    BY <1>1, <2>1 DEF CatalogueTypeOK
  <2>5. DOMAIN accounts' = DOMAIN accounts
    BY <2>1
  <2> HIDE DEF gone
  <2> QED
    BY <2>1, <2>2, <2>3, <2>4, <2>5, LinksGo
<1> QED
  BY <1>2, <1>3

LEMMA UnlinkKeeps ==
  ASSUME LinksInv, CatalogueTypeOK', NEW p \in Project, NEW a \in Account, Unlink(p, a)
  PROVE  LinksInv'
<1> DEFINE j == LinkAt(p, a)
<1>1. CatalogueTypeOK /\ links \in Seq(Link)
  BY DEF LinksInv, CatalogueTypeOK
<1>2. j \in DOMAIN links /\ links[j].project = p /\ links[j].account = a
  BY <1>1, LinkFound DEF Unlink
<1>3. links' = RemoveAt(links, j) /\ UNCHANGED <<accounts, linkTxs, made, excused>>
  BY DEF Unlink
<1>4. \A t \in DOMAIN linkTxs : ~Same(links[j], linkTxs[t])
  BY <1>2 DEF Unlink, Written, Same
<1> HIDE DEF j
<1>5. /\ Thinned(links, links')
      /\ \A k \in DOMAIN links' : \E i \in DOMAIN links : i # j /\ links'[k] = links[i]
      /\ \A i \in DOMAIN links : i # j => \E k \in DOMAIN links' : links'[k] = links[i]
  BY <1>1, <1>2, <1>3, RemoveAtIs
<1>6. TxsHaveLinks'
  <2> SUFFICES ASSUME NEW t \in DOMAIN linkTxs
               PROVE  \E k \in DOMAIN links' : /\ Same(links'[k], linkTxs[t])
                                               /\ links'[k].committed = ~linkTxs[t].fresh
    BY <1>3 DEF TxsHaveLinks, Same
  <2>1. PICK i \in DOMAIN links :
          Same(links[i], linkTxs[t]) /\ links[i].committed = ~linkTxs[t].fresh
    BY DEF LinksInv, TxsHaveLinks
  <2>2. i # j
    BY <1>4, <2>1
  <2>3. PICK k \in DOMAIN links' : links'[k] = links[i]
    BY <1>5, <2>2
  <2> QED
    BY <2>1, <2>3
<1>7. UncommittedHaveTxs'
  BY <1>3, <1>5 DEF LinksInv, UncommittedHaveTxs, Same
<1>8. (Rows(accounts) \subseteq made)'
  BY <1>3 DEF LinksInv, Rows
<1>9. Thinned(linkTxs, linkTxs')
  BY <1>3, SameThinned
<1> QED
  BY <1>3, <1>5, <1>6, <1>7, <1>8, <1>9, FewerLinks

LEMMA AbortKeeps ==
  ASSUME LinksInv, CatalogueTypeOK', NEW i \in DOMAIN linkTxs, AbortLink(i)
  PROVE  LinksInv'
<1> DEFINE gone == {l \in Link : /\ ~l.committed
                                 /\ l.project = linkTxs[i].project /\ l.account = linkTxs[i].account}
<1>1. /\ CatalogueTypeOK /\ links \in Seq(Link) /\ linkTxs \in Seq(LinkTx)
      /\ \A l \in DOMAIN links : links[l] \in Link
  BY RowsTyped DEF LinksInv, CatalogueTypeOK
<1>2. /\ links' = Without(links, gone) /\ linkTxs' = RemoveAt(linkTxs, i)
      /\ UNCHANGED <<accounts, made, excused>>
  BY DEF AbortLink
<1>3. \A l \in DOMAIN links : links[l] \in gone <=> ~links[l].committed /\ Same(links[l], linkTxs[i])
  BY <1>1 DEF Same
<1> HIDE DEF gone
<1>4. /\ Thinned(links, links')
      /\ \A k \in DOMAIN links' : links'[k] \notin gone
      /\ \A l \in DOMAIN links : links[l] \notin gone => \E k \in DOMAIN links' : links'[k] = links[l]
  BY <1>1, <1>2, WithoutIs
<1>5. \A k \in DOMAIN links' : \E l \in DOMAIN links : links'[k] = links[l]
  BY <1>4 DEF Thinned
<1>6. /\ Thinned(linkTxs, linkTxs')
      /\ \A k \in DOMAIN linkTxs' : \E t \in DOMAIN linkTxs : t # i /\ linkTxs'[k] = linkTxs[t]
      /\ \A t \in DOMAIN linkTxs : t # i => \E k \in DOMAIN linkTxs' : linkTxs'[k] = linkTxs[t]
  BY <1>1, <1>2, RemoveAtIs
<1>7. TxsHaveLinks'
  <2> SUFFICES ASSUME NEW t \in DOMAIN linkTxs'
               PROVE  \E k \in DOMAIN links' : /\ Same(links'[k], linkTxs'[t])
                                               /\ links'[k].committed = ~linkTxs'[t].fresh
    BY DEF TxsHaveLinks, Same
  <2>1. PICK s \in DOMAIN linkTxs : s # i /\ linkTxs'[t] = linkTxs[s]
    BY <1>6
  <2>2. PICK l \in DOMAIN links :
          Same(links[l], linkTxs[s]) /\ links[l].committed = ~linkTxs[s].fresh
    BY DEF LinksInv, TxsHaveLinks
  <2>3. ~Same(links[l], linkTxs[i])
    BY <2>1, <2>2 DEF LinksInv, TxsOnce, Same
  <2>4. PICK k \in DOMAIN links' : links'[k] = links[l]
    BY <1>3, <1>4, <2>3
  <2> QED
    BY <2>1, <2>2, <2>4
<1>8. UncommittedHaveTxs'
  <2> SUFFICES ASSUME NEW k \in DOMAIN links', ~links'[k].committed
               PROVE  \E t \in DOMAIN linkTxs' : Same(links'[k], linkTxs'[t])
    BY DEF UncommittedHaveTxs, Same
  <2>1. PICK l \in DOMAIN links : links'[k] = links[l]
    BY <1>5
  <2>2. PICK t \in DOMAIN linkTxs : Same(links[l], linkTxs[t])
    BY <2>1 DEF LinksInv, UncommittedHaveTxs
  <2>3. t # i
    BY <1>3, <1>4, <2>1, <2>2
  <2> QED
    BY <1>6, <2>1, <2>2, <2>3
<1>9. (Rows(accounts) \subseteq made)'
  BY <1>2 DEF LinksInv, Rows
<1> QED
  BY <1>2, <1>4, <1>6, <1>7, <1>8, <1>9, FewerLinks

LEMMA CrashKeeps ==
  ASSUME LinksInv, CatalogueTypeOK', CrashCatalogue
  PROVE  LinksInv'
<1> DEFINE gone == {l \in Link : ~l.committed}
<1>1. links \in Seq(Link) /\ links' \in Seq(Link)
  BY DEF LinksInv, CatalogueTypeOK
<1>2. links' = Without(links, gone) /\ linkTxs' = << >> /\ UNCHANGED <<accounts, made, excused>>
  BY DEF CrashCatalogue
<1>3. Thinned(links, links') /\ \A k \in DOMAIN links' : links'[k] \notin gone
  BY <1>1, <1>2, WithoutIs
<1>4. \A k \in DOMAIN links' : links'[k].committed
  BY <1>1, <1>3, Indexes
<1>5. DOMAIN linkTxs' = {}
  BY <1>2
<1>6. TxsHaveLinks' /\ UncommittedHaveTxs'
  BY <1>4, <1>5 DEF TxsHaveLinks, UncommittedHaveTxs
<1>7. Thinned(linkTxs, linkTxs')
  <2>1. PICK m : m \in [DOMAIN linkTxs' -> DOMAIN linkTxs]
    <3>1. PICK e : e = [k \in {} |-> 0]
      OBVIOUS
    <3>2. e \in [DOMAIN linkTxs' -> DOMAIN linkTxs]
      BY <1>5, <3>1
    <3> QED
      BY <3>2
  <2>2. \A k \in DOMAIN linkTxs' : FALSE
    BY <1>5
  <2> HIDE DEF gone
  <2> QED
    BY <2>1, <2>2 DEF Thinned
<1>8. (Rows(accounts) \subseteq made)'
  BY <1>2 DEF LinksInv, Rows
<1> QED
  BY <1>2, <1>3, <1>6, <1>7, <1>8, FewerLinks

-----------------------------------------------------------------------------
(* Steps that make a default *)

LEMMA CommitKeeps ==
  ASSUME LinksInv, CatalogueTypeOK', NEW i \in DOMAIN linkTxs, CommitLink(i)
  PROVE  LinksInv'
<1> DEFINE tx == linkTxs[i]
<1>1. /\ CatalogueTypeOK /\ linkTxs \in Seq(LinkTx)
      /\ \A t \in DOMAIN linkTxs : t \in Nat
  BY Indexes DEF LinksInv, CatalogueTypeOK
<1>2. /\ DOMAIN links' = DOMAIN links
      /\ \A k \in DOMAIN links :
           /\ links'[k].project = links[k].project /\ links'[k].account = links[k].account
           /\ Same(links[k], tx) => links'[k].default = tx.default /\ links'[k].committed
           /\ ~Same(links[k], tx) =>
                /\ links'[k].committed = links[k].committed
                /\ links'[k].default => links[k].default
                /\ links[k].project = tx.project /\ links[k].account \in tx.clears
                   => ~links'[k].default
  BY <1>1, CommittedLinks
<1>3. /\ linkTxs' = RemoveAt(linkTxs, i) /\ UNCHANGED <<accounts, made, excused>>
      /\ \A j \in 1..(i - 1) :
           linkTxs[j].project = tx.project => Written(linkTxs[j]) \cap Written(tx) = {}
  BY DEF CommitLink
<1>4. /\ Thinned(linkTxs, linkTxs')
      /\ \A k \in DOMAIN linkTxs' : \E t \in DOMAIN linkTxs : t # i /\ linkTxs'[k] = linkTxs[t]
      /\ \A t \in DOMAIN linkTxs : t # i => \E k \in DOMAIN linkTxs' : linkTxs'[k] = linkTxs[t]
  BY <1>1, <1>3, RemoveAtIs
<1>5. PICK n :
        /\ \A k \in DOMAIN linkTxs' : /\ n[k] \in DOMAIN linkTxs /\ n[k] \in Nat
                                      /\ linkTxs'[k] = linkTxs[n[k]]
        /\ \A k, l \in DOMAIN linkTxs' : k < l => n[k] < n[l]
        /\ \A k, l \in DOMAIN linkTxs' : k # l => n[k] # n[l]
  <2>1. linkTxs' \in Seq(LinkTx)
    BY DEF CatalogueTypeOK
  <2>2. PICK n : Stems(linkTxs, linkTxs', n)
    BY <1>1, <1>4, <2>1, ThinnedIs
  <2> QED
    BY <2>2 DEF Stems
<1>6. \A k \in DOMAIN linkTxs' : n[k] # i /\ ~Same(linkTxs[n[k]], tx)
  BY <1>4, <1>5 DEF LinksInv, TxsOnce, Same
<1> HIDE DEF tx
<1>7. LinksOnce' /\ LinksHaveAccounts'
  BY <1>2, <1>3 DEF LinksInv, LinksOnce, LinksHaveAccounts, Same, Exists
<1>8. TxsOnce'
  BY <1>5 DEF LinksInv, TxsOnce, Same
<1>9. TxsHaveLinks'
  <2> SUFFICES ASSUME NEW t \in DOMAIN linkTxs'
               PROVE  \E k \in DOMAIN links' : /\ Same(links'[k], linkTxs'[t])
                                               /\ links'[k].committed = ~linkTxs'[t].fresh
    BY DEF TxsHaveLinks, Same
  <2>1. PICK l \in DOMAIN links :
          Same(links[l], linkTxs[n[t]]) /\ links[l].committed = ~linkTxs[n[t]].fresh
    BY <1>5 DEF LinksInv, TxsHaveLinks
  <2>2. ~Same(links[l], tx)
    BY <1>6, <2>1 DEF Same
  <2>3. Same(links'[l], linkTxs'[t]) /\ links'[l].committed = links[l].committed
    BY <1>2, <1>5, <2>1, <2>2 DEF Same
  <2> QED
    BY <1>2, <1>5, <2>1, <2>3
<1>10. UncommittedHaveTxs'
  <2> SUFFICES ASSUME NEW k \in DOMAIN links, ~links'[k].committed
               PROVE  \E t \in DOMAIN linkTxs' : Same(links'[k], linkTxs'[t])
    BY <1>2 DEF UncommittedHaveTxs, Same
  <2>1. ~Same(links[k], tx) /\ ~links[k].committed
    BY <1>2
  <2>2. PICK t \in DOMAIN linkTxs : Same(links[k], linkTxs[t])
    BY <2>1 DEF LinksInv, UncommittedHaveTxs
  <2>3. PICK s \in DOMAIN linkTxs' : linkTxs'[s] = linkTxs[t]
    BY <1>4, <2>1, <2>2 DEF tx
  <2> QED
    BY <1>2, <2>2, <2>3 DEF Same
<1>11. DefaultsGo'
  <2> SUFFICES ASSUME NEW t \in DOMAIN linkTxs', NEW k \in DOMAIN links,
                      linkTxs'[t].default, links'[k].default, links'[k].committed,
                      Rivals(links[k], linkTxs[t])', links'[k].account # linkTxs'[t].account
               PROVE  links'[k].account \in linkTxs'[t].clears \/ Excused(links[k])'
    BY <1>2 DEF DefaultsGo
  <2> DEFINE other == linkTxs[n[t]]
  <2>1. /\ linkTxs'[t] = other /\ n[t] \in DOMAIN linkTxs /\ n[t] \in Nat /\ n[t] # i
        /\ other.default
    BY <1>5, <1>6
  <2>2. Rivals(links[k], other) /\ links[k].account # other.account
    BY <1>2, <1>3, <2>1 DEF Rivals
  <2>3. Excused(links[k])' <=> Excused(links[k])
    BY <1>2, <1>3 DEF Excused
  <2>4. CASE ~Same(links[k], tx)
    <3>1. links[k].default /\ links[k].committed
      BY <1>2, <2>4
    <3>2. links[k].account \in other.clears \/ Excused(links[k])
      BY <2>1, <2>2, <3>1 DEF LinksInv, DefaultsGo
    <3> QED
      BY <1>2, <2>1, <2>3, <3>2
  <2>5. CASE Same(links[k], tx)
    <3>1. tx.default /\ Rivals(other, tx) /\ Rivals(tx, other)
      BY <1>2, <2>2, <2>5 DEF Same, Rivals
    <3>2. Excused(other) \/ Excused(tx) => Excused(links[k])
      BY <2>2, <2>5 DEF Same, Rivals, Excused
    <3> HIDE DEF other
    <3>3. CASE i < n[t]
      <4>1. tx.account \in other.clears \/ Excused(other)
        BY <2>1, <3>1, <3>3 DEF LinksInv, DefaultsWait, tx, other
      <4> QED
        BY <1>2, <2>1, <2>3, <2>5, <3>2, <4>1 DEF Same
    <3>4. CASE n[t] < i
      <4>1. other.account \in tx.clears \/ Excused(tx)
        BY <2>1, <3>1, <3>4 DEF LinksInv, DefaultsWait, tx, other
      <4>2. n[t] \in 1..(i - 1)
        <5>1. n[t] \in 1..Len(linkTxs)
          BY <1>1, <2>1, Indexes
        <5> QED
          BY <1>1, <3>4, <5>1
      <4>3. Written(other) \cap Written(tx) = {}
        BY <1>3, <3>1, <4>2 DEF Rivals, other
      <4>4. other.account \notin tx.clears
        BY <4>3 DEF Written
      <4> QED
        BY <2>3, <3>2, <4>1, <4>4
    <3> QED
      BY <1>1, <2>1, <3>3, <3>4
  <2> QED
    BY <2>4, <2>5
<1>12. DefaultsWait'
  <2> SUFFICES ASSUME NEW s \in DOMAIN linkTxs', NEW t \in DOMAIN linkTxs', s < t,
                      linkTxs'[s].default, linkTxs'[t].default, Rivals(linkTxs[s], linkTxs[t])'
               PROVE  linkTxs'[s].account \in linkTxs'[t].clears \/ Excused(linkTxs[t])'
    BY DEF DefaultsWait
  <2>1. Rivals(linkTxs[n[s]], linkTxs[n[t]])
    BY <1>3, <1>5 DEF Rivals
  <2>2. linkTxs[n[s]].account \in linkTxs[n[t]].clears \/ Excused(linkTxs[n[t]])
    BY <1>5, <2>1 DEF LinksInv, DefaultsWait
  <2> QED
    BY <1>3, <1>5, <2>2 DEF Excused
<1>13. OneDefaultButForRaces'
  <2>1. ASSUME NEW k \in DOMAIN links, NEW l \in DOMAIN links, k # l,
               links[k].project = links[l].project,
               links'[k].default, links'[l].default, links'[k].committed, links'[l].committed,
               accounts[links[k].account].platform = accounts[links[l].account].platform,
               ~Same(links[l], tx)
        PROVE  <<links[k].project, accounts[links[k].account].platform>> \in excused
    <3>1. links[l].default /\ links[l].committed
      BY <1>2, <2>1
    <3>2. CASE ~Same(links[k], tx)
      <4>1. links[k].default /\ links[k].committed
        BY <1>2, <2>1, <3>2
      <4> QED
        BY <2>1, <3>1, <4>1 DEF LinksInv, OneDefaultButForRaces
    <3>3. CASE Same(links[k], tx)
      <4>1. tx.default /\ Rivals(links[l], tx) /\ links[l].account # tx.account
        BY <1>2, <2>1, <3>3 DEF Same, Rivals
      <4>2. links[l].account \in tx.clears \/ Excused(links[l])
        BY <3>1, <4>1 DEF LinksInv, DefaultsGo, tx
      <4>3. links[l].account \notin tx.clears
        BY <1>2, <2>1, <4>1 DEF Rivals
      <4> QED
        BY <2>1, <4>2, <4>3 DEF Excused
    <3> QED
      BY <3>2, <3>3
  <2>2. ASSUME NEW k \in DOMAIN links, NEW l \in DOMAIN links, k # l,
               links[k].project = links[l].project,
               links'[k].default, links'[l].default, links'[k].committed, links'[l].committed,
               accounts[links[k].account].platform = accounts[links[l].account].platform
        PROVE  <<links[k].project, accounts[links[k].account].platform>> \in excused
    <3>1. ~Same(links[k], tx) \/ ~Same(links[l], tx)
      BY <2>2 DEF LinksInv, LinksOnce, Same
    <3>2. CASE ~Same(links[l], tx)
      BY <2>1, <2>2, <3>2
    <3>3. CASE ~Same(links[k], tx)
      <4>1. <<links[l].project, accounts[links[l].account].platform>> \in excused
        BY <2>1, <2>2, <3>3
      <4> QED
        BY <2>2, <4>1
    <3> QED
      BY <3>1, <3>2, <3>3
  <2>3. \A k \in DOMAIN links :
          links'[k].project = links[k].project /\ links'[k].account = links[k].account
    BY <1>2
  <2> SUFFICES ASSUME NEW k \in DOMAIN links, NEW l \in DOMAIN links, k # l,
                      links'[k].project = links'[l].project,
                      links'[k].default, links'[l].default, links'[k].committed, links'[l].committed,
                      accounts[links'[k].account].platform = accounts[links'[l].account].platform
               PROVE  <<links'[k].project, accounts[links'[k].account].platform>> \in excused
    BY <1>2, <1>3 DEF OneDefaultButForRaces
  <2> QED
    BY <2>2, <2>3
<1>14. (Rows(accounts) \subseteq made)'
  BY <1>3 DEF LinksInv, Rows
<1> QED
  BY <1>7, <1>8, <1>9, <1>10, <1>11, <1>12, <1>13, <1>14 DEF LinksInv

LEMMA BeginKeeps ==
  ASSUME LinksInv, CatalogueTypeOK', NEW p \in Project, NEW a \in Account, NEW default \in BOOLEAN,
         BeginLink(p, a, default)
  PROVE  LinksInv'
<1>1. /\ CatalogueTypeOK /\ links \in Seq(Link) /\ linkTxs \in Seq(LinkTx)
      /\ \A i \in DOMAIN links : links[i] \in Link
      /\ \A t \in DOMAIN linkTxs : linkTxs[t] \in LinkTx
  BY RowsTyped DEF LinksInv, CatalogueTypeOK
<1>2. PICK tx \in LinkTx, l \in Link : Began(p, a, default, tx, l)
  BY <1>1, BegunTx
<1>3. /\ tx.project = p /\ tx.account = a /\ tx.default = default
      /\ tx.fresh = (LinkAt(p, a) = 0)
      /\ tx.clears = IF default THEN Cleared(p, a) ELSE {}
      /\ l.project = p /\ l.account = a /\ l.default = default /\ l.committed = FALSE
  BY <1>2 DEF Began
<1>4. /\ Exists(accounts, a) /\ UNCHANGED <<accounts, made>>
      /\ \A t \in DOMAIN linkTxs : linkTxs[t].project = p => a \notin Written(linkTxs[t])
      /\ excused' = IF default /\ Races(p, a) THEN excused \cup {<<p, accounts[a].platform>>}
                    ELSE excused
  BY DEF BeginLink
<1>5. \A t \in DOMAIN linkTxs : ~Same(linkTxs[t], tx)
  BY <1>3, <1>4 DEF Same, Written
<1> DEFINE T == Len(linkTxs) + 1
           I == Len(links) + 1
<1>6. /\ Len(linkTxs) \in Nat /\ DOMAIN linkTxs = 1..Len(linkTxs) /\ DOMAIN linkTxs' = 1..T
      /\ linkTxs'[T] = tx /\ \A t \in DOMAIN linkTxs : linkTxs'[t] = linkTxs[t]
  BY <1>1, <1>2, Appended DEF Began
<1>7. tx.fresh => /\ Len(links) \in Nat /\ DOMAIN links = 1..Len(links) /\ DOMAIN links' = 1..I
                  /\ links'[I] = l /\ \A i \in DOMAIN links : links'[i] = links[i]
  BY <1>1, <1>2, Appended DEF Began
<1>8. ~tx.fresh => links' = links
  BY <1>2 DEF Began
<1>9. /\ \A i \in DOMAIN links : i \in DOMAIN links' /\ links'[i] = links[i]
      /\ \A i \in DOMAIN links' : \/ i \in DOMAIN links
                                  \/ tx.fresh /\ links'[i] = l /\ i = I /\ i \notin DOMAIN links
  BY <1>7, <1>8
<1>10. /\ \A t \in DOMAIN linkTxs : t \in DOMAIN linkTxs' /\ linkTxs'[t] = linkTxs[t] /\ t < T
                                    /\ t \in Nat
       /\ \A t \in DOMAIN linkTxs' : t \in DOMAIN linkTxs \/ (t = T /\ linkTxs'[t] = tx)
       /\ T \in DOMAIN linkTxs' /\ linkTxs'[T] = tx /\ T \notin DOMAIN linkTxs /\ T \in Nat
  BY <1>6
<1>23. tx.fresh => I \in DOMAIN links'
  BY <1>7
<1> HIDE DEF T, I
<1>24. /\ tx.fresh => \A i \in DOMAIN links : ~(links[i].project = p /\ links[i].account = a)
       /\ ~tx.fresh => /\ LinkAt(p, a) \in DOMAIN links
                       /\ links[LinkAt(p, a)].project = p /\ links[LinkAt(p, a)].account = a
  <2>1. /\ LinkAt(p, a) # 0 => /\ LinkAt(p, a) \in DOMAIN links
                               /\ links[LinkAt(p, a)].project = p
                               /\ links[LinkAt(p, a)].account = a
        /\ LinkAt(p, a) = 0 =>
             \A i \in DOMAIN links : ~(links[i].project = p /\ links[i].account = a)
    BY <1>1, LinkFound
  <2>2. tx.fresh = (LinkAt(p, a) = 0)
    BY <1>3
  <2> QED
    BY ONLY <2>1, <2>2
<1>11. tx.fresh => \A i \in DOMAIN links : ~Same(links[i], l) /\ ~Same(l, links[i])
  BY <1>3, <1>24 DEF Same
<1>12. LinksOnce'
  BY <1>9, <1>11 DEF LinksInv, LinksOnce, Same
<1>13. LinksHaveAccounts'
  BY <1>3, <1>4, <1>9 DEF LinksInv, LinksHaveAccounts, Exists
<1>14. TxsOnce'
  BY <1>5, <1>10 DEF LinksInv, TxsOnce, Same
<1>15. TxsHaveLinks'
  <2>1. ASSUME NEW t \in DOMAIN linkTxs
        PROVE  \E i \in DOMAIN links' : /\ Same(links'[i], linkTxs[t])
                                        /\ links'[i].committed = ~linkTxs[t].fresh
    BY <1>9 DEF LinksInv, TxsHaveLinks
  <2>2. \E i \in DOMAIN links' : Same(links'[i], tx) /\ links'[i].committed = ~tx.fresh
    <3>1. CASE tx.fresh
      BY <1>3, <1>7, <1>23, <3>1 DEF Same
    <3>2. CASE ~tx.fresh
      <4>1. PICK i \in DOMAIN links : Same(links[i], tx)
        BY <1>3, <1>24, <3>2 DEF Same
      <4>2. links[i].committed
        BY <1>5, <4>1 DEF LinksInv, UncommittedHaveTxs, Same
      <4>3. links[i].committed \in BOOLEAN
        BY <1>1 DEF Link
      <4> QED
        BY <1>9, <3>2, <4>1, <4>2, <4>3
    <3> QED
      BY <1>3, <3>1, <3>2
  <2> QED
    BY <1>10, <2>1, <2>2 DEF TxsHaveLinks, Same
<1>16. UncommittedHaveTxs'
  <2> SUFFICES ASSUME NEW i \in DOMAIN links', ~links'[i].committed
               PROVE  \E t \in DOMAIN linkTxs' : Same(links'[i], linkTxs'[t])
    BY DEF UncommittedHaveTxs, Same
  <2>1. CASE i \in DOMAIN links
    <3>1. PICK t \in DOMAIN linkTxs : Same(links[i], linkTxs[t])
      BY <1>9, <2>1 DEF LinksInv, UncommittedHaveTxs
    <3> QED
      BY <1>9, <1>10, <2>1, <3>1
  <2>2. CASE links'[i] = l
    BY <1>3, <1>10, <2>2 DEF Same
  <2> QED
    BY <1>9, <2>1, <2>2
<1>17. excused \subseteq excused'
  BY <1>4
\* Another account on the platform whose link is committed is cleared.
<1>18. ASSUME default, NEW i \in DOMAIN links, links[i].project = p, links[i].account # a,
              links[i].committed,
              accounts[links[i].account].platform = accounts[a].platform
       PROVE  links[i].account \in tx.clears
  <2> DEFINE b == links[i].account
             j == LinkAt(p, b)
  <2>1. j # 0 /\ j \in DOMAIN links /\ links[j].project = p /\ links[j].account = b
    BY <1>1, <1>18, LinkFound
  <2>2. j = i
    BY <1>18, <2>1 DEF LinksInv, LinksOnce, Same
  <2>3. b \in Account
    BY <1>1 DEF Link
  <2>4. b \in Cleared(p, a)
    BY <1>18, <2>1, <2>2, <2>3 DEF Cleared
  <2> QED
    BY <1>3, <1>18, <2>4
<1>19. DefaultsGo'
  <2> SUFFICES ASSUME NEW t \in DOMAIN linkTxs', NEW i \in DOMAIN links',
                      linkTxs'[t].default, links'[i].default, links'[i].committed,
                      Rivals(links[i], linkTxs[t])', links'[i].account # linkTxs'[t].account
               PROVE  links'[i].account \in linkTxs'[t].clears \/ Excused(links[i])'
    BY DEF DefaultsGo
  <2>1. i \in DOMAIN links /\ links'[i] = links[i]
    BY <1>3, <1>9
  <2>2. CASE t \in DOMAIN linkTxs
    <3>1. linkTxs'[t] = linkTxs[t] /\ Rivals(links[i], linkTxs[t])
      BY <1>4, <1>10, <2>1, <2>2 DEF Rivals
    <3>2. links[i].account \in linkTxs[t].clears \/ Excused(links[i])
      BY <2>1, <2>2, <3>1 DEF LinksInv, DefaultsGo
    <3> QED
      BY <1>4, <1>17, <2>1, <3>1, <3>2 DEF Excused
  <2>3. CASE linkTxs'[t] = tx
    <3>1. /\ links[i].project = p /\ links[i].account # a /\ default
          /\ accounts[links[i].account].platform = accounts[a].platform
      BY <1>3, <1>4, <2>1, <2>3 DEF Rivals
    <3> QED
      BY <1>18, <2>1, <2>3, <3>1
  <2> QED
    BY <1>10, <2>2, <2>3
<1>20. DefaultsWait'
  <2> SUFFICES ASSUME NEW s \in DOMAIN linkTxs', NEW t \in DOMAIN linkTxs', s < t,
                      linkTxs'[s].default, linkTxs'[t].default, Rivals(linkTxs[s], linkTxs[t])'
               PROVE  linkTxs'[s].account \in linkTxs'[t].clears \/ Excused(linkTxs[t])'
    BY DEF DefaultsWait
  <2>1. s \in DOMAIN linkTxs /\ linkTxs'[s] = linkTxs[s]
    <3>1. s # T
      BY <1>6, <1>10 DEF T
    <3> QED
      BY <1>10, <3>1
  <2>2. CASE t \in DOMAIN linkTxs
    <3>1. linkTxs'[t] = linkTxs[t] /\ Rivals(linkTxs[s], linkTxs[t])
      BY <1>4, <1>10, <2>1, <2>2 DEF Rivals
    <3>2. linkTxs[s].account \in linkTxs[t].clears \/ Excused(linkTxs[t])
      BY <2>1, <2>2, <3>1 DEF LinksInv, DefaultsWait
    <3> QED
      BY <1>4, <1>17, <2>1, <3>1, <3>2 DEF Excused
  <2>3. CASE linkTxs'[t] = tx
    <3>1. /\ linkTxs[s].default /\ default /\ linkTxs[s].project = p
          /\ accounts[linkTxs[s].account].platform = accounts[a].platform
      BY <1>3, <1>4, <2>1, <2>3 DEF Rivals
    <3>2. CASE linkTxs[s].fresh
      <4>1. Races(p, a)
        BY <2>1, <3>1, <3>2 DEF Races
      <4> QED
        BY <1>3, <1>4, <2>3, <3>1, <4>1 DEF Excused
    <3>3. CASE ~linkTxs[s].fresh
      <4>1. PICK i \in DOMAIN links : Same(links[i], linkTxs[s]) /\ links[i].committed
        BY <2>1, <3>3 DEF LinksInv, TxsHaveLinks
      <4>2. linkTxs[s].account # a
        BY <1>3, <1>5, <2>1, <3>1 DEF Same
      <4>3. links[i].account \in tx.clears
        BY <1>18, <3>1, <4>1, <4>2 DEF Same
      <4> QED
        BY <2>1, <2>3, <4>1, <4>3 DEF Same
    <3> QED
      BY <3>2, <3>3
  <2> QED
    BY <1>10, <2>2, <2>3
<1>21. OneDefaultButForRaces'
  <2> SUFFICES ASSUME NEW i \in DOMAIN links', NEW j \in DOMAIN links', i # j,
                      links'[i].project = links'[j].project,
                      links'[i].default, links'[j].default, links'[i].committed, links'[j].committed,
                      accounts[links'[i].account].platform = accounts[links'[j].account].platform
               PROVE  <<links'[i].project, accounts[links'[i].account].platform>> \in excused'
    BY <1>4 DEF OneDefaultButForRaces
  <2>1. /\ i \in DOMAIN links /\ links'[i] = links[i]
        /\ j \in DOMAIN links /\ links'[j] = links[j]
    BY <1>3, <1>9
  <2>2. <<links[i].project, accounts[links[i].account].platform>> \in excused
    BY <2>1 DEF LinksInv, OneDefaultButForRaces
  <2> QED
    BY <1>17, <2>1, <2>2
<1>22. (Rows(accounts) \subseteq made)'
  BY <1>4 DEF LinksInv, Rows
<1> QED
  BY <1>12, <1>13, <1>14, <1>15, <1>16, <1>19, <1>20, <1>21, <1>22 DEF LinksInv

-----------------------------------------------------------------------------
(* Steps that change an account *)

LEMMA EditKeeps ==
  ASSUME LinksInv, CatalogueTypeOK', NEW a \in Account, NEW row \in AccountRow,
         Exists(accounts, a), accounts' = [accounts EXCEPT ![a] = row],
         UNCHANGED <<links, linkTxs, made>>, excused \subseteq excused',
         \/ row.platform = accounts[a].platform
         \/ \A p \in LinkedTo(a) : <<p, row.platform>> \in excused'
  PROVE  LinksInv'
<1>1. /\ CatalogueTypeOK /\ DOMAIN accounts = Account /\ \A i \in DOMAIN links : links[i] \in Link
      /\ \A t \in DOMAIN linkTxs : linkTxs[t] \in LinkTx
  BY RowsTyped DEF LinksInv
<1>2. /\ accounts'[a] = row /\ row # None
      /\ \A b \in Account : b # a => accounts'[b] = accounts[b]
  BY <1>1, RowsAssumption
\* Two rows that are about accounts on one platform: they were before, or are excused.
<1>3. ASSUME NEW b \in Account, NEW c \in Account, b # c,
             accounts'[b].platform = accounts'[c].platform
      PROVE  \/ /\ accounts[b].platform = accounts[c].platform
                /\ accounts'[b].platform = accounts[b].platform
             \/ /\ b = a \/ c = a
                /\ \A p \in LinkedTo(a) : <<p, accounts'[b].platform>> \in excused'
  BY <1>2, <1>3
<1>4. \A i \in DOMAIN links : links[i].account = a => links[i].project \in LinkedTo(a)
  BY DEF LinkedTo
<1>5. \A t \in DOMAIN linkTxs : linkTxs[t].account = a => linkTxs[t].project \in LinkedTo(a)
  <2> SUFFICES ASSUME NEW t \in DOMAIN linkTxs, linkTxs[t].account = a
               PROVE  linkTxs[t].project \in LinkedTo(a)
    OBVIOUS
  <2>1. PICK i \in DOMAIN links : Same(links[i], linkTxs[t])
    BY DEF LinksInv, TxsHaveLinks
  <2> QED
    BY <1>4, <2>1 DEF Same
<1>6. LinksOnce' /\ TxsOnce' /\ TxsHaveLinks' /\ UncommittedHaveTxs'
  BY DEF LinksInv, LinksOnce, TxsOnce, TxsHaveLinks, UncommittedHaveTxs, Same
<1>7. LinksHaveAccounts' /\ (Rows(accounts) \subseteq made)'
  BY <1>1, <1>2 DEF LinksInv, LinksHaveAccounts, Exists, Rows, Link
<1>8. DefaultsGo'
  <2> SUFFICES ASSUME NEW t \in DOMAIN linkTxs, NEW i \in DOMAIN links,
                      linkTxs[t].default, links[i].default, links[i].committed,
                      Rivals(links[i], linkTxs[t])', links[i].account # linkTxs[t].account
               PROVE  links[i].account \in linkTxs[t].clears \/ Excused(links[i])'
    BY DEF DefaultsGo
  <2>1. /\ links[i].account \in Account /\ linkTxs[t].account \in Account
        /\ links[i].project = linkTxs[t].project
        /\ accounts'[links[i].account].platform = accounts'[linkTxs[t].account].platform
    BY <1>1 DEF Link, LinkTx, Rivals
  <2>2. CASE /\ accounts[links[i].account].platform = accounts[linkTxs[t].account].platform
             /\ accounts'[links[i].account].platform = accounts[links[i].account].platform
    <3>1. links[i].account \in linkTxs[t].clears \/ Excused(links[i])
      BY <2>1, <2>2 DEF LinksInv, DefaultsGo, Rivals
    <3> QED
      BY <2>2, <3>1 DEF Excused
  <2>3. CASE /\ links[i].account = a \/ linkTxs[t].account = a
             /\ \A p \in LinkedTo(a) : <<p, accounts'[links[i].account].platform>> \in excused'
    BY <1>4, <1>5, <2>1, <2>3 DEF Excused
  <2> QED
    BY <1>3, <2>1, <2>2, <2>3
<1>9. DefaultsWait'
  <2> SUFFICES ASSUME NEW s \in DOMAIN linkTxs, NEW t \in DOMAIN linkTxs, s < t,
                      linkTxs[s].default, linkTxs[t].default, Rivals(linkTxs[s], linkTxs[t])'
               PROVE  linkTxs[s].account \in linkTxs[t].clears \/ Excused(linkTxs[t])'
    BY DEF DefaultsWait
  <2>1. /\ linkTxs[s].account \in Account /\ linkTxs[t].account \in Account
        /\ linkTxs[s].project = linkTxs[t].project
        /\ accounts'[linkTxs[t].account].platform = accounts'[linkTxs[s].account].platform
    BY <1>1 DEF LinkTx, Rivals
  <2>2. linkTxs[s].account # linkTxs[t].account
    <3>1. s \in Nat /\ t \in Nat
      BY <1>1, Indexes DEF CatalogueTypeOK
    <3> QED
      BY <2>1, <3>1 DEF LinksInv, TxsOnce, Same
  <2>3. CASE /\ accounts[linkTxs[t].account].platform = accounts[linkTxs[s].account].platform
             /\ accounts'[linkTxs[t].account].platform = accounts[linkTxs[t].account].platform
    <3>1. linkTxs[s].account \in linkTxs[t].clears \/ Excused(linkTxs[t])
      BY <2>1, <2>3 DEF LinksInv, DefaultsWait, Rivals
    <3> QED
      BY <2>3, <3>1 DEF Excused
  <2>4. CASE /\ linkTxs[t].account = a \/ linkTxs[s].account = a
             /\ \A p \in LinkedTo(a) : <<p, accounts'[linkTxs[t].account].platform>> \in excused'
    BY <1>5, <2>1, <2>4 DEF Excused
  <2> QED
    BY <1>3, <2>1, <2>2, <2>3, <2>4
<1>10. OneDefaultButForRaces'
  <2> SUFFICES ASSUME NEW i \in DOMAIN links, NEW j \in DOMAIN links, i # j,
                      links[i].project = links[j].project,
                      links[i].default, links[j].default, links[i].committed, links[j].committed,
                      accounts'[links[i].account].platform = accounts'[links[j].account].platform
               PROVE  <<links[i].project, accounts'[links[i].account].platform>> \in excused'
    BY DEF OneDefaultButForRaces
  <2>1. /\ links[i].account \in Account /\ links[j].account \in Account
        /\ links[i].account # links[j].account
    BY <1>1 DEF LinksInv, LinksOnce, Same, Link
  <2>2. CASE /\ accounts[links[i].account].platform = accounts[links[j].account].platform
             /\ accounts'[links[i].account].platform = accounts[links[i].account].platform
    <3>1. <<links[i].project, accounts[links[i].account].platform>> \in excused
      BY <2>2 DEF LinksInv, OneDefaultButForRaces
    <3> QED
      BY <2>2, <3>1
  <2>3. CASE /\ links[i].account = a \/ links[j].account = a
             /\ \A p \in LinkedTo(a) : <<p, accounts'[links[i].account].platform>> \in excused'
    BY <1>4, <2>3
  <2> QED
    BY <1>3, <2>1, <2>2, <2>3
<1> QED
  BY <1>6, <1>7, <1>8, <1>9, <1>10 DEF LinksInv

LEMMA CreateKeeps ==
  ASSUME LinksInv, CatalogueTypeOK', NEW a \in Account, NEW platform \in Platform,
         NEW profile \in Session \cup {None}, NEW p \in Project \cup {None},
         CreateAccount(a, platform, profile, p)
  PROVE  LinksInv'
<1>1. /\ CatalogueTypeOK /\ DOMAIN accounts = Account /\ links \in Seq(Link)
      /\ \A i \in DOMAIN links : links[i] \in Link
      /\ \A t \in DOMAIN linkTxs : linkTxs[t] \in LinkTx
  BY RowsTyped DEF LinksInv, CatalogueTypeOK
<1> DEFINE row == [platform |-> platform, profile |-> profile, tokens |-> FALSE]
           l == [project |-> p, account |-> a, default |-> FALSE, committed |-> TRUE]
           I == Len(links) + 1
<1>2. /\ a \notin made /\ accounts' = [accounts EXCEPT ![a] = row] /\ made' = made \cup {a}
      /\ UNCHANGED <<linkTxs, excused>>
      /\ links' = IF p = None THEN links ELSE Append(links, l)
  BY DEF CreateAccount
<1>3. row # None
  <2>1. row \in AccountRow
    BY DEF AccountRow
  <2> QED
    BY <2>1, RowsAssumption
<1>4. /\ accounts'[a] # None /\ DOMAIN accounts' = Account
      /\ \A b \in Account : b # a => accounts'[b] = accounts[b]
  BY <1>1, <1>2, <1>3
<1>5. accounts[a] = None
  BY <1>1, <1>2 DEF LinksInv, Rows
<1>6. \A i \in DOMAIN links : links[i].account # a /\ links[i].account \in Account
  BY <1>1, <1>5 DEF LinksInv, LinksHaveAccounts, Exists, Link
<1>7. \A t \in DOMAIN linkTxs : linkTxs[t].account # a /\ linkTxs[t].account \in Account
  BY <1>1, <1>6 DEF LinksInv, TxsHaveLinks, Same, LinkTx
<1>8. p # None => /\ Len(links) \in Nat /\ DOMAIN links = 1..Len(links) /\ DOMAIN links' = 1..I
                  /\ links'[I] = l /\ \A i \in DOMAIN links : links'[i] = links[i]
  <2>1. p # None => l \in Link
    BY DEF Link
  <2> QED
    BY <1>1, <1>2, <2>1, Appended
<1>9. /\ \A i \in DOMAIN links : i \in DOMAIN links' /\ links'[i] = links[i]
      /\ \A i \in DOMAIN links' : \/ i \in DOMAIN links
                                  \/ links'[i] = l /\ i = I /\ i \notin DOMAIN links
  BY <1>2, <1>8
<1>10. l.account = a /\ l.default = FALSE /\ l.committed = TRUE
  OBVIOUS
<1> HIDE DEF row, l, I
<1>11. \A i \in DOMAIN links : accounts'[links[i].account] = accounts[links[i].account]
  BY <1>4, <1>6
<1>12. \A t \in DOMAIN linkTxs : accounts'[linkTxs[t].account] = accounts[linkTxs[t].account]
  BY <1>4, <1>7
<1>13. LinksOnce'
  BY <1>6, <1>9, <1>10 DEF LinksInv, LinksOnce, Same
<1>14. LinksHaveAccounts'
  BY <1>4, <1>9, <1>10, <1>11, <1>6, <1>1 DEF LinksInv, LinksHaveAccounts, Exists
<1>15. TxsOnce' /\ TxsHaveLinks' /\ UncommittedHaveTxs'
  BY <1>2, <1>9, <1>10 DEF LinksInv, TxsOnce, TxsHaveLinks, UncommittedHaveTxs, Same
<1>16. (Rows(accounts) \subseteq made)'
  BY <1>1, <1>2, <1>4 DEF LinksInv, Rows
<1>17. DefaultsGo'
  <2> SUFFICES ASSUME NEW t \in DOMAIN linkTxs, NEW i \in DOMAIN links',
                      linkTxs[t].default, links'[i].default, links'[i].committed,
                      Rivals(links[i], linkTxs[t])', links'[i].account # linkTxs[t].account
               PROVE  links'[i].account \in linkTxs[t].clears \/ Excused(links[i])'
    BY <1>2 DEF DefaultsGo
  <2>1. i \in DOMAIN links /\ links'[i] = links[i]
    BY <1>9, <1>10
  <2>2. Rivals(links[i], linkTxs[t])
    BY <1>2, <1>11, <1>12, <2>1 DEF Rivals
  <2>3. links[i].account \in linkTxs[t].clears \/ Excused(links[i])
    BY <2>1, <2>2 DEF LinksInv, DefaultsGo
  <2> QED
    BY <1>2, <1>11, <2>1, <2>3 DEF Excused
<1>18. DefaultsWait'
  BY <1>2, <1>12 DEF LinksInv, DefaultsWait, Rivals, Excused
<1>19. OneDefaultButForRaces'
  <2> SUFFICES ASSUME NEW i \in DOMAIN links', NEW j \in DOMAIN links', i # j,
                      links'[i].project = links'[j].project,
                      links'[i].default, links'[j].default, links'[i].committed, links'[j].committed,
                      accounts'[links'[i].account].platform = accounts'[links'[j].account].platform
               PROVE  <<links'[i].project, accounts'[links'[i].account].platform>> \in excused
    BY <1>2 DEF OneDefaultButForRaces
  <2>1. /\ i \in DOMAIN links /\ links'[i] = links[i]
        /\ j \in DOMAIN links /\ links'[j] = links[j]
    BY <1>9, <1>10
  <2>2. <<links[i].project, accounts[links[i].account].platform>> \in excused
    BY <1>11, <2>1 DEF LinksInv, OneDefaultButForRaces
  <2> QED
    BY <1>11, <2>1, <2>2
<1> QED
  BY <1>13, <1>14, <1>15, <1>16, <1>17, <1>18, <1>19 DEF LinksInv

-----------------------------------------------------------------------------
LEMMA LinksKeep ==
  ASSUME LinksInv, [CatalogueNext]_catalogueVars
  PROVE  LinksInv'
<1>1. CatalogueTypeOK /\ CatalogueTypeOK'
  BY CatalogueTypes DEF LinksInv
<1>2. ASSUME NEW p \in Project, UpsertPlot(p) PROVE LinksInv'
  BY <1>1, <1>2, LinksUndisturbed DEF UpsertPlot
<1>3. ASSUME NEW p \in Project, NEW d \in Defaults, CreateProject(p, d) \/ UpdateProject(p, d)
      PROVE  LinksInv'
  BY <1>1, <1>3, LinksUndisturbed DEF CreateProject, UpdateProject
<1>4. ASSUME NEW s \in Sheet, DeleteSheet(s) PROVE LinksInv'
  BY <1>1, <1>4, LinksUndisturbed DEF DeleteSheet
<1>5. ASSUME NEW s \in Sheet, NEW p \in Project, NEW k \in Kind, CreateSheet(s, p, k)
      PROVE  LinksInv'
  BY <1>1, <1>5, LinksUndisturbed DEF CreateSheet
<1>6. ASSUME NEW a \in Account, SetOAuth(a) PROVE LinksInv'
  <2> DEFINE row == [accounts[a] EXCEPT !.tokens = TRUE]
  <2>1. Exists(accounts, a) /\ accounts[a] \in AccountRow
    BY <1>1, <1>6, RowsTyped DEF SetOAuth
  <2>2. row \in AccountRow /\ row.platform = accounts[a].platform
    BY <2>1 DEF AccountRow
  <2>3. accounts' = [accounts EXCEPT ![a] = row]
    BY <1>6 DEF SetOAuth
  <2>4. UNCHANGED <<links, linkTxs, made, excused>>
    BY <1>6 DEF SetOAuth
  <2> HIDE DEF row
  <2> QED
    BY <1>1, <2>1, <2>2, <2>3, <2>4, EditKeeps
<1>7. ASSUME NEW a \in Account, NEW platform \in Platform, NEW profile \in Session \cup {None},
             NEW extra \in BOOLEAN, EditAccount(a, platform, profile, extra)
      PROVE  LinksInv'
  <2> DEFINE row == [platform |-> platform, profile |-> profile,
                     tokens |-> accounts[a].tokens /\ ~extra]
  <2>1. Exists(accounts, a) /\ accounts[a] \in AccountRow
    BY <1>1, <1>7, RowsTyped DEF EditAccount
  <2>2. row \in AccountRow /\ row.platform = platform
    BY <2>1 DEF AccountRow
  <2>3. accounts' = [accounts EXCEPT ![a] = row]
    BY <1>7 DEF EditAccount
  <2>4. /\ UNCHANGED <<links, linkTxs, made>>
        /\ excused' = IF platform = accounts[a].platform THEN excused
                      ELSE excused \cup {<<p, platform>> : p \in LinkedTo(a)}
    BY <1>7 DEF EditAccount
  <2>5. \/ row.platform = accounts[a].platform
        \/ \A p \in LinkedTo(a) : <<p, row.platform>> \in excused'
    BY <2>2, <2>4
  <2> HIDE DEF row
  <2> QED
    BY <1>1, <2>1, <2>2, <2>3, <2>4, <2>5, EditKeeps
<1>8. ASSUME NEW t \in Template, NEW steps \in StepLists, CreateTemplate(t, steps) PROVE LinksInv'
  BY <1>1, <1>8, LinksUndisturbed DEF CreateTemplate
<1>9. ASSUME NEW t \in Template, NEW row \in TemplateRow, ReadTemplate(t, row) PROVE LinksInv'
  BY <1>1, <1>9, LinksUndisturbed DEF ReadTemplate
<1>10. ASSUME NEW e \in edits, SaveTemplate(e) PROVE LinksInv'
  BY <1>1, <1>10, LinksUndisturbed DEF SaveTemplate
<1>11. ASSUME NEW f \in FormatId, DeleteFormat(f) \/ \E scope \in {"user", "system"} : SaveFormat(f, scope)
       PROVE  LinksInv'
  BY <1>1, <1>11, LinksUndisturbed DEF DeleteFormat, SaveFormat
<1>12. CASE UNCHANGED catalogueVars
  BY <1>1, <1>12, LinksUndisturbed DEF catalogueVars
<1> QED
  BY <1>1, <1>2, <1>3, <1>4, <1>5, <1>6, <1>7, <1>8, <1>9, <1>10, <1>11, <1>12, DropsKeep,
     CreateKeeps, UnlinkKeeps, BeginKeeps, CommitKeeps, AbortKeeps, CrashKeeps DEF CatalogueNext

(***************************************************************************)
(* Metrics                                                                 *)
(***************************************************************************)

\* Whatever the ticker, the worker, users and time do to upload records and their metrics.
MetricsNext ==
  \/ \E rows \in SUBSET Run : Tick(rows)
  \/ \E d \in todo : FetchYouTube(d) \/ RequestMetrics(d) \/ SkipRow(d)
  \/ \E d \in requests : AnswerMetrics(d) \/ LoseMetrics(d)
  \/ \E r \in results : RecordMetrics(r)
  \/ Age \/ CrashTicker
  \/ \E r \in Run : Publish(r) \/ ForgetRun(r)
  \/ \E r \in Run, row \in RecordRow :
       records' = [records EXCEPT ![r] = row] /\ UNCHANGED <<fetched, fresh, todo, requests, results>>
  \/ \E a \in Account : ForgetAccount(a)

\* What is listed once is listed no more when it is removed, and everything else still is.
LEMMA RemoveFirstIs ==
  ASSUME NEW S, NEW s \in Seq(S), IsInjective(s), NEW e
  PROVE  LET t == RemoveFirst(s, e)
         IN  /\ t \in Seq(S) /\ IsInjective(t)
             /\ \A k \in DOMAIN t : t[k] # e
             /\ \A i \in DOMAIN s : s[i] # e => \E k \in DOMAIN t : t[k] = s[i]
<1>1. Len(s) \in Nat /\ DOMAIN s = 1..Len(s)
  BY LenProperties
<1> DEFINE I == {i \in 1..Len(s) : s[i] = e}
           t == RemoveFirst(s, e)
<1>2. CASE I = {}
  <2>1. t = s /\ \A i \in DOMAIN s : s[i] # e
    BY <1>1, <1>2 DEF RemoveFirst
  <2> QED
    BY <2>1
<1>3. CASE I # {}
  <2> DEFINE j == Min(I)
  <2>1. t = RemoveAt(s, j)
    BY <1>3 DEF RemoveFirst, SelectInSeq
  <2>2. j \in I
    <3>1. I \in SUBSET Nat
      BY <1>1
    <3> HIDE DEF I
    <3> QED
      BY <1>3, <3>1, Least
  <2>3. j \in DOMAIN s /\ s[j] = e
    BY <1>1, <2>2
  <2> HIDE DEF j, I, t
  <2>4. /\ t \in Seq(S) /\ Thinned(s, t)
        /\ \A k \in DOMAIN t : \E i \in DOMAIN s : i # j /\ t[k] = s[i]
        /\ \A i \in DOMAIN s : i # j => \E k \in DOMAIN t : t[k] = s[i]
    BY <2>1, <2>3, RemoveAtIs
  <2>5. \A i \in DOMAIN s : i # j => s[i] # e
    BY <2>3 DEF IsInjective
  <2>6. IsInjective(t)
    <3>1. PICK m : Stems(s, t, m)
      BY <2>4, ThinnedIs
    <3> QED
      BY <3>1 DEF Stems, IsInjective
  <2>7. \A k \in DOMAIN t : t[k] # e
    BY <2>4, <2>5
  <2>8. \A i \in DOMAIN s : s[i] # e => \E k \in DOMAIN t : t[k] = s[i]
    BY <2>3, <2>4
  <2> QED
    BY <2>4, <2>6, <2>7, <2>8 DEF t
<1> QED
  BY <1>2, <1>3

LEMMA RecordTypes ==
  ASSUME MetricsTypeOK, NEW r \in Run, Record(r)
  PROVE  /\ fetched' \in Seq(Run) /\ IsInjective(fetched)'
         /\ fresh' \subseteq {q \in Run : Listed(q)'}
<1>1. CASE ~Present(r)
  BY <1>1 DEF Record, MetricsTypeOK, Listed, IsInjective
<1>2. CASE Present(r)
  <2> DEFINE t == RemoveFirst(fetched, r)
  <2>1. fetched' = Append(t, r) /\ fresh' = fresh \cup {r}
    BY <1>2 DEF Record
  <2>2. fetched \in Seq(Run) /\ IsInjective(fetched)
    BY DEF MetricsTypeOK
  <2>3. /\ t \in Seq(Run) /\ IsInjective(t)
        /\ \A k \in DOMAIN t : t[k] # r
        /\ \A i \in DOMAIN fetched : fetched[i] # r => \E k \in DOMAIN t : t[k] = fetched[i]
    BY <2>2, RemoveFirstIs
  <2> HIDE DEF t
  <2>4. /\ fetched' \in Seq(Run) /\ Len(t) \in Nat /\ DOMAIN t = 1..Len(t)
        /\ DOMAIN fetched' = 1..(Len(t) + 1)
        /\ \A i \in DOMAIN t : fetched'[i] = t[i]
        /\ fetched'[Len(t) + 1] = r
    BY <2>1, <2>3, Appended
  <2>5. /\ \A k \in DOMAIN fetched' : k \in DOMAIN t \/ k = Len(t) + 1
        /\ Len(t) + 1 \in DOMAIN fetched' /\ \A k \in DOMAIN t : k \in DOMAIN fetched'
    BY <2>4
  <2>6. IsInjective(fetched)'
    BY <2>3, <2>4, <2>5 DEF IsInjective
  <2>7. ASSUME NEW q \in fresh' PROVE q \in Run /\ Listed(q)'
    <3>1. CASE q = r
      BY <2>4, <2>5, <3>1 DEF Listed
    <3>2. CASE q # r
      <4>1. q \in Run /\ Listed(q)
        BY <2>1, <2>7, <3>2 DEF MetricsTypeOK
      <4>2. PICK k \in DOMAIN t : t[k] = q
        BY <2>3, <3>2, <4>1 DEF Listed
      <4> QED
        BY <2>4, <2>5, <4>1, <4>2 DEF Listed
    <3> QED
      BY <3>1, <3>2
  <2> QED
    BY <2>4, <2>6, <2>7
<1> QED
  BY <1>1, <1>2

LEMMA MetricsTypes ==
  ASSUME MetricsTypeOK, [MetricsNext]_metricsVars
  PROVE  MetricsTypeOK'
<1>1. \A d \in todo \cup requests : d.record \in Run
  BY DEF MetricsTypeOK, DueRow
\* Steps that fetch nothing.
<1>2. ASSUME UNCHANGED <<fetched, fresh>>
      PROVE  /\ fetched' \in Seq(Run) /\ IsInjective(fetched)'
             /\ fresh' \subseteq {q \in Run : Listed(q)'}
  BY <1>2 DEF MetricsTypeOK, Listed, IsInjective
<1>3. ASSUME NEW rows \in SUBSET Run, Tick(rows) PROVE MetricsTypeOK'
  <2>1. \A r \in rows : records[r] \in RecordRow
    BY <1>3 DEF Tick, Chosen, Due, Present, MetricsTypeOK
  <2>2. \A r \in rows : [record |-> r, provider |-> records[r].provider] \in DueRow
    BY <2>1 DEF DueRow, RecordRow
  <2>3. todo' \subseteq DueRow
    BY <1>3, <2>2 DEF Tick
  <2> QED
    BY <1>2, <1>3, <2>3 DEF Tick, MetricsTypeOK
<1>4. ASSUME NEW d \in todo, FetchYouTube(d) PROVE MetricsTypeOK'
  <2>1. Record(d.record) /\ d.record \in Run
    BY <1>1, <1>4 DEF FetchYouTube
  <2> QED
    BY <1>4, <2>1, RecordTypes DEF FetchYouTube, MetricsTypeOK
<1>5. ASSUME NEW d \in todo, RequestMetrics(d) \/ SkipRow(d) PROVE MetricsTypeOK'
  BY <1>2, <1>5 DEF RequestMetrics, SkipRow, MetricsTypeOK
<1>6. ASSUME NEW d \in requests, AnswerMetrics(d) \/ LoseMetrics(d) PROVE MetricsTypeOK'
  BY <1>1, <1>2, <1>6 DEF AnswerMetrics, LoseMetrics, MetricsTypeOK
<1>7. ASSUME NEW r \in results, RecordMetrics(r) PROVE MetricsTypeOK'
  <2>1. Record(r) /\ r \in Run
    BY <1>7 DEF RecordMetrics, MetricsTypeOK
  <2> QED
    BY <1>7, <2>1, RecordTypes DEF RecordMetrics, MetricsTypeOK
<1>8. CASE Age
  BY <1>8 DEF Age, MetricsTypeOK, Listed, IsInjective
<1>9. CASE CrashTicker
  BY <1>2, <1>9 DEF CrashTicker, MetricsTypeOK
<1>10. ASSUME NEW r \in Run, Publish(r) PROVE MetricsTypeOK'
  <2>1. records[r] \in RecordRow
    BY <1>10 DEF Publish, Present, MetricsTypeOK
  <2>2. [records[r] EXCEPT !.ref = TRUE] \in RecordRow
    BY <2>1 DEF RecordRow
  <2> QED
    BY <1>2, <1>10, <2>2 DEF Publish, MetricsTypeOK
<1>11. ASSUME NEW r \in Run, ForgetRun(r) PROVE MetricsTypeOK'
  <2>1. fetched \in Seq(Run) /\ IsInjective(fetched)
    BY DEF MetricsTypeOK
  <2>2. /\ fetched' \in Seq(Run) /\ IsInjective(fetched')
        /\ \A i \in DOMAIN fetched : fetched[i] # r => \E k \in DOMAIN fetched' : fetched'[k] = fetched[i]
    BY <1>11, <2>1, RemoveFirstIs DEF ForgetRun
  <2>3. ASSUME NEW q \in fresh' PROVE q \in Run /\ Listed(q)'
    <3>1. q \in Run /\ q # r /\ Listed(q)
      BY <1>11, <2>3 DEF ForgetRun, MetricsTypeOK
    <3> QED
      BY <2>2, <3>1 DEF Listed
  <2> QED
    BY <1>11, <2>2, <2>3 DEF ForgetRun, MetricsTypeOK
<1>12. ASSUME NEW r \in Run, NEW row \in RecordRow, records' = [records EXCEPT ![r] = row],
              UNCHANGED <<fetched, fresh, todo, requests, results>>
       PROVE  MetricsTypeOK'
  BY <1>2, <1>12 DEF MetricsTypeOK
<1>13. ASSUME NEW a \in Account, ForgetAccount(a) PROVE MetricsTypeOK'
  <2> DEFINE row(r) == IF Present(r) /\ records[r].account = a
                       THEN [records[r] EXCEPT !.account = None] ELSE records[r]
  <2>1. records' = [r \in Run |-> row(r)]
    BY <1>13 DEF ForgetAccount
  <2>2. ASSUME NEW r \in Run PROVE row(r) \in RecordRow \cup {None}
    <3>1. CASE Present(r)
      <4>1. records[r] \in RecordRow
        BY <3>1 DEF Present, MetricsTypeOK
      <4>2. [records[r] EXCEPT !.account = None] \in RecordRow
        BY <4>1 DEF RecordRow
      <4> QED
        BY <4>1, <4>2
    <3>2. CASE ~Present(r)
      BY <3>2 DEF MetricsTypeOK
    <3> QED
      BY <3>1, <3>2
  <2>3. records' \in [Run -> RecordRow \cup {None}]
    <3> HIDE DEF row
    <3> QED
      BY <2>1, <2>2
  <2> QED
    BY <1>2, <1>13, <2>3 DEF ForgetAccount, MetricsTypeOK
<1>14. CASE UNCHANGED metricsVars
  BY <1>2, <1>14 DEF metricsVars, MetricsTypeOK
<1> QED
  BY <1>3, <1>4, <1>5, <1>6, <1>7, <1>8, <1>9, <1>10, <1>11, <1>12, <1>13, <1>14 DEF MetricsNext

(***************************************************************************)
(* The settings and steps of runs                                          *)
(***************************************************************************)

\* Layers of settings keep their types, whatever fills whose gaps.
LEMMA FilledTyped ==
  ASSUME NEW s, NEW t, SettingsTyped(s), SettingsTyped(t)
  PROVE  SettingsTyped(s ++ t)
<1> DEFINE u == s ++ t
<1>1. /\ DOMAIN u = DOMAIN s \cup DOMAIN t
      /\ \A f \in DOMAIN u : u[f] = IF f \in DOMAIN s THEN s[f] ELSE t[f]
  BY DEF ++, States
<1> HIDE DEF u
<1> QED
  BY <1>1 DEF SettingsTyped, States, u

LEMMA StatedTyped ==
  ASSUME NEW s, NEW fields, SettingsTyped(s) \/ {"auto_assemble", "language", "steps"} \cap fields = {}
  PROVE  SettingsTyped(Stated(s, fields))
<1> DEFINE u == Stated(s, fields)
<1>1. DOMAIN u = DOMAIN s \cap fields /\ \A f \in DOMAIN u : u[f] = s[f]
  BY DEF Stated, Restrict
<1> HIDE DEF u
<1> QED
  BY <1>1 DEF SettingsTyped, States, u

LEMMA MergedTyped ==
  ASSUME NEW ov, NEW id, NEW defaults, SettingsTyped(ov), SettingsTyped(defaults)
  PROVE  SettingsTyped(Merged(ov, id, defaults))
<1> DEFINE f == FormatOf(id, defaults)
<1> HIDE DEF f
<1>1. SettingsTyped(Stated(f, FormatFields))
  <2>1. {"auto_assemble", "language", "steps"} \cap FormatFields = {}
    BY DEF FormatFields, Takes
  <2> QED
    BY <2>1, StatedTyped
<1>2. SettingsTyped(ov ++ Stated(f, FormatFields))
  BY <1>1, FilledTyped
<1>3. \A x : SettingsTyped([system_prompt |-> x])
  BY DEF SettingsTyped, States
<1>4. SettingsTyped(applyFormat(ov, f))
  BY <1>2, <1>3, FilledTyped DEF applyFormat
<1>5. SettingsTyped(Stated(defaults, ProjectFields))
  BY StatedTyped
<1> QED
  BY <1>4, <1>5, FilledTyped DEF Merged, mergeProjectDefaults, f

LEMMA PickedTyped ==
  ASSUME NEW ov, NEW links1, NEW table, SettingsTyped(ov)
  PROVE  SettingsTyped(WithProvider(WithAccount(ov, links1), table))
<1>1. \A x : SettingsTyped([social_account_ids |-> x]) /\ SettingsTyped([provider |-> x])
  BY DEF SettingsTyped, States
<1>2. SettingsTyped(WithAccount(ov, links1))
  BY <1>1, FilledTyped DEF WithAccount
<1> QED
  BY <1>1, <1>2, FilledTyped DEF WithProvider

\* Steps, wherever they are put together from.
StepTyped(s) == DOMAIN s = {"kind", "params"} /\ s.kind \in DOMAIN Takes \cup {"caption", "upload"}

LEMMA TypedSteps ==
  ASSUME NEW S, NEW steps \in Seq(S), \A i \in DOMAIN steps : StepTyped(steps[i])
  PROVE  StepsTyped(steps)
<1>1. Len(steps) \in Nat /\ DOMAIN steps = 1..Len(steps) /\ steps = [i \in 1..Len(steps) |-> steps[i]]
  BY LenProperties, SeqDef
<1>2. steps \in [1..Len(steps) -> Range(steps)]
  BY <1>1 DEF Range
<1>3. steps \in Seq(Range(steps))
  BY <1>1, <1>2, SeqOfFunction
<1> QED
  BY <1>3 DEF StepsTyped, StepTyped

LEMMA StepsAre ==
  ASSUME NEW steps, StepsTyped(steps)
  PROVE  /\ steps \in Seq(Range(steps)) /\ Len(steps) \in Nat /\ DOMAIN steps = 1..Len(steps)
         /\ \A i \in DOMAIN steps : StepTyped(steps[i])
BY LenProperties DEF StepsTyped, StepTyped

\* Steps replaced one by one.
LEMMA ReplacedTyped ==
  ASSUME NEW steps, StepsTyped(steps), NEW t, t = [i \in DOMAIN steps |-> t[i]],
         \A i \in DOMAIN steps : StepTyped(t[i])
  PROVE  StepsTyped(t)
<1> DEFINE S == {t[i] : i \in DOMAIN steps}
<1>1. Len(steps) \in Nat /\ DOMAIN steps = 1..Len(steps)
  BY StepsAre
<1>2. t \in [1..Len(steps) -> S] /\ DOMAIN t = DOMAIN steps
  BY <1>1
<1> HIDE DEF S
<1>3. t \in Seq(S)
  BY <1>1, <1>2, SeqOfFunction
<1> QED
  BY <1>2, <1>3, TypedSteps

LEMMA WithParamsTyped ==
  ASSUME NEW steps, StepsTyped(steps), NEW kind, NEW params
  PROVE  StepsTyped(WithParams(steps, kind, params))
<1> DEFINE i == FirstStep(steps, kind)
           t == [steps EXCEPT ![i].params = params ++ @]
<1> HIDE DEF i
<1>1. ASSUME NEW k \in DOMAIN steps PROVE StepTyped(t[k])
  <2>1. StepTyped(steps[k])
    BY StepsAre
  <2>2. t[k] = IF k = i THEN [steps[k] EXCEPT !.params = params ++ @] ELSE steps[k]
    OBVIOUS
  <2> HIDE DEF t
  <2> QED
    BY <2>1, <2>2 DEF StepTyped
<1>2. t = [k \in DOMAIN steps |-> t[k]]
  OBVIOUS
<1> HIDE DEF t
<1>3. StepsTyped(t)
  BY <1>1, <1>2, ReplacedTyped
<1> QED
  BY <1>3 DEF WithParams, t, i

\* Steps one after the other.
LEMMA JoinedTyped ==
  ASSUME NEW S, NEW s \in Seq(S), NEW t \in Seq(S),
         \A i \in DOMAIN s : StepTyped(s[i]), \A i \in DOMAIN t : StepTyped(t[i])
  PROVE  s \o t \in Seq(S) /\ \A i \in DOMAIN (s \o t) : StepTyped((s \o t)[i])
<1> DEFINE u == s \o t
<1>1. /\ Len(s) \in Nat /\ DOMAIN s = 1..Len(s) /\ Len(t) \in Nat /\ DOMAIN t = 1..Len(t)
  BY LenProperties
<1>2. /\ u \in Seq(S) /\ Len(u) = Len(s) + Len(t)
      /\ \A i \in 1..(Len(s) + Len(t)) : u[i] = IF i <= Len(s) THEN s[i] ELSE t[i - Len(s)]
  BY ConcatProperties
<1> HIDE DEF u
<1>3. DOMAIN u = 1..(Len(s) + Len(t))
  BY <1>2, LenProperties
<1>4. ASSUME NEW i \in DOMAIN u PROVE StepTyped(u[i])
  <2>1. i \in 1..(Len(s) + Len(t))
    BY <1>3
  <2>2. CASE i <= Len(s)
    BY <1>1, <1>2, <2>1, <2>2
  <2>3. CASE ~(i <= Len(s))
    <3>1. i - Len(s) \in DOMAIN t /\ u[i] = t[i - Len(s)]
      BY <1>1, <1>2, <2>1, <2>3
    <3> QED
      BY <3>1
  <2> QED
    BY <2>2, <2>3
<1> QED
  BY <1>2, <1>4 DEF u

\* The last step of a kind is a step, if there is one.
LEMMA Largest ==
  ASSUME NEW n \in Nat, NEW T \in SUBSET (1..n), T # {}
  PROVE  Max(T) \in T
<1> DEFINE U == {n - k : k \in T}
<1>1. U \in SUBSET Nat /\ U # {}
  <2>1. PICK k \in T : TRUE
    OBVIOUS
  <2>2. n - k \in U /\ \A j \in T : n - j \in Nat
    BY <2>1
  <2> QED
    BY <2>2
<1>2. Min(U) \in U /\ \A u \in U : Min(U) <= u
  <2> HIDE DEF U
  <2> QED
    BY <1>1, Least
<1>3. PICK m \in T : Min(U) = n - m
  BY <1>2
<1>4. \A k \in T : n - m <= n - k
  BY <1>2, <1>3
<1>5. \A k \in T : m >= k
  BY <1>4
<1> QED
  BY <1>5 DEF Max

LEMMA LastStepIs ==
  ASSUME NEW steps, StepsTyped(steps), NEW kind
  PROVE  LastStep(steps, kind) \in 0..Len(steps)
<1> DEFINE I == {i \in 1..Len(steps) : steps[i].kind = kind}
<1>1. LastStep(steps, kind) = IF I # {} THEN Max(I) ELSE 0
  BY DEF LastStep, SelectLastInSeq
<1>2. Len(steps) \in Nat /\ I \in SUBSET (1..Len(steps))
  BY StepsAre
<1> HIDE DEF I
<1>3. I # {} => Max(I) \in 1..Len(steps)
  BY <1>2, Largest
<1> QED
  BY <1>1, <1>2, <1>3

LEMMA AudioStepTyped ==
  ASSUME NEW steps, StepsTyped(steps), NEW enable
  PROVE  StepsTyped(setAudioStep(steps, enable))
<1> DEFINE audio == LastStep(steps, "audio")
           assemble == LastStep(steps, "assemble")
           at == IF assemble # 0 THEN assemble ELSE LastStep(steps, "image") + 1
           new == NewStep("audio", NoSettings)
           S == Range(steps) \cup {new}
<1>1. /\ steps \in Seq(Range(steps)) /\ Len(steps) \in Nat /\ DOMAIN steps = 1..Len(steps)
      /\ \A i \in DOMAIN steps : StepTyped(steps[i])
  BY StepsAre
<1>2. audio \in 0..Len(steps) /\ at \in 1..(Len(steps) + 1)
  BY <1>1, LastStepIs
<1>3. steps \in Seq(S)
  <2>1. Range(steps) \subseteq S
    OBVIOUS
  <2> QED
    BY <1>1, <2>1, SeqMonotonic
<1>4. StepTyped(new) /\ new \in S
  BY DEF NewStep, StepTyped, Takes
<1>5. setAudioStep(steps, enable)
        = IF enable THEN IF audio # 0 THEN steps ELSE InsertAt(steps, at, new)
          ELSE IF audio = 0 THEN steps ELSE RemoveAt(steps, audio)
  BY DEF setAudioStep
<1> HIDE DEF audio, assemble, at, new, S
<1>6. StepsTyped(InsertAt(steps, at, new))
  <2> DEFINE a == SubSeq(steps, 1, at - 1)
             b == SubSeq(steps, at, Len(steps))
             x == <<new>>
  <2>1. \A i, j \in Nat : i \in 1..(Len(steps) + 1) /\ j \in (i - 1)..Len(steps) =>
          /\ SubSeq(steps, i, j) \in Seq(S) /\ Len(SubSeq(steps, i, j)) = j - i + 1
          /\ \A k \in 1..(j - i + 1) : SubSeq(steps, i, j)[k] = steps[i + k - 1]
    BY <1>3, <1>1, SubSeqProperties
  <2>2. \A i, j \in Nat : i \in 1..(Len(steps) + 1) /\ j \in (i - 1)..Len(steps) =>
          /\ SubSeq(steps, i, j) \in Seq(S)
          /\ \A k \in DOMAIN SubSeq(steps, i, j) : StepTyped(SubSeq(steps, i, j)[k])
    <3> SUFFICES ASSUME NEW i \in Nat, NEW j \in Nat, i \in 1..(Len(steps) + 1), j \in (i - 1)..Len(steps)
                 PROVE  /\ SubSeq(steps, i, j) \in Seq(S)
                        /\ \A k \in DOMAIN SubSeq(steps, i, j) : StepTyped(SubSeq(steps, i, j)[k])
      OBVIOUS
    <3> DEFINE c == SubSeq(steps, i, j)
    <3>1. c \in Seq(S) /\ Len(c) = j - i + 1 /\ \A k \in 1..(j - i + 1) : c[k] = steps[i + k - 1]
      BY <2>1
    <3> HIDE DEF c
    <3>2. DOMAIN c = 1..(j - i + 1)
      BY <3>1, LenProperties
    <3>3. ASSUME NEW k \in DOMAIN c PROVE StepTyped(c[k])
      <4>1. i + k - 1 \in DOMAIN steps /\ c[k] = steps[i + k - 1]
        BY <1>1, <3>1, <3>2
      <4> QED
        BY <1>1, <4>1
    <3> QED
      BY <3>1, <3>3 DEF c
  <2>3. /\ 1 \in Nat /\ at - 1 \in Nat /\ 1 \in 1..(Len(steps) + 1) /\ at - 1 \in (1 - 1)..Len(steps)
        /\ at \in Nat /\ at \in 1..(Len(steps) + 1) /\ Len(steps) \in (at - 1)..Len(steps)
    BY <1>1, <1>2
  <2>4. a \in Seq(S) /\ \A k \in DOMAIN a : StepTyped(a[k])
    BY <2>2, <2>3
  <2>5. b \in Seq(S) /\ \A k \in DOMAIN b : StepTyped(b[k])
    BY <1>1, <2>2, <2>3
  <2>6. x \in Seq(S) /\ \A k \in DOMAIN x : StepTyped(x[k])
    BY <1>4
  <2>7. InsertAt(steps, at, new) = (a \o x) \o b
    BY DEF InsertAt
  <2> HIDE DEF a, b, x
  <2>8. a \o x \in Seq(S) /\ \A k \in DOMAIN (a \o x) : StepTyped((a \o x)[k])
    BY <2>4, <2>6, JoinedTyped
  <2> DEFINE y == a \o x
  <2> HIDE DEF y
  <2>9. y \o b \in Seq(S) /\ \A k \in DOMAIN (y \o b) : StepTyped((y \o b)[k])
    <3>1. y \in Seq(S) /\ \A k \in DOMAIN y : StepTyped(y[k])
      BY <2>8 DEF y
    <3> QED
      BY <2>5, <3>1, JoinedTyped
  <2> DEFINE z == y \o b
  <2> HIDE DEF z
  <2>10. StepsTyped(z)
    <3>1. z \in Seq(S) /\ \A k \in DOMAIN z : StepTyped(z[k])
      BY <2>9 DEF z
    <3> QED
      BY <3>1, TypedSteps
  <2> QED
    BY <2>7, <2>10 DEF y, z
<1>7. audio # 0 => StepsTyped(RemoveAt(steps, audio))
  <2> SUFFICES ASSUME audio # 0 PROVE StepsTyped(RemoveAt(steps, audio))
    OBVIOUS
  <2> DEFINE t == RemoveAt(steps, audio)
  <2>1. audio \in DOMAIN steps
    BY <1>1, <1>2
  <2>2. t \in Seq(S) /\ \A k \in DOMAIN t : \E j \in DOMAIN steps : j # audio /\ t[k] = steps[j]
    BY <1>3, <2>1, RemoveAtIs
  <2> HIDE DEF t
  <2>3. \A k \in DOMAIN t : StepTyped(t[k])
    BY <1>1, <2>2
  <2> QED
    BY <2>2, <2>3, TypedSteps DEF t
<1> QED
  BY <1>5, <1>6, <1>7

LEMMA UploadStepsTyped ==
  ASSUME NEW steps, StepsTyped(steps), NEW ov
  PROVE  StepsTyped(setCaptionAndUploadSteps(steps, ov))
<1> DEFINE gone == {s \in Range(steps) : s.kind \in {"caption", "upload"}}
           others == Without(steps, gone)
           caption == NewStep("caption", Stated(ov, {"caption_model", "platforms", "caption_override"}))
           upload == NewStep("upload", Stated(ov, {"provider", "social_account_ids", "scheduled_at"}))
           S == Range(steps) \cup {caption, upload}
<1>1. /\ steps \in Seq(Range(steps)) /\ DOMAIN steps = 1..Len(steps)
      /\ \A i \in DOMAIN steps : StepTyped(steps[i])
  BY StepsAre
<1>2. StepTyped(caption) /\ StepTyped(upload) /\ caption \in S /\ upload \in S
  BY DEF NewStep, StepTyped
<1>3. setCaptionAndUploadSteps(steps, ov)
        = IF States(ov, "enabled") /\ ov.enabled THEN others \o <<caption, upload>> ELSE others
  BY DEF setCaptionAndUploadSteps
<1>4. others \in Seq(Range(steps))
  <2> HIDE DEF gone
  <2> QED
    BY <1>1, WithoutIs
<1> HIDE DEF gone, others, caption, upload
<1>5. Range(steps) \subseteq S /\ \A s \in Range(steps) : StepTyped(s)
  BY <1>1 DEF Range
<1> HIDE DEF S
<1>6. others \in Seq(S) /\ \A i \in DOMAIN others : StepTyped(others[i])
  <2>1. \A i \in DOMAIN others : others[i] \in Range(steps)
    BY <1>4, Indexes
  <2>2. others \in Seq(S)
    BY <1>4, <1>5, SeqMonotonic
  <2> QED
    BY <1>5, <2>1, <2>2
<1> DEFINE two == <<caption, upload>>
<1>7. two \in Seq(S) /\ \A i \in DOMAIN two : StepTyped(two[i])
  BY <1>2
<1> HIDE DEF two
<1>8. StepsTyped(others)
  BY <1>6, TypedSteps
<1> DEFINE all == others \o two
<1>9. all \in Seq(S) /\ \A i \in DOMAIN all : StepTyped(all[i])
  BY <1>6, <1>7, JoinedTyped
<1> HIDE DEF all
<1>10. StepsTyped(all)
  BY <1>9, TypedSteps
<1> QED
  BY <1>3, <1>8, <1>10 DEF all, two

LEMMA OverridesTyped ==
  ASSUME NEW template, StepsTyped(template), NEW ov, SettingsTyped(ov)
  PROVE  StepsTyped(applyOverrides(template, ov))
<1> DEFINE audio == IF States(ov, "enable_audio") THEN setAudioStep(template, ov.enable_audio)
                    ELSE template
           all == IF States(ov, "upload") THEN setCaptionAndUploadSteps(audio, ov) ELSE audio
           set == [i \in DOMAIN all |->
                IF all[i].kind \in DOMAIN Takes /\ i = FirstStep(all, all[i].kind)
                THEN [all[i] EXCEPT !.params = Stated(ov, Takes[all[i].kind]) ++ @] ELSE all[i]]
<1>1. applyOverrides(template, ov)
        = IF States(ov, "steps") THEN ov.steps ELSE WithParams(set, "assemble", Timing(set, ov))
  BY DEF applyOverrides
<1>2. StepsTyped(audio)
  BY AudioStepTyped
<1>3. StepsTyped(all)
  <2> HIDE DEF audio
  <2> QED
    BY <1>2, UploadStepsTyped
<1> HIDE DEF audio, all
<1>4. StepsTyped(set)
  <2>1. ASSUME NEW i \in DOMAIN all PROVE StepTyped(set[i])
    <3>1. StepTyped(all[i])
      BY <1>3, StepsAre
    <3>2. \E x : set[i] = all[i] \/ set[i] = [all[i] EXCEPT !.params = x]
      OBVIOUS
    <3> HIDE DEF set
    <3> QED
      BY <3>1, <3>2 DEF StepTyped
  <2>2. set = [i \in DOMAIN all |-> set[i]]
    OBVIOUS
  <2> HIDE DEF set
  <2> QED
    BY <1>3, <2>1, <2>2, ReplacedTyped
<1> HIDE DEF set
<1>5. StepsTyped(WithParams(set, "assemble", Timing(set, ov)))
  BY <1>4, WithParamsTyped
<1>6. States(ov, "steps") => StepsTyped(ov.steps)
  BY DEF SettingsTyped
<1> QED
  BY <1>1, <1>5, <1>6

LEMMA VideoDefaultsTyped ==
  ASSUME NEW steps, StepsTyped(steps), NEW defaults
  PROVE  StepsTyped(WithVideoDefaults(steps, defaults))
<1> DEFINE size == IF States(defaults, "primary_format") THEN Dimensions(defaults.primary_format)
                   ELSE NoSettings
           open == size ++ Stated(defaults, {"subtitles"})
           t == [i \in DOMAIN steps |->
                   IF steps[i].kind = "assemble" THEN [steps[i] EXCEPT !.params = @ ++ open]
                   ELSE steps[i]]
<1>1. WithVideoDefaults(steps, defaults) = t
  BY DEF WithVideoDefaults
<1> HIDE DEF open
<1>2. ASSUME NEW i \in DOMAIN steps PROVE StepTyped(t[i])
  <2>1. StepTyped(steps[i])
    BY StepsAre
  <2>2. \E x : t[i] = steps[i] \/ t[i] = [steps[i] EXCEPT !.params = x]
    OBVIOUS
  <2> HIDE DEF t
  <2> QED
    BY <2>1, <2>2 DEF StepTyped
<1>3. t = [i \in DOMAIN steps |-> t[i]]
  OBVIOUS
<1> HIDE DEF t
<1> QED
  BY <1>1, <1>2, <1>3, ReplacedTyped

\* What CreateRun makes of typed settings and steps is a run of typed steps, and its account,
\* if it has one, is a row.
LEMMA RunOfTyped ==
  ASSUME NEW template, StepsTyped(template), NEW ov, SettingsTyped(ov), NEW id,
         NEW defaults, SettingsTyped(defaults), NEW links1, NEW table,
         NEW language \in Languages \cup {None}
  PROVE  LET run == RunOf(template, ov, id, defaults, links1, table, language)
         IN  /\ StepsTyped(run.steps) /\ run.auto \in BOOLEAN /\ run.review \in BOOLEAN
             /\ run.language \in Languages
             /\ run.account # None => /\ run.account \in DOMAIN table
                                      /\ run.provider = table[run.account].platform
<1> DEFINE picked == WithProvider(WithAccount(Merged(ov, id, defaults), links1), table)
           account == Resolved(picked, table)
           over == applyOverrides(template, picked)
           steps == Enriched(over, picked, table, defaults)
           all == WithVideoDefaults(steps, defaults)
           auto == States(picked, "auto_assemble") => picked.auto_assemble
           lang == IF language # None THEN language
                   ELSE IF States(defaults, "language") THEN defaults.language ELSE "en"
           review == States(defaults, "review_mode") /\ defaults.review_mode = "review"
           provider == IF account = None THEN None ELSE table[account].platform
<1>1. RunOf(template, ov, id, defaults, links1, table, language)
        = [steps |-> all, auto |-> auto, language |-> lang, review |-> review,
           account |-> account, provider |-> provider]
  BY DEF RunOf
<1>2. SettingsTyped(picked)
  <2>1. SettingsTyped(Merged(ov, id, defaults))
    BY MergedTyped
  <2> QED
    BY <2>1, PickedTyped
<1> HIDE DEF picked
<1>3. StepsTyped(over)
  BY <1>2, OverridesTyped
<1> HIDE DEF over
<1>4. StepsTyped(steps)
  BY <1>3, WithParamsTyped DEF Enriched
<1> HIDE DEF steps
<1>5. StepsTyped(all)
  BY <1>4, VideoDefaultsTyped
<1>6. account # None => account \in DOMAIN table
  BY DEF Resolved
<1>7. lang \in Languages
  BY DEF SettingsTyped, Languages
<1>8. auto \in BOOLEAN /\ review \in BOOLEAN
  OBVIOUS
<1>9. account # None => provider = table[account].platform
  OBVIOUS
<1> HIDE DEF all, auto, lang, review, account, provider
<1> QED
  BY <1>1, <1>5, <1>6, <1>7, <1>8, <1>9

(***************************************************************************)
(* All of it in one process                                                *)
(***************************************************************************)

\* What CreateRun reads is typed.
LEMMA NewRunTyped ==
  ASSUME CatalogueTypeOK, scene \in Scene, NEW ask \in Ask, Exists(templates, ask.template)
  PROVE  /\ AskTyped(ask) /\ ask.template \in Template
         /\ StepsTyped(NewRun(ask).steps) /\ NewRun(ask).auto \in BOOLEAN
         /\ NewRun(ask).review \in BOOLEAN /\ NewRun(ask).language \in Languages
         /\ NewRun(ask).account # None => NewRun(ask).account \in Account
                                          /\ NewRun(ask).provider \in Platform
<1>1. AskTyped(ask)
  BY StudioAssumption DEF Ask
<1>2. ask.template \in Template /\ templates[ask.template] \in TemplateRow
  BY DEF Exists, CatalogueTypeOK
<1>3. StepsTyped(templates[ask.template].steps)
  BY <1>2, StudioAssumption DEF TemplateRow
<1>4. SettingsTyped(DefaultsOf(ask.project))
  <2>1. SettingsTyped(NoSettings)
    <3>1. DOMAIN NoSettings = {}
      BY DEF NoSettings
    <3> QED
      BY <3>1 DEF SettingsTyped, States
  <2>2. Exists(projects, ask.project) => projects[ask.project] \in Defaults
    BY DEF Exists, CatalogueTypeOK
  <2> QED
    BY <2>1, <2>2, StudioAssumption DEF DefaultsOf
<1>5. SettingsTyped(ask.ov) /\ ask.language \in Languages \cup {None}
  BY <1>1 DEF AskTyped
<1> DEFINE run == NewRun(ask)
<1>6. /\ StepsTyped(run.steps) /\ run.auto \in BOOLEAN /\ run.review \in BOOLEAN
      /\ run.language \in Languages
      /\ run.account # None => /\ run.account \in DOMAIN AccountRows
                               /\ run.provider = AccountRows[run.account].platform
  <2> DEFINE steps == templates[ask.template].steps
             defaults == DefaultsOf(ask.project)
             links1 == LinksOf(ask.project)
             table == AccountRows
             run1 == RunOf(steps, ask.ov, ask.format, defaults, links1, table, ask.language)
  <2>1. run = run1
    BY DEF NewRun
  <2>2. StepsTyped(steps) /\ SettingsTyped(defaults)
    BY <1>3, <1>4
  <2> HIDE DEF run, steps, defaults, links1, table
  <2>3. /\ StepsTyped(run1.steps) /\ run1.auto \in BOOLEAN /\ run1.review \in BOOLEAN
        /\ run1.language \in Languages
        /\ run1.account # None => run1.account \in DOMAIN table
                                  /\ run1.provider = table[run1.account].platform
    BY <1>5, <2>2, RunOfTyped
  <2> HIDE DEF run1
  <2> QED
    BY <2>1, <2>3 DEF table
<1> HIDE DEF run
<1>7. ASSUME run.account # None PROVE run.account \in Account /\ run.provider \in Platform
  <2>1. /\ DOMAIN AccountRows = Rows(accounts)
        /\ \A a \in Rows(accounts) : AccountRows[a] = accounts[a]
    BY DEF AccountRows, Restrict
  <2>2. \A a \in Rows(accounts) : a \in Account /\ accounts[a] \in AccountRow
    BY DEF Rows, CatalogueTypeOK
  <2>3. run.account \in Rows(accounts) /\ run.provider = accounts[run.account].platform
    BY <1>6, <1>7, <2>1
  <2> QED
    BY <2>2, <2>3 DEF AccountRow
<1> QED
  BY <1>1, <1>2, <1>6, <1>7 DEF run

\* Each run has its type and a template that is still there: templates are never deleted.
RunsInv ==
  /\ started \subseteq Run /\ DOMAIN runs = Run /\ Rows(runs) \subseteq started
  /\ \A r \in Rows(runs) : RunTyped(runs[r]) /\ Exists(templates, runs[r].template)

\* The invariant of the studio is those of its components.
StudioInv ==
  /\ LoginInv /\ AudioInv /\ LinksInv /\ MetricsTypeOK /\ StoreInv /\ RunsInv
  /\ scene \in Scene

LEMMA TemplatesStay ==
  ASSUME CatalogueTypeOK, [CatalogueNext]_catalogueVars, NEW t, Exists(templates, t)
  PROVE  Exists(templates', t)
<1>1. DOMAIN templates = Template /\ t \in Template /\ templates[t] # None
  BY DEF CatalogueTypeOK, Exists
<1>2. CASE templates' = templates
  BY <1>1, <1>2 DEF Exists
<1>3. ASSUME NEW u \in Template, NEW steps \in StepLists, CreateTemplate(u, steps)
      PROVE  Exists(templates', t)
  <2> DEFINE row == [steps |-> steps, is_test |-> FALSE]
  <2>1. row \in TemplateRow /\ templates' = [templates EXCEPT ![u] = row]
    BY <1>3 DEF CreateTemplate, TemplateRow
  <2> HIDE DEF row
  <2> QED
    BY <1>1, <2>1, RowsAssumption DEF Exists
<1>4. ASSUME NEW e \in edits, SaveTemplate(e) PROVE Exists(templates', t)
  <2>1. e.row \in TemplateRow /\ templates' = [templates EXCEPT ![e.template] = e.row]
    BY <1>4 DEF SaveTemplate, CatalogueTypeOK, Edit
  <2> QED
    BY <1>1, <2>1, RowsAssumption DEF Exists
<1>5. \/ templates' = templates
      \/ \E u \in Template, steps \in StepLists : CreateTemplate(u, steps)
      \/ \E e \in edits : SaveTemplate(e)
  BY DEF CatalogueNext, catalogueVars, DropProject, UpsertPlot, CreateProject, UpdateProject,
         DeleteSheet, CreateSheet, SetOAuth, DropAccount, CreateAccount, EditAccount, Unlink,
         BeginLink, CommitLink, AbortLink, ReadTemplate, DeleteFormat, SaveFormat, CrashCatalogue
<1> QED
  BY <1>2, <1>3, <1>4, <1>5

\* A step of the studio is one of some of its components while the others stand still.
ComponentsStep ==
  /\ [LoginNext]_loginVars /\ [AudioNext]_audioVars /\ [CatalogueNext]_catalogueVars
  /\ [MetricsNext]_metricsVars /\ [StoreNext]_storeVars /\ scene' = scene

\* What the steps below read of the state: ids that the studio has.
LEMMA ScenesAre ==
  ASSUME scene \in Scene
  PROVE  /\ SceneNamed[scene].templates \subseteq StepLists
         /\ SceneNamed[scene].defaults \subseteq Defaults
BY StudioAssumption

LEMMA UsersSteps ==
  ASSUME StudioInv, UNCHANGED storeVars,
         ByProject \/ BySheet \/ ByAccount \/ ByLink \/ ByTemplate \/ ByTrack \/ ByLogin \/ ByViewer
  PROVE  ComponentsStep
<1> USE DEF ComponentsStep
<1>1. /\ scene \in Scene /\ dirs \subseteq Session /\ DOMAIN projects = Project
      /\ accounts \in [Account -> AccountRow \cup {None}]
  BY DEF StudioInv, LoginInv, LoginTypeOK, LinksInv, CatalogueTypeOK
<1>2. CASE ByProject
  <2>1. scene' = scene
    BY <1>2 DEF ByProject, Spend
  <2>2. PICK p \in Project :
          \/ DeleteProject(p)
          \/ /\ \E d \in SceneNamed[scene].defaults : CreateProject(p, d) \/ UpdateProject(p, d)
             /\ UNCHANGED <<loginVars, audioVars, metricsVars, runVars>>
    BY <1>2 DEF ByProject
  <2>3. CASE DeleteProject(p)
    <3>1. DropProject(p) /\ CascadeTracks(p) /\ UNCHANGED <<loginVars, metricsVars>>
      BY <2>3 DEF DeleteProject
    <3>2. CatalogueNext /\ AudioNext
      BY <3>1 DEF CatalogueNext, AudioNext
    <3> QED
      BY <2>1, <3>1, <3>2
  <2>4. ASSUME NEW d \in SceneNamed[scene].defaults, CreateProject(p, d) \/ UpdateProject(p, d),
               UNCHANGED <<loginVars, audioVars, metricsVars, runVars>>
        PROVE  ComponentsStep
    <3>1. d \in Defaults
      BY <1>1, ScenesAre
    <3>2. CatalogueNext
      BY <2>4, <3>1 DEF CatalogueNext
    <3> QED
      BY <2>1, <2>4, <3>2
  <2> QED
    BY <2>2, <2>3, <2>4
<1>3. CASE BySheet
  <2>1. /\ scene' = scene /\ UNCHANGED <<loginVars, audioVars, metricsVars, runVars>>
        /\ \/ \E s \in Sheet : DeleteSheet(s) \/ \E p \in Project, k \in Kind : CreateSheet(s, p, k)
           \/ \E p \in Project : UpsertPlot(p)
    BY <1>3 DEF BySheet, Spend
  <2>2. CatalogueNext
    BY <2>1 DEF CatalogueNext
  <2> QED
    BY <2>1, <2>2
<1>4. CASE ByAccount
  <2>1. scene' = scene
    BY <1>4 DEF ByAccount, Spend
  <2>2. PICK a \in Account :
          \/ DeleteAccount(a)
          \/ /\ \/ SetOAuth(a)
                \/ \E platform \in Platform, p \in Project \cup {None} :
                     CreateAccount(a, platform, None, p)
                \/ \E platform \in Platform, extra \in BOOLEAN, profile \in {None} \cup dirs :
                     EditAccount(a, platform, profile, extra)
             /\ UNCHANGED <<loginVars, audioVars, metricsVars, runVars>>
    BY <1>4 DEF ByAccount
  <2>3. CASE DeleteAccount(a)
    <3>1. DropAccount(a) /\ ForgetAccount(a) /\ UNCHANGED <<loginVars, audioVars>>
      BY <2>3 DEF DeleteAccount
    <3>2. CatalogueNext /\ MetricsNext
      BY <3>1 DEF CatalogueNext, MetricsNext
    <3> QED
      BY <2>1, <3>1, <3>2
  <2>4. CASE SetOAuth(a) /\ UNCHANGED <<loginVars, audioVars, metricsVars, runVars>>
    <3>1. CatalogueNext
      BY <2>4 DEF CatalogueNext
    <3> QED
      BY <2>1, <2>4, <3>1
  <2>5. ASSUME NEW platform \in Platform, NEW p \in Project \cup {None},
               CreateAccount(a, platform, None, p),
               UNCHANGED <<loginVars, audioVars, metricsVars, runVars>>
        PROVE  ComponentsStep
    <3>1. None \in Session \cup {None}
      OBVIOUS
    <3>2. CatalogueNext
      BY <2>5, <3>1 DEF CatalogueNext
    <3> QED
      BY <2>1, <2>5, <3>2
  <2>6. ASSUME NEW platform \in Platform, NEW extra \in BOOLEAN, NEW profile \in {None} \cup dirs,
               EditAccount(a, platform, profile, extra),
               UNCHANGED <<loginVars, audioVars, metricsVars, runVars>>
        PROVE  ComponentsStep
    <3>1. profile \in Session \cup {None}
      BY <1>1
    <3>2. CatalogueNext
      BY <2>6, <3>1 DEF CatalogueNext
    <3> QED
      BY <2>1, <2>6, <3>2
  <2> QED
    BY <2>2, <2>3, <2>4, <2>5, <2>6
<1>5. CASE ByLink
  <2>1. /\ scene' = scene /\ UNCHANGED <<loginVars, audioVars, metricsVars, runVars>>
        /\ \E p \in Project, a \in Account :
             Unlink(p, a) \/ \E default \in BOOLEAN : BeginLink(p, a, default)
    BY <1>5 DEF ByLink, Spend
  <2>2. CatalogueNext
    BY <2>1 DEF CatalogueNext
  <2> QED
    BY <2>1, <2>2
<1>6. CASE ByTemplate
  <2>1. /\ scene' = scene /\ UNCHANGED <<loginVars, audioVars, metricsVars, runVars>>
        /\ \/ \E t \in Template, steps \in SceneNamed[scene].templates :
                \/ CreateTemplate(t, steps)
                \/ \E hide \in BOOLEAN : ReadTemplate(t, [steps |-> steps, is_test |-> hide])
           \/ \E f \in FormatId :
                DeleteFormat(f) \/ \E scope \in {"user", "system"} : SaveFormat(f, scope)
    BY <1>6 DEF ByTemplate, Spend
  <2>2. ASSUME NEW t \in Template, NEW steps \in SceneNamed[scene].templates,
               \/ CreateTemplate(t, steps)
               \/ \E hide \in BOOLEAN : ReadTemplate(t, [steps |-> steps, is_test |-> hide])
        PROVE  CatalogueNext
    <3>1. steps \in StepLists
      BY <1>1, ScenesAre
    <3>2. CASE CreateTemplate(t, steps)
      BY <3>1, <3>2 DEF CatalogueNext
    <3>3. ASSUME NEW hide \in BOOLEAN, ReadTemplate(t, [steps |-> steps, is_test |-> hide])
          PROVE  CatalogueNext
      <4> DEFINE row == [steps |-> steps, is_test |-> hide]
      <4>1. row \in TemplateRow
        BY <3>1 DEF TemplateRow
      <4> HIDE DEF row
      <4>2. ReadTemplate(t, row)
        BY <3>3 DEF row
      <4> QED
        BY <4>1, <4>2 DEF CatalogueNext
    <3> QED
      BY <2>2, <3>2, <3>3
  <2>3. ASSUME \E f \in FormatId :
                 DeleteFormat(f) \/ \E scope \in {"user", "system"} : SaveFormat(f, scope)
        PROVE  CatalogueNext
    BY <2>3 DEF CatalogueNext
  <2>4. CatalogueNext
    BY <2>1, <2>2, <2>3
  <2> QED
    BY <2>1, <2>4
<1>7. CASE ByTrack
  <2>1. /\ scene' = scene /\ UNCHANGED <<loginVars, catalogueVars, metricsVars, runVars>>
        /\ \E t \in Track :
             \/ PutFails(t) \/ RetagTrack(t) \/ DeleteTrack(t)
             \/ \E p \in Project \cup {None}, import \in BOOLEAN : PutObject(t, p, import)
    BY <1>7 DEF ByTrack, Spend
  <2>2. AudioNext
    BY <2>1 DEF AudioNext
  <2> QED
    BY <2>1, <2>2
<1>8. CASE ByLogin
  <2>1. /\ scene' = scene /\ UNCHANGED <<audioVars, catalogueVars, metricsVars, runVars>>
        /\ \/ \E s \in Session : Finish(s) \/ Cancel(s)
           \/ \E s \in Session, p \in Port, pr \in {None} \cup Rows(projects) : StartLogin(s, p, pr)
    BY <1>8 DEF ByLogin, Spend
  <2>2. {None} \cup Rows(projects) \subseteq Project \cup {None}
    BY <1>1 DEF Rows
  <2>3. LoginNext
    BY <2>1, <2>2 DEF LoginNext
  <2> QED
    BY <2>1, <2>3
<1>9. CASE ByViewer
  <2>1. /\ scene' = scene
        /\ \E a \in Account :
             \/ InspectAccount(a)
             \/ StopInspect(a) /\ UNCHANGED <<audioVars, catalogueVars, metricsVars, runVars>>
    BY <1>9 DEF ByViewer, Spend
  <2>2. ASSUME NEW a \in Account, InspectAccount(a)
        PROVE  LoginNext /\ UNCHANGED <<audioVars, catalogueVars, metricsVars>>
    <3>1. accounts[a].profile \in Session
      BY <1>1, <2>2 DEF InspectAccount, Exists, AccountRow
    <3>2. InspectRefused(a) \/ \E s \in Session, p \in Port : Inspect(a, s, accounts[a].profile, p)
      BY <2>2 DEF InspectAccount
    <3>3. LoginNext
      BY <3>1, <3>2 DEF LoginNext
    <3> QED
      BY <2>2, <3>3 DEF InspectAccount
  <2>3. ASSUME NEW a \in Account, StopInspect(a) PROVE LoginNext
    BY <2>3 DEF LoginNext
  <2> QED
    BY <2>1, <2>2, <2>3
<1> QED
  BY <1>2, <1>3, <1>4, <1>5, <1>6, <1>7, <1>8, <1>9

\* A run is created from what is typed, and the record of its upload with it.
LEMMA CreateRunIs ==
  ASSUME StudioInv, NEW r \in Run, NEW ask \in Ask, CreateRun(r, ask)
  PROVE  /\ [MetricsNext]_metricsVars
         /\ UNCHANGED <<loginVars, audioVars, catalogueVars>> /\ r \notin started
         /\ \E new : /\ runs' = [runs EXCEPT ![r] = new] /\ started' = started \cup {r}
                     /\ RunTyped(new) /\ Exists(templates, new.template)
<1> DEFINE run == NewRun(ask)
           context == IF ask.project = None THEN [sheets |-> {}, plot |-> FALSE]
                      ELSE LinkedContext(ask)
           new == [ask |-> ask, template |-> ask.template, project |-> ask.project,
                   steps |-> run.steps, auto |-> run.auto, language |-> run.language,
                   review |-> run.review, context |-> context]
           row == [account |-> run.account, provider |-> run.provider, ref |-> FALSE]
<1>1. /\ r \notin started /\ Exists(templates, ask.template)
      /\ runs' = [runs EXCEPT ![r] = new] /\ started' = started \cup {r}
      /\ records' = IF run.account = None THEN records ELSE [records EXCEPT ![r] = row]
      /\ UNCHANGED <<loginVars, audioVars, catalogueVars>>
      /\ UNCHANGED <<fetched, fresh, todo, requests, results>>
  BY DEF CreateRun
<1>2. CatalogueTypeOK /\ scene \in Scene
  BY DEF StudioInv, LinksInv
<1>3. /\ AskTyped(ask) /\ ask.template \in Template
      /\ StepsTyped(run.steps) /\ run.auto \in BOOLEAN
      /\ run.review \in BOOLEAN /\ run.language \in Languages
      /\ run.account # None => run.account \in Account /\ run.provider \in Platform
  BY <1>1, <1>2, NewRunTyped
<1> HIDE DEF run
<1>4. context \in [sheets : SUBSET Sheet, plot : BOOLEAN]
  <2>1. \A kind, ids : {s \in Rows(sheets) : /\ sheets[s].project = ask.project /\ sheets[s].kind = kind
                              /\ (ids = {} \/ s \in ids)} \subseteq Sheet
    BY <1>2 DEF Rows, CatalogueTypeOK
  <2>2. (ask.plot /\ ask.project \in plots) \in BOOLEAN
    BY <1>3 DEF AskTyped
  <2>3. LinkedContext(ask) \in [sheets : SUBSET Sheet, plot : BOOLEAN]
    BY <2>1, <2>2 DEF LinkedContext
  <2> QED
    BY <2>3
<1> HIDE DEF context
<1>5. RunTyped(new)
  <2>1. /\ DOMAIN new = {"ask", "template", "project", "steps", "auto", "language", "review", "context"}
        /\ new.template = ask.template /\ new.project = ask.project /\ new.steps = run.steps
        /\ new.auto = run.auto /\ new.review = run.review /\ new.language = run.language
        /\ new.context = context
    OBVIOUS
  <2> HIDE DEF new
  <2> QED
    BY <1>3, <1>4, <2>1 DEF RunTyped, AskTyped
<1>6. new.template = ask.template
  OBVIOUS
<1>7. [MetricsNext]_metricsVars
  <2>1. CASE run.account = None
    BY <1>1, <2>1 DEF metricsVars
  <2>2. CASE run.account # None
    <3>1. row \in RecordRow
      BY <1>3, <2>2 DEF RecordRow
    <3> HIDE DEF row
    <3>2. records' = [records EXCEPT ![r] = row] /\ UNCHANGED <<fetched, fresh, todo, requests, results>>
      BY <1>1, <2>2
    <3> QED
      BY <3>1, <3>2 DEF MetricsNext
  <2> QED
    BY <2>1, <2>2
<1> HIDE DEF new, row
<1> QED
  BY <1>1, <1>5, <1>6, <1>7

LEMMA RetryRunIs ==
  ASSUME StudioInv, NEW r \in Run, NEW old \in Run, RetryRun(r, old)
  PROVE  /\ UNCHANGED <<loginVars, audioVars, catalogueVars, metricsVars>> /\ r \notin started
         /\ \E new : /\ runs' = [runs EXCEPT ![r] = new] /\ started' = started \cup {r}
                     /\ RunTyped(new) /\ Exists(templates, new.template)
<1> DEFINE t == runs[old].template
           new == [ask |-> None, template |-> t, project |-> None,
                   steps |-> templates[t].steps, auto |-> TRUE, language |-> "en",
                   review |-> FALSE, context |-> [sheets |-> {}, plot |-> FALSE]]
<1>1. /\ r \notin started /\ Exists(runs, old)
      /\ runs' = [runs EXCEPT ![r] = new] /\ started' = started \cup {r}
      /\ UNCHANGED <<loginVars, audioVars, catalogueVars, metricsVars>>
  BY DEF RetryRun
<1>2. Exists(templates, t)
  BY <1>1 DEF StudioInv, RunsInv, Exists, Rows
<1>3. t \in Template /\ templates[t] \in TemplateRow
  BY <1>2 DEF Exists, StudioInv, LinksInv, CatalogueTypeOK
<1>4. StepsTyped(templates[t].steps)
  BY <1>3, StudioAssumption DEF TemplateRow
<1> HIDE DEF t
<1>5. RunTyped(new)
  <2>1. /\ DOMAIN new = {"ask", "template", "project", "steps", "auto", "language", "review", "context"}
        /\ new.template = t /\ new.project = None /\ new.steps = templates[t].steps
        /\ new.auto = TRUE /\ new.review = FALSE /\ new.language = "en"
        /\ new.context = [sheets |-> {}, plot |-> FALSE]
    OBVIOUS
  <2> HIDE DEF new
  <2>2. new.context \in [sheets : SUBSET Sheet, plot : BOOLEAN]
    BY <2>1
  <2> QED
    BY <1>3, <1>4, <2>1, <2>2 DEF RunTyped, Languages
<1>6. new.template = t
  OBVIOUS
<1> HIDE DEF new
<1> QED
  BY <1>1, <1>2, <1>5, <1>6 DEF t

LEMMA RunsSteps ==
  ASSUME StudioInv, UNCHANGED storeVars, ByRun \/ ByUpload
  PROVE  ComponentsStep
<1> USE DEF ComponentsStep
<1>1. CASE ByRun
  <2>1. scene' = scene /\ \E r \in Run :
          \/ \E ask \in Ask : CreateRun(r, ask)
          \/ \E old \in Run : RetryRun(r, old)
          \/ DeleteRun(r)
    BY <1>1 DEF ByRun, Spend
  <2>2. ASSUME NEW r \in Run, NEW ask \in Ask, CreateRun(r, ask) PROVE ComponentsStep
    BY <2>1, <2>2, CreateRunIs
  <2>3. ASSUME NEW r \in Run, NEW old \in Run, RetryRun(r, old) PROVE ComponentsStep
    BY <2>1, <2>3, RetryRunIs
  <2>4. ASSUME NEW r \in Run, DeleteRun(r) PROVE ComponentsStep
    <3>1. ForgetRun(r) /\ UNCHANGED <<loginVars, audioVars, catalogueVars>>
      BY <2>4 DEF DeleteRun
    <3>2. MetricsNext
      BY <3>1 DEF MetricsNext
    <3> QED
      BY <2>1, <3>1, <3>2
  <2> QED
    BY <2>1, <2>2, <2>3, <2>4
<1>2. CASE ByUpload
  <2>1. scene' = scene /\ \E r \in Run : UploadCompleted(r)
    BY <1>2 DEF ByUpload, Spend
  <2>2. MetricsNext /\ UNCHANGED <<loginVars, audioVars, catalogueVars>>
    BY <2>1 DEF UploadCompleted, MetricsNext
  <2> QED
    BY <2>1, <2>2
<1> QED
  BY <1>1, <1>2

LEMMA HandlersSteps ==
  ASSUME StudioInv, UNCHANGED storeVars, Handlers
  PROVE  ComponentsStep
<1> USE DEF ComponentsStep
<1>1. scene' = scene
  BY DEF Handlers, Free
<1>2. CASE /\ \/ \E i \in DOMAIN linkTxs : CommitLink(i) \/ AbortLink(i)
              \/ \E e \in edits : SaveTemplate(e)
           /\ UNCHANGED <<loginVars, audioVars, metricsVars, runVars>>
  <2>1. CatalogueNext
    BY <1>2 DEF CatalogueNext
  <2> QED
    BY <1>1, <1>2, <2>1
<1>3. CASE /\ \E c \in audioCalls : AudioStep(c, Rows(projects))
           /\ UNCHANGED <<loginVars, catalogueVars, metricsVars, runVars>>
  <2>1. Rows(projects) \in SUBSET Project
    BY DEF Rows, StudioInv, LinksInv, CatalogueTypeOK
  <2>2. AudioNext
    BY <1>3, <2>1 DEF AudioNext
  <2> QED
    BY <1>1, <1>3, <2>2
<1>4. CASE /\ \E c \in calls : Proceed(c)
           /\ UNCHANGED <<audioVars, catalogueVars, metricsVars, runVars>>
  <2>1. LoginNext
    BY <1>4 DEF LoginNext
  <2> QED
    BY <1>1, <1>4, <2>1
<1>5. ASSUME NEW c \in calls, PersistLogin(c) PROVE ComponentsStep
  <2>1. /\ Persisted(c)
        /\ \/ \E a \in Account, platform \in Platform :
                CreateAccount(a, platform, sess[c.s].dir, sess[c.s].project)
           \/ UNCHANGED catalogueVars
        /\ UNCHANGED <<audioVars, metricsVars, runVars>>
    BY <1>5 DEF PersistLogin
  <2>2. LoginNext
    BY <1>5, <2>1 DEF LoginNext
  <2>3. sess[c.s].dir \in Session \cup {None} /\ sess[c.s].project \in Project \cup {None}
    <3>1. LoginTypeOK
      BY DEF StudioInv, LoginInv
    <3>2. sess[c.s] \in FxSession
      BY <1>5, <3>1, CallTyped
    <3> QED
      BY <3>2 DEF FxSession
  <2>4. [CatalogueNext]_catalogueVars
    <3> DEFINE d == sess[c.s].dir
               pr == sess[c.s].project
    <3>1. d \in Session \cup {None} /\ pr \in Project \cup {None}
      BY <2>3
    <3> HIDE DEF d, pr
    <3>2. (\E a \in Account, platform \in Platform : CreateAccount(a, platform, d, pr))
          => CatalogueNext
      BY <3>1 DEF CatalogueNext
    <3> QED
      BY <2>1, <3>2 DEF d, pr
  <2> QED
    BY <1>1, <2>1, <2>2, <2>4
<1> QED
  BY <1>2, <1>3, <1>4, <1>5 DEF Handlers

LEMMA OtherSteps ==
  ASSUME StudioInv,
         \/ UNCHANGED storeVars /\ (Time \/ Failure \/ (Spend("crash") /\ Crash))
         \/ TickNow \/ TakeRow \/ (\E r \in Run : Answer(r) \/ Apply(r))
         \/ OnOneRun
  PROVE  ComponentsStep /\ runVars' = runVars
<1> USE DEF ComponentsStep
<1>1. CASE UNCHANGED storeVars /\ Time
  <2>1. scene' = scene /\ Age /\ UNCHANGED <<loginVars, audioVars, catalogueVars, runVars>>
    BY <1>1 DEF Time, Spend
  <2>2. MetricsNext
    BY <2>1 DEF MetricsNext
  <2> QED
    BY <1>1, <2>1, <2>2
<1>2. CASE UNCHANGED storeVars /\ Failure
  <2>1. /\ scene' = scene /\ UNCHANGED <<loginVars, audioVars, catalogueVars, runVars>>
        /\ (\E d \in todo : SkipRow(d)) \/ (\E d \in requests : LoseMetrics(d))
    BY <1>2 DEF Failure, Spend
  <2>2. MetricsNext
    BY <2>1 DEF MetricsNext
  <2> QED
    BY <1>2, <2>1, <2>2
<1>3. CASE UNCHANGED storeVars /\ Spend("crash") /\ Crash
  <2>1. /\ scene' = scene /\ RestartApi /\ CrashAudio /\ CrashCatalogue /\ CrashTicker
        /\ runVars' = runVars
    BY <1>3 DEF Spend, Crash
  <2>2. LoginNext /\ AudioNext /\ CatalogueNext /\ MetricsNext
    BY <2>1 DEF LoginNext, AudioNext, CatalogueNext, MetricsNext
  <2> QED
    BY <1>3, <2>1, <2>2
<1>4. CASE TickNow \/ TakeRow \/ (\E r \in Run : Answer(r) \/ Apply(r))
  <2>1. scene' = scene /\ UNCHANGED <<loginVars, audioVars, catalogueVars, runVars, storeVars>>
    BY <1>4 DEF TickNow, TakeRow, Answer, Apply, Metrics, Free
  <2>2. TickNow => MetricsNext
    BY DEF TickNow, Metrics, MetricsNext
  <2>3. TakeRow => MetricsNext
    BY DEF TakeRow, Metrics, MetricsNext
  <2>4. (\E r \in Run : Answer(r) \/ Apply(r)) => MetricsNext
    BY DEF Answer, Apply, Metrics, MetricsNext
  <2> QED
    BY <1>4, <2>1, <2>2, <2>3, <2>4
<1>5. CASE OnOneRun
  <2>1. scene' = scene /\ UNCHANGED <<loginVars, audioVars, catalogueVars, metricsVars, runVars>>
    BY <1>5 DEF OnOneRun, Spend, Free
  <2>2. StoreNext
    BY <1>5 DEF OnOneRun, StoreNext
  <2> QED
    BY <2>1, <2>2
<1> QED
  BY <1>1, <1>2, <1>3, <1>4, <1>5

\* Every step of the studio is one of its components'.
LEMMA StepsOfComponents ==
  ASSUME StudioInv, [Next]_studioVars
  PROVE  ComponentsStep
<1>1. CASE UNCHANGED studioVars
  BY <1>1 DEF studioVars, ComponentsStep
<1>2. CASE Next
  BY <1>2, UsersSteps, RunsSteps, HandlersSteps, OtherSteps DEF Next
<1> QED
  BY <1>1, <1>2

\* The runs keep their types and their templates.
LEMMA RunsKeep ==
  ASSUME StudioInv, [Next]_studioVars
  PROVE  RunsInv'
<1>1. /\ CatalogueTypeOK /\ [CatalogueNext]_catalogueVars
      /\ started \subseteq Run /\ DOMAIN runs = Run /\ Rows(runs) \subseteq started
      /\ \A r \in Rows(runs) : RunTyped(runs[r]) /\ Exists(templates, runs[r].template)
  BY StepsOfComponents DEF ComponentsStep, StudioInv, LinksInv, RunsInv
<1>2. \A t : Exists(templates, t) => Exists(templates', t)
  BY <1>1, TemplatesStay
<1>3. \A r \in Run : r \in Rows(runs) <=> runs[r] # None
  BY <1>1 DEF Rows
<1>4. ASSUME runVars' = runVars PROVE RunsInv'
  <2>1. runs' = runs /\ started' = started
    BY <1>4 DEF runVars
  <2> QED
    BY <1>1, <1>2, <2>1 DEF RunsInv, Rows, RunTyped
<1>5. ASSUME NEW r \in Run, NEW new, runs' = [runs EXCEPT ![r] = new], started' = started \cup {r},
             RunTyped(new), Exists(templates, new.template)
      PROVE  RunsInv'
  <2>1. DOMAIN runs' = Run /\ \A q \in Run : runs'[q] = IF q = r THEN new ELSE runs[q]
    BY <1>1, <1>5
  <2>2. ASSUME NEW q \in Run, runs'[q] # None
        PROVE  q \in started' /\ RunTyped(runs'[q]) /\ Exists(templates', runs'[q].template)
    <3>1. CASE q = r
      BY <1>2, <1>5, <2>1, <3>1
    <3>2. CASE q # r
      BY <1>1, <1>2, <1>3, <1>5, <2>1, <2>2, <3>2
    <3> QED
      BY <3>1, <3>2
  <2>3. Rows(runs)' = {q \in Run : runs'[q] # None}
    BY <2>1 DEF Rows
  <2>4. started' \subseteq Run
    BY <1>1, <1>5
  <2>5. \A q \in Rows(runs)' : RunTyped(runs'[q])
    BY <2>2, <2>3
  <2> QED
    BY <2>1, <2>2, <2>3, <2>4 DEF RunsInv, RunTyped
<1>6. ASSUME NEW p \in Project, DeleteProject(p) PROVE RunsInv'
  <2> DEFINE less(r) == [runs[r] EXCEPT !.project = None]
             row(r) == IF Exists(runs, r) /\ runs[r].project = p THEN less(r) ELSE runs[r]
  <2>1. runs' = [r \in Run |-> row(r)] /\ started' = started
    BY <1>6 DEF DeleteProject
  <2>2. ASSUME NEW r \in Run, row(r) # None
        PROVE  r \in started /\ RunTyped(row(r)) /\ Exists(templates', row(r).template)
    <3>1. runs[r] # None
      BY <2>2 DEF Exists
    <3>2. /\ r \in started /\ RunTyped(runs[r]) /\ Exists(templates', runs[r].template)
      BY <1>1, <1>2, <1>3, <3>1
    <3> DEFINE old == runs[r]
               new == less(r)
    <3>3. /\ DOMAIN new = DOMAIN old /\ new.project = (IF "project" \in DOMAIN old THEN None ELSE new.project)
          /\ new.template = old.template /\ new.steps = old.steps /\ new.auto = old.auto
          /\ new.review = old.review /\ new.language = old.language /\ new.context = old.context
      OBVIOUS
    <3>4. row(r) = old \/ row(r) = new
      OBVIOUS
    <3> HIDE DEF new, row
    <3>5. RunTyped(old) => RunTyped(new)
      BY <3>3 DEF RunTyped
    <3> QED
      BY <3>2, <3>3, <3>4, <3>5
  <2> HIDE DEF row
  <2>3. /\ DOMAIN runs' = Run /\ \A r \in Run : runs'[r] = row(r)
        /\ Rows(runs)' = {r \in Run : row(r) # None}
    BY <2>1 DEF Rows
  <2> QED
    BY <1>1, <2>1, <2>2, <2>3 DEF RunsInv, RunTyped
<1>7. ASSUME NEW r \in Run, DeleteRun(r) PROVE RunsInv'
  <2>1. runs' = [runs EXCEPT ![r] = None] /\ started' = started
    BY <1>7 DEF DeleteRun
  <2>2. DOMAIN runs' = Run /\ \A q \in Run : runs'[q] = IF q = r THEN None ELSE runs[q]
    BY <1>1, <2>1
  <2>3. Rows(runs)' \subseteq Rows(runs) /\ \A q \in Rows(runs)' : runs'[q] = runs[q]
    BY <1>3, <2>2 DEF Rows
  <2> QED
    BY <1>1, <1>2, <2>1, <2>2, <2>3 DEF RunsInv, RunTyped
<1>8. CASE ByRun
  <2>1. PICK r \in Run :
          \/ \E ask \in Ask : CreateRun(r, ask)
          \/ \E old \in Run : RetryRun(r, old)
          \/ DeleteRun(r)
    BY <1>8 DEF ByRun
  <2>2. ASSUME NEW ask \in Ask, CreateRun(r, ask) PROVE RunsInv'
    <3>1. PICK new : /\ runs' = [runs EXCEPT ![r] = new] /\ started' = started \cup {r}
                     /\ RunTyped(new) /\ Exists(templates, new.template)
      BY <2>2, CreateRunIs
    <3> QED
      BY <1>5, <3>1
  <2>3. ASSUME NEW old \in Run, RetryRun(r, old) PROVE RunsInv'
    <3>1. PICK new : /\ runs' = [runs EXCEPT ![r] = new] /\ started' = started \cup {r}
                     /\ RunTyped(new) /\ Exists(templates, new.template)
      BY <2>3, RetryRunIs
    <3> QED
      BY <1>5, <3>1
  <2> QED
    BY <1>7, <2>1, <2>2, <2>3
<1>9. \/ ByRun \/ (\E p \in Project : DeleteProject(p)) \/ runVars' = runVars
  <2>1. CASE UNCHANGED studioVars
    BY <2>1 DEF studioVars
  <2>2. CASE TickNow \/ TakeRow \/ (\E r \in Run : Answer(r) \/ Apply(r)) \/ OnOneRun
    BY <2>2, OtherSteps
  <2>3. CASE ByProject \/ BySheet \/ ByAccount \/ ByLink \/ ByTemplate \/ ByTrack
    BY <2>3 DEF ByProject, BySheet, ByAccount, ByLink, ByTemplate, ByTrack, DeleteAccount
  <2>4. CASE ByLogin \/ ByViewer \/ ByRun \/ ByUpload \/ Handlers
    BY <2>4 DEF ByLogin, ByViewer, ByUpload, Handlers, InspectAccount, UploadCompleted, PersistLogin
  <2>5. CASE Time \/ Failure \/ (Spend("crash") /\ Crash)
    BY <2>5 DEF Time, Failure, Crash, runVars
  <2> QED
    BY <2>1, <2>2, <2>3, <2>4, <2>5 DEF Next
<1> QED
  BY <1>4, <1>6, <1>8, <1>9

LEMMA StudioKeeps ==
  ASSUME StudioInv, [Next]_studioVars
  PROVE  StudioInv'
<1>1. ComponentsStep
  BY StepsOfComponents
<1>2. LoginInv'
  BY <1>1, LoginKeeps DEF StudioInv, ComponentsStep
<1>3. AudioInv'
  BY <1>1, AudioKeeps DEF StudioInv, ComponentsStep
<1>4. LinksInv'
  BY <1>1, LinksKeep DEF StudioInv, ComponentsStep
<1>5. MetricsTypeOK'
  BY <1>1, MetricsTypes DEF StudioInv, ComponentsStep
<1>6. StoreInv'
  BY <1>1, StoreKeeps DEF StudioInv, ComponentsStep
<1>7. RunsInv'
  BY RunsKeep
<1>8. (scene \in Scene)'
  BY <1>1 DEF StudioInv, ComponentsStep
<1> QED
  BY <1>2, <1>3, <1>4, <1>5, <1>6, <1>7, <1>8 DEF StudioInv

\* Every scene starts in a state that the invariant describes.
LEMMA StudioStarts == Init => StudioInv
<1> SUFFICES ASSUME Init PROVE StudioInv
  OBVIOUS
<1>1. PICK name \in Scene : \E start \in SceneNamed[name].start :
        /\ scene = name
        /\ LoginInit /\ AudioInit
        /\ projects = start.projects /\ accounts = start.accounts /\ links = start.links
        /\ sheets = start.sheets /\ plots = start.plots /\ templates = start.templates
        /\ linkTxs = << >> /\ edits = {} /\ saved = start.saved
        /\ made = Rows(projects) \cup Rows(accounts) \cup Rows(sheets) \cup Rows(templates)
        /\ excused = {}
        /\ records = start.records /\ fetched = << >> /\ fresh = {}
        /\ todo = {} /\ requests = {} /\ results = {}
        /\ runs = start.runs /\ started = Rows(runs)
        /\ StoreInit
  BY DEF Init
<1>2. PICK start \in SceneNamed[name].start :
        /\ scene = name
        /\ LoginInit /\ AudioInit
        /\ projects = start.projects /\ accounts = start.accounts /\ links = start.links
        /\ sheets = start.sheets /\ plots = start.plots /\ templates = start.templates
        /\ linkTxs = << >> /\ edits = {} /\ saved = start.saved
        /\ made = Rows(projects) \cup Rows(accounts) \cup Rows(sheets) \cup Rows(templates)
        /\ excused = {}
        /\ records = start.records /\ fetched = << >> /\ fresh = {}
        /\ todo = {} /\ requests = {} /\ results = {}
        /\ runs = start.runs /\ started = Rows(runs)
        /\ StoreInit
  BY <1>1
<1>3. StartTyped(start)
  BY StudioAssumption
<1>4. LoginInv /\ AudioInv /\ StoreInv /\ scene \in Scene
  BY <1>2, LoginStarts, AudioStarts, StoreStarts
<1>5. CatalogueTypeOK
  <2>1. links \in Seq(Link)
    BY <1>2, <1>3 DEF StartTyped, LinksSettled
  <2>2. /\ projects \in [Project -> Defaults \cup {None}]
        /\ sheets \in [Sheet -> SheetRow \cup {None}] /\ plots \subseteq Project
        /\ accounts \in [Account -> AccountRow \cup {None}]
        /\ templates \in [Template -> TemplateRow \cup {None}]
        /\ saved \in [FormatId -> BOOLEAN \cup {None}]
    BY <1>2, <1>3 DEF StartTyped
  <2>3. made \subseteq Project \cup Account \cup Sheet \cup Template
    BY <1>2, <2>2 DEF Rows
  <2>4. linkTxs \in Seq(LinkTx) /\ edits \subseteq Edit /\ excused \subseteq Project \X Platform
    BY <1>2
  <2> QED
    BY <2>1, <2>2, <2>3, <2>4 DEF CatalogueTypeOK
<1>6. LinksInv
  <2>1. /\ links \in Seq(Link)
        /\ \A i \in DOMAIN links : links[i].committed /\ Exists(accounts, links[i].account)
        /\ \A i, j \in DOMAIN links : i # j /\ links[i].project = links[j].project =>
             /\ links[i].account # links[j].account
             /\ accounts[links[i].account].platform = accounts[links[j].account].platform
                => ~links[i].default \/ ~links[j].default
    BY <1>2, <1>3 DEF StartTyped, LinksSettled
  <2>2. DOMAIN linkTxs = {}
    BY <1>2
  <2>3. Rows(accounts) \subseteq made
    BY <1>2
  <2>4. LinksOnce /\ OneDefaultButForRaces
    BY <2>1 DEF LinksOnce, Same, OneDefaultButForRaces
  <2>5. LinksHaveAccounts /\ UncommittedHaveTxs
    BY <2>1 DEF LinksHaveAccounts, UncommittedHaveTxs
  <2>6. TxsOnce /\ TxsHaveLinks /\ DefaultsGo /\ DefaultsWait
    BY <2>2 DEF TxsOnce, TxsHaveLinks, DefaultsGo, DefaultsWait
  <2> QED
    BY <1>5, <2>3, <2>4, <2>5, <2>6 DEF LinksInv
<1>7. MetricsTypeOK
  <2>1. records \in [Run -> RecordRow \cup {None}]
    BY <1>2, <1>3 DEF StartTyped
  <2>2. fetched \in Seq(Run) /\ IsInjective(fetched)
    <3>1. DOMAIN fetched = {} /\ fetched \in Seq(Run)
      BY <1>2
    <3> QED
      BY <3>1 DEF IsInjective
  <2> QED
    BY <1>2, <2>1, <2>2 DEF MetricsTypeOK
<1>8. RunsInv
  BY <1>2, <1>3 DEF StartTyped, RunsInv, Rows
<1> QED
  BY <1>4, <1>6, <1>7, <1>8 DEF StudioInv

-----------------------------------------------------------------------------
(* The studio *)

\* The components of the API process keep their invariants together, whatever users, handlers,
\* failures and crashes do to all of them.
THEOREM StudioInvariant == Spec => []StudioInv
BY StudioStarts, StudioKeeps, PTL DEF Spec

\* Everything keeps its type.  Of a run CreateRun made that says: its steps are steps, however
\* format, project, user and template filled each other's gaps and steps were added and taken
\* away (create_run.go), and its template and project are ids.
THEOREM StudioTyped == Spec => []TypeOK
<1>1. ASSUME StudioInv PROVE TypeOK
  BY <1>1 DEF StudioInv, LoginInv, AudioInv, LinksInv, StoreInv, RunsInv, TypeOK
<1> QED
  BY <1>1, StudioInvariant, PTL

\* A project has one default account on a platform, but for the two races that excuse it
\* (clearOtherDefaults in LinkSocialAccount and SetDefaultSocialAccount).
THEOREM DefaultsAreOne == Spec => []OneDefaultButForRaces
<1>1. ASSUME StudioInv PROVE OneDefaultButForRaces
  BY <1>1 DEF StudioInv, LinksInv
<1> QED
  BY <1>1, StudioInvariant, PTL

\* What the studio does to its sign-in sessions, its audio library and the tables of a run is
\* what their own specifications allow, so that what is proved of these holds in the studio:
\* its handlers and its restarts are those of the sessions (firefox_login.go)...
THEOREM StudioSignsIn == Spec => LoginSpec
<1>1. Init => LoginInit
  BY DEF Init
<1>2. ASSUME StudioInv, [Next]_studioVars PROVE [LoginNext]_loginVars
  BY <1>2, StepsOfComponents DEF ComponentsStep
<1> QED
  BY <1>1, <1>2, StudioInvariant, PTL DEF Spec, LoginSpec

\* ... the uploads, edits and cascades those of the library (commands of app/command/audiolib)...
THEOREM StudioKeepsTracks == Spec => AudioSpec
<1>1. Init => AudioInit
  BY DEF Init
<1>2. ASSUME StudioInv, [Next]_studioVars PROVE [AudioNext]_audioVars
  BY <1>2, StepsOfComponents DEF ComponentsStep
<1> QED
  BY <1>1, <1>2, StudioInvariant, PTL DEF Spec, AudioSpec

\* ... and the transactions and queries those of a run's tables (pipeline_run_repository.go).
THEOREM StudioStoresRuns == Spec => StoreSpec
<1>1. Init => StoreInit
  BY DEF Init
<1>2. ASSUME StudioInv, [Next]_studioVars PROVE [StoreNext]_storeVars
  BY <1>2, StepsOfComponents DEF ComponentsStep
<1> QED
  BY <1>1, <1>2, StudioInvariant, PTL DEF Spec, StoreSpec

\* In the studio as a whole no port or container leaks, every track has its object, and a run's
\* tables lose nothing, deadlock only with a deletion, and reach the page's last view complete.
THEOREM StudioIsSafe ==
  Spec => [](NothingLeaks /\ TrackHasObject /\ NothingLost /\ DeadlocksNeedDeletion /\ EndIsComplete)
BY StudioSignsIn, NothingIsLeaked, StudioKeepsTracks, TracksHaveObjects,
   StudioStoresRuns, NothingIsLost, DeadlocksDelete, EndsComplete, PTL
=============================================================================
