---------------------------- MODULE DraftProofs ----------------------------
(***************************************************************************)
(* Proofs about Draft, for every set of signers, roles, templates, fees    *)
(* and bounds: what is published has been signed as it is, a contract      *)
(* verifies and pays out, the terms are those of the roles of the members, *)
(* and a session that says it is full is.                                  *)
(*                                                                         *)
(* IInv is about the session as a record of lists, its signatures and what *)
(* was published.  Kept and ProgramsKept say what each member has in the   *)
(* terms: the paths and the programs of the role, and no less than its     *)
(* payment.  The first part has what they rest on: what Filter keeps of a  *)
(* list, and sums, which do not depend on the order of what is added.      *)
(*                                                                         *)
(* What is shown of lists and of sets, entry by entry, is shown with a     *)
(* least number for which it would not hold.                               *)
(***************************************************************************)
EXTENDS Draft, FiniteSetTheorems, WellFoundedInduction, TLAPS

-----------------------------------------------------------------------------
(* Lists of entries, and sums.                                              *)

\* What holds at 0, and at n + 1 if it does at n, holds of every number: there
\* is no shortest list of entries that breaks it (proposal.ts:53-141).
LEMMA NatGrow ==
  ASSUME NEW Good, 0 \in Good, \A n \in Nat : n \in Good => n + 1 \in Good
  PROVE  Nat \subseteq Good
<1> DEFINE Bad == {n \in Nat : n \notin Good}
           Sets == {1..n : n \in Bad}
<1> SUFFICES ASSUME Bad # {} PROVE FALSE
  OBVIOUS
<1>1. PICK T \in Sets : \A U \in Sets : <<U, T>> \notin StrictSubsetOrdering(Nat)
  <2>1. Sets \subseteq FiniteSubsetsOf(Nat) /\ Sets # {}
    <3>1. \A n \in Nat : IsFiniteSet(1..n)
      BY FS_Interval
    <3> QED
      BY <3>1 DEF FiniteSubsetsOf
  <2> HIDE DEF Sets
  <2> QED
    BY <2>1, FS_StrictSubsetOrderingWellFounded, WFMin
<1>2. PICK n \in Bad : T = 1..n
  OBVIOUS
<1>3. n # 0 /\ n - 1 \in Nat
  BY <1>2
<1>4. n - 1 \notin Bad
  <2>1. 1..(n - 1) \subseteq Nat /\ 1..n \subseteq Nat /\ 1..(n - 1) \subseteq 1..n
    BY <1>3
  <2>2. n \in 1..n /\ n \notin 1..(n - 1)
    BY <1>3
  <2>3. <<1..(n - 1), T>> \in StrictSubsetOrdering(Nat)
    BY <1>2, <2>1, <2>2 DEF StrictSubsetOrdering
  <2> QED
    BY <1>1, <2>3
<1> QED
  BY <1>3, <1>4

\* What holds of no entries, and of one more if it does of those before it,
\* holds of every list (proposal.ts:53-141).
LEMMA SeqGrow ==
  ASSUME NEW S, NEW Good, <<>> \in Good,
         \A s \in Seq(S), x \in S : s \in Good => Append(s, x) \in Good
  PROVE  Seq(S) \subseteq Good
<1> DEFINE Lengths == {n \in Nat : \A s \in Seq(S) : Len(s) = n => s \in Good}
<1>1. 0 \in Lengths
  OBVIOUS
<1>2. ASSUME NEW n \in Nat, n \in Lengths PROVE n + 1 \in Lengths
  <2> SUFFICES ASSUME NEW s \in Seq(S), Len(s) = n + 1 PROVE s \in Good
    OBVIOUS
  <2> DEFINE front == [i \in 1..n |-> s[i]]
  <2>1. front \in Seq(S) /\ Len(front) = n
    OBVIOUS
  <2>2. s[n + 1] \in S
    OBVIOUS
  <2>3. Append(front, s[n + 1]) = s
    <3>1. Append(front, s[n + 1]) \in Seq(S) /\ Len(Append(front, s[n + 1])) = n + 1
      BY <2>1, <2>2
    <3>2. \A i \in 1..(n + 1) : Append(front, s[n + 1])[i] = s[i]
      BY <2>1, <2>2
    <3> HIDE DEF front
    <3> QED
      BY <3>1, <3>2
  <2>4. front \in Good
    BY <1>2, <2>1
  <2> QED
    BY <2>1, <2>2, <2>3, <2>4
<1>3. Nat \subseteq Lengths
  <2> HIDE DEF Lengths
  <2> QED
    BY <1>1, <1>2, NatGrow
<1> QED
  BY <1>3

\* What is kept after each entry (proposal.ts:58).
LEMMA FilterSteps ==
  ASSUME NEW s, NEW A, Len(s) \in Nat
  PROVE  \E f : /\ f[0] = <<>>
                /\ \A n \in 1..Len(s) :
                     f[n] = IF s[n] \in A THEN Append(f[n - 1], s[n]) ELSE f[n - 1]
                /\ Filter(s, A) = f[Len(s)]
<1> DEFINE Turn(r, n) == IF s[n] \in A THEN Append(r, s[n]) ELSE r
           IsKept(f, m) == f = [n \in 0..m |-> IF n = 0 THEN <<>> ELSE Turn(f[n - 1], n)]
           kept == CHOOSE f : IsKept(f, Len(s))
           Good == {n \in Nat : \E f : IsKept(f, n)}
<1>1. Filter(s, A) = kept[Len(s)]
  BY DEF Filter
<1> HIDE DEF Turn
<1>2. 0 \in Good
  <2>1. IsKept([n \in 0..0 |-> <<>>], 0)
    OBVIOUS
  <2> QED
    BY <2>1
<1>3. ASSUME NEW n \in Nat, n \in Good PROVE n + 1 \in Good
  <2>1. PICK f : IsKept(f, n)
    BY <1>3
  <2> DEFINE g == [k \in 0..(n + 1) |-> IF k = n + 1 THEN Turn(f[n], k) ELSE f[k]]
  <2>2. \A k \in 0..(n + 1) : g[k] = IF k = 0 THEN <<>> ELSE Turn(g[k - 1], k)
    BY <2>1
  <2>3. g = [k \in 0..(n + 1) |-> g[k]]
    OBVIOUS
  <2> HIDE DEF g
  <2>4. IsKept(g, n + 1)
    BY <2>2, <2>3
  <2> QED
    BY <2>4
<1>4. Nat \subseteq Good
  <2> HIDE DEF Good
  <2> QED
    BY <1>2, <1>3, NatGrow
<1>5. IsKept(kept, Len(s))
  <2>1. \E f : IsKept(f, Len(s))
    BY <1>4
  <2> HIDE DEF IsKept
  <2> QED
    BY <2>1
<1> HIDE DEF kept
<1>6. kept[0] = <<>> /\ \A n \in 1..Len(s) : kept[n] = Turn(kept[n - 1], n)
  BY <1>5
<1> QED
  BY <1>1, <1>6 DEF Turn

\* Nothing is kept of nothing (proposal.ts:58).
LEMMA FilterNone ==
  ASSUME NEW A
  PROVE  Filter(<<>>, A) = <<>>
<1>1. Len(<<>>) = 0
  OBVIOUS
<1> QED
  BY <1>1, FilterSteps

\* Of one more entry there is kept what was kept before, and the entry, if it is
\* one to keep (proposal.ts:58).
LEMMA FilterMore ==
  ASSUME NEW S, NEW s \in Seq(S), NEW x \in S, NEW A
  PROVE  Filter(Append(s, x), A) = IF x \in A THEN Append(Filter(s, A), x) ELSE Filter(s, A)
<1> DEFINE t == Append(s, x)
<1>1. Len(s) \in Nat /\ Len(t) = Len(s) + 1 /\ t[Len(s) + 1] = x
      /\ \A n \in 1..Len(s) : t[n] = s[n]
  OBVIOUS
<1> HIDE DEF t
<1>2. PICK f : /\ f[0] = <<>>
               /\ \A n \in 1..Len(s) :
                    f[n] = IF s[n] \in A THEN Append(f[n - 1], s[n]) ELSE f[n - 1]
               /\ Filter(s, A) = f[Len(s)]
  BY <1>1, FilterSteps
<1>3. PICK g : /\ g[0] = <<>>
               /\ \A n \in 1..Len(t) :
                    g[n] = IF t[n] \in A THEN Append(g[n - 1], t[n]) ELSE g[n - 1]
               /\ Filter(t, A) = g[Len(t)]
  <2>1. Len(t) \in Nat
    BY <1>1
  <2> QED
    BY <2>1, FilterSteps
<1> DEFINE Good == {n \in Nat : n <= Len(s) => f[n] = g[n]}
<1>4. 0 \in Good
  BY <1>2, <1>3
<1>5. ASSUME NEW n \in Nat, n \in Good PROVE n + 1 \in Good
  <2> SUFFICES ASSUME n + 1 <= Len(s) PROVE f[n + 1] = g[n + 1]
    OBVIOUS
  <2>1. f[n] = g[n] /\ n + 1 \in 1..Len(s) /\ n + 1 \in 1..Len(t) /\ (n + 1) - 1 = n
    BY <1>1, <1>5
  <2>2. t[n + 1] = s[n + 1]
    BY <1>1, <2>1
  <2>3. f[n + 1] = IF s[n + 1] \in A THEN Append(f[n], s[n + 1]) ELSE f[n]
    BY <1>2, <2>1
  <2>4. g[n + 1] = IF t[n + 1] \in A THEN Append(g[n], t[n + 1]) ELSE g[n]
    BY <1>3, <2>1
  <2> QED
    BY <2>1, <2>2, <2>3, <2>4
<1>6. Nat \subseteq Good
  <2> HIDE DEF Good
  <2> QED
    BY <1>4, <1>5, NatGrow
<1>7. f[Len(s)] = g[Len(s)]
  BY <1>1, <1>6
<1>8. Len(t) \in 1..Len(t) /\ Len(t) - 1 = Len(s)
  BY <1>1
<1>9. g[Len(t)] = IF t[Len(t)] \in A THEN Append(g[Len(s)], t[Len(t)]) ELSE g[Len(s)]
  BY <1>3, <1>8
<1> QED
  BY <1>1, <1>2, <1>3, <1>7, <1>9 DEF t

\* The elements of a list with one more entry, and of two lists (session.ts:57).
LEMMA Elements ==
  ASSUME NEW S, NEW s \in Seq(S), NEW x \in S, NEW t \in Seq(S)
  PROVE  /\ ToSet(s) \subseteq S
         /\ ToSet(Append(s, x)) = ToSet(s) \cup {x}
         /\ ToSet(s \o t) = ToSet(s) \cup ToSet(t)
<1>1. ToSet(s) \subseteq S
  BY DEF ToSet
<1>2. ToSet(Append(s, x)) = ToSet(s) \cup {x}
  <2>1. /\ DOMAIN Append(s, x) = 1..(Len(s) + 1) /\ DOMAIN s = 1..Len(s)
        /\ \A i \in 1..Len(s) : Append(s, x)[i] = s[i]
        /\ Append(s, x)[Len(s) + 1] = x
    OBVIOUS
  <2>2. Len(s) \in Nat
    OBVIOUS
  <2> DEFINE a == Append(s, x)
  <2> HIDE DEF a
  <2>3. /\ DOMAIN a = 1..(Len(s) + 1) /\ DOMAIN s = 1..Len(s)
        /\ \A i \in 1..Len(s) : a[i] = s[i]
        /\ a[Len(s) + 1] = x
    BY <2>1 DEF a
  <2>4. {a[i] : i \in DOMAIN a} = {s[i] : i \in DOMAIN s} \cup {x}
    <3>1. ASSUME NEW i \in DOMAIN a PROVE a[i] \in {s[j] : j \in DOMAIN s} \cup {x}
      BY <2>2, <2>3
    <3>2. ASSUME NEW i \in DOMAIN s PROVE s[i] \in {a[j] : j \in DOMAIN a}
      BY <2>2, <2>3
    <3>3. x \in {a[j] : j \in DOMAIN a}
      BY <2>2, <2>3
    <3> QED
      BY <3>1, <3>2, <3>3
  <2> QED
    BY <2>4 DEF ToSet, a
<1>3. ToSet(s \o t) = ToSet(s) \cup ToSet(t)
  <2> DEFINE a == s \o t
             m == Len(s)
             n == Len(t)
  <2>1. /\ DOMAIN a = 1..(m + n) /\ DOMAIN s = 1..m /\ DOMAIN t = 1..n
        /\ \A i \in 1..m : a[i] = s[i]
        /\ \A i \in (m + 1)..(m + n) : a[i] = t[i - m]
        /\ m \in Nat /\ n \in Nat
    OBVIOUS
  <2> HIDE DEF a, m, n
  <2>2. ASSUME NEW i \in DOMAIN a
        PROVE  a[i] \in {s[j] : j \in DOMAIN s} \cup {t[j] : j \in DOMAIN t}
    <3>1. CASE i <= m
      BY <2>1, <3>1
    <3>2. CASE ~(i <= m)
      <4>1. i \in (m + 1)..(m + n) /\ i - m \in DOMAIN t
        BY <2>1, <3>2
      <4> QED
        BY <2>1, <4>1
    <3> QED
      BY <3>1, <3>2
  <2>3. ASSUME NEW i \in DOMAIN s PROVE s[i] \in {a[j] : j \in DOMAIN a}
    BY <2>1
  <2>4. ASSUME NEW i \in DOMAIN t PROVE t[i] \in {a[j] : j \in DOMAIN a}
    <3>1. i + m \in (m + 1)..(m + n) /\ (i + m) - m = i /\ i + m \in DOMAIN a
      BY <2>1
    <3>2. a[i + m] = t[i]
      BY <2>1, <3>1
    <3> QED
      BY <3>1, <3>2
  <2> QED
    BY <2>2, <2>3, <2>4 DEF ToSet, a
<1> QED
  BY <1>1, <1>2, <1>3

\* Of two lists, the second with one more entry (session.ts:57).
LEMMA JoinedMore ==
  ASSUME NEW S, NEW s \in Seq(S), NEW t \in Seq(S), NEW x \in S
  PROVE  s \o Append(t, x) = Append(s \o t, x) /\ s \o t \in Seq(S) /\ s \o <<>> = s
<1> DEFINE a == s \o Append(t, x)
           b == Append(s \o t, x)
           m == Len(s)
           n == Len(t)
<1>1. a \in Seq(S) /\ b \in Seq(S) /\ Len(a) = m + n + 1 /\ Len(b) = m + n + 1
      /\ m \in Nat /\ n \in Nat
  OBVIOUS
<1>2. \A i \in 1..(m + n + 1) : a[i] = b[i]
  OBVIOUS
<1>3. s \o <<>> = s
  OBVIOUS
<1> HIDE DEF a, b, m, n
<1>4. a = b
  BY <1>1, <1>2
<1> QED
  BY <1>3, <1>4 DEF a, b

\* What is kept are entries of the list, those that are in the set, and not
\* more of them than there were (enrollment.ts:118-123).
LEMMA FilterKeeps ==
  ASSUME NEW S, NEW s \in Seq(S), NEW A
  PROVE  /\ Filter(s, A) \in Seq(S)
         /\ ToSet(Filter(s, A)) = ToSet(s) \cap A
         /\ Len(Filter(s, A)) <= Len(s)
<1> DEFINE Good == {q \in Seq(S) : /\ Filter(q, A) \in Seq(S)
                                   /\ ToSet(Filter(q, A)) = ToSet(q) \cap A
                                   /\ Len(Filter(q, A)) <= Len(q)}
<1>1. <<>> \in Good
  <2>1. Filter(<<>>, A) = <<>>
    BY FilterNone
  <2>2. ToSet(<<>>) = {}
    BY DEF ToSet
  <2>3. <<>> \in Seq(S) /\ Len(<<>>) <= Len(<<>>) /\ {} = {} \cap A
    OBVIOUS
  <2> QED
    BY <2>1, <2>2, <2>3
<1>2. ASSUME NEW q \in Seq(S), NEW x \in S, q \in Good PROVE Append(q, x) \in Good
  <2> DEFINE f == Filter(q, A)
             g == Filter(Append(q, x), A)
  <2>1. g = IF x \in A THEN Append(f, x) ELSE f
    BY FilterMore
  <2>2. f \in Seq(S) /\ ToSet(f) = ToSet(q) \cap A /\ Len(f) <= Len(q)
    BY <1>2
  <2> HIDE DEF f, g
  <2>3. ToSet(Append(f, x)) = ToSet(f) \cup {x} /\ ToSet(Append(q, x)) = ToSet(q) \cup {x}
    BY <2>2, Elements
  <2>4. Len(Append(f, x)) = Len(f) + 1 /\ Append(f, x) \in Seq(S)
        /\ Len(Append(q, x)) = Len(q) + 1 /\ Append(q, x) \in Seq(S)
        /\ Len(f) \in Nat /\ Len(q) \in Nat
    BY <2>2
  <2>5. CASE x \in A
    <3>1. g = Append(f, x)
      BY <2>1, <2>5
    <3>2. ToSet(g) = ToSet(Append(q, x)) \cap A
      BY <2>2, <2>3, <2>5, <3>1
    <3>3. g \in Seq(S) /\ Len(g) <= Len(Append(q, x))
      BY <2>2, <2>4, <3>1
    <3> QED
      BY <2>4, <3>2, <3>3 DEF g
  <2>6. CASE x \notin A
    <3>1. g = f
      BY <2>1, <2>6
    <3>2. ToSet(g) = ToSet(Append(q, x)) \cap A
      BY <2>2, <2>3, <2>6, <3>1
    <3>3. g \in Seq(S) /\ Len(g) <= Len(Append(q, x))
      BY <2>2, <2>4, <3>1
    <3> QED
      BY <2>4, <3>2, <3>3 DEF g
  <2> QED
    BY <2>5, <2>6
<1>3. Seq(S) \subseteq Good
  <2> HIDE DEF Good
  <2> QED
    BY <1>1, <1>2, SeqGrow
<1> QED
  BY <1>3

\* What is kept depends only on which of the entries are to be kept
\* (proposal.ts:58).
LEMMA FilterAlike ==
  ASSUME NEW S, NEW s \in Seq(S), NEW A, NEW B,
         \A x \in ToSet(s) : x \in A <=> x \in B
  PROVE  Filter(s, A) = Filter(s, B)
<1> DEFINE Good == {q \in Seq(S) : (\A x \in ToSet(q) : x \in A <=> x \in B)
                                     => Filter(q, A) = Filter(q, B)}
<1>1. <<>> \in Good
  BY FilterNone
<1>2. ASSUME NEW q \in Seq(S), NEW x \in S, q \in Good PROVE Append(q, x) \in Good
  <2> SUFFICES ASSUME \A y \in ToSet(Append(q, x)) : y \in A <=> y \in B
               PROVE  Filter(Append(q, x), A) = Filter(Append(q, x), B)
    OBVIOUS
  <2>1. ToSet(Append(q, x)) = ToSet(q) \cup {x}
    BY Elements
  <2>2. Filter(q, A) = Filter(q, B) /\ (x \in A <=> x \in B)
    BY <1>2, <2>1
  <2>3. Filter(Append(q, x), A) = IF x \in A THEN Append(Filter(q, A), x) ELSE Filter(q, A)
    BY FilterMore
  <2>4. Filter(Append(q, x), B) = IF x \in B THEN Append(Filter(q, B), x) ELSE Filter(q, B)
    BY FilterMore
  <2> QED
    BY <2>2, <2>3, <2>4
<1>3. Seq(S) \subseteq Good
  <2> HIDE DEF Good
  <2> QED
    BY <1>1, <1>2, SeqGrow
<1> QED
  BY <1>3

\* All entries are kept where all are to be (enrollment.ts:118-121).
LEMMA FilterAll ==
  ASSUME NEW S, NEW s \in Seq(S)
  PROVE  Filter(s, S) = s
<1> DEFINE Good == {q \in Seq(S) : Filter(q, S) = q}
<1>1. <<>> \in Good
  BY FilterNone
<1>2. ASSUME NEW q \in Seq(S), NEW x \in S, q \in Good PROVE Append(q, x) \in Good
  <2>1. Filter(Append(q, x), S) = IF x \in S THEN Append(Filter(q, S), x) ELSE Filter(q, S)
    BY FilterMore
  <2> QED
    BY <1>2, <2>1
<1>3. Seq(S) \subseteq Good
  <2> HIDE DEF Good
  <2> QED
    BY <1>1, <1>2, SeqGrow
<1> QED
  BY <1>3

\* None is kept where none is to be: who has no path has none (enrollment.ts:118-119).
LEMMA FilterNothing ==
  ASSUME NEW S, NEW s \in Seq(S), NEW A, ToSet(s) \cap A = {}
  PROVE  Filter(s, A) = <<>>
<1>1. Filter(s, A) \in Seq(S) /\ ToSet(Filter(s, A)) = {}
  BY FilterKeeps
<1> DEFINE f == Filter(s, A)
<1> HIDE DEF f
<1>2. f \in Seq(S) /\ \A i \in 1..Len(f) : FALSE
  BY <1>1 DEF ToSet, f
<1>3. f = <<>>
  BY <1>2
<1> QED
  BY <1>3 DEF f

\* What is kept of a list with another one added to it, as the paths of a member
\* are (enrollment.ts:85-90).
LEMMA FilterJoined ==
  ASSUME NEW S, NEW s \in Seq(S), NEW t \in Seq(S), NEW A
  PROVE  Filter(s \o t, A) = Filter(s, A) \o Filter(t, A)
<1> DEFINE Good == {q \in Seq(S) : Filter(s \o q, A) = Filter(s, A) \o Filter(q, A)}
<1>0. Filter(s, A) \in Seq(S)
  BY FilterKeeps
<1>1. <<>> \in Good
  <2> DEFINE f == Filter(s, A)
  <2>1. f \in Seq(S)
    BY <1>0
  <2> HIDE DEF f
  <2>2. s \o <<>> = s /\ f \o <<>> = f /\ <<>> \in Seq(S)
    BY <2>1
  <2>3. Filter(<<>>, A) = <<>>
    BY FilterNone
  <2>4. Filter(s \o <<>>, A) = f \o Filter(<<>>, A)
    BY <2>2, <2>3 DEF f
  <2> QED
    BY <2>2, <2>4 DEF f
<1>2. ASSUME NEW q \in Seq(S), NEW x \in S, q \in Good PROVE Append(q, x) \in Good
  <2>1. s \o Append(q, x) = Append(s \o q, x) /\ s \o q \in Seq(S)
    BY JoinedMore
  <2>2. Filter(Append(s \o q, x), A)
          = IF x \in A THEN Append(Filter(s \o q, A), x) ELSE Filter(s \o q, A)
    BY <2>1, FilterMore
  <2>3. Filter(Append(q, x), A) = IF x \in A THEN Append(Filter(q, A), x) ELSE Filter(q, A)
    BY FilterMore
  <2>4. Filter(q, A) \in Seq(S)
    BY FilterKeeps
  <2>5. Filter(s, A) \o Append(Filter(q, A), x) = Append(Filter(s, A) \o Filter(q, A), x)
    BY <1>0, <2>4, JoinedMore
  <2>6. Filter(s \o q, A) = Filter(s, A) \o Filter(q, A)
    BY <1>2
  <2>7. Filter(s \o Append(q, x), A) = Filter(s, A) \o Filter(Append(q, x), A)
    BY <2>1, <2>2, <2>3, <2>5, <2>6
  <2>8. Append(q, x) \in Seq(S)
    OBVIOUS
  <2> QED
    BY <2>7, <2>8
<1>3. Seq(S) \subseteq Good
  <2> HIDE DEF Good
  <2> QED
    BY <1>1, <1>2, SeqGrow
<1> QED
  BY <1>3

\* Entries that are kept twice are those that both times are to be kept, such as
\* the paths with a label that are a member's (proposal.ts:58, enrollment.ts:138-140).
LEMMA FilterTwice ==
  ASSUME NEW S, NEW s \in Seq(S), NEW A, NEW B
  PROVE  Filter(Filter(s, A), B) = Filter(s, A \cap B)
<1> DEFINE Good == {q \in Seq(S) : Filter(Filter(q, A), B) = Filter(q, A \cap B)}
<1>1. <<>> \in Good
  BY FilterNone
<1>2. ASSUME NEW q \in Seq(S), NEW x \in S, q \in Good PROVE Append(q, x) \in Good
  <2> DEFINE f == Filter(q, A)
             C == A \cap B
  <2>1. Filter(Append(q, x), A) = IF x \in A THEN Append(f, x) ELSE f
    BY FilterMore
  <2>2. Filter(Append(q, x), C) = IF x \in C THEN Append(Filter(q, C), x) ELSE Filter(q, C)
    BY FilterMore
  <2>3. f \in Seq(S) /\ Filter(f, B) = Filter(q, C)
    BY <1>2, FilterKeeps
  <2>4. Filter(Append(f, x), B) = IF x \in B THEN Append(Filter(f, B), x) ELSE Filter(f, B)
    BY <2>3, FilterMore, ZenonT(40)
  <2>5. x \in C <=> x \in A /\ x \in B
    OBVIOUS
  <2> HIDE DEF f, C
  <2>6. Filter(Filter(Append(q, x), A), B) = Filter(Append(q, x), C)
    BY <2>1, <2>2, <2>3, <2>4, <2>5
  <2> QED
    BY <2>6 DEF C
<1>3. Seq(S) \subseteq Good
  <2> HIDE DEF Good
  <2> QED
    BY <1>1, <1>2, SeqGrow
<1> QED
  BY <1>3

\* What is left of a set without the element that a sum takes first.
First(T) == CHOOSE x \in T : TRUE
Less(T) == T \ {First(T)}
IsSum(f, fun, S) ==
  f = [T \in SUBSET S |-> IF T = {} THEN 0 ELSE fun[First(T)] + f[Less(T)]]

\* A sum over a set is a function of its subsets (proposal.ts:82).
LEMMA SumIsSum ==
  ASSUME NEW fun, NEW S, IsFiniteSet(S)
  PROVE  \E f : IsSum(f, fun, S) /\ SumFunctionOnSet(fun, S) = f[S]
<1> DEFINE sum == CHOOSE f : IsSum(f, fun, S)
<1>1. SumFunctionOnSet(fun, S) = sum[S]
  BY DEF SumFunctionOnSet, FoldFunctionOnSet, MapThenFoldSet, IsSum, First, Less
<1> DEFINE Small(n) == {T \in SUBSET S : Cardinality(T) <= n}
           Turn(f, T) == IF T = {} THEN 0 ELSE fun[First(T)] + f[Less(T)]
           Good == {n \in Nat : \E f : \A T \in Small(n) : f[T] = Turn(f, T)}
<1>2. \A T \in SUBSET S : IsFiniteSet(T) /\ Cardinality(T) \in Nat
  BY FS_Subset, FS_CardinalityType
<1>3. ASSUME NEW T \in SUBSET S, T # {}
      PROVE  Less(T) \in SUBSET S /\ Cardinality(Less(T)) = Cardinality(T) - 1
  <2>1. First(T) \in T
    BY <1>3 DEF First
  <2> QED
    BY <1>2, <2>1, FS_RemoveElement DEF Less
<1>4. 0 \in Good
  <2>1. ASSUME NEW T \in Small(0) PROVE T = {}
    BY <1>2, FS_EmptySet
  <2>2. \A T \in Small(0) : [U \in SUBSET S |-> 0][T] = Turn([U \in SUBSET S |-> 0], T)
    BY <2>1
  <2> HIDE DEF Small, Turn
  <2> QED
    BY <2>2
<1>5. ASSUME NEW n \in Nat, n \in Good PROVE n + 1 \in Good
  <2>1. PICK f : \A T \in Small(n) : f[T] = Turn(f, T)
    BY <1>5
  <2> DEFINE g == [T \in SUBSET S |-> IF Cardinality(T) <= n THEN f[T] ELSE Turn(f, T)]
  <2>2. ASSUME NEW T \in Small(n + 1) PROVE g[T] = Turn(g, T)
    <3>1. CASE T = {}
      <4>1. Cardinality(T) <= n /\ T \in Small(n)
        BY <3>1, FS_EmptySet
      <4> QED
        BY <2>1, <3>1, <4>1
    <3>2. CASE T # {}
      <4>1. Less(T) \in SUBSET S /\ Cardinality(Less(T)) = Cardinality(T) - 1
        BY <1>3, <3>2
      <4>2. Cardinality(Less(T)) <= n
        BY <1>2, <4>1
      <4>3. g[Less(T)] = f[Less(T)]
        BY <4>1, <4>2
      <4>4. g[T] = Turn(f, T)
        BY <2>1
      <4> HIDE DEF g
      <4> QED
        BY <3>2, <4>3, <4>4
    <3> QED
      BY <3>1, <3>2
  <2> HIDE DEF g, Turn, Small
  <2> QED
    BY <2>2
<1>6. Nat \subseteq Good
  <2> HIDE DEF Good
  <2> QED
    BY <1>4, <1>5, NatGrow
<1>7. PICK f : \A T \in Small(Cardinality(S)) : f[T] = Turn(f, T)
  BY <1>2, <1>6
<1> DEFINE g == [T \in SUBSET S |-> f[T]]
<1>8. IsSum(g, fun, S)
  <2>1. ASSUME NEW T \in SUBSET S PROVE g[T] = Turn(g, T)
    <3>1. T \in Small(Cardinality(S))
      BY FS_Subset
    <3>2. f[T] = Turn(f, T)
      BY <1>7, <3>1
    <3>3. T # {} => Less(T) \in SUBSET S
      BY <1>3
    <3> QED
      BY <3>2, <3>3
  <2> HIDE DEF g
  <2>2. [T \in SUBSET S |-> g[T]] = [T \in SUBSET S |-> Turn(g, T)]
    BY <2>1
  <2>3. g = [T \in SUBSET S |-> g[T]]
    BY DEF g
  <2> QED
    BY <2>2, <2>3 DEF IsSum
<1>9. IsSum(sum, fun, S)
  <2> HIDE DEF g
  <2> QED
    BY <1>8
<1> HIDE DEF sum
<1> QED
  BY <1>1, <1>9

\* What holds of no elements, and of a set if it does without the element that
\* is taken first, holds of every subset (proposal.ts:82).
LEMMA SetsGrow ==
  ASSUME NEW S, IsFiniteSet(S), NEW Good, {} \in Good,
         \A T \in SUBSET S : T # {} /\ Less(T) \in Good => T \in Good
  PROVE  SUBSET S \subseteq Good
<1> DEFINE Sizes == {n \in Nat : \A T \in SUBSET S : Cardinality(T) = n => T \in Good}
<1>1. \A T \in SUBSET S : IsFiniteSet(T) /\ Cardinality(T) \in Nat
  BY FS_Subset, FS_CardinalityType
<1>2. 0 \in Sizes
  BY <1>1, FS_EmptySet
<1>3. ASSUME NEW n \in Nat, n \in Sizes PROVE n + 1 \in Sizes
  <2> SUFFICES ASSUME NEW T \in SUBSET S, Cardinality(T) = n + 1 PROVE T \in Good
    OBVIOUS
  <2>1. T # {}
    BY FS_EmptySet
  <2>2. First(T) \in T
    BY <2>1 DEF First
  <2>3. Less(T) \in SUBSET S /\ Cardinality(Less(T)) = n
    BY <1>1, <2>2, FS_RemoveElement DEF Less
  <2> QED
    BY <1>3, <2>1, <2>3
<1>4. Nat \subseteq Sizes
  <2> HIDE DEF Sizes
  <2> QED
    BY <1>2, <1>3, NatGrow
<1> QED
  BY <1>1, <1>4

\* The sum over a set is the same in whichever set it is computed
\* (proposal.ts:82).
LEMMA SumsAgree ==
  ASSUME NEW fun, NEW S, NEW T, NEW U, NEW f, NEW g,
         IsSum(f, fun, S), IsSum(g, fun, T), IsFiniteSet(U), U \subseteq S, U \subseteq T
  PROVE  f[U] = g[U]
<1> DEFINE Good == {V \in SUBSET U : f[V] = g[V]}
<1>1. ASSUME NEW V \in SUBSET U
      PROVE  /\ f[V] = IF V = {} THEN 0 ELSE fun[First(V)] + f[Less(V)]
             /\ g[V] = IF V = {} THEN 0 ELSE fun[First(V)] + g[Less(V)]
  <2>1. V \in SUBSET S /\ V \in SUBSET T
    OBVIOUS
  <2> QED
    BY <2>1 DEF IsSum
<1>2. {} \in Good
  <2>1. {} \in SUBSET U
    OBVIOUS
  <2> QED
    BY <1>1, <2>1
<1>3. ASSUME NEW V \in SUBSET U, V # {}, Less(V) \in Good PROVE V \in Good
  <2>1. First(V) \in U
    BY <1>3 DEF First
  <2> QED
    BY <1>1, <1>3, <2>1
<1>4. SUBSET U \subseteq Good
  <2> HIDE DEF Good
  <2> QED
    BY <1>2, <1>3, SetsGrow
<1> QED
  BY <1>4

\* Functions that agree on a set have the same sum over it (proposal.ts:82).
LEMMA SumSame ==
  ASSUME NEW fun, NEW gun, NEW S, IsFiniteSet(S), \A x \in S : fun[x] = gun[x]
  PROVE  SumFunctionOnSet(fun, S) = SumFunctionOnSet(gun, S)
<1>1. PICK f : IsSum(f, fun, S) /\ SumFunctionOnSet(fun, S) = f[S]
  BY SumIsSum
<1>2. PICK g : IsSum(g, gun, S) /\ SumFunctionOnSet(gun, S) = g[S]
  BY SumIsSum
<1>3. IsSum(g, fun, S)
  <2>1. ASSUME NEW T \in SUBSET S, T # {} PROVE fun[First(T)] = gun[First(T)]
    BY <2>1 DEF First
  <2> QED
    BY <1>2, <2>1 DEF IsSum
<1>4. f[S] = g[S]
  BY <1>1, <1>3, SumsAgree
<1> QED
  BY <1>1, <1>2, <1>4

\* A sum of nothing, and of one more element (proposal.ts:82).
LEMMA SumTurn ==
  ASSUME NEW fun, NEW S, IsFiniteSet(S)
  PROVE  /\ SumFunctionOnSet(fun, {}) = 0
         /\ S # {} => SumFunctionOnSet(fun, S)
                        = fun[First(S)] + SumFunctionOnSet(fun, Less(S))
<1>1. SumFunctionOnSet(fun, {}) = 0
  <2>1. PICK f : IsSum(f, fun, {}) /\ SumFunctionOnSet(fun, {}) = f[{}]
    BY SumIsSum, FS_EmptySet
  <2> QED
    BY <2>1 DEF IsSum
<1>2. ASSUME S # {}
      PROVE  SumFunctionOnSet(fun, S) = fun[First(S)] + SumFunctionOnSet(fun, Less(S))
  <2>1. PICK f : IsSum(f, fun, S) /\ SumFunctionOnSet(fun, S) = f[S]
    BY SumIsSum
  <2>2. Less(S) \subseteq S /\ IsFiniteSet(Less(S))
    BY FS_Subset DEF Less
  <2>3. PICK g : IsSum(g, fun, Less(S)) /\ SumFunctionOnSet(fun, Less(S)) = g[Less(S)]
    BY <2>2, SumIsSum
  <2>4. f[Less(S)] = g[Less(S)]
    BY <2>1, <2>2, <2>3, SumsAgree
  <2>5. f[S] = fun[First(S)] + f[Less(S)]
    BY <1>2, <2>1 DEF IsSum
  <2> QED
    BY <2>1, <2>3, <2>4, <2>5
<1> QED
  BY <1>1, <1>2

\* A sum of integers is one (proposal.ts:82).
LEMMA SumInt ==
  ASSUME NEW fun, NEW S, IsFiniteSet(S), \A x \in S : fun[x] \in Int
  PROVE  SumFunctionOnSet(fun, S) \in Int
<1> DEFINE Good == {T \in SUBSET S : SumFunctionOnSet(fun, T) \in Int}
<1>1. \A T \in SUBSET S : IsFiniteSet(T)
  BY FS_Subset
<1>2. {} \in Good
  <2>1. SumFunctionOnSet(fun, {}) = 0
    BY FS_EmptySet, SumTurn
  <2> QED
    BY <2>1
<1>3. ASSUME NEW T \in SUBSET S, T # {}, Less(T) \in Good PROVE T \in Good
  <2>1. First(T) \in S
    BY <1>3 DEF First
  <2>2. SumFunctionOnSet(fun, T) = fun[First(T)] + SumFunctionOnSet(fun, Less(T))
    BY <1>1, <1>3, SumTurn
  <2>3. SumFunctionOnSet(fun, Less(T)) \in Int
    BY <1>3
  <2> QED
    BY <2>1, <2>2, <2>3
<1>4. SUBSET S \subseteq Good
  <2> HIDE DEF Good
  <2> QED
    BY <1>2, <1>3, SetsGrow
<1> QED
  BY <1>4

\* Any element may be the last one that is added (proposal.ts:82).
LEMMA SumPick ==
  ASSUME NEW fun, NEW S, IsFiniteSet(S), \A x \in S : fun[x] \in Int
  PROVE  /\ SumFunctionOnSet(fun, S) \in Int
         /\ \A x \in S : SumFunctionOnSet(fun, S) = fun[x] + SumFunctionOnSet(fun, S \ {x})
<1> DEFINE Sum(T) == SumFunctionOnSet(fun, T)
           Good == {T \in SUBSET S : Sum(T) \in Int /\ \A x \in T : Sum(T) = fun[x] + Sum(T \ {x})}
           Sizes == {n \in Nat : \A T \in SUBSET S : Cardinality(T) = n => T \in Good}
<1>1. \A T \in SUBSET S : IsFiniteSet(T) /\ Cardinality(T) \in Nat
  BY FS_Subset, FS_CardinalityType
<1>2. \A T \in SUBSET S : /\ T = {} => Sum(T) = 0
                          /\ T # {} => Sum(T) = fun[First(T)] + Sum(Less(T))
  BY <1>1, SumTurn
<1> HIDE DEF Sum
<1>3. 0 \in Sizes
  <2>1. ASSUME NEW T \in SUBSET S, Cardinality(T) = 0 PROVE T \in Good
    <3>1. T = {}
      BY <1>1, <2>1, FS_EmptySet
    <3>2. Sum(T) = 0
      BY <1>2, <3>1
    <3>3. \A x \in T : Sum(T) = fun[x] + Sum(T \ {x})
      BY <3>1
    <3> QED
      BY <3>2, <3>3
  <2> HIDE DEF Good
  <2> QED
    BY <2>1
<1>4. ASSUME NEW n \in Nat, n \in Sizes PROVE n + 1 \in Sizes
  <2> SUFFICES ASSUME NEW T \in SUBSET S, Cardinality(T) = n + 1 PROVE T \in Good
    OBVIOUS
  <2> DEFINE y == First(T)
  <2>1. T # {}
    BY FS_EmptySet
  <2>2. y \in T
    BY <2>1 DEF First
  <2>3. \A x \in T : T \ {x} \in Good
    <3>1. ASSUME NEW x \in T PROVE Cardinality(T \ {x}) = n
      <4>1. Cardinality(T \ {x}) = Cardinality(T) - 1
        BY <1>1, FS_RemoveElement
      <4> QED
        BY <4>1
    <3>2. \A U \in SUBSET S : Cardinality(U) = n => U \in Good
      BY <1>4
    <3> HIDE DEF Good
    <3> QED
      BY <3>1, <3>2
  <2>4. Sum(T) = fun[y] + Sum(T \ {y})
    BY <1>2, <2>1 DEF Less
  <2> HIDE DEF y
  <2>5. fun[y] \in Int /\ Sum(T \ {y}) \in Int
    BY <2>2, <2>3
  <2>6. ASSUME NEW x \in T PROVE Sum(T) = fun[x] + Sum(T \ {x})
    <3>1. CASE x = y
      BY <2>4, <3>1
    <3>2. CASE x # y
      <4> DEFINE U == T \ {x, y}
      <4>1. (T \ {x}) \ {y} = U /\ (T \ {y}) \ {x} = U /\ y \in T \ {x} /\ x \in T \ {y}
        BY <2>2, <3>2
      <4>2. Sum(T \ {y}) = fun[x] + Sum(U) /\ Sum(T \ {x}) = fun[y] + Sum(U)
        BY <2>2, <2>3, <4>1
      <4>3. Sum(U) \in Int
        <5>1. U \in SUBSET S /\ \A z \in U : fun[z] \in Int
          OBVIOUS
        <5> HIDE DEF U
        <5> QED
          BY <1>1, <5>1, SumInt DEF Sum
      <4>4. fun[x] \in Int
        OBVIOUS
      <4> HIDE DEF U, Good
      <4> QED
        BY <2>4, <2>5, <4>2, <4>3, <4>4
    <3> QED
      BY <3>1, <3>2
  <2>7. Sum(T) \in Int
    BY <2>4, <2>5
  <2> QED
    BY <2>6, <2>7
<1>5. Nat \subseteq Sizes
  <2> HIDE DEF Sizes
  <2> QED
    BY <1>3, <1>4, NatGrow
<1>6. S \in Good
  BY <1>1, <1>5
<1> QED
  BY <1>6 DEF Sum

\* A sum is that over some of the elements and that over the others
\* (proposal.ts:82).
LEMMA SumParts ==
  ASSUME NEW fun, NEW S, IsFiniteSet(S), \A x \in S : fun[x] \in Int, NEW T \in SUBSET S
  PROVE  SumFunctionOnSet(fun, S) = SumFunctionOnSet(fun, T) + SumFunctionOnSet(fun, S \ T)
<1> DEFINE Sum(U) == SumFunctionOnSet(fun, U)
           Good == {U \in SUBSET S : Sum(S) = Sum(U) + Sum(S \ U)}
<1>1. \A U \in SUBSET S : IsFiniteSet(U) /\ \A x \in U : fun[x] \in Int
  BY FS_Subset
<1>2. \A U \in SUBSET S : Sum(U) \in Int /\ \A x \in U : Sum(U) = fun[x] + Sum(U \ {x})
  BY <1>1, SumPick
<1>3. Sum({}) = 0
  BY FS_EmptySet, SumTurn
<1> HIDE DEF Sum
<1>4. {} \in Good
  <2>1. S \ {} = S
    OBVIOUS
  <2> QED
    BY <1>2, <1>3, <2>1
<1>5. ASSUME NEW U \in SUBSET S, U # {}, Less(U) \in Good PROVE U \in Good
  <2> DEFINE x == First(U)
             V == Less(U)
  <2>1. x \in U /\ V = U \ {x}
    BY <1>5 DEF First, Less
  <2>2. Sum(S) = Sum(V) + Sum(S \ V)
    BY <1>5
  <2> HIDE DEF x, V
  <2>3. x \in S \ V /\ (S \ V) \ {x} = S \ U /\ V \in SUBSET S
    BY <2>1
  <2>4. Sum(S \ V) = fun[x] + Sum(S \ U)
    BY <1>2, <2>3
  <2>5. Sum(U) = fun[x] + Sum(V)
    BY <1>2, <2>1
  <2>6. fun[x] \in Int /\ Sum(V) \in Int /\ Sum(S \ U) \in Int
    BY <1>2, <2>1, <2>3
  <2> QED
    BY <2>2, <2>4, <2>5, <2>6
<1>6. SUBSET S \subseteq Good
  <2> HIDE DEF Good
  <2> QED
    BY <1>4, <1>5, SetsGrow
<1> QED
  BY <1>6 DEF Sum

\* A sum of nothing less than zero is not less than that of some of it, as the
\* payments that others left behind come on top (proposal.ts:82).
LEMMA SumNatural ==
  ASSUME NEW fun, NEW S, IsFiniteSet(S), \A x \in S : fun[x] \in Nat
  PROVE  /\ SumFunctionOnSet(fun, S) \in Nat
         /\ \A T \in SUBSET S : SumFunctionOnSet(fun, T) <= SumFunctionOnSet(fun, S)
<1> DEFINE Sum(U) == SumFunctionOnSet(fun, U)
           Good == {U \in SUBSET S : Sum(U) \in Nat}
<1>1. \A U \in SUBSET S : IsFiniteSet(U)
  BY FS_Subset
<1>2. Sum({}) = 0
  BY FS_EmptySet, SumTurn
<1>3. \A U \in SUBSET S : U # {} => Sum(U) = fun[First(U)] + Sum(Less(U))
  BY <1>1, SumTurn
<1>4. \A U \in SUBSET S : Sum(S) = Sum(U) + Sum(S \ U)
  BY SumParts
<1> HIDE DEF Sum
<1>5. {} \in Good
  BY <1>2
<1>6. ASSUME NEW U \in SUBSET S, U # {}, Less(U) \in Good PROVE U \in Good
  <2>1. First(U) \in S
    BY <1>6 DEF First
  <2> QED
    BY <1>3, <1>6, <2>1
<1>7. SUBSET S \subseteq Good
  <2> HIDE DEF Good
  <2> QED
    BY <1>5, <1>6, SetsGrow
<1>8. \A U \in SUBSET S : Sum(U) \in Nat /\ Sum(S \ U) \in Nat
  BY <1>7
<1>9. ASSUME NEW U \in SUBSET S PROVE Sum(U) <= Sum(S)
  <2>1. Sum(S) = Sum(U) + Sum(S \ U)
    BY <1>4
  <2>2. Sum(U) \in Nat /\ Sum(S \ U) \in Nat
    BY <1>8
  <2> QED
    BY <2>1, <2>2
<1>10. Sum(S) \in Nat
  BY <1>8
<1> QED
  BY <1>9, <1>10 DEF Sum

\* A sum over one set is that over another one that its elements are mapped to
\* one for one, as members are to their roles (session.ts:91-130).
LEMMA SumMapped ==
  ASSUME NEW fun, NEW gun, NEW S, NEW T, NEW e, IsFiniteSet(S), IsFiniteSet(T),
         \A x \in S : e[x] \in T /\ gun[x] = fun[e[x]],
         \A x, y \in S : e[x] = e[y] => x = y,
         \A y \in T : \E x \in S : e[x] = y,
         \A y \in T : fun[y] \in Int
  PROVE  SumFunctionOnSet(gun, S) = SumFunctionOnSet(fun, T)
<1> DEFINE F(U) == SumFunctionOnSet(fun, U)
           G(U) == SumFunctionOnSet(gun, U)
           To(U) == {e[x] : x \in U}
           Good == {U \in SUBSET S : G(U) = F(To(U))}
<1>1. \A U \in SUBSET S : IsFiniteSet(U)
  BY FS_Subset
<1>2. \A U \in SUBSET T : IsFiniteSet(U)
  BY FS_Subset
<1>3. F({}) = 0 /\ G({}) = 0
  BY FS_EmptySet, SumTurn
<1>4. \A U \in SUBSET S : U # {} => G(U) = gun[First(U)] + G(Less(U))
  BY <1>1, SumTurn
<1>5. ASSUME NEW V \in SUBSET T, NEW y \in V
      PROVE  F(V) = fun[y] + F(V \ {y})
  <2>1. IsFiniteSet(V) /\ \A z \in V : fun[z] \in Int
    BY <1>2
  <2> QED
    BY <2>1, SumPick
<1> HIDE DEF F, G
<1>6. {} \in Good
  <2>1. To({}) = {}
    OBVIOUS
  <2> QED
    BY <1>3, <2>1
<1>7. ASSUME NEW U \in SUBSET S, U # {}, Less(U) \in Good PROVE U \in Good
  <2> DEFINE x == First(U)
             V == Less(U)
  <2>1. x \in U /\ V = U \ {x}
    BY <1>7 DEF First, Less
  <2>2. G(U) = gun[x] + G(V) /\ G(V) = F(To(V))
    BY <1>4, <1>7
  <2> HIDE DEF x, V
  <2>3. e[x] \in To(U) /\ To(U) \in SUBSET T
    BY <2>1
  <2>4. To(V) = To(U) \ {e[x]}
    <3>1. ASSUME NEW z \in V PROVE e[z] \in To(U) /\ e[z] # e[x]
      BY <2>1
    <3>2. ASSUME NEW z \in U, e[z] # e[x] PROVE e[z] \in To(V)
      BY <2>1, <3>2
    <3> QED
      BY <3>1, <3>2
  <2>5. gun[x] = fun[e[x]]
    BY <2>1
  <2> HIDE DEF To
  <2>6. F(To(U)) = fun[e[x]] + F(To(V))
    BY <1>5, <2>3, <2>4
  <2> QED
    BY <2>2, <2>5, <2>6
<1>8. SUBSET S \subseteq Good
  <2> HIDE DEF Good
  <2> QED
    BY <1>6, <1>7, SetsGrow
<1>9. To(S) = T
  OBVIOUS
<1> QED
  BY <1>8, <1>9 DEF F, G

\* Entries with a value, and the values they have (proposal.ts:78-83).
Valued(S) == \A x \in S : x.value \in Int
Values(entries) == [i \in DOMAIN entries |-> entries[i].value]

\* What entries are worth is the sum over their places (proposal.ts:78-83).
LEMMA TotalIsSum ==
  ASSUME NEW S, NEW s \in Seq(S)
  PROVE  /\ Total(s) = SumFunctionOnSet(Values(s), 1..Len(s))
         /\ IsFiniteSet(1..Len(s)) /\ DOMAIN s = 1..Len(s) /\ Len(s) \in Nat
<1>1. DOMAIN s = 1..Len(s) /\ Len(s) \in Nat
  OBVIOUS
<1>2. Total(s) = SumFunctionOnSet(Values(s), DOMAIN s)
  BY DEF Total, Values, SumFunction
<1>3. IsFiniteSet(1..Len(s))
  BY <1>1, FS_Interval
<1> QED
  BY <1>1, <1>2, <1>3

\* No entries are worth nothing (proposal.ts:82).
LEMMA TotalNone == Total(<<>>) = 0
<1>1. <<>> \in Seq({}) /\ 1..Len(<<>>) = {}
  OBVIOUS
<1>2. Total(<<>>) = SumFunctionOnSet(Values(<<>>), {})
  <2>1. Total(<<>>) = SumFunctionOnSet(Values(<<>>), 1..Len(<<>>))
    BY <1>1, TotalIsSum
  <2> QED
    BY <1>1, <2>1
<1>3. SumFunctionOnSet(Values(<<>>), {}) = 0
  BY FS_EmptySet, SumTurn
<1> QED
  BY <1>2, <1>3

\* One more entry adds its value (proposal.ts:82).
LEMMA TotalMore ==
  ASSUME NEW S, NEW s \in Seq(S), NEW x \in S, Valued(S)
  PROVE  Total(Append(s, x)) = Total(s) + x.value /\ Total(s) \in Int
<1> DEFINE t == Append(s, x)
           n == Len(s)
<1>1. /\ t \in Seq(S) /\ Len(t) = n + 1 /\ n \in Nat
      /\ \A i \in 1..n : t[i] = s[i]
      /\ t[n + 1] = x
  OBVIOUS
<1>2. Total(s) = SumFunctionOnSet(Values(s), 1..n) /\ IsFiniteSet(1..n) /\ DOMAIN s = 1..n
  BY TotalIsSum
<1> HIDE DEF t
<1>3. /\ Total(t) = SumFunctionOnSet(Values(t), 1..(n + 1)) /\ IsFiniteSet(1..(n + 1))
      /\ DOMAIN t = 1..(n + 1)
  BY <1>1, TotalIsSum
<1>4. \A i \in 1..(n + 1) : Values(t)[i] = t[i].value /\ Values(t)[i] \in Int
  BY <1>1, <1>3 DEF Values, Valued
<1>5. \A i \in 1..n : Values(s)[i] = s[i].value /\ Values(s)[i] \in Int
  BY <1>2 DEF Values, Valued
<1> HIDE DEF n
<1>6. SumFunctionOnSet(Values(t), 1..(n + 1))
        = Values(t)[n + 1] + SumFunctionOnSet(Values(t), (1..(n + 1)) \ {n + 1})
  <2> DEFINE D == 1..(n + 1)
             v == Values(t)
  <2>1. n + 1 \in D /\ IsFiniteSet(D) /\ \A i \in D : v[i] \in Int
    BY <1>1, <1>3, <1>4
  <2> HIDE DEF D, v
  <2>2. SumFunctionOnSet(v, D) = v[n + 1] + SumFunctionOnSet(v, D \ {n + 1})
    BY <2>1, SumPick
  <2> QED
    BY <2>2 DEF D, v
<1>7. (1..(n + 1)) \ {n + 1} = 1..n
  BY <1>1
<1>8. SumFunctionOnSet(Values(t), 1..n) = SumFunctionOnSet(Values(s), 1..n)
  <2>1. \A i \in 1..n : Values(t)[i] = Values(s)[i]
    BY <1>1, <1>4, <1>5
  <2> QED
    BY <1>2, <2>1, SumSame
<1>9. SumFunctionOnSet(Values(s), 1..n) \in Int
  BY <1>2, <1>5, SumInt
<1>10. Values(t)[n + 1] = x.value /\ x.value \in Int
  BY <1>1, <1>4
<1>11. Total(s) \in Int
  BY <1>2, <1>9
<1>12. Total(t) = x.value + Total(s)
  BY <1>2, <1>3, <1>6, <1>7, <1>8, <1>10
<1>13. Total(t) = Total(s) + x.value
  BY <1>10, <1>11, <1>12
<1> QED
  BY <1>11, <1>13 DEF t

\* What entries are worth is a number (proposal.ts:78-83).
LEMMA TotalInt ==
  ASSUME NEW S, NEW s \in Seq(S), Valued(S)
  PROVE  Total(s) \in Int
<1>1. Total(s) = SumFunctionOnSet(Values(s), 1..Len(s))
      /\ IsFiniteSet(1..Len(s)) /\ DOMAIN s = 1..Len(s)
  BY TotalIsSum
<1>2. \A i \in 1..Len(s) : Values(s)[i] \in Int
  BY <1>1 DEF Values, Valued
<1> QED
  BY <1>1, <1>2, SumInt

\* Two lists are worth together what each is, as the payments and the fees of
\* the server are (contract/util.ts:102).
LEMMA TotalJoined ==
  ASSUME NEW S, NEW s \in Seq(S), NEW t \in Seq(S), Valued(S)
  PROVE  Total(s \o t) = Total(s) + Total(t)
<1> DEFINE Good == {q \in Seq(S) : Total(s \o q) = Total(s) + Total(q)}
<1>0. Total(s) \in Int
  BY TotalInt
<1>1. <<>> \in Good
  <2>1. s \o <<>> = s /\ <<>> \in Seq(S)
    OBVIOUS
  <2> QED
    BY <1>0, <2>1, TotalNone
<1>2. ASSUME NEW q \in Seq(S), NEW x \in S, q \in Good PROVE Append(q, x) \in Good
  <2>1. s \o Append(q, x) = Append(s \o q, x) /\ s \o q \in Seq(S)
    BY JoinedMore
  <2>2. Total(Append(s \o q, x)) = Total(s \o q) + x.value
    BY <2>1, TotalMore
  <2>3. Total(Append(q, x)) = Total(q) + x.value /\ Total(q) \in Int
    BY TotalMore
  <2>4. Total(s \o q) = Total(s) + Total(q)
    BY <1>2
  <2>5. x.value \in Int /\ Append(q, x) \in Seq(S)
    BY DEF Valued
  <2>6. Total(s \o Append(q, x)) = Total(s) + Total(Append(q, x))
    BY <1>0, <2>1, <2>2, <2>3, <2>4, <2>5
  <2> QED
    BY <2>5, <2>6
<1>3. Seq(S) \subseteq Good
  <2> HIDE DEF Good
  <2> QED
    BY <1>1, <1>2, SeqGrow
<1> QED
  BY <1>3

-----------------------------------------------------------------------------
(* The session and what the operations make of it.                          *)

SessionFields == {"members", "proposal", "roles", "sigs"}
TermFields    == {"paths", "payments", "programs"}
DateFields    == {"created_at", "deadline", "effective"}

\* Records with their fields.
IsSession(s) ==
  /\ s = [f \in SessionFields |-> s[f]]
  /\ s.proposal = [f \in DOMAIN s.proposal |-> s.proposal[f]]
  /\ TermFields \cup DateFields \subseteq DOMAIN s.proposal

\* The terms change, the rest of a proposal does not.
SameRest(p, q) ==
  DOMAIN q = DOMAIN p /\ \A f \in DOMAIN p \ TermFields : q[f] = p[f]

Member(pub, pid) == [pub |-> pub, pid |-> pid]

\* The paths of a member, as enrollment.ts:86-91 adds them.
PathsOf(m) ==
  [i \in 1..Len(Role[m.pid].paths) |->
     [path |-> Role[m.pid].paths[i].path, value |-> Role[m.pid].paths[i].value,
      addr |-> new_address(m.pub, i - 1)]]

\* What a member who joins adds to the session (session.ts:48-64,
\* enrollment.ts:75-109).
LEMMA JoinMakes ==
  ASSUME NEW s, IsSession(s), NEW pub, NEW pid
  PROVE  LET j == join_session(pub, pid, s)
             m == Member(pub, pid)
             p == s.proposal
             q == j.proposal
         IN /\ IsSession(j) /\ SameRest(p, q)
            /\ j.members = Append(s.members, m) /\ j.roles = s.roles /\ j.sigs = s.sigs
            /\ q.paths = p.paths \o PathsOf(m)
            /\ q.payments = IF Role[pid].payment > 0 THEN Append(p.payments, PaymentOf(m))
                            ELSE p.payments
            /\ q.programs = add_programs(p.programs, Role[pid], pub)
<1> DEFINE j == join_session(pub, pid, s)
           m == Member(pub, pid)
           p == s.proposal
           q == add_member_data(pub, Role[pid], p)
<1>1. j = [s EXCEPT !.members = Append(@, m), !.proposal = q]
  BY DEF join_session, Member
<1>2. p = [f \in DOMAIN p |-> p[f]] /\ TermFields \cup DateFields \subseteq DOMAIN p
      /\ s = [f \in SessionFields |-> s[f]]
  BY DEF IsSession
<1>3. /\ q = [f \in DOMAIN p |-> q[f]] /\ SameRest(p, q)
      /\ q.paths = p.paths \o PathsOf(m)
      /\ q.payments = IF Role[pid].payment > 0 THEN Append(p.payments, PaymentOf(m))
                      ELSE p.payments
      /\ q.programs = add_programs(p.programs, Role[pid], pub)
  <2> HIDE DEF p
  <2> QED
    BY <1>2 DEF add_member_data, SameRest, TermFields, PathsOf, PaymentOf, Member
<1> HIDE DEF q, m
<1>4. /\ j = [f \in SessionFields |-> j[f]] /\ j.proposal = q
      /\ j.members = Append(s.members, m) /\ j.roles = s.roles /\ j.sigs = s.sigs
  <2> HIDE DEF j
  <2> QED
    BY <1>1, <1>2 DEF SessionFields
<1> HIDE DEF p
<1>5. DOMAIN q = DOMAIN p
  BY <1>3 DEF SameRest
<1>6. IsSession(j)
  BY <1>2, <1>3, <1>4, <1>5 DEF IsSession
<1> QED
  BY <1>3, <1>4, <1>6 DEF m, q, p

\* What a member who leaves takes away (session.ts:66-76, enrollment.ts:111-130).
LEMMA LeaveMakes ==
  ASSUME NEW s, IsSession(s), NEW pub
  PROVE  LET l == leave_session(pub, s)
             p == s.proposal
             q == l.proposal
         IN /\ IsSession(l) /\ SameRest(p, q)
            /\ l.members = Filter(s.members, {m \in ToSet(s.members) : m.pub # pub})
            /\ l.roles = s.roles /\ l.sigs = s.sigs
            /\ q.paths = Foreign(pub, p.paths)
            /\ q.payments = Foreign(pub, p.payments)
            /\ q.programs = RemovePub(p.programs, pub)
<1> DEFINE l == leave_session(pub, s)
           p == s.proposal
           q == rem_member_data(pub, p)
           rest == Filter(s.members, {m \in ToSet(s.members) : m.pub # pub})
<1>1. l = [s EXCEPT !.members = rest, !.proposal = q]
  BY DEF leave_session
<1>2. p = [f \in DOMAIN p |-> p[f]] /\ TermFields \cup DateFields \subseteq DOMAIN p
      /\ s = [f \in SessionFields |-> s[f]]
  BY DEF IsSession
<1>3. /\ q = [f \in DOMAIN p |-> q[f]] /\ SameRest(p, q)
      /\ q.paths = Foreign(pub, p.paths)
      /\ q.payments = Foreign(pub, p.payments)
      /\ q.programs = RemovePub(p.programs, pub)
  <2> HIDE DEF p
  <2> QED
    BY <1>2 DEF rem_member_data, SameRest, TermFields
<1> HIDE DEF q, rest
<1>4. /\ l = [f \in SessionFields |-> l[f]] /\ l.proposal = q
      /\ l.members = rest /\ l.roles = s.roles /\ l.sigs = s.sigs
  <2> HIDE DEF l
  <2> QED
    BY <1>1, <1>2 DEF SessionFields
<1> HIDE DEF p
<1>5. DOMAIN q = DOMAIN p
  BY <1>3 DEF SameRest
<1>6. IsSession(l)
  BY <1>2, <1>3, <1>4, <1>5 DEF IsSession
<1> QED
  BY <1>3, <1>4, <1>6 DEF rest, q, p

\* Signatures are added or dropped (session.ts:78-89).
LEMMA SigsMade ==
  ASSUME NEW s, IsSession(s), NEW pub
  PROVE  LET e == endorse_session(s, pub)
             r == reset_session(s)
         IN /\ IsSession(e) /\ e.members = s.members /\ e.roles = s.roles
            /\ e.proposal = s.proposal /\ e.sigs = Append(s.sigs, endorse_proposal(s.proposal, pub))
            /\ IsSession(r) /\ r.members = s.members /\ r.roles = s.roles
            /\ r.proposal = s.proposal /\ r.sigs = <<>>
<1> DEFINE e == endorse_session(s, pub)
           r == reset_session(s)
           new == Append(s.sigs, endorse_proposal(s.proposal, pub))
<1>1. e = [s EXCEPT !.sigs = new] /\ r = [s EXCEPT !.sigs = <<>>]
  BY DEF endorse_session, reset_session
<1>2. s = [f \in SessionFields |-> s[f]]
  BY DEF IsSession
<1> HIDE DEF e, r, new
<1>3. /\ e = [f \in SessionFields |-> e[f]] /\ e.members = s.members /\ e.roles = s.roles
      /\ e.proposal = s.proposal /\ e.sigs = new
      /\ r = [f \in SessionFields |-> r[f]] /\ r.members = s.members /\ r.roles = s.roles
      /\ r.proposal = s.proposal /\ r.sigs = <<>>
  BY <1>1, <1>2 DEF SessionFields
<1> QED
  BY <1>3 DEF IsSession, e, r, new

\* A draft starts with the fields of its template, and defaults for the others
\* (session.ts:36-46, proposal.ts:30-47).
LEMMA CreateMakes ==
  ASSUME NEW template \in Templates
  PROVE  LET s == create_session(template, Start)
             t == template.proposal
             p == s.proposal
         IN /\ IsSession(s)
            /\ s.members = <<>> /\ s.roles = template.roles /\ s.sigs = <<>>
            /\ \A f \in TermFields : p[f] = IF f \in DOMAIN t THEN t[f] ELSE <<>>
            /\ p.created_at = IF "created_at" \in DOMAIN t THEN t.created_at ELSE Start
            /\ p.effective = IF "effective" \in DOMAIN t THEN t.effective ELSE NULL
            /\ p.deadline = get_proposal_deadline(t, Start)
<1> DEFINE s == create_session(template, Start)
           t == template.proposal
           d == PROPOSAL_DEFAULTS(Start)
           o == [deadline |-> get_proposal_deadline(t, Start)]
           u == Spread(d, t)
           p == Spread(u, o)
<1>1. s = [members |-> <<>>, proposal |-> p, roles |-> template.roles, sigs |-> <<>>]
  BY DEF create_session, create_proposal
<1>2. /\ u = [f \in DOMAIN u |-> u[f]] /\ DOMAIN u = DOMAIN d \cup DOMAIN t
      /\ \A f \in DOMAIN u : u[f] = IF f \in DOMAIN t THEN t[f] ELSE d[f]
  BY DEF Spread
<1>3. /\ p = [f \in DOMAIN p |-> p[f]] /\ DOMAIN p = DOMAIN u \cup {"deadline"}
      /\ p.deadline = get_proposal_deadline(t, Start)
      /\ \A f \in DOMAIN u \ {"deadline"} : p[f] = u[f]
  BY DEF Spread
<1>4. /\ TermFields \cup DateFields \subseteq DOMAIN d \cup {"deadline"}
      /\ \A f \in TermFields : d[f] = <<>>
      /\ d.created_at = Start /\ d.effective = NULL
  BY DEF PROPOSAL_DEFAULTS, TermFields, DateFields
<1> HIDE DEF u, p, d
<1>5. /\ s.proposal = p /\ s.members = <<>> /\ s.roles = template.roles /\ s.sigs = <<>>
      /\ s = [f \in SessionFields |-> s[f]]
  BY <1>1 DEF SessionFields
<1>6. TermFields \subseteq DOMAIN d /\ "created_at" \in DOMAIN d /\ "effective" \in DOMAIN d
  BY <1>4 DEF TermFields, DateFields
<1>7. TermFields \cup DateFields \subseteq DOMAIN p
  BY <1>2, <1>3, <1>4
<1>8. \A f \in TermFields : p[f] = IF f \in DOMAIN t THEN t[f] ELSE <<>>
  BY <1>2, <1>3, <1>4, <1>6 DEF TermFields
<1>9. /\ p.created_at = IF "created_at" \in DOMAIN t THEN t.created_at ELSE Start
      /\ p.effective = IF "effective" \in DOMAIN t THEN t.effective ELSE NULL
  BY <1>2, <1>3, <1>4, <1>6
<1>10. IsSession(s)
  BY <1>3, <1>5, <1>7 DEF IsSession
<1> QED
  BY <1>3, <1>5, <1>8, <1>9, <1>10

-----------------------------------------------------------------------------
(* The invariant of every draft.                                            *)

IsList(s) == s \in Seq(ToSet(s))

\* Who is there has asked for a role of the session, for one role only.
Seated(s) ==
  /\ s.members \in Seq([pub : Members, pid : RoleIds])
  /\ \A m \in ToSet(s.members) : <<m.pub, m.pid>> \in Seekers /\ m.pid \in s.roles
  /\ \A m, n \in ToSet(s.members) : m.pub = n.pub => m = n
  /\ IsFiniteSet(s.roles) /\ s.roles \subseteq RoleIds

\* Each signature is one that endorse_session made, of the proposal of then.
IsSignature(sig) == sig = endorse_proposal(sig.msg, sig.pub)
Signed(s) ==
  /\ IsList(s.sigs) /\ Len(s.sigs) <= MaxSigs
  /\ \A sig \in ToSet(s.sigs) : IsSignature(sig) /\ sig.pub \in Members

\* The terms are lists, and the dates are those of the template.
Dated(p) ==
  /\ IsList(p.paths) /\ IsList(p.payments)
  /\ p.created_at \in Int /\ p.created_at <= Start /\ p.deadline \in Int
  /\ p.effective \in Int \cup {NULL}

\* What is published had the signatures on the proposal it has, and no other,
\* and a contract is made of it after it was verified.
Published ==
  /\ published => verify_endorsements(session.proposal, session.sigs)
  /\ contract # NULL =>
       /\ published
       /\ LET req == publish_session(session) IN
          verify_publish_req(req, now) /\ contract = create_contract(req, ServerFees, now)

IInv ==
  /\ now \in Start..End /\ published \in BOOLEAN
  /\ IsSession(session) /\ Seated(session) /\ Signed(session) /\ Dated(session.proposal)
  /\ Published

\* A list of entries of some kind is a list (schema/draft.ts).
LEMMA Lists ==
  ASSUME NEW S, NEW s \in Seq(S)
  PROVE  IsList(s)
<1>1. s \in Seq(ToSet(s))
  <2> DEFINE T == ToSet(s)
  <2>1. /\ \A i \in 1..Len(s) : s[i] \in T
        /\ Len(s) \in Nat /\ s = [i \in 1..Len(s) |-> s[i]]
    BY DEF ToSet
  <2> DEFINE n == Len(s)
             r == [i \in 1..n |-> s[i]]
  <2>2. n \in Nat /\ \A i \in 1..n : s[i] \in T
    BY <2>1
  <2> HIDE DEF T, n
  <2>3. r \in Seq(T)
    BY <2>2
  <2>4. s = r
    BY <2>1 DEF n
  <2> HIDE DEF r
  <2> QED
    BY <2>3, <2>4 DEF T
<1> QED
  BY <1>1 DEF IsList

\* Two lists are one, of the entries of both (contract/util.ts:102).
LEMMA ListsJoined ==
  ASSUME NEW s, NEW t, IsList(s), IsList(t)
  PROVE  IsList(s \o t) /\ ToSet(s \o t) = ToSet(s) \cup ToSet(t)
<1> DEFINE S == ToSet(s) \cup ToSet(t)
<1>1. s \in Seq(ToSet(s)) /\ t \in Seq(ToSet(t)) /\ ToSet(s) \subseteq S /\ ToSet(t) \subseteq S
  BY DEF IsList
<1> HIDE DEF S
<1>2. s \in Seq(S) /\ t \in Seq(S)
  BY <1>1
<1>3. s \o t \in Seq(S)
  BY <1>2
<1>4. IsList(s \o t)
  BY <1>3, Lists
<1>5. ToSet(s \o t) = ToSet(s) \cup ToSet(t)
  <2> DEFINE T == S \cup {0}
  <2>1. 0 \in T /\ s \in Seq(T) /\ t \in Seq(T)
    BY <1>2
  <2> HIDE DEF T
  <2> QED
    BY <2>1, Elements
<1> QED
  BY <1>4, <1>5

\* A list with one more entry, as of members or signatures (session.ts:57, 87).
LEMMA ListsAppended ==
  ASSUME NEW s, NEW x, IsList(s)
  PROVE  /\ IsList(Append(s, x)) /\ ToSet(Append(s, x)) = ToSet(s) \cup {x}
         /\ Len(Append(s, x)) = Len(s) + 1
<1> DEFINE S == ToSet(s) \cup {x}
<1>1. s \in Seq(ToSet(s)) /\ ToSet(s) \subseteq S /\ x \in S
  BY DEF IsList
<1> HIDE DEF S
<1>2. s \in Seq(S)
  BY <1>1
<1>3. Append(s, x) \in Seq(S) /\ Len(Append(s, x)) = Len(s) + 1
  BY <1>1, <1>2
<1>4. IsList(Append(s, x))
  BY <1>3, Lists
<1>5. ToSet(Append(s, x)) = ToSet(s) \cup {x}
  BY <1>1, <1>2, Elements
<1> QED
  BY <1>3, <1>4, <1>5

\* What is kept of a list, as of the members when one leaves (session.ts:71).
LEMMA ListsFiltered ==
  ASSUME NEW s, NEW A, IsList(s)
  PROVE  IsList(Filter(s, A)) /\ ToSet(Filter(s, A)) = ToSet(s) \cap A
<1>1. s \in Seq(ToSet(s))
  BY DEF IsList
<1>2. Filter(s, A) \in Seq(ToSet(s)) /\ ToSet(Filter(s, A)) = ToSet(s) \cap A
  BY <1>1, FilterKeeps
<1> QED
  BY <1>2, Lists

\* Who joins was not there and asked for the role (session.ts:48-64), and the
\* paths are added to the others (enrollment.ts:75-109).
LEMMA JoinKeeps ==
  ASSUME NEW s, IsSession(s), Seated(s), Signed(s), Dated(s.proposal), NEW pub, NEW pid,
         <<pub, pid>> \in Seekers, has_role_policy(pid, s), ~has_membership(pub, s)
  PROVE  LET j == join_session(pub, pid, s) IN Seated(j) /\ Signed(j) /\ Dated(j.proposal)
<1> DEFINE j == join_session(pub, pid, s)
           m == Member(pub, pid)
           p == s.proposal
           q == j.proposal
<1>1. /\ IsSession(j) /\ SameRest(p, q)
      /\ j.members = Append(s.members, m) /\ j.roles = s.roles /\ j.sigs = s.sigs
      /\ q.paths = p.paths \o PathsOf(m)
      /\ q.payments = IF Role[pid].payment > 0 THEN Append(p.payments, PaymentOf(m))
                      ELSE p.payments
  BY JoinMakes
<1>2. pub \in Members /\ pid \in RoleIds /\ pid \in s.roles
  BY SeekersAssumption DEF has_role_policy
<1>3. m \in [pub : Members, pid : RoleIds] /\ m.pub = pub /\ m.pid = pid
  BY <1>2 DEF Member
<1>4. IsList(PathsOf(m))
  <2> DEFINE n == Len(Role[m.pid].paths)
             P == PathsOf(m)
  <2>1. n \in Nat
    BY <1>2, <1>3, RoleAssumption
  <2>2. P = [i \in 1..n |-> P[i]]
    BY DEF PathsOf
  <2> HIDE DEF P, n
  <2>3. P \in Seq({P[i] : i \in 1..n})
    BY <2>1, <2>2
  <2> QED
    BY <2>3, Lists DEF P
<1> HIDE DEF j, m, p
<1>5. Seated(j)
  <2>1. s.members \in Seq([pub : Members, pid : RoleIds])
    BY DEF Seated
  <2> DEFINE S == [pub : Members, pid : RoleIds]
  <2> HIDE DEF S
  <2>2. s.members \in Seq(S) /\ m \in S
    BY <1>3, <2>1 DEF S
  <2>3. Append(s.members, m) \in Seq(S) /\ ToSet(Append(s.members, m)) = ToSet(s.members) \cup {m}
    BY <2>2, Elements
  <2>4. \A n \in ToSet(s.members) : n.pub # m.pub
    BY <1>3 DEF has_membership
  <2>5. \A a, b \in ToSet(j.members) : a.pub = b.pub => a = b
    BY <1>1, <2>3, <2>4 DEF Seated
  <2>6. \A a \in ToSet(j.members) : <<a.pub, a.pid>> \in Seekers /\ a.pid \in j.roles
    BY <1>1, <1>2, <1>3, <2>3 DEF Seated
  <2>7. j.members \in Seq([pub : Members, pid : RoleIds])
    BY <1>1, <2>3 DEF S
  <2>8. IsFiniteSet(j.roles) /\ j.roles \subseteq RoleIds
    BY <1>1 DEF Seated
  <2> QED
    BY <2>5, <2>6, <2>7, <2>8 DEF Seated
<1>6. Signed(j)
  BY <1>1 DEF Signed
<1>7. Dated(q)
  <2>1. IsList(p.paths) /\ IsList(p.payments)
    BY DEF Dated, p
  <2>2. IsList(q.paths)
    BY <1>1, <1>4, <2>1, ListsJoined
  <2>3. IsList(q.payments)
    BY <1>1, <2>1, ListsAppended
  <2>4. q.created_at = p.created_at /\ q.deadline = p.deadline /\ q.effective = p.effective
    BY <1>1 DEF SameRest, IsSession, TermFields, DateFields, p
  <2> QED
    BY <2>2, <2>3, <2>4 DEF Dated, p
<1> QED
  BY <1>5, <1>6, <1>7 DEF j

\* Who leaves takes entries away and adds none (session.ts:66-76).
LEMMA LeaveKeeps ==
  ASSUME NEW s, IsSession(s), Seated(s), Signed(s), Dated(s.proposal), NEW pub
  PROVE  LET l == leave_session(pub, s) IN Seated(l) /\ Signed(l) /\ Dated(l.proposal)
<1> DEFINE l == leave_session(pub, s)
           p == s.proposal
           q == l.proposal
           rest == {m \in ToSet(s.members) : m.pub # pub}
<1>1. /\ IsSession(l) /\ SameRest(p, q)
      /\ l.members = Filter(s.members, rest)
      /\ l.roles = s.roles /\ l.sigs = s.sigs
      /\ q.paths = Foreign(pub, p.paths)
      /\ q.payments = Foreign(pub, p.payments)
  BY LeaveMakes
<1> HIDE DEF l, p, rest
<1>2. Seated(l)
  <2> DEFINE S == [pub : Members, pid : RoleIds]
  <2>1. s.members \in Seq(S)
    BY DEF Seated
  <2> HIDE DEF S
  <2>2. l.members \in Seq(S) /\ ToSet(l.members) \subseteq ToSet(s.members)
    BY <1>1, <2>1, FilterKeeps
  <2> QED
    BY <1>1, <2>2 DEF Seated, S
<1>3. Signed(l)
  BY <1>1 DEF Signed
<1>4. Dated(q)
  <2>1. IsList(p.paths) /\ IsList(p.payments)
    BY DEF Dated, p
  <2>2. IsList(q.paths)
    BY <1>1, <2>1, ListsFiltered DEF Foreign
  <2>3. IsList(q.payments)
    BY <1>1, <2>1, ListsFiltered DEF Foreign
  <2>4. q.created_at = p.created_at /\ q.deadline = p.deadline /\ q.effective = p.effective
    BY <1>1 DEF SameRest, IsSession, TermFields, DateFields, p
  <2> QED
    BY <2>2, <2>3, <2>4 DEF Dated, p
<1> QED
  BY <1>2, <1>3, <1>4 DEF l

\* A signature that is added is one of the proposal of the moment, and a reset
\* leaves none (session.ts:78-89).
LEMMA SignKeeps ==
  ASSUME NEW s, IsSession(s), Signed(s), NEW pub \in Members
  PROVE  /\ Len(s.sigs) < MaxSigs => Signed(endorse_session(s, pub))
         /\ Signed(reset_session(s))
<1> DEFINE e == endorse_session(s, pub)
           r == reset_session(s)
           new == endorse_proposal(s.proposal, pub)
<1>1. e.sigs = Append(s.sigs, new) /\ r.sigs = <<>>
  BY SigsMade
<1>2. IsSignature(new) /\ new.pub = pub
  BY DEF IsSignature, endorse_proposal, get_proposal_id
<1> HIDE DEF e, r, new
<1>3. ASSUME Len(s.sigs) < MaxSigs PROVE Signed(e)
  <2>1. IsList(e.sigs) /\ ToSet(e.sigs) = ToSet(s.sigs) \cup {new} /\ Len(e.sigs) = Len(s.sigs) + 1
    BY <1>1, ListsAppended DEF Signed
  <2>2. Len(s.sigs) \in Nat
    BY DEF Signed, IsList
  <2>3. Len(e.sigs) <= MaxSigs
    BY <1>3, <2>1, <2>2, BoundsAssumption
  <2> QED
    BY <1>2, <2>1, <2>3 DEF Signed
<1>4. Signed(r)
  <2>1. IsList(<<>>) /\ ToSet(<<>>) = {} /\ Len(<<>>) = 0
    BY DEF IsList, ToSet
  <2> QED
    BY <1>1, <2>1, BoundsAssumption DEF Signed
<1> QED
  BY <1>3, <1>4 DEF e, r

\* A draft starts without members and signatures (session.ts:36-46).
LEMMA InitInv == Init => IInv
<1> SUFFICES ASSUME Init PROVE IInv
  OBVIOUS
<1>1. PICK template \in Templates : session = create_session(template, Start)
  BY DEF Init
<1> DEFINE t == template.proposal
           p == session.proposal
<1>2. /\ IsSession(session)
      /\ session.members = <<>> /\ session.roles = template.roles /\ session.sigs = <<>>
      /\ \A f \in TermFields : p[f] = IF f \in DOMAIN t THEN t[f] ELSE <<>>
      /\ p.created_at = IF "created_at" \in DOMAIN t THEN t.created_at ELSE Start
      /\ p.effective = IF "effective" \in DOMAIN t THEN t.effective ELSE NULL
      /\ p.deadline = get_proposal_deadline(t, Start)
  BY <1>1, CreateMakes
<1>3. IsList(<<>>) /\ ToSet(<<>>) = {} /\ Len(<<>>) = 0
  BY DEF IsList, ToSet
<1>4. /\ IsFiniteSet(template.roles) /\ template.roles \subseteq RoleIds
      /\ \A f \in {"created_at", "deadline", "effective"} \cap DOMAIN t : t[f] \in Int
      /\ "created_at" \in DOMAIN t => t.created_at <= Start
      /\ \A f \in {"paths", "payments"} \cap DOMAIN t : IsList(t[f])
  BY TemplateAssumption DEF IsList
<1> HIDE DEF t, p
<1>5. Seated(session)
  BY <1>2, <1>3, <1>4 DEF Seated
<1>6. Signed(session)
  BY <1>2, <1>3, BoundsAssumption DEF Signed
<1>7. Dated(p)
  <2>1. IsList(p.paths)
    BY <1>2, <1>3, <1>4 DEF TermFields
  <2>2. IsList(p.payments)
    BY <1>2, <1>3, <1>4 DEF TermFields
  <2>3. p.created_at \in Int /\ p.created_at <= Start
    BY <1>2, <1>4, BoundsAssumption
  <2>4. p.effective \in Int \cup {NULL}
    BY <1>2, <1>4
  <2>5. p.deadline \in Int
    <3>1. CASE "deadline" \in DOMAIN t
      <4>1. get_proposal_deadline(t, Start) = t.deadline
        BY <3>1 DEF get_proposal_deadline
      <4> QED
        BY <1>2, <1>4, <3>1, <4>1
    <3>2. CASE "deadline" \notin DOMAIN t /\ "effective" \in DOMAIN t
      <4>1. get_proposal_deadline(t, Start) = t.effective - Start
        BY <3>2 DEF get_proposal_deadline
      <4>2. t.effective \in Int
        BY <1>4, <3>2
      <4> QED
        BY <1>2, <4>1, <4>2, BoundsAssumption
    <3>3. CASE "deadline" \notin DOMAIN t /\ "effective" \notin DOMAIN t
      <4>1. get_proposal_deadline(t, Start) = DEADLINE_DEFAULT
        BY <3>3 DEF get_proposal_deadline
      <4> QED
        BY <1>2, <4>1, PolicyAssumption
    <3> QED
      BY <3>1, <3>2, <3>3
  <2> QED
    BY <2>1, <2>2, <2>3, <2>4, <2>5 DEF Dated
<1>8. Published /\ now \in Start..End /\ published \in BOOLEAN
  <2>1. now = Start /\ published = FALSE /\ contract = NULL
    BY DEF Init
  <2>2. now \in Start..End
    BY <2>1, BoundsAssumption
  <2> QED
    BY <2>1, <2>2 DEF Published
<1> QED
  BY <1>2, <1>5, <1>6, <1>7, <1>8 DEF IInv, p

\* Every operation on a session keeps it one of its members and signatures,
\* and what is published was verified before (client/api/signer/draft.ts).
LEMMA StepInv ==
  ASSUME IInv, [Next]_vars
  PROVE  IInv'
<1> USE DEF IInv
<1>1. CASE UNCHANGED vars
  BY <1>1 DEF vars, Published
<1>2. CASE Tick
  <2>1. now + 1 \in Start..End
    BY <1>2, BoundsAssumption DEF Tick
  <2>2. contract = NULL
    BY <1>2 DEF Tick, Published
  <2> QED
    BY <1>2, <2>1, <2>2 DEF Tick, Published
<1>3. ASSUME ~published, NEW s, session' = s, IsSession(s), Seated(s), Signed(s),
             Dated(s.proposal), now' = now, published' = published, contract' = contract
      PROVE  IInv'
  BY <1>3 DEF Published
<1>4. ASSUME NEW pub \in Members, Reset \/ Endorse(pub) PROVE IInv'
  <2> DEFINE e == endorse_session(session, pub)
             r == reset_session(session)
  <2>1. /\ IsSession(e) /\ e.members = session.members /\ e.roles = session.roles
        /\ e.proposal = session.proposal
        /\ IsSession(r) /\ r.members = session.members /\ r.roles = session.roles
        /\ r.proposal = session.proposal
    BY SigsMade
  <2>2. (Len(session.sigs) < MaxSigs => Signed(e)) /\ Signed(r)
    BY SignKeeps
  <2>3. Seated(e) /\ Seated(r) /\ Dated(e.proposal) /\ Dated(r.proposal)
    <3> HIDE DEF e, r
    <3> QED
      BY <2>1 DEF Seated
  <2>4. CASE Reset
    <3>1. session' = r /\ ~published /\ now' = now /\ published' = published /\ contract' = contract
      BY <2>4 DEF Reset
    <3> HIDE DEF e, r
    <3> QED
      BY <1>3, <2>1, <2>2, <2>3, <3>1
  <2>5. CASE Endorse(pub)
    <3>1. /\ session' = e /\ ~published /\ now' = now /\ published' = published
          /\ contract' = contract /\ Len(session.sigs) < MaxSigs
      BY <2>5 DEF Endorse
    <3> HIDE DEF e, r
    <3> QED
      BY <1>3, <2>1, <2>2, <2>3, <3>1
  <2> QED
    BY <1>4, <2>4, <2>5
<1>5. ASSUME NEW pub \in Members, Leave(pub) PROVE IInv'
  <2> DEFINE l == leave_session(pub, session)
  <2>1. IsSession(l) /\ Seated(l) /\ Signed(l) /\ Dated(l.proposal)
    BY LeaveMakes, LeaveKeeps
  <2>2. session' = l /\ ~published /\ now' = now /\ published' = published /\ contract' = contract
    BY <1>5 DEF Leave
  <2> HIDE DEF l
  <2> QED
    BY <1>3, <2>1, <2>2
<1>6. ASSUME NEW pub, NEW pid, Join(pub, pid) PROVE IInv'
  <2> DEFINE j == join_session(pub, pid, session)
  <2>1. <<pub, pid>> \in Seekers /\ has_role_policy(pid, session) /\ ~has_membership(pub, session)
    BY <1>6 DEF Join
  <2>2. IsSession(j) /\ Seated(j) /\ Signed(j) /\ Dated(j.proposal)
    BY <2>1, JoinMakes, JoinKeeps
  <2>3. session' = j /\ ~published /\ now' = now /\ published' = published /\ contract' = contract
    BY <1>6 DEF Join
  <2> HIDE DEF j
  <2> QED
    BY <1>3, <2>2, <2>3
<1>7. CASE Publish
  <2>1. /\ session' = session /\ now' = now /\ published' = TRUE
        /\ verify_endorsements(session.proposal, session.sigs)
        /\ contract' = IF verify_publish_req(publish_session(session), now)
                       THEN create_contract(publish_session(session), ServerFees, now) ELSE NULL
    BY <1>7 DEF Publish
  <2>2. Published'
    BY <2>1 DEF Published
  <2> QED
    BY <2>1, <2>2
<1>8. CASE Reset
  <2>1. session' = reset_session(session) /\ ~published /\ now' = now
        /\ published' = published /\ contract' = contract
    BY <1>8 DEF Reset
  <2> DEFINE r == reset_session(session)
  <2>2. /\ IsSession(r) /\ r.members = session.members /\ r.roles = session.roles
        /\ r.proposal = session.proposal /\ r.sigs = <<>>
    BY SigsMade
  <2> HIDE DEF r
  <2>3. IsList(<<>>) /\ ToSet(<<>>) = {} /\ Len(<<>>) = 0
    BY DEF IsList, ToSet
  <2>4. Signed(r)
    BY <2>2, <2>3, BoundsAssumption DEF Signed
  <2>5. Seated(r)
    BY <2>2 DEF Seated
  <2> QED
    BY <1>3, <2>1, <2>2, <2>4, <2>5 DEF r
<1> QED
  BY <1>1, <1>2, <1>4, <1>5, <1>6, <1>7, <1>8 DEF Next

\* A set of numbers that is not empty has a largest one, which is what
\* get_max_vout_size takes of the templates (contract/util.ts:79-87).
LEMMA MaxIsOne ==
  ASSUME NEW S, IsFiniteSet(S), S # {}, S \subseteq Int
  PROVE  Max(S) \in S
<1> DEFINE Good == {T \in SUBSET S : T # {} => \E x \in T : \A y \in T : x >= y}
<1>1. {} \in Good
  OBVIOUS
<1>2. ASSUME NEW T \in SUBSET S, T # {}, Less(T) \in Good PROVE T \in Good
  <2>1. First(T) \in T /\ Less(T) = T \ {First(T)}
    BY <1>2 DEF First, Less
  <2>2. CASE Less(T) = {}
    <3>1. \A y \in T : y = First(T)
      BY <2>1, <2>2
    <3>2. First(T) \in Int
      BY <2>1
    <3>3. \A y \in T : First(T) >= y
      BY <3>1, <3>2
    <3> QED
      BY <2>1, <3>3
  <2>3. CASE Less(T) # {}
    <3>1. PICK x \in Less(T) : \A y \in Less(T) : x >= y
      BY <1>2, <2>3
    <3>2. x \in T /\ x \in Int /\ First(T) \in Int
      BY <2>1
    <3>3. \A y \in T : y = First(T) \/ y \in Less(T)
      BY <2>1
    <3>4. CASE x >= First(T)
      <4>1. \A y \in T : x >= y
        BY <3>1, <3>3, <3>4
      <4> QED
        BY <3>2, <4>1
    <3>5. CASE ~(x >= First(T))
      <4>1. \A y \in T : y \in Int
        OBVIOUS
      <4>2. \A y \in T : First(T) >= y
        BY <3>1, <3>2, <3>3, <3>5, <4>1
      <4> QED
        BY <2>1, <4>2
    <3> QED
      BY <3>4, <3>5
  <2> QED
    BY <2>2, <2>3
<1>3. SUBSET S \subseteq Good
  <2> HIDE DEF Good
  <2> QED
    BY <1>1, <1>2, SetsGrow
<1>4. \E x \in S : \A y \in S : x >= y
  BY <1>3
<1> QED
  BY <1>4 DEF Max

\* What is taken of each of finitely many entries is finite in number, as the
\* names of the paths are (proposal.ts:69).
LEMMA ImageFinite ==
  ASSUME NEW S, IsFiniteSet(S), NEW f
  PROVE  IsFiniteSet({f[x] : x \in S})
<1> DEFINE T == {f[x] : x \in S}
           g == [x \in S |-> f[x]]
<1>1. g \in Surjection(S, T)
  BY DEF Surjection
<1> HIDE DEF g, T
<1>2. IsFiniteSet(T)
  BY <1>1, FS_Surjection
<1> QED
  BY <1>2 DEF T

\* The outputs of a template are those of the path and the payments
\* (contract/util.ts:93-112).
Vouts(entries) == [i \in DOMAIN entries |-> [value |-> entries[i].value, addr |-> entries[i].addr]]

\* Outputs are made of entries one by one (contract/util.ts:93-112).
LEMMA VoutsMade ==
  /\ \A label, paths, payments :
       get_path_vouts(label, paths, payments)
         = ToBag(Vouts(filter_path(label, paths)) \o Vouts(payments))
  /\ \A s : IsList(s) => /\ IsList(Vouts(s)) /\ Len(Vouts(s)) = Len(s) /\ DOMAIN s = 1..Len(s)
                         /\ DOMAIN Vouts(s) = 1..Len(s)
<1>1. ASSUME NEW label, NEW paths, NEW payments
      PROVE  get_path_vouts(label, paths, payments)
               = ToBag(Vouts(filter_path(label, paths)) \o Vouts(payments))
  BY DEF get_path_vouts, Vouts
<1>2. ASSUME NEW s, IsList(s)
      PROVE  /\ IsList(Vouts(s)) /\ Len(Vouts(s)) = Len(s) /\ DOMAIN s = 1..Len(s)
             /\ DOMAIN Vouts(s) = 1..Len(s)
  <2>1. DOMAIN s = 1..Len(s) /\ Len(s) \in Nat
    BY <1>2 DEF IsList
  <2> DEFINE V == Vouts(s)
             n == Len(s)
  <2>2. V = [i \in 1..n |-> V[i]]
    BY <2>1 DEF Vouts
  <2> HIDE DEF V, n
  <2>3. V \in Seq({V[i] : i \in 1..n}) /\ Len(V) = n /\ DOMAIN V = 1..n
    BY <2>1, <2>2 DEF n
  <2>4. IsList(V)
    BY <2>3, Lists
  <2> QED
    BY <2>1, <2>3, <2>4 DEF V, n
<1> QED
  BY <1>1, <1>2

\* A template has finitely many outputs, each as often as there is an entry for it
\* (contract/util.ts:104-111).
LEMMA BagCounts ==
  ASSUME NEW s, IsList(s)
  PROVE  /\ IsFiniteSet(ToSet(s)) /\ DOMAIN ToBag(s) = ToSet(s)
         /\ \A x \in ToSet(s) : /\ ToBag(s)[x] = Cardinality({i \in DOMAIN s : s[i] = x})
                                /\ ToBag(s)[x] \in Nat
         /\ SumFunction(ToBag(s)) \in Int
<1>1. DOMAIN s = 1..Len(s) /\ Len(s) \in Nat
  BY DEF IsList
<1>2. IsFiniteSet(DOMAIN s)
  BY <1>1, FS_Interval
<1>3. ToSet(s) = {s[i] : i \in DOMAIN s}
  BY DEF ToSet
<1>4. IsFiniteSet(ToSet(s))
  BY <1>2, <1>3, ImageFinite
<1>5. DOMAIN ToBag(s) = ToSet(s)
  BY <1>3 DEF ToBag, Range
<1>6. \A x \in ToSet(s) : ToBag(s)[x] = Cardinality({i \in DOMAIN s : s[i] = x})
  BY <1>3 DEF ToBag, Range
<1>7. ASSUME NEW x \in ToSet(s) PROVE Cardinality({i \in DOMAIN s : s[i] = x}) \in Nat
  <2>1. {i \in DOMAIN s : s[i] = x} \subseteq DOMAIN s
    OBVIOUS
  <2> QED
    BY <1>2, <2>1, FS_Subset, FS_CardinalityType
<1>8. \A x \in ToSet(s) : ToBag(s)[x] \in Nat
  BY <1>6, <1>7
<1>9. SumFunction(ToBag(s)) \in Int
  <2> DEFINE B == ToBag(s)
  <2>1. \A x \in ToSet(s) : B[x] \in Int
    BY <1>8
  <2> HIDE DEF B
  <2>2. SumFunctionOnSet(B, ToSet(s)) \in Int
    BY <1>4, <2>1, SumInt
  <2> QED
    BY <1>5, <2>2 DEF SumFunction, B
<1> QED
  BY <1>4, <1>5, <1>6, <1>8, <1>9

\* The templates of a contract have a largest size where there is a path, and
\* none where there is no path (contract/util.ts:79-87).
LEMMA SizeIsThere ==
  ASSUME NEW p, IsList(p.paths), IsList(p.payments), NEW fees, IsList(fees)
  PROVE  get_max_vout_size(create_spend_templates(p, fees)) # NULL <=> p.paths # <<>>
<1> DEFINE out == create_spend_templates(p, fees)
           names == get_path_names(p.paths)
           sizes == {SumFunction(out[l]) : l \in names}
<1>1. IsFiniteSet(ToSet(p.paths))
  BY BagCounts
<1>2. names = {e.path : e \in ToSet(p.paths)}
  BY DEF get_path_names
<1>3. IsFiniteSet(names)
  <2> DEFINE E == ToSet(p.paths)
             f == [e \in E |-> e.path]
  <2>1. names = {f[e] : e \in E}
    BY <1>2
  <2> HIDE DEF E, f
  <2>2. IsFiniteSet({f[e] : e \in E})
    BY <1>1, ImageFinite DEF E
  <2> QED
    BY <2>1, <2>2
<1>4. names = {} <=> p.paths = <<>>
  <2>1. p.paths \in Seq(ToSet(p.paths))
    BY DEF IsList
  <2>2. DOMAIN p.paths = 1..Len(p.paths) /\ Len(p.paths) \in Nat
    BY <2>1
  <2>3. CASE p.paths = <<>>
    <3>1. ToSet(p.paths) = {}
      BY <2>3 DEF ToSet
    <3> QED
      BY <1>2, <2>3, <3>1
  <2>4. CASE p.paths # <<>>
    <3>1. Len(p.paths) # 0
      BY <2>1, <2>4
    <3>2. p.paths[1] \in ToSet(p.paths)
      BY <2>2, <3>1 DEF ToSet
    <3> QED
      BY <1>2, <2>4, <3>2
  <2> QED
    BY <2>3, <2>4
<1>5. DOMAIN out = names /\ \A l \in names :
        out[l] = ToBag(Vouts(filter_path(l, p.paths)) \o Vouts(p.payments \o fees))
  BY VoutsMade DEF create_spend_templates
<1> HIDE DEF out, names
<1>6. ASSUME NEW l \in names PROVE SumFunction(out[l]) \in Int
  <2>1. IsList(filter_path(l, p.paths)) /\ IsList(p.payments \o fees)
    BY ListsFiltered, ListsJoined DEF filter_path
  <2>2. IsList(Vouts(filter_path(l, p.paths))) /\ IsList(Vouts(p.payments \o fees))
    BY <2>1, VoutsMade
  <2>3. IsList(Vouts(filter_path(l, p.paths)) \o Vouts(p.payments \o fees))
    BY <2>2, ListsJoined
  <2> QED
    BY <1>5, <2>3, BagCounts
<1>7. IsFiniteSet(sizes) /\ sizes \subseteq Int
  <2> DEFINE f == [l \in names |-> SumFunction(out[l])]
  <2>1. sizes = {f[l] : l \in names}
    OBVIOUS
  <2> HIDE DEF f
  <2>2. IsFiniteSet(sizes)
    BY <1>3, <2>1, ImageFinite
  <2> QED
    BY <1>6, <2>2
<1>8. CASE p.paths = <<>>
  BY <1>4, <1>5, <1>8 DEF get_max_vout_size, out
<1>9. CASE p.paths # <<>>
  <2>1. names # {} /\ sizes # {}
    BY <1>4, <1>9
  <2>2. get_max_vout_size(out) = Max(sizes)
    BY <1>5, <2>1 DEF get_max_vout_size
  <2> HIDE DEF sizes
  <2>3. Max(sizes) \in Int
    BY <1>7, <2>1, MaxIsOne
  <2> QED
    BY <1>9, <2>2, <2>3, NullAssumption DEF out
<1> QED
  BY <1>8, <1>9

-----------------------------------------------------------------------------
(* What holds of every draft.                                               *)

\* The invariant holds in every reachable state, whatever the members do with the
\* draft (client/lib/session.ts:36-151).
THEOREM Invariance == Spec => []IInv
<1> QED
  BY InitInv, StepInv, PTL DEF Spec

\* The session is one of its members and signatures, whatever is done with it,
\* and a contract comes of what was published (types/draft.ts:51-56).
THEOREM DraftTypeCorrect == Spec => []TypeOK
<1>1. IInv => TypeOK
  <2> SUFFICES ASSUME IInv PROVE TypeOK
    OBVIOUS
  <2>1. DOMAIN session = {"members", "proposal", "roles", "sigs"}
    BY DEF IInv, IsSession, SessionFields
  <2>2. {<<m.pub, m.pid>> : m \in ToSet(session.members)} \subseteq Seekers
    BY DEF IInv, Seated
  <2>3. {sig.pub : sig \in ToSet(session.sigs)} \subseteq Members /\ Len(session.sigs) <= MaxSigs
    BY DEF IInv, Signed
  <2>4. now \in Start..End /\ (contract # NULL => published)
    BY DEF IInv, Published
  <2> QED
    BY <2>1, <2>2, <2>3, <2>4 DEF TypeOK
<1> QED
  BY <1>1, Invariance, PTL

\* Whoever comes, goes and signs, what is published with a signature of each
\* member has one of each on the proposal that is published (session.ts:144-151,
\* membership.ts:59-65).
THEOREM EveryMemberSigned == Spec => []PublishedEndorsed
<1>1. IInv => PublishedEndorsed
  <2> SUFFICES ASSUME IInv, published, has_endorsements(session.members, session.sigs),
                      NEW m \in ToSet(session.members)
               PROVE  endorse_proposal(session.proposal, m.pub) \in ToSet(session.sigs)
    BY DEF PublishedEndorsed
  <2>1. PICK sig \in ToSet(session.sigs) : sig.pub = m.pub
    BY DEF has_endorsements
  <2>2. sig.msg = session.proposal
    BY DEF IInv, Published, verify_endorsements, verify_endorsement, get_proposal_id
  <2>3. sig = endorse_proposal(sig.msg, sig.pub)
    BY DEF IInv, Signed, IsSignature
  <2> QED
    BY <2>1, <2>2, <2>3
<1> QED
  BY <1>1, Invariance, PTL

\* Members who verify the contract find what they proposed and signed, and data
\* that are well formed with a path and without an effective date; and one with
\* such a date leaves them the time to fund it before that date, however long
\* the draft took (validation/contract.ts:74-115, contract/util.ts:63-87,
\* validation/proposal.ts:141-146).
THEOREM ContractsVerify == Spec => []ContractVerifies
<1>1. IInv => ContractVerifies
  <2> SUFFICES ASSUME IInv, contract # NULL PROVE ContractVerifies
    BY DEF ContractVerifies
  <2> DEFINE p == session.proposal
             req == publish_session(session)
             c == create_contract(req, ServerFees, now)
             out == create_spend_templates(p, ServerFees)
  <2>1. /\ contract = c /\ verify_publish_req(req, now)
        /\ verify_endorsements(p, session.sigs)
        /\ Dated(p) /\ now \in Start..End
    BY DEF IInv, Published
  <2>2. req.proposal = p /\ req.endorsements = session.sigs
    BY DEF publish_session
  <2> HIDE DEF req
  <2>3. /\ c.terms = p /\ c.endorsements = session.sigs /\ c.fees = ServerFees
        /\ c.created_at = now /\ c.deadline_at = get_deadline(p, now)
        /\ c.outputs = out /\ c.prop_id = get_proposal_id(p)
        /\ c.cid = get_contract_id(out, get_proposal_id(p), now)
        /\ c.tx_bsize = get_max_vout_size(out)
    BY <2>2 DEF create_contract
  <2> HIDE DEF c, out
  <2>4. verify_contract_publishing(c, p)
    BY <2>3 DEF verify_contract_publishing, out
  <2>5. verify_contract_data(c)
    BY <2>3 DEF verify_contract_data
  <2>6. verify_endorsements(c.terms, c.endorsements)
    BY <2>1, <2>3
  <2> HIDE DEF p
  <2>7. validate_proposal_data(p) /\ check_stamps(p, now)
    BY <2>1, <2>2 DEF verify_publish_req, verify_proposal_data
  <2>8. /\ now \in Int /\ Start \in Int /\ Start <= now /\ STAMP_MIN <= now /\ STAMP_MIN \in Int
        /\ p.deadline \in Int /\ p.created_at \in Int /\ p.created_at <= Start
        /\ p.effective \in Int \cup {NULL}
    BY <2>1, BoundsAssumption, PolicyAssumption DEF Dated
  <2>9. c.tx_bsize # NULL <=> p.paths # <<>>
    <3>1. IsList(ServerFees)
      BY FeesAssumption DEF IsList
    <3> QED
      BY <2>1, <2>3, <3>1, SizeIsThere DEF Dated, out
  <2>10. p.deadline >= ProposalPolicy.DEADLINE_MIN /\ ProposalPolicy.DEADLINE_MIN >= 0
         /\ ProposalPolicy.DEADLINE_MIN \in Int
    BY <2>7, <2>8, PolicyAssumption DEF check_stamps, Within
  <2>11. ASSUME p.effective = NULL, p.paths # <<>>
         PROVE  validate_contract_data(c)
    <3>1. c.deadline_at = now + p.deadline
      BY <2>3, <2>11 DEF get_deadline
    <3>2. c.created_at >= STAMP_MIN /\ c.deadline_at >= STAMP_MIN
      BY <2>3, <2>8, <2>10, <3>1
    <3> QED
      BY <2>3, <2>7, <2>9, <2>11, <3>2 DEF validate_contract_data
  <2>12. p.effective # NULL => now + p.deadline <= p.effective
    BY <2>7, <2>8 DEF check_stamps, Within
  <2> QED
    BY <2>1, <2>3, <2>4, <2>5, <2>6, <2>11, <2>12 DEF ContractVerifies, p
<1> QED
  BY <1>1, Invariance, PTL

-----------------------------------------------------------------------------
(* What the members have in the terms.                                      *)

\* The terms are those of the roles (demo/03_create_proposal.ts: the template
\* has none of its own).
RolesOnly ==
  \A template \in Templates : DOMAIN template.proposal \cap TermFields = {}

Persons  == [pub : Members, pid : RoleIds]
Pubs(members) == {m.pub : m \in ToSet(members)}
Address  == [xpub : Members, idx : Nat]
Path     == [path : STRING, value : Int, addr : Address]
Payment  == [value : Nat, addr : Address]
PathsBy(pub) == {e \in Path : e.addr.xpub = pub}
In(pid)  == {m \in Persons : m.pid = pid}

\* Each member has the paths of the role, in their order, and nobody else any.
PathsKept(s) ==
  /\ s.proposal.paths \in Seq(Path)
  /\ \A e \in ToSet(s.proposal.paths) : e.addr.xpub \in Pubs(s.members)
  /\ \A m \in ToSet(s.members) : Filter(s.proposal.paths, PathsBy(m.pub)) = PathsOf(m)

\* Each member has the payment, and what others left comes after their paths.
PaymentsKept(s) ==
  /\ s.proposal.payments \in Seq(Payment)
  /\ \A m \in ToSet(s.members) : Role[m.pid].payment > 0 => PaymentOf(m) \in ToSet(s.proposal.payments)
  /\ \A e \in ToSet(s.proposal.payments) : e.addr.xpub \notin Pubs(s.members) => e.addr.idx > 0

\* No role has more members than seats.
SeatsKept(s) == \A r \in s.roles : Len(Filter(s.members, In(r))) <= Role[r].seats

Kept(s) == PathsKept(s) /\ PaymentsKept(s) /\ SeatsKept(s)

\* The paths and the payment that a member brings (enrollment.ts:86-95).
LEMMA MemberBrings ==
  ASSUME NEW m \in Persons
  PROVE  /\ PathsOf(m) \in Seq(PathsBy(m.pub)) /\ PathsOf(m) \in Seq(Path)
         /\ PaymentOf(m) \in Payment /\ PaymentOf(m).addr.xpub = m.pub
         /\ Len(PathsOf(m)) = Len(Role[m.pid].paths) /\ Len(PathsOf(m)) \in Nat
         /\ \A i \in 1..Len(PathsOf(m)) : PathsOf(m)[i].addr = new_address(m.pub, i - 1)
<1> DEFINE ps == Role[m.pid].paths
           n == Len(ps)
           P == PathsOf(m)
<1>1. m.pid \in RoleIds /\ m.pub \in Members
  BY DEF Persons
<1>2. ps \in Seq([path : STRING, value : Int]) /\ Role[m.pid].payment \in Nat
  BY <1>1, RoleAssumption
<1>3. n \in Nat /\ \A i \in 1..n : ps[i].path \in STRING /\ ps[i].value \in Int
  <2> DEFINE S == [path : STRING, value : Int]
  <2> HIDE DEF S, ps
  <2>1. ps \in Seq(S)
    BY <1>2 DEF S, ps
  <2>2. n \in Nat /\ \A i \in 1..n : ps[i] \in S
    BY <2>1
  <2> QED
    BY <2>2 DEF S
<1>4. ASSUME NEW i \in 1..n
      PROVE  /\ P[i] = [path |-> ps[i].path, value |-> ps[i].value,
                       addr |-> new_address(m.pub, i - 1)]
             /\ P[i].addr = new_address(m.pub, i - 1)
  BY DEF PathsOf
<1>5. P = [i \in 1..n |-> P[i]]
  BY DEF PathsOf
<1> HIDE DEF P, n, ps
<1>6. \A i \in 1..n : i - 1 \in Nat /\ new_address(m.pub, i - 1) \in Address
                      /\ new_address(m.pub, i - 1).xpub = m.pub
  BY <1>1, <1>3 DEF new_address, Address
<1>7. \A i \in 1..n : P[i] \in PathsBy(m.pub) /\ P[i].addr = new_address(m.pub, i - 1)
  <2> TAKE i \in 1..n
  <2>1. P[i] \in Path
    <3> DEFINE a == new_address(m.pub, i - 1)
    <3>1. a \in Address /\ ps[i].path \in STRING /\ ps[i].value \in Int
      BY <1>3, <1>6
    <3>2. P[i] = [path |-> ps[i].path, value |-> ps[i].value, addr |-> a]
      BY <1>4
    <3> HIDE DEF a
    <3> QED
      BY <3>1, <3>2 DEF Path
  <2>2. P[i].addr = new_address(m.pub, i - 1)
    BY <1>4
  <2> QED
    BY <1>6, <2>1, <2>2 DEF PathsBy
<1>8. P \in Seq(PathsBy(m.pub)) /\ Len(P) = n
  <2> DEFINE S == PathsBy(m.pub)
  <2> HIDE DEF S
  <2>1. \A i \in 1..n : P[i] \in S
    BY <1>7 DEF S
  <2> DEFINE Q == [i \in 1..n |-> P[i]]
  <2>2. Q \in Seq(S) /\ Len(Q) = n
    BY <1>3, <2>1
  <2> HIDE DEF Q
  <2>3. P = Q
    BY <1>5 DEF Q
  <2> QED
    BY <2>2, <2>3 DEF S
<1>9. P \in Seq(Path)
  <2> DEFINE S == PathsBy(m.pub)
  <2>1. S \subseteq Path
    BY DEF PathsBy
  <2>2. P \in Seq(S)
    BY <1>8
  <2> HIDE DEF S
  <2> QED
    BY <2>1, <2>2
<1>10. PaymentOf(m) \in Payment /\ PaymentOf(m).addr.xpub = m.pub
  BY <1>1, <1>2, <1>3 DEF PaymentOf, Payment, Address, new_address, ps, n
<1> QED
  BY <1>3, <1>7, <1>8, <1>9, <1>10 DEF P, n, ps

\* Who joins is there with the paths of the role, and the others as they were
\* (session.ts:48-64, enrollment.ts:75-109).
LEMMA JoinKeepsPaths ==
  ASSUME NEW s, IsSession(s), Seated(s), PathsKept(s), NEW pub, NEW pid,
         <<pub, pid>> \in Seekers, ~has_membership(pub, s)
  PROVE  PathsKept(join_session(pub, pid, s))
<1> DEFINE j == join_session(pub, pid, s)
           m == Member(pub, pid)
           p == s.proposal.paths
           q == j.proposal.paths
<1>1. j.members = Append(s.members, m) /\ q = p \o PathsOf(m)
  BY JoinMakes
<1>2. m \in Persons /\ m.pub = pub
  BY SeekersAssumption DEF Persons, Member
<1>3. /\ s.members \in Seq(Persons) /\ p \in Seq(Path)
      /\ \A e \in ToSet(p) : e.addr.xpub \in Pubs(s.members)
      /\ \A n \in ToSet(s.members) : Filter(p, PathsBy(n.pub)) = PathsOf(n)
  BY DEF Seated, Persons, PathsKept
<1>4. pub \notin Pubs(s.members)
  BY DEF has_membership, Pubs
<1> HIDE DEF j, m, p
<1>5. /\ PathsOf(m) \in Seq(PathsBy(pub)) /\ PathsOf(m) \in Seq(Path)
  BY <1>2, MemberBrings
<1>6. q \in Seq(Path) /\ PathsBy(pub) \subseteq Path
  <2> HIDE DEF q
  <2> QED
    BY <1>1, <1>3, <1>5 DEF PathsBy
<1>7. ToSet(j.members) = ToSet(s.members) \cup {m}
  BY <1>1, <1>2, <1>3, Elements
<1>8. ToSet(PathsOf(m)) \subseteq PathsBy(pub)
  BY <1>5 DEF ToSet
<1>9. ToSet(q) = ToSet(p) \cup ToSet(PathsOf(m))
  <2>1. IsList(p) /\ IsList(PathsOf(m))
    BY <1>3, <1>5, Lists
  <2> QED
    BY <1>1, <2>1, ListsJoined
<1>10. Pubs(j.members) = Pubs(s.members) \cup {pub}
  BY <1>2, <1>7 DEF Pubs
<1>11. \A e \in ToSet(q) : e.addr.xpub \in Pubs(j.members)
  BY <1>3, <1>8, <1>9, <1>10 DEF PathsBy
<1>12. \A A : Filter(q, A) = Filter(p, A) \o Filter(PathsOf(m), A)
  BY <1>1, <1>3, <1>5, FilterJoined
<1>13. ASSUME NEW n \in ToSet(j.members) PROVE Filter(q, PathsBy(n.pub)) = PathsOf(n)
  <2>1. Filter(q, PathsBy(n.pub)) = Filter(p, PathsBy(n.pub)) \o Filter(PathsOf(m), PathsBy(n.pub))
    BY <1>12
  <2>2. CASE n \in ToSet(s.members)
    <3>1. n.pub # pub
      BY <1>4, <2>2 DEF Pubs
    <3>2. ToSet(PathsOf(m)) \cap PathsBy(n.pub) = {}
      BY <1>8, <3>1 DEF PathsBy
    <3>3. Filter(PathsOf(m), PathsBy(n.pub)) = <<>>
      BY <1>5, <3>2, FilterNothing
    <3>4. Filter(p, PathsBy(n.pub)) = PathsOf(n)
      BY <1>3, <2>2
    <3>5. n \in Persons
      BY <1>3, <2>2 DEF ToSet
    <3>6. PathsOf(n) \in Seq(Path)
      BY <3>5, MemberBrings
    <3> QED
      BY <2>1, <3>3, <3>4, <3>6
  <2>3. CASE n = m
    <3>1. n.pub = pub
      BY <1>2, <2>3
    <3>2. ToSet(p) \cap PathsBy(pub) = {}
      BY <1>3, <1>4 DEF PathsBy
    <3>3. Filter(p, PathsBy(pub)) = <<>>
      BY <1>3, <3>2, FilterNothing
    <3>4. Filter(PathsOf(m), PathsBy(pub)) = PathsOf(m)
      BY <1>5, FilterAll
    <3> QED
      BY <1>5, <2>1, <2>3, <3>1, <3>3, <3>4
  <2> QED
    BY <1>7, <2>2, <2>3
<1> QED
  BY <1>6, <1>11, <1>13 DEF PathsKept, j

\* The limit to which a wallet looks for its addresses is beyond those of the
\* paths of a member, so that all of them go (enrollment.ts:111-123).
LEMMA ForeignPaths ==
  ASSUME NEW s, IsSession(s), Seated(s), PathsKept(s), NEW pub
  PROVE  Foreign(pub, s.proposal.paths) = Filter(s.proposal.paths, Path \ PathsBy(pub))
<1> DEFINE p == s.proposal.paths
           A == {e \in ToSet(p) : ~has_address(pub, e.addr, Len(p))}
           B == Path \ PathsBy(pub)
<1>1. /\ s.members \in Seq(Persons) /\ p \in Seq(Path)
      /\ \A e \in ToSet(p) : e.addr.xpub \in Pubs(s.members)
      /\ \A n \in ToSet(s.members) : Filter(p, PathsBy(n.pub)) = PathsOf(n)
  BY DEF Seated, Persons, PathsKept
<1> HIDE DEF p
<1>2. ASSUME NEW e \in ToSet(p) PROVE e \in A <=> e \in B
  <2>1. e \in Path
    BY <1>1, Elements DEF ToSet
  <2>2. CASE e.addr.xpub # pub
    BY <2>1, <2>2 DEF has_address, PathsBy
  <2>3. CASE e.addr.xpub = pub
    <3>1. PICK m \in ToSet(s.members) : m.pub = pub
      BY <1>1, <2>3 DEF Pubs
    <3>2. Filter(p, PathsBy(pub)) = PathsOf(m) /\ m \in Persons
      BY <1>1, <3>1 DEF ToSet
    <3>3. e \in ToSet(PathsOf(m)) /\ Len(PathsOf(m)) <= Len(p)
      <4>1. /\ ToSet(Filter(p, PathsBy(pub))) = ToSet(p) \cap PathsBy(pub)
            /\ Len(Filter(p, PathsBy(pub))) <= Len(p)
        BY <1>1, FilterKeeps
      <4>2. e \in PathsBy(pub)
        BY <2>1, <2>3 DEF PathsBy
      <4> QED
        BY <3>2, <4>1, <4>2
    <3>4. /\ Len(PathsOf(m)) \in Nat /\ DOMAIN PathsOf(m) = 1..Len(PathsOf(m))
          /\ \A i \in 1..Len(PathsOf(m)) : PathsOf(m)[i].addr = new_address(pub, i - 1)
      BY <3>1, <3>2, MemberBrings
    <3>5. PICK i \in 1..Len(PathsOf(m)) : e = PathsOf(m)[i]
      BY <3>3, <3>4 DEF ToSet
    <3>6. e.addr = new_address(pub, i - 1) /\ i \in Int /\ Len(p) \in Nat
      BY <1>1, <3>4, <3>5
    <3>7. e.addr.idx < Len(p)
      BY <3>3, <3>4, <3>5, <3>6 DEF new_address
    <3>8. e \notin A
      BY <2>3, <3>7 DEF has_address
    <3>9. e \notin B
      BY <2>1, <2>3 DEF PathsBy
    <3> QED
      BY <3>8, <3>9
  <2> QED
    BY <2>2, <2>3
<1>3. Filter(p, A) = Filter(p, B)
  <2> HIDE DEF A, B
  <2> QED
    BY <1>1, <1>2, FilterAlike
<1> QED
  BY <1>3 DEF Foreign, p

\* Who leaves takes all paths along, and nothing of the others
\* (session.ts:66-76, enrollment.ts:111-123).
LEMMA LeaveKeepsPaths ==
  ASSUME NEW s, IsSession(s), Seated(s), PathsKept(s), NEW pub
  PROVE  PathsKept(leave_session(pub, s))
<1> DEFINE l == leave_session(pub, s)
           p == s.proposal.paths
           q == l.proposal.paths
           Rest == Path \ PathsBy(pub)
<1>1. /\ l.members = Filter(s.members, {m \in ToSet(s.members) : m.pub # pub})
      /\ q = Foreign(pub, p)
  BY LeaveMakes
<1>2. q = Filter(p, Rest)
  BY <1>1, ForeignPaths
<1>3. /\ s.members \in Seq(Persons) /\ p \in Seq(Path)
      /\ \A e \in ToSet(p) : e.addr.xpub \in Pubs(s.members)
      /\ \A n \in ToSet(s.members) : Filter(p, PathsBy(n.pub)) = PathsOf(n)
  BY DEF Seated, Persons, PathsKept
<1> HIDE DEF l, p, Rest, q
<1>4. ToSet(l.members) = {m \in ToSet(s.members) : m.pub # pub}
  <2> DEFINE A == {m \in ToSet(s.members) : m.pub # pub}
  <2>1. l.members = Filter(s.members, A) /\ A = ToSet(s.members) \cap A
    BY <1>1
  <2> HIDE DEF A
  <2>2. ToSet(Filter(s.members, A)) = ToSet(s.members) \cap A
    BY <1>3, FilterKeeps
  <2> QED
    BY <2>1, <2>2 DEF A
<1>5. q \in Seq(Path) /\ ToSet(q) = ToSet(p) \cap Rest
  BY <1>2, <1>3, FilterKeeps
<1>6. ASSUME NEW e \in ToSet(q) PROVE e.addr.xpub \in Pubs(l.members)
  <2>1. e \in ToSet(p) /\ e.addr.xpub # pub
    BY <1>5 DEF Rest, PathsBy
  <2>2. PICK m \in ToSet(s.members) : m.pub = e.addr.xpub
    BY <1>3, <2>1 DEF Pubs
  <2> QED
    BY <1>4, <2>1, <2>2 DEF Pubs
<1>7. ASSUME NEW n \in ToSet(l.members) PROVE Filter(q, PathsBy(n.pub)) = PathsOf(n)
  <2>1. n \in ToSet(s.members) /\ n.pub # pub
    BY <1>4
  <2>2. Filter(q, PathsBy(n.pub)) = Filter(p, Rest \cap PathsBy(n.pub))
    BY <1>2, <1>3, FilterTwice
  <2>3. Rest \cap PathsBy(n.pub) = PathsBy(n.pub)
    BY <2>1 DEF Rest, PathsBy
  <2> QED
    BY <1>3, <2>1, <2>2, <2>3
<1> QED
  BY <1>5, <1>6, <1>7 DEF PathsKept, l, q

\* Who joins has the payment of the role, and the others what they had
\* (enrollment.ts:92-95).
LEMMA JoinKeepsPayments ==
  ASSUME NEW s, IsSession(s), Seated(s), PaymentsKept(s), NEW pub, NEW pid,
         <<pub, pid>> \in Seekers
  PROVE  PaymentsKept(join_session(pub, pid, s))
<1> DEFINE j == join_session(pub, pid, s)
           m == Member(pub, pid)
           p == s.proposal.payments
           q == j.proposal.payments
<1>1. /\ j.members = Append(s.members, m)
      /\ q = IF Role[pid].payment > 0 THEN Append(p, PaymentOf(m)) ELSE p
  BY JoinMakes
<1>2. m \in Persons /\ m.pub = pub /\ m.pid = pid
  BY SeekersAssumption DEF Persons, Member
<1>3. /\ s.members \in Seq(Persons) /\ p \in Seq(Payment)
      /\ \A n \in ToSet(s.members) : Role[n.pid].payment > 0 => PaymentOf(n) \in ToSet(p)
      /\ \A e \in ToSet(p) : e.addr.xpub \notin Pubs(s.members) => e.addr.idx > 0
  BY DEF Seated, Persons, PaymentsKept
<1> HIDE DEF j, m, p, q
<1>4. PaymentOf(m) \in Payment /\ PaymentOf(m).addr.xpub = pub
  BY <1>2, MemberBrings
<1>5. ToSet(j.members) = ToSet(s.members) \cup {m}
  BY <1>1, <1>2, <1>3, Elements
<1>6. Pubs(j.members) = Pubs(s.members) \cup {pub}
  BY <1>2, <1>5 DEF Pubs
<1>7. /\ q \in Seq(Payment)
      /\ ToSet(q) = IF Role[pid].payment > 0 THEN ToSet(p) \cup {PaymentOf(m)} ELSE ToSet(p)
  <2>1. CASE Role[pid].payment > 0
    <3>1. q = Append(p, PaymentOf(m))
      BY <1>1, <2>1
    <3>2. Append(p, PaymentOf(m)) \in Seq(Payment)
      BY <1>3, <1>4
    <3>3. ToSet(Append(p, PaymentOf(m))) = ToSet(p) \cup {PaymentOf(m)}
      BY <1>3, <1>4, Elements
    <3> QED
      BY <2>1, <3>1, <3>2, <3>3
  <2>2. CASE ~(Role[pid].payment > 0)
    BY <1>1, <1>3, <2>2
  <2> QED
    BY <2>1, <2>2
<1>8. \A n \in ToSet(j.members) : Role[n.pid].payment > 0 => PaymentOf(n) \in ToSet(q)
  BY <1>2, <1>3, <1>5, <1>7
<1>9. \A e \in ToSet(q) : e.addr.xpub \notin Pubs(j.members) => e.addr.idx > 0
  BY <1>3, <1>4, <1>6, <1>7
<1> QED
  BY <1>7, <1>8, <1>9 DEF PaymentsKept, j, q

\* The members that are left when one leaves (session.ts:66-76).
LEMMA LeftMembers ==
  ASSUME NEW s, IsSession(s), Seated(s), NEW pub
  PROVE  LET l == leave_session(pub, s) IN
         /\ ToSet(l.members) = {m \in ToSet(s.members) : m.pub # pub}
         /\ Pubs(l.members) = Pubs(s.members) \ {pub}
         /\ s.members \in Seq(Persons)
<1> DEFINE l == leave_session(pub, s)
           A == {m \in ToSet(s.members) : m.pub # pub}
<1>1. l.members = Filter(s.members, A)
  BY LeaveMakes
<1>2. s.members \in Seq(Persons)
  BY DEF Seated, Persons
<1> HIDE DEF A, l
<1>3. ToSet(Filter(s.members, A)) = ToSet(s.members) \cap A
  BY <1>2, FilterKeeps
<1>4. ToSet(l.members) = {m \in ToSet(s.members) : m.pub # pub}
  BY <1>1, <1>3 DEF A
<1>5. Pubs(l.members) = Pubs(s.members) \ {pub}
  BY <1>4 DEF Pubs
<1> QED
  BY <1>2, <1>4, <1>5 DEF l

\* Who leaves may leave a payment behind, though never one that was at the
\* first address (enrollment.ts:117-123).
LEMMA LeaveKeepsPayments ==
  ASSUME NEW s, IsSession(s), Seated(s), PaymentsKept(s), NEW pub
  PROVE  PaymentsKept(leave_session(pub, s))
<1> DEFINE l == leave_session(pub, s)
           p == s.proposal.payments
           q == l.proposal.payments
           A == {e \in ToSet(p) : ~has_address(pub, e.addr, Len(p))}
<1>1. q = Filter(p, A)
  BY LeaveMakes DEF Foreign
<1>2. /\ ToSet(l.members) = {m \in ToSet(s.members) : m.pub # pub}
      /\ Pubs(l.members) = Pubs(s.members) \ {pub}
      /\ s.members \in Seq(Persons)
  BY LeftMembers
<1>3. /\ p \in Seq(Payment)
      /\ \A n \in ToSet(s.members) : Role[n.pid].payment > 0 => PaymentOf(n) \in ToSet(p)
      /\ \A e \in ToSet(p) : e.addr.xpub \notin Pubs(s.members) => e.addr.idx > 0
  BY DEF PaymentsKept
<1>4. \A e \in A : e \in ToSet(p) /\ ~(e.addr.xpub = pub /\ e.addr.idx < Len(p))
  BY DEF has_address
<1>5. \A e \in ToSet(p) : e.addr.xpub # pub => e \in A
  BY DEF has_address
<1> HIDE DEF A, l, p, q
<1>6. q \in Seq(Payment) /\ ToSet(q) = ToSet(p) \cap A
  BY <1>1, <1>3, FilterKeeps
<1>7. ASSUME NEW n \in ToSet(l.members), Role[n.pid].payment > 0 PROVE PaymentOf(n) \in ToSet(q)
  <2>1. n \in ToSet(s.members) /\ n.pub # pub /\ n \in Persons
    BY <1>2 DEF ToSet
  <2>2. PaymentOf(n) \in ToSet(p) /\ PaymentOf(n).addr.xpub # pub
    BY <1>3, <1>7, <2>1, MemberBrings
  <2> QED
    BY <1>5, <1>6, <2>2
<1>8. ASSUME NEW e \in ToSet(q), e.addr.xpub \notin Pubs(l.members) PROVE e.addr.idx > 0
  <2>1. e \in ToSet(p) /\ ~(e.addr.xpub = pub /\ e.addr.idx < Len(p))
    BY <1>4, <1>6
  <2>2. CASE e.addr.xpub = pub
    <3>1. Len(p) \in Nat /\ DOMAIN p = 1..Len(p) /\ e \in Payment
      BY <1>3, <2>1 DEF ToSet
    <3>2. Len(p) >= 1
      BY <2>1, <3>1 DEF ToSet
    <3>3. e.addr.idx \in Nat
      BY <3>1 DEF Payment, Address
    <3> QED
      BY <2>1, <2>2, <3>1, <3>2, <3>3
  <2>3. CASE e.addr.xpub # pub
    BY <1>2, <1>3, <1>8, <2>1, <2>3
  <2> QED
    BY <2>2, <2>3
<1> QED
  BY <1>6, <1>7, <1>8 DEF PaymentsKept, l, q

\* The holders of a role, by the members there may be (enrollment.ts:195-204).
LEMMA HoldersAre ==
  ASSUME NEW members \in Seq(Persons), NEW pid
  PROVE  Holders(pid, members) = Filter(members, In(pid))
<1> DEFINE A == {m \in ToSet(members) : m.pid = pid}
           B == In(pid)
<1>1. \A m \in ToSet(members) : m \in A <=> m \in B
  BY DEF In, ToSet
<1> HIDE DEF A, B
<1>2. Filter(members, A) = Filter(members, B)
  BY <1>1, FilterAlike
<1> QED
  BY <1>2 DEF Holders, A, B

\* A member joins a role that has a seat left (enrollment.ts:195-204), and who
\* leaves takes none.
LEMMA SeatsAreKept ==
  ASSUME NEW s, IsSession(s), Seated(s), SeatsKept(s), NEW pub
  PROVE  /\ \A pid : <<pub, pid>> \in Seekers /\ has_open_roles(pid, s)
                       => SeatsKept(join_session(pub, pid, s))
         /\ SeatsKept(leave_session(pub, s))
<1>1. s.members \in Seq(Persons) /\ s.roles \subseteq RoleIds
      /\ \A r \in s.roles : Len(Filter(s.members, In(r))) <= Role[r].seats
  BY DEF Seated, Persons, SeatsKept
<1>2. \A r \in s.roles : Role[r].seats \in Nat
  BY <1>1, RoleAssumption
<1>3. \A A : Filter(s.members, A) \in Seq(Persons) /\ Len(Filter(s.members, A)) \in Nat
  <2> TAKE A
  <2>1. Filter(s.members, A) \in Seq(Persons)
    BY <1>1, FilterKeeps
  <2> QED
    BY <2>1
<1>4. ASSUME NEW pid, <<pub, pid>> \in Seekers, has_open_roles(pid, s)
      PROVE  SeatsKept(join_session(pub, pid, s))
  <2> DEFINE j == join_session(pub, pid, s)
             m == Member(pub, pid)
  <2>1. j.members = Append(s.members, m) /\ j.roles = s.roles
    BY JoinMakes
  <2>2. m \in Persons /\ m.pid = pid
    BY <1>4, SeekersAssumption DEF Persons, Member
  <2>3. Len(Filter(s.members, In(pid))) < Role[pid].seats
    BY <1>1, <1>4, HoldersAre DEF has_open_roles
  <2> HIDE DEF j, m
  <2>4. ASSUME NEW r \in s.roles PROVE Len(Filter(j.members, In(r))) <= Role[r].seats
    <3> DEFINE f == Filter(s.members, In(r))
    <3>1. Filter(j.members, In(r)) = IF m \in In(r) THEN Append(f, m) ELSE f
      <4> DEFINE ms == s.members
                 R == In(r)
      <4>1. ms \in Seq(Persons) /\ m \in Persons
        BY <1>1, <2>2
      <4> HIDE DEF ms, R
      <4>2. Filter(Append(ms, m), R) = IF m \in R THEN Append(Filter(ms, R), m) ELSE Filter(ms, R)
        BY <4>1, FilterMore
      <4> QED
        BY <2>1, <4>2 DEF ms, R
    <3>2. f \in Seq(Persons) /\ Len(f) \in Nat /\ Len(f) <= Role[r].seats /\ Role[r].seats \in Nat
      BY <1>1, <1>2, <1>3
    <3>3. r = pid => Len(f) < Role[r].seats
      BY <2>3
    <3> HIDE DEF f
    <3>4. m \in In(r) => r = pid
      BY <2>2 DEF In
    <3>5. Len(Append(f, m)) = Len(f) + 1
      BY <2>2, <3>2
    <3> QED
      BY <3>1, <3>2, <3>3, <3>4, <3>5
  <2> QED
    BY <2>1, <2>4 DEF SeatsKept, j
<1>5. SeatsKept(leave_session(pub, s))
  <2> DEFINE l == leave_session(pub, s)
             A == {m \in ToSet(s.members) : m.pub # pub}
  <2>1. l.members = Filter(s.members, A) /\ l.roles = s.roles
    BY LeaveMakes
  <2> HIDE DEF l, A
  <2>2. ASSUME NEW r \in s.roles PROVE Len(Filter(l.members, In(r))) <= Role[r].seats
    <3> DEFINE f == Filter(s.members, In(r))
    <3>1. Filter(l.members, In(r)) = Filter(s.members, A \cap In(r))
      BY <1>1, <2>1, FilterTwice
    <3>2. Filter(f, A) = Filter(s.members, In(r) \cap A)
      BY <1>1, FilterTwice
    <3>3. A \cap In(r) = In(r) \cap A
      OBVIOUS
    <3>4. f \in Seq(Persons) /\ Len(f) \in Nat /\ Len(f) <= Role[r].seats /\ Role[r].seats \in Nat
      BY <1>1, <1>2, <1>3
    <3> HIDE DEF f
    <3>5. Len(Filter(f, A)) <= Len(f) /\ Filter(f, A) \in Seq(Persons)
      BY <3>4, FilterKeeps
    <3>6. Len(Filter(f, A)) \in Nat
      BY <3>5
    <3> QED
      <4> DEFINE g == Filter(f, A)
      <4>1. Filter(l.members, In(r)) = g
        BY <3>1, <3>2, <3>3
      <4>2. Len(g) <= Len(f) /\ Len(g) \in Nat
        BY <3>5, <3>6
      <4> HIDE DEF g
      <4>3. Len(g) <= Role[r].seats
        BY <3>4, <4>2
      <4> QED
        BY <4>1, <4>3
  <2> QED
    BY <2>1, <2>2 DEF SeatsKept, l
<1> QED
  BY <1>4, <1>5

\* What the members have stays true of a draft of a template with roles only,
\* whatever is done with the session (client/lib/session.ts:36-89).
LEMMA KeptInv ==
  /\ RolesOnly /\ Init => Kept(session)
  /\ IInv /\ Kept(session) /\ [Next]_vars => Kept(session)'
<1>1. ASSUME RolesOnly, Init PROVE Kept(session)
  <2>1. PICK template \in Templates : session = create_session(template, Start)
    BY <1>1 DEF Init
  <2>2. /\ session.members = <<>> /\ session.roles = template.roles
        /\ session.proposal.paths = <<>> /\ session.proposal.payments = <<>>
    BY <1>1, <2>1, CreateMakes DEF RolesOnly, TermFields
  <2>3. ToSet(<<>>) = {} /\ Len(<<>>) = 0 /\ <<>> \in Seq(Path) /\ <<>> \in Seq(Payment)
    BY DEF ToSet
  <2>4. \A r : Filter(<<>>, In(r)) = <<>>
    BY FilterNone
  <2>5. \A r \in session.roles : Role[r].seats \in Nat
    BY <2>2, RoleAssumption, TemplateAssumption
  <2>6. SeatsKept(session)
    BY <2>2, <2>3, <2>4, <2>5 DEF SeatsKept
  <2> QED
    BY <2>2, <2>3, <2>6 DEF Kept, PathsKept, PaymentsKept
<1>2. ASSUME IInv, Kept(session), [Next]_vars PROVE Kept(session)'
  <2>1. /\ IsSession(session) /\ Seated(session)
        /\ PathsKept(session) /\ PaymentsKept(session) /\ SeatsKept(session)
    BY <1>2 DEF IInv, Kept
  <2>2. CASE UNCHANGED vars \/ Tick \/ Publish
    <3>1. session' = session
      BY <2>2 DEF vars, Tick, Publish
    <3> QED
      BY <1>2, <3>1
  <2>3. ASSUME NEW pub, Leave(pub) PROVE Kept(session)'
    <3>1. session' = leave_session(pub, session)
      BY <2>3 DEF Leave
    <3>2. Kept(leave_session(pub, session))
      BY <2>1, LeaveKeepsPaths, LeaveKeepsPayments, SeatsAreKept DEF Kept
    <3> QED
      BY <3>1, <3>2
  <2>4. ASSUME NEW pub, NEW pid, Join(pub, pid) PROVE Kept(session)'
    <3>1. /\ session' = join_session(pub, pid, session) /\ <<pub, pid>> \in Seekers
          /\ ~has_membership(pub, session) /\ has_open_roles(pid, session)
      BY <2>4 DEF Join
    <3>2. Kept(join_session(pub, pid, session))
      BY <2>1, <3>1, JoinKeepsPaths, JoinKeepsPayments, SeatsAreKept DEF Kept
    <3> QED
      BY <3>1, <3>2
  <2>5. ASSUME NEW pub, Endorse(pub) PROVE Kept(session)'
    <3>1. session' = endorse_session(session, pub)
      BY <2>5 DEF Endorse
    <3> DEFINE e == endorse_session(session, pub)
    <3>2. e.members = session.members /\ e.roles = session.roles
          /\ e.proposal = session.proposal
      BY <2>1, SigsMade
    <3> HIDE DEF e
    <3> QED
      BY <2>1, <3>1, <3>2 DEF Kept, PathsKept, PaymentsKept, SeatsKept, e
  <2>6. CASE Reset
    <3>1. session' = reset_session(session)
      BY <2>6 DEF Reset
    <3> DEFINE r == reset_session(session)
    <3>2. r.members = session.members /\ r.roles = session.roles
          /\ r.proposal = session.proposal
      BY <2>1, SigsMade
    <3> HIDE DEF r
    <3> QED
      BY <2>1, <3>1, <3>2 DEF Kept, PathsKept, PaymentsKept, SeatsKept, r
  <2> QED
    BY <1>2, <2>2, <2>3, <2>4, <2>5, <2>6 DEF Next
<1> QED
  BY <1>1, <1>2

-----------------------------------------------------------------------------
(* Programs.                                                                *)

\* No role asks for the same program twice.
ProgramsDiffer == \A r \in RoleIds : IsInjective(Role[r].programs)

\* The terms of a program, and an entry that has them for the members it names.
IsTerms(t) ==
  t = [method |-> t.method, actions |-> t.actions, paths |-> t.paths, param |-> t.param]
IsEntry(e) ==
  /\ e = [method |-> e.method, actions |-> e.actions, paths |-> e.paths, param |-> e.param,
          pubs |-> e.pubs]
  /\ e.pubs \in Seq(Members) /\ e.pubs # <<>> /\ IsInjective(e.pubs)
Entries(programs) == IsList(programs) /\ \A e \in ToSet(programs) : IsEntry(e)

\* The terms of the programs in which a member is named.
Has(programs, pub) == {Terms(e) : e \in {x \in ToSet(programs) : pub \in ToSet(x.pubs)}}

\* The programs that the role of a member asks for.
Due(pub, members) ==
  UNION {ToSet(Role[m.pid].programs) : m \in {x \in ToSet(members) : x.pub = pub}}

ProgramsKept(s) ==
  /\ Entries(s.proposal.programs)
  /\ \A pub \in Members : Has(s.proposal.programs, pub) = Due(pub, s.members)

\* The terms of an entry are its fields without the members, whoever is added to
\* it or taken out (enrollment.ts:97-127).
LEMMA TermsOf ==
  /\ \A e : IsEntry(e) => /\ Terms(e) = [method |-> e.method, actions |-> e.actions,
                                         paths |-> e.paths, param |-> e.param]
                          /\ \A pubs : /\ Terms([e EXCEPT !.pubs = pubs]) = Terms(e)
                                       /\ [e EXCEPT !.pubs = pubs].pubs = pubs
                                       /\ pubs \in Seq(Members) /\ pubs # <<>> /\ IsInjective(pubs)
                                            => IsEntry([e EXCEPT !.pubs = pubs])
  /\ \A t, pub : IsTerms(t) /\ pub \in Members =>
       LET e == Spread(t, [pubs |-> <<pub>>]) IN
       IsEntry(e) /\ Terms(e) = t /\ e.pubs = <<pub>>
<1>1. ASSUME NEW e, IsEntry(e)
      PROVE  Terms(e) = [method |-> e.method, actions |-> e.actions,
                         paths |-> e.paths, param |-> e.param]
  <2>1. e = [method |-> e.method, actions |-> e.actions, paths |-> e.paths, param |-> e.param,
             pubs |-> e.pubs]
    BY <1>1 DEF IsEntry
  <2>2. DOMAIN e \ {"pubs"} = {"method", "actions", "paths", "param"}
    BY <2>1
  <2> QED
    BY <2>1, <2>2 DEF Terms
<1>2. ASSUME NEW e, IsEntry(e), NEW pubs
      PROVE  LET f == [e EXCEPT !.pubs = pubs] IN
             /\ Terms(f) = Terms(e) /\ f.pubs = pubs
             /\ pubs \in Seq(Members) /\ pubs # <<>> /\ IsInjective(pubs) => IsEntry(f)
  <2> DEFINE f == [e EXCEPT !.pubs = pubs]
  <2>1. e = [method |-> e.method, actions |-> e.actions, paths |-> e.paths, param |-> e.param,
             pubs |-> e.pubs]
    BY <1>2 DEF IsEntry
  <2>2. f = [method |-> e.method, actions |-> e.actions, paths |-> e.paths, param |-> e.param,
             pubs |-> pubs]
    BY <2>1
  <2> HIDE DEF f
  <2>3. f.pubs = pubs /\ DOMAIN f = DOMAIN e /\ \A g \in DOMAIN e \ {"pubs"} : f[g] = e[g]
    BY <2>1, <2>2
  <2>4. Terms(f) = Terms(e)
    BY <2>3 DEF Terms
  <2>5. pubs \in Seq(Members) /\ pubs # <<>> /\ IsInjective(pubs) => IsEntry(f)
    BY <2>2 DEF IsEntry
  <2> QED
    BY <2>3, <2>4, <2>5 DEF f
<1>3. ASSUME NEW t, NEW pub, IsTerms(t), pub \in Members
      PROVE  LET e == Spread(t, [pubs |-> <<pub>>]) IN
             IsEntry(e) /\ Terms(e) = t /\ e.pubs = <<pub>>
  <2> DEFINE e == Spread(t, [pubs |-> <<pub>>])
  <2>1. t = [method |-> t.method, actions |-> t.actions, paths |-> t.paths, param |-> t.param]
    BY <1>3 DEF IsTerms
  <2>2. DOMAIN t = {"method", "actions", "paths", "param"}
    BY <2>1
  <2>3. e = [method |-> t.method, actions |-> t.actions, paths |-> t.paths, param |-> t.param,
             pubs |-> <<pub>>]
    BY <2>2 DEF Spread
  <2> HIDE DEF e
  <2>4. DOMAIN e \ {"pubs"} = DOMAIN t /\ \A g \in DOMAIN t : e[g] = t[g]
    BY <2>1, <2>2, <2>3
  <2>5. Terms(e) = [g \in DOMAIN t |-> t[g]]
    BY <2>4 DEF Terms
  <2>6. Terms(e) = t
    BY <2>1, <2>5
  <2>7. <<pub>> \in Seq(Members) /\ <<pub>> # <<>> /\ IsInjective(<<pub>>)
    BY <1>3 DEF IsInjective
  <2>8. e = [method |-> e.method, actions |-> e.actions, paths |-> e.paths, param |-> e.param,
             pubs |-> e.pubs] /\ e.pubs = <<pub>>
    BY <2>3
  <2>9. IsEntry(e)
    BY <2>7, <2>8 DEF IsEntry
  <2> QED
    BY <2>6, <2>8, <2>9 DEF e
<1> QED
  BY <1>1, <1>2, <1>3

\* Places that there are have a first one, which findIndex and indexOf find
\* (lib/program.ts:68, enrollment.ts:125).
LEMMA MinIsOne ==
  ASSUME NEW S, IsFiniteSet(S), S # {}, S \subseteq Int
  PROVE  Min(S) \in S
<1> DEFINE Good == {T \in SUBSET S : T # {} => \E x \in T : \A y \in T : x <= y}
<1>1. {} \in Good
  OBVIOUS
<1>2. ASSUME NEW T \in SUBSET S, T # {}, Less(T) \in Good PROVE T \in Good
  <2>1. First(T) \in T /\ Less(T) = T \ {First(T)}
    BY <1>2 DEF First, Less
  <2>2. CASE Less(T) = {}
    <3>1. \A y \in T : y = First(T)
      BY <2>1, <2>2
    <3>2. First(T) \in Int
      BY <2>1
    <3>3. \A y \in T : First(T) <= y
      BY <3>1, <3>2
    <3> QED
      BY <2>1, <3>3
  <2>3. CASE Less(T) # {}
    <3>1. PICK x \in Less(T) : \A y \in Less(T) : x <= y
      BY <1>2, <2>3
    <3>2. x \in T /\ x \in Int /\ First(T) \in Int
      BY <2>1
    <3>3. \A y \in T : y = First(T) \/ y \in Less(T)
      BY <2>1
    <3>4. CASE x <= First(T)
      <4>1. \A y \in T : x <= y
        BY <3>1, <3>3, <3>4
      <4> QED
        BY <3>2, <4>1
    <3>5. CASE ~(x <= First(T))
      <4>1. \A y \in T : y \in Int
        OBVIOUS
      <4>2. \A y \in T : First(T) <= y
        BY <3>1, <3>2, <3>3, <3>5, <4>1
      <4> QED
        BY <2>1, <4>2
    <3> QED
      BY <3>4, <3>5
  <2> QED
    BY <2>2, <2>3
<1>3. SUBSET S \subseteq Good
  <2> HIDE DEF Good
  <2> QED
    BY <1>1, <1>2, SetsGrow
<1>4. \E x \in S : \A y \in S : x <= y
  BY <1>3
<1> QED
  BY <1>4 DEF Min

\* The entry that get_program_idx finds has the terms (lib/program.ts:63-72).
LEMMA ProgramIsFound ==
  ASSUME NEW programs, Entries(programs), NEW t, IsTerms(t)
  PROVE  LET idx == get_program_idx(programs, t) IN
         \/ idx = 0
         \/ idx \in 1..Len(programs) /\ Terms(programs[idx]) = t
<1> DEFINE I == {i \in 1..Len(programs) :
                   <<programs[i].method, programs[i].actions, programs[i].paths, programs[i].param>>
                     = <<t.method, t.actions, t.paths, t.param>>}
           idx == get_program_idx(programs, t)
<1>1. idx = IF I # {} THEN Min(I) ELSE 0
  BY DEF get_program_idx, SelectInSeq
<1>2. Len(programs) \in Nat /\ DOMAIN programs = 1..Len(programs)
  BY DEF Entries, IsList
<1>3. IsFiniteSet(I) /\ I \subseteq Int
  <2> DEFINE D == 1..Len(programs)
  <2>1. IsFiniteSet(D) /\ D \subseteq Int
    BY <1>2, FS_Interval
  <2>2. I \in SUBSET D
    OBVIOUS
  <2> HIDE DEF I, D
  <2>3. IsFiniteSet(I)
    BY <2>1, <2>2, FS_Subset
  <2> QED
    BY <2>1, <2>2, <2>3
<1>4. ASSUME NEW i \in I PROVE i \in 1..Len(programs) /\ Terms(programs[i]) = t
  <2>1. IsEntry(programs[i])
    BY <1>2 DEF Entries, ToSet
  <2>2. Terms(programs[i]) = [method |-> programs[i].method, actions |-> programs[i].actions,
                              paths |-> programs[i].paths, param |-> programs[i].param]
    BY <2>1, TermsOf
  <2>3. /\ programs[i].method = t.method /\ programs[i].actions = t.actions
        /\ programs[i].paths = t.paths /\ programs[i].param = t.param
    OBVIOUS
  <2> QED
    BY <2>2, <2>3 DEF IsTerms
<1> HIDE DEF I, idx
<1>5. I # {} => Min(I) \in I
  BY <1>3, MinIsOne
<1> QED
  BY <1>1, <1>4, <1>5 DEF idx

\* A member who was not in the program of these terms is, and it changes for
\* nobody else (enrollment.ts:97-106).
LEMMA OneIsAdded ==
  ASSUME NEW programs, Entries(programs), NEW t, IsTerms(t), NEW pub \in Members,
         t \notin Has(programs, pub)
  PROVE  LET r == add_program(programs, t, pub) IN
         /\ Entries(r)
         /\ \A q \in Members :
              Has(r, q) = IF q = pub THEN Has(programs, pub) \cup {t} ELSE Has(programs, q)
<1> DEFINE r == add_program(programs, t, pub)
           idx == get_program_idx(programs, t)
           new == Spread(t, [pubs |-> <<pub>>])
<1>1. IsList(programs) /\ \A e \in ToSet(programs) : IsEntry(e)
  BY DEF Entries
<1>2. Len(programs) \in Nat /\ DOMAIN programs = 1..Len(programs)
  BY DEF Entries, IsList
<1>3. CASE idx = 0
  <2>1. r = Append(programs, new)
    BY <1>3 DEF add_program
  <2>2. IsEntry(new) /\ Terms(new) = t /\ new.pubs = <<pub>>
    BY TermsOf
  <2> HIDE DEF r, new
  <2>3. IsList(r) /\ ToSet(r) = ToSet(programs) \cup {new}
    BY <1>1, <2>1, ListsAppended
  <2>4. Entries(r)
    BY <1>1, <2>2, <2>3 DEF Entries
  <2>5. ToSet(new.pubs) = {pub}
    BY <2>2 DEF ToSet
  <2>6. ASSUME NEW q \in Members
        PROVE  Has(r, q) = IF q = pub THEN Has(programs, pub) \cup {t} ELSE Has(programs, q)
    <3>1. Has(r, q) = Has(programs, q) \cup {Terms(e) : e \in {x \in {new} : q \in ToSet(x.pubs)}}
      BY <2>3 DEF Has
    <3> QED
      BY <2>2, <2>5, <3>1
  <2> QED
    BY <2>4, <2>6 DEF r
<1>4. CASE idx # 0
  <2>1. idx \in 1..Len(programs) /\ Terms(programs[idx]) = t
    BY <1>4, ProgramIsFound
  <2> DEFINE old == programs[idx]
             pubs == Append(old.pubs, pub)
             e == [old EXCEPT !.pubs = pubs]
  <2>2. r = [programs EXCEPT ![idx] = e]
    BY <1>4 DEF add_program
  <2>3. IsEntry(old) /\ old \in ToSet(programs)
    BY <1>1, <1>2, <2>1 DEF ToSet
  <2>4. Terms(old) = t
    BY <2>1
  <2> HIDE DEF old, idx
  <2>5. pub \notin ToSet(old.pubs)
    BY <2>3, <2>4 DEF Has
  <2>6. old.pubs \in Seq(Members) /\ old.pubs # <<>> /\ IsInjective(old.pubs)
    BY <2>3 DEF IsEntry
  <2>7. /\ pubs \in Seq(Members) /\ pubs # <<>> /\ IsInjective(pubs)
        /\ ToSet(pubs) = ToSet(old.pubs) \cup {pub}
    <3> DEFINE o == old.pubs
               n == Len(o)
    <3>1. o \in Seq(Members) /\ IsInjective(o) /\ pub \notin ToSet(o)
      BY <2>5, <2>6
    <3> HIDE DEF o
    <3>2. /\ Append(o, pub) \in Seq(Members) /\ DOMAIN Append(o, pub) = 1..(n + 1) /\ n \in Nat
          /\ \A i \in 1..n : Append(o, pub)[i] = o[i]
          /\ Append(o, pub)[n + 1] = pub /\ DOMAIN o = 1..n
      BY <3>1
    <3>3. \A i \in 1..n : o[i] # pub
      BY <3>1, <3>2 DEF ToSet
    <3>4. IsInjective(Append(o, pub))
      <4> DEFINE a == Append(o, pub)
      <4>1. DOMAIN a = 1..(n + 1) /\ (\A i \in 1..n : a[i] = o[i]) /\ a[n + 1] = pub
        BY <3>2
      <4> HIDE DEF a
      <4>2. ASSUME NEW i \in DOMAIN a, NEW k \in DOMAIN a, a[i] = a[k] PROVE i = k
        <5>1. i \in 1..n \/ i = n + 1
          BY <3>2, <4>1
        <5>2. k \in 1..n \/ k = n + 1
          BY <3>2, <4>1
        <5>3. CASE i \in 1..n /\ k \in 1..n
          <6>1. o[i] = o[k]
            BY <4>1, <4>2, <5>3
          <6> QED
            BY <3>1, <3>2, <5>3, <6>1 DEF IsInjective
        <5> QED
          BY <3>3, <4>1, <4>2, <5>1, <5>2, <5>3
      <4> QED
        BY <4>2 DEF IsInjective, a
    <3>5. ToSet(Append(o, pub)) = ToSet(o) \cup {pub}
      BY <3>1, Elements
    <3>6. Append(o, pub) # <<>>
      BY <3>1
    <3> QED
      BY <3>2, <3>4, <3>5, <3>6 DEF o
  <2> HIDE DEF pubs
  <2>8. IsEntry(e) /\ Terms(e) = t /\ e.pubs = pubs
    BY <2>3, <2>4, <2>7, TermsOf
  <2> HIDE DEF e, r
  <2>9. /\ DOMAIN r = 1..Len(programs) /\ r[idx] = e
        /\ \A i \in 1..Len(programs) : i # idx => r[i] = programs[i]
    BY <1>2, <2>1, <2>2
  <2>10. IsList(r)
    <3> DEFINE S == ToSet(programs) \cup {e}
    <3>1. programs \in Seq(ToSet(programs))
      BY <1>1 DEF IsList
    <3>2. programs \in Seq(S) /\ e \in S
      BY <3>1
    <3> HIDE DEF S
    <3>3. r \in Seq(S)
      BY <2>1, <2>2, <3>2
    <3> QED
      BY <3>3, Lists
  <2>11. \A x \in ToSet(r) : x = e \/ x \in ToSet(programs)
    BY <1>2, <2>9 DEF ToSet
  <2>12. Entries(r)
    BY <1>1, <2>8, <2>10, <2>11 DEF Entries
  <2>13. e \in ToSet(r) /\ \A x \in ToSet(programs) : x = old \/ x \in ToSet(r)
    <3>1. old = programs[idx]
      BY DEF old
    <3> QED
      BY <1>2, <2>1, <2>9, <3>1 DEF ToSet
  <2>14. ASSUME NEW q \in Members
         PROVE  Has(r, q) = IF q = pub THEN Has(programs, pub) \cup {t} ELSE Has(programs, q)
    <3>1. ASSUME NEW x \in ToSet(r), q \in ToSet(x.pubs)
          PROVE  Terms(x) \in IF q = pub THEN Has(programs, pub) \cup {t} ELSE Has(programs, q)
      <4>1. CASE x = e /\ q = pub
        BY <2>8, <4>1
      <4>2. CASE x = e /\ q # pub
        <5>1. q \in ToSet(old.pubs)
          BY <2>7, <2>8, <3>1, <4>2
        <5> QED
          BY <2>3, <2>4, <2>8, <4>2, <5>1 DEF Has
      <4>3. CASE x \in ToSet(programs)
        BY <3>1, <4>3 DEF Has
      <4> QED
        BY <2>11, <4>1, <4>2, <4>3
    <3>2. ASSUME NEW x \in ToSet(programs), q \in ToSet(x.pubs) PROVE Terms(x) \in Has(r, q)
      <4>1. CASE x = old
        <5>1. q \in ToSet(e.pubs)
          BY <2>7, <2>8, <3>2, <4>1
        <5> QED
          BY <2>4, <2>8, <2>13, <4>1, <5>1 DEF Has
      <4>2. CASE x # old
        BY <2>13, <3>2, <4>2 DEF Has
      <4> QED
        BY <4>1, <4>2
    <3>3. q = pub => t \in Has(r, q)
      BY <2>7, <2>8, <2>13 DEF Has
    <3>4. \A y \in Has(r, q) : y \in IF q = pub THEN Has(programs, pub) \cup {t} ELSE Has(programs, q)
      BY <3>1 DEF Has
    <3>5. \A y \in Has(programs, q) : y \in Has(r, q)
      BY <3>2 DEF Has
    <3> QED
      BY <3>3, <3>4, <3>5
  <2> QED
    BY <2>12, <2>14 DEF r
<1> QED
  BY <1>3, <1>4

\* What there is after each program of a role was added to the programs.
Adds(f, programs, policy, pub) ==
  /\ f[0] = programs
  /\ \A n \in 1..Len(policy.programs) : f[n] = add_program(f[n - 1], policy.programs[n], pub)
  /\ add_programs(programs, policy, pub) = f[Len(policy.programs)]

\* The programs of a role are added one after the other (enrollment.ts:97-106).
LEMMA AddSteps ==
  ASSUME NEW programs, NEW policy, Len(policy.programs) \in Nat, NEW pub
  PROVE  \E f : Adds(f, programs, policy, pub)
<1> DEFINE N == Len(policy.programs)
           Turn(r, n) == add_program(r, policy.programs[n], pub)
           IsAdded(f, m) == f = [n \in 0..m |-> IF n = 0 THEN programs ELSE Turn(f[n - 1], n)]
           added == CHOOSE f : IsAdded(f, N)
           Good == {n \in Nat : \E f : IsAdded(f, n)}
<1>1. add_programs(programs, policy, pub) = added[N]
  BY DEF add_programs
<1> HIDE DEF Turn
<1>2. 0 \in Good
  <2>1. IsAdded([n \in 0..0 |-> programs], 0)
    OBVIOUS
  <2> QED
    BY <2>1
<1>3. ASSUME NEW n \in Nat, n \in Good PROVE n + 1 \in Good
  <2>1. PICK f : IsAdded(f, n)
    BY <1>3
  <2> DEFINE g == [k \in 0..(n + 1) |-> IF k = n + 1 THEN Turn(f[n], k) ELSE f[k]]
  <2>2. \A k \in 0..(n + 1) : g[k] = IF k = 0 THEN programs ELSE Turn(g[k - 1], k)
    BY <2>1
  <2>3. g = [k \in 0..(n + 1) |-> g[k]]
    OBVIOUS
  <2> HIDE DEF g
  <2>4. IsAdded(g, n + 1)
    BY <2>2, <2>3
  <2> QED
    BY <2>4
<1>4. Nat \subseteq Good
  <2> HIDE DEF Good
  <2> QED
    BY <1>2, <1>3, NatGrow
<1>5. IsAdded(added, N)
  <2>1. N \in Nat
    OBVIOUS
  <2>2. \E f : IsAdded(f, N)
    BY <1>4, <2>1
  <2> HIDE DEF IsAdded
  <2> QED
    BY <2>2
<1>6. N \in Nat
  OBVIOUS
<1> HIDE DEF added, N
<1>7. added[0] = programs /\ \A n \in 1..N : added[n] = Turn(added[n - 1], n)
  BY <1>5, <1>6
<1> QED
  BY <1>1, <1>7 DEF Turn, N, Adds

\* Who had no program has those of the role, and nobody else others than before
\* (enrollment.ts:97-106).
LEMMA ProgramsAdded ==
  ASSUME ProgramsDiffer, NEW programs, Entries(programs), NEW pid \in RoleIds,
         NEW pub \in Members, Has(programs, pub) = {}
  PROVE  LET r == add_programs(programs, Role[pid], pub) IN
         /\ Entries(r)
         /\ \A q \in Members :
              Has(r, q) = IF q = pub THEN ToSet(Role[pid].programs) ELSE Has(programs, q)
<1> DEFINE T == Role[pid].programs
           N == Len(T)
           r == add_programs(programs, Role[pid], pub)
<1>1. N \in Nat /\ DOMAIN T = 1..N /\ \A i \in 1..N : T[i] \in ToSet(T)
  <2> DEFINE S == ToSet(T)
  <2>1. T \in Seq(S)
    BY RoleAssumption
  <2> HIDE DEF S, T
  <2>2. N \in Nat /\ DOMAIN T = 1..N /\ \A i \in 1..N : T[i] \in S
    BY <2>1
  <2> QED
    BY <2>2 DEF S
<1>2. /\ \A i \in 1..N : IsTerms(T[i])
      /\ \A i, k \in 1..N : T[i] = T[k] => i = k
  <2>1. \A t \in ToSet(T) : IsTerms(t)
    BY RoleAssumption DEF IsTerms
  <2>2. IsInjective(T)
    BY DEF ProgramsDiffer
  <2> HIDE DEF T
  <2> QED
    BY <1>1, <2>1, <2>2 DEF IsInjective
<1>3. PICK f : /\ f[0] = programs
               /\ \A n \in 1..N : f[n] = add_program(f[n - 1], T[n], pub)
               /\ r = f[N]
  <2> DEFINE policy == Role[pid]
  <2>1. Len(policy.programs) \in Nat
    BY <1>1
  <2> HIDE DEF policy
  <2>2. \E f : Adds(f, programs, policy, pub)
    BY <2>1, AddSteps
  <2> QED
    BY <2>2 DEF policy, Adds
<1> DEFINE Upto(n) == {T[i] : i \in 1..n}
           Good == {n \in Nat : n <= N =>
                      /\ Entries(f[n])
                      /\ \A q \in Members :
                           Has(f[n], q) = IF q = pub THEN Upto(n) ELSE Has(programs, q)}
<1> HIDE DEF r, N
<1>a. Upto(0) = {} /\ (\A n \in Nat : Upto(n + 1) = Upto(n) \cup {T[n + 1]}) /\ Upto(N) = ToSet(T)
  <2> HIDE DEF T
  <2>1. Upto(0) = {}
    OBVIOUS
  <2>2. ASSUME NEW n \in Nat PROVE Upto(n + 1) = Upto(n) \cup {T[n + 1]}
    <3>1. 1..(n + 1) = 1..n \cup {n + 1}
      OBVIOUS
    <3> QED
      BY <3>1
  <2>3. Upto(N) = ToSet(T)
    BY <1>1 DEF ToSet
  <2> QED
    BY <2>1, <2>2, <2>3
<1>b. ASSUME NEW n \in Nat, n + 1 <= N PROVE T[n + 1] \notin Upto(n)
  <2>1. \A i \in 1..n : i \in 1..N /\ i # n + 1
    BY <1>1, <1>b
  <2>2. n + 1 \in 1..N
    BY <1>1, <1>b
  <2> HIDE DEF T
  <2> QED
    BY <1>2, <2>1, <2>2
<1> HIDE DEF T, Upto
<1>4. 0 \in Good
  BY <1>3, <1>a
<1>5. ASSUME NEW n \in Nat, n \in Good, n + 1 <= N
      PROVE  /\ Entries(f[n + 1])
             /\ \A q \in Members :
                  Has(f[n + 1], q) = IF q = pub THEN Upto(n + 1) ELSE Has(programs, q)
  <2> DEFINE g == f[n]
             t == T[n + 1]
  <2>1. n <= N /\ n + 1 \in 1..N /\ (n + 1) - 1 = n
    BY <1>1, <1>5
  <2>2. /\ Entries(g)
        /\ \A q \in Members : Has(g, q) = IF q = pub THEN Upto(n) ELSE Has(programs, q)
    BY <1>5, <2>1
  <2>3. f[n + 1] = add_program(g, t, pub)
    BY <1>3, <2>1
  <2>4. IsTerms(t) /\ t \notin Upto(n) /\ Upto(n + 1) = Upto(n) \cup {t}
    BY <1>2, <1>5, <1>a, <1>b, <2>1
  <2> HIDE DEF g, t
  <2>5. t \notin Has(g, pub)
    BY <2>2, <2>4
  <2> DEFINE h == add_program(g, t, pub)
  <2>6. /\ Entries(h)
        /\ \A q \in Members :
             Has(h, q) = IF q = pub THEN Has(g, pub) \cup {t} ELSE Has(g, q)
    BY <2>2, <2>4, <2>5, OneIsAdded
  <2> HIDE DEF h
  <2>7. f[n + 1] = h
    BY <2>3 DEF h
  <2> QED
    BY <2>2, <2>4, <2>6, <2>7
<1>6. Nat \subseteq Good
  <2>1. ASSUME NEW n \in Nat, n \in Good PROVE n + 1 \in Good
    BY <1>5, <2>1
  <2> HIDE DEF Good
  <2> QED
    BY <1>4, <2>1, NatGrow
<1>7. /\ Entries(f[N])
      /\ \A q \in Members : Has(f[N], q) = IF q = pub THEN Upto(N) ELSE Has(programs, q)
  <2>1. N \in Nat /\ N <= N
    BY <1>1
  <2> QED
    BY <1>6, <2>1
<1> QED
  BY <1>3, <1>7, <1>a DEF r, T

\* A member who is in a list once is taken out of it (enrollment.ts:124-128).
LEMMA OneIsRemoved ==
  ASSUME NEW S, NEW s \in Seq(S), IsInjective(s), NEW x
  PROVE  LET r == RemoveFirst(s, x) IN
         /\ r \in Seq(S) /\ IsInjective(r) /\ ToSet(r) = ToSet(s) \ {x}
         /\ s # <<>> /\ s # <<x>> => r # <<>>
<1> DEFINE n == Len(s)
           I == {i \in 1..n : s[i] = x}
           k == SelectInSeq(s, LAMBDA v : v = x)
           r == RemoveFirst(s, x)
<1>1. n \in Nat /\ DOMAIN s = 1..n /\ \A i \in 1..n : s[i] \in S
  OBVIOUS
<1>2. k = IF I # {} THEN Min(I) ELSE 0
  BY DEF SelectInSeq
<1>3. r = IF I # {} THEN RemoveAt(s, k) ELSE s
  BY DEF RemoveFirst
<1>4. \A a, b \in 1..n : s[a] = s[b] => a = b
  BY <1>1 DEF IsInjective
<1> HIDE DEF r, k
<1>5. CASE I = {}
  <2>1. r = s /\ x \notin ToSet(s)
    BY <1>1, <1>3, <1>5 DEF ToSet
  <2> QED
    BY <2>1 DEF r
<1>6. CASE I # {}
  <2>1. k \in 1..n /\ s[k] = x
    <3> DEFINE D == 1..n
    <3>1. IsFiniteSet(D) /\ D \subseteq Int
      BY <1>1, FS_Interval
    <3>2. I \in SUBSET D
      OBVIOUS
    <3>3. IsFiniteSet(I) /\ I \subseteq Int
      <4> HIDE DEF D, I
      <4> QED
        BY <3>1, <3>2, FS_Subset
    <3>4. Min(I) \in I
      <4> HIDE DEF I
      <4> QED
        BY <1>6, <3>3, MinIsOne
    <3> QED
      BY <1>2, <1>6, <3>4
  <2>2. r = SubSeq(s, 1, k - 1) \o SubSeq(s, k + 1, n)
    BY <1>3, <1>6 DEF RemoveAt
  <2> DEFINE a == SubSeq(s, 1, k - 1)
             b == SubSeq(s, k + 1, n)
  <2>3. a \in Seq(S) /\ Len(a) = k - 1 /\ \A i \in 1..(k - 1) : a[i] = s[i]
    BY <1>1, <2>1
  <2>0. k \in Int /\ k + 1 \in Int /\ 1 <= k + 1 /\ k <= n
    BY <1>1, <2>1
  <2>4. b \in Seq(S) /\ Len(b) = n - k /\ \A i \in 1..(n - k) : b[i] = s[i + k]
    <3>1. b \in Seq(S)
      BY <1>1, <2>0
    <3>2. Len(b) = n - k
      <4>1. Len(b) = IF k + 1 <= n THEN n - (k + 1) + 1 ELSE 0
        BY <1>1, <2>0
      <4>2. n \in Int /\ k \in Int /\ k <= n
        BY <1>1, <2>0
      <4> HIDE DEF n, b
      <4>3. CASE k + 1 <= n
        BY <4>1, <4>2, <4>3
      <4>4. CASE ~(k + 1 <= n)
        <5>1. k = n
          BY <4>2, <4>4
        <5> QED
          BY <4>1, <4>2, <4>4, <5>1
      <4> QED
        BY <4>3, <4>4
    <3>3. ASSUME NEW i \in 1..(n - k) PROVE b[i] = s[i + k]
      <4>1. b[i] = s[(k + 1) + i - 1]
        BY <1>1, <2>0
      <4>2. (k + 1) + i - 1 = i + k
        BY <2>0
      <4> QED
        BY <4>1, <4>2
    <3> HIDE DEF b
    <3> QED
      BY <3>1, <3>2, <3>3
  <2> HIDE DEF a, b
  <2>5. /\ r \in Seq(S) /\ Len(r) = n - 1
        /\ \A i \in 1..(n - 1) : r[i] = IF i < k THEN s[i] ELSE s[i + 1]
    <3>0. r = a \o b
      BY <2>2 DEF a, b
    <3>1. k \in Int /\ 1 <= k /\ k <= n
      BY <1>1, <2>1
    <3>2. r \in Seq(S) /\ Len(r) = n - 1
      <4>1. a \in Seq(S) /\ b \in Seq(S)
        BY <2>3, <2>4
      <4>2. a \o b \in Seq(S) /\ Len(a \o b) = Len(a) + Len(b)
        BY <4>1
      <4> QED
        BY <1>1, <2>3, <2>4, <3>0, <3>1, <4>2
    <3>3. ASSUME NEW i \in 1..(n - 1) PROVE r[i] = IF i < k THEN s[i] ELSE s[i + 1]
      <4>1. CASE i < k
        <5>1. r[i] = a[i]
          BY <1>1, <2>3, <2>4, <3>0, <3>1, <4>1
        <5> QED
          BY <2>3, <3>1, <4>1, <5>1
      <4>2. CASE ~(i < k)
        <5>1. i - (k - 1) \in 1..(n - k) /\ (i - (k - 1)) + k = i + 1
          BY <1>1, <3>1, <4>2
        <5>2. r[i] = b[i - (k - 1)]
          BY <1>1, <2>3, <2>4, <3>0, <3>1, <4>2
        <5> QED
          BY <2>4, <4>2, <5>1, <5>2
      <4> QED
        BY <4>1, <4>2
    <3> QED
      BY <3>2, <3>3
  <2>6. DOMAIN r = 1..(n - 1)
    BY <2>5
  <2>7. k \in Int /\ 1 <= k /\ k <= n
    BY <1>1, <2>1
  <2>8. IsInjective(r)
    <3>1. ASSUME NEW i \in 1..(n - 1), NEW j \in 1..(n - 1), r[i] = r[j] PROVE i = j
      <4>1. i \in 1..n /\ i + 1 \in 1..n /\ j \in 1..n /\ j + 1 \in 1..n
        BY <1>1
      <4>2. CASE i < k /\ j < k
        BY <1>4, <2>5, <3>1, <4>1, <4>2
      <4>3. CASE i < k /\ ~(j < k)
        <5>1. i = j + 1
          BY <1>4, <2>5, <3>1, <4>1, <4>3
        <5> QED
          BY <2>7, <4>3, <5>1
      <4>4. CASE ~(i < k) /\ j < k
        <5>1. i + 1 = j
          BY <1>4, <2>5, <3>1, <4>1, <4>4
        <5> QED
          BY <2>7, <4>4, <5>1
      <4>5. CASE ~(i < k) /\ ~(j < k)
        <5>1. i + 1 = j + 1
          BY <1>4, <2>5, <3>1, <4>1, <4>5
        <5> QED
          BY <5>1
      <4> QED
        BY <4>2, <4>3, <4>4, <4>5
    <3> QED
      BY <2>6, <3>1 DEF IsInjective
  <2>9. ToSet(r) = ToSet(s) \ {x}
    <3>1. ASSUME NEW i \in 1..(n - 1) PROVE r[i] \in ToSet(s) /\ r[i] # x
      <4>1. i \in 1..n /\ i + 1 \in 1..n
        BY <1>1
      <4>2. CASE i < k
        <5>1. r[i] = s[i] /\ i # k
          BY <2>5, <2>7, <4>2
        <5> QED
          BY <1>1, <1>4, <2>1, <4>1, <5>1 DEF ToSet
      <4>3. CASE ~(i < k)
        <5>1. r[i] = s[i + 1] /\ i + 1 # k
          BY <2>5, <2>7, <4>3
        <5> QED
          BY <1>1, <1>4, <2>1, <4>1, <5>1 DEF ToSet
      <4> QED
        BY <4>2, <4>3
    <3>2. ASSUME NEW i \in 1..n, i # k PROVE s[i] \in ToSet(r)
      <4>1. CASE i < k
        <5>1. i \in 1..(n - 1) /\ r[i] = s[i]
          BY <1>1, <2>5, <2>7, <4>1
        <5> QED
          BY <2>6, <5>1 DEF ToSet
      <4>2. CASE ~(i < k)
        <5>1. i - 1 \in 1..(n - 1) /\ ~(i - 1 < k) /\ (i - 1) + 1 = i
          BY <1>1, <2>7, <3>2, <4>2
        <5>2. r[i - 1] = s[i]
          BY <2>5, <5>1
        <5> QED
          BY <2>6, <5>1, <5>2 DEF ToSet
      <4> QED
        BY <4>1, <4>2
    <3>3. ToSet(r) \subseteq ToSet(s) \ {x}
      BY <2>6, <3>1 DEF ToSet
    <3>4. \A y \in ToSet(s) \ {x} : \E i \in 1..n : y = s[i] /\ i # k
      BY <1>1, <2>1 DEF ToSet
    <3> QED
      BY <3>2, <3>3, <3>4
  <2>10. s # <<x>> => r # <<>>
    <3>1. SUFFICES ASSUME r = <<>> PROVE s = <<x>>
      OBVIOUS
    <3>0. Len(r) = 0 /\ Len(r) = n - 1
      BY <2>5, <3>1
    <3>2. n = 1
      <4> HIDE DEF n
      <4>1. n \in Nat /\ 0 = n - 1
        BY <1>1, <3>0
      <4> QED
        BY <4>1
    <3>3. k = 1
      BY <2>7, <3>2
    <3> QED
      BY <1>1, <2>1, <3>2, <3>3
  <2> QED
    BY <2>5, <2>8, <2>9, <2>10 DEF r
<1> QED
  BY <1>5, <1>6

\* A member is taken out of all programs, and one that was the member's alone
\* goes (enrollment.ts:124-130).
LEMMA ProgramsRemoved ==
  ASSUME NEW programs, Entries(programs), NEW pub
  PROVE  LET r == RemovePub(programs, pub) IN
         /\ Entries(r)
         /\ \A q \in Members : Has(r, q) = IF q = pub THEN {} ELSE Has(programs, q)
<1> DEFINE A == {e \in ToSet(programs) : e.pubs # <<pub>>}
           others == Filter(programs, A)
           n == Len(others)
           less(e) == [e EXCEPT !.pubs = RemoveFirst(@, pub)]
           r == RemovePub(programs, pub)
<1>1. IsList(programs) /\ \A e \in ToSet(programs) : IsEntry(e)
  BY DEF Entries
<1>2. IsList(others) /\ ToSet(others) = A
  <2>1. A = ToSet(programs) \cap A
    OBVIOUS
  <2> HIDE DEF A
  <2> QED
    BY <1>1, <2>1, ListsFiltered
<1>3. r = [i \in DOMAIN others |-> less(others[i])]
  BY DEF RemovePub
<1>4. ASSUME NEW e \in A
      PROVE  IsEntry(less(e)) /\ Terms(less(e)) = Terms(e)
             /\ ToSet(less(e).pubs) = ToSet(e.pubs) \ {pub}
  <2>1. IsEntry(e) /\ e.pubs # <<pub>>
    BY <1>1
  <2>2. e.pubs \in Seq(Members) /\ e.pubs # <<>> /\ IsInjective(e.pubs)
    BY <2>1 DEF IsEntry
  <2> DEFINE o == e.pubs
             c == RemoveFirst(o, pub)
  <2>3. o \in Seq(Members) /\ o # <<>> /\ o # <<pub>> /\ IsInjective(o)
    BY <2>1, <2>2
  <2> HIDE DEF o
  <2>4. c \in Seq(Members) /\ IsInjective(c) /\ ToSet(c) = ToSet(o) \ {pub} /\ c # <<>>
    BY <2>3, OneIsRemoved
  <2>5. less(e) = [e EXCEPT !.pubs = c]
    BY DEF o
  <2> HIDE DEF c, less
  <2> QED
    BY <2>1, <2>4, <2>5, TermsOf DEF o
<1> HIDE DEF less, r, others
<1>5. DOMAIN others = 1..n /\ n \in Nat
  BY <1>2 DEF IsList
<1>6. \A i \in 1..n : others[i] \in A
  BY <1>2, <1>5 DEF ToSet
<1>7. DOMAIN r = 1..n /\ \A i \in 1..n : r[i] = less(others[i])
  BY <1>3, <1>5
<1>8. IsList(r)
  <2> DEFINE S == {r[i] : i \in 1..n}
             g == [i \in 1..n |-> r[i]]
  <2>1. \A i \in 1..n : r[i] \in S
    OBVIOUS
  <2>2. r = g
    BY <1>3, <1>5
  <2> HIDE DEF S, n
  <2>3. g \in Seq(S)
    BY <1>5, <2>1
  <2> HIDE DEF g
  <2> QED
    BY <2>2, <2>3, Lists
<1>9. ToSet(r) = {less(e) : e \in A}
  <2>1. ToSet(r) = {r[i] : i \in 1..n}
    BY <1>7 DEF ToSet
  <2>2. A = {others[i] : i \in 1..n}
    BY <1>2, <1>5 DEF ToSet
  <2> HIDE DEF A
  <2> QED
    BY <1>7, <2>1, <2>2
<1>10. Entries(r)
  <2>1. \A e \in ToSet(r) : IsEntry(e)
    BY <1>4, <1>9
  <2> QED
    BY <1>8, <2>1 DEF Entries
<1>11. ASSUME NEW q \in Members
       PROVE  Has(r, q) = IF q = pub THEN {} ELSE Has(programs, q)
  <2>1. ASSUME NEW e \in A, q \in ToSet(less(e).pubs)
        PROVE  q # pub /\ Terms(less(e)) \in Has(programs, q)
    BY <1>4, <2>1 DEF Has
  <2>2. ASSUME q # pub, NEW e \in ToSet(programs), q \in ToSet(e.pubs)
        PROVE  Terms(e) \in Has(r, q)
    <3>1. e.pubs # <<pub>>
      <4>1. ToSet(<<pub>>) = {pub}
        BY DEF ToSet
      <4> QED
        BY <2>2, <4>1
    <3>2. e \in A
      BY <3>1
    <3>3. less(e) \in ToSet(r) /\ Terms(less(e)) = Terms(e) /\ q \in ToSet(less(e).pubs)
      BY <1>4, <1>9, <2>2, <3>2
    <3> QED
      BY <3>3 DEF Has
  <2> HIDE DEF A
  <2>3. \A y \in Has(r, q) : q # pub /\ y \in Has(programs, q)
    BY <1>9, <2>1 DEF Has
  <2>4. q # pub => \A y \in Has(programs, q) : y \in Has(r, q)
    BY <2>2 DEF Has
  <2> QED
    BY <2>3, <2>4
<1> QED
  BY <1>10, <1>11 DEF r

\* Whatever is done with the session, each member is in the programs of the
\* role, and in no other (client/lib/session.ts:36-89).
LEMMA ProgramsInv ==
  ASSUME ProgramsDiffer
  PROVE  /\ RolesOnly /\ Init => ProgramsKept(session)
         /\ IInv /\ ProgramsKept(session) /\ [Next]_vars => ProgramsKept(session)'
<1>1. ASSUME RolesOnly, Init PROVE ProgramsKept(session)
  <2>1. PICK template \in Templates : session = create_session(template, Start)
    BY <1>1 DEF Init
  <2>2. session.members = <<>> /\ session.proposal.programs = <<>>
    BY <1>1, <2>1, CreateMakes DEF RolesOnly, TermFields
  <2>3. ToSet(<<>>) = {} /\ IsList(<<>>)
    BY DEF ToSet, IsList
  <2> QED
    BY <2>2, <2>3 DEF ProgramsKept, Entries, Has, Due
<1>2. ASSUME IInv, ProgramsKept(session), [Next]_vars PROVE ProgramsKept(session)'
  <2>1. /\ IsSession(session) /\ Seated(session) /\ Entries(session.proposal.programs)
        /\ \A q \in Members : Has(session.proposal.programs, q) = Due(q, session.members)
    BY <1>2 DEF IInv, ProgramsKept
  <2> DEFINE programs == session.proposal.programs
             members == session.members
  <2>2. CASE UNCHANGED vars \/ Tick \/ Publish
    <3>1. session' = session
      BY <2>2 DEF vars, Tick, Publish
    <3> QED
      BY <1>2, <3>1
  <2>3. ASSUME NEW pub \in Members, Leave(pub) PROVE ProgramsKept(session)'
    <3> DEFINE l == leave_session(pub, session)
    <3>1. session' = l
      BY <2>3 DEF Leave
    <3>2. l.proposal.programs = RemovePub(programs, pub)
      BY <2>1, LeaveMakes
    <3>3. ToSet(l.members) = {m \in ToSet(members) : m.pub # pub}
      BY <2>1, LeftMembers
    <3> HIDE DEF l, programs, members
    <3>4. /\ Entries(l.proposal.programs)
          /\ \A q \in Members :
               Has(l.proposal.programs, q) = IF q = pub THEN {} ELSE Has(programs, q)
      BY <2>1, <3>2, ProgramsRemoved DEF programs
    <3>5. \A q \in Members : Due(q, l.members) = IF q = pub THEN {} ELSE Due(q, members)
      <4> TAKE q \in Members
      <4>1. {x \in ToSet(l.members) : x.pub = q}
              = IF q = pub THEN {} ELSE {x \in ToSet(members) : x.pub = q}
        BY <3>3
      <4> QED
        BY <4>1 DEF Due
    <3> QED
      BY <2>1, <3>1, <3>4, <3>5 DEF ProgramsKept, programs, members
  <2>4. ASSUME NEW pub \in Members, NEW pid \in RoleIds, Join(pub, pid) PROVE ProgramsKept(session)'
    <3> DEFINE j == join_session(pub, pid, session)
               m == Member(pub, pid)
    <3>1. session' = j /\ ~has_membership(pub, session)
      BY <2>4 DEF Join
    <3>2. /\ j.proposal.programs = add_programs(programs, Role[pid], pub)
          /\ j.members = Append(members, m)
      BY <2>1, JoinMakes
    <3>3. members \in Seq(Persons) /\ m \in Persons /\ m.pub = pub /\ m.pid = pid
      BY <2>1 DEF Seated, Persons, Member
    <3>4. \A x \in ToSet(members) : x.pub # pub
      BY <3>1 DEF has_membership
    <3> HIDE DEF j, m, programs, members
    <3>5. ToSet(j.members) = ToSet(members) \cup {m}
      BY <3>2, <3>3, Elements
    <3>6. Due(pub, members) = {}
      BY <3>4 DEF Due
    <3>7. Entries(programs) /\ Has(programs, pub) = {}
      BY <2>1, <3>6 DEF programs, members
    <3>8. /\ Entries(j.proposal.programs)
          /\ \A q \in Members :
               Has(j.proposal.programs, q)
                 = IF q = pub THEN ToSet(Role[pid].programs) ELSE Has(programs, q)
      BY <3>2, <3>7, ProgramsAdded
    <3>9. \A q \in Members :
            Due(q, j.members) = IF q = pub THEN ToSet(Role[pid].programs) ELSE Due(q, members)
      <4> TAKE q \in Members
      <4>1. {x \in ToSet(j.members) : x.pub = q}
              = IF q = pub THEN {m} ELSE {x \in ToSet(members) : x.pub = q}
        BY <3>3, <3>4, <3>5
      <4> QED
        BY <3>3, <4>1 DEF Due
    <3> QED
      BY <2>1, <3>1, <3>8, <3>9 DEF ProgramsKept, programs, members
  <2>5. ASSUME NEW pub, Endorse(pub) PROVE ProgramsKept(session)'
    <3>1. session' = endorse_session(session, pub)
      BY <2>5 DEF Endorse
    <3> DEFINE e == endorse_session(session, pub)
    <3>2. e.members = session.members /\ e.proposal = session.proposal
      BY <2>1, SigsMade
    <3> HIDE DEF e
    <3> QED
      BY <2>1, <3>1, <3>2 DEF ProgramsKept, e
  <2>6. CASE Reset
    <3>1. session' = reset_session(session)
      BY <2>6 DEF Reset
    <3> DEFINE r == reset_session(session)
    <3>2. r.members = session.members /\ r.proposal = session.proposal
      BY <2>1, SigsMade
    <3> HIDE DEF r
    <3> QED
      BY <2>1, <3>1, <3>2 DEF ProgramsKept, r
  <2> QED
    BY <1>2, <2>2, <2>3, <2>4, <2>5, <2>6 DEF Next
<1> QED
  BY <1>1, <1>2

\* What the members have in the terms holds in every reachable state
\* (client/lib/session.ts:36-89).
LEMMA AlwaysKept ==
  ASSUME RolesOnly
  PROVE  Spec => []Kept(session)
<1>1. Init => Kept(session)
  BY KeptInv
<1>2. IInv /\ Kept(session) /\ [Next]_vars => Kept(session)'
  BY KeptInv
<1> QED
  BY <1>1, <1>2, Invariance, PTL DEF Spec

\* Whoever joined and left before, the paths, the payment and the programs of
\* the members are those of their roles, and of nobody else but for a payment
\* that does not come first (enrollment.ts:75-130).
THEOREM TermsAreTheRoles ==
  ASSUME RolesOnly, ProgramsDiffer
  PROVE  Spec => []Enrolled
<1>1. Init => ProgramsKept(session)
  BY ProgramsInv
<1>2. IInv /\ ProgramsKept(session) /\ [Next]_vars => ProgramsKept(session)'
  BY ProgramsInv
<1>3. IInv /\ Kept(session) /\ ProgramsKept(session) => Enrolled
  <2> SUFFICES ASSUME IInv, Kept(session), ProgramsKept(session) PROVE Enrolled
    OBVIOUS
  <2> DEFINE p == session.proposal
             members == session.members
  <2>1. /\ members \in Seq(Persons) /\ p.paths \in Seq(Path) /\ p.payments \in Seq(Payment)
        /\ \A e \in ToSet(p.paths) : e.addr.xpub \in Pubs(members)
        /\ \A m \in ToSet(members) : Filter(p.paths, PathsBy(m.pub)) = PathsOf(m)
        /\ \A m \in ToSet(members) : Role[m.pid].payment > 0 => PaymentOf(m) \in ToSet(p.payments)
        /\ \A e \in ToSet(p.payments) : e.addr.xpub \notin Pubs(members) => e.addr.idx > 0
    BY DEF IInv, Seated, Persons, Kept, PathsKept, PaymentsKept
  <2>2. /\ Entries(p.programs) /\ \A pub \in Members : Has(p.programs, pub) = Due(pub, members)
    BY DEF ProgramsKept
  <2>3. \A pub : RoleOf(pub) = {m.pid : m \in {x \in ToSet(members) : x.pub = pub}}
    BY DEF RoleOf
  <2> HIDE DEF p, members
  <2>4. \A pub : RoleOf(pub) = {} <=> pub \notin Pubs(members)
    BY <2>3 DEF Pubs
  <2>5. ASSUME NEW pub \in Members
        PROVE  Filter(p.paths, {e \in ToSet(p.paths) : e.addr.xpub = pub})
                 = Filter(p.paths, PathsBy(pub))
    <3> DEFINE A == {e \in ToSet(p.paths) : e.addr.xpub = pub}
               B == PathsBy(pub)
               ps == p.paths
    <3>1. \A e \in ToSet(ps) : e \in A <=> e \in B
      <4>1. ToSet(ps) \subseteq Path
        BY <2>1 DEF ToSet
      <4> QED
        BY <4>1 DEF PathsBy
    <3>2. ps \in Seq(Path)
      BY <2>1
    <3> HIDE DEF A, B, ps
    <3>3. Filter(ps, A) = Filter(ps, B)
      BY <3>1, <3>2, FilterAlike
    <3> QED
      BY <3>3 DEF A, B, ps
  <2>6. ASSUME NEW pub \in Members, RoleOf(pub) = {}
        PROVE  Filter(p.paths, PathsBy(pub)) = <<>>
    <3>1. ToSet(p.paths) \cap PathsBy(pub) = {}
      BY <2>1, <2>4, <2>6 DEF PathsBy
    <3> QED
      BY <2>1, <3>1, FilterNothing
  <2>7. ASSUME NEW pub \in Members, NEW r \in RoleOf(pub)
        PROVE  LET mine == Filter(p.paths, PathsBy(pub)) IN
               /\ [i \in DOMAIN mine |-> <<mine[i].path, mine[i].value>>]
                    = [i \in DOMAIN Role[r].paths |-> <<Role[r].paths[i].path,
                                                       Role[r].paths[i].value>>]
               /\ Role[r].payment > 0 => PaymentOf([pub |-> pub, pid |-> r]) \in ToSet(p.payments)
    <3>1. PICK m \in ToSet(members) : m.pub = pub /\ m.pid = r
      BY <2>3
    <3>2. m \in Persons
      BY <2>1, <3>1 DEF ToSet
    <3> DEFINE P == PathsOf(m)
               ps == Role[r].paths
               n == Len(ps)
    <3>3. Filter(p.paths, PathsBy(pub)) = P
      BY <2>1, <3>1
    <3>4. n \in Nat /\ DOMAIN ps = 1..n
      <4>1. r \in RoleIds
        BY <3>1, <3>2 DEF Persons
      <4>2. ps \in Seq([path : STRING, value : Int])
        BY <4>1, RoleAssumption
      <4> DEFINE S == [path : STRING, value : Int]
      <4> HIDE DEF S, ps
      <4> QED
        BY <4>2 DEF S
    <3>5. DOMAIN P = 1..n /\ \A i \in 1..n : P[i].path = ps[i].path /\ P[i].value = ps[i].value
      BY <3>1 DEF PathsOf
    <3> HIDE DEF P, ps, n
    <3>6. [i \in DOMAIN P |-> <<P[i].path, P[i].value>>]
            = [i \in DOMAIN ps |-> <<ps[i].path, ps[i].value>>]
      BY <3>4, <3>5
    <3>7. PaymentOf([pub |-> pub, pid |-> r]) = PaymentOf(m)
      BY <3>1 DEF PaymentOf
    <3> QED
      BY <2>1, <3>1, <3>3, <3>6, <3>7 DEF ps
  <2>8. ASSUME NEW pub \in Members
        PROVE  {Terms(prog) : prog \in {x \in ToSet(p.programs) : Contains(x.pubs, pub)}}
                 = UNION {ToSet(Role[r].programs) : r \in RoleOf(pub)}
    <3>1. ASSUME NEW x \in ToSet(p.programs) PROVE Contains(x.pubs, pub) <=> pub \in ToSet(x.pubs)
      <4>1. x.pubs \in Seq(Members)
        BY <2>2 DEF Entries, IsEntry
      <4>2. DOMAIN x.pubs = 1..Len(x.pubs)
        BY <4>1
      <4> QED
        BY <4>2 DEF Contains, ToSet
    <3>2. {x \in ToSet(p.programs) : Contains(x.pubs, pub)}
            = {x \in ToSet(p.programs) : pub \in ToSet(x.pubs)}
      BY <3>1
    <3>3. {Terms(prog) : prog \in {x \in ToSet(p.programs) : Contains(x.pubs, pub)}}
            = Has(p.programs, pub)
      BY <3>2 DEF Has
    <3>4. Due(pub, members) = UNION {ToSet(Role[r].programs) : r \in RoleOf(pub)}
      BY <2>3 DEF Due
    <3> QED
      BY <2>2, <3>3, <3>4
  <2>9. \A prog \in ToSet(p.programs) : prog.pubs # <<>> /\ IsInjective(prog.pubs)
    BY <2>2 DEF Entries, IsEntry
  <2>10. \A e \in ToSet(p.payments) : RoleOf(e.addr.xpub) = {} => e.addr.idx > 0
    BY <2>1, <2>4
  <2> QED
    BY <2>5, <2>6, <2>7, <2>8, <2>9, <2>10 DEF Enrolled, p
<1> QED
  BY <1>1, <1>2, <1>3, Invariance, AlwaysKept, PTL DEF Spec

-----------------------------------------------------------------------------
(* What is paid.                                                            *)

\* What the entries in A are worth, and nothing for the others.
Chosen(s, A) == [i \in DOMAIN s |-> IF s[i] \in A THEN s[i].value ELSE 0]

\* The values of the entries that are kept add up without the others
\* (proposal.ts:53-69).
LEMMA TotalChosen ==
  ASSUME NEW S, NEW s \in Seq(S), NEW A, Valued(S)
  PROVE  Total(Filter(s, A)) = SumFunctionOnSet(Chosen(s, A), 1..Len(s))
<1> DEFINE Good == {q \in Seq(S) : Total(Filter(q, A)) = SumFunctionOnSet(Chosen(q, A), 1..Len(q))}
<1>1. <<>> \in Good
  <2>1. Filter(<<>>, A) = <<>> /\ <<>> \in Seq(S) /\ 1..Len(<<>>) = {}
    BY FilterNone
  <2>2. SumFunctionOnSet(Chosen(<<>>, A), {}) = 0
    BY FS_EmptySet, SumTurn
  <2>3. SumFunctionOnSet(Chosen(<<>>, A), 1..Len(<<>>)) = 0
    BY <2>1, <2>2
  <2> QED
    BY <2>1, <2>3, TotalNone
<1>2. ASSUME NEW q \in Seq(S), NEW x \in S, q \in Good PROVE Append(q, x) \in Good
  <2> DEFINE t == Append(q, x)
             n == Len(q)
             D == 1..(n + 1)
             c == Chosen(t, A)
             f == Filter(q, A)
             v == IF x \in A THEN x.value ELSE 0
  <2>1. /\ t \in Seq(S) /\ Len(t) = n + 1 /\ n \in Nat /\ DOMAIN t = D /\ DOMAIN q = 1..n
        /\ \A i \in 1..n : t[i] = q[i] /\ q[i] \in S
        /\ t[n + 1] = x
    OBVIOUS
  <2>2. Total(f) = SumFunctionOnSet(Chosen(q, A), 1..n)
    BY <1>2
  <2>3. Filter(t, A) = IF x \in A THEN Append(f, x) ELSE f
    BY FilterMore
  <2>4. f \in Seq(S)
    BY FilterKeeps
  <2> HIDE DEF t, n, f
  <2>5. \A i \in D : c[i] = IF t[i] \in A THEN t[i].value ELSE 0
    BY <2>1 DEF Chosen
  <2>6. \A i \in 1..n : Chosen(q, A)[i] = IF q[i] \in A THEN q[i].value ELSE 0
    BY <2>1 DEF Chosen
  <2>7. \A i \in 1..n : c[i] = Chosen(q, A)[i]
    <3>1. \A i \in 1..n : i \in D
      BY <2>1
    <3> QED
      BY <2>1, <2>5, <2>6, <3>1
  <2>8. c[n + 1] = v /\ v \in Int
    <3>1. n + 1 \in D
      BY <2>1
    <3> QED
      BY <2>1, <2>5, <3>1 DEF Valued
  <2>9. \A i \in D : c[i] \in Int
    <3>1. \A i \in D : t[i] \in S
      BY <2>1
    <3> QED
      BY <2>5, <3>1 DEF Valued
  <2>10. IsFiniteSet(D) /\ IsFiniteSet(1..n) /\ n + 1 \in D /\ D \ {n + 1} = 1..n
    <3>1. IsFiniteSet(1..(n + 1)) /\ IsFiniteSet(1..n)
      <4>1. 1 \in Int /\ n \in Int /\ n + 1 \in Int
        BY <2>1
      <4> QED
        BY <4>1, FS_Interval
    <3>2. n + 1 \in D /\ D \ {n + 1} = 1..n
      BY <2>1
    <3> QED
      BY <3>1, <3>2
  <2> HIDE DEF c, D, v
  <2>11. SumFunctionOnSet(c, D) = c[n + 1] + SumFunctionOnSet(c, D \ {n + 1})
    BY <2>9, <2>10, SumPick
  <2>12. SumFunctionOnSet(c, 1..n) = SumFunctionOnSet(Chosen(q, A), 1..n)
    BY <2>7, <2>10, SumSame
  <2>13. SumFunctionOnSet(c, D) = v + Total(f)
    BY <2>2, <2>8, <2>10, <2>11, <2>12
  <2>14. Total(Append(f, x)) = Total(f) + x.value /\ Total(f) \in Int /\ x.value \in Int
    BY <2>4, TotalMore DEF Valued
  <2>15. Total(Filter(t, A)) = v + Total(f)
    <3>1. CASE x \in A
      <4>1. Total(Filter(t, A)) = Total(f) + x.value /\ v = x.value
        BY <2>3, <2>14, <3>1 DEF v
      <4> QED
        BY <2>14, <4>1
    <3>2. CASE x \notin A
      <4>1. Total(Filter(t, A)) = Total(f) /\ v = 0
        BY <2>3, <3>2 DEF v
      <4> QED
        BY <2>14, <4>1
    <3> QED
      BY <3>1, <3>2
  <2>16. Total(Filter(t, A)) = SumFunctionOnSet(c, 1..Len(t)) /\ t \in Seq(S)
    BY <2>1, <2>13, <2>15 DEF D
  <2> QED
    BY <2>16 DEF c, t
<1>3. Seq(S) \subseteq Good
  <2> HIDE DEF Good
  <2> QED
    BY <1>1, <1>2, SeqGrow
<1> QED
  BY <1>3

\* Entries of the same values in the same order add up to the same, as the
\* paths of a member and those of the role do (enrollment.ts:86-91).
LEMMA TotalAlike ==
  ASSUME NEW S, NEW s \in Seq(S), Valued(S), NEW T, NEW t \in Seq(T), Valued(T),
         NEW A, NEW B, Len(s) = Len(t),
         \A i \in 1..Len(s) : s[i].value = t[i].value /\ (s[i] \in A <=> t[i] \in B)
  PROVE  Total(Filter(s, A)) = Total(Filter(t, B))
<1> DEFINE n == Len(s)
           c == Chosen(s, A)
           d == Chosen(t, B)
<1>1. Total(Filter(s, A)) = SumFunctionOnSet(c, 1..n)
  BY TotalChosen
<1>2. Total(Filter(t, B)) = SumFunctionOnSet(d, 1..n)
  <2>1. Total(Filter(t, B)) = SumFunctionOnSet(d, 1..Len(t))
    BY TotalChosen
  <2> QED
    BY <2>1
<1>3. n \in Nat /\ DOMAIN s = 1..n /\ DOMAIN t = 1..n
  OBVIOUS
<1>4. \A i \in 1..n : c[i] = d[i]
  BY <1>3 DEF Chosen
<1>5. IsFiniteSet(1..n)
  BY <1>3, FS_Interval
<1> HIDE DEF c, d, n
<1>6. SumFunctionOnSet(c, 1..n) = SumFunctionOnSet(d, 1..n)
  BY <1>4, <1>5, SumSame
<1> QED
  BY <1>1, <1>2, <1>6

\* A sum of nothing but zeros is zero: roles without payment ask for none
\* (enrollment.ts:65-73).
LEMMA SumZero ==
  ASSUME NEW fun, NEW S, IsFiniteSet(S), \A x \in S : fun[x] = 0
  PROVE  SumFunctionOnSet(fun, S) = 0
<1> DEFINE Good == {T \in SUBSET S : SumFunctionOnSet(fun, T) = 0}
<1>1. {} \in Good
  BY FS_EmptySet, SumTurn
<1>2. ASSUME NEW T \in SUBSET S, T # {}, Less(T) \in Good PROVE T \in Good
  <2>1. IsFiniteSet(T)
    BY FS_Subset
  <2>2. SumFunctionOnSet(fun, T) = fun[First(T)] + SumFunctionOnSet(fun, Less(T))
    BY <1>2, <2>1, SumTurn
  <2>3. First(T) \in S
    BY <1>2 DEF First
  <2> QED
    BY <1>2, <2>2, <2>3
<1>3. SUBSET S \subseteq Good
  <2> HIDE DEF Good
  <2> QED
    BY <1>1, <1>2, SetsGrow
<1> QED
  BY <1>3

\* Entries add up by the one whose they are: what there is on a path is what
\* each member has there (proposal.ts:60-69).
LEMMA TotalShared ==
  ASSUME NEW S, NEW s \in Seq(S), Valued(S), NEW U, IsFiniteSet(U), NEW of,
         \A x \in S : of[x] \in U
  PROVE  Total(s) = SumFunctionOnSet([u \in U |-> Total(Filter(s, {x \in S : of[x] = u}))], U)
<1> DEFINE By(u) == {x \in S : of[x] = u}
           share(q) == [u \in U |-> Total(Filter(q, By(u)))]
           Good == {q \in Seq(S) : Total(q) = SumFunctionOnSet(share(q), U)}
<1>0. ASSUME NEW q \in Seq(S), NEW u \in U PROVE share(q)[u] = Total(Filter(q, By(u))) /\ share(q)[u] \in Int
  <2>1. Filter(q, By(u)) \in Seq(S)
    BY FilterKeeps
  <2> HIDE DEF By
  <2> QED
    BY <2>1, TotalInt
<1>1. <<>> \in Good
  <2>1. \A u \in U : share(<<>>)[u] = 0
    BY FilterNone, TotalNone
  <2>2. <<>> \in Seq(S)
    OBVIOUS
  <2> DEFINE g == share(<<>>)
  <2> HIDE DEF g
  <2>3. SumFunctionOnSet(g, U) = 0
    BY <2>1, SumZero DEF g
  <2> QED
    BY <2>2, <2>3, TotalNone DEF g
<1>2. ASSUME NEW q \in Seq(S), NEW x \in S, q \in Good PROVE Append(q, x) \in Good
  <2> DEFINE t == Append(q, x)
             w == of[x]
             f == share(q)
             g == share(t)
             Rest == U \ {w}
  <2>1. w \in U /\ t \in Seq(S) /\ x.value \in Int
    BY DEF Valued
  <2>2. \A u \in U : Filter(t, By(u)) = IF x \in By(u) THEN Append(Filter(q, By(u)), x) ELSE Filter(q, By(u))
    BY FilterMore
  <2>3. \A u \in Rest : g[u] = f[u]
    BY <2>2
  <2>4. g[w] = f[w] + x.value
    <3> DEFINE k == Filter(q, By(w))
    <3>1. k \in Seq(S) /\ x \in By(w)
      BY FilterKeeps
    <3>2. Filter(t, By(w)) = Append(k, x)
      BY <2>1, <2>2, <3>1
    <3>3. f[w] = Total(k) /\ g[w] = Total(Append(k, x))
      BY <2>1, <3>2
    <3> HIDE DEF k
    <3> QED
      BY <3>1, <3>3, TotalMore
  <2>5. (\A u \in U : f[u] \in Int) /\ (\A u \in U : g[u] \in Int)
    BY <1>0, <2>1
  <2>6. Total(q) = SumFunctionOnSet(f, U)
    BY <1>2
  <2>7. Total(t) = Total(q) + x.value /\ Total(q) \in Int
    BY TotalMore
  <2> HIDE DEF f, g, t, w
  <2>8. SumFunctionOnSet(f, U) = f[w] + SumFunctionOnSet(f, Rest)
    <3>1. \A u \in U : SumFunctionOnSet(f, U) = f[u] + SumFunctionOnSet(f, U \ {u})
      BY <2>5, SumPick, ZenonT(40)
    <3> QED
      BY <2>1, <3>1
  <2>9. SumFunctionOnSet(g, U) = g[w] + SumFunctionOnSet(g, Rest)
    <3>1. \A u \in U : SumFunctionOnSet(g, U) = g[u] + SumFunctionOnSet(g, U \ {u})
      BY <2>5, SumPick, ZenonT(40)
    <3> QED
      BY <2>1, <3>1
  <2>10. IsFiniteSet(Rest)
    BY FS_RemoveElement
  <2>11. SumFunctionOnSet(g, Rest) = SumFunctionOnSet(f, Rest) /\ SumFunctionOnSet(f, Rest) \in Int
    <3>1. \A u \in Rest : f[u] \in Int
      BY <2>5
    <3> HIDE DEF Rest
    <3> QED
      BY <2>3, <2>10, <3>1, SumSame, SumInt
  <2>12. f[w] \in Int
    BY <2>1, <2>5
  <2>13. Total(t) = SumFunctionOnSet(g, U)
    BY <2>1, <2>4, <2>6, <2>7, <2>8, <2>9, <2>11, <2>12
  <2> QED
    BY <2>1, <2>13 DEF g, t
<1>3. Seq(S) \subseteq Good
  <2> HIDE DEF Good
  <2> QED
    BY <1>1, <1>2, SeqGrow
<1> QED
  BY <1>3

\* A role that a draft has can be taken.
SeatsThere == \A r \in RoleIds : Role[r].seats > 0

On(label) == {e \in Path : e.path = label}

\* What a member has on a path is what the role asks for there
\* (enrollment.ts:86-91, proposal.ts:53-69).
LEMMA MemberOnPath ==
  ASSUME NEW s, Seated(s), PathsKept(s), NEW label
  PROVE  /\ filter_path(label, s.proposal.paths) = Filter(s.proposal.paths, On(label))
         /\ \A m \in ToSet(s.members) :
              Total(Filter(s.proposal.paths, On(label) \cap PathsBy(m.pub)))
                = Total(filter_path(label, Role[m.pid].paths))
<1> DEFINE p == s.proposal.paths
<1>1. /\ s.members \in Seq(Persons) /\ p \in Seq(Path)
      /\ \A n \in ToSet(s.members) : Filter(p, PathsBy(n.pub)) = PathsOf(n)
  BY DEF Seated, Persons, PathsKept
<1> HIDE DEF p
<1>2. filter_path(label, p) = Filter(p, On(label))
  <2> DEFINE A == {e \in ToSet(p) : e.path = label}
             B == On(label)
  <2>1. \A e \in ToSet(p) : e \in A <=> e \in B
    <3>1. ToSet(p) \subseteq Path
      BY <1>1 DEF ToSet
    <3> QED
      BY <3>1 DEF On
  <2> HIDE DEF A, B
  <2>2. Filter(p, A) = Filter(p, B)
    BY <1>1, <2>1, FilterAlike
  <2> QED
    BY <2>2 DEF A, B, filter_path
<1>3. ASSUME NEW m \in ToSet(s.members)
      PROVE  Total(Filter(p, On(label) \cap PathsBy(m.pub)))
               = Total(filter_path(label, Role[m.pid].paths))
  <2> DEFINE P == PathsOf(m)
             ps == Role[m.pid].paths
             A == On(label)
             B == {e \in ToSet(ps) : e.path = label}
             T == [path : STRING, value : Int]
  <2>1. m \in Persons
    BY <1>1 DEF ToSet
  <2>2. Filter(p, A \cap PathsBy(m.pub)) = Filter(P, A)
    <3> DEFINE C == PathsBy(m.pub)
    <3>1. Filter(p, C) = P
      BY <1>1
    <3> HIDE DEF A, C, P
    <3>2. Filter(Filter(p, C), A) = Filter(p, C \cap A)
      BY <1>1, FilterTwice
    <3>3. C \cap A = A \cap C
      OBVIOUS
    <3> QED
      BY <3>1, <3>2, <3>3 DEF C
  <2>3. P \in Seq(Path) /\ Len(P) = Len(ps) /\ Len(P) \in Nat
    BY <2>1, MemberBrings
  <2>4. ps \in Seq(T)
    BY <2>1, RoleAssumption DEF Persons
  <2>5. Valued(T) /\ Valued(Path)
    BY DEF Valued, Path
  <2>6. \A i \in 1..Len(P) : P[i].path = ps[i].path /\ P[i].value = ps[i].value
    BY <2>3 DEF PathsOf
  <2>7. \A i \in 1..Len(P) : P[i] \in Path /\ ps[i] \in ToSet(ps)
    <3> HIDE DEF P, ps, T
    <3>1. \A i \in 1..Len(P) : P[i] \in Path
      BY <2>3
    <3>2. \A i \in 1..Len(P) : ps[i] \in ToSet(ps)
      BY <2>3, <2>4 DEF ToSet
    <3> QED
      BY <3>1, <3>2
  <2>8. \A i \in 1..Len(P) : P[i].value = ps[i].value /\ (P[i] \in A <=> ps[i] \in B)
    BY <2>6, <2>7 DEF On
  <2>9. filter_path(label, ps) = Filter(ps, B)
    BY DEF filter_path
  <2> HIDE DEF P, ps, A, B, T
  <2>10. Total(Filter(P, A)) = Total(Filter(ps, B))
    BY <2>3, <2>4, <2>5, <2>8, TotalAlike
  <2> QED
    BY <2>2, <2>9, <2>10 DEF A, ps
<1> QED
  BY <1>2, <1>3 DEF p

\* What there is on a path is what its members have there (proposal.ts:60-69).
LEMMA PathsAddUp ==
  ASSUME NEW s, Seated(s), PathsKept(s), NEW label
  PROVE  LET have == [u \in Pubs(s.members) |->
                        Total(Filter(s.proposal.paths, On(label) \cap PathsBy(u)))] IN
         /\ IsFiniteSet(Pubs(s.members))
         /\ \A u \in Pubs(s.members) : have[u] \in Int
         /\ Total(filter_path(label, s.proposal.paths)) = SumFunctionOnSet(have, Pubs(s.members))
<1> DEFINE p == s.proposal.paths
           U == Pubs(s.members)
           S == {e \in Path : e.addr.xpub \in U}
           L == Filter(p, On(label))
           of == [e \in S |-> e.addr.xpub]
           have == [u \in U |-> Total(Filter(p, On(label) \cap PathsBy(u)))]
           also == [u \in U |-> Total(Filter(L, {x \in S : of[x] = u}))]
<1>1. /\ s.members \in Seq(Persons) /\ p \in Seq(Path)
      /\ \A e \in ToSet(p) : e.addr.xpub \in U
  BY DEF Seated, Persons, PathsKept
<1>2. IsFiniteSet(U)
  <2>1. IsFiniteSet(ToSet(s.members))
    <3>1. IsList(s.members)
      BY <1>1, Lists
    <3> QED
      BY <3>1, BagCounts
  <2> DEFINE M == ToSet(s.members)
             f == [m \in M |-> m.pub]
  <2>2. U = {f[m] : m \in M}
    BY DEF Pubs
  <2> HIDE DEF M, f, U
  <2>3. IsFiniteSet({f[m] : m \in M})
    BY <2>1, ImageFinite DEF M
  <2> QED
    BY <2>2, <2>3
<1>3. filter_path(label, p) = L
  BY MemberOnPath
<1> HIDE DEF p, U
<1>4. L \in Seq(S)
  <2>1. ToSet(p) \subseteq S
    BY <1>1 DEF ToSet
  <2>2. p \in Seq(ToSet(p))
    <3>1. IsList(p)
      BY <1>1, Lists
    <3> QED
      BY <3>1 DEF IsList
  <2> HIDE DEF S
  <2>3. p \in Seq(S)
    BY <2>1, <2>2
  <2> QED
    BY <2>3, FilterKeeps
<1>5. Valued(S) /\ \A x \in S : of[x] \in U
  BY DEF Valued, Path
<1>6. Total(L) = SumFunctionOnSet(also, U)
  <2> HIDE DEF S, L, of
  <2> QED
    BY <1>2, <1>4, <1>5, TotalShared
<1>7. ASSUME NEW u \in U PROVE also[u] = have[u] /\ have[u] \in Int
  <2> DEFINE By == {x \in S : of[x] = u}
             A == On(label)
  <2>1. A \cap By = A \cap PathsBy(u)
    BY DEF On, PathsBy
  <2> HIDE DEF By, A
  <2>2. Filter(Filter(p, A), By) = Filter(p, A \cap By)
    BY <1>1, FilterTwice
  <2>3. also[u] = Total(Filter(Filter(p, A), By)) /\ have[u] = Total(Filter(p, A \cap PathsBy(u)))
    BY DEF By, A
  <2>4. Filter(p, A \cap PathsBy(u)) \in Seq(Path) /\ Valued(Path)
    BY <1>1, FilterKeeps DEF Valued, Path
  <2>5. have[u] \in Int
    BY <2>3, <2>4, TotalInt
  <2> QED
    BY <2>1, <2>2, <2>3, <2>5
<1> HIDE DEF also, have, L
<1>8. SumFunctionOnSet(also, U) = SumFunctionOnSet(have, U)
  BY <1>2, <1>7, SumSame
<1> QED
  BY <1>2, <1>3, <1>6, <1>7, <1>8 DEF p, U, have

\* A session that says it is full has one member for each role
\* (enrollment.ts:178-216).
LEMMA OneForEach ==
  ASSUME SeatsThere, NEW s, Seated(s), SeatsKept(s), has_full_roles(s.members, s.roles)
  PROVE  /\ \A r \in s.roles : /\ \E m \in ToSet(s.members) : m.pid = r
                               /\ Len(Holders(r, s.members)) = Role[r].seats
         /\ \A m, n \in ToSet(s.members) : m.pid = n.pid => m = n
         /\ \A m \in ToSet(s.members) : m.pid \in s.roles
<1>1. /\ s.members \in Seq(Persons) /\ s.roles \subseteq RoleIds
      /\ \A m \in ToSet(s.members) : m.pid \in s.roles
      /\ \A r \in s.roles : Len(Filter(s.members, In(r))) <= Role[r].seats
  BY DEF Seated, Persons, SeatsKept
<1>2. ASSUME NEW r \in s.roles
      PROVE  /\ \E m \in ToSet(s.members) : m.pid = r
             /\ Role[r].seats = 1
    <2>1. (IF \E m \in ToSet(s.members) : m.pid = r THEN 1 ELSE 0) = Role[r].seats
      BY <1>2 DEF has_full_roles, tabulate_slots
    <2>2. Role[r].seats > 0
      BY <1>1 DEF SeatsThere
    <2> QED
      BY <2>1, <2>2
<1>3. ASSUME NEW r \in s.roles
      PROVE  LET f == Filter(s.members, In(r)) IN
             f \in Seq(Persons) /\ Len(f) = 1 /\ ToSet(f) = {m \in ToSet(s.members) : m.pid = r}
  <2> DEFINE f == Filter(s.members, In(r))
  <2>1. f \in Seq(Persons) /\ ToSet(f) = ToSet(s.members) \cap In(r)
    BY <1>1, FilterKeeps
  <2>2. Len(f) <= 1
    BY <1>1, <1>2
  <2>3. ToSet(s.members) \cap In(r) = {m \in ToSet(s.members) : m.pid = r}
    <3>1. ToSet(s.members) \subseteq Persons
      BY <1>1 DEF ToSet
    <3> QED
      BY <3>1 DEF In
  <2>4. PICK m \in ToSet(s.members) : m.pid = r
    BY <1>2
  <2>5. m \in ToSet(f)
    BY <2>1, <2>3, <2>4
  <2> HIDE DEF f
  <2>6. Len(f) \in Nat /\ Len(f) # 0
    <3>1. DOMAIN f = 1..Len(f) /\ Len(f) \in Nat
      BY <2>1
    <3> QED
      BY <2>5, <3>1 DEF ToSet
  <2>7. Len(f) = 1
    BY <2>2, <2>6
  <2> QED
    BY <2>1, <2>3, <2>7 DEF f
<1>4. ASSUME NEW m \in ToSet(s.members), NEW n \in ToSet(s.members), m.pid = n.pid PROVE m = n
  <2> DEFINE r == m.pid
             f == Filter(s.members, In(r))
  <2>1. r \in s.roles
    BY <1>1
  <2>2. f \in Seq(Persons) /\ Len(f) = 1 /\ ToSet(f) = {x \in ToSet(s.members) : x.pid = r}
    BY <1>3, <2>1
  <2>3. m \in ToSet(f) /\ n \in ToSet(f)
    BY <1>4, <2>2
  <2> HIDE DEF f
  <2>4. DOMAIN f = 1..1
    BY <2>2
  <2> QED
    BY <2>3, <2>4 DEF ToSet
<1>5. \A r \in s.roles : Len(Holders(r, s.members)) = Role[r].seats
  BY <1>1, <1>2, <1>3, HoldersAre
<1> QED
  BY <1>1, <1>2, <1>4, <1>5

\* Each role has one member, and each member a role.
OneEach(s) ==
  /\ \A r \in s.roles : \E m \in ToSet(s.members) : m.pid = r
  /\ \A m, n \in ToSet(s.members) : m.pid = n.pid => m = n
  /\ \A m \in ToSet(s.members) : m.pid \in s.roles

\* A session with one member for each role has on each path what the roles ask
\* for together (session.ts:91-130).
LEMMA PathsOfRoles ==
  ASSUME NEW s, Seated(s), PathsKept(s), OneEach(s)
  PROVE  get_path_total(s.proposal.paths) = get_role_paths_totals(s.roles)
<1> DEFINE p == s.proposal.paths
           M == ToSet(s.members)
           R == s.roles
           U == Pubs(s.members)
           h == [r \in R |-> CHOOSE m \in M : m.pid = r]
           e == [r \in R |-> h[r].pub]
<1>1. /\ IsFiniteSet(R) /\ \A m, n \in M : m.pub = n.pub => m = n
      /\ s.members \in Seq(Persons) /\ p \in Seq(Path)
      /\ \A x \in ToSet(p) : x.addr.xpub \in U
      /\ \A m \in M : Filter(p, PathsBy(m.pub)) = PathsOf(m)
  BY DEF Seated, PathsKept, Persons
<1>2. \A r \in R : h[r] \in M /\ h[r].pid = r
  BY DEF OneEach
<1>3. \A m \in M : m.pid \in R /\ h[m.pid] = m
  BY <1>2 DEF OneEach
<1>4. U = {m.pub : m \in M}
  BY DEF Pubs
<1>5. /\ \A r \in R : e[r] \in U /\ e[r] = h[r].pub
      /\ \A q, r \in R : e[q] = e[r] => q = r
      /\ \A u \in U : \E r \in R : e[r] = u
  <2>1. \A r \in R : e[r] = h[r].pub
    OBVIOUS
  <2> HIDE DEF h, e
  <2>2. \A r \in R : e[r] \in U
    BY <1>2, <1>4, <2>1
  <2>3. ASSUME NEW q \in R, NEW r \in R, e[q] = e[r] PROVE q = r
    <3>1. h[q] = h[r]
      BY <1>1, <1>2, <2>1, <2>3
    <3> QED
      BY <1>2, <3>1
  <2>4. \A u \in U : \E r \in R : e[r] = u
    <3> TAKE u \in U
    <3>1. PICK m \in M : m.pub = u
      BY <1>4
    <3> QED
      BY <1>3, <2>1, <3>1
  <2> QED
    BY <2>1, <2>2, <2>3, <2>4
<1>a. ASSUME NEW label
      PROVE  \A m \in M : Total(Filter(p, On(label) \cap PathsBy(m.pub)))
                           = Total(filter_path(label, Role[m.pid].paths))
  <2>1. filter_path(label, s.proposal.paths) = Filter(s.proposal.paths, On(label))
        /\ \A m \in ToSet(s.members) :
             Total(Filter(s.proposal.paths, On(label) \cap PathsBy(m.pub)))
               = Total(filter_path(label, Role[m.pid].paths))
    BY MemberOnPath
  <2> QED
    BY <2>1
<1> HIDE DEF h, e, U, M, R, p
<1>6. ASSUME NEW label
      PROVE  Total(filter_path(label, p))
               = SumFunction([r \in R |-> Total(filter_path(label, Role[r].paths))])
  <2> DEFINE have == [u \in U |-> Total(Filter(p, On(label) \cap PathsBy(u)))]
             ask  == [r \in R |-> Total(filter_path(label, Role[r].paths))]
  <2>1. /\ IsFiniteSet(U) /\ \A u \in U : have[u] \in Int
        /\ Total(filter_path(label, p)) = SumFunctionOnSet(have, U)
    BY PathsAddUp DEF U, p
  <2>2. ASSUME NEW r \in R PROVE ask[r] = have[e[r]]
    <3>1. h[r] \in M /\ h[r].pid = r /\ e[r] = h[r].pub /\ e[r] \in U
      BY <1>2, <1>5
    <3>2. \A m \in M : Total(Filter(p, On(label) \cap PathsBy(m.pub)))
                        = Total(filter_path(label, Role[m.pid].paths))
      BY <1>a
    <3> QED
      BY <3>1, <3>2
  <2>3. SumFunction(ask) = SumFunctionOnSet(ask, R)
    BY DEF SumFunction
  <2> HIDE DEF have, ask
  <2>4. SumFunctionOnSet(ask, R) = SumFunctionOnSet(have, U)
    BY <1>1, <1>5, <2>1, <2>2, SumMapped
  <2> QED
    BY <2>1, <2>3, <2>4 DEF ask
<1>7. get_path_names(p) = UNION {get_path_names(Role[r].paths) : r \in R}
  <2>1. ASSUME NEW m \in M
        PROVE  /\ {x.path : x \in ToSet(PathsOf(m))} = get_path_names(Role[m.pid].paths)
               /\ ToSet(PathsOf(m)) = ToSet(p) \cap PathsBy(m.pub)
    <3> DEFINE P == PathsOf(m)
               ps == Role[m.pid].paths
    <3>1. m \in Persons
      BY <1>1 DEF ToSet, M
    <3>2. Len(P) = Len(ps) /\ Len(P) \in Nat /\ P \in Seq(Path)
      BY <3>1, MemberBrings
    <3>3. ps \in Seq([path : STRING, value : Int])
      BY <3>1, RoleAssumption DEF Persons
    <3>4. \A i \in 1..Len(P) : P[i].path = ps[i].path
      BY <3>2 DEF PathsOf
    <3>5. ToSet(Filter(p, PathsBy(m.pub))) = ToSet(p) \cap PathsBy(m.pub)
      BY <1>1, FilterKeeps
    <3>6. Filter(p, PathsBy(m.pub)) = P
      BY <1>1
    <3> DEFINE T == [path : STRING, value : Int]
    <3> HIDE DEF P, ps, T
    <3>7. ps \in Seq(T)
      BY <3>3 DEF T
    <3>8. DOMAIN P = 1..Len(P) /\ DOMAIN ps = 1..Len(P)
      BY <3>2, <3>7
    <3>9. {x.path : x \in ToSet(P)} = {x.path : x \in ToSet(ps)}
      BY <3>4, <3>8 DEF ToSet
    <3> QED
      BY <3>5, <3>6, <3>9 DEF get_path_names, P, ps
  <2>2. \A x \in ToSet(p) : x \in Path
    BY <1>1 DEF ToSet
  <2>3. ASSUME NEW x \in ToSet(p)
        PROVE  \E r \in R : x.path \in get_path_names(Role[r].paths)
    <3>1. PICK m \in M : m.pub = x.addr.xpub
      BY <1>1, <1>4
    <3>2. x \in ToSet(PathsOf(m))
      BY <2>1, <2>2, <3>1 DEF PathsBy
    <3> QED
      BY <1>3, <2>1, <3>1, <3>2
  <2>4. ASSUME NEW r \in R, NEW l \in get_path_names(Role[r].paths)
        PROVE  \E x \in ToSet(p) : x.path = l
    <3>1. h[r] \in M /\ h[r].pid = r
      BY <1>2
    <3>2. PICK x \in ToSet(PathsOf(h[r])) : x.path = l
      BY <2>1, <2>4, <3>1
    <3>3. x \in ToSet(p)
      BY <2>1, <3>1, <3>2
    <3> QED
      BY <3>2, <3>3
  <2>5. get_path_names(p) = {x.path : x \in ToSet(p)}
    BY DEF get_path_names
  <2>6. \A l \in get_path_names(p) : l \in UNION {get_path_names(Role[r].paths) : r \in R}
    BY <2>3, <2>5
  <2>7. \A l \in UNION {get_path_names(Role[r].paths) : r \in R} : l \in get_path_names(p)
    BY <2>4, <2>5
  <2> QED
    BY <2>6, <2>7
<1>8. get_path_total(p)
        = [label \in get_path_names(p) |-> Total(filter_path(label, p))]
  BY DEF get_path_total
<1>9. get_role_paths_totals(R)
        = [label \in UNION {get_path_names(Role[r].paths) : r \in R} |->
             SumFunction([r \in R |-> Total(filter_path(label, Role[r].paths))])]
  BY DEF get_role_paths_totals
<1> QED
  BY <1>6, <1>7, <1>8, <1>9 DEF p, R

\* It pays at least what the roles ask for, and what others left behind comes
\* on top (session.ts:91-130).
LEMMA PaymentsOfRoles ==
  ASSUME NEW s, Seated(s), PaymentsKept(s), OneEach(s)
  PROVE  get_pay_total(s.proposal.payments) >= get_role_payment_totals(s.roles)
<1> DEFINE p == s.proposal.payments
           M == ToSet(s.members)
           R == s.roles
           D == 1..Len(p)
           v == Values(p)
           h == [r \in R |-> CHOOSE m \in M : m.pid = r]
           pay == [r \in R |-> Role[r].payment]
           Paid == {r \in R : pay[r] > 0}
           at == [r \in Paid |-> CHOOSE i \in D : p[i] = PaymentOf(h[r])]
           I == {at[r] : r \in Paid}
<1>1. /\ IsFiniteSet(R) /\ R \subseteq RoleIds /\ s.members \in Seq(Persons) /\ p \in Seq(Payment)
      /\ \A m \in M : Role[m.pid].payment > 0 => PaymentOf(m) \in ToSet(p)
  BY DEF Seated, PaymentsKept, Persons
<1>2. \A r \in R : h[r] \in M /\ h[r].pid = r /\ pay[r] = Role[r].payment /\ pay[r] \in Nat
  BY <1>1, RoleAssumption DEF OneEach
<1>3. \A m \in M : m \in Persons
  BY <1>1 DEF ToSet
<1>4. /\ Total(p) = SumFunctionOnSet(v, D) /\ IsFiniteSet(D) /\ DOMAIN p = D
  BY <1>1, TotalIsSum
<1>5. \A i \in D : v[i] = p[i].value /\ p[i] \in Payment
  BY <1>1, <1>4 DEF Values
<1>6. get_pay_total(p) = Total(p) /\ get_role_payment_totals(R) = SumFunctionOnSet(pay, R)
  BY DEF get_pay_total, get_role_payment_totals, SumFunction
<1> HIDE DEF p, M, R, D, v, h, pay
<1>7. ASSUME NEW r \in Paid PROVE at[r] \in D /\ p[at[r]] = PaymentOf(h[r])
  <2>1. PaymentOf(h[r]) \in ToSet(p)
    BY <1>1, <1>2
  <2>2. \E i \in D : p[i] = PaymentOf(h[r])
    BY <1>4, <2>1 DEF ToSet
  <2> QED
    BY <2>2
<1> HIDE DEF at
<1>8. \A q, r \in Paid : at[q] = at[r] => q = r
  <2> TAKE q, r \in Paid
  <2> HAVE at[q] = at[r]
  <2>1. PaymentOf(h[q]) = PaymentOf(h[r])
    BY <1>7
  <2>2. h[q] \in M /\ h[r] \in M /\ h[q].pid = q /\ h[r].pid = r
    BY <1>2
  <2>3. h[q].pub = h[r].pub
    BY <1>3, <2>1, <2>2, MemberBrings
  <2>4. h[q] = h[r]
    BY <2>2, <2>3 DEF Seated, M
  <2> QED
    BY <2>2, <2>4
<1>9. \A i \in D : v[i] \in Nat
  BY <1>5 DEF Payment
<1>10. IsFiniteSet(Paid) /\ Paid \in SUBSET R
  BY <1>1, FS_Subset
<1>11. IsFiniteSet(I) /\ I \in SUBSET D
  <2>1. I \in SUBSET D
    BY <1>7
  <2> HIDE DEF I
  <2> QED
    BY <1>4, <2>1, FS_Subset
<1>12. SumFunctionOnSet(pay, Paid) = SumFunctionOnSet(v, I)
  <2>1. \A r \in Paid : at[r] \in I /\ pay[r] = v[at[r]]
    <3> TAKE r \in Paid
    <3>1. h[r] \in M /\ h[r].pid = r /\ pay[r] = Role[r].payment
      BY <1>2
    <3>2. PaymentOf(h[r]).value = pay[r]
      BY <3>1 DEF PaymentOf
    <3> QED
      BY <1>5, <1>7, <3>2
  <2>2. \A i \in I : \E r \in Paid : at[r] = i
    OBVIOUS
  <2>3. \A i \in I : v[i] \in Int
    BY <1>9, <1>11
  <2> HIDE DEF I, Paid
  <2> QED
    BY <1>8, <1>10, <1>11, <2>1, <2>2, <2>3, SumMapped
<1>13. SumFunctionOnSet(v, I) <= SumFunctionOnSet(v, D) /\ SumFunctionOnSet(v, D) \in Nat
  <2> HIDE DEF I
  <2> QED
    BY <1>4, <1>9, <1>11, SumNatural
<1>14. SumFunctionOnSet(pay, R) = SumFunctionOnSet(pay, Paid) + SumFunctionOnSet(pay, R \ Paid)
  <2>1. \A r \in R : pay[r] \in Int
    BY <1>2
  <2> HIDE DEF Paid
  <2> QED
    BY <1>1, <1>10, <2>1, SumParts
<1>15. SumFunctionOnSet(pay, R \ Paid) = 0
  <2>1. \A r \in R \ Paid : pay[r] = 0
    BY <1>2
  <2>2. IsFiniteSet(R \ Paid)
    BY <1>1, FS_Subset
  <2> HIDE DEF Paid
  <2> QED
    BY <2>1, <2>2, SumZero
<1>16. SumFunctionOnSet(pay, Paid) \in Int
  <2>1. \A r \in Paid : pay[r] \in Int
    BY <1>2
  <2> HIDE DEF Paid
  <2> QED
    BY <1>10, <2>1, SumInt
<1> HIDE DEF Paid, I
<1>17. SumFunctionOnSet(pay, R) <= SumFunctionOnSet(v, D)
  BY <1>12, <1>13, <1>14, <1>15, <1>16
<1>18. SumFunctionOnSet(pay, R) \in Int /\ SumFunctionOnSet(v, D) \in Int
  BY <1>13, <1>14, <1>15, <1>16
<1> QED
  BY <1>4, <1>6, <1>17, <1>18 DEF p, R

\* A session that says it is full has every seat taken and pays on each path
\* what the roles ask for together, where every role has a seat
\* (enrollment.ts:178-216, session.ts:91-130).
THEOREM FullMeansFull ==
  ASSUME RolesOnly, SeatsThere
  PROVE  Spec => []FullIsFull
<1>1. IInv /\ Kept(session) => FullIsFull
  <2> SUFFICES ASSUME IInv, Kept(session), has_full_roles(session.members, session.roles)
               PROVE  LET tab == tabulate_session(session) IN
                      /\ \A r \in session.roles :
                           Len(Holders(r, session.members)) = Role[r].seats
                      /\ tab.path_tabs = tab.role_tabs
                      /\ tab.pay_total >= tab.role_total
    BY DEF FullIsFull
  <2>1. Seated(session) /\ PathsKept(session) /\ PaymentsKept(session) /\ SeatsKept(session)
    BY DEF IInv, Kept
  <2>2. /\ \A r \in session.roles : Len(Holders(r, session.members)) = Role[r].seats
        /\ OneEach(session)
    BY <2>1, OneForEach DEF OneEach
  <2>3. get_path_total(session.proposal.paths) = get_role_paths_totals(session.roles)
    BY <2>1, <2>2, PathsOfRoles
  <2>4. get_pay_total(session.proposal.payments) >= get_role_payment_totals(session.roles)
    BY <2>1, <2>2, PaymentsOfRoles
  <2> QED
    BY <2>2, <2>3, <2>4 DEF tabulate_session
<1> QED
  BY <1>1, Invariance, AlwaysKept, PTL

-----------------------------------------------------------------------------
(* What the outputs pay.                                                    *)

\* Where an entry is in a list.
Places(s, x) == {i \in DOMAIN s : s[i] = x}

\* Entries that are the same are worth their number times the value of one
\* (contract/util.ts:93-112).
LEMMA OneKind ==
  ASSUME NEW S, NEW s \in Seq(S), Valued(S), NEW u \in S
  PROVE  /\ Cardinality(Places(s, u)) \in Nat
         /\ Total(Filter(s, {u})) = Cardinality(Places(s, u)) * u.value
<1> DEFINE Good == {q \in Seq(S) : /\ IsFiniteSet(Places(q, u)) /\ Cardinality(Places(q, u)) \in Nat
                                   /\ Total(Filter(q, {u})) = Cardinality(Places(q, u)) * u.value}
<1>0. u.value \in Int
  BY DEF Valued
<1>1. <<>> \in Good
  <2>1. Places(<<>>, u) = {} /\ <<>> \in Seq(S)
    BY DEF Places
  <2>2. IsFiniteSet(Places(<<>>, u)) /\ Cardinality(Places(<<>>, u)) = 0
    BY <2>1, FS_EmptySet
  <2>3. Total(Filter(<<>>, {u})) = 0
    BY FilterNone, TotalNone
  <2> QED
    BY <1>0, <2>1, <2>2, <2>3
<1>2. ASSUME NEW q \in Seq(S), NEW x \in S, q \in Good PROVE Append(q, x) \in Good
  <2> DEFINE t == Append(q, x)
             n == Len(q)
             c == Cardinality(Places(q, u))
             f == Filter(q, {u})
  <2>1. /\ t \in Seq(S) /\ n \in Nat /\ DOMAIN t = 1..(n + 1) /\ DOMAIN q = 1..n
        /\ \A i \in 1..n : t[i] = q[i]
        /\ t[n + 1] = x
    OBVIOUS
  <2>2. IsFiniteSet(Places(q, u)) /\ c \in Nat /\ Total(f) = c * u.value
    BY <1>2
  <2>3. Filter(t, {u}) = IF x \in {u} THEN Append(f, x) ELSE f
    BY FilterMore
  <2>4. f \in Seq(S)
    BY FilterKeeps
  <2> HIDE DEF t, n, c, f
  <2>5. CASE x = u
    <3>1. Places(t, u) = Places(q, u) \cup {n + 1} /\ n + 1 \notin Places(q, u)
      BY <2>1, <2>5 DEF Places
    <3>2. IsFiniteSet(Places(t, u)) /\ Cardinality(Places(t, u)) = c + 1
      BY <2>2, <3>1, FS_AddElement DEF c
    <3>3. Total(Filter(t, {u})) = Total(f) + u.value
      BY <2>3, <2>4, <2>5, TotalMore
    <3>4. c * u.value + u.value = (c + 1) * u.value
      <4>1. \A a, v \in Int : a * v + v = (a + 1) * v
        BY SMT
      <4> QED
        BY <1>0, <2>2, <4>1, SMTT(30)
    <3>5. c + 1 \in Nat
      BY <2>2
    <3> QED
      BY <2>1, <2>2, <3>2, <3>3, <3>4, <3>5 DEF t
  <2>6. CASE x # u
    <3>1. Places(t, u) = Places(q, u)
      BY <2>1, <2>6 DEF Places
    <3>2. Filter(t, {u}) = f
      BY <2>3, <2>6
    <3> QED
      BY <2>1, <2>2, <3>1, <3>2 DEF t, c
  <2> QED
    BY <2>5, <2>6
<1>3. Seq(S) \subseteq Good
  <2> HIDE DEF Good
  <2> QED
    BY <1>1, <1>2, SeqGrow
<1> QED
  BY <1>3

\* Outputs that are counted are worth what they are worth one by one
\* (contract/util.ts:93-112).
LEMMA BagTotal ==
  ASSUME NEW S, NEW s \in Seq(S), Valued(S), NEW A
  PROVE  SumFunction([e \in ToSet(s) \cap A |-> ToBag(s)[e] * e.value]) = Total(Filter(s, A))
<1> DEFINE D == ToSet(s) \cap A
           f == Filter(s, A)
           of == [x \in D |-> x]
           share == [u \in D |-> Total(Filter(f, {x \in D : of[x] = u}))]
           worth == [e \in D |-> ToBag(s)[e] * e.value]
<1>1. IsList(s)
  BY Lists
<1>2. IsFiniteSet(D)
  <2>1. IsFiniteSet(ToSet(s))
    BY <1>1, BagCounts
  <2> QED
    BY <2>1, FS_Subset
<1>3. f \in Seq(D) /\ D \subseteq S
  <2>1. f \in Seq(S) /\ ToSet(f) = D
    BY FilterKeeps
  <2>2. ToSet(s) \subseteq S
    BY DEF ToSet
  <2>3. IsList(f)
    BY <2>1, Lists
  <2> QED
    BY <2>1, <2>2, <2>3 DEF IsList
<1>4. Valued(D) /\ \A x \in D : of[x] \in D
  BY <1>3 DEF Valued
<1>5. Total(f) = SumFunctionOnSet(share, D)
  <2> HIDE DEF D, f, of
  <2> QED
    BY <1>2, <1>3, <1>4, TotalShared, SMTT(30)
<1>6. ASSUME NEW u \in D PROVE share[u] = worth[u]
  <2>1. {x \in D : of[x] = u} = {u} /\ A \cap {u} = {u} /\ u \in S /\ u \in ToSet(s)
    BY <1>3
  <2>2. share[u] = Total(Filter(f, {u}))
    BY <2>1
  <2>3. Filter(f, {u}) = Filter(s, A \cap {u})
    BY FilterTwice
  <2>4. Total(Filter(s, {u})) = Cardinality(Places(s, u)) * u.value
    BY <2>1, OneKind
  <2>5. ToBag(s)[u] = Cardinality(Places(s, u))
    BY <1>1, <2>1, BagCounts DEF Places
  <2> HIDE DEF share, f
  <2>6. share[u] = ToBag(s)[u] * u.value
    BY <2>1, <2>2, <2>3, <2>4, <2>5
  <2> QED
    BY <2>6
<1> HIDE DEF share, D, f
<1>7. SumFunctionOnSet(share, D) = SumFunctionOnSet(worth, D)
  <2> HIDE DEF worth
  <2> QED
    BY <1>2, <1>6, SumSame
<1>8. SumFunction(worth) = SumFunctionOnSet(worth, D)
  <2>1. DOMAIN worth = D
    OBVIOUS
  <2> HIDE DEF worth
  <2> QED
    BY <2>1 DEF SumFunction
<1> QED
  BY <1>5, <1>7, <1>8 DEF D, f

\* The entries that a template has outputs for.
Paying(label, paths, payments) == filter_path(label, paths) \o payments

\* What a template pays those in to is what its entries for them do.
Pays(label, paths, payments, to) ==
  LET vout == get_path_vouts(label, paths, payments)
      t    == Paying(label, paths, payments)
  IN /\ IsList(t) /\ Valued(ToSet(t))
     /\ {e.addr : e \in DOMAIN vout} = {e.addr : e \in ToSet(t)}
     /\ SumFunction([e \in {x \in DOMAIN vout : x.addr.xpub \in to} |-> vout[e] * e.value])
          = Total(Filter(t, {e \in ToSet(t) : e.addr.xpub \in to}))

\* A template pays somebody what the entries do whose address is theirs
\* (contract/util.ts:93-112).
LEMMA TemplatePays ==
  ASSUME NEW paths, NEW payments, IsList(paths), IsList(payments),
         Valued(ToSet(paths)), Valued(ToSet(payments)), NEW label, NEW to
  PROVE  Pays(label, paths, payments, to)
<1> DEFINE fp == filter_path(label, paths)
           t == Paying(label, paths, payments)
           s == Vouts(fp) \o Vouts(payments)
           vout == get_path_vouts(label, paths, payments)
           S == ToSet(s)
           T == ToSet(t)
           A == {x \in S : x.addr.xpub \in to}
           B == {x \in T : x.addr.xpub \in to}
<1>1. IsList(fp) /\ ToSet(fp) \subseteq ToSet(paths)
  BY ListsFiltered DEF filter_path
<1>2. t = fp \o payments
  BY DEF Paying
<1>3. vout = ToBag(s)
  BY VoutsMade
<1> HIDE DEF fp, vout
<1>4. /\ IsList(Vouts(fp)) /\ Len(Vouts(fp)) = Len(fp) /\ DOMAIN fp = 1..Len(fp)
      /\ IsList(Vouts(payments)) /\ Len(Vouts(payments)) = Len(payments)
      /\ DOMAIN payments = 1..Len(payments)
  BY <1>1, VoutsMade
<1>5. IsList(s) /\ IsList(t) /\ T = ToSet(fp) \cup ToSet(payments)
  BY <1>1, <1>2, <1>4, ListsJoined
<1>6. Valued(T)
  BY <1>1, <1>5 DEF Valued
<1>7. /\ Len(fp) \in Nat /\ Len(payments) \in Nat
      /\ Len(s) = Len(fp) + Len(payments) /\ DOMAIN s = 1..Len(s)
      /\ Len(t) = Len(s) /\ DOMAIN t = 1..Len(s) /\ Len(s) \in Nat
  <2>1. /\ fp \in Seq(ToSet(fp)) /\ payments \in Seq(ToSet(payments))
        /\ Vouts(fp) \in Seq(ToSet(Vouts(fp))) /\ Vouts(payments) \in Seq(ToSet(Vouts(payments)))
    BY <1>1, <1>4 DEF IsList
  <2>2. Len(fp) \in Nat /\ Len(payments) \in Nat
    BY <2>1
  <2>3. Len(s) = Len(fp) + Len(payments) /\ DOMAIN s = 1..(Len(fp) + Len(payments))
    BY <1>4, <2>1, <2>2
  <2>4. Len(t) = Len(fp) + Len(payments) /\ DOMAIN t = 1..(Len(fp) + Len(payments))
    BY <1>2, <2>1, <2>2
  <2> HIDE DEF s, t
  <2> QED
    BY <2>2, <2>3, <2>4
<1>8. ASSUME NEW i \in 1..Len(s) PROVE s[i] = [value |-> t[i].value, addr |-> t[i].addr]
  <2> DEFINE k == i - Len(fp)
  <2>1. CASE i <= Len(fp)
    <3>1. i \in DOMAIN fp /\ s[i] = Vouts(fp)[i] /\ t[i] = fp[i]
      <4>1. i \in 1..Len(fp)
        BY <1>7, <2>1
      <4>2. s[i] = Vouts(fp)[i]
        BY <1>4, <1>7, <2>1 DEF IsList
      <4>3. t[i] = fp[i]
        BY <1>1, <1>2, <1>7, <2>1 DEF IsList
      <4> QED
        BY <1>4, <4>1, <4>2, <4>3
    <3> HIDE DEF s, t
    <3> QED
      BY <3>1 DEF Vouts
  <2>2. CASE ~(i <= Len(fp))
    <3>1. k \in 1..Len(payments)
      <4> HIDE DEF s
      <4> QED
        BY <1>7, <2>2
    <3>2. s[i] = Vouts(payments)[k]
      BY <1>4, <1>7, <2>2 DEF IsList
    <3>3. t[i] = payments[k]
      BY <1>1, <1>2, <1>7, <2>2 DEF IsList
    <3>4. k \in DOMAIN payments
      BY <1>4, <3>1
    <3> HIDE DEF s, t, k
    <3> QED
      BY <3>2, <3>3, <3>4 DEF Vouts
  <2> QED
    BY <2>1, <2>2
<1>9. \A i \in 1..Len(s) : s[i].value = t[i].value /\ s[i].addr = t[i].addr /\ s[i] \in S /\ t[i] \in T
  <2>1. \A i \in 1..Len(s) : s[i] \in S /\ t[i] \in T
    <3> HIDE DEF s, t
    <3> QED
      BY <1>7 DEF ToSet
  <2>2. ASSUME NEW i \in 1..Len(s) PROVE s[i].value = t[i].value /\ s[i].addr = t[i].addr
    <3>1. s[i] = [value |-> t[i].value, addr |-> t[i].addr]
      BY <1>8
    <3> HIDE DEF s, t
    <3> QED
      BY <3>1
  <2> HIDE DEF s, t
  <2> QED
    BY <2>1, <2>2
<1>10. (\A x \in S : \E i \in 1..Len(s) : x = s[i]) /\ (\A x \in T : \E i \in 1..Len(s) : x = t[i])
  <2> HIDE DEF s, t
  <2> QED
    BY <1>7 DEF ToSet
<1> HIDE DEF s, t
<1>11. Valued(S)
  BY <1>6, <1>9, <1>10 DEF Valued
<1>12. s \in Seq(S) /\ t \in Seq(T)
  BY <1>5 DEF IsList
<1> HIDE DEF S, T
<1>13. \A i \in 1..Len(s) : s[i].value = t[i].value /\ (s[i] \in A <=> t[i] \in B)
  BY <1>9
<1>14. Total(Filter(s, A)) = Total(Filter(t, B))
  <2> HIDE DEF A, B
  <2> QED
    BY <1>6, <1>7, <1>11, <1>12, <1>13, TotalAlike
<1>15. DOMAIN vout = S
  BY <1>3, <1>5, BagCounts DEF S
<1>16. {e.addr : e \in DOMAIN vout} = {e.addr : e \in T}
  BY <1>9, <1>10, <1>15
<1>17. SumFunction([e \in {x \in DOMAIN vout : x.addr.xpub \in to} |-> vout[e] * e.value])
         = Total(Filter(s, A))
  <2>1. {x \in DOMAIN vout : x.addr.xpub \in to} = S \cap A
    BY <1>15
  <2> HIDE DEF A
  <2>2. SumFunction([e \in S \cap A |-> ToBag(s)[e] * e.value]) = Total(Filter(s, A))
    BY <1>11, <1>12, BagTotal DEF S
  <2> QED
    BY <1>3, <2>1, <2>2
<1> QED
  BY <1>5, <1>6, <1>14, <1>16, <1>17 DEF t, vout, T, Pays

\* Where nobody left a payment behind, a member has one, of what the role asks
\* for, or none worth anything (enrollment.ts:92-95).
LEMMA PaymentIsTheRoles ==
  ASSUME NEW s, Seated(s), PaymentsKept(s), NoLeftover(s.proposal.payments, s.members),
         NEW m \in ToSet(s.members), NEW B,
         \A e \in ToSet(s.proposal.payments) : e \in B <=> e.addr.xpub = m.pub
  PROVE  Total(Filter(s.proposal.payments, B)) = Role[m.pid].payment
<1> DEFINE p == s.proposal.payments
           u == PaymentOf(m)
           v == Role[m.pid].payment
<1>1. /\ s.members \in Seq(Persons) /\ p \in Seq(Payment)
      /\ v > 0 => u \in ToSet(p)
      /\ \A n \in ToSet(s.members) : m.pub = n.pub => m = n
      /\ IsInjective(p) /\ ToSet(p) \subseteq {PaymentOf(n) : n \in ToSet(s.members)}
  BY DEF Seated, Persons, PaymentsKept, NoLeftover
<1>2. m \in Persons /\ \A n \in ToSet(s.members) : n \in Persons
  BY <1>1 DEF ToSet
<1>3. u \in Payment /\ u.addr.xpub = m.pub /\ \A n \in Persons : PaymentOf(n).addr.xpub = n.pub
  BY <1>2, MemberBrings
<1>4. u.value = v /\ v \in Nat
  BY <1>2, RoleAssumption DEF PaymentOf, Persons
<1> HIDE DEF p, u
<1>5. \A e \in ToSet(p) : e \in B <=> e \in {u}
  <2>1. ASSUME NEW e \in ToSet(p), e.addr.xpub = m.pub PROVE e = u
    <3>1. PICK n \in ToSet(s.members) : e = PaymentOf(n)
      BY <1>1
    <3>2. n.pub = m.pub
      BY <1>2, <1>3, <2>1, <3>1
    <3> QED
      BY <1>1, <3>1, <3>2 DEF u
  <2> QED
    BY <1>3, <2>1 DEF p
<1>6. Filter(p, B) = Filter(p, {u})
  BY <1>1, <1>5, FilterAlike
<1>7. /\ Cardinality(Places(p, u)) \in Nat
      /\ Total(Filter(p, {u})) = Cardinality(Places(p, u)) * v
  <2>1. Valued(Payment)
    BY DEF Valued, Payment
  <2> QED
    BY <1>1, <1>3, <1>4, <2>1, OneKind
<1>8. CASE v > 0
  <2>1. PICK i \in DOMAIN p : p[i] = u
    BY <1>1, <1>8 DEF ToSet
  <2>2. Places(p, u) = {i}
    BY <1>1, <2>1 DEF Places, IsInjective
  <2>3. Cardinality(Places(p, u)) = 1
    BY <2>2, FS_Singleton
  <2> HIDE DEF v
  <2>4. 1 * v = v
    BY <1>4
  <2> QED
    BY <1>6, <1>7, <2>3, <2>4 DEF p, v
<1>9. CASE v = 0
  <2>1. \A a \in Nat : a * 0 = 0
    OBVIOUS
  <2> HIDE DEF v
  <2>2. Total(Filter(p, {u})) = 0
    BY <1>7, <1>9, <2>1
  <2> QED
    BY <1>6, <1>9, <2>2 DEF p, v
<1>10. v > 0 \/ v = 0
  <2> HIDE DEF v
  <2> QED
    BY <1>4
<1> QED
  BY <1>8, <1>9, <1>10

\* What a template pays a member is what the role asks for on the path and for
\* the payment, for the server pays no member (contract/util.ts:93-112).
LEMMA MemberIsPaid ==
  ASSUME NEW s, Seated(s), PathsKept(s), PaymentsKept(s),
         NoLeftover(s.proposal.payments, s.members),
         NEW m \in ToSet(s.members), NEW label
  PROVE  LET t == Paying(label, s.proposal.paths, s.proposal.payments \o ServerFees) IN
         Total(Filter(t, {e \in ToSet(t) : e.addr.xpub \in {m.pub}}))
           = Role[m.pid].payment + Total(filter_path(label, Role[m.pid].paths))
<1> DEFINE ps == s.proposal.paths
           pay == s.proposal.payments
           fp == filter_path(label, ps)
           t == Paying(label, ps, pay \o ServerFees)
           T == ToSet(t)
           B == {e \in T : e.addr.xpub \in {m.pub}}
<1>1. /\ s.members \in Seq(Persons) /\ ps \in Seq(Path) /\ pay \in Seq(Payment)
      /\ m.pub \in Members /\ m.pid \in RoleIds
  <2>1. s.members \in Seq(Persons) /\ ps \in Seq(Path) /\ pay \in Seq(Payment)
    BY DEF Seated, Persons, PathsKept, PaymentsKept
  <2>2. m \in Persons
    BY <2>1 DEF ToSet
  <2> QED
    BY <2>1, <2>2 DEF Persons
<1>2. /\ fp = Filter(ps, On(label))
      /\ Total(Filter(ps, On(label) \cap PathsBy(m.pub))) = Total(filter_path(label, Role[m.pid].paths))
  BY MemberOnPath
<1>3. IsList(ServerFees) /\ \A e \in ToSet(ServerFees) : e.value \in Int /\ e.addr.xpub \notin Members
  BY FeesAssumption DEF IsList
<1>4. t = fp \o (pay \o ServerFees)
  BY DEF Paying
<1> HIDE DEF ps, pay, fp, t
<1>5. IsList(pay) /\ IsList(ps) /\ fp \in Seq(Path) /\ IsList(fp)
  BY <1>1, <1>2, Lists, FilterKeeps
<1>6. /\ IsList(pay \o ServerFees) /\ IsList(t)
      /\ T = ToSet(fp) \cup ToSet(pay) \cup ToSet(ServerFees)
  BY <1>3, <1>4, <1>5, ListsJoined
<1>7. fp \in Seq(T) /\ pay \in Seq(T) /\ ServerFees \in Seq(T) /\ pay \o ServerFees \in Seq(T)
  <2>1. /\ fp \in Seq(ToSet(fp)) /\ pay \in Seq(ToSet(pay)) /\ ServerFees \in Seq(ToSet(ServerFees))
        /\ ToSet(fp) \subseteq T /\ ToSet(pay) \subseteq T /\ ToSet(ServerFees) \subseteq T
    BY <1>3, <1>5, <1>6 DEF IsList
  <2> HIDE DEF T
  <2>2. fp \in Seq(T) /\ pay \in Seq(T) /\ ServerFees \in Seq(T)
    BY <2>1
  <2> QED
    BY <2>2
<1>8. ToSet(fp) \subseteq Path /\ ToSet(pay) \subseteq Payment
  BY <1>1, <1>5 DEF ToSet
<1>9. Valued(T)
  BY <1>3, <1>6, <1>8 DEF Valued, Path, Payment
<1> DEFINE f1 == Filter(fp, B)
           f2 == Filter(pay, B)
           f3 == Filter(ServerFees, B)
<1>10. ToSet(fp) \subseteq T /\ ToSet(pay) \subseteq T /\ ToSet(ServerFees) \subseteq T
  BY <1>6
<1>11. B = {e \in T : e.addr.xpub = m.pub}
  OBVIOUS
<1> HIDE DEF T, B
<1>12. Filter(t, B) = f1 \o (f2 \o f3)
  <2>1. Filter(t, B) = Filter(fp, B) \o Filter(pay \o ServerFees, B)
    <3> DEFINE d == pay \o ServerFees
    <3>1. t = fp \o d /\ d \in Seq(T)
      BY <1>4, <1>7
    <3> HIDE DEF d
    <3>2. Filter(fp \o d, B) = Filter(fp, B) \o Filter(d, B)
      BY <1>7, <3>1, FilterJoined, SMTT(30)
    <3> QED
      BY <3>1, <3>2 DEF d
  <2>2. Filter(pay \o ServerFees, B) = Filter(pay, B) \o Filter(ServerFees, B)
    BY <1>7, FilterJoined
  <2> QED
    BY <2>1, <2>2
<1>13. f1 \in Seq(T) /\ f2 \in Seq(T)
  BY <1>7, FilterKeeps
<1>14. Total(f2) = Role[m.pid].payment
  <2>1. \A e \in ToSet(pay) : e \in B <=> e.addr.xpub = m.pub
    BY <1>10, <1>11
  <2> QED
    BY <2>1, PaymentIsTheRoles DEF pay
<1>15. f3 = <<>>
  <2>1. ToSet(ServerFees) \cap B = {}
    BY <1>1, <1>3, <1>11
  <2> QED
    BY <1>7, <2>1, FilterNothing
<1>16. Total(f1) = Total(filter_path(label, Role[m.pid].paths))
  <2> DEFINE C == PathsBy(m.pub)
  <2>1. \A e \in ToSet(fp) : e \in B <=> e \in C
    BY <1>8, <1>10, <1>11 DEF PathsBy
  <2> HIDE DEF C
  <2>2. Filter(fp, B) = Filter(fp, C)
    BY <1>5, <2>1, FilterAlike
  <2>3. Filter(Filter(ps, On(label)), C) = Filter(ps, On(label) \cap C)
    BY <1>1, FilterTwice
  <2> QED
    BY <1>2, <2>2, <2>3 DEF C, ps
<1>17. Total(f1) \in Int /\ Total(f2) \in Int
  BY <1>9, <1>13, TotalInt
<1>18. Total(f1 \o f2) = Total(f1) + Total(f2)
  BY <1>9, <1>13, TotalJoined
<1>19. f2 \o f3 = f2
  <2> HIDE DEF f2, f3
  <2> QED
    BY <1>13, <1>15
<1> HIDE DEF f1, f2, f3
<1>20. Total(Filter(t, B)) = Role[m.pid].payment + Total(filter_path(label, Role[m.pid].paths))
  BY <1>12, <1>14, <1>16, <1>17, <1>18, <1>19
<1> QED
  BY <1>20 DEF t, T, B, ps, pay

\* A contract pays out its value and the fees of the server on each path, and
\* each member what the role asks for, unless a payment of somebody who left
\* is among them (contract/util.ts:93-112, validation/proposal.ts:66-85).
THEOREM ContractsPayRoles ==
  ASSUME RolesOnly
  PROVE  Spec => []OutputsPayRoles
<1>1. IInv /\ Kept(session) => OutputsPayRoles
  <2> DEFINE Value(vout, to) ==
               SumFunction([e \in {x \in DOMAIN vout : x.addr.xpub \in to} |-> vout[e] * e.value])
             Payees(vout) == {e.addr.xpub : e \in DOMAIN vout}
  <2> SUFFICES ASSUME IInv, Kept(session), contract # NULL, NEW label \in DOMAIN contract.outputs
               PROVE  LET vout == contract.outputs[label] IN
                      /\ Value(vout, Payees(vout)) = contract.subtotal
                      /\ NoLeftover(session.proposal.payments, session.members) =>
                           \A m \in ToSet(session.members) :
                             Value(vout, {m.pub})
                               = Role[m.pid].payment + Total(filter_path(label, Role[m.pid].paths))
    BY DEF OutputsPayRoles
  <2> DEFINE p == session.proposal
             out == create_spend_templates(p, ServerFees)
             vout == get_path_vouts(label, p.paths, p.payments \o ServerFees)
             fp == filter_path(label, p.paths)
             t == Paying(label, p.paths, p.payments \o ServerFees)
  <2>1. Seated(session) /\ PathsKept(session) /\ PaymentsKept(session)
    BY DEF IInv, Kept
  <2>2. /\ contract.outputs = out /\ contract.subtotal = p.value + Total(ServerFees)
        /\ check_payments(p)
    <3> DEFINE req == publish_session(session)
    <3>1. contract = create_contract(req, ServerFees, now) /\ verify_publish_req(req, now)
      BY DEF IInv, Published
    <3>2. req.proposal = p
      BY DEF publish_session
    <3> HIDE DEF req, p
    <3> QED
      BY <3>1, <3>2 DEF create_contract, verify_publish_req, verify_proposal_data, get_pay_total
  <2>3. label \in get_path_names(p.paths) /\ contract.outputs[label] = vout
    BY <2>2 DEF create_spend_templates
  <2>4. Total(fp) + Total(p.payments) = p.value
    <3> HIDE DEF p
    <3> QED
      BY <2>2, <2>3 DEF check_payments, get_path_total, get_pay_total
  <2>5. /\ p.paths \in Seq(Path) /\ p.payments \in Seq(Payment) /\ IsList(ServerFees)
        /\ \A e \in ToSet(ServerFees) : e.value \in Int
    BY <2>1, FeesAssumption DEF PathsKept, PaymentsKept, IsList
  <2> HIDE DEF p
  <2>6. /\ IsList(p.paths) /\ IsList(p.payments) /\ IsList(p.payments \o ServerFees)
        /\ IsList(fp) /\ ToSet(fp) \subseteq ToSet(p.paths)
        /\ ToSet(p.payments \o ServerFees) = ToSet(p.payments) \cup ToSet(ServerFees)
    BY <2>5, Lists, ListsJoined, ListsFiltered DEF filter_path
  <2>7. Valued(ToSet(p.paths)) /\ Valued(ToSet(p.payments \o ServerFees))
    <3>1. ToSet(p.paths) \subseteq Path /\ ToSet(p.payments) \subseteq Payment
      BY <2>5 DEF ToSet
    <3> QED
      BY <2>5, <2>6, <3>1 DEF Valued, Path, Payment
  <2>8. /\ IsList(t) /\ Valued(ToSet(t))
        /\ {e.addr : e \in DOMAIN vout} = {e.addr : e \in ToSet(t)}
        /\ \A to : Value(vout, to) = Total(Filter(t, {e \in ToSet(t) : e.addr.xpub \in to}))
    <3>1. \A to : Pays(label, p.paths, p.payments \o ServerFees, to)
      BY <2>6, <2>7, TemplatePays
    <3> QED
      BY <3>1 DEF Pays
  <2>9. Value(vout, Payees(vout)) = p.value + Total(ServerFees)
    <3> DEFINE T == ToSet(t)
               to == Payees(vout)
    <3>1. {e \in T : e.addr.xpub \in to} = T
      BY <2>8
    <3>2. t \in Seq(T) /\ Filter(t, T) = t
      <4>1. t \in Seq(T)
        BY <2>8 DEF IsList
      <4> HIDE DEF T
      <4> QED
        BY <4>1, FilterAll
    <3>3. Value(vout, to) = Total(t)
      BY <2>8, <3>1, <3>2
    <3>4. t = fp \o (p.payments \o ServerFees) /\ T = ToSet(fp) \cup ToSet(p.payments) \cup ToSet(ServerFees)
      <4>1. t = fp \o (p.payments \o ServerFees)
        BY DEF Paying
      <4> HIDE DEF t, fp
      <4> QED
        BY <2>6, <4>1, ListsJoined
    <3>5. fp \in Seq(T) /\ p.payments \in Seq(T) /\ ServerFees \in Seq(T) /\ p.payments \o ServerFees \in Seq(T)
      <4> HIDE DEF fp, t
      <4>1. /\ fp \in Seq(ToSet(fp)) /\ p.payments \in Seq(ToSet(p.payments))
            /\ ServerFees \in Seq(ToSet(ServerFees))
            /\ ToSet(fp) \subseteq T /\ ToSet(p.payments) \subseteq T /\ ToSet(ServerFees) \subseteq T
        BY <2>5, <2>6, <3>4 DEF IsList
      <4> HIDE DEF T
      <4>2. fp \in Seq(T) /\ p.payments \in Seq(T) /\ ServerFees \in Seq(T)
        BY <4>1
      <4> QED
        BY <4>2
    <3> HIDE DEF T, fp
    <3>6. /\ Total(fp) \in Int /\ Total(p.payments) \in Int /\ Total(ServerFees) \in Int
          /\ Total(p.payments \o ServerFees) = Total(p.payments) + Total(ServerFees)
          /\ Total(fp \o (p.payments \o ServerFees)) = Total(fp) + Total(p.payments \o ServerFees)
      <4>1. Valued(T)
        BY <2>8 DEF T
      <4> QED
        BY <3>5, <4>1, TotalInt, TotalJoined
    <3> HIDE DEF t, to
    <3>7. Value(vout, to) = p.value + Total(ServerFees)
      <4> HIDE DEF Value, vout
      <4> QED
        BY <2>4, <3>3, <3>4, <3>6
    <3> QED
      BY <3>7 DEF to
  <2>10. ASSUME NoLeftover(session.proposal.payments, session.members), NEW m \in ToSet(session.members)
         PROVE  Value(vout, {m.pub})
                  = Role[m.pid].payment + Total(filter_path(label, Role[m.pid].paths))
    BY <2>1, <2>8, <2>10, MemberIsPaid DEF p
  <2> QED
    BY <2>2, <2>3, <2>9, <2>10
<1> QED
  BY <1>1, Invariance, AlwaysKept, PTL
=============================================================================
