----------------------------- MODULE LoopProofs -----------------------------
(***************************************************************************)
(* Induction on numbers, functions defined from one number to the next,    *)
(* and lists, as the proofs about loops need them.  A recursive function   *)
(* of a module is one that exists by Recursion; what its loop keeps is     *)
(* LoopKeeps.  Induction is on a set of numbers.                           *)
(***************************************************************************)
EXTENDS Integers, Sequences, WellFoundedInduction, TLAPS

(***************************************************************************)
(* Numbers                                                                 *)
(***************************************************************************)

(***************************************************************************)
(* Counting and sequences.                                                 *)
(***************************************************************************)

(* A nonempty set of natural numbers has a least one.                      *)
LEMMA LeastNumber ==
    ASSUME NEW T, T \subseteq Nat, T # {}
    PROVE  \E n \in T : \A m \in T : n <= m
<1> DEFINE Below == T
<1>0. Below \subseteq Nat /\ Below # {}
  OBVIOUS
<1> HIDE DEF Below
<1>1. PICK n \in Below : \A m \in Below : ~ (<<m, n>> \in OpToRel(<, Nat))
  BY <1>0, NatLessThanWellFounded, WFMin
<1>2. ASSUME NEW m \in Below PROVE n <= m
  <2>1. ~ (m < n)
    BY <1>0, <1>1 DEF OpToRel
  <2> QED BY <1>0, <2>1
<1> QED BY <1>1, <1>2 DEF Below

(* A nonempty set of numbers up to N has a greatest one.                   *)
LEMMA GreatestNumber ==
    ASSUME NEW N \in Nat, NEW T, T \subseteq 0 .. N, T # {}
    PROVE  \E n \in T : \A m \in T : m <= n
<1> DEFINE Left == {N - n : n \in T}
<1>1. Left \subseteq Nat /\ Left # {}
  <2>1. \A n \in T : N - n \in Nat
    OBVIOUS
  <2>2. PICK n : n \in T
    OBVIOUS
  <2>3. N - n \in Left
    BY <2>2
  <2> QED BY <2>1, <2>3
<1>2. PICK k \in Left : \A m \in Left : k <= m
  BY <1>1, LeastNumber
<1>3. PICK n \in T : k = N - n
  BY <1>2
<1>4. ASSUME NEW m \in T PROVE m <= n
  <2>1. N - m \in Left
    OBVIOUS
  <2>2. N - n <= N - m
    BY <1>2, <1>3, <2>1
  <2> QED BY <2>2
<1> QED BY <1>4

(* What holds of 0, and of n + 1 where it holds of n, holds of every n.    *)
LEMMA Counting ==
    ASSUME NEW T, 0 \in T, \A n \in Nat : n \in T => n + 1 \in T
    PROVE  \A n \in Nat : n \in T
<1> SUFFICES ASSUME Nat \ T # {} PROVE FALSE
  OBVIOUS
<1>1. PICK n \in Nat \ T : \A m \in Nat \ T : n <= m
  BY LeastNumber, Nat \ T \subseteq Nat
<1>2. n - 1 \in Nat /\ n - 1 \notin Nat \ T
  BY <1>1
<1>3. (n - 1) + 1 \in T
  BY <1>2
<1> QED BY <1>3

(* Of some numbers one is the greatest.                                    *)
LEMMA GreatestOfList ==
    ASSUME NEW N \in Nat, N > 0, NEW a, \A i \in 1 .. N : a[i] \in Int
    PROVE  \E i \in 1 .. N : \A j \in 1 .. N : a[j] <= a[i]
<1> DEFINE T == {n \in Nat : 0 < n /\ n <= N => \E i \in 1 .. n : \A j \in 1 .. n : a[j] <= a[i]}
<1>1. 0 \in T
  OBVIOUS
<1>2. ASSUME NEW n \in Nat, n \in T PROVE n + 1 \in T
  <2> SUFFICES ASSUME n + 1 <= N PROVE \E i \in 1 .. (n + 1) : \A j \in 1 .. (n + 1) : a[j] <= a[i]
    OBVIOUS
  <2>0. /\ n + 1 \in 1 .. N /\ n + 1 \in 1 .. (n + 1) /\ a[n + 1] \in Int
        /\ \A j \in 1 .. (n + 1) : j = n + 1 \/ j \in 1 .. n
        /\ \A j \in 1 .. n : j \in 1 .. N /\ j \in 1 .. (n + 1)
    OBVIOUS
  <2>1. CASE n = 0
    <3>1. \A j \in 1 .. (n + 1) : j = n + 1
      BY <2>1
    <3> QED BY <2>0, <3>1
  <2>2. CASE n # 0
    <3>1. PICK i \in 1 .. n : \A j \in 1 .. n : a[j] <= a[i]
      BY <1>2, <2>2
    <3>2. a[i] \in Int /\ \A j \in 1 .. n : a[j] \in Int
      BY <2>0
    <3>3. CASE a[n + 1] <= a[i]
      BY <2>0, <3>1, <3>3
    <3>4. CASE ~ (a[n + 1] <= a[i])
      <4>1. \A j \in 1 .. (n + 1) : a[j] <= a[n + 1]
        BY <2>0, <3>1, <3>2, <3>4
      <4> QED BY <2>0, <4>1
    <3> QED BY <3>3, <3>4
  <2> QED BY <2>1, <2>2
<1>3. \A n \in Nat : n \in T
  <2> HIDE DEF T
  <2> QED BY <1>1, <1>2, Counting
<1> QED BY <1>3

(***************************************************************************)
(* Loops                                                                   *)
(***************************************************************************)

(* Functions of 0 .. N into V, what leads from one value to the next, and  *)
(* a function that goes that way from its first value.                     *)
Runs(V, N) == [0 .. N -> V]
Steps(V, N) == [(1 .. N) \X V -> V]
Unfolds(f, N, first, step) == f[0] = first /\ \A n \in 1 .. N : f[n] = step[<<n, f[n - 1]>>]

(* A function defined at 0, and at n from its value at n - 1, exists.      *)
LEMMA Recursion ==
    ASSUME NEW V, NEW first \in V, NEW N \in Nat, NEW step \in Steps(V, N)
    PROVE  \E f \in Runs(V, N) : Unfolds(f, N, first, step)
<1>0. step \in [(1 .. N) \X V -> V]
  BY DEF Steps
<1> USE <1>0
<1> DEFINE Upto(m) == \E f \in [0 .. m -> V] : f[0] = first /\ \A n \in 1 .. m : f[n] = step[<<n, f[n - 1]>>]
           T == {m \in Nat : m <= N => Upto(m)}
<1>1. 0 \in T
  <2>1. Upto(0)
    <3> WITNESS [n \in 0 .. 0 |-> first] \in [0 .. 0 -> V]
    <3> QED OBVIOUS
  <2> QED BY <2>1
<1>2. ASSUME NEW m \in Nat, m \in T PROVE m + 1 \in T
  <2> SUFFICES ASSUME m + 1 <= N PROVE Upto(m + 1)
    OBVIOUS
  <2>1. PICK f \in [0 .. m -> V] : f[0] = first /\ \A n \in 1 .. m : f[n] = step[<<n, f[n - 1]>>]
    BY <1>2
  <2> DEFINE g == [n \in 0 .. (m + 1) |-> IF n = m + 1 THEN step[<<m + 1, f[m]>>] ELSE f[n]]
  <2>2. <<m + 1, f[m]>> \in (1 .. N) \X V
    OBVIOUS
  <2>3. g \in [0 .. (m + 1) -> V]
    BY <2>2
  <2>4. g[0] = first
    BY <2>1
  <2>5. ASSUME NEW n \in 1 .. (m + 1) PROVE g[n] = step[<<n, g[n - 1]>>]
    <3>1. n - 1 \in 0 .. (m + 1) /\ n \in 0 .. (m + 1) /\ g[n - 1] = f[n - 1]
      OBVIOUS
    <3>2. CASE n = m + 1
      <4>1. n - 1 = m
        BY <3>2
      <4> QED BY <3>1, <3>2, <4>1
    <3>3. CASE n # m + 1
      <4>1. n \in 1 .. m /\ g[n] = f[n]
        BY <3>1, <3>3
      <4> QED BY <2>1, <3>1, <4>1
    <3> QED BY <3>2, <3>3
  <2> HIDE DEF g
  <2> QED BY <2>3, <2>4, <2>5
<1>3. \A m \in Nat : m \in T
  <2> HIDE DEF T
  <2> QED BY <1>1, <1>2, Counting
<1>4. PICK f \in [0 .. N -> V] : f[0] = first /\ \A n \in 1 .. N : f[n] = step[<<n, f[n - 1]>>]
  BY <1>3
<1> QED BY <1>4 DEF Runs, Unfolds

(* A loop over a list: it ends with what holds at its start and is kept by *)
(* each of its turns.                                                      *)
LEMMA LoopKeeps ==
    ASSUME NEW N \in Nat, NEW f, NEW Good,
           <<0, f[0]>> \in Good,
           \A n \in 1 .. N : <<n - 1, f[n - 1]>> \in Good => <<n, f[n]>> \in Good
    PROVE  <<N, f[N]>> \in Good
<1> DEFINE T == {n \in Nat : n <= N => <<n, f[n]>> \in Good}
<1>1. 0 \in T
  OBVIOUS
<1>2. \A n \in Nat : n \in T => n + 1 \in T
  <2> SUFFICES ASSUME NEW n \in Nat, n \in T, n + 1 <= N PROVE <<n + 1, f[n + 1]>> \in Good
    OBVIOUS
  <2>1. n + 1 \in 1 .. N /\ (n + 1) - 1 = n /\ n <= N
    OBVIOUS
  <2> QED BY <2>1
<1> HIDE DEF T
<1>3. N \in T
  BY <1>1, <1>2, Counting
<1> QED BY <1>3 DEF T

(***************************************************************************)
(* Lists                                                                   *)
(***************************************************************************)

(* r is t behind s.                                                        *)
Joins(s, t, r) ==
    /\ Len(r) = Len(s) + Len(t)
    /\ \A k \in 1 .. Len(s) : r[k] = s[k]
    /\ \A k \in 1 .. Len(t) : r[Len(s) + k] = t[k]

LEMMA Joined ==
    ASSUME NEW S, NEW s \in Seq(S), NEW t \in Seq(S)
    PROVE  s \o t \in Seq(S) /\ Joins(s, t, s \o t)
BY DEF Joins

(* What a list names.                                                      *)
NamesOf(s) == {s[i] : i \in 1 .. Len(s)}

LEMMA NamedAppend ==
    ASSUME NEW S, NEW s \in Seq(S), NEW e \in S
    PROVE  Append(s, e) \in Seq(S) /\ NamesOf(Append(s, e)) = NamesOf(s) \cup {e}
<1>1. Append(s, e) \in Seq(S) /\ Len(Append(s, e)) = Len(s) + 1
  OBVIOUS
<1>2. \A i \in 1 .. Len(s) : Append(s, e)[i] = s[i]
  OBVIOUS
<1>3. Append(s, e)[Len(s) + 1] = e
  OBVIOUS
<1>4. 1 .. (Len(s) + 1) = (1 .. Len(s)) \cup {Len(s) + 1}
  OBVIOUS
<1> QED BY <1>1, <1>2, <1>3, <1>4 DEF NamesOf

LEMMA NamedConcat ==
    ASSUME NEW S, NEW s \in Seq(S), NEW t \in Seq(S)
    PROVE  s \o t \in Seq(S) /\ NamesOf(s \o t) = NamesOf(s) \cup NamesOf(t)
<1>1. s \o t \in Seq(S) /\ Len(s \o t) = Len(s) + Len(t)
  OBVIOUS
<1>2. \A i \in 1 .. Len(s) : (s \o t)[i] = s[i]
  OBVIOUS
<1>3. \A i \in 1 .. Len(t) : (s \o t)[Len(s) + i] = t[i]
  OBVIOUS
<1>4. Len(s) \in Nat /\ Len(t) \in Nat
  OBVIOUS
<1>5. \A i \in 1 .. Len(s \o t) : i \in 1 .. Len(s) \/ \E j \in 1 .. Len(t) : i = Len(s) + j
  <2> TAKE i \in 1 .. Len(s \o t)
  <2>1. CASE i <= Len(s)
    BY <1>1, <1>4, <2>1
  <2>2. CASE i > Len(s)
    <3>1. i - Len(s) \in 1 .. Len(t) /\ i = Len(s) + (i - Len(s))
      BY <1>1, <1>4, <2>2
    <3> QED BY <3>1
  <2> QED BY <1>4, <1>1, <2>1, <2>2
<1>6. \A i \in 1 .. Len(s) : i \in 1 .. Len(s \o t)
  BY <1>1, <1>4
<1>7. \A i \in 1 .. Len(t) : Len(s) + i \in 1 .. Len(s \o t)
  BY <1>1, <1>4
<1> HIDE <1>4
<1>8. NamesOf(s \o t) \subseteq NamesOf(s) \cup NamesOf(t)
  BY <1>2, <1>3, <1>5 DEF NamesOf
<1>9. NamesOf(s) \subseteq NamesOf(s \o t) /\ NamesOf(t) \subseteq NamesOf(s \o t)
  <2>1. ASSUME NEW x \in NamesOf(s) PROVE x \in NamesOf(s \o t)
    <3>1. PICK i \in 1 .. Len(s) : x = s[i]
      BY DEF NamesOf
    <3> QED BY <3>1, <1>2, <1>6 DEF NamesOf
  <2>2. ASSUME NEW x \in NamesOf(t) PROVE x \in NamesOf(s \o t)
    <3>1. PICK i \in 1 .. Len(t) : x = t[i]
      BY DEF NamesOf
    <3> QED BY <3>1, <1>3, <1>7 DEF NamesOf
  <2> QED BY <2>1, <2>2
<1> QED BY <1>1, <1>8, <1>9

(* One answer is how another begins.                                       *)
StartsWith(s, t) == Len(s) <= Len(t) /\ \A i \in 1 .. Len(s) : s[i] = t[i]

LEMMA LongerBegins ==
    ASSUME NEW S, NEW s \in Seq(S), NEW t \in Seq(S), NEW e \in S, StartsWith(s, t)
    PROVE  StartsWith(s, Append(t, e))
<1>1. Len(s) \in Nat /\ Len(t) \in Nat /\ Len(Append(t, e)) = Len(t) + 1
  OBVIOUS
<1>2. \A i \in 1 .. Len(t) : Append(t, e)[i] = t[i]
  OBVIOUS
<1>3. \A i \in 1 .. Len(s) : i \in 1 .. Len(t)
  BY <1>1 DEF StartsWith
<1> QED BY <1>1, <1>2, <1>3 DEF StartsWith

LEMMA ConcatAssociative ==
    ASSUME NEW S, NEW s \in Seq(S), NEW t \in Seq(S), NEW u \in Seq(S)
    PROVE  s \o (t \o u) = (s \o t) \o u
OBVIOUS

LEMMA EmptyConcat ==
    ASSUME NEW S, NEW s \in Seq(S)
    PROVE  s \o <<>> = s
OBVIOUS

(* The beginning of an answer, and what is beyond it.                      *)
LEMMA BeginningAndRest ==
    ASSUME NEW S, NEW s \in Seq(S), NEW t \in Seq(S), StartsWith(s, t)
    PROVE  /\ SubSeq(t, 1, Len(s)) = s
           /\ SubSeq(t, Len(s) + 1, Len(t)) \in Seq(S)
           /\ Len(SubSeq(t, Len(s) + 1, Len(t))) = Len(t) - Len(s)
           /\ s \o SubSeq(t, Len(s) + 1, Len(t)) = t
<1>1. Len(s) \in Nat /\ Len(t) \in Nat /\ Len(s) <= Len(t) /\ \A i \in 1 .. Len(s) : s[i] = t[i]
  BY DEF StartsWith
<1>2. SubSeq(t, 1, Len(s)) = s
  <2>1. SubSeq(t, 1, Len(s)) \in Seq(S) /\ Len(SubSeq(t, 1, Len(s))) = Len(s)
    BY <1>1
  <2>2. \A i \in 1 .. Len(s) : SubSeq(t, 1, Len(s))[i] = s[i]
    BY <1>1
  <2> QED BY <2>1, <2>2
<1> DEFINE r == SubSeq(t, Len(s) + 1, Len(t))
<1>3. r \in Seq(S) /\ Len(r) = Len(t) - Len(s) /\ \A i \in 1 .. (Len(t) - Len(s)) : r[i] = t[Len(s) + i]
  BY <1>1
<1> HIDE DEF r
<1>4. s \o r \in Seq(S) /\ Len(s \o r) = Len(t)
  BY <1>1, <1>3
<1>5. \A i \in 1 .. Len(t) : (s \o r)[i] = t[i]
  <2> TAKE i \in 1 .. Len(t)
  <2>1. CASE i <= Len(s)
    <3>1. i \in 1 .. Len(s) /\ (s \o r)[i] = s[i]
      BY <1>1, <1>3, <2>1
    <3> QED BY <1>1, <3>1
  <2>2. CASE i > Len(s)
    <3>1. i - Len(s) \in 1 .. Len(r) /\ Len(s) + (i - Len(s)) = i
      BY <1>1, <1>3, <2>2
    <3>2. (s \o r)[i] = r[i - Len(s)]
      BY <1>1, <1>3, <2>2, <3>1
    <3> QED BY <1>3, <3>1, <3>2
  <2>3. i <= Len(s) \/ i > Len(s)
    BY <1>1
  <2> QED BY <2>1, <2>2, <2>3
<1>6. s \o r = t
  <2> DEFINE d == s \o r
  <2>1. d \in Seq(S) /\ Len(d) = Len(t) /\ \A i \in 1 .. Len(t) : d[i] = t[i]
    BY <1>4, <1>5
  <2> HIDE DEF d
  <2>2. d = t
    BY <2>1
  <2> QED BY <2>2 DEF d
<1> QED BY <1>2, <1>3, <1>6 DEF r

=============================================================================
