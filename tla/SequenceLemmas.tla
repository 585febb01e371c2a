--------------------------- MODULE SequenceLemmas ---------------------------
(***************************************************************************)
(* What the proofs about queues need of sequences: which elements Append,  *)
(* Tail and concatenation leave, and that they keep numbers in order.      *)
(***************************************************************************)
EXTENDS Integers, Sequences, Functions, SequenceTheorems, TLAPS

(* The numbers of s grow. *)
Ascending(s) == \A i, j \in DOMAIN s : i < j => s[i] < s[j]

(* Append adds one element. *)
LEMMA RangeOfAppend ==
  ASSUME NEW S, NEW s \in Seq(S), NEW m \in S
  PROVE  Range(Append(s, m)) = Range(s) \union {m}
<1>1. Append(s, m) = s \o <<m>> /\ <<m>> \in Seq(S)
  BY AppendIsConcat
<1>2. Range(<<m>>) = {m}
  BY DEF Range
<1>3. Range(s \o <<m>>) = Range(s) \union Range(<<m>>)
  BY <1>1, RangeConcatenation
<1> QED
  BY <1>1, <1>2, <1>3

(* The elements of a sequence are its head and those of its tail. *)
LEMMA RangeOfTail ==
  ASSUME NEW S, NEW s \in Seq(S), s # << >>
  PROVE  /\ Range(s) = {Head(s)} \union Range(Tail(s))
         /\ s = <<Head(s)>> \o Tail(s)
<1>1. Tail(s) \in Seq(S) /\ Head(s) \in S /\ <<Head(s)>> \in Seq(S)
  OBVIOUS
<1>2. s = <<Head(s)>> \o Tail(s)
  OBVIOUS
<1>3. Range(<<Head(s)>>) = {Head(s)}
  BY DEF Range
<1>4. Range(<<Head(s)>> \o Tail(s)) = Range(<<Head(s)>>) \union Range(Tail(s))
  BY <1>1, RangeConcatenation
<1> QED
  BY <1>2, <1>3, <1>4

(* A function joined from two grows if both do and the first stays below the
   second. *)
LEMMA AscendingJoin ==
  ASSUME NEW m \in Nat, NEW n \in Nat, NEW s \in [1..m -> Nat], NEW t \in [1..n -> Nat],
         NEW u \in [1..(m + n) -> Nat],
         \A i \in 1..m : u[i] = s[i],
         \A i \in 1..n : u[i + m] = t[i]
  PROVE  (\A i, j \in 1..(m + n) : i < j => u[i] < u[j]) <=>
           /\ \A i, j \in 1..m : i < j => s[i] < s[j]
           /\ \A i, j \in 1..n : i < j => t[i] < t[j]
           /\ \A i \in 1..m, j \in 1..n : s[i] < t[j]
<1>1. ASSUME \A i, j \in 1..(m + n) : i < j => u[i] < u[j]
      PROVE  /\ \A i, j \in 1..m : i < j => s[i] < s[j]
             /\ \A i, j \in 1..n : i < j => t[i] < t[j]
             /\ \A i \in 1..m, j \in 1..n : s[i] < t[j]
  <2>1. ASSUME NEW i \in 1..m, NEW j \in 1..m, i < j PROVE s[i] < s[j]
    <3>1. i \in 1..(m+n) /\ j \in 1..(m+n) OBVIOUS
    <3> QED BY <3>1, <2>1, <1>1
  <2>2. ASSUME NEW i \in 1..n, NEW j \in 1..n, i < j PROVE t[i] < t[j]
    <3>1. i + m \in 1..(m+n) /\ j + m \in 1..(m+n) /\ i + m < j + m BY <2>2
    <3>2. u[i + m] < u[j + m] BY <3>1, <1>1
    <3> QED BY <3>2
  <2>3. ASSUME NEW i \in 1..m, NEW j \in 1..n PROVE s[i] < t[j]
    <3>1. i \in 1..(m+n) /\ j + m \in 1..(m+n) /\ i < j + m OBVIOUS
    <3>2. u[i] < u[j + m] BY <3>1, <1>1
    <3> QED BY <3>2
  <2> QED BY <2>1, <2>2, <2>3
<1>2. ASSUME \A i, j \in 1..m : i < j => s[i] < s[j],
             \A i, j \in 1..n : i < j => t[i] < t[j],
             \A i \in 1..m, j \in 1..n : s[i] < t[j],
             NEW i \in 1..(m + n), NEW j \in 1..(m + n), i < j
      PROVE  u[i] < u[j]
  <2>1. CASE j <= m BY <1>2, <2>1
  <2>2. CASE i > m
    <3>1. i - m \in 1..n /\ j - m \in 1..n /\ i - m < j - m /\ i = (i - m) + m /\ j = (j - m) + m
        BY <1>2, <2>2
    <3>2. u[i] = t[i - m] /\ u[j] = t[j - m] BY <3>1
    <3> QED BY <3>1, <3>2, <1>2
  <2>3. CASE i <= m /\ j > m
    <3>1. i \in 1..m /\ j - m \in 1..n /\ j = (j - m) + m BY <1>2, <2>3
    <3>2. u[i] = s[i] /\ u[j] = t[j - m] BY <3>1
    <3> QED BY <3>1, <3>2, <1>2
  <2> QED BY <2>1, <2>2, <2>3
<1> QED BY <1>1, <1>2

(* So does a sequence joined from two. *)
LEMMA AscendingConcat ==
  ASSUME NEW s \in Seq(Nat), NEW t \in Seq(Nat)
  PROVE  Ascending(s \o t) <=>
           /\ Ascending(s)
           /\ Ascending(t)
           /\ \A x \in Range(s), y \in Range(t) : x < y
<1> DEFINE u == s \o t
<1> DEFINE m == Len(s)
<1> DEFINE n == Len(t)
<1>1. /\ m \in Nat /\ s \in [1..m -> Nat]
      /\ n \in Nat /\ t \in [1..n -> Nat]
      /\ u \in [1..(m + n) -> Nat]
      /\ \A i \in 1..m : u[i] = s[i]
      /\ \A i \in 1..n : u[i + m] = t[i]
  <2>1. /\ Len(s) \in Nat /\ s \in [1..Len(s) -> Nat]
        /\ Len(t) \in Nat /\ t \in [1..Len(t) -> Nat]
    BY LenProperties
  <2>2. /\ u \in Seq(Nat) /\ Len(u) = Len(s) + Len(t)
        /\ \A i \in 1..(Len(s) + Len(t)) : u[i] = IF i <= Len(s) THEN s[i] ELSE t[i - Len(s)]
    BY ConcatProperties
  <2>3. u \in [1..Len(u) -> Nat]
    BY <2>2, LenProperties
  <2> HIDE DEF u
  <2>4. ASSUME NEW i \in 1..Len(s) PROVE u[i] = s[i]
    BY <2>1, <2>2
  <2>5. ASSUME NEW i \in 1..Len(t) PROVE u[i + Len(s)] = t[i]
    <3>1. i + Len(s) \in 1..(Len(s) + Len(t)) /\ ~(i + Len(s) <= Len(s))
            /\ (i + Len(s)) - Len(s) = i
      BY <2>1
    <3> QED BY <3>1, <2>2
  <2> QED BY <2>1, <2>2, <2>3, <2>4, <2>5
<1> HIDE DEF u, m, n
<1>2. (\A i, j \in 1..(m + n) : i < j => u[i] < u[j]) <=>
           /\ \A i, j \in 1..m : i < j => s[i] < s[j]
           /\ \A i, j \in 1..n : i < j => t[i] < t[j]
           /\ \A i \in 1..m, j \in 1..n : s[i] < t[j]
  BY <1>1, AscendingJoin
<1>3. DOMAIN s = 1..m /\ DOMAIN t = 1..n /\ DOMAIN u = 1..(m + n)
  BY <1>1
<1>4. (\A x \in Range(s), y \in Range(t) : x < y) <=> (\A i \in 1..m, j \in 1..n : s[i] < t[j])
  BY <1>3 DEF Range
<1> QED BY <1>2, <1>3, <1>4 DEF Ascending, u

(* What is in order stays in order when an element is taken out, and the element
   was below all behind it. *)
LEMMA AscendingWithout ==
  ASSUME NEW s \in Seq(Nat), NEW x \in Nat, NEW t \in Seq(Nat),
         Ascending(s \o (<<x>> \o t))
  PROVE  /\ Ascending(s \o t)
         /\ Range(s \o (<<x>> \o t)) = {x} \union Range(s \o t)
         /\ x \notin Range(s \o t)
         /\ \A y \in Range(t) : x < y
<1> DEFINE r == <<x>> \o t
<1>1. <<x>> \in Seq(Nat) /\ r \in Seq(Nat)
  OBVIOUS
<1>2. Range(<<x>>) = {x}
  BY DEF Range
<1>3. Range(r) = {x} \union Range(t)
  <2>1. Range(<<x>> \o t) = Range(<<x>>) \union Range(t)
    BY <1>1, RangeConcatenation
  <2> QED BY <1>2, <2>1
<1> HIDE DEF r
<1>4. Ascending(r) /\ Ascending(s) /\ \A y \in Range(s), z \in Range(r) : y < z
  <2>1. Ascending(s \o r) BY DEF r
  <2> QED BY <1>1, <2>1, AscendingConcat
<1>5. Ascending(t) /\ \A y \in Range(t) : x < y
  <2>1. Ascending(<<x>> \o t) BY <1>4 DEF r
  <2> QED BY <1>1, <1>2, <2>1, AscendingConcat
<1>6. /\ Range(s \o t) = Range(s) \union Range(t)
      /\ Range(s \o r) = Range(s) \union Range(r)
  BY <1>1, RangeConcatenation
<1>7. Ascending(s \o t)
  BY <1>3, <1>4, <1>5, AscendingConcat
<1>8. Range(s) \subseteq Nat /\ Range(t) \subseteq Nat
  BY RangeOfSeq
<1>9. x \notin Range(s \o t)
  <2>1. x \notin Range(s)
    <3>1. x \in Range(r) BY <1>3
    <3>2. x \in Range(s) => x < x BY <1>4, <3>1
    <3> QED BY <3>2
  <2>2. x \notin Range(t) BY <1>5, <1>8
  <2> QED BY <2>1, <2>2, <1>6
<1> QED
  BY <1>3, <1>5, <1>6, <1>7, <1>9 DEF r

(* The same for all sequences of numbers. *)
LEMMA NumbersConcat ==
  \A s, t \in Seq(Nat) : s \o t \in Seq(Nat) /\ Range(s \o t) = Range(s) \union Range(t)
<1> SUFFICES ASSUME NEW s \in Seq(Nat), NEW t \in Seq(Nat)
             PROVE  s \o t \in Seq(Nat) /\ Range(s \o t) = Range(s) \union Range(t)
  OBVIOUS
<1> QED
  BY RangeConcatenation, ConcatProperties

(* Concatenation is associative. *)
LEMMA NumbersAssociate ==
  \A s, t, u \in Seq(Nat) : (s \o t) \o u = s \o (t \o u)
<1> SUFFICES ASSUME NEW s \in Seq(Nat), NEW t \in Seq(Nat), NEW u \in Seq(Nat)
             PROVE  (s \o t) \o u = s \o (t \o u)
  OBVIOUS
<1> QED
  BY ConcatAssociative

(* Appending a number is a concatenation. *)
LEMMA NumbersAppend ==
  \A s \in Seq(Nat), n \in Nat :
    /\ Append(s, n) = s \o <<n>>
    /\ Append(s, n) \in Seq(Nat)
    /\ Len(s) \in Nat /\ Len(Append(s, n)) = Len(s) + 1
    /\ <<n>> \in Seq(Nat)
    /\ Range(<<n>>) = {n}
    /\ Range(Append(s, n)) = Range(s) \union {n}
<1> SUFFICES ASSUME NEW s \in Seq(Nat), NEW n \in Nat
             PROVE  /\ Append(s, n) = s \o <<n>>
                    /\ Append(s, n) \in Seq(Nat)
                    /\ Len(s) \in Nat /\ Len(Append(s, n)) = Len(s) + 1
                    /\ <<n>> \in Seq(Nat)
                    /\ Range(<<n>>) = {n}
                    /\ Range(Append(s, n)) = Range(s) \union {n}
  OBVIOUS
<1>1. /\ Append(s, n) = s \o <<n>> /\ Append(s, n) \in Seq(Nat)
      /\ Len(s) \in Nat /\ Len(Append(s, n)) = Len(s) + 1
  BY AppendIsConcat, AppendProperties
<1>2. <<n>> \in Seq(Nat) /\ Range(<<n>>) = {n}
  BY DEF Range
<1>3. Range(Append(s, n)) = Range(s) \union {n}
  BY RangeOfAppend
<1> QED
  BY <1>1, <1>2, <1>3

(* A sequence of numbers that is not empty is its head and its tail. *)
LEMMA NumbersTail ==
  \A s \in Seq(Nat) :
    s # << >> =>
      /\ Head(s) \in Nat
      /\ Tail(s) \in Seq(Nat)
      /\ Len(s) \in Nat /\ Len(Tail(s)) = Len(s) - 1
      /\ s = <<Head(s)>> \o Tail(s)
      /\ Range(s) = {Head(s)} \union Range(Tail(s))
<1> SUFFICES ASSUME NEW s \in Seq(Nat), s # << >>
             PROVE  /\ Head(s) \in Nat
                    /\ Tail(s) \in Seq(Nat)
                    /\ Len(s) \in Nat /\ Len(Tail(s)) = Len(s) - 1
                    /\ s = <<Head(s)>> \o Tail(s)
                    /\ Range(s) = {Head(s)} \union Range(Tail(s))
  OBVIOUS
<1>1. /\ Head(s) \in Nat /\ Tail(s) \in Seq(Nat)
      /\ Len(s) \in Nat /\ Len(Tail(s)) = Len(s) - 1
  OBVIOUS
<1>2. /\ s = <<Head(s)>> \o Tail(s)
      /\ Range(s) = {Head(s)} \union Range(Tail(s))
  BY RangeOfTail
<1> QED
  BY <1>1, <1>2
=============================================================================
