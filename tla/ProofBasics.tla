----------------------------- MODULE ProofBasics -----------------------------
(***************************************************************************)
(* Lemmas that the proofs share.  Induction: the theorems of the library   *)
(* take the property as an operator, which the provers cannot instantiate; *)
(* here it is a set, and a loop is a function.  Queues: what Append, Tail, *)
(* SubSeq and concatenation do to the elements.                            *)
(***************************************************************************)
EXTENDS SequencesExt, SequenceTheorems, WellFoundedInduction, TLAPS

\* A nonempty set of numbers has a smallest one.
LEMMA Smallest ==
    ASSUME NEW T, T \subseteq Nat, T # {}
    PROVE  \E x \in T : \A y \in T : x <= y
<1> DEFINE R == OpToRel(<, Nat)
<1>1. IsWellFoundedOn(R, Nat)
  BY NatLessThanWellFounded
<1>2. \A x, y \in Nat : y < x => <<y, x>> \in R
  BY DEF OpToRel
<1>3. \E x \in T : \A y \in T : ~ (<<y, x>> \in R)
  <2> HIDE DEF R
  <2>1. T \subseteq Nat /\ T # {}
    OBVIOUS
  <2> QED BY <1>1, <2>1, WFMin
<1> HIDE DEF R
<1>4. PICK x \in T : \A y \in T : ~ (<<y, x>> \in R)
  BY <1>3
<1>5. \A y \in T : x \in Nat /\ y \in Nat /\ ~ (y < x)
  BY <1>2, <1>4
<1>6. \A y \in T : x <= y
  BY <1>5
<1> QED BY <1>6

\* A set with 0 and the successor of each of its numbers has every number.
LEMMA SetInduction ==
    ASSUME NEW S, 0 \in S, \A n \in Nat : n \in S => n + 1 \in S
    PROVE  Nat \subseteq S
<1>1. SUFFICES ASSUME Nat \ S # {} PROVE FALSE
  OBVIOUS
<1>2. PICK x \in Nat \ S : \A y \in Nat \ S : x <= y
  <2> DEFINE T == Nat \ S
  <2>1. T \subseteq Nat /\ T # {}
    BY <1>1
  <2>2. \E x \in T : \A y \in T : x <= y
    <3> HIDE DEF T
    <3> QED BY <2>1, Smallest
  <2> QED BY <2>2
<1>3. x # 0 /\ x - 1 \in Nat /\ (x - 1) + 1 = x /\ ~ (x <= x - 1)
  BY <1>2
<1> QED BY <1>2, <1>3

\* Induction from a to b.
LEMMA IntervalInduction ==
    ASSUME NEW S, NEW a \in Nat, NEW b \in Nat, a \in S,
           \A n \in a..b : n \in S /\ n < b => n + 1 \in S
    PROVE  a..b \subseteq S
<1> DEFINE T == { n \in Nat : a + n <= b => a + n \in S }
<1>1. 0 \in T
  OBVIOUS
<1>2. ASSUME NEW n \in Nat, n \in T
      PROVE  n + 1 \in T
  <2>1. SUFFICES ASSUME a + (n + 1) <= b PROVE a + (n + 1) \in S
    OBVIOUS
  <2>2. a + n \in a..b /\ a + n < b /\ a + n \in S
    BY <1>2, <2>1
  <2> QED BY <2>2
<1>3. Nat \subseteq T
  <2> HIDE DEF T
  <2> QED BY <1>1, <1>2, SetInduction
<1>4. ASSUME NEW n \in a..b
      PROVE  n \in S
  <2>1. n - a \in Nat /\ a + (n - a) = n /\ n <= b
    OBVIOUS
  <2>2. n - a \in T
    BY <2>1, <1>3
  <2> QED BY <2>1, <2>2
<1> QED BY <1>4

\* A loop from a to b that computes each state in S from the one before it.
Runs(S, base, a, b, step) ==
    { f \in [a..b -> S] : f[a] = base /\ \A i \in a+1..b : f[i] = step[i][f[i-1]] }

\* Such a loop has a run.
LEMMA LoopExists ==
    ASSUME NEW S, NEW base, NEW a, NEW b, NEW step,
           base \in S, a \in Nat, b \in Nat, a <= b,
           step \in [a+1..b -> [S -> S]]
    PROVE  Runs(S, base, a, b, step) # {}
<1> DEFINE T == { n \in Nat : Runs(S, base, a, n, step) # {} }
<1> USE DEF Runs
<1>1. a \in T
  <2>1. [i \in a..a |-> base] \in Runs(S, base, a, a, step)
    OBVIOUS
  <2> QED BY <2>1
<1>2. ASSUME NEW n \in a..b, n \in T, n < b
      PROVE  n + 1 \in T
  <2>1. PICK f \in Runs(S, base, a, n, step) : TRUE
    BY <1>2
  <2>2. n \in Nat /\ n + 1 \in Nat /\ n + 1 \in a+1..b /\ n \in a..n
    BY <1>2
  <2>3. f \in [a..n -> S] /\ f[n] \in S
    BY <2>1, <2>2
  <2>4. step[n+1] \in [S -> S] /\ step[n+1][f[n]] \in S
    BY <2>2, <2>3
  <2> DEFINE g == [i \in a..n+1 |-> IF i = n+1 THEN step[n+1][f[n]] ELSE f[i]]
  <2>5. g \in [a..n+1 -> S]
    BY <2>2, <2>3, <2>4
  <2>6. ASSUME NEW i \in a+1..n+1
        PROVE  g[i] = step[i][g[i-1]]
    <3>1. CASE i = n+1
      <4>1. i - 1 = n /\ n \in a..n+1 /\ n # n+1
        BY <2>2, <3>1
      <4>2. g[i-1] = f[n]
        BY <4>1
      <4> QED BY <3>1, <4>2
    <3>2. CASE i # n+1
      <4>1. i \in a+1..n
        BY <2>2, <3>2
      <4>2. f[i] = step[i][f[i-1]]
        BY <2>1, <4>1
      <4>3. g[i] = f[i] /\ g[i-1] = f[i-1]
        BY <2>2, <4>1
      <4> QED BY <4>2, <4>3
    <3> QED BY <3>1, <3>2
  <2>7. g[a] = base
    BY <2>1, <2>2
  <2>8. g \in Runs(S, base, a, n+1, step)
    BY <2>5, <2>6, <2>7
  <2> QED BY <2>2, <2>8
<1>3. b \in T
  <2> HIDE DEF T
  <2>1. a..b \subseteq T
    BY <1>1, <1>2, IntervalInduction
  <2> QED BY <2>1
<1> QED BY <1>3

-------------------------------------------------------------------------------
\* The elements of a queue and whether it holds one twice.
LEMMA QueueElements ==
    ASSUME NEW S, NEW q \in Seq(S)
    PROVE  /\ ToSet(q) = { q[i] : i \in 1..Len(q) }
           /\ ToSet(q) \subseteq S
           /\ IsInjective(q) <=> \A i, j \in 1..Len(q) : q[i] = q[j] => i = j
BY DEF ToSet, IsInjective

LEMMA QueueAppend ==
    ASSUME NEW S, NEW q \in Seq(S), NEW x \in S
    PROVE  /\ ToSet(Append(q, x)) = ToSet(q) \cup {x}
           /\ IsInjective(q) /\ x \notin ToSet(q) => IsInjective(Append(q, x))
<1> DEFINE r == Append(q, x)
<1>1. /\ r \in Seq(S) /\ Len(q) \in Nat /\ Len(r) = Len(q) + 1
      /\ \A i \in 1..Len(q) : r[i] = q[i]
      /\ r[Len(q) + 1] = x
  OBVIOUS
<1> HIDE DEF r
<1>2. 1..Len(r) = 1..Len(q) \cup {Len(q) + 1}
  BY <1>1
<1>3. /\ ToSet(q) = { q[i] : i \in 1..Len(q) }
      /\ ToSet(r) = { r[i] : i \in 1..Len(r) }
  BY <1>1, QueueElements
<1>4. ToSet(r) = ToSet(q) \cup {x}
  <2>1. ASSUME NEW y \in ToSet(r) PROVE y \in ToSet(q) \cup {x}
    BY <1>1, <1>2, <1>3
  <2>2. ASSUME NEW y \in ToSet(q) PROVE y \in ToSet(r)
    BY <1>1, <1>2, <1>3
  <2>3. x \in ToSet(r)
    BY <1>1, <1>2, <1>3
  <2> QED BY <2>1, <2>2, <2>3
<1>5. ASSUME IsInjective(q), x \notin ToSet(q)
      PROVE  IsInjective(r)
  <2>1. \A i \in 1..Len(q) : r[i] # x
    BY <1>1, <1>3, <1>5
  <2>2. \A i, j \in 1..Len(q) : q[i] = q[j] => i = j
    BY <1>5, QueueElements
  <2>3. ASSUME NEW i \in 1..Len(r), NEW j \in 1..Len(r), r[i] = r[j]
        PROVE  i = j
    BY <1>1, <1>2, <2>1, <2>2, <2>3
  <2> QED BY <1>1, <2>3, QueueElements
<1> QED BY <1>4, <1>5 DEF r

LEMMA QueueTail ==
    ASSUME NEW S, NEW q \in Seq(S), q # <<>>
    PROVE  /\ Tail(q) \in Seq(S)
           /\ Head(q) \in ToSet(q)
           /\ ToSet(Tail(q)) \subseteq ToSet(q)
           /\ IsInjective(q) => /\ IsInjective(Tail(q))
                                /\ ToSet(Tail(q)) = ToSet(q) \ {Head(q)}
<1> DEFINE r == Tail(q)
<1>1. /\ r \in Seq(S) /\ Len(q) \in Nat \ {0} /\ Len(r) = Len(q) - 1
      /\ \A i \in 1..Len(r) : r[i] = q[i+1]
      /\ Head(q) = q[1]
  OBVIOUS
<1> HIDE DEF r
<1>2. \A i \in 1..Len(r) : i + 1 \in 1..Len(q) /\ i + 1 # 1
  BY <1>1
<1>3. \A i \in 1..Len(q) : i # 1 => i - 1 \in 1..Len(r) /\ (i - 1) + 1 = i
  BY <1>1
<1>4. /\ ToSet(q) = { q[i] : i \in 1..Len(q) }
      /\ ToSet(r) = { r[i] : i \in 1..Len(r) }
  BY <1>1, QueueElements
<1>5. 1 \in 1..Len(q) /\ Head(q) \in ToSet(q)
  BY <1>1, <1>4
<1>6. ToSet(r) \subseteq ToSet(q)
  BY <1>1, <1>2, <1>4
<1>7. ASSUME IsInjective(q)
      PROVE  /\ IsInjective(r)
             /\ ToSet(r) = ToSet(q) \ {Head(q)}
  <2>1. \A i, j \in 1..Len(q) : q[i] = q[j] => i = j
    BY <1>7, QueueElements
  <2>2. ASSUME NEW i \in 1..Len(r), NEW j \in 1..Len(r), r[i] = r[j]
        PROVE  i = j
    <3>1. i + 1 = j + 1
      BY <1>1, <1>2, <2>1, <2>2
    <3> QED BY <3>1
  <2>3. IsInjective(r)
    BY <1>1, <2>2, QueueElements
  <2>4. Head(q) \notin ToSet(r)
    BY <1>1, <1>2, <1>4, <1>5, <2>1
  <2>5. ASSUME NEW y \in ToSet(q), y # Head(q)
        PROVE  y \in ToSet(r)
    <3>1. PICK i \in 1..Len(q) : y = q[i]
      BY <1>4
    <3>2. i # 1
      BY <1>1, <2>5, <3>1
    <3>3. r[i-1] = y
      BY <1>1, <1>3, <3>1, <3>2
    <3> QED BY <1>3, <1>4, <3>2, <3>3
  <2> QED BY <1>6, <2>3, <2>4, <2>5
<1> QED BY <1>1, <1>5, <1>6, <1>7 DEF r

\* What is left when the end of a queue is lost.
LEMMA QueuePrefix ==
    ASSUME NEW S, NEW q \in Seq(S), NEW n \in 0..Len(q)
    PROVE  /\ SubSeq(q, 1, n) \in Seq(S)
           /\ Len(SubSeq(q, 1, n)) = n
           /\ \A i \in 1..n : i \in 1..Len(q) /\ SubSeq(q, 1, n)[i] = q[i]
OBVIOUS

\* The elements of two queues, one after the other.
LEMMA QueueConcat ==
    ASSUME NEW S, NEW p \in Seq(S), NEW q \in Seq(S)
    PROVE  /\ p \o q \in Seq(S)
           /\ Len(p \o q) = Len(p) + Len(q)
           /\ \A i \in 1..Len(p) : (p \o q)[i] = p[i]
           /\ \A i \in 1..Len(q) : (p \o q)[Len(p) + i] = q[i]
OBVIOUS

\* A queue without its first element.
LEMMA QueueRest ==
    ASSUME NEW S, NEW q \in Seq(S), q # <<>>
    PROVE  /\ Tail(q) \in Seq(S) /\ Len(q) \in Nat /\ 1 \in 1..Len(q)
           /\ Head(q) = q[1] /\ Head(q) \in S
           /\ Len(Tail(q)) = Len(q) - 1
           /\ \A i \in 1..Len(Tail(q)) : i + 1 \in 1..Len(q) /\ Tail(q)[i] = q[i + 1]
OBVIOUS

LEMMA QueueSplit ==
    ASSUME NEW S, NEW q \in Seq(S), q # <<>>
    PROVE  Range(q) = Range(Tail(q)) \cup {Head(q)}
<1> DEFINE r == Tail(q)
<1>1. /\ r \in Seq(S) /\ Len(q) \in Nat /\ 1 \in 1..Len(q) /\ Head(q) = q[1]
      /\ Len(r) = Len(q) - 1
      /\ \A i \in 1..Len(r) : i + 1 \in 1..Len(q) /\ r[i] = q[i + 1]
  BY QueueRest
<1> HIDE DEF r
<1>2. /\ Range(q) = { q[i] : i \in 1..Len(q) }
      /\ Range(r) = { r[i] : i \in 1..Len(r) }
  BY <1>1, RangeEquality
<1>3. \A i \in 1..Len(q) : i # 1 => i - 1 \in 1..Len(r) /\ (i - 1) + 1 = i
  BY <1>1
<1>4. \A i \in 1..Len(q) : i # 1 => i - 1 \in 1..Len(r) /\ r[i - 1] = q[i]
  BY <1>1, <1>3
<1>5. Range(r) \subseteq Range(q) /\ Head(q) \in Range(q)
  BY <1>1, <1>2
<1>6. ASSUME NEW y \in Range(q), y # Head(q) PROVE y \in Range(r)
  <2>1. PICK i \in 1..Len(q) : q[i] = y
    BY <1>2
  <2>2. i # 1
    BY <1>1, <1>6, <2>1
  <2> QED BY <1>2, <1>4, <2>1, <2>2
<1> QED BY <1>5, <1>6 DEF r
==============================================================================
