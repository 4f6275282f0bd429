------------------------------ MODULE TextProofs ------------------------------
(***************************************************************************)
(* Proofs about LatexText, for any tokens, environments, logs and files of *)
(* a project: that an error of the log leads to its place, that the words  *)
(* that are spell-checked are those of the prose, and that environments    *)
(* are marked when they are not nested.                                    *)
(*                                                                         *)
(* What a text or a log says is computed by functions that are defined     *)
(* from one number to the next, and by folds. The first lemmas show that   *)
(* these functions exist, and give an induction over the numbers up to n   *)
(* that takes a set instead of an operator.                                *)
(*                                                                         *)
(* The argument for the words: the modes that are kept from line to line   *)
(* agree with those that are kept from token to token at the end of every  *)
(* line, since a line of prose leaves the single dollars paired and a      *)
(* marked line is one token.                                               *)
(*                                                                         *)
(* The argument for the environments counts, for each name, the \begin, the*)
(* \end and what is on the stack: an \end that finds its name takes one    *)
(* from the stack, so as long as each finds one the stack holds the        *)
(* difference. In a nested text no prefix has more \end than \begin, for   *)
(* each \end has a partner before it; and that a line stacks all its \begin*)
(* first can only put more on the stack.                                   *)
(*                                                                         *)
(* The argument for the issues: above the main file the stack holds the    *)
(* files that are still open, each at the height of the depth at which it  *)
(* was opened, so the last one is on top; the issue of a line is found at  *)
(* the number of lines up to it that have one; and of the paths that end   *)
(* in the one of the log the longest is found. The timer of the last click *)
(* runs off last.                                                          *)
(***************************************************************************)
EXTENDS LatexText, FiniteSetTheorems, SequenceTheorems, WellFoundedInduction, TLAPS

---------------------------------------------------------------------------
(* Induction, and functions defined by it.                                 *)

LEMMA MinOfNaturals ==
  ASSUME NEW S \in SUBSET Nat, S # {}
  PROVE  Min(S) \in S /\ \A n \in S : Min(S) <= n
<1> DEFINE R == OpToRel(<, Nat)
<1>1. IsWellFoundedOn(R, Nat)
  BY NatLessThanWellFounded
<1>2. \E m \in S : \A n \in S : ~ (<<n, m>> \in R)
  <2> HIDE DEF R
  <2> QED
    BY <1>1, WFMin
<1>3. PICK m \in S : \A n \in S : ~ (<<n, m>> \in R)
  BY <1>2
<1>4. \A n \in S : m <= n
  <2> SUFFICES ASSUME NEW n \in S PROVE m <= n
    OBVIOUS
  <2>1. n < m => <<n, m>> \in R
    BY DEF OpToRel
  <2>2. n \in Nat /\ m \in Nat /\ ~ (n < m)
    BY <1>3, <2>1
  <2>3. QED
    BY <2>2
<1>5. QED
  BY <1>4 DEF Min

\* What holds of 0 and passes from k to k + 1 holds up to n.
LEMMA Induct ==
  ASSUME NEW n \in Nat, NEW S, 0 \in S, \A k \in 0..(n - 1) : k \in S => k + 1 \in S
  PROVE  \A k \in 0..n : k \in S
<1> DEFINE T == {k \in 0..n : k \notin S}
<1> SUFFICES ASSUME T # {} PROVE FALSE
  OBVIOUS
<1>1. T \in SUBSET Nat
  OBVIOUS
<1>2. PICK m \in T : \A k \in T : m <= k
  BY <1>1, MinOfNaturals
<1>3. m # 0 /\ m - 1 \in 0..(n - 1) /\ m - 1 + 1 = m
  OBVIOUS
<1>4. m - 1 \notin T
  BY <1>2, <1>3
<1>5. QED
  BY <1>3, <1>4

LEMMA MaxOfRange ==
  ASSUME NEW k \in Nat, NEW s \in SUBSET (1..(k + 1)), k + 1 \in s
  PROVE  Max(s) = k + 1
<1>1. \A y \in s : k + 1 >= y
  OBVIOUS
<1>2. \A x \in s : (\A y \in s : x >= y) => x = k + 1
  OBVIOUS
<1>3. QED
  BY <1>1, <1>2 DEF Max

LEMMA MaxInRange ==
  ASSUME NEW n \in Nat, NEW s \in SUBSET (1..n), s # {}
  PROVE  Max(s) \in s /\ \A y \in s : Max(s) >= y
<1> DEFINE T == {n - y : y \in s}
<1>1. T \in SUBSET Nat /\ T # {}
  <2>1. \A y \in s : n - y \in Nat
    OBVIOUS
  <2>2. QED
    BY <2>1
<1>2. PICK m \in T : \A y \in T : m <= y
  BY <1>1, MinOfNaturals
<1>3. PICK x \in s : m = n - x
  BY <1>2
<1>4. ASSUME NEW y \in s PROVE x >= y
  <2>1. n - x <= n - y
    BY <1>2, <1>3
  <2>2. QED
    BY <2>1
<1>5. QED
  BY <1>4 DEF Max

\* FoldLeft steps from a set of numbers to that without its greatest one.
Folds(f, n, base, h) ==
  f = [s \in SUBSET (1..n) |-> IF s = {} THEN base ELSE h[<<f[s \ {Max(s)}], Max(s)>>]]

LEMMA FoldExists ==
  ASSUME NEW n \in Nat, NEW V, NEW base \in V, NEW h \in [V \X (1..n) -> V]
  PROVE  \E f \in [SUBSET (1..n) -> V] : Folds(f, n, base, h)
<1> DEFINE Rec(f, k) == Folds(f, k, base, h)
           S == {k \in 0..n : \E f \in [SUBSET (1..k) -> V] : Rec(f, k)}
<1> USE DEF Folds
<1>1. 0 \in S
  <2> DEFINE f == [s \in SUBSET (1..0) |-> base]
  <2>1. \A s \in SUBSET (1..0) : s = {}
    OBVIOUS
  <2>2. f \in [SUBSET (1..0) -> V] /\ Rec(f, 0)
    BY <2>1
  <2>3. QED
    BY <2>2
<1>2. ASSUME NEW k \in 0..(n - 1), k \in S PROVE k + 1 \in S
  <2>1. PICK f \in [SUBSET (1..k) -> V] : Rec(f, k)
    BY <1>2
  <2> DEFINE g == [s \in SUBSET (1..(k + 1)) |->
                     IF k + 1 \in s THEN h[<<f[s \ {k + 1}], k + 1>>] ELSE f[s]]
  <2>2. \A s \in SUBSET (1..(k + 1)) : s \ {k + 1} \in SUBSET (1..k) /\ (k + 1 \notin s => s \in SUBSET (1..k))
    OBVIOUS
  <2>3. k + 1 \in 1..n
    OBVIOUS
  <2>4. g \in [SUBSET (1..(k + 1)) -> V]
    BY <2>2, <2>3
  <2>5. ASSUME NEW s \in SUBSET (1..(k + 1))
        PROVE  g[s] = IF s = {} THEN base ELSE h[<<g[s \ {Max(s)}], Max(s)>>]
    <3>1. CASE k + 1 \in s
      <4>1. Max(s) = k + 1
        BY <3>1, MaxOfRange
      <4>2. g[s \ {k + 1}] = f[s \ {k + 1}]
        BY <2>2
      <4>3. QED
        BY <3>1, <4>1, <4>2
    <3>2. CASE k + 1 \notin s /\ s # {}
      <4>1. s \in SUBSET (1..k)
        BY <2>2, <3>2
      <4>2. f[s] = h[<<f[s \ {Max(s)}], Max(s)>>]
        BY <2>1, <3>2, <4>1
      <4>3. g[s \ {Max(s)}] = f[s \ {Max(s)}]
        BY <3>2
      <4>4. QED
        BY <3>2, <4>2, <4>3
    <3>3. CASE s = {}
      BY <2>1, <3>3
    <3>4. QED
      BY <3>1, <3>2, <3>3
  <2>6. Rec(g, k + 1)
    BY <2>5
  <2>7. k + 1 \in 0..n
    OBVIOUS
  <2> HIDE DEF Rec, g
  <2>8. QED
    BY <2>4, <2>6, <2>7
<1>3. n \in S
  <2> HIDE DEF S
  <2>1. \A k \in 0..n : k \in S
    BY <1>1, <1>2, Induct
  <2>2. QED
    BY <2>1
<1>4. \E f \in [SUBSET (1..n) -> V] : Rec(f, n)
  <2> HIDE DEF Rec
  <2> QED
    BY <1>3
<1>5. QED
  BY <1>4

\* Max and the rest of the first numbers.
LEMMA FirstNumbers ==
  ASSUME NEW k \in Nat
  PROVE  Max(1..(k + 1)) = k + 1 /\ (1..(k + 1)) \ {k + 1} = 1..k /\ 1..(k + 1) # {}
<1>1. k + 1 \in 1..(k + 1) /\ (1..(k + 1)) \ {k + 1} = 1..k
  OBVIOUS
<1>2. QED
  BY <1>1, MaxOfRange

\* A function that is defined from one number to the next.
Chains(f, n, base, h) == f = [i \in 0..n |-> IF i = 0 THEN base ELSE h[<<f[i - 1], i>>]]

LEMMA ChainExists ==
  ASSUME NEW n \in Nat, NEW V, NEW base \in V, NEW h \in [V \X (1..n) -> V]
  PROVE  \E f \in [0..n -> V] : Chains(f, n, base, h)
<1> DEFINE Rec(f, k) == Chains(f, k, base, h)
           S == {k \in 0..n : \E f \in [0..k -> V] : Rec(f, k)}
<1> USE DEF Chains
<1>1. 0 \in S
  <2> DEFINE f == [i \in 0..0 |-> base]
  <2>1. f \in [0..0 -> V] /\ Rec(f, 0)
    OBVIOUS
  <2>2. \E e \in [0..0 -> V] : Rec(e, 0)
    <3> HIDE DEF f, Rec
    <3> QED
      BY <2>1
  <2>3. 0 \in 0..n
    OBVIOUS
  <2> HIDE DEF Rec
  <2>4. QED
    BY <2>2, <2>3
<1>2. ASSUME NEW k \in 0..(n - 1), k \in S PROVE k + 1 \in S
  <2>1. PICK f \in [0..k -> V] : Rec(f, k)
    BY <1>2
  <2> DEFINE g == [i \in 0..(k + 1) |-> IF i # k + 1 THEN f[i] ELSE h[<<f[k], k + 1>>]]
  <2>2. k + 1 \in 1..n /\ k \in 0..k /\ \A i \in 0..(k + 1) : i # k + 1 => i \in 0..k
    OBVIOUS
  <2>3. g \in [0..(k + 1) -> V]
    BY <2>2
  <2>4. ASSUME NEW i \in 0..(k + 1)
        PROVE  g[i] = IF i = 0 THEN base ELSE h[<<g[i - 1], i>>]
    <3>1. CASE i = k + 1
      <4>1. i # 0 /\ i - 1 = k /\ i - 1 \in 0..(k + 1) /\ i - 1 # k + 1
        BY <3>1
      <4>2. g[i] = h[<<f[k], k + 1>>] /\ g[i - 1] = f[k]
        BY <3>1, <4>1
      <4>3. QED
        BY <3>1, <4>1, <4>2
    <3>2. CASE i # k + 1
      <4>1. f[i] = IF i = 0 THEN base ELSE h[<<f[i - 1], i>>]
        BY <2>1, <2>2, <3>2
      <4>2. i # 0 => i - 1 \in 0..(k + 1) /\ i - 1 # k + 1
        BY <3>2
      <4>3. QED
        BY <3>2, <4>1, <4>2
    <3>3. QED
      BY <3>1, <3>2
  <2>5. Rec(g, k + 1)
    BY <2>4
  <2>6. k + 1 \in 0..n
    OBVIOUS
  <2> HIDE DEF Rec, g
  <2>7. QED
    BY <2>3, <2>5, <2>6
<1>3. n \in S
  <2> HIDE DEF S
  <2>1. \A k \in 0..n : k \in S
    BY <1>1, <1>2, Induct
  <2>2. QED
    BY <2>1
<1>4. \E f \in [0..n -> V] : Rec(f, n)
  <2> HIDE DEF Rec
  <2> QED
    BY <1>3
<1>5. QED
  BY <1>4

---------------------------------------------------------------------------
(* Sequences put one behind the other.                                     *)

Flattens(f, n, ss) == f = [i \in 1..n |-> IF i = 1 THEN ss[i] ELSE f[i - 1] \o ss[i]]

LEMMA FlattenExists ==
  ASSUME NEW T, NEW n \in Nat, NEW ss \in [1..n -> Seq(T)]
  PROVE  \E f \in [1..n -> Seq(T)] : Flattens(f, n, ss)
<1> DEFINE Rec(f, k) == Flattens(f, k, ss)
           S == {k \in 0..n : \E f \in [1..k -> Seq(T)] : Rec(f, k)}
<1> USE DEF Flattens
<1>1. 0 \in S
  <2> DEFINE f == [i \in 1..0 |-> <<>>]
  <2>1. f \in [1..0 -> Seq(T)] /\ Rec(f, 0)
    OBVIOUS
  <2>2. \E e \in [1..0 -> Seq(T)] : Rec(e, 0)
    <3> HIDE DEF f, Rec
    <3> QED
      BY <2>1
  <2>3. 0 \in 0..n
    OBVIOUS
  <2> HIDE DEF Rec
  <2>4. QED
    BY <2>2, <2>3
<1>2. ASSUME NEW k \in 0..(n - 1), k \in S PROVE k + 1 \in S
  <2>1. PICK f \in [1..k -> Seq(T)] : Rec(f, k)
    BY <1>2
  <2> DEFINE g == [i \in 1..(k + 1) |->
                     IF i # k + 1 THEN f[i] ELSE IF k = 0 THEN ss[1] ELSE f[k] \o ss[k + 1]]
  <2>2. k + 1 \in 1..n /\ (k # 0 => k \in 1..k) /\ \A i \in 1..(k + 1) : i # k + 1 => i \in 1..k
    OBVIOUS
  <2>3. g \in [1..(k + 1) -> Seq(T)]
    BY <2>2
  <2>4. ASSUME NEW i \in 1..(k + 1)
        PROVE  g[i] = IF i = 1 THEN ss[i] ELSE g[i - 1] \o ss[i]
    <3>1. CASE i = k + 1
      BY <2>1, <2>2, <3>1
    <3>2. CASE i # k + 1
      <4>1. f[i] = IF i = 1 THEN ss[i] ELSE f[i - 1] \o ss[i]
        BY <2>1, <2>2, <3>2
      <4>2. i # 1 => i - 1 \in 1..(k + 1) /\ i - 1 # k + 1
        BY <3>2
      <4>3. QED
        BY <3>2, <4>1, <4>2
    <3>3. QED
      BY <3>1, <3>2
  <2>5. Rec(g, k + 1)
    BY <2>4
  <2>6. k + 1 \in 0..n
    OBVIOUS
  <2> HIDE DEF Rec, g
  <2>7. QED
    BY <2>3, <2>5, <2>6
<1>3. n \in S
  <2> HIDE DEF S
  <2>1. \A k \in 0..n : k \in S
    BY <1>1, <1>2, Induct
  <2>2. QED
    BY <2>1
<1>4. \E f \in [1..n -> Seq(T)] : Rec(f, n)
  <2> HIDE DEF Rec
  <2> QED
    BY <1>3
<1>5. QED
  BY <1>4

LEMMA Joined ==
  ASSUME NEW T, NEW a \in Seq(T), NEW b \in Seq(T)
  PROVE  /\ a \o b \in Seq(T) /\ Len(a \o b) = Len(a) + Len(b)
         /\ ToSet(a) \subseteq ToSet(a \o b) /\ ToSet(b) \subseteq ToSet(a \o b)
<1>1. /\ a \o b \in Seq(T) /\ Len(a \o b) = Len(a) + Len(b)
      /\ \A i \in 1..Len(a) : (a \o b)[i] = a[i]
      /\ \A i \in 1..Len(b) : (a \o b)[Len(a) + i] = b[i]
  OBVIOUS
<1>2. ASSUME NEW i \in DOMAIN a PROVE a[i] \in ToSet(a \o b)
  <2>1. i \in DOMAIN (a \o b)
    BY <1>1
  <2>2. (a \o b)[i] = a[i]
    BY <1>1
  <2>3. QED
    BY <2>1, <2>2 DEF ToSet
<1>3. ASSUME NEW i \in DOMAIN b PROVE b[i] \in ToSet(a \o b)
  <2>1. Len(a) + i \in DOMAIN (a \o b)
    BY <1>1
  <2>2. (a \o b)[Len(a) + i] = b[i]
    BY <1>1
  <2>3. QED
    BY <2>1, <2>2 DEF ToSet
<1>4. QED
  BY <1>1, <1>2, <1>3 DEF ToSet

---------------------------------------------------------------------------
(* Prose, token by token.                                                  *)

ProseStates == [verbatim : BOOLEAN, depth : Nat, display : BOOLEAN, inline : BOOLEAN,
                commented : BOOLEAN, words : SUBSET (Nat \X Nat)]
ProseStart == [verbatim |-> FALSE, depth |-> 0, display |-> FALSE, inline |-> FALSE,
               commented |-> FALSE, words |-> {}]
ProseStep(s, line, n, i) ==
  LET k == line[i][1]  name == line[i][2] IN
  IF s.commented THEN s
  ELSE IF s.verbatim THEN [s EXCEPT !.verbatim = ~(k = "end" /\ name \in Verbatim)]
  ELSE IF k = "begin" /\ name \in Verbatim THEN [s EXCEPT !.verbatim = TRUE]
  ELSE IF k = "begin" /\ name \in Math THEN [s EXCEPT !.depth = @ + 1]
  ELSE IF k = "end" /\ name \in Math /\ s.depth > 0 THEN [s EXCEPT !.depth = @ - 1]
  ELSE IF s.depth > 0 THEN s
  ELSE IF k = "comment" THEN [s EXCEPT !.commented = TRUE]
  ELSE IF k = "dollars" THEN [s EXCEPT !.display = ~@]
  ELSE IF k = "dollar" THEN [s EXCEPT !.inline = ~@]
  ELSE IF k = "word" /\ ~s.display /\ ~s.inline THEN [s EXCEPT !.words = @ \cup {<<n, i>>}]
  ELSE s

\* The states along a line, and those behind the lines.
Along(p, line, n) ==
  CHOOSE f : f = [i \in 0..Len(line) |->
                    IF i = 0 THEN [p EXCEPT !.commented = FALSE] ELSE ProseStep(f[i - 1], line, n, i)]
Behind(p, line, n) == Along(p, line, n)[Len(line)]
Prose(lines) ==
  CHOOSE f : f = [n \in 0..Len(lines) |->
                    IF n = 0 THEN ProseStart ELSE Behind(f[n - 1], lines[n], n)]

LEMMA ProseIsRead ==
  ASSUME NEW lines
  PROVE  ProseWords(lines) = Prose(lines)[Len(lines)].words
BY DEF ProseWords, Prose, Behind, Along, ProseStep, ProseStart

LEMMA ProseStepType ==
  ASSUME NEW s \in ProseStates, NEW line, NEW n \in Nat, NEW i \in Nat
  PROVE  ProseStep(s, line, n, i) \in ProseStates
<1> DEFINE k == line[i][1]
           name == line[i][2]
<1>1. [s EXCEPT !.verbatim = ~(k = "end" /\ name \in Verbatim)] \in ProseStates
  BY DEF ProseStates
<1>2. [s EXCEPT !.verbatim = TRUE] \in ProseStates /\ [s EXCEPT !.commented = TRUE] \in ProseStates
  BY DEF ProseStates
<1>3. /\ [s EXCEPT !.depth = @ + 1] \in ProseStates
      /\ s.depth > 0 => [s EXCEPT !.depth = @ - 1] \in ProseStates
  <2>1. s.depth \in Nat /\ s.depth + 1 \in Nat /\ (s.depth > 0 => s.depth - 1 \in Nat)
    BY DEF ProseStates
  <2>2. \A d \in Nat : [s EXCEPT !.depth = d] \in ProseStates
    BY DEF ProseStates
  <2>3. QED
    BY <2>1, <2>2
<1>4. [s EXCEPT !.display = ~@] \in ProseStates /\ [s EXCEPT !.inline = ~@] \in ProseStates
  BY DEF ProseStates
<1>5. [s EXCEPT !.words = @ \cup {<<n, i>>}] \in ProseStates
  BY DEF ProseStates
<1> HIDE DEF k, name
<1>6. QED
  BY <1>1, <1>2, <1>3, <1>4, <1>5 DEF ProseStep, k, name

LEMMA AlongALine ==
  ASSUME NEW p \in ProseStates, NEW line \in Seq(Tokens), NEW n \in Nat
  PROVE  /\ Along(p, line, n)[0] = [p EXCEPT !.commented = FALSE]
         /\ \A i \in 1..Len(line) :
              Along(p, line, n)[i] = ProseStep(Along(p, line, n)[i - 1], line, n, i)
         /\ \A i \in 0..Len(line) : Along(p, line, n)[i] \in ProseStates
<1> DEFINE m == Len(line)
           base == [p EXCEPT !.commented = FALSE]
           Eq(f) == f = [i \in 0..Len(line) |-> IF i = 0 THEN base ELSE ProseStep(f[i - 1], line, n, i)]
           h == [q \in ProseStates \X (1..m) |-> ProseStep(q[1], line, n, q[2])]
           along == Along(p, line, n)
           S == {i \in 0..m : along[i] \in ProseStates}
<1>1. m \in Nat
  OBVIOUS
<1>2. base \in ProseStates
  BY DEF ProseStates
<1>3. h \in [ProseStates \X (1..m) -> ProseStates]
  BY <1>1, ProseStepType
<1>4. \E f : Eq(f)
  <2>1. PICK f \in [0..m -> ProseStates] : Chains(f, m, base, h)
    <3> HIDE DEF base, h, m
    <3> QED
      BY <1>1, <1>2, <1>3, ChainExists
  <2>2. ASSUME NEW i \in 0..m, i # 0
        PROVE  h[<<f[i - 1], i>>] = ProseStep(f[i - 1], line, n, i)
    <3>1. i \in 1..m /\ i - 1 \in 0..m
      BY <1>1, <2>2
    <3>2. QED
      BY <3>1
  <2> HIDE DEF h
  <2>3. Eq(f)
    BY <2>1, <2>2 DEF Chains
  <2>4. QED
    BY <2>3
<1>5. Eq(along)
  <2>1. along = CHOOSE f : Eq(f)
    BY DEF Along
  <2> HIDE DEF Eq, along
  <2>2. QED
    BY <1>4, <2>1
<1> HIDE DEF along, h, base
<1>6. along[0] = base
  BY <1>1, <1>5
<1>7. ASSUME NEW i \in 1..m PROVE along[i] = ProseStep(along[i - 1], line, n, i)
  <2>1. i \in 0..m /\ i # 0
    BY <1>1
  <2>2. QED
    BY <1>5, <2>1
<1>8. 0 \in S
  BY <1>1, <1>2, <1>6
<1>9. ASSUME NEW i \in 0..(m - 1), i \in S PROVE i + 1 \in S
  <2>1. i + 1 \in 1..m /\ i + 1 \in 0..m /\ (i + 1) - 1 = i
    BY <1>1
  <2>2. along[i + 1] = ProseStep(along[i], line, n, i + 1)
    BY <1>7, <2>1
  <2>3. QED
    BY <1>9, <2>1, <2>2, ProseStepType
<1>10. \A i \in 0..m : i \in S
  <2> HIDE DEF S
  <2> QED
    BY <1>1, <1>8, <1>9, Induct
<1>11. QED
  BY <1>6, <1>7, <1>10 DEF along, base

---------------------------------------------------------------------------
(* What is read of a line.                                                 *)

\* How many tokens of a kind are among the first i of a line.
Among(kind, line, i) == Count(kind, SubSeq(line, 1, i))

LEMMA AmongType ==
  ASSUME NEW kind, NEW line \in Seq(Tokens), NEW i \in 0..Len(line)
  PROVE  Among(kind, line, i) \in Nat
<1> DEFINE at == {j \in DOMAIN SubSeq(line, 1, i) : Is(kind, SubSeq(line, 1, i)[j])}
<1>1. at \subseteq 1..i /\ IsFiniteSet(1..i)
  BY FS_Interval
<1>2. IsFiniteSet(at)
  BY <1>1, FS_Subset
<1>3. Cardinality(at) \in Nat
  BY <1>2, FS_CardinalityType
<1>4. QED
  BY <1>3 DEF Among, Count

LEMMA AmongStep ==
  ASSUME NEW kind, NEW line \in Seq(Tokens)
  PROVE  /\ Among(kind, line, 0) = 0
         /\ Count(kind, line) = Among(kind, line, Len(line))
         /\ \A i \in 0..(Len(line) - 1) :
              Among(kind, line, i + 1) = Among(kind, line, i) + IF Is(kind, line[i + 1]) THEN 1 ELSE 0
<1> DEFINE Places(i) == {j \in 1..i : Is(kind, line[j])}
<1>1. ASSUME NEW i \in 0..Len(line) PROVE Among(kind, line, i) = Cardinality(Places(i))
  <2>1. DOMAIN SubSeq(line, 1, i) = 1..i /\ \A j \in 1..i : SubSeq(line, 1, i)[j] = line[j]
    OBVIOUS
  <2>2. {j \in DOMAIN SubSeq(line, 1, i) : Is(kind, SubSeq(line, 1, i)[j])} = Places(i)
    BY <2>1
  <2>3. QED
    BY <2>2 DEF Among, Count
<1>2. Among(kind, line, 0) = 0
  <2>1. Places(0) = {} /\ 0 \in 0..Len(line)
    OBVIOUS
  <2>2. QED
    BY <1>1, <2>1, FS_EmptySet
<1>3. Count(kind, line) = Among(kind, line, Len(line))
  <2>1. DOMAIN line = 1..Len(line) /\ Len(line) \in 0..Len(line)
    OBVIOUS
  <2>2. QED
    BY <1>1, <2>1 DEF Count
<1>4. ASSUME NEW i \in 0..(Len(line) - 1)
      PROVE  Among(kind, line, i + 1) = Among(kind, line, i) + IF Is(kind, line[i + 1]) THEN 1 ELSE 0
  <2>1. i \in 0..Len(line) /\ i + 1 \in 0..Len(line) /\ 1..(i + 1) = (1..i) \cup {i + 1} /\ i + 1 \notin 1..i
    OBVIOUS
  <2>2. IsFiniteSet(Places(i))
    <3>1. IsFiniteSet(1..i) /\ Places(i) \subseteq 1..i
      BY <2>1, FS_Interval
    <3>2. QED
      BY <3>1, FS_Subset
  <2>3. CASE Is(kind, line[i + 1])
    <3>1. Places(i + 1) = Places(i) \cup {i + 1} /\ i + 1 \notin Places(i)
      BY <2>1, <2>3
    <3> HIDE DEF Places
    <3>2. Cardinality(Places(i + 1)) = Cardinality(Places(i)) + 1
      BY <2>2, <3>1, FS_AddElement
    <3>3. QED
      BY <1>1, <2>1, <2>3, <3>2
  <2>4. CASE ~Is(kind, line[i + 1])
    <3>1. Places(i + 1) = Places(i)
      BY <2>1, <2>4
    <3>2. Among(kind, line, i) \in Nat
      BY <2>1, AmongType
    <3> HIDE DEF Places
    <3>3. QED
      BY <1>1, <2>1, <2>4, <3>1, <3>2
  <2>5. QED
    BY <2>3, <2>4
<1>5. QED
  BY <1>2, <1>3, <1>4

\* One more turns even into odd, and odd into even.
LEMMA Parity ==
  ASSUME NEW n \in Nat
  PROVE  n % 2 \in {0, 1} /\ ((n + 1) % 2 = 1 <=> n % 2 = 0)
OBVIOUS

\* A line up to its comment.
LEMMA CleanLine ==
  ASSUME NEW line \in Seq(Tokens)
  PROVE  LET text == WithoutComment(line) IN
         /\ text \in Seq(Tokens) /\ Len(text) \in 0..Len(line)
         /\ \A j \in 1..Len(text) : text[j] = line[j] /\ ~Is("comment", line[j])
         /\ Len(text) < Len(line) => Is("comment", line[Len(text) + 1])
<1> DEFINE text == WithoutComment(line)
           comments == {j \in 1..Len(line) : Is("comment", line[j])}
           at == SelectInSeq(line, LAMBDA t : Is("comment", t))
<1>1. at = IF comments # {} THEN Min(comments) ELSE 0
  BY DEF SelectInSeq
<1>2. text = IF at = 0 THEN line ELSE SubSeq(line, 1, at - 1)
  BY DEF WithoutComment
<1> HIDE DEF text, at
<1>3. CASE comments = {}
  BY <1>1, <1>2, <1>3 DEF text
<1>4. CASE comments # {}
  <2>1. at \in comments /\ \A j \in comments : at <= j
    <3>1. comments \in SUBSET Nat
      OBVIOUS
    <3> HIDE DEF comments
    <3>2. QED
      BY <1>1, <1>4, <3>1, MinOfNaturals
  <2>2. at \in 1..Len(line) /\ Is("comment", line[at])
    BY <2>1
  <2>3. text = SubSeq(line, 1, at - 1)
    BY <1>2, <2>2
  <2>4. Len(text) = at - 1 /\ text \in Seq(Tokens) /\ \A j \in 1..(at - 1) : text[j] = line[j]
    BY <2>2, <2>3
  <2>5. ASSUME NEW j \in 1..(at - 1) PROVE ~Is("comment", line[j])
    BY <2>1, <2>2
  <2> HIDE DEF comments
  <2>6. QED
    BY <2>2, <2>4, <2>5 DEF text
<1>5. QED
  BY <1>3, <1>4

Plain(line) == \A i \in 1..Len(line) : line[i][1] \notin {"begin", "end", "dollars"}

\* The words among the first i tokens that are outside of single dollars.
Clear(text, i) == {j \in 1..i : Is("word", text[j]) /\ Among("dollar", text, j - 1) % 2 = 0}

LEMMA ClearStep ==
  ASSUME NEW text \in Seq(Tokens), NEW i \in 0..(Len(text) - 1)
  PROVE  Clear(text, i + 1) =
           IF Is("word", text[i + 1]) /\ Among("dollar", text, i) % 2 = 0
           THEN Clear(text, i) \cup {i + 1} ELSE Clear(text, i)
<1>1. 1..(i + 1) = (1..i) \cup {i + 1} /\ (i + 1) - 1 = i
  OBVIOUS
<1>2. QED
  BY <1>1 DEF Clear

\* Of a line with pairs of dollars, what is unmasked is clear.
LEMMA UnmaskedIsClear ==
  ASSUME NEW line \in Seq(Tokens), Count("dollar", WithoutComment(line)) % 2 = 0
  PROVE  Unmasked(line) = Clear(WithoutComment(line), Len(WithoutComment(line)))
<1> DEFINE text == WithoutComment(line)
<1>1. text \in Seq(Tokens) /\ DOMAIN text = 1..Len(text)
  BY CleanLine
<1>2. QED
  BY <1>1 DEF Unmasked, Clear, Among

\* One step through a plain line of prose.
PlainlyRead(s, t, line, n, i) ==
  /\ ~t.verbatim /\ t.depth = 0 /\ t.display = s.display
  /\ t.commented <=> Is("comment", line[i])
  /\ t.inline <=> (IF Is("dollar", line[i]) THEN ~s.inline ELSE s.inline)
  /\ t.words = IF Is("word", line[i]) /\ ~s.display /\ ~s.inline
               THEN s.words \cup {<<n, i>>} ELSE s.words

LEMMA PlainStep ==
  ASSUME NEW s \in ProseStates, NEW line, NEW n \in Nat, NEW i \in Nat,
         line[i][1] \notin {"begin", "end", "dollars"}, ~s.commented, ~s.verbatim, s.depth = 0,
         NEW t, t = ProseStep(s, line, n, i)
  PROVE  PlainlyRead(s, t, line, n, i)
<1> USE DEF PlainlyRead
<1> DEFINE k == line[i][1]
<1>1. t = IF k = "comment" THEN [s EXCEPT !.commented = TRUE]
          ELSE IF k = "dollar" THEN [s EXCEPT !.inline = ~@]
          ELSE IF k = "word" /\ ~s.display /\ ~s.inline THEN [s EXCEPT !.words = @ \cup {<<n, i>>}]
          ELSE s
  BY DEF ProseStep
<1> HIDE DEF k
<1>2. s.depth \in Nat /\ s = [s EXCEPT !.depth = s.depth]
  BY DEF ProseStates
<1>3. CASE k = "comment"
  BY <1>1, <1>3 DEF ProseStates, Is, k
<1>4. CASE k = "dollar"
  BY <1>1, <1>4 DEF ProseStates, Is, k
<1>5. CASE k = "word"
  BY <1>1, <1>5 DEF ProseStates, Is, k
<1>6. CASE k \notin {"comment", "dollar", "word"}
  BY <1>1, <1>6 DEF ProseStates, Is, k
<1>7. QED
  BY <1>3, <1>4, <1>5, <1>6

LEMMA PlainLine ==
  ASSUME NEW p \in ProseStates, NEW line \in Seq(Tokens), NEW n \in Nat, Plain(line),
         ~p.verbatim, p.depth = 0, ~p.inline, Count("dollar", WithoutComment(line)) % 2 = 0,
         NEW q, q = Behind(p, line, n)
  PROVE  /\ ~q.verbatim /\ q.depth = 0 /\ q.display = p.display /\ ~q.inline
         /\ q.words = p.words \cup IF p.display THEN {} ELSE {n} \X Unmasked(line)
<1> DEFINE m == Len(line)
           text == WithoutComment(line)
           e == Len(text)
           along == Along(p, line, n)
           upTo(i) == IF i <= e THEN i ELSE e
           Good(i) == /\ ~along[i].verbatim /\ along[i].depth = 0
                      /\ along[i].display = p.display /\ (along[i].commented <=> i > e)
                      /\ along[i].inline <=> Among("dollar", text, upTo(i)) % 2 = 1
                      /\ along[i].words = p.words \cup IF p.display THEN {} ELSE {n} \X Clear(text, upTo(i))
           S == {i \in 0..m : Good(i)}
<1>1. /\ m \in Nat /\ text \in Seq(Tokens) /\ e \in 0..m
      /\ \A j \in 1..e : text[j] = line[j] /\ ~Is("comment", line[j])
      /\ e < m => Is("comment", line[e + 1])
  BY CleanLine
<1>2. /\ along[0] = [p EXCEPT !.commented = FALSE]
      /\ \A i \in 1..m : along[i] = ProseStep(along[i - 1], line, n, i)
      /\ \A i \in 0..m : along[i] \in ProseStates
  BY AlongALine
<1> HIDE DEF along, text
<1>0. m \in Nat /\ e \in Nat /\ e <= m
  BY <1>1
<1>3. 0 \in S
  <2>1. Among("dollar", text, 0) = 0 /\ 0 % 2 # 1
    BY <1>1, AmongStep
  <2>2. Clear(text, 0) = {}
    BY DEF Clear
  <2>3. {n} \X {} = {}
    OBVIOUS
  <2>4. upTo(0) = 0 /\ ~(0 > e) /\ 0 \in 0..m
    BY <1>1
  <2>5. QED
    BY <1>2, <2>1, <2>2, <2>3, <2>4 DEF ProseStates
<1>4. ASSUME NEW i \in 0..(m - 1), i \in S PROVE i + 1 \in S
  <2>1. i \in 0..m /\ i + 1 \in 1..m /\ i + 1 \in 0..m /\ (i + 1) - 1 = i /\ i + 1 \in Nat
    BY <1>1
  <2>2. along[i + 1] = ProseStep(along[i], line, n, i + 1) /\ along[i] \in ProseStates
    BY <1>2, <2>1
  <2>3. Good(i)
    BY <1>4
  <2>4. CASE i > e
    <3>1. along[i + 1] = along[i]
      BY <2>2, <2>3, <2>4 DEF ProseStep
    <3>2. i + 1 > e /\ upTo(i + 1) = upTo(i)
      BY <1>1, <2>1, <2>4
    <3>3. QED
      BY <2>1, <2>3, <2>4, <3>1, <3>2
  <2>5. CASE i <= e
    <3> DEFINE s == along[i]
               t == along[i + 1]
    <3>1. ~s.commented /\ ~s.verbatim /\ s.depth = 0
      BY <1>0, <2>1, <2>3, <2>5
    <3>2. line[i + 1][1] \notin {"begin", "end", "dollars"}
      BY <2>1 DEF Plain
    <3>3. /\ ~t.verbatim /\ t.depth = 0 /\ t.display = s.display
          /\ t.commented <=> Is("comment", line[i + 1])
          /\ t.inline <=> (IF Is("dollar", line[i + 1]) THEN ~s.inline ELSE s.inline)
          /\ t.words = IF Is("word", line[i + 1]) /\ ~s.display /\ ~s.inline
                       THEN s.words \cup {<<n, i + 1>>} ELSE s.words
      <4>1. t = ProseStep(s, line, n, i + 1) /\ s \in ProseStates
        BY <2>2
      <4>2. i + 1 \in Nat
        BY <2>1
      <4> HIDE DEF s, t
      <4>3. PlainlyRead(s, t, line, n, i + 1)
        BY <3>1, <3>2, <4>1, <4>2, PlainStep
      <4>4. QED
        BY <4>3 DEF PlainlyRead
    <3>4. CASE i = e
      <4>1. Is("comment", line[i + 1]) /\ ~Is("dollar", line[i + 1]) /\ ~Is("word", line[i + 1])
        BY <1>1, <2>1, <3>4 DEF Is
      <4>2. upTo(i + 1) = upTo(i) /\ i + 1 > e
        <5> HIDE DEF m, e
        <5> QED
          BY <1>0, <2>1, <3>4
      <4>3. QED
        BY <2>1, <2>3, <3>3, <4>1, <4>2
    <3>5. CASE i < e
      <4>1. i + 1 \in 1..e /\ i \in 0..(e - 1) /\ i \in 0..e
        BY <1>1, <2>1, <3>5
      <4>2. text[i + 1] = line[i + 1] /\ ~Is("comment", line[i + 1])
        BY <1>1, <4>1
      <4>3. upTo(i + 1) = i + 1 /\ upTo(i) = i /\ ~(i + 1 > e)
        BY <1>1, <4>1
      <4> DEFINE d == Among("dollar", text, i)
                 d1 == Among("dollar", text, i + 1)
      <4>4. d \in Nat /\ d1 = d + IF Is("dollar", line[i + 1]) THEN 1 ELSE 0
        <5>1. text \in Seq(Tokens) /\ i \in 0..Len(text) /\ i \in 0..(Len(text) - 1)
          BY <1>1, <4>1
        <5>2. d \in Nat
          BY <5>1, AmongType
        <5>3. d1 = d + IF Is("dollar", text[i + 1]) THEN 1 ELSE 0
          BY <5>1, AmongStep
        <5>4. QED
          BY <4>2, <5>2, <5>3
      <4>5. s.inline <=> d % 2 = 1
        BY <2>3, <4>3
      <4>6. t.inline <=> d1 % 2 = 1
        <5> HIDE DEF d, d1, s, t
        <5>1. d % 2 \in {0, 1} /\ ((d + 1) % 2 = 1 <=> d % 2 = 0)
          BY <4>4, Parity
        <5>2. CASE Is("dollar", line[i + 1])
          <6>1. d1 = d + 1 /\ (t.inline <=> ~s.inline)
            BY <3>3, <4>4, <5>2
          <6>2. d % 2 = 0 <=> ~(d % 2 = 1)
            BY <5>1
          <6>3. QED
            BY <4>5, <5>1, <6>1, <6>2
        <5>3. CASE ~Is("dollar", line[i + 1])
          <6>1. d1 = d /\ (t.inline <=> s.inline)
            BY <3>3, <4>4, <5>3
          <6>2. QED
            BY <4>5, <6>1
        <5>4. QED
          BY <5>2, <5>3
      <4>7. t.words = p.words \cup IF p.display THEN {} ELSE {n} \X Clear(text, i + 1)
        <5>1. s.words = p.words \cup IF p.display THEN {} ELSE {n} \X Clear(text, i)
          BY <2>3, <4>3
        <5>2. s.display = p.display
          BY <2>3
        <5>3. Clear(text, i + 1) = IF Is("word", line[i + 1]) /\ d % 2 = 0
                                   THEN Clear(text, i) \cup {i + 1} ELSE Clear(text, i)
          BY <1>1, <4>1, <4>2, ClearStep
        <5>4. (d % 2 = 0) <=> ~s.inline
          <6> HIDE DEF d, s
          <6>1. d % 2 \in {0, 1}
            BY <4>4, Parity
          <6>2. QED
            BY <4>5, <6>1
        <5> HIDE DEF d, s, t
        <5>5. \A X : {n} \X (X \cup {i + 1}) = ({n} \X X) \cup {<<n, i + 1>>}
          OBVIOUS
        <5>6. CASE p.display
          BY <3>3, <5>1, <5>2, <5>6
        <5>7. CASE ~p.display /\ Is("word", line[i + 1]) /\ d % 2 = 0
          <6>1. t.words = s.words \cup {<<n, i + 1>>}
            BY <3>3, <5>2, <5>4, <5>7
          <6>2. {n} \X Clear(text, i + 1) = ({n} \X Clear(text, i)) \cup {<<n, i + 1>>}
            BY <5>3, <5>5, <5>7
          <6>3. s.words = p.words \cup ({n} \X Clear(text, i))
            BY <5>1, <5>7
          <6>4. QED
            BY <5>7, <6>1, <6>2, <6>3
        <5>8. CASE ~p.display /\ ~(Is("word", line[i + 1]) /\ d % 2 = 0)
          <6>1. t.words = s.words
            BY <3>3, <5>2, <5>4, <5>8
          <6>2. QED
            BY <5>1, <5>3, <5>8, <6>1
        <5>9. QED
          BY <5>6, <5>7, <5>8
      <4>8. Good(i + 1)
        BY <2>3, <3>3, <4>2, <4>3, <4>6, <4>7
      <4>9. QED
        BY <2>1, <4>8
    <3>6. i < e \/ i = e
      BY <1>0, <2>1, <2>5
    <3>7. QED
      BY <3>4, <3>5, <3>6
  <2>6. i > e \/ i <= e
    BY <1>0, <2>1
  <2>7. QED
    BY <2>4, <2>5, <2>6
<1>5. m \in S
  <2>1. \A i \in 0..m : i \in S
    <3> HIDE DEF S
    <3> QED
      BY <1>1, <1>3, <1>4, Induct
  <2>2. m \in 0..m
    BY <1>1
  <2>3. QED
    BY <2>1, <2>2
<1>6. upTo(m) = e
  BY <1>1
<1>7. Among("dollar", text, e) % 2 = 0
  BY <1>1, AmongStep DEF text
<1>8. Unmasked(line) = Clear(text, e)
  BY UnmaskedIsClear DEF text
<1>9. q = along[m]
  BY DEF Behind, along
<1> HIDE DEF m, e
<1>10. QED
  BY <1>5, <1>6, <1>7, <1>8, <1>9

LEMMA PlainLineIsNotMarked ==
  ASSUME NEW line \in Seq(Tokens), Plain(line), NEW envs
  PROVE  /\ ~FirstIn("begin", line, envs) /\ ~FirstIn("end", line, envs)
         /\ Count("dollars", WithoutComment(line)) = 0
<1> DEFINE text == WithoutComment(line)
<1>1. DOMAIN line = 1..Len(line) /\ DOMAIN text = 1..Len(text)
      /\ \A j \in 1..Len(text) : j \in 1..Len(line) /\ text[j] = line[j]
  BY CleanLine
<1>2. ~FirstIn("begin", line, envs) /\ ~FirstIn("end", line, envs)
  BY <1>1 DEF FirstIn, Is, Plain
<1>3. {i \in DOMAIN text : Is("dollars", text[i])} = {}
  BY <1>1 DEF Is, Plain
<1>4. QED
  BY <1>2, <1>3, FS_EmptySet DEF Count

\* A line of one token that marks something.
Mark(line) == Len(line) = 1 /\ line[1][1] \in {"begin", "end", "dollars"}

LEMMA MarkIsRead ==
  ASSUME NEW line \in Seq(Tokens), Mark(line)
  PROVE  /\ \A kind, envs : FirstIn(kind, line, envs) <=> Is(kind, line[1]) /\ line[1][2] \in envs
         /\ Count("dollars", WithoutComment(line)) = IF Is("dollars", line[1]) THEN 1 ELSE 0
         /\ Unmasked(line) = {}
<1> DEFINE text == WithoutComment(line)
<1>1. DOMAIN line = {1} /\ \A j : j \notin 1..(1 - 1)
  BY DEF Mark
<1>2. Len(text) = 1 /\ DOMAIN text = {1} /\ text[1] = line[1]
  <2>1. /\ text \in Seq(Tokens) /\ Len(text) \in 0..1
        /\ \A j \in 1..Len(text) : text[j] = line[j]
        /\ Len(text) < 1 => Is("comment", line[Len(text) + 1])
    BY CleanLine DEF Mark
  <2> HIDE DEF text
  <2>2. Len(text) # 0
    BY <2>1 DEF Mark, Is
  <2>3. Len(text) = 1
    BY <2>1, <2>2
  <2>4. QED
    BY <2>1, <2>3
<1>3. \A kind, envs : FirstIn(kind, line, envs) <=> Is(kind, line[1]) /\ line[1][2] \in envs
  <2> TAKE kind, envs
  <2>1. \A i \in DOMAIN line : i = 1
    BY <1>1
  <2>2. QED
    BY <1>1, <2>1 DEF FirstIn
<1>4. Count("dollars", text) = IF Is("dollars", line[1]) THEN 1 ELSE 0
  <2> HIDE DEF text
  <2>1. {i \in DOMAIN text : Is("dollars", text[i])} = IF Is("dollars", line[1]) THEN {1} ELSE {}
    BY <1>2
  <2>2. Cardinality({1}) = 1 /\ Cardinality({}) = 0
    BY FS_EmptySet, FS_Singleton
  <2>3. QED
    BY <2>1, <2>2 DEF Count
<1>5. Unmasked(line) = {}
  <2>1. ~Is("word", line[1])
    BY DEF Mark, Is
  <2>2. \A i \in DOMAIN text : ~Is("word", text[i])
    BY <1>2, <2>1
  <2>3. QED
    BY <2>2 DEF Unmasked
<1>6. QED
  BY <1>3, <1>4, <1>5

\* Nothing happens in a plain line of verbatim text or of a formula.
LEMMA StillLine ==
  ASSUME NEW p \in ProseStates, NEW line \in Seq(Tokens), NEW n \in Nat, Plain(line),
         p.verbatim \/ p.depth > 0
  PROVE  Behind(p, line, n) = [p EXCEPT !.commented = FALSE]
<1> DEFINE m == Len(line)
           base == [p EXCEPT !.commented = FALSE]
           along == Along(p, line, n)
           S == {i \in 0..m : along[i] = base}
<1>1. m \in Nat
  OBVIOUS
<1>2. along[0] = base /\ \A i \in 1..m : along[i] = ProseStep(along[i - 1], line, n, i)
  BY AlongALine
<1>3. base \in ProseStates /\ ~base.commented /\ (base.verbatim \/ base.depth > 0)
  BY DEF ProseStates
<1> HIDE DEF along, base
<1>4. 0 \in S
  BY <1>1, <1>2
<1>5. ASSUME NEW i \in 0..(m - 1), i \in S PROVE i + 1 \in S
  <2>1. i + 1 \in 1..m /\ i + 1 \in 0..m /\ (i + 1) - 1 = i
    BY <1>1
  <2>2. along[i + 1] = ProseStep(base, line, n, i + 1)
    BY <1>2, <1>5, <2>1
  <2>3. line[i + 1][1] \notin {"begin", "end", "dollars"}
    BY <2>1 DEF Plain
  <2>4. CASE base.verbatim
    <3>1. along[i + 1] = [base EXCEPT !.verbatim = TRUE]
      BY <1>3, <2>2, <2>3, <2>4 DEF ProseStep
    <3>2. base.verbatim = TRUE
      BY <1>3, <2>4 DEF ProseStates
    <3>3. [base EXCEPT !.verbatim = TRUE] = base
      BY <1>3, <3>2 DEF ProseStates
    <3>4. QED
      BY <2>1, <3>1, <3>3
  <2>5. CASE ~base.verbatim
    <3>1. along[i + 1] = base
      BY <1>3, <2>2, <2>3, <2>5 DEF ProseStep
    <3>2. QED
      BY <2>1, <3>1
  <2>6. QED
    BY <2>4, <2>5
<1>6. m \in S
  <2>1. \A i \in 0..m : i \in S
    <3> HIDE DEF S
    <3> QED
      BY <1>1, <1>4, <1>5, Induct
  <2>2. m \in 0..m
    BY <1>1
  <2>3. QED
    BY <2>1, <2>2
<1>7. QED
  BY <1>6 DEF Behind, along, base

\* The modes of extractSpellableWords, and of what is read token by token.
Modes == [verbatim : BOOLEAN, depth : Nat, display : BOOLEAN, words : SUBSET (Nat \X Nat)]
Agree(s, p) ==
  /\ s.verbatim = p.verbatim /\ s.depth = p.depth /\ s.display = p.display
  /\ s.words = p.words /\ ~p.inline

Tidy(line) ==
  /\ Count("dollar", WithoutComment(line)) % 2 = 0
  /\ (\E t \in ToSet(line) : t[1] \in {"begin", "end", "dollars"}) => Len(line) = 1

LEMMA TidyLines ==
  ASSUME NEW line \in Seq(Tokens), Tidy(line)
  PROVE  Plain(line) \/ Mark(line)
<1> SUFFICES ASSUME NEW i \in 1..Len(line), line[i][1] \in {"begin", "end", "dollars"}
             PROVE  Mark(line)
  BY DEF Plain
<1>1. line[i] \in ToSet(line)
  BY DEF ToSet
<1>2. Len(line) = 1
  BY <1>1 DEF Tidy
<1>3. i = 1
  BY <1>2
<1>4. QED
  BY <1>2, <1>3 DEF Mark

\* An odd number of double dollars changes the mode, an even number does not.
LEMMA Toggled ==
  ASSUME NEW b \in BOOLEAN
  PROVE  (b # (0 % 2 = 1)) = b /\ (b # (1 % 2 = 1)) = ~b
<1>1. (0 % 2 = 1) = FALSE /\ (1 % 2 = 1) = TRUE
  OBVIOUS
<1>2. b = TRUE \/ b = FALSE
  OBVIOUS
<1>3. QED
  BY <1>1, <1>2

LEMMA UnmaskedType ==
  ASSUME NEW line \in Seq(Tokens)
  PROVE  Unmasked(line) \subseteq Nat
<1>1. DOMAIN WithoutComment(line) = 1..Len(WithoutComment(line)) /\ Len(WithoutComment(line)) \in Nat
  BY CleanLine
<1>2. QED
  BY <1>1 DEF Unmasked

LEMMA PlainLineIsProse ==
  ASSUME NEW s \in Modes, NEW p \in ProseStates, Agree(s, p),
         NEW line \in Seq(Tokens), Plain(line), Tidy(line), NEW n \in Nat
  PROVE  Agree(WordsOfLine(s, n, line), Behind(p, line, n))
<1> DEFINE q == Behind(p, line, n)
           display == (s.display # (0 % 2 = 1))
<1>1. WordsOfLine(s, n, line) =
        IF s.verbatim THEN s
        ELSE IF s.depth + 0 > 0 THEN [s EXCEPT !.depth = s.depth + 0]
        ELSE IF display THEN [s EXCEPT !.depth = s.depth + 0, !.display = TRUE]
        ELSE [s EXCEPT !.depth = s.depth + 0, !.display = FALSE, !.words = @ \cup ({n} \X Unmasked(line))]
  BY PlainLineIsNotMarked DEF WordsOfLine
<1>2. display = s.display
  BY Toggled DEF Modes
<1>3. s.depth \in Nat /\ s.depth + 0 = s.depth
  BY DEF Modes
<1> HIDE DEF q, display
<1>4. CASE s.verbatim \/ s.depth > 0
  <2>1. q = [p EXCEPT !.commented = FALSE]
    BY <1>4, StillLine DEF Agree, q
  <2>2. Agree(s, q)
    BY <2>1 DEF Agree, ProseStates
  <2>3. WordsOfLine(s, n, line) = s
    <3>1. [s EXCEPT !.depth = s.depth] = s
      BY DEF Modes
    <3>2. QED
      BY <1>1, <1>3, <1>4, <3>1
  <2>4. QED
    BY <2>2, <2>3 DEF q
<1>5. CASE ~s.verbatim /\ s.depth = 0
  <2>1. ~p.verbatim /\ p.depth = 0 /\ ~p.inline
    BY <1>5 DEF Agree
  <2>2. /\ ~q.verbatim /\ q.depth = 0 /\ q.display = p.display /\ ~q.inline
        /\ q.words = p.words \cup IF p.display THEN {} ELSE {n} \X Unmasked(line)
    BY <2>1, PlainLine DEF Tidy, q
  <2>3. q.verbatim \in BOOLEAN
    <3>1. Len(line) \in 0..Len(line)
      OBVIOUS
    <3>2. QED
      BY <3>1, AlongALine DEF Behind, q, ProseStates
  <2>4. s.verbatim = q.verbatim
    BY <1>5, <2>2, <2>3 DEF Modes
  <2>5. CASE s.display
    <3>1. WordsOfLine(s, n, line) = [s EXCEPT !.depth = s.depth, !.display = TRUE]
      BY <1>1, <1>2, <1>3, <1>5, <2>5
    <3>2. s.display = TRUE
      BY <2>5 DEF Modes
    <3>3. WordsOfLine(s, n, line) = s
      BY <3>1, <3>2 DEF Modes
    <3>4. Agree(s, q)
      BY <1>5, <2>2, <2>4, <2>5 DEF Agree
    <3>5. QED
      BY <3>3, <3>4 DEF q
  <2>6. CASE ~s.display
    <3> DEFINE t == WordsOfLine(s, n, line)
    <3>1. t = [s EXCEPT !.depth = s.depth, !.display = FALSE, !.words = @ \cup ({n} \X Unmasked(line))]
      BY <1>1, <1>2, <1>3, <1>5, <2>6
    <3>2. s.display = FALSE
      BY <2>6 DEF Modes
    <3> HIDE DEF t
    <3>3. /\ t.verbatim = s.verbatim /\ t.depth = 0 /\ t.display = s.display
          /\ t.words = s.words \cup ({n} \X Unmasked(line))
      BY <1>5, <3>1, <3>2 DEF Modes
    <3>4. Agree(t, q)
      BY <2>2, <2>4, <2>6, <3>3 DEF Agree
    <3>5. QED
      BY <3>4 DEF t, q
  <2>7. QED
    BY <2>5, <2>6
<1>6. QED
  BY <1>3, <1>4, <1>5

LEMMA MarkIsProse ==
  ASSUME NEW s \in Modes, NEW p \in ProseStates, Agree(s, p),
         NEW line \in Seq(Tokens), Mark(line), NEW n \in Nat
  PROVE  Agree(WordsOfLine(s, n, line), Behind(p, line, n))
<1> DEFINE q == Behind(p, line, n)
           base == [p EXCEPT !.commented = FALSE]
           t == WordsOfLine(s, n, line)
           k == line[1][1]
           name == line[1][2]
           entered == s.depth + IF k = "begin" /\ name \in Math THEN 1 ELSE 0
           depth == IF k = "end" /\ name \in Math THEN LeaveMath(entered) ELSE entered
           display == IF k = "dollars" THEN ~s.display ELSE s.display
<1>1. q = ProseStep(base, line, n, 1)
  <2>1. Len(line) = 1 /\ 1 \in 1..1 /\ 1 - 1 = 0
    BY DEF Mark
  <2>2. QED
    BY <2>1, AlongALine DEF Behind
<1>2. /\ base \in ProseStates /\ ~base.commented /\ base.verbatim = s.verbatim /\ base.depth = s.depth
      /\ base.display = s.display /\ base.words = s.words /\ ~base.inline
  BY DEF ProseStates, Agree
<1>3. t = IF k = "begin" /\ name \in Verbatim THEN [s EXCEPT !.verbatim = TRUE]
          ELSE IF k = "end" /\ name \in Verbatim THEN [s EXCEPT !.verbatim = FALSE]
          ELSE IF s.verbatim THEN s
          ELSE IF depth > 0 THEN [s EXCEPT !.depth = depth]
          ELSE IF display THEN [s EXCEPT !.depth = depth, !.display = TRUE]
          ELSE [s EXCEPT !.depth = depth, !.display = FALSE, !.words = @ \cup ({n} \X {})]
  <2> DEFINE c == Count("dollars", WithoutComment(line))
  <2>1. (s.display # (c % 2 = 1)) = display
    <3>1. CASE k = "dollars"
      BY <3>1, Toggled, MarkIsRead DEF Modes, Is
    <3>2. CASE k # "dollars"
      BY <3>2, Toggled, MarkIsRead DEF Modes, Is
    <3>3. QED
      BY <3>1, <3>2
  <2> HIDE DEF display
  <2>2. QED
    BY <2>1, MarkIsRead DEF WordsOfLine, Is
<1>4. k \in {"begin", "end", "dollars"}
  BY DEF Mark
<1>5. q = IF base.verbatim THEN [base EXCEPT !.verbatim = ~(k = "end" /\ name \in Verbatim)]
          ELSE IF k = "begin" /\ name \in Verbatim THEN [base EXCEPT !.verbatim = TRUE]
          ELSE IF k = "begin" /\ name \in Math THEN [base EXCEPT !.depth = @ + 1]
          ELSE IF k = "end" /\ name \in Math /\ base.depth > 0 THEN [base EXCEPT !.depth = @ - 1]
          ELSE IF base.depth > 0 THEN base
          ELSE IF k = "dollars" THEN [base EXCEPT !.display = ~@]
          ELSE base
  BY <1>1, <1>2, <1>4 DEF ProseStep
<1>6. s.depth \in Nat /\ s.words \cup ({n} \X {}) = s.words /\ s.verbatim \in BOOLEAN /\ s.display \in BOOLEAN
  BY DEF Modes
<1>7. name \in Math => name \notin Verbatim
  BY TextAssumption
<1> HIDE DEF base, t, q, k, name
<1>8. CASE k = "begin" /\ name \in Verbatim
  <2>1. t = [s EXCEPT !.verbatim = TRUE] /\ q = [base EXCEPT !.verbatim = TRUE]
    BY <1>3, <1>5, <1>8
  <2>2. QED
    BY <1>2, <2>1 DEF Agree, Modes, ProseStates, t, q
<1>9. CASE k = "end" /\ name \in Verbatim
  <2>1. t = [s EXCEPT !.verbatim = FALSE]
    BY <1>3, <1>9
  <2>2. CASE s.verbatim
    <3>1. q = [base EXCEPT !.verbatim = FALSE]
      BY <1>2, <1>5, <1>9, <2>2
    <3>2. QED
      BY <1>2, <2>1, <3>1 DEF Agree, Modes, ProseStates, t, q
  <2>3. CASE ~s.verbatim
    <3>1. q = base
      BY <1>2, <1>5, <1>7, <1>9, <2>3
    <3>2. s.verbatim = FALSE
      BY <1>6, <2>3
    <3>3. QED
      BY <1>2, <2>1, <3>1, <3>2 DEF Agree, Modes, t, q
  <2>4. QED
    BY <2>2, <2>3
<1>10. CASE s.verbatim /\ (name \in Verbatim => k = "dollars")
  <2>1. t = s
    BY <1>3, <1>10
  <2>2. q = [base EXCEPT !.verbatim = TRUE]
    BY <1>2, <1>5, <1>10
  <2>3. s.verbatim = TRUE
    BY <1>6, <1>10
  <2>4. QED
    BY <1>2, <2>1, <2>2, <2>3 DEF Agree, ProseStates, t, q
<1>11. CASE k # "dollars" /\ name \notin Verbatim /\ ~s.verbatim
  <2>1. t = IF depth > 0 THEN [s EXCEPT !.depth = depth]
            ELSE IF s.display THEN [s EXCEPT !.depth = depth, !.display = TRUE]
            ELSE [s EXCEPT !.depth = depth, !.display = FALSE, !.words = @ \cup ({n} \X {})]
    BY <1>3, <1>11
  <2>2. depth \in Nat
    BY <1>6 DEF LeaveMath
  <2>3. q = [base EXCEPT !.depth = depth]
    <3>1. CASE k = "begin" /\ name \in Math
      BY <1>2, <1>5, <1>11, <3>1 DEF ProseStates
    <3>2. CASE k = "end" /\ name \in Math
      <4>1. depth = IF s.depth = 0 THEN 0 ELSE s.depth - 1
        BY <1>6, <3>2 DEF LeaveMath
      <4>2. CASE s.depth > 0
        BY <1>2, <1>5, <1>11, <3>2, <4>1, <4>2 DEF ProseStates
      <4>3. CASE s.depth = 0
        BY <1>2, <1>5, <1>11, <3>2, <4>1, <4>3 DEF ProseStates
      <4>4. QED
        BY <1>6, <4>2, <4>3
    <3>3. CASE name \notin Math
      BY <1>2, <1>5, <1>6, <1>11, <3>3 DEF ProseStates
    <3>4. QED
      BY <1>4, <1>11, <3>1, <3>2, <3>3
  <2> HIDE DEF depth
  <2>4. q.depth = depth /\ q.verbatim = s.verbatim /\ q.display = s.display /\ q.words = s.words /\ ~q.inline
    BY <1>2, <2>2, <2>3 DEF ProseStates
  <2>5. t.depth = depth /\ t.verbatim = s.verbatim /\ t.display = s.display /\ t.words = s.words
    BY <1>6, <2>1, <2>2 DEF Modes
  <2>6. QED
    BY <2>4, <2>5 DEF Agree, t, q
<1>12. CASE k = "dollars" /\ ~s.verbatim
  <2>1. depth = s.depth
    BY <1>6, <1>12
  <2>2. t = IF s.depth > 0 THEN [s EXCEPT !.depth = s.depth]
            ELSE IF ~s.display THEN [s EXCEPT !.depth = s.depth, !.display = TRUE]
            ELSE [s EXCEPT !.depth = s.depth, !.display = FALSE, !.words = @ \cup ({n} \X {})]
    BY <1>3, <1>12, <2>1
  <2>3. q = IF s.depth > 0 THEN base ELSE [base EXCEPT !.display = ~@]
    BY <1>2, <1>5, <1>12
  <2>4. CASE s.depth > 0
    BY <1>2, <2>2, <2>3, <2>4 DEF Agree, Modes, t, q
  <2>5. CASE ~(s.depth > 0)
    <3>1. t.depth = s.depth /\ t.verbatim = s.verbatim /\ t.display = ~s.display /\ t.words = s.words
      BY <1>6, <2>2, <2>5 DEF Modes
    <3>2. q.depth = s.depth /\ q.verbatim = s.verbatim /\ q.display = ~s.display /\ q.words = s.words /\ ~q.inline
      BY <1>2, <2>3, <2>5 DEF ProseStates
    <3>3. QED
      BY <3>1, <3>2 DEF Agree, t, q
  <2>6. QED
    BY <2>4, <2>5
<1>13. QED
  BY <1>4, <1>8, <1>9, <1>10, <1>11, <1>12

LEMMA LineIsProse ==
  ASSUME NEW s \in Modes, NEW p \in ProseStates, Agree(s, p),
         NEW line \in Seq(Tokens), Tidy(line), NEW n \in Nat
  PROVE  Agree(WordsOfLine(s, n, line), Behind(p, line, n))
BY TidyLines, PlainLineIsProse, MarkIsProse

LEMMA WordsOfLineType ==
  ASSUME NEW s \in Modes, NEW line \in Seq(Tokens), NEW n \in Nat
  PROVE  WordsOfLine(s, n, line) \in Modes
<1> DEFINE entered == s.depth + IF FirstIn("begin", line, Math) THEN 1 ELSE 0
           depth == IF FirstIn("end", line, Math) THEN LeaveMath(entered) ELSE entered
<1>1. entered \in Nat
  BY DEF Modes
<1>2. depth \in Nat
  <2> HIDE DEF entered
  <2> QED
    BY <1>1 DEF LeaveMath
<1>3. s.words \cup ({n} \X Unmasked(line)) \in SUBSET (Nat \X Nat)
  BY UnmaskedType DEF Modes
<1> HIDE DEF depth
<1>4. /\ [s EXCEPT !.verbatim = TRUE] \in Modes /\ [s EXCEPT !.verbatim = FALSE] \in Modes
      /\ [s EXCEPT !.depth = depth] \in Modes /\ [s EXCEPT !.depth = depth, !.display = TRUE] \in Modes
  BY <1>2 DEF Modes
<1>5. [s EXCEPT !.depth = depth, !.display = FALSE, !.words = @ \cup ({n} \X Unmasked(line))] \in Modes
  BY <1>2, <1>3 DEF Modes
<1>6. QED
  BY <1>4, <1>5 DEF WordsOfLine, depth

LEMMA BehindType ==
  ASSUME NEW p \in ProseStates, NEW line \in Seq(Tokens), NEW n \in Nat
  PROVE  Behind(p, line, n) \in ProseStates
<1>1. Len(line) \in 0..Len(line)
  OBVIOUS
<1>2. QED
  BY <1>1, AlongALine DEF Behind

After(lines) ==
  CHOOSE f : f = [n \in 0..Len(lines) |-> IF n = 0 THEN Outside ELSE WordsOfLine(f[n - 1], n, lines[n])]

LEMMA WordsAreAfter ==
  ASSUME NEW lines
  PROVE  SpellableWords(lines) = After(lines)[Len(lines)].words
BY DEF SpellableWords, After

LEMMA AfterLines ==
  ASSUME NEW lines \in Seq(Seq(Tokens))
  PROVE  /\ After(lines)[0] = Outside
         /\ \A n \in 1..Len(lines) : After(lines)[n] = WordsOfLine(After(lines)[n - 1], n, lines[n])
<1> DEFINE m == Len(lines)
           Eq(f) == f = [n \in 0..Len(lines) |-> IF n = 0 THEN Outside ELSE WordsOfLine(f[n - 1], n, lines[n])]
           h == [q \in Modes \X (1..m) |-> WordsOfLine(q[1], q[2], lines[q[2]])]
           after == After(lines)
<1>1. m \in Nat /\ \A n \in 1..m : lines[n] \in Seq(Tokens)
  OBVIOUS
<1>2. Outside \in Modes
  BY DEF Outside, Modes
<1>3. h \in [Modes \X (1..m) -> Modes]
  BY <1>1, WordsOfLineType
<1>4. \E f : Eq(f)
  <2>1. PICK f \in [0..m -> Modes] : Chains(f, m, Outside, h)
    <3> HIDE DEF h, m
    <3> QED
      BY <1>1, <1>2, <1>3, ChainExists
  <2>2. ASSUME NEW n \in 0..m, n # 0
        PROVE  h[<<f[n - 1], n>>] = WordsOfLine(f[n - 1], n, lines[n])
    <3>1. n \in 1..m /\ n - 1 \in 0..m
      BY <1>1, <2>2
    <3>2. QED
      BY <3>1
  <2> HIDE DEF h
  <2>3. Eq(f)
    BY <2>1, <2>2 DEF Chains
  <2>4. QED
    BY <2>3
<1>5. Eq(after)
  <2>1. after = CHOOSE f : Eq(f)
    BY DEF After
  <2> HIDE DEF Eq, after
  <2>2. QED
    BY <1>4, <2>1
<1> HIDE DEF after, h
<1>6. after[0] = Outside
  BY <1>1, <1>5
<1>7. ASSUME NEW n \in 1..m PROVE after[n] = WordsOfLine(after[n - 1], n, lines[n])
  <2>1. n \in 0..m /\ n # 0
    BY <1>1
  <2>2. QED
    BY <1>5, <2>1
<1>8. QED
  BY <1>6, <1>7 DEF after

LEMMA ProseLines ==
  ASSUME NEW lines \in Seq(Seq(Tokens))
  PROVE  /\ Prose(lines)[0] = ProseStart
         /\ \A n \in 1..Len(lines) : Prose(lines)[n] = Behind(Prose(lines)[n - 1], lines[n], n)
<1> DEFINE m == Len(lines)
           Eq(f) == f = [n \in 0..Len(lines) |-> IF n = 0 THEN ProseStart ELSE Behind(f[n - 1], lines[n], n)]
           h == [q \in ProseStates \X (1..m) |-> Behind(q[1], lines[q[2]], q[2])]
           prose == Prose(lines)
<1>1. m \in Nat /\ \A n \in 1..m : lines[n] \in Seq(Tokens)
  OBVIOUS
<1>2. ProseStart \in ProseStates
  BY DEF ProseStart, ProseStates
<1>3. h \in [ProseStates \X (1..m) -> ProseStates]
  BY <1>1, BehindType
<1>4. \E f : Eq(f)
  <2>1. PICK f \in [0..m -> ProseStates] : Chains(f, m, ProseStart, h)
    <3> HIDE DEF h, m
    <3> QED
      BY <1>1, <1>2, <1>3, ChainExists
  <2>2. ASSUME NEW n \in 0..m, n # 0
        PROVE  h[<<f[n - 1], n>>] = Behind(f[n - 1], lines[n], n)
    <3>1. n \in 1..m /\ n - 1 \in 0..m
      BY <1>1, <2>2
    <3>2. QED
      BY <3>1
  <2> HIDE DEF h
  <2>3. Eq(f)
    BY <2>1, <2>2 DEF Chains
  <2>4. QED
    BY <2>3
<1>5. Eq(prose)
  <2>1. prose = CHOOSE f : Eq(f)
    BY DEF Prose
  <2> HIDE DEF Eq, prose
  <2>2. QED
    BY <1>4, <2>1
<1> HIDE DEF prose, h
<1>6. prose[0] = ProseStart
  BY <1>1, <1>5
<1>7. ASSUME NEW n \in 1..m PROVE prose[n] = Behind(prose[n - 1], lines[n], n)
  <2>1. n \in 0..m /\ n # 0
    BY <1>1
  <2>2. QED
    BY <1>5, <2>1
<1>8. QED
  BY <1>6, <1>7 DEF prose

LEMMA TidyTextIsProse ==
  ASSUME NEW lines \in Seq(Seq(Tokens)), \A n \in DOMAIN lines : Tidy(lines[n])
  PROVE  SpellableWords(lines) = ProseWords(lines)
<1> DEFINE m == Len(lines)
           after == After(lines)
           prose == Prose(lines)
           S == {n \in 0..m : after[n] \in Modes /\ prose[n] \in ProseStates /\ Agree(after[n], prose[n])}
<1>1. m \in Nat /\ \A n \in 1..m : lines[n] \in Seq(Tokens) /\ Tidy(lines[n])
  OBVIOUS
<1>2. after[0] = Outside /\ \A n \in 1..m : after[n] = WordsOfLine(after[n - 1], n, lines[n])
  BY AfterLines
<1>3. prose[0] = ProseStart /\ \A n \in 1..m : prose[n] = Behind(prose[n - 1], lines[n], n)
  BY ProseLines
<1> HIDE DEF after, prose
<1>4. 0 \in S
  <2>1. Outside \in Modes /\ ProseStart \in ProseStates
    BY DEF Outside, ProseStart, Modes, ProseStates
  <2>2. Agree(Outside, ProseStart)
    BY DEF Outside, ProseStart, Agree
  <2>3. 0 \in 0..m
    BY <1>1
  <2>4. QED
    BY <1>2, <1>3, <2>1, <2>2, <2>3
<1>5. ASSUME NEW n \in 0..(m - 1), n \in S PROVE n + 1 \in S
  <2>1. n + 1 \in 1..m /\ n + 1 \in 0..m /\ (n + 1) - 1 = n /\ n + 1 \in Nat
    BY <1>1
  <2>2. /\ after[n + 1] = WordsOfLine(after[n], n + 1, lines[n + 1])
        /\ prose[n + 1] = Behind(prose[n], lines[n + 1], n + 1)
    BY <1>2, <1>3, <2>1
  <2>3. lines[n + 1] \in Seq(Tokens) /\ Tidy(lines[n + 1])
    BY <1>1, <2>1
  <2>4. after[n] \in Modes /\ prose[n] \in ProseStates /\ Agree(after[n], prose[n])
    BY <1>5
  <2>5. after[n + 1] \in Modes /\ prose[n + 1] \in ProseStates /\ Agree(after[n + 1], prose[n + 1])
    BY <2>1, <2>2, <2>3, <2>4, WordsOfLineType, BehindType, LineIsProse
  <2>6. QED
    BY <2>1, <2>5
<1>6. m \in S
  <2>1. \A n \in 0..m : n \in S
    <3> HIDE DEF S
    <3> QED
      BY <1>1, <1>4, <1>5, Induct
  <2>2. m \in 0..m
    BY <1>1
  <2>3. QED
    BY <2>1, <2>2
<1>7. after[m].words = prose[m].words
  BY <1>6 DEF Agree
<1>8. QED
  BY <1>7, WordsAreAfter, ProseIsRead DEF after, prose

---------------------------------------------------------------------------
(* What is typed is lines of tokens.                                       *)

DocText == doc \in Seq(Seq(Tokens)) /\ Len(doc) > 0

LEMMA DocIsText == TextSpec => []DocText
<1>1. TextInit => DocText
  BY DEF TextInit, DocText
<1>2. DocText /\ [TextNext]_textVars => DocText'
  <2> SUFFICES ASSUME DocText, [TextNext]_textVars PROVE DocText'
    OBVIOUS
  <2> USE DEF DocText
  <2>1. ASSUME NEW t \in Tokens, TypeToken(t) PROVE DocText'
    <3>1. Len(doc) \in 1..Len(doc) /\ doc[Len(doc)] \in Seq(Tokens)
      OBVIOUS
    <3>2. Append(doc[Len(doc)], t) \in Seq(Tokens)
      BY <3>1
    <3>3. \A line \in Seq(Tokens) : [doc EXCEPT ![Len(doc)] = line] \in Seq(Seq(Tokens))
                                    /\ Len([doc EXCEPT ![Len(doc)] = line]) = Len(doc)
      OBVIOUS
    <3>4. QED
      BY <2>1, <3>2, <3>3 DEF TypeToken
  <2>2. CASE BreakLine
    BY <2>2 DEF BreakLine
  <2>3. CASE UNCHANGED doc
    BY <2>3
  <2>4. QED
    BY <2>1, <2>2, <2>3 DEF TextNext, LogGrows, ClickIssue, IssueTextLoads, IssueTimer, textVars
<1>3. QED
  BY <1>1, <1>2, PTL DEF TextSpec

(* Whatever is typed, the words that are checked are those of the prose in *)
(* a tidy text. The code: the modes of extractSpellableWords.              *)
THEOREM CheckedWordsAreProse == TextSpec => []WordsAreProse
<1>1. DocText => WordsAreProse
  <2> SUFFICES ASSUME DocText PROVE WordsAreProse
    OBVIOUS
  <2>1. (\A n \in DOMAIN doc : Tidy(doc[n])) => SpellableWords(doc) = ProseWords(doc)
    BY TidyTextIsProse DEF DocText
  <2>2. QED
    BY <2>1 DEF WordsAreProse, Tidy
<1>2. QED
  BY <1>1, DocIsText, PTL

---------------------------------------------------------------------------
(* How often something is among the first k of a sequence.                 *)

First(S, k) == Cardinality(S \cap (1..k))

LEMMA FirstType ==
  ASSUME NEW S, NEW k \in Nat
  PROVE  First(S, k) \in Nat /\ First(S, 0) = 0
<1>1. IsFiniteSet(1..k) /\ S \cap (1..k) \subseteq 1..k /\ S \cap (1..0) = {}
  BY FS_Interval
<1>2. IsFiniteSet(S \cap (1..k))
  BY <1>1, FS_Subset
<1>3. QED
  BY <1>1, <1>2, FS_CardinalityType, FS_EmptySet DEF First

LEMMA FirstStep ==
  ASSUME NEW S, NEW k \in Nat
  PROVE  First(S, k + 1) = First(S, k) + IF k + 1 \in S THEN 1 ELSE 0
<1>1. 1..(k + 1) = (1..k) \cup {k + 1} /\ k + 1 \notin 1..k
  OBVIOUS
<1>2. IsFiniteSet(S \cap (1..k))
  <2>1. IsFiniteSet(1..k) /\ S \cap (1..k) \subseteq 1..k
    BY FS_Interval
  <2>2. QED
    BY <2>1, FS_Subset
<1>3. CASE k + 1 \in S
  <2>1. S \cap (1..(k + 1)) = (S \cap (1..k)) \cup {k + 1} /\ k + 1 \notin S \cap (1..k)
    BY <1>1, <1>3
  <2>2. QED
    BY <1>2, <1>3, <2>1, FS_AddElement DEF First
<1>4. CASE k + 1 \notin S
  <2>1. S \cap (1..(k + 1)) = S \cap (1..k)
    BY <1>1, <1>4
  <2>2. QED
    BY <1>4, <2>1, FirstType DEF First
<1>5. QED
  BY <1>3, <1>4

LEMMA FirstGrows ==
  ASSUME NEW S, NEW m \in Nat, NEW k \in 0..m
  PROVE  First(S, k) <= First(S, m)
<1>1. S \cap (1..k) \subseteq S \cap (1..m)
  OBVIOUS
<1>2. IsFiniteSet(S \cap (1..m))
  <2>1. IsFiniteSet(1..m) /\ S \cap (1..m) \subseteq 1..m
    BY FS_Interval
  <2>2. QED
    BY <2>1, FS_Subset
<1>3. QED
  BY <1>1, <1>2, FS_Subset DEF First

\* The first m numbers of S are those of A, and the next n those of B.
Parts(S, A, B, m, n) ==
  /\ \A i \in 1..m : i \in S <=> i \in A
  /\ \A i \in 1..n : m + i \in S <=> i \in B

\* Of two parts, the number in the whole is that in the parts together.
LEMMA TwoParts ==
  ASSUME NEW S, NEW A, NEW B, NEW m \in Nat, NEW n \in Nat, Parts(S, A, B, m, n)
  PROVE  First(S, m + n) = First(A, m) + First(B, n)
<1> DEFINE T == {k \in 0..n : First(S, m + k) = First(A, m) + First(B, k)}
<1> USE DEF Parts
<1>1. 0 \in T
  <2>1. S \cap (1..m) = A \cap (1..m) /\ m + 0 = m
    OBVIOUS
  <2>2. First(S, m + 0) = First(A, m) /\ First(B, 0) = 0 /\ First(A, m) \in Nat
    BY <2>1, FirstType DEF First
  <2>3. QED
    BY <2>2
<1>2. ASSUME NEW k \in 0..(n - 1), k \in T PROVE k + 1 \in T
  <2>1. k \in Nat /\ k + 1 \in 0..n /\ k + 1 \in 1..n /\ m + k \in Nat /\ m + (k + 1) = (m + k) + 1
    OBVIOUS
  <2>2. First(S, (m + k) + 1) = First(S, m + k) + IF (m + k) + 1 \in S THEN 1 ELSE 0
    BY <2>1, FirstStep
  <2>3. First(B, k + 1) = First(B, k) + IF k + 1 \in B THEN 1 ELSE 0
    BY <2>1, FirstStep
  <2>4. (m + k) + 1 \in S <=> k + 1 \in B
    BY <2>1
  <2>5. First(A, m) \in Nat /\ First(B, k) \in Nat
    BY <2>1, FirstType
  <2>6. QED
    BY <1>2, <2>1, <2>2, <2>3, <2>4, <2>5
<1>3. n \in T
  <2> HIDE DEF T
  <2>1. \A k \in 0..n : k \in T
    BY <1>1, <1>2, Induct
  <2>2. QED
    BY <2>1
<1>4. QED
  BY <1>3

\* Where a name is in a sequence of names, and a command in one of commands.
Places(e, s) == {i \in 1..Len(s) : s[i] = e}
Commanded(kind, env, cs) == {i \in 1..Len(cs) : Is(kind, cs[i]) /\ cs[i][2] = env}
Times(e, s) == First(Places(e, s), Len(s))
Given(kind, env, cs) == First(Commanded(kind, env, cs), Len(cs))

LEMMA CountsAreNumbers ==
  ASSUME NEW T, NEW s \in Seq(T), NEW e, NEW kind
  PROVE  Times(e, s) \in Nat /\ Given(kind, e, s) \in Nat
BY FirstType DEF Times, Given

LEMMA TimesJoined ==
  ASSUME NEW T, NEW a \in Seq(T), NEW b \in Seq(T), NEW e
  PROVE  Times(e, a \o b) = Times(e, a) + Times(e, b)
<1>1. /\ Len(a \o b) = Len(a) + Len(b) /\ Len(a) \in Nat /\ Len(b) \in Nat
      /\ \A i \in 1..Len(a) : (a \o b)[i] = a[i] /\ i \in 1..(Len(a) + Len(b))
      /\ \A i \in 1..Len(b) : (a \o b)[Len(a) + i] = b[i] /\ Len(a) + i \in 1..(Len(a) + Len(b))
  OBVIOUS
<1>2. Parts(Places(e, a \o b), Places(e, a), Places(e, b), Len(a), Len(b))
  BY <1>1 DEF Places, Parts
<1>3. QED
  BY <1>1, <1>2, TwoParts DEF Times

LEMMA GivenJoined ==
  ASSUME NEW T, NEW a \in Seq(T), NEW b \in Seq(T), NEW kind, NEW e
  PROVE  Given(kind, e, a \o b) = Given(kind, e, a) + Given(kind, e, b)
<1>1. /\ Len(a \o b) = Len(a) + Len(b) /\ Len(a) \in Nat /\ Len(b) \in Nat
      /\ \A i \in 1..Len(a) : (a \o b)[i] = a[i] /\ i \in 1..(Len(a) + Len(b))
      /\ \A i \in 1..Len(b) : (a \o b)[Len(a) + i] = b[i] /\ Len(a) + i \in 1..(Len(a) + Len(b))
  OBVIOUS
<1>2. Parts(Commanded(kind, e, a \o b), Commanded(kind, e, a), Commanded(kind, e, b), Len(a), Len(b))
  BY <1>1 DEF Commanded, Parts
<1>3. QED
  BY <1>1, <1>2, TwoParts DEF Given

LEMMA TimesAppended ==
  ASSUME NEW T, NEW s \in Seq(T), NEW x \in T, NEW e
  PROVE  Times(e, Append(s, x)) = Times(e, s) + IF x = e THEN 1 ELSE 0
<1>1. /\ Len(Append(s, x)) = Len(s) + 1 /\ Len(s) \in Nat /\ Append(s, x)[Len(s) + 1] = x
      /\ \A i \in 1..Len(s) : Append(s, x)[i] = s[i] /\ i \in 1..(Len(s) + 1)
      /\ Len(s) + 1 \in 1..(Len(s) + 1)
  OBVIOUS
<1>2. Places(e, Append(s, x)) \cap (1..Len(s)) = Places(e, s) \cap (1..Len(s))
  BY <1>1 DEF Places
<1>3. Len(s) + 1 \in Places(e, Append(s, x)) <=> x = e
  BY <1>1 DEF Places
<1>4. First(Places(e, Append(s, x)), Len(s)) = Times(e, s)
  BY <1>2 DEF First, Times
<1>5. QED
  BY <1>1, <1>3, <1>4, FirstStep DEF Times

LEMMA GivenAppended ==
  ASSUME NEW T, NEW s \in Seq(T), NEW x \in T, NEW kind, NEW e
  PROVE  Given(kind, e, Append(s, x)) = Given(kind, e, s) + IF Is(kind, x) /\ x[2] = e THEN 1 ELSE 0
<1>1. /\ Len(Append(s, x)) = Len(s) + 1 /\ Len(s) \in Nat /\ Append(s, x)[Len(s) + 1] = x
      /\ \A i \in 1..Len(s) : Append(s, x)[i] = s[i] /\ i \in 1..(Len(s) + 1)
      /\ Len(s) + 1 \in 1..(Len(s) + 1)
  OBVIOUS
<1>2. Commanded(kind, e, Append(s, x)) \cap (1..Len(s)) = Commanded(kind, e, s) \cap (1..Len(s))
  BY <1>1 DEF Commanded
<1>3. Len(s) + 1 \in Commanded(kind, e, Append(s, x)) <=> Is(kind, x) /\ x[2] = e
  BY <1>1 DEF Commanded
<1>4. First(Commanded(kind, e, Append(s, x)), Len(s)) = Given(kind, e, s)
  BY <1>2 DEF First, Given
<1>5. QED
  BY <1>1, <1>3, <1>4, FirstStep DEF Given

LEMMA TimesRemoved ==
  ASSUME NEW T, NEW s \in Seq(T), NEW at \in 1..Len(s), NEW e
  PROVE  /\ RemoveAt(s, at) \in Seq(T)
         /\ Times(e, s) = Times(e, RemoveAt(s, at)) + IF s[at] = e THEN 1 ELSE 0
<1> DEFINE a == SubSeq(s, 1, at - 1)
           b == SubSeq(s, at + 1, Len(s))
           m == at - 1
           n == Len(s) - at
<1>1. /\ m \in Nat /\ n \in Nat /\ Len(s) \in Nat /\ at = m + 1 /\ Len(s) = m + (1 + n)
      /\ Len(s) = m + (n + 1) /\ at + n = Len(s)
  OBVIOUS
<1>2. /\ a \in Seq(T) /\ Len(a) = m /\ \A i \in 1..m : a[i] = s[i] /\ i \in 1..Len(s)
      /\ b \in Seq(T) /\ Len(b) = n
  OBVIOUS
<1>3. \A i \in 1..n : b[i] = s[at + i] /\ at + i \in 1..Len(s)
  OBVIOUS
<1>4. RemoveAt(s, at) \in Seq(T) /\ Times(e, RemoveAt(s, at)) = Times(e, a) + Times(e, b)
  <2> HIDE DEF a, b
  <2>1. a \o b \in Seq(T)
    BY <1>2
  <2>2. RemoveAt(s, at) = a \o b
    BY DEF RemoveAt, a, b
  <2>3. QED
    BY <1>2, <2>1, <2>2, TimesJoined
<1> HIDE DEF a, b, m, n
<1>5. First(Places(e, s), m) = Times(e, a)
  <2>1. Places(e, s) \cap (1..m) = Places(e, a) \cap (1..m)
    BY <1>2 DEF Places
  <2>2. QED
    BY <1>2, <2>1 DEF First, Times
<1>6. First(Places(e, s), at) = Times(e, a) + IF s[at] = e THEN 1 ELSE 0
  <2>1. at \in Places(e, s) <=> s[at] = e
    BY DEF Places
  <2>2. QED
    BY <1>1, <1>5, <2>1, FirstStep
<1>7. Times(e, s) = First(Places(e, s), at) + Times(e, b)
  <2>1. Parts(Places(e, s), Places(e, s), Places(e, b), at, n)
    BY <1>2, <1>3 DEF Places, Parts
  <2>2. First(Places(e, s), at + n) = First(Places(e, s), at) + First(Places(e, b), n)
    <3>1. at \in Nat
      OBVIOUS
    <3>2. QED
      BY <1>1, <2>1, <3>1, TwoParts
  <2>3. QED
    BY <1>1, <1>2, <2>2 DEF Times
<1>8. Times(e, a) \in Nat /\ Times(e, b) \in Nat
  BY <1>2, CountsAreNumbers
<1>9. QED
  BY <1>4, <1>6, <1>7, <1>8

---------------------------------------------------------------------------
(* The folds of the diagnostics.                                           *)

Name == {t[2] : t \in Tokens}
Command == {t \in Tokens : t[2] # "document"}
Analyses == [stack : Seq(Name), ended : BOOLEAN, unopened : Nat, labels : Seq(Name),
             display : BOOLEAN, odd : Nat]

ReadName(kind, names, t) == IF Is(kind, t) THEN Append(names, t[2]) ELSE names
ReadCommand(commands, t) ==
  IF t[1] \in {"begin", "end"} /\ t[2] # "document" THEN Append(commands, t) ELSE commands
CommandsOf(line) == FoldLeft(ReadCommand, <<>>, line)

LEMMA ReadTypes ==
  /\ \A kind : \A names \in Seq(Name), t \in Tokens : ReadName(kind, names, t) \in Seq(Name)
  /\ \A commands \in Seq(Command), t \in Tokens : ReadCommand(commands, t) \in Seq(Command)
<1>1. ASSUME NEW kind, NEW names \in Seq(Name), NEW t \in Tokens PROVE ReadName(kind, names, t) \in Seq(Name)
  <2>1. t[2] \in Name
    BY DEF Name
  <2> HIDE DEF Name
  <2>2. QED
    BY <2>1 DEF ReadName
<1>2. ASSUME NEW commands \in Seq(Command), NEW t \in Tokens PROVE ReadCommand(commands, t) \in Seq(Command)
  <2>1. t[2] # "document" => t \in Command
    BY DEF Command
  <2> HIDE DEF Command
  <2>2. QED
    BY <2>1 DEF ReadCommand
<1>3. QED
  BY <1>1, <1>2

LEMMA NamesAreRead ==
  ASSUME NEW kind, NEW line \in Seq(Tokens)
  PROVE  \E g \in [0..Len(line) -> Seq(Name)] :
           /\ g[0] = <<>> /\ NamesOf(kind, line) = g[Len(line)]
           /\ \A i \in 1..Len(line) : g[i] = ReadName(kind, g[i - 1], line[i])
<1> DEFINE n == Len(line)
           Eq(f) == f = [s \in SUBSET (DOMAIN line) |->
                           IF s = {} THEN <<>> ELSE ReadName(kind, f[s \ {Max(s)}], line[Max(s)])]
           iter == CHOOSE f : Eq(f)
           h == [p \in Seq(Name) \X (1..n) |-> ReadName(kind, p[1], line[p[2]])]
           g == [i \in 0..n |-> iter[1..i]]
<1>1. NamesOf(kind, line) = iter[DOMAIN line]
  BY DEF NamesOf, FoldLeft, MapThenFoldSet, ReadName
<1>2. DOMAIN line = 1..n /\ n \in Nat /\ \A i \in 1..n : line[i] \in Tokens
  OBVIOUS
<1>3. <<>> \in Seq(Name)
  OBVIOUS
<1>4. h \in [Seq(Name) \X (1..n) -> Seq(Name)]
  BY <1>2, ReadTypes
<1>5. \E f : Eq(f)
  <2>1. PICK f \in [SUBSET (1..n) -> Seq(Name)] : Folds(f, n, <<>>, h)
    <3> HIDE DEF h, n
    <3> QED
      BY <1>2, <1>3, <1>4, FoldExists
  <2>2. ASSUME NEW s \in SUBSET (1..n), s # {}
        PROVE  h[<<f[s \ {Max(s)}], Max(s)>>] = ReadName(kind, f[s \ {Max(s)}], line[Max(s)])
    <3>1. Max(s) \in 1..n
      BY <1>2, <2>2, MaxInRange
    <3>2. f[s \ {Max(s)}] \in Seq(Name)
      OBVIOUS
    <3>3. QED
      BY <3>1, <3>2
  <2> HIDE DEF h
  <2>3. Eq(f)
    BY <1>2, <2>1, <2>2 DEF Folds
  <2>4. QED
    BY <2>3
<1>6. Eq(iter)
  <2> HIDE DEF Eq
  <2> QED
    BY <1>5
<1> HIDE DEF iter, h
<1>7. g[0] = <<>>
  <2>1. 1..0 = {} /\ {} \in SUBSET (DOMAIN line) /\ 0 \in 0..n
    BY <1>2
  <2>2. iter[{}] = <<>>
    BY <1>6, <2>1
  <2>3. QED
    BY <2>1, <2>2
<1>8. ASSUME NEW i \in 1..n PROVE g[i] = ReadName(kind, g[i - 1], line[i])
  <2>1. 1..i \in SUBSET (DOMAIN line) /\ i - 1 \in Nat /\ i - 1 + 1 = i /\ i \in 0..n /\ i - 1 \in 0..n
    BY <1>2
  <2>2. Max(1..i) = i /\ (1..i) \ {i} = 1..(i - 1) /\ 1..i # {}
    BY <2>1, FirstNumbers
  <2>3. iter[1..i] = ReadName(kind, iter[1..(i - 1)], line[i])
    BY <1>6, <2>1, <2>2
  <2>4. QED
    BY <2>1, <2>3
<1>9. g \in [0..n -> Seq(Name)]
  <2> DEFINE S == {i \in 0..n : g[i] \in Seq(Name)}
  <2> HIDE DEF g
  <2>1. 0 \in S
    <3>1. 0 \in 0..n
      BY <1>2
    <3>2. g[0] \in Seq(Name)
      BY <1>3, <1>7
    <3>3. QED
      BY <3>1, <3>2
  <2>2. ASSUME NEW i \in 0..(n - 1), i \in S PROVE i + 1 \in S
    <3>1. i + 1 \in 1..n /\ i + 1 \in 0..n /\ (i + 1) - 1 = i
      BY <1>2
    <3>2. QED
      BY <1>2, <1>8, <2>2, <3>1, ReadTypes
  <2>3. \A i \in 0..n : i \in S
    <3> HIDE DEF S
    <3> QED
      BY <1>2, <2>1, <2>2, Induct
  <2>4. QED
    BY <2>3 DEF g
<1>10. NamesOf(kind, line) = g[n]
  BY <1>1, <1>2
<1> HIDE DEF g
<1>11. QED
  BY <1>7, <1>8, <1>9, <1>10

LEMMA CommandsAreRead ==
  ASSUME NEW line \in Seq(Tokens)
  PROVE  \E g \in [0..Len(line) -> Seq(Command)] :
           /\ g[0] = <<>> /\ CommandsOf(line) = g[Len(line)]
           /\ \A i \in 1..Len(line) : g[i] = ReadCommand(g[i - 1], line[i])
<1> DEFINE n == Len(line)
           Eq(f) == f = [s \in SUBSET (DOMAIN line) |->
                           IF s = {} THEN <<>> ELSE ReadCommand(f[s \ {Max(s)}], line[Max(s)])]
           iter == CHOOSE f : Eq(f)
           h == [p \in Seq(Command) \X (1..n) |-> ReadCommand(p[1], line[p[2]])]
           g == [i \in 0..n |-> iter[1..i]]
<1>1. CommandsOf(line) = iter[DOMAIN line]
  BY DEF CommandsOf, FoldLeft, MapThenFoldSet, ReadCommand
<1>2. DOMAIN line = 1..n /\ n \in Nat /\ \A i \in 1..n : line[i] \in Tokens
  OBVIOUS
<1>3. <<>> \in Seq(Command)
  OBVIOUS
<1>4. h \in [Seq(Command) \X (1..n) -> Seq(Command)]
  BY <1>2, ReadTypes
<1>5. \E f : Eq(f)
  <2>1. PICK f \in [SUBSET (1..n) -> Seq(Command)] : Folds(f, n, <<>>, h)
    <3> HIDE DEF h, n
    <3> QED
      BY <1>2, <1>3, <1>4, FoldExists
  <2>2. ASSUME NEW s \in SUBSET (1..n), s # {}
        PROVE  h[<<f[s \ {Max(s)}], Max(s)>>] = ReadCommand(f[s \ {Max(s)}], line[Max(s)])
    <3>1. Max(s) \in 1..n
      BY <1>2, <2>2, MaxInRange
    <3>2. f[s \ {Max(s)}] \in Seq(Command)
      OBVIOUS
    <3>3. QED
      BY <3>1, <3>2
  <2> HIDE DEF h
  <2>3. Eq(f)
    BY <1>2, <2>1, <2>2 DEF Folds
  <2>4. QED
    BY <2>3
<1>6. Eq(iter)
  <2> HIDE DEF Eq
  <2> QED
    BY <1>5
<1> HIDE DEF iter, h
<1>7. g[0] = <<>>
  <2>1. 1..0 = {} /\ {} \in SUBSET (DOMAIN line) /\ 0 \in 0..n
    BY <1>2
  <2>2. iter[{}] = <<>>
    BY <1>6, <2>1
  <2>3. QED
    BY <2>1, <2>2
<1>8. ASSUME NEW i \in 1..n PROVE g[i] = ReadCommand(g[i - 1], line[i])
  <2>1. 1..i \in SUBSET (DOMAIN line) /\ i - 1 \in Nat /\ i - 1 + 1 = i /\ i \in 0..n /\ i - 1 \in 0..n
    BY <1>2
  <2>2. Max(1..i) = i /\ (1..i) \ {i} = 1..(i - 1) /\ 1..i # {}
    BY <2>1, FirstNumbers
  <2>3. iter[1..i] = ReadCommand(iter[1..(i - 1)], line[i])
    BY <1>6, <2>1, <2>2
  <2>4. QED
    BY <2>1, <2>3
<1>9. g \in [0..n -> Seq(Command)]
  <2> DEFINE S == {i \in 0..n : g[i] \in Seq(Command)}
  <2> HIDE DEF g
  <2>1. 0 \in S
    <3>1. 0 \in 0..n
      BY <1>2
    <3>2. g[0] \in Seq(Command)
      BY <1>3, <1>7
    <3>3. QED
      BY <3>1, <3>2
  <2>2. ASSUME NEW i \in 0..(n - 1), i \in S PROVE i + 1 \in S
    <3>1. i + 1 \in 1..n /\ i + 1 \in 0..n /\ (i + 1) - 1 = i
      BY <1>2
    <3>2. QED
      BY <1>2, <1>8, <2>2, <3>1, ReadTypes
  <2>3. \A i \in 0..n : i \in S
    <3> HIDE DEF S
    <3> QED
      BY <1>2, <2>1, <2>2, Induct
  <2>4. QED
    BY <2>3 DEF g
<1>10. CommandsOf(line) = g[n]
  BY <1>1, <1>2
<1> HIDE DEF g
<1>11. QED
  BY <1>7, <1>8, <1>9, <1>10

\* An \end either has no \begin to take, or takes one of its name.
Closes(a, x, b) ==
  /\ b \in Analyses /\ b.ended = a.ended
  /\ \/ /\ Times(x, a.stack) = 0 /\ b.unopened = a.unopened + 1
     \/ /\ Times(x, a.stack) > 0 /\ b.unopened = a.unopened
        /\ \A e : Times(e, a.stack) = Times(e, b.stack) + IF x = e THEN 1 ELSE 0

LEMMA CloseEnvEffect ==
  ASSUME NEW a \in Analyses, NEW x \in Name, NEW b, b = CloseEnv(a, x)
  PROVE  Closes(a, x, b)
<1> DEFINE stack == a.stack
           there == {i \in 1..Len(stack) : stack[i] = x}
           at == SelectLastInSeq(stack, LAMBDA e : e = x)
<1>1. stack \in Seq(Name) /\ Len(stack) \in Nat /\ a.unopened \in Nat
  BY DEF Analyses
<1>2. at = IF there # {} THEN Max(there) ELSE 0
  BY DEF SelectLastInSeq
<1>3. b = IF at = 0 THEN [a EXCEPT !.unopened = @ + 1] ELSE [a EXCEPT !.stack = RemoveAt(stack, at)]
  BY DEF CloseEnv
<1>4. there = Places(x, stack) \cap (1..Len(stack)) /\ Times(x, stack) = Cardinality(there)
  <2>1. there = Places(x, stack) \cap (1..Len(stack))
    BY DEF Places
  <2>2. QED
    BY <2>1 DEF Times, First
<1> HIDE DEF at, stack
<1>5. CASE there = {}
  <2>1. b = [a EXCEPT !.unopened = @ + 1]
    BY <1>2, <1>3, <1>5
  <2>2. Times(x, stack) = 0
    BY <1>4, <1>5, FS_EmptySet
  <2>3. \A u \in Nat : /\ [a EXCEPT !.unopened = u] \in Analyses
                       /\ [a EXCEPT !.unopened = u].ended = a.ended
                       /\ [a EXCEPT !.unopened = u].unopened = u
    BY DEF Analyses
  <2>4. a.unopened + 1 \in Nat
    BY <1>1
  <2>5. b \in Analyses /\ b.ended = a.ended /\ b.unopened = a.unopened + 1
    BY <2>1, <2>3, <2>4
  <2>6. QED
    BY <2>2, <2>5 DEF stack, Closes
<1>6. CASE there # {}
  <2>1. at \in there
    BY <1>1, <1>2, <1>6, MaxInRange
  <2>2. at \in 1..Len(stack) /\ stack[at] = x /\ at # 0
    BY <1>1, <2>1
  <2>3. /\ RemoveAt(stack, at) \in Seq(Name)
        /\ \A e : Times(e, stack) = Times(e, RemoveAt(stack, at)) + IF x = e THEN 1 ELSE 0
    BY <1>1, <2>2, TimesRemoved
  <2>4. b = [a EXCEPT !.stack = RemoveAt(stack, at)]
    BY <1>3, <2>2
  <2>5. /\ b \in Analyses /\ b.ended = a.ended /\ b.unopened = a.unopened
        /\ b.stack = RemoveAt(stack, at)
    <3>1. \A s \in Seq(Name) : /\ [a EXCEPT !.stack = s] \in Analyses
                              /\ [a EXCEPT !.stack = s].ended = a.ended
                              /\ [a EXCEPT !.stack = s].unopened = a.unopened
                              /\ [a EXCEPT !.stack = s].stack = s
      BY DEF Analyses
    <3>2. QED
      BY <2>3, <2>4, <3>1
  <2>6. Times(x, stack) > 0
    <3>1. Times(x, RemoveAt(stack, at)) \in Nat
      BY <2>3, CountsAreNumbers
    <3>2. Times(x, stack) = Times(x, RemoveAt(stack, at)) + 1
      BY <2>3
    <3>3. QED
      BY <3>1, <3>2
  <2>7. QED
    BY <2>3, <2>5, <2>6 DEF stack, Closes
<1>7. QED
  BY <1>5, <1>6

LEMMA CloseEnvType ==
  \A a \in Analyses, x \in Name : CloseEnv(a, x) \in Analyses
BY CloseEnvEffect DEF Closes

LEMMA EndsAreRead ==
  ASSUME NEW begun \in Analyses, NEW names \in Seq(Name)
  PROVE  \E g \in [0..Len(names) -> Analyses] :
           /\ g[0] = begun /\ FoldLeft(CloseEnv, begun, names) = g[Len(names)]
           /\ \A i \in 1..Len(names) : g[i] = CloseEnv(g[i - 1], names[i])
<1> DEFINE n == Len(names)
           Eq(f) == f = [s \in SUBSET (DOMAIN names) |->
                           IF s = {} THEN begun ELSE CloseEnv(f[s \ {Max(s)}], names[Max(s)])]
           iter == CHOOSE f : Eq(f)
           h == [p \in Analyses \X (1..n) |-> CloseEnv(p[1], names[p[2]])]
           g == [i \in 0..n |-> iter[1..i]]
<1>1. FoldLeft(CloseEnv, begun, names) = iter[DOMAIN names]
  BY DEF FoldLeft, MapThenFoldSet
<1>2. DOMAIN names = 1..n /\ n \in Nat /\ \A i \in 1..n : names[i] \in Name
  OBVIOUS
<1>3. begun \in Analyses
  OBVIOUS
<1>4. h \in [Analyses \X (1..n) -> Analyses]
  BY <1>2, CloseEnvType
<1>5. \E f : Eq(f)
  <2>1. PICK f \in [SUBSET (1..n) -> Analyses] : Folds(f, n, begun, h)
    <3> HIDE DEF h, n
    <3> QED
      BY <1>2, <1>3, <1>4, FoldExists
  <2>2. ASSUME NEW s \in SUBSET (1..n), s # {}
        PROVE  h[<<f[s \ {Max(s)}], Max(s)>>] = CloseEnv(f[s \ {Max(s)}], names[Max(s)])
    <3>1. Max(s) \in 1..n
      BY <1>2, <2>2, MaxInRange
    <3>2. f[s \ {Max(s)}] \in Analyses
      OBVIOUS
    <3>3. QED
      BY <3>1, <3>2
  <2> HIDE DEF h
  <2>3. Eq(f)
    BY <1>2, <2>1, <2>2 DEF Folds
  <2>4. QED
    BY <2>3
<1>6. Eq(iter)
  <2> HIDE DEF Eq
  <2> QED
    BY <1>5
<1> HIDE DEF iter, h
<1>7. g[0] = begun
  <2>1. 1..0 = {} /\ {} \in SUBSET (DOMAIN names) /\ 0 \in 0..n
    BY <1>2
  <2>2. iter[{}] = begun
    BY <1>6, <2>1
  <2>3. QED
    BY <2>1, <2>2
<1>8. ASSUME NEW i \in 1..n PROVE g[i] = CloseEnv(g[i - 1], names[i])
  <2>1. 1..i \in SUBSET (DOMAIN names) /\ i - 1 \in Nat /\ i - 1 + 1 = i /\ i \in 0..n /\ i - 1 \in 0..n
    BY <1>2
  <2>2. Max(1..i) = i /\ (1..i) \ {i} = 1..(i - 1) /\ 1..i # {}
    BY <2>1, FirstNumbers
  <2>3. iter[1..i] = CloseEnv(iter[1..(i - 1)], names[i])
    BY <1>6, <2>1, <2>2
  <2>4. QED
    BY <2>1, <2>3
<1>9. g \in [0..n -> Analyses]
  <2> DEFINE S == {i \in 0..n : g[i] \in Analyses}
  <2> HIDE DEF g
  <2>1. 0 \in S
    <3>1. 0 \in 0..n
      BY <1>2
    <3>2. g[0] \in Analyses
      BY <1>3, <1>7
    <3>3. QED
      BY <3>1, <3>2
  <2>2. ASSUME NEW i \in 0..(n - 1), i \in S PROVE i + 1 \in S
    <3>1. i + 1 \in 1..n /\ i + 1 \in 0..n /\ (i + 1) - 1 = i
      BY <1>2
    <3>2. QED
      BY <1>2, <1>8, <2>2, <3>1, CloseEnvType
  <2>3. \A i \in 0..n : i \in S
    <3> HIDE DEF S
    <3> QED
      BY <1>2, <2>1, <2>2, Induct
  <2>4. QED
    BY <2>3 DEF g
<1>10. FoldLeft(CloseEnv, begun, names) = g[n]
  BY <1>1, <1>2
<1> HIDE DEF g
<1>11. QED
  BY <1>7, <1>8, <1>9, <1>10

\* What the \end of a line leave of the stack, and when all are opened.
ClosesAll(begun, names, b) ==
  /\ b \in Analyses /\ b.ended = begun.ended /\ b.unopened >= begun.unopened
  /\ b.unopened = begun.unopened =>
       \A e : Times(e, begun.stack) = Times(e, b.stack) + Times(e, names)
  /\ (\A e : Times(e, names) <= Times(e, begun.stack)) => b.unopened = begun.unopened

LEMMA EndsAreClosed ==
  ASSUME NEW begun \in Analyses, NEW names \in Seq(Name),
         NEW b, b = FoldLeft(CloseEnv, begun, names)
  PROVE  ClosesAll(begun, names, b)
<1> DEFINE n == Len(names)
<1>1. n \in Nat /\ \A i \in 1..n : names[i] \in Name
  OBVIOUS
<1>2. PICK g \in [0..n -> Analyses] :
        /\ g[0] = begun /\ b = g[n] /\ \A i \in 1..n : g[i] = CloseEnv(g[i - 1], names[i])
  BY EndsAreRead
<1> DEFINE Closed(i) == \A e : Times(e, begun.stack) = Times(e, g[i].stack) + First(Places(e, names), i)
           Enough == \A e : Times(e, names) <= Times(e, begun.stack)
           S == {i \in 0..n : /\ g[i].ended = begun.ended /\ g[i].unopened >= begun.unopened
                              /\ g[i].unopened = begun.unopened => Closed(i)
                              /\ Enough => g[i].unopened = begun.unopened}
<1>3. \A i \in 0..n : g[i] \in Analyses /\ g[i].unopened \in Nat /\ g[i].stack \in Seq(Name)
  BY DEF Analyses
<1>4. begun.unopened \in Nat /\ begun.stack \in Seq(Name)
  BY DEF Analyses
<1>5. 0 \in S
  <2>1. ASSUME NEW e PROVE First(Places(e, names), 0) = 0 /\ Times(e, begun.stack) \in Nat
    BY <1>4, FirstType, CountsAreNumbers
  <2>2. 0 \in 0..n
    BY <1>1
  <2>3. QED
    BY <1>2, <1>4, <2>1, <2>2
<1>6. ASSUME NEW i \in 0..(n - 1), i \in S PROVE i + 1 \in S
  <2> DEFINE x == names[i + 1]
  <2>1. /\ i \in Nat /\ i + 1 \in 1..n /\ i + 1 \in 0..n /\ (i + 1) - 1 = i /\ x \in Name
        /\ g[i + 1] = CloseEnv(g[i], x) /\ g[i] \in Analyses
    BY <1>1, <1>2, <1>3
  <2>2. \A e : First(Places(e, names), i + 1) = First(Places(e, names), i) + IF x = e THEN 1 ELSE 0
    <3> TAKE e
    <3>1. i + 1 \in Places(e, names) <=> x = e
      BY <2>1 DEF Places
    <3>2. QED
      BY <2>1, <3>1, FirstStep
  <2>3. \A e : /\ First(Places(e, names), i) \in Nat /\ First(Places(e, names), i + 1) \in Nat
                /\ Times(e, g[i].stack) \in Nat /\ Times(e, g[i + 1].stack) \in Nat
                /\ Times(e, begun.stack) \in Nat /\ Times(e, names) \in Nat
                /\ First(Places(e, names), i + 1) <= Times(e, names)
    <3> TAKE e
    <3>1. First(Places(e, names), i + 1) <= Times(e, names)
      BY <1>1, <2>1, FirstGrows DEF Times
    <3>2. First(Places(e, names), i) \in Nat /\ First(Places(e, names), i + 1) \in Nat
      BY <2>1, FirstType
    <3>3. /\ Times(e, g[i].stack) \in Nat /\ Times(e, g[i + 1].stack) \in Nat
          /\ Times(e, begun.stack) \in Nat /\ Times(e, names) \in Nat
      <4>1. /\ g[i].stack \in Seq(Name) /\ g[i + 1].stack \in Seq(Name)
            /\ begun.stack \in Seq(Name) /\ names \in Seq(Name)
        BY <1>3, <1>4, <2>1
      <4>2. QED
        BY <4>1, CountsAreNumbers
    <3>4. QED
      BY <3>1, <3>2, <3>3
  <2> DEFINE a == g[i]
             c == g[i + 1]
  <2>4. /\ c.ended = a.ended
        /\ \/ Times(x, a.stack) = 0 /\ c.unopened = a.unopened + 1
           \/ /\ Times(x, a.stack) > 0 /\ c.unopened = a.unopened
              /\ \A e : Times(e, a.stack) = Times(e, c.stack) + IF x = e THEN 1 ELSE 0
    <3>1. a \in Analyses /\ x \in Name /\ c = CloseEnv(a, x)
      BY <2>1
    <3> HIDE DEF a, c, x
    <3>2. Closes(a, x, c)
      BY <3>1, CloseEnvEffect
    <3>3. QED
      BY <3>2 DEF Closes
  <2>5. /\ a.ended = begun.ended /\ a.unopened >= begun.unopened /\ a.unopened \in Nat
        /\ a.unopened = begun.unopened => Closed(i)
        /\ Enough => a.unopened = begun.unopened
    BY <1>3, <1>6
  <2>6. CASE Times(x, a.stack) = 0 /\ c.unopened = a.unopened + 1
    <3>1. ~Enough
      <4> SUFFICES ASSUME Enough PROVE FALSE
        OBVIOUS
      <4>1. Times(x, begun.stack) = Times(x, a.stack) + First(Places(x, names), i)
        BY <2>5
      <4>2. First(Places(x, names), i + 1) = First(Places(x, names), i) + 1
        BY <2>2
      <4>3. Times(x, names) <= Times(x, begun.stack)
        OBVIOUS
      <4> HIDE DEF x, a, Enough
      <4>4. QED
        BY <2>3, <2>6, <4>1, <4>2, <4>3
    <3>2. c.unopened > begun.unopened /\ c.unopened >= begun.unopened
      BY <1>4, <2>5, <2>6
    <3>3. QED
      BY <1>4, <2>1, <2>4, <2>5, <3>1, <3>2
  <2>7. CASE /\ Times(x, a.stack) > 0 /\ c.unopened = a.unopened
             /\ \A e : Times(e, a.stack) = Times(e, c.stack) + IF x = e THEN 1 ELSE 0
    <3>1. Closed(i) => Closed(i + 1)
      <4> SUFFICES ASSUME Closed(i), NEW e
                   PROVE  Times(e, begun.stack) = Times(e, c.stack) + First(Places(e, names), i + 1)
        OBVIOUS
      <4>1. /\ Times(e, begun.stack) = Times(e, a.stack) + First(Places(e, names), i)
            /\ Times(e, a.stack) = Times(e, c.stack) + IF x = e THEN 1 ELSE 0
            /\ First(Places(e, names), i + 1) = First(Places(e, names), i) + IF x = e THEN 1 ELSE 0
        BY <2>2, <2>7
      <4> HIDE DEF x, a, c
      <4>2. QED
        BY <2>3, <4>1 DEF a, c
    <3> HIDE DEF Closed, Enough
    <3>2. QED
      BY <2>1, <2>4, <2>5, <2>7, <3>1
  <2>8. QED
    BY <2>4, <2>6, <2>7
<1>7. n \in S
  <2>1. \A i \in 0..n : i \in S
    <3> HIDE DEF S
    <3> QED
      BY <1>1, <1>5, <1>6, Induct
  <2>2. n \in 0..n
    BY <1>1
  <2>3. QED
    BY <2>1, <2>2
<1>8. \A e : First(Places(e, names), n) = Times(e, names)
  BY DEF Times
<1>9. n \in 0..n
  BY <1>1
<1> HIDE DEF n
<1>10. QED
  BY <1>2, <1>3, <1>7, <1>8, <1>9 DEF ClosesAll

\* The names and the commands of a line are the same ones.
LEMMA NamesAreOfCommands ==
  ASSUME NEW line \in Seq(Tokens), NEW kind \in {"begin", "end"}, NEW e, e # "document"
  PROVE  Times(e, NamesOf(kind, line)) = Given(kind, e, CommandsOf(line))
<1> DEFINE n == Len(line)
<1>1. n \in Nat /\ \A i \in 1..n : line[i] \in Tokens
  OBVIOUS
<1>2. PICK f \in [0..n -> Seq(Name)] :
        /\ f[0] = <<>> /\ NamesOf(kind, line) = f[n]
        /\ \A i \in 1..n : f[i] = ReadName(kind, f[i - 1], line[i])
  BY NamesAreRead
<1>3. PICK g \in [0..n -> Seq(Command)] :
        /\ g[0] = <<>> /\ CommandsOf(line) = g[n]
        /\ \A i \in 1..n : g[i] = ReadCommand(g[i - 1], line[i])
  BY CommandsAreRead
<1> DEFINE S == {i \in 0..n : Times(e, f[i]) = Given(kind, e, g[i])}
<1>4. 0 \in S
  <2>1. Len(<<>>) = 0 /\ 0 \in 0..n /\ 0 \in Nat
    BY <1>1
  <2>2. QED
    BY <1>2, <1>3, <2>1, FirstType DEF Times, Given
<1>5. ASSUME NEW i \in 0..(n - 1), i \in S PROVE i + 1 \in S
  <2> DEFINE t == line[i + 1]
  <2>1. /\ i \in 0..n /\ i + 1 \in 1..n /\ i + 1 \in 0..n /\ (i + 1) - 1 = i /\ t \in Tokens
        /\ f[i] \in Seq(Name) /\ g[i] \in Seq(Command)
    <3>1. i \in 0..n /\ i + 1 \in 1..n /\ i + 1 \in 0..n /\ (i + 1) - 1 = i
      BY <1>1
    <3>2. QED
      BY <1>1, <3>1
  <2>2. f[i + 1] = ReadName(kind, f[i], t) /\ g[i + 1] = ReadCommand(g[i], t)
    BY <1>2, <1>3, <2>1
  <2>3. Times(e, f[i + 1]) = Times(e, f[i]) + IF Is(kind, t) /\ t[2] = e THEN 1 ELSE 0
    <3>1. CASE Is(kind, t)
      <4>1. t[2] \in Name
        BY <2>1 DEF Name
      <4>2. f[i + 1] = Append(f[i], t[2])
        BY <2>2, <3>1 DEF ReadName
      <4> HIDE DEF t
      <4>3. QED
        BY <2>1, <3>1, <4>1, <4>2, TimesAppended
    <3>2. CASE ~Is(kind, t)
      <4>1. f[i + 1] = f[i]
        BY <2>2, <3>2 DEF ReadName
      <4>2. Times(e, f[i]) \in Nat
        BY <2>1, CountsAreNumbers
      <4>3. QED
        BY <3>2, <4>1, <4>2
    <3>3. QED
      BY <3>1, <3>2
  <2>4. Given(kind, e, g[i + 1]) = Given(kind, e, g[i]) + IF Is(kind, t) /\ t[2] = e THEN 1 ELSE 0
    <3>1. CASE t[1] \in {"begin", "end"} /\ t[2] # "document"
      <4>1. t \in Command
        BY <2>1, <3>1 DEF Command
      <4>2. g[i + 1] = Append(g[i], t)
        BY <2>2, <3>1 DEF ReadCommand
      <4> HIDE DEF t
      <4>3. QED
        BY <2>1, <4>1, <4>2, GivenAppended
    <3>2. CASE ~(t[1] \in {"begin", "end"} /\ t[2] # "document")
      <4>1. g[i + 1] = g[i]
        BY <2>2, <3>2 DEF ReadCommand
      <4>2. ~(Is(kind, t) /\ t[2] = e)
        BY <3>2 DEF Is
      <4>3. Given(kind, e, g[i]) \in Nat
        BY <2>1, CountsAreNumbers
      <4>4. QED
        BY <4>1, <4>2, <4>3
    <3>3. QED
      BY <3>1, <3>2
  <2>5. QED
    BY <1>5, <2>1, <2>3, <2>4
<1>6. n \in S
  <2>1. \A i \in 0..n : i \in S
    <3> HIDE DEF S
    <3> QED
      BY <1>1, <1>4, <1>5, Induct
  <2>2. n \in 0..n
    BY <1>1
  <2>3. QED
    BY <2>1, <2>2
<1>7. QED
  BY <1>2, <1>3, <1>6

LEMMA NamesType ==
  ASSUME NEW line \in Seq(Tokens)
  PROVE  /\ \A kind : NamesOf(kind, line) \in Seq(Name)
         /\ CommandsOf(line) \in Seq(Command)
<1>1. Len(line) \in 0..Len(line)
  OBVIOUS
<1>2. ASSUME NEW kind PROVE NamesOf(kind, line) \in Seq(Name)
  BY <1>1, NamesAreRead
<1>3. CommandsOf(line) \in Seq(Command)
  BY <1>1, CommandsAreRead
<1>4. QED
  BY <1>2, <1>3

\* What reading a line does to the stack.
LEMMA LineEffect ==
  ASSUME NEW a \in Analyses, NEW raw \in Seq(Tokens), ~a.ended, ~EndsDocument(raw),
         NEW b, b = AnalyzeLine(a, raw), NEW begins, begins = NamesOf("begin", WithoutComment(raw)),
         NEW ends, ends = NamesOf("end", WithoutComment(raw))
  PROVE  /\ b \in Analyses /\ ~b.ended /\ b.unopened >= a.unopened
         /\ b.unopened = a.unopened =>
              \A e : Times(e, a.stack) + Times(e, begins) = Times(e, b.stack) + Times(e, ends)
         /\ (\A e : Times(e, ends) <= Times(e, a.stack) + Times(e, begins)) => b.unopened = a.unopened
<1> DEFINE line == WithoutComment(raw)
           begun == [a EXCEPT !.stack = @ \o NamesOf("begin", line),
                              !.labels = @ \o NamesOf("label", line),
                              !.display = (@ # (Count("dollars", line) % 2 = 1)),
                              !.odd = @ + (Count("dollar", line) % 2)]
<1>1. line \in Seq(Tokens)
  BY CleanLine
<1>2. begins \in Seq(Name) /\ ends \in Seq(Name) /\ NamesOf("label", line) \in Seq(Name)
  BY <1>1, NamesType
<1>3. b = FoldLeft(CloseEnv, begun, ends)
  BY DEF AnalyzeLine, EndsDocument
<1>4. Count("dollar", line) \in Nat
  <2>1. Len(line) \in 0..Len(line) /\ Count("dollar", line) = Among("dollar", line, Len(line))
    BY <1>1, AmongStep
  <2>2. QED
    BY <1>1, <2>1, AmongType
<1>5. /\ a.stack \in Seq(Name) /\ a.labels \in Seq(Name) /\ a.display \in BOOLEAN
      /\ a.odd \in Nat /\ a.unopened \in Nat /\ a.ended \in BOOLEAN
  BY DEF Analyses
<1>6. /\ begun \in Analyses /\ begun.ended = a.ended /\ begun.unopened = a.unopened
      /\ begun.stack = a.stack \o begins
  <2>1. /\ a.stack \o begins \in Seq(Name) /\ a.labels \o NamesOf("label", line) \in Seq(Name)
        /\ (a.display # (Count("dollars", line) % 2 = 1)) \in BOOLEAN
        /\ a.odd + (Count("dollar", line) % 2) \in Nat
    BY <1>2, <1>4, <1>5
  <2> HIDE DEF line
  <2>2. QED
    BY <2>1 DEF Analyses, line
<1>7. \A e : Times(e, begun.stack) = Times(e, a.stack) + Times(e, begins)
  BY <1>2, <1>5, <1>6, TimesJoined
<1> HIDE DEF begun, line
<1>8. /\ b \in Analyses /\ b.ended = begun.ended /\ b.unopened >= begun.unopened
      /\ b.unopened = begun.unopened =>
           \A e : Times(e, begun.stack) = Times(e, b.stack) + Times(e, ends)
      /\ (\A e : Times(e, ends) <= Times(e, begun.stack)) => b.unopened = begun.unopened
  <2>1. ClosesAll(begun, ends, b)
    BY <1>2, <1>3, <1>6, EndsAreClosed
  <2>2. QED
    BY <2>1 DEF ClosesAll
<1>9. QED
  BY <1>6, <1>7, <1>8

LEMMA AnalyzeLineType ==
  \A a \in Analyses, raw \in Seq(Tokens) : AnalyzeLine(a, raw) \in Analyses
<1> TAKE a \in Analyses, raw \in Seq(Tokens)
<1>1. CASE a.ended
  BY <1>1 DEF AnalyzeLine
<1>2. CASE ~a.ended /\ EndsDocument(raw)
  <2>1. AnalyzeLine(a, raw) = [a EXCEPT !.ended = TRUE]
    BY <1>2 DEF AnalyzeLine, EndsDocument
  <2>2. QED
    BY <2>1 DEF Analyses
<1>3. CASE ~a.ended /\ ~EndsDocument(raw)
  BY <1>3, LineEffect
<1>4. QED
  BY <1>1, <1>2, <1>3

LEMMA AnalysisType == Analysis \in Analyses
BY DEF Analysis, Analyses

LEMMA LinesAreRead ==
  ASSUME NEW lines \in Seq(Seq(Tokens))
  PROVE  \E g \in [0..Len(lines) -> Analyses] :
           /\ g[0] = Analysis /\ Analyze(lines) = g[Len(lines)]
           /\ \A i \in 1..Len(lines) : g[i] = AnalyzeLine(g[i - 1], lines[i])
<1> DEFINE n == Len(lines)
           Eq(f) == f = [s \in SUBSET (DOMAIN lines) |->
                           IF s = {} THEN Analysis ELSE AnalyzeLine(f[s \ {Max(s)}], lines[Max(s)])]
           iter == CHOOSE f : Eq(f)
           h == [p \in Analyses \X (1..n) |-> AnalyzeLine(p[1], lines[p[2]])]
           g == [i \in 0..n |-> iter[1..i]]
<1>1. Analyze(lines) = iter[DOMAIN lines]
  BY DEF Analyze, FoldLeft, MapThenFoldSet
<1>2. DOMAIN lines = 1..n /\ n \in Nat /\ \A i \in 1..n : lines[i] \in Seq(Tokens)
  OBVIOUS
<1>3. Analysis \in Analyses
  BY AnalysisType
<1>4. h \in [Analyses \X (1..n) -> Analyses]
  BY <1>2, AnalyzeLineType
<1>5. \E f : Eq(f)
  <2>1. PICK f \in [SUBSET (1..n) -> Analyses] : Folds(f, n, Analysis, h)
    <3> HIDE DEF h, n
    <3> QED
      BY <1>2, <1>3, <1>4, FoldExists
  <2>2. ASSUME NEW s \in SUBSET (1..n), s # {}
        PROVE  h[<<f[s \ {Max(s)}], Max(s)>>] = AnalyzeLine(f[s \ {Max(s)}], lines[Max(s)])
    <3>1. Max(s) \in 1..n
      BY <1>2, <2>2, MaxInRange
    <3>2. f[s \ {Max(s)}] \in Analyses
      OBVIOUS
    <3>3. QED
      BY <3>1, <3>2
  <2> HIDE DEF h
  <2>3. Eq(f)
    BY <1>2, <2>1, <2>2 DEF Folds
  <2>4. QED
    BY <2>3
<1>6. Eq(iter)
  <2> HIDE DEF Eq
  <2> QED
    BY <1>5
<1> HIDE DEF iter, h
<1>7. g[0] = Analysis
  <2>1. 1..0 = {} /\ {} \in SUBSET (DOMAIN lines) /\ 0 \in 0..n
    BY <1>2
  <2>2. iter[{}] = Analysis
    BY <1>6, <2>1
  <2>3. QED
    BY <2>1, <2>2
<1>8. ASSUME NEW i \in 1..n PROVE g[i] = AnalyzeLine(g[i - 1], lines[i])
  <2>1. 1..i \in SUBSET (DOMAIN lines) /\ i - 1 \in Nat /\ i - 1 + 1 = i /\ i \in 0..n /\ i - 1 \in 0..n
    BY <1>2
  <2>2. Max(1..i) = i /\ (1..i) \ {i} = 1..(i - 1) /\ 1..i # {}
    BY <2>1, FirstNumbers
  <2>3. iter[1..i] = AnalyzeLine(iter[1..(i - 1)], lines[i])
    BY <1>6, <2>1, <2>2
  <2>4. QED
    BY <2>1, <2>3
<1>9. g \in [0..n -> Analyses]
  <2> DEFINE S == {i \in 0..n : g[i] \in Analyses}
  <2> HIDE DEF g
  <2>1. 0 \in S
    <3>1. 0 \in 0..n
      BY <1>2
    <3>2. g[0] \in Analyses
      BY <1>3, <1>7
    <3>3. QED
      BY <3>1, <3>2
  <2>2. ASSUME NEW i \in 0..(n - 1), i \in S PROVE i + 1 \in S
    <3>1. i + 1 \in 1..n /\ i + 1 \in 0..n /\ (i + 1) - 1 = i
      BY <1>2
    <3>2. QED
      BY <1>2, <1>8, <2>2, <3>1, AnalyzeLineType
  <2>3. \A i \in 0..n : i \in S
    <3> HIDE DEF S
    <3> QED
      BY <1>2, <2>1, <2>2, Induct
  <2>4. QED
    BY <2>3 DEF g
<1>10. Analyze(lines) = g[n]
  BY <1>1, <1>2
<1> HIDE DEF g
<1>11. QED
  BY <1>7, <1>8, <1>9, <1>10

---------------------------------------------------------------------------
(* The commands of a text, line behind line.                               *)

Grows(flat, n, ss) ==
  /\ flat[0] = <<>> /\ FlattenSeq(ss) = flat[n]
  /\ \A k \in 1..n : flat[k] = flat[k - 1] \o ss[k]

LEMMA FlatParts ==
  ASSUME NEW T, NEW n \in Nat, NEW ss \in [1..n -> Seq(T)]
  PROVE  \E flat \in [0..n -> Seq(T)] : Grows(flat, n, ss)
<1> DEFINE Eq(f) == f = [i \in 1..n |-> IF i = 1 THEN ss[i] ELSE f[i - 1] \o ss[i]]
           iter == CHOOSE f : Eq(f)
           flat == [k \in 0..n |-> IF k = 0 THEN <<>> ELSE iter[k]]
           S == {k \in 0..n : flat[k] \in Seq(T)}
<1>1. ss \in Seq(Seq(T)) /\ Len(ss) = n /\ DOMAIN ss = 1..n
  OBVIOUS
<1>2. Eq(iter)
  <2>1. PICK f \in [1..n -> Seq(T)] : Flattens(f, n, ss)
    BY FlattenExists
  <2>2. Eq(f)
    BY <2>1 DEF Flattens
  <2> HIDE DEF Eq
  <2>3. QED
    BY <2>2
<1>3. FlattenSeq(ss) = flat[n]
  <2>1. CASE n = 0
    <3>1. ss = <<>> /\ FlattenSeq(ss) = ss
      BY <1>1, <2>1, EmptySeq DEF FlattenSeq
    <3>2. QED
      BY <2>1, <3>1
  <2>2. CASE n # 0
    <3>1. FlattenSeq(ss) = iter[n]
      BY <1>1, <2>2 DEF FlattenSeq
    <3> HIDE DEF iter
    <3>2. QED
      BY <2>2, <3>1
  <2>3. QED
    BY <2>1, <2>2
<1> HIDE DEF iter
<1>4. ASSUME NEW k \in 1..n PROVE flat[k] = flat[k - 1] \o ss[k]
  <2>1. k \in 0..n /\ k # 0 /\ k - 1 \in 0..n /\ flat[k] = iter[k]
    OBVIOUS
  <2>2. CASE k = 1
    <3>1. flat[k - 1] = <<>> /\ iter[k] = ss[k] /\ ss[k] \in Seq(T)
      BY <1>2, <2>2
    <3>2. <<>> \o ss[k] = ss[k]
      BY <3>1, ConcatEmptySeq
    <3>3. QED
      BY <2>1, <3>1, <3>2
  <2>3. CASE k # 1
    <3>1. k - 1 # 0 /\ flat[k - 1] = iter[k - 1]
      BY <2>1, <2>3
    <3>2. iter[k] = iter[k - 1] \o ss[k]
      BY <1>2, <2>3
    <3>3. QED
      BY <2>1, <3>1, <3>2
  <2>4. QED
    BY <2>2, <2>3
<1>5. flat[0] = <<>>
  OBVIOUS
<1>6. flat \in [0..n -> Seq(T)]
  <2> HIDE DEF flat
  <2>1. 0 \in S
    <3>1. <<>> \in Seq(T) /\ 0 \in 0..n
      OBVIOUS
    <3>2. QED
      BY <1>5, <3>1
  <2>2. ASSUME NEW k \in 0..(n - 1), k \in S PROVE k + 1 \in S
    <3>1. k + 1 \in 1..n /\ k + 1 \in 0..n /\ (k + 1) - 1 = k /\ ss[k + 1] \in Seq(T)
      OBVIOUS
    <3>2. flat[k + 1] = flat[k] \o ss[k + 1]
      BY <1>4, <3>1
    <3>3. flat[k] \o ss[k + 1] \in Seq(T)
      <4>1. flat[k] \in Seq(T)
        BY <2>2
      <4>2. QED
        BY <3>1, <4>1
    <3>4. QED
      BY <3>1, <3>2, <3>3
  <2>3. \A k \in 0..n : k \in S
    <3> HIDE DEF S
    <3> QED
      BY <2>1, <2>2, Induct
  <2>4. QED
    BY <2>3 DEF flat
<1> HIDE DEF flat
<1>7. QED
  BY <1>3, <1>4, <1>5, <1>6 DEF Grows

\* What comes first stays where it is.
LEMMA FirstParts ==
  ASSUME NEW T, NEW n \in Nat, NEW ss \in [1..n -> Seq(T)], NEW flat \in [0..n -> Seq(T)],
         \A k \in 1..n : flat[k] = flat[k - 1] \o ss[k], NEW j \in 0..n
  PROVE  /\ Len(flat[j]) \in 0..Len(flat[n])
         /\ \A kind, e : First(Commanded(kind, e, flat[n]), Len(flat[j])) = Given(kind, e, flat[j])
<1> DEFINE Same(m) == /\ Len(flat[j]) <= Len(flat[m])
                      /\ \A kind, e : First(Commanded(kind, e, flat[m]), Len(flat[j])) = Given(kind, e, flat[j])
           S == {m \in 0..(n - j) : Same(j + m)}
<1>1. j \in Nat /\ n - j \in Nat /\ j + 0 = j /\ j + (n - j) = n
  OBVIOUS
<1>2. \A k \in 0..n : flat[k] \in Seq(T) /\ Len(flat[k]) \in Nat
  OBVIOUS
<1>3. 0 \in S
  <2>1. Same(j)
    BY <1>2 DEF Given
  <2>2. QED
    BY <1>1, <2>1
<1>4. ASSUME NEW m \in 0..((n - j) - 1), m \in S PROVE m + 1 \in S
  <2> DEFINE k == j + m
  <2>1. /\ k \in 0..n /\ k + 1 \in 1..n /\ k + 1 \in 0..n /\ (k + 1) - 1 = k /\ j + (m + 1) = k + 1
        /\ m + 1 \in 0..(n - j)
    BY <1>1
  <2>2. Same(k)
    BY <1>4
  <2> HIDE DEF k
  <2>3. flat[k + 1] = flat[k] \o ss[k + 1] /\ flat[k] \in Seq(T) /\ ss[k + 1] \in Seq(T)
    BY <2>1
  <2>4. Len(flat[k]) <= Len(flat[k + 1]) /\ \A i \in 1..Len(flat[k]) : flat[k + 1][i] = flat[k][i]
    <3>1. \A a \in Seq(T), b \in Seq(T) :
            Len(a) <= Len(a \o b) /\ \A i \in 1..Len(a) : (a \o b)[i] = a[i]
      OBVIOUS
    <3> DEFINE f == flat[k]  s == ss[k + 1]
    <3>2. f \in Seq(T) /\ s \in Seq(T) /\ flat[k + 1] = f \o s
      BY <2>3
    <3> HIDE DEF f, s
    <3>3. Len(f) <= Len(f \o s) /\ \A i \in 1..Len(f) : (f \o s)[i] = f[i]
      BY <3>1, <3>2
    <3>4. QED
      BY <3>2, <3>3 DEF f
  <2>5. Len(flat[j]) <= Len(flat[k]) /\ Len(flat[j]) \in Nat /\ Len(flat[k]) \in Nat /\ Len(flat[k + 1]) \in Nat
    BY <1>2, <2>1, <2>2
  <2>6. ASSUME NEW kind, NEW e
        PROVE  First(Commanded(kind, e, flat[k + 1]), Len(flat[j])) = Given(kind, e, flat[j])
    <3>1. Commanded(kind, e, flat[k + 1]) \cap (1..Len(flat[j])) = Commanded(kind, e, flat[k]) \cap (1..Len(flat[j]))
      <4>1. ASSUME NEW i \in 1..Len(flat[j])
            PROVE  i \in Commanded(kind, e, flat[k + 1]) <=> i \in Commanded(kind, e, flat[k])
        <5> DEFINE x == Len(flat[j])  y == Len(flat[k])  z == Len(flat[k + 1])
        <5>1. i \in 1..Len(flat[k]) /\ i \in 1..Len(flat[k + 1])
          <6>1. x <= y /\ y <= z /\ x \in Nat /\ y \in Nat /\ z \in Nat /\ i \in 1..x
            BY <2>4, <2>5
          <6> HIDE DEF x, y, z
          <6>2. i \in 1..y /\ i \in 1..z
            BY <6>1
          <6>3. QED
            BY <6>2 DEF y, z
        <5>2. flat[k + 1][i] = flat[k][i]
          BY <2>4, <5>1
        <5>3. QED
          BY <5>1, <5>2 DEF Commanded
      <4>2. QED
        BY <4>1
    <3>2. QED
      BY <2>2, <3>1 DEF First
  <2>7. Same(k + 1)
    BY <2>4, <2>5, <2>6
  <2>8. QED
    BY <2>1, <2>7
<1>5. n - j \in S
  <2>1. \A m \in 0..(n - j) : m \in S
    <3> HIDE DEF S
    <3> QED
      BY <1>1, <1>3, <1>4, Induct
  <2>2. n - j \in 0..(n - j)
    BY <1>1
  <2>3. QED
    BY <2>1, <2>2
<1>6. Same(n)
  BY <1>1, <1>5
<1>7. QED
  BY <1>2, <1>6

\* What a line names is among the names that are read of it.
LEMMA NameIsFound ==
  ASSUME NEW line \in Seq(Tokens), NEW kind, NEW at \in DOMAIN line, Is(kind, line[at])
  PROVE  Contains(NamesOf(kind, line), line[at][2])
<1> DEFINE n == Len(line)  name == line[at][2]
<1>1. n \in Nat /\ at \in 1..n /\ \A i \in 1..n : line[i] \in Tokens
  OBVIOUS
<1>2. PICK f \in [0..n -> Seq(Name)] :
        /\ f[0] = <<>> /\ NamesOf(kind, line) = f[n]
        /\ \A i \in 1..n : f[i] = ReadName(kind, f[i - 1], line[i])
  BY NamesAreRead
<1> DEFINE S == {i \in 0..n : i >= at => \E k \in 1..Len(f[i]) : f[i][k] = name}
<1>3. 0 \in S
  BY <1>1
<1>4. ASSUME NEW i \in 0..(n - 1), i \in S PROVE i + 1 \in S
  <2>1. i \in 0..n /\ i + 1 \in 1..n /\ i + 1 \in 0..n /\ (i + 1) - 1 = i
    BY <1>1
  <2>2. f[i] \in Seq(Name) /\ f[i + 1] = ReadName(kind, f[i], line[i + 1])
    BY <1>2, <2>1
  <2>3. CASE i + 1 = at
    <3>1. f[i + 1] = Append(f[i], name)
      BY <2>2, <2>3 DEF ReadName
    <3> HIDE DEF name
    <3>2. Len(f[i + 1]) = Len(f[i]) + 1 /\ f[i + 1][Len(f[i]) + 1] = name /\ Len(f[i]) \in Nat
      BY <2>2, <3>1
    <3>3. Len(f[i]) + 1 \in 1..Len(f[i + 1])
      BY <3>2
    <3>4. QED
      BY <2>1, <3>2, <3>3
  <2>4. CASE i + 1 # at /\ i + 1 >= at
    <3>1. i >= at
      BY <1>1, <2>1, <2>4
    <3>2. PICK k \in 1..Len(f[i]) : f[i][k] = name
      BY <1>4, <3>1
    <3>3. k \in 1..Len(f[i + 1]) /\ f[i + 1][k] = f[i][k]
      <4>1. CASE Is(kind, line[i + 1])
        <5>1. f[i + 1] = Append(f[i], line[i + 1][2])
          BY <2>2, <4>1 DEF ReadName
        <5>2. QED
          BY <2>2, <5>1
      <4>2. CASE ~Is(kind, line[i + 1])
        BY <2>2, <4>2 DEF ReadName
      <4>3. QED
        BY <4>1, <4>2
    <3> HIDE DEF name
    <3>4. QED
      BY <2>1, <3>2, <3>3
  <2>5. CASE ~(i + 1 >= at)
    BY <2>1, <2>5
  <2>6. QED
    BY <2>3, <2>4, <2>5
<1>5. n \in S
  <2>1. \A i \in 0..n : i \in S
    <3> HIDE DEF S
    <3> QED
      BY <1>1, <1>3, <1>4, Induct
  <2>2. n \in 0..n
    BY <1>1
  <2>3. QED
    BY <2>1, <2>2
<1>6. \E k \in 1..Len(f[n]) : f[n][k] = name
  BY <1>1, <1>5
<1> HIDE DEF name
<1>7. QED
  BY <1>2, <1>6 DEF Contains, name

\* A line without \end{document} is read as a whole.
LEMMA WholeLine ==
  ASSUME NEW raw \in Seq(Tokens), ~EndsDocument(raw)
  PROVE  CommandsIn(raw) = CommandsOf(WithoutComment(raw))
<1> DEFINE line == WithoutComment(raw)
<1>1. line \in Seq(Tokens)
  BY CleanLine
<1>2. \A i \in 1..Len(line) : line[i] # <<"end", "document">>
  <2> SUFFICES ASSUME NEW i \in 1..Len(line), line[i] = <<"end", "document">> PROVE FALSE
    OBVIOUS
  <2>1. Is("end", line[i]) /\ line[i][2] = "document" /\ i \in DOMAIN line
    BY <1>1 DEF Is
  <2> HIDE DEF line
  <2>2. Contains(NamesOf("end", line), line[i][2])
    BY <1>1, <2>1, NameIsFound
  <2>3. QED
    BY <2>1, <2>2 DEF EndsDocument, line
<1> HIDE DEF line
<1>3. SelectInSeq(line, LAMBDA t : t = <<"end", "document">>) = 0
  BY <1>2 DEF SelectInSeq
<1>4. BeforeEnd(line) = line
  BY <1>3 DEF BeforeEnd
<1>5. QED
  BY <1>4 DEF CommandsIn, CommandsOf, ReadCommand, line

\* No \end comes before its \begin.
Balanced(cs) ==
  \A e : \A k \in 0..Len(cs) : First(Commanded("end", e, cs), k) <= First(Commanded("begin", e, cs), k)

(* What is left on the stack behind a text was begun and not ended, as     *)
(* long as no \end was found without its \begin; and none is found when    *)
(* the text is balanced. The code leaves out the line of \end{document}, so *)
(* this is for texts that have no command in front of it on its line.      *)
LEMMA TextEffect ==
  ASSUME NEW lines \in Seq(Seq(Tokens)), NEW a, a = Analyze(lines), NEW cs, cs = Commands(lines),
         \A i \in DOMAIN lines : EndsDocument(lines[i]) => CommandsIn(lines[i]) = <<>>
  PROVE  /\ a \in Analyses /\ cs \in Seq(Command)
         /\ a.unopened = 0 => \A e : e # "document" =>
              Times(e, a.stack) + Given("end", e, cs) = Given("begin", e, cs)
         /\ Balanced(cs) => a.unopened = 0
<1> DEFINE m == Len(lines)
           ends == {i \in DOMAIN lines : EndsDocument(lines[i])}
           last == IF ends = {} THEN m ELSE Min(ends) - 1
           ss == [i \in 1..last |-> CommandsOf(WithoutComment(lines[i]))]
<1>1. m \in Nat /\ DOMAIN lines = 1..m /\ \A i \in 1..m : lines[i] \in Seq(Tokens)
  OBVIOUS
<1>2. /\ last \in 0..m /\ last \in Nat /\ \A i \in 1..last : i \in 1..m /\ ~EndsDocument(lines[i])
      /\ last < m => EndsDocument(lines[last + 1])
  <2>1. CASE ends = {}
    <3>1. last = m /\ \A i \in 1..m : ~EndsDocument(lines[i])
      BY <1>1, <2>1
    <3> HIDE DEF last, ends, m
    <3>2. QED
      BY <1>1, <3>1
  <2>2. CASE ends # {}
    <3>1. ends \in SUBSET Nat
      BY <1>1
    <3>2. Min(ends) \in ends /\ \A i \in ends : Min(ends) <= i
      <4> HIDE DEF ends
      <4> QED
        BY <2>2, <3>1, MinOfNaturals
    <3>3. Min(ends) \in 1..m /\ EndsDocument(lines[Min(ends)]) /\ last = Min(ends) - 1
      BY <1>1, <2>2, <3>2
    <3>4. ASSUME NEW i \in 1..last PROVE i \in 1..m /\ ~EndsDocument(lines[i])
      <4> HIDE DEF ends, last, m
      <4>1. i \in 1..m /\ i < Min(ends) /\ ~(Min(ends) <= i)
        BY <1>1, <3>3
      <4>2. i \notin ends
        BY <3>2, <4>1
      <4>3. QED
        BY <1>1, <4>1, <4>2 DEF ends
    <3> HIDE DEF ends, last
    <3>5. last \in 0..m /\ last \in Nat /\ last + 1 = Min(ends)
      BY <1>1, <3>3
    <3>6. QED
      BY <3>3, <3>4, <3>5
  <2>3. QED
    BY <2>1, <2>2
<1>3. ss \in [1..last -> Seq(Command)]
  <2>1. \A i \in 1..last : WithoutComment(lines[i]) \in Seq(Tokens)
    BY <1>1, <1>2, CleanLine
  <2> HIDE DEF last
  <2>2. QED
    BY <2>1, NamesType
<1> DEFINE upTo == IF ends = {} THEN m ELSE Min(ends)
           tt == [i \in 1..upTo |-> CommandsIn(lines[i])]
<1>4. cs = FlattenSeq(tt) /\ (upTo = last \/ (upTo = last + 1 /\ last < m))
  <2>1. cs = FlattenSeq(tt)
    BY <1>1 DEF Commands
  <2>2. CASE ends = {}
    BY <2>1, <2>2
  <2>3. CASE ends # {}
    <3>1. ends \in SUBSET Nat /\ ends \subseteq 1..m
      BY <1>1
    <3>2. Min(ends) \in ends
      <4> HIDE DEF ends
      <4> QED
        BY <2>3, <3>1, MinOfNaturals
    <3>3. Min(ends) \in 1..m /\ last = Min(ends) - 1 /\ upTo = Min(ends)
      BY <2>3, <3>1, <3>2
    <3> HIDE DEF ends, last, upTo, tt, m
    <3>4. upTo = last + 1 /\ last < m
      BY <1>1, <3>3
    <3>5. QED
      BY <2>1, <3>4
  <2>4. QED
    BY <2>2, <2>3
<1> HIDE DEF last, ends, upTo
<1>41. /\ upTo \in Nat /\ 0..last \subseteq 0..upTo /\ 1..last \subseteq 1..upTo
       /\ \A i \in 1..last : tt[i] = ss[i]
       /\ upTo # last => upTo = last + 1 /\ tt[last + 1] = <<>>
  <2>1. upTo \in Nat /\ 0..last \subseteq 0..upTo /\ 1..last \subseteq 1..upTo
    BY <1>2, <1>4
  <2>2. ASSUME NEW i \in 1..last PROVE tt[i] = ss[i]
    <3>1. i \in 1..upTo /\ lines[i] \in Seq(Tokens) /\ ~EndsDocument(lines[i])
      BY <1>1, <1>2, <2>1
    <3>2. CommandsIn(lines[i]) = CommandsOf(WithoutComment(lines[i]))
      BY <3>1, WholeLine
    <3>3. QED
      BY <3>1, <3>2
  <2>3. ASSUME upTo # last PROVE upTo = last + 1 /\ tt[last + 1] = <<>>
    <3>1. upTo = last + 1 /\ last < m /\ EndsDocument(lines[last + 1])
      BY <1>2, <1>4, <2>3
    <3>2. last + 1 \in 1..m /\ last + 1 \in 1..upTo
      BY <1>1, <1>2, <3>1
    <3>3. CommandsIn(lines[last + 1]) = <<>>
      BY <1>1, <3>1, <3>2
    <3>4. QED
      BY <3>1, <3>2, <3>3
  <2>4. QED
    BY <2>1, <2>2, <2>3
<1>42. tt \in [1..upTo -> Seq(Command)]
  <2>1. ASSUME NEW i \in 1..upTo PROVE tt[i] \in Seq(Command)
    <3> HIDE DEF tt, ss
    <3>1. i \in 1..last \/ (upTo # last /\ i = last + 1)
      BY <1>2, <1>4, <1>41
    <3>2. CASE i \in 1..last
      BY <1>3, <1>41, <3>2
    <3>3. CASE upTo # last /\ i = last + 1
      <4>1. tt[i] = <<>> /\ <<>> \in Seq(Command)
        BY <1>41, <3>3
      <4>2. QED
        BY <4>1
    <3>4. QED
      BY <3>1, <3>2, <3>3
  <2>2. QED
    BY <2>1
<1>5. PICK flat \in [0..last -> Seq(Command)] :
        flat[0] = <<>> /\ cs = flat[last] /\ \A k \in 1..last : flat[k] = flat[k - 1] \o ss[k]
  <2> HIDE DEF ss, tt, m
  <2>1. PICK all \in [0..upTo -> Seq(Command)] : Grows(all, upTo, tt)
    BY <1>41, <1>42, FlatParts
  <2>2. all[0] = <<>> /\ cs = all[upTo] /\ \A k \in 1..upTo : all[k] = all[k - 1] \o tt[k]
    BY <1>4, <2>1 DEF Grows
  <2>3. \A k \in 0..last : all[k] \in Seq(Command)
    BY <1>41
  <2>4. cs = all[last]
    <3>1. CASE upTo = last
      BY <2>2, <3>1
    <3>2. CASE upTo # last
      <4>1. upTo = last + 1 /\ tt[upTo] = <<>> /\ upTo \in 1..upTo /\ upTo - 1 = last /\ last \in 0..last
        BY <1>2, <1>41, <3>2
      <4>2. all[upTo] = all[last] \o <<>> /\ all[last] \in Seq(Command)
        BY <2>2, <2>3, <4>1
      <4>3. all[last] \o <<>> = all[last]
        BY <4>2, ConcatEmptySeq
      <4>4. QED
        BY <2>2, <4>2, <4>3
    <3>3. QED
      BY <3>1, <3>2
  <2> DEFINE flat == [k \in 0..last |-> all[k]]
  <2>5. flat \in [0..last -> Seq(Command)]
    BY <2>3
  <2>6. flat[0] = <<>> /\ cs = flat[last]
    BY <1>2, <2>2, <2>4
  <2>7. ASSUME NEW k \in 1..last PROVE flat[k] = flat[k - 1] \o ss[k]
    <3>1. k \in 0..last /\ k - 1 \in 0..last /\ k \in 1..upTo /\ tt[k] = ss[k]
      BY <1>2, <1>41
    <3>2. all[k] = all[k - 1] \o tt[k]
      BY <2>2, <3>1
    <3>3. QED
      BY <3>1, <3>2
  <2> HIDE DEF flat
  <2>8. QED
    BY <2>5, <2>6, <2>7
<1> HIDE DEF tt
<1>6. PICK A \in [0..m -> Analyses] :
        A[0] = Analysis /\ a = A[m] /\ \A i \in 1..m : A[i] = AnalyzeLine(A[i - 1], lines[i])
  BY LinesAreRead
<1> DEFINE Fits(i) == \A e : e # "document" =>
             Times(e, A[i].stack) + Given("end", e, flat[i]) = Given("begin", e, flat[i])
           S == {i \in 0..last : /\ ~A[i].ended /\ (A[i].unopened = 0 => Fits(i))
                                 /\ Balanced(cs) => A[i].unopened = 0}
<1>7. /\ \A i \in 0..m : /\ A[i] \in Analyses /\ A[i].unopened \in Nat /\ A[i].stack \in Seq(Name)
      /\ \A i \in 0..last : flat[i] \in Seq(Command) /\ i \in 0..m
  <2>1. ASSUME NEW i \in 0..m PROVE A[i] \in Analyses /\ A[i].unopened \in Nat /\ A[i].stack \in Seq(Name)
    BY DEF Analyses
  <2>2. ASSUME NEW i \in 0..last PROVE flat[i] \in Seq(Command) /\ i \in 0..m
    BY <1>1, <1>2
  <2>3. QED
    BY <2>1, <2>2
<1>8. 0 \in S
  <2>1. \A e, kind : Times(e, <<>>) = 0 /\ Given(kind, e, <<>>) = 0
    <3>1. Len(<<>>) = 0 /\ 0 \in Nat
      OBVIOUS
    <3>2. QED
      BY <3>1, FirstType DEF Times, Given
  <2>2. ~A[0].ended /\ A[0].unopened = 0 /\ A[0].stack = <<>> /\ 0 \in 0..last
    BY <1>2, <1>6 DEF Analysis
  <2>3. QED
    BY <1>5, <2>1, <2>2
<1>9. ASSUME NEW i \in 0..(last - 1), i \in S PROVE i + 1 \in S
  <2> DEFINE line == WithoutComment(lines[i + 1])
             begun == NamesOf("begin", line)
             ended == NamesOf("end", line)
             b == A[i]
             c == A[i + 1]
  <2>1. /\ i \in 0..last /\ i + 1 \in 1..last /\ i + 1 \in 0..last /\ i + 1 \in 1..m /\ (i + 1) - 1 = i
        /\ i \in 0..m /\ i + 1 \in 0..m
    BY <1>1, <1>2
  <2>2. /\ lines[i + 1] \in Seq(Tokens) /\ ~EndsDocument(lines[i + 1])
        /\ b \in Analyses /\ ~b.ended /\ c = AnalyzeLine(b, lines[i + 1])
    BY <1>1, <1>2, <1>6, <1>7, <1>9, <2>1
  <2>3. /\ c \in Analyses /\ ~c.ended /\ c.unopened >= b.unopened
        /\ c.unopened = b.unopened =>
             \A e : Times(e, b.stack) + Times(e, begun) = Times(e, c.stack) + Times(e, ended)
        /\ (\A e : Times(e, ended) <= Times(e, b.stack) + Times(e, begun)) => c.unopened = b.unopened
    <3> HIDE DEF b, c
    <3> QED
      BY <2>2, LineEffect
  <2>4. line \in Seq(Tokens) /\ begun \in Seq(Name) /\ ended \in Seq(Name)
    BY <2>2, CleanLine, NamesType
  <2>5. ASSUME NEW e, e # "document"
        PROVE  /\ Given("begin", e, flat[i + 1]) = Given("begin", e, flat[i]) + Times(e, begun)
               /\ Given("end", e, flat[i + 1]) = Given("end", e, flat[i]) + Times(e, ended)
    <3>1. /\ flat[i + 1] = flat[i] \o ss[i + 1] /\ flat[i] \in Seq(Command)
          /\ ss[i + 1] = CommandsOf(line) /\ ss[i + 1] \in Seq(Command)
      BY <1>3, <1>5, <2>1
    <3>2. \A kind : Given(kind, e, flat[i + 1]) = Given(kind, e, flat[i]) + Given(kind, e, ss[i + 1])
      BY <3>1, GivenJoined
    <3>3. \A kind \in {"begin", "end"} : Times(e, NamesOf(kind, line)) = Given(kind, e, CommandsOf(line))
      BY <2>4, <2>5, NamesAreOfCommands
    <3> HIDE DEF line
    <3>4. Times(e, begun) = Given("begin", e, ss[i + 1]) /\ Times(e, ended) = Given("end", e, ss[i + 1])
      BY <3>1, <3>3
    <3>5. QED
      BY <3>2, <3>4
  <2>6. \A e : /\ Times(e, b.stack) \in Nat /\ Times(e, c.stack) \in Nat
               /\ Times(e, begun) \in Nat /\ Times(e, ended) \in Nat
               /\ Given("begin", e, flat[i]) \in Nat /\ Given("end", e, flat[i]) \in Nat
    <3>1. b.stack \in Seq(Name) /\ c.stack \in Seq(Name) /\ flat[i] \in Seq(Command)
      BY <1>7, <2>1
    <3> HIDE DEF b, c, begun, ended
    <3>2. QED
      BY <2>4, <3>1, CountsAreNumbers
  <2>7. b.unopened \in Nat /\ c.unopened \in Nat
    BY <1>7, <2>1
  <2>8. b.unopened = 0 => \A e : e # "document" =>
          Times(e, b.stack) + Given("end", e, flat[i]) = Given("begin", e, flat[i])
    BY <1>9
  <2>9. Balanced(cs) => b.unopened = 0
    BY <1>9
  <2>10. c.unopened = 0 => Fits(i + 1)
    <3> SUFFICES ASSUME c.unopened = 0, NEW e, e # "document"
                 PROVE  Times(e, c.stack) + Given("end", e, flat[i + 1]) = Given("begin", e, flat[i + 1])
      OBVIOUS
    <3>1. b.unopened = 0 /\ c.unopened = b.unopened
      BY <2>3, <2>7
    <3>2. /\ Times(e, b.stack) + Times(e, begun) = Times(e, c.stack) + Times(e, ended)
          /\ Times(e, b.stack) + Given("end", e, flat[i]) = Given("begin", e, flat[i])
      BY <2>3, <2>8, <3>1
    <3>3. /\ Given("begin", e, flat[i + 1]) = Given("begin", e, flat[i]) + Times(e, begun)
          /\ Given("end", e, flat[i + 1]) = Given("end", e, flat[i]) + Times(e, ended)
      BY <2>5
    <3> HIDE DEF b, c, begun, ended
    <3>4. /\ Times(e, b.stack) \in Nat /\ Times(e, c.stack) \in Nat
          /\ Times(e, begun) \in Nat /\ Times(e, ended) \in Nat
          /\ Given("begin", e, flat[i]) \in Nat /\ Given("end", e, flat[i]) \in Nat
      BY <2>6
    <3> DEFINE tb == Times(e, b.stack)  tc == Times(e, c.stack)
               tx == Times(e, begun)    ty == Times(e, ended)
               gb == Given("begin", e, flat[i])  ge == Given("end", e, flat[i])
    <3>5. /\ tb \in Nat /\ tc \in Nat /\ tx \in Nat /\ ty \in Nat /\ gb \in Nat /\ ge \in Nat
          /\ tb + tx = tc + ty /\ tb + ge = gb
      BY <3>2, <3>4
    <3>6. tc + (ge + ty) = gb + tx
      <4> HIDE DEF tb, tc, tx, ty, gb, ge
      <4>1. QED
        BY <3>5
    <3>7. QED
      BY <3>3, <3>6
  <2>11. Balanced(cs) => c.unopened = 0
    <3> SUFFICES ASSUME Balanced(cs) PROVE c.unopened = 0
      OBVIOUS
    <3>1. b.unopened = 0
      BY <2>9
    <3>2. ASSUME NEW e PROVE Times(e, ended) <= Times(e, b.stack) + Times(e, begun)
      <4>1. CASE e = "document"
        <5>1. Places(e, ended) = {}
          BY <2>2, <4>1 DEF EndsDocument, Contains, Places
        <5>2. Times(e, ended) = 0
          <6>1. Places(e, ended) \cap (1..Len(ended)) = {}
            BY <5>1
          <6>2. QED
            BY <6>1, FS_EmptySet DEF Times, First
        <5> HIDE DEF b, begun, ended
        <5>3. QED
          BY <2>6, <5>2
      <4>2. CASE e # "document"
        <5>1. /\ Len(flat[i + 1]) \in 0..Len(cs)
              /\ First(Commanded("end", e, cs), Len(flat[i + 1])) = Given("end", e, flat[i + 1])
              /\ First(Commanded("begin", e, cs), Len(flat[i + 1])) = Given("begin", e, flat[i + 1])
          <6> HIDE DEF ss
          <6>1. last \in Nat /\ i + 1 \in 0..last /\ \A k \in 1..last : flat[k] = flat[k - 1] \o ss[k]
            BY <1>2, <1>5, <2>1
          <6>2. /\ Len(flat[i + 1]) \in 0..Len(flat[last])
                /\ \A kind, d : First(Commanded(kind, d, flat[last]), Len(flat[i + 1])) = Given(kind, d, flat[i + 1])
            BY <1>3, <6>1, FirstParts
          <6>3. QED
            BY <1>5, <6>2
        <5>2. Given("end", e, flat[i + 1]) <= Given("begin", e, flat[i + 1])
          BY <5>1 DEF Balanced
        <5>3. Times(e, b.stack) + Given("end", e, flat[i]) = Given("begin", e, flat[i])
          BY <2>8, <3>1, <4>2
        <5> HIDE DEF b, begun, ended
        <5>4. QED
          BY <2>5, <2>6, <4>2, <5>2, <5>3
      <4>3. QED
        BY <4>1, <4>2
    <3> HIDE DEF b, c, begun, ended
    <3>3. QED
      BY <2>3, <3>1, <3>2
  <2>12. QED
    BY <2>1, <2>3, <2>10, <2>11
<1>10. last \in S
  <2>1. \A i \in 0..last : i \in S
    <3> HIDE DEF S
    <3> QED
      BY <1>2, <1>8, <1>9, Induct
  <2>2. last \in 0..last
    BY <1>2
  <2>3. QED
    BY <2>1, <2>2
<1>11. A[m].stack = A[last].stack /\ A[m].unopened = A[last].unopened
  <2> DEFINE Q == {i \in 0..(m - last) : /\ A[last + i].stack = A[last].stack
                                         /\ A[last + i].unopened = A[last].unopened
                                         /\ i > 0 => A[last + i].ended}
  <2>1. m - last \in Nat /\ last + 0 = last /\ last + (m - last) = m
    BY <1>1, <1>2
  <2>2. 0 \in Q
    BY <2>1
  <2>3. ASSUME NEW i \in 0..((m - last) - 1), i \in Q PROVE i + 1 \in Q
    <3> DEFINE b == A[last + i]
    <3>1. /\ last + i \in 0..m /\ last + (i + 1) \in 1..m /\ last + (i + 1) - 1 = last + i
          /\ i + 1 \in 0..(m - last)
      BY <1>1, <1>2, <2>1
    <3>2. A[last + (i + 1)] = AnalyzeLine(b, lines[last + (i + 1)]) /\ b \in Analyses
      <4> DEFINE j == last + (i + 1)
      <4>1. j \in 1..m /\ j - 1 = last + i /\ last + i \in 0..m
        <5> HIDE DEF m
        <5>1. last \in Int /\ i \in Int /\ m \in Int
          BY <1>1, <1>2
        <5>2. QED
          BY <3>1, <5>1
      <4>2. A[j - 1] \in Analyses
        <5> HIDE DEF j
        <5>1. QED
          BY <1>7, <4>1
      <4>3. A[j] = AnalyzeLine(A[j - 1], lines[j])
        <5> HIDE DEF j, m
        <5>1. QED
          BY <1>6, <4>1
      <4>4. QED
        BY <4>1, <4>2, <4>3
    <3>3. b.stack = A[last].stack /\ b.unopened = A[last].unopened /\ (i > 0 => b.ended)
      BY <2>3
    <3> HIDE DEF b
    <3>4. CASE b.ended
      <4>1. A[last + (i + 1)] = b
        BY <3>2, <3>4 DEF AnalyzeLine
      <4>2. QED
        BY <3>1, <3>3, <3>4, <4>1
    <3>5. CASE ~b.ended
      <4>1. i = 0 /\ last < m
        <5>1. i = 0
          BY <3>3, <3>5
        <5>2. m \in Nat /\ last \in Nat /\ last + 1 \in 1..m
          BY <1>1, <1>2, <3>1, <5>1
        <5> HIDE DEF m
        <5>3. QED
          BY <5>1, <5>2
      <4>2. EndsDocument(lines[last + (i + 1)])
        BY <1>2, <4>1
      <4>3. A[last + (i + 1)] = [b EXCEPT !.ended = TRUE]
        BY <3>2, <3>5, <4>2 DEF AnalyzeLine, EndsDocument
      <4>4. QED
        BY <3>1, <3>2, <3>3, <4>3 DEF Analyses
    <3>6. QED
      BY <3>4, <3>5
  <2>4. \A i \in 0..(m - last) : i \in Q
    <3> HIDE DEF Q
    <3> QED
      BY <2>1, <2>2, <2>3, Induct
  <2>5. m - last \in Q
    BY <2>1, <2>4
  <2>6. QED
    BY <2>1, <2>5
<1>12. cs \in Seq(Command) /\ a \in Analyses /\ cs = flat[last]
  BY <1>1, <1>2, <1>5, <1>6
<1>13. QED
  BY <1>6, <1>10, <1>11, <1>12

\* A text that is nested has each \end behind its \begin, and as many of both.
LEMMA PartnersPair ==
  ASSUME NEW cs \in Seq(Command), NEW partner \in [DOMAIN cs -> DOMAIN cs],
         \A i \in DOMAIN cs :
           /\ partner[partner[i]] = i /\ partner[i] # i
           /\ i < partner[i] =>
                /\ Is("begin", cs[i]) /\ Is("end", cs[partner[i]])
                /\ cs[i][2] = cs[partner[i]][2]
  PROVE  \A e : \A i \in 1..Len(cs) :
           /\ i \in Commanded("end", e, cs) => partner[i] < i /\ partner[i] \in Commanded("begin", e, cs)
           /\ i \in Commanded("begin", e, cs) => partner[i] \in Commanded("end", e, cs)
<1> DEFINE n == Len(cs)
<1>1. n \in Nat /\ DOMAIN cs = 1..n
  OBVIOUS
<1>2. TAKE e
<1>3. TAKE i \in 1..Len(cs)
<1>4. /\ partner[i] \in 1..n /\ partner[partner[i]] = i /\ partner[i] # i
      /\ i \in 1..n /\ i \in Int /\ partner[i] \in Int
  BY <1>1
<1>5. CASE i < partner[i]
  <2>1. Is("begin", cs[i]) /\ Is("end", cs[partner[i]]) /\ cs[i][2] = cs[partner[i]][2]
    BY <1>1, <1>4, <1>5
  <2>2. QED
    BY <1>1, <1>4, <2>1 DEF Is, Commanded
<1>6. CASE partner[i] < i
  <2>1. Is("begin", cs[partner[i]]) /\ Is("end", cs[i]) /\ cs[i][2] = cs[partner[i]][2]
    <3>1. partner[i] < partner[partner[i]]
      BY <1>4, <1>6
    <3>2. /\ Is("begin", cs[partner[i]]) /\ Is("end", cs[partner[partner[i]]])
          /\ cs[partner[i]][2] = cs[partner[partner[i]]][2]
      BY <1>1, <1>4, <3>1
    <3>3. QED
      BY <1>4, <3>2
  <2>2. QED
    BY <1>1, <1>4, <1>6, <2>1 DEF Is, Commanded
<1>7. QED
  <2> HIDE DEF n
  <2>1. i < partner[i] \/ partner[i] < i
    BY <1>4
  <2>2. QED
    BY <1>5, <1>6, <2>1

LEMMA NestedIsBalanced ==
  ASSUME NEW cs \in Seq(Command), WellNested(cs)
  PROVE  Balanced(cs) /\ \A e : Given("begin", e, cs) = Given("end", e, cs)
<1> DEFINE n == Len(cs)
<1>1. n \in Nat /\ DOMAIN cs = 1..n
  OBVIOUS
<1>2. PICK partner \in [DOMAIN cs -> DOMAIN cs] : \A i \in DOMAIN cs :
        /\ partner[partner[i]] = i /\ partner[i] # i
        /\ i < partner[i] =>
             /\ Is("begin", cs[i]) /\ Is("end", cs[partner[i]])
             /\ cs[i][2] = cs[partner[i]][2]
  BY DEF WellNested
<1>3. \A e : \A i \in 1..Len(cs) :
        /\ i \in Commanded("end", e, cs) => partner[i] < i /\ partner[i] \in Commanded("begin", e, cs)
        /\ i \in Commanded("begin", e, cs) => partner[i] \in Commanded("end", e, cs)
  BY <1>2, PartnersPair
<1>4. ASSUME NEW S, NEW T, NEW k \in 0..n,
             \A i \in S \cap (1..k) : partner[i] \in T \cap (1..k)
      PROVE  First(S, k) <= First(T, k)
  <2> DEFINE A == S \cap (1..k)
             B == T \cap (1..k)
             f == [i \in A |-> partner[i]]
  <2>1. IsFiniteSet(A) /\ IsFiniteSet(B)
    <3>1. IsFiniteSet(1..k)
      BY FS_Interval
    <3>2. QED
      BY <3>1, FS_Subset
  <2>2. \A i, j \in A : partner[i] = partner[j] => i = j
    <3>1. A \subseteq DOMAIN cs
      BY <1>1
    <3>2. \A i \in DOMAIN cs : partner[partner[i]] = i
      BY <1>2
    <3> HIDE DEF A, B, n
    <3>3. QED
      BY <3>1, <3>2
  <2>3. \A i \in A : partner[i] \in B
    BY <1>4
  <2>4. f \in Injection(A, B)
    <3> HIDE DEF A, B
    <3>1. QED
      BY <2>2, <2>3 DEF Injection, IsInjective
  <2>5. Cardinality(A) <= Cardinality(B)
    <3> HIDE DEF A, B, f
    <3>1. QED
      BY <2>1, <2>4, FS_Injection
  <2>6. QED
    BY <2>5 DEF First
<1>5. Balanced(cs)
  <2> SUFFICES ASSUME NEW e, NEW k \in 0..Len(cs)
               PROVE  First(Commanded("end", e, cs), k) <= First(Commanded("begin", e, cs), k)
    BY DEF Balanced
  <2>1. ASSUME NEW i \in Commanded("end", e, cs) \cap (1..k)
        PROVE  partner[i] \in Commanded("begin", e, cs) \cap (1..k)
    <3>1. i \in 1..n /\ i <= k /\ k \in Nat
      BY <1>1 DEF Commanded
    <3>2. partner[i] < i /\ partner[i] \in Commanded("begin", e, cs)
      BY <1>3, <3>1
    <3>3. partner[i] \in 1..n
      BY <3>2 DEF Commanded
    <3>4. partner[i] \in 1..k
      BY <3>1, <3>2, <3>3
    <3>5. QED
      BY <3>2, <3>4
  <2>2. QED
    BY <1>4, <2>1
<1>6. ASSUME NEW e PROVE Given("begin", e, cs) = Given("end", e, cs)
  <2>1. ASSUME NEW i \in Commanded("end", e, cs) \cap (1..n)
        PROVE  partner[i] \in Commanded("begin", e, cs) \cap (1..n)
    BY <1>3 DEF Commanded
  <2>2. ASSUME NEW i \in Commanded("begin", e, cs) \cap (1..n)
        PROVE  partner[i] \in Commanded("end", e, cs) \cap (1..n)
    BY <1>3 DEF Commanded
  <2>3. n \in 0..n
    BY <1>1
  <2>4. First(Commanded("end", e, cs), n) <= First(Commanded("begin", e, cs), n)
    BY <1>4, <2>1, <2>3
  <2>5. First(Commanded("begin", e, cs), n) <= First(Commanded("end", e, cs), n)
    BY <1>4, <2>2, <2>3
  <2>6. First(Commanded("begin", e, cs), n) \in Nat /\ First(Commanded("end", e, cs), n) \in Nat
    BY <1>1, FirstType
  <2>7. QED
    BY <2>4, <2>5, <2>6 DEF Given
<1>7. QED
  BY <1>5, <1>6

\* Nothing but "document" is left on a stack that has nothing else in it.
Left(stack) == {i \in DOMAIN stack : stack[i] # "document"}

LEMMA LeftOnStack ==
  ASSUME NEW stack \in Seq(Name)
  PROVE  /\ Cardinality(Left(stack)) \in Nat
         /\ Cardinality(Left(stack)) = 0 <=> \A e : e # "document" => Times(e, stack) = 0
<1> DEFINE n == Len(stack)
<1>1. n \in Nat /\ DOMAIN stack = 1..n /\ IsFiniteSet(1..n) /\ IsFiniteSet(Left(stack))
  <2>1. n \in Nat /\ DOMAIN stack = 1..n
    OBVIOUS
  <2>2. IsFiniteSet(1..n)
    BY <2>1, FS_Interval
  <2>3. Left(stack) \subseteq 1..n
    BY <2>1 DEF Left
  <2>4. QED
    BY <2>1, <2>2, <2>3, FS_Subset
<1>2. \A e : Times(e, stack) = 0 <=> Places(e, stack) = {}
  <2> TAKE e
  <2>1. Places(e, stack) \subseteq 1..n /\ Places(e, stack) \cap (1..n) = Places(e, stack)
    BY DEF Places
  <2>2. IsFiniteSet(Places(e, stack))
    BY <1>1, <2>1, FS_Subset
  <2>3. QED
    BY <2>1, <2>2, FS_EmptySet DEF Times, First
<1>3. Left(stack) = {} <=> \A e : e # "document" => Places(e, stack) = {}
  <2>1. ASSUME Left(stack) = {}, NEW e, e # "document" PROVE Places(e, stack) = {}
    BY <1>1, <2>1 DEF Left, Places
  <2>2. ASSUME \A e : e # "document" => Places(e, stack) = {}, NEW i \in Left(stack) PROVE FALSE
    <3>1. i \in 1..n /\ stack[i] # "document"
      BY <1>1 DEF Left
    <3>2. i \in Places(stack[i], stack)
      BY <3>1 DEF Places
    <3>3. QED
      BY <2>2, <3>1, <3>2
  <2>3. QED
    BY <2>1, <2>2
<1>4. QED
  BY <1>1, <1>2, <1>3, FS_EmptySet, FS_CardinalityType

LEMMA OccurrencesAreGiven ==
  ASSUME NEW cs \in Seq(Command)
  PROVE  \A kind, e : Occurrences(kind, e, cs) = Given(kind, e, cs)
<1> TAKE kind, e
<1>1. {i \in DOMAIN cs : Is(kind, cs[i]) /\ cs[i][2] = e} = Commanded(kind, e, cs) \cap (1..Len(cs))
  BY DEF Commanded
<1>2. QED
  BY <1>1 DEF Occurrences, Given, First

(* Whatever is typed, a text whose environments are nested is not marked,  *)
(* and one in which an environment is begun more or less often than it is  *)
(* ended is; unless another environment is begun or ended in front of      *)
(* \end{document} on its line, for that line is left out as a whole. The   *)
(* code: beginStack of registerLatexDiagnostics.                           *)
THEOREM LintMarksBadNesting == TextSpec => []LintFitsNesting
<1>1. ASSUME DocText, \A i \in DOMAIN doc : EndsDocument(doc[i]) => CommandsIn(doc[i]) = <<>>
      PROVE  LintFitsNesting
  <2> DEFINE a == Analyze(doc)
             cs == Commands(doc)
             m == Markers(doc)
             names == {c[2] : c \in ToSet(cs)}
             counted == \A e \in names : Occurrences("begin", e, cs) = Occurrences("end", e, cs)
  <2>1. /\ a \in Analyses /\ cs \in Seq(Command)
        /\ a.unopened = 0 => \A e : e # "document" =>
             Times(e, a.stack) + Given("end", e, cs) = Given("begin", e, cs)
        /\ Balanced(cs) => a.unopened = 0
    <3>1. doc \in Seq(Seq(Tokens))
      BY <1>1 DEF DocText
    <3>2. QED
      BY <1>1, <3>1, TextEffect
  <2>2. m.unopened = a.unopened /\ m.unclosed = Cardinality(Left(a.stack))
    BY DEF Markers, Left
  <2> HIDE DEF a, cs, m, counted
  <2>3. a.stack \in Seq(Name) /\ a.unopened \in Nat
    BY <2>1 DEF Analyses
  <2>4. /\ m.unopened \in Nat /\ m.unclosed \in Nat
        /\ m.unclosed = 0 <=> \A e : e # "document" => Times(e, a.stack) = 0
    BY <2>2, <2>3, LeftOnStack
  <2>5. \A e : /\ Times(e, a.stack) \in Nat
               /\ Given("begin", e, cs) \in Nat /\ Given("end", e, cs) \in Nat
    BY <2>1, <2>3, CountsAreNumbers
  <2>6. ASSUME WellNested(cs) PROVE m.unopened = 0 /\ m.unclosed = 0
    <3>1. Balanced(cs) /\ \A e : Given("begin", e, cs) = Given("end", e, cs)
      BY <2>1, <2>6, NestedIsBalanced
    <3>2. a.unopened = 0
      BY <2>1, <3>1
    <3>3. ASSUME NEW e, e # "document" PROVE Times(e, a.stack) = 0
      <4>1. Times(e, a.stack) + Given("end", e, cs) = Given("begin", e, cs)
        BY <2>1, <3>2, <3>3
      <4>2. QED
        BY <2>5, <3>1, <4>1
    <3>4. QED
      BY <2>2, <2>4, <3>2, <3>3
  <2>7. ASSUME m.unopened = 0, m.unclosed = 0 PROVE counted
    <3> SUFFICES ASSUME NEW e \in names
                 PROVE  Occurrences("begin", e, cs) = Occurrences("end", e, cs)
      BY DEF counted
    <3>1. e # "document"
      <4>1. PICK c \in ToSet(cs) : e = c[2]
        OBVIOUS
      <4>2. c \in Command
        BY <2>1, <4>1 DEF ToSet
      <4>3. QED
        BY <4>1, <4>2 DEF Command
    <3> HIDE DEF names
    <3>2. Times(e, a.stack) = 0
      BY <2>4, <2>7, <3>1
    <3>3. Times(e, a.stack) + Given("end", e, cs) = Given("begin", e, cs)
      BY <2>1, <2>2, <2>7, <3>1
    <3>4. Given("end", e, cs) = Given("begin", e, cs)
      BY <2>5, <3>2, <3>3
    <3>5. QED
      BY <2>1, <3>4, OccurrencesAreGiven
  <2>8. CASE m.unopened + m.unclosed > 0
    <3>1. ~WellNested(cs)
      BY <2>4, <2>6, <2>8
    <3>2. QED
      BY <2>8, <3>1 DEF LintFitsNesting, cs, m
  <2>9. CASE ~(m.unopened + m.unclosed > 0)
    <3>1. m.unopened = 0 /\ m.unclosed = 0
      <4> HIDE DEF names
      <4>1. QED
        BY <2>4, <2>9
    <3>2. counted
      BY <2>7, <3>1
    <3>3. QED
      BY <2>9, <3>2 DEF LintFitsNesting, cs, m, counted
  <2>10. QED
    BY <2>8, <2>9
<1>2. DocText => LintFitsNesting
  BY <1>1 DEF LintFitsNesting
<1>3. QED
  BY <1>2, DocIsText, PTL
---------------------------------------------------------------------------
(* The file that is open.                                                  *)

USE TextAssumption

Stacks == {s \in Seq(LogPath) : Len(s) > 0}
Pushed(stack, l) == IF l.opens = NoFile THEN stack ELSE Append(stack, l.opens)
Track(stack, l) ==
  IF l.closes /\ Len(Pushed(stack, l)) > 1 THEN Front(Pushed(stack, l)) ELSE Pushed(stack, l)

LEMMA MainIsAPath == <<"main.tex">> \in LogPath
<1>1. <<"main.tex">> \in Seq(PathNames)
  OBVIOUS
<1>2. Len(<<"main.tex">>) = 1 /\ <<"main.tex">>[1] = "main.tex"
  OBVIOUS
<1>3. QED
  BY <1>1, <1>2 DEF LogPath, Last

\* There is always a file open.
LEMMA TrackType ==
  ASSUME NEW stack \in Stacks, NEW l \in LogLine
  PROVE  /\ Track(stack, l) \in Stacks
         /\ l.opens # NoFile => l.opens \in LogPath
<1>1. l.opens # NoFile => l.opens \in LogPath
  BY DEF LogLine
<1>2. Pushed(stack, l) \in Stacks
  <2>1. l.opens # NoFile => Append(stack, l.opens) \in Seq(LogPath) /\ Len(Append(stack, l.opens)) > 0
    BY <1>1 DEF Stacks
  <2>2. QED
    BY <2>1 DEF Pushed, Stacks
<1>3. \A s \in Stacks : Len(s) > 1 => Front(s) \in Stacks
  BY DEF Stacks, Front
<1>4. QED
  BY <1>1, <1>2, <1>3 DEF Track

LEMMA TrackedStacks ==
  ASSUME NEW lines \in Seq(LogLine)
  PROVE  \E g \in [0..Len(lines) -> Stacks] :
           /\ g[0] = <<<<"main.tex">>>> /\ Opened(lines) = Last(g[Len(lines)])
           /\ \A i \in 1..Len(lines) : g[i] = Track(g[i - 1], lines[i])
<1> DEFINE n == Len(lines)
           base == <<<<"main.tex">>>>
           Eq(f) == f = [s \in SUBSET (DOMAIN lines) |->
                           IF s = {} THEN base ELSE Track(f[s \ {Max(s)}], lines[Max(s)])]
           iter == CHOOSE f : Eq(f)
           h == [p \in Stacks \X (1..n) |-> Track(p[1], lines[p[2]])]
           g == [i \in 0..n |-> iter[1..i]]
<1>1. Opened(lines) = Last(iter[DOMAIN lines])
  BY DEF Opened, FoldLeft, MapThenFoldSet, Track, Pushed
<1>2. DOMAIN lines = 1..n /\ n \in Nat /\ \A i \in 1..n : lines[i] \in LogLine
  OBVIOUS
<1>3. base \in Stacks
  BY MainIsAPath DEF Stacks
<1>4. h \in [Stacks \X (1..n) -> Stacks]
  BY <1>2, TrackType
<1>5. \E f : Eq(f)
  <2>1. PICK f \in [SUBSET (1..n) -> Stacks] : Folds(f, n, base, h)
    <3> HIDE DEF base, h, n
    <3> QED
      BY <1>2, <1>3, <1>4, FoldExists
  <2>2. ASSUME NEW s \in SUBSET (1..n), s # {}
        PROVE  h[<<f[s \ {Max(s)}], Max(s)>>] = Track(f[s \ {Max(s)}], lines[Max(s)])
    <3>1. Max(s) \in 1..n
      BY <1>2, <2>2, MaxInRange
    <3>2. f[s \ {Max(s)}] \in Stacks
      OBVIOUS
    <3>3. QED
      BY <3>1, <3>2
  <2>3. Eq(f)
    BY <1>2, <2>1, <2>2 DEF Folds
  <2>4. QED
    BY <2>3
<1>6. Eq(iter)
  <2> HIDE DEF Eq
  <2> QED
    BY <1>5
<1> HIDE DEF iter, h, base
<1>7. g[0] = base
  <2>1. 1..0 = {} /\ {} \in SUBSET (DOMAIN lines) /\ 0 \in 0..n
    BY <1>2
  <2>2. iter[{}] = base
    BY <1>6, <2>1
  <2>3. QED
    BY <2>1, <2>2
<1>8. ASSUME NEW i \in 1..n PROVE g[i] = Track(g[i - 1], lines[i])
  <2>1. 1..i \in SUBSET (DOMAIN lines) /\ i - 1 \in Nat /\ i - 1 + 1 = i /\ i \in 0..n /\ i - 1 \in 0..n
    BY <1>2
  <2>2. Max(1..i) = i /\ (1..i) \ {i} = 1..(i - 1) /\ 1..i # {}
    BY <2>1, FirstNumbers
  <2>3. iter[1..i] = Track(iter[1..(i - 1)], lines[i])
    BY <1>6, <2>1, <2>2
  <2>4. QED
    BY <2>1, <2>3
<1>9. g \in [0..n -> Stacks]
  <2> DEFINE S == {i \in 0..n : g[i] \in Stacks}
  <2> HIDE DEF g
  <2>1. 0 \in S
    BY <1>2, <1>3, <1>7
  <2>2. ASSUME NEW k \in 0..(n - 1), k \in S PROVE k + 1 \in S
    <3>1. k + 1 \in 1..n /\ k + 1 \in 0..n /\ (k + 1) - 1 = k
      BY <1>2
    <3>2. g[k + 1] = Track(g[k], lines[k + 1]) /\ lines[k + 1] \in LogLine
      BY <1>2, <1>8, <3>1
    <3>3. QED
      BY <2>2, <3>1, <3>2, TrackType
  <2> HIDE DEF S
  <2>3. \A k \in 0..n : k \in S
    BY <1>2, <2>1, <2>2, Induct
  <2>4. QED
    BY <2>3 DEF S, g
<1>10. g[n] = iter[DOMAIN lines]
  BY <1>2
<1>11. QED
  BY <1>1, <1>7, <1>8, <1>9, <1>10 DEF base

LEMMA OpenedType ==
  ASSUME NEW lines \in Seq(LogLine)
  PROVE  Opened(lines) \in LogPath
<1>1. PICK g \in [0..Len(lines) -> Stacks] : Opened(lines) = Last(g[Len(lines)])
  BY TrackedStacks
<1>2. Len(lines) \in 0..Len(lines)
  OBVIOUS
<1>3. \A s \in Stacks : Last(s) \in LogPath
  BY DEF Stacks, Last
<1>4. QED
  BY <1>1, <1>2, <1>3

\* How many files are open behind the first k lines, and which.
Openings(lines) == {m \in DOMAIN lines : lines[m].opens # NoFile}
Closings(lines) == {m \in DOMAIN lines : lines[m].closes}
DepthAt(lines, k) == First(Openings(lines), k) - First(Closings(lines), k)
StillOpen(lines, i) ==
  {j \in Openings(lines) : j <= i /\ \A k \in j..i : DepthAt(lines, k) >= DepthAt(lines, j)}

LEMMA FileAtIsLastOpen ==
  ASSUME NEW lines \in Seq(LogLine), NEW i \in 0..Len(lines), NEW first, first = SubSeq(lines, 1, i)
  PROVE  FileAt(lines, i) = IF StillOpen(first, i) = {} THEN <<"main.tex">>
                            ELSE first[Max(StillOpen(first, i))].opens
<1> DEFINE Depth(k) == Cardinality({m \in 1..k : lines[m].opens # NoFile}) -
                       Cardinality({m \in 1..k : lines[m].closes})
           within == {j \in 1..i : lines[j].opens # NoFile /\ \A k \in j..i : Depth(k) >= Depth(j)}
<1>1. /\ i \in Nat /\ first \in Seq(LogLine) /\ Len(first) = i /\ DOMAIN first = 1..i
      /\ \A m \in 1..i : first[m] = lines[m]
  OBVIOUS
<1>2. ASSUME NEW k \in 0..i PROVE Depth(k) = DepthAt(first, k)
  <2>1. \A m \in 1..k : m \in 1..i
    BY <1>1
  <2>2. /\ {m \in 1..k : lines[m].opens # NoFile} = Openings(first) \cap (1..k)
        /\ {m \in 1..k : lines[m].closes} = Closings(first) \cap (1..k)
    BY <1>1, <2>1 DEF Openings, Closings
  <2>3. QED
    BY <2>2 DEF DepthAt, First
<1>3. within = StillOpen(first, i)
  <2>1. ASSUME NEW j PROVE j \in within <=> j \in StillOpen(first, i)
    <3> HIDE DEF Depth
    <3>1. j \in within <=> j \in 1..i /\ lines[j].opens # NoFile /\ \A k \in j..i : Depth(k) >= Depth(j)
      OBVIOUS
    <3>2. j \in StillOpen(first, i) <=>
            j \in Openings(first) /\ j <= i /\ \A k \in j..i : DepthAt(first, k) >= DepthAt(first, j)
      BY DEF StillOpen
    <3>3. j \in Openings(first) <=> j \in 1..i /\ lines[j].opens # NoFile
      BY <1>1 DEF Openings
    <3>4. ASSUME j \in 1..i
          PROVE  j <= i /\ j \in 0..i /\ \A k \in j..i : Depth(k) = DepthAt(first, k)
      <4>1. j <= i /\ j \in 0..i /\ \A k \in j..i : k \in 0..i
        BY <1>1, <3>4
      <4>2. QED
        BY <1>2, <4>1
    <3>5. j \in 1..i => Depth(j) = DepthAt(first, j)
      BY <1>2, <3>4
    <3>6. QED
      BY <3>1, <3>2, <3>3, <3>4, <3>5
  <2>2. QED
    BY <2>1
<1>4. FileAt(lines, i) = IF within = {} THEN <<"main.tex">> ELSE lines[Max(within)].opens
  BY DEF FileAt
<1>5. within # {} => Max(within) \in 1..i
  <2>1. within \in SUBSET (1..i)
    OBVIOUS
  <2> HIDE DEF within
  <2>2. QED
    BY <1>1, <2>1, MaxInRange
<1> HIDE DEF within
<1>6. QED
  BY <1>1, <1>3, <1>4, <1>5

LEMMA DepthSteps ==
  ASSUME NEW lines \in Seq(LogLine), NEW k \in 0..(Len(lines) - 1)
  PROVE  /\ DepthAt(lines, k) \in Int /\ DepthAt(lines, k + 1) \in Int
         /\ DepthAt(lines, k + 1) = DepthAt(lines, k)
              + (IF lines[k + 1].opens # NoFile THEN 1 ELSE 0) - (IF lines[k + 1].closes THEN 1 ELSE 0)
<1>1. k \in Nat /\ k + 1 \in Nat /\ k + 1 \in DOMAIN lines
  OBVIOUS
<1> DEFINE o == First(Openings(lines), k)  c == First(Closings(lines), k)
           oo == First(Openings(lines), k + 1)  cc == First(Closings(lines), k + 1)
<1>2. o \in Nat /\ c \in Nat /\ oo \in Nat /\ cc \in Nat
  BY <1>1, FirstType
<1>3. /\ oo = o + IF k + 1 \in Openings(lines) THEN 1 ELSE 0
      /\ cc = c + IF k + 1 \in Closings(lines) THEN 1 ELSE 0
  BY <1>1, FirstStep
<1>4. /\ k + 1 \in Openings(lines) <=> lines[k + 1].opens # NoFile
      /\ k + 1 \in Closings(lines) <=> lines[k + 1].closes
  BY <1>1 DEF Openings, Closings
<1>5. DepthAt(lines, k) = o - c /\ DepthAt(lines, k + 1) = oo - cc
  BY DEF DepthAt
<1> HIDE DEF o, c, oo, cc
<1>6. QED
  BY <1>2, <1>3, <1>4, <1>5

(* The stack behind the first k lines: above "main.tex" it holds the files  *)
(* that are still open, each as high as the depth at which it was opened.   *)
Holds(lines, k, s) ==
  LET Height(j) == DepthAt(lines, j) - DepthAt(lines, k) + Len(s)
  IN  /\ s \in Stacks /\ s[1] = <<"main.tex">>
      /\ \A j \in StillOpen(lines, k) : Height(j) \in 2..Len(s) /\ s[Height(j)] = lines[j].opens
      /\ \A p \in 2..Len(s) : \E j \in StillOpen(lines, k) : Height(j) = p

OneAtATime(lines) == \A k \in DOMAIN lines : lines[k].closes => lines[k].opens = NoFile

\* A line more: what it opens is open, and what is above the new depth is not.
LEMMA StillOpenSteps ==
  ASSUME NEW lines \in Seq(LogLine), NEW k \in 0..(Len(lines) - 1), OneAtATime(lines)
  PROVE  /\ \A j \in StillOpen(lines, k) : j \in 1..k /\ DepthAt(lines, j) \in Int
                                           /\ DepthAt(lines, j) <= DepthAt(lines, k)
         /\ \A j : j \in StillOpen(lines, k + 1) <=>
                     \/ j \in StillOpen(lines, k) /\ DepthAt(lines, k + 1) >= DepthAt(lines, j)
                     \/ j = k + 1 /\ lines[k + 1].opens # NoFile
<1> DEFINE D(m) == DepthAt(lines, m)
           n == Len(lines)
<1>1. n \in Nat /\ DOMAIN lines = 1..n /\ k \in Nat /\ k + 1 \in 1..n
  OBVIOUS
<1>2. \A m \in 0..(n - 1) : D(m) \in Int /\ D(m + 1) \in Int
  BY DepthSteps
<1>3. \A m \in 0..n : D(m) \in Int
  <2> TAKE m \in 0..n
  <2>1. m \in 0..(n - 1) \/ (m - 1 \in 0..(n - 1) /\ (m - 1) + 1 = m)
    BY <1>1
  <2> HIDE DEF D
  <2>2. QED
    BY <1>2, <2>1
<1> HIDE DEF D
<1>4. ASSUME NEW j \in StillOpen(lines, k) PROVE j \in 1..k /\ D(j) \in Int /\ D(j) <= D(k)
  <2>1. j \in 1..n /\ j <= k /\ \A i \in j..k : D(i) >= D(j)
    BY <1>1 DEF StillOpen, Openings, D
  <2>2. j \in 1..k /\ k \in j..k /\ j \in 0..n /\ k \in 0..n
    BY <1>1, <2>1
  <2>3. D(j) \in Int /\ D(k) \in Int /\ D(k) >= D(j)
    BY <1>3, <2>1, <2>2
  <2>4. QED
    BY <2>2, <2>3
<1>5. ASSUME NEW j
      PROVE  j \in StillOpen(lines, k + 1) <=>
               \/ j \in StillOpen(lines, k) /\ D(k + 1) >= D(j)
               \/ j = k + 1 /\ lines[k + 1].opens # NoFile
  <2>1. \A i : j \in StillOpen(lines, i) <=>
               j \in 1..n /\ lines[j].opens # NoFile /\ j <= i /\ \A m \in j..i : D(m) >= D(j)
    BY <1>1 DEF StillOpen, Openings, D
  <2>2. CASE j = k + 1
    <3>1. j..(k + 1) = {k + 1} /\ ~(j <= k) /\ D(k + 1) >= D(j)
      BY <1>1, <1>3, <2>2
    <3>2. QED
      BY <1>1, <2>1, <2>2, <3>1
  <2>3. CASE j \in 1..k
    <3>1. j..(k + 1) = (j..k) \cup {k + 1} /\ j <= k + 1 /\ j <= k
      <4>1. k \in Nat /\ j \in Nat /\ j <= k
        BY <1>1, <2>3
      <4>2. \A x : x \in j..(k + 1) <=> x \in j..k \/ x = k + 1
        BY <4>1
      <4>3. QED
        BY <4>1, <4>2
    <3>2. (\A m \in j..(k + 1) : D(m) >= D(j)) <=> (\A m \in j..k : D(m) >= D(j)) /\ D(k + 1) >= D(j)
      BY <3>1
    <3>3. j # k + 1
      BY <1>1, <2>3
    <3>4. QED
      BY <2>1, <3>1, <3>2, <3>3
  <2>4. CASE j # k + 1 /\ j \notin 1..k
    <3>1. j \in 1..n => ~(j <= k + 1) /\ ~(j <= k)
      BY <1>1, <2>4
    <3>2. QED
      BY <2>1, <2>4, <3>1
  <2>5. QED
    BY <2>2, <2>3, <2>4
<1>6. QED
  BY <1>4, <1>5 DEF D

LEMMA HoldsOneMore ==
  ASSUME NEW lines \in Seq(LogLine), NEW k \in 0..(Len(lines) - 1), OneAtATime(lines),
         NEW s, Holds(lines, k, s)
  PROVE  Holds(lines, k + 1, Track(s, lines[k + 1]))
<1> DEFINE l == lines[k + 1]
           t == Track(s, l)
           D(m) == DepthAt(lines, m)
           W(m) == StillOpen(lines, m)
<1>1. /\ k \in Nat /\ k + 1 \in Nat /\ k + 1 \in DOMAIN lines /\ l \in LogLine
      /\ l.closes => l.opens = NoFile
  BY DEF OneAtATime
<1>2. /\ D(k) \in Int /\ D(k + 1) \in Int
      /\ D(k + 1) = D(k) + (IF l.opens # NoFile THEN 1 ELSE 0) - (IF l.closes THEN 1 ELSE 0)
  BY DepthSteps
<1>3. /\ \A j \in W(k) : j \in 1..k /\ D(j) \in Int /\ D(j) <= D(k)
      /\ \A j : j \in W(k + 1) <=> \/ j \in W(k) /\ D(k + 1) >= D(j)
                                   \/ j = k + 1 /\ l.opens # NoFile
  BY StillOpenSteps
<1>4. /\ s \in Stacks /\ s[1] = <<"main.tex">> /\ Len(s) \in Nat /\ Len(s) > 0
      /\ \A j \in W(k) : D(j) - D(k) + Len(s) \in 2..Len(s) /\ s[D(j) - D(k) + Len(s)] = lines[j].opens
      /\ \A p \in 2..Len(s) : \E j \in W(k) : D(j) - D(k) + Len(s) = p
  <2>1. s \in Stacks => Len(s) \in Nat /\ Len(s) > 0
    BY DEF Stacks
  <2>2. QED
    BY <2>1 DEF Holds
<1>5. t \in Stacks /\ (l.opens # NoFile => l.opens \in LogPath)
  BY <1>1, <1>4, TrackType
<1>6. SUFFICES /\ t[1] = <<"main.tex">>
               /\ \A j \in W(k + 1) : /\ D(j) - D(k + 1) + Len(t) \in 2..Len(t)
                                      /\ t[D(j) - D(k + 1) + Len(t)] = lines[j].opens
               /\ \A p \in 2..Len(t) : \E j \in W(k + 1) : D(j) - D(k + 1) + Len(t) = p
  BY <1>5 DEF Holds
<1>7. CASE l.opens # NoFile
  <2>1. ~l.closes /\ t = Append(s, l.opens) /\ D(k + 1) = D(k) + 1
    BY <1>1, <1>2, <1>7 DEF Track, Pushed
  <2> HIDE DEF t, D, W, l
  <2>2. /\ Len(t) = Len(s) + 1 /\ t[Len(s) + 1] = l.opens
        /\ \A p \in 1..Len(s) : t[p] = s[p]
    BY <1>4, <2>1 DEF Stacks
  <2>3. ASSUME NEW j \in W(k)
        PROVE  /\ j \in W(k + 1) /\ D(j) - D(k + 1) + Len(t) = D(j) - D(k) + Len(s)
               /\ D(j) - D(k + 1) + Len(t) \in 2..Len(t)
               /\ t[D(j) - D(k + 1) + Len(t)] = lines[j].opens
    <3>1. D(j) \in Int /\ D(j) <= D(k) /\ D(j) - D(k) + Len(s) \in 2..Len(s)
          /\ s[D(j) - D(k) + Len(s)] = lines[j].opens
      BY <1>3, <1>4
    <3>2. D(k + 1) >= D(j) /\ D(j) - D(k + 1) + Len(t) = D(j) - D(k) + Len(s)
      <4> DEFINE x == D(j)  d == D(k)  e == D(k + 1)  u == Len(s)  v == Len(t)
      <4>1. x \in Int /\ d \in Int /\ u \in Nat /\ x <= d /\ e = d + 1 /\ v = u + 1
        BY <1>2, <1>4, <2>1, <2>2, <3>1
      <4> HIDE DEF x, d, e, u, v
      <4>2. e >= x /\ x - e + v = x - d + u
        BY <4>1
      <4>3. QED
        BY <4>2 DEF x, d, e, u, v
    <3>3. D(j) - D(k) + Len(s) \in 2..Len(t) /\ D(j) - D(k) + Len(s) \in 1..Len(s)
      BY <1>4, <2>2, <3>1
    <3>4. QED
      BY <1>3, <2>2, <3>1, <3>2, <3>3
  <2>4. /\ k + 1 \in W(k + 1) /\ D(k + 1) - D(k + 1) + Len(t) = Len(t)
        /\ Len(t) \in 2..Len(t) /\ t[Len(t)] = lines[k + 1].opens
    BY <1>2, <1>3, <1>4, <1>7, <2>2 DEF l
  <2>5. t[1] = <<"main.tex">>
    BY <1>4, <2>2
  <2>6. ASSUME NEW j \in W(k + 1)
        PROVE  D(j) - D(k + 1) + Len(t) \in 2..Len(t) /\ t[D(j) - D(k + 1) + Len(t)] = lines[j].opens
    <3>1. j \in W(k) \/ j = k + 1
      BY <1>3
    <3>2. QED
      BY <2>3, <2>4, <3>1
  <2>7. ASSUME NEW p \in 2..Len(t) PROVE \E j \in W(k + 1) : D(j) - D(k + 1) + Len(t) = p
    <3>1. p \in 2..Len(s) \/ p = Len(t)
      BY <1>4, <2>2
    <3>2. CASE p \in 2..Len(s)
      BY <1>4, <2>3, <3>2
    <3>3. CASE p = Len(t)
      BY <2>4, <3>3
    <3>4. QED
      BY <3>1, <3>2, <3>3
  <2>8. QED
    BY <2>5, <2>6, <2>7
<1>8. CASE l.opens = NoFile /\ l.closes /\ Len(s) > 1
  <2>1. t = Front(s) /\ D(k + 1) = D(k) - 1
    BY <1>1, <1>2, <1>8 DEF Track, Pushed
  <2> HIDE DEF t, D, W, l
  <2>2. /\ Len(t) = Len(s) - 1 /\ Len(t) \in Nat
        /\ \A p \in 1..(Len(s) - 1) : t[p] = s[p]
    BY <1>4, <1>8, <2>1 DEF Stacks, Front
  <2>3. t[1] = <<"main.tex">>
    BY <1>4, <1>8, <2>2
  <2>4. \A j : j \in W(k + 1) <=> j \in W(k) /\ D(k + 1) >= D(j)
    BY <1>3, <1>8
  <2>5. ASSUME NEW j \in W(k)
        PROVE  /\ D(j) \in Int /\ D(j) - D(k + 1) + Len(t) = D(j) - D(k) + Len(s)
               /\ D(k + 1) >= D(j) <=> D(j) - D(k) + Len(s) <= Len(t)
    <3> DEFINE x == D(j)  d == D(k)  e == D(k + 1)  u == Len(s)  v == Len(t)
    <3>1. x \in Int /\ d \in Int /\ u \in Nat /\ e = d - 1 /\ v = u - 1
      BY <1>2, <1>3, <1>4, <2>1, <2>2
    <3> HIDE DEF x, d, e, u, v
    <3>2. x \in Int /\ x - e + v = x - d + u /\ (e >= x <=> x - d + u <= v)
      BY <3>1
    <3>3. QED
      BY <3>2 DEF x, d, e, u, v
  <2>6. ASSUME NEW j \in W(k + 1)
        PROVE  D(j) - D(k + 1) + Len(t) \in 2..Len(t) /\ t[D(j) - D(k + 1) + Len(t)] = lines[j].opens
    <3>1. j \in W(k) /\ D(k + 1) >= D(j)
      BY <2>4
    <3>2. /\ D(j) - D(k) + Len(s) \in 2..Len(s) /\ s[D(j) - D(k) + Len(s)] = lines[j].opens
          /\ D(j) - D(k) + Len(s) <= Len(t) /\ D(j) - D(k + 1) + Len(t) = D(j) - D(k) + Len(s)
      BY <1>4, <2>5, <3>1
    <3>3. D(j) - D(k) + Len(s) \in 2..Len(t) /\ D(j) - D(k) + Len(s) \in 1..(Len(s) - 1)
      BY <1>4, <2>2, <3>2
    <3>4. QED
      BY <2>2, <3>2, <3>3
  <2>7. ASSUME NEW p \in 2..Len(t) PROVE \E j \in W(k + 1) : D(j) - D(k + 1) + Len(t) = p
    <3>1. p \in 2..Len(s) /\ p <= Len(t)
      BY <1>4, <2>2
    <3>2. PICK j \in W(k) : D(j) - D(k) + Len(s) = p
      BY <1>4, <3>1
    <3>3. QED
      BY <2>4, <2>5, <3>1, <3>2
  <2>8. QED
    BY <2>3, <2>6, <2>7
<1>9. CASE l.opens = NoFile /\ l.closes /\ ~(Len(s) > 1)
  <2>1. t = s /\ Len(s) = 1
    <3>1. Pushed(s, l) = s
      BY <1>9 DEF Pushed
    <3>2. t = s
      BY <1>9, <3>1 DEF Track
    <3>3. Len(s) \in Nat /\ Len(s) > 0 /\ ~(Len(s) > 1)
      BY <1>4, <1>9
    <3>4. \A n \in Nat : n > 0 /\ ~(n > 1) => n = 1
      OBVIOUS
    <3>5. QED
      BY <3>2, <3>3, <3>4
  <2> HIDE DEF t, D, W, l
  <2>2. 2..Len(s) = {}
    BY <2>1
  <2>3. W(k) = {} /\ W(k + 1) = {}
    BY <1>3, <1>4, <1>9, <2>2
  <2>4. QED
    BY <1>4, <2>1, <2>2, <2>3
<1>10. CASE l.opens = NoFile /\ ~l.closes
  <2>1. t = s /\ D(k + 1) = D(k)
    BY <1>1, <1>2, <1>10 DEF Track, Pushed
  <2> HIDE DEF t, D, W, l
  <2>2. W(k + 1) = W(k)
    BY <1>2, <1>3, <1>10, <2>1
  <2>3. QED
    BY <1>4, <2>1, <2>2
<1>11. QED
  BY <1>7, <1>8, <1>9, <1>10

(* The file on top of the stack is the last one that is still open: of two  *)
(* that are open the later one was opened at a greater depth.              *)
LEMMA OpenedIsTheFile ==
  ASSUME NEW lines \in Seq(LogLine), NEW i \in 0..Len(lines), OneAtATime(lines)
  PROVE  Opened(SubSeq(lines, 1, i)) = FileAt(lines, i)
<1> DEFINE first == SubSeq(lines, 1, i)
<1>1. /\ i \in Nat /\ first \in Seq(LogLine) /\ Len(first) = i /\ DOMAIN first = 1..i
      /\ \A m \in 1..i : first[m] = lines[m]
  OBVIOUS
<1>2. OneAtATime(first)
  <2>1. \A m \in 1..i : m \in DOMAIN lines
    BY <1>1
  <2> HIDE DEF first
  <2>2. QED
    BY <1>1, <2>1 DEF OneAtATime
<1>3. FileAt(lines, i) = IF StillOpen(first, i) = {} THEN <<"main.tex">>
                         ELSE first[Max(StillOpen(first, i))].opens
  BY FileAtIsLastOpen
<1> HIDE DEF first
<1>4. PICK g \in [0..i -> Stacks] :
        /\ g[0] = <<<<"main.tex">>>> /\ Opened(first) = Last(g[i])
        /\ \A k \in 1..i : g[k] = Track(g[k - 1], first[k])
  BY <1>1, TrackedStacks
<1> DEFINE S == {k \in 0..i : Holds(first, k, g[k])}
<1>5. 0 \in S
  <2>1. g[0] \in Stacks /\ 0 \in 0..i /\ g[0][1] = <<"main.tex">> /\ Len(g[0]) = 1
    <3>1. 0 \in 0..i
      BY <1>1
    <3>2. \A x : Len(<<x>>) = 1 /\ <<x>>[1] = x
      OBVIOUS
    <3>3. QED
      BY <1>4, <3>1, <3>2
  <2>2. StillOpen(first, 0) = {}
    <3>1. \A j \in 1..i : ~(j <= 0)
      BY <1>1
    <3>2. QED
      BY <1>1, <3>1 DEF StillOpen, Openings
  <2>3. 2..Len(g[0]) = {}
    BY <2>1
  <2>4. QED
    BY <2>1, <2>2, <2>3 DEF Holds
<1>6. ASSUME NEW k \in 0..(i - 1), k \in S PROVE k + 1 \in S
  <2>1. k + 1 \in 1..i /\ k + 1 \in 0..i /\ (k + 1) - 1 = k
    BY <1>1
  <2>2. g[k + 1] = Track(g[k], first[k + 1]) /\ Holds(first, k, g[k])
    BY <1>4, <1>6, <2>1
  <2>3. Holds(first, k + 1, g[k + 1])
    BY <1>1, <1>2, <2>2, HoldsOneMore
  <2>4. QED
    BY <2>1, <2>3
<1>7. Holds(first, i, g[i])
  <2>1. \A k \in 0..i : k \in S
    <3> HIDE DEF S
    <3> QED
      BY <1>1, <1>5, <1>6, Induct
  <2>2. i \in 0..i
    BY <1>1
  <2>3. QED
    BY <2>1, <2>2
<1> DEFINE s == g[i]  W == StillOpen(first, i)  D(m) == DepthAt(first, m)
<1>8. /\ s \in Stacks /\ s[1] = <<"main.tex">> /\ Len(s) \in Nat /\ Len(s) > 0 /\ Last(s) = s[Len(s)]
      /\ \A j \in W : D(j) - D(i) + Len(s) \in 2..Len(s) /\ s[D(j) - D(i) + Len(s)] = first[j].opens
      /\ \A p \in 2..Len(s) : \E j \in W : D(j) - D(i) + Len(s) = p
  <2>1. \A r \in Stacks : Len(r) \in Nat /\ Len(r) > 0 /\ Last(r) = r[Len(r)]
    BY DEF Stacks, Last
  <2>2. QED
    BY <1>7, <2>1 DEF Holds
<1>9. \A m \in 0..i : D(m) \in Int
  <2> TAKE m \in 0..i
  <2>1. m \in Nat /\ First(Openings(first), m) \in Nat /\ First(Closings(first), m) \in Nat
    BY <1>1, FirstType
  <2>2. QED
    BY <2>1 DEF DepthAt
<1>10. W \in SUBSET (1..i)
  BY <1>1 DEF StillOpen, Openings
<1>11. CASE Len(s) = 1
  <2> HIDE DEF s, W, D
  <2>1. 2..Len(s) = {}
    BY <1>11
  <2>2. W = {}
    BY <1>8, <2>1
  <2>3. QED
    BY <1>3, <1>4, <1>8, <1>11, <2>2 DEF s, W, first
<1>12. CASE Len(s) # 1
  <2>1. Len(s) \in 2..Len(s)
    <3>1. Len(s) \in Nat /\ Len(s) > 0 /\ Len(s) # 1
      BY <1>8, <1>12
    <3>2. \A n \in Nat : n > 0 /\ n # 1 => n \in 2..n
      OBVIOUS
    <3> HIDE DEF s
    <3>3. QED
      BY <3>1, <3>2
  <2>2. PICK j \in W : D(j) - D(i) + Len(s) = Len(s)
    <3> HIDE DEF s, W, D
    <3> QED
      BY <1>8, <2>1
  <2>3. j \in 1..i /\ i \in 0..i /\ D(j) \in Int /\ D(i) \in Int
    <3>1. j \in 1..i
      BY <1>10
    <3>2. j \in 0..i /\ i \in 0..i
      BY <1>1, <3>1
    <3> HIDE DEF D
    <3>3. QED
      BY <1>9, <3>1, <3>2
  <2>4. D(j) = D(i)
    <3>1. Len(s) \in Nat
      BY <1>8
    <3> DEFINE x == D(j)  y == D(i)  u == Len(s)
    <3>2. x \in Int /\ y \in Int /\ u \in Nat /\ x - y + u = u
      BY <2>2, <2>3, <3>1
    <3> HIDE DEF x, y, u
    <3>3. x = y
      BY <3>2
    <3> QED
      BY <3>3 DEF x, y
  <2>5. \A m \in W : j >= m
    <3> SUFFICES ASSUME NEW m \in W, ~(j >= m) PROVE FALSE
      OBVIOUS
    <3>1. m \in 1..i /\ m - 1 \in j..i /\ m - 1 \in 0..(i - 1) /\ (m - 1) + 1 = m /\ m \in m..i /\ i \in m..i
      BY <1>1, <1>10, <2>3
    <3>2. first[m].opens # NoFile /\ ~first[m].closes
      BY <1>1, <1>2, <3>1 DEF StillOpen, Openings, OneAtATime
    <3>3. D(m - 1) >= D(j) /\ D(i) >= D(m)
      BY <3>1 DEF StillOpen
    <3>4. D(m - 1) \in Int /\ D(m) = D(m - 1) + 1
      <4>1. /\ DepthAt(first, m - 1) \in Int
            /\ DepthAt(first, (m - 1) + 1) = DepthAt(first, m - 1)
                 + (IF first[(m - 1) + 1].opens # NoFile THEN 1 ELSE 0)
                 - (IF first[(m - 1) + 1].closes THEN 1 ELSE 0)
        BY <1>1, <3>1, DepthSteps
      <4>2. QED
        BY <3>1, <3>2, <4>1
    <3> HIDE DEF D
    <3>5. QED
      BY <2>3, <2>4, <3>3, <3>4
  <2>6. Max(W) = j
    <3>1. j \in W /\ \A m \in W : m \in Int
      BY <1>1, <1>10
    <3> HIDE DEF W
    <3>2. \A x \in W : (\A y \in W : x >= y) => x = j
      BY <2>5, <3>1
    <3>3. QED
      BY <2>5, <3>1, <3>2 DEF Max
  <2>7. s[Len(s)] = first[j].opens
    <3> HIDE DEF s, W, D
    <3> QED
      BY <1>8, <2>2
  <2>8. QED
    BY <1>3, <1>4, <1>8, <2>6, <2>7 DEF first
<1>13. QED
  BY <1>11, <1>12

---------------------------------------------------------------------------
(* The file an issue belongs to.                                           *)

Suffixed(path, p) == IsSuffix(path, p)
LengthOf(p) == IF p = NoFile THEN 0 ELSE PathLength[p]
Longer(path, best, p) == IF Suffixed(path, p) /\ LengthOf(p) > LengthOf(best) THEN p ELSE best
BestOf(path) ==
  LET Best(best, p) == IF IsSuffix(path, p) /\ LengthOf(p) > LengthOf(best) THEN p ELSE best
  IN  FoldLeft(Best, NoFile, TexPaths)

LEMMA TexPathsType ==
  /\ Len(TexPaths) \in Nat /\ DOMAIN TexPaths = 1..Len(TexPaths)
  /\ \A i \in 1..Len(TexPaths) : /\ TexPaths[i] \in LogPath /\ TexPaths[i] \in Seq(PathNames)
                                 /\ Len(TexPaths[i]) > 0 /\ TexPaths[i] \in ToSet(TexPaths)
                                 /\ TexPaths[i] # <<>> /\ LengthOf(TexPaths[i]) > LengthOf(<<>>)
<1>1. TexPaths \in Seq(LogPath)
  OBVIOUS
<1>2. Len(TexPaths) \in Nat /\ DOMAIN TexPaths = 1..Len(TexPaths)
  BY <1>1
<1>3. \A i \in 1..Len(TexPaths) : TexPaths[i] \in LogPath
  BY <1>1
<1>4. \A i \in 1..Len(TexPaths) : TexPaths[i] \in ToSet(TexPaths)
  BY <1>2 DEF ToSet
<1>5. \A i \in 1..Len(TexPaths) : TexPaths[i] # <<>> /\ LengthOf(TexPaths[i]) > LengthOf(<<>>)
  <2> TAKE i \in 1..Len(TexPaths)
  <2>1. Len(TexPaths[i]) > 0 /\ PathLength[TexPaths[i]] \in Nat \ {0}
    BY <1>2, <1>3 DEF LogPath
  <2>2. TexPaths[i] # <<>>
    <3>1. Len(<<>>) = 0
      OBVIOUS
    <3>2. QED
      BY <2>1, <3>1
  <2>3. QED
    BY <2>1, <2>2 DEF LengthOf, NoFile
<1>6. QED
  BY <1>2, <1>3, <1>4, <1>5 DEF LogPath

\* A path that ends in the other is found, if there is one.
LEMMA BestFits ==
  ASSUME NEW path
  PROVE  \/ BestOf(path) = <<>> /\ \A p \in ToSet(TexPaths) : ~Suffixed(path, p)
         \/ BestOf(path) # <<>> /\ BestOf(path) \in ToSet(TexPaths) /\ Suffixed(path, BestOf(path))
<1> DEFINE n == Len(TexPaths)
           V == Seq(PathNames)
           Eq(f) == f = [s \in SUBSET (DOMAIN TexPaths) |->
                           IF s = {} THEN <<>> ELSE Longer(path, f[s \ {Max(s)}], TexPaths[Max(s)])]
           iter == CHOOSE f : Eq(f)
           h == [p \in V \X (1..n) |-> Longer(path, p[1], TexPaths[p[2]])]
           Good(b, k) == \/ b = <<>> /\ \A i \in 1..k : ~Suffixed(path, TexPaths[i])
                         \/ /\ b # <<>> /\ b \in ToSet(TexPaths) /\ Suffixed(path, b)
                            /\ b \in V
<1>1. BestOf(path) = iter[DOMAIN TexPaths]
  BY DEF BestOf, FoldLeft, MapThenFoldSet, Longer, Suffixed, LengthOf, NoFile
<1>2. n \in Nat /\ DOMAIN TexPaths = 1..n
  BY TexPathsType
<1>3. <<>> \in V
  OBVIOUS
<1>4. h \in [V \X (1..n) -> V]
  BY TexPathsType DEF Longer
<1>5. \E f : Eq(f)
  <2>1. PICK f \in [SUBSET (1..n) -> V] : Folds(f, n, <<>>, h)
    <3> HIDE DEF h, n, V
    <3> QED
      BY <1>2, <1>3, <1>4, FoldExists
  <2>2. ASSUME NEW s \in SUBSET (1..n), s # {}
        PROVE  h[<<f[s \ {Max(s)}], Max(s)>>] = Longer(path, f[s \ {Max(s)}], TexPaths[Max(s)])
    <3>1. Max(s) \in 1..n
      BY <1>2, <2>2, MaxInRange
    <3>2. f[s \ {Max(s)}] \in V
      OBVIOUS
    <3>3. QED
      BY <3>1, <3>2
  <2>3. Eq(f)
    BY <1>2, <2>1, <2>2 DEF Folds
  <2>4. QED
    BY <2>3
<1>6. Eq(iter)
  <2> HIDE DEF Eq
  <2> QED
    BY <1>5
<1> DEFINE S == {k \in 0..n : Good(iter[1..k], k)}
<1> HIDE DEF iter, n, h
<1>7. 0 \in S
  <2>1. 1..0 = {} /\ {} \in SUBSET (DOMAIN TexPaths)
    OBVIOUS
  <2>2. iter[1..0] = <<>>
    BY <1>6, <2>1
  <2>3. QED
    BY <1>2, <2>1, <2>2
<1>8. ASSUME NEW k \in 0..(n - 1), k \in S PROVE k + 1 \in S
  <2>1. 1..(k + 1) \in SUBSET (DOMAIN TexPaths) /\ k + 1 \in 1..n /\ k \in Nat /\ k + 1 \in 0..n
    BY <1>2
  <2>2. iter[1..(k + 1)] = Longer(path, iter[1..k], TexPaths[k + 1])
    <3>1. /\ Max(1..(k + 1)) = k + 1 /\ (1..(k + 1)) \ {k + 1} = 1..k
          /\ 1..(k + 1) # {}
      BY <2>1, FirstNumbers
    <3>2. QED
      BY <1>6, <2>1, <3>1
  <2>3. /\ TexPaths[k + 1] \in V /\ TexPaths[k + 1] # <<>> /\ TexPaths[k + 1] \in ToSet(TexPaths)
        /\ LengthOf(TexPaths[k + 1]) > LengthOf(<<>>)
    BY <2>1, TexPathsType DEF n
  <2>4. Good(iter[1..k], k)
    BY <1>8
  <2>5. \A i \in 1..(k + 1) : i \in 1..k \/ i = k + 1
    BY <2>1
  <2>6. Good(iter[1..(k + 1)], k + 1)
    <3>1. CASE iter[1..k] = <<>>
      BY <2>2, <2>3, <2>4, <2>5, <3>1 DEF Longer
    <3>2. CASE iter[1..k] # <<>>
      BY <2>2, <2>3, <2>4, <3>2 DEF Longer
    <3>3. QED
      BY <3>1, <3>2
  <2>7. QED
    BY <2>1, <2>6
<1>9. Good(iter[1..n], n)
  <2>1. \A k \in 0..n : k \in S
    <3> HIDE DEF S
    <3> QED
      BY <1>2, <1>7, <1>8, Induct
  <2>2. n \in 0..n
    BY <1>2
  <2>3. QED
    BY <2>1, <2>2
<1>10. \A p \in ToSet(TexPaths) : \E i \in 1..n : p = TexPaths[i]
  BY <1>2 DEF ToSet
<1>11. QED
  BY <1>1, <1>2, <1>9, <1>10

\* What an issue may lead to.
Fitting(logPath) == {p \in ToSet(TexPaths) : Suffixed(Normalized(logPath), p)}

\* A path without "." in front of it is still one of that file.
LEMMA NormalizedLast ==
  ASSUME NEW p \in LogPath
  PROVE  Normalized(p) \in Seq(PathNames) /\ Last(Normalized(p)) = Last(p)
<1>1. p \in Seq(PathNames) /\ Len(p) > 0 /\ p[Len(p)] # "."
  BY DEF LogPath, Last
<1>2. CASE Head(p) = "."
  <2>1. Len(p) > 1
    BY <1>1, <1>2
  <2>2. /\ Tail(p) \in Seq(PathNames) /\ Len(Tail(p)) = Len(p) - 1
        /\ \A i \in 1..(Len(p) - 1) : Tail(p)[i] = p[i + 1]
    BY <1>1
  <2>3. Tail(p)[Len(p) - 1] = p[Len(p)]
    BY <1>1, <2>1, <2>2
  <2>4. QED
    BY <1>2, <2>2, <2>3 DEF Normalized, Last
<1>3. CASE Head(p) # "."
  BY <1>1, <1>3 DEF Normalized
<1>4. QED
  BY <1>2, <1>3

LEMMA SuffixOfItself ==
  ASSUME NEW p \in Seq(PathNames)
  PROVE  Suffixed(p, p)
<1>1. Reverse(p) \in Seq(PathNames)
  BY DEF Reverse
<1>2. QED
  BY <1>1 DEF Suffixed, IsSuffix, IsPrefix

LEMMA ResolvedFits ==
  ASSUME NEW logPath \in LogPath
  PROVE  /\ IF Fitting(logPath) = {} THEN Last(ResolveLogFilePath(logPath)) = Last(logPath)
            ELSE ResolveLogFilePath(logPath) \in Fitting(logPath)
         /\ ResolveLogFilePath(logPath) \in Seq(PathNames)
<1> DEFINE path == Normalized(logPath)
           named == SelectInSeq(TexPaths, LAMBDA p : Last(p) = Last(path))
           resolved == ResolveLogFilePath(logPath)
<1>1. resolved = IF Contains(TexPaths, path) THEN path
                 ELSE IF BestOf(path) # <<>> THEN BestOf(path)
                 ELSE IF named # 0 THEN TexPaths[named] ELSE path
  BY DEF ResolveLogFilePath, BestOf, LengthOf, NoFile
<1>2. path \in Seq(PathNames) /\ Last(path) = Last(logPath)
  BY NormalizedLast
<1>3. named # 0 => named \in 1..Len(TexPaths) /\ Last(TexPaths[named]) = Last(path)
  <2> DEFINE at == {i \in 1..Len(TexPaths) : Last(TexPaths[i]) = Last(path)}
  <2>1. named = IF at # {} THEN Min(at) ELSE 0
    BY DEF SelectInSeq
  <2>2. at # {} => Min(at) \in at
    <3>1. at \in SUBSET Nat
      BY TexPathsType
    <3> HIDE DEF at
    <3>2. QED
      BY <3>1, MinOfNaturals
  <2>3. QED
    BY <2>1, <2>2
<1> HIDE DEF named
<1>31. /\ named # 0 => TexPaths[named] \in Seq(PathNames)
       /\ \A p \in ToSet(TexPaths) : p \in Seq(PathNames)
  <2>1. \A p \in ToSet(TexPaths) : \E i \in 1..Len(TexPaths) : p = TexPaths[i]
    BY TexPathsType DEF ToSet
  <2>2. QED
    BY <1>3, <2>1, TexPathsType
<1>4. CASE Contains(TexPaths, path)
  <2>1. path \in ToSet(TexPaths)
    BY <1>4, TexPathsType DEF Contains
  <2>2. path \in Fitting(logPath)
    BY <1>2, <2>1, SuffixOfItself DEF Fitting
  <2>3. QED
    BY <1>1, <1>2, <1>4, <2>2
<1>5. CASE ~Contains(TexPaths, path) /\ BestOf(path) # <<>>
  <2>1. BestOf(path) \in Fitting(logPath) /\ BestOf(path) \in ToSet(TexPaths)
    BY <1>5, BestFits DEF Fitting
  <2>2. QED
    BY <1>1, <1>31, <1>5, <2>1
<1>6. CASE ~Contains(TexPaths, path) /\ BestOf(path) = <<>>
  <2>1. Fitting(logPath) = {}
    BY <1>6, BestFits DEF Fitting
  <2>2. QED
    BY <1>1, <1>2, <1>3, <1>31, <1>6, <2>1
<1>7. QED
  BY <1>4, <1>5, <1>6

---------------------------------------------------------------------------
(* The issues of a log.                                                    *)

Issue == [type : {"error", "warning"}, file : LogPath, line : Nat]
IssueLines(lines) == {k \in DOMAIN lines : lines[k].kind \in {"error", "warning", "place"}}

LEMMA LogLineType ==
  ASSUME NEW l \in LogLine
  PROVE  /\ l.kind = "place" => l.file \in LogPath
         /\ l.line \in Nat
BY DEF LogLine

LEMMA RefLineType ==
  ASSUME NEW lines \in Seq(LogLine), NEW i \in DOMAIN lines
  PROVE  RefLine(lines, i) \in Nat
<1> DEFINE refs == {j \in (i + 1)..Len(lines) : j <= i + LookAhead /\ lines[j].kind = "ref"}
           first == CHOOSE j \in refs : \A k \in refs : j <= k
<1>1. RefLine(lines, i) = IF refs = {} THEN 0 ELSE lines[first].line
  BY DEF RefLine
<1>2. i \in Nat /\ refs \in SUBSET Nat
  OBVIOUS
<1>3. refs # {} => first \in refs
  <2> HIDE DEF refs
  <2>1. refs # {} => \E j \in refs : \A k \in refs : j <= k
    BY <1>2, MinOfNaturals
  <2>2. QED
    BY <2>1
<1>4. ASSUME NEW j \in refs PROVE lines[j].line \in Nat
  <2>1. j \in DOMAIN lines /\ lines[j].kind = "ref"
    BY <1>2
  <2>2. lines[j] \in LogLine
    BY <2>1
  <2>3. QED
    BY <2>1, <2>2, LogLineType
<1>5. QED
  <2> HIDE DEF refs, first
  <2> QED
    BY <1>1, <1>3, <1>4

\* What is found first is found.
LEMMA RefLineIsFirst ==
  ASSUME NEW lines \in Seq(LogLine), NEW i \in DOMAIN lines, NEW j \in DOMAIN lines,
         j > i, j <= i + LookAhead, lines[j].kind = "ref",
         \A k \in (i + 1)..(j - 1) : lines[k].kind # "ref"
  PROVE  RefLine(lines, i) = lines[j].line
<1> DEFINE refs == {k \in (i + 1)..Len(lines) : k <= i + LookAhead /\ lines[k].kind = "ref"}
<1>1. j \in refs
  OBVIOUS
<1>2. \A k \in refs : j <= k
  OBVIOUS
<1>3. \A m \in refs : (\A k \in refs : m <= k) => m = j
  <2>1. \A m \in refs : m \in Int
    OBVIOUS
  <2> HIDE DEF refs
  <2>2. QED
    BY <1>1, <1>2, <2>1
<1>4. (CHOOSE m \in refs : \A k \in refs : m <= k) = j
  <2> HIDE DEF refs
  <2> QED
    BY <1>1, <1>2, <1>3
<1>5. QED
  BY <1>1, <1>4 DEF RefLine

LEMMA IssueAtType ==
  ASSUME NEW lines \in Seq(LogLine), NEW i \in DOMAIN lines
  PROVE  /\ IssueAt(lines, i) \in Seq(Issue)
         /\ Len(IssueAt(lines, i)) = IF i \in IssueLines(lines) THEN 1 ELSE 0
         /\ lines[i].kind = "place" => IssueAt(lines, i)[1].file = lines[i].file
                                       /\ IssueAt(lines, i)[1].line = lines[i].line
         /\ lines[i].kind = "error" => IssueAt(lines, i)[1].file = Opened(SubSeq(lines, 1, i))
                                       /\ IssueAt(lines, i)[1].line = RefLine(lines, i)
<1>1. lines[i] \in LogLine /\ SubSeq(lines, 1, i) \in Seq(LogLine)
  OBVIOUS
<1>2. Opened(SubSeq(lines, 1, i)) \in LogPath /\ RefLine(lines, i) \in Nat
  BY <1>1, OpenedType, RefLineType
<1>3. \A issue \in Issue : <<issue>> \in Seq(Issue) /\ Len(<<issue>>) = 1 /\ <<issue>>[1] = issue
  OBVIOUS
<1> DEFINE placed == [type |-> "error", file |-> lines[i].file, line |-> lines[i].line]
           error == [type |-> "error", file |-> Opened(SubSeq(lines, 1, i)), line |-> RefLine(lines, i)]
           warning == [type |-> "warning", file |-> Opened(SubSeq(lines, 1, i)), line |-> 0]
<1>4. /\ lines[i].kind = "place" => placed \in Issue
      /\ error \in Issue /\ warning \in Issue
  BY <1>1, <1>2, LogLineType DEF Issue
<1>5. <<>> \in Seq(Issue) /\ Len(<<>>) = 0
  OBVIOUS
<1>6. /\ lines[i].kind = "place" => IssueAt(lines, i) = <<placed>>
      /\ lines[i].kind = "error" => IssueAt(lines, i) = <<error>>
      /\ lines[i].kind = "warning" => IssueAt(lines, i) = <<warning>>
      /\ lines[i].kind \notin {"place", "error", "warning"} => IssueAt(lines, i) = <<>>
  BY DEF IssueAt
<1>7. i \in IssueLines(lines) <=> lines[i].kind \in {"error", "warning", "place"}
  BY DEF IssueLines
<1>8. /\ placed.file = lines[i].file /\ placed.line = lines[i].line
      /\ error.file = Opened(SubSeq(lines, 1, i)) /\ error.line = RefLine(lines, i)
  OBVIOUS
<1> DEFINE found == IssueAt(lines, i)
<1> HIDE DEF placed, error, warning, found
<1>9. CASE i \in IssueLines(lines)
  <2>1. \/ lines[i].kind = "place" /\ placed \in Issue /\ found = <<placed>>
        \/ lines[i].kind = "error" /\ error \in Issue /\ found = <<error>>
        \/ lines[i].kind = "warning" /\ warning \in Issue /\ found = <<warning>>
    BY <1>4, <1>6, <1>7, <1>9 DEF found
  <2>2. found \in Seq(Issue) /\ Len(found) = 1
    BY <1>3, <2>1
  <2>3. /\ lines[i].kind = "place" => found[1] = placed
        /\ lines[i].kind = "error" => found[1] = error
    BY <1>3, <2>1
  <2>4. QED
    BY <1>8, <1>9, <2>2, <2>3 DEF found
<1>10. CASE i \notin IssueLines(lines)
  <2>1. found = <<>> /\ lines[i].kind \notin {"place", "error"}
    BY <1>6, <1>7, <1>10 DEF found
  <2>2. QED
    BY <1>5, <1>10, <2>1 DEF found
<1>11. QED
  BY <1>9, <1>10

\* The issues are those of the lines, in their order, up to MaxIssues of them.
LEMMA IssuesAreShown ==
  ASSUME NEW lines \in Seq(LogLine), NEW issues, issues = ParseLatexLog(lines)
  PROVE  /\ issues \in Seq(Issue)
         /\ \A i \in IssueLines(lines) :
              First(IssueLines(lines), i) <= MaxIssues =>
                issues[First(IssueLines(lines), i)] = IssueAt(lines, i)[1]
<1> DEFINE ss == [k \in DOMAIN lines |-> IssueAt(lines, k)]
           n == Len(lines)
           I == IssueLines(lines)
<1>1. DOMAIN lines = 1..n /\ n \in Nat /\ I \subseteq 1..n
  BY DEF IssueLines
<1>2. /\ \A k \in 1..n : ss[k] = IssueAt(lines, k) /\ Len(ss[k]) = IF k \in I THEN 1 ELSE 0
      /\ ss \in [1..n -> Seq(Issue)]
  BY <1>1, IssueAtType
<1>3. issues = IF Len(FlattenSeq(ss)) <= MaxIssues THEN FlattenSeq(ss)
               ELSE SubSeq(FlattenSeq(ss), 1, MaxIssues)
  BY DEF ParseLatexLog
<1> HIDE DEF ss, n, I
<1>4. PICK flat \in [0..n -> Seq(Issue)] : Grows(flat, n, ss)
  BY <1>1, <1>2, FlatParts
<1>5. /\ flat[0] = <<>> /\ FlattenSeq(ss) = flat[n]
      /\ \A k \in 1..n : flat[k] = flat[k - 1] \o ss[k]
  BY <1>4 DEF Grows
<1>6. \A a \in Seq(Issue), b \in Seq(Issue) :
        /\ Len(a \o b) = Len(a) + Len(b) /\ Len(a) \in Nat /\ Len(b) \in Nat
        /\ \A i \in 1..Len(a) : (a \o b)[i] = a[i]
        /\ \A i \in 1..Len(b) : (a \o b)[Len(a) + i] = b[i]
  OBVIOUS
<1> DEFINE Good(k) ==
             /\ Len(flat[k]) = First(I, k)
             /\ \A i \in I : i <= k => flat[k][First(I, i)] = ss[i][1]
           S == {k \in 0..n : Good(k)}
<1>7. 0 \in S
  <2>1. Len(flat[0]) = 0 /\ First(I, 0) = 0 /\ 0 \in 0..n
    BY <1>1, <1>5, FirstType
  <2>2. \A i \in I : ~(i <= 0)
    BY <1>1
  <2>3. QED
    BY <2>1, <2>2
<1>8. ASSUME NEW k \in 0..(n - 1), k \in S PROVE k + 1 \in S
  <2>1. k + 1 \in 1..n /\ k \in 0..n /\ k + 1 \in 0..n /\ k \in Nat /\ (k + 1) - 1 = k
    BY <1>1
  <2>2. /\ flat[k + 1] = flat[k] \o ss[k + 1] /\ flat[k] \in Seq(Issue) /\ ss[k + 1] \in Seq(Issue)
        /\ Len(ss[k + 1]) = IF k + 1 \in I THEN 1 ELSE 0
    BY <1>2, <1>5, <2>1
  <2>3. /\ Len(flat[k + 1]) = Len(flat[k]) + Len(ss[k + 1]) /\ Len(flat[k]) \in Nat
        /\ \A i \in 1..Len(flat[k]) : flat[k + 1][i] = flat[k][i]
        /\ \A i \in 1..Len(ss[k + 1]) : flat[k + 1][Len(flat[k]) + i] = ss[k + 1][i]
    <3> DEFINE a == flat[k]  b == ss[k + 1]
    <3>1. a \in Seq(Issue) /\ b \in Seq(Issue) /\ flat[k + 1] = a \o b
      BY <2>2
    <3> HIDE DEF a, b
    <3>2. /\ Len(a \o b) = Len(a) + Len(b) /\ Len(a) \in Nat
          /\ \A i \in 1..Len(a) : (a \o b)[i] = a[i]
          /\ \A i \in 1..Len(b) : (a \o b)[Len(a) + i] = b[i]
      BY <1>6, <3>1
    <3>3. QED
      BY <3>1, <3>2 DEF a, b
  <2>4. First(I, k + 1) = First(I, k) + IF k + 1 \in I THEN 1 ELSE 0
    BY <2>1, FirstStep
  <2>5. Good(k)
    BY <1>8
  <2>6. Len(flat[k + 1]) = First(I, k + 1)
    BY <2>2, <2>3, <2>4, <2>5
  <2>7. ASSUME NEW i \in I, i <= k + 1 PROVE flat[k + 1][First(I, i)] = ss[i][1]
    <3>1. CASE i <= k
      <4>1. i \in Nat /\ i \in 0..k /\ i - 1 \in Nat /\ (i - 1) + 1 = i
        BY <1>1, <3>1
      <4>2. First(I, i) <= First(I, k) /\ First(I, i) \in Nat
        BY <2>1, <4>1, FirstGrows, FirstType
      <4>3. First(I, i) = First(I, i - 1) + 1 /\ First(I, i - 1) \in Nat
        <5>1. First(I, (i - 1) + 1) = First(I, i - 1) + IF (i - 1) + 1 \in I THEN 1 ELSE 0
          BY <4>1, FirstStep
        <5>2. QED
          BY <4>1, <5>1, FirstType
      <4>4. First(I, i) \in 1..Len(flat[k])
        BY <2>3, <2>5, <4>2, <4>3
      <4>5. QED
        BY <2>3, <2>5, <3>1, <4>4
    <3>2. CASE i = k + 1
      <4>1. Len(ss[k + 1]) = 1 /\ 1 \in 1..Len(ss[k + 1]) /\ First(I, i) = Len(flat[k]) + 1
        BY <2>2, <2>4, <2>5, <3>2
      <4>2. QED
        BY <2>3, <3>2, <4>1
    <3>3. QED
      BY <1>1, <2>1, <2>7, <3>1, <3>2
  <2>8. QED
    BY <2>1, <2>6, <2>7
<1>9. Good(n)
  <2>1. \A k \in 0..n : k \in S
    <3> HIDE DEF S
    <3> QED
      BY <1>1, <1>7, <1>8, Induct
  <2>2. n \in 0..n
    BY <1>1
  <2>3. QED
    BY <2>1, <2>2
<1> DEFINE all == flat[n]
<1>10. all \in Seq(Issue) /\ Len(all) \in Nat /\ MaxIssues \in Nat
  BY <1>1
<1>11. issues = IF Len(all) <= MaxIssues THEN all ELSE SubSeq(all, 1, MaxIssues)
  BY <1>3, <1>5
<1> HIDE DEF all
<1>12. /\ issues \in Seq(Issue)
       /\ \A i \in 1..MaxIssues : issues[i] = all[i]
  <2>1. CASE Len(all) <= MaxIssues
    BY <1>10, <1>11, <2>1
  <2>2. CASE ~(Len(all) <= MaxIssues)
    <3>1. MaxIssues \in 0..Len(all) /\ issues = SubSeq(all, 1, MaxIssues)
      BY <1>10, <1>11, <2>2
    <3>2. /\ SubSeq(all, 1, MaxIssues) \in Seq(Issue)
          /\ \A i \in 1..MaxIssues : SubSeq(all, 1, MaxIssues)[i] = all[i]
      BY <1>10, <3>1
    <3>3. QED
      BY <3>1, <3>2
  <2>3. QED
    BY <2>1, <2>2
<1>13. ASSUME NEW i \in I, First(I, i) <= MaxIssues
       PROVE  issues[First(I, i)] = IssueAt(lines, i)[1]
  <2>1. i \in 1..n /\ i \in Nat /\ i - 1 \in Nat /\ (i - 1) + 1 = i /\ i <= n
    BY <1>1
  <2>2. First(I, (i - 1) + 1) = First(I, i - 1) + IF (i - 1) + 1 \in I THEN 1 ELSE 0
    BY <2>1, FirstStep
  <2>3. First(I, i - 1) \in Nat
    BY <2>1, FirstType
  <2>4. First(I, i) \in 1..MaxIssues
    BY <1>10, <1>13, <2>1, <2>2, <2>3
  <2>5. all[First(I, i)] = ss[i][1] /\ ss[i] = IssueAt(lines, i)
    BY <1>2, <1>9, <2>1 DEF all
  <2>6. QED
    BY <1>12, <2>4, <2>5
<1>14. QED
  BY <1>12, <1>13 DEF I

LEMMA IssuesOfALog ==
  ASSUME log \in Seq(LogLine), Arrived(issueEditor)
  PROVE  IssuesArePlaced
<1> DEFINE issues == ParseLatexLog(log)
           Number(i) == Cardinality({k \in 1..i : log[k].kind \in {"error", "warning", "place"}})
           Own(i, j) == j > i /\ j <= i + LookAhead /\ log[j].kind = "ref"
                        /\ \A k \in (i + 1)..(j - 1) : log[k].kind \notin {"ref", "error"}
           Fits(path, logPath) ==
             LET fitting == {p \in ToSet(TexPaths) : IsSuffix(Normalized(logPath), p)}
             IN  IF fitting = {} THEN Last(path) = Last(logPath) ELSE path \in fitting
           Leads(i, file, line) ==
             LET target == IssueTarget(issues[Number(i)])
             IN  Number(i) <= MaxIssues => target.line = line /\ Fits(target.file, file)
           I == IssueLines(log)
<1>1. \A i \in DOMAIN log : Number(i) = First(I, i)
  <2> TAKE i \in DOMAIN log
  <2>1. \A k \in 1..i : k \in DOMAIN log
    OBVIOUS
  <2>2. {k \in 1..i : log[k].kind \in {"error", "warning", "place"}} = I \cap (1..i)
    BY <2>1 DEF IssueLines
  <2>3. QED
    BY <2>2 DEF First
<1>2. \A logPath \in LogPath : Fits(ResolveLogFilePath(logPath), logPath)
  BY ResolvedFits DEF Fitting, Suffixed
<1>3. \A issue : IssueTarget(issue).file = ResolveLogFilePath(issue.file) /\ IssueTarget(issue).line = issue.line
  BY DEF IssueTarget
<1> HIDE DEF Number, Fits, issues, I
<1>4. ASSUME NEW i \in DOMAIN log, i \in I, NEW issue, issue = IssueAt(log, i)[1], issue.file \in LogPath
      PROVE  Leads(i, issue.file, issue.line)
  <2> SUFFICES ASSUME Number(i) <= MaxIssues
               PROVE  /\ IssueTarget(issues[Number(i)]).line = issue.line
                      /\ Fits(IssueTarget(issues[Number(i)]).file, issue.file)
    OBVIOUS
  <2>1. issues[Number(i)] = issue
    <3>1. First(I, i) <= MaxIssues => issues[First(I, i)] = IssueAt(log, i)[1]
      BY <1>4, IssuesAreShown DEF issues, I
    <3>2. QED
      BY <1>1, <1>4, <3>1
  <2>2. Fits(ResolveLogFilePath(issue.file), issue.file)
    BY <1>2, <1>4
  <2>3. IssueTarget(issue).file = ResolveLogFilePath(issue.file) /\ IssueTarget(issue).line = issue.line
    BY <1>3
  <2>4. QED
    BY <2>1, <2>2, <2>3
<1>5. ASSUME NEW i \in DOMAIN log, log[i].kind = "place" PROVE Leads(i, log[i].file, log[i].line)
  <2>1. i \in I
    BY <1>5 DEF I, IssueLines
  <2>2. log[i] \in LogLine
    OBVIOUS
  <2>3. log[i].file \in LogPath
    BY <1>5, <2>2, LogLineType
  <2>4. IssueAt(log, i)[1].file = log[i].file /\ IssueAt(log, i)[1].line = log[i].line
    BY <1>5, IssueAtType
  <2> HIDE DEF Leads
  <2>5. QED
    BY <1>4, <2>1, <2>3, <2>4
<1>6. ASSUME OneAtATime(log), NEW i \in DOMAIN log, NEW j \in DOMAIN log,
             log[i].kind = "error", Own(i, j)
      PROVE  Leads(i, FileAt(log, i), log[j].line)
  <2>1. i \in I
    BY <1>6 DEF I, IssueLines
  <2>2. RefLine(log, i) = log[j].line
    BY <1>6, RefLineIsFirst
  <2>3. i \in 0..Len(log) /\ SubSeq(log, 1, i) \in Seq(LogLine)
    OBVIOUS
  <2>4. Opened(SubSeq(log, 1, i)) = FileAt(log, i) /\ Opened(SubSeq(log, 1, i)) \in LogPath
    BY <1>6, <2>3, OpenedIsTheFile, OpenedType
  <2>5. IssueAt(log, i)[1].file = FileAt(log, i) /\ IssueAt(log, i)[1].line = log[j].line
    BY <1>6, <2>2, <2>4, IssueAtType
  <2> HIDE DEF Leads
  <2>6. QED
    BY <1>4, <2>1, <2>4, <2>5
<1>7. /\ \A i \in DOMAIN log : log[i].kind = "place" => Leads(i, log[i].file, log[i].line)
      /\ OneAtATime(log) => \A i, j \in DOMAIN log : log[i].kind = "error" /\ Own(i, j) =>
                              Leads(i, FileAt(log, i), log[j].line)
  <2> HIDE DEF Leads, Own
  <2> QED
    BY <1>5, <1>6
<1>8. QED
  BY <1>7 DEF IssuesArePlaced, OneAtATime, Leads, Number, Fits, issues

---------------------------------------------------------------------------
(* A jump of the editor.                                                   *)

HIDE TextAssumption

(* The timer of the last click runs off last; and when it found the text   *)
(* of its file, the cursor is where it put it.                             *)
JumpInv(e, Files) ==
  /\ e \in Editor(Files) /\ e.opened = e.asked.file
  /\ Waiting(e) => Last(e.timers) = e.asked
  /\ ~Waiting(e) /\ e.inTime => e.shown = e.opened /\ e.cursor = e.asked

LEMMA JumpArrives ==
  ASSUME NEW Files, NEW e, JumpInv(e, Files)
  PROVE  Arrived(e)
BY DEF JumpInv, Arrived

LEMMA JumpStarts ==
  ASSUME NEW Files, NEW file \in Files
  PROVE  JumpInv(EditorOn(file), Files) /\ EditorOn(file).clicks = 0
<1>1. EditorOn(file) \in Editor(Files)
  BY DEF EditorOn, Editor, Place
<1>2. EditorOn(file).timers = <<>>
  BY DEF EditorOn
<1>3. QED
  BY <1>1, <1>2 DEF JumpInv, EditorOn, Waiting

LEMMA JumpIsAsked ==
  ASSUME NEW Files, NEW e, JumpInv(e, Files), NEW place \in Place(Files)
  PROVE  JumpInv(Clicked(e, place), Files) /\ Clicked(e, place).clicks = e.clicks + 1
<1> DEFINE c == Clicked(e, place)
<1>1. e \in Editor(Files)
  BY DEF JumpInv
<1>2. /\ Append(e.timers, place) \in Seq(Place(Files)) /\ Append(e.timers, place) # <<>>
      /\ Last(Append(e.timers, place)) = place
  BY <1>1 DEF Editor, Last
<1>3. /\ c.opened = place.file /\ c.asked = place /\ c.timers = Append(e.timers, place)
      /\ c.clicks = e.clicks + 1 /\ c.shown = e.shown /\ c.cursor = e.cursor /\ c.inTime = e.inTime
  BY <1>1 DEF Clicked, Editor
<1>4. e.clicks + 1 \in Nat /\ place.file \in Files
  BY <1>1 DEF Editor, Place
<1>5. c \in Editor(Files)
  BY <1>1, <1>2, <1>4 DEF Clicked, Editor
<1> HIDE DEF c
<1>6. QED
  BY <1>2, <1>3, <1>5 DEF JumpInv, Waiting, c

LEMMA JumpShowsText ==
  ASSUME NEW Files, NEW e, JumpInv(e, Files), TextPending(e), NEW line \in LinesLeft(e)
  PROVE  JumpInv(TextShown(e, line), Files) /\ TextShown(e, line).clicks = e.clicks
<1> DEFINE s == TextShown(e, line)
<1>1. e \in Editor(Files)
  BY DEF JumpInv
<1>2. line \in Nat
  BY <1>1 DEF LinesLeft, Editor, Place
<1>3. /\ s \in Editor(Files) /\ s.opened = e.opened /\ s.asked = e.asked /\ s.timers = e.timers
      /\ s.inTime = e.inTime /\ s.clicks = e.clicks
  BY <1>1, <1>2 DEF TextShown, Editor, Place
<1>4. Waiting(e) \/ ~e.inTime
  BY DEF TextPending, JumpInv
<1> HIDE DEF s
<1>5. QED
  BY <1>3, <1>4 DEF JumpInv, Waiting, s

LEMMA JumpTimer ==
  ASSUME NEW Files, NEW e, JumpInv(e, Files), Waiting(e)
  PROVE  JumpInv(TimerRanOff(e), Files) /\ TimerRanOff(e).clicks = e.clicks
<1> DEFINE r == TimerRanOff(e)
<1>1. e \in Editor(Files) /\ e.opened = e.asked.file /\ e.asked \in Place(Files) /\ e.shown \in Files
  BY DEF JumpInv, Editor
<1>2. /\ e.timers \in Seq(Place(Files)) /\ e.timers # <<>> /\ Last(e.timers) = e.asked
      /\ Head(e.timers) \in Place(Files) /\ Tail(e.timers) \in Seq(Place(Files))
  BY <1>1 DEF JumpInv, Editor, Waiting
<1>3. /\ Tail(e.timers) = <<>> => Head(e.timers) = e.asked
      /\ Tail(e.timers) # <<>> => Last(Tail(e.timers)) = e.asked
  <2> DEFINE ts == e.timers  rest == Tail(ts)  n == Len(ts)  m == Len(rest)
  <2>1. ts \in Seq(Place(Files)) /\ ts # <<>> /\ ts[n] = e.asked
    BY <1>2 DEF Last
  <2> HIDE DEF ts
  <2>2. /\ rest \in Seq(Place(Files)) /\ m = n - 1 /\ Head(ts) = ts[1]
        /\ \A i \in 1..m : rest[i] = ts[i + 1]
    BY <2>1, HeadTailProperties
  <2>3. n \in Nat /\ m \in Nat /\ (rest = <<>> => m = 0) /\ (rest # <<>> => m > 0)
    <3>1. n \in Nat /\ m \in Nat
      BY <2>1, <2>2
    <3> HIDE DEF rest
    <3>2. (rest = <<>> => m = 0) /\ (rest # <<>> => m \in Nat \ {0})
      BY <2>2, EmptySeq
    <3>3. QED
      BY <3>1, <3>2
  <2> HIDE DEF rest, n, m
  <2>4. rest = <<>> => n = 1
    BY <2>2, <2>3
  <2>5. rest # <<>> => m \in 1..m /\ m + 1 = n
    BY <2>2, <2>3
  <2>6. rest # <<>> => rest[m] = ts[n]
    BY <2>2, <2>5
  <2>7. QED
    BY <2>1, <2>2, <2>4, <2>6 DEF Last, ts, rest, m, n
<1>4. [file |-> e.shown, line |-> Head(e.timers).line] \in Place(Files)
  BY <1>1, <1>2 DEF Place
<1>5. /\ r \in Editor(Files) /\ r.opened = e.opened /\ r.asked = e.asked /\ r.shown = e.shown
      /\ r.timers = Tail(e.timers) /\ r.inTime = (e.shown = Head(e.timers).file)
      /\ r.cursor = [file |-> e.shown, line |-> Head(e.timers).line] /\ r.clicks = e.clicks
  BY <1>1, <1>2, <1>4 DEF TimerRanOff, Editor
<1> HIDE DEF r
<1>6. ASSUME Tail(e.timers) = <<>>, r.inTime PROVE r.shown = r.opened /\ r.cursor = r.asked
  <2>1. Head(e.timers) = e.asked /\ e.shown = e.asked.file
    BY <1>3, <1>5, <1>6
  <2>2. e.asked = [file |-> e.asked.file, line |-> e.asked.line]
    BY <1>1 DEF Place
  <2>3. QED
    BY <1>1, <1>5, <2>1, <2>2
<1>7. QED
  BY <1>1, <1>3, <1>5, <1>6 DEF JumpInv, Waiting, r

---------------------------------------------------------------------------
(* The issues of a log that grows, and the clicks on them.                 *)

LogText == log \in Seq(LogLine) /\ JumpInv(issueEditor, Seq(PathNames))

(* Whatever a log says, and whatever files a project has: an error that    *)
(* says its file and line leads there, and one whose line the log gives, a *)
(* few lines behind it and before the next error, to that line of the file *)
(* that the log was in, if no line of the log both closes a file and opens *)
(* one. The cursor is on the place of the last click when all timers ran   *)
(* off, unless the text of its file was not there yet. The code:           *)
(* parseLatexLog, resolveLogFilePath, and the buttons of the issues.       *)
THEOREM IssuesLeadToTheirPlace == TextSpec => []IssuesArePlaced
<1>1. TextInit => LogText
  <2>1. <<"main.tex">> \in Seq(PathNames)
    BY TextAssumption
  <2>2. JumpInv(EditorOn(<<"main.tex">>), Seq(PathNames))
    BY <2>1, JumpStarts
  <2>3. <<>> \in Seq(LogLine)
    OBVIOUS
  <2>4. QED
    BY <2>2, <2>3 DEF TextInit, LogText
<1>2. LogText /\ [TextNext]_textVars => LogText'
  <2> SUFFICES ASSUME LogText, [TextNext]_textVars PROVE LogText'
    OBVIOUS
  <2> USE DEF LogText
  <2>1. ASSUME NEW l \in LogLines, LogGrows(l) PROVE LogText'
    <3>1. l \in LogLine
      BY TextAssumption
    <3>2. Append(log, l) \in Seq(LogLine)
      BY <3>1
    <3>3. QED
      BY <2>1, <3>2 DEF LogGrows
  <2>2. ASSUME NEW issue \in ToSet(ParseLatexLog(log)), ClickIssue(issue) PROVE LogText'
    <3>1. issue \in Issue
      <4> DEFINE issues == ParseLatexLog(log)
      <4>1. issues \in Seq(Issue)
        BY IssuesAreShown
      <4> HIDE DEF issues
      <4>2. \A i \in DOMAIN issues : issues[i] \in Issue
        BY <4>1
      <4>3. QED
        BY <4>2 DEF ToSet, issues
    <3>2. issue.file \in LogPath /\ issue.line \in Nat
      BY <3>1 DEF Issue
    <3>3. IssueTarget(issue) \in Place(Seq(PathNames))
      BY <3>2, ResolvedFits DEF IssueTarget, Place
    <3>4. JumpInv(Clicked(issueEditor, IssueTarget(issue)), Seq(PathNames))
      BY <3>3, JumpIsAsked
    <3>5. QED
      BY <2>2, <3>4 DEF ClickIssue
  <2>3. CASE IssueTextLoads
    BY <2>3, JumpShowsText DEF IssueTextLoads
  <2>4. CASE IssueTimer
    BY <2>4, JumpTimer DEF IssueTimer
  <2>5. CASE UNCHANGED <<log, issueEditor>>
    BY <2>5
  <2>6. QED
    BY <2>1, <2>2, <2>3, <2>4, <2>5 DEF TextNext, BreakLine, TypeToken, textVars
<1>3. LogText => IssuesArePlaced
  BY IssuesOfALog, JumpArrives DEF LogText
<1>4. QED
  BY <1>1, <1>2, <1>3, PTL DEF TextSpec
===============================================================================
