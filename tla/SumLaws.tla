------------------------------- MODULE SumLaws -------------------------------
(***************************************************************************)
(* The laws of sums over finite sets that proofs about amounts rest on.    *)
(* The amounts are a function, w, so that no law has an operator as a      *)
(* parameter; and where one would argue by induction over a set, a least   *)
(* set for which the law fails is refuted, as strict inclusion between     *)
(* finite sets is well founded.                                            *)
(***************************************************************************)
EXTENDS Integers, FiniteSets, FiniteSetTheorems, WellFoundedInduction, TLAPS

AnyOf(S) == CHOOSE x \in S : TRUE

\* f gives each subset of S its sum, one element after the other.
Running(w, S, f) ==
  f = [s \in SUBSET S |-> IF s = {} THEN 0 ELSE w[AnyOf(s)] + f[s \ {AnyOf(s)}]]

SumOver(w, S) == (CHOOSE f : Running(w, S, f))[S]

\* Of sets of elements of a finite set, one has none of the others inside it.
LEMMA LeastSet ==
  ASSUME NEW S, IsFiniteSet(S), NEW T, T \subseteq SUBSET S, T # {}
  PROVE  \E A \in T : \A B \in T : B \subseteq A => B = A
<1>1. T \subseteq FiniteSubsetsOf(S)
  <2> SUFFICES ASSUME NEW A \in T PROVE A \in FiniteSubsetsOf(S)
    OBVIOUS
  <2>1. A \in SUBSET S
    OBVIOUS
  <2>2. IsFiniteSet(A)
    BY <2>1, FS_Subset
  <2> QED BY <2>1, <2>2 DEF FiniteSubsetsOf
<1>2. PICK A \in T : \A B \in T : ~(<<B, A>> \in StrictSubsetOrdering(S))
  <2>1. IsWellFoundedOn(StrictSubsetOrdering(S), FiniteSubsetsOf(S))
    BY FS_StrictSubsetOrderingWellFounded
  <2> QED BY <1>1, <2>1, WFMin
<1>3. \A B \in T : B \subseteq A => B = A
  BY <1>2 DEF StrictSubsetOrdering
<1> QED BY <1>3

\* The element chosen from a set is one of its own.
LEMMA AnyIsIn == ASSUME NEW S, S # {} PROVE AnyOf(S) \in S
BY DEF AnyOf

\* A running sum at one set.
LEMMA RunningAt ==
  ASSUME NEW w, NEW S, NEW f, Running(w, S, f), NEW s \in SUBSET S
  PROVE  f[s] = IF s = {} THEN 0 ELSE w[AnyOf(s)] + f[s \ {AnyOf(s)}]
BY DEF Running

\* Two running sums agree where both are defined.
LEMMA RunningAgree ==
  ASSUME NEW w, NEW S, IsFiniteSet(S), NEW A \in SUBSET S, NEW B \in SUBSET S,
         NEW f, Running(w, A, f), NEW g, Running(w, B, g),
         NEW s, s \subseteq A, s \subseteq B
  PROVE  f[s] = g[s]
<1> DEFINE Bad == {t \in SUBSET S : t \subseteq A /\ t \subseteq B /\ f[t] # g[t]}
<1> SUFFICES ASSUME Bad # {} PROVE FALSE
  OBVIOUS
<1>1. PICK t \in Bad : \A u \in Bad : u \subseteq t => u = t
  <2>1. Bad \subseteq SUBSET S
    OBVIOUS
  <2> HIDE DEF Bad
  <2> QED BY <2>1, LeastSet
<1>2. CASE t = {}
  BY <1>1, <1>2, RunningAt
<1>3. CASE t # {}
  <2> DEFINE u == t \ {AnyOf(t)}
  <2>1. u \subseteq t /\ u # t
    BY <1>3, AnyIsIn
  <2>2. f[u] = g[u]
    BY <1>1, <2>1
  <2>3. f[t] = w[AnyOf(t)] + f[u] /\ g[t] = w[AnyOf(t)] + g[u]
    BY <1>1, <1>3, RunningAt
  <2> QED BY <1>1, <2>2, <2>3
<1> QED BY <1>2, <1>3

\* The recursion defines a function.
LEMMA RunningExists ==
  ASSUME NEW w, NEW S, IsFiniteSet(S)
  PROVE  \E f : Running(w, S, f)
<1> DEFINE Bad == {t \in SUBSET S : ~\E f : Running(w, t, f)}
<1> SUFFICES ASSUME Bad # {} PROVE FALSE
  OBVIOUS
<1>1. PICK t \in Bad : \A u \in Bad : u \subseteq t => u = t
  <2>1. Bad \subseteq SUBSET S
    OBVIOUS
  <2> HIDE DEF Bad
  <2> QED BY <2>1, LeastSet
<1> DEFINE F(u) == CHOOSE f : Running(w, u, f)
           rest(s) == s \ {AnyOf(s)}
           g == [s \in SUBSET t |->
                   IF s = {} THEN 0 ELSE w[AnyOf(s)] + F(rest(s))[rest(s)]]
<1>2. ASSUME NEW u, u \subseteq t, u # t
      PROVE  Running(w, u, F(u))
  BY <1>1, <1>2
<1>3. ASSUME NEW s \in SUBSET t, s # {}
      PROVE  rest(s) \subseteq t /\ rest(s) # t
  BY <1>3, AnyIsIn
<1>4. ASSUME NEW s \in SUBSET t, s # {}
      PROVE  g[rest(s)] = F(rest(s))[rest(s)]
  <2> DEFINE r == rest(s)
  <2>1. r \subseteq t /\ r # t
    BY <1>3, <1>4
  <2>2. CASE r = {}
    <3>1. Running(w, r, F(r))
      BY <1>2, <2>1
    <3>2. F(r)[r] = 0
      <4> HIDE DEF r, F
      <4> QED BY <2>2, <3>1, RunningAt
    <3>3. g[r] = 0
      BY <2>1, <2>2
    <3> QED BY <3>2, <3>3
  <2>3. CASE r # {}
    <3>1. Running(w, r, F(r))
      BY <1>2, <2>1
    <3>2. F(r)[r] = w[AnyOf(r)] + F(r)[rest(r)]
      <4> HIDE DEF r, F
      <4> QED BY <2>3, <3>1, RunningAt
    <3>3. rest(r) \subseteq r /\ rest(r) # t
      BY <2>1
    <3>4. Running(w, rest(r), F(rest(r)))
      BY <1>2, <2>1, <3>3
    <3>5. F(r)[rest(r)] = F(rest(r))[rest(r)]
      <4>1. r \in SUBSET S /\ rest(r) \in SUBSET S /\ rest(r) \subseteq r
        BY <2>1
      <4> HIDE DEF r, F, rest
      <4> QED BY <3>1, <3>4, <4>1, RunningAgree
    <3>6. g[r] = w[AnyOf(r)] + F(rest(r))[rest(r)]
      BY <2>1, <2>3
    <3> QED BY <3>2, <3>5, <3>6
  <2> QED BY <2>2, <2>3
<1>5. Running(w, t, g)
  <2>1. \A s \in SUBSET t :
          g[s] = IF s = {} THEN 0 ELSE w[AnyOf(s)] + g[rest(s)]
    <3> SUFFICES ASSUME NEW s \in SUBSET t
                 PROVE  g[s] = IF s = {} THEN 0 ELSE w[AnyOf(s)] + g[rest(s)]
      OBVIOUS
    <3>1. g[s] = IF s = {} THEN 0 ELSE w[AnyOf(s)] + F(rest(s))[rest(s)]
      OBVIOUS
    <3>2. s # {} => g[rest(s)] = F(rest(s))[rest(s)]
      BY <1>4
    <3> HIDE DEF g, rest, F
    <3> QED BY <3>1, <3>2
  <2>2. g = [s \in SUBSET t |-> g[s]]
    OBVIOUS
  <2> HIDE DEF g
  <2> QED BY <2>1, <2>2 DEF Running
<1> QED BY <1>1, <1>5

\* The sum of a set can be read off any running sum that goes as far.
LEMMA SumRuns ==
  ASSUME NEW w, NEW S, IsFiniteSet(S), NEW f, NEW A, S \subseteq A, IsFiniteSet(A),
         Running(w, A, f)
  PROVE  SumOver(w, S) = f[S]
<1> DEFINE g == CHOOSE h : Running(w, S, h)
<1>1. Running(w, S, g)
  BY RunningExists
<1>2. SumOver(w, S) = g[S]
  BY DEF SumOver
<1> HIDE DEF g
<1>3. S \in SUBSET A /\ A \in SUBSET A
  OBVIOUS
<1>4. g[S] = f[S]
  BY <1>1, <1>3, RunningAgree
<1> QED BY <1>2, <1>4

\* The sum of nothing, and of one element and the rest.
LEMMA SumByStep ==
  ASSUME NEW w, NEW S, IsFiniteSet(S)
  PROVE  SumOver(w, S) = IF S = {} THEN 0
                         ELSE w[AnyOf(S)] + SumOver(w, S \ {AnyOf(S)})
<1>1. PICK f : Running(w, S, f)
  BY RunningExists
<1>2. SumOver(w, S) = f[S]
  BY <1>1, SumRuns
<1>3. IsFiniteSet(S \ {AnyOf(S)})
  BY FS_RemoveElement
<1>4. SumOver(w, S \ {AnyOf(S)}) = f[S \ {AnyOf(S)}]
  <2>1. S \ {AnyOf(S)} \subseteq S
    OBVIOUS
  <2> QED BY <1>1, <1>3, <2>1, SumRuns
<1>5. f[S] = IF S = {} THEN 0 ELSE w[AnyOf(S)] + f[S \ {AnyOf(S)}]
  <2>1. S \in SUBSET S
    OBVIOUS
  <2> QED BY <1>1, <2>1, RunningAt
<1> QED BY <1>2, <1>4, <1>5

\* The sum of Integers is one, and the sum of Naturals a Natural.
LEMMA SumType ==
  ASSUME NEW S, IsFiniteSet(S), NEW w, \A x \in S : w[x] \in Int
  PROVE  /\ SumOver(w, S) \in Int
         /\ (\A x \in S : w[x] \in Nat) => SumOver(w, S) \in Nat
<1> DEFINE Bad == {A \in SUBSET S :
                     ~ /\ SumOver(w, A) \in Int
                       /\ (\A x \in S : w[x] \in Nat) => SumOver(w, A) \in Nat}
<1> SUFFICES ASSUME Bad # {} PROVE FALSE
  OBVIOUS
<1>1. PICK A \in Bad : \A B \in Bad : B \subseteq A => B = A
  <2>1. Bad \subseteq SUBSET S
    OBVIOUS
  <2> HIDE DEF Bad
  <2> QED BY <2>1, LeastSet
<1>2. IsFiniteSet(A)
  BY <1>1, FS_Subset
<1>3. CASE A = {}
  <2>1. SumOver(w, A) = 0
    BY <1>2, <1>3, SumByStep
  <2> QED BY <1>1, <2>1
<1>4. CASE A # {}
  <2> DEFINE x == AnyOf(A)
             B == A \ {x}
  <2>1. x \in S /\ B \subseteq A /\ B # A
    BY <1>4, AnyIsIn
  <2>2. /\ SumOver(w, B) \in Int
        /\ (\A y \in S : w[y] \in Nat) => SumOver(w, B) \in Nat
    BY <1>1, <2>1
  <2>3. SumOver(w, A) = w[x] + SumOver(w, B)
    BY <1>2, <1>4, SumByStep
  <2> HIDE DEF x, B
  <2> QED BY <1>1, <2>1, <2>2, <2>3
<1> QED BY <1>3, <1>4

\* Equal amounts have equal sums.
LEMMA SumSame ==
  ASSUME NEW S, IsFiniteSet(S), NEW w, NEW v, \A x \in S : w[x] = v[x]
  PROVE  SumOver(w, S) = SumOver(v, S)
<1> DEFINE Bad == {A \in SUBSET S : SumOver(w, A) # SumOver(v, A)}
<1> SUFFICES ASSUME Bad # {} PROVE FALSE
  OBVIOUS
<1>1. PICK A \in Bad : \A B \in Bad : B \subseteq A => B = A
  <2>1. Bad \subseteq SUBSET S
    OBVIOUS
  <2> HIDE DEF Bad
  <2> QED BY <2>1, LeastSet
<1>2. IsFiniteSet(A)
  BY <1>1, FS_Subset
<1>3. CASE A = {}
  BY <1>1, <1>2, <1>3, SumByStep
<1>4. CASE A # {}
  <2> DEFINE x == AnyOf(A)
             B == A \ {x}
  <2>1. x \in S /\ B \subseteq A /\ B # A
    BY <1>4, AnyIsIn
  <2>2. SumOver(w, B) = SumOver(v, B)
    BY <1>1, <2>1
  <2>3. /\ SumOver(w, A) = w[x] + SumOver(w, B)
        /\ SumOver(v, A) = v[x] + SumOver(v, B)
    BY <1>2, <1>4, SumByStep
  <2> HIDE DEF x, B
  <2> QED BY <1>1, <2>1, <2>2, <2>3
<1> QED BY <1>3, <1>4

\* Any element, and not only the chosen one, can be taken out of a sum.
LEMMA SumWithout ==
  ASSUME NEW S, IsFiniteSet(S), NEW w, \A y \in S : w[y] \in Int, NEW x \in S
  PROVE  SumOver(w, S) = w[x] + SumOver(w, S \ {x})
<1> DEFINE Bad == {A \in SUBSET S :
                     \E y \in A : SumOver(w, A) # w[y] + SumOver(w, A \ {y})}
<1> SUFFICES ASSUME Bad # {} PROVE FALSE
  <2> HIDE DEF Bad
  <2>1. CASE Bad = {}
    <3>1. S \notin Bad
      BY <2>1
    <3> QED BY <3>1 DEF Bad
  <2> QED BY <2>1
<1>1. PICK A \in Bad : \A B \in Bad : B \subseteq A => B = A
  <2>1. Bad \subseteq SUBSET S
    OBVIOUS
  <2> HIDE DEF Bad
  <2> QED BY <2>1, LeastSet
<1>2. PICK y \in A : SumOver(w, A) # w[y] + SumOver(w, A \ {y})
  BY <1>1
<1>3. IsFiniteSet(A) /\ A \subseteq S
  BY <1>1, FS_Subset
<1> DEFINE a == AnyOf(A)
<1>4. a \in A
  BY <1>2, AnyIsIn
<1>5. SumOver(w, A) = w[a] + SumOver(w, A \ {a})
  BY <1>2, <1>3, SumByStep
\* What is taken out of a smaller set comes out, and both orders leave the same.
<1>6. ASSUME NEW b \in A, NEW c \in A, b # c
      PROVE  SumOver(w, A \ {b}) = w[c] + SumOver(w, (A \ {b}) \ {c})
  <2>1. A \ {b} \in SUBSET S /\ A \ {b} \subseteq A /\ A \ {b} # A /\ c \in A \ {b}
    BY <1>3, <1>6
  <2>2. A \ {b} \notin Bad
    <3> HIDE DEF Bad
    <3> QED BY <1>1, <2>1
  <2> QED BY <2>1, <2>2
<1> HIDE DEF a
<1>7. a # y
  BY <1>2, <1>5
<1>8. /\ SumOver(w, A \ {a}) = w[y] + SumOver(w, (A \ {a}) \ {y})
      /\ SumOver(w, A \ {y}) = w[a] + SumOver(w, (A \ {y}) \ {a})
  BY <1>2, <1>4, <1>6, <1>7
<1>9. SumOver(w, (A \ {a}) \ {y}) = SumOver(w, (A \ {y}) \ {a})
  <2>1. (A \ {a}) \ {y} = (A \ {y}) \ {a}
    OBVIOUS
  <2> QED BY <2>1
<1>10. /\ w[a] \in Int /\ w[y] \in Int
       /\ SumOver(w, (A \ {a}) \ {y}) \in Int
  <2>1. IsFiniteSet((A \ {a}) \ {y}) /\ (A \ {a}) \ {y} \subseteq S
    BY <1>3, FS_Subset
  <2>2. \A z \in (A \ {a}) \ {y} : w[z] \in Int
    BY <2>1
  <2> QED BY <1>2, <1>3, <1>4, <2>1, <2>2, SumType
<1> HIDE DEF Bad
<1> QED BY <1>2, <1>5, <1>8, <1>9, <1>10

\* The sum over two sets that have nothing in common.
LEMMA SumUnion ==
  ASSUME NEW S, IsFiniteSet(S), NEW T, IsFiniteSet(T), S \cap T = {},
         NEW w, \A x \in S \cup T : w[x] \in Int
  PROVE  SumOver(w, S \cup T) = SumOver(w, S) + SumOver(w, T)
<1> DEFINE Bad == {A \in SUBSET S :
                     SumOver(w, A \cup T) # SumOver(w, A) + SumOver(w, T)}
<1> SUFFICES ASSUME Bad # {} PROVE FALSE
  OBVIOUS
<1>1. PICK A \in Bad : \A B \in Bad : B \subseteq A => B = A
  <2>1. Bad \subseteq SUBSET S
    OBVIOUS
  <2> HIDE DEF Bad
  <2> QED BY <2>1, LeastSet
<1>2. IsFiniteSet(A) /\ A \subseteq S
  BY <1>1, FS_Subset
<1>3. SumOver(w, T) \in Int
  BY SumType
<1>4. CASE A = {}
  <2>1. SumOver(w, A) = 0 /\ A \cup T = T
    BY <1>2, <1>4, SumByStep
  <2>2. SumOver(w, A \cup T) # SumOver(w, A) + SumOver(w, T)
    BY <1>1
  <2>3. SumOver(w, A \cup T) = SumOver(w, T)
    BY <2>1
  <2> HIDE DEF Bad
  <2> QED BY <1>3, <2>1, <2>2, <2>3
<1>5. CASE A # {}
  <2> DEFINE x == AnyOf(A)
             B == A \ {x}
  <2>1. /\ x \in A /\ B \subseteq A /\ B # A /\ B \in SUBSET S
        /\ (A \cup T) \ {x} = B \cup T
    BY <1>2, <1>5, AnyIsIn
  <2>2. SumOver(w, B \cup T) = SumOver(w, B) + SumOver(w, T)
    BY <1>1, <2>1
  <2>3. SumOver(w, A) = w[x] + SumOver(w, B)
    BY <1>2, <1>5, SumByStep
  <2>4. SumOver(w, A \cup T) = w[x] + SumOver(w, B \cup T)
    <3>1. IsFiniteSet(A \cup T) /\ x \in A \cup T
      BY <1>2, <2>1, FS_Union
    <3>2. \A y \in A \cup T : w[y] \in Int
      BY <1>2
    <3> HIDE DEF x, B
    <3> QED BY <2>1, <3>1, <3>2, SumWithout
  <2>5. w[x] \in Int /\ SumOver(w, B) \in Int
    <3>1. IsFiniteSet(B) /\ \A y \in B : w[y] \in Int
      BY <1>2, <2>1, FS_Subset
    <3> QED BY <1>2, <2>1, <3>1, SumType
  <2> HIDE DEF x, B
  <2> QED BY <1>1, <1>3, <2>2, <2>3, <2>4, <2>5
<1> QED BY <1>4, <1>5

\* A sum of Naturals grows with the set.
LEMMA SumSubset ==
  ASSUME NEW S, IsFiniteSet(S), NEW T, T \subseteq S,
         NEW w, \A x \in S : w[x] \in Nat
  PROVE  SumOver(w, T) <= SumOver(w, S)
<1> DEFINE R == S \ T
<1>1. /\ IsFiniteSet(T) /\ IsFiniteSet(R) /\ T \cap R = {} /\ S = T \cup R
      /\ (\A x \in T : w[x] \in Nat) /\ (\A x \in R : w[x] \in Nat)
  BY FS_Subset
<1> HIDE DEF R
<1>2. SumOver(w, S) = SumOver(w, T) + SumOver(w, R)
  <2>1. \A x \in T \cup R : w[x] \in Int
    BY <1>1
  <2> QED BY <1>1, <2>1, SumUnion
<1>3. SumOver(w, T) \in Nat /\ SumOver(w, R) \in Nat
  BY <1>1, SumType
<1> QED BY <1>2, <1>3

\* Amounts that are matched one to one come to no more than those they are
\* matched with.
LEMMA SumAlong ==
  ASSUME NEW A, IsFiniteSet(A), NEW B, IsFiniteSet(B),
         NEW w, NEW v, NEW m,
         \A x \in A : m[x] \in B /\ v[m[x]] = w[x],
         \A x, y \in A : m[x] = m[y] => x = y,
         \A y \in B : v[y] \in Nat
  PROVE  SumOver(w, A) <= SumOver(v, B)
<1> DEFINE Img(C) == {m[x] : x \in C}
           Bad == {C \in SUBSET A : SumOver(w, C) # SumOver(v, Img(C))}
<1>1. Bad = {}
  <2> SUFFICES ASSUME Bad # {} PROVE FALSE
    OBVIOUS
  <2>1. PICK C \in Bad : \A D \in Bad : D \subseteq C => D = C
    <3>1. Bad \subseteq SUBSET A
      OBVIOUS
    <3> HIDE DEF Bad
    <3> QED BY <3>1, LeastSet
  <2>2. IsFiniteSet(C) /\ C \subseteq A
    BY <2>1, FS_Subset
  <2>3. IsFiniteSet(Img(C)) /\ Img(C) \subseteq B
    <3>1. Img(C) \subseteq B
      BY <2>2
    <3> QED BY <3>1, FS_Subset
  <2>4. CASE C = {}
    <3>1. Img(C) = {}
      BY <2>4
    <3>2. SumOver(w, C) = 0 /\ SumOver(v, Img(C)) = 0
      <4> HIDE DEF Img
      <4> QED BY <2>2, <2>3, <2>4, <3>1, SumByStep
    <3> QED BY <2>1, <3>2
  <2>5. CASE C # {}
    <3> DEFINE x == AnyOf(C)
               D == C \ {x}
    <3>1. x \in C /\ D \subseteq C /\ D # C /\ D \in SUBSET A
      BY <2>2, <2>5, AnyIsIn
    <3>2. SumOver(w, D) = SumOver(v, Img(D))
      BY <2>1, <3>1
    <3>3. SumOver(w, C) = w[x] + SumOver(w, D)
      BY <2>2, <2>5, SumByStep
    <3>4. m[x] \in Img(C) /\ Img(C) \ {m[x]} = Img(D)
      <4> HIDE DEF x
      <4> QED BY <2>2, <3>1
    <3>5. SumOver(v, Img(C)) = v[m[x]] + SumOver(v, Img(D))
      <4>1. \A y \in Img(C) : v[y] \in Int
        BY <2>3
      <4> HIDE DEF Img, x, D
      <4> QED BY <2>3, <3>4, <4>1, SumWithout
    <3>6. v[m[x]] = w[x]
      BY <2>2, <3>1
    <3> HIDE DEF x, D, Img
    <3> QED BY <2>1, <3>2, <3>3, <3>5, <3>6 DEF Bad
  <2> QED BY <2>4, <2>5
<1>2. SumOver(w, A) = SumOver(v, Img(A))
  <2>1. A \notin Bad
    <3> HIDE DEF Bad
    <3> QED BY <1>1
  <2> HIDE DEF Img
  <2> QED BY <2>1 DEF Bad
<1>3. Img(A) \subseteq B
  OBVIOUS
<1> HIDE DEF Img
<1> QED BY <1>2, <1>3, SumSubset
=============================================================================
