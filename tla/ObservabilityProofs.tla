------------------------- MODULE ObservabilityProofs -------------------------
(***************************************************************************)
(* Theorems about Observability, for any runs, customers, days and counts  *)
(* of tokens.                                                              *)
(***************************************************************************)
EXTENDS Observability, Integers, FiniteSetTheorems, TLAPS

-----------------------------------------------------------------------------
(* Sums                                                                    *)

(* Among any subsets of a finite set there is a smallest one: a claim about*)
(* all of them is proved by looking at a smallest one it fails for.        *)
LEMMA SmallestSet ==
  ASSUME NEW S, IsFiniteSet(S), NEW C, C \subseteq SUBSET S, C # {}
  PROVE  \E T \in C : T \in SUBSET S /\ \A U \in SUBSET T : U # T => U \notin C
<1>1. C \subseteq FiniteSubsetsOf(S)
  BY FS_Subset DEF FiniteSubsetsOf
<1>2. PICK T \in C : \A U \in C : <<U, T>> \notin StrictSubsetOrdering(S)
  BY <1>1, FS_StrictSubsetOrderingWellFounded, WFMin
<1> QED
  BY <1>2 DEF StrictSubsetOrdering

(* The element the sum over T takes next, and the partial sums of f below S.*)
Some(T) == CHOOSE x \in T : TRUE

Sums(g, f, S) ==
  g = [T \in SUBSET S |-> IF T = {} THEN 0
                                    ELSE f[Some(T)] + g[T \ {Some(T)}]]

(* The element is one of T.                                                *)
LEMMA SomeIn == \A T : T # {} => Some(T) \in T
BY DEF Some

(* If there are partial sums, the sum is the last of some.                 *)
LEMMA SumChosen ==
  ASSUME NEW f, NEW S, \E g : Sums(g, f, S)
  PROVE  \E g : Sums(g, f, S) /\ SumFunctionOnSet(f, S) = g[S]
BY DEF Sums, Some, SumFunctionOnSet, FoldFunctionOnSet, MapThenFoldSet

(* Partial sums below two sets agree where both are defined.               *)
LEMMA SumsAgree ==
  ASSUME NEW f, NEW S, IsFiniteSet(S), NEW g, Sums(g, f, S),
         NEW V \in SUBSET S, NEW h, Sums(h, f, V), NEW W \in SUBSET V
  PROVE  g[W] = h[W]
<1> DEFINE C == {T \in SUBSET V : g[T] # h[T]}
<1> SUFFICES ASSUME C # {} PROVE FALSE
  OBVIOUS
<1>0. C \subseteq SUBSET V
  OBVIOUS
<1>1. IsFiniteSet(V)
  BY FS_Subset
<1>2. PICK T \in C : T \in SUBSET V /\ \A U \in SUBSET T : U # T => U \notin C
  <2> HIDE DEF C
  <2> QED
    BY <1>0, <1>1, SmallestSet
<1>3. CASE T = {}
  BY <1>3, <1>2 DEF Sums
<1>4. CASE T # {}
  <2>1. Some(T) \in T
    BY <1>4, SomeIn
  <2>2. T \ {Some(T)} \in (SUBSET V) \ C
    BY <1>2, <2>1
  <2>3. g[T \ {Some(T)}] = h[T \ {Some(T)}]
    BY <2>2
  <2>4. T \in SUBSET V /\ T \in SUBSET S
    BY <1>2
  <2>5. g[T] = f[Some(T)] + g[T \ {Some(T)}]
    BY <1>4, <2>4 DEF Sums
  <2>6. h[T] = f[Some(T)] + h[T \ {Some(T)}]
    BY <1>4, <2>4 DEF Sums
  <2> QED
    BY <1>2, <2>3, <2>5, <2>6
<1> QED
  BY <1>3, <1>4

(* Where there are partial sums below each set, the sum takes out its elements*)
(* one by one.                                                             *)
LEMMA SumsSub ==
  ASSUME NEW f, NEW S, IsFiniteSet(S), NEW T \in SUBSET S,
         \A U \in SUBSET T : \E g : Sums(g, f, U)
  PROVE  SumFunctionOnSet(f, T) =
           IF T = {} THEN 0
                     ELSE f[Some(T)] + SumFunctionOnSet(f, T \ {Some(T)})
<1>1. PICK g : Sums(g, f, T) /\ SumFunctionOnSet(f, T) = g[T]
  BY SumChosen
<1>2. IsFiniteSet(T)
  BY FS_Subset
<1>3. CASE T = {}
  BY <1>1, <1>3 DEF Sums
<1>4. CASE T # {}
  <2> DEFINE U == T \ {Some(T)}
  <2>1. U \in SUBSET T
    OBVIOUS
  <2>2. PICK h : Sums(h, f, U) /\ SumFunctionOnSet(f, U) = h[U]
    BY <2>1, SumChosen
  <2>3. g[U] = h[U]
    BY <1>1, <1>2, <2>1, <2>2, SumsAgree
  <2>4. g[T] = f[Some(T)] + g[U]
    BY <1>1, <1>4 DEF Sums
  <2> QED
    BY <1>1, <1>4, <2>2, <2>3, <2>4
<1> QED
  BY <1>3, <1>4

(* There are partial sums below every finite set.                          *)
LEMMA SumsExist ==
  ASSUME NEW f, NEW S, IsFiniteSet(S)
  PROVE  \E g : Sums(g, f, S)
<1> DEFINE C == {T \in SUBSET S : ~\E g : Sums(g, f, T)}
<1> SUFFICES ASSUME C # {} PROVE FALSE
  OBVIOUS
<1>0. C \subseteq SUBSET S
  OBVIOUS
<1>1. PICK T \in C : T \in SUBSET S /\ \A U \in SUBSET T : U # T => U \notin C
  <2> HIDE DEF C
  <2> QED
    BY <1>0, SmallestSet
<1>2. T \in SUBSET S
  OBVIOUS
<1>3. \A U \in SUBSET T : U # T => \E g : Sums(g, f, U)
  BY <1>1, <1>2
<1> DEFINE sum(U) == SumFunctionOnSet(f, U)
           g == [U \in SUBSET T |->
                   IF U = {} THEN 0 ELSE f[Some(U)] + sum(U \ {Some(U)})]
<1>4. ASSUME NEW U \in SUBSET T, U # T
      PROVE  sum(U) = g[U]
  BY <1>2, <1>3, <1>4, SumsSub
<1>5. Sums(g, f, T)
  <2>1. \A U \in SUBSET T : U # {} =>
          U \ {Some(U)} \in SUBSET T /\ U \ {Some(U)} # T
    BY SomeIn
  <2>2. \A U \in SUBSET T : U # {} => sum(U \ {Some(U)}) = g[U \ {Some(U)}]
    BY <2>1, <1>4
  <2> HIDE DEF sum
  <2>3. \A U \in SUBSET T :
          g[U] = IF U = {} THEN 0 ELSE f[Some(U)] + g[U \ {Some(U)}]
    BY <2>2
  <2>4. g = [U \in SUBSET T |-> g[U]]
    OBVIOUS
  <2> HIDE DEF g
  <2> QED
    BY <2>3, <2>4 DEF Sums
<1> QED
  BY <1>1, <1>5

(* So the sum over a finite set meets its recursive definition.            *)
LEMMA SumEquation ==
  ASSUME NEW f, NEW S, IsFiniteSet(S)
  PROVE  SumFunctionOnSet(f, S) =
           IF S = {} THEN 0
                     ELSE f[Some(S)] + SumFunctionOnSet(f, S \ {Some(S)})
BY SumsSub, SumsExist, FS_Subset

(* A sum of integers is an integer, and does not depend on which element is*)
(* taken out first.                                                        *)
LEMMA SumRemove ==
  ASSUME NEW f, NEW S, IsFiniteSet(S), \A x \in S : f[x] \in Int
  PROVE  /\ SumFunctionOnSet(f, S) \in Int
         /\ \A x \in S :
              SumFunctionOnSet(f, S) = f[x] + SumFunctionOnSet(f, S \ {x})
<1> DEFINE sum(T) == SumFunctionOnSet(f, T)
           OK(T) == sum(T) \in Int /\ \A x \in T : sum(T) = f[x] + sum(T \ {x})
           C == {T \in SUBSET S : ~OK(T)}
<1> SUFFICES ASSUME C # {} PROVE FALSE
  OBVIOUS
<1>0. C \subseteq SUBSET S
  OBVIOUS
<1>1. PICK T \in C : T \in SUBSET S /\ \A U \in SUBSET T : U # T => U \notin C
  <2> HIDE DEF C
  <2> QED
    BY <1>0, SmallestSet
<1>2. T \in SUBSET S /\ ~OK(T)
  OBVIOUS
<1>3. \A U \in SUBSET T : U # T => OK(U)
  BY <1>1, <1>2
<1>4. sum(T) = IF T = {} THEN 0 ELSE f[Some(T)] + sum(T \ {Some(T)})
  BY <1>2, FS_Subset, SumEquation
<1> HIDE DEF sum
<1>5. CASE T = {}
  BY <1>2, <1>4, <1>5
<1>6. CASE T # {}
  <2>1. PICK c \in T : c = Some(T)
    BY <1>6, SomeIn
  <2>2. sum(T \ {c}) \in Int /\ sum(T) = f[c] + sum(T \ {c}) /\ f[c] \in Int
    BY <1>2, <1>3, <1>4, <1>6, <2>1
  <2>3. ASSUME NEW x \in T, x # c
        PROVE  sum(T) = f[x] + sum(T \ {x})
    <3>1. OK(T \ {c}) /\ OK(T \ {x}) /\ OK(T \ {c, x})
      BY <1>3, <2>3
    <3>2. T \ {c, x} = (T \ {c}) \ {x} /\ T \ {c, x} = (T \ {x}) \ {c}
      OBVIOUS
    <3>3. sum(T \ {c}) = f[x] + sum(T \ {c, x})
      BY <3>1, <3>2, <2>3
    <3>4. sum(T \ {x}) = f[c] + sum(T \ {c, x})
      BY <3>1, <3>2, <2>3
    <3>5. f[x] \in Int /\ sum(T \ {c, x}) \in Int
      BY <1>2, <3>1
    <3> QED
      BY <2>2, <3>3, <3>4, <3>5
  <2> QED
    BY <1>2, <2>2, <2>3
<1> QED
  BY <1>5, <1>6

(* F adds up f below S: it takes out elements one by one.                  *)
AddsUp(F, f, S) ==
  F[{}] = 0 /\ \A T \in SUBSET S : \A x \in T : F[T] = f[x] + F[T \ {x}]

(* Whatever adds up f gives the sum.                                       *)
LEMMA SumUnique ==
  ASSUME NEW f, NEW S, IsFiniteSet(S), NEW F, AddsUp(F, f, S)
  PROVE  SumFunctionOnSet(f, S) = F[S]
<1> DEFINE C == {T \in SUBSET S : SumFunctionOnSet(f, T) # F[T]}
<1> SUFFICES ASSUME C # {} PROVE FALSE
  OBVIOUS
<1>0. C \subseteq SUBSET S
  OBVIOUS
<1>1. PICK T \in C : T \in SUBSET S /\ \A U \in SUBSET T : U # T => U \notin C
  <2> HIDE DEF C
  <2> QED
    BY <1>0, SmallestSet
<1>2. T \in SUBSET S /\ IsFiniteSet(T)
  BY FS_Subset
<1>3. CASE T = {}
  BY <1>1, <1>2, <1>3, SumEquation DEF AddsUp
<1>4. CASE T # {}
  <2>1. Some(T) \in T
    BY <1>4, SomeIn
  <2>2. T \ {Some(T)} \in (SUBSET S) \ C
    BY <1>1, <2>1
  <2>3. SumFunctionOnSet(f, T \ {Some(T)}) = F[T \ {Some(T)}]
    BY <2>2
  <2>4. F[T] = f[Some(T)] + F[T \ {Some(T)}]
    BY <1>2, <2>1 DEF AddsUp
  <2>5. SumFunctionOnSet(f, T)
          = f[Some(T)] + SumFunctionOnSet(f, T \ {Some(T)})
    BY <1>2, <1>4, SumEquation
  <2> QED
    BY <1>1, <2>3, <2>4, <2>5
<1> QED
  BY <1>3, <1>4

(* A sum is what a part adds and what the rest adds.                       *)
LEMMA SumSplit ==
  ASSUME NEW f, NEW S, IsFiniteSet(S), \A x \in S : f[x] \in Int,
         NEW T \in SUBSET S
  PROVE  SumFunctionOnSet(f, S)
           = SumFunctionOnSet(f, T) + SumFunctionOnSet(f, S \ T)
<1> DEFINE sum(U) == SumFunctionOnSet(f, U)
           F == [U \in SUBSET T |-> sum(S) - sum(S \ U)]
<1>1. IsFiniteSet(T) /\ \A x \in T : f[x] \in Int
  BY FS_Subset
<1>2. \A U \in SUBSET S : IsFiniteSet(U) /\ \A x \in U : f[x] \in Int
  BY FS_Subset
<1>3. \A U \in SUBSET S :
        sum(U) \in Int /\ \A x \in U : sum(U) = f[x] + sum(U \ {x})
  BY <1>2, SumRemove
<1>4. F[{}] = 0
  <2> HIDE DEF sum
  <2>1. S \ {} = S /\ sum(S) \in Int
    BY <1>3
  <2> QED
    BY <2>1
<1>5. ASSUME NEW U \in SUBSET T, NEW x \in U
      PROVE  F[U] = f[x] + F[U \ {x}]
  <2> HIDE DEF sum
  <2>1. /\ S \ (U \ {x}) \in SUBSET S
        /\ x \in S \ (U \ {x})
        /\ (S \ (U \ {x})) \ {x} = S \ U
    OBVIOUS
  <2>2. sum(S \ (U \ {x})) = f[x] + sum(S \ U)
    BY <1>3, <2>1
  <2>3. sum(S) \in Int /\ sum(S \ U) \in Int /\ f[x] \in Int
    BY <1>1, <1>3
  <2> QED
    BY <2>2, <2>3
<1>6. sum(T) = F[T]
  <2>1. AddsUp(F, f, T)
    <3> HIDE DEF F
    <3> QED
      BY <1>4, <1>5 DEF AddsUp
  <2> HIDE DEF F
  <2> QED
    BY <1>1, <2>1, SumUnique
<1>7. sum(S) \in Int /\ sum(S \ T) \in Int
  BY <1>3
<1>8. F[T] = sum(S) - sum(S \ T)
  OBVIOUS
<1> HIDE DEF F
<1> QED
  BY <1>6, <1>7, <1>8

(* The sum depends only on the values summed.                              *)
LEMMA SumSame ==
  ASSUME NEW f, NEW g, NEW S, IsFiniteSet(S),
         \A x \in S : f[x] = g[x] /\ f[x] \in Int
  PROVE  SumFunctionOnSet(f, S) = SumFunctionOnSet(g, S)
<1> DEFINE G == [T \in SUBSET S |-> SumFunctionOnSet(g, T)]
<1>1. G[{}] = 0
  BY SumEquation, FS_EmptySet
<1>2. ASSUME NEW T \in SUBSET S, NEW x \in T
      PROVE  G[T] = f[x] + G[T \ {x}]
  <2>1. IsFiniteSet(T) /\ \A y \in T : g[y] \in Int
    BY FS_Subset
  <2>2. SumFunctionOnSet(g, T) = g[x] + SumFunctionOnSet(g, T \ {x})
    BY <2>1, SumRemove
  <2>3. T \ {x} \in SUBSET S /\ f[x] = g[x]
    OBVIOUS
  <2> QED
    BY <2>2, <2>3
<1> HIDE DEF G
<1>3. AddsUp(G, f, S)
  BY <1>1, <1>2 DEF AddsUp
<1>4. SumFunctionOnSet(f, S) = G[S]
  BY <1>3, SumUnique
<1> QED
  BY <1>4 DEF G

(* What is zero everywhere adds up to zero.                                *)
LEMMA SumZero ==
  ASSUME NEW f, NEW S, IsFiniteSet(S), \A x \in S : f[x] = 0
  PROVE  SumFunctionOnSet(f, S) = 0
<1> DEFINE Z == [T \in SUBSET S |-> 0]
<1>1. Z[{}] = 0 /\ \A T \in SUBSET S : \A x \in T : Z[T] = f[x] + Z[T \ {x}]
  OBVIOUS
<1> HIDE DEF Z
<1>2. SumFunctionOnSet(f, S) = Z[S]
  BY <1>1, SumUnique DEF AddsUp
<1> QED
  BY <1>2 DEF Z

(* Ones add up to the number of elements.                                  *)
LEMMA SumOnes ==
  ASSUME NEW f, NEW S, IsFiniteSet(S), \A x \in S : f[x] = 1
  PROVE  SumFunctionOnSet(f, S) = Cardinality(S)
<1> DEFINE N == [T \in SUBSET S |-> Cardinality(T)]
<1>1. N[{}] = 0
  BY FS_EmptySet
<1>2. ASSUME NEW T \in SUBSET S, NEW x \in T
      PROVE  N[T] = f[x] + N[T \ {x}]
  <2>1. IsFiniteSet(T)
    BY FS_Subset
  <2>2. Cardinality(T) \in Nat /\ Cardinality(T \ {x}) = Cardinality(T) - 1
    BY <2>1, FS_CardinalityType, FS_RemoveElement
  <2> QED
    BY <2>2
<1> HIDE DEF N
<1>3. SumFunctionOnSet(f, S) = N[S]
  BY <1>1, <1>2, SumUnique DEF AddsUp
<1> QED
  BY <1>3 DEF N

(* Adding up the sums of groups adds up everything: w[e] over the elements *)
(* e of S, grouped by day[e].                                              *)
LEMMA Regroup ==
  ASSUME NEW w, NEW day, NEW S, IsFiniteSet(S), \A e \in S : w[e] \in Int,
         NEW v,
         \A d \in {day[e] : e \in S} :
           v[d] = SumFunctionOnSet(w, {e \in S : day[e] = d})
  PROVE  SumFunctionOnSet(v, {day[e] : e \in S}) = SumFunctionOnSet(w, S)
<1> DEFINE D == {day[e] : e \in S}
           of(E) == {e \in S : day[e] \in E}
           F == [E \in SUBSET D |-> SumFunctionOnSet(w, of(E))]
<1>1. IsFiniteSet(D)
  <2>1. [e \in S |-> day[e]] \in Surjection(S, D)
    BY DEF Surjection
  <2> QED
    BY <2>1, FS_Surjection
<1>2. F[{}] = 0
  <2>1. of({}) = {}
    OBVIOUS
  <2> QED
    BY <2>1, SumEquation, FS_EmptySet
<1>3. ASSUME NEW E \in SUBSET D, NEW d \in E
      PROVE  F[E] = v[d] + F[E \ {d}]
  <2> DEFINE group == {e \in S : day[e] = d}
  <2>1. IsFiniteSet(of(E)) /\ \A e \in of(E) : w[e] \in Int
    BY FS_Subset
  <2>2. group \in SUBSET of(E) /\ of(E) \ group = of(E \ {d})
    OBVIOUS
  <2>3. PICK T : T = of(E)
    OBVIOUS
  <2>4. SumFunctionOnSet(w, T)
          = SumFunctionOnSet(w, group) + SumFunctionOnSet(w, T \ group)
    <3> HIDE DEF of, group, F, D
    <3> QED
      BY <2>1, <2>2, <2>3, SumSplit
  <2>5. v[d] = SumFunctionOnSet(w, group)
    OBVIOUS
  <2>6. SumFunctionOnSet(w, of(E)) = v[d] + SumFunctionOnSet(w, of(E \ {d}))
    BY <2>2, <2>3, <2>4, <2>5
  <2> QED
    BY <2>6
<1>4. AddsUp(F, v, D)
  <2> HIDE DEF F
  <2> QED
    BY <1>2, <1>3 DEF AddsUp
<1>5. SumFunctionOnSet(v, D) = F[D]
  <2> HIDE DEF F
  <2> QED
    BY <1>1, <1>4, SumUnique
<1>6. of(D) = S
  OBVIOUS
<1> QED
  BY <1>5, <1>6

-----------------------------------------------------------------------------
(* The columns of the report are sums over rows                            *)

(* One for each call of type t, and its tokens.                            *)
CallsOf(t) == [e \in Events |-> IF e.type = t THEN 1 ELSE 0]
Tokens == [e \in Events |-> e.total_tokens]

(* Both are integers.                                                      *)
LEMMA WeightsInt ==
  \A e \in Events : Tokens[e] \in Int /\ \A t : CallsOf(t)[e] \in Int
<1>1. \A e \in Events : e.total_tokens \in Int
  <2>1. TokenCounts \subseteq Int
    BY UsageAssumption
  <2> QED
    BY <2>1 DEF Events
<1>2. \A e \in Events : \A t : CallsOf(t)[e] \in Int
  BY DEF CallsOf
<1> QED
  BY <1>1, <1>2 DEF Tokens

(* Counting the calls of a type adds up ones.                              *)
LEMMA CountIsSum ==
  ASSUME NEW rows \in SUBSET Events, IsFiniteSet(rows), NEW t
  PROVE  Cardinality(OfType(rows, t)) = SumFunctionOnSet(CallsOf(t), rows)
<1> DEFINE those == OfType(rows, t)
           w == CallsOf(t)
<1>1. those \in SUBSET rows /\ IsFiniteSet(those) /\ IsFiniteSet(rows \ those)
  BY FS_Subset DEF OfType
<1>2. \A e \in rows : w[e] = IF e \in those THEN 1 ELSE 0
  BY DEF CallsOf, OfType
<1> HIDE DEF those, w
<1>3. SumFunctionOnSet(w, those) = Cardinality(those)
  BY <1>1, <1>2, SumOnes
<1>4. SumFunctionOnSet(w, rows \ those) = 0
  BY <1>1, <1>2, SumZero
<1>5. SumFunctionOnSet(w, rows)
        = SumFunctionOnSet(w, those) + SumFunctionOnSet(w, rows \ those)
  BY <1>1, <1>2, SumSplit
<1>6. Cardinality(those) \in Int
  BY <1>1, FS_CardinalityType
<1> QED
  BY <1>3, <1>4, <1>5, <1>6 DEF those, w

(* And the tokens are the sum of theirs.                                   *)
LEMMA TokensAreSum ==
  ASSUME NEW rows \in SUBSET Events, IsFiniteSet(rows)
  PROVE  Sum(rows) = SumFunctionOnSet(Tokens, rows)
<1> DEFINE f == [e \in rows |-> e.total_tokens]
<1>1. \A e \in rows : f[e] = Tokens[e] /\ f[e] \in Int
  BY WeightsInt DEF Tokens
<1>2. DOMAIN f = rows
  OBVIOUS
<1>3. SumFunctionOnSet(f, rows) = SumFunctionOnSet(Tokens, rows)
  <2> HIDE DEF f
  <2> QED
    BY <1>1, SumSame
<1> QED
  BY <1>2, <1>3 DEF Sum, SumFunction

(* If tools use no tokens, those of the model's calls are all there are.   *)
LEMMA OnlyTheModelsTokens ==
  ASSUME NEW rows \in SUBSET Events, IsFiniteSet(rows),
         \A e \in rows : e.type = "tool_call" => e.total_tokens = 0
  PROVE  Sum(OfType(rows, "llm_call")) = Sum(rows)
<1> DEFINE those == OfType(rows, "llm_call")
<1>1. those \in SUBSET rows /\ IsFiniteSet(those) /\ IsFiniteSet(rows \ those)
  BY FS_Subset DEF OfType
<1>2. \A e \in rows \ those : Tokens[e] = 0
  BY DEF Tokens, OfType, Events, Types
<1>3. \A e \in rows : Tokens[e] \in Int
  BY WeightsInt
<1> HIDE DEF those
<1>4. SumFunctionOnSet(Tokens, rows \ those) = 0
  BY <1>1, <1>2, SumZero
<1>5. SumFunctionOnSet(Tokens, rows)
        = SumFunctionOnSet(Tokens, those) + SumFunctionOnSet(Tokens, rows \ those)
  BY <1>1, <1>3, SumSplit
<1>6. SumFunctionOnSet(Tokens, those) \in Int
  BY <1>1, <1>3, SumRemove
<1>7. those \in SUBSET Events
  BY <1>1
<1> QED
  BY <1>1, <1>4, <1>5, <1>6, <1>7, TokensAreSum DEF those

(* The rows are calls of the one type or of the other.                     *)
LEMMA TwoTypes ==
  ASSUME NEW rows \in SUBSET Events, IsFiniteSet(rows)
  PROVE  Cardinality(rows) = Cardinality(OfType(rows, "llm_call"))
                             + Cardinality(OfType(rows, "tool_call"))
<1> DEFINE m == OfType(rows, "llm_call")
           u == OfType(rows, "tool_call")
<1>1. IsFiniteSet(m) /\ IsFiniteSet(u) /\ m \cup u = rows /\ m \cap u = {}
  BY FS_Subset DEF OfType, Events, Types
<1> HIDE DEF m, u
<1>2. Cardinality(m \cup u) = Cardinality(m) + Cardinality(u)
                              - Cardinality(m \cap u)
  BY <1>1, FS_Union
<1>3. Cardinality(m \cap u) = 0 /\ Cardinality(m) \in Nat /\ Cardinality(u) \in Nat
  BY <1>1, FS_EmptySet, FS_CardinalityType
<1>4. Cardinality(rows) = Cardinality(m) + Cardinality(u)
  <2>1. Cardinality(rows) = Cardinality(m) + Cardinality(u) - 0
    BY <1>1, <1>2, <1>3, Zenon
  <2> QED
    BY <1>3, <2>1
<1> QED
  BY <1>4 DEF m, u

(* A column of a table is that of the rows up to a query and that of the   *)
(* rows since.                                                             *)
LEMMA Since ==
  ASSUME NEW rows \in SUBSET Events, IsFiniteSet(rows), NEW new \in SUBSET rows
  PROVE  /\ Sum(rows) = Sum(rows \ new) + Sum(new)
         /\ \A t : Cardinality(OfType(rows, t))
                     = Cardinality(OfType(rows \ new, t))
                       + Cardinality(OfType(new, t))
<1>1. /\ IsFiniteSet(new) /\ IsFiniteSet(rows \ new)
      /\ new \in SUBSET Events /\ rows \ new \in SUBSET Events
  BY FS_Subset
<1>2. ASSUME NEW w, \A e \in rows : w[e] \in Int
      PROVE  SumFunctionOnSet(w, rows)
               = SumFunctionOnSet(w, rows \ new) + SumFunctionOnSet(w, new)
  <2>1. SumFunctionOnSet(w, rows)
          = SumFunctionOnSet(w, new) + SumFunctionOnSet(w, rows \ new)
    BY <1>2, SumSplit
  <2>2. \A e \in new : w[e] \in Int
    BY <1>2
  <2>3. \A e \in rows \ new : w[e] \in Int
    BY <1>2
  <2>4. /\ SumFunctionOnSet(w, new) \in Int
        /\ SumFunctionOnSet(w, rows \ new) \in Int
    BY <1>1, <2>2, <2>3, SumRemove
  <2> QED
    BY <2>1, <2>4
<1>3. Sum(rows) = Sum(rows \ new) + Sum(new)
  <2>1. \A e \in rows : Tokens[e] \in Int
    BY WeightsInt
  <2> QED
    BY <1>1, <1>2, <2>1, TokensAreSum
<1>4. ASSUME NEW t
      PROVE  Cardinality(OfType(rows, t))
               = Cardinality(OfType(rows \ new, t)) + Cardinality(OfType(new, t))
  <2>1. \A e \in rows : CallsOf(t)[e] \in Int
    BY WeightsInt
  <2> QED
    BY <1>1, <1>2, <2>1, CountIsSum
<1> QED
  BY <1>3, <1>4

(* Each column of the report's days adds up to that of the whole table.    *)
LEMMA DaysAddUp ==
  ASSUME NEW rows \in SUBSET Events, IsFiniteSet(rows),
         \A e \in rows : e.type = "tool_call" => e.total_tokens = 0
  PROVE  LET by == DailyUsage(rows) IN
         /\ SumFunction([d \in DOMAIN by |-> by[d].llm_calls])
              = Cardinality(OfType(rows, "llm_call"))
         /\ SumFunction([d \in DOMAIN by |-> by[d].tool_calls])
              = Cardinality(OfType(rows, "tool_call"))
         /\ SumFunction([d \in DOMAIN by |-> by[d].total_tokens]) = Sum(rows)
<1> DEFINE by == DailyUsage(rows)
           day == [e \in Events |-> e.day]
           D == {day[e] : e \in rows}
           of(d) == {e \in rows : day[e] = d}
<1>1. /\ DOMAIN by = D
      /\ \A d \in D :
           /\ by[d].llm_calls = Cardinality(OfType(of(d), "llm_call"))
           /\ by[d].tool_calls = Cardinality(OfType(of(d), "tool_call"))
           /\ by[d].total_tokens = Sum(OfType(of(d), "llm_call"))
  <2>1. D = {e.day : e \in rows} /\ \A d : of(d) = {e \in rows : e.day = d}
    OBVIOUS
  <2> HIDE DEF D, of
  <2> QED
    BY <2>1 DEF DailyUsage
<1>2. \A d \in D : of(d) \in SUBSET Events /\ of(d) \in SUBSET rows
                   /\ IsFiniteSet(of(d))
  BY FS_Subset
<1> HIDE DEF by, day
<1>3. ASSUME NEW w, \A e \in Events : w[e] \in Int, NEW v, DOMAIN v = D,
             \A d \in D : v[d] = SumFunctionOnSet(w, of(d))
      PROVE  SumFunction(v) = SumFunctionOnSet(w, rows)
  <2>1. \A e \in rows : w[e] \in Int
    BY <1>3
  <2>2. SumFunctionOnSet(v, D) = SumFunctionOnSet(w, rows)
    BY <1>3, <2>1, Regroup
  <2> QED
    BY <1>3, <2>2 DEF SumFunction
<1> HIDE DEF D, of
<1>4. ASSUME NEW t
      PROVE  \A e \in Events : CallsOf(t)[e] \in Int
  BY WeightsInt
<1>5. SumFunction([d \in DOMAIN by |-> by[d].llm_calls])
        = Cardinality(OfType(rows, "llm_call"))
  <2> DEFINE v == [d \in DOMAIN by |-> by[d].llm_calls]
  <2>1. DOMAIN v = D /\ \A d \in D :
                          v[d] = SumFunctionOnSet(CallsOf("llm_call"), of(d))
    BY <1>1, <1>2, CountIsSum
  <2> HIDE DEF v
  <2>2. SumFunction(v) = SumFunctionOnSet(CallsOf("llm_call"), rows)
    BY <1>3, <1>4, <2>1
  <2> QED
    BY <2>2, CountIsSum DEF v
<1>6. SumFunction([d \in DOMAIN by |-> by[d].tool_calls])
        = Cardinality(OfType(rows, "tool_call"))
  <2> DEFINE v == [d \in DOMAIN by |-> by[d].tool_calls]
  <2>1. DOMAIN v = D /\ \A d \in D :
                          v[d] = SumFunctionOnSet(CallsOf("tool_call"), of(d))
    BY <1>1, <1>2, CountIsSum
  <2> HIDE DEF v
  <2>2. SumFunction(v) = SumFunctionOnSet(CallsOf("tool_call"), rows)
    BY <1>3, <1>4, <2>1
  <2> QED
    BY <2>2, CountIsSum DEF v
<1>7. SumFunction([d \in DOMAIN by |-> by[d].total_tokens]) = Sum(rows)
  <2> DEFINE v == [d \in DOMAIN by |-> by[d].total_tokens]
  <2>1. ASSUME NEW d \in D
        PROVE  v[d] = SumFunctionOnSet(Tokens, of(d))
    <3>1. \A e \in of(d) : e.type = "tool_call" => e.total_tokens = 0
      BY <1>2
    <3>2. Sum(OfType(of(d), "llm_call")) = SumFunctionOnSet(Tokens, of(d))
      BY <1>2, <3>1, OnlyTheModelsTokens, TokensAreSum
    <3> QED
      BY <1>1, <3>2
  <2>2. DOMAIN v = D
    BY <1>1
  <2> HIDE DEF v
  <2>3. \A e \in Events : Tokens[e] \in Int
    BY WeightsInt
  <2>4. SumFunction(v) = SumFunctionOnSet(Tokens, rows)
    BY <1>3, <2>1, <2>2, <2>3
  <2> QED
    BY <2>4, TokensAreSum DEF v
<1> QED
  BY <1>5, <1>6, <1>7 DEF by

-----------------------------------------------------------------------------
(* The inductive invariant of the callbacks                                *)

(* The note of a running call, and what a finished one took out, is the    *)
(* customer of its request.                                                *)
Notes ==
  \A r \in Runs : /\ pc[r] = "running" => pending[r] = customer[r]
                  /\ pc[r] = "ended" => context[r] = customer[r]

(* A row is written at the end of its call, and tools report no tokens.    *)
Rows ==
  /\ IsFiniteSet(log)
  /\ \A e \in log : pc[e.run] = "over"
  /\ \A e \in log : e.type = "tool_call" => e.total_tokens = 0

CallbackInv ==
  TypeOK /\ PendingWhileRunning /\ Notes /\ Rows /\ LoggedForItsCustomer

(* Nothing runs and nothing is logged at first.                            *)
LEMMA InitCallbacks == Init => CallbackInv
<1> SUFFICES ASSUME Init PROVE CallbackInv
  OBVIOUS
<1>1. TypeOK
  BY UsageAssumption DEF Init, TypeOK
<1> QED
  BY <1>1, FS_EmptySet
     DEF Init, CallbackInv, PendingWhileRunning, Notes, Rows,
         LoggedForItsCustomer

(* The row of a call that ends is one of the table's, and its first.       *)
LEMMA NewRow ==
  ASSUME CallbackInv, NEW r \in Runs, pc[r] = "ended",
         NEW tokens \in TokenCounts, NEW success \in BOOLEAN
  PROVE  LET e == Row(r, tokens, success) IN
         /\ e \in Events
         /\ e.run = r /\ e.type = type[r] /\ e.customer = customer[r]
         /\ e.total_tokens = tokens
         /\ \A f \in log : f.run # r
<1>1. /\ type[r] \in Types /\ context[r] = customer[r]
      /\ customer[r] \in Customers /\ today \in 1 .. Days
  BY DEF CallbackInv, TypeOK, Notes
<1>2. Row(r, tokens, success) \in Events
  BY <1>1 DEF Row, Events
<1>3. \A f \in log : f.run # r
  BY DEF CallbackInv, Rows
<1> QED
  BY <1>1, <1>2, <1>3 DEF Row

(* Every callback preserves the invariant.                                 *)
LEMMA CallbackStep ==
  ASSUME CallbackInv, NEW r \in Runs, Callback(r)
  PROVE  CallbackInv'
<1> USE DEF CallbackInv
<1>1. CASE Start(r)
  <2>1. TypeOK'
    BY <1>1 DEF Start, Goto, TypeOK, reporting
  <2>2. PendingWhileRunning'
    BY <1>1 DEF Start, Goto, TypeOK, PendingWhileRunning
  <2>3. Notes'
    BY <1>1 DEF Start, Goto, TypeOK, Notes, PendingWhileRunning
  <2>4. Rows' /\ LoggedForItsCustomer'
    BY <1>1 DEF Start, Goto, TypeOK, Rows, LoggedForItsCustomer, Events
  <2> QED
    BY <2>1, <2>2, <2>3, <2>4
<1>2. CASE Finish(r)
  <2>1. r \in DOMAIN pending /\ pending[r] = customer[r]
    BY <1>2 DEF Finish, PendingWhileRunning, Notes
  <2>2. TypeOK'
    BY <1>2, <2>1 DEF Finish, NoteOf, Goto, TypeOK, reporting
  <2>3. PendingWhileRunning'
    BY <1>2 DEF Finish, Goto, TypeOK, PendingWhileRunning
  <2>4. Notes'
    BY <1>2, <2>1 DEF Finish, NoteOf, Goto, TypeOK, Notes,
       PendingWhileRunning
  <2>5. Rows' /\ LoggedForItsCustomer'
    BY <1>2 DEF Finish, Goto, TypeOK, Rows, LoggedForItsCustomer, Events
  <2> QED
    BY <2>2, <2>3, <2>4, <2>5
<1>3. CASE Record(r)
  <2>1. PICK tokens \in TokenCounts, success \in BOOLEAN :
          /\ tokens # 0 => type[r] = "llm_call" /\ success
          /\ log' = log \cup {Row(r, tokens, success)}
          /\ late' = IF report = "totals"
                       THEN late \cup {Row(r, tokens, success)} ELSE late
    BY <1>3 DEF Record
  <2>2. PICK e : e = Row(r, tokens, success)
    OBVIOUS
  <2>3. /\ e \in Events
        /\ e.run = r /\ e.type = type[r] /\ e.customer = customer[r]
        /\ e.total_tokens = tokens
        /\ \A f \in log : f.run # r
    BY <1>3, <2>2, NewRow DEF Record
  <2>4. /\ log' = log \cup {e}
        /\ late' = IF report = "totals" THEN late \cup {e} ELSE late
        /\ pc' = [pc EXCEPT ![r] = "over"] /\ pc[r] = "ended"
        /\ UNCHANGED <<type, customer, pending, context, today, reporting>>
    BY <1>3, <2>1, <2>2 DEF Record, Goto
  <2>5. TypeOK'
    BY <2>3, <2>4 DEF TypeOK, reporting
  <2>6. PendingWhileRunning'
    BY <2>4 DEF TypeOK, PendingWhileRunning
  <2>7. Notes'
    BY <2>4 DEF TypeOK, Notes
  <2>8. IsFiniteSet(log')
    BY <2>4, FS_AddElement DEF Rows
  <2>9. Rows'
    <3>1. \A f \in log' : pc'[f.run] = "over"
      BY <2>3, <2>4 DEF TypeOK, Rows
    <3>2. \A f \in log' : f.type = "tool_call" => f.total_tokens = 0
      BY <2>1, <2>3, <2>4 DEF Rows
    <3> QED
      BY <2>8, <3>1, <3>2 DEF Rows
  <2>10. LoggedForItsCustomer'
    BY <2>3, <2>4 DEF LoggedForItsCustomer
  <2> QED
    BY <2>5, <2>6, <2>7, <2>9, <2>10
<1>4. CASE RecordFails(r)
  <2>1. TypeOK'
    BY <1>4 DEF RecordFails, Goto, TypeOK, reporting
  <2>2. PendingWhileRunning' /\ Notes'
    BY <1>4 DEF RecordFails, Goto, TypeOK, PendingWhileRunning, Notes
  <2>3. Rows' /\ LoggedForItsCustomer'
    BY <1>4 DEF RecordFails, Goto, TypeOK, Rows, LoggedForItsCustomer, Events
  <2> QED
    BY <2>1, <2>2, <2>3
<1> QED
  BY <1>1, <1>2, <1>3, <1>4 DEF Callback

(* A process that dies takes its notes with it.                            *)
LEMMA CrashStep ==
  ASSUME CallbackInv, NEW gone \in SUBSET Runs, Crash(gone)
  PROVE  CallbackInv'
<1> USE DEF CallbackInv, Crash
<1>1. TypeOK'
  BY DEF TypeOK, reporting
<1>2. PendingWhileRunning' /\ Notes'
  BY DEF TypeOK, PendingWhileRunning, Notes
<1>3. Rows' /\ LoggedForItsCustomer'
  BY DEF TypeOK, Rows, LoggedForItsCustomer, Events
<1> QED
  BY <1>1, <1>2, <1>3

(* A step that leaves the runs and the log alone, as a query of the report.*)
LEMMA QuietStep ==
  ASSUME CallbackInv, UNCHANGED <<runs, log>>,
         today' \in 1 .. Days, report' \in {"none", "totals", "complete"},
         late' \subseteq log
  PROVE  CallbackInv'
<1>1. TypeOK'
  BY DEF CallbackInv, TypeOK, runs
<1>2. PendingWhileRunning' /\ Notes'
  BY DEF CallbackInv, PendingWhileRunning, Notes, runs
<1>3. Rows' /\ LoggedForItsCustomer'
  BY DEF CallbackInv, Rows, LoggedForItsCustomer, runs
<1> QED
  BY <1>1, <1>2, <1>3 DEF CallbackInv

(* Every step preserves the invariant of the callbacks.                    *)
LEMMA NextCallbacks == CallbackInv /\ [Next]_vars => CallbackInv'
<1> SUFFICES ASSUME CallbackInv, [Next]_vars PROVE CallbackInv'
  OBVIOUS
<1>1. ASSUME NEW r \in Runs, Callback(r) PROVE CallbackInv'
  BY <1>1, CallbackStep
<1>2. ASSUME NEW gone \in SUBSET Runs, Crash(gone) PROVE CallbackInv'
  BY <1>2, CrashStep
<1>3. CASE ReadTotals
  BY <1>3, QuietStep DEF ReadTotals, CallbackInv, TypeOK
<1>4. CASE ReadDays
  BY <1>4, QuietStep DEF ReadDays, CallbackInv, TypeOK
<1>5. CASE ReportEnds
  BY <1>5, QuietStep DEF ReportEnds, CallbackInv, TypeOK
<1>6. CASE Midnight
  BY <1>6, UsageAssumption, QuietStep
     DEF Midnight, CallbackInv, TypeOK, reporting
<1>7. CASE UNCHANGED vars
  BY <1>7, QuietStep DEF vars, reporting, CallbackInv, TypeOK
<1> QED
  BY <1>1, <1>2, <1>3, <1>4, <1>5, <1>6, <1>7 DEF Next

-----------------------------------------------------------------------------
(* The inductive invariant of the report                                   *)

(* Between the queries, the totals are those of the rows committed before  *)
(* the first.                                                              *)
Between == report = "totals" => totals = UsageTotals(log \ late)

Inv == CallbackInv /\ Between /\ ReportAddsUp

(* There is no report at first.                                            *)
LEMMA InitInv == Init => Inv
BY InitCallbacks DEF Init, Inv, Between, ReportAddsUp

(* A callback leaves the report alone, and a row it adds between the       *)
(* queries is late.                                                        *)
LEMMA CallbackReport ==
  ASSUME Inv, NEW r \in Runs, Callback(r)
  PROVE  (Between /\ ReportAddsUp)'
<1>1. CASE Record(r)
  <2>1. PICK tokens \in TokenCounts, success \in BOOLEAN :
          /\ log' = log \cup {Row(r, tokens, success)}
          /\ late' = IF report = "totals"
                       THEN late \cup {Row(r, tokens, success)} ELSE late
    BY <1>1 DEF Record
  <2>2. Row(r, tokens, success) \notin log
    BY <1>1, NewRow DEF Record, Inv
  <2>3. report = "totals" => log' \ late' = log \ late
    BY <2>1, <2>2
  <2>4. report' = report /\ totals' = totals /\ by_day' = by_day
    BY <1>1 DEF Record, reporting
  <2>5. Between'
    BY <2>3, <2>4 DEF Inv, Between
  <2>6. ReportAddsUp'
    BY <2>1, <2>4 DEF Inv, ReportAddsUp
  <2> QED
    BY <2>5, <2>6
<1>2. CASE Start(r) \/ Finish(r) \/ RecordFails(r)
  BY <1>2 DEF Start, Finish, RecordFails, Inv, Between, ReportAddsUp, reporting
<1> QED
  BY <1>1, <1>2 DEF Callback

(* When the second query runs, the days of the whole table add up to the   *)
(* totals and the late rows.                                               *)
LEMMA SecondQuery ==
  ASSUME Inv, ReadDays
  PROVE  ReportAddsUp'
<1> DEFINE before == log \ late
<1>1. /\ log \in SUBSET Events /\ IsFiniteSet(log) /\ late \in SUBSET log
      /\ \A e \in log : e.type = "tool_call" => e.total_tokens = 0
  BY DEF Inv, CallbackInv, TypeOK, Rows
<1>2. before \in SUBSET Events /\ IsFiniteSet(before)
  BY <1>1, FS_Subset
<1>3. /\ totals' = UsageTotals(before) /\ late' = late
      /\ by_day' = DailyUsage(log)
  BY DEF ReadDays, Inv, Between
<1> DEFINE by == DailyUsage(log)
<1>4. /\ SumFunction([d \in DOMAIN by |-> by[d].llm_calls])
           = Cardinality(OfType(log, "llm_call"))
      /\ SumFunction([d \in DOMAIN by |-> by[d].tool_calls])
           = Cardinality(OfType(log, "tool_call"))
      /\ SumFunction([d \in DOMAIN by |-> by[d].total_tokens]) = Sum(log)
  BY <1>1, DaysAddUp
<1>5. /\ Sum(log) = Sum(before) + Sum(late)
      /\ \A t : Cardinality(OfType(log, t))
                  = Cardinality(OfType(before, t)) + Cardinality(OfType(late, t))
  BY <1>1, Since
<1>6. Cardinality(before) = Cardinality(OfType(before, "llm_call"))
                            + Cardinality(OfType(before, "tool_call"))
  BY <1>2, TwoTypes
<1> HIDE DEF by, before
<1>7. /\ totals'.total_events = Cardinality(before)
      /\ totals'.llm_calls = Cardinality(OfType(before, "llm_call"))
      /\ totals'.tool_calls = Cardinality(OfType(before, "tool_call"))
      /\ totals'.total_tokens = Sum(before)
  BY <1>3 DEF UsageTotals
<1>8. by_day' = by
  BY <1>3 DEF by
<1> QED
  BY <1>3, <1>4, <1>5, <1>6, <1>7, <1>8 DEF ReportAddsUp

(* Every step preserves the invariant.                                     *)
LEMMA NextInv == Inv /\ [Next]_vars => Inv'
<1> SUFFICES ASSUME Inv, [Next]_vars PROVE Inv'
  OBVIOUS
<1>1. CallbackInv'
  BY NextCallbacks DEF Inv
<1> SUFFICES (Between /\ ReportAddsUp)'
  BY <1>1 DEF Inv
<1>2. ASSUME NEW r \in Runs, Callback(r) PROVE (Between /\ ReportAddsUp)'
  BY <1>2, CallbackReport
<1>3. ASSUME NEW gone \in SUBSET Runs, Crash(gone)
      PROVE  (Between /\ ReportAddsUp)'
  BY <1>3 DEF Crash, Inv, Between, ReportAddsUp, reporting
<1>4. CASE ReadTotals
  <2>1. log' \ late' = log
    BY <1>4 DEF ReadTotals
  <2> QED
    BY <1>4, <2>1 DEF ReadTotals, Between, ReportAddsUp
<1>5. CASE ReadDays
  BY <1>5, SecondQuery DEF ReadDays, Between
<1>6. CASE ReportEnds
  BY <1>6 DEF ReportEnds, Between, ReportAddsUp
<1>7. CASE Midnight \/ UNCHANGED vars
  BY <1>7 DEF Midnight, vars, Inv, Between, ReportAddsUp, reporting
<1> QED
  BY <1>2, <1>3, <1>4, <1>5, <1>6, <1>7 DEF Next

-----------------------------------------------------------------------------
(* The theorems                                                            *)

(* However calls nest, overlap, fail or die with their process, and        *)
(* whenever the report asks: the callbacks keep their notes apart, and the *)
(* report accounts for every row.                                          *)
THEOREM Invariance == Spec => []Inv
<1> QED
  BY InitInv, NextInv, PTL DEF Spec

(* The variables have their types.                                         *)
THEOREM TypeCorrect == Spec => []TypeOK
<1>1. Inv => TypeOK
  BY DEF Inv, CallbackInv
<1> QED
  BY <1>1, Invariance, PTL

(* A call has one row at most, of its own type and under the customer      *)
(* whose request started it (observability.py:2).                          *)
THEOREM OwnRows == Spec => []LoggedForItsCustomer
<1>1. Inv => LoggedForItsCustomer
  BY DEF Inv, CallbackInv
<1> QED
  BY <1>1, Invariance, PTL

(* The dictionary holds the notes of the calls that run and no others.     *)
THEOREM NotesTaken == Spec => []PendingWhileRunning
<1>1. Inv => PendingWhileRunning
  BY DEF Inv, CallbackInv
<1> QED
  BY <1>1, Invariance, PTL

(* The two queries of a report differ by the rows committed between them   *)
(* and by nothing else, whatever the log holds (observability_router.py).  *)
THEOREM ReportsAddUp == Spec => []ReportAddsUp
<1>1. Inv => ReportAddsUp
  BY DEF Inv
<1> QED
  BY <1>1, Invariance, PTL
=============================================================================
