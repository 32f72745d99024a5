------------------------ MODULE LedgerMetrics_proofs ------------------------
(***************************************************************************)
(* Proofs about LedgerMetrics, for every ledger: any number of trades, in  *)
(* any order, open or closed, with any results and times.                  *)
(*                                                                         *)
(* A sum over a set is defined by recursion.  What it computes is shown by *)
(* induction, in two forms that need no operator as a parameter: a set of  *)
(* the subsets for which a fact holds, and a smallest set for which it     *)
(* does not.  The order of a ledger is the bijection that counts what      *)
(* comes before; a sum is the same along it, and adds up over any          *)
(* partition: by month, by direction, by gain and loss.                    *)
(***************************************************************************)
EXTENDS LedgerMetrics, FiniteSetTheorems, SequenceTheorems, TLAPS

-----------------------------------------------------------------------------
(* Induction.                                                               *)

(* A non-empty set of subsets of a finite set has a smallest one.         *)
LEMMA LeastSet ==
  ASSUME NEW S, IsFiniteSet(S), NEW Bad, Bad \subseteq SUBSET S, Bad # {}
  PROVE  \E T \in Bad : \A U \in Bad : U \subseteq T => U = T
<1>1. IsWellFoundedOn(StrictSubsetOrdering(S), SUBSET S)
  BY FS_StrictSubsetOrderingWellFounded, FS_FiniteSubsetsOfFinite
<1>2. PICK T \in Bad : \A U \in Bad : ~(<<U, T>> \in StrictSubsetOrdering(S))
  BY <1>1, WFMin
<1>3. ASSUME NEW U \in Bad, U \subseteq T PROVE U = T
  BY <1>2, <1>3 DEF StrictSubsetOrdering
<1> QED
  BY <1>3

(* Induction over a finite set: G holds the subsets a fact is true of.    *)
LEMMA SetInduction ==
  ASSUME NEW S, IsFiniteSet(S), NEW G, {} \in G,
         \A T \in SUBSET S : T \in G => \A x \in S \ T : T \cup {x} \in G
  PROVE  S \in G
<1> DEFINE Bad == {T \in SUBSET S : T \notin G}
<1> SUFFICES ASSUME Bad # {} PROVE FALSE
  OBVIOUS
<1>0. Bad \subseteq SUBSET S
  OBVIOUS
<1>1. PICK T \in Bad : \A U \in Bad : U \subseteq T => U = T
  <2> HIDE DEF Bad
  <2> QED BY <1>0, LeastSet
<1>2. PICK x \in T : TRUE
  BY <1>1
<1>3. T \ {x} \in G
  BY <1>1, <1>2
<1>4. (T \ {x}) \cup {x} \in G
  BY <1>1, <1>2, <1>3
<1>5. (T \ {x}) \cup {x} = T
  BY <1>2
<1> QED
  BY <1>1, <1>4, <1>5

(* Induction over the naturals, as induction over 1 .. n.                 *)
LEMMA NaturalInduction ==
  ASSUME NEW G, 0 \in G, \A n \in Nat : n \in G => n + 1 \in G
  PROVE  \A n \in Nat : n \in G
<1> SUFFICES ASSUME NEW n \in Nat PROVE n \in G
  OBVIOUS
<1> DEFINE H == {T \in SUBSET (1 .. n) : Cardinality(T) \in G}
<1>1. IsFiniteSet(1 .. n) /\ Cardinality(1 .. n) = n
  BY FS_Interval
<1>2. {} \in H
  BY FS_EmptySet
<1>3. ASSUME NEW T \in SUBSET (1 .. n), T \in H, NEW x \in (1 .. n) \ T
      PROVE  T \cup {x} \in H
  <2>1. IsFiniteSet(T) /\ Cardinality(T) \in Nat
    BY <1>1, FS_Subset, FS_CardinalityType
  <2>2. Cardinality(T \cup {x}) = Cardinality(T) + 1
    BY <2>1, FS_AddElement
  <2> QED
    BY <1>3, <2>1, <2>2
<1>4. (1 .. n) \in H
  <2> HIDE DEF H
  <2> QED BY <1>1, <1>2, <1>3, SetInduction
<1> QED
  BY <1>1, <1>4

-----------------------------------------------------------------------------
(* Sums.                                                                    *)

(* The sum over a set, by the recursion that defines it. *)
SumsOf(g, S, it) ==
    it = [s \in SUBSET S |-> IF s = {} THEN 0
                             ELSE g[CHOOSE x \in s : TRUE] + it[s \ {CHOOSE x \in s : TRUE}]]

(* A sum is given by some function that satisfies the recursion.          *)
LEMMA SumIs ==
  ASSUME NEW g, NEW S, NEW it, SumsOf(g, S, it)
  PROVE  \E jt : SumsOf(g, S, jt) /\ SumFunctionOnSet(g, S) = jt[S]
<1>1. SumFunctionOnSet(g, S) = (CHOOSE jt : SumsOf(g, S, jt))[S]
  BY DEF SumFunctionOnSet, FoldFunctionOnSet, MapThenFoldSet, SumsOf
<1>2. SumsOf(g, S, CHOOSE jt : SumsOf(g, S, jt))
  OBVIOUS
<1> QED BY <1>1, <1>2

(* Such a function exists: it is built up by the size of the subsets.     *)
LEMMA SumsExist ==
  ASSUME NEW g, NEW S, IsFiniteSet(S), \A s \in S : g[s] \in Int
  PROVE  \E it \in [SUBSET S -> Int] : SumsOf(g, S, it)
<1> DEFINE first(s) == CHOOSE x \in s : TRUE
           Upto(n, it) == \A s \in SUBSET S : Cardinality(s) <= n =>
                             it[s] = IF s = {} THEN 0 ELSE g[first(s)] + it[s \ {first(s)}]
           G == {n \in Nat : \E it \in [SUBSET S -> Int] : Upto(n, it)}
<1>1. ASSUME NEW s \in SUBSET S, s # {}
      PROVE  /\ first(s) \in s /\ s \ {first(s)} \in SUBSET S /\ g[first(s)] \in Int
             /\ Cardinality(s \ {first(s)}) = Cardinality(s) - 1
  <2>1. first(s) \in s
    BY <1>1
  <2>2. IsFiniteSet(s)
    BY FS_Subset
  <2> HIDE DEF first
  <2> QED
    BY <2>1, <2>2, FS_RemoveElement
<1>2. \A s \in SUBSET S : Cardinality(s) \in Nat /\ (Cardinality(s) = 0 <=> s = {})
  BY FS_Subset, FS_CardinalityType, FS_EmptySet
<1> HIDE DEF first
<1>3. 0 \in G
  <2> DEFINE it == [s \in SUBSET S |-> 0]
  <2>1. Upto(0, it)
    BY <1>2
  <2>2. it \in [SUBSET S -> Int]
    OBVIOUS
  <2> HIDE DEF it
  <2> QED
    BY <2>1, <2>2
<1>4. ASSUME NEW n \in Nat, n \in G PROVE n + 1 \in G
  <2>1. PICK it \in [SUBSET S -> Int] : Upto(n, it)
    BY <1>4
  <2> DEFINE jt == [s \in SUBSET S |-> IF Cardinality(s) = n + 1 THEN g[first(s)] + it[s \ {first(s)}]
                                      ELSE it[s]]
  <2>2. jt \in [SUBSET S -> Int]
    <3>1. ASSUME NEW s \in SUBSET S, Cardinality(s) = n + 1 PROVE g[first(s)] + it[s \ {first(s)}] \in Int
      BY <1>1, <1>2, <3>1
    <3> QED
      BY <3>1
  <2>3. ASSUME NEW s \in SUBSET S, Cardinality(s) <= n + 1
        PROVE  jt[s] = IF s = {} THEN 0 ELSE g[first(s)] + jt[s \ {first(s)}]
    <3>1. CASE s = {}
      BY <1>2, <2>1, <3>1
    <3>2. CASE s # {} /\ Cardinality(s) = n + 1
      BY <1>1, <1>2, <2>3, <3>2
    <3>3. CASE s # {} /\ Cardinality(s) <= n
      <4>1. Cardinality(s \ {first(s)}) <= n /\ Cardinality(s \ {first(s)}) # n + 1
        BY <1>1, <1>2, <3>3
      <4> QED
        BY <1>1, <1>2, <2>1, <3>3, <4>1
    <3> QED
      BY <1>2, <2>3, <3>1, <3>2, <3>3
  <2> HIDE DEF jt
  <2> QED
    BY <2>2, <2>3
<1>5. Cardinality(S) \in G
  <2> HIDE DEF G
  <2>1. \A n \in Nat : n \in G
    BY <1>3, <1>4, NaturalInduction
  <2> QED
    BY <1>2, <2>1
<1>6. PICK it \in [SUBSET S -> Int] : Upto(Cardinality(S), it)
  BY <1>5
<1>7. ASSUME NEW s \in SUBSET S PROVE it[s] = IF s = {} THEN 0 ELSE g[first(s)] + it[s \ {first(s)}]
  BY <1>6, FS_Subset
<1>8. it = [s \in SUBSET S |-> IF s = {} THEN 0 ELSE g[first(s)] + it[s \ {first(s)}]]
  BY <1>7
<1> QED
  BY <1>8 DEF SumsOf, first

(* Two such functions agree where both are defined.                       *)
LEMMA SumsAgree ==
  ASSUME NEW g, NEW S, IsFiniteSet(S), NEW T \in SUBSET S, NEW it, SumsOf(g, S, it), NEW jt, SumsOf(g, T, jt)
  PROVE  \A s \in SUBSET T : it[s] = jt[s]
<1> DEFINE Bad == {s \in SUBSET T : it[s] # jt[s]}
           first(s) == CHOOSE x \in s : TRUE
<1> SUFFICES ASSUME Bad # {} PROVE FALSE
  OBVIOUS
<1>1. IsFiniteSet(T)
  BY FS_Subset
<1>0. Bad \subseteq SUBSET T
  OBVIOUS
<1>2. PICK s \in Bad : \A u \in Bad : u \subseteq s => u = s
  <2> HIDE DEF Bad
  <2> QED BY <1>0, <1>1, LeastSet
<1>3. it[s] = (IF s = {} THEN 0 ELSE g[first(s)] + it[s \ {first(s)}])
  BY DEF SumsOf
<1>4. jt[s] = (IF s = {} THEN 0 ELSE g[first(s)] + jt[s \ {first(s)}])
  BY DEF SumsOf
<1>5. s # {} => first(s) \in s
  OBVIOUS
<1> HIDE DEF first
<1>6. s # {} => it[s \ {first(s)}] = jt[s \ {first(s)}]
  BY <1>2, <1>5
<1> QED
  BY <1>2, <1>3, <1>4, <1>6

(* The values of g on S are integers.                                     *)
Whole(g, S) == \A s \in S : g[s] \in Int

(* A sum of integers is one, and takes some element first.                *)
LEMMA SumFacts ==
  ASSUME NEW g, NEW S, IsFiniteSet(S), Whole(g, S)
  PROVE  /\ SumFunctionOnSet(g, S) \in Int
         /\ S = {} => SumFunctionOnSet(g, S) = 0
         /\ S # {} => \E x \in S : SumFunctionOnSet(g, S) = g[x] + SumFunctionOnSet(g, S \ {x})
<1>1. PICK it \in [SUBSET S -> Int] : SumsOf(g, S, it)
  BY SumsExist DEF Whole
<1>2. ASSUME NEW T \in SUBSET S PROVE SumFunctionOnSet(g, T) = it[T]
  <2>1. IsFiniteSet(T)
    BY FS_Subset
  <2>2. PICK jt \in [SUBSET T -> Int] : SumsOf(g, T, jt)
    BY <2>1, SumsExist DEF Whole
  <2>3. PICK kt : SumsOf(g, T, kt) /\ SumFunctionOnSet(g, T) = kt[T]
    BY <2>2, SumIs
  <2> QED
    BY <1>1, <2>3, SumsAgree
<1> DEFINE x == CHOOSE s \in S : TRUE
<1>3. it[S] = IF S = {} THEN 0 ELSE g[x] + it[S \ {x}]
  BY <1>1 DEF SumsOf
<1>4. S # {} => x \in S
  OBVIOUS
<1> HIDE DEF x
<1>5. it[S] \in Int
  BY <1>1
<1> QED
  BY <1>2, <1>3, <1>4, <1>5

(* Which element is taken first makes no difference.                      *)
LEMMA SumRemove ==
  ASSUME NEW g, NEW S, IsFiniteSet(S), Whole(g, S), NEW x \in S
  PROVE  SumFunctionOnSet(g, S) = g[x] + SumFunctionOnSet(g, S \ {x})
<1> DEFINE Bad == {T \in SUBSET S : \E y \in T :
                      SumFunctionOnSet(g, T) # g[y] + SumFunctionOnSet(g, T \ {y})}
<1> SUFFICES ASSUME Bad # {} PROVE FALSE
  OBVIOUS
<1>0. Bad \subseteq SUBSET S
  OBVIOUS
<1>1. PICK T \in Bad : \A U \in Bad : U \subseteq T => U = T
  <2> HIDE DEF Bad
  <2> QED BY <1>0, LeastSet
<1>2. PICK y \in T : SumFunctionOnSet(g, T) # g[y] + SumFunctionOnSet(g, T \ {y})
  BY <1>1
<1>3. ASSUME NEW U \in SUBSET T PROVE IsFiniteSet(U) /\ Whole(g, U) /\ SumFunctionOnSet(g, U) \in Int
  BY <1>1, FS_Subset, SumFacts DEF Whole
<1>4. PICK c \in T : SumFunctionOnSet(g, T) = g[c] + SumFunctionOnSet(g, T \ {c})
  BY <1>2, <1>3, SumFacts
<1>5. c # y
  BY <1>2, <1>4
<1>6. T \ {c} \notin Bad /\ T \ {y} \notin Bad
  BY <1>1, <1>2, <1>4
<1>7. SumFunctionOnSet(g, T \ {c}) = g[y] + SumFunctionOnSet(g, (T \ {c}) \ {y})
  BY <1>0, <1>1, <1>5, <1>6
<1>8. SumFunctionOnSet(g, T \ {y}) = g[c] + SumFunctionOnSet(g, (T \ {y}) \ {c})
  BY <1>0, <1>1, <1>5, <1>6
<1> DEFINE rest == (T \ {y}) \ {c}
<1>9. (T \ {c}) \ {y} = rest
  OBVIOUS
<1>10. g[c] \in Int /\ g[y] \in Int /\ SumFunctionOnSet(g, rest) \in Int
  BY <1>1, <1>3 DEF Whole
<1> HIDE DEF rest
<1>11. SumFunctionOnSet(g, T) = g[c] + (g[y] + SumFunctionOnSet(g, rest))
  BY <1>4, <1>7, <1>9
<1>12. SumFunctionOnSet(g, T \ {y}) = g[c] + SumFunctionOnSet(g, rest)
  BY <1>8 DEF rest
<1> QED
  BY <1>2, <1>10, <1>11, <1>12

(* Adding an element adds its value.                                      *)
LEMMA SumAdd ==
  ASSUME NEW g, NEW S, IsFiniteSet(S), NEW x, x \notin S, Whole(g, S \cup {x})
  PROVE  SumFunctionOnSet(g, S \cup {x}) = g[x] + SumFunctionOnSet(g, S)
<1>1. IsFiniteSet(S \cup {x}) /\ (S \cup {x}) \ {x} = S
  BY FS_AddElement
<1> QED
  BY <1>1, SumRemove

LEMMA SumSame ==
  ASSUME NEW g, NEW h, NEW S, IsFiniteSet(S), Whole(g, S), \A s \in S : g[s] = h[s]
  PROVE  SumFunctionOnSet(g, S) = SumFunctionOnSet(h, S)
<1> DEFINE G == {T \in SUBSET S : SumFunctionOnSet(g, T) = SumFunctionOnSet(h, T)}
<1>1. {} \in G
  BY FS_EmptySet, SumFacts DEF Whole
<1>2. ASSUME NEW T \in SUBSET S, T \in G, NEW x \in S \ T PROVE T \cup {x} \in G
  BY <1>2, FS_Subset, SumAdd DEF Whole
<1>3. S \in G
  <2> HIDE DEF G
  <2> QED BY <1>1, <1>2, SetInduction
<1> QED
  BY <1>3

(* The sum over a disjoint union.                                         *)
LEMMA SumUnion ==
  ASSUME NEW g, NEW S, IsFiniteSet(S), NEW U, IsFiniteSet(U), S \cap U = {}, Whole(g, S), Whole(g, U)
  PROVE  SumFunctionOnSet(g, S \cup U) = SumFunctionOnSet(g, S) + SumFunctionOnSet(g, U)
<1> DEFINE G == {T \in SUBSET S :
                    SumFunctionOnSet(g, T \cup U) = SumFunctionOnSet(g, T) + SumFunctionOnSet(g, U)}
<1>0. SumFunctionOnSet(g, U) \in Int
  BY SumFacts
<1>1. {} \in G
  <2>1. SumFunctionOnSet(g, {}) = 0
    BY FS_EmptySet, SumFacts DEF Whole
  <2>2. {} \cup U = U
    OBVIOUS
  <2> QED
    BY <1>0, <2>1, <2>2
<1>2. ASSUME NEW T \in SUBSET S, T \in G, NEW x \in S \ T PROVE T \cup {x} \in G
  <2>1. IsFiniteSet(T) /\ IsFiniteSet(T \cup U) /\ x \notin T \cup U /\ (T \cup U) \cup {x} = (T \cup {x}) \cup U
    BY FS_Subset, FS_Union
  <2>2. Whole(g, T) /\ Whole(g, T \cup {x}) /\ Whole(g, (T \cup U) \cup {x}) /\ g[x] \in Int
    BY DEF Whole
  <2>3. SumFunctionOnSet(g, T \cup {x}) = g[x] + SumFunctionOnSet(g, T)
    BY <2>1, <2>2, SumAdd
  <2>4. SumFunctionOnSet(g, (T \cup U) \cup {x}) = g[x] + SumFunctionOnSet(g, T \cup U)
    BY <2>1, <2>2, SumAdd
  <2>5. SumFunctionOnSet(g, T) \in Int
    BY <2>1, <2>2, SumFacts
  <2>6. SumFunctionOnSet(g, (T \cup {x}) \cup U) = g[x] + (SumFunctionOnSet(g, T) + SumFunctionOnSet(g, U))
    BY <1>2, <2>1, <2>4
  <2>7. SumFunctionOnSet(g, (T \cup {x}) \cup U) = SumFunctionOnSet(g, T \cup {x}) + SumFunctionOnSet(g, U)
    BY <1>0, <2>2, <2>3, <2>5, <2>6
  <2> QED
    BY <2>7
<1>3. S \in G
  <2> HIDE DEF G
  <2> QED BY <1>1, <1>2, SetInduction
<1> QED
  BY <1>3

(* A sum has the sign its values have in common.                          *)
LEMMA SumSigned ==
  ASSUME NEW g, NEW S, IsFiniteSet(S), Whole(g, S)
  PROVE  /\ (\A s \in S : g[s] >= 0) => SumFunctionOnSet(g, S) >= 0
         /\ (\A s \in S : g[s] <= 0) => SumFunctionOnSet(g, S) <= 0
         /\ (\A s \in S : g[s] = 0) => SumFunctionOnSet(g, S) = 0
<1> DEFINE G == {T \in SUBSET S :
         /\ (\A s \in T : g[s] >= 0) => SumFunctionOnSet(g, T) >= 0
         /\ (\A s \in T : g[s] <= 0) => SumFunctionOnSet(g, T) <= 0
         /\ (\A s \in T : g[s] = 0) => SumFunctionOnSet(g, T) = 0}
<1>1. {} \in G
  <2>1. SumFunctionOnSet(g, {}) = 0
    BY FS_EmptySet, SumFacts DEF Whole
  <2> QED
    BY <2>1
<1>2. ASSUME NEW T \in SUBSET S, T \in G, NEW x \in S \ T PROVE T \cup {x} \in G
  <2>1. IsFiniteSet(T) /\ Whole(g, T) /\ Whole(g, T \cup {x}) /\ g[x] \in Int
    BY FS_Subset DEF Whole
  <2>2. SumFunctionOnSet(g, T \cup {x}) = g[x] + SumFunctionOnSet(g, T) /\ SumFunctionOnSet(g, T) \in Int
    BY <2>1, SumAdd, SumFacts
  <2>3. x \in T \cup {x} /\ \A s \in T : s \in T \cup {x}
    OBVIOUS
  <2> QED
    BY <1>2, <2>1, <2>2, <2>3
<1>3. S \in G
  <2> HIDE DEF G
  <2> QED BY <1>1, <1>2, SetInduction
<1> QED
  BY <1>3

(* A sum is the same along a bijection. *)
LEMMA SumReindex ==
  ASSUME NEW g, NEW T, IsFiniteSet(T), NEW S, NEW f \in Bijection(T, S), Whole(g, S)
  PROVE  SumFunctionOnSet([t \in T |-> g[f[t]]], T) = SumFunctionOnSet(g, S)
<1> DEFINE h == [t \in T |-> g[f[t]]]
           Img(U) == {f[t] : t \in U}
           G == {U \in SUBSET T : IsFiniteSet(Img(U)) /\ SumFunctionOnSet(h, U) = SumFunctionOnSet(g, Img(U))}
<1>0. /\ \A t \in T : f[t] \in S
      /\ \A t, u \in T : f[t] = f[u] => t = u
      /\ Img(T) = S
  BY DEF Bijection, Injection, Surjection, IsInjective
<1>1. {} \in G
  <2>1. Img({}) = {}
    OBVIOUS
  <2>2. SumFunctionOnSet(g, {}) = 0 /\ SumFunctionOnSet(h, {}) = 0 /\ IsFiniteSet({})
    <3> HIDE DEF h
    <3> QED
      BY FS_EmptySet, SumFacts DEF Whole
  <2> HIDE DEF h, Img
  <2> QED
    BY <2>1, <2>2
<1>2. ASSUME NEW U \in SUBSET T, U \in G, NEW x \in T \ U PROVE U \cup {x} \in G
  <2>1. IsFiniteSet(U) /\ Whole(h, U \cup {x}) /\ h[x] = g[f[x]]
    BY <1>0, FS_Subset DEF Whole
  <2>2. Img(U \cup {x}) = Img(U) \cup {f[x]} /\ f[x] \notin Img(U) /\ Whole(g, Img(U) \cup {f[x]})
    BY <1>0 DEF Whole
  <2> HIDE DEF h, Img
  <2>3. SumFunctionOnSet(h, U \cup {x}) = h[x] + SumFunctionOnSet(h, U)
    BY <2>1, SumAdd
  <2>4. IsFiniteSet(Img(U)) /\ SumFunctionOnSet(g, Img(U) \cup {f[x]}) = g[f[x]] + SumFunctionOnSet(g, Img(U))
    BY <1>2, <2>2, SumAdd
  <2>5. IsFiniteSet(Img(U) \cup {f[x]})
    BY <2>4, FS_AddElement
  <2> QED
    BY <1>2, <2>1, <2>2, <2>3, <2>4, <2>5
<1>3. T \in G
  <2> HIDE DEF G
  <2> QED BY <1>1, <1>2, SetInduction
<1> HIDE DEF h, Img
<1>4. SumFunctionOnSet(h, T) = SumFunctionOnSet(g, S)
  BY <1>0, <1>3
<1> QED
  BY <1>4 DEF h

(* A sum is the sum of its parts' sums. *)
LEMMA SumSplit ==
  ASSUME NEW g, NEW S, IsFiniteSet(S), Whole(g, S), NEW M, IsFiniteSet(M), NEW part, \A s \in S : part[s] \in M
  PROVE  SumFunctionOnSet([m \in M |-> SumFunctionOnSet(g, {s \in S : part[s] = m})], M)
            = SumFunctionOnSet(g, S)
<1> DEFINE Part(m) == {s \in S : part[s] = m}
           Parts(N) == {s \in S : part[s] \in N}
           h == [m \in M |-> SumFunctionOnSet(g, Part(m))]
           G == {N \in SUBSET M : SumFunctionOnSet(h, N) = SumFunctionOnSet(g, Parts(N))}
<1>0. ASSUME NEW U \in SUBSET S PROVE IsFiniteSet(U) /\ Whole(g, U) /\ SumFunctionOnSet(g, U) \in Int
  BY FS_Subset, SumFacts DEF Whole
<1>1. {} \in G
  <2>1. Parts({}) = {}
    OBVIOUS
  <2>2. SumFunctionOnSet(g, {}) = 0 /\ SumFunctionOnSet(h, {}) = 0
    <3> HIDE DEF h
    <3> QED
      BY FS_EmptySet, SumFacts DEF Whole
  <2> HIDE DEF h, Parts
  <2> QED
    BY <2>1, <2>2
<1>2. Whole(h, M)
  <2>1. ASSUME NEW m \in M PROVE Part(m) \in SUBSET S
    OBVIOUS
  <2> HIDE DEF Part
  <2> QED
    BY <1>0, <2>1 DEF Whole
<1>3. ASSUME NEW N \in SUBSET M, N \in G, NEW m \in M \ N PROVE N \cup {m} \in G
  <2>1. IsFiniteSet(N) /\ Whole(h, N \cup {m}) /\ h[m] = SumFunctionOnSet(g, Part(m))
    BY <1>2, FS_Subset DEF Whole
  <2>2. /\ Parts(N \cup {m}) = Parts(N) \cup Part(m)
        /\ Parts(N) \cap Part(m) = {}
        /\ Parts(N) \in SUBSET S /\ Part(m) \in SUBSET S
    OBVIOUS
  <2> HIDE DEF h, Part, Parts
  <2>3. SumFunctionOnSet(h, N \cup {m}) = h[m] + SumFunctionOnSet(h, N)
    BY <2>1, SumAdd
  <2>4. SumFunctionOnSet(g, Parts(N) \cup Part(m)) = SumFunctionOnSet(g, Parts(N)) + SumFunctionOnSet(g, Part(m))
    BY <1>0, <2>2, SumUnion
  <2>5. SumFunctionOnSet(g, Parts(N)) \in Int /\ SumFunctionOnSet(g, Part(m)) \in Int
    BY <1>0, <2>2
  <2>6. SumFunctionOnSet(h, N) = SumFunctionOnSet(g, Parts(N))
    BY <1>3
  <2>7. SumFunctionOnSet(g, Parts(N \cup {m})) = SumFunctionOnSet(g, Parts(N)) + SumFunctionOnSet(g, Part(m))
    BY <2>2, <2>4
  <2>8. SumFunctionOnSet(h, N \cup {m}) = SumFunctionOnSet(g, Part(m)) + SumFunctionOnSet(g, Parts(N))
    BY <2>1, <2>3, <2>6
  <2>9. SumFunctionOnSet(h, N \cup {m}) = SumFunctionOnSet(g, Parts(N \cup {m}))
    BY <2>5, <2>7, <2>8
  <2> QED
    BY <2>9
<1>4. M \in G
  <2> HIDE DEF G
  <2> QED BY <1>1, <1>3, SetInduction
<1>5. Parts(M) = S
  OBVIOUS
<1> HIDE DEF h, Parts
<1>6. SumFunctionOnSet(h, M) = SumFunctionOnSet(g, S)
  BY <1>4, <1>5
<1> QED
  BY <1>6 DEF h

-----------------------------------------------------------------------------
(* Orders.                                                                  *)

(* A finite set of integers has a greatest element, and Max is it.        *)
LEMMA MaxIs ==
  ASSUME NEW S, IsFiniteSet(S), S \subseteq Int, S # {}
  PROVE  Max(S) \in S /\ \A x \in S : x <= Max(S)
<1> DEFINE G == {T \in SUBSET S : T # {} => \E m \in T : \A x \in T : x <= m}
<1>1. {} \in G
  OBVIOUS
<1>2. ASSUME NEW T \in SUBSET S, T \in G, NEW x \in S \ T PROVE T \cup {x} \in G
  <2>1. CASE T = {}
    BY <2>1
  <2>2. CASE T # {}
    <3>1. PICK m \in T : \A y \in T : y <= m
      BY <1>2, <2>2
    <3> DEFINE top == IF m <= x THEN x ELSE m
    <3>2. top \in T \cup {x} /\ \A y \in T \cup {x} : y <= top
      BY <3>1
    <3> HIDE DEF top
    <3> QED
      BY <3>2
  <2> QED
    BY <2>1, <2>2
<1>3. S \in G
  <2> HIDE DEF G
  <2> QED BY <1>1, <1>2, SetInduction
<1>4. \E m \in S : \A x \in S : m >= x
  BY <1>3
<1> QED
  BY <1>4 DEF Max

(* Counting what precedes an element under a strict total order gives     *)
(* each element its place: the order is a bijection, and ascends.         *)
LEMMA RankBijection ==
  ASSUME NEW S, IsFiniteSet(S), NEW R,
         \A x \in S : <<x, x>> \notin R,
         \A x, y, z \in S : <<x, y>> \in R /\ <<y, z>> \in R => <<x, z>> \in R,
         \A x, y \in S : x # y => <<x, y>> \in R \/ <<y, x>> \in R,
         NEW order, order = [k \in 1 .. Cardinality(S) |-> order[k]],
         \A k \in 1 .. Cardinality(S) : \A x \in S : Cardinality({y \in S : <<y, x>> \in R}) = k - 1 =>
            order[k] \in S /\ Cardinality({y \in S : <<y, order[k]>> \in R}) = k - 1
  PROVE  /\ order \in Bijection(1 .. Cardinality(S), S)
         /\ \A i, j \in 1 .. Cardinality(S) : i < j => <<order[i], order[j]>> \in R
<1> DEFINE n == Cardinality(S)
           Before(x) == {y \in S : <<y, x>> \in R}
           place == [x \in S |-> Cardinality(Before(x)) + 1]
<1>0. n \in Nat /\ IsFiniteSet(1 .. n) /\ Cardinality(1 .. n) = n
  <2>1. n \in Nat
    BY ONLY IsFiniteSet(S), FS_CardinalityType
  <2> HIDE DEF n
  <2> QED
    BY ONLY <2>1, FS_Interval
<1>1. ASSUME NEW x \in S PROVE IsFiniteSet(Before(x)) /\ Cardinality(Before(x)) \in Nat /\ Cardinality(Before(x)) < n
  <2>1. Before(x) \in SUBSET S /\ x \notin Before(x)
    OBVIOUS
  <2> HIDE DEF Before
  <2>2. IsFiniteSet(Before(x)) /\ Cardinality(Before(x)) <= n /\ Cardinality(Before(x)) # n
    BY <2>1, FS_Subset
  <2>3. Cardinality(Before(x)) \in Nat
    BY <2>2, FS_CardinalityType
  <2> QED
    BY <1>0, <2>2, <2>3
<1>2. ASSUME NEW x \in S, NEW y \in S, <<x, y>> \in R PROVE Cardinality(Before(x)) < Cardinality(Before(y))
  <2>1. Before(x) \in SUBSET Before(y) /\ x \in Before(y) /\ x \notin Before(x)
    BY <1>2
  <2>2. Cardinality(Before(x)) <= Cardinality(Before(y)) /\ Cardinality(Before(x)) # Cardinality(Before(y))
    <3> HIDE DEF Before
    <3> QED BY <1>1, <2>1, FS_Subset
  <2>3. Cardinality(Before(x)) \in Nat /\ Cardinality(Before(y)) \in Nat
    BY <1>1
  <2> HIDE DEF Before
  <2> QED
    BY <2>2, <2>3
<1>3. ASSUME NEW x \in S, NEW y \in S, Cardinality(Before(x)) = Cardinality(Before(y)) PROVE x = y
  <2>1. Cardinality(Before(x)) \in Nat /\ Cardinality(Before(y)) \in Nat
    BY <1>1
  <2> SUFFICES ASSUME x # y PROVE FALSE
    OBVIOUS
  <2>2. <<x, y>> \in R \/ <<y, x>> \in R
    OBVIOUS
  <2> HIDE DEF Before
  <2> QED
    BY <1>2, <1>3, <2>1, <2>2
<1> HIDE DEF Before
<1>4. place \in Surjection(S, 1 .. n)
  <2>1. place \in [S -> 1 .. n]
    BY <1>0, <1>1
  <2>2. IsInjective(place)
    BY <1>1, <1>3 DEF IsInjective
  <2>3. place \in Injection(S, 1 .. n)
    BY <2>1, <2>2 DEF Injection
  <2> HIDE DEF place
  <2> QED
    BY <1>0, <2>3, FS_Injection
<1>5. ASSUME NEW k \in 1 .. n PROVE order[k] \in S /\ Cardinality(Before(order[k])) = k - 1
  <2>1. PICK x \in S : place[x] = k
    BY <1>4 DEF Surjection
  <2>2. Cardinality(Before(x)) = k - 1
    BY <1>0, <1>1, <2>1
  <2> QED
    BY <2>2 DEF Before
<1>6. order \in Injection(1 .. n, S)
  <2>1. order \in [1 .. n -> S]
    BY <1>5
  <2>2. IsInjective(order)
    <3>1. DOMAIN order = 1 .. n
      OBVIOUS
    <3>2. ASSUME NEW i \in 1 .. n, NEW j \in 1 .. n, order[i] = order[j] PROVE i = j
      <4>1. i - 1 = j - 1
        BY <1>5, <3>2
      <4> QED
        BY <1>0, <4>1
    <3> QED
      BY <3>1, <3>2 DEF IsInjective
  <2> QED
    BY <2>1, <2>2 DEF Injection
<1>7. order \in Bijection(1 .. n, S)
  BY <1>0, <1>6, FS_Injection DEF Bijection
<1>8. ASSUME NEW i \in 1 .. n, NEW j \in 1 .. n, i < j PROVE <<order[i], order[j]>> \in R
  <2>1. order[i] \in S /\ order[j] \in S /\ i - 1 = Cardinality(Before(order[i])) /\ j - 1 = Cardinality(Before(order[j]))
    BY <1>5
  <2>2. ~(j - 1 < i - 1) /\ j - 1 # i - 1
    BY <1>0, <1>8
  <2>3. <<order[j], order[i]>> \notin R
    BY <1>2, <2>1, <2>2
  <2>4. order[i] # order[j]
    BY <2>1, <2>2
  <2> QED
    BY <2>1, <2>3, <2>4
<1> QED
  BY <1>7, <1>8

-----------------------------------------------------------------------------
(* Ledgers.                                                                 *)

(* The positions of the closed trades among those that are kept.          *)
ClosedOf(trades, kept) == {k \in kept : isClosed(trades[k])}

(* The closed trades are put in the order of their exits, none is lost    *)
(* and none is repeated.                                                  *)
LEMMA ClosedOrder ==
  ASSUME NEW trades, IsLedger(trades), NEW kept \in SUBSET DOMAIN trades
  PROVE  LET S == ClosedOf(trades, kept) IN
         /\ IsFiniteSet(S)
         /\ \E order \in Bijection(1 .. Cardinality(S), S) :
               /\ closedInOrder(trades, kept) = [p \in 1 .. Cardinality(S) |-> trades[order[p]]]
               /\ \A i, j \in 1 .. Cardinality(S) : i < j =>
                     trades[order[i]].exitTime <= trades[order[j]].exitTime
<1> DEFINE S == ClosedOf(trades, kept)
           Precedes(y, x) == \/ trades[y].exitTime < trades[x].exitTime
                             \/ ~(trades[x].exitTime < trades[y].exitTime) /\ y < x
           R == {ss \in S \X S : Precedes(ss[1], ss[2])}
           Before(x) == {y \in S : Precedes(y, x)}
           order == PositionsBy(S, LAMBDA k : trades[k].exitTime, <)
<1>1. S \subseteq Int /\ S \subseteq 1 .. Len(trades)
  BY DEF IsLedger, ClosedOf
<1>2. IsFiniteSet(S)
  <2>1. IsFiniteSet(1 .. Len(trades))
    BY FS_Interval DEF IsLedger
  <2> QED
    BY <1>1, <2>1, FS_Subset
<1>3. \A k \in S : trades[k].exitTime \in Int
  BY DEF IsLedger, ClosedOf, isClosed, isDecided
<1> HIDE DEF S
<1>4. /\ \A x \in S : <<x, x>> \notin R
      /\ \A x, y, z \in S : <<x, y>> \in R /\ <<y, z>> \in R => <<x, z>> \in R
      /\ \A x, y \in S : x # y => <<x, y>> \in R \/ <<y, x>> \in R
  <2>1. \A x, y \in S : <<x, y>> \in R <=> Precedes(x, y)
    OBVIOUS
  <2>2. ASSUME NEW x \in S, NEW y \in S, NEW z \in S, Precedes(x, y), Precedes(y, z) PROVE Precedes(x, z)
    BY <1>1, <1>3, <2>2
  <2>3. ASSUME NEW x \in S, NEW y \in S, x # y PROVE Precedes(x, y) \/ Precedes(y, x)
    BY <1>1, <1>3, <2>3
  <2>4. ASSUME NEW x \in S PROVE ~Precedes(x, x)
    BY <1>1, <1>3
  <2> HIDE DEF R, Precedes, order
  <2> QED
    BY <2>1, <2>2, <2>3, <2>4
<1>5. order = [k \in 1 .. Cardinality(S) |-> CHOOSE x \in S : Cardinality(Before(x)) = k - 1]
  BY DEF PositionsBy, Arranged
<1>6. ASSUME NEW x \in S PROVE Before(x) = {y \in S : <<y, x>> \in R}
  OBVIOUS
<1> HIDE DEF R, Before
<1>7. order = [k \in 1 .. Cardinality(S) |-> order[k]]
  <2> HIDE DEF order
  <2> QED BY <1>5
<1>8. ASSUME NEW k \in 1 .. Cardinality(S), NEW x \in S, Cardinality({y \in S : <<y, x>> \in R}) = k - 1
      PROVE  order[k] \in S /\ Cardinality({y \in S : <<y, order[k]>> \in R}) = k - 1
  <2> HIDE DEF order
  <2>1. Cardinality(Before(x)) = k - 1
    BY <1>6, <1>8
  <2>2. order[k] = CHOOSE z \in S : Cardinality(Before(z)) = k - 1
    BY <1>5
  <2>3. order[k] \in S /\ Cardinality(Before(order[k])) = k - 1
    BY <2>1, <2>2
  <2> QED
    BY <1>6, <2>3
<1>9. /\ order \in Bijection(1 .. Cardinality(S), S)
      /\ \A i, j \in 1 .. Cardinality(S) : i < j => <<order[i], order[j]>> \in R
  <2> HIDE DEF order
  <2> QED
    BY <1>2, <1>4, <1>7, <1>8, RankBijection
<1>10. closedInOrder(trades, kept) = [p \in 1 .. Cardinality(S) |-> trades[order[p]]]
  <2>1. DOMAIN order = 1 .. Cardinality(S)
    <3> HIDE DEF order
    <3> QED BY <1>7
  <2> QED
    BY <2>1 DEF closedInOrder, S, ClosedOf
<1> HIDE DEF order
<1>11. ASSUME NEW i \in 1 .. Cardinality(S), NEW j \in 1 .. Cardinality(S), i < j
       PROVE  trades[order[i]].exitTime <= trades[order[j]].exitTime
  <2>1. <<order[i], order[j]>> \in R
    BY <1>9, <1>11
  <2> QED
    BY <1>3, <2>1 DEF R
<1> QED
  BY <1>2, <1>9, <1>10, <1>11 DEF S

(* So are the decided trades, from the greatest result to the least.      *)
LEMMA RemovalOrder ==
  ASSUME NEW trades, IsLedger(trades)
  PROVE  LET S == {k \in DOMAIN trades : isDecided(trades[k])}
             order == PositionsBy(S, LAMBDA k : trades[k].netPnl, >)
         IN  /\ IsFiniteSet(S)
             /\ order \in Bijection(1 .. Cardinality(S), S)
             /\ DOMAIN order = 1 .. Cardinality(S)
<1> DEFINE S == {k \in DOMAIN trades : isDecided(trades[k])}
           Precedes(y, x) == \/ trades[y].netPnl > trades[x].netPnl
                             \/ ~(trades[x].netPnl > trades[y].netPnl) /\ y < x
           R == {ss \in S \X S : Precedes(ss[1], ss[2])}
           Before(x) == {y \in S : Precedes(y, x)}
           order == PositionsBy(S, LAMBDA k : trades[k].netPnl, >)
<1>1. S \subseteq Int /\ S \subseteq 1 .. Len(trades)
  BY DEF IsLedger
<1>2. IsFiniteSet(S)
  <2>1. IsFiniteSet(1 .. Len(trades))
    BY FS_Interval DEF IsLedger
  <2> QED
    BY <1>1, <2>1, FS_Subset
<1>3. \A k \in S : trades[k].netPnl \in Int
  BY DEF IsLedger
<1> HIDE DEF S
<1>4. /\ \A x \in S : <<x, x>> \notin R
      /\ \A x, y, z \in S : <<x, y>> \in R /\ <<y, z>> \in R => <<x, z>> \in R
      /\ \A x, y \in S : x # y => <<x, y>> \in R \/ <<y, x>> \in R
  <2>1. \A x, y \in S : <<x, y>> \in R <=> Precedes(x, y)
    OBVIOUS
  <2>2. ASSUME NEW x \in S, NEW y \in S, NEW z \in S, Precedes(x, y), Precedes(y, z) PROVE Precedes(x, z)
    BY <1>1, <1>3, <2>2
  <2>3. ASSUME NEW x \in S, NEW y \in S, x # y PROVE Precedes(x, y) \/ Precedes(y, x)
    BY <1>1, <1>3, <2>3
  <2>4. ASSUME NEW x \in S PROVE ~Precedes(x, x)
    BY <1>1, <1>3
  <2> HIDE DEF R, Precedes, order
  <2> QED
    BY <2>1, <2>2, <2>3, <2>4
<1>5. order = [k \in 1 .. Cardinality(S) |-> CHOOSE x \in S : Cardinality(Before(x)) = k - 1]
  BY DEF PositionsBy, Arranged
<1>6. ASSUME NEW x \in S PROVE Before(x) = {y \in S : <<y, x>> \in R}
  OBVIOUS
<1> HIDE DEF R, Before, order
<1>7. order = [k \in 1 .. Cardinality(S) |-> order[k]]
  BY <1>5
<1>8. ASSUME NEW k \in 1 .. Cardinality(S), NEW x \in S, Cardinality({y \in S : <<y, x>> \in R}) = k - 1
      PROVE  order[k] \in S /\ Cardinality({y \in S : <<y, order[k]>> \in R}) = k - 1
  <2>1. Cardinality(Before(x)) = k - 1
    BY <1>6, <1>8
  <2>2. order[k] = CHOOSE z \in S : Cardinality(Before(z)) = k - 1
    BY <1>5
  <2>3. order[k] \in S /\ Cardinality(Before(order[k])) = k - 1
    BY <2>1, <2>2
  <2> QED
    BY <1>6, <2>3
<1>9. order \in Bijection(1 .. Cardinality(S), S)
  BY <1>2, <1>4, <1>7, <1>8, RankBijection
<1>10. DOMAIN order = 1 .. Cardinality(S)
  BY <1>7
<1> QED
  BY <1>2, <1>9, <1>10 DEF S, order

(* What a sorted ledger is: its positions, and the profits at them. *)
LEMMA ClosedProfits ==
  ASSUME NEW trades, IsLedger(trades), NEW kept \in SUBSET DOMAIN trades
  PROVE  LET S == ClosedOf(trades, kept)
             closed == closedInOrder(trades, kept)
         IN  /\ Cardinality(S) \in Nat
             /\ Len(closed) = Cardinality(S)
             /\ DOMAIN closed = 1 .. Cardinality(S)
             /\ pnlOf(closed) = [p \in 1 .. Cardinality(S) |-> closed[p].netPnl]
             /\ \A p \in 1 .. Cardinality(S) : closed[p].netPnl \in Int /\ closed[p].exitTime \in Int
             /\ \A p, q \in 1 .. Cardinality(S) : p < q => closed[p].exitTime <= closed[q].exitTime
             /\ \E order \in Bijection(1 .. Cardinality(S), S) :
                   /\ pnlOf(closed) = [p \in 1 .. Cardinality(S) |-> pnlOf(trades)[order[p]]]
                   /\ \A p \in 1 .. Cardinality(S) : closed[p] = trades[order[p]]
<1> DEFINE S == ClosedOf(trades, kept)
           closed == closedInOrder(trades, kept)
           n == Cardinality(S)
<1>1. PICK order \in Bijection(1 .. n, S) :
         /\ closed = [p \in 1 .. n |-> trades[order[p]]]
         /\ \A p, q \in 1 .. n : p < q => trades[order[p]].exitTime <= trades[order[q]].exitTime
  BY ClosedOrder
<1>2. n \in Nat
  BY ClosedOrder, FS_CardinalityType
<1>3. S \subseteq DOMAIN trades /\ \A k \in S : trades[k].netPnl \in Int /\ trades[k].exitTime \in Int
  BY DEF ClosedOf, IsLedger, isClosed, isDecided
<1> HIDE DEF closed, n, S
<1>4. \A p \in 1 .. n : order[p] \in S
  BY <1>1 DEF Bijection, Injection
<1>5. DOMAIN closed = 1 .. n
  BY <1>1
<1>6. Len(closed) = n
  <2>1. closed \in [1 .. n -> {trades[k] : k \in S}]
    BY <1>1, <1>4
  <2>2. closed \in Seq({trades[k] : k \in S})
    BY <1>2, <2>1, SeqDef
  <2> QED
    BY <1>2, <1>5, <2>2, LenProperties
<1>7. pnlOf(closed) = [p \in 1 .. n |-> closed[p].netPnl]
  BY <1>5 DEF pnlOf
<1>8. ASSUME NEW p \in 1 .. n
      PROVE  /\ closed[p] = trades[order[p]] /\ closed[p].netPnl \in Int /\ closed[p].exitTime \in Int
             /\ closed[p].netPnl = pnlOf(trades)[order[p]]
  <2>1. order[p] \in S /\ closed[p] = trades[order[p]]
    BY <1>1, <1>4
  <2> QED
    BY <1>3, <2>1 DEF pnlOf
<1>9. pnlOf(closed) = [p \in 1 .. n |-> pnlOf(trades)[order[p]]]
  BY <1>7, <1>8
<1>10. \A p, q \in 1 .. n : p < q => closed[p].exitTime <= closed[q].exitTime
  BY <1>1, <1>8
<1> QED
  BY <1>1, <1>2, <1>5, <1>6, <1>7, <1>8, <1>9, <1>10 DEF n, S, closed

(* Profits less losses are the sum of all results. *)
LEMMA ProfitLessLoss ==
  ASSUME NEW g, NEW D, IsFiniteSet(D), Whole(g, D)
  PROVE  LET profit == SumFunctionOnSet(g, {k \in D : g[k] > 0})
             loss == -SumFunctionOnSet(g, {k \in D : g[k] < 0})
         IN  profit \in Int /\ loss \in Int /\ profit - loss = SumFunctionOnSet(g, D)
<1> DEFINE W == {k \in D : g[k] > 0}
           N == {k \in D : g[k] < 0}
           Z == {k \in D : g[k] = 0}
<1>1. /\ W \cup N \cup Z = D
      /\ W \cap N = {} /\ (W \cup N) \cap Z = {}
      /\ W \in SUBSET D /\ N \in SUBSET D /\ Z \in SUBSET D
  BY DEF Whole
<1>2. ASSUME NEW U \in SUBSET D PROVE IsFiniteSet(U) /\ Whole(g, U) /\ SumFunctionOnSet(g, U) \in Int
  BY FS_Subset, SumFacts DEF Whole
<1>3. \A k \in Z : g[k] = 0
  OBVIOUS
<1> HIDE DEF W, N, Z
<1>4. SumFunctionOnSet(g, Z) = 0
  BY <1>1, <1>2, <1>3, SumSigned
<1>5. SumFunctionOnSet(g, W \cup N) = SumFunctionOnSet(g, W) + SumFunctionOnSet(g, N)
  BY <1>1, <1>2, SumUnion
<1>6. SumFunctionOnSet(g, (W \cup N) \cup Z) = SumFunctionOnSet(g, W \cup N) + SumFunctionOnSet(g, Z)
  <2>1. (W \cup N) \in SUBSET D
    BY <1>1
  <2> QED
    BY <1>1, <1>2, <2>1, SumUnion
<1>7. SumFunctionOnSet(g, D) = SumFunctionOnSet(g, W) + SumFunctionOnSet(g, N)
  <2>1. SumFunctionOnSet(g, D) = SumFunctionOnSet(g, (W \cup N) \cup Z)
    BY <1>1
  <2>2. SumFunctionOnSet(g, W) \in Int /\ SumFunctionOnSet(g, N) \in Int
    BY <1>1, <1>2
  <2> QED
    BY <1>4, <1>5, <1>6, <2>1, <2>2
<1> QED
  BY <1>1, <1>2, <1>7 DEF W, N

(* The metrics the theorem is about, one by one.                          *)
LEMMA MetricsAre ==
  ASSUME NEW closed
  PROVE  LET pnl == pnlOf(closed)
             losses == {k \in DOMAIN closed : pnl[k] < 0}
             m == coreMetrics(closed)
         IN  /\ m.netProfit = SumFunctionOnSet(pnl, {k \in DOMAIN closed : pnl[k] > 0})
                                 - (-SumFunctionOnSet(pnl, losses))
             /\ m.grossLoss = -SumFunctionOnSet(pnl, losses)
             /\ m.losingTrades = Cardinality(losses)
             /\ m.longestLosingStreak = Max({0} \cup {run[2] - run[1] + 1 :
                    run \in {r \in (DOMAIN closed) \X (DOMAIN closed) : r[1] .. r[2] \subseteq losses}})
             /\ m.monthlyReturns = [d \in {month(closed[k].exitTime) : k \in DOMAIN closed} |->
                    SumFunctionOnSet(pnl, {k \in DOMAIN closed : month(closed[k].exitTime) = d})]
BY DEF coreMetrics

(* The metrics of a direction keep these two.                             *)
LEMMA SubsetKeeps ==
  ASSUME NEW closed
  PROVE  /\ toSubsetMetrics(coreMetrics(closed)).netProfit = coreMetrics(closed).netProfit
         /\ toSubsetMetrics(coreMetrics(closed)).losingTrades = coreMetrics(closed).losingTrades
<1> DEFINE m == coreMetrics(closed)
<1>1. "netProfit" \in DOMAIN m /\ "losingTrades" \in DOMAIN m
  BY DEF coreMetrics
<1> HIDE DEF m
<1> QED
  BY <1>1 DEF toSubsetMetrics, WholeLedgerOnly, m

(* The figures of a sorted ledger are those of its positions.              *)
LEMMA FiguresOfPositions ==
  ASSUME NEW trades, IsLedger(trades), NEW kept \in SUBSET DOMAIN trades
  PROVE  LET S == ClosedOf(trades, kept)
             m == coreMetrics(closedInOrder(trades, kept))
         IN  /\ m.netProfit = SumFunctionOnSet(pnlOf(trades), S)
             /\ m.losingTrades = Cardinality({k \in S : trades[k].netPnl < 0})
             /\ m.netProfit = SumFunctionOnSet(pnlOf(closedInOrder(trades, kept)), 1 .. Cardinality(S))
<1> DEFINE S == ClosedOf(trades, kept)
           closed == closedInOrder(trades, kept)
           n == Cardinality(S)
           g == pnlOf(closed)
           m == coreMetrics(closed)
<1>1. /\ n \in Nat /\ DOMAIN closed = 1 .. n
      /\ g = [p \in 1 .. n |-> closed[p].netPnl]
      /\ \A p \in 1 .. n : closed[p].netPnl \in Int
  BY ClosedProfits
<1>2. PICK order \in Bijection(1 .. n, S) :
         /\ g = [p \in 1 .. n |-> pnlOf(trades)[order[p]]]
         /\ \A p \in 1 .. n : closed[p] = trades[order[p]]
  BY ClosedProfits
<1>3. /\ m.netProfit = SumFunctionOnSet(g, {k \in DOMAIN closed : g[k] > 0})
                          - (-SumFunctionOnSet(g, {k \in DOMAIN closed : g[k] < 0}))
      /\ m.losingTrades = Cardinality({k \in DOMAIN closed : g[k] < 0})
  BY MetricsAre
<1>4. /\ Whole(pnlOf(trades), S) /\ IsFiniteSet(S)
      /\ \A k \in S : pnlOf(trades)[k] = trades[k].netPnl
  <2>1. IsFiniteSet(S)
    BY ClosedOrder
  <2>2. \A k \in S : k \in DOMAIN trades /\ trades[k].netPnl \in Int
    BY DEF ClosedOf, IsLedger, isClosed, isDecided
  <2> HIDE DEF S
  <2> QED
    BY <2>1, <2>2 DEF Whole, pnlOf
<1>5. IsFiniteSet(1 .. n) /\ Whole(g, 1 .. n)
  <2>1. IsFiniteSet(1 .. n)
    <3> HIDE DEF n
    <3> QED BY <1>1, FS_Interval
  <2> HIDE DEF n, g, closed
  <2> QED BY <1>1, <2>1 DEF Whole
<1> HIDE DEF S, closed, n, g, m
<1>6. m.netProfit = SumFunctionOnSet(g, 1 .. n)
  BY <1>1, <1>3, <1>5, ProfitLessLoss
<1>7. SumFunctionOnSet(g, 1 .. n) = SumFunctionOnSet(pnlOf(trades), S)
  <2> DEFINE D == 1 .. n
             h == pnlOf(trades)
  <2>1. order \in Bijection(D, S) /\ IsFiniteSet(D) /\ Whole(h, S)
    BY <1>4, <1>5
  <2>2. g = [t \in D |-> h[order[t]]]
    BY <1>2
  <2> HIDE DEF D, h
  <2>3. SumFunctionOnSet([t \in D |-> h[order[t]]], D) = SumFunctionOnSet(h, S)
    BY <2>1, SumReindex
  <2>4. SumFunctionOnSet(g, D) = SumFunctionOnSet(h, S)
    BY <2>2, <2>3
  <2> QED
    BY <2>4 DEF D, h
<1>8. Cardinality({k \in 1 .. n : g[k] < 0}) = Cardinality({k \in S : trades[k].netPnl < 0})
  <2> DEFINE From == {k \in 1 .. n : g[k] < 0}
             To == {k \in S : trades[k].netPnl < 0}
             f == [p \in From |-> order[p]]
  <2>1. IsFiniteSet(From)
    BY <1>5, FS_Subset
  <2>2. /\ \A p \in 1 .. n : order[p] \in S /\ g[p] = trades[order[p]].netPnl
        /\ \A p, q \in 1 .. n : order[p] = order[q] => p = q
        /\ \A k \in S : \E p \in 1 .. n : order[p] = k
    BY <1>2, <1>4 DEF Bijection, Injection, Surjection, IsInjective
  <2>3. f \in [From -> To]
    BY <2>2
  <2>4. \A k \in To : \E p \in From : f[p] = k
    BY <2>2
  <2>5. IsInjective(f)
    BY <2>2 DEF IsInjective
  <2>6. f \in Bijection(From, To)
    <3> HIDE DEF f, From, To
    <3> QED BY <2>3, <2>4, <2>5 DEF Bijection, Injection, Surjection
  <2> HIDE DEF f, From, To
  <2>7. Cardinality(From) = Cardinality(To)
    BY <2>1, <2>6, FS_Bijection DEF ExistsBijection
  <2> QED
    BY <2>7 DEF From, To
<1> QED
  BY <1>1, <1>3, <1>6, <1>7, <1>8 DEF S, closed, n, g, m

(* Every trade of a ledger is of one of the two directions. *)
LEMMA SidesAddUp ==
  ASSUME NEW trades, IsLedger(trades)
  PROVE  LET sides == computeDirectionalBreakdown(trades)
             m == calculateCoreMetrics(trades)
         IN  /\ sides.long.netProfit + sides.short.netProfit = m.netProfit
             /\ sides.long.losingTrades + sides.short.losingTrades = m.losingTrades
<1> DEFINE Of(direction) == {k \in DOMAIN trades : trades[k].direction = direction}
           L == ClosedOf(trades, Of("LONG"))
           H == ClosedOf(trades, Of("SHORT"))
           A == ClosedOf(trades, DOMAIN trades)
           Losing(T) == {k \in T : trades[k].netPnl < 0}
           g == pnlOf(trades)
           sides == computeDirectionalBreakdown(trades)
           m == calculateCoreMetrics(trades)
<1>1. Of("LONG") \in SUBSET DOMAIN trades /\ Of("SHORT") \in SUBSET DOMAIN trades
  OBVIOUS
<1>2. /\ sides.long.netProfit = coreMetrics(closedInOrder(trades, Of("LONG"))).netProfit
      /\ sides.short.netProfit = coreMetrics(closedInOrder(trades, Of("SHORT"))).netProfit
      /\ sides.long.losingTrades = coreMetrics(closedInOrder(trades, Of("LONG"))).losingTrades
      /\ sides.short.losingTrades = coreMetrics(closedInOrder(trades, Of("SHORT"))).losingTrades
  BY SubsetKeeps DEF computeDirectionalBreakdown, only
<1>3. L \cup H = A /\ L \cap H = {}
  BY DEF ClosedOf, IsLedger
<1>4. IsFiniteSet(L) /\ IsFiniteSet(H) /\ IsFiniteSet(A)
  <2> HIDE DEF Of
  <2> QED
    BY <1>1, ClosedOrder
<1>5. \A k \in A : k \in DOMAIN trades /\ trades[k].netPnl \in Int
  BY DEF ClosedOf, IsLedger, isClosed, isDecided
<1>6. /\ sides.long.netProfit = SumFunctionOnSet(g, L)
      /\ sides.long.losingTrades = Cardinality(Losing(L))
      /\ sides.short.netProfit = SumFunctionOnSet(g, H)
      /\ sides.short.losingTrades = Cardinality(Losing(H))
      /\ m.netProfit = SumFunctionOnSet(g, A)
      /\ m.losingTrades = Cardinality(Losing(A))
  <2> HIDE DEF Of, sides
  <2> QED
    BY <1>1, <1>2, FiguresOfPositions DEF calculateCoreMetrics
<1>7. Losing(L) \cup Losing(H) = Losing(A) /\ Losing(L) \cap Losing(H) = {}
  BY <1>3
<1> HIDE DEF L, H, A, sides, m, g
<1>8. Whole(g, L) /\ Whole(g, H)
  BY <1>3, <1>5 DEF Whole, g, pnlOf
<1>9. SumFunctionOnSet(g, A) = SumFunctionOnSet(g, L) + SumFunctionOnSet(g, H)
  BY <1>3, <1>4, <1>8, SumUnion
<1>10. Cardinality(Losing(A)) = Cardinality(Losing(L)) + Cardinality(Losing(H))
  <2>1. IsFiniteSet(Losing(L)) /\ IsFiniteSet(Losing(H))
    BY <1>4, FS_Subset
  <2> HIDE DEF Losing
  <2>2. /\ Cardinality(Losing(L) \cup Losing(H)) = Cardinality(Losing(L)) + Cardinality(Losing(H)) - Cardinality({})
        /\ Cardinality(Losing(L)) \in Nat /\ Cardinality(Losing(H)) \in Nat
    BY <1>7, <2>1, FS_Union, FS_CardinalityType
  <2> QED
    BY <1>7, <2>2, FS_EmptySet
<1> QED
  BY <1>6, <1>9, <1>10 DEF sides, m

(* The months of a ledger are a partition of its trades. *)
LEMMA MonthsAddUp ==
  ASSUME NEW trades, IsLedger(trades)
  PROVE  SumFunction(calculateCoreMetrics(trades).monthlyReturns) = calculateCoreMetrics(trades).netProfit
<1> DEFINE closed == closedInOrder(trades, DOMAIN trades)
           n == Cardinality(ClosedOf(trades, DOMAIN trades))
           g == pnlOf(closed)
           part == [k \in 1 .. n |-> month(closed[k].exitTime)]
           M == {part[k] : k \in 1 .. n}
           returns == [d \in M |-> SumFunctionOnSet(g, {k \in 1 .. n : part[k] = d})]
<1>1. /\ n \in Nat /\ DOMAIN closed = 1 .. n
      /\ g = [p \in 1 .. n |-> closed[p].netPnl]
      /\ \A p \in 1 .. n : closed[p].netPnl \in Int
  BY ClosedProfits
<1>2. calculateCoreMetrics(trades).netProfit = SumFunctionOnSet(g, 1 .. n)
  BY FiguresOfPositions DEF calculateCoreMetrics
<1>3. calculateCoreMetrics(trades).monthlyReturns =
        [d \in {month(closed[k].exitTime) : k \in DOMAIN closed} |->
           SumFunctionOnSet(g, {k \in DOMAIN closed : month(closed[k].exitTime) = d})]
  BY MetricsAre DEF calculateCoreMetrics
<1> HIDE DEF closed, n, g
<1>4. calculateCoreMetrics(trades).monthlyReturns = returns
  <2>1. M = {month(closed[k].exitTime) : k \in DOMAIN closed}
    BY <1>1
  <2>2. \A d \in M : {k \in 1 .. n : part[k] = d} = {k \in DOMAIN closed : month(closed[k].exitTime) = d}
    BY <1>1
  <2> QED
    BY <1>3, <2>1, <2>2
<1>5. IsFiniteSet(1 .. n) /\ Whole(g, 1 .. n)
  BY <1>1, FS_Interval DEF Whole
<1>6. IsFiniteSet(M)
  <2>1. part \in Surjection(1 .. n, M)
    BY DEF Surjection
  <2> HIDE DEF part, M
  <2> QED
    BY <1>5, <2>1, FS_Surjection
<1>7. \A k \in 1 .. n : part[k] \in M
  OBVIOUS
<1> HIDE DEF part, M
<1>8. SumFunctionOnSet(returns, M) = SumFunctionOnSet(g, 1 .. n)
  <2> DEFINE D == 1 .. n
  <2>1. IsFiniteSet(D) /\ Whole(g, D) /\ \A k \in D : part[k] \in M
    BY <1>5, <1>7
  <2>2. returns = [d \in M |-> SumFunctionOnSet(g, {k \in D : part[k] = d})]
    OBVIOUS
  <2> HIDE DEF D, returns
  <2>3. SumFunctionOnSet([d \in M |-> SumFunctionOnSet(g, {k \in D : part[k] = d})], M)
           = SumFunctionOnSet(g, D)
    BY <1>6, <2>1, SumSplit
  <2>4. SumFunctionOnSet(returns, M) = SumFunctionOnSet(g, D)
    BY <2>2, <2>3
  <2> QED
    BY <2>4 DEF D
<1>9. SumFunction(returns) = SumFunctionOnSet(returns, M)
  BY DEF SumFunction
<1> QED
  BY <1>2, <1>4, <1>8, <1>9

(* A run of losing trades is a set of them.                               *)
LEMMA StreakIsOfLosers ==
  ASSUME NEW trades, IsLedger(trades)
  PROVE  calculateCoreMetrics(trades).longestLosingStreak <= calculateCoreMetrics(trades).losingTrades
<1> DEFINE closed == closedInOrder(trades, DOMAIN trades)
           n == Cardinality(ClosedOf(trades, DOMAIN trades))
           g == pnlOf(closed)
           losses == {k \in DOMAIN closed : g[k] < 0}
           streaks == {r \in (DOMAIN closed) \X (DOMAIN closed) : r[1] .. r[2] \subseteq losses}
           lengths == {0} \cup {run[2] - run[1] + 1 : run \in streaks}
<1>1. n \in Nat /\ DOMAIN closed = 1 .. n
  BY ClosedProfits
<1>2. /\ calculateCoreMetrics(trades).longestLosingStreak = Max(lengths)
      /\ calculateCoreMetrics(trades).losingTrades = Cardinality(losses)
  BY MetricsAre DEF calculateCoreMetrics
<1> HIDE DEF closed, n, g
<1>3. IsFiniteSet(losses) /\ Cardinality(losses) \in Nat /\ losses \subseteq 1 .. n
  <2>1. IsFiniteSet(1 .. n) /\ losses \in SUBSET (1 .. n)
    BY <1>1, FS_Interval
  <2> HIDE DEF losses
  <2> QED
    BY <2>1, FS_Subset, FS_CardinalityType
<1> HIDE DEF losses
<1>4. ASSUME NEW run \in streaks
      PROVE  run[2] - run[1] + 1 \in Int /\ run[2] - run[1] + 1 <= Cardinality(losses)
  <2>1. run[1] \in Int /\ run[2] \in Int /\ (run[1] .. run[2]) \in SUBSET losses
    BY <1>1
  <2>2. Cardinality(run[1] .. run[2]) <= Cardinality(losses)
    BY <1>3, <2>1, FS_Subset
  <2>3. Cardinality(run[1] .. run[2]) = IF run[1] > run[2] THEN 0 ELSE run[2] - run[1] + 1
    BY <2>1, FS_Interval
  <2> HIDE DEF streaks
  <2> QED
    BY <1>3, <2>1, <2>2, <2>3
<1>5. lengths \subseteq Int /\ lengths # {} /\ \A x \in lengths : x <= Cardinality(losses)
  <2> HIDE DEF streaks
  <2> QED
    BY <1>3, <1>4
<1>6. IsFiniteSet(lengths)
  <2>1. IsFiniteSet((DOMAIN closed) \X (DOMAIN closed))
    <3>1. IsFiniteSet(DOMAIN closed)
      BY <1>1, FS_Interval
    <3> QED
      BY <3>1, FS_Product
  <2>2. IsFiniteSet(streaks)
    BY <2>1, FS_Subset
  <2> HIDE DEF streaks
  <2> DEFINE size == [run \in streaks |-> run[2] - run[1] + 1]
             T == {run[2] - run[1] + 1 : run \in streaks}
  <2>3. size \in Surjection(streaks, T)
    BY DEF Surjection
  <2>4. IsFiniteSet(T)
    <3> HIDE DEF size, T
    <3> QED BY <2>2, <2>3, FS_Surjection
  <2>5. IsFiniteSet(T \cup {0})
    BY <2>4, FS_AddElement
  <2>6. T \cup {0} = lengths
    OBVIOUS
  <2> QED
    BY <2>5, <2>6
<1> HIDE DEF lengths
<1> QED
  BY <1>2, <1>5, <1>6, MaxIs

(* The removal curve takes every decided trade away. *)
LEMMA RemovalAddsUp ==
  ASSUME NEW trades, IsLedger(trades)
  PROVE  LET removal == computeTradeRemovalConcentration(trades)
             profit == calculateCoreMetrics(trades).netProfit
         IN  /\ removal.totalNetProfit = profit
             /\ profit # 0 => Last(removal.curve).cumulativePct = <<profit, AbsOf(profit)>>
<1> DEFINE S == {k \in DOMAIN trades : isDecided(trades[k])}
           order == PositionsBy(S, LAMBDA k : trades[k].netPnl, >)
           n == Cardinality(S)
           g == pnlOf(trades)
           total == SumFunctionOnSet(g, S)
           running(k) == SumFunctionOnSet(g, {order[j] : j \in 1 .. k})
           curve == [k \in DOMAIN order |->
               [tradeNumber |-> trades[order[k]].tradeNumber, netPnl |-> trades[order[k]].netPnl,
                cumulativePct |-> IF total = 0 THEN <<0, 1>> ELSE <<running(k), AbsOf(total)>>]]
<1>1. IsFiniteSet(S) /\ order \in Bijection(1 .. n, S) /\ DOMAIN order = 1 .. n
  BY RemovalOrder
<1>2. S = ClosedOf(trades, DOMAIN trades)
  BY UndefinedAssumption DEF ClosedOf, IsLedger, isClosed, isDecided
<1>3. calculateCoreMetrics(trades).netProfit = total
  <2>1. calculateCoreMetrics(trades).netProfit = SumFunctionOnSet(g, ClosedOf(trades, DOMAIN trades))
    BY FiguresOfPositions DEF calculateCoreMetrics
  <2> HIDE DEF S, g
  <2> QED
    BY <1>2, <2>1
<1>4. /\ computeTradeRemovalConcentration(trades).totalNetProfit = total
      /\ computeTradeRemovalConcentration(trades).curve = curve
  BY DEF computeTradeRemovalConcentration
<1>5. S \subseteq DOMAIN trades /\ \A k \in S : trades[k].netPnl \in Int
  BY DEF IsLedger
<1> HIDE DEF S, order
<1>6. n \in Nat
  BY <1>1, FS_CardinalityType
<1>7. {order[j] : j \in 1 .. n} = S
  BY <1>1 DEF Bijection, Injection, Surjection
<1>8. ASSUME total # 0 PROVE Last(curve).cumulativePct = <<total, AbsOf(total)>>
  <2>1. n # 0
    <3>1. n = 0 => S = {}
      BY <1>1, FS_EmptySet
    <3>2. Whole(g, {})
      BY DEF Whole
    <3> HIDE DEF g, n
    <3>3. SumFunctionOnSet(g, {}) = 0
      BY <3>2, FS_EmptySet, SumFacts
    <3> QED
      BY <1>8, <3>1, <3>3
  <2>2. running(n) = total
    BY <1>7
  <2>3. curve \in Seq({curve[k] : k \in 1 .. n}) /\ DOMAIN curve = 1 .. n
    <3> HIDE DEF n
    <3>1. DOMAIN curve = 1 .. n /\ curve = [k \in 1 .. n |-> curve[k]]
      BY <1>1
    <3> HIDE DEF curve
    <3>2. curve \in [1 .. n -> {curve[k] : k \in 1 .. n}]
      BY <3>1
    <3> QED
      BY <1>6, <3>1, <3>2, SeqDef
  <2>4. Len(curve) = n
    <3> HIDE DEF n, curve
    <3> QED
      BY <1>6, <2>3, LenProperties
  <2>5. n \in DOMAIN order
    <3> HIDE DEF n
    <3> QED BY <1>1, <1>6, <2>1
  <2>6. curve[n].cumulativePct = <<running(n), AbsOf(total)>>
    <3> HIDE DEF n, total, running
    <3> QED BY <1>8, <2>5
  <2> HIDE DEF curve, total, running, n
  <2> QED
    BY <2>2, <2>4, <2>6 DEF Last
<1> HIDE DEF total, curve
<1> QED
  BY <1>3, <1>4, <1>8

(* The curve adds the results up, in the order of the exits. *)
LEMMA CurveIs ==
  ASSUME NEW trades, IsLedger(trades), NEW capital \in Int
  PROVE  LET equity == reconstructEquityCurve(trades, capital)
             closed == closedInOrder(trades, DOMAIN trades)
             n == Cardinality(ClosedOf(trades, DOMAIN trades))
         IN  /\ n \in Nat /\ Len(equity) = n + 1 /\ DOMAIN equity = 1 .. n + 1
             /\ \A p \in 1 .. n + 1 : equity[p].equity = capital + SumFunctionOnSet(pnlOf(closed), 1 .. p - 1)
<1> DEFINE equity == reconstructEquityCurve(trades, capital)
           closed == closedInOrder(trades, DOMAIN trades)
           n == Cardinality(ClosedOf(trades, DOMAIN trades))
<1>1. n \in Nat /\ Len(closed) = n
  BY ClosedProfits
<1>2. DOMAIN equity = 1 .. Len(closed) + 1 /\ equity = [p \in 1 .. Len(closed) + 1 |-> equity[p]]
  BY DEF reconstructEquityCurve
<1>3. \A p \in 1 .. Len(closed) + 1 : equity[p].equity = capital + SumFunctionOnSet(pnlOf(closed), 1 .. p - 1)
  BY DEF reconstructEquityCurve
<1> HIDE DEF equity, n
<1>4. Len(equity) = n + 1
  <2>1. equity \in [1 .. n + 1 -> {equity[p] : p \in 1 .. n + 1}]
    BY <1>1, <1>2
  <2>2. equity \in Seq({equity[p] : p \in 1 .. n + 1})
    BY <1>1, <2>1, SeqDef
  <2> QED
    BY <1>1, <1>2, <2>2, LenProperties
<1> HIDE DEF closed
<1> QED
  BY <1>1, <1>2, <1>3, <1>4 DEF equity, closed, n

(* What is lost between two points is no more than what is lost in all. *)
LEMMA FallIsOfLosses ==
  ASSUME NEW n \in Nat, NEW g, Whole(g, 1 .. n), NEW p \in 1 .. n + 1, NEW q \in 1 .. p
  PROVE  /\ SumFunctionOnSet(g, 1 .. p - 1) \in Int /\ SumFunctionOnSet(g, 1 .. q - 1) \in Int
         /\ SumFunctionOnSet(g, 1 .. q - 1) - SumFunctionOnSet(g, 1 .. p - 1)
               <= -SumFunctionOnSet(g, {k \in 1 .. n : g[k] < 0})
<1> DEFINE A == 1 .. q - 1
           B == q .. p - 1
           L == {k \in 1 .. n : g[k] < 0}
           Gain == {k \in B : g[k] >= 0}
           In == {k \in B : g[k] < 0}
           Out == L \ In
<1>1. ASSUME NEW U \in SUBSET (1 .. n) PROVE IsFiniteSet(U) /\ Whole(g, U) /\ SumFunctionOnSet(g, U) \in Int
  <2>1. IsFiniteSet(1 .. n)
    BY FS_Interval
  <2> QED
    BY <2>1, FS_Subset, SumFacts DEF Whole
<1>2. /\ A \in SUBSET (1 .. n) /\ B \in SUBSET (1 .. n) /\ (1 .. p - 1) = A \cup B /\ A \cap B = {}
      /\ L \in SUBSET (1 .. n)
  OBVIOUS
<1>3. Gain \in SUBSET (1 .. n) /\ In \in SUBSET (1 .. n) /\ B = Gain \cup In /\ Gain \cap In = {}
  BY <1>2 DEF Whole
<1>4. Out \in SUBSET (1 .. n) /\ L = In \cup Out /\ In \cap Out = {}
  BY <1>2
<1>5. (\A k \in Gain : g[k] >= 0) /\ (\A k \in Out : g[k] <= 0)
  BY DEF Whole
<1> HIDE DEF A, B, L, Gain, In, Out
<1>6. SumFunctionOnSet(g, Gain) >= 0 /\ SumFunctionOnSet(g, Out) <= 0
  BY <1>1, <1>3, <1>4, <1>5, SumSigned
<1>7. SumFunctionOnSet(g, A \cup B) = SumFunctionOnSet(g, A) + SumFunctionOnSet(g, B)
  BY <1>1, <1>2, SumUnion
<1>8. SumFunctionOnSet(g, Gain \cup In) = SumFunctionOnSet(g, Gain) + SumFunctionOnSet(g, In)
  BY <1>1, <1>3, SumUnion
<1>9. SumFunctionOnSet(g, In \cup Out) = SumFunctionOnSet(g, In) + SumFunctionOnSet(g, Out)
  BY <1>1, <1>3, <1>4, SumUnion
<1>10. SumFunctionOnSet(g, 1 .. p - 1) = SumFunctionOnSet(g, A) + SumFunctionOnSet(g, B)
  BY <1>2, <1>7
<1>11. SumFunctionOnSet(g, B) = SumFunctionOnSet(g, Gain) + SumFunctionOnSet(g, In)
  BY <1>3, <1>8
<1>12. SumFunctionOnSet(g, L) = SumFunctionOnSet(g, In) + SumFunctionOnSet(g, Out)
  BY <1>4, <1>9
<1>13. /\ SumFunctionOnSet(g, A) \in Int /\ SumFunctionOnSet(g, B) \in Int /\ SumFunctionOnSet(g, L) \in Int
       /\ SumFunctionOnSet(g, Gain) \in Int /\ SumFunctionOnSet(g, In) \in Int /\ SumFunctionOnSet(g, Out) \in Int
  BY <1>1, <1>2, <1>3, <1>4
<1>14. SumFunctionOnSet(g, A) - SumFunctionOnSet(g, 1 .. p - 1) <= -SumFunctionOnSet(g, L)
  BY <1>6, <1>10, <1>11, <1>12, <1>13
<1>15. SumFunctionOnSet(g, 1 .. p - 1) \in Int
  BY <1>10, <1>13
<1> QED
  BY <1>13, <1>14, <1>15 DEF A, L

(* The greatest drawdown is the deepest fall from an earlier point.        *)
LEMMA DrawdownOf ==
  ASSUME NEW n \in Nat, NEW equity, DOMAIN equity = 1 .. n + 1, \A p \in 1 .. n + 1 : equity[p].equity \in Int
  PROVE  LET deepest == computeDrawdownCurve(equity).maxDrawdown
         IN  /\ deepest \in Nat
             /\ \A p \in 1 .. n + 1 : \A q \in 1 .. p : equity[q].equity - equity[p].equity <= deepest
             /\ \E p \in 1 .. n + 1 : \E q \in 1 .. p : deepest = equity[q].equity - equity[p].equity
<1> DEFINE e == [p \in 1 .. n + 1 |-> equity[p].equity]
           Upto(p) == {e[q] : q \in 1 .. p}
           fall == [p \in 1 .. n + 1 |-> Max(Upto(p)) - e[p]]
           falls == {0} \cup {fall[p] : p \in 1 .. n + 1}
           deepest == computeDrawdownCurve(equity).maxDrawdown
<1>1. e \in [1 .. n + 1 -> Int]
  OBVIOUS
<1>2. deepest = Max(falls)
  <2> DEFINE peak == [p \in DOMAIN equity |-> Max({equity[q].equity : q \in 1 .. p})]
             points == [p \in DOMAIN equity |->
            [sequenceNumber |-> equity[p].sequenceNumber, time |-> equity[p].time,
             drawdown |-> peak[p] - equity[p].equity,
             drawdownPct |-> IF peak[p] = 0 THEN <<0, 1>> ELSE Ratio(peak[p] - equity[p].equity, peak[p])]]
  <2>1. deepest = Max({0} \cup {points[p].drawdown : p \in DOMAIN points})
    BY DEF computeDrawdownCurve
  <2>2. ASSUME NEW p \in 1 .. n + 1 PROVE points[p].drawdown = fall[p]
    <3>1. \A q \in 1 .. p : equity[q].equity = e[q]
      OBVIOUS
    <3>2. {equity[q].equity : q \in 1 .. p} = Upto(p)
      BY <3>1
    <3>3. peak[p] = Max(Upto(p))
      BY <3>2
    <3> HIDE DEF peak, Upto
    <3> QED
      BY <3>3
  <2>3. DOMAIN points = 1 .. n + 1
    OBVIOUS
  <2> HIDE DEF points, fall, deepest
  <2>4. {points[p].drawdown : p \in DOMAIN points} = {fall[p] : p \in 1 .. n + 1}
    BY <2>2, <2>3
  <2> QED
    BY <2>1, <2>4
<1>3. ASSUME NEW p \in 1 .. n + 1
      PROVE  /\ fall[p] \in Int
             /\ \A q \in 1 .. p : e[q] - e[p] <= fall[p]
             /\ \E q \in 1 .. p : fall[p] = e[q] - e[p]
  <2>0. p \in 1 .. p /\ (1 .. p) \subseteq 1 .. n + 1 /\ \A q \in 1 .. n + 1 : e[q] \in Int
    BY <1>1
  <2>1. IsFiniteSet(Upto(p)) /\ Upto(p) \subseteq Int /\ Upto(p) # {}
    <3>1. IsFiniteSet(1 .. p)
      <4>1. p \in Int
        OBVIOUS
      <4> QED
        BY ONLY <4>1, FS_Interval
    <3> DEFINE f == [q \in 1 .. p |-> e[q]]
    <3>2. f \in Surjection(1 .. p, Upto(p))
      BY DEF Surjection
    <3>3. Upto(p) \subseteq Int /\ Upto(p) # {}
      <4> HIDE DEF e, deepest
      <4> QED BY <2>0
    <3> HIDE DEF f, Upto
    <3> QED
      BY <3>1, <3>2, <3>3, FS_Surjection
  <2>2. Max(Upto(p)) \in Upto(p) /\ \A x \in Upto(p) : x <= Max(Upto(p))
    <3> HIDE DEF Upto
    <3> QED BY <2>1, MaxIs
  <2>3. \A q \in 1 .. p : e[q] <= Max(Upto(p)) /\ e[q] \in Int
    <3>1. \A q \in 1 .. p : e[q] \in Upto(p)
      OBVIOUS
    <3> HIDE DEF e, Upto, deepest
    <3> QED
      BY <2>0, <2>2, <3>1
  <2>4. PICK q \in 1 .. p : Max(Upto(p)) = e[q]
    BY <2>2
  <2>5. p \in 1 .. p
    OBVIOUS
  <2> HIDE DEF e, Upto
  <2>6. fall[p] = e[q] - e[p]
    BY <2>4
  <2> HIDE DEF fall
  <2> QED
    BY <1>1, <2>3, <2>4, <2>5, <2>6
<1> HIDE DEF e, Upto, fall
<1>4. IsFiniteSet(falls) /\ falls \subseteq Int /\ falls # {}
  <2> DEFINE f == [p \in 1 .. n + 1 |-> fall[p]]
             T == {fall[p] : p \in 1 .. n + 1}
  <2>1. IsFiniteSet(1 .. n + 1)
    BY FS_Interval
  <2>2. f \in Surjection(1 .. n + 1, T)
    BY DEF Surjection
  <2>3. T \subseteq Int
    BY <1>3
  <2>4. IsFiniteSet(T)
    <3> HIDE DEF f, T
    <3> QED BY <2>1, <2>2, FS_Surjection
  <2>5. falls = T \cup {0}
    OBVIOUS
  <2> HIDE DEF T, falls
  <2> QED
    BY <2>3, <2>4, <2>5, FS_AddElement
<1>5. Max(falls) \in falls /\ \A x \in falls : x <= Max(falls)
  <2> HIDE DEF falls
  <2> QED BY <1>4, MaxIs
<1>6. deepest \in Int /\ deepest >= 0 /\ deepest \in falls /\ \A p \in 1 .. n + 1 : fall[p] <= deepest
  <2>1. 0 \in falls /\ \A p \in 1 .. n + 1 : fall[p] \in falls
    OBVIOUS
  <2> HIDE DEF falls
  <2> QED BY <1>2, <1>4, <1>5, <2>1
<1> HIDE DEF deepest
<1>7. ASSUME NEW p \in 1 .. n + 1, NEW q \in 1 .. p PROVE e[q] - e[p] <= deepest
  <2>1. e[q] \in Int /\ e[p] \in Int
    BY <1>1
  <2>2. e[q] - e[p] <= fall[p] /\ fall[p] \in Int
    BY <1>3
  <2>3. fall[p] <= deepest /\ deepest \in Int
    BY <1>6
  <2> QED
    BY <2>1, <2>2, <2>3
<1>8. \E p \in 1 .. n + 1 : \E q \in 1 .. p : deepest = e[q] - e[p]
  <2>1. CASE deepest = 0
    <3>1. 1 \in 1 .. n + 1 /\ 1 \in 1 .. 1 /\ e[1] - e[1] = 0
      BY <1>1
    <3> QED
      BY <2>1, <3>1
  <2>2. CASE deepest # 0
    <3>1. PICK p \in 1 .. n + 1 : deepest = fall[p]
      BY <1>6, <2>2
    <3> QED
      BY <1>3, <3>1
  <2> QED
    BY <2>1, <2>2
<1>9. ASSUME NEW p \in 1 .. n + 1, NEW q \in 1 .. p PROVE e[p] = equity[p].equity /\ e[q] = equity[q].equity
  BY DEF e
<1> QED
  BY <1>6, <1>7, <1>8, <1>9 DEF deepest

-----------------------------------------------------------------------------
(* For every ledger, its equity and drawdown curves, months, directions    *)
(* and removal curve agree with its metrics: packages/metrics.             *)
THEOREM LedgerFiguresAddUp ==
  ASSUME NEW trades, IsLedger(trades), NEW capital \in Int
  PROVE  FiguresAddUp(trades, capital)
<1> DEFINE equity == reconstructEquityCurve(trades, capital)
           closed == closedInOrder(trades, DOMAIN trades)
           n == Cardinality(ClosedOf(trades, DOMAIN trades))
           g == pnlOf(closed)
           m == calculateCoreMetrics(trades)
           deepest == computeDrawdownCurve(equity).maxDrawdown
<1>1. /\ n \in Nat /\ Len(equity) = n + 1 /\ DOMAIN equity = 1 .. n + 1
      /\ \A p \in 1 .. n + 1 : equity[p].equity = capital + SumFunctionOnSet(g, 1 .. p - 1)
  BY CurveIs
<1>2. Whole(g, 1 .. n) /\ DOMAIN closed = 1 .. n
  BY ClosedProfits DEF Whole
<1>3. m.netProfit = SumFunctionOnSet(g, 1 .. n)
  BY FiguresOfPositions DEF calculateCoreMetrics
<1>4. m.grossLoss = -SumFunctionOnSet(g, {k \in 1 .. n : g[k] < 0})
  <2>1. m.grossLoss = -SumFunctionOnSet(g, {k \in DOMAIN closed : g[k] < 0})
    BY MetricsAre DEF calculateCoreMetrics
  <2> HIDE DEF closed, n, g, m
  <2> QED
    BY <1>2, <2>1
<1> HIDE DEF equity, closed, n, g, m
<1>5. SumFunctionOnSet(g, 1 .. 0) = 0
  <2>1. (1 .. 0) = {} /\ Whole(g, {})
    BY DEF Whole
  <2> QED
    BY <2>1, FS_EmptySet, SumFacts
<1>6. ASSUME NEW p \in 1 .. n + 1 PROVE SumFunctionOnSet(g, 1 .. p - 1) \in Int /\ equity[p].equity \in Int
  <2>1. p \in 1 .. p
    BY <1>1
  <2>2. SumFunctionOnSet(g, 1 .. p - 1) \in Int
    BY <1>1, <1>2, <2>1, FallIsOfLosses
  <2> QED
    BY <1>1, <2>2
<1>7. Last(equity).equity = capital + m.netProfit
  <2>1. n + 1 \in 1 .. n + 1 /\ (n + 1) - 1 = n
    BY <1>1
  <2>2. equity[n + 1].equity = capital + SumFunctionOnSet(g, 1 .. n)
    BY <1>1, <2>1
  <2> QED
    BY <1>1, <1>3, <2>2 DEF Last
<1>8. /\ deepest \in Nat
      /\ \A p \in 1 .. n + 1 : \A q \in 1 .. p : equity[q].equity - equity[p].equity <= deepest
      /\ \E p \in 1 .. n + 1 : \E q \in 1 .. p : deepest = equity[q].equity - equity[p].equity
  BY <1>1, <1>6, DrawdownOf
<1> HIDE DEF deepest
<1>9. deepest <= m.grossLoss
  <2>1. PICK p \in 1 .. n + 1 : \E q \in 1 .. p : deepest = equity[q].equity - equity[p].equity
    BY <1>8
  <2>2. PICK q \in 1 .. p : deepest = equity[q].equity - equity[p].equity
    BY <2>1
  <2>3. q \in 1 .. n + 1
    BY <1>1
  <2>4. deepest = SumFunctionOnSet(g, 1 .. q - 1) - SumFunctionOnSet(g, 1 .. p - 1)
    BY <1>1, <1>6, <2>2, <2>3
  <2>5. SumFunctionOnSet(g, 1 .. q - 1) - SumFunctionOnSet(g, 1 .. p - 1)
           <= -SumFunctionOnSet(g, {k \in 1 .. n : g[k] < 0})
    BY <1>1, <1>2, FallIsOfLosses
  <2> QED
    BY <1>4, <2>4, <2>5
<1>10. deepest >= capital - Last(equity).equity
  <2>1. 1 \in 1 .. n + 1 /\ n + 1 \in 1 .. n + 1 /\ 1 \in 1 .. n + 1 /\ 1 - 1 = 0
    BY <1>1
  <2>2. equity[1].equity = capital
    BY <1>1, <1>5, <2>1
  <2>3. equity[1].equity - equity[n + 1].equity <= deepest
    BY <1>8, <2>1
  <2>4. deepest \in Int /\ equity[n + 1].equity \in Int
    BY <1>6, <1>8, <2>1
  <2> QED
    BY <1>1, <2>2, <2>3, <2>4 DEF Last
<1>11. /\ SumFunction(m.monthlyReturns) = m.netProfit
       /\ m.longestLosingStreak <= m.losingTrades
  BY MonthsAddUp, StreakIsOfLosers DEF m
<1> QED
  BY <1>7, <1>9, <1>10, <1>11, SidesAddUp, RemovalAddsUp
     DEF FiguresAddUp, FiguresAgree, m, equity, deepest

(* The greatest drawdown of a ledger is the deepest fall of its equity     *)
(* from a point to a later one, and some pair of points has it:            *)
(* computeDrawdownCurve over reconstructEquityCurve.                       *)
THEOREM DrawdownIsDeepestFall ==
  ASSUME NEW trades, IsLedger(trades), NEW capital \in Int
  PROVE  LET equity == reconstructEquityCurve(trades, capital)
             falls == {equity[q[1]].equity - equity[q[2]].equity :
                          q \in {r \in (DOMAIN equity) \X (DOMAIN equity) : r[1] <= r[2]}}
             deepest == computeDrawdownCurve(equity).maxDrawdown
         IN  deepest \in falls /\ \A fall \in falls : fall <= deepest
<1> DEFINE equity == reconstructEquityCurve(trades, capital)
           closed == closedInOrder(trades, DOMAIN trades)
           n == Cardinality(ClosedOf(trades, DOMAIN trades))
           g == pnlOf(closed)
           deepest == computeDrawdownCurve(equity).maxDrawdown
<1>1. /\ n \in Nat /\ DOMAIN equity = 1 .. n + 1
      /\ \A p \in 1 .. n + 1 : equity[p].equity = capital + SumFunctionOnSet(g, 1 .. p - 1)
  BY CurveIs
<1>2. Whole(g, 1 .. n)
  BY ClosedProfits DEF Whole
<1> HIDE DEF equity, n, g
<1>3. ASSUME NEW p \in 1 .. n + 1 PROVE equity[p].equity \in Int
  <2>1. p \in 1 .. p
    BY <1>1
  <2>2. SumFunctionOnSet(g, 1 .. p - 1) \in Int
    BY <1>1, <1>2, <2>1, FallIsOfLosses
  <2> QED
    BY <1>1, <2>2
<1>4. /\ \A p \in 1 .. n + 1 : \A q \in 1 .. p : equity[q].equity - equity[p].equity <= deepest
      /\ \E p \in 1 .. n + 1 : \E q \in 1 .. p : deepest = equity[q].equity - equity[p].equity
  BY <1>1, <1>3, DrawdownOf
<1> HIDE DEF deepest
<1>5. ASSUME NEW r \in (DOMAIN equity) \X (DOMAIN equity), r[1] <= r[2]
      PROVE  equity[r[1]].equity - equity[r[2]].equity <= deepest
  <2>1. r[2] \in 1 .. n + 1 /\ r[1] \in 1 .. r[2]
    BY <1>1, <1>5
  <2> QED
    BY <1>4, <2>1
<1>6. \E r \in (DOMAIN equity) \X (DOMAIN equity) :
         r[1] <= r[2] /\ deepest = equity[r[1]].equity - equity[r[2]].equity
  <2>1. PICK p \in 1 .. n + 1 : \E q \in 1 .. p : deepest = equity[q].equity - equity[p].equity
    BY <1>4
  <2>2. PICK q \in 1 .. p : deepest = equity[q].equity - equity[p].equity
    BY <2>1
  <2>3. <<q, p>> \in (DOMAIN equity) \X (DOMAIN equity) /\ q <= p
    BY <1>1
  <2> QED
    BY <2>2, <2>3
<1> QED
  BY <1>5, <1>6 DEF equity, deepest

(* After the starting point the equity curve goes from exit to exit        *)
(* without going back in time, however the ledger was ordered:             *)
(* reconstructEquityCurve sorts by exit time.                              *)
THEOREM CurveIsChronological ==
  ASSUME NEW trades, IsLedger(trades), NEW capital \in Int
  PROVE  LET equity == reconstructEquityCurve(trades, capital)
         IN  \A p, q \in DOMAIN equity : 1 < p /\ p < q => equity[p].time <= equity[q].time
<1> DEFINE equity == reconstructEquityCurve(trades, capital)
           closed == closedInOrder(trades, DOMAIN trades)
           n == Cardinality(ClosedOf(trades, DOMAIN trades))
<1>1. /\ n \in Nat /\ Len(closed) = n
      /\ \A p, q \in 1 .. n : p < q => closed[p].exitTime <= closed[q].exitTime
  BY ClosedProfits
<1>2. DOMAIN equity = 1 .. n + 1
  BY CurveIs
<1>3. \A p \in 1 .. Len(closed) + 1 : p > 1 => equity[p].time = closed[p - 1].exitTime
  BY DEF reconstructEquityCurve
<1> HIDE DEF equity, closed, n
<1>4. ASSUME NEW p \in 1 .. n + 1, NEW q \in 1 .. n + 1, 1 < p, p < q PROVE equity[p].time <= equity[q].time
  <2>1. p - 1 \in 1 .. n /\ q - 1 \in 1 .. n /\ p - 1 < q - 1 /\ q > 1
    BY <1>1, <1>4
  <2> QED
    BY <1>1, <1>3, <1>4, <2>1
<1> QED
  BY <1>2, <1>4 DEF equity
=============================================================================
