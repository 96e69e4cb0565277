---------------------------- MODULE Lists_proofs ----------------------------
(***************************************************************************)
(* Laws of totals (module Sums) and of lists (module Lists): what changes  *)
(* when one summand changes or joins, and what sorting, filtering and adding*)
(* up a list keep.                                                         *)
(***************************************************************************)
EXTENDS Lists, SequenceTheorems, FiniteSetTheorems, TLAPS

(* The element that the fold takes out of a set first.                     *)
First(s) == CHOOSE x \in s : TRUE

(* g adds up f on every part of S, as the fold does.                       *)
Adds(g, f, S) ==
    g = [s \in SUBSET S |-> IF s = {} THEN 0 ELSE f[First(s)] + g[s \ {First(s)}]]

(* A nonempty family of parts of a finite set has a minimal member.        *)
LEMMA Minimal ==
    ASSUME NEW S, IsFiniteSet(S), NEW F, F \subseteq SUBSET S, F # {}
    PROVE  \E T \in F : \A U \in F : U \subseteq T => U = T
<1> DEFINE R == StrictSubsetOrdering(S)
<1>1. IsWellFoundedOn(R, SUBSET S)
  BY FS_StrictSubsetOrderingWellFounded, FS_FiniteSubsetsOfFinite
<1>2. \A U, T \in SUBSET S : U \subseteq T /\ U # T => <<U, T>> \in R
  BY DEF StrictSubsetOrdering
<1> HIDE DEF R
<1>3. PICK T \in F : \A U \in F : ~(<<U, T>> \in R)
  BY <1>1, WFMin
<1> QED
  BY <1>2, <1>3

(* The fold is the recursive function it declares.                         *)
LEMMA SumUnfolds ==
    ASSUME NEW f, NEW S
    PROVE  SumOver(f, S) = (CHOOSE g : Adds(g, f, S))[S]
BY DEF SumOver, MapThenSumSet, MapThenFoldSet, Adds, First

(* Two functions that add up f agree on every finite set both know.        *)
LEMMA SumsAgree ==
    ASSUME NEW f, NEW S, NEW T, NEW g, NEW h, Adds(g, f, S), Adds(h, f, T),
           NEW r, r \subseteq S, r \subseteq T, IsFiniteSet(r)
    PROVE  g[r] = h[r]
<1> DEFINE F == {s \in SUBSET r : g[s] # h[s]}
<1>1. SUFFICES ASSUME F # {}
               PROVE  FALSE
  OBVIOUS
<1>2. PICK s \in F : \A u \in F : u \subseteq s => u = s
  <2>1. F \subseteq SUBSET r
    OBVIOUS
  <2> HIDE DEF F
  <2> QED
    BY <1>1, <2>1, Minimal
<1>3. s \in SUBSET S /\ s \in SUBSET T
  OBVIOUS
<1>4. /\ g[s] = IF s = {} THEN 0 ELSE f[First(s)] + g[s \ {First(s)}]
      /\ h[s] = IF s = {} THEN 0 ELSE f[First(s)] + h[s \ {First(s)}]
  BY <1>3 DEF Adds
<1>5. s # {}
  BY <1>4
<1>6. First(s) \in s
  BY <1>5 DEF First
<1>7. g[s \ {First(s)}] = h[s \ {First(s)}]
  <2>1. s \ {First(s)} \in SUBSET r
    OBVIOUS
  <2>2. s \ {First(s)} \notin F
    BY <1>2, <1>6
  <2> QED
    BY <2>1, <2>2
<1> QED
  BY <1>4, <1>5, <1>7

(* The function the fold declares exists: on every part of a finite set    *)
(* the sums of the smaller parts determine it.                             *)
LEMMA SumsExist ==
    ASSUME NEW f, NEW S, IsFiniteSet(S)
    PROVE  \E g : Adds(g, f, S)
<1> DEFINE F == {T \in SUBSET S : ~\E g : Adds(g, f, T)}
<1>1. SUFFICES ASSUME F # {}
               PROVE  FALSE
  OBVIOUS
<1>2. PICK T \in F : \A U \in F : U \subseteq T => U = T
  <2>1. F \subseteq SUBSET S
    OBVIOUS
  <2> HIDE DEF F
  <2> QED
    BY <1>1, <2>1, Minimal
<1>3. \A U \in SUBSET T : U # T => \E g : Adds(g, f, U)
  BY <1>2
<1> DEFINE V(U) == (CHOOSE g : Adds(g, f, U))[U]
           G == [s \in SUBSET T |-> IF s = {} THEN 0
                                    ELSE f[First(s)] + V(s \ {First(s)})]
<1>4. ASSUME NEW U \in SUBSET T, U # T
      PROVE  G[U] = V(U)
  <2> DEFINE g == CHOOSE g : Adds(g, f, U)
  <2>1. Adds(g, f, U)
    BY <1>3, <1>4
  <2>2. g[U] = IF U = {} THEN 0 ELSE f[First(U)] + g[U \ {First(U)}]
    <3> HIDE DEF g
    <3>1. U \in SUBSET U
      OBVIOUS
    <3> QED
      BY <2>1, <3>1 DEF Adds
  <2>3. ASSUME U # {}
        PROVE  g[U \ {First(U)}] = V(U \ {First(U)})
    <3> DEFINE W == U \ {First(U)}
               h == CHOOSE h : Adds(h, f, W)
    <3>1. First(U) \in U
      BY <2>3 DEF First
    <3>2. W \in SUBSET T /\ W # T /\ W \subseteq U /\ W \subseteq W
      BY <3>1
    <3>3. Adds(h, f, W)
      BY <1>3, <3>2
    <3>4. IsFiniteSet(W)
      BY FS_Subset
    <3> HIDE DEF g, h, W
    <3>5. g[W] = h[W]
      BY <2>1, <3>2, <3>3, <3>4, SumsAgree
    <3> QED
      BY <3>5 DEF h, W
  <2>4. G[U] = IF U = {} THEN 0 ELSE f[First(U)] + V(U \ {First(U)})
    OBVIOUS
  <2>5. V(U) = g[U]
    OBVIOUS
  <2> HIDE DEF G, V, g
  <2> QED
    BY <2>2, <2>3, <2>4, <2>5
<1>5. Adds(G, f, T)
  <2>1. ASSUME NEW s \in SUBSET T, s # {}
        PROVE  G[s \ {First(s)}] = V(s \ {First(s)})
    <3>1. First(s) \in s
      BY <2>1 DEF First
    <3>2. s \ {First(s)} \in SUBSET T /\ s \ {First(s)} # T
      BY <3>1
    <3> HIDE DEF G, V
    <3> QED
      BY <3>2, <1>4
  <2> DEFINE H == [s \in SUBSET T |-> IF s = {} THEN 0
                                      ELSE f[First(s)] + G[s \ {First(s)}]]
  <2>2. \A s \in SUBSET T : G[s] = H[s]
    <3>1. \A s \in SUBSET T :
             /\ G[s] = IF s = {} THEN 0 ELSE f[First(s)] + V(s \ {First(s)})
             /\ H[s] = IF s = {} THEN 0 ELSE f[First(s)] + G[s \ {First(s)}]
      OBVIOUS
    <3> HIDE DEF G, H, V
    <3> QED
      BY <2>1, <3>1
  <2>3. G = H
    <3>1. /\ DOMAIN G = SUBSET T /\ DOMAIN H = SUBSET T
          /\ G = [s \in DOMAIN G |-> G[s]] /\ H = [s \in DOMAIN H |-> H[s]]
      OBVIOUS
    <3> HIDE DEF G, H
    <3> QED
      BY <2>2, <3>1
  <2> QED
    BY <2>3 DEF Adds
<1>6. \E g : Adds(g, f, T)
  <2> HIDE DEF G
  <2> QED
    BY <1>5
<1> QED
  BY <1>2, <1>6

(* What the fold of the community modules computes, one element at a time. *)
LEMMA SumStep ==
    ASSUME NEW f, NEW S, IsFiniteSet(S)
    PROVE  SumOver(f, S) = IF S = {} THEN 0
                           ELSE f[First(S)] + SumOver(f, S \ {First(S)})
<1> DEFINE g == CHOOSE g : Adds(g, f, S)
           T == S \ {First(S)}
           h == CHOOSE h : Adds(h, f, T)
<1>1. Adds(g, f, S)
  BY SumsExist
<1>2. IsFiniteSet(T) /\ T \subseteq S /\ T \subseteq T /\ S \in SUBSET S
  BY FS_Subset
<1>3. Adds(h, f, T)
  <2> HIDE DEF T
  <2> QED
    BY <1>2, SumsExist
<1>4. SumOver(f, S) = g[S] /\ SumOver(f, T) = h[T]
  BY SumUnfolds
<1> HIDE DEF g, h
<1>5. g[T] = h[T]
  <2> HIDE DEF T
  <2> QED
    BY <1>1, <1>2, <1>3, SumsAgree
<1>6. g[S] = IF S = {} THEN 0 ELSE f[First(S)] + g[T]
  BY <1>1, <1>2 DEF Adds
<1> QED
  BY <1>4, <1>5, <1>6
-----------------------------------------------------------------------------
(* Nothing adds up to zero.                                                *)
LEMMA SumEmpty ==
    ASSUME NEW f
    PROVE  SumOver(f, {}) = 0
BY SumStep, FS_EmptySet

(* A sum of integers is an integer.                                        *)
LEMMA SumType ==
    ASSUME NEW f, NEW S, IsFiniteSet(S), \A x \in S : f[x] \in Int
    PROVE  SumOver(f, S) \in Int
<1> DEFINE F == {s \in SUBSET S : SumOver(f, s) \notin Int}
<1>1. SUFFICES ASSUME F # {}
               PROVE  FALSE
  OBVIOUS
<1>2. PICK s \in F : \A u \in F : u \subseteq s => u = s
  <2>1. F \subseteq SUBSET S
    OBVIOUS
  <2> HIDE DEF F
  <2> QED
    BY <1>1, <2>1, Minimal
<1>3. s \subseteq S /\ IsFiniteSet(s)
  BY FS_Subset
<1>4. s # {}
  BY SumEmpty
<1>5. First(s) \in s
  BY <1>4 DEF First
<1>6. SumOver(f, s \ {First(s)}) \in Int
  BY <1>2, <1>5
<1>7. SumOver(f, s) = f[First(s)] + SumOver(f, s \ {First(s)})
  BY <1>3, <1>4, SumStep
<1> QED
  BY <1>3, <1>5, <1>6, <1>7

(* Any element can be taken out of a sum, not only the one the fold meets  *)
(* first.                                                                  *)
LEMMA SumSplit ==
    ASSUME NEW f, NEW S, IsFiniteSet(S), \A x \in S : f[x] \in Int,
           NEW z \in S
    PROVE  SumOver(f, S) = f[z] + SumOver(f, S \ {z})
<1> DEFINE F == {s \in SUBSET S : \E x \in s : SumOver(f, s) # f[x] + SumOver(f, s \ {x})}
<1>1. SUFFICES ASSUME F # {}
               PROVE  FALSE
  BY FS_Subset
<1>2. PICK s \in F : \A u \in F : u \subseteq s => u = s
  <2>1. F \subseteq SUBSET S
    OBVIOUS
  <2> HIDE DEF F
  <2> QED
    BY <1>1, <2>1, Minimal
<1>3. PICK x \in s : SumOver(f, s) # f[x] + SumOver(f, s \ {x})
  OBVIOUS
<1> DEFINE y == First(s)
<1>4. s \subseteq S /\ IsFiniteSet(s)
  BY FS_Subset
<1>5. y \in s
  BY <1>3 DEF First
<1>6. SumOver(f, s) = f[y] + SumOver(f, s \ {y})
  BY <1>3, <1>4, SumStep
<1> HIDE DEF y
<1>7. x # y
  BY <1>3, <1>6
<1>8. \A u \in SUBSET s : u # s => \A w \in u : SumOver(f, u) = f[w] + SumOver(f, u \ {w})
  BY <1>2, <1>4
<1>9. SumOver(f, s \ {y}) = f[x] + SumOver(f, (s \ {y}) \ {x})
  BY <1>5, <1>7, <1>8
<1>10. SumOver(f, s \ {x}) = f[y] + SumOver(f, (s \ {x}) \ {y})
  BY <1>5, <1>7, <1>8
<1>11. (s \ {y}) \ {x} = (s \ {x}) \ {y}
  OBVIOUS
<1> DEFINE rest == SumOver(f, (s \ {x}) \ {y})
<1>12. f[x] \in Int /\ f[y] \in Int /\ rest \in Int
  <2>1. IsFiniteSet((s \ {x}) \ {y}) /\ (s \ {x}) \ {y} \subseteq S
    BY <1>4, FS_Subset
  <2> QED
    BY <2>1, <1>4, <1>5, SumType
<1>13. /\ SumOver(f, s) = f[y] + (f[x] + rest)
       /\ SumOver(f, s \ {x}) = f[y] + rest
  BY <1>6, <1>9, <1>10, <1>11
<1> HIDE DEF rest
<1> QED
  BY <1>3, <1>12, <1>13

(* A new element adds its value.                                           *)
LEMMA SumAdded ==
    ASSUME NEW f, NEW S, IsFiniteSet(S), NEW z, z \notin S,
           \A x \in S \union {z} : f[x] \in Int
    PROVE  SumOver(f, S \union {z}) = SumOver(f, S) + f[z]
<1>1. IsFiniteSet(S \union {z})
  BY FS_AddElement
<1>2. (S \union {z}) \ {z} = S /\ z \in S \union {z}
  OBVIOUS
<1>3. SumOver(f, S \union {z}) = f[z] + SumOver(f, (S \union {z}) \ {z})
  BY <1>1, <1>2, SumSplit
<1>4. SumOver(f, S \union {z}) = f[z] + SumOver(f, S)
  BY <1>2, <1>3
<1>5. SumOver(f, S) \in Int /\ f[z] \in Int
  BY <1>2, SumType
<1> QED
  BY <1>4, <1>5

(* A sum depends on the values it adds up and on nothing else.             *)
LEMMA SumSame ==
    ASSUME NEW f, NEW g, NEW S, IsFiniteSet(S), \A x \in S : f[x] = g[x]
    PROVE  SumOver(f, S) = SumOver(g, S)
<1> DEFINE F == {s \in SUBSET S : SumOver(f, s) # SumOver(g, s)}
<1>1. SUFFICES ASSUME F # {}
               PROVE  FALSE
  OBVIOUS
<1>2. PICK s \in F : \A u \in F : u \subseteq s => u = s
  <2>1. F \subseteq SUBSET S
    OBVIOUS
  <2> HIDE DEF F
  <2> QED
    BY <1>1, <2>1, Minimal
<1>3. s \subseteq S /\ IsFiniteSet(s)
  BY FS_Subset
<1>4. s # {}
  BY SumEmpty
<1>5. First(s) \in s
  BY <1>4 DEF First
<1>6. SumOver(f, s \ {First(s)}) = SumOver(g, s \ {First(s)})
  BY <1>2, <1>5
<1>7. /\ SumOver(f, s) = f[First(s)] + SumOver(f, s \ {First(s)})
      /\ SumOver(g, s) = g[First(s)] + SumOver(g, s \ {First(s)})
  BY <1>3, <1>4, SumStep
<1> QED
  BY <1>3, <1>5, <1>6, <1>7

(* Changing one value changes the sum by as much.                          *)
LEMMA SumUpdated ==
    ASSUME NEW f, NEW S, IsFiniteSet(S), NEW z \in S, NEW v \in Int,
           \A x \in S : f[x] \in Int, S \subseteq DOMAIN f
    PROVE  SumOver([f EXCEPT ![z] = v], S) = SumOver(f, S) - f[z] + v
<1> DEFINE g == [f EXCEPT ![z] = v]
           T == S \ {z}
<1>1. IsFiniteSet(T)
  BY FS_Subset
<1>2. g[z] = v /\ (\A x \in T : f[x] = g[x]) /\ \A x \in S : g[x] \in Int
  OBVIOUS
<1> HIDE DEF g
<1>3. SumOver(f, T) = SumOver(g, T)
  <2> HIDE DEF T
  <2> QED
    BY <1>1, <1>2, SumSame
<1>4. SumOver(f, S) = f[z] + SumOver(f, T)
  BY SumSplit
<1>5. SumOver(g, S) = g[z] + SumOver(g, T)
  BY <1>2, SumSplit
<1>6. SumOver(f, T) \in Int /\ f[z] \in Int
  BY <1>1, SumType
<1>7. SumOver(g, S) = SumOver(f, S) - f[z] + v
  <2> HIDE DEF T
  <2> QED
    BY <1>2, <1>3, <1>4, <1>5, <1>6
<1> QED
  BY <1>7 DEF g

(* The sum over two disjoint parts is the sum of their sums.               *)
LEMMA SumUnion ==
    ASSUME NEW f, NEW S, IsFiniteSet(S), NEW T, IsFiniteSet(T), S \cap T = {},
           \A x \in S \union T : f[x] \in Int
    PROVE  SumOver(f, S \union T) = SumOver(f, S) + SumOver(f, T)
<1> DEFINE F == {t \in SUBSET T : SumOver(f, S \union t) # SumOver(f, S) + SumOver(f, t)}
<1>1. SUFFICES ASSUME F # {}
               PROVE  FALSE
  OBVIOUS
<1>2. PICK t \in F : \A u \in F : u \subseteq t => u = t
  <2>1. F \subseteq SUBSET T
    OBVIOUS
  <2> HIDE DEF F
  <2> QED
    BY <1>1, <2>1, Minimal
<1>3. SumOver(f, S) \in Int
  BY SumType
<1>4. t # {}
  <2>1. S \union {} = S /\ SumOver(f, {}) = 0
    BY SumEmpty
  <2>2. SumOver(f, S \union {}) = SumOver(f, S) + SumOver(f, {})
    BY <1>3, <2>1
  <2>3. t \in F
    OBVIOUS
  <2> QED
    BY <2>2, <2>3
<1>5. PICK x \in t : TRUE
  BY <1>4
<1> DEFINE u == t \ {x}
<1>6. /\ t \subseteq T /\ IsFiniteSet(t) /\ IsFiniteSet(u) /\ IsFiniteSet(S \union t)
      /\ (S \union t) \ {x} = S \union u
  BY FS_Subset, FS_Union
<1>7. SumOver(f, S \union u) = SumOver(f, S) + SumOver(f, u)
  BY <1>2
<1>8. SumOver(f, S \union t) = f[x] + SumOver(f, S \union u)
  BY <1>6, SumSplit
<1>9. SumOver(f, t) = f[x] + SumOver(f, u)
  BY <1>6, SumSplit
<1>10. f[x] \in Int /\ SumOver(f, u) \in Int
  BY <1>6, SumType
<1> HIDE DEF u
<1> QED
  BY <1>2, <1>3, <1>7, <1>8, <1>9, <1>10

(* A sum of natural numbers is one, and holds each of them.                *)
LEMMA SumNat ==
    ASSUME NEW f, NEW S, IsFiniteSet(S), \A x \in S : f[x] \in Nat
    PROVE  SumOver(f, S) \in Nat
<1> DEFINE F == {s \in SUBSET S : SumOver(f, s) \notin Nat}
<1>1. SUFFICES ASSUME F # {}
               PROVE  FALSE
  OBVIOUS
<1>2. PICK s \in F : \A u \in F : u \subseteq s => u = s
  <2>1. F \subseteq SUBSET S
    OBVIOUS
  <2> HIDE DEF F
  <2> QED
    BY <1>1, <2>1, Minimal
<1>3. s \subseteq S /\ IsFiniteSet(s)
  BY FS_Subset
<1>4. s # {}
  BY SumEmpty
<1>5. First(s) \in s
  BY <1>4 DEF First
<1>6. SumOver(f, s \ {First(s)}) \in Nat
  BY <1>2, <1>5
<1>7. SumOver(f, s) = f[First(s)] + SumOver(f, s \ {First(s)})
  BY <1>3, <1>4, SumStep
<1> QED
  BY <1>3, <1>5, <1>6, <1>7

(* Greater values add up to a greater sum.                                 *)
LEMMA SumMonotone ==
    ASSUME NEW f, NEW g, NEW S, IsFiniteSet(S),
           \A x \in S : f[x] \in Int /\ g[x] \in Int /\ f[x] <= g[x]
    PROVE  SumOver(f, S) <= SumOver(g, S)
<1> DEFINE F == {s \in SUBSET S : ~(SumOver(f, s) <= SumOver(g, s))}
<1>1. SUFFICES ASSUME F # {}
               PROVE  FALSE
  OBVIOUS
<1>2. PICK s \in F : \A u \in F : u \subseteq s => u = s
  <2>1. F \subseteq SUBSET S
    OBVIOUS
  <2> HIDE DEF F
  <2> QED
    BY <1>1, <2>1, Minimal
<1>3. s \subseteq S /\ IsFiniteSet(s)
  BY FS_Subset
<1>4. s # {}
  BY SumEmpty
<1>5. First(s) \in s
  BY <1>4 DEF First
<1> DEFINE u == s \ {First(s)}
<1>6. SumOver(f, u) <= SumOver(g, u)
  BY <1>2, <1>5
<1>7. /\ SumOver(f, s) = f[First(s)] + SumOver(f, u)
      /\ SumOver(g, s) = g[First(s)] + SumOver(g, u)
  BY <1>3, <1>4, SumStep
<1>8. SumOver(f, u) \in Int /\ SumOver(g, u) \in Int
  <2>1. IsFiniteSet(u) /\ u \subseteq S
    BY <1>3, FS_Subset
  <2> HIDE DEF u
  <2> QED
    BY <2>1, SumType
<1>9. f[First(s)] \in Int /\ g[First(s)] \in Int /\ f[First(s)] <= g[First(s)]
  BY <1>3, <1>5
<1>10. ~(SumOver(f, s) <= SumOver(g, s))
  OBVIOUS
<1> HIDE DEF u
<1> QED
  BY <1>6, <1>7, <1>8, <1>9, <1>10

-----------------------------------------------------------------------------
(* Positions.                                                              *)

(* A nonempty finite set of integers has a largest member.                 *)
LEMMA Largest ==
    ASSUME NEW S, IsFiniteSet(S), \A x \in S : x \in Int, S # {}
    PROVE  \E x \in S : \A y \in S : y <= x
<1> DEFINE F == {U \in SUBSET S : U # {} /\ ~\E x \in U : \A y \in U : y <= x}
<1>1. SUFFICES ASSUME F # {}
               PROVE  FALSE
  BY DEF F
<1>2. PICK U \in F : \A V \in F : V \subseteq U => V = U
  <2>1. F \subseteq SUBSET S
    OBVIOUS
  <2> HIDE DEF F
  <2> QED
    BY <1>1, <2>1, Minimal
<1>3. PICK y \in U : TRUE
  OBVIOUS
<1>4. U \ {y} # {}
  <2>1. ASSUME U \ {y} = {}
        PROVE  FALSE
    <3>1. \A z \in U : z <= y
      BY <2>1, <1>3
    <3> QED
      BY <3>1, <1>3
  <2> QED
    BY <2>1
<1>5. PICK x \in U \ {y} : \A z \in U \ {y} : z <= x
  <2>1. U \ {y} \in SUBSET S /\ U \ {y} # U /\ U \ {y} \subseteq U
    BY <1>3
  <2> QED
    BY <2>1, <1>2, <1>4
<1>6. x \in Int /\ y \in Int
  OBVIOUS
<1>7. CASE x <= y
  <2>1. \A z \in U : z <= y
    BY <1>5, <1>6, <1>7
  <2> QED
    BY <2>1, <1>3
<1>8. CASE y <= x
  <2>1. \A z \in U : z <= x
    BY <1>5, <1>6, <1>8
  <2> QED
    BY <2>1
<1> QED
  BY <1>6, <1>7, <1>8

(* A set of positions that is not empty has a first one.                   *)
LEMMA FirstPosition ==
    ASSUME NEW m \in Int, NEW n \in Int, NEW S, \A x \in S : x \in m .. n, S # {}
    PROVE  \E x \in S : \A y \in S : x <= y
<1> DEFINE M == {0 - x : x \in S}
<1>1. \A z \in M : z \in 0 - n .. 0 - m
  BY DEF M
<1>2. M # {} /\ \A x \in S : 0 - x \in M
  OBVIOUS
<1>3. \A z \in M : \E x \in S : z = 0 - x
  OBVIOUS
<1> HIDE DEF M
<1>4. IsFiniteSet(M)
  <2>1. PICK l \in Int, u \in Int : l = 0 - n /\ u = 0 - m
    OBVIOUS
  <2>2. IsFiniteSet(l .. u)
    BY FS_Interval
  <2>3. M \subseteq l .. u
    BY <1>1, <2>1
  <2> QED
    BY <2>2, <2>3, FS_Subset
<1>5. \A z \in M : z \in Int
  BY <1>1
<1>6. PICK z \in M : \A w \in M : w <= z
  BY <1>2, <1>4, <1>5, Largest
<1>7. PICK x \in S : z = 0 - x
  BY <1>3
<1>8. \A y \in S : x <= y
  BY <1>2, <1>6, <1>7
<1> QED
  BY <1>8

(* Induction along 0 .. n: what holds at 0 and passes from each position    *)
(* to the next holds up to n.                                              *)
LEMMA Upto ==
    ASSUME NEW n \in Nat, NEW P, 0 \in P,
           \A k \in 1 .. n : k - 1 \in P => k \in P
    PROVE  \A k \in 0 .. n : k \in P
<1> DEFINE S == {k \in 1 .. n : k \notin P}
<1>1. SUFFICES ASSUME S # {}
               PROVE  FALSE
  <2>1. \A k \in 0 .. n : k = 0 \/ k \in 1 .. n
    OBVIOUS
  <2> QED
    BY <2>1
<1>2. \A x \in S : x \in 1 .. n
  OBVIOUS
<1>3. PICK k \in S : \A y \in S : k <= y
  <2>1. 1 \in Int /\ n \in Int
    OBVIOUS
  <2> HIDE DEF S
  <2> QED
    BY ONLY <1>1, <1>2, <2>1, FirstPosition
<1>4. k \in 1 .. n /\ k \notin P
  OBVIOUS
<1>5. k - 1 \in P
  <2>1. CASE k = 1
    BY <2>1
  <2>2. CASE k # 1
    <3>1. k - 1 \in 1 .. n /\ ~(k <= k - 1)
      BY <1>4, <2>2
    <3> QED
      BY <1>3, <3>1
  <2> QED
    BY <2>1, <2>2
<1> QED
  BY <1>4, <1>5

-----------------------------------------------------------------------------
(* Sorting and filtering.                                                  *)

(* before gives every element of S its elements before it, in one line.    *)
Line(before, S) ==
    /\ \A x \in S : before[x] \subseteq S /\ x \notin before[x]
    /\ \A x, y \in S : x # y =>
          \/ x \in before[y] /\ before[x] \subseteq before[y]
          \/ y \in before[x] /\ before[y] \subseteq before[x]

(* In a finite set that stands in line, each number of earlier elements    *)
(* below its size is that of exactly one element.                          *)
LEMMA Ranked ==
    ASSUME NEW S, IsFiniteSet(S), NEW before, Line(before, S)
    PROVE  /\ Cardinality(S) \in Nat
           /\ \A x \in S : Cardinality(before[x]) \in 0 .. Cardinality(S) - 1
           /\ \A x, y \in S : Cardinality(before[x]) = Cardinality(before[y]) => x = y
           /\ \A k \in 0 .. Cardinality(S) - 1 : \E x \in S : Cardinality(before[x]) = k
<1> DEFINE n == Cardinality(S)
           rank == [x \in S |-> Cardinality(before[x])]
<1>1. n \in Nat
  BY FS_CardinalityType
<1>2. ASSUME NEW x \in S
      PROVE  before[x] \subseteq S /\ x \notin before[x]
  BY DEF Line
<1>3. ASSUME NEW x \in S, NEW y \in S, x # y
      PROVE  \/ x \in before[y] /\ before[x] \subseteq before[y]
             \/ y \in before[x] /\ before[y] \subseteq before[x]
  BY <1>3 DEF Line
<1>4. \A T, U : U \subseteq S /\ T \subseteq U /\ T # U =>
          Cardinality(T) \in Nat /\ Cardinality(U) \in Nat /\ Cardinality(T) < Cardinality(U)
  <2>1. SUFFICES ASSUME NEW T, NEW U, U \subseteq S, T \subseteq U, T # U
                 PROVE  Cardinality(T) \in Nat /\ Cardinality(U) \in Nat /\ Cardinality(T) < Cardinality(U)
    OBVIOUS
  <2>2. IsFiniteSet(U)
    BY <2>1, FS_Subset
  <2>3. IsFiniteSet(T) /\ Cardinality(T) <= Cardinality(U) /\ (Cardinality(U) = Cardinality(T) => U = T)
    BY <2>1, <2>2, FS_Subset
  <2>4. Cardinality(T) \in Nat /\ Cardinality(U) \in Nat
    BY <2>2, <2>3, FS_CardinalityType
  <2> QED
    BY <2>1, <2>3, <2>4
<1>5. ASSUME NEW x \in S
      PROVE  Cardinality(before[x]) \in 0 .. n - 1
  <2>1. before[x] \subseteq S /\ before[x] # S
    BY <1>2, <1>5
  <2> HIDE DEF n
  <2>2. Cardinality(before[x]) \in Nat /\ Cardinality(before[x]) < Cardinality(S)
    BY <1>4, <2>1
  <2> QED
    BY <1>1, <2>2 DEF n
<1>6. ASSUME NEW x \in S, NEW y \in S, Cardinality(before[x]) = Cardinality(before[y])
      PROVE  x = y
  <2>1. SUFFICES ASSUME x # y
                 PROVE  FALSE
    OBVIOUS
  <2>2. \A a, b \in S : a \in before[b] /\ before[a] \subseteq before[b]
            => Cardinality(before[a]) < Cardinality(before[b]) /\ Cardinality(before[a]) \in Nat
    <3>1. \A a, b \in S : a \in before[b] => before[a] # before[b]
      BY <1>2
    <3>2. \A b \in S : before[b] \subseteq S
      BY <1>2
    <3> QED
      BY <1>4, <3>1, <3>2
  <2>3. Cardinality(before[x]) \in Int
    BY <1>5
  <2>4. \/ x \in before[y] /\ before[x] \subseteq before[y]
        \/ y \in before[x] /\ before[y] \subseteq before[x]
    BY <1>3, <2>1
  <2> QED
    BY <1>6, <2>2, <2>3, <2>4
<1>7. ASSUME NEW k \in 0 .. n - 1
      PROVE  \E x \in S : Cardinality(before[x]) = k
  <2> DEFINE T == 0 .. n - 1
  <2>1. IsFiniteSet(T) /\ Cardinality(T) = n
    <3> DEFINE z == n - 1
    <3>1. z \in Int /\ 0 \in Int /\ z >= -1
      BY <1>1
    <3> HIDE DEF z
    <3>2. /\ IsFiniteSet(0 .. z)
          /\ Cardinality(0 .. z) = IF 0 > z THEN 0 ELSE z - 0 + 1
      BY ONLY <3>1, FS_Interval
    <3>3. Cardinality(0 .. z) = z + 1
      BY <3>1, <3>2
    <3> QED
      BY <1>1, <3>2, <3>3 DEF z
  <2> HIDE DEF T
  <2>2. rank \in [S -> T]
    <3>1. \A x \in S : Cardinality(before[x]) \in T
      BY <1>5 DEF T
    <3> QED
      BY <3>1
  <2>3. \A x, y \in S : rank[x] = rank[y] => x = y
    <3> QED
      BY <1>6
  <2>4. rank \in Injection(S, T)
    <3> HIDE DEF rank
    <3> QED
      BY <2>2, <2>3 DEF Injection, IsInjective
  <2>5. rank \in Surjection(S, T)
    <3> HIDE DEF rank
    <3>1. Cardinality(S) = Cardinality(T) <=> rank \in Surjection(S, T)
      BY <2>1, <2>4, FS_Injection
    <3> QED
      BY <2>1, <3>1
  <2>6. \E x \in S : rank[x] = k
    <3> HIDE DEF rank
    <3> QED
      BY <2>5 DEF Surjection, T
  <2> QED
    BY <2>6
<1> QED
  BY <1>1, <1>5, <1>6, <1>7

(* f lists each element of S once.                                         *)
Enumerates(f, n, S) ==
    /\ n \in Nat
    /\ f \in [1 .. n -> S]
    /\ \A i, j \in 1 .. n : f[i] = f[j] => i = j
    /\ \A x \in S : \E i \in 1 .. n : f[i] = x

(* by_rank lists a finite set that stands in line.                         *)
LEMMA ByRank ==
    ASSUME NEW S, IsFiniteSet(S), NEW before, Line(before, S)
    PROVE  Enumerates(by_rank(S, before), Cardinality(S), S)
<1> DEFINE f == by_rank(S, before)
<1>0. PICK n : n = Cardinality(S)
  OBVIOUS
<1>1. /\ n \in Nat
      /\ \A x \in S : Cardinality(before[x]) \in 0 .. n - 1
      /\ \A x, y \in S : Cardinality(before[x]) = Cardinality(before[y]) => x = y
      /\ \A k \in 0 .. n - 1 : \E x \in S : Cardinality(before[x]) = k
  BY <1>0, Ranked
<1>2. f = [r \in 1 .. n |-> CHOOSE x \in S : Cardinality(before[x]) = r - 1]
  BY <1>0 DEF by_rank
<1>3. ASSUME NEW r \in 1 .. n
      PROVE  f[r] \in S /\ Cardinality(before[f[r]]) = r - 1
  <2>1. r - 1 \in 0 .. n - 1
    BY <1>1
  <2>2. \E x \in S : Cardinality(before[x]) = r - 1
    BY <1>1, <2>1
  <2>3. f[r] = CHOOSE x \in S : Cardinality(before[x]) = r - 1
    BY <1>2
  <2> QED
    BY <2>2, <2>3
<1> HIDE DEF f
<1>4. f \in [1 .. n -> S]
  BY <1>2, <1>3
<1>5. ASSUME NEW i \in 1 .. n, NEW j \in 1 .. n, f[i] = f[j]
      PROVE  i = j
  <2>1. i - 1 = j - 1
    BY <1>3, <1>5
  <2> QED
    BY <2>1
<1>6. ASSUME NEW x \in S
      PROVE  \E i \in 1 .. n : f[i] = x
  <2>1. PICK k \in Int : k = Cardinality(before[x]) /\ k \in 0 .. n - 1
    BY <1>1
  <2>2. k + 1 \in 1 .. n /\ (k + 1) - 1 = k
    BY <1>1, <2>1
  <2>3. Cardinality(before[f[k + 1]]) = Cardinality(before[x]) /\ f[k + 1] \in S
    BY <1>3, <2>1, <2>2
  <2> QED
    BY <1>1, <2>2, <2>3
<1> QED
  BY <1>0, <1>1, <1>4, <1>5, <1>6 DEF Enumerates, f

(* Numbers stand in line by size.                                          *)
LEMMA BySize ==
    ASSUME NEW S, \A x \in S : x \in Int
    PROVE  Line([x \in S |-> {y \in S : y < x}], S)
<1> DEFINE b == [x \in S |-> {y \in S : y < x}]
<1>1. \A x \in S : b[x] = {y \in S : y < x}
  OBVIOUS
<1> HIDE DEF b
<1>2. ASSUME NEW x \in S, NEW y \in S, x < y
      PROVE  x \in b[y] /\ b[x] \subseteq b[y]
  BY <1>1, <1>2
<1>3. \A x \in S : b[x] \subseteq S /\ x \notin b[x]
  BY <1>1
<1>4. \A x, y \in S : x # y => x < y \/ y < x
  OBVIOUS
<1>5. Line(b, S)
  BY <1>2, <1>3, <1>4 DEF Line
<1> QED
  BY <1>5 DEF b

(* What keep keeps: the elements at the positions K, each once.            *)
LEMMA Kept ==
    ASSUME NEW X, NEW s \in Seq(X), NEW K, K \subseteq DOMAIN s
    PROVE  \E m, n : /\ Enumerates(m, n, K)
                     /\ keep(s, K) = [r \in 1 .. n |-> s[m[r]]]
                     /\ keep(s, K) \in Seq(X) /\ Len(keep(s, K)) = n
<1>1. PICK l \in Nat : DOMAIN s = 1 .. l
  <2>1. DOMAIN s = 1 .. Len(s) /\ Len(s) \in Nat
    OBVIOUS
  <2> QED
    BY <2>1
<1>2. IsFiniteSet(1 .. l)
  <2>1. 1 \in Int /\ l \in Int
    OBVIOUS
  <2> QED
    BY ONLY <2>1, FS_Interval
<1>3. IsFiniteSet(K) /\ \A k \in K : k \in Int
  <2>1. IsFiniteSet(K)
    BY <1>1, <1>2, FS_Subset
  <2> QED
    BY <1>1, <2>1
<1> DEFINE b == [k \in K |-> {j \in K : j < k}]
<1>4. Line(b, K)
  BY <1>3, BySize
<1> HIDE DEF b
<1>5. PICK m, n : m = by_rank(K, b) /\ n = Cardinality(K)
  OBVIOUS
<1>6. Enumerates(m, n, K)
  BY <1>3, <1>4, <1>5, ByRank
<1>7. DOMAIN m = 1 .. n /\ n \in Nat /\ \A r \in 1 .. n : m[r] \in DOMAIN s
  BY <1>6 DEF Enumerates
<1>8. keep(s, K) = [r \in 1 .. n |-> s[m[r]]]
  BY <1>5, <1>7 DEF keep, b
<1>9. \A r \in 1 .. n : s[m[r]] \in X
  BY <1>7
<1>10. [r \in 1 .. n |-> s[m[r]]] \in Seq(X) /\ Len([r \in 1 .. n |-> s[m[r]]]) = n
  BY <1>7, <1>9
<1> QED
  BY <1>6, <1>8, <1>10
-----------------------------------------------------------------------------
(* Totals along a list.                                                    *)

(* The positions up to n are those up to n - 1 and n.                      *)
LEMMA UpTo ==
    ASSUME NEW n \in Nat
    PROVE  /\ IsFiniteSet(1 .. n)
           /\ 1 .. (n + 1) = (1 .. n) \union {n + 1} /\ n + 1 \notin 1 .. n
<1>1. IsFiniteSet(1 .. n)
  <2>1. 1 \in Int /\ n \in Int
    OBVIOUS
  <2> QED
    BY ONLY <2>1, FS_Interval
<1> QED
  BY <1>1

(* One more value adds to a total.                                         *)
LEMMA SumNext ==
    ASSUME NEW n \in Nat, NEW f, \A k \in 1 .. (n + 1) : f[k] \in Int
    PROVE  /\ SumOver(f, 1 .. (n + 1)) = SumOver(f, 1 .. n) + f[n + 1]
           /\ SumOver(f, 1 .. n) \in Int
<1>1. /\ IsFiniteSet(1 .. n) /\ n + 1 \notin 1 .. n
      /\ 1 .. (n + 1) = (1 .. n) \union {n + 1}
  BY UpTo
<1>2. \A k \in (1 .. n) \union {n + 1} : f[k] \in Int
  BY <1>1
<1>3. SumOver(f, (1 .. n) \union {n + 1}) = SumOver(f, 1 .. n) + f[n + 1]
  <2>1. PICK z, S : z = n + 1 /\ S = 1 .. n
    OBVIOUS
  <2>2. IsFiniteSet(S) /\ z \notin S /\ \A x \in S \union {z} : f[x] \in Int
    BY <1>1, <1>2, <2>1
  <2>3. SumOver(f, S \union {z}) = SumOver(f, S) + f[z]
    BY ONLY <2>2, SumAdded
  <2> QED
    BY <2>1, <2>3
<1>4. SumOver(f, 1 .. n) \in Int
  BY <1>1, <1>2, SumType
<1> QED
  BY <1>1, <1>3, <1>4

(* h holds the n integers of f, and after them the m of g.                 *)
Joins(h, n, f, m, g) ==
    /\ \A k \in 1 .. n : f[k] \in Int /\ h[k] = f[k]
    /\ \A k \in 1 .. m : g[k] \in Int /\ h[n + k] = g[k]

(* The total of one list after another is the sum of their totals.         *)
LEMMA SumConcat ==
    ASSUME NEW n \in Nat, NEW m \in Nat, NEW f, NEW g, NEW h, Joins(h, n, f, m, g)
    PROVE  SumOver(h, 1 .. (n + m)) = SumOver(f, 1 .. n) + SumOver(g, 1 .. m)
<1>a. /\ \A k \in 1 .. n : f[k] \in Int
      /\ \A k \in 1 .. m : g[k] \in Int
      /\ \A k \in 1 .. n : h[k] = f[k]
      /\ \A k \in 1 .. m : h[n + k] = g[k]
  BY DEF Joins
<1> DEFINE P == {k \in 0 .. m : SumOver(h, 1 .. (n + k)) = SumOver(f, 1 .. n) + SumOver(g, 1 .. k)}
<1>0. SumOver(f, 1 .. n) \in Int
  BY <1>a, UpTo, SumType
<1>1. 0 \in P
  <2>1. SumOver(h, 1 .. n) = SumOver(f, 1 .. n)
    <3>1. IsFiniteSet(1 .. n) /\ \A k \in 1 .. n : h[k] = f[k]
      BY <1>a, UpTo
    <3> QED
      BY ONLY <3>1, SumSame
  <2>2. 1 .. 0 = {} /\ n + 0 = n
    OBVIOUS
  <2>3. SumOver(g, 1 .. 0) = 0
    BY <2>2, SumEmpty
  <2> QED
    BY <1>0, <2>1, <2>2, <2>3
<1>2. ASSUME NEW k \in 1 .. m, k - 1 \in P
      PROVE  k \in P
  <2>1. PICK j \in Nat, l \in Nat : /\ j = k - 1 /\ k = j + 1 /\ l = n + j /\ l + 1 = n + k
                                    /\ j + 1 \in 1 .. m
    <3>1. k - 1 \in Nat /\ n + (k - 1) \in Nat /\ k = (k - 1) + 1 /\ (n + (k - 1)) + 1 = n + k
      OBVIOUS
    <3> QED
      BY <3>1
  <2>2. SumOver(h, 1 .. l) = SumOver(f, 1 .. n) + SumOver(g, 1 .. j)
    BY <1>2, <2>1
  <2>3. \A i \in 1 .. (j + 1) : g[i] \in Int
    BY <1>a, <2>1
  <2>4. SumOver(g, 1 .. (j + 1)) = SumOver(g, 1 .. j) + g[j + 1] /\ SumOver(g, 1 .. j) \in Int
    BY ONLY <2>1, <2>3, SumNext
  <2>5. \A i \in 1 .. (l + 1) : h[i] \in Int
    <3>1. \A i \in 1 .. (l + 1) : i \in 1 .. n \/ (i - n \in 1 .. m /\ i = n + (i - n))
      BY <2>1
    <3> QED
      BY <1>a, <3>1
  <2>6. SumOver(h, 1 .. (l + 1)) = SumOver(h, 1 .. l) + h[l + 1]
    BY ONLY <2>1, <2>5, SumNext
  <2>7. h[l + 1] = g[j + 1] /\ g[j + 1] \in Int
    BY <1>a, <2>1
  <2>8. SumOver(h, 1 .. (l + 1)) = SumOver(f, 1 .. n) + SumOver(g, 1 .. (j + 1))
    BY ONLY <1>0, <2>2, <2>4, <2>6, <2>7
  <2> QED
    BY <2>1, <2>8
<1>3. \A k \in 0 .. m : k \in P
  <2> HIDE DEF P
  <2> QED
    BY <1>1, <1>2, Upto
<1> QED
  BY <1>3

(* A total does not depend on the order in which its values are listed.    *)
LEMMA SumReindexed ==
    ASSUME NEW m, NEW n, NEW K, Enumerates(m, n, K), NEW w, NEW v,
           \A k \in K : w[k] \in Int,
           \A r \in 1 .. n : v[r] = w[m[r]]
    PROVE  SumOver(v, 1 .. n) = SumOver(w, K)
<1>1. /\ n \in Nat /\ \A r \in 1 .. n : m[r] \in K
      /\ \A i, j \in 1 .. n : m[i] = m[j] => i = j
      /\ \A x \in K : \E i \in 1 .. n : m[i] = x
  BY DEF Enumerates
<1> DEFINE I(k) == {m[r] : r \in 1 .. k}
           P == {k \in 0 .. n : IsFiniteSet(I(k)) /\ SumOver(v, 1 .. k) = SumOver(w, I(k))}
<1>2. 0 \in P
  <2>1. 1 .. 0 = {} /\ I(0) = {}
    OBVIOUS
  <2>2. IsFiniteSet({}) /\ SumOver(v, {}) = 0 /\ SumOver(w, {}) = 0
    BY SumEmpty, FS_EmptySet
  <2> QED
    BY <1>1, <2>1, <2>2
<1>3. ASSUME NEW k \in 1 .. n, k - 1 \in P
      PROVE  k \in P
  <2>1. PICK j \in Nat : j = k - 1 /\ k = j + 1 /\ j + 1 \in 1 .. n
    BY <1>1
  <2>2. IsFiniteSet(I(j)) /\ SumOver(v, 1 .. j) = SumOver(w, I(j))
    BY <1>3, <2>1
  <2>3. I(j + 1) = I(j) \union {m[j + 1]}
    <3>1. 1 .. (j + 1) = (1 .. j) \union {j + 1}
      BY <2>1, UpTo
    <3> QED
      BY <3>1
  <2>4. m[j + 1] \notin I(j)
    <3>1. \A r \in 1 .. j : r \in 1 .. n /\ r # j + 1
      BY <1>1, <2>1
    <3> QED
      BY <1>1, <2>1, <3>1
  <2>5. \A x \in I(j) \union {m[j + 1]} : w[x] \in Int
    <3>1. \A r \in 1 .. j : r \in 1 .. n
      BY <1>1, <2>1
    <3> QED
      BY <1>1, <2>1, <3>1
  <2>6. \A r \in 1 .. (j + 1) : v[r] \in Int
    <3>1. \A r \in 1 .. (j + 1) : r \in 1 .. n
      BY <1>1, <2>1
    <3> QED
      BY <1>1, <3>1
  <2>7. SumOver(v, 1 .. (j + 1)) = SumOver(v, 1 .. j) + v[j + 1]
    BY ONLY <2>1, <2>6, SumNext
  <2> HIDE DEF I
  <2>8. SumOver(w, I(j) \union {m[j + 1]}) = SumOver(w, I(j)) + w[m[j + 1]]
    BY <2>2, <2>4, <2>5, SumAdded
  <2>9. IsFiniteSet(I(j) \union {m[j + 1]})
    BY <2>2, FS_AddElement
  <2>10. IsFiniteSet(I(j + 1)) /\ SumOver(v, 1 .. (j + 1)) = SumOver(w, I(j + 1))
    BY <2>1, <2>2, <2>3, <2>7, <2>8, <2>9
  <2> QED
    BY <2>1, <2>10
<1>4. n \in P
  <2>1. \A k \in 0 .. n : k \in P
    <3> HIDE DEF P
    <3> QED
      BY <1>1, <1>2, <1>3, Upto
  <2>2. n \in 0 .. n
    BY <1>1
  <2> HIDE DEF P
  <2> QED
    BY <2>1, <2>2
<1>5. I(n) = K
  BY <1>1
<1> QED
  BY <1>4, <1>5

(* A factor can be taken out of a total.                                   *)
LEMMA SumScaled ==
    ASSUME NEW S, IsFiniteSet(S), NEW f, \A x \in S : f[x] \in Int, NEW c \in Int,
           NEW g, \A x \in S : g[x] = c * f[x]
    PROVE  SumOver(g, S) = c * SumOver(f, S)
<1> DEFINE F == {s \in SUBSET S : SumOver(g, s) # c * SumOver(f, s)}
<1>1. SUFFICES ASSUME F # {}
               PROVE  FALSE
  OBVIOUS
<1>2. PICK s \in F : \A u \in F : u \subseteq s => u = s
  <2>1. F \subseteq SUBSET S
    OBVIOUS
  <2> HIDE DEF F
  <2> QED
    BY <1>1, <2>1, Minimal
<1>3. s \subseteq S /\ IsFiniteSet(s)
  BY FS_Subset
<1>4. s # {}
  <2>1. SumOver(g, {}) = 0 /\ SumOver(f, {}) = 0 /\ c * 0 = 0
    BY SumEmpty
  <2>2. SumOver(g, s) # c * SumOver(f, s)
    OBVIOUS
  <2> QED
    BY <2>1, <2>2
<1>5. First(s) \in s
  BY <1>4 DEF First
<1> DEFINE u == s \ {First(s)}
<1>6. SumOver(g, u) = c * SumOver(f, u)
  BY <1>2, <1>5
<1>7. /\ SumOver(f, s) = f[First(s)] + SumOver(f, u)
      /\ SumOver(g, s) = g[First(s)] + SumOver(g, u)
  BY <1>3, <1>4, SumStep
<1>8. SumOver(f, u) \in Int
  <2>1. IsFiniteSet(u) /\ u \subseteq S
    BY <1>3, FS_Subset
  <2> HIDE DEF u
  <2> QED
    BY <2>1, SumType
<1>9. f[First(s)] \in Int /\ g[First(s)] = c * f[First(s)]
  BY <1>3, <1>5
<1>10. SumOver(g, s) # c * SumOver(f, s)
  OBVIOUS
<1> HIDE DEF u
<1>11. PICK a \in Int, b \in Int : a = f[First(s)] /\ b = SumOver(f, u)
  BY <1>8, <1>9
<1>12. c * (a + b) = c * a + c * b
  OBVIOUS
<1> QED
  BY <1>6, <1>7, <1>9, <1>10, <1>11, <1>12

(* The total of what two functions say together.                           *)
LEMMA SumPlus ==
    ASSUME NEW S, IsFiniteSet(S), NEW f, NEW g, NEW h,
           \A x \in S : f[x] \in Int /\ g[x] \in Int /\ h[x] = f[x] + g[x]
    PROVE  SumOver(h, S) = SumOver(f, S) + SumOver(g, S)
<1> DEFINE F == {s \in SUBSET S : SumOver(h, s) # SumOver(f, s) + SumOver(g, s)}
<1>1. SUFFICES ASSUME F # {}
               PROVE  FALSE
  OBVIOUS
<1>2. PICK s \in F : \A u \in F : u \subseteq s => u = s
  <2>1. F \subseteq SUBSET S
    OBVIOUS
  <2> HIDE DEF F
  <2> QED
    BY <1>1, <2>1, Minimal
<1>3. s \subseteq S /\ IsFiniteSet(s)
  BY FS_Subset
<1>4. s # {}
  <2>1. SumOver(g, {}) = 0 /\ SumOver(f, {}) = 0 /\ SumOver(h, {}) = 0
    BY SumEmpty
  <2>2. SumOver(h, s) # SumOver(f, s) + SumOver(g, s)
    OBVIOUS
  <2>3. s = {} => SumOver(h, s) = 0 /\ SumOver(f, s) = 0 /\ SumOver(g, s) = 0
    BY <2>1
  <2> HIDE DEF F
  <2> QED
    BY <2>2, <2>3
<1>5. First(s) \in s
  BY <1>4 DEF First
<1> DEFINE u == s \ {First(s)}
<1>6. SumOver(h, u) = SumOver(f, u) + SumOver(g, u)
  BY <1>2, <1>5
<1>7. /\ SumOver(f, s) = f[First(s)] + SumOver(f, u)
      /\ SumOver(g, s) = g[First(s)] + SumOver(g, u)
      /\ SumOver(h, s) = h[First(s)] + SumOver(h, u)
  BY <1>3, <1>4, SumStep
<1>8. SumOver(f, u) \in Int /\ SumOver(g, u) \in Int
  <2>1. IsFiniteSet(u) /\ \A x \in u : f[x] \in Int /\ g[x] \in Int
    BY <1>3, FS_Subset
  <2> HIDE DEF u
  <2> QED
    BY <2>1, SumType
<1>9. /\ f[First(s)] \in Int /\ g[First(s)] \in Int
      /\ h[First(s)] = f[First(s)] + g[First(s)]
  BY <1>3, <1>5
<1>10. SumOver(h, s) # SumOver(f, s) + SumOver(g, s)
  OBVIOUS
<1> HIDE DEF u
<1>11. PICK a \in Int, b \in Int, c \in Int, d \in Int :
          a = f[First(s)] /\ b = SumOver(f, u) /\ c = g[First(s)] /\ d = SumOver(g, u)
  BY <1>8, <1>9
<1>12. (a + c) + (b + d) = (a + b) + (c + d)
  OBVIOUS
<1> QED
  BY <1>6, <1>7, <1>9, <1>10, <1>11, <1>12
-----------------------------------------------------------------------------
(* Folds.                                                                  *)

(* g applies the steps of the elements of a part of S, the element that    *)
(* pick takes out last.                                                    *)
Unfolds(g, step, base, pick, S) ==
    g = [s \in SUBSET S |-> IF s = {} THEN base ELSE step[pick[s]][g[s \ {pick[s]}]]]

(* Two such functions agree on every finite set both know.                 *)
LEMMA FoldsAgree ==
    ASSUME NEW step, NEW base, NEW pick, NEW S, NEW T, NEW g, NEW h,
           Unfolds(g, step, base, pick, S), Unfolds(h, step, base, pick, T),
           \A s \in SUBSET S : s # {} => pick[s] \in s,
           NEW r, r \subseteq S, r \subseteq T, IsFiniteSet(r)
    PROVE  g[r] = h[r]
<1> DEFINE F == {s \in SUBSET r : g[s] # h[s]}
<1>1. SUFFICES ASSUME F # {}
               PROVE  FALSE
  OBVIOUS
<1>2. PICK s \in F : \A u \in F : u \subseteq s => u = s
  <2>1. F \subseteq SUBSET r
    OBVIOUS
  <2> HIDE DEF F
  <2> QED
    BY <1>1, <2>1, Minimal
<1>3. s \in SUBSET S /\ s \in SUBSET T
  OBVIOUS
<1>4. /\ g[s] = IF s = {} THEN base ELSE step[pick[s]][g[s \ {pick[s]}]]
      /\ h[s] = IF s = {} THEN base ELSE step[pick[s]][h[s \ {pick[s]}]]
  BY <1>3 DEF Unfolds
<1>5. s # {}
  BY <1>4
<1>6. pick[s] \in s
  BY <1>3, <1>5
<1>7. g[s \ {pick[s]}] = h[s \ {pick[s]}]
  <2>1. s \ {pick[s]} \in SUBSET r
    OBVIOUS
  <2>2. s \ {pick[s]} \notin F
    BY <1>2, <1>6
  <2> QED
    BY <2>1, <2>2
<1> QED
  BY <1>4, <1>5, <1>7

(* Such a function exists: on every part of a finite set its values on the *)
(* smaller parts determine it.                                             *)
LEMMA FoldExists ==
    ASSUME NEW step, NEW base, NEW pick, NEW S, IsFiniteSet(S),
           \A s \in SUBSET S : s # {} => pick[s] \in s
    PROVE  \E g : Unfolds(g, step, base, pick, S)
<1> DEFINE F == {T \in SUBSET S : ~\E g : Unfolds(g, step, base, pick, T)}
<1>1. SUFFICES ASSUME F # {}
               PROVE  FALSE
  OBVIOUS
<1>2. PICK T \in F : \A U \in F : U \subseteq T => U = T
  <2>1. F \subseteq SUBSET S
    OBVIOUS
  <2> HIDE DEF F
  <2> QED
    BY <1>1, <2>1, Minimal
<1>3. \A U \in SUBSET T : U # T => \E g : Unfolds(g, step, base, pick, U)
  BY <1>2
<1> DEFINE V(U) == (CHOOSE g : Unfolds(g, step, base, pick, U))[U]
           G == [s \in SUBSET T |-> IF s = {} THEN base ELSE step[pick[s]][V(s \ {pick[s]})]]
<1>4. ASSUME NEW U \in SUBSET T, U # T
      PROVE  G[U] = V(U)
  <2> DEFINE g == CHOOSE g : Unfolds(g, step, base, pick, U)
  <2>1. Unfolds(g, step, base, pick, U)
    BY <1>3, <1>4
  <2>2. g[U] = IF U = {} THEN base ELSE step[pick[U]][g[U \ {pick[U]}]]
    <3> HIDE DEF g
    <3>1. U \in SUBSET U
      OBVIOUS
    <3> QED
      BY <2>1, <3>1 DEF Unfolds
  <2>3. ASSUME U # {}
        PROVE  g[U \ {pick[U]}] = V(U \ {pick[U]})
    <3> DEFINE W == U \ {pick[U]}
               h == CHOOSE h : Unfolds(h, step, base, pick, W)
    <3>1. pick[U] \in U
      BY <2>3
    <3>2. W \in SUBSET T /\ W # T /\ W \subseteq U /\ W \subseteq W
      BY <3>1
    <3>3. Unfolds(h, step, base, pick, W)
      BY <1>3, <3>2
    <3>4. IsFiniteSet(W) /\ \A s \in SUBSET U : s # {} => pick[s] \in s
      BY FS_Subset
    <3> HIDE DEF g, h, W
    <3>5. g[W] = h[W]
      BY <2>1, <3>2, <3>3, <3>4, FoldsAgree
    <3> QED
      BY <3>5 DEF h, W
  <2>4. G[U] = IF U = {} THEN base ELSE step[pick[U]][V(U \ {pick[U]})]
    OBVIOUS
  <2>5. V(U) = g[U]
    OBVIOUS
  <2> HIDE DEF G, V, g
  <2> QED
    BY <2>2, <2>3, <2>4, <2>5
<1>5. Unfolds(G, step, base, pick, T)
  <2>1. ASSUME NEW s \in SUBSET T, s # {}
        PROVE  G[s \ {pick[s]}] = V(s \ {pick[s]})
    <3>1. pick[s] \in s
      BY <2>1
    <3>2. s \ {pick[s]} \in SUBSET T /\ s \ {pick[s]} # T
      BY <3>1
    <3> HIDE DEF G, V
    <3> QED
      BY <3>2, <1>4
  <2> DEFINE H == [s \in SUBSET T |-> IF s = {} THEN base
                                      ELSE step[pick[s]][G[s \ {pick[s]}]]]
  <2>2. \A s \in SUBSET T : G[s] = H[s]
    <3>1. \A s \in SUBSET T :
             /\ G[s] = IF s = {} THEN base ELSE step[pick[s]][V(s \ {pick[s]})]
             /\ H[s] = IF s = {} THEN base ELSE step[pick[s]][G[s \ {pick[s]}]]
      OBVIOUS
    <3> HIDE DEF G, H, V
    <3> QED
      BY <2>1, <3>1
  <2>3. G = H
    <3>1. DOMAIN G = SUBSET T /\ G = [s \in DOMAIN G |-> G[s]]
      OBVIOUS
    <3> HIDE DEF G
    <3>2. DOMAIN H = SUBSET T /\ H = [s \in DOMAIN H |-> H[s]]
      OBVIOUS
    <3> HIDE DEF H
    <3> QED
      BY <2>2, <3>1, <3>2
  <2> QED
    BY <2>3 DEF Unfolds
<1>6. \E g : Unfolds(g, step, base, pick, T)
  <2> HIDE DEF G
  <2> QED
    BY <1>5
<1> QED
  BY <1>2, <1>6

(* The last position of a nonempty set of positions.                       *)
LEMMA LastPosition ==
    ASSUME NEW n \in Nat, NEW s, s \subseteq 1 .. n, s # {}
    PROVE  Max(s) \in s /\ \A k \in s : k <= Max(s)
<1>1. IsFiniteSet(s)
  BY UpTo, FS_Subset
<1>2. \A k \in s : k \in Int
  OBVIOUS
<1>3. \E x \in s : \A y \in s : y <= x
  BY <1>1, <1>2, Largest
<1> QED
  BY <1>2, <1>3 DEF Max

(* The steps of a list stay in V.                                          *)
Closed(step, n, V) == \A k \in 1 .. n : step[k] \in [V -> V]

(* g on 1 .. k is what the first k steps make of the base.                 *)
Steps(g, step, base, n, V) ==
    /\ g \in [SUBSET (1 .. n) -> V]
    /\ g[{}] = base
    /\ \A s \in SUBSET (1 .. n) : s # {} => g[s] = step[Max(s)][g[s \ {Max(s)}]]

(* The steps of a list, from the first to the last.                        *)
LEMMA FoldRuns ==
    ASSUME NEW n \in Nat, NEW V, NEW base \in V, NEW step, Closed(step, n, V)
    PROVE  \E g : Steps(g, step, base, n, V)
<1> DEFINE S == 1 .. n
           pick == [s \in SUBSET S |-> Max(s)]
<1>1. IsFiniteSet(S)
  BY UpTo
<1>2. \A s \in SUBSET S : s # {} => pick[s] \in s /\ pick[s] = Max(s) /\ Max(s) \in S
  BY LastPosition
<1>3. PICK g : Unfolds(g, step, base, pick, S)
  <2> HIDE DEF S, pick
  <2> QED
    BY <1>1, <1>2, FoldExists
<1>4. /\ DOMAIN g = SUBSET S /\ g[{}] = base /\ g = [s \in SUBSET S |-> g[s]]
      /\ \A s \in SUBSET S : s # {} => g[s] = step[pick[s]][g[s \ {pick[s]}]]
  <2> HIDE DEF S, pick
  <2>1. {} \in SUBSET S
    OBVIOUS
  <2> QED
    BY <1>3, <2>1 DEF Unfolds
<1> HIDE DEF pick
<1>5. \A s \in SUBSET S : s # {} => g[s] = step[Max(s)][g[s \ {Max(s)}]]
  BY <1>2, <1>4
<1>6. \A k \in S : step[k] \in [V -> V]
  BY DEF Closed
<1> HIDE DEF S
<1>7. \A s \in SUBSET S : g[s] \in V
  <2> DEFINE F == {s \in SUBSET S : g[s] \notin V}
  <2>1. SUFFICES ASSUME F # {}
                 PROVE  FALSE
    OBVIOUS
  <2>2. PICK s \in F : \A u \in F : u \subseteq s => u = s
    <3>1. F \subseteq SUBSET S
      OBVIOUS
    <3> HIDE DEF F
    <3> QED
      BY <1>1, <2>1, <3>1, Minimal
  <2>3. s # {} /\ s \in SUBSET S
    BY <1>4
  <2>4. Max(s) \in s /\ step[Max(s)] \in [V -> V]
    BY <1>2, <1>6, <2>3
  <2>5. g[s \ {Max(s)}] \in V
    BY <2>2, <2>4
  <2> QED
    BY <1>5, <2>2, <2>3, <2>4, <2>5
<1>8. g \in [SUBSET S -> V]
  BY <1>4, <1>7
<1> QED
  BY <1>4, <1>5, <1>8 DEF S, Steps

(* The first k positions, without the last of them.                        *)
LEMMA LastOfPrefix ==
    ASSUME NEW n \in Nat, NEW k \in 1 .. n
    PROVE  /\ 1 .. k \in SUBSET (1 .. n) /\ 1 .. k # {}
           /\ Max(1 .. k) = k /\ (1 .. k) \ {Max(1 .. k)} = 1 .. (k - 1)
<1>1. 1 .. k \subseteq 1 .. n /\ k \in 1 .. k
  OBVIOUS
<1>2. Max(1 .. k) \in 1 .. k /\ \A j \in 1 .. k : j <= Max(1 .. k)
  BY <1>1, LastPosition
<1>3. Max(1 .. k) = k
  BY <1>1, <1>2
<1>4. (1 .. k) \ {k} = 1 .. (k - 1)
  OBVIOUS
<1> QED
  BY <1>1, <1>3, <1>4
-----------------------------------------------------------------------------
(* Numbers.                                                                *)

(* The smaller and the larger of two numbers.                              *)
LEMMA OfTwo ==
    ASSUME NEW a \in Int, NEW b \in Int
    PROVE  /\ Min({a, b}) = IF a <= b THEN a ELSE b
           /\ Max({a, b}) = IF a >= b THEN a ELSE b
<1>1. \E m \in {a, b} : \A y \in {a, b} : m <= y
  OBVIOUS
<1>2. Min({a, b}) \in {a, b} /\ \A y \in {a, b} : Min({a, b}) <= y
  BY <1>1 DEF Min
<1>3. \E m \in {a, b} : \A y \in {a, b} : m >= y
  OBVIOUS
<1>4. Max({a, b}) \in {a, b} /\ \A y \in {a, b} : Max({a, b}) >= y
  BY <1>3 DEF Max
<1> QED
  BY <1>2, <1>4

(* The part k out of q of a whole c, rounded down, is a part of it, and    *)
(* all of it when k is q.                                                  *)
LEMMA PartOf ==
    ASSUME NEW c \in Nat, NEW q \in Nat, q > 0, NEW k \in 0 .. q
    PROVE  (c * k) \div q \in 0 .. c /\ (c * q) \div q = c
<1>1. \A a \in Nat : \A n \in Nat \ {0} :
          a \div n \in Nat /\ (a \div n) * n <= a /\ a < (a \div n) * n + n
  BY SMT
<1>2. \A x \in Nat, y \in 0 .. q : x * y \in Nat /\ x * y <= x * q
  BY SMT
<1>3. \A d, e \in Nat : d * q <= e * q => d <= e
  <2>1. SUFFICES ASSUME NEW d \in Nat, NEW e \in Nat, d * q <= e * q, ~(d <= e)
                 PROVE  FALSE
    OBVIOUS
  <2>2. PICK h \in Nat : d = e + 1 + h
    <3>1. d - e - 1 \in Nat /\ d = e + 1 + (d - e - 1)
      BY <2>1
    <3> QED
      BY <3>1
  <2>3. d * q = e * q + q + h * q /\ h * q \in Nat /\ e * q \in Nat
    BY <2>2
  <2> QED
    BY <2>1, <2>3
<1>4. PICK d \in Nat : d = (c * k) \div q /\ d * q <= c * k
  BY <1>1, <1>2
<1>5. d <= c
  <2>1. c * k <= c * q /\ c * k \in Nat /\ c * q \in Nat /\ d * q \in Nat
    BY <1>2
  <2>2. d * q <= c * q
    BY <1>4, <2>1
  <2> QED
    BY <1>3, <2>2
<1>6. PICK e \in Nat : e = (c * q) \div q /\ e * q <= c * q /\ c * q < e * q + q
  <2>1. c * q \in Nat
    OBVIOUS
  <2> QED
    BY <1>1, <2>1
<1>7. e <= c
  BY <1>3, <1>6
<1>8. c <= e
  <2>1. (e + 1) * q = e * q + q /\ e * q \in Nat /\ c * q \in Nat
    OBVIOUS
  <2>2. ASSUME ~(c <= e)
        PROVE  FALSE
    <3>1. PICK h \in Nat : c = e + 1 + h
      <4>1. c - e - 1 \in Nat /\ c = e + 1 + (c - e - 1)
        BY <2>2
      <4> QED
        BY <4>1
    <3>2. c * q = e * q + q + h * q /\ h * q \in Nat
      BY <3>1
    <3> QED
      BY <1>6, <2>1, <3>2
  <2> QED
    BY <2>2
<1> QED
  BY <1>4, <1>5, <1>6, <1>7, <1>8

-----------------------------------------------------------------------------
(* More on totals.                                                         *)

(* The total of a part is a part of the total.                             *)
LEMMA SumOfPart ==
    ASSUME NEW S, IsFiniteSet(S), NEW T, T \subseteq S, NEW f, \A x \in S : f[x] \in Nat
    PROVE  /\ SumOver(f, T) \in Nat /\ SumOver(f, S) \in Nat
           /\ SumOver(f, T) <= SumOver(f, S)
<1>1. PICK U : U = S \ T
  OBVIOUS
<1>2. IsFiniteSet(T) /\ IsFiniteSet(U) /\ T \cap U = {} /\ T \union U = S
  BY <1>1, FS_Subset
<1>3. /\ \A x \in T : f[x] \in Nat
      /\ \A x \in U : f[x] \in Nat
      /\ \A x \in T \union U : f[x] \in Int
  BY <1>2
<1>4. SumOver(f, T) \in Nat /\ SumOver(f, U) \in Nat
  BY <1>2, <1>3, SumNat
<1>5. SumOver(f, T \union U) = SumOver(f, T) + SumOver(f, U)
  BY ONLY <1>2, <1>3, SumUnion
<1>6. SumOver(f, S) = SumOver(f, T \union U)
  BY <1>2
<1> QED
  BY <1>4, <1>5, <1>6

(* Values that are zero add nothing.                                       *)
LEMMA SumZeros ==
    ASSUME NEW S, IsFiniteSet(S), NEW T, T \subseteq S, NEW f, \A x \in S : f[x] \in Int,
           \A x \in S \ T : f[x] = 0
    PROVE  SumOver(f, S) = SumOver(f, T)
<1>1. PICK U : U = S \ T
  OBVIOUS
<1>2. IsFiniteSet(T) /\ IsFiniteSet(U) /\ T \cap U = {} /\ T \union U = S
  BY <1>1, FS_Subset
<1>3. \A x \in T \union U : f[x] \in Int
  BY <1>2
<1>4. SumOver(f, T \union U) = SumOver(f, T) + SumOver(f, U)
  BY ONLY <1>2, <1>3, SumUnion
<1>5. SumOver(f, U) = 0
  <2>1. \A x \in U : f[x] = 0 * f[x] /\ f[x] \in Int
    BY <1>1
  <2>2. 0 \in Int
    OBVIOUS
  <2>3. SumOver(f, U) = 0 * SumOver(f, U)
    BY ONLY <1>2, <2>1, <2>2, SumScaled
  <2>4. SumOver(f, U) \in Int
    BY <1>2, <2>1, SumType
  <2> QED
    BY <2>3, <2>4
<1>6. SumOver(f, T) \in Int
  BY <1>2, <1>3, SumType
<1>7. SumOver(f, S) = SumOver(f, T \union U)
  BY <1>2
<1> QED
  BY <1>4, <1>5, <1>6, <1>7

-----------------------------------------------------------------------------
(* Totals of a list: what val says of each element, added up.              *)
Total(s, val) == SumOver([k \in DOMAIN s |-> val[s[k]]], DOMAIN s)

(* A total of integers is an integer, of natural numbers a natural number. *)
LEMMA TotalType ==
    ASSUME NEW X, NEW s \in Seq(X), NEW val \in [X -> Int]
    PROVE  /\ Total(s, val) \in Int
           /\ (\A x \in X : val[x] \in Nat) => Total(s, val) \in Nat
<1>1. PICK n \in Nat : DOMAIN s = 1 .. n /\ \A k \in 1 .. n : s[k] \in X
  <2>1. DOMAIN s = 1 .. Len(s) /\ Len(s) \in Nat /\ \A k \in 1 .. Len(s) : s[k] \in X
    OBVIOUS
  <2> QED
    BY <2>1
<1>2. PICK w, S : w = [k \in DOMAIN s |-> val[s[k]]] /\ S = 1 .. n
  OBVIOUS
<1>3. IsFiniteSet(S) /\ \A k \in S : w[k] \in Int /\ w[k] = val[s[k]]
  BY <1>1, <1>2, UpTo
<1>4. SumOver(w, S) \in Int
  BY <1>3, SumType
<1>5. (\A x \in X : val[x] \in Nat) => SumOver(w, S) \in Nat
  <2>1. SUFFICES ASSUME \A x \in X : val[x] \in Nat
                 PROVE  SumOver(w, S) \in Nat
    OBVIOUS
  <2>2. \A k \in S : w[k] \in Nat
    BY <1>1, <1>2, <1>3, <2>1
  <2> QED
    BY ONLY <1>3, <2>2, SumNat
<1> QED
  BY <1>1, <1>2, <1>4, <1>5 DEF Total

(* Nothing adds up to nothing.                                             *)
LEMMA TotalOfNone ==
    ASSUME NEW val
    PROVE  Total(<<>>, val) = 0
<1>1. PICK S, w : S = DOMAIN <<>> /\ w = [k \in DOMAIN <<>> |-> val[<<>>[k]]]
  OBVIOUS
<1>2. S = {}
  BY <1>1
<1> QED
  BY <1>1, <1>2, SumEmpty DEF Total

(* The total of two lists.                                                 *)
LEMMA TotalOfBoth ==
    ASSUME NEW X, NEW s \in Seq(X), NEW t \in Seq(X), NEW val \in [X -> Int]
    PROVE  Total(s \o t, val) = Total(s, val) + Total(t, val)
<1>1. PICK n \in Nat : n = Len(s) /\ DOMAIN s = 1 .. n /\ \A k \in 1 .. n : s[k] \in X
  OBVIOUS
<1>2. PICK m \in Nat : m = Len(t) /\ DOMAIN t = 1 .. m /\ \A k \in 1 .. m : t[k] \in X
  OBVIOUS
<1>3. PICK u : u = s \o t
  OBVIOUS
<1>4. /\ DOMAIN u = 1 .. (n + m)
      /\ \A k \in 1 .. n : u[k] = s[k]
      /\ \A k \in 1 .. m : u[n + k] = t[k]
  BY <1>1, <1>2, <1>3
<1>5. PICK f, g, h : /\ f = [k \in DOMAIN s |-> val[s[k]]]
                     /\ g = [k \in DOMAIN t |-> val[t[k]]]
                     /\ h = [k \in DOMAIN u |-> val[u[k]]]
  OBVIOUS
<1>6. \A k \in 1 .. n : f[k] \in Int /\ f[k] = val[s[k]]
  BY <1>1, <1>5
<1>7. \A k \in 1 .. m : g[k] \in Int /\ g[k] = val[t[k]]
  BY <1>2, <1>5
<1>8. \A k \in 1 .. n : h[k] = f[k]
  <2>1. \A k \in 1 .. n : k \in 1 .. (n + m)
    OBVIOUS
  <2> QED
    BY <1>4, <1>5, <1>6, <2>1
<1>9. \A k \in 1 .. m : h[n + k] = g[k]
  <2>1. \A k \in 1 .. m : n + k \in 1 .. (n + m)
    OBVIOUS
  <2> QED
    BY <1>4, <1>5, <1>7, <2>1
<1>10. Joins(h, n, f, m, g)
  BY <1>6, <1>7, <1>8, <1>9 DEF Joins
<1>11. SumOver(h, 1 .. (n + m)) = SumOver(f, 1 .. n) + SumOver(g, 1 .. m)
  BY <1>10, SumConcat
<1> QED
  BY <1>1, <1>2, <1>3, <1>4, <1>5, <1>11 DEF Total

(* One more element.                                                       *)
LEMMA TotalAppended ==
    ASSUME NEW X, NEW s \in Seq(X), NEW x \in X, NEW val \in [X -> Int]
    PROVE  Total(Append(s, x), val) = Total(s, val) + val[x]
<1>1. PICK n \in Nat : n = Len(s) /\ DOMAIN s = 1 .. n /\ \A k \in 1 .. n : s[k] \in X
  OBVIOUS
<1>2. PICK u : u = Append(s, x)
  OBVIOUS
<1>3. DOMAIN u = 1 .. (n + 1) /\ u[n + 1] = x /\ \A k \in 1 .. n : u[k] = s[k]
  BY <1>1, <1>2
<1>4. PICK f, h : /\ f = [k \in DOMAIN s |-> val[s[k]]] /\ h = [k \in DOMAIN u |-> val[u[k]]]
  OBVIOUS
<1>5. /\ \A k \in 1 .. n : f[k] = val[s[k]] /\ f[k] \in Int
      /\ \A k \in 1 .. n : h[k] = f[k]
      /\ h[n + 1] = val[x] /\ h[n + 1] \in Int
  <2>1. \A k \in 1 .. n : f[k] = val[s[k]] /\ f[k] \in Int
    BY <1>1, <1>4
  <2>2. \A k \in 1 .. n : k \in 1 .. (n + 1)
    OBVIOUS
  <2>3. n + 1 \in 1 .. (n + 1)
    OBVIOUS
  <2> QED
    BY <1>3, <1>4, <2>1, <2>2, <2>3
<1>6. \A k \in 1 .. (n + 1) : h[k] \in Int
  <2>1. \A k \in 1 .. (n + 1) : k \in 1 .. n \/ k = n + 1
    OBVIOUS
  <2> QED
    BY <1>5, <2>1
<1>7. SumOver(h, 1 .. (n + 1)) = SumOver(h, 1 .. n) + h[n + 1]
  BY ONLY <1>6, n \in Nat, SumNext
<1>8. SumOver(h, 1 .. n) = SumOver(f, 1 .. n)
  <2>1. PICK S : S = 1 .. n
    OBVIOUS
  <2>2. IsFiniteSet(S) /\ \A k \in S : h[k] = f[k]
    BY <1>5, <2>1, UpTo
  <2>3. SumOver(h, S) = SumOver(f, S)
    BY ONLY <2>2, SumSame
  <2> QED
    BY <2>1, <2>3
<1> QED
  BY <1>1, <1>2, <1>3, <1>4, <1>5, <1>7, <1>8 DEF Total

(* What a list loses by keeping only part of it.                           *)
LEMMA TotalKept ==
    ASSUME NEW X, NEW s \in Seq(X), NEW K, K \subseteq DOMAIN s, NEW val \in [X -> Int],
           \A k \in DOMAIN s \ K : val[s[k]] = 0
    PROVE  Total(keep(s, K), val) = Total(s, val)
<1>1. PICK n \in Nat : n = Len(s) /\ DOMAIN s = 1 .. n /\ \A k \in 1 .. n : s[k] \in X
  OBVIOUS
<1>2. PICK t : t = keep(s, K)
  OBVIOUS
<1>3. PICK m, l : /\ Enumerates(m, l, K) /\ t = [r \in 1 .. l |-> s[m[r]]]
                  /\ t \in Seq(X) /\ Len(t) = l
  BY ONLY SMTT(20), s \in Seq(X), K \subseteq DOMAIN s, <1>2, Kept
<1>4. DOMAIN t = 1 .. l /\ \A r \in 1 .. l : t[r] = s[m[r]] /\ m[r] \in K
  BY <1>3 DEF Enumerates
<1>5. PICK w, v : w = [k \in DOMAIN s |-> val[s[k]]] /\ v = [r \in DOMAIN t |-> val[t[r]]]
  OBVIOUS
<1>6. \A k \in 1 .. n : w[k] = val[s[k]] /\ w[k] \in Int
  BY <1>1, <1>5
<1>7. \A r \in 1 .. l : v[r] = w[m[r]]
  BY <1>1, <1>4, <1>5, <1>6
<1>8. \A k \in K : w[k] \in Int
  BY <1>1, <1>6
<1>9. SumOver(v, 1 .. l) = SumOver(w, K)
  BY ONLY <1>3, <1>7, <1>8, SumReindexed
<1>10. SumOver(w, 1 .. n) = SumOver(w, K)
  <2>1. PICK S : S = 1 .. n
    OBVIOUS
  <2>2. IsFiniteSet(S) /\ K \subseteq S /\ (\A k \in S : w[k] \in Int) /\ \A k \in S \ K : w[k] = 0
    BY <1>1, <1>6, <2>1, UpTo
  <2>3. SumOver(w, S) = SumOver(w, K)
    BY ONLY <2>2, SumZeros
  <2> QED
    BY <2>1, <2>3
<1> QED
  BY <1>1, <1>2, <1>4, <1>5, <1>9, <1>10 DEF Total
=============================================================================
