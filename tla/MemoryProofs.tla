---------------------------- MODULE MemoryProofs ----------------------------
(***************************************************************************)
(* Memory, for all threads, frames, buffers, environments and requests.    *)
(*                                                                         *)
(* Of FrameRegistry: that the two reference counts of video frames are     *)
(* exact at every step of every interleaving, that nothing dangles, that   *)
(* MakeWritable lets only one write, and that memory_used is what the      *)
(* buffers take, all of which can be found in the registry.                *)
(*                                                                         *)
(* Of BufferPool: that buffers fit and have one user, and that what they   *)
(* take is accounted for.                                                  *)
(***************************************************************************)
EXTENDS FrameRegistry, BufferPool, FiniteSetTheorems, SequenceTheorems, WellFoundedInduction,
        TLAPS

-----------------------------------------------------------------------------
(* Sums over finite sets.                                                  *)

(* Induction over the subsets of a finite set: a set of them that is not   *)
(* empty has one that contains no other.                                   *)
Innermost(T, B) == \A U \in B \ {T} : ~(U \subseteq T)

(* There is one, since no subset of a finite set shrinks for ever. *)
LEMMA InnermostSet ==
  ASSUME NEW S, IsFiniteSet(S), NEW B, B \in SUBSET (SUBSET S), B # {}
  PROVE  \E T \in B : Innermost(T, B)
<1>1. IsWellFoundedOn(StrictSubsetOrdering(S), SUBSET S)
  BY FS_StrictSubsetOrderingWellFounded, FS_FiniteSubsetsOfFinite
<1>2. PICK x \in B : \A y \in B : ~ (<<y, x>> \in StrictSubsetOrdering(S))
  BY <1>1, WFMin
<1> QED
  BY <1>2 DEF StrictSubsetOrdering, Innermost

Total(W, S) == MapThenSumSet(LAMBDA b : W[b], S)

(* f has the sums of W over the subsets of S, as MapThenSumSet adds them.  *)
Some(S) == CHOOSE x \in S : TRUE
IsSum(f, W, S) ==
  f = [s \in SUBSET S |-> IF s = {} THEN 0 ELSE W[Some(s)] + f[s \ {Some(s)}]]

(* The element that is added first is one of the set. *)
LEMMA SomeOne ==
  ASSUME NEW S, S # {}
  PROVE  Some(S) \in S
BY DEF Some

(* Such a function unfolds once. *)
LEMMA SumAt ==
  ASSUME NEW f, NEW W, NEW S, IsSum(f, W, S), NEW s \in SUBSET S
  PROVE  f[s] = IF s = {} THEN 0 ELSE W[Some(s)] + f[s \ {Some(s)}]
BY Zenon DEF IsSum

(* There is only one. *)
LEMMA SumUnique ==
  ASSUME NEW f, NEW g, NEW W, NEW S, NEW T, IsFiniteSet(S), IsSum(f, W, S), IsSum(g, W, T),
         NEW r, r \subseteq S, r \subseteq T
  PROVE  f[r] = g[r]
<1> DEFINE B == {s \in SUBSET S : s \subseteq T /\ f[s] # g[s]}
<1>1. SUFFICES ASSUME B # {} PROVE FALSE
  OBVIOUS
<1>2. \E s \in B : Innermost(s, B)
  <2>1. B \in SUBSET (SUBSET S)
    OBVIOUS
  <2> HIDE DEF B
  <2> QED
    BY <1>1, <2>1, InnermostSet
<1>3. PICK s \in B : \A u \in B \ {s} : ~(u \subseteq s)
  BY <1>2 DEF Innermost
<1>4. s \subseteq S /\ s \subseteq T /\ f[s] # g[s]
  BY <1>3
<1>5. s # {}
  BY <1>4, SumAt
<1> DEFINE u == s \ {Some(s)}
<1>6. u # s /\ u \subseteq s
  BY <1>5, SomeOne
<1>7. u \notin B
  <2> HIDE DEF B, u
  <2> QED
    BY <1>3, <1>6
<1>8. f[u] = g[u]
  BY <1>4, <1>6, <1>7
<1>9. f[s] = W[Some(s)] + f[u] /\ g[s] = W[Some(s)] + g[u]
  BY <1>4, <1>5, SumAt
<1> QED
  BY <1>4, <1>8, <1>9

(* Over a finite set there is one. *)
LEMMA SumExists ==
  ASSUME NEW W, NEW S, IsFiniteSet(S)
  PROVE  \E f : IsSum(f, W, S)
<1> DEFINE B == {s \in SUBSET S : ~\E f : IsSum(f, W, s)}
<1>1. SUFFICES ASSUME B # {} PROVE FALSE
  OBVIOUS
<1>2. \E s \in B : Innermost(s, B)
  <2>1. B \in SUBSET (SUBSET S)
    OBVIOUS
  <2> HIDE DEF B
  <2> QED
    BY <1>1, <2>1, InnermostSet
<1>3. PICK s \in B : \A u \in B \ {s} : ~(u \subseteq s)
  BY <1>2 DEF Innermost
<1>4. s \subseteq S /\ ~\E f : IsSum(f, W, s)
  BY <1>3
<1>5. \A u \in SUBSET s : u # s => \E f : IsSum(f, W, u)
  <2> SUFFICES ASSUME NEW u \in SUBSET s, u # s PROVE \E f : IsSum(f, W, u)
    OBVIOUS
  <2>1. u \notin B
    <3> HIDE DEF B
    <3> QED
      BY <1>3
  <2> QED
    BY <2>1, <1>4
<1> DEFINE g(u) == CHOOSE f : IsSum(f, W, u)
           h == [u \in SUBSET s |-> IF u = {} THEN 0
                   ELSE W[Some(u)] + g(u \ {Some(u)})[u \ {Some(u)}]]
<1>6. \A u \in SUBSET s : u # s => IsSum(g(u), W, u)
  BY <1>5
<1>7. \A u \in SUBSET s : u # s => h[u] = g(u)[u]
  <2> SUFFICES ASSUME NEW u \in SUBSET s, u # s PROVE h[u] = g(u)[u]
    OBVIOUS
  <2> DEFINE v == u \ {Some(u)}
  <2>1. CASE u = {}
    <3>1. IsSum(g(u), W, u)
      BY <1>6
    <3>2. g(u)[u] = 0
      <4> HIDE DEF g
      <4> QED
        BY <2>1, <3>1, SumAt
    <3> QED
      BY <2>1, <3>2
  <2>2. CASE u # {}
    <3>1. IsSum(g(u), W, u) /\ IsSum(g(v), W, v) /\ v \subseteq u
      BY <1>6
    <3>2. IsFiniteSet(u)
      BY <1>4, FS_Subset
    <3> HIDE DEF g
    <3>3. g(u)[v] = g(v)[v]
      BY <3>1, <3>2, SumUnique
    <3>4. g(u)[u] = W[Some(u)] + g(u)[v]
      BY <2>2, <3>1, SumAt
    <3> QED
      BY <2>2, <3>3, <3>4
  <2> QED
    BY <2>1, <2>2
<1>8. \A u \in SUBSET s : h[u] = IF u = {} THEN 0 ELSE W[Some(u)] + h[u \ {Some(u)}]
  <2>0. h[{}] = 0
    OBVIOUS
  <2> SUFFICES ASSUME NEW u \in SUBSET s, u # {}
               PROVE  h[u] = W[Some(u)] + h[u \ {Some(u)}]
    <3> HIDE DEF h
    <3> QED
      BY <2>0
  <2> DEFINE v == u \ {Some(u)}
  <2>1. v \in SUBSET s /\ v # s
    BY SomeOne
  <2>2. h[v] = g(v)[v]
    <3> HIDE DEF h, g
    <3> QED
      BY <1>7, <2>1
  <2> QED
    BY <2>2
<1>9. IsSum(h, W, s)
  <2> HIDE DEF g
  <2>1. DOMAIN h = SUBSET s /\ h = [u \in SUBSET s |-> h[u]]
    OBVIOUS
  <2> HIDE DEF h
  <2> QED
    BY <1>8, <2>1 DEF IsSum
<1> QED
  BY <1>4, <1>9

(* The sum, one element after the other in the order of the fold. *)
LEMMA TotalUnfolds ==
  ASSUME NEW W, NEW S, IsFiniteSet(S)
  PROVE  Total(W, S) = IF S = {} THEN 0 ELSE W[Some(S)] + Total(W, S \ {Some(S)})
<1> DEFINE F(T) == CHOOSE f : IsSum(f, W, T)
<1>1. \A T : Total(W, T) = F(T)[T]
  BY DEF Total, MapThenSumSet, MapThenFoldSet, IsSum, Some
<1>2. PICK f : IsSum(f, W, S)
  BY SumExists
<1>3. IsSum(F(S), W, S)
  BY <1>2
<1> HIDE DEF F
<1>4. Total(W, {}) = 0
  <2>1. IsFiniteSet({})
    BY FS_EmptySet
  <2>2. IsSum(F({}), W, {})
    BY <2>1, SumExists DEF F
  <2> QED
    BY <1>1, <2>2, SumAt
<1>5. CASE S # {}
  <2> DEFINE T == S \ {Some(S)}
  <2>1. IsFiniteSet(T)
    BY FS_Subset
  <2>2. IsSum(F(T), W, T)
    BY <2>1, SumExists DEF F
  <2>3. F(S)[T] = F(T)[T]
    BY <1>3, <2>2, SumUnique
  <2>4. F(S)[S] = W[Some(S)] + F(S)[T]
    BY <1>3, <1>5, SumAt
  <2> QED
    BY <1>1, <1>5, <2>3, <2>4
<1> QED
  BY <1>4, <1>5

(* The sum of nothing. *)
LEMMA TotalEmpty ==
  ASSUME NEW W
  PROVE  Total(W, {}) = 0
BY TotalUnfolds, FS_EmptySet

(* Two elements come off in any order. *)
LEMMA InAnyOrder ==
  ASSUME NEW a \in Int, NEW b \in Int, NEW r \in Int, NEW v, NEW u, NEW t,
         t = a + v, v = b + r, u = a + r
  PROVE  t = b + u
OBVIOUS

(* Any element may be taken out of a sum. *)
LEMMA TotalRemoves ==
  ASSUME NEW W, NEW S, IsFiniteSet(S), \A x \in S : W[x] \in Int
  PROVE  /\ Total(W, S) \in Int
         /\ \A x \in S : Total(W, S) = W[x] + Total(W, S \ {x})
<1> DEFINE Good(T) == /\ Total(W, T) \in Int
                      /\ \A x \in T : Total(W, T) = W[x] + Total(W, T \ {x})
           B == {T \in SUBSET S : ~Good(T)}
<1>1. SUFFICES ASSUME B # {} PROVE FALSE
  OBVIOUS
<1>2. \E s \in B : Innermost(s, B)
  <2>1. B \in SUBSET (SUBSET S)
    OBVIOUS
  <2> HIDE DEF B
  <2> QED
    BY <1>1, <2>1, InnermostSet
<1>3. PICK s \in B : \A u \in B \ {s} : ~(u \subseteq s)
  BY <1>2 DEF Innermost
<1>4. s \subseteq S /\ ~Good(s) /\ IsFiniteSet(s)
  BY <1>3, FS_Subset
<1>5. \A u \in SUBSET s : u # s => Good(u)
  <2> SUFFICES ASSUME NEW u \in SUBSET s, u # s PROVE Good(u)
    OBVIOUS
  <2>1. u \notin B
    <3> HIDE DEF B
    <3> QED
      BY <1>3
  <2> HIDE DEF Good
  <2> QED
    BY <2>1, <1>4
<1>6. CASE s = {}
  BY <1>4, <1>6, TotalEmpty
<1>7. CASE s # {}
  <2> DEFINE c == Some(s)
             v == s \ {c}
  <2>1. c \in s /\ v \in SUBSET s /\ v # s
    BY <1>7, SomeOne
  <2>2. Total(W, s) = W[c] + Total(W, v)
    BY <1>4, <1>7, TotalUnfolds
  <2> HIDE DEF c
  <2>3. Good(v)
    <3> HIDE DEF Good
    <3> QED
      BY <1>5, <2>1
  <2>4. \A x \in s : Total(W, s) = W[x] + Total(W, s \ {x})
    <3> SUFFICES ASSUME NEW x \in s, x # c PROVE Total(W, s) = W[x] + Total(W, s \ {x})
      BY <2>2
    <3> DEFINE u == s \ {x}
    <3>1. u \in SUBSET s /\ u # s /\ c \in u /\ x \in v
      BY <2>1
    <3>2. Good(u)
      <4> HIDE DEF Good, u
      <4> QED
        BY <1>5, <3>1
    <3>3. v \ {x} = u \ {c}
      OBVIOUS
    <3>4. Total(W, v) = W[x] + Total(W, v \ {x}) /\ Total(W, u) = W[c] + Total(W, u \ {c})
      BY <2>3, <3>1, <3>2
    <3>5. Good(u \ {c})
      <4>1. u \ {c} \in SUBSET s /\ u \ {c} # s
        BY <3>1
      <4> HIDE DEF Good, u
      <4> QED
        BY <1>5, <4>1
    <3>6. W[x] \in Int /\ W[c] \in Int /\ Total(W, u \ {c}) \in Int
      BY <3>5, <1>4, <2>1
    <3>7. Total(W, v) = W[x] + Total(W, u \ {c})
      BY <3>3, <3>4
    <3>8. Total(W, u) = W[c] + Total(W, u \ {c})
      BY <3>4
    <3> HIDE DEF u, v
    <3>9. Total(W, s) = W[x] + Total(W, u)
      BY <2>2, <3>6, <3>7, <3>8, InAnyOrder
    <3> QED
      BY <3>9 DEF u
  <2>5. Total(W, s) \in Int
    BY <1>4, <2>1, <2>2, <2>3
  <2> QED
    BY <1>4, <2>4, <2>5
<1> QED
  BY <1>6, <1>7

(* Sums of natural numbers are natural numbers. *)
LEMMA TotalNat ==
  ASSUME NEW W, NEW S, IsFiniteSet(S), \A x \in S : W[x] \in Nat
  PROVE  Total(W, S) \in Nat
<1> DEFINE B == {T \in SUBSET S : Total(W, T) \notin Nat}
<1>1. SUFFICES ASSUME B # {} PROVE FALSE
  OBVIOUS
<1>2. \E s \in B : Innermost(s, B)
  <2>1. B \in SUBSET (SUBSET S)
    OBVIOUS
  <2> HIDE DEF B
  <2> QED
    BY <1>1, <2>1, InnermostSet
<1>3. PICK s \in B : \A u \in B \ {s} : ~(u \subseteq s)
  BY <1>2 DEF Innermost
<1>4. s \subseteq S /\ Total(W, s) \notin Nat /\ IsFiniteSet(s)
  BY <1>3, FS_Subset
<1>5. s # {}
  BY <1>4, TotalEmpty
<1>6. PICK c \in s : TRUE
  BY <1>5
<1> DEFINE v == s \ {c}
<1>7. v # s /\ v \subseteq s
  BY <1>6
<1>8. v \notin B
  <2> HIDE DEF B, v
  <2> QED
    BY <1>3, <1>7
<1>9. Total(W, v) \in Nat
  BY <1>4, <1>8
<1>10. Total(W, s) = W[c] + Total(W, v) /\ W[c] \in Nat
  BY <1>4, TotalRemoves
<1> QED
  BY <1>4, <1>9, <1>10

(* A part may be taken out of a sum. *)
LEMMA TotalSplits ==
  ASSUME NEW W, NEW S, IsFiniteSet(S), \A x \in S : W[x] \in Nat, NEW D, D \subseteq S
  PROVE  /\ Total(W, S) \in Nat /\ Total(W, D) \in Nat /\ Total(W, S \ D) \in Nat
         /\ Total(W, S) = Total(W, D) + Total(W, S \ D)
<1>1. \A T \in SUBSET S : IsFiniteSet(T) /\ Total(W, T) \in Nat
  BY FS_Subset, TotalNat
<1> DEFINE Good(T) == Total(W, S) = Total(W, T) + Total(W, S \ T)
           B == {T \in SUBSET S : ~Good(T)}
<1>2. SUFFICES ASSUME B # {} PROVE FALSE
  BY <1>1
<1>3. \E s \in B : Innermost(s, B)
  <2>1. B \in SUBSET (SUBSET S)
    OBVIOUS
  <2> HIDE DEF B
  <2> QED
    BY <1>2, <2>1, InnermostSet
<1>4. PICK s \in B : \A u \in B \ {s} : ~(u \subseteq s)
  BY <1>3 DEF Innermost
<1>5. s \subseteq S /\ ~Good(s) /\ IsFiniteSet(s)
  BY <1>4, FS_Subset
<1>6. s # {}
  <2>1. Total(W, {}) = 0 /\ S \ {} = S
    BY FS_EmptySet, TotalUnfolds
  <2> QED
    BY <1>1, <1>5, <2>1
<1>7. PICK c \in s : TRUE
  BY <1>6
<1> DEFINE v == s \ {c}
<1>8. v # s /\ v \subseteq s
  BY <1>7
<1>9. v \notin B
  <2> HIDE DEF B, v
  <2> QED
    BY <1>4, <1>8
<1>10. Total(W, S) = Total(W, v) + Total(W, S \ v)
  BY <1>5, <1>9
<1>11. Total(W, s) = W[c] + Total(W, v) /\ W[c] \in Nat
  BY <1>5, TotalRemoves
<1>12. (S \ v) \ {c} = S \ s /\ c \in S \ v
  BY <1>5, <1>7
<1>13. Total(W, S \ v) = W[c] + Total(W, S \ s)
  <2>1. IsFiniteSet(S \ v) /\ \A x \in S \ v : W[x] \in Int
    BY <1>1
  <2> HIDE DEF v
  <2> QED
    BY <1>12, <2>1, TotalRemoves
<1>14. Total(W, v) \in Nat /\ Total(W, S \ s) \in Nat
  BY <1>1, <1>5
<1> QED
  BY <1>5, <1>10, <1>11, <1>13, <1>14

(* A sum depends on nothing but the elements. *)
LEMMA TotalSame ==
  ASSUME NEW W, NEW V, NEW S, IsFiniteSet(S), \A x \in S : W[x] = V[x]
  PROVE  Total(W, S) = Total(V, S)
<1> DEFINE B == {T \in SUBSET S : Total(W, T) # Total(V, T)}
<1>1. SUFFICES ASSUME B # {} PROVE FALSE
  OBVIOUS
<1>2. \E s \in B : Innermost(s, B)
  <2>1. B \in SUBSET (SUBSET S)
    OBVIOUS
  <2> HIDE DEF B
  <2> QED
    BY <1>1, <2>1, InnermostSet
<1>3. PICK s \in B : \A u \in B \ {s} : ~(u \subseteq s)
  BY <1>2 DEF Innermost
<1>4. s \subseteq S /\ Total(W, s) # Total(V, s) /\ IsFiniteSet(s)
  BY <1>3, FS_Subset
<1>5. s # {}
  BY <1>4, TotalUnfolds
<1> DEFINE v == s \ {Some(s)}
<1>6. v # s /\ v \subseteq s /\ Some(s) \in s
  BY <1>5, SomeOne
<1>7. v \notin B
  <2> HIDE DEF B, v
  <2> QED
    BY <1>3, <1>6
<1>8. Total(W, v) = Total(V, v)
  BY <1>4, <1>7
<1>9. Total(W, s) = W[Some(s)] + Total(W, v) /\ Total(V, s) = V[Some(s)] + Total(V, v)
  BY <1>4, <1>5, TotalUnfolds
<1> QED
  BY <1>4, <1>6, <1>8, <1>9

(* An element is added to a sum, or a part leaves it. *)
LEMMA TotalAdds ==
  ASSUME NEW W, NEW S, IsFiniteSet(S), NEW b, b \notin S, \A x \in S \cup {b} : W[x] \in Int
  PROVE  Total(W, S \cup {b}) = W[b] + Total(W, S)
<1>1. IsFiniteSet(S \cup {b}) /\ (S \cup {b}) \ {b} = S
  BY FS_AddElement
<1>2. \A x \in S \cup {b} : Total(W, S \cup {b}) = W[x] + Total(W, (S \cup {b}) \ {x})
  BY <1>1, TotalRemoves
<1> QED
  BY <1>1, <1>2

-----------------------------------------------------------------------------
(* Frames.                                                                 *)

(* Where a thread holds a frame that no PVideoFrame points at yet. *)
Starts(t) == pc[t] \in {"new", "sub", "fresh"}

(* The threads that MakeWritable has given a frame of their own. *)
Writes(t) == pc[t] \in {"write", "drop", "last"} /\ dst[t] # None

(* What a thread's plain pointers are at each place. *)
PlaceSound(t) ==
  /\ raw[t] # None <=> pc[t] \in {"new", "sub", "fresh", "drop"}
  /\ owes[t] # None <=> pc[t] = "last"
  /\ dst[t] # None => dst[t] \in Own(t)
  /\ pc[t] = "idle" => dst[t] = None
  /\ pc[t] \in {"new", "sub", "check", "copy", "fresh", "write"} => dst[t] # None
  /\ pc[t] \in {"new", "sub"} => ref[dst[t]] = None
  /\ dst[t] # None /\ pc[t] \notin {"new", "sub"} => ref[dst[t]] # None

(* Whatever is pointed at exists; frames can be found in the registry.     *)
ObjectsSound ==
  /\ \A f \in Frames : of[f] # None => of[f] \in Buffered
  /\ \A h \in Handles : ref[h] # None => of[ref[h]] # None
  /\ \A t \in Threads : raw[t] # None => of[raw[t]] # None
  /\ \A t \in Threads : owes[t] # None => owes[t] \in Buffered
  /\ \A f \in registered : of[f] # None
  /\ \A f \in Frames : of[f] # None /\ f \notin registered =>
       \E t \in Threads : pc[t] = "sub" /\ raw[t] = f

(* A frame without references is held by one thread that is starting it.   *)
StartsSound ==
  /\ \A t \in Threads : Starts(t) => frc[raw[t]] = 0
  /\ \A t, u \in Threads : Starts(t) /\ Starts(u) /\ raw[t] = raw[u] => t = u
  /\ \A t \in Threads : pc[t] = "fresh" => vrc[of[raw[t]]] = 1

(* A thread that is going to write has the only reference to the frame,    *)
(* and the frame the only one to its buffer.                               *)
WritersSound ==
  \A t \in Threads :
    /\ pc[t] = "check" \/ Writes(t) => frc[ref[dst[t]]] = 1
    /\ Writes(t) => vrc[of[ref[dst[t]]]] = 1

IInv == /\ TypeOK /\ \A t \in Threads : PlaceSound(t)
        /\ ObjectsSound /\ CountsExact /\ StartsSound /\ WritersSound

-----------------------------------------------------------------------------
(* Counting. *)

(* A new element counts one more. *)
LEMMA Grown ==
  ASSUME NEW S, IsFiniteSet(S), NEW x, x \notin S
  PROVE  Cardinality(S \cup {x}) = Cardinality(S) + 1
BY FS_AddElement

(* An element that goes counts one less. *)
LEMMA Shrunk ==
  ASSUME NEW S, IsFiniteSet(S), NEW x \in S
  PROVE  Cardinality(S \ {x}) = Cardinality(S) - 1
BY FS_RemoveElement

(* A count is as large as the elements one can point out. *)
LEMMA Counted ==
  ASSUME NEW S, IsFiniteSet(S)
  PROVE  /\ Cardinality(S) \in Nat
         /\ Cardinality(S) = 0 <=> S = {}
         /\ \A x \in S : Cardinality(S) >= 1
         /\ \A x, y \in S : x # y => Cardinality(S) >= 2
<1>1. Cardinality(S) \in Nat /\ (Cardinality(S) = 0 <=> S = {})
  BY FS_CardinalityType, FS_EmptySet
<1>2. ASSUME NEW x \in S, NEW y \in S, x # y PROVE Cardinality(S) >= 2
  <2>1. IsFiniteSet(S \ {x}) /\ Cardinality(S \ {x}) = Cardinality(S) - 1
    BY FS_RemoveElement
  <2>2. Cardinality(S \ {x}) \in Nat /\ Cardinality(S \ {x}) # 0
    <3>1. S \ {x} # {}
      BY <1>2
    <3> QED
      BY <2>1, <3>1, FS_CardinalityType, FS_EmptySet
  <2> QED
    BY <1>1, <2>1, <2>2
<1>3. ASSUME NEW x \in S PROVE Cardinality(S) >= 1
  BY <1>1
<1> QED
  BY <1>1, <1>2, <1>3

(* There are finitely many PVideoFrames. *)
LEMMA FiniteHandles == IsFiniteSet(Handles)
<1>1. IsFiniteSet(1 .. Locals)
  BY FS_Interval, FrameSetsAssumption
<1>2. IsFiniteSet(Threads \X (1 .. Locals))
  BY <1>1, FS_Product, FrameSetsAssumption
<1> QED
  BY <1>2, FS_Union, FrameSetsAssumption DEF Handles

(* The sets that the counts count, now and after a step. *)
LEMMA FiniteCounts ==
  /\ \A f : IsFiniteSet(References(f)) /\ IsFiniteSet(Dropping(f))
  /\ \A b : IsFiniteSet(InUse(b)) /\ IsFiniteSet(Starting(b)) /\ IsFiniteSet(Finishing(b))
<1>1. \A f : References(f) \subseteq Handles /\ Dropping(f) \subseteq Threads
  BY DEF References, Dropping
<1>2. \A b : InUse(b) \subseteq Frames /\ Starting(b) \subseteq Threads
              /\ Finishing(b) \subseteq Threads
  BY DEF InUse, Starting, Finishing
<1> QED
  BY <1>1, <1>2, FiniteHandles, FS_Subset, FrameSetsAssumption

(* The PVideoFrames of a thread are neither another's nor a cache's. *)
LEMMA OwnApart ==
  ASSUME NEW t \in Threads, NEW u \in Threads, t # u
  PROVE  /\ Own(t) \subseteq Handles /\ Own(t) \cap Own(u) = {} /\ Own(t) \cap Cached = {}
         /\ None \notin Own(t)
BY FrameSetsAssumption DEF Own, Handles

(* A frame's count is at least the number of references one can point out. *)
LEMMA FrameHeld ==
  ASSUME IInv, NEW f \in Frames, of[f] # None
  PROVE  /\ \A h \in Handles : ref[h] = f => frc[f] >= 1
         /\ \A h, k \in Handles : ref[h] = f /\ ref[k] = f /\ h # k => frc[f] >= 2
         /\ \A t \in Threads : pc[t] = "drop" /\ raw[t] = f => frc[f] >= 1
         /\ \A h \in Handles, t \in Threads :
              ref[h] = f /\ pc[t] = "drop" /\ raw[t] = f => frc[f] >= 2
<1> DEFINE R == References(f)
           D == Dropping(f)
<1>1. frc[f] = Cardinality(R) + Cardinality(D)
  BY DEF IInv, CountsExact
<1>2. \A h \in Handles : ref[h] = f <=> h \in R
  BY DEF References
<1>3. \A t \in Threads : pc[t] = "drop" /\ raw[t] = f <=> t \in D
  BY DEF Dropping
<1>4. IsFiniteSet(R) /\ IsFiniteSet(D)
  BY FiniteCounts
<1> HIDE DEF R, D
<1>5. /\ Cardinality(R) \in Nat /\ Cardinality(D) \in Nat
      /\ \A h \in R : Cardinality(R) >= 1
      /\ \A h, k \in R : h # k => Cardinality(R) >= 2
      /\ \A t \in D : Cardinality(D) >= 1
  BY <1>4, Counted
<1> QED
  BY <1>1, <1>2, <1>3, <1>5

(* The same of a buffer's. *)
LEMMA BufferHeld ==
  ASSUME IInv, NEW b \in Buffered
  PROVE  /\ \A f \in InUse(b) : vrc[b] >= 1
         /\ \A t \in Starting(b) : vrc[b] >= 1
         /\ \A t \in Finishing(b) : vrc[b] >= 1
         /\ \A f, g \in InUse(b) : f # g => vrc[b] >= 2
         /\ \A t, u \in Starting(b) : t # u => vrc[b] >= 2
         /\ \A f \in InUse(b), t \in Starting(b) : vrc[b] >= 2
         /\ \A f \in InUse(b), t \in Finishing(b) : vrc[b] >= 2
         /\ \A t \in Starting(b), u \in Finishing(b) : vrc[b] >= 2
<1> DEFINE I == InUse(b)
           S == Starting(b)
           F == Finishing(b)
<1>1. vrc[b] = Cardinality(I) + Cardinality(S) + Cardinality(F)
  BY DEF IInv, CountsExact
<1>2. IsFiniteSet(I) /\ IsFiniteSet(S) /\ IsFiniteSet(F)
  BY FiniteCounts
<1> HIDE DEF I, S, F
<1>3. /\ Cardinality(I) \in Nat /\ \A x \in I : Cardinality(I) >= 1
      /\ \A x, y \in I : x # y => Cardinality(I) >= 2
  BY <1>2, Counted
<1>4. /\ Cardinality(S) \in Nat /\ \A x \in S : Cardinality(S) >= 1
      /\ \A x, y \in S : x # y => Cardinality(S) >= 2
  BY <1>2, Counted
<1>5. Cardinality(F) \in Nat /\ \A x \in F : Cardinality(F) >= 1
  BY <1>2, Counted
<1>6. /\ \A f \in I : vrc[b] >= 1
      /\ \A t \in S : vrc[b] >= 1
      /\ \A t \in F : vrc[b] >= 1
      /\ \A f, g \in I : f # g => vrc[b] >= 2
      /\ \A t, u \in S : t # u => vrc[b] >= 2
      /\ \A f \in I, t \in S : vrc[b] >= 2
      /\ \A f \in I, t \in F : vrc[b] >= 2
      /\ \A t \in S, u \in F : vrc[b] >= 2
  BY <1>1, <1>3, <1>4, <1>5
<1> QED
  BY <1>6 DEF I, S, F

(* What types and places say of what is pointed at. *)
LEMMA Pointed ==
  ASSUME IInv
  PROVE  /\ \A h \in Handles : ref[h] # None => ref[h] \in Frames /\ of[ref[h]] \in Buffered
         /\ \A t \in Threads : raw[t] # None => raw[t] \in Frames /\ of[raw[t]] \in Buffered
         /\ \A t \in Threads : dst[t] # None => dst[t] \in Handles
         /\ \A f \in Frames : frc[f] \in Nat
         /\ \A b \in Buffers : vrc[b] \in Nat
         /\ None \notin Buffered /\ Buffered \subseteq Buffers
BY FrameSetsAssumption DEF IInv, TypeOK, ObjectsSound, Buffered

(* A reference means that the frame, and with it its buffer, is in use;    *)
(* so does a plain pointer.                                                *)
LEMMA InUseByHandle ==
  ASSUME IInv, NEW h \in Handles, ref[h] # None
  PROVE  ref[h] \in InUse(of[ref[h]])
<1>1. ref[h] \in Frames /\ of[ref[h]] \in Buffered /\ of[ref[h]] # None /\ frc[ref[h]] \in Nat
  BY Pointed
<1>2. frc[ref[h]] >= 1
  BY <1>1, FrameHeld
<1> QED
  BY <1>1, <1>2 DEF InUse

(* A plain pointer on its way to a PVideoFrame keeps the buffer in use. *)
LEMMA HeldByPointer ==
  ASSUME IInv, NEW t \in Threads, raw[t] # None
  PROVE  \/ Starts(t) /\ t \in Starting(of[raw[t]])
         \/ pc[t] = "drop" /\ raw[t] \in InUse(of[raw[t]])
<1>1. raw[t] \in Frames /\ of[raw[t]] \in Buffered /\ of[raw[t]] # None /\ frc[raw[t]] \in Nat
  BY Pointed
<1>2. CASE pc[t] = "drop"
  <2>1. frc[raw[t]] >= 1
    BY <1>1, <1>2, FrameHeld
  <2> QED
    BY <1>1, <1>2, <2>1 DEF InUse
<1>3. CASE pc[t] # "drop"
  <2>1. PlaceSound(t)
    BY DEF IInv
  <2> QED
    BY <1>3, <2>1 DEF PlaceSound, Starts, Starting
<1> QED
  BY <1>2, <1>3

(* So does a Release between its two decrements. *)
LEMMA HeldByRelease ==
  ASSUME IInv, NEW t \in Threads, owes[t] # None
  PROVE  owes[t] \in Buffered /\ t \in Finishing(owes[t])
BY DEF IInv, ObjectsSound, PlaceSound, Finishing

(* Nobody can reach what is in no use: GetNewFrame may give it out again,  *)
(* or delete it.                                                           *)
LEMMA UnusedApart ==
  ASSUME IInv, NEW b \in Unused
  PROVE  /\ \A f \in Frames : of[f] = b => frc[f] = 0 /\ f \in registered
         /\ \A h \in Handles : ref[h] # None => of[ref[h]] # b
         /\ \A t \in Threads : raw[t] # None => of[raw[t]] # b
         /\ \A t \in Threads : owes[t] # b
<1>1. b \in Buffered /\ vrc[b] = 0 /\ b # None
  BY Pointed DEF Unused
<1>2. InUse(b) = {} /\ Starting(b) = {} /\ Finishing(b) = {}
  BY <1>1, BufferHeld
<1>3. \A h \in Handles : ref[h] # None => of[ref[h]] # b
  BY <1>2, InUseByHandle
<1>4. \A t \in Threads : raw[t] # None => of[raw[t]] # b
  BY <1>2, HeldByPointer
<1>5. \A t \in Threads : owes[t] # b
  BY <1>1, <1>2, HeldByRelease
<1>6. ASSUME NEW f \in Frames, of[f] = b PROVE frc[f] = 0 /\ f \in registered
  <2>1. frc[f] = 0
    BY <1>2, <1>6, Pointed DEF InUse
  <2>2. ASSUME f \notin registered PROVE FALSE
    <3>1. PICK t \in Threads : pc[t] = "sub" /\ raw[t] = f
      BY <1>1, <1>6, <2>2 DEF IInv, ObjectsSound
    <3>2. raw[t] # None
      BY <3>1, FrameSetsAssumption
    <3> QED
      BY <1>4, <1>6, <3>1, <3>2
  <2> QED
    BY <2>1, <2>2
<1> QED
  BY <1>3, <1>4, <1>5, <1>6

(* Nobody else can reach the frame of a thread that may write, nor, if it  *)
(* writes, the buffer.                                                     *)
LEMMA WriterApart ==
  ASSUME IInv, NEW u \in Threads, pc[u] = "check" \/ Writes(u)
  PROVE  LET f == ref[dst[u]]
         IN  /\ dst[u] \in Own(u) /\ dst[u] \in Handles /\ f # None /\ f \in Frames
             /\ frc[f] = 1 /\ of[f] \in Buffered
             /\ \A h \in Handles : ref[h] = f => h = dst[u]
             /\ \A s \in Threads : raw[s] # f
<1> DEFINE f == ref[dst[u]]
<1>1. dst[u] # None /\ pc[u] \notin {"new", "sub"}
  BY DEF IInv, PlaceSound, Writes
<1>2. dst[u] \in Own(u) /\ dst[u] \in Handles /\ f # None
  BY <1>1, Pointed DEF IInv, PlaceSound
<1>3. f \in Frames /\ of[f] \in Buffered /\ of[f] # None /\ frc[f] = 1
  BY <1>2, Pointed DEF IInv, WritersSound
<1>4. \A h \in Handles : ref[h] = f => h = dst[u]
  BY <1>2, <1>3, FrameHeld
<1>5. ASSUME NEW s \in Threads, raw[s] = f PROVE FALSE
  <2>1. CASE pc[s] = "drop"
    BY <1>2, <1>3, <1>5, <2>1, FrameHeld
  <2>2. CASE pc[s] # "drop"
    <3>1. Starts(s)
      BY <1>2, <1>5, <2>2 DEF IInv, PlaceSound, Starts
    <3> QED
      BY <1>3, <1>5, <3>1 DEF IInv, StartsSound
  <2> QED
    BY <2>1, <2>2
<1> QED
  BY <1>2, <1>3, <1>4, <1>5

(* Nobody else shows the buffer of a thread that writes, or is about to. *)
LEMMA WriterAlone ==
  ASSUME IInv, NEW u \in Threads, Writes(u)
  PROVE  LET f == ref[dst[u]]
             b == of[f]
         IN  /\ vrc[b] = 1
             /\ \A g \in Frames : of[g] = b => g = f \/ frc[g] = 0
             /\ \A h \in Handles : ref[h] # None /\ of[ref[h]] = b => h = dst[u]
             /\ \A s \in Threads : raw[s] # None => of[raw[s]] # b
             /\ \A s \in Threads : owes[s] # b
<1> DEFINE f == ref[dst[u]]
           b == of[f]
<1>1. /\ dst[u] \in Handles /\ f # None /\ f \in Frames /\ frc[f] = 1 /\ b \in Buffered
      /\ \A h \in Handles : ref[h] = f => h = dst[u]
      /\ \A s \in Threads : raw[s] # f
  BY WriterApart
<1>2. vrc[b] = 1 /\ f \in InUse(b) /\ b # None
  BY <1>1, Pointed, InUseByHandle DEF IInv, WritersSound
<1>3. InUse(b) = {f} /\ Starting(b) = {} /\ Finishing(b) = {}
  BY <1>1, <1>2, BufferHeld
<1>4. \A h \in Handles : ref[h] # None /\ of[ref[h]] = b => h = dst[u]
  BY <1>1, <1>3, InUseByHandle
<1>5. \A s \in Threads : raw[s] # None => of[raw[s]] # b
  BY <1>1, <1>3, HeldByPointer
<1>6. \A s \in Threads : owes[s] # b
  BY <1>2, <1>3, HeldByRelease
<1>7. \A g \in Frames : of[g] = b => g = f \/ frc[g] = 0
  BY <1>3, Pointed DEF InUse
<1> QED
  BY <1>2, <1>4, <1>5, <1>6, <1>7

(* Nor the buffer that is to hold the copy. *)
LEMMA FreshAlone ==
  ASSUME IInv, NEW u \in Threads, pc[u] = "fresh"
  PROVE  LET b == of[raw[u]]
         IN  /\ vrc[b] = 1
             /\ \A g \in Frames : of[g] = b => frc[g] = 0
             /\ \A h \in Handles : ref[h] # None => of[ref[h]] # b
             /\ \A s \in Threads : raw[s] # None /\ of[raw[s]] = b => s = u
             /\ \A s \in Threads : owes[s] # b
<1> DEFINE b == of[raw[u]]
<1>1. raw[u] # None /\ raw[u] \in Frames /\ b \in Buffered /\ vrc[b] = 1 /\ b # None
  BY Pointed DEF IInv, PlaceSound, StartsSound
<1>2. u \in Starting(b)
  BY <1>1 DEF Starting
<1>3. InUse(b) = {} /\ Starting(b) = {u} /\ Finishing(b) = {}
  BY <1>1, <1>2, BufferHeld
<1>4. \A h \in Handles : ref[h] # None => of[ref[h]] # b
  BY <1>3, InUseByHandle
<1>5. \A s \in Threads : raw[s] # None /\ of[raw[s]] = b => s = u
  BY <1>3, HeldByPointer
<1>6. \A s \in Threads : owes[s] # b
  BY <1>1, <1>3, HeldByRelease
<1>7. \A g \in Frames : of[g] = b => frc[g] = 0
  BY <1>3, Pointed DEF InUse
<1> QED
  BY <1>1, <1>4, <1>5, <1>6, <1>7

-----------------------------------------------------------------------------
(* The invariant holds at first. *)

(* At the start there are no objects, and nobody points at any. *)
LEMMA Initially == Init => IInv
<1> SUFFICES ASSUME Init PROVE IInv
  OBVIOUS
<1> USE DEF Init
<1>1. TypeOK
  BY DEF TypeOK, Places
<1>2. \A t \in Threads : PlaceSound(t)
  BY DEF PlaceSound
<1>3. ObjectsSound
  BY DEF ObjectsSound
<1>4. CountsExact
  BY DEF CountsExact, Buffered
<1>5. StartsSound /\ WritersSound
  BY DEF StartsSound, Starts, WritersSound, Writes
<1> QED
  BY <1>1, <1>2, <1>3, <1>4, <1>5 DEF IInv

(* What one thread does with its own variables is nothing to the others.   *)
LEMMA OtherPlaces ==
  ASSUME IInv, NEW t \in Threads,
         \A u \in Threads \ {t} : /\ pc'[u] = pc[u] /\ raw'[u] = raw[u]
                                 /\ owes'[u] = owes[u] /\ dst'[u] = dst[u],
         \A h \in Handles : ref'[h] # ref[h] => h \in Own(t) \cup Cached
  PROVE  \A u \in Threads \ {t} : PlaceSound(u)'
<1> SUFFICES ASSUME NEW u \in Threads \ {t} PROVE PlaceSound(u)'
  OBVIOUS
<1>1. \A h \in Own(u) : ref'[h] = ref[h]
  BY OwnApart
<1>2. dst[u] # None => ref'[dst[u]] = ref[dst[u]]
  BY <1>1 DEF IInv, PlaceSound
<1>3. PlaceSound(u)
  BY DEF IInv
<1>4. pc[u] \in {"new", "sub"} => dst[u] # None
  BY <1>3 DEF PlaceSound
<1> QED
  BY <1>2, <1>3, <1>4 DEF PlaceSound

(* MakeWritable's tests and the write change no count. *)
LEMMA QuietKeeps ==
  ASSUME IInv, NEW t \in Threads, UNCHANGED <<objects, ref, raw, owes>>,
         NEW p \in {"idle", "check", "copy", "write"}, NEW d \in Own(t) \cup {None},
         pc[t] \in {"idle", "check", "copy", "write"},
         pc' = [pc EXCEPT ![t] = p], dst' = [dst EXCEPT ![t] = d],
         p = "idle" <=> d = None,
         d # None => ref[d] # None,
         p \in {"check", "write"} => frc[ref[d]] = 1,
         p = "write" => vrc[of[ref[d]]] = 1
  PROVE  IInv'
<1> USE DEF objects
<1>1. /\ pc'[t] = p /\ dst'[t] = d
      /\ \A u \in Threads \ {t} : pc'[u] = pc[u] /\ dst'[u] = dst[u]
  BY DEF IInv, TypeOK
<1>2. TypeOK'
  <2>1. d \in Handles \cup {None}
    BY DEF Own, Handles
  <2> QED
    BY <2>1 DEF IInv, TypeOK, Places
<1>3. \A u \in Threads : PlaceSound(u)'
  <2>1. \A u \in Threads \ {t} : PlaceSound(u)'
    BY <1>1, OtherPlaces
  <2>2. PlaceSound(t)'
    BY <1>1 DEF IInv, PlaceSound
  <2> QED
    BY <2>1, <2>2
<1>4. ObjectsSound'
  BY <1>1 DEF IInv, ObjectsSound, Buffered
<1>5. CountsExact'
  <2>1. \A f : References(f)' = References(f) /\ Dropping(f)' = Dropping(f)
    BY <1>1 DEF References, Dropping
  <2>2. \A b : /\ InUse(b)' = InUse(b) /\ Starting(b)' = Starting(b)
               /\ Finishing(b)' = Finishing(b)
    BY <1>1 DEF InUse, Starting, Finishing
  <2> QED
    BY <2>1, <2>2 DEF IInv, CountsExact, Buffered
<1>6. StartsSound'
  BY <1>1 DEF IInv, StartsSound, Starts
<1>7. WritersSound'
  BY <1>1 DEF IInv, WritersSound, Writes
<1> QED
  BY <1>2, <1>3, <1>4, <1>5, <1>6, <1>7 DEF IInv

(* IsWritable's first test. *)
LEMMA MakeWritableKeeps ==
  ASSUME IInv, NEW t \in Threads, NEW h \in Own(t), MakeWritable(t, h)
  PROVE  IInv'
<1> DEFINE p == IF frc[ref[h]] = 1 THEN "check" ELSE "copy"
<1>1. h # None
  BY FrameSetsAssumption DEF Own, Handles
<1> QED
  BY <1>1, QuietKeeps DEF MakeWritable

(* Its second, which decides that the thread may write. *)
LEMMA CheckBufferKeeps ==
  ASSUME IInv, NEW t \in Threads, CheckBuffer(t)
  PROVE  IInv'
<1> DEFINE p == IF vrc[of[ref[dst[t]]]] = 1 THEN "write" ELSE "copy"
           d == dst[t]
<1>1. /\ UNCHANGED <<objects, ref, raw, owes, dst>> /\ pc[t] = "check"
      /\ pc' = [pc EXCEPT ![t] = p]
  BY DEF CheckBuffer
<1>2. /\ d \in Own(t) /\ d # None /\ ref[d] # None /\ frc[ref[d]] = 1
  BY <1>1 DEF IInv, PlaceSound, WritersSound
<1>3. dst' = [dst EXCEPT ![t] = d]
  BY <1>1 DEF IInv, TypeOK
<1>4. p \in {"check", "copy", "write"} /\ p # "check" /\ (p = "write" => vrc[of[ref[d]]] = 1)
  OBVIOUS
<1> HIDE DEF p, d
<1> QED
  BY <1>1, <1>2, <1>3, <1>4, QuietKeeps

(* The caller has written. *)
LEMMA WrittenKeeps ==
  ASSUME IInv, NEW t \in Threads, Written(t)
  PROVE  IInv'
BY QuietKeeps DEF Written

-----------------------------------------------------------------------------
(* References come. *)

(* A PVideoFrame is copied. *)
LEMMA CopyKeeps ==
  ASSUME IInv, NEW t \in Threads, NEW from \in Own(t) \cup Cached, NEW to \in Own(t) \cup Cached,
         from # to, Copy(t, from, to)
  PROVE  IInv'
<1> DEFINE f == ref[from]
<1>1. /\ UNCHANGED <<size, vrc, of, registered, memoryUsed, locals>>
      /\ pc[t] = "idle" /\ f # None /\ ref[to] = None
      /\ frc' = [frc EXCEPT ![f] = @ + 1] /\ ref' = [ref EXCEPT ![to] = f]
  BY DEF Copy
<1>2. /\ from \in Handles /\ to \in Handles /\ f \in Frames /\ of[f] \in Buffered /\ of[f] # None
      /\ frc[f] >= 1 /\ frc[f] \in Nat
  <2>1. from \in Handles /\ to \in Handles
    BY DEF Own, Handles
  <2> QED
    BY <1>1, <2>1, Pointed, FrameHeld
<1> HIDE DEF f
<1>3. /\ frc'[f] = frc[f] + 1 /\ \A g \in Frames \ {f} : frc'[g] = frc[g]
      /\ ref'[to] = f /\ \A h \in Handles \ {to} : ref'[h] = ref[h]
  BY <1>1, <1>2 DEF IInv, TypeOK
<1>4. TypeOK'
  BY <1>1, <1>2, <1>3 DEF IInv, TypeOK, locals
<1>5. \A u \in Threads : PlaceSound(u)'
  <2>1. \A u \in Threads \ {t} : PlaceSound(u)'
    BY <1>1, <1>3, OtherPlaces DEF locals
  <2>2. PlaceSound(t)'
    BY <1>1 DEF IInv, PlaceSound, locals
  <2> QED
    BY <2>1, <2>2
<1>6. ObjectsSound'
  BY <1>1, <1>2, <1>3 DEF IInv, ObjectsSound, Buffered, locals
<1>7. CountsExact'
  <2>1. ASSUME NEW g \in Frames, of[g] # None
        PROVE  frc'[g] = Cardinality(References(g)') + Cardinality(Dropping(g)')
    <3>1. frc[g] = Cardinality(References(g)) + Cardinality(Dropping(g))
      BY <2>1 DEF IInv, CountsExact
    <3>2. Dropping(g)' = Dropping(g)
      BY <1>1 DEF Dropping, locals
    <3>3. IsFiniteSet(References(g)) /\ Cardinality(References(g)) \in Nat
          /\ Cardinality(Dropping(g)) \in Nat
      BY FiniteCounts, Counted
    <3>4. to \notin References(g)
      BY <1>1, FrameSetsAssumption DEF References
    <3>5. CASE g = f
      <4>1. References(g)' = References(g) \cup {to}
        BY <1>2, <1>3, <3>5 DEF References
      <4> QED
        BY <1>2, <1>3, <3>1, <3>2, <3>3, <3>4, <3>5, <4>1, Grown
    <3>6. CASE g # f
      <4>1. References(g)' = References(g)
        BY <1>2, <1>3, <3>4, <3>6 DEF References
      <4> QED
        BY <1>3, <3>1, <3>2, <3>6, <4>1
    <3> QED
      BY <3>5, <3>6
  <2>2. \A b : /\ InUse(b)' = InUse(b) /\ Starting(b)' = Starting(b)
               /\ Finishing(b)' = Finishing(b)
    BY <1>1, <1>2, <1>3 DEF InUse, Starting, Finishing, locals
  <2> QED
    BY <1>1, <2>1, <2>2 DEF IInv, CountsExact, Buffered
<1>8. StartsSound'
  <2>1. \A u \in Threads : Starts(u) => raw[u] # f /\ raw[u] \in Frames
    BY <1>2, Pointed DEF IInv, StartsSound, Starts, PlaceSound
  <2> QED
    BY <1>1, <1>3, <2>1 DEF IInv, StartsSound, Starts, locals
<1>9. WritersSound'
  <2> SUFFICES ASSUME NEW u \in Threads, pc[u] = "check" \/ Writes(u)
               PROVE  /\ frc'[ref'[dst[u]]] = frc[ref[dst[u]]] /\ ref'[dst[u]] = ref[dst[u]]
    BY <1>1 DEF IInv, WritersSound, Writes, locals
  <2>1. u # t
    BY <1>1 DEF Writes
  <2>2. dst[u] \in Own(u) /\ dst[u] \in Handles /\ ref[dst[u]] \in Frames
    BY WriterApart
  <2>3. dst[u] # to /\ dst[u] # from
    BY <2>1, <2>2, OwnApart
  <2>4. ref[dst[u]] # f
    BY <1>2, <2>3, WriterApart DEF f
  <2> QED
    BY <1>3, <2>2, <2>3, <2>4
<1> QED
  BY <1>4, <1>5, <1>6, <1>7, <1>8, <1>9 DEF IInv

(* A frame that gets its first reference was the starting thread's until   *)
(* then: the buffer's count stays as it is.                                *)
LEMMA StartEnds ==
  ASSUME IInv, NEW t \in Threads, Starts(t), UNCHANGED <<of, owes>>,
         frc' = [frc EXCEPT ![raw[t]] = @ + 1],
         pc'[t] \notin {"new", "sub", "fresh", "last"},
         \A u \in Threads \ {t} : pc'[u] = pc[u] /\ raw'[u] = raw[u]
  PROVE  /\ raw[t] \in Frames /\ of[raw[t]] \in Buffered /\ of[raw[t]] # None
         /\ frc[raw[t]] = 0 /\ frc'[raw[t]] = 1
         /\ \A g \in Frames \ {raw[t]} : frc'[g] = frc[g]
         /\ \A u \in Threads \ {t} : Starts(u) => raw[u] # raw[t]
         /\ \A h \in Handles : ref[h] # raw[t]
         /\ \A u \in Threads : pc[u] = "drop" => raw[u] # raw[t]
         /\ \A b \in Buffered :
              Cardinality(InUse(b)') + Cardinality(Starting(b)') + Cardinality(Finishing(b)') =
              Cardinality(InUse(b)) + Cardinality(Starting(b)) + Cardinality(Finishing(b))
<1> DEFINE f == raw[t]
<1>1. /\ f \in Frames /\ of[f] \in Buffered /\ of[f] # None
  BY Pointed DEF IInv, PlaceSound, Starts
<1>2. /\ frc[f] = 0 /\ \A u \in Threads \ {t} : Starts(u) => raw[u] # f
  BY DEF IInv, StartsSound
<1>3. frc'[f] = 1 /\ \A g \in Frames \ {f} : frc'[g] = frc[g]
  BY <1>1, <1>2 DEF IInv, TypeOK
<1>4. /\ \A h \in Handles : ref[h] # f
      /\ \A u \in Threads : pc[u] = "drop" => raw[u] # f
  BY <1>1, <1>2, FrameHeld
<1>5. ASSUME NEW b \in Buffered
      PROVE  Cardinality(InUse(b)') + Cardinality(Starting(b)') + Cardinality(Finishing(b)') =
             Cardinality(InUse(b)) + Cardinality(Starting(b)) + Cardinality(Finishing(b))
  <2>1. /\ IsFiniteSet(InUse(b)) /\ IsFiniteSet(Starting(b))
        /\ Cardinality(InUse(b)) \in Nat /\ Cardinality(Starting(b)) \in Nat
        /\ Cardinality(Finishing(b)) \in Nat
    BY FiniteCounts, Counted
  <2>2. Finishing(b)' = Finishing(b)
    BY DEF Finishing, Starts
  <2>3. CASE b = of[f]
    <3>1. InUse(b)' = InUse(b) \cup {f} /\ f \notin InUse(b)
      BY <1>1, <1>2, <1>3, <2>3 DEF InUse
    <3>2. Starting(b)' = Starting(b) \ {t} /\ t \in Starting(b)
      BY <1>1, <2>3 DEF Starting, Starts
    <3>3. /\ Cardinality(InUse(b)') = Cardinality(InUse(b)) + 1
          /\ Cardinality(Starting(b)') = Cardinality(Starting(b)) - 1
      BY <2>1, <3>1, <3>2, Grown, Shrunk
    <3> QED
      BY <2>1, <2>2, <3>3
  <2>4. CASE b # of[f]
    <3>1. InUse(b)' = InUse(b)
      BY <1>1, <1>3, <2>4 DEF InUse
    <3>2. Starting(b)' = Starting(b)
      BY <1>1, <2>4 DEF Starting, Starts
    <3> QED
      BY <2>2, <3>1, <3>2
  <2> QED
    BY <2>3, <2>4
<1> QED
  BY <1>1, <1>2, <1>3, <1>4, <1>5

(* The first PVideoFrame of a new frame, or of a subframe. *)
LEMMA FirstReferenceKeeps ==
  ASSUME IInv, NEW t \in Threads, FirstReference(t) \/ RegisterSubframe(t)
  PROVE  IInv'
<1> DEFINE f == raw[t]
           to == dst[t]
<1>1. /\ UNCHANGED <<size, vrc, of, owes>>
      /\ frc' = [frc EXCEPT ![raw[t]] = @ + 1] /\ ref' = [ref EXCEPT ![to] = f]
      /\ pc' = [pc EXCEPT ![t] = "idle"] /\ raw' = [raw EXCEPT ![t] = None]
      /\ dst' = [dst EXCEPT ![t] = None]
      /\ registered' \in {registered, registered \cup {f}}
      /\ pc[t] \in {"new", "sub"} /\ Starts(t)
      /\ pc[t] = "sub" => registered' = registered \cup {f}
  BY DEF FirstReference, RegisterSubframe, Starts
<1>2. /\ pc'[t] = "idle" /\ raw'[t] = None /\ dst'[t] = None
      /\ \A u \in Threads \ {t} : pc'[u] = pc[u] /\ raw'[u] = raw[u] /\ dst'[u] = dst[u]
  BY <1>1 DEF IInv, TypeOK
<1>3. /\ f \in Frames /\ of[f] \in Buffered /\ of[f] # None
      /\ frc[f] = 0 /\ frc'[f] = 1
      /\ \A g \in Frames \ {f} : frc'[g] = frc[g]
      /\ \A u \in Threads \ {t} : Starts(u) => raw[u] # f
      /\ \A h \in Handles : ref[h] # f
      /\ \A u \in Threads : pc[u] = "drop" => raw[u] # f
      /\ \A b \in Buffered :
              Cardinality(InUse(b)') + Cardinality(Starting(b)') + Cardinality(Finishing(b)') =
              Cardinality(InUse(b)) + Cardinality(Starting(b)) + Cardinality(Finishing(b))
  BY <1>1, <1>2, StartEnds
<1>4. to \in Own(t) /\ to \in Handles /\ ref[to] = None
  BY <1>1, Pointed DEF IInv, PlaceSound
<1> HIDE DEF f, to
<1>5. ref'[to] = f /\ \A h \in Handles \ {to} : ref'[h] = ref[h]
  BY <1>1, <1>4 DEF IInv, TypeOK
<1>6. TypeOK'
  <2>1. frc' \in [Frames -> Nat]
    BY <1>1, <1>3 DEF IInv, TypeOK, f
  <2> QED
    BY <1>1, <1>3, <1>4, <2>1 DEF IInv, TypeOK, Places
<1>7. \A u \in Threads : PlaceSound(u)'
  <2>1. \A u \in Threads \ {t} : PlaceSound(u)'
    BY <1>1, <1>2, <1>4, <1>5, OtherPlaces
  <2>2. PlaceSound(t)'
    BY <1>1, <1>2 DEF IInv, PlaceSound
  <2> QED
    BY <2>1, <2>2
<1>8. f \in registered'
  <2> SUFFICES ASSUME f \notin registered, pc[t] = "new" PROVE FALSE
    BY <1>1
  <2>1. PICK s \in Threads : pc[s] = "sub" /\ raw[s] = f
    BY <1>3 DEF IInv, ObjectsSound
  <2> QED
    BY <1>3, <2>1 DEF Starts
<1>9. ObjectsSound'
  <2>1. /\ \A h \in Handles : ref'[h] # None => of'[ref'[h]] # None
        /\ \A u \in Threads : raw'[u] # None => of'[raw'[u]] # None
        /\ \A u \in Threads : owes'[u] # None => owes'[u] \in Buffered'
        /\ \A g \in Frames : of'[g] # None => of'[g] \in Buffered'
        /\ \A g \in registered' : of'[g] # None
    BY <1>1, <1>2, <1>3, <1>4, <1>5 DEF IInv, ObjectsSound, Buffered
  <2>2. ASSUME NEW g \in Frames, of'[g] # None, g \notin registered'
        PROVE  \E s \in Threads : pc'[s] = "sub" /\ raw'[s] = g
    <3>1. g # f /\ g \notin registered /\ of[g] # None
      BY <1>1, <1>8, <2>2
    <3>2. PICK s \in Threads : pc[s] = "sub" /\ raw[s] = g
      BY <3>1 DEF IInv, ObjectsSound
    <3>3. s # t
      BY <3>1, <3>2 DEF f
    <3> QED
      BY <1>2, <3>2, <3>3
  <2> QED
    BY <2>1, <2>2 DEF ObjectsSound
<1>10. CountsExact'
  <2>1. ASSUME NEW g \in Frames, of[g] # None
        PROVE  frc'[g] = Cardinality(References(g)') + Cardinality(Dropping(g)')
    <3>1. frc[g] = Cardinality(References(g)) + Cardinality(Dropping(g))
      BY <2>1 DEF IInv, CountsExact
    <3>2. Dropping(g)' = Dropping(g)
      BY <1>1, <1>2 DEF Dropping
    <3>3. IsFiniteSet(References(g)) /\ Cardinality(References(g)) \in Nat
          /\ Cardinality(Dropping(g)) \in Nat
      BY FiniteCounts, Counted
    <3>4. to \notin References(g)
      BY <1>4, FrameSetsAssumption DEF References
    <3>5. CASE g = f
      <4>1. References(g)' = References(g) \cup {to}
        BY <1>4, <1>5, <3>5 DEF References
      <4>2. Cardinality(References(g)') = Cardinality(References(g)) + 1
        BY <3>3, <3>4, <4>1, Grown
      <4> QED
        BY <1>3, <3>1, <3>2, <3>3, <3>5, <4>2
    <3>6. CASE g # f
      <4>1. References(g)' = References(g)
        BY <1>4, <1>5, <3>4, <3>6 DEF References
      <4> QED
        BY <1>3, <3>1, <3>2, <3>6, <4>1
    <3> QED
      BY <3>5, <3>6
  <2> QED
    BY <1>1, <1>3, <2>1 DEF IInv, CountsExact, Buffered
<1>11. StartsSound'
  <2>1. ASSUME NEW u \in Threads, Starts(u)'
        PROVE  /\ u # t /\ Starts(u) /\ raw'[u] = raw[u] /\ raw[u] \in Frames
               /\ frc'[raw[u]] = frc[raw[u]]
    <3>1. u # t /\ Starts(u) /\ raw'[u] = raw[u]
      BY <1>2, <2>1 DEF Starts
    <3>2. raw[u] \in Frames
      BY <3>1, Pointed DEF IInv, PlaceSound, Starts
    <3> QED
      BY <1>3, <3>1, <3>2
  <2>2. \A u \in Threads : pc'[u] = "fresh" => Starts(u)'
    BY DEF Starts
  <2> QED
    BY <1>1, <1>2, <2>1, <2>2 DEF IInv, StartsSound
<1>12. WritersSound'
  <2> SUFFICES ASSUME NEW u \in Threads \ {t}, pc[u] = "check" \/ Writes(u)
               PROVE  frc'[ref'[dst[u]]] = frc[ref[dst[u]]] /\ ref'[dst[u]] = ref[dst[u]]
    BY <1>1, <1>2 DEF IInv, WritersSound, Writes
  <2>1. dst[u] \in Own(u) /\ dst[u] \in Handles /\ ref[dst[u]] \in Frames
    BY WriterApart
  <2>2. dst[u] # to /\ ref[dst[u]] # f
    BY <1>3, <1>4, <2>1, OwnApart
  <2> QED
    BY <1>3, <1>5, <2>1, <2>2
<1> QED
  BY <1>6, <1>7, <1>9, <1>10, <1>11, <1>12 DEF IInv

(* MakeWritable replaces the frame by its copy.  Nobody else has that.     *)
LEMMA SetToCopyKeeps ==
  ASSUME IInv, NEW t \in Threads, SetToCopy(t)
  PROVE  IInv'
<1> DEFINE f == raw[t]
           to == dst[t]
           old == ref[to]
<1>1. /\ UNCHANGED <<size, vrc, of, registered, memoryUsed, owes, dst>>
      /\ frc' = [frc EXCEPT ![raw[t]] = @ + 1] /\ ref' = [ref EXCEPT ![to] = f]
      /\ pc' = [pc EXCEPT ![t] = "drop"] /\ raw' = [raw EXCEPT ![t] = old]
      /\ pc[t] = "fresh" /\ Starts(t)
  BY DEF SetToCopy, Starts
<1>2. /\ pc'[t] = "drop" /\ raw'[t] = old
      /\ \A u \in Threads \ {t} : pc'[u] = pc[u] /\ raw'[u] = raw[u]
  BY <1>1 DEF IInv, TypeOK
<1>3. /\ f \in Frames /\ of[f] \in Buffered /\ of[f] # None
      /\ frc[f] = 0 /\ frc'[f] = 1
      /\ \A g \in Frames \ {f} : frc'[g] = frc[g]
      /\ \A u \in Threads \ {t} : Starts(u) => raw[u] # f
      /\ \A h \in Handles : ref[h] # f
      /\ \A u \in Threads : pc[u] = "drop" => raw[u] # f
      /\ \A b \in Buffered :
              Cardinality(InUse(b)') + Cardinality(Starting(b)') + Cardinality(Finishing(b)') =
              Cardinality(InUse(b)) + Cardinality(Starting(b)) + Cardinality(Finishing(b))
  BY <1>1, <1>2, StartEnds
<1>4. to \in Own(t) /\ to \in Handles /\ to # None /\ old # None
  BY <1>1, Pointed DEF IInv, PlaceSound
<1>5. old \in Frames /\ of[old] # None /\ old # f /\ f # None
  BY <1>3, <1>4, Pointed, FrameSetsAssumption
<1>6. vrc[of[f]] = 1
  BY <1>1 DEF IInv, StartsSound
<1> HIDE DEF f, to, old
<1>7. ref'[to] = f /\ \A h \in Handles \ {to} : ref'[h] = ref[h]
  BY <1>1, <1>4 DEF IInv, TypeOK
<1>8. TypeOK'
  <2>1. frc' \in [Frames -> Nat]
    BY <1>1, <1>3 DEF IInv, TypeOK, f
  <2> QED
    BY <1>1, <1>3, <1>4, <1>5, <2>1 DEF IInv, TypeOK, Places
<1>9. \A u \in Threads : PlaceSound(u)'
  <2>1. \A u \in Threads \ {t} : PlaceSound(u)'
    BY <1>1, <1>2, <1>4, <1>7, OtherPlaces
  <2>2. PlaceSound(t)'
    BY <1>1, <1>2, <1>4, <1>5, <1>7 DEF IInv, PlaceSound, to
  <2> QED
    BY <2>1, <2>2
<1>10. ObjectsSound'
  BY <1>1, <1>2, <1>3, <1>4, <1>5, <1>7 DEF IInv, ObjectsSound, Buffered
<1>11. CountsExact'
  <2>1. ASSUME NEW g \in Frames, of[g] # None
        PROVE  frc'[g] = Cardinality(References(g)') + Cardinality(Dropping(g)')
    <3>1. frc[g] = Cardinality(References(g)) + Cardinality(Dropping(g))
      BY <2>1 DEF IInv, CountsExact
    <3>2. IsFiniteSet(References(g)) /\ Cardinality(References(g)) \in Nat
          /\ IsFiniteSet(Dropping(g)) /\ Cardinality(Dropping(g)) \in Nat
      BY FiniteCounts, Counted
    <3>3. t \notin Dropping(g)
      BY <1>1 DEF Dropping
    <3>4. CASE g = f
      <4>1. References(g)' = References(g) \cup {to} /\ to \notin References(g)
        BY <1>3, <1>4, <1>7, <3>4 DEF References
      <4>2. Dropping(g)' = Dropping(g)
        BY <1>1, <1>2, <1>5, <3>4 DEF Dropping
      <4>3. Cardinality(References(g)') = Cardinality(References(g)) + 1
        BY <3>2, <4>1, Grown
      <4> QED
        BY <1>3, <3>1, <3>2, <3>4, <4>2, <4>3
    <3>5. CASE g = old
      <4>1. References(g)' = References(g) \ {to} /\ to \in References(g)
        BY <1>4, <1>5, <1>7, <3>5 DEF References, old
      <4>2. Dropping(g)' = Dropping(g) \cup {t}
        BY <1>1, <1>2, <3>5 DEF Dropping
      <4>3. /\ Cardinality(References(g)') = Cardinality(References(g)) - 1
            /\ Cardinality(Dropping(g)') = Cardinality(Dropping(g)) + 1
        BY <3>2, <3>3, <4>1, <4>2, Grown, Shrunk
      <4> QED
        BY <1>3, <1>5, <3>1, <3>2, <3>5, <4>3
    <3>6. CASE g # f /\ g # old
      <4>1. References(g)' = References(g)
        BY <1>4, <1>7, <3>6 DEF References, old
      <4>2. Dropping(g)' = Dropping(g)
        BY <1>1, <1>2, <3>6 DEF Dropping
      <4> QED
        BY <1>3, <3>1, <3>6, <4>1, <4>2
    <3> QED
      BY <3>4, <3>5, <3>6
  <2> QED
    BY <1>1, <1>3, <2>1 DEF IInv, CountsExact, Buffered
<1>12. StartsSound'
  <2>1. ASSUME NEW u \in Threads, Starts(u)'
        PROVE  /\ u # t /\ Starts(u) /\ raw'[u] = raw[u] /\ raw[u] \in Frames
               /\ frc'[raw[u]] = frc[raw[u]]
    <3>1. u # t /\ Starts(u) /\ raw'[u] = raw[u]
      BY <1>2, <2>1 DEF Starts
    <3>2. raw[u] \in Frames
      BY <3>1, Pointed DEF IInv, PlaceSound, Starts
    <3> QED
      BY <1>3, <3>1, <3>2
  <2>2. \A u \in Threads : pc'[u] = "fresh" => Starts(u)'
    BY DEF Starts
  <2> QED
    BY <1>1, <1>2, <2>1, <2>2 DEF IInv, StartsSound
<1>13. WritersSound'
  <2>1. ASSUME NEW u \in Threads \ {t}, pc[u] = "check" \/ Writes(u)
        PROVE  frc'[ref'[dst[u]]] = frc[ref[dst[u]]] /\ ref'[dst[u]] = ref[dst[u]]
    <3>1. dst[u] \in Own(u) /\ dst[u] \in Handles /\ ref[dst[u]] \in Frames
      BY <2>1, WriterApart
    <3>2. dst[u] # to /\ ref[dst[u]] # f
      BY <1>3, <1>4, <3>1, OwnApart
    <3> QED
      BY <1>3, <1>7, <3>1, <3>2
  <2>2. frc'[ref'[dst'[t]]] = 1 /\ vrc'[of'[ref'[dst'[t]]]] = 1
    BY <1>1, <1>3, <1>6, <1>7 DEF to
  <2> QED
    BY <1>1, <1>2, <2>1, <2>2 DEF IInv, WritersSound, Writes
<1> QED
  BY <1>8, <1>9, <1>10, <1>11, <1>12, <1>13 DEF IInv

(* PVideoFrame::Set adds the new reference before it releases the old one. *)
LEMMA AssignKeeps ==
  ASSUME IInv, NEW t \in Threads, NEW from \in Own(t) \cup Cached, NEW to \in Own(t),
         from # to, Assign(t, from, to)
  PROVE  IInv'
<1> DEFINE f == ref[from]
           old == ref[to]
<1>1. /\ UNCHANGED <<size, vrc, of, registered, memoryUsed, owes, dst>>
      /\ pc[t] = "idle" /\ f # None /\ old # None
      /\ frc' = [frc EXCEPT ![f] = @ + 1] /\ ref' = [ref EXCEPT ![to] = f]
      /\ raw' = [raw EXCEPT ![t] = old] /\ pc' = [pc EXCEPT ![t] = "drop"]
  BY DEF Assign
<1>2. /\ from \in Handles /\ to \in Handles /\ f \in Frames /\ of[f] # None
      /\ old \in Frames /\ of[old] # None /\ frc[f] >= 1 /\ frc[f] \in Nat
  <2>1. from \in Handles /\ to \in Handles
    BY DEF Own, Handles
  <2> QED
    BY <1>1, <2>1, Pointed, FrameHeld
<1>3. /\ pc'[t] = "drop" /\ raw'[t] = old
      /\ \A u \in Threads \ {t} : pc'[u] = pc[u] /\ raw'[u] = raw[u]
  BY <1>1 DEF IInv, TypeOK
<1>4. dst[t] = None /\ ref[from] = f /\ ref[to] = old
  BY <1>1 DEF IInv, PlaceSound
<1> HIDE DEF f, old
<1>5. /\ frc'[f] = frc[f] + 1 /\ \A g \in Frames \ {f} : frc'[g] = frc[g]
      /\ ref'[to] = f /\ \A h \in Handles \ {to} : ref'[h] = ref[h]
  BY <1>1, <1>2 DEF IInv, TypeOK
<1>6. TypeOK'
  BY <1>1, <1>2, <1>5 DEF IInv, TypeOK, Places
<1>7. \A u \in Threads : PlaceSound(u)'
  <2>1. \A u \in Threads \ {t} : PlaceSound(u)'
    BY <1>1, <1>3, <1>5, OtherPlaces
  <2>2. PlaceSound(t)'
    BY <1>1, <1>3, <1>4 DEF IInv, PlaceSound
  <2> QED
    BY <2>1, <2>2
<1>8. ObjectsSound'
  BY <1>1, <1>2, <1>3, <1>5 DEF IInv, ObjectsSound, Buffered
<1>9. CountsExact'
  <2>1. ASSUME NEW g \in Frames, of[g] # None
        PROVE  frc'[g] = Cardinality(References(g)') + Cardinality(Dropping(g)')
    <3>1. frc[g] = Cardinality(References(g)) + Cardinality(Dropping(g))
      BY <2>1 DEF IInv, CountsExact
    <3>2. IsFiniteSet(References(g)) /\ Cardinality(References(g)) \in Nat
          /\ IsFiniteSet(Dropping(g)) /\ Cardinality(Dropping(g)) \in Nat
      BY FiniteCounts, Counted
    <3>3. t \notin Dropping(g)
      BY <1>1 DEF Dropping
    <3>4. g = old => Dropping(g)' = Dropping(g) \cup {t}
      BY <1>1, <1>3 DEF Dropping
    <3>5. g # old => Dropping(g)' = Dropping(g)
      BY <1>1, <1>3 DEF Dropping
    <3>6. CASE g = f /\ g = old
      <4>1. References(g)' = References(g)
        BY <1>2, <1>4, <1>5, <3>6 DEF References
      <4>2. Cardinality(Dropping(g)') = Cardinality(Dropping(g)) + 1
        BY <3>2, <3>3, <3>4, <3>6, Grown
      <4> QED
        BY <1>5, <3>1, <3>2, <3>6, <4>1, <4>2
    <3>7. CASE g = f /\ g # old
      <4>1. References(g)' = References(g) \cup {to} /\ to \notin References(g)
        BY <1>2, <1>4, <1>5, <3>7 DEF References
      <4>2. Cardinality(References(g)') = Cardinality(References(g)) + 1
        BY <3>2, <4>1, Grown
      <4> QED
        BY <1>5, <3>1, <3>2, <3>5, <3>7, <4>2
    <3>8. CASE g # f /\ g = old
      <4>1. References(g)' = References(g) \ {to} /\ to \in References(g)
        BY <1>2, <1>4, <1>5, <3>8 DEF References
      <4>2. /\ Cardinality(References(g)') = Cardinality(References(g)) - 1
            /\ Cardinality(Dropping(g)') = Cardinality(Dropping(g)) + 1
        BY <3>2, <3>3, <3>4, <3>8, <4>1, Grown, Shrunk
      <4> QED
        BY <1>5, <3>1, <3>2, <3>8, <4>2
    <3>9. CASE g # f /\ g # old
      <4>1. References(g)' = References(g)
        BY <1>2, <1>4, <1>5, <3>9 DEF References
      <4> QED
        BY <1>5, <3>1, <3>5, <3>9, <4>1
    <3> QED
      BY <3>6, <3>7, <3>8, <3>9
  <2>2. \A b : /\ InUse(b)' = InUse(b) /\ Starting(b)' = Starting(b)
               /\ Finishing(b)' = Finishing(b)
    <3>1. \A b : InUse(b)' = InUse(b)
      BY <1>1, <1>2, <1>5 DEF InUse
    <3>2. \A b : Starting(b)' = Starting(b) /\ Finishing(b)' = Finishing(b)
      BY <1>1, <1>3 DEF Starting, Finishing
    <3> QED
      BY <3>1, <3>2
  <2> QED
    BY <1>1, <2>1, <2>2 DEF IInv, CountsExact, Buffered
<1>10. StartsSound'
  <2>1. ASSUME NEW u \in Threads, Starts(u)'
        PROVE  /\ u # t /\ Starts(u) /\ raw'[u] = raw[u] /\ raw[u] \in Frames
               /\ frc'[raw[u]] = frc[raw[u]]
    <3>1. u # t /\ Starts(u) /\ raw'[u] = raw[u]
      BY <1>3, <2>1 DEF Starts
    <3>2. raw[u] \in Frames /\ frc[raw[u]] = 0
      BY <3>1, Pointed DEF IInv, PlaceSound, Starts, StartsSound
    <3> QED
      BY <1>2, <1>5, <3>1, <3>2
  <2>2. \A u \in Threads : pc'[u] = "fresh" => Starts(u)'
    BY DEF Starts
  <2> QED
    BY <1>1, <1>3, <2>1, <2>2 DEF IInv, StartsSound
<1>11. WritersSound'
  <2> SUFFICES ASSUME NEW u \in Threads \ {t}, pc[u] = "check" \/ Writes(u)
               PROVE  frc'[ref'[dst[u]]] = frc[ref[dst[u]]] /\ ref'[dst[u]] = ref[dst[u]]
    BY <1>1, <1>3, <1>4 DEF IInv, WritersSound, Writes
  <2>1. dst[u] \in Own(u) /\ dst[u] \in Handles /\ ref[dst[u]] \in Frames
    BY WriterApart
  <2>2. dst[u] # to /\ dst[u] # from
    BY <2>1, OwnApart
  <2>3. ref[dst[u]] # f
    BY <1>2, <1>4, <2>2, WriterApart
  <2> QED
    BY <1>5, <2>1, <2>2, <2>3
<1> QED
  BY <1>6, <1>7, <1>8, <1>9, <1>10, <1>11 DEF IInv

-----------------------------------------------------------------------------
(* References go. *)

(* What is the same whether a PVideoFrame is released or what Set has      *)
(* replaced: f has one reference less, and nobody was about to write.      *)
Unreferenced(t, f) ==
  /\ f \in Frames /\ of[f] # None /\ of[f] \in Buffered /\ frc[f] >= 1
  /\ pc[t] \in {"idle", "drop"} /\ raw'[t] = None
  /\ \A u \in Threads \ {t} : raw'[u] = raw[u]
  /\ raw' \in [Threads -> Frames \cup {None}] /\ ref' \in [Handles -> Frames \cup {None}]
  /\ \A h \in Handles : ref'[h] # ref[h] => h \in Own(t) \cup Cached /\ ref'[h] = None
  /\ dst[t] # None => ref'[dst[t]] = ref[dst[t]]
  /\ \A u \in Threads : pc[u] = "check" \/ Writes(u) => ref[dst[u]] # f
  /\ \A g \in Frames \ {f} : References(g)' = References(g)
  /\ \A g \in Frames \ {f} : \A u \in Threads :
       pc[u] = "drop" /\ raw[u] = g => u # t
  /\ \/ /\ Cardinality(References(f)') = Cardinality(References(f)) - 1
        /\ \A u \in Threads : pc[u] = "drop" /\ raw[u] = f => u # t
     \/ /\ References(f)' = References(f)
        /\ pc[t] = "drop" /\ raw[t] = f

(* A PVideoFrame that is reset is one reference less. *)
LEMMA ReleaseUnreferences ==
  ASSUME IInv, NEW t \in Threads, NEW h \in Own(t) \cup Cached, Release(t, h),
         NEW f, f = ref[h]
  PROVE  Unreferenced(t, f)
<1>1. /\ pc[t] = "idle" /\ f # None /\ ref' = [ref EXCEPT ![h] = None] /\ raw' = raw
  BY DEF Release
<1>2. h \in Handles
  BY DEF Own, Handles
<1>3. f \in Frames /\ of[f] # None /\ of[f] \in Buffered /\ frc[f] >= 1
  BY <1>1, <1>2, Pointed, FrameHeld
<1>4. raw[t] = None /\ dst[t] = None
  BY <1>1 DEF IInv, PlaceSound
<1>5. ref'[h] = None /\ \A k \in Handles \ {h} : ref'[k] = ref[k]
  BY <1>1, <1>2 DEF IInv, TypeOK
<1>6. raw' \in [Threads -> Frames \cup {None}] /\ ref' \in [Handles -> Frames \cup {None}]
  BY <1>1 DEF IInv, TypeOK
<1>7. ASSUME NEW u \in Threads, pc[u] = "check" \/ Writes(u) PROVE ref[dst[u]] # f
  <2>1. u # t /\ dst[u] \in Own(u) /\ dst[u] \in Handles
    BY <1>1, <1>7, WriterApart DEF Writes
  <2>2. dst[u] # h
    BY <2>1, OwnApart
  <2> QED
    BY <1>2, <1>7, <2>2, WriterApart
<1>8. ASSUME NEW g \in Frames \ {f} PROVE References(g)' = References(g)
  BY <1>2, <1>5, FrameSetsAssumption DEF References
<1>9. Cardinality(References(f)') = Cardinality(References(f)) - 1
  <2>1. References(f)' = References(f) \ {h} /\ h \in References(f)
    BY <1>1, <1>2, <1>3, <1>5 DEF References
  <2> QED
    BY <2>1, FiniteCounts, Shrunk
<1> QED
  BY <1>1, <1>3, <1>4, <1>5, <1>6, <1>7, <1>8, <1>9 DEF Unreferenced

(* So is the Release inside PVideoFrame::Set. *)
LEMMA ReleaseOldUnreferences ==
  ASSUME IInv, NEW t \in Threads, ReleaseOld(t), NEW f, f = raw[t]
  PROVE  Unreferenced(t, f)
<1>1. /\ pc[t] = "drop" /\ raw' = [raw EXCEPT ![t] = None] /\ ref' = ref
  BY DEF ReleaseOld
<1>2. f # None
  BY <1>1 DEF IInv, PlaceSound
<1>3. f \in Frames /\ of[f] # None /\ of[f] \in Buffered /\ frc[f] >= 1
  BY <1>1, <1>2, Pointed, FrameHeld
<1>4. raw'[t] = None /\ \A u \in Threads \ {t} : raw'[u] = raw[u]
  BY <1>1 DEF IInv, TypeOK
<1>5. raw' \in [Threads -> Frames \cup {None}] /\ ref' \in [Handles -> Frames \cup {None}]
  BY <1>1 DEF IInv, TypeOK
<1>6. \A u \in Threads : pc[u] = "check" \/ Writes(u) => ref[dst[u]] # f
  BY WriterApart
<1>7. \A g : References(g)' = References(g)
  BY <1>1 DEF References
<1>8. References(f)' = References(f) /\ \A g \in Frames \ {f} : References(g)' = References(g)
  BY <1>7
<1> QED
  BY <1>1, <1>3, <1>4, <1>5, <1>6, <1>8 DEF Unreferenced

(* The first decrement of Release, wherever it is called. *)
LEMMA ReleasedKeeps ==
  ASSUME IInv, NEW t \in Threads, NEW f, Released(t, f), Unreferenced(t, f),
         UNCHANGED <<size, vrc, of, registered, memoryUsed, dst>>
  PROVE  IInv'
<1> USE DEF Unreferenced
<1> DEFINE p == IF frc[f] = 1 THEN "last" ELSE Resumes(t)
           o == IF frc[f] = 1 THEN of[f] ELSE owes[t]
<1>1. owes[t] = None /\ of[f] # None /\ of[f] \in Buffers
  BY Pointed DEF IInv, PlaceSound
<1>2. /\ frc' = [frc EXCEPT ![f] = @ - 1] /\ pc' = [pc EXCEPT ![t] = p]
      /\ owes' = [owes EXCEPT ![t] = o]
  BY DEF Released, IInv, TypeOK
<1>3. /\ p \in {"last", "idle", "write"}
      /\ p = "last" <=> frc[f] = 1
      /\ p = "idle" => dst[t] = None
      /\ p = "write" => dst[t] # None
      /\ o # None <=> p = "last"
      /\ p = "last" => o = of[f]
      /\ o \in Buffers \cup {None}
  BY <1>1 DEF Resumes
<1> HIDE DEF p, o
<1>4. /\ pc'[t] = p /\ owes'[t] = o
      /\ \A u \in Threads \ {t} : pc'[u] = pc[u] /\ owes'[u] = owes[u]
      /\ frc'[f] = frc[f] - 1 /\ frc[f] \in Nat /\ \A g \in Frames \ {f} : frc'[g] = frc[g]
  BY <1>2 DEF IInv, TypeOK
<1>5. TypeOK'
  <2>1. frc' \in [Frames -> Nat]
    BY <1>2, <1>4 DEF IInv, TypeOK
  <2> QED
    BY <1>2, <1>3, <2>1 DEF IInv, TypeOK, Places
<1>6. \A u \in Threads : PlaceSound(u)'
  <2>1. \A u \in Threads \ {t} : PlaceSound(u)'
    BY <1>4, OtherPlaces
  <2>2. PlaceSound(t)'
    BY <1>3, <1>4 DEF IInv, PlaceSound
  <2> QED
    BY <2>1, <2>2
<1>7. ObjectsSound'
  BY <1>3, <1>4 DEF IInv, ObjectsSound, Buffered
<1>8. CountsExact'
  <2>1. ASSUME NEW g \in Frames, of[g] # None
        PROVE  frc'[g] = Cardinality(References(g)') + Cardinality(Dropping(g)')
    <3>1. frc[g] = Cardinality(References(g)) + Cardinality(Dropping(g))
      BY <2>1 DEF IInv, CountsExact
    <3>2. Cardinality(References(g)) \in Nat
          /\ IsFiniteSet(Dropping(g)) /\ Cardinality(Dropping(g)) \in Nat
      BY FiniteCounts, Counted
    <3>3. Dropping(g)' = Dropping(g) \ {t}
      BY <1>3, <1>4 DEF Dropping
    <3>4. CASE g # f
      <4>1. Dropping(g)' = Dropping(g)
        BY <2>1, <3>3, <3>4 DEF Dropping
      <4> QED
        BY <1>4, <2>1, <3>1, <3>4, <4>1
    <3>5. CASE g = f /\ ~(pc[t] = "drop" /\ raw[t] = f)
      <4>1. Dropping(g)' = Dropping(g)
        BY <3>3, <3>5 DEF Dropping
      <4> QED
        BY <1>4, <3>1, <3>2, <3>5, <4>1
    <3>6. CASE g = f /\ pc[t] = "drop" /\ raw[t] = f
      <4>1. t \in Dropping(g) /\ References(g)' = References(g)
        BY <3>6 DEF Dropping
      <4>2. Cardinality(Dropping(g)') = Cardinality(Dropping(g)) - 1
        BY <3>2, <3>3, <4>1, Shrunk
      <4> QED
        BY <1>4, <3>1, <3>2, <3>6, <4>1, <4>2
    <3> QED
      BY <3>4, <3>5, <3>6
  <2>2. ASSUME NEW b \in Buffered
        PROVE  vrc[b] = Cardinality(InUse(b)') + Cardinality(Starting(b)')
                          + Cardinality(Finishing(b)')
    <3>1. vrc[b] = Cardinality(InUse(b)) + Cardinality(Starting(b)) + Cardinality(Finishing(b))
      BY DEF IInv, CountsExact
    <3>2. /\ IsFiniteSet(InUse(b)) /\ Cardinality(InUse(b)) \in Nat
          /\ Cardinality(Starting(b)) \in Nat
          /\ IsFiniteSet(Finishing(b)) /\ Cardinality(Finishing(b)) \in Nat
      BY FiniteCounts, Counted
    <3>3. Starting(b)' = Starting(b)
      BY <1>3, <1>4 DEF Starting
    <3>4. CASE p = "last" /\ b = of[f]
      <4>1. InUse(b)' = InUse(b) \ {f} /\ f \in InUse(b)
        BY <1>3, <1>4, <3>4 DEF InUse
      <4>2. Finishing(b)' = Finishing(b) \cup {t} /\ t \notin Finishing(b)
        BY <1>3, <1>4, <3>4 DEF Finishing
      <4>3. /\ Cardinality(InUse(b)') = Cardinality(InUse(b)) - 1
            /\ Cardinality(Finishing(b)') = Cardinality(Finishing(b)) + 1
        BY <3>2, <4>1, <4>2, Grown, Shrunk
      <4> QED
        BY <3>1, <3>2, <3>3, <4>3
    <3>5. CASE ~(p = "last" /\ b = of[f])
      <4>1. InUse(b)' = InUse(b)
        BY <1>3, <1>4, <3>5 DEF InUse
      <4>2. Finishing(b)' = Finishing(b)
        BY <1>3, <1>4, <3>5 DEF Finishing
      <4> QED
        BY <3>1, <3>3, <4>1, <4>2
    <3> QED
      BY <3>4, <3>5
  <2> QED
    BY <2>1, <2>2 DEF CountsExact, Buffered
<1>9. StartsSound'
  <2>1. ASSUME NEW u \in Threads, Starts(u)'
        PROVE  /\ u # t /\ Starts(u) /\ raw'[u] = raw[u] /\ raw[u] \in Frames
               /\ frc'[raw[u]] = frc[raw[u]]
    <3>1. u # t /\ Starts(u) /\ raw'[u] = raw[u]
      BY <1>3, <1>4, <2>1 DEF Starts
    <3>2. raw[u] \in Frames /\ frc[raw[u]] = 0
      BY <3>1, Pointed DEF IInv, PlaceSound, Starts, StartsSound
    <3> QED
      BY <1>4, <3>1, <3>2
  <2>2. \A u \in Threads : pc'[u] = "fresh" => Starts(u)'
    BY DEF Starts
  <2> QED
    BY <1>3, <1>4, <2>1, <2>2 DEF IInv, StartsSound
<1>10. WritersSound'
  <2>1. ASSUME NEW u \in Threads, pc[u] = "check" \/ Writes(u)
        PROVE  frc'[ref'[dst[u]]] = frc[ref[dst[u]]] /\ ref'[dst[u]] = ref[dst[u]]
    <3>1. dst[u] \in Own(u) /\ dst[u] \in Handles /\ ref[dst[u]] \in Frames /\ dst[u] # None
      BY <2>1, WriterApart, OwnApart, FrameSetsAssumption
    <3>2. ref'[dst[u]] = ref[dst[u]]
      <4>1. CASE u = t
        BY <3>1, <4>1
      <4>2. CASE u # t
        BY <3>1, <4>2, OwnApart
      <4> QED
        BY <4>1, <4>2
    <3> QED
      BY <1>4, <2>1, <3>1, <3>2
  <2>2. \A u \in Threads : (pc[u] = "check" \/ Writes(u))' => pc[u] = "check" \/ Writes(u)
    BY <1>3, <1>4 DEF Writes, IInv, PlaceSound
  <2>3. \A u \in Threads : Writes(u)' => Writes(u)
    BY <1>3, <1>4 DEF Writes, IInv, PlaceSound
  <2> QED
    BY <2>1, <2>2, <2>3 DEF IInv, WritersSound
<1> QED
  BY <1>5, <1>6, <1>7, <1>8, <1>9, <1>10 DEF IInv

(* Both kinds of Release. *)
LEMMA ReleaseKeeps ==
  ASSUME IInv, NEW t \in Threads,
         ReleaseOld(t) \/ \E h \in Own(t) \cup Cached : Release(t, h)
  PROVE  IInv'
<1>1. CASE ReleaseOld(t)
  <2>1. PICK f : f = raw[t]
    OBVIOUS
  <2> QED
    BY <1>1, <2>1, ReleaseOldUnreferences, ReleasedKeeps DEF ReleaseOld
<1>2. ASSUME NEW h \in Own(t) \cup Cached, Release(t, h) PROVE IInv'
  <2>1. PICK f : f = ref[h]
    OBVIOUS
  <2> QED
    BY <1>2, <2>1, ReleaseUnreferences, ReleasedKeeps DEF Release
<1> QED
  BY <1>1, <1>2

(* Release's second decrement: the buffer cannot have gone meanwhile.      *)
LEMMA ReleaseBufferKeeps ==
  ASSUME IInv, NEW t \in Threads, ReleaseBuffer(t)
  PROVE  IInv'
<1> DEFINE b == owes[t]
           p == Resumes(t)
<1>1. /\ UNCHANGED <<size, of, frc, registered, memoryUsed, ref, raw, dst>>
      /\ pc[t] = "last" /\ vrc' = [vrc EXCEPT ![b] = @ - 1]
      /\ owes' = [owes EXCEPT ![t] = None] /\ pc' = [pc EXCEPT ![t] = p]
  BY DEF ReleaseBuffer
<1>2. /\ p \in {"idle", "write"} /\ (p = "idle" <=> dst[t] = None)
  BY DEF Resumes
<1>3. b # None /\ b \in Buffered /\ b \in Buffers /\ t \in Finishing(b)
  BY <1>1, HeldByRelease, Pointed DEF IInv, PlaceSound
<1>4. vrc[b] >= 1 /\ vrc[b] \in Nat
  BY <1>3, BufferHeld, Pointed
<1> HIDE DEF b, p
<1>5. /\ pc'[t] = p /\ owes'[t] = None
      /\ \A u \in Threads \ {t} : pc'[u] = pc[u] /\ owes'[u] = owes[u]
      /\ vrc'[b] = vrc[b] - 1 /\ \A c \in Buffers \ {b} : vrc'[c] = vrc[c]
  BY <1>1, <1>3 DEF IInv, TypeOK
<1>6. TypeOK'
  BY <1>1, <1>2, <1>3, <1>4 DEF IInv, TypeOK, Places
<1>7. \A u \in Threads : PlaceSound(u)'
  <2>1. \A u \in Threads \ {t} : PlaceSound(u)'
    BY <1>1, <1>5, OtherPlaces
  <2>2. PlaceSound(t)'
    BY <1>1, <1>2, <1>5 DEF IInv, PlaceSound
  <2> QED
    BY <2>1, <2>2
<1>8. ObjectsSound'
  BY <1>1, <1>2, <1>5 DEF IInv, ObjectsSound, Buffered
<1>9. CountsExact'
  <2>1. \A g : References(g)' = References(g) /\ Dropping(g)' = Dropping(g)
    BY <1>1, <1>2, <1>5 DEF References, Dropping
  <2>2. ASSUME NEW c \in Buffered
        PROVE  vrc'[c] = Cardinality(InUse(c)') + Cardinality(Starting(c)')
                           + Cardinality(Finishing(c)')
    <3>1. vrc[c] = Cardinality(InUse(c)) + Cardinality(Starting(c)) + Cardinality(Finishing(c))
      BY DEF IInv, CountsExact
    <3>2. /\ Cardinality(InUse(c)) \in Nat /\ Cardinality(Starting(c)) \in Nat
          /\ IsFiniteSet(Finishing(c)) /\ Cardinality(Finishing(c)) \in Nat
      BY FiniteCounts, Counted
    <3>3. InUse(c)' = InUse(c) /\ Starting(c)' = Starting(c)
      BY <1>1, <1>2, <1>5 DEF InUse, Starting
    <3>4. CASE c = b
      <4>1. Finishing(c)' = Finishing(c) \ {t} /\ t \in Finishing(c)
        BY <1>1, <1>2, <1>3, <1>5, <3>4 DEF Finishing
      <4>2. Cardinality(Finishing(c)') = Cardinality(Finishing(c)) - 1
        BY <3>2, <4>1, Shrunk
      <4> QED
        BY <1>4, <1>5, <3>1, <3>2, <3>3, <3>4, <4>2
    <3>5. CASE c # b
      <4>1. Finishing(c)' = Finishing(c)
        BY <1>1, <1>2, <1>5, <3>5 DEF Finishing, b
      <4>2. c \in Buffers
        BY Pointed
      <4> QED
        BY <1>5, <3>1, <3>3, <3>5, <4>1, <4>2
    <3> QED
      BY <3>4, <3>5
  <2> QED
    BY <1>1, <2>1, <2>2 DEF IInv, CountsExact, Buffered
<1>10. StartsSound'
  <2>1. ASSUME NEW u \in Threads, pc[u] = "fresh" PROVE vrc'[of[raw[u]]] = 1
    <3>1. vrc[of[raw[u]]] = 1 /\ of[raw[u]] # b
      BY <2>1, FreshAlone DEF b
    <3>2. of[raw[u]] \in Buffers
      BY <2>1, Pointed DEF IInv, PlaceSound
    <3> QED
      BY <1>5, <3>1, <3>2
  <2> QED
    BY <1>1, <1>2, <1>5, <2>1 DEF IInv, StartsSound, Starts
<1>11. WritersSound'
  <2>1. ASSUME NEW u \in Threads, Writes(u) PROVE vrc'[of[ref[dst[u]]]] = 1
    <3>1. vrc[of[ref[dst[u]]]] = 1 /\ of[ref[dst[u]]] # b
      BY <2>1, WriterAlone DEF b
    <3>2. of[ref[dst[u]]] \in Buffers
      BY <2>1, WriterApart, Pointed
    <3> QED
      BY <1>5, <3>1, <3>2
  <2>2. \A u \in Threads : /\ Writes(u)' => Writes(u)
                           /\ pc'[u] = "check" => pc[u] = "check"
    BY <1>1, <1>2, <1>5 DEF Writes, IInv, PlaceSound
  <2> QED
    BY <1>1, <2>1, <2>2 DEF IInv, WritersSound
<1> QED
  BY <1>6, <1>7, <1>8, <1>9, <1>10, <1>11 DEF IInv

-----------------------------------------------------------------------------
(* Frames come and go. *)

(* A frame that nobody can reach is handed to a thread, on a buffer that   *)
(* nobody else can reach; what others can reach stays as it is.            *)
GivenTypes ==
  /\ size' \in [Buffers -> Nat] /\ vrc' \in [Buffers -> Nat] /\ frc' \in [Frames -> Nat]
  /\ of' \in [Frames -> Buffers \cup {None}] /\ registered' \subseteq Frames
GivenObject(f, b) ==
  /\ f \in Frames /\ b \in Buffers /\ f \in registered'
  /\ of'[f] = b /\ size'[b] > 0 /\ frc'[f] = 0 /\ vrc'[b] = 1
GivenFrame(g, b) ==
  /\ of'[g] \in {None, of[g]} /\ frc'[g] = frc[g] /\ of'[g] # b
  /\ of'[g] # None => size'[of'[g]] > 0 /\ (g \in registered' <=> g \in registered)
  /\ g \in registered' => of'[g] # None
  /\ of[g] # None /\ of[g] # b /\ size'[of[g]] > 0 => of'[g] = of[g]
GivenBuffer(c) == vrc'[c] = vrc[c] /\ size'[c] \in {0, size[c]}
GivenPointers(f, b) ==
  /\ \A h \in Handles : ref[h] # None => ref[h] # f /\ of[ref[h]] # b /\ of'[ref[h]] = of[ref[h]]
  /\ \A u \in Threads : raw[u] # None => raw[u] # f /\ of[raw[u]] # b /\ of'[raw[u]] = of[raw[u]]
  /\ \A u \in Threads : owes[u] # None => owes[u] # b /\ size'[owes[u]] > 0
Given(f, b) ==
  /\ GivenTypes /\ GivenObject(f, b) /\ GivenPointers(f, b)
  /\ \A g \in Frames \ {f} : GivenFrame(g, b)
  /\ \A c \in Buffers \ {b} : GivenBuffer(c)

(* A buffer and a frame that nobody can reach are given to a thread. *)
LEMMA GivenKeeps ==
  ASSUME IInv, NEW t \in Threads, NEW f, NEW b, Given(f, b),
         UNCHANGED <<ref, owes>>, pc[t] \in {"idle", "copy"},
         NEW place \in {"new", "fresh"}, NEW d \in Own(t),
         raw' = [raw EXCEPT ![t] = f], pc' = [pc EXCEPT ![t] = place],
         dst' = [dst EXCEPT ![t] = d],
         place = "new" <=> ref[d] = None
  PROVE  IInv'
<1>a. /\ f \in Frames /\ b \in Buffers /\ of'[f] = b /\ size'[b] > 0
      /\ frc'[f] = 0 /\ vrc'[b] = 1 /\ f \in registered'
  BY DEF Given, GivenObject
<1>b. \A g \in Frames \ {f} : of'[g] \in {None, of[g]} /\ frc'[g] = frc[g] /\ of'[g] # b
  BY DEF Given, GivenFrame
<1>c. \A c \in Buffers \ {b} : vrc'[c] = vrc[c]
  BY DEF Given, GivenBuffer
<1>d. \A g \in Frames \ {f} : of[g] # None /\ of[g] # b /\ size'[of[g]] > 0 => of'[g] = of[g]
  BY DEF Given, GivenFrame
<1>e. \A h \in Handles : ref[h] # None => ref[h] # f /\ of[ref[h]] # b /\ of'[ref[h]] = of[ref[h]]
  BY DEF Given, GivenPointers
<1>p. \A u \in Threads : raw[u] # None => raw[u] # f /\ of[raw[u]] # b /\ of'[raw[u]] = of[raw[u]]
  BY DEF Given, GivenPointers
<1>o. \A u \in Threads : owes[u] # None => owes[u] # b /\ size'[owes[u]] > 0
  BY DEF Given, GivenPointers
<1>1. /\ pc'[t] = place /\ raw'[t] = f /\ dst'[t] = d
      /\ \A u \in Threads \ {t} : pc'[u] = pc[u] /\ raw'[u] = raw[u] /\ dst'[u] = dst[u]
  BY DEF IInv, TypeOK
<1>2. d \in Handles /\ d # None /\ f # None /\ b # None
  BY <1>a, FrameSetsAssumption DEF Own, Handles
<1>3. TypeOK'
  BY <1>2, <1>a DEF IInv, TypeOK, Places, Given, GivenTypes
<1>4. \A u \in Threads : PlaceSound(u)'
  <2>1. \A u \in Threads \ {t} : PlaceSound(u)'
    BY <1>1, OtherPlaces
  <2>2. PlaceSound(t)'
    BY <1>1, <1>2 DEF IInv, PlaceSound
  <2> QED
    BY <2>1, <2>2
<1>5. \A c \in Buffered' \ {b} : c \in Buffered /\ vrc'[c] = vrc[c]
  BY DEF Given, GivenBuffer, Buffered, IInv, TypeOK
<1>6. ObjectsSound'
  <2>1. \A g \in Frames : of'[g] # None => of'[g] \in Buffered'
    BY <1>a DEF Given, GivenFrame, GivenTypes, Buffered
  <2>2. \A h \in Handles : ref'[h] # None => of'[ref'[h]] # None
    BY <1>e DEF IInv, ObjectsSound
  <2>3. \A u \in Threads : raw'[u] # None => of'[raw'[u]] # None
    BY <1>1, <1>2, <1>a, <1>p DEF IInv, ObjectsSound
  <2>4. \A u \in Threads : owes'[u] # None => owes'[u] \in Buffered'
    BY <1>o DEF IInv, ObjectsSound, Buffered
  <2>5. \A g \in registered' : of'[g] # None
    BY <1>2, <1>a DEF Given, GivenFrame, GivenTypes
  <2>6. ASSUME NEW g \in Frames, of'[g] # None, g \notin registered'
        PROVE  \E s \in Threads : pc'[s] = "sub" /\ raw'[s] = g
    <3>1. g # f /\ g \notin registered /\ of[g] # None
      BY <1>a, <1>b, <2>6 DEF Given, GivenFrame
    <3>2. PICK s \in Threads : pc[s] = "sub" /\ raw[s] = g
      BY <3>1 DEF IInv, ObjectsSound
    <3> QED
      BY <1>1, <3>2
  <2> QED
    BY <2>1, <2>2, <2>3, <2>4, <2>5, <2>6 DEF ObjectsSound
<1>7. CountsExact'
  <2>1. ASSUME NEW g \in Frames, of'[g] # None
        PROVE  frc'[g] = Cardinality(References(g)') + Cardinality(Dropping(g)')
    <3>1. References(g)' = References(g) /\ Dropping(g)' = Dropping(g)
      BY <1>1 DEF References, Dropping
    <3>2. CASE g = f
      <4>1. References(g) = {} /\ Dropping(g) = {}
        BY <1>2, <1>e, <1>p, <3>2 DEF References, Dropping
      <4> QED
        BY <1>a, <3>1, <3>2, <4>1, FS_EmptySet
    <3>3. CASE g # f
      <4>1. of[g] # None
        BY <1>b, <2>1, <3>3
      <4> QED
        BY <1>b, <3>1, <3>3, <4>1 DEF IInv, CountsExact
    <3> QED
      BY <3>2, <3>3
  <2>2. vrc'[b] = Cardinality(InUse(b)') + Cardinality(Starting(b)') + Cardinality(Finishing(b)')
    <3>1. InUse(b)' = {}
      BY <1>a, <1>b DEF InUse
    <3>2. Starting(b)' = {t}
      <4>1. ASSUME NEW u \in Threads \ {t}, pc[u] \in {"new", "sub", "fresh"} PROVE of'[raw[u]] # b
        BY <1>p, <4>1 DEF IInv, PlaceSound
      <4>2. \A u \in Threads : u \in Starting(b)' <=> u = t
        <5>1. pc'[t] \in {"new", "sub", "fresh"} /\ of'[raw'[t]] = b
          BY <1>1, <1>a
        <5>2. \A u \in Threads \ {t} : ~(pc'[u] \in {"new", "sub", "fresh"} /\ of'[raw'[u]] = b)
          BY <1>1, <4>1
        <5> QED
          BY <5>1, <5>2 DEF Starting
      <4>3. Starting(b)' \subseteq Threads
        BY DEF Starting
      <4> QED
        BY <4>2, <4>3
    <3>3. Finishing(b)' = {}
      BY <1>1, <1>2, <1>o DEF Finishing, IInv, PlaceSound
    <3>4. Cardinality({}) = 0 /\ Cardinality({t}) = 1
      BY FS_EmptySet, FS_Singleton
    <3> QED
      BY <1>a, <3>1, <3>2, <3>3, <3>4
  <2>3. ASSUME NEW c \in Buffered' \ {b}
        PROVE  vrc'[c] = Cardinality(InUse(c)') + Cardinality(Starting(c)')
                           + Cardinality(Finishing(c)')
    <3>1. c # None /\ size'[c] > 0
      BY FrameSetsAssumption DEF Buffered
    <3>2. InUse(c)' = InUse(c)
      <4>1. f \notin InUse(c)' /\ f \notin InUse(c)
        <5>1. f \notin InUse(c)'
          BY <1>a DEF InUse
        <5>2. \A h \in Handles : ref[h] # f
          BY <1>a, <1>2, <1>e
        <5>3. \A u \in Threads : raw[u] # f
          BY <1>a, <1>2, <1>p
        <5>4. of[f] # None => frc[f] = 0
          <6>1. References(f) = {} /\ Dropping(f) = {}
            BY <5>2, <5>3 DEF References, Dropping
          <6>2. of[f] # None => frc[f] = Cardinality(References(f)) + Cardinality(Dropping(f))
            BY <1>a DEF IInv, CountsExact
          <6>3. Cardinality({}) = 0
            BY FS_EmptySet
          <6> QED
            BY <6>1, <6>2, <6>3
        <5> QED
          BY <3>1, <5>1, <5>4 DEF InUse
      <4>2. ASSUME NEW g \in Frames \ {f} PROVE of'[g] = c <=> of[g] = c
        BY <3>1, <1>b, <1>d, <4>2
      <4> QED
        BY <1>b, <4>1, <4>2 DEF InUse
    <3>3. Starting(c)' = Starting(c)
      <4>1. \A u \in Threads \ {t} : pc[u] \in {"new", "sub", "fresh"} => of'[raw[u]] = of[raw[u]]
        BY <1>p DEF IInv, PlaceSound
      <4> QED
        BY <1>1, <1>a, <4>1 DEF Starting
    <3>4. Finishing(c)' = Finishing(c)
      BY <1>1 DEF Finishing
    <3> QED
      BY <1>5, <3>2, <3>3, <3>4 DEF IInv, CountsExact
  <2> QED
    BY <2>1, <2>2, <2>3 DEF CountsExact
<1>8. StartsSound'
  <2>1. ASSUME NEW u \in Threads \ {t}, Starts(u)'
        PROVE  /\ Starts(u) /\ raw'[u] = raw[u] /\ raw[u] # f /\ raw[u] \in Frames
               /\ frc'[raw[u]] = 0 /\ of'[raw[u]] = of[raw[u]] /\ of[raw[u]] # b
               /\ of[raw[u]] \in Buffers
    <3>1. Starts(u) /\ raw'[u] = raw[u] /\ raw[u] # None
      BY <1>1, <2>1 DEF Starts, IInv, PlaceSound
    <3>2. raw[u] \in Frames /\ frc[raw[u]] = 0 /\ of[raw[u]] \in Buffers
      BY <3>1, Pointed DEF IInv, StartsSound
    <3> QED
      BY <1>b, <1>p, <3>1, <3>2
  <2>2. \A u \in Threads : pc'[u] = "fresh" => Starts(u)'
    BY DEF Starts
  <2>3. ASSUME NEW u \in Threads, pc'[u] = "fresh" PROVE vrc'[of'[raw'[u]]] = 1
    <3>1. CASE u = t
      BY <1>1, <1>a, <3>1
    <3>2. CASE u # t
      <4>1. vrc[of[raw[u]]] = 1
        BY <1>1, <2>3, <3>2 DEF IInv, StartsSound
      <4> QED
        BY <1>c, <2>1, <2>2, <2>3, <3>2, <4>1
    <3> QED
      BY <3>1, <3>2
  <2>4. \A u, v \in Threads : Starts(u)' /\ Starts(v)' /\ raw'[u] = raw'[v] => u = v
    BY <1>1, <2>1 DEF IInv, StartsSound
  <2>5. \A u \in Threads : Starts(u)' => frc'[raw'[u]] = 0
    BY <1>1, <1>a, <2>1
  <2> QED
    BY <2>3, <2>4, <2>5 DEF StartsSound
<1>9. WritersSound'
  <2>1. ASSUME NEW u \in Threads, pc[u] = "check" \/ Writes(u)
        PROVE  /\ frc'[ref[dst[u]]] = frc[ref[dst[u]]] /\ of'[ref[dst[u]]] = of[ref[dst[u]]]
               /\ vrc'[of[ref[dst[u]]]] = vrc[of[ref[dst[u]]]]
    <3>1. /\ dst[u] \in Handles /\ ref[dst[u]] # None /\ ref[dst[u]] \in Frames
          /\ of[ref[dst[u]]] \in Buffers
      BY <2>1, WriterApart, Pointed
    <3> QED
      BY <1>b, <1>c, <1>e, <3>1
  <2>2. \A u \in Threads : /\ Writes(u)' => Writes(u) /\ u # t
                           /\ pc'[u] = "check" => pc[u] = "check" /\ u # t
    BY <1>1 DEF Writes
  <2> QED
    BY <1>1, <2>1, <2>2 DEF IInv, WritersSound
<1> QED
  BY <1>3, <1>4, <1>6, <1>7, <1>8, <1>9 DEF IInv

(* An unused buffer is given out again. *)
LEMMA ReuseGives ==
  ASSUME IInv, NEW t \in Threads, NEW s, NEW place, Reuse(t, s, place), UNCHANGED <<ref, owes>>
  PROVE  /\ \E f, b : Given(f, b) /\ raw' = [raw EXCEPT ![t] = f]
         /\ pc' = [pc EXCEPT ![t] = place]
<1>0. PICK b \in Smallest(Fits(s)) : \E f \in Listed(b) :
        /\ vrc' = [vrc EXCEPT ![b] = @ + 1]
        /\ of' = [g \in Frames |-> IF g \in Listed(b) \ {f} THEN None ELSE of[g]]
        /\ registered' = registered \ (Listed(b) \ {f})
        /\ raw' = [raw EXCEPT ![t] = f]
        /\ pc' = [pc EXCEPT ![t] = place]
        /\ UNCHANGED <<size, frc, memoryUsed>>
  BY DEF Reuse
<1>1. PICK f \in Listed(b) :
        /\ vrc' = [vrc EXCEPT ![b] = @ + 1]
        /\ of' = [g \in Frames |-> IF g \in Listed(b) \ {f} THEN None ELSE of[g]]
        /\ registered' = registered \ (Listed(b) \ {f})
        /\ raw' = [raw EXCEPT ![t] = f]
        /\ pc' = [pc EXCEPT ![t] = place]
        /\ UNCHANGED <<size, frc, memoryUsed>>
  BY <1>0
<1>2. b \in Unused
  BY <1>0 DEF Smallest, Fits
<1>3. /\ b \in Buffers /\ b # None /\ size[b] > 0 /\ vrc[b] = 0
      /\ f \in Frames /\ f \in registered /\ of[f] = b
  BY <1>1, <1>2, Pointed DEF Unused, Buffered, Listed, IInv, TypeOK
<1>4. /\ \A g \in Frames : of[g] = b => frc[g] = 0 /\ g \in registered
      /\ \A h \in Handles : ref[h] # None => of[ref[h]] # b
      /\ \A u \in Threads : raw[u] # None => of[raw[u]] # b
      /\ \A u \in Threads : owes[u] # b
  BY <1>2, UnusedApart
<1>5. \A g \in Frames \ {f} : of'[g] = IF of[g] = b THEN None ELSE of[g]
  BY <1>1, <1>4 DEF Listed
<1>6. of'[f] = b
  BY <1>1, <1>3
<1>7. \A g \in Frames \ {f} : g \in registered' <=> g \in registered /\ of[g] # b
  BY <1>1 DEF Listed
<1>8. GivenTypes
  <2>1. of' \in [Frames -> Buffers \cup {None}]
    BY <1>1 DEF IInv, TypeOK
  <2>2. vrc' \in [Buffers -> Nat]
    BY <1>1, <1>3 DEF IInv, TypeOK
  <2> QED
    BY <1>1, <2>1, <2>2 DEF IInv, TypeOK, GivenTypes
<1>9. GivenObject(f, b)
  BY <1>1, <1>3, <1>4, <1>6 DEF GivenObject, IInv, TypeOK
<1>10. GivenPointers(f, b)
  <2>1. \A h \in Handles : ref[h] # None => ref[h] \in Frames
    BY Pointed
  <2>2. \A u \in Threads : raw[u] # None => raw[u] \in Frames
    BY Pointed
  <2>3. \A u \in Threads : owes[u] # None => size[owes[u]] > 0
    BY DEF IInv, ObjectsSound, Buffered
  <2> QED
    BY <1>1, <1>3, <1>4, <1>5, <2>1, <2>2, <2>3 DEF GivenPointers
<1>11. ASSUME NEW g \in Frames \ {f} PROVE GivenFrame(g, b)
  <2>1. of[g] # None => size[of[g]] > 0
    BY DEF IInv, ObjectsSound, Buffered
  <2>2. g \in registered => of[g] # None
    BY DEF IInv, ObjectsSound
  <2> QED
    BY <1>1, <1>3, <1>5, <1>7, <2>1, <2>2 DEF GivenFrame
<1>12. \A c \in Buffers \ {b} : GivenBuffer(c)
  BY <1>1 DEF GivenBuffer, IInv, TypeOK
<1> QED
  BY <1>1, <1>8, <1>9, <1>10, <1>11, <1>12 DEF Given

(* What is deleted is unused, and whoever points at something else does    *)
(* not notice.                                                             *)
LEMMA DeletedApart ==
  ASSUME IInv, NEW D, D \subseteq Unused
  PROVE  /\ D \subseteq Buffered /\ Deleted(D) = {g \in Frames : of[g] \in D}
         /\ \A h \in Handles : ref[h] # None =>
              ref[h] \in Frames /\ of[ref[h]] \in Buffered \ D /\ ref[h] \notin Deleted(D)
         /\ \A u \in Threads : raw[u] # None =>
              raw[u] \in Frames /\ of[raw[u]] \in Buffered \ D /\ raw[u] \notin Deleted(D)
         /\ \A u \in Threads : owes[u] # None => owes[u] \in Buffered \ D
<1>1. D \subseteq Buffered
  BY DEF Unused
<1>2. Deleted(D) = {g \in Frames : of[g] \in D}
  <2>1. \A g \in Frames : of[g] \in D => g \in registered
    BY UnusedApart
  <2> QED
    BY <2>1 DEF Deleted, IInv, TypeOK
<1>3. ASSUME NEW h \in Handles, ref[h] # None
      PROVE  ref[h] \in Frames /\ of[ref[h]] \in Buffered \ D
  <2>1. \A b \in Unused : of[ref[h]] # b
    BY <1>3, UnusedApart
  <2> QED
    BY <1>3, <2>1, Pointed
<1>4. ASSUME NEW u \in Threads, raw[u] # None
      PROVE  raw[u] \in Frames /\ of[raw[u]] \in Buffered \ D
  <2>1. \A b \in Unused : of[raw[u]] # b
    BY <1>4, UnusedApart
  <2> QED
    BY <1>4, <2>1, Pointed
<1>5. ASSUME NEW u \in Threads, owes[u] # None PROVE owes[u] \in Buffered \ D
  <2>1. \A b \in Unused : owes[u] # b
    BY <1>5, UnusedApart
  <2> QED
    BY <1>5, <2>1 DEF IInv, ObjectsSound
<1> QED
  BY <1>1, <1>2, <1>3, <1>4, <1>5

(* A new buffer with its first frame. *)
LEMMA AllocateGives ==
  ASSUME IInv, NEW t \in Threads, NEW s \in Nat \ {0}, NEW place, Allocate(t, s, place),
         UNCHANGED <<ref, owes>>
  PROVE  /\ \E f, b : Given(f, b) /\ raw' = [raw EXCEPT ![t] = f]
         /\ pc' = [pc EXCEPT ![t] = place]
<1>0. pc' = [pc EXCEPT ![t] = place]
  BY DEF Allocate
<1>1. PICK D \in Collections(s) :
       \E b \in (Buffers \ Buffered) \cup D, f \in {g \in Frames : of[g] = None} \cup Deleted(D) :
         /\ size' = [c \in Buffers |-> IF c = b THEN s ELSE IF c \in D THEN 0 ELSE size[c]]
         /\ vrc' = [vrc EXCEPT ![b] = 1]
         /\ of' = [g \in Frames |-> IF g = f THEN b ELSE IF g \in Deleted(D) THEN None ELSE of[g]]
         /\ frc' = [frc EXCEPT ![f] = 0]
         /\ registered' = (registered \ Deleted(D)) \cup {f}
         /\ memoryUsed' = MemoryAfter(D) + s
         /\ raw' = [raw EXCEPT ![t] = f]
  BY Zenon DEF Allocate
<1>2. PICK b \in (Buffers \ Buffered) \cup D,
           f \in {g \in Frames : of[g] = None} \cup Deleted(D) :
         /\ size' = [c \in Buffers |-> IF c = b THEN s ELSE IF c \in D THEN 0 ELSE size[c]]
         /\ vrc' = [vrc EXCEPT ![b] = 1]
         /\ of' = [g \in Frames |-> IF g = f THEN b ELSE IF g \in Deleted(D) THEN None ELSE of[g]]
         /\ frc' = [frc EXCEPT ![f] = 0]
         /\ registered' = (registered \ Deleted(D)) \cup {f}
         /\ raw' = [raw EXCEPT ![t] = f]
  BY <1>1
<1>3. D \subseteq Unused
  BY <1>1 DEF Collections
<1> DEFINE X == Deleted(D)
<1>4. /\ D \subseteq Buffered /\ X = {g \in Frames : of[g] \in D}
      /\ \A h \in Handles : ref[h] # None =>
           ref[h] \in Frames /\ of[ref[h]] \in Buffered \ D /\ ref[h] \notin X
      /\ \A u \in Threads : raw[u] # None =>
           raw[u] \in Frames /\ of[raw[u]] \in Buffered \ D /\ raw[u] \notin X
      /\ \A u \in Threads : owes[u] # None => owes[u] \in Buffered \ D
  BY <1>3, DeletedApart
<1>5. Buffered \subseteq Buffers /\ None \notin Buffers
  BY FrameSetsAssumption DEF Buffered
<1>6. /\ b \in Buffers /\ b \notin Buffered \ D /\ b # None
      /\ f \in Frames /\ (of[f] = None \/ f \in X)
  BY <1>2, <1>4, <1>5
<1> HIDE DEF X
<1>7. \A g \in Frames : of[g] # None => of[g] \in Buffered
  BY DEF IInv, ObjectsSound
<1>8. GivenTypes
  <2>1. size' \in [Buffers -> Nat]
    BY <1>2 DEF IInv, TypeOK
  <2>2. vrc' \in [Buffers -> Nat] /\ frc' \in [Frames -> Nat]
    BY <1>2 DEF IInv, TypeOK
  <2>3. of' \in [Frames -> Buffers \cup {None}]
    BY <1>2, <1>6 DEF IInv, TypeOK
  <2>4. registered' \subseteq Frames
    BY <1>2, <1>6 DEF IInv, TypeOK
  <2> QED
    BY <2>1, <2>2, <2>3, <2>4 DEF GivenTypes
<1>9. GivenObject(f, b)
  <2>1. of'[f] = b /\ size'[b] = s /\ f \in registered'
    BY <1>2, <1>6
  <2>2. frc'[f] = 0 /\ vrc'[b] = 1
    BY <1>2, <1>6 DEF IInv, TypeOK
  <2> QED
    BY <1>6, <2>1, <2>2 DEF GivenObject
<1>10. \A c \in Buffered \ D : c # b /\ size'[c] = size[c] /\ size[c] > 0
  <2>1. \A c \in Buffered : size[c] > 0
    BY DEF Buffered
  <2> QED
    BY <1>2, <1>5, <1>6, <2>1
<1>11. \A g \in Frames \ {f} : of'[g] = IF g \in X THEN None ELSE of[g]
  BY <1>2 DEF X
<1>12. GivenPointers(f, b)
  <2>1. ASSUME NEW h \in Handles, ref[h] # None
        PROVE  ref[h] # f /\ of[ref[h]] # b /\ of'[ref[h]] = of[ref[h]]
    <3>1. /\ ref[h] \in Frames /\ of[ref[h]] \in Buffered \ D /\ ref[h] \notin X
          /\ of[ref[h]] # None
      BY <1>4, <1>5, <2>1
    <3> QED
      BY <1>6, <1>10, <1>11, <3>1
  <2>2. ASSUME NEW u \in Threads, raw[u] # None
        PROVE  raw[u] # f /\ of[raw[u]] # b /\ of'[raw[u]] = of[raw[u]]
    <3>1. /\ raw[u] \in Frames /\ of[raw[u]] \in Buffered \ D /\ raw[u] \notin X
          /\ of[raw[u]] # None
      BY <1>4, <1>5, <2>2
    <3> QED
      BY <1>6, <1>10, <1>11, <3>1
  <2>3. \A u \in Threads : owes[u] # None => owes[u] # b /\ size'[owes[u]] > 0
    BY <1>4, <1>10
  <2> QED
    BY <2>1, <2>2, <2>3 DEF GivenPointers
<1>13. ASSUME NEW g \in Frames \ {f} PROVE GivenFrame(g, b)
  <2>1. frc'[g] = frc[g]
    BY <1>2 DEF IInv, TypeOK
  <2>2. g \in registered' <=> g \in registered /\ g \notin X
    BY <1>2 DEF X
  <2>3. g \in registered => of[g] # None
    BY DEF IInv, ObjectsSound
  <2>4. CASE g \in X
    <3>1. of[g] \in D /\ of'[g] = None /\ g \notin registered'
      BY <1>4, <1>11, <2>2, <2>4
    <3>2. of[g] # b => size'[of[g]] = 0
      BY <1>2, <1>4, <1>5, <3>1
    <3> QED
      BY <1>6, <2>1, <3>1, <3>2 DEF GivenFrame
  <2>5. CASE g \notin X
    <3>1. of'[g] = of[g] /\ (g \in registered' <=> g \in registered)
      BY <1>11, <2>2, <2>5
    <3>2. of[g] # None => of[g] # b /\ size'[of[g]] > 0
      <4>1. of[g] # None => of[g] \in Buffered \ D
        BY <1>4, <1>7, <2>5
      <4> QED
        BY <1>10, <4>1
    <3> QED
      BY <1>6, <2>1, <2>3, <3>1, <3>2 DEF GivenFrame
  <2> QED
    BY <2>4, <2>5
<1>14. ASSUME NEW c \in Buffers \ {b} PROVE GivenBuffer(c)
  <2>1. vrc'[c] = vrc[c]
    BY <1>2 DEF IInv, TypeOK
  <2>2. size'[c] \in {0, size[c]}
    BY <1>2
  <2> QED
    BY <2>1, <2>2 DEF GivenBuffer
<1> QED
  BY <1>0, <1>2, <1>8, <1>9, <1>12, <1>13, <1>14 DEF Given

(* Nothing could be allocated: what was deleted stays deleted. *)
LEMMA OutOfMemoryKeeps ==
  ASSUME IInv, NEW t \in Threads, NEW s, OutOfMemory(t, s), UNCHANGED <<ref, owes>>,
         pc[t] \in {"idle", "copy"}
  PROVE  IInv'
<1>1. PICK D \in {Unused, {b \in Unused : size[b] <= s}} :
        /\ size' = [c \in Buffers |-> IF c \in D THEN 0 ELSE size[c]]
        /\ of' = [g \in Frames |-> IF g \in Deleted(D) THEN None ELSE of[g]]
        /\ registered' = registered \ Deleted(D)
        /\ memoryUsed' = MemoryAfter(D)
  BY Zenon DEF OutOfMemory
<1>2. /\ pc' = [pc EXCEPT ![t] = "idle"] /\ dst' = [dst EXCEPT ![t] = None]
      /\ UNCHANGED <<vrc, frc, raw>>
  BY DEF OutOfMemory
<1>3. D \subseteq Unused
  BY <1>1
<1> DEFINE X == Deleted(D)
<1>4. /\ D \subseteq Buffered /\ X = {g \in Frames : of[g] \in D}
      /\ \A h \in Handles : ref[h] # None =>
           ref[h] \in Frames /\ of[ref[h]] \in Buffered \ D /\ ref[h] \notin X
      /\ \A u \in Threads : raw[u] # None =>
           raw[u] \in Frames /\ of[raw[u]] \in Buffered \ D /\ raw[u] \notin X
      /\ \A u \in Threads : owes[u] # None => owes[u] \in Buffered \ D
  BY <1>3, DeletedApart
<1>5. \A g \in Frames : of'[g] = IF g \in X THEN None ELSE of[g]
  BY <1>1 DEF X
<1>6. registered' = registered \ X
  BY <1>1 DEF X
<1> HIDE DEF X
<1>7. Buffered' = Buffered \ D
  BY <1>1 DEF Buffered, IInv, TypeOK
<1>8. None \notin Buffers /\ Buffered \subseteq Buffers
  BY FrameSetsAssumption DEF Buffered
<1>9. /\ pc'[t] = "idle" /\ dst'[t] = None
      /\ \A u \in Threads \ {t} : pc'[u] = pc[u] /\ dst'[u] = dst[u]
  BY <1>2 DEF IInv, TypeOK
<1>10. /\ \A h \in Handles : ref[h] # None => of'[ref[h]] = of[ref[h]]
       /\ \A u \in Threads : raw[u] # None => of'[raw[u]] = of[raw[u]]
  BY <1>4, <1>5
<1>11. TypeOK'
  <2>1. size' \in [Buffers -> Nat]
    BY <1>1 DEF IInv, TypeOK
  <2>2. of' \in [Frames -> Buffers \cup {None}]
    BY <1>1 DEF IInv, TypeOK
  <2> QED
    BY <1>2, <1>6, <2>1, <2>2 DEF IInv, TypeOK, Places
<1>12. \A u \in Threads : PlaceSound(u)'
  <2>1. \A u \in Threads \ {t} : PlaceSound(u)'
    BY <1>2, <1>9, OtherPlaces
  <2>2. PlaceSound(t)'
    BY <1>2, <1>9 DEF IInv, PlaceSound
  <2> QED
    BY <2>1, <2>2
<1>13. ObjectsSound'
  <2>1. \A g \in Frames : of'[g] # None => of'[g] \in Buffered'
    BY <1>4, <1>5, <1>7 DEF IInv, ObjectsSound
  <2>2. \A h \in Handles : ref'[h] # None => of'[ref'[h]] # None
    BY <1>10 DEF IInv, ObjectsSound
  <2>3. \A u \in Threads : raw'[u] # None => of'[raw'[u]] # None
    BY <1>2, <1>10 DEF IInv, ObjectsSound
  <2>4. \A u \in Threads : owes'[u] # None => owes'[u] \in Buffered'
    BY <1>4, <1>7
  <2>5. \A g \in registered' : of'[g] # None
    BY <1>5, <1>6 DEF IInv, ObjectsSound, TypeOK
  <2>6. ASSUME NEW g \in Frames, of'[g] # None, g \notin registered'
        PROVE  \E u \in Threads : pc'[u] = "sub" /\ raw'[u] = g
    <3>1. of[g] # None /\ g \notin registered
      BY <1>5, <1>6, <2>6
    <3>2. PICK u \in Threads : pc[u] = "sub" /\ raw[u] = g
      BY <3>1 DEF IInv, ObjectsSound
    <3> QED
      BY <1>2, <1>9, <3>2
  <2> QED
    BY <2>1, <2>2, <2>3, <2>4, <2>5, <2>6 DEF ObjectsSound
<1>14. CountsExact'
  <2>1. ASSUME NEW g \in Frames, of'[g] # None
        PROVE  frc'[g] = Cardinality(References(g)') + Cardinality(Dropping(g)')
    <3>1. References(g)' = References(g) /\ Dropping(g)' = Dropping(g)
      BY <1>2, <1>9 DEF References, Dropping
    <3>2. of[g] # None
      BY <1>5, <2>1
    <3> QED
      BY <1>2, <3>1, <3>2 DEF IInv, CountsExact
  <2>2. ASSUME NEW b \in Buffered'
        PROVE  vrc'[b] = Cardinality(InUse(b)') + Cardinality(Starting(b)')
                           + Cardinality(Finishing(b)')
    <3>1. b \in Buffered /\ b \notin D /\ b # None
      BY <1>7, <1>8
    <3>2. InUse(b)' = InUse(b)
      BY <1>2, <1>4, <1>5, <3>1 DEF InUse
    <3>3. Starting(b)' = Starting(b)
      <4>1. \A u \in Threads : pc[u] \in {"new", "sub", "fresh"} => of'[raw[u]] = of[raw[u]]
        BY <1>10 DEF IInv, PlaceSound
      <4> QED
        BY <1>2, <1>9, <4>1 DEF Starting
    <3>4. Finishing(b)' = Finishing(b)
      BY <1>2, <1>9 DEF Finishing
    <3> QED
      BY <1>2, <3>1, <3>2, <3>3, <3>4 DEF IInv, CountsExact
  <2> QED
    BY <2>1, <2>2 DEF CountsExact
<1>15. StartsSound'
  <2>1. \A u \in Threads : Starts(u)' => Starts(u) /\ raw[u] # None
    BY <1>9 DEF Starts, IInv, PlaceSound
  <2>2. \A u \in Threads : pc'[u] = "fresh" => pc[u] = "fresh" /\ raw[u] # None
    BY <1>9 DEF IInv, PlaceSound
  <2> QED
    BY <1>2, <1>10, <2>1, <2>2 DEF IInv, StartsSound
<1>16. WritersSound'
  <2>1. \A u \in Threads : /\ Writes(u)' => Writes(u) /\ u # t
                           /\ pc'[u] = "check" => pc[u] = "check" /\ u # t
    BY <1>9 DEF Writes
  <2>2. \A u \in Threads : Writes(u) => of'[ref[dst[u]]] = of[ref[dst[u]]]
    BY <1>10, WriterApart
  <2> QED
    BY <1>2, <1>9, <2>1, <2>2 DEF IInv, WritersSound
<1> QED
  BY <1>11, <1>12, <1>13, <1>14, <1>15, <1>16 DEF IInv

(* NewVideoFrame, whichever way GetNewFrame finds a buffer. *)
LEMMA NewVideoFrameKeeps ==
  ASSUME IInv, NEW t \in Threads, NEW h \in Own(t), NewVideoFrame(t, h)
  PROVE  IInv'
<1>1. pc[t] = "idle" /\ ref[h] = None /\ UNCHANGED <<ref, owes>>
  BY DEF NewVideoFrame
<1>2. PICK s \in Sizes : \/ (Reuse(t, s, "new") \/ Allocate(t, s, "new"))
                              /\ dst' = [dst EXCEPT ![t] = h]
                         \/ OutOfMemory(t, s)
  BY DEF NewVideoFrame
<1>3. s \in Nat \ {0}
  BY FrameSizesAssumption
<1>4. CASE OutOfMemory(t, s)
  BY <1>1, <1>4, OutOfMemoryKeeps
<1>5. CASE Reuse(t, s, "new") \/ Allocate(t, s, "new")
  <2>1. /\ \E f, b : Given(f, b) /\ raw' = [raw EXCEPT ![t] = f]
        /\ pc' = [pc EXCEPT ![t] = "new"]
    BY <1>1, <1>3, <1>5, ReuseGives, AllocateGives
  <2>2. PICK f, b : Given(f, b) /\ raw' = [raw EXCEPT ![t] = f]
    BY <2>1
  <2>3. CASE dst' = [dst EXCEPT ![t] = h]
    BY <1>1, <2>1, <2>2, <2>3, GivenKeeps
  <2> QED
    BY <1>2, <1>4, <2>3
<1> QED
  BY <1>2, <1>4, <1>5

(* The same inside MakeWritable. *)
LEMMA NewCopyKeeps ==
  ASSUME IInv, NEW t \in Threads, NewCopy(t)
  PROVE  IInv'
<1> DEFINE s == size[of[ref[dst[t]]]]
<1>1. /\ pc[t] = "copy" /\ UNCHANGED <<ref, owes>>
      /\ \/ (Reuse(t, s, "fresh") \/ Allocate(t, s, "fresh")) /\ UNCHANGED dst
         \/ OutOfMemory(t, s)
  BY DEF NewCopy
<1>2. dst[t] \in Own(t) /\ dst[t] \in Handles /\ ref[dst[t]] # None
  BY <1>1, Pointed DEF IInv, PlaceSound
<1>3. s \in Nat \ {0}
  BY <1>2, Pointed DEF IInv, TypeOK, Buffered
<1> HIDE DEF s
<1>4. CASE OutOfMemory(t, s)
  BY <1>1, <1>4, OutOfMemoryKeeps
<1>5. CASE (Reuse(t, s, "fresh") \/ Allocate(t, s, "fresh")) /\ UNCHANGED dst
  <2>1. /\ \E f, b : Given(f, b) /\ raw' = [raw EXCEPT ![t] = f]
        /\ pc' = [pc EXCEPT ![t] = "fresh"]
    BY <1>1, <1>3, <1>5, ReuseGives, AllocateGives
  <2>2. PICK f, b : Given(f, b) /\ raw' = [raw EXCEPT ![t] = f]
    BY <2>1
  <2>3. PICK d \in Own(t) : d = dst[t]
    BY <1>2
  <2>4. dst' = [dst EXCEPT ![t] = d] /\ ref[d] # None
    BY <1>2, <1>5, <2>3 DEF IInv, TypeOK
  <2> QED
    BY <1>1, <2>1, <2>2, <2>4, GivenKeeps
<1> QED
  BY <1>1, <1>4, <1>5

(* Another frame on a buffer: the caller's reference keeps the buffer in   *)
(* use, and a writer or a fresh copy has no buffer that others see.        *)
LEMMA NewSubframeKeeps ==
  ASSUME IInv, NEW t \in Threads, NEW from \in Own(t), NEW to \in Own(t),
         NewSubframe(t, from, to)
  PROVE  IInv'
<1> DEFINE b == of[ref[from]]
<1>1. /\ pc[t] = "idle" /\ ref[from] # None /\ ref[to] = None
      /\ pc' = [pc EXCEPT ![t] = "sub"] /\ dst' = [dst EXCEPT ![t] = to]
      /\ vrc' = [vrc EXCEPT ![b] = @ + 1]
      /\ UNCHANGED <<size, registered, memoryUsed, ref, owes>>
  BY DEF NewSubframe
<1>2. PICK f \in Frames : /\ of[f] = None /\ of' = [of EXCEPT ![f] = b]
                          /\ frc' = [frc EXCEPT ![f] = 0] /\ raw' = [raw EXCEPT ![t] = f]
  BY DEF NewSubframe
<1>3. /\ from \in Handles /\ to \in Handles /\ to # None /\ f # None
      /\ b \in Buffered /\ b \in Buffers /\ b # None /\ vrc[b] \in Nat
  <2>1. from \in Handles /\ to \in Handles /\ to # None /\ f # None
    BY FrameSetsAssumption DEF Own, Handles
  <2> QED
    BY <1>1, <2>1, Pointed
<1> HIDE DEF b
<1>4. /\ pc'[t] = "sub" /\ raw'[t] = f /\ dst'[t] = to
      /\ \A u \in Threads \ {t} : pc'[u] = pc[u] /\ raw'[u] = raw[u] /\ dst'[u] = dst[u]
  BY <1>1, <1>2 DEF IInv, TypeOK
<1>5. /\ of'[f] = b /\ \A g \in Frames \ {f} : of'[g] = of[g]
      /\ frc'[f] = 0 /\ \A g \in Frames \ {f} : frc'[g] = frc[g]
      /\ vrc'[b] = vrc[b] + 1 /\ \A c \in Buffers \ {b} : vrc'[c] = vrc[c]
  BY <1>1, <1>2, <1>3 DEF IInv, TypeOK
<1>6. /\ \A h \in Handles : ref[h] # f
      /\ \A u \in Threads : raw[u] # f
  BY <1>2, <1>3 DEF IInv, ObjectsSound
<1>7. TypeOK'
  BY <1>1, <1>2, <1>3 DEF IInv, TypeOK, Places
<1>8. \A u \in Threads : PlaceSound(u)'
  <2>1. \A u \in Threads \ {t} : PlaceSound(u)'
    BY <1>1, <1>4, OtherPlaces
  <2>2. PlaceSound(t)'
    BY <1>1, <1>3, <1>4 DEF IInv, PlaceSound
  <2> QED
    BY <2>1, <2>2
<1>9. ObjectsSound'
  <2>1. \A g \in Frames : of'[g] # None => of'[g] \in Buffered'
    BY <1>1, <1>3, <1>5 DEF IInv, ObjectsSound, Buffered
  <2>2. \A h \in Handles : ref'[h] # None => of'[ref'[h]] # None
    BY <1>1, <1>5, <1>6, Pointed DEF IInv, ObjectsSound
  <2>3. \A u \in Threads : raw'[u] # None => of'[raw'[u]] # None
    BY <1>3, <1>4, <1>5, <1>6, Pointed DEF IInv, ObjectsSound
  <2>4. \A u \in Threads : owes'[u] # None => owes'[u] \in Buffered'
    BY <1>1 DEF IInv, ObjectsSound, Buffered
  <2>5. \A g \in registered' : of'[g] # None
    BY <1>1, <1>2, <1>5 DEF IInv, ObjectsSound, TypeOK
  <2>6. ASSUME NEW g \in Frames, of'[g] # None, g \notin registered'
        PROVE  \E u \in Threads : pc'[u] = "sub" /\ raw'[u] = g
    <3>1. CASE g = f
      BY <1>4, <3>1
    <3>2. CASE g # f
      <4>1. of[g] # None /\ g \notin registered
        BY <1>1, <1>5, <2>6, <3>2
      <4>2. PICK u \in Threads : pc[u] = "sub" /\ raw[u] = g
        BY <4>1 DEF IInv, ObjectsSound
      <4> QED
        BY <1>1, <1>4, <4>2
    <3> QED
      BY <3>1, <3>2
  <2> QED
    BY <2>1, <2>2, <2>3, <2>4, <2>5, <2>6 DEF ObjectsSound
<1>10. CountsExact'
  <2>1. ASSUME NEW g \in Frames, of'[g] # None
        PROVE  frc'[g] = Cardinality(References(g)') + Cardinality(Dropping(g)')
    <3>1. References(g)' = References(g)
      BY <1>1 DEF References
    <3>2. Dropping(g)' = Dropping(g)
      BY <1>1, <1>4 DEF Dropping
    <3>3. CASE g = f
      <4>1. References(g) = {} /\ Dropping(g) = {}
        BY <1>6, <3>3 DEF References, Dropping
      <4>2. Cardinality({}) = 0
        BY FS_EmptySet
      <4> QED
        BY <1>5, <3>1, <3>2, <3>3, <4>1, <4>2
    <3>4. CASE g # f
      <4>1. of[g] # None
        BY <1>5, <2>1, <3>4
      <4> QED
        BY <1>5, <3>1, <3>2, <3>4, <4>1 DEF IInv, CountsExact
    <3> QED
      BY <3>3, <3>4
  <2>2. ASSUME NEW c \in Buffered
        PROVE  vrc'[c] = Cardinality(InUse(c)') + Cardinality(Starting(c)')
                           + Cardinality(Finishing(c)')
    <3>1. c # None /\ c \in Buffers
      BY Pointed
    <3>2. InUse(c)' = InUse(c)
      BY <1>2, <1>5, <3>1 DEF InUse
    <3>3. Finishing(c)' = Finishing(c)
      BY <1>1, <1>4 DEF Finishing
    <3>4. vrc[c] = Cardinality(InUse(c)) + Cardinality(Starting(c)) + Cardinality(Finishing(c))
      BY DEF IInv, CountsExact
    <3>5. \A u \in Threads \ {t} : pc[u] \in {"new", "sub", "fresh"} => of'[raw[u]] = of[raw[u]]
      BY <1>5, <1>6, Pointed DEF IInv, PlaceSound
    <3>6. t \notin Starting(c)
      BY <1>1 DEF Starting
    <3>7. CASE c = b
      <4>1. Starting(c)' = Starting(c) \cup {t}
        BY <1>4, <1>5, <3>5, <3>7 DEF Starting
      <4>2. Cardinality(Starting(c)') = Cardinality(Starting(c)) + 1
        BY <3>6, <4>1, FiniteCounts, Grown
      <4>3. /\ Cardinality(InUse(c)) \in Nat /\ Cardinality(Starting(c)) \in Nat
            /\ Cardinality(Finishing(c)) \in Nat
        BY FiniteCounts, Counted
      <4> QED
        BY <1>5, <3>2, <3>3, <3>4, <3>7, <4>2, <4>3
    <3>8. CASE c # b
      <4>1. Starting(c)' = Starting(c)
        BY <1>4, <1>5, <3>5, <3>6, <3>8 DEF Starting
      <4> QED
        BY <1>5, <3>1, <3>2, <3>3, <3>4, <3>8, <4>1
    <3> QED
      BY <3>7, <3>8
  <2> QED
    BY <1>1, <2>1, <2>2 DEF CountsExact, Buffered
<1>11. StartsSound'
  <2>1. ASSUME NEW u \in Threads \ {t}, Starts(u)'
        PROVE  /\ Starts(u) /\ raw'[u] = raw[u] /\ raw[u] # f /\ raw[u] \in Frames
               /\ frc'[raw[u]] = 0 /\ of'[raw[u]] = of[raw[u]] /\ of[raw[u]] \in Buffers
    <3>1. Starts(u) /\ raw'[u] = raw[u] /\ raw[u] # None /\ raw[u] # f
      BY <1>4, <1>6, <2>1 DEF Starts, IInv, PlaceSound
    <3>2. raw[u] \in Frames /\ frc[raw[u]] = 0 /\ of[raw[u]] \in Buffers
      BY <3>1, Pointed DEF IInv, StartsSound
    <3> QED
      BY <1>5, <3>1, <3>2
  <2>2. ASSUME NEW u \in Threads, pc'[u] = "fresh" PROVE vrc'[of'[raw'[u]]] = 1
    <3>1. u # t /\ pc[u] = "fresh"
      BY <1>4, <2>2
    <3>2. vrc[of[raw[u]]] = 1 /\ of[raw[u]] # b
      BY <1>1, <1>3, <3>1, FreshAlone DEF b
    <3>3. Starts(u)'
      BY <2>2 DEF Starts
    <3> QED
      BY <1>5, <2>1, <3>1, <3>2, <3>3
  <2>3. \A u \in Threads : Starts(u)' => frc'[raw'[u]] = 0
    BY <1>4, <1>5, <2>1
  <2>4. \A u, v \in Threads : Starts(u)' /\ Starts(v)' /\ raw'[u] = raw'[v] => u = v
    BY <1>4, <2>1 DEF IInv, StartsSound
  <2> QED
    BY <2>2, <2>3, <2>4 DEF StartsSound
<1>12. WritersSound'
  <2>1. \A u \in Threads : /\ Writes(u)' => Writes(u) /\ u # t
                           /\ pc'[u] = "check" => pc[u] = "check" /\ u # t
    BY <1>1, <1>4 DEF Writes
  <2>2. ASSUME NEW u \in Threads \ {t}, pc[u] = "check" \/ Writes(u)
        PROVE  /\ frc'[ref[dst[u]]] = 1 /\ of'[ref[dst[u]]] = of[ref[dst[u]]]
               /\ Writes(u) => vrc'[of[ref[dst[u]]]] = 1
    <3>1. /\ dst[u] \in Own(u) /\ dst[u] \in Handles /\ ref[dst[u]] \in Frames
          /\ of[ref[dst[u]]] \in Buffers /\ frc[ref[dst[u]]] = 1
      BY <2>2, WriterApart, Pointed
    <3>2. ref[dst[u]] # f /\ dst[u] # from
      BY <1>6, <3>1, OwnApart
    <3>3. Writes(u) => vrc[of[ref[dst[u]]]] = 1 /\ of[ref[dst[u]]] # b
      BY <1>1, <1>3, <3>2, WriterAlone DEF b
    <3> QED
      BY <1>5, <3>1, <3>2, <3>3
  <2> QED
    BY <1>1, <1>4, <2>1, <2>2 DEF WritersSound
<1> QED
  BY <1>7, <1>8, <1>9, <1>10, <1>11, <1>12 DEF IInv

-----------------------------------------------------------------------------
(* Nothing happens. *)
LEMMA StuttersKeep ==
  ASSUME IInv, UNCHANGED vars
  PROVE  IInv'
<1> USE DEF vars, objects, locals
<1>1. TypeOK'
  BY DEF IInv, TypeOK
<1>2. \A t \in Threads : PlaceSound(t)'
  BY DEF IInv, PlaceSound
<1>3. ObjectsSound'
  BY DEF IInv, ObjectsSound, Buffered
<1>4. CountsExact'
  <2>1. \A f : References(f)' = References(f) /\ Dropping(f)' = Dropping(f)
    BY DEF References, Dropping
  <2>2. \A b : /\ InUse(b)' = InUse(b) /\ Starting(b)' = Starting(b)
               /\ Finishing(b)' = Finishing(b)
    BY DEF InUse, Starting, Finishing
  <2> QED
    BY <2>1, <2>2 DEF IInv, CountsExact, Buffered
<1>5. StartsSound' /\ WritersSound'
  BY DEF IInv, StartsSound, WritersSound, Starts, Writes
<1> QED
  BY <1>1, <1>2, <1>3, <1>4, <1>5 DEF IInv

(* Every step keeps the invariant. *)
LEMMA InvariantHolds == Spec => []IInv
<1>1. Init => IInv
  BY Initially
<1>2. IInv /\ [Next]_vars => IInv'
  <2> SUFFICES ASSUME IInv, Next PROVE IInv'
    BY StuttersKeep
  <2>1. PICK t \in Threads :
          \/ \E h \in Own(t) : NewVideoFrame(t, h) \/ MakeWritable(t, h)
          \/ \E h \in Own(t) \cup Cached : Release(t, h)
          \/ \E from \in Own(t) \cup Cached, to \in Own(t) :
               from # to /\ (Copy(t, from, to) \/ Assign(t, from, to))
          \/ \E from \in Own(t), to \in Own(t) : NewSubframe(t, from, to)
          \/ \E from \in Own(t), to \in Cached : Copy(t, from, to)
          \/ FirstReference(t) \/ RegisterSubframe(t)
          \/ ReleaseOld(t) \/ ReleaseBuffer(t)
          \/ CheckBuffer(t) \/ NewCopy(t) \/ SetToCopy(t) \/ Written(t)
    BY Zenon DEF Next
  <2>2. CASE \E h \in Own(t) : NewVideoFrame(t, h) \/ MakeWritable(t, h)
    BY <2>2, NewVideoFrameKeeps, MakeWritableKeeps
  <2>3. CASE ReleaseOld(t) \/ \E h \in Own(t) \cup Cached : Release(t, h)
    BY <2>3, ReleaseKeeps
  <2>4. CASE \E from \in Own(t) \cup Cached, to \in Own(t) :
               from # to /\ (Copy(t, from, to) \/ Assign(t, from, to))
    BY <2>4, CopyKeeps, AssignKeeps
  <2>5. CASE \E from \in Own(t), to \in Own(t) : NewSubframe(t, from, to)
    BY <2>5, NewSubframeKeeps
  <2>6. CASE \E from \in Own(t), to \in Cached : Copy(t, from, to)
    <3>1. PICK from \in Own(t), to \in Cached : Copy(t, from, to)
      BY <2>6
    <3>2. from # to
      BY FrameSetsAssumption DEF Own
    <3> QED
      BY <3>1, <3>2, CopyKeeps
  <2>7. CASE FirstReference(t) \/ RegisterSubframe(t)
    BY <2>7, FirstReferenceKeeps
  <2>8. CASE ReleaseBuffer(t)
    BY <2>8, ReleaseBufferKeeps
  <2>9. CASE CheckBuffer(t) \/ NewCopy(t)
    BY <2>9, CheckBufferKeeps, NewCopyKeeps
  <2>10. CASE SetToCopy(t) \/ Written(t)
    BY <2>10, SetToCopyKeeps, WrittenKeeps
  <2> QED
    BY <2>1, <2>2, <2>3, <2>4, <2>5, <2>6, <2>7, <2>8, <2>9, <2>10
<1> QED
  BY <1>1, <1>2, PTL DEF Spec

(* AddRef and Release, MakeWritable, Subframe and GetNewFrame in any       *)
(* number of threads keep both counts exact at every step, so that         *)
(* GetNewFrame gives out and deletes only what nobody can reach, and no    *)
(* pointer, plain or counted, dangles.                                     *)
THEOREM CountsStaySound == Spec => []CountsSound
<1>1. IInv => CountsSound
  <2> SUFFICES ASSUME IInv PROVE CountsSound
    OBVIOUS
  <2>1. UnusedMeansUnused
    <3> SUFFICES ASSUME NEW b \in Unused, NEW f \in Frames, of[f] = b
                 PROVE  /\ frc[f] = 0 /\ References(f) = {}
                        /\ \A t \in Threads : raw[t] # f
      BY DEF UnusedMeansUnused
    <3>1. f # None
      BY FrameSetsAssumption
    <3> QED
      BY <3>1, UnusedApart DEF References
  <2>2. NothingDangles
    BY Pointed DEF NothingDangles, IInv, ObjectsSound
  <2> QED
    BY <2>1, <2>2 DEF CountsSound, IInv
<1> QED
  BY <1>1, InvariantHolds, PTL

(* IsWritable looks at the frame's count and then, without a lock, at the  *)
(* buffer's: whoever passes both tests is the only one that can see the    *)
(* data, and stays so until it has written.                                *)
THEOREM WritersStayAlone == Spec => []WriterIsAlone
<1>1. IInv => WriterIsAlone
  <2> SUFFICES ASSUME IInv, NEW t \in Threads, pc[t] = "write", NEW h \in Handles \ {dst[t]},
                      ref[h] # None
               PROVE  of[ref[h]] # of[ref[dst[t]]]
    BY DEF WriterIsAlone
  <2>1. Writes(t)
    BY DEF Writes, IInv, PlaceSound
  <2> QED
    BY <2>1, WriterAlone
<1> QED
  BY <1>1, InvariantHolds, PTL

(* Every buffer has a frame in the registry. *)
BuffersListed == \A b \in Buffered : Listed(b) # {}

-----------------------------------------------------------------------------
(* memory_used against a sum, now, after a step, and with buffers          *)
(* deleted.                                                                *)
LEMMA MemoryTotal == MemoryAccounted <=> memoryUsed \in Nat /\ memoryUsed = Total(size, Buffered)
BY DEF MemoryAccounted, Total

(* After a step. *)
LEMMA MemoryTotalNext ==
  MemoryAccounted' <=> memoryUsed' \in Nat /\ memoryUsed' = Total(size', Buffered')
BY DEF MemoryAccounted, Total, MapThenSumSet, MapThenFoldSet

(* With the buffers of D deleted. *)
LEMMA MemoryAfterTotal == \A D : MemoryAfter(D) = memoryUsed - Total(size, D)
BY DEF MemoryAfter, Total

(* Sums over buffers. *)
LEMMA BufferSums ==
  ASSUME IInv, MemoryAccounted, NEW D, D \subseteq Buffered
  PROVE  /\ IsFiniteSet(Buffered) /\ IsFiniteSet(Buffered \ D)
         /\ MemoryAfter(D) \in Nat /\ MemoryAfter(D) = Total(size, Buffered \ D)
<1>1. IsFiniteSet(Buffered) /\ \A b \in Buffered : size[b] \in Nat
  BY FS_Subset, FrameSetsAssumption DEF Buffered, IInv, TypeOK
<1>2. /\ Total(size, D) \in Nat /\ Total(size, Buffered \ D) \in Nat
      /\ Total(size, Buffered) = Total(size, D) + Total(size, Buffered \ D)
  <2> DEFINE B == Buffered
             W == size
  <2>1. D \subseteq B /\ IsFiniteSet(B) /\ \A b \in B : W[b] \in Nat
    BY <1>1
  <2>2. /\ Total(W, D) \in Nat /\ Total(W, B \ D) \in Nat
        /\ Total(W, B) = Total(W, D) + Total(W, B \ D)
    <3> HIDE DEF B, W
    <3> QED
      BY <2>1, TotalSplits
  <2> QED
    BY <2>2
<1>3. memoryUsed = Total(size, Buffered) /\ MemoryAfter(D) = memoryUsed - Total(size, D)
  BY MemoryTotal, MemoryAfterTotal
<1> QED
  BY <1>1, <1>2, <1>3, FS_Subset

(* Buffers and memory_used stay, and so do the lists. *)
LEMMA OthersKeepMemory ==
  ASSUME IInv, MemoryAccounted, BuffersListed, UNCHANGED <<size, memoryUsed>>,
         \A b \in Buffered : Listed(b)' # {}
  PROVE  MemoryAccounted' /\ BuffersListed'
<1>1. Buffered' = Buffered
  BY DEF Buffered
<1> QED
  BY <1>1, MemoryTotal, MemoryTotalNext DEF BuffersListed

(* The frames that Reuse deletes are not the one it gives out. *)
LEMMA ReuseKeepsMemory ==
  ASSUME IInv, MemoryAccounted, BuffersListed, NEW t, NEW s, NEW place, Reuse(t, s, place)
  PROVE  MemoryAccounted' /\ BuffersListed'
<1> DEFINE Moves(b, f) ==
        /\ of' = [g \in Frames |-> IF g \in Listed(b) \ {f} THEN None ELSE of[g]]
        /\ registered' = registered \ (Listed(b) \ {f})
        /\ UNCHANGED <<size, memoryUsed>>
<1>a. PICK b \in Smallest(Fits(s)) : \E f \in Listed(b) : Moves(b, f)
  BY DEF Reuse
<1>1. PICK f \in Listed(b) : Moves(b, f)
  BY <1>a
<1>2. registered \subseteq Frames
  BY DEF IInv, TypeOK
<1>3. f \in Listed(b)'
  BY <1>1, <1>2 DEF Listed
<1>4. ASSUME NEW c \in Buffered, c # b PROVE Listed(c)' # {}
  <2>1. PICK g \in Listed(c) : TRUE
    BY DEF BuffersListed
  <2>2. g \in Frames /\ g \in registered /\ of[g] = c /\ g \notin Listed(b)
    BY <1>2, <1>4, <2>1 DEF Listed
  <2>3. g \in Listed(c)'
    BY <1>1, <2>2 DEF Listed
  <2> QED
    BY <2>3
<1> QED
  BY <1>1, <1>3, <1>4, OthersKeepMemory

(* What is deleted goes with its frames. *)
LEMMA AllocateKeepsMemory ==
  ASSUME IInv, MemoryAccounted, BuffersListed, NEW t, NEW s \in Nat \ {0}, NEW place,
         Allocate(t, s, place)
  PROVE  MemoryAccounted' /\ BuffersListed'
<1>1. PICK D \in Collections(s) :
        \E b \in (Buffers \ Buffered) \cup D, f \in {g \in Frames : of[g] = None} \cup Deleted(D) :
         /\ size' = [c \in Buffers |-> IF c = b THEN s ELSE IF c \in D THEN 0 ELSE size[c]]
         /\ of' = [g \in Frames |-> IF g = f THEN b ELSE IF g \in Deleted(D) THEN None ELSE of[g]]
         /\ registered' = (registered \ Deleted(D)) \cup {f}
         /\ memoryUsed' = MemoryAfter(D) + s
  BY DEF Allocate
<1>2. PICK b \in (Buffers \ Buffered) \cup D, f \in {g \in Frames : of[g] = None} \cup Deleted(D) :
         /\ size' = [c \in Buffers |-> IF c = b THEN s ELSE IF c \in D THEN 0 ELSE size[c]]
         /\ of' = [g \in Frames |-> IF g = f THEN b ELSE IF g \in Deleted(D) THEN None ELSE of[g]]
         /\ registered' = (registered \ Deleted(D)) \cup {f}
         /\ memoryUsed' = MemoryAfter(D) + s
  BY <1>1
<1>3. /\ D \subseteq Buffered /\ b \in Buffers /\ b \notin Buffered \ D
      /\ registered \subseteq Frames /\ f \in Frames /\ size \in [Buffers -> Nat]
  BY DEF Collections, Unused, Deleted, Buffered, IInv, TypeOK
<1> DEFINE K == Buffered \ D
<1>4. K \subseteq Buffers /\ \A c \in Buffers : c \in K <=> size[c] > 0 /\ c \notin D
  BY DEF Buffered
<1>5. Buffered' = K \cup {b}
  BY <1>2, <1>3, <1>4 DEF Buffered
<1>6. \A c \in K : size'[c] = size[c] /\ size'[c] \in Nat /\ c # b
  BY <1>2, <1>3, <1>4
<1>7. size'[b] = s
  BY <1>2, <1>3
<1>8. IsFiniteSet(K) /\ MemoryAfter(D) \in Nat /\ MemoryAfter(D) = Total(size, K)
  BY <1>3, BufferSums
<1> HIDE DEF K
<1>9. MemoryAccounted'
  <2>1. Total(size', K) = Total(size, K)
    BY <1>6, <1>8, TotalSame
  <2>2. b \notin K /\ \A x \in K \cup {b} : size'[x] \in Int
    BY <1>6, <1>7
  <2>3. Total(size', K \cup {b}) = s + Total(size', K)
    BY <1>7, <1>8, <2>2, TotalAdds
  <2>4. memoryUsed' \in Nat /\ memoryUsed' = Total(size', Buffered')
    BY <1>2, <1>5, <1>8, <2>1, <2>3
  <2> QED
    BY <2>4, MemoryTotalNext
<1>10. BuffersListed'
  <2>1. f \in Listed(b)'
    BY <1>2, <1>3 DEF Listed
  <2>2. ASSUME NEW c \in K PROVE Listed(c)' # {}
    <3>1. c \in Buffered /\ c \notin D /\ c # None
      BY FrameSetsAssumption DEF K, Buffered
    <3>2. PICK g \in Listed(c) : TRUE
      BY <3>1 DEF BuffersListed
    <3>3. g \in registered /\ g \in Frames /\ of[g] = c /\ g \notin Deleted(D) /\ g # f
      BY <1>2, <1>3, <3>1, <3>2 DEF Listed, Deleted
    <3>4. g \in Listed(c)'
      BY <1>2, <3>3 DEF Listed
    <3> QED
      BY <3>4
  <2> QED
    BY <1>5, <2>1, <2>2 DEF BuffersListed
<1> QED
  BY <1>9, <1>10

(* GetNewFrame deletes what is unused, and throws. *)
LEMMA OutOfMemoryKeepsMemory ==
  ASSUME IInv, MemoryAccounted, BuffersListed, NEW t, NEW s, OutOfMemory(t, s)
  PROVE  MemoryAccounted' /\ BuffersListed'
<1>1. PICK D \in {Unused, {b \in Unused : size[b] <= s}} :
       /\ size' = [c \in Buffers |-> IF c \in D THEN 0 ELSE size[c]]
       /\ of' = [g \in Frames |-> IF g \in Deleted(D) THEN None ELSE of[g]]
       /\ registered' = registered \ Deleted(D)
       /\ memoryUsed' = MemoryAfter(D)
  BY DEF OutOfMemory
<1>2. D \subseteq Buffered /\ registered \subseteq Frames /\ size \in [Buffers -> Nat]
  BY DEF Unused, IInv, TypeOK
<1> DEFINE K == Buffered \ D
<1>3. K \subseteq Buffers /\ Buffered' = K
  BY <1>1, <1>2 DEF Buffered
<1>4. \A c \in K : size'[c] = size[c]
  BY <1>1, <1>3
<1>5. IsFiniteSet(K) /\ MemoryAfter(D) \in Nat /\ MemoryAfter(D) = Total(size, K)
  BY <1>2, BufferSums
<1>6. MemoryAccounted'
  <2>1. Total(size', K) = Total(size, K)
    <3> HIDE DEF K
    <3> QED
      BY <1>4, <1>5, TotalSame
  <2> QED
    BY <1>1, <1>3, <1>5, <2>1, MemoryTotalNext
<1>7. BuffersListed'
  <2>1. ASSUME NEW c \in K PROVE Listed(c)' # {}
    <3>1. c \in Buffered /\ c \notin D
      OBVIOUS
    <3>2. PICK g \in Listed(c) : TRUE
      BY <3>1 DEF BuffersListed
    <3>3. g \in registered /\ g \in Frames /\ of[g] = c /\ g \notin Deleted(D)
      BY <1>2, <3>1, <3>2 DEF Listed, Deleted
    <3>4. g \in Listed(c)'
      BY <1>1, <3>3 DEF Listed
    <3> QED
      BY <3>4
  <2> QED
    BY <1>3, <2>1 DEF BuffersListed
<1> QED
  BY <1>6, <1>7

(* Every other step leaves buffers and registered frames where they are.   *)
LEMMA StepKeepsMemory ==
  ASSUME IInv, MemoryAccounted, BuffersListed, [Next]_vars
  PROVE  MemoryAccounted' /\ BuffersListed'
<1>1. ASSUME UNCHANGED <<size, memoryUsed, of>>, registered \subseteq registered'
      PROVE  MemoryAccounted' /\ BuffersListed'
  <2>1. \A b : Listed(b) \subseteq Listed(b)'
    BY <1>1 DEF Listed
  <2> QED
    BY <1>1, <2>1, OthersKeepMemory DEF BuffersListed
<1>2. CASE UNCHANGED vars
  BY <1>1, <1>2 DEF vars, objects
<1>3. CASE Next
  <2>1. PICK t \in Threads :
          \/ \E h \in Own(t) : NewVideoFrame(t, h) \/ MakeWritable(t, h)
          \/ \E h \in Own(t) \cup Cached : Release(t, h)
          \/ \E from \in Own(t) \cup Cached, to \in Own(t) :
               from # to /\ (Copy(t, from, to) \/ Assign(t, from, to))
          \/ \E from \in Own(t), to \in Own(t) : NewSubframe(t, from, to)
          \/ \E from \in Own(t), to \in Cached : Copy(t, from, to)
          \/ FirstReference(t) \/ RegisterSubframe(t)
          \/ ReleaseOld(t) \/ ReleaseBuffer(t)
          \/ CheckBuffer(t) \/ NewCopy(t) \/ SetToCopy(t) \/ Written(t)
    BY <1>3, Zenon DEF Next
  <2>2. CASE \E h \in Own(t) : NewVideoFrame(t, h)
    <3>1. PICK s \in Sizes : Reuse(t, s, "new") \/ Allocate(t, s, "new") \/ OutOfMemory(t, s)
      BY <2>2, Zenon DEF NewVideoFrame
    <3>2. s \in Nat \ {0}
      BY FrameSizesAssumption
    <3> QED
      BY <3>1, <3>2, ReuseKeepsMemory, AllocateKeepsMemory, OutOfMemoryKeepsMemory
  <2>3. CASE NewCopy(t)
    <3> DEFINE s == size[of[ref[dst[t]]]]
    <3>1. Reuse(t, s, "fresh") \/ Allocate(t, s, "fresh") \/ OutOfMemory(t, s)
      BY <2>3, Zenon DEF NewCopy
    <3>2. s \in Nat \ {0}
      <4>1. ref[dst[t]] # None /\ dst[t] \in Handles
        BY <2>3, OwnApart DEF NewCopy, IInv, PlaceSound, TypeOK
      <4>2. of[ref[dst[t]]] \in Buffered
        BY <4>1, Pointed
      <4> QED
        BY <4>2 DEF Buffered, IInv, TypeOK
    <3> HIDE DEF s
    <3> QED
      BY <3>1, <3>2, ReuseKeepsMemory, AllocateKeepsMemory, OutOfMemoryKeepsMemory
  <2>4. CASE \E from \in Own(t), to \in Own(t) : NewSubframe(t, from, to)
    <3>1. PICK from \in Own(t), f \in Frames :
            /\ of[f] = None /\ of' = [of EXCEPT ![f] = of[ref[from]]]
            /\ UNCHANGED <<size, registered, memoryUsed>>
      BY <2>4 DEF NewSubframe
    <3>2. f \notin registered /\ of \in [Frames -> Buffers \cup {None}]
      BY <3>1 DEF IInv, ObjectsSound, TypeOK
    <3>3. \A b : Listed(b)' = Listed(b)
      BY <3>1, <3>2 DEF Listed, IInv, TypeOK
    <3> QED
      BY <3>1, <3>3, OthersKeepMemory DEF BuffersListed
  <2>5. CASE \/ \E h \in Own(t) : MakeWritable(t, h)
             \/ \E h \in Own(t) \cup Cached : Release(t, h)
             \/ \E from \in Own(t) \cup Cached, to \in Own(t) :
                  from # to /\ (Copy(t, from, to) \/ Assign(t, from, to))
             \/ \E from \in Own(t), to \in Cached : Copy(t, from, to)
             \/ FirstReference(t) \/ RegisterSubframe(t)
             \/ ReleaseOld(t) \/ ReleaseBuffer(t)
             \/ CheckBuffer(t) \/ SetToCopy(t) \/ Written(t)
    <3>1. UNCHANGED <<size, memoryUsed, of>> /\ registered \subseteq registered'
      BY <2>5 DEF MakeWritable, Release, Copy, Assign, FirstReference, RegisterSubframe,
                  ReleaseOld, ReleaseBuffer, CheckBuffer, SetToCopy, Written, objects
    <3> QED
      BY <1>1, <3>1
  <2> QED
    BY <2>1, <2>2, <2>3, <2>4, <2>5
<1> QED
  BY <1>2, <1>3

(* The memory that the limit is held against is what the buffers take, and *)
(* everything allocated is in the registry, whatever threads allocate,     *)
(* share, release and collect at the same time: it can be collected.       *)
THEOREM MemoryStaysSound == Spec => []MemorySound
<1>1. Init => MemoryAccounted /\ BuffersListed
  <2> SUFFICES ASSUME Init PROVE MemoryAccounted /\ BuffersListed
    OBVIOUS
  <2>1. Buffered = {} /\ memoryUsed = 0
    BY DEF Init, Buffered
  <2> QED
    BY <2>1, TotalEmpty, MemoryTotal DEF BuffersListed
<1>2. IInv /\ MemoryAccounted /\ BuffersListed /\ [Next]_vars => MemoryAccounted' /\ BuffersListed'
  BY StepKeepsMemory
<1>3. IInv /\ MemoryAccounted /\ BuffersListed => MemorySound
  BY DEF IInv, ObjectsSound, BuffersListed, MemorySound, NothingLeaks
<1> QED
  BY <1>1, <1>2, <1>3, InvariantHolds, PTL DEF Spec

-----------------------------------------------------------------------------
(* Temporary buffers.                                                      *)

(* The first and last of what satisfies a test. *)
LEMMA MinExists ==
  ASSUME NEW S, S \subseteq Nat, S # {}
  PROVE  Min(S) \in S /\ \A x \in S : Min(S) <= x
<1>1. PICK m \in S : \A y \in S : ~ (<<y, m>> \in OpToRel(<, Nat))
  BY NatLessThanWellFounded, WFMin
<1>2. ASSUME NEW y \in S, y < m PROVE FALSE
  <2>1. <<y, m>> \in Nat \X Nat /\ <<y, m>>[1] < <<y, m>>[2]
    BY <1>2
  <2> QED
    BY <1>1, <2>1 DEF OpToRel
<1>3. \A y \in S : m <= y
  BY <1>2
<1> QED
  BY <1>3 DEF Min

(* The last of some places in a sequence is one of them. *)
LEMMA MaxOfSome ==
  ASSUME NEW n \in Nat, NEW S, S \subseteq 1 .. n, S # {}
  PROVE  Max(S) \in S
<1> DEFINE R == {n - x : x \in S}
<1>1. R \subseteq Nat /\ R # {}
  <2>1. PICK x \in S : TRUE
    OBVIOUS
  <2>2. n - x \in R
    BY <2>1
  <2> QED
    BY <2>2
<1>2. PICK y \in R : \A x \in R : y <= x
  <2> HIDE DEF R
  <2> QED
    BY <1>1, MinExists
<1>3. PICK m \in S : y = n - m
  OBVIOUS
<1>4. \A x \in S : m >= x
  BY <1>2, <1>3
<1> QED
  BY <1>4 DEF Max

(* A sequence of one.                                                      *)
LEMMA OnlyOne ==
  ASSUME NEW T, NEW s \in Seq(T), s # <<>>, Len(s) <= 1
  PROVE  Len(s) = 1 /\ s[1] \in T /\ Tail(s) = <<>>
<1>1. Len(s) \in Nat /\ Len(s) # 0
  BY EmptySeq
<1>2. Len(s) = 1
  BY <1>1
<1>3. s[1] \in T
  BY <1>2
<1>4. Tail(s) \in Seq(T) /\ Len(Tail(s)) = 0
  BY <1>2, HeadTailProperties
<1> QED
  BY <1>2, <1>3, <1>4, EmptySeq
-----------------------------------------------------------------------------
(* Where PrivateAlloc puts the buffer: at a multiple of every power of two *)
(* up to the alignment.                                                    *)
LEMMA RoundedDown ==
  ASSUME NEW x \in Nat, NEW p \in PowersOfTwo
  PROVE  /\ RoundDown(x, p) \in Int /\ RoundDown(x, p) <= x /\ x - (p - 1) <= RoundDown(x, p)
         /\ \A q \in PowersOfTwo : q <= p => RoundDown(x, p) % q = 0
<1>1. CASE p = 1    BY <1>1 DEF RoundDown, PowersOfTwo
<1>2. CASE p = 2    BY <1>2 DEF RoundDown, PowersOfTwo
<1>3. CASE p = 4    BY <1>3 DEF RoundDown, PowersOfTwo
<1>4. CASE p = 8    BY <1>4 DEF RoundDown, PowersOfTwo
<1>5. CASE p = 16   BY <1>5 DEF RoundDown, PowersOfTwo
<1>6. CASE p = 32   BY <1>6 DEF RoundDown, PowersOfTwo
<1>7. CASE p = 64   BY <1>7 DEF RoundDown, PowersOfTwo
<1>8. CASE p = 128  BY <1>8 DEF RoundDown, PowersOfTwo
<1>9. CASE p = 256  BY <1>9 DEF RoundDown, PowersOfTwo
<1>10. CASE p = 512  BY <1>10 DEF RoundDown, PowersOfTwo
<1>11. CASE p = 1024 BY <1>11 DEF RoundDown, PowersOfTwo
<1>12. CASE p = 2048 BY <1>12 DEF RoundDown, PowersOfTwo
<1>13. CASE p = 4096 BY <1>13 DEF RoundDown, PowersOfTwo
<1> QED
  BY <1>1, <1>2, <1>3, <1>4, <1>5, <1>6, <1>7, <1>8, <1>9, <1>10, <1>11, <1>12, <1>13
     DEF PowersOfTwo

(* No power of two is 0. *)
LEMMA PowersArePositive == PowersOfTwo \subseteq Nat \ {0}
BY DEF PowersOfTwo

-----------------------------------------------------------------------------
(* What a block's words say, if it is one, and what its user asked for.    *)
LaidOut(d) ==
  /\ d.orig \in Nat /\ Padded(d.alignment) \in PowersOfTwo
  /\ d.ptr = RoundDown(d.orig + Offset(Padded(d.alignment)), Padded(d.alignment))
  /\ d.real = d.size + Offset(Padded(d.alignment))

BlockSound(d, u) ==
  /\ d.ptr = Null => d.pool = Null /\ u = <<>>
  /\ d.ptr # Null => LaidOut(d)
  /\ d.ptr # Null /\ d.pool = Null => u # <<>>
  /\ d.pool # Null => (d.in_use <=> u # <<>>)
  /\ Len(u) <= 1
  /\ u # <<>> => u[1][1] <= d.size /\ u[1][2] <= d.alignment

BlocksTyped ==
  /\ desc \in [Blocks -> Descriptor]
  /\ users \in [Blocks -> Seq(Requests \X Alignments)]

MapSound ==
  /\ Map \in [Envs -> Seq(Blocks)] /\ alive \subseteq Envs
  /\ \A e \in Envs : /\ ToSet(Map[e]) = {b \in Blocks : desc[b].pool = e}
                     /\ IsInjective(Map[e])
                     /\ e \notin alive => Map[e] = <<>>

MemoryCounted == memory_used \in Nat /\ MemoryExact

PoolInv == /\ BlocksTyped /\ \A b \in Blocks : BlockSound(desc[b], users[b])
           /\ MapSound /\ MemoryCounted

-----------------------------------------------------------------------------
(* PrivateAlloc fills in the five words so that the request fits. *)
LEMMA FreshBlock ==
  ASSUME NEW orig \in Origins, NEW s \in Requests, NEW alignment \in Alignments,
         NEW e \in Envs, NEW pooled \in BOOLEAN, Padded(alignment) \in PowersOfTwo
  PROVE  LET d == Block(orig, s, alignment, e, pooled)
         IN  /\ d \in Descriptor /\ d.ptr # Null /\ d.pool = IF pooled THEN e ELSE Null
             /\ BlockSound(d, <<<<s, alignment>>>>)
<1> DEFINE p == Padded(alignment)
           x == orig + Offset(p)
           d == Block(orig, s, alignment, e, pooled)
<1>1. /\ p \in Nat \ {0} /\ WordSize \in Nat \ {0} /\ Null \notin Int /\ orig \in Nat
      /\ s \in Nat /\ alignment \in Nat \ {0}
  BY PowersArePositive, BlocksAssumption
<1>2. x \in Nat /\ Offset(p) \in Nat
  BY <1>1 DEF Offset, ExtraFields
<1>3. RoundDown(x, p) \in Int
  BY <1>2, RoundedDown
<1>4. /\ d.ptr = RoundDown(x, p) /\ d.orig = orig /\ d.real = s + Offset(p)
      /\ d.pool = (IF pooled THEN e ELSE Null) /\ d.size = s /\ d.alignment = alignment
      /\ d.in_use = pooled
  BY DEF Block
<1>5. d \in Descriptor
  <2>1. s + Offset(p) \in Nat
    BY <1>1, <1>2
  <2> QED
    BY <1>1, <1>3, <2>1 DEF Block, Descriptor, Address
<1>6. LaidOut(d)
  <2> HIDE DEF d
  <2> QED
    BY <1>1, <1>4 DEF LaidOut
<1>7. e # Null
  BY BlocksAssumption
<1> DEFINE u == <<<<s, alignment>>>>
<1>8. u # <<>> /\ Len(u) = 1 /\ u[1][1] = s /\ u[1][2] = alignment
  OBVIOUS
<1> HIDE DEF d, p, u
<1>9. BlockSound(d, u)
  BY <1>1, <1>3, <1>4, <1>6, <1>8 DEF BlockSound
<1> QED
  BY <1>1, <1>3, <1>4, <1>5, <1>9 DEF d, u

(* One block changes. *)
LEMMA BlockChanges ==
  ASSUME PoolInv, NEW b \in Blocks, NEW d \in Descriptor, NEW u \in Seq(Requests \X Alignments),
         desc' = [desc EXCEPT ![b] = d], users' = [users EXCEPT ![b] = u], BlockSound(d, u)
  PROVE  /\ BlocksTyped' /\ \A c \in Blocks : BlockSound(desc'[c], users'[c])
         /\ desc'[b] = d /\ \A c \in Blocks \ {b} : desc'[c] = desc[c]
<1>1. /\ desc'[b] = d /\ users'[b] = u
      /\ \A c \in Blocks \ {b} : desc'[c] = desc[c] /\ users'[c] = users[c]
  BY DEF PoolInv, BlocksTyped
<1>2. BlocksTyped'
  BY DEF PoolInv, BlocksTyped
<1>3. \A c \in Blocks : BlockSound(desc'[c], users'[c])
  BY <1>1 DEF PoolInv
<1> QED
  BY <1>1, <1>2, <1>3

(* memory_used and what the destructor subtracts, as sums. *)
LEMMA MemoryOfPool ==
  /\ MemoryExact <=> memory_used = Total(Reals, Allocated)
  /\ MemoryExact' <=> memory_used' = Total(Reals', Allocated')
  /\ \A S : SumReal(S) = Total(Reals, S)
<1>1. \A S : SumReal(S) = Total(Reals, S)
  BY DEF SumReal, Total
<1>2. MemoryExact' <=> memory_used' = Total(Reals', Allocated')
  BY DEF MemoryExact, SumReal, Total, MapThenSumSet, MapThenFoldSet
<1> QED
  BY <1>1, <1>2 DEF MemoryExact

(* What is allocated is finite, and its sizes are numbers. *)
LEMMA AllocatedFinite ==
  ASSUME BlocksTyped
  PROVE  IsFiniteSet(Allocated) /\ \A b \in Blocks : Reals[b] = desc[b].real /\ Reals[b] \in Nat
<1>1. \A b \in Blocks : desc[b].real \in Nat
  BY DEF BlocksTyped, Descriptor
<1> QED
  BY <1>1, FS_Subset, BlocksAssumption DEF Allocated, Reals

(* malloc *)
LEMMA MemoryGrows ==
  ASSUME PoolInv, BlocksTyped', NEW b \in Blocks, desc[b].ptr = Null, desc'[b].ptr # Null,
         \A c \in Blocks \ {b} : desc'[c] = desc[c], memory_used' = memory_used + desc'[b].real
  PROVE  MemoryCounted'
<1> DEFINE A == Allocated
           W == Reals'
<1>1. Allocated' = A \cup {b} /\ b \notin A /\ A \subseteq Blocks
  BY DEF Allocated
<1>2. IsFiniteSet(A) /\ \A c \in A : Reals[c] = desc[c].real
  BY AllocatedFinite DEF PoolInv, Allocated
<1>3. \A c \in Blocks : W[c] = desc'[c].real /\ W[c] \in Nat
  BY DEF Reals, BlocksTyped, Descriptor
<1>4. \A c \in A : Reals[c] = W[c]
  BY <1>1, <1>2, <1>3
<1>5. memory_used \in Nat /\ memory_used = Total(Reals, A)
  BY MemoryOfPool DEF PoolInv, MemoryCounted
<1> HIDE DEF A, W
<1>6. Total(Reals, A) = Total(W, A)
  BY <1>2, <1>4, TotalSame
<1>7. Total(W, A \cup {b}) = W[b] + Total(W, A)
  BY <1>1, <1>2, <1>3, TotalAdds
<1>8. memory_used' = Total(W, Allocated') /\ memory_used' \in Nat
  BY <1>1, <1>3, <1>5, <1>6, <1>7
<1> QED
  BY <1>8, MemoryOfPool DEF MemoryCounted, W

(* free *)
LEMMA MemoryShrinks ==
  ASSUME PoolInv, NEW D, D \subseteq Allocated, \A c \in D : desc'[c].ptr = Null,
         BlocksTyped', \A c \in Blocks \ D : desc'[c] = desc[c],
         memory_used' = memory_used - SumReal(D)
  PROVE  MemoryCounted'
<1> DEFINE A == Allocated
           K == Allocated \ D
           V == Reals
           W == Reals'
<1>1. Allocated' = K /\ K \subseteq Blocks /\ K \cap D = {} /\ A \subseteq Blocks
  BY DEF Allocated
<1>2. IsFiniteSet(A) /\ IsFiniteSet(K) /\ \A c \in Blocks : V[c] = desc[c].real /\ V[c] \in Nat
  BY AllocatedFinite, FS_Subset DEF PoolInv
<1>3. \A c \in Blocks : W[c] = desc'[c].real
  BY DEF Reals
<1>4. \A c \in K : V[c] = W[c]
  BY <1>1, <1>2, <1>3
<1>5. memory_used = Total(V, A) /\ memory_used' = memory_used - Total(V, D)
  BY MemoryOfPool DEF PoolInv, MemoryCounted
<1>6. D \subseteq A /\ K = A \ D /\ \A c \in A : V[c] \in Nat
  BY <1>1, <1>2
<1> HIDE DEF A, K, V, W
<1>7. Total(V, K) = Total(W, K)
  BY <1>2, <1>4, TotalSame
<1>8. /\ Total(V, A) \in Nat /\ Total(V, D) \in Nat /\ Total(V, K) \in Nat
      /\ Total(V, A) = Total(V, D) + Total(V, K)
  <2>1. /\ Total(V, A) \in Nat /\ Total(V, D) \in Nat /\ Total(V, A \ D) \in Nat
        /\ Total(V, A) = Total(V, D) + Total(V, A \ D)
    BY <1>2, <1>6, TotalSplits
  <2> QED
    BY <1>6, <2>1
<1>9. memory_used' \in Nat /\ memory_used' = Total(W, K)
  BY <1>5, <1>7, <1>8
<1> QED
  BY <1>1, <1>9, MemoryOfPool DEF MemoryCounted, W

(* Neither malloc nor free. *)
LEMMA MemoryStays ==
  ASSUME PoolInv, memory_used' = memory_used,
         \A c \in Blocks : desc'[c].ptr = desc[c].ptr /\ desc'[c].real = desc[c].real
  PROVE  MemoryCounted'
<1>1. Allocated' = Allocated /\ Reals' = Reals
  BY DEF Allocated, Reals
<1> QED
  BY <1>1, MemoryOfPool DEF PoolInv, MemoryCounted

-----------------------------------------------------------------------------
(* Allocate's search and the place in the map. *)

(* Allocate's search finds a buffer that suits. *)
LEMMA FoundSuits ==
  ASSUME NEW e \in Envs, Map[e] \in Seq(Blocks), NEW n, NEW a, Found(e, n, a) # 0
  PROVE  Found(e, n, a) \in 1 .. Len(Map[e]) /\ Suits(Map[e][Found(e, n, a)], n, a)
<1> DEFINE I == {i \in 1 .. Len(Map[e]) : Suits(Map[e][i], n, a)}
<1>1. Found(e, n, a) = IF I # {} THEN Min(I) ELSE 0
  BY DEF Found, SelectInSeq
<1>2. I \subseteq Nat
  OBVIOUS
<1>3. I # {} => Min(I) \in I
  <2> HIDE DEF I
  <2> QED
    BY <1>2, MinExists
<1>4. Found(e, n, a) \in I
  <2> HIDE DEF I
  <2> QED
    BY <1>1, <1>3
<1> QED
  BY <1>4

(* The map has the place where a new buffer goes. *)
LEMMA PlaceInside ==
  ASSUME NEW e \in Envs, Map[e] \in Seq(Blocks), NEW n
  PROVE  Place(e, n) \in 1 .. Len(Map[e]) + 1
<1> DEFINE I == {i \in 1 .. Len(Map[e]) : desc[Map[e][i]].size <= n}
<1>1. Place(e, n) = 1 + IF I # {} THEN Max(I) ELSE 0
  BY DEF Place, SelectLastInSeq
<1>2. I \subseteq 1 .. Len(Map[e]) /\ Len(Map[e]) \in Nat
  OBVIOUS
<1>3. I # {} => Max(I) \in 1 .. Len(Map[e])
  <2> HIDE DEF I
  <2> QED
    BY <1>2, MaxOfSome
<1> HIDE DEF I
<1> QED
  BY <1>1, <1>2, <1>3

(* A buffer put into a list is in it once, with those that were. *)
LEMMA Inserted ==
  ASSUME NEW s \in Seq(Blocks), NEW b \in Blocks, NEW i \in 1 .. Len(s) + 1
  PROVE  /\ InsertAt(s, i, b) \in Seq(Blocks) /\ ToSet(InsertAt(s, i, b)) = ToSet(s) \cup {b}
         /\ IsInjective(s) /\ b \notin ToSet(s) => IsInjective(InsertAt(s, i, b))
<1> DEFINE u == SubSeq(s, 1, i - 1)
           v == SubSeq(s, i, Len(s))
           w == u \o <<b>>
           r == InsertAt(s, i, b)
           n == Len(s)
<1>0. n \in Nat /\ i \in Nat \ {0} /\ i <= n + 1 /\ \A j \in 1 .. n : s[j] \in Blocks
  OBVIOUS
<1>1. u \in Seq(Blocks) /\ Len(u) = i - 1 /\ \A j \in 1 .. i - 1 : u[j] = s[j]
  BY <1>0, SubSeqProperties
<1>2. /\ v \in Seq(Blocks) /\ Len(v) = n - i + 1
      /\ \A j \in 1 .. n - i + 1 : v[j] = s[i + j - 1]
  <2>1. /\ v \in Seq(Blocks) /\ Len(v) = IF i <= n THEN n - i + 1 ELSE 0
        /\ \A j \in 1 .. n - i + 1 : v[j] = s[i + j - 1]
    BY <1>0, SubSeqProperties
  <2> QED
    BY <1>0, <2>1
<1>3. r = w \o v
  BY DEF InsertAt
<1> HIDE DEF u, v, r
<1>4. /\ w \in Seq(Blocks) /\ Len(w) = i
      /\ \A j \in 1 .. i : w[j] = IF j < i THEN s[j] ELSE b
  <2>1. <<b>> \in Seq(Blocks) /\ Len(<<b>>) = 1 /\ <<b>>[1] = b
    OBVIOUS
  <2>2. /\ w \in Seq(Blocks) /\ Len(w) = Len(u) + 1
        /\ \A j \in 1 .. Len(u) + 1 : w[j] = IF j <= Len(u) THEN u[j] ELSE <<b>>[j - Len(u)]
    BY <1>1, <2>1, ConcatProperties
  <2>3. ASSUME NEW j \in 1 .. i PROVE w[j] = IF j < i THEN s[j] ELSE b
    <3>1. CASE j < i
      BY <1>0, <1>1, <2>2, <3>1
    <3>2. CASE j = i
      <4>1. j - Len(u) = 1 /\ ~ (j <= Len(u)) /\ j \in 1 .. Len(u) + 1 /\ ~ (j < i)
        BY <1>0, <1>1, <3>2
      <4>2. w[j] = <<b>>[j - Len(u)]
        BY <2>2, <4>1
      <4>3. w[j] = b
        BY <2>1, <4>1, <4>2
      <4> QED
        BY <4>1, <4>3
    <3>3. j < i \/ j = i
      BY <1>0, <2>3
    <3> HIDE DEF w, n
    <3> QED
      BY <3>1, <3>2, <3>3
  <2> QED
    BY <1>0, <1>1, <2>2, <2>3
<1> HIDE DEF w
<1> DEFINE at(j) == IF j < i THEN j ELSE j - 1
<1>5. /\ r \in Seq(Blocks) /\ Len(r) = n + 1 /\ r[i] = b
      /\ \A j \in (1 .. n + 1) \ {i} : r[j] = s[at(j)] /\ at(j) \in 1 .. n
  <2>1. /\ r \in Seq(Blocks) /\ Len(r) = Len(w) + Len(v)
        /\ \A j \in 1 .. Len(w) + Len(v) : r[j] = IF j <= Len(w) THEN w[j] ELSE v[j - Len(w)]
    BY <1>2, <1>3, <1>4, ConcatProperties
  <2>2. Len(w) + Len(v) = n + 1
    BY <1>0, <1>2, <1>4
  <2>3. r[i] = b
    BY <1>0, <1>4, <2>1, <2>2
  <2>4. ASSUME NEW j \in (1 .. n + 1) \ {i} PROVE r[j] = s[at(j)] /\ at(j) \in 1 .. n
    <3>1. CASE j < i
      BY <1>0, <1>4, <2>1, <2>2, <3>1
    <3>2. CASE j > i
      <4>1. j - i \in 1 .. n - i + 1 /\ i + (j - i) - 1 = j - 1 /\ j - 1 \in 1 .. n
        BY <1>0, <3>2
      <4>2. r[j] = v[j - i]
        BY <1>0, <1>4, <2>1, <2>2, <3>2
      <4>3. v[j - i] = s[j - 1]
        BY <1>2, <4>1
      <4> QED
        BY <1>0, <3>2, <4>1, <4>2, <4>3
    <3> QED
      BY <1>0, <3>1, <3>2
  <2> QED
    BY <2>1, <2>2, <2>3, <2>4
<1>6. DOMAIN r = 1 .. n + 1 /\ DOMAIN s = 1 .. n /\ i \in 1 .. n + 1
  BY <1>5, <1>0
<1>7. \A j, k \in (1 .. n + 1) \ {i} : at(j) = at(k) => j = k
  BY <1>0
<1>8. \A k \in 1 .. n : \E j \in (1 .. n + 1) \ {i} : at(j) = k
  <2> SUFFICES ASSUME NEW k \in 1 .. n PROVE \E j \in (1 .. n + 1) \ {i} : at(j) = k
    OBVIOUS
  <2>1. CASE k < i
    BY <1>0, <2>1
  <2>2. CASE k >= i
    <3>1. k + 1 \in (1 .. n + 1) \ {i} /\ at(k + 1) = k
      BY <1>0, <2>2
    <3> QED
      BY <3>1
  <2> QED
    BY <1>0, <2>1, <2>2
<1> HIDE DEF at, n
<1>9. ToSet(r) = ToSet(s) \cup {b}
  <2>1. ASSUME NEW j \in 1 .. n + 1 PROVE r[j] \in ToSet(s) \cup {b}
    BY <1>5, <1>6 DEF ToSet
  <2>2. ASSUME NEW k \in 1 .. n PROVE s[k] \in ToSet(r)
    BY <1>5, <1>6, <1>8 DEF ToSet
  <2>3. b \in ToSet(r)
    BY <1>5, <1>6 DEF ToSet
  <2> QED
    BY <1>6, <2>1, <2>2, <2>3 DEF ToSet
<1>10. ASSUME IsInjective(s), b \notin ToSet(s) PROVE IsInjective(r)
  <2> SUFFICES ASSUME NEW j \in 1 .. n + 1, NEW k \in 1 .. n + 1, r[j] = r[k] PROVE j = k
    BY <1>6 DEF IsInjective
  <2>1. \A m \in 1 .. n : s[m] # b
    BY <1>6, <1>10 DEF ToSet
  <2>2. CASE j = i \/ k = i
    BY <1>5, <2>1, <2>2
  <2>3. CASE j # i /\ k # i
    <3>1. s[at(j)] = s[at(k)] /\ at(j) \in 1 .. n /\ at(k) \in 1 .. n
      BY <1>5, <2>3
    <3>2. at(j) = at(k)
      BY <1>6, <1>10, <3>1 DEF IsInjective
    <3> QED
      BY <1>7, <2>3, <3>2
  <2> QED
    BY <2>2, <2>3
<1> QED
  BY <1>5, <1>9, <1>10 DEF r

-----------------------------------------------------------------------------
(* A pool's buffers stay its own. *)
LEMMA MapStays ==
  ASSUME PoolInv, UNCHANGED <<Map, alive>>, \A c \in Blocks : desc'[c].pool = desc[c].pool
  PROVE  MapSound'
<1>1. \A e \in Envs : {b \in Blocks : desc'[b].pool = e} = {b \in Blocks : desc[b].pool = e}
  OBVIOUS
<1> QED
  BY <1>1 DEF PoolInv, MapSound

(* A buffer of the pool is handed out again. *)
LEMMA AllocatePooledKeeps ==
  ASSUME PoolInv, NEW e \in Envs, NEW n \in Requests, NEW a \in Alignments, AllocatePooled(e, n, a)
  PROVE  PoolInv'
<1> DEFINE i == Found(e, n, a)
           b == Map[e][i]
           d == [desc[b] EXCEPT !.in_use = TRUE]
           u == Append(users[b], <<n, a>>)
<1>1. /\ i # 0 /\ desc' = [desc EXCEPT ![b].in_use = TRUE]
      /\ users' = [users EXCEPT ![b] = Append(@, <<n, a>>)]
      /\ UNCHANGED <<Map, memory_used, alive>>
  BY DEF AllocatePooled
<1>2. Map[e] \in Seq(Blocks)
  BY DEF PoolInv, MapSound
<1>3. i \in 1 .. Len(Map[e]) /\ Suits(b, n, a)
  BY <1>1, <1>2, FoundSuits
<1>4. b \in Blocks /\ desc[b].pool = e
  <2>1. b \in ToSet(Map[e])
    BY <1>2, <1>3 DEF ToSet
  <2> QED
    BY <2>1 DEF PoolInv, MapSound
<1>5. desc[b] \in Descriptor /\ users[b] \in Seq(Requests \X Alignments) /\ e # Null
  BY <1>4, BlocksAssumption DEF PoolInv, BlocksTyped
<1>6. desc[b].size >= n /\ ~desc[b].in_use /\ desc[b].alignment >= a
  BY <1>3 DEF Suits
<1>7. BlockSound(desc[b], users[b])
  BY <1>4 DEF PoolInv
<1>8. users[b] = <<>> /\ desc[b].ptr # Null
  BY <1>4, <1>5, <1>6, <1>7 DEF BlockSound
<1>9. /\ u \in Seq(Requests \X Alignments) /\ Len(u) = 1 /\ u # <<>>
      /\ u[1][1] = n /\ u[1][2] = a
  BY <1>8
<1>10. /\ d \in Descriptor /\ d.ptr = desc[b].ptr /\ d.orig = desc[b].orig
       /\ d.real = desc[b].real /\ d.pool = desc[b].pool /\ d.size = desc[b].size
       /\ d.alignment = desc[b].alignment /\ d.in_use = TRUE
  BY <1>5 DEF Descriptor
<1>11. desc' = [desc EXCEPT ![b] = d] /\ users' = [users EXCEPT ![b] = u]
  BY <1>1, <1>4 DEF PoolInv, BlocksTyped
<1> HIDE DEF d, u, i, b
<1>12. n \in Nat /\ a \in Nat /\ desc[b].size \in Nat /\ desc[b].alignment \in Nat
  BY <1>5, BlocksAssumption DEF Descriptor
<1>13. LaidOut(d)
  BY <1>7, <1>8, <1>10 DEF LaidOut, BlockSound
<1>14. BlockSound(d, u)
  BY <1>4, <1>5, <1>6, <1>8, <1>9, <1>10, <1>12, <1>13 DEF BlockSound
<1>15. /\ BlocksTyped' /\ \A c \in Blocks : BlockSound(desc'[c], users'[c])
       /\ desc'[b] = d /\ \A c \in Blocks \ {b} : desc'[c] = desc[c]
  BY <1>4, <1>9, <1>10, <1>11, <1>14, BlockChanges
<1>16. MapSound'
  BY <1>1, <1>10, <1>15, MapStays
<1>17. MemoryCounted'
  BY <1>1, <1>10, <1>15, MemoryStays
<1> QED
  BY <1>15, <1>16, <1>17 DEF PoolInv

(* malloc gives a block, which becomes a buffer. *)
LEMMA PrivateAllocKeeps ==
  ASSUME PoolInv, NEW e \in Envs, NEW b \in Blocks, NEW n \in Requests, NEW a \in Alignments,
         NEW pooled \in BOOLEAN, PrivateAlloc(e, b, n, a, pooled)
  PROVE  /\ BlocksTyped' /\ \A c \in Blocks : BlockSound(desc'[c], users'[c])
         /\ MemoryCounted'
         /\ desc[b].pool = Null /\ desc'[b].pool = IF pooled THEN e ELSE Null
         /\ \A c \in Blocks \ {b} : desc'[c] = desc[c]
<1>1. PICK orig \in Origins : desc' = [desc EXCEPT ![b] = Block(orig, n, a, e, pooled)]
  BY DEF PrivateAlloc
<1> DEFINE d == Block(orig, n, a, e, pooled)
           u == <<<<n, a>>>>
<1>2. /\ desc[b].ptr = Null /\ Padded(a) \in PowersOfTwo
      /\ users' = [users EXCEPT ![b] = u] /\ memory_used' = memory_used + desc'[b].real
  BY DEF PrivateAlloc
<1>3. /\ d \in Descriptor /\ d.ptr # Null /\ d.pool = IF pooled THEN e ELSE Null
      /\ BlockSound(d, u)
  BY <1>2, FreshBlock
<1>4. u \in Seq(Requests \X Alignments)
  OBVIOUS
<1>5. desc' = [desc EXCEPT ![b] = d]
  BY <1>1
<1> HIDE DEF d, u
<1>6. /\ BlocksTyped' /\ \A c \in Blocks : BlockSound(desc'[c], users'[c])
      /\ desc'[b] = d /\ \A c \in Blocks \ {b} : desc'[c] = desc[c]
  BY <1>2, <1>3, <1>4, <1>5, BlockChanges
<1>7. desc[b].pool = Null
  BY <1>2 DEF PoolInv, BlockSound
<1>8. MemoryCounted'
  BY <1>2, <1>3, <1>6, MemoryGrows
<1> QED
  BY <1>3, <1>6, <1>7, <1>8

(* Allocate, pooled or not, when the pool has no buffer that suits. *)
LEMMA AllocateKeeps ==
  ASSUME PoolInv, NEW e \in Envs, NEW b \in Blocks, NEW n \in Requests, NEW a \in Alignments,
         AllocateNew(e, b, n, a) \/ AllocateNormal(e, b, n, a)
  PROVE  PoolInv'
<1>1. CASE AllocateNew(e, b, n, a)
  <2>1. /\ PrivateAlloc(e, b, n, a, TRUE) /\ UNCHANGED alive /\ e \in alive
        /\ Map' = [Map EXCEPT ![e] = InsertAt(@, Place(e, n), b)]
    BY <1>1 DEF AllocateNew
  <2>2. /\ BlocksTyped' /\ \A c \in Blocks : BlockSound(desc'[c], users'[c])
        /\ MemoryCounted' /\ desc[b].pool = Null /\ desc'[b].pool = e
        /\ \A c \in Blocks \ {b} : desc'[c] = desc[c]
    BY <2>1, PrivateAllocKeeps
  <2> DEFINE r == InsertAt(Map[e], Place(e, n), b)
  <2>3. /\ Map \in [Envs -> Seq(Blocks)] /\ Map[e] \in Seq(Blocks) /\ IsInjective(Map[e])
        /\ b \notin ToSet(Map[e]) /\ e # Null
    BY <2>2, BlocksAssumption DEF PoolInv, MapSound
  <2>4. r \in Seq(Blocks) /\ ToSet(r) = ToSet(Map[e]) \cup {b} /\ IsInjective(r)
    BY <2>3, PlaceInside, Inserted
  <2>5. Map' = [Map EXCEPT ![e] = r]
    BY <2>1
  <2> HIDE DEF r
  <2>6. ASSUME NEW f \in Envs
        PROVE  /\ ToSet(Map'[f]) = {c \in Blocks : desc'[c].pool = f} /\ IsInjective(Map'[f])
               /\ f \notin alive' => Map'[f] = <<>>
    <3>1. ToSet(Map[f]) = {c \in Blocks : desc[c].pool = f} /\ IsInjective(Map[f])
      BY DEF PoolInv, MapSound
    <3>2. CASE f = e
      <4>1. Map'[e] = r
        BY <2>3, <2>5
      <4>2. {c \in Blocks : desc'[c].pool = e} = {c \in Blocks : desc[c].pool = e} \cup {b}
        BY <2>2
      <4>3. e \in alive'
        BY <2>1
      <4> QED
        BY <2>4, <3>1, <3>2, <4>1, <4>2, <4>3
    <3>3. CASE f # e
      <4>1. Map'[f] = Map[f]
        BY <2>3, <2>5, <3>3
      <4>2. f # Null
        BY BlocksAssumption
      <4>3. {c \in Blocks : desc'[c].pool = f} = {c \in Blocks : desc[c].pool = f}
        BY <2>2, <3>3, <4>2
      <4> QED
        BY <2>1, <3>1, <4>1, <4>3 DEF PoolInv, MapSound
    <3> QED
      BY <3>2, <3>3
  <2>7. MapSound'
    BY <2>1, <2>3, <2>4, <2>5, <2>6 DEF PoolInv, MapSound
  <2> QED
    BY <2>2, <2>7 DEF PoolInv
<1>2. CASE AllocateNormal(e, b, n, a)
  <2>1. PrivateAlloc(e, b, n, a, FALSE) /\ UNCHANGED <<Map, alive>>
    BY <1>2 DEF AllocateNormal
  <2>2. /\ BlocksTyped' /\ \A c \in Blocks : BlockSound(desc'[c], users'[c])
        /\ MemoryCounted' /\ desc[b].pool = Null /\ desc'[b].pool = Null
        /\ \A c \in Blocks \ {b} : desc'[c] = desc[c]
    BY <2>1, PrivateAllocKeeps
  <2>3. MapSound'
    BY <2>1, <2>2, MapStays
  <2> QED
    BY <2>2, <2>3 DEF PoolInv
<1> QED
  BY <1>1, <1>2

(* A block that malloc has, has no pool and no user. *)
LEMMA NoBufferSound ==
  /\ NoBuffer \in Descriptor /\ BlockSound(NoBuffer, <<>>)
  /\ NoBuffer.ptr = Null /\ NoBuffer.pool = Null
BY DEF NoBuffer, Descriptor, Address, BlockSound

(* A user gives its buffer back, to the pool or to free. *)
LEMMA FreeKeeps ==
  ASSUME PoolInv, NEW b \in Blocks, Free(b)
  PROVE  PoolInv'
<1>1. /\ users[b] # <<>> /\ users' = [users EXCEPT ![b] = Tail(@)]
      /\ UNCHANGED <<Map, alive>>
  BY DEF Free
<1>2. /\ desc[b] \in Descriptor /\ users[b] \in Seq(Requests \X Alignments)
      /\ BlockSound(desc[b], users[b])
  BY DEF PoolInv, BlocksTyped
<1>3. desc[b].ptr # Null /\ LaidOut(desc[b])
  BY <1>1, <1>2 DEF BlockSound
<1>4. Tail(users[b]) = <<>>
  <2>1. Len(users[b]) <= 1
    BY <1>2 DEF BlockSound
  <2> QED
    BY <1>1, <1>2, <2>1, OnlyOne
<1>5. users' = [users EXCEPT ![b] = <<>>] /\ <<>> \in Seq(Requests \X Alignments)
  <2>1. users' = [users EXCEPT ![b] = Tail(users[b])]
    BY <1>1
  <2>2. users' = [users EXCEPT ![b] = <<>>]
    BY <1>4, <2>1, Zenon
  <2> QED
    BY <2>2, EmptySeq
<1>6. CASE desc[b].pool # Null
  <2>1. BackToPool(b)
    BY <1>6 DEF Free
  <2> DEFINE d == [desc[b] EXCEPT !.in_use = FALSE]
  <2>2. /\ d \in Descriptor /\ d.ptr = desc[b].ptr /\ d.orig = desc[b].orig
        /\ d.real = desc[b].real /\ d.pool = desc[b].pool /\ d.size = desc[b].size
        /\ d.alignment = desc[b].alignment /\ d.in_use = FALSE
    BY <1>2 DEF Descriptor
  <2>3. desc' = [desc EXCEPT ![b] = d] /\ UNCHANGED memory_used
    BY <2>1 DEF BackToPool, PoolInv, BlocksTyped
  <2> HIDE DEF d
  <2>4. BlockSound(d, <<>>)
    BY <1>3, <1>6, <2>2 DEF BlockSound, LaidOut
  <2>5. /\ BlocksTyped' /\ \A c \in Blocks : BlockSound(desc'[c], users'[c])
        /\ desc'[b] = d /\ \A c \in Blocks \ {b} : desc'[c] = desc[c]
    BY <1>5, <2>2, <2>3, <2>4, BlockChanges
  <2>6. MapSound'
    BY <1>1, <2>2, <2>5, MapStays
  <2>7. MemoryCounted'
    BY <2>2, <2>3, <2>5, MemoryStays
  <2> QED
    BY <2>5, <2>6, <2>7 DEF PoolInv
<1>7. CASE desc[b].pool = Null
  <2>1. desc' = [desc EXCEPT ![b] = NoBuffer] /\ memory_used' = memory_used - desc[b].real
    BY <1>7 DEF Free, PrivateFree
  <2>2. /\ BlocksTyped' /\ \A c \in Blocks : BlockSound(desc'[c], users'[c])
        /\ desc'[b] = NoBuffer /\ \A c \in Blocks \ {b} : desc'[c] = desc[c]
    BY <1>5, <2>1, NoBufferSound, BlockChanges
  <2>3. MapSound'
    BY <1>1, <1>7, <2>2, NoBufferSound, MapStays
  <2>4. SumReal({b}) = desc[b].real
    <3>1. IsFiniteSet({}) /\ b \notin {} /\ {} \cup {b} = {b}
      BY FS_EmptySet
    <3>2. Reals[b] = desc[b].real /\ Reals[b] \in Nat
      BY AllocatedFinite DEF PoolInv
    <3>3. Total(Reals, {} \cup {b}) = Reals[b] + Total(Reals, {})
      BY <3>1, <3>2, TotalAdds
    <3>4. Total(Reals, {}) = 0
      BY TotalEmpty
    <3> QED
      BY <3>1, <3>2, <3>3, <3>4, MemoryOfPool
  <2>5. MemoryCounted'
    <3>1. {b} \subseteq Allocated
      BY <1>3 DEF Allocated
    <3> QED
      BY <2>1, <2>2, <2>4, <3>1, NoBufferSound, MemoryShrinks
  <2> QED
    BY <2>2, <2>3, <2>5 DEF PoolInv
<1> QED
  BY <1>6, <1>7

(* An environment is deleted with its pool. *)
LEMMA DestroyKeeps ==
  ASSUME PoolInv, NEW e \in Envs, Destroy(e)
  PROVE  PoolInv'
<1> DEFINE D == Freed(e)
<1>1. /\ HandedOut(e) = {} /\ alive' = alive \ {e} /\ Map' = [Map EXCEPT ![e] = <<>>]
      /\ desc' = [b \in Blocks |-> IF b \in D THEN NoBuffer ELSE desc[b]]
      /\ memory_used' = memory_used - SumReal(D) /\ UNCHANGED users
  BY DEF Destroy
<1>2. D = {b \in Blocks : desc[b].pool = e} /\ D = ToSet(Map[e]) /\ e # Null
  BY BlocksAssumption DEF Freed, PoolInv, MapSound
<1>3. \A b \in D : users[b] = <<>>
  BY <1>1, <1>2 DEF HandedOut
<1>4. D \subseteq Allocated
  BY <1>2 DEF Allocated, PoolInv, BlockSound
<1> HIDE DEF D
<1>5. /\ \A b \in D : b \in Blocks /\ desc'[b] = NoBuffer
      /\ \A b \in Blocks \ D : desc'[b] = desc[b]
  BY <1>1, <1>2
<1>6. BlocksTyped'
  BY <1>1, NoBufferSound DEF PoolInv, BlocksTyped
<1>7. ASSUME NEW b \in Blocks PROVE BlockSound(desc'[b], users'[b])
  <2>1. CASE b \in D
    BY <1>1, <1>3, <1>5, <2>1, NoBufferSound
  <2>2. CASE b \notin D
    BY <1>1, <1>5, <2>2 DEF PoolInv
  <2> QED
    BY <2>1, <2>2
<1>8. MapSound'
  <2>1. Map \in [Envs -> Seq(Blocks)] /\ <<>> \in Seq(Blocks)
    BY DEF PoolInv, MapSound
  <2>2. ASSUME NEW f \in Envs
        PROVE  /\ ToSet(Map'[f]) = {c \in Blocks : desc'[c].pool = f} /\ IsInjective(Map'[f])
               /\ f \notin alive' => Map'[f] = <<>>
    <3>1. f # Null
      BY BlocksAssumption
    <3>2. CASE f = e
      <4>1. Map'[f] = <<>>
        BY <1>1, <2>1, <3>2
      <4>2. {c \in Blocks : desc'[c].pool = f} = {}
        BY <1>2, <1>5, <3>1, <3>2, NoBufferSound
      <4>3. ToSet(<<>>) = {} /\ IsInjective(<<>>)
        BY DEF ToSet, IsInjective
      <4> QED
        BY <4>1, <4>2, <4>3
    <3>3. CASE f # e
      <4>1. Map'[f] = Map[f]
        BY <1>1, <2>1, <3>3
      <4>2. {c \in Blocks : desc'[c].pool = f} = {c \in Blocks : desc[c].pool = f}
        BY <1>2, <1>5, <3>1, <3>3, NoBufferSound
      <4> QED
        BY <1>1, <3>3, <4>1, <4>2 DEF PoolInv, MapSound
    <3> QED
      BY <3>2, <3>3
  <2> QED
    BY <1>1, <2>1, <2>2 DEF PoolInv, MapSound
<1>9. MemoryCounted'
  BY <1>1, <1>4, <1>5, <1>6, NoBufferSound, MemoryShrinks
<1> QED
  BY <1>6, <1>7, <1>8, <1>9 DEF PoolInv

(* Every step of every environment keeps the invariant. *)
LEMMA PoolInvariance == PoolSpec => []PoolInv
<1>1. PoolInit => PoolInv
  <2> SUFFICES ASSUME PoolInit PROVE PoolInv
    OBVIOUS
  <2>1. /\ Map = [e \in Envs |-> <<>>] /\ desc = [b \in Blocks |-> NoBuffer]
        /\ users = [b \in Blocks |-> <<>>] /\ memory_used = 0 /\ alive = Envs
    BY DEF PoolInit
  <2>2. <<>> \in Seq(Blocks) /\ <<>> \in Seq(Requests \X Alignments)
    OBVIOUS
  <2>3. BlocksTyped
    BY <2>1, <2>2, NoBufferSound DEF BlocksTyped
  <2>4. \A b \in Blocks : BlockSound(desc[b], users[b])
    BY <2>1, NoBufferSound
  <2>5. MapSound
    <3>1. ToSet(<<>>) = {} /\ IsInjective(<<>>)
      BY DEF ToSet, IsInjective
    <3>2. \A e \in Envs : {b \in Blocks : desc[b].pool = e} = {}
      BY <2>1, NoBufferSound, BlocksAssumption
    <3> QED
      BY <2>1, <2>2, <3>1, <3>2 DEF MapSound
  <2>6. MemoryCounted
    <3>1. Allocated = {}
      BY <2>1, NoBufferSound DEF Allocated
    <3> QED
      BY <2>1, <3>1, MemoryOfPool, TotalEmpty DEF MemoryCounted
  <2> QED
    BY <2>3, <2>4, <2>5, <2>6 DEF PoolInv
<1>2. PoolInv /\ [PoolNext]_poolVars => PoolInv'
  <2> SUFFICES ASSUME PoolInv, [PoolNext]_poolVars PROVE PoolInv'
    OBVIOUS
  <2>1. ASSUME NEW e \in Envs, NEW n \in Requests, NEW a \in Alignments,
               AllocatePooled(e, n, a)
                 \/ \E b \in Blocks : AllocateNew(e, b, n, a) \/ AllocateNormal(e, b, n, a)
        PROVE  PoolInv'
    BY <2>1, AllocatePooledKeeps, AllocateKeeps
  <2>2. CASE \E b \in Blocks : Free(b)
    BY <2>2, FreeKeeps
  <2>3. CASE \E e \in Envs : Destroy(e)
    BY <2>3, DestroyKeeps
  <2>4. CASE UNCHANGED poolVars
    <3>1. UNCHANGED <<Map, desc, users, memory_used, alive>>
      BY <2>4 DEF poolVars
    <3>2. MapSound' /\ MemoryCounted'
      BY <3>1, MapStays, MemoryStays
    <3> QED
      BY <3>1, <3>2 DEF PoolInv, BlocksTyped
  <2> QED
    BY <2>1, <2>2, <2>3, <2>4 DEF PoolNext
<1> QED
  BY <1>1, <1>2, PTL DEF PoolSpec

(* However filters allocate and free temporary buffers, on whatever        *)
(* threads, whoever has one, recycled or not, has the room and alignment   *)
(* it asked for inside its block, behind the five words, and has it alone. *)
THEOREM BuffersAlwaysFit == PoolSpec => []BuffersFit
<1>1. PoolInv => BuffersFit
  <2> SUFFICES ASSUME PoolInv PROVE RoomEnough /\ OneUser
    BY DEF BuffersFit
  <2>1. OneUser
    BY DEF OneUser, PoolInv, BlockSound
  <2>2. ASSUME NEW b \in Blocks, NEW i \in 1 .. Len(users[b])
        PROVE  /\ users[b][i][2] \in PowersOfTwo => desc[b].ptr % users[b][i][2] = 0
               /\ desc[b].orig <= desc[b].ptr - ExtraFields * WordSize
               /\ desc[b].ptr + users[b][i][1] <= desc[b].orig + desc[b].real
    <3> DEFINE d == desc[b]
               u == users[b]
               p == Padded(d.alignment)
               x == d.orig + Offset(p)
    <3>1. d \in Descriptor /\ u \in Seq(Requests \X Alignments) /\ BlockSound(d, u)
      BY DEF PoolInv, BlocksTyped
    <3>2. i = 1 /\ u # <<>>
      BY <2>2, <3>1 DEF BlockSound
    <3>3. /\ d.ptr # Null /\ LaidOut(d) /\ u[1][1] <= d.size /\ u[1][2] <= d.alignment
          /\ u[1][1] \in Nat /\ u[1][2] \in Nat \ {0} /\ d.size \in Nat /\ d.alignment \in Nat
      <4> HIDE DEF d, u
      <4>1. u[1] \in Requests \X Alignments
        BY <3>1, <3>2, OnlyOne DEF BlockSound
      <4>2. u[1][1] \in Nat /\ u[1][2] \in Nat \ {0}
        BY <4>1, BlocksAssumption
      <4>3. d.size \in Nat /\ d.alignment \in Nat
        BY <3>1 DEF Descriptor
      <4> QED
        BY <3>1, <3>2, <4>2, <4>3 DEF BlockSound
    <3> HIDE DEF d, u, p, x
    <3>4. /\ d.orig \in Nat /\ p \in PowersOfTwo /\ d.ptr = RoundDown(x, p)
          /\ d.real = d.size + Offset(p)
      BY <3>3 DEF LaidOut, p, x
    <3>5. p \in Nat \ {0} /\ WordSize \in Nat \ {0} /\ d.alignment <= p
      <4>1. p \in Nat \ {0} /\ WordSize \in Nat \ {0}
        BY <3>4, PowersArePositive, BlocksAssumption
      <4>2. p = IF d.alignment > WordSize THEN d.alignment ELSE WordSize
        BY DEF Padded, p
      <4>3. d.alignment \in Nat
        BY <3>3
      <4> QED
        BY <4>1, <4>2, <4>3
    <3>6. Offset(p) = 5 * WordSize + p - 1 /\ ExtraFields * WordSize = 5 * WordSize
      BY DEF Offset, ExtraFields
    <3>7. x \in Nat /\ x = d.orig + 5 * WordSize + p - 1
      BY <3>4, <3>5, <3>6 DEF x
    <3>8. /\ d.ptr \in Int /\ d.ptr <= x /\ x - (p - 1) <= d.ptr
          /\ \A q \in PowersOfTwo : q <= p => d.ptr % q = 0
      BY <3>4, <3>7, RoundedDown
    <3>9. u[1][2] \in PowersOfTwo => d.ptr % u[1][2] = 0
      BY <3>3, <3>5, <3>8
    <3>10. d.orig + 5 * WordSize <= d.ptr
      BY <3>4, <3>5, <3>7, <3>8
    <3>11. d.ptr + u[1][1] <= d.orig + d.real
      <4> DEFINE o == Offset(p)
      <4>1. x = d.orig + o /\ o \in Nat /\ d.real = d.size + o
        BY <3>4, <3>5, <3>6 DEF x
      <4> HIDE DEF o
      <4> QED
        BY <3>3, <3>4, <3>7, <3>8, <4>1, SMTT(30)
    <3> QED
      BY <3>2, <3>4, <3>5, <3>6, <3>8, <3>9, <3>10, <3>11 DEF d, u
  <2> QED
    BY <2>1, <2>2 DEF RoomEnough
<1> QED
  BY <1>1, PoolInvariance, PTL

(* What the pools report as used is what their blocks take, and each block *)
(* is once in the pool that it belongs to, or has a user who will free it. *)
THEOREM BuffersStayAccounted == PoolSpec => []BuffersAccounted
<1>1. PoolInv => BuffersAccounted
  <2> SUFFICES ASSUME PoolInv PROVE PoolTypeOK /\ MemoryExact /\ NoBlockLost
    BY DEF BuffersAccounted
  <2>1. PoolTypeOK
    <3>1. \A b \in Blocks : /\ users[b] # <<>> => desc[b].ptr # Null
                            /\ desc[b].pool # Null => (desc[b].in_use <=> users[b] # <<>>)
      BY DEF PoolInv, BlockSound
    <3> QED
      BY <3>1 DEF PoolInv, BlocksTyped, MapSound, MemoryCounted, PoolTypeOK
  <2>2. ASSUME NEW b \in Allocated
        PROVE  IF desc[b].pool = Null
               THEN users[b] # <<>>
               ELSE Cardinality({i \in DOMAIN Map[desc[b].pool] : Map[desc[b].pool][i] = b}) = 1
    <3>1. b \in Blocks /\ desc[b].ptr # Null /\ desc[b] \in Descriptor
      BY DEF Allocated, PoolInv, BlocksTyped
    <3>2. CASE desc[b].pool = Null
      BY <3>1, <3>2 DEF PoolInv, BlockSound
    <3>3. CASE desc[b].pool # Null
      <4> DEFINE s == Map[desc[b].pool]
      <4>1. desc[b].pool \in Envs
        BY <3>1, <3>3 DEF Descriptor
      <4>2. b \in ToSet(s) /\ IsInjective(s)
        BY <3>1, <4>1 DEF PoolInv, MapSound
      <4>3. PICK i \in DOMAIN s : s[i] = b
        BY <4>2 DEF ToSet
      <4>4. {j \in DOMAIN s : s[j] = b} = {i}
        BY <4>2, <4>3 DEF IsInjective
      <4> QED
        BY <3>3, <4>4, FS_Singleton
    <3> QED
      BY <3>2, <3>3
  <2> QED
    BY <2>1, <2>2 DEF PoolInv, MemoryCounted, NoBlockLost
<1> QED
  BY <1>1, PoolInvariance, PTL
=============================================================================
