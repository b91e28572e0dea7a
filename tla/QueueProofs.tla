----------------------------- MODULE QueueProofs ------------------------------
(***************************************************************************)
(* No event of the queue is lost or duplicated, and topics reach the hub   *)
(* first in, first out, for every set of topics and callers and any number *)
(* of events.                                                              *)
(*                                                                         *)
(* The argument is about one topic at a time.  Its events lie in places,   *)
(* and a step of the queue does one of three things to them: nothing, put  *)
(* a new event at the end of the queue, or move the first few events of    *)
(* one place to the end of another.  The three facts are proved of any     *)
(* set of places first, and of the actions after it.                       *)
(***************************************************************************)
EXTENDS Queue, SequenceTheorems, TLAPS

-----------------------------------------------------------------------------
(* Maps of topics to events.                                               *)

(* The events of t in the map m: Go's m[t].                                *)
Of(m, t) == IF t \in DOMAIN m THEN m[t] ELSE << >>

LEMMA EmptyIsBatch == IsBatch(Empty) /\ DOMAIN Empty = {}
BY DEF IsBatch, Empty

LEMMA BatchOf ==
  ASSUME NEW m, IsBatch(m), NEW t \in Topics
  PROVE  /\ Of(m, t) \in Seq(Nat)
         /\ t \in DOMAIN m <=> Of(m, t) # << >>
<1>1. CASE t \in DOMAIN m
  BY <1>1 DEF IsBatch, Of
<1>2. CASE t \notin DOMAIN m
  BY <1>2 DEF Of
<1> QED BY <1>1, <1>2

LEMMA PutBatch ==
  ASSUME NEW m, IsBatch(m), NEW t \in Topics, NEW s \in Seq(Nat), s # << >>
  PROVE  /\ IsBatch(Put(m, t, s))
         /\ DOMAIN Put(m, t, s) = DOMAIN m \cup {t}
         /\ Of(Put(m, t, s), t) = s
         /\ \A x \in Topics \ {t} : Of(Put(m, t, s), x) = Of(m, x)
BY DEF IsBatch, Put, Of

LEMMA RestrictBatch ==
  ASSUME NEW m, IsBatch(m), NEW S, S \subseteq DOMAIN m
  PROVE  /\ IsBatch(Restrict(m, S))
         /\ DOMAIN Restrict(m, S) = S
         /\ \A x \in S : Of(Restrict(m, S), x) = Of(m, x)
         /\ \A x : x \notin S => Of(Restrict(m, S), x) = << >>
BY DEF IsBatch, Restrict, Of

LEMMA DeleteBatch ==
  ASSUME NEW m, IsBatch(m), NEW t \in Topics
  PROVE  /\ IsBatch(Delete(m, t))
         /\ DOMAIN Delete(m, t) = DOMAIN m \ {t}
         /\ Of(Delete(m, t), t) = << >>
         /\ \A x \in Topics \ {t} : Of(Delete(m, t), x) = Of(m, x)
BY DEF IsBatch, Delete, Restrict, Of

LEMMA TailOf ==
  ASSUME NEW s \in Seq(Nat), s # << >>
  PROVE  /\ Tail(s) \in Seq(Nat) /\ Len(s) \in Nat \ {0}
         /\ Len(s) = 1 <=> Tail(s) = << >>
<1> DEFINE u == Tail(s)
<1>1. u \in Seq(Nat) /\ Len(u) = Len(s) - 1
  BY HeadTailProperties
<1>2. Len(s) \in Nat \ {0}
  BY EmptySeq, LenProperties
<1>3. Len(u) = 0 <=> u = << >>
  <2> HIDE DEF u
  <2> QED BY <1>1, EmptySeq
<1> HIDE DEF u
<1>4. Len(s) = 1 <=> u = << >>
  BY <1>1, <1>2, <1>3
<1> QED BY <1>1, <1>2, <1>4 DEF u

LEMMA PopBatch ==
  ASSUME NEW m, IsBatch(m), NEW t \in DOMAIN m
  PROVE  /\ IsBatch(Pop(m, t))
         /\ DOMAIN Pop(m, t) =
              IF Len(m[t]) = 1 THEN DOMAIN m \ {t} ELSE DOMAIN m
         /\ Of(Pop(m, t), t) = Tail(m[t])
         /\ \A x \in Topics \ {t} : Of(Pop(m, t), x) = Of(m, x)
<1>1. t \in Topics /\ m[t] \in Seq(Nat) /\ m[t] # << >>
  BY DEF IsBatch
<1> DEFINE rest == Tail(m[t])
           left == Pop(m, t)
<1>2. rest \in Seq(Nat) /\ (Len(m[t]) = 1 <=> rest = << >>)
  BY <1>1, TailOf
<1>3. CASE Len(m[t]) = 1
  <2>1. left = Delete(m, t)
    BY <1>3 DEF Pop
  <2> HIDE DEF rest, left
  <2>2. /\ IsBatch(left) /\ DOMAIN left = DOMAIN m \ {t}
        /\ Of(left, t) = rest /\ \A x \in Topics \ {t} : Of(left, x) = Of(m, x)
    BY <1>1, <1>2, <1>3, <2>1, DeleteBatch
  <2> QED BY <1>3, <2>2 DEF rest, left
<1>4. CASE Len(m[t]) # 1
  <2>1. left = Put(m, t, rest)
    BY <1>4 DEF Pop
  <2> HIDE DEF rest, left
  <2>2. /\ IsBatch(left) /\ DOMAIN left = DOMAIN m
        /\ Of(left, t) = rest /\ \A x \in Topics \ {t} : Of(left, x) = Of(m, x)
    <3>1. DOMAIN m \cup {t} = DOMAIN m
      OBVIOUS
    <3>2. rest # << >> /\ rest \in Seq(Nat) /\ t \in Topics
      BY <1>1, <1>2, <1>4
    <3>3. /\ IsBatch(left) /\ DOMAIN left = DOMAIN m \cup {t}
          /\ Of(left, t) = rest /\ \A x \in Topics \ {t} : Of(left, x) = Of(m, x)
      BY <2>1, <3>2 DEF Put, IsBatch, Of
    <3> QED BY <3>1, <3>3
  <2> QED BY <1>4, <2>2 DEF rest, left
<1> QED BY <1>3, <1>4

-----------------------------------------------------------------------------
(* Events of one topic and the places W they lie in: w holds N[w] events,  *)
(* L[w][1] to L[w][N[w]], and 1 .. n are the events there are.  A step     *)
(* leaves K[w] events M[w] there.                                          *)

Once(W, N, L, n) ==
  /\ \A w \in W : \A i \in 1 .. N[w] : L[w][i] \in 1 .. n
  /\ \A e \in 1 .. n : \E w \in W : \E i \in 1 .. N[w] : L[w][i] = e
  /\ \A v, w \in W : \A i \in 1 .. N[v], j \in 1 .. N[w] :
       L[v][i] = L[w][j] => v = w /\ i = j

(* The events of v are in order, and older than those of w.                *)
Sorted(N, L, v) == \A i, j \in 1 .. N[v] : i < j => L[v][i] < L[v][j]

Before(N, L, v, w) ==
  \A i \in 1 .. N[v], j \in 1 .. N[w] : L[v][i] < L[w][j]

(* A new event comes to the end of a.                                      *)
Added(W, N, L, K, M, a, e) ==
  /\ K[a] = N[a] + 1
  /\ \A i \in 1 .. N[a] : M[a][i] = L[a][i]
  /\ M[a][N[a] + 1] = e
  /\ \A w \in W \ {a} : K[w] = N[w] /\ M[w] = L[w]

(* The first m events of a go to the end of b.                             *)
Moved(W, N, L, K, M, a, b, m) ==
  /\ a # b /\ m \in 1 .. N[a]
  /\ K[a] = N[a] - m
  /\ \A i \in 1 .. N[a] - m : M[a][i] = L[a][m + i]
  /\ K[b] = N[b] + m
  /\ \A i \in 1 .. N[b] : M[b][i] = L[b][i]
  /\ \A i \in 1 .. m : M[b][N[b] + i] = L[a][i]
  /\ \A w \in W \ {a, b} : K[w] = N[w] /\ M[w] = L[w]

LEMMA AddedOnce ==
  ASSUME NEW W, NEW a \in W, NEW n \in Nat,
         NEW N \in [W -> Nat], NEW K \in [W -> Nat], NEW L, NEW M,
         Once(W, N, L, n), Added(W, N, L, K, M, a, n + 1)
  PROVE  Once(W, K, M, n + 1)
<1>1. \A w \in W : N[w] \in Nat /\ K[w] \in Nat
  OBVIOUS
<1>2. ASSUME NEW w \in W, NEW i \in 1 .. K[w]
      PROVE  \/ w = a /\ i = N[a] + 1 /\ M[w][i] = n + 1
             \/ i \in 1 .. N[w] /\ M[w][i] = L[w][i] /\ M[w][i] \in 1 .. n
  <2>1. \A v \in W : \A k \in 1 .. N[v] : L[v][k] \in 1 .. n
    BY DEF Once
  <2>2. CASE w = a
    <3>1. i \in 1 .. N[a] \/ i = N[a] + 1
      BY <1>1, <2>2 DEF Added
    <3> QED BY <2>1, <2>2, <3>1 DEF Added
  <2>3. CASE w # a
    BY <2>1, <2>3 DEF Added
  <2> QED BY <2>2, <2>3
<1>3. ASSUME NEW w \in W, NEW i \in 1 .. N[w]
      PROVE  i \in 1 .. K[w] /\ M[w][i] = L[w][i]
  BY <1>1 DEF Added
<1>4. \A w \in W : \A i \in 1 .. K[w] : M[w][i] \in 1 .. n + 1
  BY <1>2
<1>5. ASSUME NEW e \in 1 .. n + 1
      PROVE  \E w \in W : \E i \in 1 .. K[w] : M[w][i] = e
  <2>1. CASE e = n + 1
    <3>1. N[a] + 1 \in 1 .. K[a] /\ M[a][N[a] + 1] = n + 1
      BY <1>1 DEF Added
    <3> QED BY <2>1, <3>1
  <2>2. CASE e # n + 1
    <3>1. e \in 1 .. n
      BY <2>2
    <3>2. PICK w \in W : \E i \in 1 .. N[w] : L[w][i] = e
      BY <3>1 DEF Once
    <3> QED BY <1>3, <3>2
  <2> QED BY <2>1, <2>2
<1>6. ASSUME NEW v \in W, NEW w \in W, NEW i \in 1 .. K[v],
             NEW j \in 1 .. K[w], M[v][i] = M[w][j]
      PROVE  v = w /\ i = j
  <2>1. CASE M[v][i] = n + 1
    <3>1. n + 1 \notin 1 .. n
      OBVIOUS
    <3>2. v = a /\ i = N[a] + 1
      BY <1>2, <2>1, <3>1
    <3>3. M[w][j] = n + 1 /\ M[w][j] \notin 1 .. n
      BY <1>6, <2>1, <3>1
    <3>4. w = a /\ j = N[a] + 1
      BY <1>2, <3>3
    <3> QED BY <3>2, <3>4
  <2>2. CASE M[v][i] # n + 1
    <3>1. i \in 1 .. N[v] /\ M[v][i] = L[v][i]
      BY <1>2, <2>2
    <3>2. j \in 1 .. N[w] /\ M[w][j] = L[w][j]
      BY <1>2, <1>6, <2>2
    <3>3. L[v][i] = L[w][j]
      BY <1>6, <3>1, <3>2
    <3> QED BY <3>1, <3>2, <3>3 DEF Once
  <2> QED BY <2>1, <2>2
<1> QED BY <1>4, <1>5, <1>6 DEF Once

(* Every event of M was one of L at a position of its own, and back.       *)
LEMMA MovedFrom ==
  ASSUME NEW W, NEW a \in W, NEW b \in W, NEW m,
         NEW N \in [W -> Nat], NEW K \in [W -> Nat], NEW L, NEW M,
         Moved(W, N, L, K, M, a, b, m),
         NEW w \in W, NEW i \in 1 .. K[w]
  PROVE  \/ w = a /\ m + i \in 1 .. N[a] /\ M[w][i] = L[a][m + i]
         \/ /\ w = b /\ i > N[b] /\ i - N[b] \in 1 .. m
            /\ i - N[b] \in 1 .. N[a]
            /\ M[w][i] = L[a][i - N[b]]
         \/ w # a /\ i \in 1 .. N[w] /\ M[w][i] = L[w][i]
<1>1. \A v \in W : N[v] \in Nat /\ K[v] \in Nat
  OBVIOUS
<1>2. m \in Nat /\ m <= N[a] /\ a # b
  BY <1>1 DEF Moved
<1>3. CASE w = a
  BY <1>1, <1>2, <1>3 DEF Moved
<1>4. CASE w = b
  <2>1. CASE i <= N[b]
    BY <1>1, <1>2, <1>4, <2>1 DEF Moved
  <2>2. CASE i > N[b]
    <3>1. K[b] = N[b] + m
      BY DEF Moved
    <3>2. i - N[b] \in 1 .. m /\ N[b] + (i - N[b]) = i
      BY <1>1, <1>2, <1>4, <2>2, <3>1
    <3>3. \A k \in 1 .. m : M[b][N[b] + k] = L[a][k]
      BY DEF Moved
    <3>4. M[b][i] = L[a][i - N[b]]
      BY <3>2, <3>3
    <3> QED BY <1>1, <1>2, <1>4, <2>2, <3>2, <3>4
  <2> QED BY <1>1, <1>4, <2>1, <2>2
<1>5. CASE w \notin {a, b}
  BY <1>5 DEF Moved
<1> QED BY <1>3, <1>4, <1>5

LEMMA MovedOnce ==
  ASSUME NEW W, NEW a \in W, NEW b \in W, NEW m, NEW n \in Nat,
         NEW N \in [W -> Nat], NEW K \in [W -> Nat], NEW L, NEW M,
         Once(W, N, L, n), Moved(W, N, L, K, M, a, b, m)
  PROVE  Once(W, K, M, n)
<1>1. \A w \in W : N[w] \in Nat /\ K[w] \in Nat
  OBVIOUS
<1>2. m \in Nat /\ m <= N[a] /\ a # b
  BY <1>1 DEF Moved
<1>3. ASSUME NEW w \in W, NEW i \in 1 .. K[w]
      PROVE  M[w][i] \in 1 .. n
  <2>1. \A v \in W : \A k \in 1 .. N[v] : L[v][k] \in 1 .. n
    BY DEF Once
  <2>2. \E v \in W : \E k \in 1 .. N[v] : M[w][i] = L[v][k]
    BY MovedFrom
  <2> QED BY <2>1, <2>2
<1>4. ASSUME NEW e \in 1 .. n
      PROVE  \E w \in W : \E i \in 1 .. K[w] : M[w][i] = e
  <2>1. PICK w \in W : \E i \in 1 .. N[w] : L[w][i] = e
    BY DEF Once
  <2>1a. PICK i \in 1 .. N[w] : L[w][i] = e
    BY <2>1
  <2>2. CASE w = a /\ i <= m
    <3>1. i \in 1 .. m
      BY <2>2, <1>2
    <3>2. M[b][N[b] + i] = e
      BY <2>1a, <2>2, <3>1 DEF Moved
    <3>3. N[b] + i \in 1 .. K[b]
      BY <1>1, <1>2, <3>1 DEF Moved
    <3> QED BY <3>2, <3>3
  <2>3. CASE w = a /\ i > m
    <3>1. i - m \in 1 .. N[a] - m /\ m + (i - m) = i
      BY <1>1, <1>2, <2>3
    <3>2. \A k \in 1 .. N[a] - m : M[a][k] = L[a][m + k]
      BY DEF Moved
    <3>3. M[a][i - m] = e
      BY <2>1a, <2>3, <3>1, <3>2
    <3>4. i - m \in 1 .. K[a]
      BY <3>1 DEF Moved
    <3> QED BY <3>3, <3>4
  <2>4. CASE w = b
    <3>1. M[b][i] = e /\ i \in 1 .. K[b]
      BY <1>1, <1>2, <2>1a, <2>4 DEF Moved
    <3> QED BY <3>1
  <2>5. CASE w \notin {a, b}
    BY <2>1a, <2>5 DEF Moved
  <2> QED BY <1>1, <1>2, <2>2, <2>3, <2>4, <2>5
<1>5. ASSUME NEW v \in W, NEW w \in W, NEW i \in 1 .. K[v],
             NEW j \in 1 .. K[w], M[v][i] = M[w][j]
      PROVE  v = w /\ i = j
  <2> DEFINE From(x, k, y, l) ==
        \/ x = a /\ y = a /\ l = m + k
        \/ x = b /\ y = a /\ l = k - N[b] /\ k > N[b] /\ l <= m
        \/ x = y /\ x # a /\ l = k /\ k <= N[x]
  <2> DEFINE Source(x, k, y) ==
        \E l \in 1 .. N[y] : M[x][k] = L[y][l] /\ From(x, k, y, l)
  <2>0. ASSUME NEW x \in W, NEW k \in 1 .. K[x]
        PROVE  \E y \in W : Source(x, k, y)
    <3>1. N[b] \in Nat /\ N[x] \in Nat /\ k \in Nat
      BY <1>1
    <3> QED BY <1>2, <3>1, MovedFrom
  <2>1. PICK v0 \in W : Source(v, i, v0)
    BY <2>0
  <2>1a. PICK i0 \in 1 .. N[v0] : M[v][i] = L[v0][i0] /\ From(v, i, v0, i0)
    BY <2>1
  <2>2. PICK w0 \in W : Source(w, j, w0)
    BY <2>0
  <2>2a. PICK j0 \in 1 .. N[w0] : M[w][j] = L[w0][j0] /\ From(w, j, w0, j0)
    BY <2>2
  <2>3. v0 = w0 /\ i0 = j0
    <3>1. L[v0][i0] = L[w0][j0]
      BY <1>5, <2>1a, <2>2a
    <3> QED BY <3>1 DEF Once
  <2>4. \A x \in W : N[x] \in Nat
    BY <1>1
  <2> QED BY <1>1, <1>2, <2>1a, <2>2a, <2>3, <2>4
<1> QED BY <1>3, <1>4, <1>5 DEF Once

(* What the order of the events in M follows from.                         *)
OrderKept(W, N, L, K, M, a, b) ==
  /\ Sorted(K, M, a)
  /\ Before(N, L, b, a) => Before(K, M, b, a)
  /\ Sorted(N, L, b) /\ Before(N, L, b, a) => Sorted(K, M, b)
  /\ \A w \in W \ {a, b} :
       /\ Sorted(N, L, w) => Sorted(K, M, w)
       /\ Before(N, L, w, a) => Before(K, M, w, a)
       /\ Before(N, L, w, a) /\ Before(N, L, w, b) => Before(K, M, w, b)
       /\ Before(N, L, a, w) => Before(K, M, a, w)
       /\ Before(N, L, a, w) /\ Before(N, L, b, w) => Before(K, M, b, w)
       /\ \A v \in W \ {a, b} : Before(N, L, v, w) => Before(K, M, v, w)

LEMMA MovedOrder ==
  ASSUME NEW W, NEW a \in W, NEW b \in W, NEW m,
         NEW N \in [W -> Nat], NEW K \in [W -> Nat], NEW L, NEW M,
         \A w \in W : \A i \in 1 .. N[w] : L[w][i] \in Nat,
         Moved(W, N, L, K, M, a, b, m), Sorted(N, L, a)
  PROVE  OrderKept(W, N, L, K, M, a, b)
<1>1. \A w \in W : N[w] \in Nat /\ K[w] \in Nat
  OBVIOUS
<1>2. m \in Nat /\ m <= N[a] /\ a # b
  BY <1>1 DEF Moved
<1>3. \A w \in W \ {a, b} : K[w] = N[w] /\ M[w] = L[w]
  BY DEF Moved
<1>4. ASSUME NEW i \in 1 .. K[a]
      PROVE  m + i \in 1 .. N[a] /\ M[a][i] = L[a][m + i]
  BY <1>1, <1>2 DEF Moved
<1>5. ASSUME NEW i \in 1 .. K[b]
      PROVE  \/ i \in 1 .. N[b] /\ M[b][i] = L[b][i]
             \/ /\ i > N[b] /\ i - N[b] \in 1 .. m /\ i - N[b] \in 1 .. N[a]
                /\ M[b][i] = L[a][i - N[b]]
  BY <1>2, MovedFrom
<1>6. Sorted(K, M, a)
  BY <1>1, <1>2, <1>4 DEF Sorted
<1>7. Before(N, L, b, a) => Before(K, M, b, a)
  <2> SUFFICES ASSUME Before(N, L, b, a), NEW i \in 1 .. K[b], NEW j \in 1 .. K[a]
               PROVE  M[b][i] < M[a][j]
    BY DEF Before
  <2>1. m + j \in 1 .. N[a] /\ M[a][j] = L[a][m + j] /\ j \in Nat /\ j > 0
    BY <1>1, <1>4
  <2>2. CASE i \in 1 .. N[b] /\ M[b][i] = L[b][i]
    BY <2>1, <2>2 DEF Before
  <2>3. CASE /\ i - N[b] \in 1 .. m /\ i - N[b] \in 1 .. N[a]
             /\ M[b][i] = L[a][i - N[b]]
    <3>1. i - N[b] < m + j
      BY <1>2, <2>1, <2>3
    <3> QED BY <2>1, <2>3, <3>1 DEF Sorted
  <2> QED BY <1>5, <2>2, <2>3
<1>8. Sorted(N, L, b) /\ Before(N, L, b, a) => Sorted(K, M, b)
  <2> SUFFICES ASSUME Sorted(N, L, b), Before(N, L, b, a),
                      NEW i \in 1 .. K[b], NEW j \in 1 .. K[b], i < j
               PROVE  M[b][i] < M[b][j]
    BY DEF Sorted
  <2>1. CASE j \in 1 .. N[b] /\ M[b][j] = L[b][j]
    <3>1. i \in 1 .. N[b] /\ M[b][i] = L[b][i]
      BY <1>1, <1>5, <2>1
    <3> QED BY <2>1, <3>1 DEF Sorted
  <2>2. CASE j - N[b] \in 1 .. N[a] /\ M[b][j] = L[a][j - N[b]]
    <3>1. CASE i \in 1 .. N[b] /\ M[b][i] = L[b][i]
      BY <2>2, <3>1 DEF Before
    <3>2. CASE i - N[b] \in 1 .. N[a] /\ M[b][i] = L[a][i - N[b]]
      <4>1. i - N[b] < j - N[b]
        BY <1>1
      <4> QED BY <2>2, <3>2, <4>1 DEF Sorted
    <3> QED BY <1>5, <3>1, <3>2
  <2> QED BY <1>5, <2>1, <2>2
<1>9. ASSUME NEW w \in W \ {a, b}
      PROVE  /\ Sorted(N, L, w) => Sorted(K, M, w)
             /\ \A v \in W \ {a, b} : Before(N, L, v, w) => Before(K, M, v, w)
  BY <1>3 DEF Sorted, Before
<1>10. ASSUME NEW w \in W \ {a, b}
       PROVE  /\ Before(N, L, w, a) => Before(K, M, w, a)
              /\ Before(N, L, a, w) => Before(K, M, a, w)
  BY <1>3, <1>4 DEF Before
<1>11. ASSUME NEW w \in W \ {a, b}
       PROVE  /\ Before(N, L, w, a) /\ Before(N, L, w, b) => Before(K, M, w, b)
              /\ Before(N, L, a, w) /\ Before(N, L, b, w) => Before(K, M, b, w)
  BY <1>3, <1>5 DEF Before
<1> QED BY <1>6, <1>7, <1>8, <1>9, <1>10, <1>11 DEF OrderKept

LEMMA AddedOrder ==
  ASSUME NEW W, NEW a \in W, NEW n \in Nat,
         NEW N \in [W -> Nat], NEW K \in [W -> Nat], NEW L, NEW M,
         Once(W, N, L, n), Added(W, N, L, K, M, a, n + 1)
  PROVE  /\ Sorted(N, L, a) => Sorted(K, M, a)
         /\ \A w \in W \ {a} :
              /\ Sorted(N, L, w) => Sorted(K, M, w)
              /\ Before(N, L, w, a) => Before(K, M, w, a)
              /\ \A v \in W \ {a} : Before(N, L, v, w) => Before(K, M, v, w)
<1>1. \A w \in W : N[w] \in Nat /\ K[w] \in Nat
  OBVIOUS
<1>2. \A w \in W : \A i \in 1 .. N[w] : L[w][i] \in 1 .. n
  BY DEF Once
<1>3. \A w \in W \ {a} : K[w] = N[w] /\ M[w] = L[w]
  BY DEF Added
<1>4. ASSUME NEW i \in 1 .. K[a]
      PROVE  \/ i \in 1 .. N[a] /\ M[a][i] = L[a][i]
             \/ i = N[a] + 1 /\ M[a][i] = n + 1
  <2>1. i \in 1 .. N[a] \/ i = N[a] + 1
    BY <1>1 DEF Added
  <2> QED BY <2>1 DEF Added
<1>5. Sorted(N, L, a) => Sorted(K, M, a)
  <2> SUFFICES ASSUME Sorted(N, L, a),
                      NEW i \in 1 .. K[a], NEW j \in 1 .. K[a], i < j
               PROVE  M[a][i] < M[a][j]
    BY DEF Sorted
  <2>1. i \in 1 .. N[a] /\ M[a][i] = L[a][i]
    BY <1>1, <1>4
  <2>2. CASE j \in 1 .. N[a] /\ M[a][j] = L[a][j]
    BY <2>1, <2>2 DEF Sorted
  <2>3. CASE M[a][j] = n + 1
    BY <1>2, <2>1, <2>3
  <2> QED BY <1>4, <2>2, <2>3
<1>6. ASSUME NEW w \in W \ {a}, Before(N, L, w, a)
      PROVE  Before(K, M, w, a)
  <2> SUFFICES ASSUME NEW i \in 1 .. K[w], NEW j \in 1 .. K[a]
               PROVE  M[w][i] < M[a][j]
    BY DEF Before
  <2>1. i \in 1 .. N[w] /\ M[w][i] = L[w][i]
    BY <1>3
  <2>2. CASE j \in 1 .. N[a] /\ M[a][j] = L[a][j]
    BY <1>6, <2>1, <2>2 DEF Before
  <2>3. CASE M[a][j] = n + 1
    BY <1>2, <2>1, <2>3
  <2> QED BY <1>4, <2>2, <2>3
<1>7. ASSUME NEW w \in W \ {a}
      PROVE  /\ Sorted(N, L, w) => Sorted(K, M, w)
             /\ \A v \in W \ {a} : Before(N, L, v, w) => Before(K, M, v, w)
  BY <1>3 DEF Sorted, Before
<1> QED BY <1>5, <1>6, <1>7

-----------------------------------------------------------------------------
(* The same of sequences of events: A before the step, B after it.         *)

Loads(W, A) == [w \in W |-> Len(A[w])]

LEMMA LoadsType ==
  ASSUME NEW W, NEW A \in [W -> Seq(Nat)]
  PROVE  /\ Loads(W, A) \in [W -> Nat]
         /\ \A w \in W : /\ Loads(W, A)[w] = Len(A[w])
                         /\ \A i \in 1 .. Loads(W, A)[w] : A[w][i] \in Nat
<1>1. ASSUME NEW w \in W
      PROVE  /\ Len(A[w]) \in Nat
             /\ \A i \in 1 .. Len(A[w]) : A[w][i] \in Nat
  <2>1. A[w] \in Seq(Nat)
    OBVIOUS
  <2> QED BY <2>1, LenProperties, ElementOfSeq
<1> QED BY <1>1 DEF Loads

LEMMA AppendAdds ==
  ASSUME NEW W, NEW a \in W, NEW e \in Nat,
         NEW A \in [W -> Seq(Nat)], NEW B \in [W -> Seq(Nat)],
         B[a] = Append(A[a], e), \A w \in W \ {a} : B[w] = A[w]
  PROVE  Added(W, Loads(W, A), A, Loads(W, B), B, a, e)
<1> DEFINE s == A[a]
           u == B[a]
<1>1. s \in Seq(Nat) /\ u = Append(s, e)
  OBVIOUS
<1> HIDE DEF s, u
<1>2. /\ Len(u) = Len(s) + 1 /\ u[Len(s) + 1] = e
      /\ \A i \in 1 .. Len(s) : u[i] = s[i]
  BY <1>1, AppendProperties
<1>3. Loads(W, A)[a] = Len(s) /\ Loads(W, B)[a] = Len(u)
  BY DEF Loads, s, u
<1>4. \A w \in W \ {a} : Loads(W, B)[w] = Loads(W, A)[w]
  BY DEF Loads
<1> QED BY <1>2, <1>3, <1>4 DEF Added, s, u

LEMMA HeadMoves ==
  ASSUME NEW W, NEW a \in W, NEW b \in W, a # b,
         NEW A \in [W -> Seq(Nat)], NEW B \in [W -> Seq(Nat)],
         A[a] # << >>, B[a] = Tail(A[a]), B[b] = Append(A[b], Head(A[a])),
         \A w \in W \ {a, b} : B[w] = A[w]
  PROVE  Moved(W, Loads(W, A), A, Loads(W, B), B, a, b, 1)
<1> DEFINE s == A[a]
           r == A[b]
           u == B[a]
           v == B[b]
           x == Head(s)
<1>1. s \in Seq(Nat) /\ s # << >> /\ r \in Seq(Nat) /\ u = Tail(s) /\ v = Append(r, x)
  OBVIOUS
<1> HIDE DEF s, r, u, v
<1>2. /\ x \in Nat /\ x = s[1]
      /\ Len(u) = Len(s) - 1 /\ \A i \in 1 .. Len(u) : u[i] = s[i + 1]
  BY <1>1, HeadTailProperties
<1> HIDE DEF x
<1>3. /\ Len(v) = Len(r) + 1 /\ v[Len(r) + 1] = x
      /\ \A i \in 1 .. Len(r) : v[i] = r[i]
  BY <1>1, <1>2, AppendProperties
<1>4. Len(s) \in Nat \ {0} /\ Len(r) \in Nat
  BY <1>1, EmptySeq, LenProperties
<1>5. /\ Loads(W, A)[a] = Len(s) /\ Loads(W, A)[b] = Len(r)
      /\ Loads(W, B)[a] = Len(u) /\ Loads(W, B)[b] = Len(v)
  BY DEF Loads, s, r, u, v
<1>6. \A w \in W \ {a, b} : Loads(W, B)[w] = Loads(W, A)[w]
  BY DEF Loads
<1>7. 1 \in 1 .. Len(s) /\ \A i \in 1 .. Len(s) - 1 : u[i] = s[1 + i]
  <2>1. \A i \in 1 .. Len(s) - 1 : i + 1 = 1 + i
    OBVIOUS
  <2> QED BY <1>2, <1>4, <2>1
<1>8. \A i \in 1 .. 1 : v[Len(r) + i] = s[i]
  <2>1. \A i \in 1 .. 1 : i = 1
    OBVIOUS
  <2> QED BY <1>2, <1>3, <2>1
<1> QED BY <1>2, <1>3, <1>5, <1>6, <1>7, <1>8 DEF Moved, s, r, u, v

LEMMA AllMove ==
  ASSUME NEW W, NEW a \in W, NEW b \in W, a # b,
         NEW A \in [W -> Seq(Nat)], NEW B \in [W -> Seq(Nat)],
         A[a] # << >>, B[a] = << >>, B[b] = A[b] \o A[a],
         \A w \in W \ {a, b} : B[w] = A[w]
  PROVE  Moved(W, Loads(W, A), A, Loads(W, B), B, a, b, Len(A[a]))
<1> DEFINE s == A[a]
           r == A[b]
           u == B[a]
           v == B[b]
<1>1. s \in Seq(Nat) /\ s # << >> /\ r \in Seq(Nat) /\ u = << >> /\ v = r \o s
  OBVIOUS
<1> HIDE DEF s, r, u, v
<1>2. Len(s) \in Nat \ {0} /\ Len(r) \in Nat /\ Len(u) = 0
  BY <1>1, EmptySeq, LenProperties
<1>3. /\ Len(v) = Len(r) + Len(s)
      /\ \A i \in 1 .. Len(r) + Len(s) :
           v[i] = IF i <= Len(r) THEN r[i] ELSE s[i - Len(r)]
  BY <1>1, ConcatProperties
<1>4. /\ Loads(W, A)[a] = Len(s) /\ Loads(W, A)[b] = Len(r)
      /\ Loads(W, B)[a] = Len(u) /\ Loads(W, B)[b] = Len(v)
  BY DEF Loads, s, r, u, v
<1>5. \A w \in W \ {a, b} : Loads(W, B)[w] = Loads(W, A)[w]
  BY DEF Loads
<1>6. /\ \A i \in 1 .. Len(r) : v[i] = r[i]
      /\ \A i \in 1 .. Len(s) : v[Len(r) + i] = s[i]
  <2> DEFINE k == Len(r)
             n == Len(s)
  <2>1. /\ k \in Nat /\ n \in Nat
        /\ \A i \in 1 .. k + n : v[i] = IF i <= k THEN r[i] ELSE s[i - k]
    BY <1>2, <1>3
  <2> HIDE DEF k, n
  <2>2. \A i \in 1 .. k : v[i] = r[i]
    BY <2>1
  <2>3. ASSUME NEW i \in 1 .. n PROVE v[k + i] = s[i]
    <3>1. k + i \in 1 .. k + n /\ ~(k + i <= k) /\ (k + i) - k = i
      BY <2>1
    <3> QED BY <2>1, <3>1
  <2> QED BY <2>2, <2>3 DEF k, n
<1>8. Len(s) \in 1 .. Len(s) /\ Len(s) - Len(s) = 0
  BY <1>2
<1>9. \A i \in 1 .. 0 : u[i] = s[Len(s) + i]
  OBVIOUS
<1> QED BY <1>2, <1>3, <1>4, <1>5, <1>6, <1>8, <1>9 DEF Moved, s, r, u, v

-----------------------------------------------------------------------------
(* The places of the queue.                                                *)

InQueue == <<"queue", "all">>
InHub == <<"hub", "all">>
Consumed == <<"consumer", "all">>
Nowhere == <<"nowhere", "all">>
InHand(g) == <<"hand", g>>

Hands == {InHand(g) : g \in Callers}

Where == {InQueue, InHub, Consumed, Nowhere} \cup Hands

Lay(q, l, c, r, h) ==
  [w \in Where |-> IF w = InQueue THEN q ELSE IF w = InHub THEN l
                   ELSE IF w = Consumed THEN c ELSE IF w = Nowhere THEN r
                   ELSE h[w[2]]]

(* What of topic t lies where.                                             *)
Contents(t) == Lay(Vals(t), log[t], taken[t], refused[t],
                   [g \in Callers |-> Of(hand[g], t)])

LEMMA WhereDistinct ==
  /\ InQueue # InHub /\ InQueue # Consumed /\ InQueue # Nowhere
  /\ InHub # Consumed /\ InHub # Nowhere /\ Consumed # Nowhere
  /\ \A g \in Callers : /\ InHand(g) \notin {InQueue, InHub, Consumed, Nowhere}
                        /\ InHand(g)[2] = g
                        /\ \A k \in Callers : InHand(g) = InHand(k) => g = k
BY DEF InQueue, InHub, Consumed, Nowhere, InHand

LEMMA WhereMembers ==
  /\ InQueue \in Where /\ InHub \in Where /\ Consumed \in Where /\ Nowhere \in Where
  /\ \A g \in Callers : InHand(g) \in Where
  /\ \A w \in Where : \/ w \in {InQueue, InHub, Consumed, Nowhere}
                      \/ \E g \in Callers : w = InHand(g)
BY DEF Where, Hands

LEMMA LayAt ==
  ASSUME NEW q, NEW l, NEW c, NEW r, NEW h
  PROVE  /\ Lay(q, l, c, r, h)[InQueue] = q
         /\ Lay(q, l, c, r, h)[InHub] = l
         /\ Lay(q, l, c, r, h)[Consumed] = c
         /\ Lay(q, l, c, r, h)[Nowhere] = r
         /\ \A g \in Callers : Lay(q, l, c, r, h)[InHand(g)] = h[g]
BY WhereDistinct, WhereMembers DEF Lay

LEMMA LayType ==
  ASSUME NEW q \in Seq(Nat), NEW l \in Seq(Nat), NEW c \in Seq(Nat),
         NEW r \in Seq(Nat), NEW h \in [Callers -> Seq(Nat)]
  PROVE  Lay(q, l, c, r, h) \in [Where -> Seq(Nat)]
<1>1. ASSUME NEW w \in Where
      PROVE  Lay(q, l, c, r, h)[w] \in Seq(Nat)
  <2>1. CASE w \in {InQueue, InHub, Consumed, Nowhere}
    BY <2>1, LayAt
  <2>2. CASE \E g \in Callers : w = InHand(g)
    BY <2>2, LayAt
  <2> QED BY <2>1, <2>2, WhereMembers
<1> QED BY <1>1 DEF Lay

-----------------------------------------------------------------------------
(* Types.                                                                  *)

LEMMA TypesInit == Init => TypeOK
<1> SUFFICES ASSUME Init PROVE TypeOK
  OBVIOUS
<1>1. IsBatch(queues) /\ \A g \in Callers : hand[g] = Empty /\ IsBatch(hand[g])
  BY EmptyIsBatch DEF Init
<1>2. /\ cpc \in [Callers -> {"idle", "publish"}] /\ DOMAIN hand = Callers
      /\ cur \in [Callers -> Topics \cup {NoTopic}]
      /\ \A g \in Callers : cur[g] = NoTopic
      /\ closed \in BOOLEAN /\ enqueued \in [Topics -> Nat]
      /\ overlapped \subseteq Topics
  BY DEF Init
<1>3. log \in [Topics -> Seq(Nat)]
  BY EmptySeq DEF Init
<1>4. taken \in [Topics -> Seq(Nat)]
  BY EmptySeq DEF Init
<1>5. refused \in [Topics -> Seq(Nat)]
  BY EmptySeq DEF Init
<1> QED BY <1>1, <1>2, <1>3, <1>4, <1>5 DEF TypeOK

LEMMA ValsOf == \A t : Vals(t) = Of(queues, t)
BY DEF Vals, Of

LEMMA BatchFacts ==
  ASSUME TypeOK, NEW t \in Topics
  PROVE  /\ Vals(t) \in Seq(Nat) /\ (t \in DOMAIN queues <=> Vals(t) # << >>)
         /\ \A g \in Callers : /\ Of(hand[g], t) \in Seq(Nat)
                               /\ t \in DOMAIN hand[g] <=> Of(hand[g], t) # << >>
         /\ log[t] \in Seq(Nat) /\ taken[t] \in Seq(Nat) /\ refused[t] \in Seq(Nat)
<1>1. IsBatch(queues) /\ \A g \in Callers : IsBatch(hand[g])
  BY DEF TypeOK
<1>2. log[t] \in Seq(Nat) /\ taken[t] \in Seq(Nat) /\ refused[t] \in Seq(Nat)
  BY DEF TypeOK
<1> QED BY <1>1, <1>2, BatchOf, ValsOf

LEMMA TypesStep == TypeOK /\ [Next]_vars => TypeOK'
<1> SUFFICES ASSUME TypeOK, [Next]_vars PROVE TypeOK'
  OBVIOUS
<1> DEFINE CallTypes == /\ cpc \in [Callers -> {"idle", "publish"}]
                        /\ DOMAIN hand = Callers
                        /\ \A g \in Callers :
                             IsBatch(hand[g]) /\ (cpc[g] = "idle" => hand[g] = Empty)
                        /\ cur \in [Callers -> Topics \cup {NoTopic}]
                        /\ \A g \in Callers : cur[g] = NoTopic \/ cur[g] \in DOMAIN hand[g]
           HistoryTypes == /\ enqueued \in [Topics -> Nat]
                           /\ log \in [Topics -> Seq(Nat)]
                           /\ taken \in [Topics -> Seq(Nat)]
                           /\ refused \in [Topics -> Seq(Nat)]
                           /\ overlapped \subseteq Topics
<1>0. CallTypes /\ HistoryTypes /\ IsBatch(queues) /\ closed \in BOOLEAN
  BY DEF TypeOK
<1>q. CallTypes' /\ HistoryTypes' /\ IsBatch(queues') /\ closed' \in BOOLEAN => TypeOK'
  BY DEF TypeOK
<1>u. UNCHANGED callVars => CallTypes'
  BY <1>0 DEF callVars
<1>1. ASSUME NEW t \in Topics, Enqueue(t) PROVE TypeOK'
  <2>1. /\ queues' = Put(queues, t, Append(Vals(t), enqueued[t] + 1))
        /\ enqueued' = [enqueued EXCEPT ![t] = @ + 1]
        /\ UNCHANGED <<callVars, closed, log, taken, refused, overlapped>>
    BY <1>1 DEF Enqueue, hubVars
  <2> DEFINE new == Append(Vals(t), enqueued[t] + 1)
  <2>2. new \in Seq(Nat) /\ new # << >>
    <3>1. Vals(t) \in Seq(Nat) /\ enqueued[t] + 1 \in Nat
      BY <1>0, BatchFacts
    <3> QED BY <3>1, AppendProperties
  <2>3. IsBatch(queues')
    <3> HIDE DEF new
    <3> QED BY <1>0, <2>1, <2>2, PutBatch DEF new
  <2> QED BY <1>0, <1>q, <1>u, <2>1, <2>3
<1>2. ASSUME NEW t \in Topics, Dequeue(t) PROVE TypeOK'
  <2>1. /\ t \in DOMAIN queues /\ queues' = Pop(queues, t)
        /\ taken' = [taken EXCEPT ![t] = Append(@, Head(Vals(t)))]
        /\ UNCHANGED <<callVars, closed, log, enqueued, refused, overlapped>>
    BY <1>2, BatchFacts DEF Dequeue, hubVars
  <2>2. IsBatch(queues')
    BY <1>0, <2>1, PopBatch
  <2>3. Append(taken[t], Head(Vals(t))) \in Seq(Nat)
    <3>1. Vals(t) \in Seq(Nat) /\ Vals(t) # << >> /\ taken[t] \in Seq(Nat)
      BY <1>2, BatchFacts DEF Dequeue
    <3>2. Head(Vals(t)) \in Nat
      BY <3>1, HeadTailProperties
    <3> QED BY <3>1, <3>2, AppendProperties
  <2>4. taken' \in [Topics -> Seq(Nat)]
    BY <1>0, <2>1, <2>3
  <2> QED BY <1>0, <1>q, <1>u, <2>1, <2>2, <2>4
<1>3. ASSUME NEW t \in Topics, Drain(t) PROVE TypeOK'
  <2>1. /\ queues' = Delete(queues, t)
        /\ taken' = [taken EXCEPT ![t] = @ \o Vals(t)]
        /\ UNCHANGED <<callVars, closed, log, enqueued, refused, overlapped>>
    BY <1>3 DEF Drain, hubVars
  <2>2. IsBatch(queues')
    BY <1>0, <2>1, DeleteBatch
  <2>3. taken[t] \o Vals(t) \in Seq(Nat)
    BY BatchFacts, ConcatProperties
  <2>4. taken' \in [Topics -> Seq(Nat)]
    BY <1>0, <2>1, <2>3
  <2> QED BY <1>0, <1>q, <1>u, <2>1, <2>2, <2>4
<1>4. ASSUME NEW g \in Callers, NEW batch, NEW left, Take(g, batch, left),
             IsBatch(batch), IsBatch(left)
      PROVE  TypeOK'
  <2>1. /\ cpc[g] = "idle" /\ cpc' = [cpc EXCEPT ![g] = "publish"]
        /\ hand' = [hand EXCEPT ![g] = batch] /\ queues' = left
        /\ overlapped' = overlapped \cup
             {t \in DOMAIN batch : \E k \in Callers : t \in DOMAIN hand[k]}
        /\ UNCHANGED <<cur, closed, log, enqueued, taken, refused>>
    BY <1>4 DEF Take, hubVars
  <2>2. overlapped' \subseteq Topics
    BY <1>0, <1>4, <2>1 DEF IsBatch
  <2>3. cur[g] = NoTopic
    BY <1>0, <2>1, EmptyIsBatch
  <2>4. CallTypes'
    BY <1>0, <1>4, <2>1, <2>3
  <2> QED BY <1>0, <1>4, <1>q, <2>1, <2>2, <2>4
<1>5. ASSUME NEW g \in Callers, NEW t \in Topics, Publish(g, t) PROVE TypeOK'
  <2>1. /\ cpc[g] = "publish" /\ t \in DOMAIN hand[g]
        /\ hand' = [hand EXCEPT ![g] = Pop(hand[g], t)]
        /\ cur' = [cur EXCEPT ![g] = IF Len(hand[g][t]) = 1 THEN NoTopic ELSE t]
        /\ UNCHANGED <<queues, cpc, closed, enqueued, taken, overlapped>>
    BY <1>5 DEF Publish
  <2>2. /\ IsBatch(Pop(hand[g], t))
        /\ Len(hand[g][t]) # 1 => t \in DOMAIN Pop(hand[g], t)
    BY <1>0, <2>1, PopBatch
  <2>3. CallTypes'
    <3> DEFINE rest == Pop(hand[g], t)
               one == Len(hand[g][t]) = 1
    <3>1. /\ hand' = [hand EXCEPT ![g] = rest] /\ IsBatch(rest)
          /\ cur' = [cur EXCEPT ![g] = IF one THEN NoTopic ELSE t]
          /\ ~one => t \in DOMAIN rest
      BY <2>1, <2>2
    <3> HIDE DEF rest, one
    <3> QED BY <1>0, <2>1, <3>1
  <2>4. log' \in [Topics -> Seq(Nat)] /\ refused' \in [Topics -> Seq(Nat)]
    <3>1. hand[g][t] \in Seq(Nat) /\ hand[g][t] # << >>
      BY <1>0, <2>1 DEF IsBatch
    <3> DEFINE x == Head(hand[g][t])
    <3>2. x \in Nat
      BY <3>1, HeadTailProperties
    <3>3. Append(log[t], x) \in Seq(Nat) /\ Append(refused[t], x) \in Seq(Nat)
      BY <3>2, BatchFacts, AppendProperties
    <3>4. \/ log' = [log EXCEPT ![t] = Append(@, x)] /\ refused' = refused
          \/ refused' = [refused EXCEPT ![t] = Append(@, x)] /\ log' = log
      BY <1>5 DEF Publish
    <3> HIDE DEF x
    <3> QED BY <1>0, <3>3, <3>4
  <2> QED BY <1>0, <1>q, <2>1, <2>3, <2>4
<1>6. ASSUME NEW g \in Callers, Return(g) PROVE TypeOK'
  <2>1. /\ hand[g] = Empty /\ cpc' = [cpc EXCEPT ![g] = "idle"]
        /\ UNCHANGED <<queues, hand, cur, closed, log, enqueued, taken, refused, overlapped>>
    BY <1>6 DEF Return, hubVars, history
  <2>2. CallTypes'
    BY <1>0, <2>1
  <2> QED BY <1>0, <1>q, <2>1, <2>2
<1>7. CASE HubClose
  BY <1>0, <1>7, <1>q, <1>u DEF HubClose, callVars, history
<1>8. CASE UNCHANGED vars
  BY <1>0, <1>8, <1>q, <1>u DEF vars, callVars, hubVars, history
<1>9. ASSUME NEW g \in Callers, NEW t \in Topics, Broadcast(g, t) PROVE TypeOK'
  <2>1. IsBatch(Delete(queues, t))
    BY <1>0, DeleteBatch
  <2>2. t \in DOMAIN queues => IsBatch(Restrict(queues, {t}))
    BY <1>0, RestrictBatch
  <2> QED BY <1>4, <1>9, <2>1, <2>2, EmptyIsBatch DEF Broadcast
<1>10. ASSUME NEW g \in Callers, BroadcastAll(g) PROVE TypeOK'
  BY <1>0, <1>4, <1>10, EmptyIsBatch DEF BroadcastAll
<1> QED BY <1>1, <1>2, <1>3, <1>5, <1>6, <1>7, <1>8, <1>9, <1>10 DEF Next, InsideCall

(* The map of queues never keeps a topic without events, and a caller that *)
(* is not inside a call holds none.                                        *)
THEOREM TypeCorrect == Spec => []TypeOK
<1> QED BY TypesInit, TypesStep, PTL DEF Spec

-----------------------------------------------------------------------------
(* What a step does to the events of one topic.                            *)

Load(t) == Loads(Where, Contents(t))

Same(t) == /\ Contents(t)' = Contents(t)
           /\ enqueued'[t] = enqueued[t]

Adds(t) ==
  /\ Added(Where, Load(t), Contents(t), Load(t)', Contents(t)', InQueue, enqueued[t] + 1)
  /\ enqueued'[t] = enqueued[t] + 1

Moves(t, a, b, m) ==
  /\ Moved(Where, Load(t), Contents(t), Load(t)', Contents(t)', a, b, m)
  /\ enqueued'[t] = enqueued[t]

(* The caller takes all there is; nobody held events of t before, or t is  *)
(* overlapped from now on.                                                 *)
Taken(t, g, m) ==
  /\ Moves(t, InQueue, InHand(g), m)
  /\ Load(t)[InHand(g)] = 0
  /\ t \notin overlapped' => \A k \in Callers : Load(t)[InHand(k)] = 0

Effect(t) ==
  \/ Same(t)
  \/ Adds(t)
  \/ \E m : Moves(t, InQueue, Consumed, m)
  \/ \E g \in Callers : \E m : Taken(t, g, m)
  \/ \E g \in Callers : Moves(t, InHand(g), InHub, 1)
  \/ \E g \in Callers : Moves(t, InHand(g), Nowhere, 1)

LEMMA ContentsAt ==
  ASSUME NEW t
  PROVE  /\ Contents(t)[InQueue] = Vals(t)
         /\ Contents(t)[InHub] = log[t]
         /\ Contents(t)[Consumed] = taken[t]
         /\ Contents(t)[Nowhere] = refused[t]
         /\ \A g \in Callers : Contents(t)[InHand(g)] = Of(hand[g], t)
<1> DEFINE h == [g \in Callers |-> Of(hand[g], t)]
<1>1. Contents(t) = Lay(Vals(t), log[t], taken[t], refused[t], h)
  BY DEF Contents
<1>2. \A g \in Callers : h[g] = Of(hand[g], t)
  OBVIOUS
<1> HIDE DEF h
<1> QED BY <1>1, <1>2, LayAt

LEMMA ContentsAtNext ==
  ASSUME NEW t
  PROVE  /\ Contents(t)'[InQueue] = Vals(t)'
         /\ Contents(t)'[InHub] = log'[t]
         /\ Contents(t)'[Consumed] = taken'[t]
         /\ Contents(t)'[Nowhere] = refused'[t]
         /\ \A g \in Callers : Contents(t)'[InHand(g)] = Of(hand'[g], t)
<1> DEFINE h == [g \in Callers |-> Of(hand'[g], t)]
<1>1. Contents(t)' = Lay(Vals(t)', log'[t], taken'[t], refused'[t], h)
  BY DEF Contents
<1>2. \A g \in Callers : h[g] = Of(hand'[g], t)
  OBVIOUS
<1> HIDE DEF h
<1> QED BY <1>1, <1>2, LayAt

LEMMA ContentsType ==
  ASSUME TypeOK, NEW t \in Topics
  PROVE  Contents(t) \in [Where -> Seq(Nat)]
<1> DEFINE h == [g \in Callers |-> Of(hand[g], t)]
<1>1. h \in [Callers -> Seq(Nat)]
  BY BatchFacts
<1> HIDE DEF h
<1>2. Contents(t) = Lay(Vals(t), log[t], taken[t], refused[t], h)
  BY DEF Contents, h
<1>3. /\ Vals(t) \in Seq(Nat) /\ log[t] \in Seq(Nat)
      /\ taken[t] \in Seq(Nat) /\ refused[t] \in Seq(Nat)
  BY BatchFacts
<1> QED BY <1>1, <1>2, <1>3, LayType

LEMMA ContentsTypeNext ==
  ASSUME TypeOK', NEW t \in Topics
  PROVE  Contents(t)' \in [Where -> Seq(Nat)]
<1> DEFINE h == [g \in Callers |-> Of(hand'[g], t)]
<1>1. /\ Vals(t)' = Of(queues', t) /\ IsBatch(queues')
      /\ \A g \in Callers : IsBatch(hand'[g])
      /\ log'[t] \in Seq(Nat) /\ taken'[t] \in Seq(Nat) /\ refused'[t] \in Seq(Nat)
  BY DEF Vals, Of, TypeOK
<1>2. h \in [Callers -> Seq(Nat)] /\ Vals(t)' \in Seq(Nat)
  BY <1>1, BatchOf
<1> HIDE DEF h
<1>3. Contents(t)' = Lay(Vals(t)', log'[t], taken'[t], refused'[t], h)
  BY DEF Contents, h
<1> QED BY <1>1, <1>2, <1>3, LayType

(* The places a step leaves alone, one by one.                             *)
LEMMA SameElsewhere ==
  ASSUME NEW t, NEW S \in SUBSET Where,
         InQueue \in S => Vals(t)' = Vals(t),
         InHub \in S => log'[t] = log[t],
         Consumed \in S => taken'[t] = taken[t],
         Nowhere \in S => refused'[t] = refused[t],
         \A g \in Callers : InHand(g) \in S => Of(hand'[g], t) = Of(hand[g], t)
  PROVE  \A w \in S : Contents(t)'[w] = Contents(t)[w]
<1> SUFFICES ASSUME NEW w \in S PROVE Contents(t)'[w] = Contents(t)[w]
  OBVIOUS
<1>1. CASE w \in {InQueue, InHub, Consumed, Nowhere}
  BY <1>1, ContentsAt, ContentsAtNext
<1>2. CASE \E g \in Callers : w = InHand(g)
  BY <1>2, ContentsAt, ContentsAtNext
<1> QED BY <1>1, <1>2, WhereMembers

LEMMA SameAll ==
  ASSUME NEW t, Vals(t)' = Vals(t), log'[t] = log[t], taken'[t] = taken[t],
         refused'[t] = refused[t], enqueued'[t] = enqueued[t],
         \A g \in Callers : Of(hand'[g], t) = Of(hand[g], t)
  PROVE  Same(t)
<1>1. [g \in Callers |-> Of(hand'[g], t)] = [g \in Callers |-> Of(hand[g], t)]
  OBVIOUS
<1> QED BY <1>1 DEF Same, Contents

LEMMA EffectEnqueue ==
  ASSUME TypeOK, TypeOK', NEW s \in Topics, Enqueue(s), NEW t \in Topics
  PROVE  Effect(t)
<1> USE DEF Effect
<1> DEFINE new == Append(Vals(s), enqueued[s] + 1)
<1>1. /\ queues' = Put(queues, s, new)
      /\ enqueued' = [enqueued EXCEPT ![s] = @ + 1]
      /\ hand' = hand /\ log' = log /\ taken' = taken /\ refused' = refused
  BY DEF Enqueue, callVars, hubVars
<1>2. Vals(s) \in Seq(Nat) /\ enqueued \in [Topics -> Nat] /\ enqueued[s] + 1 \in Nat
  <2>1. enqueued \in [Topics -> Nat]
    BY DEF TypeOK
  <2> QED BY <2>1, BatchFacts
<1>3. new \in Seq(Nat) /\ new # << >>
  BY <1>2, AppendProperties
<1>4. /\ Vals(s)' = new
      /\ \A x \in Topics \ {s} : Vals(x)' = Vals(x)
  <2> HIDE DEF new
  <2>1. IsBatch(queues)
    BY DEF TypeOK
  <2>2. /\ Of(queues', s) = new
        /\ \A x \in Topics \ {s} : Of(queues', x) = Of(queues, x)
    BY <1>1, <1>3, <2>1 DEF Put, IsBatch, Of
  <2> QED BY <2>2 DEF Vals, Of
<1>5. CASE t # s
  <2>1. Vals(t)' = Vals(t) /\ enqueued'[t] = enqueued[t]
    BY <1>1, <1>2, <1>4, <1>5
  <2> QED BY <1>1, <2>1, SameAll
<1>6. CASE t = s
  <2>1. Contents(t)'[InQueue] = Append(Contents(t)[InQueue], enqueued[t] + 1)
    BY <1>4, <1>6, ContentsAt, ContentsAtNext
  <2>2. \A w \in Where \ {InQueue} : Contents(t)'[w] = Contents(t)[w]
    <3>1. \A w \in Where \ {InQueue} : w \in Where
      OBVIOUS
    <3> QED BY <1>1, SameElsewhere
  <2> DEFINE A == Contents(t)
             B == Contents(t)'
  <2>3. A \in [Where -> Seq(Nat)] /\ B \in [Where -> Seq(Nat)] /\ InQueue \in Where
    BY ContentsType, ContentsTypeNext, WhereMembers
  <2>4. Added(Where, Loads(Where, A), A, Loads(Where, B), B, InQueue, enqueued[t] + 1)
    <3> HIDE DEF A, B
    <3>1. /\ B[InQueue] = Append(A[InQueue], enqueued[t] + 1)
          /\ \A w \in Where \ {InQueue} : B[w] = A[w]
      BY <2>1, <2>2 DEF A, B
    <3> QED BY <1>2, <1>6, <2>3, <3>1, AppendAdds
  <2>5. enqueued'[t] = enqueued[t] + 1
    BY <1>1, <1>2, <1>6
  <2> QED BY <2>4, <2>5 DEF Adds, Load
<1> QED BY <1>5, <1>6

LEMMA EffectDequeue ==
  ASSUME TypeOK, TypeOK', NEW s \in Topics, Dequeue(s), NEW t \in Topics
  PROVE  Effect(t)
<1> USE DEF Effect
<1>1. /\ Vals(s) # << >> /\ queues' = Pop(queues, s)
      /\ taken' = [taken EXCEPT ![s] = Append(@, Head(Vals(s)))]
      /\ hand' = hand /\ log' = log /\ enqueued' = enqueued /\ refused' = refused
  BY DEF Dequeue, callVars, hubVars
<1>2. s \in DOMAIN queues /\ queues[s] = Vals(s) /\ IsBatch(queues)
  BY <1>1 DEF Vals, TypeOK
<1>3. /\ Vals(s)' = Tail(Vals(s))
      /\ \A x \in Topics \ {s} : Vals(x)' = Vals(x)
  <2>1. /\ Of(queues', s) = Tail(queues[s])
        /\ \A x \in Topics \ {s} : Of(queues', x) = Of(queues, x)
    BY <1>1, <1>2, PopBatch
  <2> QED BY <1>2, <2>1 DEF Vals, Of
<1>4. CASE t # s
  <2>1. Vals(t)' = Vals(t) /\ taken'[t] = taken[t]
    BY <1>1, <1>3, <1>4
  <2> QED BY <1>1, <2>1, SameAll
<1>5. CASE t = s
  <2>0. taken'[t] = Append(taken[t], Head(Vals(t)))
    BY <1>1, <1>5 DEF TypeOK
  <2>1. /\ Contents(t)[InQueue] # << >>
        /\ Contents(t)'[InQueue] = Tail(Contents(t)[InQueue])
        /\ Contents(t)'[Consumed] = Append(Contents(t)[Consumed], Head(Contents(t)[InQueue]))
    BY <1>1, <1>3, <1>5, <2>0, ContentsAt, ContentsAtNext
  <2>2. \A w \in Where \ {InQueue, Consumed} : Contents(t)'[w] = Contents(t)[w]
    BY <1>1, SameElsewhere
  <2> DEFINE A == Contents(t)
             B == Contents(t)'
  <2>3. /\ A \in [Where -> Seq(Nat)] /\ B \in [Where -> Seq(Nat)]
        /\ InQueue \in Where /\ Consumed \in Where /\ InQueue # Consumed
    BY ContentsType, ContentsTypeNext, WhereMembers, WhereDistinct
  <2>4. Moved(Where, Loads(Where, A), A, Loads(Where, B), B, InQueue, Consumed, 1)
    <3> HIDE DEF A, B
    <3>1. /\ A[InQueue] # << >> /\ B[InQueue] = Tail(A[InQueue])
          /\ B[Consumed] = Append(A[Consumed], Head(A[InQueue]))
          /\ \A w \in Where \ {InQueue, Consumed} : B[w] = A[w]
      BY <2>1, <2>2 DEF A, B
    <3> QED BY <2>3, <3>1, HeadMoves
  <2> QED BY <1>1, <2>4 DEF Moves, Load
<1> QED BY <1>4, <1>5

LEMMA EffectDrain ==
  ASSUME TypeOK, TypeOK', NEW s \in Topics, Drain(s), NEW t \in Topics
  PROVE  Effect(t)
<1> USE DEF Effect
<1>1. /\ Vals(s) # << >> /\ queues' = Delete(queues, s)
      /\ taken' = [taken EXCEPT ![s] = @ \o Vals(s)]
      /\ hand' = hand /\ log' = log /\ enqueued' = enqueued /\ refused' = refused
  BY DEF Drain, callVars, hubVars
<1>2. /\ Vals(s)' = << >>
      /\ \A x \in Topics \ {s} : Vals(x)' = Vals(x)
  <2>1. IsBatch(queues)
    BY DEF TypeOK
  <2>2. /\ Of(queues', s) = << >>
        /\ \A x \in Topics \ {s} : Of(queues', x) = Of(queues, x)
    BY <1>1, <2>1, DeleteBatch
  <2> QED BY <2>2 DEF Vals, Of
<1>3. CASE t # s
  <2>1. Vals(t)' = Vals(t) /\ taken'[t] = taken[t]
    BY <1>1, <1>2, <1>3
  <2> QED BY <1>1, <2>1, SameAll
<1>4. CASE t = s
  <2>0. taken'[t] = taken[t] \o Vals(t)
    BY <1>1, <1>4 DEF TypeOK
  <2>1. /\ Contents(t)[InQueue] # << >>
        /\ Contents(t)'[InQueue] = << >>
        /\ Contents(t)'[Consumed] = Contents(t)[Consumed] \o Contents(t)[InQueue]
    <3>1. Contents(t)[InQueue] = Vals(t) /\ Contents(t)[Consumed] = taken[t]
      BY ContentsAt
    <3>2. Contents(t)'[InQueue] = Vals(t)' /\ Contents(t)'[Consumed] = taken'[t]
      BY ContentsAtNext
    <3>3. Vals(t) # << >> /\ Vals(t)' = << >>
      BY <1>1, <1>2, <1>4
    <3> QED BY <2>0, <3>1, <3>2, <3>3, Zenon
  <2>2. \A w \in Where \ {InQueue, Consumed} : Contents(t)'[w] = Contents(t)[w]
    BY <1>1, SameElsewhere
  <2> DEFINE A == Contents(t)
             B == Contents(t)'
  <2>3. /\ A \in [Where -> Seq(Nat)] /\ B \in [Where -> Seq(Nat)]
        /\ InQueue \in Where /\ Consumed \in Where /\ InQueue # Consumed
    BY ContentsType, ContentsTypeNext, WhereMembers, WhereDistinct
  <2>4. Moved(Where, Loads(Where, A), A, Loads(Where, B), B, InQueue, Consumed,
              Len(A[InQueue]))
    <3> HIDE DEF A, B
    <3>1. /\ A[InQueue] # << >> /\ B[InQueue] = << >>
          /\ B[Consumed] = A[Consumed] \o A[InQueue]
          /\ \A w \in Where \ {InQueue, Consumed} : B[w] = A[w]
      BY <2>1, <2>2 DEF A, B
    <3> QED BY <2>3, <3>1, AllMove
  <2> QED BY <1>1, <2>4 DEF Moves, Load
<1> QED BY <1>3, <1>4

LEMMA LoadZero ==
  ASSUME NEW t, NEW w \in Where, Contents(t)[w] = << >>
  PROVE  Load(t)[w] = 0
BY EmptySeq DEF Load, Loads

LEMMA EffectTake ==
  ASSUME TypeOK, TypeOK', NEW g \in Callers, NEW batch, NEW left,
         Take(g, batch, left), IsBatch(batch), NEW t \in Topics,
         \/ Of(batch, t) = Vals(t) /\ Of(left, t) = << >>
         \/ Of(batch, t) = << >> /\ Of(left, t) = Vals(t)
  PROVE  Effect(t)
<1> USE DEF Effect
<1>1. /\ hand[g] = Empty /\ hand' = [hand EXCEPT ![g] = batch] /\ queues' = left
      /\ overlapped' = overlapped \cup
           {x \in DOMAIN batch : \E k \in Callers : x \in DOMAIN hand[k]}
      /\ log' = log /\ enqueued' = enqueued /\ taken' = taken /\ refused' = refused
      /\ DOMAIN hand = Callers
  BY DEF Take, hubVars, TypeOK
<1>2. /\ Of(hand[g], t) = << >> /\ Of(hand'[g], t) = Of(batch, t)
      /\ \A k \in Callers \ {g} : Of(hand'[k], t) = Of(hand[k], t)
      /\ Vals(t)' = Of(left, t)
  <2>1. hand'[g] = batch /\ \A k \in Callers \ {g} : hand'[k] = hand[k]
    BY <1>1
  <2>2. Of(hand[g], t) = << >>
    BY <1>1, EmptyIsBatch DEF Of
  <2> QED BY <1>1, <2>1, <2>2 DEF Vals, Of
<1>3. CASE Of(batch, t) = << >> /\ Of(left, t) = Vals(t)
  <2>1. \A k \in Callers : Of(hand'[k], t) = Of(hand[k], t)
    BY <1>2, <1>3
  <2> QED BY <1>1, <1>2, <1>3, <2>1, SameAll
<1>4. CASE Of(batch, t) # << >> /\ Of(batch, t) = Vals(t) /\ Of(left, t) = << >>
  <2> DEFINE A == Contents(t)
             B == Contents(t)'
  <2>1. /\ A[InQueue] = Vals(t) /\ A[InQueue] # << >> /\ B[InQueue] = << >>
        /\ A[InHand(g)] = << >> /\ B[InHand(g)] = Vals(t)
    <3>1. A[InQueue] = Vals(t) /\ A[InHand(g)] = Of(hand[g], t)
      BY ContentsAt
    <3>2. B[InQueue] = Vals(t)' /\ B[InHand(g)] = Of(hand'[g], t)
      BY ContentsAtNext
    <3> QED BY <1>2, <1>4, <3>1, <3>2, Zenon
  <2>2. \A w \in Where \ {InQueue, InHand(g)} : B[w] = A[w]
    <3>1. \A k \in Callers : InHand(k) \in Where \ {InQueue, InHand(g)} => k # g
      OBVIOUS
    <3>2. \A k \in Callers : InHand(k) \in Where \ {InQueue, InHand(g)} =>
            Of(hand'[k], t) = Of(hand[k], t)
      BY <1>2, <3>1
    <3>3. Where \ {InQueue, InHand(g)} \in SUBSET Where
      OBVIOUS
    <3>4. InQueue \notin Where \ {InQueue, InHand(g)}
      OBVIOUS
    <3> QED BY <1>1, <3>2, <3>3, <3>4, SameElsewhere
  <2>3. /\ A \in [Where -> Seq(Nat)] /\ B \in [Where -> Seq(Nat)]
        /\ InQueue \in Where /\ InHand(g) \in Where /\ InQueue # InHand(g)
    BY ContentsType, ContentsTypeNext, WhereMembers, WhereDistinct
  <2>4. Moved(Where, Loads(Where, A), A, Loads(Where, B), B, InQueue, InHand(g),
              Len(A[InQueue]))
    <3> HIDE DEF A, B
    <3>1. A[InQueue] \in Seq(Nat)
      BY <2>3
    <3>2. B[InHand(g)] = A[InHand(g)] \o A[InQueue]
      <4>1. << >> \o A[InQueue] = A[InQueue]
        BY <3>1, ConcatEmptySeq
      <4> QED BY <2>1, <4>1, Zenon
    <3> QED BY <2>1, <2>2, <2>3, <3>2, AllMove
  <2>5. Load(t)[InHand(g)] = 0
    BY <2>1, <2>3, LoadZero
  <2>6. ASSUME t \notin overlapped', NEW k \in Callers
        PROVE  Load(t)[InHand(k)] = 0
    <3>1. t \in DOMAIN batch
      BY <1>4 DEF Of
    <3>2. t \notin DOMAIN hand[k]
      BY <1>1, <2>6, <3>1
    <3>3. Of(hand[k], t) = << >>
      BY <3>2 DEF Of
    <3>4. Contents(t)[InHand(k)] = << >> /\ InHand(k) \in Where
      BY <3>3, ContentsAt, WhereMembers
    <3> QED BY <3>4, LoadZero
  <2>7. Taken(t, g, Len(A[InQueue]))
    <3> DEFINE m == Len(A[InQueue])
    <3>1. Moves(t, InQueue, InHand(g), m)
      BY <1>1, <2>4 DEF Moves, Load
    <3> HIDE DEF m
    <3>2. Taken(t, g, m)
      BY <2>5, <2>6, <3>1 DEF Taken
    <3> QED BY <3>2 DEF m
  <2> QED BY <2>7
<1> QED BY <1>3, <1>4

LEMMA EffectPublish ==
  ASSUME TypeOK, TypeOK', NEW g \in Callers, NEW s \in Topics, Publish(g, s),
         NEW t \in Topics
  PROVE  Effect(t)
<1> USE DEF Effect
<1>1. /\ s \in DOMAIN hand[g] /\ hand' = [hand EXCEPT ![g] = Pop(hand[g], s)]
      /\ queues' = queues /\ enqueued' = enqueued /\ taken' = taken
      /\ DOMAIN hand = Callers /\ IsBatch(hand[g])
  BY DEF Publish, TypeOK
<1>2. /\ Of(hand[g], s) = hand[g][s] /\ Of(hand[g], s) # << >>
      /\ Of(hand'[g], s) = Tail(hand[g][s])
      /\ \A x \in Topics \ {s} : Of(hand'[g], x) = Of(hand[g], x)
      /\ \A k \in Callers \ {g} : \A x : Of(hand'[k], x) = Of(hand[k], x)
  <2>1. hand'[g] = Pop(hand[g], s) /\ \A k \in Callers \ {g} : hand'[k] = hand[k]
    BY <1>1
  <2>2. /\ Of(Pop(hand[g], s), s) = Tail(hand[g][s])
        /\ \A x \in Topics \ {s} : Of(Pop(hand[g], s), x) = Of(hand[g], x)
    BY <1>1, PopBatch
  <2>3. Of(hand[g], s) = hand[g][s] /\ hand[g][s] # << >>
    BY <1>1 DEF Of, IsBatch
  <2> QED BY <2>1, <2>2, <2>3
<1>3. \A x : Vals(x)' = Vals(x)
  BY <1>1 DEF Vals
<1> DEFINE x == Head(hand[g][s])
<1>4. \/ log' = [log EXCEPT ![s] = Append(@, x)] /\ refused' = refused
      \/ refused' = [refused EXCEPT ![s] = Append(@, x)] /\ log' = log
  BY DEF Publish
<1>5. CASE t # s
  <2> HIDE DEF x
  <2>1. log'[t] = log[t] /\ refused'[t] = refused[t]
    BY <1>4, <1>5 DEF TypeOK
  <2>2. \A k \in Callers : Of(hand'[k], t) = Of(hand[k], t)
    BY <1>2, <1>5
  <2> QED BY <1>1, <1>3, <2>1, <2>2, SameAll
<1>6. CASE t = s
  <2> DEFINE A == Contents(t)
             B == Contents(t)'
  <2>1. /\ A[InHand(g)] = hand[g][s] /\ A[InHand(g)] # << >>
        /\ B[InHand(g)] = Tail(A[InHand(g)])
    <3>1. A[InHand(g)] = Of(hand[g], s) /\ B[InHand(g)] = Of(hand'[g], s)
      BY <1>6, ContentsAt, ContentsAtNext
    <3> QED BY <1>2, <3>1, Zenon
  <2>2. \A S \in SUBSET Where : \A k \in Callers :
          InHand(g) \notin S /\ InHand(k) \in S => Of(hand'[k], t) = Of(hand[k], t)
    BY <1>2
  <2>3. /\ A \in [Where -> Seq(Nat)] /\ B \in [Where -> Seq(Nat)]
        /\ InHub \in Where /\ Nowhere \in Where /\ InHand(g) \in Where
        /\ InHand(g) # InHub /\ InHand(g) # Nowhere
    BY ContentsType, ContentsTypeNext, WhereMembers, WhereDistinct
  <2>4. CASE log' = [log EXCEPT ![s] = Append(@, x)] /\ refused' = refused
    <3>1. B[InHub] = Append(A[InHub], Head(A[InHand(g)]))
      <4>1. log'[s] = Append(log[s], x)
        BY <2>4 DEF TypeOK
      <4>2. A[InHub] = log[s] /\ B[InHub] = log'[s]
        BY <1>6, ContentsAt, ContentsAtNext
      <4> QED BY <2>1, <4>1, <4>2, Zenon
    <3>2. \A w \in Where \ {InHand(g), InHub} : B[w] = A[w]
      <4> DEFINE S == Where \ {InHand(g), InHub}
      <4>1. S \in SUBSET Where /\ InHand(g) \notin S /\ InHub \notin S
        OBVIOUS
      <4> HIDE DEF S
      <4>2. \A w \in S : B[w] = A[w]
        BY <1>1, <1>3, <2>2, <2>4, <4>1, SameElsewhere
      <4> QED BY <4>2 DEF S
    <3>3. Moved(Where, Loads(Where, A), A, Loads(Where, B), B, InHand(g), InHub, 1)
      <4> HIDE DEF A, B
      <4> QED BY <2>1, <2>3, <3>1, <3>2, HeadMoves
    <3> QED BY <1>1, <3>3 DEF Moves, Load
  <2>5. CASE refused' = [refused EXCEPT ![s] = Append(@, x)] /\ log' = log
    <3>1. B[Nowhere] = Append(A[Nowhere], Head(A[InHand(g)]))
      <4>1. refused'[s] = Append(refused[s], x)
        BY <2>5 DEF TypeOK
      <4>2. A[Nowhere] = refused[s] /\ B[Nowhere] = refused'[s]
        BY <1>6, ContentsAt, ContentsAtNext
      <4> QED BY <2>1, <4>1, <4>2, Zenon
    <3>2. \A w \in Where \ {InHand(g), Nowhere} : B[w] = A[w]
      <4> DEFINE S == Where \ {InHand(g), Nowhere}
      <4>1. S \in SUBSET Where /\ InHand(g) \notin S /\ Nowhere \notin S
        OBVIOUS
      <4> HIDE DEF S
      <4>2. \A w \in S : B[w] = A[w]
        BY <1>1, <1>3, <2>2, <2>5, <4>1, SameElsewhere
      <4> QED BY <4>2 DEF S
    <3>3. Moved(Where, Loads(Where, A), A, Loads(Where, B), B, InHand(g), Nowhere, 1)
      <4> HIDE DEF A, B
      <4> QED BY <2>1, <2>3, <3>1, <3>2, HeadMoves
    <3> QED BY <1>1, <3>3 DEF Moves, Load
  <2> QED BY <1>4, <2>4, <2>5
<1> QED BY <1>5, <1>6

LEMMA StepEffect ==
  ASSUME TypeOK, TypeOK', [Next]_vars, NEW t \in Topics
  PROVE  Effect(t) /\ overlapped \subseteq overlapped'
<1>1. CASE UNCHANGED <<queues, hand, log, enqueued, taken, refused, overlapped>>
  <2>1. Vals(t)' = Vals(t)
    BY <1>1 DEF Vals
  <2> QED BY <1>1, <2>1, SameAll DEF Effect
<1>2. ASSUME NEW g \in Callers, NEW s \in Topics, Broadcast(g, s) PROVE Effect(t)
  <2> DEFINE batch == IF s \in DOMAIN queues THEN Restrict(queues, {s}) ELSE Empty
             left == Delete(queues, s)
  <2>1. IsBatch(queues) /\ Take(g, batch, left)
    BY <1>2 DEF TypeOK, Broadcast
  <2>2. Of(left, s) = << >> /\ (t # s => Of(left, t) = Vals(t))
    BY <2>1, DeleteBatch, ValsOf
  <2>3. IsBatch(batch) /\ Of(batch, s) = Vals(s) /\ (t # s => Of(batch, t) = << >>)
    <3>1. CASE s \in DOMAIN queues
      BY <2>1, <3>1, RestrictBatch, ValsOf
    <3>2. CASE s \notin DOMAIN queues
      BY <3>2, EmptyIsBatch DEF Of, Vals
    <3> QED BY <3>1, <3>2
  <2> HIDE DEF batch, left
  <2>4. \/ Of(batch, t) = Vals(t) /\ Of(left, t) = << >>
        \/ Of(batch, t) = << >> /\ Of(left, t) = Vals(t)
    BY <2>2, <2>3
  <2> QED BY <2>1, <2>3, <2>4, EffectTake
<1>3. ASSUME NEW g \in Callers, BroadcastAll(g) PROVE Effect(t)
  <2>1. IsBatch(queues) /\ Take(g, queues, Empty)
    BY <1>3 DEF TypeOK, BroadcastAll
  <2>2. Of(queues, t) = Vals(t) /\ Of(Empty, t) = << >>
    BY EmptyIsBatch, ValsOf DEF Of
  <2> QED BY <2>1, <2>2, EffectTake
<1>4. Effect(t)
  BY <1>1, <1>2, <1>3, EffectEnqueue, EffectDequeue, EffectDrain, EffectPublish
     DEF Next, InsideCall, Return, HubClose, callVars, hubVars, history, vars
<1>5. overlapped \subseteq overlapped'
  BY DEF Next, InsideCall, Enqueue, Dequeue, Drain, Broadcast, BroadcastAll, Take,
         Publish, Return, HubClose, callVars, hubVars, history, vars
<1> QED BY <1>4, <1>5

-----------------------------------------------------------------------------
(* The inductive invariant, topic by topic.                                *)

Counted(t) == Once(Where, Load(t), Contents(t), enqueued[t])

(* The queue and every batch are in order, and what is queued is younger   *)
(* than all that has left the queue.                                       *)
Ordered(t) ==
  /\ Sorted(Load(t), Contents(t), InQueue)
  /\ \A g \in Callers : Sorted(Load(t), Contents(t), InHand(g))
  /\ \A w \in Where \ {InQueue} : Before(Load(t), Contents(t), w, InQueue)

(* Of a topic that two callers never held at a time, one caller at most    *)
(* holds events, all younger than those in the hub.                        *)
Straight(t) ==
  t \notin overlapped =>
    /\ \A g, k \in Callers :
         Load(t)[InHand(g)] > 0 /\ Load(t)[InHand(k)] > 0 => g = k
    /\ Sorted(Load(t), Contents(t), InHub)
    /\ \A g \in Callers : Before(Load(t), Contents(t), InHub, InHand(g))

QueueInv == /\ TypeOK
            /\ \A t \in Topics : Counted(t) /\ Ordered(t) /\ Straight(t)

LEMMA QueueInit == Init => QueueInv
<1> SUFFICES ASSUME Init, NEW t \in Topics
             PROVE  Counted(t) /\ Ordered(t) /\ Straight(t)
  BY TypesInit DEF QueueInv
<1>1. /\ Vals(t) = << >> /\ log[t] = << >> /\ taken[t] = << >> /\ refused[t] = << >>
      /\ \A g \in Callers : Of(hand[g], t) = << >>
      /\ enqueued[t] = 0
  BY EmptyIsBatch DEF Init, Vals, Of
<1>2. \A w \in Where : Load(t)[w] = 0
  <2> SUFFICES ASSUME NEW w \in Where PROVE Contents(t)[w] = << >>
    BY LoadZero
  <2>1. CASE w \in {InQueue, InHub, Consumed, Nowhere}
    BY <1>1, <2>1, ContentsAt
  <2>2. CASE \E g \in Callers : w = InHand(g)
    BY <1>1, <2>2, ContentsAt
  <2> QED BY <2>1, <2>2, WhereMembers
<1>3. Counted(t)
  BY <1>1, <1>2 DEF Counted, Once
<1>4. Ordered(t) /\ Straight(t)
  BY <1>2, WhereMembers DEF Ordered, Straight, Sorted, Before
<1> QED BY <1>3, <1>4

LEMMA LoadsOf ==
  ASSUME TypeOK, TypeOK', NEW t \in Topics
  PROVE  /\ Load(t) \in [Where -> Nat] /\ Load(t)' \in [Where -> Nat]
         /\ \A w \in Where : \A i \in 1 .. Load(t)[w] : Contents(t)[w][i] \in Nat
<1> DEFINE A == Contents(t)
           B == Contents(t)'
<1>1. A \in [Where -> Seq(Nat)] /\ B \in [Where -> Seq(Nat)]
  BY ContentsType, ContentsTypeNext
<1> HIDE DEF A, B
<1>2. /\ Loads(Where, A) \in [Where -> Nat] /\ Loads(Where, B) \in [Where -> Nat]
      /\ \A w \in Where : \A i \in 1 .. Loads(Where, A)[w] : A[w][i] \in Nat
  BY <1>1, LoadsType
<1> QED BY <1>2 DEF A, B, Load

LEMMA CountedStep ==
  ASSUME QueueInv, TypeOK', NEW t \in Topics, Effect(t)
  PROVE  Counted(t)'
<1> DEFINE A == Contents(t)
           B == Contents(t)'
           N == Load(t)
           K == Load(t)'
           n == enqueued[t]
<1>1. /\ Once(Where, N, A, n) /\ n \in Nat
      /\ N \in [Where -> Nat] /\ K \in [Where -> Nat]
  BY LoadsOf DEF QueueInv, Counted, TypeOK
<1>2. CASE Same(t)
  BY <1>1, <1>2 DEF Same, Counted, Load
<1>3. CASE Adds(t)
  <2>1. Added(Where, N, A, K, B, InQueue, n + 1) /\ enqueued'[t] = n + 1
    BY <1>3 DEF Adds
  <2>2. Once(Where, K, B, n + 1)
    <3> HIDE DEF A, B, N, K, n
    <3> QED BY <1>1, <2>1, AddedOnce, WhereMembers
  <2> QED BY <2>1, <2>2 DEF Counted
<1>4. ASSUME NEW a \in Where, NEW b \in Where, NEW m, Moves(t, a, b, m)
      PROVE  Counted(t)'
  <2>1. Moved(Where, N, A, K, B, a, b, m) /\ enqueued'[t] = n
    BY <1>4 DEF Moves
  <2>2. Once(Where, K, B, n)
    <3> HIDE DEF A, B, N, K, n
    <3> QED BY <1>1, <2>1, MovedOnce
  <2> QED BY <2>1, <2>2 DEF Counted
<1> QED BY <1>2, <1>3, <1>4, WhereMembers DEF Effect, Taken

LEMMA OrderedStep ==
  ASSUME QueueInv, TypeOK', NEW t \in Topics, Effect(t)
  PROVE  Ordered(t)'
<1> DEFINE A == Contents(t)
           B == Contents(t)'
           N == Load(t)
           K == Load(t)'
           n == enqueued[t]
<1>1. /\ Once(Where, N, A, n) /\ n \in Nat
      /\ N \in [Where -> Nat] /\ K \in [Where -> Nat]
      /\ \A w \in Where : \A i \in 1 .. N[w] : A[w][i] \in Nat
  BY LoadsOf DEF QueueInv, Counted, TypeOK
<1>2. /\ Sorted(N, A, InQueue)
      /\ \A g \in Callers : Sorted(N, A, InHand(g))
      /\ \A w \in Where \ {InQueue} : Before(N, A, w, InQueue)
  BY DEF QueueInv, Ordered
<1>q. /\ Sorted(K, B, InQueue)
      /\ \A g \in Callers : Sorted(K, B, InHand(g))
      /\ \A w \in Where \ {InQueue} : Before(K, B, w, InQueue)
      => Ordered(t)'
  BY DEF Ordered
<1>3. CASE Same(t)
  BY <1>2, <1>3, <1>q DEF Same, Load
<1>4. CASE Adds(t)
  <2>1. Added(Where, N, A, K, B, InQueue, n + 1)
    BY <1>4 DEF Adds
  <2> HIDE DEF A, B, N, K, n
  <2>2. /\ Sorted(K, B, InQueue)
        /\ \A w \in Where \ {InQueue} :
             /\ Sorted(N, A, w) => Sorted(K, B, w)
             /\ Before(N, A, w, InQueue) => Before(K, B, w, InQueue)
    BY <1>1, <1>2, <2>1, AddedOrder, WhereMembers
  <2> QED BY <1>2, <1>q, <2>2, WhereMembers, WhereDistinct
<1>5. ASSUME NEW b \in Where \ {InQueue}, NEW m, Moves(t, InQueue, b, m),
             b \in Hands => N[b] = 0
      PROVE  Ordered(t)'
  <2>1. Moved(Where, N, A, K, B, InQueue, b, m)
    BY <1>5 DEF Moves
  <2> HIDE DEF A, B, N, K, n
  <2>2. /\ Sorted(K, B, InQueue)
        /\ Before(N, A, b, InQueue) => Before(K, B, b, InQueue)
        /\ Sorted(N, A, b) /\ Before(N, A, b, InQueue) => Sorted(K, B, b)
        /\ \A w \in Where \ {InQueue, b} :
             /\ Sorted(N, A, w) => Sorted(K, B, w)
             /\ Before(N, A, w, InQueue) => Before(K, B, w, InQueue)
    <3>1. InQueue \in Where /\ b \in Where
      BY WhereMembers
    <3>2. OrderKept(Where, N, A, K, B, InQueue, b)
      BY <1>1, <1>2, <2>1, <3>1, MovedOrder
    <3> QED BY <3>2 DEF OrderKept
  <2>3. \A w \in Where \ {InQueue} : Before(K, B, w, InQueue)
    BY <1>2, <2>2
  <2>4. ASSUME NEW g \in Callers PROVE Sorted(K, B, InHand(g))
    <3>1. CASE b = InHand(g)
      BY <1>2, <2>2, <3>1
    <3>2. CASE b # InHand(g)
      BY <1>2, <2>2, <3>2, WhereMembers, WhereDistinct
    <3> QED BY <3>1, <3>2
  <2> QED BY <1>q, <2>2, <2>3, <2>4
<1>6. ASSUME NEW g \in Callers, NEW b \in {InHub, Nowhere}, Moves(t, InHand(g), b, 1)
      PROVE  Ordered(t)'
  <2> DEFINE a == InHand(g)
  <2>1. Moved(Where, N, A, K, B, a, b, 1)
    BY <1>6 DEF Moves
  <2> HIDE DEF A, B, N, K, n
  <2>2. /\ a \in Where /\ b \in Where /\ InQueue \in Where \ {a, b}
        /\ a \in Where \ {InQueue} /\ b \in Where \ {InQueue}
        /\ \A k \in Callers : k # g => InHand(k) \in Where \ {a, b}
    BY WhereMembers, WhereDistinct
  <2>3. Sorted(N, A, a) /\ Before(N, A, a, InQueue) /\ Before(N, A, b, InQueue)
    BY <1>2, <2>2
  <2> HIDE DEF a
  <2>4. /\ Sorted(K, B, a)
        /\ \A w \in Where \ {a, b} :
              /\ Sorted(N, A, w) => Sorted(K, B, w)
              /\ Before(N, A, a, w) => Before(K, B, a, w)
              /\ Before(N, A, a, w) /\ Before(N, A, b, w) => Before(K, B, b, w)
              /\ \A v \in Where \ {a, b} : Before(N, A, v, w) => Before(K, B, v, w)
    <3>1. OrderKept(Where, N, A, K, B, a, b)
      BY <1>1, <2>1, <2>2, <2>3, MovedOrder
    <3> QED BY <3>1 DEF OrderKept
  <2>5. Sorted(K, B, InQueue)
    BY <1>2, <2>2, <2>4
  <2>6. \A k \in Callers : Sorted(K, B, InHand(k))
    BY <1>2, <2>2, <2>4 DEF a
  <2>7. \A w \in Where \ {InQueue} : Before(K, B, w, InQueue)
    BY <1>2, <2>2, <2>3, <2>4
  <2> QED BY <1>q, <2>5, <2>6, <2>7
<1>7. ASSUME NEW m, Moves(t, InQueue, Consumed, m) PROVE Ordered(t)'
  BY <1>5, <1>7, WhereMembers, WhereDistinct DEF Hands
<1>8. ASSUME NEW g \in Callers, NEW m, Taken(t, g, m) PROVE Ordered(t)'
  BY <1>5, <1>8, WhereMembers, WhereDistinct DEF Taken
<1> QED BY <1>3, <1>4, <1>6, <1>7, <1>8 DEF Effect

LEMMA StraightStep ==
  ASSUME QueueInv, TypeOK', NEW t \in Topics, Effect(t), overlapped \subseteq overlapped'
  PROVE  Straight(t)'
<1> DEFINE A == Contents(t)
           B == Contents(t)'
           N == Load(t)
           K == Load(t)'
           n == enqueued[t]
<1> SUFFICES ASSUME t \notin overlapped'
             PROVE  /\ \A g, k \in Callers :
                         K[InHand(g)] > 0 /\ K[InHand(k)] > 0 => g = k
                    /\ Sorted(K, B, InHub)
                    /\ \A g \in Callers : Before(K, B, InHub, InHand(g))
  BY DEF Straight
<1>1. /\ Once(Where, N, A, n) /\ n \in Nat
      /\ N \in [Where -> Nat] /\ K \in [Where -> Nat]
      /\ \A w \in Where : \A i \in 1 .. N[w] : A[w][i] \in Nat
  BY LoadsOf DEF QueueInv, Counted, TypeOK
<1>2. /\ Sorted(N, A, InQueue)
      /\ \A g \in Callers : Sorted(N, A, InHand(g))
      /\ \A w \in Where \ {InQueue} : Before(N, A, w, InQueue)
  BY DEF QueueInv, Ordered
<1>3. /\ \A g, k \in Callers : N[InHand(g)] > 0 /\ N[InHand(k)] > 0 => g = k
      /\ Sorted(N, A, InHub)
      /\ \A g \in Callers : Before(N, A, InHub, InHand(g))
  BY DEF QueueInv, Straight
<1>4. CASE Same(t)
  BY <1>3, <1>4 DEF Same, Load
<1>5. CASE Adds(t)
  <2>1. Added(Where, N, A, K, B, InQueue, n + 1)
    BY <1>5 DEF Adds
  <2> HIDE DEF A, B, N, K, n
  <2>2. \A w \in Where \ {InQueue} : K[w] = N[w] /\ B[w] = A[w]
    BY <2>1 DEF Added
  <2>3. InHub \in Where \ {InQueue} /\ \A g \in Callers : InHand(g) \in Where \ {InQueue}
    BY WhereMembers, WhereDistinct
  <2> QED BY <1>3, <2>2, <2>3 DEF Sorted, Before
<1>6. ASSUME NEW m, Moves(t, InQueue, Consumed, m)
      PROVE  /\ \A g, k \in Callers :
                  K[InHand(g)] > 0 /\ K[InHand(k)] > 0 => g = k
             /\ Sorted(K, B, InHub)
             /\ \A g \in Callers : Before(K, B, InHub, InHand(g))
  <2>1. Moved(Where, N, A, K, B, InQueue, Consumed, m)
    BY <1>6 DEF Moves
  <2> HIDE DEF A, B, N, K, n
  <2>2. \A w \in Where \ {InQueue, Consumed} : K[w] = N[w] /\ B[w] = A[w]
    BY <2>1 DEF Moved
  <2>3. /\ InHub \in Where \ {InQueue, Consumed}
        /\ \A g \in Callers : InHand(g) \in Where \ {InQueue, Consumed}
    BY WhereMembers, WhereDistinct
  <2> QED BY <1>3, <2>2, <2>3 DEF Sorted, Before
<1>7. ASSUME NEW g \in Callers, NEW m, Taken(t, g, m)
      PROVE  /\ \A j, k \in Callers :
                  K[InHand(j)] > 0 /\ K[InHand(k)] > 0 => j = k
             /\ Sorted(K, B, InHub)
             /\ \A k \in Callers : Before(K, B, InHub, InHand(k))
  <2> DEFINE b == InHand(g)
  <2>1. /\ Moved(Where, N, A, K, B, InQueue, b, m)
        /\ \A k \in Callers : N[InHand(k)] = 0
    BY <1>7 DEF Taken, Moves
  <2> HIDE DEF A, B, N, K, n
  <2>2. /\ InQueue \in Where /\ b \in Where /\ InHub \in Where \ {InQueue, b}
        /\ \A k \in Callers : k # g => InHand(k) \in Where \ {InQueue, b}
    BY WhereMembers, WhereDistinct
  <2>3. /\ Sorted(N, A, InHub) => Sorted(K, B, InHub)
        /\ Before(N, A, InHub, InQueue) /\ Before(N, A, InHub, b)
             => Before(K, B, InHub, b)
    <3> HIDE DEF b
    <3>1. OrderKept(Where, N, A, K, B, InQueue, b)
      BY <1>1, <1>2, <2>1, <2>2, MovedOrder
    <3> QED BY <2>2, <3>1 DEF OrderKept
  <2>4. \A k \in Callers : k # g => K[InHand(k)] = 0
    BY <2>1, <2>2 DEF Moved
  <2>5. \A k \in Callers : k # g => Before(K, B, InHub, InHand(k))
    BY <2>4 DEF Before
  <2>6. Before(K, B, InHub, b)
    BY <1>2, <1>3, <2>2, <2>3
  <2> QED BY <1>3, <2>3, <2>4, <2>5, <2>6
<1>8. ASSUME NEW g \in Callers, NEW b \in {InHub, Nowhere}, Moves(t, InHand(g), b, 1)
      PROVE  /\ \A j, k \in Callers :
                  K[InHand(j)] > 0 /\ K[InHand(k)] > 0 => j = k
             /\ Sorted(K, B, InHub)
             /\ \A k \in Callers : Before(K, B, InHub, InHand(k))
  <2> DEFINE a == InHand(g)
  <2>1. Moved(Where, N, A, K, B, a, b, 1)
    BY <1>8 DEF Moves
  <2> HIDE DEF A, B, N, K, n
  <2>2. /\ a \in Where /\ b \in Where /\ (b # InHub => InHub \in Where \ {a, b})
        /\ \A k \in Callers : k # g => InHand(k) \in Where \ {a, b}
    BY WhereMembers, WhereDistinct
  <2>3. Sorted(N, A, a) /\ Before(N, A, InHub, a) /\ Sorted(N, A, InHub)
    BY <1>2, <1>3
  <2>4. N[a] > 0 /\ \A k \in Callers : k # g => K[InHand(k)] = 0
    <3>1. N[a] \in Nat /\ 1 \in 1 .. N[a]
      BY <1>1, <2>1, <2>2 DEF Moved
    <3>2. N[a] > 0
      BY <3>1
    <3>3. \A k \in Callers : k # g => N[InHand(k)] = 0
      <4>1. \A k \in Callers : N[InHand(k)] \in Nat
        BY <1>1, WhereMembers
      <4> QED BY <1>3, <3>2, <4>1
    <3>4. \A k \in Callers : k # g => K[InHand(k)] = N[InHand(k)]
      BY <2>1, <2>2 DEF Moved
    <3> QED BY <3>2, <3>3, <3>4
  <2>5. \A k \in Callers : k # g => Before(K, B, InHub, InHand(k))
    BY <2>4 DEF Before
  <2>6. Sorted(K, B, InHub) /\ Before(K, B, InHub, a)
    <3> HIDE DEF a
    <3>0. OrderKept(Where, N, A, K, B, a, b)
      BY <1>1, <2>1, <2>2, <2>3, MovedOrder
    <3>1. CASE b = InHub
      <4>1. /\ Before(N, A, b, a) => Before(K, B, b, a)
            /\ Sorted(N, A, b) /\ Before(N, A, b, a) => Sorted(K, B, b)
        BY <3>0 DEF OrderKept
      <4> QED BY <2>3, <3>1, <4>1
    <3>2. CASE b # InHub
      <4>1. /\ Sorted(N, A, InHub) => Sorted(K, B, InHub)
            /\ Before(N, A, InHub, a) => Before(K, B, InHub, a)
        BY <2>2, <3>0, <3>2 DEF OrderKept
      <4> QED BY <2>3, <4>1
    <3> QED BY <3>1, <3>2
  <2>7. \A k \in Callers : Before(K, B, InHub, InHand(k))
    BY <2>5, <2>6
  <2>8. \A j, k \in Callers : K[InHand(j)] > 0 /\ K[InHand(k)] > 0 => j = k
    BY <2>4
  <2> QED BY <2>6, <2>7, <2>8
<1> QED BY <1>4, <1>5, <1>6, <1>7, <1>8 DEF Effect

LEMMA QueueStep == QueueInv /\ [Next]_vars => QueueInv'
<1> SUFFICES ASSUME QueueInv, [Next]_vars PROVE QueueInv'
  OBVIOUS
<1>1. TypeOK'
  BY TypesStep DEF QueueInv
<1>2. ASSUME NEW t \in Topics PROVE Counted(t)' /\ Ordered(t)' /\ Straight(t)'
  <2>1. Effect(t) /\ overlapped \subseteq overlapped'
    BY <1>1, StepEffect DEF QueueInv
  <2> QED BY <1>1, <2>1, CountedStep, OrderedStep, StraightStep
<1> QED BY <1>1, <1>2 DEF QueueInv

THEOREM QueueInvariant == Spec => []QueueInv
<1> QED BY QueueInit, QueueStep, PTL DEF Spec

-----------------------------------------------------------------------------
(* The properties.                                                         *)

(* The member of Places(t) that w stands for.                              *)
Named(w) == IF w \in Hands THEN w[2] ELSE w[1]

PlaceOf(t, w) == <<Named(w), Contents(t)[w]>>

LEMMA NamedOf ==
  /\ Named(InQueue) = "queue" /\ Named(InHub) = "hub"
  /\ Named(Consumed) = "consumer" /\ Named(Nowhere) = "nowhere"
  /\ \A g \in Callers : Named(InHand(g)) = g
<1>1. \A g \in Callers : InHand(g) \in Hands
  BY DEF Hands
<1>2. /\ InQueue \notin Hands /\ InHub \notin Hands
      /\ Consumed \notin Hands /\ Nowhere \notin Hands
  BY WhereDistinct DEF Hands
<1>3. /\ InQueue[1] = "queue" /\ InHub[1] = "hub"
      /\ Consumed[1] = "consumer" /\ Nowhere[1] = "nowhere"
  BY DEF InQueue, InHub, Consumed, Nowhere
<1> QED BY <1>1, <1>2, <1>3, WhereDistinct DEF Named

LEMMA PlacesWhere ==
  ASSUME TypeOK, NEW t \in Topics
  PROVE  /\ \A p \in Places(t) : \E w \in Where : p = PlaceOf(t, w)
         /\ \A w \in Where : Contents(t)[w] # << >> => PlaceOf(t, w) \in Places(t)
<1>1. /\ PlaceOf(t, InQueue) = <<"queue", Vals(t)>>
      /\ PlaceOf(t, InHub) = <<"hub", log[t]>>
      /\ PlaceOf(t, Consumed) = <<"consumer", taken[t]>>
      /\ PlaceOf(t, Nowhere) = <<"nowhere", refused[t]>>
      /\ \A g \in Callers : PlaceOf(t, InHand(g)) = <<g, Of(hand[g], t)>>
  BY NamedOf, ContentsAt DEF PlaceOf
<1>2. ASSUME NEW p \in Places(t) PROVE \E w \in Where : p = PlaceOf(t, w)
  <2>1. CASE p \in {<<"queue", Vals(t)>>, <<"hub", log[t]>>,
                    <<"consumer", taken[t]>>, <<"nowhere", refused[t]>>}
    BY <1>1, <2>1, WhereMembers
  <2>2. CASE p \in {<<g, hand[g][t]>> : g \in {k \in Callers : t \in DOMAIN hand[k]}}
    <3>1. PICK g \in Callers : t \in DOMAIN hand[g] /\ p = <<g, hand[g][t]>>
      BY <2>2
    <3>2. p = PlaceOf(t, InHand(g))
      BY <1>1, <3>1 DEF Of
    <3> QED BY <3>2, WhereMembers
  <2> QED BY <2>1, <2>2 DEF Places
<1>3. ASSUME NEW w \in Where, Contents(t)[w] # << >>
      PROVE  PlaceOf(t, w) \in Places(t)
  <2>1. CASE w \in {InQueue, InHub, Consumed, Nowhere}
    BY <1>1, <2>1 DEF Places
  <2>2. ASSUME NEW g \in Callers, w = InHand(g) PROVE PlaceOf(t, w) \in Places(t)
    <3>1. Of(hand[g], t) # << >>
      BY <1>3, <2>2, ContentsAt
    <3>2. t \in DOMAIN hand[g]
      BY <3>1 DEF Of
    <3>3. PlaceOf(t, w) = <<g, hand[g][t]>>
      BY <1>1, <2>2, <3>2 DEF Of
    <3> QED BY <3>2, <3>3 DEF Places
  <2> QED BY <2>1, <2>2, WhereMembers
<1> QED BY <1>2, <1>3

LEMMA PlaceEvents ==
  ASSUME TypeOK, NEW t \in Topics, NEW w \in Where
  PROVE  /\ PlaceOf(t, w)[2] = Contents(t)[w]
         /\ DOMAIN Contents(t)[w] = 1 .. Load(t)[w]
         /\ Load(t)[w] \in Nat
         /\ Load(t)[w] > 0 => Contents(t)[w] # << >>
<1> DEFINE s == Contents(t)[w]
<1>1. s \in Seq(Nat) /\ Load(t)[w] = Len(s)
  BY ContentsType DEF Load, Loads
<1>2. PlaceOf(t, w)[2] = s
  BY DEF PlaceOf
<1> HIDE DEF s
<1>3. DOMAIN s = 1 .. Len(s) /\ Len(s) \in Nat /\ (s = << >> => Len(s) = 0)
  BY <1>1, LenProperties, EmptySeq
<1>4. Len(s) > 0 => s # << >>
  BY <1>3
<1> QED BY <1>1, <1>2, <1>3, <1>4 DEF s

(* No event is lost and none is duplicated: each one enqueued is once in   *)
(* one place, whatever Enqueue, Dequeue, Drain, Broadcast, BroadcastAll,   *)
(* Publish and Close do and however they overlap.                          *)
THEOREM EventsCounted == Spec => []EveryEventOnce
<1>1. QueueInv => EveryEventOnce
  <2> SUFFICES ASSUME QueueInv, NEW t \in Topics
               PROVE  /\ \A e \in 1 .. enqueued[t] :
                           \E p \in Places(t) : \E k \in DOMAIN p[2] : p[2][k] = e
                      /\ \A p, q \in Places(t) : \A i \in DOMAIN p[2], j \in DOMAIN q[2] :
                           p[2][i] = q[2][j] => p = q /\ i = j
    BY DEF EveryEventOnce
  <2>1. TypeOK /\ Once(Where, Load(t), Contents(t), enqueued[t])
    BY DEF QueueInv, Counted
  <2>2. ASSUME NEW e \in 1 .. enqueued[t]
        PROVE  \E p \in Places(t) : \E k \in DOMAIN p[2] : p[2][k] = e
    <3>1. PICK w \in Where : \E i \in 1 .. Load(t)[w] : Contents(t)[w][i] = e
      BY <2>1 DEF Once
    <3>2. Contents(t)[w] # << >> /\ PlaceOf(t, w) \in Places(t)
      BY <2>1, <3>1, PlaceEvents, PlacesWhere
    <3> QED BY <2>1, <3>1, <3>2, PlaceEvents
  <2>3. ASSUME NEW p \in Places(t), NEW q \in Places(t),
               NEW i \in DOMAIN p[2], NEW j \in DOMAIN q[2], p[2][i] = q[2][j]
        PROVE  p = q /\ i = j
    <3>1. PICK v \in Where : p = PlaceOf(t, v)
      BY <2>1, PlacesWhere
    <3>2. PICK w \in Where : q = PlaceOf(t, w)
      BY <2>1, PlacesWhere
    <3>3. /\ i \in 1 .. Load(t)[v] /\ p[2] = Contents(t)[v]
          /\ j \in 1 .. Load(t)[w] /\ q[2] = Contents(t)[w]
      BY <2>1, <3>1, <3>2, PlaceEvents
    <3>4. Contents(t)[v][i] = Contents(t)[w][j]
      BY <2>3, <3>3
    <3>5. v = w /\ i = j
      BY <2>1, <3>3, <3>4 DEF Once
    <3> QED BY <3>1, <3>2, <3>5
  <2> QED BY <2>2, <2>3
<1> QED BY <1>1, QueueInvariant, PTL

(* First in, first out: what is queued is younger than all that has left   *)
(* the queue, and a topic whose events two calls never held at the same    *)
(* time reaches the hub in order.                                          *)
THEOREM FirstOut == Spec => []FirstInFirstOut
<1>1. QueueInv => FirstInFirstOut
  <2> SUFFICES ASSUME QueueInv, NEW t \in Topics
               PROVE  /\ \A p \in Places(t) : p[1] = "queue" \/
                           \A i \in DOMAIN p[2], j \in DOMAIN Vals(t) : p[2][i] < Vals(t)[j]
                      /\ t \notin overlapped =>
                           \A i, j \in DOMAIN log[t] : i < j => log[t][i] < log[t][j]
    BY DEF FirstInFirstOut
  <2>1. TypeOK /\ Ordered(t) /\ Straight(t)
    BY DEF QueueInv
  <2>2. /\ Contents(t)[InQueue] = Vals(t) /\ Contents(t)[InHub] = log[t]
        /\ DOMAIN Vals(t) = 1 .. Load(t)[InQueue]
        /\ DOMAIN log[t] = 1 .. Load(t)[InHub]
    BY <2>1, ContentsAt, PlaceEvents, WhereMembers
  <2>3. ASSUME NEW p \in Places(t), p[1] # "queue",
               NEW i \in DOMAIN p[2], NEW j \in DOMAIN Vals(t)
        PROVE  p[2][i] < Vals(t)[j]
    <3>1. PICK w \in Where : p = PlaceOf(t, w)
      BY <2>1, PlacesWhere
    <3>2. w # InQueue
      BY <2>3, <3>1, NamedOf DEF PlaceOf
    <3>3. i \in 1 .. Load(t)[w] /\ p[2] = Contents(t)[w]
      BY <2>1, <3>1, PlaceEvents
    <3> QED BY <2>1, <2>2, <3>2, <3>3 DEF Ordered, Before
  <2>4. ASSUME t \notin overlapped, NEW i \in DOMAIN log[t], NEW j \in DOMAIN log[t], i < j
        PROVE  log[t][i] < log[t][j]
    BY <2>1, <2>2, <2>4 DEF Straight, Sorted
  <2> QED BY <2>3, <2>4
<1> QED BY <1>1, QueueInvariant, PTL
=============================================================================
