--------------------------- MODULE BuffersProofs ---------------------------
(***************************************************************************)
(* Proofs about Buffers, for logs of any size, any output and any number   *)
(* of events.                                                              *)
(*                                                                         *)
(* The loops of the code (in Outputs, Events and tailByCategory) are       *)
(* recursive functions of the model.  Induction over them takes the form   *)
(* that a set of naturals has a least element: what holds before a loop    *)
(* and is kept by its body holds after it (Climb), and a loop has the      *)
(* values its definition says (Loop).                                      *)
(*                                                                         *)
(* The logs hold the newest entries, in the order of their numbers and of  *)
(* their timestamps (Held), so what is newer than a cursor is an end of    *)
(* the log (NewerIsTheEnd); the client has everything up to its cursor and *)
(* nothing beyond (Caught).  The tails are compared with sums over the log *)
(* (Took): what the loop has taken is an end of the category's entries,    *)
(* small enough, and once it has broken off no longer end would do.        *)
(***************************************************************************)
EXTENDS Buffers, WellFoundedInduction, TLAPS

-----------------------------------------------------------------------------
(* Loops.                                                                  *)

LEMMA Least ==
  ASSUME NEW T, T \subseteq Nat, T # {}
  PROVE  \E n \in T : \A m \in T : n <= m
<1> DEFINE R == OpToRel(<, Nat)
<1>1. IsWellFoundedOn(R, Nat)
  BY NatLessThanWellFounded
<1>2. \A m, n \in Nat : <<m, n>> \in R <=> m < n
  BY DEF OpToRel
<1> HIDE DEF R
<1>3. PICK n \in T : \A m \in T : <<m, n>> \notin R
  BY <1>1, WFMin
<1>4. ASSUME NEW m \in T PROVE n <= m
  <2>1. n \in Nat /\ m \in Nat /\ ~(m < n)
    BY <1>2, <1>3
  <2> QED
    BY <2>1
<1> QED
  BY <1>4

\* What holds at 0 and is handed on up to N holds up to N.
LEMMA Climb ==
  ASSUME NEW N \in Nat, NEW T, 0 \in T, \A n \in 1..N : n - 1 \in T => n \in T
  PROVE  \A n \in 0..N : n \in T
<1> SUFFICES ASSUME \E n \in 0..N : n \notin T PROVE FALSE
  OBVIOUS
<1> DEFINE B == {n \in 0..N : n \notin T}
<1>1. B \subseteq Nat /\ B # {}
  OBVIOUS
<1>2. PICK n \in B : \A m \in B : n <= m
  <2> HIDE DEF B
  <2> QED
    BY <1>1, Least
<1>3. n \in 1..N /\ n - 1 \in 0..N /\ n - 1 \notin B
  BY <1>2
<1> QED
  BY <1>2, <1>3

\* A loop of N rounds over values in V, whose body is the function body.
Rounds(N, first, body, f) ==
  f[0] = first /\ \A i \in 1..N : f[i] = body[<<i, f[i - 1]>>]

LEMMA Loop ==
  ASSUME NEW N \in Nat, NEW V, NEW first \in V, NEW body \in [(1..N) \X V -> V]
  PROVE  \E f \in [0..N -> V] : Rounds(N, first, body, f)
<1> DEFINE T == {n \in 0..N : \E f \in [0..n -> V] : Rounds(n, first, body, f)}
<1>1. 0 \in T
  <2>1. [i \in 0..0 |-> first] \in [0..0 -> V] /\ Rounds(0, first, body, [i \in 0..0 |-> first])
    BY DEF Rounds
  <2> QED
    BY <2>1
<1>2. ASSUME NEW n \in 1..N, n - 1 \in T PROVE n \in T
  <2>1. PICK f \in [0..(n - 1) -> V] : Rounds(n - 1, first, body, f)
    BY <1>2
  <2> DEFINE g == [i \in 0..n |-> IF i < n THEN f[i] ELSE body[<<n, f[n - 1]>>]]
  <2>2. f[n - 1] \in V /\ body[<<n, f[n - 1]>>] \in V
    OBVIOUS
  <2>3. g \in [0..n -> V]
    BY <2>2
  <2>4. g[0] = first
    BY <2>1 DEF Rounds
  <2>5. ASSUME NEW i \in 1..n PROVE g[i] = body[<<i, g[i - 1]>>]
    <3>1. g[i - 1] = f[i - 1] /\ i \in 0..n
      OBVIOUS
    <3>2. CASE i < n
      <4>1. i \in 1..(n - 1) /\ g[i] = f[i]
        BY <3>1, <3>2
      <4> QED
        BY <2>1, <3>1, <4>1 DEF Rounds
    <3>3. CASE i = n
      <4>1. g[n] = body[<<n, f[n - 1]>>]
        OBVIOUS
      <4> QED
        BY <3>1, <3>3, <4>1
    <3> QED
      BY <3>2, <3>3
  <2>6. Rounds(n, first, body, g)
    <3> HIDE DEF g
    <3> QED
      BY <2>4, <2>5 DEF Rounds
  <2> QED
    BY <2>3, <2>6
<1>3. N \in T
  <2> HIDE DEF T
  <2> QED
    BY <1>1, <1>2, Climb
<1> QED
  BY <1>3

\* The values of the loop of Outputs and Events.
LEMMA NewerLoop ==
  ASSUME NEW log \in Seq(Logged), NEW t \in Nat
  PROVE  \E out \in [0..Len(log) -> Seq(Logged)] :
           /\ out[0] = <<>> /\ Newer(log, t) = out[Len(log)]
           /\ \A i \in 1..Len(log) :
                out[i] = IF t # 0 /\ log[i].ts <= t THEN out[i - 1] ELSE Append(out[i - 1], log[i])
<1> DEFINE N    == Len(log)
           Is(f) == f = [i \in 0..N |->
                           IF i = 0 THEN <<>>
                           ELSE IF t # 0 /\ log[i].ts <= t THEN f[i - 1] ELSE Append(f[i - 1], log[i])]
           body == [p \in (1..N) \X Seq(Logged) |->
                      IF t # 0 /\ log[p[1]].ts <= t THEN p[2] ELSE Append(p[2], log[p[1]])]
<1>1. N \in Nat /\ (\A i \in 1..N : log[i] \in Logged) /\ <<>> \in Seq(Logged) /\ N = Len(log)
  OBVIOUS
<1> HIDE DEF N
<1>2. body \in [(1..N) \X Seq(Logged) -> Seq(Logged)]
  BY <1>1
<1>3. PICK f \in [0..N -> Seq(Logged)] : Rounds(N, <<>>, body, f)
  <2> HIDE DEF body
  <2> QED
    BY <1>1, <1>2, Loop
<1>4. \A i \in 1..N : f[i] = IF t # 0 /\ log[i].ts <= t THEN f[i - 1] ELSE Append(f[i - 1], log[i])
  <2> SUFFICES ASSUME NEW i \in 1..N
               PROVE  f[i] = IF t # 0 /\ log[i].ts <= t THEN f[i - 1] ELSE Append(f[i - 1], log[i])
    OBVIOUS
  <2>1. i - 1 \in 0..N
    BY <1>1
  <2>2. f[i - 1] \in Seq(Logged)
    BY <2>1
  <2>3. f[i] = body[<<i, f[i - 1]>>]
    BY <1>3 DEF Rounds
  <2>4. <<i, f[i - 1]>> \in (1..N) \X Seq(Logged)
    BY <2>2
  <2> QED
    BY <2>3, <2>4
<1>5. Is(f)
  <2>1. f[0] = <<>> /\ \A i \in 0..N : i = 0 \/ i \in 1..N
    BY <1>1, <1>3 DEF Rounds
  <2> QED
    BY <1>4, <2>1
<1> DEFINE out == CHOOSE g : Is(g)
<1>6. Is(out)
  <2> HIDE DEF Is
  <2> QED
    BY <1>5
<1>7. Newer(log, t) = out[N]
  BY DEF Newer, N
<1> HIDE DEF out
<1>8. /\ out[0] = <<>>
      /\ \A i \in 1..N :
           out[i] = IF t # 0 /\ log[i].ts <= t THEN out[i - 1] ELSE Append(out[i - 1], log[i])
  <2>1. 0 \in 0..N /\ \A i \in 1..N : i \in 0..N /\ i # 0
    BY <1>1
  <2>2. \A i \in 0..N :
          out[i] = IF i = 0 THEN <<>>
                   ELSE IF t # 0 /\ log[i].ts <= t THEN out[i - 1] ELSE Append(out[i - 1], log[i])
    BY <1>6
  <2> QED
    BY <2>1, <2>2
<1>9. \A i \in 0..N : out[i] \in Seq(Logged)
  <2> DEFINE T == {i \in 0..N : out[i] \in Seq(Logged)}
  <2>1. 0 \in T
    <3>1. 0 \in 0..N
      BY <1>1
    <3> QED
      BY <1>1, <1>8, <3>1
  <2>2. ASSUME NEW i \in 1..N, i - 1 \in T PROVE i \in T
    <3>1. out[i - 1] \in Seq(Logged) /\ log[i] \in Logged /\ i \in 0..N
      BY <1>1, <2>2
    <3>2. Append(out[i - 1], log[i]) \in Seq(Logged)
      BY <3>1
    <3>3. out[i] \in Seq(Logged)
      BY <1>8, <3>1, <3>2
    <3> QED
      BY <3>1, <3>3
  <2>3. \A i \in 0..N : i \in T
    <3> HIDE DEF T
    <3> QED
      BY <1>1, <2>1, <2>2, Climb
  <2> QED
    BY <2>3
<1>10. out \in [0..N -> Seq(Logged)]
  <2>1. out = [i \in 0..N |-> out[i]]
    BY <1>6
  <2> QED
    BY <1>9, <2>1
<1> QED
  BY <1>1, <1>7, <1>8, <1>10

-----------------------------------------------------------------------------
(* The logs.                                                               *)

\* A log of at most max entries holds the newest of the n entries recorded until t,
\* in the order in which they were recorded.
Held(log, max, n, t) ==
  /\ log \in Seq(Logged) /\ Len(log) = IF n > max THEN max ELSE n
  /\ \A i \in DOMAIN log : log[i].no = n - Len(log) + i /\ 1 <= log[i].ts /\ log[i].ts <= t
  /\ \A i, j \in DOMAIN log : i < j => log[i].ts <= log[j].ts

\* What is newer than a timestamp is an end of the log.
LEMMA NewerIsTheEnd ==
  ASSUME NEW log, NEW max \in Nat, NEW n \in Nat, NEW u \in Nat, Held(log, max, n, u), NEW t \in Nat
  PROVE  LET es == Newer(log, t)
         IN  /\ es \in Seq(Logged)
             /\ \E k \in 0..Len(log) :
                  /\ \A i \in 1..k : t # 0 /\ log[i].ts <= t
                  /\ \A i \in (k + 1)..Len(log) : t = 0 \/ log[i].ts > t
                  /\ Len(es) = Len(log) - k
                  /\ \A j \in 1..(Len(log) - k) : es[j] = log[k + j]
<1> DEFINE N == Len(log)
<1>1. /\ log \in Seq(Logged) /\ N \in Nat /\ DOMAIN log = 1..N
      /\ \A i \in 1..N : log[i] \in Logged /\ log[i].ts \in Nat
      /\ \A i, j \in 1..N : i < j => log[i].ts <= log[j].ts
  <2>1. log \in Seq(Logged) /\ \A i, j \in DOMAIN log : i < j => log[i].ts <= log[j].ts
    BY DEF Held
  <2>2. N \in Nat /\ DOMAIN log = 1..N /\ \A i \in 1..N : log[i] \in Logged
    BY <2>1
  <2>3. \A e \in Logged : e.ts \in Nat
    BY DEF Logged
  <2> QED
    BY <2>1, <2>2, <2>3
<1>2. PICK out \in [0..N -> Seq(Logged)] :
           /\ out[0] = <<>> /\ Newer(log, t) = out[N]
           /\ \A i \in 1..N :
                out[i] = IF t # 0 /\ log[i].ts <= t THEN out[i - 1] ELSE Append(out[i - 1], log[i])
  <2>1. log \in Seq(Logged)
    BY <1>1
  <2> QED
    BY <2>1, NewerLoop
<1> DEFINE End(i, k) ==
             /\ \A j \in 1..k : t # 0 /\ log[j].ts <= t
             /\ \A j \in (k + 1)..i : t = 0 \/ log[j].ts > t
             /\ Len(out[i]) = i - k
             /\ \A j \in 1..(i - k) : out[i][j] = log[k + j]
           T == {i \in 0..N : \E k \in 0..i : End(i, k)}
<1> HIDE DEF N
<1>3. 0 \in T
  <2>1. End(0, 0) /\ 0 \in 0..N /\ 0 \in 0..0
    BY <1>1, <1>2
  <2> HIDE DEF End
  <2> QED
    BY <2>1
<1>4. ASSUME NEW i \in 1..N, i - 1 \in T PROVE i \in T
  <2>1. PICK k \in 0..(i - 1) : End(i - 1, k)
    BY <1>4
  <2>2. /\ out[i - 1] \in Seq(Logged) /\ log[i] \in Logged /\ i \in 0..N
        /\ i \in Nat /\ k \in Nat /\ k <= i - 1 /\ t \in Nat /\ log[i].ts \in Nat
    BY <1>1, <1>2
  <2>3. CASE t # 0 /\ log[i].ts <= t
    <3>1. ASSUME NEW j \in 1..i PROVE t # 0 /\ log[j].ts <= t
      <4>1. j \in 1..N /\ log[j].ts \in Nat /\ (j = i \/ log[j].ts <= log[i].ts)
        BY <1>1, <2>2
      <4> QED
        BY <2>2, <2>3, <4>1
    <3>2. k = i - 1
      <4> SUFFICES ASSUME k # i - 1 PROVE FALSE
        OBVIOUS
      <4>1. i - 1 \in (k + 1)..(i - 1) /\ i - 1 \in 1..i /\ i - 1 \in 1..N
        BY <1>1, <2>2
      <4>2. log[i - 1].ts > t
        BY <2>1, <2>3, <4>1
      <4>3. log[i - 1].ts <= t /\ log[i - 1].ts \in Nat
        BY <1>1, <3>1, <4>1
      <4> QED
        BY <4>2, <4>3
    <3>3. out[i] = out[i - 1]
      BY <1>2, <2>3
    <3>4. End(i, i)
      BY <2>1, <2>2, <3>1, <3>2, <3>3
    <3> HIDE DEF End
    <3> QED
      BY <2>2, <3>4
  <2>4. CASE ~(t # 0 /\ log[i].ts <= t)
    <3>1. out[i] = Append(out[i - 1], log[i])
      BY <1>2, <2>4
    <3>2. Len(out[i - 1]) = (i - 1) - k /\ Len(out[i]) = i - k
      BY <2>1, <2>2, <3>1
    <3>3. ASSUME NEW j \in 1..(i - k) PROVE out[i][j] = log[k + j]
      <4>1. CASE j = i - k
        <5>1. j = Len(out[i - 1]) + 1 /\ k + j = i
          BY <2>2, <3>2, <4>1
        <5>2. Append(out[i - 1], log[i])[Len(out[i - 1]) + 1] = log[i]
          BY <2>2
        <5> QED
          BY <3>1, <5>1, <5>2
      <4>2. CASE j # i - k
        <5>1. j \in 1..((i - 1) - k)
          BY <2>2, <4>2
        <5>2. out[i][j] = out[i - 1][j]
          BY <2>2, <3>1, <3>2, <5>1
        <5> QED
          BY <2>1, <5>1, <5>2
      <4> QED
        BY <4>1, <4>2
    <3>4. \A j \in (k + 1)..i : t = 0 \/ log[j].ts > t
      BY <2>1, <2>2, <2>4
    <3>5. End(i, k)
      BY <2>1, <3>2, <3>3, <3>4
    <3> HIDE DEF End
    <3> QED
      BY <2>2, <3>5
  <2> QED
    BY <2>3, <2>4
<1>5. N \in T
  <2> HIDE DEF T
  <2>1. \A i \in 0..N : i \in T
    BY <1>1, <1>3, <1>4, Climb
  <2> QED
    BY <1>1, <2>1
<1>6. Newer(log, t) \in Seq(Logged)
  BY <1>1, <1>2
<1>7. \E k \in 0..N :
        /\ \A i \in 1..k : t # 0 /\ log[i].ts <= t
        /\ \A i \in (k + 1)..N : t = 0 \/ log[i].ts > t
        /\ Len(Newer(log, t)) = N - k
        /\ \A j \in 1..(N - k) : Newer(log, t)[j] = log[k + j]
  <2>1. PICK k \in 0..N : End(N, k)
    BY <1>5
  <2>2. Newer(log, t) = out[N]
    BY <1>2
  <2> QED
    BY <2>1, <2>2
<1> QED
  BY <1>6, <1>7 DEF N

\* Recording keeps a log so.
LEMMA KeepHeld ==
  ASSUME NEW log, NEW max \in Nat \ {0}, NEW n \in Nat, NEW t \in Nat, Held(log, max, n, t),
         NEW e \in Logged, e.no = n + 1, t <= e.ts, 1 <= e.ts,
         NEW kept, kept = Keep(Append(log, e), max)
  PROVE  /\ Held(kept, max, n + 1, e.ts)
         /\ \A i \in DOMAIN kept : kept[i] = e \/ \E j \in DOMAIN log : kept[i] = log[j]
<1> DEFINE N == Len(log)
           all == Append(log, e)
<1>0. kept = Keep(all, max)
  OBVIOUS
<1>1. /\ log \in Seq(Logged) /\ N \in Nat /\ DOMAIN log = 1..N /\ N = IF n > max THEN max ELSE n
      /\ \A i \in 1..N : log[i].no = n - N + i /\ 1 <= log[i].ts /\ log[i].ts <= t
      /\ \A i, j \in 1..N : i < j => log[i].ts <= log[j].ts
      /\ \A i \in 1..N : log[i] \in Logged
  <2>1. log \in Seq(Logged)
    BY DEF Held
  <2>2. N \in Nat /\ DOMAIN log = 1..N /\ \A i \in 1..N : log[i] \in Logged
    BY <2>1
  <2> QED
    BY <2>1, <2>2 DEF Held
<1>2. \A x \in Logged : x.no \in Nat /\ x.ts \in Nat
  BY DEF Logged
<1>3. /\ all \in Seq(Logged) /\ Len(all) = N + 1 /\ all[N + 1] = e
      /\ \A i \in 1..N : all[i] = log[i]
  BY <1>1
<1> DEFINE d == IF N + 1 > max THEN N + 1 - max ELSE 0
<1>4. /\ d \in {0, 1} /\ d <= N /\ kept \in Seq(Logged) /\ Len(kept) = N + 1 - d
      /\ \A i \in 1..(N + 1 - d) : kept[i] = all[i + d]
  <2>1. CASE N + 1 > max
    <3>1. N = max /\ d = 1 /\ d <= N
      BY <1>1, <2>1
    <3>2. kept = SubSeq(all, 2, N + 1)
      BY <1>0, <1>3, <2>1, <3>1 DEF Keep
    <3> HIDE DEF all, d
    <3> QED
      BY <1>1, <1>3, <3>1, <3>2
  <2>2. CASE ~(N + 1 > max)
    <3>1. d = 0 /\ kept = all
      BY <1>0, <1>1, <1>3, <2>2 DEF Keep
    <3> HIDE DEF all, d
    <3> QED
      BY <1>1, <1>3, <3>1
  <2> QED
    BY <2>1, <2>2
<1>5. N + 1 - d = IF n + 1 > max THEN max ELSE n + 1
  BY <1>1
<1> HIDE DEF all, d
<1>6. DOMAIN kept = 1..(N + 1 - d)
  BY <1>4
<1>7. ASSUME NEW i \in 1..(N + 1)
      PROVE  all[i].no = n - N + i /\ 1 <= all[i].ts /\ all[i].ts <= e.ts
  <2>1. CASE i \in 1..N
    <3>1. log[i].ts \in Nat /\ e.ts \in Nat
      BY <1>1, <1>2, <2>1
    <3>2. all[i] = log[i] /\ log[i].no = n - N + i /\ 1 <= log[i].ts /\ log[i].ts <= t
      BY <1>1, <1>3, <2>1
    <3>3. log[i].ts <= e.ts
      BY <3>1, <3>2
    <3> QED
      BY <3>2, <3>3
  <2>2. CASE i = N + 1
    BY <1>1, <1>2, <1>3, <2>2
  <2> QED
    BY <1>1, <2>1, <2>2
<1>8. ASSUME NEW i \in 1..(N + 1), NEW j \in 1..(N + 1), i < j PROVE all[i].ts <= all[j].ts
  <2>1. CASE j \in 1..N
    <3>1. i \in 1..N
      BY <1>1, <1>8, <2>1
    <3> QED
      BY <1>1, <1>3, <1>8, <2>1, <3>1
  <2>2. CASE j = N + 1
    BY <1>3, <1>7, <2>2
  <2> QED
    BY <1>1, <2>1, <2>2
<1>9. \A i \in 1..(N + 1 - d) : i + d \in 1..(N + 1)
  BY <1>1, <1>4
<1>10. \A i \in DOMAIN kept : /\ kept[i].no = (n + 1) - Len(kept) + i
                              /\ 1 <= kept[i].ts /\ kept[i].ts <= e.ts
  <2> SUFFICES ASSUME NEW i \in 1..(N + 1 - d)
               PROVE  /\ kept[i].no = (n + 1) - Len(kept) + i
                      /\ 1 <= kept[i].ts /\ kept[i].ts <= e.ts
    BY <1>6
  <2>1. kept[i] = all[i + d] /\ i + d \in 1..(N + 1)
    BY <1>4, <1>9
  <2>2. all[i + d].no = n - N + (i + d) /\ 1 <= all[i + d].ts /\ all[i + d].ts <= e.ts
    BY <1>7, <2>1
  <2> QED
    BY <1>1, <1>4, <2>1, <2>2
<1>11. \A i, j \in DOMAIN kept : i < j => kept[i].ts <= kept[j].ts
  <2> SUFFICES ASSUME NEW i \in 1..(N + 1 - d), NEW j \in 1..(N + 1 - d), i < j
               PROVE  kept[i].ts <= kept[j].ts
    BY <1>6
  <2>1. /\ kept[i] = all[i + d] /\ i + d \in 1..(N + 1)
        /\ kept[j] = all[j + d] /\ j + d \in 1..(N + 1)
    BY <1>4, <1>9
  <2>2. i + d < j + d
    BY <1>4
  <2> QED
    BY <1>8, <2>1, <2>2
<1>12. \A i \in DOMAIN kept : kept[i] = e \/ \E j \in DOMAIN log : kept[i] = log[j]
  <2> SUFFICES ASSUME NEW i \in 1..(N + 1 - d)
               PROVE  kept[i] = e \/ \E j \in 1..N : kept[i] = log[j]
    BY <1>1, <1>6
  <2>1. kept[i] = all[i + d] /\ i + d \in 1..(N + 1)
    BY <1>4, <1>9
  <2>2. i + d = N + 1 \/ i + d \in 1..N
    BY <1>1, <2>1
  <2> QED
    BY <1>3, <2>1, <2>2
<1>13. Held(kept, max, n + 1, e.ts)
  BY <1>4, <1>5, <1>10, <1>11 DEF Held
<1> QED
  BY <1>12, <1>13

-----------------------------------------------------------------------------
(* The client.                                                             *)

Shown == [no : Nat, ts : Nat, last : BOOLEAN]

\* The client that has got s has this entry, or was at its timestamp when it polled.
Got(s, e) == \E k \in DOMAIN s : s[k].no = e.no \/ (s[k].ts = e.ts /\ s[k].last)

\* With cursor c and having got s, the client has all of the log up to c and nothing
\* beyond, in order, and c is where its last poll ended.
Caught(log, n, c, s) ==
  /\ s \in Seq(Shown)
  /\ \A i, j \in DOMAIN s : i < j => s[i].no < s[j].no
  /\ \A k \in DOMAIN s : s[k].no <= n
  /\ IF c = 0 THEN s = <<>> ELSE \E k \in DOMAIN s : s[k].ts = c /\ s[k].last
  /\ \A i \in DOMAIN log : log[i].ts <= c => Got(s, log[i])
  /\ \A i \in DOMAIN log : ~(log[i].ts <= c) => \A k \in DOMAIN s : s[k].no < log[i].no

\* An entry that is recorded is beyond the cursor, or at the timestamp where the last
\* poll ended.
LEMMA RecordCaught ==
  ASSUME NEW log, NEW max \in Nat \ {0}, NEW n \in Nat, NEW t \in Nat, Held(log, max, n, t),
         NEW e \in Logged, e.no = n + 1, t <= e.ts, 1 <= e.ts,
         NEW c \in 0..t, NEW s, Caught(log, n, c, s)
  PROVE  Caught(Keep(Append(log, e), max), n + 1, c, s)
<1> DEFINE kept == Keep(Append(log, e), max)
<1>1. \A i \in DOMAIN kept : kept[i] = e \/ \E j \in DOMAIN log : kept[i] = log[j]
  BY KeepHeld
<1> HIDE DEF kept
<1>2. e.no \in Nat /\ e.ts \in Nat /\ \A x \in Shown : x.no \in Nat
  BY DEF Logged, Shown
<1>3. s \in Seq(Shown) /\ \A k \in DOMAIN s : s[k] \in Shown /\ s[k].no <= n
  BY DEF Caught
<1>4. \A k \in DOMAIN s : s[k].no \in Nat /\ s[k].no <= n + 1 /\ s[k].no < e.no
  BY <1>2, <1>3
<1>5. e.ts <= c => Got(s, e)
  <2> SUFFICES ASSUME e.ts <= c PROVE Got(s, e)
    OBVIOUS
  <2>1. c = e.ts /\ c # 0
    BY <1>2
  <2> QED
    BY <2>1 DEF Caught, Got
<1>6. \A i \in DOMAIN kept : kept[i].ts <= c => Got(s, kept[i])
  BY <1>1, <1>5 DEF Caught
<1>7. \A i \in DOMAIN kept : ~(kept[i].ts <= c) => \A k \in DOMAIN s : s[k].no < kept[i].no
  BY <1>1, <1>4 DEF Caught
<1>8. Caught(kept, n + 1, c, s)
  BY <1>3, <1>4, <1>6, <1>7 DEF Caught
<1> QED
  BY <1>8 DEF kept

LEMMA Joined ==
  ASSUME NEW S, NEW a \in Seq(S), NEW b \in Seq(S)
  PROVE  a \o b \in Seq(S) /\ Len(a \o b) = Len(a) + Len(b)
OBVIOUS

\* A poll without tail brings the client to the end of the log.
LEMMA PollCaught ==
  ASSUME NEW log, NEW max \in Nat \ {0}, NEW n \in Nat, NEW t \in Nat, Held(log, max, n, t),
         NEW c \in 0..t, NEW s, Caught(log, n, c, s), Newer(log, c) # <<>>
  PROVE  LET es == Newer(log, c)
         IN  /\ es[Len(es)].ts \in 1..t
             /\ Caught(log, n, es[Len(es)].ts, s \o Delivered(es))
<1> DEFINE N  == Len(log)
           es == Newer(log, c)
<1>1. /\ log \in Seq(Logged) /\ N \in Nat /\ DOMAIN log = 1..N
      /\ \A i \in 1..N : log[i] \in Logged /\ log[i].no \in Nat /\ log[i].ts \in Nat
      /\ \A i \in 1..N : log[i].no = n - N + i /\ 1 <= log[i].ts /\ log[i].ts <= t
      /\ \A i, j \in 1..N : i < j => log[i].ts <= log[j].ts
      /\ N <= n
  <2>1. log \in Seq(Logged) /\ N = IF n > max THEN max ELSE n
    BY DEF Held
  <2>2. N \in Nat /\ DOMAIN log = 1..N /\ \A i \in 1..N : log[i] \in Logged
    BY <2>1
  <2>3. \A x \in Logged : x.no \in Nat /\ x.ts \in Nat
    BY DEF Logged
  <2>4. N <= n
    BY <2>1
  <2> QED
    BY <2>1, <2>2, <2>3, <2>4 DEF Held
<1>2. PICK k \in 0..N :
        /\ \A i \in 1..k : c # 0 /\ log[i].ts <= c
        /\ \A i \in (k + 1)..N : c = 0 \/ log[i].ts > c
        /\ es \in Seq(Logged) /\ Len(es) = N - k
        /\ \A j \in 1..(N - k) : es[j] = log[k + j]
  <2>1. c \in Nat /\ max \in Nat
    OBVIOUS
  <2> QED
    BY <2>1, NewerIsTheEnd
<1> DEFINE m == N - k
           d == Delivered(es)
           u == es[Len(es)].ts
           r == s \o d
<1>3. es # <<>>
  OBVIOUS
<1> HIDE DEF N, es
<1>4. m \in Nat /\ m # 0 /\ k \in Nat /\ k + m = N /\ Len(es) = m
  BY <1>1, <1>2, <1>3
<1>5. u = log[N].ts /\ N \in 1..N
  <2>1. m \in 1..m /\ es[m] = log[k + m]
    BY <1>2, <1>4
  <2>2. N \in 1..N
    BY <1>1, <1>4
  <2> QED
    BY <1>4, <2>1, <2>2
<1>6. u \in 1..t /\ \A i \in 1..N : log[i].ts <= u
  BY <1>1, <1>5
<1>7. d = [j \in 1..m |-> [no |-> log[k + j].no, ts |-> log[k + j].ts, last |-> j = m]]
  <2>1. DOMAIN es = 1..m
    BY <1>2, <1>4
  <2> QED
    BY <1>2, <1>4, <2>1 DEF Delivered
<1>8. \A j \in 1..m : k + j \in 1..N
  BY <1>1, <1>4
<1> HIDE DEF m, d, u
<1>9. /\ d \in Seq(Shown) /\ Len(d) = m /\ DOMAIN d = 1..m
      /\ \A j \in 1..m : d[j].no = log[k + j].no /\ d[j].ts = log[k + j].ts /\ (d[j].last <=> j = m)
  <2>1. \A j \in 1..m : [no |-> log[k + j].no, ts |-> log[k + j].ts, last |-> j = m] \in Shown
    BY <1>1, <1>8 DEF Shown
  <2>2. d \in [1..m -> Shown]
    BY <1>7, <2>1
  <2>3. d \in Seq(Shown) /\ Len(d) = m /\ DOMAIN d = 1..m
    BY <1>4, <2>2
  <2> QED
    BY <1>7, <2>3
<1>10. /\ s \in Seq(Shown) /\ \A i \in DOMAIN s : s[i] \in Shown /\ s[i].no <= n /\ s[i].no \in Nat
       /\ \A i, j \in DOMAIN s : i < j => s[i].no < s[j].no
  <2>1. s \in Seq(Shown) /\ \A x \in Shown : x.no \in Nat
    BY DEF Caught, Shown
  <2>2. \A i \in DOMAIN s : s[i] \in Shown
    BY <2>1
  <2> QED
    BY <2>1, <2>2 DEF Caught
<1> DEFINE q == Len(s)
<1>11. /\ r \in Seq(Shown) /\ q \in Nat /\ DOMAIN s = 1..q /\ DOMAIN r = 1..(q + m)
       /\ \A i \in 1..q : r[i] = s[i]
       /\ \A j \in 1..m : r[q + j] = d[j]
  <2>1. q \in Nat /\ DOMAIN s = 1..q
    BY <1>10
  <2>2. r \in Seq(Shown) /\ Len(r) = q + m
    <3>1. s \o d \in Seq(Shown) /\ Len(s \o d) = Len(s) + Len(d)
      BY <1>9, <1>10, Joined
    <3> QED
      BY <1>9, <3>1
  <2>3. DOMAIN r = 1..(q + m)
    BY <2>2
  <2>4. \A i \in 1..(q + m) : r[i] = IF i <= q THEN s[i] ELSE d[i - q]
    BY <1>9, <1>10
  <2>5. \A i \in 1..q : i \in 1..(q + m) /\ i <= q
    BY <1>4, <2>1
  <2>6. \A j \in 1..m : q + j \in 1..(q + m) /\ ~(q + j <= q) /\ (q + j) - q = j
    BY <1>4, <2>1
  <2> HIDE DEF q, r
  <2> QED
    BY <2>1, <2>2, <2>3, <2>4, <2>5, <2>6
<1> HIDE DEF q, r
<1>12. \A i \in DOMAIN r : i \in 1..q \/ \E j \in 1..m : i = q + j
  <2> SUFFICES ASSUME NEW i \in 1..(q + m), i \notin 1..q PROVE \E j \in 1..m : i = q + j
    BY <1>11
  <2>1. i - q \in 1..m /\ i = q + (i - q)
    BY <1>4, <1>11
  <2> QED
    BY <2>1
<1>13. ASSUME NEW i \in 1..q, NEW j \in 1..m PROVE s[i].no < log[k + j].no
  <2>1. k + j \in (k + 1)..N /\ k + j \in 1..N
    BY <1>1, <1>4
  <2>2. c # 0
    BY <1>11 DEF Caught
  <2>3. log[k + j].ts > c /\ log[k + j].ts \in Nat
    BY <1>1, <1>2, <2>1, <2>2
  <2>4. ~(log[k + j].ts <= c)
    BY <2>3
  <2> QED
    BY <1>1, <1>11, <2>1, <2>4 DEF Caught
<1>14. \A i, j \in DOMAIN r : i < j => r[i].no < r[j].no
  <2> SUFFICES ASSUME NEW i \in DOMAIN r, NEW j \in DOMAIN r, i < j PROVE r[i].no < r[j].no
    OBVIOUS
  <2>1. CASE j \in 1..q
    <3>1. i \in 1..q
      BY <1>11, <2>1
    <3> QED
      BY <1>10, <1>11, <2>1, <3>1
  <2>2. CASE i \in 1..q /\ \E h \in 1..m : j = q + h
    BY <1>9, <1>11, <1>13, <2>2
  <2>3. CASE (\E g \in 1..m : i = q + g) /\ (\E h \in 1..m : j = q + h)
    <3>1. PICK g \in 1..m, h \in 1..m : i = q + g /\ j = q + h
      BY <2>3
    <3>2. k + g \in 1..N /\ k + h \in 1..N /\ g < h
      BY <1>8, <1>11, <3>1
    <3>3. log[k + g].no < log[k + h].no
      BY <1>1, <1>4, <3>2
    <3>4. r[i] = d[g] /\ r[j] = d[h]
      BY <1>11, <3>1
    <3>5. d[g].no = log[k + g].no /\ d[h].no = log[k + h].no
      BY <1>9, <3>1
    <3> QED
      BY <3>3, <3>4, <3>5
  <2> QED
    BY <1>12, <2>1, <2>2, <2>3
<1>15. \A i \in DOMAIN r : r[i].no <= n
  <2>1. \A j \in 1..m : log[k + j].no <= n
    BY <1>1, <1>8
  <2>2. \A i \in 1..q : r[i].no <= n
    BY <1>10, <1>11
  <2>3. \A j \in 1..m : r[q + j].no <= n
    <3>1. \A j \in 1..m : r[q + j] = d[j] /\ d[j].no = log[k + j].no
      BY <1>9, <1>11
    <3> QED
      BY <2>1, <3>1
  <2> QED
    BY <1>12, <2>2, <2>3
<1>16. u # 0 /\ \E i \in DOMAIN r : r[i].ts = u /\ r[i].last
  <2>1. m \in 1..m /\ q + m \in DOMAIN r
    BY <1>4, <1>11
  <2>2. r[q + m].ts = u /\ r[q + m].last
    BY <1>4, <1>5, <1>9, <1>11, <2>1
  <2> QED
    BY <1>6, <2>1, <2>2
<1>17. ASSUME NEW i \in 1..N PROVE Got(r, log[i])
  <2>1. CASE i \in 1..k
    <3>1. Got(s, log[i])
      BY <1>1, <1>2, <2>1 DEF Caught
    <3>2. \A j \in DOMAIN s : j \in DOMAIN r /\ r[j] = s[j]
      BY <1>4, <1>11
    <3> QED
      BY <3>1, <3>2 DEF Got
  <2>2. CASE i \notin 1..k
    <3>1. i - k \in 1..m /\ k + (i - k) = i
      BY <1>1, <1>4, <2>2
    <3>2. q + (i - k) \in DOMAIN r /\ r[q + (i - k)].no = log[i].no
      BY <1>4, <1>9, <1>11, <3>1
    <3> QED
      BY <3>2 DEF Got
  <2> QED
    BY <2>1, <2>2
<1>18. Caught(log, n, u, r)
  BY <1>1, <1>6, <1>11, <1>14, <1>15, <1>16, <1>17 DEF Caught
<1> QED
  BY <1>6, <1>18 DEF r, u, d, es

-----------------------------------------------------------------------------
(* The invariant.                                                          *)

LogsInv ==
  /\ Held(outputs, MaxOutputEntries, recorded["output"], now)
  /\ Held(evlog, MaxEventEntries, recorded["events"], now)
  /\ 1 <= now

\* An output event is in the event log before it is in the other.
CountInv ==
  /\ recorded["output"] <= recorded["events"]
  /\ pump # None => recorded["output"] < recorded["events"]

ClientInv ==
  /\ follows = "output" => Caught(outputs, recorded["output"], since, seen)
  /\ follows = "events" => Caught(evlog, recorded["events"], since, seen)

\* What of the type invariant does not follow from the logs.
Typed ==
  /\ \A i \in DOMAIN outputs : outputs[i].cat \in Categories /\ outputs[i].size \in Sizes
  /\ recorded \in [Logs -> 0..MaxRecords]
  /\ now \in Nat /\ pump \in {None} \cup [cat : Sent, size : Sizes]
  /\ follows \in Logs /\ since \in 0..now
  /\ seen \in Seq(Shown)

Inv == Typed /\ LogsInv /\ CountInv

LEMMA Bounds ==
  /\ MaxOutputEntries \in Nat \ {0} /\ MaxEventEntries \in Nat \ {0}
  /\ MaxRecords \in Nat /\ Tails \subseteq Nat /\ Budgets \subseteq Nat
BY BuffersAssumption

LEMMA LogBound ==
  ASSUME NEW log, NEW max \in Nat, NEW n \in Nat, NEW t, Held(log, max, n, t)
  PROVE  log \in Seq(Logged) /\ Len(log) <= max
BY DEF Held

LEMMA Counts == ASSUME Inv, NEW l \in Logs PROVE recorded[l] \in Nat /\ recorded[l] <= MaxRecords
<1>1. recorded \in [Logs -> 0..MaxRecords] /\ MaxRecords \in Nat
  BY Bounds DEF Inv, Typed
<1> QED
  BY <1>1

LEMMA InvTypes == Inv => TypeOK
<1> SUFFICES ASSUME Inv PROVE TypeOK
  OBVIOUS
<1>1. recorded["output"] \in Nat /\ recorded["events"] \in Nat
  BY Counts DEF Logs
<1>2. /\ outputs \in Seq(Logged) /\ Len(outputs) <= MaxOutputEntries
      /\ evlog \in Seq(Logged) /\ Len(evlog) <= MaxEventEntries
  BY <1>1, BuffersAssumption, LogBound DEF Inv, LogsInv
<1> QED
  BY <1>2 DEF Inv, Typed, TypeOK, Shown

\* A new entry has the next number and a timestamp that is not before the others.
LEMMA NewEntry ==
  ASSUME Inv, Tick, NEW l \in Logs, NEW cat \in Categories \cup {"output", "other"}, NEW size \in Nat
  PROVE  LET e == Entry(l, cat, size)
         IN  /\ recorded[l] \in Nat /\ now \in Nat /\ now' \in Nat /\ now <= now' /\ 1 <= now'
             /\ e \in Logged /\ e.no = recorded[l] + 1 /\ e.ts = now'
             /\ now <= e.ts /\ 1 <= e.ts /\ e.cat = cat /\ e.size = size
<1>1. recorded[l] \in Nat /\ now \in Nat /\ 1 <= now
  BY Counts DEF Inv, Typed, LogsInv
<1>2. now' \in Nat /\ now <= now' /\ 1 <= now'
  BY <1>1 DEF Tick
<1> QED
  BY <1>1, <1>2 DEF Entry, Logged

LEMMA HeldLonger ==
  ASSUME NEW log, NEW max \in Nat, NEW n \in Nat, NEW t \in Nat, Held(log, max, n, t),
         NEW u \in Nat, t <= u
  PROVE  Held(log, max, n, u)
<1>1. log \in Seq(Logged) /\ \A x \in Logged : x.ts \in Nat
  BY DEF Held, Logged
<1>2. \A i \in DOMAIN log : log[i].ts \in Nat
  BY <1>1
<1>3. \A i \in DOMAIN log : log[i].ts <= u
  BY <1>2 DEF Held
<1> QED
  BY <1>3 DEF Held

\* The facts about one recording, for either log.
LEMMA Recording ==
  ASSUME Inv, Tick, NEW l \in Logs, NEW cat \in Categories \cup {"output", "other"}, NEW size \in Nat,
         NEW log, NEW max \in Nat \ {0}, Held(log, max, recorded[l], now),
         recorded' = [recorded EXCEPT ![l] = @ + 1]
  PROVE  LET e    == Entry(l, cat, size)
             kept == Keep(Append(log, e), max)
         IN  /\ Held(kept, max, recorded'[l], now')
             /\ \A i \in DOMAIN kept :
                  \/ kept[i].cat = cat /\ kept[i].size = size
                  \/ \E j \in DOMAIN log : kept[i] = log[j]
             /\ \A s : \A c \in 0..now :
                  Caught(log, recorded[l], c, s) => Caught(kept, recorded'[l], c, s)
<1> DEFINE e == Entry(l, cat, size)
<1>1. /\ recorded[l] \in Nat /\ now \in Nat /\ e \in Logged /\ e.no = recorded[l] + 1 /\ e.ts = now'
      /\ now <= e.ts /\ 1 <= e.ts /\ e.cat = cat /\ e.size = size
  BY NewEntry
<1>2. recorded'[l] = recorded[l] + 1
  BY DEF Inv, Typed
<1> HIDE DEF e
<1>3. /\ Held(Keep(Append(log, e), max), max, recorded[l] + 1, e.ts)
      /\ \A i \in DOMAIN Keep(Append(log, e), max) :
           Keep(Append(log, e), max)[i] = e \/ \E j \in DOMAIN log : Keep(Append(log, e), max)[i] = log[j]
  BY <1>1, KeepHeld
<1>4. ASSUME NEW c \in 0..now, NEW s, Caught(log, recorded[l], c, s)
      PROVE  Caught(Keep(Append(log, e), max), recorded[l] + 1, c, s)
  BY <1>1, <1>4, RecordCaught
<1> QED
  BY <1>1, <1>2, <1>3, <1>4 DEF e

LEMMA InvInit == Init => Inv /\ ClientInv
<1> SUFFICES ASSUME Init PROVE Inv /\ ClientInv
  OBVIOUS
<1>1. recorded["output"] = 0 /\ recorded["events"] = 0
  BY DEF Init, Logs
<1>2. \A max \in Nat : Held(<<>>, max, 0, 1)
  BY DEF Held
<1>3. \A log : log = <<>> => Caught(log, 0, 0, <<>>)
  BY DEF Caught
<1>4. LogsInv
  <2>1. MaxOutputEntries \in Nat /\ MaxEventEntries \in Nat
    BY BuffersAssumption
  <2>2. outputs = <<>> /\ evlog = <<>> /\ now = 1
    BY DEF Init
  <2> QED
    BY <1>1, <1>2, <2>1, <2>2 DEF LogsInv
<1>5. CountInv
  BY <1>1 DEF Init, CountInv
<1>6. ClientInv
  BY <1>1, <1>3 DEF Init, ClientInv
<1>7. Typed
  <2>1. recorded \in [Logs -> 0..MaxRecords] /\ since \in 0..now /\ now \in Nat
    <3>1. 0 \in 0..MaxRecords /\ 0 \in 0..1
      BY Bounds
    <3> QED
      BY <3>1 DEF Init
  <2>2. \A i \in DOMAIN outputs : outputs[i].cat \in Categories /\ outputs[i].size \in Sizes
    BY DEF Init
  <2>3. seen \in Seq(Shown) /\ follows \in Logs /\ pump = None
    BY DEF Init
  <2> QED
    BY <2>1, <2>2, <2>3 DEF Typed
<1> QED
  BY <1>4, <1>5, <1>6, <1>7 DEF Inv

\* The end of an end of a sequence is its end.
LEMMA LastEnds ==
  ASSUME NEW es \in Seq(Logged), NEW tail \in Nat, Last(es, tail) # <<>>
  PROVE  LET r == Last(es, tail)
         IN  es # <<>> /\ r \in Seq(Logged) /\ r[Len(r)] = es[Len(es)]
<1> DEFINE n == Len(es)
<1>1. CASE tail > 0 /\ n > tail
  <2>1. Last(es, tail) = SubSeq(es, n - tail + 1, n)
    BY <1>1 DEF Last
  <2>2. n \in Nat /\ n - tail + 1 \in 1..n /\ n \in 1..n
    BY <1>1
  <2> DEFINE r == SubSeq(es, n - tail + 1, n)
  <2>3. r \in Seq(Logged) /\ Len(r) = tail
    BY <2>2
  <2>4. r[tail] = es[n]
    BY <1>1, <2>2
  <2>5. es # <<>>
    BY <2>2
  <2> QED
    BY <2>1, <2>3, <2>4, <2>5
<1>2. CASE ~(tail > 0 /\ n > tail)
  BY <1>2 DEF Last
<1> QED
  BY <1>1, <1>2

\* What a poll shows, whatever its tail.
LEMMA PollShows ==
  ASSUME NEW log, NEW max \in Nat, NEW n \in Nat, NEW t \in Nat, Held(log, max, n, t),
         NEW c \in Nat, NEW tail \in Nat, Last(Newer(log, c), tail) # <<>>
  PROVE  LET es == Last(Newer(log, c), tail)
         IN  es[Len(es)].ts \in 0..t /\ Delivered(es) \in Seq(Shown)
<1> DEFINE all == Newer(log, c)
           es  == Last(all, tail)
<1>1. PICK k \in 0..Len(log) :
        /\ all \in Seq(Logged) /\ Len(all) = Len(log) - k
        /\ \A j \in 1..(Len(log) - k) : all[j] = log[k + j]
  BY NewerIsTheEnd
<1>2. log \in Seq(Logged) /\ Len(log) \in Nat /\ DOMAIN log = 1..Len(log)
  BY DEF Held
<1> HIDE DEF all
<1>3. all # <<>> /\ es \in Seq(Logged) /\ es[Len(es)] = all[Len(all)]
  <2>1. Last(all, tail) # <<>>
    BY DEF all
  <2> QED
    BY <1>1, <2>1, LastEnds
<1> HIDE DEF es
<1>4. all[Len(all)] = log[Len(log)] /\ Len(log) \in DOMAIN log
  <2>1. Len(all) # 0
    BY <1>1, <1>3
  <2>2. Len(all) \in 1..(Len(log) - k) /\ k + Len(all) = Len(log) /\ Len(log) \in 1..Len(log)
    BY <1>1, <1>2, <2>1
  <2> QED
    BY <1>1, <1>2, <2>2
<1>5. log[Len(log)].ts \in 0..t
  <2>1. log[Len(log)] \in Logged
    BY <1>2, <1>4
  <2>2. log[Len(log)].ts \in Nat
    BY <2>1 DEF Logged
  <2> QED
    BY <1>4, <2>2 DEF Held
<1>6. Delivered(es) \in Seq(Shown)
  <2>1. Len(es) \in Nat /\ DOMAIN es = 1..Len(es) /\ \A i \in 1..Len(es) : es[i] \in Logged
    BY <1>3
  <2>2. \A i \in 1..Len(es) : [no |-> es[i].no, ts |-> es[i].ts, last |-> i = Len(es)] \in Shown
    BY <2>1 DEF Logged, Shown
  <2>3. Delivered(es) \in [1..Len(es) -> Shown]
    BY <2>1, <2>2 DEF Delivered
  <2> QED
    BY <2>1, <2>3
<1> QED
  BY <1>3, <1>4, <1>5, <1>6 DEF es, all

LEMMA EventNext == Inv /\ RecordEvent => Inv' /\ (ClientInv => ClientInv')
<1> SUFFICES ASSUME Inv, RecordEvent PROVE Inv' /\ (ClientInv => ClientInv')
  OBVIOUS
<1>1. /\ Tick /\ pump = None /\ recorded["events"] < MaxRecords
      /\ recorded' = [recorded EXCEPT !["events"] = @ + 1]
      /\ UNCHANGED <<outputs, follows, since, seen>>
  BY DEF RecordEvent
<1>2. PICK cat \in {"output", "other"} :
        evlog' = Keep(Append(evlog, Entry("events", cat, 0)), MaxEventEntries)
  BY DEF RecordEvent
<1>3. pump' \in {None} \cup [cat : Sent, size : Sizes]
  BY <1>1 DEF RecordEvent
<1>4. /\ "events" \in Logs /\ "output" \in Logs /\ Logs = {"output", "events"}
      /\ cat \in Categories \cup {"output", "other"} /\ 0 \in Nat
      /\ MaxEventEntries \in Nat \ {0} /\ MaxOutputEntries \in Nat \ {0}
      /\ recorded["output"] \in Nat /\ recorded["events"] \in Nat
  BY BuffersAssumption, Counts DEF Logs
<1>5. now \in Nat /\ now' \in Nat /\ now <= now' /\ 1 <= now'
  BY <1>1, <1>4, NewEntry
<1>6. Typed /\ LogsInv /\ CountInv
  BY DEF Inv
<1>7. /\ Held(evlog', MaxEventEntries, recorded'["events"], now')
      /\ \A s : \A c \in 0..now :
           Caught(evlog, recorded["events"], c, s) => Caught(evlog', recorded'["events"], c, s)
  BY <1>1, <1>2, <1>4, <1>6, Recording DEF LogsInv
<1>8. recorded'["output"] = recorded["output"] /\ recorded'["events"] = recorded["events"] + 1
  BY <1>1, <1>4, <1>6 DEF Typed
<1>9. LogsInv'
  BY <1>1, <1>4, <1>5, <1>6, <1>7, <1>8, HeldLonger DEF LogsInv
<1>10. CountInv'
  BY <1>4, <1>6, <1>8 DEF CountInv
<1>11. Typed'
  <2>1. recorded["events"] + 1 \in 0..MaxRecords
    BY <1>1, <1>4, Bounds
  <2>2. recorded' \in [Logs -> 0..MaxRecords]
    BY <1>1, <1>6, <2>1 DEF Typed
  <2>3. since' \in 0..now'
    BY <1>1, <1>5, <1>6 DEF Typed
  <2> QED
    BY <1>1, <1>3, <1>5, <1>6, <2>2, <2>3 DEF Typed
<1>12. ClientInv => ClientInv'
  <2>1. since \in 0..now
    BY <1>6 DEF Typed
  <2> QED
    BY <1>1, <1>7, <1>8, <2>1 DEF ClientInv
<1> QED
  BY <1>9, <1>10, <1>11, <1>12 DEF Inv

LEMMA OutputNext == Inv /\ RecordOutput => Inv' /\ (ClientInv => ClientInv')
<1> SUFFICES ASSUME Inv, RecordOutput PROVE Inv' /\ (ClientInv => ClientInv')
  OBVIOUS
<1> DEFINE cat  == IF pump.cat = "" THEN "console" ELSE pump.cat
           size == pump.size
<1>1. /\ Tick /\ pump # None /\ pump' = None
      /\ recorded' = [recorded EXCEPT !["output"] = @ + 1]
      /\ outputs' = Keep(Append(outputs, Entry("output", cat, size)), MaxOutputEntries)
      /\ UNCHANGED <<evlog, follows, since, seen>>
  BY DEF RecordOutput
<1>2. Typed /\ LogsInv /\ CountInv
  BY DEF Inv
<1>3. cat \in Categories /\ size \in Sizes /\ size \in Nat
  <2>1. pump \in [cat : Sent, size : Sizes]
    BY <1>1, <1>2 DEF Typed
  <2>2. pump.cat \in {"", "stdout", "stderr", "console"} /\ pump.size \in Sizes /\ pump.size \in Nat
    BY <2>1, BuffersAssumption
  <2> QED
    BY <2>2 DEF Categories
<1> HIDE DEF cat, size
<1>4. /\ "events" \in Logs /\ "output" \in Logs /\ Logs = {"output", "events"}
      /\ cat \in Categories \cup {"output", "other"}
      /\ MaxEventEntries \in Nat \ {0} /\ MaxOutputEntries \in Nat \ {0}
      /\ recorded["output"] \in Nat /\ recorded["events"] \in Nat /\ recorded["events"] <= MaxRecords
  BY <1>3, BuffersAssumption, Counts DEF Logs
<1>5. now \in Nat /\ now' \in Nat /\ now <= now' /\ 1 <= now'
  BY <1>1, <1>3, <1>4, NewEntry
<1>7. /\ Held(outputs', MaxOutputEntries, recorded'["output"], now')
      /\ \A i \in DOMAIN outputs' :
           \/ outputs'[i].cat = cat /\ outputs'[i].size = size
           \/ \E j \in DOMAIN outputs : outputs'[i] = outputs[j]
      /\ \A s : \A c \in 0..now :
           Caught(outputs, recorded["output"], c, s) => Caught(outputs', recorded'["output"], c, s)
  BY <1>1, <1>2, <1>3, <1>4, Recording DEF LogsInv
<1>8. recorded'["events"] = recorded["events"] /\ recorded'["output"] = recorded["output"] + 1
  BY <1>1, <1>2, <1>4 DEF Typed
<1>9. LogsInv'
  BY <1>1, <1>2, <1>4, <1>5, <1>7, <1>8, HeldLonger DEF LogsInv
<1>10. CountInv'
  BY <1>1, <1>2, <1>4, <1>8 DEF CountInv
<1>11. Typed'
  <2>1. recorded["output"] + 1 \in 0..MaxRecords
    BY <1>1, <1>2, <1>4, Bounds DEF CountInv
  <2>2. recorded' \in [Logs -> 0..MaxRecords]
    BY <1>1, <1>2, <2>1 DEF Typed
  <2>3. since' \in 0..now'
    BY <1>1, <1>2, <1>5 DEF Typed
  <2>4. \A i \in DOMAIN outputs' : outputs'[i].cat \in Categories /\ outputs'[i].size \in Sizes
    BY <1>2, <1>3, <1>7 DEF Typed
  <2> QED
    BY <1>1, <1>2, <1>5, <2>2, <2>3, <2>4 DEF Typed
<1>12. ClientInv => ClientInv'
  <2>1. since \in 0..now
    BY <1>2 DEF Typed
  <2> QED
    BY <1>1, <1>7, <1>8, <2>1 DEF ClientInv
<1> QED
  BY <1>9, <1>10, <1>11, <1>12 DEF Inv

LEMMA PollNext ==
  ASSUME Inv, NEW log, NEW max \in Nat \ {0}, NEW n \in Nat, Held(log, max, n, now), Poll(log)
  PROVE  /\ Inv'
         /\ Tails \subseteq {0} /\ Caught(log, n, since, seen) => Caught(log, n, since', seen')
<1>1. PICK tail \in Tails :
        LET es == Last(Newer(log, since), tail)
        IN  /\ es # <<>>
            /\ since' = es[Len(es)].ts
            /\ seen' = seen \o Delivered(es)
            /\ UNCHANGED <<outputs, evlog, recorded, now, pump, follows>>
  BY DEF Poll
<1>2. now \in Nat /\ since \in Nat /\ since \in 0..now /\ seen \in Seq(Shown) /\ tail \in Nat /\ max \in Nat
  BY Bounds DEF Inv, Typed
<1>3. since' \in 0..now' /\ seen' \in Seq(Shown)
  BY <1>1, <1>2, PollShows, Joined
<1>4. Inv'
  <2>1. Typed'
    BY <1>1, <1>3 DEF Inv, Typed
  <2>2. LogsInv' /\ CountInv'
    BY <1>1 DEF Inv, LogsInv, CountInv
  <2> QED
    BY <2>1, <2>2 DEF Inv
<1>5. ASSUME Tails \subseteq {0}, Caught(log, n, since, seen) PROVE Caught(log, n, since', seen')
  <2>1. Last(Newer(log, since), tail) = Newer(log, since)
    BY <1>5 DEF Last
  <2> QED
    BY <1>1, <1>2, <1>5, <2>1, PollCaught
<1> QED
  BY <1>4, <1>5

LEMMA InvNext ==
  Inv /\ [Next]_vars => Inv' /\ (Tails \subseteq {0} /\ ClientInv => ClientInv')
<1> SUFFICES ASSUME Inv, [Next]_vars
             PROVE  Inv' /\ (Tails \subseteq {0} /\ ClientInv => ClientInv')
  OBVIOUS
<1>1. /\ MaxEventEntries \in Nat \ {0} /\ MaxOutputEntries \in Nat \ {0}
      /\ recorded["output"] \in Nat /\ recorded["events"] \in Nat
      /\ Held(outputs, MaxOutputEntries, recorded["output"], now)
      /\ Held(evlog, MaxEventEntries, recorded["events"], now)
  BY BuffersAssumption, Counts DEF Logs, Inv, LogsInv
<1>2. CASE RecordEvent
  BY <1>2, EventNext
<1>3. CASE RecordOutput
  BY <1>3, OutputNext
<1>4. CASE HandleOutput
  <2>1. /\ Inv' /\ follows = "output" /\ UNCHANGED <<outputs, recorded, follows>>
        /\ Tails \subseteq {0} /\ Caught(outputs, recorded["output"], since, seen)
             => Caught(outputs, recorded["output"], since', seen')
    <3>1. Poll(outputs) /\ follows = "output" /\ UNCHANGED <<outputs, recorded, follows>>
      BY <1>4 DEF HandleOutput, Poll
    <3> QED
      BY <1>1, <3>1, PollNext
  <2> QED
    BY <2>1 DEF ClientInv
<1>5. CASE HandleEvents
  <2>1. /\ Inv' /\ follows = "events" /\ UNCHANGED <<evlog, recorded, follows>>
        /\ Tails \subseteq {0} /\ Caught(evlog, recorded["events"], since, seen)
             => Caught(evlog, recorded["events"], since', seen')
    <3>1. Poll(evlog) /\ follows = "events" /\ UNCHANGED <<evlog, recorded, follows>>
      BY <1>5 DEF HandleEvents, Poll
    <3> QED
      BY <1>1, <3>1, PollNext
  <2> QED
    BY <2>1 DEF ClientInv
<1>6. CASE UNCHANGED vars
  BY <1>6 DEF vars, Inv, Typed, LogsInv, CountInv, ClientInv
<1> QED
  BY <1>2, <1>3, <1>4, <1>5, <1>6 DEF Next

\* The inductive invariant holds in every reachable state, whatever tails are asked for.
THEOREM Invariance == Spec => []Inv
<1>1. Init => Inv
  BY InvInit
<1>2. Inv /\ [Next]_vars => Inv'
  BY InvNext
<1> QED
  BY <1>1, <1>2, PTL DEF Spec

\* Every variable has its type; recordOutput and recordEvent keep their logs within
\* maxOutputEntries and maxEventEntries, and the cursor is never ahead of the clock.
THEOREM TypeCorrect == Spec => []TypeOK
BY Invariance, InvTypes, PTL

\* What PollGetsAll says of a log and its client.
GetsAll(log, max, n, c, s) ==
  /\ \A i, j \in DOMAIN s : i < j => s[i].no < s[j].no
  /\ \A m \in 1..n : m + max > n =>
       \E i \in DOMAIN log : log[i].no = m /\ (log[i].ts <= c => Got(s, log[i]))

LEMMA CaughtGetsAll ==
  ASSUME NEW log, NEW max \in Nat \ {0}, NEW n \in Nat, NEW t \in Nat, Held(log, max, n, t),
         NEW c \in Nat, NEW s, Caught(log, n, c, s)
  PROVE  GetsAll(log, max, n, c, s)
<1> SUFFICES ASSUME NEW m \in 1..n, m + max > n
             PROVE  \E i \in DOMAIN log : log[i].no = m /\ (log[i].ts <= c => Got(s, log[i]))
  BY DEF Caught, GetsAll
<1> DEFINE N == Len(log)
           i == m - (n - N)
<1>1. log \in Seq(Logged) /\ N = (IF n > max THEN max ELSE n)
  BY DEF Held
<1>2. N \in Nat /\ DOMAIN log = 1..N
  BY <1>1
<1>3. i \in 1..N /\ n - N + i = m
  BY <1>1, <1>2
<1>4. log[i].no = m
  BY <1>2, <1>3 DEF Held
<1> QED
  BY <1>2, <1>3, <1>4 DEF Caught

\* A client that asks for no tail and passes on the timestamp of its last entry gets
\* from handleOutput or handleEvents every entry that the log still holds, in order and
\* none twice, for logs of every size and however the clock ticks: except what was
\* recorded, after the poll, with the timestamp the poll ended on, since Outputs and
\* Events skip what is not after `since`.  With a tail the client skips entries of its
\* own will, hence the hypothesis.
THEOREM PollsGetAll == Tails \subseteq {0} => (Spec => []PollGetsAll)
<1> SUFFICES ASSUME Tails \subseteq {0} PROVE Spec => []PollGetsAll
  OBVIOUS
<1>1. Inv /\ ClientInv => PollGetsAll
  <2> SUFFICES ASSUME Inv, ClientInv PROVE PollGetsAll
    OBVIOUS
  <2>1. /\ recorded["output"] \in Nat /\ recorded["events"] \in Nat /\ now \in Nat /\ since \in Nat
        /\ follows \in {"output", "events"}
    BY Counts DEF Inv, Typed, Logs
  <2>2. LogsInv
    BY DEF Inv
  <2>3. CASE follows = "output"
    <3>1. GetsAll(outputs, MaxOutputEntries, recorded["output"], since, seen)
      <4>1. /\ Held(outputs, MaxOutputEntries, recorded["output"], now)
            /\ Caught(outputs, recorded["output"], since, seen)
        BY <2>2, <2>3 DEF LogsInv, ClientInv
      <4>2. MaxOutputEntries \in Nat \ {0}
        BY Bounds
      <4> QED
        BY <2>1, <4>1, <4>2, CaughtGetsAll
    <3> QED
      BY <2>3, <3>1 DEF PollGetsAll, GetsAll, Got
  <2>4. CASE follows = "events"
    <3>1. GetsAll(evlog, MaxEventEntries, recorded["events"], since, seen)
      <4>1. /\ Held(evlog, MaxEventEntries, recorded["events"], now)
            /\ Caught(evlog, recorded["events"], since, seen)
        BY <2>2, <2>4 DEF LogsInv, ClientInv
      <4>2. MaxEventEntries \in Nat \ {0}
        BY Bounds
      <4> QED
        BY <2>1, <4>1, <4>2, CaughtGetsAll
    <3>2. follows # "output"
      BY <2>4
    <3> QED
      BY <2>4, <3>1, <3>2 DEF PollGetsAll, GetsAll, Got
  <2> QED
    BY <2>1, <2>3, <2>4
<1>2. Init => Inv /\ ClientInv
  BY InvInit
<1>3. Inv /\ ClientInv /\ [Next]_vars => Inv' /\ ClientInv'
  BY InvNext
<1> QED
  BY <1>1, <1>2, <1>3, PTL DEF Spec

-----------------------------------------------------------------------------
(* The tails.                                                              *)

\* The sums of the sizes.
LEMMA UptoLoop ==
  ASSUME NEW log \in Seq(Logged), NEW want
  PROVE  /\ \A i \in 0..Len(log) : Upto(log, want)[i] \in Nat
         /\ \A i \in 1..Len(log) :
              Upto(log, want)[i]
                = Upto(log, want)[i - 1] + (IF Category(log[i]) = want THEN log[i].size ELSE 0)
<1> DEFINE N     == Len(log)
           Is(f) == f = [i \in 0..N |->
                           IF i = 0 THEN 0
                           ELSE f[i - 1] + (IF Category(log[i]) = want THEN log[i].size ELSE 0)]
           body  == [p \in (1..N) \X Nat |->
                       p[2] + (IF Category(log[p[1]]) = want THEN log[p[1]].size ELSE 0)]
           up    == Upto(log, want)
<1>1. N \in Nat /\ (\A i \in 1..N : log[i].size \in Nat) /\ N = Len(log)
  <2>1. \A i \in 1..Len(log) : log[i] \in Logged
    OBVIOUS
  <2> QED
    BY <2>1 DEF Logged
<1>2. up = CHOOSE g : Is(g)
  BY DEF Upto
<1> HIDE DEF N, up
<1>3. body \in [(1..N) \X Nat -> Nat]
  BY <1>1
<1>4. PICK f \in [0..N -> Nat] : Rounds(N, 0, body, f)
  <2> HIDE DEF body
  <2> QED
    BY <1>1, <1>3, Loop
<1>5. ASSUME NEW i \in 1..N
      PROVE  f[i] = f[i - 1] + (IF Category(log[i]) = want THEN log[i].size ELSE 0)
  <2>1. i - 1 \in 0..N
    BY <1>1
  <2>2. f[i] = body[<<i, f[i - 1]>>]
    BY <1>4 DEF Rounds
  <2>3. <<i, f[i - 1]>> \in (1..N) \X Nat
    BY <2>1
  <2> QED
    BY <2>2, <2>3
<1>6. Is(f)
  <2>1. f[0] = 0 /\ \A i \in 0..N : i = 0 \/ i \in 1..N
    BY <1>1, <1>4 DEF Rounds
  <2> QED
    BY <1>5, <2>1
<1>7. Is(up)
  <2> HIDE DEF Is
  <2> QED
    BY <1>2, <1>6
<1>8. \A i \in 0..N : up[i] = IF i = 0 THEN 0
                              ELSE up[i - 1] + (IF Category(log[i]) = want THEN log[i].size ELSE 0)
  BY <1>7
<1>9. \A i \in 1..N : up[i] = up[i - 1] + (IF Category(log[i]) = want THEN log[i].size ELSE 0)
  <2>1. \A i \in 1..N : i \in 0..N /\ i # 0
    BY <1>1
  <2> QED
    BY <1>8, <2>1
<1>10. \A i \in 0..N : up[i] \in Nat
  <2> DEFINE T == {i \in 0..N : up[i] \in Nat}
  <2>1. 0 \in T
    <3>1. 0 \in 0..N
      BY <1>1
    <3> QED
      BY <1>8, <3>1
  <2>2. ASSUME NEW i \in 1..N, i - 1 \in T PROVE i \in T
    <3>1. up[i - 1] \in Nat /\ i \in 0..N /\ log[i].size \in Nat
      BY <1>1, <2>2
    <3> QED
      BY <1>9, <3>1
  <2>3. \A i \in 0..N : i \in T
    <3> HIDE DEF T
    <3> QED
      BY <1>1, <2>1, <2>2, Climb
  <2> QED
    BY <2>3
<1> QED
  BY <1>1, <1>9, <1>10 DEF up

\* They do not decrease.
LEMMA UptoGrows ==
  ASSUME NEW log \in Seq(Logged), NEW want, NEW i \in 0..Len(log), NEW j \in 0..Len(log), i <= j
  PROVE  Upto(log, want)[i] <= Upto(log, want)[j]
<1> DEFINE N == Len(log)
           up == Upto(log, want)
           T == {h \in 0..N : i <= h => up[i] <= up[h]}
<1>1. /\ N \in Nat /\ (\A h \in 1..N : log[h].size \in Nat) /\ N = Len(log)
      /\ \A h \in 0..N : up[h] \in Nat
      /\ \A h \in 1..N : up[h]
           = up[h - 1] + (IF Category(log[h]) = want THEN log[h].size ELSE 0)
  <2>1. \A h \in 1..Len(log) : log[h] \in Logged
    OBVIOUS
  <2>2. \A h \in 1..Len(log) : log[h].size \in Nat
    BY <2>1 DEF Logged
  <2>3. N \in Nat
    OBVIOUS
  <2> QED
    BY <2>2, <2>3, UptoLoop
<1> HIDE DEF N, up
<1>2. 0 \in T
  BY <1>1
<1>3. ASSUME NEW h \in 1..N, h - 1 \in T PROVE h \in T
  <2>1. h \in 0..N /\ h - 1 \in 0..N /\ i \in 0..N
    BY <1>1
  <2>2. up[h - 1] <= up[h]
    <3>1. up[h - 1] \in Nat /\ log[h].size \in Nat
      BY <1>1, <2>1
    <3>2. up[h] = up[h - 1] + log[h].size \/ up[h] = up[h - 1] + 0
      BY <1>1
    <3> QED
      BY <3>1, <3>2
  <2>3. CASE i <= h - 1
    <3>1. up[i] <= up[h - 1]
      BY <1>3, <2>3
    <3>2. up[i] \in Nat /\ up[h - 1] \in Nat /\ up[h] \in Nat
      BY <1>1, <2>1
    <3>3. up[i] <= up[h]
      BY <2>2, <3>1, <3>2
    <3> QED
      BY <2>1, <3>3
  <2>4. CASE ~(i <= h - 1)
    <3>1. i <= h => i = h
      BY <2>1, <2>4
    <3> QED
      BY <1>1, <2>1, <3>1
  <2> QED
    BY <2>3, <2>4
<1>4. \A h \in 0..N : h \in T
  <2> HIDE DEF T
  <2> QED
    BY <1>1, <1>2, <1>3, Climb
<1> QED
  BY <1>1, <1>4 DEF up

\* A round of the loop of tailByCategory.
Tally == [nos : SUBSET Nat, bytes : Nat, done : BOOLEAN]

Round(b, e, want, max) ==
  IF b.done \/ Category(e) # want THEN b
  ELSE IF b.bytes + e.size > max /\ b.bytes > 0 THEN [b EXCEPT !.done = TRUE]
  ELSE [nos |-> b.nos \cup {e.no}, bytes |-> b.bytes + e.size, done |-> b.bytes + e.size >= max]

LEMMA RoundType ==
  ASSUME NEW b \in Tally, NEW e \in Logged, NEW want, NEW max \in Nat
  PROVE  Round(b, e, want, max) \in Tally
<1>1. b.nos \in SUBSET Nat /\ b.bytes \in Nat /\ e.no \in Nat /\ e.size \in Nat
  BY DEF Tally, Logged
<1>2. [b EXCEPT !.done = TRUE] \in Tally
  BY DEF Tally
<1>3. [nos |-> b.nos \cup {e.no}, bytes |-> b.bytes + e.size, done |-> b.bytes + e.size >= max] \in Tally
  <2>1. b.nos \cup {e.no} \in SUBSET Nat /\ b.bytes + e.size \in Nat
    BY <1>1
  <2>2. (b.bytes + e.size >= max) \in BOOLEAN
    OBVIOUS
  <2> QED
    BY <2>1, <2>2 DEF Tally
<1> QED
  BY <1>2, <1>3 DEF Round

Nothing == [nos |-> {}, bytes |-> 0, done |-> FALSE]

LEMMA TakenLoop ==
  ASSUME NEW log \in Seq(Logged), NEW want, NEW max \in Nat
  PROVE  \E back :
           /\ Taken(log, want, max) = back[Len(log)].nos /\ back[0] = Nothing
           /\ \A i \in 0..Len(log) : back[i] \in Tally
           /\ \A i \in 1..Len(log) : back[i] = Round(back[i - 1], log[Len(log) - i + 1], want, max)
<1> DEFINE N     == Len(log)
           Is(f) == f = [i \in 0..N |->
                           IF i = 0 THEN Nothing ELSE Round(f[i - 1], log[N - i + 1], want, max)]
           body  == [p \in (1..N) \X Tally |-> Round(p[2], log[N - p[1] + 1], want, max)]
           back  == CHOOSE g : Is(g)
<1>1. N \in Nat /\ (\A i \in 1..N : log[i] \in Logged) /\ N = Len(log)
  OBVIOUS
<1>2. Taken(log, want, max) = back[N].nos
  BY DEF Taken, Nothing, Round
<1> HIDE DEF N
<1>3. Nothing \in Tally /\ \A i \in 1..N : N - i + 1 \in 1..N /\ log[N - i + 1] \in Logged
  <2>1. Nothing \in Tally
    BY DEF Nothing, Tally
  <2> QED
    BY <1>1, <2>1
<1>4. body \in [(1..N) \X Tally -> Tally]
  BY <1>3, RoundType
<1>5. PICK f \in [0..N -> Tally] : Rounds(N, Nothing, body, f)
  <2> HIDE DEF body
  <2> QED
    BY <1>1, <1>3, <1>4, Loop
<1>6. ASSUME NEW i \in 1..N PROVE f[i] = Round(f[i - 1], log[N - i + 1], want, max)
  <2>1. i - 1 \in 0..N
    BY <1>1
  <2>2. f[i] = body[<<i, f[i - 1]>>]
    BY <1>5 DEF Rounds
  <2>3. <<i, f[i - 1]>> \in (1..N) \X Tally
    BY <2>1
  <2> QED
    BY <2>2, <2>3
<1>7. Is(f)
  <2>1. f[0] = Nothing /\ \A i \in 0..N : i = 0 \/ i \in 1..N
    BY <1>1, <1>5 DEF Rounds
  <2> QED
    BY <1>6, <2>1
<1>8. Is(back)
  <2> HIDE DEF Is
  <2> QED
    BY <1>7
<1> HIDE DEF back
<1>9. /\ back[0] = Nothing
      /\ \A i \in 1..N : back[i] = Round(back[i - 1], log[N - i + 1], want, max)
  <2>1. \A i \in 0..N :
          back[i] = IF i = 0 THEN Nothing ELSE Round(back[i - 1], log[N - i + 1], want, max)
    BY <1>8
  <2>2. 0 \in 0..N /\ \A i \in 1..N : i \in 0..N /\ i # 0
    BY <1>1
  <2> QED
    BY <2>1, <2>2
<1>10. \A i \in 0..N : back[i] \in Tally
  <2> DEFINE T == {i \in 0..N : back[i] \in Tally}
  <2>1. 0 \in T
    <3>1. 0 \in 0..N
      BY <1>1
    <3> QED
      BY <1>3, <1>9, <3>1
  <2>2. ASSUME NEW i \in 1..N, i - 1 \in T PROVE i \in T
    <3>1. back[i - 1] \in Tally /\ i \in 0..N
      BY <1>1, <2>2
    <3> QED
      BY <1>3, <1>9, <3>1, RoundType
  <2>3. \A i \in 0..N : i \in T
    <3> HIDE DEF T
    <3> QED
      BY <1>1, <2>1, <2>2, Climb
  <2> QED
    BY <2>3
<1> QED
  BY <1>1, <1>2, <1>9, <1>10

\* The entries of a category from k on, their numbers and their bytes.
From(log, want, k) == {i \in k..Len(log) : Category(log[i]) = want}
Nos(log, want, k) == {log[i].no : i \in From(log, want, k)}
Bytes(log, want, k) == Upto(log, want)[Len(log)] - Upto(log, want)[k - 1]

\* They fit the budget, or one of them is all there is.
Small(log, want, max, k) ==
  \/ Bytes(log, want, k) <= max
  \/ \E i \in From(log, want, k) : Bytes(log, want, k) = log[i].size

\* No earlier entry could be added.
Full(log, want, max, k) ==
  \A j \in From(log, want, 1) : j < k =>
    \/ Bytes(log, want, j) > max /\ Bytes(log, want, k) > 0
    \/ Bytes(log, want, k) >= max

LEMMA FitsFrom ==
  ASSUME NEW log \in Seq(Logged), NEW want, NEW max \in Nat, NEW k \in 1..(Len(log) + 1),
         ~Oversized(log, want, max), Small(log, want, max, k), Full(log, want, max, k)
  PROVE  Fits(log, want, max, Nos(log, want, k))
<1>1. ASSUME NEW i \in From(log, want, k)
      PROVE  i \in DOMAIN log /\ Category(log[i]) = want /\ log[i].size \in Nat
  <2>1. i \in 1..Len(log) /\ Category(log[i]) = want
    BY DEF From
  <2>2. log[i] \in Logged
    BY <2>1
  <2> QED
    BY <2>1, <2>2 DEF Logged
<1>2. Bytes(log, want, k) <= max
  <2>1. CASE \E i \in From(log, want, k) : Bytes(log, want, k) = log[i].size
    <3>1. PICK i \in From(log, want, k) : Bytes(log, want, k) = log[i].size
      BY <2>1
    <3>2. ~(log[i].size > max)
      BY <1>1, <3>1 DEF Oversized
    <3> QED
      BY <1>1, <3>1, <3>2
  <2> QED
    BY <2>1 DEF Small
<1> QED
  BY <1>2 DEF Fits, Full, Nos, From, Bytes

\* One more entry.
LEMMA OneMore ==
  ASSUME NEW log \in Seq(Logged), NEW want, NEW k \in 1..Len(log)
  PROVE  /\ Bytes(log, want, k) \in Nat /\ Bytes(log, want, k + 1) \in Nat
         /\ log[k].size \in Nat
         /\ IF Category(log[k]) = want
            THEN /\ k \in From(log, want, k) /\ Bytes(log, want, k) = Bytes(log, want, k + 1) + log[k].size
                 /\ Nos(log, want, k) = Nos(log, want, k + 1) \cup {log[k].no}
            ELSE /\ From(log, want, k) = From(log, want, k + 1)
                 /\ Bytes(log, want, k) = Bytes(log, want, k + 1)
<1> DEFINE N  == Len(log)
           up == Upto(log, want)
<1>1. N \in Nat /\ k \in 0..N /\ k - 1 \in 0..N /\ N \in 0..N /\ k \in 1..N /\ (k + 1) - 1 = k /\ k - 1 <= k
  OBVIOUS
<1>2. log[k].size \in Nat
  <2>1. log[k] \in Logged
    OBVIOUS
  <2> QED
    BY <2>1 DEF Logged
<1>3. up[N] \in Nat /\ up[k] \in Nat /\ up[k - 1] \in Nat
  BY <1>1, UptoLoop
<1>4. up[k] = up[k - 1] + (IF Category(log[k]) = want THEN log[k].size ELSE 0)
  BY <1>1, UptoLoop
<1>5. up[k] <= up[N] /\ up[k - 1] <= up[N]
  BY <1>1, UptoGrows
<1>6. Bytes(log, want, k) = up[N] - up[k - 1] /\ Bytes(log, want, k + 1) = up[N] - up[k]
  BY <1>1 DEF Bytes
<1> HIDE DEF up
<1>7. /\ Bytes(log, want, k) \in Nat /\ Bytes(log, want, k + 1) \in Nat
      /\ Bytes(log, want, k)
           = Bytes(log, want, k + 1) + (IF Category(log[k]) = want THEN log[k].size ELSE 0)
  <2>1. CASE Category(log[k]) = want
    <3>1. up[k] = up[k - 1] + log[k].size
      BY <1>4, <2>1
    <3> HIDE DEF N
    <3>2. up[N] - up[k - 1] = (up[N] - up[k]) + log[k].size
      BY <1>2, <1>3, <3>1
    <3>3. up[N] - up[k - 1] \in Nat /\ up[N] - up[k] \in Nat
      BY <1>3, <1>5
    <3> QED
      BY <1>6, <2>1, <3>2, <3>3
  <2>2. CASE Category(log[k]) # want
    BY <1>3, <1>4, <1>5, <1>6, <2>2
  <2> QED
    BY <2>1, <2>2
<1>8. \A i : i \in k..N <=> i = k \/ i \in (k + 1)..N
  BY <1>1
<1>9. CASE Category(log[k]) = want
  <2>1. From(log, want, k) = From(log, want, k + 1) \cup {k}
    BY <1>8, <1>9 DEF From
  <2>2. Nos(log, want, k) = Nos(log, want, k + 1) \cup {log[k].no}
    BY <2>1 DEF Nos
  <2> QED
    BY <1>2, <1>7, <1>9, <2>1, <2>2
<1>10. CASE Category(log[k]) # want
  <2>1. From(log, want, k) = From(log, want, k + 1)
    BY <1>8, <1>10 DEF From
  <2> QED
    BY <1>2, <1>7, <1>10, <2>1
<1> QED
  BY <1>9, <1>10

\* From further back they are not fewer.
LEMMA BytesGrow ==
  ASSUME NEW log \in Seq(Logged), NEW want, NEW j \in 1..Len(log), NEW k \in 1..Len(log), j <= k
  PROVE  Bytes(log, want, k) <= Bytes(log, want, j)
<1>1. Len(log) \in 0..Len(log) /\ j - 1 \in 0..Len(log) /\ k - 1 \in 0..Len(log) /\ j - 1 <= k - 1
  OBVIOUS
<1>2. /\ Upto(log, want)[j - 1] <= Upto(log, want)[k - 1]
      /\ Upto(log, want)[j - 1] \in Nat /\ Upto(log, want)[k - 1] \in Nat
      /\ Upto(log, want)[Len(log)] \in Nat
  BY <1>1, UptoLoop, UptoGrows
<1> QED
  BY <1>2 DEF Bytes

\* The loop has taken the entries from k on: all that it has come past unless it has
\* broken off, and as many as fit then.
Took(log, want, max, b, p, k) ==
  /\ b.nos = Nos(log, want, k) /\ b.bytes = Bytes(log, want, k)
  /\ Small(log, want, max, k)
  /\ b.done => Full(log, want, max, k)
  /\ ~b.done => k = p

LEMMA TookNext ==
  ASSUME NEW log \in Seq(Logged), NEW want, NEW max \in Nat, NEW b \in Tally,
         NEW p \in 1..Len(log), NEW k \in (p + 1)..(Len(log) + 1),
         Took(log, want, max, b, p + 1, k)
  PROVE  \E h \in p..(Len(log) + 1) :
           Took(log, want, max, Round(b, log[p], want, max), p, h)
<1> DEFINE e == log[p]
<1>1. Len(log) \in Nat /\ p \in p..(Len(log) + 1) /\ k \in p..(Len(log) + 1)
  OBVIOUS
<1>2. CASE b.done
  <2>1. Round(b, e, want, max) = b
    BY <1>2 DEF Round
  <2>2. Took(log, want, max, b, p, k)
    BY <1>2 DEF Took
  <2> QED
    BY <1>1, <2>1, <2>2
<1>3. CASE ~b.done
  <2>1. /\ k = p + 1 /\ b.nos = Nos(log, want, p + 1) /\ b.bytes = Bytes(log, want, p + 1)
        /\ Small(log, want, max, p + 1)
    BY <1>3 DEF Took
  <2>2. CASE Category(e) # want
    <3>1. Round(b, e, want, max) = b
      BY <2>2 DEF Round
    <3>2. From(log, want, p) = From(log, want, p + 1) /\ Bytes(log, want, p) = Bytes(log, want, p + 1)
      BY <2>2, OneMore
    <3>3. Took(log, want, max, b, p, p)
      BY <1>3, <2>1, <3>2 DEF Took, Nos, Small
    <3> QED
      BY <1>1, <3>1, <3>3
  <2>3. CASE Category(e) = want /\ b.bytes + e.size > max /\ b.bytes > 0
    <3> DEFINE c == [b EXCEPT !.done = TRUE]
    <3>1. Round(b, e, want, max) = c
      BY <1>3, <2>3 DEF Round
    <3>2. c.nos = b.nos /\ c.bytes = b.bytes /\ c.done
      BY DEF Tally
    <3>3. Bytes(log, want, p) > max /\ Bytes(log, want, p) \in Nat
      BY <2>1, <2>3, OneMore
    <3>4. Full(log, want, max, p + 1)
      <4> SUFFICES ASSUME NEW j \in From(log, want, 1), j < p + 1 PROVE Bytes(log, want, j) > max
        BY <2>1, <2>3 DEF Full
      <4>1. j \in 1..Len(log) /\ j <= p
        BY DEF From
      <4>2. Bytes(log, want, p) <= Bytes(log, want, j) /\ Bytes(log, want, j) \in Nat
        BY <4>1, BytesGrow, OneMore
      <4> QED
        BY <3>3, <4>2
    <3> HIDE DEF c
    <3>5. Took(log, want, max, c, p, k)
      BY <2>1, <3>2, <3>4 DEF Took
    <3> QED
      BY <1>1, <3>1, <3>5
  <2>4. CASE Category(e) = want /\ ~(b.bytes + e.size > max /\ b.bytes > 0)
    <3> DEFINE c == [nos |-> b.nos \cup {e.no}, bytes |-> b.bytes + e.size,
                     done |-> b.bytes + e.size >= max]
    <3>1. Round(b, e, want, max) = c
      BY <1>3, <2>4 DEF Round
    <3>2. /\ p \in From(log, want, p) /\ Nos(log, want, p) = Nos(log, want, p + 1) \cup {e.no}
          /\ Bytes(log, want, p) = Bytes(log, want, p + 1) + e.size
          /\ Bytes(log, want, p) \in Nat /\ Bytes(log, want, p + 1) \in Nat /\ e.size \in Nat
      BY <2>4, OneMore
    <3>3. /\ c.nos = Nos(log, want, p) /\ c.bytes = Bytes(log, want, p)
          /\ c.done <=> Bytes(log, want, p) >= max
      BY <2>1, <3>2
    <3>4. Small(log, want, max, p)
      <4>1. CASE b.bytes + e.size <= max
        BY <2>1, <3>2, <4>1 DEF Small
      <4>2. CASE ~(b.bytes + e.size <= max)
        <5>1. b.bytes = 0
          BY <2>1, <2>4, <3>2, <4>2
        <5>2. Bytes(log, want, p) = log[p].size
          BY <2>1, <3>2, <5>1
        <5> QED
          BY <3>2, <5>2 DEF Small
      <4> QED
        BY <4>1, <4>2
    <3> HIDE DEF c
    <3>5. c.done => Full(log, want, max, p)
      BY <3>3 DEF Full
    <3>6. Took(log, want, max, c, p, p)
      BY <3>3, <3>4, <3>5 DEF Took
    <3> QED
      BY <1>1, <3>1, <3>6
  <2> QED
    BY <2>2, <2>3, <2>4
<1> QED
  BY <1>2, <1>3

LEMMA TakenFits ==
  ASSUME NEW log \in Seq(Logged), NEW want, NEW max \in Nat, ~Oversized(log, want, max)
  PROVE  Fits(log, want, max, Taken(log, want, max))
<1> DEFINE N == Len(log)
<1>1. N \in Nat
  OBVIOUS
<1>2. PICK back :
        /\ Taken(log, want, max) = back[N].nos /\ back[0] = Nothing
        /\ \A i \in 0..N : back[i] \in Tally
        /\ \A i \in 1..N : back[i] = Round(back[i - 1], log[N - i + 1], want, max)
  BY TakenLoop
<1> DEFINE T == {i \in 0..N : \E k \in (N - i + 1)..(N + 1) :
                                Took(log, want, max, back[i], N - i + 1, k)}
<1>3. 0 \in T
  <2>1. From(log, want, N + 1) = {}
    BY <1>1 DEF From
  <2>2. Nos(log, want, N + 1) = {}
    BY <2>1 DEF Nos
  <2>3. Bytes(log, want, N + 1) = 0
    <3>1. Upto(log, want)[N] \in Nat /\ (N + 1) - 1 = N
      BY <1>1, UptoLoop
    <3> QED
      BY <3>1 DEF Bytes
  <2>4. Small(log, want, max, N + 1)
    BY <2>3 DEF Small
  <2>5. Took(log, want, max, back[0], N + 1, N + 1)
    BY <1>2, <2>2, <2>3, <2>4 DEF Took, Nothing
  <2>6. 0 \in 0..N /\ N - 0 + 1 = N + 1 /\ N + 1 \in (N + 1)..(N + 1)
    BY <1>1
  <2> QED
    BY <2>5, <2>6
<1>4. ASSUME NEW i \in 1..N, i - 1 \in T PROVE i \in T
  <2> DEFINE p == N - i + 1
  <2>1. p \in 1..N /\ N - (i - 1) + 1 = p + 1 /\ i - 1 \in 0..N /\ i \in 0..N
    BY <1>1
  <2> HIDE DEF p
  <2>2. PICK k \in (p + 1)..(N + 1) : Took(log, want, max, back[i - 1], p + 1, k)
    BY <1>4, <2>1
  <2>3. back[i - 1] \in Tally
    BY <1>2, <2>1
  <2>4. \E h \in p..(N + 1) : Took(log, want, max, Round(back[i - 1], log[p], want, max), p, h)
    BY <2>1, <2>2, <2>3, TookNext
  <2>5. back[i] = Round(back[i - 1], log[p], want, max)
    BY <1>2 DEF p
  <2> QED
    BY <2>1, <2>4, <2>5 DEF p
<1>5. N \in T
  <2> HIDE DEF T, N
  <2>1. \A i \in 0..N : i \in T
    BY <1>1, <1>3, <1>4, Climb
  <2> QED
    BY <1>1, <2>1
<1>6. PICK k \in 1..(N + 1) : Took(log, want, max, back[N], 1, k)
  <2>1. N - N + 1 = 1
    BY <1>1
  <2> QED
    BY <1>5, <2>1
<1>7. Full(log, want, max, k)
  <2>1. CASE back[N].done
    BY <1>6, <2>1 DEF Took
  <2>2. CASE ~back[N].done
    <3>1. k = 1
      BY <1>6, <2>2 DEF Took
    <3>2. \A j \in From(log, want, 1) : ~(j < 1)
      BY DEF From
    <3> QED
      BY <3>1, <3>2 DEF Full
  <2> QED
    BY <2>1, <2>2
<1> QED
  BY <1>2, <1>6, <1>7, FitsFrom DEF Took

\* What RecentStderrTail and RecentStdoutTail quote of a failed start is, for every
\* log and every budget that no entry alone exceeds, the longest run of the newest
\* entries of that category that fits: neither check of the loop of tailByCategory
\* drops an entry that fits or lets one through that does not.
THEOREM TailsFit == Spec => []TailFits
<1>1. Inv => TailFits
  <2> SUFFICES ASSUME Inv, NEW want \in {"stdout", "stderr"}, NEW max \in Budgets,
                      ~Oversized(outputs, want, max)
               PROVE  Fits(outputs, want, max, Taken(outputs, want, max))
    BY DEF TailFits
  <2>1. outputs \in Seq(Logged)
    BY InvTypes DEF TypeOK
  <2>2. max \in Nat
    BY Bounds
  <2> QED
    BY <2>1, <2>2, TakenFits
<1> QED
  BY <1>1, Invariance, PTL

=============================================================================
