--------------------------- MODULE TimerHeapProofs ---------------------------
(* Proofs about TimerHeap, for any timers and times and any capacity.       *)
EXTENDS TimerHeap, FiniteSetTheorems, WellFoundedInduction, TLAPS

(* What stands on the places I of an array, and that it stands there once.  *)
Image(a, I) == {a[i] : i \in I}
Once(a, I) == \A i, j \in I : a[i] = a[j] => i = j

(* On I, b has what a has, but t in the place of what a has at the hole.    *)
Filled(a, b, I, hole, t) ==
    Once(b, I) /\ Image(b, I) = (Image(a, I) \ {a[hole]}) \cup {t}

(* On I and the place start, c has what a has on I, and t. *)
Closed(a, c, I, start, t) ==
    Once(c, I \cup {start}) /\ Image(c, I \cup {start}) = Image(a, I) \cup {t}

(* No parent among the places P runs out after its child.                   *)
Ordered(a, objects, P, n) ==
    \A i \in 1 .. n - 1 :
        Parent(i) \in P => objects[a[Parent(i)]].expire <= objects[a[i]].expire

-----------------------------------------------------------------------------
(* Places.                                                                  *)

LEMMA Least ==
    ASSUME NEW S \in SUBSET Nat, S # {}
    PROVE  \E p \in S : \A q \in S : p <= q
<1>1. PICK p \in S : \A q \in S : <<q, p>> \notin OpToRel(<, Nat)
  BY NatLessThanWellFounded, WFMin, Zenon
<1>2. ASSUME NEW q \in S PROVE p <= q
  <2>1. p \in Nat /\ q \in Nat
    OBVIOUS
  <2>2. q < p => <<q, p>> \in OpToRel(<, Nat)
    BY <2>1 DEF OpToRel
  <2>3. ~(q < p)
    BY <1>1, <2>2, Zenon
  <2> QED
    BY <2>1, <2>3
<1> QED
  BY <1>2

LEMMA Greatest ==
    ASSUME NEW n \in Nat, NEW S \in SUBSET (0 .. n), S # {}
    PROVE  \E p \in S : \A q \in S : q <= p
<1> DEFINE T == {k \in 0 .. n : n - k \in S}
<1>1. T \in SUBSET Nat /\ T # {}
  <2>1. PICK q \in S : q \in 0 .. n
    OBVIOUS
  <2>2. n - q \in 0 .. n /\ n - (n - q) = q
    BY <2>1
  <2>3. n - q \in T
    BY <2>1, <2>2
  <2> QED
    BY <2>3
<1>2. PICK k \in T : \A l \in T : k <= l
  <2> HIDE DEF T
  <2> QED
    BY <1>1, Least
<1>3. ASSUME NEW q \in S PROVE q <= n - k
  <2>1. q \in 0 .. n /\ n - q \in 0 .. n /\ n - (n - q) = q
    OBVIOUS
  <2>2. n - q \in T
    BY <2>1
  <2>3. k <= n - q /\ k \in 0 .. n
    BY <1>2, <2>2
  <2> QED
    BY <2>1, <2>3
<1> QED
  BY <1>2, <1>3

LEMMA ParentIs ==
    /\ \A i \in Nat : i > 0 => Parent(i) \in Nat /\ Parent(i) < i
    /\ \A i \in Nat, p \in Nat : i > 0 => (Parent(i) = p <=> i = 2 * p + 1 \/ i = 2 * p + 2)
  BY DEF Parent

-----------------------------------------------------------------------------
(* A hole that moves, and what stands in the array when it is filled.       *)

LEMMA HoleFilled ==
    ASSUME NEW a, NEW I \in SUBSET DOMAIN a, NEW hole \in I, NEW t, NEW b,
           Once(a, I), t \notin Image(a, I) \/ t = a[hole],
           b = [a EXCEPT ![hole] = t]
    PROVE  Filled(a, b, I, hole, t)
<1>1. b[hole] = t /\ \A i \in I : i # hole => b[i] = a[i]
  OBVIOUS
<1>2. \A i \in I : i # hole => a[i] # a[hole] /\ a[i] # t
  BY DEF Once, Image
<1>3. Once(b, I)
  BY <1>1, <1>2 DEF Once
<1>4. Image(b, I) = (Image(a, I) \ {a[hole]}) \cup {t}
  BY <1>1, <1>2 DEF Image
<1> QED
  BY <1>3, <1>4 DEF Filled

LEMMA HoleMoved ==
    ASSUME NEW a, NEW b, NEW I \in SUBSET DOMAIN b, NEW hole \in I, NEW next \in I, NEW t,
           NEW c, hole # next, Once(a, I), t \notin Image(a, I),
           Filled(a, b, I, next, t), b[hole] = a[hole],
           c = [b EXCEPT ![hole] = a[next]]
    PROVE  Filled(a, c, I, hole, t)
<1>1. c[hole] = a[next] /\ \A i \in I : i # hole => c[i] = b[i]
  OBVIOUS
<1>2. a[next] # a[hole] /\ a[hole] # t /\ a[next] # t
  BY DEF Once, Image
<1>3. \A i \in I : i # hole => b[i] # a[hole] /\ b[i] # a[next]
  <2>1. a[next] \notin Image(b, I)
    BY <1>2 DEF Filled
  <2> QED
    BY <2>1 DEF Filled, Once, Image
<1>4. Once(c, I)
  BY <1>1, <1>3 DEF Filled, Once
<1>5. Image(c, I) = (Image(b, I) \ {a[hole]}) \cup {a[next]}
  BY <1>1, <1>3 DEF Image
<1>6. Image(c, I) = (Image(a, I) \ {a[hole]}) \cup {t}
  <2>1. a[next] \in Image(a, I)
    BY DEF Image
  <2> QED
    BY <1>2, <1>5, <2>1 DEF Filled
<1> QED
  BY <1>4, <1>6 DEF Filled

(* The hole ends where it began, at a place beside the others.              *)
LEMMA HoleClosed ==
    ASSUME NEW a, NEW b, NEW I, NEW start, NEW next \in I, NEW t, NEW c,
           I \cup {start} \subseteq DOMAIN b, start \notin I,
           Once(a, I), t \notin Image(a, I), Filled(a, b, I, next, t),
           c = [b EXCEPT ![start] = a[next]]
    PROVE  Closed(a, c, I, start, t)
<1>1. c[start] = a[next] /\ \A i \in I : c[i] = b[i]
  OBVIOUS
<1>2. a[next] # t /\ a[next] \in Image(a, I)
  BY DEF Image
<1>3. a[next] \notin Image(b, I)
  BY <1>2 DEF Filled
<1>4. \A i \in I : b[i] # a[next]
  BY <1>3 DEF Image
<1>5. Once(c, I \cup {start})
  BY <1>1, <1>4 DEF Filled, Once
<1>6. Image(c, I \cup {start}) = Image(b, I) \cup {a[next]}
  BY <1>1 DEF Image
<1> QED
  BY <1>2, <1>5, <1>6 DEF Filled, Closed

-----------------------------------------------------------------------------
(* add_timer: the hole rises from the place behind the last element.        *)

(* What PercolateUp has at one place, from what it has at the parent's.     *)
UpFrom(a, objects, t, up, hole) ==
    IF hole = 0 \/ objects[a[Parent(hole)]].expire <= objects[t].expire
    THEN [a EXCEPT ![hole] = t]
    ELSE [up[Parent(hole)] EXCEPT ![hole] = a[Parent(hole)]]

IsUp(a, objects, t, n, up) == up = [hole \in 0 .. n |-> UpFrom(a, objects, t, up, hole)]

(* The recursion ends: there is such a function, place by place.            *)
LEMMA UpExists ==
    ASSUME NEW a, NEW objects, NEW t, NEW n \in Nat
    PROVE  \E up : IsUp(a, objects, t, n, up)
<1> DEFINE Up(m, up) == up = [hole \in 0 .. m |-> UpFrom(a, objects, t, up, hole)]
           Missing == {m \in 0 .. n : ~ \E up : Up(m, up)}
<1> SUFFICES ASSUME Missing # {} PROVE FALSE
  <2>1. n \in 0 .. n
    OBVIOUS
  <2> QED
    BY <2>1 DEF IsUp
<1>1. PICK m \in Missing : \A k \in Missing : m <= k
  <2>1. Missing \in SUBSET Nat
    OBVIOUS
  <2> HIDE DEF Missing
  <2> QED
    BY <2>1, Least
<1>2. m \in 0 .. n /\ ~ \E up : Up(m, up)
  OBVIOUS
<1>3. CASE m = 0
  <2> DEFINE up == [hole \in 0 .. 0 |-> [a EXCEPT ![hole] = t]]
  <2>1. \A hole \in 0 .. 0 : hole = 0
    OBVIOUS
  <2>2. \A hole \in 0 .. 0 : UpFrom(a, objects, t, up, hole) = [a EXCEPT ![hole] = t]
    BY <2>1 DEF UpFrom
  <2>3. Up(0, up)
    <3> HIDE DEF up
    <3>1. up = [hole \in 0 .. 0 |-> [a EXCEPT ![hole] = t]]
      BY DEF up
    <3> QED
      BY <2>2, <3>1, Zenon
  <2> QED
    BY <1>2, <1>3, <2>3
<1>4. CASE m # 0
  <2>1. m - 1 \in 0 .. n /\ ~(m <= m - 1)
    BY <1>2, <1>4
  <2>2. PICK g : Up(m - 1, g)
    BY <1>1, <2>1
  <2> DEFINE up == [hole \in 0 .. m |->
                      IF hole = m THEN UpFrom(a, objects, t, g, m) ELSE g[hole]]
  <2>3. ASSUME NEW hole \in 0 .. m
        PROVE  UpFrom(a, objects, t, up, hole) = UpFrom(a, objects, t, g, hole)
    <3>1. hole # 0 => Parent(hole) \in 0 .. m /\ Parent(hole) # m
      BY <1>2, ParentIs
    <3>2. hole # 0 => up[Parent(hole)] = g[Parent(hole)]
      BY <3>1
    <3> HIDE DEF up
    <3> QED
      BY <3>2 DEF UpFrom
  <2>4. ASSUME NEW hole \in 0 .. m
        PROVE  up[hole] = UpFrom(a, objects, t, g, hole)
    <3>1. hole # m => hole \in 0 .. m - 1
      BY <1>2
    <3> QED
      BY <2>2, <3>1
  <2>5. Up(m, up)
    <3>1. up = [hole \in 0 .. m |-> up[hole]]
      OBVIOUS
    <3> HIDE DEF up
    <3>2. \A hole \in 0 .. m : up[hole] = UpFrom(a, objects, t, up, hole)
      BY <2>3, <2>4
    <3> QED
      BY <3>1, <3>2
  <2> QED
    BY <1>2, <2>5
<1> QED
  BY <1>3, <1>4

LEMMA UpIs ==
    ASSUME NEW a, NEW objects, NEW t, NEW n \in Nat, DOMAIN a = 0 .. n,
           NEW hole \in 0 .. n
    PROVE  PercolateUp(a, objects, t)[hole]
             = UpFrom(a, objects, t, PercolateUp(a, objects, t), hole)
<1> DEFINE up == PercolateUp(a, objects, t)
<1>1. \E f : f = [h \in DOMAIN a |-> UpFrom(a, objects, t, f, h)]
  <2>1. \E f : IsUp(a, objects, t, n, f)
    BY UpExists
  <2> QED
    BY <2>1, Zenon DEF IsUp
<1>2. up = [h \in DOMAIN a |-> UpFrom(a, objects, t, up, h)]
  BY <1>1, Zenon DEF PercolateUp, UpFrom
<1> HIDE DEF up
<1>3. up[hole] = UpFrom(a, objects, t, up, hole)
  BY <1>2
<1> QED
  BY <1>3 DEF up

(* The hole on its way: t runs out before what was there.                   *)
Risen(a, b, objects, n, hole, t) ==
    /\ DOMAIN b = 0 .. n
    /\ \A i \in hole + 1 .. n : b[i] = a[i]
    /\ Filled(a, b, 0 .. n - 1, hole, t)
    /\ objects[t].expire < objects[a[hole]].expire =>
          /\ Ordered(b, objects, 0 .. n, n)
          /\ objects[b[hole]].expire <= objects[a[hole]].expire

LEMMA UpRises ==
    ASSUME NEW n \in Nat, NEW a, NEW objects, NEW t, DOMAIN a = 0 .. n,
           \A i \in 0 .. n - 1 : objects[a[i]].expire \in Int,
           objects[t].expire \in Int,
           Once(a, 0 .. n - 1), t \notin Image(a, 0 .. n - 1),
           Ordered(a, objects, 0 .. n, n),
           NEW start \in 0 .. n - 1
    PROVE  Risen(a, PercolateUp(a, objects, t)[start], objects, n, start, t)
<1> DEFINE up == PercolateUp(a, objects, t)
           Wrong == {h \in 0 .. n - 1 : ~Risen(a, up[h], objects, n, h, t)}
           e(x) == objects[x].expire
<1>0. \A h \in 0 .. n : up[h] = UpFrom(a, objects, t, up, h)
  BY UpIs
<1> HIDE DEF up
<1> SUFFICES ASSUME Wrong # {} PROVE FALSE
  BY DEF up
<1>1. PICK h \in Wrong : \A k \in Wrong : h <= k
  <2>1. Wrong \in SUBSET Nat
    OBVIOUS
  <2> HIDE DEF Wrong
  <2> QED
    BY <2>1, Least
<1>2. h \in 0 .. n - 1 /\ h \in 0 .. n /\ ~Risen(a, up[h], objects, n, h, t)
  OBVIOUS
<1>3. CASE h = 0 \/ e(a[Parent(h)]) <= e(t)
  <2>1. up[h] = [a EXCEPT ![h] = t]
    BY <1>0, <1>2, <1>3 DEF UpFrom
  <2>2. Filled(a, up[h], 0 .. n - 1, h, t)
    <3>1. 0 .. n - 1 \subseteq DOMAIN a
      OBVIOUS
    <3> QED
      BY <1>2, <2>1, <3>1, HoleFilled
  <2>3. DOMAIN up[h] = 0 .. n /\ \A i \in h + 1 .. n : up[h][i] = a[i]
    BY <1>2, <2>1
  <2>4. /\ up[h][h] = t /\ \A i \in 0 .. n - 1 : i # h => up[h][i] = a[i]
    BY <1>2, <2>1
  <2>5. ASSUME e(t) < e(a[h]), NEW i \in 1 .. n - 1
        PROVE  e(up[h][Parent(i)]) <= e(up[h][i])
    <3>1. i \in 0 .. n - 1 /\ Parent(i) \in 0 .. n - 1 /\ Parent(i) \in 0 .. n /\ Parent(i) # i
      BY ParentIs
    <3>2. e(a[Parent(i)]) <= e(a[i])
      BY <3>1 DEF Ordered
    <3>3. CASE i = h
      BY <1>3, <2>4, <3>1, <3>3
    <3>4. CASE Parent(i) = h
      BY <1>2, <2>4, <2>5, <3>1, <3>2, <3>4
    <3>5. CASE i # h /\ Parent(i) # h
      BY <2>4, <3>1, <3>2, <3>5
    <3> QED
      BY <3>3, <3>4, <3>5
  <2>6. e(t) < e(a[h]) => Ordered(up[h], objects, 0 .. n, n) /\ e(up[h][h]) <= e(a[h])
    BY <1>2, <2>4, <2>5 DEF Ordered
  <2> QED
    BY <1>2, <2>2, <2>3, <2>6 DEF Risen
<1>4. CASE ~(h = 0 \/ e(a[Parent(h)]) <= e(t))
  <2> DEFINE p == Parent(h)
  <2>1. p \in 0 .. n - 1 /\ p < h /\ p \in 0 .. n /\ h \in 1 .. n - 1
    BY <1>2, <1>4, ParentIs
  <2>2. Risen(a, up[p], objects, n, p, t)
    BY <1>1, <2>1
  <2>3. e(t) < e(a[p])
    BY <1>4, <2>1
  <2>4. up[h] = [up[p] EXCEPT ![h] = a[p]]
    BY <1>0, <1>2, <1>4 DEF UpFrom
  <2>5. e(a[p]) <= e(a[h])
    BY <2>1 DEF Ordered
  <2> HIDE DEF p
  <2>6. DOMAIN up[p] = 0 .. n /\ up[p][h] = a[h] /\ Filled(a, up[p], 0 .. n - 1, p, t)
    BY <2>1, <2>2 DEF Risen
  <2>7. Filled(a, up[h], 0 .. n - 1, h, t)
    <3>1. 0 .. n - 1 \subseteq DOMAIN up[p] /\ h # p
      BY <2>1, <2>6
    <3> QED
      BY <1>2, <2>1, <2>4, <2>6, <3>1, HoleMoved
  <2>8. DOMAIN up[h] = 0 .. n /\ up[h][h] = a[p] /\ \A i \in 0 .. n : i # h => up[h][i] = up[p][i]
    BY <1>2, <2>4, <2>6
  <2>9. \A i \in h + 1 .. n : up[h][i] = a[i]
    BY <2>1, <2>2, <2>8 DEF Risen
  <2>10. ASSUME NEW i \in 1 .. n - 1
         PROVE  e(up[h][Parent(i)]) <= e(up[h][i])
    <3>1. i \in 0 .. n /\ Parent(i) \in 0 .. n /\ Parent(i) < i
      BY ParentIs
    <3>2. e(up[p][Parent(i)]) <= e(up[p][i]) /\ e(up[p][p]) <= e(a[p])
      BY <2>2, <2>3, <3>1 DEF Risen, Ordered
    <3>3. CASE i = h
      BY <2>8, <3>1, <3>2, <3>3 DEF p
    <3>4. CASE Parent(i) = h
      <4>1. e(a[h]) <= e(a[i]) /\ up[h][i] = a[i]
        BY <2>9, <3>1, <3>4 DEF Ordered
      <4>2. e(a[h]) \in Int /\ e(a[i]) \in Int /\ e(a[p]) \in Int
        BY <1>2, <2>1
      <4>3. up[h][Parent(i)] = a[p]
        BY <2>8, <3>4
      <4> HIDE DEF e
      <4> QED
        BY <2>5, <4>1, <4>2, <4>3
    <3>5. CASE i # h /\ Parent(i) # h
      BY <2>8, <3>1, <3>2, <3>5
    <3> QED
      BY <3>3, <3>4, <3>5
  <2>11. Ordered(up[h], objects, 0 .. n, n) /\ e(up[h][h]) <= e(a[h])
    BY <2>5, <2>8, <2>10 DEF Ordered
  <2> QED
    BY <1>2, <2>7, <2>8, <2>9, <2>11 DEF Risen
<1> QED
  BY <1>3, <1>4

(* What add_timer leaves in the array.                                      *)
LEMMA PercolatedUp ==
    ASSUME NEW n \in Nat, NEW a, NEW objects, NEW t, DOMAIN a = 0 .. n, a[n] = t,
           \A i \in 0 .. n - 1 : objects[a[i]].expire \in Int,
           objects[t].expire \in Int,
           Once(a, 0 .. n - 1), t \notin Image(a, 0 .. n - 1),
           Ordered(a, objects, 0 .. n, n),
           NEW b, b = PercolateUp(a, objects, t)[n]
    PROVE  /\ b = [i \in 0 .. n |-> b[i]] /\ Once(b, 0 .. n)
           /\ Image(b, 0 .. n) = Image(a, 0 .. n - 1) \cup {t}
           /\ Ordered(b, objects, 0 .. n, n + 1)
<1> DEFINE up == PercolateUp(a, objects, t)
           e(x) == objects[x].expire
           p == Parent(n)
<1>1. n \in 0 .. n /\ b = UpFrom(a, objects, t, up, n)
  BY UpIs
<1>2. 0 .. n = (0 .. n - 1) \cup {n} /\ n \notin 0 .. n - 1
  OBVIOUS
<1>3. \A i \in 1 .. n + 1 - 1 : i \in 0 .. n /\ Parent(i) \in 0 .. n - 1 /\ Parent(i) < i
  BY ParentIs
<1>4. \A i \in 1 .. n - 1 : e(a[Parent(i)]) <= e(a[i])
  <2>1. \A i \in 1 .. n - 1 : Parent(i) \in 0 .. n
    BY ParentIs
  <2> QED
    BY <2>1 DEF Ordered
<1>5. CASE n = 0 \/ e(a[p]) <= e(t)
  <2>1. b = [i \in 0 .. n |-> b[i]] /\ \A i \in 0 .. n : b[i] = a[i]
    <3>1. b = [a EXCEPT ![n] = t]
      BY <1>1, <1>5 DEF UpFrom
    <3> QED
      BY <1>1, <3>1
  <2>2. Once(b, 0 .. n) /\ Image(b, 0 .. n) = Image(a, 0 .. n - 1) \cup {t}
    BY <1>2, <2>1 DEF Once, Image
  <2>3. ASSUME NEW i \in 1 .. n + 1 - 1 PROVE e(b[Parent(i)]) <= e(b[i])
    <3>1. CASE i = n
      BY <1>1, <1>3, <1>5, <2>1, <3>1
    <3>2. CASE i # n
      <4>1. i \in 1 .. n - 1 /\ i \in 0 .. n /\ Parent(i) \in 0 .. n
        BY <1>3, <3>2
      <4> QED
        BY <1>4, <2>1, <4>1
    <3> QED
      BY <3>1, <3>2
  <2>4. Ordered(b, objects, 0 .. n, n + 1)
    BY <2>3 DEF Ordered
  <2> QED
    BY <2>1, <2>2, <2>4
<1>6. CASE ~(n = 0 \/ e(a[p]) <= e(t))
  <2>1. p \in 0 .. n - 1
    BY <1>6, ParentIs
  <2>2. Risen(a, up[p], objects, n, p, t)
    BY <2>1, UpRises
  <2>3. b = [up[p] EXCEPT ![n] = a[p]] /\ e(t) < e(a[p])
    BY <1>1, <1>6, <2>1 DEF UpFrom
  <2> HIDE DEF p, up
  <2>4. DOMAIN up[p] = 0 .. n /\ Filled(a, up[p], 0 .. n - 1, p, t)
    BY <2>2 DEF Risen
  <2>5. Once(b, (0 .. n - 1) \cup {n}) /\ Image(b, (0 .. n - 1) \cup {n}) = Image(a, 0 .. n - 1) \cup {t}
    <3>1. (0 .. n - 1) \cup {n} \subseteq DOMAIN up[p]
      BY <1>2, <2>4
    <3> QED
      <4> DEFINE I == 0 .. n - 1
      <4>1. /\ p \in I /\ I \cup {n} \subseteq DOMAIN up[p] /\ n \notin I
            /\ Once(a, I) /\ t \notin Image(a, I) /\ Filled(a, up[p], I, p, t)
        BY <1>2, <2>1, <2>4, <3>1
      <4> HIDE DEF I
      <4>2. Closed(a, b, I, n, t)
        BY <2>3, <4>1, HoleClosed
      <4> QED
        BY <4>2 DEF I, Closed
  <2>6. /\ b = [i \in 0 .. n |-> b[i]] /\ b[n] = a[p] /\ \A i \in 0 .. n : i # n => b[i] = up[p][i]
    BY <1>1, <2>3, <2>4
  <2>7. ASSUME NEW i \in 1 .. n + 1 - 1 PROVE e(b[Parent(i)]) <= e(b[i])
    <3>1. CASE i = n
      <4>1. b[Parent(i)] = up[p][p] /\ b[i] = a[p]
        BY <1>3, <2>6, <3>1 DEF p
      <4> QED
        BY <2>2, <2>3, <4>1 DEF Risen
    <3>2. CASE i # n
      <4>1. i \in 1 .. n - 1 /\ Parent(i) # n
        BY <1>3, <3>2
      <4>2. b[i] = up[p][i] /\ b[Parent(i)] = up[p][Parent(i)]
        BY <1>2, <1>3, <2>6, <3>2, <4>1
      <4>3. e(up[p][Parent(i)]) <= e(up[p][i])
        BY <1>2, <1>3, <2>2, <2>3, <4>1 DEF Risen, Ordered
      <4> QED
        BY <4>2, <4>3
    <3> QED
      BY <3>1, <3>2
  <2>8. Ordered(b, objects, 0 .. n, n + 1)
    BY <2>7 DEF Ordered
  <2>9. Once(b, 0 .. n) /\ Image(b, 0 .. n) = Image(a, 0 .. n - 1) \cup {t}
    BY <1>2, <2>5
  <2> QED
    BY <2>6, <2>8, <2>9
<1> QED
  BY <1>5, <1>6
-----------------------------------------------------------------------------
(* pop_timer: the hole sinks from the top.                                  *)

LEMMA Counted ==
    ASSUME NEW a, NEW n \in Nat, DOMAIN a = 0 .. n - 1
    PROVE  Cardinality(DOMAIN a) = n
  BY FS_Interval, 0 \in Int, n - 1 \in Int

(* FirstChild is a child, and no other child runs out before it.            *)
LEMMA FirstChildIs ==
    ASSUME NEW n \in Nat, NEW a, DOMAIN a = 0 .. n - 1,
           \A i \in 0 .. n - 1 : timer[a[i]].expire \in Int,
           NEW hole \in 0 .. n - 1, 2 * hole + 1 < n
    PROVE  /\ FirstChild(a, hole) \in 1 .. n - 1 /\ FirstChild(a, hole) > hole
           /\ Parent(FirstChild(a, hole)) = hole
           /\ \A i \in 1 .. n - 1 : Parent(i) = hole =>
                 timer[a[FirstChild(a, hole)]].expire <= timer[a[i]].expire
<1> DEFINE left == 2 * hole + 1
           e(i) == timer[a[i]].expire
<1>1. FirstChild(a, hole) = IF left < n - 1 /\ e(left + 1) < e(left) THEN left + 1 ELSE left
  BY Counted DEF FirstChild
<1>2. left \in 1 .. n - 1 /\ left > hole
  OBVIOUS
<1>3. Parent(left) = hole /\ Parent(left + 1) = hole
  BY ParentIs
<1>4. \A i \in 1 .. n - 1 : Parent(i) = hole => i = left \/ i = left + 1
  BY ParentIs
<1>5. e(left) \in Int /\ (left < n - 1 => e(left + 1) \in Int)
  BY <1>2
<1> HIDE DEF left, e
<1>6. CASE left < n - 1 /\ e(left + 1) < e(left)
  <2>1. FirstChild(a, hole) = left + 1
    BY <1>1, <1>6
  <2>2. \A i \in 1 .. n - 1 : Parent(i) = hole => e(left + 1) <= e(i)
    BY <1>4, <1>5, <1>6
  <2> QED
    BY <1>2, <1>3, <1>6, <2>1, <2>2 DEF e
<1>7. CASE ~(left < n - 1 /\ e(left + 1) < e(left))
  <2>1. FirstChild(a, hole) = left
    BY <1>1, <1>7
  <2>2. \A i \in 1 .. n - 1 : Parent(i) = hole => e(left) <= e(i)
    BY <1>2, <1>4, <1>5, <1>7
  <2> QED
    BY <1>2, <1>3, <2>1, <2>2 DEF e
<1> QED
  BY <1>6, <1>7

DownFrom(a, t, down, hole) ==
    IF 2 * hole + 1 >= Cardinality(DOMAIN a)
       \/ timer[a[FirstChild(a, hole)]].expire >= timer[t].expire
    THEN [a EXCEPT ![hole] = t]
    ELSE [down[FirstChild(a, hole)] EXCEPT ![hole] = a[FirstChild(a, hole)]]

IsDown(a, t, m, n, down) == down = [hole \in m .. n - 1 |-> DownFrom(a, t, down, hole)]

(* This recursion ends at the back.                                         *)
LEMMA DownExists ==
    ASSUME NEW n \in Nat \ {0}, NEW a, NEW t, DOMAIN a = 0 .. n - 1,
           \A i \in 0 .. n - 1 : timer[a[i]].expire \in Int
    PROVE  \E down : IsDown(a, t, 0, n, down)
<1> DEFINE Missing == {m \in 0 .. n - 1 : ~ \E down : IsDown(a, t, m, n, down)}
<1> SUFFICES ASSUME Missing # {} PROVE FALSE
  <2>1. 0 \in 0 .. n - 1
    OBVIOUS
  <2> QED
    BY <2>1
<1>1. PICK m \in Missing : \A k \in Missing : k <= m
  <2>1. Missing \in SUBSET (0 .. n - 1) /\ n - 1 \in Nat
    OBVIOUS
  <2> HIDE DEF Missing
  <2> QED
    BY <2>1, Greatest
<1>2. m \in 0 .. n - 1 /\ ~ \E down : IsDown(a, t, m, n, down)
  OBVIOUS
<1>3. PICK g : m # n - 1 => IsDown(a, t, m + 1, n, g)
  <2>1. m # n - 1 => m + 1 \in 0 .. n - 1 /\ ~(m + 1 <= m)
    BY <1>2
  <2> QED
    BY <1>1, <2>1
<1> DEFINE down == [hole \in m .. n - 1 |->
                      IF hole = m THEN DownFrom(a, t, g, m) ELSE g[hole]]
<1>4. ASSUME NEW hole \in m .. n - 1
      PROVE  DownFrom(a, t, down, hole) = DownFrom(a, t, g, hole)
  <2>1. hole \in 0 .. n - 1 /\ Cardinality(DOMAIN a) = n
    BY <1>2, Counted
  <2>2. 2 * hole + 1 < n => FirstChild(a, hole) \in m .. n - 1 /\ FirstChild(a, hole) # m
    BY <1>2, <2>1, FirstChildIs
  <2>3. 2 * hole + 1 < n => down[FirstChild(a, hole)] = g[FirstChild(a, hole)]
    BY <2>2
  <2>4. ~(2 * hole + 1 < n) => 2 * hole + 1 >= Cardinality(DOMAIN a)
    BY <2>1
  <2> HIDE DEF down
  <2> QED
    BY <2>3, <2>4 DEF DownFrom
<1>5. ASSUME NEW hole \in m .. n - 1
      PROVE  down[hole] = DownFrom(a, t, g, hole)
  <2>1. hole # m => m # n - 1 /\ hole \in m + 1 .. n - 1
    BY <1>2
  <2> QED
    BY <1>3, <2>1 DEF IsDown
<1>6. IsDown(a, t, m, n, down)
  <2>1. down = [hole \in m .. n - 1 |-> down[hole]]
    OBVIOUS
  <2> HIDE DEF down
  <2>2. \A hole \in m .. n - 1 : down[hole] = DownFrom(a, t, down, hole)
    BY <1>4, <1>5
  <2> QED
    BY <2>1, <2>2 DEF IsDown
<1> QED
  BY <1>2, <1>6

LEMMA DownIs ==
    ASSUME NEW n \in Nat \ {0}, NEW a, NEW t, DOMAIN a = 0 .. n - 1,
           \A i \in 0 .. n - 1 : timer[a[i]].expire \in Int,
           NEW hole \in 0 .. n - 1
    PROVE  PercolateDown(a, t)[hole] = DownFrom(a, t, PercolateDown(a, t), hole)
<1> DEFINE down == PercolateDown(a, t)
<1>1. \E f : f = [h \in DOMAIN a |-> DownFrom(a, t, f, h)]
  <2>1. \E f : IsDown(a, t, 0, n, f)
    BY DownExists
  <2> QED
    BY <2>1, Zenon DEF IsDown
<1>2. down = [h \in DOMAIN a |-> DownFrom(a, t, down, h)]
  BY <1>1, Zenon DEF PercolateDown, DownFrom
<1> HIDE DEF down
<1>3. down[hole] = DownFrom(a, t, down, hole)
  BY <1>2
<1> QED
  BY <1>3 DEF down

(* The hole on its way, below the top: t runs out after what was there.     *)
Sunk(a, b, n, hole, t) ==
    /\ DOMAIN b = 0 .. n - 1
    /\ \A i \in 0 .. n - 1 : i = 0 \/ (i # hole /\ Parent(i) < hole) => b[i] = a[i]
    /\ Filled(a, b, 1 .. n - 1, hole, t)
    /\ timer[a[hole]].expire < timer[t].expire =>
          /\ Ordered(b, timer, 1 .. n, n)
          /\ timer[a[hole]].expire <= timer[b[hole]].expire

LEMMA DownSinks ==
    ASSUME NEW n \in Nat \ {0}, NEW a, NEW t, DOMAIN a = 0 .. n - 1,
           \A i \in 0 .. n - 1 : timer[a[i]].expire \in Int,
           timer[t].expire \in Int,
           Once(a, 1 .. n - 1), t \notin Image(a, 1 .. n - 1),
           Ordered(a, timer, 1 .. n, n),
           NEW start \in 1 .. n - 1
    PROVE  Sunk(a, PercolateDown(a, t)[start], n, start, t)
<1> DEFINE down == PercolateDown(a, t)
           Wrong == {h \in 1 .. n - 1 : ~Sunk(a, down[h], n, h, t)}
           e(x) == timer[x].expire
           c(x) == FirstChild(a, x)
<1>0. \A h \in 0 .. n - 1 : down[h] = DownFrom(a, t, down, h)
  <2>1. ASSUME NEW h \in 0 .. n - 1 PROVE down[h] = DownFrom(a, t, down, h)
    BY DownIs
  <2> QED
    BY <2>1
<1> HIDE DEF down
<1> SUFFICES ASSUME Wrong # {} PROVE FALSE
  BY DEF down
<1>1. PICK h \in Wrong : \A k \in Wrong : k <= h
  <2>1. Wrong \in SUBSET (0 .. n - 1) /\ n - 1 \in Nat
    OBVIOUS
  <2> HIDE DEF Wrong
  <2> QED
    BY <2>1, Greatest
<1>2. h \in 1 .. n - 1 /\ h \in 0 .. n - 1 /\ ~Sunk(a, down[h], n, h, t)
  OBVIOUS
<1>3. Cardinality(DOMAIN a) = n
  BY Counted
<1>4. \A i \in 1 .. n - 1 :
          i \in 0 .. n - 1 /\ Parent(i) \in 0 .. n - 1 /\ Parent(i) < i
          /\ e(a[i]) \in Int /\ e(a[Parent(i)]) \in Int
          /\ (Parent(i) # 0 => Parent(i) \in 1 .. n /\ e(a[Parent(i)]) <= e(a[i]))
  <2>1. ASSUME NEW i \in 1 .. n - 1
        PROVE  /\ i \in 0 .. n - 1 /\ Parent(i) \in 0 .. n - 1 /\ Parent(i) < i
               /\ (Parent(i) # 0 => Parent(i) \in 1 .. n)
    BY ParentIs
  <2>2. \A i \in 1 .. n - 1 : e(a[i]) \in Int /\ e(a[Parent(i)]) \in Int
    BY <2>1
  <2>3. \A i \in 1 .. n - 1 : Parent(i) # 0 => e(a[Parent(i)]) <= e(a[i])
    BY <2>1 DEF Ordered
  <2> QED
    BY <2>1, <2>2, <2>3
<1>5. CASE 2 * h + 1 >= n \/ e(a[c(h)]) >= e(t)
  <2>1. down[h] = [a EXCEPT ![h] = t]
    BY <1>0, <1>2, <1>3, <1>5 DEF DownFrom
  <2>2. Filled(a, down[h], 1 .. n - 1, h, t)
    <3>1. 1 .. n - 1 \subseteq DOMAIN a
      OBVIOUS
    <3> QED
      BY <1>2, <2>1, <3>1, HoleFilled
  <2>3. DOMAIN down[h] = 0 .. n - 1 /\ down[h][h] = t
        /\ \A i \in 0 .. n - 1 : i # h => down[h][i] = a[i]
    BY <1>2, <2>1
  <2>4. ASSUME NEW i \in 1 .. n - 1, Parent(i) = h PROVE e(t) <= e(a[i])
    <3>1. 2 * h + 1 < n
      <4>1. i \in Nat /\ i > 0 /\ h \in Nat /\ i < n
        BY <1>2
      <4>2. i = 2 * h + 1 \/ i = 2 * h + 2
        BY <2>4, <4>1, ParentIs
      <4> QED
        BY <4>1, <4>2
    <3>2. e(a[c(h)]) <= e(a[i]) /\ c(h) \in 1 .. n - 1
      BY <1>2, <2>4, <3>1, FirstChildIs
    <3> QED
      <4>1. e(t) <= e(a[c(h)])
        BY <1>2, <1>4, <1>5, <3>1, <3>2
      <4>2. e(a[c(h)]) \in Int /\ e(a[i]) \in Int /\ e(t) \in Int
        BY <1>4, <3>2
      <4> HIDE DEF e, c
      <4> QED
        BY <3>2, <4>1, <4>2
  <2>5. ASSUME e(a[h]) < e(t), NEW i \in 1 .. n - 1, Parent(i) # 0
        PROVE  e(down[h][Parent(i)]) <= e(down[h][i])
    <3>1. CASE i = h
      <4>1. down[h][i] = t /\ down[h][Parent(i)] = a[Parent(i)]
        BY <1>2, <1>4, <2>3, <3>1
      <4>2. e(a[Parent(i)]) <= e(a[h]) /\ e(a[Parent(i)]) \in Int /\ e(a[h]) \in Int
        BY <1>4, <2>5, <3>1
      <4>3. e(t) \in Int
        OBVIOUS
      <4> HIDE DEF e
      <4> QED
        BY <2>5, <4>1, <4>2, <4>3
    <3>2. CASE Parent(i) = h
      <4>1. down[h][i] = a[i] /\ down[h][Parent(i)] = t
        BY <1>2, <1>4, <2>3, <3>2
      <4> QED
        BY <2>4, <3>2, <4>1
    <3>3. CASE i # h /\ Parent(i) # h
      BY <1>4, <2>3, <2>5, <3>3
    <3> QED
      BY <3>1, <3>2, <3>3
  <2>6. e(a[h]) < e(t) => Ordered(down[h], timer, 1 .. n, n) /\ e(a[h]) <= e(down[h][h])
    BY <1>2, <1>4, <2>3, <2>5 DEF Ordered
  <2> QED
    BY <1>2, <2>2, <2>3, <2>6 DEF Sunk
<1>6. CASE ~(2 * h + 1 >= n \/ e(a[c(h)]) >= e(t))
  <2> DEFINE p == c(h)
  <2>1. /\ p \in 1 .. n - 1 /\ p > h /\ Parent(p) = h
        /\ \A i \in 1 .. n - 1 : Parent(i) = h => e(a[p]) <= e(a[i])
    <3>1. 2 * h + 1 < n
      BY <1>2, <1>6
    <3> QED
      BY <1>2, <3>1, FirstChildIs
  <2>2. Sunk(a, down[p], n, p, t)
    BY <1>1, <1>2, <2>1
  <2>3. e(a[p]) < e(t)
    BY <1>4, <1>6, <2>1
  <2>4. down[h] = [down[p] EXCEPT ![h] = a[p]]
    BY <1>0, <1>2, <1>3, <1>6 DEF DownFrom
  <2>5. e(a[h]) <= e(a[p])
    BY <1>2, <1>4, <2>1
  <2> HIDE DEF p
  <2>6. DOMAIN down[p] = 0 .. n - 1 /\ down[p][h] = a[h] /\ Filled(a, down[p], 1 .. n - 1, p, t)
    BY <1>2, <1>4, <2>1, <2>2 DEF Sunk
  <2>7. Filled(a, down[h], 1 .. n - 1, h, t)
    <3>1. 1 .. n - 1 \subseteq DOMAIN down[p] /\ h # p
      BY <2>1, <2>6
    <3> QED
      BY <1>2, <2>1, <2>4, <2>6, <3>1, HoleMoved
  <2>8. /\ DOMAIN down[h] = 0 .. n - 1 /\ down[h][h] = a[p]
        /\ \A i \in 0 .. n - 1 : i # h => down[h][i] = down[p][i]
    BY <1>2, <2>4, <2>6
  <2>9. \A i \in 0 .. n - 1 : i = 0 \/ (i # h /\ Parent(i) < h) => down[h][i] = a[i]
    <3>1. ASSUME NEW i \in 0 .. n - 1, i = 0 \/ (i # h /\ Parent(i) < h)
          PROVE  i # h /\ (i = 0 \/ (i # p /\ Parent(i) < p))
      <4>1. i # 0 => Parent(i) \in 0 .. n - 1
        BY <1>4
      <4> QED
        BY <1>2, <2>1, <3>1, <4>1
    <3> QED
      BY <2>2, <2>8, <3>1 DEF Sunk
  <2>10. ASSUME NEW i \in 1 .. n - 1, Parent(i) # 0
         PROVE  e(down[h][Parent(i)]) <= e(down[h][i])
    <3>1. /\ Ordered(down[p], timer, 1 .. n, n) /\ e(a[p]) <= e(down[p][p])
      BY <2>2, <2>3 DEF Sunk
    <3>2. CASE i = h
      <4>1. down[h][i] = a[p] /\ down[h][Parent(i)] = a[Parent(i)]
        <5>1. Parent(h) \in 1 .. n - 1 /\ Parent(h) < h /\ Parent(Parent(h)) < h
          <6>1. Parent(h) \in 1 .. n - 1 /\ Parent(h) < h
            BY <1>2, <1>4, <2>10, <3>2
          <6>2. Parent(Parent(h)) < Parent(h) /\ Parent(Parent(h)) \in 0 .. n - 1
            BY <1>4, <6>1
          <6> QED
            BY <1>2, <6>1, <6>2
        <5> QED
          BY <1>2, <2>8, <2>9, <3>2, <5>1
      <4>2. e(a[Parent(h)]) <= e(a[h])
        BY <1>2, <1>4, <2>10, <3>2
      <4>3. e(a[Parent(h)]) \in Int /\ e(a[h]) \in Int /\ e(a[p]) \in Int
        BY <1>2, <1>4, <2>1
      <4> HIDE DEF e
      <4> QED
        BY <2>5, <3>2, <4>1, <4>2, <4>3
    <3>3. CASE Parent(i) = h /\ i = p
      <4>1. down[h][i] = down[p][p] /\ down[h][Parent(i)] = a[p]
        BY <1>2, <1>4, <2>1, <2>8, <3>3
      <4> QED
        BY <3>1, <4>1
    <3>4. CASE Parent(i) = h /\ i # p
      <4>1. down[h][i] = a[i] /\ down[h][Parent(i)] = a[p]
        <5>1. Parent(i) < p /\ i # h /\ i \in 0 .. n - 1
          BY <1>2, <1>4, <2>1, <3>4
        <5>2. down[p][i] = a[i]
          BY <2>2, <3>4, <5>1 DEF Sunk
        <5> QED
          BY <2>8, <3>4, <5>1, <5>2
      <4> QED
        BY <2>1, <3>4, <4>1
    <3>5. CASE i # h /\ Parent(i) # h
      <4>1. Parent(i) \in 1 .. n /\ Parent(i) \in 0 .. n - 1 /\ i \in 0 .. n - 1
        BY <1>4, <2>10
      <4>2. e(down[p][Parent(i)]) <= e(down[p][i])
        BY <3>1, <4>1 DEF Ordered
      <4> QED
        BY <2>8, <3>5, <4>1, <4>2
    <3> QED
      BY <3>2, <3>3, <3>4, <3>5
  <2>11. Ordered(down[h], timer, 1 .. n, n) /\ e(a[h]) <= e(down[h][h])
    BY <2>5, <2>8, <2>10 DEF Ordered
  <2> QED
    BY <1>2, <2>7, <2>8, <2>9, <2>11 DEF Sunk
<1> QED
  BY <1>5, <1>6

(* What pop_timer leaves in the array: the same, in order.                  *)
LEMMA PercolatedDown ==
    ASSUME NEW n \in Nat \ {0}, NEW a, NEW t, DOMAIN a = 0 .. n - 1, a[0] = t,
           \A i \in 0 .. n - 1 : timer[a[i]].expire \in Int,
           Once(a, 0 .. n - 1), Ordered(a, timer, 1 .. n, n),
           NEW b, b = PercolateDown(a, t)[0]
    PROVE  /\ b = [i \in 0 .. n - 1 |-> b[i]] /\ Once(b, 0 .. n - 1)
           /\ Image(b, 0 .. n - 1) = Image(a, 0 .. n - 1)
           /\ Ordered(b, timer, 0 .. n, n)
<1> DEFINE down == PercolateDown(a, t)
           e(x) == timer[x].expire
           p == FirstChild(a, 0)
           I == 1 .. n - 1
<1>1. 0 \in 0 .. n - 1 /\ b = DownFrom(a, t, down, 0) /\ Cardinality(DOMAIN a) = n
  BY DownIs, Counted
<1>2. 0 .. n - 1 = I \cup {0} /\ 0 \notin I
  OBVIOUS
<1>3. Once(a, I) /\ t \notin Image(a, I) /\ Image(a, 0 .. n - 1) = Image(a, I) \cup {t}
  BY <1>1, <1>2 DEF Once, Image
<1>4. \A i \in 1 .. n - 1 :
          i \in 0 .. n - 1 /\ Parent(i) \in 0 .. n - 1 /\ Parent(i) < i
          /\ e(a[i]) \in Int /\ e(a[Parent(i)]) \in Int
          /\ (Parent(i) # 0 => Parent(i) \in 1 .. n /\ e(a[Parent(i)]) <= e(a[i]))
  <2>1. ASSUME NEW i \in 1 .. n - 1
        PROVE  /\ i \in 0 .. n - 1 /\ Parent(i) \in 0 .. n - 1 /\ Parent(i) < i
               /\ (Parent(i) # 0 => Parent(i) \in 1 .. n)
    BY ParentIs
  <2>2. \A i \in 1 .. n - 1 : e(a[i]) \in Int /\ e(a[Parent(i)]) \in Int
    BY <2>1
  <2>3. \A i \in 1 .. n - 1 : Parent(i) # 0 => e(a[Parent(i)]) <= e(a[i])
    BY <2>1 DEF Ordered
  <2> QED
    BY <2>1, <2>2, <2>3
<1>5. e(t) \in Int
  BY <1>1
<1>6. CASE 1 >= n \/ e(a[p]) >= e(t)
  <2>1. b = [i \in 0 .. n - 1 |-> b[i]] /\ \A i \in 0 .. n - 1 : b[i] = a[i]
    <3>1. b = [a EXCEPT ![0] = t]
      BY <1>1, <1>6 DEF DownFrom
    <3> QED
      BY <1>1, <3>1
  <2>2. Once(b, 0 .. n - 1) /\ Image(b, 0 .. n - 1) = Image(a, 0 .. n - 1)
    BY <2>1 DEF Once, Image
  <2>3. ASSUME NEW i \in 1 .. n - 1 PROVE e(b[Parent(i)]) <= e(b[i])
    <3>1. CASE Parent(i) = 0
      <4>1. 2 * 0 + 1 < n
        OBVIOUS
      <4>2. e(a[p]) <= e(a[i]) /\ p \in 1 .. n - 1
        BY <1>1, <3>1, <4>1, FirstChildIs
      <4>3. b[Parent(i)] = t /\ b[i] = a[i] /\ e(a[i]) \in Int /\ e(a[p]) \in Int
        BY <1>1, <1>4, <2>1, <3>1, <4>2
      <4>4. e(t) <= e(a[p])
        BY <1>5, <1>6, <4>1, <4>3
      <4> HIDE DEF e, p
      <4> QED
        BY <1>5, <4>2, <4>3, <4>4
    <3>2. CASE Parent(i) # 0
      BY <1>4, <2>1, <3>2
    <3> QED
      BY <3>1, <3>2
  <2> QED
    BY <2>1, <2>2, <2>3 DEF Ordered
<1>7. CASE ~(1 >= n \/ e(a[p]) >= e(t))
  <2>1. /\ p \in 1 .. n - 1 /\ Parent(p) = 0
        /\ \A i \in 1 .. n - 1 : Parent(i) = 0 => e(a[p]) <= e(a[i])
    BY <1>1, <1>7, FirstChildIs
  <2>2. Sunk(a, down[p], n, p, t)
    BY <1>3, <1>5, <2>1, DownSinks
  <2>3. b = [down[p] EXCEPT ![0] = a[p]] /\ e(a[p]) < e(t)
    BY <1>1, <1>4, <1>5, <1>7, <2>1 DEF DownFrom
  <2> HIDE DEF p, down
  <2>4. DOMAIN down[p] = 0 .. n - 1 /\ Filled(a, down[p], I, p, t)
    BY <2>2 DEF Sunk
  <2>5. Closed(a, b, I, 0, t)
    <3>1. p \in I /\ I \cup {0} \subseteq DOMAIN down[p]
      BY <1>2, <2>1, <2>4
    <3> HIDE DEF I
    <3> QED
      BY <1>2, <1>3, <2>3, <2>4, <3>1, HoleClosed
  <2>6. /\ b = [i \in 0 .. n - 1 |-> b[i]] /\ b[0] = a[p]
        /\ \A i \in 0 .. n - 1 : i # 0 => b[i] = down[p][i]
    BY <1>1, <2>3, <2>4
  <2>7. ASSUME NEW i \in 1 .. n - 1 PROVE e(b[Parent(i)]) <= e(b[i])
    <3>1. b[i] = down[p][i]
      BY <1>4, <2>6
    <3>2. CASE Parent(i) = 0 /\ i = p
      <4>1. e(a[p]) <= e(down[p][p])
        BY <2>2, <2>3 DEF Sunk
      <4> QED
        BY <2>6, <3>1, <3>2, <4>1
    <3>3. CASE Parent(i) = 0 /\ i # p
      <4>1. down[p][i] = a[i]
        BY <1>4, <2>1, <2>2, <3>3 DEF Sunk
      <4> QED
        BY <2>1, <2>6, <3>1, <3>3, <4>1
    <3>4. CASE Parent(i) # 0
      BY <1>4, <2>2, <2>3, <2>6, <3>1, <3>4 DEF Sunk, Ordered
    <3> QED
      BY <3>2, <3>3, <3>4
  <2>8. Ordered(b, timer, 0 .. n, n)
    BY <2>7 DEF Ordered
  <2>9. Once(b, 0 .. n - 1) /\ Image(b, 0 .. n - 1) = Image(a, 0 .. n - 1)
    BY <1>2, <1>3, <2>5 DEF Closed
  <2> QED
    BY <2>6, <2>8, <2>9
<1> QED
  BY <1>6, <1>7
-----------------------------------------------------------------------------
(* The inductive invariant.                                                 *)

TypeOK ==
    /\ curSize \in Nat /\ capacity \in Nat \ {0}
    /\ Allocated \subseteq Timers
    /\ timer \in [Allocated -> [expire : Times, live : BOOLEAN]]
    /\ cur \in Times \cup {Idle}
    /\ called \subseteq Timers

IInv == TypeOK /\ HoldsEachOnce /\ HeapOrdered

(* The invariant in terms of what the lemmas on the percolations say.       *)
LEMMA BijectionIs ==
    ASSUME NEW a, NEW I, NEW S
    PROVE  a \in Bijection(I, S) <=> a = [i \in I |-> a[i]] /\ Once(a, I) /\ Image(a, I) = S
<1>1. a \in Bijection(I, S) =>
        a \in [I -> S] /\ (\A i, j \in I : a[i] = a[j] => i = j) /\ \A s \in S : \E i \in I : a[i] = s
  BY DEF Bijection, Injection, Surjection, IsInjective
<1>2. a \in [I -> S] /\ (\A i, j \in I : a[i] = a[j] => i = j) /\ (\A s \in S : \E i \in I : a[i] = s)
        => a \in Bijection(I, S)
  BY DEF Bijection, Injection, Surjection, IsInjective
<1>3. a \in [I -> S] <=> a = [i \in I |-> a[i]] /\ \A i \in I : a[i] \in S
  OBVIOUS
<1> QED
  BY <1>1, <1>2, <1>3 DEF Once, Image

LEMMA OrderedIs ==
    ASSUME NEW a, NEW objects, NEW n \in Nat
    PROVE  Ordered(a, objects, 0 .. n, n) <=>
             \A i \in 1 .. n - 1 : objects[a[Parent(i)]].expire <= objects[a[i]].expire
<1>1. \A i \in 1 .. n - 1 : Parent(i) \in 0 .. n
  BY ParentIs
<1> QED
  BY <1>1 DEF Ordered

LEMMA Held ==
    ASSUME IInv, NEW n, n = curSize
    PROVE  /\ n \in Nat /\ n <= capacity
           /\ array = [i \in 0 .. n - 1 |-> array[i]] /\ DOMAIN array = 0 .. n - 1
           /\ Once(array, 0 .. n - 1) /\ Image(array, 0 .. n - 1) = Allocated
           /\ \A i \in 0 .. n - 1 : array[i] \in Allocated
           /\ \A t \in Allocated : timer[t].expire \in Times /\ timer[t].expire \in Int
           /\ Ordered(array, timer, 0 .. n, n)
<1>1. n \in Nat /\ n <= capacity /\ array \in Bijection(0 .. n - 1, Allocated)
  BY DEF IInv, TypeOK, HoldsEachOnce
<1>2. /\ array = [i \in 0 .. n - 1 |-> array[i]]
      /\ Once(array, 0 .. n - 1) /\ Image(array, 0 .. n - 1) = Allocated
  BY <1>1, BijectionIs
<1>3. DOMAIN array = 0 .. n - 1 /\ \A i \in 0 .. n - 1 : array[i] \in Allocated
  BY <1>2 DEF Image
<1>4. \A t \in Allocated : timer[t].expire \in Times /\ timer[t].expire \in Int
  BY HeapAssumption DEF IInv, TypeOK
<1>5. Ordered(array, timer, 0 .. n, n)
  BY <1>1, OrderedIs DEF IInv, HeapOrdered
<1> QED
  BY <1>1, <1>2, <1>3, <1>4, <1>5

(* The converse, after a step.                                              *)
LEMMA HeldAfter ==
    ASSUME NEW n \in Nat, n <= capacity',
           array' = [i \in 0 .. n - 1 |-> array'[i]],
           Once(array', 0 .. n - 1), Image(array', 0 .. n - 1) = Allocated',
           Ordered(array', timer', 0 .. n, n)
    PROVE  curSize' = n /\ HoldsEachOnce' /\ HeapOrdered'
<1>1. DOMAIN array' = 0 .. n - 1
  OBVIOUS
<1>2. curSize' = n
  BY <1>1, Counted DEF curSize
<1>3. array' \in Bijection(0 .. n - 1, Allocated')
  BY BijectionIs
<1>4. HoldsEachOnce'
  BY <1>2, <1>3 DEF HoldsEachOnce
<1>5. HeapOrdered'
  BY <1>2, OrderedIs DEF HeapOrdered
<1> QED
  BY <1>2, <1>4, <1>5

(* What lets tick stop at the first top that has not run out.               *)
LEMMA RootIsLeast ==
    ASSUME IInv, curSize > 0, NEW t \in Allocated
    PROVE  array[0] \in Allocated /\ timer[array[0]].expire <= timer[t].expire
<1> DEFINE n == curSize
           e(i) == timer[array[i]].expire
           Wrong == {i \in 0 .. n - 1 : ~(e(0) <= e(i))}
<1>1. n \in Nat /\ n > 0 /\ 0 \in 0 .. n - 1 /\ (\A i \in 0 .. n - 1 : array[i] \in Allocated /\ e(i) \in Int)
  BY Held
<1>2. PICK i \in 0 .. n - 1 : array[i] = t
  BY Held DEF Image
<1>3. ASSUME Wrong # {} PROVE FALSE
  <2>1. PICK w \in Wrong : \A q \in Wrong : w <= q
    <3>1. Wrong \in SUBSET Nat
      BY <1>1
    <3> HIDE DEF Wrong
    <3> QED
      BY <1>3, <3>1, Least
  <2>2. w \in 1 .. n - 1
    BY <1>1
  <2>3. Parent(w) \in 0 .. n - 1 /\ Parent(w) < w
    BY <1>1, <2>2, ParentIs
  <2>4. e(0) <= e(Parent(w))
    BY <1>1, <2>1, <2>3
  <2>5. e(Parent(w)) <= e(w)
    BY <2>2 DEF IInv, HeapOrdered
  <2> QED
    BY <1>1, <2>1, <2>2, <2>3, <2>4, <2>5
<1> QED
  BY <1>1, <1>2, <1>3

-----------------------------------------------------------------------------
(* The steps.                                                               *)

(* add_timer and adjust_timer: a timer more, and no other expires anew.     *)
LEMMA InsertHolds ==
    ASSUME IInv, NEW t \in Timers \ Allocated, NEW objects,
           objects \in [Allocated \cup {t} -> [expire : Times, live : BOOLEAN]],
           \A u \in Allocated : objects[u].expire = timer[u].expire,
           Insert(t, objects)
    PROVE  /\ curSize' \in Nat /\ capacity' \in Nat \ {0}
           /\ HoldsEachOnce' /\ HeapOrdered'
<1> DEFINE n == curSize
           a == Extended(t)
           b == array'
<1>1. /\ n \in Nat /\ n <= capacity /\ capacity \in Nat \ {0}
      /\ DOMAIN array = 0 .. n - 1 /\ Once(array, 0 .. n - 1)
      /\ Image(array, 0 .. n - 1) = Allocated
      /\ \A i \in 0 .. n - 1 : array[i] \in Allocated
      /\ Ordered(array, timer, 0 .. n, n)
  BY Held DEF IInv, TypeOK
<1>2. a = [i \in 0 .. n |-> IF i = n THEN t ELSE array[i]]
  BY DEF Extended
<1>3. DOMAIN a = 0 .. n /\ a[n] = t /\ \A i \in 0 .. n - 1 : a[i] = array[i]
  BY <1>1, <1>2
<1>4. b = PercolateUp(a, objects, t)[n] /\ timer' = objects
      /\ capacity' = IF n >= capacity THEN 2 * capacity ELSE capacity
  BY DEF Insert, Grown
<1> HIDE DEF n, a, b
<1>5. objects[t].expire \in Int /\ \A u \in Allocated : objects[u].expire \in Int
  BY HeapAssumption
<1>6. /\ Once(a, 0 .. n - 1) /\ Image(a, 0 .. n - 1) = Allocated
      /\ \A i \in 0 .. n - 1 : objects[a[i]].expire \in Int
  <2>1. \A i \in 0 .. n - 1 : a[i] = array[i] /\ a[i] \in Allocated
    BY <1>1, <1>3
  <2>2. Image(a, 0 .. n - 1) = Allocated
    BY <1>1, <2>1 DEF Image
  <2> QED
    BY <1>1, <1>5, <2>1, <2>2 DEF Once
<1>7. Ordered(a, objects, 0 .. n, n)
  <2>1. ASSUME NEW i \in 1 .. n - 1
        PROVE  objects[a[Parent(i)]].expire <= objects[a[i]].expire
    <3>1. i \in 0 .. n - 1 /\ Parent(i) \in 0 .. n - 1 /\ Parent(i) \in 0 .. n
      BY <1>1, ParentIs
    <3>2. timer[array[Parent(i)]].expire <= timer[array[i]].expire
      BY <1>1, <3>1 DEF Ordered
    <3> QED
      BY <1>1, <1>3, <3>1, <3>2
  <2> QED
    BY <2>1 DEF Ordered
<1>8. /\ b = [i \in 0 .. n |-> b[i]] /\ Once(b, 0 .. n)
      /\ Image(b, 0 .. n) = Allocated \cup {t}
      /\ Ordered(b, objects, 0 .. n, n + 1)
  <2>1. t \notin Image(a, 0 .. n - 1) /\ n \in Nat /\ DOMAIN a = 0 .. n /\ a[n] = t
    BY <1>1, <1>3, <1>6
  <2>2. b = PercolateUp(a, objects, t)[n] /\ objects[t].expire \in Int
    BY <1>4, <1>5
  <2>3. /\ b = [i \in 0 .. n |-> b[i]] /\ Once(b, 0 .. n)
        /\ Image(b, 0 .. n) = Image(a, 0 .. n - 1) \cup {t}
        /\ Ordered(b, objects, 0 .. n, n + 1)
    BY <1>6, <1>7, <2>1, <2>2, PercolatedUp
  <2> QED
    BY <1>6, <2>3
<1> DEFINE m == n + 1
<1>9. m \in Nat /\ m <= capacity' /\ capacity' \in Nat \ {0} /\ 0 .. n = 0 .. m - 1
  BY <1>1, <1>4
<1>10. Ordered(b, objects, 0 .. m, m)
  <2>1. ASSUME NEW i \in 1 .. m - 1
        PROVE  objects[b[Parent(i)]].expire <= objects[b[i]].expire
    <3>1. Parent(i) \in 0 .. n /\ i \in 1 .. n + 1 - 1
      BY <1>1, ParentIs
    <3> QED
      BY <1>8, <3>1 DEF Ordered
  <2> QED
    BY <2>1 DEF Ordered
<1>11. Allocated' = Allocated \cup {t}
  BY <1>4 DEF Allocated
<1>12. curSize' = m /\ HoldsEachOnce' /\ HeapOrdered'
  <2> HIDE DEF m
  <2>1. array' = [i \in 0 .. m - 1 |-> array'[i]] /\ Once(array', 0 .. m - 1)
        /\ Image(array', 0 .. m - 1) = Allocated' /\ Ordered(array', timer', 0 .. m, m)
    BY <1>4, <1>8, <1>9, <1>10, <1>11 DEF b
  <2> QED
    BY <1>9, <2>1, HeldAfter
<1> QED
  BY <1>9, <1>12

(* pop_timer: a timer less, and the others as they were.                    *)
LEMMA PopHolds ==
    ASSUME IInv, curSize > 0, Pop, UNCHANGED capacity
    PROVE  /\ curSize' \in Nat /\ HoldsEachOnce' /\ HeapOrdered'
           /\ array[0] \in Allocated
<1> DEFINE n == curSize
           last == n - 1
           rest == [i \in 0 .. last - 1 |-> IF i = 0 THEN array[last] ELSE array[i]]
           b == array'
<1>1. /\ n \in Nat \ {0} /\ n <= capacity /\ capacity \in Nat
      /\ DOMAIN array = 0 .. n - 1 /\ Once(array, 0 .. n - 1)
      /\ Image(array, 0 .. n - 1) = Allocated
      /\ \A i \in 0 .. n - 1 : array[i] \in Allocated
      /\ \A t \in Allocated : timer[t].expire \in Int
      /\ Ordered(array, timer, 0 .. n, n)
  BY Held DEF IInv, TypeOK
<1>2. /\ b = IF last = 0 THEN rest ELSE PercolateDown(rest, rest[0])[0]
      /\ timer' = [t \in Allocated \ {array[0]} |-> timer[t]]
  BY DEF Pop
<1>3. last \in Nat /\ last <= capacity' /\ 0 \in 0 .. n - 1 /\ last \in 0 .. n - 1
      /\ 0 .. last - 1 \subseteq 0 .. n - 1
  BY <1>1
<1>4. /\ DOMAIN rest = 0 .. last - 1
      /\ \A i \in 0 .. last - 1 : rest[i] = IF i = 0 THEN array[last] ELSE array[i]
  OBVIOUS
<1> HIDE DEF n, rest, b
<1>5. Once(rest, 0 .. last - 1)
  BY <1>1, <1>3, <1>4 DEF Once
<1>6. Image(rest, 0 .. last - 1) = Allocated \ {array[0]}
  <2>1. ASSUME NEW i \in 0 .. last - 1 PROVE rest[i] \in Allocated \ {array[0]}
    <3>1. i \in 0 .. n - 1 /\ last # 0
      BY <1>3
    <3> QED
      BY <1>1, <1>3, <1>4, <3>1 DEF Once
  <2>2. ASSUME NEW t \in Allocated, t # array[0] PROVE \E i \in 0 .. last - 1 : rest[i] = t
    <3>1. PICK i \in 0 .. n - 1 : array[i] = t /\ i # 0
      BY <1>1, <2>2 DEF Image
    <3>2. CASE i = last
      <4>1. 0 \in 0 .. last - 1
        BY <1>1, <1>3, <3>1, <3>2
      <4>2. rest[0] = t
        BY <1>4, <3>1, <3>2, <4>1
      <4> QED
        BY <4>1, <4>2
    <3>3. CASE i # last
      <4>1. i \in 0 .. last - 1 /\ rest[i] = t
        BY <1>1, <1>4, <3>1, <3>3
      <4> QED
        BY <4>1
    <3> QED
      BY <3>2, <3>3
  <2> QED
    BY <2>1, <2>2 DEF Image
<1>7. Allocated' = Allocated \ {array[0]} /\ \A t \in Allocated' : timer'[t] = timer[t]
  BY <1>2 DEF Allocated
<1>8. /\ b = [i \in 0 .. last - 1 |-> b[i]] /\ Once(b, 0 .. last - 1)
      /\ Image(b, 0 .. last - 1) = Allocated'
      /\ Ordered(b, timer, 0 .. last, last)
  <2>1. CASE last = 0
    <3>1. 0 .. last - 1 = {} /\ 1 .. last - 1 = {}
      BY <2>1
    <3>2. b = [i \in 0 .. last - 1 |-> b[i]]
      BY <1>2, <2>1 DEF rest
    <3> QED
      BY <1>2, <1>5, <1>6, <1>7, <2>1, <3>1, <3>2 DEF Ordered
  <2>2. CASE last # 0
    <3>1. \A i \in 0 .. last - 1 : timer[rest[i]].expire \in Int
      BY <1>1, <1>6 DEF Image
    <3>2. Ordered(rest, timer, 1 .. last, last)
      <4>1. ASSUME NEW i \in 1 .. last - 1, Parent(i) \in 1 .. last
            PROVE  timer[rest[Parent(i)]].expire <= timer[rest[i]].expire
        <5>1. /\ i \in 1 .. n - 1 /\ Parent(i) \in 0 .. n /\ i \in 0 .. last - 1 /\ i # 0
              /\ Parent(i) \in 0 .. last - 1 /\ Parent(i) # 0
          BY <1>1, <4>1, ParentIs
        <5>2. timer[array[Parent(i)]].expire <= timer[array[i]].expire
          BY <1>1, <5>1 DEF Ordered
        <5> QED
          BY <1>4, <5>1, <5>2
      <4> QED
        BY <4>1 DEF Ordered
    <3>3. last \in Nat \ {0} /\ b = PercolateDown(rest, rest[0])[0]
      BY <1>2, <1>3, <2>2
    <3> HIDE DEF last
    <3>4. /\ b = [i \in 0 .. last - 1 |-> b[i]] /\ Once(b, 0 .. last - 1)
          /\ Image(b, 0 .. last - 1) = Image(rest, 0 .. last - 1)
          /\ Ordered(b, timer, 0 .. last, last)
      BY <1>4, <1>5, <3>1, <3>2, <3>3, PercolatedDown
    <3> QED
      BY <1>6, <1>7, <3>4
  <2> QED
    BY <2>1, <2>2
<1>9. Ordered(b, timer', 0 .. last, last)
  <2>1. ASSUME NEW i \in 1 .. last - 1
        PROVE  timer'[b[Parent(i)]].expire <= timer'[b[i]].expire
    <3>1. i \in 0 .. last - 1 /\ Parent(i) \in 0 .. last - 1 /\ Parent(i) \in 0 .. last
      BY <1>3, ParentIs
    <3>2. b[i] \in Allocated' /\ b[Parent(i)] \in Allocated'
      BY <1>8, <3>1 DEF Image
    <3>3. timer[b[Parent(i)]].expire <= timer[b[i]].expire
      BY <1>8, <3>1 DEF Ordered
    <3> QED
      BY <1>7, <3>2, <3>3
  <2> QED
    BY <2>1 DEF Ordered
<1>10. curSize' = last /\ HoldsEachOnce' /\ HeapOrdered'
  <2> HIDE DEF last
  <2> QED
    BY <1>3, <1>8, <1>9, HeldAfter DEF b
<1> QED
  BY <1>1, <1>3, <1>10

LEMMA HeapStarts == Init => IInv
<1> SUFFICES ASSUME Init PROVE IInv
  OBVIOUS
<1>1. DOMAIN array = {} /\ Allocated = {} /\ curSize = 0
  BY FS_EmptySet DEF Init, Allocated, curSize
<1>2. TypeOK
  BY <1>1, HeapAssumption DEF TypeOK, Init, Allocated
<1>3. HoldsEachOnce
  <2>1. 0 .. curSize - 1 = {} /\ curSize <= capacity
    BY <1>1, HeapAssumption DEF Init
  <2>2. array = [i \in {} |-> array[i]] /\ Once(array, {}) /\ Image(array, {}) = {}
    BY DEF Init, Once, Image
  <2>3. array \in Bijection({}, {})
    BY <2>2, BijectionIs
  <2> QED
    BY <1>1, <2>1, <2>3 DEF HoldsEachOnce
<1>4. HeapOrdered
  BY <1>1 DEF HeapOrdered
<1> QED
  BY <1>2, <1>3, <1>4 DEF IInv

(* Nothing but the lives of timers has changed.                             *)
LEMMA HeldUnchanged ==
    ASSUME IInv, UNCHANGED <<array, capacity>>, Allocated' = Allocated,
           \A t \in Allocated : timer'[t].expire = timer[t].expire
    PROVE  curSize' = curSize /\ HoldsEachOnce' /\ HeapOrdered'
<1> DEFINE n == curSize
<1>1. /\ n \in Nat /\ n <= capacity
      /\ array = [i \in 0 .. n - 1 |-> array[i]]
      /\ Once(array, 0 .. n - 1) /\ Image(array, 0 .. n - 1) = Allocated
      /\ \A i \in 0 .. n - 1 : array[i] \in Allocated
      /\ Ordered(array, timer, 0 .. n, n)
  BY Held
<1>2. Ordered(array', timer', 0 .. n, n)
  <2>1. ASSUME NEW i \in 1 .. n - 1, Parent(i) \in 0 .. n
        PROVE  timer'[array'[Parent(i)]].expire <= timer'[array'[i]].expire
    <3>1. i \in 0 .. n - 1 /\ Parent(i) \in 0 .. n - 1
      BY <1>1, ParentIs
    <3>2. timer[array[Parent(i)]].expire <= timer[array[i]].expire
      BY <1>1, <2>1 DEF Ordered
    <3> QED
      BY <1>1, <3>1, <3>2
  <2> QED
    BY <2>1 DEF Ordered
<1> HIDE DEF n
<1>3. curSize' = n /\ HoldsEachOnce' /\ HeapOrdered'
  BY <1>1, <1>2, HeldAfter
<1> QED
  BY <1>3 DEF n

LEMMA HeapKept == IInv /\ [Next]_vars => IInv'
<1> SUFFICES ASSUME IInv, [Next]_vars PROVE IInv'
  OBVIOUS
<1> USE DEF Allocated
<1>1. /\ curSize \in Nat /\ capacity \in Nat \ {0} /\ Allocated \subseteq Timers
      /\ timer \in [Allocated -> [expire : Times, live : BOOLEAN]]
      /\ cur \in Times \cup {Idle} /\ called \subseteq Timers
  BY DEF IInv, TypeOK
<1>2. ASSUME NEW t \in Timers, AddTimer(t) PROVE IInv'
  <2>1. PICK time \in Times : Insert(t, With(t, [expire |-> time, live |-> TRUE]))
    BY <1>2 DEF AddTimer
  <2> DEFINE objects == With(t, [expire |-> time, live |-> TRUE])
  <2>2. t \in Timers \ Allocated /\ cur' = cur /\ called' = called
    BY <1>2 DEF AddTimer
  <2>3. objects \in [Allocated \cup {t} -> [expire : Times, live : BOOLEAN]]
    BY <1>1 DEF With
  <2>4. \A u \in Allocated : objects[u].expire = timer[u].expire
    BY <2>2 DEF With
  <2>5. timer' = objects
    BY <2>1 DEF Insert
  <2> HIDE DEF objects
  <2>6. curSize' \in Nat /\ capacity' \in Nat \ {0} /\ HoldsEachOnce' /\ HeapOrdered'
    BY <2>1, <2>2, <2>3, <2>4, InsertHolds DEF objects
  <2>7. TypeOK'
    BY <1>1, <2>2, <2>3, <2>5, <2>6 DEF TypeOK
  <2> QED
    BY <2>6, <2>7 DEF IInv
<1>3. ASSUME NEW t \in Timers, DelTimer(t) PROVE IInv'
  <2>1. /\ timer' = [timer EXCEPT ![t].live = FALSE] /\ t \in Allocated
        /\ UNCHANGED <<array, capacity>> /\ cur' = cur /\ called' = called
    BY <1>3 DEF DelTimer
  <2>2. timer' \in [Allocated -> [expire : Times, live : BOOLEAN]]
    BY <1>1, <2>1
  <2>3. \A u \in Allocated : timer'[u].expire = timer[u].expire
    BY <1>1, <2>1
  <2>4. curSize' = curSize /\ HoldsEachOnce' /\ HeapOrdered'
    BY <2>1, <2>2, <2>3, HeldUnchanged
  <2> QED
    BY <1>1, <2>1, <2>2, <2>4 DEF IInv, TypeOK
<1>4. ASSUME NEW t \in Timers, NEW new \in Timers, AdjustTimer(t, new) PROVE IInv'
  <2>1. PICK time \in Times :
            Insert(new, [With(new, [expire |-> time, live |-> timer[t].live])
                           EXCEPT ![t].live = FALSE])
    BY <1>4 DEF AdjustTimer
  <2> DEFINE w == With(new, [expire |-> time, live |-> timer[t].live])
             objects == [w EXCEPT ![t].live = FALSE]
  <2>2. new \in Timers \ Allocated /\ t \in Allocated /\ cur' = cur /\ called' = called
    BY <1>4 DEF AdjustTimer
  <2>3. w \in [Allocated \cup {new} -> [expire : Times, live : BOOLEAN]]
    BY <1>1, <2>2 DEF With
  <2>4. \A u \in Allocated : w[u].expire = timer[u].expire
    BY <2>2 DEF With
  <2>5. /\ objects \in [Allocated \cup {new} -> [expire : Times, live : BOOLEAN]]
        /\ \A u \in Allocated : objects[u].expire = timer[u].expire
    <3> HIDE DEF w
    <3> QED
      BY <2>2, <2>3, <2>4
  <2>6. timer' = objects
    BY <2>1 DEF Insert
  <2> HIDE DEF objects
  <2>7. curSize' \in Nat /\ capacity' \in Nat \ {0} /\ HoldsEachOnce' /\ HeapOrdered'
    BY <2>1, <2>2, <2>5, InsertHolds DEF objects
  <2>8. TypeOK'
    BY <1>1, <2>2, <2>5, <2>6, <2>7 DEF TypeOK
  <2> QED
    BY <2>7, <2>8 DEF IInv
<1>5. CASE TickStarts
  <2>1. UNCHANGED <<array, capacity>> /\ timer' = timer /\ called' = called /\ cur' \in Times
    BY <1>5 DEF TickStarts
  <2>2. curSize' = curSize /\ HoldsEachOnce' /\ HeapOrdered'
    BY <2>1, HeldUnchanged
  <2> QED
    BY <1>1, <2>1, <2>2 DEF IInv, TypeOK
<1>6. CASE TickOne
  <2>1. Pop /\ UNCHANGED capacity /\ cur' = cur /\ curSize > 0
        /\ called' = IF timer[array[0]].live THEN {array[0]} ELSE {}
    BY <1>6 DEF TickOne
  <2>2. curSize' \in Nat /\ HoldsEachOnce' /\ HeapOrdered' /\ array[0] \in Allocated
    BY <2>1, PopHolds
  <2>3. timer' = [t \in Allocated \ {array[0]} |-> timer[t]]
    BY <2>1 DEF Pop
  <2> QED
    BY <1>1, <2>1, <2>2, <2>3 DEF IInv, TypeOK
<1>7. CASE TickEnds
  <2>1. UNCHANGED <<array, capacity>> /\ timer' = timer /\ cur' = Idle /\ called' = {}
    BY <1>7 DEF TickEnds
  <2>2. curSize' = curSize /\ HoldsEachOnce' /\ HeapOrdered'
    BY <2>1, HeldUnchanged
  <2> QED
    BY <1>1, <2>1, <2>2 DEF IInv, TypeOK
<1>8. CASE UNCHANGED vars
  <2>1. UNCHANGED <<array, capacity>> /\ timer' = timer /\ cur' = cur /\ called' = called
    BY <1>8 DEF vars
  <2>2. curSize' = curSize /\ HoldsEachOnce' /\ HeapOrdered'
    BY <2>1, HeldUnchanged
  <2> QED
    BY <1>1, <2>1, <2>2 DEF IInv, TypeOK
<1> QED
  BY <1>2, <1>3, <1>4, <1>5, <1>6, <1>7, <1>8 DEF Next

LEMMA HeapInvariant == Spec => []IInv
BY HeapStarts, HeapKept, PTL DEF Spec

-----------------------------------------------------------------------------
(* The array holds exactly the objects that exist, each once, and fits the  *)
(* allocation: add_timer's percolation and resize, and pop_timer's, neither *)
(* lose nor repeat a util_timer, for any number of them.                    *)
THEOREM HeapHoldsEachOnce == Spec => []HoldsEachOnce
<1>1. IInv => HoldsEachOnce
  BY DEF IInv
<1> QED
  BY <1>1, HeapInvariant, PTL

(* No timer runs out before its parent, whatever has been added, cleared    *)
(* and popped, and although the clock may be set back.                      *)
THEOREM HeapIsOrdered == Spec => []HeapOrdered
<1>1. IInv => HeapOrdered
  BY DEF IInv
<1> QED
  BY <1>1, HeapInvariant, PTL

LEMMA QueueStarts == Init => Queue!Init
BY DEF Init, Queue!Init

LEMMA QueueStep == IInv /\ [Next]_vars => [Queue!Next]_Queue!vars
<1> SUFFICES ASSUME IInv, [Next]_vars PROVE [Queue!Next]_Queue!vars
  OBVIOUS
<1> USE DEF Allocated
<1>1. ASSUME NEW t \in Timers, AddTimer(t) PROVE Queue!Add(t)
  <2>1. PICK time \in Times : Insert(t, With(t, [expire |-> time, live |-> TRUE]))
    BY <1>1 DEF AddTimer
  <2>2. [expire |-> time, live |-> TRUE] \in Queue!Entries
    BY DEF Queue!Entries
  <2>3. timer' = Queue!Added(t, [expire |-> time, live |-> TRUE])
    BY <2>1 DEF Insert, With, Queue!Added
  <2> QED
    BY <1>1, <2>2, <2>3 DEF AddTimer, Queue!Add
<1>2. ASSUME NEW t \in Timers, DelTimer(t) PROVE Queue!Cancel(t)
  BY <1>2 DEF DelTimer, Queue!Cancel
<1>3. ASSUME NEW t \in Timers, NEW new \in Timers, AdjustTimer(t, new)
      PROVE  Queue!Renew(t, new)
  <2>1. PICK time \in Times :
            Insert(new, [With(new, [expire |-> time, live |-> timer[t].live])
                           EXCEPT ![t].live = FALSE])
    BY <1>3 DEF AdjustTimer
  <2>2. timer' = [Queue!Added(new, [expire |-> time, live |-> timer[t].live])
                    EXCEPT ![t].live = FALSE]
    BY <2>1 DEF Insert, With, Queue!Added
  <2> QED
    BY <1>3, <2>2 DEF AdjustTimer, Queue!Renew
<1>4. CASE TickStarts
  BY <1>4 DEF TickStarts, Queue!StartTick, Queue!Next
<1>5. CASE TickOne
  <2>1. /\ cur # Idle /\ curSize > 0 /\ timer[array[0]].expire <= cur /\ cur' = cur
        /\ called' = IF timer[array[0]].live THEN {array[0]} ELSE {}
        /\ timer' = [t \in Allocated \ {array[0]} |-> timer[t]]
    BY <1>5 DEF TickOne, Pop
  <2>2. array[0] \in Allocated /\ array[0] \in Timers
    <3>1. 0 \in 0 .. curSize - 1
      BY <2>1, Held
    <3> QED
      BY <3>1, Held DEF IInv, TypeOK
  <2>3. \A u \in Allocated : timer[array[0]].expire <= timer[u].expire
    BY <2>1, RootIsLeast
  <2>4. Queue!TakeFirst(array[0])
    BY <2>1, <2>2, <2>3 DEF Queue!TakeFirst, Queue!RunOut, Queue!Without
  <2> QED
    BY <2>2, <2>4 DEF Queue!Next
<1>6. CASE TickEnds
  <2>1. /\ cur # Idle /\ cur' = Idle /\ called' = {} /\ timer' = timer
        /\ curSize > 0 => timer[array[0]].expire > cur
    BY <1>6 DEF TickEnds
  <2>2. ASSUME NEW t \in Allocated PROVE ~(timer[t].expire <= cur)
    <3>1. PICK i \in 0 .. curSize - 1 : array[i] = t
      BY Held DEF Image
    <3>2. curSize > 0
      BY Held
    <3>3. array[0] \in Allocated /\ timer[array[0]].expire <= timer[t].expire
      BY <3>2, RootIsLeast
    <3>4. timer[array[0]].expire \in Int /\ timer[t].expire \in Int /\ cur \in Int
      BY <2>1, <3>3, Held, HeapAssumption DEF IInv, TypeOK
    <3> QED
      BY <2>1, <3>2, <3>3, <3>4
  <2>3. Queue!EndTick
    BY <2>1, <2>2 DEF Queue!EndTick, Queue!RunOut
  <2> QED
    BY <2>3 DEF Queue!Next
<1>7. CASE UNCHANGED vars
  BY <1>7 DEF vars, Queue!vars
<1> QED
  BY <1>1, <1>2, <1>3, <1>4, <1>5, <1>6, <1>7 DEF Next, Queue!Next

(* The heap is a queue: tick takes the timers that have run out, earliest   *)
(* first and each once, calls back those that del_timer and adjust_timer    *)
(* have not cleared, and leaves none that has run out.                      *)
THEOREM HeapImplementsQueue == Spec => ImplementsQueue
BY QueueStarts, QueueStep, HeapInvariant, PTL DEF Spec, ImplementsQueue, Queue!Spec
=============================================================================
