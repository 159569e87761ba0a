----------------------- MODULE SessionLifecycleProofs -----------------------
(***************************************************************************)
(* Proofs about SessionLifecycle for any number of sessions and threads:   *)
(* one operation per OVERLAPPED, the registry, the accept loop, that no    *)
(* workers wait for one another's locks, and that the calls implement the  *)
(* life of sessions that SessionLife tells.                                *)
(***************************************************************************)
EXTENDS SessionLifecycle, SequenceTheorems, TLAPS

\* Thread t goes on with the calls of new in the place of its innermost one.
Turn(t, new) ==
    stack' = [stack EXCEPT ![t] = new \o IF stack[t] = <<>> THEN <<>> ELSE Tail(stack[t])]

\* The innermost call of t and the one below it.
Top(t) == IF stack[t] = <<>> THEN Ground ELSE Head(stack[t])
Base(t) == IF stack[t] = <<>> THEN Ground ELSE Below(t, 1)

\* One of the calls of new has a right to s.
Has(new, k, s) == \E i \in DOMAIN new : Holds(new[i], k) /\ new[i].s = s

-----------------------------------------------------------------------------
(* How a stack changes *)

\* The calls of a thread, the innermost first.
LEMMA Calling ==
    ASSUME LifeTypeOK, NEW t \in Threads
    PROVE  /\ stack[t] \in Seq(Frames) /\ Len(stack[t]) \in Nat
           /\ DOMAIN stack[t] = 1..Len(stack[t])
           /\ stack[t] # <<>> =>
                /\ 1 \in DOMAIN stack[t] /\ Head(stack[t]) = stack[t][1]
                /\ Head(stack[t]) \in Frames
                /\ Tail(stack[t]) \in Seq(Frames) /\ Len(Tail(stack[t])) = Len(stack[t]) - 1
                /\ \A i \in 1..(Len(stack[t]) - 1) : Tail(stack[t])[i] = stack[t][i + 1]
<1>1. stack[t] \in Seq(Frames)
  BY DEF LifeTypeOK
<1>2. Len(stack[t]) \in Nat /\ DOMAIN stack[t] = 1..Len(stack[t])
  BY <1>1
<1>3. CASE stack[t] # <<>>
  <2>1. Len(stack[t]) # 0
    BY <1>1, <1>3
  <2> QED
    BY <1>1, <1>2, <2>1
<1> QED
  BY <1>1, <1>2, <1>3

\* After a turn a thread has the calls of new, then those it had below the innermost one.
LEMMA Turned ==
    ASSUME LifeTypeOK, NEW t \in Threads, NEW new \in Seq(Frames), Turn(t, new)
    PROVE  /\ stack' \in [Threads -> Seq(Frames)]
           /\ \A u \in Threads \ {t} : stack'[u] = stack[u]
           /\ DOMAIN new = 1..Len(new) /\ Len(new) \in Nat
           /\ \A i \in DOMAIN new : i \in DOMAIN stack'[t] /\ stack'[t][i] = new[i]
           /\ \A i \in DOMAIN stack'[t] \ DOMAIN new :
                /\ i \in Nat /\ (i - Len(new)) + 1 \in DOMAIN stack[t] \ {1}
                /\ stack'[t][i] = stack[t][(i - Len(new)) + 1]
           /\ \A j \in DOMAIN stack[t] \ {1} :
                /\ j \in Nat /\ (j - 1) + Len(new) \in DOMAIN stack'[t] \ DOMAIN new
                /\ stack'[t][(j - 1) + Len(new)] = stack[t][j]
           /\ Len(stack'[t]) = Len(new) + (IF stack[t] = <<>> THEN 0 ELSE Len(stack[t]) - 1)
           /\ DOMAIN stack'[t] = 1..Len(stack'[t])
<1> DEFINE rest == IF stack[t] = <<>> THEN <<>> ELSE Tail(stack[t])
           n == Len(new)
           m == IF stack[t] = <<>> THEN 0 ELSE Len(stack[t]) - 1
<1>1. /\ rest \in Seq(Frames) /\ Len(rest) = m /\ m \in Nat
      /\ \A i \in 1..m : rest[i] = stack[t][i + 1]
      /\ DOMAIN stack[t] \ {1} = 2..(m + 1)
  <2>1. CASE stack[t] = <<>>
    BY <2>1
  <2>2. CASE stack[t] # <<>>
    <3>1. Len(stack[t]) # 0
      BY <2>2, Calling
    <3>2. m = Len(stack[t]) - 1 /\ m \in Nat /\ Len(stack[t]) = m + 1
      BY <2>2, <3>1, Calling
    <3>3. rest = Tail(stack[t])
      BY <2>2
    <3> HIDE DEF m, rest
    <3>4. DOMAIN stack[t] \ {1} = 2..(m + 1)
      BY <3>2, Calling
    <3> QED
      BY <2>2, <3>2, <3>3, <3>4, Calling
  <2> QED
    BY <2>1, <2>2
<1>2. stack' = [stack EXCEPT ![t] = new \o rest] /\ stack \in [Threads -> Seq(Frames)]
  BY DEF Turn, LifeTypeOK
<1>3. stack'[t] = new \o rest
  BY <1>2
<1>4. n \in Nat /\ DOMAIN new = 1..n
  OBVIOUS
<1> HIDE DEF rest, m
<1>5. /\ new \o rest \in Seq(Frames) /\ Len(new \o rest) = n + m
      /\ \A i \in 1..n : (new \o rest)[i] = new[i]
      /\ \A i \in (n + 1)..(n + m) : (new \o rest)[i] = rest[i - n]
  <2>1. new \o rest \in Seq(Frames) /\ Len(new \o rest) = n + m
    BY <1>1, ConcatProperties
  <2>2. \A i \in 1..(n + m) :
            (new \o rest)[i] = IF i <= n THEN new[i] ELSE rest[i - n]
    BY <1>1, ConcatProperties
  <2> HIDE DEF n
  <2>3. (1..n) \cup ((n + 1)..(n + m)) \subseteq 1..(n + m)
    BY <1>1, <1>4
  <2>4. \A i \in 1..n : i <= n
    BY <1>4
  <2>5. \A i \in (n + 1)..(n + m) : ~(i <= n)
    BY <1>1, <1>4
  <2> QED
    BY <2>1, <2>2, <2>3, <2>4, <2>5
<1>6. DOMAIN (new \o rest) = 1..(n + m)
  BY <1>5
<1> HIDE DEF n
<1>7. \A i \in (1..(n + m)) \ (1..n) :
        /\ i \in Nat /\ i \in (n + 1)..(n + m) /\ i - n \in 1..m
        /\ (i - n) + 1 \in 2..(m + 1)
  BY <1>1, <1>4
<1>8. \A j \in 2..(m + 1) :
        /\ j \in Nat /\ (j - 1) + n \in (1..(n + m)) \ (1..n)
        /\ (j - 1) + n \in (n + 1)..(n + m) /\ ((j - 1) + n) - n = j - 1
        /\ j - 1 \in 1..m /\ (j - 1) + 1 = j
  BY <1>1, <1>4
<1>9. stack' \in [Threads -> Seq(Frames)] /\ \A u \in Threads \ {t} : stack'[u] = stack[u]
  BY <1>2, <1>5
<1>10. \A i \in DOMAIN stack'[t] \ DOMAIN new :
          /\ i \in Nat /\ (i - n) + 1 \in DOMAIN stack[t] \ {1}
          /\ stack'[t][i] = stack[t][(i - n) + 1]
  BY <1>1, <1>3, <1>4, <1>5, <1>6, <1>7
<1>11. \A j \in DOMAIN stack[t] \ {1} :
          /\ j \in Nat /\ (j - 1) + n \in DOMAIN stack'[t] \ DOMAIN new
          /\ stack'[t][(j - 1) + n] = stack[t][j]
  BY <1>1, <1>3, <1>4, <1>5, <1>6, <1>8
<1>12. /\ \A i \in DOMAIN new : i \in DOMAIN stack'[t] /\ stack'[t][i] = new[i]
       /\ DOMAIN stack'[t] = 1..Len(stack'[t]) /\ Len(stack'[t]) = n + m
  BY <1>1, <1>3, <1>4, <1>5, <1>6
<1> QED
  BY <1>4, <1>9, <1>10, <1>11, <1>12 DEF n, m

-----------------------------------------------------------------------------
(* How the rights of the calls change *)

\* No thread has a right without a call.
LEMMA NoCallNoRight ==
    \A k \in Rights : ~Holds(Ground, k)
BY DEF Rights, Holds, Ground, Frame

\* The innermost call of a thread is the first of its stack.
LEMMA TopHolds ==
    ASSUME LifeTypeOK, NEW t \in Threads, NEW k \in Rights, Holds(Top(t), k)
    PROVE  1 \in DOMAIN stack[t] /\ Top(t) = stack[t][1]
BY Calling, NoCallNoRight DEF Top

\* Where a call of the new stacks comes from, and where one of the old stacks goes.
LEMMA Places1 ==
    ASSUME LifeTypeOK, NEW t \in Threads, NEW new \in Seq(Frames), Turn(t, new),
           NEW u \in Threads
    PROVE  /\ \A i \in DOMAIN stack'[u] :
                \/ u = t /\ i \in DOMAIN new /\ stack'[u][i] = new[i]
                \/ \E j \in DOMAIN stack[u] :
                    /\ stack'[u][i] = stack[u][j]
                    /\ IF u = t THEN j # 1 /\ i = (j - 1) + Len(new) ELSE i = j
           /\ \A j \in DOMAIN stack[u] : u # t \/ j # 1 =>
                \E i \in DOMAIN stack'[u] : stack'[u][i] = stack[u][j]
<1>1. CASE u # t
  BY <1>1, Turned
<1>2. CASE u = t
  <2>1. ASSUME NEW i \in DOMAIN stack'[t], i \notin DOMAIN new
        PROVE  \E j \in DOMAIN stack[t] :
                    stack'[t][i] = stack[t][j] /\ j # 1 /\ i = (j - 1) + Len(new)
    <3> DEFINE j == (i - Len(new)) + 1
    <3>1. /\ i \in Nat /\ Len(new) \in Nat /\ j \in DOMAIN stack[t] \ {1}
          /\ stack'[t][i] = stack[t][j]
      BY <2>1, Turned
    <3>2. i = (j - 1) + Len(new)
      BY <3>1
    <3> HIDE DEF j
    <3> QED
      BY <3>1, <3>2
  <2>2. \A j \in DOMAIN stack[t] \ {1} : \E i \in DOMAIN stack'[t] : stack'[t][i] = stack[t][j]
    <3> SUFFICES ASSUME NEW j \in DOMAIN stack[t] \ {1}
                 PROVE  \E i \in DOMAIN stack'[t] : stack'[t][i] = stack[t][j]
      OBVIOUS
    <3>1. /\ (j - 1) + Len(new) \in DOMAIN stack'[t]
          /\ stack'[t][(j - 1) + Len(new)] = stack[t][j]
      BY Turned
    <3> QED
      BY <3>1
  <2>3. \A i \in DOMAIN new : stack'[t][i] = new[i]
    BY Turned
  <2> QED
    BY <1>2, <2>1, <2>2, <2>3
<1> QED
  BY <1>1, <1>2

\* A turn in which no right is taken that another call has: rights are held by one call
\* still, those of the innermost call and those of the new ones change hands.
LEMMA RightsMove ==
    ASSUME LifeTypeOK, Sole, NEW t \in Threads, NEW new \in Seq(Frames), Turn(t, new),
           NEW top, top = Top(t),
           \A k \in Rights : \A i, j \in DOMAIN new :
                Holds(new[i], k) /\ Holds(new[j], k) /\ new[i].s = new[j].s => i = j,
           \A k \in Rights : \A i \in DOMAIN new :
                Holds(new[i], k) => \/ Holds(top, k) /\ top.s = new[i].s
                                    \/ ~Held(k, new[i].s)
    PROVE  /\ Sole'
           /\ \A k \in Rights : \A s :
                Held(k, s)' <=> \/ Has(new, k, s)
                                \/ Held(k, s) /\ ~(Holds(top, k) /\ top.s = s)
<1>1. ASSUME NEW k \in Rights, NEW i \in DOMAIN new, Holds(new[i], k),
             NEW v \in Threads, NEW j \in DOMAIN stack[v], v # t \/ j # 1,
             Holds(stack[v][j], k), stack[v][j].s = new[i].s
      PROVE  FALSE
  <2>1. CASE Holds(top, k) /\ top.s = new[i].s
    <3>1. 1 \in DOMAIN stack[t] /\ top = stack[t][1]
      BY <2>1, TopHolds
    <3> QED
      BY <1>1, <2>1, <3>1 DEF Sole
  <2>2. CASE ~Held(k, new[i].s)
    BY <1>1, <2>2 DEF Held, Sits
  <2> QED
    BY <1>1, <2>1, <2>2
<1>2. Sole'
  <2> SUFFICES ASSUME NEW k \in Rights, NEW u \in Threads, NEW v \in Threads,
                      NEW i \in DOMAIN stack'[u], NEW j \in DOMAIN stack'[v],
                      Holds(stack'[u][i], k), Holds(stack'[v][j], k),
                      stack'[u][i].s = stack'[v][j].s
               PROVE  u = v /\ i = j
    BY DEF Sole, Holds
  <2>1. \/ u = t /\ i \in DOMAIN new /\ stack'[u][i] = new[i]
        \/ \E a \in DOMAIN stack[u] :
            /\ stack'[u][i] = stack[u][a]
            /\ IF u = t THEN a # 1 /\ i = (a - 1) + Len(new) ELSE i = a
    BY Places1
  <2>2. \/ v = t /\ j \in DOMAIN new /\ stack'[v][j] = new[j]
        \/ \E b \in DOMAIN stack[v] :
            /\ stack'[v][j] = stack[v][b]
            /\ IF v = t THEN b # 1 /\ j = (b - 1) + Len(new) ELSE j = b
    BY Places1
  <2>3. CASE /\ u = t /\ i \in DOMAIN new /\ stack'[u][i] = new[i]
             /\ v = t /\ j \in DOMAIN new /\ stack'[v][j] = new[j]
    BY <2>3
  <2>4. ASSUME u = t, i \in DOMAIN new, stack'[u][i] = new[i],
               NEW b \in DOMAIN stack[v], stack'[v][j] = stack[v][b],
               IF v = t THEN b # 1 /\ j = (b - 1) + Len(new) ELSE j = b
        PROVE  FALSE
    BY <1>1, <2>4
  <2>5. ASSUME v = t, j \in DOMAIN new, stack'[v][j] = new[j],
               NEW a \in DOMAIN stack[u], stack'[u][i] = stack[u][a],
               IF u = t THEN a # 1 /\ i = (a - 1) + Len(new) ELSE i = a
        PROVE  FALSE
    BY <1>1, <2>5
  <2>6. ASSUME NEW a \in DOMAIN stack[u], stack'[u][i] = stack[u][a],
               IF u = t THEN a # 1 /\ i = (a - 1) + Len(new) ELSE i = a,
               NEW b \in DOMAIN stack[v], stack'[v][j] = stack[v][b],
               IF v = t THEN b # 1 /\ j = (b - 1) + Len(new) ELSE j = b
        PROVE  u = v /\ i = j
    <3>1. u = v /\ a = b
      BY <2>6 DEF Sole
    <3> QED
      BY <2>6, <3>1
  <2> QED
    BY <2>1, <2>2, <2>3, <2>4, <2>5, <2>6
<1>3. ASSUME NEW k \in Rights, NEW s, Held(k, s)'
      PROVE  Has(new, k, s) \/ (Held(k, s) /\ ~(Holds(top, k) /\ top.s = s))
  <2>0. PICK u \in Threads : Sits(u, k, s)'
    BY <1>3 DEF Held, Threads
  <2>1. PICK i \in DOMAIN stack'[u] : Holds(stack'[u][i], k) /\ stack'[u][i].s = s
    BY <2>0 DEF Sits, Holds
  <2>2. CASE u = t /\ i \in DOMAIN new /\ stack'[u][i] = new[i]
    BY <2>1, <2>2 DEF Has
  <2>3. ASSUME NEW a \in DOMAIN stack[u], stack'[u][i] = stack[u][a], u # t \/ a # 1
        PROVE  Held(k, s) /\ ~(Holds(top, k) /\ top.s = s)
    <3>1. Held(k, s)
      BY <2>1, <2>3 DEF Held, Sits
    <3>2. ASSUME Holds(top, k), top.s = s
          PROVE  FALSE
      <4>1. 1 \in DOMAIN stack[t] /\ top = stack[t][1]
        BY <3>2, TopHolds
      <4> QED
        BY <2>1, <2>3, <3>2, <4>1 DEF Sole
    <3> QED
      BY <3>1, <3>2
  <2> QED
    BY <2>2, <2>3, Places1
<1>4. ASSUME NEW k \in Rights, NEW s, Has(new, k, s)
      PROVE  Held(k, s)'
  <2>1. PICK i \in DOMAIN new : Holds(new[i], k) /\ new[i].s = s
    BY <1>4 DEF Has
  <2>2. i \in DOMAIN stack'[t] /\ stack'[t][i] = new[i]
    BY Turned
  <2>3. Holds(stack'[t][i], k) /\ stack'[t][i].s = s
    BY <2>1, <2>2
  <2> QED
    BY <2>2, <2>3 DEF Held, Sits, Holds, Threads
<1>5. ASSUME NEW k \in Rights, NEW s, Held(k, s), ~(Holds(top, k) /\ top.s = s)
      PROVE  Held(k, s)'
  <2>0. PICK u \in Threads : Sits(u, k, s)
    BY <1>5 DEF Held
  <2>1. PICK j \in DOMAIN stack[u] : Holds(stack[u][j], k) /\ stack[u][j].s = s
    BY <2>0 DEF Sits
  <2>2. u # t \/ j # 1
    <3>1. ASSUME u = t, j = 1
          PROVE  FALSE
      <4>1. top = stack[t][1]
        <5>1. stack[t] # <<>>
          BY <2>1, <3>1
        <5> QED
          BY <5>1, Calling DEF Top
      <4> QED
        BY <1>5, <2>1, <3>1, <4>1
    <3> QED
      BY <3>1
  <2>3. PICK i \in DOMAIN stack'[u] : stack'[u][i] = stack[u][j]
    BY <2>2, Places1
  <2>4. Holds(stack'[u][i], k) /\ stack'[u][i].s = s
    BY <2>1, <2>3
  <2> QED
    BY <2>4 DEF Held, Sits, Holds, Threads
<1> QED
  BY <1>2, <1>3, <1>4, <1>5

\* What is merely used comes from the new calls or was used before.
LEMMA UsesMove ==
    ASSUME LifeTypeOK, NEW t \in Threads, NEW new \in Seq(Frames), Turn(t, new),
           NEW k, NEW s
    PROVE  /\ Held(k, s)' => Has(new, k, s) \/ Held(k, s)
           /\ Sits(t, k, s)' => Has(new, k, s) \/ Sits(t, k, s)
           /\ Sits(t, k, s) /\ ~(Holds(Top(t), k) /\ Top(t).s = s) => Sits(t, k, s)'
           /\ \A u \in Threads \ {t} : (Sits(u, k, s)' <=> Sits(u, k, s))
<1>1. ASSUME NEW u \in Threads, Sits(u, k, s)'
      PROVE  (u = t /\ Has(new, k, s)) \/ Sits(u, k, s)
  <2>1. PICK i \in DOMAIN stack'[u] : Holds(stack'[u][i], k) /\ stack'[u][i].s = s
    BY <1>1 DEF Sits, Holds
  <2> QED
    BY <2>1, Places1 DEF Has, Sits
<1>2. ASSUME NEW u \in Threads, Sits(u, k, s), u # t \/ ~(Holds(Top(t), k) /\ Top(t).s = s)
      PROVE  Sits(u, k, s)'
  <2>1. PICK j \in DOMAIN stack[u] : Holds(stack[u][j], k) /\ stack[u][j].s = s
    BY <1>2 DEF Sits
  <2>2. u # t \/ j # 1
    <3>1. ASSUME u = t, j = 1
          PROVE  FALSE
      <4>1. Top(t) = stack[t][1]
        <5>1. stack[t] # <<>>
          BY <2>1, <3>1
        <5> QED
          BY <5>1, Calling DEF Top
      <4> QED
        BY <1>2, <2>1, <3>1, <4>1
    <3> QED
      BY <3>1
  <2>3. PICK i \in DOMAIN stack'[u] : stack'[u][i] = stack[u][j]
    BY <2>2, Places1
  <2>4. Holds(stack'[u][i], k) /\ stack'[u][i].s = s
    BY <2>1, <2>3
  <2> QED
    BY <2>4 DEF Sits, Holds
<1>3. Held(k, s)' => Has(new, k, s) \/ Held(k, s)
  <2> SUFFICES ASSUME Held(k, s)' PROVE Has(new, k, s) \/ Held(k, s)
    OBVIOUS
  <2>1. PICK u \in Threads : Sits(u, k, s)'
    BY DEF Held, Threads
  <2> QED
    BY <1>1, <2>1 DEF Held
<1> QED
  BY <1>1, <1>2, <1>3

-----------------------------------------------------------------------------
(* Which calls are made from which *)

\* The calls of the accept loop, of the Room and of Broadcast have no session of theirs.
Named(f) == (f.s = NoSession) <=> (f.call \in {"RegisterAccept", "Execute", "Broadcast"})

\* A stack keeps its shape when each new call may be made from the one below it.
LEMMA ShapeMove ==
    ASSUME LifeTypeOK, Shape, NEW t \in Threads, NEW new \in Seq(Frames), Turn(t, new),
           \A i \in DOMAIN new :
                /\ Rests(new[i], IF i < Len(new) THEN new[i + 1] ELSE Base(t))
                /\ Named(new[i])
    PROVE  Shape'
<1> DEFINE n == Len(new)
           L == Len(stack[t])
<1>1. /\ n \in Nat /\ L \in Nat /\ DOMAIN new = 1..n /\ DOMAIN stack[t] = 1..L
      /\ DOMAIN stack'[t] = 1..Len(stack'[t])
      /\ Len(stack'[t]) = n + (IF stack[t] = <<>> THEN 0 ELSE L - 1)
      /\ stack[t] = <<>> => L = 0
      /\ stack[t] # <<>> => L # 0
  BY Turned, Calling
<1>2. \A u \in Threads : \A i \in DOMAIN stack[u] :
        Rests(stack[u][i], Below(u, i)) /\ Named(stack[u][i])
  BY DEF Shape, Named
<1>3. ASSUME NEW u \in Threads, NEW i \in DOMAIN stack'[u], u # t
      PROVE  Rests(stack'[u][i], Below(u, i)') /\ Named(stack'[u][i])
  <2>1. stack'[u] = stack[u]
    BY <1>3, Turned
  <2>2. Below(u, i)' = Below(u, i)
    BY <2>1 DEF Below
  <2> QED
    BY <1>2, <1>3, <2>1, <2>2
<1>4. ASSUME NEW i \in DOMAIN new
      PROVE  Rests(stack'[t][i], Below(t, i)') /\ Named(stack'[t][i])
  <2>1. stack'[t][i] = new[i] /\ i \in 1..n
    BY <1>1, Turned
  <2>2. CASE i < n
    <3>1. i + 1 \in 1..n /\ i < Len(stack'[t])
      BY <1>1, <2>1, <2>2
    <3>2. stack'[t][i + 1] = new[i + 1]
      BY <1>1, <3>1, Turned
    <3>3. Below(t, i)' = new[i + 1]
      BY <3>1, <3>2 DEF Below
    <3> QED
      BY <2>1, <2>2, <3>3
  <2>3. CASE i = n /\ stack[t] = <<>>
    <3>1. ~(i < Len(stack'[t])) /\ ~(i < n)
      BY <1>1, <2>1, <2>3
    <3>2. Below(t, i)' = Ground /\ Base(t) = Ground
      BY <2>3, <3>1 DEF Below, Base, Ground, Frame
    <3> QED
      BY <2>1, <3>1, <3>2
  <2>4. CASE i = n /\ stack[t] # <<>>
    <3>1. ~(i < n) /\ Base(t) = Below(t, 1)
      BY <1>1, <2>1, <2>4 DEF Base
    <3>2. CASE L = 1
      <4>1. ~(i < Len(stack'[t])) /\ ~(1 < L)
        BY <1>1, <2>4, <3>2
      <4>2. Below(t, i)' = Ground /\ Below(t, 1) = Ground
        BY <4>1 DEF Below, Ground, Frame
      <4> QED
        BY <2>1, <3>1, <4>2
    <3>3. CASE L # 1
      <4>0. L \in Nat /\ L # 0 /\ n \in Nat /\ DOMAIN stack[t] = 1..L
            /\ Len(stack'[t]) = n + (L - 1) /\ i = n
        BY <1>1, <2>4
      <4> HIDE DEF n, L
      <4>1. i < Len(stack'[t]) /\ 1 < L /\ 2 \in DOMAIN stack[t] \ {1} /\ (2 - 1) + n = i + 1
        BY <4>0, <3>3
      <4>2. stack'[t][i + 1] = stack[t][2]
        <5>1. PICK j \in DOMAIN stack[t] \ {1} : j = 2
          BY <4>1
        <5>2. (j - 1) + n = i + 1
          BY <4>0, <5>1
        <5>3. stack'[t][(j - 1) + n] = stack[t][j]
          BY Turned DEF n
        <5> QED
          BY <5>1, <5>2, <5>3
      <4> USE DEF n, L
      <4>3. Below(t, i)' = stack[t][2] /\ Below(t, 1) = stack[t][2]
        BY <4>1, <4>2 DEF Below
      <4> QED
        BY <2>1, <3>1, <4>3
    <3> QED
      BY <3>2, <3>3
  <2> QED
    BY <1>1, <2>1, <2>2, <2>3, <2>4
<1>5. ASSUME NEW i \in DOMAIN stack'[t], i \notin DOMAIN new
      PROVE  Rests(stack'[t][i], Below(t, i)') /\ Named(stack'[t][i])
  <2> DEFINE j == (i - n) + 1
  <2>1. /\ i \in Nat /\ j \in DOMAIN stack[t] \ {1} /\ stack'[t][i] = stack[t][j]
    BY <1>5, Turned
  <2>2. stack[t] # <<>> /\ Len(stack'[t]) = n + (L - 1)
    <3>1. stack[t] # <<>>
      BY <1>1, <2>1
    <3> QED
      BY <1>1, <3>1
  <2>3. i < Len(stack'[t]) <=> j < L
    BY <1>1, <2>1, <2>2
  <2>4. CASE j < L
    <3>1. j + 1 \in DOMAIN stack[t] \ {1} /\ ((j + 1) - 1) + n = i + 1
      BY <1>1, <2>1, <2>4
    <3>2. stack'[t][i + 1] = stack[t][j + 1]
      <4> HIDE DEF j
      <4> QED
        BY <3>1, Turned
    <3> HIDE DEF j
    <3>3. Below(t, i)' = Below(t, j)
      BY <2>3, <2>4, <3>2 DEF Below
    <3> QED
      BY <1>2, <2>1, <3>3
  <2>5. CASE ~(j < L)
    <3> HIDE DEF j
    <3>1. Below(t, i)' = Below(t, j)
      BY <2>3, <2>5 DEF Below, Ground, Frame
    <3> QED
      BY <1>2, <2>1, <3>1
  <2> QED
    BY <2>4, <2>5
<1> HIDE DEF n, L
<1>6. ASSUME NEW u \in Threads, NEW i \in DOMAIN stack'[u]
      PROVE  Rests(stack'[u][i], Below(u, i)') /\ Named(stack'[u][i])
  BY <1>3, <1>4, <1>5, <1>6
<1>7. \A u \in Threads : \A i \in DOMAIN stack'[u] :
        Rests(stack'[u][i], Below(u, i)') /\ Named(stack'[u][i])
  BY <1>6
<1> QED
  BY <1>7 DEF Shape, Rests, Named, Threads
-----------------------------------------------------------------------------
(* The steps of a stack are turns *)

\* The innermost call of a thread that is at some place.
LEMMA AtTop ==
    ASSUME LifeTypeOK, Shape, NEW t \in Threads, NEW call, NEW at, At(t, call, at)
    PROVE  /\ stack[t] # <<>> /\ stack[t] \in Seq(Frames) /\ Tail(stack[t]) \in Seq(Frames)
           /\ Top(t) = Head(stack[t]) /\ Top(t) = Frame(call, Of(t), at) /\ Top(t) \in Frames
           /\ 1 \in DOMAIN stack[t] /\ stack[t][1] = Top(t)
           /\ Rests(Top(t), Base(t)) /\ Named(Top(t))
<1>1. stack[t] # <<>> /\ Head(stack[t]).call = call /\ Head(stack[t]).at = at
  BY DEF At
<1>2. /\ Head(stack[t]) \in Frames /\ Head(stack[t]) = stack[t][1] /\ 1 \in DOMAIN stack[t]
      /\ Tail(stack[t]) \in Seq(Frames) /\ stack[t] \in Seq(Frames)
  BY <1>1, Calling
<1>3. Head(stack[t]) = Frame(call, Of(t), at)
  BY <1>1, <1>2 DEF Frame, Frames, Of
<1>4. Top(t) = Head(stack[t]) /\ Base(t) = Below(t, 1)
  BY <1>1 DEF Top, Base
<1>5. Rests(stack[t][1], Below(t, 1)) /\ Named(stack[t][1])
  BY <1>2 DEF Shape, Named
<1> QED
  BY <1>1, <1>2, <1>3, <1>4, <1>5

\* A sequence is its head before its tail.
LEMMA Refill ==
    ASSUME NEW q \in Seq(Frames), q # <<>>, NEW e, e = Head(q)
    PROVE  <<e>> \in Seq(Frames) /\ <<e>> \o Tail(q) = q
<1>1. e \in Frames /\ Tail(q) \in Seq(Frames) /\ Len(Tail(q)) = Len(q) - 1
      /\ Len(q) \in Nat \ {0} /\ e = q[1]
  BY EmptySeq
<1> DEFINE x == <<e>>
<1>2. x \in Seq(Frames) /\ Len(x) = 1 /\ x[1] = e
  BY <1>1
<1> HIDE DEF x
<1>3. x \o Tail(q) \in Seq(Frames) /\ Len(x \o Tail(q)) = Len(q)
  <2>1. x \o Tail(q) \in Seq(Frames) /\ Len(x \o Tail(q)) = Len(x) + Len(Tail(q))
    BY <1>1, <1>2, ConcatProperties
  <2>2. Len(x) + Len(Tail(q)) = Len(q)
    BY <1>1, <1>2
  <2> QED
    BY <2>1, <2>2
<1>4. \A i \in 1..Len(q) : (x \o Tail(q))[i] = IF i <= 1 THEN x[i] ELSE Tail(q)[i - 1]
  <2>1. \A i \in 1..Len(x) + Len(Tail(q)) :
            (x \o Tail(q))[i] = IF i <= Len(x) THEN x[i] ELSE Tail(q)[i - Len(x)]
    BY <1>1, <1>2, ConcatProperties
  <2>2. Len(x) + Len(Tail(q)) = Len(q)
    BY <1>1, <1>2
  <2> QED
    BY <1>2, <2>1, <2>2
<1>5. ASSUME NEW i \in 1..Len(q), ~(i <= 1)
      PROVE  Tail(q)[i - 1] = q[i]
  <2>1. i - 1 \in 1..Len(Tail(q)) /\ (i - 1) + 1 = i
    BY <1>1, <1>5
  <2>2. \A j \in 1..Len(Tail(q)) : Tail(q)[j] = q[j + 1]
    BY <1>1, HeadTailProperties
  <2> QED
    BY <2>1, <2>2
<1>6. \A i \in 1..Len(q) : i <= 1 => i = 1
  BY <1>1
<1>7. \A i \in 1..Len(q) : (x \o Tail(q))[i] = q[i]
  BY <1>1, <1>2, <1>4, <1>5, <1>6
<1>8. x \o Tail(q) = q
  BY <1>3, <1>7, SeqEqual
<1> QED
  BY <1>2, <1>8 DEF x

\* A call in the place of the innermost one.
LEMMA Replaced ==
    ASSUME LifeTypeOK, NEW t \in Threads, stack[t] # <<>>, NEW new \in Seq(Frames),
           stack' = [stack EXCEPT ![t] = new \o Tail(stack[t])]
    PROVE  Turn(t, new)
BY DEF Turn

\* Return, Goto, GotoAndCall and ReturnAndCall are turns.
LEMMA Returned ==
    ASSUME LifeTypeOK, Shape, NEW t \in Threads, NEW call, NEW at, At(t, call, at), Return(t)
    PROVE  Turn(t, <<>>)
<1>1. stack[t] # <<>> /\ Tail(stack[t]) \in Seq(Frames)
  BY AtTop
<1>2. <<>> \o Tail(stack[t]) = Tail(stack[t])
  BY <1>1, ConcatEmptySeq
<1>3. stack' = [stack EXCEPT ![t] = <<>> \o Tail(stack[t])]
  BY <1>2, Zenon DEF Return
<1> DEFINE new == <<>>
<1>4. new \in Seq(Frames) /\ stack' = [stack EXCEPT ![t] = new \o Tail(stack[t])]
  BY <1>3
<1> HIDE DEF new
<1>5. Turn(t, new)
  BY <1>1, <1>4, Replaced
<1> QED
  BY <1>5 DEF new

\* The same call at another place.
LEMMA Went ==
    ASSUME LifeTypeOK, Shape, NEW t \in Threads, NEW call, NEW at, At(t, call, at),
           NEW to \in Places, Goto(t, to)
    PROVE  /\ Frame(call, Of(t), to) \in Frames
           /\ Turn(t, <<Frame(call, Of(t), to)>>)
<1>1. stack[t] # <<>> /\ Head(stack[t]) = Frame(call, Of(t), at) /\ Head(stack[t]) \in Frames
  BY AtTop
<1>2. [Head(stack[t]) EXCEPT !.at = to] = Frame(call, Of(t), to)
  BY <1>1 DEF Frame
<1>3. Frame(call, Of(t), to) \in Frames
  BY <1>1 DEF Frame, Frames
<1> DEFINE new == <<Frame(call, Of(t), to)>>
<1>4. new \in Seq(Frames)
  BY <1>2, <1>3
<1>5. stack' = [stack EXCEPT ![t] = new \o Tail(stack[t])]
  BY <1>2, Zenon DEF Goto
<1> HIDE DEF new
<1>6. Turn(t, new)
  BY <1>1, <1>4, <1>5, Replaced
<1> QED
  BY <1>3, <1>6 DEF new

\* The same call at another place, and a call that it makes.
LEMMA WentAndCalled ==
    ASSUME LifeTypeOK, Shape, NEW t \in Threads, NEW call, NEW at, At(t, call, at),
           NEW to \in Places, NEW f \in Frames, GotoAndCall(t, to, f)
    PROVE  /\ Frame(call, Of(t), to) \in Frames
           /\ Turn(t, <<f, Frame(call, Of(t), to)>>)
<1>1. stack[t] # <<>> /\ Head(stack[t]) = Frame(call, Of(t), at) /\ Head(stack[t]) \in Frames
  BY AtTop
<1>2. [Head(stack[t]) EXCEPT !.at = to] = Frame(call, Of(t), to)
  BY <1>1 DEF Frame
<1>3. Frame(call, Of(t), to) \in Frames
  BY <1>1 DEF Frame, Frames
<1> DEFINE new == <<f, Frame(call, Of(t), to)>>
<1>4. new \in Seq(Frames)
  BY <1>2, <1>3
<1>5. stack' = [stack EXCEPT ![t] = new \o Tail(stack[t])]
  BY <1>2, Zenon DEF GotoAndCall
<1> HIDE DEF new
<1>6. Turn(t, new)
  BY <1>1, <1>4, <1>5, Replaced
<1> QED
  BY <1>3, <1>6 DEF new

\* A last call in the place of the innermost one.
LEMMA ReturnedAndCalled ==
    ASSUME LifeTypeOK, Shape, NEW t \in Threads, NEW call, NEW at, At(t, call, at),
           NEW f \in Frames, ReturnAndCall(t, f)
    PROVE  Turn(t, <<f>>)
<1>1. stack[t] # <<>>
  BY AtTop
<1> DEFINE new == <<f>>
<1>2. new \in Seq(Frames) /\ stack' = [stack EXCEPT ![t] = new \o Tail(stack[t])]
  BY DEF ReturnAndCall
<1> HIDE DEF new
<1>3. Turn(t, new)
  BY <1>1, <1>2, Replaced
<1> QED
  BY <1>3 DEF new

\* The first calls of an idle thread.
LEMMA Started ==
    ASSUME LifeTypeOK, NEW t \in Threads, stack[t] = <<>>, NEW new \in Seq(Frames),
           Start(t, new)
    PROVE  Turn(t, new) /\ Top(t) = Ground /\ Base(t) = Ground
<1>1. new \o <<>> = new
  BY ConcatEmptySeq
<1> QED
  BY <1>1 DEF Start, Turn, Top, Base

\* Two calls, one after the other.
LEMMA Pair ==
    ASSUME NEW e \in Frames, NEW r \in Frames
    PROVE  <<e>> \o <<r>> = <<e, r>>
<1> DEFINE x == <<e>>
           y == <<r>>
           z == <<e, r>>
<1>1. /\ x \in Seq(Frames) /\ Len(x) = 1 /\ x[1] = e
      /\ y \in Seq(Frames) /\ Len(y) = 1 /\ y[1] = r
      /\ z \in Seq(Frames) /\ Len(z) = 2 /\ z[1] = e /\ z[2] = r
  OBVIOUS
<1> HIDE DEF x, y, z
<1>2. x \o y \in Seq(Frames) /\ Len(x \o y) = 2
  BY <1>1, ConcatProperties
<1>3. \A i \in 1..2 : (x \o y)[i] = IF i <= 1 THEN x[i] ELSE y[i - 1]
  <2>1. \A i \in 1..Len(x) + Len(y) :
            (x \o y)[i] = IF i <= Len(x) THEN x[i] ELSE y[i - Len(x)]
    BY <1>1, ConcatProperties
  <2>2. Len(x) + Len(y) = 2
    BY <1>1
  <2> QED
    BY <1>1, <2>1, <2>2
<1>4. (x \o y)[1] = e /\ (x \o y)[2] = r
  <2>1. PICK w : w = x \o y
    OBVIOUS
  <2>2. \A i \in 1..2 : w[i] = IF i <= 1 THEN x[i] ELSE y[i - 1]
    BY <1>1, <1>3, <2>1, Zenon
  <2>3. w[1] = e /\ w[2] = r
    BY <1>1, <2>2
  <2> QED
    BY <2>1, <2>3
<1>5. x \o y = z
  BY <1>1, <1>2, <1>4, SeqEqual
<1> QED
  BY <1>5 DEF x, y, z

\* A call that posts to the Room executes it before it goes on, if nobody does.
LEMMA Posted ==
    ASSUME LifeTypeOK, Shape, NEW t \in Threads, NEW call, NEW at, At(t, call, at), NEW j,
           NEW new \in Seq(Frames), NEW rest, rest = new \o Tail(stack[t]), Post(t, j, rest)
    PROVE  /\ jobs' = Append(jobs, j)
           /\ Frame("Execute", NoSession, "loop") \in Frames
           /\ \/ /\ executor = NoThread /\ executor' = t
                 /\ Turn(t, <<Frame("Execute", NoSession, "loop")>> \o new)
              \/ executor # NoThread /\ executor' = executor /\ Turn(t, new)
<1> DEFINE e == Frame("Execute", NoSession, "loop")
<1>1. stack[t] # <<>> /\ Tail(stack[t]) \in Seq(Frames)
  BY AtTop
<1>2. e \in Frames
  BY DEF Frame, Frames, Calls, Places
<1> HIDE DEF e
<1> DEFINE one == <<e>>
<1>3. one \in Seq(Frames) /\ one \o new \in Seq(Frames)
  BY <1>2
<1>4. <<Frame("Execute", NoSession, "loop")>> = one
  BY DEF e
<1> HIDE DEF one
<1>5. (one \o new) \o Tail(stack[t]) = one \o (new \o Tail(stack[t]))
  <2>1. \A a, b, c \in Seq(Frames) : (a \o b) \o c = a \o (b \o c)
    BY ConcatAssociative
  <2> QED
    BY <1>1, <1>3, <2>1, Zenon
<1>6. CASE executor = NoThread
  <2>1. stack' = [stack EXCEPT ![t] = one \o rest] /\ executor' = t
    BY <1>4, <1>6, Zenon DEF Post, Start
  <2>2. Turn(t, one \o new)
    BY <1>1, <1>3, <1>5, <2>1, Replaced
  <2> QED
    BY <1>2, <1>4, <1>6, <2>1, <2>2, Zenon DEF Post, e
<1>7. CASE executor # NoThread
  <2>1. stack' = [stack EXCEPT ![t] = rest] /\ executor' = executor
    BY <1>7 DEF Post, Start
  <2>2. Turn(t, new)
    BY <1>1, <2>1, Replaced
  <2> QED
    BY <1>2, <1>7, <2>1, <2>2, Zenon DEF Post, e
<1> QED
  BY <1>6, <1>7
-----------------------------------------------------------------------------
(* What a turn does to the rights *)

\* A call of F has a right to s.
Some(F, k, s) == \E f \in F : Holds(f, k) /\ f.s = s

\* The calls of F have taken the place of the innermost one of t.
Moved(t, F) ==
    /\ stack' \in [Threads -> Seq(Frames)]
    /\ Sole' /\ Shape'
    /\ \A k \in Rights : \A s :
        Held(k, s)' <=> \/ Some(F, k, s)
                        \/ Held(k, s) /\ ~(Holds(Top(t), k) /\ Top(t).s = s)
    /\ \A k, s : Held(k, s)' => Some(F, k, s) \/ Held(k, s)
    /\ \A k, s : Sits(t, k, s)' => Some(F, k, s) \/ Sits(t, k, s)
    /\ \A k, s : Sits(t, k, s) /\ ~(Holds(Top(t), k) /\ Top(t).s = s) => Sits(t, k, s)'
    /\ \A k, s : Some(F, k, s) => Sits(t, k, s)'
    /\ \A u \in Threads \ {t} : \A k, s : Sits(u, k, s)' <=> Sits(u, k, s)
    /\ \A u \in Threads \ {t} : stack'[u] = stack[u]
    /\ At(t, "Send", "lock")' =>
            \E f \in F : f.call = "Send" /\ f.at = "lock" /\ Of(t)' = f.s

\* The calls of F may take the place of the innermost one of t without taking a right
\* that another call has.
MayGet(t, f) ==
    \A k \in Rights :
        Holds(f, k) => (Holds(Top(t), k) /\ Top(t).s = f.s) \/ ~Held(k, f.s)

\* Nothing is called from Send.
LEMMA SendIsLast ==
    ASSUME NEW f, NEW g, Rests(f, g)
    PROVE  g.call # "Send"
BY DEF Rests, Ground, Frame

\* A turn with rights that are free, whatever the number of its calls.
LEMMA Move ==
    ASSUME LifeTypeOK, Sole, Shape, NEW t \in Threads, NEW new \in Seq(Frames), Turn(t, new),
           \A i \in DOMAIN new :
                /\ Rests(new[i], IF i < Len(new) THEN new[i + 1] ELSE Base(t))
                /\ Named(new[i]) /\ MayGet(t, new[i]),
           \A k \in Rights : \A i, j \in DOMAIN new :
                Holds(new[i], k) /\ Holds(new[j], k) /\ new[i].s = new[j].s => i = j,
           NEW F, F = {new[i] : i \in DOMAIN new}
    PROVE  Moved(t, F)
<1>1. stack' \in [Threads -> Seq(Frames)] /\ \A u \in Threads \ {t} : stack'[u] = stack[u]
  BY Turned
<1>2. \A k, s : Has(new, k, s) <=> Some(F, k, s)
  BY DEF Has, Some
<1>3. Shape'
  BY ShapeMove
<1>4. /\ Sole'
      /\ \A k \in Rights : \A s :
            Held(k, s)' <=> \/ Has(new, k, s)
                            \/ Held(k, s) /\ ~(Holds(Top(t), k) /\ Top(t).s = s)
  <2>1. \A k \in Rights : \A i \in DOMAIN new :
            Holds(new[i], k) => \/ Holds(Top(t), k) /\ Top(t).s = new[i].s
                                \/ ~Held(k, new[i].s)
    BY DEF MayGet
  <2>2. PICK top : top = Top(t)
    OBVIOUS
  <2>3. /\ Sole'
        /\ \A k \in Rights : \A s :
              Held(k, s)' <=> \/ Has(new, k, s)
                              \/ Held(k, s) /\ ~(Holds(top, k) /\ top.s = s)
    BY <2>1, <2>2, RightsMove
  <2> QED
    BY <2>2, <2>3
<1>5. ASSUME NEW k, NEW s
      PROVE  /\ Held(k, s)' => Some(F, k, s) \/ Held(k, s)
             /\ Sits(t, k, s)' => Some(F, k, s) \/ Sits(t, k, s)
             /\ Sits(t, k, s) /\ ~(Holds(Top(t), k) /\ Top(t).s = s) => Sits(t, k, s)'
             /\ \A u \in Threads \ {t} : (Sits(u, k, s)' <=> Sits(u, k, s))
  BY <1>2, UsesMove
<1>6. ASSUME NEW k, NEW s, Some(F, k, s)
      PROVE  Sits(t, k, s)'
  <2>1. PICK i \in DOMAIN new : Holds(new[i], k) /\ new[i].s = s
    BY <1>6 DEF Some
  <2>2. i \in DOMAIN stack'[t] /\ stack'[t][i] = new[i]
    BY Turned
  <2>3. Holds(stack'[t][i], k) /\ stack'[t][i].s = s
    BY <2>1, <2>2
  <2> QED
    BY <2>2, <2>3 DEF Sits, Holds
<1>7. ASSUME At(t, "Send", "lock")'
      PROVE  \E f \in F : f.call = "Send" /\ f.at = "lock" /\ Of(t)' = f.s
  <2>1. /\ stack'[t] # <<>> /\ Head(stack'[t]).call = "Send" /\ Head(stack'[t]).at = "lock"
        /\ Of(t)' = Head(stack'[t]).s /\ stack'[t] \in Seq(Frames)
    BY <1>1, <1>7 DEF At, Of
  <2>2. 1 \in DOMAIN stack'[t] /\ Head(stack'[t]) = stack'[t][1]
    BY <2>1
  <2>3. CASE 1 \in DOMAIN new
    <3>1. stack'[t][1] = new[1]
      BY <2>3, Turned
    <3> QED
      BY <2>1, <2>2, <2>3, <3>1
  <2>4. CASE 1 \notin DOMAIN new
    <3>1. DOMAIN new = 1..Len(new) /\ Len(new) \in Nat
      BY Turned
    <3>2. Len(new) = 0
      BY <2>4, <3>1
    <3>3. (1 - Len(new)) + 1 \in DOMAIN stack[t] \ {1} /\ stack'[t][1] = stack[t][(1 - Len(new)) + 1]
      BY <2>2, <2>4, Turned
    <3>4. 2 \in DOMAIN stack[t] /\ stack'[t][1] = stack[t][2]
      BY <3>2, <3>3
    <3>5. 1 \in DOMAIN stack[t] /\ 1 < Len(stack[t])
      BY <3>4, Calling
    <3>6. Rests(stack[t][1], Below(t, 1)) /\ Below(t, 1) = stack[t][2]
      BY <3>5 DEF Shape, Below
    <3> QED
      BY <2>1, <2>2, <3>4, <3>6, SendIsLast
  <2> QED
    BY <2>3, <2>4
<1> QED
  BY <1>1, <1>2, <1>3, <1>4, <1>5, <1>6, <1>7 DEF Moved

\* The innermost call is over.
LEMMA Move0 ==
    ASSUME LifeTypeOK, Sole, Shape, NEW t \in Threads, Turn(t, <<>>)
    PROVE  Moved(t, {})
<1> DEFINE new == <<>>
<1>1. new \in Seq(Frames) /\ DOMAIN new = {} /\ {new[i] : i \in DOMAIN new} = {}
  OBVIOUS
<1>2. Turn(t, new)
  OBVIOUS
<1> HIDE DEF new
<1> QED
  BY <1>1, <1>2, Move

\* One call in the place of the innermost one.
LEMMA Move1 ==
    ASSUME LifeTypeOK, Sole, Shape, NEW t \in Threads, NEW a \in Frames, Turn(t, <<a>>),
           Rests(a, Base(t)), Named(a), MayGet(t, a)
    PROVE  Moved(t, {a})
<1> DEFINE new == <<a>>
<1>1. /\ new \in Seq(Frames) /\ DOMAIN new = {1} /\ new[1] = a /\ Len(new) = 1 /\ ~(1 < 1)
      /\ {new[i] : i \in DOMAIN new} = {a}
  OBVIOUS
<1>2. Turn(t, new)
  OBVIOUS
<1> HIDE DEF new
<1>3. \A i \in DOMAIN new :
        /\ Rests(new[i], IF i < Len(new) THEN new[i + 1] ELSE Base(t))
        /\ Named(new[i]) /\ MayGet(t, new[i])
  BY <1>1
<1>4. \A k \in Rights : \A i, j \in DOMAIN new :
        Holds(new[i], k) /\ Holds(new[j], k) /\ new[i].s = new[j].s => i = j
  BY <1>1
<1> QED
  BY <1>1, <1>2, <1>3, <1>4, Move

\* Two calls in the place of the innermost one.
LEMMA Move2 ==
    ASSUME LifeTypeOK, Sole, Shape, NEW t \in Threads, NEW a \in Frames, NEW b \in Frames,
           Turn(t, <<a, b>>),
           Rests(a, b), Named(a), MayGet(t, a),
           Rests(b, Base(t)), Named(b), MayGet(t, b),
           \A k \in Rights : ~(Holds(a, k) /\ Holds(b, k) /\ a.s = b.s)
    PROVE  Moved(t, {a, b})
<1> DEFINE new == <<a, b>>
<1>1. /\ new \in Seq(Frames) /\ DOMAIN new = {1, 2} /\ new[1] = a /\ new[2] = b
      /\ Len(new) = 2 /\ 1 < 2 /\ ~(2 < 2) /\ 1 + 1 = 2
  OBVIOUS
<1>2. Turn(t, new)
  OBVIOUS
<1> HIDE DEF new
<1>3. \A i \in DOMAIN new :
        /\ Rests(new[i], IF i < Len(new) THEN new[i + 1] ELSE Base(t))
        /\ Named(new[i]) /\ MayGet(t, new[i])
  BY <1>1
<1>4. \A k \in Rights : \A i, j \in DOMAIN new :
        Holds(new[i], k) /\ Holds(new[j], k) /\ new[i].s = new[j].s => i = j
  BY <1>1
<1>5. {new[i] : i \in DOMAIN new} = {a, b}
  BY <1>1
<1> QED
  BY <1>1, <1>2, <1>3, <1>4, <1>5, Move
-----------------------------------------------------------------------------
(* What the rights say of a session *)

\* The innermost call of a thread has its rights.
LEMMA TopHeld ==
    ASSUME LifeTypeOK, Shape, NEW t \in Threads, NEW call, NEW at, At(t, call, at),
           NEW k, Holds(Frame(call, Of(t), at), k)
    PROVE  Sits(t, k, Of(t)) /\ Held(k, Of(t))
<1>1. 1 \in DOMAIN stack[t] /\ stack[t][1] = Frame(call, Of(t), at)
  BY AtTop
<1>2. stack[t][1].s = Of(t)
  BY <1>1 DEF Frame
<1>3. Sits(t, k, Of(t))
  BY <1>1, <1>2 DEF Sits
<1> QED
  BY <1>3 DEF Held

\* Who has a right to a session uses it or is on the way into the registry with it.
LEMMA RightsAreUses ==
    ASSUME NEW s, NEW k \in {"recv", "send", "disconnect"}, Held(k, s)
    PROVE  Held("use", s) \/ Held("birth", s)
BY DEF Held, Sits, Holds

\* AddSession is a step of that way.
LEMMA AddIsBirth ==
    ASSUME NEW s, Held("add", s)
    PROVE  Held("birth", s)
BY DEF Held, Sits, Holds

\* A session that is not past that way has nothing, and one that is has no way left.
LEMMA Unborn ==
    ASSUME Births, NEW s \in Sessions
    PROVE  /\ ~Joined(s) => /\ s \notin registry \cup chosen \cup audience \cup registered
                            /\ ~Held("use", s)
                            /\ \A k \in Kinds \ {"connect"} : ~(pending[s][k] > 0)
           /\ Joined(s) => ~Held("birth", s) /\ ~Held("add", s)
           /\ ~Joined(s) /\ ~Held("birth", s) =>
                ~Held("recv", s) /\ ~Held("send", s) /\ ~Held("disconnect", s)
<1>1. ~Joined(s) => /\ s \notin registry \cup chosen \cup audience \cup registered
                    /\ ~Held("use", s)
                    /\ \A k \in Kinds \ {"connect"} : ~(pending[s][k] > 0)
  BY DEF Births
<1>2. Joined(s) => ~Held("birth", s) /\ ~Held("add", s)
  BY AddIsBirth DEF Joined
<1>3. ~Joined(s) /\ ~Held("birth", s) =>
                ~Held("recv", s) /\ ~Held("send", s) /\ ~Held("disconnect", s)
  BY <1>1, RightsAreUses
<1> QED
  BY <1>1, <1>2, <1>3

\* The session of a call that is not its way into the registry is past it.
LEMMA UserJoined ==
    ASSUME LifeTypeOK, Shape, Births, NEW t \in Threads, NEW call, NEW at, At(t, call, at),
           Of(t) \in Sessions, ~(call = "ProcessConnect" /\ at # "hello")
    PROVE  /\ Joined(Of(t)) /\ Held("use", Of(t))
           /\ ~Held("birth", Of(t)) /\ ~Held("add", Of(t))
<1>1. Holds(Frame(call, Of(t), at), "use")
  BY DEF Holds, Frame
<1>2. Held("use", Of(t))
  BY <1>1, TopHeld
<1> QED
  BY <1>2, Unborn

-----------------------------------------------------------------------------
(* What a step that does not concern them keeps *)

\* No right of K is taken.
NoMore(K) == \A k \in K : \A s \in Sessions : Held(k, s)' => Held(k, s)

\* The kernel's share.
LEMMA KernelKept ==
    ASSUME Kernel, pending' = pending, NoMore({"recv", "send", "disconnect"})
    PROVE  Kernel'
BY DEF Kernel, NoMore, Kinds

\* The order of a session's life.
LEMMA BirthsKept ==
    ASSUME Births, UNCHANGED <<created, established, accepting, listening>>,
           \A s \in Sessions : pending'[s]["connect"] = pending[s]["connect"],
           \A s \in Sessions : \A k \in Kinds \ {"connect"} : pending'[s][k] > 0 => Joined(s),
           registry' \subseteq registry, NoMore({"birth"}),
           \A s \in Sessions :
                s \in chosen' \cup audience' \cup registered' \/ Held("use", s)' => Joined(s)
    PROVE  Births'
<1>1. \A s \in Sessions : Joined(s) => Joined(s)'
  BY DEF Joined, NoMore
<1>2. ASSUME NEW s \in Sessions,
             \/ s \in (registry \cup chosen \cup audience \cup registered)'
             \/ Held("use", s)'
             \/ \E k \in Kinds \ {"connect"} : pending'[s][k] > 0
      PROVE  Joined(s)'
  <2>1. s \in registry => Joined(s)
    BY Unborn
  <2> QED
    BY <1>1, <1>2, <2>1
<1>3. ASSUME NEW s \in Sessions, Held("birth", s)'
      PROVE  /\ s \in created' /\ ~(listening' /\ accepting' = s)
             /\ pending'[s]["connect"] = 0
             /\ Server => s \in established'
  <2>1. Held("birth", s)
    BY <1>3 DEF NoMore
  <2> QED
    BY <2>1 DEF Births
<1>4. \A s \in Sessions : Server \/ s \notin created' => pending'[s]["connect"] = 0
  BY DEF Births
<1>5. /\ listening' => Server /\ accepting' \in created' \ established'
      /\ Server => registry' \subseteq established'
  BY DEF Births
<1> QED
  BY <1>2, <1>3, <1>4, <1>5 DEF Births

\* The atomics and the registry.
LEMMA FlagsKept ==
    ASSUME Flags, connected' = connected, registry' = registry,
           \A s \in Sessions :
                /\ Held("send", s)' \/ pending'[s]["send"] = 1 => s \in registered'
                /\ pending'[s]["disconnect"] = 1 => pending[s]["disconnect"] = 1
                /\ Held("disconnect", s)' <=> Held("disconnect", s)
                /\ Held("add", s)' <=> Held("add", s)
    PROVE  Flags'
BY DEF Flags

\* The accept loop, the executor and the locks.
LEMMA LoopsKept ==
    ASSUME Loops, NEW t \in Threads, NEW F, Moved(t, F),
           listening' = listening, executor' = executor, lock' = lock,
           Held("accept", NoSession)' <=> Held("accept", NoSession),
           Some(F, "execute", NoSession) => Sits(t, "execute", NoSession),
           ~Holds(Top(t), "unlock")
    PROVE  Loops'
<1>1. \A u \in Threads : Sits(u, "execute", NoSession)' => Sits(u, "execute", NoSession)
  BY DEF Moved
<1>2. \A u \in Threads : \A s : Sits(u, "unlock", s) => Sits(u, "unlock", s)'
  BY DEF Moved
<1> QED
  BY <1>1, <1>2 DEF Loops, Threads

\* No thread comes to the lock in Send.
LEMMA NoReentryKept ==
    ASSUME NoReentry, NEW t \in Threads, NEW F, Moved(t, F),
           \A f \in F : ~(f.call = "Send" /\ f.at = "lock")
    PROVE  NoReentry'
<1> SUFFICES ASSUME NEW u \in Threads, At(u, "Send", "lock")'
             PROVE  ~Sits(u, "disconnect", Of(u))'
  BY DEF NoReentry, Threads
<1>1. u # t
  BY DEF Moved
<1>2. stack'[u] = stack[u]
  BY <1>1 DEF Moved
<1>3. At(u, "Send", "lock") /\ Of(u)' = Of(u)
  BY <1>2 DEF At, Of
<1>4. PICK s : s = Of(u)
  OBVIOUS
<1>5. ~Sits(u, "disconnect", s)
  BY <1>3, <1>4 DEF NoReentry
<1>6. ~Sits(u, "disconnect", s)'
  BY <1>1, <1>5 DEF Moved
<1> QED
  BY <1>3, <1>4, <1>6 DEF Sits
-----------------------------------------------------------------------------
(* Turns of the innermost call *)

\* Which calls run for a session.
LEMMA OfSession ==
    ASSUME LifeTypeOK, Shape, NEW t \in Threads, NEW call, NEW at, At(t, call, at)
    PROVE  /\ call \notin {"RegisterAccept", "Execute", "Broadcast"} => Of(t) \in Sessions
           /\ call \in {"RegisterAccept", "Execute", "Broadcast"} => Of(t) = NoSession
<1>1. Frame(call, Of(t), at) \in Frames /\ Named(Frame(call, Of(t), at))
  BY AtTop
<1> QED
  BY <1>1 DEF Frame, Frames, Named

\* Return takes no right.
LEMMA ReturnMoves ==
    ASSUME LifeTypeOK, Sole, Shape, NEW t \in Threads, NEW call, NEW at, At(t, call, at),
           Return(t)
    PROVE  Moved(t, {})
BY Returned, Move0

\* Goto keeps the place of the call on its stack.
LEMMA GotoMoves ==
    ASSUME LifeTypeOK, Sole, Shape, NEW t \in Threads, NEW call, NEW at, At(t, call, at),
           NEW to \in Places, Goto(t, to),
           \A k \in Rights : Holds(Frame(call, Of(t), to), k) =>
                Holds(Frame(call, Of(t), at), k) \/ ~Held(k, Of(t))
    PROVE  Moved(t, {Frame(call, Of(t), to)})
<1> DEFINE a == Frame(call, Of(t), to)
<1>1. a \in Frames /\ Turn(t, <<a>>)
  BY Went
<1>2. Top(t) = Frame(call, Of(t), at) /\ Rests(Top(t), Base(t)) /\ Named(Top(t))
  BY AtTop
<1>3. a.call = Top(t).call /\ a.s = Top(t).s
  BY <1>2 DEF Frame
<1>4. Rests(a, Base(t)) /\ Named(a)
  <2> HIDE DEF a
  <2> QED
    BY <1>2, <1>3 DEF Rests, Named
<1>5. MayGet(t, a)
  BY <1>2 DEF MayGet, Frame
<1> HIDE DEF a
<1>6. Moved(t, {a})
  BY <1>1, <1>4, <1>5, Move1
<1> QED
  BY <1>6 DEF a

\* The same with a call made from there.
LEMMA CallMoves ==
    ASSUME LifeTypeOK, Sole, Shape, NEW t \in Threads, NEW call, NEW at, At(t, call, at),
           NEW to \in Places, NEW f \in Frames, GotoAndCall(t, to, f),
           Rests(f, Frame(call, Of(t), to)), Named(f), MayGet(t, f),
           \A k \in Rights : Holds(Frame(call, Of(t), to), k) =>
                /\ Holds(Frame(call, Of(t), at), k) \/ ~Held(k, Of(t))
                /\ ~(Holds(f, k) /\ f.s = Of(t))
    PROVE  Moved(t, {f, Frame(call, Of(t), to)})
<1> DEFINE b == Frame(call, Of(t), to)
<1>1. b \in Frames /\ Turn(t, <<f, b>>)
  BY WentAndCalled
<1>2. Top(t) = Frame(call, Of(t), at) /\ Rests(Top(t), Base(t)) /\ Named(Top(t))
  BY AtTop
<1>3. b.call = Top(t).call /\ b.s = Top(t).s /\ b.s = Of(t)
  BY <1>2 DEF Frame
<1>4. Rests(b, Base(t)) /\ Named(b)
  <2> HIDE DEF b
  <2> QED
    BY <1>2, <1>3 DEF Rests, Named
<1>5. MayGet(t, b)
  BY <1>2 DEF MayGet, Frame
<1>6. \A k \in Rights : ~(Holds(f, k) /\ Holds(b, k) /\ f.s = b.s)
  BY <1>3
<1>7. Rests(f, b)
  OBVIOUS
<1> HIDE DEF b
<1>8. Moved(t, {f, b})
  BY <1>1, <1>4, <1>5, <1>6, <1>7, Move2
<1> QED
  BY <1>8 DEF b

\* A last call, as if the caller made it.
LEMMA TailCallMoves ==
    ASSUME LifeTypeOK, Sole, Shape, NEW t \in Threads, NEW call, NEW at, At(t, call, at),
           NEW f \in Frames, ReturnAndCall(t, f),
           Rests(f, Base(t)), Named(f), MayGet(t, f)
    PROVE  Moved(t, {f})
BY ReturnedAndCalled, Move1

\* A step that leaves the stack as it is.
LEMMA StayMoves ==
    ASSUME LifeTypeOK, Sole, Shape, NEW t \in Threads, NEW call, NEW at, At(t, call, at),
           stack' = stack
    PROVE  Moved(t, {Frame(call, Of(t), at)})
<1> DEFINE e == Frame(call, Of(t), at)
<1>1. stack[t] # <<>> /\ stack[t] \in Seq(Frames) /\ Head(stack[t]) = e
      /\ Tail(stack[t]) \in Seq(Frames) /\ e \in Frames
      /\ Rests(e, Base(t)) /\ Named(e) /\ Top(t) = e
  BY AtTop
<1> HIDE DEF e
<1>2. <<e>> \o Tail(stack[t]) = stack[t] /\ <<e>> \in Seq(Frames)
  BY <1>1, Refill
<1>3. stack' = [stack EXCEPT ![t] = <<e>> \o Tail(stack[t])]
  BY <1>2 DEF LifeTypeOK
<1>4. Turn(t, <<e>>)
  BY <1>1, <1>2, <1>3, Replaced
<1>5. MayGet(t, e)
  BY <1>1 DEF MayGet
<1>6. Moved(t, {e})
  BY <1>1, <1>4, <1>5, Move1
<1> QED
  BY <1>6 DEF e

\* A step that neither the kernel nor the registry nor the atomics see.
LEMMA QuietStep ==
    ASSUME LifeInv, NEW t \in Threads, NEW F, Moved(t, F), LifeTypeOK',
           UNCHANGED <<socketVars, connected, registry, crashed>>,
           registered' = registered,
           \A s \in Sessions : s \in chosen' \cup audience' => Joined(s),
           \A k \in {"recv", "send", "disconnect", "birth", "add", "accept"} : \A f \in F :
                Holds(f, k) => Holds(Top(t), k) /\ Top(t).s = f.s,
           \A k \in {"disconnect", "add", "accept"} :
                Holds(Top(t), k) => Some(F, k, Top(t).s),
           \A f \in F : Holds(f, "use") /\ f.s \in Sessions => Joined(f.s),
           \A f \in F : ~(f.call = "Send" /\ f.at = "lock"),
           ~Holds(Top(t), "unlock"),
           \A u \in Threads : Sits(u, "execute", NoSession)' => executor' = u,
           \A s \in Sessions : lock'[s] = lock[s],
           lock'[Service] \in {NoThread, Main}
    PROVE  LifeInv'
<1>1. LifeTypeOK /\ Shape /\ Sole /\ Kernel /\ Births /\ Flags /\ Loops /\ NoReentry /\ ~crashed
  BY DEF LifeInv
<1>2. Sole' /\ Shape'
  BY DEF Moved
<1>3. {"recv", "send", "disconnect", "birth", "add", "accept"} \subseteq Rights
  BY DEF Rights
<1>4. ASSUME NEW k \in {"recv", "send", "disconnect", "birth", "add", "accept"}, NEW s,
             Held(k, s)'
      PROVE  Held(k, s)
  <2>1. Some(F, k, s) \/ Held(k, s)
    BY <1>4 DEF Moved
  <2>2. ASSUME Some(F, k, s)
        PROVE  Held(k, s)
    <3>1. Holds(Top(t), k) /\ Top(t).s = s
      BY <2>2 DEF Some
    <3>2. 1 \in DOMAIN stack[t] /\ Top(t) = stack[t][1]
      BY <1>1, <1>3, <3>1, TopHolds
    <3>3. Sits(t, k, s)
      BY <3>1, <3>2 DEF Sits
    <3> QED
      BY <3>3 DEF Held
  <2> QED
    BY <2>1, <2>2
<1>5. ASSUME NEW k \in {"disconnect", "add", "accept"}, NEW s, Held(k, s)
      PROVE  Held(k, s)'
  <2>1. k \in Rights
    BY <1>3
  <2>2. Holds(Top(t), k) /\ Top(t).s = s => Some(F, k, s)
    OBVIOUS
  <2> QED
    BY <1>5, <2>1, <2>2 DEF Moved
<1>6. Kernel'
  <2>1. NoMore({"recv", "send", "disconnect"})
    BY <1>4 DEF NoMore
  <2> QED
    BY <1>1, <2>1, KernelKept DEF socketVars
<1>7. Births'
  <2>1. NoMore({"birth"})
    BY <1>4 DEF NoMore
  <2>2. ASSUME NEW s \in Sessions, s \in chosen' \cup audience' \cup registered' \/ Held("use", s)'
        PROVE  Joined(s)
    <3>1. CASE s \in chosen' \cup audience' \cup registered'
      BY <1>1, <3>1, Unborn
    <3>2. CASE Held("use", s)'
      <4>1. Some(F, "use", s) \/ Held("use", s)
        BY <3>2 DEF Moved
      <4>2. Some(F, "use", s) => Joined(s)
        BY DEF Some
      <4>3. Held("use", s) => Joined(s)
        BY <1>1, Unborn
      <4> QED
        BY <4>1, <4>2, <4>3
    <3> QED
      BY <2>2, <3>1, <3>2
  <2>3. \A s \in Sessions : \A k \in Kinds \ {"connect"} : pending'[s][k] > 0 => Joined(s)
    BY <1>1, Unborn DEF socketVars
  <2> QED
    BY <1>1, <2>1, <2>2, <2>3, BirthsKept DEF socketVars
<1>8. Flags'
  <2>1. ASSUME NEW s \in Sessions
        PROVE  /\ Held("send", s)' \/ pending'[s]["send"] = 1 => s \in registered'
               /\ pending'[s]["disconnect"] = 1 => pending[s]["disconnect"] = 1
               /\ Held("disconnect", s)' <=> Held("disconnect", s)
               /\ Held("add", s)' <=> Held("add", s)
    <3>1. Held("send", s)' \/ pending[s]["send"] = 1 => s \in registered
      BY <1>1, <1>4 DEF Flags
    <3> QED
      BY <1>4, <1>5, <3>1 DEF socketVars
  <2> QED
    BY <1>1, <2>1, FlagsKept
<1>9. Loops'
  <2>1. Held("accept", NoSession)' <=> (Server /\ ~listening')
    <3>1. Held("accept", NoSession)' <=> Held("accept", NoSession)
      BY <1>4, <1>5
    <3> QED
      BY <1>1, <3>1 DEF Loops, socketVars
  <2>2. \A u \in Threads, s \in Sessions : lock'[s] = u => Sits(u, "unlock", s)'
    <3>1. \A u \in Threads : \A s : Sits(u, "unlock", s) => Sits(u, "unlock", s)'
      BY DEF Moved
    <3> QED
      BY <1>1, <3>1 DEF Loops
  <2> QED
    BY <2>1, <2>2 DEF Loops, Threads
<1>10. NoReentry'
  BY <1>1, NoReentryKept
<1> QED
  BY <1>1, <1>2, <1>6, <1>7, <1>8, <1>9, <1>10 DEF LifeInv
-----------------------------------------------------------------------------
(* The steps that only move on *)

\* The executor of the Room stays who it was.
LEMMA ExecutorStays ==
    ASSUME Loops, NEW t \in Threads, NEW F, Moved(t, F), executor' = executor,
           Some(F, "execute", NoSession) => executor = t
    PROVE  \A u \in Threads : Sits(u, "execute", NoSession)' => executor' = u
BY DEF Loops, Moved

\* Nobody was the executor.
LEMMA ExecutorTaken ==
    ASSUME Loops, NEW t \in Threads, NEW F, Moved(t, F), executor \notin Threads,
           executor' = t
    PROVE  \A u \in Threads : Sits(u, "execute", NoSession)' => executor' = u
BY DEF Loops, Moved

\* Nobody is the executor.
LEMMA ExecutorGone ==
    ASSUME NEW t \in Threads, NEW F, Moved(t, F), ~Some(F, "execute", NoSession),
           Holds(Top(t), "execute"), Top(t).s = NoSession
    PROVE  \A u \in Threads : Sits(u, "execute", NoSession)' => executor' = u
<1>1. ~Held("execute", NoSession)'
  BY DEF Moved, Rights
<1>2. \A u \in Threads : ~Sits(u, "execute", NoSession)'
  BY <1>1 DEF Held, Threads
<1> QED
  BY <1>2

\* RegisterRecv without a connection, or before WSARecv.
LEMMA CheckRecvStep ==
    ASSUME LifeInv, NEW t \in Threads, CheckRecv(t)
    PROVE  LifeInv'
<1>1. LifeTypeOK /\ Shape /\ Sole /\ Births /\ Loops
  BY DEF LifeInv
<1>2. At(t, "RegisterRecv", "check")
  BY DEF CheckRecv
<1>3. PICK s \in Sessions : s = Of(t)
  BY <1>1, <1>2, OfSession
<1>4. Top(t) = Frame("RegisterRecv", s, "check")
  BY <1>1, <1>2, <1>3, AtTop
<1>5. Joined(s)
  BY <1>1, <1>2, <1>3, UserJoined
<1>6. PICK F \in {{}, {Frame("RegisterRecv", s, "issue")}} : Moved(t, F)
  <2>1. CASE connected[Of(t)]
    <3>1. Goto(t, "issue") /\ "issue" \in Places
      BY <2>1 DEF CheckRecv, Places
    <3>2. \A k \in Rights : Holds(Frame("RegisterRecv", Of(t), "issue"), k) =>
                Holds(Frame("RegisterRecv", Of(t), "check"), k)
      BY DEF Holds, Frame
    <3> QED
      BY <1>1, <1>2, <1>3, <3>1, <3>2, GotoMoves
  <2>2. CASE ~connected[Of(t)]
    BY <1>1, <1>2, <2>2, ReturnMoves DEF CheckRecv
  <2> QED
    BY <2>1, <2>2
<1>7. LifeTypeOK'
  BY <1>1, <1>6 DEF CheckRecv, LifeTypeOK, Moved, socketVars, sendVars, roomVars
<1>8. UNCHANGED <<socketVars, connected, registry, sendVars, lock, roomVars, crashed>>
  BY DEF CheckRecv
<1>9. \A u \in Threads : Sits(u, "execute", NoSession)' => executor' = u
  BY <1>1, <1>6, <1>8, ExecutorStays DEF Some, Holds, Frame, roomVars
<1>10. /\ \A f \in F : f = Frame("RegisterRecv", s, "issue")
       /\ \A k \in {"disconnect", "add", "accept"} : ~Holds(Top(t), k)
       /\ ~Holds(Top(t), "unlock")
  BY <1>4, <1>6 DEF Holds, Frame
<1>11. \A k \in {"recv", "send", "disconnect", "birth", "add", "accept"} : \A f \in F :
                Holds(f, k) => Holds(Top(t), k) /\ Top(t).s = f.s
  BY <1>4, <1>10 DEF Holds, Frame
<1>12. \A f \in F : f.s = s /\ ~(f.call = "Send" /\ f.at = "lock")
  BY <1>10 DEF Frame
<1>13. \A x \in Sessions : x \in chosen' \cup audience' => Joined(x)
  BY <1>1, <1>8, Unborn DEF roomVars
<1> QED
  BY <1>1, <1>5, <1>6, <1>7, <1>8, <1>9, <1>10, <1>11, <1>12, <1>13, QuietStep
     DEF Loops, sendVars
\* OnConnected: the first packet, and RegisterRecv after it.
LEMMA OnConnectedStep ==
    ASSUME LifeInv, NEW t \in Threads, OnConnected(t)
    PROVE  LifeInv'
<1>1. LifeTypeOK /\ Shape /\ Sole /\ Births /\ Loops
  BY DEF LifeInv
<1>2. At(t, "ProcessConnect", "hello")
  BY DEF OnConnected
<1>3. PICK s \in Sessions : s = Of(t)
  BY <1>1, <1>2, OfSession
<1>4. Top(t) = Frame("ProcessConnect", s, "hello") /\ Rests(Top(t), Base(t))
  BY <1>1, <1>2, <1>3, AtTop
<1>5. Joined(s)
  BY <1>1, <1>2, <1>3, UserJoined
<1> DEFINE a == SendCall(s)
           b == Frame("RegisterRecv", s, "check")
<1>6. Moved(t, {a, b})
  <2>1. a \in Frames /\ b \in Frames
    BY DEF SendCall, Frame, Frames, Calls, Places
  <2>2. <<a, b>> \in Seq(Frames) /\ stack[t] # <<>>
    BY <1>1, <1>2, <2>1, AtTop
  <2>3. stack' = [stack EXCEPT ![t] = <<a, b>> \o Tail(stack[t])]
    BY <1>3 DEF OnConnected
  <2>4. Turn(t, <<a, b>>)
    BY <1>1, <2>2, <2>3, Replaced
  <2>5. Rests(a, b) /\ Rests(b, Base(t))
    BY <1>4 DEF Rests, SendCall, Frame
  <2>6. Named(a) /\ Named(b) /\ MayGet(t, a) /\ MayGet(t, b)
    BY <1>4, NoneAssumption DEF Named, SendCall, Frame, MayGet, Holds, Rights
  <2>7. \A k \in Rights : ~(Holds(a, k) /\ Holds(b, k) /\ a.s = b.s)
    BY DEF SendCall, Frame, Holds, Rights
  <2> HIDE DEF a, b
  <2> QED
    BY <1>1, <2>1, <2>4, <2>5, <2>6, <2>7, Move2
<1>7. LifeTypeOK'
  BY <1>1, <1>6 DEF OnConnected, LifeTypeOK, Moved, socketVars, sendVars, roomVars
<1>8. UNCHANGED <<socketVars, connected, registry, sendVars, lock, roomVars, crashed>>
  BY DEF OnConnected
<1>9. \A u \in Threads : Sits(u, "execute", NoSession)' => executor' = u
  BY <1>1, <1>6, <1>8, ExecutorStays DEF Some, Holds, SendCall, Frame, roomVars
<1>10. /\ \A k \in {"disconnect", "add", "accept"} : ~Holds(Top(t), k)
       /\ ~Holds(Top(t), "unlock")
  BY <1>4 DEF Holds, Frame
<1>11. \A k \in {"recv", "send", "disconnect", "birth", "add", "accept"} : \A f \in {a, b} :
                Holds(f, k) => Holds(Top(t), k) /\ Top(t).s = f.s
  BY <1>4 DEF Holds, SendCall, Frame
<1>12. \A f \in {a, b} : f.s = s /\ ~(f.call = "Send" /\ f.at = "lock")
  BY DEF SendCall, Frame
<1>13. \A x \in Sessions : x \in chosen' \cup audience' => Joined(x)
  BY <1>1, <1>8, Unborn DEF roomVars
<1> HIDE DEF a, b
<1> QED
  BY <1>1, <1>5, <1>6, <1>7, <1>8, <1>9, <1>10, <1>11, <1>12, <1>13, QuietStep
     DEF Loops, sendVars

\* RegisterSend without a connection, or the drain of the queue.
LEMMA DrainSendStep ==
    ASSUME LifeInv, NEW t \in Threads, DrainSend(t)
    PROVE  LifeInv'
<1>1. LifeTypeOK /\ Shape /\ Sole /\ Births /\ Loops
  BY DEF LifeInv
<1>2. At(t, "RegisterSend", "check")
  BY DEF DrainSend
<1>3. PICK s \in Sessions : s = Of(t)
  BY <1>1, <1>2, OfSession
<1>4. Top(t) = Frame("RegisterSend", s, "check")
  BY <1>1, <1>2, <1>3, AtTop
<1>5. Joined(s)
  BY <1>1, <1>2, <1>3, UserJoined
<1>6. PICK F \in {{}, {Frame("RegisterSend", s, "issue")}} : Moved(t, F)
  <2>1. CASE connected[Of(t)]
    <3>1. Goto(t, "issue") /\ "issue" \in Places
      BY <2>1 DEF DrainSend, Places
    <3>2. \A k \in Rights : Holds(Frame("RegisterSend", Of(t), "issue"), k) =>
                Holds(Frame("RegisterSend", Of(t), "check"), k)
      BY DEF Holds, Frame
    <3> QED
      BY <1>1, <1>2, <1>3, <3>1, <3>2, GotoMoves
  <2>2. CASE ~connected[Of(t)]
    BY <1>1, <1>2, <2>2, ReturnMoves DEF DrainSend
  <2> QED
    BY <2>1, <2>2
<1>7. LifeTypeOK'
  BY <1>1, <1>6 DEF DrainSend, LifeTypeOK, Moved, socketVars, roomVars
<1>8. UNCHANGED <<socketVars, connected, registry, registered, lock, roomVars, crashed>>
  BY DEF DrainSend
<1>9. \A u \in Threads : Sits(u, "execute", NoSession)' => executor' = u
  BY <1>1, <1>6, <1>8, ExecutorStays DEF Some, Holds, Frame, roomVars
<1>10. /\ \A f \in F : f = Frame("RegisterSend", s, "issue")
       /\ \A k \in {"disconnect", "add", "accept"} : ~Holds(Top(t), k)
       /\ ~Holds(Top(t), "unlock")
  BY <1>4, <1>6 DEF Holds, Frame
<1>11. \A k \in {"recv", "send", "disconnect", "birth", "add", "accept"} : \A f \in F :
                Holds(f, k) => Holds(Top(t), k) /\ Top(t).s = f.s
  BY <1>4, <1>10 DEF Holds, Frame
<1>12. \A f \in F : f.s = s /\ ~(f.call = "Send" /\ f.at = "lock")
  BY <1>10 DEF Frame
<1>13. \A x \in Sessions : x \in chosen' \cup audience' => Joined(x)
  BY <1>1, <1>8, Unborn DEF roomVars
<1> QED
  BY <1>1, <1>5, <1>6, <1>7, <1>8, <1>9, <1>10, <1>11, <1>12, <1>13, QuietStep DEF Loops

\* DoAsync by a call that goes on at another place, or that is over: what becomes of the
\* stack and of the executor.
LEMMA PostMoves ==
    ASSUME LifeTypeOK, Sole, Shape, Loops, NEW t \in Threads, NEW call, NEW at,
           At(t, call, at), NEW j,
           \/ /\ call = "Disconnect" /\ at = "callback"
              /\ Post(t, j, <<Frame("Disconnect", Of(t), "release")>> \o Tail(stack[t]))
           \/ call = "HandlePacket" /\ Post(t, j, Tail(stack[t]))
    PROVE  /\ jobs' = Append(jobs, j)
           /\ executor' \in {t, executor}
           /\ \E F : /\ Moved(t, F)
                     /\ \A f \in F : \/ f = Frame("Execute", NoSession, "loop")
                                     \/ /\ call = "Disconnect"
                                        /\ f = Frame("Disconnect", Of(t), "release")
                     /\ call = "Disconnect" => Frame("Disconnect", Of(t), "release") \in F
           /\ \A u \in Threads : Sits(u, "execute", NoSession)' => executor' = u
<1> DEFINE e == Frame("Execute", NoSession, "loop")
           r == Frame("Disconnect", Of(t), "release")
<1>1. /\ stack[t] # <<>> /\ Tail(stack[t]) \in Seq(Frames)
      /\ Top(t) = Frame(call, Of(t), at) /\ Rests(Top(t), Base(t)) /\ Named(Top(t))
  BY AtTop
<1>2. e \in Frames /\ Named(e)
  BY DEF Frame, Frames, Calls, Places, Named
<1>3. executor = NoThread => executor \notin Threads
  BY NoneAssumption DEF Threads
<1>4. executor = NoThread => MayGet(t, e)
  <2>1. executor = NoThread => ~Held("execute", NoSession)
    BY <1>3 DEF Loops, Held
  <2> QED
    BY <2>1 DEF MayGet, Holds, Frame, Rights
<1>5. CASE call = "HandlePacket"
  <2> DEFINE new == <<>>
  <2>1. new \in Seq(Frames) /\ Tail(stack[t]) = new \o Tail(stack[t]) /\ <<e>> \o new = <<e>>
    BY <1>1, <1>2, ConcatEmptySeq
  <2>2. Post(t, j, Tail(stack[t]))
    BY <1>5
  <2>3. Base(t).call = "RegisterRecv"
    BY <1>1, <1>5 DEF Rests, Frame
  <2>4. Rests(e, Base(t))
    BY <2>3 DEF Rests, Frame
  <2>5. /\ jobs' = Append(jobs, j)
        /\ \/ executor = NoThread /\ executor' = t /\ Turn(t, <<e>> \o new)
           \/ executor # NoThread /\ executor' = executor /\ Turn(t, new)
    <3> HIDE DEF new
    <3> QED
      BY <2>1, <2>2, Posted
  <2>6. CASE executor = NoThread
    <3>1. executor' = t /\ Turn(t, <<e>>)
      BY <2>1, <2>5, <2>6
    <3> HIDE DEF e, r, new
    <3>2. Moved(t, {e})
      BY <1>2, <1>4, <2>4, <2>6, <3>1, Move1
    <3>3. \A u \in Threads : Sits(u, "execute", NoSession)' => executor' = u
      BY <1>3, <2>6, <3>1, <3>2, ExecutorTaken
    <3> QED
      BY <1>5, <2>5, <3>1, <3>2, <3>3 DEF e
  <2>7. CASE executor # NoThread
    <3>1. executor' = executor /\ Turn(t, <<>>)
      BY <2>5, <2>7
    <3> HIDE DEF e, r, new
    <3>2. Moved(t, {})
      BY <3>1, Move0
    <3>3. \A u \in Threads : Sits(u, "execute", NoSession)' => executor' = u
      BY <3>1, <3>2, ExecutorStays DEF Some
    <3> QED
      BY <1>5, <2>5, <3>1, <3>2, <3>3
  <2> QED
    BY <2>6, <2>7
<1>6. CASE call = "Disconnect" /\ at = "callback"
  <2>1. r \in Frames /\ Named(r) /\ Rests(r, Base(t)) /\ MayGet(t, r)
    <3>1. r.call = Top(t).call /\ r.s = Top(t).s /\ r.at = "release" /\ "release" \in Places
      BY <1>1, <1>6 DEF Frame, Places
    <3>2. Top(t) \in Frames
      BY AtTop
    <3>3. r \in Frames
      BY <1>1, <1>6, <3>1, <3>2 DEF Frames, Frame
    <3>4. MayGet(t, r)
      BY <1>1, <1>6 DEF MayGet, Holds, Frame
    <3> HIDE DEF r
    <3> QED
      BY <1>1, <3>1, <3>3, <3>4 DEF Named, Rests
  <2>2. Rests(e, r) /\ \A k \in Rights : ~(Holds(e, k) /\ Holds(r, k) /\ e.s = r.s)
    BY DEF Rests, Frame, Holds, Rights
  <2> DEFINE new == <<r>>
  <2>3. new \in Seq(Frames)
    BY <2>1
  <2>4. Post(t, j, new \o Tail(stack[t]))
    BY <1>6
  <2>5. <<e>> \o new = <<e, r>>
    <3> HIDE DEF e, r
    <3> QED
      BY <1>2, <2>1, Pair
  <2>6. /\ jobs' = Append(jobs, j)
        /\ \/ executor = NoThread /\ executor' = t /\ Turn(t, <<e>> \o new)
           \/ executor # NoThread /\ executor' = executor /\ Turn(t, new)
    <3> HIDE DEF new
    <3> QED
      BY <2>3, <2>4, Posted
  <2>7. CASE executor = NoThread
    <3>1. executor' = t /\ Turn(t, <<e, r>>)
      BY <2>5, <2>6, <2>7
    <3> HIDE DEF e, r, new
    <3>2. Moved(t, {e, r})
      BY <1>2, <1>4, <2>1, <2>2, <2>7, <3>1, Move2
    <3>3. \A u \in Threads : Sits(u, "execute", NoSession)' => executor' = u
      BY <1>3, <2>7, <3>1, <3>2, ExecutorTaken
    <3> QED
      BY <1>6, <2>6, <3>1, <3>2, <3>3 DEF e, r
  <2>8. CASE executor # NoThread
    <3>1. executor' = executor /\ Turn(t, <<r>>)
      BY <2>6, <2>8
    <3>2. ~Some({r}, "execute", NoSession)
      BY DEF Some, Holds, Frame
    <3> HIDE DEF e, r, new
    <3>3. Moved(t, {r})
      BY <2>1, <3>1, Move1
    <3>4. \A u \in Threads : Sits(u, "execute", NoSession)' => executor' = u
      BY <3>1, <3>2, <3>3, ExecutorStays
    <3> QED
      BY <1>6, <2>6, <3>1, <3>3, <3>4 DEF r
  <2> QED
    BY <2>7, <2>8
<1> QED
  BY <1>5, <1>6
\* A job more for a player that was chosen.
LEMMA JobsGrow ==
    ASSUME LifeTypeOK, NEW j, chosen \subseteq chosen', jobs' = Append(jobs, j),
           j.s \in chosen', j.kind \in {"enter", "leave", "move"},
           j = [kind |-> j.kind, s |-> j.s]
    PROVE  jobs' \in Seq([kind : {"enter", "leave", "move"}, s : chosen'])
<1> DEFINE old == [kind : {"enter", "leave", "move"}, s : chosen]
           new == [kind : {"enter", "leave", "move"}, s : chosen']
<1>1. jobs \in Seq(old)
  BY DEF LifeTypeOK
<1>2. old \subseteq new
  OBVIOUS
<1>3. j \in new
  OBVIOUS
<1> HIDE DEF old, new
<1>4. jobs \in Seq(new)
  BY <1>1, <1>2, SeqMonotonic
<1>5. jobs' \in Seq(new)
  BY <1>3, <1>4
<1> QED
  BY <1>5 DEF new

\* OnDisconnected, with the job that the player leaves or without.
LEMMA OnDisconnectedStep ==
    ASSUME LifeInv, NEW t \in Threads, OnDisconnected(t)
    PROVE  LifeInv'
<1>1. LifeTypeOK /\ Shape /\ Sole /\ Births /\ Loops
  BY DEF LifeInv
<1>2. At(t, "Disconnect", "callback")
  BY DEF OnDisconnected
<1>3. PICK s \in Sessions : s = Of(t)
  BY <1>1, <1>2, OfSession
<1>4. Top(t) = Frame("Disconnect", s, "callback")
  BY <1>1, <1>2, <1>3, AtTop
<1>5. Joined(s)
  BY <1>1, <1>2, <1>3, UserJoined
<1> DEFINE e == Frame("Execute", NoSession, "loop")
           r == Frame("Disconnect", s, "release")
<1>6. /\ UNCHANGED <<socketVars, connected, registry, sendVars, lock, chosen, room, audience,
                     crashed>>
      /\ \/ jobs' = jobs
         \/ s \in chosen /\ jobs' = Append(jobs, [kind |-> "leave", s |-> s])
      /\ executor' \in {t, executor}
      /\ \E F : Moved(t, F) /\ (\A f \in F : f \in {e, r}) /\ r \in F
      /\ \A u \in Threads : Sits(u, "execute", NoSession)' => executor' = u
  <2>1. CASE s \in chosen
    <3> DEFINE j == [kind |-> "leave", s |-> s]
    <3>1. Post(t, j, <<Frame("Disconnect", Of(t), "release")>> \o Tail(stack[t]))
      BY <1>3, <2>1 DEF OnDisconnected
    <3> HIDE DEF j
    <3>2. /\ jobs' = Append(jobs, j)
          /\ executor' \in {t, executor}
          /\ \E F : /\ Moved(t, F)
                    /\ \A f \in F : f = e \/ f = Frame("Disconnect", Of(t), "release")
                    /\ Frame("Disconnect", Of(t), "release") \in F
          /\ \A u \in Threads : Sits(u, "execute", NoSession)' => executor' = u
      BY <1>1, <1>2, <3>1, PostMoves
    <3>3. UNCHANGED <<socketVars, connected, registry, sendVars, lock, chosen, room, audience,
                      crashed>>
      BY DEF OnDisconnected
    <3> QED
      BY <1>3, <2>1, <3>2, <3>3 DEF j
  <2>2. CASE s \notin chosen
    <3>1. Goto(t, "release") /\ "release" \in Places
          /\ UNCHANGED <<jobs, executor>>
          /\ UNCHANGED <<socketVars, connected, registry, sendVars, lock, chosen, room,
                         audience, crashed>>
      BY <1>3, <2>2 DEF OnDisconnected, Places
    <3>2. \A k \in Rights : Holds(Frame("Disconnect", Of(t), "release"), k) =>
                Holds(Frame("Disconnect", Of(t), "callback"), k)
      BY DEF Holds, Frame
    <3>3. Moved(t, {r})
      BY <1>1, <1>2, <1>3, <3>1, <3>2, GotoMoves
    <3>4. ~Some({r}, "execute", NoSession)
      BY DEF Some, Holds, Frame
    <3> HIDE DEF r
    <3>5. \A u \in Threads : Sits(u, "execute", NoSession)' => executor' = u
      BY <1>1, <3>1, <3>3, <3>4, ExecutorStays
    <3> QED
      BY <3>1, <3>3, <3>5
  <2> QED
    BY <2>1, <2>2
<1>7. PICK F : Moved(t, F) /\ (\A f \in F : f \in {e, r}) /\ r \in F
  BY <1>6
<1>8. LifeTypeOK'
  <2>1. jobs' \in Seq([kind : {"enter", "leave", "move"}, s : chosen'])
    <3>1. CASE jobs' = jobs
      BY <1>1, <1>6, <3>1 DEF LifeTypeOK
    <3>2. CASE s \in chosen /\ jobs' = Append(jobs, [kind |-> "leave", s |-> s])
      BY <1>1, <1>6, <3>2, JobsGrow
    <3> QED
      BY <1>6, <3>1, <3>2
  <2>2. executor' \in Threads \cup {"global", NoThread} /\ stack' \in [Threads -> Seq(Frames)]
    BY <1>1, <1>6, <1>7 DEF LifeTypeOK, Moved
  <2> QED
    BY <1>1, <1>6, <2>1, <2>2 DEF LifeTypeOK, socketVars, sendVars, Threads
<1>9. /\ \A k \in {"add", "accept"} : ~Holds(Top(t), k)
      /\ ~Holds(Top(t), "unlock") /\ Top(t).s = s
      /\ Some(F, "disconnect", s)
  BY <1>4, <1>7 DEF Holds, Frame, Some
<1>10. \A k \in {"recv", "send", "disconnect", "birth", "add", "accept"} : \A f \in F :
                Holds(f, k) => Holds(Top(t), k) /\ Top(t).s = f.s
  <2>1. \A k \in {"recv", "send", "disconnect", "birth", "add", "accept"} : ~Holds(e, k)
    BY DEF Holds, Frame
  <2>2. \A k \in {"recv", "send", "disconnect", "birth", "add", "accept"} :
            Holds(r, k) => Holds(Top(t), k) /\ Top(t).s = r.s
    BY <1>4 DEF Holds, Frame
  <2> HIDE DEF e, r
  <2> QED
    BY <1>7, <2>1, <2>2
<1>11. \A f \in F : /\ f.s \in Sessions => f.s = s
                    /\ ~(f.call = "Send" /\ f.at = "lock")
  BY <1>7, NoneAssumption DEF Frame
<1>12. \A x \in Sessions : x \in chosen' \cup audience' => Joined(x)
  BY <1>1, <1>6, Unborn
<1>13. registered' = registered /\ lock' = lock
  BY <1>6 DEF sendVars
<1> HIDE DEF e, r
<1> QED
  BY <1>1, <1>5, <1>6, <1>7, <1>8, <1>9, <1>10, <1>11, <1>12, <1>13, QuietStep DEF Loops

\* A packet: a player is made and enters, or a player in the Room moves.
LEMMA HandlePacketStep ==
    ASSUME LifeInv, NEW t \in Threads, HandlePacket(t)
    PROVE  LifeInv'
<1>1. LifeTypeOK /\ Shape /\ Sole /\ Births /\ Loops
  BY DEF LifeInv
<1>2. At(t, "HandlePacket", "handle")
  BY DEF HandlePacket
<1>3. PICK s \in Sessions : s = Of(t)
  BY <1>1, <1>2, OfSession
<1>4. Top(t) = Frame("HandlePacket", s, "handle")
  BY <1>1, <1>2, <1>3, AtTop
<1>5. Joined(s)
  BY <1>1, <1>2, <1>3, UserJoined
<1> DEFINE e == Frame("Execute", NoSession, "loop")
<1>6. PICK kind \in {"enter", "leave", "move"} :
        /\ Post(t, [kind |-> kind, s |-> s], Tail(stack[t]))
        /\ chosen' = chosen \cup {s}
        /\ UNCHANGED <<socketVars, connected, registry, sendVars, lock, room, audience,
                       crashed>>
  BY <1>1, <1>3 DEF HandlePacket, LifeTypeOK
<1> DEFINE j == [kind |-> kind, s |-> s]
<1>7. /\ jobs' = Append(jobs, j)
      /\ executor' \in {t, executor}
      /\ \E F : Moved(t, F) /\ (\A f \in F : f = e)
      /\ \A u \in Threads : Sits(u, "execute", NoSession)' => executor' = u
  <2>1. Post(t, j, Tail(stack[t]))
    BY <1>6
  <2> HIDE DEF j
  <2>2. PICK call : call = "HandlePacket"
    OBVIOUS
  <2>3. /\ jobs' = Append(jobs, j)
        /\ executor' \in {t, executor}
        /\ \E F : /\ Moved(t, F)
                  /\ \A f \in F : \/ f = e
                                  \/ /\ call = "Disconnect"
                                     /\ f = Frame("Disconnect", Of(t), "release")
        /\ \A u \in Threads : Sits(u, "execute", NoSession)' => executor' = u
    BY <1>1, <1>2, <2>1, <2>2, PostMoves
  <2>4. call # "Disconnect"
    BY <2>2
  <2> HIDE DEF e
  <2> QED
    BY <2>3, <2>4
<1>8. PICK F : Moved(t, F) /\ (\A f \in F : f = e)
  BY <1>7
<1>9. LifeTypeOK'
  <2>1. jobs' \in Seq([kind : {"enter", "leave", "move"}, s : chosen'])
    BY <1>1, <1>6, <1>7, JobsGrow
  <2>2. executor' \in Threads \cup {"global", NoThread} /\ stack' \in [Threads -> Seq(Frames)]
    BY <1>1, <1>7, <1>8 DEF LifeTypeOK, Moved
  <2> QED
    BY <1>1, <1>6, <2>1, <2>2 DEF LifeTypeOK, socketVars, sendVars, Threads
<1>10. /\ \A k \in {"disconnect", "add", "accept"} : ~Holds(Top(t), k)
       /\ ~Holds(Top(t), "unlock")
  BY <1>4 DEF Holds, Frame
<1>11. /\ \A k \in {"recv", "send", "disconnect", "birth", "add", "accept"} : ~Holds(e, k)
       /\ e.s \notin Sessions /\ ~(e.call = "Send" /\ e.at = "lock")
  BY NoneAssumption DEF Holds, Frame
<1>12. \A x \in Sessions : x \in chosen' \cup audience' => Joined(x)
  BY <1>1, <1>5, <1>6, Unborn
<1>13. registered' = registered /\ lock' = lock
  BY <1>6 DEF sendVars
<1> HIDE DEF e, j
<1> QED
  BY <1>1, <1>6, <1>7, <1>8, <1>9, <1>10, <1>11, <1>12, <1>13, QuietStep DEF Loops

\* A packet that is dropped.
LEMMA DropPacketStep ==
    ASSUME LifeInv, NEW t \in Threads, DropPacket(t)
    PROVE  LifeInv'
<1>1. LifeTypeOK /\ Shape /\ Sole /\ Births /\ Loops
  BY DEF LifeInv
<1>2. At(t, "HandlePacket", "handle") /\ Return(t)
      /\ UNCHANGED <<socketVars, connected, registry, sendVars, lock, roomVars, crashed>>
  BY DEF DropPacket
<1>3. Top(t) = Frame("HandlePacket", Of(t), "handle")
  BY <1>1, <1>2, AtTop
<1>4. Moved(t, {})
  BY <1>1, <1>2, ReturnMoves
<1>5. LifeTypeOK'
  BY <1>1, <1>2, <1>4 DEF LifeTypeOK, Moved, socketVars, sendVars, roomVars
<1>6. \A u \in Threads : Sits(u, "execute", NoSession)' => executor' = u
  BY <1>1, <1>2, <1>4, ExecutorStays DEF Some, roomVars
<1>7. /\ \A k \in {"disconnect", "add", "accept"} : ~Holds(Top(t), k)
      /\ ~Holds(Top(t), "unlock")
  BY <1>3 DEF Holds, Frame
<1>8. \A x \in Sessions : x \in chosen' \cup audience' => Joined(x)
  BY <1>1, <1>2, Unborn DEF roomVars
<1> QED
  BY <1>1, <1>2, <1>4, <1>5, <1>6, <1>7, <1>8, QuietStep DEF Loops, sendVars
\* The next job of the Room: who is in it, and who is to be told.
LEMMA ExecuteJobStep ==
    ASSUME LifeInv, NEW t \in Threads, ExecuteJob(t)
    PROVE  LifeInv'
<1>1. LifeTypeOK /\ Shape /\ Sole /\ Births /\ Loops
  BY DEF LifeInv
<1>2. At(t, "Execute", "loop") /\ Goto(t, "tell") /\ jobs # <<>> /\ jobs' = Tail(jobs)
      /\ UNCHANGED <<socketVars, connected, registry, sendVars, lock, chosen, executor, crashed>>
  BY DEF ExecuteJob
<1>3. Of(t) = NoSession
  BY <1>1, <1>2, OfSession
<1> DEFINE e == Frame("Execute", NoSession, "tell")
<1>4. Top(t) = Frame("Execute", NoSession, "loop")
  BY <1>1, <1>2, <1>3, AtTop
<1>5. Moved(t, {e})
  <2>1. \A k \in Rights : Holds(Frame("Execute", Of(t), "tell"), k) =>
                Holds(Frame("Execute", Of(t), "loop"), k)
    BY DEF Holds, Frame
  <2>2. "tell" \in Places
    BY DEF Places
  <2> QED
    BY <1>1, <1>2, <1>3, <2>1, <2>2, GotoMoves
<1>6. Head(jobs).s \in chosen /\ Tail(jobs) \in Seq([kind : {"enter", "leave", "move"}, s : chosen])
  <2> DEFINE Jobs == [kind : {"enter", "leave", "move"}, s : chosen]
  <2>1. jobs \in Seq(Jobs)
    BY <1>1 DEF LifeTypeOK
  <2>2. \A j \in Jobs : j.s \in chosen
    OBVIOUS
  <2> HIDE DEF Jobs
  <2>3. Head(jobs) \in Jobs /\ Tail(jobs) \in Seq(Jobs)
    BY <1>2, <2>1, HeadTailProperties
  <2> QED
    BY <2>2, <2>3 DEF Jobs
<1>7. room' \subseteq chosen /\ audience' \subseteq chosen
  <2>1. room \subseteq chosen
    BY <1>1 DEF LifeTypeOK
  <2>2. room' \subseteq room \cup {Head(jobs).s} /\ audience' \subseteq room' \cup {Head(jobs).s}
    BY DEF ExecuteJob
  <2> QED
    BY <1>6, <2>1, <2>2
<1>8. LifeTypeOK'
  BY <1>1, <1>2, <1>5, <1>6, <1>7 DEF LifeTypeOK, Moved, socketVars, sendVars
<1>9. \A u \in Threads : Sits(u, "execute", NoSession)' => executor' = u
  <2>1. Sits(t, "execute", NoSession)
    BY <1>1, <1>2, <1>3, TopHeld DEF Holds, Frame
  <2> QED
    BY <1>1, <1>2, <1>5, <2>1, ExecutorStays DEF Loops
<1>10. /\ \A k \in {"disconnect", "add", "accept"} : ~Holds(Top(t), k)
       /\ ~Holds(Top(t), "unlock")
  BY <1>4 DEF Holds, Frame
<1>11. /\ \A k \in {"recv", "send", "disconnect", "birth", "add", "accept"} : ~Holds(e, k)
       /\ e.s \notin Sessions /\ ~(e.call = "Send" /\ e.at = "lock")
  BY NoneAssumption DEF Holds, Frame
<1>12. \A x \in Sessions : x \in chosen' \cup audience' => Joined(x)
  BY <1>1, <1>2, <1>7, Unborn
<1>13. registered' = registered
  BY <1>2 DEF sendVars
<1> HIDE DEF e
<1> QED
  BY <1>1, <1>2, <1>5, <1>8, <1>9, <1>10, <1>11, <1>12, <1>13, QuietStep DEF Loops

\* One of those to be told is told, if the session is still there.
LEMMA TellStep ==
    ASSUME LifeInv, NEW t \in Threads, Tell(t)
    PROVE  LifeInv'
<1>1. LifeTypeOK /\ Shape /\ Sole /\ Kernel /\ Births /\ Flags /\ Loops /\ NoReentry /\ ~crashed
  BY DEF LifeInv
<1>2. PICK s \in audience : /\ audience' = audience \ {s}
                            /\ \/ GotoAndCall(t, "tell", SendCall(s))
                               \/ stack' = stack
  BY DEF Tell
<1>3. At(t, "Execute", "tell")
      /\ UNCHANGED <<socketVars, connected, registry, sendVars, lock, chosen, jobs, executor,
                     room, crashed>>
  BY DEF Tell
<1>4. Of(t) = NoSession
  BY <1>1, <1>3, OfSession
<1>5. Top(t) = Frame("Execute", NoSession, "tell")
  BY <1>1, <1>3, <1>4, AtTop
<1>6. Joined(s) /\ s \in Sessions
  BY <1>1, Unborn DEF LifeTypeOK
<1> DEFINE e == Frame("Execute", NoSession, "tell")
           c == SendCall(s)
<1>7. Moved(t, {c, e}) \/ Moved(t, {e})
  <2>1. CASE GotoAndCall(t, "tell", c)
    <3>1. c \in Frames /\ "tell" \in Places /\ Named(c) /\ Rests(c, e) /\ MayGet(t, c)
      BY <1>6, NoneAssumption
         DEF SendCall, Frame, Frames, Calls, Places, Named, Rests, MayGet, Holds, Rights
    <3>2. \A k \in Rights : Holds(e, k) => Holds(Top(t), k) /\ ~(Holds(c, k) /\ c.s = NoSession)
      BY <1>5, <1>6, NoneAssumption DEF Holds, SendCall, Frame
    <3>3. e = Frame("Execute", Of(t), "tell")
      BY <1>4
    <3> HIDE DEF c, e
    <3> QED
      BY <1>1, <1>3, <1>4, <1>5, <2>1, <3>1, <3>2, <3>3, CallMoves
  <2>2. CASE stack' = stack
    BY <1>1, <1>3, <1>4, <2>2, StayMoves
  <2> QED
    BY <1>2, <2>1, <2>2
<1>8. PICK F : Moved(t, F) /\ F \subseteq {c, e}
  BY <1>7
<1>9. LifeTypeOK'
  BY <1>1, <1>2, <1>3, <1>8 DEF LifeTypeOK, Moved, socketVars, sendVars
<1>10. \A u \in Threads : Sits(u, "execute", NoSession)' => executor' = u
  <2>1. Sits(t, "execute", NoSession)
    BY <1>1, <1>3, <1>4, TopHeld DEF Holds, Frame
  <2> QED
    BY <1>1, <1>3, <1>8, <2>1, ExecutorStays DEF Loops
<1>11. /\ \A k \in {"disconnect", "add", "accept"} : ~Holds(Top(t), k)
       /\ ~Holds(Top(t), "unlock")
  BY <1>5 DEF Holds, Frame
<1>12. /\ \A k \in {"recv", "send", "disconnect", "birth", "add", "accept"} :
            ~Holds(e, k) /\ ~Holds(c, k)
       /\ e.s \notin Sessions /\ ~(e.call = "Send" /\ e.at = "lock")
       /\ c.s = s /\ ~(c.call = "Send" /\ c.at = "lock")
  BY NoneAssumption DEF Holds, Frame, SendCall
<1>13. \A x \in Sessions : x \in chosen' \cup audience' => Joined(x)
  BY <1>1, <1>2, <1>3, Unborn
<1>14. registered' = registered
  BY <1>3 DEF sendVars
<1> HIDE DEF e, c
<1>15. \A f \in F : /\ \A k \in {"recv", "send", "disconnect", "birth", "add", "accept"} : ~Holds(f, k)
                    /\ f.s \in Sessions => Joined(f.s)
                    /\ ~(f.call = "Send" /\ f.at = "lock")
  BY <1>6, <1>8, <1>12
<1> QED
  BY <1>1, <1>3, <1>8, <1>9, <1>10, <1>11, <1>13, <1>14, <1>15, QuietStep DEF Loops

\* Everybody was told: the next job, or another worker goes on with the Room.
LEMMA EndJobStep ==
    ASSUME LifeInv, NEW t \in Threads, EndJob(t)
    PROVE  LifeInv'
<1>1. LifeTypeOK /\ Shape /\ Sole /\ Births /\ Loops
  BY DEF LifeInv
<1>2. At(t, "Execute", "tell")
      /\ UNCHANGED <<socketVars, connected, registry, sendVars, lock, chosen, jobs, room,
                     audience, crashed>>
  BY DEF EndJob
<1>3. Of(t) = NoSession
  BY <1>1, <1>2, OfSession
<1> DEFINE e == Frame("Execute", NoSession, "loop")
<1>4. Top(t) = Frame("Execute", NoSession, "tell")
  BY <1>1, <1>2, <1>3, AtTop
<1>5. /\ executor' \in {executor, "global"}
      /\ \E F : F \subseteq {e} /\ Moved(t, F)
      /\ \A u \in Threads : Sits(u, "execute", NoSession)' => executor' = u
  <2>1. CASE Goto(t, "loop") /\ executor' = executor
    <3>1. \A k \in Rights : Holds(Frame("Execute", Of(t), "loop"), k) =>
                Holds(Frame("Execute", Of(t), "tell"), k)
      BY DEF Holds, Frame
    <3>2. "loop" \in Places
      BY DEF Places
    <3>3. Moved(t, {e})
      BY <1>1, <1>2, <1>3, <2>1, <3>1, <3>2, GotoMoves
    <3>4. Sits(t, "execute", NoSession)
      BY <1>1, <1>2, <1>3, TopHeld DEF Holds, Frame
    <3>5. \A u \in Threads : Sits(u, "execute", NoSession)' => executor' = u
      BY <1>1, <2>1, <3>3, <3>4, ExecutorStays DEF Loops
    <3> QED
      BY <2>1, <3>3, <3>5
  <2>2. CASE Return(t) /\ executor' = "global"
    <3>1. Moved(t, {})
      BY <1>1, <1>2, <2>2, ReturnMoves
    <3>2. \A u \in Threads : Sits(u, "execute", NoSession)' => executor' = u
      BY <1>4, <3>1, ExecutorGone DEF Some, Holds, Frame
    <3> QED
      BY <2>2, <3>1, <3>2
  <2> QED
    BY <2>1, <2>2 DEF EndJob
<1>6. PICK F : F \subseteq {e} /\ Moved(t, F)
  BY <1>5
<1>7. LifeTypeOK'
  BY <1>1, <1>2, <1>5, <1>6 DEF LifeTypeOK, Moved, socketVars, sendVars
<1>8. /\ \A k \in {"disconnect", "add", "accept"} : ~Holds(Top(t), k)
      /\ ~Holds(Top(t), "unlock")
  BY <1>4 DEF Holds, Frame
<1>9. /\ \A k \in {"recv", "send", "disconnect", "birth", "add", "accept"} : ~Holds(e, k)
      /\ e.s \notin Sessions /\ ~(e.call = "Send" /\ e.at = "lock")
  BY NoneAssumption DEF Holds, Frame
<1>10. \A x \in Sessions : x \in chosen' \cup audience' => Joined(x)
  BY <1>1, <1>2, Unborn
<1>11. registered' = registered
  BY <1>2 DEF sendVars
<1> HIDE DEF e
<1> QED
  BY <1>1, <1>2, <1>5, <1>6, <1>7, <1>8, <1>9, <1>10, <1>11, QuietStep DEF Loops

\* The Room has no job left.
LEMMA EndExecuteStep ==
    ASSUME LifeInv, NEW t \in Threads, EndExecute(t)
    PROVE  LifeInv'
<1>1. LifeTypeOK /\ Shape /\ Sole /\ Births /\ Loops
  BY DEF LifeInv
<1>2. At(t, "Execute", "loop") /\ Return(t) /\ executor' = NoThread
      /\ UNCHANGED <<socketVars, connected, registry, sendVars, lock, chosen, jobs, room,
                     audience, crashed>>
  BY DEF EndExecute
<1>3. Of(t) = NoSession
  BY <1>1, <1>2, OfSession
<1>4. Top(t) = Frame("Execute", NoSession, "loop")
  BY <1>1, <1>2, <1>3, AtTop
<1>5. Moved(t, {})
  BY <1>1, <1>2, ReturnMoves
<1>6. \A u \in Threads : Sits(u, "execute", NoSession)' => executor' = u
  BY <1>4, <1>5, ExecutorGone DEF Some, Holds, Frame
<1>7. LifeTypeOK'
  BY <1>1, <1>2, <1>5 DEF LifeTypeOK, Moved, socketVars, sendVars
<1>8. /\ \A k \in {"disconnect", "add", "accept"} : ~Holds(Top(t), k)
      /\ ~Holds(Top(t), "unlock")
  BY <1>4 DEF Holds, Frame
<1>9. \A x \in Sessions : x \in chosen' \cup audience' => Joined(x)
  BY <1>1, <1>2, Unborn
<1>10. registered' = registered
  BY <1>2 DEF sendVars
<1> QED
  BY <1>1, <1>2, <1>5, <1>6, <1>7, <1>8, <1>9, <1>10, QuietStep DEF Loops
\* A worker takes the Room from the global queue.
LEMMA TakeGlobalStep ==
    ASSUME LifeInv, NEW t \in Threads, TakeGlobal(t)
    PROVE  LifeInv'
<1>1. LifeTypeOK /\ Shape /\ Sole /\ Births /\ Loops
  BY DEF LifeInv
<1> DEFINE e == Frame("Execute", NoSession, "loop")
<1>2. stack[t] = <<>> /\ executor = "global" /\ executor' = t /\ Start(t, <<e>>)
      /\ UNCHANGED <<socketVars, connected, registry, sendVars, lock, chosen, jobs, room,
                     audience, crashed>>
  BY DEF TakeGlobal, Idle
<1>3. executor \notin Threads
  BY <1>2, NoneAssumption DEF Threads
<1>4. e \in Frames /\ <<e>> \in Seq(Frames) /\ Named(e) /\ Rests(e, Ground)
  BY DEF Frame, Frames, Calls, Places, Named, Rests
<1>5. Turn(t, <<e>>) /\ Top(t) = Ground /\ Base(t) = Ground
  BY <1>1, <1>2, <1>4, Started
<1>6. MayGet(t, e)
  <2>1. ~Held("execute", NoSession)
    BY <1>1, <1>3 DEF Loops, Held
  <2> QED
    BY <2>1 DEF MayGet, Holds, Frame, Rights
<1>7. Moved(t, {e})
  <2> HIDE DEF e
  <2> QED
    BY <1>1, <1>4, <1>5, <1>6, Move1
<1>8. LifeTypeOK'
  BY <1>1, <1>2, <1>7 DEF LifeTypeOK, Moved, socketVars, sendVars
<1>9. \A u \in Threads : Sits(u, "execute", NoSession)' => executor' = u
  BY <1>1, <1>2, <1>3, <1>7, ExecutorTaken
<1>10. \A k \in {"disconnect", "add", "accept", "unlock"} : ~Holds(Top(t), k)
  BY <1>5 DEF Holds, Ground, Frame
<1>11. /\ \A k \in {"recv", "send", "disconnect", "birth", "add", "accept"} : ~Holds(e, k)
       /\ e.s \notin Sessions /\ ~(e.call = "Send" /\ e.at = "lock")
  BY NoneAssumption DEF Holds, Frame
<1>12. \A x \in Sessions : x \in chosen' \cup audience' => Joined(x)
  BY <1>1, <1>2, Unborn
<1>13. registered' = registered
  BY <1>2 DEF sendVars
<1> HIDE DEF e
<1> QED
  BY <1>1, <1>2, <1>7, <1>8, <1>9, <1>10, <1>11, <1>12, <1>13, QuietStep DEF Loops

\* The client's main thread takes the registry's lock and a copy of the registry's names.
LEMMA BeginBroadcastStep ==
    ASSUME LifeInv, BeginBroadcast
    PROVE  LifeInv'
<1>1. LifeTypeOK /\ Shape /\ Sole /\ Births /\ Loops
  BY DEF LifeInv
<1> DEFINE e == Frame("Broadcast", NoSession, "send")
<1>2. /\ ~Server /\ stack[Main] = <<>> /\ Start(Main, <<e>>)
      /\ lock' = [lock EXCEPT ![Service] = Main] /\ audience' = registry
      /\ UNCHANGED <<socketVars, connected, registry, sendVars, chosen, jobs, executor, room,
                     crashed>>
  BY DEF BeginBroadcast
<1>3. Main \in Threads
  BY <1>2 DEF Threads
<1>4. e \in Frames /\ <<e>> \in Seq(Frames) /\ Named(e) /\ Rests(e, Ground)
  BY DEF Frame, Frames, Calls, Places, Named, Rests
<1>5. Turn(Main, <<e>>) /\ Top(Main) = Ground /\ Base(Main) = Ground
  BY <1>1, <1>2, <1>3, <1>4, Started
<1>6. MayGet(Main, e)
  BY DEF MayGet, Holds, Frame, Rights
<1>7. Moved(Main, {e})
  <2> HIDE DEF e
  <2> QED
    BY <1>1, <1>3, <1>4, <1>5, <1>6, Move1
<1>8. LifeTypeOK'
  BY <1>1, <1>2, <1>3, <1>7 DEF LifeTypeOK, Moved, socketVars, sendVars, Threads
<1>9. \A u \in Threads : Sits(u, "execute", NoSession)' => executor' = u
  <2>1. ~Some({e}, "execute", NoSession)
    BY DEF Some, Holds, Frame
  <2> HIDE DEF e
  <2> QED
    BY <1>1, <1>2, <1>3, <1>7, <2>1, ExecutorStays
<1>10. \A k \in {"disconnect", "add", "accept", "unlock"} : ~Holds(Top(Main), k)
  BY <1>5 DEF Holds, Ground, Frame
<1>11. /\ \A k \in {"recv", "send", "disconnect", "birth", "add", "accept"} : ~Holds(e, k)
       /\ e.s \notin Sessions /\ ~(e.call = "Send" /\ e.at = "lock")
  BY NoneAssumption DEF Holds, Frame
<1>12. \A x \in Sessions : x \in chosen' \cup audience' => Joined(x)
  BY <1>1, <1>2, Unborn
<1>13. registered' = registered
  BY <1>2 DEF sendVars
<1>14. (\A s \in Sessions : lock'[s] = lock[s]) /\ lock'[Service] = Main
  BY <1>1, <1>2, NoneAssumption DEF LifeTypeOK, Locks, Service
<1> HIDE DEF e
<1> QED
  BY <1>1, <1>2, <1>3, <1>7, <1>8, <1>9, <1>10, <1>11, <1>12, <1>13, <1>14, QuietStep

\* Broadcast sends to one session.
LEMMA BroadcastSendStep ==
    ASSUME LifeInv, BroadcastSend
    PROVE  LifeInv'
<1>1. LifeTypeOK /\ Shape /\ Sole /\ Births /\ Loops
  BY DEF LifeInv
<1>2. PICK s \in audience : /\ audience' = audience \ {s}
                            /\ GotoAndCall(Main, "send", SendCall(s))
  BY DEF BroadcastSend
<1>3. /\ ~Server /\ At(Main, "Broadcast", "send")
      /\ UNCHANGED <<socketVars, connected, registry, sendVars, lock, chosen, jobs, executor,
                     room, crashed>>
  BY DEF BroadcastSend
<1>4. Main \in Threads
  BY <1>3 DEF Threads
<1>5. Of(Main) = NoSession
  BY <1>1, <1>3, <1>4, OfSession
<1> DEFINE e == Frame("Broadcast", NoSession, "send")
           c == SendCall(s)
<1>6. Top(Main) = e
  BY <1>1, <1>3, <1>4, <1>5, AtTop
<1>7. Joined(s) /\ s \in Sessions
  BY <1>1, Unborn DEF LifeTypeOK
<1>8. Moved(Main, {c, e})
  <2>1. c \in Frames /\ "send" \in Places /\ Named(c) /\ Rests(c, e) /\ MayGet(Main, c)
    BY <1>7, NoneAssumption
       DEF SendCall, Frame, Frames, Calls, Places, Named, Rests, MayGet, Holds, Rights
  <2>2. \A k \in Rights : ~Holds(e, k)
    BY DEF Holds, Frame, Rights
  <2>3. e = Frame("Broadcast", Of(Main), "send")
    BY <1>5
  <2>4. GotoAndCall(Main, "send", c)
    BY <1>2
  <2> HIDE DEF c, e
  <2> QED
    BY <1>1, <1>3, <1>4, <2>1, <2>2, <2>3, <2>4, CallMoves
<1>9. LifeTypeOK'
  BY <1>1, <1>2, <1>3, <1>8 DEF LifeTypeOK, Moved, socketVars, sendVars
<1>10. \A u \in Threads : Sits(u, "execute", NoSession)' => executor' = u
  <2>1. ~Some({c, e}, "execute", NoSession)
    BY DEF Some, Holds, Frame, SendCall
  <2> HIDE DEF c, e
  <2> QED
    BY <1>1, <1>3, <1>4, <1>8, <2>1, ExecutorStays
<1>11. \A k \in {"disconnect", "add", "accept", "unlock"} : ~Holds(Top(Main), k)
  BY <1>6 DEF Holds, Frame
<1>12. /\ \A k \in {"recv", "send", "disconnect", "birth", "add", "accept"} :
            ~Holds(e, k) /\ ~Holds(c, k)
       /\ e.s \notin Sessions /\ ~(e.call = "Send" /\ e.at = "lock")
       /\ c.s = s /\ ~(c.call = "Send" /\ c.at = "lock")
  BY NoneAssumption DEF Holds, Frame, SendCall
<1>13. \A x \in Sessions : x \in chosen' \cup audience' => Joined(x)
  BY <1>1, <1>2, <1>3, Unborn
<1>14. registered' = registered
  BY <1>3 DEF sendVars
<1> HIDE DEF e, c
<1>15. \A f \in {c, e} :
        /\ \A k \in {"recv", "send", "disconnect", "birth", "add", "accept"} : ~Holds(f, k)
        /\ f.s \in Sessions => Joined(f.s)
        /\ ~(f.call = "Send" /\ f.at = "lock")
  BY <1>7, <1>12
<1> QED
  BY <1>1, <1>3, <1>4, <1>8, <1>9, <1>10, <1>11, <1>13, <1>14, <1>15, QuietStep DEF Loops

\* Broadcast gives the registry's lock back.
LEMMA EndBroadcastStep ==
    ASSUME LifeInv, EndBroadcast
    PROVE  LifeInv'
<1>1. LifeTypeOK /\ Shape /\ Sole /\ Births /\ Loops
  BY DEF LifeInv
<1>2. /\ ~Server /\ At(Main, "Broadcast", "send") /\ Return(Main)
      /\ lock' = [lock EXCEPT ![Service] = NoThread]
      /\ UNCHANGED <<socketVars, connected, registry, sendVars, roomVars, crashed>>
  BY DEF EndBroadcast
<1>3. Main \in Threads
  BY <1>2 DEF Threads
<1>4. Top(Main) = Frame("Broadcast", Of(Main), "send")
  BY <1>1, <1>2, <1>3, AtTop
<1>5. Moved(Main, {})
  BY <1>1, <1>2, <1>3, ReturnMoves
<1>6. LifeTypeOK'
  BY <1>1, <1>2, <1>5 DEF LifeTypeOK, Moved, socketVars, sendVars, roomVars
<1>7. \A u \in Threads : Sits(u, "execute", NoSession)' => executor' = u
  BY <1>1, <1>2, <1>3, <1>5, ExecutorStays DEF Some, roomVars
<1>8. \A k \in {"disconnect", "add", "accept", "unlock"} : ~Holds(Top(Main), k)
  BY <1>4 DEF Holds, Frame
<1>9. \A x \in Sessions : x \in chosen' \cup audience' => Joined(x)
  BY <1>1, <1>2, Unborn DEF roomVars
<1>10. registered' = registered
  BY <1>2 DEF sendVars
<1>11. (\A s \in Sessions : lock'[s] = lock[s]) /\ lock'[Service] = NoThread
  BY <1>1, <1>2, NoneAssumption DEF LifeTypeOK, Locks, Service
<1> QED
  BY <1>1, <1>2, <1>3, <1>5, <1>6, <1>7, <1>8, <1>9, <1>10, <1>11, QuietStep
-----------------------------------------------------------------------------
(* The steps of receiving and sending *)

\* A call for a session goes on, or is over, and nothing but its stack and the send queue
\* changes.
LEMMA QuietCalls ==
    ASSUME LifeInv, NEW t \in Threads, NEW call, NEW at, At(t, call, at),
           Of(t) \in Sessions, call # "ProcessConnect", NEW F, Moved(t, F),
           UNCHANGED <<socketVars, connected, registry, registered, lock, roomVars, crashed>>,
           queued' \subseteq Sessions,
           \A f \in F : /\ f.s = Of(t) /\ ~(f.call = "Send" /\ f.at = "lock")
                        /\ ~Holds(f, "execute")
                        /\ \A k \in {"recv", "send", "disconnect", "birth", "add", "accept"} :
                                Holds(f, k) => Holds(Frame(call, Of(t), at), k),
           \A k \in {"disconnect", "add", "accept", "unlock"} :
                ~Holds(Frame(call, Of(t), at), k)
    PROVE  LifeInv'
<1>1. LifeTypeOK /\ Shape /\ Sole /\ Births /\ Loops
  BY DEF LifeInv
<1>2. Top(t) = Frame(call, Of(t), at) /\ Top(t).s = Of(t)
  BY <1>1, AtTop DEF Frame
<1>3. Joined(Of(t))
  BY <1>1, UserJoined
<1>4. LifeTypeOK'
  BY <1>1 DEF LifeTypeOK, Moved, socketVars, roomVars
<1>5. \A u \in Threads : Sits(u, "execute", NoSession)' => executor' = u
  <2>1. ~Some(F, "execute", NoSession)
    BY DEF Some
  <2> QED
    BY <1>1, <2>1, ExecutorStays DEF roomVars
<1>6. \A x \in Sessions : x \in chosen' \cup audience' => Joined(x)
  BY <1>1, Unborn DEF roomVars
<1> QED
  BY <1>1, <1>2, <1>3, <1>4, <1>5, <1>6, QuietStep DEF Loops

\* Send without a connection, or on the way to the lock.
LEMMA CheckSendStep ==
    ASSUME LifeInv, NEW t \in Threads, CheckSend(t)
    PROVE  LifeInv'
<1>1. LifeTypeOK /\ Shape /\ Sole /\ Kernel /\ Births /\ Flags /\ Loops /\ NoReentry /\ ~crashed
  BY DEF LifeInv
<1>2. At(t, "Send", "check")
      /\ UNCHANGED <<socketVars, connected, registry, sendVars, lock, roomVars, crashed>>
  BY DEF CheckSend
<1>3. PICK s \in Sessions : s = Of(t)
  BY <1>1, <1>2, OfSession
<1>4. Top(t) = Frame("Send", s, "check")
  BY <1>1, <1>2, <1>3, AtTop
<1>5. Joined(s)
  BY <1>1, <1>2, <1>3, UserJoined
<1>6. queued' \subseteq Sessions /\ registered' = registered
  BY <1>1, <1>2 DEF LifeTypeOK, sendVars
<1>7. CASE ~connected[s]
  <2>1. Moved(t, {})
    BY <1>1, <1>2, <1>3, <1>7, ReturnMoves DEF CheckSend
  <2>2. \A k \in {"disconnect", "add", "accept", "unlock"} : ~Holds(Frame("Send", s, "check"), k)
    BY DEF Holds, Frame
  <2>3. PICK F : F = {}
    OBVIOUS
  <2>4. PICK call : call = "Send"
    OBVIOUS
  <2> QED
    BY <1>2, <1>3, <1>6, <2>1, <2>2, <2>3, <2>4, QuietCalls
<1>8. CASE connected[s]
  <2> DEFINE c == Frame("Send", s, "lock")
  <2>1. Moved(t, {c})
    <3>1. Goto(t, "lock") /\ "lock" \in Places
      BY <1>3, <1>8 DEF CheckSend, Places
    <3>2. \A k \in Rights : ~Holds(Frame("Send", s, "lock"), k)
      BY DEF Holds, Frame, Rights
    <3> QED
      BY <1>1, <1>2, <1>3, <3>1, <3>2, GotoMoves
  <2>2. LifeTypeOK'
    BY <1>1, <1>2, <2>1 DEF LifeTypeOK, Moved, socketVars, sendVars, roomVars
  <2>3. \A k \in Rights : ~Holds(c, k) /\ ~Holds(Top(t), k)
    BY <1>4 DEF Holds, Frame, Rights
  <2>4. c.s = s /\ c.call = "Send" /\ ~Holds(Top(t), "unlock") /\ ~Holds(c, "execute")
    BY <1>4 DEF Frame, Holds
  <2> HIDE DEF c
  <2>5. \A k \in Rights : \A x : Held(k, x)' <=> Held(k, x)
    BY <2>1, <2>3 DEF Moved, Some
  <2>6. Sole' /\ Shape'
    BY <2>1 DEF Moved
  <2>7. Kernel'
    BY <1>1, <1>2, <2>5, KernelKept DEF NoMore, Rights, socketVars
  <2>8. Births'
    <3>1. NoMore({"birth"})
      BY <2>5 DEF NoMore, Rights
    <3>2. \A x \in Sessions : Held("use", x)' => Held("use", x) \/ x = s
      BY <2>1, <2>4 DEF Moved, Some
    <3>3. \A x \in Sessions :
            x \in chosen' \cup audience' \cup registered' \/ Held("use", x)' => Joined(x)
      BY <1>1, <1>2, <1>5, <1>6, <3>2, Unborn DEF roomVars
    <3>4. \A x \in Sessions : \A k \in Kinds \ {"connect"} : pending'[x][k] > 0 => Joined(x)
      BY <1>1, <1>2, Unborn DEF socketVars
    <3> QED
      BY <1>1, <1>2, <3>1, <3>3, <3>4, BirthsKept DEF socketVars
  <2>9. Flags'
    <3>1. \A x \in Sessions :
            /\ Held("send", x)' \/ pending'[x]["send"] = 1 => x \in registered'
            /\ pending'[x]["disconnect"] = 1 => pending[x]["disconnect"] = 1
            /\ Held("disconnect", x)' <=> Held("disconnect", x)
            /\ Held("add", x)' <=> Held("add", x)
      BY <1>1, <1>2, <1>6, <2>5 DEF Flags, Rights, socketVars
    <3> QED
      BY <1>1, <1>2, <3>1, FlagsKept
  <2>10. Loops'
    <3>1. ~Some({c}, "execute", NoSession)
      BY <2>4 DEF Some
    <3>2. Held("accept", NoSession)' <=> Held("accept", NoSession)
      BY <2>5 DEF Rights
    <3> QED
      BY <1>1, <1>2, <2>1, <2>4, <3>1, <3>2, LoopsKept DEF socketVars, roomVars
  <2>11. NoReentry'
    <3> SUFFICES ASSUME NEW u \in Threads, At(u, "Send", "lock")'
                 PROVE  ~Sits(u, "disconnect", Of(u))'
      BY DEF NoReentry, Threads
    <3>1. CASE u = t
      <4>1. Of(t)' = s
        BY <2>1, <2>4, <3>1 DEF Moved
      <4>2. ~Held("disconnect", s)'
        BY <1>1, <1>8, <2>5 DEF Flags, Rights
      <4>3. ~Sits(t, "disconnect", s)'
        BY <4>2 DEF Held, Threads
      <4> QED
        BY <3>1, <4>1, <4>3 DEF Sits
    <3>2. CASE u # t
      <4>1. stack'[u] = stack[u]
        BY <2>1, <3>2 DEF Moved
      <4>2. At(u, "Send", "lock") /\ Of(u)' = Of(u)
        BY <4>1 DEF At, Of
      <4>3. ~Sits(u, "disconnect", Of(u))
        BY <1>1, <4>2 DEF NoReentry
      <4> QED
        BY <4>1, <4>2, <4>3 DEF Sits, Holds
    <3> QED
      BY <3>1, <3>2
  <2> QED
    BY <1>1, <1>2, <2>2, <2>6, <2>7, <2>8, <2>9, <2>10, <2>11 DEF LifeInv
<1> QED
  BY <1>7, <1>8
\* An OVERLAPPED goes to the kernel or comes back from it.
LEMMA HandOver ==
    ASSUME LifeTypeOK, NEW s \in Sessions, NEW k \in Kinds, NEW n \in Int, Hand(s, k, n)
    PROVE  /\ pending'[s][k] = pending[s][k] + n
           /\ \A x \in Sessions : \A j \in Kinds :
                x # s \/ j # k => pending'[x][j] = pending[x][j]
           /\ pending[s][k] + n \in Nat => pending' \in [Sessions -> [Kinds -> Nat]]
BY DEF Hand, LifeTypeOK

\* A call for a session that has joined does not disturb the order of a session's life.
LEMMA BirthsOfUser ==
    ASSUME Births, NEW t \in Threads, NEW F, Moved(t, F), NEW s \in Sessions, Joined(s),
           UNCHANGED <<created, established, accepting, listening, chosen, audience>>,
           \A x \in Sessions : \A k \in Kinds :
                x # s \/ k = "connect" => pending'[x][k] = pending[x][k],
           registry' \subseteq registry, registered' \subseteq registered \cup {s},
           \A f \in F : f.s = s /\ ~Holds(f, "birth")
    PROVE  Births'
<1>1. NoMore({"birth"})
  BY DEF NoMore, Moved, Some
<1>2. \A x \in Sessions : Held("use", x)' => Held("use", x) \/ x = s
  BY DEF Moved, Some
<1>3. \A x \in Sessions :
        x \in chosen' \cup audience' \cup registered' \/ Held("use", x)' => Joined(x)
  BY <1>2, Unborn
<1>4. ASSUME NEW x \in Sessions, NEW k \in Kinds \ {"connect"}, pending'[x][k] > 0
      PROVE  Joined(x)
  BY <1>4, Unborn
<1>5. \A x \in Sessions : pending'[x]["connect"] = pending[x]["connect"]
  BY DEF Kinds
<1> QED
  BY <1>1, <1>3, <1>4, <1>5, BirthsKept

\* WSARecv: the event is the kernel's, or receiving is over.
LEMMA WSARecvStep ==
    ASSUME LifeInv, NEW t \in Threads, WSARecv(t)
    PROVE  LifeInv'
<1>1. LifeTypeOK /\ Shape /\ Sole /\ Kernel /\ Births /\ Flags /\ Loops /\ NoReentry /\ ~crashed
  BY DEF LifeInv
<1>2. At(t, "RegisterRecv", "issue")
      /\ UNCHANGED <<created, established, accepting, listening, connected, registry,
                     sendVars, lock, roomVars, crashed>>
  BY DEF WSARecv
<1>3. PICK s \in Sessions : s = Of(t)
  BY <1>1, <1>2, OfSession
<1>4. Top(t) = Frame("RegisterRecv", s, "issue") /\ Rests(Top(t), Base(t))
  BY <1>1, <1>2, <1>3, AtTop
<1>5. Joined(s)
  BY <1>1, <1>2, <1>3, UserJoined
<1>6. queued' \subseteq Sessions /\ registered' = registered
  BY <1>1, <1>2 DEF LifeTypeOK, sendVars
<1>7. PICK call, at : call = "RegisterRecv" /\ at = "issue"
  OBVIOUS
<1>8. CASE pending' = pending
  <2> DEFINE d == DisconnectCall(s)
  <2>1. PICK F : F \subseteq {d} /\ Moved(t, F)
    <3>1. CASE Return(t)
      BY <1>1, <1>2, <3>1, ReturnMoves
    <3>2. CASE ReturnAndCall(t, d)
      <4>1. d \in Frames /\ Named(d) /\ Rests(d, Base(t)) /\ MayGet(t, d)
        BY <1>4, NoneAssumption DEF DisconnectCall, Frame, Frames, Calls, Places, Named,
                                    Rests, MayGet, Holds, Rights
      <4> HIDE DEF d
      <4> QED
        BY <1>1, <1>2, <3>2, <4>1, TailCallMoves
    <3> QED
      BY <1>3, <3>1, <3>2 DEF WSARecv
  <2>2. /\ d.s = s /\ ~(d.call = "Send" /\ d.at = "lock") /\ ~Holds(d, "execute")
        /\ \A k \in {"recv", "send", "disconnect", "birth", "add", "accept"} : ~Holds(d, k)
    BY DEF DisconnectCall, Frame, Holds
  <2>3. \A k \in {"disconnect", "add", "accept", "unlock"} :
            ~Holds(Frame("RegisterRecv", s, "issue"), k)
    BY DEF Holds, Frame
  <2>4. UNCHANGED <<socketVars, connected, registry, registered, lock, roomVars, crashed>>
    BY <1>2, <1>6, <1>8 DEF socketVars
  <2> HIDE DEF d
  <2> QED
    BY <1>2, <1>3, <1>6, <1>7, <2>1, <2>2, <2>3, <2>4, QuietCalls
<1>9. CASE Hand(s, "recv", 1) /\ Return(t)
  <2>1. Moved(t, {})
    BY <1>1, <1>2, <1>9, ReturnMoves
  <2>2. /\ pending'[s]["recv"] = pending[s]["recv"] + 1
        /\ \A x \in Sessions : \A k \in Kinds :
            x # s \/ k # "recv" => pending'[x][k] = pending[x][k]
        /\ pending[s]["recv"] + 1 \in Nat => pending' \in [Sessions -> [Kinds -> Nat]]
    BY <1>1, <1>9, HandOver DEF Kinds
  <2>3. Held("recv", s) /\ pending[s]["recv"] = 0
    <3>1. Held("recv", s)
      BY <1>1, <1>2, <1>3, TopHeld DEF Holds, Frame
    <3> QED
      BY <1>1, <3>1 DEF Kernel, Kinds
  <2>4. LifeTypeOK'
    BY <1>1, <1>2, <2>1, <2>2, <2>3 DEF LifeTypeOK, Moved, sendVars, roomVars
  <2>5. ~Held("recv", s)' /\ \A k \in {"recv", "send", "disconnect", "add"} :
                                \A x : Held(k, x)' => Held(k, x)
    BY <1>4, <2>1 DEF Moved, Some, Holds, Frame, Rights
  <2>6. \A k \in {"disconnect", "add", "accept"} : \A x : Held(k, x)' <=> Held(k, x)
    BY <1>4, <2>1 DEF Moved, Some, Holds, Frame, Rights
  <2>7. Sole' /\ Shape'
    BY <2>1 DEF Moved
  <2>8. Kernel'
    <3> SUFFICES ASSUME NEW x \in Sessions, NEW k \in Kinds
                 PROVE  /\ pending'[x][k] \in 0..1
                        /\ k # "connect" /\ pending'[x][k] = 1 => ~Held(k, x)'
      BY DEF Kernel
    <3>1. CASE x = s /\ k = "recv"
      BY <2>2, <2>3, <2>5, <3>1
    <3>2. CASE x # s \/ k # "recv"
      BY <1>1, <2>2, <2>5, <3>2 DEF Kernel, Kinds
    <3> QED
      BY <3>1, <3>2
  <2>9. Births'
    <3>1. PICK F : F = {}
      OBVIOUS
    <3>2. \A x \in Sessions : \A k \in Kinds :
                x # s \/ k = "connect" => pending'[x][k] = pending[x][k]
      BY <2>2
    <3> QED
      BY <1>1, <1>2, <1>5, <1>6, <2>1, <3>1, <3>2, BirthsOfUser DEF roomVars
  <2>10. Flags'
    <3>1. \A x \in Sessions :
            /\ Held("send", x)' \/ pending'[x]["send"] = 1 => x \in registered'
            /\ pending'[x]["disconnect"] = 1 => pending[x]["disconnect"] = 1
            /\ Held("disconnect", x)' <=> Held("disconnect", x)
            /\ Held("add", x)' <=> Held("add", x)
      BY <1>1, <1>6, <2>2, <2>5, <2>6 DEF Flags, Kinds
    <3> QED
      BY <1>1, <1>2, <3>1, FlagsKept
  <2>11. Loops'
    <3>1. ~Holds(Top(t), "unlock")
      BY <1>4 DEF Holds, Frame
    <3> QED
      BY <1>1, <1>2, <2>1, <2>6, <3>1, LoopsKept DEF Some, roomVars
  <2>12. NoReentry'
    BY <1>1, <2>1, NoReentryKept
  <2> QED
    BY <1>1, <1>2, <2>4, <2>7, <2>8, <2>9, <2>10, <2>11, <2>12 DEF LifeInv
<1> QED
  BY <1>3, <1>8, <1>9 DEF WSARecv

\* Send, under the lock: the first to set _sendRegistered calls RegisterSend.
LEMMA PushSendStep ==
    ASSUME LifeInv, NEW t \in Threads, PushSend(t)
    PROVE  LifeInv'
<1>1. LifeTypeOK /\ Shape /\ Sole /\ Kernel /\ Births /\ Flags /\ Loops /\ NoReentry /\ ~crashed
  BY DEF LifeInv
<1>2. At(t, "Send", "lock") /\ queued' = queued \cup {Of(t)}
      /\ registered' = registered \cup {Of(t)}
      /\ UNCHANGED <<socketVars, connected, registry, lock, roomVars, crashed>>
  BY DEF PushSend
<1>3. PICK s \in Sessions : s = Of(t)
  BY <1>1, <1>2, OfSession
<1>4. Top(t) = Frame("Send", s, "lock") /\ Rests(Top(t), Base(t))
  BY <1>1, <1>2, <1>3, AtTop
<1>5. Joined(s)
  BY <1>1, <1>2, <1>3, UserJoined
<1>6. queued' \subseteq Sessions
  BY <1>1, <1>2, <1>3 DEF LifeTypeOK
<1>7. CASE s \in registered
  <2>1. Moved(t, {}) /\ registered' = registered
    BY <1>1, <1>2, <1>3, <1>7, ReturnMoves DEF PushSend
  <2>2. \A k \in {"disconnect", "add", "accept", "unlock"} : ~Holds(Frame("Send", s, "lock"), k)
    BY DEF Holds, Frame
  <2>3. PICK F : F = {}
    OBVIOUS
  <2>4. PICK call : call = "Send"
    OBVIOUS
  <2> QED
    BY <1>2, <1>3, <1>6, <2>1, <2>2, <2>3, <2>4, QuietCalls
<1>8. CASE s \notin registered
  <2> DEFINE r == Frame("RegisterSend", s, "check")
  <2>1. ~Held("send", s) /\ pending[s]["send"] # 1
    BY <1>1, <1>8 DEF Flags
  <2>2. Moved(t, {r})
    <3>1. ReturnAndCall(t, r)
      BY <1>3, <1>8 DEF PushSend
    <3>2. r \in Frames /\ Named(r) /\ Rests(r, Base(t)) /\ MayGet(t, r)
      BY <1>4, <2>1, NoneAssumption DEF Frame, Frames, Calls, Places, Named,
                                        Rests, MayGet, Holds, Rights
    <3> HIDE DEF r
    <3> QED
      BY <1>1, <1>2, <3>1, <3>2, TailCallMoves
  <2>3. LifeTypeOK'
    BY <1>1, <1>2, <1>3, <2>2 DEF LifeTypeOK, Moved, socketVars, roomVars
  <2>4. \A k \in {"recv", "disconnect", "birth", "add", "accept", "execute"} : ~Holds(r, k)
    BY DEF Holds, Frame
  <2>5. \A k \in Rights : ~Holds(Top(t), k)
    BY <1>4 DEF Holds, Frame, Rights
  <2>6. r.s = s /\ ~(r.call = "Send" /\ r.at = "lock") /\ ~Holds(Top(t), "unlock")
    BY <1>4 DEF Frame, Holds
  <2> HIDE DEF r
  <2>7. /\ \A k \in {"recv", "disconnect", "birth", "add", "accept"} :
                \A x : Held(k, x)' <=> Held(k, x)
        /\ \A x : Held("send", x)' => Held("send", x) \/ x = s
    BY <2>2, <2>4, <2>5, <2>6 DEF Moved, Some, Rights
  <2>8. Sole' /\ Shape'
    BY <2>2 DEF Moved
  <2>9. Kernel'
    BY <1>1, <1>2, <2>1, <2>7 DEF Kernel, Kinds, socketVars
  <2>10. Births'
    BY <1>1, <1>2, <1>3, <1>5, <2>2, <2>4, <2>6, BirthsOfUser DEF socketVars, roomVars
  <2>11. Flags'
    <3>1. \A x \in Sessions :
            /\ Held("send", x)' \/ pending'[x]["send"] = 1 => x \in registered'
            /\ pending'[x]["disconnect"] = 1 => pending[x]["disconnect"] = 1
            /\ Held("disconnect", x)' <=> Held("disconnect", x)
            /\ Held("add", x)' <=> Held("add", x)
      BY <1>1, <1>2, <1>3, <2>7 DEF Flags, socketVars
    <3> QED
      BY <1>1, <1>2, <3>1, FlagsKept
  <2>12. Loops'
    <3>1. ~Some({r}, "execute", NoSession)
      BY <2>4 DEF Some
    <3> QED
      BY <1>1, <1>2, <2>2, <2>6, <2>7, <3>1, LoopsKept DEF socketVars, roomVars
  <2>13. NoReentry'
    BY <1>1, <2>2, <2>6, NoReentryKept
  <2> QED
    BY <1>1, <1>2, <2>3, <2>8, <2>9, <2>10, <2>11, <2>12, <2>13 DEF LifeInv
<1> QED
  BY <1>7, <1>8
\* What goes to the kernel or comes back changes its share.
LEMMA NotHanded ==
    ASSUME LifeTypeOK, NEW s \in Sessions, NEW k \in Kinds, NEW n \in Int, n # 0,
           Hand(s, k, n)
    PROVE  pending' # pending
<1>1. pending'[s][k] = pending[s][k] + n
  BY HandOver
<1>2. pending[s][k] \in Nat
  BY DEF LifeTypeOK
<1> QED
  BY <1>1, <1>2

\* WSASend: the event is the kernel's, or the flag is next, after a Disconnect or not.
LEMMA WSASendStep ==
    ASSUME LifeInv, NEW t \in Threads, WSASend(t)
    PROVE  LifeInv'
<1>1. LifeTypeOK /\ Shape /\ Sole /\ Kernel /\ Births /\ Flags /\ Loops /\ NoReentry /\ ~crashed
  BY DEF LifeInv
<1>2. At(t, "RegisterSend", "issue")
      /\ UNCHANGED <<created, established, accepting, listening, connected, registry,
                     sendVars, lock, roomVars, crashed>>
  BY DEF WSASend
<1>3. PICK s \in Sessions : s = Of(t)
  BY <1>1, <1>2, OfSession
<1>4. Top(t) = Frame("RegisterSend", s, "issue") /\ Rests(Top(t), Base(t))
  BY <1>1, <1>2, <1>3, AtTop
<1>5. Joined(s)
  BY <1>1, <1>2, <1>3, UserJoined
<1>6. queued' \subseteq Sessions /\ registered' = registered
  BY <1>1, <1>2 DEF LifeTypeOK, sendVars
<1>7. PICK call, at : call = "RegisterSend" /\ at = "issue"
  OBVIOUS
<1>8. CASE pending' = pending
  <2> DEFINE d == DisconnectCall(s)
             c == Frame("RegisterSend", s, "clear")
  <2>1. "clear" \in Places
        /\ \A k \in Rights : Holds(c, k) => Holds(Frame("RegisterSend", s, "issue"), k)
    BY DEF Places, Holds, Frame
  <2>2. PICK F : F \subseteq {d, c} /\ Moved(t, F)
    <3>1. CASE Goto(t, "clear")
      <4>1. Moved(t, {c})
        BY <1>1, <1>2, <1>3, <2>1, <3>1, GotoMoves
      <4> QED
        BY <4>1
    <3>2. CASE GotoAndCall(t, "clear", d)
      <4>1. d \in Frames /\ Named(d) /\ Rests(d, c) /\ MayGet(t, d)
        BY NoneAssumption DEF DisconnectCall, Frame, Frames, Calls, Places, Named,
                              Rests, MayGet, Holds, Rights
      <4>2. \A k \in Rights : ~Holds(d, k)
        BY DEF DisconnectCall, Frame, Holds, Rights
      <4>3. c = Frame("RegisterSend", Of(t), "clear")
        BY <1>3
      <4> HIDE DEF d, c
      <4>4. Moved(t, {d, c})
        BY <1>1, <1>2, <1>3, <2>1, <3>2, <4>1, <4>2, <4>3, CallMoves
      <4> QED
        BY <4>4
    <3> QED
      BY <1>1, <1>3, <1>8, <3>1, <3>2, NotHanded DEF WSASend, Kinds
  <2>3. /\ d.s = s /\ ~(d.call = "Send" /\ d.at = "lock") /\ ~Holds(d, "execute")
        /\ \A k \in {"recv", "send", "disconnect", "birth", "add", "accept"} : ~Holds(d, k)
        /\ c.s = s /\ ~(c.call = "Send" /\ c.at = "lock") /\ ~Holds(c, "execute")
        /\ \A k \in {"recv", "send", "disconnect", "birth", "add", "accept"} :
                Holds(c, k) => Holds(Frame("RegisterSend", s, "issue"), k)
    BY DEF DisconnectCall, Frame, Holds
  <2>4. \A k \in {"disconnect", "add", "accept", "unlock"} :
            ~Holds(Frame("RegisterSend", s, "issue"), k)
    BY DEF Holds, Frame
  <2>5. UNCHANGED <<socketVars, connected, registry, registered, lock, roomVars, crashed>>
    BY <1>2, <1>6, <1>8 DEF socketVars
  <2> HIDE DEF d, c
  <2> QED
    BY <1>2, <1>3, <1>6, <1>7, <2>2, <2>3, <2>4, <2>5, QuietCalls
<1>9. CASE Hand(s, "send", 1) /\ Return(t)
  <2>1. Moved(t, {})
    BY <1>1, <1>2, <1>9, ReturnMoves
  <2>2. /\ pending'[s]["send"] = pending[s]["send"] + 1
        /\ \A x \in Sessions : \A k \in Kinds :
            x # s \/ k # "send" => pending'[x][k] = pending[x][k]
        /\ pending[s]["send"] + 1 \in Nat => pending' \in [Sessions -> [Kinds -> Nat]]
    BY <1>1, <1>9, HandOver DEF Kinds
  <2>3. Held("send", s) /\ pending[s]["send"] = 0
    <3>1. Held("send", s)
      BY <1>1, <1>2, <1>3, TopHeld DEF Holds, Frame
    <3> QED
      BY <1>1, <3>1 DEF Kernel, Kinds
  <2>4. LifeTypeOK'
    BY <1>1, <1>2, <2>1, <2>2, <2>3 DEF LifeTypeOK, Moved, sendVars, roomVars
  <2>5. ~Held("send", s)' /\ \A k \in {"recv", "send", "disconnect", "add"} :
                                \A x : Held(k, x)' => Held(k, x)
    BY <1>4, <2>1 DEF Moved, Some, Holds, Frame, Rights
  <2>6. \A k \in {"disconnect", "add", "accept"} : \A x : Held(k, x)' <=> Held(k, x)
    BY <1>4, <2>1 DEF Moved, Some, Holds, Frame, Rights
  <2>7. Sole' /\ Shape'
    BY <2>1 DEF Moved
  <2>8. Kernel'
    <3> SUFFICES ASSUME NEW x \in Sessions, NEW k \in Kinds
                 PROVE  /\ pending'[x][k] \in 0..1
                        /\ k # "connect" /\ pending'[x][k] = 1 => ~Held(k, x)'
      BY DEF Kernel
    <3>1. CASE x = s /\ k = "send"
      BY <2>2, <2>3, <2>5, <3>1
    <3>2. CASE x # s \/ k # "send"
      BY <1>1, <2>2, <2>5, <3>2 DEF Kernel, Kinds
    <3> QED
      BY <3>1, <3>2
  <2>9. Births'
    <3>1. PICK F : F = {}
      OBVIOUS
    <3>2. \A x \in Sessions : \A k \in Kinds :
                x # s \/ k = "connect" => pending'[x][k] = pending[x][k]
      BY <2>2
    <3> QED
      BY <1>1, <1>2, <1>5, <1>6, <2>1, <3>1, <3>2, BirthsOfUser DEF roomVars
  <2>10. Flags'
    <3>1. s \in registered
      BY <1>1, <2>3 DEF Flags
    <3>2. \A x \in Sessions :
            /\ Held("send", x)' \/ pending'[x]["send"] = 1 => x \in registered'
            /\ pending'[x]["disconnect"] = 1 => pending[x]["disconnect"] = 1
            /\ Held("disconnect", x)' <=> Held("disconnect", x)
            /\ Held("add", x)' <=> Held("add", x)
      BY <1>1, <1>6, <2>2, <2>5, <2>6, <3>1 DEF Flags, Kinds
    <3> QED
      BY <1>1, <1>2, <3>2, FlagsKept
  <2>11. Loops'
    <3>1. ~Holds(Top(t), "unlock")
      BY <1>4 DEF Holds, Frame
    <3> QED
      BY <1>1, <1>2, <2>1, <2>6, <3>1, LoopsKept DEF Some, roomVars
  <2>12. NoReentry'
    BY <1>1, <2>1, NoReentryKept
  <2> QED
    BY <1>1, <1>2, <2>4, <2>7, <2>8, <2>9, <2>10, <2>11, <2>12 DEF LifeInv
<1> QED
  BY <1>3, <1>8, <1>9 DEF WSASend

\* A call of a session returns and gives _sendRegistered back, to which it alone had the
\* right: ClearSend, and FinishSend with nothing queued.
LEMMA FlagReturned ==
    ASSUME LifeInv, NEW t \in Threads, NEW call, NEW at, At(t, call, at),
           \/ call = "RegisterSend" /\ at = "clear"
           \/ call = "ProcessSend" /\ at = "lock",
           registered' = registered \ {Of(t)}, Return(t),
           UNCHANGED <<socketVars, connected, registry, queued, lock, roomVars, crashed>>
    PROVE  LifeInv'
<1>1. LifeTypeOK /\ Shape /\ Sole /\ Kernel /\ Births /\ Flags /\ Loops /\ NoReentry /\ ~crashed
  BY DEF LifeInv
<1>2. PICK s \in Sessions : s = Of(t)
  BY <1>1, OfSession
<1>3. Top(t) = Frame(call, s, at)
  BY <1>1, <1>2, AtTop
<1>4. Joined(s)
  BY <1>1, <1>2, UserJoined
<1>5. Moved(t, {})
  BY <1>1, ReturnMoves
<1>6. Held("send", s) /\ pending[s]["send"] # 1
  <2>1. Held("send", s)
    BY <1>1, <1>2, TopHeld DEF Holds, Frame
  <2> QED
    BY <1>1, <2>1 DEF Kernel, Kinds
<1>7. /\ ~Held("send", s)'
      /\ \A x : Held("send", x)' => Held("send", x)
      /\ \A k \in {"recv", "disconnect", "add", "accept"} : \A x : Held(k, x)' <=> Held(k, x)
  BY <1>3, <1>5 DEF Moved, Some, Holds, Frame, Rights
<1>8. LifeTypeOK'
  BY <1>1, <1>5 DEF LifeTypeOK, Moved, socketVars, roomVars
<1>9. Sole' /\ Shape'
  BY <1>5 DEF Moved
<1>10. Kernel'
  BY <1>1, <1>7, KernelKept DEF NoMore, socketVars
<1>11. Births'
  <2>1. PICK F : F = {}
    OBVIOUS
  <2> QED
    BY <1>1, <1>4, <1>5, <2>1, BirthsOfUser DEF socketVars, roomVars
<1>12. Flags'
  <2>1. \A x \in Sessions :
            /\ Held("send", x)' \/ pending'[x]["send"] = 1 => x \in registered'
            /\ pending'[x]["disconnect"] = 1 => pending[x]["disconnect"] = 1
            /\ Held("disconnect", x)' <=> Held("disconnect", x)
            /\ Held("add", x)' <=> Held("add", x)
    BY <1>1, <1>2, <1>6, <1>7 DEF Flags, socketVars
  <2> QED
    BY <1>1, <2>1, FlagsKept
<1>13. Loops'
  <2>1. ~Holds(Top(t), "unlock")
    BY <1>3 DEF Holds, Frame
  <2> QED
    BY <1>1, <1>5, <1>7, <2>1, LoopsKept DEF Some, socketVars, roomVars
<1>14. NoReentry'
  BY <1>1, <1>5, NoReentryKept
<1> QED
  BY <1>1, <1>8, <1>9, <1>10, <1>11, <1>12, <1>13, <1>14 DEF LifeInv

\* The end of RegisterSend after a failure.
LEMMA ClearSendStep ==
    ASSUME LifeInv, NEW t \in Threads, ClearSend(t)
    PROVE  LifeInv'
<1>1. PICK call, at : call = "RegisterSend" /\ at = "clear"
  OBVIOUS
<1> QED
  BY <1>1, FlagReturned DEF ClearSend

\* ProcessSend: RegisterSend with the lock held, or the flag is given back.
LEMMA FinishSendStep ==
    ASSUME LifeInv, NEW t \in Threads, FinishSend(t)
    PROVE  LifeInv'
<1>1. LifeTypeOK /\ Shape /\ Sole /\ Kernel /\ Births /\ Flags /\ Loops /\ NoReentry /\ ~crashed
  BY DEF LifeInv
<1>2. At(t, "ProcessSend", "lock") /\ lock[Of(t)] = NoThread
      /\ UNCHANGED <<socketVars, connected, registry, queued, roomVars, crashed>>
  BY DEF FinishSend
<1>3. PICK s \in Sessions : s = Of(t)
  BY <1>1, <1>2, OfSession
<1>4. Top(t) = Frame("ProcessSend", s, "lock") /\ Rests(Top(t), Base(t))
  BY <1>1, <1>2, <1>3, AtTop
<1>5. Joined(s)
  BY <1>1, <1>2, <1>3, UserJoined
<1>6. CASE s \notin queued
  <2>1. registered' = registered \ {Of(t)} /\ Return(t) /\ lock' = lock
    BY <1>3, <1>6 DEF FinishSend
  <2>2. PICK call, at : call = "ProcessSend" /\ at = "lock"
    OBVIOUS
  <2> QED
    BY <1>2, <2>1, <2>2, FlagReturned
<1>7. CASE s \in queued
  <2> DEFINE r == Frame("RegisterSend", s, "check")
             u == Frame("ProcessSend", s, "unlock")
  <2>1. /\ lock' = [lock EXCEPT ![s] = t] /\ registered' = registered
        /\ GotoAndCall(t, "unlock", r)
    BY <1>3, <1>7 DEF FinishSend
  <2>2. Moved(t, {r, u})
    <3>1. r \in Frames /\ "unlock" \in Places /\ Named(r) /\ Rests(r, u) /\ MayGet(t, r)
      BY <1>4, NoneAssumption DEF Frame, Frames, Calls, Places, Named, Rests, MayGet, Holds, Rights
    <3>2. \A k \in Rights : ~Holds(u, k)
      BY DEF Frame, Holds, Rights
    <3>3. u = Frame("ProcessSend", Of(t), "unlock")
      BY <1>3
    <3> HIDE DEF r, u
    <3> QED
      BY <1>1, <1>2, <2>1, <3>1, <3>2, <3>3, CallMoves
  <2>3. LifeTypeOK'
    BY <1>1, <1>2, <1>3, <2>1, <2>2 DEF LifeTypeOK, Moved, socketVars, roomVars, Locks
  <2>4. /\ \A k \in {"recv", "disconnect", "birth", "add", "accept", "execute"} :
                ~Holds(r, k) /\ ~Holds(u, k) /\ ~Holds(Top(t), k)
        /\ Holds(r, "send") /\ Holds(Top(t), "send") /\ Top(t).s = s /\ ~Holds(u, "send")
        /\ r.s = s /\ u.s = s /\ r.call # "Send" /\ u.call # "Send"
        /\ ~Holds(Top(t), "unlock") /\ Holds(u, "unlock")
    BY <1>4 DEF Holds, Frame
  <2> HIDE DEF r, u
  <2>5. \A k \in {"recv", "send", "disconnect", "birth", "add", "accept"} :
                \A x : Held(k, x)' <=> Held(k, x)
    <3>1. Held("send", s)
      BY <1>1, <1>2, <1>3, TopHeld DEF Holds, Frame
    <3> QED
      BY <2>2, <2>4, <3>1 DEF Moved, Some, Rights
  <2>6. Sole' /\ Shape'
    BY <2>2 DEF Moved
  <2>7. Kernel'
    BY <1>1, <1>2, <2>5, KernelKept DEF NoMore, socketVars
  <2>8. Births'
    BY <1>1, <1>2, <1>5, <2>1, <2>2, <2>4, BirthsOfUser DEF socketVars, roomVars
  <2>9. Flags'
    <3>1. \A x \in Sessions :
            /\ Held("send", x)' \/ pending'[x]["send"] = 1 => x \in registered'
            /\ pending'[x]["disconnect"] = 1 => pending[x]["disconnect"] = 1
            /\ Held("disconnect", x)' <=> Held("disconnect", x)
            /\ Held("add", x)' <=> Held("add", x)
      BY <1>1, <1>2, <2>1, <2>5 DEF Flags, socketVars
    <3> QED
      BY <1>1, <1>2, <3>1, FlagsKept
  <2>10. Loops'
    <3>1. Held("accept", NoSession)' <=> (Server /\ ~listening')
      BY <1>1, <1>2, <2>5 DEF Loops, socketVars
    <3>2. \A w \in Threads : Sits(w, "execute", NoSession)' => executor' = w
      BY <1>1, <1>2, <2>2, <2>4, ExecutorStays DEF Some, roomVars
    <3>3. ASSUME NEW w \in Threads, NEW x \in Sessions, lock'[x] = w
          PROVE  Sits(w, "unlock", x)'
      <4>1. CASE x = s
        <5>1. w = t
          BY <1>1, <2>1, <3>3, <4>1 DEF LifeTypeOK, Locks
        <5>2. Some({r, u}, "unlock", s)
          BY <2>4 DEF Some
        <5>3. Sits(t, "unlock", s)'
          BY <2>2, <5>2 DEF Moved
        <5> QED
          BY <4>1, <5>1, <5>3
      <4>2. CASE x # s
        <5>1. lock[x] = w
          BY <1>1, <2>1, <3>3, <4>2 DEF LifeTypeOK, Locks
        <5>2. Sits(w, "unlock", x)
          BY <1>1, <5>1 DEF Loops
        <5> QED
          BY <2>2, <2>4, <5>2 DEF Moved
      <4> QED
        BY <4>1, <4>2
    <3>4. lock'[Service] \in {NoThread, Main}
      BY <1>1, <2>1, NoneAssumption DEF Loops, Service, LifeTypeOK, Locks
    <3> QED
      BY <3>1, <3>2, <3>3, <3>4 DEF Loops, Threads
  <2>11. NoReentry'
    BY <1>1, <2>2, <2>4, NoReentryKept
  <2> QED
    BY <1>1, <1>2, <2>3, <2>6, <2>7, <2>8, <2>9, <2>10, <2>11 DEF LifeInv
<1> QED
  BY <1>6, <1>7

\* The lock is given back.
LEMMA UnlockSendStep ==
    ASSUME LifeInv, NEW t \in Threads, UnlockSend(t)
    PROVE  LifeInv'
<1>1. LifeTypeOK /\ Shape /\ Sole /\ Kernel /\ Births /\ Flags /\ Loops /\ NoReentry /\ ~crashed
  BY DEF LifeInv
<1>2. At(t, "ProcessSend", "unlock") /\ lock' = [lock EXCEPT ![Of(t)] = NoThread] /\ Return(t)
      /\ UNCHANGED <<socketVars, connected, registry, sendVars, roomVars, crashed>>
  BY DEF UnlockSend
<1>3. PICK s \in Sessions : s = Of(t)
  BY <1>1, <1>2, OfSession
<1>4. Top(t) = Frame("ProcessSend", s, "unlock")
  BY <1>1, <1>2, <1>3, AtTop
<1>5. Joined(s)
  BY <1>1, <1>2, <1>3, UserJoined
<1>6. Moved(t, {})
  BY <1>1, <1>2, ReturnMoves
<1>7. (\A k \in Rights : ~Holds(Top(t), k)) /\ Top(t).s = s
  BY <1>4 DEF Holds, Frame, Rights
<1>8. \A k \in Rights : \A x : Held(k, x)' <=> Held(k, x)
  BY <1>6, <1>7 DEF Moved, Some
<1>9. LifeTypeOK'
  BY <1>1, <1>2, <1>3, <1>6 DEF LifeTypeOK, Moved, socketVars, sendVars, roomVars, Locks
<1>10. Sole' /\ Shape'
  BY <1>6 DEF Moved
<1>11. Kernel'
  BY <1>1, <1>2, <1>8, KernelKept DEF NoMore, Rights, socketVars
<1>12. Births'
  <2>1. PICK F : F = {}
    OBVIOUS
  <2> QED
    BY <1>1, <1>2, <1>5, <1>6, <2>1, BirthsOfUser DEF socketVars, sendVars, roomVars
<1>13. Flags'
  <2>1. \A x \in Sessions :
            /\ Held("send", x)' \/ pending'[x]["send"] = 1 => x \in registered'
            /\ pending'[x]["disconnect"] = 1 => pending[x]["disconnect"] = 1
            /\ Held("disconnect", x)' <=> Held("disconnect", x)
            /\ Held("add", x)' <=> Held("add", x)
    BY <1>1, <1>2, <1>8 DEF Flags, Rights, socketVars, sendVars
  <2> QED
    BY <1>1, <1>2, <2>1, FlagsKept
<1>14. Loops'
  <2>1. Held("accept", NoSession)' <=> (Server /\ ~listening')
    BY <1>1, <1>2, <1>8 DEF Loops, Rights, socketVars
  <2>2. \A w \in Threads : Sits(w, "execute", NoSession)' => executor' = w
    BY <1>1, <1>2, <1>6, ExecutorStays DEF Some, roomVars
  <2>3. ASSUME NEW w \in Threads, NEW x \in Sessions, lock'[x] = w
        PROVE  Sits(w, "unlock", x)'
    <3>1. x # s /\ lock[x] = w
      BY <1>1, <1>2, <1>3, <2>3, NoneAssumption DEF LifeTypeOK, Locks, Threads
    <3>2. Sits(w, "unlock", x)
      BY <1>1, <3>1 DEF Loops
    <3> QED
      BY <1>6, <1>7, <3>1, <3>2 DEF Moved
  <2>4. lock'[Service] \in {NoThread, Main}
    BY <1>1, <1>2, <1>3, NoneAssumption DEF Loops, Service, LifeTypeOK, Locks
  <2> QED
    BY <2>1, <2>2, <2>3, <2>4 DEF Loops, Threads
<1>15. NoReentry'
  BY <1>1, <1>6, NoReentryKept
<1> QED
  BY <1>1, <1>2, <1>9, <1>10, <1>11, <1>12, <1>13, <1>14, <1>15 DEF LifeInv
-----------------------------------------------------------------------------
(* The steps that take a session into the registry and out of it *)

\* Only the thread that finds the session connected goes on in Disconnect.
LEMMA ExchangeStep ==
    ASSUME LifeInv, NEW t \in Threads, Exchange(t)
    PROVE  LifeInv'
<1>1. LifeTypeOK /\ Shape /\ Sole /\ Kernel /\ Births /\ Flags /\ Loops /\ NoReentry /\ ~crashed
  BY DEF LifeInv
<1>2. At(t, "Disconnect", "exchange") /\ connected' = [connected EXCEPT ![Of(t)] = FALSE]
      /\ UNCHANGED <<socketVars, registry, sendVars, lock, roomVars, crashed>>
  BY DEF Exchange
<1>3. PICK s \in Sessions : s = Of(t)
  BY <1>1, <1>2, OfSession
<1>4. Top(t) = Frame("Disconnect", s, "exchange")
  BY <1>1, <1>2, <1>3, AtTop
<1>5. Joined(s) /\ ~Held("add", s)
  BY <1>1, <1>2, <1>3, UserJoined
<1>6. connected \in [Sessions -> BOOLEAN]
  BY <1>1 DEF LifeTypeOK
<1>7. CASE ~connected[s]
  <2>1. Moved(t, {})
    BY <1>1, <1>2, <1>3, <1>7, ReturnMoves DEF Exchange
  <2>2. \A k \in {"disconnect", "add", "accept", "unlock"} :
            ~Holds(Frame("Disconnect", s, "exchange"), k)
    BY DEF Holds, Frame
  <2>3. PICK F : F = {}
    OBVIOUS
  <2>4. PICK call : call = "Disconnect"
    OBVIOUS
  <2>5. connected' = connected
    BY <1>2, <1>3, <1>6, <1>7
  <2>6. queued' \subseteq Sessions /\ registered' = registered
    BY <1>1, <1>2 DEF LifeTypeOK, sendVars
  <2> QED
    BY <1>2, <1>3, <2>1, <2>2, <2>3, <2>4, <2>5, <2>6, QuietCalls
<1>8. CASE connected[s]
  <2> DEFINE d == Frame("Disconnect", s, "callback")
  <2>1. ~Held("disconnect", s) /\ pending[s]["disconnect"] # 1 /\ s \in registry
    BY <1>1, <1>5, <1>8 DEF Flags
  <2>2. Moved(t, {d})
    <3>1. Goto(t, "callback") /\ "callback" \in Places
      BY <1>3, <1>8 DEF Exchange, Places
    <3>2. \A k \in Rights : Holds(d, k) => k = "disconnect"
      BY DEF Holds, Frame, Rights
    <3>3. d = Frame("Disconnect", Of(t), "callback")
      BY <1>3
    <3> HIDE DEF d
    <3> QED
      BY <1>1, <1>2, <1>3, <2>1, <3>1, <3>2, <3>3, GotoMoves
  <2>3. LifeTypeOK'
    BY <1>1, <1>2, <1>3, <2>2 DEF LifeTypeOK, Moved, socketVars, sendVars, roomVars
  <2>4. /\ \A k \in Rights : ~Holds(Top(t), k)
        /\ \A k \in Rights : Holds(d, k) <=> k = "disconnect"
        /\ Holds(d, "disconnect") /\ ~Holds(d, "execute") /\ ~Holds(d, "birth")
        /\ d.s = s /\ d.call # "Send" /\ ~Holds(Top(t), "unlock")
    BY <1>4 DEF Holds, Frame, Rights
  <2> HIDE DEF d
  <2>5. /\ \A k \in {"recv", "send", "add", "accept"} : \A x : Held(k, x)' <=> Held(k, x)
        /\ \A x : Held("disconnect", x)' <=> Held("disconnect", x) \/ x = s
    BY <2>2, <2>4 DEF Moved, Some, Rights
  <2>6. Sole' /\ Shape'
    BY <2>2 DEF Moved
  <2>7. Kernel'
    BY <1>1, <1>2, <2>1, <2>5 DEF Kernel, Kinds, socketVars
  <2>8. Births'
    BY <1>1, <1>2, <1>5, <2>2, <2>4, BirthsOfUser DEF socketVars, sendVars, roomVars
  <2>9. Flags'
    <3> SUFFICES ASSUME NEW x \in Sessions
                 PROVE  /\ Held("send", x)' \/ pending'[x]["send"] = 1 => x \in registered'
                        /\ Held("disconnect", x)' => x \in registry' /\ ~connected'[x]
                        /\ pending'[x]["disconnect"] = 1 => ~connected'[x]
                        /\ Held("add", x)' => connected'[x]
                        /\ connected'[x] => x \in registry' \/ Held("add", x)'
                        /\ x \in registry' => connected'[x] \/ Held("disconnect", x)'
      BY DEF Flags
    <3>1. connected'[x] = IF x = s THEN FALSE ELSE connected[x]
      BY <1>2, <1>3, <1>6
    <3>2. UNCHANGED <<pending, registered, registry>>
      BY <1>2 DEF socketVars, sendVars
    <3>3. CASE x = s
      BY <1>1, <1>5, <2>1, <2>5, <3>1, <3>2, <3>3 DEF Flags
    <3>4. CASE x # s
      BY <1>1, <2>5, <3>1, <3>2, <3>4 DEF Flags
    <3> QED
      BY <3>3, <3>4
  <2>10. Loops'
    BY <1>1, <1>2, <2>2, <2>4, <2>5, LoopsKept DEF Some, socketVars, roomVars
  <2>11. NoReentry'
    BY <1>1, <2>2, <2>4, NoReentryKept
  <2> QED
    BY <1>1, <1>2, <2>3, <2>6, <2>7, <2>8, <2>9, <2>10, <2>11 DEF LifeInv
<1> QED
  BY <1>7, <1>8

\* ReleaseSession finds the session, and RegisterDisconnect is the last call to it.
LEMMA ReleaseSessionStep ==
    ASSUME LifeInv, NEW t \in Threads, ReleaseSession(t)
    PROVE  LifeInv'
<1>1. LifeTypeOK /\ Shape /\ Sole /\ Kernel /\ Births /\ Flags /\ Loops /\ NoReentry /\ ~crashed
  BY DEF LifeInv
<1>2. /\ At(t, "Disconnect", "release") /\ Return(t)
      /\ crashed' = (Of(t) \notin registry) /\ registry' = registry \ {Of(t)}
      /\ UNCHANGED <<created, established, accepting, listening, connected, sendVars, lock,
                     roomVars>>
  BY DEF ReleaseSession
<1>3. PICK s \in Sessions : s = Of(t)
  BY <1>1, <1>2, OfSession
<1>4. PICK n \in 0..1 : Hand(s, "disconnect", n)
  BY <1>3 DEF ReleaseSession
<1>5. Top(t) = Frame("Disconnect", s, "release")
  BY <1>1, <1>2, <1>3, AtTop
<1>6. Joined(s) /\ ~Held("add", s)
  BY <1>1, <1>2, <1>3, UserJoined
<1>7. Held("disconnect", s)
  BY <1>1, <1>2, <1>3, TopHeld DEF Holds, Frame
<1>8. s \in registry /\ ~connected[s] /\ pending[s]["disconnect"] = 0
  BY <1>1, <1>7 DEF Flags, Kernel, Kinds
<1>9. Moved(t, {})
  BY <1>1, <1>2, ReturnMoves
<1>10. /\ pending'[s]["disconnect"] = n
       /\ \A x \in Sessions : \A k \in Kinds :
            x # s \/ k # "disconnect" => pending'[x][k] = pending[x][k]
       /\ pending' \in [Sessions -> [Kinds -> Nat]]
  BY <1>1, <1>4, <1>8, HandOver DEF Kinds
<1>11. LifeTypeOK'
  BY <1>1, <1>2, <1>9, <1>10 DEF LifeTypeOK, Moved, sendVars, roomVars
<1>12. /\ \A k \in {"recv", "send", "add", "accept"} : \A x : Held(k, x)' <=> Held(k, x)
       /\ \A x : Held("disconnect", x)' <=> Held("disconnect", x) /\ x # s
  BY <1>5, <1>9 DEF Moved, Some, Holds, Frame, Rights
<1>13. Sole' /\ Shape'
  BY <1>9 DEF Moved
<1>14. Kernel'
  <2> SUFFICES ASSUME NEW x \in Sessions, NEW k \in Kinds
               PROVE  /\ pending'[x][k] \in 0..1
                      /\ k # "connect" /\ pending'[x][k] = 1 => ~Held(k, x)'
    BY DEF Kernel
  <2>1. CASE x = s /\ k = "disconnect"
    BY <1>10, <1>12, <2>1
  <2>2. CASE x # s \/ k # "disconnect"
    BY <1>1, <1>10, <1>12, <2>2 DEF Kernel, Kinds
  <2> QED
    BY <2>1, <2>2
<1>15. Births'
  <2>1. PICK F : F = {}
    OBVIOUS
  <2>2. \A x \in Sessions : \A k \in Kinds :
                x # s \/ k = "connect" => pending'[x][k] = pending[x][k]
    BY <1>10
  <2> QED
    BY <1>1, <1>2, <1>6, <1>9, <2>1, <2>2, BirthsOfUser DEF sendVars, roomVars
<1>16. Flags'
  <2> SUFFICES ASSUME NEW x \in Sessions
               PROVE  /\ Held("send", x)' \/ pending'[x]["send"] = 1 => x \in registered'
                      /\ Held("disconnect", x)' => x \in registry' /\ ~connected'[x]
                      /\ pending'[x]["disconnect"] = 1 => ~connected'[x]
                      /\ Held("add", x)' => connected'[x]
                      /\ connected'[x] => x \in registry' \/ Held("add", x)'
                      /\ x \in registry' => connected'[x] \/ Held("disconnect", x)'
    BY DEF Flags
  <2>1. UNCHANGED <<registered, connected>> /\ registry' = registry \ {s}
    BY <1>2, <1>3 DEF sendVars
  <2>2. pending'[x]["send"] = pending[x]["send"]
    BY <1>10 DEF Kinds
  <2>3. CASE x = s
    BY <1>1, <1>6, <1>8, <1>12, <2>1, <2>2, <2>3 DEF Flags
  <2>4. CASE x # s
    <3>1. pending'[x]["disconnect"] = pending[x]["disconnect"]
      BY <1>10, <2>4 DEF Kinds
    <3> QED
      BY <1>1, <1>12, <2>1, <2>2, <2>4, <3>1 DEF Flags
  <2> QED
    BY <2>3, <2>4
<1>17. Loops'
  <2>1. ~Holds(Top(t), "unlock")
    BY <1>5 DEF Holds, Frame
  <2> QED
    BY <1>1, <1>2, <1>9, <1>12, <2>1, LoopsKept DEF Some, roomVars
<1>18. NoReentry'
  BY <1>1, <1>9, NoReentryKept
<1>19. ~crashed'
  BY <1>2, <1>3, <1>8
<1> QED
  BY <1>11, <1>13, <1>14, <1>15, <1>16, <1>17, <1>18, <1>19 DEF LifeInv

\* ProcessConnect: connected first ...
LEMMA ConnectedStep ==
    ASSUME LifeInv, NEW t \in Threads, Connected(t)
    PROVE  LifeInv'
<1>1. LifeTypeOK /\ Shape /\ Sole /\ Kernel /\ Births /\ Flags /\ Loops /\ NoReentry /\ ~crashed
  BY DEF LifeInv
<1>2. /\ At(t, "ProcessConnect", "store") /\ Goto(t, "add")
      /\ connected' = [connected EXCEPT ![Of(t)] = TRUE]
      /\ UNCHANGED <<socketVars, registry, sendVars, lock, roomVars, crashed>>
  BY DEF Connected
<1>3. PICK s \in Sessions : s = Of(t)
  BY <1>1, <1>2, OfSession
<1>4. /\ Top(t) = Frame("ProcessConnect", s, "store") /\ 1 \in DOMAIN stack[t]
      /\ stack[t][1] = Top(t)
  BY <1>1, <1>2, <1>3, AtTop
<1>5. Held("birth", s)
  BY <1>1, <1>2, <1>3, TopHeld DEF Holds, Frame
<1>6. ~Joined(s) /\ ~Held("use", s)
  BY <1>1, <1>5, Unborn
<1>7. ~Held("add", s)
  <2> SUFFICES ASSUME Held("add", s) PROVE FALSE
    OBVIOUS
  <2>1. PICK u \in Threads : Sits(u, "add", s)
    BY DEF Held
  <2>2. PICK j \in DOMAIN stack[u] : Holds(stack[u][j], "add") /\ stack[u][j].s = s
    BY <2>1 DEF Sits
  <2>3. Holds(stack[u][j], "birth") /\ stack[u][j].at = "add"
    BY <2>2 DEF Holds
  <2>4. Holds(stack[t][1], "birth") /\ stack[t][1].s = s /\ stack[t][1].at = "store"
    BY <1>4 DEF Holds, Frame
  <2>5. u = t /\ j = 1
    BY <1>1, <1>4, <2>2, <2>3, <2>4 DEF Sole, Rights
  <2> QED
    BY <2>3, <2>4, <2>5
<1>8. /\ s \notin registry /\ ~Held("disconnect", s) /\ ~(pending[s]["disconnect"] > 0)
  BY <1>1, <1>6, Unborn, RightsAreUses DEF Kinds, Flags
<1> DEFINE p == Frame("ProcessConnect", s, "add")
<1>9. Moved(t, {p})
  <2>1. \A k \in Rights : Holds(p, k) => k = "add" \/ Holds(Top(t), k)
    BY <1>4 DEF Holds, Frame, Rights
  <2>2. p = Frame("ProcessConnect", Of(t), "add") /\ "add" \in Places
    BY <1>3 DEF Places
  <2> HIDE DEF p
  <2> QED
    BY <1>1, <1>2, <1>3, <1>4, <1>7, <2>1, <2>2, GotoMoves
<1>10. connected \in [Sessions -> BOOLEAN]
  BY <1>1 DEF LifeTypeOK
<1>11. LifeTypeOK'
  BY <1>1, <1>2, <1>3, <1>9 DEF LifeTypeOK, Moved, socketVars, sendVars, roomVars
<1>12. /\ \A k \in {"recv", "birth"} : Holds(p, k) /\ Holds(Top(t), k)
       /\ \A k \in {"send", "disconnect", "accept", "execute", "use"} : ~Holds(p, k) /\ ~Holds(Top(t), k)
       /\ Holds(p, "add") /\ ~Holds(Top(t), "add")
       /\ p.s = s /\ Top(t).s = s /\ p.call # "Send" /\ ~Holds(Top(t), "unlock")
  BY <1>4 DEF Holds, Frame
<1> HIDE DEF p
<1>13. /\ \A k \in {"recv", "send", "disconnect", "birth", "accept"} : \A x : Held(k, x)' <=> Held(k, x)
       /\ \A x : Held("add", x)' <=> Held("add", x) \/ x = s
       /\ \A x : Held("use", x)' => Held("use", x)
  <2>1. Held("recv", s) /\ Held("birth", s)
    BY <1>1, <1>2, <1>3, TopHeld DEF Holds, Frame
  <2> QED
    BY <1>9, <1>12, <2>1 DEF Moved, Some, Rights
<1>14. Sole' /\ Shape'
  BY <1>9 DEF Moved
<1>15. Kernel'
  BY <1>1, <1>2, <1>13, KernelKept DEF NoMore, socketVars
<1>16. Births'
  <2>1. NoMore({"birth"})
    BY <1>13 DEF NoMore
  <2>2. \A x \in Sessions :
            x \in chosen' \cup audience' \cup registered' \/ Held("use", x)' => Joined(x)
    BY <1>1, <1>2, <1>13, Unborn DEF sendVars, roomVars
  <2>3. \A x \in Sessions : \A k \in Kinds \ {"connect"} : pending'[x][k] > 0 => Joined(x)
    BY <1>1, <1>2, Unborn DEF socketVars
  <2> QED
    BY <1>1, <1>2, <2>1, <2>2, <2>3, BirthsKept DEF socketVars
<1>17. Flags'
  <2> SUFFICES ASSUME NEW x \in Sessions
               PROVE  /\ Held("send", x)' \/ pending'[x]["send"] = 1 => x \in registered'
                      /\ Held("disconnect", x)' => x \in registry' /\ ~connected'[x]
                      /\ pending'[x]["disconnect"] = 1 => ~connected'[x]
                      /\ Held("add", x)' => connected'[x]
                      /\ connected'[x] => x \in registry' \/ Held("add", x)'
                      /\ x \in registry' => connected'[x] \/ Held("disconnect", x)'
    BY DEF Flags
  <2>1. connected'[x] = IF x = s THEN TRUE ELSE connected[x]
    BY <1>2, <1>3, <1>10
  <2>2. UNCHANGED <<pending, registered, registry>>
    BY <1>2 DEF socketVars, sendVars
  <2>3. CASE x = s
    <3>1. pending[s]["disconnect"] # 1
      BY <1>8
    <3> QED
      BY <1>1, <1>8, <1>13, <2>1, <2>2, <2>3, <3>1 DEF Flags
  <2>4. CASE x # s
    BY <1>1, <1>13, <2>1, <2>2, <2>4 DEF Flags
  <2> QED
    BY <2>3, <2>4
<1>18. Loops'
  BY <1>1, <1>2, <1>9, <1>12, <1>13, LoopsKept DEF Some, socketVars, roomVars
<1>19. NoReentry'
  BY <1>1, <1>9, <1>12, NoReentryKept
<1> QED
  BY <1>1, <1>2, <1>11, <1>14, <1>15, <1>16, <1>17, <1>18, <1>19 DEF LifeInv

\* ... then in the registry, before anybody can use the session.
LEMMA AddSessionStep ==
    ASSUME LifeInv, NEW t \in Threads, AddSession(t)
    PROVE  LifeInv'
<1>1. LifeTypeOK /\ Shape /\ Sole /\ Kernel /\ Births /\ Flags /\ Loops /\ NoReentry /\ ~crashed
  BY DEF LifeInv
<1>2. /\ At(t, "ProcessConnect", "add") /\ Goto(t, "hello")
      /\ registry' = registry \cup {Of(t)}
      /\ UNCHANGED <<socketVars, connected, sendVars, lock, roomVars, crashed>>
  BY DEF AddSession
<1>3. PICK s \in Sessions : s = Of(t)
  BY <1>1, <1>2, OfSession
<1>4. Top(t) = Frame("ProcessConnect", s, "add")
  BY <1>1, <1>2, <1>3, AtTop
<1>5. Held("birth", s) /\ Held("add", s) /\ Held("recv", s)
  BY <1>1, <1>2, <1>3, TopHeld DEF Holds, Frame
<1>6. ~Joined(s) /\ ~Held("use", s) /\ connected[s]
  BY <1>1, <1>5, Unborn DEF Flags
<1>7. /\ ~Held("disconnect", s) /\ ~(pending[s]["disconnect"] > 0)
  BY <1>1, <1>6, Unborn DEF Kinds, Flags
<1> DEFINE p == Frame("ProcessConnect", s, "hello")
<1>8. Moved(t, {p})
  <2>0. ~Held("hello", s)
    BY <1>6 DEF Held, Sits, Holds
  <2>1. \A k \in Rights : Holds(p, k) => Holds(Top(t), k) \/ ~Held(k, s)
    BY <1>4, <2>0 DEF Holds, Frame, Rights
  <2>2. p = Frame("ProcessConnect", Of(t), "hello") /\ "hello" \in Places
    BY <1>3 DEF Places
  <2> HIDE DEF p
  <2> QED
    BY <1>1, <1>2, <1>3, <1>4, <2>1, <2>2, GotoMoves
<1>9. LifeTypeOK'
  BY <1>1, <1>2, <1>3, <1>8 DEF LifeTypeOK, Moved, socketVars, sendVars, roomVars
<1>10. /\ Holds(p, "recv") /\ Holds(Top(t), "recv")
       /\ \A k \in {"send", "disconnect", "accept", "execute"} : ~Holds(p, k) /\ ~Holds(Top(t), k)
       /\ \A k \in {"birth", "add"} : ~Holds(p, k) /\ Holds(Top(t), k)
       /\ p.s = s /\ Top(t).s = s /\ p.call # "Send" /\ ~Holds(Top(t), "unlock")
  BY <1>4 DEF Holds, Frame
<1> HIDE DEF p
<1>11. /\ \A k \in {"recv", "send", "disconnect", "accept"} : \A x : Held(k, x)' <=> Held(k, x)
       /\ \A k \in {"birth", "add"} : \A x : Held(k, x)' <=> Held(k, x) /\ x # s
       /\ \A x : Held("use", x)' => Held("use", x) \/ x = s
  BY <1>5, <1>8, <1>10 DEF Moved, Some, Rights
<1>12. Sole' /\ Shape'
  BY <1>8 DEF Moved
<1>13. Kernel'
  BY <1>1, <1>2, <1>11, KernelKept DEF NoMore, socketVars
<1>14. UNCHANGED <<created, established, pending, accepting, listening, registered, chosen,
                   audience, connected>>
  BY <1>2 DEF socketVars, sendVars, roomVars
<1>15. Births'
  <2>1. /\ s \in created /\ ~(listening /\ accepting = s) /\ pending[s]["connect"] = 0
        /\ Server => s \in established
    BY <1>1, <1>5 DEF Births
  <2>2. Joined(s)'
    BY <1>11, <1>14, <2>1 DEF Joined
  <2>3. \A x \in Sessions : Joined(x) => Joined(x)'
    BY <1>11, <1>14 DEF Joined
  <2>4. ASSUME NEW x \in Sessions,
               \/ x \in (registry \cup chosen \cup audience \cup registered)'
               \/ Held("use", x)'
               \/ \E k \in Kinds \ {"connect"} : pending'[x][k] > 0
        PROVE  Joined(x)'
    <3>1. CASE x = s
      BY <2>2, <3>1
    <3>2. CASE x # s
      <4>1. Joined(x)
        BY <1>1, <1>2, <1>3, <1>11, <1>14, <2>4, <3>2, Unborn
      <4> QED
        BY <2>3, <4>1
    <3> QED
      BY <3>1, <3>2
  <2>5. ASSUME NEW x \in Sessions, Held("birth", x)'
        PROVE  /\ x \in created' /\ ~(listening' /\ accepting' = x)
               /\ pending'[x]["connect"] = 0
               /\ Server => x \in established'
    BY <1>1, <1>11, <1>14, <2>5 DEF Births
  <2>6. /\ \A x \in Sessions : Server \/ x \notin created' => pending'[x]["connect"] = 0
        /\ listening' => Server /\ accepting' \in created' \ established'
        /\ Server => registry' \subseteq established'
    BY <1>1, <1>2, <1>3, <1>14, <2>1 DEF Births
  <2> QED
    BY <2>4, <2>5, <2>6 DEF Births
<1>16. Flags'
  <2> SUFFICES ASSUME NEW x \in Sessions
               PROVE  /\ Held("send", x)' \/ pending'[x]["send"] = 1 => x \in registered'
                      /\ Held("disconnect", x)' => x \in registry' /\ ~connected'[x]
                      /\ pending'[x]["disconnect"] = 1 => ~connected'[x]
                      /\ Held("add", x)' => connected'[x]
                      /\ connected'[x] => x \in registry' \/ Held("add", x)'
                      /\ x \in registry' => connected'[x] \/ Held("disconnect", x)'
    BY DEF Flags
  <2>1. registry' = registry \cup {s}
    BY <1>2, <1>3
  <2>2. CASE x = s
    BY <1>1, <1>6, <1>7, <1>11, <1>14, <2>1, <2>2 DEF Flags
  <2>3. CASE x # s
    BY <1>1, <1>11, <1>14, <2>1, <2>3 DEF Flags
  <2> QED
    BY <2>2, <2>3
<1>17. Loops'
  BY <1>1, <1>2, <1>8, <1>10, <1>11, LoopsKept DEF Some, socketVars, roomVars
<1>18. NoReentry'
  BY <1>1, <1>8, <1>10, NoReentryKept
<1> QED
  BY <1>1, <1>2, <1>9, <1>12, <1>13, <1>15, <1>16, <1>17, <1>18 DEF LifeInv
\* A session is made, and AcceptEx waits for its peer or failed at once.
LEMMA RegisterAcceptStep ==
    ASSUME LifeInv, NEW t \in Threads, RegisterAccept(t)
    PROVE  LifeInv'
<1>1. LifeTypeOK /\ Shape /\ Sole /\ Kernel /\ Births /\ Flags /\ Loops /\ NoReentry /\ ~crashed
  BY DEF LifeInv
<1>2. /\ At(t, "RegisterAccept", "create")
      /\ UNCHANGED <<established, pending, connected, registry, sendVars, lock, roomVars, crashed>>
  BY DEF RegisterAccept
<1>3. PICK s \in Sessions \ created :
        /\ created' = created \cup {s} /\ accepting' = s
        /\ \/ listening' = TRUE /\ Return(t)
           \/ UNCHANGED <<listening, stack>>
  BY DEF RegisterAccept
<1>4. Of(t) = NoSession
  BY <1>1, <1>2, OfSession
<1> DEFINE e == Frame("RegisterAccept", NoSession, "create")
<1>5. Top(t) = e
  BY <1>1, <1>2, <1>4, AtTop
<1>6. Held("accept", NoSession)
  BY <1>1, <1>2, <1>4, TopHeld DEF Holds, Frame
<1>7. Server /\ ~listening
  BY <1>1, <1>6 DEF Loops
<1>8. /\ \A k \in Rights : Holds(e, k) <=> k = "accept"
      /\ Holds(e, "accept") /\ ~Holds(e, "unlock") /\ e.call # "Send" /\ e.s = NoSession
      /\ NoSession \notin Sessions
  BY NoneAssumption DEF Holds, Frame, Rights
<1>9. PICK F : /\ Moved(t, F)
               /\ \/ F = {} /\ listening' = TRUE
                  \/ F = {e} /\ listening' = listening
  <2>1. CASE listening' = TRUE /\ Return(t)
    <3>1. Moved(t, {})
      BY <1>1, <1>2, <2>1, ReturnMoves
    <3> QED
      BY <2>1, <3>1
  <2>2. CASE UNCHANGED <<listening, stack>>
    <3>1. Moved(t, {e})
      BY <1>1, <1>2, <1>4, <2>2, StayMoves
    <3> QED
      BY <2>2, <3>1
  <2> QED
    BY <1>3, <2>1, <2>2
<1> HIDE DEF e
<1>10. LifeTypeOK'
  <2>1. listening' \in BOOLEAN
    BY <1>1, <1>9 DEF LifeTypeOK
  <2> QED
    BY <1>1, <1>2, <1>3, <1>9, <2>1 DEF LifeTypeOK, Moved, sendVars, roomVars
<1>11. /\ \A k \in Rights \ {"accept"} : \A x : Held(k, x)' <=> Held(k, x)
       /\ Held("accept", NoSession)' <=> listening' = listening
       /\ \A x \in Sessions : Held("use", x)' => Held("use", x)
  <2>1. CASE F = {} /\ listening' = TRUE
    BY <1>5, <1>7, <1>8, <1>9, <2>1 DEF Moved, Some, Rights
  <2>2. CASE F = {e} /\ listening' = listening
    BY <1>5, <1>6, <1>8, <1>9, <2>2 DEF Moved, Some, Rights
  <2> QED
    BY <1>9, <2>1, <2>2
<1>12. Sole' /\ Shape'
  BY <1>9 DEF Moved
<1>13. Kernel'
  BY <1>1, <1>2, <1>11, KernelKept DEF NoMore, Rights
<1>14. UNCHANGED <<chosen, audience, registered>>
  BY <1>2 DEF sendVars, roomVars
<1>15. Births'
  <2>1. \A x \in Sessions : Joined(x) => Joined(x)'
    BY <1>2, <1>3, <1>11 DEF Joined, Rights
  <2>2. ASSUME NEW x \in Sessions,
               \/ x \in (registry \cup chosen \cup audience \cup registered)'
               \/ Held("use", x)'
               \/ \E k \in Kinds \ {"connect"} : pending'[x][k] > 0
        PROVE  Joined(x)'
    <3>1. Joined(x)
      BY <1>1, <1>2, <1>11, <1>14, <2>2, Unborn
    <3> QED
      BY <2>1, <3>1
  <2>3. ASSUME NEW x \in Sessions, Held("birth", x)'
        PROVE  /\ x \in created' /\ ~(listening' /\ accepting' = x)
               /\ pending'[x]["connect"] = 0
               /\ Server => x \in established'
    <3>1. Held("birth", x)
      BY <1>11, <2>3 DEF Rights
    <3> QED
      BY <1>1, <1>2, <1>3, <3>1 DEF Births
  <2>4. /\ \A x \in Sessions : Server \/ x \notin created' => pending'[x]["connect"] = 0
        /\ listening' => Server /\ accepting' \in created' \ established'
        /\ Server => registry' \subseteq established'
    BY <1>1, <1>2, <1>3, <1>7 DEF Births, LifeTypeOK
  <2> QED
    BY <2>2, <2>3, <2>4 DEF Births
<1>16. Flags'
  <2>1. \A x \in Sessions :
            /\ Held("send", x)' \/ pending'[x]["send"] = 1 => x \in registered'
            /\ pending'[x]["disconnect"] = 1 => pending[x]["disconnect"] = 1
            /\ Held("disconnect", x)' <=> Held("disconnect", x)
            /\ Held("add", x)' <=> Held("add", x)
    BY <1>1, <1>2, <1>11, <1>14 DEF Flags, Rights
  <2> QED
    BY <1>1, <1>2, <2>1, FlagsKept
<1>17. Loops'
  <2>1. Held("accept", NoSession)' <=> (Server /\ ~listening')
    BY <1>7, <1>9, <1>11
  <2>2. \A w \in Threads : Sits(w, "execute", NoSession)' => executor' = w
    <3>1. ~Some(F, "execute", NoSession)
      BY <1>8, <1>9 DEF Some, Rights
    <3> QED
      BY <1>1, <1>2, <1>9, <3>1, ExecutorStays DEF roomVars
  <2>3. \A w \in Threads, x \in Sessions : lock'[x] = w => Sits(w, "unlock", x)'
    <3>1. \A w \in Threads : \A x : Sits(w, "unlock", x) => Sits(w, "unlock", x)'
      BY <1>5, <1>8, <1>9 DEF Moved
    <3> QED
      BY <1>1, <1>2, <3>1 DEF Loops
  <2>4. lock'[Service] \in {NoThread, Main}
    BY <1>1, <1>2 DEF Loops
  <2> QED
    BY <2>1, <2>2, <2>3, <2>4 DEF Loops, Threads
<1>18. NoReentry'
  <2>1. \A f \in F : ~(f.call = "Send" /\ f.at = "lock")
    BY <1>8, <1>9
  <2> QED
    BY <1>1, <1>9, <2>1, NoReentryKept
<1> QED
  BY <1>1, <1>2, <1>10, <1>12, <1>13, <1>15, <1>16, <1>17, <1>18 DEF LifeInv

-----------------------------------------------------------------------------
(* The completions *)

\* The calls of an idle thread may have the rights that nobody has.
LEMMA IdleMoves ==
    ASSUME LifeTypeOK, Sole, Shape, NEW t \in Threads, stack[t] = <<>>
    PROVE  /\ Top(t) = Ground
           /\ \A k : ~Sits(t, k, NoSession)
           /\ stack' = stack => Moved(t, {})
           /\ \A a \in Frames : Start(t, <<a>>) /\ Rests(a, Ground) /\ Named(a)
                                /\ (\A k \in Rights : Holds(a, k) => ~Held(k, a.s))
                => Moved(t, {a})
           /\ \A a, b \in Frames : Start(t, <<a, b>>) /\ Rests(a, b) /\ Rests(b, Ground)
                                   /\ Named(a) /\ Named(b)
                                   /\ (\A k \in Rights : Holds(a, k) => ~Held(k, a.s))
                                   /\ (\A k \in Rights : Holds(b, k) => ~Held(k, b.s))
                                   /\ (\A k \in Rights : ~(Holds(a, k) /\ Holds(b, k) /\ a.s = b.s))
                => Moved(t, {a, b})
<1>1. Top(t) = Ground /\ Base(t) = Ground
  BY DEF Top, Base
<1>2. \A k : ~Sits(t, k, NoSession)
  BY DEF Sits
<1>3. ASSUME stack' = stack
      PROVE  Moved(t, {})
  <2> DEFINE new == <<>>
  <2>1. new \in Seq(Frames) /\ stack' = [stack EXCEPT ![t] = new]
    BY <1>3 DEF LifeTypeOK
  <2>2. Turn(t, new)
    <3> HIDE DEF new
    <3> QED
      BY <2>1, Started DEF Start
  <2> QED
    BY <2>2, Move0
<1>4. ASSUME NEW a \in Frames, Start(t, <<a>>), Rests(a, Ground), Named(a),
             \A k \in Rights : Holds(a, k) => ~Held(k, a.s)
      PROVE  Moved(t, {a})
  <2>1. Turn(t, <<a>>)
    <3> DEFINE new == <<a>>
    <3>1. new \in Seq(Frames) /\ Start(t, new)
      BY <1>4
    <3> HIDE DEF new
    <3>2. Turn(t, new)
      BY <3>1, Started
    <3> QED
      BY <3>2 DEF new
  <2>2. MayGet(t, a)
    BY <1>4 DEF MayGet
  <2> QED
    BY <1>1, <1>4, <2>1, <2>2, Move1
<1>5. ASSUME NEW a \in Frames, NEW b \in Frames, Start(t, <<a, b>>), Rests(a, b),
             Rests(b, Ground), Named(a), Named(b),
             \A k \in Rights : Holds(a, k) => ~Held(k, a.s),
             \A k \in Rights : Holds(b, k) => ~Held(k, b.s),
             \A k \in Rights : ~(Holds(a, k) /\ Holds(b, k) /\ a.s = b.s)
      PROVE  Moved(t, {a, b})
  <2>1. Turn(t, <<a, b>>)
    <3> DEFINE new == <<a, b>>
    <3>1. new \in Seq(Frames) /\ Start(t, new)
      BY <1>5
    <3> HIDE DEF new
    <3>2. Turn(t, new)
      BY <3>1, Started
    <3> QED
      BY <3>2 DEF new
  <2>2. MayGet(t, a) /\ MayGet(t, b)
    BY <1>5 DEF MayGet
  <2> QED
    BY <1>1, <1>5, <2>1, <2>2, Move2
<1> QED
  BY <1>1, <1>2, <1>3, <1>4, <1>5

\* An OVERLAPPED of a session that has joined comes back, and its right with it.
LEMMA TakeStep ==
    ASSUME LifeInv, NEW t \in Threads, stack[t] = <<>>,
           NEW s \in Sessions, NEW k \in {"recv", "send", "disconnect"}, pending[s][k] > 0,
           Hand(s, k, -1), NEW F, Moved(t, F),
           UNCHANGED <<created, established, accepting, listening, connected, registry,
                       sendVars, lock, roomVars, crashed>>,
           \A f \in F : /\ f.s = s /\ ~(f.call = "Send" /\ f.at = "lock")
                        /\ \A j \in Rights \ {k} : ~Holds(f, j),
           k = "disconnect" => F = {}
    PROVE  LifeInv'
<1>1. LifeTypeOK /\ Shape /\ Sole /\ Kernel /\ Births /\ Flags /\ Loops /\ NoReentry /\ ~crashed
  BY DEF LifeInv
<1>2. Joined(s)
  BY <1>1, Unborn DEF Kinds
<1>3. pending[s][k] = 1 /\ ~Held(k, s)
  BY <1>1 DEF Kernel, Kinds
<1>4. /\ pending'[s][k] = 0
      /\ \A x \in Sessions : \A j \in Kinds :
            x # s \/ j # k => pending'[x][j] = pending[x][j]
      /\ pending' \in [Sessions -> [Kinds -> Nat]]
  BY <1>1, <1>3, HandOver DEF Kinds
<1>5. \A j : j \in Rights => ~Holds(Top(t), j)
  BY NoCallNoRight DEF Top
<1>6. ~Holds(Top(t), "unlock")
  BY DEF Top, Holds, Ground, Frame
<1>7. /\ \A j \in Rights \ {k} : \A x : Held(j, x)' <=> Held(j, x)
      /\ \A x : x # s => (Held(k, x)' <=> Held(k, x))
      /\ k = "disconnect" => \A x : Held(k, x)' <=> Held(k, x)
  BY <1>5 DEF Moved, Some, Rights
<1>8. LifeTypeOK'
  BY <1>1, <1>4 DEF LifeTypeOK, Moved, sendVars, roomVars
<1>9. Sole' /\ Shape'
  BY DEF Moved
<1>10. Kernel'
  <2> SUFFICES ASSUME NEW x \in Sessions, NEW j \in Kinds
               PROVE  /\ pending'[x][j] \in 0..1
                      /\ j # "connect" /\ pending'[x][j] = 1 => ~Held(j, x)'
    BY DEF Kernel
  <2>1. CASE x = s /\ j = k
    BY <1>4, <2>1
  <2>2. CASE x # s \/ j # k
    <3>1. pending'[x][j] = pending[x][j]
      BY <1>4, <2>2
    <3>2. j # "connect" => (Held(j, x)' <=> Held(j, x))
      BY <1>7, <2>2 DEF Kinds, Rights
    <3> QED
      BY <1>1, <3>1, <3>2 DEF Kernel
  <2> QED
    BY <2>1, <2>2
<1>11. Births'
  <2>1. \A x \in Sessions : \A j \in Kinds :
            x # s \/ j = "connect" => pending'[x][j] = pending[x][j]
    BY <1>4
  <2>2. \A f \in F : f.s = s /\ ~Holds(f, "birth")
    BY DEF Rights
  <2> QED
    BY <1>1, <1>2, <2>1, <2>2, BirthsOfUser DEF sendVars, roomVars
<1>12. Flags'
  <2>1. ASSUME NEW x \in Sessions
        PROVE  /\ Held("send", x)' \/ pending'[x]["send"] = 1 => x \in registered'
               /\ pending'[x]["disconnect"] = 1 => pending[x]["disconnect"] = 1
               /\ Held("disconnect", x)' <=> Held("disconnect", x)
               /\ Held("add", x)' <=> Held("add", x)
    <3>1. pending'[x]["disconnect"] = 1 => pending[x]["disconnect"] = 1
      BY <1>3, <1>4 DEF Kinds
    <3>2. /\ Held("disconnect", x)' <=> Held("disconnect", x)
          /\ Held("add", x)' <=> Held("add", x)
      BY <1>7 DEF Rights
    <3>3. CASE k = "send" /\ x = s
      BY <1>1, <1>3, <3>1, <3>2, <3>3 DEF Flags, sendVars
    <3>4. CASE k # "send" \/ x # s
      <4>1. /\ Held("send", x)' <=> Held("send", x)
            /\ pending'[x]["send"] = pending[x]["send"]
        BY <1>4, <1>7, <3>4 DEF Rights, Kinds
      <4> QED
        BY <1>1, <3>1, <3>2, <4>1 DEF Flags, sendVars
    <3> QED
      BY <3>3, <3>4
  <2> QED
    BY <1>1, <2>1, FlagsKept
<1>13. Loops'
  <2>1. Held("accept", NoSession)' <=> Held("accept", NoSession)
    BY <1>7 DEF Rights
  <2>2. ~Some(F, "execute", NoSession)
    BY DEF Some, Rights
  <2> QED
    BY <1>1, <1>6, <2>1, <2>2, LoopsKept DEF roomVars
<1>14. NoReentry'
  BY <1>1, NoReentryKept
<1> QED
  BY <1>1, <1>8, <1>9, <1>10, <1>11, <1>12, <1>13, <1>14 DEF LifeInv
\* Bytes were received, or none.
LEMMA TakeRecvStep ==
    ASSUME LifeInv, NEW t \in Threads, NEW s \in Sessions, TakeRecv(t, s)
    PROVE  LifeInv'
<1>1. LifeTypeOK /\ Shape /\ Sole /\ Kernel
  BY DEF LifeInv
<1>2. /\ stack[t] = <<>> /\ pending[s]["recv"] > 0 /\ Hand(s, "recv", -1)
      /\ UNCHANGED <<created, established, accepting, listening, connected, registry,
                     sendVars, lock, roomVars, crashed>>
  BY DEF TakeRecv, Idle
<1>3. ~Held("recv", s)
  BY <1>1, <1>2 DEF Kernel, Kinds
<1> DEFINE d == DisconnectCall(s)
           h == Frame("HandlePacket", s, "handle")
           r == Frame("RegisterRecv", s, "check")
<1>4. /\ d \in Frames /\ h \in Frames /\ r \in Frames /\ Named(d) /\ Named(h) /\ Named(r)
      /\ Rests(d, Ground) /\ Rests(h, r) /\ Rests(r, Ground)
  BY NoneAssumption DEF DisconnectCall, Frame, Frames, Calls, Places, Named, Rests
<1>5. /\ d.s = s /\ h.s = s /\ r.s = s
      /\ d.call # "Send" /\ h.call # "Send" /\ r.call # "Send"
      /\ \A k \in Rights : ~Holds(d, k) /\ ~Holds(h, k) /\ (Holds(r, k) => k = "recv")
  BY DEF DisconnectCall, Frame, Holds, Rights
<1>6. Start(t, <<d>>) \/ Start(t, <<h, r>>) \/ Start(t, <<r>>)
  BY DEF TakeRecv
<1> HIDE DEF d, h, r
<1>7. Moved(t, {d}) \/ Moved(t, {h, r}) \/ Moved(t, {r})
  <2>1. CASE Start(t, <<d>>)
    BY <1>1, <1>2, <1>4, <1>5, <2>1, IdleMoves
  <2>2. CASE Start(t, <<r>>)
    <3>1. \A k \in Rights : Holds(r, k) => ~Held(k, r.s)
      BY <1>3, <1>5
    <3> QED
      BY <1>1, <1>2, <1>4, <2>2, <3>1, IdleMoves
  <2>3. CASE Start(t, <<h, r>>)
    <3>1. \A k \in Rights : Holds(r, k) => ~Held(k, r.s)
      BY <1>3, <1>5
    <3> QED
      BY <1>1, <1>2, <1>4, <1>5, <2>3, <3>1, IdleMoves
  <2> QED
    BY <1>6, <2>1, <2>2, <2>3
<1>8. PICK F : Moved(t, F) /\ F \subseteq {d, h, r}
  BY <1>7
<1>9. \A f \in F : /\ f.s = s /\ ~(f.call = "Send" /\ f.at = "lock")
                   /\ \A j \in Rights \ {"recv"} : ~Holds(f, j)
  BY <1>5, <1>8
<1>10. PICK k \in {"recv", "send", "disconnect"} : k = "recv"
  OBVIOUS
<1> QED
  BY <1>2, <1>8, <1>9, <1>10, TakeStep

\* Bytes were sent, or none.
LEMMA TakeSendStep ==
    ASSUME LifeInv, NEW t \in Threads, NEW s \in Sessions, TakeSend(t, s)
    PROVE  LifeInv'
<1>1. LifeTypeOK /\ Shape /\ Sole /\ Kernel
  BY DEF LifeInv
<1>2. /\ stack[t] = <<>> /\ pending[s]["send"] > 0 /\ Hand(s, "send", -1)
      /\ UNCHANGED <<created, established, accepting, listening, connected, registry,
                     sendVars, lock, roomVars, crashed>>
  BY DEF TakeSend, Idle
<1>3. ~Held("send", s)
  BY <1>1, <1>2 DEF Kernel, Kinds
<1> DEFINE d == DisconnectCall(s)
           p == Frame("ProcessSend", s, "lock")
<1>4. /\ d \in Frames /\ p \in Frames /\ Named(d) /\ Named(p)
      /\ Rests(d, Ground) /\ Rests(p, Ground)
  BY NoneAssumption DEF DisconnectCall, Frame, Frames, Calls, Places, Named, Rests
<1>5. /\ d.s = s /\ p.s = s /\ d.call # "Send" /\ p.call # "Send"
      /\ \A k \in Rights : ~Holds(d, k) /\ (Holds(p, k) => k = "send")
  BY DEF DisconnectCall, Frame, Holds, Rights
<1>6. Start(t, <<d>>) \/ Start(t, <<p>>)
  BY DEF TakeSend
<1> HIDE DEF d, p
<1>7. Moved(t, {d}) \/ Moved(t, {p})
  <2>1. CASE Start(t, <<d>>)
    BY <1>1, <1>2, <1>4, <1>5, <2>1, IdleMoves
  <2>2. CASE Start(t, <<p>>)
    <3>1. \A k \in Rights : Holds(p, k) => ~Held(k, p.s)
      BY <1>3, <1>5
    <3> QED
      BY <1>1, <1>2, <1>4, <2>2, <3>1, IdleMoves
  <2> QED
    BY <1>6, <2>1, <2>2
<1>8. PICK F : Moved(t, F) /\ F \subseteq {d, p}
  BY <1>7
<1>9. \A f \in F : /\ f.s = s /\ ~(f.call = "Send" /\ f.at = "lock")
                   /\ \A j \in Rights \ {"send"} : ~Holds(f, j)
  BY <1>5, <1>8
<1>10. PICK k \in {"recv", "send", "disconnect"} : k = "send"
  OBVIOUS
<1> QED
  BY <1>2, <1>8, <1>9, <1>10, TakeStep

\* DisconnectEx is over.
LEMMA TakeDisconnectStep ==
    ASSUME LifeInv, NEW t \in Threads, NEW s \in Sessions, TakeDisconnect(t, s)
    PROVE  LifeInv'
<1>1. /\ stack[t] = <<>> /\ pending[s]["disconnect"] > 0 /\ Hand(s, "disconnect", -1)
      /\ UNCHANGED <<created, established, accepting, listening, connected, registry,
                     sendVars, lock, roomVars, crashed>>
      /\ stack' = stack
  BY DEF TakeDisconnect, Idle
<1>2. PICK F : F = {} /\ Moved(t, F)
  BY <1>1, IdleMoves DEF LifeInv
<1>3. PICK k \in {"recv", "send", "disconnect"} : k = "disconnect"
  OBVIOUS
<1> QED
  BY <1>1, <1>2, <1>3, TakeStep

\* ConnectEx is over: the session is on its way into the registry.
LEMMA TakeConnectStep ==
    ASSUME LifeInv, NEW t \in Threads, NEW s \in Sessions, TakeConnect(t, s)
    PROVE  LifeInv'
<1>1. LifeTypeOK /\ Shape /\ Sole /\ Kernel /\ Births /\ Flags /\ Loops /\ NoReentry /\ ~crashed
  BY DEF LifeInv
<1> DEFINE p == Frame("ProcessConnect", s, "store")
<1>2. /\ stack[t] = <<>> /\ pending[s]["connect"] > 0 /\ Hand(s, "connect", -1)
      /\ established' \in {established, established \cup {s}} /\ Start(t, <<p>>)
      /\ UNCHANGED <<created, accepting, listening, connected, registry, sendVars, lock,
                     roomVars, crashed>>
  BY DEF TakeConnect, Idle
<1>3. pending[s]["connect"] = 1
  BY <1>1, <1>2 DEF Kernel, Kinds
<1>4. ~Server /\ s \in created /\ ~listening /\ ~Joined(s) /\ ~Held("birth", s)
  BY <1>1, <1>3 DEF Births, Joined
<1>5. /\ ~Held("recv", s) /\ ~Held("use", s)
      /\ \A k \in Kinds \ {"connect"} : pending[s][k] # 1
  BY <1>1, <1>4, Unborn
<1>6. /\ pending'[s]["connect"] = 0
      /\ \A x \in Sessions : \A j \in Kinds :
            x # s \/ j # "connect" => pending'[x][j] = pending[x][j]
      /\ pending' \in [Sessions -> [Kinds -> Nat]]
  BY <1>1, <1>2, <1>3, HandOver DEF Kinds
<1>7. /\ p \in Frames /\ Named(p) /\ Rests(p, Ground) /\ p.s = s /\ p.call # "Send"
      /\ \A k \in Rights : Holds(p, k) <=> k \in {"recv", "birth"}
      /\ ~Holds(p, "use")
  BY NoneAssumption DEF Frame, Frames, Calls, Places, Named, Rests, Holds, Rights
<1> HIDE DEF p
<1>8. Moved(t, {p}) /\ Top(t) = Ground
  <2>1. \A k \in Rights : Holds(p, k) => ~Held(k, p.s)
    BY <1>4, <1>5, <1>7
  <2> QED
    BY <1>1, <1>2, <1>7, <2>1, IdleMoves
<1>9. (\A k \in Rights : ~Holds(Top(t), k)) /\ ~Holds(Top(t), "unlock")
  BY <1>8, NoCallNoRight DEF Holds, Ground, Frame
<1>10. /\ \A k \in {"send", "disconnect", "add", "accept"} : \A x : Held(k, x)' <=> Held(k, x)
       /\ \A k \in {"recv", "birth"} : \A x : Held(k, x)' <=> Held(k, x) \/ x = s
       /\ \A x : Held("use", x)' => Held("use", x)
  BY <1>7, <1>8, <1>9 DEF Moved, Some, Rights
<1>11. LifeTypeOK'
  BY <1>1, <1>2, <1>4, <1>6, <1>8 DEF LifeTypeOK, Moved, sendVars, roomVars
<1>12. Sole' /\ Shape'
  BY <1>8 DEF Moved
<1>13. Kernel'
  <2> SUFFICES ASSUME NEW x \in Sessions, NEW j \in Kinds
               PROVE  /\ pending'[x][j] \in 0..1
                      /\ j # "connect" /\ pending'[x][j] = 1 => ~Held(j, x)'
    BY DEF Kernel
  <2>1. CASE j = "connect"
    BY <1>1, <1>6, <2>1 DEF Kernel
  <2>2. CASE j # "connect"
    <3>1. pending'[x][j] = pending[x][j] /\ pending'[x][j] \in 0..1
      BY <1>1, <1>6, <2>2 DEF Kernel
    <3>2. CASE x = s
      BY <1>5, <2>2, <3>1, <3>2
    <3>3. CASE x # s
      BY <1>1, <1>10, <2>2, <3>1, <3>3 DEF Kernel, Kinds
    <3> QED
      BY <3>2, <3>3
  <2> QED
    BY <2>1, <2>2
<1>14. UNCHANGED <<created, accepting, listening, registry, registered, chosen, audience>>
  BY <1>2 DEF sendVars, roomVars
<1>15. Births'
  <2>1. \A x \in Sessions : x # s /\ Joined(x) => Joined(x)'
    BY <1>6, <1>10, <1>14 DEF Joined, Kinds
  <2>2. ASSUME NEW x \in Sessions,
               \/ x \in (registry \cup chosen \cup audience \cup registered)'
               \/ Held("use", x)'
               \/ \E k \in Kinds \ {"connect"} : pending'[x][k] > 0
        PROVE  Joined(x)'
    <3>1. \/ x \in registry \cup chosen \cup audience \cup registered
          \/ Held("use", x)
          \/ \E k \in Kinds \ {"connect"} : pending[x][k] > 0
      BY <1>6, <1>10, <1>14, <2>2
    <3>2. Joined(x)
      BY <1>1, <3>1, Unborn
    <3> QED
      BY <1>4, <2>1, <3>2
  <2>3. ASSUME NEW x \in Sessions, Held("birth", x)'
        PROVE  /\ x \in created' /\ ~(listening' /\ accepting' = x)
               /\ pending'[x]["connect"] = 0
               /\ Server => x \in established'
    <3>1. CASE x = s
      BY <1>4, <1>6, <1>14, <3>1
    <3>2. CASE x # s
      <4>1. Held("birth", x)
        BY <1>10, <2>3, <3>2
      <4> QED
        BY <1>1, <1>4, <1>6, <1>14, <3>2, <4>1 DEF Births, Kinds
    <3> QED
      BY <3>1, <3>2
  <2>4. /\ \A x \in Sessions : Server \/ x \notin created' => pending'[x]["connect"] = 0
        /\ listening' => Server /\ accepting' \in created' \ established'
        /\ Server => registry' \subseteq established'
    BY <1>1, <1>4, <1>6, <1>14 DEF Births, Kinds
  <2> QED
    BY <2>2, <2>3, <2>4 DEF Births
<1>16. Flags'
  <2>1. \A x \in Sessions :
            /\ Held("send", x)' \/ pending'[x]["send"] = 1 => x \in registered'
            /\ pending'[x]["disconnect"] = 1 => pending[x]["disconnect"] = 1
            /\ Held("disconnect", x)' <=> Held("disconnect", x)
            /\ Held("add", x)' <=> Held("add", x)
    BY <1>1, <1>6, <1>10, <1>14 DEF Flags, Kinds
  <2> QED
    BY <1>1, <1>2, <2>1, FlagsKept
<1>17. Loops'
  <2>1. ~Some({p}, "execute", NoSession)
    BY <1>7 DEF Some, Rights
  <2>2. Held("accept", NoSession)' <=> Held("accept", NoSession)
    BY <1>10
  <2> QED
    BY <1>1, <1>2, <1>8, <1>9, <2>1, <2>2, LoopsKept DEF roomVars
<1>18. NoReentry'
  BY <1>1, <1>7, <1>8, NoReentryKept
<1> QED
  BY <1>1, <1>2, <1>11, <1>12, <1>13, <1>15, <1>16, <1>17, <1>18 DEF LifeInv

\* A peer was accepted, or not; the accept loop goes on.
LEMMA TakeAcceptStep ==
    ASSUME LifeInv, NEW t \in Threads, TakeAccept(t)
    PROVE  LifeInv'
<1>1. LifeTypeOK /\ Shape /\ Sole /\ Kernel /\ Births /\ Flags /\ Loops /\ NoReentry /\ ~crashed
  BY DEF LifeInv
<1> DEFINE p == Frame("ProcessConnect", accepting, "store")
           a == Frame("RegisterAccept", NoSession, "create")
<1>2. /\ stack[t] = <<>> /\ listening /\ listening' = FALSE
      /\ UNCHANGED <<created, pending, accepting, connected, registry, sendVars, lock,
                     roomVars, crashed>>
      /\ \/ established' = established \cup {accepting} /\ Start(t, <<p, a>>)
         \/ established' = established /\ Start(t, <<a>>)
  BY DEF TakeAccept, Idle
<1>3. PICK s \in Sessions : s = accepting
  BY <1>1, <1>2 DEF Births, LifeTypeOK
<1>4. Server /\ s \in created /\ ~Joined(s) /\ ~Held("birth", s) /\ ~Held("accept", NoSession)
  BY <1>1, <1>2, <1>3 DEF Births, Joined, Loops
<1>5. /\ ~Held("recv", s) /\ ~Held("use", s)
      /\ \A k \in Kinds \ {"connect"} : ~(pending[s][k] > 0)
  BY <1>1, <1>4, Unborn
<1>6. /\ p \in Frames /\ Named(p) /\ Rests(p, a) /\ p.s = s /\ p.call # "Send"
      /\ \A k \in Rights : Holds(p, k) <=> k \in {"recv", "birth"}
      /\ ~Holds(p, "use")
      /\ a \in Frames /\ Named(a) /\ Rests(a, Ground) /\ a.s = NoSession /\ a.call # "Send"
      /\ \A k \in Rights : Holds(a, k) <=> k = "accept"
      /\ NoSession \notin Sessions
  BY <1>3, NoneAssumption DEF Frame, Frames, Calls, Places, Named, Rests, Holds, Rights
<1> HIDE DEF p, a
<1>7. Top(t) = Ground
  BY <1>1, <1>2, IdleMoves
<1>8. PICK F : /\ Moved(t, F) /\ a \in F /\ F \subseteq {p, a}
               /\ p \in F => established' = established \cup {s}
               /\ established \subseteq established' /\ established' \subseteq established \cup {s}
  <2>1. \A k \in Rights : Holds(a, k) => ~Held(k, a.s)
    BY <1>4, <1>6
  <2>2. CASE established' = established \cup {accepting} /\ Start(t, <<p, a>>)
    <3>1. \A k \in Rights : Holds(p, k) => ~Held(k, p.s)
      BY <1>4, <1>5, <1>6
    <3>2. \A k \in Rights : ~(Holds(p, k) /\ Holds(a, k) /\ p.s = a.s)
      BY <1>6
    <3>3. Moved(t, {p, a})
      BY <1>1, <1>2, <1>6, <2>1, <2>2, <3>1, <3>2, IdleMoves
    <3> QED
      BY <1>3, <2>2, <3>3
  <2>3. CASE established' = established /\ Start(t, <<a>>)
    <3>1. Moved(t, {a})
      BY <1>1, <1>2, <1>6, <2>1, <2>3, IdleMoves
    <3>2. p # a
      BY <1>6
    <3> QED
      BY <2>3, <3>1, <3>2
  <2> QED
    BY <1>2, <2>2, <2>3
<1>9. (\A k \in Rights : ~Holds(Top(t), k)) /\ ~Holds(Top(t), "unlock")
  BY <1>7, NoCallNoRight DEF Holds, Ground, Frame
<1>10. /\ \A k \in {"send", "disconnect", "add"} : \A x : Held(k, x)' <=> Held(k, x)
       /\ \A k \in {"recv", "birth"} : \A x : Held(k, x)' => Held(k, x) \/ (x = s /\ p \in F)
       /\ Held("accept", NoSession)'
       /\ \A x \in Sessions : Held("use", x)' => Held("use", x)
  <2>1. \A k \in {"send", "disconnect", "add"} : \A x : ~Some(F, k, x)
    BY <1>6, <1>8 DEF Some, Rights
  <2>2. \A k \in {"recv", "birth"} : \A x : Some(F, k, x) => x = s /\ p \in F
    BY <1>6, <1>8 DEF Some, Rights
  <2>3. Some(F, "accept", NoSession)
    BY <1>6, <1>8 DEF Some, Rights
  <2>4. \A x \in Sessions : ~Some(F, "use", x)
    BY <1>6, <1>8 DEF Some
  <2> QED
    BY <1>8, <1>9, <2>1, <2>2, <2>3, <2>4 DEF Moved, Rights
<1>11. LifeTypeOK'
  BY <1>1, <1>2, <1>4, <1>8 DEF LifeTypeOK, Moved, sendVars, roomVars
<1>12. Sole' /\ Shape'
  BY <1>8 DEF Moved
<1>13. UNCHANGED <<created, pending, accepting, connected, registry, registered, chosen, audience>>
  BY <1>2 DEF sendVars, roomVars
<1>14. Kernel'
  <2> SUFFICES ASSUME NEW x \in Sessions, NEW j \in Kinds
               PROVE  /\ pending'[x][j] \in 0..1
                      /\ j # "connect" /\ pending'[x][j] = 1 => ~Held(j, x)'
    BY DEF Kernel
  <2>1. CASE x = s
    <3>1. pending'[x][j] \in 0..1
      BY <1>1, <1>13 DEF Kernel
    <3>2. j # "connect" => pending'[x][j] # 1
      BY <1>5, <1>13, <2>1
    <3> QED
      BY <3>1, <3>2
  <2>2. CASE x # s
    BY <1>1, <1>10, <1>13, <2>2 DEF Kernel, Kinds
  <2> QED
    BY <2>1, <2>2
<1>15. Births'
  <2>1. \A x \in Sessions : x # s /\ Joined(x) => Joined(x)'
    BY <1>2, <1>10, <1>13 DEF Joined
  <2>2. ASSUME NEW x \in Sessions,
               \/ x \in (registry \cup chosen \cup audience \cup registered)'
               \/ Held("use", x)'
               \/ \E k \in Kinds \ {"connect"} : pending'[x][k] > 0
        PROVE  Joined(x)'
    <3>1. Joined(x)
      BY <1>1, <1>10, <1>13, <2>2, Unborn
    <3> QED
      BY <1>4, <2>1, <3>1
  <2>3. ASSUME NEW x \in Sessions, Held("birth", x)'
        PROVE  /\ x \in created' /\ ~(listening' /\ accepting' = x)
               /\ pending'[x]["connect"] = 0
               /\ Server => x \in established'
    <3>1. CASE Held("birth", x)
      BY <1>1, <1>2, <1>8, <1>13, <3>1 DEF Births
    <3>2. CASE x = s /\ p \in F
      BY <1>1, <1>2, <1>4, <1>8, <1>13, <3>2 DEF Births
    <3> QED
      BY <1>10, <2>3, <3>1, <3>2
  <2>4. /\ \A x \in Sessions : Server \/ x \notin created' => pending'[x]["connect"] = 0
        /\ ~listening'
        /\ Server => registry' \subseteq established'
    BY <1>1, <1>2, <1>8, <1>13 DEF Births
  <2> QED
    BY <2>2, <2>3, <2>4 DEF Births
<1>16. Flags'
  <2>1. \A x \in Sessions :
            /\ Held("send", x)' \/ pending'[x]["send"] = 1 => x \in registered'
            /\ pending'[x]["disconnect"] = 1 => pending[x]["disconnect"] = 1
            /\ Held("disconnect", x)' <=> Held("disconnect", x)
            /\ Held("add", x)' <=> Held("add", x)
    BY <1>1, <1>10, <1>13 DEF Flags
  <2> QED
    BY <1>1, <1>13, <2>1, FlagsKept
<1>17. Loops'
  <2>1. Held("accept", NoSession)' <=> (Server /\ ~listening')
    BY <1>2, <1>4, <1>10
  <2>2. \A w \in Threads : Sits(w, "execute", NoSession)' => executor' = w
    <3>1. ~Some(F, "execute", NoSession)
      BY <1>6, <1>8 DEF Some, Rights
    <3> QED
      BY <1>1, <1>2, <1>8, <3>1, ExecutorStays DEF roomVars
  <2>3. \A w \in Threads, x \in Sessions : lock'[x] = w => Sits(w, "unlock", x)'
    <3>1. \A w \in Threads : \A x : Sits(w, "unlock", x) => Sits(w, "unlock", x)'
      BY <1>8, <1>9 DEF Moved
    <3> QED
      BY <1>1, <1>2, <3>1 DEF Loops
  <2>4. lock'[Service] \in {NoThread, Main}
    BY <1>1, <1>2 DEF Loops
  <2> QED
    BY <2>1, <2>2, <2>3, <2>4 DEF Loops, Threads
<1>18. NoReentry'
  <2>1. \A f \in F : ~(f.call = "Send" /\ f.at = "lock")
    BY <1>6, <1>8
  <2> QED
    BY <1>1, <1>8, <2>1, NoReentryKept
<1> QED
  BY <1>1, <1>2, <1>11, <1>12, <1>14, <1>15, <1>16, <1>17, <1>18 DEF LifeInv

-----------------------------------------------------------------------------
(* The invariant *)

\* It holds at the start ...
LEMMA LifeInitially ==
    Init => LifeInv
<1> SUFFICES ASSUME Init PROVE LifeInv
  OBVIOUS
<1>1. \A t \in Threads : stack[t] = <<>> /\ DOMAIN stack[t] = {}
  BY DEF Init
<1>2. \A k, s : ~Held(k, s) /\ \A t \in Threads : ~Sits(t, k, s)
  BY <1>1 DEF Held, Sits
<1>3. LifeTypeOK
  <2>1. established \subseteq created /\ created \subseteq Sessions
    BY DEF Init
  <2>2. accepting \in created \cup {NoSession} /\ listening \in BOOLEAN
    BY NoneAssumption DEF Init
  <2>3. pending \in [Sessions -> [Kinds -> Nat]]
    <3>1. \A k \in Kinds : (IF k = "connect" /\ ~Server THEN 1 ELSE 0) \in Nat
      OBVIOUS
    <3> QED
      BY <3>1 DEF Init
  <2>4. stack \in [Threads -> Seq(Frames)]
    BY DEF Init
  <2>5. lock \in [Locks -> Threads \cup {NoThread}]
    BY DEF Init
  <2>6. /\ connected \in [Sessions -> BOOLEAN] /\ registry \subseteq Sessions
        /\ queued \subseteq Sessions /\ registered \subseteq Sessions
        /\ chosen \subseteq Sessions /\ room \subseteq chosen /\ audience \subseteq Sessions
        /\ executor \in Threads \cup {"global", NoThread} /\ crashed \in BOOLEAN
    BY DEF Init
  <2>7. jobs \in Seq([kind : {"enter", "leave", "move"}, s : chosen])
    BY DEF Init
  <2> QED
    BY <2>1, <2>2, <2>3, <2>4, <2>5, <2>6, <2>7 DEF LifeTypeOK
<1>4. Shape /\ Sole /\ NoReentry
  BY <1>1 DEF Shape, Sole, NoReentry, At
<1>5. Kernel
  BY <1>2, NoneAssumption DEF Init, Kernel, Kinds
<1>6. Births
  BY <1>2, NoneAssumption DEF Init, Births, Kinds
<1>7. Flags
  BY <1>2 DEF Init, Flags, Kinds
<1>8. Loops
  BY <1>2, NoneAssumption DEF Init, Loops, Threads, Locks, Service
<1> QED
  BY <1>3, <1>4, <1>5, <1>6, <1>7, <1>8 DEF LifeInv, Init

\* ... and every step keeps it.
LEMMA LifeKept ==
    LifeInv /\ [Next]_lifeVars => LifeInv'
<1> SUFFICES ASSUME LifeInv, [Next]_lifeVars PROVE LifeInv'
  OBVIOUS
<1>1. ASSUME NEW t \in Threads, Take(t) PROVE LifeInv'
  <2>1. ASSUME TakeAccept(t) PROVE LifeInv'
    BY <2>1, TakeAcceptStep
  <2>2. ASSUME TakeGlobal(t) PROVE LifeInv'
    BY <2>2, TakeGlobalStep
  <2>3. ASSUME NEW s \in Sessions,
               TakeConnect(t, s) \/ TakeRecv(t, s) \/ TakeSend(t, s) \/ TakeDisconnect(t, s)
        PROVE  LifeInv'
    BY <2>3, TakeConnectStep, TakeRecvStep, TakeSendStep, TakeDisconnectStep
  <2> QED
    BY <1>1, <2>1, <2>2, <2>3 DEF Take
<1>2. ASSUME NEW t \in Threads, Run(t) PROVE LifeInv'
  <2>1. ASSUME \/ RegisterAccept(t) \/ Connected(t) \/ AddSession(t) \/ OnConnected(t)
               \/ CheckRecv(t) \/ WSARecv(t)
        PROVE  LifeInv'
    BY <2>1, RegisterAcceptStep, ConnectedStep, AddSessionStep, OnConnectedStep,
       CheckRecvStep, WSARecvStep
  <2>2. ASSUME \/ CheckSend(t) \/ PushSend(t) \/ DrainSend(t) \/ WSASend(t) \/ ClearSend(t)
               \/ FinishSend(t) \/ UnlockSend(t)
        PROVE  LifeInv'
    BY <2>2, CheckSendStep, PushSendStep, DrainSendStep, WSASendStep, ClearSendStep,
       FinishSendStep, UnlockSendStep
  <2>3. ASSUME \/ Exchange(t) \/ OnDisconnected(t) \/ ReleaseSession(t)
               \/ HandlePacket(t) \/ DropPacket(t)
        PROVE  LifeInv'
    BY <2>3, ExchangeStep, OnDisconnectedStep, ReleaseSessionStep, HandlePacketStep,
       DropPacketStep
  <2>4. ASSUME ExecuteJob(t) \/ Tell(t) \/ EndJob(t) \/ EndExecute(t)
        PROVE  LifeInv'
    BY <2>4, ExecuteJobStep, TellStep, EndJobStep, EndExecuteStep
  <2> QED
    BY <1>2, <2>1, <2>2, <2>3, <2>4 DEF Run
<1>3. ASSUME BeginBroadcast \/ BroadcastSend \/ EndBroadcast PROVE LifeInv'
  BY <1>3, BeginBroadcastStep, BroadcastSendStep, EndBroadcastStep
<1>4. ASSUME UNCHANGED lifeVars PROVE LifeInv'
  <2>1. UNCHANGED <<created, established, pending, accepting, listening, connected, registry,
                    queued, registered, lock, stack, chosen, jobs, executor, room, audience,
                    crashed>>
    BY <1>4 DEF lifeVars, socketVars, sendVars, roomVars
  <2>2. (\A t, k, s : Sits(t, k, s)' <=> Sits(t, k, s)) /\ (\A k, s : Held(k, s)' <=> Held(k, s))
    BY <2>1 DEF Sits, Held, Threads, Holds
  <2>3. LifeTypeOK' /\ Shape' /\ Sole'
    <3>1. \A t, i : Below(t, i)' = Below(t, i)
      BY <2>1 DEF Below, Ground, Frame
    <3>2. Shape'
      BY <2>1, <3>1 DEF LifeInv, Shape, Threads
    <3>3. Sole'
      BY <2>1 DEF LifeInv, Sole, Threads
    <3> QED
      BY <2>1, <3>2, <3>3 DEF LifeInv, LifeTypeOK, Threads, Locks
  <2>4. Kernel' /\ Flags' /\ Births'
    BY <2>1, <2>2 DEF LifeInv, Kernel, Flags, Births, Joined
  <2>5. Loops' /\ NoReentry'
    BY <2>1, <2>2 DEF LifeInv, Loops, NoReentry, At, Of
  <2> QED
    BY <2>1, <2>3, <2>4, <2>5 DEF LifeInv
<1> QED
  BY <1>1, <1>2, <1>3, <1>4 DEF Next

\* The rights of the calls, the kernel's share, the registry, the flags, the accept loop and
\* the executor go together as LifeInv says, always.
THEOREM LifeInvariance ==
    Spec => []LifeInv
<1>1. Init => LifeInv
  BY LifeInitially
<1>2. LifeInv /\ [Next]_lifeVars => LifeInv'
  BY LifeKept
<1> QED
  BY <1>1, <1>2, PTL DEF Spec
-----------------------------------------------------------------------------
(* What the invariant says of the program *)

\* Sessions, locks, the kernel's OVERLAPPEDs and the jobs of the Room keep their types.
THEOREM LifeTypes ==
    Spec => []LifeTypeOK
<1>1. LifeInv => LifeTypeOK
  BY DEF LifeInv
<1> QED
  BY <1>1, LifeInvariance, PTL

\* No OVERLAPPED of a session is ever handed to the kernel a second time while it is there.
THEOREM OneOperation ==
    Spec => []OneOperationPerEvent
<1>1. LifeInv => OneOperationPerEvent
  <2> SUFFICES ASSUME LifeInv, NEW s \in Sessions, NEW k \in Kinds
               PROVE  pending[s][k] <= 1
    BY DEF OneOperationPerEvent
  <2>1. pending[s][k] \in 0..1
    BY DEF LifeInv, Kernel
  <2> QED
    BY <2>1
<1> QED
  BY <1>1, LifeInvariance, PTL

\* ReleaseSession always finds the session: ASSERT_CRASH does not fire.
THEOREM Release ==
    Spec => []ReleaseFindsSession
<1>1. LifeInv => ReleaseFindsSession
  BY DEF LifeInv, ReleaseFindsSession
<1> QED
  BY <1>1, LifeInvariance, PTL

\* On the server, a session comes to the registry with a peer at the other end only.
THEOREM Registered ==
    Spec => []RegisteredIsConnected
<1>1. LifeInv => RegisteredIsConnected
  BY DEF LifeInv, Births, RegisteredIsConnected
<1> QED
  BY <1>1, LifeInvariance, PTL

\* A session is registered and not connected exactly while one call owes its release
\* (RegistryFollows), on the server and on the client.
THEOREM Registry ==
    Spec => []RegistryFollows
<1>1. LifeInv => RegistryFollows
  <2> SUFFICES ASSUME LifeInv, NEW s \in Sessions
               PROVE  IF s \in registry /\ ~connected[s]
                      THEN \E t \in Threads : Releasers(s) = {t}
                      ELSE Releasers(s) = {}
    BY DEF RegistryFollows
  <2>1. Releasers(s) = {t \in Threads : Sits(t, "disconnect", s)}
    BY DEF Releasers, Sits, Holds
  <2>2. s \in registry /\ ~connected[s] <=> Held("disconnect", s)
    BY DEF LifeInv, Flags
  <2>3. ASSUME NEW t \in Threads, NEW u \in Threads,
               Sits(t, "disconnect", s), Sits(u, "disconnect", s)
        PROVE  t = u
    <3>1. PICK i \in DOMAIN stack[t] : stack[t][i].s = s /\ Holds(stack[t][i], "disconnect")
      BY <2>3 DEF Sits
    <3>2. PICK j \in DOMAIN stack[u] : stack[u][j].s = s /\ Holds(stack[u][j], "disconnect")
      BY <2>3 DEF Sits
    <3>3. "disconnect" \in Rights
      BY DEF Rights
    <3> QED
      BY <3>1, <3>2, <3>3 DEF LifeInv, Sole
  <2>4. CASE Held("disconnect", s)
    <3>1. PICK t \in Threads : Sits(t, "disconnect", s)
      BY <2>4 DEF Held
    <3>2. Releasers(s) = {t}
      BY <2>1, <2>3, <3>1
    <3> QED
      BY <2>2, <2>4, <3>2
  <2>5. CASE ~Held("disconnect", s)
    BY <2>1, <2>2, <2>5 DEF Held
  <2> QED
    BY <2>4, <2>5
<1> QED
  BY <1>1, LifeInvariance, PTL

\* One AcceptEx is with the kernel, or one thread is on its way to the next.
THEOREM Accepting ==
    Spec => []OneAccept
<1>1. LifeInv => OneAccept
  <2> SUFFICES ASSUME LifeInv, Server PROVE OneAccept
    BY DEF OneAccept
  <2> DEFINE again == {t \in Threads : Within(t, "RegisterAccept", NoSession)}
  <2>1. \A t \in Threads : Within(t, "RegisterAccept", NoSession) <=> Sits(t, "accept", NoSession)
    <3>1. \A f : Holds(f, "accept") <=> f.call = "RegisterAccept"
      BY DEF Holds
    <3> QED
      BY <3>1 DEF Within, Sits
  <2>2. (\E t \in again : TRUE) <=> ~listening
    BY <2>1 DEF LifeInv, Loops, Held
  <2>3. \A t, u \in again : t = u
    <3> SUFFICES ASSUME NEW t \in again, NEW u \in again PROVE t = u
      OBVIOUS
    <3>1. Sits(t, "accept", NoSession) /\ Sits(u, "accept", NoSession)
      BY <2>1
    <3>2. PICK i \in DOMAIN stack[t] : Holds(stack[t][i], "accept") /\ stack[t][i].s = NoSession
      BY <3>1 DEF Sits
    <3>3. PICK j \in DOMAIN stack[u] : Holds(stack[u][j], "accept") /\ stack[u][j].s = NoSession
      BY <3>1 DEF Sits
    <3>4. "accept" \in Rights
      BY DEF Rights
    <3> QED
      BY <3>2, <3>3, <3>4 DEF LifeInv, Sole
  <2>4. listening => accepting \notin established
    BY DEF LifeInv, Births
  <2>5. again \subseteq Threads
    OBVIOUS
  <2>6. IF listening THEN again = {} ELSE \E t \in Threads : again = {t}
    <3> HIDE DEF again
    <3>1. CASE listening
      BY <2>2, <3>1
    <3>2. CASE ~listening
      <4>1. PICK t \in again : TRUE
        BY <2>2, <3>2
      <4>2. again = {t}
        BY <2>3, <4>1
      <4> QED
        BY <2>5, <3>2, <4>1, <4>2
    <3> QED
      BY <3>1, <3>2
  <2> QED
    BY <2>4, <2>6 DEF OneAccept
<1> QED
  BY <1>1, LifeInvariance, PTL
-----------------------------------------------------------------------------
(* No workers wait for one another's locks *)

\* ProcessSend is called by the thread's loop only, so that it is at the bottom of the
\* stack; each of the other calls was made by the one below it, and none of them by the
\* thread's loop.
LEMMA AboveProcessSend ==
    ASSUME LifeTypeOK, Shape, NEW t \in Threads, NEW j \in DOMAIN stack[t],
           stack[t][j].call = "ProcessSend", NEW i \in DOMAIN stack[t], i # j
    PROVE  /\ i + 1 \in DOMAIN stack[t]
           /\ Rests(stack[t][i], stack[t][i + 1])
           /\ stack[t][i].call \notin
                {"RegisterAccept", "ProcessSend", "Broadcast", "RegisterRecv"}
<1>1. DOMAIN stack[t] = 1..Len(stack[t]) /\ Len(stack[t]) \in Nat
  BY Calling
<1>2. \A k \in DOMAIN stack[t] : stack[t][k] \in Frames
  BY <1>1, Calling
<1>3. Ground.call = "none" /\ \A f \in Frames : f # Ground
  <2>1. Ground.call = "none"
    BY DEF Ground, Frame
  <2>2. \A f \in Frames : f.call # "none"
    BY DEF Frames, Calls
  <2> QED
    BY <2>1, <2>2
<1>4. \A k \in DOMAIN stack[t] : Rests(stack[t][k], Below(t, k))
  BY DEF Shape
<1>5. \A k \in DOMAIN stack[t] :
        IF k < Len(stack[t]) THEN k + 1 \in DOMAIN stack[t] /\ Below(t, k) = stack[t][k + 1]
                             ELSE k = Len(stack[t]) /\ Below(t, k) = Ground
  BY <1>1 DEF Below
<1>6. \A k \in DOMAIN stack[t] :
        stack[t][k].call \in {"RegisterAccept", "ProcessSend", "Broadcast"}
            => k = Len(stack[t])
  BY <1>2, <1>3, <1>4, <1>5 DEF Rests
<1>7. j = Len(stack[t])
  BY <1>6
<1>8. \A k \in DOMAIN stack[t] \ {j} :
        /\ k + 1 \in DOMAIN stack[t]
        /\ Rests(stack[t][k], stack[t][k + 1])
        /\ stack[t][k].call \notin {"RegisterAccept", "ProcessSend", "Broadcast"}
  BY <1>1, <1>4, <1>5, <1>6, <1>7
<1>9. stack[t][i].call # "RegisterRecv"
  <2> SUFFICES ASSUME stack[t][i].call = "RegisterRecv" PROVE FALSE
    OBVIOUS
  <2>1. stack[t][i + 1].call = "RegisterAccept"
    BY <1>2, <1>3, <1>8 DEF Rests
  <2>2. i + 1 # j
    BY <2>1
  <2> QED
    BY <1>8, <2>1, <2>2
<1> QED
  BY <1>8, <1>9

\* A thread that waits in Send while it holds a lock executes the Room ...
LEMMA WaiterExecutes ==
    ASSUME LifeTypeOK, Shape, Loops, NEW t \in Threads,
           NEW j \in DOMAIN stack[t], stack[t][j].call = "ProcessSend",
           At(t, "Send", "lock")
    PROVE  /\ 1 \in DOMAIN stack[t] /\ 1 # j /\ 2 \in DOMAIN stack[t] /\ 2 # j
           /\ stack[t][2].call = "Execute" /\ stack[t][2].s = NoSession
           /\ executor = t
<1>1. 1 \in DOMAIN stack[t] /\ stack[t][1].call = "Send" /\ 1 # j
  BY Calling DEF At
<1>2. /\ 2 \in DOMAIN stack[t]
      /\ stack[t][2].call \in {"Execute", "Broadcast", "RegisterRecv"}
  <2>1. 1 + 1 = 2
    OBVIOUS
  <2>2. 2 \in DOMAIN stack[t] /\ Rests(stack[t][1], stack[t][2])
    BY <1>1, <2>1, AboveProcessSend
  <2> QED
    BY <1>1, <2>2 DEF Rests
<1>3. 2 # j
  BY <1>2
<1>4. stack[t][2].call = "Execute"
  BY <1>2, <1>3, AboveProcessSend
<1>5. stack[t][2].s = NoSession
  BY <1>2, <1>4 DEF Shape
<1>6. Sits(t, "execute", NoSession)
  BY <1>2, <1>4, <1>5 DEF Sits, Holds
<1> QED
  BY <1>1, <1>2, <1>3, <1>4, <1>5, <1>6 DEF Loops

\* ... and it has got there from a failed RegisterSend of the session that it holds.
LEMMA WaiterDisconnects ==
    ASSUME LifeTypeOK, Shape, Sole, Loops, NEW t \in Threads,
           NEW j \in DOMAIN stack[t], stack[t][j].call = "ProcessSend",
           At(t, "Send", "lock")
    PROVE  Sits(t, "disconnect", stack[t][j].s)
<1>1. /\ 2 \in DOMAIN stack[t] /\ 2 # j
      /\ stack[t][2].call = "Execute" /\ stack[t][2].s = NoSession
  BY WaiterExecutes
<1>2. 2 + 1 = 3 /\ 3 + 1 = 4 /\ 4 + 1 = 5
  OBVIOUS
<1>3. \A i \in DOMAIN stack[t] : stack[t][i] \in Frames
  BY Calling
<1>4. \A i \in DOMAIN stack[t] : stack[t][i] # Ground
  <2>1. \A f \in Frames : f.call # "none"
    BY DEF Frames, Calls
  <2> QED
    BY <1>3, <2>1 DEF Ground, Frame
<1>5. /\ 3 \in DOMAIN stack[t] /\ 3 # j
      /\ stack[t][3].call = "Disconnect" /\ stack[t][3].at = "release"
  <2>1. 3 \in DOMAIN stack[t] /\ Rests(stack[t][2], stack[t][3])
    BY <1>1, <1>2, AboveProcessSend
  <2>2. /\ stack[t][3].call \in {"RegisterRecv", "Disconnect"}
        /\ stack[t][3].call = "Disconnect" => stack[t][3].at = "release"
    BY <1>1, <1>4, <2>1 DEF Rests
  <2>3. 3 # j
    BY <2>2
  <2> QED
    BY <2>1, <2>2, <2>3, AboveProcessSend
<1>6. /\ 4 \in DOMAIN stack[t] /\ 4 # j
      /\ stack[t][4].call = "RegisterSend" /\ stack[t][4].s = stack[t][3].s
  <2>1. 4 \in DOMAIN stack[t] /\ Rests(stack[t][3], stack[t][4])
    BY <1>2, <1>5, AboveProcessSend
  <2>2. \/ stack[t][4].call = "RegisterAccept"
        \/ stack[t][4].call = "RegisterSend" /\ stack[t][4].s = stack[t][3].s
    BY <1>4, <1>5, <2>1 DEF Rests
  <2>3. 4 # j
    BY <2>2
  <2> QED
    BY <2>1, <2>2, <2>3, AboveProcessSend
<1>7. 5 \in DOMAIN stack[t] /\ Rests(stack[t][4], stack[t][5])
  BY <1>2, <1>6, AboveProcessSend
<1>8. \/ stack[t][5].call \in {"Execute", "Broadcast", "RegisterRecv"}
      \/ stack[t][5].call = "ProcessSend" /\ stack[t][5].s = stack[t][4].s
  BY <1>6, <1>7 DEF Rests
<1>9. stack[t][5].call # "Execute"
  <2> SUFFICES ASSUME stack[t][5].call = "Execute" PROVE FALSE
    OBVIOUS
  <2>1. stack[t][5].s = NoSession
    BY <1>7 DEF Shape
  <2>2. "execute" \in Rights /\ \A f : f.call = "Execute" => Holds(f, "execute")
    BY DEF Rights, Holds
  <2>3. 2 # 5
    OBVIOUS
  <2> QED
    BY <1>1, <1>7, <2>1, <2>2, <2>3 DEF Sole
<1>10. stack[t][5].call # "ProcessSend" => 5 # j
  OBVIOUS
<1>11. stack[t][5].call = "ProcessSend" /\ stack[t][5].s = stack[t][4].s
  BY <1>7, <1>8, <1>9, <1>10, AboveProcessSend
<1>12. 5 = j
  BY <1>7, <1>11, AboveProcessSend
<1>13. stack[t][3].s = stack[t][j].s
  BY <1>6, <1>11, <1>12
<1> QED
  BY <1>5, <1>13 DEF Sits, Holds

\* No workers wait for one another's locks, and none for its own.  Whoever waits for a
\* lock and holds one executes the Room, which one thread only does; and that thread sends
\* to no session that it is disconnecting.  (The main thread of the client is no worker: its
\* Broadcast sends with the lock of the registry held, and a send that fails wants it again.)
THEOREM NoWaiting == Spec => []NoWaitCycle
<1>1. LifeInv => NoWaitCycle
  <2> SUFFICES ASSUME LifeInv, NEW S \in (SUBSET Workers) \ {{}},
                      \A t \in S : \E u \in S, l \in Locks : WaitsFor(t, l) /\ lock[l] = u
               PROVE  FALSE
    BY DEF NoWaitCycle
  <2>0. S \subseteq Threads
    BY DEF Threads
  <2>1. \A t \in S, u \in S, l \in Locks :
            WaitsFor(t, l) /\ lock[l] = u =>
                /\ l \in Sessions /\ l = Of(t) /\ Sits(u, "unlock", l)
                /\ At(t, "Send", "lock") \/ At(t, "ProcessSend", "lock")
    <3> SUFFICES ASSUME NEW t \in S, NEW u \in S, NEW l \in Locks,
                        WaitsFor(t, l), lock[l] = u
                 PROVE  /\ l \in Sessions /\ l = Of(t) /\ Sits(u, "unlock", l)
                        /\ At(t, "Send", "lock") \/ At(t, "ProcessSend", "lock")
      OBVIOUS
    <3>1. u \in Threads /\ t \in Threads /\ u \notin {NoThread, Main}
      BY NoneAssumption DEF Threads
    <3>2. l # Service
      BY <3>1 DEF LifeInv, Loops
    <3>3. l \in Sessions
      BY <3>2 DEF Locks
    <3> QED
      BY <3>1, <3>2, <3>3 DEF LifeInv, Loops, WaitsFor
  <2>2. \A u \in S, l \in Sessions : Sits(u, "unlock", l) =>
            /\ At(u, "Send", "lock") /\ executor = u
            /\ Sits(u, "disconnect", l)
    <3> SUFFICES ASSUME NEW u \in S, NEW l \in Sessions, Sits(u, "unlock", l)
                 PROVE  /\ At(u, "Send", "lock") /\ executor = u
                        /\ Sits(u, "disconnect", l)
      OBVIOUS
    <3>1. PICK j \in DOMAIN stack[u] : Holds(stack[u][j], "unlock") /\ stack[u][j].s = l
      BY DEF Sits
    <3>2. stack[u][j].call = "ProcessSend" /\ stack[u][j].at = "unlock"
      BY <3>1 DEF Holds
    <3>3. PICK v \in S : \E m \in Locks : WaitsFor(u, m) /\ lock[m] = v
      OBVIOUS
    <3>4. At(u, "Send", "lock") \/ At(u, "ProcessSend", "lock")
      BY <2>1, <3>3
    <3>5. ~At(u, "ProcessSend", "lock")
      <4> SUFFICES ASSUME At(u, "ProcessSend", "lock") PROVE FALSE
        OBVIOUS
      <4>1. /\ 1 \in DOMAIN stack[u] /\ stack[u][1].call = "ProcessSend"
            /\ stack[u][1].at = "lock"
        BY <2>0, Calling DEF At, LifeInv
      <4>2. 1 # j
        BY <3>2, <4>1
      <4> QED
        BY <2>0, <3>2, <4>1, <4>2, AboveProcessSend DEF LifeInv
    <3>6. executor = u /\ Sits(u, "disconnect", l)
      BY <2>0, <3>1, <3>2, <3>4, <3>5, WaiterExecutes, WaiterDisconnects DEF LifeInv
    <3> QED
      BY <3>4, <3>5, <3>6
  <2>3. PICK t \in S : TRUE
    OBVIOUS
  <2>4. PICK u \in S : \E l \in Locks : WaitsFor(t, l) /\ lock[l] = u
    OBVIOUS
  <2>5. At(u, "Send", "lock") /\ executor = u
    BY <2>1, <2>2, <2>4
  <2>6. PICK v \in S : \E l \in Locks : WaitsFor(u, l) /\ lock[l] = v
    OBVIOUS
  <2>7. v = u
    BY <2>1, <2>2, <2>5, <2>6
  <2>8. Sits(u, "disconnect", Of(u))
    BY <2>1, <2>2, <2>6, <2>7
  <2> QED
    BY <2>0, <2>5, <2>8 DEF LifeInv, NoReentry
<1> QED
  BY <1>1, LifeInvariance, PTL

-----------------------------------------------------------------------------
(* The promise: what a session's life depends on *)

\* On the server nobody has a session to send to or to disconnect before its OnConnected.
Fresh ==
    Server => \A s \in Sessions :
        Held("hello", s) =>
            /\ s \in registry /\ connected[s] /\ s \in established
            /\ s \notin chosen \cup audience \cup registered
            /\ \A k \in Kinds : pending[s][k] = 0
            /\ ~Held("guest", s)

\* The server receives from sessions that a peer was connected to.
Peers ==
    Server => \A s \in Sessions :
        Held("recv", s) \/ pending[s]["recv"] = 1 => s \in established

PromiseInv == LifeInv /\ Fresh /\ Peers

\* What SessionLife sees of a session.
Same(s) ==
    /\ Phase(s)' = Phase(s)
    /\ Welcomed(s)' <=> Welcomed(s)
    /\ Receiving(s)' <=> Receiving(s)

\* The calls that make a session's life, and the rights they have.
Lives(f) == f.call \in {"ProcessConnect", "RegisterRecv"}
LifeRights == {"birth", "hello", "recv"}

\* A turn gives the rights of its new calls and takes those of the innermost one.
LEMMA HeldMove ==
    ASSUME LifeTypeOK, NEW t \in Threads, NEW new \in Seq(Frames), Turn(t, new),
           NEW k, NEW s
    PROVE  /\ Has(new, k, s) => Held(k, s)'
           /\ ~Has(new, k, s) /\ ~(Holds(Top(t), k) /\ Top(t).s = s) =>
                (Held(k, s)' <=> Held(k, s))
           /\ Held(k, s)' => Has(new, k, s) \/ Held(k, s)
<1>1. ASSUME Has(new, k, s) PROVE Held(k, s)'
  <2>1. PICK i \in DOMAIN new : Holds(new[i], k) /\ new[i].s = s
    BY <1>1 DEF Has
  <2>2. i \in DOMAIN stack'[t] /\ stack'[t][i] = new[i]
    BY Turned
  <2>3. Holds(stack'[t][i], k) /\ stack'[t][i].s = s
    BY <2>1, <2>2
  <2>4. Sits(t, k, s)'
    BY <2>2, <2>3 DEF Sits, Holds
  <2> QED
    BY <2>4 DEF Held, Threads
<1>2. Held(k, s)' => Has(new, k, s) \/ Held(k, s)
  BY UsesMove
<1>3. ASSUME ~(Holds(Top(t), k) /\ Top(t).s = s), Held(k, s) PROVE Held(k, s)'
  <2>1. PICK u \in Threads : Sits(u, k, s)
    BY <1>3 DEF Held
  <2>2. Sits(u, k, s)'
    BY <1>3, <2>1, UsesMove
  <2> QED
    BY <2>2 DEF Held, Threads
<1> QED
  BY <1>1, <1>2, <1>3

\* A right that the innermost call has and no new one gets is nobody's.
LEMMA HeldNoMore ==
    ASSUME LifeTypeOK, Sole, NEW t \in Threads, NEW new \in Seq(Frames), Turn(t, new),
           NEW k \in Rights, NEW s, ~Has(new, k, s), Holds(Top(t), k), Top(t).s = s
    PROVE  ~Held(k, s)'
<1> SUFFICES ASSUME Held(k, s)' PROVE FALSE
  OBVIOUS
<1>1. PICK u \in Threads : Sits(u, k, s)'
  BY DEF Held, Threads
<1>2. PICK i \in DOMAIN stack'[u] : Holds(stack'[u][i], k) /\ stack'[u][i].s = s
  BY <1>1 DEF Sits, Holds
<1>3. 1 \in DOMAIN stack[t] /\ Top(t) = stack[t][1]
  BY TopHolds
<1>4. \/ u = t /\ i \in DOMAIN new /\ stack'[u][i] = new[i]
      \/ \E j \in DOMAIN stack[u] : stack'[u][i] = stack[u][j] /\ (u = t => j # 1)
  BY <1>2, Places1
<1>5. ~(u = t /\ i \in DOMAIN new /\ stack'[u][i] = new[i])
  BY <1>2 DEF Has
<1>6. PICK j \in DOMAIN stack[u] : stack'[u][i] = stack[u][j] /\ (u = t => j # 1)
  BY <1>4, <1>5
<1>7. Holds(stack[u][j], k) /\ Holds(stack[t][1], k) /\ stack[u][j].s = stack[t][1].s
  BY <1>2, <1>3, <1>6
<1>8. u = t /\ j = 1
  BY <1>3, <1>6, <1>7 DEF Sole
<1> QED
  BY <1>6, <1>8

\* The calls of other sessions' lives do not matter to a session.
LEMMA HeldByOthers ==
    ASSUME LifeTypeOK, NEW t \in Threads, NEW new \in Seq(Frames), Turn(t, new), NEW s,
           ~(Lives(Top(t)) /\ Top(t).s = s),
           \A i \in DOMAIN new : ~(Lives(new[i]) /\ new[i].s = s)
    PROVE  \A k \in LifeRights : Held(k, s)' <=> Held(k, s)
<1> SUFFICES ASSUME NEW k \in LifeRights PROVE Held(k, s)' <=> Held(k, s)
  OBVIOUS
<1>1. \A f : Holds(f, k) => Lives(f)
  BY DEF LifeRights, Holds, Lives
<1>2. ~Has(new, k, s) /\ ~(Holds(Top(t), k) /\ Top(t).s = s)
  BY <1>1 DEF Has
<1> QED
  BY <1>2, HeldMove

\* What a session's life is made of, and nothing else.
LEMMA SameLife ==
    ASSUME NEW s \in Sessions,
           s \in created' <=> s \in created, s \in established' <=> s \in established,
           s \in registry' <=> s \in registry, connected'[s] = connected[s],
           listening' /\ accepting' = s <=> listening /\ accepting = s,
           pending'[s]["connect"] = pending[s]["connect"],
           pending'[s]["recv"] = pending[s]["recv"],
           \A k \in LifeRights : Held(k, s)' <=> Held(k, s)
    PROVE  Same(s)
<1>1. Joined(s)' <=> Joined(s)
  BY DEF Joined, LifeRights
<1>2. Phase(s)' = Phase(s)
  BY <1>1 DEF Phase
<1>3. (Welcomed(s)' <=> Welcomed(s)) /\ (Receiving(s)' <=> Receiving(s))
  BY DEF Welcomed, Receiving, LifeRights
<1> QED
  BY <1>2, <1>3 DEF Same

\* Nothing happens to any session.
LEMMA NothingHappens ==
    ASSUME \A s \in Sessions : Same(s)
    PROVE  UNCHANGED Life!sessionLife
<1>1. [s \in Sessions |-> Phase(s)]' = [s \in Sessions |-> Phase(s)]
  BY DEF Same
<1>2. {s \in Sessions : Welcomed(s)}' = {s \in Sessions : Welcomed(s)}
  BY DEF Same
<1>3. {s \in Sessions : Receiving(s)}' = {s \in Sessions : Receiving(s)}
  BY DEF Same
<1> QED
  BY <1>1, <1>2, <1>3 DEF Life!sessionLife

\* What happens to session x alone is a step of SessionLife.
Lived(x) ==
    \/ /\ Phase(x) = "none" /\ Phase(x)' \in {"new", "gone"}
       /\ (Welcomed(x)' <=> Welcomed(x)) /\ (Receiving(x)' <=> Receiving(x))
    \/ /\ Phase(x) = "new" /\ Phase(x)' = "gone"
       /\ (Welcomed(x)' <=> Welcomed(x)) /\ (Receiving(x)' <=> Receiving(x))
    \/ /\ Phase(x) = "new" /\ Phase(x)' = "open" /\ Receiving(x)'
       /\ (Welcomed(x)' <=> Welcomed(x))
    \/ /\ ~Welcomed(x) /\ Welcomed(x)' /\ Phase(x)' = Phase(x)
       /\ Phase(x) = "open" \/ (~Server /\ Phase(x) \in {"closing", "gone"})
       /\ (Receiving(x)' <=> Receiving(x))
    \/ /\ Receiving(x) /\ ~Receiving(x)' /\ Welcomed(x) /\ Phase(x)' = Phase(x)
       /\ (Welcomed(x)' <=> Welcomed(x))
    \/ /\ Phase(x) = "open" /\ Phase(x)' = "closing" /\ (Server => Welcomed(x))
       /\ (Welcomed(x)' <=> Welcomed(x)) /\ (Receiving(x)' <=> Receiving(x))
    \/ /\ Phase(x) = "closing" /\ Phase(x)' = "gone"
       /\ (Welcomed(x)' <=> Welcomed(x)) /\ (Receiving(x)' <=> Receiving(x))

\* Such a step is one of SessionLife.
LEMMA OneLives ==
    ASSUME NEW x \in Sessions, \A s \in Sessions \ {x} : Same(s), Lived(x) \/ Same(x)
    PROVE  [Life!Next]_(Life!sessionLife)
<1> DEFINE p == [s \in Sessions |-> Phase(s)]
           w == {s \in Sessions : Welcomed(s)}
           r == {s \in Sessions : Receiving(s)}
<1>1. p' = [p EXCEPT ![x] = Phase(x)'] /\ p[x] = Phase(x)
  <2>1. \A s \in Sessions : Phase(s)' = IF s = x THEN Phase(x)' ELSE Phase(s)
    BY DEF Same
  <2> QED
    BY <2>1
<1>2. Phase(x)' = Phase(x) => p' = p
  BY DEF Same
<1>3. /\ (Welcomed(x)' <=> Welcomed(x)) => w' = w
      /\ Welcomed(x)' => w' = w \cup {x}
      /\ x \in w <=> Welcomed(x)
  BY DEF Same
<1>4. /\ (Receiving(x)' <=> Receiving(x)) => r' = r
      /\ Receiving(x)' => r' = r \cup {x}
      /\ ~Receiving(x)' => r' = r \ {x}
      /\ x \in r <=> Receiving(x)
  BY DEF Same
<1>5. CASE Same(x)
  BY <1>2, <1>3, <1>4, <1>5 DEF Same, Life!sessionLife
<1>6. CASE Lived(x)
  <2> HIDE DEF p, w, r
  <2>1. \/ Life!Create(x) \/ Life!Refuse(x) \/ Life!Join(x) \/ Life!Welcome(x)
        \/ Life!Deafen(x) \/ Life!Disconnect(x) \/ Life!Release(x)
    BY <1>1, <1>2, <1>3, <1>4, <1>6
       DEF Lived, p, w, r, Life!Create, Life!Refuse, Life!Join, Life!Welcome, Life!Deafen,
           Life!Disconnect, Life!Release, Life!Moves
  <2> QED
    BY <2>1 DEF Life!Next
<1> QED
  BY <1>5, <1>6

-----------------------------------------------------------------------------
(* The promise: which steps keep what it needs *)

\* No call of new is a new life's, and none is a guest of a session before its OnConnected.
Guests(new) ==
    \A i \in DOMAIN new :
        /\ ~(new[i].call = "ProcessConnect" /\ new[i].at = "hello")
        /\ Server => ~Held("hello", new[i].s)

\* Sessions before their OnConnected stay as they are.
Spared ==
    \A s \in Sessions :
        Server /\ Held("hello", s) =>
            /\ s \in registry' /\ connected'[s] /\ s \in established'
            /\ s \notin chosen' \cup audience' \cup registered'
            /\ \A k \in Kinds : pending'[s][k] = 0

\* Fresh, in a turn without an AddSession.
LEMMA FreshKept ==
    ASSUME LifeTypeOK, Fresh, NEW t \in Threads, NEW new \in Seq(Frames), Turn(t, new),
           Guests(new), Spared
    PROVE  Fresh'
<1> SUFFICES ASSUME Server, NEW s \in Sessions, Held("hello", s)'
             PROVE  /\ s \in registry' /\ connected'[s] /\ s \in established'
                    /\ s \notin chosen' \cup audience' \cup registered'
                    /\ \A k \in Kinds : pending'[s][k] = 0
                    /\ ~Held("guest", s)'
  BY DEF Fresh
<1>1. ~Has(new, "hello", s)
  BY DEF Guests, Has, Holds
<1>2. Held("hello", s)
  BY <1>1, HeldMove
<1>3. ~Has(new, "guest", s)
  BY <1>2 DEF Guests, Has
<1>4. ~Held("guest", s)'
  BY <1>2, <1>3, HeldMove DEF Fresh
<1> QED
  BY <1>2, <1>4 DEF Spared

\* Peers, when only sessions with a peer come to receive.
LEMMA PeersKept ==
    ASSUME LifeTypeOK, Peers, NEW t \in Threads, NEW new \in Seq(Frames), Turn(t, new),
           established \subseteq established' \/ ~Server,
           \A s \in Sessions :
                Server /\ (Has(new, "recv", s) \/ pending'[s]["recv"] = 1) =>
                    \/ s \in established'
                    \/ Held("recv", s) \/ pending[s]["recv"] = 1
    PROVE  Peers'
<1> SUFFICES ASSUME Server, NEW s \in Sessions, Held("recv", s)' \/ pending'[s]["recv"] = 1
             PROVE  s \in established'
  BY DEF Peers
<1>1. Has(new, "recv", s) \/ Held("recv", s) \/ pending'[s]["recv"] = 1
  BY HeldMove
<1> QED
  BY <1>1 DEF Peers

\* Stacks of no call, of one and of two.
LEMMA NewFrames ==
    \A a, b \in Frames :
        /\ <<>> \in Seq(Frames) /\ DOMAIN <<>> = {}
        /\ <<a>> \in Seq(Frames) /\ \A i \in DOMAIN <<a>> : <<a>>[i] = a
        /\ <<a, b>> \in Seq(Frames) /\ \A i \in DOMAIN <<a, b>> : <<a, b>>[i] \in {a, b}
OBVIOUS

\* Who has a guest is past its OnConnected; so is who has an outstanding operation, who has
\* a player or is to be told of something.
LEMMA NoHello ==
    ASSUME PromiseInv, Server, NEW s,
           \/ s \notin Sessions
           \/ Held("guest", s)
           \/ s \in chosen \cup audience \cup registered
           \/ \E k \in Kinds : pending[s][k] > 0
    PROVE  ~Held("hello", s)
<1>1. CASE s \in Sessions
  BY <1>1 DEF PromiseInv, Fresh
<1>2. CASE s \notin Sessions
  <2> SUFFICES ASSUME Held("hello", s) PROVE FALSE
    OBVIOUS
  <2>1. PICK t \in Threads : Sits(t, "hello", s)
    BY DEF Held
  <2>2. PICK i \in DOMAIN stack[t] : Holds(stack[t][i], "hello") /\ stack[t][i].s = s
    BY <2>1 DEF Sits
  <2>3. /\ stack[t][i].call = "ProcessConnect" /\ Named(stack[t][i])
    BY <2>2 DEF PromiseInv, LifeInv, Shape, Named, Holds
  <2>4. stack[t] \in Seq(Frames)
    BY DEF PromiseInv, LifeInv, LifeTypeOK
  <2>5. stack[t][i] \in Frames
    BY <2>2, <2>4
  <2> QED
    BY <1>2, <2>2, <2>3, <2>5 DEF Named, Frames
<1> QED
  BY <1>1, <1>2

\* A turn whose new calls are all in F.
Turns(t, F) == \E new \in Seq(Frames) : Turn(t, new) /\ \A i \in DOMAIN new : new[i] \in F

\* What a call may do to the stack of its thread, and an idle thread.
LEMMA Turning ==
    ASSUME LifeTypeOK, Shape, NEW t \in Threads, NEW call, NEW at, At(t, call, at)
    PROVE  /\ Return(t) => Turns(t, {})
           /\ \A to \in Places : Goto(t, to) => Turns(t, {Frame(call, Of(t), to)})
           /\ \A to \in Places, f \in Frames :
                GotoAndCall(t, to, f) => Turns(t, {f, Frame(call, Of(t), to)})
           /\ \A f \in Frames : ReturnAndCall(t, f) => Turns(t, {f})
           /\ stack' = stack => Turns(t, {Frame(call, Of(t), at)})
<1>1. ASSUME NEW f \in Frames, NEW g \in Frames
      PROVE  /\ Turn(t, <<>>) => Turns(t, {})
             /\ Turn(t, <<f>>) => Turns(t, {f})
             /\ Turn(t, <<f, g>>) => Turns(t, {f, g})
  <2>1. Turn(t, <<>>) => Turns(t, {})
    BY NewFrames DEF Turns
  <2>2. Turn(t, <<f>>) => Turns(t, {f})
    <3> DEFINE new == <<f>>
    <3>1. new \in Seq(Frames) /\ \A i \in DOMAIN new : new[i] \in {f}
      OBVIOUS
    <3> HIDE DEF new
    <3>2. Turn(t, new) => Turns(t, {f})
      BY <3>1 DEF Turns
    <3> QED
      BY <3>2 DEF new
  <2>3. Turn(t, <<f, g>>) => Turns(t, {f, g})
    BY NewFrames DEF Turns
  <2> QED
    BY <2>1, <2>2, <2>3
<1>2. Return(t) => Turns(t, {})
  BY <1>1, Returned, AtTop
<1>3. \A to \in Places : Goto(t, to) => Turns(t, {Frame(call, Of(t), to)})
  BY <1>1, Went
<1>4. \A to \in Places, f \in Frames :
            GotoAndCall(t, to, f) => Turns(t, {f, Frame(call, Of(t), to)})
  BY <1>1, WentAndCalled
<1>5. \A f \in Frames : ReturnAndCall(t, f) => Turns(t, {f})
  BY <1>1, ReturnedAndCalled
<1>6. ASSUME stack' = stack
      PROVE  Turns(t, {Frame(call, Of(t), at)})
  <2>1. PICK e : e = Top(t)
    OBVIOUS
  <2>2. /\ e \in Frames /\ e = Frame(call, Of(t), at) /\ e = Head(stack[t])
        /\ stack[t] \in Seq(Frames) /\ stack[t] # <<>>
    BY <2>1, AtTop
  <2>3. <<e>> \in Seq(Frames) /\ <<e>> \o Tail(stack[t]) = stack[t]
    BY <2>2, Refill
  <2>4. stack \in [Threads -> Seq(Frames)]
    BY DEF LifeTypeOK
  <2>5. stack' = [stack EXCEPT ![t] = <<e>> \o Tail(stack[t])]
    BY <1>6, <2>3, <2>4
  <2>6. Turn(t, <<e>>)
    BY <2>2, <2>3, <2>5, Replaced
  <2> QED
    BY <1>1, <2>2, <2>6
<1> QED
  BY <1>2, <1>3, <1>4, <1>5, <1>6

\* The same with more calls in F than are made.
LEMMA TurningInto ==
    ASSUME LifeTypeOK, Shape, NEW t \in Threads, NEW call, NEW at, At(t, call, at), NEW F
    PROVE  /\ Return(t) => Turns(t, F)
           /\ \A to \in Places :
                Goto(t, to) /\ Frame(call, Of(t), to) \in F => Turns(t, F)
           /\ \A to \in Places, f \in Frames :
                GotoAndCall(t, to, f) /\ {f, Frame(call, Of(t), to)} \subseteq F => Turns(t, F)
           /\ \A f \in Frames : ReturnAndCall(t, f) /\ f \in F => Turns(t, F)
           /\ stack' = stack /\ Frame(call, Of(t), at) \in F => Turns(t, F)
<1>1. ASSUME NEW G, G \subseteq F, Turns(t, G) PROVE Turns(t, F)
  BY <1>1 DEF Turns
<1>2. Return(t) => Turns(t, F)
  BY <1>1, Turning
<1>3. ASSUME NEW to \in Places, Goto(t, to), Frame(call, Of(t), to) \in F
      PROVE  Turns(t, F)
  <2>1. Turns(t, {Frame(call, Of(t), to)})
    BY <1>3, Turning
  <2> QED
    BY <1>1, <1>3, <2>1
<1>4. ASSUME NEW to \in Places, NEW f \in Frames, GotoAndCall(t, to, f),
             {f, Frame(call, Of(t), to)} \subseteq F
      PROVE  Turns(t, F)
  <2>1. Turns(t, {f, Frame(call, Of(t), to)})
    BY <1>4, Turning
  <2> QED
    BY <1>1, <1>4, <2>1
<1>5. ASSUME NEW f \in Frames, ReturnAndCall(t, f), f \in F
      PROVE  Turns(t, F)
  <2>1. Turns(t, {f})
    BY <1>5, Turning
  <2> QED
    BY <1>1, <1>5, <2>1
<1>6. ASSUME stack' = stack, Frame(call, Of(t), at) \in F
      PROVE  Turns(t, F)
  <2>1. Turns(t, {Frame(call, Of(t), at)})
    BY <1>6, Turning
  <2> QED
    BY <1>1, <1>6, <2>1
<1> QED
  BY <1>2, <1>3, <1>4, <1>5, <1>6

\* The first calls of an idle thread are a turn.
LEMMA Starting ==
    ASSUME LifeTypeOK, NEW t \in Threads, stack[t] = <<>>
    PROVE  /\ Top(t) = Ground /\ ~Lives(Top(t))
           /\ stack' = stack => Turns(t, {})
           /\ \A f \in Frames : Start(t, <<f>>) => Turns(t, {f})
           /\ \A f, g \in Frames : Start(t, <<f, g>>) => Turns(t, {f, g})
<1>1. Top(t) = Ground /\ ~Lives(Top(t))
  BY DEF Top, Ground, Frame, Lives
<1>2. \A f \in Frames : Start(t, <<f>>) => Turns(t, {f})
  BY NewFrames, Started DEF Turns
<1>3. \A f, g \in Frames : Start(t, <<f, g>>) => Turns(t, {f, g})
  BY NewFrames, Started DEF Turns
<1>4. ASSUME stack' = stack PROVE Turns(t, {})
  <2>1. <<>> \in Seq(Frames) /\ DOMAIN <<>> = {}
    OBVIOUS
  <2>2. stack \in [Threads -> Seq(Frames)]
    BY DEF LifeTypeOK
  <2>3. Start(t, <<>>)
    BY <1>4, <2>2 DEF Start
  <2> QED
    BY <2>1, <2>3, Started DEF Turns
<1> QED
  BY <1>1, <1>2, <1>3, <1>4

\* A turn of calls that do not make a session's life, for session x or for those that are to
\* be told of something, leaves all other sessions as they are.
LEMMA GuestTurn ==
    ASSUME PromiseInv, NEW t \in Threads, ~Lives(Top(t)), NEW F, Turns(t, F),
           NEW x, Server => ~Held("hello", x),
           \A f \in F : ~Lives(f) /\ (f.s = x \/ f.s \notin Sessions \/ f.s \in audience),
           UNCHANGED <<created, established, accepting, listening>>,
           \A s \in Sessions : /\ pending'[s]["connect"] = pending[s]["connect"]
                               /\ pending'[s]["recv"] = pending[s]["recv"],
           \A s \in Sessions \ {x} :
                /\ pending'[s] = pending[s] /\ connected'[s] = connected[s]
                /\ s \in registry' <=> s \in registry
                /\ s \in chosen' \cup audience' \cup registered'
                        => s \in chosen \cup audience \cup registered
    PROVE  /\ Fresh' /\ Peers'
           /\ \A s \in Sessions :
                connected'[s] = connected[s] /\ (s \in registry' <=> s \in registry) => Same(s)
           /\ \A s : \A k \in LifeRights : Held(k, s)' <=> Held(k, s)
<1>1. LifeTypeOK /\ Fresh /\ Peers
  BY DEF PromiseInv, LifeInv
<1>2. PICK new \in Seq(Frames) : Turn(t, new) /\ \A i \in DOMAIN new : new[i] \in F
  BY DEF Turns
<1>3. Guests(new)
  <2>1. \A f \in F : Server => ~Held("hello", f.s)
    BY NoHello
  <2> QED
    BY <1>2, <2>1 DEF Guests, Lives
<1>4. Spared
  BY <1>1 DEF Spared, Fresh
<1>5. Fresh'
  BY <1>1, <1>2, <1>3, <1>4, FreshKept
<1>6. \A s : ~Has(new, "recv", s)
  BY <1>2 DEF Has, Holds, Lives
<1>7. Peers'
  BY <1>1, <1>2, <1>6, PeersKept
<1>8. \A s : \A k \in LifeRights : Held(k, s)' <=> Held(k, s)
  BY <1>1, <1>2, HeldByOthers
<1>9. ASSUME NEW s \in Sessions, connected'[s] = connected[s], s \in registry' <=> s \in registry
      PROVE  Same(s)
  BY <1>8, <1>9, SameLife
<1> QED
  BY <1>5, <1>7, <1>8, <1>9

\* Such a turn of a call, when the sessions' connections and the registry stay as they are.
LEMMA QuietTurn ==
    ASSUME PromiseInv, NEW t \in Threads, ~Lives(Top(t)), NEW F, Turns(t, F),
           NEW x, Server => ~Held("hello", x),
           \A f \in F : ~Lives(f) /\ (f.s = x \/ f.s \notin Sessions \/ f.s \in audience),
           UNCHANGED <<created, established, accepting, listening, connected, registry>>,
           \A s \in Sessions : /\ pending'[s]["connect"] = pending[s]["connect"]
                               /\ pending'[s]["recv"] = pending[s]["recv"],
           \A s \in Sessions \ {x} :
                /\ pending'[s] = pending[s]
                /\ s \in chosen' \cup audience' \cup registered'
                        => s \in chosen \cup audience \cup registered
    PROVE  Fresh' /\ Peers' /\ UNCHANGED Life!sessionLife
BY GuestTurn, NothingHappens

\* The session of a guest is past its OnConnected.
LEMMA GuestTop ==
    ASSUME PromiseInv, NEW t \in Threads, NEW call, NEW at, At(t, call, at),
           ~Lives(Frame(call, Of(t), at))
    PROVE  ~Lives(Top(t)) /\ (Server => ~Held("hello", Of(t)))
<1>1. LifeTypeOK /\ Shape
  BY DEF PromiseInv, LifeInv
<1>2. Top(t) = Frame(call, Of(t), at)
  BY <1>1, AtTop
<1>3. Holds(Frame(call, Of(t), at), "guest")
  BY DEF Holds, Frame, Lives
<1>4. Held("guest", Of(t))
  BY <1>1, <1>3, TopHeld
<1> QED
  BY <1>2, <1>4, NoHello

-----------------------------------------------------------------------------
(* The promise: the steps that no session's life is made of *)

\* Frames of a guest are among the model's.
LEMMA GuestFrames ==
    /\ {"lock", "check", "issue", "clear", "unlock", "exchange", "callback", "release",
        "loop", "tell", "send"} \subseteq Places
    /\ \A s \in Sessions \cup {NoSession} :
        /\ SendCall(s) \in Frames /\ DisconnectCall(s) \in Frames
        /\ Frame("RegisterSend", s, "check") \in Frames
        /\ Frame("ProcessSend", s, "lock") \in Frames
        /\ Frame("Execute", s, "loop") \in Frames /\ Frame("Broadcast", s, "send") \in Frames
        /\ Frame("RegisterRecv", s, "check") \in Frames
        /\ Frame("HandlePacket", s, "handle") \in Frames
        /\ Frame("ProcessConnect", s, "store") \in Frames
        /\ Frame("RegisterAccept", s, "create") \in Frames
BY DEF Places, SendCall, DisconnectCall, Frame, Frames, Calls

\* Send, RegisterSend and ProcessSend neither begin nor end anything.
LEMMA SendLife ==
    ASSUME PromiseInv, NEW t \in Threads,
           \/ CheckSend(t) \/ PushSend(t) \/ DrainSend(t) \/ WSASend(t) \/ ClearSend(t)
           \/ FinishSend(t) \/ UnlockSend(t)
    PROVE  Fresh' /\ Peers' /\ UNCHANGED Life!sessionLife
<1>1. LifeTypeOK /\ Shape
  BY DEF PromiseInv, LifeInv
<1>2. PICK call, at : /\ At(t, call, at) /\ call \in {"Send", "RegisterSend", "ProcessSend"}
  BY DEF CheckSend, PushSend, DrainSend, WSASend, ClearSend, FinishSend, UnlockSend
<1>3. PICK s \in Sessions : s = Of(t)
  BY <1>1, <1>2, OfSession
<1>4. ~Lives(Top(t)) /\ (Server => ~Held("hello", s))
  BY <1>2, <1>3, GuestTop DEF Lives, Frame
<1> DEFINE F == {Frame(call, s, to) : to \in Places}
                \cup {Frame("RegisterSend", s, "check"), DisconnectCall(s)}
<1>5. \A f \in F : ~Lives(f) /\ f.s = s
  BY <1>2 DEF Lives, Frame, DisconnectCall
<1>6. Turns(t, F)
  <2>1. \/ Return(t) \/ \E to \in Places : Goto(t, to)
        \/ ReturnAndCall(t, Frame("RegisterSend", s, "check"))
        \/ \E to \in Places : GotoAndCall(t, to, Frame("RegisterSend", s, "check"))
        \/ \E to \in Places : GotoAndCall(t, to, DisconnectCall(s))
    BY <1>3, GuestFrames
       DEF CheckSend, PushSend, DrainSend, WSASend, ClearSend, FinishSend, UnlockSend
  <2>2. PICK r, d : r = Frame("RegisterSend", s, "check") /\ d = DisconnectCall(s)
    OBVIOUS
  <2>3. r \in Frames /\ d \in Frames /\ r \in F /\ d \in F
    BY <2>2, GuestFrames
  <2>4. \A to \in Places : Frame(call, s, to) \in F
    OBVIOUS
  <2> HIDE DEF F
  <2>5. Return(t) => Turns(t, F)
    BY <1>1, <1>2, TurningInto
  <2>6. \A to \in Places : Goto(t, to) => Turns(t, F)
    BY <1>1, <1>2, <1>3, <2>4, TurningInto
  <2>7. ReturnAndCall(t, r) => Turns(t, F)
    BY <1>1, <1>2, <2>3, TurningInto
  <2>8. \A to \in Places : GotoAndCall(t, to, r) \/ GotoAndCall(t, to, d) => Turns(t, F)
    BY <1>1, <1>2, <1>3, <2>3, <2>4, TurningInto
  <2> QED
    BY <2>1, <2>2, <2>5, <2>6, <2>7, <2>8
<1>7. UNCHANGED <<created, established, accepting, listening, connected, registry, chosen,
                  audience>>
  BY DEF CheckSend, PushSend, DrainSend, WSASend, ClearSend, FinishSend, UnlockSend,
         socketVars, sendVars, roomVars
<1>8. /\ \A x \in Sessions \ {s} : pending'[x] = pending[x]
      /\ pending'[s]["connect"] = pending[s]["connect"]
      /\ pending'[s]["recv"] = pending[s]["recv"]
  <2>1. pending' = pending \/ Hand(s, "send", 1)
    BY <1>3 DEF CheckSend, PushSend, DrainSend, WSASend, ClearSend, FinishSend, UnlockSend,
         socketVars
  <2> QED
    BY <1>1, <2>1 DEF Hand, LifeTypeOK, Kinds
<1>9. registered' \subseteq registered \cup {s}
  BY <1>3 DEF CheckSend, PushSend, DrainSend, WSASend, ClearSend, FinishSend, UnlockSend,
              sendVars
<1> HIDE DEF F
<1> QED
  BY <1>4, <1>5, <1>6, <1>7, <1>8, <1>9, QuietTurn

\* A call that posts to the Room and then returns or goes on with f.
LEMMA Posting ==
    ASSUME LifeTypeOK, Shape, NEW t \in Threads, NEW call, NEW at, At(t, call, at), NEW j,
           NEW F, Frame("Execute", NoSession, "loop") \in F, NEW f \in F \cap Frames,
           Post(t, j, Tail(stack[t])) \/ Post(t, j, <<f>> \o Tail(stack[t]))
    PROVE  Turns(t, F)
<1> DEFINE e == Frame("Execute", NoSession, "loop")
<1>1. Tail(stack[t]) \in Seq(Frames)
  BY AtTop
<1>2. e \in Frames /\ e \in F
  BY GuestFrames
<1>3. CASE Post(t, j, Tail(stack[t]))
  <2> DEFINE new == <<>>
  <2>1. new \in Seq(Frames) /\ Tail(stack[t]) = new \o Tail(stack[t]) /\ <<e>> \o new = <<e>>
    BY <1>1, <1>2, ConcatEmptySeq
  <2>2. \A i \in DOMAIN new : new[i] \in F
    OBVIOUS
  <2> HIDE DEF new
  <2>3. Turn(t, <<e>> \o new) \/ Turn(t, new)
    BY <1>3, <2>1, Posted
  <2>4. Turn(t, <<e>>) \/ Turn(t, new)
    BY <2>1, <2>3
  <2> DEFINE one == <<e>>
  <2>5. one \in Seq(Frames) /\ \A i \in DOMAIN one : one[i] \in F
    <3> HIDE DEF e
    <3> QED
      BY <1>2
  <2>6. Turn(t, one) \/ Turn(t, new)
    BY <2>4
  <2> HIDE DEF one, e
  <2> QED
    BY <2>1, <2>2, <2>5, <2>6 DEF Turns
<1>4. CASE Post(t, j, <<f>> \o Tail(stack[t]))
  <2> DEFINE new == <<f>>
             two == <<e, f>>
  <2>1. /\ new \in Seq(Frames) /\ \A i \in DOMAIN new : new[i] \in F
        /\ two \in Seq(Frames) /\ \A i \in DOMAIN two : two[i] \in F
        /\ <<e>> \o new = two
    <3> HIDE DEF e
    <3> QED
      BY <1>2, Pair
  <2>2. Post(t, j, new \o Tail(stack[t]))
    BY <1>4
  <2> HIDE DEF new
  <2>3. Turn(t, <<e>> \o new) \/ Turn(t, new)
    BY <2>1, <2>2, Posted
  <2>4. Turn(t, two) \/ Turn(t, new)
    BY <2>1, <2>3
  <2> HIDE DEF two, e
  <2> QED
    BY <2>1, <2>4 DEF Turns
<1> QED
  BY <1>3, <1>4

\* Packets and the Room's jobs are not part of it either.
LEMMA RoomLife ==
    ASSUME PromiseInv, NEW t \in Threads,
           \/ OnDisconnected(t) \/ HandlePacket(t) \/ DropPacket(t)
           \/ ExecuteJob(t) \/ Tell(t) \/ EndJob(t) \/ EndExecute(t)
    PROVE  Fresh' /\ Peers' /\ UNCHANGED Life!sessionLife
<1>1. LifeTypeOK /\ Shape
  BY DEF PromiseInv, LifeInv
<1>2. PICK call, at : /\ At(t, call, at) /\ call \in {"Disconnect", "HandlePacket", "Execute"}
  BY DEF OnDisconnected, HandlePacket, DropPacket, ExecuteJob, Tell, EndJob, EndExecute
<1>3. PICK x : x = Of(t) /\ x \in Sessions \cup {NoSession}
  BY <1>1, <1>2, OfSession
<1>4. ~Lives(Top(t)) /\ (Server => ~Held("hello", x))
  BY <1>2, <1>3, GuestTop DEF Lives, Frame
<1> DEFINE F == {Frame(call, x, to) : to \in Places}
                \cup {Frame("Disconnect", x, "release"), Frame("Execute", NoSession, "loop")}
                \cup {SendCall(s) : s \in audience}
<1>5. \A f \in F : ~Lives(f) /\ (f.s = x \/ f.s \notin Sessions \/ f.s \in audience)
  BY <1>2, NoneAssumption DEF Lives, Frame, SendCall
<1>6. Turns(t, F)
  <2>1. PICK e, r : e = Frame("Execute", NoSession, "loop") /\ r = Frame("Disconnect", x, "release")
    OBVIOUS
  <2>2. r \in Frames /\ e \in F /\ r \in F
    BY <1>3, <2>1 DEF Frames, Frame, Calls, Places
  <2>3. /\ \A to \in Places : Frame(call, x, to) \in F
        /\ \A s \in audience : SendCall(s) \in F /\ SendCall(s) \in Frames
    BY <1>1, GuestFrames DEF LifeTypeOK
  <2>4. /\ \A to \in Places : Goto(t, to) => Turns(t, F)
        /\ \A to \in Places, s \in audience : GotoAndCall(t, to, SendCall(s)) => Turns(t, F)
        /\ Return(t) => Turns(t, F)
    <3> HIDE DEF F
    <3> QED
      BY <1>1, <1>2, <1>3, <2>3, TurningInto
  <2>5. stack' = stack /\ at \in Places => Turns(t, F)
    <3> HIDE DEF F
    <3> QED
      BY <1>1, <1>2, <1>3, <2>3, TurningInto
  <2>6. at \in Places
    BY <1>1, <1>2, AtTop DEF Frames, Frame
  <2>7. \A j : Post(t, j, Tail(stack[t])) \/ Post(t, j, <<r>> \o Tail(stack[t])) => Turns(t, F)
    <3> HIDE DEF F
    <3> QED
      BY <1>1, <1>2, <2>1, <2>2, Posting
  <2>8. ASSUME OnDisconnected(t) \/ HandlePacket(t) \/ DropPacket(t)
        PROVE  Turns(t, F)
    <3>1. \/ \E j : Post(t, j, Tail(stack[t])) \/ Post(t, j, <<r>> \o Tail(stack[t]))
          \/ Goto(t, "release") \/ Return(t)
      BY <1>3, <2>1, <2>8 DEF OnDisconnected, HandlePacket, DropPacket
    <3> HIDE DEF F
    <3> QED
      BY <2>4, <2>7, <3>1, GuestFrames
  <2>9. ASSUME ExecuteJob(t) \/ Tell(t) \/ EndJob(t) \/ EndExecute(t)
        PROVE  Turns(t, F)
    <3>1. \/ Goto(t, "tell") \/ Goto(t, "loop") \/ Return(t) \/ stack' = stack
          \/ \E s \in audience : GotoAndCall(t, "tell", SendCall(s))
      BY <2>9 DEF ExecuteJob, Tell, EndJob, EndExecute
    <3> HIDE DEF F
    <3> QED
      BY <2>4, <2>5, <2>6, <3>1, GuestFrames
  <2> QED
    BY <2>8, <2>9
<1>7. UNCHANGED <<created, established, pending, accepting, listening, connected, registry,
                  registered>>
  BY DEF OnDisconnected, HandlePacket, DropPacket, ExecuteJob, Tell, EndJob, EndExecute,
         socketVars, sendVars, roomVars
<1>8. chosen' \cup audience' \subseteq chosen \cup audience \cup {x}
  <2>1. CASE ExecuteJob(t)
    <3>1. jobs # <<>> /\ jobs \in Seq([kind : {"enter", "leave", "move"}, s : chosen])
      BY <1>1, <2>1 DEF ExecuteJob, LifeTypeOK
    <3>2. Head(jobs) \in [kind : {"enter", "leave", "move"}, s : chosen]
      <4>1. PICK J : J = [kind : {"enter", "leave", "move"}, s : chosen]
        OBVIOUS
      <4>2. jobs \in Seq(J) /\ jobs # <<>>
        BY <3>1, <4>1
      <4>3. Head(jobs) \in J
        BY <4>2
      <4> QED
        BY <4>1, <4>3
    <3>3. chosen' = chosen /\ audience' \subseteq room \cup {Head(jobs).s}
      BY <2>1 DEF ExecuteJob
    <3>4. Head(jobs).s \in chosen
      BY <3>2
    <3> QED
      BY <1>1, <3>3, <3>4 DEF LifeTypeOK
  <2>2. CASE ~ExecuteJob(t)
    BY <1>3, <2>2
       DEF OnDisconnected, HandlePacket, DropPacket, Tell, EndJob, EndExecute, roomVars
  <2> QED
    BY <2>1, <2>2
<1> HIDE DEF F
<1> QED
  BY <1>4, <1>5, <1>6, <1>7, <1>8, QuietTurn

\* Nor is what a worker takes up for a session that sends or was disconnected, or for the
\* Room.
LEMMA TakeLife ==
    ASSUME PromiseInv, NEW t \in Threads, NEW s \in Sessions,
           TakeGlobal(t) \/ TakeSend(t, s) \/ TakeDisconnect(t, s)
    PROVE  Fresh' /\ Peers' /\ UNCHANGED Life!sessionLife
<1>1. LifeTypeOK /\ stack[t] = <<>>
  BY DEF PromiseInv, LifeInv, TakeGlobal, TakeSend, TakeDisconnect, Idle
<1>2. UNCHANGED <<created, established, accepting, listening, connected, registry, registered,
                  chosen, audience>>
  BY DEF TakeGlobal, TakeSend, TakeDisconnect, socketVars, sendVars, roomVars
<1>3. PICK a, b, c : /\ a = Frame("Execute", NoSession, "loop") /\ b = DisconnectCall(s)
                     /\ c = Frame("ProcessSend", s, "lock")
  OBVIOUS
<1>4. a \in Frames /\ b \in Frames /\ c \in Frames
  BY <1>3, GuestFrames
<1>5. ~Lives(Top(t))
  BY <1>1, Starting
<1>6. CASE TakeGlobal(t)
  <2>1. Turns(t, {a})
    BY <1>1, <1>3, <1>4, <1>6, Starting DEF TakeGlobal
  <2>2. ~Lives(a) /\ a.s = NoSession
    BY <1>3 DEF Lives, Frame
  <2>3. pending' = pending /\ (Server => ~Held("hello", NoSession))
    BY <1>6, NoneAssumption, NoHello DEF TakeGlobal, socketVars
  <2> QED
    BY <1>2, <1>5, <2>1, <2>2, <2>3, QuietTurn
<1>7. CASE TakeSend(t, s) \/ TakeDisconnect(t, s)
  <2>1. Turns(t, {b}) \/ Turns(t, {c}) \/ Turns(t, {})
    BY <1>1, <1>3, <1>4, <1>7, Starting DEF TakeSend, TakeDisconnect
  <2>2. Turns(t, {b, c})
    BY <2>1 DEF Turns
  <2>3. \A f \in {b, c} : ~Lives(f) /\ f.s = s
    BY <1>3 DEF Lives, Frame, DisconnectCall
  <2>4. pending[s]["send"] > 0 \/ pending[s]["disconnect"] > 0
    BY <1>7 DEF TakeSend, TakeDisconnect
  <2>5. Server => ~Held("hello", s)
    BY <2>4, NoHello DEF Kinds
  <2>6. Hand(s, "send", -1) \/ Hand(s, "disconnect", -1)
    BY <1>7 DEF TakeSend, TakeDisconnect
  <2>7. /\ \A x \in Sessions \ {s} : pending'[x] = pending[x]
        /\ pending'[s]["connect"] = pending[s]["connect"]
        /\ pending'[s]["recv"] = pending[s]["recv"]
    BY <1>1, <2>6 DEF Hand, LifeTypeOK, Kinds
  <2> QED
    BY <1>2, <1>5, <2>2, <2>3, <2>5, <2>7, QuietTurn
<1> QED
  BY <1>6, <1>7

\* Nor the client's Broadcast.
LEMMA BroadcastLife ==
    ASSUME PromiseInv, BeginBroadcast \/ BroadcastSend \/ EndBroadcast
    PROVE  Fresh' /\ Peers' /\ UNCHANGED Life!sessionLife
<1>1. LifeTypeOK /\ Shape
  BY DEF PromiseInv, LifeInv
<1>2. ~Server /\ Main \in Threads
  BY DEF BeginBroadcast, BroadcastSend, EndBroadcast, Threads
<1>3. UNCHANGED <<socketVars, connected, registry, registered, chosen>>
  BY DEF BeginBroadcast, BroadcastSend, EndBroadcast, sendVars, roomVars
<1>4. PICK b \in Frames : b = Frame("Broadcast", NoSession, "send")
  BY GuestFrames
<1> DEFINE F == {b} \cup {SendCall(s) : s \in audience}
<1>5. \A f \in F : ~Lives(f) /\ (f.s = NoSession \/ f.s \in audience)
  BY <1>4 DEF Lives, Frame, SendCall
<1>6. Turns(Main, F) /\ ~Lives(Top(Main))
  <2>1. b \in F /\ \A s \in audience : SendCall(s) \in F /\ SendCall(s) \in Frames
    BY <1>1, GuestFrames DEF LifeTypeOK
  <2>2. CASE BeginBroadcast
    <3>1. stack[Main] = <<>> /\ Start(Main, <<b>>)
      BY <1>4, <2>2 DEF BeginBroadcast
    <3>2. Turns(Main, {b}) /\ ~Lives(Top(Main))
      BY <1>1, <1>2, <1>4, <3>1, Starting
    <3> QED
      BY <2>1, <3>2 DEF Turns
  <2>3. CASE BroadcastSend \/ EndBroadcast
    <3>1. /\ At(Main, "Broadcast", "send")
          /\ Return(Main) \/ \E s \in audience : GotoAndCall(Main, "send", SendCall(s))
      BY <2>3 DEF BroadcastSend, EndBroadcast
    <3>2. Of(Main) = NoSession /\ Top(Main) = Frame("Broadcast", Of(Main), "send")
      BY <1>1, <1>2, <3>1, OfSession, AtTop
    <3>3. "send" \in Places
      BY GuestFrames
    <3> HIDE DEF F
    <3>4. Turns(Main, F)
      BY <1>1, <1>2, <1>4, <2>1, <3>1, <3>2, <3>3, TurningInto
    <3> QED
      BY <1>4, <3>2, <3>4 DEF Lives, Frame
  <2> QED
    BY <2>2, <2>3
<1> HIDE DEF F
<1>7. Fresh' /\ Peers'
  BY <1>2 DEF Fresh, Peers
<1>8. PICK new \in Seq(Frames) : Turn(Main, new) /\ \A i \in DOMAIN new : new[i] \in F
  BY <1>6 DEF Turns
<1>9. \A s : \A k \in LifeRights : Held(k, s)' <=> Held(k, s)
  BY <1>1, <1>2, <1>5, <1>6, <1>8, HeldByOthers
<1>10. \A s \in Sessions : Same(s)
  BY <1>3, <1>9, SameLife DEF socketVars
<1> QED
  BY <1>7, <1>10, NothingHappens

-----------------------------------------------------------------------------
(* The promise: the steps that sessions' lives are made of *)

\* Sessions other than x, in a turn whose lives are x's.
LEMMA OthersSame ==
    ASSUME LifeTypeOK, NEW t \in Threads, NEW new \in Seq(Frames), Turn(t, new), NEW x,
           Lives(Top(t)) => Top(t).s = x,
           \A i \in DOMAIN new : Lives(new[i]) => new[i].s = x,
           NEW s \in Sessions \ {x},
           s \in created' <=> s \in created, s \in established' <=> s \in established,
           s \in registry' <=> s \in registry, connected'[s] = connected[s],
           listening' /\ accepting' = s <=> listening /\ accepting = s,
           pending'[s]["connect"] = pending[s]["connect"],
           pending'[s]["recv"] = pending[s]["recv"]
    PROVE  Same(s)
<1>1. \A k \in LifeRights : Held(k, s)' <=> Held(k, s)
  BY HeldByOthers
<1> QED
  BY <1>1, SameLife

\* Exchange is Disconnect, for the caller that finds the session connected.
LEMMA ExchangeLife ==
    ASSUME PromiseInv, NEW t \in Threads, Exchange(t)
    PROVE  Fresh' /\ Peers' /\ [Life!Next]_(Life!sessionLife)
<1>1. LifeTypeOK /\ Shape /\ Births /\ Flags
  BY DEF PromiseInv, LifeInv
<1>2. At(t, "Disconnect", "exchange")
  BY DEF Exchange
<1>3. PICK x \in Sessions : x = Of(t)
  BY <1>1, <1>2, OfSession
<1>4. ~Lives(Top(t)) /\ (Server => ~Held("hello", x))
  BY <1>2, <1>3, GuestTop DEF Lives, Frame
<1>5. PICK f : f = Frame("Disconnect", x, "callback")
  OBVIOUS
<1>6. Turns(t, {f})
  BY <1>1, <1>2, <1>3, <1>5, TurningInto, GuestFrames DEF Exchange
<1>7. ~Lives(f) /\ f.s = x
  BY <1>5 DEF Lives, Frame
<1>8. /\ UNCHANGED <<socketVars, registry, sendVars, roomVars>>
      /\ connected' = [connected EXCEPT ![x] = FALSE]
  BY <1>3 DEF Exchange
<1>9. \A s \in Sessions \ {x} : connected'[s] = connected[s]
  BY <1>1, <1>8 DEF LifeTypeOK
<1>10. /\ Fresh' /\ Peers'
       /\ \A s \in Sessions : connected'[s] = connected[s] => Same(s)
       /\ \A s : \A k \in LifeRights : Held(k, s)' <=> Held(k, s)
  <2>1. \A g \in {f} : ~Lives(g) /\ g.s = x
    BY <1>7
  <2>2. UNCHANGED <<created, established, accepting, listening, pending, registry, registered,
                    chosen, audience>>
    BY <1>8 DEF socketVars, sendVars, roomVars
  <2>3. PICK F : F = {f}
    OBVIOUS
  <2> QED
    BY <1>4, <1>6, <1>9, <2>1, <2>2, <2>3, GuestTurn
<1>11. CASE connected[x]
  <2>1. Joined(x) /\ ~Held("add", x)
    BY <1>1, <1>2, <1>3, UserJoined
  <2>2. x \in registry /\ x \in created /\ ~Held("birth", x)
    BY <1>1, <1>11, <2>1 DEF Flags, Joined
  <2>3. Phase(x) = "open" /\ Phase(x)' = "closing"
    BY <1>1, <1>8, <1>11, <2>2 DEF Phase, socketVars, LifeTypeOK
  <2>4. (Welcomed(x)' <=> Welcomed(x)) /\ (Receiving(x)' <=> Receiving(x))
    BY <1>8, <1>10 DEF Welcomed, Receiving, LifeRights, socketVars
  <2>5. Server => Welcomed(x)
    BY <1>1, <1>4, <2>2 DEF Welcomed, Births
  <2>6. Lived(x)
    BY <2>3, <2>4, <2>5 DEF Lived
  <2> QED
    BY <1>9, <1>10, <2>6, OneLives
<1>12. CASE ~connected[x]
  <2>1. connected'[x] = connected[x]
    BY <1>1, <1>8, <1>12 DEF LifeTypeOK
  <2> QED
    BY <1>9, <1>10, <2>1, NothingHappens
<1> QED
  BY <1>11, <1>12

\* ReleaseSession is Release.
LEMMA ReleaseLife ==
    ASSUME PromiseInv, NEW t \in Threads, ReleaseSession(t)
    PROVE  Fresh' /\ Peers' /\ [Life!Next]_(Life!sessionLife)
<1>1. LifeTypeOK /\ Shape /\ Births /\ Flags
  BY DEF PromiseInv, LifeInv
<1>2. At(t, "Disconnect", "release")
  BY DEF ReleaseSession
<1>3. PICK x \in Sessions : x = Of(t)
  BY <1>1, <1>2, OfSession
<1>4. ~Lives(Top(t)) /\ (Server => ~Held("hello", x))
  BY <1>2, <1>3, GuestTop DEF Lives, Frame
<1>5. Turns(t, {})
  BY <1>1, <1>2, <1>3, Turning DEF ReleaseSession
<1>6. /\ UNCHANGED <<created, established, accepting, listening, connected, sendVars, roomVars>>
      /\ registry' = registry \ {x} /\ \E n \in 0..1 : Hand(x, "disconnect", n)
  BY <1>3 DEF ReleaseSession
<1>7. /\ \A s \in Sessions \ {x} : pending'[s] = pending[s]
      /\ \A s \in Sessions : /\ pending'[s]["connect"] = pending[s]["connect"]
                             /\ pending'[s]["recv"] = pending[s]["recv"]
  BY <1>1, <1>6 DEF Hand, LifeTypeOK, Kinds
<1>8. /\ Fresh' /\ Peers'
      /\ \A s \in Sessions : (s \in registry' <=> s \in registry) => Same(s)
      /\ \A s : \A k \in LifeRights : Held(k, s)' <=> Held(k, s)
  BY <1>4, <1>5, <1>6, <1>7, GuestTurn DEF sendVars, roomVars
<1>9. Joined(x) /\ Joined(x)'
  <2>1. Joined(x)
    BY <1>1, <1>2, <1>3, UserJoined
  <2> QED
    BY <1>6, <1>7, <1>8, <2>1 DEF Joined, LifeRights
<1>10. Held("disconnect", x)
  BY <1>1, <1>2, <1>3, TopHeld DEF Holds, Frame
<1>11. Phase(x) = "closing" /\ Phase(x)' = "gone"
  BY <1>1, <1>6, <1>9, <1>10 DEF Phase, Flags, Joined
<1>12. (Welcomed(x)' <=> Welcomed(x)) /\ (Receiving(x)' <=> Receiving(x))
  BY <1>6, <1>7, <1>8 DEF Welcomed, Receiving, LifeRights
<1>13. Lived(x)
  BY <1>11, <1>12 DEF Lived
<1> QED
  BY <1>6, <1>8, <1>13, OneLives

\* RegisterAccept is Create; an AcceptEx that fails at once leaves a session that is gone.
LEMMA RegisterAcceptLife ==
    ASSUME PromiseInv, NEW t \in Threads, RegisterAccept(t)
    PROVE  Fresh' /\ Peers' /\ [Life!Next]_(Life!sessionLife)
<1>1. LifeTypeOK /\ Shape /\ Births /\ Loops /\ Fresh /\ Peers
  BY DEF PromiseInv, LifeInv
<1>2. At(t, "RegisterAccept", "create")
  BY DEF RegisterAccept
<1>3. Of(t) = NoSession
  BY <1>1, <1>2, OfSession
<1>4. PICK x \in Sessions \ created :
        /\ created' = created \cup {x} /\ accepting' = x
        /\ \/ listening' = TRUE /\ Return(t)
           \/ listening' = listening /\ stack' = stack
  BY DEF RegisterAccept
<1>5. UNCHANGED <<established, pending, connected, registry, sendVars, roomVars>>
  BY DEF RegisterAccept
<1>6. PICK f : f = Frame("RegisterAccept", NoSession, "create")
  OBVIOUS
<1>7. ~Lives(f) /\ f.s = NoSession /\ Top(t) = f
  BY <1>1, <1>2, <1>3, <1>6, AtTop DEF Lives, Frame
<1>8. Turns(t, {f})
  BY <1>1, <1>2, <1>3, <1>4, <1>6, TurningInto
<1>9. PICK new \in Seq(Frames) : Turn(t, new) /\ \A i \in DOMAIN new : new[i] \in {f}
  BY <1>8 DEF Turns
<1>10. Server /\ ~listening
  <2>1. Held("accept", NoSession)
    BY <1>1, <1>2, <1>3, TopHeld DEF Holds, Frame
  <2> QED
    BY <1>1, <2>1 DEF Loops
<1>11. Fresh'
  <2>1. ~Held("hello", NoSession)
    BY <1>10, NoneAssumption, NoHello
  <2>2. Guests(new)
    BY <1>7, <1>9, <2>1 DEF Guests, Lives
  <2>3. Spared
    BY <1>1, <1>5 DEF Spared, Fresh, sendVars, roomVars
  <2> QED
    BY <1>1, <1>9, <2>2, <2>3, FreshKept
<1>12. Peers'
  <2>1. \A s : ~Has(new, "recv", s)
    BY <1>7, <1>9 DEF Has, Holds, Lives
  <2> QED
    BY <1>1, <1>5, <1>9, <2>1, PeersKept
<1>13. \A s \in Sessions \ {x} : Same(s)
  BY <1>1, <1>4, <1>5, <1>7, <1>9, <1>10, OthersSame
<1>14. \A k \in LifeRights : Held(k, x)' <=> Held(k, x)
  BY <1>1, <1>7, <1>9, HeldByOthers
<1>15. ~Joined(x) /\ ~Held("birth", x) /\ pending[x]["connect"] = 0 /\ x \notin registry
  BY <1>1, <1>4 DEF Births, Joined
<1>16. ~Held("recv", x) /\ pending[x]["recv"] # 1
  BY <1>1, <1>15, Unborn DEF Kinds
<1>17. Phase(x) = "none" /\ Phase(x)' \in {"new", "gone"}
  BY <1>4, <1>5, <1>15 DEF Phase
<1>18. (Welcomed(x)' <=> Welcomed(x)) /\ (Receiving(x)' <=> Receiving(x))
  BY <1>5, <1>14 DEF Welcomed, Receiving, LifeRights
<1>19. Lived(x)
  BY <1>17, <1>18 DEF Lived
<1> QED
  BY <1>11, <1>12, <1>13, <1>19, OneLives

\* RegisterRecv: the next receive, or Deafen.
LEMMA RecvLife ==
    ASSUME PromiseInv, NEW t \in Threads, CheckRecv(t) \/ WSARecv(t)
    PROVE  Fresh' /\ Peers' /\ [Life!Next]_(Life!sessionLife)
<1>1. LifeTypeOK /\ Shape /\ Sole /\ Kernel /\ Births /\ Fresh /\ Peers
  BY DEF PromiseInv, LifeInv
<1>2. PICK at : At(t, "RegisterRecv", at)
  BY DEF CheckRecv, WSARecv
<1>3. PICK x \in Sessions : x = Of(t)
  BY <1>1, <1>2, OfSession
<1>4. Top(t) = Frame("RegisterRecv", x, at)
  BY <1>1, <1>2, <1>3, AtTop
<1>5. Held("recv", x) /\ Holds(Top(t), "recv") /\ Top(t).s = x
  BY <1>1, <1>2, <1>3, <1>4, TopHeld DEF Holds, Frame
<1>6. Joined(x) /\ ~Held("birth", x)
  BY <1>1, <1>2, <1>3, UserJoined
<1>7. Held("guest", x)
  BY <1>1, <1>2, <1>3, TopHeld DEF Holds, Frame
<1>8. ~Held("hello", x)
  <2> SUFFICES ASSUME Held("hello", x) PROVE FALSE
    OBVIOUS
  <2>1. PICK u \in Threads : Sits(u, "hello", x)
    BY DEF Held
  <2>2. PICK i \in DOMAIN stack[u] : Holds(stack[u][i], "hello") /\ stack[u][i].s = x
    BY <2>1 DEF Sits
  <2>3. 1 \in DOMAIN stack[t] /\ stack[t][1] = Top(t)
    BY <1>1, <1>2, AtTop
  <2>4. Holds(stack[u][i], "recv") /\ stack[u][i].call = "ProcessConnect"
    BY <2>2 DEF Holds
  <2>5. u = t /\ i = 1
    BY <1>1, <1>5, <2>2, <2>3, <2>4 DEF Sole, Rights
  <2> QED
    BY <1>4, <2>3, <2>4, <2>5 DEF Frame
<1>9. Welcomed(x) /\ Receiving(x)
  BY <1>1, <1>5, <1>6, <1>8 DEF Welcomed, Receiving, Peers, Joined
<1>10. PICK f, d : f = Frame("RegisterRecv", x, "issue") /\ d = DisconnectCall(x)
  OBVIOUS
<1>11. \A g \in {f, d} : g.s = x /\ ~(g.call = "ProcessConnect")
  BY <1>10 DEF Frame, DisconnectCall
<1>12. UNCHANGED <<created, established, accepting, listening, connected, registry, sendVars,
                   roomVars>>
  BY DEF CheckRecv, WSARecv, socketVars
<1>13. Turns(t, {f, d}) /\ (pending' = pending \/ Hand(x, "recv", 1))
  <2>1. d \in Frames /\ {"issue"} \subseteq Places
    BY <1>3, <1>10, GuestFrames
  <2>2. Goto(t, "issue") \/ Return(t) \/ ReturnAndCall(t, d)
    BY <1>3, <1>10 DEF CheckRecv, WSARecv
  <2>3. pending' = pending \/ Hand(x, "recv", 1)
    BY <1>3 DEF CheckRecv, WSARecv, socketVars
  <2> QED
    BY <1>1, <1>2, <1>3, <1>10, <2>1, <2>2, <2>3, TurningInto
<1>14. PICK new \in Seq(Frames) : Turn(t, new) /\ \A i \in DOMAIN new : new[i] \in {f, d}
  BY <1>13 DEF Turns
<1>15. /\ \A s \in Sessions \ {x} : pending'[s] = pending[s]
       /\ \A k \in Kinds \ {"recv"} : pending'[x][k] = pending[x][k]
       /\ pending' = pending \/ pending'[x]["recv"] = pending[x]["recv"] + 1
  BY <1>1, <1>13 DEF Hand, LifeTypeOK, Kinds
<1>16. Fresh'
  <2>1. Guests(new)
    BY <1>8, <1>11, <1>14 DEF Guests
  <2>2. Spared
    BY <1>1, <1>8, <1>12, <1>15 DEF Spared, Fresh, sendVars, roomVars
  <2> QED
    BY <1>1, <1>14, <2>1, <2>2, FreshKept
<1>17. Peers'
  <2>1. \A s \in Sessions : Has(new, "recv", s) \/ pending'[s]["recv"] = 1 =>
            s = x \/ pending[s]["recv"] = 1
    BY <1>11, <1>14, <1>15 DEF Has
  <2> QED
    BY <1>1, <1>5, <1>12, <1>14, <2>1, PeersKept
<1>18. \A s \in Sessions \ {x} : Same(s)
  BY <1>1, <1>5, <1>11, <1>12, <1>14, <1>15, OthersSame
<1>19. Phase(x)' = Phase(x) /\ (Welcomed(x)' <=> Welcomed(x))
  <2>1. ~Has(new, "birth", x) /\ ~Has(new, "hello", x)
    BY <1>11, <1>14 DEF Has, Holds
  <2>2. ~Held("birth", x)' /\ ~Held("hello", x)'
    BY <1>1, <1>6, <1>8, <1>14, <2>1, HeldMove
  <2>3. pending'[x]["connect"] = pending[x]["connect"]
    BY <1>15 DEF Kinds
  <2>4. Joined(x)' <=> Joined(x)
    BY <1>6, <1>12, <2>2, <2>3 DEF Joined
  <2> QED
    BY <1>6, <1>8, <1>12, <2>2, <2>3, <2>4 DEF Phase, Welcomed
<1>20. CASE Receiving(x)'
  <2>1. Same(x)
    BY <1>9, <1>19, <1>20 DEF Same
  <2> QED
    BY <1>16, <1>17, <1>18, <2>1, OneLives
<1>21. CASE ~Receiving(x)'
  <2>1. Lived(x)
    BY <1>9, <1>19, <1>21 DEF Lived
  <2> QED
    BY <1>16, <1>17, <1>18, <2>1, OneLives
<1> QED
  BY <1>20, <1>21

\* ProcessRecv: a packet and the next receive, or Deafen.
LEMMA TakeRecvLife ==
    ASSUME PromiseInv, NEW t \in Threads, NEW x \in Sessions, TakeRecv(t, x)
    PROVE  Fresh' /\ Peers' /\ [Life!Next]_(Life!sessionLife)
<1>1. LifeTypeOK /\ Shape /\ Sole /\ Kernel /\ Births /\ Fresh /\ Peers
  BY DEF PromiseInv, LifeInv
<1>2. stack[t] = <<>> /\ pending[x]["recv"] > 0 /\ Hand(x, "recv", -1)
  BY DEF TakeRecv, Idle
<1>3. pending[x]["recv"] = 1 /\ ~Held("recv", x)
  BY <1>1, <1>2 DEF Kernel, Kinds
<1>4. Joined(x) /\ ~Held("birth", x) /\ ~Held("hello", x)
  <2>1. Joined(x)
    BY <1>1, <1>2, Unborn DEF Kinds
  <2>2. Held("hello", x) => Held("recv", x)
    BY DEF Held, Sits, Holds
  <2> QED
    BY <1>3, <2>1, <2>2 DEF Joined
<1>5. Welcomed(x) /\ Receiving(x)
  BY <1>1, <1>3, <1>4 DEF Welcomed, Receiving, Peers, Joined
<1>6. PICK d, h, r : /\ d = DisconnectCall(x) /\ h = Frame("HandlePacket", x, "handle")
                     /\ r = Frame("RegisterRecv", x, "check")
  OBVIOUS
<1>7. \A f \in {d, h, r} : f.s = x /\ f.call # "ProcessConnect" /\ f \in Frames
  <2>1. d \in Frames /\ h \in Frames /\ r \in Frames
    BY <1>6, GuestFrames
  <2>2. \A f \in {d, h, r} : f.s = x /\ f.call # "ProcessConnect"
    BY <1>6 DEF Frame, DisconnectCall
  <2> QED
    BY <2>1, <2>2
<1>8. UNCHANGED <<created, established, accepting, listening, connected, registry, sendVars,
                  roomVars>>
  BY DEF TakeRecv
<1>9. ~Lives(Top(t)) /\ Turns(t, {d, h, r})
  <2>1. Start(t, <<d>>) \/ Start(t, <<h, r>>) \/ Start(t, <<r>>)
    BY <1>6 DEF TakeRecv
  <2>2. Turns(t, {d}) \/ Turns(t, {h, r}) \/ Turns(t, {r})
    BY <1>1, <1>2, <1>7, <2>1, Starting
  <2>3. ~Lives(Top(t))
    BY <1>1, <1>2, Starting
  <2> QED
    BY <2>2, <2>3 DEF Turns
<1>10. PICK new \in Seq(Frames) : Turn(t, new) /\ \A i \in DOMAIN new : new[i] \in {d, h, r}
  BY <1>9 DEF Turns
<1>11. /\ \A s \in Sessions \ {x} : pending'[s] = pending[s]
       /\ \A k \in Kinds \ {"recv"} : pending'[x][k] = pending[x][k]
       /\ pending'[x]["recv"] = 0
  BY <1>1, <1>2, <1>3 DEF Hand, LifeTypeOK, Kinds
<1>12. Fresh'
  <2>1. Guests(new)
    BY <1>4, <1>7, <1>10 DEF Guests
  <2>2. Spared
    BY <1>1, <1>4, <1>8, <1>11 DEF Spared, Fresh, sendVars, roomVars
  <2> QED
    BY <1>1, <1>10, <2>1, <2>2, FreshKept
<1>13. Peers'
  <2>1. \A s \in Sessions : Has(new, "recv", s) \/ pending'[s]["recv"] = 1 =>
            s = x \/ pending[s]["recv"] = 1
    BY <1>7, <1>10, <1>11 DEF Has
  <2> QED
    BY <1>1, <1>3, <1>8, <1>10, <2>1, PeersKept
<1>14. \A s \in Sessions \ {x} : Same(s)
  BY <1>1, <1>7, <1>8, <1>9, <1>10, <1>11, OthersSame
<1>15. Phase(x)' = Phase(x) /\ (Welcomed(x)' <=> Welcomed(x))
  <2>1. ~Has(new, "birth", x) /\ ~Has(new, "hello", x)
    BY <1>7, <1>10 DEF Has, Holds
  <2>2. ~Held("birth", x)' /\ ~Held("hello", x)'
    BY <1>1, <1>4, <1>10, <2>1, HeldMove
  <2>3. pending'[x]["connect"] = pending[x]["connect"]
    BY <1>11 DEF Kinds
  <2>4. Joined(x)' <=> Joined(x)
    BY <1>4, <1>8, <2>2, <2>3 DEF Joined
  <2> QED
    BY <1>4, <1>8, <2>2, <2>3, <2>4 DEF Phase, Welcomed
<1>16. Lived(x) \/ Same(x)
  BY <1>5, <1>15 DEF Lived, Same
<1> QED
  BY <1>12, <1>13, <1>14, <1>16, OneLives

\* OnConnected is Welcome: on the server the session is open still.
LEMMA OnConnectedLife ==
    ASSUME PromiseInv, NEW t \in Threads, OnConnected(t)
    PROVE  Fresh' /\ Peers' /\ [Life!Next]_(Life!sessionLife)
<1>1. LifeTypeOK /\ Shape /\ Sole /\ Births /\ Fresh /\ Peers
  BY DEF PromiseInv, LifeInv
<1>2. At(t, "ProcessConnect", "hello")
  BY DEF OnConnected
<1>3. PICK x \in Sessions : x = Of(t)
  BY <1>1, <1>2, OfSession
<1>4. Top(t) = Frame("ProcessConnect", x, "hello")
  BY <1>1, <1>2, <1>3, AtTop
<1>5. /\ Held("hello", x) /\ Held("recv", x) /\ Joined(x) /\ ~Held("birth", x)
      /\ Holds(Top(t), "hello") /\ Top(t).s = x
  <2>1. Held("hello", x) /\ Held("recv", x)
    BY <1>1, <1>2, <1>3, TopHeld DEF Holds, Frame
  <2>2. Joined(x) /\ ~Held("birth", x)
    BY <1>1, <1>2, <1>3, UserJoined
  <2> QED
    BY <1>4, <2>1, <2>2 DEF Holds, Frame
<1>6. PICK c, r : c = SendCall(x) /\ r = Frame("RegisterRecv", x, "check")
  OBVIOUS
<1>7. /\ c \in Frames /\ r \in Frames /\ Holds(r, "recv")
      /\ \A f \in {c, r} : f.s = x /\ f.call # "ProcessConnect"
  <2>1. c \in Frames /\ r \in Frames
    BY <1>6, GuestFrames
  <2>2. Holds(r, "recv") /\ \A f \in {c, r} : f.s = x /\ f.call # "ProcessConnect"
    BY <1>6 DEF Frame, SendCall, Holds
  <2> QED
    BY <2>1, <2>2
<1>8. UNCHANGED <<socketVars, connected, registry, sendVars, roomVars>>
  BY DEF OnConnected
<1> DEFINE new == <<c, r>>
<1>9. /\ new \in Seq(Frames) /\ Turn(t, new) /\ DOMAIN new = {1, 2} /\ new[2] = r
      /\ \A i \in DOMAIN new : new[i] \in {c, r}
  <2>1. new \in Seq(Frames) /\ stack[t] # <<>>
    BY <1>1, <1>2, <1>7, AtTop
  <2>2. stack' = [stack EXCEPT ![t] = new \o Tail(stack[t])]
    BY <1>3, <1>6 DEF OnConnected
  <2>3. DOMAIN new = {1, 2} /\ new[2] = r /\ \A i \in DOMAIN new : new[i] \in {c, r}
    BY <1>7
  <2> HIDE DEF new
  <2> QED
    BY <1>1, <2>1, <2>2, <2>3, Replaced
<1> HIDE DEF new
<1>10. ~Held("hello", x)' /\ ~Held("birth", x)' /\ Held("recv", x)'
  <2>1. ~Has(new, "hello", x) /\ ~Has(new, "birth", x)
    BY <1>7, <1>9 DEF Has, Holds
  <2>2. Has(new, "recv", x)
    BY <1>7, <1>9 DEF Has
  <2> QED
    BY <1>1, <1>5, <1>9, <2>1, <2>2, HeldMove, HeldNoMore DEF Rights
<1>11. Fresh'
  <2> SUFFICES ASSUME Server, NEW s \in Sessions, Held("hello", s)'
               PROVE  ~Held("guest", s)' /\ Held("hello", s)
    BY <1>1, <1>8 DEF Fresh, socketVars, sendVars, roomVars
  <2>1. s # x
    BY <1>10
  <2>2. ~Has(new, "hello", s) /\ ~Has(new, "guest", s)
    BY <1>7, <1>9, <2>1 DEF Has
  <2>3. Held("hello", s)
    BY <1>1, <1>9, <2>2, HeldMove
  <2>4. ~Held("guest", s)
    BY <1>1, <2>3 DEF Fresh
  <2> QED
    BY <1>1, <1>9, <2>2, <2>3, <2>4, HeldMove
<1>12. Peers'
  <2>1. \A s : Has(new, "recv", s) => s = x
    BY <1>7, <1>9 DEF Has
  <2> QED
    BY <1>1, <1>5, <1>8, <1>9, <2>1, PeersKept DEF socketVars
<1>13. \A s \in Sessions \ {x} : Same(s)
  BY <1>1, <1>5, <1>7, <1>8, <1>9, OthersSame DEF socketVars
<1>14. Phase(x)' = Phase(x)
  <2>1. Joined(x)' <=> Joined(x)
    BY <1>5, <1>8, <1>10 DEF Joined, socketVars
  <2> QED
    BY <1>8, <2>1 DEF Phase, socketVars
<1>15. Phase(x) = "open" \/ (~Server /\ Phase(x) \in {"closing", "gone"})
  BY <1>1, <1>5 DEF Phase, Fresh, Joined
<1>16. ~Welcomed(x) /\ Welcomed(x)'
  <2>1. Server => x \in established
    BY <1>1, <1>5 DEF Fresh
  <2> QED
    BY <1>5, <1>8, <1>10, <2>1 DEF Welcomed, Joined, socketVars
<1>17. Receiving(x)' <=> Receiving(x)
  BY <1>5, <1>10 DEF Receiving
<1>18. Lived(x)
  BY <1>14, <1>15, <1>16, <1>17 DEF Lived
<1> QED
  BY <1>11, <1>12, <1>13, <1>18, OneLives

\* The only call of a turn.
LEMMA OneTurn ==
    ASSUME NEW t \in Threads, NEW f \in Frames, Turn(t, <<f>>)
    PROVE  \E new \in Seq(Frames) : Turn(t, new) /\ DOMAIN new = {1} /\ new[1] = f
<1> DEFINE new == <<f>>
<1>1. new \in Seq(Frames) /\ DOMAIN new = {1} /\ new[1] = f
  OBVIOUS
<1>2. Turn(t, new)
  OBVIOUS
<1> HIDE DEF new
<1> QED
  BY <1>1, <1>2

\* The connected flag is set: SessionLife does not see that.
LEMMA ConnectedLife ==
    ASSUME PromiseInv, NEW t \in Threads, Connected(t)
    PROVE  Fresh' /\ Peers' /\ [Life!Next]_(Life!sessionLife)
<1>1. LifeTypeOK /\ Shape /\ Sole /\ Births /\ Fresh /\ Peers
  BY DEF PromiseInv, LifeInv
<1>2. At(t, "ProcessConnect", "store")
  BY DEF Connected
<1>3. PICK x \in Sessions : x = Of(t)
  BY <1>1, <1>2, OfSession
<1>4. Top(t) = Frame("ProcessConnect", x, "store")
  BY <1>1, <1>2, <1>3, AtTop
<1>5. Held("birth", x) /\ Held("recv", x) /\ Top(t).s = x
  BY <1>1, <1>2, <1>3, <1>4, TopHeld DEF Holds, Frame
<1>6. /\ x \in created /\ ~Joined(x) /\ x \notin registry /\ ~Held("hello", x)
      /\ pending[x]["recv"] # 1
  <2>1. ~Joined(x)
    BY <1>5 DEF Joined
  <2>2. x \notin registry /\ ~Held("use", x) /\ ~(pending[x]["recv"] > 0)
    BY <1>1, <2>1, Unborn DEF Kinds
  <2>3. Held("hello", x) => Held("use", x)
    BY DEF Held, Sits, Holds
  <2> QED
    BY <1>1, <1>5, <2>1, <2>2, <2>3 DEF Births
<1>7. PICK f : f = Frame("ProcessConnect", x, "add")
  OBVIOUS
<1>8. f.s = x /\ Holds(f, "birth") /\ ~Holds(f, "hello")
  BY <1>7 DEF Frame, Holds
<1>9. Turn(t, <<f>>) /\ f \in Frames
  <2>1. "add" \in Places /\ Goto(t, "add")
    BY DEF Places, Connected
  <2> QED
    BY <1>1, <1>2, <1>3, <1>7, <2>1, Went
<1>10. PICK new \in Seq(Frames) : Turn(t, new) /\ DOMAIN new = {1} /\ new[1] = f
  BY <1>9, OneTurn
<1>11. /\ UNCHANGED <<socketVars, registry, sendVars, roomVars>>
       /\ \A s \in Sessions \ {x} : connected'[s] = connected[s]
  BY <1>1, <1>3 DEF Connected, LifeTypeOK
<1>12. Fresh'
  <2>1. Guests(new)
    BY <1>6, <1>7, <1>8, <1>10 DEF Guests, Frame
  <2>2. Spared
    BY <1>1, <1>6, <1>11 DEF Spared, Fresh, socketVars, sendVars, roomVars
  <2> QED
    BY <1>1, <1>10, <2>1, <2>2, FreshKept
<1>13. Peers'
  <2>1. \A s : Has(new, "recv", s) => s = x
    BY <1>8, <1>10 DEF Has
  <2> QED
    BY <1>1, <1>5, <1>10, <1>11, <2>1, PeersKept DEF socketVars
<1>14. \A s \in Sessions \ {x} : Same(s)
  BY <1>1, <1>5, <1>8, <1>10, <1>11, OthersSame DEF socketVars
<1>15. Held("birth", x)'
  <2>1. Has(new, "birth", x)
    BY <1>8, <1>10 DEF Has
  <2> QED
    BY <1>1, <1>10, <2>1, HeldMove
<1>16. Phase(x) = "new" /\ Phase(x)' = "new"
  BY <1>6, <1>11, <1>15 DEF Phase, Joined, socketVars
<1>17. ~Welcomed(x) /\ ~Welcomed(x)' /\ ~Receiving(x) /\ ~Receiving(x)'
  BY <1>5, <1>6, <1>11, <1>15 DEF Welcomed, Receiving, socketVars
<1>18. Same(x)
  BY <1>16, <1>17 DEF Same
<1> QED
  BY <1>12, <1>13, <1>14, <1>18, OneLives

\* AddSession is Join.
LEMMA AddSessionLife ==
    ASSUME PromiseInv, NEW t \in Threads, AddSession(t)
    PROVE  Fresh' /\ Peers' /\ [Life!Next]_(Life!sessionLife)
<1>1. LifeTypeOK /\ Shape /\ Sole /\ Births /\ Flags /\ Fresh /\ Peers
  BY DEF PromiseInv, LifeInv
<1>2. At(t, "ProcessConnect", "add")
  BY DEF AddSession
<1>3. PICK x \in Sessions : x = Of(t)
  BY <1>1, <1>2, OfSession
<1>4. Top(t) = Frame("ProcessConnect", x, "add")
  BY <1>1, <1>2, <1>3, AtTop
<1>5. /\ Held("birth", x) /\ Held("recv", x) /\ Held("add", x)
      /\ Holds(Top(t), "birth") /\ Top(t).s = x
  <2>1. Held("birth", x) /\ Held("recv", x) /\ Held("add", x)
    BY <1>1, <1>2, <1>3, TopHeld DEF Holds, Frame
  <2> QED
    BY <1>4, <2>1 DEF Holds, Frame
<1>6. /\ x \in created /\ ~Joined(x) /\ x \notin registry /\ connected[x]
      /\ x \notin chosen \cup audience \cup registered
      /\ (Server => x \in established) /\ ~Held("use", x)
      /\ \A k \in Kinds : pending[x][k] = 0
  <2>1. ~Joined(x)
    BY <1>5 DEF Joined
  <2>2. /\ x \notin registry \cup chosen \cup audience \cup registered /\ ~Held("use", x)
        /\ \A k \in Kinds \ {"connect"} : ~(pending[x][k] > 0)
    BY <1>1, <2>1, Unborn
  <2>3. \A k \in Kinds : pending[x][k] \in Nat
    BY <1>1 DEF LifeTypeOK
  <2> QED
    BY <1>1, <1>5, <2>1, <2>2, <2>3 DEF Births, Flags
<1>7. PICK f : f = Frame("ProcessConnect", x, "hello")
  OBVIOUS
<1>8. f.s = x /\ Holds(f, "recv") /\ ~Holds(f, "birth") /\ ~Holds(f, "guest")
  BY <1>7 DEF Frame, Holds
<1>9. Turn(t, <<f>>) /\ f \in Frames
  <2>1. "hello" \in Places /\ Goto(t, "hello")
    BY DEF Places, AddSession
  <2> QED
    BY <1>1, <1>2, <1>3, <1>7, <2>1, Went
<1>10. PICK new \in Seq(Frames) : Turn(t, new) /\ DOMAIN new = {1} /\ new[1] = f
  BY <1>9, OneTurn
<1>11. /\ UNCHANGED <<socketVars, connected, sendVars, roomVars>>
       /\ registry' = registry \cup {x}
  BY <1>3 DEF AddSession
<1>12. ~Has(new, "birth", x) /\ Has(new, "recv", x) /\ \A s : ~Has(new, "guest", s)
  BY <1>8, <1>10 DEF Has
<1>13. ~Held("birth", x)' /\ Held("recv", x)'
  BY <1>1, <1>5, <1>10, <1>12, HeldMove, HeldNoMore DEF Rights
<1>14. Fresh'
  <2> SUFFICES ASSUME Server, NEW s \in Sessions, Held("hello", s)'
               PROVE  /\ s \in registry' /\ connected'[s] /\ s \in established'
                      /\ s \notin chosen' \cup audience' \cup registered'
                      /\ \A k \in Kinds : pending'[s][k] = 0
                      /\ ~Held("guest", s)'
    BY DEF Fresh
  <2>1. ~Held("guest", s)' \/ Held("guest", s)
    BY <1>1, <1>10, <1>12, HeldMove
  <2>2. CASE s = x
    <3>1. Held("guest", x) => Held("use", x)
      BY DEF Held, Sits, Holds
    <3> QED
      BY <1>6, <1>11, <2>1, <2>2, <3>1 DEF socketVars, sendVars, roomVars
  <2>3. CASE s # x
    <3>1. ~Has(new, "hello", s)
      BY <1>8, <1>10, <2>3 DEF Has
    <3>2. Held("hello", s)
      BY <1>1, <1>10, <3>1, HeldMove
    <3> QED
      BY <1>1, <1>11, <2>1, <3>2 DEF Fresh, socketVars, sendVars, roomVars
  <2> QED
    BY <2>2, <2>3
<1>15. Peers'
  <2>1. \A s : Has(new, "recv", s) => s = x
    BY <1>8, <1>10 DEF Has
  <2> QED
    BY <1>1, <1>5, <1>10, <1>11, <2>1, PeersKept DEF socketVars
<1>16. \A s \in Sessions \ {x} : Same(s)
  BY <1>1, <1>5, <1>8, <1>10, <1>11, OthersSame DEF socketVars
<1>17. Phase(x) = "new" /\ Phase(x)' = "open"
  BY <1>6, <1>11 DEF Phase, socketVars
<1>18. Held("hello", x)'
  <2>1. Has(new, "hello", x)
    BY <1>7, <1>8, <1>10 DEF Has, Holds, Frame
  <2> QED
    BY <1>1, <1>10, <2>1, HeldMove
<1>19. ~Welcomed(x) /\ ~Welcomed(x)' /\ Receiving(x)'
  BY <1>5, <1>13, <1>18 DEF Welcomed, Receiving
<1>20. Lived(x)
  BY <1>17, <1>19 DEF Lived
<1> QED
  BY <1>14, <1>15, <1>16, <1>20, OneLives

\* A connection that is taken is nothing to SessionLife before AddSession, and an accept that
\* failed is Refuse.
LEMMA NewLife ==
    ASSUME PromiseInv, NEW t \in Threads, NEW x \in Sessions,
           TakeConnect(t, x) \/ (TakeAccept(t) /\ accepting = x)
    PROVE  Fresh' /\ Peers' /\ [Life!Next]_(Life!sessionLife)
<1>1. LifeTypeOK /\ Shape /\ Sole /\ Kernel /\ Births /\ Fresh /\ Peers
  BY DEF PromiseInv, LifeInv
<1>2. stack[t] = <<>>
  BY DEF TakeConnect, TakeAccept, Idle
<1>3. x \in created /\ ~Joined(x) /\ ~Held("birth", x)
  <2>1. \/ pending[x]["connect"] > 0
        \/ listening /\ accepting = x
    BY DEF TakeConnect, TakeAccept
  <2> QED
    BY <1>1, <2>1 DEF Births, Joined, LifeTypeOK
<1>4. /\ x \notin registry /\ ~Held("recv", x) /\ ~Held("hello", x)
      /\ \A k \in Kinds \ {"connect"} : pending[x][k] = 0
  <2>1. /\ x \notin registry /\ ~Held("recv", x) /\ ~Held("use", x)
        /\ \A k \in Kinds \ {"connect"} : ~(pending[x][k] > 0)
    BY <1>1, <1>3, Unborn
  <2>2. Held("hello", x) => Held("use", x)
    BY DEF Held, Sits, Holds
  <2> QED
    BY <1>1, <2>1, <2>2 DEF LifeTypeOK
<1>5. PICK f, g : f = Frame("ProcessConnect", x, "store") /\ g = Frame("RegisterAccept", NoSession, "create")
  OBVIOUS
<1>6. /\ f \in Frames /\ g \in Frames /\ f.s = x /\ g.s = NoSession /\ ~Lives(g)
      /\ Holds(f, "birth") /\ f.at # "hello"
  <2>1. f \in Frames /\ g \in Frames
    BY <1>5, GuestFrames
  <2> QED
    BY <1>5, <2>1 DEF Frame, Lives, Holds
<1>7. /\ UNCHANGED <<created, accepting, connected, registry, sendVars, roomVars>>
      /\ established' \in {established, established \cup {x}}
  BY DEF TakeConnect, TakeAccept
<1>8. /\ \A s \in Sessions \ {x} : /\ pending'[s] = pending[s]
                                   /\ listening' /\ accepting' = s <=> listening /\ accepting = s
      /\ pending'[x]["recv"] = 0
  BY <1>1, <1>4 DEF TakeConnect, TakeAccept, Hand, LifeTypeOK, Kinds
<1>9. ~Lives(Top(t))
  BY <1>1, <1>2, Starting
<1>10. \/ /\ Start(t, <<f>>) \/ Start(t, <<f, g>>)
          /\ Server => x \in established'
       \/ /\ Start(t, <<g>>) /\ established' = established /\ ~listening'
          /\ Server /\ x \notin established /\ pending' = pending
  BY <1>1, <1>5 DEF TakeConnect, TakeAccept, Births
<1>11. PICK new \in Seq(Frames) :
          /\ Turn(t, new) /\ \A i \in DOMAIN new : new[i] \in {f, g}
          /\ \/ /\ \E i \in DOMAIN new : new[i] = f
                /\ Server => x \in established'
             \/ /\ \A i \in DOMAIN new : new[i] = g
                /\ established' = established /\ ~listening'
                /\ Server /\ x \notin established /\ pending' = pending
  <2> DEFINE a == <<f>>
             b == <<f, g>>
             c == <<g>>
  <2>1. /\ a \in Seq(Frames) /\ DOMAIN a = {1} /\ a[1] = f
        /\ b \in Seq(Frames) /\ DOMAIN b = {1, 2} /\ b[1] = f /\ b[2] = g
        /\ c \in Seq(Frames) /\ DOMAIN c = {1} /\ c[1] = g
    BY <1>6
  <2>2. \/ /\ Start(t, a) \/ Start(t, b)
           /\ Server => x \in established'
        \/ /\ Start(t, c) /\ established' = established /\ ~listening'
           /\ Server /\ x \notin established /\ pending' = pending
    BY <1>10
  <2> HIDE DEF a, b, c
  <2>3. \/ /\ Turn(t, a) \/ Turn(t, b)
           /\ Server => x \in established'
        \/ /\ Turn(t, c) /\ established' = established /\ ~listening'
           /\ Server /\ x \notin established /\ pending' = pending
    BY <1>1, <1>2, <2>1, <2>2, Started
  <2> QED
    BY <2>1, <2>3
<1>12. \A s \in Sessions : s # x => ~Has(new, "recv", s)
  BY <1>6, <1>11 DEF Has, Holds, Lives
<1>13. Fresh'
  <2>1. Server => ~Held("hello", NoSession)
    BY NoneAssumption, NoHello
  <2>2. Guests(new)
    BY <1>4, <1>6, <1>11, <2>1 DEF Guests, Lives
  <2>3. \A s \in Sessions : Held("hello", s) => s # x
    BY <1>4
  <2>4. Spared
    BY <1>1, <1>7, <1>8, <2>3 DEF Spared, Fresh, sendVars, roomVars
  <2> QED
    BY <1>1, <1>11, <2>2, <2>4, FreshKept
<1>14. Peers'
  <2>1. Has(new, "recv", x) /\ Server => x \in established'
    BY <1>6, <1>11 DEF Has, Holds, Lives
  <2> QED
    BY <1>1, <1>7, <1>8, <1>11, <1>12, <2>1, PeersKept
<1>15. \A s \in Sessions \ {x} : Same(s)
  <2>1. \A i \in DOMAIN new : Lives(new[i]) => new[i].s = x
    BY <1>6, <1>11
  <2> QED
    BY <1>1, <1>7, <1>8, <1>9, <1>11, <2>1, OthersSame
<1>16. Phase(x) = "new"
  BY <1>3, <1>4 DEF Phase
<1>17. ~Welcomed(x) /\ ~Receiving(x)
  <2>1. ~Receiving(x)
    BY <1>4 DEF Receiving, Kinds
  <2>2. ~Welcomed(x)
    BY <1>1 DEF TakeConnect, TakeAccept, Births, Welcomed
  <2> QED
    BY <2>1, <2>2
<1>18. CASE \E i \in DOMAIN new : new[i] = f
  <2>1. Has(new, "birth", x)
    BY <1>6, <1>18 DEF Has
  <2>2. Held("birth", x)'
    BY <1>1, <1>11, <2>1, HeldMove
  <2>3. Phase(x)' = "new"
    BY <1>3, <1>4, <1>7, <2>2 DEF Phase, Joined
  <2>4. ~Welcomed(x)' /\ ~Receiving(x)'
    BY <1>8, <2>2 DEF Welcomed, Receiving
  <2>5. Same(x)
    BY <1>16, <1>17, <2>3, <2>4 DEF Same
  <2> QED
    BY <1>13, <1>14, <1>15, <2>5, OneLives
<1>19. CASE /\ \A i \in DOMAIN new : new[i] = g
            /\ established' = established /\ ~listening'
            /\ Server /\ x \notin established /\ pending' = pending
  <2>1. \A k \in LifeRights : Held(k, x)' <=> Held(k, x)
    BY <1>1, <1>6, <1>9, <1>11, <1>19, HeldByOthers
  <2>2. pending'[x]["connect"] = 0
    BY <1>1, <1>19 DEF Births
  <2>3. Joined(x)'
    BY <1>3, <1>7, <1>19, <2>1, <2>2 DEF Joined, LifeRights
  <2>4. Phase(x)' = "gone"
    BY <1>3, <1>4, <1>7, <2>3 DEF Phase
  <2>5. ~Welcomed(x)' /\ ~Receiving(x)'
    BY <1>4, <1>8, <1>19, <2>1 DEF Welcomed, Receiving, LifeRights
  <2>6. Lived(x)
    BY <1>16, <1>17, <2>4, <2>5 DEF Lived
  <2> QED
    BY <1>13, <1>14, <1>15, <2>6, OneLives
<1> QED
  BY <1>11, <1>18, <1>19

-----------------------------------------------------------------------------
(* The promise is kept *)

\* At the start nobody is welcomed, and sessions are made or not.
LEMMA PromiseInitially ==
    Init => Fresh /\ Peers /\ Life!Init
<1> SUFFICES ASSUME Init PROVE Fresh /\ Peers /\ Life!Init
  OBVIOUS
<1>1. \A k, s : ~Held(k, s)
  BY DEF Init, Held, Sits
<1>2. /\ \A s \in Sessions : pending[s]["recv"] = 0
      /\ ~Server => \A s \in Sessions : pending[s]["connect"] = 1
      /\ established = {} /\ registry = {}
      /\ \A s \in created : \/ listening /\ accepting = s
                            \/ pending[s]["connect"] = 1
  BY DEF Init, Kinds
<1>3. Fresh /\ Peers
  BY <1>1, <1>2 DEF Fresh, Peers
<1>4. \A s \in Sessions : Phase(s) \in {"none", "new"} /\ ~Welcomed(s) /\ ~Receiving(s)
  <2> SUFFICES ASSUME NEW s \in Sessions
               PROVE  Phase(s) \in {"none", "new"} /\ ~Welcomed(s) /\ ~Receiving(s)
    OBVIOUS
  <2>1. s \in created => ~Joined(s)
    BY <1>2 DEF Joined
  <2>2. Phase(s) \in {"none", "new"}
    BY <1>2, <2>1 DEF Phase
  <2>3. ~Welcomed(s) /\ ~Receiving(s)
    BY <1>1, <1>2 DEF Welcomed, Receiving
  <2> QED
    BY <2>2, <2>3
<1> QED
  BY <1>3, <1>4 DEF Life!Init

\* Every step of the threads is one of SessionLife or nothing to it.
LEMMA PromiseKept ==
    LifeInv /\ Fresh /\ Peers /\ [Next]_lifeVars =>
        Fresh' /\ Peers' /\ [Life!Next]_(Life!sessionLife)
<1> SUFFICES ASSUME PromiseInv, [Next]_lifeVars
             PROVE  Fresh' /\ Peers' /\ [Life!Next]_(Life!sessionLife)
  BY DEF PromiseInv
<1>1. ASSUME NEW t \in Threads, Take(t)
      PROVE  Fresh' /\ Peers' /\ [Life!Next]_(Life!sessionLife)
  <2>1. CASE TakeAccept(t)
    <3>1. Births /\ LifeTypeOK
      BY DEF PromiseInv, LifeInv
    <3>2. accepting \in Sessions
      BY <2>1, <3>1 DEF TakeAccept, Births, LifeTypeOK
    <3> QED
      BY <2>1, <3>2, NewLife
  <2>2. CASE TakeGlobal(t)
    <3>1. CASE Sessions = {}
      <4>1. Fresh' /\ Peers'
        BY <3>1 DEF Fresh, Peers
      <4>2. \A s \in Sessions : Same(s)
        BY <3>1
      <4> QED
        BY <4>1, <4>2, NothingHappens
    <3>2. CASE Sessions # {}
      BY <2>2, <3>2, TakeLife
    <3> QED
      BY <3>1, <3>2
  <2>3. ASSUME NEW s \in Sessions,
               TakeConnect(t, s) \/ TakeRecv(t, s) \/ TakeSend(t, s) \/ TakeDisconnect(t, s)
        PROVE  Fresh' /\ Peers' /\ [Life!Next]_(Life!sessionLife)
    BY <2>3, NewLife, TakeRecvLife, TakeLife
  <2> QED
    BY <1>1, <2>1, <2>2, <2>3 DEF Take
<1>2. ASSUME NEW t \in Threads, Run(t)
      PROVE  Fresh' /\ Peers' /\ [Life!Next]_(Life!sessionLife)
  <2>1. CASE \/ RegisterAccept(t) \/ Connected(t) \/ AddSession(t) \/ OnConnected(t)
             \/ CheckRecv(t) \/ WSARecv(t)
    BY <2>1, RegisterAcceptLife, ConnectedLife, AddSessionLife, OnConnectedLife, RecvLife
  <2>2. CASE \/ CheckSend(t) \/ PushSend(t) \/ DrainSend(t) \/ WSASend(t) \/ ClearSend(t)
             \/ FinishSend(t) \/ UnlockSend(t)
    BY <2>2, SendLife
  <2>3. CASE Exchange(t) \/ ReleaseSession(t)
    BY <2>3, ExchangeLife, ReleaseLife
  <2>4. CASE \/ OnDisconnected(t) \/ HandlePacket(t) \/ DropPacket(t)
             \/ ExecuteJob(t) \/ Tell(t) \/ EndJob(t) \/ EndExecute(t)
    BY <2>4, RoomLife
  <2> QED
    BY <1>2, <2>1, <2>2, <2>3, <2>4 DEF Run
<1>3. CASE BeginBroadcast \/ BroadcastSend \/ EndBroadcast
  BY <1>3, BroadcastLife
<1>4. CASE UNCHANGED lifeVars
  <2>1. UNCHANGED <<created, established, pending, accepting, listening, connected, registry,
                    registered, stack, chosen, audience>>
    BY <1>4 DEF lifeVars, socketVars, sendVars, roomVars
  <2>2. \A k, s : Held(k, s)' <=> Held(k, s)
    BY <2>1 DEF Sits, Held, Threads, Holds
  <2>3. \A s \in Sessions : Same(s)
    BY <2>1, <2>2, SameLife
  <2>4. Fresh' /\ Peers'
    BY <2>1, <2>2 DEF PromiseInv, Fresh, Peers
  <2> QED
    BY <2>3, <2>4, NothingHappens
<1> QED
  BY <1>1, <1>2, <1>3, <1>4 DEF Next

\* The calls of Listener, Session, Service and the Room, however the threads interleave
\* them, and whatever fails, implement the life of sessions that SessionLife promises: in
\* the server and, without its order of OnConnected and OnDisconnected, in the client.
THEOREM SessionsLive ==
    Spec => LifeSpec
<1>1. Init => Fresh /\ Peers /\ Life!Init
  BY PromiseInitially
<1>2. LifeInv /\ Fresh /\ Peers /\ [Next]_lifeVars =>
            Fresh' /\ Peers' /\ [Life!Next]_(Life!sessionLife)
  BY PromiseKept
<1>3. Spec => []LifeInv
  BY LifeInvariance
<1> QED
  BY <1>1, <1>2, <1>3, PTL DEF Spec, LifeSpec, Life!Spec
=============================================================================
