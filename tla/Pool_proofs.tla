----------------------------- MODULE Pool_proofs -----------------------------
(***************************************************************************)
(* Proofs about the connection pool, for any number of handlers and any    *)
(* size.  No handler takes a second connection while it holds one: that is *)
(* written in the scripts, and the invariant carries it along them as the  *)
(* number of connections held before each of the steps that remain.        *)
(***************************************************************************)
EXTENDS Pool, TLAPS, FiniteSetTheorems, SequenceTheorems

Steps == {"get", "work", "google", "put"}

\* b[i] is how many connections a handler holds before the i-th step of r: a
\* get finds none, a put finds one, other steps keep what they find.
HeldBefore(b, r) ==
  \A i \in 1 .. Len(r) :
    CASE r[i] = "get" -> b[i] = 0 /\ b[i + 1] = 1
      [] r[i] = "put" -> b[i] = 1 /\ b[i + 1] = 0
      [] OTHER -> b[i + 1] = b[i]

\* A handler that holds n connections and still has r to do never takes one
\* while it holds one, and leaves with none.
Balanced(r, n) ==
  \E b \in [1 .. Len(r) + 1 -> 0 .. 1] :
    /\ b[1] = n
    /\ b[Len(r) + 1] = 0
    /\ HeldBefore(b, r)

Holders == {h \in Handlers : held[h] = 1}

IInv == /\ TypeOK
        /\ permits \in Nat
        /\ IsFiniteSet(Holders)
        /\ \A h \in Handlers : Balanced(rest[h], held[h])

-----------------------------------------------------------------------------
(* The scripts are balanced. *)

LEMMA MinOfTwo ==
  ASSUME NEW m \in Nat, NEW n \in Nat
  PROVE  Min({m, n}) = IF m =< n THEN m ELSE n
BY DEF Min

LEMMA NothingLeft == \A n : Balanced(<<>>, n) <=> n = 0
<1>1. ASSUME NEW n, Balanced(<<>>, n) PROVE n = 0
  BY <1>1 DEF Balanced
<1>2. Balanced(<<>>, 0)
  <2>. DEFINE b == [i \in 1 .. 1 |-> 0]
  <2>1. b \in [1 .. Len(<<>>) + 1 -> 0 .. 1] /\ b[1] = 0
    OBVIOUS
  <2>2. HeldBefore(b, <<>>)
    BY DEF HeldBefore
  <2>. QED BY <2>1, <2>2 DEF Balanced
<1>. QED BY <1>1, <1>2

LEMMA OneIsBalanced ==
  /\ OneConnection \in Seq(Steps)
  /\ Balanced(OneConnection, 0)
<1>. DEFINE b == [i \in 1 .. 4 |-> IF i \in {2, 3} THEN 1 ELSE 0]
<1>1. OneConnection \in Seq(Steps) /\ Len(OneConnection) = 3
  BY DEF OneConnection, Steps
<1>2. b \in [1 .. Len(OneConnection) + 1 -> 0 .. 1] /\ b[1] = 0 /\ b[4] = 0
  BY <1>1
<1>3. HeldBefore(b, OneConnection)
  BY <1>1 DEF HeldBefore, OneConnection
<1>. QED BY <1>1, <1>2, <1>3 DEF Balanced

LEMMA WorkIsBalanced == <<"work">> \in Seq(Steps) /\ Balanced(<<"work">>, 0)
<1>. DEFINE b == [i \in 1 .. 2 |-> 0]
<1>1. b \in [1 .. Len(<<"work">>) + 1 -> 0 .. 1] /\ b[1] = 0 /\ b[2] = 0
  OBVIOUS
<1>2. HeldBefore(b, <<"work">>)
  BY DEF HeldBefore
<1>. QED BY <1>1, <1>2 DEF Balanced, Steps

LEMMA LoginIsBalanced == Login \in Seq(Steps) /\ Balanced(Login, 0)
<1>. DEFINE b == [i \in 1 .. 6 |-> IF i \in 2 .. 5 THEN 1 ELSE 0]
<1>1. Login \in Seq(Steps) /\ Len(Login) = 5
  BY DEF Login, Steps
<1>2. b \in [1 .. Len(Login) + 1 -> 0 .. 1] /\ b[1] = 0 /\ b[6] = 0
  BY <1>1
<1>3. HeldBefore(b, Login)
  BY <1>1 DEF HeldBefore, Login
<1>. QED BY <1>1, <1>2, <1>3 DEF Balanced

\* One after the other: the first leaves with none, so the second starts so.
LEMMA ConcatIsBalanced ==
  ASSUME NEW r \in Seq(Steps), NEW s \in Seq(Steps), NEW n,
         Balanced(r, n), Balanced(s, 0)
  PROVE  r \o s \in Seq(Steps) /\ Balanced(r \o s, n)
<1>. DEFINE l == Len(r)
            t == r \o s
<1>1. l \in Nat /\ Len(s) \in Nat
  BY LenProperties
<1>2. /\ t \in Seq(Steps)
      /\ Len(t) = l + Len(s)
      /\ \A i \in 1 .. l + Len(s) : t[i] = IF i <= l THEN r[i] ELSE s[i - l]
  BY ConcatProperties, Zenon
<1>3. PICK b \in [1 .. l + 1 -> 0 .. 1] : b[1] = n /\ b[l + 1] = 0 /\ HeldBefore(b, r)
  BY Zenon DEF Balanced
<1>4. PICK c \in [1 .. Len(s) + 1 -> 0 .. 1] :
        c[1] = 0 /\ c[Len(s) + 1] = 0 /\ HeldBefore(c, s)
  BY Zenon DEF Balanced
<1>. DEFINE d == [i \in 1 .. Len(t) + 1 |-> IF i <= l THEN b[i] ELSE c[i - l]]
<1>. HIDE DEF l, t
<1>5. d \in [1 .. Len(t) + 1 -> 0 .. 1] /\ d[1] = n /\ d[Len(t) + 1] = 0
  BY <1>1, <1>2, <1>3, <1>4
<1>. HIDE DEF d
<1>6. /\ \A i \in 1 .. l : t[i] = r[i] /\ d[i] = b[i] /\ d[i + 1] = b[i + 1]
      /\ \A i \in l + 1 .. l + Len(s) :
           t[i] = s[i - l] /\ d[i] = c[i - l] /\ d[i + 1] = c[(i - l) + 1]
  BY <1>1, <1>2, <1>3, <1>4 DEF d
<1>7. HeldBefore(d, t)
  <2>. SUFFICES ASSUME NEW i \in 1 .. l + Len(s)
       PROVE CASE t[i] = "get" -> d[i] = 0 /\ d[i + 1] = 1
               [] t[i] = "put" -> d[i] = 1 /\ d[i + 1] = 0
               [] OTHER -> d[i + 1] = d[i]
    BY <1>2 DEF HeldBefore
  <2>1. CASE i \in 1 .. l
    BY <2>1, <1>3, <1>6 DEF HeldBefore, l
  <2>2. CASE i \in l + 1 .. l + Len(s)
    <3>1. i - l \in 1 .. Len(s)
      BY <1>1, <2>2
    <3>. QED BY <2>2, <3>1, <1>4, <1>6 DEF HeldBefore
  <2>. QED BY <1>1, <2>1, <2>2
<1>. QED BY <1>2, <1>5, <1>7 DEF Balanced, t

LEMMA ScriptsAreBalanced ==
  \A script \in Scripts : script \in Seq(Steps) /\ Balanced(script, 0)
<1>. DEFINE ow == OneConnection \o <<"work">>
            oo == OneConnection \o OneConnection
<1>1. ow \in Seq(Steps) /\ Balanced(ow, 0)
  BY OneIsBalanced, WorkIsBalanced, ConcatIsBalanced
<1>. HIDE DEF ow
<1>2. ow \o OneConnection \in Seq(Steps) /\ Balanced(ow \o OneConnection, 0)
  BY <1>1, OneIsBalanced, ConcatIsBalanced
<1>3. /\ (ow \o OneConnection) \o OneConnection \in Seq(Steps)
      /\ Balanced((ow \o OneConnection) \o OneConnection, 0)
  BY <1>2, OneIsBalanced, ConcatIsBalanced
<1>. QED BY <1>2, <1>3, OneIsBalanced, LoginIsBalanced, Zenon
         DEF Scripts, Information, List, Autocomplete, RemoveRow, Logout, ow

-----------------------------------------------------------------------------
(* What a step does to what remains. *)

LEMMA TailIsBalanced ==
  ASSUME NEW r \in Seq(Steps), NEW n, Balanced(r, n), r # <<>>
  PROVE  /\ Tail(r) \in Seq(Steps)
         /\ Head(r) = "get" => n = 0 /\ Balanced(Tail(r), 1)
         /\ Head(r) = "put" => n = 1 /\ Balanced(Tail(r), 0)
         /\ Head(r) \notin {"get", "put"} => Balanced(Tail(r), n)
<1>. DEFINE l == Len(r)
<1>1. l \in Nat \ {0} /\ Head(r) = r[1]
  BY EmptySeq, LenProperties
<1>2. /\ Tail(r) \in Seq(Steps)
      /\ Len(Tail(r)) = l - 1
      /\ \A i \in 1 .. l - 1 : Tail(r)[i] = r[i + 1]
  BY HeadTailProperties
<1>3. PICK b \in [1 .. l + 1 -> 0 .. 1] : b[1] = n /\ b[l + 1] = 0 /\ HeldBefore(b, r)
  BY Zenon DEF Balanced
<1>. DEFINE d == [i \in 1 .. Len(Tail(r)) + 1 |-> b[i + 1]]
<1>. HIDE DEF l
<1>4. /\ d \in [1 .. Len(Tail(r)) + 1 -> 0 .. 1]
      /\ d[1] = b[2] /\ d[Len(Tail(r)) + 1] = 0
      /\ \A i \in 1 .. l - 1 : d[i] = b[i + 1] /\ d[i + 1] = b[(i + 1) + 1]
  BY <1>1, <1>2, <1>3
<1>. HIDE DEF d
<1>5. HeldBefore(d, Tail(r))
  <2>1. \A i \in 1 .. l - 1 : i + 1 \in 1 .. l
    BY <1>1
  <2>. QED BY <1>2, <1>3, <1>4, <2>1 DEF HeldBefore, l
<1>6. Balanced(Tail(r), b[2])
  BY <1>4, <1>5 DEF Balanced
<1>7. 1 \in 1 .. Len(r) /\ 1 + 1 = 2
  BY <1>1 DEF l
<1>8. CASE r[1] \in {"get", "put"}
  BY <1>1, <1>2, <1>3, <1>6, <1>7, <1>8 DEF HeldBefore
<1>9. CASE r[1] \notin {"get", "put"}
  BY <1>1, <1>2, <1>3, <1>6, <1>7, <1>9 DEF HeldBefore
<1>. QED BY <1>8, <1>9

-----------------------------------------------------------------------------
(* Connections go back: one at most, and to one handler at most. *)

LEMMA QueueFacts ==
  ASSUME NEW q \in Seq(Handlers), IsInjective(q)
  PROVE  /\ Len(q) \in Nat
         /\ ToSet(q) = {q[i] : i \in 1 .. Len(q)}
         /\ \A i, j \in 1 .. Len(q) : q[i] = q[j] => i = j
BY LenProperties DEF ToSet, IsInjective

\* Nobody is served: there is nothing to give, or nobody to give it to.
LEMMA ReleaseToNobody ==
  ASSUME NEW h \in Handlers, NEW n \in 0 .. 1, NEW steps,
         TypeOK, permits \in Nat, Release(h, n, steps), n = 0 \/ queue = <<>>
  PROVE  /\ rest' = [rest EXCEPT ![h] = steps]
         /\ held' = [held EXCEPT ![h] = @ - n]
         /\ permits' = permits + n
         /\ queue' = queue
<1>. DEFINE served == Min({n, Len(queue)})
            next   == ToSet(SubSeq(queue, 1, served))
<1>1. queue \in Seq(Handlers) /\ Len(queue) \in Nat /\ (queue = <<>> => Len(queue) = 0)
  BY LenProperties, EmptySeq DEF TypeOK
<1>2. served = 0
  BY <1>1, MinOfTwo
<1>. HIDE DEF served
<1>3. SubSeq(queue, 1, served) = <<>>
  BY <1>2, SubSeqEmpty
<1>4. next = {}
  <2>1. \A q \in Seq(Handlers) : q = <<>> => ToSet(q) = {}
    BY EmptySeq, LenProperties DEF ToSet
  <2>. QED BY <1>3, <2>1, EmptySeq
<1>. HIDE DEF next
<1>5. SubSeq(queue, served + 1, Len(queue)) = queue
  BY <1>1, <1>2, SubSeqFull
<1>6. /\ rest' = [g \in Handlers |-> IF g = h THEN steps
                                   ELSE IF g \in next THEN Tail(rest[g]) ELSE rest[g]]
      /\ held' = [g \in Handlers |-> IF g = h THEN held[g] - n
                                   ELSE IF g \in next THEN held[g] + 1 ELSE held[g]]
      /\ permits' = permits + n - served
      /\ queue' = SubSeq(queue, served + 1, Len(queue))
  BY Zenon DEF Release, served, next
<1>7. rest' = [rest EXCEPT ![h] = steps] /\ held' = [held EXCEPT ![h] = @ - n]
  BY <1>4, <1>6 DEF TypeOK
<1>8. permits' = permits + n
  BY <1>2, <1>6
<1>9. queue' = queue
  BY <1>5, <1>6
<1>. QED BY <1>7, <1>8, <1>9, Zenon

\* The handler that has waited longest is served.
LEMMA ReleaseToFirst ==
  ASSUME NEW h \in Handlers, NEW steps,
         TypeOK, permits \in Nat, Release(h, 1, steps), queue # <<>>
  PROVE  /\ Head(queue) \in Handlers
         /\ rest' = [g \in Handlers |-> IF g = h THEN steps
                                      ELSE IF g = Head(queue) THEN Tail(rest[g])
                                      ELSE rest[g]]
         /\ held' = [g \in Handlers |-> IF g = h THEN held[g] - 1
                                      ELSE IF g = Head(queue) THEN held[g] + 1
                                      ELSE held[g]]
         /\ permits' = permits
         /\ queue' = Tail(queue)
<1>. DEFINE served == Min({1, Len(queue)})
            next   == ToSet(SubSeq(queue, 1, served))
<1>1. queue \in Seq(Handlers) /\ Len(queue) \in Nat \ {0} /\ Head(queue) = queue[1]
  BY LenProperties, EmptySeq DEF TypeOK
<1>2. served = 1
  BY <1>1, MinOfTwo
<1>. HIDE DEF served
<1>3. /\ SubSeq(queue, 1, 1) \in Seq(Handlers)
      /\ Len(SubSeq(queue, 1, 1)) = 1
      /\ SubSeq(queue, 1, 1)[1] = queue[1]
  <2>1. \A i \in 1 .. 1 : queue[i] \in Handlers
    BY <1>1, ElementOfSeq
  <2>. QED BY <1>1, <2>1, SubSeqProperties
<1>4. next = {Head(queue)}
  <2>1. \A q \in Seq(Handlers) : Len(q) = 1 => ToSet(q) = {q[1]}
    BY LenProperties DEF ToSet
  <2>. QED BY <1>1, <1>2, <1>3, <2>1
<1>. HIDE DEF next
<1>5. SubSeq(queue, served + 1, Len(queue)) = Tail(queue)
  BY <1>1, <1>2, TailIsSubSeq
<1>6. /\ rest' = [g \in Handlers |-> IF g = h THEN steps
                                   ELSE IF g \in next THEN Tail(rest[g]) ELSE rest[g]]
      /\ held' = [g \in Handlers |-> IF g = h THEN held[g] - 1
                                   ELSE IF g \in next THEN held[g] + 1 ELSE held[g]]
      /\ permits' = permits + 1 - served
      /\ queue' = SubSeq(queue, served + 1, Len(queue))
  BY Zenon DEF Release, served, next
<1>7. Head(queue) \in Handlers
  BY <1>1, ElementOfSeq
<1>. QED BY <1>2, <1>4, <1>5, <1>6, <1>7

\* The queue without its first, and with one more.
LEMMA QueueSteps ==
  ASSUME NEW q \in Seq(Handlers), IsInjective(q)
  PROVE  /\ q # <<>> => /\ Tail(q) \in Seq(Handlers) /\ IsInjective(Tail(q))
                        /\ Head(q) \in ToSet(q)
                        /\ ToSet(Tail(q)) = ToSet(q) \ {Head(q)}
         /\ \A h \in Handlers \ ToSet(q) :
              /\ Append(q, h) \in Seq(Handlers) /\ IsInjective(Append(q, h))
              /\ ToSet(Append(q, h)) = ToSet(q) \cup {h}
<1>1. /\ Len(q) \in Nat
      /\ \A i \in 1 .. Len(q) : q[i] \in Handlers
      /\ ToSet(q) = {q[i] : i \in 1 .. Len(q)}
      /\ \A i, j \in 1 .. Len(q) : q[i] = q[j] => i = j
  BY QueueFacts, ElementOfSeq
<1>2. ASSUME q # <<>>
      PROVE  /\ Tail(q) \in Seq(Handlers) /\ IsInjective(Tail(q))
             /\ Head(q) \in ToSet(q)
             /\ ToSet(Tail(q)) = ToSet(q) \ {Head(q)}
  <2>1. /\ Tail(q) \in Seq(Handlers)
        /\ DOMAIN Tail(q) = 1 .. Len(q) - 1
        /\ \A i \in 1 .. Len(q) - 1 : Tail(q)[i] = q[i + 1]
    BY <1>2, HeadTailProperties, LenProperties
  <2>2. Len(q) # 0 /\ Head(q) = q[1]
    BY <1>2, EmptySeq
  <2>3. \A i \in 1 .. Len(q) - 1 : i + 1 \in 1 .. Len(q)
    BY <1>1
  <2>4. IsInjective(Tail(q))
    BY <1>1, <2>1, <2>3 DEF IsInjective
  <2>5. ToSet(Tail(q)) = {q[i + 1] : i \in 1 .. Len(q) - 1}
    BY <2>1 DEF ToSet
  <2>6. {q[i + 1] : i \in 1 .. Len(q) - 1} = {q[i] : i \in 2 .. Len(q)}
    <3>1. \A i \in 2 .. Len(q) : i - 1 \in 1 .. Len(q) - 1 /\ (i - 1) + 1 = i
      BY <1>1
    <3>2. \A i \in 1 .. Len(q) - 1 : i + 1 \in 2 .. Len(q)
      BY <1>1
    <3>. QED BY <3>1, <3>2
  <2>7. {q[i] : i \in 2 .. Len(q)} = {q[i] : i \in 1 .. Len(q)} \ {q[1]}
    <3>1. \A i \in 1 .. Len(q) : i = 1 \/ i \in 2 .. Len(q)
      BY <1>1
    <3>2. 1 \in 1 .. Len(q) /\ \A i \in 2 .. Len(q) : i \in 1 .. Len(q) /\ i # 1
      BY <1>1, <2>2
    <3>. QED BY <1>1, <3>1, <3>2
  <2>8. Head(q) \in ToSet(q)
    BY <1>1, <2>2
  <2>. QED BY <1>1, <2>1, <2>2, <2>4, <2>5, <2>6, <2>7, <2>8
<1>3. ASSUME NEW h \in Handlers \ ToSet(q)
      PROVE  /\ Append(q, h) \in Seq(Handlers) /\ IsInjective(Append(q, h))
             /\ ToSet(Append(q, h)) = ToSet(q) \cup {h}
  <2>1. /\ Append(q, h) \in Seq(Handlers)
        /\ DOMAIN Append(q, h) = 1 .. Len(q) + 1
        /\ \A i \in 1 .. Len(q) : Append(q, h)[i] = q[i]
        /\ Append(q, h)[Len(q) + 1] = h
    BY <1>1
  <2>2. \A i \in 1 .. Len(q) + 1 : i \in 1 .. Len(q) \/ i = Len(q) + 1
    BY <1>1
  <2>3. /\ \A i \in 1 .. Len(q) : i \in 1 .. Len(q) + 1 /\ q[i] # h
        /\ Len(q) + 1 \in 1 .. Len(q) + 1
    BY <1>1
  <2>4. IsInjective(Append(q, h))
    BY <1>1, <2>1, <2>2, <2>3 DEF IsInjective
  <2>5. ToSet(Append(q, h)) = ToSet(q) \cup {h}
    BY <1>1, <2>1, <2>2, <2>3 DEF ToSet
  <2>. QED BY <2>1, <2>4, <2>5
<1>. QED BY <1>2, <1>3

-----------------------------------------------------------------------------
(* The invariant, handler by handler. *)

\* What the invariant says of one handler: what TypeOK does, and the balance.
Fits(h) == /\ rest[h] \in Seq(Steps)
           /\ held[h] \in 0 .. 1
           /\ Balanced(rest[h], held[h])
           /\ Waiting(h) => rest[h] # <<>> /\ Head(rest[h]) = "get"

LEMMA HandlersFit ==
  ASSUME IInv, NEW h \in Handlers
  PROVE  Fits(h) /\ (Waiting(h) => held[h] = 0)
<1>1. Fits(h)
  BY DEF Fits, IInv, TypeOK, Steps
<1>2. ASSUME Waiting(h) PROVE held[h] = 0
  BY <1>1, <1>2, TailIsBalanced, Zenon DEF Fits
<1>. QED BY <1>1, <1>2

\* The handlers, the queue and the count: all that is left to show of a step.
AllFits == /\ rest = [h \in Handlers |-> rest[h]]
           /\ held = [h \in Handlers |-> held[h]]
           /\ \A h \in Handlers : Fits(h)
           /\ queue \in Seq(Handlers) /\ IsInjective(queue)
           /\ permits \in Nat
           /\ queue # <<>> => permits = 0
           /\ IsFiniteSet(Holders)
           /\ permits = PoolSize - Cardinality(Holders)

LEMMA AllFitsIsEnough == AllFits => IInv
<1>. SUFFICES ASSUME AllFits PROVE IInv
  OBVIOUS
<1>1. rest \in [Handlers -> Seq({"get", "work", "google", "put"})]
  BY Zenon DEF AllFits, Fits, Steps
<1>2. held \in [Handlers -> 0 .. 1]
  BY Zenon DEF AllFits, Fits
<1>3. \A h \in Handlers : rest[h] = <<>> => held[h] = 0
  BY NothingLeft, Zenon DEF AllFits, Fits
<1>4. \A h \in Handlers : Waiting(h) => rest[h] # <<>> /\ Head(rest[h]) = "get"
  BY Zenon DEF AllFits, Fits
<1>. QED BY <1>1, <1>2, <1>3, <1>4, Zenon DEF AllFits, IInv, TypeOK, Holders, Fits

LEMMA AllFitsIsEnoughNext == AllFits' => IInv'
BY AllFitsIsEnough, PTL

\* Only h moves on, and the connections are where they were.
LEMMA MovesOnKeeps ==
  ASSUME IInv, NEW h \in Handlers, NEW steps \in Seq(Steps),
         ~Waiting(h), Balanced(steps, held[h]),
         rest' = [rest EXCEPT ![h] = steps], UNCHANGED <<held, permits, queue>>
  PROVE  IInv'
<1>1. /\ rest' = [g \in Handlers |-> rest'[g]] /\ held' = [g \in Handlers |-> held'[g]]
      /\ rest'[h] = steps /\ \A g \in Handlers \ {h} : rest'[g] = rest[g]
  BY DEF IInv, TypeOK
<1>2. \A g \in Handlers : Fits(g)'
  <2>. SUFFICES ASSUME NEW g \in Handlers PROVE Fits(g)'
    OBVIOUS
  <2>1. Fits(g) /\ Fits(h) /\ (Waiting(g)' <=> Waiting(g))
    BY HandlersFit DEF Waiting
  <2>. QED BY <1>1, <2>1, Zenon DEF Fits
<1>3. Holders' = Holders
  BY DEF Holders
<1>. QED BY <1>1, <1>2, <1>3, AllFitsIsEnoughNext DEF IInv, TypeOK, Holders, AllFits

LEMMA GetKeeps ==
  ASSUME IInv, NEW h \in Handlers, Get(h)
  PROVE  IInv'
<1>1. Fits(h) /\ rest[h] # <<>> /\ Head(rest[h]) = "get" /\ ~Waiting(h)
  BY HandlersFit, Zenon DEF Get, At
<1>2. held[h] = 0 /\ Tail(rest[h]) \in Seq(Steps) /\ Balanced(Tail(rest[h]), 1)
  BY <1>1, TailIsBalanced, Zenon DEF Fits
<1>3. CASE permits > 0
  <2>1. /\ permits' = permits - 1
        /\ held' = [held EXCEPT ![h] = @ + 1]
        /\ rest' = [rest EXCEPT ![h] = Tail(@)]
        /\ queue' = queue /\ queue = <<>>
    BY <1>3 DEF Get, IInv, TypeOK
  <2>2. /\ rest' = [g \in Handlers |-> rest'[g]] /\ held' = [g \in Handlers |-> held'[g]]
        /\ rest'[h] = Tail(rest[h]) /\ held'[h] = 1
        /\ \A g \in Handlers \ {h} : rest'[g] = rest[g] /\ held'[g] = held[g]
    <3>1. rest \in [Handlers -> Seq(Steps)] /\ held \in [Handlers -> 0 .. 1]
      BY DEF IInv, TypeOK, Steps
    <3>2. DOMAIN rest = Handlers /\ DOMAIN held = Handlers
      BY <3>1
    <3>3. /\ rest' = [g \in Handlers |-> IF g = h THEN Tail(rest[g]) ELSE rest[g]]
          /\ held' = [g \in Handlers |-> IF g = h THEN held[g] + 1 ELSE held[g]]
      BY <2>1, <3>2
    <3>. QED BY <1>2, <3>3
  <2>3. \A g \in Handlers : Fits(g)'
    <3>. SUFFICES ASSUME NEW g \in Handlers PROVE Fits(g)'
      OBVIOUS
    <3>1. Fits(g) /\ (Waiting(g)' <=> Waiting(g))
      BY <2>1, HandlersFit DEF Waiting
    <3>2. CASE g = h
      <4>1. 1 \in 0 .. 1
        OBVIOUS
      <4>. QED BY <1>1, <1>2, <2>2, <3>1, <3>2, <4>1, Zenon DEF Fits
    <3>3. CASE g # h
      BY <2>2, <3>1, <3>3, Zenon DEF Fits
    <3>. QED BY <3>2, <3>3
  <2>4. Holders' = Holders \cup {h} /\ h \notin Holders
    BY <1>2, <2>2 DEF Holders
  <2>5. IsFiniteSet(Holders') /\ Cardinality(Holders') = Cardinality(Holders) + 1
    BY <2>4, FS_AddElement DEF IInv
  <2>6. permits = PoolSize - Cardinality(Holders) /\ Cardinality(Holders) \in Nat
    BY FS_CardinalityType DEF IInv, TypeOK, Holders
  <2>7. permits' \in Nat /\ permits' = PoolSize - Cardinality(Holders')
    BY <1>3, <2>1, <2>5, <2>6, PoolAssumption DEF IInv
  <2>8. queue' \in Seq(Handlers) /\ IsInjective(queue') /\ queue' = <<>>
    BY <2>1 DEF IInv, TypeOK
  <2>. QED BY <2>2, <2>3, <2>5, <2>7, <2>8, AllFitsIsEnoughNext DEF AllFits
<1>4. CASE ~(permits > 0)
  <2>1. queue' = Append(queue, h) /\ UNCHANGED <<rest, held, permits>>
    BY <1>4 DEF Get, Enqueue
  <2>2. /\ queue' \in Seq(Handlers) /\ IsInjective(queue')
        /\ ToSet(queue') = ToSet(queue) \cup {h}
    BY <1>1, <2>1, QueueSteps DEF IInv, TypeOK, Waiting
  <2>3. \A g \in Handlers : Fits(g)'
    <3>. SUFFICES ASSUME NEW g \in Handlers PROVE Fits(g)'
      OBVIOUS
    <3>1. Fits(g) /\ (Waiting(g)' <=> g = h \/ Waiting(g))
      BY <2>2, HandlersFit DEF Waiting
    <3>. QED BY <1>1, <2>1, <3>1, Zenon DEF Fits
  <2>4. permits = 0 /\ permits' = permits
    BY <1>4, <2>1 DEF IInv
  <2>5. Holders' = Holders
    BY <2>1 DEF Holders
  <2>6. rest' = [g \in Handlers |-> rest'[g]] /\ held' = [g \in Handlers |-> held'[g]]
    BY <2>1 DEF IInv, TypeOK
  <2>7. /\ IsFiniteSet(Holders') /\ permits' = PoolSize - Cardinality(Holders')
        /\ permits' \in Nat
    BY <2>4, <2>5 DEF IInv, TypeOK, Holders
  <2>. QED BY <2>2, <2>3, <2>4, <2>6, <2>7, AllFitsIsEnoughNext DEF AllFits
<1>. QED BY <1>3, <1>4

\* h gives back what it holds, and goes on with steps that start with none.
LEMMA ReleaseKeeps ==
  ASSUME IInv, NEW h \in Handlers, NEW steps \in Seq(Steps), ~Waiting(h),
         Balanced(steps, 0), Release(h, held[h], steps)
  PROVE  IInv'
<1>1. Fits(h) /\ held[h] \in 0 .. 1 /\ TypeOK /\ permits \in Nat
  BY HandlersFit DEF Fits, IInv
<1>2. permits = PoolSize - Cardinality(Holders) /\ Cardinality(Holders) \in Nat
  BY FS_CardinalityType DEF IInv, TypeOK, Holders
<1>3. CASE held[h] = 0 \/ queue = <<>>
  <2>1. /\ rest' = [rest EXCEPT ![h] = steps]
        /\ held' = [held EXCEPT ![h] = @ - held[h]]
        /\ permits' = permits + held[h]
        /\ queue' = queue
    BY <1>1, <1>3, ReleaseToNobody, Zenon
  <2>2. /\ rest' = [g \in Handlers |-> rest'[g]] /\ held' = [g \in Handlers |-> held'[g]]
        /\ rest'[h] = steps /\ held'[h] = 0
        /\ \A g \in Handlers \ {h} : rest'[g] = rest[g] /\ held'[g] = held[g]
    <3>1. DOMAIN rest = Handlers /\ DOMAIN held = Handlers
      BY <1>1 DEF TypeOK
    <3>2. /\ rest' = [g \in Handlers |-> IF g = h THEN steps ELSE rest[g]]
          /\ held' = [g \in Handlers |-> IF g = h THEN held[g] - held[h] ELSE held[g]]
      BY <2>1, <3>1
    <3>. QED BY <1>1, <3>2
  <2>3. \A g \in Handlers : Fits(g)'
    <3>. SUFFICES ASSUME NEW g \in Handlers PROVE Fits(g)'
      OBVIOUS
    <3>1. Fits(g) /\ (Waiting(g)' <=> Waiting(g))
      BY <2>1, HandlersFit DEF Waiting
    <3>2. CASE g = h
      <4>1. 0 \in 0 .. 1
        OBVIOUS
      <4>. QED BY <2>2, <3>1, <3>2, <4>1, Zenon DEF Fits
    <3>3. CASE g # h
      BY <2>2, <3>1, <3>3, Zenon DEF Fits
    <3>. QED BY <3>2, <3>3
  <2>4. Holders' = Holders \ {h} /\ (h \in Holders <=> held[h] = 1)
    BY <2>2 DEF Holders
  <2>5. IsFiniteSet(Holders') /\ Cardinality(Holders') = Cardinality(Holders) - held[h]
    BY <1>1, <1>2, <2>4, FS_RemoveElement DEF IInv
  <2>6. permits' \in Nat /\ permits' = PoolSize - Cardinality(Holders')
    BY <1>1, <1>2, <2>1, <2>5, PoolAssumption
  <2>7. /\ queue' \in Seq(Handlers) /\ IsInjective(queue')
        /\ queue' # <<>> => permits' = 0
    BY <1>1, <1>3, <2>1 DEF TypeOK
  <2>. QED BY <2>2, <2>3, <2>5, <2>6, <2>7, AllFitsIsEnoughNext DEF AllFits
<1>4. CASE held[h] = 1 /\ queue # <<>>
  <2>. DEFINE first == Head(queue)
  <2>1. /\ first \in Handlers
        /\ rest' = [g \in Handlers |-> IF g = h THEN steps
                                     ELSE IF g = first THEN Tail(rest[g])
                                     ELSE rest[g]]
        /\ held' = [g \in Handlers |-> IF g = h THEN held[g] - 1
                                     ELSE IF g = first THEN held[g] + 1
                                     ELSE held[g]]
        /\ permits' = permits
        /\ queue' = Tail(queue)
    BY <1>1, <1>4, ReleaseToFirst, Zenon
  <2>2. /\ queue' \in Seq(Handlers) /\ IsInjective(queue')
        /\ Waiting(first)
        /\ ToSet(queue') = ToSet(queue) \ {first}
    BY <1>1, <1>4, <2>1, QueueSteps DEF TypeOK, Waiting
  <2>. HIDE DEF first
  <2>3. first # h /\ Fits(first) /\ held[first] = 0
    BY <2>1, <2>2, HandlersFit
  <2>4. Tail(rest[first]) \in Seq(Steps) /\ Balanced(Tail(rest[first]), 1)
    BY <2>2, <2>3, TailIsBalanced, Zenon DEF Fits
  <2>5. /\ rest' = [g \in Handlers |-> rest'[g]] /\ held' = [g \in Handlers |-> held'[g]]
        /\ rest'[h] = steps /\ held'[h] = 0
        /\ rest'[first] = Tail(rest[first]) /\ held'[first] = 1
        /\ \A g \in Handlers \ {h, first} : rest'[g] = rest[g] /\ held'[g] = held[g]
    BY <1>4, <2>1, <2>3
  <2>6. \A g \in Handlers : Fits(g)'
    <3>. SUFFICES ASSUME NEW g \in Handlers PROVE Fits(g)'
      OBVIOUS
    <3>1. Fits(g) /\ (Waiting(g)' <=> Waiting(g) /\ g # first)
      BY <2>2, HandlersFit DEF Waiting
    <3>2. 0 \in 0 .. 1 /\ 1 \in 0 .. 1
      OBVIOUS
    <3>3. CASE g = h
      BY <2>5, <3>1, <3>2, <3>3, Zenon DEF Fits
    <3>4. CASE g = first
      BY <2>4, <2>5, <3>1, <3>2, <3>4, Zenon DEF Fits
    <3>5. CASE g \notin {h, first}
      BY <2>5, <3>1, <3>5, Zenon DEF Fits
    <3>. QED BY <3>3, <3>4, <3>5
  <2>7. Holders' = (Holders \ {h}) \cup {first} /\ h \in Holders /\ first \notin Holders
    BY <1>4, <2>1, <2>3, <2>5 DEF Holders
  <2>8. IsFiniteSet(Holders') /\ Cardinality(Holders') = Cardinality(Holders)
    <3>1. /\ IsFiniteSet(Holders \ {h})
          /\ Cardinality(Holders \ {h}) = Cardinality(Holders) - 1
      BY <2>7, FS_RemoveElement DEF IInv
    <3>2. /\ IsFiniteSet(Holders')
          /\ Cardinality(Holders') = Cardinality(Holders \ {h}) + 1
      BY <2>7, <3>1, FS_AddElement
    <3>. QED BY <1>2, <3>1, <3>2
  <2>9. /\ permits' \in Nat /\ permits' = PoolSize - Cardinality(Holders')
        /\ permits' = 0
    BY <1>1, <1>2, <1>4, <2>1, <2>8 DEF TypeOK
  <2>. QED BY <2>2, <2>5, <2>6, <2>8, <2>9, AllFitsIsEnoughNext DEF AllFits
<1>. QED BY <1>1, <1>3, <1>4

-----------------------------------------------------------------------------
(* The theorems. *)

LEMMA Initially == Init => IInv
<1>. SUFFICES ASSUME Init PROVE IInv
  OBVIOUS
<1>1. /\ rest = [h \in Handlers |-> <<>>] /\ held = [h \in Handlers |-> 0]
      /\ permits = PoolSize /\ queue = <<>>
  BY DEF Init
<1>2. Holders = {}
  BY <1>1 DEF Holders
<1>3. /\ queue \in Seq(Handlers) /\ IsInjective(queue)
      /\ ToSet(queue) = {}
  <2>1. <<>> \in Seq(Handlers) /\ DOMAIN <<>> = {}
    BY EmptySeq, LenProperties
  <2>. QED BY <1>1, <2>1 DEF IsInjective, ToSet
<1>4. \A h \in Handlers : Fits(h)
  <2>1. <<>> \in Seq(Steps) /\ Balanced(<<>>, 0) /\ 0 \in 0 .. 1
    BY EmptySeq, NothingLeft
  <2>. QED BY <1>1, <1>3, <2>1 DEF Fits, Waiting
<1>5. permits \in Nat /\ IsFiniteSet(Holders) /\ permits = PoolSize - Cardinality(Holders)
  BY <1>1, <1>2, FS_EmptySet, PoolAssumption
<1>6. rest = [h \in Handlers |-> rest[h]] /\ held = [h \in Handlers |-> held[h]]
  BY <1>1
<1>. QED BY <1>1, <1>3, <1>4, <1>5, <1>6, AllFitsIsEnough DEF AllFits

LEMMA StepsKeep == IInv /\ [Next]_vars => IInv'
<1>. SUFFICES ASSUME IInv, [Next]_vars PROVE IInv'
  OBVIOUS
<1>1. ASSUME NEW h \in Handlers, Start(h) PROVE IInv'
  <2>1. PICK script \in Scripts :
          /\ rest[h] = <<>> /\ rest' = [rest EXCEPT ![h] = script]
          /\ UNCHANGED <<held, permits, queue>>
    BY <1>1 DEF Start
  <2>2. Fits(h) /\ ~Waiting(h) /\ held[h] = 0
    BY <2>1, HandlersFit, NothingLeft, Zenon DEF Fits
  <2>. QED BY <2>1, <2>2, ScriptsAreBalanced, MovesOnKeeps
<1>2. ASSUME NEW h \in Handlers, Get(h) PROVE IInv'
  BY <1>2, GetKeeps
<1>3. ASSUME NEW h \in Handlers, Work(h) \/ ComeBack(h) PROVE IInv'
  <2>1. /\ rest[h] # <<>> /\ Head(rest[h]) \in {"work", "google"} /\ ~Waiting(h)
        /\ rest' = [rest EXCEPT ![h] = Tail(@)]
        /\ UNCHANGED <<held, permits, queue>>
    BY <1>3 DEF Work, ComeBack, AtGoogle, At
  <2>2. Fits(h)
    BY HandlersFit
  <2>3. Tail(rest[h]) \in Seq(Steps) /\ Balanced(Tail(rest[h]), held[h])
    BY <2>1, <2>2, TailIsBalanced DEF Fits
  <2>. QED BY <2>1, <2>3, MovesOnKeeps
<1>4. ASSUME NEW h \in Handlers, Put(h) PROVE IInv'
  <2>1. rest[h] # <<>> /\ Head(rest[h]) = "put" /\ ~Waiting(h)
    BY <1>4, Zenon DEF Put, At
  <2>2. Fits(h)
    BY HandlersFit
  <2>3. held[h] = 1 /\ Tail(rest[h]) \in Seq(Steps) /\ Balanced(Tail(rest[h]), 0)
    BY <2>1, <2>2, TailIsBalanced, Zenon DEF Fits
  <2>. QED BY <1>4, <2>1, <2>3, ReleaseKeeps, Zenon DEF Put
<1>5. ASSUME NEW h \in Handlers, Leave(h) PROVE IInv'
  <2>1. ~Waiting(h) /\ Release(h, held[h], <<>>)
    BY <1>5, Zenon DEF Leave, At
  <2>. QED BY <2>1, EmptySeq, NothingLeft, ReleaseKeeps
<1>6. CASE UNCHANGED vars
  BY <1>6 DEF vars, IInv, TypeOK, Waiting, Holders
<1>. QED BY <1>1, <1>2, <1>3, <1>4, <1>5, <1>6 DEF Next, Proceed

LEMMA Invariance == Spec => []IInv
BY Initially, StepsKeep, PTL DEF Spec

\* Whatever the size of the pool and however handlers end, no connection is lost
\* or made, and none lies idle while somebody waits for one (Data::database and
\* the guards of every handler).
THEOREM TypeCorrect == Spec => []TypeOK
<1>1. IInv => TypeOK
  BY DEF IInv
<1>. QED BY <1>1, Invariance, PTL

\* Nobody who waits for a connection holds one: no handler takes a second while
\* its first is in a variable.
THEOREM WaitWithEmptyHands == Spec => []WaitersHoldNothing
<1>1. IInv => WaitersHoldNothing
  BY HandlersFit DEF WaitersHoldNothing
<1>. QED BY <1>1, Invariance, PTL
=============================================================================
