--------------------------- MODULE DatabasePoolProofs ---------------------------
(***************************************************************************)
(* Proofs about DatabasePool: every connection is in one place, the pool   *)
(* does not shrink, and nobody is handed a connection found dead.          *)
(*                                                                         *)
(* Leaving one block and entering the next happen in one step (Reacquire), *)
(* so Places and Enough speak of any deque and any owners, also of those   *)
(* between the two halves of a step.                                       *)
(***************************************************************************)
EXTENDS DatabasePool, FiniteSetTheorems, SequenceTheorems, TLAPS

Owners(c) == {u \in User : c[u] # NoConn}

Places(q, c, exist) ==
  /\ q \in Seq(Conn) /\ Len(q) <= PoolSize
  /\ c \in [User -> Conn \cup {NoConn}]
  /\ \A i, j \in DOMAIN q : q[i] = q[j] => i = j
  /\ \A u \in Owners(c) : c[u] \notin Range(q)
  /\ \A u, v \in Owners(c) : c[u] = c[v] => u = v
  /\ exist = Range(q) \cup {c[u] : u \in Owners(c)}

Enough(q, c) == Len(q) + Cardinality(Owners(c)) >= PoolSize

-----------------------------------------------------------------------------
(***************************************************************************)
(* What the deque's operations do to the set of its members.               *)
(***************************************************************************)
LEMMA Appended ==
  ASSUME NEW q \in Seq(Conn), NEW x \in Conn, x \notin Range(q),
         \A i, j \in DOMAIN q : q[i] = q[j] => i = j
  PROVE  /\ Append(q, x) \in Seq(Conn) /\ Len(Append(q, x)) = Len(q) + 1
         /\ Range(Append(q, x)) = Range(q) \cup {x}
         /\ \A i, j \in DOMAIN Append(q, x) : Append(q, x)[i] = Append(q, x)[j] => i = j
<1> DEFINE p == Append(q, x)
<1>1. /\ p \in Seq(Conn) /\ Len(p) = Len(q) + 1 /\ p[Len(q) + 1] = x
      /\ \A i \in 1 .. Len(q) : p[i] = q[i]
  BY AppendProperties
<1>2. Len(q) \in Nat /\ DOMAIN q = 1 .. Len(q) /\ DOMAIN p = 1 .. Len(p)
  BY <1>1, LenProperties
<1> HIDE DEF p
<1>3. \A i \in DOMAIN p : i \in DOMAIN q \/ i = Len(q) + 1
  BY <1>1, <1>2
<1>4. DOMAIN q \subseteq DOMAIN p /\ Len(q) + 1 \in DOMAIN p
  BY <1>1, <1>2
<1>5. \A i \in DOMAIN q : p[i] = q[i] /\ p[i] \in Range(q)
  BY <1>1, <1>2 DEF Range
<1>6. Range(p) = Range(q) \cup {x}
  BY <1>1, <1>3, <1>4, <1>5 DEF Range
<1>7. \A i, j \in DOMAIN p : p[i] = p[j] => i = j
  BY <1>1, <1>3, <1>5
<1>8. QED BY <1>1, <1>6, <1>7 DEF p

LEMMA Popped ==
  ASSUME NEW q \in Seq(Conn), q # <<>>,
         \A i, j \in DOMAIN q : q[i] = q[j] => i = j
  PROVE  /\ Tail(q) \in Seq(Conn) /\ Len(Tail(q)) = Len(q) - 1 /\ Len(q) \in Nat
         /\ Head(q) \in Conn /\ Head(q) \in Range(q)
         /\ Range(Tail(q)) = Range(q) \ {Head(q)}
         /\ \A i, j \in DOMAIN Tail(q) : Tail(q)[i] = Tail(q)[j] => i = j
<1> DEFINE p == Tail(q)
<1>1. /\ p \in Seq(Conn) /\ Len(p) = Len(q) - 1 /\ Head(q) \in Conn
      /\ \A i \in 1 .. Len(p) : p[i] = q[i + 1]
  BY HeadTailProperties
<1>2. Len(q) \in Nat \ {0} /\ DOMAIN q = 1 .. Len(q) /\ DOMAIN p = 1 .. Len(p)
  BY <1>1, LenProperties, EmptySeq
<1>3. Head(q) = q[1] OBVIOUS
<1> HIDE DEF p
<1>4. 1 \in DOMAIN q /\ \A i \in DOMAIN p : i + 1 \in DOMAIN q /\ i + 1 # 1 /\ p[i] = q[i + 1]
  BY <1>1, <1>2
<1>5. \A i \in DOMAIN q : i # 1 => i - 1 \in DOMAIN p /\ p[i - 1] = q[i]
  BY <1>1, <1>2
<1>6. Range(p) = Range(q) \ {q[1]}
  <2>1. Range(p) \subseteq Range(q) \ {q[1]} BY <1>4 DEF Range
  <2>2. Range(q) \ {q[1]} \subseteq Range(p) BY <1>5 DEF Range
  <2>3. QED BY <2>1, <2>2
<1>7. \A i, j \in DOMAIN p : p[i] = p[j] => i = j
  <2>1. SUFFICES ASSUME NEW i \in DOMAIN p, NEW j \in DOMAIN p, p[i] = p[j] PROVE i = j
    OBVIOUS
  <2>2. i + 1 = j + 1 BY <1>4, <2>1
  <2>3. QED BY <1>2, <2>2
<1>8. QED BY <1>1, <1>2, <1>3, <1>4, <1>6, <1>7 DEF p, Range

-----------------------------------------------------------------------------
(***************************************************************************)
(* How many connections are in use.                                        *)
(***************************************************************************)
LEMMA OwnersFinite ==
  ASSUME NEW c
  PROVE  IsFiniteSet(Owners(c)) /\ Cardinality(Owners(c)) \in Nat
<1>1. Owners(c) \in SUBSET User BY DEF Owners
<1>2. IsFiniteSet(Owners(c)) BY <1>1, PoolAssumption, FS_Subset
<1>3. QED BY <1>2, FS_CardinalityType

LEMMA OwnersGain ==
  ASSUME NEW c, NEW d, NEW u \in User, d[u] # NoConn,
         \A v \in User : v # u => d[v] = c[v]
  PROVE  /\ Owners(d) = Owners(c) \cup {u}
         /\ Cardinality(Owners(c)) \in Nat
         /\ c[u] = NoConn => Cardinality(Owners(d)) = Cardinality(Owners(c)) + 1
         /\ c[u] # NoConn => Cardinality(Owners(d)) = Cardinality(Owners(c))
<1>1. Owners(d) = Owners(c) \cup {u} BY DEF Owners
<1>2. u \in Owners(c) <=> c[u] # NoConn BY DEF Owners
<1>3. /\ u \notin Owners(c) => Cardinality(Owners(d)) = Cardinality(Owners(c)) + 1
      /\ u \in Owners(c) => Cardinality(Owners(d)) = Cardinality(Owners(c))
  BY <1>1, OwnersFinite, FS_AddElement
<1>4. QED BY <1>1, <1>2, <1>3, OwnersFinite

LEMMA OwnersLoss ==
  ASSUME NEW c, NEW d, NEW u \in User, c[u] # NoConn, d[u] = NoConn,
         \A v \in User : v # u => d[v] = c[v]
  PROVE  /\ Owners(d) = Owners(c) \ {u}
         /\ Cardinality(Owners(c)) \in Nat
         /\ Cardinality(Owners(d)) = Cardinality(Owners(c)) - 1
<1>1. Owners(d) = Owners(c) \ {u} /\ u \in Owners(c) BY DEF Owners
<1>2. Cardinality(Owners(d)) = Cardinality(Owners(c)) - 1
  BY <1>1, OwnersFinite, FS_RemoveElement
<1>3. QED BY <1>1, <1>2, OwnersFinite

-----------------------------------------------------------------------------
(***************************************************************************)
(* The halves of the steps.                                                *)
(***************************************************************************)

\* A connection goes from the deque to a user that had none.
LEMMA HandOver ==
  ASSUME NEW q, NEW c, NEW exist, Places(q, c, exist), NEW u \in User, c[u] = NoConn,
         NEW x \in Conn, NEW p \in Seq(Conn), NEW d \in [User -> Conn \cup {NoConn}],
         x \in Range(q), Range(p) = Range(q) \ {x}, Len(q) \in Nat, Len(p) = Len(q) - 1,
         \A i, j \in DOMAIN p : p[i] = p[j] => i = j,
         d[u] = x, \A v \in User : v # u => d[v] = c[v]
  PROVE  Places(p, d, exist) /\ (Enough(q, c) => Enough(p, d))
<1>1. x # NoConn BY PoolAssumption
<1>2. /\ Owners(d) = Owners(c) \cup {u} /\ Cardinality(Owners(c)) \in Nat
      /\ Cardinality(Owners(d)) = Cardinality(Owners(c)) + 1
  BY <1>1, OwnersGain
<1>3. \A v \in Owners(c) : v # u /\ d[v] = c[v]
  BY DEF Owners
<1>4. {d[v] : v \in Owners(d)} = {c[v] : v \in Owners(c)} \cup {x}
  BY <1>2, <1>3
<1>5. exist = Range(p) \cup {d[v] : v \in Owners(d)}
  BY <1>4 DEF Places
<1>6. \A v \in Owners(d) : d[v] \notin Range(p)
  BY <1>2, <1>3 DEF Places
<1>7. \A v, w \in Owners(d) : d[v] = d[w] => v = w
  BY <1>2, <1>3 DEF Places
<1>8. Len(p) <= PoolSize BY PoolAssumption DEF Places
<1>9. Enough(q, c) => Enough(p, d) BY <1>2, PoolAssumption DEF Enough
<1>10. QED BY <1>5, <1>6, <1>7, <1>8, <1>9 DEF Places

\* A user without a connection takes one from the deque, if there is one.
LEMMA TakeOK ==
  ASSUME NEW q, NEW c, NEW exist, Places(q, c, exist), NEW u \in User, c[u] = NoConn,
         NEW p, NEW d,
         p = IF q = <<>> THEN q ELSE Tail(q),
         d = [c EXCEPT ![u] = IF q = <<>> THEN NoConn ELSE Head(q)]
  PROVE  Places(p, d, exist) /\ (Enough(q, c) => Enough(p, d))
<1>1. CASE q = <<>>
  <2>1. d = c BY <1>1 DEF Places
  <2>2. QED BY <1>1, <2>1
<1>2. CASE q # <<>>
  <2>1. /\ p \in Seq(Conn) /\ Len(p) = Len(q) - 1 /\ Len(q) \in Nat
        /\ Head(q) \in Conn /\ Head(q) \in Range(q) /\ Range(p) = Range(q) \ {Head(q)}
        /\ \A i, j \in DOMAIN p : p[i] = p[j] => i = j
    BY <1>2, Popped DEF Places
  <2>2. /\ d \in [User -> Conn \cup {NoConn}] /\ d[u] = Head(q)
        /\ \A v \in User : v # u => d[v] = c[v]
    BY <1>2, <2>1 DEF Places
  <2>3. QED BY <2>1, <2>2, HandOver
<1>3. QED BY <1>1, <1>2

\* A user with a connection gives it back, or it is closed.
LEMMA LeaveOK ==
  ASSUME NEW u \in User, Places(idle, conn, open), conn[u] # NoConn
  PROVE  LET q == AfterRelease(u)
             c == [conn EXCEPT ![u] = NoConn]
             dropped == IF Len(idle) < PoolSize THEN {} ELSE {conn[u]}
         IN /\ Places(q, c, open \ dropped)
            /\ Enough(idle, conn) => Enough(q, c)
<1> DEFINE x == conn[u]
           q == AfterRelease(u)
           c == [conn EXCEPT ![u] = NoConn]
           dropped == IF Len(idle) < PoolSize THEN {} ELSE {x}
<1>1. /\ x \in Conn /\ x \notin Range(idle) /\ u \in Owners(conn)
      /\ Len(idle) \in Nat /\ Len(idle) <= PoolSize
  BY LenProperties DEF Places, Owners
<1>0. /\ c \in [User -> Conn \cup {NoConn}] /\ c[u] = NoConn
      /\ \A v \in User : v # u => c[v] = conn[v]
  BY DEF Places
<1>2. /\ c \in [User -> Conn \cup {NoConn}] /\ Owners(c) = Owners(conn) \ {u}
      /\ \A v \in User : v # u => c[v] = conn[v]
      /\ Cardinality(Owners(conn)) \in Nat
      /\ Cardinality(Owners(c)) = Cardinality(Owners(conn)) - 1
  BY <1>0, OwnersLoss
<1>3. \A v \in Owners(c) : v \in Owners(conn) /\ v # u /\ c[v] = conn[v] /\ conn[v] # x
  BY <1>1, <1>2 DEF Places, Owners
<1> HIDE DEF c
<1>4. {conn[v] : v \in Owners(conn)} = {c[v] : v \in Owners(c)} \cup {x}
  BY <1>1, <1>2, <1>3
<1>5. \A v, w \in Owners(c) : c[v] = c[w] => v = w
  BY <1>2, <1>3 DEF Places
<1>6. CASE Len(idle) < PoolSize
  <2>1. /\ q \in Seq(Conn) /\ Len(q) = Len(idle) + 1 /\ Range(q) = Range(idle) \cup {x}
        /\ \A i, j \in DOMAIN q : q[i] = q[j] => i = j
    BY <1>1, <1>6, Appended DEF Places, AfterRelease
  <2>2. Len(q) <= PoolSize BY <1>1, <1>6, <2>1, PoolAssumption
  <2> HIDE DEF q
  <2>3. \A v \in Owners(c) : c[v] \notin Range(q)
    BY <1>2, <1>3, <2>1 DEF Places
  <2>4. open \ dropped = Range(q) \cup {c[v] : v \in Owners(c)}
    BY <1>4, <1>6, <2>1 DEF Places
  <2>5. Enough(idle, conn) => Enough(q, c) BY <1>1, <1>2, <2>1, PoolAssumption DEF Enough
  <2>6. QED BY <1>2, <1>5, <2>1, <2>2, <2>3, <2>4, <2>5 DEF Places, q, c
<1>7. CASE ~(Len(idle) < PoolSize)
  <2>1. q = idle BY <1>7 DEF AfterRelease
  <2>2. \A v \in Owners(c) : c[v] \notin Range(q)
    BY <1>2, <1>3, <2>1 DEF Places
  <2>3. open \ dropped = Range(q) \cup {c[v] : v \in Owners(c)}
    <3>1. open = Range(idle) \cup {c[v] : v \in Owners(c)} \cup {x} BY <1>4 DEF Places
    <3>2. x \notin {c[v] : v \in Owners(c)} BY <1>3
    <3>3. dropped = {x} BY <1>7
    <3> HIDE DEF dropped, x
    <3>4. QED BY <1>1, <2>1, <3>1, <3>2, <3>3
  <2>4. Enough(q, c) BY <1>1, <1>7, <2>1, OwnersFinite, PoolAssumption DEF Enough
  <2>5. QED BY <1>2, <1>5, <2>1, <2>2, <2>3, <2>4 DEF Places, c
<1>8. QED BY <1>6, <1>7

\* A user gets a new connection, in place of the one it had.
LEMMA ConnectOK ==
  ASSUME NEW u \in User, NEW x \in Conn \ open, Places(idle, conn, open)
  PROVE  LET c == [conn EXCEPT ![u] = x]
         IN /\ Places(idle, c, (open \ {conn[u]}) \cup {x})
            /\ Enough(idle, conn) => Enough(idle, c)
<1> DEFINE c == [conn EXCEPT ![u] = x]
<1>1. x # NoConn /\ NoConn \notin Range(idle) /\ Range(idle) \subseteq Conn
  BY PoolAssumption, LenProperties, ElementOfSeq DEF Places, Range
<1>0. /\ c \in [User -> Conn \cup {NoConn}] /\ c[u] = x
      /\ \A v \in User : v # u => c[v] = conn[v]
  BY DEF Places
<1>2. /\ c \in [User -> Conn \cup {NoConn}] /\ Owners(c) = Owners(conn) \cup {u}
      /\ c[u] = x /\ \A v \in User : v # u => c[v] = conn[v]
      /\ Cardinality(Owners(conn)) \in Nat
      /\ Cardinality(Owners(c)) \in {Cardinality(Owners(conn)), Cardinality(Owners(conn)) + 1}
  BY <1>0, <1>1, OwnersGain
<1>3. \A v \in Owners(conn) : v # u => c[v] = conn[v]
  BY <1>2 DEF Owners
<1> HIDE DEF c
<1>4. \A v \in Owners(conn) : v # u => conn[v] # conn[u]
  BY DEF Places, Owners
<1>5. conn[u] \notin Range(idle)
  BY <1>1 DEF Places, Owners
<1>6. \A v \in Owners(c) : c[v] \notin Range(idle)
  BY <1>2, <1>3 DEF Places
<1>7. \A v, w \in Owners(c) : c[v] = c[w] => v = w
  BY <1>2, <1>3 DEF Places
<1>8. (open \ {conn[u]}) \cup {x} = Range(idle) \cup {c[v] : v \in Owners(c)}
  <2>1. ASSUME NEW y \in open, y # conn[u]
        PROVE  y \in Range(idle) \/ \E v \in Owners(c) : y = c[v]
    BY <1>2, <1>3, <2>1 DEF Places
  <2>2. x \in {c[v] : v \in Owners(c)} BY <1>2, <1>3
  <2>3. \A v \in Owners(c) : v # u => c[v] \in open \ {conn[u]}
    BY <1>2, <1>3, <1>4 DEF Places
  <2>4. Range(idle) \subseteq open \ {conn[u]} BY <1>5 DEF Places
  <2>5. QED BY <1>2, <2>1, <2>2, <2>3, <2>4
<1>9. Enough(idle, conn) => Enough(idle, c)
  BY <1>2, LenProperties, PoolAssumption DEF Enough, Places
<1>10. QED BY <1>2, <1>6, <1>7, <1>8, <1>9 DEF Places, c

-----------------------------------------------------------------------------
(***************************************************************************)
(* The inductive invariant.  A user has a connection unless it is outside  *)
(* or waits for a first one, and is inside only while the pool runs; the   *)
(* pool runs from the moment in which the deque is full.                   *)
(***************************************************************************)
Stages ==
  /\ phase \in {"starting", "failed", "running", "closed"}
  /\ stage \in [User -> {"out", "creating", "reconnecting", "using"}]
  /\ stale \subseteq open
  /\ \A u \in User : conn[u] = NoConn <=> stage[u] \in {"out", "creating"}
  /\ \A u \in User : stage[u] # "out" => phase = "running"

Filling ==
  /\ phase = "starting" => Len(idle) < PoolSize
  /\ phase = "running" => Enough(idle, conn)
  /\ phase = "closed" => open = {}

IInv == Places(idle, conn, open) /\ Stages /\ Filling

LEMMA InvMeaning == IInv => TypeOK /\ InOnePlace /\ NeverShrinks
<1> SUFFICES ASSUME IInv PROVE TypeOK /\ InOnePlace /\ NeverShrinks
  OBVIOUS
<1>1. Owners(conn) = Holders BY DEF Owners, Holders
<1>2. open \subseteq Conn
  <2>1. Range(idle) \subseteq Conn
    BY LenProperties, ElementOfSeq DEF IInv, Places, Range
  <2>2. \A u \in Owners(conn) : conn[u] \in Conn BY DEF IInv, Places, Owners
  <2>3. QED BY <2>1, <2>2 DEF IInv, Places
<1>3. TypeOK BY <1>2 DEF IInv, Places, Stages, TypeOK
<1>4. InOnePlace BY <1>1 DEF IInv, Places, Filling, InOnePlace
<1>5. NeverShrinks BY <1>1 DEF IInv, Places, Filling, Enough, NeverShrinks
<1>6. QED BY <1>3, <1>4, <1>5

LEMMA InvInit == Init => IInv
<1> SUFFICES ASSUME Init PROVE IInv
  OBVIOUS
<1> USE DEF Init, PoolInit
<1>1. idle \in Seq(Conn) /\ Len(idle) = 0 /\ DOMAIN idle = {} BY EmptySeq
<1>2. Range(idle) = {} BY <1>1 DEF Range
<1>3. Owners(conn) = {} BY DEF Owners
<1>4. Places(idle, conn, open) BY <1>1, <1>2, <1>3, PoolAssumption DEF Places
<1>5. Stages BY DEF Stages
<1>6. Filling BY <1>1, OwnersFinite, PoolAssumption DEF Filling, Enough
<1>7. QED BY <1>4, <1>5, <1>6 DEF IInv

LEMMA PopulateOK == IInv /\ Populate => IInv'
<1> SUFFICES ASSUME IInv, Populate PROVE IInv'
  OBVIOUS
<1>1. PICK x \in Conn \ open : idle' = Append(idle, x) /\ open' = open \cup {x}
  BY DEF Populate
<1>2. /\ stale' = stale /\ stage' = stage /\ conn' = conn /\ phase = "starting"
      /\ phase' = IF Len(idle) + 1 = PoolSize THEN "running" ELSE phase
  BY DEF Populate
<1>3. Owners(conn) = {} /\ \A u \in User : stage[u] = "out"
  BY <1>2 DEF IInv, Stages, Owners
<1>4. x \notin Range(idle) BY DEF IInv, Places
<1>5. /\ idle' \in Seq(Conn) /\ Len(idle') = Len(idle) + 1
      /\ Range(idle') = Range(idle) \cup {x}
      /\ \A i, j \in DOMAIN idle' : idle'[i] = idle'[j] => i = j
  BY <1>1, <1>4, Appended DEF IInv, Places
<1>6. Len(idle) \in Nat /\ Len(idle) < PoolSize
  BY <1>2, LenProperties DEF IInv, Places, Filling
<1>7. Places(idle, conn, open)'
  BY <1>1, <1>2, <1>3, <1>5, <1>6, PoolAssumption DEF IInv, Places, Owners
<1>8. Stages' BY <1>1, <1>2, <1>3 DEF IInv, Stages
<1>9. Filling'
  <2>1. Cardinality(Owners(conn')) \in Nat BY OwnersFinite
  <2>2. QED BY <1>2, <1>5, <1>6, <2>1, PoolAssumption DEF Filling, Enough
<1>10. QED BY <1>7, <1>8, <1>9 DEF IInv

LEMMA AcquireOK == \A u \in User : IInv /\ Acquire(u) => IInv'
<1> SUFFICES ASSUME IInv, NEW u \in User, Acquire(u) PROVE IInv'
  OBVIOUS
<1> USE DEF Acquire, Take
<1>1. conn[u] = NoConn BY DEF IInv, Stages
<1>2. Places(idle', conn', open) /\ (Enough(idle, conn) => Enough(idle', conn'))
  BY <1>1, TakeOK DEF IInv
<1>3. \A v \in User : v # u => conn'[v] = conn[v] /\ stage'[v] = stage[v]
  BY DEF IInv, Places, Stages
<1>4. conn'[u] = NoConn <=> stage'[u] \in {"out", "creating"}
  <2>1. idle # <<>> => Head(idle) # NoConn
    BY Popped, PoolAssumption DEF IInv, Places
  <2>2. QED BY <2>1 DEF IInv, Places, Stages
<1>5. Stages' BY <1>3, <1>4 DEF IInv, Stages
<1>6. QED BY <1>2, <1>5 DEF IInv, Stages, Filling

LEMMA LeaveInv ==
  ASSUME IInv, NEW u \in User, conn[u] # NoConn, Leave(u)
  PROVE  IInv'
<1> USE DEF Leave, CloseOverflow
<1>1. Places(idle, conn, open)' /\ (Enough(idle, conn) => Enough(idle, conn)')
  BY LeaveOK DEF IInv
<1>2. phase = "running" /\ phase' = phase BY DEF IInv, Stages
<1>3. Stages' BY DEF IInv, Stages, Places
<1>4. QED BY <1>1, <1>2, <1>3 DEF IInv, Filling

LEMMA ReacquireOK == \A u \in User : IInv /\ Reacquire(u) => IInv'
<1> SUFFICES ASSUME IInv, NEW u \in User, Reacquire(u) PROVE IInv'
  OBVIOUS
<1> USE DEF Reacquire, Take, CloseOverflow
<1> DEFINE q == AfterRelease(u)
           c == [conn EXCEPT ![u] = NoConn]
<1>1. conn[u] # NoConn /\ phase = "running" /\ phase' = phase BY DEF IInv, Stages
<1>2. Places(q, c, open') /\ (Enough(idle, conn) => Enough(q, c))
  BY <1>1, LeaveOK DEF IInv
<1>3. c[u] = NoConn BY DEF IInv, Places
<1>4. conn' = [c EXCEPT ![u] = IF q = <<>> THEN NoConn ELSE Head(q)]
  BY DEF IInv, Places
<1>5. idle' = IF q = <<>> THEN q ELSE Tail(q) OBVIOUS
<1> HIDE DEF q, c
<1>6. Places(idle, conn, open)' /\ (Enough(q, c) => Enough(idle, conn)')
  BY <1>2, <1>3, <1>4, <1>5, TakeOK
<1> USE DEF q, c
<1>7. \A v \in User : v # u => conn'[v] = conn[v] /\ stage'[v] = stage[v]
  BY DEF IInv, Places, Stages
<1>8. conn'[u] = NoConn <=> stage'[u] \in {"out", "creating"}
  <2>1. q # <<>> => Head(q) # NoConn
    BY <1>2, Popped, PoolAssumption DEF Places
  <2>2. QED BY <2>1 DEF IInv, Places, Stages
<1>9. Stages' BY <1>1, <1>7, <1>8 DEF IInv, Stages
<1>10. QED BY <1>1, <1>2, <1>6, <1>9 DEF IInv, Filling

LEMMA ConnectedOK == \A u \in User : IInv /\ Connected(u) => IInv'
<1> SUFFICES ASSUME IInv, NEW u \in User, Connected(u) PROVE IInv'
  OBVIOUS
<1>1. PICK x \in Conn \ open :
        /\ conn' = [conn EXCEPT ![u] = x]
        /\ open' = (open \ {conn[u]}) \cup {x}
        /\ \/ /\ stage[u] \in {"creating", "reconnecting"}
              /\ stage' = [stage EXCEPT ![u] = "using"]
              /\ stale' = stale \ {conn[u]}
           \/ /\ stage[u] = "creating"
              /\ stage' = [stage EXCEPT ![u] = "reconnecting"]
              /\ stale' = stale \cup {x}
  BY DEF Connected
<1>2. phase' = phase /\ idle' = idle /\ phase = "running" /\ x # NoConn
  BY <1>1, PoolAssumption DEF Connected, IInv, Stages
<1>3. Places(idle, conn, open)' /\ (Enough(idle, conn) => Enough(idle, conn)')
  BY <1>1, <1>2, ConnectOK DEF IInv
<1>4. stale' \subseteq open'
  <2>1. CASE stage[u] = "creating"
    <3>1. conn[u] \notin open
      BY <2>1, InvMeaning, PoolAssumption DEF IInv, Stages, TypeOK
    <3>2. QED BY <1>1, <3>1 DEF IInv, Stages
  <2>2. CASE stage[u] # "creating" BY <1>1, <2>2 DEF IInv, Stages
  <2>3. QED BY <2>1, <2>2
<1>5. Stages' BY <1>1, <1>2, <1>4 DEF IInv, Stages, Places
<1>6. QED BY <1>2, <1>3, <1>5 DEF IInv, Filling

LEMMA CloseOK == IInv /\ Close => IInv'
<1> SUFFICES ASSUME IInv, Close PROVE IInv'
  OBVIOUS
<1> USE DEF Close
<1>1. Owners(conn) = {} BY DEF IInv, Stages, Owners
<1>2. open' = {} BY <1>1 DEF IInv, Places
<1>3. idle' \in Seq(Conn) /\ Len(idle') = 0 /\ DOMAIN idle' = {} BY EmptySeq
<1>4. Range(idle') = {} BY <1>3 DEF Range
<1>5. Places(idle, conn, open)'
  BY <1>1, <1>2, <1>3, <1>4, PoolAssumption DEF IInv, Places
<1>6. Stages' BY <1>2 DEF IInv, Stages
<1>7. QED BY <1>2, <1>5, <1>6 DEF IInv, Filling

LEMMA InvStep == IInv /\ [Next]_poolVars => IInv'
<1> SUFFICES ASSUME IInv, [Next]_poolVars PROVE IInv'
  OBVIOUS
<1>1. CASE Populate BY <1>1, PopulateOK
<1>2. CASE PopulateFails
  BY <1>2 DEF PopulateFails, IInv, Places, Stages, Filling
<1>3. ASSUME NEW u \in User, Release(u) PROVE IInv'
  BY <1>3, LeaveInv DEF Release, IInv, Stages
<1>4. ASSUME NEW u \in User, Refused(u) PROVE IInv'
  <2>1. CASE stage[u] = "reconnecting" /\ Leave(u)
    BY <2>1, LeaveInv DEF IInv, Stages
  <2>2. CASE stage[u] = "creating" /\ stage' = [stage EXCEPT ![u] = "out"]
             /\ UNCHANGED <<phase, idle, open, stale, conn>>
    BY <2>2 DEF IInv, Stages, Filling
  <2>3. QED BY <1>4, <2>1, <2>2 DEF Refused
<1>5. CASE GoesStale
  BY <1>5 DEF GoesStale, IInv, Stages, Filling
<1>6. CASE Close BY <1>6, CloseOK
<1>7. CASE UNCHANGED poolVars
  BY <1>7 DEF poolVars, IInv, Places, Stages, Filling, Enough, Owners
<1>8. QED BY <1>1, <1>2, <1>3, <1>4, <1>5, <1>6, <1>7, AcquireOK, ReacquireOK, ConnectedOK DEF Next

LEMMA Inductive == Spec => []IInv
BY InvInit, InvStep, PTL DEF Spec

-----------------------------------------------------------------------------
\* Every reachable state of the pool is well typed.
THEOREM TypeCorrect == Spec => []TypeOK
BY Inductive, InvMeaning, PTL

\* Every open connection is in the deque or with one user, and nowhere else, whatever
\* dies and whatever fails (database.py:56-89).
THEOREM InOnePlaceHolds == Spec => []InOnePlace
BY Inductive, InvMeaning, PTL

\* The pool keeps its size: what users and the deque have is never less
\* (database.py:69-85).
THEOREM NeverShrinksHolds == Spec => []NeverShrinks
BY Inductive, InvMeaning, PTL

\* No user is handed a connection that was found dead (database.py:69-77).
THEOREM HandedOutAliveHolds == Spec => HandedOutAlive
<1>1. ASSUME IInv, [Next]_poolVars, NEW u \in User, stage[u] # "using", stage'[u] = "using"
      PROVE  conn'[u] \notin stale'
  <2> USE <1>1 DEF IInv, Stages, Places
  <2>1. ASSUME NEW v \in User, Acquire(v) PROVE conn'[u] \notin stale'
    BY <2>1 DEF Acquire, Take
  <2>2. ASSUME NEW v \in User, Connected(v) PROVE conn'[u] \notin stale'
    BY <2>2 DEF Connected
  <2>3. ASSUME NEW v \in User, Reacquire(v) PROVE FALSE
    BY <2>3 DEF Reacquire, Take
  <2>4. ASSUME NEW v \in User, Release(v) \/ Refused(v) PROVE FALSE
    BY <2>4 DEF Release, Refused, Leave
  <2>5. CASE Populate \/ PopulateFails \/ GoesStale \/ Close \/ UNCHANGED poolVars
    BY <2>5 DEF Populate, PopulateFails, GoesStale, Close, poolVars
  <2>6. QED BY <2>1, <2>2, <2>3, <2>4, <2>5 DEF Next
<1>2. IInv /\ [Next]_poolVars =>
        [\A u \in User : stage[u] # "using" /\ stage'[u] = "using" => conn'[u] \notin stale']_poolVars
  BY <1>1
<1>3. QED BY <1>2, Inductive, PTL DEF Spec, HandedOutAlive
=============================================================================
