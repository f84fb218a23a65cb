------------------------- MODULE CollectorFeedProofs -------------------------
(***************************************************************************)
(* The collection manager keeps what its web socket promises, for any      *)
(* number of requests, tasks, browsers, proxies and configs.  Table and    *)
(* broadcast are two separate holds of the lock, so several broadcasts of  *)
(* one id may wait in its queue.  What makes the promise inductive is that *)
(* they are a chain of legal changes, which goes from what was broadcast   *)
(* last to what the table says now.  Nor is a browser left with a wrong    *)
(* picture: whom no news of an id is still to reach knows whether it runs. *)
(***************************************************************************)
EXTENDS CollectorFeed, BackgroundCollectorProofs

\* x is ahead of y.
Before(q, x, y) == \E i, j \in DOMAIN q : i < j /\ q[i] = x /\ q[j] = y

\* What CollectionFeed allows to follow.
Legal(a, b) ==
    \/ a = "stopped" /\ b = "started"
    \/ a \in {"started", "completed", "error"} /\ b = "collecting"
    \/ a = "collecting" /\ b \in {"completed", "error"}
    \/ a # "stopped" /\ b = "stopped"

\* Those that wait to broadcast about t.
Pending(t) == {p \in Workers : pc[p] = "cast" /\ tid[p] = t /\ Queued(lockQ, p)}

\* m is what the table and its Task have said of t, broadcast or not.
LastWord(t, m) ==
    IF running[t] = Nobody THEN m = "stopped"
    ELSE IF pc[running[t]] = "new" THEN m = "started" ELSE m = msg[running[t]]

(***************************************************************************)
(* The chain of the broadcasts to come about t.                            *)
(***************************************************************************)
FirstInv(t) ==
    \A p \in Pending(t) :
        (\A q \in Pending(t) \ {p} : Before(lockQ, p, q)) => Legal(feed[t], msg[p])

NextOneInv(t) ==
    \A p, q \in Pending(t) :
        Before(lockQ, p, q) =>
            \/ \E r \in Pending(t) : Before(lockQ, p, r) /\ Before(lockQ, r, q)
            \/ Legal(msg[p], msg[q])

LastInv(t) ==
    /\ Pending(t) = {} => LastWord(t, feed[t])
    /\ \A p \in Pending(t) :
          (\A q \in Pending(t) \ {p} : Before(lockQ, q, p)) => LastWord(t, msg[p])

\* The Task's own broadcast is the last of its id.
TaskInv(t) ==
    \A k \in Tasks \cap Pending(t) : \A q \in Pending(t) \ {k} : Before(lockQ, q, k)

ChainOf(t) == FirstInv(t) /\ NextOneInv(t) /\ LastInv(t) /\ TaskInv(t)

Chain == \A t \in TaskIds : ChainOf(t)

\* A Task that is to broadcast waits for the lock, unless it was cancelled.
WaitInv == \A k \in Tasks \ cancelled : pc[k] = "cast" => Queued(lockQ, k)

\* A Task remembers what it broadcast last.
WordInv ==
    \A k \in Tasks :
        /\ pc[k] \in {"collect", "gather"} => msg[k] = "collecting"
        /\ pc[k] = "sleep" => msg[k] \in {"completed", "error"}

FeedType == feed \in [TaskIds -> Statuses]

FeedParts == FeedType /\ Chain /\ WaitInv /\ WordInv

FeedInv == IInv /\ FeedParts

-----------------------------------------------------------------------------
(* The order of the queue.                                                 *)

LEMMA OrderFacts ==
    ASSUME NEW S, NEW q \in Seq(S), Injective(q)
    PROVE  /\ \A x, y : Before(q, x, y) => Queued(q, x) /\ Queued(q, y) /\ x # y
           /\ \A x, y : Queued(q, x) /\ Queued(q, y) /\ x # y =>
                 Before(q, x, y) \/ Before(q, y, x)
           /\ \A x, y : ~(Before(q, x, y) /\ Before(q, y, x))
           /\ \A x, y, z : Before(q, x, y) /\ Before(q, y, z) => Before(q, x, z)
           /\ \A x : q # <<>> /\ Queued(q, x) /\ x # q[1] => Before(q, q[1], x)
<1>1. DOMAIN q = 1 .. Len(q) /\ Len(q) \in Nat
  OBVIOUS
<1>2. ASSUME NEW x, NEW y, Before(q, x, y)
      PROVE  Queued(q, x) /\ Queued(q, y) /\ x # y /\ ~Before(q, y, x)
  <2>1. PICK i, j \in DOMAIN q : i < j /\ q[i] = x /\ q[j] = y
    BY <1>2 DEF Before
  <2>2. ~Before(q, y, x)
    <3>1. ASSUME NEW m \in DOMAIN q, NEW n \in DOMAIN q, m < n, q[m] = y, q[n] = x
          PROVE  FALSE
      <4>1. m = j /\ n = i
        BY <2>1, <3>1 DEF Injective
      <4> QED BY <1>1, <2>1, <3>1, <4>1
    <3> QED BY <3>1 DEF Before
  <2>3. x # y
    BY <1>1, <2>1 DEF Injective
  <2> QED BY <2>1, <2>2, <2>3 DEF Queued
<1>3. ASSUME NEW x, NEW y, Queued(q, x), Queued(q, y), x # y
      PROVE  Before(q, x, y) \/ Before(q, y, x)
  <2>1. PICK i \in DOMAIN q, j \in DOMAIN q : q[i] = x /\ q[j] = y
    BY <1>3 DEF Queued
  <2>2. i < j \/ j < i
    BY <1>1, <1>3, <2>1
  <2> QED BY <2>1, <2>2 DEF Before
<1>4. ASSUME NEW x, NEW y, NEW z, Before(q, x, y), Before(q, y, z)
      PROVE  Before(q, x, z)
  <2>1. PICK i, j \in DOMAIN q : i < j /\ q[i] = x /\ q[j] = y
    BY <1>4 DEF Before
  <2>2. PICK m, n \in DOMAIN q : m < n /\ q[m] = y /\ q[n] = z
    BY <1>4 DEF Before
  <2>3. j = m
    BY <2>1, <2>2 DEF Injective
  <2>4. i < n
    BY <1>1, <2>1, <2>2, <2>3
  <2> QED BY <2>1, <2>2, <2>4 DEF Before
<1>5. ASSUME NEW x, q # <<>>, Queued(q, x), x # q[1]
      PROVE  Before(q, q[1], x)
  <2>1. PICK i \in DOMAIN q : q[i] = x
    BY <1>5 DEF Queued
  <2>2. 1 \in DOMAIN q /\ 1 < i
    BY <1>1, <1>5, <2>1
  <2> QED BY <2>1, <2>2 DEF Before
<1> QED BY <1>2, <1>3, <1>4, <1>5

\* Who joins is behind everybody; the others keep their order.
LEMMA EnqueueOrder ==
    ASSUME NEW S, NEW q \in Seq(S), NEW p \in S, ~Queued(q, p)
    PROVE  \A x, y : Before(Enqueue(q, p), x, y) <=>
                        Before(q, x, y) \/ (Queued(q, x) /\ y = p)
<1> DEFINE e == Append(q, p)
<1>1. /\ DOMAIN e = 1 .. Len(q) + 1 /\ Len(q) \in Nat
      /\ DOMAIN q = 1 .. Len(q)
      /\ e[Len(q) + 1] = p
      /\ \A i \in 1 .. Len(q) : e[i] = q[i]
  OBVIOUS
<1> HIDE DEF e
<1>2. ASSUME NEW x, NEW y, Before(e, x, y)
      PROVE  Before(q, x, y) \/ (Queued(q, x) /\ y = p)
  <2>1. PICK i, j \in DOMAIN e : i < j /\ e[i] = x /\ e[j] = y
    BY <1>2 DEF Before
  <2>2. i \in DOMAIN q /\ q[i] = x
    BY <1>1, <2>1
  <2>3. CASE j = Len(q) + 1
    BY <1>1, <2>1, <2>2, <2>3 DEF Queued
  <2>4. CASE j # Len(q) + 1
    <3>1. j \in DOMAIN q /\ q[j] = y
      BY <1>1, <2>1, <2>4
    <3> QED BY <2>1, <2>2, <3>1 DEF Before
  <2> QED BY <2>3, <2>4
<1>3. ASSUME NEW x, NEW y, Before(q, x, y)
      PROVE  Before(e, x, y)
  <2>1. PICK i, j \in DOMAIN q : i < j /\ q[i] = x /\ q[j] = y
    BY <1>3 DEF Before
  <2>2. i \in DOMAIN e /\ j \in DOMAIN e /\ e[i] = x /\ e[j] = y
    BY <1>1, <2>1
  <2> QED BY <2>1, <2>2 DEF Before
<1>4. ASSUME NEW x, Queued(q, x)
      PROVE  Before(e, x, p)
  <2>1. PICK i \in DOMAIN q : q[i] = x
    BY <1>4 DEF Queued
  <2>2. i \in DOMAIN e /\ Len(q) + 1 \in DOMAIN e /\ i < Len(q) + 1 /\ e[i] = x
    BY <1>1, <2>1
  <2> QED BY <1>1, <2>2 DEF Before
<1> QED BY <1>2, <1>3, <1>4 DEF Enqueue, e

\* Who leaves at the head changes nothing for the others.
LEMMA TailOrder ==
    ASSUME NEW S, NEW q \in Seq(S), q # <<>>, Injective(q)
    PROVE  \A x, y : Before(Tail(q), x, y) <=> Before(q, x, y) /\ x # q[1]
<1>1. Len(q) \in Nat \ {0} /\ DOMAIN q = 1 .. Len(q)
  OBVIOUS
<1>2. DOMAIN Tail(q) = 1 .. Len(q) - 1 /\ \A i \in DOMAIN Tail(q) : Tail(q)[i] = q[i + 1]
  OBVIOUS
<1>3. ASSUME NEW x, NEW y, Before(Tail(q), x, y)
      PROVE  Before(q, x, y) /\ x # q[1]
  <2>1. PICK i, j \in DOMAIN Tail(q) : i < j /\ Tail(q)[i] = x /\ Tail(q)[j] = y
    BY <1>3 DEF Before
  <2>2. /\ i + 1 \in DOMAIN q /\ j + 1 \in DOMAIN q /\ i + 1 < j + 1 /\ 1 \in DOMAIN q
        /\ i + 1 # 1
        /\ q[i + 1] = x /\ q[j + 1] = y
    BY <1>1, <1>2, <2>1
  <2> QED BY <2>2 DEF Before, Injective
<1>4. ASSUME NEW x, NEW y, Before(q, x, y), x # q[1]
      PROVE  Before(Tail(q), x, y)
  <2>1. PICK i, j \in DOMAIN q : i < j /\ q[i] = x /\ q[j] = y
    BY <1>4 DEF Before
  <2>2. /\ i - 1 \in DOMAIN Tail(q) /\ j - 1 \in DOMAIN Tail(q) /\ i - 1 < j - 1
        /\ Tail(q)[i - 1] = x /\ Tail(q)[j - 1] = y
    BY <1>1, <1>2, <1>4, <2>1
  <2> QED BY <2>2 DEF Before
<1> QED BY <1>3, <1>4

\* Nor does who leaves from the middle, as a cancelled waiter.
LEMMA WithoutOrder ==
    ASSUME NEW S, NEW q \in Seq(S), NEW p, Injective(q)
    PROVE  \A x, y : Before(Without(q, p), x, y) <=> Before(q, x, y) /\ x # p /\ y # p
<1>1. CASE ~Queued(q, p)
  BY <1>1 DEF Without, Queued, Before
<1>2. CASE Queued(q, p)
  <2> DEFINE i == CHOOSE j \in DOMAIN q : q[j] = p
             w == [j \in 1 .. Len(q) - 1 |-> IF j < i THEN q[j] ELSE q[j + 1]]
  <2>1. i \in DOMAIN q /\ q[i] = p /\ Without(q, p) = w
    BY <1>2 DEF Without, Queued
  <2> HIDE DEF i
  <2>2. i \in 1 .. Len(q) /\ Len(q) \in Nat /\ DOMAIN q = 1 .. Len(q)
    BY <2>1
  <2>3. DOMAIN w = 1 .. Len(q) - 1
    BY <2>2
  <2>4. \A j \in DOMAIN w : w[j] = IF j < i THEN q[j] ELSE q[j + 1]
    BY <2>3
  <2> HIDE DEF w
  <2> DEFINE up(j) == IF j < i THEN j ELSE j + 1
             down(j) == IF j < i THEN j ELSE j - 1
  <2>5. ASSUME NEW x, NEW y, Before(w, x, y)
        PROVE  Before(q, x, y) /\ x # p /\ y # p
    <3>1. PICK m, n \in DOMAIN w : m < n /\ w[m] = x /\ w[n] = y
      BY <2>5 DEF Before
    <3>2. /\ up(m) \in DOMAIN q /\ up(n) \in DOMAIN q /\ up(m) < up(n)
          /\ up(m) # i /\ up(n) # i
          /\ q[up(m)] = x /\ q[up(n)] = y
      BY <2>2, <2>3, <2>4, <3>1
    <3> HIDE DEF up
    <3> QED BY <2>1, <3>2 DEF Before, Injective
  <2>6. ASSUME NEW x, NEW y, Before(q, x, y), x # p, y # p
        PROVE  Before(w, x, y)
    <3>1. PICK m, n \in DOMAIN q : m < n /\ q[m] = x /\ q[n] = y
      BY <2>6 DEF Before
    <3>2. m # i /\ n # i
      BY <2>1, <2>6, <3>1
    <3>3. down(m) \in DOMAIN w /\ down(n) \in DOMAIN w /\ down(m) < down(n)
      BY <2>2, <2>3, <3>1, <3>2
    <3>4. w[down(m)] = x /\ w[down(n)] = y
      BY <2>2, <2>4, <3>1, <3>2, <3>3
    <3> HIDE DEF down
    <3> QED BY <3>3, <3>4 DEF Before
  <2> QED BY <2>1, <2>5, <2>6
<1> QED BY <1>1, <1>2
-----------------------------------------------------------------------------
(* What a step may do to the chain of an id.                               *)

\* Nothing.
LEMMA KeptChain ==
    ASSUME NEW t, ChainOf(t),
           Pending(t)' = Pending(t),
           \A p \in Pending(t) : msg'[p] = msg[p],
           \A p, q \in Pending(t) : Before(lockQ', p, q) <=> Before(lockQ, p, q),
           feed'[t] = feed[t],
           \A m : LastWord(t, m) => LastWord(t, m)'
    PROVE  ChainOf(t)'
<1> DEFINE P == Pending(t)
<1>1. Pending(t)' = P
  OBVIOUS
<1>2. /\ FirstInv(t) /\ NextOneInv(t) /\ LastInv(t) /\ TaskInv(t)
  BY DEF ChainOf
<1> HIDE DEF P
<1>3. FirstInv(t)'
  BY <1>1, <1>2 DEF FirstInv, P
<1>4. NextOneInv(t)'
  BY <1>1, <1>2 DEF NextOneInv, P
<1>5. LastInv(t)'
  BY <1>1, <1>2 DEF LastInv, P
<1>6. TaskInv(t)'
  BY <1>1, <1>2 DEF TaskInv, P
<1> QED BY <1>3, <1>4, <1>5, <1>6 DEF ChainOf

\* Somebody joins it, with a word that may follow the last one.
LEMMA JoinedChain ==
    ASSUME NEW t, ChainOf(t), NEW p, p \notin Pending(t),
           Pending(t)' = Pending(t) \cup {p},
           Pending(t) \cap Tasks = {},
           \A q \in Pending(t) : msg'[q] = msg[q],
           \A q, r \in Pending(t) : Before(lockQ', q, r) <=> Before(lockQ, q, r),
           \A q, r \in Pending(t) : q = r \/ Before(lockQ, q, r) \/ Before(lockQ, r, q),
           \A q \in Pending(t) : Before(lockQ', q, p),
           \A q : ~Before(lockQ', p, q) \/ ~Before(lockQ', q, p),
           feed'[t] = feed[t],
           \A m : LastWord(t, m) => Legal(m, msg'[p]),
           LastWord(t, msg[p])'
    PROVE  ChainOf(t)'
<1>1. /\ FirstInv(t) /\ NextOneInv(t) /\ LastInv(t) /\ TaskInv(t)
  BY DEF ChainOf
<1>2. ~Before(lockQ', p, p) /\ \A q \in Pending(t) : ~Before(lockQ', p, q)
  OBVIOUS
<1>3. FirstInv(t)'
  <2> SUFFICES ASSUME NEW q \in Pending(t)',
                      \A r \in Pending(t)' \ {q} : Before(lockQ', q, r)
               PROVE  Legal(feed'[t], msg'[q])
    BY DEF FirstInv
  <2>1. CASE q = p
    <3>1. Pending(t) = {}
      BY <2>1, <1>2
    <3> QED BY <2>1, <3>1, <1>1 DEF LastInv
  <2>2. CASE q # p
    BY <2>2, <1>1 DEF FirstInv
  <2> QED BY <2>1, <2>2
<1>4. NextOneInv(t)'
  <2> SUFFICES ASSUME NEW q \in Pending(t)', NEW r \in Pending(t)', Before(lockQ', q, r),
                      \A x \in Pending(t)' : ~(Before(lockQ', q, x) /\ Before(lockQ', x, r))
               PROVE  Legal(msg'[q], msg'[r])
    BY DEF NextOneInv
  <2>1. q # p /\ q \in Pending(t)
    BY <1>2
  <2>2. CASE r = p
    <3>1. \A x \in Pending(t) : ~Before(lockQ, q, x)
      BY <2>1, <2>2
    <3>2. \A x \in Pending(t) \ {q} : Before(lockQ, x, q)
      BY <3>1, <2>1
    <3> QED BY <2>1, <2>2, <3>2, <1>1 DEF LastInv
  <2>3. CASE r # p
    BY <2>1, <2>3, <1>1 DEF NextOneInv
  <2> QED BY <2>2, <2>3
<1>5. LastInv(t)'
  <2>1. Pending(t)' # {}
    OBVIOUS
  <2>2. ASSUME NEW q \in Pending(t)', \A r \in Pending(t)' \ {q} : Before(lockQ', r, q)
        PROVE  q = p
    BY <2>2, <1>2
  <2> QED BY <2>1, <2>2 DEF LastInv
<1>6. TaskInv(t)'
  <2> SUFFICES ASSUME NEW k \in Tasks \cap Pending(t)', NEW q \in Pending(t)' \ {k}
               PROVE  Before(lockQ', q, k)
    BY DEF TaskInv
  <2>1. k = p
    OBVIOUS
  <2> QED BY <2>1
<1> QED BY <1>3, <1>4, <1>5, <1>6 DEF ChainOf

\* The first of it broadcasts its word.
LEMMA BegunChain ==
    ASSUME NEW t, ChainOf(t), NEW p \in Pending(t),
           \A q \in Pending(t) \ {p} : Before(lockQ, p, q),
           \A q, r : ~Before(lockQ, q, r) \/ ~Before(lockQ, r, q),
           Pending(t)' = Pending(t) \ {p},
           \A q \in Pending(t) : msg'[q] = msg[q],
           lockQ' = lockQ,
           feed'[t] = msg[p],
           \A m : LastWord(t, m) => LastWord(t, m)'
    PROVE  ChainOf(t)' /\ Legal(feed[t], msg[p])
<1>1. /\ FirstInv(t) /\ NextOneInv(t) /\ LastInv(t) /\ TaskInv(t)
  BY DEF ChainOf
<1>2. Legal(feed[t], msg[p])
  BY <1>1 DEF FirstInv
<1>3. FirstInv(t)'
  <2> SUFFICES ASSUME NEW q \in Pending(t)',
                      \A r \in Pending(t)' \ {q} : Before(lockQ, q, r)
               PROVE  Legal(feed'[t], msg'[q])
    BY DEF FirstInv
  <2>1. q \in Pending(t) /\ q # p /\ Before(lockQ, p, q)
    OBVIOUS
  <2>2. ASSUME NEW r \in Pending(t), Before(lockQ, p, r), Before(lockQ, r, q)
        PROVE  FALSE
    <3>1. r # p /\ r # q
      BY <2>2
    <3>2. Before(lockQ, q, r)
      BY <3>1
    <3> QED BY <2>2, <3>2
  <2>3. Legal(msg[p], msg[q])
    BY <2>1, <2>2, <1>1 DEF NextOneInv
  <2> QED BY <2>1, <2>3
<1>4. NextOneInv(t)'
  BY <1>1 DEF NextOneInv
<1>5. LastInv(t)'
  BY <1>1 DEF LastInv
<1>6. TaskInv(t)'
  BY <1>1 DEF TaskInv
<1> QED BY <1>2, <1>3, <1>4, <1>5, <1>6 DEF ChainOf

\* k, whose own word was the last, is stopped, and p will say so.
LEMMA StoppedChain ==
    ASSUME NEW t, ChainOf(t), NEW k, NEW p, p \notin Pending(t), p # k,
           Pending(t)' = (Pending(t) \ {k}) \cup {p},
           Pending(t) \cap Tasks \subseteq {k}, k \in Tasks, p \notin Tasks,
           \A q \in Pending(t) : q # k => msg'[q] = msg[q],
           \A q, r \in Pending(t) \ {k} : Before(lockQ', q, r) <=> Before(lockQ, q, r),
           \A q, r \in Pending(t) : q = r \/ Before(lockQ, q, r) \/ Before(lockQ, r, q),
           \A q, r \in Pending(t) : ~Before(lockQ, q, r) \/ ~Before(lockQ, r, q),
           \A q \in Pending(t) \ {k} : Before(lockQ', q, p),
           \A q : ~Before(lockQ', p, q) \/ ~Before(lockQ', q, p),
           feed'[t] = feed[t],
           k \in Pending(t) => msg[k] \in {"collecting", "completed", "error"},
           \A m : k \notin Pending(t) /\ LastWord(t, m) => m # "stopped",
           msg'[p] = "stopped",
           LastWord(t, "stopped")'
    PROVE  ChainOf(t)'
<1>1. /\ FirstInv(t) /\ NextOneInv(t) /\ LastInv(t) /\ TaskInv(t)
  BY DEF ChainOf
<1> DEFINE Rest == Pending(t) \ {k}
<1>2. ~Before(lockQ', p, p) /\ \A q \in Rest : ~Before(lockQ', p, q)
  OBVIOUS
<1>3. \A m : m # "stopped" => Legal(m, "stopped")
  BY DEF Legal
<1>4. \A m : k \in Pending(t) /\ Legal(m, msg[k]) => m # "stopped"
  BY DEF Legal
<1>5. k \in Pending(t) => \A q \in Rest : Before(lockQ, q, k)
  BY <1>1 DEF TaskInv
<1>6. FirstInv(t)'
  <2> SUFFICES ASSUME NEW q \in Pending(t)',
                      \A r \in Pending(t)' \ {q} : Before(lockQ', q, r)
               PROVE  Legal(feed'[t], msg'[q])
    BY DEF FirstInv
  <2>1. CASE q = p
    <3>1. Rest = {}
      BY <2>1, <1>2
    <3>2. CASE k \in Pending(t)
      BY <3>1, <3>2, <1>1, <1>3, <1>4, <2>1 DEF FirstInv
    <3>3. CASE k \notin Pending(t)
      BY <3>1, <3>3, <1>1, <1>3, <2>1 DEF LastInv
    <3> QED BY <3>2, <3>3
  <2>2. CASE q # p
    BY <2>2, <1>1, <1>5 DEF FirstInv
  <2> QED BY <2>1, <2>2
<1>7. NextOneInv(t)'
  <2> SUFFICES ASSUME NEW q \in Pending(t)', NEW r \in Pending(t)', Before(lockQ', q, r),
                      \A x \in Pending(t)' : ~(Before(lockQ', q, x) /\ Before(lockQ', x, r))
               PROVE  Legal(msg'[q], msg'[r])
    BY DEF NextOneInv
  <2>1. q # p /\ q \in Rest
    BY <1>2
  <2>2. CASE r = p
    <3>1. \A x \in Rest : ~Before(lockQ, q, x)
      BY <2>1, <2>2
    <3>2. \A x \in Rest \ {q} : Before(lockQ, x, q)
      BY <3>1, <2>1
    <3>3. CASE k \in Pending(t)
      <4>1. Before(lockQ, q, k)
        BY <3>3, <2>1, <1>5
      <4>2. ASSUME NEW x \in Pending(t), Before(lockQ, q, x), Before(lockQ, x, k)
            PROVE  FALSE
        <5>1. x # k
          BY <4>2, <3>3
        <5> QED BY <5>1, <4>2, <3>1
      <4>3. Legal(msg[q], msg[k])
        BY <4>1, <4>2, <3>3, <2>1, <1>1 DEF NextOneInv
      <4> QED BY <4>3, <3>3, <2>1, <2>2, <1>3, <1>4
    <3>4. CASE k \notin Pending(t)
      BY <3>2, <3>4, <2>1, <2>2, <1>1, <1>3 DEF LastInv
    <3> QED BY <3>3, <3>4
  <2>3. CASE r # p
    <3>1. r \in Rest /\ Before(lockQ, q, r)
      BY <2>1, <2>3
    <3>2. ASSUME NEW x \in Pending(t), Before(lockQ, q, x), Before(lockQ, x, r)
          PROVE  FALSE
      <4>1. x # k
        BY <3>1, <3>2, <1>5
      <4> QED BY <4>1, <3>1, <3>2, <2>1
    <3> QED BY <3>1, <3>2, <2>1, <1>1 DEF NextOneInv
  <2> QED BY <2>2, <2>3
<1>8. LastInv(t)'
  <2>1. Pending(t)' # {}
    OBVIOUS
  <2>2. ASSUME NEW q \in Pending(t)', \A r \in Pending(t)' \ {q} : Before(lockQ', r, q)
        PROVE  q = p
    BY <2>2, <1>2
  <2> QED BY <2>1, <2>2 DEF LastInv
<1>9. TaskInv(t)'
  BY DEF TaskInv
<1> QED BY <1>6, <1>7, <1>8, <1>9 DEF ChainOf

-----------------------------------------------------------------------------
(* What the invariant says of the queue and of who waits in it.            *)

LEMMA QueueFacts ==
    ASSUME IInv
    PROVE  /\ lockQ \in Seq(Procs) /\ Injective(lockQ)
           /\ \A x, y : Before(lockQ, x, y) => Queued(lockQ, x) /\ Queued(lockQ, y) /\ x # y
           /\ \A x, y : Queued(lockQ, x) /\ Queued(lockQ, y) =>
                 x = y \/ Before(lockQ, x, y) \/ Before(lockQ, y, x)
           /\ \A x, y : ~Before(lockQ, x, y) \/ ~Before(lockQ, y, x)
           /\ \A x : lockQ # <<>> /\ Queued(lockQ, x) /\ x # lockQ[1] =>
                 Before(lockQ, lockQ[1], x)
<1>1. lockQ \in Seq(Procs) /\ Injective(lockQ)
  BY DEF IInv, TypeOK, QueueInv
<1> QED BY <1>1, OrderFacts

\* The Task that waits to broadcast about t is the one entered for t.
LEMMA PendingTask ==
    ASSUME IInv, NEW t \in TaskIds, NEW k \in Tasks \cap Pending(t)
    PROVE  running[t] = k /\ k \notin cancelled
BY DEF IInv, Pending, StoppedIsSilent, OneCollectorPerId

\* And the one entered for t is alive.
LEMMA RunningTask ==
    ASSUME IInv, NEW t \in TaskIds, running[t] # Nobody
    PROVE  /\ running[t] \in Tasks \ cancelled
           /\ pc[running[t]] # "free" /\ tid[running[t]] = t
BY DEF IInv, TypeOK, OneCollectorPerId, RunningIds

\* A step without a broadcast that begins leaves feed alone.
LEMMA FeedStays ==
    ASSUME FeedType, ObserveFeed, \A p \in Workers : ~(pc[p] = "cast" /\ pc'[p] = "send")
    PROVE  feed' = feed
<1>1. Beginning = {}
  BY DEF Beginning
<1> QED BY <1>1 DEF ObserveFeed, FeedType

\* What the queue is for the others when p joins it or leaves it.
OthersKept(p) ==
    /\ \A x : x # p => (Queued(lockQ', x) <=> Queued(lockQ, x))
    /\ \A x, y : x # p /\ y # p => (Before(lockQ', x, y) <=> Before(lockQ, x, y))

\* The same of the lock's own operations: asking for it.
LEMMA AcquireOrder ==
    ASSUME IInv, NEW p \in Procs, ~Waits(p), Acquire(p)
    PROVE  /\ OthersKept(p) /\ Queued(lockQ', p)
           /\ \A x : Queued(lockQ, x) => Before(lockQ', x, p)
<1>1. ~Queued(lockQ, p) /\ Injective(lockQ) /\ lockQ \in Seq(Procs)
  BY QueuedInProcs DEF IInv, TypeOK, QueueInv
<1>2. lockQ' = Enqueue(lockQ, p)
  BY DEF Acquire
<1>3. \A x : Queued(lockQ', x) <=> Queued(lockQ, x) \/ x = p
  BY <1>1, <1>2, EnqueueFacts
<1>4. \A x, y : Before(lockQ', x, y) <=> Before(lockQ, x, y) \/ (Queued(lockQ, x) /\ y = p)
  BY <1>1, <1>2, EnqueueOrder
<1> QED BY <1>3, <1>4 DEF OthersKept

\* The same of giving it back.
LEMMA ReleasedOrder ==
    ASSUME IInv, NEW p \in Procs, Holds(p)
    PROVE  /\ Released \in Seq(Procs) /\ Injective(Released)
           /\ \A x : Queued(Released, x) <=> Queued(lockQ, x) /\ x # p
           /\ \A x, y : Before(Released, x, y) <=> Before(lockQ, x, y) /\ x # p
<1>1. /\ Released \in Seq(Procs) /\ Injective(Released)
      /\ \A x : Queued(Released, x) <=> Queued(lockQ, x) /\ x # p
      /\ lockQ[1] = p
  BY HolderFacts
<1>2. lockQ \in Seq(Procs) /\ Injective(lockQ) /\ lockQ # <<>>
  BY DEF IInv, TypeOK, QueueInv, Holds
<1>3. \A x, y : Before(Released, x, y) <=> Before(lockQ, x, y) /\ x # p
  BY <1>1, <1>2, TailOrder DEF Released
<1> QED BY <1>1, <1>3

\* The same of giving it back as a step.
LEMMA ReleaseOrder ==
    ASSUME IInv, NEW p \in Procs, Holds(p), lockQ' = Released
    PROVE  OthersKept(p)
BY ReleasedOrder DEF OthersKept

-----------------------------------------------------------------------------
(* Steps of a coroutine p that is not about to broadcast before or after:  *)
(* they change nothing of any chain.                                       *)

Apart(p) ==
    /\ \A q \in Procs \ {p} : pc'[q] = pc[q]
    /\ \A q \in Workers \ {p} : tid'[q] = tid[q] /\ msg'[q] = msg[q]
    /\ \A k \in Tasks \ {p} : k \in cancelled' <=> k \in cancelled

\* A step that neither joins nor leaves the queue with a broadcast, and that
\* says nothing new, keeps the chains.
LEMMA QuietKeeps ==
    ASSUME FeedInv, ObserveFeed, NEW p, Apart(p), OthersKept(p),
           running' = running,
           p \in Workers => pc'[p] # "cast" /\ (pc[p] = "cast" => ~Queued(lockQ, p) /\ pc'[p] # "send"),
           p \in Tasks \ cancelled => msg'[p] = msg[p] /\ pc[p] # "new" /\ pc'[p] # "new",
           p \in Tasks => /\ pc'[p] \in {"collect", "gather"} => msg'[p] = "collecting"
                          /\ pc'[p] = "sleep" => msg'[p] \in {"completed", "error"}
    PROVE  FeedParts'
<1> USE DEF Procs, Workers
<1>1. feed' = feed
  BY FeedStays DEF FeedInv, FeedParts, Apart
<1>2. \A q \in Workers : (pc'[q] = "cast" /\ Queued(lockQ', q)) <=> (pc[q] = "cast" /\ Queued(lockQ, q))
  BY DEF Apart, OthersKept
<1>3. ASSUME NEW t \in TaskIds
      PROVE  ChainOf(t)'
  <2>1. Pending(t)' = Pending(t)
    BY <1>2 DEF Pending, Apart
  <2>2. p \notin Pending(t)
    BY DEF Pending
  <2>3. \A q \in Pending(t) : msg'[q] = msg[q]
    BY <2>2 DEF Pending, Apart
  <2>4. \A q, r \in Pending(t) : Before(lockQ', q, r) <=> Before(lockQ, q, r)
    BY <2>2 DEF OthersKept
  <2>5. ASSUME NEW m, LastWord(t, m)
        PROVE  LastWord(t, m)'
    <3>1. CASE running[t] = Nobody
      BY <3>1, <2>5 DEF LastWord
    <3>2. CASE running[t] # Nobody
      <4>1. running[t] \in Tasks \ cancelled
        BY <3>2, RunningTask DEF FeedInv, FeedParts
      <4>2. (pc'[running[t]] = "new" <=> pc[running[t]] = "new") /\ msg'[running[t]] = msg[running[t]]
        BY <4>1 DEF Apart
      <4> QED BY <3>2, <4>2, <2>5 DEF LastWord
    <3> QED BY <3>1, <3>2
  <2>6. ChainOf(t)
    BY DEF FeedInv, FeedParts, Chain
  <2> QED BY <1>1, <2>1, <2>3, <2>4, <2>5, <2>6, KeptChain
<1>4. FeedType'
  BY <1>1 DEF FeedInv, FeedParts, FeedType
<1>5. WaitInv'
  <2> SUFFICES ASSUME NEW k \in Tasks, k \notin cancelled', pc'[k] = "cast"
               PROVE  Queued(lockQ', k)
    BY DEF WaitInv
  <2>1. k # p
    OBVIOUS
  <2>2. pc[k] = "cast" /\ k \notin cancelled
    BY <2>1 DEF Apart
  <2>3. Queued(lockQ, k)
    BY <2>2 DEF FeedInv, FeedParts, WaitInv
  <2> QED BY <2>1, <2>2, <2>3, <1>2
<1>6. WordInv'
  <2>1. ASSUME NEW k \in Tasks, k # p
        PROVE  pc'[k] = pc[k] /\ msg'[k] = msg[k]
    BY <2>1 DEF Apart
  <2> SUFFICES ASSUME NEW k \in Tasks
               PROVE  /\ pc'[k] \in {"collect", "gather"} => msg'[k] = "collecting"
                      /\ pc'[k] = "sleep" => msg'[k] \in {"completed", "error"}
    BY DEF WordInv
  <2>2. CASE k = p
    BY <2>2
  <2>3. CASE k # p
    BY <2>1, <2>3 DEF FeedInv, FeedParts, WordInv
  <2> QED BY <2>2, <2>3
<1> QED BY <1>3, <1>4, <1>5, <1>6 DEF FeedParts, Chain

\* A queue left alone is in the same order.
LEMMA SameQueue == ASSUME NEW p, lockQ' = lockQ PROVE OthersKept(p)
BY DEF OthersKept

\* The quiet steps of the requests.
LEMMA HandlerQuiet ==
    ASSUME FeedInv, ObserveFeed, NEW h \in Handlers,
           \/ PutConfig(h) \/ RequestStart(h) \/ RequestStop(h)
           \/ RestartNext(h) \/ StartOnStartup(h) \/ NothingToStart(h)
           \/ AlreadyRunning(h) \/ NotRunning(h) \/ Join(h)
    PROVE  FeedParts'
<1> USE ProcsAssumption DEF Workers, Procs
<1>1. IInv /\ pc \in [Procs -> HandlerPC \cup TaskPC \cup ClientPC] /\ h \notin Tasks
  BY DEF FeedInv, IInv, TypeOK
<1>2. OthersKept(h)
  <2>1. CASE PutConfig(h) \/ NothingToStart(h) \/ Join(h)
    BY <2>1, SameQueue DEF PutConfig, NothingToStart, Join
  <2>2. CASE RequestStart(h) \/ RequestStop(h) \/ RestartNext(h) \/ StartOnStartup(h)
    <3>1. ~Waits(h) /\ Acquire(h)
      BY <2>2 DEF RequestStart, RequestStop, RestartNext, StartOnStartup, Waits
    <3> QED BY <1>1, <3>1, AcquireOrder
  <2>3. CASE AlreadyRunning(h) \/ NotRunning(h)
    <3>1. Holds(h) /\ lockQ' = Released
      BY <2>3 DEF AlreadyRunning, NotRunning
    <3> QED BY <1>1, <3>1, ReleaseOrder
  <2> QED BY <2>1, <2>2, <2>3
<1>3. /\ Apart(h) /\ running' = running
      /\ pc[h] # "cast" /\ pc'[h] # "cast"
  <2>1. CASE PutConfig(h) \/ RequestStart(h) \/ RequestStop(h)
    BY <2>1, <1>1 DEF IInv, TypeOK, Apart, PutConfig, RequestStart, RequestStop, Goto
  <2>2. CASE RestartNext(h) \/ StartOnStartup(h)
    BY <2>2, <1>1 DEF IInv, TypeOK, Apart, RestartNext, StartOnStartup, Goto
  <2>3. CASE NothingToStart(h) \/ AlreadyRunning(h)
    BY <2>3, <1>1 DEF IInv, TypeOK, Apart, NothingToStart, AlreadyRunning, Finish, Goto
  <2>4. CASE NotRunning(h) \/ Join(h)
    BY <2>4, <1>1 DEF IInv, TypeOK, Apart, NotRunning, Join, AfterStop, Finish, Goto
  <2> QED BY <2>1, <2>2, <2>3, <2>4
<1> QED BY <1>1, <1>2, <1>3, QuietKeeps

\* The quiet steps of the browsers.
LEMMA ClientQuiet ==
    ASSUME FeedInv, ObserveFeed, NEW c \in Clients,
           Connect(c) \/ Disconnect(c) \/ Register(c) \/ Unregister(c)
    PROVE  FeedParts'
<1> USE ProcsAssumption DEF Workers, Procs
<1>1. IInv /\ pc \in [Procs -> HandlerPC \cup TaskPC \cup ClientPC] /\ c \notin Workers
  BY DEF FeedInv, IInv, TypeOK
<1>2. OthersKept(c)
  <2>1. CASE Connect(c) \/ Disconnect(c)
    <3>1. ~Waits(c) /\ Acquire(c)
      BY <2>1 DEF Connect, Disconnect, Waits
    <3> QED BY <1>1, <3>1, AcquireOrder
  <2>2. CASE Register(c) \/ Unregister(c)
    <3>1. Holds(c) /\ lockQ' = Released
      BY <2>2 DEF Register, Unregister
    <3> QED BY <1>1, <3>1, ReleaseOrder
  <2> QED BY <2>1, <2>2
<1>3. Apart(c) /\ running' = running
  BY <1>1 DEF Apart, Connect, Disconnect, Register, Unregister, Goto, argVars
<1> QED BY <1>1, <1>2, <1>3, QuietKeeps

\* A Task that collects, or that unwinds from wherever it was cancelled.
LEMMA TaskQuiet ==
    ASSUME FeedInv, ObserveFeed, NEW k \in Tasks, CollectStart(k) \/ Unwind(k)
    PROVE  FeedParts'
<1> USE ProcsAssumption DEF Workers, Procs
<1>1. IInv /\ pc \in [Procs -> HandlerPC \cup TaskPC \cup ClientPC]
  BY DEF FeedInv, IInv, TypeOK
<1>2. OthersKept(k) /\ running' = running
  BY SameQueue DEF CollectStart, Unwind
<1>3. CASE CollectStart(k)
  <2>1. Apart(k) /\ pc[k] = "collect" /\ pc'[k] = "gather" /\ msg'[k] = msg[k]
    BY <1>1, <1>3 DEF Apart, CollectStart, Goto, argVars
  <2>2. msg[k] = "collecting"
    BY <2>1 DEF FeedInv, FeedParts, WordInv
  <2> QED BY <1>2, <2>1, <2>2, QuietKeeps
<1>4. CASE Unwind(k)
  <2>1. Apart(k) /\ k \in cancelled /\ pc'[k] = "free"
    BY <1>1, <1>4 DEF IInv, TypeOK, Apart, Unwind, Goto
  <2>2. ~Queued(lockQ, k)
    BY <1>1, <2>1 DEF IInv, StoppedIsSilent
  <2> QED BY <1>2, <2>1, <2>2, QuietKeeps
<1> QED BY <1>3, <1>4

\* Sends, the end of a broadcast, the threads that edit proxies, no step.
LEMMA SendQuiet ==
    ASSUME FeedInv, ObserveFeed, NEW p \in Workers, NEW c \in Clients,
           Deliver(p, c) \/ DeliverFails(p, c)
    PROVE  FeedParts'
<1>1. /\ OthersKept(Nobody) /\ running' = running /\ Apart(Nobody)
  BY SameQueue DEF Deliver, DeliverFails, Apart, argVars, OthersKept
<1> QED BY <1>1, ProcsAssumption, QuietKeeps DEF Workers, Procs

\* The quiet steps of those that only wait.
LEMMA RestQuiet ==
    ASSUME FeedInv, ObserveFeed, EditProxies \/ UNCHANGED vars
    PROVE  FeedParts'
<1>1. /\ OthersKept(Nobody) /\ running' = running /\ Apart(Nobody)
  BY SameQueue DEF EditProxies, vars, Apart, argVars, OthersKept
<1> QED BY <1>1, ProcsAssumption, QuietKeeps DEF Workers, Procs

\* The quiet steps of those that end.
LEMMA EndQuiet ==
    ASSUME FeedInv, ObserveFeed, NEW p \in Workers, EndBroadcast(p)
    PROVE  FeedParts'
<1> USE ProcsAssumption DEF Workers, Procs
<1>1. IInv /\ pc \in [Procs -> HandlerPC \cup TaskPC \cup ClientPC]
  BY DEF FeedInv, IInv, TypeOK
<1>2. pc[p] = "send" /\ running' = running /\ cancelled' = cancelled /\ lockQ' = Released
  BY DEF EndBroadcast
<1>3. OthersKept(p)
  <2>1. Holds(p)
    BY <1>1, <1>2 DEF IInv, SenderInv, TypeOK, Holds
  <2> QED BY <1>1, <1>2, <2>1, ReleaseOrder
<1>4. CASE p \in Handlers
  <2>1. msg[p] \in {"started", "stopped"}
    BY <1>1, <1>2, <1>4 DEF IInv, LocalsInv
  <2>2. Apart(p) /\ pc'[p] # "cast"
    BY <1>1, <1>2, <1>4, <2>1
       DEF IInv, TypeOK, Apart, EndBroadcast, AfterBroadcast, Finish, Goto, argVars
  <2> QED BY <1>2, <1>3, <1>4, <2>2, QuietKeeps
<1>5. CASE p \in Tasks
  <2>1. msg[p] \in {"collecting", "completed", "error"}
    BY <1>1, <1>2, <1>5 DEF IInv, LocalsInv
  <2>2. /\ Apart(p) /\ msg'[p] = msg[p]
        /\ pc'[p] = IF msg[p] = "collecting" THEN "collect" ELSE "sleep"
    BY <1>1, <1>2, <1>5, <2>1
       DEF IInv, TypeOK, Apart, EndBroadcast, AfterBroadcast, Goto, argVars
  <2> QED BY <1>2, <1>3, <1>5, <2>1, <2>2, QuietKeeps
<1> QED BY <1>4, <1>5

-----------------------------------------------------------------------------
(* A broadcast begins: what was first in the chain becomes the past.       *)

LEMMA BeginKeeps ==
    ASSUME FeedInv, ObserveFeed, NEW p \in Workers, BeginBroadcast(p)
    PROVE  /\ FeedParts'
           /\ tid[p] \in TaskIds /\ Legal(feed[tid[p]], msg[p])
           /\ msg[p] \in Statuses
           /\ feed' = [feed EXCEPT ![tid[p]] = msg[p]]
<1> USE ProcsAssumption DEF Workers, Procs
<1>1. IInv /\ pc \in [Procs -> HandlerPC \cup TaskPC \cup ClientPC]
  BY DEF FeedInv, IInv, TypeOK
<1>2. /\ pc[p] = "cast" /\ Holds(p) /\ pc' = [pc EXCEPT ![p] = "send"]
      /\ UNCHANGED <<running, lockQ, tid, msg, cancelled>>
  BY DEF BeginBroadcast, Goto, argVars
<1>3. lockQ # <<>> /\ lockQ[1] = p /\ Queued(lockQ, p)
  BY <1>1, <1>2, HolderFacts DEF Holds
<1>4. tid[p] \in TaskIds /\ p \in Pending(tid[p])
  <2>1. p \in Handlers => tid[p] \in TaskIds
    BY <1>1, <1>2 DEF IInv, LocalsInv
  <2>2. p \in Tasks => tid[p] \in TaskIds
    BY <1>1, <1>2, <1>3 DEF IInv, StoppedIsSilent, OneCollectorPerId
  <2> QED BY <1>2, <1>3, <2>1, <2>2 DEF Pending
<1>5. msg[p] \in Statuses
  BY <1>1, <1>2 DEF IInv, LocalsInv, Statuses
<1>6. /\ \A q \in Workers : pc'[q] = "cast" <=> pc[q] = "cast" /\ q # p
      /\ \A q \in Workers : pc'[q] = "new" <=> pc[q] = "new"
      /\ \A q \in Workers : q # p => pc'[q] = pc[q]
      /\ pc'[p] = "send"
  BY <1>1, <1>2
<1>7. feed' = [feed EXCEPT ![tid[p]] = msg[p]]
  <2>1. Beginning = {p}
    BY <1>2, <1>6 DEF Beginning
  <2>2. feed' = [u \in TaskIds |-> IF u = tid[p] THEN msg[p] ELSE feed[u]]
    BY <2>1 DEF ObserveFeed
  <2> QED BY <2>2 DEF FeedInv, FeedParts, FeedType
<1>8. ASSUME NEW u \in TaskIds, NEW m, LastWord(u, m)
      PROVE  LastWord(u, m)'
  <2>1. CASE running[u] = Nobody
    BY <2>1, <1>2, <1>8 DEF LastWord
  <2>2. CASE running[u] # Nobody
    <3>1. running[u] \in Workers
      BY <2>2, <1>1, RunningTask
    <3> QED BY <3>1, <2>2, <1>2, <1>6, <1>8 DEF LastWord
  <2> QED BY <2>1, <2>2
<1>9. \A u \in TaskIds : Pending(u)' = Pending(u) \ {p}
  BY <1>2, <1>6 DEF Pending
<1>10. \A q, r : ~Before(lockQ, q, r) \/ ~Before(lockQ, r, q)
  BY <1>1, QueueFacts
<1>11. ASSUME NEW u \in TaskIds, u = tid[p]
       PROVE  ChainOf(u)' /\ Legal(feed[u], msg[p])
  <2>1. ChainOf(u) /\ feed'[u] = msg[p] /\ p \in Pending(u)
    BY <1>4, <1>7, <1>11 DEF FeedInv, FeedParts, Chain, FeedType
  <2>2. \A q \in Pending(u) \ {p} : Before(lockQ, p, q)
    BY <1>1, <1>3, QueueFacts DEF Pending
  <2> QED BY <2>1, <2>2, <1>2, <1>8, <1>9, <1>10, BegunChain
<1>12. ASSUME NEW u \in TaskIds, u # tid[p]
       PROVE  ChainOf(u)'
  <2>1. p \notin Pending(u)
    BY <1>12 DEF Pending
  <2>2. ChainOf(u) /\ feed'[u] = feed[u]
    BY <1>7, <1>12 DEF FeedInv, FeedParts, Chain, FeedType
  <2> QED BY <2>1, <2>2, <1>2, <1>8, <1>9, KeptChain
<1>13. WaitInv'
  BY <1>2, <1>6 DEF FeedInv, FeedParts, WaitInv
<1>14. WordInv'
  BY <1>2, <1>6 DEF FeedInv, FeedParts, WordInv
<1>15. FeedType'
  BY <1>4, <1>5, <1>7 DEF FeedInv, FeedParts, FeedType
<1> QED BY <1>4, <1>5, <1>7, <1>11, <1>12, <1>13, <1>14, <1>15 DEF FeedParts, Chain

-----------------------------------------------------------------------------
(* A Task queues for its next broadcast, at the end of the chain.          *)

\* k, whose last word m may follow, asks for the lock to broadcast m.
QueuesFor(k, m) ==
    /\ k \notin cancelled /\ pc[k] \in {"new", "sleep", "collect", "gather"}
    /\ pc' = [pc EXCEPT ![k] = "cast"] /\ msg' = [msg EXCEPT ![k] = m]
    /\ running' = running /\ tid' = tid /\ cancelled' = cancelled
    /\ Acquire(k)
    /\ m \in {"collecting", "completed", "error"}
    /\ pc[k] = "new" => m = "collecting"
    /\ pc[k] # "new" => Legal(msg[k], m)

\* A task that goes to announce its collection or its result joins the chain.
LEMMA TaskJoins ==
    ASSUME FeedInv, IInv', ObserveFeed, NEW k \in Tasks, NEW m, QueuesFor(k, m)
    PROVE  FeedParts'
<1> USE ProcsAssumption DEF Workers, Procs
<1>0. /\ k \notin cancelled /\ pc[k] \in {"new", "sleep", "collect", "gather"}
      /\ pc' = [pc EXCEPT ![k] = "cast"] /\ msg' = [msg EXCEPT ![k] = m]
      /\ running' = running /\ tid' = tid /\ cancelled' = cancelled
      /\ Acquire(k)
      /\ m \in {"collecting", "completed", "error"}
      /\ pc[k] = "new" => m = "collecting"
      /\ pc[k] # "new" => Legal(msg[k], m)
  BY DEF QueuesFor
<1>1. /\ IInv /\ pc \in [Procs -> HandlerPC \cup TaskPC \cup ClientPC]
      /\ msg \in [Workers -> Statuses \cup {"none"}]
  BY DEF FeedInv, IInv, TypeOK
<1>2. tid[k] \in TaskIds /\ running[tid[k]] = k
  BY <1>0, <1>1 DEF IInv, OneCollectorPerId
<1>3. /\ \A q \in Workers \ {k} : pc'[q] = pc[q] /\ msg'[q] = msg[q]
      /\ pc'[k] = "cast" /\ msg'[k] = m
  BY <1>0, <1>1
<1>4. ~Queued(lockQ, k) /\ ~Waits(k)
  BY <1>0, <1>1, QueuedInProcs DEF Waits
<1>5. /\ OthersKept(k) /\ Queued(lockQ', k)
      /\ \A x : Queued(lockQ, x) => Before(lockQ', x, k)
  BY <1>0, <1>1, <1>4, AcquireOrder
<1>6. feed' = feed
  BY <1>0, <1>3, FeedStays DEF FeedInv, FeedParts
<1>7. \A q \in Workers \ {k} : Queued(lockQ', q) <=> Queued(lockQ, q)
  BY <1>0, <1>5 DEF OthersKept
<1>8. ASSUME NEW t \in TaskIds, t = tid[k]
      PROVE  ChainOf(t)'
  <2>1. k \notin Pending(t) /\ Pending(t)' = Pending(t) \cup {k}
    BY <1>0, <1>3, <1>4, <1>5, <1>7, <1>8 DEF Pending
  <2>2. Pending(t) \cap Tasks = {}
    BY <1>0, <1>1, <1>2, <1>8, <2>1, PendingTask
  <2>3. \A q \in Pending(t) : q \in Workers /\ q # k /\ Queued(lockQ, q) /\ msg'[q] = msg[q]
    BY <1>0, <1>3, <2>1 DEF Pending
  <2>4. \A q, r \in Pending(t) : Before(lockQ', q, r) <=> Before(lockQ, q, r)
    BY <1>0, <1>5, <2>3 DEF OthersKept
  <2>5. \A q, r \in Pending(t) : q = r \/ Before(lockQ, q, r) \/ Before(lockQ, r, q)
    BY <1>0, <1>1, <2>3, QueueFacts
  <2>6. \A q : ~Before(lockQ', k, q) \/ ~Before(lockQ', q, k)
    <3>1. lockQ' \in Seq(Procs) /\ Injective(lockQ')
      BY DEF IInv, TypeOK, QueueInv
    <3> QED BY <3>1, OrderFacts
  <2>7. \A w : LastWord(t, w) => Legal(w, msg'[k])
    BY <1>0, <1>2, <1>3, <1>8 DEF LastWord, Legal
  <2>8. LastWord(t, msg[k])'
    BY <1>0, <1>2, <1>3, <1>8 DEF LastWord
  <2>9. ChainOf(t) /\ feed'[t] = feed[t]
    BY <1>0, <1>6 DEF FeedInv, FeedParts, Chain
  <2> QED BY <2>1, <2>2, <2>3, <2>4, <2>5, <2>6, <2>7, <2>8, <2>9, <1>5, JoinedChain
<1>9. ASSUME NEW u \in TaskIds, u # tid[k]
      PROVE  ChainOf(u)'
  <2>1. k \notin Pending(u) /\ Pending(u)' = Pending(u)
    BY <1>0, <1>3, <1>7, <1>9 DEF Pending
  <2>2. \A q \in Pending(u) : msg'[q] = msg[q]
    BY <1>0, <1>3, <2>1 DEF Pending
  <2>3. \A q, r \in Pending(u) : Before(lockQ', q, r) <=> Before(lockQ, q, r)
    BY <1>0, <1>5, <2>1 DEF OthersKept
  <2>4. ASSUME NEW w, LastWord(u, w)
        PROVE  LastWord(u, w)'
    <3>1. CASE running[u] = Nobody
      BY <1>0, <3>1, <2>4 DEF LastWord
    <3>2. CASE running[u] # Nobody
      <4>1. running[u] \in Workers \ {k}
        BY <1>0, <3>2, <1>1, <1>2, <1>9, RunningTask
      <4> QED BY <1>0, <4>1, <3>2, <2>4, <1>3 DEF LastWord
    <3> QED BY <3>1, <3>2
  <2>5. ChainOf(u) /\ feed'[u] = feed[u]
    BY <1>0, <1>6 DEF FeedInv, FeedParts, Chain
  <2> QED BY <2>1, <2>2, <2>3, <2>4, <2>5, KeptChain
<1>10. WaitInv'
  <2> SUFFICES ASSUME NEW j \in Tasks, j \notin cancelled', pc'[j] = "cast"
               PROVE  Queued(lockQ', j)
    BY DEF WaitInv
  <2>1. CASE j = k
    BY <1>0, <2>1, <1>5
  <2>2. CASE j # k
    BY <1>0, <2>2, <1>3, <1>7 DEF FeedInv, FeedParts, WaitInv
  <2> QED BY <2>1, <2>2
<1>11. WordInv'
  BY <1>0, <1>3 DEF FeedInv, FeedParts, WordInv
<1>12. FeedType'
  BY <1>0, <1>6 DEF FeedInv, FeedParts, FeedType
<1> QED BY <1>8, <1>9, <1>10, <1>11, <1>12 DEF FeedParts, Chain

\* The three steps in which a task does so.
LEMMA TaskKeeps ==
    ASSUME FeedInv, IInv', ObserveFeed, NEW k \in Tasks,
           CycleStart(k) \/ CollectNothing(k) \/ CollectEnd(k)
    PROVE  FeedParts'
<1> USE ProcsAssumption DEF Workers, Procs
<1>1. /\ IInv /\ msg \in [Workers -> Statuses \cup {"none"}]
      /\ WordInv
  BY DEF FeedInv, FeedParts, IInv, TypeOK
<1>2. CASE CycleStart(k)
  <2>1. /\ k \notin cancelled /\ pc[k] \in {"new", "sleep"} /\ Acquire(k)
        /\ pc' = [pc EXCEPT ![k] = "cast"] /\ msg' = [msg EXCEPT ![k] = "collecting"]
        /\ UNCHANGED <<running, tid, cancelled>>
    BY <1>2 DEF CycleStart, Goto
  <2>2. pc[k] # "new" => Legal(msg[k], "collecting")
    BY <1>1, <2>1 DEF WordInv, Legal
  <2>3. QueuesFor(k, "collecting")
    BY <2>1, <2>2 DEF QueuesFor
  <2> QED BY <2>3, TaskJoins
<1>3. CASE CollectNothing(k) \/ CollectEnd(k)
  <2>1. PICK m \in {"completed", "error"} :
          /\ pc[k] \in {"collect", "gather"} /\ Acquire(k)
          /\ pc' = [pc EXCEPT ![k] = "cast"] /\ msg' = [msg EXCEPT ![k] = m]
          /\ UNCHANGED <<running, tid, cancelled>>
    BY <1>3 DEF CollectNothing, CollectEnd, Goto
  <2>2. k \notin cancelled
    BY <1>1, <1>3 DEF CollectNothing, CollectEnd, IInv, StoppedIsSilent
  <2>3. Legal(msg[k], m)
    BY <1>1, <2>1 DEF WordInv, Legal
  <2>4. QueuesFor(k, m)
    BY <2>1, <2>2, <2>3 DEF QueuesFor
  <2> QED BY <2>4, TaskJoins
<1> QED BY <1>2, <1>3

-----------------------------------------------------------------------------
(* A handler changes the table and queues for the broadcast of it.         *)

LEMMA StartKeeps ==
    ASSUME FeedInv, IInv', ObserveFeed, NEW h \in Handlers, StartTask(h)
    PROVE  FeedParts'
<1> USE ProcsAssumption DEF Workers, Procs
<1>1. /\ IInv /\ pc \in [Procs -> HandlerPC \cup TaskPC \cup ClientPC]
      /\ msg \in [Workers -> Statuses \cup {"none"}]
      /\ tid \in [Workers -> TaskIds \cup {Nobody}]
      /\ running \in [TaskIds -> Tasks \cup {Nobody}]
  BY DEF FeedInv, IInv, TypeOK
<1>2. /\ Holds(h) /\ pc[h] = "start" /\ tid[h] \in TaskIds /\ running[tid[h]] = Nobody
      /\ cancelled' = cancelled
  BY <1>1 DEF StartTask, IsRunning, IInv, LocalsInv
<1>3. PICK k \in Tasks :
          /\ pc[k] = "free"
          /\ running' = [running EXCEPT ![tid[h]] = k]
          /\ pc'  = [pc EXCEPT ![h] = "cast", ![k] = "new"]
          /\ tid' = [tid EXCEPT ![k] = tid[h]]
          /\ msg' = [msg EXCEPT ![h] = "started"]
  BY DEF StartTask, FreeTasks
<1>4. /\ \A q \in Workers \ {h, k} : pc'[q] = pc[q] /\ tid'[q] = tid[q] /\ msg'[q] = msg[q]
      /\ pc'[h] = "cast" /\ tid'[h] = tid[h] /\ msg'[h] = "started"
      /\ pc'[k] = "new" /\ h # k
  BY <1>1, <1>3
<1>5. /\ OthersKept(h) /\ Queued(lockQ', h)
      /\ \A x : Queued(lockQ, x) /\ x # h => Before(lockQ', x, h)
  <2>1. /\ Released \in Seq(Procs) /\ Injective(Released)
        /\ \A x : Queued(Released, x) <=> Queued(lockQ, x) /\ x # h
        /\ \A x, y : Before(Released, x, y) <=> Before(lockQ, x, y) /\ x # h
    BY <1>1, <1>2, ReleasedOrder
  <2>2. lockQ' = Enqueue(Released, h)
    BY DEF StartTask, ReleaseAndRequeue
  <2>3. \A x : Queued(lockQ', x) <=> Queued(Released, x) \/ x = h
    BY <2>1, <2>2, EnqueueFacts
  <2>4. \A x, y : Before(lockQ', x, y) <=> Before(Released, x, y) \/ (Queued(Released, x) /\ y = h)
    BY <2>1, <2>2, EnqueueOrder
  <2> QED BY <2>1, <2>3, <2>4 DEF OthersKept
<1>6. feed' = feed
  BY <1>2, <1>3, <1>4, FeedStays DEF FeedInv, FeedParts
<1>7. \A q \in Workers \ {h} : Queued(lockQ', q) <=> Queued(lockQ, q)
  BY <1>5 DEF OthersKept
<1>8. ASSUME NEW t \in TaskIds, t = tid[h]
      PROVE  ChainOf(t)'
  <2>1. /\ h \notin Pending(t) /\ k \notin Pending(t)
        /\ Pending(t)' = Pending(t) \cup {h}
    BY <1>2, <1>3, <1>4, <1>5, <1>7, <1>8 DEF Pending
  <2>2. Pending(t) \cap Tasks = {}
    BY <1>1, <1>2, <1>8, PendingTask
  <2>3. \A q \in Pending(t) : q \in Workers /\ q # h /\ Queued(lockQ, q) /\ msg'[q] = msg[q]
    BY <1>4, <2>1 DEF Pending
  <2>4. \A q, r \in Pending(t) : Before(lockQ', q, r) <=> Before(lockQ, q, r)
    BY <1>5, <2>3 DEF OthersKept
  <2>5. \A q, r \in Pending(t) : q = r \/ Before(lockQ, q, r) \/ Before(lockQ, r, q)
    BY <1>1, <2>3, QueueFacts
  <2>6. \A q : ~Before(lockQ', h, q) \/ ~Before(lockQ', q, h)
    <3>1. lockQ' \in Seq(Procs) /\ Injective(lockQ')
      BY DEF IInv, TypeOK, QueueInv
    <3> QED BY <3>1, OrderFacts
  <2>7. \A w : LastWord(t, w) => Legal(w, msg'[h])
    BY <1>2, <1>4, <1>8 DEF LastWord, Legal
  <2>8. LastWord(t, msg[h])'
    BY <1>1, <1>3, <1>4, <1>8 DEF LastWord
  <2>9. ChainOf(t) /\ feed'[t] = feed[t]
    BY <1>6 DEF FeedInv, FeedParts, Chain
  <2> QED BY <2>1, <2>2, <2>3, <2>4, <2>5, <2>6, <2>7, <2>8, <2>9, <1>5, JoinedChain
<1>9. ASSUME NEW u \in TaskIds, u # tid[h]
      PROVE  ChainOf(u)'
  <2>1. h \notin Pending(u) /\ k \notin Pending(u) /\ Pending(u)' = Pending(u)
    BY <1>2, <1>3, <1>4, <1>7, <1>9 DEF Pending
  <2>2. \A q \in Pending(u) : msg'[q] = msg[q]
    BY <1>4, <2>1 DEF Pending
  <2>3. \A q, r \in Pending(u) : Before(lockQ', q, r) <=> Before(lockQ, q, r)
    BY <1>5, <2>1 DEF OthersKept
  <2>4. ASSUME NEW w, LastWord(u, w)
        PROVE  LastWord(u, w)'
    <3>1. running'[u] = running[u]
      BY <1>1, <1>3, <1>9
    <3>2. CASE running[u] = Nobody
      BY <3>1, <3>2, <2>4 DEF LastWord
    <3>3. CASE running[u] # Nobody
      <4>1. running[u] \in Workers \ {h, k}
        BY <3>3, <1>1, <1>3, RunningTask
      <4> QED BY <4>1, <3>1, <3>3, <2>4, <1>4 DEF LastWord
    <3> QED BY <3>2, <3>3
  <2>5. ChainOf(u) /\ feed'[u] = feed[u]
    BY <1>6 DEF FeedInv, FeedParts, Chain
  <2> QED BY <2>1, <2>2, <2>3, <2>4, <2>5, KeptChain
<1>10. WaitInv'
  <2> SUFFICES ASSUME NEW j \in Tasks, j \notin cancelled', pc'[j] = "cast"
               PROVE  Queued(lockQ', j)
    BY DEF WaitInv
  <2>1. j # k /\ j # h
    BY <1>4
  <2> QED BY <2>1, <1>2, <1>4, <1>7 DEF FeedInv, FeedParts, WaitInv
<1>11. WordInv'
  BY <1>4 DEF FeedInv, FeedParts, WordInv
<1>12. FeedType'
  BY <1>6 DEF FeedInv, FeedParts, FeedType
<1> QED BY <1>8, <1>9, <1>10, <1>11, <1>12 DEF FeedParts, Chain

\* The Task that is stopped takes its own broadcast with it.
LEMMA StopKeeps ==
    ASSUME FeedInv, IInv', ObserveFeed, NEW h \in Handlers, StopTask(h)
    PROVE  FeedParts'
<1> USE ProcsAssumption DEF Workers, Procs
<1>1. /\ IInv /\ pc \in [Procs -> HandlerPC \cup TaskPC \cup ClientPC]
      /\ msg \in [Workers -> Statuses \cup {"none"}]
      /\ running \in [TaskIds -> Tasks \cup {Nobody}]
  BY DEF FeedInv, IInv, TypeOK
<1>2. PICK k \in Tasks :
        /\ k = running[tid[h]] /\ tid[k] = tid[h] /\ pc[k] # "free"
        /\ k \notin cancelled /\ cancelled' = cancelled \cup {k}
    <2>1. tid[h] \in TaskIds /\ running[tid[h]] # Nobody
      BY <1>1 DEF StopTask, IsRunning, IInv, LocalsInv
    <2>2. cancelled' = cancelled \cup {running[tid[h]]}
      BY DEF StopTask, Cancel
    <2> QED BY <2>1, <2>2, <1>1, RunningTask
<1>3. /\ Holds(h) /\ pc[h] = "stop" /\ tid[h] \in TaskIds /\ h # k
      /\ running' = [running EXCEPT ![tid[h]] = Nobody]
      /\ msg' = [msg EXCEPT ![h] = "stopped"]
      /\ pc' = [pc EXCEPT ![h] = "cast"] /\ tid' = tid
  BY <1>1 DEF StopTask, IInv, LocalsInv, Goto
<1>4. /\ \A q \in Workers \ {h} : pc'[q] = pc[q] /\ msg'[q] = msg[q]
      /\ pc'[h] = "cast" /\ msg'[h] = "stopped"
  BY <1>1, <1>3
<1>5. /\ Queued(lockQ', h) /\ ~Queued(lockQ', k)
      /\ \A x : x # h /\ x # k => (Queued(lockQ', x) <=> Queued(lockQ, x))
      /\ \A x, y : x \notin {h, k} /\ y \notin {h, k} =>
            (Before(lockQ', x, y) <=> Before(lockQ, x, y))
      /\ \A x : Queued(lockQ, x) /\ x # h /\ x # k => Before(lockQ', x, h)
  <2> DEFINE q == Without(Released, k)
  <2>1. /\ Released \in Seq(Procs) /\ Injective(Released)
        /\ \A x : Queued(Released, x) <=> Queued(lockQ, x) /\ x # h
        /\ \A x, y : Before(Released, x, y) <=> Before(lockQ, x, y) /\ x # h
    BY <1>1, <1>3, ReleasedOrder
  <2>2. /\ q \in Seq(Procs) /\ Injective(q)
        /\ \A x : Queued(q, x) <=> Queued(Released, x) /\ x # k
    BY <2>1, WithoutFacts
  <2>3. \A x, y : Before(q, x, y) <=> Before(Released, x, y) /\ x # k /\ y # k
    BY <2>1, WithoutOrder
  <2>4. lockQ' = Enqueue(q, h)
    BY <1>2 DEF StopTask, ReleaseAndRequeue
  <2> HIDE DEF q
  <2>5. \A x : Queued(lockQ', x) <=> Queued(q, x) \/ x = h
    BY <2>1, <2>2, <2>4, EnqueueFacts
  <2>6. \A x, y : Before(lockQ', x, y) <=> Before(q, x, y) \/ (Queued(q, x) /\ y = h)
    BY <2>1, <2>2, <2>4, EnqueueOrder
  <2> QED BY <1>3, <2>1, <2>2, <2>3, <2>5, <2>6
<1>6. feed' = feed
  BY <1>3, <1>4, FeedStays DEF FeedInv, FeedParts
<1>7. \A q \in Workers \ {h, k} : Queued(lockQ', q) <=> Queued(lockQ, q)
  BY <1>5
<1>8. ASSUME NEW t \in TaskIds, t = tid[h]
      PROVE  ChainOf(t)'
  <2>1. h \notin Pending(t) /\ Pending(t)' = (Pending(t) \ {k}) \cup {h}
    BY <1>3, <1>4, <1>5, <1>7, <1>8 DEF Pending
  <2>2. Pending(t) \cap Tasks \subseteq {k}
    BY <1>1, <1>2, <1>8, PendingTask
  <2>3. \A q \in Pending(t) : /\ q \in Workers /\ q # h /\ Queued(lockQ, q)
                              /\ msg'[q] = msg[q]
    BY <1>4, <2>1 DEF Pending
  <2>4. \A q, r \in Pending(t) \ {k} : Before(lockQ', q, r) <=> Before(lockQ, q, r)
    BY <1>5, <2>3
  <2>5. /\ \A q, r \in Pending(t) : q = r \/ Before(lockQ, q, r) \/ Before(lockQ, r, q)
        /\ \A q, r \in Pending(t) : ~Before(lockQ, q, r) \/ ~Before(lockQ, r, q)
    BY <1>1, <2>3, QueueFacts
  <2>6. \A q : ~Before(lockQ', h, q) \/ ~Before(lockQ', q, h)
    <3>1. lockQ' \in Seq(Procs) /\ Injective(lockQ')
      BY DEF IInv, TypeOK, QueueInv
    <3> QED BY <3>1, OrderFacts
  <2>7. k \in Pending(t) => msg[k] \in {"collecting", "completed", "error"}
    BY <1>1 DEF Pending, IInv, LocalsInv
  <2>8. ASSUME NEW m, k \notin Pending(t), LastWord(t, m)
        PROVE  m # "stopped"
    <3>1. CASE pc[k] = "new"
      BY <3>1, <2>8, <1>2, <1>8 DEF LastWord
    <3>2. CASE pc[k] # "new"
      <4>1. m = msg[k]
        BY <3>2, <2>8, <1>2, <1>8 DEF LastWord
      <4>2. pc[k] # "cast"
        BY <2>8, <1>2, <1>8 DEF Pending, FeedInv, FeedParts, WaitInv
      <4>3. pc[k] \in {"send", "collect", "gather", "sleep"}
        BY <3>2, <4>2, <1>1, <1>2 DEF IInv, TypeOK, TaskPC
      <4>4. msg[k] \in {"collecting", "completed", "error"}
        BY <4>3, <1>1 DEF IInv, LocalsInv, FeedInv, FeedParts, WordInv
      <4> QED BY <4>1, <4>4
    <3> QED BY <3>1, <3>2
  <2>9. LastWord(t, "stopped")'
    BY <1>1, <1>3, <1>8 DEF LastWord
  <2>10. ChainOf(t) /\ feed'[t] = feed[t]
    BY <1>6 DEF FeedInv, FeedParts, Chain
  <2>11. \A q \in Pending(t) \ {k} : Before(lockQ', q, h)
    BY <1>5, <2>3
  <2> QED BY <2>1, <2>2, <2>3, <2>4, <2>5, <2>6, <2>7, <2>8, <2>9, <2>10, <2>11,
             <1>3, <1>4, StoppedChain
<1>9. ASSUME NEW u \in TaskIds, u # tid[h]
      PROVE  ChainOf(u)'
  <2>1. h \notin Pending(u) /\ k \notin Pending(u) /\ Pending(u)' = Pending(u)
    BY <1>2, <1>3, <1>4, <1>7, <1>9 DEF Pending
  <2>2. \A q \in Pending(u) : msg'[q] = msg[q]
    BY <1>4, <2>1 DEF Pending
  <2>3. \A q, r \in Pending(u) : Before(lockQ', q, r) <=> Before(lockQ, q, r)
    BY <1>5, <2>1
  <2>4. ASSUME NEW w, LastWord(u, w)
        PROVE  LastWord(u, w)'
    <3>1. running'[u] = running[u]
      BY <1>1, <1>3, <1>9
    <3>2. CASE running[u] = Nobody
      BY <3>1, <3>2, <2>4 DEF LastWord
    <3>3. CASE running[u] # Nobody
      <4>1. running[u] \in Workers \ {h}
        BY <3>3, <1>1, RunningTask
      <4> QED BY <4>1, <3>1, <3>3, <2>4, <1>4 DEF LastWord
    <3> QED BY <3>2, <3>3
  <2>5. ChainOf(u) /\ feed'[u] = feed[u]
    BY <1>6 DEF FeedInv, FeedParts, Chain
  <2> QED BY <2>1, <2>2, <2>3, <2>4, <2>5, KeptChain
<1>10. WaitInv'
  <2> SUFFICES ASSUME NEW j \in Tasks, j \notin cancelled', pc'[j] = "cast"
               PROVE  Queued(lockQ', j)
    BY DEF WaitInv
  <2>1. j # k /\ j # h /\ j \notin cancelled
    BY <1>2
  <2> QED BY <2>1, <1>4, <1>7 DEF FeedInv, FeedParts, WaitInv
<1>11. WordInv'
  BY <1>4 DEF FeedInv, FeedParts, WordInv
<1>12. FeedType'
  BY <1>6 DEF FeedInv, FeedParts, FeedType
<1> QED BY <1>8, <1>9, <1>10, <1>11, <1>12 DEF FeedParts, Chain

-----------------------------------------------------------------------------
(* The invariant and the refinement.                                       *)

LEMMA FeedInitInv == FeedInit => FeedInv
<1> SUFFICES ASSUME FeedInit PROVE FeedInv
  OBVIOUS
<1>1. IInv
  BY InitInv DEF FeedInit
<1>2. /\ lockQ = <<>>
      /\ \A k \in Tasks : pc[k] \in {"new", "free"}
  BY ProcsAssumption DEF FeedInit, Init, Workers, Procs
<1>3. FeedType
  BY DEF FeedInit, FeedType, Statuses
<1>4. ASSUME NEW t \in TaskIds
      PROVE  ChainOf(t)
  <2>1. Pending(t) = {}
    BY <1>2 DEF Pending, Queued
  <2>2. LastWord(t, feed[t])
    <3>1. CASE running[t] = Nobody
      BY <3>1 DEF FeedInit, LastWord
    <3>2. CASE running[t] # Nobody
      BY <3>2, <1>1, <1>2, RunningTask DEF FeedInit, LastWord
    <3> QED BY <3>1, <3>2
  <2> QED BY <2>1, <2>2 DEF ChainOf, FirstInv, NextOneInv, LastInv, TaskInv
<1>5. WaitInv /\ WordInv
  BY <1>2 DEF WaitInv, WordInv
<1> QED BY <1>1, <1>3, <1>4, <1>5 DEF FeedInv, FeedParts, Chain

\* Every step keeps the chains.
LEMMA FeedNextInv == FeedInv /\ [FeedNext]_feedVars => FeedInv'
<1> SUFFICES ASSUME FeedInv, [FeedNext]_feedVars PROVE FeedInv'
  OBVIOUS
<1>1. IInv'
  BY NextInv DEF FeedInv, FeedNext, feedVars
<1>2. CASE UNCHANGED feedVars
  <2>1. ObserveFeed
    <3>1. Beginning = {} /\ feed' = feed
      BY <1>2 DEF Beginning, feedVars, vars
    <3> QED BY <3>1 DEF ObserveFeed, FeedInv, FeedParts, FeedType
  <2> QED BY <1>1, <1>2, <2>1, RestQuiet DEF feedVars, FeedInv
<1>3. CASE FeedNext
  <2> USE <1>1, <1>3 DEF FeedNext
  <2>1. CASE Environment
    BY <2>1, HandlerQuiet, ClientQuiet, RestQuiet DEF Environment, FeedInv
  <2>2. CASE \E h \in Handlers : HandlerStep(h)
    BY <2>2, HandlerQuiet, StartKeeps, StopKeeps DEF HandlerStep, FeedInv
  <2>3. CASE \E p \in Workers : BroadcastStep(p)
    BY <2>3, BeginKeeps, EndQuiet, SendQuiet DEF BroadcastStep, FeedInv
  <2>4. CASE \E k \in Tasks : TaskStep(k)
    BY <2>4, TaskKeeps, TaskQuiet DEF TaskStep, FeedInv
  <2>5. CASE \E c \in Clients : ClientStep(c)
    BY <2>5, ClientQuiet DEF ClientStep, FeedInv
  <2> QED BY <2>1, <2>2, <2>3, <2>4, <2>5 DEF Next
<1> QED BY <1>2, <1>3

\* So they hold in every reachable state.
LEMMA FeedInvariance == FeedSpec => []FeedInv
BY FeedInitInv, FeedNextInv, PTL DEF FeedSpec

\* A step is one of the promised changes of one id, or changes none.
LEMMA StepKeepsPromise ==
    ASSUME FeedInv, [FeedNext]_feedVars
    PROVE  [Promise!Next]_feed
<1>1. CASE UNCHANGED feedVars
  BY <1>1 DEF feedVars
<1>2. CASE FeedNext /\ \A p \in Workers : ~BeginBroadcast(p)
  <2>1. ASSUME NEW p \in Workers, pc[p] = "cast", pc'[p] = "send"
        PROVE  FALSE
    <3>1. /\ IInv /\ pc \in [Procs -> HandlerPC \cup TaskPC \cup ClientPC]
          /\ p \in Procs
      BY DEF FeedInv, IInv, TypeOK, Procs
    <3> USE <2>1, <3>1, ProcsAssumption
    <3>2. CASE Environment
      BY <3>2 DEF Environment, PutConfig, RequestStart, RequestStop, Connect, Disconnect,
         EditProxies, Goto, Workers, Procs
    <3>3. CASE \E h \in Handlers : HandlerStep(h)
      <4> PICK h \in Handlers : HandlerStep(h)
        BY <3>3
      <4>1. CASE RestartNext(h) \/ StartOnStartup(h) \/ NothingToStart(h)
        BY <4>1 DEF RestartNext, StartOnStartup, NothingToStart, Finish, Goto
      <4>2. CASE StartTask(h)
        BY <4>2 DEF StartTask
      <4>3. CASE StopTask(h) \/ AlreadyRunning(h)
        BY <4>3 DEF StopTask, AlreadyRunning, Finish, Goto
      <4>4. CASE NotRunning(h) \/ Join(h)
        BY <4>4 DEF NotRunning, Join, AfterStop, Finish, Goto
      <4> QED BY <4>1, <4>2, <4>3, <4>4 DEF HandlerStep
    <3>4. CASE \E q \in Workers : BroadcastStep(q)
      <4> PICK q \in Workers : BroadcastStep(q)
        BY <3>4
      <4>1. CASE EndBroadcast(q)
        <5>1. q # p
          BY <4>1 DEF EndBroadcast
        <5> QED BY <4>1, <5>1 DEF EndBroadcast, Finish, Goto
      <4> QED BY <1>2, <4>1 DEF BroadcastStep, Deliver, DeliverFails
    <3>5. CASE \E k \in Tasks : TaskStep(k)
      BY <3>5 DEF TaskStep, CycleStart, CollectStart, CollectNothing, CollectEnd, Unwind, Goto
    <3>6. CASE \E c \in Clients : ClientStep(c)
      BY <3>6 DEF ClientStep, Register, Unregister, Goto
    <3> QED BY <1>2, <3>2, <3>3, <3>4, <3>5, <3>6 DEF FeedNext, Next
  <2> QED BY <1>2, <2>1, FeedStays DEF FeedNext, FeedInv, FeedParts
<1>3. ASSUME FeedNext, NEW p \in Workers, BeginBroadcast(p)
      PROVE  Promise!Next
  <2>1. /\ tid[p] \in TaskIds /\ Legal(feed[tid[p]], msg[p])
        /\ feed' = [feed EXCEPT ![tid[p]] = msg[p]]
    BY <1>3, BeginKeeps DEF FeedNext
  <2>2. PICK t \in TaskIds : \E m : Legal(feed[t], m) /\ feed' = [feed EXCEPT ![t] = m]
    BY <2>1
  <2>3. Promise!Announce(t) \/ Promise!Collect(t) \/ Promise!Report(t) \/ Promise!Stop(t)
    BY <2>2 DEF Legal, Promise!Announce, Promise!Collect, Promise!Report, Promise!Stop
  <2> QED BY <2>3 DEF Promise!Next
<1> QED BY <1>1, <1>2, <1>3

(***************************************************************************)
(* However many starts, stops and restarts wait for the lock at once, what *)
(* the web socket says of an id follows its life cycle: it is announced,   *)
(* collects and reports in turn, is stopped, and is not heard of again     *)
(* until it is announced again (_broadcast_status).                        *)
(***************************************************************************)
THEOREM PromiseIsKept == FeedSpec => KeepsPromise
<1>1. FeedInit => Promise!Init
  BY DEF FeedInit, Promise!Init
<1>2. FeedInv /\ [FeedNext]_feedVars => [Promise!Next]_feed
  BY StepKeepsPromise
<1> QED BY <1>1, <1>2, FeedInvariance, PTL DEF FeedSpec, KeepsPromise, Promise!Spec

-----------------------------------------------------------------------------
(* What the clients make of it.                                            *)

\* News of t that c has yet to get, or that it failed to get.
News(c, t) ==
    \E h \in Handlers : /\ tid[h] = t
                        /\ pc[h] = "cast" \/ (pc[h] = "send" /\ c \in unsent \cup failed)

\* Without such news a registered client is right.
ViewInv ==
    /\ view \in [Clients -> SUBSET TaskIds]
    /\ \A c \in clients, t \in TaskIds : News(c, t) \/ (t \in view[c] <=> running[t] # Nobody)

\* What is being sent was broadcast last; a broadcast that is over has
\* reached everybody.
SendingInv ==
    /\ \A p \in Workers : pc[p] = "send" => tid[p] \in TaskIds /\ feed[tid[p]] = msg[p]
    /\ unsent # {} => \E p \in Workers : pc[p] = "send"

ClientInv == FeedInv /\ ViewInv /\ SendingInv

\* A step that delivers nothing keeps the pictures right if it makes news of
\* whatever it changes.
LEMMA ViewKept ==
    ASSUME ViewInv, ObserveView, IInv',
           \A c \in Clients : ~Delivered(c),
           clients' \subseteq clients \/ running' = running,
           \A c \in clients \cap clients', t \in TaskIds :
              News(c, t)' \/ (~News(c, t) /\ (running'[t] = Nobody <=> running[t] = Nobody))
    PROVE  ViewInv'
<1>1. clients' \subseteq Clients
  BY DEF IInv, TypeOK
<1>2. ASSUME NEW c \in Clients
      PROVE  view'[c] = CASE c \in clients' \ clients -> RunningIds
                          [] c \in clients \ clients' -> {}
                          [] OTHER -> view[c]
  <2>1. ~Delivered(c)
    OBVIOUS
  <2> QED BY <2>1 DEF ObserveView
<1>3. view' \in [Clients -> SUBSET TaskIds]
  <2>1. DOMAIN view' = Clients /\ view' = [c \in Clients |-> view'[c]]
    BY DEF ObserveView
  <2>2. \A c \in Clients : view'[c] \in SUBSET TaskIds
    BY <1>2 DEF ViewInv, RunningIds
  <2> QED BY <2>1, <2>2
<1>4. ASSUME NEW c \in clients', NEW t \in TaskIds, ~News(c, t)'
      PROVE  t \in view'[c] <=> running'[t] # Nobody
  <2>1. CASE c \in clients
    BY <2>1, <1>1, <1>2, <1>4 DEF ViewInv
  <2>2. CASE c \notin clients
    BY <2>2, <1>1, <1>2, <1>4 DEF RunningIds
  <2> QED BY <2>1, <2>2
<1> QED BY <1>3, <1>4 DEF ViewInv

\* A handler's word, once it is sent and no other handler has one about the
\* same id, is what the table says.
LEMMA LastNewsIsTrue ==
    ASSUME ClientInv, NEW h \in Handlers, pc[h] = "send",
           \A g \in Handlers : ~(pc[g] = "cast" /\ tid[g] = tid[h])
    PROVE  /\ msg[h] \in {"started", "stopped"}
           /\ msg[h] = "stopped" <=> running[tid[h]] = Nobody
<1>1. PICK t \in TaskIds : t = tid[h] /\ feed[t] = msg[h]
  BY DEF ClientInv, SendingInv, Workers
<1>2. IInv /\ FirstInv(t) /\ LastInv(t) /\ TaskInv(t)
  BY DEF ClientInv, FeedInv, FeedParts, Chain, ChainOf
<1>3. msg[h] \in {"started", "stopped"}
  BY <1>2 DEF IInv, LocalsInv
<1>4. Pending(t) \subseteq Tasks
  BY <1>1 DEF Pending, Workers
<1>5. CASE Pending(t) = {}
  <2>1. LastWord(t, msg[h])
    BY <1>1, <1>2, <1>5 DEF LastInv
  <2>2. CASE running[t] = Nobody
    BY <2>1, <2>2, <1>1, <1>3 DEF LastWord
  <2>3. CASE running[t] # Nobody /\ pc[running[t]] = "new"
    BY <2>1, <2>3, <1>1, <1>3 DEF LastWord
  <2>4. CASE running[t] # Nobody /\ pc[running[t]] # "new"
    <3>1. PICK k \in Tasks : k = running[t] /\ k \notin cancelled /\ pc[k] # "free" /\ tid[k] = t
      BY <1>2, <2>4, RunningTask
    <3>2. pc[k] # "cast"
      BY <3>1, <1>5 DEF Pending, Workers, ClientInv, FeedInv, FeedParts, WaitInv
    <3>3. pc[k] \in {"send", "collect", "gather", "sleep"}
      BY <3>1, <3>2, <2>4, <1>2 DEF IInv, TypeOK, TaskPC
    <3>4. msg[k] \in {"collecting", "completed", "error"}
      BY <3>3, <1>2 DEF IInv, LocalsInv, ClientInv, FeedInv, FeedParts, WordInv
    <3> QED BY <3>1, <3>4, <2>1, <2>4, <1>3 DEF LastWord
  <2> QED BY <2>2, <2>3, <2>4
<1>6. CASE Pending(t) # {}
  <2>1. PICK k \in Tasks : k \in Pending(t) /\ running[t] = k
    BY <1>2, <1>4, <1>6, PendingTask
  <2>2. Pending(t) = {k}
    BY <2>1, <1>2, <1>4, PendingTask
  <2>3. Legal(msg[h], msg[k])
    BY <2>1, <2>2, <1>1, <1>2 DEF FirstInv
  <2>4. msg[k] \in {"collecting", "completed", "error"}
    BY <2>1, <1>2 DEF Pending, IInv, LocalsInv
  <2>5. k # Nobody
    BY <2>1, ProcsAssumption DEF Procs, Workers
  <2> QED BY <2>1, <2>3, <2>4, <2>5, <1>1, <1>3 DEF Legal
<1> QED BY <1>3, <1>5, <1>6

(***************************************************************************)
(* Steps that send nothing: whoever was to broadcast still is, and who     *)
(* changes the table is to broadcast it.                                   *)
(***************************************************************************)
Calm ==
    /\ unsent' = unsent /\ failed' = failed
    /\ clients' \subseteq clients \/ running' = running
    /\ \A p \in Workers : /\ pc'[p] = "send" <=> pc[p] = "send"
                          /\ pc[p] = "send" => tid'[p] = tid[p] /\ msg'[p] = msg[p]
    /\ \A h \in Handlers : pc[h] = "cast" => pc'[h] = "cast" /\ tid'[h] = tid[h]
    /\ \A t \in TaskIds : \/ running'[t] = running[t]
                          \/ \E h \in Handlers : pc'[h] = "cast" /\ tid'[h] = t

\* A step that changes neither the table nor a broadcast keeps them.
LEMMA CalmKeeps ==
    ASSUME ClientInv, IInv', ObserveFeed, ObserveView, Calm
    PROVE  ViewInv' /\ SendingInv'
<1> USE DEF Workers
<1>1. feed' = feed
  BY FeedStays DEF Calm, ClientInv, FeedInv, FeedParts
<1>2. SendingInv'
  BY <1>1 DEF Calm, ClientInv, SendingInv
<1>3. \A c \in Clients : ~Delivered(c)
  BY DEF Calm, Delivered
<1>4. ASSUME NEW c, NEW t \in TaskIds, ~News(c, t)'
      PROVE  ~News(c, t) /\ running'[t] = running[t]
  <2>1. ASSUME NEW h \in Handlers, tid[h] = t,
               pc[h] = "cast" \/ (pc[h] = "send" /\ c \in unsent \cup failed)
        PROVE  FALSE
    <3>1. /\ tid'[h] = t
          /\ pc'[h] = "cast" \/ (pc'[h] = "send" /\ c \in unsent' \cup failed')
      BY <2>1 DEF Calm
    <3> QED BY <3>1, <1>4 DEF News
  <2>2. running'[t] = running[t]
    BY <1>4 DEF Calm, News
  <2> QED BY <2>1, <2>2 DEF News
<1>5. ViewInv /\ (clients' \subseteq clients \/ running' = running)
  BY DEF Calm, ClientInv
<1>6. \A c \in clients \cap clients', t \in TaskIds :
         News(c, t)' \/ (~News(c, t) /\ (running'[t] = Nobody <=> running[t] = Nobody))
  BY <1>4
<1> QED BY <1>2, <1>3, <1>5, <1>6, ViewKept

\* These are the steps that do not.
LEMMA CalmSteps ==
    ASSUME IInv, [Next]_vars, \A p \in Workers : ~BroadcastStep(p)
    PROVE  Calm
<1> USE ProcsAssumption DEF Workers, Procs
<1>1. /\ pc \in [Procs -> HandlerPC \cup TaskPC \cup ClientPC]
      /\ tid \in [Workers -> TaskIds \cup {Nobody}]
      /\ msg \in [Workers -> Statuses \cup {"none"}]
      /\ running \in [TaskIds -> Tasks \cup {Nobody}]
  BY DEF IInv, TypeOK
<1>2. CASE UNCHANGED vars \/ EditProxies
  BY <1>2 DEF vars, EditProxies, Calm, argVars, castVars
<1>3. ASSUME NEW h \in Handlers,
             \/ PutConfig(h) \/ RequestStart(h) \/ RequestStop(h)
             \/ RestartNext(h) \/ StartOnStartup(h)
      PROVE  Calm
  <2>1. /\ unsent' = unsent /\ failed' = failed /\ clients' = clients /\ running' = running
        /\ pc[h] \in {"idle", "restart"} /\ pc'[h] \in {"restart", "start", "stop"}
        /\ \A q \in Workers \ {h} : pc'[q] = pc[q] /\ tid'[q] = tid[q] /\ msg'[q] = msg[q]
    BY <1>1, <1>3 DEF PutConfig, RequestStart, RequestStop, RestartNext, StartOnStartup,
       Goto, castVars
  <2> QED BY <2>1 DEF Calm
<1>4. ASSUME NEW h \in Handlers,
             NothingToStart(h) \/ AlreadyRunning(h) \/ NotRunning(h) \/ Join(h)
      PROVE  Calm
  <2>1. /\ unsent' = unsent /\ failed' = failed /\ clients' = clients /\ running' = running
        /\ pc[h] \in {"restart", "start", "stop", "join"} /\ pc'[h] \in {"restart", "idle"}
        /\ \A q \in Workers \ {h} : pc'[q] = pc[q] /\ tid'[q] = tid[q] /\ msg'[q] = msg[q]
    BY <1>1, <1>4 DEF NothingToStart, AlreadyRunning, NotRunning, Join, AfterStop, Finish,
       Goto, castVars
  <2> QED BY <2>1 DEF Calm
<1>5. ASSUME NEW h \in Handlers, StartTask(h)
      PROVE  Calm
  <2>1. PICK k \in Tasks :
          /\ pc[k] = "free" /\ pc[h] = "start"
          /\ running' = [running EXCEPT ![tid[h]] = k]
          /\ pc'  = [pc EXCEPT ![h] = "cast", ![k] = "new"]
          /\ tid' = [tid EXCEPT ![k] = tid[h]]
          /\ msg' = [msg EXCEPT ![h] = "started"]
          /\ unsent' = unsent /\ failed' = failed /\ clients' = clients
    BY <1>5 DEF StartTask, FreeTasks, castVars
  <2>2. /\ \A q \in Workers \ {h, k} : pc'[q] = pc[q] /\ tid'[q] = tid[q] /\ msg'[q] = msg[q]
        /\ pc'[h] = "cast" /\ tid'[h] = tid[h] /\ pc'[k] = "new" /\ h # k
    BY <1>1, <2>1
  <2>3. \A t \in TaskIds : t # tid[h] => running'[t] = running[t]
    BY <1>1, <2>1
  <2> QED BY <2>1, <2>2, <2>3 DEF Calm
<1>6. ASSUME NEW h \in Handlers, StopTask(h)
      PROVE  Calm
  <2>1. /\ pc[h] = "stop" /\ pc' = [pc EXCEPT ![h] = "cast"] /\ tid' = tid
        /\ msg' = [msg EXCEPT ![h] = "stopped"]
        /\ running' = [running EXCEPT ![tid[h]] = Nobody]
        /\ unsent' = unsent /\ failed' = failed /\ clients' = clients
    BY <1>6 DEF StopTask, Goto, castVars
  <2>2. /\ \A q \in Workers \ {h} : pc'[q] = pc[q] /\ msg'[q] = msg[q]
        /\ pc'[h] = "cast"
    BY <1>1, <2>1
  <2>3. \A t \in TaskIds : t # tid[h] => running'[t] = running[t]
    BY <1>1, <2>1
  <2> QED BY <2>1, <2>2, <2>3 DEF Calm
<1>7. ASSUME NEW k \in Tasks, TaskStep(k)
      PROVE  Calm
  <2>1. /\ unsent' = unsent /\ failed' = failed /\ clients' = clients /\ running' = running
        /\ pc[k] # "send" /\ pc'[k] # "send"
        /\ \A q \in Workers \ {k} : pc'[q] = pc[q] /\ tid'[q] = tid[q] /\ msg'[q] = msg[q]
    <3>1. CASE CycleStart(k) \/ CollectStart(k) \/ CollectNothing(k) \/ CollectEnd(k)
      BY <1>1, <3>1 DEF CycleStart, CollectStart, CollectNothing, CollectEnd, Goto, argVars,
         castVars
    <3>2. CASE Unwind(k)
      BY <1>1, <3>2 DEF Unwind, Goto, castVars, IInv, StoppedIsSilent
    <3> QED BY <3>1, <3>2, <1>7 DEF TaskStep
  <2> QED BY <2>1 DEF Calm
<1>8. ASSUME NEW c \in Clients, Connect(c) \/ Disconnect(c) \/ Register(c) \/ Unregister(c)
      PROVE  Calm
  <2>1. /\ unsent' = unsent /\ failed' = failed /\ running' = running
        /\ tid' = tid /\ msg' = msg
        /\ \A q \in Workers : pc'[q] = pc[q]
    BY <1>1, <1>8 DEF Connect, Disconnect, Register, Unregister, Goto, argVars, castVars
  <2> QED BY <2>1 DEF Calm
<1> QED BY <1>2, <1>3, <1>4, <1>5, <1>6, <1>7, <1>8
        DEF Next, Environment, HandlerStep, ClientStep

\* There is one sender, with the lock.
LEMMA OneSender ==
    ASSUME IInv, NEW p \in Workers, pc[p] = "send" \/ Holds(p)
    PROVE  \A q \in Workers : pc[q] = "send" => q = p
BY DEF IInv, SenderInv, Holds

\* To begin a broadcast makes every client one it is still to reach.
LEMMA BeginIsHeard ==
    ASSUME ClientInv, IInv', ObserveFeed, ObserveView, NEW p \in Workers, BeginBroadcast(p)
    PROVE  ViewInv' /\ SendingInv'
<1> USE ProcsAssumption DEF Workers, Procs
<1>1. /\ FeedInv /\ IInv /\ ViewInv /\ SendingInv
      /\ pc \in [Procs -> HandlerPC \cup TaskPC \cup ClientPC]
      /\ feed \in [TaskIds -> Statuses]
  BY DEF ClientInv, FeedInv, FeedParts, FeedType, IInv, TypeOK
<1>2. /\ pc[p] = "cast" /\ Holds(p) /\ pc' = [pc EXCEPT ![p] = "send"]
      /\ unsent' = clients /\ failed' = {}
      /\ clients' = clients /\ running' = running /\ tid' = tid /\ msg' = msg
  BY DEF BeginBroadcast, Goto, argVars
<1>3. /\ \A q \in Workers \ {p} : pc'[q] = pc[q]
      /\ pc'[p] = "send"
  BY <1>1, <1>2
<1>4. \A q \in Workers : pc[q] # "send"
  BY <1>1, <1>2, OneSender
<1>5. tid[p] \in TaskIds /\ feed' = [feed EXCEPT ![tid[p]] = msg[p]]
  BY <1>1, BeginKeeps
<1>6. SendingInv'
  BY <1>1, <1>2, <1>3, <1>4, <1>5 DEF SendingInv
<1>7. \A c \in Clients : ~Delivered(c)
  BY <1>1, <1>4 DEF SendingInv, Delivered
<1>8. ASSUME NEW c \in clients, NEW t \in TaskIds, News(c, t)
      PROVE  News(c, t)'
  <2>1. PICK h \in Handlers : tid[h] = t /\ pc[h] = "cast"
    BY <1>4, <1>8 DEF News
  <2>2. tid'[h] = t /\ (pc'[h] = "cast" \/ (pc'[h] = "send" /\ c \in unsent'))
    BY <2>1, <1>2, <1>3
  <2> QED BY <2>2 DEF News
<1> QED BY <1>1, <1>2, <1>6, <1>7, <1>8, ViewKept

\* A client whose socket fails is registered no longer.
LEMMA FailureIsExcused ==
    ASSUME ClientInv, IInv', ObserveFeed, ObserveView,
           NEW p \in Workers, NEW c \in Clients, DeliverFails(p, c)
    PROVE  ViewInv' /\ SendingInv'
<1>1. /\ pc[p] = "send" /\ pc' = pc /\ tid' = tid /\ msg' = msg
      /\ clients' = clients /\ running' = running
      /\ unsent' = unsent \ {c} /\ failed' = failed \cup {c} /\ c \in unsent
  BY DEF DeliverFails, argVars
<1>2. feed' = feed
  BY <1>1, FeedStays DEF ClientInv, FeedInv, FeedParts
<1>3. SendingInv'
  BY <1>1, <1>2 DEF ClientInv, SendingInv
<1>4. \A d \in Clients : ~Delivered(d)
  BY <1>1 DEF Delivered
<1>5. \A d, t : News(d, t)' <=> News(d, t)
  BY <1>1 DEF News
<1>6. ViewInv
  BY DEF ClientInv
<1> QED BY <1>1, <1>3, <1>4, <1>5, <1>6, ViewKept

\* A broadcast ends when it has reached everybody.
LEMMA EndIsHeard ==
    ASSUME ClientInv, IInv', ObserveFeed, ObserveView, NEW p \in Workers, EndBroadcast(p)
    PROVE  ViewInv' /\ SendingInv'
<1> USE ProcsAssumption DEF Workers, Procs
<1>1. /\ FeedInv /\ IInv /\ ViewInv /\ SendingInv
      /\ pc \in [Procs -> HandlerPC \cup TaskPC \cup ClientPC]
      /\ tid \in [Workers -> TaskIds \cup {Nobody}]
  BY DEF ClientInv, FeedInv, IInv, TypeOK
<1>2. /\ pc[p] = "send" /\ unsent = {} /\ unsent' = {} /\ failed' = {}
      /\ clients' = clients \ failed /\ running' = running
      /\ IF msg[p] = "started" THEN Finish(p) ELSE Goto(p, AfterBroadcast[msg[p]]) /\ UNCHANGED argVars
  BY DEF EndBroadcast
<1>3. \A q \in Workers : pc[q] = "send" => q = p
  BY <1>1, <1>2, OneSender
<1>4. \A q \in Workers \ {p} : pc'[q] = pc[q] /\ tid'[q] = tid[q]
  BY <1>1, <1>2 DEF Finish, Goto, argVars
<1>5. pc'[p] # "send" /\ pc'[p] # "cast"
  <2>1. /\ p \in Handlers => msg[p] \in {"started", "stopped"}
        /\ p \in Tasks => msg[p] \in {"collecting", "completed", "error"}
    BY <1>1, <1>2 DEF IInv, LocalsInv
  <2>2. CASE msg[p] = "started"
    BY <2>2, <1>1, <1>2 DEF Finish, Goto
  <2>3. CASE msg[p] # "started"
    BY <2>1, <2>3, <1>1, <1>2 DEF Goto, AfterBroadcast
  <2> QED BY <2>2, <2>3
<1>6. \A q \in Workers : pc'[q] # "send"
  BY <1>3, <1>4, <1>5
<1>7. SendingInv'
  BY <1>2, <1>6 DEF SendingInv
<1>8. \A c \in Clients : ~Delivered(c)
  BY <1>2 DEF Delivered
<1>9. ASSUME NEW c \in clients \cap clients', NEW t \in TaskIds, News(c, t)
      PROVE  News(c, t)'
  <2>1. PICK h \in Handlers : tid[h] = t /\ pc[h] = "cast"
    BY <1>2, <1>9 DEF News
  <2>2. tid'[h] = t /\ pc'[h] = "cast"
    BY <2>1, <1>2, <1>4
  <2> QED BY <2>2 DEF News
<1> QED BY <1>1, <1>2, <1>7, <1>8, <1>9, ViewKept

\* c gets the word of p: the last one about its id, unless more is to come.
LEMMA DeliveryIsHeard ==
    ASSUME ClientInv, IInv', ObserveFeed, ObserveView,
           NEW p \in Workers, NEW c \in Clients, Deliver(p, c)
    PROVE  ViewInv' /\ SendingInv'
<1> USE ProcsAssumption DEF Workers, Procs
<1>1. /\ FeedInv /\ IInv /\ ViewInv /\ SendingInv
  BY DEF ClientInv, FeedInv
<1>2. /\ pc[p] = "send" /\ pc' = pc /\ tid' = tid /\ msg' = msg
      /\ clients' = clients /\ running' = running
      /\ unsent' = unsent \ {c} /\ failed' = failed /\ c \in unsent
  BY DEF Deliver, argVars
<1>3. feed' = feed
  BY <1>2, FeedStays DEF ClientInv, FeedInv, FeedParts
<1>4. SendingInv'
  BY <1>1, <1>2, <1>3 DEF SendingInv
<1>5. CASE c \in failed
  <2>1. \A d \in Clients : ~Delivered(d)
    BY <1>2, <1>5 DEF Delivered
  <2>2. \A d, t : News(d, t)' <=> News(d, t)
    BY <1>2, <1>5 DEF News
  <2> QED BY <2>1, <2>2, <1>1, <1>2, <1>4, ViewKept
<1>6. CASE c \notin failed
  <2>1. Sender = p
    BY <1>1, <1>2, OneSender DEF Sender
  <2>2. PICK u \in TaskIds : u = tid[p]
    BY <1>1, <1>2 DEF SendingInv
  <2>3. /\ \A d \in Clients \ {c} : view'[d] = view[d]
        /\ view'[c] = Told(view[c], u, msg[p])
        /\ view' = [d \in Clients |-> view'[d]]
    BY <1>2, <1>6, <2>1, <2>2 DEF ObserveView, Delivered
  <2>4. view' \in [Clients -> SUBSET TaskIds]
    <3>1. \A d \in Clients : view'[d] \in SUBSET TaskIds
      BY <1>1, <2>3 DEF ViewInv, Told
    <3> QED BY <2>3, <3>1
  <2>5. ASSUME NEW d \in clients, NEW t \in TaskIds, ~News(d, t)', d # c \/ t # u
        PROVE  ~News(d, t)
    BY <1>1, <1>2, <2>2, <2>5, OneSender DEF News
  <2>6. ASSUME NEW d \in clients, NEW t \in TaskIds, ~News(d, t)'
        PROVE  t \in view'[d] <=> running[t] # Nobody
    <3>0. d \in Clients
      BY <1>1 DEF IInv, TypeOK
    <3>1. CASE d # c
      BY <3>0, <3>1, <2>3, <2>5, <2>6, <1>1 DEF ViewInv
    <3>2. CASE d = c /\ t # u
      <4>1. t \in view'[c] <=> t \in view[c]
        BY <3>2, <2>3 DEF Told
      <4> QED BY <3>2, <4>1, <2>5, <2>6, <1>1 DEF ViewInv
    <3>3. CASE d = c /\ t = u /\ p \in Handlers
      <4>1. \A g \in Handlers : ~(pc[g] = "cast" /\ tid[g] = tid[p])
        BY <3>3, <2>2, <2>6, <1>2 DEF News
      <4>2. msg[p] = "stopped" <=> running[u] = Nobody
        BY <4>1, <3>3, <1>2, <2>2, LastNewsIsTrue
      <4> QED BY <4>2, <3>3, <2>3 DEF Told
    <3>4. CASE d = c /\ t = u /\ p \in Tasks
      <4>1. running[u] = p /\ msg[p] # "stopped"
        BY <3>4, <1>1, <1>2, <2>2 DEF IInv, StoppedIsSilent, OneCollectorPerId, LocalsInv
      <4> QED BY <4>1, <3>4, <2>3 DEF Told
    <3> QED BY <3>1, <3>2, <3>3, <3>4
  <2>7. ViewInv'
    BY <1>2, <2>4, <2>6 DEF ViewInv
  <2> QED BY <2>7, <1>4
<1> QED BY <1>5, <1>6

\* In the beginning nobody is connected.
LEMMA ClientInitInv == FeedInit => ClientInv
<1> SUFFICES ASSUME FeedInit PROVE ClientInv
  OBVIOUS
<1>1. \A p \in Workers : pc[p] # "send"
  BY ProcsAssumption DEF FeedInit, Init, Workers, Procs
<1>2. ViewInv /\ SendingInv
  BY <1>1 DEF FeedInit, Init, ViewInv, SendingInv
<1> QED BY <1>2, FeedInitInv DEF ClientInv

\* Every step keeps the pictures right.
LEMMA ClientNextInv == ClientInv /\ [FeedNext]_feedVars => ClientInv'
<1> SUFFICES ASSUME ClientInv, [FeedNext]_feedVars PROVE ClientInv'
  OBVIOUS
<1>1. FeedInv' /\ IInv'
  BY FeedNextInv DEF ClientInv, FeedInv
<1>2. CASE UNCHANGED feedVars
  BY <1>1, <1>2 DEF feedVars, vars, ClientInv, ViewInv, News, SendingInv
<1>3. CASE FeedNext /\ \E p \in Workers : BroadcastStep(p)
  <2> USE <1>1, <1>3 DEF FeedNext
  <2> PICK p \in Workers : BroadcastStep(p)
    BY <1>3
  <2>1. CASE BeginBroadcast(p)
    BY <2>1, BeginIsHeard DEF ClientInv
  <2>2. CASE EndBroadcast(p)
    BY <2>2, EndIsHeard DEF ClientInv
  <2>3. ASSUME NEW c \in Clients, Deliver(p, c) \/ DeliverFails(p, c)
        PROVE  ClientInv'
    BY <2>3, DeliveryIsHeard, FailureIsExcused DEF ClientInv
  <2> QED BY <2>1, <2>2, <2>3 DEF BroadcastStep
<1>4. CASE FeedNext /\ \A p \in Workers : ~BroadcastStep(p)
  <2>1. Calm
    BY <1>4, CalmSteps DEF FeedNext, ClientInv, FeedInv
  <2> QED BY <2>1, <1>1, <1>4, CalmKeeps DEF FeedNext, ClientInv
<1> QED BY <1>2, <1>3, <1>4

(***************************************************************************)
(* However starts, stops, broadcasts, failing sends and browsers that come *)
(* and go fall, a registered browser has been told what is running as soon *)
(* as no "started" or "stopped" is under way (register_websocket and the   *)
(* initial_status that follows it without an await).                       *)
(***************************************************************************)
THEOREM ClientsAreRight == FeedSpec => []ClientsKnowWhatRuns
<1>1. ClientInv => ClientsKnowWhatRuns
  <2> SUFFICES ASSUME ClientInv, ~NewsUnderWay, NEW c \in clients
               PROVE  view[c] = RunningIds
    BY DEF ClientsKnowWhatRuns
  <2>1. c \in Clients /\ view[c] \subseteq TaskIds
    BY DEF ClientInv, ViewInv, FeedInv, IInv, TypeOK
  <2>2. \A t \in TaskIds : t \in view[c] <=> running[t] # Nobody
    BY DEF ClientInv, ViewInv, News, NewsUnderWay
  <2> QED BY <2>1, <2>2 DEF RunningIds
<1> QED BY <1>1, ClientInitInv, ClientNextInv, PTL DEF FeedSpec
=============================================================================
