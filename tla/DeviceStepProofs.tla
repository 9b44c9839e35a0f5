-------------------------- MODULE DeviceStepProofs --------------------------
(***************************************************************************)
(* The PnP, power policy and power machines of a device keep in step, and  *)
(* what follows: the driver's callbacks come in the order it is promised,  *)
(* device power IRPs come one at a time, and no machine drops the order or *)
(* the answer it waits for.                                                *)
(*                                                                         *)
(* The machines talk by events, so that the invariant tells of each order  *)
(* whose turn it is: nobody's, its own while it is queued, that of the     *)
(* machine which carries it out, or that of its answer (Lockstep for the   *)
(* power policy and the power machine, PnpLockstep for the PnP and the     *)
(* power policy machine), and where the other machine is meanwhile.  Of    *)
(* the queues only what they hold of orders and answers matters (In, Lone, *)
(* Without).  On the turns rests what self managed I/O, driven by two of   *)
(* the machines, may be asked to do (SmioInv).                             *)
(***************************************************************************)
EXTENDS DevicePowerProofs, FiniteSetTheorems

-----------------------------------------------------------------------------
(***************************************************************************)
(* The queues.  Of the events in a queue only those matter here that are   *)
(* orders or answers: at most one of each kind is on its way at a time.    *)
(***************************************************************************)
In(s, a) == \E i \in DOMAIN s : s[i] = a

(* events of A in s: none, at most one, or just a *)
Without(s, A) == \A a \in A : ~In(s, a)
Lone(s, A) == \A i, j \in DOMAIN s : s[i] \in A /\ s[j] \in A => i = j
Sole(s, A, a) == In(s, a) /\ Lone(s, A)

(* t has the events of A that s has *)
Same(s, t, A) == (\A a \in A : In(t, a) <=> In(s, a)) /\ (Lone(s, A) => Lone(t, A))

(* s had none of A, and t has a at most *)
Gets(s, t, A, a) == Without(s, A) => Without(t, A) \/ Sole(t, A, a)

(* orders of the PnP machine to the power policy machine, and its answers; *)
(* what the power machine answers has a name, PwrPolPriorityEventsMask     *)
Orders == {"Start", "Stop", "SurpriseRemove", "Remove"}

Statuses == {"PwrPolStarted", "PwrPolStartFailed", "PwrPolStopped", "PwrPolStopFailed",
             "PwrPolRemoved"}

(* all that is ever posted *)
Events ==
    PwrPolPriorityEventsMask \cup Orders \cup Statuses \cup
    {"ImplicitD0", "ImplicitD3", "D0", "Dx", "CompleteD0", "CompleteDx", "DeviceInD0",
     "PowerTimeoutExpired", "IoPresent", "S0IdlePolicyChanged", "Sx", "S0", "StartDevice",
     "StartDeviceComplete", "StartDeviceFailed", "QueryStop", "CancelStop", "QueryRemove",
     "CancelRemove"}

Queues == [pnp : Seq(Events), policy : Seq(Events), power : Seq(Events), lost : BOOLEAN]

(* What a step does to the queues: nothing that matters, or an order, an   *)
(* answer or a status is posted, unless its queue is full                  *)
AnswersStay(q, t) == t.power = q.power /\ Same(q.policy, t.policy, PwrPolPriorityEventsMask)
OrdersStay(q, t) == Same(q.policy, t.policy, Orders) /\ Same(q.pnp, t.pnp, Statuses)

Calm(q, t) == t \in Queues /\ AnswersStay(q, t) /\ OrdersStay(q, t)

Answers(q, t, a) ==
    /\ t \in Queues /\ t.power = q.power /\ OrdersStay(q, t)
    /\ Gets(q.policy, t.policy, PwrPolPriorityEventsMask, a)

Ordered(q, t, a) ==
    /\ t \in Queues /\ AnswersStay(q, t)
    /\ Gets(q.policy, t.policy, Orders, a) /\ Same(q.pnp, t.pnp, Statuses)

Reported(q, t, a) ==
    /\ t \in Queues /\ AnswersStay(q, t)
    /\ Same(q.policy, t.policy, Orders) /\ Gets(q.pnp, t.pnp, Statuses, a)

Told(q, t, a) ==
    /\ t \in Queues /\ OrdersStay(q, t)
    /\ Same(q.policy, t.policy, PwrPolPriorityEventsMask)
    /\ q.power = <<>> => t.power = <<a>>

(* a queue may grow at either end *)
LEMMA Appended ==
    ASSUME NEW S, NEW s \in Seq(S), NEW e \in S
    PROVE  LET t == Append(s, e)
           IN  /\ t \in Seq(S) /\ DOMAIN t = 1..(Len(s) + 1)
               /\ t[Len(s) + 1] = e /\ \A i \in 1..Len(s) : t[i] = s[i]
<1>1. Append(s, e) \in Seq(S) /\ DOMAIN Append(s, e) = 1..(Len(s) + 1)
  OBVIOUS
<1>2. Append(s, e)[Len(s) + 1] = e
  OBVIOUS
<1>3. \A i \in 1..Len(s) : Append(s, e)[i] = s[i]
  OBVIOUS
<1>4. QED
  BY <1>1, <1>2, <1>3

LEMMA Prepended ==
    ASSUME NEW S, NEW s \in Seq(S), NEW e \in S
    PROVE  LET t == <<e>> \o s
           IN  /\ t \in Seq(S) /\ DOMAIN t = 1..(Len(s) + 1)
               /\ t[1] = e /\ \A i \in 2..(Len(s) + 1) : t[i] = s[i - 1]
<1>1. <<e>> \o s \in Seq(S) /\ DOMAIN (<<e>> \o s) = 1..(Len(s) + 1)
  OBVIOUS
<1>2. (<<e>> \o s)[1] = e
  OBVIOUS
<1>3. \A i \in 2..(Len(s) + 1) : (<<e>> \o s)[i] = s[i - 1]
  OBVIOUS
<1>4. QED
  BY <1>1, <1>2, <1>3

LEMMA GrowsAtTail ==
    ASSUME NEW S, NEW s \in Seq(S), NEW e \in S, NEW A
    PROVE  LET t == Append(s, e)
           IN  t \in Seq(S) /\ (e \notin A => Same(s, t, A)) /\ (e \in A => Gets(s, t, A, e))
<1> DEFINE t == Append(s, e)
<1>1. /\ t \in Seq(S) /\ DOMAIN t = 1..(Len(s) + 1) /\ DOMAIN s = 1..Len(s) /\ Len(s) \in Nat
      /\ t[Len(s) + 1] = e /\ \A i \in 1..Len(s) : t[i] = s[i]
  BY Appended
<1> HIDE DEF t
<1>2. \A i \in DOMAIN t : i = Len(s) + 1 \/ (i \in DOMAIN s /\ t[i] = s[i])
  BY <1>1
<1>3. Len(s) + 1 \in DOMAIN t /\ \A i \in DOMAIN s : i \in DOMAIN t /\ t[i] = s[i]
  BY <1>1
<1>4. \A a : In(t, a) <=> In(s, a) \/ a = e
  BY <1>1, <1>2, <1>3 DEF In
<1>5. ASSUME e \notin A, Lone(s, A)
      PROVE  Lone(t, A)
  BY <1>1, <1>2, <1>5 DEF Lone
<1>6. ASSUME Without(s, A), e \in A
      PROVE  Sole(t, A, e)
  <2>1. \A i \in DOMAIN t : t[i] \in A => i = Len(s) + 1
    BY <1>2, <1>6 DEF Without, In
  <2>2. Lone(t, A)
    BY <2>1 DEF Lone
  <2>3. QED
    BY <1>4, <2>2 DEF Sole
<1>7. QED
  BY <1>1, <1>4, <1>5, <1>6 DEF Same, Gets, t

LEMMA GrowsAtHead ==
    ASSUME NEW S, NEW s \in Seq(S), NEW e \in S, NEW A
    PROVE  LET t == <<e>> \o s
           IN  t \in Seq(S) /\ (e \notin A => Same(s, t, A)) /\ (e \in A => Gets(s, t, A, e))
<1> DEFINE t == <<e>> \o s
<1>1. /\ t \in Seq(S) /\ DOMAIN t = 1..(Len(s) + 1) /\ DOMAIN s = 1..Len(s) /\ Len(s) \in Nat
      /\ t[1] = e /\ \A i \in 2..(Len(s) + 1) : t[i] = s[i - 1]
  BY Prepended
<1> HIDE DEF t
<1>2. \A i \in DOMAIN t : i = 1 \/ (i - 1 \in DOMAIN s /\ t[i] = s[i - 1])
  BY <1>1
<1>3. 1 \in DOMAIN t /\ \A i \in DOMAIN s : i + 1 \in DOMAIN t /\ t[i + 1] = s[i]
  BY <1>1
<1>4. \A a : In(t, a) <=> In(s, a) \/ a = e
  BY <1>1, <1>2, <1>3 DEF In
<1>5. ASSUME e \notin A, Lone(s, A)
      PROVE  Lone(t, A)
  <2>1. ASSUME NEW i \in DOMAIN t, NEW j \in DOMAIN t, t[i] \in A, t[j] \in A
        PROVE  i = j
    <3>1. i \in Nat /\ j \in Nat
      BY <1>1
    <3>2. i - 1 \in DOMAIN s /\ j - 1 \in DOMAIN s /\ s[i - 1] \in A /\ s[j - 1] \in A
      BY <1>1, <1>2, <1>5, <2>1
    <3>3. i - 1 = j - 1
      BY <1>5, <3>2 DEF Lone
    <3>4. QED
      BY <3>1, <3>3
  <2>2. QED
    BY <2>1 DEF Lone
<1>6. ASSUME Without(s, A), e \in A
      PROVE  Sole(t, A, e)
  <2>1. \A i \in DOMAIN t : t[i] \in A => i = 1
    BY <1>2, <1>6 DEF Without, In
  <2>2. Lone(t, A)
    BY <2>1 DEF Lone
  <2>3. QED
    BY <1>4, <2>2 DEF Sole
<1>7. QED
  BY <1>1, <1>4, <1>5, <1>6 DEF Same, Gets, t

LEMMA Grows ==
    ASSUME NEW s \in Seq(Events), NEW e \in Events, NEW t \in {s, Append(s, e), <<e>> \o s}, NEW A
    PROVE  t \in Seq(Events) /\ (e \notin A => Same(s, t, A)) /\ (e \in A => Gets(s, t, A, e))
<1>1. CASE t = s
  BY <1>1 DEF Same, Gets
<1>2. CASE t # s
  BY <1>2, GrowsAtTail, GrowsAtHead
<1>3. QED
  BY <1>1, <1>2

(* and loses its head *)
LEMMA Beheaded ==
    ASSUME NEW S, NEW s \in Seq(S), s # <<>>
    PROVE  /\ Len(s) \in Nat /\ Len(s) > 0 /\ DOMAIN s = 1..Len(s) /\ Head(s) = s[1] /\ Head(s) \in S
           /\ Tail(s) \in Seq(S) /\ DOMAIN Tail(s) = 1..(Len(s) - 1)
           /\ \A i \in 1..(Len(s) - 1) : Tail(s)[i] = s[i + 1]
<1>1. Len(s) \in Nat /\ Len(s) > 0 /\ DOMAIN s = 1..Len(s) /\ Head(s) = s[1] /\ Head(s) \in S
  OBVIOUS
<1>2. Tail(s) \in Seq(S) /\ DOMAIN Tail(s) = 1..(Len(s) - 1)
  OBVIOUS
<1>3. \A i \in 1..(Len(s) - 1) : Tail(s)[i] = s[i + 1]
  OBVIOUS
<1>4. QED
  BY <1>1, <1>2, <1>3

LEMMA Shrinks ==
    ASSUME NEW S, NEW s \in Seq(S), s # <<>>, NEW A
    PROVE  /\ Tail(s) \in Seq(S) /\ Head(s) \in S /\ In(s, Head(s))
           /\ \A a : In(Tail(s), a) => In(s, a)
           /\ Head(s) \notin A => Same(s, Tail(s), A)
           /\ Head(s) \in A /\ Lone(s, A) => Without(Tail(s), A)
           /\ Without(s, A) => Head(s) \notin A
           /\ \A a \in A : Sole(s, A, a) /\ Head(s) \in A => Head(s) = a
<1> DEFINE t == Tail(s)
           h == Head(s)
<1>1. /\ t \in Seq(S) /\ h \in S /\ h = s[1] /\ DOMAIN t = 1..(Len(s) - 1) /\ DOMAIN s = 1..Len(s)
      /\ Len(s) \in Nat /\ Len(s) > 0 /\ \A i \in 1..(Len(s) - 1) : t[i] = s[i + 1]
  BY Beheaded
<1> HIDE DEF t, h
<1>2. 1 \in DOMAIN s /\ DOMAIN t \subseteq Nat
  BY <1>1
<1>3. \A i \in DOMAIN t : i + 1 \in DOMAIN s /\ i + 1 # 1 /\ t[i] = s[i + 1]
  BY <1>1
<1>4. \A i \in DOMAIN s : i = 1 \/ (i - 1 \in DOMAIN t /\ t[i - 1] = s[i])
  BY <1>1
<1>5. \A a : In(t, a) => In(s, a)
  BY <1>3 DEF In
<1>6. \A a : In(s, a) => In(t, a) \/ a = h
  BY <1>1, <1>4 DEF In
<1>7. ASSUME Lone(s, A)
      PROVE  Lone(t, A)
  <2>1. ASSUME NEW i \in DOMAIN t, NEW j \in DOMAIN t, t[i] \in A, t[j] \in A
        PROVE  i = j
    <3>1. i + 1 = j + 1
      BY <1>3, <1>7, <2>1 DEF Lone
    <3>2. QED
      BY <1>2, <3>1
  <2>2. QED
    BY <2>1 DEF Lone
<1>8. ASSUME h \in A, Lone(s, A)
      PROVE  Without(t, A)
  BY <1>1, <1>2, <1>3, <1>8 DEF Lone, Without, In
<1>9. In(s, h)
  BY <1>1, <1>2 DEF In
<1>10. ASSUME NEW a \in A, Sole(s, A, a), h \in A
       PROVE  h = a
  BY <1>1, <1>2, <1>10 DEF Sole, Lone, In
<1>11. QED
  BY <1>1, <1>5, <1>6, <1>7, <1>8, <1>9, <1>10 DEF Same, Without, t, h

LEMMA SameTransitive ==
    ASSUME NEW s, NEW t, NEW u, NEW A, Same(s, t, A), Same(t, u, A)
    PROVE  Same(s, u, A)
BY DEF Same

LEMMA SameGets ==
    ASSUME NEW s, NEW t, NEW u, NEW A, NEW a \in A
    PROVE  /\ Same(s, t, A) /\ Gets(t, u, A, a) => Gets(s, u, A, a)
           /\ Gets(s, t, A, a) /\ Same(t, u, A) => Gets(s, u, A, a)
BY DEF Same, Gets, Without, Sole

LEMMA SameReflexive ==
    ASSUME NEW s, NEW A
    PROVE  Same(s, s, A)
BY DEF Same

LEMMA SameMeans ==
    ASSUME NEW s, NEW t, NEW A, Same(s, t, A)
    PROVE  /\ Without(t, A) <=> Without(s, A)
           /\ \A a \in A : Sole(s, A, a) => Sole(t, A, a)
BY DEF Same, Without, Sole

(* An event posted to one machine leaves the other queues alone *)
LEMMA PostGrows ==
    ASSUME NEW q \in Queues, NEW m \in Machines, NEW e \in Events
    PROVE  /\ Post(q, <<m, e>>) \in Queues
           /\ Post(q, <<m, e>>)[m] \in {q[m], Append(q[m], e), <<e>> \o q[m]}
           /\ \A n \in Machines : n # m => Post(q, <<m, e>>)[n] = q[n]
           /\ q[m] = <<>> => Post(q, <<m, e>>)[m] = <<e>>
<1>1. /\ DOMAIN q = {"pnp", "policy", "power", "lost"} /\ q[m] \in Seq(Events)
      /\ Machines = {"pnp", "policy", "power"}
      /\ \A n \in Machines : q[n] \in Seq(Events)
  BY DEF Queues, Machines
<1> DEFINE p == Post(q, <<m, e>>)
<1>2. \/ p = q /\ IsSingularPresent(q, m, e)
      \/ p = [q EXCEPT !.lost = TRUE] /\ IsFull(q, m)
      \/ p = [q EXCEPT ![m] = Append(q[m], e)]
      \/ p = [q EXCEPT ![m] = <<e>> \o q[m]]
  BY DEF Post, Insert
<1> HIDE DEF p
<1>3. \A x \in Seq(Events) :
        /\ [q EXCEPT ![m] = x] \in Queues /\ [q EXCEPT ![m] = x][m] = x
        /\ \A n \in Machines : n # m => [q EXCEPT ![m] = x][n] = q[n]
  <2>1. TAKE x \in Seq(Events)
  <2>2. [q EXCEPT ![m] = x][m] = x /\ \A n \in Machines : n # m => [q EXCEPT ![m] = x][n] = q[n]
    BY <1>1
  <2>3. CASE m = "pnp"
    <3>1. [q EXCEPT ![m] = x] = [q EXCEPT !.pnp = x]
      BY <2>3
    <3>2. [q EXCEPT !.pnp = x] \in Queues
      BY DEF Queues
    <3>3. QED
      BY <2>2, <3>1, <3>2
  <2>4. CASE m = "policy"
    <3>1. [q EXCEPT ![m] = x] = [q EXCEPT !.policy = x]
      BY <2>4
    <3>2. [q EXCEPT !.policy = x] \in Queues
      BY DEF Queues
    <3>3. QED
      BY <2>2, <3>1, <3>2
  <2>5. CASE m = "power"
    <3>1. [q EXCEPT ![m] = x] = [q EXCEPT !.power = x]
      BY <2>5
    <3>2. [q EXCEPT !.power = x] \in Queues
      BY DEF Queues
    <3>3. QED
      BY <2>2, <3>1, <3>2
  <2>6. QED
    BY <1>1, <2>2, <2>3, <2>4, <2>5
<1>4. /\ [q EXCEPT !.lost = TRUE] \in Queues
      /\ \A n \in Machines : [q EXCEPT !.lost = TRUE][n] = q[n]
  BY <1>1 DEF Queues
<1>5. Append(q[m], e) \in Seq(Events) /\ <<e>> \o q[m] \in Seq(Events)
  BY <1>1, Appended, Prepended
<1>6. ASSUME q[m] = <<>>
      PROVE  /\ ~IsSingularPresent(q, m, e) /\ ~IsFull(q, m)
             /\ Append(q[m], e) = <<e>> /\ <<e>> \o q[m] = <<e>>
  BY <1>6 DEF IsSingularPresent, IsFull, QueueDepth
<1>7. /\ p \in Queues
      /\ p[m] \in {q[m], Append(q[m], e), <<e>> \o q[m]}
      /\ \A n \in Machines : n # m => p[n] = q[n]
  <2>1. CASE p = q
    BY <2>1
  <2>2. CASE p = [q EXCEPT !.lost = TRUE]
    BY <1>4, <2>2
  <2>3. CASE p = [q EXCEPT ![m] = Append(q[m], e)]
    BY <1>3, <1>5, <2>3
  <2>4. CASE p = [q EXCEPT ![m] = <<e>> \o q[m]]
    BY <1>3, <1>5, <2>4
  <2>5. QED
    BY <1>2, <2>1, <2>2, <2>3, <2>4
<1>8. ASSUME q[m] = <<>>
      PROVE  p[m] = <<e>>
  <2>1. p = [q EXCEPT ![m] = Append(q[m], e)] \/ p = [q EXCEPT ![m] = <<e>> \o q[m]]
    BY <1>2, <1>6, <1>8
  <2>2. p[m] = Append(q[m], e) \/ p[m] = <<e>> \o q[m]
    BY <1>3, <1>5, <2>1
  <2>3. QED
    BY <1>6, <1>8, <2>2
<1>9. QED
  BY <1>7, <1>8 DEF p

LEMMA EventNames ==
    \A a \in PwrPolPriorityEventsMask : a \notin Orders
BY DEF PwrPolPriorityEventsMask, Orders, Statuses

(* of an event to the power policy machine,                                *)
LEMMA PostsToPolicy ==
    ASSUME NEW q \in Queues, NEW e \in Events
    PROVE  LET t == Post(q, <<"policy", e>>)
           IN  /\ t \in Queues /\ t.power = q.power /\ t.pnp = q.pnp
               /\ e \notin PwrPolPriorityEventsMask \cup Orders => Calm(q, t)
               /\ e \in PwrPolPriorityEventsMask => Answers(q, t, e)
               /\ e \in Orders => Ordered(q, t, e)
<1> DEFINE t == Post(q, <<"policy", e>>)
<1>1. t \in Queues /\ t.power = q.power /\ t.pnp = q.pnp /\ q.policy \in Seq(Events)
      /\ t.policy \in {q.policy, Append(q.policy, e), <<e>> \o q.policy}
  BY PostGrows DEF Machines, Queues
<1> HIDE DEF t
<1>2. ASSUME NEW A
      PROVE  /\ e \notin A => Same(q.policy, t.policy, A)
             /\ e \in A => Gets(q.policy, t.policy, A, e)
  BY <1>1, Grows
<1>3. Same(q.pnp, t.pnp, Statuses)
  BY <1>1, SameReflexive
<1>4. e \in PwrPolPriorityEventsMask => e \notin Orders
  BY EventNames
<1>5. QED
  BY <1>1, <1>2, <1>3, <1>4 DEF Calm, Answers, Ordered, AnswersStay, OrdersStay, t

(* to the PnP machine                                                      *)
LEMMA PostsToPnp ==
    ASSUME NEW q \in Queues, NEW e \in Events
    PROVE  LET t == Post(q, <<"pnp", e>>)
           IN  /\ t \in Queues /\ t.power = q.power /\ t.policy = q.policy
               /\ e \notin Statuses => Calm(q, t)
               /\ e \in Statuses => Reported(q, t, e)
<1> DEFINE t == Post(q, <<"pnp", e>>)
<1>1. t \in Queues /\ t.power = q.power /\ t.policy = q.policy /\ q.pnp \in Seq(Events)
      /\ t.pnp \in {q.pnp, Append(q.pnp, e), <<e>> \o q.pnp}
  BY PostGrows DEF Machines, Queues
<1> HIDE DEF t
<1>2. ASSUME NEW A
      PROVE  /\ e \notin A => Same(q.pnp, t.pnp, A)
             /\ e \in A => Gets(q.pnp, t.pnp, A, e)
  BY <1>1, Grows
<1>3. \A A : Same(q.policy, t.policy, A)
  BY <1>1, SameReflexive
<1>4. QED
  BY <1>1, <1>2, <1>3 DEF Calm, Reported, AnswersStay, OrdersStay, t

(* and to the power machine                                                *)
LEMMA PostsToPower ==
    ASSUME NEW q \in Queues, NEW e \in Events
    PROVE  Told(q, Post(q, <<"power", e>>), e)
<1> DEFINE t == Post(q, <<"power", e>>)
<1>1. t \in Queues /\ t.policy = q.policy /\ t.pnp = q.pnp /\ (q.power = <<>> => t.power = <<e>>)
  BY PostGrows DEF Machines, Queues
<1> HIDE DEF t
<1>2. QED
  BY <1>1, SameReflexive DEF Told, OrdersStay, t

LEMMA CalmReflexive ==
    ASSUME NEW q \in Queues
    PROVE  Calm(q, q)
BY SameReflexive DEF Calm, AnswersStay, OrdersStay

LEMMA CalmAnd ==
    ASSUME NEW q \in Queues, NEW t, NEW u, Calm(q, t)
    PROVE  /\ Calm(t, u) => Calm(q, u)
           /\ \A a \in PwrPolPriorityEventsMask : Answers(t, u, a) => Answers(q, u, a)
           /\ \A a \in Statuses : Reported(t, u, a) => Reported(q, u, a)
           /\ \A a : Told(t, u, a) => Told(q, u, a)
BY SameTransitive, SameGets DEF Calm, Answers, Reported, Told, AnswersStay, OrdersStay

LEMMA AndCalm ==
    ASSUME NEW q \in Queues, NEW t, NEW u, Calm(t, u)
    PROVE  /\ \A a \in PwrPolPriorityEventsMask : Answers(q, t, a) => Answers(q, u, a)
           /\ \A a \in Orders : Ordered(q, t, a) => Ordered(q, u, a)
BY SameTransitive, SameGets DEF Calm, Answers, Ordered, AnswersStay, OrdersStay

(* Several events are posted in their order *)
LEMMA PostNone ==
    ASSUME NEW q
    PROVE  PostAll(q, <<>>) = q
<1> DEFINE After0[n \in 0..Len(<<>>)] == IF n = 0 THEN q ELSE Post(After0[n - 1], (<<>>)[n])
<1>1. \E f : f = [n \in 0..Len(<<>>) |-> IF n = 0 THEN q ELSE Post(f[n - 1], (<<>>)[n])]
  <2> DEFINE g == [n \in 0..0 |-> q]
  <2>1. g = [n \in 0..Len(<<>>) |-> IF n = 0 THEN q ELSE Post(g[n - 1], (<<>>)[n])]
    OBVIOUS
  <2>2. QED
    BY <2>1
<1>2. After0 = [n \in 0..Len(<<>>) |-> IF n = 0 THEN q ELSE Post(After0[n - 1], (<<>>)[n])]
  BY <1>1
<1>3. PostAll(q, <<>>) = After0[Len(<<>>)]
  BY DEF PostAll
<1> HIDE DEF After0
<1>4. QED
  BY <1>2, <1>3

LEMMA PostOne ==
    ASSUME NEW q, NEW a
    PROVE  PostAll(q, <<a>>) = Post(q, a)
<1> DEFINE s == <<a>>
           After1[n \in 0..Len(s)] == IF n = 0 THEN q ELSE Post(After1[n - 1], s[n])
<1>1. \E f : f = [n \in 0..Len(s) |-> IF n = 0 THEN q ELSE Post(f[n - 1], s[n])]
  <2> DEFINE g == [n \in 0..1 |-> IF n = 0 THEN q ELSE Post(q, a)]
  <2>1. g = [n \in 0..Len(s) |-> IF n = 0 THEN q ELSE Post(g[n - 1], s[n])]
    OBVIOUS
  <2> HIDE DEF g
  <2>2. QED
    BY <2>1
<1>2. After1 = [n \in 0..Len(s) |-> IF n = 0 THEN q ELSE Post(After1[n - 1], s[n])]
  BY <1>1
<1>3. PostAll(q, s) = After1[Len(s)]
  BY DEF PostAll
<1> HIDE DEF After1
<1>4. QED
  BY <1>2, <1>3

LEMMA PostTwo ==
    ASSUME NEW q, NEW a, NEW b
    PROVE  PostAll(q, <<a, b>>) = Post(Post(q, a), b)
<1> DEFINE s == <<a, b>>
           After2[n \in 0..Len(s)] == IF n = 0 THEN q ELSE Post(After2[n - 1], s[n])
<1>1. \E f : f = [n \in 0..Len(s) |-> IF n = 0 THEN q ELSE Post(f[n - 1], s[n])]
  <2> DEFINE g == [n \in 0..2 |-> IF n = 0 THEN q ELSE IF n = 1 THEN Post(q, a) ELSE Post(Post(q, a), b)]
  <2>1. g = [n \in 0..Len(s) |-> IF n = 0 THEN q ELSE Post(g[n - 1], s[n])]
    OBVIOUS
  <2> HIDE DEF g
  <2>2. QED
    BY <2>1
<1>2. After2 = [n \in 0..Len(s) |-> IF n = 0 THEN q ELSE Post(After2[n - 1], s[n])]
  BY <1>1
<1>3. PostAll(q, s) = After2[Len(s)]
  BY DEF PostAll
<1> HIDE DEF After2
<1>4. QED
  BY <1>2, <1>3

LEMMA PostThree ==
    ASSUME NEW q, NEW a, NEW b, NEW c
    PROVE  PostAll(q, <<a, b, c>>) = Post(Post(Post(q, a), b), c)
<1> DEFINE s == <<a, b, c>>
           After3[n \in 0..Len(s)] == IF n = 0 THEN q ELSE Post(After3[n - 1], s[n])
<1>1. \E f : f = [n \in 0..Len(s) |-> IF n = 0 THEN q ELSE Post(f[n - 1], s[n])]
  <2> DEFINE g == [n \in 0..3 |-> IF n = 0 THEN q ELSE IF n = 1 THEN Post(q, a)
                                  ELSE IF n = 2 THEN Post(Post(q, a), b)
                                  ELSE Post(Post(Post(q, a), b), c)]
  <2>1. g = [n \in 0..Len(s) |-> IF n = 0 THEN q ELSE Post(g[n - 1], s[n])]
    OBVIOUS
  <2> HIDE DEF g
  <2>2. QED
    BY <2>1
<1>2. After3 = [n \in 0..Len(s) |-> IF n = 0 THEN q ELSE Post(After3[n - 1], s[n])]
  BY <1>1
<1>3. PostAll(q, s) = After3[Len(s)]
  BY DEF PostAll
<1> HIDE DEF After3
<1>4. QED
  BY <1>2, <1>3

LEMMA SameElements ==
    ASSUME NEW S, NEW s \in Seq(S), NEW t \in Seq(S), Len(s) = Len(t), \A i \in 1..Len(s) : s[i] = t[i]
    PROVE  s = t
OBVIOUS

LEMMA OneThenOne ==
    ASSUME NEW p, NEW a
    PROVE  <<p>> \o <<a>> = <<p, a>>
<1> DEFINE S == {p, a}
           s == <<p>> \o <<a>>
           t == <<p, a>>
<1>1. p \in S /\ a \in S
  OBVIOUS
<1> HIDE DEF S
<1>2. s \in Seq(S) /\ t \in Seq(S) /\ Len(s) = 2 /\ Len(t) = 2
  BY <1>1
<1>3. s[1] = p /\ s[2] = a
  BY <1>1
<1>4. t[1] = p /\ t[2] = a
  OBVIOUS
<1> HIDE DEF s, t
<1>5. \A i \in 1..2 : i = 1 \/ i = 2
  OBVIOUS
<1>6. \A i \in 1..Len(s) : s[i] = t[i]
  BY <1>2, <1>3, <1>4, <1>5
<1>7. s = t
  BY <1>2, <1>6, SameElements
<1>8. QED
  BY <1>7 DEF s, t

LEMMA OneThenTwo ==
    ASSUME NEW p, NEW a, NEW b
    PROVE  <<p>> \o <<a, b>> = <<p, a, b>>
<1> DEFINE S == {p, a, b}
           s == <<p>> \o <<a, b>>
           t == <<p, a, b>>
<1>1. p \in S /\ a \in S /\ b \in S
  OBVIOUS
<1> HIDE DEF S
<1>2. s \in Seq(S) /\ t \in Seq(S) /\ Len(s) = 3 /\ Len(t) = 3
  BY <1>1
<1>3. s[1] = p /\ s[2] = a /\ s[3] = b
  BY <1>1
<1>4. t[1] = p /\ t[2] = a /\ t[3] = b
  OBVIOUS
<1> HIDE DEF s, t
<1>5. \A i \in 1..3 : i = 1 \/ i = 2 \/ i = 3
  OBVIOUS
<1>6. \A i \in 1..Len(s) : s[i] = t[i]
  BY <1>2, <1>3, <1>4, <1>5
<1>7. s = t
  BY <1>2, <1>6, SameElements
<1>8. QED
  BY <1>7 DEF s, t

(* The idle machine posts nothing that matters, before the others or after *)
LEMMA IdlePostsCalm ==
    ASSUME NEW q \in Queues, NEW m
    PROVE  \E t : /\ Calm(q, t) /\ PostAll(q, IdlePosts(m)) = t /\ PostAll(q, IdlePosts(m) \o <<>>) = t
                  /\ \A a : PostAll(q, IdlePosts(m) \o <<a>>) = Post(t, a)
                  /\ \A a, b : PostAll(q, IdlePosts(m) \o <<a, b>>) = Post(Post(t, a), b)
<1> DEFINE i == IdlePosts(m)
<1>1. \/ i = <<>>
      \/ \E p \in {<<"pnp", "DeviceInD0">>, <<"policy", "PowerTimeoutExpired">>,
                   <<"policy", "IoPresent">>} : i = <<p>>
  BY DEF IdlePosts
<1> HIDE DEF i
<1>2. CASE i = <<>>
  <2>1. PostAll(q, i) = q /\ i \o <<>> = <<>>
    BY <1>2, PostNone
  <2>2. \A a : i \o <<a>> = <<a>>
    BY <1>2
  <2>3. \A a, b : i \o <<a, b>> = <<a, b>>
    BY <1>2
  <2>4. QED
    BY <1>2, <2>1, <2>2, <2>3, PostOne, PostTwo, CalmReflexive DEF i
<1>3. ASSUME NEW p, p \in {<<"pnp", "DeviceInD0">>, <<"policy", "PowerTimeoutExpired">>,
                           <<"policy", "IoPresent">>}, i = <<p>>
      PROVE  /\ Calm(q, Post(q, p)) /\ PostAll(q, i) = Post(q, p) /\ PostAll(q, i \o <<>>) = Post(q, p)
             /\ \A a : PostAll(q, i \o <<a>>) = Post(Post(q, p), a)
             /\ \A a, b : PostAll(q, i \o <<a, b>>) = Post(Post(Post(q, p), a), b)
  <2>1. Calm(q, Post(q, p))
    <3>1. /\ "DeviceInD0" \in Events \ Statuses
          /\ "PowerTimeoutExpired" \in Events \ (PwrPolPriorityEventsMask \cup Orders)
          /\ "IoPresent" \in Events \ (PwrPolPriorityEventsMask \cup Orders)
      BY DEF Events, Statuses, PwrPolPriorityEventsMask, Orders
    <3>2. CASE p = <<"pnp", "DeviceInD0">>
      BY <3>1, <3>2, PostsToPnp
    <3>3. CASE p = <<"policy", "PowerTimeoutExpired">>
      BY <3>1, <3>3, PostsToPolicy
    <3>4. CASE p = <<"policy", "IoPresent">>
      BY <3>1, <3>4, PostsToPolicy
    <3>5. QED
      BY <1>3, <3>2, <3>3, <3>4
  <2>2. PostAll(q, i) = Post(q, p) /\ i \o <<>> = i
    BY <1>3, PostOne
  <2>3. \A a : i \o <<a>> = <<p, a>>
    BY <1>3, OneThenOne
  <2>4. \A a, b : i \o <<a, b>> = <<p, a, b>>
    BY <1>3, OneThenTwo
  <2>5. \A a : PostAll(q, <<p, a>>) = Post(Post(q, p), a)
    BY PostTwo
  <2>6. \A a, b : PostAll(q, <<p, a, b>>) = Post(Post(Post(q, p), a), b)
    BY PostThree
  <2>7. \A a : PostAll(q, i \o <<a>>) = Post(Post(q, p), a)
    BY <2>3, <2>5
  <2>8. ASSUME NEW a, NEW b
        PROVE  PostAll(q, i \o <<a, b>>) = Post(Post(Post(q, p), a), b)
    <3>1. i \o <<a, b>> = <<p, a, b>>
      BY <2>4
    <3>2. QED
      BY <2>6, <3>1
  <2>9. PostAll(q, i \o <<>>) = Post(q, p)
    BY <2>2
  <2>10. QED
    BY <2>1, <2>2, <2>7, <2>8, <2>9
<1>4. QED
  BY <1>1, <1>2, <1>3 DEF i

LEMMA ThenIdlePosts ==
    ASSUME NEW q, NEW m, NEW a, Post(q, a) \in Queues
    PROVE  Calm(Post(q, a), PostAll(q, <<a>> \o IdlePosts(m)))
<1> DEFINE i == IdlePosts(m)
           t == Post(q, a)
<1>1. \/ i = <<>>
      \/ \E p \in {<<"pnp", "DeviceInD0">>, <<"policy", "PowerTimeoutExpired">>,
                   <<"policy", "IoPresent">>} : i = <<p>>
  BY DEF IdlePosts
<1>2. CASE i = <<>>
  <2>1. <<a>> \o i = <<a>>
    BY <1>2
  <2>2. QED
    BY <2>1, PostOne, CalmReflexive
<1>3. ASSUME NEW p, i = <<p>>
      PROVE  PostAll(q, <<a>> \o i) = PostAll(t, i)
  <2>1. <<a>> \o i = <<a, p>>
    BY <1>3, OneThenOne
  <2>2. PostAll(q, <<a, p>>) = Post(t, p) /\ PostAll(t, <<p>>) = Post(t, p)
    BY PostOne, PostTwo
  <2>3. QED
    BY <1>3, <2>1, <2>2
<1>4. \E u : Calm(t, u) /\ PostAll(t, i) = u
  BY IdlePostsCalm
<1> HIDE DEF t
<1>5. QED
  BY <1>1, <1>2, <1>3, <1>4 DEF t

(* What the entry functions post                                           *)
LEMMA CalmPosts ==
    ASSUME NEW q \in Queues
    PROVE  /\ Calm(q, PostAll(q, <<>>))
           /\ \A m : /\ Calm(q, PostAll(q, IdlePosts(m))) /\ Calm(q, PostAll(q, IdlePosts(m) \o <<>>))
                     /\ Calm(q, PostAll(q, <<>> \o IdlePosts(m)))
           /\ \A e \in Events \ (PwrPolPriorityEventsMask \cup Orders) :
                Calm(q, PostAll(q, <<<<"policy", e>>>>))
           /\ \A e \in Events \ Statuses : Calm(q, PostAll(q, <<<<"pnp", e>>>>))
<1>1. Calm(q, PostAll(q, <<>>))
  BY PostNone, CalmReflexive
<1>2. ASSUME NEW m
      PROVE  /\ Calm(q, PostAll(q, IdlePosts(m))) /\ Calm(q, PostAll(q, IdlePosts(m) \o <<>>))
             /\ Calm(q, PostAll(q, <<>> \o IdlePosts(m)))
  <2>1. <<>> \o IdlePosts(m) = IdlePosts(m)
    BY DEF IdlePosts
  <2>2. QED
    BY <2>1, IdlePostsCalm
<1>3. \A e \in Events \ (PwrPolPriorityEventsMask \cup Orders) :
        Calm(q, PostAll(q, <<<<"policy", e>>>>))
  BY PostOne, PostsToPolicy
<1>4. \A e \in Events \ Statuses : Calm(q, PostAll(q, <<<<"pnp", e>>>>))
  BY PostOne, PostsToPnp
<1>5. QED
  BY <1>1, <1>2, <1>3, <1>4

LEMMA MaskEvents ==
    /\ PwrPolPriorityEventsMask \subseteq Events /\ Orders \subseteq Events /\ Statuses \subseteq Events
    /\ PwrPolPriorityEventsMask \cap Statuses = {}
BY DEF PwrPolPriorityEventsMask, Orders, Statuses, Events

LEMMA AnswerPosts ==
    ASSUME NEW q \in Queues, NEW a \in PwrPolPriorityEventsMask, NEW e \in Events \ Statuses, NEW m
    PROVE  /\ Answers(q, PostAll(q, <<<<"policy", a>>>>), a)
           /\ Answers(q, PostAll(q, <<<<"policy", a>>, <<"pnp", e>>>>), a)
           /\ Answers(q, PostAll(q, IdlePosts(m) \o <<<<"policy", a>>>>), a)
           /\ Answers(q, PostAll(q, IdlePosts(m) \o <<<<"policy", a>>, <<"pnp", e>>>>), a)
<1>1. ASSUME NEW t \in Queues
      PROVE  /\ Answers(t, Post(t, <<"policy", a>>), a)
             /\ Answers(t, Post(Post(t, <<"policy", a>>), <<"pnp", e>>), a)
  <2>1. Answers(t, Post(t, <<"policy", a>>), a) /\ Post(t, <<"policy", a>>) \in Queues
    BY PostsToPolicy, MaskEvents
  <2>2. Calm(Post(t, <<"policy", a>>), Post(Post(t, <<"policy", a>>), <<"pnp", e>>))
    BY <2>1, PostsToPnp
  <2>3. QED
    BY <2>1, <2>2, AndCalm
<1>2. PICK t : /\ Calm(q, t)
               /\ \A x : PostAll(q, IdlePosts(m) \o <<x>>) = Post(t, x)
               /\ \A x, y : PostAll(q, IdlePosts(m) \o <<x, y>>) = Post(Post(t, x), y)
  BY IdlePostsCalm
<1>3. t \in Queues
  BY <1>2 DEF Calm
<1>4. /\ Answers(q, Post(t, <<"policy", a>>), a)
      /\ Answers(q, Post(Post(t, <<"policy", a>>), <<"pnp", e>>), a)
  BY <1>1, <1>2, <1>3, CalmAnd
<1>5. QED
  BY <1>1, <1>2, <1>4, PostOne, PostTwo

LEMMA OrderPosts ==
    ASSUME NEW q \in Queues, NEW a \in Orders, NEW m
    PROVE  /\ Ordered(q, PostAll(q, ToPolicy(a)), a)
           /\ Ordered(q, PostAll(q, ToPolicy(a) \o IdlePosts(m)), a)
<1>1. Ordered(q, Post(q, <<"policy", a>>), a) /\ Post(q, <<"policy", a>>) \in Queues
  BY PostsToPolicy, MaskEvents
<1>2. Calm(Post(q, <<"policy", a>>), PostAll(q, ToPolicy(a) \o IdlePosts(m)))
  BY <1>1, ThenIdlePosts DEF ToPolicy
<1>3. QED
  BY <1>1, <1>2, AndCalm, PostOne DEF ToPolicy

LEMMA StatusPosts ==
    ASSUME NEW q \in Queues, NEW a \in Statuses, NEW m
    PROVE  /\ Reported(q, PostAll(q, ToPnp(a)), a)
           /\ Reported(q, PostAll(q, IdlePosts(m) \o ToPnp(a)), a)
<1>1. \A t \in Queues : Reported(t, Post(t, <<"pnp", a>>), a)
  BY PostsToPnp, MaskEvents
<1>2. PICK t : Calm(q, t) /\ \A x : PostAll(q, IdlePosts(m) \o <<x>>) = Post(t, x)
  BY IdlePostsCalm
<1>3. Reported(q, Post(t, <<"pnp", a>>), a)
  BY <1>1, <1>2, CalmAnd DEF Calm
<1>4. QED
  BY <1>1, <1>2, <1>3, PostOne DEF ToPnp

LEMMA PowerPosts ==
    ASSUME NEW q \in Queues, NEW a \in Events, NEW m
    PROVE  /\ Told(q, PostAll(q, ToPower(a)), a)
           /\ Told(q, PostAll(q, IdlePosts(m) \o ToPower(a)), a)
<1>1. \A t \in Queues : Told(t, Post(t, <<"power", a>>), a)
  BY PostsToPower
<1>2. PICK t : Calm(q, t) /\ \A x : PostAll(q, IdlePosts(m) \o <<x>>) = Post(t, x)
  BY IdlePostsCalm
<1>3. Told(q, Post(t, <<"power", a>>), a)
  BY <1>1, <1>2, CalmAnd DEF Calm
<1>4. QED
  BY <1>1, <1>2, <1>3, PostOne DEF ToPower

-----------------------------------------------------------------------------
(***************************************************************************)
(* The power policy machine and the power machine take turns               *)
(***************************************************************************)
(* The power policy machine asks for one thing at a time, and waits for    *)
(* the answer: what the power machine, or the IRP, is told to do meanwhile *)
OrderOf(s) ==
  CASE s \in {"Starting", "Restarting"} -> "ImplicitD0"
    [] s \in {"StartingPoweredUpFailed", "Stopping"} -> "ImplicitD3"
    [] s \in {"TimerExpiredNoWake", "SleepingNoWakePowerDown"} -> "Dx"
    [] s \in {"S0NoWakePowerUp", "SystemWakeDeviceToD0", "StoppingResetDevice"} -> "D0"
    [] s \in {"TimerExpiredNoWakeCompletePowerDown", "SleepingNoWakeCompletePowerDown"} ->
         "CompleteDx"
    [] s \in {"S0NoWakeCompletePowerUp", "SystemWakeDeviceToD0CompletePowerUp",
              "StoppingResetDeviceCompletePowerUp"} -> "CompleteD0"
    [] OTHER -> "none"

Asks == OrderOf(at["policy"]) # "none" /\ "policy" \notin entering

(* The answers to an order, and where the power machine is after each      *)
DZero == {"DecideD0State", "D0"}
Off == {"ObjectCreated", "Stopped"}
Broken == {"ReportPowerUpFailed", "ReportPowerDownFailed"}
DownFailed == {"GotoDxFailed", "ReportPowerDownFailed"}

Outcome(o, a) ==
  CASE o = "ImplicitD0" /\ a = "PowerUp" -> DZero
    [] o = "ImplicitD0" /\ a = "PowerUpFailed" -> {"Stopped"}
    [] o = "ImplicitD3" /\ a \in {"PowerDown", "PowerDownFailed"} -> {"Stopped"}
    [] o = "Dx" /\ a = "PowerDownIoStopped" -> {"GotoDx"}
    [] o = "Dx" /\ a = "PowerDown" -> DZero
    [] o = "CompleteDx" /\ a = "PowerDown" -> {"Dx"}
    [] o = "CompleteDx" /\ a = "PowerDownFailed" -> {"ReportPowerDownFailed"}
    [] o = "D0" /\ a = "PowerUpHwStarted" -> {"WakingPostHardwareEnabled"}
    [] o = "D0" /\ a = "PowerUpNotSeen" -> {"Dx"}
    [] o = "CompleteD0" /\ a = "PowerUp" -> DZero
    [] o \in {"D0", "CompleteD0"} /\ a = "PowerUpFailed" -> {"ReportPowerUpFailed"}
    [] OTHER -> {}

(* Where the power machine rests while the power policy machine is in s    *)
(* and has not asked for anything, or has and the order is on its way      *)
RestsAt(s) ==
  CASE s \in {"ObjectCreated", "Starting", "StartingFailed", "Restarting", "RestartingFailed",
              "StoppingSendStatus", "StoppingFailed", "Stopped", "StoppedRemoving", "Removed"} ->
         Off
    [] s \in {"StartingPoweredUp", "StartingPoweredUpFailed", "StartingSucceeded",
              "StartingDecideS0Wake", "Started", "StartedCancelTimer",
              "StartedWaitForIdleTimeout", "StartedIdleCapable", "IdleCapableDeviceIdle",
              "TimerExpiredNoWake", "TimerExpiredNoWakePowerDownNotProcessed",
              "TimerExpiredNoWakeUndoPowerDown", "TimerExpiredNoWakeReturnToActive",
              "StartedIdleCapableCancelTimerForSleep",
              "StartedIdleCapableTimerCanceledForSleep",
              "StartedIdleCapableWaitForIdleTimeout", "Sleeping", "SleepingNoWakePowerDown",
              "SleepingNoWakeDxRequestFailed", "SleepingPowerDownNotProcessed"} -> DZero
    [] s \in {"TimerExpiredNoWakePoweredDownDisableIdleTimer", "WaitingUnarmed",
              "WaitingUnarmedQueryIdle", "S0NoWakePowerUp",
              "SystemSleepFromDeviceWaitingUnarmed", "SystemAsleepNoWake",
              "SystemWakeDeviceWakeDisabled", "SystemWakeQueryIdle", "SystemWakeDeviceToD0",
              "StoppingResetDevice"} -> {"Dx"}
    [] s \in {"TimerExpiredNoWakeCompletePowerDown", "SleepingNoWakeCompletePowerDown"} ->
         {"GotoDx"}
    [] s \in {"S0NoWakeCompletePowerUp", "SystemWakeDeviceToD0CompletePowerUp",
              "StoppingResetDeviceCompletePowerUp"} -> {"WakingPostHardwareEnabled"}
    [] OTHER -> DZero \cup {"Dx"} \cup Broken

(* The orders the power machine may be carrying out when it enters s       *)
CarriesOut(s) ==
  CASE s \in {"StartingCheckDeviceType", "D0Starting", "D0StartingConnectInterrupt",
              "D0StartingDmaEnable", "D0StartingPostHardwareEnabled",
              "D0StartingStartSelfManagedIo", "InitialSelfManagedIoFailedStarted",
              "InitialSelfManagedIoFailed", "InitialPostHardwareEnabledFailed",
              "InitialDmaEnableFailed", "InitialConnectInterruptFailed",
              "InitialPowerUpFailedPowerDown", "InitialPowerUpFailedDerefParent",
              "InitialPowerUpFailed"} -> {"ImplicitD0"}
    [] s \in {"GotoD3Stopped", "FinalPowerDownFailed", "PowerFailedPowerDown",
              "GotoDxStoppedDisableInterrupt", "GotoDxStopped"} -> {"ImplicitD3"}
    [] s = "GotoDx" -> {"Dx"}
    [] s \in {"NotifyingD0ExitToWakeInterrupts", "GotoDxIoStopped", "GotoDxFailed",
              "ReportPowerDownFailed"} -> {"CompleteDx"}
    [] s \in {"CheckDeviceType", "Waking", "NotifyingD0EntryToWakeInterrupts",
              "WakingConnectInterrupt", "WakingDmaEnable", "WakingPostHardwareEnabled",
              "UpFailedPowerDown", "UpFailedDerefParent"} -> {"D0"}
    [] s \in {"StartSelfManagedIo", "StartSelfManagedIoFailedStarted",
              "StartSelfManagedIoFailed"} -> {"CompleteD0"}
    [] s \in {"WakingPostHardwareEnabledFailed", "WakingDmaEnableFailed",
              "WakingConnectInterruptFailed", "ReportPowerUpFailedDerefParent",
              "ReportPowerUpFailed"} -> {"D0", "CompleteD0"}
    [] OTHER -> {}

(* The device power IRP the power machine works on; a failure it reports   *)
(* is the last of it                                                       *)
WorkOf(s) ==
  CASE s \in {"GotoDx", "NotifyingD0ExitToWakeInterrupts", "GotoDxIoStopped", "GotoDxFailed",
              "ReportPowerDownFailed"} -> "Dx"
    [] s \in {"CheckDeviceType", "Waking", "NotifyingD0EntryToWakeInterrupts",
              "WakingConnectInterrupt", "WakingDmaEnable", "WakingPostHardwareEnabled",
              "UpFailedPowerDown", "UpFailedDerefParent", "StartSelfManagedIo",
              "StartSelfManagedIoFailedStarted", "StartSelfManagedIoFailed",
              "WakingPostHardwareEnabledFailed", "WakingDmaEnableFailed",
              "WakingConnectInterruptFailed", "ReportPowerUpFailedDerefParent",
              "ReportPowerUpFailed"} -> "D0"
    [] OTHER -> "none"

Powering == "power" \in entering

Work == IF at["power"] \in Broken /\ ~Powering THEN "none" ELSE WorkOf(at["power"])

(* one it works on; none, or a D0 on its way up that it has released       *)
Irp(to, stage) == [to |-> to, stage |-> stage]

WorksOn(to) == irps.device = <<Irp(to, "pending")>> /\ (to = "D0" => ~irps.up)

NoIrp == irps.device = <<>> \/ (irps.device = <<Irp("D0", "released")>> /\ ~irps.up)

IrpsFit ==
  IF Work # "none" THEN WorksOn(Work)
  ELSE IF at["power"] = "Dx" THEN irps.device = <<>> ELSE NoIrp

(* The machine rests: it has no entry function to run but those of D0      *)
Rests == Powering => at["power"] \in DZero

NoAnswer == Without(queue["policy"], PwrPolPriorityEventsMask)

NoOrder == queue["power"] = <<>>

(* Whose turn it is: the policy's, that of an order or an IRP on its way,  *)
(* the power machine's, or that of an answer on its way (or lost)          *)
PolicyActs ==
  /\ ~Asks /\ NoOrder /\ NoAnswer
  /\ Rests /\ at["power"] \in RestsAt(at["policy"])
  /\ IrpsFit /\ ~device.powerDownFailure

OrderQueued ==
  /\ Asks /\ queue["power"] = <<OrderOf(at["policy"])>> /\ NoAnswer
  /\ Rests /\ at["power"] \in RestsAt(at["policy"])
  /\ IF OrderOf(at["policy"]) \in {"D0", "Dx"} THEN WorksOn(OrderOf(at["policy"])) ELSE IrpsFit
  /\ ~device.powerDownFailure

IrpSent ==
  /\ Asks /\ OrderOf(at["policy"]) \in {"D0", "Dx"} /\ NoOrder /\ NoAnswer
  /\ Rests /\ at["power"] \in RestsAt(at["policy"])
  /\ \/ /\ irps.device = <<Irp(OrderOf(at["policy"]), "sent")>>
        /\ OrderOf(at["policy"]) = "D0" => irps.up
     \/ /\ OrderOf(at["policy"]) = "Dx" /\ ~irps.up
        /\ irps.device = <<Irp("D0", "released"), Irp("Dx", "sent")>>
  /\ ~device.powerDownFailure

PowerActs ==
  /\ Asks /\ NoOrder /\ NoAnswer
  /\ Powering /\ OrderOf(at["policy"]) \in CarriesOut(at["power"])
  /\ IrpsFit
  /\ device.powerDownFailure <=> at["power"] \in DownFailed

IrpReleased ==
  /\ Asks /\ OrderOf(at["policy"]) = "CompleteDx" /\ NoOrder /\ NoAnswer
  /\ ~Powering /\ irps.device = <<Irp("Dx", "released")>>
  /\ at["power"] = IF device.powerDownFailure THEN "ReportPowerDownFailed" ELSE "Dx"

Answered ==
  /\ Asks /\ NoOrder
  /\ \E a \in PwrPolPriorityEventsMask :
       /\ at["power"] \in Outcome(OrderOf(at["policy"]), a)
       /\ NoAnswer \/ Sole(queue["policy"], PwrPolPriorityEventsMask, a)
  /\ Rests /\ IrpsFit /\ ~device.powerDownFailure

Lockstep ==
  PolicyActs \/ OrderQueued \/ IrpSent \/ PowerActs \/ IrpReleased \/ Answered

(* What a step of one machine leaves alone of the others                   *)
PolicyStands ==
  at'["policy"] = at["policy"] /\ ("policy" \in entering' <=> "policy" \in entering)

PowerStands == at'["power"] = at["power"] /\ (Powering' <=> Powering)

(* A step that posts neither orders nor answers, and moves neither of the  *)
(* two machines nor an IRP, keeps them in step                             *)
LEMMA LockstepFrame ==
    ASSUME Lockstep, PolicyStands, PowerStands, AnswersStay(queue, queue'), irps' = irps,
           device'.powerDownFailure = device.powerDownFailure
    PROVE  Lockstep'
<1>1. (Asks' <=> Asks) /\ at'["policy"] = at["policy"] /\ at'["power"] = at["power"]
  BY DEF Asks, PolicyStands, PowerStands
<1>2. queue'["power"] = queue["power"] /\ (NoOrder' <=> NoOrder) /\ (Powering' <=> Powering) /\ (Rests' <=> Rests)
  BY DEF AnswersStay, NoOrder, Rests, PowerStands
<1>3. /\ NoAnswer' <=> NoAnswer
      /\ \A a \in PwrPolPriorityEventsMask :
           Sole(queue["policy"], PwrPolPriorityEventsMask, a)
           => Sole(queue'["policy"], PwrPolPriorityEventsMask, a)
  BY SameMeans DEF AnswersStay, NoAnswer
<1>4. \A o : WorksOn(o)' <=> WorksOn(o)
  BY DEF WorksOn
<1>5. IrpsFit' <=> IrpsFit
  BY <1>1, <1>2, <1>4 DEF IrpsFit, Work, NoIrp
<1>6. PolicyActs => PolicyActs'
  BY <1>1, <1>2, <1>3, <1>5 DEF PolicyActs
<1>7. OrderQueued => OrderQueued'
  BY <1>1, <1>2, <1>3, <1>4, <1>5 DEF OrderQueued
<1>8. IrpSent => IrpSent'
  BY <1>1, <1>2, <1>3 DEF IrpSent
<1>9. PowerActs => PowerActs'
  BY <1>1, <1>2, <1>3, <1>5 DEF PowerActs
<1>10. IrpReleased => IrpReleased'
  BY <1>1, <1>2, <1>3 DEF IrpReleased
<1>11. Answered => Answered'
  BY <1>1, <1>2, <1>3, <1>5 DEF Answered
<1>12. QED
  BY <1>6, <1>7, <1>8, <1>9, <1>10, <1>11 DEF Lockstep

(* An entry function of the power machine leaves the others alone          *)
LEMMA PowerSteps ==
    ASSUME CountInv, NEW s, NEW next, NEW posts, PowerEntry(s, next, posts)
    PROVE  /\ Powering /\ at["power"] = s /\ queue' = PostAll(queue, posts)
           /\ PolicyStands /\ PnpStays
           /\ at'["power"] = IF next = Null THEN s ELSE next
           /\ Powering' <=> (next # Null /\ next \notin PowerNoEntry)
<1>1. DOMAIN at = Machines /\ "power" \in Machines /\ "policy" \in Machines
  BY DEF CountInv, Machines
<1>2. QED
  BY <1>1, PowerEntryStays DEF PowerEntry, Entry, EnterNewState, PolicyStands, Powering

(* but in D0 the machine runs entry functions only to carry out an order   *)
LEMMA PowerIsActing ==
    ASSUME Lockstep, Powering, at["power"] \notin DZero
    PROVE  PowerActs
BY DEF Lockstep, PolicyActs, OrderQueued, IrpSent, IrpReleased, Answered, Rests

(* What the power machine leaves to the PnP and power policy machines      *)
PowerQuiet ==
  /\ queue' \in Queues /\ OrdersStay(queue, queue') /\ PolicyStands /\ PnpStays
  /\ NoOrder => NoOrder'

(* from one step of an order to the next                                   *)
Along(s, next) ==
  /\ s \notin DZero \cup PowerNoEntry /\ next \notin DZero \cup PowerNoEntry \cup {Null}
  /\ CarriesOut(s) \subseteq CarriesOut(next) /\ WorkOf(s) = WorkOf(next)
  /\ s \in DownFailed <=> next \in DownFailed

LEMMA PowerAlong ==
    ASSUME CountInv, queue \in Queues, Lockstep, NEW s, NEW next, PowerEntry(s, next, <<>>),
           Along(s, next), irps' = irps, device'.powerDownFailure = device.powerDownFailure
    PROVE  Lockstep' /\ PowerQuiet
<1>1. /\ Powering /\ at["power"] = s /\ PolicyStands /\ PnpStays
      /\ at'["power"] = next /\ Powering' /\ queue' = queue
  BY PowerSteps, PostNone DEF Along
<1>2. PowerActs
  BY <1>1, PowerIsActing DEF Along
<1>3. PowerQuiet
  BY <1>1, CalmReflexive DEF PowerQuiet, Calm, NoOrder
<1>4. Work' = Work /\ at["power"] # "Dx" /\ at'["power"] # "Dx"
  BY <1>1 DEF Work, Along, PowerNoEntry
<1>5. IrpsFit'
  BY <1>2, <1>4 DEF PowerActs, IrpsFit, WorksOn, NoIrp
<1>6. Asks' /\ NoOrder' /\ NoAnswer' /\ OrderOf(at'["policy"]) \in CarriesOut(at'["power"])
  BY <1>1, <1>2 DEF PowerActs, Asks, NoOrder, NoAnswer, PolicyStands, Along
<1>7. PowerActs'
  BY <1>1, <1>2, <1>5, <1>6 DEF PowerActs, Along
<1>8. QED
  BY <1>3, <1>7 DEF Lockstep

(* the order is answered                                                   *)
LEMMA PowerAnswers ==
    ASSUME CountInv, Lockstep, NEW s, NEW next, NEW posts, PowerEntry(s, next, posts), s \notin DZero,
           NEW a \in PwrPolPriorityEventsMask, Answers(queue, queue', a),
           \A o \in CarriesOut(s) : (IF next = Null THEN s ELSE next) \in Outcome(o, a),
           next \in {Null} \cup PowerNoEntry \cup DZero,
           PowerActs => IrpsFit' /\ ~device'.powerDownFailure
    PROVE  Lockstep' /\ PowerQuiet
<1>1. /\ Powering /\ at["power"] = s /\ PolicyStands /\ PnpStays
      /\ at'["power"] = (IF next = Null THEN s ELSE next)
      /\ Powering' <=> (next # Null /\ next \notin PowerNoEntry)
  BY PowerSteps
<1>2. PowerActs
  BY <1>1, PowerIsActing
<1>3. PowerQuiet
  BY <1>1 DEF PowerQuiet, Answers, NoOrder
<1>4. Asks' /\ NoOrder' /\ Rests' /\ at'["power"] \in Outcome(OrderOf(at'["policy"]), a)
  BY <1>1, <1>2 DEF PowerActs, Asks, NoOrder, PolicyStands, Answers, Rests
<1>5. NoAnswer' \/ Sole(queue'["policy"], PwrPolPriorityEventsMask, a)
  BY <1>2 DEF PowerActs, NoAnswer, Answers, Gets
<1>6. Answered'
  BY <1>2, <1>4, <1>5 DEF Answered
<1>7. QED
  BY <1>3, <1>6 DEF Lockstep

(* no callback changes the flags of the device *)
FlagsStay(d, e) ==
  /\ e.powerDownFailure = d.powerDownFailure /\ e.ioCallbackFailure = d.ioCallbackFailure
  /\ e.powerFailed = d.powerFailed

LEMMA CallbacksKeepFlags ==
    ASSUME NEW d \in Device, NEW s \in SUBSET Stages
    PROVE  /\ Begin(d, s) \in Device /\ FlagsStay(d, Begin(d, s)) /\ Begin(d, s).smio = d.smio
           /\ End(d, s) \in Device /\ FlagsStay(d, End(d, s)) /\ End(d, s).smio = d.smio
           /\ SetInternalFailure(d) \in Device /\ FlagsStay(d, SetInternalFailure(d))
           /\ SetInternalFailure(d).smio = d.smio
           /\ FlagsStay(d, d)
BY DEF Begin, End, SetInternalFailure, FlagsStay, Device

LEMMA SelfManagesKeepsFlags ==
    ASSUME NEW d \in Device, NEW e, NEW o \in SelfManaged!ProcessEvent(d.smio, e)
    PROVE  SelfManagedBecomes(d, e, o) \in Device /\ FlagsStay(d, SelfManagedBecomes(d, e, o))
<1>1. SelfManagedBecomes(d, e, o) \in Device
  BY SelfManages
<1>2. QED
  BY <1>1 DEF SelfManagedBecomes, FlagsStay, Device

LEMMA StageSets ==
    /\ InD0 \subseteq Stages /\ InD0 \ {"Io"} \subseteq Stages /\ {"Io"} \subseteq Stages
    /\ {"D0Entry"} \subseteq Stages /\ {"Resources"} \subseteq Stages /\ {"Dma"} \subseteq Stages
    /\ {"Resources", "PostInterrupts"} \subseteq Stages /\ {"PostHardware"} \subseteq Stages
    /\ {"Dma", "PostInterrupts"} \subseteq Stages /\ {"Resources", "D0Entry"} \subseteq Stages
    /\ {"Hardware"} \subseteq Stages
BY StageNames

(* kinds of entry functions of the power machine *)
LEMMA PowerPassesAlong ==
    ASSUME CountInv, queue \in Queues, Lockstep, NEW s, NEW next, PowerPasses(s, next), Along(s, next)
    PROVE  Lockstep' /\ PowerQuiet
BY PowerAlong DEF PowerPasses, Elsewhere

LEMMA CallD0EntryAlong ==
    ASSUME CountInv, StageInv, queue \in Queues, Lockstep, NEW s, NEW ok, NEW undo, NEW failed,
           CallD0Entry(s, ok, undo, failed), Along(s, ok), Along(s, undo), Along(s, failed)
    PROVE  Lockstep' /\ PowerQuiet
<1>1. device'.powerDownFailure = device.powerDownFailure /\ irps' = irps
  BY CallbacksKeepFlags, StageSets DEF CallD0Entry, StageInv, FlagsStay, Elsewhere
<1>2. QED
  BY <1>1, PowerAlong DEF CallD0Entry

LEMMA ConnectInterruptAlong ==
    ASSUME CountInv, StageInv, queue \in Queues, Lockstep, NEW s, NEW ok, NEW failed,
           ConnectInterrupt(s, ok, failed), Along(s, ok), Along(s, failed)
    PROVE  Lockstep' /\ PowerQuiet
<1>1. device'.powerDownFailure = device.powerDownFailure /\ irps' = irps
  BY CallbacksKeepFlags, StageSets DEF ConnectInterrupt, StageInv, FlagsStay, Elsewhere
<1>2. QED
  BY <1>1, PowerAlong DEF ConnectInterrupt

LEMMA DmaEnableAlong ==
    ASSUME CountInv, StageInv, queue \in Queues, Lockstep, NEW s, NEW ok, NEW failed,
           DmaEnable(s, ok, failed), Along(s, ok), Along(s, failed)
    PROVE  Lockstep' /\ PowerQuiet
<1>1. device'.powerDownFailure = device.powerDownFailure /\ irps' = irps
  BY CallbacksKeepFlags, StageSets DEF DmaEnable, StageInv, FlagsStay, Elsewhere
<1>2. QED
  BY <1>1, PowerAlong DEF DmaEnable

LEMMA PowerUndoesAlong ==
    ASSUME CountInv, StageInv, queue \in Queues, Lockstep, NEW s, NEW stages, NEW next,
           stages \subseteq Stages, PowerUndoes(s, stages, next), Along(s, next)
    PROVE  Lockstep' /\ PowerQuiet
<1>1. device'.powerDownFailure = device.powerDownFailure /\ irps' = irps
  BY CallbacksKeepFlags DEF PowerUndoes, StageInv, FlagsStay, Elsewhere
<1>2. QED
  BY <1>1, PowerAlong DEF PowerUndoes

LEMMA SuspendsIgnoredAlong ==
    ASSUME CountInv, StageInv, queue \in Queues, Lockstep, NEW s, NEW next,
           SuspendsIgnored(s, next), Along(s, next)
    PROVE  Lockstep' /\ PowerQuiet
<1>1. device'.powerDownFailure = device.powerDownFailure /\ irps' = irps
  BY SelfManagesKeepsFlags DEF SuspendsIgnored, StageInv, FlagsStay, Elsewhere
<1>2. QED
  BY <1>1, PowerAlong DEF SuspendsIgnored

(* an answer, of what works on no IRP *)
LEMMA NoWorkFits ==
    ASSUME CountInv, NEW s, NEW next, NEW posts, PowerEntry(s, next, posts), irps' = irps,
           WorkOf(s) = "none", s # "Dx", next \in {"Stopped", "DecideD0State"},
           device'.powerDownFailure = device.powerDownFailure, s \notin DownFailed
    PROVE  PowerActs => IrpsFit' /\ ~device'.powerDownFailure
<1>1. at["power"] = s /\ Powering /\ at'["power"] = next
  BY PowerSteps DEF Null
<1>2. Work = "none" /\ Work' = "none"
  BY <1>1 DEF Work, WorkOf
<1>3. QED
  BY <1>1, <1>2 DEF PowerActs, IrpsFit, NoIrp

(* and of what works on one, that it releases or keeps *)
LEMMA ReleasesIts ==
    ASSUME StageInv, NEW to, WorksOn(to)
    PROVE  /\ Release(irps).device = <<Irp(to, "released")>> /\ Release(irps).up = irps.up
           /\ to = "D0" => ~irps.up
<1>1. irps.device = <<Irp(to, "pending")>> /\ irps.device # <<>> /\ Head(irps.device) = Irp(to, "pending")
  BY DEF WorksOn
<1>2. Irp(to, "pending").stage = "pending"
  BY DEF Irp
<1>3. Release(irps) = [irps EXCEPT !.device[1].stage = "released"]
  BY <1>1, <1>2 DEF Release
<1>4. irps.device[1] = Irp(to, "pending") /\ DOMAIN irps.device = {1}
  BY <1>1
<1>5. [irps.device[1] EXCEPT !.stage = "released"] = Irp(to, "released")
  BY <1>4 DEF Irp
<1>6. [irps.device EXCEPT ![1] = [irps.device[1] EXCEPT !.stage = "released"]] = <<Irp(to, "released")>>
  BY <1>1, <1>4, <1>5
<1>7. QED
  BY <1>3, <1>6 DEF StageInv, Irps, WorksOn

(* in D0, which of the two states of it does not matter *)
LEMMA EitherDZero ==
    \A x \in DZero, y \in DZero :
      /\ \A s : x \in RestsAt(s) => y \in RestsAt(s)
      /\ \A o, a : x \in Outcome(o, a) => y \in Outcome(o, a)
      /\ CarriesOut(x) = {} /\ WorkOf(x) = "none" /\ x \notin Broken \cup {"Dx"}
<1>1. ASSUME NEW s
      PROVE  "DecideD0State" \in RestsAt(s) <=> "D0" \in RestsAt(s)
  BY DEF RestsAt, DZero, Broken, Off
<1>2. ASSUME NEW o, NEW a
      PROVE  "DecideD0State" \in Outcome(o, a) <=> "D0" \in Outcome(o, a)
  BY DEF Outcome, DZero
<1>3. \A x \in DZero : CarriesOut(x) = {} /\ WorkOf(x) = "none" /\ x \notin Broken \cup {"Dx"}
  BY DEF DZero, CarriesOut, WorkOf, Broken
<1>4. \A x \in DZero : x = "DecideD0State" \/ x = "D0"
  BY DEF DZero
<1>5. QED
  BY <1>1, <1>2, <1>3, <1>4

LEMMA PowerInDZero ==
    ASSUME CountInv, queue \in Queues, Lockstep, NEW s \in DZero, NEW next \in {"D0", Null},
           PowerPasses(s, next)
    PROVE  Lockstep' /\ PowerQuiet
<1>1. PowerEntry(s, next, <<>>) /\ irps' = irps /\ device' = device
  BY DEF PowerPasses, Elsewhere
<1>2. /\ Powering /\ at["power"] \in DZero /\ at'["power"] \in DZero /\ queue' = queue
      /\ PolicyStands /\ PnpStays
  BY <1>1, PowerSteps, PostNone DEF DZero, Null
<1>3. PowerQuiet
  BY <1>2, CalmReflexive DEF PowerQuiet, Calm, NoOrder
<1>4. Work = "none" /\ Work' = "none" /\ at["power"] # "Dx" /\ at'["power"] # "Dx"
  BY <1>2, EitherDZero DEF Work
<1>5. IrpsFit' <=> IrpsFit
  BY <1>1, <1>4 DEF IrpsFit, NoIrp
<1>6. \A o : WorksOn(o)' <=> WorksOn(o)
  BY <1>1 DEF WorksOn
<1>7. Rests' /\ (Asks' <=> Asks) /\ (NoOrder' <=> NoOrder) /\ (NoAnswer' <=> NoAnswer)
  BY <1>2 DEF Rests, Asks, NoOrder, NoAnswer, PolicyStands
<1>8. /\ at["power"] \in RestsAt(at["policy"]) => at'["power"] \in RestsAt(at'["policy"])
      /\ \A a : at["power"] \in Outcome(OrderOf(at["policy"]), a)
                => at'["power"] \in Outcome(OrderOf(at'["policy"]), a)
      /\ at'["policy"] = at["policy"]
  BY <1>2, EitherDZero DEF PolicyStands
<1>9. ~PowerActs /\ ~IrpReleased
  BY <1>2, EitherDZero DEF PowerActs, IrpReleased
<1>10. PolicyActs => PolicyActs'
  BY <1>1, <1>5, <1>7, <1>8 DEF PolicyActs
<1>11. OrderQueued => OrderQueued'
  BY <1>1, <1>2, <1>5, <1>6, <1>7, <1>8 DEF OrderQueued
<1>12. IrpSent => IrpSent'
  BY <1>1, <1>7, <1>8 DEF IrpSent
<1>13. Answered => Answered'
  BY <1>1, <1>2, <1>5, <1>7, <1>8 DEF Answered
<1>14. QED
  BY <1>3, <1>9, <1>10, <1>11, <1>12, <1>13 DEF Lockstep

LEMMA PowerStartIoAnswers ==
    ASSUME CountInv, StageInv, queue \in Queues, Lockstep, NEW s, NEW ok, NEW undo, NEW failed, NEW released,
           StartIo(s, ok, undo, failed, released), Along(s, undo), Along(s, failed),
           ok \in DZero, \A o \in CarriesOut(s) : ok \in Outcome(o, "PowerUp"), s \notin DownFailed,
           \/ WorkOf(s) = "none" /\ released = irps
           \/ WorkOf(s) = "D0" /\ released = Release(irps)
    PROVE  Lockstep' /\ PowerQuiet
<1>1. PICK o \in SelfManaged!ProcessEvent(device.smio, "Start") :
        /\ \/ /\ PowerSendPowerUpEvents(s, ok)
              /\ irps' = released
           \/ /\ PowerEntry(s, IF o.client THEN undo ELSE failed, <<>>)
              /\ irps' = irps
        /\ device' = SelfManagedBecomes(Begin(device, {"Io"}), "Start", o)
  BY DEF StartIo
<1>2. device'.powerDownFailure = device.powerDownFailure
  <2> DEFINE d == Begin(device, {"Io"})
  <2>1. d \in Device /\ FlagsStay(device, d) /\ d.smio = device.smio
    BY CallbacksKeepFlags, StageSets DEF StageInv
  <2> HIDE DEF d
  <2>2. FlagsStay(d, SelfManagedBecomes(d, "Start", o))
    BY <2>1, SelfManagesKeepsFlags
  <2>3. QED
    BY <1>1, <2>1, <2>2 DEF FlagsStay, d
<1>3. CASE PowerEntry(s, IF o.client THEN undo ELSE failed, <<>>) /\ irps' = irps
  BY <1>2, <1>3, PowerAlong
<1>4. CASE PowerSendPowerUpEvents(s, ok) /\ irps' = released
  <2>1. PICK m : PowerEntry(s, ok, IdlePosts(m) \o <<<<"policy", "PowerUp">>>>)
    BY <1>4 DEF PowerSendPowerUpEvents
  <2>2. at["power"] = s /\ Powering /\ at'["power"] = ok
        /\ queue' = PostAll(queue, IdlePosts(m) \o <<<<"policy", "PowerUp">>>>)
    BY <2>1, PowerSteps DEF DZero, Null
  <2>3. "PowerUp" \in PwrPolPriorityEventsMask /\ \E e : e \in Events \ Statuses
    BY DEF PwrPolPriorityEventsMask, Events, Statuses
  <2>4. Answers(queue, queue', "PowerUp")
    BY <2>2, <2>3, AnswerPosts
  <2>5. Work = WorkOf(s) /\ Work' = "none" /\ at'["power"] # "Dx" /\ s # "Dx"
    BY <2>2, EitherDZero DEF Work, Along, PowerNoEntry
  <2>6. ASSUME PowerActs
        PROVE  IrpsFit' /\ ~device'.powerDownFailure
    <3>1. ~device'.powerDownFailure
      BY <1>2, <2>2, <2>6 DEF PowerActs
    <3>2. CASE WorkOf(s) = "none" /\ released = irps
      BY <1>4, <2>2, <2>5, <2>6, <3>1, <3>2 DEF PowerActs, IrpsFit, NoIrp
    <3>3. CASE WorkOf(s) = "D0" /\ released = Release(irps)
      <4>1. WorksOn("D0")
        BY <2>5, <2>6, <3>3 DEF PowerActs, IrpsFit
      <4>2. NoIrp'
        BY <1>4, <3>3, <4>1, ReleasesIts DEF NoIrp
      <4>3. QED
        BY <2>5, <3>1, <4>2 DEF IrpsFit
    <3>4. QED
      BY <3>2, <3>3
  <2>7. s \notin DZero /\ ok # Null /\ ok \in {Null} \cup PowerNoEntry \cup DZero
    BY DEF Along, DZero, Null
  <2>8. \A a \in CarriesOut(s) : (IF ok = Null THEN s ELSE ok) \in Outcome(a, "PowerUp")
    BY <2>7
  <2>9. QED
    BY <2>1, <2>3, <2>4, <2>6, <2>7, <2>8, PowerAnswers
<1>5. QED
  BY <1>1, <1>3, <1>4

LEMMA PowerUpFails ==
    ASSUME CountInv, StageInv, queue \in Queues, Lockstep, NEW s, NEW next,
           PowerSendPowerUpFailureEvent(s, next), s \notin DZero \cup DownFailed,
           next \in {Null, "Stopped"}, s # "Dx",
           \A o \in CarriesOut(s) : (IF next = Null THEN s ELSE next) \in Outcome(o, "PowerUpFailed"),
           \/ WorkOf(s) = "none" /\ next = "Stopped" /\ irps' = irps
           \/ WorkOf(s) = "D0" /\ next = Null /\ s \in Broken /\ irps' = Release(irps)
    PROVE  Lockstep' /\ PowerQuiet
<1>1. PICK m : PowerEntry(s, next, IdlePosts(m) \o <<<<"policy", "PowerUpFailed">>,
                                                     <<"pnp", "PowerUpFailed">>>>)
  BY DEF PowerSendPowerUpFailureEvent
<1>2. device'.powerDownFailure = device.powerDownFailure
  BY CallbacksKeepFlags, StageSets DEF PowerSendPowerUpFailureEvent, StageInv, FlagsStay
<1>3. /\ at["power"] = s /\ Powering /\ at'["power"] = (IF next = Null THEN s ELSE next) /\ ~Powering'
      /\ queue' = PostAll(queue, IdlePosts(m) \o <<<<"policy", "PowerUpFailed">>,
                                                   <<"pnp", "PowerUpFailed">>>>)
  BY <1>1, PowerSteps DEF PowerNoEntry
<1>4. "PowerUpFailed" \in PwrPolPriorityEventsMask /\ "PowerUpFailed" \in Events \ Statuses
  BY DEF PwrPolPriorityEventsMask, Events, Statuses
<1>5. Answers(queue, queue', "PowerUpFailed")
  BY <1>3, <1>4, AnswerPosts
<1>6. Work = WorkOf(s) /\ Work' = "none" /\ at'["power"] # "Dx"
  BY <1>3 DEF Work, WorkOf, Null, Broken
<1>7. ASSUME PowerActs
      PROVE  IrpsFit' /\ ~device'.powerDownFailure
  <2>1. ~device'.powerDownFailure
    BY <1>2, <1>3, <1>7 DEF PowerActs
  <2>2. CASE WorkOf(s) = "none" /\ irps' = irps
    BY <1>3, <1>6, <1>7, <2>1, <2>2 DEF PowerActs, IrpsFit, NoIrp
  <2>3. CASE WorkOf(s) = "D0" /\ irps' = Release(irps)
    <3>1. WorksOn("D0")
      BY <1>6, <1>7, <2>3 DEF PowerActs, IrpsFit
    <3>2. NoIrp'
      BY <2>3, <3>1, ReleasesIts DEF NoIrp
    <3>3. QED
      BY <1>6, <2>1, <3>2 DEF IrpsFit
  <2>4. QED
    BY <2>2, <2>3
<1>8. next \in {Null} \cup PowerNoEntry \cup DZero
  BY DEF PowerNoEntry
<1>9. QED
  BY <1>1, <1>4, <1>5, <1>7, <1>8, PowerAnswers

LEMMA PowerImplicitlyDown ==
    ASSUME CountInv, queue \in Queues, Lockstep, NEW s, ImplicitPowerDown(s, "Stopped"), irps' = irps,
           s \notin DZero \cup DownFailed, s # "Dx", WorkOf(s) = "none", CarriesOut(s) = {"ImplicitD3"},
           device'.powerDownFailure = device.powerDownFailure
    PROVE  Lockstep' /\ PowerQuiet
<1>1. PICK m : PowerEntry(s, "Stopped", IdlePosts(m) \o <<<<"policy", "PowerDown">>>>)
  BY DEF ImplicitPowerDown, PowerSendPowerDownEvents
<1>2. queue' = PostAll(queue, IdlePosts(m) \o <<<<"policy", "PowerDown">>>>)
  BY <1>1, PowerSteps
<1>3. "PowerDown" \in PwrPolPriorityEventsMask /\ \E e : e \in Events \ Statuses
  BY DEF PwrPolPriorityEventsMask, Events, Statuses
<1>4. Answers(queue, queue', "PowerDown")
  BY <1>2, <1>3, AnswerPosts
<1>5. PowerActs => IrpsFit' /\ ~device'.powerDownFailure
  BY <1>1, NoWorkFits
<1>6. "Stopped" # Null /\ "Stopped" \in PowerNoEntry /\ \A o \in CarriesOut(s) : "Stopped" \in Outcome(o, "PowerDown")
  BY DEF Null, PowerNoEntry, Outcome
<1>7. QED
  BY <1>1, <1>3, <1>4, <1>5, <1>6, PowerAnswers

LEMMA PowerGotoD3StoppedAnswers ==
    ASSUME CountInv, StageInv, queue \in Queues, Lockstep, PowerGotoD3Stopped
    PROVE  Lockstep' /\ PowerQuiet
<1>1. PICK o \in SelfManaged!ProcessEvent(device.smio, "Suspend") :
        /\ \/ PowerEntry("GotoD3Stopped", "FinalPowerDownFailed", <<>>)
           \/ ImplicitPowerDown("GotoD3Stopped", "Stopped")
        /\ device' = End(SelfManagedBecomes(device, "Suspend", o), InD0)
        /\ irps' = irps
  BY DEF PowerGotoD3Stopped
<1>2. device'.powerDownFailure = device.powerDownFailure
  <2> DEFINE d == SelfManagedBecomes(device, "Suspend", o)
  <2>1. d \in Device /\ FlagsStay(device, d)
    BY SelfManagesKeepsFlags DEF StageInv
  <2> HIDE DEF d
  <2>2. FlagsStay(d, End(d, InD0))
    BY <2>1, CallbacksKeepFlags, StageSets
  <2>3. QED
    BY <1>1, <2>1, <2>2 DEF FlagsStay, d
<1>3. /\ Along("GotoD3Stopped", "FinalPowerDownFailed") /\ "GotoD3Stopped" \notin DZero \cup DownFailed
      /\ WorkOf("GotoD3Stopped") = "none" /\ CarriesOut("GotoD3Stopped") = {"ImplicitD3"}
  BY DEF Along, DZero, DownFailed, WorkOf, CarriesOut, PowerNoEntry, Null
<1>4. QED
  BY <1>1, <1>2, <1>3, PowerAlong, PowerImplicitlyDown

LEMMA PowerFinalPowerDownFailedAnswers ==
    ASSUME CountInv, StageInv, queue \in Queues, Lockstep, PowerFinalPowerDownFailed
    PROVE  Lockstep' /\ PowerQuiet
<1> DEFINE s == "FinalPowerDownFailed"
<1>1. /\ PowerEntry(s, "Stopped", <<<<"policy", "PowerDownFailed">>>>) /\ irps' = irps
      /\ device'.powerDownFailure = device.powerDownFailure
  BY CallbacksKeepFlags, StageSets DEF PowerFinalPowerDownFailed, Elsewhere, StageInv, FlagsStay
<1>2. queue' = PostAll(queue, <<<<"policy", "PowerDownFailed">>>>)
  BY <1>1, PowerSteps
<1>3. "PowerDownFailed" \in PwrPolPriorityEventsMask /\ \E e : e \in Events \ Statuses
  BY DEF PwrPolPriorityEventsMask, Events, Statuses
<1>4. Answers(queue, queue', "PowerDownFailed")
  BY <1>2, <1>3, AnswerPosts
<1>5. /\ s \notin DZero \cup DownFailed /\ WorkOf(s) = "none" /\ s # "Dx" /\ CarriesOut(s) = {"ImplicitD3"}
      /\ "Stopped" # Null /\ "Stopped" \in PowerNoEntry /\ "Stopped" \in Outcome("ImplicitD3", "PowerDownFailed")
  BY DEF DZero, DownFailed, WorkOf, CarriesOut, PowerNoEntry, Null, Outcome
<1> HIDE DEF s
<1>6. PowerActs => IrpsFit' /\ ~device'.powerDownFailure
  BY <1>1, <1>5, NoWorkFits
<1>7. \A o \in CarriesOut(s) : (IF "Stopped" = Null THEN s ELSE "Stopped") \in Outcome(o, "PowerDownFailed")
  BY <1>5
<1>8. QED
  BY <1>1, <1>3, <1>4, <1>5, <1>6, <1>7, PowerAnswers

(* keeps its IRP while it waits for the power policy machine *)
LEMMA PowerWaitsOn ==
    ASSUME CountInv, Lockstep, NEW s \in {"GotoDx", "WakingPostHardwareEnabled"}, NEW a \in PwrPolPriorityEventsMask,
           PowerEntry(s, Null, <<<<"policy", a>>>>), queue \in Queues, irps' = irps,
           device'.powerDownFailure = device.powerDownFailure, \A o \in CarriesOut(s) : s \in Outcome(o, a)
    PROVE  Lockstep' /\ PowerQuiet
<1>1. /\ at["power"] = s /\ Powering /\ at'["power"] = s /\ ~Powering'
      /\ queue' = PostAll(queue, <<<<"policy", a>>>>)
  BY PowerSteps
<1>2. \E e : e \in Events \ Statuses
  BY DEF Events, Statuses
<1>3. Answers(queue, queue', a)
  BY <1>1, <1>2, AnswerPosts
<1>4. s \notin DZero \cup DownFailed \cup Broken \cup {"Dx"}
  BY DEF DZero, DownFailed, Broken
<1>5. Work = WorkOf(s) /\ Work' = WorkOf(s)
  BY <1>1, <1>4 DEF Work
<1>6. PowerActs => IrpsFit' /\ ~device'.powerDownFailure
  BY <1>1, <1>4, <1>5 DEF PowerActs, IrpsFit, WorksOn, NoIrp
<1>7. QED
  BY <1>3, <1>4, <1>6, PowerAnswers

LEMMA PowerGotoDNotZeroAnswers ==
    ASSUME CountInv, StageInv, queue \in Queues, Lockstep, PowerGotoDNotZero
    PROVE  Lockstep' /\ PowerQuiet
<1>1. PICK o \in SelfManaged!ProcessEvent(device.smio, "Suspend") :
        device' = [End(SelfManagedBecomes(device, "Suspend", o), {"Io"})
                   EXCEPT !.ioCallbackFailure = @ \/ ~o.ok]
  BY DEF PowerGotoDNotZero
<1>2. device'.powerDownFailure = device.powerDownFailure
  <2> DEFINE d == SelfManagedBecomes(device, "Suspend", o)
             e == End(d, {"Io"})
  <2>1. d \in Device /\ FlagsStay(device, d)
    BY SelfManagesKeepsFlags DEF StageInv
  <2> HIDE DEF d
  <2>2. FlagsStay(d, e) /\ e \in Device
    BY <2>1, CallbacksKeepFlags, StageSets
  <2>3. device' = [e EXCEPT !.ioCallbackFailure = @ \/ ~o.ok]
    BY <1>1 DEF d
  <2> HIDE DEF e
  <2>4. device'.powerDownFailure = e.powerDownFailure
    BY <2>2, <2>3 DEF Device
  <2>5. QED
    BY <2>1, <2>2, <2>4 DEF FlagsStay
<1>3. /\ "PowerDownIoStopped" \in PwrPolPriorityEventsMask
      /\ \A a \in CarriesOut("GotoDx") : "GotoDx" \in Outcome(a, "PowerDownIoStopped")
  BY DEF PwrPolPriorityEventsMask, CarriesOut, Outcome
<1>4. QED
  BY <1>2, <1>3, PowerWaitsOn DEF PowerGotoDNotZero, Elsewhere

LEMMA PowerWakingPostHardwareEnabledAnswers ==
    ASSUME CountInv, StageInv, queue \in Queues, Lockstep, PowerWakingPostHardwareEnabled
    PROVE  Lockstep' /\ PowerQuiet
<1> DEFINE s == "WakingPostHardwareEnabled"
<1>1. device'.powerDownFailure = device.powerDownFailure /\ irps' = irps
  BY CallbacksKeepFlags, StageSets
    DEF PowerWakingPostHardwareEnabled, PostHardwareEnabled, StageInv, FlagsStay, Elsewhere
<1>2. \/ PowerEntry(s, Null, <<<<"policy", "PowerUpHwStarted">>>>)
      \/ PowerEntry(s, "WakingPostHardwareEnabledFailed", <<>>)
      \/ PowerEntry(s, "WakingDmaEnableFailed", <<>>)
  BY DEF PowerWakingPostHardwareEnabled, PostHardwareEnabled
<1>3. /\ Along(s, "WakingPostHardwareEnabledFailed") /\ Along(s, "WakingDmaEnableFailed")
      /\ "PowerUpHwStarted" \in PwrPolPriorityEventsMask
      /\ \A o \in CarriesOut(s) : s \in Outcome(o, "PowerUpHwStarted")
  BY DEF Along, DZero, PowerNoEntry, CarriesOut, WorkOf, DownFailed, Null, PwrPolPriorityEventsMask, Outcome
<1>4. QED
  BY <1>1, <1>2, <1>3, PowerWaitsOn, PowerAlong

LEMMA PostHardwareEnabledAlong ==
    ASSUME CountInv, StageInv, queue \in Queues, Lockstep, NEW s, NEW ok, NEW undo, NEW failed,
           PostHardwareEnabled(s, ok, undo, failed, <<>>), Along(s, ok), Along(s, undo), Along(s, failed)
    PROVE  Lockstep' /\ PowerQuiet
<1>1. device'.powerDownFailure = device.powerDownFailure /\ irps' = irps
  BY CallbacksKeepFlags, StageSets DEF PostHardwareEnabled, StageInv, FlagsStay, Elsewhere
<1>2. QED
  BY <1>1, PowerAlong DEF PostHardwareEnabled

(* A Dx that was carried out, or failed, is answered when its IRP completes *)
LEMMA PowerReleasesDx ==
    ASSUME CountInv, StageInv, Lockstep, NEW s, NEW next, NEW posts, PowerEntry(s, next, posts),
           Calm(queue, queue'), irps' = Release(irps), WorkOf(s) = "Dx", CarriesOut(s) = {"CompleteDx"},
           s \notin DZero, device'.powerDownFailure = device.powerDownFailure,
           \/ s \notin DownFailed /\ next = "Dx"
           \/ s = "ReportPowerDownFailed" /\ next = Null
    PROVE  Lockstep' /\ PowerQuiet
<1>1. /\ Powering /\ at["power"] = s /\ PolicyStands /\ PnpStays
      /\ at'["power"] = (IF next = Null THEN s ELSE next) /\ ~Powering'
  BY PowerSteps DEF PowerNoEntry
<1>2. PowerActs
  BY <1>1, PowerIsActing
<1>3. PowerQuiet
  BY <1>1 DEF PowerQuiet, Calm, AnswersStay, NoOrder
<1>4. WorksOn("Dx")
  BY <1>1, <1>2 DEF PowerActs, IrpsFit, Work
<1>5. irps'.device = <<Irp("Dx", "released")>>
  BY <1>4, ReleasesIts
<1>6. /\ Asks' /\ OrderOf(at'["policy"]) = "CompleteDx" /\ NoOrder' /\ NoAnswer'
  BY <1>1, <1>2, <1>3, SameMeans DEF PowerActs, Asks, NoOrder, NoAnswer, Calm, AnswersStay, PolicyStands
<1>7. at'["power"] = IF device'.powerDownFailure THEN "ReportPowerDownFailed" ELSE "Dx"
  BY <1>1, <1>2 DEF PowerActs, DownFailed, Null
<1>8. IrpReleased'
  BY <1>1, <1>5, <1>6, <1>7 DEF IrpReleased
<1>9. QED
  BY <1>3, <1>8 DEF Lockstep

LEMMA PowerGotoDNotZeroIoStoppedReleases ==
    ASSUME CountInv, StageInv, queue \in Queues, Lockstep, PowerGotoDNotZeroIoStopped
    PROVE  Lockstep' /\ PowerQuiet
<1> DEFINE s == "GotoDxIoStopped"
           e == End(device, InD0 \ {"Io"})
           down == [e EXCEPT !.ioCallbackFailure = FALSE]
<1>1. \/ /\ PowerEntry(s, "GotoDxFailed", <<>>)
         /\ device' = [down EXCEPT !.powerDownFailure = TRUE] /\ irps' = irps
      \/ /\ PowerSendPowerDownEvents(s, "Dx", <<>>)
         /\ device' = down /\ irps' = Release(irps)
  BY DEF PowerGotoDNotZeroIoStopped
<1>2. /\ s \notin DZero \cup DownFailed \cup PowerNoEntry \cup Broken /\ WorkOf(s) = "Dx"
      /\ CarriesOut(s) = {"CompleteDx"} /\ WorkOf("GotoDxFailed") = "Dx" /\ s # "Dx"
      /\ CarriesOut("GotoDxFailed") = {"CompleteDx"}
      /\ "GotoDxFailed" \in DownFailed \ PowerNoEntry /\ "GotoDxFailed" \notin Broken
      /\ "GotoDxFailed" # Null
  BY DEF DZero, DownFailed, PowerNoEntry, WorkOf, CarriesOut, Broken, Null
<1>3. down \in Device /\ down.powerDownFailure = device.powerDownFailure
  <2>1. e \in Device /\ e.powerDownFailure = device.powerDownFailure
    BY CallbacksKeepFlags, StageSets DEF StageInv, FlagsStay
  <2> HIDE DEF e
  <2>2. QED
    BY <2>1 DEF Device
<1> HIDE DEF down, s
<1>4. CASE /\ PowerEntry(s, "GotoDxFailed", <<>>)
           /\ device' = [down EXCEPT !.powerDownFailure = TRUE] /\ irps' = irps
  <2>1. /\ Powering /\ at["power"] = s /\ PolicyStands /\ PnpStays
        /\ at'["power"] = "GotoDxFailed" /\ Powering' /\ queue' = queue
    BY <1>2, <1>4, PowerSteps, PostNone
  <2>2. PowerActs
    BY <1>2, <2>1, PowerIsActing
  <2>3. PowerQuiet
    BY <2>1, CalmReflexive DEF PowerQuiet, Calm, NoOrder
  <2>4. device'.powerDownFailure
    BY <1>3, <1>4 DEF Device
  <2>5. IrpsFit'
    BY <1>2, <1>4, <2>1, <2>2 DEF PowerActs, IrpsFit, Work, WorksOn
  <2>6. Asks' /\ NoOrder' /\ NoAnswer' /\ OrderOf(at'["policy"]) \in CarriesOut(at'["power"])
    BY <1>2, <2>1, <2>2 DEF PowerActs, Asks, NoOrder, NoAnswer, PolicyStands
  <2>7. PowerActs'
    BY <1>2, <2>1, <2>4, <2>5, <2>6 DEF PowerActs
  <2>8. QED
    BY <2>3, <2>7 DEF Lockstep
<1>5. CASE /\ PowerSendPowerDownEvents(s, "Dx", <<>>)
           /\ device' = down /\ irps' = Release(irps)
  <2>1. PICK m : PowerEntry(s, "Dx", IdlePosts(m) \o <<>>)
    BY <1>5 DEF PowerSendPowerDownEvents
  <2>2. Calm(queue, queue')
    BY <2>1, PowerSteps, CalmPosts
  <2>3. QED
    BY <1>2, <1>3, <1>5, <2>1, <2>2, PowerReleasesDx
<1>6. QED
  BY <1>1, <1>4, <1>5

LEMMA PowerReportPowerDownFailedReleases ==
    ASSUME CountInv, StageInv, queue \in Queues, Lockstep, PowerReportPowerDownFailed
    PROVE  Lockstep' /\ PowerQuiet
<1> DEFINE s == "ReportPowerDownFailed"
<1>1. PICK m : PowerEntry(s, Null, IdlePosts(m))
  BY DEF PowerReportPowerDownFailed
<1>2. /\ s \notin DZero /\ WorkOf(s) = "Dx" /\ CarriesOut(s) = {"CompleteDx"}
  BY DEF DZero, WorkOf, CarriesOut
<1>3. device'.powerDownFailure = device.powerDownFailure /\ irps' = Release(irps)
  BY CallbacksKeepFlags, StageSets DEF PowerReportPowerDownFailed, StageInv, FlagsStay
<1>4. Calm(queue, queue')
  BY <1>1, PowerSteps, CalmPosts
<1>5. QED
  BY <1>1, <1>2, <1>3, <1>4, PowerReleasesDx

(* where the power machine rests when an order comes, and what it does     *)
LEMMA OrderRests ==
    \A p :
      /\ OrderOf(p) = "ImplicitD0" => RestsAt(p) = Off
      /\ OrderOf(p) = "ImplicitD3" => RestsAt(p) \subseteq DZero \cup {"Dx"} \cup Broken
      /\ OrderOf(p) = "Dx" => RestsAt(p) = DZero
      /\ OrderOf(p) = "D0" => RestsAt(p) = {"Dx"}
      /\ OrderOf(p) = "CompleteDx" => RestsAt(p) = {"GotoDx"}
      /\ OrderOf(p) = "CompleteD0" => RestsAt(p) = {"WakingPostHardwareEnabled"}
      /\ OrderOf(p) \in {"none", "ImplicitD0", "ImplicitD3", "Dx", "D0", "CompleteDx", "CompleteD0"}
BY DEF OrderOf, RestsAt

LEMMA OrderHasRow ==
    ASSUME NEW p, OrderOf(p) # "none", NEW w \in RestsAt(p),
           OrderOf(p) \in PowerPriorityEventsMask \/ w \in PowerOpen
    PROVE  \E r \in PowerRows : r[1] = w /\ r[2] = OrderOf(p)
<1>1. CASE OrderOf(p) = "ImplicitD0"
  BY <1>1, OrderRests DEF PowerRows, Off
<1>2. CASE OrderOf(p) = "ImplicitD3"
  <2>1. w \in {"D0", "Dx", "ReportPowerUpFailed", "ReportPowerDownFailed"}
    BY <1>2, OrderRests DEF DZero, Broken, PowerOpen, PowerPriorityEventsMask
  <2>2. QED
    BY <1>2, <2>1 DEF PowerRows
<1>3. CASE OrderOf(p) = "Dx"
  <2>1. w = "D0"
    BY <1>3, OrderRests DEF DZero, PowerOpen, PowerPriorityEventsMask
  <2>2. QED
    BY <1>3, <2>1 DEF PowerRows
<1>4. CASE OrderOf(p) = "D0"
  BY <1>4, OrderRests DEF PowerRows
<1>5. CASE OrderOf(p) = "CompleteDx"
  BY <1>5, OrderRests DEF PowerRows
<1>6. CASE OrderOf(p) = "CompleteD0"
  BY <1>6, OrderRests DEF PowerRows
<1>7. QED
  BY <1>1, <1>2, <1>3, <1>4, <1>5, <1>6, OrderRests

LEMMA PowerRowOrders ==
    \A r \in PowerRows :
      /\ r[2] \in CarriesOut(r[3])
      /\ r[3] \notin PowerNoEntry \cup DZero \cup DownFailed \cup Broken \cup {"Dx"}
      /\ IF r[2] \in {"D0", "Dx"} THEN WorkOf(r[3]) = r[2]
         ELSE WorkOf(r[3]) = (IF r[1] \in Broken THEN "none" ELSE WorkOf(r[1]))
BY DEF PowerRows, CarriesOut, PowerNoEntry, DZero, DownFailed, Broken, WorkOf

(* it takes the order *)
LEMMA PowerTakes ==
    ASSUME CountInv, queue \in Queues, Lockstep, PowerProcessEventInner
    PROVE  /\ ~Powering /\ OrderQueued /\ Powering'
           /\ queue' \in Queues /\ queue["power"] # <<>> /\ queue'["power"] = <<>>
           /\ queue'["policy"] = queue["policy"] /\ queue'["pnp"] = queue["pnp"]
           /\ PolicyStands /\ PnpStays /\ UNCHANGED <<device, irps>>
           /\ \E r \in PowerRows :
                r[1] = at["power"] /\ r[2] = OrderOf(at["policy"]) /\ at'["power"] = r[3]
<1>1. /\ ~Powering /\ queue["power"] # <<>> /\ queue' = [queue EXCEPT !["power"] = Tail(@)]
      /\ Head(queue["power"]) \in PowerPriorityEventsMask \/ at["power"] \in PowerOpen
      /\ device' = device
  BY DEF PowerProcessEventInner, Takes, Powering, Priority
<1>2. OrderQueued
  BY <1>1 DEF Lockstep, PolicyActs, IrpSent, PowerActs, IrpReleased, Answered, NoOrder
<1> DEFINE o == OrderOf(at["policy"])
<1>3. queue["power"] = <<o>> /\ at["power"] \in RestsAt(at["policy"]) /\ o # "none"
  BY <1>2 DEF OrderQueued, Asks
<1>4. /\ queue' \in Queues /\ queue'["power"] = <<>> /\ queue'["policy"] = queue["policy"]
      /\ queue'["pnp"] = queue["pnp"]
  <2>1. Tail(queue["power"]) \in Seq(Events)
    BY <1>1, Beheaded DEF Queues
  <2>2. Tail(queue["power"]) = <<>>
    BY <1>3
  <2>3. QED
    BY <1>1, <2>1, <2>2 DEF Queues
<1>5. PICK r \in PowerRows : /\ r[1] = at["power"] /\ r[2] = o
                             /\ EnterNewState("power", r[3], PowerNoEntry) /\ irps' = irps
  <2>1. Row("power", PowerRows) # {}
    BY <1>1, <1>3, OrderHasRow DEF Row
  <2>2. QED
    BY <1>3, <2>1 DEF PowerProcessEventInner, Row
<1>6. /\ PolicyStands /\ PnpStays /\ at'["power"] = r[3] /\ Powering'
  <2>1. DOMAIN at = Machines /\ Machines = {"pnp", "policy", "power"}
    BY DEF CountInv, Machines
  <2>2. r[3] \notin PowerNoEntry
    BY PowerRowOrders
  <2>3. QED
    BY <1>5, <2>1, <2>2 DEF EnterNewState, PolicyStands, PnpStays, Powering
<1>7. QED
  BY <1>1, <1>2, <1>4, <1>5, <1>6

LEMMA PowerEventTakes ==
    ASSUME CountInv, StageInv, queue \in Queues, Lockstep, PowerProcessEventInner
    PROVE  Lockstep' /\ PowerQuiet
<1> DEFINE o == OrderOf(at["policy"])
<1>1. /\ ~Powering /\ OrderQueued /\ PolicyStands /\ PnpStays /\ UNCHANGED <<device, irps>>
  BY PowerTakes
<1>2. OrderQueued
  BY <1>1
<1>3. queue["power"] = <<o>> /\ at["power"] \in RestsAt(at["policy"]) /\ o # "none"
  BY <1>2 DEF OrderQueued, Asks
<1>4. /\ queue' \in Queues /\ queue'["power"] = <<>> /\ queue'["policy"] = queue["policy"]
      /\ queue'["pnp"] = queue["pnp"]
  BY PowerTakes
<1>5. PICK r \in PowerRows : r[1] = at["power"] /\ r[2] = o /\ at'["power"] = r[3]
  BY PowerTakes
<1>6. PolicyStands /\ PnpStays /\ at'["power"] = r[3] /\ Powering' /\ irps' = irps
  BY <1>1, <1>5, PowerTakes
<1>7. PowerQuiet
  BY <1>4, <1>6, SameReflexive DEF PowerQuiet, OrdersStay, NoOrder
<1>8. Asks' /\ NoOrder' /\ NoAnswer' /\ OrderOf(at'["policy"]) \in CarriesOut(at'["power"])
  BY <1>2, <1>4, <1>5, <1>6, PowerRowOrders DEF OrderQueued, Asks, NoOrder, NoAnswer, PolicyStands
<1>9. Work' = WorkOf(r[3]) /\ at'["power"] # "Dx"
  BY <1>6, PowerRowOrders DEF Work
<1>10. IrpsFit'
  <2>1. CASE o \in {"D0", "Dx"}
    <3>1. r[2] \in {"D0", "Dx"} /\ WorksOn(r[2]) /\ Work' = r[2]
      BY <1>2, <1>5, <1>9, <2>1, PowerRowOrders DEF OrderQueued
    <3>2. QED
      BY <1>6, <3>1 DEF IrpsFit, WorksOn
  <2>2. CASE o \notin {"D0", "Dx"}
    <3>1. IrpsFit
      BY <1>2, <2>2 DEF OrderQueued
    <3>2. Work' = Work
      BY <1>1, <1>5, <1>9, <2>2, PowerRowOrders DEF Work
    <3>3. QED
      BY <1>6, <1>9, <3>1, <3>2 DEF IrpsFit, WorksOn, NoIrp
  <2>3. QED
    BY <2>1, <2>2
<1>11. ~device'.powerDownFailure /\ at'["power"] \notin DownFailed
  BY <1>1, <1>2, <1>6, PowerRowOrders DEF OrderQueued
<1>12. PowerActs'
  BY <1>6, <1>8, <1>10, <1>11 DEF PowerActs
<1>13. QED
  BY <1>7, <1>12 DEF Lockstep

(* a step of the machine keeps it in step with the power policy machine    *)
LEMMA PowerKeepsStep ==
    ASSUME CountInv, StageInv, queue \in Queues, Lockstep, PowerNext
    PROVE  Lockstep' /\ PowerQuiet
<1>1. CASE PowerProcessEventInner
  BY <1>1, PowerEventTakes
<1>2. CASE PowerStartingCheckDeviceType
  BY <1>2, PowerPassesAlong DEF PowerStartingCheckDeviceType, Along,
      CarriesOut, WorkOf, DZero, DownFailed, PowerNoEntry, Null
<1>3. CASE PowerCheckDeviceType
  BY <1>3, PowerPassesAlong DEF PowerCheckDeviceType, Along, CarriesOut,
      WorkOf, DZero, DownFailed, PowerNoEntry, Null
<1>4. CASE PowerD0Starting
  BY <1>4, CallD0EntryAlong DEF PowerD0Starting, Along, CarriesOut, WorkOf,
      DZero, DownFailed, PowerNoEntry, Null
<1>5. CASE PowerWaking
  BY <1>5, CallD0EntryAlong DEF PowerWaking, Along, CarriesOut, WorkOf, DZero,
      DownFailed, PowerNoEntry, Null
<1>6. CASE PowerNotifyingD0EntryToWakeInterrupts
  BY <1>6, PowerPassesAlong DEF PowerNotifyingD0EntryToWakeInterrupts, Along,
      CarriesOut, WorkOf, DZero, DownFailed, PowerNoEntry, Null
<1>7. CASE PowerD0StartingConnectInterrupt
  BY <1>7, ConnectInterruptAlong DEF PowerD0StartingConnectInterrupt, Along,
      CarriesOut, WorkOf, DZero, DownFailed, PowerNoEntry, Null
<1>8. CASE PowerWakingConnectInterrupt
  BY <1>8, ConnectInterruptAlong DEF PowerWakingConnectInterrupt, Along,
      CarriesOut, WorkOf, DZero, DownFailed, PowerNoEntry, Null
<1>9. CASE PowerD0StartingDmaEnable
  BY <1>9, DmaEnableAlong DEF PowerD0StartingDmaEnable, Along, CarriesOut,
      WorkOf, DZero, DownFailed, PowerNoEntry, Null
<1>10. CASE PowerWakingDmaEnable
  BY <1>10, DmaEnableAlong DEF PowerWakingDmaEnable, Along, CarriesOut,
      WorkOf, DZero, DownFailed, PowerNoEntry, Null
<1>11. CASE PowerD0StartingPostHardwareEnabled
  BY <1>11, PostHardwareEnabledAlong DEF PowerD0StartingPostHardwareEnabled,
      Along, CarriesOut, WorkOf, DZero, DownFailed, PowerNoEntry, Null
<1>12. CASE PowerWakingPostHardwareEnabled
  BY <1>12, PowerWakingPostHardwareEnabledAnswers
<1>13. CASE PowerD0StartingStartSelfManagedIo
  BY <1>13, PowerStartIoAnswers DEF PowerD0StartingStartSelfManagedIo,
      Outcome, Along, CarriesOut, WorkOf, DZero, DownFailed, PowerNoEntry,
      Null
<1>14. CASE PowerStartSelfManagedIo
  BY <1>14, PowerStartIoAnswers DEF PowerStartSelfManagedIo, Outcome, Along,
      CarriesOut, WorkOf, DZero, DownFailed, PowerNoEntry, Null
<1>15. CASE PowerDecideD0State
  BY <1>15, PowerInDZero DEF PowerDecideD0State, DZero
<1>16. CASE PowerDZero
  BY <1>16, PowerInDZero DEF PowerDZero, DZero
<1>17. CASE PowerInitialSelfManagedIoFailedStarted
  BY <1>17, SuspendsIgnoredAlong DEF PowerInitialSelfManagedIoFailedStarted,
      Along, CarriesOut, WorkOf, DZero, DownFailed, PowerNoEntry, Null
<1>18. CASE PowerStartSelfManagedIoFailedStarted
  BY <1>18, SuspendsIgnoredAlong DEF PowerStartSelfManagedIoFailedStarted,
      Along, CarriesOut, WorkOf, DZero, DownFailed, PowerNoEntry, Null
<1>19. CASE PowerInitialSelfManagedIoFailed
  BY <1>19, PowerUndoesAlong, StageSets DEF PowerInitialSelfManagedIoFailed,
      Along, CarriesOut, WorkOf, DZero, DownFailed, PowerNoEntry, Null
<1>20. CASE PowerStartSelfManagedIoFailed
  BY <1>20, PowerUndoesAlong, StageSets DEF PowerStartSelfManagedIoFailed,
      Along, CarriesOut, WorkOf, DZero, DownFailed, PowerNoEntry, Null
<1>21. CASE PowerInitialPostHardwareEnabledFailed
  BY <1>21, PowerUndoesAlong, StageSets DEF
      PowerInitialPostHardwareEnabledFailed, Along, CarriesOut, WorkOf, DZero,
      DownFailed, PowerNoEntry, Null
<1>22. CASE PowerWakingPostHardwareEnabledFailed
  BY <1>22, PowerUndoesAlong, StageSets DEF
      PowerWakingPostHardwareEnabledFailed, Along, CarriesOut, WorkOf, DZero,
      DownFailed, PowerNoEntry, Null
<1>23. CASE PowerInitialDmaEnableFailed
  BY <1>23, PowerUndoesAlong, StageSets DEF PowerInitialDmaEnableFailed,
      Along, CarriesOut, WorkOf, DZero, DownFailed, PowerNoEntry, Null
<1>24. CASE PowerWakingDmaEnableFailed
  BY <1>24, PowerUndoesAlong, StageSets DEF PowerWakingDmaEnableFailed, Along,
      CarriesOut, WorkOf, DZero, DownFailed, PowerNoEntry, Null
<1>25. CASE PowerInitialConnectInterruptFailed
  BY <1>25, PowerUndoesAlong, StageSets DEF
      PowerInitialConnectInterruptFailed, Along, CarriesOut, WorkOf, DZero,
      DownFailed, PowerNoEntry, Null
<1>26. CASE PowerWakingConnectInterruptFailed
  BY <1>26, PowerUndoesAlong, StageSets DEF PowerWakingConnectInterruptFailed,
      Along, CarriesOut, WorkOf, DZero, DownFailed, PowerNoEntry, Null
<1>27. CASE PowerInitialPowerUpFailedPowerDown
  BY <1>27, PowerUndoesAlong, StageSets DEF
      PowerInitialPowerUpFailedPowerDown, Along, CarriesOut, WorkOf, DZero,
      DownFailed, PowerNoEntry, Null
<1>28. CASE PowerUpFailedPowerDown
  BY <1>28, PowerUndoesAlong, StageSets DEF PowerUpFailedPowerDown, Along,
      CarriesOut, WorkOf, DZero, DownFailed, PowerNoEntry, Null
<1>29. CASE PowerInitialPowerUpFailedDerefParent
  BY <1>29, PowerPassesAlong DEF PowerInitialPowerUpFailedDerefParent, Along,
      CarriesOut, WorkOf, DZero, DownFailed, PowerNoEntry, Null
<1>30. CASE PowerUpFailedDerefParent
  BY <1>30, PowerPassesAlong DEF PowerUpFailedDerefParent, Along, CarriesOut,
      WorkOf, DZero, DownFailed, PowerNoEntry, Null
<1>31. CASE PowerReportPowerUpFailedDerefParent
  BY <1>31, PowerPassesAlong DEF PowerReportPowerUpFailedDerefParent, Along,
      CarriesOut, WorkOf, DZero, DownFailed, PowerNoEntry, Null
<1>32. CASE PowerInitialPowerUpFailed
  BY <1>32, PowerUpFails DEF PowerInitialPowerUpFailed, Outcome, Broken,
      CarriesOut, WorkOf, DZero, DownFailed, PowerNoEntry, Null
<1>33. CASE PowerReportPowerUpFailed
  BY <1>33, PowerUpFails DEF PowerReportPowerUpFailed, Outcome, Broken,
      CarriesOut, WorkOf, DZero, DownFailed, PowerNoEntry, Null
<1>34. CASE PowerGotoD3Stopped
  BY <1>34, PowerGotoD3StoppedAnswers
<1>35. CASE PowerFinalPowerDownFailed
  BY <1>35, PowerFinalPowerDownFailedAnswers
<1>36. CASE PowerGotoDNotZero
  BY <1>36, PowerGotoDNotZeroAnswers
<1>37. CASE PowerNotifyingD0ExitToWakeInterrupts
  BY <1>37, PowerPassesAlong DEF PowerNotifyingD0ExitToWakeInterrupts, Along,
      CarriesOut, WorkOf, DZero, DownFailed, PowerNoEntry, Null
<1>38. CASE PowerGotoDNotZeroIoStopped
  BY <1>38, PowerGotoDNotZeroIoStoppedReleases
<1>39. CASE PowerGotoDxFailed
  BY <1>39, PowerPassesAlong DEF PowerGotoDxFailed, Along, CarriesOut, WorkOf,
      DZero, DownFailed, PowerNoEntry, Null
<1>40. CASE PowerReportPowerDownFailed
  BY <1>40, PowerReportPowerDownFailedReleases
<1>41. CASE PowerPowerFailedPowerDown
  BY <1>41, PowerImplicitlyDown DEF PowerPowerFailedPowerDown,
      PowerDownWasDone, CarriesOut, WorkOf, DZero, DownFailed
<1>42. CASE PowerGotoDxStoppedDisableInterrupt
  BY <1>42, PowerPassesAlong DEF PowerGotoDxStoppedDisableInterrupt, Along,
      CarriesOut, WorkOf, DZero, DownFailed, PowerNoEntry, Null
<1>43. CASE PowerGotoDxStopped
  BY <1>43, PowerImplicitlyDown DEF PowerGotoDxStopped, PowerDownWasDone,
      CarriesOut, WorkOf, DZero, DownFailed
<1>44. QED
  BY <1>1, <1>2, <1>3, <1>4, <1>5, <1>6, <1>7, <1>8, <1>9, <1>10, <1>11,
     <1>12, <1>13, <1>14, <1>15, <1>16, <1>17, <1>18, <1>19, <1>20, <1>21,
     <1>22, <1>23, <1>24, <1>25, <1>26, <1>27, <1>28, <1>29, <1>30, <1>31,
     <1>32, <1>33, <1>34, <1>35, <1>36, <1>37, <1>38, <1>39, <1>40, <1>41,
     <1>42, <1>43
    DEF PowerNext, PowerEntersState

(* An entry function of the power policy machine leaves the others alone   *)
LEMMA PolicySteps ==
    ASSUME CountInv, NEW s, NEW next, NEW posts, PolicyEntry(s, next, posts)
    PROVE  /\ "policy" \in entering /\ at["policy"] = s /\ queue' = PostAll(queue, posts)
           /\ PowerStands /\ PnpStays
           /\ at'["policy"] = IF next = Null THEN s ELSE next
           /\ "policy" \in entering' <=> (next # Null /\ next \notin PolicyNoEntry)
<1>1. DOMAIN at = Machines /\ "power" \in Machines /\ "policy" \in Machines
  BY DEF CountInv, Machines
<1>2. QED
  BY <1>1, PolicyEntryStays DEF PolicyEntry, Entry, EnterNewState, PowerStands, Powering

(* and runs only while it is its turn                                      *)
LEMMA PolicyIsActing ==
    ASSUME Lockstep, ~Asks
    PROVE  PolicyActs
BY DEF Lockstep, OrderQueued, IrpSent, PowerActs, IrpReleased, Answered

(* the machine asks in states that have an entry function, and takes       *)
(* nothing but answers in them                                             *)
LEMMA AskingStates ==
    ASSUME NEW s, OrderOf(s) # "none"
    PROVE  s \notin PolicyNoEntry \cup PolicyOpen
BY DEF OrderOf, PolicyNoEntry, PolicyOpen

(* it goes on with the power machine where it was *)
GoesOn(s, next) ==
  IF next = Null THEN OrderOf(s) = "none" ELSE RestsAt(s) \subseteq RestsAt(next)

(* what was sent, released or completed of the IRPs stays *)
IrpsStand == irps'.device = irps.device /\ (irps'.up => irps.up)

LEMMA PolicyKeepsTurn ==
    ASSUME PolicyActs, PowerStands, NoOrder', NoAnswer', ~Asks', IrpsStand,
           device'.powerDownFailure = device.powerDownFailure,
           at["power"] \in RestsAt(at'["policy"])
    PROVE  Lockstep'
<1>1. at'["power"] = at["power"] /\ (Powering' <=> Powering)
  BY DEF PowerStands
<1>2. IrpsFit'
  BY <1>1 DEF PolicyActs, IrpsFit, Work, WorksOn, NoIrp, IrpsStand
<1>3. PolicyActs'
  BY <1>1, <1>2 DEF PolicyActs, Rests
<1>4. QED
  BY <1>3 DEF Lockstep

LEMMA PolicyGoesOn ==
    ASSUME CountInv, Lockstep, NEW s, NEW next, NEW posts, PolicyEntry(s, next, posts),
           AnswersStay(queue, queue'), GoesOn(s, next), IrpsStand,
           device'.powerDownFailure = device.powerDownFailure
    PROVE  Lockstep'
<1>1. /\ "policy" \in entering /\ at["policy"] = s /\ PowerStands
      /\ at'["policy"] = IF next = Null THEN s ELSE next
      /\ "policy" \in entering' <=> (next # Null /\ next \notin PolicyNoEntry)
  BY PolicySteps
<1>2. PolicyActs
  BY <1>1, PolicyIsActing DEF Asks
<1>3. NoOrder' /\ NoAnswer'
  BY <1>2, SameMeans DEF PolicyActs, NoOrder, NoAnswer, AnswersStay
<1>4. ~Asks'
  BY <1>1, AskingStates DEF Asks, GoesOn
<1>5. at["power"] \in RestsAt(at'["policy"])
  BY <1>1, <1>2 DEF PolicyActs, GoesOn
<1>6. QED
  BY <1>1, <1>2, <1>3, <1>4, <1>5, PolicyKeepsTurn

(* it gives an order *)
LEMMA PolicyTells ==
    ASSUME CountInv, Lockstep, NEW s, NEW o, NEW posts, PolicyEntry(s, Null, posts),
           OrderOf(s) = o, o \notin {"none", "D0", "Dx"}, Told(queue, queue', o), irps' = irps,
           device'.powerDownFailure = device.powerDownFailure
    PROVE  Lockstep'
<1>1. /\ "policy" \in entering /\ at["policy"] = s /\ PowerStands
      /\ at'["policy"] = s /\ "policy" \notin entering'
  BY PolicySteps
<1>2. PolicyActs
  BY <1>1, PolicyIsActing DEF Asks
<1>3. queue'["power"] = <<o>> /\ NoAnswer'
  BY <1>2, SameMeans DEF PolicyActs, NoOrder, NoAnswer, Told
<1>4. Asks' /\ OrderOf(at'["policy"]) = o
  BY <1>1 DEF Asks
<1>5. at'["power"] = at["power"] /\ (Powering' <=> Powering)
  BY <1>1 DEF PowerStands
<1>6. IrpsFit'
  BY <1>2, <1>5 DEF PolicyActs, IrpsFit, Work, WorksOn, NoIrp
<1>7. OrderQueued'
  BY <1>1, <1>2, <1>3, <1>4, <1>5, <1>6 DEF PolicyActs, OrderQueued, Rests
<1>8. QED
  BY <1>7 DEF Lockstep

LEMMA OneAndOne ==
    ASSUME NEW p, NEW a
    PROVE  Append(<<p>>, a) = <<p, a>>
<1> DEFINE S == {p, a}
           s == Append(<<p>>, a)
           t == <<p, a>>
<1>1. p \in S /\ a \in S
  OBVIOUS
<1> HIDE DEF S
<1>2. s \in Seq(S) /\ t \in Seq(S) /\ Len(s) = 2 /\ Len(t) = 2
  BY <1>1
<1>3. s[1] = p /\ s[2] = a
  BY <1>1
<1>4. t[1] = p /\ t[2] = a
  OBVIOUS
<1> HIDE DEF s, t
<1>5. \A i \in 1..2 : i = 1 \/ i = 2
  OBVIOUS
<1>6. \A i \in 1..Len(s) : s[i] = t[i]
  BY <1>2, <1>3, <1>4, <1>5
<1>7. s = t
  BY <1>2, <1>6, SameElements
<1>8. QED
  BY <1>7 DEF s, t

(* or sends an IRP *)
LEMMA PolicySendsIrp ==
    ASSUME CountInv, StageInv, queue \in Queues, Lockstep, NEW s, NEW to \in {"D0", "Dx"}, NEW failed,
           PolicySends(s, to, failed), OrderOf(s) = to, GoesOn(s, failed), failed # Null,
           device'.powerDownFailure = device.powerDownFailure
    PROVE  Lockstep'
<1> DEFINE sent == Append(irps.device, [to |-> to, stage |-> "sent"])
<1>1. irps \in Irps
  BY DEF StageInv
<1>2. CASE PolicyEntry(s, failed, <<>>) /\ irps' = Requested(irps, to, FALSE)
  <2>1. IrpsStand
    BY <1>1, <1>2 DEF Requested, IrpsStand, Irps
  <2>2. AnswersStay(queue, queue')
    BY <1>2, PolicySteps, CalmPosts DEF Calm
  <2>3. QED
    BY <1>2, <2>1, <2>2, PolicyGoesOn
<1>3. CASE PolicyEntry(s, Null, <<>>) /\ irps' = Requested([irps EXCEPT !.device = sent], to, TRUE)
  <2>1. /\ "policy" \in entering /\ at["policy"] = s /\ PowerStands
        /\ at'["policy"] = s /\ "policy" \notin entering' /\ queue' = queue
    BY <1>3, PolicySteps, PostNone
  <2>2. PolicyActs
    BY <2>1, PolicyIsActing DEF Asks
  <2>3. irps'.device = sent /\ irps'.up = (IF to = "D0" THEN TRUE ELSE irps.up)
    BY <1>1, <1>3 DEF Requested, Irps
  <2>4. Asks' /\ OrderOf(at'["policy"]) = to
    BY <2>1 DEF Asks
  <2>5. \/ /\ irps'.device = <<Irp(to, "sent")>>
           /\ to = "D0" => irps'.up
        \/ /\ to = "Dx" /\ ~irps'.up
           /\ irps'.device = <<Irp("D0", "released"), Irp("Dx", "sent")>>
    <3>1. CASE irps.device = <<>>
      BY <2>3, <3>1 DEF Irp
    <3>2. CASE irps.device # <<>>
      <4>1. at["power"] \in RestsAt(s)
        BY <2>1, <2>2 DEF PolicyActs
      <4>2. at["power"] # "Dx" /\ to = "Dx"
        <5>1. at["power"] # "Dx"
          BY <2>2, <3>2 DEF PolicyActs, IrpsFit, Work, WorkOf
        <5>2. QED
          BY <4>1, <5>1, OrderRests
      <4>3. Work = "none"
        BY <4>1, <4>2, EitherDZero, OrderRests DEF Work
      <4>4. NoIrp
        BY <2>2, <4>2, <4>3 DEF PolicyActs, IrpsFit
      <4>5. irps.device = <<Irp("D0", "released")>> /\ ~irps.up
        BY <3>2, <4>4 DEF NoIrp
      <4>6. Append(<<Irp("D0", "released")>>, Irp("Dx", "sent")) = <<Irp("D0", "released"), Irp("Dx", "sent")>>
        BY OneAndOne
      <4>7. QED
        BY <2>3, <4>2, <4>5, <4>6 DEF Irp
    <3>3. QED
      BY <3>1, <3>2
  <2>6. IrpSent'
    <3>1. NoOrder' /\ NoAnswer' /\ Rests' /\ at'["power"] \in RestsAt(at'["policy"])
          /\ ~device'.powerDownFailure
      BY <2>1, <2>2 DEF PolicyActs, NoOrder, NoAnswer, Rests, PowerStands
    <3>2. QED
      BY <2>4, <2>5, <3>1 DEF IrpSent
  <2>7. QED
    BY <2>6 DEF Lockstep
<1>4. QED
  BY <1>2, <1>3 DEF PolicySends

(* what it posts to the PnP machine *)
LEMMA QuietPosts ==
    ASSUME NEW q \in Queues, NEW m, NEW e \in Events
    PROVE  /\ AnswersStay(q, PostAll(q, <<>>)) /\ AnswersStay(q, PostAll(q, IdlePosts(m) \o <<>>))
           /\ AnswersStay(q, PostAll(q, ToPnp(e)))
           /\ e \in Statuses => AnswersStay(q, PostAll(q, IdlePosts(m) \o ToPnp(e)))
<1>1. e \in Statuses => AnswersStay(q, PostAll(q, ToPnp(e)))
                        /\ AnswersStay(q, PostAll(q, IdlePosts(m) \o ToPnp(e)))
  BY StatusPosts DEF Reported
<1>2. e \notin Statuses => AnswersStay(q, PostAll(q, ToPnp(e)))
  BY CalmPosts DEF Calm, ToPnp
<1>3. QED
  BY <1>1, <1>2, CalmPosts DEF Calm

(* kinds of its entry functions *)
LEMMA PolicyPassesOn ==
    ASSUME CountInv, queue \in Queues, Lockstep, NEW s, NEW next, PolicyPasses(s, next), GoesOn(s, next)
    PROVE  Lockstep'
<1>1. PolicyEntry(s, next, <<>>) /\ irps' = irps /\ device' = device
  BY DEF PolicyPasses, PolicyPosts, PolicyKeeps
<1>2. AnswersStay(queue, queue')
  BY <1>1, PolicySteps, CalmPosts DEF Calm
<1>3. QED
  BY <1>1, <1>2, PolicyGoesOn DEF IrpsStand

LEMMA PolicyReports ==
    ASSUME CountInv, queue \in Queues, Lockstep, NEW s, NEW next, NEW e \in Events,
           PolicyPosts(s, next, ToPnp(e)), GoesOn(s, next)
    PROVE  Lockstep'
<1>1. PolicyEntry(s, next, ToPnp(e)) /\ irps' = irps /\ device' = device
  BY DEF PolicyPosts, PolicyKeeps
<1>2. AnswersStay(queue, queue')
  BY <1>1, PolicySteps, QuietPosts
<1>3. QED
  BY <1>1, <1>2, PolicyGoesOn DEF IrpsStand

LEMMA PolicyOrders ==
    ASSUME CountInv, queue \in Queues, Lockstep, NEW s, NEW o \in Events,
           PolicyPosts(s, Null, ToPower(o)), OrderOf(s) = o, o \notin {"none", "D0", "Dx"}
    PROVE  Lockstep'
<1>1. PolicyEntry(s, Null, ToPower(o)) /\ irps' = irps /\ device' = device
  BY DEF PolicyPosts, PolicyKeeps
<1>2. Told(queue, queue', o)
  BY <1>1, PolicySteps, PowerPosts
<1>3. QED
  BY <1>1, <1>2, PolicyTells

LEMMA PolicyIdlesOn ==
    ASSUME CountInv, queue \in Queues, Lockstep, NEW s, NEW next, NEW m,
           PolicyIdles(s, next, m, <<>>), GoesOn(s, next)
    PROVE  Lockstep'
<1>1. PolicyEntry(s, next, IdlePosts(m) \o <<>>) /\ irps' = irps /\ device' = device
  BY DEF PolicyIdles, PolicyKeeps
<1>2. AnswersStay(queue, queue')
  BY <1>1, PolicySteps, CalmPosts DEF Calm
<1>3. QED
  BY <1>1, <1>2, PolicyGoesOn DEF IrpsStand

LEMMA PolicyIdlesAndReports ==
    ASSUME CountInv, queue \in Queues, Lockstep, NEW s, NEW next, NEW m, NEW a \in Statuses,
           PolicyIdles(s, next, m, ToPnp(a)), GoesOn(s, next)
    PROVE  Lockstep'
<1>1. PolicyEntry(s, next, IdlePosts(m) \o ToPnp(a)) /\ irps' = irps /\ device' = device
  BY DEF PolicyIdles, PolicyKeeps
<1>2. AnswersStay(queue, queue')
  BY <1>1, PolicySteps, QuietPosts, MaskEvents
<1>3. QED
  BY <1>1, <1>2, PolicyGoesOn DEF IrpsStand

LEMMA PolicyIdlesAndOrders ==
    ASSUME CountInv, queue \in Queues, Lockstep, NEW s, NEW m, NEW o \in Events,
           PolicyIdles(s, Null, m, ToPower(o)), OrderOf(s) = o, o \notin {"none", "D0", "Dx"}
    PROVE  Lockstep'
<1>1. PolicyEntry(s, Null, IdlePosts(m) \o ToPower(o)) /\ irps' = irps /\ device' = device
  BY DEF PolicyIdles, PolicyKeeps
<1>2. Told(queue, queue', o)
  BY <1>1, PolicySteps, PowerPosts
<1>3. QED
  BY <1>1, <1>2, PolicyTells

LEMMA CancelsTimerOn ==
    ASSUME CountInv, queue \in Queues, Lockstep, NEW s, NEW next, NEW wait,
           CancelsTimer(s, next, wait), GoesOn(s, next), GoesOn(s, wait)
    PROVE  Lockstep'
<1> DEFINE m == Idle!DisableTimer(idle)
           t == IF Idle!DisabledImmediately(m) THEN next ELSE wait
<1>1. PolicyIdles(s, t, m, <<>>)
  BY DEF CancelsTimer
<1>2. GoesOn(s, t)
  OBVIOUS
<1> HIDE DEF m, t
<1>3. QED
  BY <1>1, <1>2, PolicyIdlesOn

LEMMA QueriesIdleOn ==
    ASSUME CountInv, queue \in Queues, Lockstep, NEW s, NEW idleNext, NEW busyNext,
           QueriesIdle(s, idleNext, busyNext), GoesOn(s, idleNext), GoesOn(s, busyNext)
    PROVE  Lockstep'
<1> DEFINE t == IF Idle!IsIdle(idle) THEN idleNext ELSE busyNext
<1>1. PolicyIdles(s, t, Idle!Queried(idle), <<>>)
  BY DEF QueriesIdle
<1>2. GoesOn(s, t)
  OBVIOUS
<1> HIDE DEF t
<1>3. QED
  BY <1>1, <1>2, PolicyIdlesOn

LEMMA PolicyFlags ==
    ASSUME StageInv
    PROVE  /\ FlagsStay(device, device)
           /\ SetInternalFailure(device).powerDownFailure = device.powerDownFailure
           /\ PowerFailed(device).powerDownFailure = device.powerDownFailure
           /\ [device EXCEPT !.powerFailed = FALSE].powerDownFailure = device.powerDownFailure
BY DEF StageInv, Device, SetInternalFailure, PowerFailed, FlagsStay

LEMMA PolicyFailsOn ==
    ASSUME CountInv, StageInv, queue \in Queues, Lockstep, NEW s, NEW d, NEW next, NEW posts,
           PolicyFails(s, d, next, posts), GoesOn(s, next),
           d.powerDownFailure = device.powerDownFailure, posts = <<>> \/ posts = ToPnp("PowerUpFailed")
    PROVE  Lockstep'
<1>1. PolicyEntry(s, next, posts) /\ irps' = irps /\ device' = d
  BY DEF PolicyFails, PolicyKeeps
<1>2. "PowerUpFailed" \in Events
  BY DEF Events, PwrPolPriorityEventsMask
<1>3. AnswersStay(queue, queue')
  BY <1>1, <1>2, PolicySteps, QuietPosts
<1>4. QED
  BY <1>1, <1>3, PolicyGoesOn DEF IrpsStand

LEMMA CompletesSystemPowerIrpOn ==
    ASSUME CountInv, StageInv, queue \in Queues, Lockstep, NEW s, NEW d, NEW next, NEW posts,
           CompletesSystemPowerIrp(s, d, next, posts), GoesOn(s, next),
           d.powerDownFailure = device.powerDownFailure, posts = <<>> \/ posts = ToPnp("PowerDownFailed")
    PROVE  Lockstep'
<1>1. PolicyEntry(s, next, posts) /\ irps' = irps /\ device' = d
  BY DEF CompletesSystemPowerIrp
<1>2. "PowerDownFailed" \in Events
  BY DEF Events, PwrPolPriorityEventsMask
<1>3. AnswersStay(queue, queue')
  BY <1>1, <1>2, PolicySteps, QuietPosts
<1>4. QED
  BY <1>1, <1>3, PolicyGoesOn DEF IrpsStand

LEMMA PolicyRequestsSend ==
    ASSUME CountInv, StageInv, queue \in Queues, Lockstep, NEW s, NEW to \in {"D0", "Dx"}, NEW failed,
           PolicyRequests(s, to, failed), OrderOf(s) = to, GoesOn(s, failed), failed # Null
    PROVE  Lockstep'
BY PolicySendsIrp DEF PolicyRequests

LEMMA PowerPolStartingPoweredUpOn ==
    ASSUME CountInv, queue \in Queues, Lockstep, PowerPolStartingPoweredUp
    PROVE  Lockstep'
<1> DEFINE s == "StartingPoweredUp"
<1>1. PICK next \in {"StartingSucceeded", "StartingPoweredUpFailed"} : PolicyEntry(s, next, <<>>)
  BY DEF PowerPolStartingPoweredUp
<1>2. AnswersStay(queue, queue')
  BY <1>1, PolicySteps, CalmPosts DEF Calm
<1>3. GoesOn(s, next)
  BY DEF GoesOn, RestsAt, Null
<1>4. irps' = irps /\ device' = device
  BY DEF PowerPolStartingPoweredUp
<1>5. QED
  BY <1>1, <1>2, <1>3, <1>4, PolicyGoesOn DEF IrpsStand

LEMMA PowerPolStoppingSendStatusOn ==
    ASSUME CountInv, StageInv, queue \in Queues, Lockstep, PowerPolStoppingSendStatus
    PROVE  Lockstep'
<1> DEFINE s == "StoppingSendStatus"
           m == Idle!Stop(idle)
           a == IF device.powerFailed THEN "PwrPolStopFailed" ELSE "PwrPolStopped"
<1>1. a \in Statuses /\ PolicyEntry(s, "Stopped", IdlePosts(m) \o ToPnp(a))
  BY DEF PowerPolStoppingSendStatus, Statuses
<1> HIDE DEF m, a
<1>2. AnswersStay(queue, queue')
  BY <1>1, PolicySteps, QuietPosts, MaskEvents
<1>3. GoesOn(s, "Stopped")
  BY DEF GoesOn, RestsAt, Null
<1>4. irps' = irps /\ device'.powerDownFailure = device.powerDownFailure
  BY PolicyFlags DEF PowerPolStoppingSendStatus, PolicyKeeps
<1>5. QED
  BY <1>1, <1>2, <1>3, <1>4, PolicyGoesOn DEF IrpsStand

LEMMA PowerPolStoppingResetDeviceSends ==
    ASSUME CountInv, StageInv, queue \in Queues, Lockstep, PowerPolStoppingResetDevice
    PROVE  Lockstep'
<1>1. /\ PolicySends("StoppingResetDevice", "D0", "DeviceD0PowerRequestFailed")
      /\ device' = device
  BY DEF PowerPolStoppingResetDevice
<1>2. /\ OrderOf("StoppingResetDevice") = "D0" /\ "DeviceD0PowerRequestFailed" # Null
      /\ GoesOn("StoppingResetDevice", "DeviceD0PowerRequestFailed")
  BY DEF OrderOf, GoesOn, RestsAt, Null
<1>3. QED
  BY <1>1, <1>2, PolicySendsIrp

(* It takes an event: the answer it waits for, or, when it waits for none, *)
(* one that is no answer                                                   *)
RowGoesOn(r) ==
  IF OrderOf(r[1]) = "none"
  THEN r[2] \notin PwrPolPriorityEventsMask => RestsAt(r[1]) \subseteq RestsAt(r[3])
  ELSE Outcome(OrderOf(r[1]), r[2]) \subseteq RestsAt(r[3])

(* where the power machine rests in the states the rows lead from and to   *)
LEMMA RestsOff ==
    \A s \in {"ObjectCreated", "Starting", "StartingFailed", "Restarting", "RestartingFailed",
              "StoppingSendStatus", "StoppingFailed", "Stopped", "StoppedRemoving", "Removed"} :
      RestsAt(s) = Off
BY DEF RestsAt

LEMMA RestsUp ==
    \A s \in {"StartingPoweredUp", "StartingPoweredUpFailed", "StartingSucceeded",
              "StartingDecideS0Wake", "Started", "StartedCancelTimer",
              "StartedWaitForIdleTimeout", "StartedIdleCapable", "IdleCapableDeviceIdle",
              "TimerExpiredNoWake", "TimerExpiredNoWakePowerDownNotProcessed",
              "StartedIdleCapableCancelTimerForSleep",
              "StartedIdleCapableTimerCanceledForSleep",
              "StartedIdleCapableWaitForIdleTimeout", "Sleeping", "SleepingNoWakePowerDown",
              "SleepingPowerDownNotProcessed"} : RestsAt(s) = DZero
BY DEF RestsAt

LEMMA RestsInDx ==
    \A s \in {"TimerExpiredNoWakePoweredDownDisableIdleTimer", "WaitingUnarmed",
              "WaitingUnarmedQueryIdle", "S0NoWakePowerUp",
              "SystemSleepFromDeviceWaitingUnarmed", "SystemAsleepNoWake",
              "SystemWakeDeviceWakeDisabled", "SystemWakeDeviceToD0", "StoppingResetDevice"} :
      RestsAt(s) = {"Dx"}
BY DEF RestsAt

LEMMA RestsBetween ==
    /\ \A s \in {"TimerExpiredNoWakeCompletePowerDown", "SleepingNoWakeCompletePowerDown"} :
         RestsAt(s) = {"GotoDx"}
    /\ \A s \in {"S0NoWakeCompletePowerUp", "SystemWakeDeviceToD0CompletePowerUp",
                 "StoppingResetDeviceCompletePowerUp"} :
         RestsAt(s) = {"WakingPostHardwareEnabled"}
BY DEF RestsAt

LEMMA RestsAnywhere ==
    \A s \in {"Stopping", "StoppingCancelTimer", "StoppingWaitForIdleTimeout",
              "StoppingResetDeviceFailed", "DevicePowerRequestFailed",
              "DeviceD0PowerRequestFailed", "SystemSleepPowerRequestFailed",
              "SystemWakeDevicePowerRequestFailed", "SystemWakeDeviceD0PowerRequestFailed"} :
      RestsAt(s) = DZero \cup {"Dx"} \cup Broken
BY DEF RestsAt

(* what they ask for, and the answers                                      *)
LEMMA OrdersAsked ==
    /\ \A s \in {"Starting", "Restarting"} : OrderOf(s) = "ImplicitD0"
    /\ \A s \in {"StartingPoweredUpFailed", "Stopping"} : OrderOf(s) = "ImplicitD3"
    /\ \A s \in {"TimerExpiredNoWake", "SleepingNoWakePowerDown"} : OrderOf(s) = "Dx"
    /\ \A s \in {"S0NoWakePowerUp", "SystemWakeDeviceToD0", "StoppingResetDevice"} :
         OrderOf(s) = "D0"
    /\ \A s \in {"TimerExpiredNoWakeCompletePowerDown", "SleepingNoWakeCompletePowerDown"} :
         OrderOf(s) = "CompleteDx"
    /\ \A s \in {"S0NoWakeCompletePowerUp", "SystemWakeDeviceToD0CompletePowerUp",
                 "StoppingResetDeviceCompletePowerUp"} : OrderOf(s) = "CompleteD0"
BY DEF OrderOf

LEMMA NothingAsked ==
    \A s \in {"ObjectCreated", "StartingFailed", "Started", "StartedWaitForIdleTimeout",
              "StartedIdleCapable", "WaitingUnarmed", "StartedIdleCapableWaitForIdleTimeout",
              "SystemAsleepNoWake", "StoppingWaitForIdleTimeout", "Stopped", "Removed",
              "DevicePowerRequestFailed"} : OrderOf(s) = "none"
BY DEF OrderOf

LEMMA UpOutcomes ==
    /\ \A o \in {"ImplicitD0", "CompleteD0"} : Outcome(o, "PowerUp") = DZero
    /\ Outcome("ImplicitD0", "PowerUpFailed") = {"Stopped"}
    /\ Outcome("D0", "PowerUpHwStarted") = {"WakingPostHardwareEnabled"}
    /\ Outcome("D0", "PowerUpNotSeen") = {"Dx"}
    /\ \A o \in {"D0", "CompleteD0"} : Outcome(o, "PowerUpFailed") = {"ReportPowerUpFailed"}
BY DEF Outcome

LEMMA DownOutcomes ==
    /\ \A a \in {"PowerDown", "PowerDownFailed"} : Outcome("ImplicitD3", a) = {"Stopped"}
    /\ Outcome("Dx", "PowerDownIoStopped") = {"GotoDx"}
    /\ Outcome("Dx", "PowerDown") = DZero
    /\ Outcome("CompleteDx", "PowerDown") = {"Dx"}
    /\ Outcome("CompleteDx", "PowerDownFailed") = {"ReportPowerDownFailed"}
BY DEF Outcome

LEMMA PolicyRowsGoOn == \A r \in PolicyRows : RowGoesOn(r)
<1>1. \A r \in StartRows : RowGoesOn(r)
  BY RestsOff, RestsUp, RestsInDx, RestsBetween, RestsAnywhere,
     OrdersAsked, NothingAsked, UpOutcomes, DownOutcomes
     DEF StartRows, RowGoesOn, PwrPolPriorityEventsMask, Off, Broken
<1>2. \A r \in IdleRows : RowGoesOn(r)
  BY RestsOff, RestsUp, RestsInDx, RestsBetween, RestsAnywhere,
     OrdersAsked, NothingAsked, UpOutcomes, DownOutcomes
     DEF IdleRows, RowGoesOn, PwrPolPriorityEventsMask, Off, Broken
<1>3. \A r \in SleepRows : RowGoesOn(r)
  BY RestsOff, RestsUp, RestsInDx, RestsBetween, RestsAnywhere,
     OrdersAsked, NothingAsked, UpOutcomes, DownOutcomes
     DEF SleepRows, RowGoesOn, PwrPolPriorityEventsMask, Off, Broken
<1>4. \A r \in StopRows : RowGoesOn(r)
  BY RestsOff, RestsUp, RestsInDx, RestsBetween, RestsAnywhere,
     OrdersAsked, NothingAsked, UpOutcomes, DownOutcomes
     DEF StopRows, RowGoesOn, PwrPolPriorityEventsMask, Off, Broken
<1>5. QED
  BY <1>1, <1>2, <1>3, <1>4 DEF PolicyRows

LEMMA PolicyEventTakes ==
    ASSUME CountInv, queue \in Queues, Lockstep, PowerPolicyProcessEventInner
    PROVE  Lockstep'
<1> DEFINE M == PwrPolPriorityEventsMask
           s == queue["policy"]
<1>1. /\ "policy" \notin entering /\ s # <<>> /\ queue' = [queue EXCEPT !["policy"] = Tail(@)]
      /\ Head(s) \in M \/ at["policy"] \in PolicyOpen
      /\ device' = device /\ irps' = irps
  BY DEF PowerPolicyProcessEventInner, Takes, Priority
<1>2. s \in Seq(Events) /\ queue'["policy"] = Tail(s) /\ queue'["power"] = queue["power"]
  BY <1>1 DEF Queues
<1>3. /\ Head(s) \notin M => Same(s, Tail(s), M)
      /\ Head(s) \in M /\ Lone(s, M) => Without(Tail(s), M)
      /\ Without(s, M) => Head(s) \notin M
      /\ \A a \in M : Sole(s, M, a) /\ Head(s) \in M => Head(s) = a
  BY <1>1, <1>2, Shrinks
<1>4. PowerStands /\ IrpsStand
  <2>1. DOMAIN at = Machines /\ "power" \in Machines /\ "policy" \in Machines
    BY DEF CountInv, Machines
  <2>2. QED
    BY <1>1, <2>1 DEF PowerPolicyProcessEventInner, EnterNewState, PowerStands, Powering, IrpsStand
<1> DEFINE o == OrderOf(at["policy"])
<1>5. CASE Asks
  <2>1. Head(s) \in M
    BY <1>1, <1>5, AskingStates DEF Asks
  <2>2. Answered /\ ~Without(s, M)
    BY <1>3, <1>5, <2>1 DEF Lockstep, PolicyActs, OrderQueued, IrpSent, PowerActs, IrpReleased, Answered, NoAnswer
  <2>3. PICK a \in M : at["power"] \in Outcome(o, a) /\ Sole(s, M, a)
    BY <2>2 DEF Answered, NoAnswer
  <2>4. Head(s) = a /\ NoAnswer' /\ NoOrder'
    BY <1>2, <1>3, <2>1, <2>2, <2>3 DEF Sole, NoAnswer, NoOrder, Answered
  <2>5. ASSUME NEW r \in Row("policy", PolicyRows), EnterNewState("policy", r[3], PolicyNoEntry)
        PROVE  Lockstep'
    <3>1. r \in PolicyRows /\ r[1] = at["policy"] /\ r[2] = a
      BY <2>4, <2>5 DEF Row
    <3>2. at["power"] \in RestsAt(r[3])
      BY <1>5, <2>3, <3>1, PolicyRowsGoOn DEF RowGoesOn, Asks
    <3>3. /\ at'["policy"] = r[3] /\ ("policy" \in entering' <=> r[3] \notin PolicyNoEntry)
      BY <2>5 DEF EnterNewState, CountInv, Machines
    <3>4. ~Asks'
      BY <3>3, AskingStates DEF Asks
    <3>5. PolicyActs'
      <4>1. at'["power"] = at["power"] /\ (Powering' <=> Powering)
        BY <1>4 DEF PowerStands
      <4>2. IrpsFit' <=> IrpsFit
        BY <1>1, <4>1 DEF IrpsFit, Work, WorksOn, NoIrp
      <4>3. QED
        BY <1>1, <2>2, <2>4, <3>2, <3>3, <3>4, <4>1, <4>2 DEF PolicyActs, Answered, Rests
    <3>6. QED
      BY <3>5 DEF Lockstep
  <2>6. CASE UNCHANGED <<at, entering>>
    <3>1. (Asks' <=> Asks) /\ (Rests' <=> Rests) /\ (IrpsFit' <=> IrpsFit)
      BY <1>1, <2>6 DEF Asks, Rests, IrpsFit, Work, WorksOn, NoIrp, Powering
    <3>2. Answered'
      BY <1>1, <2>2, <2>3, <2>4, <2>6, <3>1 DEF Answered
    <3>3. QED
      BY <3>2 DEF Lockstep
  <2>7. QED
    BY <2>5, <2>6 DEF PowerPolicyProcessEventInner
<1>6. CASE ~Asks
  <2>1. PolicyActs
    BY <1>6, PolicyIsActing
  <2>2. Head(s) \notin M /\ NoAnswer' /\ NoOrder'
    BY <1>2, <1>3, <2>1, SameMeans DEF PolicyActs, NoAnswer, NoOrder
  <2>3. OrderOf(at["policy"]) = "none"
    BY <1>1, <1>6 DEF Asks
  <2>4. ASSUME NEW r \in Row("policy", PolicyRows), EnterNewState("policy", r[3], PolicyNoEntry)
        PROVE  Lockstep'
    <3>1. r \in PolicyRows /\ r[1] = at["policy"] /\ r[2] \notin M
      BY <2>2, <2>4 DEF Row
    <3>2. at["power"] \in RestsAt(r[3])
      BY <2>1, <2>3, <3>1, PolicyRowsGoOn DEF RowGoesOn, PolicyActs
    <3>3. /\ at'["policy"] = r[3] /\ ("policy" \in entering' <=> r[3] \notin PolicyNoEntry)
      BY <2>4 DEF EnterNewState, CountInv, Machines
    <3>4. ~Asks'
      BY <3>3, AskingStates DEF Asks
    <3>5. QED
      BY <1>1, <1>4, <2>1, <2>2, <3>2, <3>3, <3>4, PolicyKeepsTurn
  <2>5. CASE UNCHANGED <<at, entering>>
    <3>1. ~Asks' /\ at["power"] \in RestsAt(at'["policy"])
      BY <1>6, <2>1, <2>5 DEF Asks, PolicyActs
    <3>2. QED
      BY <1>1, <1>4, <2>1, <2>2, <3>1, PolicyKeepsTurn
  <2>6. QED
    BY <2>4, <2>5 DEF PowerPolicyProcessEventInner
<1>7. QED
  BY <1>5, <1>6

(* a step of the machine keeps the two in step                             *)
LEMMA PolicyKeepsStep ==
    ASSUME CountInv, StageInv, queue \in Queues, Lockstep, PowerPolicyNext
    PROVE  Lockstep'
<1>1. CASE PowerPolicyProcessEventInner
  BY <1>1, PolicyEventTakes
<1>2. CASE PowerPolStarting
  BY <1>2, PolicyIdlesAndOrders DEF PowerPolStarting, OrderOf, Events
<1>3. CASE PowerPolStartingPoweredUp
  BY <1>3, PowerPolStartingPoweredUpOn
<1>4. CASE PowerPolStartingPoweredUpFailed
  BY <1>4, PolicyOrders DEF PowerPolStartingPoweredUpFailed, OrderOf, Events
<1>5. CASE PowerPolStartingSucceeded
  BY <1>5, PolicyReports, MaskEvents DEF PowerPolStartingSucceeded, GoesOn,
      RestsAt, Null, OrderOf, Statuses
<1>6. CASE PowerPolStartingFailed
  BY <1>6, PolicyIdlesAndReports DEF PowerPolStartingFailed, GoesOn, RestsAt,
      Null, OrderOf, Statuses
<1>7. CASE PowerPolStartingDecideS0Wake
  BY <1>7, PolicyPassesOn DEF PowerPolStartingDecideS0Wake, GoesOn, RestsAt,
      Null, OrderOf
<1>8. CASE PowerPolStarted
  BY <1>8, PolicyIdlesOn DEF PowerPolStarted, GoesOn, RestsAt, Null, OrderOf
<1>9. CASE PowerPolStartedCancelTimer
  BY <1>9, CancelsTimerOn DEF PowerPolStartedCancelTimer, GoesOn, RestsAt,
      Null
<1>10. CASE PowerPolRestarting
  BY <1>10, PolicyIdlesAndOrders DEF PowerPolRestarting, OrderOf, Events
<1>11. CASE PowerPolRestartingFailed
  BY <1>11, PolicyIdlesAndReports DEF PowerPolRestartingFailed, GoesOn,
      RestsAt, Null, OrderOf, Statuses
<1>12. CASE PowerPolStartedIdleCapable
  BY <1>12, PolicyIdlesOn DEF PowerPolStartedIdleCapable, GoesOn, RestsAt,
      Null, OrderOf
<1>13. CASE PowerPolIdleCapableDeviceIdle
  BY <1>13, PolicyPassesOn DEF PowerPolIdleCapableDeviceIdle, GoesOn, RestsAt,
      Null, OrderOf
<1>14. CASE PowerPolTimerExpiredNoWake
  BY <1>14, PolicyRequestsSend DEF PowerPolTimerExpiredNoWake, GoesOn,
      RestsAt, Null, OrderOf
<1>15. CASE PowerPolTimerExpiredNoWakeCompletePowerDown
  BY <1>15, PolicyOrders DEF PowerPolTimerExpiredNoWakeCompletePowerDown,
      OrderOf, Events
<1>16. CASE PowerPolTimerExpiredNoWakePoweredDownDisableIdleTimer
  BY <1>16, PolicyIdlesOn DEF
      PowerPolTimerExpiredNoWakePoweredDownDisableIdleTimer, GoesOn, RestsAt,
      Null, OrderOf
<1>17. CASE PowerPolTimerExpiredNoWakePowerDownNotProcessed
  BY <1>17, PolicyFailsOn, PolicyFlags DEF
      PowerPolTimerExpiredNoWakePowerDownNotProcessed, GoesOn, RestsAt, Null,
      OrderOf
<1>18. CASE PowerPolTimerExpiredNoWakeUndoPowerDown
  BY <1>18, PolicyPassesOn DEF PowerPolTimerExpiredNoWakeUndoPowerDown,
      GoesOn, RestsAt, Null, OrderOf
<1>19. CASE PowerPolTimerExpiredNoWakeReturnToActive
  BY <1>19, PolicyPassesOn DEF PowerPolTimerExpiredNoWakeReturnToActive,
      GoesOn, RestsAt, Null, OrderOf
<1>20. CASE PowerPolWaitingUnarmedQueryIdle
  BY <1>20, QueriesIdleOn DEF PowerPolWaitingUnarmedQueryIdle, GoesOn,
      RestsAt, Null
<1>21. CASE PowerPolS0NoWakePowerUp
  BY <1>21, PolicyRequestsSend DEF PowerPolS0NoWakePowerUp, GoesOn, RestsAt,
      Null, OrderOf
<1>22. CASE PowerPolS0NoWakeCompletePowerUp
  BY <1>22, PolicyOrders DEF PowerPolS0NoWakeCompletePowerUp, OrderOf, Events
<1>23. CASE PowerPolStartedIdleCapableCancelTimerForSleep
  BY <1>23, CancelsTimerOn DEF PowerPolStartedIdleCapableCancelTimerForSleep,
      GoesOn, RestsAt, Null
<1>24. CASE PowerPolStartedIdleCapableTimerCanceledForSleep
  BY <1>24, PolicyPassesOn DEF
      PowerPolStartedIdleCapableTimerCanceledForSleep, GoesOn, RestsAt, Null,
      OrderOf
<1>25. CASE PowerPolSleeping
  BY <1>25, PolicyPassesOn DEF PowerPolSleeping, GoesOn, RestsAt, Null,
      OrderOf
<1>26. CASE PowerPolSleepingNoWakePowerDown
  BY <1>26, PolicyRequestsSend DEF PowerPolSleepingNoWakePowerDown, GoesOn,
      RestsAt, Null, OrderOf
<1>27. CASE PowerPolSleepingNoWakeCompletePowerDown
  BY <1>27, PolicyOrders DEF PowerPolSleepingNoWakeCompletePowerDown, OrderOf,
      Events
<1>28. CASE PowerPolSleepingNoWakeDxRequestFailed
  BY <1>28, CompletesSystemPowerIrpOn, PolicyFlags DEF
      PowerPolSleepingNoWakeDxRequestFailed, GoesOn, RestsAt, Null, OrderOf,
      FlagsStay
<1>29. CASE PowerPolSleepingPowerDownNotProcessed
  BY <1>29, PolicyFailsOn, PolicyFlags DEF
      PowerPolSleepingPowerDownNotProcessed, GoesOn, RestsAt, Null, OrderOf
<1>30. CASE PowerPolSystemSleepPowerRequestFailed
  BY <1>30, CompletesSystemPowerIrpOn, PolicyFlags DEF
      PowerPolSystemSleepPowerRequestFailed, GoesOn, RestsAt, Null, OrderOf,
      FlagsStay
<1>31. CASE PowerPolSystemSleepFromDeviceWaitingUnarmed
  BY <1>31, PolicyPassesOn DEF PowerPolSystemSleepFromDeviceWaitingUnarmed,
      GoesOn, RestsAt, Null, OrderOf
<1>32. CASE PowerPolSystemAsleepNoWake
  BY <1>32, CompletesSystemPowerIrpOn, PolicyFlags DEF
      PowerPolSystemAsleepNoWake, GoesOn, RestsAt, Null, OrderOf, FlagsStay
<1>33. CASE PowerPolSystemWakeDeviceWakeDisabled
  BY <1>33, PolicyPassesOn DEF PowerPolSystemWakeDeviceWakeDisabled, GoesOn,
      RestsAt, Null, OrderOf
<1>34. CASE PowerPolSystemWakeQueryIdle
  BY <1>34, QueriesIdleOn DEF PowerPolSystemWakeQueryIdle, GoesOn, RestsAt,
      Null
<1>35. CASE PowerPolSystemWakeDeviceToD0
  BY <1>35, PolicyRequestsSend DEF PowerPolSystemWakeDeviceToD0, GoesOn,
      RestsAt, Null, OrderOf
<1>36. CASE PowerPolSystemWakeDeviceToD0CompletePowerUp
  BY <1>36, PolicyOrders DEF PowerPolSystemWakeDeviceToD0CompletePowerUp,
      OrderOf, Events
<1>37. CASE PowerPolSystemWakeDevicePowerRequestFailed
  BY <1>37, PolicyPassesOn DEF PowerPolSystemWakeDevicePowerRequestFailed,
      GoesOn, RestsAt, Null, OrderOf
<1>38. CASE PowerPolSystemWakeDeviceD0PowerRequestFailed
  BY <1>38, PolicyPassesOn DEF PowerPolSystemWakeDeviceD0PowerRequestFailed,
      GoesOn, RestsAt, Null, OrderOf
<1>39. CASE PowerPolDeviceD0PowerRequestFailed
  BY <1>39, PolicyFailsOn, PolicyFlags DEF PowerPolDeviceD0PowerRequestFailed,
      GoesOn, RestsAt, Null, OrderOf
<1>40. CASE PowerPolDevicePowerRequestFailed
  BY <1>40, PolicyFailsOn, PolicyFlags DEF PowerPolDevicePowerRequestFailed,
      GoesOn, RestsAt, Null, OrderOf
<1>41. CASE PowerPolStoppingCancelTimer
  BY <1>41, CancelsTimerOn DEF PowerPolStoppingCancelTimer, GoesOn, RestsAt,
      Null
<1>42. CASE PowerPolStoppingResetDevice
  BY <1>42, PowerPolStoppingResetDeviceSends
<1>43. CASE PowerPolStoppingResetDeviceCompletePowerUp
  BY <1>43, PolicyOrders DEF PowerPolStoppingResetDeviceCompletePowerUp,
      OrderOf, Events
<1>44. CASE PowerPolStoppingResetDeviceFailed
  BY <1>44, PolicyFailsOn, PolicyFlags DEF PowerPolStoppingResetDeviceFailed,
      GoesOn, RestsAt, Null, OrderOf
<1>45. CASE PowerPolStopping
  BY <1>45, PolicyOrders DEF PowerPolStopping, OrderOf, Events
<1>46. CASE PowerPolStoppingFailed
  BY <1>46, PolicyFailsOn, PolicyFlags DEF PowerPolStoppingFailed, GoesOn,
      RestsAt, Null, OrderOf
<1>47. CASE PowerPolStoppingSendStatus
  BY <1>47, PowerPolStoppingSendStatusOn
<1>48. CASE PowerPolStoppedRemoving
  BY <1>48, PolicyPassesOn DEF PowerPolStoppedRemoving, GoesOn, RestsAt, Null,
      OrderOf
<1>49. CASE PowerPolRemoved
  BY <1>49, PolicyReports, MaskEvents DEF PowerPolRemoved, GoesOn, RestsAt,
      Null, OrderOf, Statuses
<1>50. QED
  BY <1>1, <1>2, <1>3, <1>4, <1>5, <1>6, <1>7, <1>8, <1>9, <1>10, <1>11,
     <1>12, <1>13, <1>14, <1>15, <1>16, <1>17, <1>18, <1>19, <1>20, <1>21,
     <1>22, <1>23, <1>24, <1>25, <1>26, <1>27, <1>28, <1>29, <1>30, <1>31,
     <1>32, <1>33, <1>34, <1>35, <1>36, <1>37, <1>38, <1>39, <1>40, <1>41,
     <1>42, <1>43, <1>44, <1>45, <1>46, <1>47, <1>48, <1>49
    DEF PowerPolicyNext, PowerPolicyEntersState

-----------------------------------------------------------------------------
(***************************************************************************)
(* So do the PnP machine and the power policy machine                      *)
(***************************************************************************)
PnpOrderOf(s) ==
  CASE s \in {"HardwareAvailable", "Restarting"} -> "Start"
    [] s \in {"StartedStopping", "QueriedRemoving", "FailedPowerDown"} -> "Stop"
    [] s = "FailedIoStarting" -> "SurpriseRemove"
    [] s \in {"RemovingDisableInterfaces", "Failed"} -> "Remove"
    [] OTHER -> "none"

PnpAsks == PnpOrderOf(at["pnp"]) # "none" /\ "pnp" \notin entering

(* The states of the power policy machine while it starts, while it runs,  *)
(* and while it stops                                                      *)
Starts == {"Starting", "StartingPoweredUp", "StartingPoweredUpFailed", "StartingSucceeded",
           "Restarting", "RestartingFailed"}
Stops == {"StoppingCancelTimer", "StoppingWaitForIdleTimeout", "StoppingResetDevice",
          "StoppingResetDeviceCompletePowerUp", "StoppingResetDeviceFailed", "Stopping",
          "StoppingFailed", "StoppingSendStatus"}
Runs ==
  {"StartingDecideS0Wake", "Started", "StartedCancelTimer", "StartedWaitForIdleTimeout",
   "StartedIdleCapable", "IdleCapableDeviceIdle", "TimerExpiredNoWake",
   "TimerExpiredNoWakeCompletePowerDown", "TimerExpiredNoWakePoweredDownDisableIdleTimer",
   "TimerExpiredNoWakePowerDownNotProcessed", "TimerExpiredNoWakeUndoPowerDown",
   "TimerExpiredNoWakeReturnToActive", "WaitingUnarmed", "WaitingUnarmedQueryIdle",
   "S0NoWakePowerUp", "S0NoWakeCompletePowerUp", "StartedIdleCapableCancelTimerForSleep",
   "StartedIdleCapableTimerCanceledForSleep", "StartedIdleCapableWaitForIdleTimeout",
   "Sleeping", "SleepingNoWakePowerDown", "SleepingNoWakeCompletePowerDown",
   "SleepingNoWakeDxRequestFailed", "SleepingPowerDownNotProcessed",
   "SystemSleepPowerRequestFailed", "SystemSleepFromDeviceWaitingUnarmed",
   "SystemAsleepNoWake", "SystemWakeDeviceWakeDisabled", "SystemWakeQueryIdle",
   "SystemWakeDeviceToD0", "SystemWakeDeviceToD0CompletePowerUp",
   "SystemWakeDevicePowerRequestFailed", "SystemWakeDeviceD0PowerRequestFailed",
   "DeviceD0PowerRequestFailed", "DevicePowerRequestFailed"}

StartedStates ==
  {"EnableInterfaces", "Started", "StartedCancelStop", "StartedCancelRemove",
   "QueryStopStaticCheck", "QueryStopAskDriver", "QueryStopEnsureDeviceAwake",
   "QueryStopPending", "QueryRemoveStaticCheck", "QueryRemoveAskDriver",
   "QueryRemoveEnsureDeviceAwake", "QueryRemovePending", "QueryCanceled", "StartedStopping",
   "QueriedRemoving", "QueriedSurpriseRemove", "SurpriseRemoveIoStarted", "FailedIoStarting",
   "FailedPowerDown"}

StoppedStates == {"Stopped", "StoppedWaitForStartCompletion", "StartingFromStopped",
                  "Restarting", "SurpriseRemove", "RemovingDisableInterfaces"}

NewStates == {"Init", "InitStarting", "HardwareAvailable", "FailedInit"}

RemovedStates ==
  {"FailedPowerPolicyRemoved", "FailedWaitForRemove", "FailedSurpriseRemoved", "FailedStarted",
   "Removed", "RemovedChildrenRemoved", "FdoRemoved", "Final"}

PolicyWaits == "policy" \notin entering

(* Where the power policy machine is when the PnP machine is in s and      *)
(* waits for no answer                                                     *)
PolicyAt(s) ==
  CASE s \in NewStates -> {"ObjectCreated"}
    [] s \in StartedStates -> Runs
    [] s \in StoppedStates -> {"Stopped"}
    [] s = "HardwareAvailablePowerPolicyFailed" -> {"StartingFailed", "Stopped"}
    [] s \in {"FailedOwnHardware", "Failed"} -> {"ObjectCreated", "StartingFailed", "Stopped"}
    [] s \in RemovedStates -> {"ObjectCreated", "Removed"}
    [] OTHER -> {}

PolicyFits(s) == at["policy"] \in PolicyAt(s) /\ (s \notin StartedStates => PolicyWaits)

PnpActs ==
  /\ ~PnpAsks
  /\ Without(queue["policy"], Orders)
  /\ Without(queue["pnp"], Statuses)
  /\ PolicyFits(at["pnp"])

(* An order is on its way *)
ToldTo(o) ==
  CASE o = "Start" -> {"ObjectCreated", "Stopped"}
    [] o \in {"Stop", "SurpriseRemove"} -> Runs
    [] o = "Remove" -> {"ObjectCreated", "StartingFailed", "Stopped"}

PnpOrderQueued ==
  /\ PnpAsks
  /\ Sole(queue["policy"], Orders, PnpOrderOf(at["pnp"]))
  /\ Without(queue["pnp"], Statuses)
  /\ at["policy"] \in ToldTo(PnpOrderOf(at["pnp"]))
  /\ at["policy"] \notin Runs => PolicyWaits

(* is carried out, or was lost *)
DoesFor(o) ==
  CASE o = "Start" -> {"ObjectCreated", "Stopped", "StartingFailed"} \cup Starts \cup Runs
    [] o \in {"Stop", "SurpriseRemove"} -> Runs \cup Stops \cup {"Stopped"}
    [] o = "Remove" -> {"ObjectCreated", "StartingFailed", "Stopped", "StoppedRemoving", "Removed"}

PolicyWorks ==
  /\ PnpAsks
  /\ Without(queue["policy"], Orders)
  /\ Without(queue["pnp"], Statuses)
  /\ at["policy"] \in DoesFor(PnpOrderOf(at["pnp"]))
  /\ PnpOrderOf(at["pnp"]) = "Remove" /\ at["policy"] = "StartingFailed" => PolicyWaits

(* is answered *)
StatusAfter(o, a) ==
  CASE o = "Start" /\ a = "PwrPolStarted" -> Runs
    [] o = "Start" /\ a = "PwrPolStartFailed" -> {"StartingFailed", "Stopped"}
    [] o \in {"Stop", "SurpriseRemove"} /\ a \in {"PwrPolStopped", "PwrPolStopFailed"} -> {"Stopped"}
    [] o = "Remove" /\ a = "PwrPolRemoved" -> {"Removed"}
    [] OTHER -> {}

PolicyAnswered ==
  /\ PnpAsks
  /\ Without(queue["policy"], Orders)
  /\ \E a \in Statuses :
       /\ Sole(queue["pnp"], Statuses, a)
       /\ at["policy"] \in StatusAfter(PnpOrderOf(at["pnp"]), a)
       /\ at["policy"] \notin Runs => PolicyWaits

PnpLockstep == PnpActs \/ PnpOrderQueued \/ PolicyWorks \/ PolicyAnswered

-----------------------------------------------------------------------------
(***************************************************************************)
(* The steps of the PnP machine, seen from the other two                   *)
(***************************************************************************)

(* Every entry function, and the states it may go to.  One that waits for  *)
(* an answer has posted its order.                                         *)
PnpMoves ==
  {<<"InitStarting", Null>>, <<"HardwareAvailable", Null>>, <<"HardwareAvailable", "FailedInit">>,
   <<"HardwareAvailable", "FailedOwnHardware">>, <<"EnableInterfaces", "Started">>,
   <<"EnableInterfaces", "FailedPowerDown">>,
   <<"HardwareAvailablePowerPolicyFailed", "FailedOwnHardware">>, <<"FailedInit", "Init">>,
   <<"Started", Null>>, <<"StartedCancelStop", "Started">>, <<"StartedCancelRemove", "Started">>}
  \cup
  {<<"QueryStopStaticCheck", "QueryStopAskDriver">>, <<"QueryStopStaticCheck", "Started">>,
   <<"QueryStopAskDriver", "QueryStopEnsureDeviceAwake">>, <<"QueryStopAskDriver", "Started">>,
   <<"QueryStopEnsureDeviceAwake", "QueryStopPending">>, <<"QueryStopEnsureDeviceAwake", Null>>,
   <<"QueryStopEnsureDeviceAwake", "Started">>, <<"QueryStopPending", Null>>,
   <<"QueryRemoveStaticCheck", "QueryRemoveAskDriver">>, <<"QueryRemoveStaticCheck", "Started">>,
   <<"QueryRemoveAskDriver", "QueryRemoveEnsureDeviceAwake">>, <<"QueryRemoveAskDriver", "Started">>,
   <<"QueryRemoveEnsureDeviceAwake", "QueryRemovePending">>,
   <<"QueryRemoveEnsureDeviceAwake", Null>>, <<"QueryRemoveEnsureDeviceAwake", "Started">>,
   <<"QueryRemovePending", Null>>, <<"QueryCanceled", "Started">>}
  \cup
  {<<"StartedStopping", Null>>, <<"QueriedRemoving", Null>>,
   <<"QueriedSurpriseRemove", "SurpriseRemoveIoStarted">>, <<"Stopped", Null>>,
   <<"Stopped", "Failed">>, <<"StoppedWaitForStartCompletion", Null>>,
   <<"StartingFromStopped", "Restarting">>, <<"StartingFromStopped", "Failed">>,
   <<"StartingFromStopped", "FailedOwnHardware">>, <<"Restarting", Null>>}
  \cup
  {<<"RemovingDisableInterfaces", Null>>, <<"SurpriseRemove", "Failed">>,
   <<"SurpriseRemoveIoStarted", "FailedIoStarting">>, <<"FailedPowerDown", Null>>,
   <<"FailedIoStarting", Null>>, <<"FailedOwnHardware", "Failed">>, <<"Failed", Null>>,
   <<"FailedPowerPolicyRemoved", "FailedWaitForRemove">>,
   <<"FailedSurpriseRemoved", "FailedWaitForRemove">>, <<"FailedStarted", "FailedWaitForRemove">>,
   <<"Removed", "RemovedChildrenRemoved">>, <<"RemovedChildrenRemoved", "FdoRemoved">>,
   <<"FdoRemoved", "Final">>, <<"Final", Null>>}

(* what it has posted *)
PnpOrders(s, next) ==
  IF next = Null /\ PnpOrderOf(s) # "none" THEN Ordered(queue, queue', PnpOrderOf(s))
  ELSE Calm(queue, queue')

(* what it did to self managed I/O *)
SmioEventOf(s) ==
  CASE s \in {"RemovingDisableInterfaces", "Failed"} -> "Flush"
    [] s = "FdoRemoved" -> "Cleanup"
    [] OTHER -> "none"

SmioStays ==
  device'.smio = device.smio /\ ("smio" \in device'.misused <=> "smio" \in device.misused)

SmioGets(e) ==
  \E o \in SelfManaged!ProcessEvent(device.smio, e) :
    /\ device'.smio = o.state
    /\ SelfManaged!Lists(device.smio, e) => ("smio" \in device'.misused <=> "smio" \in device.misused)

PnpManages(s) == IF SmioEventOf(s) = "none" THEN SmioStays ELSE SmioGets(SmioEventOf(s))

(* it leaves the rest of the other machines alone *)
PnpGoes(s, next) ==
  /\ "pnp" \in entering /\ at["pnp"] = s
  /\ at'["pnp"] = (IF next = Null THEN s ELSE next)
  /\ "pnp" \in entering' <=> (next # Null /\ next \notin PnpNoEntry)
  /\ PolicyStands /\ PowerStands /\ irps' = irps
  /\ FlagsStay(device, device') /\ PnpManages(s) /\ PnpOrders(s, next)

LEMMA PnpSteps ==
    ASSUME CountInv, NEW s, NEW next, NEW posts, PnpEntry(s, next, posts)
    PROVE  /\ "pnp" \in entering /\ at["pnp"] = s /\ queue' = PostAll(queue, posts)
           /\ PolicyStands /\ PowerStands
           /\ at'["pnp"] = IF next = Null THEN s ELSE next
           /\ "pnp" \in entering' <=> (next # Null /\ next \notin PnpNoEntry)
<1>1. DOMAIN at = Machines /\ "power" \in Machines /\ "policy" \in Machines /\ "pnp" \in Machines
  BY DEF CountInv, Machines
<1>2. QED
  BY <1>1 DEF PnpEntry, Entry, EnterNewState, PolicyStands, PowerStands, Powering

LEMMA PnpGoesCalmly ==
    ASSUME CountInv, queue \in Queues, NEW s, NEW next, NEW posts, PnpEntry(s, next, posts),
           next # Null \/ PnpOrderOf(s) = "none", SmioEventOf(s) = "none",
           posts = <<>> \/ (\E m : posts = IdlePosts(m)) \/ (\E m : posts = <<>> \o IdlePosts(m)),
           FlagsStay(device, device'), SmioStays, irps' = irps
    PROVE  PnpGoes(s, next)
BY PnpSteps, CalmPosts DEF PnpGoes, PnpOrders, PnpManages

LEMMA PnpGoesOrdering ==
    ASSUME CountInv, queue \in Queues, NEW s, NEW posts, PnpEntry(s, Null, posts),
           PnpOrderOf(s) \in Orders, PnpManages(s),
           \/ posts = ToPolicy(PnpOrderOf(s))
           \/ \E m : posts = ToPolicy(PnpOrderOf(s)) \o IdlePosts(m),
           FlagsStay(device, device'), irps' = irps
    PROVE  PnpGoes(s, Null)
<1>1. Ordered(queue, queue', PnpOrderOf(s))
  <2> DEFINE o == PnpOrderOf(s)
  <2>1. queue' = PostAll(queue, posts) /\ o \in Orders
    BY PnpSteps
  <2>2. \A m : /\ Ordered(queue, PostAll(queue, ToPolicy(o)), o)
               /\ Ordered(queue, PostAll(queue, ToPolicy(o) \o IdlePosts(m)), o)
    BY <2>1, OrderPosts
  <2> HIDE DEF o
  <2>3. posts = ToPolicy(o) \/ \E m : posts = ToPolicy(o) \o IdlePosts(m)
    BY DEF o
  <2>4. QED
    BY <2>1, <2>2, <2>3 DEF o
<1>2. PnpOrderOf(s) # "none"
  BY DEF Orders
<1>3. QED
  BY <1>1, <1>2, PnpSteps DEF PnpGoes, PnpOrders

(* what it does to the hardware *)
LEMMA HardwareKeepsFlags ==
    ASSUME NEW d \in Device, NEW e \in {d, Begin(d, {"Hardware"}), End(d, {"Hardware"})}
    PROVE  /\ e \in Device /\ FlagsStay(d, e) /\ FlagsStay(d, SetInternalFailure(e))
           /\ e.smio = d.smio /\ SetInternalFailure(e).smio = d.smio
           /\ "smio" \in e.misused <=> "smio" \in d.misused
           /\ "smio" \in SetInternalFailure(e).misused <=> "smio" \in d.misused
<1>1. e \in Device /\ FlagsStay(d, e) /\ e.smio = d.smio
  BY CallbacksKeepFlags, StageSets
<1>2. "smio" \in e.misused <=> "smio" \in d.misused
  BY DEF Begin, End, Device
<1>3. FlagsStay(e, SetInternalFailure(e)) /\ SetInternalFailure(e).smio = e.smio
      /\ SetInternalFailure(e).misused = e.misused
  BY <1>1 DEF SetInternalFailure, FlagsStay, Device
<1>4. QED
  BY <1>1, <1>2, <1>3 DEF FlagsStay

(* kinds of its entry functions *)
LEMMA PnpPostsGoes ==
    ASSUME CountInv, StageInv, queue \in Queues, NEW s, NEW next, PnpPasses(s, next),
           next # Null \/ PnpOrderOf(s) = "none", SmioEventOf(s) = "none"
    PROVE  PnpGoes(s, next)
<1>1. PnpEntry(s, next, <<>>) /\ device' = device /\ irps' = irps
  BY DEF PnpPasses, PnpPosts, PnpKeeps
<1>2. FlagsStay(device, device') /\ SmioStays
  BY <1>1 DEF FlagsStay, SmioStays
<1>3. QED
  BY <1>1, <1>2, PnpGoesCalmly

LEMMA PnpFinishesGoes ==
    ASSUME CountInv, StageInv, queue \in Queues, NEW s, NEW next, PnpFinishes(s, next),
           next # Null \/ PnpOrderOf(s) = "none", SmioEventOf(s) = "none"
    PROVE  PnpGoes(s, next)
<1>1. PnpEntry(s, next, <<>>) /\ device' = device /\ irps' = irps
  BY DEF PnpFinishes, PnpKeeps
<1>2. FlagsStay(device, device') /\ SmioStays
  BY <1>1 DEF FlagsStay, SmioStays
<1>3. QED
  BY <1>1, <1>2, PnpGoesCalmly

LEMMA SendsStartDownGoes ==
    ASSUME CountInv, StageInv, queue \in Queues, NEW s, SendsStartDown(s),
           PnpOrderOf(s) = "none", SmioEventOf(s) = "none"
    PROVE  PnpGoes(s, Null)
<1>1. PnpEntry(s, Null, <<>>) /\ device' = device /\ irps' = irps
  BY DEF SendsStartDown, PnpKeeps
<1>2. FlagsStay(device, device') /\ SmioStays
  BY <1>1 DEF FlagsStay, SmioStays
<1>3. QED
  BY <1>1, <1>2, PnpGoesCalmly

LEMMA PnpHardwareGoes ==
    ASSUME CountInv, StageInv, queue \in Queues, NEW s, NEW next, PnpEntry(s, next, <<>>),
           next # Null \/ PnpOrderOf(s) = "none", SmioEventOf(s) = "none",
           NEW e \in {device, Begin(device, {"Hardware"}), End(device, {"Hardware"})},
           device' \in {e, SetInternalFailure(e)}, irps' = irps
    PROVE  PnpGoes(s, next)
<1>1. FlagsStay(device, device') /\ SmioStays
  BY HardwareKeepsFlags DEF SmioStays, StageInv
<1>2. QED
  BY <1>1, PnpGoesCalmly

LEMMA StaticCheckGoes ==
    ASSUME CountInv, StageInv, queue \in Queues, NEW s, NEW next, StaticCheck(s, next),
           next # Null, SmioEventOf(s) = "none"
    PROVE  \E n \in {next, "Started"} : PnpGoes(s, n)
<1>1. irps' = irps /\ device' = device
  BY DEF StaticCheck, PnpKeeps
<1>2. PICK n \in {next, "Started"} : PnpEntry(s, n, <<>>)
  BY DEF StaticCheck
<1>3. n # Null
  BY DEF Null
<1>4. QED
  BY <1>1, <1>2, <1>3, PnpHardwareGoes

LEMMA EnsureDeviceAwakeGoes ==
    ASSUME CountInv, StageInv, queue \in Queues, NEW s, NEW pending, EnsureDeviceAwake(s, pending),
           PnpOrderOf(s) = "none", SmioEventOf(s) = "none"
    PROVE  \E n \in {pending, Null, "Started"} : PnpGoes(s, n)
<1>1. irps' = irps /\ device' = device
  BY DEF EnsureDeviceAwake
<1>2. PICK n \in {pending, Null, "Started"}, posts \in {IdlePosts(Idle!IoIncrementForPnp(idle)), <<>>} :
        PnpEntry(s, n, posts)
  BY DEF EnsureDeviceAwake
<1>3. FlagsStay(device, device') /\ SmioStays
  BY <1>1 DEF FlagsStay, SmioStays
<1>4. QED
  BY <1>1, <1>2, <1>3, PnpGoesCalmly

LEMMA DereferencesGoes ==
    ASSUME CountInv, StageInv, queue \in Queues, NEW s, NEW next, Dereferences(s, next, <<>>),
           next # Null, SmioEventOf(s) = "none"
    PROVE  PnpGoes(s, next)
<1>1. PnpEntry(s, next, <<>> \o IdlePosts(Idle!IoDecrement(idle))) /\ UNCHANGED <<device, irps>>
  BY DEF Dereferences
<1>2. FlagsStay(device, device') /\ SmioStays
  BY <1>1 DEF FlagsStay, SmioStays
<1>3. QED
  BY <1>1, <1>2, PnpGoesCalmly

LEMMA DereferencesOrders ==
    ASSUME CountInv, StageInv, queue \in Queues, NEW s, Dereferences(s, Null, ToPolicy(PnpOrderOf(s))),
           PnpOrderOf(s) \in Orders, SmioEventOf(s) = "none"
    PROVE  PnpGoes(s, Null)
<1>1. /\ PnpEntry(s, Null, ToPolicy(PnpOrderOf(s)) \o IdlePosts(Idle!IoDecrement(idle)))
      /\ UNCHANGED <<device, irps>>
  BY DEF Dereferences
<1>2. FlagsStay(device, device') /\ PnpManages(s)
  BY <1>1 DEF FlagsStay, SmioStays, PnpManages
<1>3. QED
  BY <1>1, <1>2, PnpGoesOrdering

LEMMA PnpPostsOrders ==
    ASSUME CountInv, StageInv, queue \in Queues, NEW s, PnpPosts(s, Null, ToPolicy(PnpOrderOf(s))),
           PnpOrderOf(s) \in Orders, SmioEventOf(s) = "none"
    PROVE  PnpGoes(s, Null)
<1>1. PnpEntry(s, Null, ToPolicy(PnpOrderOf(s))) /\ UNCHANGED <<device, irps>>
  BY DEF PnpPosts, PnpKeeps
<1>2. FlagsStay(device, device') /\ PnpManages(s)
  BY <1>1 DEF FlagsStay, SmioStays, PnpManages
<1>3. QED
  BY <1>1, <1>2, PnpGoesOrdering

LEMMA PnpFlushes ==
    ASSUME CountInv, StageInv, queue \in Queues, NEW s, PnpEntry(s, Null, ToPolicy(PnpOrderOf(s))),
           PnpOrderOf(s) \in Orders, SmioEventOf(s) = "Flush", irps' = irps,
           NEW e \in {device, End(device, {"Hardware"})}, CleanupForRemove(e)
    PROVE  PnpGoes(s, Null)
<1>1. /\ e \in Device /\ FlagsStay(device, e) /\ e.smio = device.smio
      /\ "smio" \in e.misused <=> "smio" \in device.misused
  BY HardwareKeepsFlags DEF StageInv
<1>2. PICK o \in SelfManaged!ProcessEvent(e.smio, "Flush") :
        device' = SelfManagedBecomes(e, "Flush", o)
  BY DEF CleanupForRemove
<1>3. device' \in Device /\ FlagsStay(e, device') /\ device'.smio = o.state
  BY <1>1, <1>2, SelfManagesKeepsFlags, SelfManages
<1>4. SelfManaged!Lists(e.smio, "Flush") => device'.misused = e.misused
  BY <1>1, <1>2 DEF SelfManagedBecomes, Device
<1>5. SmioGets("Flush")
  BY <1>1, <1>2, <1>3, <1>4 DEF SmioGets
<1>6. FlagsStay(device, device') /\ PnpManages(s)
  BY <1>1, <1>3, <1>5 DEF FlagsStay, PnpManages
<1>7. QED
  BY <1>6, PnpGoesOrdering

(* Each entry function is one of these moves                               *)
LEMMA PnpEventHardwareAvailableGoes ==
    ASSUME CountInv, StageInv, queue \in Queues, PnpEventHardwareAvailable
    PROVE  \E n \in {Null, "FailedInit", "FailedOwnHardware"} : PnpGoes("HardwareAvailable", n)
<1> DEFINE s == "HardwareAvailable"
<1>1. PnpOrderOf(s) = "Start" /\ SmioEventOf(s) = "none" /\ "Start" \in Orders
  BY DEF PnpOrderOf, SmioEventOf, Orders
<1>2. irps' = irps
  BY DEF PnpEventHardwareAvailable, PrepareHardware, PnpKeeps
<1>3. CASE PnpEntry(s, Null, ToPolicy("Start")) /\ device' = Begin(device, {"Hardware"})
  <2>1. FlagsStay(device, device') /\ PnpManages(s)
    BY <1>1, <1>3, HardwareKeepsFlags DEF PnpManages, SmioStays, StageInv
  <2>2. QED
    BY <1>1, <1>2, <1>3, <2>1, PnpGoesOrdering
<1>4. ASSUME NEW n \in {"FailedInit", "FailedOwnHardware"}, PnpEntry(s, n, <<>>),
             NEW e \in {device, Begin(device, {"Hardware"})}, device' \in {e, SetInternalFailure(e)}
      PROVE  PnpGoes(s, n)
  BY <1>1, <1>2, <1>4, PnpHardwareGoes DEF Null
<1>5. QED
  BY <1>3, <1>4 DEF PnpEventHardwareAvailable, PrepareHardware

LEMMA PnpEventStartingFromStoppedGoes ==
    ASSUME CountInv, StageInv, queue \in Queues, PnpEventStartingFromStopped
    PROVE  \E n \in {"Restarting", "Failed", "FailedOwnHardware"} : PnpGoes("StartingFromStopped", n)
<1> DEFINE s == "StartingFromStopped"
<1>1. SmioEventOf(s) = "none"
  BY DEF SmioEventOf
<1>2. irps' = irps
  BY DEF PnpEventStartingFromStopped, PrepareHardware, PnpKeeps
<1>3. ASSUME NEW n \in {"Restarting", "Failed", "FailedOwnHardware"}, PnpEntry(s, n, <<>>),
             NEW e \in {device, Begin(device, {"Hardware"})}, device' \in {e, SetInternalFailure(e)}
      PROVE  PnpGoes(s, n)
  BY <1>1, <1>2, <1>3, PnpHardwareGoes DEF Null
<1>4. QED
  BY <1>3 DEF PnpEventStartingFromStopped, PrepareHardware

LEMMA PnpEventEnableInterfacesGoes ==
    ASSUME CountInv, StageInv, queue \in Queues, PnpEventEnableInterfaces
    PROVE  \E n \in {"Started", "FailedPowerDown"} : PnpGoes("EnableInterfaces", n)
<1> DEFINE s == "EnableInterfaces"
<1>1. SmioEventOf(s) = "none" /\ irps' = irps
  BY DEF SmioEventOf, PnpEventEnableInterfaces, PnpKeeps
<1>2. ASSUME NEW n \in {"Started", "FailedPowerDown"}, PnpEntry(s, n, <<>>),
             device' \in {device, SetInternalFailure(device)}
      PROVE  PnpGoes(s, n)
  BY <1>1, <1>2, PnpHardwareGoes DEF Null
<1>3. QED
  BY <1>2 DEF PnpEventEnableInterfaces

LEMMA PnpEventStoppedGoes ==
    ASSUME CountInv, StageInv, queue \in Queues, PnpEventStopped
    PROVE  \E n \in {Null, "Failed"} : PnpGoes("Stopped", n)
<1> DEFINE s == "Stopped"
           e == End(device, {"Hardware"})
<1>1. SmioEventOf(s) = "none" /\ PnpOrderOf(s) = "none" /\ irps' = irps
  BY DEF SmioEventOf, PnpOrderOf, PnpEventStopped, PnpKeeps
<1>2. ASSUME NEW n \in {Null, "Failed"}, PnpEntry(s, n, <<>>), device' \in {e, SetInternalFailure(e)}
      PROVE  PnpGoes(s, n)
  BY <1>1, <1>2, PnpHardwareGoes
<1>3. QED
  BY <1>2 DEF PnpEventStopped

LEMMA PnpEventFdoRemovedGoes ==
    ASSUME CountInv, StageInv, queue \in Queues, PnpEventFdoRemoved
    PROVE  PnpGoes("FdoRemoved", "Final")
<1>1. PnpEntry("FdoRemoved", "Final", <<>>) /\ irps' = irps
  BY DEF PnpEventFdoRemoved, PnpKeeps
<1>2. PICK o \in SelfManaged!ProcessEvent(device.smio, "Cleanup") :
        device' = SelfManagedBecomes(device, "Cleanup", o)
  BY DEF PnpEventFdoRemoved
<1>3. FlagsStay(device, device') /\ device'.smio = o.state
  BY <1>2, SelfManagesKeepsFlags, SelfManages DEF StageInv
<1>4. SelfManaged!Lists(device.smio, "Cleanup") => device'.misused = device.misused
  BY <1>2 DEF SelfManagedBecomes, StageInv, Device
<1>5. PnpManages("FdoRemoved")
  BY <1>2, <1>3, <1>4 DEF PnpManages, SmioGets, SmioEventOf
<1>6. Calm(queue, queue')
  BY <1>1, PnpSteps, CalmPosts
<1>7. QED
  BY <1>1, <1>3, <1>5, <1>6, PnpSteps DEF PnpGoes, PnpOrders, Null

LEMMA PnpMovesAll ==
    ASSUME CountInv, StageInv, queue \in Queues, PnpEntersState
    PROVE  \E s, next : <<s, next>> \in PnpMoves /\ PnpGoes(s, next)
<1>1. CASE PnpEventInitStarting
  BY <1>1, SendsStartDownGoes DEF PnpEventInitStarting, PnpMoves, PnpOrderOf,
      SmioEventOf, Null
<1>2. CASE PnpEventHardwareAvailable
  BY <1>2, PnpEventHardwareAvailableGoes DEF PnpMoves
<1>3. CASE PnpEventEnableInterfaces
  BY <1>3, PnpEventEnableInterfacesGoes DEF PnpMoves
<1>4. CASE PnpEventHardwareAvailablePowerPolicyFailed
  BY <1>4, PnpHardwareGoes DEF PnpEventHardwareAvailablePowerPolicyFailed,
      PnpKeeps, PnpMoves, PnpOrderOf, SmioEventOf, Null
<1>5. CASE PnpEventFailedInit
  BY <1>5, PnpFinishesGoes DEF PnpEventFailedInit, PnpMoves, PnpOrderOf,
      SmioEventOf, Null
<1>6. CASE PnpEventStarted
  BY <1>6, PnpFinishesGoes DEF PnpEventStarted, PnpMoves, PnpOrderOf,
      SmioEventOf, Null
<1>7. CASE PnpEventStartedCancelStop
  BY <1>7, PnpPostsGoes DEF PnpEventStartedCancelStop, PnpMoves, PnpOrderOf,
      SmioEventOf, Null
<1>8. CASE PnpEventStartedCancelRemove
  BY <1>8, PnpPostsGoes DEF PnpEventStartedCancelRemove, PnpMoves, PnpOrderOf,
      SmioEventOf, Null
<1>9. CASE PnpEventQueryStopStaticCheck
  BY <1>9, StaticCheckGoes DEF PnpEventQueryStopStaticCheck, PnpMoves,
      PnpOrderOf, SmioEventOf, Null
<1>10. CASE PnpEventQueryStopAskDriver
  BY <1>10, StaticCheckGoes DEF PnpEventQueryStopAskDriver, PnpMoves,
      PnpOrderOf, SmioEventOf, Null
<1>11. CASE PnpEventQueryRemoveStaticCheck
  BY <1>11, StaticCheckGoes DEF PnpEventQueryRemoveStaticCheck, PnpMoves,
      PnpOrderOf, SmioEventOf, Null
<1>12. CASE PnpEventQueryRemoveAskDriver
  BY <1>12, StaticCheckGoes DEF PnpEventQueryRemoveAskDriver, PnpMoves,
      PnpOrderOf, SmioEventOf, Null
<1>13. CASE PnpEventQueryStopEnsureDeviceAwake
  BY <1>13, EnsureDeviceAwakeGoes DEF PnpEventQueryStopEnsureDeviceAwake,
      PnpMoves, PnpOrderOf, SmioEventOf, Null
<1>14. CASE PnpEventQueryRemoveEnsureDeviceAwake
  BY <1>14, EnsureDeviceAwakeGoes DEF PnpEventQueryRemoveEnsureDeviceAwake,
      PnpMoves, PnpOrderOf, SmioEventOf, Null
<1>15. CASE PnpEventQueryStopPending
  BY <1>15, PnpFinishesGoes DEF PnpEventQueryStopPending, PnpMoves,
      PnpOrderOf, SmioEventOf, Null
<1>16. CASE PnpEventQueryRemovePending
  BY <1>16, PnpFinishesGoes DEF PnpEventQueryRemovePending, PnpMoves,
      PnpOrderOf, SmioEventOf, Null
<1>17. CASE PnpEventQueryCanceled
  BY <1>17, DereferencesGoes DEF PnpEventQueryCanceled, PnpMoves, PnpOrderOf,
      SmioEventOf, Null
<1>18. CASE PnpEventStartedStopping
  BY <1>18, DereferencesOrders DEF PnpEventStartedStopping, PnpMoves,
      PnpOrderOf, SmioEventOf, Null, Orders
<1>19. CASE PnpEventQueriedRemoving
  BY <1>19, DereferencesOrders DEF PnpEventQueriedRemoving, PnpMoves,
      PnpOrderOf, SmioEventOf, Null, Orders
<1>20. CASE PnpEventQueriedSurpriseRemove
  BY <1>20, DereferencesGoes DEF PnpEventQueriedSurpriseRemove, PnpMoves,
      PnpOrderOf, SmioEventOf, Null
<1>21. CASE PnpEventStopped
  BY <1>21, PnpEventStoppedGoes DEF PnpMoves
<1>22. CASE PnpEventStoppedWaitForStartCompletion
  BY <1>22, SendsStartDownGoes DEF PnpEventStoppedWaitForStartCompletion,
      PnpMoves, PnpOrderOf, SmioEventOf, Null
<1>23. CASE PnpEventStartingFromStopped
  BY <1>23, PnpEventStartingFromStoppedGoes DEF PnpMoves
<1>24. CASE PnpEventRestarting
  BY <1>24, PnpPostsOrders DEF PnpEventRestarting, PnpMoves, PnpOrderOf,
      SmioEventOf, Null, Orders
<1>25. CASE PnpEventRemovingDisableInterfaces
  BY <1>25, PnpFlushes DEF PnpEventRemovingDisableInterfaces, PnpKeeps,
      PnpMoves, PnpOrderOf, SmioEventOf, Null, Orders
<1>26. CASE PnpEventSurpriseRemoved
  BY <1>26, PnpPostsGoes DEF PnpEventSurpriseRemoved, PnpMoves, PnpOrderOf,
      SmioEventOf, Null
<1>27. CASE PnpEventSurpriseRemoveIoStarted
  BY <1>27, PnpPostsGoes DEF PnpEventSurpriseRemoveIoStarted, PnpMoves,
      PnpOrderOf, SmioEventOf, Null
<1>28. CASE PnpEventFailedPowerDown
  BY <1>28, PnpPostsOrders DEF PnpEventFailedPowerDown, PnpMoves, PnpOrderOf,
      SmioEventOf, Null, Orders
<1>29. CASE PnpEventFailedIoStarting
  BY <1>29, PnpPostsOrders DEF PnpEventFailedIoStarting, PnpMoves, PnpOrderOf,
      SmioEventOf, Null, Orders
<1>30. CASE PnpEventFailedOwnHardware
  BY <1>30, PnpHardwareGoes DEF PnpEventFailedOwnHardware, PnpKeeps, PnpMoves,
      PnpOrderOf, SmioEventOf, Null
<1>31. CASE PnpEventFailed
  BY <1>31, PnpFlushes DEF PnpEventFailed, PnpKeeps, PnpMoves, PnpOrderOf,
      SmioEventOf, Null, Orders
<1>32. CASE PnpEventFailedPowerPolicyRemoved
  BY <1>32, PnpFinishesGoes DEF PnpEventFailedPowerPolicyRemoved, PnpMoves,
      PnpOrderOf, SmioEventOf, Null
<1>33. CASE PnpEventFailedSurpriseRemoved
  BY <1>33, PnpFinishesGoes DEF PnpEventFailedSurpriseRemoved, PnpMoves,
      PnpOrderOf, SmioEventOf, Null
<1>34. CASE PnpEventFailedStarted
  BY <1>34, PnpHardwareGoes DEF PnpEventFailedStarted, PnpKeeps, PnpMoves,
      PnpOrderOf, SmioEventOf, Null
<1>35. CASE PnpEventRemoved
  BY <1>35, PnpPostsGoes DEF PnpEventRemoved, PnpMoves, PnpOrderOf,
      SmioEventOf, Null
<1>36. CASE PnpEventRemovedChildrenRemoved
  BY <1>36, PnpPostsGoes DEF PnpEventRemovedChildrenRemoved, PnpMoves,
      PnpOrderOf, SmioEventOf, Null
<1>37. CASE PnpEventFdoRemoved
  BY <1>37, PnpEventFdoRemovedGoes DEF PnpMoves
<1>38. CASE PnpEventFinal
  BY <1>38, PnpHardwareGoes DEF PnpEventFinal, PnpKeeps, PnpMoves, PnpOrderOf,
      SmioEventOf, Null
<1>39. QED
  BY <1>1, <1>2, <1>3, <1>4, <1>5, <1>6, <1>7, <1>8, <1>9, <1>10, <1>11,
     <1>12, <1>13, <1>14, <1>15, <1>16, <1>17, <1>18, <1>19, <1>20, <1>21,
     <1>22, <1>23, <1>24, <1>25, <1>26, <1>27, <1>28, <1>29, <1>30, <1>31,
     <1>32, <1>33, <1>34, <1>35, <1>36, <1>37, <1>38
    DEF PnpEntersState

-----------------------------------------------------------------------------
(***************************************************************************)
(* The steps of the power policy machine, seen from the PnP machine        *)
(***************************************************************************)

(* Every entry function, and the states it may go to: starting,            *)
PolicyMoves ==
  {<<"Starting", Null>>, <<"StartingPoweredUp", "StartingSucceeded">>,
   <<"StartingPoweredUp", "StartingPoweredUpFailed">>, <<"StartingPoweredUpFailed", Null>>,
   <<"StartingSucceeded", "StartingDecideS0Wake">>, <<"StartingFailed", Null>>,
   <<"StartingDecideS0Wake", "StartedIdleCapable">>, <<"StartingDecideS0Wake", "Started">>,
   <<"Started", Null>>, <<"StartedCancelTimer", "StartingDecideS0Wake">>,
   <<"StartedCancelTimer", "StartedWaitForIdleTimeout">>, <<"Restarting", Null>>,
   <<"RestartingFailed", "Stopped">>}
  \cup (* idling out, *)
  {<<"StartedIdleCapable", Null>>, <<"IdleCapableDeviceIdle", "TimerExpiredNoWake">>,
   <<"TimerExpiredNoWake", Null>>, <<"TimerExpiredNoWake", "TimerExpiredNoWakeUndoPowerDown">>,
   <<"TimerExpiredNoWakeCompletePowerDown", Null>>,
   <<"TimerExpiredNoWakePoweredDownDisableIdleTimer", "WaitingUnarmedQueryIdle">>,
   <<"TimerExpiredNoWakePowerDownNotProcessed", "TimerExpiredNoWakeUndoPowerDown">>,
   <<"TimerExpiredNoWakeUndoPowerDown", "TimerExpiredNoWakeReturnToActive">>,
   <<"TimerExpiredNoWakeReturnToActive", "StartedIdleCapable">>,
   <<"WaitingUnarmedQueryIdle", "WaitingUnarmed">>,
   <<"WaitingUnarmedQueryIdle", "S0NoWakePowerUp">>, <<"S0NoWakePowerUp", Null>>,
   <<"S0NoWakePowerUp", "DeviceD0PowerRequestFailed">>, <<"S0NoWakeCompletePowerUp", Null>>}
  \cup (* sleeping with the system, *)
  {<<"StartedIdleCapableCancelTimerForSleep", "StartedIdleCapableTimerCanceledForSleep">>,
   <<"StartedIdleCapableCancelTimerForSleep", "StartedIdleCapableWaitForIdleTimeout">>,
   <<"StartedIdleCapableTimerCanceledForSleep", "Sleeping">>,
   <<"Sleeping", "SleepingNoWakePowerDown">>, <<"SleepingNoWakePowerDown", Null>>,
   <<"SleepingNoWakePowerDown", "SleepingNoWakeDxRequestFailed">>,
   <<"SleepingNoWakeCompletePowerDown", Null>>,
   <<"SleepingNoWakeDxRequestFailed", "DevicePowerRequestFailed">>,
   <<"SleepingPowerDownNotProcessed", "SystemSleepPowerRequestFailed">>,
   <<"SystemSleepPowerRequestFailed", "DevicePowerRequestFailed">>,
   <<"SystemSleepFromDeviceWaitingUnarmed", "SystemAsleepNoWake">>,
   <<"SystemAsleepNoWake", Null>>}
  \cup (* waking, and failing to, *)
  {<<"SystemWakeDeviceWakeDisabled", "SystemWakeQueryIdle">>,
   <<"SystemWakeDeviceWakeDisabled", "SystemWakeDeviceToD0">>,
   <<"SystemWakeQueryIdle", "WaitingUnarmed">>, <<"SystemWakeQueryIdle", "SystemWakeDeviceToD0">>,
   <<"SystemWakeDeviceToD0", Null>>,
   <<"SystemWakeDeviceToD0", "SystemWakeDeviceD0PowerRequestFailed">>,
   <<"SystemWakeDeviceToD0CompletePowerUp", Null>>,
   <<"SystemWakeDevicePowerRequestFailed", "DevicePowerRequestFailed">>,
   <<"SystemWakeDeviceD0PowerRequestFailed", "DeviceD0PowerRequestFailed">>,
   <<"DeviceD0PowerRequestFailed", "DevicePowerRequestFailed">>,
   <<"DevicePowerRequestFailed", Null>>}
  \cup (* and stopping *)
  {<<"StoppingCancelTimer", "Stopping">>, <<"StoppingCancelTimer", "StoppingWaitForIdleTimeout">>,
   <<"StoppingResetDevice", Null>>, <<"StoppingResetDevice", "DeviceD0PowerRequestFailed">>,
   <<"StoppingResetDeviceCompletePowerUp", Null>>, <<"StoppingResetDeviceFailed", "Stopping">>,
   <<"Stopping", Null>>, <<"StoppingFailed", "StoppingSendStatus">>,
   <<"StoppingSendStatus", "Stopped">>, <<"StoppedRemoving", "Removed">>, <<"Removed", Null>>}

(* the status it reports to the PnP machine, if any *)
StatusOf(s) ==
  CASE s = "StartingSucceeded" -> "PwrPolStarted"
    [] s \in {"StartingFailed", "RestartingFailed"} -> "PwrPolStartFailed"
    [] s = "StoppingSendStatus" -> IF device.powerFailed THEN "PwrPolStopFailed" ELSE "PwrPolStopped"
    [] s = "Removed" -> "PwrPolRemoved"
    [] OTHER -> "none"

PolicyTellsPnp(s) ==
  /\ queue' \in Queues /\ Same(queue["policy"], queue'["policy"], Orders)
  /\ IF StatusOf(s) = "none" THEN Same(queue["pnp"], queue'["pnp"], Statuses)
     ELSE Gets(queue["pnp"], queue'["pnp"], Statuses, StatusOf(s))

(* and whether it remembers a failure of the device *)
FailsIn == {"DevicePowerRequestFailed", "StoppingResetDeviceFailed", "StoppingFailed"}

Remembers(s) ==
  device'.powerFailed =
    IF s \in FailsIn THEN TRUE ELSE IF s = "StoppingSendStatus" THEN FALSE ELSE device.powerFailed

PolicyGoes(s, next) ==
  /\ "policy" \in entering /\ at["policy"] = s
  /\ at'["policy"] = (IF next = Null THEN s ELSE next)
  /\ "policy" \in entering' <=> (next # Null /\ next \notin PolicyNoEntry)
  /\ PowerStands /\ PnpStays
  /\ device'.ioCallbackFailure = device.ioCallbackFailure
  /\ SmioStays /\ Remembers(s) /\ PolicyTellsPnp(s)

LEMMA PolicyGoesQuietly ==
    ASSUME CountInv, StageInv, NEW s, NEW next, NEW posts, PolicyEntry(s, next, posts),
           Calm(queue, PostAll(queue, posts)) \/ (\E a : Told(queue, PostAll(queue, posts), a)),
           device' = device, StatusOf(s) = "none", s \notin FailsIn
    PROVE  PolicyGoes(s, next)
<1>1. s # "StoppingSendStatus"
  BY DEF StatusOf
<1>2. SmioStays /\ Remembers(s)
  BY <1>1 DEF SmioStays, Remembers
<1>3. PolicyTellsPnp(s)
  BY PolicySteps DEF PolicyTellsPnp, Calm, Told, OrdersStay
<1>4. QED
  BY <1>2, <1>3, PolicySteps DEF PolicyGoes

LEMMA PolicyGoesReporting ==
    ASSUME CountInv, StageInv, NEW s, NEW next, NEW posts, PolicyEntry(s, next, posts),
           Reported(queue, PostAll(queue, posts), StatusOf(s)), device' = device,
           StatusOf(s) # "none", s \notin FailsIn, s # "StoppingSendStatus"
    PROVE  PolicyGoes(s, next)
<1>1. SmioStays /\ Remembers(s)
  BY DEF SmioStays, Remembers
<1>2. PolicyTellsPnp(s)
  BY PolicySteps DEF PolicyTellsPnp, Reported
<1>3. QED
  BY <1>1, <1>2, PolicySteps DEF PolicyGoes

(* kinds of its entry functions *)
LEMMA PolicyPassesGoes ==
    ASSUME CountInv, StageInv, queue \in Queues, NEW s, NEW next, PolicyPasses(s, next),
           StatusOf(s) = "none", s \notin FailsIn
    PROVE  PolicyGoes(s, next)
BY PolicyGoesQuietly, CalmPosts DEF PolicyPasses, PolicyPosts

LEMMA PolicyOrdersGoes ==
    ASSUME CountInv, StageInv, queue \in Queues, NEW s, NEW o \in Events,
           PolicyPosts(s, Null, ToPower(o)), StatusOf(s) = "none", s \notin FailsIn
    PROVE  PolicyGoes(s, Null)
BY PolicyGoesQuietly, PowerPosts DEF PolicyPosts

LEMMA PolicyIdlesAndOrdersGoes ==
    ASSUME CountInv, StageInv, queue \in Queues, NEW s, NEW m, NEW o \in Events,
           PolicyIdles(s, Null, m, ToPower(o)), StatusOf(s) = "none", s \notin FailsIn
    PROVE  PolicyGoes(s, Null)
BY PolicyGoesQuietly, PowerPosts DEF PolicyIdles

LEMMA PolicyReportsGoes ==
    ASSUME CountInv, StageInv, queue \in Queues, NEW s, NEW next, PolicyPosts(s, next, ToPnp(StatusOf(s))),
           StatusOf(s) \in Statuses, s \notin FailsIn, s # "StoppingSendStatus"
    PROVE  PolicyGoes(s, next)
<1>1. StatusOf(s) # "none"
  BY DEF Statuses
<1>2. QED
  BY <1>1, PolicyGoesReporting, StatusPosts DEF PolicyPosts

LEMMA PolicyIdlesAndReportsGoes ==
    ASSUME CountInv, StageInv, queue \in Queues, NEW s, NEW next, NEW m,
           PolicyIdles(s, next, m, ToPnp(StatusOf(s))),
           StatusOf(s) \in Statuses, s \notin FailsIn, s # "StoppingSendStatus"
    PROVE  PolicyGoes(s, next)
<1>1. StatusOf(s) # "none"
  BY DEF Statuses
<1>2. QED
  BY <1>1, PolicyGoesReporting, StatusPosts DEF PolicyIdles

LEMMA PolicyIdlesGoes ==
    ASSUME CountInv, StageInv, queue \in Queues, NEW s, NEW next, NEW m, PolicyIdles(s, next, m, <<>>),
           StatusOf(s) = "none", s \notin FailsIn
    PROVE  PolicyGoes(s, next)
BY PolicyGoesQuietly, CalmPosts DEF PolicyIdles

LEMMA CancelsTimerGoes ==
    ASSUME CountInv, StageInv, queue \in Queues, NEW s, NEW next, NEW wait, CancelsTimer(s, next, wait),
           StatusOf(s) = "none", s \notin FailsIn
    PROVE  \E n \in {next, wait} : PolicyGoes(s, n)
<1> DEFINE m == Idle!DisableTimer(idle)
           t == IF Idle!DisabledImmediately(m) THEN next ELSE wait
<1>1. PolicyIdles(s, t, m, <<>>) /\ t \in {next, wait}
  BY DEF CancelsTimer
<1> HIDE DEF m, t
<1>2. QED
  BY <1>1, PolicyIdlesGoes

LEMMA QueriesIdleGoes ==
    ASSUME CountInv, StageInv, queue \in Queues, NEW s, NEW idleNext, NEW busyNext,
           QueriesIdle(s, idleNext, busyNext), StatusOf(s) = "none", s \notin FailsIn
    PROVE  \E n \in {idleNext, busyNext} : PolicyGoes(s, n)
<1> DEFINE t == IF Idle!IsIdle(idle) THEN idleNext ELSE busyNext
<1>1. PolicyIdles(s, t, Idle!Queried(idle), <<>>) /\ t \in {idleNext, busyNext}
  BY DEF QueriesIdle
<1> HIDE DEF t
<1>2. QED
  BY <1>1, PolicyIdlesGoes

LEMMA PolicySendsGoes ==
    ASSUME CountInv, StageInv, queue \in Queues, NEW s, NEW to, NEW failed, PolicySends(s, to, failed),
           device' = device, StatusOf(s) = "none", s \notin FailsIn
    PROVE  \E n \in {Null, failed} : PolicyGoes(s, n)
BY PolicyGoesQuietly, CalmPosts DEF PolicySends

LEMMA PolicyRequestsGoes ==
    ASSUME CountInv, StageInv, queue \in Queues, NEW s, NEW to, NEW failed,
           PolicyRequests(s, to, failed), StatusOf(s) = "none", s \notin FailsIn
    PROVE  \E n \in {Null, failed} : PolicyGoes(s, n)
BY PolicySendsGoes DEF PolicyRequests

(* those that change a flag of the device *)
LEMMA PolicyMarks ==
    ASSUME StageInv,
           NEW d \in {device, SetInternalFailure(device), PowerFailed(device),
                      [device EXCEPT !.powerFailed = FALSE]}
    PROVE  /\ d.smio = device.smio /\ d.misused = device.misused
           /\ d.ioCallbackFailure = device.ioCallbackFailure
           /\ SetInternalFailure(device).powerFailed = device.powerFailed
           /\ PowerFailed(device).powerFailed = TRUE
           /\ [device EXCEPT !.powerFailed = FALSE].powerFailed = FALSE
BY DEF StageInv, Device, SetInternalFailure, PowerFailed

LEMMA PolicyMarksGoes ==
    ASSUME CountInv, StageInv, queue \in Queues, NEW s, NEW next, NEW posts, PolicyEntry(s, next, posts),
           \/ s \notin FailsIn /\ device' \in {device, SetInternalFailure(device)}
           \/ s \in FailsIn /\ device' = PowerFailed(device),
           posts = <<>> \/ posts = ToPnp("PowerUpFailed") \/ posts = ToPnp("PowerDownFailed"),
           StatusOf(s) = "none"
    PROVE  PolicyGoes(s, next)
<1>1. Calm(queue, PostAll(queue, posts))
  BY CalmPosts DEF ToPnp, Events, Statuses, PwrPolPriorityEventsMask
<1>2. s # "StoppingSendStatus"
  BY DEF StatusOf
<1>3. SmioStays /\ Remembers(s) /\ device'.ioCallbackFailure = device.ioCallbackFailure
  BY <1>2, PolicyMarks DEF SmioStays, Remembers
<1>4. PolicyTellsPnp(s)
  BY <1>1, PolicySteps DEF PolicyTellsPnp, Calm, OrdersStay
<1>5. QED
  BY <1>3, <1>4, PolicySteps DEF PolicyGoes

LEMMA PolicyFailsGoes ==
    ASSUME CountInv, StageInv, queue \in Queues, NEW s, NEW d, NEW next, NEW posts,
           PolicyFails(s, d, next, posts),
           \/ s \notin FailsIn /\ d \in {device, SetInternalFailure(device)}
           \/ s \in FailsIn /\ d = PowerFailed(device),
           posts = <<>> \/ posts = ToPnp("PowerUpFailed"), StatusOf(s) = "none"
    PROVE  PolicyGoes(s, next)
BY PolicyMarksGoes DEF PolicyFails

LEMMA CompletesSystemPowerIrpGoes ==
    ASSUME CountInv, StageInv, queue \in Queues, NEW s, NEW d, NEW next, NEW posts,
           CompletesSystemPowerIrp(s, d, next, posts),
           s \notin FailsIn, d \in {device, SetInternalFailure(device)},
           posts = <<>> \/ posts = ToPnp("PowerDownFailed"), StatusOf(s) = "none"
    PROVE  PolicyGoes(s, next)
BY PolicyMarksGoes DEF CompletesSystemPowerIrp

LEMMA PowerPolStartingPoweredUpGoes ==
    ASSUME CountInv, StageInv, queue \in Queues, PowerPolStartingPoweredUp
    PROVE  \E n \in {"StartingSucceeded", "StartingPoweredUpFailed"} : PolicyGoes("StartingPoweredUp", n)
<1> DEFINE s == "StartingPoweredUp"
<1>1. PICK n \in {"StartingSucceeded", "StartingPoweredUpFailed"} : PolicyEntry(s, n, <<>>)
  BY DEF PowerPolStartingPoweredUp
<1>2. StatusOf(s) = "none" /\ s \notin FailsIn /\ device' = device
  BY DEF StatusOf, FailsIn, PowerPolStartingPoweredUp
<1>3. QED
  BY <1>1, <1>2, PolicyGoesQuietly, CalmPosts

LEMMA PowerPolStoppingSendStatusGoes ==
    ASSUME CountInv, StageInv, queue \in Queues, PowerPolStoppingSendStatus
    PROVE  PolicyGoes("StoppingSendStatus", "Stopped")
<1> DEFINE s == "StoppingSendStatus"
           m == Idle!Stop(idle)
           a == StatusOf(s)
<1>1. a \in Statuses /\ a # "none" /\ PolicyEntry(s, "Stopped", IdlePosts(m) \o ToPnp(a))
      /\ device' = [device EXCEPT !.powerFailed = FALSE]
  BY DEF PowerPolStoppingSendStatus, Statuses, StatusOf
<1> HIDE DEF m, a
<1>2. Reported(queue, queue', a)
  BY <1>1, PolicySteps, StatusPosts
<1>3. SmioStays /\ Remembers(s) /\ device'.ioCallbackFailure = device.ioCallbackFailure
  BY <1>1, PolicyMarks DEF SmioStays, Remembers, FailsIn
<1>4. PolicyTellsPnp(s)
  BY <1>1, <1>2 DEF PolicyTellsPnp, Reported, a
<1>5. QED
  BY <1>1, <1>3, <1>4, PolicySteps DEF PolicyGoes

LEMMA PolicyMovesAll ==
    ASSUME CountInv, StageInv, queue \in Queues, PowerPolicyEntersState
    PROVE  \E s, next : <<s, next>> \in PolicyMoves /\ PolicyGoes(s, next)
<1>1. CASE PowerPolStarting
  BY <1>1, PolicyIdlesAndOrdersGoes DEF PowerPolStarting, PolicyMoves,
      StatusOf, FailsIn, Events
<1>2. CASE PowerPolStartingPoweredUp
  BY <1>2, PowerPolStartingPoweredUpGoes DEF PolicyMoves
<1>3. CASE PowerPolStartingPoweredUpFailed
  BY <1>3, PolicyOrdersGoes DEF PowerPolStartingPoweredUpFailed, PolicyMoves,
      StatusOf, FailsIn, Events
<1>4. CASE PowerPolStartingSucceeded
  BY <1>4, PolicyReportsGoes DEF PowerPolStartingSucceeded, PolicyMoves,
      StatusOf, FailsIn, Statuses
<1>5. CASE PowerPolStartingFailed
  BY <1>5, PolicyIdlesAndReportsGoes DEF PowerPolStartingFailed, PolicyMoves,
      StatusOf, FailsIn, Statuses
<1>6. CASE PowerPolStartingDecideS0Wake
  BY <1>6, PolicyPassesGoes DEF PowerPolStartingDecideS0Wake, PolicyMoves,
      StatusOf, FailsIn
<1>7. CASE PowerPolStarted
  BY <1>7, PolicyIdlesGoes DEF PowerPolStarted, PolicyMoves, StatusOf, FailsIn
<1>8. CASE PowerPolStartedCancelTimer
  BY <1>8, CancelsTimerGoes DEF PowerPolStartedCancelTimer, PolicyMoves,
      StatusOf, FailsIn
<1>9. CASE PowerPolRestarting
  BY <1>9, PolicyIdlesAndOrdersGoes DEF PowerPolRestarting, PolicyMoves,
      StatusOf, FailsIn, Events
<1>10. CASE PowerPolRestartingFailed
  BY <1>10, PolicyIdlesAndReportsGoes DEF PowerPolRestartingFailed,
      PolicyMoves, StatusOf, FailsIn, Statuses
<1>11. CASE PowerPolStartedIdleCapable
  BY <1>11, PolicyIdlesGoes DEF PowerPolStartedIdleCapable, PolicyMoves,
      StatusOf, FailsIn
<1>12. CASE PowerPolIdleCapableDeviceIdle
  BY <1>12, PolicyPassesGoes DEF PowerPolIdleCapableDeviceIdle, PolicyMoves,
      StatusOf, FailsIn
<1>13. CASE PowerPolTimerExpiredNoWake
  BY <1>13, PolicyRequestsGoes DEF PowerPolTimerExpiredNoWake, PolicyMoves,
      StatusOf, FailsIn
<1>14. CASE PowerPolTimerExpiredNoWakeCompletePowerDown
  BY <1>14, PolicyOrdersGoes DEF PowerPolTimerExpiredNoWakeCompletePowerDown,
      PolicyMoves, StatusOf, FailsIn, Events
<1>15. CASE PowerPolTimerExpiredNoWakePoweredDownDisableIdleTimer
  BY <1>15, PolicyIdlesGoes DEF
      PowerPolTimerExpiredNoWakePoweredDownDisableIdleTimer, PolicyMoves,
      StatusOf, FailsIn
<1>16. CASE PowerPolTimerExpiredNoWakePowerDownNotProcessed
  BY <1>16, PolicyFailsGoes DEF
      PowerPolTimerExpiredNoWakePowerDownNotProcessed, PolicyMoves, StatusOf,
      FailsIn
<1>17. CASE PowerPolTimerExpiredNoWakeUndoPowerDown
  BY <1>17, PolicyPassesGoes DEF PowerPolTimerExpiredNoWakeUndoPowerDown,
      PolicyMoves, StatusOf, FailsIn
<1>18. CASE PowerPolTimerExpiredNoWakeReturnToActive
  BY <1>18, PolicyPassesGoes DEF PowerPolTimerExpiredNoWakeReturnToActive,
      PolicyMoves, StatusOf, FailsIn
<1>19. CASE PowerPolWaitingUnarmedQueryIdle
  BY <1>19, QueriesIdleGoes DEF PowerPolWaitingUnarmedQueryIdle, PolicyMoves,
      StatusOf, FailsIn
<1>20. CASE PowerPolS0NoWakePowerUp
  BY <1>20, PolicyRequestsGoes DEF PowerPolS0NoWakePowerUp, PolicyMoves,
      StatusOf, FailsIn
<1>21. CASE PowerPolS0NoWakeCompletePowerUp
  BY <1>21, PolicyOrdersGoes DEF PowerPolS0NoWakeCompletePowerUp, PolicyMoves,
      StatusOf, FailsIn, Events
<1>22. CASE PowerPolStartedIdleCapableCancelTimerForSleep
  BY <1>22, CancelsTimerGoes DEF
      PowerPolStartedIdleCapableCancelTimerForSleep, PolicyMoves, StatusOf,
      FailsIn
<1>23. CASE PowerPolStartedIdleCapableTimerCanceledForSleep
  BY <1>23, PolicyPassesGoes DEF
      PowerPolStartedIdleCapableTimerCanceledForSleep, PolicyMoves, StatusOf,
      FailsIn
<1>24. CASE PowerPolSleeping
  BY <1>24, PolicyPassesGoes DEF PowerPolSleeping, PolicyMoves, StatusOf,
      FailsIn
<1>25. CASE PowerPolSleepingNoWakePowerDown
  BY <1>25, PolicyRequestsGoes DEF PowerPolSleepingNoWakePowerDown,
      PolicyMoves, StatusOf, FailsIn
<1>26. CASE PowerPolSleepingNoWakeCompletePowerDown
  BY <1>26, PolicyOrdersGoes DEF PowerPolSleepingNoWakeCompletePowerDown,
      PolicyMoves, StatusOf, FailsIn, Events
<1>27. CASE PowerPolSleepingNoWakeDxRequestFailed
  BY <1>27, CompletesSystemPowerIrpGoes DEF
      PowerPolSleepingNoWakeDxRequestFailed, PolicyMoves, StatusOf, FailsIn
<1>28. CASE PowerPolSleepingPowerDownNotProcessed
  BY <1>28, PolicyFailsGoes DEF PowerPolSleepingPowerDownNotProcessed,
      PolicyMoves, StatusOf, FailsIn
<1>29. CASE PowerPolSystemSleepPowerRequestFailed
  BY <1>29, CompletesSystemPowerIrpGoes DEF
      PowerPolSystemSleepPowerRequestFailed, PolicyMoves, StatusOf, FailsIn
<1>30. CASE PowerPolSystemSleepFromDeviceWaitingUnarmed
  BY <1>30, PolicyPassesGoes DEF PowerPolSystemSleepFromDeviceWaitingUnarmed,
      PolicyMoves, StatusOf, FailsIn
<1>31. CASE PowerPolSystemAsleepNoWake
  BY <1>31, CompletesSystemPowerIrpGoes DEF PowerPolSystemAsleepNoWake,
      PolicyMoves, StatusOf, FailsIn
<1>32. CASE PowerPolSystemWakeDeviceWakeDisabled
  BY <1>32, PolicyPassesGoes DEF PowerPolSystemWakeDeviceWakeDisabled,
      PolicyMoves, StatusOf, FailsIn
<1>33. CASE PowerPolSystemWakeQueryIdle
  BY <1>33, QueriesIdleGoes DEF PowerPolSystemWakeQueryIdle, PolicyMoves,
      StatusOf, FailsIn
<1>34. CASE PowerPolSystemWakeDeviceToD0
  BY <1>34, PolicyRequestsGoes DEF PowerPolSystemWakeDeviceToD0, PolicyMoves,
      StatusOf, FailsIn
<1>35. CASE PowerPolSystemWakeDeviceToD0CompletePowerUp
  BY <1>35, PolicyOrdersGoes DEF PowerPolSystemWakeDeviceToD0CompletePowerUp,
      PolicyMoves, StatusOf, FailsIn, Events
<1>36. CASE PowerPolSystemWakeDevicePowerRequestFailed
  BY <1>36, PolicyPassesGoes DEF PowerPolSystemWakeDevicePowerRequestFailed,
      PolicyMoves, StatusOf, FailsIn
<1>37. CASE PowerPolSystemWakeDeviceD0PowerRequestFailed
  BY <1>37, PolicyPassesGoes DEF PowerPolSystemWakeDeviceD0PowerRequestFailed,
      PolicyMoves, StatusOf, FailsIn
<1>38. CASE PowerPolDeviceD0PowerRequestFailed
  BY <1>38, PolicyFailsGoes DEF PowerPolDeviceD0PowerRequestFailed,
      PolicyMoves, StatusOf, FailsIn
<1>39. CASE PowerPolDevicePowerRequestFailed
  BY <1>39, PolicyFailsGoes DEF PowerPolDevicePowerRequestFailed, PolicyMoves,
      StatusOf, FailsIn
<1>40. CASE PowerPolStoppingCancelTimer
  BY <1>40, CancelsTimerGoes DEF PowerPolStoppingCancelTimer, PolicyMoves,
      StatusOf, FailsIn
<1>41. CASE PowerPolStoppingResetDevice
  BY <1>41, PolicySendsGoes DEF PowerPolStoppingResetDevice, PolicyMoves,
      StatusOf, FailsIn
<1>42. CASE PowerPolStoppingResetDeviceCompletePowerUp
  BY <1>42, PolicyOrdersGoes DEF PowerPolStoppingResetDeviceCompletePowerUp,
      PolicyMoves, StatusOf, FailsIn, Events
<1>43. CASE PowerPolStoppingResetDeviceFailed
  BY <1>43, PolicyFailsGoes DEF PowerPolStoppingResetDeviceFailed,
      PolicyMoves, StatusOf, FailsIn
<1>44. CASE PowerPolStopping
  BY <1>44, PolicyOrdersGoes DEF PowerPolStopping, PolicyMoves, StatusOf,
      FailsIn, Events
<1>45. CASE PowerPolStoppingFailed
  BY <1>45, PolicyFailsGoes DEF PowerPolStoppingFailed, PolicyMoves, StatusOf,
      FailsIn
<1>46. CASE PowerPolStoppingSendStatus
  BY <1>46, PowerPolStoppingSendStatusGoes DEF PolicyMoves
<1>47. CASE PowerPolStoppedRemoving
  BY <1>47, PolicyPassesGoes DEF PowerPolStoppedRemoving, PolicyMoves,
      StatusOf, FailsIn
<1>48. CASE PowerPolRemoved
  BY <1>48, PolicyReportsGoes DEF PowerPolRemoved, PolicyMoves, StatusOf,
      FailsIn, Statuses
<1>49. QED
  BY <1>1, <1>2, <1>3, <1>4, <1>5, <1>6, <1>7, <1>8, <1>9, <1>10, <1>11,
     <1>12, <1>13, <1>14, <1>15, <1>16, <1>17, <1>18, <1>19, <1>20, <1>21,
     <1>22, <1>23, <1>24, <1>25, <1>26, <1>27, <1>28, <1>29, <1>30, <1>31,
     <1>32, <1>33, <1>34, <1>35, <1>36, <1>37, <1>38, <1>39, <1>40, <1>41,
     <1>42, <1>43, <1>44, <1>45, <1>46, <1>47, <1>48
    DEF PowerPolicyEntersState

-----------------------------------------------------------------------------
(***************************************************************************)
(* Every other step, and the theorem                                       *)
(***************************************************************************)

(* A machine that takes an event                                           *)
LEMMA EventTaken ==
    ASSUME queue \in Queues, NEW m \in Machines, NEW open, Takes(m, open)
    PROVE  /\ queue' \in Queues /\ queue[m] # <<>> /\ queue[m] \in Seq(Events)
           /\ queue'[m] = Tail(queue[m]) /\ \A n \in Machines : n # m => queue'[n] = queue[n]
<1>1. /\ DOMAIN queue = {"pnp", "policy", "power", "lost"} /\ queue[m] \in Seq(Events)
      /\ Machines = {"pnp", "policy", "power"}
  BY DEF Queues, Machines
<1>2. queue[m] # <<>> /\ queue' = [queue EXCEPT ![m] = Tail(queue[m])]
  BY DEF Takes
<1>3. Tail(queue[m]) \in Seq(Events)
  BY <1>1, <1>2, Beheaded
<1>4. queue'[m] = Tail(queue[m]) /\ \A n \in Machines : n # m => queue'[n] = queue[n]
  BY <1>1, <1>2
<1>5. queue' \in Queues
  <2>1. CASE m = "pnp"
    BY <1>2, <1>3, <2>1 DEF Queues
  <2>2. CASE m = "policy"
    BY <1>2, <1>3, <2>2 DEF Queues
  <2>3. CASE m = "power"
    BY <1>2, <1>3, <2>3 DEF Queues
  <2>4. QED
    BY <1>1, <2>1, <2>2, <2>3
<1>6. QED
  BY <1>1, <1>2, <1>4, <1>5

LEMMA PnpTakes ==
    ASSUME CountInv, queue \in Queues, PnpProcessEventInner
    PROVE  /\ queue' \in Queues /\ queue'["pnp"] = Tail(queue["pnp"])
           /\ queue'["policy"] = queue["policy"] /\ queue'["power"] = queue["power"]
           /\ PolicyStands /\ PowerStands /\ UNCHANGED <<device, irps>>
<1>1. DOMAIN at = Machines /\ Machines = {"pnp", "policy", "power"}
  BY DEF CountInv, Machines
<1>2. /\ queue' \in Queues /\ queue'["pnp"] = Tail(queue["pnp"])
      /\ queue'["policy"] = queue["policy"] /\ queue'["power"] = queue["power"]
  BY <1>1, EventTaken DEF PnpProcessEventInner
<1>3. PolicyStands /\ PowerStands
  BY <1>1 DEF PnpProcessEventInner, EnterNewState, PolicyStands, PowerStands, Powering
<1>4. QED
  BY <1>2, <1>3 DEF PnpProcessEventInner

LEMMA PnpKeepsStep ==
    ASSUME CountInv, StageInv, queue \in Queues, Lockstep, PnpNext
    PROVE  Lockstep' /\ queue' \in Queues
<1>1. CASE PnpProcessEventInner
  BY <1>1, PnpTakes, LockstepFrame, SameReflexive DEF AnswersStay
<1>2. CASE PnpEntersState
  <2>1. PICK s, next : PnpGoes(s, next)
    BY <1>2, PnpMovesAll
  <2>2. queue' \in Queues /\ AnswersStay(queue, queue')
    BY <2>1 DEF PnpGoes, PnpOrders, Calm, Ordered
  <2>3. QED
    BY <2>1, <2>2, LockstepFrame DEF PnpGoes, FlagsStay
<1>3. QED
  BY <1>1, <1>2 DEF PnpNext

(* What the drivers below, the managers, the timer and the users do leaves *)
(* the machines where they are, and tells them nothing but of an IRP       *)
AsideQuiet ==
  /\ UNCHANGED <<at, entering>> /\ queue' \in Queues /\ OrdersStay(queue, queue')
  /\ device' \in {device, [device EXCEPT !.powerDownFailure = FALSE]}
  /\ OrderOf(at["policy"]) \in {"ImplicitD0", "ImplicitD3"} => AnswersStay(queue, queue')

LEMMA CalmAside ==
    ASSUME Lockstep, UNCHANGED <<at, entering, device, irps>>, Calm(queue, queue')
    PROVE  Lockstep' /\ AsideQuiet
<1>1. PolicyStands /\ PowerStands
  BY DEF PolicyStands, PowerStands, Powering
<1>2. QED
  BY <1>1, LockstepFrame DEF AsideQuiet, Calm

LEMMA UserKeepsStep ==
    ASSUME queue \in Queues, Lockstep, UserNext
    PROVE  Lockstep' /\ AsideQuiet /\ irps' = irps
<1>1. Calm(queue, queue) /\ \A m : Calm(queue, PostAll(queue, IdlePosts(m)))
  BY CalmReflexive, CalmPosts
<1>2. "S0IdlePolicyChanged" \in Events \ (PwrPolPriorityEventsMask \cup Orders)
  BY DEF Events, PwrPolPriorityEventsMask, Orders
<1>3. UNCHANGED <<at, entering, device, irps>> /\ Calm(queue, queue')
  <2>1. CASE SetTransitionFromEmpty
    BY <1>1, <2>1 DEF SetTransitionFromEmpty, ByUser, IdleOperation, Posts, machines
  <2>2. CASE QueueIsEmpty
    BY <1>1, <2>2 DEF QueueIsEmpty, ByUser, IdleOperation, Posts, machines
  <2>3. CASE ThreadReferences
    BY <1>1, <2>3 DEF ThreadReferences, ByUser, Posts
  <2>4. CASE ThreadWaitsForD0
    BY <1>1, <2>4 DEF ThreadWaitsForD0, ByUser, machines
  <2>5. CASE ThreadGoesOn
    BY <1>1, <2>5 DEF ThreadGoesOn, ByUser, Posts, machines
  <2>6. CASE ThreadDereferences
    BY <1>1, <2>6 DEF ThreadDereferences, ByUser, Posts
  <2>7. CASE PowerPolicySetS0IdleState
    BY <1>2, <2>7, CalmPosts DEF PowerPolicySetS0IdleState, Posts
  <2>8. QED
    BY <2>1, <2>2, <2>3, <2>4, <2>5, <2>6, <2>7 DEF UserNext
<1>4. QED
  BY <1>3, CalmAside

(* Which IRP the lower drivers have, and which is on its way up            *)
LEMMA IrpsBelow ==
    ASSUME Lockstep, irps.device # <<>>
    PROVE  /\ OldestIs("sent") => /\ IrpSent /\ irps.device = <<Irp(OrderOf(at["policy"]), "sent")>>
                                  /\ OrderOf(at["policy"]) = "D0" => irps.up
           /\ OldestIs("released") => \/ IrpReleased
                                      \/ irps.device = <<Irp("D0", "released")>> /\ ~irps.up
                                      \/ /\ IrpSent /\ OrderOf(at["policy"]) = "Dx" /\ ~irps.up
                                         /\ irps.device = <<Irp("D0", "released"), Irp("Dx", "sent")>>
<1>1. ASSUME NEW to, irps.device = <<Irp(to, "pending")>>
      PROVE  ~OldestIs("sent") /\ ~OldestIs("released")
  BY <1>1 DEF OldestIs, Oldest, Irp
<1>2. ASSUME irps.device = <<Irp("D0", "released")>>
      PROVE  ~OldestIs("sent")
  BY <1>2 DEF OldestIs, Oldest, Irp
<1>3. ASSUME IrpsFit \/ WorksOn("D0") \/ WorksOn("Dx")
      PROVE  /\ ~OldestIs("sent")
             /\ OldestIs("released") => irps.device = <<Irp("D0", "released")>> /\ ~irps.up
  BY <1>1, <1>2, <1>3 DEF IrpsFit, WorksOn, NoIrp
<1>4. CASE PolicyActs \/ OrderQueued \/ PowerActs \/ Answered
  BY <1>3, <1>4 DEF PolicyActs, OrderQueued, PowerActs, Answered
<1>5. CASE IrpReleased
  <2>1. ~OldestIs("sent")
    BY <1>5 DEF IrpReleased, OldestIs, Oldest, Irp
  <2>2. QED
    BY <1>5, <2>1
<1>6. CASE IrpSent
  <2>1. CASE irps.device = <<Irp(OrderOf(at["policy"]), "sent")>>
    <3>1. ~OldestIs("released")
      BY <2>1 DEF OldestIs, Oldest, Irp
    <3>2. OrderOf(at["policy"]) = "D0" => irps.up
      BY <1>6, <2>1 DEF IrpSent, Irp
    <3>3. QED
      BY <1>6, <2>1, <3>1, <3>2
  <2>2. CASE irps.device = <<Irp("D0", "released"), Irp("Dx", "sent")>>
    <3>1. ~OldestIs("sent")
      BY <2>2 DEF OldestIs, Oldest, Irp
    <3>2. QED
      BY <1>6, <2>2, <3>1 DEF IrpSent, Irp
  <2>3. QED
    BY <1>6, <2>1, <2>2 DEF IrpSent
<1>7. QED
  BY <1>4, <1>5, <1>6 DEF Lockstep

(* The IRP comes to the power machine                                      *)
LEMMA DispatchKeepsStep ==
    ASSUME StageInv, queue \in Queues, Lockstep, DispatchDeviceSetPower
    PROVE  Lockstep' /\ AsideQuiet
<1> DEFINE o == OrderOf(at["policy"])
<1>1. /\ OldestIs("sent") /\ irps.device # <<>> /\ queue' = PostAll(queue, ToPower(Oldest.to))
      /\ UNCHANGED <<at, entering, device>>
      /\ irps' = [irps EXCEPT !.device[1].stage = "pending", !.up = FALSE, !.down = @ /\ irps.up]
  BY DEF DispatchDeviceSetPower, OldestIs, Posts
<1>2. IrpSent /\ irps.device = <<Irp(o, "sent")>>
  BY <1>1, IrpsBelow
<1>3. Oldest.to = o /\ o \in {"D0", "Dx"} /\ o \in Events
  BY <1>2 DEF IrpSent, Oldest, Irp, Events
<1>4. Told(queue, queue', o)
  BY <1>1, <1>3, PowerPosts
<1>5. irps'.device = <<Irp(o, "pending")>> /\ ~irps'.up
  <2>1. irps \in Irps
    BY DEF StageInv
  <2>2. irps'.device = [irps.device EXCEPT ![1].stage = "pending"] /\ irps'.up = FALSE
    BY <1>1, <2>1 DEF Irps
  <2>3. [<<Irp(o, "sent")>> EXCEPT ![1].stage = "pending"] = <<Irp(o, "pending")>>
    BY DEF Irp
  <2>4. QED
    BY <1>2, <2>2, <2>3
<1>6. /\ Asks' /\ OrderOf(at'["policy"]) = o /\ queue'["power"] = <<o>> /\ NoAnswer' /\ Rests'
      /\ at'["power"] \in RestsAt(at'["policy"]) /\ ~device'.powerDownFailure
  BY <1>1, <1>2, <1>4, SameMeans
     DEF IrpSent, Asks, NoOrder, NoAnswer, Rests, Powering, Told
<1>7. OrderQueued'
  BY <1>3, <1>5, <1>6 DEF OrderQueued, WorksOn
<1>8. AsideQuiet
  BY <1>1, <1>3, <1>4 DEF AsideQuiet, Told
<1>9. QED
  BY <1>7, <1>8 DEF Lockstep

(* It, or its failure, answers the power policy machine                    *)
LEMMA IrpAnswers ==
    ASSUME queue \in Queues, NoAnswer, NoOrder, Asks, Rests, UNCHANGED <<at, entering>>,
           NEW a \in PwrPolPriorityEventsMask, Answers(queue, queue', a),
           at["power"] \in Outcome(OrderOf(at["policy"]), a),
           IrpsFit', device' \in {device, [device EXCEPT !.powerDownFailure = FALSE]},
           ~device'.powerDownFailure, OrderOf(at["policy"]) \notin {"ImplicitD0", "ImplicitD3"}
    PROVE  Lockstep' /\ AsideQuiet
<1>1. Asks' /\ NoOrder' /\ Rests' /\ at'["power"] \in Outcome(OrderOf(at'["policy"]), a)
  BY DEF Asks, NoOrder, Rests, Powering, Answers
<1>2. NoAnswer' \/ Sole(queue'["policy"], PwrPolPriorityEventsMask, a)
  BY DEF NoAnswer, Answers, Gets
<1>3. Answered'
  BY <1>1, <1>2 DEF Answered
<1>4. AsideQuiet
  BY DEF AsideQuiet, Answers
<1>5. QED
  BY <1>3, <1>4 DEF Lockstep

LEMMA IrpCompletesKeepsStep ==
    ASSUME StageInv, queue \in Queues, Lockstep, DevicePowerIrpCompletes
    PROVE  Lockstep' /\ AsideQuiet
<1> DEFINE o == OrderOf(at["policy"])
<1>1. /\ irps.device # <<>> /\ (OldestIs("released") \/ OldestIs("sent"))
      /\ UNCHANGED <<at, entering>> /\ irps' = [irps EXCEPT !.device = Tail(@)]
      /\ \/ Oldest.to = "Dx" /\ queue' = PostAll(queue, PowerDownCompletePosts)
            /\ device' = [device EXCEPT !.powerDownFailure = FALSE]
         \/ Oldest.to = "D0" /\ queue' = PostAll(queue, PowerUpCompletePosts) /\ device' = device
  BY DEF DevicePowerIrpCompletes, OldestIs, Posts
<1>2. irps'.device = Tail(irps.device) /\ irps'.up = irps.up /\ device \in Device
  BY <1>1 DEF StageInv, Irps
<1>3. [device EXCEPT !.powerDownFailure = FALSE].powerDownFailure = FALSE
  BY <1>2 DEF Device
<1>4. /\ {"PowerDown", "PowerDownFailed", "PowerUpNotSeen"} \subseteq PwrPolPriorityEventsMask
      /\ "PowerDownFailed" \in Events \ Statuses
  BY DEF PwrPolPriorityEventsMask, Events, Statuses
<1>5. /\ Answers(queue, PostAll(queue, <<<<"policy", "PowerDown">>>>), "PowerDown")
      /\ Answers(queue, PostAll(queue, <<<<"policy", "PowerUpNotSeen">>>>), "PowerUpNotSeen")
      /\ Answers(queue, PostAll(queue, <<<<"policy", "PowerDownFailed">>, <<"pnp", "PowerDownFailed">>>>),
                 "PowerDownFailed")
  BY <1>4, AnswerPosts
<1>6. CASE IrpSent /\ irps.device = <<Irp(o, "sent")>> /\ OldestIs("sent")
  <2>1. Oldest.to = o /\ o \in {"D0", "Dx"} /\ irps'.device = <<>> /\ (o = "D0" => irps.up)
    BY <1>2, <1>6, IrpsBelow DEF IrpSent, Oldest, Irp
  <2>2. /\ NoAnswer /\ NoOrder /\ Asks /\ Rests /\ ~device.powerDownFailure
        /\ at["power"] \in RestsAt(at["policy"])
    BY <1>6 DEF IrpSent
  <2>3. o = "D0" => at["power"] = "Dx"
    BY <2>2, OrderRests
  <2>4. o = "Dx" => at["power"] \in DZero
    BY <2>2, OrderRests
  <2>5. IrpsFit'
    <3>1. at'["power"] \in DZero \cup {"Dx"}
      BY <1>1, <2>1, <2>3, <2>4
    <3>2. Work' = "none"
      BY <3>1 DEF Work, WorkOf, DZero
    <3>3. QED
      BY <2>1, <3>2 DEF IrpsFit, NoIrp
  <2>6. CASE o = "D0"
    <3>1. Answers(queue, queue', "PowerUpNotSeen") /\ device' = device
      BY <1>1, <1>5, <2>1, <2>6 DEF PowerUpCompletePosts
    <3>2. at["power"] \in Outcome(o, "PowerUpNotSeen")
      BY <2>3, <2>6 DEF Outcome
    <3>3. QED
      BY <1>1, <1>4, <2>2, <2>5, <2>6, <3>1, <3>2, IrpAnswers
  <2>7. CASE o = "Dx"
    <3>1. Answers(queue, queue', "PowerDown") /\ device' = [device EXCEPT !.powerDownFailure = FALSE]
      BY <1>1, <1>5, <2>1, <2>2, <2>7 DEF PowerDownCompletePosts
    <3>2. at["power"] \in Outcome(o, "PowerDown")
      BY <2>4, <2>7 DEF Outcome
    <3>3. QED
      BY <1>1, <1>3, <1>4, <2>2, <2>5, <2>7, <3>1, <3>2, IrpAnswers
  <2>8. QED
    BY <2>1, <2>6, <2>7
<1>7. CASE IrpReleased
  <2>1. Oldest.to = "Dx" /\ irps'.device = <<>>
    BY <1>2, <1>7 DEF IrpReleased, Oldest, Irp
  <2>2. /\ NoAnswer /\ NoOrder /\ Asks /\ Rests /\ ~Powering /\ o = "CompleteDx"
        /\ at["power"] = IF device.powerDownFailure THEN "ReportPowerDownFailed" ELSE "Dx"
    BY <1>7 DEF IrpReleased, Rests
  <2>3. IrpsFit'
    <3>1. at'["power"] \in {"Dx", "ReportPowerDownFailed"} /\ ~Powering'
      BY <1>1, <2>2 DEF Powering
    <3>2. Work' = "none"
      BY <3>1 DEF Work, WorkOf, Broken
    <3>3. QED
      BY <2>1, <3>2 DEF IrpsFit, NoIrp
  <2>4. device' = [device EXCEPT !.powerDownFailure = FALSE]
        /\ queue' = PostAll(queue, PowerDownCompletePosts)
    BY <1>1, <2>1
  <2>5. CASE device.powerDownFailure
    <3>1. Answers(queue, queue', "PowerDownFailed")
      BY <1>5, <2>4, <2>5 DEF PowerDownCompletePosts
    <3>2. at["power"] \in Outcome(o, "PowerDownFailed")
      BY <2>2, <2>5 DEF Outcome
    <3>3. QED
      BY <1>1, <1>3, <1>4, <2>2, <2>3, <2>4, <3>1, <3>2, IrpAnswers
  <2>6. CASE ~device.powerDownFailure
    <3>1. Answers(queue, queue', "PowerDown")
      BY <1>5, <2>4, <2>6 DEF PowerDownCompletePosts
    <3>2. at["power"] \in Outcome(o, "PowerDown")
      BY <2>2, <2>6 DEF Outcome
    <3>3. QED
      BY <1>1, <1>3, <1>4, <2>2, <2>3, <2>4, <3>1, <3>2, IrpAnswers
  <2>7. QED
    BY <2>5, <2>6
<1>8. CASE ~IrpReleased /\ OldestIs("released")
  <2>1. /\ ~irps.up /\ Oldest.to = "D0"
        /\ \/ irps.device = <<Irp("D0", "released")>>
           \/ /\ IrpSent /\ o = "Dx"
              /\ irps.device = <<Irp("D0", "released"), Irp("Dx", "sent")>>
    <3>1. /\ ~irps.up
          /\ \/ irps.device = <<Irp("D0", "released")>>
             \/ /\ IrpSent /\ o = "Dx"
                /\ irps.device = <<Irp("D0", "released"), Irp("Dx", "sent")>>
      BY <1>1, <1>8, IrpsBelow
    <3>2. Head(<<Irp("D0", "released")>>) = Irp("D0", "released")
          /\ Head(<<Irp("D0", "released"), Irp("Dx", "sent")>>) = Irp("D0", "released")
      OBVIOUS
    <3>3. Irp("D0", "released").to = "D0"
      BY DEF Irp
    <3>4. Oldest.to = "D0"
      BY <3>1, <3>2, <3>3 DEF Oldest
    <3>5. QED
      BY <3>1, <3>4
  <2>2. queue' = queue /\ device' = device
    BY <1>1, <2>1, PostNone DEF PowerUpCompletePosts
  <2>3. AsideQuiet
    BY <1>1, <2>2, CalmReflexive DEF AsideQuiet, Calm
  <2>4. /\ Asks' <=> Asks
        /\ NoOrder' <=> NoOrder
        /\ NoAnswer' <=> NoAnswer
        /\ Rests' <=> Rests
        /\ Powering' <=> Powering
        /\ Work' = Work
    BY <1>1, <2>2 DEF Asks, NoOrder, NoAnswer, Rests, Powering, Work
  <2>5. CASE irps.device = <<Irp("D0", "released")>>
    <3>1. irps'.device = <<>>
      BY <1>2, <2>5
    <3>2. \A to : ~WorksOn(to)
      BY <2>5 DEF WorksOn, Irp
    <3>3. IrpsFit => IrpsFit'
      BY <1>1, <2>4, <3>1, <3>2 DEF IrpsFit, NoIrp
    <3>4. PolicyActs => PolicyActs'
      BY <1>1, <2>2, <2>4, <3>3 DEF PolicyActs
    <3>5. OrderQueued => OrderQueued'
      BY <1>1, <2>2, <2>4, <3>2, <3>3 DEF OrderQueued
    <3>6. ~IrpSent
      BY <2>5 DEF IrpSent, Irp
    <3>7. PowerActs => PowerActs'
      BY <1>1, <2>2, <2>4, <3>3 DEF PowerActs
    <3>8. Answered => Answered'
      BY <1>1, <2>2, <2>4, <3>3 DEF Answered
    <3>9. QED
      BY <1>8, <2>3, <3>4, <3>5, <3>6, <3>7, <3>8 DEF Lockstep
  <2>6. CASE IrpSent /\ o = "Dx" /\ irps.device = <<Irp("D0", "released"), Irp("Dx", "sent")>>
    <3>1. irps'.device = <<Irp("Dx", "sent")>>
      <4>1. Tail(<<Irp("D0", "released"), Irp("Dx", "sent")>>) = <<Irp("Dx", "sent")>>
        BY DEF Irp
      <4>2. QED
        BY <1>2, <2>6, <4>1
    <3>2. IrpSent'
      BY <1>1, <2>2, <2>4, <2>6, <3>1 DEF IrpSent
    <3>3. QED
      BY <2>3, <3>2 DEF Lockstep
  <2>7. QED
    BY <2>1, <2>5, <2>6
<1>9. QED
  BY <1>1, <1>6, <1>7, <1>8, IrpsBelow

LEMMA SystemKeepsStep ==
    ASSUME StageInv, queue \in Queues, Lockstep, SystemNext
    PROVE  Lockstep' /\ AsideQuiet
<1>1. Calm(queue, queue) /\ \A m : Calm(queue, PostAll(queue, IdlePosts(m)))
  BY CalmReflexive, CalmPosts
<1>2. /\ \A e \in {"Sx", "S0"} : Calm(queue, PostAll(queue, <<<<"policy", e>>>>))
      /\ \A e \in DOMAIN Succeeded \cup {"StartDeviceComplete", "StartDeviceFailed"} :
           Calm(queue, PostAll(queue, <<<<"pnp", e>>>>))
  <2>1. {"Sx", "S0"} \subseteq Events \ (PwrPolPriorityEventsMask \cup Orders)
    BY DEF Events, PwrPolPriorityEventsMask, Orders
  <2>2. DOMAIN Succeeded \cup {"StartDeviceComplete", "StartDeviceFailed"} \subseteq Events \ Statuses
    BY DEF Succeeded, Events, Statuses, Orders
  <2>3. QED
    BY <2>1, <2>2, CalmPosts
<1>3. CASE DispatchDeviceSetPower
  BY <1>3, DispatchKeepsStep
<1>4. CASE DevicePowerIrpCompletes
  BY <1>4, IrpCompletesKeepsStep
<1>5. CASE SystemSleeps
  BY <1>2, <1>5, CalmAside DEF SystemSleeps, Posts
<1>6. CASE SystemWakes
  BY <1>2, <1>6, CalmAside DEF SystemWakes, Posts
<1>7. ASSUME NEW irp \in DOMAIN Succeeded, ManagerSends(irp)
      PROVE  Lockstep' /\ AsideQuiet
  BY <1>2, <1>7, CalmAside DEF ManagerSends, Posts
<1>8. CASE StartDeviceCompletes
  BY <1>2, <1>8, CalmAside DEF StartDeviceCompletes, Posts, ToPnp
<1>9. CASE TimerDue
  BY <1>1, <1>9, CalmAside DEF TimerDue, machines, environment
<1>10. CASE PowerTimeoutDpcRoutine
  BY <1>1, <1>10, CalmAside DEF PowerTimeoutDpcRoutine, IdleOperation, Posts, environment
<1>11. QED
  BY <1>3, <1>4, <1>5, <1>6, <1>7, <1>8, <1>9, <1>10 DEF SystemNext

LEMMA PolicyQueues ==
    ASSUME CountInv, StageInv, queue \in Queues, PowerPolicyNext
    PROVE  queue' \in Queues
<1>1. CASE PowerPolicyProcessEventInner
  BY <1>1, EventTaken DEF PowerPolicyProcessEventInner, Machines
<1>2. CASE PowerPolicyEntersState
  BY <1>2, PolicyMovesAll DEF PolicyGoes, PolicyTellsPnp
<1>3. QED
  BY <1>1, <1>2 DEF PowerPolicyNext

(* The power policy machine and the power machine, in step                 *)
StepInv == queue \in Queues /\ Lockstep

(* before anything *)
LEMMA StepInit == Init => StepInv
<1> SUFFICES ASSUME Init
             PROVE  queue \in Queues /\ Lockstep
  BY DEF StepInv
<1>1. /\ queue = [pnp |-> <<>>, policy |-> <<>>, power |-> <<>>, lost |-> FALSE]
      /\ at["policy"] = "ObjectCreated" /\ at["power"] = "ObjectCreated" /\ entering = {}
      /\ irps.device = <<>> /\ ~device.powerDownFailure
  BY DEF Init, InitDevice
<1>2. <<>> \in Seq(Events)
  OBVIOUS
<1>3. queue \in Queues
  BY <1>1, <1>2 DEF Queues
<1>4. ~Asks /\ NoOrder /\ NoAnswer /\ Rests
  BY <1>1 DEF Asks, OrderOf, NoOrder, NoAnswer, Without, In, Rests, Powering
<1>5. at["power"] \in RestsAt(at["policy"])
  BY <1>1 DEF RestsAt, Off
<1>6. IrpsFit
  BY <1>1 DEF IrpsFit, Work, WorkOf, NoIrp
<1>7. PolicyActs
  BY <1>1, <1>4, <1>5, <1>6 DEF PolicyActs
<1>8. QED
  BY <1>3, <1>7 DEF Lockstep

(* every step *)
LEMMA StepStep == CountInv /\ StageInv /\ StepInv /\ [Next]_vars => StepInv'
<1> SUFFICES ASSUME CountInv, StageInv, queue \in Queues, Lockstep, [Next]_vars
             PROVE  queue' \in Queues /\ Lockstep'
  BY DEF StepInv
<1>1. CASE UNCHANGED vars
  BY <1>1, CalmReflexive, CalmAside DEF vars
<1>2. CASE PowerNext
  BY <1>2, PowerKeepsStep DEF PowerQuiet
<1>3. CASE PowerPolicyNext
  BY <1>3, PolicyKeepsStep, PolicyQueues
<1>4. CASE PnpNext
  BY <1>4, PnpKeepsStep
<1>5. CASE SystemNext
  BY <1>5, SystemKeepsStep DEF AsideQuiet
<1>6. CASE UserNext
  BY <1>6, UserKeepsStep DEF AsideQuiet
<1>7. QED
  BY <1>1, <1>2, <1>3, <1>4, <1>5, <1>6 DEF Next

-----------------------------------------------------------------------------
(***************************************************************************)
(* The PnP machine and the power policy machine stay in step               *)
(***************************************************************************)

(* A step that moves neither, and posts neither orders nor statuses        *)
LEMMA PnpLockstepFrame ==
    ASSUME PnpLockstep, PolicyStands, PnpStays, OrdersStay(queue, queue')
    PROVE  PnpLockstep'
<1>1. (PnpAsks' <=> PnpAsks) /\ at'["policy"] = at["policy"] /\ at'["pnp"] = at["pnp"]
      /\ (PolicyWaits' <=> PolicyWaits)
  BY DEF PnpAsks, PolicyStands, PnpStays, PolicyWaits
<1>2. /\ Without(queue'["policy"], Orders) <=> Without(queue["policy"], Orders)
      /\ Without(queue'["pnp"], Statuses) <=> Without(queue["pnp"], Statuses)
      /\ \A o \in Orders : Sole(queue["policy"], Orders, o) => Sole(queue'["policy"], Orders, o)
      /\ \A a \in Statuses : Sole(queue["pnp"], Statuses, a) => Sole(queue'["pnp"], Statuses, a)
  BY SameMeans DEF OrdersStay
<1>3. PolicyFits(at["pnp"]) => PolicyFits(at["pnp"])'
  BY <1>1 DEF PolicyFits
<1>4. PnpActs => PnpActs'
  BY <1>1, <1>2, <1>3 DEF PnpActs, PolicyFits
<1>5. PnpOrderQueued => PnpOrderQueued'
  <2>1. PnpAsks => PnpOrderOf(at["pnp"]) \in Orders
    BY DEF PnpAsks, PnpOrderOf, Orders
  <2>2. QED
    BY <1>1, <1>2, <2>1 DEF PnpOrderQueued
<1>6. PolicyWorks => PolicyWorks'
  BY <1>1, <1>2 DEF PolicyWorks
<1>7. PolicyAnswered => PolicyAnswered'
  BY <1>1, <1>2 DEF PolicyAnswered
<1>8. QED
  BY <1>4, <1>5, <1>6, <1>7 DEF PnpLockstep

LEMMA PnpIsActing ==
    ASSUME PnpLockstep, ~PnpAsks
    PROVE  PnpActs
BY DEF PnpLockstep, PnpOrderQueued, PolicyWorks, PolicyAnswered

LEMMA PnpAskingStates ==
    \A s : PnpOrderOf(s) # "none" => s \notin PnpNoEntry /\ PnpOrderOf(s) \in Orders
BY DEF PnpOrderOf, PnpNoEntry, Orders

(* The states of the PnP machine in which the power policy machine may be  *)
(* in the same places                                                      *)
Alike(s, t) ==
  \/ s \in NewStates /\ t \in NewStates
  \/ s \in StartedStates /\ t \in StartedStates
  \/ s \in StoppedStates /\ t \in StoppedStates
  \/ s \in NewStates \cup StoppedStates \cup {"HardwareAvailablePowerPolicyFailed", "FailedOwnHardware", "Failed"}
     /\ t \in {"FailedOwnHardware", "Failed"}
  \/ s \in RemovedStates \cup {"Init"} /\ t \in RemovedStates

LEMMA PnpStateSets ==
    /\ \A s \in StartedStates : s \notin NewStates
    /\ \A s \in StoppedStates : s \notin NewStates \cup StartedStates
    /\ \A s \in {"HardwareAvailablePowerPolicyFailed", "FailedOwnHardware", "Failed"} :
         s \notin NewStates \cup StartedStates \cup StoppedStates
    /\ \A s \in RemovedStates :
         s \notin NewStates \cup StartedStates \cup StoppedStates
                  \cup {"HardwareAvailablePowerPolicyFailed", "FailedOwnHardware", "Failed"}
<1>1. \A s \in StartedStates : s \notin NewStates
  BY DEF StartedStates, NewStates
<1>2. \A s \in StoppedStates : s \notin NewStates \cup StartedStates
  BY DEF StartedStates, NewStates, StoppedStates
<1>3. \A s \in {"HardwareAvailablePowerPolicyFailed", "FailedOwnHardware", "Failed"} :
        s \notin NewStates \cup StartedStates \cup StoppedStates
  BY DEF StartedStates, NewStates, StoppedStates
<1>4. \A s \in RemovedStates :
        s \notin NewStates \cup StartedStates \cup StoppedStates
                 \cup {"HardwareAvailablePowerPolicyFailed", "FailedOwnHardware", "Failed"}
  <2> SUFFICES ASSUME NEW s \in RemovedStates
               PROVE  s \notin NewStates \cup StartedStates \cup StoppedStates
                        \cup {"HardwareAvailablePowerPolicyFailed", "FailedOwnHardware", "Failed"}
    OBVIOUS
  <2>1. s \notin StartedStates
    BY DEF StartedStates, RemovedStates
  <2>2. s \notin NewStates \cup StoppedStates
    BY DEF NewStates, StoppedStates, RemovedStates
  <2>3. s \notin {"HardwareAvailablePowerPolicyFailed", "FailedOwnHardware", "Failed"}
    BY DEF RemovedStates
  <2>4. QED
    BY <2>1, <2>2, <2>3
<1>5. QED
  BY <1>1, <1>2, <1>3, <1>4

LEMMA PlacesOf ==
    /\ \A s \in NewStates : PolicyAt(s) = {"ObjectCreated"}
    /\ \A s \in StartedStates : PolicyAt(s) = Runs
    /\ \A s \in StoppedStates : PolicyAt(s) = {"Stopped"}
    /\ PolicyAt("HardwareAvailablePowerPolicyFailed") = {"StartingFailed", "Stopped"}
    /\ \A s \in {"FailedOwnHardware", "Failed"} :
         PolicyAt(s) = {"ObjectCreated", "StartingFailed", "Stopped"}
    /\ \A s \in RemovedStates : PolicyAt(s) = {"ObjectCreated", "Removed"}
<1>1. \A s \in NewStates : PolicyAt(s) = {"ObjectCreated"}
  BY PnpStateSets DEF PolicyAt
<1>2. \A s \in StartedStates : PolicyAt(s) = Runs
  BY PnpStateSets DEF PolicyAt
<1>3. \A s \in StoppedStates : PolicyAt(s) = {"Stopped"}
  BY PnpStateSets DEF PolicyAt
<1>4. PolicyAt("HardwareAvailablePowerPolicyFailed") = {"StartingFailed", "Stopped"}
  BY PnpStateSets DEF PolicyAt
<1>5. \A s \in {"FailedOwnHardware", "Failed"} :
        PolicyAt(s) = {"ObjectCreated", "StartingFailed", "Stopped"}
  BY PnpStateSets DEF PolicyAt
<1>6. \A s \in RemovedStates : PolicyAt(s) = {"ObjectCreated", "Removed"}
  BY PnpStateSets DEF PolicyAt
<1>7. QED
  BY <1>1, <1>2, <1>3, <1>4, <1>5, <1>6

LEMMA AlikePlaces ==
    ASSUME NEW s, NEW t, Alike(s, t)
    PROVE  PolicyAt(s) \subseteq PolicyAt(t) /\ (t \notin StartedStates => s \notin StartedStates)
<1>1. "Init" \in NewStates
  BY DEF NewStates
<1>2. QED
  BY <1>1, PlacesOf, PnpStateSets DEF Alike

LEMMA AlikeFits ==
    ASSUME NEW s, NEW t, Alike(s, t), PolicyFits(s)
    PROVE  PolicyFits(t)
BY AlikePlaces DEF PolicyFits

LEMMA PnpMovesAlike ==
    ASSUME NEW s, NEW next, <<s, next>> \in PnpMoves, next # Null
    PROVE  Alike(s, next)
BY DEF PnpMoves, Alike, NewStates, StartedStates, StoppedStates, RemovedStates, Null

LEMMA PnpRowsAlike ==
    ASSUME NEW r \in PnpRows
    PROVE  /\ r[2] \notin Statuses => Alike(r[1], r[3])
           /\ PnpOrderOf(r[1]) # "none" => r[2] \in Statuses
<1>1. CASE r \in PnpStartRows
  BY <1>1 DEF PnpStartRows, Alike, NewStates, StartedStates, StoppedStates, RemovedStates,
      Statuses, PnpOrderOf
<1>2. CASE r \in PnpStopRows
  BY <1>2 DEF PnpStopRows, Alike, NewStates, StartedStates, StoppedStates, RemovedStates,
      Statuses, PnpOrderOf
<1>3. CASE r \in PnpRemoveRows
  BY <1>3 DEF PnpRemoveRows, Alike, NewStates, StartedStates, StoppedStates, RemovedStates,
      Statuses, PnpOrderOf
<1>4. QED
  BY <1>1, <1>2, <1>3 DEF PnpRows

(* It gives orders where they can be carried out                           *)
LEMMA OrderPlaces ==
    ASSUME NEW s, PnpOrderOf(s) # "none"
    PROVE  PolicyAt(s) \subseteq ToldTo(PnpOrderOf(s)) /\ (s \in StartedStates => PolicyAt(s) = Runs)
<1>1. /\ "HardwareAvailable" \in NewStates
      /\ {"Restarting", "RemovingDisableInterfaces"} \subseteq StoppedStates
      /\ {"StartedStopping", "QueriedRemoving", "FailedPowerDown", "FailedIoStarting"} \subseteq StartedStates
  BY DEF NewStates, StartedStates, StoppedStates
<1>2. CASE s \in {"HardwareAvailable", "Restarting"}
  BY <1>1, <1>2, PlacesOf, PnpStateSets DEF PnpOrderOf, ToldTo
<1>3. CASE s \in {"StartedStopping", "QueriedRemoving", "FailedPowerDown", "FailedIoStarting"}
  BY <1>1, <1>3, PlacesOf DEF PnpOrderOf, ToldTo
<1>4. CASE s \in {"RemovingDisableInterfaces", "Failed"}
  BY <1>1, <1>4, PlacesOf, PnpStateSets DEF PnpOrderOf, ToldTo
<1>5. QED
  BY <1>2, <1>3, <1>4 DEF PnpOrderOf

(* An entry function of the PnP machine                                    *)
LEMMA PnpEntryKeepsTurn ==
    ASSUME PnpLockstep, NEW s, NEW next, <<s, next>> \in PnpMoves, PnpGoes(s, next)
    PROVE  PnpLockstep'
<1>1. /\ "pnp" \in entering /\ at["pnp"] = s /\ PolicyStands
      /\ at'["pnp"] = (IF next = Null THEN s ELSE next)
      /\ "pnp" \in entering' <=> (next # Null /\ next \notin PnpNoEntry)
  BY DEF PnpGoes
<1>2. PnpActs
  BY <1>1, PnpIsActing DEF PnpAsks
<1>3. at'["policy"] = at["policy"] /\ (PolicyWaits' <=> PolicyWaits)
  BY <1>1 DEF PolicyStands, PolicyWaits
<1>4. CASE next # Null \/ PnpOrderOf(s) = "none"
  <2>1. Without(queue'["policy"], Orders) /\ Without(queue'["pnp"], Statuses)
    BY <1>2, <1>4, SameMeans DEF PnpGoes, PnpOrders, Calm, OrdersStay, PnpActs
  <2>2. ~PnpAsks'
    BY <1>1, <1>4, PnpAskingStates DEF PnpAsks
  <2>3. PolicyFits(at'["pnp"])
    BY <1>1, <1>2, PnpMovesAlike, AlikeFits DEF PnpActs
  <2>4. PolicyFits(at["pnp"])'
    BY <1>3, <2>3 DEF PolicyFits
  <2>5. QED
    BY <2>1, <2>2, <2>4 DEF PnpActs, PnpLockstep
<1>5. CASE next = Null /\ PnpOrderOf(s) # "none"
  <2> DEFINE o == PnpOrderOf(s)
  <2>1. /\ Without(queue'["policy"], Orders) \/ Sole(queue'["policy"], Orders, o)
        /\ Without(queue'["pnp"], Statuses)
    BY <1>2, <1>5, SameMeans DEF PnpGoes, PnpOrders, Ordered, Gets, PnpActs
  <2>2. PnpAsks' /\ at'["pnp"] = s
    BY <1>1, <1>5 DEF PnpAsks
  <2>3. at["policy"] \in ToldTo(o) /\ (at["policy"] \notin Runs => PolicyWaits)
    <3>1. PolicyFits(s)
      BY <1>1, <1>2 DEF PnpActs
    <3>2. PolicyAt(s) \subseteq ToldTo(o) /\ (s \in StartedStates => PolicyAt(s) = Runs)
      BY <1>5, OrderPlaces
    <3>3. QED
      BY <3>1, <3>2 DEF PolicyFits
  <2>4. ToldTo(o) \subseteq DoesFor(o)
    BY <1>5, PnpAskingStates DEF Orders, ToldTo, DoesFor
  <2>5. "StartingFailed" \notin Runs
    BY DEF Runs
  <2>6. CASE Without(queue'["policy"], Orders)
    BY <1>3, <2>1, <2>2, <2>3, <2>4, <2>5, <2>6 DEF PolicyWorks, PnpLockstep
  <2>7. CASE Sole(queue'["policy"], Orders, o)
    BY <1>3, <2>1, <2>2, <2>3, <2>7 DEF PnpOrderQueued, PnpLockstep
  <2>8. QED
    BY <2>1, <2>6, <2>7
<1>6. QED
  BY <1>4, <1>5

(* A status it waits for has a row                                         *)
LEMMA StatusHasRow ==
    ASSUME NEW s, NEW a \in Statuses, PnpOrderOf(s) # "none", StatusAfter(PnpOrderOf(s), a) # {}
    PROVE  \E r \in PnpRows : r[1] = s /\ r[2] = a
<1>1. \/ s \in {"HardwareAvailable", "Restarting"} /\ a \in {"PwrPolStarted", "PwrPolStartFailed"}
      \/ /\ s \in {"StartedStopping", "QueriedRemoving", "FailedPowerDown", "FailedIoStarting"}
         /\ a \in {"PwrPolStopped", "PwrPolStopFailed"}
      \/ s \in {"RemovingDisableInterfaces", "Failed"} /\ a = "PwrPolRemoved"
  BY DEF PnpOrderOf, StatusAfter
<1>2. CASE s \in {"HardwareAvailable", "Restarting"} /\ a \in {"PwrPolStarted", "PwrPolStartFailed"}
  <2>1. /\ <<"HardwareAvailable", "PwrPolStarted", "EnableInterfaces">> \in PnpRows
        /\ <<"HardwareAvailable", "PwrPolStartFailed", "HardwareAvailablePowerPolicyFailed">> \in PnpRows
        /\ <<"Restarting", "PwrPolStarted", "Started">> \in PnpRows
        /\ <<"Restarting", "PwrPolStartFailed", "HardwareAvailablePowerPolicyFailed">> \in PnpRows
    BY DEF PnpRows, PnpStartRows, PnpStopRows
  <2>2. QED
    BY <1>2, <2>1
<1>3. CASE /\ s \in {"StartedStopping", "QueriedRemoving", "FailedPowerDown", "FailedIoStarting"}
           /\ a \in {"PwrPolStopped", "PwrPolStopFailed"}
  <2>1. /\ <<"StartedStopping", "PwrPolStopped", "Stopped">> \in PnpRows
        /\ <<"StartedStopping", "PwrPolStopFailed", "FailedOwnHardware">> \in PnpRows
        /\ <<"QueriedRemoving", "PwrPolStopped", "RemovingDisableInterfaces">> \in PnpRows
        /\ <<"QueriedRemoving", "PwrPolStopFailed", "RemovingDisableInterfaces">> \in PnpRows
    BY DEF PnpRows, PnpRemoveRows, PnpStopRows
  <2>2. /\ <<"FailedPowerDown", "PwrPolStopped", "FailedOwnHardware">> \in PnpRows
        /\ <<"FailedPowerDown", "PwrPolStopFailed", "FailedOwnHardware">> \in PnpRows
        /\ <<"FailedIoStarting", "PwrPolStopped", "FailedOwnHardware">> \in PnpRows
        /\ <<"FailedIoStarting", "PwrPolStopFailed", "FailedOwnHardware">> \in PnpRows
    BY DEF PnpRows, PnpRemoveRows
  <2>3. QED
    BY <1>3, <2>1, <2>2
<1>4. CASE s \in {"RemovingDisableInterfaces", "Failed"} /\ a = "PwrPolRemoved"
  <2>1. /\ <<"RemovingDisableInterfaces", "PwrPolRemoved", "Removed">> \in PnpRows
        /\ <<"Failed", "PwrPolRemoved", "FailedPowerPolicyRemoved">> \in PnpRows
    BY DEF PnpRows, PnpRemoveRows
  <2>2. QED
    BY <1>4, <2>1
<1>5. QED
  BY <1>1, <1>2, <1>3, <1>4

(* and finds the power policy machine where the target state has it        *)
LEMMA StatusPlaces ==
    ASSUME NEW r \in PnpRows, r[2] \in Statuses, PnpOrderOf(r[1]) # "none"
    PROVE  /\ StatusAfter(PnpOrderOf(r[1]), r[2]) \subseteq PolicyAt(r[3])
           /\ r[3] \notin StartedStates => StatusAfter(PnpOrderOf(r[1]), r[2]) \cap Runs = {}
<1>1. "StartingFailed" \notin Runs /\ "Stopped" \notin Runs /\ "Removed" \notin Runs
  BY DEF Runs
<1>2. \/ r = <<"HardwareAvailable", "PwrPolStarted", "EnableInterfaces">>
      \/ r = <<"HardwareAvailable", "PwrPolStartFailed", "HardwareAvailablePowerPolicyFailed">>
      \/ r = <<"Restarting", "PwrPolStarted", "Started">>
      \/ r = <<"Restarting", "PwrPolStartFailed", "HardwareAvailablePowerPolicyFailed">>
      \/ r = <<"StartedStopping", "PwrPolStopped", "Stopped">>
      \/ r[1] \in {"StartedStopping", "FailedPowerDown", "FailedIoStarting"} /\ r[3] = "FailedOwnHardware"
      \/ r[1] = "QueriedRemoving" /\ r[3] = "RemovingDisableInterfaces"
      \/ r = <<"RemovingDisableInterfaces", "PwrPolRemoved", "Removed">>
      \/ r = <<"Failed", "PwrPolRemoved", "FailedPowerPolicyRemoved">>
  <2>1. r \in PnpStartRows \/ r \in PnpStopRows \/ r \in PnpRemoveRows
    BY DEF PnpRows
  <2>2. CASE r \in PnpStartRows
    BY <2>2 DEF PnpStartRows, PnpOrderOf, Statuses
  <2>3. CASE r \in PnpStopRows
    BY <2>3 DEF PnpStopRows, PnpOrderOf, Statuses
  <2>4. CASE r \in PnpRemoveRows
    BY <2>4 DEF PnpRemoveRows, PnpOrderOf, Statuses
  <2>5. QED
    BY <2>1, <2>2, <2>3, <2>4
<1>3. /\ "EnableInterfaces" \in StartedStates /\ "Started" \in StartedStates
      /\ PolicyAt("EnableInterfaces") = Runs /\ PolicyAt("Started") = Runs
      /\ PolicyAt("HardwareAvailablePowerPolicyFailed") = {"StartingFailed", "Stopped"}
      /\ PolicyAt("Stopped") = {"Stopped"} /\ PolicyAt("RemovingDisableInterfaces") = {"Stopped"}
      /\ PolicyAt("FailedOwnHardware") = {"ObjectCreated", "StartingFailed", "Stopped"}
      /\ PolicyAt("Removed") = {"ObjectCreated", "Removed"}
      /\ PolicyAt("FailedPowerPolicyRemoved") = {"ObjectCreated", "Removed"}
  BY DEF PolicyAt, NewStates, StartedStates, StoppedStates, RemovedStates
<1>4. /\ PnpOrderOf("HardwareAvailable") = "Start" /\ PnpOrderOf("Restarting") = "Start"
      /\ PnpOrderOf("RemovingDisableInterfaces") = "Remove" /\ PnpOrderOf("Failed") = "Remove"
      /\ PnpOrderOf("QueriedRemoving") = "Stop"
      /\ \A s \in {"StartedStopping", "FailedPowerDown", "FailedIoStarting"} :
           PnpOrderOf(s) \in {"Stop", "SurpriseRemove"}
  BY DEF PnpOrderOf
<1>5. /\ StatusAfter("Start", "PwrPolStarted") = Runs
      /\ StatusAfter("Start", "PwrPolStartFailed") = {"StartingFailed", "Stopped"}
      /\ StatusAfter("Remove", "PwrPolRemoved") = {"Removed"}
      /\ \A o \in {"Stop", "SurpriseRemove"} : StatusAfter(o, r[2]) \subseteq {"Stopped"}
  BY DEF StatusAfter
<1>6. QED
  BY <1>1, <1>2, <1>3, <1>4, <1>5

LEMMA StatusFits ==
    ASSUME NEW r \in PnpRows, r[2] \in Statuses, PnpOrderOf(r[1]) # "none",
           at["policy"] \in StatusAfter(PnpOrderOf(r[1]), r[2]), at["policy"] \notin Runs => PolicyWaits
    PROVE  PolicyFits(r[3])
BY StatusPlaces DEF PolicyFits

(* An event it takes                                                       *)
LEMMA PnpEventKeepsTurn ==
    ASSUME CountInv, queue \in Queues, PnpLockstep, PnpProcessEventInner
    PROVE  PnpLockstep'
<1> DEFINE q == queue["pnp"]
           h == Head(queue["pnp"])
<1>1. /\ "pnp" \notin entering /\ q # <<>> /\ q \in Seq(Events)
      /\ queue'["pnp"] = Tail(q) /\ queue'["policy"] = queue["policy"]
      /\ PolicyStands
  BY PnpTakes DEF PnpProcessEventInner, Takes, Queues
<1>2. /\ h \notin Statuses => Same(q, Tail(q), Statuses)
      /\ h \in Statuses /\ Lone(q, Statuses) => Without(Tail(q), Statuses)
      /\ Without(q, Statuses) => h \notin Statuses
      /\ \A a \in Statuses : Sole(q, Statuses, a) /\ h \in Statuses => h = a
  BY <1>1, Shrinks
<1>3. at'["policy"] = at["policy"] /\ (PolicyWaits' <=> PolicyWaits)
  BY <1>1 DEF PolicyStands, PolicyWaits
<1>4. \/ PnpStays /\ Row("pnp", PnpRows) = {}
      \/ \E r \in PnpRows : /\ r[1] = at["pnp"] /\ r[2] = h
                            /\ at'["pnp"] = r[3] /\ ("pnp" \in entering' <=> r[3] \notin PnpNoEntry)
  <2>1. DOMAIN at = Machines /\ "pnp" \in Machines
    BY DEF CountInv, Machines
  <2>2. CASE UNCHANGED <<at, entering>> /\ Row("pnp", PnpRows) = {}
    BY <2>1, <2>2 DEF PnpStays
  <2>3. ASSUME NEW r \in Row("pnp", PnpRows), EnterNewState("pnp", r[3], PnpNoEntry)
        PROVE  /\ r \in PnpRows /\ r[1] = at["pnp"] /\ r[2] = h
               /\ at'["pnp"] = r[3] /\ ("pnp" \in entering' <=> r[3] \notin PnpNoEntry)
    BY <1>1, <2>1, <2>3 DEF Row, EnterNewState
  <2>4. QED
    BY <2>2, <2>3 DEF PnpProcessEventInner
<1>5. CASE h \notin Statuses
  <2>1. Same(q, Tail(q), Statuses)
    BY <1>2, <1>5
  <2>2. CASE PnpStays
    BY <1>1, <2>1, <2>2, PnpLockstepFrame, SameReflexive DEF OrdersStay
  <2>3. ASSUME NEW r \in PnpRows, r[1] = at["pnp"], r[2] = h,
               at'["pnp"] = r[3], "pnp" \in entering' <=> r[3] \notin PnpNoEntry
        PROVE  PnpLockstep'
    <3>1. Alike(r[1], r[3]) /\ PnpOrderOf(r[1]) = "none"
      BY <1>5, <2>3, PnpRowsAlike
    <3>2. PnpActs
      BY <2>3, <3>1, PnpIsActing DEF PnpAsks
    <3>3. PolicyFits(r[3])
      BY <2>3, <3>1, <3>2, AlikeFits DEF PnpActs
    <3>4. PolicyFits(at["pnp"])'
      BY <1>3, <2>3, <3>3 DEF PolicyFits
    <3>5. ~PnpAsks'
      BY <2>3, PnpAskingStates DEF PnpAsks
    <3>6. Without(queue'["policy"], Orders) /\ Without(queue'["pnp"], Statuses)
      BY <1>1, <2>1, <3>2, SameMeans DEF PnpActs
    <3>7. QED
      BY <3>4, <3>5, <3>6 DEF PnpActs, PnpLockstep
  <2>4. QED
    BY <1>4, <2>2, <2>3
<1>6. CASE h \in Statuses
  <2>1. PolicyAnswered
    BY <1>2, <1>6 DEF PnpLockstep, PnpActs, PnpOrderQueued, PolicyWorks
  <2>2. /\ PnpAsks /\ Sole(q, Statuses, h) /\ at["policy"] \in StatusAfter(PnpOrderOf(at["pnp"]), h)
        /\ at["policy"] \notin Runs => PolicyWaits
        /\ Without(queue'["policy"], Orders) /\ Without(queue'["pnp"], Statuses)
    BY <1>1, <1>2, <1>6, <2>1 DEF PolicyAnswered, Sole
  <2>3. Row("pnp", PnpRows) # {}
    BY <1>6, <2>2, StatusHasRow DEF PnpAsks, Row
  <2>4. PICK r \in PnpRows : /\ r[1] = at["pnp"] /\ r[2] = h
                             /\ at'["pnp"] = r[3] /\ ("pnp" \in entering' <=> r[3] \notin PnpNoEntry)
    BY <1>4, <2>3
  <2>5. PolicyFits(r[3])
    BY <1>6, <2>2, <2>4, StatusFits DEF PnpAsks
  <2>6. PolicyFits(at["pnp"])'
    BY <1>3, <2>4, <2>5 DEF PolicyFits
  <2>7. ~PnpAsks'
    BY <2>4, PnpAskingStates DEF PnpAsks
  <2>8. QED
    BY <2>2, <2>6, <2>7 DEF PnpActs, PnpLockstep
<1>7. QED
  BY <1>5, <1>6

(* Where the moves of the power policy machine lead                        *)
LEMMA PolicyPlaceSets ==
    /\ \A s \in Runs : s \notin Starts \cup Stops \cup
                         {"ObjectCreated", "StartingFailed", "Stopped", "StoppedRemoving", "Removed"}
    /\ \A s \in Starts \cup Stops : s \notin {"ObjectCreated", "StartingFailed", "Stopped",
                                             "StoppedRemoving", "Removed"}
    /\ \A s \in Starts : s \notin Stops
<1>1. \A s \in Runs : s \notin {"ObjectCreated", "StartingFailed", "Stopped", "StoppedRemoving", "Removed"}
  BY DEF Runs
<1>2. \A s \in Runs : s \notin Starts
  BY DEF Runs, Starts
<1>3. \A s \in Runs : s \notin Stops
  BY DEF Runs, Stops
<1>4. \A s \in Starts \cup Stops : s \notin {"ObjectCreated", "StartingFailed", "Stopped",
                                             "StoppedRemoving", "Removed"}
  BY DEF Starts, Stops
<1>5. \A s \in Starts : s \notin Stops
  BY DEF Starts, Stops
<1>6. QED
  BY <1>1, <1>2, <1>3, <1>4, <1>5

LEMMA PolicyMovesFrom ==
    ASSUME NEW s, NEW next, <<s, next>> \in PolicyMoves
    PROVE  /\ s \in Starts \cup Runs \cup Stops \cup {"StartingFailed", "StoppedRemoving", "Removed"}
           /\ s \in Runs => next = Null \/ next \in Runs
           /\ s \in Starts => \/ next = Null \/ next \in Starts
                              \/ s = "StartingSucceeded" /\ next = "StartingDecideS0Wake"
                              \/ s = "RestartingFailed" /\ next = "Stopped"
           /\ s \in Stops => \/ next = Null \/ next \in Stops \cup Runs
                             \/ s = "StoppingSendStatus" /\ next = "Stopped"
           /\ s \in {"StartingFailed", "Removed"} => next = Null
           /\ s = "StoppedRemoving" => next = "Removed"
<1>1. s \in Starts \cup Runs \cup Stops \cup {"StartingFailed", "StoppedRemoving", "Removed"}
  BY DEF PolicyMoves, Starts, Runs, Stops
<1>2. ASSUME s \in Runs, next # Null
      PROVE  next \in Runs
  BY <1>2 DEF PolicyMoves, Runs, Null
<1>3. ASSUME s \in Starts, next # Null, next \notin Starts
      PROVE  \/ s = "StartingSucceeded" /\ next = "StartingDecideS0Wake"
             \/ s = "RestartingFailed" /\ next = "Stopped"
  BY <1>3 DEF PolicyMoves, Starts, Null
<1>4. ASSUME s \in Stops, next # Null, next \notin Stops \cup Runs
      PROVE  s = "StoppingSendStatus" /\ next = "Stopped"
  BY <1>4 DEF PolicyMoves, Stops, Runs, Null
<1>5. s \in {"StartingFailed", "Removed"} => next = Null
  BY DEF PolicyMoves
<1>6. s = "StoppedRemoving" => next = "Removed"
  BY DEF PolicyMoves
<1>7. QED
  BY <1>1, <1>2, <1>3, <1>4, <1>5, <1>6

LEMMA StatusStates ==
    \A s : /\ s \in Runs => StatusOf(s) = "none"
           /\ StatusOf(s) # "none" =>
                /\ s \in {"StartingSucceeded", "RestartingFailed", "StartingFailed",
                          "StoppingSendStatus", "Removed"}
                /\ StatusOf(s) \in Statuses
<1>1. ASSUME NEW s, StatusOf(s) # "none"
      PROVE  s \in {"StartingSucceeded", "RestartingFailed", "StartingFailed",
                    "StoppingSendStatus", "Removed"}
  BY <1>1 DEF StatusOf
<1>2. ASSUME NEW s, StatusOf(s) # "none"
      PROVE  StatusOf(s) \in Statuses
  BY <1>1, <1>2 DEF StatusOf, Statuses
<1>3. \A s \in Runs : s \notin {"StartingSucceeded", "RestartingFailed", "StartingFailed",
                                "StoppingSendStatus", "Removed"}
  BY DEF Runs
<1>4. QED
  BY <1>1, <1>2, <1>3

LEMMA StatusNames ==
    /\ StatusOf("StartingSucceeded") = "PwrPolStarted"
    /\ StatusOf("StartingFailed") = "PwrPolStartFailed"
    /\ StatusOf("RestartingFailed") = "PwrPolStartFailed"
    /\ StatusOf("StoppingSendStatus") \in {"PwrPolStopped", "PwrPolStopFailed"}
    /\ StatusOf("Removed") = "PwrPolRemoved"
BY DEF StatusOf

LEMMA OrderSets ==
    /\ \A s : PnpOrderOf(s) # "none" => PnpOrderOf(s) \in {"Start", "Stop", "SurpriseRemove", "Remove"}
    /\ ToldTo("Start") = {"ObjectCreated", "Stopped"}
    /\ ToldTo("Remove") = {"ObjectCreated", "StartingFailed", "Stopped"}
    /\ DoesFor("Start") = {"ObjectCreated", "Stopped", "StartingFailed"} \cup Starts \cup Runs
    /\ DoesFor("Remove") =
         {"ObjectCreated", "StartingFailed", "Stopped", "StoppedRemoving", "Removed"}
    /\ \A o \in {"Stop", "SurpriseRemove"} :
         ToldTo(o) = Runs /\ DoesFor(o) = Runs \cup Stops \cup {"Stopped"}
    /\ \A o, a : StatusAfter(o, a) # {} =>
         StatusAfter(o, a) = Runs \/ StatusAfter(o, a) \subseteq {"StartingFailed", "Stopped", "Removed"}
<1>1. \A s : PnpOrderOf(s) # "none" => PnpOrderOf(s) \in {"Start", "Stop", "SurpriseRemove", "Remove"}
  BY DEF PnpOrderOf
<1>2. /\ ToldTo("Start") = {"ObjectCreated", "Stopped"}
      /\ ToldTo("Remove") = {"ObjectCreated", "StartingFailed", "Stopped"}
      /\ \A o \in {"Stop", "SurpriseRemove"} : ToldTo(o) = Runs
  BY DEF ToldTo
<1>3. /\ DoesFor("Start") = {"ObjectCreated", "Stopped", "StartingFailed"} \cup Starts \cup Runs
      /\ DoesFor("Remove") =
           {"ObjectCreated", "StartingFailed", "Stopped", "StoppedRemoving", "Removed"}
      /\ \A o \in {"Stop", "SurpriseRemove"} : DoesFor(o) = Runs \cup Stops \cup {"Stopped"}
  BY DEF DoesFor
<1>4. \A o, a : StatusAfter(o, a) # {} =>
         StatusAfter(o, a) = Runs \/ StatusAfter(o, a) \subseteq {"StartingFailed", "Stopped", "Removed"}
  BY DEF StatusAfter
<1>5. QED
  BY <1>1, <1>2, <1>3, <1>4

(* A machine that carries out an order stays at it until it reports        *)
LEMMA WorkGoesOn ==
    ASSUME NEW s, NEW next, <<s, next>> \in PolicyMoves,
           NEW o \in Orders, s \in DoesFor(o), ~(o = "Remove" /\ s = "StartingFailed")
    PROVE  LET t == IF next = Null THEN s ELSE next
           IN  /\ t \in DoesFor(o) /\ ~(o = "Remove" /\ t = "StartingFailed")
               /\ StatusOf(s) # "none" =>
                    t \in StatusAfter(o, StatusOf(s)) /\ (t \notin Runs => next \in {Null} \cup PolicyNoEntry)
<1> DEFINE t == IF next = Null THEN s ELSE next
<1>1. o \in {"Start", "Stop", "SurpriseRemove", "Remove"}
  BY DEF Orders
<1>2. "StartingDecideS0Wake" \in Runs
  BY DEF Runs
<1>3. t \in DoesFor(o) /\ ~(o = "Remove" /\ t = "StartingFailed")
  <2>1. CASE o = "Start"
    BY <1>2, <2>1, PolicyMovesFrom, PolicyPlaceSets, OrderSets
  <2>2. CASE o \in {"Stop", "SurpriseRemove"}
    BY <2>2, PolicyMovesFrom, PolicyPlaceSets, OrderSets
  <2>3. CASE o = "Remove"
    BY <2>3, PolicyMovesFrom, PolicyPlaceSets, OrderSets
  <2>4. QED
    BY <1>1, <2>1, <2>2, <2>3
<1>4. ASSUME StatusOf(s) # "none"
      PROVE  t \in StatusAfter(o, StatusOf(s)) /\ (t \notin Runs => next \in {Null} \cup PolicyNoEntry)
  <2>1. "StartingSucceeded" \in Starts /\ "RestartingFailed" \in Starts /\ "StoppingSendStatus" \in Stops
        /\ "Stopped" \in PolicyNoEntry
    BY DEF Starts, Stops, PolicyNoEntry
  <2>2. "StartingDecideS0Wake" \notin Starts /\ Null \notin Starts \cup Stops
    BY DEF Starts, Stops, Null
  <2>3. s \in {"StartingSucceeded", "RestartingFailed", "StartingFailed", "StoppingSendStatus", "Removed"}
    BY <1>4, StatusStates
  <2>4. /\ <<"StartingSucceeded", next>> \in PolicyMoves => next = "StartingDecideS0Wake"
        /\ <<"RestartingFailed", next>> \in PolicyMoves => next = "Stopped"
        /\ <<"StoppingSendStatus", next>> \in PolicyMoves => next = "Stopped"
    BY DEF PolicyMoves
  <2>5. /\ StatusAfter("Start", "PwrPolStarted") = Runs
        /\ StatusAfter("Start", "PwrPolStartFailed") = {"StartingFailed", "Stopped"}
        /\ StatusAfter("Remove", "PwrPolRemoved") = {"Removed"}
        /\ \A x \in {"Stop", "SurpriseRemove"}, a \in {"PwrPolStopped", "PwrPolStopFailed"} :
             StatusAfter(x, a) = {"Stopped"}
    BY DEF StatusAfter
  <2>6. CASE s = "StartingSucceeded"
    <3>1. o = "Start"
      BY <1>1, <2>1, <2>6, PolicyPlaceSets, OrderSets
    <3>2. t = "StartingDecideS0Wake"
      BY <2>4, <2>6 DEF Null
    <3>3. QED
      BY <1>2, <2>5, <2>6, <3>1, <3>2, StatusNames
  <2>7. CASE s = "RestartingFailed"
    <3>1. o = "Start"
      BY <1>1, <2>1, <2>7, PolicyPlaceSets, OrderSets
    <3>2. t = "Stopped" /\ next = "Stopped"
      BY <2>4, <2>7 DEF Null
    <3>3. QED
      BY <2>1, <2>5, <2>7, <3>1, <3>2, StatusNames
  <2>8. CASE s = "StartingFailed"
    <3>1. o = "Start"
      BY <1>1, <2>8, PolicyPlaceSets, OrderSets
    <3>2. t = "StartingFailed" /\ next = Null
      BY <2>8, PolicyMovesFrom
    <3>3. QED
      BY <2>5, <2>8, <3>1, <3>2, StatusNames
  <2>9. CASE s = "StoppingSendStatus"
    <3>1. o \in {"Stop", "SurpriseRemove"}
      BY <1>1, <2>1, <2>9, PolicyPlaceSets, OrderSets
    <3>2. t = "Stopped" /\ next = "Stopped"
      BY <2>4, <2>9 DEF Null
    <3>3. QED
      BY <2>1, <2>5, <2>9, <3>1, <3>2, StatusNames
  <2>10. CASE s = "Removed"
    <3>1. o = "Remove"
      BY <1>1, <2>10, PolicyPlaceSets, OrderSets
    <3>2. t = "Removed" /\ next = Null
      BY <2>10, PolicyMovesFrom
    <3>3. QED
      BY <2>5, <2>10, <3>1, <3>2, StatusNames
  <2>11. QED
    BY <2>3, <2>6, <2>7, <2>8, <2>9, <2>10
<1>5. QED
  BY <1>3, <1>4

(* The machine moves from one state where it runs to another               *)
LEMMA RunsOn ==
    ASSUME PnpLockstep, at["policy"] \in Runs, at'["policy"] \in Runs, PnpStays,
           OrdersStay(queue, queue')
    PROVE  PnpLockstep'
<1>1. (PnpAsks' <=> PnpAsks) /\ at'["pnp"] = at["pnp"]
  BY DEF PnpAsks, PnpStays
<1>2. /\ Without(queue'["policy"], Orders) <=> Without(queue["policy"], Orders)
      /\ Without(queue'["pnp"], Statuses) <=> Without(queue["pnp"], Statuses)
      /\ \A o \in Orders : Sole(queue["policy"], Orders, o) => Sole(queue'["policy"], Orders, o)
      /\ \A a \in Statuses : Sole(queue["pnp"], Statuses, a) => Sole(queue'["pnp"], Statuses, a)
  BY SameMeans DEF OrdersStay
<1>3. PolicyFits(at["pnp"]) => PolicyFits(at["pnp"])'
  <2>1. \A s : at["policy"] \in PolicyAt(s) => s \in StartedStates
    BY PolicyPlaceSets DEF PolicyAt
  <2>2. QED
    BY <1>1, <2>1, PlacesOf DEF PolicyFits
<1>4. PnpAsks => PnpOrderOf(at["pnp"]) \in {"Start", "Stop", "SurpriseRemove", "Remove"}
  BY OrderSets DEF PnpAsks
<1>5. PnpActs => PnpActs'
  BY <1>1, <1>2, <1>3 DEF PnpActs
<1>6. PnpOrderQueued => PnpOrderQueued'
  BY <1>1, <1>2, <1>4, PolicyPlaceSets, OrderSets DEF PnpOrderQueued, Orders
<1>7. PolicyWorks => PolicyWorks'
  <2>1. ASSUME NEW o \in {"Start", "Stop", "SurpriseRemove", "Remove"}, at["policy"] \in DoesFor(o)
        PROVE  at'["policy"] \in DoesFor(o)
    BY <2>1, PolicyPlaceSets, OrderSets
  <2>2. at'["policy"] # "StartingFailed"
    BY PolicyPlaceSets
  <2>3. QED
    BY <1>1, <1>2, <1>4, <2>1, <2>2 DEF PolicyWorks
<1>8. PolicyAnswered => PolicyAnswered'
  <2>1. ASSUME NEW o, NEW a, at["policy"] \in StatusAfter(o, a)
        PROVE  at'["policy"] \in StatusAfter(o, a)
    BY <2>1, PolicyPlaceSets, OrderSets
  <2>2. QED
    BY <1>1, <1>2, <2>1 DEF PolicyAnswered
<1>9. QED
  BY <1>5, <1>6, <1>7, <1>8 DEF PnpLockstep

(* An entry function of the power policy machine                           *)
LEMMA PolicyEntryKeepsTurn ==
    ASSUME PnpLockstep, NEW s, NEW next, <<s, next>> \in PolicyMoves, PolicyGoes(s, next)
    PROVE  PnpLockstep'
<1> DEFINE t == IF next = Null THEN s ELSE next
           o == PnpOrderOf(at["pnp"])
           a == StatusOf(s)
<1>1. /\ ~PolicyWaits /\ at["policy"] = s /\ at'["policy"] = t /\ PnpStays
      /\ PolicyWaits' <=> next \in {Null} \cup PolicyNoEntry
      /\ Same(queue["policy"], queue'["policy"], Orders)
      /\ IF a = "none" THEN Same(queue["pnp"], queue'["pnp"], Statuses)
         ELSE Gets(queue["pnp"], queue'["pnp"], Statuses, a)
  BY DEF PolicyGoes, PolicyTellsPnp, PolicyWaits
<1>2. CASE s \in Runs
  <2>1. t \in Runs
    BY <1>2, PolicyMovesFrom
  <2>2. OrdersStay(queue, queue')
    BY <1>1, <1>2, StatusStates DEF OrdersStay
  <2>3. QED
    BY <1>1, <1>2, <2>1, <2>2, RunsOn
<1>3. CASE s \notin Runs
  <2>1. ~PnpActs
    BY <1>1, <1>3, PlacesOf DEF PnpActs, PolicyFits
  <2>2. PolicyWorks
    BY <1>1, <1>3, <2>1, PolicyPlaceSets, OrderSets DEF PnpLockstep, PnpOrderQueued, PolicyAnswered
  <2>3. /\ o \in Orders /\ PnpAsks /\ Without(queue["policy"], Orders)
        /\ Without(queue["pnp"], Statuses) /\ s \in DoesFor(o) /\ ~(o = "Remove" /\ s = "StartingFailed")
    BY <1>1, <2>2, PnpAskingStates DEF PolicyWorks, PnpAsks
  <2>4. /\ t \in DoesFor(o) /\ ~(o = "Remove" /\ t = "StartingFailed")
        /\ a # "none" => t \in StatusAfter(o, a) /\ (t \notin Runs => next \in {Null} \cup PolicyNoEntry)
    BY <2>3, WorkGoesOn
  <2>5. at'["pnp"] = at["pnp"] /\ PnpAsks' /\ Without(queue'["policy"], Orders)
    BY <1>1, <2>3, SameMeans DEF PnpStays, PnpAsks
  <2>6. CASE Without(queue'["pnp"], Statuses)
    BY <1>1, <2>4, <2>5, <2>6 DEF PolicyWorks, PnpLockstep
  <2>7. CASE ~Without(queue'["pnp"], Statuses)
    <3>1. a # "none" /\ Sole(queue'["pnp"], Statuses, a)
      BY <1>1, <2>3, <2>7, SameMeans DEF Gets
    <3>2. a \in Statuses
      BY <3>1, StatusStates
    <3>3. QED
      BY <1>1, <2>4, <2>5, <3>1, <3>2 DEF PolicyAnswered, PnpLockstep
  <2>8. QED
    BY <2>6, <2>7
<1>4. QED
  BY <1>2, <1>3

(* Where its rows lead                                                     *)
LEMMA PolicyRowsFrom ==
    ASSUME NEW r \in PolicyRows
    PROVE  IF r[2] \in Orders
           THEN r[1] \in ToldTo(r[2]) => r[3] \in DoesFor(r[2]) /\ r[3] # "StartingFailed"
           ELSE /\ r[1] \in Starts \cup Runs \cup Stops
                /\ r[1] \in Runs => r[3] \in Runs
                /\ r[1] \in Starts => r[3] \in Starts \cup {"StartingFailed"}
                /\ r[1] \in Stops => r[3] \in Stops \cup Runs
<1> DEFINE On == /\ r[1] \in Starts \cup Runs \cup Stops
                 /\ r[1] \in Runs => r[3] \in Runs
                 /\ r[1] \in Starts => r[3] \in Starts \cup {"StartingFailed"}
                 /\ r[1] \in Stops => r[3] \in Stops \cup Runs
<1>1. ASSUME r[2] \notin Orders
      PROVE  On
  <2>1. CASE r \in StartRows
    BY <1>1, <2>1, PolicyPlaceSets DEF StartRows, Orders, Starts, Runs
  <2>2. CASE r \in IdleRows
    <3>1. r[1] \in Runs /\ r[3] \in Runs
      BY <1>1, <2>2 DEF IdleRows, Orders, Runs
    <3>2. QED
      BY <3>1, PolicyPlaceSets
  <2>3. CASE r \in SleepRows
    <3>1. r[1] \in Runs /\ r[3] \in Runs
      BY <2>3 DEF SleepRows, Runs
    <3>2. QED
      BY <3>1, PolicyPlaceSets
  <2>4. CASE r \in StopRows
    <3>1. r[1] \in Stops /\ r[3] \in Stops \cup Runs
      BY <1>1, <2>4 DEF StopRows, Orders, Stops, Runs
    <3>2. QED
      BY <3>1, PolicyPlaceSets
  <2>5. QED
    BY <2>1, <2>2, <2>3, <2>4 DEF PolicyRows
<1>2. ASSUME r[2] \in Orders, r[1] \in ToldTo(r[2])
      PROVE  r[3] \in DoesFor(r[2]) /\ r[3] # "StartingFailed"
  <2>1. CASE r[2] = "Start"
    <3>1. r[1] \in {"ObjectCreated", "Stopped"}
      BY <1>2, <2>1, OrderSets
    <3>2. r[3] \in {"Starting", "Restarting"}
      BY <2>1, <3>1 DEF PolicyRows, StartRows, IdleRows, SleepRows, StopRows
    <3>3. r[3] \in Starts
      BY <3>2 DEF Starts
    <3>4. QED
      BY <2>1, <3>3, PolicyPlaceSets, OrderSets
  <2>2. CASE r[2] \in {"Stop", "SurpriseRemove"}
    <3>1. r[3] \in {"Stopping", "StoppingWaitForIdleTimeout", "StoppingCancelTimer", "StoppingResetDevice"}
      BY <2>2 DEF PolicyRows, StartRows, IdleRows, SleepRows, StopRows
    <3>2. r[3] \in Stops
      BY <3>1 DEF Stops
    <3>3. QED
      BY <2>2, <3>2, PolicyPlaceSets, OrderSets
  <2>3. CASE r[2] = "Remove"
    <3>1. r[3] \in {"Removed", "StoppedRemoving"}
      BY <2>3 DEF PolicyRows, StartRows, IdleRows, SleepRows, StopRows
    <3>2. QED
      BY <2>3, <3>1, OrderSets
  <2>4. QED
    BY <1>2, <2>1, <2>2, <2>3 DEF Orders
<1>3. QED
  BY <1>1, <1>2

LEMMA PolicyTakes ==
    ASSUME CountInv, queue \in Queues, PowerPolicyProcessEventInner
    PROVE  /\ queue' \in Queues /\ queue'["policy"] = Tail(queue["policy"]) /\ PolicyWaits
           /\ queue'["pnp"] = queue["pnp"] /\ queue'["power"] = queue["power"]
           /\ queue["policy"] # <<>> /\ queue["policy"] \in Seq(Events)
           /\ PnpStays /\ PowerStands /\ UNCHANGED <<device, irps>>
           /\ \/ PolicyStands /\ UNCHANGED at /\ Row("policy", PolicyRows) = {}
              \/ \E r \in PolicyRows :
                   /\ r[1] = at["policy"] /\ r[2] = Head(queue["policy"]) /\ at'["policy"] = r[3]
                   /\ PolicyWaits' <=> r[3] \in PolicyNoEntry
<1>1. DOMAIN at = Machines /\ Machines = {"pnp", "policy", "power"}
  BY DEF CountInv, Machines
<1>2. /\ queue' \in Queues /\ queue'["policy"] = Tail(queue["policy"])
      /\ queue'["pnp"] = queue["pnp"] /\ queue'["power"] = queue["power"]
      /\ queue["policy"] # <<>> /\ queue["policy"] \in Seq(Events)
  BY <1>1, EventTaken DEF PowerPolicyProcessEventInner
<1>3. PnpStays /\ PowerStands /\ PolicyWaits
  BY <1>1 DEF PowerPolicyProcessEventInner, EnterNewState, PnpStays, PowerStands, Powering,
      PolicyWaits, Takes
<1>4. ASSUME NEW r \in Row("policy", PolicyRows), EnterNewState("policy", r[3], PolicyNoEntry)
      PROVE  /\ r \in PolicyRows /\ r[1] = at["policy"] /\ r[2] = Head(queue["policy"])
             /\ at'["policy"] = r[3] /\ (PolicyWaits' <=> r[3] \in PolicyNoEntry)
  BY <1>1, <1>3, <1>4 DEF Row, EnterNewState, PolicyWaits
<1>5. CASE UNCHANGED <<at, entering>> /\ Row("policy", PolicyRows) = {}
  BY <1>2, <1>3, <1>5 DEF PowerPolicyProcessEventInner, PolicyStands
<1>6. QED
  BY <1>2, <1>3, <1>4, <1>5 DEF PowerPolicyProcessEventInner

(* An event it takes                                                       *)
LEMMA PolicyEventKeepsTurn ==
    ASSUME CountInv, queue \in Queues, PnpLockstep, PowerPolicyProcessEventInner
    PROVE  PnpLockstep'
<1> DEFINE q == queue["policy"]
           h == Head(queue["policy"])
           o == PnpOrderOf(at["pnp"])
<1>1. /\ q # <<>> /\ q \in Seq(Events) /\ queue'["policy"] = Tail(q) /\ queue'["pnp"] = queue["pnp"]
      /\ PnpStays /\ PolicyWaits
      /\ \/ PolicyStands /\ UNCHANGED at /\ Row("policy", PolicyRows) = {}
         \/ \E r \in PolicyRows : /\ r[1] = at["policy"] /\ r[2] = h /\ at'["policy"] = r[3]
                                  /\ PolicyWaits' <=> r[3] \in PolicyNoEntry
  BY PolicyTakes
<1>2. /\ h \notin Orders => Same(q, Tail(q), Orders)
      /\ h \in Orders /\ Lone(q, Orders) => Without(Tail(q), Orders)
      /\ Without(q, Orders) => h \notin Orders
      /\ \A x \in Orders : Sole(q, Orders, x) /\ h \in Orders => h = x
  BY <1>1, Shrinks
<1>3. Same(queue["pnp"], queue'["pnp"], Statuses) /\ at'["pnp"] = at["pnp"] /\ (PnpAsks' <=> PnpAsks)
  BY <1>1, SameReflexive DEF PnpStays, PnpAsks
<1>4. PnpAsks => o \in Orders
  BY PnpAskingStates DEF PnpAsks
<1>5. CASE h \notin Orders
  <2>1. OrdersStay(queue, queue')
    BY <1>1, <1>2, <1>3, <1>5 DEF OrdersStay
  <2>2. CASE PolicyStands
    BY <1>1, <2>1, <2>2, PnpLockstepFrame
  <2>3. ASSUME NEW r \in PolicyRows, r[1] = at["policy"], r[2] = h, at'["policy"] = r[3],
               PolicyWaits' <=> r[3] \in PolicyNoEntry
        PROVE  PnpLockstep'
    <3>1. /\ at["policy"] \in Starts \cup Runs \cup Stops
          /\ at["policy"] \in Runs => r[3] \in Runs
          /\ at["policy"] \in Starts => r[3] \in Starts \cup {"StartingFailed"}
          /\ at["policy"] \in Stops => r[3] \in Stops \cup Runs
      BY <1>5, <2>3, PolicyRowsFrom
    <3>2. CASE at["policy"] \in Runs
      BY <1>1, <2>1, <2>3, <3>1, <3>2, RunsOn
    <3>3. CASE at["policy"] \notin Runs
      <4>1. ~PnpActs
        <5>1. \A s : at["policy"] \notin PolicyAt(s)
          BY <3>1, <3>3, PolicyPlaceSets DEF PolicyAt
        <5>2. QED
          BY <5>1 DEF PnpActs, PolicyFits
      <4>2. ~PnpOrderQueued
        BY <1>4, <3>1, <3>3, PolicyPlaceSets, OrderSets DEF PnpOrderQueued, Orders
      <4>3. ~PolicyAnswered
        BY <3>1, <3>3, PolicyPlaceSets, OrderSets DEF PolicyAnswered
      <4>4. PolicyWorks
        BY <4>1, <4>2, <4>3 DEF PnpLockstep
      <4>5. o \in {"Start", "Stop", "SurpriseRemove", "Remove"} /\ at["policy"] \in DoesFor(o)
        BY <1>4, <4>4 DEF PolicyWorks, Orders
      <4>6. o # "Remove" /\ r[3] \in DoesFor(o)
        BY <3>1, <3>3, <4>5, PolicyPlaceSets, OrderSets
      <4>7. Without(queue'["policy"], Orders) /\ Without(queue'["pnp"], Statuses)
        BY <2>1, <4>4, SameMeans DEF OrdersStay, PolicyWorks
      <4>8. QED
        BY <1>3, <2>3, <4>4, <4>6, <4>7 DEF PolicyWorks, PnpLockstep
    <3>4. QED
      BY <3>2, <3>3
  <2>4. QED
    BY <1>1, <2>2, <2>3
<1>6. CASE h \in Orders
  <2>1. PnpOrderQueued
    BY <1>2, <1>6 DEF PnpLockstep, PnpActs, PolicyWorks, PolicyAnswered
  <2>2. /\ PnpAsks /\ o = h /\ Without(queue'["policy"], Orders) /\ Without(queue'["pnp"], Statuses)
        /\ at["policy"] \in ToldTo(o)
    BY <1>1, <1>2, <1>3, <1>4, <1>6, <2>1, SameMeans DEF PnpOrderQueued, Sole
  <2>3. at'["policy"] \in DoesFor(o) /\ (at'["policy"] = "StartingFailed" => PolicyWaits')
    <3>1. CASE PolicyStands
      <4>1. ToldTo(o) \subseteq DoesFor(o)
        BY <1>6, <2>2, OrderSets DEF Orders
      <4>2. QED
        BY <1>1, <2>2, <3>1, <4>1 DEF PolicyStands, PolicyWaits
    <3>2. ASSUME NEW r \in PolicyRows, r[1] = at["policy"], r[2] = h, at'["policy"] = r[3]
          PROVE  at'["policy"] \in DoesFor(o) /\ at'["policy"] # "StartingFailed"
      BY <1>6, <2>2, <3>2, PolicyRowsFrom
    <3>3. QED
      BY <1>1, <3>1, <3>2
  <2>4. QED
    BY <1>3, <2>2, <2>3 DEF PolicyWorks, PnpLockstep
<1>7. QED
  BY <1>5, <1>6

(* before anything *)
LEMMA PnpStepInit == Init => PnpLockstep
<1> SUFFICES ASSUME Init
             PROVE  PnpLockstep
  OBVIOUS
<1>1. /\ queue["policy"] = <<>> /\ queue["pnp"] = <<>> /\ entering = {}
      /\ at["pnp"] = "Init" /\ at["policy"] = "ObjectCreated"
  BY DEF Init
<1>2. Without(queue["policy"], Orders) /\ Without(queue["pnp"], Statuses)
  BY <1>1 DEF Without, In
<1>3. ~PnpAsks /\ PolicyWaits
  BY <1>1 DEF PnpAsks, PnpOrderOf, PolicyWaits
<1>4. "Init" \in NewStates
  BY DEF NewStates
<1>5. PolicyFits(at["pnp"])
  BY <1>1, <1>3, <1>4, PlacesOf DEF PolicyFits
<1>6. QED
  BY <1>2, <1>3, <1>5 DEF PnpActs, PnpLockstep

(* every step *)
LEMMA PnpStepStep == CountInv /\ StageInv /\ StepInv /\ PnpLockstep /\ [Next]_vars => PnpLockstep'
<1> SUFFICES ASSUME CountInv, StageInv, queue \in Queues, Lockstep, PnpLockstep, [Next]_vars
             PROVE  PnpLockstep'
  BY DEF StepInv
<1>1. ASSUME AsideQuiet
      PROVE  PnpLockstep'
  <2>1. PolicyStands /\ PnpStays
    BY <1>1 DEF AsideQuiet, PolicyStands, PnpStays, CountInv
  <2>2. QED
    BY <1>1, <2>1, PnpLockstepFrame DEF AsideQuiet
<1>2. CASE UNCHANGED vars
  BY <1>1, <1>2, CalmReflexive, CalmAside DEF vars
<1>3. CASE PowerNext
  BY <1>3, PowerKeepsStep, PnpLockstepFrame DEF PowerQuiet
<1>4. CASE PowerPolicyNext
  BY <1>4, PolicyEventKeepsTurn, PolicyEntryKeepsTurn, PolicyMovesAll DEF PowerPolicyNext
<1>5. CASE PnpNext
  BY <1>5, PnpEventKeepsTurn, PnpEntryKeepsTurn, PnpMovesAll DEF PnpNext
<1>6. CASE SystemNext
  BY <1>1, <1>6, SystemKeepsStep
<1>7. CASE UserNext
  BY <1>1, <1>7, UserKeepsStep
<1>8. QED
  BY <1>2, <1>3, <1>4, <1>5, <1>6, <1>7 DEF Next

-----------------------------------------------------------------------------
(***************************************************************************)
(* Self managed I/O, whose machine the power machine drives in D0 and the  *)
(* PnP machine at the end                                                  *)
(***************************************************************************)
(* It may be started, or restarted                                         *)
Startable == {"Created", "Stopped"}

(* Its state before the entry function of a state of the power machine,    *)
(* and while the machine waits in it; f tells that suspending it failed on *)
(* the way to Dx (ioCallbackFailure).                                      *)
SmioEntering(s, f) ==
  IF f THEN IF s \in {"NotifyingD0ExitToWakeInterrupts", "GotoDxIoStopped"} THEN {"Failed"} ELSE {}
  ELSE
  CASE s \in {"StartingCheckDeviceType", "D0Starting", "D0StartingConnectInterrupt",
              "D0StartingDmaEnable", "D0StartingPostHardwareEnabled",
              "D0StartingStartSelfManagedIo"} -> Startable
    [] s = "InitialSelfManagedIoFailedStarted" -> {"InitFailed", "Failed"}
    [] s \in {"InitialSelfManagedIoFailed", "InitialPostHardwareEnabledFailed",
              "InitialDmaEnableFailed", "InitialConnectInterruptFailed",
              "InitialPowerUpFailedPowerDown", "InitialPowerUpFailedDerefParent",
              "InitialPowerUpFailed"} -> {"Created", "InitFailed", "Stopped", "Failed"}
    [] s \in {"CheckDeviceType", "Waking", "NotifyingD0EntryToWakeInterrupts",
              "WakingConnectInterrupt", "WakingDmaEnable", "WakingPostHardwareEnabled",
              "StartSelfManagedIo", "UpFailedPowerDown", "UpFailedDerefParent",
              "NotifyingD0ExitToWakeInterrupts", "GotoDxIoStopped",
              "GotoDxStoppedDisableInterrupt", "GotoDxStopped"} -> {"Stopped"}
    [] s = "StartSelfManagedIoFailedStarted" -> {"Failed"}
    [] s \in {"StartSelfManagedIoFailed", "WakingPostHardwareEnabledFailed",
              "WakingDmaEnableFailed", "WakingConnectInterruptFailed",
              "ReportPowerUpFailedDerefParent", "ReportPowerUpFailed", "PowerFailedPowerDown",
              "FinalPowerDownFailed", "GotoDxFailed", "ReportPowerDownFailed"} ->
         {"Stopped", "Failed"}
    [] s \in {"DecideD0State", "D0", "GotoD3Stopped", "GotoDx"} -> {"Started"}
    [] OTHER -> {}

SmioWaiting(s, f) ==
  IF f THEN IF s = "GotoDx" THEN {"Failed"} ELSE {}
  ELSE
  CASE s = "ObjectCreated" -> {"Created", "Flushed", "Final"}
    [] s = "Stopped" -> SelfManaged!SelfManagedIoStates \ {"Started"}
    [] s = "D0" -> {"Started"}
    [] s \in {"GotoDx", "Dx", "WakingPostHardwareEnabled"} -> {"Stopped"}
    [] s \in Broken -> {"Stopped", "Failed"}
    [] OTHER -> {}

SmioAfter(s, next, f) ==
  IF next = Null THEN SmioWaiting(s, f)
  ELSE IF next \in PowerNoEntry THEN SmioWaiting(next, f) ELSE SmioEntering(next, f)

SmioFits ==
  /\ "smio" \notin device.misused
  /\ IF Powering THEN device.smio \in SmioEntering(at["power"], device.ioCallbackFailure)
     ELSE device.smio \in SmioWaiting(at["power"], device.ioCallbackFailure)

Good == device.smio \in Startable

(* Where the device failed, the power policy machine remembers it until    *)
(* the PnP machine is told;                                                *)
Remembering ==
  \/ at["policy"] \in {"StoppingCancelTimer", "StoppingWaitForIdleTimeout", "Stopping"}
  \/ at["policy"] = "DevicePowerRequestFailed" /\ PolicyWaits

Failed == Broken \cup {"PowerFailedPowerDown"}

FailureRemembered == Remembering /\ at["power"] \in Failed => device.powerFailed

StopsWell ==
  \/ at["policy"] = "Stopping" /\ In(queue["policy"], "PowerDown")
  \/ at["policy"] = "StoppingSendStatus"

FailureReported == StopsWell => Good \/ device.powerFailed

(* otherwise it was stopped, and may be started again.                     *)
StartsNext ==
  \/ In(queue["pnp"], "PwrPolStopped")
  \/ at["pnp"] \in {"Stopped", "StoppedWaitForStartCompletion", "StartingFromStopped"}
  \/ at["pnp"] = "Restarting" /\ "pnp" \in entering
  \/ In(queue["policy"], "Start")

StartsNow ==
  at["policy"] \in {"Starting", "Restarting"} /\ ("policy" \in entering \/ queue["power"] # <<>>)

(* Self managed I/O is new before the first start, flushed before the      *)
(* power policy machine is removed, and cleaned up at the very end.        *)
New == at["pnp"] \in NewStates /\ (at["pnp"] = "HardwareAvailable" => "pnp" \in entering)

Over ==
  \/ at["pnp"] \in RemovedStates \ {"Final"}
  \/ at["pnp"] \in {"RemovingDisableInterfaces", "Failed"} /\ "pnp" \notin entering

SmioKnown ==
  /\ StartsNext \/ StartsNow => Good
  /\ New => device.smio = "Created"
  /\ Over => device.smio \in {"Created", "Flushed"}
  /\ device.smio = "Final" => at["pnp"] = "Final"

SmioInv == SmioFits /\ FailureRemembered /\ FailureReported /\ SmioKnown

(* what a step calls the driver for, in the terms of DriverCallbacks       *)
CalledUp ==
  \E x \in {{"Hardware"}, {"D0Entry"}, {"Resources"}, {"Resources", "PostInterrupts"}, {"Dma"},
            {"PostHardware"}, {"Io"}} :
    /\ device'.up = device.up \cup x
    /\ \/ SelfManagedIo' = SelfManagedIo
       \/ /\ x = {"Io"} /\ SmioEntering(at["power"], FALSE) \subseteq Startable
          /\ SelfManagedIo' \in {"running", "suspended"}

CalledDown ==
  \E x \in SUBSET InD0 :
    /\ device'.up = device.up \ x
    /\ SelfManagedIo' = IF SelfManagedIo = "running" THEN "suspended" ELSE SelfManagedIo

NotCalled == device'.up = device.up /\ SelfManagedIo' = SelfManagedIo

(* The implicit power down, to Stopped                                     *)
Downs == {"GotoD3Stopped", "FinalPowerDownFailed", "PowerFailedPowerDown",
          "GotoDxStoppedDisableInterrupt", "GotoDxStopped"}

(* What an entry function of the power machine does to self managed I/O    *)
PowerManages ==
  /\ SmioFits' /\ device'.smio # "Final"
  /\ device'.powerFailed = device.powerFailed
  /\ CalledUp \/ CalledDown \/ NotCalled
  /\ at["power"] \in DZero => device' = device /\ queue' = queue /\ at'["power"] \in DZero
  /\ at["power"] \in Downs =>
       /\ at'["power"] \notin Failed
       /\ In(queue'["policy"], "PowerDown") => Good' \/ at["power"] = "PowerFailedPowerDown"

LEMMA StagesKeepSmio ==
    ASSUME NEW d \in Device, NEW s \in SUBSET Stages,
           NEW e \in {d, Begin(d, s), End(d, s), SetInternalFailure(d)}
    PROVE  /\ FlagsStay(d, e) /\ e.smio = d.smio
           /\ "smio" \in e.misused <=> "smio" \in d.misused
           /\ e = Begin(d, s) => e.up = d.up \cup s
           /\ e = End(d, s) => e.up = d.up \ s
           /\ e = SetInternalFailure(d) => e.up = d.up
<1>1. FlagsStay(d, e) /\ e.smio = d.smio
  BY CallbacksKeepFlags
<1>2. "smio" \in e.misused <=> "smio" \in d.misused
  BY DEF Begin, End, SetInternalFailure, Device
<1>3. /\ Begin(d, s).up = d.up \cup s /\ End(d, s).up = d.up \ s
      /\ SetInternalFailure(d).up = d.up
  BY DEF Begin, End, SetInternalFailure, Device
<1>4. QED
  BY <1>1, <1>2, <1>3

(* Where the machine is about to enter a state                             *)
LEMMA PowerFinds ==
    ASSUME CountInv, StageInv, SmioFits, NEW s, NEW next, NEW posts, PowerEntry(s, next, posts)
    PROVE  /\ device.smio \in SmioEntering(s, device.ioCallbackFailure)
           /\ device.ioCallbackFailure \in BOOLEAN
           /\ at["power"] = s /\ at'["power"] = (IF next = Null THEN s ELSE next)
           /\ /\ "smio" \notin device'.misused
              /\ device'.smio \in SmioAfter(s, next, device'.ioCallbackFailure)
              => SmioFits'
<1>1. /\ Powering /\ at["power"] = s /\ at'["power"] = (IF next = Null THEN s ELSE next)
      /\ Powering' <=> (next # Null /\ next \notin PowerNoEntry)
  BY PowerSteps
<1>2. QED
  BY <1>1 DEF SmioFits, SmioAfter, StageInv, Device

(* from one step to the next, where self managed I/O has no part in it     *)
Passes(s, next) ==
  /\ s \notin Downs \cup DZero
  /\ \A f \in BOOLEAN : SmioEntering(s, f) \subseteq SmioAfter(s, next, f) \ {"Final"}

LEMMA PowerManagesNot ==
    ASSUME CountInv, StageInv, SmioFits, NEW s, NEW next, NEW posts, PowerEntry(s, next, posts),
           NEW x \in SUBSET Stages,
           device' \in {device, Begin(device, x), End(device, x), SetInternalFailure(device)},
           Passes(s, next), CalledUp \/ CalledDown \/ NotCalled
    PROVE  PowerManages
<1>1. /\ FlagsStay(device, device') /\ device'.smio = device.smio
      /\ "smio" \in device'.misused <=> "smio" \in device.misused
  BY StagesKeepSmio DEF StageInv
<1>2. /\ device.smio \in SmioEntering(s, device.ioCallbackFailure)
      /\ device.ioCallbackFailure \in BOOLEAN
      /\ at["power"] = s /\ at'["power"] = (IF next = Null THEN s ELSE next)
      /\ /\ "smio" \notin device'.misused
         /\ device'.smio \in SmioAfter(s, next, device'.ioCallbackFailure)
         => SmioFits'
  BY PowerFinds
<1>3. device'.smio \in SmioAfter(s, next, device'.ioCallbackFailure) \ {"Final"}
  BY <1>1, <1>2 DEF Passes, FlagsStay
<1>4. "smio" \notin device'.misused
  BY <1>1 DEF SmioFits
<1>5. QED
  BY <1>1, <1>2, <1>3, <1>4 DEF PowerManages, FlagsStay, Passes

(* kinds of entry functions                                                *)
LEMMA PowerPassesManages ==
    ASSUME CountInv, StageInv, SmioFits, NEW s, NEW next, PowerPasses(s, next), Passes(s, next)
    PROVE  PowerManages
<1>1. NotCalled
  BY DEF PowerPasses, NotCalled, SelfManagedIo
<1>2. QED
  BY <1>1, PowerManagesNot, StageSets DEF PowerPasses

LEMMA BeginsUp ==
    ASSUME StageInv,
           NEW x \in {{"Hardware"}, {"D0Entry"}, {"Resources"}, {"Resources", "PostInterrupts"},
                      {"Dma"}, {"PostHardware"}, {"Io"}},
           device' = Begin(device, x)
    PROVE  CalledUp /\ x \in SUBSET Stages
<1>1. x \in SUBSET Stages
  BY StageSets
<1>2. device'.up = device.up \cup x /\ device'.smio = device.smio
  BY <1>1, StagesKeepSmio DEF StageInv
<1>3. QED
  BY <1>1, <1>2 DEF CalledUp, SelfManagedIo

LEMMA PowerBeginsManages ==
    ASSUME CountInv, StageInv, SmioFits, NEW s, NEW next, NEW posts, PowerEntry(s, next, posts),
           Passes(s, next),
           \/ device' = device
           \/ \E x \in {{"D0Entry"}, {"Resources"}, {"Resources", "PostInterrupts"},
                        {"Dma"}, {"PostHardware"}} : device' = Begin(device, x)
    PROVE  PowerManages
<1>1. CASE device' = device
  <2>1. NotCalled
    BY <1>1 DEF NotCalled, SelfManagedIo
  <2>2. QED
    BY <1>1, <2>1, PowerManagesNot, StageSets
<1>2. ASSUME NEW x \in {{"D0Entry"}, {"Resources"}, {"Resources", "PostInterrupts"},
                        {"Dma"}, {"PostHardware"}},
             device' = Begin(device, x)
      PROVE  PowerManages
  BY <1>2, BeginsUp, PowerManagesNot
<1>3. QED
  BY <1>1, <1>2

LEMMA CallD0EntryManages ==
    ASSUME CountInv, StageInv, SmioFits, NEW s, NEW ok, NEW undo, NEW failed,
           CallD0Entry(s, ok, undo, failed), Passes(s, ok), Passes(s, undo), Passes(s, failed)
    PROVE  PowerManages
BY PowerBeginsManages DEF CallD0Entry

LEMMA ConnectInterruptManages ==
    ASSUME CountInv, StageInv, SmioFits, NEW s, NEW ok, NEW failed,
           ConnectInterrupt(s, ok, failed), Passes(s, ok), Passes(s, failed)
    PROVE  PowerManages
BY PowerBeginsManages DEF ConnectInterrupt

LEMMA DmaEnableManages ==
    ASSUME CountInv, StageInv, SmioFits, NEW s, NEW ok, NEW failed,
           DmaEnable(s, ok, failed), Passes(s, ok), Passes(s, failed)
    PROVE  PowerManages
BY PowerBeginsManages DEF DmaEnable

LEMMA PostHardwareEnabledManages ==
    ASSUME CountInv, StageInv, SmioFits, NEW s, NEW ok, NEW undo, NEW failed, NEW posts,
           PostHardwareEnabled(s, ok, undo, failed, posts),
           Passes(s, ok), Passes(s, undo), Passes(s, failed)
    PROVE  PowerManages
BY PowerBeginsManages DEF PostHardwareEnabled

LEMMA PowerUndoesManages ==
    ASSUME CountInv, StageInv, SmioFits, NEW s, NEW stages \in SUBSET InD0, NEW next,
           PowerUndoes(s, stages, next), Passes(s, next),
           \A f \in BOOLEAN : "Started" \notin SmioEntering(s, f)
    PROVE  PowerManages
<1>1. PowerEntry(s, next, <<>>) /\ device' = End(device, stages) /\ stages \in SUBSET Stages
  BY StageNames DEF PowerUndoes
<1>2. device'.up = device.up \ stages /\ device'.smio = device.smio
  BY <1>1, StagesKeepSmio DEF StageInv
<1>3. device.smio # "Started"
  BY <1>1, PowerFinds
<1>4. CalledDown
  BY <1>2, <1>3 DEF CalledDown, SelfManagedIo
<1>5. QED
  BY <1>1, <1>4, PowerManagesNot

LEMMA PowerUpFailureManages ==
    ASSUME CountInv, StageInv, SmioFits, NEW s, NEW next, PowerSendPowerUpFailureEvent(s, next),
           Passes(s, next)
    PROVE  PowerManages
<1>1. device' = SetInternalFailure(device) /\ device'.up = device.up /\ device'.smio = device.smio
  BY StagesKeepSmio, StageSets DEF PowerSendPowerUpFailureEvent, StageInv
<1>2. NotCalled
  BY <1>1 DEF NotCalled, SelfManagedIo
<1>3. QED
  BY <1>1, <1>2, PowerManagesNot, StageSets DEF PowerSendPowerUpFailureEvent

(* in D0 there is nothing to do                                            *)
LEMMA PowerDZeroManages ==
    ASSUME CountInv, StageInv, SmioFits, NEW s \in DZero, NEW next \in {"D0", Null},
           PowerPasses(s, next), next = Null => s = "D0"
    PROVE  PowerManages
<1>1. PowerEntry(s, next, <<>>) /\ device' = device
  BY DEF PowerPasses
<1>2. /\ device.smio \in SmioEntering(s, device.ioCallbackFailure)
      /\ device.ioCallbackFailure \in BOOLEAN
      /\ at["power"] = s /\ at'["power"] = (IF next = Null THEN s ELSE next)
      /\ /\ "smio" \notin device'.misused
         /\ device'.smio \in SmioAfter(s, next, device'.ioCallbackFailure)
         => SmioFits'
  BY <1>1, PowerFinds
<1>3. s \notin Downs /\ (next # Null => next \in DZero)
  BY DEF Downs, DZero
<1>4. \A f \in BOOLEAN :
        SmioEntering(s, f) \subseteq SmioAfter(s, next, f) \ {"Final"}
  <2>1. \A x \in DZero : SmioEntering(x, TRUE) = {} /\ SmioEntering(x, FALSE) = {"Started"}
    BY DEF DZero, SmioEntering
  <2>2. "Started" \in SmioWaiting("D0", FALSE) /\ \A x \in DZero : x \notin PowerNoEntry
    BY DEF SmioWaiting, DZero, PowerNoEntry, Broken
  <2>3. QED
    BY <1>3, <2>1, <2>2 DEF SmioAfter, DZero
<1>5. device'.smio \in SmioAfter(s, next, device'.ioCallbackFailure) \ {"Final"}
  BY <1>1, <1>2, <1>4
<1>6. queue' = queue
  BY <1>1, PowerSteps, PostNone
<1>7. "smio" \notin device'.misused
  BY <1>1 DEF SmioFits
<1>8. QED
  BY <1>1, <1>2, <1>3, <1>5, <1>6, <1>7 DEF PowerManages, NotCalled, SelfManagedIo

(* What the self managed I/O machine does with an event it lists           *)
LEMMA SmioOutcomes ==
    ASSUME NEW m \in SelfManaged!SelfManagedIoStates, NEW e, NEW o \in SelfManaged!ProcessEvent(m, e)
    PROVE  /\ e = "Start" /\ m \in Startable =>
                /\ SelfManaged!Lists(m, e) /\ o.state \in {"Created", "InitFailed", "Started", "Failed"}
                /\ o.state = "Started" <=> o.ok
                /\ o.state = "Created" => m = "Created" /\ ~o.client
                /\ m = "Stopped" /\ ~o.ok => o.state = "Failed"
           /\ e = "Suspend" /\ m \in {"InitFailed", "Failed"} => SelfManaged!Lists(m, e) /\ o.state = m
           /\ e = "Suspend" /\ m = "Started" =>
                /\ SelfManaged!Lists(m, e) /\ o.state = IF o.ok THEN "Stopped" ELSE "Failed"
           /\ e = "Flush" /\ m \notin {"Started", "Final"} =>
                SelfManaged!Lists(m, e) /\ o.state = IF m = "Created" THEN m ELSE "Flushed"
           /\ e = "Cleanup" /\ m \in {"Created", "Flushed"} =>
                SelfManaged!Lists(m, e) /\ o.state = "Final"
<1>1. e = "Start" /\ m \in Startable =>
        /\ SelfManaged!Lists(m, e) /\ o.state \in {"Created", "InitFailed", "Started", "Failed"}
        /\ o.state = "Started" <=> o.ok
        /\ o.state = "Created" => m = "Created" /\ ~o.client
        /\ m = "Stopped" /\ ~o.ok => o.state = "Failed"
  BY DEF SelfManaged!ProcessEvent, SelfManaged!Init, SelfManaged!Restarting, SelfManaged!Succeeds,
         SelfManaged!Outcome, SelfManaged!Lists, Startable
<1>2. e = "Suspend" =>
        /\ m \in {"InitFailed", "Failed"} => SelfManaged!Lists(m, e) /\ o.state = m
        /\ m = "Started" => SelfManaged!Lists(m, e) /\ o.state = IF o.ok THEN "Stopped" ELSE "Failed"
  BY DEF SelfManaged!ProcessEvent, SelfManaged!Suspending, SelfManaged!Succeeds,
         SelfManaged!Outcome, SelfManaged!Lists
<1>3. e = "Flush" /\ m \notin {"Started", "Final"} =>
        SelfManaged!Lists(m, e) /\ o.state = IF m = "Created" THEN m ELSE "Flushed"
  BY DEF SelfManaged!ProcessEvent, SelfManaged!Succeeds, SelfManaged!Outcome, SelfManaged!Lists,
         SelfManaged!SelfManagedIoStates
<1>4. e = "Cleanup" /\ m \in {"Created", "Flushed"} => SelfManaged!Lists(m, e) /\ o.state = "Final"
  BY DEF SelfManaged!ProcessEvent, SelfManaged!Succeeds, SelfManaged!Outcome, SelfManaged!Lists
<1>5. QED
  BY <1>1, <1>2, <1>3, <1>4

LEMMA SmioBecomes ==
    ASSUME NEW d \in Device, NEW e, NEW o \in SelfManaged!ProcessEvent(d.smio, e),
           SelfManaged!Lists(d.smio, e)
    PROVE  LET b == SelfManagedBecomes(d, e, o)
           IN  /\ b \in Device /\ FlagsStay(d, b) /\ b.smio = o.state /\ b.up = d.up
               /\ "smio" \in b.misused <=> "smio" \in d.misused
<1>1. SelfManagedBecomes(d, e, o).misused = d.misused
  BY DEF SelfManagedBecomes, Device
<1>2. QED
  BY <1>1, SelfManagesKeepsFlags, SelfManages

(* Starting it                                                             *)
LEMMA StartIoManages ==
    ASSUME CountInv, StageInv, SmioFits, NEW s, NEW ok, NEW undo, NEW failed, NEW released,
           StartIo(s, ok, undo, failed, released), s \notin Downs \cup DZero,
           SmioEntering(s, TRUE) = {}, SmioEntering(s, FALSE) \subseteq Startable,
           "Started" \in SmioAfter(s, ok, FALSE),
           "Failed" \in SmioAfter(s, undo, FALSE) \cap SmioAfter(s, failed, FALSE),
           "Created" \in SmioEntering(s, FALSE) =>
             /\ "InitFailed" \in SmioAfter(s, undo, FALSE) \cap SmioAfter(s, failed, FALSE)
             /\ "Created" \in SmioAfter(s, failed, FALSE)
    PROVE  PowerManages
<1> DEFINE d == Begin(device, {"Io"})
<1>1. /\ d \in Device /\ FlagsStay(device, d) /\ d.smio = device.smio /\ d.up = device.up \cup {"Io"}
      /\ "smio" \in d.misused <=> "smio" \in device.misused
  BY CallbacksKeepFlags, StagesKeepSmio, StageSets DEF StageInv
<1>2. PICK o \in SelfManaged!ProcessEvent(d.smio, "Start"), next \in {ok, undo, failed} :
        /\ device' = SelfManagedBecomes(d, "Start", o)
        /\ \E posts : PowerEntry(s, next, posts)
        /\ IF o.ok THEN next = ok ELSE next = IF o.client THEN undo ELSE failed
  BY <1>1 DEF StartIo, PowerSendPowerUpEvents
<1> HIDE DEF d
<1>3. /\ device.smio \in SmioEntering(s, device.ioCallbackFailure)
      /\ device.ioCallbackFailure \in BOOLEAN /\ at["power"] = s
      /\ /\ "smio" \notin device'.misused
         /\ device'.smio \in SmioAfter(s, next, device'.ioCallbackFailure)
         => SmioFits'
  BY <1>2, PowerFinds
<1>4. /\ device.ioCallbackFailure = FALSE /\ device.smio \in SmioEntering(s, FALSE)
      /\ device.smio \in Startable /\ device.smio \in SelfManaged!SelfManagedIoStates
  BY <1>3 DEF Startable, SelfManaged!SelfManagedIoStates
<1>5. /\ SelfManaged!Lists(d.smio, "Start") /\ o.state \in {"Created", "InitFailed", "Started", "Failed"}
      /\ o.state = "Started" <=> o.ok
      /\ o.state = "Created" => device.smio = "Created" /\ ~o.client
      /\ device.smio = "Stopped" /\ ~o.ok => o.state = "Failed"
  BY <1>1, <1>2, <1>4, SmioOutcomes
<1>6. /\ FlagsStay(device, device') /\ device'.smio = o.state /\ device'.up = device.up \cup {"Io"}
      /\ "smio" \notin device'.misused
  BY <1>1, <1>2, <1>5, SmioBecomes DEF FlagsStay, SmioFits
<1>7. device'.ioCallbackFailure = device.ioCallbackFailure
  BY <1>6 DEF FlagsStay
<1>8. device'.smio \in SmioAfter(s, next, device'.ioCallbackFailure)
  BY <1>2, <1>3, <1>4, <1>5, <1>6, <1>7 DEF Startable
<1>9. CalledUp
  BY <1>3, <1>4, <1>5, <1>6 DEF CalledUp, SelfManagedIo, Startable
<1>10. QED
  BY <1>3, <1>5, <1>6, <1>8, <1>9 DEF PowerManages, FlagsStay

(* and suspending it, after a start that failed, and before the power down *)
LEMMA SuspendsIgnoredManages ==
    ASSUME CountInv, StageInv, SmioFits, NEW s, NEW next, SuspendsIgnored(s, next),
           s \notin Downs \cup DZero,
           \A f \in BOOLEAN :
             SmioEntering(s, f) \subseteq {"InitFailed", "Failed"} \cap SmioAfter(s, next, f)
    PROVE  PowerManages
<1>1. PICK o \in SelfManaged!ProcessEvent(device.smio, "Suspend") :
        device' = SelfManagedBecomes(device, "Suspend", o)
  BY DEF SuspendsIgnored
<1>2. /\ device.smio \in SmioEntering(s, device.ioCallbackFailure)
      /\ device.ioCallbackFailure \in BOOLEAN /\ at["power"] = s
      /\ /\ "smio" \notin device'.misused
         /\ device'.smio \in SmioAfter(s, next, device'.ioCallbackFailure)
         => SmioFits'
  BY PowerFinds DEF SuspendsIgnored
<1>3. device.smio \in {"InitFailed", "Failed"} /\ device.smio \in SelfManaged!SelfManagedIoStates
  BY <1>2 DEF SelfManaged!SelfManagedIoStates
<1>4. SelfManaged!Lists(device.smio, "Suspend") /\ o.state = device.smio
  BY <1>1, <1>3, SmioOutcomes
<1>5. /\ FlagsStay(device, device') /\ device'.smio = device.smio /\ device'.up = device.up
      /\ "smio" \notin device'.misused
  BY <1>1, <1>4, SmioBecomes DEF SmioFits, StageInv
<1>6. NotCalled
  BY <1>5 DEF NotCalled, SelfManagedIo
<1>7. QED
  BY <1>2, <1>3, <1>5, <1>6 DEF PowerManages, FlagsStay

LEMMA SuspendsFor ==
    ASSUME StageInv, NEW o \in SelfManaged!ProcessEvent(device.smio, "Suspend"),
           NEW x \in SUBSET InD0, device.smio = "Started", "smio" \notin device.misused
    PROVE  LET d == End(SelfManagedBecomes(device, "Suspend", o), x)
           IN  /\ d \in Device /\ FlagsStay(device, d) /\ d.smio = IF o.ok THEN "Stopped" ELSE "Failed"
               /\ d.up = device.up \ x /\ "smio" \notin d.misused
<1> DEFINE b == SelfManagedBecomes(device, "Suspend", o)
<1>1. device.smio \in SelfManaged!SelfManagedIoStates
  BY DEF SelfManaged!SelfManagedIoStates
<1>2. SelfManaged!Lists(device.smio, "Suspend") /\ o.state = IF o.ok THEN "Stopped" ELSE "Failed"
  BY <1>1, SmioOutcomes
<1>3. /\ b \in Device /\ FlagsStay(device, b) /\ b.smio = o.state /\ b.up = device.up
      /\ "smio" \notin b.misused
  BY <1>2, SmioBecomes DEF StageInv
<1> HIDE DEF b
<1>4. x \in SUBSET Stages
  BY StageNames
<1>5. /\ End(b, x) \in Device /\ FlagsStay(b, End(b, x)) /\ End(b, x).smio = b.smio
      /\ End(b, x).up = b.up \ x /\ "smio" \notin End(b, x).misused
  BY <1>3, <1>4, StagesKeepSmio, CallbacksKeepFlags
<1>6. QED
  BY <1>2, <1>3, <1>5 DEF FlagsStay, b

(* The entry functions on the way down                                     *)
LEMMA PowerManagesIf ==
    ASSUME CountInv, StageInv, SmioFits, NEW s, NEW next, NEW posts, PowerEntry(s, next, posts),
           device'.powerFailed = device.powerFailed, "smio" \notin device'.misused,
           device'.smio \in SmioAfter(s, next, device'.ioCallbackFailure), device'.smio # "Final",
           CalledUp \/ CalledDown \/ NotCalled, s \notin DZero,
           s \in Downs => /\ next \notin Failed \cup {Null}
                          /\ \/ Good' \/ s = "PowerFailedPowerDown"
                             \/ ~In(queue'["policy"], "PowerDown")
    PROVE  PowerManages
BY PowerFinds DEF PowerManages

LEMMA OnlyAnswer ==
    ASSUME NEW t, NEW a, NEW b, a # b, b \in PwrPolPriorityEventsMask, a \in PwrPolPriorityEventsMask,
           Without(t, PwrPolPriorityEventsMask) \/ Sole(t, PwrPolPriorityEventsMask, a)
    PROVE  ~In(t, b)
BY DEF Without, Sole, Lone, In

LEMMA PowerGotoD3StoppedManages ==
    ASSUME CountInv, StageInv, SmioFits, Lockstep, PowerGotoD3Stopped
    PROVE  PowerManages
<1> DEFINE s == "GotoD3Stopped"
<1>1. PICK o \in SelfManaged!ProcessEvent(device.smio, "Suspend"), failed \in BOOLEAN :
        /\ ~o.ok => failed
        /\ \/ failed /\ PowerEntry(s, "FinalPowerDownFailed", <<>>)
           \/ ~failed /\ \E posts : PowerEntry(s, "Stopped", posts)
        /\ device' = End(SelfManagedBecomes(device, "Suspend", o), InD0)
  BY DEF PowerGotoD3Stopped, ImplicitPowerDown, PowerSendPowerDownEvents
<1>2. /\ device.smio \in SmioEntering(s, device.ioCallbackFailure) /\ at["power"] = s
      /\ device.ioCallbackFailure \in BOOLEAN
  BY <1>1, PowerFinds
<1>3. device.smio = "Started" /\ device.ioCallbackFailure = FALSE
  BY <1>2 DEF SmioEntering
<1>4. /\ FlagsStay(device, device') /\ device'.smio = (IF o.ok THEN "Stopped" ELSE "Failed")
      /\ device'.up = device.up \ InD0 /\ "smio" \notin device'.misused
  BY <1>1, <1>3, SuspendsFor DEF SmioFits
<1>5. device'.ioCallbackFailure = FALSE /\ device'.powerFailed = device.powerFailed
  BY <1>3, <1>4 DEF FlagsStay
<1>6. CalledDown
  BY <1>3, <1>4 DEF CalledDown, SelfManagedIo
<1>7. s \notin DZero
  BY DEF DZero
<1>8. CASE failed /\ PowerEntry(s, "FinalPowerDownFailed", <<>>)
  <2>1. queue' = queue /\ Powering
    BY <1>8, PowerSteps, PostNone
  <2>2. ~In(queue["policy"], "PowerDown")
    BY <1>2, <1>7, <2>1, PowerIsActing DEF PowerActs, NoAnswer, Without, PwrPolPriorityEventsMask
  <2>3. device'.smio \in SmioAfter(s, "FinalPowerDownFailed", FALSE)
    BY <1>4 DEF SmioAfter, SmioEntering, PowerNoEntry, Null
  <2>4. "FinalPowerDownFailed" \notin Failed \cup {Null}
    BY DEF Failed, Broken, Null
  <2>5. QED
    BY <1>4, <1>5, <1>6, <1>7, <1>8, <2>1, <2>2, <2>3, <2>4, PowerManagesIf
<1>9. ASSUME ~failed, NEW posts, PowerEntry(s, "Stopped", posts) PROVE PowerManages
  <2>1. device'.smio = "Stopped"
    BY <1>1, <1>4, <1>9
  <2>2. Good'
    BY <2>1 DEF Good, Startable
  <2>3. device'.smio \in SmioAfter(s, "Stopped", FALSE)
    BY <2>1 DEF SmioAfter, SmioWaiting, PowerNoEntry, Null, SelfManaged!SelfManagedIoStates
  <2>4. "Stopped" \notin Failed \cup {Null}
    BY DEF Failed, Broken, Null
  <2>5. QED
    BY <1>4, <1>5, <1>6, <1>7, <1>9, <2>1, <2>2, <2>3, <2>4, PowerManagesIf
<1>10. QED
  BY <1>1, <1>8, <1>9

LEMMA PowerFinalPowerDownFailedManages ==
    ASSUME CountInv, StageInv, queue \in Queues, SmioFits, Lockstep, PowerFinalPowerDownFailed
    PROVE  PowerManages
<1> DEFINE s == "FinalPowerDownFailed"
<1>1. /\ PowerEntry(s, "Stopped", <<<<"policy", "PowerDownFailed">>>>)
      /\ device' = SetInternalFailure(device)
  BY DEF PowerFinalPowerDownFailed
<1>2. /\ device.smio \in SmioEntering(s, device.ioCallbackFailure) /\ at["power"] = s /\ Powering
      /\ device.ioCallbackFailure \in BOOLEAN
      /\ queue' = PostAll(queue, <<<<"policy", "PowerDownFailed">>>>)
  BY <1>1, PowerFinds, PowerSteps
<1>3. device.smio \in {"Stopped", "Failed"} /\ device.ioCallbackFailure = FALSE
  BY <1>2 DEF SmioEntering
<1>4. /\ FlagsStay(device, device') /\ device'.smio = device.smio /\ device'.up = device.up
      /\ "smio" \notin device'.misused
  BY <1>1, StagesKeepSmio, StageSets DEF StageInv, SmioFits
<1>5. NotCalled
  BY <1>4 DEF NotCalled, SelfManagedIo
<1>6. s \notin DZero /\ "Stopped" \notin Failed \cup {Null}
  BY DEF DZero, Failed, Broken, Null
<1>7. ~In(queue'["policy"], "PowerDown")
  <2>1. Answers(queue, queue', "PowerDownFailed")
    <3>1. "PowerDownFailed" \in PwrPolPriorityEventsMask /\ "IoPresent" \in Events \ Statuses
      BY DEF PwrPolPriorityEventsMask, Events, Statuses
    <3>2. QED
      BY <1>2, <3>1, AnswerPosts
  <2>2. NoAnswer
    BY <1>2, <1>6, PowerIsActing DEF PowerActs
  <2>3. QED
    BY <2>1, <2>2, OnlyAnswer DEF Answers, Gets, NoAnswer, PwrPolPriorityEventsMask
<1>8. device'.smio \in SmioAfter(s, "Stopped", device'.ioCallbackFailure)
  BY <1>3, <1>4 DEF FlagsStay, SmioAfter, SmioWaiting, PowerNoEntry, Null, SelfManaged!SelfManagedIoStates
<1>9. QED
  BY <1>1, <1>3, <1>4, <1>5, <1>6, <1>7, <1>8, PowerManagesIf DEF FlagsStay

(* to Stopped with nothing left to do                                      *)
LEMMA PowerIsDownManages ==
    ASSUME CountInv, StageInv, SmioFits, NEW s, NEW next \in {"GotoDxStopped", "Stopped"}, NEW posts,
           PowerEntry(s, next, posts), device' = device,
           \/ s \in {"GotoDxStoppedDisableInterrupt", "GotoDxStopped"}
           \/ s = "PowerFailedPowerDown" /\ next = "Stopped"
    PROVE  PowerManages
<1>1. /\ device.smio \in SmioEntering(s, device.ioCallbackFailure)
      /\ device.ioCallbackFailure \in BOOLEAN
  BY PowerFinds
<1>2. /\ device.ioCallbackFailure = FALSE /\ device.smio \in {"Stopped", "Failed"}
      /\ s # "PowerFailedPowerDown" => device.smio = "Stopped"
  BY <1>1 DEF SmioEntering
<1>3. NotCalled
  BY DEF NotCalled, SelfManagedIo
<1>4. s \notin DZero /\ next \notin Failed \cup {Null}
  BY DEF DZero, Failed, Broken, Null
<1>5. s # "PowerFailedPowerDown" => Good'
  BY <1>2 DEF Good, Startable
<1>6. device.smio \in SmioAfter(s, next, FALSE)
  BY <1>2 DEF SmioAfter, SmioWaiting, SmioEntering, PowerNoEntry, Null, SelfManaged!SelfManagedIoStates
<1>7. QED
  BY <1>2, <1>3, <1>4, <1>5, <1>6, PowerManagesIf DEF SmioFits

(* and to Dx                                                               *)
LEMMA PowerGotoDNotZeroManages ==
    ASSUME CountInv, StageInv, SmioFits, PowerGotoDNotZero
    PROVE  PowerManages
<1>1. PICK posts : PowerEntry("GotoDx", Null, posts)
  BY DEF PowerGotoDNotZero
<1>2. PICK o \in SelfManaged!ProcessEvent(device.smio, "Suspend") :
        device' = [End(SelfManagedBecomes(device, "Suspend", o), {"Io"})
                   EXCEPT !.ioCallbackFailure = @ \/ ~o.ok]
  BY DEF PowerGotoDNotZero
<1>3. /\ device.smio \in SmioEntering("GotoDx", device.ioCallbackFailure)
      /\ device.ioCallbackFailure \in BOOLEAN
  BY <1>1, PowerFinds
<1>4. device.smio = "Started" /\ device.ioCallbackFailure = FALSE
  BY <1>3 DEF SmioEntering
<1> DEFINE d == End(SelfManagedBecomes(device, "Suspend", o), {"Io"})
<1>5. /\ d \in Device /\ FlagsStay(device, d) /\ d.smio = (IF o.ok THEN "Stopped" ELSE "Failed")
      /\ d.up = device.up \ {"Io"} /\ "smio" \notin d.misused
  <2>1. {"Io"} \in SUBSET InD0
    BY StageNames
  <2>2. QED
    BY <1>4, <2>1, SuspendsFor DEF SmioFits
<1>6. d.ioCallbackFailure = FALSE /\ d.powerFailed = device.powerFailed
  BY <1>4, <1>5 DEF FlagsStay
<1>7. o.ok \in BOOLEAN
  <2>1. o \in SelfManaged!Suspending
    BY <1>4 DEF SelfManaged!ProcessEvent
  <2>2. o.ok = TRUE \/ o.ok = FALSE
    BY <2>1 DEF SelfManaged!Suspending, SelfManaged!Succeeds, SelfManaged!Outcome
  <2>3. QED
    BY <2>2
<1>8. device' = [d EXCEPT !.ioCallbackFailure = ~o.ok]
  BY <1>2, <1>6, <1>7
<1> HIDE DEF d
<1>9. /\ device'.ioCallbackFailure = ~o.ok /\ device'.smio = (IF o.ok THEN "Stopped" ELSE "Failed")
      /\ device'.up = device.up \ {"Io"} /\ "smio" \notin device'.misused
      /\ device'.powerFailed = device.powerFailed
  BY <1>5, <1>6, <1>8 DEF Device
<1>10. CalledDown
  <2>1. {"Io"} \in SUBSET InD0
    BY StageNames
  <2>2. SelfManagedIo = "running" /\ SelfManagedIo' = "suspended"
    BY <1>4, <1>9 DEF SelfManagedIo
  <2>3. QED
    BY <1>9, <2>1, <2>2 DEF CalledDown
<1>11. device'.smio \in SmioAfter("GotoDx", Null, device'.ioCallbackFailure)
  BY <1>7, <1>9 DEF SmioAfter, SmioWaiting
<1>12. "GotoDx" \notin DZero \cup Downs
  BY DEF DZero, Downs
<1>13. QED
  BY <1>1, <1>9, <1>10, <1>11, <1>12, PowerManagesIf

LEMMA PowerGotoDNotZeroIoStoppedManages ==
    ASSUME CountInv, StageInv, SmioFits, PowerGotoDNotZeroIoStopped
    PROVE  PowerManages
<1> DEFINE s == "GotoDxIoStopped"
           down == [End(device, InD0 \ {"Io"}) EXCEPT !.ioCallbackFailure = FALSE]
<1>1. PICK next, posts :
        /\ PowerEntry(s, next, posts)
        /\ \/ next = "GotoDxFailed" /\ device' = [down EXCEPT !.powerDownFailure = TRUE]
           \/ next = "Dx" /\ device' = down /\ ~device.ioCallbackFailure
  BY DEF PowerGotoDNotZeroIoStopped, PowerSendPowerDownEvents
<1>2. /\ device.smio \in SmioEntering(s, device.ioCallbackFailure)
      /\ device.ioCallbackFailure \in BOOLEAN
  BY <1>1, PowerFinds
<1>3. /\ device.smio \in {"Stopped", "Failed"}
      /\ ~device.ioCallbackFailure => device.smio = "Stopped"
  BY <1>2 DEF SmioEntering
<1>4. /\ down.smio = device.smio /\ down.up = device.up \ (InD0 \ {"Io"})
      /\ "smio" \notin down.misused /\ down.ioCallbackFailure = FALSE
      /\ down.powerFailed = device.powerFailed /\ down \in Device
  <2> DEFINE e == End(device, InD0 \ {"Io"})
  <2>1. /\ e \in Device /\ FlagsStay(device, e) /\ e.smio = device.smio
        /\ "smio" \notin e.misused /\ e.up = device.up \ (InD0 \ {"Io"})
    BY StagesKeepSmio, CallbacksKeepFlags, StageSets DEF StageInv, SmioFits
  <2> HIDE DEF e
  <2>2. /\ [e EXCEPT !.ioCallbackFailure = FALSE] \in Device
        /\ [e EXCEPT !.ioCallbackFailure = FALSE].ioCallbackFailure = FALSE
        /\ [e EXCEPT !.ioCallbackFailure = FALSE].powerFailed = e.powerFailed
        /\ [e EXCEPT !.ioCallbackFailure = FALSE].smio = e.smio
        /\ [e EXCEPT !.ioCallbackFailure = FALSE].up = e.up
        /\ [e EXCEPT !.ioCallbackFailure = FALSE].misused = e.misused
    BY <2>1 DEF Device
  <2>3. QED
    BY <2>1, <2>2 DEF e, FlagsStay
<1> HIDE DEF down
<1>5. /\ device'.smio = device.smio /\ device'.up = device.up \ (InD0 \ {"Io"})
      /\ "smio" \notin device'.misused /\ device'.ioCallbackFailure = FALSE
      /\ device'.powerFailed = device.powerFailed
  BY <1>1, <1>4 DEF Device
<1>6. CalledDown
  <2>1. InD0 \ {"Io"} \in SUBSET InD0
    OBVIOUS
  <2>2. SelfManagedIo = "suspended" /\ SelfManagedIo' = "suspended"
    BY <1>3, <1>5 DEF SelfManagedIo
  <2>3. QED
    BY <1>5, <2>1, <2>2 DEF CalledDown
<1>7. device'.smio \in SmioAfter(s, next, FALSE)
  BY <1>1, <1>3, <1>5 DEF SmioAfter, SmioWaiting, SmioEntering, PowerNoEntry, Null
<1>8. s \notin DZero \cup Downs
  BY DEF DZero, Downs
<1>9. QED
  BY <1>1, <1>3, <1>5, <1>6, <1>7, <1>8, PowerManagesIf

LEMMA PowerReportPowerDownFailedManages ==
    ASSUME CountInv, StageInv, SmioFits, PowerReportPowerDownFailed
    PROVE  PowerManages
<1> DEFINE s == "ReportPowerDownFailed"
<1>1. PICK posts : PowerEntry(s, Null, posts)
  BY DEF PowerReportPowerDownFailed
<1>2. device' = SetInternalFailure(device)
  BY DEF PowerReportPowerDownFailed
<1>3. /\ FlagsStay(device, device') /\ device'.smio = device.smio /\ device'.up = device.up
      /\ "smio" \notin device'.misused
  BY <1>2, StagesKeepSmio, StageSets DEF StageInv, SmioFits
<1>4. NotCalled
  BY <1>3 DEF NotCalled, SelfManagedIo
<1>5. Passes(s, Null)
  BY DEF Passes, SmioAfter, SmioEntering, SmioWaiting, Downs, DZero, Broken
<1>6. QED
  BY <1>1, <1>2, <1>4, <1>5, PowerManagesNot, StageSets

(* Every entry function of the power machine manages it so                 *)
LEMMA PowerManagesAll ==
    ASSUME CountInv, StageInv, queue \in Queues, Lockstep, SmioFits, PowerEntersState
    PROVE  PowerManages
<1>1. CASE PowerStartingCheckDeviceType
  BY <1>1, PowerPassesManages DEF PowerStartingCheckDeviceType, Passes, SmioAfter,
     SmioEntering, SmioWaiting, Startable, Downs, DZero, Broken, PowerNoEntry, Null
<1>2. CASE PowerCheckDeviceType
  BY <1>2, PowerPassesManages DEF PowerCheckDeviceType, Passes, SmioAfter, SmioEntering,
     SmioWaiting, Startable, Downs, DZero, Broken, PowerNoEntry, Null
<1>3. CASE PowerD0Starting
  BY <1>3, CallD0EntryManages DEF PowerD0Starting, Passes, SmioAfter, SmioEntering,
     SmioWaiting, Startable, Downs, DZero, Broken, PowerNoEntry, Null
<1>4. CASE PowerWaking
  BY <1>4, CallD0EntryManages DEF PowerWaking, Passes, SmioAfter, SmioEntering,
     SmioWaiting, Startable, Downs, DZero, Broken, PowerNoEntry, Null
<1>5. CASE PowerNotifyingD0EntryToWakeInterrupts
  BY <1>5, PowerPassesManages DEF PowerNotifyingD0EntryToWakeInterrupts, Passes,
     SmioAfter, SmioEntering, SmioWaiting, Startable, Downs, DZero, Broken, PowerNoEntry,
     Null
<1>6. CASE PowerD0StartingConnectInterrupt
  BY <1>6, ConnectInterruptManages DEF PowerD0StartingConnectInterrupt, Passes, SmioAfter,
     SmioEntering, SmioWaiting, Startable, Downs, DZero, Broken, PowerNoEntry, Null
<1>7. CASE PowerWakingConnectInterrupt
  BY <1>7, ConnectInterruptManages DEF PowerWakingConnectInterrupt, Passes, SmioAfter,
     SmioEntering, SmioWaiting, Startable, Downs, DZero, Broken, PowerNoEntry, Null
<1>8. CASE PowerD0StartingDmaEnable
  BY <1>8, DmaEnableManages DEF PowerD0StartingDmaEnable, Passes, SmioAfter, SmioEntering,
     SmioWaiting, Startable, Downs, DZero, Broken, PowerNoEntry, Null
<1>9. CASE PowerWakingDmaEnable
  BY <1>9, DmaEnableManages DEF PowerWakingDmaEnable, Passes, SmioAfter, SmioEntering,
     SmioWaiting, Startable, Downs, DZero, Broken, PowerNoEntry, Null
<1>10. CASE PowerD0StartingPostHardwareEnabled
  BY <1>10, PostHardwareEnabledManages DEF PowerD0StartingPostHardwareEnabled, Passes,
     SmioAfter, SmioEntering, SmioWaiting, Startable, Downs, DZero, Broken, PowerNoEntry,
     Null
<1>11. CASE PowerWakingPostHardwareEnabled
  BY <1>11, PostHardwareEnabledManages DEF PowerWakingPostHardwareEnabled, Passes,
     SmioAfter, SmioEntering, SmioWaiting, Startable, Downs, DZero, Broken, PowerNoEntry,
     Null
<1>12. CASE PowerD0StartingStartSelfManagedIo
  BY <1>12, StartIoManages DEF PowerD0StartingStartSelfManagedIo, SmioAfter, SmioEntering,
     SmioWaiting, Startable, Downs, DZero, PowerNoEntry, Null,
     SelfManaged!SelfManagedIoStates
<1>13. CASE PowerStartSelfManagedIo
  BY <1>13, StartIoManages DEF PowerStartSelfManagedIo, SmioAfter, SmioEntering,
     SmioWaiting, Startable, Downs, DZero, PowerNoEntry, Null,
     SelfManaged!SelfManagedIoStates
<1>14. CASE PowerDecideD0State
  BY <1>14, PowerDZeroManages DEF PowerDecideD0State, DZero, Null
<1>15. CASE PowerDZero
  BY <1>15, PowerDZeroManages DEF PowerDZero, DZero, Null
<1>16. CASE PowerInitialSelfManagedIoFailedStarted
  BY <1>16, SuspendsIgnoredManages DEF PowerInitialSelfManagedIoFailedStarted, SmioAfter,
     SmioEntering, SmioWaiting, Startable, Downs, DZero, PowerNoEntry, Null,
     SelfManaged!SelfManagedIoStates
<1>17. CASE PowerStartSelfManagedIoFailedStarted
  BY <1>17, SuspendsIgnoredManages DEF PowerStartSelfManagedIoFailedStarted, SmioAfter,
     SmioEntering, SmioWaiting, Startable, Downs, DZero, PowerNoEntry, Null,
     SelfManaged!SelfManagedIoStates
<1>18. CASE PowerInitialSelfManagedIoFailed
  BY <1>18, PowerUndoesManages, StageNames DEF PowerInitialSelfManagedIoFailed, Passes,
     SmioAfter, SmioEntering, SmioWaiting, Startable, Downs, DZero, Broken, PowerNoEntry,
     Null
<1>19. CASE PowerStartSelfManagedIoFailed
  BY <1>19, PowerUndoesManages, StageNames DEF PowerStartSelfManagedIoFailed, Passes,
     SmioAfter, SmioEntering, SmioWaiting, Startable, Downs, DZero, Broken, PowerNoEntry,
     Null
<1>20. CASE PowerInitialPostHardwareEnabledFailed
  BY <1>20, PowerUndoesManages, StageNames DEF PowerInitialPostHardwareEnabledFailed,
     Passes, SmioAfter, SmioEntering, SmioWaiting, Startable, Downs, DZero, Broken,
     PowerNoEntry, Null
<1>21. CASE PowerWakingPostHardwareEnabledFailed
  BY <1>21, PowerUndoesManages, StageNames DEF PowerWakingPostHardwareEnabledFailed,
     Passes, SmioAfter, SmioEntering, SmioWaiting, Startable, Downs, DZero, Broken,
     PowerNoEntry, Null
<1>22. CASE PowerInitialDmaEnableFailed
  BY <1>22, PowerUndoesManages, StageNames DEF PowerInitialDmaEnableFailed, Passes,
     SmioAfter, SmioEntering, SmioWaiting, Startable, Downs, DZero, Broken, PowerNoEntry,
     Null
<1>23. CASE PowerWakingDmaEnableFailed
  BY <1>23, PowerUndoesManages, StageNames DEF PowerWakingDmaEnableFailed, Passes,
     SmioAfter, SmioEntering, SmioWaiting, Startable, Downs, DZero, Broken, PowerNoEntry,
     Null
<1>24. CASE PowerInitialConnectInterruptFailed
  BY <1>24, PowerUndoesManages, StageNames DEF PowerInitialConnectInterruptFailed, Passes,
     SmioAfter, SmioEntering, SmioWaiting, Startable, Downs, DZero, Broken, PowerNoEntry,
     Null
<1>25. CASE PowerWakingConnectInterruptFailed
  BY <1>25, PowerUndoesManages, StageNames DEF PowerWakingConnectInterruptFailed, Passes,
     SmioAfter, SmioEntering, SmioWaiting, Startable, Downs, DZero, Broken, PowerNoEntry,
     Null
<1>26. CASE PowerInitialPowerUpFailedPowerDown
  BY <1>26, PowerUndoesManages, StageNames DEF PowerInitialPowerUpFailedPowerDown, Passes,
     SmioAfter, SmioEntering, SmioWaiting, Startable, Downs, DZero, Broken, PowerNoEntry,
     Null
<1>27. CASE PowerUpFailedPowerDown
  BY <1>27, PowerUndoesManages, StageNames DEF PowerUpFailedPowerDown, Passes, SmioAfter,
     SmioEntering, SmioWaiting, Startable, Downs, DZero, Broken, PowerNoEntry, Null
<1>28. CASE PowerInitialPowerUpFailedDerefParent
  BY <1>28, PowerPassesManages DEF PowerInitialPowerUpFailedDerefParent, Passes,
     SmioAfter, SmioEntering, SmioWaiting, Startable, Downs, DZero, Broken, PowerNoEntry,
     Null
<1>29. CASE PowerUpFailedDerefParent
  BY <1>29, PowerPassesManages DEF PowerUpFailedDerefParent, Passes, SmioAfter,
     SmioEntering, SmioWaiting, Startable, Downs, DZero, Broken, PowerNoEntry, Null
<1>30. CASE PowerReportPowerUpFailedDerefParent
  BY <1>30, PowerPassesManages DEF PowerReportPowerUpFailedDerefParent, Passes, SmioAfter,
     SmioEntering, SmioWaiting, Startable, Downs, DZero, Broken, PowerNoEntry, Null
<1>31. CASE PowerInitialPowerUpFailed
  BY <1>31, PowerUpFailureManages DEF PowerInitialPowerUpFailed, Passes, SmioAfter,
     SmioEntering, SmioWaiting, Startable, Downs, DZero, Broken, PowerNoEntry, Null,
     SelfManaged!SelfManagedIoStates
<1>32. CASE PowerReportPowerUpFailed
  BY <1>32, PowerUpFailureManages DEF PowerReportPowerUpFailed, Passes, SmioAfter,
     SmioEntering, SmioWaiting, Startable, Downs, DZero, Broken, PowerNoEntry, Null
<1>33. CASE PowerGotoD3Stopped
  BY <1>33, PowerGotoD3StoppedManages
<1>34. CASE PowerFinalPowerDownFailed
  BY <1>34, PowerFinalPowerDownFailedManages
<1>35. CASE PowerGotoDNotZero
  BY <1>35, PowerGotoDNotZeroManages
<1>36. CASE PowerNotifyingD0ExitToWakeInterrupts
  BY <1>36, PowerPassesManages DEF PowerNotifyingD0ExitToWakeInterrupts, Passes,
     SmioAfter, SmioEntering, SmioWaiting, Startable, Downs, DZero, Broken, PowerNoEntry,
     Null
<1>37. CASE PowerGotoDNotZeroIoStopped
  BY <1>37, PowerGotoDNotZeroIoStoppedManages
<1>38. CASE PowerGotoDxFailed
  BY <1>38, PowerPassesManages DEF PowerGotoDxFailed, Passes, SmioAfter, SmioEntering,
     SmioWaiting, Startable, Downs, DZero, Broken, PowerNoEntry, Null
<1>39. CASE PowerReportPowerDownFailed
  BY <1>39, PowerReportPowerDownFailedManages
<1>40. CASE PowerPowerFailedPowerDown
  BY <1>40, PowerIsDownManages DEF PowerPowerFailedPowerDown, PowerDownWasDone,
     ImplicitPowerDown, PowerSendPowerDownEvents
<1>41. CASE PowerGotoDxStoppedDisableInterrupt
  BY <1>41, PowerIsDownManages DEF PowerGotoDxStoppedDisableInterrupt, PowerPasses
<1>42. CASE PowerGotoDxStopped
  BY <1>42, PowerIsDownManages DEF PowerGotoDxStopped, PowerDownWasDone,
     ImplicitPowerDown, PowerSendPowerDownEvents
<1>43. QED
  BY <1>1, <1>2, <1>3, <1>4, <1>5, <1>6, <1>7, <1>8, <1>9, <1>10, <1>11, <1>12, <1>13,
     <1>14, <1>15, <1>16, <1>17, <1>18, <1>19, <1>20, <1>21, <1>22, <1>23, <1>24, <1>25,
     <1>26, <1>27, <1>28, <1>29, <1>30, <1>31, <1>32, <1>33, <1>34, <1>35, <1>36, <1>37,
     <1>38, <1>39, <1>40, <1>41, <1>42 DEF PowerEntersState

-----------------------------------------------------------------------------
(***************************************************************************)
(* Self managed I/O through the steps of the power machine                 *)
(***************************************************************************)
(* While the power policy machine has not started, or has stopped, the     *)
(* power machine is off                                                    *)
LEMMA PowerIsOff ==
    ASSUME Lockstep,
           at["policy"] \in {"ObjectCreated", "StartingFailed", "Stopped", "StoppedRemoving", "Removed"}
    PROVE  at["power"] \in Off /\ ~Powering /\ NoOrder
<1>1. OrderOf(at["policy"]) = "none" /\ RestsAt(at["policy"]) = Off
  BY DEF OrderOf, RestsAt
<1>2. PolicyActs
  BY <1>1, PolicyIsActing DEF Asks
<1>3. Off \cap DZero = {}
  BY DEF Off, DZero
<1>4. QED
  BY <1>1, <1>2, <1>3 DEF PolicyActs, Rests

(* So they are while the device is not started yet, or not any more        *)
LEMMA PolicyIsOff ==
    ASSUME Lockstep, PnpLockstep,
           \/ StartsNext \/ New
           \/ at["pnp"] \in RemovedStates \cup {"RemovingDisableInterfaces", "Failed"}
    PROVE  /\ at["policy"] \in {"ObjectCreated", "StartingFailed", "Stopped", "StoppedRemoving", "Removed"}
           /\ at["power"] \in Off /\ ~Powering /\ NoOrder
<1> DEFINE s == at["pnp"]
<1>1. ASSUME ~PnpAsks, PolicyAt(s) \subseteq {"ObjectCreated", "StartingFailed", "Stopped", "Removed"}
      PROVE  at["policy"] \in {"ObjectCreated", "StartingFailed", "Stopped", "Removed"}
  BY <1>1, PnpIsActing DEF PnpActs, PolicyFits
<1>2. at["policy"] \in {"ObjectCreated", "StartingFailed", "Stopped", "StoppedRemoving", "Removed"}
  <2>1. CASE In(queue["pnp"], "PwrPolStopped")
    <3>1. "PwrPolStopped" \in Statuses
      BY DEF Statuses
    <3>2. PICK a \in Statuses : /\ Sole(queue["pnp"], Statuses, a)
                                /\ at["policy"] \in StatusAfter(PnpOrderOf(s), a)
      BY <2>1, <3>1 DEF PnpLockstep, PnpActs, PnpOrderQueued, PolicyWorks, PolicyAnswered, Without
    <3>3. a = "PwrPolStopped"
      BY <2>1, <3>1, <3>2 DEF Sole, Lone, In
    <3>4. at["policy"] = "Stopped"
      BY <3>2, <3>3 DEF StatusAfter
    <3>5. QED
      BY <3>4
  <2>2. CASE In(queue["policy"], "Start")
    <3>1. "Start" \in Orders
      BY DEF Orders
    <3>2. Sole(queue["policy"], Orders, PnpOrderOf(s)) /\ at["policy"] \in ToldTo(PnpOrderOf(s))
      BY <2>2, <3>1 DEF PnpLockstep, PnpActs, PnpOrderQueued, PolicyWorks, PolicyAnswered, Without
    <3>3. PnpOrderOf(s) \in Orders
      BY <2>2, <3>1, PnpAskingStates DEF PnpLockstep, PnpActs, PnpOrderQueued, PolicyWorks,
         PolicyAnswered, Without, PnpAsks
    <3>4. PnpOrderOf(s) = "Start"
      BY <2>2, <3>1, <3>2, <3>3 DEF Sole, Lone, In
    <3>5. QED
      BY <3>2, <3>4, OrderSets
  <2>3. CASE \/ s \in {"Stopped", "StoppedWaitForStartCompletion", "StartingFromStopped"}
             \/ s = "Restarting" /\ "pnp" \in entering
    <3>1. s \in StoppedStates /\ ~PnpAsks
      BY <2>3 DEF StoppedStates, PnpAsks, PnpOrderOf
    <3>2. QED
      BY <1>1, <3>1, PlacesOf
  <2>4. CASE New
    <3>1. s \in NewStates /\ ~PnpAsks
      BY <2>4 DEF New, NewStates, PnpAsks, PnpOrderOf
    <3>2. QED
      BY <1>1, <3>1, PlacesOf
  <2>5. CASE s \in RemovedStates
    <3>1. ~PnpAsks
      BY <2>5 DEF RemovedStates, PnpAsks, PnpOrderOf
    <3>2. QED
      BY <1>1, <2>5, <3>1, PlacesOf
  <2>6. CASE s \in {"RemovingDisableInterfaces", "Failed"} /\ "pnp" \notin entering
    <3>1. PnpAsks /\ PnpOrderOf(s) = "Remove"
      BY <2>6 DEF PnpAsks, PnpOrderOf
    <3>2. \A a : StatusAfter("Remove", a) \subseteq {"Removed"}
      BY DEF StatusAfter
    <3>3. QED
      BY <3>1, <3>2, OrderSets DEF PnpLockstep, PnpActs, PnpOrderQueued, PolicyWorks, PolicyAnswered
  <2>7. CASE s \in {"RemovingDisableInterfaces", "Failed"} /\ "pnp" \in entering
    <3>1. ~PnpAsks /\ (s = "RemovingDisableInterfaces" => s \in StoppedStates)
      BY <2>7 DEF PnpAsks, StoppedStates
    <3>2. QED
      BY <1>1, <2>7, <3>1, PlacesOf
  <2>8. QED
    BY <2>1, <2>2, <2>3, <2>4, <2>5, <2>6, <2>7 DEF StartsNext
<1>3. QED
  BY <1>2, PowerIsOff

(* What only tells where the PnP machine and the power policy machine are  *)
LEMMA ManagedStays ==
    ASSUME PnpStays, OrdersStay(queue, queue'), PolicyStands
    PROVE  /\ StartsNext' <=> StartsNext
           /\ New' <=> New
           /\ Over' <=> Over
           /\ Remembering' <=> Remembering
           /\ at'["pnp"] = at["pnp"] /\ at'["policy"] = at["policy"]
<1>1. "PwrPolStopped" \in Statuses /\ "Start" \in Orders
  BY DEF Statuses, Orders
<1>2. /\ In(queue'["pnp"], "PwrPolStopped") <=> In(queue["pnp"], "PwrPolStopped")
      /\ In(queue'["policy"], "Start") <=> In(queue["policy"], "Start")
  BY <1>1 DEF OrdersStay, Same
<1>3. at'["pnp"] = at["pnp"] /\ at'["policy"] = at["policy"]
  BY DEF PnpStays, PolicyStands
<1>4. StartsNext' <=> StartsNext
  BY <1>2, <1>3 DEF StartsNext, PnpStays
<1>5. New' <=> New
  BY <1>3 DEF New, PnpStays
<1>6. Over' <=> Over
  BY <1>3 DEF Over, PnpStays
<1>7. Remembering' <=> Remembering
  BY <1>3 DEF Remembering, PolicyWaits, PolicyStands
<1>8. QED
  BY <1>3, <1>4, <1>5, <1>6, <1>7

(* An order to power down implicitly is carried out in these states        *)
LEMMA DownsStop == \A s : "ImplicitD3" \in CarriesOut(s) => s \in Downs
BY DEF CarriesOut, Downs

LEMMA PowerEntryKeepsSmio ==
    ASSUME CountInv, StageInv, StepInv, PnpLockstep, SmioInv, Powering, PowerEntersState
    PROVE  SmioInv'
<1>1. queue \in Queues /\ Lockstep /\ SmioFits
  BY DEF StepInv, SmioInv
<1>2. PowerManages
  BY <1>1, PowerManagesAll
<1>3. PowerQuiet
  BY <1>1, PowerKeepsStep DEF PowerNext, Powering
<1>4. /\ StartsNext' <=> StartsNext
      /\ New' <=> New
      /\ Over' <=> Over
      /\ Remembering' <=> Remembering
      /\ at'["pnp"] = at["pnp"] /\ at'["policy"] = at["policy"]
  BY <1>3, ManagedStays DEF PowerQuiet
<1>5. ~StartsNext' /\ ~New' /\ ~Over' /\ device'.smio # "Final"
  BY <1>1, <1>2, <1>4, PolicyIsOff DEF Over, PowerManages
<1>6. SmioFits' /\ device'.powerFailed = device.powerFailed
  BY <1>2 DEF PowerManages
<1>7. CASE at["power"] \in DZero
  <2>1. device' = device /\ queue' = queue /\ at'["power"] \in DZero
    BY <1>2, <1>7 DEF PowerManages
  <2>2. at'["power"] \notin Failed
    BY <2>1 DEF Failed, DZero, Broken
  <2>3. FailureRemembered'
    BY <2>2 DEF FailureRemembered
  <2>4. FailureReported'
    BY <1>4, <2>1 DEF FailureReported, StopsWell, Good, SmioInv
  <2>5. StartsNow' => StartsNow
    BY <1>3, <1>4, <2>1 DEF StartsNow, PowerQuiet, PolicyStands
  <2>6. SmioKnown'
    BY <1>5, <2>1, <2>5 DEF SmioKnown, SmioInv, Good
  <2>7. QED
    BY <1>6, <2>3, <2>4, <2>6 DEF SmioInv
<1>8. CASE at["power"] \notin DZero
  <2>1. PowerActs
    BY <1>1, <1>8, PowerIsActing
  <2>2. /\ Asks /\ NoOrder /\ PolicyWaits /\ OrderOf(at["policy"]) \in CarriesOut(at["power"])
    BY <2>1 DEF PowerActs, Asks, PolicyWaits
  <2>3. ~StartsNow'
    BY <1>3, <1>4, <2>2 DEF StartsNow, PowerQuiet, PolicyStands, PolicyWaits, NoOrder
  <2>4. SmioKnown'
    BY <1>5, <2>3 DEF SmioKnown
  <2>5. ASSUME Remembering' \/ StopsWell'
        PROVE  at["policy"] = "Stopping" /\ at["power"] \in Downs
    <3>1. at["policy"] \in {"StoppingCancelTimer", "StoppingWaitForIdleTimeout", "Stopping",
                            "DevicePowerRequestFailed", "StoppingSendStatus"}
      BY <1>4, <2>5 DEF Remembering, StopsWell
    <3>2. at["policy"] = "Stopping"
      BY <2>2, <3>1 DEF Asks, OrderOf
    <3>3. QED
      BY <2>2, <3>2, DownsStop DEF OrderOf
  <2>6. FailureRemembered'
    BY <1>2, <2>5 DEF FailureRemembered, PowerManages
  <2>7. FailureReported'
    <3>1. SUFFICES ASSUME StopsWell'
                   PROVE  Good' \/ device'.powerFailed
      BY DEF FailureReported
    <3>2. at["policy"] = "Stopping" /\ at["power"] \in Downs
      BY <2>5, <3>1
    <3>3. In(queue'["policy"], "PowerDown")
      BY <1>4, <3>1, <3>2 DEF StopsWell
    <3>4. CASE at["power"] = "PowerFailedPowerDown"
      <4>1. device.powerFailed
        BY <3>2, <3>4 DEF SmioInv, FailureRemembered, Remembering, Failed
      <4>2. QED
        BY <1>6, <4>1
    <3>5. QED
      BY <1>2, <3>2, <3>3, <3>4 DEF PowerManages
  <2>8. QED
    BY <1>6, <2>4, <2>6, <2>7 DEF SmioInv
<1>9. QED
  BY <1>7, <1>8

(* An order it takes finds self managed I/O as its first state does        *)
LEMMA PowerRowsManage ==
    ASSUME NEW r \in PowerRows, NEW f \in BOOLEAN
    PROVE  /\ r[2] # "ImplicitD0" => SmioWaiting(r[1], f) \subseteq SmioEntering(r[3], f)
           /\ r[2] = "ImplicitD0" => /\ SmioWaiting(r[1], TRUE) = {}
                                     /\ SmioEntering(r[3], FALSE) = Startable
           /\ r[3] \in Failed => r[1] \in Failed
<1>1. CASE r[2] = "ImplicitD0"
  <2>1. r[1] \in {"ObjectCreated", "Stopped"} /\ r[3] = "StartingCheckDeviceType"
    BY <1>1 DEF PowerRows
  <2>2. QED
    BY <1>1, <2>1 DEF SmioWaiting, SmioEntering, Failed, Broken
<1>2. CASE r[2] # "ImplicitD0"
  <2>1. CASE f = TRUE
    BY <1>2, <2>1 DEF PowerRows, SmioWaiting, SmioEntering, Failed, Broken
  <2>2. CASE f = FALSE
    BY <1>2, <2>2 DEF PowerRows, SmioWaiting, SmioEntering, Failed, Broken
  <2>3. QED
    BY <2>1, <2>2
<1>3. QED
  BY <1>1, <1>2

LEMMA PowerEventKeepsSmio ==
    ASSUME CountInv, StageInv, StepInv, PnpLockstep, SmioInv, PowerProcessEventInner
    PROVE  SmioInv'
<1>1. queue \in Queues /\ Lockstep /\ SmioFits
  BY DEF StepInv, SmioInv
<1>2. /\ ~Powering /\ OrderQueued /\ Powering' /\ queue["power"] # <<>> /\ queue'["power"] = <<>>
      /\ queue'["policy"] = queue["policy"] /\ queue'["pnp"] = queue["pnp"]
      /\ PolicyStands /\ PnpStays /\ device' = device
  BY <1>1, PowerTakes
<1>3. PICK r \in PowerRows :
        r[1] = at["power"] /\ r[2] = OrderOf(at["policy"]) /\ at'["power"] = r[3]
  BY <1>1, PowerTakes
<1>4. /\ StartsNext' <=> StartsNext
      /\ New' <=> New
      /\ Over' <=> Over
      /\ Remembering' <=> Remembering
      /\ at'["pnp"] = at["pnp"] /\ at'["policy"] = at["policy"]
  BY <1>2, SameReflexive, ManagedStays DEF OrdersStay
<1>5. device.smio \in SmioWaiting(r[1], device.ioCallbackFailure) /\ device.ioCallbackFailure \in BOOLEAN
  BY <1>1, <1>2, <1>3 DEF SmioFits, StageInv, Device
<1>6. device.smio \in SmioEntering(r[3], device.ioCallbackFailure)
  <2>1. CASE r[2] # "ImplicitD0"
    BY <1>5, <2>1, PowerRowsManage
  <2>2. CASE r[2] = "ImplicitD0"
    <3>1. StartsNow
      BY <1>2, <1>3, <2>2 DEF StartsNow, OrderOf
    <3>2. device.smio \in Startable
      BY <3>1 DEF SmioInv, SmioKnown, Good
    <3>3. device.ioCallbackFailure = FALSE
      <4>1. device.ioCallbackFailure = TRUE \/ device.ioCallbackFailure = FALSE
        BY <1>5
      <4>2. QED
        BY <1>5, <2>2, <4>1, PowerRowsManage
    <3>4. QED
      BY <2>2, <3>2, <3>3, PowerRowsManage
  <2>3. QED
    BY <2>1, <2>2
<1>7. SmioFits'
  BY <1>1, <1>2, <1>3, <1>6 DEF SmioFits
<1>8. FailureRemembered'
  BY <1>2, <1>3, <1>4, PowerRowsManage DEF FailureRemembered, SmioInv
<1>9. FailureReported'
  BY <1>2, <1>4 DEF FailureReported, StopsWell, Good, SmioInv
<1>10. ~StartsNow'
  BY <1>2 DEF StartsNow, PolicyStands, OrderQueued, Asks
<1>11. SmioKnown'
  BY <1>2, <1>4, <1>10 DEF SmioKnown, Good, SmioInv
<1>12. QED
  BY <1>7, <1>8, <1>9, <1>11 DEF SmioInv

-----------------------------------------------------------------------------
(***************************************************************************)
(* Through the steps of the power policy machine                           *)
(***************************************************************************)
LEMMA RememberingMoves ==
    ASSUME NEW s, NEW next, <<s, next>> \in PolicyMoves
    PROVE  LET t == IF next = Null THEN s ELSE next
           IN  /\ \/ t \in {"StoppingCancelTimer", "StoppingWaitForIdleTimeout", "Stopping"}
                  \/ s = "DevicePowerRequestFailed"
                  => s \in FailsIn \cup {"StoppingCancelTimer", "StoppingWaitForIdleTimeout", "Stopping"}
               /\ t = "DevicePowerRequestFailed" => next = Null \/ next = "DevicePowerRequestFailed"
               /\ t = "Stopping" => (s = "Stopping" /\ next = Null) \/ next = "Stopping"
               /\ t = "StoppingSendStatus" => s \in FailsIn
               /\ t \in {"Starting", "Restarting"} => s = t
BY DEF PolicyMoves, FailsIn, Null

(* Self managed I/O, and what the machines know of it, is the same         *)
LEMMA SmioStands ==
    ASSUME SmioFits, PowerStands, SmioStays, device'.ioCallbackFailure = device.ioCallbackFailure
    PROVE  SmioFits' /\ (Good' <=> Good) /\ device'.smio = device.smio
BY DEF SmioFits, PowerStands, SmioStays, Good

(* No answer is on its way when it has yet to enter a state                *)
LEMMA EntersUnanswered ==
    ASSUME Lockstep', ~PolicyWaits'
    PROVE  ~In(queue'["policy"], "PowerDown")
<1>1. PolicyActs'
  BY DEF Lockstep, OrderQueued, IrpSent, PowerActs, IrpReleased, Answered, Asks, PolicyWaits
<1>2. QED
  BY <1>1 DEF PolicyActs, NoAnswer, Without, PwrPolPriorityEventsMask

LEMMA PolicyEntryKeepsSmio ==
    ASSUME CountInv, StageInv, StepInv, PnpLockstep, SmioInv, StepInv', PowerPolicyEntersState
    PROVE  SmioInv'
<1>1. queue \in Queues /\ Lockstep /\ Lockstep'
  BY DEF StepInv
<1>2. PICK s, next : <<s, next>> \in PolicyMoves /\ PolicyGoes(s, next)
  BY <1>1, PolicyMovesAll
<1> DEFINE t == IF next = Null THEN s ELSE next
<1>3. /\ ~PolicyWaits /\ at["policy"] = s /\ at'["policy"] = t
      /\ PolicyWaits' <=> next \in {Null} \cup PolicyNoEntry
      /\ PowerStands /\ PnpStays /\ at'["pnp"] = at["pnp"]
      /\ device'.ioCallbackFailure = device.ioCallbackFailure /\ SmioStays
      /\ Remembers(s) /\ PolicyTellsPnp(s)
  BY <1>2 DEF PolicyGoes, PolicyWaits, PnpStays
<1> HIDE DEF t
<1>4. SmioFits' /\ (Good' <=> Good) /\ device'.smio = device.smio
  BY <1>3, SmioStands DEF SmioInv
<1>5. /\ \/ t \in {"StoppingCancelTimer", "StoppingWaitForIdleTimeout", "Stopping"}
         \/ s = "DevicePowerRequestFailed"
         => s \in FailsIn \cup {"StoppingCancelTimer", "StoppingWaitForIdleTimeout", "Stopping"}
      /\ t = "DevicePowerRequestFailed" => next = Null \/ next = "DevicePowerRequestFailed"
      /\ t = "Stopping" => (s = "Stopping" /\ next = Null) \/ next = "Stopping"
      /\ t = "StoppingSendStatus" => s \in FailsIn
      /\ t \in {"Starting", "Restarting"} => s = t
  BY <1>2, RememberingMoves DEF t
<1>6. FailureRemembered'
  <2>1. SUFFICES ASSUME Remembering', at'["power"] \in Failed
                 PROVE  device'.powerFailed
    BY DEF FailureRemembered
  <2>2. s \in FailsIn \cup {"StoppingCancelTimer", "StoppingWaitForIdleTimeout", "Stopping"}
    <3>1. CASE at'["policy"] \in {"StoppingCancelTimer", "StoppingWaitForIdleTimeout", "Stopping"}
      BY <1>3, <1>5, <3>1
    <3>2. CASE at'["policy"] = "DevicePowerRequestFailed" /\ PolicyWaits'
      <4>1. next = Null
        BY <1>3, <1>5, <3>2 DEF PolicyNoEntry
      <4>2. s = "DevicePowerRequestFailed"
        BY <1>3, <3>2, <4>1 DEF t
      <4>3. QED
        BY <4>2 DEF FailsIn
    <3>3. QED
      BY <2>1, <3>1, <3>2 DEF Remembering
  <2>3. CASE s \in FailsIn
    BY <1>3, <2>3 DEF Remembers
  <2>4. CASE s \in {"StoppingCancelTimer", "StoppingWaitForIdleTimeout", "Stopping"} \ FailsIn
    <3>1. device.powerFailed
      BY <1>3, <2>1, <2>4 DEF SmioInv, FailureRemembered, Remembering, PowerStands
    <3>2. QED
      BY <1>3, <2>4, <3>1 DEF Remembers
  <2>5. QED
    BY <2>2, <2>3, <2>4
<1>7. FailureReported'
  <2>1. SUFFICES ASSUME StopsWell'
                 PROVE  Good' \/ device'.powerFailed
    BY DEF FailureReported
  <2>2. CASE at'["policy"] = "Stopping" /\ In(queue'["policy"], "PowerDown")
    <3>1. PolicyWaits'
      BY <1>1, <2>2, EntersUnanswered
    <3>2. s = "Stopping" /\ next = Null
      BY <1>3, <1>5, <2>2, <3>1 DEF PolicyNoEntry, Null
    <3>3. at["power"] \in DZero \cup {"Dx"} \cup Broken
      <4>1. at["power"] \in RestsAt("Stopping")
        BY <1>1, <1>3, <3>2, PolicyIsActing DEF PolicyActs, Asks, PolicyWaits
      <4>2. QED
        BY <4>1, OrderRests DEF OrderOf
    <3>4. Answered'
      <4>1. ~NoAnswer'
        BY <2>2 DEF NoAnswer, Without, PwrPolPriorityEventsMask
      <4>2. QED
        BY <1>1, <4>1 DEF Lockstep, PolicyActs, OrderQueued, IrpSent, PowerActs, IrpReleased
    <3>5. at'["power"] = "Stopped"
      <4>1. \A a : Outcome("ImplicitD3", a) \subseteq {"Stopped"} /\ OrderOf("Stopping") = "ImplicitD3"
        BY DEF Outcome, OrderOf
      <4>2. QED
        BY <2>2, <3>4, <4>1 DEF Answered
    <3>6. QED
      BY <1>3, <3>3, <3>5 DEF PowerStands, DZero, Broken
  <2>3. CASE at'["policy"] = "StoppingSendStatus"
    BY <1>3, <1>5, <2>3 DEF Remembers
  <2>4. QED
    BY <2>1, <2>2, <2>3 DEF StopsWell
<1>8. StartsNext' => Good
  <2>1. "PwrPolStopped" \in Statuses /\ "Start" \in Orders
    BY DEF Statuses, Orders
  <2>2. In(queue'["policy"], "Start") => In(queue["policy"], "Start")
    BY <1>3, <2>1 DEF PolicyTellsPnp, Same
  <2>3. ASSUME In(queue'["pnp"], "PwrPolStopped")
        PROVE  Good
    <3>1. CASE In(queue["pnp"], "PwrPolStopped")
      BY <3>1 DEF SmioInv, SmioKnown, StartsNext
    <3>2. CASE ~In(queue["pnp"], "PwrPolStopped")
      <4>1. StatusOf(s) # "none" /\ Gets(queue["pnp"], queue'["pnp"], Statuses, StatusOf(s))
        BY <1>3, <2>1, <2>3, <3>2 DEF PolicyTellsPnp, Same
      <4>2. s \notin Runs /\ StatusOf(s) \in Statuses
        BY <4>1, StatusStates
      <4>3. Without(queue["pnp"], Statuses)
        BY <1>3, <4>2 DEF PnpLockstep, PnpActs, PnpOrderQueued, PolicyWorks, PolicyAnswered
      <4>4. Sole(queue'["pnp"], Statuses, StatusOf(s))
        BY <2>1, <2>3, <4>1, <4>3 DEF Gets, Without
      <4>5. StatusOf(s) = "PwrPolStopped"
        BY <2>1, <2>3, <4>2, <4>4 DEF Sole, Lone, In
      <4>6. s = "StoppingSendStatus" /\ ~device.powerFailed
        BY <4>5 DEF StatusOf
      <4>7. QED
        BY <1>3, <4>6 DEF SmioInv, FailureReported, StopsWell
    <3>3. QED
      BY <3>1, <3>2
  <2>4. QED
    BY <1>3, <2>2, <2>3 DEF StartsNext, SmioInv, SmioKnown, PnpStays
<1>9. StartsNow' => Good
  BY <1>3, <1>5 DEF StartsNow, SmioInv, SmioKnown, PolicyWaits
<1>10. (New' <=> New) /\ (Over' <=> Over)
  BY <1>3 DEF New, Over, PnpStays
<1>11. SmioKnown'
  BY <1>3, <1>4, <1>8, <1>9, <1>10 DEF SmioKnown, SmioInv
<1>12. QED
  BY <1>4, <1>6, <1>7, <1>11 DEF SmioInv

(* The events on which it starts and stops                                 *)
LEMMA StopRowsFrom ==
    ASSUME NEW r \in PolicyRows
    PROVE  /\ r[3] \in {"StoppingCancelTimer", "StoppingWaitForIdleTimeout", "Stopping"} =>
                \/ r[1] \in {"Started", "StartedWaitForIdleTimeout", "StartedIdleCapable", "WaitingUnarmed"}
                \/ r[1] = "StoppingResetDeviceCompletePowerUp" /\ r[2] = "PowerUp"
                \/ r[1] \in {"StoppingWaitForIdleTimeout", "DevicePowerRequestFailed"}
           /\ r[3] = "StoppingSendStatus" => r[1] = "Stopping" /\ r[2] = "PowerDown"
           /\ r[3] \in {"Starting", "Restarting"} => r[2] = "Start"
BY DEF PolicyRows, StartRows, IdleRows, SleepRows, StopRows

LEMMA PolicyEventKeepsSmio ==
    ASSUME CountInv, StageInv, StepInv, SmioInv, StepInv', PowerPolicyProcessEventInner
    PROVE  SmioInv'
<1>1. queue \in Queues /\ Lockstep /\ Lockstep'
  BY DEF StepInv
<1>2. /\ queue' \in Queues /\ queue'["policy"] = Tail(queue["policy"]) /\ PolicyWaits
      /\ queue'["pnp"] = queue["pnp"] /\ queue'["power"] = queue["power"]
      /\ queue["policy"] # <<>> /\ queue["policy"] \in Seq(Events)
      /\ PnpStays /\ PowerStands /\ device' = device
      /\ \/ PolicyStands /\ UNCHANGED at
         \/ \E r \in PolicyRows :
              /\ r[1] = at["policy"] /\ r[2] = Head(queue["policy"]) /\ at'["policy"] = r[3]
              /\ PolicyWaits' <=> r[3] \in PolicyNoEntry
  BY <1>1, PolicyTakes
<1>3. In(queue["policy"], Head(queue["policy"])) /\ \A a : In(queue'["policy"], a) => In(queue["policy"], a)
  BY <1>2, Shrinks
<1>4. SmioFits' /\ (Good' <=> Good)
  BY <1>2, SmioStands DEF SmioInv, SmioStays
<1>5. /\ StartsNext' => StartsNext
      /\ New' <=> New
      /\ Over' <=> Over
      /\ at'["pnp"] = at["pnp"] /\ at'["power"] = at["power"]
  BY <1>2, <1>3 DEF StartsNext, New, Over, PnpStays, PowerStands
<1>6. CASE PolicyStands /\ UNCHANGED at
  <2>1. /\ Remembering' <=> Remembering
        /\ StopsWell' => StopsWell
        /\ StartsNow' => StartsNow
    BY <1>2, <1>3, <1>6 DEF Remembering, StopsWell, StartsNow, PolicyWaits, PolicyStands
  <2>2. QED
    BY <1>2, <1>4, <1>5, <2>1 DEF SmioInv, FailureRemembered, FailureReported, SmioKnown
<1>7. ASSUME NEW r \in PolicyRows, r[1] = at["policy"], r[2] = Head(queue["policy"]),
             at'["policy"] = r[3], PolicyWaits' <=> r[3] \in PolicyNoEntry
      PROVE  SmioInv'
  <2>1. /\ r[3] \in {"StoppingCancelTimer", "StoppingWaitForIdleTimeout", "Stopping"} =>
             \/ r[1] \in {"Started", "StartedWaitForIdleTimeout", "StartedIdleCapable", "WaitingUnarmed"}
             \/ r[1] = "StoppingResetDeviceCompletePowerUp" /\ r[2] = "PowerUp"
             \/ r[1] \in {"StoppingWaitForIdleTimeout", "DevicePowerRequestFailed"}
        /\ r[3] = "StoppingSendStatus" => r[1] = "Stopping" /\ r[2] = "PowerDown"
        /\ r[3] \in {"Starting", "Restarting"} => r[2] = "Start"
    BY StopRowsFrom
  <2>2. FailureRemembered'
    <3>1. SUFFICES ASSUME Remembering', at["power"] \in Failed
                   PROVE  device.powerFailed
      BY <1>2, <1>5 DEF FailureRemembered
    <3>2. r[3] \in {"StoppingCancelTimer", "StoppingWaitForIdleTimeout", "Stopping"}
      BY <1>7, <3>1 DEF Remembering, PolicyNoEntry
    <3>3. CASE r[1] \in {"Started", "StartedWaitForIdleTimeout", "StartedIdleCapable", "WaitingUnarmed"}
      <4>1. OrderOf(r[1]) = "none" /\ RestsAt(r[1]) \subseteq DZero \cup {"Dx"}
        BY <3>3 DEF OrderOf, RestsAt
      <4>2. at["power"] \in DZero \cup {"Dx"}
        BY <1>1, <1>7, <4>1, PolicyIsActing DEF Asks, PolicyActs
      <4>3. QED
        BY <3>1, <4>2 DEF Failed, Broken, DZero
    <3>4. CASE r[1] = "StoppingResetDeviceCompletePowerUp" /\ r[2] = "PowerUp"
      <4>1. In(queue["policy"], "PowerUp") /\ "PowerUp" \in PwrPolPriorityEventsMask
        BY <1>3, <1>7, <3>4 DEF PwrPolPriorityEventsMask
      <4>2. PICK a \in PwrPolPriorityEventsMask :
              at["power"] \in Outcome("CompleteD0", a) /\ Sole(queue["policy"], PwrPolPriorityEventsMask, a)
        BY <1>1, <1>7, <3>4, <4>1 DEF Lockstep, PolicyActs, OrderQueued, IrpSent, PowerActs,
           IrpReleased, Answered, NoAnswer, Without, OrderOf
      <4>3. a = "PowerUp"
        BY <4>1, <4>2 DEF Sole, Lone, In
      <4>4. at["power"] \in DZero
        BY <4>2, <4>3 DEF Outcome
      <4>5. QED
        BY <3>1, <4>4 DEF Failed, Broken, DZero
    <3>5. CASE r[1] \in {"StoppingWaitForIdleTimeout", "DevicePowerRequestFailed"}
      <4>1. Remembering
        BY <1>2, <1>7, <3>5 DEF Remembering
      <4>2. QED
        BY <3>1, <4>1 DEF SmioInv, FailureRemembered
    <3>6. QED
      BY <2>1, <3>2, <3>3, <3>4, <3>5
  <2>3. FailureReported'
    <3>1. SUFFICES ASSUME StopsWell'
                   PROVE  Good \/ device.powerFailed
      BY <1>2, <1>4 DEF FailureReported
    <3>2. r[3] # "Stopping" \/ ~In(queue'["policy"], "PowerDown")
      BY <1>1, <1>7, EntersUnanswered DEF PolicyNoEntry
    <3>3. r[1] = "Stopping" /\ r[2] = "PowerDown"
      BY <1>7, <2>1, <3>1, <3>2 DEF StopsWell
    <3>4. StopsWell
      BY <1>3, <1>7, <3>3 DEF StopsWell
    <3>5. QED
      BY <3>4 DEF SmioInv, FailureReported
  <2>4. StartsNow' => StartsNext
    <3>1. StartsNow' => r[2] = "Start"
      BY <1>7, <2>1 DEF StartsNow
    <3>2. QED
      BY <1>3, <1>7, <3>1 DEF StartsNext
  <2>5. SmioKnown'
    BY <1>2, <1>4, <1>5, <2>4 DEF SmioKnown, SmioInv
  <2>6. QED
    BY <1>4, <2>2, <2>3, <2>5 DEF SmioInv
<1>8. QED
  BY <1>2, <1>6, <1>7

-----------------------------------------------------------------------------
(***************************************************************************)
(* Through the steps of the PnP machine                                    *)
(***************************************************************************)
(* Where it may be started next, was not started yet, or is removed: how   *)
(* the PnP machine comes there                                             *)
LEMMA ManagedMoves ==
    ASSUME NEW s, NEW next, <<s, next>> \in PnpMoves
    PROVE  LET t == IF next = Null THEN s ELSE next
           IN  /\ t \in {"Stopped", "StoppedWaitForStartCompletion", "StartingFromStopped"} => s = t
               /\ t = "Restarting" =>
                    (s = "Restarting" /\ next = Null) \/ s = "StartingFromStopped"
               /\ t \in NewStates => s \in NewStates
               /\ t \in RemovedStates \ {"Final"} => s \in RemovedStates \ {"Final"}
               /\ t \in {"RemovingDisableInterfaces", "Failed"} => s = t \/ next \notin PnpNoEntry \cup {Null}
               /\ s = "Final" => t = "Final"
               /\ s \in {"RemovingDisableInterfaces", "Failed"} => next = Null
               /\ s = "FdoRemoved" => next = "Final"
               /\ t = "HardwareAvailable" => s = t /\ next = Null
BY DEF PnpMoves, NewStates, RemovedStates, PnpNoEntry, Null

LEMMA ManagedRows ==
    ASSUME NEW r \in PnpRows
    PROVE  /\ r[3] \in {"StoppedWaitForStartCompletion", "StartingFromStopped"} =>
                r[1] \in {"Stopped", "StoppedWaitForStartCompletion"}
           /\ r[3] = "Stopped" => r[2] = "PwrPolStopped"
           /\ r[3] # "Restarting" /\ r[1] # "Final"
           /\ r[3] \in NewStates => r[1] \in {"Init", "InitStarting"}
           /\ r[3] \in RemovedStates \ {"Final"} =>
                \/ r[1] \in {"Init", "RemovingDisableInterfaces", "Failed"}
                \/ r[1] \in RemovedStates \ {"Final"}
           /\ r[3] \notin {"RemovingDisableInterfaces", "Failed"} \cap PnpNoEntry
BY DEF PnpRows, PnpStartRows, PnpStopRows, PnpRemoveRows, NewStates, RemovedStates, PnpNoEntry

(* A step that leaves self managed I/O and the other two machines alone,   *)
(* and their answers                                                       *)
LEMMA SmioFrame ==
    ASSUME SmioInv, PolicyStands, PowerStands, SmioStays, FlagsStay(device, device'),
           StopsWell' => StopsWell, StartsNow' => StartsNow,
           StartsNext' => Good, New' => device.smio = "Created",
           Over' => device.smio \in {"Created", "Flushed"},
           device.smio = "Final" => at'["pnp"] = "Final"
    PROVE  SmioInv'
<1>1. SmioFits' /\ (Good' <=> Good) /\ device'.smio = device.smio
  BY SmioStands DEF SmioInv, FlagsStay
<1>2. (Remembering' <=> Remembering) /\ at'["power"] = at["power"]
  BY DEF Remembering, PolicyWaits, PolicyStands, PowerStands
<1>3. device'.powerFailed = device.powerFailed
  BY DEF FlagsStay
<1>4. FailureRemembered' /\ FailureReported'
  BY <1>1, <1>2, <1>3 DEF SmioInv, FailureRemembered, FailureReported
<1>5. StartsNext' \/ StartsNow' => Good
  BY DEF SmioInv, SmioKnown
<1>6. SmioKnown'
  BY <1>1, <1>5 DEF SmioKnown
<1>7. QED
  BY <1>1, <1>4, <1>6 DEF SmioInv

LEMMA AnswersFrame ==
    ASSUME PolicyStands, AnswersStay(queue, queue')
    PROVE  (StopsWell' <=> StopsWell) /\ (StartsNow' <=> StartsNow)
<1>1. /\ at'["policy"] = at["policy"] /\ ("policy" \in entering' <=> "policy" \in entering)
      /\ queue'["power"] = queue["power"]
      /\ In(queue'["policy"], "PowerDown") <=> In(queue["policy"], "PowerDown")
  BY DEF PolicyStands, AnswersStay, Same, PwrPolPriorityEventsMask
<1>2. QED
  BY <1>1 DEF StopsWell, StartsNow

(* With the power machine off and the power policy machine at rest, it may *)
(* be flushed or cleaned up                                                *)
LEMMA SmioEnds ==
    ASSUME SmioInv, PolicyStands, PowerStands, FlagsStay(device, device'),
           at["power"] \in Off, ~Powering,
           at["policy"] \in {"ObjectCreated", "StartingFailed", "Stopped", "StoppedRemoving", "Removed"},
           device'.smio \in {"Created", "Flushed", "Final"},
           "smio" \notin device'.misused, ~StartsNext', ~New',
           Over' => device'.smio # "Final", device'.smio = "Final" => at'["pnp"] = "Final"
    PROVE  SmioInv'
<1>1. at'["power"] = at["power"] /\ ~Powering' /\ at'["policy"] = at["policy"]
  BY DEF PowerStands, PolicyStands
<1>2. device.smio \in SmioWaiting(at["power"], device.ioCallbackFailure)
  BY DEF SmioInv, SmioFits
<1>3. device'.ioCallbackFailure = device.ioCallbackFailure
  BY DEF FlagsStay
<1>4. device'.smio \in SmioWaiting(at["power"], device.ioCallbackFailure)
  <2>1. CASE device.ioCallbackFailure
    BY <1>2, <2>1 DEF SmioWaiting, Off
  <2>2. CASE ~device.ioCallbackFailure
    BY <2>2 DEF SmioWaiting, Off, Broken, SelfManaged!SelfManagedIoStates
  <2>3. QED
    BY <2>1, <2>2
<1>5. SmioFits'
  BY <1>1, <1>3, <1>4 DEF SmioFits
<1>6. ~Remembering' /\ ~StopsWell' /\ ~StartsNow'
  BY <1>1 DEF Remembering, StopsWell, StartsNow
<1>7. QED
  BY <1>5, <1>6 DEF SmioInv, FailureRemembered, FailureReported, SmioKnown

LEMMA PnpEntryKeepsSmio ==
    ASSUME CountInv, StageInv, StepInv, PnpLockstep, SmioInv, PnpEntersState
    PROVE  SmioInv'
<1>1. queue \in Queues /\ Lockstep
  BY DEF StepInv
<1>2. PICK s, next : <<s, next>> \in PnpMoves /\ PnpGoes(s, next)
  BY <1>1, PnpMovesAll
<1> DEFINE t == IF next = Null THEN s ELSE next
<1>3. /\ "pnp" \in entering /\ at["pnp"] = s /\ at'["pnp"] = t
      /\ "pnp" \in entering' <=> (next # Null /\ next \notin PnpNoEntry)
      /\ PolicyStands /\ PowerStands /\ FlagsStay(device, device')
      /\ PnpManages(s) /\ PnpOrders(s, next)
  BY <1>2 DEF PnpGoes
<1>4. /\ t \in {"Stopped", "StoppedWaitForStartCompletion", "StartingFromStopped"} => s = t
      /\ t = "Restarting" => (s = "Restarting" /\ next = Null) \/ s = "StartingFromStopped"
      /\ t \in NewStates => s \in NewStates
      /\ t \in RemovedStates \ {"Final"} => s \in RemovedStates \ {"Final"}
      /\ t \in {"RemovingDisableInterfaces", "Failed"} => s = t \/ next \notin PnpNoEntry \cup {Null}
      /\ s = "Final" => t = "Final"
      /\ s \in {"RemovingDisableInterfaces", "Failed"} => next = Null
      /\ s = "FdoRemoved" => next = "Final"
      /\ t = "HardwareAvailable" => s = t /\ next = Null
  BY <1>2, ManagedMoves
<1> HIDE DEF t
<1>5. Without(queue["policy"], Orders) /\ Without(queue["pnp"], Statuses)
  BY <1>3, PnpIsActing DEF PnpAsks, PnpActs
<1>6. AnswersStay(queue, queue') /\ Same(queue["pnp"], queue'["pnp"], Statuses)
  BY <1>3 DEF PnpOrders, Calm, Ordered, OrdersStay
<1>7. (StopsWell' <=> StopsWell) /\ (StartsNow' <=> StartsNow)
  BY <1>3, <1>6, AnswersFrame
<1>8. ~In(queue'["pnp"], "PwrPolStopped")
  BY <1>5, <1>6 DEF Same, Without, Statuses
<1>9. In(queue'["policy"], "Start") => next = Null /\ PnpOrderOf(s) = "Start"
  <2>1. SUFFICES ASSUME In(queue'["policy"], "Start")
                 PROVE  next = Null /\ PnpOrderOf(s) = "Start"
    OBVIOUS
  <2>2. "Start" \in Orders
    BY DEF Orders
  <2>3. ~Calm(queue, queue')
    BY <1>5, <2>1, <2>2 DEF Calm, OrdersStay, Same, Without
  <2>4. next = Null /\ PnpOrderOf(s) # "none" /\ Ordered(queue, queue', PnpOrderOf(s))
    BY <1>3, <2>3 DEF PnpOrders
  <2>5. PnpOrderOf(s) \in Orders
    BY <2>4, PnpAskingStates
  <2>6. Sole(queue'["policy"], Orders, PnpOrderOf(s))
    BY <1>5, <2>1, <2>2, <2>4 DEF Ordered, Gets, Without
  <2>7. QED
    BY <2>1, <2>2, <2>4, <2>5, <2>6 DEF Sole, Lone, In
<1>10. CASE SmioEventOf(s) = "none"
  <2>1. SmioStays
    BY <1>3, <1>10 DEF PnpManages
  <2>2. s \notin {"RemovingDisableInterfaces", "Failed"}
    BY <1>10 DEF SmioEventOf
  <2>3. New' => New
    BY <1>3, <1>4 DEF New
  <2>4. Over' => Over
    <3>1. t \in {"RemovingDisableInterfaces", "Failed"} => "pnp" \in entering'
      BY <1>3, <1>4, <2>2
    <3>2. QED
      BY <1>3, <1>4, <3>1 DEF Over
  <2>5. StartsNext' => Good
    <3>1. CASE In(queue'["policy"], "Start")
      <4>1. s \in {"HardwareAvailable", "Restarting"}
        BY <1>9, <3>1 DEF PnpOrderOf
      <4>2. New \/ StartsNext
        BY <1>3, <4>1 DEF New, NewStates, StartsNext
      <4>3. QED
        BY <4>2 DEF SmioInv, SmioKnown, Good, Startable
    <3>2. CASE \/ t \in {"Stopped", "StoppedWaitForStartCompletion", "StartingFromStopped"}
               \/ t = "Restarting" /\ "pnp" \in entering'
      <4>1. s \in {"Stopped", "StoppedWaitForStartCompletion", "StartingFromStopped"}
        BY <1>3, <1>4, <3>2
      <4>2. StartsNext
        BY <1>3, <4>1 DEF StartsNext
      <4>3. QED
        BY <4>2 DEF SmioInv, SmioKnown
    <3>3. QED
      BY <1>3, <1>8, <3>1, <3>2 DEF StartsNext
  <2>6. /\ New => device.smio = "Created"
        /\ Over => device.smio \in {"Created", "Flushed"}
        /\ device.smio = "Final" => at["pnp"] = "Final"
    BY DEF SmioInv, SmioKnown
  <2>7. QED
    BY <1>3, <1>4, <1>7, <2>1, <2>3, <2>4, <2>5, <2>6, SmioFrame
<1>11. CASE SmioEventOf(s) # "none"
  <2>1. /\ s \in {"RemovingDisableInterfaces", "Failed"} => SmioEventOf(s) = "Flush"
        /\ s = "FdoRemoved" => SmioEventOf(s) = "Cleanup"
        /\ s \in {"RemovingDisableInterfaces", "Failed", "FdoRemoved"}
    BY <1>11 DEF SmioEventOf
  <2>2. /\ at["policy"] \in {"ObjectCreated", "StartingFailed", "Stopped", "StoppedRemoving", "Removed"}
        /\ at["power"] \in Off /\ ~Powering
    BY <1>1, <1>3, <2>1, PolicyIsOff DEF RemovedStates
  <2>3. /\ device.smio \in SelfManaged!SelfManagedIoStates \ {"Started"}
        /\ "smio" \notin device.misused
    <3>1. device.smio \in SmioWaiting(at["power"], device.ioCallbackFailure)
      BY <2>2 DEF SmioInv, SmioFits
    <3>2. \A f : SmioWaiting(at["power"], f) \subseteq SelfManaged!SelfManagedIoStates \ {"Started"}
      BY <2>2 DEF SmioWaiting, Off, Broken, SelfManaged!SelfManagedIoStates
    <3>3. QED
      BY <3>1, <3>2 DEF SmioInv, SmioFits
  <2>4. PICK o \in SelfManaged!ProcessEvent(device.smio, SmioEventOf(s)) :
             /\ device'.smio = o.state
             /\ SelfManaged!Lists(device.smio, SmioEventOf(s)) =>
                  ("smio" \in device'.misused <=> "smio" \in device.misused)
    BY <1>3, <1>11 DEF PnpManages, SmioGets
  <2>5. PnpOrderOf(s) # "Start"
    BY <2>1 DEF PnpOrderOf
  <2>6. CASE s \in {"RemovingDisableInterfaces", "Failed"}
    <3>1. t = s /\ next = Null
      BY <1>4, <2>6 DEF t
    <3>2. device.smio # "Final"
      BY <1>3, <2>6 DEF SmioInv, SmioKnown
    <3>3. device'.smio \in {"Created", "Flushed"} /\ "smio" \notin device'.misused
      BY <2>1, <2>3, <2>4, <2>6, <3>2, SmioOutcomes
    <3>4. ~StartsNext' /\ ~New'
      BY <1>3, <1>8, <1>9, <2>5, <2>6, <3>1 DEF StartsNext, New, NewStates
    <3>5. QED
      BY <1>3, <2>2, <3>3, <3>4, SmioEnds
  <2>7. CASE s = "FdoRemoved"
    <3>1. t = "Final" /\ next = "Final"
      BY <1>4, <2>7 DEF t, Null
    <3>2. device.smio \in {"Created", "Flushed"}
      BY <1>3, <2>7 DEF SmioInv, SmioKnown, Over, RemovedStates
    <3>3. device'.smio = "Final" /\ "smio" \notin device'.misused
      BY <2>1, <2>3, <2>4, <2>7, <3>2, SmioOutcomes
    <3>4. ~StartsNext' /\ ~New' /\ ~Over'
      BY <1>3, <1>8, <1>9, <3>1 DEF StartsNext, New, NewStates, Over, Null
    <3>5. QED
      BY <1>3, <2>2, <3>1, <3>3, <3>4, SmioEnds
  <2>8. QED
    BY <2>1, <2>6, <2>7
<1>12. QED
  BY <1>10, <1>11

LEMMA PnpEventKeepsSmio ==
    ASSUME CountInv, StepInv, SmioInv, PnpProcessEventInner
    PROVE  SmioInv'
<1> DEFINE q == queue["pnp"]
           h == Head(queue["pnp"])
<1>1. queue \in Queues
  BY DEF StepInv
<1>2. /\ "pnp" \notin entering /\ q # <<>> /\ q \in Seq(Events)
      /\ queue'["pnp"] = Tail(q) /\ queue'["policy"] = queue["policy"]
      /\ queue'["power"] = queue["power"]
      /\ PolicyStands /\ PowerStands /\ device' = device
  BY <1>1, PnpTakes DEF PnpProcessEventInner, Takes, Queues
<1>3. In(q, h) /\ \A a : In(Tail(q), a) => In(q, a)
  BY <1>2, Shrinks
<1>4. SmioStays /\ FlagsStay(device, device') /\ (StopsWell' => StopsWell) /\ (StartsNow' => StartsNow)
  BY <1>2, AnswersFrame, SameReflexive DEF SmioStays, FlagsStay, AnswersStay
<1>5. \/ PnpStays
      \/ \E r \in PnpRows : /\ r[1] = at["pnp"] /\ r[2] = h
                            /\ at'["pnp"] = r[3] /\ ("pnp" \in entering' <=> r[3] \notin PnpNoEntry)
  <2>1. DOMAIN at = Machines /\ "pnp" \in Machines
    BY DEF CountInv, Machines
  <2>2. CASE UNCHANGED <<at, entering>>
    BY <2>1, <2>2 DEF PnpStays
  <2>3. ASSUME NEW r \in Row("pnp", PnpRows), EnterNewState("pnp", r[3], PnpNoEntry)
        PROVE  /\ r \in PnpRows /\ r[1] = at["pnp"] /\ r[2] = h
               /\ at'["pnp"] = r[3] /\ ("pnp" \in entering' <=> r[3] \notin PnpNoEntry)
    BY <1>2, <2>1, <2>3 DEF Row, EnterNewState
  <2>4. QED
    BY <2>2, <2>3 DEF PnpProcessEventInner
<1>6. /\ StartsNext => Good
      /\ New => device.smio = "Created"
      /\ Over => device.smio \in {"Created", "Flushed"}
      /\ device.smio = "Final" => at["pnp"] = "Final"
  BY DEF SmioInv, SmioKnown
<1>7. CASE PnpStays
  <2>1. /\ StartsNext' => StartsNext
        /\ New' => New
        /\ Over' => Over
        /\ at'["pnp"] = at["pnp"]
    BY <1>2, <1>3, <1>7 DEF PnpStays, StartsNext, New, Over
  <2>2. QED
    BY <1>2, <1>4, <1>6, <2>1, SmioFrame
<1>8. ASSUME NEW r \in PnpRows, r[1] = at["pnp"], r[2] = h,
             at'["pnp"] = r[3], "pnp" \in entering' <=> r[3] \notin PnpNoEntry
      PROVE  SmioInv'
  <2>1. /\ r[3] \in {"StoppedWaitForStartCompletion", "StartingFromStopped"} =>
             r[1] \in {"Stopped", "StoppedWaitForStartCompletion"}
        /\ r[3] = "Stopped" => r[2] = "PwrPolStopped"
        /\ r[3] # "Restarting" /\ r[1] # "Final"
        /\ r[3] \in NewStates => r[1] \in {"Init", "InitStarting"}
        /\ r[3] \in RemovedStates \ {"Final"} =>
             \/ r[1] \in {"Init", "RemovingDisableInterfaces", "Failed"}
             \/ r[1] \in RemovedStates \ {"Final"}
        /\ r[3] \notin {"RemovingDisableInterfaces", "Failed"} \cap PnpNoEntry
    BY ManagedRows
  <2>2. StartsNext' => StartsNext
    <3>1. CASE \/ In(queue'["pnp"], "PwrPolStopped") \/ In(queue'["policy"], "Start")
      BY <1>2, <1>3, <3>1 DEF StartsNext
    <3>2. CASE r[3] \in {"Stopped", "StoppedWaitForStartCompletion", "StartingFromStopped"}
      BY <1>3, <1>8, <2>1, <3>2 DEF StartsNext
    <3>3. QED
      BY <1>8, <2>1, <3>1, <3>2 DEF StartsNext
  <2>3. New' => New
    BY <1>8, <2>1 DEF New, NewStates
  <2>4. Over' => New \/ Over
    <3>1. r[3] \in {"RemovingDisableInterfaces", "Failed"} => "pnp" \in entering'
      BY <1>8, <2>1
    <3>2. CASE r[3] \in RemovedStates \ {"Final"}
      BY <1>2, <1>8, <2>1, <3>2 DEF New, NewStates, Over
    <3>3. QED
      BY <1>8, <3>1, <3>2 DEF Over
  <2>5. device.smio # "Final"
    BY <1>6, <1>8, <2>1
  <2>6. QED
    BY <1>2, <1>4, <1>6, <2>2, <2>3, <2>4, <2>5, SmioFrame
<1>9. QED
  BY <1>5, <1>7, <1>8

-----------------------------------------------------------------------------
(***************************************************************************)
(* Through every step                                                      *)
(***************************************************************************)
LEMMA AsideKeepsSmio ==
    ASSUME CountInv, StageInv, SmioInv, AsideQuiet
    PROVE  SmioInv'
<1>1. PolicyStands /\ PowerStands /\ PnpStays /\ OrdersStay(queue, queue')
  BY DEF AsideQuiet, PolicyStands, PowerStands, PnpStays, CountInv, Powering
<1>2. /\ device'.smio = device.smio /\ device'.misused = device.misused
      /\ device'.ioCallbackFailure = device.ioCallbackFailure
      /\ device'.powerFailed = device.powerFailed
  BY DEF AsideQuiet, StageInv, Device
<1>3. /\ StartsNext' <=> StartsNext
      /\ New' <=> New
      /\ Over' <=> Over
      /\ Remembering' <=> Remembering
      /\ at'["pnp"] = at["pnp"] /\ at'["policy"] = at["policy"]
  BY <1>1, ManagedStays
<1>4. SmioFits' /\ (Good' <=> Good)
  BY <1>1, <1>2, SmioStands DEF SmioInv, SmioStays
<1>5. (StopsWell' => StopsWell) /\ (StartsNow' => StartsNow)
  <2>1. OrderOf("Stopping") = "ImplicitD3"
    BY DEF OrderOf
  <2>2. \A s \in {"Starting", "Restarting"} : OrderOf(s) = "ImplicitD0"
    BY DEF OrderOf
  <2>3. at["policy"] \in {"Stopping", "Starting", "Restarting"} =>
          (StopsWell' <=> StopsWell) /\ (StartsNow' <=> StartsNow)
    BY <1>1, <2>1, <2>2, AnswersFrame DEF AsideQuiet
  <2>4. QED
    BY <1>3, <2>3 DEF StopsWell, StartsNow
<1>6. FailureRemembered' /\ FailureReported'
  BY <1>1, <1>2, <1>3, <1>4, <1>5 DEF SmioInv, FailureRemembered, FailureReported, PowerStands
<1>7. SmioKnown'
  BY <1>2, <1>3, <1>4, <1>5 DEF SmioInv, SmioKnown
<1>8. QED
  BY <1>4, <1>6, <1>7 DEF SmioInv

LEMMA SmioInit == Init => SmioInv
<1> SUFFICES ASSUME Init
             PROVE  SmioInv
  OBVIOUS
<1>1. /\ at["pnp"] = "Init" /\ at["policy"] = "ObjectCreated" /\ at["power"] = "ObjectCreated"
      /\ entering = {} /\ device = InitDevice /\ queue["pnp"] = <<>> /\ queue["policy"] = <<>>
  BY DEF Init
<1>2. SmioFits
  BY <1>1 DEF SmioFits, Powering, SmioWaiting, InitDevice, Broken
<1>3. ~Remembering /\ ~StopsWell /\ ~StartsNow
  BY <1>1 DEF Remembering, StopsWell, StartsNow
<1>4. ~Over /\ device.smio = "Created"
  BY <1>1 DEF Over, RemovedStates, InitDevice
<1>5. QED
  BY <1>2, <1>3, <1>4 DEF SmioInv, FailureRemembered, FailureReported, SmioKnown, Good, Startable

LEMMA SmioStep ==
    CountInv /\ StageInv /\ StepInv /\ PnpLockstep /\ SmioInv /\ [Next]_vars => SmioInv'
<1> SUFFICES ASSUME CountInv, StageInv, StepInv, PnpLockstep, SmioInv, [Next]_vars
             PROVE  SmioInv'
  OBVIOUS
<1>1. queue \in Queues /\ Lockstep /\ StepInv'
  BY StepStep DEF StepInv
<1>2. CASE UNCHANGED vars
  BY <1>1, <1>2, CalmReflexive, CalmAside, AsideKeepsSmio DEF vars
<1>3. CASE PowerNext
  BY <1>3, PowerEventKeepsSmio, PowerEntryKeepsSmio DEF PowerNext, Powering
<1>4. CASE PowerPolicyNext
  BY <1>1, <1>4, PolicyEventKeepsSmio, PolicyEntryKeepsSmio DEF PowerPolicyNext
<1>5. CASE PnpNext
  BY <1>5, PnpEventKeepsSmio, PnpEntryKeepsSmio DEF PnpNext
<1>6. CASE SystemNext
  BY <1>1, <1>6, SystemKeepsStep, AsideKeepsSmio
<1>7. CASE UserNext
  BY <1>1, <1>7, UserKeepsStep, AsideKeepsSmio
<1>8. QED
  BY <1>2, <1>3, <1>4, <1>5, <1>6, <1>7 DEF Next

-----------------------------------------------------------------------------
(***************************************************************************)
(* The stages are levels of the ladder, hardware included                  *)
(***************************************************************************)
(* The PnP machine rests only with the hardware prepared while the power   *)
(* policy machine runs                                                     *)
PnpRests == "pnp" \notin entering /\ at["pnp"] \in StartedStates => at["pnp"] \in HwWaiting

LEMMA PnpRestsInit == Init => PnpRests
BY DEF Init, PnpRests, StartedStates

LEMMA PnpRestsStep ==
    CountInv /\ StageInv /\ StepInv /\ PnpRests /\ [Next]_vars => PnpRests'
<1> SUFFICES ASSUME CountInv, StageInv, StepInv, PnpRests, [Next]_vars
             PROVE  PnpRests'
  OBVIOUS
<1>1. queue \in Queues /\ Lockstep
  BY DEF StepInv
<1>2. ASSUME PnpStays
      PROVE  PnpRests'
  BY <1>2 DEF PnpStays, PnpRests
<1>3. ASSUME AsideQuiet
      PROVE  PnpRests'
  BY <1>3 DEF AsideQuiet, PnpRests
<1>4. CASE UNCHANGED vars
  BY <1>4 DEF vars, PnpRests
<1>5. CASE PowerNext
  BY <1>1, <1>2, <1>5, PowerKeepsStep DEF PowerQuiet
<1>6. CASE PowerPolicyNext
  BY <1>1, <1>2, <1>6, PolicyTakes, PolicyMovesAll DEF PowerPolicyNext, PolicyGoes
<1>7. CASE PnpProcessEventInner
  <2>1. CASE \E r \in Row("pnp", PnpRows) : EnterNewState("pnp", r[3], PnpNoEntry)
    <3>1. PICK r \in Row("pnp", PnpRows) : EnterNewState("pnp", r[3], PnpNoEntry)
      BY <2>1
    <3>2. DOMAIN at = Machines /\ "pnp" \in Machines
      BY DEF CountInv, Machines
    <3>3. at'["pnp"] = r[3] /\ ("pnp" \in entering' <=> r[3] \notin PnpNoEntry)
      BY <1>7, <3>1, <3>2 DEF EnterNewState, PnpProcessEventInner, Takes
    <3>4. PnpNoEntry \cap StartedStates = {}
      BY DEF PnpNoEntry, StartedStates
    <3>5. QED
      BY <3>3, <3>4 DEF PnpRests
  <2>2. CASE UNCHANGED <<at, entering>>
    BY <2>2 DEF PnpRests
  <2>3. QED
    BY <1>7, <2>1, <2>2 DEF PnpProcessEventInner
<1>8. CASE PnpEntersState
  <2>1. PICK s, next : <<s, next>> \in PnpMoves /\ PnpGoes(s, next)
    BY <1>1, <1>8, PnpMovesAll
  <2>2. next = Null /\ s \in StartedStates => s \in HwWaiting
    BY <2>1 DEF PnpMoves, StartedStates, HwWaiting, Null
  <2>3. PnpNoEntry \cap StartedStates = {}
    BY DEF PnpNoEntry, StartedStates
  <2>4. QED
    BY <2>1, <2>2, <2>3 DEF PnpGoes, PnpRests
<1>9. CASE SystemNext
  BY <1>1, <1>3, <1>9, SystemKeepsStep
<1>10. CASE UserNext
  BY <1>1, <1>3, <1>10, UserKeepsStep
<1>11. QED
  BY <1>4, <1>5, <1>6, <1>7, <1>8, <1>9, <1>10 DEF Next, PnpNext

(* Without its hardware the device is off                                  *)
LEMMA OffUnprepared ==
    ASSUME Lockstep, PnpLockstep, PnpRests, ~Prepared
    PROVE  at["power"] \in Off /\ ~Powering
<1> DEFINE s == at["pnp"]
<1>1. CASE PnpAsks
  <2>1. s \in {"RemovingDisableInterfaces", "Failed"}
    BY <1>1 DEF PnpAsks, PnpOrderOf, Prepared, HwWaiting
  <2>2. QED
    BY <2>1, PolicyIsOff
<1>2. CASE ~PnpAsks
  <2>1. at["policy"] \in PolicyAt(s)
    BY <1>2, PnpIsActing DEF PnpActs, PolicyFits
  <2>2. s \notin StartedStates
    BY DEF Prepared, PnpRests, HwEntering, HwWaiting, StartedStates
  <2>3. PolicyAt(s) \subseteq {"ObjectCreated", "StartingFailed", "Stopped", "StoppedRemoving", "Removed"}
    BY <2>2 DEF PolicyAt
  <2>4. QED
    BY <2>1, <2>3, PowerIsOff
<1>3. QED
  BY <1>1, <1>2

LEMMA StagesRung ==
    /\ Callbacks!Stages = Stages
    /\ Callbacks!Rung["Hardware"] = 1 /\ Callbacks!Rung["D0Entry"] = 2
    /\ Callbacks!Rung["Resources"] = 3 /\ Callbacks!Rung["PostInterrupts"] = 4
    /\ Callbacks!Rung["Dma"] = 5 /\ Callbacks!Rung["PostHardware"] = 6 /\ Callbacks!Rung["Io"] = 7
BY StageNames DEF Callbacks!Stages, Callbacks!Rung

LEMMA RungLevels ==
    /\ {} \in Callbacks!Levels
    /\ {"Hardware"} \in Callbacks!Levels
    /\ {"Hardware", "D0Entry"} \in Callbacks!Levels
    /\ {"Hardware", "D0Entry", "Resources"} \in Callbacks!Levels
    /\ {"Hardware", "D0Entry", "Resources", "PostInterrupts"} \in Callbacks!Levels
    /\ {"Hardware", "D0Entry", "Resources", "PostInterrupts", "Dma"} \in Callbacks!Levels
    /\ {"Hardware", "D0Entry", "Resources", "PostInterrupts", "Dma", "PostHardware"} \in Callbacks!Levels
    /\ {"Hardware", "D0Entry", "Resources", "PostInterrupts", "Dma", "PostHardware", "Io"}
         \in Callbacks!Levels
<1> DEFINE At(n) == {s \in Callbacks!Stages : Callbacks!Rung[s] <= n}
<1>1. Callbacks!Stages = {"Hardware", "D0Entry", "Resources", "PostInterrupts", "Dma", "PostHardware", "Io"}
  BY StagesRung, StageNames
<1>2. /\ At(0) = {} /\ At(1) = {"Hardware"} /\ At(2) = {"Hardware", "D0Entry"}
      /\ At(3) = {"Hardware", "D0Entry", "Resources"}
      /\ At(4) = {"Hardware", "D0Entry", "Resources", "PostInterrupts"}
  BY <1>1, StagesRung
<1>3. /\ At(5) = {"Hardware", "D0Entry", "Resources", "PostInterrupts", "Dma"}
      /\ At(6) = {"Hardware", "D0Entry", "Resources", "PostInterrupts", "Dma", "PostHardware"}
      /\ At(7) = {"Hardware", "D0Entry", "Resources", "PostInterrupts", "Dma", "PostHardware", "Io"}
  BY <1>1, StagesRung
<1>4. \A n \in 0..7 : At(n) \in Callbacks!Levels
  BY DEF Callbacks!Levels
<1> HIDE DEF At
<1>5. 0 \in 0..7 /\ 1 \in 0..7 /\ 2 \in 0..7 /\ 3 \in 0..7 /\ 4 \in 0..7 /\ 5 \in 0..7 /\ 6 \in 0..7 /\ 7 \in 0..7
  OBVIOUS
<1>6. QED
  BY <1>2, <1>3, <1>4, <1>5

(* While any stage of D0 is up, so is the hardware, and no stage is left   *)
(* out below another                                                       *)
LEMMA UpIsLevel ==
    ASSUME StageInv, Lockstep, PnpLockstep, PnpRests
    PROVE  /\ device.up \in Callbacks!Levels
           /\ device.smio = "Started" => device.up = Stages
           /\ device.up # {} => "Hardware" \in device.up
<1>1. /\ device.up \subseteq Stages /\ device.up \cap InD0 = PowerStages
      /\ "Hardware" \in device.up <=> Prepared
      /\ device.smio = "Started" => Running
  BY DEF StageInv, Device
<1>2. PowerStages \in {{}, {"D0Entry"}, {"D0Entry", "Resources"},
                       {"D0Entry", "Resources", "PostInterrupts"},
                       {"D0Entry", "Resources", "PostInterrupts", "Dma"}, InD0 \ {"Io"}, InD0}
  BY DEF PowerStages, Entering, Waiting
<1>3. ~Prepared => PowerStages = {}
  <2>1. at["power"] \in Off /\ ~Powering => PowerStages = {}
    BY DEF Off, Powering, PowerStages, Waiting
  <2>2. QED
    BY <2>1, OffUnprepared
<1>4. CASE ~Prepared
  BY <1>1, <1>3, <1>4, StageNames, RungLevels DEF Running, RunningEntering, PowerStages, Entering, Waiting
<1>5. CASE Prepared
  <2>1. device.up = {"Hardware"} \cup PowerStages
    BY <1>1, <1>5, StageNames
  <2>2. \/ device.up = {"Hardware"}
        \/ device.up = {"Hardware", "D0Entry"}
        \/ device.up = {"Hardware", "D0Entry", "Resources"}
        \/ device.up = {"Hardware", "D0Entry", "Resources", "PostInterrupts"}
        \/ device.up = {"Hardware", "D0Entry", "Resources", "PostInterrupts", "Dma"}
        \/ device.up = {"Hardware", "D0Entry", "Resources", "PostInterrupts", "Dma", "PostHardware"}
        \/ device.up = {"Hardware", "D0Entry", "Resources", "PostInterrupts", "Dma", "PostHardware", "Io"}
    BY <1>2, <2>1, StageNames
  <2>3. Running => PowerStages = InD0
    BY DEF Running, RunningEntering, PowerStages, Entering, Waiting
  <2>4. QED
    BY <1>1, <2>1, <2>2, <2>3, RungLevels, StageNames
<1>6. QED
  BY <1>4, <1>5

-----------------------------------------------------------------------------
(***************************************************************************)
(* The callbacks of the driver come in the order it is promised            *)
(***************************************************************************)
DeviceInv == CountInv /\ StageInv /\ StepInv /\ PnpLockstep /\ SmioInv /\ PnpRests

Contract == Callbacks!CallbacksNext \/ (device'.up = device.up /\ SelfManagedIo' = SelfManagedIo)

(* A step that leaves where the PnP machine and the power machine are      *)
LEMMA UpStands ==
    ASSUME StageInv, StageInv', PowerStands
    PROVE  /\ device'.up \cap InD0 = device.up \cap InD0
           /\ (Prepared' <=> Prepared) => device'.up = device.up
<1>1. PowerStages' = PowerStages
  BY DEF PowerStands, PowerStages, Powering
<1>2. /\ device.up \subseteq Stages /\ device'.up \subseteq Stages
      /\ device.up \cap InD0 = PowerStages /\ device'.up \cap InD0 = PowerStages'
      /\ "Hardware" \in device.up <=> Prepared
      /\ "Hardware" \in device'.up <=> Prepared'
  BY DEF StageInv, Device
<1>3. QED
  BY <1>1, <1>2, StageNames

LEMMA StandsContract ==
    ASSUME StageInv, StageInv', PowerStands, PnpStays, device'.smio = device.smio
    PROVE  Contract
<1>1. Prepared' <=> Prepared
  BY DEF Prepared, PnpStays
<1>2. QED
  BY <1>1, UpStands DEF Contract, SelfManagedIo

(* Nothing starts self managed I/O where queue I/O runs already            *)
LEMMA IoStartsSmio == \A s : SmioEntering(s, FALSE) \subseteq Startable => "Io" \notin Entering(s)
<1> SUFFICES ASSUME NEW s, "Io" \in Entering(s)
             PROVE  ~(SmioEntering(s, FALSE) \subseteq Startable)
  OBVIOUS
<1>1. s \in {"DecideD0State", "D0", "InitialSelfManagedIoFailedStarted",
            "InitialSelfManagedIoFailed", "StartSelfManagedIoFailedStarted",
            "StartSelfManagedIoFailed", "GotoD3Stopped", "GotoDx"}
  BY StageNames DEF Entering
<1>2. "Started" \in SmioEntering(s, FALSE) \/ "Failed" \in SmioEntering(s, FALSE)
  BY <1>1 DEF SmioEntering
<1>3. QED
  BY <1>2 DEF Startable

LEMMA OneOrTwo ==
    ASSUME NEW S, NEW T, NEW x \in {{"Hardware"}, {"D0Entry"}, {"Resources"},
             {"Resources", "PostInterrupts"}, {"Dma"}, {"PostHardware"}, {"Io"}},
           T = S \cup x, T # S
    PROVE  Cardinality(T \ S) \in {1, 2}
<1>1. \A a : Cardinality({a}) = 1
  BY FS_Singleton
<1>2. Cardinality({"Resources", "PostInterrupts"}) = 2
  <2>1. IsFiniteSet({"Resources"}) /\ Cardinality({"Resources"}) = 1
    BY FS_Singleton
  <2>2. Cardinality({"Resources"} \cup {"PostInterrupts"}) = 2
    BY <2>1, FS_AddElement
  <2>3. {"Resources", "PostInterrupts"} = {"Resources"} \cup {"PostInterrupts"}
    OBVIOUS
  <2>4. QED
    BY <2>2, <2>3
<1>3. \/ T \ S = {"Hardware"} \/ T \ S = {"D0Entry"} \/ T \ S = {"Resources"}
      \/ T \ S = {"PostInterrupts"} \/ T \ S = {"Resources", "PostInterrupts"}
      \/ T \ S = {"Dma"} \/ T \ S = {"PostHardware"} \/ T \ S = {"Io"}
  OBVIOUS
<1>4. QED
  BY <1>1, <1>2, <1>3

(* the cardinality of the abstract specification is that of the library    *)
LEMMA Counts == \A S : Callbacks!Cardinality(S) = Cardinality(S)
BY DEF Callbacks!Cardinality, Cardinality

LEMMA SmioNames ==
    /\ SelfManagedIo \in {"fresh", "running", "suspended", "gone"}
    /\ SelfManagedIo = "running" <=> device.smio = "Started"
    /\ SelfManagedIo = "gone" <=> device.smio = "Final"
    /\ SelfManagedIo = "fresh" <=> device.smio = "Created"
BY DEF SelfManagedIo

LEMMA PowerEntryContract ==
    ASSUME DeviceInv, DeviceInv', Powering, PowerEntersState
    PROVE  Contract
<1>1. /\ CountInv /\ StageInv /\ queue \in Queues /\ Lockstep /\ PnpLockstep /\ SmioInv /\ SmioFits
      /\ PnpRests /\ StageInv' /\ Lockstep' /\ PnpLockstep' /\ PnpRests'
  BY DEF DeviceInv, StepInv, SmioInv
<1>2. CalledUp \/ CalledDown \/ NotCalled
  BY <1>1, PowerManagesAll DEF PowerManages
<1>3. device.up \in Callbacks!Levels /\ (device.up # {} => "Hardware" \in device.up)
  BY <1>1, UpIsLevel
<1>4. device'.up \in Callbacks!Levels /\ (device'.up # {} => "Hardware" \in device'.up)
  <2>1. (StageInv /\ Lockstep /\ PnpLockstep /\ PnpRests =>
           device.up \in Callbacks!Levels /\ (device.up # {} => "Hardware" \in device.up))'
    BY UpIsLevel, PTL
  <2>2. QED
    BY <1>1, <2>1
<1>5. CASE NotCalled
  BY <1>5 DEF NotCalled, Contract
<1>6. CASE CalledUp
  <2>1. PICK x \in {{"Hardware"}, {"D0Entry"}, {"Resources"}, {"Resources", "PostInterrupts"}, {"Dma"},
                    {"PostHardware"}, {"Io"}} :
          /\ device'.up = device.up \cup x
          /\ \/ SelfManagedIo' = SelfManagedIo
             \/ /\ x = {"Io"} /\ SmioEntering(at["power"], FALSE) \subseteq Startable
                /\ SelfManagedIo' \in {"running", "suspended"}
    BY <1>6 DEF CalledUp
  <2>2. SelfManagedIo # "gone"
    <3>1. device.smio = "Final" => at["pnp"] \in RemovedStates
      BY <1>1 DEF SmioInv, SmioKnown, RemovedStates
    <3>2. QED
      BY <1>1, <3>1, PolicyIsOff, SmioNames
  <2>3. CASE device'.up = device.up
    <3>1. x = {"Io"} => "Io" \in PowerStages
      BY <1>1, <2>1, <2>3, StageNames DEF StageInv
    <3>2. SelfManagedIo' = SelfManagedIo
      BY <2>1, <3>1, IoStartsSmio DEF PowerStages, Powering
    <3>3. QED
      BY <2>3, <3>2 DEF Contract
  <2>4. CASE device'.up # device.up
    <3>1. Cardinality(device'.up \ device.up) \in {1, 2}
      BY <2>1, <2>4, OneOrTwo
    <3>2. Callbacks!Starts
      BY <1>4, <2>1, <2>2, <3>1, Counts DEF Callbacks!Starts
    <3>3. QED
      BY <3>2 DEF Contract, Callbacks!CallbacksNext
  <2>5. QED
    BY <2>3, <2>4
<1>7. CASE CalledDown
  <2>1. PICK x \in SUBSET InD0 :
          /\ device'.up = device.up \ x
          /\ SelfManagedIo' = IF SelfManagedIo = "running" THEN "suspended" ELSE SelfManagedIo
    BY <1>7 DEF CalledDown
  <2>2. "Hardware" \notin x
    BY StageNames
  <2>3. CASE device'.up = device.up
    BY <2>1, <2>3 DEF Contract, Callbacks!CallbacksNext, Callbacks!Suspends
  <2>4. CASE device'.up # device.up
    <3>1. device'.up # {}
      BY <1>3, <2>1, <2>2, <2>4
    <3>2. Callbacks!Ends
      BY <1>4, <2>1, <2>4, <3>1 DEF Callbacks!Ends
    <3>3. QED
      BY <3>2 DEF Contract, Callbacks!CallbacksNext
  <2>5. QED
    BY <2>3, <2>4
<1>8. QED
  BY <1>2, <1>5, <1>6, <1>7

LEMMA PnpEntryContract ==
    ASSUME DeviceInv, DeviceInv', PnpEntersState
    PROVE  Contract
<1>1. /\ CountInv /\ StageInv /\ queue \in Queues /\ Lockstep /\ PnpLockstep /\ SmioInv
      /\ PnpRests /\ StageInv' /\ Lockstep' /\ PnpLockstep' /\ PnpRests'
  BY DEF DeviceInv, StepInv
<1>2. PICK s, next : <<s, next>> \in PnpMoves /\ PnpGoes(s, next)
  BY <1>1, PnpMovesAll
<1>3. /\ at["pnp"] = s /\ PolicyStands /\ PowerStands /\ PnpManages(s)
      /\ "pnp" \in entering
  BY <1>2 DEF PnpGoes
<1>4. /\ device.up \in Callbacks!Levels /\ (device.up # {} => "Hardware" \in device.up)
      /\ device.smio = "Started" => device.up = Stages
      /\ device.up \subseteq Stages
  BY <1>1, UpIsLevel DEF StageInv, Device
<1>5. /\ device'.up \in Callbacks!Levels /\ (device'.up # {} => "Hardware" \in device'.up)
      /\ device'.smio = "Started" => device'.up = Stages
      /\ device'.up \subseteq Stages
  <2>1. (StageInv /\ Lockstep /\ PnpLockstep /\ PnpRests =>
           /\ device.up \in Callbacks!Levels /\ (device.up # {} => "Hardware" \in device.up)
           /\ device.smio = "Started" => device.up = Stages)'
    BY UpIsLevel, PTL
  <2>2. QED
    BY <1>1, <2>1 DEF StageInv, Device
<1>6. device'.up \cap InD0 = device.up \cap InD0
  BY <1>1, <1>3, UpStands
<1>7. \/ device'.up = device.up
      \/ device.up = {} /\ device'.up = {"Hardware"}
      \/ device.up = {"Hardware"} /\ device'.up = {}
  BY <1>4, <1>5, <1>6, StageNames
<1>8. CASE SmioEventOf(s) = "none"
  <2>1. SelfManagedIo' = SelfManagedIo
    BY <1>3, <1>8 DEF PnpManages, SmioStays, SelfManagedIo
  <2>2. CASE device'.up = device.up
    BY <2>1, <2>2 DEF Contract
  <2>3. CASE device.up = {} /\ device'.up = {"Hardware"}
    <3>1. at'["pnp"] \in HwEntering \cup HwWaiting
      BY <1>1, <2>3 DEF StageInv, Prepared
    <3>2. s # "Final"
      BY <1>2, <3>1, ManagedMoves DEF PnpGoes, HwEntering, HwWaiting, Null
    <3>3. Cardinality(device'.up \ device.up) \in {1, 2}
      BY <2>3, OneOrTwo
    <3>4. Callbacks!Starts
      BY <1>3, <1>1, <1>5, <2>1, <2>3, <3>2, <3>3, SmioNames, Counts DEF Callbacks!Starts, SmioInv, SmioKnown
    <3>5. QED
      BY <3>4 DEF Contract, Callbacks!CallbacksNext
  <2>4. CASE device.up = {"Hardware"} /\ device'.up = {}
    <3>1. device.smio # "Started"
      BY <1>4, <2>4, StageNames
    <3>2. Callbacks!Ends
      BY <1>5, <2>1, <2>4, <3>1, SmioNames DEF Callbacks!Ends
    <3>3. QED
      BY <3>2 DEF Contract, Callbacks!CallbacksNext
  <2>5. QED
    BY <1>7, <2>2, <2>3, <2>4
<1>9. CASE SmioEventOf(s) # "none"
  <2>1. /\ s \in {"RemovingDisableInterfaces", "Failed"} => SmioEventOf(s) = "Flush"
        /\ s = "FdoRemoved" => SmioEventOf(s) = "Cleanup"
        /\ s \in {"RemovingDisableInterfaces", "Failed", "FdoRemoved"}
    BY <1>9 DEF SmioEventOf
  <2>2. device.smio \in SelfManaged!SelfManagedIoStates \ {"Started", "Final"}
    <3>1. device.smio \in SelfManaged!SelfManagedIoStates
      BY <1>1 DEF StageInv, Device
    <3>2. at["power"] \in Off /\ ~Powering
      BY <1>1, <1>3, <2>1, PolicyIsOff DEF RemovedStates
    <3>3. device.smio # "Started"
      BY <1>1, <3>2 DEF StageInv, Running, Off, Powering
    <3>4. device.smio # "Final"
      BY <1>1, <1>3, <2>1 DEF SmioInv, SmioKnown
    <3>5. QED
      BY <3>1, <3>3, <3>4
  <2>3. PICK o \in SelfManaged!ProcessEvent(device.smio, SmioEventOf(s)) : device'.smio = o.state
    BY <1>3, <1>9 DEF PnpManages, SmioGets
  <2>4. CASE s \in {"RemovingDisableInterfaces", "Failed"}
    <3>1. device'.smio = IF device.smio = "Created" THEN "Created" ELSE "Flushed"
      BY <2>1, <2>2, <2>3, <2>4, SmioOutcomes
    <3>2. SelfManagedIo' = SelfManagedIo /\ SelfManagedIo # "running"
      BY <2>2, <3>1 DEF SelfManagedIo
    <3>3. "Hardware" \notin device'.up
      <4>1. next = Null
        BY <1>2, <2>4, ManagedMoves
      <4>2. at'["pnp"] = s /\ "pnp" \notin entering'
        BY <1>2, <4>1 DEF PnpGoes
      <4>3. QED
        BY <1>1, <2>4, <4>2 DEF StageInv, Prepared, HwWaiting
    <3>4. device'.up = device.up \/ Callbacks!Ends
      BY <1>5, <1>7, <3>2, <3>3 DEF Callbacks!Ends
    <3>5. QED
      BY <3>2, <3>4 DEF Contract, Callbacks!CallbacksNext
  <2>5. CASE s = "FdoRemoved"
    <3>1. device.smio \in {"Created", "Flushed"}
      BY <1>1, <1>3, <2>5 DEF SmioInv, SmioKnown, Over, RemovedStates
    <3>2. device'.smio = "Final"
      BY <2>1, <2>2, <2>3, <2>5, <3>1, SmioOutcomes
    <3>3. "Hardware" \notin device.up
      BY <1>1, <1>3, <2>5 DEF StageInv, Prepared, HwEntering, HwWaiting
    <3>4. "Hardware" \notin device'.up
      <4>1. at'["pnp"] = "Final"
        BY <1>2, <2>5, ManagedMoves DEF PnpGoes, Null
      <4>2. QED
        BY <1>1, <4>1 DEF StageInv, Prepared, HwEntering, HwWaiting
    <3>5. device.up = {} /\ device'.up = {}
      BY <1>4, <1>5, <3>3, <3>4
    <3>6. SelfManagedIo \in {"fresh", "suspended"} /\ SelfManagedIo' = "gone"
      BY <3>1, <3>2 DEF SelfManagedIo
    <3>7. QED
      BY <3>5, <3>6 DEF Contract, Callbacks!CallbacksNext, Callbacks!CleansUp
  <2>6. QED
    BY <2>1, <2>4, <2>5
<1>10. QED
  BY <1>8, <1>9

LEMMA ContractStep ==
    ASSUME DeviceInv, DeviceInv', [Next]_vars
    PROVE  Contract
<1>1. /\ CountInv /\ StageInv /\ StageInv' /\ queue \in Queues /\ Lockstep /\ PnpLockstep
  BY DEF DeviceInv, StepInv
<1>2. ASSUME AsideQuiet
      PROVE  Contract
  <2>1. PowerStands /\ PnpStays
    BY <1>1, <1>2 DEF AsideQuiet, PowerStands, PnpStays, CountInv, Powering
  <2>2. device'.smio = device.smio
    BY <1>1, <1>2 DEF AsideQuiet, StageInv, Device
  <2>3. QED
    BY <1>1, <2>1, <2>2, StandsContract
<1>3. CASE UNCHANGED vars
  BY <1>3 DEF vars, Contract, SelfManagedIo
<1>4. CASE PowerProcessEventInner
  BY <1>4 DEF PowerProcessEventInner, Contract, SelfManagedIo
<1>5. CASE Powering /\ PowerEntersState
  BY <1>5, PowerEntryContract
<1>6. CASE PowerPolicyProcessEventInner
  BY <1>1, <1>6, PolicyTakes DEF Contract, SelfManagedIo
<1>7. CASE PowerPolicyEntersState
  <2>1. PICK s, next : PolicyGoes(s, next)
    BY <1>1, <1>7, PolicyMovesAll
  <2>2. PowerStands /\ PnpStays /\ device'.smio = device.smio
    BY <2>1 DEF PolicyGoes, SmioStays
  <2>3. QED
    BY <1>1, <2>2, StandsContract
<1>8. CASE PnpProcessEventInner
  BY <1>1, <1>8, PnpTakes DEF Contract, SelfManagedIo
<1>9. CASE PnpEntersState
  BY <1>9, PnpEntryContract
<1>10. CASE SystemNext
  BY <1>1, <1>2, <1>10, SystemKeepsStep
<1>11. CASE UserNext
  BY <1>1, <1>2, <1>11, UserKeepsStep
<1>12. QED
  BY <1>3, <1>4, <1>5, <1>6, <1>7, <1>8, <1>9, <1>10, <1>11
     DEF Next, PowerNext, PowerPolicyNext, PnpNext, Powering

-----------------------------------------------------------------------------
(***************************************************************************)
(* What holds of every composition                                         *)
(***************************************************************************)
LEMMA DeviceInit == Init => DeviceInv
BY CountInit, StageInit, StepInit, PnpStepInit, SmioInit, PnpRestsInit DEF DeviceInv

LEMMA DeviceStep == DeviceInv /\ [Next]_vars => DeviceInv'
<1> SUFFICES ASSUME DeviceInv, [Next]_vars
             PROVE  DeviceInv'
  OBVIOUS
<1>1. CountInv /\ StageInv /\ StepInv /\ PnpLockstep /\ SmioInv /\ PnpRests
  BY DEF DeviceInv
<1>2. CountInv'
  BY <1>1, CountStep
<1>3. StageInv'
  BY <1>1, StageStep
<1>4. StepInv'
  BY <1>1, StepStep
<1>5. PnpLockstep'
  BY <1>1, PnpStepStep
<1>6. SmioInv'
  BY <1>1, SmioStep
<1>7. PnpRests'
  BY <1>1, PnpRestsStep
<1>8. QED
  BY <1>2, <1>3, <1>4, <1>5, <1>6, <1>7 DEF DeviceInv

(* The inductive invariant of all that follows: the references are those   *)
(* of their holders, the states tell which stages are up, the three        *)
(* machines take turns, and self managed I/O is in a state that the place  *)
(* of the power and PnP machines allows (powerstatemachine.cpp,            *)
(* powerpolicystatemachine.cpp, pnpstatemachine.cpp).                      *)
THEOREM DeviceCorrect == Spec => []DeviceInv
<1>1. QED
  BY DeviceInit, DeviceStep, PTL DEF Spec

(* Though the PnP, power policy and power machines run in threads of their *)
(* own and hear of each other by events only, they take turns: each of the *)
(* two orders of the chain (start, stop, remove; implicit D0 and D3,       *)
(* complete D0 and Dx, and the device power IRPs) is on its way, being     *)
(* carried out, or answered, and never two of a kind at once; and who is   *)
(* waited for is in a state from which the order, or the answer, follows.  *)
THEOREM MachinesTakeTurns == Spec => [](Lockstep /\ PnpLockstep)
<1>1. DeviceInv => Lockstep /\ PnpLockstep
  BY DEF DeviceInv, StepInv
<1>2. QED
  BY <1>1, DeviceCorrect, PTL

(* The event queue of the power machine never holds more than one event,   *)
(* as the ASSERT of PowerProcessEvent needs ("The Power queue is full.     *)
(* This shouldn't be able to happen", powerstatemachine.cpp): it is the    *)
(* part of NoEventLost that holds in all plans.                            *)
PowerQueueFits == Len(queue["power"]) <= 1 /\ ~IsFull(queue, "power")

THEOREM PowerQueueNeverFull == Spec => []PowerQueueFits
<1>1. DeviceInv => PowerQueueFits
  <2> SUFFICES ASSUME DeviceInv
               PROVE  PowerQueueFits
    OBVIOUS
  <2>1. Lockstep
    BY DEF DeviceInv, StepInv
  <2>2. NoOrder \/ queue["power"] = <<OrderOf(at["policy"])>>
    BY <2>1 DEF Lockstep, PolicyActs, OrderQueued, IrpSent, PowerActs, IrpReleased, Answered
  <2>3. CASE NoOrder
    <3>1. Len(queue["power"]) = 0
      BY <2>3 DEF NoOrder
    <3>2. QED
      BY <3>1 DEF PowerQueueFits, IsFull, QueueDepth
  <2>4. CASE queue["power"] = <<OrderOf(at["policy"])>>
    <3> DEFINE o == OrderOf(at["policy"])
    <3>1. queue["power"] = <<o>>
      BY <2>4
    <3> HIDE DEF o
    <3>2. Len(<<o>>) = 1
      OBVIOUS
    <3>3. Len(queue["power"]) = 1
      BY <3>1, <3>2
    <3>4. QED
      BY <3>3 DEF PowerQueueFits, IsFull, QueueDepth
  <2>5. QED
    BY <2>2, <2>3, <2>4
<1>2. QED
  BY <1>1, DeviceCorrect, PTL

(* The power policy machine sends one device power IRP at a time: the      *)
(* older is on its way up already where a second is there, a Dx behind a   *)
(* D0.  The lower drivers find the device idle: no callback of D0 (entry,  *)
(* interrupts, DMA, queues) has been made that was not undone while they   *)
(* have a D0 to complete before the driver, or a Dx after it               *)
(* (PowerPolicySendDevicePowerRequest, DispatchDeviceSetPower,             *)
(* PowerReleasePendingDeviceIrp).                                          *)
IrpsInTurn ==
    /\ \A i, j \in DOMAIN irps.device :
         irps.device[i].stage # "released" /\ irps.device[j].stage # "released" => i = j
    /\ \A i \in DOMAIN irps.device :
         irps.device[i] \in {Irp("D0", "sent"), Irp("Dx", "released")} => device.up \cap InD0 = {}

(* Who sees the IRPs while the device is up.                               *)
THEOREM OneIrpAtATime == Spec => []IrpsInTurn
<1>1. DeviceInv => IrpsInTurn
  <2> SUFFICES ASSUME DeviceInv
               PROVE  IrpsInTurn
    OBVIOUS
  <2>1. Lockstep /\ device.up \cap InD0 = PowerStages
    BY DEF DeviceInv, StepInv, StageInv
  <2> DEFINE o == OrderOf(at["policy"])
             Given == \/ irps.device = <<>>
                      \/ \E to \in {"D0", "Dx"} : irps.device = <<Irp(to, "pending")>>
                      \/ irps.device = <<Irp("D0", "released")>>
  <2>2. Given => IrpsInTurn
    <3>1. ASSUME NEW r, irps.device = <<r>>, r \notin {Irp("D0", "sent"), Irp("Dx", "released")}
          PROVE  IrpsInTurn
      BY <3>1 DEF IrpsInTurn
    <3>2. irps.device = <<>> => IrpsInTurn
      BY DEF IrpsInTurn
    <3>3. QED
      BY <3>1, <3>2 DEF Irp
  <2>3. WorksOn("D0") \/ WorksOn("Dx") => Given
    BY DEF WorksOn
  <2>4. IrpsFit => Given
    <3>1. Work \in {"none", "D0", "Dx"}
      BY DEF Work, WorkOf
    <3>2. QED
      BY <2>3, <3>1 DEF IrpsFit, NoIrp
  <2>5. CASE PolicyActs \/ PowerActs \/ Answered
    BY <2>2, <2>4, <2>5 DEF PolicyActs, PowerActs, Answered
  <2>6. CASE OrderQueued
    <3>1. o \in {"D0", "Dx"} => WorksOn("D0") \/ WorksOn("Dx")
      BY <2>6 DEF OrderQueued
    <3>2. o \notin {"D0", "Dx"} => IrpsFit
      BY <2>6 DEF OrderQueued
    <3>3. QED
      BY <2>2, <2>3, <2>4, <3>1, <3>2
  <2>7. CASE IrpSent
    <3>1. CASE o = "D0"
      <4>1. at["power"] = "Dx" /\ ~Powering
        BY <2>7, <3>1, OrderRests DEF IrpSent, Rests, DZero
      <4>2. device.up \cap InD0 = {}
        BY <2>1, <4>1 DEF PowerStages, Powering, Waiting
      <4>3. irps.device = <<Irp("D0", "sent")>>
        BY <2>7, <3>1 DEF IrpSent
      <4>4. QED
        BY <4>2, <4>3 DEF IrpsInTurn
    <3>2. CASE o = "Dx"
      <4>1. \/ irps.device = <<Irp("Dx", "sent")>>
            \/ irps.device = <<Irp("D0", "released"), Irp("Dx", "sent")>>
        BY <2>7, <3>2 DEF IrpSent
      <4>2. /\ Irp("Dx", "sent").stage = "sent" /\ Irp("D0", "released").stage = "released"
            /\ Irp("Dx", "sent") \notin {Irp("D0", "sent"), Irp("Dx", "released")}
            /\ Irp("D0", "released") \notin {Irp("D0", "sent"), Irp("Dx", "released")}
        BY DEF Irp
      <4>3. CASE irps.device = <<Irp("Dx", "sent")>>
        BY <4>2, <4>3 DEF IrpsInTurn
      <4>4. CASE irps.device = <<Irp("D0", "released"), Irp("Dx", "sent")>>
        <5>1. /\ DOMAIN irps.device = {1, 2} /\ irps.device[1] = Irp("D0", "released")
              /\ irps.device[2] = Irp("Dx", "sent")
          BY <4>4
        <5>2. QED
          BY <4>2, <5>1 DEF IrpsInTurn
      <4>5. QED
        BY <4>1, <4>3, <4>4
    <3>3. QED
      BY <2>7, <3>1, <3>2 DEF IrpSent
  <2>8. CASE IrpReleased
    <3>1. ~Powering /\ at["power"] \in {"ReportPowerDownFailed", "Dx"}
      BY <2>8 DEF IrpReleased
    <3>2. device.up \cap InD0 = {}
      BY <2>1, <3>1 DEF PowerStages, Powering, Waiting
    <3>3. irps.device = <<Irp("Dx", "released")>>
      BY <2>8 DEF IrpReleased
    <3>4. QED
      BY <3>2, <3>3 DEF IrpsInTurn
  <2>9. QED
    BY <2>1, <2>5, <2>6, <2>7, <2>8 DEF Lockstep
<1>2. QED
  BY <1>1, DeviceCorrect, PTL

(* No callback or resource is started twice or ended without having been   *)
(* started, and the self managed I/O machine gets no event that the table  *)
(* of its state does not list (SelfManagedIoMachineProcessEventLocked),    *)
(* through power ups and downs that fail at any step, restarts after them  *)
(* and removals in any state, in all plans.                                *)
THEOREM CallbacksNeverMisused == Spec => []CallbacksPaired
<1>1. DeviceInv => CallbacksPaired
  <2> SUFFICES ASSUME DeviceInv
               PROVE  CallbacksPaired
    OBVIOUS
  <2>1. device.misused \subseteq {"stage", "smio"} /\ "stage" \notin device.misused
    BY DEF DeviceInv, StageInv, Device
  <2>2. "smio" \notin device.misused
    BY DEF DeviceInv, SmioInv, SmioFits
  <2>3. QED
    BY <2>1, <2>2 DEF CallbacksPaired
<1>2. QED
  BY <1>1, DeviceCorrect, PTL

(* The composed machines implement the contract with the driver: whatever  *)
(* the PnP manager, the power manager, the idle timer and failures do in   *)
(* between, the driver is called to start its stages in order and end them *)
(* in the reverse order, self managed I/O is started only with the last of *)
(* them and suspended before the first is ended, and cleaned up once, when *)
(* the device is all down (powerstatemachine.cpp, pnpstatemachine.cpp).    *)
THEOREM ContractKept == Spec => CallbackContract
<1>1. Init => Callbacks!CallbacksInit
  BY DEF Init, InitDevice, Callbacks!CallbacksInit, SelfManagedIo
<1>2. DeviceInv /\ DeviceInv' /\ [Next]_vars =>
        [Callbacks!CallbacksNext]_<<device.up, SelfManagedIo>>
  <2> SUFFICES ASSUME DeviceInv, DeviceInv', [Next]_vars
               PROVE  [Callbacks!CallbacksNext]_<<device.up, SelfManagedIo>>
    OBVIOUS
  <2>1. Contract
    BY ContractStep
  <2>2. QED
    BY <2>1 DEF Contract
<1>3. QED
  BY <1>1, <1>2, DeviceCorrect, PTL DEF Spec, CallbackContract, Callbacks!CallbacksSpec

(* So a driver may rely on what follows from the contract (CallbacksSound) *)
(* of any device: it runs self managed I/O only with every stage up, its   *)
(* hardware is there before and after everything else, and after its       *)
(* cleanup nothing is up.                                                  *)
THEOREM DriverMayRely == Spec => []Callbacks!CallbacksInv
<1>1. DeviceInv => Callbacks!CallbacksInv
  <2> SUFFICES ASSUME DeviceInv
               PROVE  Callbacks!CallbacksInv
    OBVIOUS
  <2>1. StageInv /\ Lockstep /\ PnpLockstep /\ PnpRests /\ SmioInv
    BY DEF DeviceInv, StepInv
  <2>2. /\ device.up \in Callbacks!Levels
        /\ device.smio = "Started" => device.up = Stages
        /\ device.up # {} => "Hardware" \in device.up
    BY <2>1, UpIsLevel
  <2>3. SelfManagedIo = "gone" => device.up = {}
    <3>1. SUFFICES ASSUME device.smio = "Final"
                   PROVE  device.up = {}
      BY SmioNames
    <3>2. at["pnp"] = "Final"
      BY <2>1, <3>1 DEF SmioInv, SmioKnown
    <3>3. "Hardware" \notin device.up
      BY <2>1, <3>2 DEF StageInv, Prepared, HwEntering, HwWaiting
    <3>4. QED
      BY <2>2, <3>3
  <2>4. QED
    BY <2>2, <2>3, SmioNames, StagesRung
       DEF Callbacks!CallbacksInv, Callbacks!RunsWithAllUp, Callbacks!HardwareFirst,
           Callbacks!NothingAfterCleanup
<1>2. QED
  BY <1>1, DeviceCorrect, PTL

-----------------------------------------------------------------------------
(***************************************************************************)
(* What a machine waits for is in its table                                *)
(***************************************************************************)
(* The events that a machine waits for: orders and answers                 *)
Awaited(m) ==
  CASE m = "pnp" -> Statuses
    [] m = "policy" -> PwrPolPriorityEventsMask \cup {"Start", "Remove"}
    [] m = "power" -> {"ImplicitD0", "ImplicitD3", "D0", "Dx", "CompleteD0", "CompleteDx"}

(* Where a start is undone the power policy machine expects the power      *)
(* machine to have stopped, but not to have failed to                      *)
Undoing == <<"StartingPoweredUpFailed", "PowerDownFailed">>

LEMMA AnswerHasRow ==
    ASSUME NEW s, NEW a \in PwrPolPriorityEventsMask, Outcome(OrderOf(s), a) # {}, <<s, a>> # Undoing
    PROVE  \E r \in PolicyRows : r[1] = s /\ r[2] = a
<1> DEFINE o == OrderOf(s)
           Has(t, b) == \E r \in PolicyRows : r[1] = t /\ r[2] = b
<1>1. \A r \in StartRows \cup IdleRows \cup SleepRows \cup StopRows : r \in PolicyRows
  BY DEF PolicyRows
<1>2. \/ o = "ImplicitD0" /\ a \in {"PowerUp", "PowerUpFailed"}
      \/ o = "ImplicitD3" /\ a \in {"PowerDown", "PowerDownFailed"}
      \/ o = "Dx" /\ a \in {"PowerDownIoStopped", "PowerDown"}
      \/ o = "CompleteDx" /\ a \in {"PowerDown", "PowerDownFailed"}
      \/ o = "D0" /\ a \in {"PowerUpHwStarted", "PowerUpNotSeen", "PowerUpFailed"}
      \/ o = "CompleteD0" /\ a \in {"PowerUp", "PowerUpFailed"}
  BY DEF Outcome
<1>3. CASE o = "ImplicitD0" /\ a \in {"PowerUp", "PowerUpFailed"}
  <2>1. s \in {"Starting", "Restarting"}
    BY <1>3 DEF OrderOf
  <2>2. \A t \in {"Starting", "Restarting"}, b \in {"PowerUp", "PowerUpFailed"} :
          \E r \in StartRows : r[1] = t /\ r[2] = b
    BY DEF StartRows
  <2>3. QED
    BY <1>1, <1>3, <2>1, <2>2
<1>4. CASE o = "ImplicitD3" /\ a \in {"PowerDown", "PowerDownFailed"}
  <2>1. (s = "StartingPoweredUpFailed" /\ a = "PowerDown") \/ s = "Stopping"
    BY <1>4 DEF OrderOf, Undoing
  <2>2. \E r \in StartRows : r[1] = "StartingPoweredUpFailed" /\ r[2] = "PowerDown"
    BY DEF StartRows
  <2>3. \A b \in {"PowerDown", "PowerDownFailed"} : \E r \in StopRows : r[1] = "Stopping" /\ r[2] = b
    BY DEF StopRows
  <2>4. QED
    BY <1>1, <1>4, <2>1, <2>2, <2>3
<1>5. CASE o = "Dx" /\ a \in {"PowerDownIoStopped", "PowerDown"}
  <2>1. s \in {"TimerExpiredNoWake", "SleepingNoWakePowerDown"}
    BY <1>5 DEF OrderOf
  <2>2. \A b \in {"PowerDownIoStopped", "PowerDown"} :
          \E r \in IdleRows : r[1] = "TimerExpiredNoWake" /\ r[2] = b
    BY DEF IdleRows
  <2>3. \A b \in {"PowerDownIoStopped", "PowerDown"} :
          \E r \in SleepRows : r[1] = "SleepingNoWakePowerDown" /\ r[2] = b
    BY DEF SleepRows
  <2>4. QED
    BY <1>1, <1>5, <2>1, <2>2, <2>3
<1>6. CASE o = "CompleteDx" /\ a \in {"PowerDown", "PowerDownFailed"}
  <2>1. s \in {"TimerExpiredNoWakeCompletePowerDown", "SleepingNoWakeCompletePowerDown"}
    BY <1>6 DEF OrderOf
  <2>2. \A b \in {"PowerDown", "PowerDownFailed"} :
          \E r \in IdleRows : r[1] = "TimerExpiredNoWakeCompletePowerDown" /\ r[2] = b
    BY DEF IdleRows
  <2>3. \A b \in {"PowerDown", "PowerDownFailed"} :
          \E r \in SleepRows : r[1] = "SleepingNoWakeCompletePowerDown" /\ r[2] = b
    BY DEF SleepRows
  <2>4. QED
    BY <1>1, <1>6, <2>1, <2>2, <2>3
<1>7. CASE o = "D0" /\ a \in {"PowerUpHwStarted", "PowerUpNotSeen", "PowerUpFailed"}
  <2>1. s \in {"S0NoWakePowerUp", "SystemWakeDeviceToD0", "StoppingResetDevice"}
    BY <1>7 DEF OrderOf
  <2>2. \A b \in {"PowerUpHwStarted", "PowerUpNotSeen", "PowerUpFailed"} :
          \E r \in IdleRows : r[1] = "S0NoWakePowerUp" /\ r[2] = b
    BY DEF IdleRows
  <2>3. \A b \in {"PowerUpHwStarted", "PowerUpNotSeen", "PowerUpFailed"} :
          \E r \in SleepRows : r[1] = "SystemWakeDeviceToD0" /\ r[2] = b
    BY DEF SleepRows
  <2>4. \A b \in {"PowerUpHwStarted", "PowerUpNotSeen", "PowerUpFailed"} :
          \E r \in StopRows : r[1] = "StoppingResetDevice" /\ r[2] = b
    BY DEF StopRows
  <2>5. QED
    BY <1>1, <1>7, <2>1, <2>2, <2>3, <2>4
<1>8. CASE o = "CompleteD0" /\ a \in {"PowerUp", "PowerUpFailed"}
  <2>1. s \in {"S0NoWakeCompletePowerUp", "SystemWakeDeviceToD0CompletePowerUp",
               "StoppingResetDeviceCompletePowerUp"}
    BY <1>8 DEF OrderOf
  <2>2. \A b \in {"PowerUp", "PowerUpFailed"} :
          \E r \in IdleRows : r[1] = "S0NoWakeCompletePowerUp" /\ r[2] = b
    BY DEF IdleRows
  <2>3. \A b \in {"PowerUp", "PowerUpFailed"} :
          \E r \in SleepRows : r[1] = "SystemWakeDeviceToD0CompletePowerUp" /\ r[2] = b
    BY DEF SleepRows
  <2>4. \A b \in {"PowerUp", "PowerUpFailed"} :
          \E r \in StopRows : r[1] = "StoppingResetDeviceCompletePowerUp" /\ r[2] = b
    BY DEF StopRows
  <2>5. QED
    BY <1>1, <1>8, <2>1, <2>2, <2>3, <2>4
<1>9. QED
  BY <1>2, <1>3, <1>4, <1>5, <1>6, <1>7, <1>8

LEMMA StartHasRow ==
    /\ \A s \in ToldTo("Start") : \E r \in PolicyRows : r[1] = s /\ r[2] = "Start"
    /\ \A s \in ToldTo("Remove") : \E r \in PolicyRows : r[1] = s /\ r[2] = "Remove"
<1>1. \A r \in StartRows \cup StopRows : r \in PolicyRows
  BY DEF PolicyRows
<1>2. /\ \E r \in StartRows : r[1] = "ObjectCreated" /\ r[2] = "Start"
      /\ \E r \in StartRows : r[1] = "ObjectCreated" /\ r[2] = "Remove"
      /\ \E r \in StartRows : r[1] = "StartingFailed" /\ r[2] = "Remove"
  BY DEF StartRows
<1>3. /\ \E r \in StopRows : r[1] = "Stopped" /\ r[2] = "Start"
      /\ \E r \in StopRows : r[1] = "Stopped" /\ r[2] = "Remove"
  BY DEF StopRows
<1>4. QED
  BY <1>1, <1>2, <1>3 DEF ToldTo

(* No machine drops the order or answer it waits for, in any plan: the     *)
(* table of the state it is in when the event comes has a row for it.  The *)
(* code would drop it, and trap in a checked build (PnpProcessEventInner   *)
(* and its like); who waits for what follows would wait for ever.  It is   *)
(* the part of NoAnswerDropped about the events that drive the chain, with *)
(* the failed power up and down that NoAnswerDropped leaves out, and finds *)
(* the one row that is missing: the power policy machine has none for a    *)
(* failed power down where it undoes a start.  (Of Stop and SurpriseRemove *)
(* the turns alone do not tell that they come to no sleeping device.)      *)
AnswersExpected ==
    \A m \in Machines :
      DropsUnexpected(m) /\ Head(queue[m]) \in Awaited(m) =>
        m = "policy" /\ <<at[m], Head(queue[m])>> = Undoing

(* Each of the three.                                                      *)
THEOREM NoOrderDropped == Spec => []AnswersExpected
<1>1. DeviceInv => AnswersExpected
  <2> SUFFICES ASSUME DeviceInv, NEW m \in Machines, DropsUnexpected(m),
                      Head(queue[m]) \in Awaited(m)
               PROVE  m = "policy" /\ <<at[m], Head(queue[m])>> = Undoing
    BY DEF AnswersExpected
  <2>1. queue \in Queues /\ Lockstep /\ PnpLockstep
    BY DEF DeviceInv, StepInv
  <2> DEFINE h == Head(queue[m])
  <2>2. /\ m \notin entering /\ queue[m] # <<>> /\ Row(m, Rows[m]) = {}
        /\ h \in Priority(m) \/ at[m] \in Open[m]
    BY DEF DropsUnexpected
  <2>3. queue[m] \in Seq(Events) /\ 1 \in DOMAIN queue[m] /\ h = queue[m][1]
    <3>1. queue[m] \in Seq(Events)
      BY <2>1 DEF Queues, Machines
    <3>2. QED
      BY <2>2, <3>1
  <2>4. CASE m = "power"
    <3>1. OrderQueued
      BY <2>1, <2>2, <2>4 DEF Lockstep, PolicyActs, IrpSent, PowerActs, IrpReleased, Answered, NoOrder
    <3>2. h = OrderOf(at["policy"]) /\ OrderOf(at["policy"]) # "none" /\ at["power"] \in RestsAt(at["policy"])
      BY <2>4, <3>1 DEF OrderQueued, Asks
    <3>3. OrderOf(at["policy"]) \in PowerPriorityEventsMask \/ at["power"] \in PowerOpen
      BY <2>2, <2>4, <3>2 DEF Priority, Open
    <3>4. \E r \in PowerRows : r[1] = at["power"] /\ r[2] = h
      BY <3>2, <3>3, OrderHasRow
    <3>5. Row(m, PowerRows) # {}
      BY <2>4, <3>4 DEF Row
    <3>6. QED
      BY <2>2, <2>4, <3>5 DEF Rows
  <2>5. CASE m = "pnp"
    <3>1. h \in Statuses
      BY <2>5 DEF Awaited
    <3>2. PolicyAnswered
      BY <2>1, <2>3, <2>5, <3>1
         DEF PnpLockstep, PnpActs, PnpOrderQueued, PolicyWorks, Without, In
    <3>3. PICK a \in Statuses :
            /\ Sole(queue["pnp"], Statuses, a)
            /\ at["policy"] \in StatusAfter(PnpOrderOf(at["pnp"]), a)
      BY <3>2 DEF PolicyAnswered
    <3>4. h = a
      BY <2>3, <2>5, <3>1, <3>3 DEF Sole, Lone, In
    <3>5. \E r \in PnpRows : r[1] = at["pnp"] /\ r[2] = h
      BY <3>2, <3>3, <3>4, StatusHasRow DEF PolicyAnswered, PnpAsks
    <3>6. Row(m, PnpRows) # {}
      BY <2>5, <3>5 DEF Row
    <3>7. QED
      BY <2>2, <2>5, <3>6 DEF Rows
  <2>6. CASE m = "policy"
    <3>1. Row(m, PolicyRows) = {}
      BY <2>2, <2>6 DEF Rows
    <3>2. ~\E r \in PolicyRows : r[1] = at["policy"] /\ r[2] = h
      BY <2>6, <3>1 DEF Row
    <3>3. CASE h \in PwrPolPriorityEventsMask
      <4>1. ~NoAnswer
        BY <2>3, <2>6, <3>3 DEF NoAnswer, Without, In
      <4>2. Answered
        BY <2>1, <4>1 DEF Lockstep, PolicyActs, OrderQueued, IrpSent, PowerActs, IrpReleased
      <4>3. PICK a \in PwrPolPriorityEventsMask :
              /\ at["power"] \in Outcome(OrderOf(at["policy"]), a)
              /\ Sole(queue["policy"], PwrPolPriorityEventsMask, a)
        BY <4>1, <4>2 DEF Answered
      <4>4. h = a
        BY <2>3, <2>6, <3>3, <4>3 DEF Sole, Lone, In
      <4>5. <<at["policy"], h>> = Undoing
        BY <3>2, <4>3, <4>4, AnswerHasRow
      <4>6. QED
        BY <2>6, <4>5
    <3>4. CASE h \in {"Start", "Remove"}
      <4>1. h \in Orders
        BY <3>4 DEF Orders
      <4>2. PnpOrderQueued
        BY <2>1, <2>3, <2>6, <4>1 DEF PnpLockstep, PnpActs, PolicyWorks, PolicyAnswered, Without, In
      <4>3. Sole(queue["policy"], Orders, PnpOrderOf(at["pnp"])) /\ at["policy"] \in ToldTo(PnpOrderOf(at["pnp"]))
        BY <4>2 DEF PnpOrderQueued
      <4>4. PnpOrderOf(at["pnp"]) \in Orders
        BY <4>2, PnpAskingStates DEF PnpOrderQueued, PnpAsks
      <4>5. h = PnpOrderOf(at["pnp"])
        BY <2>3, <2>6, <4>1, <4>3, <4>4 DEF Sole, Lone, In
      <4>6. QED
        BY <3>2, <3>4, <4>3, <4>5, StartHasRow
    <3>5. QED
      BY <2>6, <3>3, <3>4 DEF Awaited
  <2>7. QED
    BY <2>4, <2>5, <2>6 DEF Machines
<1>2. QED
  BY <1>1, DeviceCorrect, PTL

=============================================================================
