-------------------------- MODULE DeviceIdleProofs --------------------------
(***************************************************************************)
(* The idle machine inside the device: what its three users may rely on,   *)
(* and that they use it as PowerIdle assumes.                              *)
(*                                                                         *)
(* PowerIdle checks the idle machine under every use its Next allows. The  *)
(* property IdleRefinement of DevicePower says that the PnP, the power and *)
(* the power policy machine allow themselves no other. Whether a step is   *)
(* such a use depends on where the idle machine is when a state enters, so *)
(* the invariant IdleLock ties its state to the states of the three users, *)
(* to the orders between them and to the events that are in their queues.  *)
(*                                                                         *)
(* The driver may enable and disable S0 idling at any time. A change that  *)
(* comes between a timeout and its event leaves the event in the queue of  *)
(* the power policy machine, which acts on it if idling is still, or again *)
(* allowed; from then on nothing below holds. NoStaleTimeout excludes this *)
(* and nothing else: what the theorems promise holds in every state of     *)
(* every behaviour up to the first one with a stale timeout.               *)
(*                                                                         *)
(* The last part adds the PnP manager: QueryInv says which of its IRPs may *)
(* be on its way in which state of the PnP machine, so that a device that  *)
(* was queried to stop or to remove stays in D0.                           *)
(***************************************************************************)
EXTENDS DeviceStepProofs

-----------------------------------------------------------------------------
(***************************************************************************)
(* Events the idle machine and its users look out for in the queues        *)
(***************************************************************************)
Expiry == "PowerTimeoutExpired"
InD0Event == "DeviceInD0"

Watched == {Expiry, "Sx", "S0", "S0IdlePolicyChanged", "Start", "Remove"}

(* whatever a comes in s, it comes before every b                          *)
Precedes(s, a, b) == \A i, j \in DOMAIN s : s[i] = a /\ s[j] = b => i < j

(* s became t, and only events of E, those of them new, came to its tail;  *)
(* or none of W did                                                        *)
Kept(s, t, W, E) ==
  /\ \A a \in W : In(t, a) => In(s, a) \/ a \in E
  /\ \A a \in W : Lone(s, {a}) /\ (a \in E => ~In(s, a)) => Lone(t, {a})

Ranked(s, t, W, E) ==
  \A a, b \in W :
    Precedes(s, a, b) /\ (a \in E => ~In(s, b) /\ b \notin E) => Precedes(t, a, b)

Posted(q, t, E) ==
  /\ t \in Queues
  /\ Kept(q.policy, t.policy, Watched, E) /\ Ranked(q.policy, t.policy, Watched, E)
  /\ Kept(q.pnp, t.pnp, {InD0Event}, E)

LEMMA KeptStays ==
    ASSUME NEW s, NEW W, NEW E
    PROVE  Kept(s, s, W, E) /\ Ranked(s, s, W, E)
BY DEF Kept, Ranked

LEMMA KeptAppended ==
    ASSUME NEW S, NEW s \in Seq(S), NEW e \in S, NEW W, NEW E, e \in W => e \in E
    PROVE  Kept(s, Append(s, e), W, E) /\ Ranked(s, Append(s, e), W, E)
<1> DEFINE t == Append(s, e)
           n == Len(s) + 1
<1>1. /\ t \in Seq(S) /\ DOMAIN t = 1..n /\ DOMAIN s = 1..Len(s) /\ Len(s) \in Nat
      /\ t[n] = e /\ \A i \in 1..Len(s) : t[i] = s[i]
  BY Appended
<1> HIDE DEF t
<1>2. \A i \in DOMAIN t : i = n \/ (i \in DOMAIN s /\ t[i] = s[i] /\ i < n)
  BY <1>1
<1>3. n \in DOMAIN t /\ \A i \in DOMAIN s : i \in DOMAIN t /\ t[i] = s[i]
  BY <1>1
<1> HIDE DEF n
<1>4. \A a : In(t, a) => In(s, a) \/ a = e
  BY <1>1, <1>2 DEF In
<1>5. ASSUME NEW a \in W, Lone(s, {a}), a \in E => ~In(s, a)
      PROVE  Lone(t, {a})
  BY <1>1, <1>2, <1>5 DEF Lone, In
<1>6. ASSUME NEW a \in W, NEW b \in W, Precedes(s, a, b), a \in E => ~In(s, b) /\ b \notin E
      PROVE  Precedes(t, a, b)
  <2>1. SUFFICES ASSUME NEW i \in DOMAIN t, NEW j \in DOMAIN t, t[i] = a, t[j] = b
                 PROVE  i < j
    BY DEF Precedes
  <2>2. CASE i \in DOMAIN s /\ j \in DOMAIN s
    BY <1>2, <1>3, <1>6, <2>1, <2>2 DEF Precedes
  <2>3. CASE i = n
    <3>1. a \in E /\ b # e
      BY <1>1, <1>6, <2>1, <2>3
    <3>2. j \in DOMAIN s /\ s[j] = b
      BY <1>1, <1>2, <2>1, <3>1
    <3>3. QED
      BY <1>6, <3>1, <3>2 DEF In
  <2>4. CASE i # n /\ j = n
    BY <1>2, <2>4
  <2>5. QED
    BY <1>2, <2>2, <2>3, <2>4
<1>7. QED
  BY <1>4, <1>5, <1>6 DEF Kept, Ranked, t

LEMMA KeptPrepended ==
    ASSUME NEW S, NEW s \in Seq(S), NEW e \in S, NEW W, NEW E, e \in W => e \in E
    PROVE  /\ Kept(s, <<e>> \o s, W, E)
           /\ e \notin W => Ranked(s, <<e>> \o s, W, E)
<1> DEFINE t == <<e>> \o s
           n == Len(s) + 1
<1>1. /\ t \in Seq(S) /\ DOMAIN t = 1..n /\ DOMAIN s = 1..Len(s) /\ Len(s) \in Nat
      /\ t[1] = e /\ \A i \in 2..n : t[i] = s[i - 1]
  BY Prepended
<1> HIDE DEF t
<1>2. \A i \in DOMAIN t : i = 1 \/ (i - 1 \in DOMAIN s /\ t[i] = s[i - 1] /\ i \in Int)
  BY <1>1
<1>3. DOMAIN s \subseteq Int /\ DOMAIN t \subseteq Int
  BY <1>1
<1> HIDE DEF n
<1>4. \A a : In(t, a) => In(s, a) \/ a = e
  BY <1>1, <1>2 DEF In
<1>5. ASSUME NEW a \in W, Lone(s, {a}), a \in E => ~In(s, a)
      PROVE  Lone(t, {a})
  <2>1. SUFFICES ASSUME NEW i \in DOMAIN t, NEW j \in DOMAIN t, t[i] = a, t[j] = a
                 PROVE  i = j
    BY DEF Lone
  <2>2. CASE i = 1 \/ j = 1
    BY <1>1, <1>2, <1>5, <2>1, <2>2 DEF In
  <2>3. CASE i # 1 /\ j # 1
    <3>1. i - 1 = j - 1
      BY <1>2, <1>5, <2>1, <2>3 DEF Lone
    <3>2. QED
      BY <1>3, <3>1
  <2>4. QED
    BY <2>2, <2>3
<1>6. ASSUME e \notin W, NEW a \in W, NEW b \in W, Precedes(s, a, b)
      PROVE  Precedes(t, a, b)
  <2>1. SUFFICES ASSUME NEW i \in DOMAIN t, NEW j \in DOMAIN t, t[i] = a, t[j] = b
                 PROVE  i < j
    BY DEF Precedes
  <2>2. i # 1 /\ j # 1
    BY <1>1, <1>6, <2>1
  <2>3. i - 1 < j - 1
    BY <1>2, <1>6, <2>1, <2>2 DEF Precedes
  <2>4. QED
    BY <1>3, <2>3
<1>7. QED
  BY <1>4, <1>5, <1>6 DEF Kept, Ranked, t

LEMMA KeptTail ==
    ASSUME NEW S, NEW s \in Seq(S), s # <<>>, NEW W, NEW E
    PROVE  Kept(s, Tail(s), W, E) /\ Ranked(s, Tail(s), W, E)
<1> DEFINE t == Tail(s)
<1>1. /\ t \in Seq(S) /\ DOMAIN t = 1..(Len(s) - 1) /\ DOMAIN s = 1..Len(s)
      /\ Len(s) \in Nat /\ Len(s) > 0 /\ \A i \in 1..(Len(s) - 1) : t[i] = s[i + 1]
  BY Beheaded
<1> HIDE DEF t
<1>2. \A i \in DOMAIN t : i + 1 \in DOMAIN s /\ t[i] = s[i + 1] /\ i \in Int
  BY <1>1
<1>3. \A a : In(t, a) => In(s, a)
  BY <1>2 DEF In
<1>4. ASSUME NEW a, Lone(s, {a})
      PROVE  Lone(t, {a})
  <2>1. SUFFICES ASSUME NEW i \in DOMAIN t, NEW j \in DOMAIN t, t[i] = a, t[j] = a
                 PROVE  i = j
    BY DEF Lone
  <2>2. i + 1 = j + 1
    BY <1>2, <1>4, <2>1 DEF Lone
  <2>3. QED
    BY <1>2, <2>2
<1>5. ASSUME NEW a, NEW b, Precedes(s, a, b)
      PROVE  Precedes(t, a, b)
  <2>1. SUFFICES ASSUME NEW i \in DOMAIN t, NEW j \in DOMAIN t, t[i] = a, t[j] = b
                 PROVE  i < j
    BY DEF Precedes
  <2>2. i + 1 < j + 1
    BY <1>2, <1>5, <2>1 DEF Precedes
  <2>3. QED
    BY <1>2, <2>2
<1>6. QED
  BY <1>3, <1>4, <1>5 DEF Kept, Ranked, t

(* the head is not preceded, and of a lone event there is no other *)
LEMMA HeadIsFirst ==
    ASSUME NEW S, NEW s \in Seq(S), s # <<>>
    PROVE  /\ In(s, Head(s)) /\ \A a : In(Tail(s), a) => In(s, a)
           /\ \A a : Precedes(s, a, Head(s)) => ~In(s, a)
           /\ Lone(s, {Head(s)}) => ~In(Tail(s), Head(s))
<1>1. 1 \in DOMAIN s /\ Head(s) = s[1] /\ DOMAIN s \subseteq Nat \ {0}
  BY Beheaded
<1>2. In(s, Head(s)) /\ \A a : In(Tail(s), a) => In(s, a)
  BY Shrinks
<1>3. ASSUME NEW a, Precedes(s, a, Head(s)), In(s, a)
      PROVE  FALSE
  <2>1. PICK i \in DOMAIN s : s[i] = a
    BY <1>3 DEF In
  <2>2. i < 1
    BY <1>1, <1>3, <2>1 DEF Precedes
  <2>3. QED
    BY <1>1, <2>2
<1>4. Lone(s, {Head(s)}) => ~In(Tail(s), Head(s))
  BY Shrinks DEF Without
<1>5. QED
  BY <1>2, <1>3, <1>4

-----------------------------------------------------------------------------
LEMMA PostedStays ==
    ASSUME NEW q \in Queues, NEW E
    PROVE  Posted(q, q, E)
BY KeptStays DEF Posted

LEMMA PostedMore ==
    ASSUME NEW q, NEW t, NEW E, NEW F, E \subseteq F, Posted(q, t, E)
    PROVE  Posted(q, t, F)
BY DEF Posted, Kept, Ranked

LEMMA PostedBoth ==
    ASSUME NEW q, NEW t, NEW u, NEW E, NEW F, Posted(q, t, E), Posted(t, u, F), E \cap F = {}
    PROVE  Posted(q, u, E \cup F)
BY DEF Posted, Kept, Ranked

LEMMA PostPosts ==
    ASSUME NEW q \in Queues, NEW m \in Machines, NEW e \in Events,
           NEW E, e \in Watched \cup {InD0Event} => e \in E
    PROVE  Posted(q, Post(q, <<m, e>>), E)
<1> DEFINE t == Post(q, <<m, e>>)
<1>1. /\ t \in Queues /\ \A n \in Machines : n # m => t[n] = q[n]
      /\ t[m] \in {q[m], Append(q[m], e), <<e>> \o q[m]}
  BY PostGrows
<1>2. ASSUME m = "policy", e \in Watched
      PROVE  t.policy # <<e>> \o q.policy \/ t.policy \in {q.policy, Append(q.policy, e)}
  <2>1. e \notin Priority("policy")
    BY <1>2 DEF Priority, PwrPolPriorityEventsMask, Watched, Expiry
  <2>2. \/ t = q \/ t = [q EXCEPT !.lost = TRUE] \/ t = [q EXCEPT !["policy"] = Append(q["policy"], e)]
    BY <1>2, <2>1 DEF Post, Insert
  <2>3. QED
    BY <2>2 DEF Queues
<1> HIDE DEF t
<1>3. q.policy \in Seq(Events) /\ q.pnp \in Seq(Events)
  BY DEF Queues
<1>4. CASE m = "policy"
  <2>1. t.pnp = q.pnp
    BY <1>1, <1>4 DEF Machines
  <2>2. Kept(q.policy, t.policy, Watched, E) /\ Ranked(q.policy, t.policy, Watched, E)
    BY <1>1, <1>2, <1>3, <1>4, KeptStays, KeptAppended, KeptPrepended
  <2>3. QED
    BY <1>1, <2>1, <2>2, KeptStays DEF Posted, t
<1>5. CASE m = "pnp"
  <2>1. t.policy = q.policy
    BY <1>1, <1>5 DEF Machines
  <2>2. Kept(q.pnp, t.pnp, {InD0Event}, E)
    BY <1>1, <1>3, <1>5, KeptStays, KeptAppended, KeptPrepended
  <2>3. QED
    BY <1>1, <2>1, <2>2, KeptStays DEF Posted, t
<1>6. CASE m = "power"
  <2>1. t.policy = q.policy /\ t.pnp = q.pnp
    BY <1>1, <1>6 DEF Machines
  <2>2. QED
    BY <1>1, <2>1, KeptStays DEF Posted, t
<1>7. QED
  BY <1>4, <1>5, <1>6 DEF Machines

(* what the idle machine posts *)
LEMMA IdlePostsPosted ==
    ASSUME NEW q \in Queues, NEW m
    PROVE  \E t : /\ Posted(q, t, m.sent) /\ t.power = q.power
                  /\ PostAll(q, IdlePosts(m)) = t /\ PostAll(q, IdlePosts(m) \o <<>>) = t
                  /\ \A a : PostAll(q, IdlePosts(m) \o <<a>>) = Post(t, a)
                  /\ \A a, b : PostAll(q, IdlePosts(m) \o <<a, b>>) = Post(Post(t, a), b)
<1>1. PICK t : /\ Calm(q, t) /\ PostAll(q, IdlePosts(m)) = t /\ PostAll(q, IdlePosts(m) \o <<>>) = t
               /\ \A a : PostAll(q, IdlePosts(m) \o <<a>>) = Post(t, a)
               /\ \A a, b : PostAll(q, IdlePosts(m) \o <<a, b>>) = Post(Post(t, a), b)
  BY IdlePostsCalm
<1>2. Posted(q, PostAll(q, IdlePosts(m)), m.sent)
  <2>1. {"pnp", "policy"} \subseteq Machines /\ {"DeviceInD0", Expiry, "IoPresent"} \subseteq Events
    BY DEF Machines, Events, Expiry
  <2>2. \/ "DeviceInD0" \in m.sent /\ IdlePosts(m) = <<<<"pnp", "DeviceInD0">>>>
        \/ Expiry \in m.sent /\ IdlePosts(m) = <<<<"policy", Expiry>>>>
        \/ IdlePosts(m) = <<<<"policy", "IoPresent">>>>
        \/ IdlePosts(m) = <<>>
    BY DEF IdlePosts, Expiry
  <2>3. "IoPresent" \notin Watched \cup {InD0Event}
    BY DEF Watched, Expiry, InD0Event
  <2>4. CASE "DeviceInD0" \in m.sent /\ IdlePosts(m) = <<<<"pnp", "DeviceInD0">>>>
    BY <2>1, <2>4, PostOne, PostPosts
  <2>5. CASE Expiry \in m.sent /\ IdlePosts(m) = <<<<"policy", Expiry>>>>
    BY <2>1, <2>5, PostOne, PostPosts
  <2>6. CASE IdlePosts(m) = <<<<"policy", "IoPresent">>>>
    BY <2>1, <2>3, <2>6, PostOne, PostPosts
  <2>7. CASE IdlePosts(m) = <<>>
    BY <2>7, PostNone, PostedStays
  <2>8. QED
    BY <2>2, <2>4, <2>5, <2>6, <2>7
<1>3. t.power = q.power
  BY <1>1 DEF Calm, AnswersStay
<1>4. QED
  BY <1>1, <1>2, <1>3

(* what the others post besides *)
Unwatched == Events \ (Watched \cup {InD0Event})

LEMMA PostsPosted ==
    ASSUME NEW q \in Queues, NEW m, NEW a \in Unwatched, NEW b \in Unwatched, NEW e \in Events
    PROVE  /\ Posted(q, PostAll(q, <<>>), {})
           /\ Posted(q, PostAll(q, ToPolicy(e)), {e})
           /\ Posted(q, PostAll(q, ToPolicy(a)), {}) /\ Posted(q, PostAll(q, ToPnp(a)), {})
           /\ Posted(q, PostAll(q, ToPower(e)), {e}) /\ Posted(q, PostAll(q, ToPower(a)), {})
           /\ Posted(q, PostAll(q, <<<<"policy", a>>, <<"pnp", b>>>>), {})
           /\ Posted(q, PostAll(q, IdlePosts(m)), m.sent)
           /\ Posted(q, PostAll(q, IdlePosts(m) \o <<>>), m.sent)
           /\ Posted(q, PostAll(q, <<>> \o IdlePosts(m)), m.sent)
           /\ Posted(q, PostAll(q, IdlePosts(m) \o ToPower(a)), m.sent)
           /\ Posted(q, PostAll(q, IdlePosts(m) \o ToPnp(a)), m.sent)
           /\ Posted(q, PostAll(q, IdlePosts(m) \o ToPolicy(a)), m.sent)
           /\ Posted(q, PostAll(q, IdlePosts(m) \o <<<<"policy", a>>, <<"pnp", b>>>>), m.sent)
           /\ Posted(q, PostAll(q, ToPolicy(a) \o IdlePosts(m)), m.sent)
<1>1. {"pnp", "policy", "power"} = Machines /\ a \in Events /\ b \in Events
      /\ a \notin Watched \cup {InD0Event} /\ b \notin Watched \cup {InD0Event}
  BY DEF Machines, Unwatched
<1>2. \A t \in Queues, n \in Machines : Posted(t, Post(t, <<n, a>>), {}) /\ Posted(t, Post(t, <<n, b>>), {})
  BY <1>1, PostPosts
<1>3. \A t \in Queues, n \in Machines : Posted(t, Post(t, <<n, e>>), {e})
  BY <1>1, PostPosts
<1>4. \A t \in Queues : Posted(t, Post(Post(t, <<"policy", a>>), <<"pnp", b>>), {})
  <2>1. TAKE t \in Queues
  <2>2. Posted(t, Post(t, <<"policy", a>>), {}) /\ Post(t, <<"policy", a>>) \in Queues
    BY <1>1, <1>2 DEF Posted
  <2>3. Posted(Post(t, <<"policy", a>>), Post(Post(t, <<"policy", a>>), <<"pnp", b>>), {})
    BY <1>1, <1>2, <2>2
  <2>4. {} \cap {} = {} /\ {} \cup {} = {}
    OBVIOUS
  <2>5. QED
    BY <2>2, <2>3, <2>4, PostedBoth
<1>5. PICK t : /\ Posted(q, t, m.sent)
               /\ PostAll(q, IdlePosts(m)) = t /\ PostAll(q, IdlePosts(m) \o <<>>) = t
               /\ \A x : PostAll(q, IdlePosts(m) \o <<x>>) = Post(t, x)
               /\ \A x, y : PostAll(q, IdlePosts(m) \o <<x, y>>) = Post(Post(t, x), y)
  BY IdlePostsPosted
<1>6. t \in Queues
  BY <1>5 DEF Posted
<1>7. \A u : Posted(t, u, {}) => Posted(q, u, m.sent)
  <2>1. m.sent \cap {} = {} /\ m.sent \cup {} = m.sent
    OBVIOUS
  <2>2. QED
    BY <1>5, <2>1, PostedBoth
<1>8. /\ Posted(q, PostAll(q, IdlePosts(m) \o ToPower(a)), m.sent)
      /\ Posted(q, PostAll(q, IdlePosts(m) \o ToPnp(a)), m.sent)
      /\ Posted(q, PostAll(q, IdlePosts(m) \o ToPolicy(a)), m.sent)
  BY <1>1, <1>2, <1>5, <1>6, <1>7 DEF ToPower, ToPnp, ToPolicy
<1>9. Posted(q, PostAll(q, IdlePosts(m) \o <<<<"policy", a>>, <<"pnp", b>>>>), m.sent)
  BY <1>4, <1>5, <1>6, <1>7
<1>10. Posted(q, PostAll(q, ToPolicy(a) \o IdlePosts(m)), m.sent)
  <2> DEFINE u == Post(q, <<"policy", a>>)
             i == IdlePosts(m)
  <2>1. Posted(q, u, {}) /\ u \in Queues
    BY <1>1, <1>2 DEF Posted
  <2>2. i = <<>> \/ \E p : i = <<p>>
    BY DEF IdlePosts
  <2>3. PostAll(q, <<<<"policy", a>>>> \o i) = PostAll(u, i)
    <3>1. CASE i = <<>>
      <4>1. <<<<"policy", a>>>> \o i = <<<<"policy", a>>>>
        BY <3>1
      <4>2. QED
        BY <3>1, <4>1, PostOne, PostNone
    <3>2. ASSUME NEW p, i = <<p>>
          PROVE  PostAll(q, <<<<"policy", a>>>> \o i) = PostAll(u, i)
      <4>1. <<<<"policy", a>>>> \o i = <<<<"policy", a>>, p>>
        BY <3>2, OneThenOne
      <4>2. PostAll(q, <<<<"policy", a>>, p>>) = Post(u, p) /\ PostAll(u, <<p>>) = Post(u, p)
        BY PostOne, PostTwo
      <4>3. QED
        BY <3>2, <4>1, <4>2
    <3>3. QED
      BY <2>2, <3>1, <3>2
  <2>4. Posted(u, PostAll(u, i), m.sent)
    BY <2>1, IdlePostsPosted
  <2>5. {} \cap m.sent = {} /\ {} \cup m.sent = m.sent
    OBVIOUS
  <2> HIDE DEF u, i
  <2>6. Posted(q, PostAll(u, i), m.sent)
    BY <2>1, <2>4, <2>5, PostedBoth
  <2>7. QED
    BY <2>3, <2>6 DEF ToPolicy, i
<1>11. <<>> \o IdlePosts(m) = IdlePosts(m)
  BY DEF IdlePosts
<1>12. /\ Posted(q, PostAll(q, <<>>), {}) /\ Posted(q, PostAll(q, ToPolicy(e)), {e})
       /\ Posted(q, PostAll(q, ToPolicy(a)), {}) /\ Posted(q, PostAll(q, ToPnp(a)), {})
       /\ Posted(q, PostAll(q, ToPower(e)), {e}) /\ Posted(q, PostAll(q, ToPower(a)), {})
       /\ Posted(q, PostAll(q, <<<<"policy", a>>, <<"pnp", b>>>>), {})
  <2>1. Posted(q, PostAll(q, <<>>), {})
    BY PostNone, PostedStays
  <2>2. /\ Posted(q, PostAll(q, <<<<"policy", e>>>>), {e}) /\ Posted(q, PostAll(q, <<<<"power", e>>>>), {e})
    BY <1>1, <1>3, PostOne
  <2>3. /\ Posted(q, PostAll(q, <<<<"policy", a>>>>), {}) /\ Posted(q, PostAll(q, <<<<"power", a>>>>), {})
        /\ Posted(q, PostAll(q, <<<<"pnp", a>>>>), {})
    BY <1>1, <1>2, PostOne
  <2>4. Posted(q, PostAll(q, <<<<"policy", a>>, <<"pnp", b>>>>), {})
    BY <1>4, PostTwo
  <2>5. QED
    BY <2>1, <2>2, <2>3, <2>4 DEF ToPolicy, ToPnp, ToPower
<1>13. /\ Posted(q, PostAll(q, IdlePosts(m)), m.sent)
       /\ Posted(q, PostAll(q, IdlePosts(m) \o <<>>), m.sent)
       /\ Posted(q, PostAll(q, <<>> \o IdlePosts(m)), m.sent)
  BY <1>5, <1>11
<1>14. QED
  BY <1>8, <1>9, <1>10, <1>12, <1>13

-----------------------------------------------------------------------------
(***************************************************************************)
(* The idle machine, as its users in DevicePower use it                    *)
(***************************************************************************)
Machine == INSTANCE PowerIdleProofs WITH idle <- idle

Sound == Idle!IdleInv /\ idle.sent = {}

Hears(e) == Idle!ProcessEventLocked(idle, e)

LEMMA SameMachine ==
    ASSUME NEW m, NEW e
    PROVE  Idle!ProcessEventLocked(m, e) = Machine!ProcessEventLocked(m, e)
BY DEF Idle!ProcessEventLocked, Machine!ProcessEventLocked, Idle!Enter, Machine!Enter, Idle!Set,
       Machine!Set, Idle!Clear, Machine!Clear, Idle!At, Machine!At, Idle!Send, Machine!Send,
       Idle!SendD0Notification, Machine!SendD0Notification, Idle!CanCancel, Machine!CanCancel,
       Idle!CancelIdleTimer, Machine!CancelIdleTimer, Idle!Stopped, Machine!Stopped, Idle!Started,
       Machine!Started, Idle!Disabled, Machine!Disabled, Idle!StartedPowerUp,
       Machine!StartedPowerUp, Idle!StartedPowerFailed, Machine!StartedPowerFailed,
       Idle!StartTimer, Machine!StartTimer, Idle!DecrementIo, Machine!DecrementIo,
       Idle!CheckIoCount, Machine!CheckIoCount, Idle!TimingOut, Machine!TimingOut,
       Idle!SendIoPresent, Machine!SendIoPresent, Idle!TimedOutIoIncrement,
       Machine!TimedOutIoIncrement, Idle!InDx, Machine!InDx, Idle!GoingToDx, Machine!GoingToDx,
       Idle!TimedOutPowerDown, Machine!TimedOutPowerDown, Idle!PowerFailed, Machine!PowerFailed,
       Idle!TimedOutPowerDownFailed, Machine!TimedOutPowerDownFailed, Idle!InDxIoIncrement,
       Machine!InDxIoIncrement, Idle!InDxPowerUpFailure, Machine!InDxPowerUpFailure,
       Idle!InDxStopped, Machine!InDxStopped, Idle!InDxDisabled, Machine!InDxDisabled,
       Idle!InDxEnabled, Machine!InDxEnabled, Idle!PowerUpComplete, Machine!PowerUpComplete,
       Idle!PowerUp, Machine!PowerUp, Idle!TimedOutDisabled, Machine!TimedOutDisabled,
       Idle!TimedOutEnabled, Machine!TimedOutEnabled, Idle!CancelTimer, Machine!CancelTimer,
       Idle!TimerExpired, Machine!TimerExpired, Idle!Disabling, Machine!Disabling,
       Idle!DisablingTimerExpired, Machine!DisablingTimerExpired, Idle!Ignored, Machine!Ignored

LEMMA SameUses ==
    ASSUME NEW m
    PROVE  /\ Idle!IoIncrement(m) = Machine!IoIncrement(m) /\ Idle!IoDecrement(m) = Machine!IoDecrement(m)
           /\ Idle!IoIncrementForPnp(m) = Machine!IoIncrementForPnp(m)
           /\ Idle!PowerTimeoutDpcRoutine(m) = Machine!PowerTimeoutDpcRoutine(m)
           /\ Idle!TimerFires(m) = Machine!TimerFires(m) /\ Idle!Queried(m) = Machine!Queried(m)
           /\ Idle!DisabledImmediately(m) <=> Machine!DisabledImmediately(m)
<1>1. /\ Idle!IoIncrement(m) = Machine!IoIncrement(m) /\ Idle!IoDecrement(m) = Machine!IoDecrement(m)
      /\ Idle!PowerTimeoutDpcRoutine(m) = Machine!PowerTimeoutDpcRoutine(m)
  BY SameMachine DEF Idle!IoIncrement, Machine!IoIncrement, Idle!IoDecrement, Machine!IoDecrement,
       Idle!PowerTimeoutDpcRoutine, Machine!PowerTimeoutDpcRoutine
<1>2. Idle!IoIncrementForPnp(m) = Machine!IoIncrementForPnp(m)
  BY <1>1 DEF Idle!IoIncrementForPnp, Machine!IoIncrementForPnp, Idle!Set, Machine!Set
<1>3. QED
  BY <1>1, <1>2 DEF Idle!TimerFires, Machine!TimerFires, Idle!Queried, Machine!Queried, Idle!Clear,
       Machine!Clear, Idle!DisabledImmediately, Machine!DisabledImmediately

LEMMA SameSound ==
    /\ Idle!IdleInv <=> Machine!IdleInv
    /\ Idle!IdleMachine = Machine!IdleMachine
    /\ \A e : Idle!Legal(idle, e) <=> Machine!Legal(idle, e)
    /\ Idle!IdleInv <=> Machine!Good(idle)
<1>1. Idle!IdleMachine = Machine!IdleMachine
  BY DEF Idle!IdleMachine, Machine!IdleMachine, Idle!IdleStates, Machine!IdleStates, Idle!IdleFlags,
       Machine!IdleFlags, Idle!Posts, Machine!Posts
<1>2. Idle!IdleInv <=> Machine!IdleInv
  BY <1>1 DEF Idle!IdleInv, Machine!IdleInv, Idle!IdleTypeOK, Machine!IdleTypeOK, Idle!IdleSound,
       Machine!IdleSound, Idle!TimerTracked, Machine!TimerTracked, Idle!NoTimeoutWhileReferenced,
       Machine!NoTimeoutWhileReferenced, Idle!IoPresentNotLost, Machine!IoPresentNotLost,
       Idle!D0EventMeans, Machine!D0EventMeans, Idle!FlagsFollow, Machine!FlagsFollow
<1>3. \A e : Idle!Legal(idle, e) <=> Machine!Legal(idle, e)
  BY DEF Idle!Legal, Machine!Legal
<1>4. QED
  BY <1>1, <1>2, <1>3, Machine!IdleInvIsGood

(* However a user's call changes the machine: a power failure is           *)
(* remembered, an event the PnP machine asked for is posted once, and      *)
(* nothing times out                                                       *)
Heeds(n) ==
  /\ n \in Idle!IdleMachine
  /\ "PowerFailed" \in idle.flags => "PowerFailed" \in n.flags
  /\ "SendPnpPowerUpEvent" \in n.flags => "SendPnpPowerUpEvent" \in idle.flags
  /\ InD0Event \in n.sent => "SendPnpPowerUpEvent" \in idle.flags /\ "SendPnpPowerUpEvent" \notin n.flags

Awake == {"Busy", "TimerRunning", "WaitForTimeout"}

Turns(e, m, n) ==
  CASE e = "Start" -> n.state = "Started"
    [] e = "Stop" -> n.state = "Stopped"
    [] e = "PowerUpComplete" ->
         n.state \in IF "TimerEnabled" \notin m.flags THEN {"Disabled"} ELSE {"TimerRunning", "Busy"}
    [] e = "PowerUpFailed" ->
         /\ n.state = IF m.state = "Started" THEN "StartedPowerFailed" ELSE "Disabled"
         /\ "PowerFailed" \in n.flags
    [] e = "PowerDown" ->
         /\ n.state = "InDx"
         /\ "TimerEnabled" \in n.flags => "TimerEnabled" \in m.flags
         /\ "SendPnpPowerUpEvent" \in m.flags => "SendPnpPowerUpEvent" \in n.flags
    [] e = "PowerDownFailed" -> n.state = "Disabled" /\ "PowerFailed" \in n.flags
    [] e = "Enabled" -> m.state \in {"Disabled", "TimedOut"} => n.state \in {"TimerRunning", "Busy"}
    [] e = "Disabled" ->
         /\ CASE m.state \in {"Disabled", "Busy", "TimedOut"} -> n.state = "Disabled"
              [] m.state = "TimerRunning" -> n.state \in {"Disabled", "DisablingWaitForTimeout"}
              [] m.state = "WaitForTimeout" -> n.state = "DisablingWaitForTimeout"
              [] m.state = "InDx" -> n.state = "InDx" /\ "TimerEnabled" \notin n.flags
         /\ Idle!DisabledImmediately(n) <=> n.state # "DisablingWaitForTimeout"

UserEvents == {"Start", "Stop", "PowerUpComplete", "PowerUpFailed", "PowerDown", "PowerDownFailed",
               "Enabled", "Disabled"}

(* The power policy machine and the power machine give it an event its     *)
(* table lists                                                             *)
LEMMA UserEventHeard ==
    ASSUME Sound, NEW e \in UserEvents, Idle!Legal(idle, e)
    PROVE  /\ Turns(e, idle, Hears(e)) /\ Heeds(Hears(e)) /\ Expiry \notin Hears(e).sent
           /\ idle' = Idle!Settled(Hears(e)) => Idle!IdleNext
<1>1. Machine!Good(idle) /\ Machine!Legal(idle, e) /\ Hears(e) = Machine!ProcessEventLocked(idle, e)
      /\ idle \in Machine!IdleMachine /\ e # "TimerExpired"
  BY SameMachine, SameSound DEF Hears, Sound, UserEvents, Machine!Good
<1>2. Machine!Minds(idle, Hears(e), FALSE)
  BY <1>1, Machine!EventMinds
<1>3. Heeds(Hears(e)) /\ Expiry \notin Hears(e).sent
  BY <1>2, SameSound DEF Machine!Minds, Heeds, Sound, InD0Event, Expiry
<1>4. Turns(e, idle, Hears(e))
  <2>1. CASE e = "Start"
    BY <1>1, <2>1, Machine!StartTurns DEF Turns
  <2>2. CASE e = "Stop"
    BY <1>1, <2>2, Machine!StopTurns DEF Turns
  <2>3. CASE e = "PowerUpComplete"
    BY <1>1, <2>3, Machine!PowerUpCompleteTurns DEF Turns
  <2>4. CASE e = "PowerUpFailed"
    BY <1>1, <2>4, Machine!PowerUpFailedTurns DEF Turns
  <2>5. CASE e = "PowerDown"
    BY <1>1, <2>5, Machine!PowerDownTurns DEF Turns
  <2>6. CASE e = "PowerDownFailed"
    BY <1>1, <2>6, Machine!PowerDownFailedTurns DEF Turns
  <2>7. CASE e = "Enabled"
    BY <1>1, <2>7, Machine!EnabledTurns DEF Turns
  <2>8. CASE e = "Disabled"
    <3>1. Idle!DisabledImmediately(Hears(e)) <=> Machine!DisabledImmediately(Hears(e))
      BY SameUses
    <3>2. QED
      BY <1>1, <2>8, <3>1, Machine!DisabledTurns DEF Turns
  <2>9. QED
    BY <2>1, <2>2, <2>3, <2>4, <2>5, <2>6, <2>7, <2>8 DEF UserEvents
<1>5. idle' = Idle!Settled(Hears(e)) => Idle!IdleNext
  BY DEF Idle!IdleNext, Idle!UserEvent, Hears, UserEvents, Idle!IdleEvents
<1>6. QED
  BY <1>3, <1>4, <1>5

(* References taken and given back *)
Uses(m, n) ==
  /\ n.state = m.state \/ (m.state \in Awake /\ n.state \in Awake)
  /\ m.state = "InDx" => ("TimerEnabled" \in n.flags <=> "TimerEnabled" \in m.flags)
  /\ m.state \in {"TimedOut", "InDx"} /\ "SendPnpPowerUpEvent" \in m.flags =>
       "SendPnpPowerUpEvent" \in n.flags

LEMMA UsesHeard ==
    ASSUME Sound, NEW n,
           n = Idle!IoIncrement(idle) \/ (n = Idle!IoDecrement(idle) /\ idle.count > 0)
           \/ n = Idle!Queried(idle)
    PROVE  Uses(idle, n) /\ Heeds(n) /\ Expiry \notin n.sent
<1>1. Machine!Good(idle)
  BY SameSound DEF Sound
<1>2. Machine!Uses(idle, n) /\ Machine!Minds(idle, n, FALSE)
  BY <1>1, SameUses, Machine!IoIncrementTurns, Machine!IoDecrementTurns, Machine!AsideTurns
<1>3. QED
  BY <1>2, SameSound DEF Machine!Minds, Heeds, Sound, InD0Event, Expiry, Machine!Uses, Uses,
     Machine!Awake, Awake

LEMMA QueryHeard ==
    ASSUME Sound
    PROVE  Idle!Queried(idle).state = idle.state
BY SameSound, SameUses, Machine!AsideTurns DEF Sound

LEMMA ReferenceForPnpHeard ==
    ASSUME Sound
    PROVE  LET n == Idle!IoIncrementForPnp(idle)
           IN  /\ n \in Idle!IdleMachine /\ Uses(idle, n) /\ Expiry \notin n.sent
               /\ "PowerFailed" \in idle.flags => "PowerFailed" \in n.flags
               /\ InD0Event \in n.sent => "SendPnpPowerUpEvent" \in idle.flags
               /\ n.d0 => Heeds(n)
<1> DEFINE n == Idle!IoIncrementForPnp(idle)
<1>1. Machine!Good(idle) /\ n = Machine!IoIncrementForPnp(idle)
  BY SameSound, SameUses DEF Sound
<1>2. /\ n \in Machine!IdleMachine /\ Machine!Uses(idle, n)
      /\ "PowerFailed" \in idle.flags => "PowerFailed" \in n.flags
      /\ "DeviceInD0" \in n.sent => "DeviceInD0" \in idle.sent \/ "SendPnpPowerUpEvent" \in idle.flags
      /\ "PowerTimeoutExpired" \in n.sent => "PowerTimeoutExpired" \in idle.sent
      /\ n.d0 => Machine!Minds(idle, n, FALSE)
  BY <1>1, Machine!IoIncrementForPnpTurns
<1> HIDE DEF n
<1>3. QED
  BY <1>2, SameSound DEF Machine!Minds, Heeds, Sound, InD0Event, Expiry, Machine!Uses, Uses,
     Machine!Awake, Awake, n

(* and the timer *)
LEMMA TimeoutHeard ==
    ASSUME Sound, idle.timer = "fired"
    PROVE  LET n == Idle!PowerTimeoutDpcRoutine(idle)
           IN  /\ \/ idle.state = "TimerRunning" /\ n.state = "TimedOut" /\ idle.count = 0
                  \/ idle.state = "DisablingWaitForTimeout" /\ n.state = "Disabled"
                  \/ idle.state = "WaitForTimeout" /\ n.state \in Awake /\ Expiry \notin n.sent
               /\ Heeds(n)
<1> DEFINE n == Idle!PowerTimeoutDpcRoutine(idle)
<1>1. Machine!Good(idle) /\ n = Machine!PowerTimeoutDpcRoutine(idle)
  BY SameSound, SameUses DEF Sound
<1>2. /\ CASE idle.state = "TimerRunning" -> n.state = "TimedOut" /\ idle.count = 0
           [] idle.state = "DisablingWaitForTimeout" -> n.state = "Disabled"
           [] idle.state = "WaitForTimeout" -> n.state \in {"TimerRunning", "Busy"}
           [] OTHER -> FALSE
      /\ Machine!Minds(idle, n, idle.state # "WaitForTimeout")
  BY <1>1, Machine!PowerTimeoutDpcRoutineTurns
<1> HIDE DEF n
<1>3. Heeds(n) /\ (idle.state = "WaitForTimeout" => Expiry \notin n.sent)
  BY <1>2, SameSound DEF Machine!Minds, Heeds, Sound, InD0Event, Expiry
<1>4. QED
  BY <1>2, <1>3 DEF n, Awake

(* what a call leaves, once what it posted is on its way *)
LEMMA SettledIs ==
    ASSUME NEW n \in Idle!IdleMachine, idle' = Idle!Settled(n)
    PROVE  /\ idle'.state = n.state /\ idle'.flags = n.flags /\ idle'.count = n.count /\ idle'.d0 = n.d0
           /\ idle'.sent = {} /\ idle'.timer = n.timer
BY DEF Idle!Settled, Idle!IdleMachine

LEMMA SoundStep ==
    ASSUME Idle!IdleInv, [Idle!IdleNext]_idle
    PROVE  Idle!IdleInv'
<1>1. Machine!IdleInv /\ [Machine!IdleNext]_idle
  BY SameSound, SameMachine, SameUses DEF Idle!IdleNext, Machine!IdleNext, Idle!UserEvent, Machine!UserEvent,
     Idle!Reference, Machine!Reference, Idle!ReferenceForPnp, Machine!ReferenceForPnp, Idle!Dereference,
     Machine!Dereference, Idle!Query, Machine!Query, Idle!TimerDue, Machine!TimerDue, Idle!TimerDpc,
     Machine!TimerDpc, Idle!Settled, Machine!Settled, Idle!CanReference, Machine!CanReference,
     Idle!IdleEvents, Machine!IdleEvents
<1>2. Machine!IdleInv'
  BY <1>1, Machine!IdleStepInv
<1>3. Machine!IdleInv' <=> Idle!IdleInv'
  BY SameSound, PTL
<1>4. QED
  BY <1>2, <1>3

-----------------------------------------------------------------------------
(***************************************************************************)
(* Where the idle machine is while the machines that drive it are where    *)
(* they are                                                                *)
(***************************************************************************)
Live == Awake \cup {"TimedOut"}

PolicyEnters == "policy" \in entering

(* while the power policy machine is in s and waits for no answer          *)
IdleWhile(s) ==
  CASE s \in {"ObjectCreated", "Starting", "Restarting", "StartingFailed", "Stopped",
              "StoppedRemoving", "Removed"} -> {"Stopped"}
    [] s = "RestartingFailed" -> {"StartedPowerFailed"}
    [] s \in {"StartingPoweredUp", "StartingPoweredUpFailed", "StartingSucceeded",
              "StartingDecideS0Wake", "Started", "StartedIdleCapableTimerCanceledForSleep",
              "Sleeping", "SleepingNoWakePowerDown", "SleepingNoWakeCompletePowerDown",
              "SleepingNoWakeDxRequestFailed", "SleepingPowerDownNotProcessed"} -> {"Disabled"}
    [] s \in {"StartedIdleCapable", "StartedCancelTimer",
              "StartedIdleCapableCancelTimerForSleep"} -> Live
    [] s \in {"StartedWaitForIdleTimeout", "StartedIdleCapableWaitForIdleTimeout",
              "StoppingWaitForIdleTimeout"} -> {"Disabled", "DisablingWaitForTimeout"}
    [] s = "StoppingCancelTimer" -> Live \cup {"Disabled", "InDx"}
    [] s \in {"IdleCapableDeviceIdle", "TimerExpiredNoWake", "TimerExpiredNoWakeCompletePowerDown",
              "TimerExpiredNoWakePowerDownNotProcessed", "TimerExpiredNoWakeUndoPowerDown",
              "TimerExpiredNoWakeReturnToActive"} -> {"TimedOut"}
    [] s \in {"TimerExpiredNoWakePoweredDownDisableIdleTimer", "WaitingUnarmed",
              "WaitingUnarmedQueryIdle", "S0NoWakePowerUp", "S0NoWakeCompletePowerUp",
              "SystemSleepFromDeviceWaitingUnarmed", "SystemAsleepNoWake",
              "SystemWakeDeviceWakeDisabled", "SystemWakeQueryIdle", "SystemWakeDeviceToD0",
              "SystemWakeDeviceToD0CompletePowerUp", "StoppingResetDevice",
              "StoppingResetDeviceCompletePowerUp"} -> {"InDx"}
    [] OTHER -> {"Disabled", "InDx"}

(* and before it has run the entry function of s                           *)
IdleBefore(s) ==
  CASE s = "StartingFailed" -> {"StartedPowerFailed", "Disabled", "InDx"}
    [] s = "StartedIdleCapable" -> {"Disabled", "TimedOut"}
    [] OTHER -> IdleWhile(s)

(* while it waits in s for the answer to its order, the power machine is   *)
(* in p, e tells that it has not run its entry function yet, and told that *)
(* the order is on its way                                                 *)
IdleAsking(s, p, e, told) ==
  CASE OrderOf(s) = "ImplicitD0" ->
         IF (e /\ p \notin DZero) \/ told THEN {"Started"}
         ELSE IF p \in DZero THEN {"Disabled"} ELSE {"StartedPowerFailed"}
    [] OrderOf(s) = "ImplicitD3" -> {"Disabled", "InDx"}
    [] OrderOf(s) = "CompleteDx" ->
         IF p = "Dx" THEN {"InDx"}
         ELSE IF p = "ReportPowerDownFailed" /\ ~e THEN {"Disabled"} ELSE IdleWhile(s)
    [] OrderOf(s) \in {"D0", "CompleteD0"} ->
         IF p \in DZero \/ (p = "ReportPowerUpFailed" /\ ~e) THEN {"Disabled"} ELSE {"InDx"}
    [] OTHER -> IdleWhile(s)

IdlePlaces ==
  IF Asks THEN IdleAsking(at["policy"], at["power"], Powering, queue["power"] # <<>>)
  ELSE IF PolicyEnters THEN IdleBefore(at["policy"]) ELSE IdleWhile(at["policy"])

IdleFits == idle.state \in IdlePlaces

(* Idling is off while the device is in Dx, but on the way there           *)
TimerOff ==
  idle.state = "InDx" /\ "TimerEnabled" \in idle.flags
  => at["policy"] \in {"TimerExpiredNoWakeCompletePowerDown",
                       "TimerExpiredNoWakePoweredDownDisableIdleTimer"}

PowerFailureKnown == at["power"] \in Broken /\ ~Powering => "PowerFailed" \in idle.flags

(* An expiry of the timer that is on its way to the power policy machine    *)
(* is either the last, and the device has timed out, or stale, and the     *)
(* states it can find drop it or have waited for it                        *)
CancelsIt == {"StartedCancelTimer", "StartedIdleCapableCancelTimerForSleep", "StoppingCancelTimer"}

ExpiryNew == at["policy"] \in CancelsIt \/ (at["policy"] = "StartedIdleCapable" /\ ~PolicyEnters)

SleepsNow ==
  {"StartedIdleCapableWaitForIdleTimeout", "StartedIdleCapableTimerCanceledForSleep", "Sleeping",
   "SleepingNoWakePowerDown", "SleepingNoWakeCompletePowerDown", "SleepingNoWakeDxRequestFailed",
   "SleepingPowerDownNotProcessed", "SystemSleepPowerRequestFailed"}

ExpiryStale ==
  SleepsNow \cup
  {"SystemAsleepNoWake", "DevicePowerRequestFailed", "StartingDecideS0Wake", "Started",
   "StartedWaitForIdleTimeout", "StoppingCancelTimer", "StoppingWaitForIdleTimeout", "Stopping",
   "StoppingFailed", "StoppingSendStatus", "Stopped"}

ExpiryFits ==
  /\ Lone(queue["policy"], {Expiry})
  /\ In(queue["policy"], Expiry) =>
       IF idle.state = "TimedOut" THEN ExpiryNew
       ELSE idle.state \in {"Disabled", "InDx", "Stopped"} /\ at["policy"] \in ExpiryStale

(* what would make such a state one that waits comes after it               *)
ExpiryFirst ==
  /\ at["policy"] = "SystemAsleepNoWake" => Precedes(queue["policy"], Expiry, "S0")
  /\ at["policy"] = "Stopped" => /\ Precedes(queue["policy"], Expiry, "Start")
                                 /\ Precedes(queue["policy"], Expiry, "Remove")

(* The system is told once that it may sleep, and woken only then          *)
FallsAsleep ==
  \/ at["policy"] \in SleepsNow \cup {"StartedIdleCapableCancelTimerForSleep",
                                   "SystemSleepFromDeviceWaitingUnarmed"}
  \/ at["policy"] = "SystemAsleepNoWake" /\ PolicyEnters

SleepFits ==
  /\ Lone(queue["policy"], {"Sx"})
  /\ In(queue["policy"], "Sx") => os.sys = "sleeping" /\ ~FallsAsleep /\ Precedes(queue["policy"], "S0", "Sx")
  /\ FallsAsleep => os.sys = "sleeping" /\ ~In(queue["policy"], "S0")

(* The PnP machine gets the event it asked for, once, and only then        *)
PnpAwaits == at["pnp"] \in Awaiting /\ "pnp" \notin entering

D0EventFits ==
  /\ Lone(queue["pnp"], {InD0Event})
  /\ In(queue["pnp"], InD0Event) => PnpAwaits /\ "SendPnpPowerUpEvent" \notin idle.flags
  /\ "SendPnpPowerUpEvent" \in idle.flags => PnpAwaits

(* No reference was granted, or is about to be, when the device has timed   *)
(* out, or is on its way out                                               *)
GrantFits ==
  (idle.state = "TimedOut" \/ at["policy"] \in IdlingOut) /\ "PowerFailed" \notin idle.flags =>
     /\ waiter \notin {"released", "held"}
     /\ at["pnp"] \notin Pending
     /\ ~In(queue["pnp"], InD0Event)

IdleLock ==
  /\ Sound
  /\ IdleFits /\ TimerOff /\ PowerFailureKnown
  /\ ExpiryFits /\ ExpiryFirst /\ SleepFits
  /\ D0EventFits /\ GrantFits

-----------------------------------------------------------------------------
(***************************************************************************)
(* What a step that leaves a machine where it is keeps                     *)
(***************************************************************************)

(* What it told the idle machine was heeded, and E is what came to the     *)
(* queues of it                                                            *)
Heeded(E) ==
  /\ Posted(queue, queue', E)
  /\ "PowerFailed" \in idle.flags => "PowerFailed" \in idle'.flags
  /\ "SendPnpPowerUpEvent" \in idle'.flags => "SendPnpPowerUpEvent" \in idle.flags
  /\ InD0Event \in E => "SendPnpPowerUpEvent" \in idle.flags /\ "SendPnpPowerUpEvent" \notin idle'.flags

(* who waits goes on, or gets a reference, with the device in D0           *)
WaiterFollows == waiter' \in {"released", "held"} => waiter \in {"released", "held"} \/ idle'.d0

LEMMA HeedsHeeded ==
    ASSUME NEW n, Heeds(n), idle' = Idle!Settled(n), Posted(queue, queue', n.sent)
    PROVE  Heeded(n.sent)
BY SettledIs DEF Heeds, Heeded

LEMMA NothingHeeded ==
    ASSUME NEW E, idle' = idle, Posted(queue, queue', E), InD0Event \notin E
    PROVE  Heeded(E) /\ Uses(idle, idle')
BY DEF Heeded, Uses

LEMMA D0EventFrame ==
    ASSUME D0EventFits, PnpStays, NEW E, Heeded(E)
    PROVE  D0EventFits'
<1>1. PnpAwaits' <=> PnpAwaits
  BY DEF PnpAwaits, PnpStays
<1>2. /\ In(queue'["pnp"], InD0Event) => In(queue["pnp"], InD0Event) \/ InD0Event \in E
      /\ Lone(queue["pnp"], {InD0Event}) /\ (InD0Event \in E => ~In(queue["pnp"], InD0Event))
           => Lone(queue'["pnp"], {InD0Event})
  BY DEF Heeded, Posted, Kept
<1>3. QED
  BY <1>1, <1>2 DEF D0EventFits, Heeded

LEMMA ExpiryPosted ==
    ASSUME ExpiryFits, PolicyStands, Uses(idle, idle'), NEW E, Posted(queue, queue', E), Expiry \notin E
    PROVE  ExpiryFits'
<1>1. /\ In(queue'["policy"], Expiry) => In(queue["policy"], Expiry)
      /\ Lone(queue["policy"], {Expiry}) => Lone(queue'["policy"], {Expiry})
  BY DEF Posted, Kept, Watched
<1>2. ExpiryNew' <=> ExpiryNew
  BY DEF ExpiryNew, PolicyStands, PolicyEnters
<1>3. idle.state \in {"TimedOut", "Disabled", "InDx", "Stopped"} => idle'.state = idle.state
  BY DEF Uses, Awake
<1>4. at'["policy"] = at["policy"]
  BY DEF PolicyStands
<1>5. QED
  BY <1>1, <1>2, <1>3, <1>4 DEF ExpiryFits

LEMMA ExpiryFrame ==
    ASSUME ExpiryFits, PolicyStands, Uses(idle, idle'), NEW E, Heeded(E), Expiry \notin E
    PROVE  ExpiryFits'
BY ExpiryPosted DEF Heeded

LEMMA ExpiryFirstPosted ==
    ASSUME ExpiryFirst, PolicyStands, NEW E, Posted(queue, queue', E), Expiry \notin E
    PROVE  ExpiryFirst'
<1>1. \A b \in {"S0", "Start", "Remove"} :
         Precedes(queue["policy"], Expiry, b) => Precedes(queue'["policy"], Expiry, b)
  BY DEF Posted, Ranked, Watched
<1>2. QED
  BY <1>1 DEF ExpiryFirst, PolicyStands

LEMMA ExpiryFirstFrame ==
    ASSUME ExpiryFirst, PolicyStands, NEW E, Heeded(E), Expiry \notin E
    PROVE  ExpiryFirst'
BY ExpiryFirstPosted DEF Heeded

LEMMA SleepPosted ==
    ASSUME SleepFits, PolicyStands, os'.sys = os.sys, NEW E, Posted(queue, queue', E), "Sx" \notin E, "S0" \notin E
    PROVE  SleepFits'
<1>1. /\ \A e \in {"Sx", "S0"} : In(queue'["policy"], e) => In(queue["policy"], e)
      /\ Lone(queue["policy"], {"Sx"}) => Lone(queue'["policy"], {"Sx"})
      /\ Precedes(queue["policy"], "S0", "Sx") => Precedes(queue'["policy"], "S0", "Sx")
  BY DEF Posted, Kept, Ranked, Watched
<1>2. FallsAsleep' <=> FallsAsleep
  BY DEF FallsAsleep, PolicyStands, PolicyEnters
<1>3. QED
  BY <1>1, <1>2 DEF SleepFits

LEMMA SleepFrame ==
    ASSUME SleepFits, PolicyStands, os'.sys = os.sys, NEW E, Heeded(E), "Sx" \notin E, "S0" \notin E
    PROVE  SleepFits'
BY SleepPosted DEF Heeded

LEMMA FailureFrame ==
    ASSUME PowerFailureKnown, PowerStands, NEW E, Heeded(E)
    PROVE  PowerFailureKnown'
BY DEF PowerFailureKnown, PowerStands, Powering, Heeded

LEMMA TimerOffFrame ==
    ASSUME TimerOff, PolicyStands, Uses(idle, idle')
    PROVE  TimerOff'
<1>1. idle'.state = "InDx" => idle.state = "InDx"
  BY DEF Uses, Awake
<1>2. QED
  BY <1>1 DEF TimerOff, PolicyStands, Uses

(* only a device that has timed out is idled out *)
Out == idle.state = "TimedOut" \/ at["policy"] \in IdlingOut

LEMMA OutIs ==
    ASSUME IdleFits, PowerFailureKnown, Out, "PowerFailed" \notin idle.flags
    PROVE  idle.state \in {"TimedOut", "InDx"}
<1>1. ASSUME at["policy"] \in IdlingOut
      PROVE  idle.state \in {"TimedOut", "InDx"}
  <2> DEFINE s == at["policy"]
  <2>1. IdleBefore(s) = {"TimedOut"} /\ IdleWhile(s) = {"TimedOut"}
    BY <1>1 DEF IdlingOut, IdleWhile, IdleBefore
  <2>2. OrderOf(s) \in {"none", "Dx", "CompleteDx"}
    BY <1>1 DEF IdlingOut, OrderOf
  <2>3. ~(at["power"] = "ReportPowerDownFailed" /\ ~Powering)
    BY DEF PowerFailureKnown, Broken
  <2>4. Asks => OrderOf(s) # "none"
    BY DEF Asks
  <2> HIDE DEF s
  <2>5. Asks => IdleAsking(s, at["power"], Powering, queue["power"] # <<>>) \subseteq {"TimedOut", "InDx"}
    BY <2>1, <2>2, <2>3, <2>4 DEF IdleAsking
  <2>6. QED
    BY <2>1, <2>5 DEF IdleFits, IdlePlaces, s
<1>2. QED
  BY <1>1 DEF Out

LEMMA GrantFrame ==
    ASSUME GrantFits, IdleFits, PowerFailureKnown, PolicyStands, PnpStays, Uses(idle, idle'),
           NEW E, Heeded(E), WaiterFollows, Idle!IdleInv'
    PROVE  GrantFits'
<1> SUFFICES ASSUME Out', "PowerFailed" \notin idle'.flags
             PROVE  /\ waiter' \notin {"released", "held"}
                    /\ at'["pnp"] \notin Pending
                    /\ ~In(queue'["pnp"], InD0Event)
  BY DEF GrantFits, Out
<1>1. "PowerFailed" \notin idle.flags
  BY DEF Heeded
<1>2. Out
  BY DEF Out, Uses, Awake, PolicyStands
<1>3. idle.state \in {"TimedOut", "InDx"} /\ idle'.state = idle.state
  BY <1>1, <1>2, OutIs DEF Uses, Awake
<1>4. ~idle'.d0
  BY <1>3 DEF Idle!IdleInv, Idle!IdleSound, Idle!D0EventMeans
<1>5. waiter \notin {"released", "held"} /\ at["pnp"] \notin Pending /\ ~In(queue["pnp"], InD0Event)
  BY <1>1, <1>2 DEF GrantFits, Out
<1>6. InD0Event \notin E
  BY <1>3 DEF Heeded, Uses
<1>7. In(queue'["pnp"], InD0Event) => In(queue["pnp"], InD0Event)
  BY <1>6 DEF Heeded, Posted, Kept
<1>8. QED
  BY <1>4, <1>5, <1>7 DEF WaiterFollows, PnpStays

LEMMA AskingIs ==
    ASSUME NEW s, NEW p, NEW e, NEW told
    PROVE  /\ OrderOf(s) # "ImplicitD0" => IdleAsking(s, p, e, told) = IdleAsking(s, p, e, FALSE)
           /\ \/ IdleAsking(s, p, e, told) \in
                   {{"Started"}, {"Disabled"}, {"StartedPowerFailed"}, {"Disabled", "InDx"}, {"InDx"}}
              \/ IdleAsking(s, p, e, told) = IdleWhile(s)
<1> DEFINE o == OrderOf(s)
<1>1. CASE o = "ImplicitD0"
  BY <1>1 DEF IdleAsking
<1>2. CASE o = "ImplicitD3"
  BY <1>2 DEF IdleAsking
<1>3. CASE o = "CompleteDx"
  BY <1>3 DEF IdleAsking
<1>4. CASE o \in {"D0", "CompleteD0"}
  BY <1>4 DEF IdleAsking
<1>5. CASE o \notin {"ImplicitD0", "ImplicitD3", "CompleteDx", "D0", "CompleteD0"}
  BY <1>5 DEF IdleAsking
<1>6. QED
  BY <1>1, <1>2, <1>3, <1>4, <1>5

LEMMA IdleFitsFrame ==
    ASSUME IdleFits, PolicyStands, PowerStands, Uses(idle, idle'),
           OrderOf(at["policy"]) = "ImplicitD0" => queue'["power"] = queue["power"]
    PROVE  IdleFits'
<1> DEFINE s == at["policy"]
<1>1. /\ at'["policy"] = s /\ (Asks' <=> Asks) /\ (PolicyEnters' <=> PolicyEnters)
      /\ at'["power"] = at["power"] /\ (Powering' <=> Powering)
  BY DEF PolicyStands, PowerStands, Asks, PolicyEnters
<1>2. IdlePlaces' = IdlePlaces
  <2>1. CASE Asks
    <3>1. IdlePlaces = IdleAsking(s, at["power"], Powering, queue["power"] # <<>>)
      BY <2>1 DEF IdlePlaces
    <3>2. IdlePlaces' = IdleAsking(s, at["power"], Powering, queue'["power"] # <<>>)
      BY <1>1, <2>1 DEF IdlePlaces, Powering
    <3>3. CASE OrderOf(s) = "ImplicitD0"
      BY <3>1, <3>2, <3>3
    <3>4. CASE OrderOf(s) # "ImplicitD0"
      BY <3>1, <3>2, <3>4, AskingIs
    <3>5. QED
      BY <3>3, <3>4
  <2>2. CASE ~Asks
    BY <1>1, <2>2 DEF IdlePlaces, PolicyEnters
  <2>3. QED
    BY <2>1, <2>2
<1>3. Awake \subseteq IdlePlaces \/ Awake \cap IdlePlaces = {}
  <2>1. \A set \in {IdleWhile(s), IdleBefore(s)} : Awake \subseteq set \/ Awake \cap set = {}
    BY DEF IdleWhile, IdleBefore, Awake, Live
  <2>2. CASE Asks
    <3>1. \/ IdlePlaces \in {{"Started"}, {"Disabled"}, {"StartedPowerFailed"}, {"Disabled", "InDx"}, {"InDx"}}
          \/ IdlePlaces = IdleWhile(s)
      BY <2>2, AskingIs DEF IdlePlaces
    <3>2. QED
      BY <2>1, <3>1 DEF Awake
  <2>3. CASE ~Asks
    <3>1. IdlePlaces \in {IdleWhile(s), IdleBefore(s)}
      BY <2>3 DEF IdlePlaces
    <3>2. QED
      BY <2>1, <3>1
  <2>4. QED
    BY <2>2, <2>3
<1>4. QED
  BY <1>2, <1>3 DEF IdleFits, Uses

LEMMA LockFrame ==
    ASSUME IdleLock, PolicyStands, PowerStands, PnpStays, Uses(idle, idle'), NEW E, Heeded(E),
           E \cap Watched = {}, WaiterFollows, [Idle!IdleNext]_idle, idle'.sent = {},
           os'.sys = os.sys,
           OrderOf(at["policy"]) = "ImplicitD0" => queue'["power"] = queue["power"]
    PROVE  IdleLock'
<1>1. Idle!IdleInv' /\ Sound'
  BY SoundStep DEF IdleLock, Sound
<1>2. Expiry \notin E /\ "Sx" \notin E /\ "S0" \notin E /\ "S0IdlePolicyChanged" \notin E
  BY DEF Watched
<1>3. IdleFits' /\ TimerOff' /\ PowerFailureKnown'
  BY IdleFitsFrame, TimerOffFrame, FailureFrame DEF IdleLock
<1>4. ExpiryFits' /\ ExpiryFirst' /\ SleepFits'
  BY <1>2, ExpiryFrame, ExpiryFirstFrame, SleepFrame DEF IdleLock
<1>5. D0EventFits' /\ GrantFits'
  BY <1>1, D0EventFrame, GrantFrame DEF IdleLock
<1>6. QED
  BY <1>1, <1>3, <1>4, <1>5 DEF IdleLock

(* the step leaves the machines where they are                             *)
LEMMA MachinesStand ==
    ASSUME CountInv, UNCHANGED <<at, entering>>
    PROVE  PolicyStands /\ PowerStands /\ PnpStays
BY DEF CountInv, PolicyStands, PowerStands, PnpStays, Powering

LEMMA SettledUses ==
    ASSUME Sound, NEW n, Uses(idle, n), Heeds(n), Expiry \notin n.sent, idle' = Idle!Settled(n)
    PROVE  /\ Uses(idle, idle') /\ idle'.sent = {} /\ idle'.d0 = n.d0 /\ n.sent \cap Watched = {}
           /\ Posted(queue, queue', n.sent) => Heeded(n.sent)
<1>1. n \in Idle!IdleMachine
  BY DEF Heeds
<1>2. idle'.state = n.state /\ idle'.flags = n.flags /\ idle'.sent = {} /\ idle'.d0 = n.d0
  BY <1>1, SettledIs
<1>3. n.sent \subseteq {Expiry, "IoPresent", "DeviceInD0"}
  BY <1>1 DEF Idle!IdleMachine, Idle!Posts, Expiry
<1>4. n.sent \cap Watched = {}
  BY <1>3 DEF Watched, Expiry
<1>5. Uses(idle, idle')
  BY <1>2 DEF Uses
<1>6. QED
  BY <1>2, <1>4, <1>5, HeedsHeeded

(* A reference taken by, or given back for, an I/O queue or a thread       *)
LEMMA UseKeepsLock ==
    ASSUME CountInv, queue \in Queues, IdleLock, UNCHANGED <<at, entering, os>>,
           NEW n, idle' = Idle!Settled(n), queue' = PostAll(queue, IdlePosts(n)),
           \/ n = Idle!IoIncrement(idle) /\ Idle!CanReference(idle)
           \/ n = Idle!IoDecrement(idle) /\ idle.count > 0,
           waiter' \in {"released", "held"} => waiter \in {"released", "held"} \/ n.d0
    PROVE  IdleLock' /\ Idle!IdleNext
<1>1. Uses(idle, n) /\ Heeds(n) /\ Expiry \notin n.sent
  BY UsesHeard DEF IdleLock
<1>2. queue'["power"] = queue["power"] /\ Posted(queue, queue', n.sent)
  BY IdlePostsPosted
<1>3. Uses(idle, idle') /\ idle'.sent = {} /\ WaiterFollows /\ n.sent \cap Watched = {} /\ Heeded(n.sent)
  BY <1>1, <1>2, SettledUses DEF IdleLock, WaiterFollows
<1>4. Idle!IdleNext
  BY DEF Idle!IdleNext, Idle!Reference, Idle!Dereference
<1>5. QED
  BY <1>1, <1>2, <1>3, <1>4, MachinesStand, LockFrame

(* One that leaves the idle machine alone                                  *)
LEMMA AsideKeepsLock ==
    ASSUME CountInv, queue \in Queues, IdleLock, PolicyStands, PowerStands, PnpStays, idle' = idle,
           NEW E, Posted(queue, queue', E), E \cap (Watched \cup {InD0Event}) = {},
           WaiterFollows, os'.sys = os.sys,
           OrderOf(at["policy"]) = "ImplicitD0" => queue'["power"] = queue["power"]
    PROVE  IdleLock'
<1>1. Heeded(E) /\ Uses(idle, idle') /\ E \cap Watched = {}
  BY NothingHeeded
<1>2. idle'.sent = {} /\ [Idle!IdleNext]_idle
  BY DEF IdleLock, Sound
<1>3. QED
  BY <1>1, <1>2, LockFrame

LEMMA UserKeepsLock ==
    ASSUME CountInv, queue \in Queues, IdleLock, UserNext
    PROVE  IdleLock' /\ [Idle!IdleNext]_idle
<1>1. idle.count \in Nat /\ (users.queue = "referenced" \/ waiter # "none" => idle.count > 0)
  BY DEF CountInv, CountIsHolders, Idle!IdleMachine
<1>2. CASE SetTransitionFromEmpty /\ Idle!CanReference(idle)
  <2>1. IdleOperation(Idle!IoIncrement(idle)) /\ ByUser
    BY <1>2 DEF SetTransitionFromEmpty
  <2>2. QED
    BY <1>2, <2>1, UseKeepsLock DEF IdleOperation, IdleBecomes, Posts, ByUser
<1>3. CASE QueueIsEmpty /\ users.queue = "referenced"
  <2>1. IdleOperation(Idle!IoDecrement(idle)) /\ ByUser
    BY <1>3 DEF QueueIsEmpty
  <2>2. QED
    BY <1>1, <1>3, <2>1, UseKeepsLock DEF IdleOperation, IdleBecomes, Posts, ByUser
<1>4. CASE ThreadReferences
  BY <1>4, UseKeepsLock DEF ThreadReferences, ThreadLeaves, Posts, ByUser
<1>5. CASE ThreadGoesOn /\ ~Idle!CanReference(idle)
  BY <1>1, <1>5, UseKeepsLock DEF ThreadGoesOn, ThreadLeaves, Posts, ByUser
<1>6. CASE ThreadDereferences
  BY <1>1, <1>6, UseKeepsLock DEF ThreadDereferences, ThreadLeaves, Posts, ByUser
<1>7. CASE \/ SetTransitionFromEmpty /\ ~Idle!CanReference(idle)
           \/ QueueIsEmpty /\ users.queue # "referenced"
           \/ ThreadWaitsForD0
           \/ ThreadGoesOn /\ Idle!CanReference(idle)
  <2>1. UNCHANGED <<at, entering, queue, idle, os>> /\ WaiterFollows
    BY <1>7 DEF SetTransitionFromEmpty, QueueIsEmpty, ThreadWaitsForD0, ThreadGoesOn, ThreadLeaves,
       machines, references, ByUser, WaiterFollows
  <2>2. Posted(queue, queue', {})
    BY <2>1, PostedStays
  <2>3. QED
    BY <2>1, <2>2, MachinesStand, AsideKeepsLock
<1>8. CASE PowerPolicySetS0IdleState
  <2> DEFINE e == "S0IdlePolicyChanged"
  <2>1. UNCHANGED <<at, entering, idle, waiter, os>> /\ queue' = PostAll(queue, ToPolicy(e))
    BY <1>8 DEF PowerPolicySetS0IdleState, Posts, references, ToPolicy
  <2>2. e \in Events /\ e \in Events \ (PwrPolPriorityEventsMask \cup Orders)
    BY DEF Events, PwrPolPriorityEventsMask, Orders
  <2>3. Posted(queue, queue', {e})
    <3>1. "IoPresent" \in Unwatched
      BY DEF Unwatched, Events, Watched, Expiry, InD0Event
    <3>2. QED
      BY <2>1, <2>2, <3>1, PostsPosted
  <2>4. queue'["power"] = queue["power"]
    BY <2>1, <2>2, CalmPosts DEF Calm, AnswersStay, ToPolicy
  <2>5. Heeded({e}) /\ Uses(idle, idle')
    BY <2>1, <2>3, NothingHeeded DEF InD0Event
  <2>6. PolicyStands /\ PowerStands /\ PnpStays /\ WaiterFollows /\ Sound' /\ Idle!IdleInv'
    BY <2>1, MachinesStand, SoundStep DEF WaiterFollows, IdleLock, Sound
  <2>7. Expiry \notin {e} /\ "Sx" \notin {e} /\ "S0" \notin {e} /\ os'.sys = os.sys
    BY <2>1 DEF Expiry
  <2>8. IdleFits' /\ TimerOff' /\ PowerFailureKnown'
    BY <2>4, <2>5, <2>6, IdleFitsFrame, TimerOffFrame, FailureFrame DEF IdleLock
  <2>9. ExpiryFits' /\ ExpiryFirst' /\ SleepFits'
    BY <2>1, <2>5, <2>6, <2>7, ExpiryFrame, ExpiryFirstFrame, SleepFrame DEF IdleLock
  <2>10. D0EventFits' /\ GrantFits'
    BY <2>5, <2>6, D0EventFrame, GrantFrame DEF IdleLock
  <2>11. QED
    BY <2>1, <2>6, <2>8, <2>9, <2>10 DEF IdleLock
<1>9. QED
  BY <1>2, <1>3, <1>4, <1>5, <1>6, <1>7, <1>8 DEF UserNext

(* Where an event goes that is not of those the power policy machine waits *)
(* for, or that comes to another machine                                   *)
LEMMA PnpPosted ==
    ASSUME NEW q \in Queues, NEW e \in Events \ {InD0Event}
    PROVE  Posted(q, PostAll(q, ToPnp(e)), {})
<1> DEFINE t == Post(q, <<"pnp", e>>)
<1>1. Posted(q, t, {e}) /\ t.policy = q.policy
  <2>1. "pnp" \in Machines /\ "policy" \in Machines
    BY DEF Machines
  <2>2. t["policy"] = q["policy"]
    BY <2>1, PostGrows
  <2>3. QED
    BY <2>1, <2>2, PostPosts
<1> HIDE DEF t
<1>2. Posted(q, t, {})
  <2>1. Kept(q.policy, t.policy, Watched, {}) /\ Ranked(q.policy, t.policy, Watched, {})
    BY <1>1, KeptStays
  <2>2. Kept(q.pnp, t.pnp, {InD0Event}, {})
    BY <1>1 DEF Posted, Kept
  <2>3. QED
    BY <1>1, <2>1, <2>2 DEF Posted
<1>3. PostAll(q, ToPnp(e)) = t
  BY PostOne DEF ToPnp, t
<1>4. QED
  BY <1>2, <1>3

LEMMA Plain ==
    /\ {"D0", "Dx", "PowerDown", "PowerDownFailed", "PowerUpNotSeen", "IoPresent", "ImplicitD0",
        "ImplicitD3", "CompleteDx", "CompleteD0", "PowerUp", "PowerUpFailed", "PowerDownIoStopped",
        "PowerUpHwStarted"} \subseteq Unwatched
    /\ {"StartDeviceComplete", "StartDeviceFailed"} \cup DOMAIN Succeeded \subseteq Events \ {InD0Event}
BY DEF Unwatched, Events, Watched, Expiry, InD0Event, Succeeded, PwrPolPriorityEventsMask, Orders

(* The system is told that it sleeps, or wakes                             *)
LEMMA SystemSays ==
    ASSUME CountInv, queue \in Queues, IdleLock, UNCHANGED <<at, entering, idle, waiter, users>>,
           NEW E, E \subseteq {"Sx", "S0"}, Posted(queue, queue', E), queue'["power"] = queue["power"],
           SleepFits'
    PROVE  IdleLock'
<1>1. Heeded(E) /\ Uses(idle, idle')
  BY NothingHeeded DEF InD0Event
<1>2. PolicyStands /\ PowerStands /\ PnpStays /\ WaiterFollows /\ Sound' /\ Idle!IdleInv'
  BY MachinesStand, SoundStep DEF WaiterFollows, IdleLock, Sound
<1>3. Expiry \notin E /\ "S0IdlePolicyChanged" \notin E
  BY DEF Expiry
<1>4. IdleFits' /\ TimerOff' /\ PowerFailureKnown'
  BY <1>1, <1>2, IdleFitsFrame, TimerOffFrame, FailureFrame DEF IdleLock
<1>5. ExpiryFits' /\ ExpiryFirst'
  BY <1>1, <1>2, <1>3, ExpiryFrame, ExpiryFirstFrame DEF IdleLock
<1>6. D0EventFits' /\ GrantFits'
  BY <1>1, <1>2, D0EventFrame, GrantFrame DEF IdleLock
<1>7. QED
  BY <1>2, <1>4, <1>5, <1>6 DEF IdleLock

LEMMA SystemSleepsKeepsLock ==
    ASSUME CountInv, StageInv, queue \in Queues, IdleLock, SystemSleeps \/ SystemWakes
    PROVE  IdleLock'
<1>1. ASSUME NEW e \in {"Sx", "S0"}, UNCHANGED <<at, entering, idle, waiter, users>>,
             queue' = PostAll(queue, ToPolicy(e)), e = "Sx" => os.sys = "S0" /\ os'.sys = "sleeping",
             e = "S0" => os.sys = "Sx"
      PROVE  IdleLock'
  <2>1. e \in Events \ (PwrPolPriorityEventsMask \cup Orders)
    BY DEF Events, PwrPolPriorityEventsMask, Orders
  <2>2. queue'["power"] = queue["power"]
    BY <1>1, <2>1, CalmPosts DEF Calm, AnswersStay, ToPolicy
  <2>3. Posted(queue, queue', {e})
    <3>1. "IoPresent" \in Unwatched
      BY DEF Unwatched, Events, Watched, Expiry, InD0Event
    <3>2. QED
      BY <1>1, <2>1, <3>1, PostsPosted
  <2>4. /\ \A a \in {"Sx", "S0"} \ {e} : In(queue'["policy"], a) => In(queue["policy"], a)
        /\ ~In(queue["policy"], "Sx") => Lone(queue'["policy"], {"Sx"})
        /\ ~In(queue["policy"], "Sx") /\ e = "Sx" => Precedes(queue'["policy"], "S0", "Sx")
    <3>1. Kept(queue.policy, queue'.policy, Watched, {e}) /\ Ranked(queue.policy, queue'.policy, Watched, {e})
      BY <2>3 DEF Posted
    <3>2. {"Sx", "S0"} \subseteq Watched
      BY DEF Watched
    <3>3. ~In(queue["policy"], "Sx") => Lone(queue["policy"], {"Sx"}) /\ Precedes(queue["policy"], "S0", "Sx")
      BY DEF In, Lone, Precedes
    <3>4. QED
      BY <3>1, <3>2, <3>3 DEF Kept, Ranked
  <2>5. ~FallsAsleep /\ ~In(queue["policy"], "Sx")
    BY <1>1 DEF IdleLock, SleepFits
  <2>6. ~FallsAsleep'
    BY <1>1, <2>5 DEF FallsAsleep, PolicyEnters
  <2>7. SleepFits'
    BY <1>1, <2>4, <2>5, <2>6 DEF IdleLock, SleepFits
  <2>8. QED
    BY <1>1, <2>2, <2>3, <2>7, SystemSays
<1>2. os \in Os
  BY DEF StageInv
<1>3. CASE SystemSleeps
  <2>1. os.sys = "S0" /\ os'.sys = "sleeping"
    BY <1>2, <1>3 DEF SystemSleeps, Os
  <2>2. QED
    BY <1>1, <1>3, <2>1 DEF SystemSleeps, Posts, ToPolicy, references
<1>4. CASE SystemWakes
  BY <1>1, <1>4 DEF SystemWakes, Posts, ToPolicy, references
<1>5. QED
  BY <1>3, <1>4

(* The timer runs out                                                      *)
LEMMA TimerDueKeepsLock ==
    ASSUME CountInv, queue \in Queues, IdleLock, TimerDue
    PROVE  IdleLock' /\ Idle!IdleNext
<1>1. /\ UNCHANGED <<at, entering, queue, waiter, os, users>> /\ idle' = Idle!TimerFires(idle)
      /\ idle.timer = "armed" /\ idle \in Idle!IdleMachine
  BY DEF TimerDue, machines, environment, CountInv
<1>2. idle'.state = idle.state /\ idle'.flags = idle.flags /\ idle'.sent = {} /\ idle'.d0 = idle.d0
  BY <1>1 DEF Idle!TimerFires, Idle!IdleMachine, IdleLock, Sound
<1>3. Posted(queue, queue', {}) /\ Heeded({}) /\ Uses(idle, idle')
  BY <1>1, <1>2, PostedStays DEF Heeded, Uses
<1>4. Idle!IdleNext /\ WaiterFollows
  BY <1>1 DEF Idle!IdleNext, Idle!TimerDue, WaiterFollows
<1>5. QED
  BY <1>1, <1>2, <1>3, <1>4, MachinesStand, LockFrame

(* and its DPC tells the idle machine                                      *)
LEMMA DpcKeepsLock ==
    ASSUME CountInv, queue \in Queues, IdleLock, PowerTimeoutDpcRoutine
    PROVE  IdleLock' /\ Idle!IdleNext
<1> DEFINE n == Idle!PowerTimeoutDpcRoutine(idle)
<1>1. /\ UNCHANGED <<at, entering, os, users>> /\ idle.timer = "fired" /\ idle' = Idle!Settled(n)
      /\ queue' = PostAll(queue, IdlePosts(n)) /\ waiter' = IF waiter = "waiting" /\ n.d0 THEN "released" ELSE waiter
  BY DEF PowerTimeoutDpcRoutine, IdleOperation, IdleBecomes, Posts, environment
<1>2. /\ \/ idle.state = "TimerRunning" /\ n.state = "TimedOut" /\ idle.count = 0
         \/ idle.state = "DisablingWaitForTimeout" /\ n.state = "Disabled"
         \/ idle.state = "WaitForTimeout" /\ n.state \in Awake /\ Expiry \notin n.sent
      /\ Heeds(n)
  BY <1>1, TimeoutHeard DEF IdleLock
<1>3. Idle!IdleNext
  BY <1>1 DEF Idle!IdleNext, Idle!TimerDpc
<1>4. queue'["power"] = queue["power"] /\ Posted(queue, queue', n.sent)
  BY <1>1, IdlePostsPosted
<1> HIDE DEF n
<1>5. /\ idle'.state = n.state /\ idle'.flags = n.flags /\ idle'.sent = {} /\ idle'.d0 = n.d0
      /\ n.sent \subseteq {Expiry, "IoPresent", "DeviceInD0"}
      /\ Heeded(n.sent) /\ WaiterFollows /\ Sound' /\ Idle!IdleInv'
  <2>1. n \in Idle!IdleMachine
    BY <1>2 DEF Heeds
  <2>2. idle'.state = n.state /\ idle'.flags = n.flags /\ idle'.sent = {} /\ idle'.d0 = n.d0
    BY <1>1, <2>1, SettledIs
  <2>3. n.sent \subseteq {Expiry, "IoPresent", "DeviceInD0"}
    BY <2>1 DEF Idle!IdleMachine, Idle!Posts, Expiry
  <2>4. Idle!IdleInv'
    BY <1>3, SoundStep DEF IdleLock, Sound
  <2>5. QED
    BY <1>1, <1>2, <1>4, <2>2, <2>3, <2>4, HeedsHeeded DEF WaiterFollows, Sound
<1>6. PolicyStands /\ PowerStands /\ PnpStays
  BY <1>1, MachinesStand
<1>7. CASE idle.state = "WaitForTimeout" /\ n.state \in Awake /\ Expiry \notin n.sent
  <2>1. n.sent \cap Watched = {}
    BY <1>5, <1>7 DEF Watched, Expiry
  <2>2. Uses(idle, idle')
    BY <1>5, <1>7 DEF Uses, Awake
  <2>3. QED
    BY <1>1, <1>3, <1>4, <1>5, <1>6, <2>1, <2>2, LockFrame
<1>8. CASE idle.state \in {"TimerRunning", "DisablingWaitForTimeout"}
           /\ (idle.state = "TimerRunning" => n.state = "TimedOut" /\ idle.count = 0)
           /\ (idle.state = "DisablingWaitForTimeout" => n.state = "Disabled")
  <2> DEFINE s == at["policy"]
             waits == {"StartedWaitForIdleTimeout", "StartedIdleCapableWaitForIdleTimeout",
                       "StoppingWaitForIdleTimeout"}
  <2>1. /\ ~Asks
        /\ idle.state = "TimerRunning" => s \in CancelsIt \/ (s = "StartedIdleCapable" /\ ~PolicyEnters)
        /\ idle.state = "DisablingWaitForTimeout" => s \in waits
    <3>1. /\ IdleWhile(s) \cap {"TimerRunning"} # {} => s \in CancelsIt \cup {"StartedIdleCapable"}
          /\ IdleBefore(s) \cap {"TimerRunning"} # {} => s \in CancelsIt
          /\ IdleWhile(s) \cap {"DisablingWaitForTimeout"} # {} => s \in waits
          /\ IdleBefore(s) \cap {"DisablingWaitForTimeout"} # {} => s \in waits
      BY DEF IdleWhile, IdleBefore, CancelsIt, Live, Awake
    <3>2. s \in waits \cup CancelsIt \cup {"StartedIdleCapable"} => OrderOf(s) = "none"
      BY DEF OrderOf, CancelsIt
    <3>3. CASE Asks
      <4>1. \/ IdlePlaces \in {{"Started"}, {"Disabled"}, {"StartedPowerFailed"}, {"Disabled", "InDx"}, {"InDx"}}
            \/ IdlePlaces = IdleWhile(s)
        BY <3>3, AskingIs DEF IdlePlaces
      <4>2. idle.state \in IdlePlaces
        BY DEF IdleLock, IdleFits
      <4>3. idle.state \in IdleWhile(s)
        BY <1>8, <4>1, <4>2
      <4>4. FALSE
        BY <1>8, <3>1, <3>2, <3>3, <4>3 DEF Asks
      <4>5. QED
        BY <4>4
    <3>4. CASE ~Asks
      <4>1. idle.state \in IF PolicyEnters THEN IdleBefore(s) ELSE IdleWhile(s)
        BY <3>4 DEF IdleLock, IdleFits, IdlePlaces
      <4>2. QED
        BY <1>8, <3>1, <3>4, <4>1 DEF CancelsIt
    <3>5. QED
      BY <3>3, <3>4
  <2>2. /\ at'["policy"] = s /\ ~Asks' /\ (PolicyEnters' <=> PolicyEnters)
    BY <1>6, <2>1 DEF PolicyStands, Asks, PolicyEnters
  <2>3. ~In(queue["policy"], Expiry)
    BY <1>8 DEF IdleLock, ExpiryFits
  <2>4. Lone(queue'["policy"], {Expiry})
    BY <2>3, <1>4 DEF Posted, Kept, Watched, In, Lone
  <2> HIDE DEF s, waits
  <2>5. IdleFits'
    <3>1. IdlePlaces' = IF PolicyEnters THEN IdleBefore(s) ELSE IdleWhile(s)
      BY <2>2 DEF IdlePlaces
    <3>2. n.state \in IF PolicyEnters THEN IdleBefore(s) ELSE IdleWhile(s)
      BY <1>8, <2>1 DEF IdleBefore, IdleWhile, CancelsIt, waits, Live
    <3>3. QED
      BY <1>5, <3>1, <3>2 DEF IdleFits
  <2>6. TimerOff' /\ PowerFailureKnown'
    BY <1>5, <1>6, <1>8, FailureFrame DEF IdleLock, TimerOff
  <2>7. ExpiryFits' /\ ExpiryFirst'
    <3>1. ExpiryNew' <=> ExpiryNew
      BY <2>2 DEF ExpiryNew, s
    <3>2. s \notin {"SystemAsleepNoWake", "Stopped"}
      BY <1>8, <2>1 DEF CancelsIt, waits
    <3>3. idle.state = "TimerRunning" => ExpiryNew
      BY <2>1 DEF ExpiryNew, s
    <3>4. idle.state = "DisablingWaitForTimeout" => s \in ExpiryStale
      BY <2>1 DEF ExpiryStale, SleepsNow, waits
    <3>5. QED
      BY <1>5, <1>8, <2>2, <2>4, <3>1, <3>2, <3>3, <3>4 DEF ExpiryFits, ExpiryFirst
  <2>8. SleepFits'
    BY <1>1, <1>5, <1>6, SleepFrame DEF IdleLock, Expiry
  <2>9. D0EventFits'
    BY <1>5, <1>6, D0EventFrame DEF IdleLock
  <2>10. GrantFits'
    <3>1. s \notin IdlingOut
      BY <1>8, <2>1 DEF IdlingOut, CancelsIt, waits
    <3>2. CASE idle.state = "TimerRunning"
      <4>1. waiter = "none" /\ ~PnpHolds
        BY <1>8, <3>2 DEF CountInv, CountIsHolders
      <4>2. waiter' = "none" /\ at'["pnp"] \notin Pending
        BY <1>1, <4>1 DEF PnpHolds
      <4>3. ~PnpAwaits'
        BY <1>1, <4>1 DEF PnpHolds, PnpAwaits
      <4>4. QED
        BY <2>9, <4>2, <4>3 DEF GrantFits, D0EventFits
    <3>3. CASE idle.state = "DisablingWaitForTimeout"
      BY <1>5, <1>8, <2>2, <3>1, <3>3 DEF GrantFits
    <3>4. QED
      BY <1>8, <3>2, <3>3
  <2>11. QED
    BY <1>3, <1>5, <2>5, <2>6, <2>7, <2>8, <2>9, <2>10 DEF IdleLock
<1>9. QED
  BY <1>2, <1>3, <1>7, <1>8

(* The drivers below, the managers and the timer                           *)
LEMMA SystemKeepsLock ==
    ASSUME CountInv, StageInv, queue \in Queues, Lockstep, IdleLock, SystemNext
    PROVE  IdleLock' /\ [Idle!IdleNext]_idle
<1> DEFINE aside == /\ UNCHANGED <<at, entering, idle, waiter>> /\ users' = users /\ os'.sys = os.sys
                    /\ Posted(queue, queue', {})
                    /\ OrderOf(at["policy"]) = "ImplicitD0" => queue'["power"] = queue["power"]
<1>1. ASSUME aside
      PROVE  IdleLock' /\ [Idle!IdleNext]_idle
  BY <1>1, MachinesStand, AsideKeepsLock DEF WaiterFollows
<1>2. os \in Os
  BY DEF StageInv
<1>3. Posted(queue, PostAll(queue, <<>>), {})
      /\ \A a, b \in Unwatched : /\ Posted(queue, PostAll(queue, ToPolicy(a)), {})
                               /\ Posted(queue, PostAll(queue, ToPower(a)), {})
                               /\ Posted(queue, PostAll(queue, <<<<"policy", a>>, <<"pnp", b>>>>), {})
  BY Plain, PostsPosted
<1>4. CASE DispatchDeviceSetPower
  <2>1. /\ queue' = PostAll(queue, ToPower(Oldest.to)) /\ OldestIs("sent")
        /\ UNCHANGED <<at, entering, idle, waiter, os, users>>
    BY <1>4 DEF DispatchDeviceSetPower, Posts, references, environment
  <2>2. Oldest.to \in {"D0", "Dx"} /\ OrderOf(at["policy"]) \in {"D0", "Dx"}
    BY <2>1, IrpsBelow DEF IrpSent, Oldest, Irp, OldestIs
  <2>3. Posted(queue, queue', {})
    BY <1>3, <2>1, <2>2, Plain
  <2>4. QED
    BY <1>1, <2>1, <2>2, <2>3
<1>5. CASE DevicePowerIrpCompletes
  <2>1. /\ UNCHANGED <<at, entering, idle, waiter, os, users>>
        /\ queue' = PostAll(queue, PowerDownCompletePosts) \/ queue' = PostAll(queue, PowerUpCompletePosts)
    BY <1>5 DEF DevicePowerIrpCompletes, Posts, references, environment
  <2>2. Posted(queue, queue', {})
    <3>1. /\ PowerDownCompletePosts \in {<<<<"policy", "PowerDownFailed">>, <<"pnp", "PowerDownFailed">>>>,
                                         ToPolicy("PowerDown")}
          /\ PowerUpCompletePosts \in {ToPolicy("PowerUpNotSeen"), <<>>}
      BY DEF PowerDownCompletePosts, PowerUpCompletePosts, ToPolicy
    <3>2. \A p \in {<<<<"policy", "PowerDownFailed">>, <<"pnp", "PowerDownFailed">>>>, ToPolicy("PowerDown"),
                    ToPolicy("PowerUpNotSeen"), <<>>} : Posted(queue, PostAll(queue, p), {})
      BY <1>3, Plain
    <3>3. QED
      BY <2>1, <3>1, <3>2
  <2>3. OrderOf(at["policy"]) = "ImplicitD0" => queue'["power"] = queue["power"]
    BY <1>5, IrpCompletesKeepsStep DEF AsideQuiet, AnswersStay
  <2>4. QED
    BY <1>1, <2>1, <2>2, <2>3
<1>6. CASE SystemSleeps \/ SystemWakes
  <2>1. idle' = idle
    BY <1>6 DEF SystemSleeps, SystemWakes, references
  <2>2. QED
    BY <1>6, <2>1, SystemSleepsKeepsLock
<1>7. ASSUME NEW e \in Events \ {InD0Event}, queue' = PostAll(queue, ToPnp(e)),
             UNCHANGED <<at, entering, idle, waiter, users>>, os'.sys = os.sys,
             OrderOf(at["policy"]) = "ImplicitD0" => AnswersStay(queue, queue')
      PROVE  aside
  <2>1. Posted(queue, queue', {})
    BY <1>7, PnpPosted
  <2>2. QED
    BY <1>7, <2>1 DEF AnswersStay
<1> HIDE DEF aside
<1>8. OrderOf(at["policy"]) = "ImplicitD0" => AnswersStay(queue, queue')
  BY SystemKeepsStep DEF AsideQuiet
<1>9. ASSUME NEW irp \in DOMAIN Succeeded, ManagerSends(irp)
      PROVE  aside
  BY <1>2, Plain, <1>7, <1>8, <1>9 DEF ManagerSends, Posts, ToPnp, references, Os
<1>10. CASE StartDeviceCompletes
  <2>1. os'.sys = os.sys
    BY <1>2, <1>10 DEF StartDeviceCompletes, FinishProcessingIrp, FailPendingIrp, Os
  <2>2. QED
    BY <1>1, Plain, <1>7, <1>8, <1>10, <2>1 DEF StartDeviceCompletes, Posts, references
<1>11. CASE TimerDue
  BY <1>11, TimerDueKeepsLock
<1>12. CASE PowerTimeoutDpcRoutine
  BY <1>12, DpcKeepsLock
<1>13. QED
  BY <1>1, <1>4, <1>5, <1>6, <1>9, <1>10, <1>11, <1>12 DEF SystemNext

-----------------------------------------------------------------------------
(***************************************************************************)
(* The entry functions of the power policy machine                         *)
(***************************************************************************)

(* What each tells the idle machine, and how it leaves it                  *)
PoweredDown == "TimerExpiredNoWakePoweredDownDisableIdleTimer"
Queries == {"WaitingUnarmedQueryIdle", "SystemWakeQueryIdle"}

IdleEventOf(s) ==
  CASE s \in {"Starting", "Restarting"} -> "Start"
    [] s \in {"StartingFailed", "RestartingFailed", "StoppingSendStatus"} -> "Stop"
    [] s = "StartedIdleCapable" -> "Enabled"
    [] s \in CancelsIt \cup {"Started", PoweredDown, "StoppingResetDevice"} -> "Disabled"
    [] OTHER -> "none"

Left(s) ==
  IF IdleEventOf(s) # "none" THEN Hears(IdleEventOf(s))
  ELSE IF s \in Queries THEN Idle!Queried(idle) ELSE idle

IdleAfter(s, a) ==
  CASE IdleEventOf(s) = "Start" -> {"Started"}
    [] IdleEventOf(s) = "Stop" -> {"Stopped"}
    [] IdleEventOf(s) = "Enabled" -> {"TimerRunning", "Busy"}
    [] IdleEventOf(s) = "Disabled" ->
         (CASE a \in {"Disabled", "Busy", "TimedOut"} -> {"Disabled"}
           [] a = "TimerRunning" -> {"Disabled", "DisablingWaitForTimeout"}
           [] a = "WaitForTimeout" -> {"DisablingWaitForTimeout"}
           [] OTHER -> {"InDx"})
    [] OTHER -> {a}

LEMMA PolicyIsLegal ==
    ASSUME NEW s, idle.state \in IdleBefore(s), IdleEventOf(s) # "none"
    PROVE  /\ Idle!Legal(idle, IdleEventOf(s)) /\ IdleEventOf(s) \in UserEvents
           /\ IdleEventOf(s) = "Enabled" => idle.state \in {"Disabled", "TimedOut"}
           /\ IdleEventOf(s) = "Disabled" =>
                idle.state \in {"Disabled", "Busy", "TimerRunning", "TimedOut", "InDx", "WaitForTimeout"}
<1>1. CASE s \in {"Starting", "Restarting"}
  <2>1. IdleBefore(s) = {"Stopped"} /\ IdleEventOf(s) = "Start"
    BY <1>1 DEF IdleEventOf, IdleBefore, IdleWhile, CancelsIt, PoweredDown
  <2>2. QED
    BY <2>1 DEF Idle!Legal, UserEvents
<1>2. CASE s \in {"StartingFailed", "RestartingFailed", "StoppingSendStatus"}
  <2>1. /\ IdleBefore(s) \subseteq {"StartedPowerFailed", "Disabled", "InDx"} /\ IdleEventOf(s) = "Stop"
    BY <1>2 DEF IdleEventOf, IdleBefore, IdleWhile, CancelsIt, PoweredDown
  <2>2. QED
    BY <2>1 DEF Idle!Legal, UserEvents
<1>3. CASE s = "StartedIdleCapable"
  BY <1>3 DEF IdleEventOf, IdleBefore, IdleWhile, Idle!Legal, UserEvents, CancelsIt, PoweredDown
<1>4. CASE s \in CancelsIt \cup {"Started", PoweredDown, "StoppingResetDevice"}
  BY <1>4 DEF IdleEventOf, IdleBefore, IdleWhile, Idle!Legal, UserEvents, CancelsIt, PoweredDown, Live, Awake
<1>5. QED
  BY <1>1, <1>2, <1>3, <1>4 DEF IdleEventOf

(* what follows when it has                                                *)
LEMMA PolicyTurn ==
    ASSUME Sound, NEW s, idle.state \in IdleBefore(s), idle' = Idle!Settled(Left(s)),
           Posted(queue, queue', Left(s).sent)
    PROVE  /\ Heeded(Left(s).sent) /\ Left(s).sent \cap Watched = {}
           /\ idle'.sent = {} /\ idle'.d0 = Left(s).d0 /\ [Idle!IdleNext]_idle
           /\ idle'.state \in IdleAfter(s, idle.state)
           /\ idle'.state = "InDx" => /\ idle.state = "InDx" /\ ("TimerEnabled" \in idle'.flags => "TimerEnabled" \in idle.flags)
                                      /\ "TimerEnabled" \in idle'.flags => s # PoweredDown
           /\ idle'.state = "TimedOut" => InD0Event \notin Left(s).sent
           /\ s \in CancelsIt => (Idle!DisabledImmediately(Left(s)) <=> idle'.state # "DisablingWaitForTimeout")
<1> DEFINE n == Left(s)
           e == IdleEventOf(s)
<1>1. CASE e # "none"
  <2>1. n = Hears(e) /\ Idle!Legal(idle, e) /\ e \in UserEvents
    BY <1>1, PolicyIsLegal DEF Left
  <2>2. Turns(e, idle, n) /\ Heeds(n) /\ Expiry \notin n.sent /\ Idle!IdleNext
    BY <2>1, UserEventHeard
  <2> HIDE DEF n, e
  <2>3. n \in Idle!IdleMachine
    BY <2>2 DEF Heeds
  <2>4. /\ idle'.state = n.state /\ idle'.flags = n.flags /\ idle'.sent = {} /\ idle'.d0 = n.d0
        /\ n.sent \subseteq {Expiry, "IoPresent", "DeviceInD0"}
    BY <2>3, SettledIs DEF n, Idle!IdleMachine, Idle!Posts, Expiry
  <2>5. n.sent \cap Watched = {}
    BY <2>2, <2>4 DEF Watched, Expiry
  <2>6. Heeded(n.sent)
    BY <2>2, HeedsHeeded DEF n
  <2>7. e \in {"Start", "Stop", "Enabled", "Disabled"}
    BY <1>1 DEF e, IdleEventOf
  <2>8. /\ n.state \in IdleAfter(s, idle.state) /\ n.state # "TimedOut"
        /\ n.state = "InDx" => e = "Disabled" /\ idle.state = "InDx" /\ "TimerEnabled" \notin n.flags
    BY <1>1, <2>2, <2>7, PolicyIsLegal DEF Turns, IdleAfter, e
  <2>9. s \in CancelsIt => (Idle!DisabledImmediately(n) <=> n.state # "DisablingWaitForTimeout")
    <3>1. s \in CancelsIt => e = "Disabled"
      BY DEF e, IdleEventOf, CancelsIt
    <3>2. QED
      BY <3>1, <2>2 DEF Turns
  <2>10. QED
    BY <2>2, <2>4, <2>5, <2>6, <2>8, <2>9 DEF n
<1>2. CASE e = "none" /\ s \in Queries
  <2>1. n = Idle!Queried(idle)
    BY <1>2 DEF Left
  <2>2. Uses(idle, n) /\ Heeds(n) /\ Expiry \notin n.sent /\ n.state = idle.state
    BY <2>1, UsesHeard, QueryHeard
  <2>3. idle.state = "InDx"
    BY <1>2 DEF IdleBefore, IdleWhile, Queries
  <2>4. Idle!IdleNext
    BY <2>1, <2>3 DEF Idle!IdleNext, Idle!Query
  <2> HIDE DEF n, e
  <2>5. /\ idle'.state = n.state /\ idle'.flags = n.flags /\ idle'.sent = {} /\ idle'.d0 = n.d0
        /\ n.sent \cap Watched = {}
    BY <2>2, SettledUses, SettledIs DEF n, Heeds
  <2>6. Heeded(n.sent)
    BY <2>2, HeedsHeeded DEF n
  <2>7. s \notin CancelsIt /\ s # PoweredDown
    BY <1>2 DEF CancelsIt, PoweredDown, Queries
  <2>8. n.state \in IdleAfter(s, idle.state)
    BY <1>2, <2>2 DEF IdleAfter, e
  <2>9. QED
    BY <2>2, <2>3, <2>4, <2>5, <2>6, <2>7, <2>8 DEF n, Uses
<1>3. CASE e = "none" /\ s \notin Queries
  <2>1. n = idle /\ s \notin CancelsIt /\ s # PoweredDown
    BY <1>3 DEF Left, IdleEventOf
  <2>2. idle \in Idle!IdleMachine /\ idle.sent = {}
    BY DEF Sound, Idle!IdleInv, Idle!IdleTypeOK
  <2>3. idle' = idle
    BY <2>1, <2>2 DEF Idle!Settled, Idle!IdleMachine
  <2>4. Heeded({})
    BY <2>1, <2>2, <2>3, NothingHeeded
  <2>5. idle.state \in IdleAfter(s, idle.state)
    BY <1>3 DEF IdleAfter
  <2>6. QED
    BY <2>1, <2>2, <2>3, <2>4, <2>5
<1>4. QED
  BY <1>1, <1>2, <1>3

CompletesIt == {"SleepingNoWakeDxRequestFailed", "SystemSleepPowerRequestFailed", "SystemAsleepNoWake"}
WaitStates == {"StartedWaitForIdleTimeout", "StartedIdleCapableWaitForIdleTimeout",
               "StoppingWaitForIdleTimeout"}

PolicySays(s) ==
  /\ "policy" \in entering /\ at["policy"] = s
  /\ idle' = Idle!Settled(Left(s)) /\ Posted(queue, queue', Left(s).sent)
  /\ waiter' \in {"released", "held"} => waiter \in {"released", "held"} \/ Left(s).d0
  /\ users' = users
  /\ os'.sys = IF s \in CompletesIt THEN "Sx" ELSE os.sys
  /\ s \in CancelsIt => (at'["policy"] \in WaitStates <=> ~Idle!DisabledImmediately(Left(s)))
  /\ s = "StartingDecideS0Wake" =>
       at'["policy"] = IF users.s0idle THEN "StartedIdleCapable" ELSE "Started"
  /\ OrderOf(s) = "ImplicitD0" => queue'["power"] # <<>>

(* what the entry functions post but by the idle machine                   *)
PlainPosts ==
  {<<>>} \cup {ToPower(e) : e \in Unwatched} \cup {ToPnp(e) : e \in Unwatched}

LEMMA PlainPosted ==
    ASSUME NEW q \in Queues, NEW posts \in PlainPosts, NEW m
    PROVE  Posted(q, PostAll(q, posts), {}) /\ Posted(q, PostAll(q, IdlePosts(m) \o posts), m.sent)
<1>1. CASE posts = <<>>
  BY <1>1, Plain, PostsPosted
<1>2. CASE posts # <<>>
  BY <1>2, PostsPosted DEF PlainPosts, Unwatched
<1>3. QED
  BY <1>1, <1>2

Other(s) == s \notin CancelsIt \cup {"StartingDecideS0Wake"} /\ OrderOf(s) # "ImplicitD0"

(* kinds of them *)
LEMMA PolicyIdlesSays ==
    ASSUME CountInv, StageInv, queue \in Queues, NEW s, NEW next, NEW posts \in PlainPosts,
           PolicyIdles(s, next, Left(s), posts), Other(s), s \notin CompletesIt
    PROVE  PolicySays(s)
<1> DEFINE m == Left(s)
<1>1. /\ PolicyEntry(s, next, IdlePosts(m) \o posts) /\ UNCHANGED <<os, users>>
      /\ idle' = Idle!Settled(m) /\ waiter' = IF waiter = "waiting" /\ m.d0 THEN "released" ELSE waiter
  BY DEF PolicyIdles, IdleBecomes, PolicyKeeps, environment
<1> HIDE DEF m
<1>2. Posted(queue, queue', m.sent)
  BY <1>1, PolicySteps, PlainPosted
<1>3. QED
  BY <1>1, <1>2, PolicySteps DEF PolicySays, Other, m

LEMMA PolicyStartsSays ==
    ASSUME CountInv, StageInv, queue \in Queues, NoOrder, NEW s \in {"Starting", "Restarting"},
           PolicyIdles(s, Null, Idle!Start(idle), ToPower("ImplicitD0"))
    PROVE  PolicySays(s)
<1> DEFINE m == Idle!Start(idle)
<1>1. /\ PolicyEntry(s, Null, IdlePosts(m) \o ToPower("ImplicitD0")) /\ UNCHANGED <<os, users>>
      /\ idle' = Idle!Settled(m) /\ waiter' = IF waiter = "waiting" /\ m.d0 THEN "released" ELSE waiter
  BY DEF PolicyIdles, IdleBecomes, PolicyKeeps, environment
<1>2. m = Left(s)
  BY DEF Left, IdleEventOf, Hears, Idle!Start, CancelsIt, PoweredDown
<1> HIDE DEF m
<1>3. "ImplicitD0" \in Unwatched /\ "ImplicitD0" \in Events /\ ToPower("ImplicitD0") \in PlainPosts
  BY Plain DEF PlainPosts, Unwatched
<1>4. Posted(queue, queue', m.sent) /\ Told(queue, queue', "ImplicitD0")
  BY <1>1, <1>3, PolicySteps, PlainPosted, PowerPosts
<1>5. queue'["power"] # <<>>
  BY <1>4 DEF Told, NoOrder
<1>6. s \notin CompletesIt \cup CancelsIt
  BY DEF CompletesIt, CancelsIt
<1>7. QED
  BY <1>1, <1>2, <1>4, <1>5, <1>6, PolicySteps DEF PolicySays

LEMMA PolicyLeavesSays ==
    ASSUME Sound, CountInv, StageInv, queue \in Queues, NEW s, NEW next, NEW posts \in PlainPosts,
           PolicyEntry(s, next, posts), UNCHANGED <<references, users>>,
           IdleEventOf(s) = "none", s \notin Queries, Other(s),
           os' = IF s \in CompletesIt THEN CompleteSystemPowerIrp(os) ELSE os
    PROVE  PolicySays(s)
<1>1. Left(s) = idle /\ idle.sent = {} /\ idle \in Idle!IdleMachine
  BY DEF Left, Sound, Idle!IdleInv, Idle!IdleTypeOK
<1>2. idle' = Idle!Settled(Left(s))
  BY <1>1 DEF references, Idle!Settled, Idle!IdleMachine
<1>3. Posted(queue, queue', {})
  BY PolicySteps, PlainPosted
<1>4. os'.sys = IF s \in CompletesIt THEN "Sx" ELSE os.sys
  BY DEF StageInv, Os, CompleteSystemPowerIrp
<1>5. QED
  BY <1>1, <1>2, <1>3, <1>4, PolicySteps DEF PolicySays, Other, references

LEMMA CancelsTimerSays ==
    ASSUME CountInv, StageInv, queue \in Queues, NEW s \in CancelsIt, NEW next, NEW wait,
           CancelsTimer(s, next, wait), wait \in WaitStates, next \notin WaitStates \cup {Null}
    PROVE  PolicySays(s)
<1> DEFINE m == Idle!DisableTimer(idle)
           t == IF Idle!DisabledImmediately(m) THEN next ELSE wait
<1>1. /\ PolicyEntry(s, t, IdlePosts(m) \o <<>>) /\ UNCHANGED <<os, users>>
      /\ idle' = Idle!Settled(m) /\ waiter' = IF waiter = "waiting" /\ m.d0 THEN "released" ELSE waiter
  BY DEF CancelsTimer, PolicyIdles, IdleBecomes, PolicyKeeps, environment
<1>2. m = Left(s)
  BY DEF Left, IdleEventOf, Hears, Idle!DisableTimer, CancelsIt
<1>3. (t \in WaitStates <=> ~Idle!DisabledImmediately(m)) /\ t # Null
  BY DEF WaitStates, Null
<1> HIDE DEF m, t
<1>4. Posted(queue, queue', m.sent)
  <2>1. <<>> \in PlainPosts
    BY DEF PlainPosts
  <2>2. queue' = PostAll(queue, IdlePosts(m) \o <<>>)
    BY <1>1, PolicySteps
  <2>3. QED
    BY <2>1, <2>2, PlainPosted
<1>5. s \notin CompletesIt \cup {"StartingDecideS0Wake"} /\ OrderOf(s) # "ImplicitD0"
  BY DEF CompletesIt, CancelsIt, OrderOf
<1>6. QED
  BY <1>1, <1>2, <1>3, <1>4, <1>5, PolicySteps DEF PolicySays

LEMMA QueriesIdleSays ==
    ASSUME CountInv, StageInv, queue \in Queues, NEW s \in Queries, NEW idleNext, NEW busyNext,
           QueriesIdle(s, idleNext, busyNext)
    PROVE  PolicySays(s)
<1> DEFINE t == IF Idle!IsIdle(idle) THEN idleNext ELSE busyNext
<1>1. PolicyIdles(s, t, Idle!Queried(idle), <<>>)
  BY DEF QueriesIdle
<1>2. Left(s) = Idle!Queried(idle) /\ Other(s) /\ s \notin CompletesIt /\ <<>> \in PlainPosts
  BY DEF Left, IdleEventOf, Queries, CancelsIt, PoweredDown, Other, CompletesIt, PlainPosts, OrderOf
<1> HIDE DEF t
<1>3. QED
  BY <1>1, <1>2, PolicyIdlesSays

(* those of the states that leave the idle machine alone *)
Aloof(s) == IdleEventOf(s) = "none" /\ s \notin Queries /\ Other(s) /\ s \notin CompletesIt

LEMMA PolicyPostsSays ==
    ASSUME Sound, CountInv, StageInv, queue \in Queues, NEW s, NEW next, NEW posts \in PlainPosts,
           PolicyPosts(s, next, posts) \/ (\E d : PolicyFails(s, d, next, posts)), Aloof(s)
    PROVE  PolicySays(s)
<1>1. PolicyEntry(s, next, posts) /\ UNCHANGED <<references, users, os>>
  BY DEF PolicyPosts, PolicyFails, PolicyKeeps, environment
<1>2. QED
  BY <1>1, PolicyLeavesSays DEF Aloof

LEMMA PolicyRequestsSays ==
    ASSUME Sound, CountInv, StageInv, queue \in Queues, NEW s, NEW to, NEW failed,
           PolicyRequests(s, to, failed), Aloof(s)
    PROVE  PolicySays(s)
<1>1. PICK next \in {Null, failed} : PolicyEntry(s, next, <<>>)
  BY DEF PolicyRequests, PolicySends
<1>2. UNCHANGED <<references, users, os>> /\ <<>> \in PlainPosts
  BY DEF PolicyRequests, environment, PlainPosts
<1>3. QED
  BY <1>1, <1>2, PolicyLeavesSays DEF Aloof

LEMMA AloofStates ==
    \A s \in
      {"StartingPoweredUpFailed", "StartingSucceeded", "IdleCapableDeviceIdle",
       "TimerExpiredNoWake", "TimerExpiredNoWakeCompletePowerDown",
       "TimerExpiredNoWakePowerDownNotProcessed", "TimerExpiredNoWakeUndoPowerDown",
       "TimerExpiredNoWakeReturnToActive", "S0NoWakePowerUp", "S0NoWakeCompletePowerUp",
       "StartedIdleCapableTimerCanceledForSleep", "Sleeping", "SleepingNoWakePowerDown",
       "SleepingNoWakeCompletePowerDown", "SleepingPowerDownNotProcessed",
       "SystemSleepFromDeviceWaitingUnarmed", "SystemWakeDeviceWakeDisabled",
       "SystemWakeDeviceToD0", "SystemWakeDeviceToD0CompletePowerUp",
       "SystemWakeDevicePowerRequestFailed", "SystemWakeDeviceD0PowerRequestFailed",
       "DeviceD0PowerRequestFailed", "DevicePowerRequestFailed",
       "StoppingResetDeviceCompletePowerUp", "StoppingResetDeviceFailed", "Stopping",
       "StoppingFailed", "StoppedRemoving", "Removed", "StartingPoweredUp"} : Aloof(s)
BY DEF Aloof, IdleEventOf, Queries, Other, CompletesIt, CancelsIt, PoweredDown, OrderOf

LEMMA PlainOnes ==
    /\ <<>> \in PlainPosts
    /\ \A e \in {"ImplicitD0", "ImplicitD3", "CompleteDx", "CompleteD0"} : ToPower(e) \in PlainPosts
    /\ \A e \in {"PwrPolStarted", "PwrPolStartFailed", "PwrPolRemoved", "PwrPolStopped", "PwrPolStopFailed",
                 "PowerUpFailed", "PowerDownFailed"} : ToPnp(e) \in PlainPosts
BY Plain DEF PlainPosts, Unwatched, Events, Watched, Statuses, Expiry, InD0Event

LEMMA CompletesSays ==
    ASSUME Sound, CountInv, StageInv, queue \in Queues, NEW s \in CompletesIt, NEW d, NEW next,
           NEW posts \in {<<>>, ToPnp("PowerDownFailed")}, CompletesSystemPowerIrp(s, d, next, posts)
    PROVE  PolicySays(s)
<1>1. PolicyEntry(s, next, posts) /\ UNCHANGED <<references, users>> /\ os' = CompleteSystemPowerIrp(os)
  BY DEF CompletesSystemPowerIrp
<1>2. IdleEventOf(s) = "none" /\ s \notin Queries /\ Other(s) /\ posts \in PlainPosts
  BY PlainOnes DEF CompletesIt, IdleEventOf, Queries, Other, CancelsIt, PoweredDown, OrderOf
<1>3. QED
  BY <1>1, <1>2, PolicyLeavesSays

LEMMA IdlingSays ==
    ASSUME CountInv, StageInv, queue \in Queues, NEW posts \in PlainPosts, NEW next, NEW s,
           \/ s \in {"StartingFailed", "RestartingFailed"} /\ PolicyIdles(s, next, Idle!Stop(idle), posts)
           \/ s = "StartedIdleCapable" /\ PolicyIdles(s, next, Idle!EnableTimer(idle), posts)
           \/ s \in {"Started", PoweredDown} /\ PolicyIdles(s, next, Idle!DisableTimer(idle), posts)
    PROVE  PolicySays(s)
<1>1. Other(s) /\ s \notin CompletesIt
  BY DEF Other, CompletesIt, CancelsIt, OrderOf, PoweredDown
<1>2. PolicyIdles(s, next, Left(s), posts)
  BY DEF Left, IdleEventOf, Hears, Idle!Stop, Idle!EnableTimer, Idle!DisableTimer, CancelsIt, PoweredDown
<1>3. QED
  BY <1>1, <1>2, PolicyIdlesSays

LEMMA StartingPoweredUpSays ==
    ASSUME Sound, CountInv, StageInv, queue \in Queues, PowerPolStartingPoweredUp
    PROVE  PolicySays("StartingPoweredUp")
<1>1. PICK next : PolicyEntry("StartingPoweredUp", next, <<>>)
  BY DEF PowerPolStartingPoweredUp
<1>2. UNCHANGED <<references, users, os>>
  BY DEF PowerPolStartingPoweredUp, environment
<1>3. QED
  BY <1>1, <1>2, PlainOnes, AloofStates, PolicyLeavesSays DEF Aloof

LEMMA StartingDecideS0WakeSays ==
    ASSUME Sound, CountInv, StageInv, queue \in Queues, PowerPolStartingDecideS0Wake
    PROVE  PolicySays("StartingDecideS0Wake")
<1> DEFINE s == "StartingDecideS0Wake"
           next == IF users.s0idle THEN "StartedIdleCapable" ELSE "Started"
<1>1. PolicyEntry(s, next, <<>>) /\ UNCHANGED <<references, users, os>>
  BY DEF PowerPolStartingDecideS0Wake, PolicyPasses, PolicyPosts, PolicyKeeps, environment
<1>2. /\ Left(s) = idle /\ idle.sent = {} /\ idle \in Idle!IdleMachine /\ next # Null
      /\ s \notin CompletesIt \cup CancelsIt /\ OrderOf(s) # "ImplicitD0"
  BY DEF Left, Sound, Idle!IdleInv, Idle!IdleTypeOK, IdleEventOf, Queries, CompletesIt, CancelsIt, PoweredDown,
     OrderOf, Null
<1>3. idle' = Idle!Settled(Left(s))
  BY <1>1, <1>2 DEF references, Idle!Settled, Idle!IdleMachine
<1> HIDE DEF s, next
<1>4. /\ "policy" \in entering /\ at["policy"] = s /\ queue' = PostAll(queue, <<>>)
      /\ at'["policy"] = IF next = Null THEN s ELSE next
  BY <1>1, PolicySteps
<1>5. Posted(queue, queue', Left(s).sent)
  BY <1>2, <1>4, PlainOnes, PlainPosted
<1>6. QED
  BY <1>1, <1>2, <1>3, <1>4, <1>5 DEF PolicySays, references, s, next

LEMMA StoppingResetDeviceSays ==
    ASSUME CountInv, StageInv, queue \in Queues, PowerPolStoppingResetDevice
    PROVE  PolicySays("StoppingResetDevice")
<1> DEFINE s == "StoppingResetDevice"
           m == Idle!DisableTimer(idle)
<1>1. PICK next : PolicyEntry(s, next, <<>>)
  BY DEF PowerPolStoppingResetDevice, PolicySends
<1>2. /\ UNCHANGED <<os, users>>
      /\ idle' = Idle!Settled(m) /\ waiter' = IF waiter = "waiting" /\ m.d0 THEN "released" ELSE waiter
  BY DEF PowerPolStoppingResetDevice, IdleBecomes, environment
<1>3. /\ m = Left(s) /\ s \notin CompletesIt \cup CancelsIt \cup {"StartingDecideS0Wake"}
      /\ OrderOf(s) # "ImplicitD0"
  BY DEF Left, IdleEventOf, Hears, Idle!DisableTimer, CompletesIt, CancelsIt, OrderOf, PoweredDown
<1> HIDE DEF s, m
<1>4. "policy" \in entering /\ at["policy"] = s /\ queue' = PostAll(queue, <<>>)
  BY <1>1, PolicySteps
<1>5. Posted(queue, queue', m.sent)
  <2>1. {} \subseteq m.sent /\ Posted(queue, queue', {})
    BY <1>4, PlainOnes, PlainPosted
  <2>2. QED
    BY <2>1, PostedMore
<1>6. QED
  BY <1>2, <1>3, <1>4, <1>5 DEF PolicySays, s

LEMMA StoppingSendStatusSays ==
    ASSUME CountInv, StageInv, queue \in Queues, PowerPolStoppingSendStatus
    PROVE  PolicySays("StoppingSendStatus")
<1> DEFINE s == "StoppingSendStatus"
           m == Idle!Stop(idle)
<1>1. PICK posts \in PlainPosts : PolicyEntry(s, "Stopped", IdlePosts(m) \o posts)
  BY PlainOnes DEF PowerPolStoppingSendStatus
<1>2. /\ UNCHANGED <<os, users>>
      /\ idle' = Idle!Settled(m) /\ waiter' = IF waiter = "waiting" /\ m.d0 THEN "released" ELSE waiter
  BY DEF PowerPolStoppingSendStatus, IdleBecomes, PolicyKeeps, environment
<1>3. /\ m = Left(s) /\ s \notin CompletesIt \cup CancelsIt \cup {"StartingDecideS0Wake"}
      /\ OrderOf(s) # "ImplicitD0"
  BY DEF Left, IdleEventOf, Hears, Idle!Stop, CompletesIt, CancelsIt, OrderOf, PoweredDown
<1> HIDE DEF s, m
<1>4. "policy" \in entering /\ at["policy"] = s /\ queue' = PostAll(queue, IdlePosts(m) \o posts)
  BY <1>1, PolicySteps
<1>5. Posted(queue, queue', m.sent)
  BY <1>4, PlainPosted
<1>6. QED
  BY <1>2, <1>3, <1>4, <1>5 DEF PolicySays, s

LEMMA PolicySaysAll ==
    ASSUME Sound, CountInv, StageInv, queue \in Queues, NoOrder, PowerPolicyEntersState
    PROVE  PolicySays(at["policy"])
<1>1. \A s : PolicySays(s) => PolicySays(at["policy"])
  BY DEF PolicySays
<1>2. CASE PowerPolStarting
  BY <1>1, <1>2, PolicyStartsSays DEF PowerPolStarting
<1>3. CASE PowerPolStartingPoweredUp
  BY <1>1, <1>3, StartingPoweredUpSays
<1>4. CASE PowerPolStartingPoweredUpFailed
  BY <1>1, <1>4, AloofStates, PlainOnes, PolicyPostsSays DEF PowerPolStartingPoweredUpFailed
<1>5. CASE PowerPolStartingSucceeded
  BY <1>1, <1>5, AloofStates, PlainOnes, PolicyPostsSays DEF PowerPolStartingSucceeded
<1>6. CASE PowerPolStartingFailed
  BY <1>1, <1>6, PlainOnes, IdlingSays DEF PowerPolStartingFailed
<1>7. CASE PowerPolStartingDecideS0Wake
  BY <1>1, <1>7, StartingDecideS0WakeSays
<1>8. CASE PowerPolStarted
  BY <1>1, <1>8, PlainOnes, IdlingSays DEF PowerPolStarted
<1>9. CASE PowerPolStartedCancelTimer
  BY <1>1, <1>9, CancelsTimerSays DEF PowerPolStartedCancelTimer, CancelsIt, WaitStates, Null
<1>10. CASE PowerPolRestarting
  BY <1>1, <1>10, PolicyStartsSays DEF PowerPolRestarting
<1>11. CASE PowerPolRestartingFailed
  BY <1>1, <1>11, PlainOnes, IdlingSays DEF PowerPolRestartingFailed
<1>12. CASE PowerPolStartedIdleCapable
  BY <1>1, <1>12, PlainOnes, IdlingSays DEF PowerPolStartedIdleCapable
<1>13. CASE PowerPolIdleCapableDeviceIdle
  BY <1>1, <1>13, AloofStates, PlainOnes, PolicyPostsSays DEF PowerPolIdleCapableDeviceIdle, PolicyPasses
<1>14. CASE PowerPolTimerExpiredNoWake
  BY <1>1, <1>14, AloofStates, PolicyRequestsSays DEF PowerPolTimerExpiredNoWake
<1>15. CASE PowerPolTimerExpiredNoWakeCompletePowerDown
  BY <1>1, <1>15, AloofStates, PlainOnes, PolicyPostsSays DEF PowerPolTimerExpiredNoWakeCompletePowerDown
<1>16. CASE PowerPolTimerExpiredNoWakePoweredDownDisableIdleTimer
  BY <1>1, <1>16, PlainOnes, IdlingSays DEF PowerPolTimerExpiredNoWakePoweredDownDisableIdleTimer, PoweredDown
<1>17. CASE PowerPolTimerExpiredNoWakePowerDownNotProcessed
  BY <1>1, <1>17, AloofStates, PlainOnes, PolicyPostsSays DEF PowerPolTimerExpiredNoWakePowerDownNotProcessed
<1>18. CASE PowerPolTimerExpiredNoWakeUndoPowerDown
  BY <1>1, <1>18, AloofStates, PlainOnes, PolicyPostsSays DEF PowerPolTimerExpiredNoWakeUndoPowerDown, PolicyPasses
<1>19. CASE PowerPolTimerExpiredNoWakeReturnToActive
  BY <1>1, <1>19, AloofStates, PlainOnes, PolicyPostsSays DEF PowerPolTimerExpiredNoWakeReturnToActive, PolicyPasses
<1>20. CASE PowerPolWaitingUnarmedQueryIdle
  BY <1>1, <1>20, QueriesIdleSays DEF PowerPolWaitingUnarmedQueryIdle, Queries
<1>21. CASE PowerPolS0NoWakePowerUp
  BY <1>1, <1>21, AloofStates, PolicyRequestsSays DEF PowerPolS0NoWakePowerUp
<1>22. CASE PowerPolS0NoWakeCompletePowerUp
  BY <1>1, <1>22, AloofStates, PlainOnes, PolicyPostsSays DEF PowerPolS0NoWakeCompletePowerUp
<1>23. CASE PowerPolStartedIdleCapableCancelTimerForSleep
  BY <1>1, <1>23, CancelsTimerSays DEF PowerPolStartedIdleCapableCancelTimerForSleep, CancelsIt, WaitStates, Null
<1>24. CASE PowerPolStartedIdleCapableTimerCanceledForSleep
  BY <1>1, <1>24, AloofStates, PlainOnes, PolicyPostsSays DEF PowerPolStartedIdleCapableTimerCanceledForSleep, PolicyPasses
<1>25. CASE PowerPolSleeping
  BY <1>1, <1>25, AloofStates, PlainOnes, PolicyPostsSays DEF PowerPolSleeping, PolicyPasses
<1>26. CASE PowerPolSleepingNoWakePowerDown
  BY <1>1, <1>26, AloofStates, PolicyRequestsSays DEF PowerPolSleepingNoWakePowerDown
<1>27. CASE PowerPolSleepingNoWakeCompletePowerDown
  BY <1>1, <1>27, AloofStates, PlainOnes, PolicyPostsSays DEF PowerPolSleepingNoWakeCompletePowerDown
<1>28. CASE PowerPolSleepingNoWakeDxRequestFailed
  BY <1>1, <1>28, CompletesSays DEF PowerPolSleepingNoWakeDxRequestFailed, CompletesIt
<1>29. CASE PowerPolSleepingPowerDownNotProcessed
  BY <1>1, <1>29, AloofStates, PlainOnes, PolicyPostsSays DEF PowerPolSleepingPowerDownNotProcessed
<1>30. CASE PowerPolSystemSleepPowerRequestFailed
  BY <1>1, <1>30, CompletesSays DEF PowerPolSystemSleepPowerRequestFailed, CompletesIt
<1>31. CASE PowerPolSystemSleepFromDeviceWaitingUnarmed
  BY <1>1, <1>31, AloofStates, PlainOnes, PolicyPostsSays DEF PowerPolSystemSleepFromDeviceWaitingUnarmed, PolicyPasses
<1>32. CASE PowerPolSystemAsleepNoWake
  BY <1>1, <1>32, CompletesSays DEF PowerPolSystemAsleepNoWake, CompletesIt
<1>33. CASE PowerPolSystemWakeDeviceWakeDisabled
  BY <1>1, <1>33, AloofStates, PlainOnes, PolicyPostsSays DEF PowerPolSystemWakeDeviceWakeDisabled, PolicyPasses
<1>34. CASE PowerPolSystemWakeQueryIdle
  BY <1>1, <1>34, QueriesIdleSays DEF PowerPolSystemWakeQueryIdle, Queries
<1>35. CASE PowerPolSystemWakeDeviceToD0
  BY <1>1, <1>35, AloofStates, PolicyRequestsSays DEF PowerPolSystemWakeDeviceToD0
<1>36. CASE PowerPolSystemWakeDeviceToD0CompletePowerUp
  BY <1>1, <1>36, AloofStates, PlainOnes, PolicyPostsSays DEF PowerPolSystemWakeDeviceToD0CompletePowerUp
<1>37. CASE PowerPolSystemWakeDevicePowerRequestFailed
  BY <1>1, <1>37, AloofStates, PlainOnes, PolicyPostsSays DEF PowerPolSystemWakeDevicePowerRequestFailed, PolicyPasses
<1>38. CASE PowerPolSystemWakeDeviceD0PowerRequestFailed
  BY <1>1, <1>38, AloofStates, PlainOnes, PolicyPostsSays DEF PowerPolSystemWakeDeviceD0PowerRequestFailed, PolicyPasses
<1>39. CASE PowerPolDeviceD0PowerRequestFailed
  BY <1>1, <1>39, AloofStates, PlainOnes, PolicyPostsSays DEF PowerPolDeviceD0PowerRequestFailed
<1>40. CASE PowerPolDevicePowerRequestFailed
  BY <1>1, <1>40, AloofStates, PlainOnes, PolicyPostsSays DEF PowerPolDevicePowerRequestFailed
<1>41. CASE PowerPolStoppingCancelTimer
  BY <1>1, <1>41, CancelsTimerSays DEF PowerPolStoppingCancelTimer, CancelsIt, WaitStates, Null
<1>42. CASE PowerPolStoppingResetDevice
  BY <1>1, <1>42, StoppingResetDeviceSays
<1>43. CASE PowerPolStoppingResetDeviceCompletePowerUp
  BY <1>1, <1>43, AloofStates, PlainOnes, PolicyPostsSays DEF PowerPolStoppingResetDeviceCompletePowerUp
<1>44. CASE PowerPolStoppingResetDeviceFailed
  BY <1>1, <1>44, AloofStates, PlainOnes, PolicyPostsSays DEF PowerPolStoppingResetDeviceFailed
<1>45. CASE PowerPolStopping
  BY <1>1, <1>45, AloofStates, PlainOnes, PolicyPostsSays DEF PowerPolStopping
<1>46. CASE PowerPolStoppingFailed
  BY <1>1, <1>46, AloofStates, PlainOnes, PolicyPostsSays DEF PowerPolStoppingFailed
<1>47. CASE PowerPolStoppingSendStatus
  BY <1>1, <1>47, StoppingSendStatusSays
<1>48. CASE PowerPolStoppedRemoving
  BY <1>1, <1>48, AloofStates, PlainOnes, PolicyPostsSays DEF PowerPolStoppedRemoving, PolicyPasses
<1>49. CASE PowerPolRemoved
  BY <1>1, <1>49, AloofStates, PlainOnes, PolicyPostsSays DEF PowerPolRemoved
<1>50. QED
  BY <1>2, <1>3, <1>4, <1>5, <1>6, <1>7, <1>8, <1>9, <1>10, <1>11, <1>12, <1>13, <1>14, <1>15,
     <1>16, <1>17, <1>18, <1>19, <1>20, <1>21, <1>22, <1>23, <1>24, <1>25, <1>26, <1>27, <1>28,
     <1>29, <1>30, <1>31, <1>32, <1>33, <1>34, <1>35, <1>36, <1>37, <1>38, <1>39, <1>40, <1>41,
     <1>42, <1>43, <1>44, <1>45, <1>46, <1>47, <1>48, <1>49
  DEF PowerPolicyEntersState

(* Where they leave the idle machine, and what they lead to                *)
NullPlaces(s) ==
  CASE OrderOf(s) = "ImplicitD0" -> {"Started"}
    [] OrderOf(s) = "ImplicitD3" -> {"Disabled", "InDx"}
    [] OrderOf(s) \in {"D0", "CompleteD0"} -> {"InDx"}
    [] OTHER -> IdleWhile(s)

PlacesAt(s, next) ==
  IF next = Null THEN NullPlaces(s)
  ELSE IF next \in PolicyNoEntry THEN IdleWhile(next) ELSE IdleBefore(next)

MoveFits(s, next) ==
  \A a \in IdleBefore(s) : \A b \in IdleAfter(s, a) :
     (s \in CancelsIt => (next \in WaitStates <=> b = "DisablingWaitForTimeout")) => b \in PlacesAt(s, next)

GoingToSleep == SleepsNow \cup {"StartedIdleCapableCancelTimerForSleep", "SystemSleepFromDeviceWaitingUnarmed"}

MoveLeads(s, t) ==
  /\ s \in CancelsIt /\ t \notin WaitStates => t \in ExpiryStale
  /\ s \in ExpiryStale /\ (s = "StartingDecideS0Wake" => t = "Started") => t \in ExpiryStale
  /\ t = "SystemAsleepNoWake" => s \in {"SystemAsleepNoWake", "SystemSleepFromDeviceWaitingUnarmed"}
  /\ t = "Stopped" => s \in {"RestartingFailed", "StoppingSendStatus"}
  /\ t \in GoingToSleep => s \in GoingToSleep \ CompletesIt
  /\ t # "StartedCancelTimer" \/ s = t
  /\ t = "StartedWaitForIdleTimeout" => s = "StartedCancelTimer"
  /\ t = "Started" => s \in {"Started", "StartingDecideS0Wake"}
  /\ t = "StartingDecideS0Wake" => s \in {"StartedCancelTimer", "StartingSucceeded"}
  /\ t \in IdlingOut => s \in IdlingOut

MoveIsFit(s, next) == MoveFits(s, next) /\ MoveLeads(s, IF next = Null THEN s ELSE next) /\ next # s

LEMMA MovesAreFit == \A m \in PolicyMoves : MoveIsFit(m[1], m[2])
<1>1. MoveIsFit("Starting", Null)
  BY DEF MoveIsFit, MoveFits, MoveLeads, PlacesAt, NullPlaces, IdleBefore, IdleWhile, IdleAfter, IdleEventOf, OrderOf,
      CancelsIt, PoweredDown, Live, Awake, WaitStates, ExpiryStale, SleepsNow, GoingToSleep, CompletesIt, IdlingOut,
      PolicyNoEntry, Null
<1>2. MoveIsFit("StartingPoweredUp", "StartingSucceeded") /\ MoveIsFit("StartingPoweredUp", "StartingPoweredUpFailed")
  BY DEF MoveIsFit, MoveFits, MoveLeads, PlacesAt, NullPlaces, IdleBefore, IdleWhile, IdleAfter, IdleEventOf, OrderOf,
      CancelsIt, PoweredDown, Live, Awake, WaitStates, ExpiryStale, SleepsNow, GoingToSleep, CompletesIt, IdlingOut,
      PolicyNoEntry, Null
<1>3. MoveIsFit("StartingPoweredUpFailed", Null)
  BY DEF MoveIsFit, MoveFits, MoveLeads, PlacesAt, NullPlaces, IdleBefore, IdleWhile, IdleAfter, IdleEventOf, OrderOf,
      CancelsIt, PoweredDown, Live, Awake, WaitStates, ExpiryStale, SleepsNow, GoingToSleep, CompletesIt, IdlingOut,
      PolicyNoEntry, Null
<1>4. MoveIsFit("StartingSucceeded", "StartingDecideS0Wake")
  BY DEF MoveIsFit, MoveFits, MoveLeads, PlacesAt, NullPlaces, IdleBefore, IdleWhile, IdleAfter, IdleEventOf, OrderOf,
      CancelsIt, PoweredDown, Live, Awake, WaitStates, ExpiryStale, SleepsNow, GoingToSleep, CompletesIt, IdlingOut,
      PolicyNoEntry, Null
<1>5. MoveIsFit("StartingFailed", Null)
  BY DEF MoveIsFit, MoveFits, MoveLeads, PlacesAt, NullPlaces, IdleBefore, IdleWhile, IdleAfter, IdleEventOf, OrderOf,
      CancelsIt, PoweredDown, Live, Awake, WaitStates, ExpiryStale, SleepsNow, GoingToSleep, CompletesIt, IdlingOut,
      PolicyNoEntry, Null
<1>6. MoveIsFit("StartingDecideS0Wake", "StartedIdleCapable") /\ MoveIsFit("StartingDecideS0Wake", "Started")
  BY DEF MoveIsFit, MoveFits, MoveLeads, PlacesAt, NullPlaces, IdleBefore, IdleWhile, IdleAfter, IdleEventOf, OrderOf,
      CancelsIt, PoweredDown, Live, Awake, WaitStates, ExpiryStale, SleepsNow, GoingToSleep, CompletesIt, IdlingOut,
      PolicyNoEntry, Null
<1>7. MoveIsFit("Started", Null)
  BY DEF MoveIsFit, MoveFits, MoveLeads, PlacesAt, NullPlaces, IdleBefore, IdleWhile, IdleAfter, IdleEventOf, OrderOf,
      CancelsIt, PoweredDown, Live, Awake, WaitStates, ExpiryStale, SleepsNow, GoingToSleep, CompletesIt, IdlingOut,
      PolicyNoEntry, Null
<1>8. MoveIsFit("StartedCancelTimer", "StartingDecideS0Wake") /\ MoveIsFit("StartedCancelTimer", "StartedWaitForIdleTimeout")
  BY DEF MoveIsFit, MoveFits, MoveLeads, PlacesAt, NullPlaces, IdleBefore, IdleWhile, IdleAfter, IdleEventOf, OrderOf,
      CancelsIt, PoweredDown, Live, Awake, WaitStates, ExpiryStale, SleepsNow, GoingToSleep, CompletesIt, IdlingOut,
      PolicyNoEntry, Null
<1>9. MoveIsFit("Restarting", Null)
  BY DEF MoveIsFit, MoveFits, MoveLeads, PlacesAt, NullPlaces, IdleBefore, IdleWhile, IdleAfter, IdleEventOf, OrderOf,
      CancelsIt, PoweredDown, Live, Awake, WaitStates, ExpiryStale, SleepsNow, GoingToSleep, CompletesIt, IdlingOut,
      PolicyNoEntry, Null
<1>10. MoveIsFit("RestartingFailed", "Stopped")
  BY DEF MoveIsFit, MoveFits, MoveLeads, PlacesAt, NullPlaces, IdleBefore, IdleWhile, IdleAfter, IdleEventOf, OrderOf,
      CancelsIt, PoweredDown, Live, Awake, WaitStates, ExpiryStale, SleepsNow, GoingToSleep, CompletesIt, IdlingOut,
      PolicyNoEntry, Null
<1>11. MoveIsFit("StartedIdleCapable", Null)
  BY DEF MoveIsFit, MoveFits, MoveLeads, PlacesAt, NullPlaces, IdleBefore, IdleWhile, IdleAfter, IdleEventOf, OrderOf,
      CancelsIt, PoweredDown, Live, Awake, WaitStates, ExpiryStale, SleepsNow, GoingToSleep, CompletesIt, IdlingOut,
      PolicyNoEntry, Null
<1>12. MoveIsFit("IdleCapableDeviceIdle", "TimerExpiredNoWake")
  BY DEF MoveIsFit, MoveFits, MoveLeads, PlacesAt, NullPlaces, IdleBefore, IdleWhile, IdleAfter, IdleEventOf, OrderOf,
      CancelsIt, PoweredDown, Live, Awake, WaitStates, ExpiryStale, SleepsNow, GoingToSleep, CompletesIt, IdlingOut,
      PolicyNoEntry, Null
<1>13. MoveIsFit("TimerExpiredNoWake", Null) /\ MoveIsFit("TimerExpiredNoWake", "TimerExpiredNoWakeUndoPowerDown")
  BY DEF MoveIsFit, MoveFits, MoveLeads, PlacesAt, NullPlaces, IdleBefore, IdleWhile, IdleAfter, IdleEventOf, OrderOf,
      CancelsIt, PoweredDown, Live, Awake, WaitStates, ExpiryStale, SleepsNow, GoingToSleep, CompletesIt, IdlingOut,
      PolicyNoEntry, Null
<1>14. MoveIsFit("TimerExpiredNoWakeCompletePowerDown", Null)
  BY DEF MoveIsFit, MoveFits, MoveLeads, PlacesAt, NullPlaces, IdleBefore, IdleWhile, IdleAfter, IdleEventOf, OrderOf,
      CancelsIt, PoweredDown, Live, Awake, WaitStates, ExpiryStale, SleepsNow, GoingToSleep, CompletesIt, IdlingOut,
      PolicyNoEntry, Null
<1>15. MoveIsFit("TimerExpiredNoWakePoweredDownDisableIdleTimer", "WaitingUnarmedQueryIdle")
  BY DEF MoveIsFit, MoveFits, MoveLeads, PlacesAt, NullPlaces, IdleBefore, IdleWhile, IdleAfter, IdleEventOf, OrderOf,
      CancelsIt, PoweredDown, Live, Awake, WaitStates, ExpiryStale, SleepsNow, GoingToSleep, CompletesIt, IdlingOut,
      PolicyNoEntry, Null
<1>16. MoveIsFit("TimerExpiredNoWakePowerDownNotProcessed", "TimerExpiredNoWakeUndoPowerDown")
  BY DEF MoveIsFit, MoveFits, MoveLeads, PlacesAt, NullPlaces, IdleBefore, IdleWhile, IdleAfter, IdleEventOf, OrderOf,
      CancelsIt, PoweredDown, Live, Awake, WaitStates, ExpiryStale, SleepsNow, GoingToSleep, CompletesIt, IdlingOut,
      PolicyNoEntry, Null
<1>17. MoveIsFit("TimerExpiredNoWakeUndoPowerDown", "TimerExpiredNoWakeReturnToActive")
  BY DEF MoveIsFit, MoveFits, MoveLeads, PlacesAt, NullPlaces, IdleBefore, IdleWhile, IdleAfter, IdleEventOf, OrderOf,
      CancelsIt, PoweredDown, Live, Awake, WaitStates, ExpiryStale, SleepsNow, GoingToSleep, CompletesIt, IdlingOut,
      PolicyNoEntry, Null
<1>18. MoveIsFit("TimerExpiredNoWakeReturnToActive", "StartedIdleCapable")
  BY DEF MoveIsFit, MoveFits, MoveLeads, PlacesAt, NullPlaces, IdleBefore, IdleWhile, IdleAfter, IdleEventOf, OrderOf,
      CancelsIt, PoweredDown, Live, Awake, WaitStates, ExpiryStale, SleepsNow, GoingToSleep, CompletesIt, IdlingOut,
      PolicyNoEntry, Null
<1>19. MoveIsFit("WaitingUnarmedQueryIdle", "WaitingUnarmed") /\ MoveIsFit("WaitingUnarmedQueryIdle", "S0NoWakePowerUp")
  BY DEF MoveIsFit, MoveFits, MoveLeads, PlacesAt, NullPlaces, IdleBefore, IdleWhile, IdleAfter, IdleEventOf, OrderOf,
      CancelsIt, PoweredDown, Live, Awake, WaitStates, ExpiryStale, SleepsNow, GoingToSleep, CompletesIt, IdlingOut,
      PolicyNoEntry, Null
<1>20. MoveIsFit("S0NoWakePowerUp", Null) /\ MoveIsFit("S0NoWakePowerUp", "DeviceD0PowerRequestFailed")
  BY DEF MoveIsFit, MoveFits, MoveLeads, PlacesAt, NullPlaces, IdleBefore, IdleWhile, IdleAfter, IdleEventOf, OrderOf,
      CancelsIt, PoweredDown, Live, Awake, WaitStates, ExpiryStale, SleepsNow, GoingToSleep, CompletesIt, IdlingOut,
      PolicyNoEntry, Null
<1>21. MoveIsFit("S0NoWakeCompletePowerUp", Null)
  BY DEF MoveIsFit, MoveFits, MoveLeads, PlacesAt, NullPlaces, IdleBefore, IdleWhile, IdleAfter, IdleEventOf, OrderOf,
      CancelsIt, PoweredDown, Live, Awake, WaitStates, ExpiryStale, SleepsNow, GoingToSleep, CompletesIt, IdlingOut,
      PolicyNoEntry, Null
<1>22. MoveIsFit("StartedIdleCapableCancelTimerForSleep", "StartedIdleCapableTimerCanceledForSleep") /\ MoveIsFit("StartedIdleCapableCancelTimerForSleep", "StartedIdleCapableWaitForIdleTimeout")
  BY DEF MoveIsFit, MoveFits, MoveLeads, PlacesAt, NullPlaces, IdleBefore, IdleWhile, IdleAfter, IdleEventOf, OrderOf,
      CancelsIt, PoweredDown, Live, Awake, WaitStates, ExpiryStale, SleepsNow, GoingToSleep, CompletesIt, IdlingOut,
      PolicyNoEntry, Null
<1>23. MoveIsFit("StartedIdleCapableTimerCanceledForSleep", "Sleeping")
  BY DEF MoveIsFit, MoveFits, MoveLeads, PlacesAt, NullPlaces, IdleBefore, IdleWhile, IdleAfter, IdleEventOf, OrderOf,
      CancelsIt, PoweredDown, Live, Awake, WaitStates, ExpiryStale, SleepsNow, GoingToSleep, CompletesIt, IdlingOut,
      PolicyNoEntry, Null
<1>24. MoveIsFit("Sleeping", "SleepingNoWakePowerDown")
  BY DEF MoveIsFit, MoveFits, MoveLeads, PlacesAt, NullPlaces, IdleBefore, IdleWhile, IdleAfter, IdleEventOf, OrderOf,
      CancelsIt, PoweredDown, Live, Awake, WaitStates, ExpiryStale, SleepsNow, GoingToSleep, CompletesIt, IdlingOut,
      PolicyNoEntry, Null
<1>25. MoveIsFit("SleepingNoWakePowerDown", Null) /\ MoveIsFit("SleepingNoWakePowerDown", "SleepingNoWakeDxRequestFailed")
  BY DEF MoveIsFit, MoveFits, MoveLeads, PlacesAt, NullPlaces, IdleBefore, IdleWhile, IdleAfter, IdleEventOf, OrderOf,
      CancelsIt, PoweredDown, Live, Awake, WaitStates, ExpiryStale, SleepsNow, GoingToSleep, CompletesIt, IdlingOut,
      PolicyNoEntry, Null
<1>26. MoveIsFit("SleepingNoWakeCompletePowerDown", Null)
  BY DEF MoveIsFit, MoveFits, MoveLeads, PlacesAt, NullPlaces, IdleBefore, IdleWhile, IdleAfter, IdleEventOf, OrderOf,
      CancelsIt, PoweredDown, Live, Awake, WaitStates, ExpiryStale, SleepsNow, GoingToSleep, CompletesIt, IdlingOut,
      PolicyNoEntry, Null
<1>27. MoveIsFit("SleepingNoWakeDxRequestFailed", "DevicePowerRequestFailed")
  BY DEF MoveIsFit, MoveFits, MoveLeads, PlacesAt, NullPlaces, IdleBefore, IdleWhile, IdleAfter, IdleEventOf, OrderOf,
      CancelsIt, PoweredDown, Live, Awake, WaitStates, ExpiryStale, SleepsNow, GoingToSleep, CompletesIt, IdlingOut,
      PolicyNoEntry, Null
<1>28. MoveIsFit("SleepingPowerDownNotProcessed", "SystemSleepPowerRequestFailed")
  BY DEF MoveIsFit, MoveFits, MoveLeads, PlacesAt, NullPlaces, IdleBefore, IdleWhile, IdleAfter, IdleEventOf, OrderOf,
      CancelsIt, PoweredDown, Live, Awake, WaitStates, ExpiryStale, SleepsNow, GoingToSleep, CompletesIt, IdlingOut,
      PolicyNoEntry, Null
<1>29. MoveIsFit("SystemSleepPowerRequestFailed", "DevicePowerRequestFailed")
  BY DEF MoveIsFit, MoveFits, MoveLeads, PlacesAt, NullPlaces, IdleBefore, IdleWhile, IdleAfter, IdleEventOf, OrderOf,
      CancelsIt, PoweredDown, Live, Awake, WaitStates, ExpiryStale, SleepsNow, GoingToSleep, CompletesIt, IdlingOut,
      PolicyNoEntry, Null
<1>30. MoveIsFit("SystemSleepFromDeviceWaitingUnarmed", "SystemAsleepNoWake")
  BY DEF MoveIsFit, MoveFits, MoveLeads, PlacesAt, NullPlaces, IdleBefore, IdleWhile, IdleAfter, IdleEventOf, OrderOf,
      CancelsIt, PoweredDown, Live, Awake, WaitStates, ExpiryStale, SleepsNow, GoingToSleep, CompletesIt, IdlingOut,
      PolicyNoEntry, Null
<1>31. MoveIsFit("SystemAsleepNoWake", Null)
  BY DEF MoveIsFit, MoveFits, MoveLeads, PlacesAt, NullPlaces, IdleBefore, IdleWhile, IdleAfter, IdleEventOf, OrderOf,
      CancelsIt, PoweredDown, Live, Awake, WaitStates, ExpiryStale, SleepsNow, GoingToSleep, CompletesIt, IdlingOut,
      PolicyNoEntry, Null
<1>32. MoveIsFit("SystemWakeDeviceWakeDisabled", "SystemWakeQueryIdle") /\ MoveIsFit("SystemWakeDeviceWakeDisabled", "SystemWakeDeviceToD0")
  BY DEF MoveIsFit, MoveFits, MoveLeads, PlacesAt, NullPlaces, IdleBefore, IdleWhile, IdleAfter, IdleEventOf, OrderOf,
      CancelsIt, PoweredDown, Live, Awake, WaitStates, ExpiryStale, SleepsNow, GoingToSleep, CompletesIt, IdlingOut,
      PolicyNoEntry, Null
<1>33. MoveIsFit("SystemWakeQueryIdle", "WaitingUnarmed") /\ MoveIsFit("SystemWakeQueryIdle", "SystemWakeDeviceToD0")
  BY DEF MoveIsFit, MoveFits, MoveLeads, PlacesAt, NullPlaces, IdleBefore, IdleWhile, IdleAfter, IdleEventOf, OrderOf,
      CancelsIt, PoweredDown, Live, Awake, WaitStates, ExpiryStale, SleepsNow, GoingToSleep, CompletesIt, IdlingOut,
      PolicyNoEntry, Null
<1>34. MoveIsFit("SystemWakeDeviceToD0", Null) /\ MoveIsFit("SystemWakeDeviceToD0", "SystemWakeDeviceD0PowerRequestFailed")
  BY DEF MoveIsFit, MoveFits, MoveLeads, PlacesAt, NullPlaces, IdleBefore, IdleWhile, IdleAfter, IdleEventOf, OrderOf,
      CancelsIt, PoweredDown, Live, Awake, WaitStates, ExpiryStale, SleepsNow, GoingToSleep, CompletesIt, IdlingOut,
      PolicyNoEntry, Null
<1>35. MoveIsFit("SystemWakeDeviceToD0CompletePowerUp", Null)
  BY DEF MoveIsFit, MoveFits, MoveLeads, PlacesAt, NullPlaces, IdleBefore, IdleWhile, IdleAfter, IdleEventOf, OrderOf,
      CancelsIt, PoweredDown, Live, Awake, WaitStates, ExpiryStale, SleepsNow, GoingToSleep, CompletesIt, IdlingOut,
      PolicyNoEntry, Null
<1>36. MoveIsFit("SystemWakeDevicePowerRequestFailed", "DevicePowerRequestFailed")
  BY DEF MoveIsFit, MoveFits, MoveLeads, PlacesAt, NullPlaces, IdleBefore, IdleWhile, IdleAfter, IdleEventOf, OrderOf,
      CancelsIt, PoweredDown, Live, Awake, WaitStates, ExpiryStale, SleepsNow, GoingToSleep, CompletesIt, IdlingOut,
      PolicyNoEntry, Null
<1>37. MoveIsFit("SystemWakeDeviceD0PowerRequestFailed", "DeviceD0PowerRequestFailed")
  BY DEF MoveIsFit, MoveFits, MoveLeads, PlacesAt, NullPlaces, IdleBefore, IdleWhile, IdleAfter, IdleEventOf, OrderOf,
      CancelsIt, PoweredDown, Live, Awake, WaitStates, ExpiryStale, SleepsNow, GoingToSleep, CompletesIt, IdlingOut,
      PolicyNoEntry, Null
<1>38. MoveIsFit("DeviceD0PowerRequestFailed", "DevicePowerRequestFailed")
  BY DEF MoveIsFit, MoveFits, MoveLeads, PlacesAt, NullPlaces, IdleBefore, IdleWhile, IdleAfter, IdleEventOf, OrderOf,
      CancelsIt, PoweredDown, Live, Awake, WaitStates, ExpiryStale, SleepsNow, GoingToSleep, CompletesIt, IdlingOut,
      PolicyNoEntry, Null
<1>39. MoveIsFit("DevicePowerRequestFailed", Null)
  BY DEF MoveIsFit, MoveFits, MoveLeads, PlacesAt, NullPlaces, IdleBefore, IdleWhile, IdleAfter, IdleEventOf, OrderOf,
      CancelsIt, PoweredDown, Live, Awake, WaitStates, ExpiryStale, SleepsNow, GoingToSleep, CompletesIt, IdlingOut,
      PolicyNoEntry, Null
<1>40. MoveIsFit("StoppingCancelTimer", "Stopping") /\ MoveIsFit("StoppingCancelTimer", "StoppingWaitForIdleTimeout")
  BY DEF MoveIsFit, MoveFits, MoveLeads, PlacesAt, NullPlaces, IdleBefore, IdleWhile, IdleAfter, IdleEventOf, OrderOf,
      CancelsIt, PoweredDown, Live, Awake, WaitStates, ExpiryStale, SleepsNow, GoingToSleep, CompletesIt, IdlingOut,
      PolicyNoEntry, Null
<1>41. MoveIsFit("StoppingResetDevice", Null) /\ MoveIsFit("StoppingResetDevice", "DeviceD0PowerRequestFailed")
  BY DEF MoveIsFit, MoveFits, MoveLeads, PlacesAt, NullPlaces, IdleBefore, IdleWhile, IdleAfter, IdleEventOf, OrderOf,
      CancelsIt, PoweredDown, Live, Awake, WaitStates, ExpiryStale, SleepsNow, GoingToSleep, CompletesIt, IdlingOut,
      PolicyNoEntry, Null
<1>42. MoveIsFit("StoppingResetDeviceCompletePowerUp", Null)
  BY DEF MoveIsFit, MoveFits, MoveLeads, PlacesAt, NullPlaces, IdleBefore, IdleWhile, IdleAfter, IdleEventOf, OrderOf,
      CancelsIt, PoweredDown, Live, Awake, WaitStates, ExpiryStale, SleepsNow, GoingToSleep, CompletesIt, IdlingOut,
      PolicyNoEntry, Null
<1>43. MoveIsFit("StoppingResetDeviceFailed", "Stopping")
  BY DEF MoveIsFit, MoveFits, MoveLeads, PlacesAt, NullPlaces, IdleBefore, IdleWhile, IdleAfter, IdleEventOf, OrderOf,
      CancelsIt, PoweredDown, Live, Awake, WaitStates, ExpiryStale, SleepsNow, GoingToSleep, CompletesIt, IdlingOut,
      PolicyNoEntry, Null
<1>44. MoveIsFit("Stopping", Null)
  BY DEF MoveIsFit, MoveFits, MoveLeads, PlacesAt, NullPlaces, IdleBefore, IdleWhile, IdleAfter, IdleEventOf, OrderOf,
      CancelsIt, PoweredDown, Live, Awake, WaitStates, ExpiryStale, SleepsNow, GoingToSleep, CompletesIt, IdlingOut,
      PolicyNoEntry, Null
<1>45. MoveIsFit("StoppingFailed", "StoppingSendStatus")
  BY DEF MoveIsFit, MoveFits, MoveLeads, PlacesAt, NullPlaces, IdleBefore, IdleWhile, IdleAfter, IdleEventOf, OrderOf,
      CancelsIt, PoweredDown, Live, Awake, WaitStates, ExpiryStale, SleepsNow, GoingToSleep, CompletesIt, IdlingOut,
      PolicyNoEntry, Null
<1>46. MoveIsFit("StoppingSendStatus", "Stopped")
  BY DEF MoveIsFit, MoveFits, MoveLeads, PlacesAt, NullPlaces, IdleBefore, IdleWhile, IdleAfter, IdleEventOf, OrderOf,
      CancelsIt, PoweredDown, Live, Awake, WaitStates, ExpiryStale, SleepsNow, GoingToSleep, CompletesIt, IdlingOut,
      PolicyNoEntry, Null
<1>47. MoveIsFit("StoppedRemoving", "Removed")
  BY DEF MoveIsFit, MoveFits, MoveLeads, PlacesAt, NullPlaces, IdleBefore, IdleWhile, IdleAfter, IdleEventOf, OrderOf,
      CancelsIt, PoweredDown, Live, Awake, WaitStates, ExpiryStale, SleepsNow, GoingToSleep, CompletesIt, IdlingOut,
      PolicyNoEntry, Null
<1>48. MoveIsFit("Removed", Null)
  BY DEF MoveIsFit, MoveFits, MoveLeads, PlacesAt, NullPlaces, IdleBefore, IdleWhile, IdleAfter, IdleEventOf, OrderOf,
      CancelsIt, PoweredDown, Live, Awake, WaitStates, ExpiryStale, SleepsNow, GoingToSleep, CompletesIt, IdlingOut,
      PolicyNoEntry, Null
<1>49. QED
  BY <1>1, <1>2, <1>3, <1>4, <1>5, <1>6, <1>7, <1>8, <1>9, <1>10, <1>11, <1>12, <1>13, <1>14,
     <1>15, <1>16, <1>17, <1>18, <1>19, <1>20, <1>21, <1>22, <1>23, <1>24, <1>25, <1>26, <1>27,
     <1>28, <1>29, <1>30, <1>31, <1>32, <1>33, <1>34, <1>35, <1>36, <1>37, <1>38, <1>39, <1>40,
     <1>41, <1>42, <1>43, <1>44, <1>45, <1>46, <1>47, <1>48 DEF PolicyMoves

LEMMA StopsAreQuiet ==
    ASSUME PnpLockstep, at["policy"] \in {"RestartingFailed", "StoppingSendStatus"}
    PROVE  Without(queue["policy"], Orders)
<1> DEFINE s == at["policy"]
<1>1. s \notin Runs \cup {"ObjectCreated", "StartingFailed", "Stopped", "Removed"}
  BY DEF Runs
<1>2. ~PnpActs
  BY <1>1 DEF PnpActs, PolicyFits, PolicyAt
<1>3. ~PnpOrderQueued
  <2>1. PnpOrderOf(at["pnp"]) \in {"Start", "Stop", "SurpriseRemove", "Remove", "none"}
    BY DEF PnpOrderOf
  <2>2. \A o \in {"Start", "Stop", "SurpriseRemove", "Remove"} : s \notin ToldTo(o)
    BY <1>1 DEF ToldTo
  <2>3. QED
    BY <2>1, <2>2 DEF PnpOrderQueued, PnpAsks
<1>4. QED
  BY <1>2, <1>3 DEF PnpLockstep, PolicyWorks, PolicyAnswered

(* what its entry functions leave of the queue of the machine, and of the  *)
(* failure and the PnP machine's event                                     *)
LEMMA PolicyEntersKeepsLock ==
    ASSUME CountInv, StageInv, queue \in Queues, Lockstep, PnpLockstep, IdleLock, NoStaleTimeout,
           PowerPolicyEntersState
    PROVE  IdleLock' /\ [Idle!IdleNext]_idle
<1>1. PICK s, next : <<s, next>> \in PolicyMoves /\ PolicyGoes(s, next)
  BY PolicyMovesAll
<1> DEFINE t == IF next = Null THEN s ELSE next
           E == Left(s).sent
<1>2. /\ at["policy"] = s /\ "policy" \in entering /\ PowerStands /\ PnpStays
      /\ at'["policy"] = t /\ (PolicyEnters' <=> next # Null /\ next \notin PolicyNoEntry)
  BY <1>1 DEF PolicyGoes, PolicyEnters
<1>3. PolicyActs /\ NoOrder /\ ~Asks /\ PolicyEnters
  BY <1>2, PolicyIsActing DEF Asks, PolicyActs, PolicyEnters
<1>4. Sound /\ idle.state \in IdleBefore(s)
  BY <1>2, <1>3 DEF IdleLock, IdleFits, IdlePlaces
<1>5. PolicySays(s)
  BY <1>2, <1>3, <1>4, PolicySaysAll
<1>6. MoveFits(s, next) /\ MoveLeads(s, t) /\ next # s
  BY <1>1, MovesAreFit DEF MoveIsFit
<1>7. /\ Heeded(E) /\ E \cap Watched = {}
      /\ idle'.sent = {} /\ idle'.d0 = Left(s).d0 /\ [Idle!IdleNext]_idle
      /\ idle'.state \in IdleAfter(s, idle.state)
      /\ idle'.state = "InDx" => /\ idle.state = "InDx" /\ ("TimerEnabled" \in idle'.flags => "TimerEnabled" \in idle.flags)
                                 /\ "TimerEnabled" \in idle'.flags => s # PoweredDown
      /\ idle'.state = "TimedOut" => InD0Event \notin E
      /\ s \in CancelsIt => (t \in WaitStates <=> idle'.state = "DisablingWaitForTimeout")
  BY <1>2, <1>4, <1>5, PolicyTurn DEF PolicySays
<1>8. /\ WaiterFollows /\ users' = users /\ os'.sys = IF s \in CompletesIt THEN "Sx" ELSE os.sys
      /\ s = "StartingDecideS0Wake" => t = IF users.s0idle THEN "StartedIdleCapable" ELSE "Started"
      /\ OrderOf(s) = "ImplicitD0" => queue'["power"] # <<>>
  BY <1>2, <1>5, <1>7 DEF PolicySays, WaiterFollows
<1>9. Idle!IdleInv' /\ Sound'
  BY <1>4, <1>7, SoundStep DEF Sound
<1>10. /\ \A e \in Watched : In(queue'["policy"], e) => In(queue["policy"], e)
       /\ \A e \in Watched : Lone(queue["policy"], {e}) => Lone(queue'["policy"], {e})
       /\ \A a, b \in Watched : Precedes(queue["policy"], a, b) => Precedes(queue'["policy"], a, b)
  BY <1>7 DEF Heeded, Posted, Kept, Ranked
<1>11. {Expiry, "Sx", "S0", "S0IdlePolicyChanged", "Start", "Remove"} = Watched
  BY DEF Watched
<1>12. /\ SleepFits /\ ExpiryFits /\ ExpiryFirst /\ TimerOff /\ PowerFailureKnown
       /\ D0EventFits /\ GrantFits /\ IdleFits
  BY DEF IdleLock
<1> HIDE DEF t, E
<1>13. IdleFits'
  <2>1. idle'.state \in PlacesAt(s, next)
    BY <1>4, <1>6, <1>7 DEF MoveFits, t, Null, WaitStates, CancelsIt
  <2>2. PlacesAt(s, next) = IdlePlaces'
    <3>1. CASE next # Null
      <4>1. t = next /\ (next \in PolicyNoEntry => OrderOf(next) = "none")
        BY <3>1, AskingStates DEF t
      <4>2. ~Asks'
        BY <1>2, <3>1, <4>1 DEF Asks, PolicyEnters
      <4>3. QED
        BY <1>2, <3>1, <4>1, <4>2 DEF PlacesAt, IdlePlaces
    <3>2. CASE next = Null /\ OrderOf(s) = "none"
      <4>1. t = s /\ ~Asks' /\ ~PolicyEnters'
        BY <1>2, <3>2 DEF t, Asks
      <4>2. QED
        BY <1>2, <3>2, <4>1 DEF PlacesAt, NullPlaces, IdlePlaces
    <3>3. CASE next = Null /\ OrderOf(s) # "none"
      <4>1. t = s /\ Asks' /\ ~PolicyEnters'
        BY <1>2, <3>3 DEF t, Asks, PolicyEnters
      <4>2. at'["power"] = at["power"] /\ at["power"] \in RestsAt(s) /\ (Powering' <=> Powering)
        BY <1>2, <1>3 DEF PowerStands, PolicyActs
      <4>3. IdlePlaces' = IdleAsking(s, at["power"], Powering', queue'["power"] # <<>>)
        BY <1>2, <4>1, <4>2 DEF IdlePlaces
      <4>4. CASE s \in {"Starting", "Restarting"}
        <5>1. OrderOf(s) = "ImplicitD0"
          BY <4>4 DEF OrderOf
        <5>2. QED
          BY <1>8, <3>3, <4>3, <5>1 DEF IdleAsking, PlacesAt, NullPlaces
      <4>5. CASE OrderOf(s) = "ImplicitD3"
        BY <3>3, <4>3, <4>5 DEF IdleAsking, PlacesAt, NullPlaces
      <4>6. CASE OrderOf(s) = "Dx"
        BY <3>3, <4>3, <4>6 DEF IdleAsking, PlacesAt, NullPlaces
      <4>7. CASE OrderOf(s) = "CompleteDx"
        <5>1. at["power"] = "GotoDx"
          BY <4>2, <4>7 DEF RestsAt, OrderOf
        <5>2. QED
          BY <3>3, <4>3, <4>7, <5>1 DEF IdleAsking, PlacesAt, NullPlaces
      <4>8. CASE OrderOf(s) \in {"D0", "CompleteD0"}
        <5>1. at["power"] \in {"Dx", "WakingPostHardwareEnabled"}
          BY <4>2, <4>8 DEF RestsAt, OrderOf
        <5>2. QED
          BY <3>3, <4>3, <4>8, <5>1 DEF IdleAsking, PlacesAt, NullPlaces, DZero
      <4>9. OrderOf(s) \in {"none", "ImplicitD0", "ImplicitD3", "Dx", "CompleteDx", "D0", "CompleteD0"}
            /\ (OrderOf(s) = "ImplicitD0" => s \in {"Starting", "Restarting"})
        BY DEF OrderOf
      <4>10. QED
        BY <3>3, <4>4, <4>5, <4>6, <4>7, <4>8, <4>9
    <3>4. QED
      BY <3>1, <3>2, <3>3
  <2>3. QED
    BY <2>1, <2>2 DEF IdleFits
<1>14. TimerOff'
  <2>1. SUFFICES ASSUME idle'.state = "InDx", "TimerEnabled" \in idle'.flags
                 PROVE  FALSE
    BY DEF TimerOff
  <2>2. s = "TimerExpiredNoWakeCompletePowerDown"
    BY <1>2, <1>7, <1>12, <2>1 DEF TimerOff, PoweredDown
  <2>3. idle.state = "TimedOut"
    BY <1>4, <2>2 DEF IdleBefore, IdleWhile
  <2>4. QED
    BY <1>7, <2>1, <2>3
<1>15. PowerFailureKnown' /\ D0EventFits'
  BY <1>2, <1>7, <1>12, FailureFrame, D0EventFrame
<1>16. ExpiryFits'
  <2>1. Lone(queue'["policy"], {Expiry})
    BY <1>10, <1>11, <1>12 DEF ExpiryFits
  <2>2. ASSUME In(queue'["policy"], Expiry)
        PROVE  idle'.state \in {"Disabled", "InDx", "Stopped"} /\ t \in ExpiryStale
    <3>1. In(queue["policy"], Expiry)
      BY <1>10, <1>11, <2>2
    <3>2. CASE idle.state = "TimedOut"
      <4>1. s \in CancelsIt
        BY <1>2, <1>3, <1>12, <3>1, <3>2 DEF ExpiryFits, ExpiryNew
      <4>2. idle'.state = "Disabled"
        BY <1>7, <3>2, <4>1 DEF IdleAfter, IdleEventOf, CancelsIt, PoweredDown
      <4>3. QED
        BY <1>6, <1>7, <4>1, <4>2 DEF MoveLeads
    <3>3. CASE idle.state # "TimedOut"
      <4>1. idle.state \in {"Disabled", "InDx", "Stopped"} /\ s \in ExpiryStale
        BY <1>2, <1>12, <3>1, <3>3 DEF ExpiryFits
      <4>2. s = "StartingDecideS0Wake" => t = "Started"
        BY <1>2, <1>8, <3>1 DEF NoStaleTimeout, In, Expiry
      <4>3. IdleEventOf(s) \in {"none", "Stop", "Disabled"}
        BY <4>1 DEF IdleEventOf, ExpiryStale, SleepsNow, CancelsIt, PoweredDown
      <4>4. IdleEventOf(s) = "Disabled" => idle.state \in {"Disabled", "InDx"}
        <5>1. IdleEventOf(s) = "Disabled" => s # "Stopped"
          BY DEF IdleEventOf, CancelsIt, PoweredDown
        <5>2. QED
          BY <1>4, <4>1, <5>1, PolicyIsLegal
      <4>5. idle'.state \in {"Disabled", "InDx", "Stopped"}
        BY <1>7, <4>1, <4>3, <4>4 DEF IdleAfter
      <4>6. QED
        BY <1>6, <4>1, <4>2, <4>5 DEF MoveLeads
    <3>4. QED
      BY <3>2, <3>3
  <2>3. QED
    BY <1>2, <2>1, <2>2 DEF ExpiryFits
<1>17. ExpiryFirst'
  <2>1. ASSUME t = "SystemAsleepNoWake"
        PROVE  Precedes(queue'["policy"], Expiry, "S0")
    <3>1. CASE s = "SystemAsleepNoWake"
      BY <1>2, <1>10, <1>11, <1>12, <3>1 DEF ExpiryFirst
    <3>2. CASE s = "SystemSleepFromDeviceWaitingUnarmed"
      <4>1. ~In(queue["policy"], "S0")
        BY <1>2, <1>12, <3>2 DEF SleepFits, FallsAsleep
      <4>2. ~In(queue'["policy"], "S0")
        BY <1>10, <1>11, <4>1
      <4>3. QED
        BY <4>2 DEF Precedes, In
    <3>3. QED
      BY <1>6, <2>1, <3>1, <3>2 DEF MoveLeads
  <2>2. ASSUME t = "Stopped", NEW e \in {"Start", "Remove"}
        PROVE  Precedes(queue'["policy"], Expiry, e)
    <3>1. at["policy"] \in {"RestartingFailed", "StoppingSendStatus"}
      BY <1>2, <1>6, <2>2 DEF MoveLeads
    <3>2. ~In(queue["policy"], e)
      BY <3>1, StopsAreQuiet DEF Without, Orders
    <3>3. ~In(queue'["policy"], e)
      BY <1>10, <1>11, <3>2
    <3>4. QED
      BY <3>3 DEF Precedes, In
  <2>3. QED
    BY <1>2, <2>1, <2>2 DEF ExpiryFirst
<1>18. SleepFits'
  <2>1. FallsAsleep' => FallsAsleep /\ s \notin CompletesIt
    <3>1. t \in GoingToSleep => s \in GoingToSleep \ CompletesIt
      BY <1>6 DEF MoveLeads
    <3>2. t = "SystemAsleepNoWake" /\ PolicyEnters' => s = "SystemSleepFromDeviceWaitingUnarmed"
      BY <1>2, <1>6 DEF MoveLeads, t
    <3>3. QED
      BY <1>2, <3>1, <3>2 DEF FallsAsleep, GoingToSleep, CompletesIt
  <2>2. s \in CompletesIt => FallsAsleep
    BY <1>2, <1>3 DEF CompletesIt, FallsAsleep, SleepsNow
  <2>3. QED
    BY <1>8, <1>10, <1>11, <1>12, <2>1, <2>2 DEF SleepFits
<1>19. GrantFits'
  <2>1. SUFFICES ASSUME Out', "PowerFailed" \notin idle'.flags
                 PROVE  /\ waiter' \notin {"released", "held"}
                        /\ at'["pnp"] \notin Pending
                        /\ ~In(queue'["pnp"], InD0Event)
    BY DEF GrantFits, Out
  <2>2. "PowerFailed" \notin idle.flags
    BY <1>7, <2>1 DEF Heeded
  <2>3. CASE s \in IdlingOut
    <3>1. Left(s) = idle
      BY <2>3 DEF Left, IdleEventOf, Queries, IdlingOut, CancelsIt, PoweredDown
    <3>2. idle.sent = {} /\ idle'.d0 = idle.d0 /\ InD0Event \notin E
      BY <1>4, <1>7, <3>1 DEF Sound, E
    <3>3. idle.state \in {"TimedOut", "InDx"}
      BY <1>2, <1>12, <2>2, <2>3, OutIs DEF Out
    <3>4. ~idle'.d0
      BY <1>4, <3>2, <3>3 DEF Sound, Idle!IdleInv, Idle!IdleSound, Idle!D0EventMeans
    <3>5. Out
      BY <1>2, <2>3 DEF Out
    <3>6. QED
      BY <1>2, <1>7, <1>8, <1>12, <2>2, <3>2, <3>4, <3>5
         DEF GrantFits, Out, WaiterFollows, PnpStays, Heeded, Posted, Kept
  <2>4. CASE s \notin IdlingOut
    <3>1. idle'.state = "TimedOut"
      BY <1>2, <1>6, <2>1, <2>4 DEF Out, MoveLeads
    <3>2. ~idle'.d0 /\ InD0Event \notin E
      BY <1>7, <1>9, <3>1 DEF Sound, Idle!IdleInv, Idle!IdleSound, Idle!D0EventMeans
    <3>3. idle.state = "TimedOut"
      BY <1>7, <3>1 DEF IdleAfter
    <3>4. Out
      BY <3>3 DEF Out
    <3>5. QED
      BY <1>2, <1>7, <1>8, <1>12, <2>2, <3>2, <3>4
         DEF GrantFits, Out, WaiterFollows, PnpStays, Heeded, Posted, Kept
  <2>5. QED
    BY <2>3, <2>4
<1>20. QED
  BY <1>7, <1>9, <1>13, <1>14, <1>15, <1>16, <1>17, <1>18, <1>19 DEF IdleLock

-----------------------------------------------------------------------------
(***************************************************************************)
(* The events the power policy machine takes                               *)
(***************************************************************************)
EntersIn(t) == IF t \in PolicyNoEntry THEN IdleWhile(t) ELSE IdleBefore(t)

(* Where the idle machine is when the answer a to the order of s comes     *)
AnswerPlaces(s, a) ==
  CASE OrderOf(s) = "ImplicitD0" -> IF a = "PowerUp" THEN {"Disabled"} ELSE {"StartedPowerFailed"}
    [] OrderOf(s) = "ImplicitD3" -> {"Disabled", "InDx"}
    [] OrderOf(s) = "CompleteDx" -> IF a = "PowerDown" THEN {"InDx"} ELSE {"Disabled"}
    [] OrderOf(s) \in {"D0", "CompleteD0"} ->
         IF a \in {"PowerUp", "PowerUpFailed"} THEN {"Disabled"} ELSE {"InDx"}
    [] OTHER -> IdleWhile(s)

LEMMA AnsweredAt ==
    ASSUME NEW s, NEW a, NEW p \in Outcome(OrderOf(s), a), OrderOf(s) # "none", Powering => p \in DZero
    PROVE  IdleAsking(s, p, Powering, FALSE) = AnswerPlaces(s, a)
<1> DEFINE o == OrderOf(s)
<1>1. CASE o = "ImplicitD0"
  <2>1. (a = "PowerUp" /\ p \in DZero) \/ (a # "PowerUp" /\ p = "Stopped")
    BY <1>1 DEF Outcome
  <2>2. "Stopped" \notin DZero
    BY DEF DZero
  <2>3. QED
    BY <1>1, <2>1, <2>2 DEF IdleAsking, AnswerPlaces
<1>2. CASE o = "ImplicitD3"
  BY <1>2 DEF IdleAsking, AnswerPlaces
<1>3. CASE o = "CompleteDx"
  <2>1. (a = "PowerDown" /\ p = "Dx") \/ (a # "PowerDown" /\ p = "ReportPowerDownFailed")
    BY <1>3 DEF Outcome
  <2>2. QED
    BY <1>3, <2>1 DEF IdleAsking, AnswerPlaces, DZero
<1>4. CASE o \in {"D0", "CompleteD0"}
  <2>1. \/ a = "PowerUp" /\ p \in DZero
        \/ a = "PowerUpFailed" /\ p = "ReportPowerUpFailed"
        \/ a \notin {"PowerUp", "PowerUpFailed"} /\ p \in {"WakingPostHardwareEnabled", "Dx"}
    BY <1>4 DEF Outcome
  <2>2. {"WakingPostHardwareEnabled", "Dx", "ReportPowerUpFailed"} \cap DZero = {}
    BY DEF DZero
  <2>3. CASE p \in DZero
    BY <1>4, <2>1, <2>2, <2>3 DEF IdleAsking, AnswerPlaces
  <2>4. CASE p \notin DZero
    <3>1. ~Powering
      BY <2>4
    <3>2. QED
      BY <1>4, <2>1, <2>2, <2>4, <3>1 DEF IdleAsking, AnswerPlaces
  <2>5. QED
    BY <2>3, <2>4
<1>5. CASE o \notin {"ImplicitD0", "ImplicitD3", "CompleteDx", "D0", "CompleteD0"}
  BY <1>5 DEF IdleAsking, AnswerPlaces
<1>6. QED
  BY <1>1, <1>2, <1>3, <1>4, <1>5

(* Where a row takes the machine                                           *)
Finds(r) == IF OrderOf(r[1]) = "none" THEN IdleWhile(r[1]) ELSE AnswerPlaces(r[1], r[2])

RowFits(r) ==
  \A a \in Finds(r) :
    (r[2] = Expiry => IF r[1] \in ExpiryStale THEN a \in {"Disabled", "InDx", "Stopped"} ELSE a = "TimedOut")
    => a \in EntersIn(r[3])

RowLeads(r) ==
  /\ r[1] \notin CancelsIt \cup {PoweredDown}
  /\ r[1] = "TimerExpiredNoWakeCompletePowerDown" => r[3] = PoweredDown \/ r[2] = "PowerDownFailed"
  /\ r[1] = "StartedIdleCapable" => r[2] = Expiry \/ r[3] \in CancelsIt
  /\ r[1] \in ExpiryStale => \/ r[2] = Expiry \/ r[3] \in ExpiryStale
                             \/ r[1] = "SystemAsleepNoWake" /\ r[2] = "S0"
                             \/ r[1] = "Stopped" /\ r[2] \in {"Start", "Remove"}
  /\ r[3] = "SystemAsleepNoWake" => r[1] \in SleepsNow
  /\ r[3] # "Stopped"
  /\ r[3] \in GoingToSleep => r[2] = "Sx" \/ r[1] \in GoingToSleep
  /\ r[3] \in {"StartedCancelTimer", "StartedWaitForIdleTimeout", "Started"} => r[2] = "S0IdlePolicyChanged"
  /\ r[3] = "StartingDecideS0Wake" =>
       \/ r[2] \in {"S0IdlePolicyChanged", Expiry}
       \/ r[1] \notin ExpiryStale \cup {"StartedIdleCapable"}
  /\ r[3] \in IdlingOut => r[1] \in IdlingOut \/ (r[1] = "StartedIdleCapable" /\ r[2] = Expiry)

LEMMA RowsLead == \A r \in PolicyRows : RowLeads(r)
<1>1. \A r \in StartRows : RowLeads(r)
  BY DEF StartRows, RowLeads, CancelsIt, PoweredDown, ExpiryStale, SleepsNow, GoingToSleep, IdlingOut, Expiry
<1>2. \A r \in IdleRows : RowLeads(r)
  BY DEF IdleRows, RowLeads, CancelsIt, PoweredDown, ExpiryStale, SleepsNow, GoingToSleep, IdlingOut, Expiry
<1>3. \A r \in SleepRows : RowLeads(r)
  BY DEF SleepRows, RowLeads, CancelsIt, PoweredDown, ExpiryStale, SleepsNow, GoingToSleep, IdlingOut, Expiry
<1>4. \A r \in StopRows : RowLeads(r)
  BY DEF StopRows, RowLeads, CancelsIt, PoweredDown, ExpiryStale, SleepsNow, GoingToSleep, IdlingOut, Expiry
<1>5. QED
  BY <1>1, <1>2, <1>3, <1>4 DEF PolicyRows

LEMMA RowsFit == \A r \in PolicyRows : RowFits(r)
<1>1. \A r \in StartRows : RowFits(r)
  BY DEF StartRows, RowFits, Finds, OrderOf, AnswerPlaces, EntersIn, PolicyNoEntry, IdleBefore, IdleWhile, Live,
     Awake, ExpiryStale, SleepsNow, Expiry
<1>2. \A r \in IdleRows : RowFits(r)
  BY DEF IdleRows, RowFits, Finds, OrderOf, AnswerPlaces, EntersIn, PolicyNoEntry, IdleBefore, IdleWhile, Live,
     Awake, ExpiryStale, SleepsNow, Expiry
<1>3. \A r \in SleepRows : RowFits(r)
  BY DEF SleepRows, RowFits, Finds, OrderOf, AnswerPlaces, EntersIn, PolicyNoEntry, IdleBefore, IdleWhile, Live,
     Awake, ExpiryStale, SleepsNow, Expiry
<1>4. \A r \in StopRows : RowFits(r)
  BY DEF StopRows, RowFits, Finds, OrderOf, AnswerPlaces, EntersIn, PolicyNoEntry, IdleBefore, IdleWhile, Live,
     Awake, ExpiryStale, SleepsNow, Expiry
<1>5. QED
  BY <1>1, <1>2, <1>3, <1>4 DEF PolicyRows

LEMMA PolicyEventKeepsLock ==
    ASSUME CountInv, StageInv, queue \in Queues, Lockstep, IdleLock, PowerPolicyProcessEventInner
    PROVE  IdleLock' /\ idle' = idle
<1> DEFINE s == at["policy"]
           q == queue["policy"]
           h == Head(queue["policy"])
           t == at'["policy"]
<1>1. /\ queue' \in Queues /\ queue'["policy"] = Tail(q) /\ ~PolicyEnters
      /\ queue'["pnp"] = queue["pnp"] /\ queue'["power"] = queue["power"]
      /\ q # <<>> /\ q \in Seq(Events) /\ PnpStays /\ PowerStands
      /\ \/ PolicyStands /\ Row("policy", PolicyRows) = {}
         \/ \E r \in PolicyRows :
              /\ r[1] = s /\ r[2] = h /\ t = r[3]
              /\ PolicyEnters' <=> r[3] \notin PolicyNoEntry
  BY PolicyTakes DEF PolicyWaits, PolicyEnters
<1>2. /\ idle' = idle /\ waiter' = waiter /\ users' = users
      /\ h \in PwrPolPriorityEventsMask \/ s \in PolicyOpen
      /\ os'.sys = IF Row("policy", PolicyRows) = {} /\ h = "Sx" THEN "Sx" ELSE os.sys
  <2>1. os \in Os
    BY DEF StageInv
  <2>2. os' = IF Row("policy", PolicyRows) = {} /\ h = "Sx" THEN CompleteSystemPowerIrp(os) ELSE os
    BY DEF PowerPolicyProcessEventInner, Row
  <2>3. QED
    BY <2>1, <2>2 DEF PowerPolicyProcessEventInner, references, Takes, Priority, CompleteSystemPowerIrp, Os
<1>3. Posted(queue, queue', {})
  BY <1>1, KeptTail, KeptStays DEF Posted
<1>4. Heeded({}) /\ Uses(idle, idle') /\ WaiterFollows
  BY <1>2, <1>3, NothingHeeded DEF WaiterFollows
<1>5. Idle!IdleInv' /\ Sound'
  BY <1>2, SoundStep DEF IdleLock, Sound
<1>6. PowerFailureKnown' /\ D0EventFits'
  BY <1>1, <1>4, FailureFrame, D0EventFrame DEF IdleLock
<1>7. /\ IdleFits /\ TimerOff /\ PowerFailureKnown /\ ExpiryFits /\ ExpiryFirst
      /\ SleepFits /\ GrantFits
  BY DEF IdleLock
<1>8. /\ In(q, h) /\ \A a : In(Tail(q), a) => In(q, a)
      /\ \A a : Precedes(q, a, h) => ~In(q, a)
      /\ \A a : h = a /\ Lone(q, {a}) => ~In(Tail(q), a)
  BY <1>1, HeadIsFirst
<1>9. \A a \in Watched : Lone(q, {a}) => Lone(Tail(q), {a})
  <2>1. Kept(q, Tail(q), Watched, {})
    BY <1>1, KeptTail
  <2>2. QED
    BY <2>1 DEF Kept
<1>10. \A a, b \in Watched : Precedes(q, a, b) => Precedes(Tail(q), a, b)
  <2>1. Ranked(q, Tail(q), Watched, {})
    BY <1>1, KeptTail
  <2>2. QED
    BY <2>1 DEF Ranked
<1>11. {Expiry, "Sx", "S0", "S0IdlePolicyChanged", "Start", "Remove"} = Watched
  BY DEF Watched
<1>12. CASE PolicyStands /\ Row("policy", PolicyRows) = {}
  <2>1. IdleFits' /\ TimerOff' /\ GrantFits'
    BY <1>1, <1>4, <1>5, <1>7, <1>12, IdleFitsFrame, TimerOffFrame, GrantFrame
  <2>2. ExpiryFits' /\ ExpiryFirst'
    BY <1>2, <1>4, <1>7, <1>12, ExpiryFrame, ExpiryFirstFrame
  <2>3. SleepFits'
    <3>1. CASE h = "Sx"
      <4>1. ~In(Tail(q), "Sx") /\ ~FallsAsleep
        BY <1>7, <1>8, <3>1 DEF SleepFits
      <4>2. ~FallsAsleep' /\ Lone(Tail(q), {"Sx"})
        BY <1>7, <1>9, <1>11, <1>12, <4>1 DEF FallsAsleep, PolicyStands, PolicyEnters, SleepFits
      <4>3. QED
        BY <1>1, <4>1, <4>2 DEF SleepFits
    <3>2. CASE h # "Sx"
      BY <1>2, <1>4, <1>7, <1>12, <3>2, SleepFrame
    <3>3. QED
      BY <3>1, <3>2
  <2>4. QED
    BY <1>2, <1>5, <1>6, <2>1, <2>2, <2>3 DEF IdleLock
<1>13. ASSUME NEW r \in PolicyRows, r[1] = s, r[2] = h, t = r[3], PolicyEnters' <=> t \notin PolicyNoEntry
       PROVE  IdleLock'
  <2>1. RowFits(r) /\ RowLeads(r)
    BY RowsFit, RowsLead
  <2>2. os'.sys = os.sys
    BY <1>2, <1>13 DEF Row
  <2>3. Asks => /\ h \in PwrPolPriorityEventsMask
                /\ at["power"] \in Outcome(OrderOf(s), h)
                /\ queue["power"] = <<>> /\ (Powering => at["power"] \in DZero)
    <3>1. SUFFICES ASSUME Asks
                   PROVE  /\ h \in PwrPolPriorityEventsMask
                          /\ at["power"] \in Outcome(OrderOf(s), h)
                          /\ queue["power"] = <<>> /\ (Powering => at["power"] \in DZero)
      OBVIOUS
    <3>2. h \in PwrPolPriorityEventsMask
      BY <1>2, <3>1, AskingStates DEF Asks
    <3>3. ~NoAnswer
      BY <1>8, <3>2 DEF NoAnswer, Without
    <3>4. Answered
      BY <3>1, <3>3 DEF Lockstep, PolicyActs, OrderQueued, IrpSent, PowerActs, IrpReleased
    <3>5. PICK a \in PwrPolPriorityEventsMask :
            at["power"] \in Outcome(OrderOf(s), a) /\ Sole(q, PwrPolPriorityEventsMask, a)
      BY <3>3, <3>4 DEF Answered
    <3>6. h = a
      BY <1>1, <3>2, <3>5, Shrinks
    <3>7. QED
      BY <3>2, <3>4, <3>5, <3>6 DEF Answered, NoOrder, Rests
  <2>4. Asks <=> OrderOf(s) # "none"
    BY <1>1 DEF Asks, PolicyEnters
  <2>5. idle.state \in Finds(r)
    <3>1. CASE Asks
      BY <1>7, <1>13, <2>3, <2>4, <3>1, AnsweredAt DEF IdleFits, IdlePlaces, Finds
    <3>2. CASE ~Asks
      BY <1>1, <1>7, <1>13, <2>4, <3>2 DEF IdleFits, IdlePlaces, Finds
    <3>3. QED
      BY <3>1, <3>2
  <2>6. In(q, Expiry) => IF idle.state = "TimedOut" THEN s = "StartedIdleCapable"
                         ELSE idle.state \in {"Disabled", "InDx", "Stopped"} /\ s \in ExpiryStale
    BY <1>7, <1>13, <2>1 DEF ExpiryFits, ExpiryNew, RowLeads
  <2>7. h = Expiry => IF s \in ExpiryStale THEN idle.state \in {"Disabled", "InDx", "Stopped"}
                      ELSE idle.state = "TimedOut"
    BY <1>8, <2>6 DEF ExpiryStale, SleepsNow
  <2>8. idle.state \in EntersIn(t)
    BY <1>13, <2>1, <2>5, <2>7 DEF RowFits
  <2>9. IdleFits'
    <3>1. IdlePlaces' = EntersIn(t)
      <4>1. ~Asks'
        BY <1>13, AskingStates DEF Asks, PolicyEnters
      <4>2. QED
        BY <1>13, <4>1 DEF IdlePlaces, EntersIn
    <3>2. QED
      BY <1>2, <2>8, <3>1 DEF IdleFits
  <2>10. TimerOff'
    <3>1. SUFFICES ASSUME idle.state = "InDx", "TimerEnabled" \in idle.flags
                   PROVE  t = PoweredDown
      BY <1>2 DEF TimerOff, PoweredDown
    <3>2. s = "TimerExpiredNoWakeCompletePowerDown"
      BY <1>7, <1>13, <2>1, <3>1 DEF TimerOff, RowLeads, PoweredDown
    <3>3. h # "PowerDownFailed"
      BY <1>13, <2>5, <3>1, <3>2 DEF Finds, OrderOf, AnswerPlaces
    <3>4. QED
      BY <1>13, <2>1, <3>2, <3>3 DEF RowLeads
  <2>11. ExpiryFits'
    <3>1. Lone(Tail(q), {Expiry})
      BY <1>7, <1>9, <1>11 DEF ExpiryFits
    <3>2. ASSUME In(Tail(q), Expiry)
          PROVE  IF idle.state = "TimedOut" THEN t \in CancelsIt
                 ELSE idle.state \in {"Disabled", "InDx", "Stopped"} /\ t \in ExpiryStale
      <4>1. In(q, Expiry) /\ h # Expiry
        BY <1>7, <1>8, <3>2 DEF ExpiryFits
      <4>2. CASE idle.state = "TimedOut"
        BY <1>13, <2>1, <2>6, <4>1, <4>2 DEF RowLeads
      <4>3. CASE idle.state # "TimedOut"
        <5>1. s \in ExpiryStale /\ idle.state \in {"Disabled", "InDx", "Stopped"}
          BY <2>6, <4>1, <4>3
        <5>2. ~(s = "SystemAsleepNoWake" /\ h = "S0") /\ ~(s = "Stopped" /\ h \in {"Start", "Remove"})
          BY <1>7, <1>8, <4>1 DEF ExpiryFirst
        <5>3. QED
          BY <1>13, <2>1, <4>1, <4>3, <5>1, <5>2 DEF RowLeads
      <4>4. QED
        BY <4>2, <4>3
    <3>3. QED
      BY <1>1, <1>2, <3>1, <3>2 DEF ExpiryFits, ExpiryNew
  <2>12. ExpiryFirst'
    <3>1. ASSUME t = "SystemAsleepNoWake"
          PROVE  Precedes(Tail(q), Expiry, "S0")
      <4>1. ~In(q, "S0")
        BY <1>7, <1>13, <2>1, <3>1 DEF RowLeads, SleepFits, FallsAsleep
      <4>2. ~In(Tail(q), "S0")
        BY <1>8, <4>1
      <4>3. QED
        BY <4>2 DEF Precedes, In
    <3>2. t # "Stopped"
      BY <1>13, <2>1 DEF RowLeads
    <3>3. QED
      BY <1>1, <3>1, <3>2 DEF ExpiryFirst
  <2>13. SleepFits'
    <3>1. Lone(Tail(q), {"Sx"}) /\ (In(Tail(q), "Sx") => h # "Sx")
      BY <1>7, <1>8, <1>9, <1>11 DEF SleepFits
    <3>2. FallsAsleep' => h = "Sx" \/ FallsAsleep
      <4>1. t = "SystemAsleepNoWake" => FallsAsleep
        BY <1>13, <2>1 DEF RowLeads, FallsAsleep
      <4>2. t \in GoingToSleep => h = "Sx" \/ FallsAsleep
        BY <1>13, <2>1 DEF RowLeads, FallsAsleep, GoingToSleep
      <4>3. QED
        BY <4>1, <4>2 DEF FallsAsleep, GoingToSleep
    <3>3. h = "Sx" => os.sys = "sleeping" /\ ~In(q, "S0")
      BY <1>7, <1>8 DEF SleepFits
    <3>4. FallsAsleep => os.sys = "sleeping" /\ ~In(q, "S0")
      BY <1>7 DEF SleepFits
    <3>5. FallsAsleep' => os.sys = "sleeping" /\ ~In(Tail(q), "S0")
      BY <1>8, <3>2, <3>3, <3>4
    <3>6. ASSUME In(Tail(q), "Sx")
          PROVE  os.sys = "sleeping" /\ ~FallsAsleep' /\ Precedes(Tail(q), "S0", "Sx")
      <4>1. In(q, "Sx") /\ h # "Sx"
        BY <1>8, <3>1, <3>6
      <4>2. os.sys = "sleeping" /\ ~FallsAsleep /\ Precedes(q, "S0", "Sx")
        BY <1>7, <4>1 DEF SleepFits
      <4>3. QED
        BY <1>10, <1>11, <3>2, <4>1, <4>2
    <3>7. QED
      BY <1>1, <2>2, <3>1, <3>5, <3>6 DEF SleepFits
  <2>14. GrantFits'
    <3>1. Out' => Out
      BY <1>2, <1>13, <2>1, <2>7 DEF Out, RowLeads, ExpiryStale, SleepsNow
    <3>2. QED
      BY <1>1, <1>2, <1>7, <3>1 DEF GrantFits, Out, PnpStays
  <2>15. QED
    BY <1>2, <1>5, <1>6, <2>9, <2>10, <2>11, <2>12, <2>13, <2>14 DEF IdleLock
<1>14. QED
  BY <1>1, <1>2, <1>12, <1>13

-----------------------------------------------------------------------------
(***************************************************************************)
(* The power machine                                                       *)
(***************************************************************************)
(* where the idle machine is when the device is told to power down         *)
WhileDown(s) ==
  IF s \in {"TimerExpiredNoWake", "TimerExpiredNoWakeCompletePowerDown"} THEN {"TimedOut"} ELSE {"Disabled"}

(* while the power machine carries the order o out, and is about to run    *)
(* the entry function of p, or has                                         *)
PlacesMid(w, o, p) ==
  CASE o = "ImplicitD0" -> IF p \in DZero THEN {"Disabled"} ELSE {"Started"}
    [] o = "ImplicitD3" -> {"Disabled", "InDx"}
    [] o = "CompleteDx" -> IF p = "Dx" THEN {"InDx"} ELSE w
    [] o \in {"D0", "CompleteD0"} -> IF p \in DZero THEN {"Disabled"} ELSE {"InDx"}
    [] OTHER -> w

PlacesEnd(w, o, p) ==
  CASE o = "ImplicitD0" -> IF p \in DZero THEN {"Disabled"} ELSE {"StartedPowerFailed"}
    [] o = "ImplicitD3" -> {"Disabled", "InDx"}
    [] o = "CompleteDx" ->
         IF p = "Dx" THEN {"InDx"} ELSE IF p = "ReportPowerDownFailed" THEN {"Disabled"} ELSE w
    [] o \in {"D0", "CompleteD0"} ->
         IF p \in DZero \/ p = "ReportPowerUpFailed" THEN {"Disabled"} ELSE {"InDx"}
    [] OTHER -> w

LEMMA AskingFits ==
    ASSUME Asks, NoOrder
    PROVE  IdlePlaces = IF Powering THEN PlacesMid(WhileDown(at["policy"]), OrderOf(at["policy"]), at["power"])
                        ELSE PlacesEnd(WhileDown(at["policy"]), OrderOf(at["policy"]), at["power"])
<1> DEFINE s == at["policy"]
           o == OrderOf(s)
<1>1. IdlePlaces = IdleAsking(s, at["power"], Powering, queue["power"] # <<>>) /\ ~(queue["power"] # <<>>) /\ o # "none"
  BY DEF IdlePlaces, Asks, NoOrder
<1>2. CASE o = "ImplicitD0"
  BY <1>1, <1>2 DEF IdleAsking, PlacesMid, PlacesEnd
<1>3. CASE o = "ImplicitD3"
  BY <1>1, <1>3 DEF IdleAsking, PlacesMid, PlacesEnd
<1>4. o \in {"Dx", "CompleteDx"} => IdleWhile(s) = WhileDown(s)
  BY DEF OrderOf, IdleWhile, WhileDown
<1>5. CASE o = "CompleteDx"
  BY <1>1, <1>4, <1>5 DEF IdleAsking, PlacesMid, PlacesEnd
<1>6. CASE o \in {"D0", "CompleteD0"}
  BY <1>1, <1>6 DEF IdleAsking, PlacesMid, PlacesEnd
<1>7. CASE o = "Dx"
  BY <1>1, <1>4, <1>7 DEF IdleAsking, PlacesMid, PlacesEnd
<1>8. o \in {"none", "ImplicitD0", "ImplicitD3", "Dx", "CompleteDx", "D0", "CompleteD0"}
  BY DEF OrderOf
<1>9. QED
  BY <1>1, <1>2, <1>3, <1>5, <1>6, <1>7, <1>8

LEMMA AskingFitsAfter ==
    ASSUME Asks, PolicyStands, NoOrder'
    PROVE  IdlePlaces' = IF Powering' THEN PlacesMid(WhileDown(at["policy"]), OrderOf(at["policy"]), at'["power"])
                        ELSE PlacesEnd(WhileDown(at["policy"]), OrderOf(at["policy"]), at'["power"])
<1> DEFINE s == at["policy"]
           o == OrderOf(s)
<1>1. IdlePlaces' = IdleAsking(s, at'["power"], Powering', queue'["power"] # <<>>) /\ ~(queue'["power"] # <<>>) /\ o # "none"
  BY DEF IdlePlaces, Asks, NoOrder, PolicyStands
<1>2. CASE o = "ImplicitD0"
  BY <1>1, <1>2 DEF IdleAsking, PlacesMid, PlacesEnd
<1>3. CASE o = "ImplicitD3"
  BY <1>1, <1>3 DEF IdleAsking, PlacesMid, PlacesEnd
<1>4. o \in {"Dx", "CompleteDx"} => IdleWhile(s) = WhileDown(s)
  BY DEF OrderOf, IdleWhile, WhileDown
<1>5. CASE o = "CompleteDx"
  BY <1>1, <1>4, <1>5 DEF IdleAsking, PlacesMid, PlacesEnd
<1>6. CASE o \in {"D0", "CompleteD0"}
  BY <1>1, <1>6 DEF IdleAsking, PlacesMid, PlacesEnd
<1>7. CASE o = "Dx"
  BY <1>1, <1>4, <1>7 DEF IdleAsking, PlacesMid, PlacesEnd
<1>8. o \in {"none", "ImplicitD0", "ImplicitD3", "Dx", "CompleteDx", "D0", "CompleteD0"}
  BY DEF OrderOf
<1>9. QED
  BY <1>1, <1>2, <1>3, <1>5, <1>6, <1>7, <1>8

(* Moves of it that the idle machine is not told of,                       *)
Onward(s, next) == IF next = Null THEN s ELSE next

PlacesOn(w, o, s, next) ==
  IF next = Null \/ next \in PowerNoEntry THEN PlacesEnd(w, o, Onward(s, next)) ELSE PlacesMid(w, o, next)

PowerMoveStays(s, next) ==
  IF s \in DZero THEN Onward(s, next) \in DZero
  ELSE /\ \A o \in CarriesOut(s), w \in {{"TimedOut"}, {"Disabled"}} :
            PlacesMid(w, o, s) \subseteq PlacesOn(w, o, s, next)
       /\ s \in Broken => next # Null

(* and that it is told of, as the event e                                  *)
PowerAfter(e, a) ==
  CASE e = "PowerUpComplete" -> "Disabled"
    [] e = "PowerUpFailed" -> IF a = "Started" THEN "StartedPowerFailed" ELSE "Disabled"
    [] e = "PowerDown" -> "InDx"
    [] e = "PowerDownFailed" -> "Disabled"

PowerHears(e, a) ==
  CASE e = "PowerUpComplete" -> a \in {"Started", "InDx"}
    [] e = "PowerUpFailed" -> a \in {"Started", "Disabled", "InDx"}
    [] e = "PowerDown" -> a \in {"Disabled", "TimedOut", "InDx"}
    [] e = "PowerDownFailed" -> a \in {"Disabled", "TimedOut"}

PowerMoveTurns(s, next, e) ==
  /\ s \notin DZero
  /\ \A o \in CarriesOut(s), w \in {{"TimedOut"}, {"Disabled"}} : \A a \in PlacesMid(w, o, s) :
       PowerHears(e, a) /\ PowerAfter(e, a) \in PlacesOn(w, o, s, next)
  /\ s \in Broken /\ next = Null => e \in {"PowerUpFailed", "PowerDownFailed"}
  /\ e = "PowerUpComplete" => CarriesOut(s) \subseteq {"ImplicitD0", "CompleteD0"}

(* An entry function it is not told of                                     *)
LEMMA PowerStaysKeepsLock ==
    ASSUME CountInv, StageInv, queue \in Queues, Lockstep, IdleLock, PowerQuiet,
           NEW s, NEW next, NEW posts, PowerEntry(s, next, posts), PowerMoveStays(s, next),
           UNCHANGED <<references, users, os>>, Posted(queue, queue', {}),
           s \in DZero => queue' = queue
    PROVE  IdleLock' /\ [Idle!IdleNext]_idle
<1>1. /\ Powering /\ at["power"] = s /\ PolicyStands /\ PnpStays
      /\ at'["power"] = Onward(s, next)
      /\ Powering' <=> (next # Null /\ next \notin PowerNoEntry)
  BY PowerSteps DEF Onward
<1>2. idle' = idle /\ waiter' = waiter /\ os' = os /\ users' = users
  BY DEF references
<1>3. Heeded({}) /\ Uses(idle, idle') /\ WaiterFollows
  BY <1>2, NothingHeeded DEF WaiterFollows
<1>4. Idle!IdleInv' /\ Sound'
  BY <1>2, SoundStep DEF IdleLock, Sound
<1>5. /\ IdleFits /\ TimerOff /\ PowerFailureKnown /\ ExpiryFits /\ ExpiryFirst
      /\ SleepFits /\ D0EventFits /\ GrantFits
  BY DEF IdleLock
<1>6. ExpiryFits' /\ ExpiryFirst' /\ SleepFits' /\ TimerOff'
  BY <1>1, <1>2, <1>3, <1>5, ExpiryFrame, ExpiryFirstFrame, SleepFrame, TimerOffFrame
<1>7. D0EventFits' /\ GrantFits'
  BY <1>1, <1>3, <1>4, <1>5, D0EventFrame, GrantFrame
<1>8. PowerFailureKnown'
  <2>1. SUFFICES ASSUME at'["power"] \in Broken, ~Powering'
                 PROVE  "PowerFailed" \in idle.flags
    BY <1>2 DEF PowerFailureKnown
  <2>2. next = Null /\ s \in Broken
    BY <1>1, <2>1 DEF Onward, Broken, PowerNoEntry
  <2>3. s \notin DZero
    BY <2>2 DEF Broken, DZero
  <2>4. QED
    BY <2>2, <2>3 DEF PowerMoveStays
<1>9. IdleFits'
  <2>1. CASE s \in DZero
    <3>1. Onward(s, next) \in DZero
      BY <2>1 DEF PowerMoveStays
    <3>2. IdlePlaces' = IdlePlaces
      <4>1. (Asks' <=> Asks) /\ at'["policy"] = at["policy"] /\ (PolicyEnters' <=> PolicyEnters)
        BY <1>1 DEF PolicyStands, Asks, PolicyEnters
      <4>2. CASE Asks
        <5>1. \A p \in DZero : \A e : IdleAsking(at["policy"], p, e, queue["power"] # <<>>)
                                  = IdleAsking(at["policy"], s, TRUE, queue["power"] # <<>>)
          <6>1. TAKE p \in DZero
          <6> TAKE e
          <6>2. /\ p \in DZero /\ s \in DZero
                /\ p \notin {"Dx", "ReportPowerDownFailed", "ReportPowerUpFailed"}
                /\ s \notin {"Dx", "ReportPowerDownFailed", "ReportPowerUpFailed"}
            BY <2>1 DEF DZero
          <6>3. QED
            BY <6>2 DEF IdleAsking
        <5>2. QED
          BY <1>1, <2>1, <3>1, <4>1, <4>2, <5>1 DEF IdlePlaces
      <4>3. CASE ~Asks
        BY <4>1, <4>3 DEF IdlePlaces
      <4>4. QED
        BY <4>2, <4>3
    <3>3. QED
      BY <1>2, <1>5, <3>2 DEF IdleFits
  <2>2. CASE s \notin DZero
    <3>1. PowerActs
      BY <1>1, <2>2, PowerIsActing
    <3>2. Asks /\ NoOrder /\ NoOrder' /\ OrderOf(at["policy"]) \in CarriesOut(s)
      BY <1>1, <3>1 DEF PowerActs, PowerQuiet
    <3>3. IdlePlaces = PlacesMid(WhileDown(at["policy"]), OrderOf(at["policy"]), s)
      BY <1>1, <3>2, AskingFits
    <3>4. IdlePlaces' = PlacesOn(WhileDown(at["policy"]), OrderOf(at["policy"]), s, next)
      BY <1>1, <3>2, AskingFitsAfter DEF PlacesOn, Onward
    <3>7. WhileDown(at["policy"]) \in {{"TimedOut"}, {"Disabled"}}
      BY DEF WhileDown
    <3>5. IdlePlaces \subseteq IdlePlaces'
      BY <2>2, <3>7, <3>2, <3>3, <3>4 DEF PowerMoveStays
    <3>6. QED
      BY <1>2, <1>5, <3>5 DEF IdleFits
  <2>3. QED
    BY <2>1, <2>2
<1>10. QED
  BY <1>2, <1>4, <1>6, <1>7, <1>8, <1>9 DEF IdleLock

(* One it is told of                                                       *)
LEMMA PowerHeardKeepsLock ==
    ASSUME CountInv, StageInv, queue \in Queues, Lockstep, IdleLock, PowerQuiet,
           NEW s, NEW next, NEW posts, PowerEntry(s, next, posts),
           NEW e \in {"PowerUpComplete", "PowerUpFailed", "PowerDown", "PowerDownFailed"},
           PowerMoveTurns(s, next, e), IdleBecomes(Hears(e)), UNCHANGED <<users, os>>,
           Posted(queue, queue', Hears(e).sent)
    PROVE  IdleLock' /\ [Idle!IdleNext]_idle
<1> DEFINE n == Hears(e)
           p == at["policy"]
           w == WhileDown(p)
           o == OrderOf(p)
<1>1. /\ Powering /\ at["power"] = s /\ PolicyStands /\ PnpStays
      /\ at'["power"] = Onward(s, next)
      /\ Powering' <=> (next # Null /\ next \notin PowerNoEntry)
  BY PowerSteps DEF Onward
<1>2. PowerActs
  BY <1>1, PowerIsActing DEF PowerMoveTurns
<1>3. Asks /\ NoOrder /\ NoOrder' /\ o \in CarriesOut(s)
  BY <1>1, <1>2 DEF PowerActs, PowerQuiet
<1>4. /\ IdleFits /\ TimerOff /\ PowerFailureKnown /\ ExpiryFits /\ ExpiryFirst
      /\ SleepFits /\ D0EventFits /\ GrantFits /\ Sound
  BY DEF IdleLock
<1>5. idle.state \in PlacesMid(w, o, s)
  BY <1>1, <1>3, <1>4, AskingFits DEF IdleFits
<1>6. w \in {{"TimedOut"}, {"Disabled"}}
  BY DEF WhileDown
<1>7. PowerHears(e, idle.state) /\ PowerAfter(e, idle.state) \in PlacesOn(w, o, s, next)
  BY <1>3, <1>5, <1>6 DEF PowerMoveTurns
<1>8. Idle!Legal(idle, e) /\ e \in UserEvents
  BY <1>7 DEF PowerHears, Idle!Legal, UserEvents
<1>9. /\ idle' = Idle!Settled(n)
      /\ waiter' = IF waiter = "waiting" /\ n.d0 THEN "released" ELSE waiter
  BY DEF IdleBecomes
<1> HIDE DEF n
<1>10. Turns(e, idle, n) /\ Heeds(n) /\ Expiry \notin n.sent /\ Idle!IdleNext
  BY <1>4, <1>8, <1>9, UserEventHeard DEF n
<1>11. n \in Idle!IdleMachine
  BY <1>10 DEF Heeds
<1>12. idle'.state = n.state /\ idle'.flags = n.flags /\ idle'.sent = {} /\ idle'.d0 = n.d0
  BY <1>9, <1>11, SettledIs
<1>13. /\ Heeded(n.sent) /\ WaiterFollows
       /\ "Sx" \notin n.sent /\ "S0" \notin n.sent /\ "S0IdlePolicyChanged" \notin n.sent
  BY <1>9, <1>10, <1>11, <1>12, HeedsHeeded DEF WaiterFollows, Idle!IdleMachine, Idle!Posts, n
<1>14. Idle!IdleInv' /\ Sound'
  BY <1>4, <1>10, <1>12, SoundStep DEF Sound
<1>15. idle.state = "InDx" => "TimerEnabled" \notin idle.flags \/ o = "CompleteDx" \/ o = "none"
  BY <1>4 DEF TimerOff, OrderOf
<1>16. idle.state \in {"Started", "Disabled"} => "TimerEnabled" \notin idle.flags
  BY <1>4 DEF Sound, Idle!IdleInv, Idle!IdleSound, Idle!FlagsFollow
<1>17. idle'.state = PowerAfter(e, idle.state)
  <2>1. CASE e = "PowerUpComplete"
    <3>1. o \in {"ImplicitD0", "CompleteD0"} /\ idle.state \in {"Started", "InDx"}
      BY <1>3, <1>7, <2>1 DEF PowerMoveTurns, PowerHears
    <3>2. "TimerEnabled" \notin idle.flags
      BY <1>15, <1>16, <3>1
    <3>3. QED
      BY <1>10, <1>12, <2>1, <3>2 DEF Turns, PowerAfter
  <2>2. CASE e = "PowerUpFailed"
    BY <1>10, <1>12, <2>2 DEF Turns, PowerAfter
  <2>3. CASE e = "PowerDown"
    BY <1>10, <1>12, <2>3 DEF Turns, PowerAfter
  <2>4. CASE e = "PowerDownFailed"
    BY <1>10, <1>12, <2>4 DEF Turns, PowerAfter
  <2>5. QED
    BY <2>1, <2>2, <2>3, <2>4
<1>18. /\ e = "PowerDown" => /\ "TimerEnabled" \in n.flags => "TimerEnabled" \in idle.flags
                             /\ "SendPnpPowerUpEvent" \in idle.flags => "SendPnpPowerUpEvent" \in n.flags
       /\ e \in {"PowerUpFailed", "PowerDownFailed"} => "PowerFailed" \in n.flags
  BY <1>10 DEF Turns
<1>19. idle'.state \in {"Disabled", "StartedPowerFailed", "InDx"}
       /\ (idle'.state = "InDx" <=> e = "PowerDown")
       /\ (idle'.state = "StartedPowerFailed" => idle.state = "Started")
  BY <1>17 DEF PowerAfter
<1>20. IdleFits'
  <2>1. IdlePlaces' = PlacesOn(w, o, s, next)
    BY <1>1, <1>3, AskingFitsAfter DEF PlacesOn, Onward
  <2>2. QED
    BY <1>7, <1>17, <2>1 DEF IdleFits
<1>21. TimerOff'
  <2>1. SUFFICES ASSUME idle'.state = "InDx", "TimerEnabled" \in idle'.flags
                 PROVE  p \in {"TimerExpiredNoWakeCompletePowerDown",
                               "TimerExpiredNoWakePoweredDownDisableIdleTimer"}
    BY <1>1 DEF TimerOff, PolicyStands
  <2>2. e = "PowerDown" /\ "TimerEnabled" \in idle.flags
    BY <1>12, <1>18, <1>19, <2>1
  <2>3. idle.state \in {"TimedOut", "InDx"}
    BY <1>7, <1>16, <2>2 DEF PowerHears
  <2>4. CASE idle.state = "InDx"
    BY <1>4, <2>2, <2>4 DEF TimerOff
  <2>5. CASE idle.state = "TimedOut"
    <3>1. w = {"TimedOut"} /\ o \in {"Dx", "CompleteDx"}
      <4>1. o \in {"none", "ImplicitD0", "ImplicitD3", "Dx", "CompleteDx", "D0", "CompleteD0"} /\ o # "none"
        BY <1>3 DEF OrderOf, Asks
      <4>2. QED
        BY <1>5, <1>6, <2>5, <4>1 DEF PlacesMid
    <3>2. p \in {"TimerExpiredNoWake", "TimerExpiredNoWakeCompletePowerDown"}
      BY <3>1 DEF WhileDown
    <3>3. p # "TimerExpiredNoWake"
      <4>1. PlacesOn(w, "Dx", s, next) = w
        BY DEF PlacesOn, PlacesEnd, PlacesMid
      <4>2. p = "TimerExpiredNoWake" => o = "Dx"
        BY DEF OrderOf
      <4>3. QED
        BY <1>7, <1>17, <2>1, <3>1, <4>1, <4>2
    <3>4. QED
      BY <3>2, <3>3
  <2>6. QED
    BY <2>3, <2>4, <2>5
<1>22. PowerFailureKnown'
  <2>1. SUFFICES ASSUME at'["power"] \in Broken, ~Powering'
                 PROVE  "PowerFailed" \in idle'.flags
    BY DEF PowerFailureKnown
  <2>2. next = Null /\ s \in Broken
    BY <1>1, <2>1 DEF Onward, Broken, PowerNoEntry
  <2>3. e \in {"PowerUpFailed", "PowerDownFailed"}
    BY <2>2 DEF PowerMoveTurns
  <2>4. QED
    BY <1>12, <1>18, <2>3
<1>23. ExpiryFits'
  <2>1. /\ Lone(queue'["policy"], {Expiry})
        /\ In(queue'["policy"], Expiry) => In(queue["policy"], Expiry)
    BY <1>4, <1>10, <1>13 DEF Heeded, Posted, Kept, Watched, ExpiryFits
  <2>2. ASSUME In(queue'["policy"], Expiry)
        PROVE  idle'.state \in {"Disabled", "InDx", "Stopped"} /\ p \in ExpiryStale
    <3>1. ~ExpiryNew
      BY <1>3 DEF ExpiryNew, CancelsIt, Asks, OrderOf
    <3>2. idle.state \in {"Disabled", "InDx", "Stopped"} /\ p \in ExpiryStale
      BY <1>4, <2>1, <2>2, <3>1 DEF ExpiryFits
    <3>3. QED
      BY <1>19, <3>2
  <2>3. at'["policy"] = p
    BY <1>1 DEF PolicyStands
  <2>4. idle'.state # "TimedOut"
    BY <1>19
  <2>5. QED
    BY <2>1, <2>2, <2>3, <2>4 DEF ExpiryFits
<1>24. ExpiryFirst' /\ SleepFits' /\ D0EventFits'
  BY <1>1, <1>4, <1>10, <1>13, ExpiryFirstFrame, SleepFrame, D0EventFrame
<1>25. GrantFits'
  <2>1. SUFFICES ASSUME Out', "PowerFailed" \notin idle'.flags
                 PROVE  /\ waiter' \notin {"released", "held"}
                        /\ at'["pnp"] \notin Pending
                        /\ ~In(queue'["pnp"], InD0Event)
    BY DEF GrantFits, Out
  <2>2. p \in IdlingOut /\ Out /\ "PowerFailed" \notin idle.flags
    BY <1>1, <1>13, <1>19, <2>1 DEF Out, PolicyStands, Heeded
  <2>3. o \in {"none", "Dx", "CompleteDx"}
    BY <2>2 DEF IdlingOut, OrderOf
  <2>4. e = "PowerDown"
    BY <1>3, <1>12, <1>18, <2>1, <2>3 DEF PowerMoveTurns, Asks
  <2>5. ~idle'.d0
    BY <1>14, <1>19, <2>4 DEF Idle!IdleInv, Idle!IdleSound, Idle!D0EventMeans
  <2>6. InD0Event \notin n.sent
    BY <1>10, <1>18, <2>4 DEF Heeds
  <2>7. In(queue'["pnp"], InD0Event) => In(queue["pnp"], InD0Event)
    BY <1>13, <2>6 DEF Heeded, Posted, Kept
  <2>8. QED
    BY <1>1, <1>4, <1>13, <2>2, <2>5, <2>7 DEF GrantFits, Out, WaiterFollows, PnpStays
<1>26. QED
  BY <1>10, <1>14, <1>20, <1>21, <1>22, <1>23, <1>24, <1>25 DEF IdleLock

(* An order it takes                                                       *)
LEMMA PowerEventKeepsLock ==
    ASSUME CountInv, queue \in Queues, Lockstep, IdleLock, PowerProcessEventInner
    PROVE  IdleLock' /\ idle' = idle
<1> DEFINE p == at["policy"]
           o == OrderOf(p)
<1>1. /\ ~Powering /\ OrderQueued /\ Powering'
      /\ queue' \in Queues /\ queue["power"] # <<>> /\ queue'["power"] = <<>>
      /\ queue'["policy"] = queue["policy"] /\ queue'["pnp"] = queue["pnp"]
      /\ PolicyStands /\ PnpStays
      /\ \E r \in PowerRows : r[1] = at["power"] /\ r[2] = o /\ at'["power"] = r[3]
  BY PowerTakes
<1>2. idle' = idle /\ waiter' = waiter /\ os' = os /\ users' = users
  BY DEF PowerProcessEventInner, references, environment
<1>3. Posted(queue, queue', {})
  BY <1>1, KeptStays DEF Posted
<1>4. Heeded({}) /\ Uses(idle, idle') /\ WaiterFollows
  BY <1>2, <1>3, NothingHeeded DEF WaiterFollows
<1>5. Idle!IdleInv' /\ Sound'
  BY <1>2, SoundStep DEF IdleLock, Sound
<1>6. /\ IdleFits /\ TimerOff /\ PowerFailureKnown /\ ExpiryFits /\ ExpiryFirst
      /\ SleepFits /\ D0EventFits /\ GrantFits
  BY DEF IdleLock
<1>7. ExpiryFits' /\ ExpiryFirst' /\ SleepFits' /\ TimerOff'
  BY <1>1, <1>2, <1>4, <1>6, ExpiryFrame, ExpiryFirstFrame, SleepFrame, TimerOffFrame
<1>8. D0EventFits' /\ GrantFits'
  BY <1>1, <1>4, <1>5, <1>6, D0EventFrame, GrantFrame
<1>9. PowerFailureKnown'
  BY <1>1 DEF PowerFailureKnown
<1>10. PICK r \in PowerRows : r[1] = at["power"] /\ r[2] = o /\ at'["power"] = r[3]
  BY <1>1
<1>11. Asks /\ o # "none" /\ at["power"] \in RestsAt(p)
  BY <1>1 DEF OrderQueued, Asks
<1>12. IdlePlaces' = PlacesMid(WhileDown(p), o, r[3])
  <2>1. NoOrder'
    BY <1>1 DEF NoOrder
  <2>2. QED
    BY <1>1, <1>10, <1>11, <2>1, AskingFitsAfter
<1>13. IdlePlaces = IdleAsking(p, r[1], FALSE, TRUE)
  <2>1. IdlePlaces = IdleAsking(p, r[1], Powering, queue["power"] # <<>>)
    BY <1>10, <1>11 DEF IdlePlaces
  <2>2. ~Powering /\ queue["power"] # <<>>
    BY <1>1
  <2>3. QED
    BY <2>1, <2>2 DEF IdleAsking
<1>14. r[3] \notin DZero \cup Broken \cup {"Dx"}
  BY PowerRowOrders
<1>15. IdleAsking(p, r[1], FALSE, TRUE) \subseteq PlacesMid(WhileDown(p), o, r[3])
  <2>1. CASE o = "ImplicitD0"
    BY <1>14, <2>1 DEF IdleAsking, PlacesMid
  <2>2. CASE o = "ImplicitD3"
    BY <1>14, <2>2 DEF IdleAsking, PlacesMid
  <2>3. o \in {"Dx", "CompleteDx"} => IdleWhile(p) = WhileDown(p)
    BY DEF OrderOf, IdleWhile, WhileDown
  <2>4. CASE o = "CompleteDx"
    <3>1. r[1] = "GotoDx"
      BY <1>10, <2>4 DEF PowerRows
    <3>2. QED
      BY <1>14, <2>3, <2>4, <3>1 DEF IdleAsking, PlacesMid
  <2>5. CASE o \in {"D0", "CompleteD0"}
    <3>1. r[1] \in {"Dx", "WakingPostHardwareEnabled"}
      BY <1>10, <2>5 DEF PowerRows
    <3>2. QED
      BY <1>14, <2>5, <3>1 DEF IdleAsking, PlacesMid, DZero
  <2>6. CASE o = "Dx"
    BY <2>3, <2>6 DEF IdleAsking, PlacesMid
  <2>7. o \in {"none", "ImplicitD0", "ImplicitD3", "Dx", "CompleteDx", "D0", "CompleteD0"}
    BY DEF OrderOf
  <2>8. QED
    BY <1>11, <2>1, <2>2, <2>4, <2>5, <2>6, <2>7
<1>16. IdleFits'
  BY <1>2, <1>6, <1>12, <1>13, <1>15 DEF IdleFits
<1>17. QED
  BY <1>2, <1>5, <1>7, <1>8, <1>9, <1>16 DEF IdleLock

(* One that posts nothing, or an answer                                    *)
LEMMA PowerPlainKeepsLock ==
    ASSUME CountInv, StageInv, queue \in Queues, Lockstep, IdleLock, PowerQuiet,
           NEW s, NEW next, NEW posts, PowerEntry(s, next, posts), PowerMoveStays(s, next),
           UNCHANGED <<references, environment>>,
           posts = <<>> \/ (s \notin DZero /\ \E a \in Unwatched : posts = ToPolicy(a))
    PROVE  IdleLock' /\ [Idle!IdleNext]_idle
<1>1. queue' = PostAll(queue, posts)
  BY PowerSteps
<1>2. CASE posts = <<>>
  BY <1>1, <1>2, Plain, PostNone, PostedStays, PowerStaysKeepsLock DEF environment
<1>3. CASE posts # <<>>
  <2>1. PICK a \in Unwatched : posts = ToPolicy(a)
    BY <1>3
  <2>2. Posted(queue, queue', {})
    BY <1>1, <2>1, PostsPosted DEF Unwatched
  <2>3. QED
    BY <1>3, <2>2, PowerStaysKeepsLock DEF environment
<1>4. QED
  BY <1>2, <1>3

LEMMA PowerToldKeepsLock ==
    ASSUME CountInv, StageInv, queue \in Queues, Lockstep, IdleLock, PowerQuiet,
           NEW e \in {"PowerUpComplete", "PowerUpFailed", "PowerDown", "PowerDownFailed"},
           NEW s, NEW next, NEW posts, PowerEntry(s, next, posts),
           PowerMoveTurns(s, next, e), IdleBecomes(Hears(e)), UNCHANGED environment,
           \/ posts = IdlePosts(Hears(e))
           \/ posts = IdlePosts(Hears(e)) \o <<>>
           \/ \E a \in Unwatched : posts = IdlePosts(Hears(e)) \o <<<<"policy", a>>>>
           \/ \E a, b \in Unwatched : posts = IdlePosts(Hears(e)) \o <<<<"policy", a>>, <<"pnp", b>>>>
    PROVE  IdleLock' /\ [Idle!IdleNext]_idle
<1> DEFINE m == Hears(e)
<1>1. queue' = PostAll(queue, posts) /\ "IoPresent" \in Unwatched
  BY PowerSteps, Plain
<1>2. Posted(queue, queue', m.sent)
  <2> HIDE DEF m
  <2>1. CASE posts \in {IdlePosts(m), IdlePosts(m) \o <<>>}
    BY <1>1, <2>1, PostsPosted DEF Unwatched
  <2>2. ASSUME NEW a \in Unwatched, posts = IdlePosts(m) \o <<<<"policy", a>>>>
        PROVE  Posted(queue, queue', m.sent)
    BY <1>1, <2>2, PostsPosted DEF Unwatched, ToPolicy
  <2>3. ASSUME NEW a \in Unwatched, NEW b \in Unwatched,
               posts = IdlePosts(m) \o <<<<"policy", a>>, <<"pnp", b>>>>
        PROVE  Posted(queue, queue', m.sent)
    BY <1>1, <2>3, PostsPosted DEF Unwatched
  <2>4. QED
    BY <2>1, <2>2, <2>3 DEF m
<1>3. QED
  BY <1>2, PowerHeardKeepsLock DEF environment, m

(* Kinds of entry functions                                                *)
LEMMA PowerPassesKeepsLock ==
    ASSUME CountInv, StageInv, queue \in Queues, Lockstep, IdleLock, PowerQuiet,
           NEW s, NEW next,
           PowerPasses(s, next),
           PowerMoveStays(s, next)
    PROVE  IdleLock' /\ [Idle!IdleNext]_idle
BY PowerPlainKeepsLock DEF PowerPasses, Elsewhere, references, environment

LEMMA CallD0EntryKeepsLock ==
    ASSUME CountInv, StageInv, queue \in Queues, Lockstep, IdleLock, PowerQuiet,
           NEW s, NEW ok, NEW undo, NEW failed,
           CallD0Entry(s, ok, undo, failed),
           PowerMoveStays(s, ok), PowerMoveStays(s, undo), PowerMoveStays(s, failed)
    PROVE  IdleLock' /\ [Idle!IdleNext]_idle
<1>1. UNCHANGED <<references, environment>>
  BY DEF CallD0Entry, Elsewhere
<1>2. \E next : PowerEntry(s, next, <<>>) /\ PowerMoveStays(s, next)
  BY DEF CallD0Entry
<1>3. QED
  BY <1>1, <1>2, PowerPlainKeepsLock

LEMMA ConnectInterruptKeepsLock ==
    ASSUME CountInv, StageInv, queue \in Queues, Lockstep, IdleLock, PowerQuiet,
           NEW s, NEW ok, NEW failed,
           ConnectInterrupt(s, ok, failed),
           PowerMoveStays(s, ok), PowerMoveStays(s, failed)
    PROVE  IdleLock' /\ [Idle!IdleNext]_idle
<1>1. UNCHANGED <<references, environment>>
  BY DEF ConnectInterrupt, Elsewhere
<1>2. \E next : PowerEntry(s, next, <<>>) /\ PowerMoveStays(s, next)
  BY DEF ConnectInterrupt
<1>3. QED
  BY <1>1, <1>2, PowerPlainKeepsLock

LEMMA DmaEnableKeepsLock ==
    ASSUME CountInv, StageInv, queue \in Queues, Lockstep, IdleLock, PowerQuiet,
           NEW s, NEW ok, NEW failed,
           DmaEnable(s, ok, failed),
           PowerMoveStays(s, ok), PowerMoveStays(s, failed)
    PROVE  IdleLock' /\ [Idle!IdleNext]_idle
<1>1. UNCHANGED <<references, environment>>
  BY DEF DmaEnable, Elsewhere
<1>2. \E next : PowerEntry(s, next, <<>>) /\ PowerMoveStays(s, next)
  BY DEF DmaEnable
<1>3. QED
  BY <1>1, <1>2, PowerPlainKeepsLock

LEMMA PostHardwareEnabledKeepsLock ==
    ASSUME CountInv, StageInv, queue \in Queues, Lockstep, IdleLock, PowerQuiet,
           NEW s, NEW ok, NEW undo, NEW failed, NEW posts,
           PostHardwareEnabled(s, ok, undo, failed, posts),
           posts = <<>> \/ (s \notin DZero /\ \E a \in Unwatched : posts = ToPolicy(a)),
           PowerMoveStays(s, ok), PowerMoveStays(s, undo), PowerMoveStays(s, failed)
    PROVE  IdleLock' /\ [Idle!IdleNext]_idle
<1>1. UNCHANGED <<references, environment>>
  BY DEF PostHardwareEnabled, Elsewhere
<1>2. CASE PowerEntry(s, ok, posts)
  BY <1>1, <1>2, PowerPlainKeepsLock
<1>3. CASE \E next : PowerEntry(s, next, <<>>) /\ PowerMoveStays(s, next)
  BY <1>1, <1>3, PowerPlainKeepsLock
<1>4. QED
  BY <1>2, <1>3 DEF PostHardwareEnabled

LEMMA StartIoKeepsLock ==
    ASSUME CountInv, StageInv, queue \in Queues, Lockstep, IdleLock, PowerQuiet,
           NEW s, NEW ok, NEW undo, NEW failed, NEW released,
           StartIo(s, ok, undo, failed, released),
           PowerMoveTurns(s, ok, "PowerUpComplete"), PowerMoveStays(s, undo), PowerMoveStays(s, failed)
    PROVE  IdleLock' /\ [Idle!IdleNext]_idle
<1>1. UNCHANGED environment
  BY DEF StartIo
<1>2. CASE PowerSendPowerUpEvents(s, ok)
  <2>1. Idle!ProcessPowerEvent(idle, "PowerUpComplete") = Hears("PowerUpComplete")
    BY DEF Idle!ProcessPowerEvent, Hears
  <2>2. /\ PowerEntry(s, ok, IdlePosts(Hears("PowerUpComplete")) \o <<<<"policy", "PowerUp">>>>)
        /\ IdleBecomes(Hears("PowerUpComplete"))
    BY <1>2, <2>1 DEF PowerSendPowerUpEvents
  <2>3. "PowerUp" \in Unwatched
    BY Plain
  <2>4. QED
    BY <1>1, <2>2, <2>3, PowerToldKeepsLock
<1>3. CASE \E next \in {undo, failed} : PowerEntry(s, next, <<>>) /\ UNCHANGED references
  BY <1>1, <1>3, PowerPlainKeepsLock
<1>4. QED
  BY <1>2, <1>3 DEF StartIo

LEMMA PowerUndoesKeepsLock ==
    ASSUME CountInv, StageInv, queue \in Queues, Lockstep, IdleLock, PowerQuiet,
           NEW s, NEW stages, NEW next,
           PowerUndoes(s, stages, next),
           PowerMoveStays(s, next)
    PROVE  IdleLock' /\ [Idle!IdleNext]_idle
BY PowerPlainKeepsLock DEF PowerUndoes, Elsewhere, references, environment

LEMMA SuspendsIgnoredKeepsLock ==
    ASSUME CountInv, StageInv, queue \in Queues, Lockstep, IdleLock, PowerQuiet,
           NEW s, NEW next,
           SuspendsIgnored(s, next),
           PowerMoveStays(s, next)
    PROVE  IdleLock' /\ [Idle!IdleNext]_idle
BY PowerPlainKeepsLock DEF SuspendsIgnored, Elsewhere, references, environment

LEMMA PowerUpFailureKeepsLock ==
    ASSUME CountInv, StageInv, queue \in Queues, Lockstep, IdleLock, PowerQuiet,
           NEW s, NEW next,
           PowerSendPowerUpFailureEvent(s, next),
           PowerMoveTurns(s, next, "PowerUpFailed")
    PROVE  IdleLock' /\ [Idle!IdleNext]_idle
<1>1. Idle!ProcessPowerEvent(idle, "PowerUpFailed") = Hears("PowerUpFailed")
  BY DEF Idle!ProcessPowerEvent, Hears
<1>2. /\ PowerEntry(s, next, IdlePosts(Hears("PowerUpFailed")) \o <<<<"policy", "PowerUpFailed">>,
                                                              <<"pnp", "PowerUpFailed">>>>)
      /\ IdleBecomes(Hears("PowerUpFailed")) /\ UNCHANGED environment
  BY <1>1 DEF PowerSendPowerUpFailureEvent
<1>3. "PowerUpFailed" \in Unwatched
  BY Plain
<1>4. QED
  BY <1>2, <1>3, PowerToldKeepsLock

LEMMA PowerDownKeepsLock ==
    ASSUME CountInv, StageInv, queue \in Queues, Lockstep, IdleLock, PowerQuiet,
           NEW s, NEW next, NEW posts,
           PowerSendPowerDownEvents(s, next, posts), UNCHANGED environment,
           posts \in {<<>>, <<<<"policy", "PowerDown">>>>},
           PowerMoveTurns(s, next, "PowerDown")
    PROVE  IdleLock' /\ [Idle!IdleNext]_idle
<1>1. Idle!ProcessPowerEvent(idle, "PowerDown") = Hears("PowerDown")
  BY DEF Idle!ProcessPowerEvent, Hears
<1>2. /\ PowerEntry(s, next, IdlePosts(Hears("PowerDown")) \o posts)
      /\ IdleBecomes(Hears("PowerDown"))
  BY <1>1 DEF PowerSendPowerDownEvents
<1>3. "PowerDown" \in Unwatched
  BY Plain
<1>4. CASE posts = <<>>
  BY <1>2, <1>4, PowerToldKeepsLock
<1>5. CASE posts = <<<<"policy", "PowerDown">>>>
  BY <1>2, <1>3, <1>5, PowerToldKeepsLock
<1>6. QED
  BY <1>4, <1>5

(* Most moves of it change nothing for the idle machine                    *)
Rung(s, next) ==
  s \notin DZero \cup {"Dx"} /\ next \notin DZero \cup PowerNoEntry \cup {Null}

LEMMA RungStays ==
    ASSUME NEW s, NEW next, Rung(s, next)
    PROVE  PowerMoveStays(s, next)
<1>1. next \notin DZero /\ next # "Dx" /\ next # Null /\ next \notin PowerNoEntry /\ s \notin DZero /\ s # "Dx"
  BY DEF Rung, PowerNoEntry
<1>2. \A o, w : PlacesMid(w, o, s) = PlacesMid(w, o, next)
  BY <1>1 DEF PlacesMid
<1>3. \A o, w : PlacesOn(w, o, s, next) = PlacesMid(w, o, next)
  BY <1>1 DEF PlacesOn
<1>4. QED
  BY <1>1, <1>2, <1>3 DEF PowerMoveStays

(* and the moves that end a way                                            *)
LEMMA EndsStay ==
    /\ PowerMoveStays("DecideD0State", "D0")
    /\ PowerMoveStays("D0", Null)
    /\ PowerMoveStays("FinalPowerDownFailed", "Stopped")
    /\ PowerMoveStays("WakingPostHardwareEnabled", Null)
    /\ PowerMoveStays("GotoDx", Null)
<1>1. PowerMoveStays("DecideD0State", "D0")
  BY DEF PowerMoveStays, CarriesOut, PlacesOn, PlacesMid, PlacesEnd, Onward, DZero, Broken, PowerNoEntry, Null
<1>2. PowerMoveStays("D0", Null)
  BY DEF PowerMoveStays, CarriesOut, PlacesOn, PlacesMid, PlacesEnd, Onward, DZero, Broken, PowerNoEntry, Null
<1>3. PowerMoveStays("FinalPowerDownFailed", "Stopped")
  BY DEF PowerMoveStays, CarriesOut, PlacesOn, PlacesMid, PlacesEnd, Onward, DZero, Broken, PowerNoEntry, Null
<1>4. PowerMoveStays("WakingPostHardwareEnabled", Null)
  BY DEF PowerMoveStays, CarriesOut, PlacesOn, PlacesMid, PlacesEnd, Onward, DZero, Broken, PowerNoEntry, Null
<1>5. PowerMoveStays("GotoDx", Null)
  BY DEF PowerMoveStays, CarriesOut, PlacesOn, PlacesMid, PlacesEnd, Onward, DZero, Broken, PowerNoEntry, Null
<1>6. QED
  BY <1>1, <1>2, <1>3, <1>4, <1>5

LEMMA EndsTurn ==
    /\ PowerMoveTurns("D0StartingStartSelfManagedIo", "DecideD0State", "PowerUpComplete")
    /\ PowerMoveTurns("StartSelfManagedIo", "D0", "PowerUpComplete")
    /\ PowerMoveTurns("InitialPowerUpFailed", "Stopped", "PowerUpFailed")
    /\ PowerMoveTurns("ReportPowerUpFailed", Null, "PowerUpFailed")
    /\ PowerMoveTurns("GotoD3Stopped", "Stopped", "PowerDown")
    /\ PowerMoveTurns("GotoDxIoStopped", "Dx", "PowerDown")
    /\ PowerMoveTurns("ReportPowerDownFailed", Null, "PowerDownFailed")
    /\ PowerMoveTurns("PowerFailedPowerDown", "Stopped", "PowerDown")
    /\ PowerMoveTurns("GotoDxStopped", "Stopped", "PowerDown")
<1>1. PowerMoveTurns("D0StartingStartSelfManagedIo", "DecideD0State", "PowerUpComplete")
  BY DEF PowerMoveTurns, PowerHears, PowerAfter, CarriesOut, PlacesOn, PlacesMid, PlacesEnd, Onward, DZero, Broken, PowerNoEntry, Null
<1>2. PowerMoveTurns("StartSelfManagedIo", "D0", "PowerUpComplete")
  BY DEF PowerMoveTurns, PowerHears, PowerAfter, CarriesOut, PlacesOn, PlacesMid, PlacesEnd, Onward, DZero, Broken, PowerNoEntry, Null
<1>3. PowerMoveTurns("InitialPowerUpFailed", "Stopped", "PowerUpFailed")
  BY DEF PowerMoveTurns, PowerHears, PowerAfter, CarriesOut, PlacesOn, PlacesMid, PlacesEnd, Onward, DZero, Broken, PowerNoEntry, Null
<1>4. PowerMoveTurns("ReportPowerUpFailed", Null, "PowerUpFailed")
  BY DEF PowerMoveTurns, PowerHears, PowerAfter, CarriesOut, PlacesOn, PlacesMid, PlacesEnd, Onward, DZero, Broken, PowerNoEntry, Null
<1>5. PowerMoveTurns("GotoD3Stopped", "Stopped", "PowerDown")
  BY DEF PowerMoveTurns, PowerHears, PowerAfter, CarriesOut, PlacesOn, PlacesMid, PlacesEnd, Onward, DZero, Broken, PowerNoEntry, Null
<1>6. PowerMoveTurns("GotoDxIoStopped", "Dx", "PowerDown")
  BY DEF PowerMoveTurns, PowerHears, PowerAfter, CarriesOut, PlacesOn, PlacesMid, PlacesEnd, Onward, DZero, Broken, PowerNoEntry, Null
<1>7. PowerMoveTurns("ReportPowerDownFailed", Null, "PowerDownFailed")
  BY DEF PowerMoveTurns, PowerHears, PowerAfter, CarriesOut, PlacesOn, PlacesMid, PlacesEnd, Onward, DZero, Broken, PowerNoEntry, Null
<1>8. PowerMoveTurns("PowerFailedPowerDown", "Stopped", "PowerDown")
  BY DEF PowerMoveTurns, PowerHears, PowerAfter, CarriesOut, PlacesOn, PlacesMid, PlacesEnd, Onward, DZero, Broken, PowerNoEntry, Null
<1>9. PowerMoveTurns("GotoDxStopped", "Stopped", "PowerDown")
  BY DEF PowerMoveTurns, PowerHears, PowerAfter, CarriesOut, PlacesOn, PlacesMid, PlacesEnd, Onward, DZero, Broken, PowerNoEntry, Null
<1>10. QED
  BY <1>1, <1>2, <1>3, <1>4, <1>5, <1>6, <1>7, <1>8, <1>9

(* The entry functions of a kind of their own                               *)
LEMMA PowerGotoD3StoppedKeepsLock ==
    ASSUME CountInv, StageInv, queue \in Queues, Lockstep, IdleLock, PowerQuiet,
           PowerGotoD3Stopped
    PROVE  IdleLock' /\ [Idle!IdleNext]_idle
<1>1. UNCHANGED environment
  BY DEF PowerGotoD3Stopped
<1>2. CASE PowerEntry("GotoD3Stopped", "FinalPowerDownFailed", <<>>) /\ UNCHANGED references
  <2>1. PowerMoveStays("GotoD3Stopped", "FinalPowerDownFailed")
    BY RungStays DEF Rung, DZero, PowerNoEntry, Null
  <2>2. QED
    BY <1>1, <1>2, <2>1, PowerPlainKeepsLock
<1>3. CASE ImplicitPowerDown("GotoD3Stopped", "Stopped")
  <2>1. PowerSendPowerDownEvents("GotoD3Stopped", "Stopped", <<<<"policy", "PowerDown">>>>)
    BY <1>3 DEF ImplicitPowerDown
  <2>2. QED
    BY <1>1, <2>1, EndsTurn, PowerDownKeepsLock
<1>4. QED
  BY <1>2, <1>3 DEF PowerGotoD3Stopped

LEMMA PowerFinalPowerDownFailedKeepsLock ==
    ASSUME CountInv, StageInv, queue \in Queues, Lockstep, IdleLock, PowerQuiet,
           PowerFinalPowerDownFailed
    PROVE  IdleLock' /\ [Idle!IdleNext]_idle
<1>1. "PowerDownFailed" \in Unwatched /\ "FinalPowerDownFailed" \notin DZero
  BY Plain DEF DZero
<1>2. PowerEntry("FinalPowerDownFailed", "Stopped", ToPolicy("PowerDownFailed"))
  BY DEF PowerFinalPowerDownFailed, ToPolicy
<1>3. UNCHANGED <<references, environment>>
  BY DEF PowerFinalPowerDownFailed, Elsewhere
<1>4. QED
  BY <1>1, <1>2, <1>3, EndsStay, PowerPlainKeepsLock

LEMMA PowerGotoDNotZeroKeepsLock ==
    ASSUME CountInv, StageInv, queue \in Queues, Lockstep, IdleLock, PowerQuiet,
           PowerGotoDNotZero
    PROVE  IdleLock' /\ [Idle!IdleNext]_idle
<1>1. "PowerDownIoStopped" \in Unwatched /\ "GotoDx" \notin DZero
  BY Plain DEF DZero
<1>2. PowerEntry("GotoDx", Null, ToPolicy("PowerDownIoStopped"))
  BY DEF PowerGotoDNotZero, ToPolicy
<1>3. UNCHANGED <<references, environment>>
  BY DEF PowerGotoDNotZero, Elsewhere
<1>4. QED
  BY <1>1, <1>2, <1>3, EndsStay, PowerPlainKeepsLock

LEMMA PowerGotoDNotZeroIoStoppedKeepsLock ==
    ASSUME CountInv, StageInv, queue \in Queues, Lockstep, IdleLock, PowerQuiet,
           PowerGotoDNotZeroIoStopped
    PROVE  IdleLock' /\ [Idle!IdleNext]_idle
<1>1. UNCHANGED environment
  BY DEF PowerGotoDNotZeroIoStopped
<1>2. CASE PowerEntry("GotoDxIoStopped", "GotoDxFailed", <<>>) /\ UNCHANGED references
  <2>1. PowerMoveStays("GotoDxIoStopped", "GotoDxFailed")
    BY RungStays DEF Rung, DZero, PowerNoEntry, Null
  <2>2. QED
    BY <1>1, <1>2, <2>1, PowerPlainKeepsLock
<1>3. CASE PowerSendPowerDownEvents("GotoDxIoStopped", "Dx", <<>>)
  BY <1>1, <1>3, EndsTurn, PowerDownKeepsLock
<1>4. QED
  BY <1>2, <1>3 DEF PowerGotoDNotZeroIoStopped

LEMMA PowerReportPowerDownFailedKeepsLock ==
    ASSUME CountInv, StageInv, queue \in Queues, Lockstep, IdleLock, PowerQuiet,
           PowerReportPowerDownFailed
    PROVE  IdleLock' /\ [Idle!IdleNext]_idle
<1>1. Idle!ProcessPowerEvent(idle, "PowerDownFailed") = Hears("PowerDownFailed")
  BY DEF Idle!ProcessPowerEvent, Hears
<1>2. /\ PowerEntry("ReportPowerDownFailed", Null, IdlePosts(Hears("PowerDownFailed")))
      /\ IdleBecomes(Hears("PowerDownFailed")) /\ UNCHANGED environment
  BY <1>1 DEF PowerReportPowerDownFailed
<1>3. QED
  BY <1>2, EndsTurn, PowerToldKeepsLock

LEMMA PowerPowerFailedPowerDownKeepsLock ==
    ASSUME CountInv, StageInv, queue \in Queues, Lockstep, IdleLock, PowerQuiet,
           PowerPowerFailedPowerDown
    PROVE  IdleLock' /\ [Idle!IdleNext]_idle
<1>1. /\ PowerSendPowerDownEvents("PowerFailedPowerDown", "Stopped", <<<<"policy", "PowerDown">>>>)
      /\ UNCHANGED environment
  BY DEF PowerPowerFailedPowerDown, ImplicitPowerDown, PowerDownWasDone
<1>2. QED
  BY <1>1, EndsTurn, PowerDownKeepsLock

LEMMA PowerGotoDxStoppedKeepsLock ==
    ASSUME CountInv, StageInv, queue \in Queues, Lockstep, IdleLock, PowerQuiet,
           PowerGotoDxStopped
    PROVE  IdleLock' /\ [Idle!IdleNext]_idle
<1>1. /\ PowerSendPowerDownEvents("GotoDxStopped", "Stopped", <<<<"policy", "PowerDown">>>>)
      /\ UNCHANGED environment
  BY DEF PowerGotoDxStopped, ImplicitPowerDown, PowerDownWasDone
<1>2. QED
  BY <1>1, EndsTurn, PowerDownKeepsLock

(* Every entry function                                                    *)
LEMMA PowerEntersKeepsLock ==
    ASSUME CountInv, StageInv, queue \in Queues, Lockstep, IdleLock, PowerQuiet,
           PowerEntersState
    PROVE  IdleLock' /\ [Idle!IdleNext]_idle
<1>1. CASE PowerStartingCheckDeviceType
  BY <1>1, PowerPassesKeepsLock, RungStays
     DEF PowerStartingCheckDeviceType, Rung, DZero, PowerNoEntry, Null
<1>2. CASE PowerCheckDeviceType
  BY <1>2, PowerPassesKeepsLock, RungStays
     DEF PowerCheckDeviceType, Rung, DZero, PowerNoEntry, Null
<1>3. CASE PowerD0Starting
  BY <1>3, CallD0EntryKeepsLock, RungStays
     DEF PowerD0Starting, Rung, DZero, PowerNoEntry, Null
<1>4. CASE PowerWaking
  BY <1>4, CallD0EntryKeepsLock, RungStays
     DEF PowerWaking, Rung, DZero, PowerNoEntry, Null
<1>5. CASE PowerNotifyingD0EntryToWakeInterrupts
  BY <1>5, PowerPassesKeepsLock, RungStays
     DEF PowerNotifyingD0EntryToWakeInterrupts, Rung, DZero, PowerNoEntry, Null
<1>6. CASE PowerD0StartingConnectInterrupt
  BY <1>6, ConnectInterruptKeepsLock, RungStays
     DEF PowerD0StartingConnectInterrupt, Rung, DZero, PowerNoEntry, Null
<1>7. CASE PowerWakingConnectInterrupt
  BY <1>7, ConnectInterruptKeepsLock, RungStays
     DEF PowerWakingConnectInterrupt, Rung, DZero, PowerNoEntry, Null
<1>8. CASE PowerD0StartingDmaEnable
  BY <1>8, DmaEnableKeepsLock, RungStays
     DEF PowerD0StartingDmaEnable, Rung, DZero, PowerNoEntry, Null
<1>9. CASE PowerWakingDmaEnable
  BY <1>9, DmaEnableKeepsLock, RungStays
     DEF PowerWakingDmaEnable, Rung, DZero, PowerNoEntry, Null
<1>10. CASE PowerD0StartingPostHardwareEnabled
  BY <1>10, PostHardwareEnabledKeepsLock, RungStays
     DEF PowerD0StartingPostHardwareEnabled, Rung, DZero, PowerNoEntry, Null
<1>11. CASE PowerWakingPostHardwareEnabled
  <2>1. "PowerUpHwStarted" \in Unwatched /\ "WakingPostHardwareEnabled" \notin DZero
    BY Plain DEF DZero
  <2>2. <<<<"policy", "PowerUpHwStarted">>>> = ToPolicy("PowerUpHwStarted")
    BY DEF ToPolicy
  <2>3. QED
    BY <1>11, <2>1, <2>2, PostHardwareEnabledKeepsLock, RungStays, EndsStay
       DEF PowerWakingPostHardwareEnabled, Rung, DZero, PowerNoEntry, Null
<1>12. CASE PowerD0StartingStartSelfManagedIo
  BY <1>12, StartIoKeepsLock, RungStays, EndsTurn
     DEF PowerD0StartingStartSelfManagedIo, Rung, DZero, PowerNoEntry, Null
<1>13. CASE PowerStartSelfManagedIo
  BY <1>13, StartIoKeepsLock, RungStays, EndsTurn
     DEF PowerStartSelfManagedIo, Rung, DZero, PowerNoEntry, Null
<1>14. CASE PowerDecideD0State
  BY <1>14, PowerPassesKeepsLock, RungStays, EndsStay
     DEF PowerDecideD0State, Rung, DZero, PowerNoEntry, Null
<1>15. CASE PowerDZero
  BY <1>15, PowerPassesKeepsLock, RungStays, EndsStay
     DEF PowerDZero, Rung, DZero, PowerNoEntry, Null
<1>16. CASE PowerInitialSelfManagedIoFailedStarted
  BY <1>16, SuspendsIgnoredKeepsLock, RungStays
     DEF PowerInitialSelfManagedIoFailedStarted, Rung, DZero, PowerNoEntry, Null
<1>17. CASE PowerStartSelfManagedIoFailedStarted
  BY <1>17, SuspendsIgnoredKeepsLock, RungStays
     DEF PowerStartSelfManagedIoFailedStarted, Rung, DZero, PowerNoEntry, Null
<1>18. CASE PowerInitialSelfManagedIoFailed
  BY <1>18, PowerUndoesKeepsLock, RungStays
     DEF PowerInitialSelfManagedIoFailed, Rung, DZero, PowerNoEntry, Null
<1>19. CASE PowerStartSelfManagedIoFailed
  BY <1>19, PowerUndoesKeepsLock, RungStays
     DEF PowerStartSelfManagedIoFailed, Rung, DZero, PowerNoEntry, Null
<1>20. CASE PowerInitialPostHardwareEnabledFailed
  BY <1>20, PowerUndoesKeepsLock, RungStays
     DEF PowerInitialPostHardwareEnabledFailed, Rung, DZero, PowerNoEntry, Null
<1>21. CASE PowerWakingPostHardwareEnabledFailed
  BY <1>21, PowerUndoesKeepsLock, RungStays
     DEF PowerWakingPostHardwareEnabledFailed, Rung, DZero, PowerNoEntry, Null
<1>22. CASE PowerInitialDmaEnableFailed
  BY <1>22, PowerUndoesKeepsLock, RungStays
     DEF PowerInitialDmaEnableFailed, Rung, DZero, PowerNoEntry, Null
<1>23. CASE PowerWakingDmaEnableFailed
  BY <1>23, PowerUndoesKeepsLock, RungStays
     DEF PowerWakingDmaEnableFailed, Rung, DZero, PowerNoEntry, Null
<1>24. CASE PowerInitialConnectInterruptFailed
  BY <1>24, PowerUndoesKeepsLock, RungStays
     DEF PowerInitialConnectInterruptFailed, Rung, DZero, PowerNoEntry, Null
<1>25. CASE PowerWakingConnectInterruptFailed
  BY <1>25, PowerUndoesKeepsLock, RungStays
     DEF PowerWakingConnectInterruptFailed, Rung, DZero, PowerNoEntry, Null
<1>26. CASE PowerInitialPowerUpFailedPowerDown
  BY <1>26, PowerUndoesKeepsLock, RungStays
     DEF PowerInitialPowerUpFailedPowerDown, Rung, DZero, PowerNoEntry, Null
<1>27. CASE PowerUpFailedPowerDown
  BY <1>27, PowerUndoesKeepsLock, RungStays
     DEF PowerUpFailedPowerDown, Rung, DZero, PowerNoEntry, Null
<1>28. CASE PowerInitialPowerUpFailedDerefParent
  BY <1>28, PowerPassesKeepsLock, RungStays
     DEF PowerInitialPowerUpFailedDerefParent, Rung, DZero, PowerNoEntry, Null
<1>29. CASE PowerUpFailedDerefParent
  BY <1>29, PowerPassesKeepsLock, RungStays
     DEF PowerUpFailedDerefParent, Rung, DZero, PowerNoEntry, Null
<1>30. CASE PowerReportPowerUpFailedDerefParent
  BY <1>30, PowerPassesKeepsLock, RungStays
     DEF PowerReportPowerUpFailedDerefParent, Rung, DZero, PowerNoEntry, Null
<1>31. CASE PowerInitialPowerUpFailed
  BY <1>31, PowerUpFailureKeepsLock, RungStays, EndsTurn
     DEF PowerInitialPowerUpFailed, Rung, DZero, PowerNoEntry, Null
<1>32. CASE PowerReportPowerUpFailed
  BY <1>32, PowerUpFailureKeepsLock, RungStays, EndsTurn
     DEF PowerReportPowerUpFailed, Rung, DZero, PowerNoEntry, Null
<1>33. CASE PowerGotoD3Stopped
  BY <1>33, PowerGotoD3StoppedKeepsLock
<1>34. CASE PowerFinalPowerDownFailed
  BY <1>34, PowerFinalPowerDownFailedKeepsLock
<1>35. CASE PowerGotoDNotZero
  BY <1>35, PowerGotoDNotZeroKeepsLock
<1>36. CASE PowerNotifyingD0ExitToWakeInterrupts
  BY <1>36, PowerPassesKeepsLock, RungStays
     DEF PowerNotifyingD0ExitToWakeInterrupts, Rung, DZero, PowerNoEntry, Null
<1>37. CASE PowerGotoDNotZeroIoStopped
  BY <1>37, PowerGotoDNotZeroIoStoppedKeepsLock
<1>38. CASE PowerGotoDxFailed
  BY <1>38, PowerPassesKeepsLock, RungStays
     DEF PowerGotoDxFailed, Rung, DZero, PowerNoEntry, Null
<1>39. CASE PowerReportPowerDownFailed
  BY <1>39, PowerReportPowerDownFailedKeepsLock
<1>40. CASE PowerPowerFailedPowerDown
  BY <1>40, PowerPowerFailedPowerDownKeepsLock
<1>41. CASE PowerGotoDxStoppedDisableInterrupt
  BY <1>41, PowerPassesKeepsLock, RungStays
     DEF PowerGotoDxStoppedDisableInterrupt, Rung, DZero, PowerNoEntry, Null
<1>42. CASE PowerGotoDxStopped
  BY <1>42, PowerGotoDxStoppedKeepsLock
<1>43. QED
  BY <1>1, <1>2, <1>3, <1>4, <1>5, <1>6, <1>7, <1>8, <1>9, <1>10, <1>11, <1>12, <1>13,
     <1>14, <1>15, <1>16, <1>17, <1>18, <1>19, <1>20, <1>21, <1>22, <1>23, <1>24, <1>25,
     <1>26, <1>27, <1>28, <1>29, <1>30, <1>31, <1>32, <1>33, <1>34, <1>35, <1>36, <1>37,
     <1>38, <1>39, <1>40, <1>41, <1>42 DEF PowerEntersState

(* Every step of the machine                                               *)
LEMMA PowerKeepsLock ==
    ASSUME CountInv, StageInv, queue \in Queues, Lockstep, IdleLock, PowerNext
    PROVE  IdleLock' /\ [Idle!IdleNext]_idle
<1>1. PowerQuiet
  BY PowerKeepsStep
<1>2. CASE PowerProcessEventInner
  BY <1>2, PowerEventKeepsLock
<1>3. CASE PowerEntersState
  BY <1>1, <1>3, PowerEntersKeepsLock
<1>4. QED
  BY <1>2, <1>3 DEF PowerNext

-----------------------------------------------------------------------------
(***************************************************************************)
(* The PnP machine                                                         *)
(***************************************************************************)
(* Its entry functions keep the reference it has, or wait for the event    *)
(* they asked for                                                          *)
LEMMA PnpEntryKeepsLock ==
    ASSUME CountInv, queue \in Queues, IdleLock, NEW s, NEW next, NEW posts, PnpEntry(s, next, posts),
           NEW E, Posted(queue, queue', E), queue'["power"] = queue["power"],
           Expiry \notin E, "Sx" \notin E, "S0" \notin E, "S0IdlePolicyChanged" \notin E,
           [Idle!IdleNext]_idle, idle'.sent = {}, Uses(idle, idle'),
           "PowerFailed" \in idle.flags => "PowerFailed" \in idle'.flags,
           InD0Event \in E => "SendPnpPowerUpEvent" \in idle.flags,
           "SendPnpPowerUpEvent" \in idle'.flags =>
             "SendPnpPowerUpEvent" \in idle.flags \/ (s \in Awaiting /\ next = Null),
           WaiterFollows, os'.sys = os.sys,
           next = Null \/ next \notin Pending \/ idle'.d0
    PROVE  IdleLock'
<1>1. /\ "pnp" \in entering /\ at["pnp"] = s /\ PolicyStands /\ PowerStands
      /\ at'["pnp"] = (IF next = Null THEN s ELSE next)
      /\ "pnp" \in entering' <=> (next # Null /\ next \notin PnpNoEntry)
  BY PnpSteps
<1>2. /\ IdleFits /\ TimerOff /\ PowerFailureKnown /\ ExpiryFits /\ ExpiryFirst
      /\ SleepFits /\ D0EventFits /\ GrantFits /\ Sound
  BY DEF IdleLock
<1>3. Idle!IdleInv' /\ Sound'
  BY <1>2, SoundStep DEF Sound
<1>4. IdleFits' /\ TimerOff'
  BY <1>1, <1>2, IdleFitsFrame, TimerOffFrame
<1>5. PowerFailureKnown'
  BY <1>1, <1>2 DEF PowerFailureKnown, PowerStands, Powering
<1>6. ExpiryFits' /\ ExpiryFirst' /\ SleepFits'
  BY <1>1, <1>2, ExpiryPosted, ExpiryFirstPosted, SleepPosted
<1>7. ~In(queue["pnp"], InD0Event) /\ "SendPnpPowerUpEvent" \notin idle.flags
  BY <1>1, <1>2 DEF D0EventFits, PnpAwaits
<1>8. ~In(queue'["pnp"], InD0Event)
  BY <1>7 DEF Posted, Kept
<1>9. D0EventFits'
  <2>1. Lone(queue'["pnp"], {InD0Event})
    BY <1>8 DEF Lone, In
  <2>2. "SendPnpPowerUpEvent" \in idle'.flags => PnpAwaits'
    BY <1>1, <1>7 DEF PnpAwaits
  <2>3. QED
    BY <1>8, <2>1, <2>2 DEF D0EventFits
<1>10. GrantFits'
  <2> SUFFICES ASSUME Out', "PowerFailed" \notin idle'.flags
               PROVE  /\ waiter' \notin {"released", "held"}
                      /\ at'["pnp"] \notin Pending
                      /\ ~In(queue'["pnp"], InD0Event)
    BY DEF GrantFits, Out
  <2>1. Out /\ "PowerFailed" \notin idle.flags
    BY <1>1 DEF Out, Uses, Awake, PolicyStands
  <2>2. idle'.state \in {"TimedOut", "InDx"}
    BY <1>2, <2>1, OutIs DEF Uses, Awake
  <2>3. ~idle'.d0
    BY <1>3, <2>2 DEF Idle!IdleInv, Idle!IdleSound, Idle!D0EventMeans
  <2>4. waiter \notin {"released", "held"} /\ at["pnp"] \notin Pending
    BY <1>2, <2>1 DEF GrantFits, Out
  <2>5. QED
    BY <1>1, <1>8, <2>3, <2>4 DEF WaiterFollows
<1>11. QED
  BY <1>3, <1>4, <1>5, <1>6, <1>9, <1>10 DEF IdleLock

(* and do not tell the power manager                                       *)
OsAfter == {os, FinishProcessingIrp(os), FailPendingIrp(os), FinishProcessingIrp(FailPendingIrp(os)),
            [os EXCEPT !.below = TRUE],
            [os EXCEPT !.pnp = "none", !.ok = TRUE, !.manager = Succeeded["Remove"]]}

LEMMA OsAfterSleeps ==
    ASSUME StageInv, os' \in OsAfter
    PROVE  os'.sys = os.sys
<1>1. os \in Os
  BY DEF StageInv
<1>2. \A o \in Os : FinishProcessingIrp(o).sys = o.sys /\ FailPendingIrp(o) \in Os /\ FailPendingIrp(o).sys = o.sys
  BY DEF Os, FinishProcessingIrp, FailPendingIrp
<1>3. /\ [os EXCEPT !.below = TRUE].sys = os.sys
      /\ [os EXCEPT !.pnp = "none", !.ok = TRUE, !.manager = Succeeded["Remove"]].sys = os.sys
  BY <1>1 DEF Os
<1>4. QED
  BY <1>1, <1>2, <1>3 DEF OsAfter

(* One that leaves the references alone                                    *)
LEMMA PnpPlainKeepsLock ==
    ASSUME CountInv, StageInv, queue \in Queues, IdleLock, NEW s, NEW next, NEW posts,
           PnpEntry(s, next, posts), posts = <<>> \/ \E e \in Orders : posts = ToPolicy(e),
           PnpKeeps, os' \in OsAfter, next = Null \/ next \notin Pending
    PROVE  IdleLock' /\ idle' = idle
<1>1. /\ idle' = idle /\ waiter' = waiter /\ users' = users /\ queue' = PostAll(queue, posts)
      /\ os'.sys = os.sys
  BY PnpSteps, OsAfterSleeps DEF PnpKeeps, references
<1>2. WaiterFollows /\ Uses(idle, idle') /\ idle'.sent = {}
  BY <1>1 DEF WaiterFollows, Uses, IdleLock, Sound
<1>3. queue'["power"] = queue["power"]
  <2>1. CASE posts = <<>>
    BY <1>1, <2>1, PostNone
  <2>2. ASSUME NEW e \in Orders, posts = ToPolicy(e)
        PROVE  queue'["power"] = queue["power"]
    BY <1>1, <2>2, OrderPosts DEF Ordered, AnswersStay
  <2>3. QED
    BY <2>1, <2>2
<1>4. PICK E \in {{}} \cup {{e} : e \in Orders} : Posted(queue, queue', E)
  <2>1. CASE posts = <<>>
    BY <1>1, <2>1, PostNone, PostedStays
  <2>2. ASSUME NEW e \in Orders, posts = ToPolicy(e)
        PROVE  Posted(queue, queue', {e})
    <3>1. e \in Events /\ "IoPresent" \in Unwatched
      BY Plain DEF Events
    <3>2. QED
      BY <1>1, <2>2, <3>1, PostsPosted
  <2>3. QED
    BY <2>1, <2>2
<1>5. /\ Expiry \notin E /\ "Sx" \notin E /\ "S0" \notin E /\ "S0IdlePolicyChanged" \notin E
      /\ InD0Event \notin E
  BY DEF Orders, Expiry, InD0Event
<1>6. QED
  BY <1>1, <1>2, <1>3, <1>4, <1>5, PnpEntryKeepsLock

(* The one that asks for a reference                                       *)
LEMMA EnsureDeviceAwakeKeepsLock ==
    ASSUME CountInv, StageInv, queue \in Queues, IdleLock, NEW s \in Awaiting, NEW pending \in Pending,
           EnsureDeviceAwake(s, pending)
    PROVE  IdleLock' /\ [Idle!IdleNext]_idle
<1> DEFINE n == Idle!IoIncrementForPnp(idle)
           next == IF n.d0 THEN pending ELSE Null
<1>1. CASE Idle!CanReference(idle)
  <2>1. /\ PnpEntry(s, next, IdlePosts(n)) /\ IdleBecomes(n)
        /\ users' = [users EXCEPT !.pnp = TRUE] /\ os' = os
    BY <1>1 DEF EnsureDeviceAwake
  <2>2. Sound
    BY DEF IdleLock
  <2>3. /\ n \in Idle!IdleMachine /\ Uses(idle, n) /\ Expiry \notin n.sent
        /\ "PowerFailed" \in idle.flags => "PowerFailed" \in n.flags
        /\ InD0Event \in n.sent => "SendPnpPowerUpEvent" \in idle.flags
        /\ n.d0 => Heeds(n)
    BY <2>2, ReferenceForPnpHeard
  <2>4. Idle!IdleNext
    BY <1>1, <2>1 DEF IdleBecomes, Idle!IdleNext, Idle!ReferenceForPnp
  <2>5. pending # Null
    BY DEF Pending, Null
  <2> HIDE DEF n
  <2>6. /\ idle'.state = n.state /\ idle'.flags = n.flags /\ idle'.sent = {} /\ idle'.d0 = n.d0
        /\ waiter' = IF waiter = "waiting" /\ n.d0 THEN "released" ELSE waiter
    BY <2>1, <2>3, SettledIs DEF IdleBecomes
  <2>7. Uses(idle, idle') /\ WaiterFollows
    BY <2>3, <2>6 DEF Uses, WaiterFollows
  <2>8. Posted(queue, queue', n.sent) /\ queue'["power"] = queue["power"]
    BY <2>1, PnpSteps, IdlePostsPosted
  <2>9. n.sent \subseteq {Expiry, "IoPresent", "DeviceInD0"}
    BY <2>3 DEF Idle!IdleMachine, Idle!Posts, Expiry
  <2>10. "Sx" \notin n.sent /\ "S0" \notin n.sent /\ "S0IdlePolicyChanged" \notin n.sent
    BY <2>9 DEF Expiry
  <2>11. "SendPnpPowerUpEvent" \in idle'.flags => "SendPnpPowerUpEvent" \in idle.flags \/ next = Null
    BY <2>3, <2>6 DEF Heeds
  <2>12. next = Null \/ next \notin Pending \/ idle'.d0
    BY <2>6
  <2>13. os'.sys = os.sys
    BY <2>1
  <2> HIDE DEF next
  <2>14. IdleLock'
    BY <2>1, <2>3, <2>4, <2>6, <2>7, <2>8, <2>10, <2>11, <2>12, <2>13, PnpEntryKeepsLock
  <2>15. QED
    BY <2>4, <2>14
<1>2. CASE ~Idle!CanReference(idle)
  <2>1. PnpEntry(s, "Started", <<>>) /\ os' = FailPendingIrp(os) /\ PnpKeeps
    BY <1>2 DEF EnsureDeviceAwake, PnpKeeps
  <2>2. os' \in OsAfter /\ "Started" \notin Pending
    BY <2>1 DEF OsAfter, Pending
  <2>3. QED
    BY <2>1, <2>2, PnpPlainKeepsLock
<1>3. QED
  BY <1>1, <1>2

(* and those that give it back                                             *)
LEMMA DereferencesKeepsLock ==
    ASSUME CountInv, queue \in Queues, IdleLock, NEW s \in Leaving, NEW next, NEW posts,
           posts \in {<<>>, ToPolicy("Stop")}, Dereferences(s, next, posts), next \notin Pending
    PROVE  IdleLock' /\ [Idle!IdleNext]_idle
<1> DEFINE n == Idle!IoDecrement(idle)
<1>1. /\ PnpEntry(s, next, posts \o IdlePosts(n)) /\ IdleBecomes(n)
      /\ users' = [users EXCEPT !.pnp = FALSE] /\ os' = os
  BY DEF Dereferences
<1>2. "pnp" \in entering /\ at["pnp"] = s /\ queue' = PostAll(queue, posts \o IdlePosts(n))
  BY <1>1, PnpSteps
<1>3. idle.count > 0
  <2>1. users.pnp
    BY <1>2 DEF CountInv, PnpHolds
  <2>2. QED
    BY <2>1 DEF CountInv, CountIsHolders, Idle!IdleMachine
<1>4. Sound
  BY DEF IdleLock
<1>5. Uses(idle, n) /\ Heeds(n) /\ Expiry \notin n.sent
  BY <1>3, <1>4, UsesHeard
<1>6. Idle!IdleNext
  BY <1>1, <1>3 DEF IdleBecomes, Idle!IdleNext, Idle!Dereference
<1> HIDE DEF n
<1>7. /\ idle' = Idle!Settled(n)
      /\ waiter' = IF waiter = "waiting" /\ n.d0 THEN "released" ELSE waiter
  BY <1>1 DEF IdleBecomes
<1>8. Uses(idle, idle') /\ idle'.sent = {} /\ idle'.d0 = n.d0 /\ n.sent \cap Watched = {}
  BY <1>4, <1>5, <1>7, SettledUses
<1>9. WaiterFollows
  BY <1>7, <1>8 DEF WaiterFollows
<1>10. Posted(queue, queue', n.sent) /\ queue'["power"] = queue["power"]
  <2>1. CASE posts = <<>>
    <3>1. <<>> \o IdlePosts(n) = IdlePosts(n)
      BY DEF IdlePosts
    <3>2. QED
      BY <1>2, <2>1, <3>1, IdlePostsPosted
  <2>2. CASE posts = ToPolicy("Stop")
    <3>1. "Stop" \in Unwatched /\ "Stop" \in Orders /\ "Stop" \in Events
      BY DEF Unwatched, Events, Orders, Watched, Expiry, InD0Event
    <3>2. Posted(queue, queue', n.sent)
      BY <1>2, <2>2, <3>1, PostsPosted
    <3>3. queue'["power"] = queue["power"]
      BY <1>2, <2>2, <3>1, OrderPosts DEF Ordered, AnswersStay
    <3>4. QED
      BY <3>2, <3>3
  <2>3. QED
    BY <2>1, <2>2
<1>11. "Sx" \notin n.sent /\ "S0" \notin n.sent /\ "S0IdlePolicyChanged" \notin n.sent
  BY <1>8 DEF Watched
<1>12. Heeded(n.sent)
  BY <1>5, <1>7, <1>10, HeedsHeeded
<1>13. os'.sys = os.sys
  BY <1>1
<1>14. IdleLock'
  BY <1>1, <1>5, <1>6, <1>8, <1>9, <1>10, <1>11, <1>12, <1>13, PnpEntryKeepsLock DEF Heeded
<1>15. QED
  BY <1>6, <1>14

(* Every entry function                                                    *)
LEMMA PnpEntersKeepsLock ==
    ASSUME CountInv, StageInv, queue \in Queues, IdleLock, PnpEntersState
    PROVE  IdleLock' /\ [Idle!IdleNext]_idle
<1> DEFINE Plainly ==
      \E s, next, posts : /\ PnpEntry(s, next, posts) /\ PnpKeeps
                          /\ posts = <<>> \/ \E e \in Orders : posts = ToPolicy(e)
                          /\ next = Null \/ next \notin Pending
                          /\ os' \in OsAfter
<1>0. Plainly => IdleLock' /\ [Idle!IdleNext]_idle
  BY PnpPlainKeepsLock
<1> HIDE DEF Plainly
<1>1. CASE PnpEventInitStarting
  <2>1. Plainly
    BY <1>1 DEF Plainly, PnpEventInitStarting, SendsStartDown, PnpKeeps, OsAfter,
       Orders, Pending, Null
  <2>2. QED
    BY <1>0, <2>1
<1>2. CASE PnpEventHardwareAvailable
  <2>1. Plainly
    BY <1>2 DEF Plainly, PnpEventHardwareAvailable, PrepareHardware, PnpKeeps, OsAfter,
       Orders, Pending, Null
  <2>2. QED
    BY <1>0, <2>1
<1>3. CASE PnpEventEnableInterfaces
  <2>1. Plainly
    BY <1>3 DEF Plainly, PnpEventEnableInterfaces, PnpKeeps, OsAfter, Orders, Pending,
       Null
  <2>2. QED
    BY <1>0, <2>1
<1>4. CASE PnpEventHardwareAvailablePowerPolicyFailed
  <2>1. Plainly
    BY <1>4 DEF Plainly, PnpEventHardwareAvailablePowerPolicyFailed, PnpKeeps, OsAfter,
       Orders, Pending, Null
  <2>2. QED
    BY <1>0, <2>1
<1>5. CASE PnpEventFailedInit
  <2>1. Plainly
    BY <1>5 DEF Plainly, PnpEventFailedInit, PnpFinishes, PnpKeeps, OsAfter, Orders,
       Pending, Null
  <2>2. QED
    BY <1>0, <2>1
<1>6. CASE PnpEventStarted
  <2>1. Plainly
    BY <1>6 DEF Plainly, PnpEventStarted, PnpFinishes, PnpKeeps, OsAfter, Orders,
       Pending, Null
  <2>2. QED
    BY <1>0, <2>1
<1>7. CASE PnpEventStartedCancelStop
  <2>1. Plainly
    BY <1>7 DEF Plainly, PnpEventStartedCancelStop, PnpPasses, PnpPosts, PnpKeeps,
       OsAfter, Orders, Pending, Null
  <2>2. QED
    BY <1>0, <2>1
<1>8. CASE PnpEventStartedCancelRemove
  <2>1. Plainly
    BY <1>8 DEF Plainly, PnpEventStartedCancelRemove, PnpPasses, PnpPosts, PnpKeeps,
       OsAfter, Orders, Pending, Null
  <2>2. QED
    BY <1>0, <2>1
<1>9. CASE PnpEventQueryStopStaticCheck
  <2>1. Plainly
    BY <1>9 DEF Plainly, PnpEventQueryStopStaticCheck, StaticCheck, PnpKeeps, OsAfter,
       Orders, Pending, Null
  <2>2. QED
    BY <1>0, <2>1
<1>10. CASE PnpEventQueryStopAskDriver
  <2>1. Plainly
    BY <1>10 DEF Plainly, PnpEventQueryStopAskDriver, StaticCheck, PnpKeeps, OsAfter,
       Orders, Pending, Null
  <2>2. QED
    BY <1>0, <2>1
<1>11. CASE PnpEventQueryRemoveStaticCheck
  <2>1. Plainly
    BY <1>11 DEF Plainly, PnpEventQueryRemoveStaticCheck, StaticCheck, PnpKeeps,
       OsAfter, Orders, Pending, Null
  <2>2. QED
    BY <1>0, <2>1
<1>12. CASE PnpEventQueryRemoveAskDriver
  <2>1. Plainly
    BY <1>12 DEF Plainly, PnpEventQueryRemoveAskDriver, StaticCheck, PnpKeeps, OsAfter,
       Orders, Pending, Null
  <2>2. QED
    BY <1>0, <2>1
<1>13. CASE PnpEventQueryStopEnsureDeviceAwake
  BY <1>13, EnsureDeviceAwakeKeepsLock DEF PnpEventQueryStopEnsureDeviceAwake, Awaiting, Pending
<1>14. CASE PnpEventQueryRemoveEnsureDeviceAwake
  BY <1>14, EnsureDeviceAwakeKeepsLock DEF PnpEventQueryRemoveEnsureDeviceAwake, Awaiting, Pending
<1>15. CASE PnpEventQueryStopPending
  <2>1. Plainly
    BY <1>15 DEF Plainly, PnpEventQueryStopPending, PnpFinishes, PnpKeeps, OsAfter,
       Orders, Pending, Null
  <2>2. QED
    BY <1>0, <2>1
<1>16. CASE PnpEventQueryRemovePending
  <2>1. Plainly
    BY <1>16 DEF Plainly, PnpEventQueryRemovePending, PnpFinishes, PnpKeeps, OsAfter,
       Orders, Pending, Null
  <2>2. QED
    BY <1>0, <2>1
<1>17. CASE PnpEventQueryCanceled
  BY <1>17, DereferencesKeepsLock DEF PnpEventQueryCanceled, Leaving, Pending, Null
<1>18. CASE PnpEventStartedStopping
  BY <1>18, DereferencesKeepsLock DEF PnpEventStartedStopping, Leaving, Pending, Null
<1>19. CASE PnpEventQueriedRemoving
  BY <1>19, DereferencesKeepsLock DEF PnpEventQueriedRemoving, Leaving, Pending, Null
<1>20. CASE PnpEventQueriedSurpriseRemove
  BY <1>20, DereferencesKeepsLock DEF PnpEventQueriedSurpriseRemove, Leaving, Pending, Null
<1>21. CASE PnpEventStopped
  <2>1. Plainly
    BY <1>21 DEF Plainly, PnpEventStopped, PnpKeeps, OsAfter, Orders, Pending, Null
  <2>2. QED
    BY <1>0, <2>1
<1>22. CASE PnpEventStoppedWaitForStartCompletion
  <2>1. Plainly
    BY <1>22 DEF Plainly, PnpEventStoppedWaitForStartCompletion, SendsStartDown,
       PnpKeeps, OsAfter, Orders, Pending, Null
  <2>2. QED
    BY <1>0, <2>1
<1>23. CASE PnpEventStartingFromStopped
  <2>1. Plainly
    BY <1>23 DEF Plainly, PnpEventStartingFromStopped, PrepareHardware, PnpKeeps,
       OsAfter, Orders, Pending, Null
  <2>2. QED
    BY <1>0, <2>1
<1>24. CASE PnpEventRestarting
  <2>1. Plainly
    BY <1>24 DEF Plainly, PnpEventRestarting, PnpPosts, PnpKeeps, OsAfter, Orders,
       Pending, Null
  <2>2. QED
    BY <1>0, <2>1
<1>25. CASE PnpEventRemovingDisableInterfaces
  <2>1. Plainly
    BY <1>25 DEF Plainly, PnpEventRemovingDisableInterfaces, CleanupForRemove, PnpKeeps,
       OsAfter, Orders, Pending, Null
  <2>2. QED
    BY <1>0, <2>1
<1>26. CASE PnpEventSurpriseRemoved
  <2>1. Plainly
    BY <1>26 DEF Plainly, PnpEventSurpriseRemoved, PnpPasses, PnpPosts, PnpKeeps,
       OsAfter, Orders, Pending, Null
  <2>2. QED
    BY <1>0, <2>1
<1>27. CASE PnpEventSurpriseRemoveIoStarted
  <2>1. Plainly
    BY <1>27 DEF Plainly, PnpEventSurpriseRemoveIoStarted, PnpPasses, PnpPosts,
       PnpKeeps, OsAfter, Orders, Pending, Null
  <2>2. QED
    BY <1>0, <2>1
<1>28. CASE PnpEventFailedPowerDown
  <2>1. Plainly
    BY <1>28 DEF Plainly, PnpEventFailedPowerDown, PnpPosts, PnpKeeps, OsAfter, Orders,
       Pending, Null
  <2>2. QED
    BY <1>0, <2>1
<1>29. CASE PnpEventFailedIoStarting
  <2>1. Plainly
    BY <1>29 DEF Plainly, PnpEventFailedIoStarting, PnpPosts, PnpKeeps, OsAfter, Orders,
       Pending, Null
  <2>2. QED
    BY <1>0, <2>1
<1>30. CASE PnpEventFailedOwnHardware
  <2>1. Plainly
    BY <1>30 DEF Plainly, PnpEventFailedOwnHardware, PnpKeeps, OsAfter, Orders, Pending,
       Null
  <2>2. QED
    BY <1>0, <2>1
<1>31. CASE PnpEventFailed
  <2>1. Plainly
    BY <1>31 DEF Plainly, PnpEventFailed, CleanupForRemove, PnpKeeps, OsAfter, Orders,
       Pending, Null
  <2>2. QED
    BY <1>0, <2>1
<1>32. CASE PnpEventFailedPowerPolicyRemoved
  <2>1. Plainly
    BY <1>32 DEF Plainly, PnpEventFailedPowerPolicyRemoved, PnpFinishes, PnpKeeps,
       OsAfter, Orders, Pending, Null
  <2>2. QED
    BY <1>0, <2>1
<1>33. CASE PnpEventFailedSurpriseRemoved
  <2>1. Plainly
    BY <1>33 DEF Plainly, PnpEventFailedSurpriseRemoved, PnpFinishes, PnpKeeps, OsAfter,
       Orders, Pending, Null
  <2>2. QED
    BY <1>0, <2>1
<1>34. CASE PnpEventFailedStarted
  <2>1. Plainly
    BY <1>34 DEF Plainly, PnpEventFailedStarted, PnpKeeps, OsAfter, Orders, Pending,
       Null
  <2>2. QED
    BY <1>0, <2>1
<1>35. CASE PnpEventRemoved
  <2>1. Plainly
    BY <1>35 DEF Plainly, PnpEventRemoved, PnpPasses, PnpPosts, PnpKeeps, OsAfter,
       Orders, Pending, Null
  <2>2. QED
    BY <1>0, <2>1
<1>36. CASE PnpEventRemovedChildrenRemoved
  <2>1. Plainly
    BY <1>36 DEF Plainly, PnpEventRemovedChildrenRemoved, PnpPasses, PnpPosts, PnpKeeps,
       OsAfter, Orders, Pending, Null
  <2>2. QED
    BY <1>0, <2>1
<1>37. CASE PnpEventFdoRemoved
  <2>1. Plainly
    BY <1>37 DEF Plainly, PnpEventFdoRemoved, PnpKeeps, OsAfter, Orders, Pending, Null
  <2>2. QED
    BY <1>0, <2>1
<1>38. CASE PnpEventFinal
  <2>1. Plainly
    BY <1>38 DEF Plainly, PnpEventFinal, PnpKeeps, OsAfter, Orders, Pending, Null
  <2>2. QED
    BY <1>0, <2>1
<1>39. QED
  BY <1>1, <1>2, <1>3, <1>4, <1>5, <1>6, <1>7, <1>8, <1>9, <1>10, <1>11, <1>12, <1>13,
     <1>14, <1>15, <1>16, <1>17, <1>18, <1>19, <1>20, <1>21, <1>22, <1>23, <1>24, <1>25,
     <1>26, <1>27, <1>28, <1>29, <1>30, <1>31, <1>32, <1>33, <1>34, <1>35, <1>36, <1>37,
     <1>38 DEF PnpEntersState

(* The rows of its tables that are about the event it asked for            *)
LEMMA AwaitingRows ==
    ASSUME NEW r \in PnpRows
    PROVE  /\ r[1] \in Awaiting => r[2] = InD0Event
           /\ r[3] \in Pending => r[2] = InD0Event
<1>1. CASE r \in PnpStartRows
  BY <1>1 DEF PnpStartRows, Awaiting, Pending, InD0Event
<1>2. CASE r \in PnpStopRows
  BY <1>2 DEF PnpStopRows, Awaiting, Pending, InD0Event
<1>3. CASE r \in PnpRemoveRows
  BY <1>3 DEF PnpRemoveRows, Awaiting, Pending, InD0Event
<1>4. QED
  BY <1>1, <1>2, <1>3 DEF PnpRows

(* An event it takes                                                       *)
LEMMA PnpEventKeepsLock ==
    ASSUME CountInv, StageInv, queue \in Queues, IdleLock, PnpProcessEventInner
    PROVE  IdleLock' /\ idle' = idle
<1> DEFINE q == queue["pnp"]
           h == Head(queue["pnp"])
<1>1. /\ queue' \in Queues /\ queue'["pnp"] = Tail(q)
      /\ queue'["policy"] = queue["policy"] /\ queue'["power"] = queue["power"]
      /\ PolicyStands /\ PowerStands
  BY PnpTakes
<1>2. /\ idle' = idle /\ waiter' = waiter /\ users' = users
      /\ "pnp" \notin entering /\ q # <<>> /\ q \in Seq(Events)
  BY DEF PnpProcessEventInner, references, Takes, Queues
<1>3. os'.sys = os.sys
  BY OsAfterSleeps DEF PnpProcessEventInner, OsAfter
<1>4. \/ PnpStays
      \/ \E r \in PnpRows : r[1] = at["pnp"] /\ r[2] = h /\ at'["pnp"] = r[3]
  <2>1. DOMAIN at = Machines /\ "pnp" \in Machines
    BY DEF CountInv, Machines
  <2>2. CASE UNCHANGED <<at, entering>>
    BY <2>1, <2>2 DEF PnpStays
  <2>3. ASSUME NEW r \in Row("pnp", PnpRows), EnterNewState("pnp", r[3], PnpNoEntry)
        PROVE  r \in PnpRows /\ r[1] = at["pnp"] /\ r[2] = h /\ at'["pnp"] = r[3]
    BY <2>1, <2>3 DEF Row, EnterNewState
  <2>4. QED
    BY <2>2, <2>3 DEF PnpProcessEventInner
<1>5. /\ \A a : In(Tail(q), a) => In(q, a)
      /\ In(q, h) /\ (Lone(q, {h}) => ~In(Tail(q), h))
  BY <1>2, HeadIsFirst
<1>6. Posted(queue, queue', {})
  BY <1>1, <1>2, KeptTail, KeptStays DEF Posted
<1>7. Uses(idle, idle') /\ Sound' /\ Idle!IdleInv'
  BY <1>2, SoundStep DEF Uses, IdleLock, Sound
<1>8. IdleFits' /\ TimerOff' /\ PowerFailureKnown'
  BY <1>1, <1>2, <1>7, IdleFitsFrame, TimerOffFrame DEF IdleLock, PowerFailureKnown, PowerStands, Powering
<1>9. ExpiryFits' /\ ExpiryFirst' /\ SleepFits'
  BY <1>1, <1>2, <1>3, <1>6, <1>7, ExpiryPosted, ExpiryFirstPosted, SleepPosted
     DEF IdleLock
<1>10. D0EventFits'
  <2>1. D0EventFits
    BY DEF IdleLock
  <2>2. Lone(queue'["pnp"], {InD0Event})
    BY <1>6, <2>1 DEF Posted, Kept, D0EventFits
  <2>3. CASE h = InD0Event
    <3>1. ~In(queue'["pnp"], InD0Event) /\ "SendPnpPowerUpEvent" \notin idle'.flags
      BY <1>1, <1>2, <1>5, <2>1, <2>3 DEF D0EventFits
    <3>2. QED
      BY <2>2, <3>1 DEF D0EventFits
  <2>4. CASE h # InD0Event
    <3>1. PnpAwaits => PnpAwaits'
      <4>1. SUFFICES ASSUME PnpAwaits
                     PROVE  PnpAwaits'
        OBVIOUS
      <4>2. PnpStays
        BY <1>4, <2>4, <4>1, AwaitingRows DEF PnpAwaits
      <4>3. QED
        BY <4>1, <4>2 DEF PnpAwaits, PnpStays
    <3>2. QED
      BY <1>1, <1>2, <1>5, <2>1, <2>2, <3>1 DEF D0EventFits
  <2>5. QED
    BY <2>3, <2>4
<1>11. GrantFits'
  <2> SUFFICES ASSUME Out', "PowerFailed" \notin idle'.flags
               PROVE  /\ waiter' \notin {"released", "held"}
                      /\ at'["pnp"] \notin Pending
                      /\ ~In(queue'["pnp"], InD0Event)
    BY DEF GrantFits, Out
  <2>1. waiter \notin {"released", "held"} /\ at["pnp"] \notin Pending /\ ~In(q, InD0Event)
    BY <1>1, <1>2 DEF IdleLock, GrantFits, Out, PolicyStands
  <2>2. h # InD0Event
    BY <1>5, <2>1
  <2>3. at'["pnp"] \notin Pending
    BY <1>4, <2>1, <2>2, AwaitingRows DEF PnpStays
  <2>4. QED
    BY <1>1, <1>2, <1>5, <2>1, <2>3
<1>12. QED
  BY <1>2, <1>7, <1>8, <1>9, <1>10, <1>11 DEF IdleLock

(* Every step of the machine                                               *)
LEMMA PnpKeepsLock ==
    ASSUME CountInv, StageInv, queue \in Queues, IdleLock, PnpNext
    PROVE  IdleLock' /\ [Idle!IdleNext]_idle
BY PnpEventKeepsLock, PnpEntersKeepsLock DEF PnpNext

-----------------------------------------------------------------------------
(***************************************************************************)
(* What holds of every composition, up to a stale timeout                  *)
(***************************************************************************)
LEMMA LockInit == Init => IdleLock
<1> SUFFICES ASSUME Init
             PROVE  IdleLock
  OBVIOUS
<1>1. /\ at = [pnp |-> "Init", policy |-> "ObjectCreated", power |-> "ObjectCreated"]
      /\ entering = {} /\ waiter = "none" /\ os.sys = "S0"
      /\ queue["pnp"] = <<>> /\ queue["policy"] = <<>> /\ queue["power"] = <<>>
  BY DEF Init
<1>2. idle.state = "Stopped" /\ idle.flags = {} /\ idle.sent = {} /\ Idle!IdleInit
  BY DEF Init, Idle!IdleInit, Idle!InitialIdle
<1>3. Sound
  <2>1. Machine!IdleInit
    BY <1>2 DEF Idle!IdleInit, Machine!IdleInit, Idle!InitialIdle, Machine!InitialIdle
  <2>2. Machine!IdleInv
    BY <2>1, Machine!IdleInitInv
  <2>3. QED
    BY <1>2, <2>2, SameSound DEF Sound
<1>4. \A e, A : ~In(<<>>, e) /\ Lone(<<>>, A) /\ \A b : Precedes(<<>>, e, b)
  BY DEF In, Lone, Precedes
<1>5. at["policy"] = "ObjectCreated" /\ at["pnp"] = "Init" /\ at["power"] = "ObjectCreated"
  BY <1>1
<1>6. IdleFits
  <2>1. ~Asks
    BY <1>5 DEF Asks, OrderOf
  <2>2. IdlePlaces = {"Stopped"}
    BY <1>1, <1>5, <2>1 DEF IdlePlaces, PolicyEnters, IdleWhile
  <2>3. QED
    BY <1>2, <2>2 DEF IdleFits
<1>7. TimerOff /\ PowerFailureKnown
  BY <1>2, <1>5 DEF TimerOff, PowerFailureKnown, Broken
<1>8. ExpiryFits /\ ExpiryFirst
  BY <1>1, <1>4 DEF ExpiryFits, ExpiryFirst
<1>9. SleepFits
  BY <1>1, <1>4, <1>5 DEF SleepFits, FallsAsleep, SleepsNow
<1>10. D0EventFits
  BY <1>1, <1>2, <1>4 DEF D0EventFits
<1>11. GrantFits
  BY <1>1, <1>4, <1>5 DEF GrantFits, Pending
<1>12. QED
  BY <1>3, <1>6, <1>7, <1>8, <1>9, <1>10, <1>11 DEF IdleLock

LEMMA LockStep ==
    ASSUME NoStaleTimeout, DeviceInv, IdleLock, [Next]_vars
    PROVE  IdleLock' /\ [Idle!IdleNext]_idle
<1>1. CountInv /\ StageInv /\ queue \in Queues /\ Lockstep /\ PnpLockstep
  BY DEF DeviceInv, StepInv
<1>2. CASE UNCHANGED vars
  <2>1. /\ UNCHANGED <<at, entering, queue, idle, waiter, os, users>>
    BY <1>2 DEF vars
  <2>2. Posted(queue, queue', {}) /\ WaiterFollows /\ PolicyStands /\ PowerStands /\ PnpStays
    BY <1>1, <2>1, PostedStays, MachinesStand DEF WaiterFollows
  <2>3. QED
    BY <1>1, <2>1, <2>2, AsideKeepsLock
<1>3. CASE PowerNext
  BY <1>1, <1>3, PowerKeepsLock
<1>4. CASE PowerPolicyNext
  BY <1>1, <1>4, PolicyEntersKeepsLock, PolicyEventKeepsLock DEF PowerPolicyNext
<1>5. CASE PnpNext
  BY <1>1, <1>5, PnpKeepsLock
<1>6. CASE SystemNext
  BY <1>1, <1>6, SystemKeepsLock
<1>7. CASE UserNext
  BY <1>1, <1>7, UserKeepsLock
<1>8. QED
  BY <1>2, <1>3, <1>4, <1>5, <1>6, <1>7 DEF Next

(* The inductive invariant of the idle machine in the composition: where   *)
(* the three machines are tells in which states the idle machine may be,   *)
(* each event it posts finds the machine it is for in a state that expects *)
(* it, or where it is stale, and nobody was granted power when the device  *)
(* has timed out (FxPowerIdleMachine, powerpolicystatemachine.cpp).        *)
THEOREM IdleFollowsDevice ==
    Spec /\ []NoStaleTimeout => []IdleLock
<1>1. NoStaleTimeout /\ DeviceInv /\ IdleLock /\ [Next]_vars => IdleLock'
  BY LockStep
<1>2. QED
  BY <1>1, LockInit, DeviceCorrect, PTL DEF Spec

(* The machines, the timer, the I/O queue and the thread are users of the  *)
(* idle machine as IdleSpec has them: it never gets an event its table     *)
(* does not list (FxPowerIdleMachine::ProcessEventLocked), and no more     *)
(* references are given back than were taken.                              *)
THEOREM IdleUsersKeepToIt ==
    Spec /\ []NoStaleTimeout => IdleRefinement
<1>1. Init => Idle!IdleInit
  BY DEF Init, Idle!IdleInit
<1>2. NoStaleTimeout /\ DeviceInv /\ IdleLock /\ [Next]_vars => [Idle!IdleNext]_idle
  BY LockStep
<1>3. QED
  BY <1>1, <1>2, DeviceCorrect, IdleFollowsDevice, PTL DEF Spec, IdleRefinement, Idle!IdleSpec

(* So what is proved of the idle machine alone holds of it here.           *)
THEOREM IdleSoundInDevice ==
    Spec /\ []NoStaleTimeout => []Idle!IdleInv
<1>1. IdleLock => Idle!IdleInv
  BY DEF IdleLock, Sound
<1>2. QED
  BY <1>1, IdleFollowsDevice, PTL

(* A device is not idled out under who was granted a power reference,      *)
(* though the idle timer's DPC and its event to the power policy machine   *)
(* were under way when the reference was taken, unless power failed before *)
(* (PowerPolTimerExpiredNoWake, PnpPowerReferenceDuringQueryPnp).          *)
THEOREM ReferencesKeepDeviceUp ==
    Spec /\ []NoStaleTimeout => []ReferenceKeepsDeviceUp
<1>1. IdleLock => ReferenceKeepsDeviceUp
  BY DEF IdleLock, GrantFits, ReferenceKeepsDeviceUp, Granted, Pending
<1>2. QED
  BY <1>1, IdleFollowsDevice, PTL

-----------------------------------------------------------------------------
(***************************************************************************)
(* A device a PnP query was granted power for is in D0                     *)
(***************************************************************************)
(* Where the power machine rests, the idle machine knows whether in D0     *)
DxFits == at["power"] \in DZero \cup {"Dx"} => (idle.state = "InDx" <=> at["power"] = "Dx")

(* a reference taken or given back, or nothing                             *)
About(m, n) == n.state = m.state \/ (m.state \in Awake /\ n.state \in Awake)

LEMMA PnpUses ==
    ASSUME Sound, CountInv, PnpNext
    PROVE  About(idle, idle')
<1>1. CASE UNCHANGED references
  BY <1>1 DEF references, About
<1>2. \A n : Uses(idle, n) /\ idle' = Idle!Settled(n) /\ n \in Idle!IdleMachine => About(idle, idle')
  BY SettledIs DEF Uses, About
<1>3. ASSUME NEW s, NEW pending, EnsureDeviceAwake(s, pending)
      PROVE  About(idle, idle')
  <2>1. UNCHANGED references \/ idle' = Idle!Settled(Idle!IoIncrementForPnp(idle))
    BY <1>3 DEF EnsureDeviceAwake, IdleBecomes
  <2>2. QED
    BY <1>1, <1>2, <2>1, ReferenceForPnpHeard
<1>4. ASSUME NEW s \in Leaving, NEW next, NEW posts, Dereferences(s, next, posts)
      PROVE  About(idle, idle')
  <2>1. idle' = Idle!Settled(Idle!IoDecrement(idle)) /\ at["pnp"] = s /\ "pnp" \in entering
    BY <1>4 DEF Dereferences, IdleBecomes, PnpEntry, Entry
  <2>2. idle.count > 0
    BY <1>4, <2>1 DEF CountInv, PnpHolds, CountIsHolders
  <2>3. QED
    BY <1>2, <2>1, <2>2, UsesHeard DEF Heeds
<1>5. CASE PnpEventQueryStopEnsureDeviceAwake \/ PnpEventQueryRemoveEnsureDeviceAwake
  BY <1>3, <1>5 DEF PnpEventQueryStopEnsureDeviceAwake, PnpEventQueryRemoveEnsureDeviceAwake
<1>6. CASE \/ PnpEventQueryCanceled \/ PnpEventStartedStopping
           \/ PnpEventQueriedRemoving \/ PnpEventQueriedSurpriseRemove
  BY <1>4, <1>6 DEF PnpEventQueryCanceled, PnpEventStartedStopping, PnpEventQueriedRemoving,
                    PnpEventQueriedSurpriseRemove, Leaving
<1>7. CASE PnpProcessEventInner
  BY <1>1, <1>7 DEF PnpProcessEventInner
<1>8. ASSUME PnpKeeps
      PROVE  About(idle, idle')
  BY <1>1, <1>8 DEF PnpKeeps, references
<1>9. ASSUME NEW s, NEW next, PnpFinishes(s, next) \/ PnpPasses(s, next) \/ StaticCheck(s, next)
      PROVE  About(idle, idle')
  BY <1>8, <1>9 DEF PnpFinishes, PnpPasses, PnpPosts, StaticCheck
<1>10. ASSUME NEW s, SendsStartDown(s)
       PROVE  About(idle, idle')
  BY <1>8, <1>10 DEF SendsStartDown
<1>11. ASSUME NEW s, NEW ok, NEW posts, NEW early, NEW late, PrepareHardware(s, ok, posts, early, late)
       PROVE  About(idle, idle')
  BY <1>8, <1>11 DEF PrepareHardware
<1>12. ASSUME NEW s, NEW next, NEW posts, PnpPosts(s, next, posts)
       PROVE  About(idle, idle')
  BY <1>8, <1>12 DEF PnpPosts
<1>13. CASE \/ PnpEventInitStarting \/ PnpEventHardwareAvailable \/ PnpEventEnableInterfaces
            \/ PnpEventHardwareAvailablePowerPolicyFailed \/ PnpEventFailedInit
            \/ PnpEventStarted \/ PnpEventStartedCancelStop \/ PnpEventStartedCancelRemove
            \/ PnpEventQueryStopStaticCheck \/ PnpEventQueryStopAskDriver
            \/ PnpEventQueryRemoveStaticCheck \/ PnpEventQueryRemoveAskDriver
            \/ PnpEventQueryStopPending \/ PnpEventQueryRemovePending
  BY <1>8, <1>9, <1>10, <1>11, <1>13
     DEF PnpEventInitStarting, PnpEventHardwareAvailable, PnpEventEnableInterfaces,
         PnpEventHardwareAvailablePowerPolicyFailed, PnpEventFailedInit, PnpEventStarted,
         PnpEventStartedCancelStop, PnpEventStartedCancelRemove, PnpEventQueryStopStaticCheck,
         PnpEventQueryStopAskDriver, PnpEventQueryRemoveStaticCheck, PnpEventQueryRemoveAskDriver,
         PnpEventQueryStopPending, PnpEventQueryRemovePending
<1>14. CASE \/ PnpEventStopped \/ PnpEventStoppedWaitForStartCompletion
            \/ PnpEventStartingFromStopped \/ PnpEventRestarting
            \/ PnpEventRemovingDisableInterfaces
            \/ PnpEventSurpriseRemoved \/ PnpEventSurpriseRemoveIoStarted
            \/ PnpEventFailedPowerDown \/ PnpEventFailedIoStarting
            \/ PnpEventFailedOwnHardware \/ PnpEventFailed \/ PnpEventFailedPowerPolicyRemoved
            \/ PnpEventFailedSurpriseRemoved \/ PnpEventFailedStarted
            \/ PnpEventRemoved \/ PnpEventRemovedChildrenRemoved \/ PnpEventFdoRemoved
            \/ PnpEventFinal
  BY <1>8, <1>9, <1>10, <1>11, <1>12, <1>14
     DEF PnpEventStopped, PnpEventStoppedWaitForStartCompletion, PnpEventStartingFromStopped,
         PnpEventRestarting, PnpEventRemovingDisableInterfaces, PnpEventSurpriseRemoved,
         PnpEventSurpriseRemoveIoStarted, PnpEventFailedPowerDown, PnpEventFailedIoStarting,
         PnpEventFailedOwnHardware, PnpEventFailed, PnpEventFailedPowerPolicyRemoved,
         PnpEventFailedSurpriseRemoved, PnpEventFailedStarted, PnpEventRemoved,
         PnpEventRemovedChildrenRemoved, PnpEventFdoRemoved, PnpEventFinal
<1>15. QED
  BY <1>5, <1>6, <1>7, <1>13, <1>14 DEF PnpNext, PnpEntersState

LEMMA UserUses ==
    ASSUME Sound, CountInv, UserNext
    PROVE  About(idle, idle')
<1>1. ASSUME idle' = idle PROVE About(idle, idle')
  BY <1>1 DEF About
<1>2. \A n : Uses(idle, n) /\ idle' = Idle!Settled(n) /\ n \in Idle!IdleMachine => About(idle, idle')
  BY SettledIs DEF Uses, About
<1>3. ASSUME idle' = Idle!Settled(Idle!IoIncrement(idle))
      PROVE  About(idle, idle')
  BY <1>2, <1>3, UsesHeard DEF Heeds
<1>4. ASSUME idle' = Idle!Settled(Idle!IoDecrement(idle)), idle.count > 0
      PROVE  About(idle, idle')
  BY <1>2, <1>4, UsesHeard DEF Heeds
<1>5. users.queue = "referenced" \/ waiter # "none" => idle.count > 0
  BY DEF CountInv, CountIsHolders
<1>6. CASE SetTransitionFromEmpty
  BY <1>1, <1>3, <1>6 DEF SetTransitionFromEmpty, IdleOperation, IdleBecomes, references
<1>7. CASE QueueIsEmpty
  BY <1>1, <1>4, <1>5, <1>7 DEF QueueIsEmpty, IdleOperation, IdleBecomes, references
<1>8. CASE ThreadReferences
  BY <1>3, <1>8 DEF ThreadReferences
<1>9. CASE ThreadWaitsForD0
  BY <1>1, <1>9 DEF ThreadWaitsForD0
<1>10. CASE ThreadGoesOn
  BY <1>1, <1>4, <1>5, <1>10 DEF ThreadGoesOn, ThreadLeaves
<1>11. CASE ThreadDereferences
  BY <1>4, <1>5, <1>11 DEF ThreadDereferences, ThreadLeaves
<1>12. CASE PowerPolicySetS0IdleState
  BY <1>1, <1>12 DEF PowerPolicySetS0IdleState, references
<1>13. QED
  BY <1>6, <1>7, <1>8, <1>9, <1>10, <1>11, <1>12 DEF UserNext

(* or the timer                                                            *)
TimesOut == idle.state = "TimerRunning" /\ idle'.state = "TimedOut" /\ idle.count = 0
Expires == idle.state = "DisablingWaitForTimeout" /\ idle'.state = "Disabled"

LEMMA SystemTimes ==
    ASSUME Sound, CountInv, SystemNext
    PROVE  About(idle, idle') \/ TimesOut \/ Expires
<1>1. CASE PowerTimeoutDpcRoutine
  <2>1. idle.timer = "fired" /\ idle' = Idle!Settled(Idle!PowerTimeoutDpcRoutine(idle))
    BY <1>1 DEF PowerTimeoutDpcRoutine, IdleOperation, IdleBecomes
  <2>2. QED
    BY <2>1, TimeoutHeard, SettledIs DEF Heeds, About, TimesOut, Expires, Awake
<1>2. CASE TimerDue
  <2>1. idle' = [idle EXCEPT !.timer = "fired"] /\ idle \in Idle!IdleMachine
    BY <1>2 DEF TimerDue, Idle!TimerFires, CountInv
  <2>2. QED
    BY <2>1 DEF About, Idle!IdleMachine
<1>3. CASE idle' = idle
  BY <1>3 DEF About
<1>4. QED
  BY <1>1, <1>2, <1>3
     DEF SystemNext, DispatchDeviceSetPower, DevicePowerIrpCompletes, SystemSleeps, SystemWakes,
         ManagerSends, StartDeviceCompletes, references

(* In D0 the entry functions of the power machine leave the idle machine   *)
(* alone                                                                   *)
LEMMA DZeroStands ==
    ASSUME CountInv, PowerEntersState, at["power"] \in DZero
    PROVE  idle' = idle
<1>1. \A s, next, posts : PowerEntry(s, next, posts) => at["power"] = s
  BY DEF PowerEntry, Entry
<1>2. at["power"] \in {"DecideD0State", "D0"}
  BY DEF DZero
<1>3. \A s, next : PowerPasses(s, next) => idle' = idle
  BY DEF PowerPasses, Elsewhere, references
<1>4. CASE PowerDecideD0State \/ PowerDZero
  BY <1>3, <1>4 DEF PowerDecideD0State, PowerDZero
<1>5. \A s, next : PowerPasses(s, next) => at["power"] = s
  BY <1>1 DEF PowerPasses
<1>6. \A s, ok, undo, failed : CallD0Entry(s, ok, undo, failed) => at["power"] = s
  BY <1>1 DEF CallD0Entry
<1>7. \A s, ok, failed : ConnectInterrupt(s, ok, failed) \/ DmaEnable(s, ok, failed) => at["power"] = s
  BY <1>1 DEF ConnectInterrupt, DmaEnable
<1>8. \A s, ok, undo, failed, posts : PostHardwareEnabled(s, ok, undo, failed, posts) => at["power"] = s
  BY <1>1 DEF PostHardwareEnabled
<1>9. \A s, ok, undo, failed, released : StartIo(s, ok, undo, failed, released) => at["power"] = s
  BY <1>1 DEF StartIo, PowerSendPowerUpEvents
<1>10. \A s, stages, next : PowerUndoes(s, stages, next) \/ SuspendsIgnored(s, next) => at["power"] = s
  BY <1>1 DEF PowerUndoes, SuspendsIgnored
<1>11. /\ \A s, next : PowerSendPowerUpFailureEvent(s, next) => at["power"] = s
       /\ \A s, next, posts : PowerSendPowerDownEvents(s, next, posts) => at["power"] = s
       /\ \A s, next : ImplicitPowerDown(s, next) => at["power"] = s
  BY <1>1 DEF PowerSendPowerUpFailureEvent, PowerSendPowerDownEvents, ImplicitPowerDown
<1>12. CASE \/ PowerStartingCheckDeviceType \/ PowerCheckDeviceType
            \/ PowerNotifyingD0EntryToWakeInterrupts
            \/ PowerInitialPowerUpFailedDerefParent \/ PowerUpFailedDerefParent
            \/ PowerReportPowerUpFailedDerefParent \/ PowerNotifyingD0ExitToWakeInterrupts
            \/ PowerGotoDxFailed \/ PowerGotoDxStoppedDisableInterrupt
  BY <1>2, <1>5, <1>12
     DEF PowerStartingCheckDeviceType, PowerCheckDeviceType, PowerNotifyingD0EntryToWakeInterrupts,
         PowerInitialPowerUpFailedDerefParent, PowerUpFailedDerefParent,
         PowerReportPowerUpFailedDerefParent, PowerNotifyingD0ExitToWakeInterrupts,
         PowerGotoDxFailed, PowerGotoDxStoppedDisableInterrupt
<1>13. CASE \/ PowerD0Starting \/ PowerWaking
            \/ PowerD0StartingConnectInterrupt \/ PowerWakingConnectInterrupt
            \/ PowerD0StartingDmaEnable \/ PowerWakingDmaEnable
            \/ PowerD0StartingPostHardwareEnabled \/ PowerWakingPostHardwareEnabled
            \/ PowerD0StartingStartSelfManagedIo \/ PowerStartSelfManagedIo
  BY <1>2, <1>6, <1>7, <1>8, <1>9, <1>13
     DEF PowerD0Starting, PowerWaking, PowerD0StartingConnectInterrupt, PowerWakingConnectInterrupt,
         PowerD0StartingDmaEnable, PowerWakingDmaEnable, PowerD0StartingPostHardwareEnabled,
         PowerWakingPostHardwareEnabled, PowerD0StartingStartSelfManagedIo, PowerStartSelfManagedIo
<1>14. CASE \/ PowerInitialSelfManagedIoFailedStarted \/ PowerStartSelfManagedIoFailedStarted
            \/ PowerInitialSelfManagedIoFailed \/ PowerStartSelfManagedIoFailed
            \/ PowerInitialPostHardwareEnabledFailed \/ PowerWakingPostHardwareEnabledFailed
            \/ PowerInitialDmaEnableFailed \/ PowerWakingDmaEnableFailed
            \/ PowerInitialConnectInterruptFailed \/ PowerWakingConnectInterruptFailed
            \/ PowerInitialPowerUpFailedPowerDown \/ PowerUpFailedPowerDown
  BY <1>2, <1>10, <1>14
     DEF PowerInitialSelfManagedIoFailedStarted, PowerStartSelfManagedIoFailedStarted,
         PowerInitialSelfManagedIoFailed, PowerStartSelfManagedIoFailed,
         PowerInitialPostHardwareEnabledFailed, PowerWakingPostHardwareEnabledFailed,
         PowerInitialDmaEnableFailed, PowerWakingDmaEnableFailed,
         PowerInitialConnectInterruptFailed, PowerWakingConnectInterruptFailed,
         PowerInitialPowerUpFailedPowerDown, PowerUpFailedPowerDown
<1>15. CASE \/ PowerInitialPowerUpFailed \/ PowerReportPowerUpFailed
            \/ PowerPowerFailedPowerDown \/ PowerGotoDxStopped
  BY <1>2, <1>11, <1>15
     DEF PowerInitialPowerUpFailed, PowerReportPowerUpFailed, PowerPowerFailedPowerDown, PowerGotoDxStopped
<1>17. CASE PowerFinalPowerDownFailed \/ PowerGotoDNotZero \/ PowerReportPowerDownFailed
  BY <1>1, <1>2, <1>17 DEF PowerFinalPowerDownFailed, PowerGotoDNotZero, PowerReportPowerDownFailed
<1>18. CASE PowerGotoD3Stopped
  BY <1>1, <1>2, <1>11, <1>18 DEF PowerGotoD3Stopped
<1>19. CASE PowerGotoDNotZeroIoStopped
  BY <1>1, <1>2, <1>11, <1>19 DEF PowerGotoDNotZeroIoStopped
<1>16. QED
  BY <1>4, <1>12, <1>13, <1>14, <1>15, <1>17, <1>18, <1>19 DEF PowerEntersState

(* It comes to D0 or Dx as the idle machine was told                       *)
LEMMA PowerArrives ==
    ASSUME Asks, PolicyStands, NoOrder', Lockstep', IdleFits'
    PROVE  DxFits'
<1> DEFINE p == at["policy"]
           o == OrderOf(p)
           w == WhileDown(p)
<1>1. SUFFICES ASSUME at'["power"] \in DZero \cup {"Dx"}
               PROVE  idle'.state = "InDx" <=> at'["power"] = "Dx"
  BY DEF DxFits
<1>2. Asks' /\ at'["policy"] = p
  BY DEF Asks, PolicyStands
<1>3. CarriesOut(at'["power"]) = {}
  BY <1>1 DEF CarriesOut, DZero
<1>4. /\ IrpSent' \/ IrpReleased' \/ Answered'
      /\ Powering' => at'["power"] \in DZero
  <2>1. ~PolicyActs' /\ ~OrderQueued' /\ ~PowerActs'
    BY <1>2, <1>3 DEF PolicyActs, OrderQueued, PowerActs, NoOrder
  <2>2. QED
    BY <2>1 DEF Lockstep, IrpSent, IrpReleased, Answered, Rests
<1>5. o \in {"ImplicitD0", "ImplicitD3", "Dx", "CompleteDx", "D0", "CompleteD0"}
  BY DEF Asks, OrderOf
<1>6. /\ at'["power"] = "Dx" => o \in {"D0", "CompleteDx"}
      /\ at'["power"] \in DZero => o \in {"ImplicitD0", "Dx", "CompleteD0"}
  <2>1. CASE IrpSent'
    BY <1>2, <2>1, OrderRests DEF IrpSent, DZero
  <2>2. CASE IrpReleased'
    BY <1>2, <2>2 DEF IrpReleased, DZero
  <2>3. CASE Answered'
    BY <1>2, <1>5, <2>3 DEF Answered, Outcome, DZero
  <2>4. QED
    BY <1>4, <2>1, <2>2, <2>3
<1>7. w \in {{"TimedOut"}, {"Disabled"}}
  BY DEF WhileDown
<1>8. /\ at'["power"] = "Dx" => IdlePlaces' = {"InDx"}
      /\ at'["power"] \in DZero => IdlePlaces' \in {{"TimedOut"}, {"Disabled"}}
  BY <1>1, <1>4, <1>6, <1>7, AskingFitsAfter DEF PlacesMid, PlacesEnd, DZero
<1>9. QED
  BY <1>1, <1>8 DEF IdleFits, DZero

(* What is about in it, or leaves the device in Dx, keeps that             *)
LEMMA DxFrame ==
    ASSUME DxFits, at'["power"] = at["power"], idle'.state = "InDx" <=> idle.state = "InDx"
    PROVE  DxFits'
BY DEF DxFits

LEMMA DxInit == Init => DxFits
BY DEF Init, DxFits, DZero, Idle!InitialIdle

LEMMA DxStep ==
    ASSUME DeviceInv, DeviceInv', IdleLock, IdleLock', DxFits, [Next]_vars
    PROVE  DxFits'
<1>1. /\ CountInv /\ StageInv /\ queue \in Queues /\ Lockstep /\ PnpLockstep /\ Sound
      /\ Lockstep' /\ IdleFits' /\ SmioFits
  BY DEF DeviceInv, StepInv, IdleLock, SmioInv
<1>2. CASE UNCHANGED vars
  BY <1>2, DxFrame DEF vars
<1>3. CASE PowerProcessEventInner
  <2>1. \E r \in PowerRows : at'["power"] = r[3]
    BY <1>1, <1>3, PowerTakes
  <2>2. at'["power"] \notin DZero \cup {"Dx"}
    BY <2>1, PowerRowOrders
  <2>3. QED
    BY <2>2 DEF DxFits
<1>4. CASE Powering /\ PowerEntersState
  <2>1. PowerQuiet
    BY <1>1, <1>4, PowerKeepsStep DEF PowerNext, Powering
  <2>2. CASE at["power"] \in DZero
    <3>1. idle' = idle /\ at'["power"] \in DZero
      BY <1>1, <1>4, <2>2, DZeroStands, PowerManagesAll DEF PowerManages
    <3>2. QED
      BY <2>2, <3>1 DEF DxFits, DZero
  <2>3. CASE at["power"] \notin DZero
    BY <1>1, <1>4, <2>1, <2>3, PowerIsActing, PowerArrives DEF PowerActs, PowerQuiet
  <2>4. QED
    BY <2>2, <2>3
<1>5. CASE PowerPolicyProcessEventInner
  BY <1>1, <1>5, DxFrame, PolicyTakes, PolicyEventKeepsLock DEF PowerStands
<1>6. CASE PolicyEnters /\ PowerPolicyEntersState
  <2> DEFINE s == at["policy"]
  <2>1. ~Asks /\ PolicyActs /\ NoOrder /\ at["power"] \in RestsAt(s)
    BY <1>1, <1>6, PolicyIsActing DEF Asks, PolicyActs, PolicyEnters
  <2>2. PolicySays(s) /\ PowerStands
    BY <1>1, <1>6, <2>1, PolicySaysAll, PolicyMovesAll DEF PolicyGoes
  <2>3. idle.state \in IdleBefore(s)
    BY <1>6, <2>1 DEF IdleLock, IdleFits, IdlePlaces
  <2>4. idle'.state \in IdleAfter(s, idle.state) /\ (idle'.state = "InDx" => idle.state = "InDx")
    BY <1>1, <2>2, <2>3, PolicyTurn DEF PolicySays
  <2>5. CASE IdleEventOf(s) = "Stop"
    <3>1. s \in {"StartingFailed", "RestartingFailed", "StoppingSendStatus"}
      BY <2>5 DEF IdleEventOf
    <3>2. at'["power"] \in Off
      BY <2>1, <2>2, <3>1 DEF RestsAt, PowerStands
    <3>3. QED
      BY <3>2 DEF DxFits, Off, DZero
  <2>6. CASE IdleEventOf(s) # "Stop" /\ idle.state = "InDx"
    <3>1. IdleEventOf(s) \in {"none", "Disabled"}
      <4>1. IdleEventOf(s) \in {"Start", "Stop", "Enabled", "Disabled", "none"}
        BY DEF IdleEventOf
      <4>2. IdleEventOf(s) = "Start" => IdleBefore(s) = {"Stopped"}
        BY DEF IdleEventOf, IdleBefore, IdleWhile
      <4>3. IdleEventOf(s) = "Enabled" => IdleBefore(s) = {"Disabled", "TimedOut"}
        BY DEF IdleEventOf, IdleBefore
      <4>4. QED
        BY <2>3, <2>6, <4>1, <4>2, <4>3
    <3>2. idle'.state = "InDx"
      BY <2>4, <2>6, <3>1 DEF IdleAfter
    <3>3. QED
      BY <2>2, <2>6, <3>2, DxFrame DEF PowerStands
  <2>7. CASE idle.state # "InDx"
    BY <2>2, <2>4, <2>7, DxFrame DEF PowerStands
  <2>8. QED
    BY <2>5, <2>6, <2>7
<1>7. ASSUME About(idle, idle') \/ TimesOut \/ Expires, at'["power"] = at["power"]
      PROVE  DxFits'
  BY <1>7, DxFrame DEF About, TimesOut, Expires, Awake
<1>8. CASE PnpNext
  <2>1. at'["power"] = at["power"]
    <3>1. CASE PnpProcessEventInner
      BY <1>1, <3>1, PnpTakes DEF PowerStands
    <3>2. CASE "pnp" \in entering /\ PnpEntersState
      BY <1>1, <3>2, PnpMovesAll DEF PnpGoes, PowerStands
    <3>3. QED
      BY <1>8, <3>1, <3>2 DEF PnpNext
  <2>2. QED
    BY <1>1, <1>7, <1>8, <2>1, PnpUses
<1>9. CASE SystemNext
  BY <1>1, <1>7, <1>9, SystemTimes, SystemKeepsStep DEF AsideQuiet
<1>10. CASE UserNext
  BY <1>1, <1>7, <1>10, UserUses, UserKeepsStep DEF AsideQuiet
<1>11. QED
  BY <1>2, <1>3, <1>4, <1>5, <1>6, <1>8, <1>9, <1>10
     DEF Next, PowerNext, PowerPolicyNext, Powering, PolicyEnters

(* The device is in D0 where the idle machine says so, in a system that is *)
(* awake, unless power failed                                              *)
LEMMA UpIs ==
    ASSUME DeviceInv, IdleLock, DxFits, idle.d0, "PowerFailed" \notin idle.flags,
           at["policy"] \in Runs, os.sys = "S0"
    PROVE  at["power"] \in DZero
<1> DEFINE p == at["policy"]
<1>1. Lockstep /\ SmioFits /\ IdleFits /\ PowerFailureKnown /\ SleepFits /\ Sound
  BY DEF DeviceInv, StepInv, IdleLock, SmioInv
<1>2. idle.state \notin {"Started", "TimedOut", "InDx"}
  BY <1>1 DEF Sound, Idle!IdleInv, Idle!IdleSound, Idle!D0EventMeans
<1>3. ~FallsAsleep
  BY <1>1 DEF SleepFits
<1>4. p \notin IdlingOut
  BY <1>1, <1>2, OutIs DEF Out
<1>5. at["power"] # "Dx" /\ (at["power"] \in Broken => Powering)
  BY <1>1, <1>2 DEF DxFits, PowerFailureKnown
<1>6. p \notin {"SleepingNoWakePowerDown", "SleepingNoWakeCompletePowerDown"}
  BY <1>3 DEF FallsAsleep, SleepsNow
<1>7. CASE ~Asks
  <2>1. Rests /\ at["power"] \in RestsAt(p)
    BY <1>1, <1>7, PolicyIsActing DEF PolicyActs
  <2>2. at["power"] \notin Broken
    BY <1>5, <2>1 DEF Rests, Broken, DZero
  <2>3. CASE p \in {"S0NoWakeCompletePowerUp", "SystemWakeDeviceToD0CompletePowerUp"}
    <3>1. IdlePlaces = {"InDx"}
      BY <1>7, <2>3 DEF IdlePlaces, IdleBefore, IdleWhile
    <3>2. QED
      BY <1>1, <1>2, <3>1 DEF IdleFits
  <2>4. CASE p \notin {"S0NoWakeCompletePowerUp", "SystemWakeDeviceToD0CompletePowerUp"}
    <3>1. RestsAt(p) \subseteq DZero \cup {"Dx"} \cup Broken
      BY <1>4, <1>6, <2>4 DEF RestsAt, Runs, IdlingOut
    <3>2. QED
      BY <1>5, <2>1, <2>2, <3>1
  <2>5. QED
    BY <2>3, <2>4
<1>8. CASE Asks
  <2>1. OrderOf(p) \in {"D0", "CompleteD0"}
    BY <1>4, <1>6, <1>8 DEF Asks, OrderOf, Runs, IdlingOut
  <2>2. idle.state \in IdleAsking(p, at["power"], Powering, queue["power"] # <<>>)
    BY <1>1, <1>8 DEF IdleFits, IdlePlaces
  <2>3. at["power"] \in DZero \/ (at["power"] = "ReportPowerUpFailed" /\ ~Powering)
    BY <1>2, <2>1, <2>2 DEF IdleAsking
  <2>4. QED
    BY <1>5, <2>3 DEF Broken
<1>9. QED
  BY <1>7, <1>8

LEMMA DZeroIsUp ==
    ASSUME StageInv, SmioFits, at["power"] \in DZero
    PROVE  InD0 \subseteq device.up
<1>1. PowerStages = InD0
  <2>1. Powering \/ at["power"] = "D0"
    BY DEF SmioFits, SmioWaiting, DZero, Broken
  <2>2. QED
    BY <2>1 DEF PowerStages, Entering, Waiting, DZero, Powering
<1>2. QED
  BY <1>1 DEF StageInv

-----------------------------------------------------------------------------
(* A failure of power is never forgotten, and the PnP machine's event not  *)
(* before it is sent                                                       *)
LEMMA FailureSticks ==
    ASSUME Sound, [Idle!IdleNext]_idle
    PROVE  "PowerFailed" \in idle.flags => "PowerFailed" \in idle'.flags
<1>1. \A n : Heeds(n) /\ idle' = Idle!Settled(n) =>
         ("PowerFailed" \in idle.flags => "PowerFailed" \in idle'.flags)
  BY SettledIs DEF Heeds
<1>2. CASE \E e \in Idle!IdleEvents : Idle!UserEvent(e)
  <2>1. PICK e \in Idle!IdleEvents : Idle!Legal(idle, e) /\ idle' = Idle!Settled(Hears(e))
    BY <1>2 DEF Idle!UserEvent, Hears
  <2>2. e \in UserEvents
    BY <2>1 DEF Idle!IdleEvents, UserEvents, Idle!Legal
  <2>3. QED
    BY <1>1, <2>1, <2>2, UserEventHeard
<1>3. CASE Idle!Reference \/ Idle!Dereference \/ Idle!Query
  BY <1>1, <1>3, UsesHeard DEF Idle!Reference, Idle!Dereference, Idle!Query
<1>4. CASE Idle!ReferenceForPnp
  BY <1>4, ReferenceForPnpHeard, SettledIs DEF Idle!ReferenceForPnp
<1>5. CASE Idle!TimerDue
  <2>1. idle' = [idle EXCEPT !.timer = "fired"] /\ idle \in Idle!IdleMachine
    BY <1>5 DEF Idle!TimerDue, Idle!TimerFires, Sound, Idle!IdleInv, Idle!IdleTypeOK
  <2>2. QED
    BY <2>1 DEF Idle!IdleMachine
<1>6. CASE Idle!TimerDpc
  BY <1>1, <1>6, TimeoutHeard DEF Idle!TimerDpc
<1>7. QED
  BY <1>2, <1>3, <1>4, <1>5, <1>6 DEF Idle!IdleNext

LEMMA PromiseSticks ==
    ASSUME Sound, Idle!IdleInv', [Idle!IdleNext]_idle, "SendPnpPowerUpEvent" \in idle.flags
    PROVE  "SendPnpPowerUpEvent" \in idle'.flags \/ idle'.d0
<1>1. /\ idle.state \in {"Started", "TimedOut", "InDx"}
      /\ ~idle'.d0 <=> idle'.state \in {"Started", "TimedOut", "InDx"}
      /\ idle \in Idle!IdleMachine /\ idle.timer # "fired" /\ idle.timer # "armed"
  <2>1. idle.state \in {"Started", "TimedOut", "InDx"} /\ idle \in Idle!IdleMachine
    BY DEF Sound, Idle!IdleInv, Idle!IdleSound, Idle!D0EventMeans, Idle!IdleTypeOK
  <2>2. idle.timer = "off"
    BY <2>1 DEF Sound, Idle!IdleInv, Idle!IdleSound, Idle!TimerTracked
  <2>3. QED
    BY <2>1, <2>2 DEF Idle!IdleInv, Idle!IdleSound, Idle!D0EventMeans
<1>2. CASE \E e \in Idle!IdleEvents : Idle!UserEvent(e)
  <2>1. PICK e \in Idle!IdleEvents : Idle!Legal(idle, e) /\ idle' = Idle!Settled(Hears(e))
    BY <1>2 DEF Idle!UserEvent, Hears
  <2>2. e \in UserEvents
    BY <2>1 DEF Idle!IdleEvents, UserEvents, Idle!Legal
  <2>3. Turns(e, idle, Hears(e)) /\ idle'.state = Hears(e).state /\ idle'.flags = Hears(e).flags
    BY <2>1, <2>2, UserEventHeard, SettledIs DEF Heeds
  <2>4. CASE e = "Enabled" /\ idle.state = "InDx"
    <3>1. Hears(e) = Idle!InDxEnabled(idle)
      BY <2>4 DEF Hears, Idle!ProcessEventLocked, Idle!Enter
    <3>2. "SendPnpPowerUpEvent" \in Hears(e).flags
      BY <1>1, <3>1 DEF Idle!InDxEnabled, Idle!InDx, Idle!Set, Idle!At, Idle!IdleMachine
    <3>3. QED
      BY <2>3, <3>2
  <2>5. CASE e = "Disabled" /\ idle.state = "InDx"
    <3>1. Hears(e) = Idle!InDxDisabled(idle)
      BY <2>5 DEF Hears, Idle!ProcessEventLocked, Idle!Enter
    <3>2. "SendPnpPowerUpEvent" \in Hears(e).flags
      BY <1>1, <3>1 DEF Idle!InDxDisabled, Idle!InDx, Idle!Set, Idle!Clear, Idle!At, Idle!IdleMachine
    <3>3. QED
      BY <2>3, <3>2
  <2>6. CASE e \in {"Start", "Stop", "PowerUpComplete", "PowerUpFailed", "PowerDown", "PowerDownFailed"}
    BY <1>1, <2>1, <2>3, <2>6 DEF Turns, Idle!Legal
  <2>7. CASE e \in {"Enabled", "Disabled"} /\ idle.state # "InDx"
    <3>1. idle.state = "TimedOut"
      <4>1. idle.state = "Started" => "TimerEnabled" \notin idle.flags
        BY DEF Sound, Idle!IdleInv, Idle!IdleSound, Idle!FlagsFollow
      <4>2. QED
        BY <1>1, <2>1, <2>7, <4>1 DEF Idle!Legal
    <3>2. QED
      BY <1>1, <2>3, <2>7, <3>1 DEF Turns
  <2>8. QED
    BY <2>2, <2>4, <2>5, <2>6, <2>7 DEF UserEvents
<1>3. ASSUME NEW n, Uses(idle, n), idle' = Idle!Settled(n), n \in Idle!IdleMachine,
             idle.state \in {"TimedOut", "InDx"}
      PROVE  "SendPnpPowerUpEvent" \in idle'.flags
  BY <1>3, SettledIs DEF Uses
<1>4. ASSUME NEW m, m.flags = idle.flags, m.state = "Started", m \in Idle!IdleMachine,
             idle' \in {Idle!Settled(Idle!ProcessEventLocked(m, "IoIncrement")),
                        Idle!Settled(Idle!ProcessEventLocked(m, "IoDecrement")),
                        Idle!Settled(Idle!Set(Idle!ProcessEventLocked(m, "IoIncrement"), {"SendPnpPowerUpEvent"}))}
      PROVE  "SendPnpPowerUpEvent" \in idle'.flags
  <2>1. \A e \in {"IoIncrement", "IoDecrement"} :
           Idle!ProcessEventLocked(m, e) = [m EXCEPT !.trap = @ \/ ~Idle!Ignored(m, e)]
    BY <1>4 DEF Idle!ProcessEventLocked, Idle!Enter
  <2>2. \A e \in {"IoIncrement", "IoDecrement"} :
           LET n == Idle!ProcessEventLocked(m, e)
           IN  n.flags = idle.flags /\ n \in Idle!IdleMachine
    BY <1>4, <2>1 DEF Idle!IdleMachine, Idle!Ignored
  <2>3. \A n \in Idle!IdleMachine, f \in SUBSET Idle!IdleFlags :
           /\ Idle!Settled(n).flags = n.flags
           /\ Idle!Settled(Idle!Set(n, f)).flags = n.flags \cup f
    BY DEF Idle!Settled, Idle!Set, Idle!IdleMachine
  <2>4. {"SendPnpPowerUpEvent"} \in SUBSET Idle!IdleFlags
    BY DEF Idle!IdleFlags
  <2>5. QED
    BY <1>4, <2>2, <2>3, <2>4
<1>5. CASE Idle!Reference \/ Idle!Dereference \/ Idle!Query \/ Idle!ReferenceForPnp
  <2>1. CASE idle.state \in {"TimedOut", "InDx"}
    BY <1>3, <1>5, <2>1, UsesHeard, ReferenceForPnpHeard
       DEF Idle!Reference, Idle!Dereference, Idle!Query, Idle!ReferenceForPnp, Heeds
  <2>2. CASE idle.state = "Started" /\ Idle!Query
    BY <1>1, <2>2 DEF Idle!Query, Idle!Queried, Idle!Clear, Idle!Settled, Idle!IdleMachine
  <2>3. CASE idle.state = "Started" /\ Idle!Dereference
    <3> DEFINE m == [idle EXCEPT !.count = @ - 1]
    <3>1. m.flags = idle.flags /\ m.state = "Started" /\ m \in Idle!IdleMachine
      BY <1>1, <2>3 DEF Idle!IdleMachine, Idle!Dereference
    <3>2. idle' = Idle!Settled(Idle!ProcessEventLocked(m, "IoDecrement"))
      BY <2>3 DEF Idle!Dereference, Idle!IoDecrement
    <3> HIDE DEF m
    <3>3. QED
      BY <1>4, <3>1, <3>2
  <2>4. CASE idle.state = "Started" /\ (Idle!Reference \/ Idle!ReferenceForPnp)
    <3> DEFINE m == [idle EXCEPT !.count = @ + 1]
    <3>1. m.flags = idle.flags /\ m.state = "Started" /\ m \in Idle!IdleMachine
      BY <1>1, <2>4 DEF Idle!IdleMachine
    <3>2. idle' \in {Idle!Settled(Idle!ProcessEventLocked(m, "IoIncrement")),
                     Idle!Settled(Idle!Set(Idle!ProcessEventLocked(m, "IoIncrement"), {"SendPnpPowerUpEvent"}))}
      BY <2>4 DEF Idle!Reference, Idle!ReferenceForPnp, Idle!IoIncrement, Idle!IoIncrementForPnp
    <3> HIDE DEF m
    <3>3. QED
      BY <1>4, <3>1, <3>2
  <2>5. QED
    BY <1>1, <1>5, <2>1, <2>2, <2>3, <2>4
<1>6. CASE Idle!TimerDue \/ Idle!TimerDpc
  BY <1>1, <1>6 DEF Idle!TimerDue, Idle!TimerDpc
<1>7. QED
  BY <1>2, <1>5, <1>6 DEF Idle!IdleNext

-----------------------------------------------------------------------------
(***************************************************************************)
(* The PnP manager and the PnP machine                                     *)
(***************************************************************************)
(* What the PnP machine is told of the IRPs, none of it by the other       *)
(* machines                                                                *)
Replies == {"StartDeviceComplete", "StartDeviceFailed"}
PnpIrps == DOMAIN Succeeded
Errands == PnpIrps \cup Replies

Unspoken == {p \in Machines \X Events : p[1] = "pnp" => p[2] \notin Errands}
Silent == {<<>>} \cup {<<a>> : a \in Unspoken} \cup {<<a, b>> : a, b \in Unspoken}
          \cup {<<a, b, c>> : a, b, c \in Unspoken}

Hushed == Kept(queue["pnp"], queue'["pnp"], Errands, {})

LEMMA KeptOn ==
    ASSUME NEW s, NEW t, NEW u, NEW W, Kept(s, t, W, {}), Kept(t, u, W, {})
    PROVE  Kept(s, u, W, {})
BY DEF Kept

LEMMA UnspokenKept ==
    ASSUME NEW q \in Queues, NEW p \in Unspoken
    PROVE  Post(q, p) \in Queues /\ Kept(q.pnp, Post(q, p).pnp, Errands, {})
<1> DEFINE m == p[1]
           e == p[2]
           t == Post(q, <<m, e>>)
<1>1. p = <<m, e>> /\ m \in Machines /\ e \in Events /\ "pnp" \in Machines
  BY DEF Unspoken, Machines
<1>2. /\ t \in Queues /\ \A n \in Machines : n # m => t[n] = q[n]
      /\ t[m] \in {q[m], Append(q[m], e), <<e>> \o q[m]}
  BY <1>1, PostGrows
<1>3. q.pnp \in Seq(Events)
  BY DEF Queues
<1>4. m = "pnp" => e \notin Errands
  BY DEF Unspoken
<1> HIDE DEF t, m, e
<1>5. Kept(q.pnp, t.pnp, Errands, {})
  BY <1>1, <1>2, <1>3, <1>4, KeptStays, KeptAppended, KeptPrepended
<1>6. QED
  BY <1>1, <1>2, <1>5 DEF t

LEMMA SilentKept ==
    ASSUME NEW q \in Queues, NEW posts \in Silent
    PROVE  Kept(q.pnp, PostAll(q, posts).pnp, Errands, {})
<1>1. CASE posts = <<>>
  BY <1>1, PostNone, KeptStays
<1>2. CASE \E a \in Unspoken : posts = <<a>>
  BY <1>2, PostOne, UnspokenKept
<1>3. ASSUME NEW a \in Unspoken, NEW b \in Unspoken
      PROVE  /\ Post(Post(q, a), b) \in Queues
             /\ Kept(q.pnp, Post(Post(q, a), b).pnp, Errands, {})
  BY UnspokenKept, KeptOn
<1>4. CASE \E a, b \in Unspoken : posts = <<a, b>>
  BY <1>3, <1>4, PostTwo
<1>5. CASE \E a, b, c \in Unspoken : posts = <<a, b, c>>
  <2>1. PICK a \in Unspoken, b \in Unspoken, c \in Unspoken : posts = <<a, b, c>>
    BY <1>5
  <2>2. Kept(q.pnp, Post(Post(Post(q, a), b), c).pnp, Errands, {})
    <3>1. Kept(Post(Post(q, a), b).pnp, Post(Post(Post(q, a), b), c).pnp, Errands, {})
      BY <1>3, UnspokenKept
    <3>2. QED
      BY <1>3, <3>1, KeptOn
  <2>3. QED
    BY <2>1, <2>2, PostThree
<1>6. QED
  BY <1>1, <1>2, <1>4, <1>5 DEF Silent

LEMMA UnspokenOnes ==
    /\ \A e \in Events : <<"policy", e>> \in Unspoken /\ <<"power", e>> \in Unspoken
    /\ \A e \in Events \ Errands : <<"pnp", e>> \in Unspoken
    /\ {"DeviceInD0", "PowerUpFailed", "PowerDownFailed", "PwrPolStarted", "PwrPolStartFailed",
        "PwrPolStopped", "PwrPolStopFailed", "PwrPolRemoved"} \subseteq Events \ Errands
    /\ {"PowerTimeoutExpired", "IoPresent", "PowerUp", "PowerUpFailed", "PowerUpHwStarted",
        "PowerDown", "PowerDownFailed", "PowerDownIoStopped", "PowerUpNotSeen", "ImplicitD0", "ImplicitD3",
        "CompleteD0", "CompleteDx", "D0", "Dx", "Sx", "S0", "S0IdlePolicyChanged", "Start", "Stop",
        "SurpriseRemove", "Remove"} \subseteq Events
<1>1. \A e \in Events : <<"policy", e>> \in Unspoken /\ <<"power", e>> \in Unspoken
  BY DEF Unspoken, Machines
<1>2. \A e \in Events \ Errands : <<"pnp", e>> \in Unspoken
  BY DEF Unspoken, Machines
<1>3. Errands = {"StartDevice", "QueryStop", "CancelStop", "Stop", "QueryRemove", "CancelRemove",
                 "SurpriseRemove", "Remove", "StartDeviceComplete", "StartDeviceFailed"}
  BY DEF Errands, PnpIrps, Replies, Succeeded
<1>4. QED
  BY <1>1, <1>2, <1>3 DEF Events, PwrPolPriorityEventsMask, Orders, Statuses

LEMMA IdlePostsUnspoken ==
    ASSUME NEW m
    PROVE  IdlePosts(m) = <<>> \/ \E a \in Unspoken : IdlePosts(m) = <<a>>
<1>1. {"DeviceInD0"} \subseteq Events \ Errands /\ {"PowerTimeoutExpired", "IoPresent"} \subseteq Events
  BY UnspokenOnes
<1>2. {<<"pnp", "DeviceInD0">>, <<"policy", "PowerTimeoutExpired">>, <<"policy", "IoPresent">>} \subseteq Unspoken
  BY <1>1, UnspokenOnes
<1>3. QED
  BY <1>2 DEF IdlePosts

LEMMA SilentOnes ==
    ASSUME NEW m
    PROVE  /\ <<>> \in Silent
           /\ \A a \in Unspoken : <<a>> \in Silent
           /\ \A a, b \in Unspoken : <<a, b>> \in Silent
           /\ IdlePosts(m) \in Silent /\ IdlePosts(m) \o <<>> \in Silent /\ <<>> \o IdlePosts(m) \in Silent
           /\ \A a \in Unspoken : IdlePosts(m) \o <<a>> \in Silent /\ <<a>> \o IdlePosts(m) \in Silent
           /\ \A a, b \in Unspoken : IdlePosts(m) \o <<a, b>> \in Silent
<1>1. /\ <<>> \in Silent
      /\ \A a \in Unspoken : <<a>> \in Silent
      /\ \A a, b \in Unspoken : <<a, b>> \in Silent
      /\ \A a, b, c \in Unspoken : <<a, b, c>> \in Silent
  BY DEF Silent
<1>2. CASE IdlePosts(m) = <<>>
  <2>1. /\ \A a : <<>> \o <<a>> = <<a>> /\ <<a>> \o <<>> = <<a>>
        /\ \A a, b : <<>> \o <<a, b>> = <<a, b>>
        /\ <<>> \o <<>> = <<>>
    OBVIOUS
  <2>2. QED
    BY <1>1, <1>2, <2>1
<1>3. ASSUME NEW d \in Unspoken, IdlePosts(m) = <<d>>
      PROVE  /\ IdlePosts(m) \in Silent /\ IdlePosts(m) \o <<>> \in Silent /\ <<>> \o IdlePosts(m) \in Silent
             /\ \A a \in Unspoken : IdlePosts(m) \o <<a>> \in Silent /\ <<a>> \o IdlePosts(m) \in Silent
             /\ \A a, b \in Unspoken : IdlePosts(m) \o <<a, b>> \in Silent
  <2>1. /\ \A a : <<d>> \o <<a>> = <<d, a>> /\ <<a>> \o <<d>> = <<a, d>>
        /\ \A a, b : <<d>> \o <<a, b>> = <<d, a, b>>
    BY OneThenOne, OneThenTwo
  <2>2. <<d>> \o <<>> = <<d>> /\ <<>> \o <<d>> = <<d>>
    OBVIOUS
  <2>3. /\ <<d>> \in Silent
        /\ \A a \in Unspoken : <<d, a>> \in Silent /\ <<a, d>> \in Silent
        /\ \A a, b \in Unspoken : <<d, a, b>> \in Silent
    BY <1>1
  <2>4. /\ \A a \in Unspoken : <<d>> \o <<a>> \in Silent /\ <<a>> \o <<d>> \in Silent
        /\ \A a, b \in Unspoken : <<d>> \o <<a, b>> \in Silent
    BY <2>1, <2>3
  <2>5. QED
    BY <1>3, <2>2, <2>3, <2>4
<1>4. QED
  BY <1>1, <1>2, <1>3, IdlePostsUnspoken

(* A step says nothing to the PnP machine of IRPs                          *)
SaysNothing == \E posts \in Silent : queue' = PostAll(queue, posts)

LEMMA PowerSaysNothing ==
    ASSUME PowerEntersState
    PROVE  SaysNothing /\ os' = os
<1>1. \A s, next, posts : PowerEntry(s, next, posts) /\ posts \in Silent => SaysNothing
  BY DEF PowerEntry, Entry, SaysNothing
<1>2. /\ <<>> \in Silent
      /\ \A m : IdlePosts(m) \in Silent /\ IdlePosts(m) \o <<>> \in Silent
  BY SilentOnes
<1>3. \A e \in {"PowerUp", "PowerUpHwStarted", "PowerDown", "PowerDownFailed", "PowerDownIoStopped"} :
         <<<<"policy", e>>>> \in Silent /\ \A m : IdlePosts(m) \o <<<<"policy", e>>>> \in Silent
  BY UnspokenOnes, SilentOnes
<1>4. \A m : IdlePosts(m) \o <<<<"policy", "PowerUpFailed">>, <<"pnp", "PowerUpFailed">>>> \in Silent
  BY UnspokenOnes, SilentOnes
<1>5. \A s, next : PowerPasses(s, next) => SaysNothing /\ os' = os
  BY <1>1, <1>2 DEF PowerPasses, Elsewhere, environment
<1>6. \A s, ok, undo, failed : CallD0Entry(s, ok, undo, failed) => SaysNothing /\ os' = os
  BY <1>1, <1>2 DEF CallD0Entry, Elsewhere, environment
<1>7. \A s, ok, failed : ConnectInterrupt(s, ok, failed) \/ DmaEnable(s, ok, failed) => SaysNothing /\ os' = os
  BY <1>1, <1>2 DEF ConnectInterrupt, DmaEnable, Elsewhere, environment
<1>8. \A s, ok, undo, failed, posts : PostHardwareEnabled(s, ok, undo, failed, posts) /\ posts \in Silent =>
         SaysNothing /\ os' = os
  BY <1>1, <1>2 DEF PostHardwareEnabled, Elsewhere, environment
<1>9. \A s, ok, undo, failed, released : StartIo(s, ok, undo, failed, released) => SaysNothing /\ os' = os
  BY <1>1, <1>2, <1>3 DEF StartIo, PowerSendPowerUpEvents, environment
<1>10. \A s, stages, next : PowerUndoes(s, stages, next) \/ SuspendsIgnored(s, next) => SaysNothing /\ os' = os
  BY <1>1, <1>2 DEF PowerUndoes, SuspendsIgnored, Elsewhere, environment
<1>11. /\ \A s, next : PowerSendPowerUpFailureEvent(s, next) => SaysNothing /\ os' = os
       /\ \A s, next : PowerSendPowerDownEvents(s, next, <<>>) => SaysNothing
       /\ \A s, next : ImplicitPowerDown(s, next) => SaysNothing
  BY <1>1, <1>2, <1>3, <1>4
     DEF PowerSendPowerUpFailureEvent, PowerSendPowerDownEvents, ImplicitPowerDown, environment
<1>12. CASE \/ PowerStartingCheckDeviceType \/ PowerCheckDeviceType \/ PowerDecideD0State \/ PowerDZero
            \/ PowerNotifyingD0EntryToWakeInterrupts
            \/ PowerInitialPowerUpFailedDerefParent \/ PowerUpFailedDerefParent
            \/ PowerReportPowerUpFailedDerefParent \/ PowerNotifyingD0ExitToWakeInterrupts
            \/ PowerGotoDxFailed \/ PowerGotoDxStoppedDisableInterrupt
  BY <1>5, <1>12
     DEF PowerStartingCheckDeviceType, PowerCheckDeviceType, PowerNotifyingD0EntryToWakeInterrupts,
         PowerDecideD0State, PowerDZero, PowerInitialPowerUpFailedDerefParent, PowerUpFailedDerefParent,
         PowerReportPowerUpFailedDerefParent, PowerNotifyingD0ExitToWakeInterrupts,
         PowerGotoDxFailed, PowerGotoDxStoppedDisableInterrupt
<1>13. CASE \/ PowerD0Starting \/ PowerWaking
            \/ PowerD0StartingConnectInterrupt \/ PowerWakingConnectInterrupt
            \/ PowerD0StartingDmaEnable \/ PowerWakingDmaEnable
            \/ PowerD0StartingPostHardwareEnabled \/ PowerWakingPostHardwareEnabled
            \/ PowerD0StartingStartSelfManagedIo \/ PowerStartSelfManagedIo
  BY <1>2, <1>3, <1>6, <1>7, <1>8, <1>9, <1>13
     DEF PowerD0Starting, PowerWaking, PowerD0StartingConnectInterrupt, PowerWakingConnectInterrupt,
         PowerD0StartingDmaEnable, PowerWakingDmaEnable, PowerD0StartingPostHardwareEnabled,
         PowerWakingPostHardwareEnabled, PowerD0StartingStartSelfManagedIo, PowerStartSelfManagedIo
<1>14. CASE \/ PowerInitialSelfManagedIoFailedStarted \/ PowerStartSelfManagedIoFailedStarted
            \/ PowerInitialSelfManagedIoFailed \/ PowerStartSelfManagedIoFailed
            \/ PowerInitialPostHardwareEnabledFailed \/ PowerWakingPostHardwareEnabledFailed
            \/ PowerInitialDmaEnableFailed \/ PowerWakingDmaEnableFailed
            \/ PowerInitialConnectInterruptFailed \/ PowerWakingConnectInterruptFailed
            \/ PowerInitialPowerUpFailedPowerDown \/ PowerUpFailedPowerDown
  BY <1>10, <1>14
     DEF PowerInitialSelfManagedIoFailedStarted, PowerStartSelfManagedIoFailedStarted,
         PowerInitialSelfManagedIoFailed, PowerStartSelfManagedIoFailed,
         PowerInitialPostHardwareEnabledFailed, PowerWakingPostHardwareEnabledFailed,
         PowerInitialDmaEnableFailed, PowerWakingDmaEnableFailed,
         PowerInitialConnectInterruptFailed, PowerWakingConnectInterruptFailed,
         PowerInitialPowerUpFailedPowerDown, PowerUpFailedPowerDown
<1>15. CASE \/ PowerInitialPowerUpFailed \/ PowerReportPowerUpFailed
            \/ PowerPowerFailedPowerDown \/ PowerGotoDxStopped
  BY <1>11, <1>15
     DEF PowerInitialPowerUpFailed, PowerReportPowerUpFailed, PowerPowerFailedPowerDown, PowerGotoDxStopped,
         PowerDownWasDone, environment
<1>16. CASE PowerFinalPowerDownFailed \/ PowerGotoDNotZero \/ PowerReportPowerDownFailed
  BY <1>1, <1>2, <1>3, <1>16
     DEF PowerFinalPowerDownFailed, PowerGotoDNotZero, PowerReportPowerDownFailed, Elsewhere, environment
<1>17. CASE PowerGotoD3Stopped
  BY <1>1, <1>2, <1>11, <1>17 DEF PowerGotoD3Stopped, environment
<1>18. CASE PowerGotoDNotZeroIoStopped
  BY <1>1, <1>2, <1>11, <1>18 DEF PowerGotoDNotZeroIoStopped, environment
<1>19. QED
  BY <1>12, <1>13, <1>14, <1>15, <1>16, <1>17, <1>18 DEF PowerEntersState

LEMMA PolicySaysNothing ==
    ASSUME PowerPolicyEntersState
    PROVE  SaysNothing /\ os' \in {os, CompleteSystemPowerIrp(os)}
<1> DEFINE Spoken == {<<>>} \cup {ToPower(e) : e \in {"ImplicitD0", "ImplicitD3", "CompleteD0", "CompleteDx"}}
                     \cup {ToPnp(e) : e \in {"PowerUpFailed", "PowerDownFailed", "PwrPolStarted", "PwrPolStartFailed",
                                             "PwrPolStopped", "PwrPolStopFailed", "PwrPolRemoved"}}
           Result == SaysNothing /\ os' \in {os, CompleteSystemPowerIrp(os)}
<1>1. \A s, next, posts : PolicyEntry(s, next, posts) /\ posts \in Silent => SaysNothing
  BY DEF PolicyEntry, Entry, SaysNothing
<1>2. /\ <<>> \in Silent
      /\ \A m : IdlePosts(m) \in Silent /\ IdlePosts(m) \o <<>> \in Silent
  BY SilentOnes
<1>3. \A posts \in Spoken : posts \in Silent /\ \A m : IdlePosts(m) \o posts \in Silent
  BY UnspokenOnes, SilentOnes DEF ToPower, ToPnp
<1>4. /\ <<>> \in Spoken
      /\ \A e \in {"ImplicitD0", "ImplicitD3", "CompleteD0", "CompleteDx"} : ToPower(e) \in Spoken
      /\ \A e \in {"PowerUpFailed", "PowerDownFailed", "PwrPolStarted", "PwrPolStartFailed",
                   "PwrPolStopped", "PwrPolStopFailed", "PwrPolRemoved"} : ToPnp(e) \in Spoken
  OBVIOUS
<1> HIDE DEF Spoken
<1>5. \A s, next, posts : PolicyPosts(s, next, posts) /\ posts \in Spoken => Result
  BY <1>1, <1>3 DEF PolicyPosts, PolicyKeeps, environment
<1>6. \A s, next, m, posts : PolicyIdles(s, next, m, posts) /\ posts \in Spoken => Result
  BY <1>1, <1>3 DEF PolicyIdles, PolicyKeeps, environment
<1>7. \A s, to, failed : PolicySends(s, to, failed) => SaysNothing
  BY <1>1, <1>2 DEF PolicySends
<1>8. \A s, to, failed : PolicyRequests(s, to, failed) => Result
  BY <1>7 DEF PolicyRequests, environment
<1>9. \A s, d, next, posts : PolicyFails(s, d, next, posts) /\ posts \in Spoken => Result
  BY <1>1, <1>3 DEF PolicyFails, PolicyKeeps, environment
<1>10. /\ \A s, next, wait : CancelsTimer(s, next, wait) => Result
       /\ \A s, idleNext, busyNext : QueriesIdle(s, idleNext, busyNext) => Result
  BY <1>4, <1>6 DEF CancelsTimer, QueriesIdle
<1>11. \A s, d, next, posts : CompletesSystemPowerIrp(s, d, next, posts) /\ posts \in Spoken => Result
  BY <1>1, <1>3 DEF CompletesSystemPowerIrp
<1>12. \A s, next : PolicyPasses(s, next) => Result
  BY <1>4, <1>5 DEF PolicyPasses
<1>13. CASE PowerPolStartingPoweredUp
  BY <1>1, <1>2, <1>13 DEF PowerPolStartingPoweredUp, environment
<1>14. CASE PowerPolStoppingResetDevice
  BY <1>7, <1>14 DEF PowerPolStoppingResetDevice, environment
<1>15. CASE PowerPolStoppingSendStatus
  BY <1>1, <1>3, <1>4, <1>15 DEF PowerPolStoppingSendStatus, PolicyKeeps, environment
<1>16. CASE \/ PowerPolStarting \/ PowerPolStartingFailed \/ PowerPolStarted
            \/ PowerPolRestarting \/ PowerPolRestartingFailed \/ PowerPolStartedIdleCapable
            \/ PowerPolTimerExpiredNoWakePoweredDownDisableIdleTimer
  BY <1>4, <1>6, <1>16
     DEF PowerPolStarting, PowerPolStartingFailed, PowerPolStarted, PowerPolRestarting,
         PowerPolRestartingFailed, PowerPolStartedIdleCapable,
         PowerPolTimerExpiredNoWakePoweredDownDisableIdleTimer
<1>17. CASE \/ PowerPolStartingPoweredUpFailed \/ PowerPolStartingSucceeded
            \/ PowerPolTimerExpiredNoWakeCompletePowerDown \/ PowerPolS0NoWakeCompletePowerUp
            \/ PowerPolSleepingNoWakeCompletePowerDown \/ PowerPolSystemWakeDeviceToD0CompletePowerUp
            \/ PowerPolStoppingResetDeviceCompletePowerUp \/ PowerPolStopping \/ PowerPolRemoved
  BY <1>4, <1>5, <1>17
     DEF PowerPolStartingPoweredUpFailed, PowerPolStartingSucceeded,
         PowerPolTimerExpiredNoWakeCompletePowerDown, PowerPolS0NoWakeCompletePowerUp,
         PowerPolSleepingNoWakeCompletePowerDown, PowerPolSystemWakeDeviceToD0CompletePowerUp,
         PowerPolStoppingResetDeviceCompletePowerUp, PowerPolStopping, PowerPolRemoved
<1>18. CASE \/ PowerPolStartedCancelTimer \/ PowerPolStartedIdleCapableCancelTimerForSleep
            \/ PowerPolStoppingCancelTimer \/ PowerPolWaitingUnarmedQueryIdle \/ PowerPolSystemWakeQueryIdle
  BY <1>10, <1>18
     DEF PowerPolStartedCancelTimer, PowerPolStartedIdleCapableCancelTimerForSleep,
         PowerPolStoppingCancelTimer, PowerPolWaitingUnarmedQueryIdle, PowerPolSystemWakeQueryIdle
<1>19. CASE \/ PowerPolTimerExpiredNoWake \/ PowerPolS0NoWakePowerUp \/ PowerPolSleepingNoWakePowerDown
            \/ PowerPolSystemWakeDeviceToD0
  BY <1>8, <1>19
     DEF PowerPolTimerExpiredNoWake, PowerPolS0NoWakePowerUp, PowerPolSleepingNoWakePowerDown,
         PowerPolSystemWakeDeviceToD0
<1>20. CASE \/ PowerPolTimerExpiredNoWakePowerDownNotProcessed \/ PowerPolSleepingPowerDownNotProcessed
            \/ PowerPolDeviceD0PowerRequestFailed \/ PowerPolDevicePowerRequestFailed
            \/ PowerPolStoppingResetDeviceFailed \/ PowerPolStoppingFailed
  BY <1>4, <1>9, <1>20
     DEF PowerPolTimerExpiredNoWakePowerDownNotProcessed, PowerPolSleepingPowerDownNotProcessed,
         PowerPolDeviceD0PowerRequestFailed, PowerPolDevicePowerRequestFailed,
         PowerPolStoppingResetDeviceFailed, PowerPolStoppingFailed
<1>21. CASE \/ PowerPolSleepingNoWakeDxRequestFailed \/ PowerPolSystemSleepPowerRequestFailed
            \/ PowerPolSystemAsleepNoWake
  BY <1>4, <1>11, <1>21
     DEF PowerPolSleepingNoWakeDxRequestFailed, PowerPolSystemSleepPowerRequestFailed,
         PowerPolSystemAsleepNoWake
<1>22. CASE \/ PowerPolStartingDecideS0Wake \/ PowerPolIdleCapableDeviceIdle
            \/ PowerPolTimerExpiredNoWakeUndoPowerDown \/ PowerPolTimerExpiredNoWakeReturnToActive
            \/ PowerPolStartedIdleCapableTimerCanceledForSleep \/ PowerPolSleeping
            \/ PowerPolSystemSleepFromDeviceWaitingUnarmed \/ PowerPolSystemWakeDeviceWakeDisabled
            \/ PowerPolSystemWakeDevicePowerRequestFailed \/ PowerPolSystemWakeDeviceD0PowerRequestFailed
            \/ PowerPolStoppedRemoving
  BY <1>12, <1>22
     DEF PowerPolStartingDecideS0Wake, PowerPolIdleCapableDeviceIdle,
         PowerPolTimerExpiredNoWakeUndoPowerDown, PowerPolTimerExpiredNoWakeReturnToActive,
         PowerPolStartedIdleCapableTimerCanceledForSleep, PowerPolSleeping,
         PowerPolSystemSleepFromDeviceWaitingUnarmed, PowerPolSystemWakeDeviceWakeDisabled,
         PowerPolSystemWakeDevicePowerRequestFailed, PowerPolSystemWakeDeviceD0PowerRequestFailed,
         PowerPolStoppedRemoving
<1>23. QED
  BY <1>13, <1>14, <1>15, <1>16, <1>17, <1>18, <1>19, <1>20, <1>21, <1>22 DEF PowerPolicyEntersState

(* The entry functions of the PnP machine do not either; what each makes of *)
(* the IRP it deals with                                                   *)
FinishStates == {"FailedInit", "Started", "QueryStopPending", "QueryRemovePending", "Stopped",
                 "FailedPowerPolicyRemoved", "FailedSurpriseRemoved"}

SendStates == {"InitStarting", "StoppedWaitForStartCompletion"}

IrpAfter(s) ==
  CASE s \in FinishStates -> {FinishProcessingIrp(os)}
    [] s \in SendStates -> {[os EXCEPT !.below = TRUE]}
    [] s = "FailedStarted" -> {FinishProcessingIrp(FailPendingIrp(os))}
    [] s = "Final" -> {[os EXCEPT !.pnp = "none", !.ok = TRUE, !.manager = Succeeded["Remove"]]}
    [] OTHER -> {os, FailPendingIrp(os)}

LEMMA PnpSaysNothing ==
    ASSUME PnpEntersState
    PROVE  SaysNothing /\ os' \in IrpAfter(at["pnp"])
<1> DEFINE Plainly(s) == s \notin FinishStates \cup SendStates \cup {"FailedStarted", "Final"}
           Result == SaysNothing /\ os' \in IrpAfter(at["pnp"])
<1>1. \A s, next, posts : PnpEntry(s, next, posts) => at["pnp"] = s /\ (posts \in Silent => SaysNothing)
  BY DEF PnpEntry, Entry, SaysNothing
<1>2. /\ <<>> \in Silent
      /\ \A m : IdlePosts(m) \in Silent /\ <<>> \o IdlePosts(m) \in Silent
  BY SilentOnes
<1>3. \A e \in {"Start", "Stop", "SurpriseRemove", "Remove"} :
         ToPolicy(e) \in Silent /\ \A m : ToPolicy(e) \o IdlePosts(m) \in Silent
  BY UnspokenOnes, SilentOnes DEF ToPolicy
<1>4. \A s : Plainly(s) => IrpAfter(s) = {os, FailPendingIrp(os)}
  BY DEF IrpAfter
<1>5. \A s \in FinishStates : IrpAfter(s) = {FinishProcessingIrp(os)}
  BY DEF IrpAfter, FinishStates, SendStates
<1>6. \A s \in SendStates : IrpAfter(s) = {[os EXCEPT !.below = TRUE]}
  BY DEF IrpAfter, SendStates, FinishStates
<1>7. \A s, next, posts : PnpPosts(s, next, posts) /\ posts \in Silent /\ Plainly(s) => Result
  BY <1>1, <1>4 DEF PnpPosts
<1>8. \A s, next : PnpPasses(s, next) /\ Plainly(s) => Result
  BY <1>2, <1>7 DEF PnpPasses
<1>9. \A s, next : PnpFinishes(s, next) /\ s \in FinishStates => Result
  BY <1>1, <1>2, <1>5 DEF PnpFinishes
<1>10. \A s : SendsStartDown(s) /\ s \in SendStates => Result
  BY <1>1, <1>2, <1>6 DEF SendsStartDown
<1>11. \A s, ok, posts, early, late : PrepareHardware(s, ok, posts, early, late) /\ Plainly(s) /\ posts \in Silent => Result
  BY <1>1, <1>2, <1>4 DEF PrepareHardware
<1>12. \A s, next : StaticCheck(s, next) /\ Plainly(s) => Result
  BY <1>1, <1>2, <1>4 DEF StaticCheck
<1>13. \A s, pending : EnsureDeviceAwake(s, pending) /\ Plainly(s) => Result
  BY <1>1, <1>2, <1>4 DEF EnsureDeviceAwake
<1>14. \A s, next, posts : Dereferences(s, next, posts) /\ Plainly(s) /\ posts \in {<<>>, ToPolicy("Stop")} => Result
  BY <1>1, <1>2, <1>3, <1>4 DEF Dereferences
<1>15. \A s \in {"HardwareAvailable", "EnableInterfaces", "HardwareAvailablePowerPolicyFailed",
                 "StartedCancelStop", "StartedCancelRemove", "QueryStopStaticCheck", "QueryStopAskDriver",
                 "QueryRemoveStaticCheck", "QueryRemoveAskDriver", "QueryStopEnsureDeviceAwake",
                 "QueryRemoveEnsureDeviceAwake", "QueryCanceled", "StartedStopping", "QueriedRemoving",
                 "QueriedSurpriseRemove", "StartingFromStopped", "Restarting", "RemovingDisableInterfaces",
                 "SurpriseRemove", "SurpriseRemoveIoStarted", "FailedPowerDown", "FailedIoStarting",
                 "FailedOwnHardware", "Failed", "Removed", "RemovedChildrenRemoved", "FdoRemoved"} : Plainly(s)
  BY DEF FinishStates, SendStates
<1> HIDE DEF Plainly
<1>16. CASE PnpEventInitStarting \/ PnpEventStoppedWaitForStartCompletion
  BY <1>10, <1>16 DEF PnpEventInitStarting, PnpEventStoppedWaitForStartCompletion, SendStates
<1>17. CASE \/ PnpEventFailedInit \/ PnpEventStarted \/ PnpEventQueryStopPending \/ PnpEventQueryRemovePending
            \/ PnpEventFailedPowerPolicyRemoved \/ PnpEventFailedSurpriseRemoved
  BY <1>9, <1>17
     DEF PnpEventFailedInit, PnpEventStarted, PnpEventQueryStopPending, PnpEventQueryRemovePending,
         PnpEventFailedPowerPolicyRemoved, PnpEventFailedSurpriseRemoved, FinishStates
<1>18. CASE PnpEventStopped
  <2>1. "Stopped" \in FinishStates
    BY DEF FinishStates
  <2>2. QED
    BY <1>1, <1>2, <1>5, <1>18, <2>1 DEF PnpEventStopped
<1>19. CASE PnpEventHardwareAvailable
  BY <1>1, <1>2, <1>3, <1>4, <1>11, <1>15, <1>19 DEF PnpEventHardwareAvailable
<1>20. CASE PnpEventEnableInterfaces \/ PnpEventHardwareAvailablePowerPolicyFailed
  BY <1>1, <1>2, <1>4, <1>15, <1>20 DEF PnpEventEnableInterfaces, PnpEventHardwareAvailablePowerPolicyFailed
<1>21. CASE \/ PnpEventQueryStopStaticCheck \/ PnpEventQueryStopAskDriver
            \/ PnpEventQueryRemoveStaticCheck \/ PnpEventQueryRemoveAskDriver
  BY <1>12, <1>15, <1>21
     DEF PnpEventQueryStopStaticCheck, PnpEventQueryStopAskDriver, PnpEventQueryRemoveStaticCheck,
         PnpEventQueryRemoveAskDriver
<1>22. CASE PnpEventQueryStopEnsureDeviceAwake \/ PnpEventQueryRemoveEnsureDeviceAwake
  BY <1>13, <1>15, <1>22 DEF PnpEventQueryStopEnsureDeviceAwake, PnpEventQueryRemoveEnsureDeviceAwake
<1>23. CASE \/ PnpEventQueryCanceled \/ PnpEventStartedStopping
            \/ PnpEventQueriedRemoving \/ PnpEventQueriedSurpriseRemove
  BY <1>14, <1>15, <1>23 DEF PnpEventQueryCanceled, PnpEventStartedStopping, PnpEventQueriedRemoving,
                      PnpEventQueriedSurpriseRemove
<1>24. CASE PnpEventStartingFromStopped
  BY <1>2, <1>11, <1>15, <1>24 DEF PnpEventStartingFromStopped
<1>25. CASE PnpEventRestarting \/ PnpEventFailedPowerDown \/ PnpEventFailedIoStarting
  BY <1>3, <1>7, <1>15, <1>25 DEF PnpEventRestarting, PnpEventFailedPowerDown, PnpEventFailedIoStarting
<1>26. CASE \/ PnpEventStartedCancelStop \/ PnpEventStartedCancelRemove \/ PnpEventSurpriseRemoved
            \/ PnpEventSurpriseRemoveIoStarted \/ PnpEventRemoved \/ PnpEventRemovedChildrenRemoved
  BY <1>8, <1>15, <1>26
     DEF PnpEventStartedCancelStop, PnpEventStartedCancelRemove, PnpEventSurpriseRemoved,
         PnpEventSurpriseRemoveIoStarted, PnpEventRemoved, PnpEventRemovedChildrenRemoved
<1>27. CASE \/ PnpEventRemovingDisableInterfaces \/ PnpEventFailed \/ PnpEventFailedOwnHardware
            \/ PnpEventFdoRemoved
  BY <1>1, <1>2, <1>3, <1>4, <1>15, <1>27
     DEF PnpEventRemovingDisableInterfaces, PnpEventFailed, PnpEventFailedOwnHardware, PnpEventFdoRemoved
<1>28. CASE PnpEventFailedStarted
  BY <1>1, <1>2, <1>28 DEF PnpEventFailedStarted, IrpAfter, FinishStates, SendStates
<1>29. CASE PnpEventFinal
  BY <1>1, <1>2, <1>29 DEF PnpEventFinal, IrpAfter, FinishStates, SendStates
<1>30. QED
  BY <1>16, <1>17, <1>18, <1>19, <1>20, <1>21, <1>22, <1>23, <1>24, <1>25, <1>26, <1>27, <1>28, <1>29
     DEF PnpEntersState

-----------------------------------------------------------------------------
(***************************************************************************)
(* The PnP manager sends one IRP at a time, and none that does not follow: *)
(* the PnP machine has it in its queue, or deals with it                   *)
(***************************************************************************)
Receiving == {"Init", "Started", "QueryStopPending", "QueryRemovePending", "Stopped"}

(* the IRP it deals with in s, while its IRPs come in their order          *)
IrpsOf(s) ==
  CASE s \in {"InitStarting", "HardwareAvailable", "FailedInit", "EnableInterfaces",
              "StoppedWaitForStartCompletion", "StartingFromStopped", "Restarting"} -> {"StartDevice"}
    [] s \in {"QueryStopStaticCheck", "QueryStopAskDriver", "QueryStopEnsureDeviceAwake",
              "QueryStopPending"} -> {"QueryStop"}
    [] s \in {"QueryRemoveStaticCheck", "QueryRemoveAskDriver", "QueryRemoveEnsureDeviceAwake",
              "QueryRemovePending"} -> {"QueryRemove"}
    [] s \in {"StartedStopping", "Stopped"} -> {"Stop"}
    [] s = "Started" -> PnpIrps
    [] s = "StartedCancelStop" -> {"CancelStop"}
    [] s = "StartedCancelRemove" -> {"CancelRemove"}
    [] s = "QueryCanceled" -> {"CancelStop", "CancelRemove"}
    [] OTHER -> {}

Orderly ==
  {"Init", "InitStarting", "HardwareAvailable", "FailedInit", "EnableInterfaces",
   "StoppedWaitForStartCompletion", "StartingFromStopped", "Restarting", "QueryStopStaticCheck",
   "QueryStopAskDriver", "QueryStopEnsureDeviceAwake", "QueryStopPending", "QueryRemoveStaticCheck",
   "QueryRemoveAskDriver", "QueryRemoveEnsureDeviceAwake", "QueryRemovePending", "StartedStopping",
   "Stopped", "Started", "StartedCancelStop", "StartedCancelRemove", "QueryCanceled"}

PnpWaits == "pnp" \notin entering
SentDown == os.below \/ In(queue["pnp"], "StartDeviceComplete")
AwaitsIrp == PnpWaits /\ (at["pnp"] \in Receiving \/ (at["pnp"] \in SendStates /\ ~SentDown))

IrpQueuedOnce ==
  at["pnp"] \in Orderly =>
    \A e \in PnpIrps : Lone(queue["pnp"], {e}) /\ (In(queue["pnp"], e) => os.pnp = e)

IrpTaken ==
  at["pnp"] \in Orderly /\ ~AwaitsIrp =>
    os.pnp \in IrpsOf(at["pnp"]) /\ Without(queue["pnp"], PnpIrps)

(* the completion routine of a start IRP posts once                        *)
RepliesFit ==
  /\ \A a \in Replies : Lone(queue["pnp"], {a})
  /\ \A a, b \in Replies : In(queue["pnp"], a) /\ In(queue["pnp"], b) => a = b
  /\ os.below => Without(queue["pnp"], Replies)
  /\ os.below \/ ~Without(queue["pnp"], Replies) => at["pnp"] \in SendStates /\ PnpWaits

(* what may follow a query                                                 *)
QueriesFit ==
  /\ PnpWaits /\ at["pnp"] = "QueryStopPending" =>
       IF os.pnp = "none" THEN os.manager \in {"stopQueried", "stopRefused"}
       ELSE os.pnp \in {"Stop", "CancelStop", "SurpriseRemove"}
  /\ PnpWaits /\ at["pnp"] = "QueryRemovePending" =>
       IF os.pnp = "none" THEN os.manager \in {"removeQueried", "removeRefused"}
       ELSE os.pnp \in {"Remove", "CancelRemove", "SurpriseRemove"}

(* and the system does not sleep meanwhile                                 *)
ManagersExclude ==
  /\ os.pnp # "none" => os.sys = "S0"
  /\ at["pnp"] \in Pending => os.sys = "S0"

ManagerFits == IrpQueuedOnce /\ IrpTaken /\ RepliesFit /\ QueriesFit /\ ManagersExclude

LEMMA ManagerNames ==
    /\ PnpIrps = {"StartDevice", "QueryStop", "CancelStop", "Stop", "QueryRemove", "CancelRemove",
                  "SurpriseRemove", "Remove"}
    /\ Replies = {"StartDeviceComplete", "StartDeviceFailed"}
    /\ Errands = PnpIrps \cup Replies
    /\ \A s : IrpsOf(s) \subseteq PnpIrps
    /\ \A s \in SendStates : s \notin Receiving /\ s \in Orderly /\ IrpsOf(s) = {"StartDevice"}
    /\ \A s \in Receiving : s \in Orderly
BY DEF PnpIrps, Replies, Errands, Succeeded, IrpsOf, SendStates, Receiving, Orderly

LEMMA ManagerInit == Init => ManagerFits
<1> SUFFICES ASSUME Init
             PROVE  ManagerFits
  OBVIOUS
<1>1. /\ at["pnp"] = "Init" /\ queue["pnp"] = <<>> /\ entering = {}
      /\ os.pnp = "none" /\ os.sys = "S0" /\ ~os.below
  BY DEF Init
<1>2. \A a : ~In(queue["pnp"], a) /\ \A A : Lone(queue["pnp"], A) /\ Without(queue["pnp"], A)
  BY <1>1 DEF In, Lone, Without
<1>3. AwaitsIrp
  BY <1>1 DEF AwaitsIrp, PnpWaits, Receiving
<1>4. QED
  BY <1>1, <1>2, <1>3
     DEF ManagerFits, IrpQueuedOnce, IrpTaken, RepliesFit, QueriesFit, ManagersExclude, Pending

(* A step of another: it says nothing of the IRPs,                         *)
LEMMA IrpFrame ==
    ASSUME ManagerFits, PnpStays, Hushed, os'.pnp = os.pnp, os'.manager = os.manager, os'.below = os.below
    PROVE  IrpQueuedOnce' /\ IrpTaken' /\ RepliesFit' /\ QueriesFit'
<1>1. \A a \in Errands : /\ In(queue'["pnp"], a) => In(queue["pnp"], a)
                         /\ Lone(queue["pnp"], {a}) => Lone(queue'["pnp"], {a})
  BY DEF Hushed, Kept
<1>2. PnpIrps \subseteq Errands /\ Replies \subseteq Errands /\ "StartDeviceComplete" \in Errands
  BY DEF Errands, Replies
<1>3. at'["pnp"] = at["pnp"] /\ (PnpWaits' <=> PnpWaits)
  BY DEF PnpStays, PnpWaits
<1>4. AwaitsIrp => AwaitsIrp'
  BY <1>1, <1>2, <1>3 DEF AwaitsIrp, SentDown
<1>5. \A A : A \subseteq Errands /\ Without(queue["pnp"], A) => Without(queue'["pnp"], A)
  BY <1>1 DEF Without
<1>6. IrpQueuedOnce'
  BY <1>1, <1>2, <1>3 DEF ManagerFits, IrpQueuedOnce
<1>7. IrpTaken'
  BY <1>2, <1>3, <1>4, <1>5 DEF ManagerFits, IrpTaken
<1>8. RepliesFit'
  BY <1>1, <1>2, <1>3, <1>5 DEF ManagerFits, RepliesFit
<1>9. QueriesFit'
  BY <1>3 DEF ManagerFits, QueriesFit
<1>10. QED
  BY <1>6, <1>7, <1>8, <1>9

(* and lets nothing sleep                                                  *)
LEMMA ManagerFrame ==
    ASSUME ManagerFits, PnpStays, Hushed, os'.pnp = os.pnp, os'.manager = os.manager,
           os'.below = os.below, os.sys = "S0" => os'.sys = "S0"
    PROVE  ManagerFits'
BY IrpFrame DEF ManagerFits, ManagersExclude, PnpStays

LEMMA QuietHushes ==
    /\ queue \in Queues /\ SaysNothing => Hushed
    /\ queue'["pnp"] = queue["pnp"] => Hushed
BY SilentKept, KeptStays DEF SaysNothing, Hushed, Queues

(* The power machine and the power policy machine                          *)
LEMMA PowerKeepsManager ==
    ASSUME DeviceInv, ManagerFits, PowerNext
    PROVE  ManagerFits'
<1>1. CountInv /\ queue \in Queues /\ Lockstep
  BY DEF DeviceInv, StepInv
<1>2. PnpStays
  BY <1>1, PowerAside DEF Aside
<1>3. CASE PowerProcessEventInner
  <2>1. queue'["pnp"] = queue["pnp"]
    BY <1>1, <1>3, PowerTakes
  <2>2. os' = os
    BY <1>3 DEF PowerProcessEventInner, environment
  <2>3. QED
    BY <1>2, <2>1, <2>2, QuietHushes, ManagerFrame
<1>4. CASE PowerEntersState
  BY <1>1, <1>2, <1>4, PowerSaysNothing, QuietHushes, ManagerFrame
<1>5. QED
  BY <1>3, <1>4 DEF PowerNext

LEMMA PolicyKeepsManager ==
    ASSUME DeviceInv, IdleLock, ManagerFits, PowerPolicyNext
    PROVE  ManagerFits'
<1>1. CountInv /\ StageInv /\ queue \in Queues /\ Lockstep /\ Sound /\ SleepFits
  BY DEF DeviceInv, StepInv, IdleLock
<1>2. \A o : o \in {os, CompleteSystemPowerIrp(os)} =>
               o.pnp = os.pnp /\ o.manager = os.manager /\ o.below = os.below
  BY <1>1 DEF CompleteSystemPowerIrp, StageInv, Os
<1>3. CASE PowerPolicyProcessEventInner
  <2>1. queue'["pnp"] = queue["pnp"] /\ PnpStays /\ queue["policy"] # <<>> /\ queue["policy"] \in Seq(Events)
    BY <1>1, <1>3, PolicyTakes
  <2>2. In(queue["policy"], Head(queue["policy"]))
    BY <2>1, HeadIsFirst
  <2>3. os' = os \/ (Head(queue["policy"]) = "Sx" /\ os' = CompleteSystemPowerIrp(os))
    BY <1>3 DEF PowerPolicyProcessEventInner
  <2>4. os.sys = "S0" => os' = os
    BY <1>1, <2>2, <2>3 DEF SleepFits
  <2>5. QED
    BY <1>2, <2>1, <2>3, <2>4, QuietHushes, ManagerFrame
<1>4. CASE PolicyEnters /\ PowerPolicyEntersState
  <2>1. NoOrder
    BY <1>1, <1>4, PolicyIsActing DEF Asks, PolicyActs, PolicyEnters
  <2>2. SaysNothing /\ os' \in {os, CompleteSystemPowerIrp(os)}
    BY <1>4, PolicySaysNothing
  <2>3. PnpStays
    BY <1>1, <1>4, PolicyMovesAll DEF PolicyGoes
  <2>4. os'.sys = IF at["policy"] \in CompletesIt THEN "Sx" ELSE os.sys
    BY <1>1, <1>4, <2>1, PolicySaysAll DEF PolicySays
  <2>5. at["policy"] \in CompletesIt => os.sys = "sleeping"
    BY <1>1, <1>4 DEF CompletesIt, SleepFits, FallsAsleep, SleepsNow
  <2>6. QED
    BY <1>1, <1>2, <2>2, <2>3, <2>4, <2>5, QuietHushes, ManagerFrame
<1>5. QED
  BY <1>3, <1>4 DEF PowerPolicyNext, PolicyEnters

(* Those who use the device                                                *)
LEMMA UserKeepsManager ==
    ASSUME DeviceInv, ManagerFits, UserNext
    PROVE  ManagerFits'
<1>1. CountInv /\ queue \in Queues
  BY DEF DeviceInv, StepInv
<1>2. <<>> \in Silent /\ \A m : IdlePosts(m) \in Silent
  BY SilentOnes
<1>3. <<<<"policy", "S0IdlePolicyChanged">>>> \in Silent
  BY UnspokenOnes, SilentOnes
<1>4. UNCHANGED <<at, entering>> /\ os' = os /\ (SaysNothing \/ queue' = queue)
  BY <1>2, <1>3
     DEF UserNext, SetTransitionFromEmpty, QueueIsEmpty, ThreadReferences, ThreadWaitsForD0, ThreadGoesOn,
         ThreadDereferences, PowerPolicySetS0IdleState, IdleOperation, Posts, ByUser, machines, SaysNothing
<1>5. PnpStays
  BY <1>1, <1>4, MachinesStand
<1>6. QED
  BY <1>1, <1>4, <1>5, QuietHushes, ManagerFrame

(* The PnP manager sends an IRP                                            *)
LEMMA ManagerSendsKeepsManager ==
    ASSUME DeviceInv, ManagerFits, NEW irp \in PnpIrps, ManagerSends(irp)
    PROVE  ManagerFits'
<1> DEFINE q == queue["pnp"]
           t == queue'["pnp"]
<1>1. CountInv /\ StageInv /\ queue \in Queues /\ q \in Seq(Events) /\ irp \in Events
  <2>1. irp \in Events
    BY ManagerNames DEF Events, Orders
  <2>2. QED
    BY <2>1 DEF DeviceInv, StepInv, Queues
<1>2. /\ os.sys = "S0" /\ os.pnp = "none" /\ irp \in ManagerMay[os.manager] /\ os' = [os EXCEPT !.pnp = irp]
      /\ queue' = PostAll(queue, <<<<"pnp", irp>>>>) /\ UNCHANGED <<at, entering>>
  BY DEF ManagerSends, Posts
<1>3. /\ os'.pnp = irp /\ os'.sys = "S0" /\ os'.manager = os.manager /\ os'.below = os.below
      /\ os.manager \in DOMAIN ManagerMay
  BY <1>1, <1>2 DEF StageInv, Os
<1>4. at' = at /\ (PnpWaits' <=> PnpWaits)
  BY <1>2 DEF PnpWaits
<1>5. Kept(q, t, Errands, {irp})
  <2>1. queue' = Post(queue, <<"pnp", irp>>)
    BY <1>2, PostOne
  <2>2. "pnp" \in Machines /\ t \in {q, Append(q, irp), <<irp>> \o q}
    BY <1>1, <2>1, PostGrows DEF Machines
  <2>3. QED
    BY <1>1, <2>2, KeptStays, KeptAppended, KeptPrepended
<1> HIDE DEF q, t
<1>6. irp \notin Replies /\ "none" \notin PnpIrps /\ "StartDeviceComplete" \in Replies
  BY ManagerNames
<1>7. \A a \in Replies : (In(t, a) => In(q, a)) /\ (Lone(q, {a}) => Lone(t, {a}))
  BY <1>5, <1>6 DEF Kept, Errands
<1>8. AwaitsIrp => AwaitsIrp'
  BY <1>3, <1>4, <1>6, <1>7 DEF AwaitsIrp, SentDown, q, t
<1>9. at["pnp"] \in Orderly => AwaitsIrp /\ Without(q, PnpIrps)
  <2> SUFFICES ASSUME at["pnp"] \in Orderly
               PROVE  AwaitsIrp /\ Without(q, PnpIrps)
    OBVIOUS
  <2>1. os.pnp \notin PnpIrps
    BY <1>2, <1>6
  <2>2. AwaitsIrp
    BY <2>1, ManagerNames DEF ManagerFits, IrpTaken
  <2>3. \A e \in PnpIrps : ~In(q, e)
    BY <2>1 DEF ManagerFits, IrpQueuedOnce, q
  <2>4. QED
    BY <2>2, <2>3 DEF Without
<1>10. at["pnp"] \in Orderly => \A e \in PnpIrps : Lone(t, {e}) /\ (In(t, e) => e = irp)
  <2> SUFFICES ASSUME at["pnp"] \in Orderly, NEW e \in PnpIrps
               PROVE  Lone(t, {e}) /\ (In(t, e) => e = irp)
    OBVIOUS
  <2>1. ~In(q, e) /\ Lone(q, {e}) /\ e \in Errands
    BY <1>9 DEF Without, ManagerFits, IrpQueuedOnce, q, Errands
  <2>2. QED
    BY <1>5, <2>1 DEF Kept
<1>11. IrpQueuedOnce' /\ IrpTaken'
  BY <1>3, <1>4, <1>8, <1>9, <1>10 DEF IrpQueuedOnce, IrpTaken, t
<1>12. RepliesFit'
  BY <1>3, <1>4, <1>7 DEF ManagerFits, RepliesFit, Without, q, t
<1>13. QueriesFit'
  <2>1. /\ ManagerMay["stopQueried"] = {"Stop", "CancelStop", "SurpriseRemove"}
        /\ ManagerMay["stopRefused"] = {"CancelStop"}
        /\ ManagerMay["removeQueried"] = {"Remove", "CancelRemove", "SurpriseRemove"}
        /\ ManagerMay["removeRefused"] = {"CancelRemove"}
    BY DEF ManagerMay
  <2>2. irp # "none"
    BY <1>6
  <2>3. QED
    BY <1>2, <1>3, <1>4, <2>1, <2>2 DEF ManagerFits, QueriesFit
<1>14. ManagersExclude'
  BY <1>3 DEF ManagersExclude
<1>15. QED
  BY <1>11, <1>12, <1>13, <1>14 DEF ManagerFits

(* A start IRP comes back up                                               *)
LEMMA StartDeviceCompletesKeepsManager ==
    ASSUME DeviceInv, ManagerFits, StartDeviceCompletes
    PROVE  ManagerFits'
<1> DEFINE q == queue["pnp"]
           t == queue'["pnp"]
           down == [os EXCEPT !.below = FALSE]
<1>1. CountInv /\ StageInv /\ os \in Os /\ queue \in Queues /\ q \in Seq(Events) /\ Replies \subseteq Events
  <2>1. Replies \subseteq Events
    BY DEF Replies, Events
  <2>2. QED
    BY <2>1 DEF DeviceInv, StepInv, StageInv, Queues
<1>2. PICK a \in Replies :
        /\ os.below /\ queue' = PostAll(queue, ToPnp(a)) /\ UNCHANGED <<at, entering>>
        /\ IF a = "StartDeviceComplete" THEN os' = down ELSE os' = FinishProcessingIrp(FailPendingIrp(down))
  BY DEF StartDeviceCompletes, Posts, Replies
<1>3. at' = at /\ (PnpWaits' <=> PnpWaits)
  BY <1>2 DEF PnpWaits
<1>4. Kept(q, t, Errands, {a})
  <2>1. queue' = Post(queue, <<"pnp", a>>)
    BY <1>2, PostOne DEF ToPnp
  <2>2. "pnp" \in Machines /\ t \in {q, Append(q, a), <<a>> \o q}
    BY <1>1, <1>2, <2>1, PostGrows DEF Machines
  <2>3. QED
    BY <1>1, <1>2, <2>2, KeptStays, KeptAppended, KeptPrepended
<1>5. /\ at["pnp"] \in SendStates /\ PnpWaits /\ Without(q, Replies) /\ SentDown
      /\ at["pnp"] \notin Receiving /\ at["pnp"] \in Orderly /\ IrpsOf(at["pnp"]) = {"StartDevice"}
      /\ at["pnp"] \notin Pending
  <2>1. at["pnp"] \in SendStates /\ PnpWaits /\ Without(q, Replies) /\ SentDown
    BY <1>2 DEF ManagerFits, RepliesFit, SentDown
  <2>2. QED
    BY <2>1, ManagerNames DEF SendStates, Pending
<1>6. os.pnp = "StartDevice" /\ Without(q, PnpIrps)
  BY <1>5 DEF AwaitsIrp, ManagerFits, IrpTaken
<1>7. /\ ~os'.below /\ os'.sys = os.sys
      /\ os'.pnp = IF a = "StartDeviceComplete" THEN "StartDevice" ELSE "none"
  BY <1>1, <1>2, <1>6 DEF Os, FinishProcessingIrp, FailPendingIrp
<1> HIDE DEF q, t, down
<1>8. Without(t, PnpIrps) /\ \A e \in PnpIrps : Lone(t, {e})
  <2>1. \A e \in PnpIrps : ~In(q, e) /\ e \in Errands /\ e # a /\ Lone(q, {e})
    BY <1>2, <1>5, <1>6, ManagerNames DEF Without, ManagerFits, IrpQueuedOnce, q
  <2>2. QED
    BY <1>4, <2>1 DEF Kept, Without
<1>9. \A b \in Replies : Lone(t, {b}) /\ (In(t, b) => b = a)
  <2>1. \A b \in Replies : ~In(q, b) /\ b \in Errands /\ Lone(q, {b})
    BY <1>5 DEF Without, Errands, ManagerFits, RepliesFit, q
  <2>2. QED
    BY <1>4, <2>1 DEF Kept
<1>10. a # "StartDeviceComplete" => AwaitsIrp'
  BY <1>3, <1>5, <1>7, <1>9 DEF AwaitsIrp, SentDown, Replies, t
<1>11. IrpQueuedOnce' /\ IrpTaken'
  BY <1>3, <1>5, <1>7, <1>8, <1>10 DEF IrpQueuedOnce, IrpTaken, Without, t
<1>12. RepliesFit'
  BY <1>3, <1>5, <1>7, <1>9 DEF RepliesFit, t
<1>13. QueriesFit' /\ ManagersExclude'
  BY <1>3, <1>5, <1>6, <1>7 DEF QueriesFit, ManagersExclude, Pending, ManagerFits
<1>14. QED
  BY <1>11, <1>12, <1>13 DEF ManagerFits

(* and the other steps of the drivers below, the managers and the timer    *)
LEMMA SystemKeepsManager ==
    ASSUME DeviceInv, ManagerFits, SystemNext
    PROVE  ManagerFits'
<1>1. CountInv /\ StageInv /\ os \in Os /\ queue \in Queues
  BY DEF DeviceInv, StepInv, StageInv
<1>2. /\ <<>> \in Silent /\ \A m : IdlePosts(m) \in Silent
      /\ \A a \in Unspoken : <<a>> \in Silent /\ \A b \in Unspoken : <<a, b>> \in Silent
  BY SilentOnes
<1>3. ASSUME UNCHANGED <<at, entering>>, SaysNothing \/ queue' = queue, os'.pnp = os.pnp,
             os'.manager = os.manager, os'.below = os.below, os.sys = "S0" => os'.sys = "S0"
      PROVE  ManagerFits'
  BY <1>1, <1>3, MachinesStand, QuietHushes, ManagerFrame
<1>4. CASE DispatchDeviceSetPower
  <2>1. Oldest.to \in {"D0", "Dx"}
    <3>1. irps \in Irps /\ irps.device # <<>>
      BY <1>1, <1>4 DEF StageInv, DispatchDeviceSetPower, OldestIs
    <3>2. Head(irps.device) \in [to : {"D0", "Dx"}, stage : {"sent", "pending", "released"}]
      BY <3>1, Beheaded DEF Irps
    <3>3. QED
      BY <3>2 DEF Oldest
  <2>2. ToPower(Oldest.to) \in Silent
    BY <1>2, <2>1, UnspokenOnes DEF ToPower
  <2>3. QED
    BY <1>3, <1>4, <2>2 DEF DispatchDeviceSetPower, Posts, SaysNothing, environment
<1>5. CASE DevicePowerIrpCompletes
  <2>1. {<<"policy", "PowerDown">>, <<"policy", "PowerDownFailed">>, <<"pnp", "PowerDownFailed">>,
         <<"policy", "PowerUpNotSeen">>} \subseteq Unspoken
    BY UnspokenOnes
  <2>2. PowerDownCompletePosts \in Silent /\ PowerUpCompletePosts \in Silent
    BY <1>2, <2>1 DEF PowerDownCompletePosts, PowerUpCompletePosts
  <2>3. QED
    BY <1>3, <1>5, <2>2 DEF DevicePowerIrpCompletes, Posts, SaysNothing, environment
<1>6. CASE SystemWakes
  <2>1. <<<<"policy", "S0">>>> \in Silent
    BY <1>2, UnspokenOnes
  <2>2. QED
    BY <1>1, <1>3, <1>6, <2>1 DEF SystemWakes, Posts, SaysNothing, Os
<1>7. CASE TimerDue
  BY <1>3, <1>7 DEF TimerDue, machines, environment
<1>8. CASE PowerTimeoutDpcRoutine
  BY <1>2, <1>3, <1>8 DEF PowerTimeoutDpcRoutine, IdleOperation, Posts, SaysNothing, environment
<1>9. CASE SystemSleeps
  <2>1. <<<<"policy", "Sx">>>> \in Silent
    BY <1>2, UnspokenOnes
  <2>2. /\ UNCHANGED <<at, entering>> /\ SaysNothing /\ os' = [os EXCEPT !.sys = "sleeping"]
        /\ os.pnp = "none" /\ os.manager \in {"added", "started", "surprised"}
    BY <1>9, <2>1 DEF SystemSleeps, Posts, SaysNothing
  <2>3. os'.pnp = os.pnp /\ os'.manager = os.manager /\ os'.below = os.below
    BY <1>1, <2>2 DEF Os
  <2>4. "none" \notin PnpIrps
    BY ManagerNames
  <2>5. at["pnp"] \notin Pending
    <3>1. at["pnp"] \in Pending => at["pnp"] \in Orderly /\ PnpWaits
      <4>1. at["pnp"] \in Pending => at["pnp"] \in Orderly
        BY DEF Pending, Orderly
      <4>2. ~AwaitsIrp => at["pnp"] \notin Orderly
        BY <2>2, <2>4, ManagerNames DEF ManagerFits, IrpTaken
      <4>3. QED
        BY <4>1, <4>2 DEF AwaitsIrp
    <3>2. QED
      BY <2>2, <3>1 DEF ManagerFits, QueriesFit, Pending
  <2>6. PnpStays /\ Hushed
    BY <1>1, <2>2, MachinesStand, QuietHushes
  <2>7. ManagersExclude'
    BY <2>2, <2>3, <2>5, <2>6 DEF ManagersExclude, PnpStays
  <2>8. QED
    BY <2>3, <2>6, <2>7, IrpFrame DEF ManagerFits
<1>10. CASE StartDeviceCompletes
  BY <1>10, StartDeviceCompletesKeepsManager
<1>11. ASSUME NEW irp \in DOMAIN Succeeded, ManagerSends(irp)
       PROVE  ManagerFits'
  BY <1>11, ManagerSendsKeepsManager DEF PnpIrps
<1>12. QED
  BY <1>4, <1>5, <1>6, <1>7, <1>8, <1>9, <1>10, <1>11 DEF SystemNext

(* Where the moves and the rows of the PnP machine take an IRP             *)
Handles(s, next) ==
  LET t == Onward(s, next)
  IN  /\ t \in Orderly => s \in Orderly
      /\ t \in Orderly /\ s \notin FinishStates => IrpsOf(s) \subseteq IrpsOf(t)
      /\ t \in Orderly /\ s \in FinishStates => t \in Receiving /\ (next = Null \/ next \in PnpNoEntry)
      /\ s \in SendStates => next = Null
      /\ t \in SendStates => s \in SendStates
      /\ s \in {"FailedStarted", "Final"} => t \notin Orderly
      /\ t \in Pending => next = Null \/ s \in Awaiting

LEMMA MovesHandle == \A m \in PnpMoves : Handles(m[1], m[2])
<1>1. \A m \in PnpMoves : m[2] # m[1] /\ m[1] # Null
  BY DEF PnpMoves, Null
<1>2. QED
  BY <1>1
     DEF PnpMoves, Handles, Onward, Null, Orderly, IrpsOf, PnpIrps, Succeeded, FinishStates, Receiving, PnpNoEntry,
         SendStates, Pending, Awaiting

RowHandles(r) ==
  /\ r[3] \in Orderly => r[1] \in Orderly
  /\ r[3] \in Orderly /\ r[2] \in PnpIrps => r[1] \in Receiving /\ r[2] \in IrpsOf(r[3])
  /\ r[2] = "StartDeviceComplete" => r[3] \in Orderly /\ IrpsOf(r[1]) \subseteq IrpsOf(r[3])
  /\ r[2] = "StartDeviceFailed" => r[3] = "Init" \/ r[3] \notin Orderly
  /\ r[2] \notin Errands /\ r[3] \in Orderly =>
       r[1] \notin Receiving \cup SendStates /\ IrpsOf(r[1]) \subseteq IrpsOf(r[3])
  /\ r[1] \in SendStates => r[2] \in Replies
  /\ r[3] \in Pending => r[1] \in Awaiting /\ r[3] \notin PnpNoEntry

LEMMA RowsHandle == \A r \in PnpRows : RowHandles(r)
<1>1. \A r \in PnpStartRows : RowHandles(r)
  BY DEF PnpStartRows, RowHandles, Orderly, IrpsOf, Errands, PnpIrps, Replies, Succeeded, Receiving, PnpNoEntry,
         SendStates, Pending, Awaiting
<1>2. \A r \in PnpStopRows : RowHandles(r)
  BY DEF PnpStopRows, RowHandles, Orderly, IrpsOf, Errands, PnpIrps, Replies, Succeeded, Receiving, PnpNoEntry,
         SendStates, Pending, Awaiting
<1>3. \A r \in PnpRemoveRows : RowHandles(r)
  BY DEF PnpRemoveRows, RowHandles, Orderly, IrpsOf, Errands, PnpIrps, Replies, Succeeded, Receiving, PnpNoEntry,
         SendStates, Pending, Awaiting
<1>4. QED
  BY <1>1, <1>2, <1>3 DEF PnpRows

(* An entry function                                                       *)
LEMMA PnpEntryKeepsManager ==
    ASSUME DeviceInv, ManagerFits, "pnp" \in entering, PnpEntersState
    PROVE  ManagerFits'
<1>1. CountInv /\ StageInv /\ os \in Os /\ queue \in Queues
  BY DEF DeviceInv, StepInv, StageInv
<1>2. PICK s, next : <<s, next>> \in PnpMoves /\ PnpGoes(s, next)
  BY <1>1, PnpMovesAll
<1> DEFINE t == Onward(s, next)
<1>3. /\ at["pnp"] = s /\ at'["pnp"] = t /\ ~PnpWaits
      /\ PnpWaits' <=> next = Null \/ next \in PnpNoEntry
  BY <1>2 DEF PnpGoes, PnpWaits, Onward
<1>4. Handles(s, next)
  BY <1>2, MovesHandle
<1>5. Hushed /\ os' \in IrpAfter(s)
  BY <1>1, <1>3, PnpSaysNothing, QuietHushes
<1>6. /\ ~os.below /\ Without(queue["pnp"], Replies)
      /\ s \in Orderly => os.pnp \in IrpsOf(s) /\ Without(queue["pnp"], PnpIrps)
  BY <1>3 DEF ManagerFits, RepliesFit, IrpTaken, AwaitsIrp
<1>7. /\ Without(queue'["pnp"], Replies)
      /\ s \in Orderly => Without(queue'["pnp"], PnpIrps)
      /\ \A a \in Replies : Lone(queue'["pnp"], {a})
  BY <1>5, <1>6 DEF Hushed, Kept, Without, Errands, ManagerFits, RepliesFit
<1>8. \A e \in PnpIrps : Without(queue'["pnp"], PnpIrps) => ~In(queue'["pnp"], e) /\ Lone(queue'["pnp"], {e})
  BY DEF Without, Lone, In
<1> HIDE DEF t
<1>9. t \in Pending => os.sys = "S0" /\ s \in Orderly
  <2>1. CASE next = Null
    BY <1>3, <2>1 DEF t, Onward, ManagerFits, ManagersExclude, Pending, Orderly
  <2>2. CASE next # Null /\ t \in Pending
    <3>1. s \in Awaiting
      BY <1>4, <2>2 DEF Handles, t
    <3>2. s \in Orderly /\ "none" \notin IrpsOf(s)
      BY <3>1 DEF Awaiting, Orderly, IrpsOf
    <3>3. QED
      BY <1>6, <3>2 DEF ManagerFits, ManagersExclude
  <2>3. QED
    BY <2>1, <2>2
<1>10. CASE s \in FinishStates
  <2>1. os' = FinishProcessingIrp(os)
    BY <1>5, <1>10 DEF IrpAfter, FinishStates, SendStates
  <2>2. /\ os'.below = os.below /\ os'.sys = os.sys
        /\ os'.pnp # "none" => os.pnp # "none"
        /\ os.pnp \in {"QueryStop", "QueryRemove"} =>
             /\ os'.pnp = "none"
             /\ os'.manager = IF os.ok THEN Succeeded[os.pnp] ELSE Refused[os.pnp]
    BY <1>1, <2>1 DEF FinishProcessingIrp, Os
  <2>3. t \in Orderly => AwaitsIrp'
    BY <1>3, <1>4, <1>10 DEF AwaitsIrp, Handles, t
  <2>4. IrpQueuedOnce' /\ IrpTaken'
    BY <1>3, <1>4, <1>7, <1>8, <2>3 DEF IrpQueuedOnce, IrpTaken, Handles, t
  <2>5. RepliesFit'
    BY <1>6, <1>7, <2>2 DEF RepliesFit, Without
  <2>6. QueriesFit'
    <3>1. t \in Pending => s = t
      <4>1. t \in Pending => next = Null
        BY <1>4, <1>10 DEF Handles, t, Awaiting, FinishStates
      <4>2. QED
        BY <4>1 DEF t, Onward
    <3>2. /\ Succeeded["QueryStop"] = "stopQueried" /\ Refused["QueryStop"] = "stopRefused"
          /\ Succeeded["QueryRemove"] = "removeQueried" /\ Refused["QueryRemove"] = "removeRefused"
      BY DEF Succeeded, Refused
    <3>3. IrpsOf("QueryStopPending") = {"QueryStop"} /\ IrpsOf("QueryRemovePending") = {"QueryRemove"}
      BY DEF IrpsOf
    <3>4. "QueryStopPending" \in Orderly \cap Pending /\ "QueryRemovePending" \in Orderly \cap Pending
      BY DEF Orderly, Pending
    <3>5. CASE t \in Pending
      <4>1. os.pnp \in IrpsOf(t)
        BY <1>6, <3>1, <3>4, <3>5 DEF Pending
      <4>2. QED
        BY <1>3, <2>2, <3>2, <3>3, <3>5, <4>1 DEF QueriesFit, Pending
    <3>6. CASE t \notin Pending
      BY <1>3, <3>4, <3>6 DEF QueriesFit
    <3>7. QED
      BY <3>5, <3>6
  <2>7. ManagersExclude'
    BY <1>3, <1>9, <2>2 DEF ManagersExclude, ManagerFits
  <2>8. QED
    BY <2>4, <2>5, <2>6, <2>7 DEF ManagerFits
<1>11. CASE s \notin FinishStates
  <2>1. /\ os'.sys = os.sys
        /\ os'.below <=> s \in SendStates
        /\ os'.pnp # "none" => os.pnp # "none"
        /\ s \notin {"FailedStarted", "Final"} => os'.pnp = os.pnp
    BY <1>1, <1>5, <1>6, <1>11
       DEF IrpAfter, FinishProcessingIrp, FailPendingIrp, SendStates, Os
  <2>2. t \in Orderly => os'.pnp \in IrpsOf(t) /\ Without(queue'["pnp"], PnpIrps)
    BY <1>4, <1>6, <1>7, <1>11, <2>1 DEF Handles, t
  <2>3. \A e \in PnpIrps : t \in Orderly => ~In(queue'["pnp"], e) /\ Lone(queue'["pnp"], {e})
    BY <1>8, <2>2
  <2>4. IrpQueuedOnce' /\ IrpTaken'
    BY <1>3, <2>2, <2>3 DEF IrpQueuedOnce, IrpTaken
  <2>5. s \in SendStates => t = s /\ PnpWaits'
    BY <1>3, <1>4 DEF Handles, t, Onward
  <2>6. RepliesFit'
    BY <1>3, <1>7, <2>1, <2>5 DEF RepliesFit, Without
  <2>7. QueriesFit'
    <3>1. t \in Pending => ~PnpWaits'
      <4>1. t \in Pending => next # Null /\ t = next
        BY <1>11 DEF t, Onward, Pending, FinishStates
      <4>2. QED
        BY <1>3, <4>1 DEF Pending, PnpNoEntry
    <3>2. QED
      BY <1>3, <3>1 DEF QueriesFit, Pending
  <2>8. ManagersExclude'
    BY <1>3, <1>9, <2>1 DEF ManagersExclude, ManagerFits
  <2>9. QED
    BY <2>4, <2>6, <2>7, <2>8 DEF ManagerFits
<1>12. QED
  BY <1>10, <1>11

(* An event it takes                                                       *)
LEMMA PnpEventKeepsManager ==
    ASSUME DeviceInv, ManagerFits, PnpProcessEventInner
    PROVE  ManagerFits'
<1> DEFINE q == queue["pnp"]
           h == Head(queue["pnp"])
<1>1. CountInv /\ StageInv /\ os \in Os /\ queue \in Queues
  BY DEF DeviceInv, StepInv, StageInv
<1>2. PnpWaits /\ q # <<>> /\ q \in Seq(Events) /\ queue'["pnp"] = Tail(q)
  BY <1>1, PnpTakes DEF PnpProcessEventInner, Takes, Queues, PnpWaits
<1>3. /\ \A a : In(queue'["pnp"], a) => In(q, a)
      /\ In(q, h) /\ (Lone(q, {h}) => ~In(queue'["pnp"], h))
      /\ \A a \in Errands : Lone(q, {a}) => Lone(queue'["pnp"], {a})
      /\ Hushed
  <2>1. Kept(q, queue'["pnp"], Errands, {})
    BY <1>2, KeptTail
  <2>2. \A a : In(Tail(q), a) => In(q, a)
    BY <1>2, HeadIsFirst
  <2>3. In(q, h) /\ (Lone(q, {h}) => ~In(Tail(q), h))
    BY <1>2, HeadIsFirst
  <2>4. \A a \in Errands : Lone(q, {a}) => Lone(queue'["pnp"], {a})
    BY <2>1 DEF Kept
  <2>5. Hushed
    BY <2>1 DEF Hushed
  <2> HIDE DEF q, h
  <2>6. QED
    BY <1>2, <2>2, <2>3, <2>4, <2>5
<1>4. \/ /\ PnpStays /\ Row("pnp", PnpRows) = {}
         /\ os' = IF h \in PnpEventPending THEN FinishProcessingIrp(os) ELSE os
      \/ /\ os' = os
         /\ \E r \in PnpRows : /\ r[1] = at["pnp"] /\ r[2] = h
                               /\ at'["pnp"] = r[3] /\ (PnpWaits' <=> r[3] \in PnpNoEntry)
  <2>1. DOMAIN at = Machines /\ "pnp" \in Machines
    BY <1>1 DEF CountInv, Machines
  <2>2. CASE UNCHANGED <<at, entering>> /\ Row("pnp", PnpRows) = {}
    BY <2>1, <2>2 DEF PnpStays, PnpProcessEventInner
  <2>3. ASSUME NEW r \in Row("pnp", PnpRows), EnterNewState("pnp", r[3], PnpNoEntry)
        PROVE  /\ r \in PnpRows /\ r[1] = at["pnp"] /\ r[2] = h
               /\ at'["pnp"] = r[3] /\ (PnpWaits' <=> r[3] \in PnpNoEntry)
    BY <1>2, <2>1, <2>3 DEF Row, EnterNewState, PnpWaits
  <2>4. QED
    BY <2>2, <2>3 DEF PnpProcessEventInner
<1>5. at["pnp"] \in Orderly /\ h \in PnpIrps =>
         AwaitsIrp /\ os.pnp = h /\ Without(queue'["pnp"], PnpIrps)
  <2> SUFFICES ASSUME at["pnp"] \in Orderly, h \in PnpIrps
               PROVE  AwaitsIrp /\ os.pnp = h /\ Without(queue'["pnp"], PnpIrps)
    OBVIOUS
  <2>1. AwaitsIrp /\ os.pnp = h /\ Lone(q, {h}) /\ \A e \in PnpIrps : In(q, e) => e = h
    BY <1>3 DEF ManagerFits, IrpTaken, IrpQueuedOnce, Without
  <2>2. QED
    BY <1>3, <2>1 DEF Without
<1>6. \A A : Without(q, A) => Without(queue'["pnp"], A)
  BY <1>3 DEF Without
<1>7. PnpIrps \subseteq Errands /\ Replies \subseteq Errands /\ PnpIrps \cap Replies = {}
  BY ManagerNames
<1> HIDE DEF q, h
<1>8. ASSUME NEW r \in PnpRows, r[1] = at["pnp"], r[2] = h, at'["pnp"] = r[3],
             PnpWaits' <=> r[3] \in PnpNoEntry, os' = os
      PROVE  ManagerFits'
  <2> DEFINE s == r[1]
             t == r[3]
  <2>1. RowHandles(r)
    BY RowsHandle
  <2>2. ~os.below /\ Without(queue'["pnp"], Replies)
    <3>1. CASE h \in Replies
      <4>1. ~Without(q, Replies) /\ Lone(q, {h}) /\ \A b \in Replies : In(q, b) => b = h
        BY <1>3, <3>1 DEF ManagerFits, RepliesFit, Without, q
      <4>2. ~os.below
        BY <4>1 DEF ManagerFits, RepliesFit, q
      <4>3. QED
        BY <1>3, <4>1, <4>2 DEF Without
    <3>2. CASE h \notin Replies
      <4>1. s \notin SendStates
        BY <1>8, <2>1, <3>2 DEF RowHandles
      <4>2. ~os.below /\ Without(q, Replies)
        BY <1>8, <4>1 DEF ManagerFits, RepliesFit, q
      <4>3. QED
        BY <1>6, <4>2
    <3>3. QED
      BY <3>1, <3>2
  <2>3. RepliesFit'
    BY <1>3, <1>7, <1>8, <2>2 DEF RepliesFit, ManagerFits, Without, q
  <2>4. ASSUME t \in Orderly
        PROVE  \/ t = "Init" /\ AwaitsIrp'
               \/ os.pnp \in IrpsOf(t) /\ Without(queue'["pnp"], PnpIrps)
    <3>1. s \in Orderly
      BY <2>1, <2>4 DEF RowHandles
    <3>2. CASE h \in PnpIrps
      BY <1>5, <1>8, <2>1, <2>4, <3>1, <3>2 DEF RowHandles
    <3>3. CASE h = "StartDeviceComplete"
      <4>1. SentDown /\ s \in SendStates
        BY <1>3, <1>8, <3>3 DEF SentDown, ManagerFits, RepliesFit, Without, Replies, q
      <4>2. ~AwaitsIrp
        BY <1>8, <4>1, ManagerNames DEF AwaitsIrp
      <4>3. os.pnp \in IrpsOf(s) /\ Without(q, PnpIrps)
        BY <1>8, <3>1, <4>2 DEF ManagerFits, IrpTaken, q
      <4>4. QED
        BY <1>6, <1>8, <2>1, <3>3, <4>3 DEF RowHandles
    <3>4. CASE h = "StartDeviceFailed"
      <4>1. t = "Init"
        BY <1>8, <2>1, <2>4, <3>4 DEF RowHandles
      <4>2. AwaitsIrp'
        BY <1>8, <4>1 DEF AwaitsIrp, PnpNoEntry, Receiving
      <4>3. QED
        BY <4>1, <4>2
    <3>5. CASE h \notin Errands
      <4>1. s \notin Receiving \cup SendStates /\ IrpsOf(s) \subseteq IrpsOf(t)
        BY <1>8, <2>1, <2>4, <3>5 DEF RowHandles
      <4>2. os.pnp \in IrpsOf(s) /\ Without(q, PnpIrps)
        BY <1>8, <3>1, <4>1 DEF ManagerFits, IrpTaken, AwaitsIrp, q
      <4>3. QED
        BY <1>6, <4>1, <4>2
    <3>6. QED
      BY <3>2, <3>3, <3>4, <3>5, ManagerNames
  <2>5. IrpQueuedOnce'
    <3> SUFFICES ASSUME t \in Orderly, NEW e \in PnpIrps
                 PROVE  Lone(queue'["pnp"], {e}) /\ (In(queue'["pnp"], e) => os'.pnp = e)
      BY <1>8 DEF IrpQueuedOnce
    <3>1. s \in Orderly
      BY <2>1 DEF RowHandles
    <3>2. Lone(q, {e}) /\ (In(q, e) => os.pnp = e)
      BY <1>8, <3>1 DEF ManagerFits, IrpQueuedOnce, q
    <3>3. QED
      BY <1>3, <1>7, <1>8, <3>2
  <2>6. IrpTaken'
    BY <1>8, <2>4 DEF IrpTaken
  <2>7. QueriesFit'
    BY <1>8, <2>1 DEF QueriesFit, RowHandles, Pending
  <2>8. ManagersExclude'
    <3>1. CASE t \in Pending
      <4>1. s \in Awaiting
        BY <2>1, <3>1 DEF RowHandles
      <4>2. s \in Orderly /\ s \notin Receiving \cup SendStates /\ "none" \notin IrpsOf(s)
        BY <4>1 DEF Awaiting, Orderly, IrpsOf, Receiving, SendStates
      <4>3. os.pnp # "none"
        BY <1>8, <4>2 DEF ManagerFits, IrpTaken, AwaitsIrp
      <4>4. QED
        BY <1>8, <4>3 DEF ManagerFits, ManagersExclude
    <3>2. CASE t \notin Pending
      BY <1>8, <3>2 DEF ManagerFits, ManagersExclude
    <3>3. QED
      BY <3>1, <3>2
  <2>9. QED
    BY <2>3, <2>5, <2>6, <2>7, <2>8 DEF ManagerFits
<1>9. CASE PnpStays /\ os' = os
  BY <1>3, <1>9, ManagerFrame
<1>10. ASSUME PnpStays, Row("pnp", PnpRows) = {}, h \in PnpEventPending, os' = FinishProcessingIrp(os)
       PROVE  ManagerFits'
  <2> DEFINE s == at["pnp"]
  <2>1. \A r \in PnpRows : ~(r[1] = s /\ r[2] = h)
    BY <1>10 DEF Row, h
  <2>2. h \in PnpIrps \ {"Remove"}
    <3>1. h # "StartDeviceComplete"
      <4>1. h = "StartDeviceComplete" => s \in SendStates
        BY <1>3 DEF ManagerFits, RepliesFit, Without, Replies, q
      <4>2. <<"InitStarting", "StartDeviceComplete", "HardwareAvailable">> \in PnpRows
        BY DEF PnpRows, PnpStartRows
      <4>3. <<"StoppedWaitForStartCompletion", "StartDeviceComplete", "StartingFromStopped">> \in PnpRows
        BY DEF PnpRows, PnpStopRows
      <4>4. QED
        BY <2>1, <4>1, <4>2, <4>3 DEF SendStates
    <3>2. QED
      BY <1>10, <3>1, ManagerNames DEF PnpEventPending
  <2>3. /\ os'.below = os.below /\ os'.sys = os.sys
        /\ os'.pnp # "none" => os.pnp # "none"
        /\ os.pnp = h => os'.pnp = "none"
    BY <1>1, <1>10, <2>2 DEF FinishProcessingIrp, Os
  <2>4. at'["pnp"] = s /\ PnpWaits'
    BY <1>2, <1>10 DEF PnpStays, PnpWaits
  <2>5. AwaitsIrp => AwaitsIrp'
    BY <1>3, <2>3, <2>4 DEF AwaitsIrp, SentDown, q
  <2>6. s \in Orderly => AwaitsIrp /\ os.pnp = h /\ Without(queue'["pnp"], PnpIrps)
    BY <1>5, <2>2
  <2>7. IrpTaken'
    BY <2>4, <2>5, <2>6 DEF IrpTaken
  <2>8. IrpQueuedOnce'
    <3> SUFFICES ASSUME s \in Orderly, NEW e \in PnpIrps
                 PROVE  Lone(queue'["pnp"], {e}) /\ (In(queue'["pnp"], e) => os'.pnp = e)
      BY <2>4 DEF IrpQueuedOnce
    <3>1. Lone(q, {e})
      BY DEF ManagerFits, IrpQueuedOnce, q
    <3>2. QED
      BY <1>3, <1>7, <2>6, <3>1 DEF Without
  <2>9. RepliesFit'
    BY <1>3, <1>6, <1>7, <2>3, <2>4, <1>2 DEF ManagerFits, RepliesFit, Without, q
  <2>10. s \notin Pending
    <3>1. CASE s = "QueryStopPending"
      <4>1. os.pnp = h
        BY <2>6, <3>1 DEF Orderly
      <4>2. h \in {"Stop", "CancelStop", "SurpriseRemove"}
        BY <1>2, <2>2, <3>1, <4>1, ManagerNames DEF ManagerFits, QueriesFit
      <4>3. \E r \in PnpStopRows : r[1] = s /\ r[2] = h
        BY <3>1, <4>2 DEF PnpStopRows
      <4>4. QED
        BY <2>1, <4>3 DEF PnpRows
    <3>2. CASE s = "QueryRemovePending"
      <4>1. os.pnp = h
        BY <2>6, <3>2 DEF Orderly
      <4>2. h \in {"Remove", "CancelRemove", "SurpriseRemove"}
        BY <1>2, <2>2, <3>2, <4>1, ManagerNames DEF ManagerFits, QueriesFit
      <4>3. \E r \in PnpRemoveRows : r[1] = s /\ r[2] = h
        BY <3>2, <4>2 DEF PnpRemoveRows
      <4>4. QED
        BY <2>1, <4>3 DEF PnpRows
    <3>3. QED
      BY <3>1, <3>2 DEF Pending
  <2>11. QueriesFit' /\ ManagersExclude'
    BY <2>3, <2>4, <2>10 DEF QueriesFit, ManagersExclude, ManagerFits, Pending
  <2>12. QED
    BY <2>7, <2>8, <2>9, <2>11 DEF ManagerFits
<1>11. QED
  BY <1>4, <1>8, <1>9, <1>10

LEMMA ManagerStep ==
    ASSUME DeviceInv, IdleLock, ManagerFits, [Next]_vars
    PROVE  ManagerFits'
<1>1. CASE UNCHANGED vars
  <2>1. PnpStays /\ Hushed /\ os' = os
    BY <1>1, MachinesStand, QuietHushes DEF vars, DeviceInv
  <2>2. QED
    BY <2>1, ManagerFrame
<1>2. CASE PnpNext
  BY <1>2, PnpEntryKeepsManager, PnpEventKeepsManager DEF PnpNext
<1>3. QED
  BY <1>1, <1>2, PowerKeepsManager, PolicyKeepsManager, SystemKeepsManager, UserKeepsManager DEF Next

-----------------------------------------------------------------------------
(***************************************************************************)
(* What the idle machine promised the PnP machine                          *)
(***************************************************************************)
Querying == at["pnp"] \in Pending \/ PnpAwaits

PendingFits == at["pnp"] \in Pending /\ "PowerFailed" \notin idle.flags => idle.d0

PromiseFits ==
  PnpAwaits /\ "PowerFailed" \notin idle.flags /\ ~idle.d0 => "SendPnpPowerUpEvent" \in idle.flags

QueryFits == PendingFits /\ PromiseFits

(* A query finds the machine running and the system awake, and a reference *)
(* taken                                                                   *)
LEMMA QueryRuns ==
    ASSUME DeviceInv, ManagerFits, Querying
    PROVE  at["policy"] \in Runs /\ os.sys = "S0" /\ idle.count > 0 /\ users.pnp
<1>1. CountInv /\ PnpLockstep
  BY DEF DeviceInv
<1>2. at["pnp"] \in Pending \cup Awaiting
  BY DEF Querying, PnpAwaits
<1>3. at["policy"] \in Runs
  <2>1. ~PnpAsks
    BY <1>2 DEF PnpAsks, PnpOrderOf, Pending, Awaiting
  <2>2. PolicyFits(at["pnp"])
    BY <1>1, <2>1, PnpIsActing DEF PnpActs
  <2>3. at["pnp"] \in StartedStates
    BY <1>2 DEF StartedStates, Pending, Awaiting
  <2>4. \A s \in StartedStates : PolicyAt(s) = Runs
    BY PnpStateSets DEF PolicyAt
  <2>5. QED
    BY <2>2, <2>3, <2>4 DEF PolicyFits
<1>4. os.sys = "S0"
  <2>1. CASE at["pnp"] \in Pending
    BY <2>1 DEF ManagerFits, ManagersExclude
  <2>2. CASE PnpAwaits
    <3>1. at["pnp"] \in Orderly /\ ~AwaitsIrp /\ "none" \notin IrpsOf(at["pnp"])
      BY <2>2 DEF PnpAwaits, Awaiting, Orderly, AwaitsIrp, Receiving, SendStates, IrpsOf
    <3>2. QED
      BY <3>1 DEF ManagerFits, ManagersExclude, IrpTaken
  <2>3. QED
    BY <2>1, <2>2 DEF Querying
<1>5. users.pnp
  BY <1>1 DEF CountInv, PnpHolds, Querying, PnpAwaits
<1>6. idle.count > 0
  BY <1>1, <1>5 DEF CountInv, CountIsHolders
<1>7. QED
  BY <1>3, <1>4, <1>5, <1>6

(* Meanwhile the device stays in D0                                        *)
LEMMA StaysUp ==
    ASSUME DeviceInv, IdleLock, IdleLock', DxFits, ManagerFits, Querying, [Next]_vars,
           idle.d0, "PowerFailed" \notin idle.flags
    PROVE  idle'.d0
<1>1. /\ CountInv /\ StageInv /\ queue \in Queues /\ Lockstep /\ PnpLockstep /\ Sound
  BY DEF DeviceInv, StepInv, IdleLock
<1>2. at["policy"] \in Runs /\ os.sys = "S0" /\ idle.count > 0
  BY QueryRuns
<1>3. /\ idle.state \notin {"Started", "TimedOut", "InDx"}
      /\ idle'.state \notin {"Started", "TimedOut", "InDx"} => idle'.d0
  BY DEF IdleLock, Sound, Idle!IdleInv, Idle!IdleSound, Idle!D0EventMeans
<1>4. ASSUME About(idle, idle') \/ TimesOut \/ Expires
      PROVE  idle'.d0
  BY <1>2, <1>3, <1>4 DEF About, TimesOut, Expires, Awake
<1>5. idle' = idle => idle'.d0
  OBVIOUS
<1>6. CASE UNCHANGED vars
  BY <1>5, <1>6 DEF vars
<1>7. CASE PowerProcessEventInner
  BY <1>5, <1>7 DEF PowerProcessEventInner, references
<1>8. CASE Powering /\ PowerEntersState
  BY <1>1, <1>2, <1>5, <1>8, UpIs, DZeroStands
<1>9. CASE PowerPolicyProcessEventInner
  BY <1>1, <1>5, <1>9, PolicyEventKeepsLock
<1>10. CASE PolicyEnters /\ PowerPolicyEntersState
  <2> DEFINE s == at["policy"]
  <2>1. ~Asks /\ PolicyActs /\ NoOrder
    BY <1>1, <1>10, PolicyIsActing DEF Asks, PolicyActs, PolicyEnters
  <2>2. PolicySays(s)
    BY <1>1, <1>10, <2>1, PolicySaysAll
  <2>3. idle.state \in IdleBefore(s)
    BY <1>10, <2>1 DEF IdleLock, IdleFits, IdlePlaces
  <2>4. idle'.state \in IdleAfter(s, idle.state) /\ (idle'.state = "InDx" => idle.state = "InDx")
    BY <1>1, <2>2, <2>3, PolicyTurn DEF PolicySays
  <2>5. s \notin {"Starting", "Restarting"}
    BY <1>2 DEF Runs
  <2> HIDE DEF s
  <2>6. IdleEventOf(s) # "Start"
    BY <2>5 DEF IdleEventOf
  <2>7. idle'.state \notin {"Started", "TimedOut"}
    BY <1>3, <2>4, <2>6 DEF IdleAfter
  <2>8. QED
    BY <1>3, <2>4, <2>7
<1>11. CASE PnpNext
  BY <1>1, <1>4, <1>11, PnpUses
<1>12. CASE SystemNext
  BY <1>1, <1>4, <1>12, SystemTimes
<1>13. CASE UserNext
  BY <1>1, <1>4, <1>13, UserUses
<1>14. QED
  BY <1>6, <1>7, <1>8, <1>9, <1>10, <1>11, <1>12, <1>13
     DEF Next, PowerNext, PowerPolicyNext, Powering, PolicyEnters

(* and a promise is kept, or stands                                        *)
LEMMA PromiseStands ==
    ASSUME DeviceInv, IdleLock, IdleLock', DxFits, ManagerFits, Querying, [Next]_vars, [Idle!IdleNext]_idle,
           idle.d0 \/ "PowerFailed" \in idle.flags \/ "SendPnpPowerUpEvent" \in idle.flags
    PROVE  /\ idle'.d0 \/ "PowerFailed" \in idle'.flags \/ "SendPnpPowerUpEvent" \in idle'.flags
           /\ idle.d0 \/ "PowerFailed" \in idle.flags => idle'.d0 \/ "PowerFailed" \in idle'.flags
<1>1. Sound /\ Idle!IdleInv'
  BY DEF IdleLock, Sound
<1>2. "PowerFailed" \in idle.flags => "PowerFailed" \in idle'.flags
  BY <1>1, FailureSticks
<1>3. "SendPnpPowerUpEvent" \in idle.flags => "SendPnpPowerUpEvent" \in idle'.flags \/ idle'.d0
  BY <1>1, PromiseSticks
<1>4. idle.d0 /\ "PowerFailed" \notin idle.flags => idle'.d0
  BY StaysUp
<1>5. QED
  BY <1>2, <1>3, <1>4

(* The states in which the PnP machine asks for power                      *)
LEMMA AwaitingEnsures ==
    ASSUME at["pnp"] \in Awaiting, PnpEntersState
    PROVE  \E pending \in Pending : EnsureDeviceAwake(at["pnp"], pending)
<1>1. \A s, next, posts : PnpEntry(s, next, posts) => at["pnp"] = s
  BY DEF PnpEntry, Entry
<1>2. /\ \A s, next, posts : PnpPosts(s, next, posts) => at["pnp"] = s
      /\ \A s, next, posts : Dereferences(s, next, posts) => at["pnp"] = s
      /\ \A s, next : PnpFinishes(s, next) => at["pnp"] = s
      /\ \A s, next : StaticCheck(s, next) => at["pnp"] = s
      /\ \A s : SendsStartDown(s) => at["pnp"] = s
  BY <1>1 DEF PnpPosts, Dereferences, PnpFinishes, StaticCheck, SendsStartDown
<1>3. /\ \A s, next : PnpPasses(s, next) => at["pnp"] = s
      /\ \A s, ok, posts, early, late : PrepareHardware(s, ok, posts, early, late) => at["pnp"] = s
  BY <1>1, <1>2 DEF PnpPasses, PrepareHardware
<1>4. at["pnp"] \in {"QueryStopEnsureDeviceAwake", "QueryRemoveEnsureDeviceAwake"}
  BY DEF Awaiting
<1>5. CASE PnpEventQueryStopEnsureDeviceAwake \/ PnpEventQueryRemoveEnsureDeviceAwake
  <2>1. \A s, pending : EnsureDeviceAwake(s, pending) => at["pnp"] = s
    BY <1>1 DEF EnsureDeviceAwake
  <2>2. QED
    BY <1>5, <2>1 DEF PnpEventQueryStopEnsureDeviceAwake, PnpEventQueryRemoveEnsureDeviceAwake, Pending
<1>6. CASE \/ PnpEventQueryCanceled \/ PnpEventStartedStopping
           \/ PnpEventQueriedRemoving \/ PnpEventQueriedSurpriseRemove
  BY <1>2, <1>4, <1>6 DEF PnpEventQueryCanceled, PnpEventStartedStopping, PnpEventQueriedRemoving,
                          PnpEventQueriedSurpriseRemove
<1>7. CASE \/ PnpEventInitStarting \/ PnpEventHardwareAvailable \/ PnpEventEnableInterfaces
           \/ PnpEventHardwareAvailablePowerPolicyFailed \/ PnpEventFailedInit
           \/ PnpEventStarted \/ PnpEventStartedCancelStop \/ PnpEventStartedCancelRemove
           \/ PnpEventQueryStopStaticCheck \/ PnpEventQueryStopAskDriver
           \/ PnpEventQueryRemoveStaticCheck \/ PnpEventQueryRemoveAskDriver
           \/ PnpEventQueryStopPending \/ PnpEventQueryRemovePending
  BY <1>1, <1>2, <1>3, <1>4, <1>7
     DEF PnpEventInitStarting, PnpEventHardwareAvailable, PnpEventEnableInterfaces,
         PnpEventHardwareAvailablePowerPolicyFailed, PnpEventFailedInit, PnpEventStarted,
         PnpEventStartedCancelStop, PnpEventStartedCancelRemove, PnpEventQueryStopStaticCheck,
         PnpEventQueryStopAskDriver, PnpEventQueryRemoveStaticCheck, PnpEventQueryRemoveAskDriver,
         PnpEventQueryStopPending, PnpEventQueryRemovePending
<1>8. CASE \/ PnpEventStopped \/ PnpEventStoppedWaitForStartCompletion
           \/ PnpEventStartingFromStopped \/ PnpEventRestarting
           \/ PnpEventRemovingDisableInterfaces
           \/ PnpEventSurpriseRemoved \/ PnpEventSurpriseRemoveIoStarted
           \/ PnpEventFailedPowerDown \/ PnpEventFailedIoStarting
           \/ PnpEventFailedOwnHardware \/ PnpEventFailed \/ PnpEventFailedPowerPolicyRemoved
           \/ PnpEventFailedSurpriseRemoved \/ PnpEventFailedStarted
           \/ PnpEventRemoved \/ PnpEventRemovedChildrenRemoved \/ PnpEventFdoRemoved
           \/ PnpEventFinal
  BY <1>1, <1>2, <1>3, <1>4, <1>8
     DEF PnpEventStopped, PnpEventStoppedWaitForStartCompletion, PnpEventStartingFromStopped,
         PnpEventRestarting, PnpEventRemovingDisableInterfaces, PnpEventSurpriseRemoved,
         PnpEventSurpriseRemoveIoStarted, PnpEventFailedPowerDown, PnpEventFailedIoStarting,
         PnpEventFailedOwnHardware, PnpEventFailed, PnpEventFailedPowerPolicyRemoved,
         PnpEventFailedSurpriseRemoved, PnpEventFailedStarted, PnpEventRemoved,
         PnpEventRemovedChildrenRemoved, PnpEventFdoRemoved, PnpEventFinal
<1>9. QED
  BY <1>5, <1>6, <1>7, <1>8 DEF PnpEntersState

(* The entry functions of the PnP machine                                  *)
LEMMA PnpEntryKeepsQuery ==
    ASSUME DeviceInv, IdleLock, IdleLock', DxFits, ManagerFits, QueryFits, [Next]_vars, [Idle!IdleNext]_idle,
           "pnp" \in entering, PnpEntersState
    PROVE  QueryFits'
<1>1. CountInv /\ StageInv /\ queue \in Queues /\ Sound
  BY DEF DeviceInv, StepInv, IdleLock
<1>2. PICK s, next : <<s, next>> \in PnpMoves /\ PnpGoes(s, next)
  BY <1>1, PnpMovesAll
<1>3. /\ at["pnp"] = s /\ at'["pnp"] = Onward(s, next)
      /\ PnpWaits' <=> next = Null \/ next \in PnpNoEntry
  BY <1>2 DEF PnpGoes, PnpWaits, Onward
<1>4. CASE s \in Awaiting
  <2> DEFINE n == Idle!IoIncrementForPnp(idle)
  <2>1. PICK pending \in Pending : EnsureDeviceAwake(s, pending)
    BY <1>3, <1>4, AwaitingEnsures
  <2>2. CASE Idle!CanReference(idle)
    <3>1. IdleBecomes(n) /\ PnpEntry(s, IF n.d0 THEN pending ELSE Null, IdlePosts(n))
      BY <2>1, <2>2 DEF EnsureDeviceAwake
    <3>2. n \in Idle!IdleMachine /\ (n.d0 \/ "SendPnpPowerUpEvent" \in n.flags)
      <4>1. n \in Idle!IdleMachine
        BY <1>1, ReferenceForPnpHeard
      <4>2. \A m : m \in Idle!IdleMachine /\ m = Idle!IoIncrement(idle) =>
                     (m.d0 \/ "SendPnpPowerUpEvent" \in Idle!Set(m, {"SendPnpPowerUpEvent"}).flags)
        BY DEF Idle!Set, Idle!IdleMachine
      <4>3. Idle!IoIncrement(idle) \in Idle!IdleMachine
        BY <1>1, UsesHeard DEF Heeds
      <4>4. QED
        BY <4>1, <4>2, <4>3 DEF Idle!IoIncrementForPnp
    <3> HIDE DEF n
    <3>3. idle'.d0 = n.d0 /\ idle'.flags = n.flags
      BY <3>1, <3>2, SettledIs DEF IdleBecomes
    <3>4. at'["pnp"] = IF n.d0 THEN pending ELSE s
      BY <1>1, <3>1, PnpSteps DEF Pending, Null
    <3>5. s \notin Pending /\ pending \notin Awaiting
      BY <1>4 DEF Pending, Awaiting
    <3>6. QED
      BY <3>2, <3>3, <3>4, <3>5 DEF QueryFits, PendingFits, PromiseFits, PnpAwaits
  <2>3. CASE ~Idle!CanReference(idle)
    <3>1. PnpEntry(s, "Started", <<>>)
      BY <2>1, <2>3 DEF EnsureDeviceAwake
    <3>2. at'["pnp"] = "Started"
      BY <1>1, <3>1, PnpSteps DEF Null
    <3>3. QED
      BY <3>2 DEF QueryFits, PendingFits, PromiseFits, PnpAwaits, Pending, Awaiting
  <2>4. QED
    BY <2>2, <2>3
<1>5. CASE s \notin Awaiting
  <2>1. ~PnpAwaits'
    <3>1. at'["pnp"] \in Awaiting => next = at'["pnp"]
      BY <1>3, <1>5 DEF Onward
    <3>2. \A t \in Awaiting : t \notin PnpNoEntry /\ t # Null
      BY DEF Awaiting, PnpNoEntry, Null
    <3>3. QED
      BY <1>3, <3>1, <3>2 DEF PnpAwaits, PnpWaits
  <2>2. at'["pnp"] \in Pending => Querying
    <3>1. Handles(s, next)
      BY <1>2, MovesHandle
    <3>2. QED
      BY <1>3, <1>5, <3>1 DEF Handles, Onward, Querying
  <2>3. CASE at'["pnp"] \in Pending
    <3>1. at["pnp"] \in Pending
      BY <1>3, <1>5, <2>2, <2>3 DEF Querying, PnpAwaits
    <3>2. QED
      BY <2>1, <2>2, <2>3, <3>1, PromiseStands DEF QueryFits, PendingFits, PromiseFits
  <2>4. QED
    BY <2>1, <2>3 DEF QueryFits, PendingFits, PromiseFits
<1>6. QED
  BY <1>4, <1>5

(* and the event it waited for                                             *)
LEMMA PnpEventKeepsQuery ==
    ASSUME DeviceInv, IdleLock, QueryFits, PnpProcessEventInner
    PROVE  QueryFits'
<1> DEFINE h == Head(queue["pnp"])
<1>1. CountInv /\ queue \in Queues /\ D0EventFits
  BY DEF DeviceInv, StepInv, IdleLock
<1>2. idle' = idle /\ "pnp" \notin entering /\ queue["pnp"] # <<>> /\ queue["pnp"] \in Seq(Events)
  BY <1>1 DEF PnpProcessEventInner, references, Takes, Queues
<1>3. In(queue["pnp"], h)
  BY <1>2, HeadIsFirst
<1>4. CASE UNCHANGED <<at, entering>>
  BY <1>2, <1>4 DEF QueryFits, PendingFits, PromiseFits, PnpAwaits
<1>5. ASSUME NEW r \in Row("pnp", PnpRows), EnterNewState("pnp", r[3], PnpNoEntry)
      PROVE  QueryFits'
  <2>1. DOMAIN at = Machines /\ "pnp" \in Machines
    BY <1>1 DEF CountInv, Machines
  <2>2. /\ r \in PnpRows /\ r[1] = at["pnp"] /\ r[2] = h /\ at'["pnp"] = r[3]
        /\ "pnp" \in entering' <=> r[3] \notin PnpNoEntry
    BY <1>2, <1>5, <2>1 DEF Row, EnterNewState
  <2>3. r[3] \notin Awaiting \/ "pnp" \in entering'
    BY <2>2 DEF Awaiting, PnpNoEntry
  <2>4. CASE r[3] \in Pending
    <3>1. PnpAwaits /\ "SendPnpPowerUpEvent" \notin idle.flags
      BY <1>1, <1>3, <2>2, <2>4, AwaitingRows DEF D0EventFits
    <3>2. QED
      BY <1>2, <2>2, <2>3, <3>1 DEF QueryFits, PendingFits, PromiseFits, PnpAwaits
  <2>5. QED
    BY <2>2, <2>3, <2>4 DEF QueryFits, PendingFits, PromiseFits, PnpAwaits
<1>6. QED
  BY <1>4, <1>5 DEF PnpProcessEventInner

LEMMA QueryInit == Init => QueryFits
BY DEF Init, QueryFits, PendingFits, PromiseFits, PnpAwaits, Pending, Awaiting

LEMMA QueryStep ==
    ASSUME DeviceInv, IdleLock, IdleLock', DxFits, ManagerFits, QueryFits, [Next]_vars, [Idle!IdleNext]_idle
    PROVE  QueryFits'
<1>1. CASE PnpNext
  BY <1>1, PnpEntryKeepsQuery, PnpEventKeepsQuery DEF PnpNext
<1>2. CASE ~PnpNext
  <2>1. PnpStays
    <3>1. CountInv /\ StageInv /\ queue \in Queues /\ Lockstep
      BY DEF DeviceInv, StepInv
    <3>2. CASE UNCHANGED vars
      BY <3>1, <3>2, MachinesStand DEF vars
    <3>3. CASE PowerNext
      BY <3>1, <3>3, PowerAside DEF Aside
    <3>4. CASE PowerPolicyNext
      BY <3>1, <3>4, PolicyAside DEF Aside
    <3>5. CASE SystemNext \/ UserNext
      <4>1. UNCHANGED <<at, entering>>
        BY <3>1, <3>5, SystemKeepsStep, UserKeepsStep DEF AsideQuiet
      <4>2. QED
        BY <3>1, <4>1 DEF PnpStays, CountInv
    <3>6. QED
      BY <1>2, <3>2, <3>3, <3>4, <3>5 DEF Next
  <2>2. /\ at'["pnp"] = at["pnp"] /\ (PnpAwaits' <=> PnpAwaits)
    BY <2>1 DEF PnpStays, PnpAwaits
  <2>3. CASE Querying
    <3>1. at["pnp"] \in Pending => ~PnpAwaits
      BY DEF PnpAwaits, Pending, Awaiting
    <3>2. QED
      BY <2>2, <2>3, <3>1, PromiseStands DEF QueryFits, PendingFits, PromiseFits, Querying
  <2>4. CASE ~Querying
    BY <2>2, <2>4 DEF QueryFits, PendingFits, PromiseFits, Querying
  <2>5. QED
    BY <2>3, <2>4
<1>3. QED
  BY <1>1, <1>2

-----------------------------------------------------------------------------
(* The inductive invariant of the IRPs of the PnP manager and of the power *)
(* they are granted                                                        *)
QueryInv == DxFits /\ ManagerFits /\ QueryFits

LEMMA QueryInvStep ==
    ASSUME NoStaleTimeout, DeviceInv, DeviceInv', IdleLock, QueryInv, [Next]_vars
    PROVE  QueryInv'
<1>1. IdleLock' /\ [Idle!IdleNext]_idle
  BY LockStep
<1>2. QED
  BY <1>1, DxStep, ManagerStep, QueryStep DEF QueryInv

LEMMA QueryInvHolds ==
    Spec /\ []NoStaleTimeout => []QueryInv
<1>1. Init => QueryInv
  BY DxInit, ManagerInit, QueryInit DEF QueryInv
<1>2. /\ NoStaleTimeout /\ DeviceInv /\ DeviceInv' /\ IdleLock /\ QueryInv /\ [Next]_vars
      => QueryInv'
  BY QueryInvStep
<1>3. QED
  BY <1>1, <1>2, DeviceCorrect, IdleFollowsDevice, PTL DEF Spec

(* A query of the PnP manager to stop or remove the device succeeds only   *)
(* with the device in D0 and the machine's reference taken, or after power *)
(* failed (PnpEventQueryRemoveEnsureDeviceAwake,                           *)
(* PnpPowerReferenceDuringQueryPnp).                                       *)
THEOREM QueriesFindDeviceUp ==
    Spec /\ []NoStaleTimeout => []QueriedDeviceIsUp
<1>1. DeviceInv /\ IdleLock /\ QueryInv => QueriedDeviceIsUp
  <2> SUFFICES ASSUME DeviceInv, IdleLock, QueryInv, at["pnp"] \in Pending, "PowerFailed" \notin idle.flags
               PROVE  users.pnp /\ InD0 \subseteq device.up
    <3>1. DeviceInv /\ QueryInv /\ at["pnp"] \in Pending => users.pnp
      BY QueryRuns DEF QueryInv, Querying
    <3>2. QED
      BY <3>1 DEF QueriedDeviceIsUp, Pending
  <2>1. users.pnp /\ at["policy"] \in Runs /\ os.sys = "S0"
    BY QueryRuns DEF QueryInv, Querying
  <2>2. idle.d0
    BY DEF QueryInv, QueryFits, PendingFits
  <2>3. at["power"] \in DZero
    BY <2>1, <2>2, UpIs DEF QueryInv
  <2>4. QED
    BY <2>1, <2>3, DZeroIsUp DEF DeviceInv, SmioInv
<1>2. QED
  BY <1>1, DeviceCorrect, IdleFollowsDevice, QueryInvHolds, PTL
=============================================================================
