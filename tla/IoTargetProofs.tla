----------------------------- MODULE IoTargetProofs -----------------------------
(***************************************************************************)
(* Of the I/O target: a request is completed once, by a party that owns    *)
(* it, the assertions of the code hold, the I/O count is exact, and who    *)
(* waits for sent I/O, or for the disposal of the target, is done when he  *)
(* returns.                                                                *)
(*                                                                         *)
(* A thread is described by the place at the top of its stack and by the   *)
(* set of places on it; the order of places on a stack is fixed (RankOf),  *)
(* so these two say all that the proofs need.                              *)
(***************************************************************************)
EXTENDS IoTarget, FiniteSetTheorems, TLAPS

-----------------------------------------------------------------------------
(* Stacks.                                                                  *)

(* w is a thread[t].                                                        *)
Top(w) == IF w.stack = <<>> THEN "idle" ELSE Head(w.stack)
Has(w, p) == \E i \in DOMAIN w.stack : w.stack[i] = p

(* What calls what: a place has those of higher rank below it.              *)
RankOf(p) ==
  CASE p = "complete" -> 0
    [] p = "signal" -> 1
    [] p = "dereference" -> 2
    [] p \in {"cancel", "cancelReference", "cancelRelease"} -> 4
    [] p \in {"timerCallback", "timerCanceled", "wait", "timedOut", "waitAgain", "resubmitted",
              "failPended"} -> 5
    [] p \in {"resubmit", "cancelSent"} -> 6
    [] p \in {"waitSent", "waited"} -> 7
    [] p = "dispose" -> 8
    [] p = "waitDispose" -> 9
    [] OTHER -> 3

(* The places a thread returns to.                                          *)
Beneath == {"signal", "dereference", "cancelRelease", "timerCanceled", "wait", "waitAgain",
            "resubmitted", "resubmit", "failPended", "cancelSent", "waitSent", "dispose",
            "waitDispose"}

StackOK(s) ==
  \A i, j \in 1..Len(s) : i < j => RankOf(s[i]) < RankOf(s[j]) /\ s[j] \in Beneath

ThreadOK == /\ thread \in [Threads -> [stack : Seq(Places), cur : Requests \cup {NoRequest}]]
            /\ \A t \in Threads : StackOK(thread[t].stack)

LEMMA RankType == \A p : RankOf(p) \in 0..9
BY DEF RankOf

LEMMA RankOrder ==
  \A p, q, r : RankOf(p) <= RankOf(q) /\ RankOf(q) < RankOf(r) => RankOf(p) < RankOf(r)
BY DEF RankOf

(* What is seen of a stack.                                                 *)
LEMMA StackView ==
  ASSUME NEW w, w.stack \in Seq(Places), StackOK(w.stack)
  PROVE  /\ Top(w) = "idle" <=> w.stack = <<>>
         /\ w.stack = <<>> => \A p : ~Has(w, p)
         /\ w.stack # <<>> => Top(w) \in Places /\ Has(w, Top(w))
         /\ \A p : Has(w, p) => /\ p \in Places
                                /\ p = Top(w) \/ (p \in Beneath /\ RankOf(Top(w)) < RankOf(p))
<1>1. DOMAIN w.stack = 1..Len(w.stack) /\ Len(w.stack) \in Nat
  OBVIOUS
<1>2. CASE w.stack = <<>>
  BY <1>1, <1>2 DEF Top, Has, Places
<1>3. CASE w.stack # <<>>
  <2>1. Top(w) = w.stack[1] /\ 1 \in 1..Len(w.stack) /\ w.stack[1] \in Places
    BY <1>1, <1>3 DEF Top
  <2>2. "idle" \notin Places
    BY DEF Places
  <2>3. Has(w, Top(w))
    BY <1>1, <2>1 DEF Has
  <2>4. ASSUME NEW p, Has(w, p)
        PROVE  p \in Places /\ (p = Top(w) \/ (p \in Beneath /\ RankOf(Top(w)) < RankOf(p)))
    <3>1. PICK i \in 1..Len(w.stack) : w.stack[i] = p
      BY <1>1, <2>4 DEF Has
    <3>2. CASE i = 1
      BY <2>1, <3>1, <3>2
    <3>3. CASE i # 1
      BY <2>1, <3>1, <3>3 DEF StackOK
    <3> QED BY <3>2, <3>3
  <2> QED BY <1>3, <2>1, <2>2, <2>3, <2>4
<1> QED BY <1>2, <1>3

(* Places pcs can take the place of the top of a stack.                     *)
Fits(pcs, top) ==
  /\ pcs \in Seq(Places)
  /\ \A i \in 1..Len(pcs) : RankOf(pcs[i]) <= RankOf(top)
  /\ StackOK(pcs)

LEMMA Replaced ==
  ASSUME NEW w, w.stack \in Seq(Places), StackOK(w.stack), w.stack # <<>>,
         NEW pcs, Fits(pcs, Top(w)), NEW v, v.stack = pcs \o Tail(w.stack)
  PROVE  /\ v.stack \in Seq(Places) /\ StackOK(v.stack)
         /\ \A p : Has(v, p) <=> (\E i \in 1..Len(pcs) : pcs[i] = p) \/ (Has(w, p) /\ p # Top(w))
         /\ pcs # <<>> => Top(v) = pcs[1]
         /\ pcs = <<>> => Top(v) \in Beneath \cup {"idle"}
<1> DEFINE s == w.stack
           n == Len(pcs)
           x == v.stack
<1>1. /\ Len(s) \in Nat /\ Len(s) >= 1 /\ n \in Nat /\ pcs \in Seq(Places)
      /\ Tail(s) \in Seq(Places) /\ Len(Tail(s)) = Len(s) - 1
      /\ \A i \in 1..(Len(s) - 1) : Tail(s)[i] = s[i + 1]
      /\ Top(w) = s[1]
  BY DEF Fits, Top
<1>2. /\ x \in Seq(Places) /\ Len(x) = n + Len(s) - 1
      /\ \A i \in 1..n : x[i] = pcs[i]
      /\ \A i \in (n + 1)..(n + Len(s) - 1) : x[i] = s[i - n + 1]
  <2>1. x \in Seq(Places) /\ Len(x) = n + Len(s) - 1
    BY <1>1
  <2>2. \A i \in 1..n : x[i] = pcs[i]
    BY <1>1
  <2>3. ASSUME NEW i \in (n + 1)..(n + Len(s) - 1)
        PROVE  x[i] = s[i - n + 1]
    <3>1. x[i] = Tail(s)[i - n]
      BY <1>1
    <3>2. i - n \in 1..(Len(s) - 1) /\ (i - n) + 1 = i - n + 1
      BY <1>1
    <3> QED BY <1>1, <3>1, <3>2
  <2> QED BY <2>1, <2>2, <2>3
<1>3. StackOK(x)
  <2> SUFFICES ASSUME NEW i \in 1..Len(x), NEW j \in 1..Len(x), i < j
               PROVE  RankOf(x[i]) < RankOf(x[j]) /\ x[j] \in Beneath
    BY DEF StackOK
  <2>1. CASE j <= n
    <3>1. i \in 1..n /\ j \in 1..n
      BY <1>1, <1>2, <2>1
    <3> QED BY <1>2, <3>1 DEF Fits, StackOK
  <2>2. CASE i > n
    <3>1. /\ i - n + 1 \in 1..Len(s) /\ j - n + 1 \in 1..Len(s) /\ i - n + 1 < j - n + 1
          /\ x[i] = s[i - n + 1] /\ x[j] = s[j - n + 1]
      BY <1>1, <1>2, <2>2
    <3> QED BY <3>1 DEF StackOK
  <2>3. CASE i <= n /\ j > n
    <3>1. /\ j - n + 1 \in 1..Len(s) /\ 1 \in 1..Len(s) /\ 1 < j - n + 1
          /\ x[j] = s[j - n + 1] /\ i \in 1..n /\ x[i] = pcs[i]
      BY <1>1, <1>2, <2>3
    <3>2. RankOf(s[1]) < RankOf(x[j]) /\ x[j] \in Beneath
      BY <3>1 DEF StackOK
    <3>3. RankOf(x[i]) <= RankOf(s[1])
      BY <1>1, <3>1 DEF Fits
    <3> QED BY <3>2, <3>3, RankOrder
  <2> QED BY <1>1, <1>2, <2>1, <2>2, <2>3
<1>4. ASSUME NEW p
      PROVE  Has(v, p) <=> (\E i \in 1..n : pcs[i] = p) \/ (Has(w, p) /\ p # Top(w))
  <2>1. DOMAIN x = 1..Len(x) /\ DOMAIN s = 1..Len(s)
    BY <1>1, <1>2
  <2>2. ASSUME Has(v, p)
        PROVE  (\E i \in 1..n : pcs[i] = p) \/ (Has(w, p) /\ p # Top(w))
    <3>1. PICK i \in 1..Len(x) : x[i] = p
      BY <2>1, <2>2 DEF Has
    <3>2. CASE i <= n
      BY <1>1, <1>2, <3>1, <3>2
    <3>3. CASE i > n
      <4>1. i - n + 1 \in 1..Len(s) /\ 1 < i - n + 1 /\ s[i - n + 1] = p /\ 1 \in 1..Len(s)
        BY <1>1, <1>2, <3>1, <3>3
      <4>2. RankOf(s[1]) < RankOf(p) /\ RankOf(p) \in 0..9
        BY <4>1, RankType DEF StackOK
      <4>3. s[1] # p
        BY <4>2
      <4> QED BY <1>1, <2>1, <4>1, <4>3 DEF Has
    <3> QED BY <1>1, <1>2, <3>2, <3>3
  <2>3. ASSUME NEW i \in 1..n, pcs[i] = p
        PROVE  Has(v, p)
    <3>1. i \in 1..Len(x) /\ x[i] = p
      BY <1>1, <1>2, <2>3
    <3> QED BY <2>1, <3>1 DEF Has
  <2>4. ASSUME Has(w, p), p # Top(w)
        PROVE  Has(v, p)
    <3>1. PICK i \in 1..Len(s) : s[i] = p
      BY <2>1, <2>4 DEF Has
    <3>2. i # 1
      BY <1>1, <2>4, <3>1
    <3>3. i - 1 + n \in (n + 1)..(n + Len(s) - 1) /\ (i - 1 + n) - n + 1 = i
      BY <1>1, <3>1, <3>2
    <3>4. x[i - 1 + n] = p /\ i - 1 + n \in 1..Len(x)
      BY <1>1, <1>2, <3>1, <3>3
    <3> QED BY <2>1, <3>4 DEF Has
  <2> QED BY <2>2, <2>3, <2>4
<1>5. pcs # <<>> => Top(v) = pcs[1]
  <2> SUFFICES ASSUME pcs # <<>>
               PROVE  Top(v) = pcs[1]
    OBVIOUS
  <2>1. n >= 1 /\ x # <<>>
    BY <1>1, <1>2
  <2>2. Head(x) = x[1]
    BY <1>2, <2>1
  <2> QED BY <1>2, <2>1, <2>2 DEF Top
<1>6. pcs = <<>> => Top(v) \in Beneath \cup {"idle"}
  <2> SUFFICES ASSUME pcs = <<>>, x # <<>>
               PROVE  Top(v) \in Beneath
    BY DEF Top
  <2>1. n = 0 /\ Len(x) >= 1 /\ Top(v) = x[1]
    BY <1>1, <1>2 DEF Top
  <2>2. x[1] = s[2] /\ 2 \in 1..Len(s) /\ 1 \in 1..Len(s)
    BY <1>1, <1>2, <2>1
  <2> QED BY <2>1, <2>2 DEF StackOK
<1> QED BY <1>2, <1>3, <1>4, <1>5, <1>6

-----------------------------------------------------------------------------
(* What the steps do to a stack.                                            *)

(* t leaves the place at its top for the places new, above what is beneath. *)
Moves(t, tops, new) ==
  /\ \A u \in Threads : u # t => thread'[u] = thread[u]
  /\ thread'[t].cur = thread[t].cur
  /\ Top(thread'[t]) \in tops
  /\ \A p : Has(thread'[t], p) <=> p \in new \/ (Has(thread[t], p) /\ p # Top(thread[t]))

(* An idle thread begins.                                                   *)
Begins(t, r, top, new) ==
  /\ \A u \in Threads : u # t => thread'[u] = thread[u]
  /\ thread'[t].cur = r
  /\ Top(thread'[t]) = top
  /\ \A p : Has(thread'[t], p) <=> p \in new

Down == Beneath \cup {"idle"}

LEMMA TopOfStack ==
  ASSUME ThreadOK, NEW t \in Threads
  PROVE  /\ Idle(t) <=> Top(thread[t]) = "idle"
         /\ \A pc \in Places : At(t, pc) <=> Top(thread[t]) = pc
         /\ \A p : Has(thread[t], p) =>
              /\ p \in Places
              /\ p = Top(thread[t]) \/ (p \in Beneath /\ RankOf(Top(thread[t])) < RankOf(p))
         /\ Top(thread[t]) = "idle" => \A p : ~Has(thread[t], p)
         /\ Top(thread[t]) # "idle" => Has(thread[t], Top(thread[t])) /\ Top(thread[t]) \in Places
<1>1. thread[t].stack \in Seq(Places) /\ StackOK(thread[t].stack)
  BY DEF ThreadOK
<1>2. "idle" \notin Places
  BY DEF Places
<1> QED BY <1>1, <1>2, StackView DEF Idle, At, Top

LEMMA Jumps ==
  ASSUME ThreadOK, NEW t \in Threads, ~Idle(t), NEW pcs, Fits(pcs, Top(thread[t])),
         thread' = Jump(t, pcs)
  PROVE  /\ ThreadOK'
         /\ pcs = <<>> => Moves(t, Down, {})
         /\ pcs # <<>> => Moves(t, {pcs[1]}, {pcs[i] : i \in 1..Len(pcs)})
<1> DEFINE w == thread[t]
           v == thread'[t]
<1>1. w.stack \in Seq(Places) /\ StackOK(w.stack) /\ w.stack # <<>>
      /\ w \in [stack : Seq(Places), cur : Requests \cup {NoRequest}]
  BY DEF ThreadOK, Idle
<1>2. v = [w EXCEPT !.stack = pcs \o Tail(w.stack)] /\ \A u \in Threads : u # t => thread'[u] = thread[u]
  BY DEF Jump, ThreadOK
<1>3. v.stack = pcs \o Tail(w.stack) /\ v.cur = w.cur
  BY <1>1, <1>2
<1>4. /\ v.stack \in Seq(Places) /\ StackOK(v.stack)
      /\ \A p : Has(v, p) <=> (\E i \in 1..Len(pcs) : pcs[i] = p) \/ (Has(w, p) /\ p # Top(w))
      /\ pcs # <<>> => Top(v) = pcs[1]
      /\ pcs = <<>> => Top(v) \in Down
  BY <1>1, <1>3, Replaced DEF Down
<1>5. v \in [stack : Seq(Places), cur : Requests \cup {NoRequest}]
  BY <1>1, <1>2, <1>4
<1>6. ThreadOK'
  <2>1. thread' \in [Threads -> [stack : Seq(Places), cur : Requests \cup {NoRequest}]]
    BY <1>2, <1>5 DEF ThreadOK, Jump
  <2>2. \A u \in Threads : StackOK(thread'[u].stack)
    BY <1>2, <1>4 DEF ThreadOK
  <2> QED BY <2>1, <2>2 DEF ThreadOK
<1>7. CASE pcs = <<>>
  <2>1. \A p : ~\E i \in 1..Len(pcs) : pcs[i] = p
    BY <1>7
  <2> QED BY <1>2, <1>3, <1>4, <1>6, <1>7, <2>1 DEF Moves
<1>8. CASE pcs # <<>>
  <2>1. \A p : p \in {pcs[i] : i \in 1..Len(pcs)} <=> \E i \in 1..Len(pcs) : pcs[i] = p
    OBVIOUS
  <2> QED BY <1>2, <1>3, <1>4, <1>6, <1>8, <2>1 DEF Moves
<1> QED BY <1>7, <1>8

(* The stacks that the steps make.                                          *)
LEMMA FitsNone == \A top : Fits(<<>>, top)
BY DEF Fits, StackOK

LEMMA FitsOne ==
  ASSUME NEW top, NEW p \in Places, RankOf(p) <= RankOf(top)
  PROVE  Fits(<<p>>, top)
BY DEF Fits, StackOK

LEMMA FitsTwo ==
  ASSUME NEW top, NEW p \in Places, NEW q \in Places \cap Beneath,
         RankOf(p) < RankOf(q), RankOf(q) <= RankOf(top)
  PROVE  Fits(<<p, q>>, top)
<1>1. RankOf(p) <= RankOf(top)
  BY DEF RankOf
<1> QED BY <1>1 DEF Fits, StackOK

LEMMA FitsThree ==
  ASSUME NEW top, NEW p \in Places, NEW q \in Places \cap Beneath, NEW r \in Places \cap Beneath,
         RankOf(p) < RankOf(q), RankOf(q) < RankOf(r), RankOf(r) <= RankOf(top)
  PROVE  Fits(<<p, q, r>>, top)
<1>1. RankOf(p) <= RankOf(top) /\ RankOf(q) <= RankOf(top) /\ RankOf(p) < RankOf(r)
  BY DEF RankOf
<1> QED BY <1>1 DEF Fits, StackOK

LEMMA JumpNone ==
  ASSUME ThreadOK, NEW t \in Threads, ~Idle(t), thread' = Jump(t, <<>>)
  PROVE  ThreadOK' /\ Moves(t, Down, {})
BY Jumps, FitsNone

LEMMA JumpOne ==
  ASSUME ThreadOK, NEW t \in Threads, ~Idle(t), NEW p \in Places,
         RankOf(p) <= RankOf(Top(thread[t])), thread' = Jump(t, <<p>>)
  PROVE  ThreadOK' /\ Moves(t, {p}, {p})
<1>1. {<<p>>[i] : i \in 1..Len(<<p>>)} = {p} /\ <<p>>[1] = p /\ <<p>> # <<>>
  OBVIOUS
<1>2. Fits(<<p>>, Top(thread[t]))
  BY FitsOne
<1>3. ThreadOK' /\ Moves(t, {<<p>>[1]}, {<<p>>[i] : i \in 1..Len(<<p>>)})
  BY <1>1, <1>2, Jumps
<1> QED BY <1>1, <1>3

LEMMA JumpTwo ==
  ASSUME ThreadOK, NEW t \in Threads, ~Idle(t), NEW p \in Places, NEW q \in Places \cap Beneath,
         RankOf(p) < RankOf(q), RankOf(q) <= RankOf(Top(thread[t])), thread' = Jump(t, <<p, q>>)
  PROVE  ThreadOK' /\ Moves(t, {p}, {p, q})
<1>1. {<<p, q>>[i] : i \in 1..Len(<<p, q>>)} = {p, q} /\ <<p, q>>[1] = p /\ <<p, q>> # <<>>
  OBVIOUS
<1>2. Fits(<<p, q>>, Top(thread[t]))
  BY FitsTwo
<1>3. ThreadOK' /\ Moves(t, {<<p, q>>[1]}, {<<p, q>>[i] : i \in 1..Len(<<p, q>>)})
  BY <1>1, <1>2, Jumps
<1> QED BY <1>1, <1>3

LEMMA JumpThree ==
  ASSUME ThreadOK, NEW t \in Threads, ~Idle(t), NEW p \in Places, NEW q \in Places \cap Beneath,
         NEW r \in Places \cap Beneath, RankOf(p) < RankOf(q), RankOf(q) < RankOf(r),
         RankOf(r) <= RankOf(Top(thread[t])), thread' = Jump(t, <<p, q, r>>)
  PROVE  ThreadOK' /\ Moves(t, {p}, {p, q, r})
<1>1. {<<p, q, r>>[i] : i \in 1..Len(<<p, q, r>>)} = {p, q, r} /\ <<p, q, r>>[1] = p /\ <<p, q, r>> # <<>>
  OBVIOUS
<1>2. Fits(<<p, q, r>>, Top(thread[t]))
  BY FitsThree
<1>3. ThreadOK' /\ Moves(t, {<<p, q, r>>[1]}, {<<p, q, r>>[i] : i \in 1..Len(<<p, q, r>>)})
  BY <1>1, <1>2, Jumps
<1> QED BY <1>1, <1>3

(* A thread is idle, or resends, and starts anew.                           *)
LEMMA Beginning ==
  ASSUME ThreadOK, NEW t \in Threads, NEW r \in Requests \cup {NoRequest}, NEW pcs,
         pcs \in Seq(Places), pcs # <<>>, StackOK(pcs), thread' = Begin(t, r, pcs),
         NEW top, top = pcs[1], NEW new, \A p : p \in new <=> \E i \in 1..Len(pcs) : pcs[i] = p
  PROVE  ThreadOK' /\ Begins(t, r, top, new)
<1> DEFINE v == thread'[t]
<1>1. v = [stack |-> pcs, cur |-> r] /\ \A u \in Threads : u # t => thread'[u] = thread[u]
  BY DEF Begin, ThreadOK
<1>2. thread' \in [Threads -> [stack : Seq(Places), cur : Requests \cup {NoRequest}]]
  BY DEF Begin, ThreadOK
<1>3. \A u \in Threads : StackOK(thread'[u].stack)
  BY <1>1 DEF ThreadOK
<1>4. Top(v) = top /\ \A p : Has(v, p) <=> p \in new
  <2>1. DOMAIN pcs = 1..Len(pcs) /\ Head(pcs) = pcs[1]
    OBVIOUS
  <2> QED BY <1>1, <2>1 DEF Top, Has
<1> QED BY <1>1, <1>2, <1>3, <1>4 DEF ThreadOK, Begins

LEMMA BeginOne ==
  ASSUME ThreadOK, NEW t \in Threads, NEW r \in Requests \cup {NoRequest}, NEW p \in Places,
         thread' = Begin(t, r, <<p>>)
  PROVE  ThreadOK' /\ Begins(t, r, p, {p})
<1>1. \A y : y \in {p} <=> \E i \in 1..Len(<<p>>) : <<p>>[i] = y
  OBVIOUS
<1>2. <<p>> # <<>> /\ p = <<p>>[1] /\ <<p>> \in Seq(Places) /\ StackOK(<<p>>)
  BY DEF StackOK
<1> QED BY <1>1, <1>2, Beginning

LEMMA BeginTwo ==
  ASSUME ThreadOK, NEW t \in Threads, NEW r \in Requests \cup {NoRequest}, NEW p \in Places,
         NEW q \in Places \cap Beneath, RankOf(p) < RankOf(q), thread' = Begin(t, r, <<p, q>>)
  PROVE  ThreadOK' /\ Begins(t, r, p, {p, q})
<1>1. \A y : y \in {p, q} <=> \E i \in 1..Len(<<p, q>>) : <<p, q>>[i] = y
  OBVIOUS
<1>2. <<p, q>> # <<>> /\ p = <<p, q>>[1] /\ <<p, q>> \in Seq(Places) /\ StackOK(<<p, q>>)
  BY DEF StackOK
<1> QED BY <1>1, <1>2, Beginning

LEMMA BeginThree ==
  ASSUME ThreadOK, NEW t \in Threads, NEW r \in Requests \cup {NoRequest}, NEW p \in Places,
         NEW q \in Places \cap Beneath, NEW x \in Places \cap Beneath,
         RankOf(p) < RankOf(q), RankOf(q) < RankOf(x), thread' = Begin(t, r, <<p, q, x>>)
  PROVE  ThreadOK' /\ Begins(t, r, p, {p, q, x})
<1>1. \A y : y \in {p, q, x} <=> \E i \in 1..Len(<<p, q, x>>) : <<p, q, x>>[i] = y
  OBVIOUS
<1>2. <<p, q, x>> # <<>> /\ p = <<p, q, x>>[1] /\ <<p, q, x>> \in Seq(Places) /\ StackOK(<<p, q, x>>)
  <2>1. RankOf(p) < RankOf(x)
    BY DEF RankOf
  <2> QED BY <2>1 DEF StackOK
<1> QED BY <1>1, <1>2, Beginning

(* The control thread calls the completion routine, or Cancel, in a loop.   *)
LEMMA Pushed ==
  ASSUME NEW w, w.stack \in Seq(Places), StackOK(w.stack), w.stack # <<>>,
         NEW p \in Places, Top(w) \in Beneath, RankOf(p) < RankOf(Top(w)),
         NEW v, v.stack = <<p>> \o w.stack
  PROVE  /\ v.stack \in Seq(Places) /\ StackOK(v.stack) /\ Top(v) = p
         /\ \A x : Has(v, x) <=> x = p \/ Has(w, x)
<1> DEFINE h == Top(w)
<1>1. h \in Places /\ h = Head(w.stack) /\ Has(w, h)
  BY StackView DEF Top
<1>2. PICK pcs : pcs = <<p, h>>
  OBVIOUS
<1>3. /\ pcs \in Seq(Places) /\ pcs # <<>> /\ pcs[1] = p
      /\ \A x : (\E i \in 1..Len(pcs) : pcs[i] = x) <=> x = p \/ x = h
  BY <1>1, <1>2
<1>4. Fits(pcs, h)
  <2>1. h \in Places \cap Beneath /\ RankOf(h) <= RankOf(h)
    BY <1>1, RankType
  <2> QED BY <1>2, <2>1, FitsTwo
<1>5. v.stack = pcs \o Tail(w.stack)
  <2> DEFINE a == <<p>> \o w.stack
             b == <<p, h>> \o Tail(w.stack)
  <2>1. a \in Seq(Places) /\ b \in Seq(Places) /\ Len(a) = Len(w.stack) + 1 /\ Len(b) = Len(w.stack) + 1
    BY <1>1
  <2>2. ASSUME NEW i \in 1..Len(a)
        PROVE  a[i] = b[i]
    BY <1>1, <2>1
  <2> QED BY <1>2, <2>1, <2>2
<1>6. /\ w.stack \in Seq(Places) /\ StackOK(w.stack) /\ w.stack # <<>>
      /\ Fits(pcs, Top(w)) /\ v.stack = pcs \o Tail(w.stack)
  BY <1>4, <1>5
<1>7. v.stack \in Seq(Places) /\ StackOK(v.stack)
  BY <1>6, Replaced
<1>8. \A x : Has(v, x) <=> (\E i \in 1..Len(pcs) : pcs[i] = x) \/ (Has(w, x) /\ x # h)
  BY <1>6, Replaced
<1>9. Top(v) = p
  <2>1. v.stack # <<>> /\ Head(v.stack) = p
    OBVIOUS
  <2> QED BY <2>1 DEF Top
<1> QED BY <1>1, <1>3, <1>7, <1>8, <1>9

LEMMA Calling ==
  ASSUME ThreadOK, NEW t \in Threads, ~Idle(t), NEW r \in Requests \cup {NoRequest}, NEW p \in Places,
         Top(thread[t]) \in Beneath, RankOf(p) < RankOf(Top(thread[t])),
         thread' = [thread EXCEPT ![t] = [stack |-> <<p>> \o @.stack, cur |-> r]]
  PROVE  /\ ThreadOK'
         /\ \A u \in Threads : u # t => thread'[u] = thread[u]
         /\ thread'[t].cur = r /\ Top(thread'[t]) = p
         /\ \A x : Has(thread'[t], x) <=> x = p \/ Has(thread[t], x)
<1> DEFINE w == thread[t]
           v == thread'[t]
<1>1. w.stack \in Seq(Places) /\ StackOK(w.stack) /\ w.stack # <<>>
  BY DEF ThreadOK, Idle
<1>2. v = [stack |-> <<p>> \o w.stack, cur |-> r] /\ \A u \in Threads : u # t => thread'[u] = thread[u]
  BY DEF ThreadOK
<1>3. v.stack = <<p>> \o w.stack /\ v.cur = r
  BY <1>2
<1>4. /\ v.stack \in Seq(Places) /\ StackOK(v.stack) /\ Top(v) = p
      /\ \A x : Has(v, x) <=> x = p \/ Has(w, x)
  BY <1>1, <1>3, Pushed
<1>5. thread' \in [Threads -> [stack : Seq(Places), cur : Requests \cup {NoRequest}]]
  BY <1>2, <1>3, <1>4 DEF ThreadOK
<1>6. \A u \in Threads : StackOK(thread'[u].stack)
  BY <1>2, <1>4 DEF ThreadOK
<1> QED BY <1>2, <1>3, <1>4, <1>5, <1>6 DEF ThreadOK

(* A send that was refused ends the thread's work.                          *)
LEMMA Emptied ==
  ASSUME ThreadOK, NEW t \in Threads, thread' = [thread EXCEPT ![t].stack = <<>>]
  PROVE  /\ ThreadOK' /\ \A u \in Threads : u # t => thread'[u] = thread[u]
         /\ thread'[t].cur = thread[t].cur /\ Top(thread'[t]) = "idle"
         /\ \A p : ~Has(thread'[t], p)
<1> DEFINE v == thread'[t]
<1>1. v = [thread[t] EXCEPT !.stack = <<>>] /\ \A u \in Threads : u # t => thread'[u] = thread[u]
  BY DEF ThreadOK
<1>2. thread[t] \in [stack : Seq(Places), cur : Requests \cup {NoRequest}]
  BY DEF ThreadOK
<1>3. v.stack = <<>> /\ v.cur = thread[t].cur /\ v \in [stack : Seq(Places), cur : Requests \cup {NoRequest}]
  <2>1. <<>> \in Seq(Places)
    OBVIOUS
  <2>2. v.stack = <<>> /\ v.cur = thread[t].cur
    BY <1>1, <1>2
  <2> QED BY <1>1, <1>2, <2>1, <2>2
<1>4. StackOK(v.stack) /\ Top(v) = "idle" /\ \A p : ~Has(v, p)
  BY <1>3 DEF StackOK, Top, Has
<1> QED BY <1>1, <1>3, <1>4 DEF ThreadOK

LEMMA ResubmitFails ==
  ASSUME ThreadOK, NEW t \in Threads,
         thread' = [thread EXCEPT ![t].stack = <<"failedResubmit", "resubmit">>]
  PROVE  ThreadOK' /\ Begins(t, thread[t].cur, "failedResubmit", {"failedResubmit", "resubmit"})
<1>1. thread[t] \in [stack : Seq(Places), cur : Requests \cup {NoRequest}]
  BY DEF ThreadOK
<1>2. [thread[t] EXCEPT !.stack = <<"failedResubmit", "resubmit">>]
        = [stack |-> <<"failedResubmit", "resubmit">>, cur |-> thread[t].cur]
  BY <1>1
<1>3. thread' = Begin(t, thread[t].cur, <<"failedResubmit", "resubmit">>)
  BY <1>2 DEF Begin, ThreadOK
<1>4. /\ "failedResubmit" \in Places /\ "resubmit" \in Places \cap Beneath
      /\ RankOf("failedResubmit") < RankOf("resubmit")
  BY DEF Places, Beneath, RankOf
<1> QED BY <1>1, <1>3, <1>4, BeginTwo

-----------------------------------------------------------------------------
(* The shape of the stacks, and whose request a thread works on.            *)

Submitting == {"submit", "submitCounted", "submitChecked"}

(* Places of a thread that works on a request.                              *)
RequestPlaces ==
  {"completion", "complete", "cancel", "cancelReference", "cancelIrp", "requestCancelled",
   "cancelRelease", "completeCanceled", "timerCallback", "timerCanceled", "submit",
   "submitCounted", "submitChecked", "send", "wait", "timedOut", "waitAgain", "failedResubmit"}

ShapeOK(t) ==
  /\ t \notin {Control, Canceller} => thread[t].cur = t[2]
  /\ (\E p \in RequestPlaces : Has(thread[t], p)) => thread[t].cur \in Requests
  /\ Has(thread[t], "complete") \/ Has(thread[t], "signal") => Has(thread[t], "dereference")
  /\ Has(thread[t], "cancelIrp") => Has(thread[t], "cancelRelease")
  /\ Has(thread[t], "timerCallback") \/ Has(thread[t], "timerCanceled") => t = Timer(thread[t].cur)
  /\ (\E p \in Submitting : Has(thread[t], p)) =>
       \/ t = Sender(thread[t].cur)
       \/ t = Control /\ Has(thread[t], "resubmitted")
  /\ (\E p \in Submitting : Has(thread[t], p)) => ~Has(thread[t], "cancelRelease")

ShapeInv == \A t \in Threads : ShapeOK(t)

TypeInv == TypeOK /\ ThreadOK /\ ShapeInv

(* What a thread may add to what is beneath it.                             *)
Proper(top, new) ==
  /\ new \cap RequestPlaces # {} => top \in RequestPlaces
  /\ new \cap {"complete", "signal"} # {} => "dereference" \in new
  /\ "cancelIrp" \in new => "cancelRelease" \in new
  /\ "timerCallback" \notin new
  /\ "timerCanceled" \in new => top = "timerCallback"
  /\ new \cap Submitting # {} => top \in Submitting /\ "cancelRelease" \notin new
  /\ "cancelRelease" \in new => top \notin Submitting /\ new \cap Submitting = {}

LEMMA MovesShape ==
  ASSUME ThreadOK, ShapeInv, NEW t \in Threads, NEW tops, NEW new, Moves(t, tops, new),
         Top(thread[t]) # "idle", Proper(Top(thread[t]), new)
  PROVE  ShapeInv'
<1> SUFFICES ShapeOK(t)'
  BY DEF ShapeInv, ShapeOK, Moves
<1> DEFINE w == thread[t]
           v == thread'[t]
           h == Top(w)
<1>1. v.cur = w.cur /\ \A p : Has(v, p) <=> p \in new \/ (Has(w, p) /\ p # h)
  BY DEF Moves
<1>2. Has(w, h) /\ h \in Places
      /\ \A p : Has(w, p) => p = h \/ (p \in Beneath /\ RankOf(h) < RankOf(p))
  BY TopOfStack
<1>3. ShapeOK(t)
  BY DEF ShapeInv
<1>4. t \notin {Control, Canceller} => v.cur = t[2]
  BY <1>1, <1>3 DEF ShapeOK
<1>5. (\E p \in RequestPlaces : Has(v, p)) => v.cur \in Requests
  BY <1>1, <1>2, <1>3 DEF ShapeOK, Proper
<1>6. Has(v, "complete") \/ Has(v, "signal") => Has(v, "dereference")
  <2>1. h = "dereference" => ~Has(w, "complete") /\ ~Has(w, "signal")
    BY <1>2 DEF RankOf
  <2> QED BY <1>1, <1>3, <2>1 DEF ShapeOK, Proper
<1>7. Has(v, "cancelIrp") => Has(v, "cancelRelease")
  <2>1. h = "cancelRelease" => ~Has(w, "cancelIrp")
    BY <1>2 DEF RankOf
  <2> QED BY <1>1, <1>3, <2>1 DEF ShapeOK, Proper
<1>8. Has(v, "timerCallback") \/ Has(v, "timerCanceled") => t = Timer(v.cur)
  BY <1>1, <1>2, <1>3 DEF ShapeOK, Proper
<1>9. (\E p \in Submitting : Has(v, p)) =>
         \/ t = Sender(v.cur)
         \/ t = Control /\ Has(v, "resubmitted")
  <2> SUFFICES ASSUME NEW p \in Submitting, Has(v, p)
               PROVE  t = Sender(v.cur) \/ (t = Control /\ Has(v, "resubmitted"))
    OBVIOUS
  <2>1. h \in Submitting
    <3>1. CASE p \in new
      BY <3>1 DEF Proper
    <3>2. CASE Has(w, p)
      BY <1>2, <3>2 DEF Submitting, Beneath
    <3> QED BY <1>1, <3>1, <3>2
  <2>2. h # "resubmitted"
    BY <2>1 DEF Submitting
  <2> QED BY <1>1, <1>2, <1>3, <2>1, <2>2 DEF ShapeOK
<1>10. (\E p \in Submitting : Has(v, p)) => ~Has(v, "cancelRelease")
  <2> SUFFICES ASSUME NEW p \in Submitting, Has(v, p)
               PROVE  ~Has(v, "cancelRelease")
    OBVIOUS
  <2>1. h \in Submitting /\ "cancelRelease" \notin new
    <3>1. CASE p \in new
      BY <3>1 DEF Proper
    <3>2. CASE Has(w, p)
      BY <1>2, <3>2 DEF Submitting, Beneath, Proper
    <3> QED BY <1>1, <3>1, <3>2
  <2> QED BY <1>1, <1>2, <1>3, <2>1 DEF ShapeOK
<1> QED BY <1>4, <1>5, <1>6, <1>7, <1>8, <1>9, <1>10 DEF ShapeOK

(* Idle threads, and Start's loop, begin with a request of theirs.          *)
LEMMA BeginsShape ==
  ASSUME ThreadOK, ShapeInv, NEW t \in Threads, NEW r \in Requests \cup {NoRequest},
         NEW top, NEW new, Begins(t, r, top, new),
         t \notin {Control, Canceller} => r = t[2],
         new \cap RequestPlaces # {} => r \in Requests,
         new \cap {"complete", "signal", "cancelIrp", "cancelRelease", "timerCanceled"} = {},
         "timerCallback" \in new => t = Timer(r),
         new \cap Submitting # {} => t = Sender(r) \/ (t = Control /\ "resubmitted" \in new)
  PROVE  ShapeInv'
<1> SUFFICES ShapeOK(t)'
  BY DEF ShapeInv, ShapeOK, Begins
<1>1. thread'[t].cur = r /\ \A p : Has(thread'[t], p) <=> p \in new
  BY DEF Begins
<1> QED BY <1>1 DEF ShapeOK

LEMMA CallsShape ==
  ASSUME ThreadOK, ShapeInv, NEW r \in Requests, NEW p \in {"completion", "cancel"},
         \A u \in Threads : u # Control => thread'[u] = thread[u],
         thread'[Control].cur = r, \A x : Has(thread'[Control], x) <=> x = p \/ Has(thread[Control], x),
         Top(thread[Control]) \in {"failPended", "cancelSent"}
  PROVE  ShapeInv'
<1>1. Control \in Threads
  BY DEF Threads, Control
<1>2. \A x : Has(thread[Control], x) =>
        x \in {"failPended", "cancelSent", "waitSent", "waited", "dispose", "waitDispose", "resubmit"}
  BY <1>1, TopOfStack DEF RankOf, Beneath
<1>3. ShapeOK(Control)'
  BY <1>2 DEF ShapeOK, Submitting, Timer, Control
<1> QED BY <1>3 DEF ShapeInv, ShapeOK

LEMMA EmptiedShape ==
  ASSUME ThreadOK, ShapeInv, NEW t \in Threads,
         \A u \in Threads : u # t => thread'[u] = thread[u],
         thread'[t].cur = thread[t].cur, \A p : ~Has(thread'[t], p)
  PROVE  ShapeInv'
BY DEF ShapeInv, ShapeOK

-----------------------------------------------------------------------------
(* What each step does to the stack of its thread.                          *)

Fewer(t) == Moves(t, Down, {})

LEMMA StepPlaces ==
  /\ Beneath \subseteq Places /\ RequestPlaces \subseteq Places /\ Submitting \subseteq Places
  /\ {"signal", "dereference", "cancelRelease", "timerCanceled", "waitAgain"} \subseteq Beneath
  /\ "idle" \notin Places
BY DEF Places, Beneath, RequestPlaces, Submitting

(* A completed request leaves the thread with the callback, perhaps a       *)
(* signal, and the I/O count.                                               *)
LEMMA RemoveMoves ==
  ASSUME TypeInv, NEW t \in Threads, NEW r, NEW b, RemoveCompletedRequestLocked(t, r, b),
         Top(thread[t]) \in {"completion", "timerCallback", "timerCanceled", "completeCanceled",
                             "failedResubmit"}
  PROVE  /\ ThreadOK' /\ ShapeInv'
         /\ LastRemoved(r) \/ LastStopped(r) =>
              Moves(t, {"complete"}, {"complete", "signal", "dereference"})
         /\ ~(LastRemoved(r) \/ LastStopped(r)) =>
              Moves(t, {"complete"}, {"complete", "dereference"})
<1>1. /\ "complete" \in Places /\ "signal" \in Places \cap Beneath
      /\ "dereference" \in Places \cap Beneath
      /\ RankOf("complete") < RankOf("signal") /\ RankOf("signal") < RankOf("dereference")
      /\ RankOf("complete") < RankOf("dereference")
      /\ RankOf("dereference") <= RankOf(Top(thread[t]))
      /\ Top(thread[t]) # "idle" /\ Top(thread[t]) \in RequestPlaces
  BY DEF Places, Beneath, RankOf, RequestPlaces
<1>2. ThreadOK /\ ShapeInv /\ ~Idle(t)
  BY <1>1, TopOfStack DEF TypeInv
<1>3. CASE LastRemoved(r) \/ LastStopped(r)
  <2>1. thread' = Jump(t, <<"complete", "signal", "dereference">>)
    BY <1>3 DEF RemoveCompletedRequestLocked
  <2>2. ThreadOK' /\ Moves(t, {"complete"}, {"complete", "signal", "dereference"})
    BY <1>1, <1>2, <2>1, JumpThree
  <2>3. Proper(Top(thread[t]), {"complete", "signal", "dereference"})
    BY <1>1 DEF Proper, Submitting
  <2> QED BY <1>1, <1>2, <1>3, <2>2, <2>3, MovesShape
<1>4. CASE ~(LastRemoved(r) \/ LastStopped(r))
  <2>1. thread' = Jump(t, <<"complete", "dereference">>)
    BY <1>4 DEF RemoveCompletedRequestLocked
  <2>2. ThreadOK' /\ Moves(t, {"complete"}, {"complete", "dereference"})
    BY <1>1, <1>2, <2>1, JumpTwo
  <2>3. Proper(Top(thread[t]), {"complete", "dereference"})
    BY <1>1 DEF Proper, Submitting
  <2> QED BY <1>1, <1>2, <1>4, <2>2, <2>3, MovesShape
<1> QED BY <1>3, <1>4

(* A thread returns from a place.                                           *)
LEMMA FewerMoves ==
  ASSUME TypeInv, NEW t \in Threads, ~Idle(t), thread' = Jump(t, <<>>)
  PROVE  ThreadOK' /\ ShapeInv' /\ Fewer(t)
<1>1. ThreadOK /\ ShapeInv /\ Top(thread[t]) # "idle"
  BY TopOfStack DEF TypeInv
<1>2. ThreadOK' /\ Moves(t, Down, {})
  BY <1>1, JumpNone
<1>3. Proper(Top(thread[t]), {})
  BY DEF Proper
<1> QED BY <1>1, <1>2, <1>3, MovesShape DEF Fewer

(* It goes on in another place,                                             *)
LEMMA OneMoves ==
  ASSUME TypeInv, NEW t \in Threads, NEW h \in Places, At(t, h), NEW p \in Places,
         RankOf(p) <= RankOf(h), Proper(h, {p}), thread' = Jump(t, <<p>>)
  PROVE  ThreadOK' /\ ShapeInv' /\ Moves(t, {p}, {p}) /\ Top(thread[t]) = h
<1>1. ThreadOK /\ ShapeInv /\ Top(thread[t]) = h /\ ~Idle(t) /\ h # "idle"
  BY TopOfStack, StepPlaces DEF TypeInv, At
<1>2. ThreadOK' /\ Moves(t, {p}, {p})
  BY <1>1, JumpOne
<1> QED BY <1>1, <1>2, MovesShape

(* or calls one and returns to another.                                     *)
LEMMA TwoMoves ==
  ASSUME TypeInv, NEW t \in Threads, NEW h \in Places, At(t, h), NEW p \in Places,
         NEW q \in Places \cap Beneath, RankOf(p) < RankOf(q), RankOf(q) <= RankOf(h),
         Proper(h, {p, q}), thread' = Jump(t, <<p, q>>)
  PROVE  ThreadOK' /\ ShapeInv' /\ Moves(t, {p}, {p, q}) /\ Top(thread[t]) = h
<1>1. ThreadOK /\ ShapeInv /\ Top(thread[t]) = h /\ ~Idle(t) /\ h # "idle"
  BY TopOfStack, StepPlaces DEF TypeInv, At
<1>2. ThreadOK' /\ Moves(t, {p}, {p, q})
  BY <1>1, JumpTwo
<1> QED BY <1>1, <1>2, MovesShape

-----------------------------------------------------------------------------
(* Types.                                                                   *)

Request == [count : Int, canceled : BOOLEAN, flags : SUBSET Flags, list : Lists,
            irp : {"here", "lower"}, irpCanceled : BOOLEAN, cancelRoutine : BOOLEAN,
            status : Statuses, options : SUBSET Options]

Target == [state : States, waiting : BOOLEAN, removing : BOOLEAN, event : BOOLEAN, ioCount : Int]

(* The fields a step sets.                                                  *)
LEMMA RequestSet ==
  ASSUME NEW x \in Request
  PROVE  /\ \A n \in Int : [x EXCEPT !.count = n] \in Request
         /\ \A F \in SUBSET Flags : [x EXCEPT !.flags = F] \in Request
         /\ \A l \in Lists : [x EXCEPT !.list = l] \in Request
         /\ \A s \in Statuses : [x EXCEPT !.status = s] \in Request
         /\ \A i \in {"here", "lower"} : [x EXCEPT !.irp = i] \in Request
         /\ \A b \in BOOLEAN : /\ [x EXCEPT !.canceled = b] \in Request
                              /\ [x EXCEPT !.irpCanceled = b] \in Request
                              /\ [x EXCEPT !.cancelRoutine = b] \in Request
BY DEF Request

LEMMA RemoveTypes ==
  ASSUME TypeInv, NEW t \in Threads, NEW r \in Requests, NEW b, RemoveCompletedRequestLocked(t, r, b)
  PROVE  target' \in Target /\ req' \in [Requests -> Request]
<1>1. target \in Target /\ req \in [Requests -> Request] /\ req[r] \in Request
  BY DEF TypeInv, TypeOK, Target, Request
<1>2. Morphed(r, b) \in Statuses
  BY <1>1 DEF Morphed, Statuses, Request
<1>3. target' \in Target
  BY <1>1 DEF RemoveCompletedRequestLocked, Target
<1>4. req' \in [Requests -> Request]
  <2>1. [req[r] EXCEPT !.count = 0, !.list = "none", !.flags = {}, !.status = Morphed(r, b)] \in Request
    <3> DEFINE y == [req[r] EXCEPT !.count = 0]
               z == [y EXCEPT !.list = "none"]
               u == [z EXCEPT !.flags = {}]
    <3>1. y \in Request
      BY <1>1 DEF Request
    <3>2. z \in Request
      BY <3>1, RequestSet DEF Lists
    <3>3. u \in Request
      BY <3>2, RequestSet
    <3>4. [u EXCEPT !.status = Morphed(r, b)] \in Request
      BY <1>2, <3>3, RequestSet
    <3> QED BY <3>4
  <2> QED BY <1>1, <2>1 DEF RemoveCompletedRequestLocked
<1> QED BY <1>3, <1>4

(* A thread at a place that works on a request has one.                     *)
LEMMA WorksOn ==
  ASSUME TypeInv, NEW t \in Threads, NEW h \in Places, At(t, h)
  PROVE  /\ Top(thread[t]) = h /\ Has(thread[t], h) /\ ~Idle(t)
         /\ h \in RequestPlaces => Cur(t) \in Requests /\ thread[t].cur = Cur(t)
<1>1. Top(thread[t]) = h /\ Has(thread[t], h) /\ ~Idle(t)
  BY TopOfStack, StepPlaces DEF TypeInv, At
<1> QED BY <1>1 DEF TypeInv, ShapeInv, ShapeOK, Cur

RestOK ==
  /\ target \in Target /\ lock \in Threads \cup {NoThread} /\ req \in [Requests -> Request]
  /\ owner \in [Requests -> {"driver", "target"}]
  /\ todo \in [op : Operations, pended : SUBSET Requests, sent : SUBSET Requests, wait : BOOLEAN]
  /\ plan \in [sends : [Requests -> Seq(SUBSET Options)], cancels : Nat, calls : Seq(Operations)]

LEMMA TypeParts ==
  /\ TypeInv => RestOK /\ ThreadOK /\ ShapeInv
  /\ RestOK /\ ThreadOK /\ ShapeInv => TypeInv
BY DEF TypeOK, RestOK, TypeInv, ThreadOK, Target, Request

LEMMA TypeAgain ==
  ASSUME RestOK', ThreadOK', ShapeInv'
  PROVE  TypeInv'
BY DEF TypeOK, RestOK, TypeInv, ThreadOK, Target, Request

LEMMA CompletionTypes ==
  ASSUME TypeInv, NEW t \in Threads, RequestCompletionRoutine(t)
  PROVE  TypeInv'
<1> DEFINE r == Cur(t)
<1>1. /\ At(t, "completion") /\ r \in Requests /\ Top(thread[t]) = "completion" /\ ~Idle(t)
      /\ RestOK
  BY WorksOn, TypeParts DEF RequestCompletionRoutine, Places, RequestPlaces
<1>2. CASE RemoveCompletedRequestLocked(t, r, FromTimer(r))
  <2>1. ThreadOK' /\ ShapeInv' /\ target' \in Target /\ req' \in [Requests -> Request]
    BY <1>1, <1>2, RemoveMoves, RemoveTypes
  <2> QED BY <1>1, <2>1, TypeAgain DEF RequestCompletionRoutine, RestOK
<1>3. CASE /\ thread' = Jump(t, <<>>) /\ UNCHANGED target
           /\ \/ req' = [req EXCEPT ![r].count = @ - 1, ![r].flags = (@ \ {"TimerSet"}) \cup {"Completed"}]
              \/ req' = [req EXCEPT ![r].flags = @ \cup {"Completed"}]
  <2>1. ThreadOK' /\ ShapeInv'
    BY <1>1, <1>3, FewerMoves
  <2>2. req[r] \in Request
    BY <1>1 DEF RestOK
  <2>3. req' \in [Requests -> Request]
    <3>1. CASE req' = [req EXCEPT ![r].count = @ - 1, ![r].flags = (@ \ {"TimerSet"}) \cup {"Completed"}]
      <4> DEFINE y == [req[r] EXCEPT !.count = @ - 1]
                 z == [y EXCEPT !.flags = (@ \ {"TimerSet"}) \cup {"Completed"}]
      <4>1. y \in Request /\ y.flags \in SUBSET Flags
        BY <2>2 DEF Request
      <4>2. z \in Request
        BY <4>1, RequestSet DEF Flags
      <4>3. req' = [req EXCEPT ![r] = z]
        BY <3>1
      <4> QED BY <1>1, <4>2, <4>3 DEF RestOK
    <3>2. CASE req' = [req EXCEPT ![r].flags = @ \cup {"Completed"}]
      <4>1. [req[r] EXCEPT !.flags = @ \cup {"Completed"}] \in Request
        BY <2>2, RequestSet DEF Request, Flags
      <4> QED BY <1>1, <3>2, <4>1 DEF RestOK
    <3> QED BY <1>3, <3>1, <3>2
  <2> QED BY <1>1, <1>3, <2>1, <2>3, TypeAgain DEF RequestCompletionRoutine, RestOK
<1> QED BY <1>1, <1>2, <1>3 DEF RequestCompletionRoutine

LEMMA CompletingTypes ==
  ASSUME TypeInv, NEW t \in Threads,
         \/ CompleteRequest(t) \/ SetSentIoEvent(t) \/ DecrementIoCount(t)
         \/ CompleteCanceledRequest(t)
  PROVE  TypeInv'
<1> USE TypeParts
<1>1. CASE CompleteRequest(t)
  <2>1. ~Idle(t) /\ thread' = Jump(t, <<>>) /\ RestOK
    BY <1>1, WorksOn DEF CompleteRequest, Places
  <2> QED BY <1>1, <2>1, FewerMoves, TypeAgain DEF CompleteRequest, RestOK
<1>2. CASE SetSentIoEvent(t)
  <2>1. ~Idle(t) /\ thread' = Jump(t, <<>>) /\ RestOK
    BY <1>2, WorksOn DEF SetSentIoEvent, Places
  <2>2. target' \in Target
    BY <1>2, <2>1 DEF SetSentIoEvent, RestOK, Target
  <2> QED BY <1>2, <2>1, <2>2, FewerMoves, TypeAgain DEF SetSentIoEvent, RestOK
<1>3. CASE DecrementIoCount(t)
  <2>1. ~Idle(t) /\ thread' = Jump(t, <<>>) /\ RestOK
    BY <1>3, WorksOn DEF DecrementIoCount, Places
  <2>2. target' \in Target
    <3>1. target \in Target /\ target.ioCount \in Int
      BY <2>1 DEF RestOK, Target
    <3>2. [target EXCEPT !.ioCount = @ - 1] \in Target
      BY <3>1 DEF Target
    <3> QED BY <1>3, <3>2 DEF DecrementIoCount
  <2> QED BY <1>3, <2>1, <2>2, FewerMoves, TypeAgain DEF DecrementIoCount, RestOK
<1>4. CASE CompleteCanceledRequest(t)
  <2>1. Cur(t) \in Requests /\ Top(thread[t]) = "completeCanceled" /\ RestOK
    BY <1>4, WorksOn DEF CompleteCanceledRequest, Places, RequestPlaces
  <2>2. ThreadOK' /\ ShapeInv' /\ target' \in Target /\ req' \in [Requests -> Request]
    BY <1>4, <2>1, RemoveMoves, RemoveTypes DEF CompleteCanceledRequest
  <2> QED BY <1>4, <2>1, <2>2, TypeAgain DEF CompleteCanceledRequest, RestOK
<1> QED BY <1>1, <1>2, <1>3, <1>4

LEMMA CancelTypes ==
  ASSUME TypeInv, NEW t \in Threads,
         \/ Cancel(t) \/ CancelReference(t) \/ CancelIrp(t) \/ RequestCancelled(t) \/ CancelRelease(t)
  PROVE  TypeInv'
<1> DEFINE r == Cur(t)
           x == req[r]
<1>0. RestOK /\ (r \in Requests => x \in Request)
  BY TypeParts DEF RestOK
<1>1. CASE Cancel(t)
  <2>1. r \in Requests
    BY <1>1, WorksOn DEF Cancel, Places, RequestPlaces
  <2>2. ThreadOK' /\ ShapeInv'
    <3>1. At(t, "cancel") /\ thread' = Jump(t, <<"cancelReference">>)
      BY <1>1 DEF Cancel
    <3>2. /\ "cancel" \in Places /\ "cancelReference" \in Places
          /\ RankOf("cancelReference") <= RankOf("cancel") /\ Proper("cancel", {"cancelReference"})
      BY DEF Places, RankOf, Proper, RequestPlaces, Submitting
    <3> QED BY <3>1, <3>2, OneMoves
  <2>3. req' \in [Requests -> Request]
    <3>1. [x EXCEPT !.canceled = TRUE] \in Request
      BY <1>0, <2>1, RequestSet
    <3> QED BY <1>0, <1>1, <2>1, <3>1 DEF Cancel, RestOK
  <2> QED BY <1>0, <1>1, <2>2, <2>3, TypeAgain DEF Cancel, RestOK
<1>2. CASE CancelReference(t)
  <2>1. r \in Requests /\ ~Idle(t)
    BY <1>2, WorksOn DEF CancelReference, Places, RequestPlaces
  <2>2. ThreadOK' /\ ShapeInv'
    <3>1. CASE thread' = Jump(t, <<"cancelIrp", "cancelRelease">>)
      <4>1. At(t, "cancelReference")
        BY <1>2 DEF CancelReference
      <4>2. /\ "cancelReference" \in Places /\ "cancelIrp" \in Places
            /\ "cancelRelease" \in Places \cap Beneath
            /\ RankOf("cancelIrp") < RankOf("cancelRelease")
            /\ RankOf("cancelRelease") <= RankOf("cancelReference")
            /\ Proper("cancelReference", {"cancelIrp", "cancelRelease"})
        BY DEF Places, Beneath, RankOf, Proper, RequestPlaces, Submitting
      <4> QED BY <3>1, <4>1, <4>2, TwoMoves
    <3>2. CASE thread' = Jump(t, <<>>)
      BY <2>1, <3>2, FewerMoves
    <3> QED BY <1>2, <3>1, <3>2 DEF CancelReference
  <2>3. req' \in [Requests -> Request]
    <3>1. [x EXCEPT !.count = @ + 1] \in Request
      BY <1>0, <2>1 DEF Request
    <3>2. UNCHANGED req \/ req' = [req EXCEPT ![r] = [x EXCEPT !.count = @ + 1]]
      BY <1>2 DEF CancelReference
    <3>3. req \in [Requests -> Request]
      BY <1>0 DEF RestOK
    <3> QED BY <2>1, <3>1, <3>2, <3>3
  <2> QED BY <1>0, <1>2, <2>2, <2>3, TypeAgain DEF CancelReference, RestOK
<1>3. CASE CancelIrp(t)
  <2>1. r \in Requests /\ ~Idle(t) /\ At(t, "cancelIrp")
    BY <1>3, WorksOn DEF CancelIrp, Places, RequestPlaces
  <2>2. ThreadOK' /\ ShapeInv'
    <3>1. CASE thread' = Jump(t, <<"requestCancelled">>)
      <4>1. /\ "cancelIrp" \in Places /\ "requestCancelled" \in Places
            /\ RankOf("requestCancelled") <= RankOf("cancelIrp")
            /\ Proper("cancelIrp", {"requestCancelled"})
        BY DEF Places, RankOf, Proper, RequestPlaces, Submitting
      <4> QED BY <2>1, <3>1, <4>1, OneMoves
    <3>2. CASE thread' = Jump(t, <<>>)
      BY <2>1, <3>2, FewerMoves
    <3> QED BY <1>3, <3>1, <3>2 DEF CancelIrp
  <2>3. req' \in [Requests -> Request]
    <3> DEFINE y == [x EXCEPT !.irpCanceled = TRUE]
    <3>1. y \in Request
      BY <1>0, <2>1, RequestSet
    <3>2. [y EXCEPT !.cancelRoutine = FALSE] \in Request
      BY <3>1, RequestSet
    <3>3. req' = [req EXCEPT ![r] = [y EXCEPT !.cancelRoutine = FALSE]]
      BY <1>3 DEF CancelIrp
    <3> QED BY <1>0, <2>1, <3>2, <3>3 DEF RestOK
  <2> QED BY <1>0, <1>3, <2>2, <2>3, TypeAgain DEF CancelIrp, RestOK
<1>4. CASE RequestCancelled(t)
  <2>1. r \in Requests /\ At(t, "requestCancelled")
    BY <1>4, WorksOn DEF RequestCancelled, Places, RequestPlaces
  <2>2. ThreadOK' /\ ShapeInv'
    <3>1. /\ "requestCancelled" \in Places /\ "completion" \in Places
          /\ RankOf("completion") <= RankOf("requestCancelled")
          /\ Proper("requestCancelled", {"completion"})
      BY DEF Places, RankOf, Proper, RequestPlaces, Submitting
    <3> QED BY <1>4, <2>1, <3>1, OneMoves DEF RequestCancelled
  <2>3. req' \in [Requests -> Request]
    <3> DEFINE y == [x EXCEPT !.list = "none"]
    <3>1. y \in Request
      BY <1>0, <2>1, RequestSet DEF Lists
    <3>2. [y EXCEPT !.status = "Cancelled"] \in Request
      BY <3>1, RequestSet DEF Statuses
    <3>3. req' = [req EXCEPT ![r] = [y EXCEPT !.status = "Cancelled"]]
      BY <1>4 DEF RequestCancelled
    <3> QED BY <1>0, <2>1, <3>2, <3>3 DEF RestOK
  <2> QED BY <1>0, <1>4, <2>2, <2>3, TypeAgain DEF RequestCancelled, RestOK
<1>5. CASE CancelRelease(t)
  <2>1. r \in Requests /\ ~Idle(t) /\ At(t, "cancelRelease")
    BY <1>5, WorksOn DEF CancelRelease, Places, RequestPlaces
  <2>2. ThreadOK' /\ ShapeInv'
    <3>1. CASE thread' = Jump(t, <<"completeCanceled">>)
      <4>1. /\ "cancelRelease" \in Places /\ "completeCanceled" \in Places
            /\ RankOf("completeCanceled") <= RankOf("cancelRelease")
            /\ Proper("cancelRelease", {"completeCanceled"})
        BY DEF Places, RankOf, Proper, RequestPlaces, Submitting
      <4> QED BY <2>1, <3>1, <4>1, OneMoves
    <3>2. CASE thread' = Jump(t, <<>>)
      BY <2>1, <3>2, FewerMoves
    <3> QED BY <1>5, <3>1, <3>2 DEF CancelRelease
  <2>3. req' \in [Requests -> Request]
    <3>1. [x EXCEPT !.count = @ - 1] \in Request
      BY <1>0, <2>1 DEF Request
    <3> QED BY <1>0, <1>5, <2>1, <3>1 DEF CancelRelease, RestOK
  <2> QED BY <1>0, <1>5, <2>2, <2>3, TypeAgain DEF CancelRelease, RestOK
<1> QED BY <1>1, <1>2, <1>3, <1>4, <1>5

LEMMA TimerTypes ==
  ASSUME TypeInv, NEW t \in Threads, TimerCallback(t) \/ TimerCanceled(t)
  PROVE  TypeInv'
<1> DEFINE r == Cur(t)
           x == req[r]
<1>1. /\ r \in Requests /\ ~Idle(t) /\ RestOK /\ x \in Request
      /\ Top(thread[t]) \in {"timerCallback", "timerCanceled"}
  BY WorksOn, TypeParts DEF TimerCallback, TimerCanceled, Places, RequestPlaces, RestOK
<1>2. CASE RemoveCompletedRequestLocked(t, r, TRUE)
  <2>1. ThreadOK' /\ ShapeInv' /\ target' \in Target /\ req' \in [Requests -> Request]
    BY <1>1, <1>2, RemoveMoves, RemoveTypes
  <2> QED BY <1>1, <2>1, TypeAgain DEF TimerCallback, TimerCanceled, RestOK
<1>3. CASE /\ thread' = Jump(t, <<>>) /\ UNCHANGED target
           /\ \/ req' = [req EXCEPT ![r].count = @ - 1, ![r].flags = @ \ {"TimerSet"}]
              \/ req' = [req EXCEPT ![r].count = @ - 1]
  <2>1. ThreadOK' /\ ShapeInv'
    BY <1>1, <1>3, FewerMoves
  <2>2. [x EXCEPT !.count = @ - 1] \in Request
    BY <1>1 DEF Request
  <2>3. req' \in [Requests -> Request]
    <3>1. CASE req' = [req EXCEPT ![r].count = @ - 1, ![r].flags = @ \ {"TimerSet"}]
      <4> DEFINE y == [x EXCEPT !.count = @ - 1]
      <4>1. [y EXCEPT !.flags = @ \ {"TimerSet"}] \in Request
        BY <2>2 DEF Request
      <4>2. req' = [req EXCEPT ![r] = [y EXCEPT !.flags = @ \ {"TimerSet"}]]
        BY <3>1
      <4> QED BY <1>1, <4>1, <4>2 DEF RestOK
    <3>2. CASE req' = [req EXCEPT ![r].count = @ - 1]
      BY <1>1, <2>2, <3>2 DEF RestOK
    <3> QED BY <1>3, <3>1, <3>2
  <2> QED BY <1>1, <1>3, <2>1, <2>3, TypeAgain DEF TimerCallback, TimerCanceled, RestOK
<1>4. CASE /\ At(t, "timerCallback") /\ thread' = Jump(t, <<"cancel", "timerCanceled">>)
           /\ req' = [req EXCEPT ![r].count = @ + 1, ![r].flags = (@ \ {"TimerSet"}) \cup {"CancelledFromTimer"}]
           /\ UNCHANGED target
  <2>1. ThreadOK' /\ ShapeInv'
    <3>1. /\ "timerCallback" \in Places /\ "cancel" \in Places
          /\ "timerCanceled" \in Places \cap Beneath
          /\ RankOf("cancel") < RankOf("timerCanceled")
          /\ RankOf("timerCanceled") <= RankOf("timerCallback")
          /\ Proper("timerCallback", {"cancel", "timerCanceled"})
      BY DEF Places, Beneath, RankOf, Proper, RequestPlaces, Submitting
    <3> QED BY <1>4, <3>1, TwoMoves
  <2>2. req' \in [Requests -> Request]
    <3> DEFINE y == [x EXCEPT !.count = @ + 1]
               z == [y EXCEPT !.flags = (@ \ {"TimerSet"}) \cup {"CancelledFromTimer"}]
    <3>1. y \in Request /\ y.flags \in SUBSET Flags
      BY <1>1 DEF Request
    <3>2. z \in Request
      BY <3>1, RequestSet DEF Flags
    <3>3. req' = [req EXCEPT ![r] = z]
      BY <1>4
    <3> QED BY <1>1, <3>2, <3>3 DEF RestOK
  <2> QED BY <1>1, <1>4, <2>1, <2>2, TypeAgain DEF TimerCallback, TimerCanceled, RestOK
<1> QED BY <1>2, <1>3, <1>4 DEF TimerCallback, TimerCanceled

(* The thread of a request that was not sent.                               *)
LEMMA NotSubmittedMoves ==
  ASSUME TypeInv, NEW t \in Threads, NEW h \in Submitting, At(t, h), NotSubmitted(t)
  PROVE  /\ ThreadOK' /\ ShapeInv' /\ owner' \in [Requests -> {"driver", "target"}]
         /\ t = Control =>
              /\ Begins(t, Cur(t), "failedResubmit", {"failedResubmit", "resubmit"})
              /\ UNCHANGED owner
         /\ t # Control =>
              /\ \A u \in Threads : u # t => thread'[u] = thread[u]
              /\ thread'[t].cur = Cur(t) /\ Top(thread'[t]) = "idle" /\ \A p : ~Has(thread'[t], p)
              /\ owner' = [owner EXCEPT ![Cur(t)] = "driver"]
<1>1. /\ ThreadOK /\ ShapeInv /\ RestOK /\ Cur(t) \in Requests /\ Has(thread[t], h)
      /\ thread[t].cur = Cur(t)
  <2>1. h \in Places /\ h \in RequestPlaces
    BY DEF Submitting, Places, RequestPlaces
  <2> QED BY <2>1, WorksOn, TypeParts
<1>2. CASE t = Control
  <2>1. thread' = [thread EXCEPT ![t].stack = <<"failedResubmit", "resubmit">>] /\ UNCHANGED owner
    BY <1>2 DEF NotSubmitted
  <2>2. ThreadOK' /\ Begins(t, Cur(t), "failedResubmit", {"failedResubmit", "resubmit"})
    BY <1>1, <2>1, ResubmitFails
  <2>3. ShapeInv'
    <3> DEFINE new == {"failedResubmit", "resubmit"}
    <3>1. new \cap {"complete", "signal", "cancelIrp", "cancelRelease", "timerCanceled"} = {} /\ "timerCallback" \notin new
          /\ new \cap Submitting = {}
      BY DEF Submitting
    <3> QED BY <1>1, <1>2, <2>2, <3>1, BeginsShape
  <2> QED BY <1>1, <1>2, <2>1, <2>2, <2>3 DEF RestOK
<1>3. CASE t # Control
  <2>1. thread' = [thread EXCEPT ![t].stack = <<>>] /\ owner' = [owner EXCEPT ![Cur(t)] = "driver"]
    BY <1>3 DEF NotSubmitted
  <2>2. /\ ThreadOK' /\ \A u \in Threads : u # t => thread'[u] = thread[u]
        /\ thread'[t].cur = Cur(t) /\ Top(thread'[t]) = "idle" /\ \A p : ~Has(thread'[t], p)
    BY <1>1, <2>1, Emptied
  <2>3. ShapeInv'
    BY <1>1, <2>2, EmptiedShape
  <2> QED BY <1>1, <1>3, <2>1, <2>2, <2>3 DEF RestOK
<1> QED BY <1>2, <1>3

LEMMA SubmitTypes ==
  ASSUME TypeInv, NEW t \in Threads,
         SubmitRefused(t) \/ SubmitAccept(t) \/ SubmitCheckCanceled(t) \/ SubmitSend(t)
         \/ PendRequestLocked(t) \/ Send(t)
  PROVE  TypeInv'
<1> DEFINE r == Cur(t)
           x == req[r]
<1>0. /\ RestOK /\ req \in [Requests -> Request] /\ (r \in Requests => x \in Request)
      /\ Submitting \subseteq Places /\ Submitting \subseteq RequestPlaces
      /\ "send" \in Places \cap RequestPlaces
  BY TypeParts DEF RestOK, Submitting, Places, RequestPlaces
<1>1. CASE SubmitRefused(t)
  <2>1. At(t, "submit") /\ "submit" \in Submitting /\ r \in Requests
    BY <1>0, <1>1, WorksOn DEF SubmitRefused, Submitting
  <2>2. ThreadOK' /\ ShapeInv' /\ owner' \in [Requests -> {"driver", "target"}]
    BY <1>1, <2>1, NotSubmittedMoves DEF SubmitRefused
  <2>3. [x EXCEPT !.status = "Refused"] \in Request
    BY <1>0, <2>1, RequestSet DEF Statuses
  <2>4. req' \in [Requests -> Request]
    BY <1>0, <1>1, <2>1, <2>3 DEF SubmitRefused
  <2> QED BY <1>0, <1>1, <2>2, <2>4, TypeAgain DEF SubmitRefused, RestOK
<1>2. CASE SubmitAccept(t)
  <2>1. At(t, "submit") /\ r \in Requests
    BY <1>0, <1>2, WorksOn DEF SubmitAccept, Submitting
  <2>2. ThreadOK' /\ ShapeInv'
    <3>1. /\ "submit" \in Places /\ "submitCounted" \in Places
          /\ RankOf("submitCounted") <= RankOf("submit") /\ Proper("submit", {"submitCounted"})
      BY DEF Places, RankOf, Proper, RequestPlaces, Submitting
    <3> QED BY <1>2, <2>1, <3>1, OneMoves DEF SubmitAccept
  <2>3. req' \in [Requests -> Request]
    <3> DEFINE F == MarkIgnores(t, x.flags)
               y == [x EXCEPT !.count = 1]
               z == [y EXCEPT !.list = "none"]
    <3>1. F \in SUBSET Flags
      BY <1>0, <2>1 DEF Request, Flags, MarkIgnores
    <3>2. y \in Request
      BY <1>0, <2>1 DEF Request
    <3>3. z \in Request
      BY <3>2, RequestSet DEF Lists
    <3>4. [z EXCEPT !.flags = F] \in Request
      BY <3>1, <3>3, RequestSet
    <3>5. req' = [req EXCEPT ![r] = [z EXCEPT !.flags = F]]
      BY <1>2 DEF SubmitAccept
    <3> QED BY <1>0, <2>1, <3>4, <3>5
  <2>4. target' \in Target
    <3>1. target \in Target /\ target.ioCount \in Int
      BY <1>0 DEF RestOK, Target
    <3>2. [target EXCEPT !.ioCount = @ + 1] \in Target
      BY <3>1 DEF Target
    <3> QED BY <1>2, <3>2 DEF SubmitAccept
  <2> QED BY <1>0, <1>2, <2>2, <2>3, <2>4, TypeAgain DEF SubmitAccept, RestOK
<1>3. ASSUME NEW h \in {"submitCounted", "submitChecked"}, At(t, h), SubmitCancelled(t),
             UNCHANGED <<todo, plan>>
      PROVE  TypeInv'
  <2>1. r \in Requests /\ ~Idle(t) /\ h \in Submitting
    BY <1>0, <1>3, WorksOn DEF Submitting
  <2>2. req' \in [Requests -> Request]
    <3> DEFINE y == [x EXCEPT !.count = @ - 1]
    <3>1. y \in Request
      BY <1>0, <2>1 DEF Request
    <3>2. [y EXCEPT !.status = "Cancelled"] \in Request
      BY <3>1, RequestSet DEF Statuses
    <3>3. req' = [req EXCEPT ![r] = [y EXCEPT !.status = "Cancelled"]]
      BY <1>3 DEF SubmitCancelled
    <3> QED BY <1>0, <2>1, <3>2, <3>3
  <2>3. CASE target' = [target EXCEPT !.ioCount = @ - 1] /\ NotSubmitted(t)
    <3>1. target \in Target /\ target.ioCount \in Int
      BY <1>0 DEF RestOK, Target
    <3>2. [target EXCEPT !.ioCount = @ - 1] \in Target
      BY <3>1 DEF Target
    <3>3. ThreadOK' /\ ShapeInv' /\ owner' \in [Requests -> {"driver", "target"}]
      BY <1>3, <2>1, <2>3, NotSubmittedMoves
    <3> QED BY <1>0, <1>3, <2>2, <2>3, <3>2, <3>3, TypeAgain DEF SubmitCancelled, RestOK
  <2>4. CASE thread' = Jump(t, <<>>) /\ UNCHANGED <<target, owner>>
    <3>1. ThreadOK' /\ ShapeInv'
      BY <2>1, <2>4, FewerMoves
    <3> QED BY <1>0, <1>3, <2>2, <2>4, <3>1, TypeAgain DEF SubmitCancelled, RestOK
  <2> QED BY <1>3, <2>3, <2>4 DEF SubmitCancelled
<1>4. CASE SubmitCheckCanceled(t)
  <2>1. CASE SubmitCancelled(t)
    BY <1>3, <1>4, <2>1 DEF SubmitCheckCanceled
  <2>2. CASE thread' = Jump(t, <<"submitChecked">>) /\ UNCHANGED <<target, lock, req, owner>>
    <3>1. /\ "submitCounted" \in Places /\ "submitChecked" \in Places
          /\ RankOf("submitChecked") <= RankOf("submitCounted")
          /\ Proper("submitCounted", {"submitChecked"})
      BY DEF Places, RankOf, Proper, RequestPlaces, Submitting
    <3>2. ThreadOK' /\ ShapeInv'
      BY <1>4, <2>2, <3>1, OneMoves DEF SubmitCheckCanceled
    <3> QED BY <1>0, <1>4, <2>2, <3>2, TypeAgain DEF SubmitCheckCanceled, RestOK
  <2> QED BY <1>4, <2>1, <2>2 DEF SubmitCheckCanceled
<1>5. StartTimer(t, x.flags) \in SUBSET Flags \/ r \notin Requests
  BY <1>0 DEF StartTimer, Request, Flags
<1>6. CASE SubmitSend(t)
  <2>1. At(t, "submitChecked") /\ r \in Requests
    BY <1>0, <1>6, WorksOn DEF SubmitSend, Submitting
  <2>2. ThreadOK' /\ ShapeInv'
    <3>1. /\ "submitChecked" \in Places /\ "send" \in Places
          /\ RankOf("send") <= RankOf("submitChecked") /\ Proper("submitChecked", {"send"})
      BY DEF Places, RankOf, Proper, RequestPlaces, Submitting
    <3> QED BY <1>6, <2>1, <3>1, OneMoves DEF SubmitSend
  <2>3. req' \in [Requests -> Request]
    <3> DEFINE l == IF Ignores(t) THEN "ignored" ELSE "sent"
               y == [x EXCEPT !.list = l]
    <3>1. y \in Request
      BY <1>0, <2>1, RequestSet DEF Lists
    <3>2. [y EXCEPT !.flags = StartTimer(t, x.flags)] \in Request
      BY <1>5, <2>1, <3>1, RequestSet
    <3>3. req' = [req EXCEPT ![r] = [y EXCEPT !.flags = StartTimer(t, x.flags)]]
      BY <1>6 DEF SubmitSend
    <3> QED BY <1>0, <2>1, <3>2, <3>3
  <2> QED BY <1>0, <1>6, <2>2, <2>3, TypeAgain DEF SubmitSend, RestOK
<1>7. CASE PendRequestLocked(t)
  <2>1. At(t, "submitChecked") /\ r \in Requests /\ ~Idle(t)
    BY <1>0, <1>7, WorksOn DEF PendRequestLocked, Submitting
  <2>2. CASE SubmitCancelled(t)
    BY <1>3, <1>7, <2>1, <2>2 DEF PendRequestLocked
  <2>3. CASE /\ req' = [req EXCEPT ![r].list = "pended", ![r].cancelRoutine = TRUE, ![r].flags = StartTimer(t, @)]
             /\ lock' = NoThread /\ thread' = Jump(t, <<>>) /\ UNCHANGED <<target, owner>>
    <3> DEFINE y == [x EXCEPT !.list = "pended"]
               z == [y EXCEPT !.cancelRoutine = TRUE]
    <3>1. y \in Request
      BY <1>0, <2>1, RequestSet DEF Lists
    <3>2. z \in Request
      BY <3>1, RequestSet
    <3>3. [z EXCEPT !.flags = StartTimer(t, x.flags)] \in Request
      BY <1>5, <2>1, <3>2, RequestSet
    <3>4. req' = [req EXCEPT ![r] = [z EXCEPT !.flags = StartTimer(t, x.flags)]]
      BY <2>3
    <3>5. req' \in [Requests -> Request]
      BY <1>0, <2>1, <3>3, <3>4
    <3>6. ThreadOK' /\ ShapeInv'
      BY <2>1, <2>3, FewerMoves
    <3> QED BY <1>0, <1>7, <2>3, <3>5, <3>6, TypeAgain DEF PendRequestLocked, RestOK
  <2> QED BY <1>7, <2>2, <2>3 DEF PendRequestLocked
<1>8. CASE Send(t)
  <2>1. At(t, "send") /\ r \in Requests /\ ~Idle(t)
    BY <1>0, <1>8, WorksOn DEF Send
  <2>2. [x EXCEPT !.irp = "lower"] \in Request
    BY <1>0, <2>1, RequestSet
  <2>3. req' \in [Requests -> Request]
    BY <1>0, <1>8, <2>1, <2>2 DEF Send
  <2>4. ThreadOK' /\ ShapeInv'
    BY <1>8, <2>1, FewerMoves DEF Send
  <2> QED BY <1>0, <1>8, <2>3, <2>4, TypeAgain DEF Send, RestOK
<1> QED BY <1>1, <1>2, <1>4, <1>6, <1>7, <1>8

LEMMA Kinds ==
  /\ Control \in Threads /\ Canceller \in Threads /\ Control # Canceller
  /\ \A r \in Requests :
       /\ Sender(r) \in Threads /\ Lower(r) \in Threads /\ Timer(r) \in Threads
       /\ Sender(r) \notin {Control, Canceller} /\ Lower(r) \notin {Control, Canceller}
       /\ Timer(r) \notin {Control, Canceller}
       /\ Sender(r)[2] = r /\ Lower(r)[2] = r /\ Timer(r)[2] = r
       /\ Sender(r) # Lower(r) /\ Sender(r) # Timer(r) /\ Lower(r) # Timer(r)
  /\ Control[2] = NoRequest /\ Canceller[2] = NoRequest /\ NoThread \notin Threads
BY TargetAssumption DEF Threads, Control, Canceller, Sender, Lower, Timer, NoThread

(* An idle thread begins with one place, or with two.                       *)
LEMMA BeginMoves ==
  ASSUME TypeInv, NEW t \in Threads, NEW r \in Requests, t = Canceller \/ t[2] = r,
         NEW p \in {"cancel", "timerCallback", "completion", "submit"},
         p = "timerCallback" => t = Timer(r), p = "submit" => t = Sender(r),
         \/ thread' = Begin(t, r, <<p>>)
         \/ thread' = Begin(t, r, <<"submit", "wait">>) /\ p = "submit"
  PROVE  /\ ThreadOK' /\ ShapeInv'
         /\ Begins(t, r, p, {p}) \/ (Begins(t, r, p, {p, "wait"}) /\ p = "submit")
<1>1. /\ ThreadOK /\ ShapeInv /\ p \in Places /\ "wait" \in Places \cap Beneath
      /\ RankOf("submit") < RankOf("wait") /\ "submit" \in Places
  BY TypeParts DEF Places, Beneath, RankOf
<1>2. t \notin {Control, Canceller} => r = t[2]
  OBVIOUS
<1>3. CASE thread' = Begin(t, r, <<p>>)
  <2>1. ThreadOK' /\ Begins(t, r, p, {p})
    BY <1>1, <1>3, BeginOne
  <2>2. /\ {p} \cap {"complete", "signal", "cancelIrp", "cancelRelease", "timerCanceled"} = {}
        /\ "timerCallback" \in {p} => t = Timer(r)
        /\ {p} \cap Submitting # {} => t = Sender(r)
    BY DEF Submitting
  <2>3. ShapeInv'
    BY <1>1, <1>2, <2>1, <2>2, BeginsShape
  <2> QED BY <2>1, <2>3
<1>4. CASE thread' = Begin(t, r, <<"submit", "wait">>) /\ p = "submit"
  <2>1. ThreadOK' /\ Begins(t, r, "submit", {"submit", "wait"})
    BY <1>1, <1>4, BeginTwo
  <2>2. /\ {"submit", "wait"} \cap {"complete", "signal", "cancelIrp", "cancelRelease", "timerCanceled"} = {}
        /\ "timerCallback" \notin {"submit", "wait"}
    OBVIOUS
  <2>3. ShapeInv'
    BY <1>1, <1>2, <1>4, <2>1, <2>2, BeginsShape
  <2> QED BY <1>4, <2>1, <2>3
<1> QED BY <1>3, <1>4

LEMMA SendTypes ==
  ASSUME TypeInv, NEW r \in Requests, RequestSend(r)
  PROVE  /\ TypeInv'
         /\ \/ Begins(Sender(r), r, "submit", {"submit"})
            \/ Begins(Sender(r), r, "submit", {"submit", "wait"})
<1> DEFINE options == Head(plan.sends[r])
<1>1. RestOK /\ options \in SUBSET Options /\ Tail(plan.sends[r]) \in Seq(SUBSET Options)
  <2>1. plan.sends[r] \in Seq(SUBSET Options) /\ plan.sends[r] # <<>>
    BY TypeParts DEF RestOK, RequestSend
  <2> QED BY <2>1, TypeParts
<1>2. ThreadOK' /\ ShapeInv'
      /\ \/ Begins(Sender(r), r, "submit", {"submit"})
         \/ Begins(Sender(r), r, "submit", {"submit", "wait"})
  <2>1. \/ thread' = Begin(Sender(r), r, <<"submit">>)
        \/ thread' = Begin(Sender(r), r, <<"submit", "wait">>)
    BY DEF RequestSend
  <2>2. Sender(r) \in Threads /\ Sender(r)[2] = r
    BY Kinds
  <2> QED BY <2>1, <2>2, BeginMoves
<1>3. req' \in [Requests -> Request]
  <2>1. Reused(r, options) \in Request
    <3>1. /\ req[r] \in Request /\ FALSE \in BOOLEAN /\ "Success" \in Statuses
      BY <1>1 DEF RestOK, Statuses
    <3>2. [req[r] EXCEPT !.canceled = FALSE, !.irpCanceled = FALSE] \in Request
      BY <3>1 DEF Request
    <3> QED BY <1>1, <3>1, <3>2 DEF Reused, Request
  <2>2. req' = [req EXCEPT ![r] = Reused(r, options)]
    BY DEF RequestSend
  <2> QED BY <1>1, <2>1, <2>2 DEF RestOK
<1>4. plan' \in [sends : [Requests -> Seq(SUBSET Options)], cancels : Nat, calls : Seq(Operations)]
  <2>1. plan' = [plan EXCEPT !.sends[r] = Tail(@)]
    BY DEF RequestSend
  <2>2. [plan.sends EXCEPT ![r] = Tail(@)] \in [Requests -> Seq(SUBSET Options)]
    BY <1>1 DEF RestOK
  <2> QED BY <1>1, <2>1, <2>2 DEF RestOK
<1>5. owner' \in [Requests -> {"driver", "target"}] /\ UNCHANGED <<target, lock, todo>>
  BY <1>1 DEF RequestSend, RestOK
<1> QED BY <1>1, <1>2, <1>3, <1>4, <1>5, TypeAgain DEF RestOK

LEMMA OutsideTypes ==
  ASSUME TypeInv, NEW r \in Requests,
         CancelSentRequest(r) \/ TimerFires(r) \/ LowerCompletes(r)
  PROVE  TypeInv'
<1>0. RestOK /\ req[r] \in Request
  BY TypeParts DEF RestOK
<1>1. CASE CancelSentRequest(r)
  <2>1. ThreadOK' /\ ShapeInv'
    BY <1>1, BeginMoves, Kinds DEF CancelSentRequest
  <2>2. plan' \in [sends : [Requests -> Seq(SUBSET Options)], cancels : Nat, calls : Seq(Operations)]
    <3>1. plan' = [plan EXCEPT !.cancels = plan.cancels - 1] /\ plan.cancels > 0
      BY <1>1 DEF CancelSentRequest
    <3>2. plan.cancels \in Nat
      BY <1>0 DEF RestOK
    <3>3. plan.cancels - 1 \in Nat
      BY <3>1, <3>2
    <3> QED BY <1>0, <3>1, <3>3 DEF RestOK
  <2> QED BY <1>0, <1>1, <2>1, <2>2, TypeAgain DEF CancelSentRequest, RestOK
<1>2. CASE TimerFires(r)
  <2>1. ThreadOK' /\ ShapeInv'
    BY <1>2, BeginMoves, Kinds DEF TimerFires
  <2> QED BY <1>0, <1>2, <2>1, TypeAgain DEF TimerFires, RestOK
<1>3. CASE LowerCompletes(r)
  <2>1. ThreadOK' /\ ShapeInv'
    BY <1>3, BeginMoves, Kinds DEF LowerCompletes
  <2>2. PICK s \in Statuses : req' = [req EXCEPT ![r].irp = "here", ![r].status = s]
    BY <1>3 DEF LowerCompletes, Statuses
  <2>3. req' \in [Requests -> Request]
    <3> DEFINE y == [req[r] EXCEPT !.irp = "here"]
    <3>1. y \in Request
      BY <1>0, RequestSet
    <3>2. [y EXCEPT !.status = s] \in Request
      BY <3>1, RequestSet
    <3>3. req' = [req EXCEPT ![r] = [y EXCEPT !.status = s]]
      BY <2>2
    <3> QED BY <1>0, <3>2, <3>3 DEF RestOK
  <2> QED BY <1>0, <1>3, <2>1, <2>3, TypeAgain DEF LowerCompletes, RestOK
<1> QED BY <1>1, <1>2, <1>3

LEMMA SyncTypes ==
  ASSUME TypeInv, NEW t \in Threads, SyncCompleted(t) \/ SyncCancels(t) \/ SyncTimesOut(t)
  PROVE  TypeInv'
<1> DEFINE r == Cur(t)
<1>0. /\ RestOK /\ (r \in Requests => req[r] \in Request)
      /\ {"wait", "waitAgain", "timedOut"} \subseteq Places \cap RequestPlaces
  BY TypeParts DEF RestOK, Places, RequestPlaces
<1>1. CASE SyncCompleted(t)
  <2>1. ~Idle(t)
    BY <1>1 DEF SyncCompleted, At
  <2>2. ThreadOK' /\ ShapeInv'
    BY <1>1, <2>1, FewerMoves DEF SyncCompleted
  <2> QED BY <1>0, <1>1, <2>2, TypeAgain DEF SyncCompleted, RestOK
<1>2. CASE SyncTimesOut(t)
  <2>1. /\ "wait" \in Places /\ "timedOut" \in Places
        /\ RankOf("timedOut") <= RankOf("wait") /\ Proper("wait", {"timedOut"})
    BY DEF Places, RankOf, Proper, RequestPlaces, Submitting
  <2>2. ThreadOK' /\ ShapeInv'
    BY <1>2, <2>1, OneMoves DEF SyncTimesOut
  <2> QED BY <1>0, <1>2, <2>2, TypeAgain DEF SyncTimesOut, RestOK
<1>3. CASE SyncCancels(t)
  <2>1. /\ "timedOut" \in Places /\ "cancel" \in Places
        /\ "waitAgain" \in Places \cap Beneath
        /\ RankOf("cancel") < RankOf("waitAgain")
        /\ RankOf("waitAgain") <= RankOf("timedOut")
        /\ Proper("timedOut", {"cancel", "waitAgain"})
    BY DEF Places, Beneath, RankOf, Proper, RequestPlaces, Submitting
  <2>2. ThreadOK' /\ ShapeInv' /\ r \in Requests
    BY <1>0, <1>3, <2>1, TwoMoves, WorksOn DEF SyncCancels
  <2>3. [req[r] EXCEPT !.flags = @ \cup {"CancelledFromTimer"}] \in Request
    BY <1>0, <2>2, RequestSet DEF Request, Flags
  <2>4. req' \in [Requests -> Request]
    BY <1>0, <1>3, <2>2, <2>3 DEF SyncCancels, RestOK
  <2> QED BY <1>0, <1>3, <2>2, <2>4, TypeAgain DEF SyncCancels, RestOK
<1> QED BY <1>1, <1>2, <1>3

-----------------------------------------------------------------------------
(* Operations on the target.                                                *)

OperationPlaces == {"resubmit", "failPended", "cancelSent", "waitSent", "dispose", "waitDispose"}

(* What an operation does to the control thread, and to its own variables.  *)
LEMMA OperateTypes ==
  ASSUME TypeInv, NEW pcs \in Seq(OperationPlaces), pcs # <<>>, StackOK(pcs),
         thread' = Begin(Control, NoRequest, pcs),
         plan' = [plan EXCEPT !.calls = Tail(plan.calls)], plan.calls # <<>>,
         NEW top, top = pcs[1], NEW new, \A p : p \in new <=> \E i \in 1..Len(pcs) : pcs[i] = p
  PROVE  /\ ThreadOK' /\ ShapeInv' /\ Begins(Control, NoRequest, top, new)
         /\ plan' \in [sends : [Requests -> Seq(SUBSET Options)], cancels : Nat, calls : Seq(Operations)]
<1>1. ThreadOK /\ ShapeInv /\ RestOK /\ Control \in Threads
  BY TypeParts, Kinds
<1>2. pcs \in Seq(Places) /\ new \subseteq OperationPlaces
  <2>1. OperationPlaces \subseteq Places
    BY DEF OperationPlaces, Places
  <2> QED BY <2>1
<1>3. ThreadOK' /\ Begins(Control, NoRequest, top, new)
  <2>1. PICK r \in Requests \cup {NoRequest} : r = NoRequest
    OBVIOUS
  <2>2. pcs \in Seq(Places) /\ thread' = Begin(Control, r, pcs)
    BY <1>2, <2>1
  <2>3. ThreadOK' /\ Begins(Control, r, top, new)
    <3>1. /\ ThreadOK /\ Control \in Threads /\ r \in Requests \cup {NoRequest}
          /\ pcs \in Seq(Places) /\ pcs # <<>> /\ StackOK(pcs) /\ thread' = Begin(Control, r, pcs)
          /\ top = pcs[1] /\ \A p : p \in new <=> \E i \in 1..Len(pcs) : pcs[i] = p
      BY <1>1, <2>1, <2>2
    <3> QED BY <3>1, Beginning, ZenonT(30)
  <2> QED BY <2>1, <2>3
<1>4. ShapeInv'
  <2>1. /\ new \cap RequestPlaces = {} /\ new \cap Submitting = {} /\ "timerCallback" \notin new
        /\ new \cap {"complete", "signal", "cancelIrp", "cancelRelease", "timerCanceled"} = {}
    BY <1>2 DEF OperationPlaces, RequestPlaces, Submitting
  <2> QED BY <1>1, <1>3, <2>1, BeginsShape
<1>5. plan' \in [sends : [Requests -> Seq(SUBSET Options)], cancels : Nat, calls : Seq(Operations)]
  <2>1. plan.calls \in Seq(Operations)
    BY <1>1 DEF RestOK
  <2>2. Tail(plan.calls) \in Seq(Operations)
    BY <2>1
  <2> QED BY <1>1, <2>2 DEF RestOK
<1> QED BY <1>3, <1>4, <1>5

(* The drained requests.                                                    *)
LEMMA DrainTypes ==
  ASSUME TypeInv, DrainToFail \/ DrainToResend
  PROVE  req' \in [Requests -> Request]
<1>1. \A r \in Requests : req[r] \in Request
  BY TypeParts DEF RestOK
<1>2. \A x \in Request : [x EXCEPT !.list = "none", !.cancelRoutine = FALSE] \in Request
  <2> TAKE x \in Request
  <2> DEFINE y == [x EXCEPT !.list = "none"]
  <2>1. y \in Request
    BY RequestSet DEF Lists
  <2>2. [y EXCEPT !.cancelRoutine = FALSE] \in Request
    BY <2>1, RequestSet
  <2> QED BY <2>2
<1>3. CASE DrainToFail
  BY <1>1, <1>2, <1>3 DEF DrainToFail
<1>4. CASE DrainToResend
  <2>1. ASSUME NEW r \in Requests
        PROVE  req'[r] \in Request
    <3> DEFINE y == [req[r] EXCEPT !.list = "none", !.cancelRoutine = FALSE]
    <3>1. y \in Request /\ y.flags = req[r].flags /\ y.count = req[r].count
      BY <1>1, <1>2 DEF Request
    <3>2. CASE r \in Resent
      <4> DEFINE z == [y EXCEPT !.count = 0]
      <4>1. z \in Request /\ req[r].flags \in SUBSET Flags
        <5>1. 0 \in Int /\ req[r].flags \in SUBSET Flags
          BY <1>1 DEF Request
        <5> QED BY <3>1, <5>1, RequestSet
      <4>2. [z EXCEPT !.flags = req[r].flags \ {"TimerSet"}] \in Request
        BY <4>1, RequestSet
      <4>3. req'[r] = [z EXCEPT !.flags = req[r].flags \ {"TimerSet"}]
        BY <1>4, <3>2 DEF DrainToResend
      <4> QED BY <4>2, <4>3
    <3>3. CASE r \in Drained \ Resent
      <4> DEFINE n == IF CancelTimer(r) THEN req[r].count - 1 ELSE req[r].count
                 f == {"Completed"} \cup (IF CancelTimer(r) THEN req[r].flags \ {"TimerSet"} ELSE req[r].flags)
                 z == [y EXCEPT !.status = "Cancelled"]
                 u == [z EXCEPT !.count = n]
      <4>1. n \in Int /\ f \in SUBSET Flags
        BY <1>1 DEF Request, Flags
      <4>2. z \in Request
        BY <3>1, RequestSet DEF Statuses
      <4>3. u \in Request
        BY <4>1, <4>2, RequestSet
      <4>4. [u EXCEPT !.flags = f] \in Request
        BY <4>1, <4>3, RequestSet
      <4>5. req'[r] = [req[r] EXCEPT !.list = "none", !.cancelRoutine = FALSE, !.status = "Cancelled",
                                     !.count = n, !.flags = f]
        BY <1>4, <3>3 DEF DrainToResend
      <4> QED BY <4>4, <4>5
    <3>4. CASE r \notin Drained
      <4>1. req'[r] = req[r]
        BY <1>4, <3>4 DEF DrainToResend, Resent
      <4> QED BY <1>1, <4>1
    <3> QED BY <3>2, <3>3, <3>4
  <2>2. req' = [r \in Requests |-> req'[r]]
    BY <1>4 DEF DrainToResend
  <2> QED BY <2>1, <2>2
<1> QED BY <1>3, <1>4

LEMMA StartTypes ==
  ASSUME TypeInv, Start
  PROVE  TypeInv' /\ Begins(Control, NoRequest, "resubmit", {"resubmit"})
<1>1. RestOK /\ Resent \in SUBSET Requests
  BY TypeParts DEF Resent, Drained, On
<1>2. PICK pcs : pcs = <<"resubmit">>
  OBVIOUS
<1>3. /\ pcs \in Seq(OperationPlaces) /\ pcs # <<>> /\ StackOK(pcs) /\ "resubmit" = pcs[1]
      /\ \A p : p \in {"resubmit"} <=> \E i \in 1..Len(pcs) : pcs[i] = p
  BY <1>2 DEF OperationPlaces, StackOK
<1>4. /\ thread' = Begin(Control, NoRequest, pcs) /\ UNCHANGED <<lock, owner>>
      /\ plan' = [plan EXCEPT !.calls = Tail(plan.calls)] /\ plan.calls # <<>>
      /\ todo' \in [op : Operations, pended : SUBSET Requests, sent : SUBSET Requests, wait : BOOLEAN]
  BY <1>1, <1>2 DEF Start, Operate, Operations
<1>5. /\ ThreadOK' /\ ShapeInv' /\ Begins(Control, NoRequest, "resubmit", {"resubmit"})
      /\ todo' \in [op : Operations, pended : SUBSET Requests, sent : SUBSET Requests, wait : BOOLEAN]
      /\ plan' \in [sends : [Requests -> Seq(SUBSET Options)], cancels : Nat, calls : Seq(Operations)]
      /\ UNCHANGED <<lock, owner>>
  BY <1>3, <1>4, OperateTypes
<1>6. req' \in [Requests -> Request]
  BY DrainTypes DEF Start
<1>7. target' \in Target
  BY <1>1 DEF Start, RestOK, Target, States
<1> QED BY <1>1, <1>5, <1>6, <1>7, TypeAgain DEF RestOK

LEMMA StopTypes ==
  ASSUME TypeInv, NEW op \in {"StopCancel", "StopWait", "StopLeave"}, Stop(op)
  PROVE  TypeInv' /\ Begins(Control, NoRequest, "cancelSent", {"cancelSent", "waitSent"})
<1> DEFINE wait == op # "StopLeave" /\ (On("sent") # {} \/ target.waiting)
           sent == IF op = "StopCancel" THEN On("sent") ELSE {}
<1>1. RestOK /\ sent \in SUBSET Requests /\ {} \in SUBSET Requests /\ wait \in BOOLEAN /\ op \in Operations
  BY TypeParts DEF On, Operations
<1>2. PICK pcs : pcs = <<"cancelSent", "waitSent">>
  OBVIOUS
<1>3. /\ pcs \in Seq(OperationPlaces) /\ pcs # <<>> /\ StackOK(pcs) /\ "cancelSent" = pcs[1]
      /\ \A p : p \in {"cancelSent", "waitSent"} <=> \E i \in 1..Len(pcs) : pcs[i] = p
  BY <1>2 DEF OperationPlaces, StackOK, RankOf, Beneath
<1>4. /\ thread' = Begin(Control, NoRequest, pcs) /\ UNCHANGED <<lock, owner>>
      /\ plan' = [plan EXCEPT !.calls = Tail(plan.calls)] /\ plan.calls # <<>>
      /\ todo' \in [op : Operations, pended : SUBSET Requests, sent : SUBSET Requests, wait : BOOLEAN]
  BY <1>1, <1>2 DEF Stop, Operate, Operations
<1>5. /\ ThreadOK' /\ ShapeInv' /\ Begins(Control, NoRequest, "cancelSent", {"cancelSent", "waitSent"})
      /\ todo' \in [op : Operations, pended : SUBSET Requests, sent : SUBSET Requests, wait : BOOLEAN]
      /\ plan' \in [sends : [Requests -> Seq(SUBSET Options)], cancels : Nat, calls : Seq(Operations)]
      /\ UNCHANGED <<lock, owner>>
  BY <1>3, <1>4, OperateTypes
<1>6. target' \in Target
  BY <1>1 DEF Stop, RestOK, Target, States
<1> QED BY <1>1, <1>5, <1>6, TypeAgain DEF RestOK, Stop

LEMMA PurgeTypes ==
  ASSUME TypeInv, NEW op \in {"Purge", "PurgeNoWait"}, Purge(op)
  PROVE  TypeInv' /\ Begins(Control, NoRequest, "failPended", {"failPended", "cancelSent", "waitSent"})
<1> DEFINE wait == op = "Purge" /\ (On("sent") # {} \/ target.waiting)
<1>1. RestOK /\ On("sent") \in SUBSET Requests /\ Drained \in SUBSET Requests /\ wait \in BOOLEAN
      /\ op \in Operations
  BY TypeParts DEF On, Operations, Drained
<1>2. PICK pcs : pcs = <<"failPended", "cancelSent", "waitSent">>
  OBVIOUS
<1>3. /\ pcs \in Seq(OperationPlaces) /\ pcs # <<>> /\ StackOK(pcs) /\ "failPended" = pcs[1]
      /\ \A p : p \in {"failPended", "cancelSent", "waitSent"} <=> \E i \in 1..Len(pcs) : pcs[i] = p
  BY <1>2 DEF OperationPlaces, StackOK, RankOf, Beneath
<1>4. /\ thread' = Begin(Control, NoRequest, pcs) /\ UNCHANGED <<lock, owner>>
      /\ plan' = [plan EXCEPT !.calls = Tail(plan.calls)] /\ plan.calls # <<>>
      /\ todo' \in [op : Operations, pended : SUBSET Requests, sent : SUBSET Requests, wait : BOOLEAN]
  BY <1>1, <1>2 DEF Purge, Operate, Operations
<1>5. /\ ThreadOK' /\ ShapeInv'
      /\ Begins(Control, NoRequest, "failPended", {"failPended", "cancelSent", "waitSent"})
      /\ todo' \in [op : Operations, pended : SUBSET Requests, sent : SUBSET Requests, wait : BOOLEAN]
      /\ plan' \in [sends : [Requests -> Seq(SUBSET Options)], cancels : Nat, calls : Seq(Operations)]
      /\ UNCHANGED <<lock, owner>>
  BY <1>3, <1>4, OperateTypes
<1>6. target' \in Target
  BY <1>1 DEF Purge, RestOK, Target, States
<1>7. req' \in [Requests -> Request]
  BY DrainTypes DEF Purge
<1> QED BY <1>1, <1>5, <1>6, <1>7, TypeAgain DEF RestOK

LEMMA CancelSentIoTypes ==
  ASSUME TypeInv, CancelSentIo
  PROVE  TypeInv' /\ Begins(Control, NoRequest, "cancelSent", {"cancelSent"})
<1>1. RestOK /\ On("sent") \in SUBSET Requests /\ {} \in SUBSET Requests /\ "CancelSentIo" \in Operations
  BY TypeParts DEF On, Operations
<1>2. PICK pcs : pcs = <<"cancelSent">>
  OBVIOUS
<1>3. /\ pcs \in Seq(OperationPlaces) /\ pcs # <<>> /\ StackOK(pcs) /\ "cancelSent" = pcs[1]
      /\ \A p : p \in {"cancelSent"} <=> \E i \in 1..Len(pcs) : pcs[i] = p
  BY <1>2 DEF OperationPlaces, StackOK
<1>4. /\ thread' = Begin(Control, NoRequest, pcs) /\ UNCHANGED <<lock, owner>>
      /\ plan' = [plan EXCEPT !.calls = Tail(plan.calls)] /\ plan.calls # <<>>
      /\ todo' \in [op : Operations, pended : SUBSET Requests, sent : SUBSET Requests, wait : BOOLEAN]
  BY <1>1, <1>2 DEF CancelSentIo, Operate, Operations
<1>5. /\ ThreadOK' /\ ShapeInv' /\ Begins(Control, NoRequest, "cancelSent", {"cancelSent"})
      /\ todo' \in [op : Operations, pended : SUBSET Requests, sent : SUBSET Requests, wait : BOOLEAN]
      /\ plan' \in [sends : [Requests -> Seq(SUBSET Options)], cancels : Nat, calls : Seq(Operations)]
      /\ UNCHANGED <<lock, owner>>
  BY <1>3, <1>4, OperateTypes
<1> QED BY <1>1, <1>5, TypeAgain DEF RestOK, CancelSentIo

LEMMA RemovalTypes ==
  ASSUME TypeInv, Remove
  PROVE  /\ TypeInv'
         /\ Begins(Control, NoRequest, "failPended",
                   {"failPended", "cancelSent", "waitSent", "dispose", "waitDispose"})
<1> DEFINE sent == On("sent") \cup On("ignored")
           wait == sent # {}
<1>1. RestOK /\ sent \in SUBSET Requests /\ Drained \in SUBSET Requests /\ wait \in BOOLEAN
      /\ "Remove" \in Operations
  BY TypeParts DEF On, Operations, Drained
<1>2. PICK pcs : pcs = <<"failPended", "cancelSent", "waitSent", "dispose", "waitDispose">>
  OBVIOUS
<1>3. /\ pcs \in Seq(OperationPlaces) /\ pcs # <<>> /\ StackOK(pcs) /\ "failPended" = pcs[1]
      /\ \A p : p \in {"failPended", "cancelSent", "waitSent", "dispose", "waitDispose"}
                  <=> \E i \in 1..Len(pcs) : pcs[i] = p
  <2>1. /\ Len(pcs) = 5 /\ pcs[1] = "failPended" /\ pcs[2] = "cancelSent" /\ pcs[3] = "waitSent"
        /\ pcs[4] = "dispose" /\ pcs[5] = "waitDispose" /\ pcs \in Seq(OperationPlaces)
    BY <1>2 DEF OperationPlaces
  <2>2. StackOK(pcs)
    BY <2>1 DEF StackOK, RankOf, Beneath
  <2>3. \A p : p \in {"failPended", "cancelSent", "waitSent", "dispose", "waitDispose"}
                  <=> \E i \in 1..Len(pcs) : pcs[i] = p
    BY <2>1
  <2>4. pcs # <<>>
    BY <2>1
  <2> QED BY <2>1, <2>2, <2>3, <2>4
<1>4. /\ thread' = Begin(Control, NoRequest, pcs) /\ UNCHANGED <<lock, owner>>
      /\ plan' = [plan EXCEPT !.calls = Tail(plan.calls)] /\ plan.calls # <<>>
      /\ todo' \in [op : Operations, pended : SUBSET Requests, sent : SUBSET Requests, wait : BOOLEAN]
  BY <1>1, <1>2 DEF Remove, Operate, Operations
<1>5. /\ ThreadOK' /\ ShapeInv'
      /\ Begins(Control, NoRequest, "failPended",
                {"failPended", "cancelSent", "waitSent", "dispose", "waitDispose"})
      /\ todo' \in [op : Operations, pended : SUBSET Requests, sent : SUBSET Requests, wait : BOOLEAN]
      /\ plan' \in [sends : [Requests -> Seq(SUBSET Options)], cancels : Nat, calls : Seq(Operations)]
      /\ UNCHANGED <<lock, owner>>
  BY <1>3, <1>4, OperateTypes
<1>6. target' \in Target
  BY <1>1 DEF Remove, RestOK, Target, States
<1>7. req' \in [Requests -> Request]
  BY DrainTypes DEF Remove
<1> QED BY <1>1, <1>5, <1>6, <1>7, TypeAgain DEF RestOK

(* The loops over the lists, and the waits.                                 *)
LEMMA ResubmitTypes ==
  ASSUME TypeInv, SubmitPendedRequest
  PROVE  /\ TypeInv' /\ Top(thread[Control]) = "resubmit"
         /\ \/ \E r \in todo.pended :
                 /\ Begins(Control, r, "submit", {"submit", "resubmitted", "resubmit"})
                 /\ todo' = [todo EXCEPT !.pended = @ \ {r}]
            \/ todo.pended = {} /\ Fewer(Control) /\ UNCHANGED todo
<1>1. /\ RestOK /\ ThreadOK /\ ShapeInv /\ Control \in Threads /\ At(Control, "resubmit")
      /\ Top(thread[Control]) = "resubmit" /\ ~Idle(Control)
  <2>1. "resubmit" \in Places /\ At(Control, "resubmit")
    BY DEF Places, SubmitPendedRequest
  <2> QED BY <2>1, Kinds, TypeParts, WorksOn
<1>2. ASSUME NEW r \in todo.pended, todo' = [todo EXCEPT !.pended = @ \ {r}],
             thread' = Begin(Control, r, <<"submit", "resubmitted", "resubmit">>)
      PROVE  TypeInv' /\ Begins(Control, r, "submit", {"submit", "resubmitted", "resubmit"})
  <2>1. r \in Requests
    BY <1>1 DEF RestOK
  <2>2. /\ "submit" \in Places /\ "resubmitted" \in Places \cap Beneath
        /\ "resubmit" \in Places \cap Beneath /\ RankOf("submit") < RankOf("resubmitted")
        /\ RankOf("resubmitted") < RankOf("resubmit")
    BY DEF Places, Beneath, RankOf
  <2>3. ThreadOK' /\ Begins(Control, r, "submit", {"submit", "resubmitted", "resubmit"})
    BY <1>1, <1>2, <2>1, <2>2, BeginThree
  <2>4. ShapeInv'
    <3> DEFINE new == {"submit", "resubmitted", "resubmit"}
    <3>1. /\ new \cap {"complete", "signal", "cancelIrp", "cancelRelease", "timerCanceled"} = {}
          /\ "timerCallback" \notin new /\ "resubmitted" \in new
      OBVIOUS
    <3> QED BY <1>1, <2>1, <2>3, <3>1, BeginsShape
  <2> QED BY <1>1, <1>2, <2>3, <2>4, TypeAgain DEF SubmitPendedRequest, RestOK
<1>3. CASE todo.pended = {} /\ thread' = Jump(Control, <<>>) /\ UNCHANGED todo
  BY <1>1, <1>3, FewerMoves, TypeAgain DEF SubmitPendedRequest, RestOK
<1> QED BY <1>1, <1>2, <1>3 DEF SubmitPendedRequest

(* The control thread calls p for r.                                        *)
Calls(r, p) ==
  /\ \A u \in Threads : u # Control => thread'[u] = thread[u]
  /\ thread'[Control].cur = r /\ Top(thread'[Control]) = p
  /\ \A x : Has(thread'[Control], x) <=> x = p \/ Has(thread[Control], x)

LEMMA CallMoves ==
  ASSUME TypeInv, NEW h \in {"failPended", "cancelSent"}, At(Control, h), NEW r \in Requests,
         NEW p \in {"completion", "cancel"},
         thread' = [thread EXCEPT ![Control] = [stack |-> <<p>> \o @.stack, cur |-> r]]
  PROVE  ThreadOK' /\ ShapeInv' /\ Calls(r, p)
<1>1. /\ ThreadOK /\ ShapeInv /\ Control \in Threads /\ Top(thread[Control]) = h /\ ~Idle(Control)
      /\ p \in Places /\ h \in Beneath /\ RankOf(p) < RankOf(h)
  <2>1. h \in Places /\ p \in Places /\ h \in Beneath /\ RankOf(p) < RankOf(h)
    BY DEF Places, Beneath, RankOf
  <2> QED BY <2>1, Kinds, TypeParts, WorksOn
<1>2. ThreadOK' /\ Calls(r, p)
  BY <1>1, Calling DEF Calls
<1>3. ShapeInv'
  BY <1>1, <1>2, CallsShape DEF Calls
<1> QED BY <1>2, <1>3

LEMMA FailPendedTypes ==
  ASSUME TypeInv, FailPendedRequest
  PROVE  /\ TypeInv' /\ Top(thread[Control]) = "failPended"
         /\ \/ \E r \in todo.pended :
                 /\ Calls(r, "completion")
                 /\ todo' = [todo EXCEPT !.pended = @ \ {r}]
                 /\ req' = [req EXCEPT ![r].status = "NotSent"]
            \/ todo.pended = {} /\ Fewer(Control) /\ UNCHANGED <<todo, req>>
<1>1. /\ RestOK /\ Control \in Threads /\ At(Control, "failPended")
      /\ Top(thread[Control]) = "failPended" /\ ~Idle(Control)
  <2>1. "failPended" \in Places /\ At(Control, "failPended")
    BY DEF Places, FailPendedRequest
  <2> QED BY <2>1, Kinds, TypeParts, WorksOn
<1>2. ASSUME NEW r \in todo.pended, todo' = [todo EXCEPT !.pended = @ \ {r}],
             req' = [req EXCEPT ![r].status = "NotSent"],
             thread' = [thread EXCEPT ![Control] = [stack |-> <<"completion">> \o @.stack, cur |-> r]]
      PROVE  TypeInv' /\ Calls(r, "completion")
  <2>1. r \in Requests
    BY <1>1 DEF RestOK
  <2>2. ThreadOK' /\ ShapeInv' /\ Calls(r, "completion")
    BY <1>1, <1>2, <2>1, CallMoves
  <2>3. req' \in [Requests -> Request]
    <3>1. req[r] \in Request
      BY <1>1, <2>1 DEF RestOK
    <3>2. [req[r] EXCEPT !.status = "NotSent"] \in Request
      BY <3>1, RequestSet DEF Statuses
    <3> QED BY <1>1, <1>2, <2>1, <3>2 DEF RestOK
  <2> QED BY <1>1, <1>2, <2>2, <2>3, TypeAgain DEF FailPendedRequest, RestOK
<1>3. CASE todo.pended = {} /\ thread' = Jump(Control, <<>>) /\ UNCHANGED <<todo, req>>
  BY <1>1, <1>3, FewerMoves, TypeAgain DEF FailPendedRequest, RestOK
<1> QED BY <1>1, <1>2, <1>3 DEF FailPendedRequest

LEMMA CancelSentTypes ==
  ASSUME TypeInv, CancelSentRequests
  PROVE  /\ TypeInv' /\ Top(thread[Control]) = "cancelSent"
         /\ \/ \E r \in todo.sent :
                 /\ r \in Requests /\ Calls(r, "cancel") /\ todo' = [todo EXCEPT !.sent = @ \ {r}]
            \/ todo.sent = {} /\ Fewer(Control) /\ UNCHANGED todo
<1>1. /\ RestOK /\ Control \in Threads /\ At(Control, "cancelSent")
      /\ Top(thread[Control]) = "cancelSent" /\ ~Idle(Control)
  <2>1. "cancelSent" \in Places /\ At(Control, "cancelSent")
    BY DEF Places, CancelSentRequests
  <2> QED BY <2>1, Kinds, TypeParts, WorksOn
<1>2. ASSUME NEW r \in todo.sent, todo' = [todo EXCEPT !.sent = @ \ {r}],
             thread' = [thread EXCEPT ![Control] = [stack |-> <<"cancel">> \o @.stack, cur |-> r]]
      PROVE  TypeInv' /\ r \in Requests /\ Calls(r, "cancel")
  <2>1. r \in Requests
    BY <1>1 DEF RestOK
  <2>2. ThreadOK' /\ ShapeInv' /\ Calls(r, "cancel")
    BY <1>1, <1>2, <2>1, CallMoves
  <2> QED BY <1>1, <1>2, <2>1, <2>2, TypeAgain DEF CancelSentRequests, RestOK
<1>3. CASE todo.sent = {} /\ thread' = Jump(Control, <<>>) /\ UNCHANGED todo
  BY <1>1, <1>3, FewerMoves, TypeAgain DEF CancelSentRequests, RestOK
<1> QED BY <1>1, <1>2, <1>3 DEF CancelSentRequests

LEMMA WaitTypes ==
  ASSUME TypeInv,
         Resubmitted \/ WaitForSentIoToComplete \/ WaitEnds \/ WaitForDisposeEvent
  PROVE  /\ TypeInv'
         /\ \/ Fewer(Control)
            \/ WaitForSentIoToComplete /\ Moves(Control, {"waited"}, {"waited"})
<1>1. RestOK /\ Control \in Threads
  BY TypeParts, Kinds
<1>2. target \in Target /\ target.ioCount \in Int
  BY <1>1 DEF RestOK, Target
<1>3. [target EXCEPT !.ioCount = @ - 1] \in Target /\ [target EXCEPT !.waiting = FALSE] \in Target
  <2>1. [target EXCEPT !.ioCount = @ - 1] \in Target
    BY <1>2 DEF Target
  <2>2. [target EXCEPT !.waiting = FALSE] \in Target
    BY <1>2 DEF Target
  <2> QED BY <2>1, <2>2
<1>4. CASE Resubmitted \/ WaitEnds \/ WaitForDisposeEvent
  <2>1. ~Idle(Control) /\ thread' = Jump(Control, <<>>)
    BY <1>4 DEF Resubmitted, WaitEnds, WaitForDisposeEvent, At
  <2>2. ThreadOK' /\ ShapeInv' /\ Fewer(Control)
    BY <1>1, <2>1, FewerMoves
  <2>3. target' \in Target /\ UNCHANGED <<lock, req, owner, todo, plan>>
    BY <1>2, <1>3, <1>4 DEF Resubmitted, WaitEnds, WaitForDisposeEvent
  <2> QED BY <1>1, <2>2, <2>3, TypeAgain DEF RestOK
<1>5. CASE WaitForSentIoToComplete
  <2>1. At(Control, "waitSent") /\ ~Idle(Control) /\ UNCHANGED <<target, lock, req, owner, todo, plan>>
    BY <1>5 DEF WaitForSentIoToComplete, At
  <2>2. CASE thread' = Jump(Control, <<>>)
    BY <1>1, <2>1, <2>2, FewerMoves, TypeAgain DEF RestOK
  <2>3. CASE thread' = Jump(Control, <<"waited">>)
    <3>1. /\ "waitSent" \in Places /\ "waited" \in Places /\ RankOf("waited") <= RankOf("waitSent")
          /\ Proper("waitSent", {"waited"})
      BY DEF Places, RankOf, Proper, RequestPlaces, Submitting
    <3>2. ThreadOK' /\ ShapeInv' /\ Moves(Control, {"waited"}, {"waited"})
      BY <1>1, <2>1, <2>3, <3>1, OneMoves
    <3> QED BY <1>1, <1>5, <2>1, <3>2, TypeAgain DEF RestOK
  <2> QED BY <1>5, <2>2, <2>3 DEF WaitForSentIoToComplete
<1> QED BY <1>4, <1>5

LEMMA FailedResubmitTypes ==
  ASSUME TypeInv, HandleFailedResubmit
  PROVE  TypeInv' /\ Cur(Control) \in Requests /\ Top(thread[Control]) = "failedResubmit"
<1>1. /\ RestOK /\ Control \in Threads /\ Cur(Control) \in Requests
      /\ Top(thread[Control]) = "failedResubmit"
  <2>1. "failedResubmit" \in Places \cap RequestPlaces /\ At(Control, "failedResubmit")
    BY DEF Places, RequestPlaces, HandleFailedResubmit
  <2> QED BY <2>1, Kinds, TypeParts, WorksOn
<1>2. ThreadOK' /\ ShapeInv' /\ target' \in Target /\ req' \in [Requests -> Request]
  BY <1>1, RemoveMoves, RemoveTypes DEF HandleFailedResubmit
<1> QED BY <1>1, <1>2, TypeAgain DEF HandleFailedResubmit, RestOK

LEMMA TypeInit == Init => TypeInv
<1> SUFFICES ASSUME Init
             PROVE  TypeInv
  OBVIOUS
<1>1. \A t \in Threads : t[2] \in Requests \cup {NoRequest}
  BY DEF Threads, Control, Canceller
<1>2. \A t \in Threads : thread[t] = [stack |-> <<>>, cur |-> t[2]]
  BY DEF Init
<1>3. ThreadOK
  <2>1. thread \in [Threads -> [stack : Seq(Places), cur : Requests \cup {NoRequest}]]
    BY <1>1 DEF Init
  <2> QED BY <1>2, <2>1 DEF ThreadOK, StackOK
<1>4. ShapeInv
  <2>1. \A t \in Threads : thread[t].cur = t[2] /\ \A p : ~Has(thread[t], p)
    BY <1>2, <1>3, StackView DEF ThreadOK
  <2> QED BY <2>1 DEF ShapeInv, ShapeOK
<1>5. RestOK
  <2>1. req \in [Requests -> Request] /\ owner \in [Requests -> {"driver", "target"}]
    BY DEF Init, Fresh, Request, Flags, Lists, Statuses
  <2>2. target \in Target
    BY DEF Init, Target, States
  <2>3. todo \in [op : Operations, pended : SUBSET Requests, sent : SUBSET Requests, wait : BOOLEAN]
    BY DEF Init, Operations
  <2> QED BY <2>1, <2>2, <2>3, TargetAssumption DEF Init, RestOK
<1> QED BY <1>3, <1>4, <1>5, TypeParts

LEMMA TypeStep == TypeInv /\ [Next]_vars => TypeInv'
<1> SUFFICES ASSUME TypeInv, [Next]_vars
             PROVE  TypeInv'
  OBVIOUS
<1>1. ASSUME NEW t \in Threads, ThreadStep(t)
      PROVE  TypeInv'
  <2>1. CASE RequestCompletionRoutine(t) \/ CompleteRequest(t) \/ SetSentIoEvent(t) \/ DecrementIoCount(t)
             \/ CompleteCanceledRequest(t)
    BY <2>1, CompletionTypes, CompletingTypes
  <2>2. CASE Cancel(t) \/ CancelReference(t) \/ CancelIrp(t) \/ RequestCancelled(t) \/ CancelRelease(t)
    BY <2>2, CancelTypes
  <2>3. CASE TimerCallback(t) \/ TimerCanceled(t)
    BY <2>3, TimerTypes
  <2>4. CASE SubmitRefused(t) \/ SubmitAccept(t) \/ SubmitCheckCanceled(t) \/ SubmitSend(t)
             \/ PendRequestLocked(t) \/ Send(t)
    BY <2>4, SubmitTypes
  <2>5. CASE SyncCompleted(t) \/ SyncCancels(t)
    BY <2>5, SyncTypes
  <2> QED BY <1>1, <2>1, <2>2, <2>3, <2>4, <2>5 DEF ThreadStep
<1>2. CASE ControlStep
  BY <1>2, ResubmitTypes, FailedResubmitTypes, FailPendedTypes, CancelSentTypes, WaitTypes
     DEF ControlStep
<1>3. CASE Operation
  BY <1>3, StartTypes, CancelSentIoTypes, RemovalTypes, StopTypes, PurgeTypes DEF Operation
<1>4. ASSUME NEW r \in Requests, RequestSend(r)
      PROVE  TypeInv'
  BY <1>4, SendTypes
<1>5. ASSUME NEW r \in Requests, SyncTimesOut(Sender(r))
      PROVE  TypeInv'
  BY <1>5, SyncTypes, Kinds
<1>6. ASSUME NEW r \in Requests, CancelSentRequest(r) \/ TimerFires(r) \/ LowerCompletes(r)
      PROVE  TypeInv'
  BY <1>6, OutsideTypes
<1>7. CASE UNCHANGED vars
  <2>1. UNCHANGED <<target, lock, req, owner, thread, todo, plan>>
    BY <1>7 DEF vars
  <2>2. RestOK /\ ThreadOK /\ ShapeInv
    BY TypeParts
  <2>3. RestOK' /\ ThreadOK' /\ ShapeInv'
    BY <2>1, <2>2 DEF RestOK, ThreadOK, ShapeInv, ShapeOK
  <2> QED BY <2>3, TypeAgain
<1> QED BY <1>1, <1>2, <1>3, <1>4, <1>5, <1>6, <1>7 DEF Next

(* The variables of the target have their types, and the counts stay        *)
(* integers whatever the threads interleave.                                *)
THEOREM TargetTypes == Spec => []TypeOK
<1>1. TypeInv => TypeOK
  BY DEF TypeInv
<1> QED BY <1>1, TypeInit, TypeStep, PTL DEF Spec

-----------------------------------------------------------------------------
(* Where a request's IRP is.                                                *)

(* w, a thread[t], works on r at p.                                         *)
Works(w, r, p) == w.cur = r /\ Has(w, p)

(* The IRP is at one of these places, with its completion counted or not,   *)
CountedPlaces   == {"submitCounted", "submitChecked", "send", "requestCancelled", "completion"}
UncountedPlaces == {"submit", "complete", "completeCanceled", "failedResubmit"}
CarrierPlaces   == CountedPlaces \cup UncountedPlaces

Carrying(t, r) == \E p \in CarrierPlaces : Works(thread[t], r, p)

(* or with the lower driver, pended, or in the hands of an operation.       *)
Failing(r)   == r \in todo.pended /\ todo.op # "Start"
Resending(r) == r \in todo.pended /\ todo.op = "Start"

UnderWay(r) ==
  \/ \E t \in Threads : \E p \in CountedPlaces : Works(thread[t], r, p)
  \/ req[r].irp = "lower" \/ req[r].cancelRoutine \/ Failing(r)

SeatOK(r) ==
  /\ \A t \in Threads : Carrying(t, r) =>
       /\ \A u \in Threads : Carrying(u, r) => u = t
       /\ req[r].irp = "here" /\ ~req[r].cancelRoutine /\ r \notin todo.pended /\ owner[r] = "target"
  /\ req[r].irp = "lower" =>
       /\ req[r].list \in {"sent", "ignored"}
       /\ ~req[r].cancelRoutine /\ r \notin todo.pended /\ owner[r] = "target"
  /\ req[r].cancelRoutine => req[r].list = "pended" /\ r \notin todo.pended /\ owner[r] = "target"
  /\ r \in todo.pended => owner[r] = "target" /\ req[r].list = "none"
  /\ owner[r] = "driver" => req[r].count = 0 /\ req[r].list = "none"

(* The list it is on says so.                                               *)
ListOK(r) ==
  /\ req[r].list = "pended" =>
       req[r].cancelRoutine \/ \E t \in Threads : Works(thread[t], r, "requestCancelled")
  /\ req[r].list = "ignored" => "IgnoreState" \in req[r].flags /\ "IgnoreState" \in req[r].options
  /\ \A t \in Threads :
       /\ Works(thread[t], r, "requestCancelled") => req[r].list = "pended"
       /\ Works(thread[t], r, "send") => req[r].list \in {"sent", "ignored"}
       /\ \A p \in {"completion", "completeCanceled"} : Works(thread[t], r, p) => req[r].list # "pended"
       /\ \A p \in Submitting \cup {"complete", "failedResubmit"} :
            Works(thread[t], r, p) => req[r].list = "none"
       /\ \A p \in {"submitCounted", "submitChecked"} :
            Works(thread[t], r, p) /\ t # Control /\ "IgnoreState" \in req[r].options
              => "IgnoreState" \in req[r].flags

(* Nor does the driver have it, or is it submitted, while its timer runs.   *)
Unsubmitted(r) ==
  \/ Resending(r) \/ owner[r] = "driver"
  \/ \E t \in Threads : \E p \in Submitting \cup {"failedResubmit", "complete"} : Works(thread[t], r, p)

Called(r)   == Works(thread[Timer(r)], r, "timerCallback")
Canceled(r) == Works(thread[Timer(r)], r, "timerCanceled")

TimerOK(r) ==
  /\ Called(r) => "TimerSet" \in req[r].flags
  /\ "TimerSet" \in req[r].flags /\ "Completed" \in req[r].flags => Called(r)
  /\ "TimerSet" \in req[r].flags \/ Canceled(r) => UnderWay(r) \/ "Completed" \in req[r].flags
  /\ UnderWay(r) => "Completed" \notin req[r].flags
  /\ Unsubmitted(r) =>
       "TimerSet" \notin req[r].flags /\ "Completed" \notin req[r].flags /\ ~Canceled(r)

(* The completion count: the IRP, the DPC, and the threads that cancel.     *)
TimerHolds(r) == Canceled(r) \/ (Called(r) /\ "Completed" \in req[r].flags)
Cancelers(r)  == {t \in Threads : Works(thread[t], r, "cancelRelease")}

CountOK(r) ==
  /\ req[r].count = (IF UnderWay(r) THEN 1 ELSE 0) + (IF TimerHolds(r) THEN 1 ELSE 0)
                      + Cardinality(Cancelers(r))
  /\ Resending(r) \/ (\E t \in Threads : \E p \in UncountedPlaces : Works(thread[t], r, p))
       => req[r].count = 0

RequestOK(r) == SeatOK(r) /\ ListOK(r) /\ TimerOK(r) /\ CountOK(r)

-----------------------------------------------------------------------------
(* What a step says of a request.                                           *)

TrackedPlaces == CarrierPlaces \cup {"cancelRelease", "timerCallback", "timerCanceled"}

(* Nothing that counts.                                                     *)
Same(r) ==
  /\ \A u \in Threads : \A p \in TrackedPlaces : Works(thread'[u], r, p) <=> Works(thread[u], r, p)
  /\ req'[r].count = req[r].count /\ req'[r].list = req[r].list /\ req'[r].irp = req[r].irp
  /\ req'[r].cancelRoutine = req[r].cancelRoutine /\ req'[r].options = req[r].options
  /\ \A f \in {"Completed", "TimerSet", "IgnoreState"} : f \in req'[r].flags <=> f \in req[r].flags
  /\ owner'[r] = owner[r]
  /\ r \in todo'.pended <=> r \in todo.pended
  /\ r \in todo.pended => todo'.op = todo.op

LEMMA SameThreads ==
  ASSUME NEW r \in Requests, Same(r)
  PROVE  /\ \A u \in Threads : Carrying(u, r)' <=> Carrying(u, r)
         /\ UnderWay(r)' <=> UnderWay(r)
         /\ Resending(r)' <=> Resending(r)
         /\ Unsubmitted(r)' <=> Unsubmitted(r)
         /\ Called(r)' <=> Called(r)
         /\ Canceled(r)' <=> Canceled(r)
         /\ TimerHolds(r)' <=> TimerHolds(r)
         /\ Cancelers(r)' = Cancelers(r)
<1>1. /\ CarrierPlaces \subseteq TrackedPlaces /\ CountedPlaces \subseteq TrackedPlaces
      /\ Submitting \cup {"failedResubmit", "complete"} \subseteq TrackedPlaces
      /\ "cancelRelease" \in TrackedPlaces /\ "timerCallback" \in TrackedPlaces
      /\ "timerCanceled" \in TrackedPlaces /\ Timer(r) \in Threads
  BY Kinds DEF TrackedPlaces, CarrierPlaces, CountedPlaces, UncountedPlaces, Submitting
<1>2. \A u \in Threads : Carrying(u, r)' <=> Carrying(u, r)
  BY <1>1 DEF Same, Carrying
<1>3. (Resending(r)' <=> Resending(r)) /\ (Failing(r)' <=> Failing(r))
  BY DEF Same, Resending, Failing
<1>4. UnderWay(r)' <=> UnderWay(r)
  BY <1>1, <1>3 DEF Same, UnderWay
<1>5. Unsubmitted(r)' <=> Unsubmitted(r)
  BY <1>1, <1>3 DEF Same, Unsubmitted
<1>6. (Called(r)' <=> Called(r)) /\ (Canceled(r)' <=> Canceled(r))
  BY <1>1 DEF Same, Called, Canceled, Timer
<1>7. TimerHolds(r)' <=> TimerHolds(r)
  BY <1>6 DEF Same, TimerHolds
<1>8. Cancelers(r)' = Cancelers(r)
  BY <1>1 DEF Same, Cancelers
<1> QED BY <1>2, <1>3, <1>4, <1>5, <1>6, <1>7, <1>8

LEMMA SameRequest ==
  ASSUME NEW r \in Requests, Same(r), RequestOK(r)
  PROVE  RequestOK(r)'
<1>1. SeatOK(r)'
  BY SameThreads DEF RequestOK, SeatOK, Same
<1>2. ListOK(r)'
  <2>1. /\ Submitting \cup {"complete", "failedResubmit", "requestCancelled", "send", "completion",
                             "completeCanceled"} \subseteq TrackedPlaces
        /\ {"submitCounted", "submitChecked"} \subseteq TrackedPlaces
    BY DEF TrackedPlaces, CarrierPlaces, CountedPlaces, UncountedPlaces, Submitting
  <2> QED BY <2>1 DEF RequestOK, ListOK, Same
<1>3. TimerOK(r)'
  BY SameThreads DEF RequestOK, TimerOK, Same
<1>4. CountOK(r)'
  <2>1. UncountedPlaces \subseteq TrackedPlaces
    BY DEF TrackedPlaces, CarrierPlaces
  <2> QED BY <2>1, SameThreads DEF RequestOK, CountOK, Same
<1> QED BY <1>1, <1>2, <1>3, <1>4 DEF RequestOK

(* t, which worked on q at h, goes on at the places new.                    *)
Steps(t, q, h, new) ==
  /\ \A u \in Threads : u # t => thread'[u] = thread[u]
  /\ \A p : Works(thread'[t], q, p) <=> p \in new \/ (Works(thread[t], q, p) /\ p # h)
  /\ \A p : Works(thread[t], q, p) => p = h \/ p \in Beneath
  /\ h # "idle" => Works(thread[t], q, h)

(* Nothing else moves.                                                      *)
Elsewhere(q) ==
  \A r \in Requests : r # q =>
     \A u \in Threads : \A p : Works(thread'[u], r, p) <=> Works(thread[u], r, p)

LEMMA Stepped ==
  ASSUME TypeInv, NEW t \in Threads, NEW h \in Places, Top(thread[t]) = h,
         NEW tops, NEW new, Moves(t, tops, new)
  PROVE  Steps(t, thread[t].cur, h, new) /\ Elsewhere(thread[t].cur)
<1>1. /\ Has(thread[t], h) /\ \A p : Has(thread[t], p) => p = h \/ p \in Beneath
  BY TypeParts, TopOfStack, StepPlaces
<1> QED BY <1>1 DEF Moves, Steps, Elsewhere, Works

LEMMA Begun ==
  ASSUME TypeInv, NEW t \in Threads, Idle(t), NEW q, NEW top, NEW new, Begins(t, q, top, new)
  PROVE  Steps(t, q, "idle", new) /\ Elsewhere(q)
<1>1. \A p : ~Has(thread[t], p)
  BY TypeParts, TopOfStack
<1> QED BY <1>1 DEF Begins, Steps, Elsewhere, Works

(* A step that touches one request.                                         *)
LEMMA OtherRequests ==
  ASSUME NEW q \in Requests, Elsewhere(q), UNCHANGED todo,
         \A r \in Requests : r # q => req'[r] = req[r] /\ owner'[r] = owner[r],
         \A r \in Requests : RequestOK(r), RequestOK(q)'
  PROVE  \A r \in Requests : RequestOK(r)'
<1> SUFFICES ASSUME NEW r \in Requests, r # q
             PROVE  RequestOK(r)'
  OBVIOUS
<1>1. Same(r)
  BY DEF Same, Elsewhere
<1> QED BY <1>1, SameRequest

(* or none.                                                                 *)
LEMMA NoRequests ==
  ASSUME \A r \in Requests : RequestOK(r), \A r \in Requests : Same(r)
  PROVE  \A r \in Requests : RequestOK(r)'
BY SameRequest

(* The places a step of t leaves and enters.                                *)
LEMMA StepSeats ==
  ASSUME NEW t \in Threads, NEW q \in Requests, NEW h, NEW new, Steps(t, q, h, new)
  PROVE  /\ \A p \in CarrierPlaces \cup {"timerCallback"} :
              /\ Works(thread[t], q, p) => p = h
              /\ Works(thread'[t], q, p) <=> p \in new
         /\ \A u \in Threads : u # t => \A p : Works(thread'[u], q, p) <=> Works(thread[u], q, p)
         /\ \A u \in Threads : u # t => (Carrying(u, q)' <=> Carrying(u, q))
         /\ h \in CarrierPlaces => Carrying(t, q)
         /\ Carrying(t, q) => h \in CarrierPlaces
         /\ Carrying(t, q)' <=> new \cap CarrierPlaces # {}
<1>1. \A p \in CarrierPlaces \cup {"timerCallback"} : p \notin Beneath /\ p # "idle"
  BY DEF CarrierPlaces, CountedPlaces, UncountedPlaces, Beneath
<1>2. \A p \in CarrierPlaces \cup {"timerCallback"} :
        /\ Works(thread[t], q, p) => p = h
        /\ Works(thread'[t], q, p) <=> p \in new
  BY <1>1 DEF Steps
<1>3. \A u \in Threads : u # t => thread'[u] = thread[u]
  BY DEF Steps
<1> QED BY <1>1, <1>2, <1>3 DEF Steps, Carrying

(* The threads that cancel.                                                 *)
LEMMA ThreadsFinite == IsFiniteSet(Threads)
<1>1. IsFiniteSet({"sender", "lower", "timer"} \X Requests)
  <2>1. IsFiniteSet({"sender"} \cup {"lower"} \cup {"timer"})
    BY FS_Singleton, FS_Union
  <2>2. {"sender"} \cup {"lower"} \cup {"timer"} = {"sender", "lower", "timer"}
    OBVIOUS
  <2> QED BY <2>1, <2>2, TargetAssumption, FS_Product
<1>2. IsFiniteSet({Control, Canceller})
  <2>1. ASSUME NEW a, NEW b
        PROVE  IsFiniteSet({a, b})
    <3>1. {a, b} = {a} \cup {b} /\ IsFiniteSet({a}) /\ IsFiniteSet({b})
      BY FS_Singleton
    <3> QED BY <3>1, FS_Union
  <2> QED BY <2>1
<1> QED BY <1>1, <1>2, FS_Union DEF Threads

LEMMA CancelersFinite ==
  ASSUME NEW q \in Requests
  PROVE  IsFiniteSet(Cancelers(q)) /\ Cardinality(Cancelers(q)) \in Nat
BY ThreadsFinite, FS_Subset, FS_CardinalityType DEF Cancelers

LEMMA StepCancelers ==
  ASSUME NEW t \in Threads, NEW q \in Requests, NEW h, NEW new, Steps(t, q, h, new)
  PROVE  /\ IsFiniteSet(Cancelers(q)) /\ Cardinality(Cancelers(q)) \in Nat
         /\ h # "cancelRelease" /\ "cancelRelease" \notin new => Cancelers(q)' = Cancelers(q)
         /\ ~Works(thread[t], q, "cancelRelease") /\ "cancelRelease" \in new =>
              Cardinality(Cancelers(q)') = Cardinality(Cancelers(q)) + 1
         /\ h = "cancelRelease" /\ "cancelRelease" \notin new =>
              Cardinality(Cancelers(q)') = Cardinality(Cancelers(q)) - 1
<1>2. IsFiniteSet(Cancelers(q)) /\ Cardinality(Cancelers(q)) \in Nat
  BY CancelersFinite
<1>3. /\ \A u \in Threads : u # t => (Works(thread'[u], q, "cancelRelease") <=> Works(thread[u], q, "cancelRelease"))
      /\ Works(thread'[t], q, "cancelRelease") <=>
           "cancelRelease" \in new \/ (Works(thread[t], q, "cancelRelease") /\ h # "cancelRelease")
  BY DEF Steps
<1>4. Cancelers(q)' = {u \in Threads : Works(thread'[u], q, "cancelRelease")}
  BY DEF Cancelers
<1>5. ASSUME h # "cancelRelease", "cancelRelease" \notin new
      PROVE  Cancelers(q)' = Cancelers(q)
  BY <1>3, <1>4, <1>5 DEF Cancelers
<1>6. ASSUME ~Works(thread[t], q, "cancelRelease"), "cancelRelease" \in new
      PROVE  Cardinality(Cancelers(q)') = Cardinality(Cancelers(q)) + 1
  <2>1. Cancelers(q)' = Cancelers(q) \cup {t} /\ t \notin Cancelers(q)
    BY <1>3, <1>4, <1>6 DEF Cancelers
  <2> QED BY <1>2, <2>1, FS_AddElement
<1>7. ASSUME h = "cancelRelease", "cancelRelease" \notin new
      PROVE  Cardinality(Cancelers(q)') = Cardinality(Cancelers(q)) - 1
  <2>1. Cancelers(q)' = Cancelers(q) \ {t} /\ t \in Cancelers(q)
    BY <1>3, <1>4, <1>7 DEF Cancelers, Steps
  <2> QED BY <1>2, <2>1, FS_RemoveElement
<1> QED BY <1>2, <1>5, <1>6, <1>7

LEMMA CalledTop ==
  ASSUME TypeInv, NEW r \in Requests
  PROVE  /\ Called(r) <=> At(Timer(r), "timerCallback")
         /\ \A t \in Threads : Works(thread[t], r, "timerCallback") \/ Works(thread[t], r, "timerCanceled")
              => t = Timer(r)
         /\ Idle(Timer(r)) => ~Called(r) /\ ~Canceled(r)
<1>1. Timer(r) \in Threads /\ Timer(r) \notin {Control, Canceller} /\ Timer(r)[2] = r
  BY Kinds
<1>2. thread[Timer(r)].cur = r
  BY <1>1 DEF TypeInv, ShapeInv, ShapeOK
<1>3. "timerCallback" \in Places /\ "timerCallback" \notin Beneath
  BY DEF Places, Beneath
<1>4. /\ At(Timer(r), "timerCallback") <=> Top(thread[Timer(r)]) = "timerCallback"
      /\ Idle(Timer(r)) <=> Top(thread[Timer(r)]) = "idle"
      /\ Top(thread[Timer(r)]) = "idle" => \A p : ~Has(thread[Timer(r)], p)
      /\ Has(thread[Timer(r)], "timerCallback") => "timerCallback" = Top(thread[Timer(r)])
      /\ Top(thread[Timer(r)]) # "idle" => Has(thread[Timer(r)], Top(thread[Timer(r)]))
  BY <1>1, <1>3, TypeParts, TopOfStack
<1>5. \A t \in Threads : Works(thread[t], r, "timerCallback") \/ Works(thread[t], r, "timerCanceled")
              => t = Timer(r)
  BY DEF TypeInv, ShapeInv, ShapeOK, Works
<1> QED BY <1>2, <1>4, <1>5 DEF Called, Canceled, Works

LEMMA StepTimer ==
  ASSUME NEW t \in Threads, NEW q \in Requests, NEW h, NEW new, Steps(t, q, h, new)
  PROVE  /\ h # "timerCallback" /\ "timerCallback" \notin new => (Called(q)' <=> Called(q))
         /\ h # "timerCanceled" /\ "timerCanceled" \notin new => (Canceled(q)' <=> Canceled(q))
<1>1. Timer(q) \in Threads
  BY Kinds
<1>2. \A p : p # h /\ p \notin new =>
        (Works(thread'[Timer(q)], q, p) <=> Works(thread[Timer(q)], q, p))
  BY <1>1 DEF Steps
<1> QED BY <1>2 DEF Called, Canceled, Timer

LEMMA CalledOrCanceled ==
  ASSUME TypeInv, NEW r \in Requests
  PROVE  Called(r) => ~Canceled(r)
<1>1. Timer(r) \in Threads
  BY Kinds
<1>2. Called(r) => Top(thread[Timer(r)]) = "timerCallback"
  <2>1. "timerCallback" \in Places
    BY DEF Places
  <2> QED BY <1>1, <2>1, CalledTop, TypeParts, TopOfStack
<1>3. Top(thread[Timer(r)]) = "timerCallback" => ~Has(thread[Timer(r)], "timerCanceled")
  BY <1>1, TypeParts, TopOfStack DEF RankOf
<1> QED BY <1>2, <1>3 DEF Canceled, Works

-----------------------------------------------------------------------------
(* Completing a request.                                                    *)

Completers == {"completion", "completeCanceled", "failedResubmit", "timerCallback", "timerCanceled"}

(* Nobody but t will complete r.                                            *)
Owns(t, r) ==
  /\ \A u \in Threads : Carrying(u, r) => u = t
  /\ req[r].irp = "here" /\ ~req[r].cancelRoutine /\ r \notin todo.pended /\ owner[r] = "target"
  /\ Cardinality(Cancelers(r)) = 0
  /\ Canceled(r) => Top(thread[t]) = "timerCanceled"
  /\ Called(r) => Top(thread[t]) = "timerCallback"

LEMMA CountParts ==
  ASSUME TypeInv, NEW r \in Requests
  PROVE  Cardinality(Cancelers(r)) \in Nat /\ req[r].count \in Int /\ IsFiniteSet(Cancelers(r))
BY CancelersFinite, TypeParts DEF RestOK, Request

(* It is so with the IRP in hand and one reference,                         *)
LEMMA OwnsCompletion ==
  ASSUME TypeInv, NEW t \in Threads, At(t, "completion"), NEW r, r = Cur(t), RequestOK(r),
         CancelTimer(r), req[r].count = 1
  PROVE  Owns(t, r)
<1>1. r \in Requests /\ Works(thread[t], r, "completion")
  BY WorksOn DEF Places, RequestPlaces, Works
<1>2. Carrying(t, r) /\ UnderWay(r)
  BY <1>1 DEF Carrying, UnderWay, CarrierPlaces, CountedPlaces
<1>3. ~TimerHolds(r) /\ Cardinality(Cancelers(r)) = 0
  BY <1>1, <1>2, CountParts DEF RequestOK, CountOK
<1>4. ~Called(r) /\ ~Canceled(r)
  BY <1>1, <1>3, CalledTop DEF TimerHolds, CancelTimer, TimerArmed, RequestOK, TimerOK
<1> QED BY <1>1, <1>2, <1>3, <1>4 DEF Owns, RequestOK, SeatOK

(* or with no reference left,                                               *)
LEMMA OwnsCanceled ==
  ASSUME TypeInv, NEW t \in Threads, NEW h \in {"completeCanceled", "failedResubmit"}, At(t, h),
         NEW r, r = Cur(t), RequestOK(r)
  PROVE  Owns(t, r)
<1>1. r \in Requests /\ Works(thread[t], r, h)
  <2>1. h \in Places \cap RequestPlaces
    BY DEF Places, RequestPlaces
  <2> QED BY <2>1, WorksOn DEF Works
<1>2. Carrying(t, r) /\ req[r].count = 0
  BY <1>1 DEF Carrying, CarrierPlaces, UncountedPlaces, RequestOK, CountOK
<1>3. ~UnderWay(r) /\ ~TimerHolds(r) /\ Cardinality(Cancelers(r)) = 0
  BY <1>1, <1>2, CountParts DEF RequestOK, CountOK
<1>4. ~Called(r) /\ ~Canceled(r)
  BY <1>3 DEF TimerHolds, RequestOK, TimerOK
<1> QED BY <1>1, <1>2, <1>3, <1>4 DEF Owns, RequestOK, SeatOK

(* or for the DPC with the last one.                                        *)
LEMMA OwnsTimer ==
  ASSUME TypeInv, NEW t \in Threads, NEW h \in {"timerCallback", "timerCanceled"}, At(t, h),
         NEW r, r = Cur(t), RequestOK(r), req[r].count = 1,
         h = "timerCallback" => "Completed" \in req[r].flags
  PROVE  Owns(t, r)
<1>1. /\ r \in Requests /\ Works(thread[t], r, h) /\ Top(thread[t]) = h
      /\ h = "timerCallback" => ~Has(thread[t], "timerCanceled")
      /\ h = "timerCanceled" => ~Has(thread[t], "timerCallback")
  <2>1. h \in Places \cap RequestPlaces
    BY DEF Places, RequestPlaces
  <2>2. Top(thread[t]) = h /\ Has(thread[t], h) /\ r \in Requests /\ thread[t].cur = r
    BY <2>1, WorksOn
  <2>3. \A p : Has(thread[t], p) => p = h \/ RankOf(h) < RankOf(p)
    BY <2>2, TypeParts, TopOfStack
  <2> QED BY <2>2, <2>3 DEF Works, RankOf
<1>2. t = Timer(r)
  BY <1>1, CalledTop
<1>3. TimerHolds(r)
  BY <1>1, <1>2 DEF TimerHolds, Called, Canceled
<1>4. ~UnderWay(r) /\ Cardinality(Cancelers(r)) = 0
  BY <1>1, <1>3, CountParts DEF RequestOK, CountOK
<1>5. \A u \in Threads : ~Carrying(u, r)
  BY <1>4 DEF Carrying, CarrierPlaces, UnderWay, RequestOK, CountOK
<1>6. /\ Canceled(r) => Top(thread[t]) = "timerCanceled"
      /\ Called(r) => Top(thread[t]) = "timerCallback"
  BY <1>1, <1>2 DEF Called, Canceled, Works
<1>7. /\ req[r].irp = "here" /\ ~req[r].cancelRoutine /\ r \notin todo.pended /\ owner[r] = "target"
  <2>1. req[r] \in Request /\ owner[r] \in {"driver", "target"}
    BY <1>1, TypeParts DEF RestOK
  <2>2. req[r].irp \in {"here", "lower"}
    BY <2>1 DEF Request
  <2> QED BY <1>4, <2>1, <2>2 DEF UnderWay, Failing, Resending, RequestOK, SeatOK, CountOK
<1> QED BY <1>4, <1>5, <1>6, <1>7 DEF Owns

LEMMA Removed ==
  ASSUME TypeInv, NEW t \in Threads, NEW q \in Requests, q = Cur(t), RequestOK(q), Owns(t, q),
         Top(thread[t]) \in Completers, NEW b, RemoveCompletedRequestLocked(t, q, b), UNCHANGED <<owner, todo>>
  PROVE  RequestOK(q)' /\ Elsewhere(q)
<1> DEFINE h == Top(thread[t])
<1>1. PICK new : /\ Moves(t, {"complete"}, new) /\ "complete" \in new
                 /\ new \subseteq {"complete", "signal", "dereference"}
  BY RemoveMoves DEF Completers
<1>2. Steps(t, q, h, new) /\ Elsewhere(q)
  <2>1. h \in Places
    BY DEF Places, Completers
  <2> QED BY <1>1, <2>1, Stepped DEF Cur
<1>3. /\ \A u \in Threads : \A p \in CarrierPlaces : Works(thread'[u], q, p) <=> u = t /\ p = "complete"
      /\ Carrying(t, q)' /\ \A u \in Threads : Carrying(u, q)' => u = t
      /\ ~Called(q)' /\ ~Canceled(q)'
  <2>1. \A u \in Threads : u # t => ~Carrying(u, q)
    BY DEF Owns
  <2>2. \A p \in CarrierPlaces : Works(thread'[t], q, p) <=> p = "complete"
    BY <1>1, <1>2, StepSeats DEF CarrierPlaces, CountedPlaces, UncountedPlaces
  <2>3. \A u \in Threads : u # t => \A p \in CarrierPlaces : ~Works(thread'[u], q, p)
    BY <1>2, <2>1, StepSeats DEF Carrying
  <2>4. "complete" \in CarrierPlaces
    BY DEF CarrierPlaces, UncountedPlaces
  <2>5. ~Called(q)' /\ ~Canceled(q)'
    <3>1. \A u \in Threads : u # t => thread'[u] = thread[u]
      BY <1>2 DEF Steps
    <3>2. \A p \in {"timerCallback", "timerCanceled"} :
             Works(thread'[t], q, p) <=> Works(thread[t], q, p) /\ p # h
      BY <1>1, <1>2 DEF Steps
    <3>3. Timer(q) \in Threads /\ Works(thread[t], q, h)
      BY <1>2, Kinds DEF Steps, Completers
    <3>4. Called(q) \/ Canceled(q) => t = Timer(q)
      BY <3>3, CalledTop DEF Owns
    <3>5. \A p \in {"timerCallback", "timerCanceled"} : Works(thread'[Timer(q)], q, p) =>
             Works(thread[Timer(q)], q, p) /\ (t = Timer(q) => p # h)
      BY <3>1, <3>2, <3>3
    <3> QED BY <3>4, <3>5 DEF Called, Canceled, Owns, Timer
  <2> QED BY <2>2, <2>3, <2>4, <2>5 DEF Carrying
<1>4. /\ req'[q].count = 0 /\ req'[q].list = "none" /\ req'[q].flags = {} /\ req'[q].irp = "here"
      /\ ~req'[q].cancelRoutine /\ owner'[q] = "target" /\ q \notin todo'.pended
  <2>1. req \in [Requests -> Request]
    BY TypeParts DEF RestOK
  <2>2. req'[q] = [req[q] EXCEPT !.count = 0, !.list = "none", !.flags = {}, !.status = Morphed(q, b)]
    BY <2>1 DEF RemoveCompletedRequestLocked
  <2>3. req[q] \in Request
    BY <2>1
  <2> QED BY <2>2, <2>3 DEF Owns, Request
<1>5. Cardinality(Cancelers(q)') = 0
  <2>1. h # "cancelRelease" /\ "cancelRelease" \notin new
    BY <1>1 DEF Completers
  <2> QED BY <1>2, <2>1, StepCancelers DEF Owns
<1>6. SeatOK(q)'
  BY <1>3, <1>4 DEF SeatOK
<1>7. ListOK(q)'
  BY <1>3, <1>4 DEF ListOK, CarrierPlaces, CountedPlaces, UncountedPlaces, Submitting
<1>8. ~UnderWay(q)' /\ ~TimerHolds(q)' /\ ~Resending(q)'
  BY <1>3, <1>4 DEF UnderWay, TimerHolds, CarrierPlaces, CountedPlaces, UncountedPlaces, Failing, Resending
<1>9. TimerOK(q)'
  BY <1>3, <1>4, <1>8 DEF TimerOK
<1>10. CountOK(q)'
  BY <1>4, <1>5, <1>8 DEF CountOK
<1> QED BY <1>2, <1>6, <1>7, <1>9, <1>10 DEF RequestOK

-----------------------------------------------------------------------------
(* Every step keeps the requests as they should be.                         *)

RequestInv == \A r \in Requests : RequestOK(r)

(* The fields a step leaves alone.                                          *)
LEMMA Fields ==
  ASSUME TypeInv, NEW q \in Requests
  PROVE  req \in [Requests -> Request] /\ req[q] \in Request /\ owner \in [Requests -> {"driver", "target"}]
BY TypeParts DEF RestOK

LEMMA CompletionRequests ==
  ASSUME TypeInv, RequestInv, NEW t \in Threads, RequestCompletionRoutine(t)
  PROVE  RequestInv'
<1>0. PICK q : q = Cur(t)
  OBVIOUS
<1>1. /\ At(t, "completion") /\ q \in Requests /\ Top(thread[t]) = "completion" /\ ~Idle(t)
      /\ thread[t].cur = q /\ RequestOK(q) /\ UNCHANGED <<owner, todo>>
  BY <1>0, WorksOn DEF RequestCompletionRoutine, Places, RequestPlaces, RequestInv
<1>2. CASE CancelTimer(q) /\ req[q].count = 1 /\ RemoveCompletedRequestLocked(t, q, FromTimer(q))
  <2>1. RequestOK(q)' /\ Elsewhere(q)
    BY <1>0, <1>1, <1>2, OwnsCompletion, Removed DEF Completers
  <2>2. \A r \in Requests : r # q => req'[r] = req[r]
    BY <1>1, <1>2, Fields DEF RemoveCompletedRequestLocked
  <2> QED BY <1>1, <2>1, <2>2, OtherRequests DEF RequestInv
<1>3. ASSUME thread' = Jump(t, <<>>), NEW n, NEW F, req' = [req EXCEPT ![q] = [req[q] EXCEPT !.count = n, !.flags = F]],
             \/ CancelTimer(q) /\ n = req[q].count - 1 /\ F = (req[q].flags \ {"TimerSet"}) \cup {"Completed"}
             \/ ~CancelTimer(q) /\ n = req[q].count /\ F = req[q].flags \cup {"Completed"}
      PROVE  RequestInv'
  <2>1. Steps(t, q, "completion", {}) /\ Elsewhere(q)
    <3>1. "completion" \in Places
      BY DEF Places
    <3> QED BY <1>1, <1>3, <3>1, FewerMoves, Stepped DEF Fewer
  <2>2. /\ req'[q].count = n /\ req'[q].flags = F /\ req'[q].list = req[q].list /\ req'[q].irp = req[q].irp
        /\ req'[q].cancelRoutine = req[q].cancelRoutine
        /\ \A r \in Requests : r # q => req'[r] = req[r]
    BY <1>1, <1>3, Fields DEF Request
  <2>3. Works(thread[t], q, "completion") /\ Carrying(t, q) /\ UnderWay(q)
    BY <1>1, <2>1 DEF Steps, Carrying, CarrierPlaces, CountedPlaces, UnderWay
  <2>4. \A u \in Threads : \A p \in CarrierPlaces : ~Works(thread'[u], q, p)
    <3>1. \A u \in Threads : Carrying(u, q) => u = t
      BY <1>1, <2>3 DEF RequestOK, SeatOK
    <3> QED BY <1>1, <2>1, <3>1, StepSeats DEF Carrying
  <2>5. /\ req[q].irp = "here" /\ ~req[q].cancelRoutine /\ q \notin todo.pended /\ owner[q] = "target"
        /\ req[q].list # "pended"
    BY <1>1, <2>3 DEF RequestOK, SeatOK, ListOK
  <2>6. /\ (Called(q)' <=> Called(q)) /\ (Canceled(q)' <=> Canceled(q))
        /\ Cancelers(q)' = Cancelers(q)
    BY <1>1, <2>1, StepCancelers, StepTimer
  <2>7. SeatOK(q)'
    BY <1>1, <2>2, <2>4, <2>5 DEF SeatOK, Carrying
  <2>8. ListOK(q)'
    BY <1>1, <1>3, <2>2, <2>4, <2>5 DEF ListOK, CarrierPlaces, CountedPlaces, UncountedPlaces, Submitting,
                                         RequestOK
  <2>9. ~UnderWay(q)' /\ ~Unsubmitted(q)' /\ ~Resending(q)'
    BY <1>1, <2>2, <2>4, <2>5 DEF UnderWay, Unsubmitted, CarrierPlaces, CountedPlaces, UncountedPlaces,
                      Submitting, Failing, Resending
  <2>10. /\ "Completed" \notin req[q].flags /\ (Called(q) => "TimerSet" \in req[q].flags)
         /\ CancelTimer(q) <=> ("TimerSet" \in req[q].flags => ~Called(q))
    BY <1>1, <2>3, CalledTop DEF RequestOK, TimerOK, CancelTimer, TimerArmed
  <2>11. TimerOK(q)'
    BY <1>3, <2>2, <2>6, <2>9, <2>10 DEF TimerOK
  <2>12. CountOK(q)'
    <3>1. TimerHolds(q) <=> Canceled(q)
      BY <2>10 DEF TimerHolds
    <3>2. TimerHolds(q)' <=> Canceled(q) \/ ~CancelTimer(q)
      BY <1>3, <2>2, <2>6, <2>10 DEF TimerHolds
    <3>3. Called(q) => ~Canceled(q)
      BY <1>1, CalledOrCanceled
    <3>4. req[q].count = 1 + (IF TimerHolds(q) THEN 1 ELSE 0) + Cardinality(Cancelers(q))
      BY <1>1, <2>3 DEF RequestOK, CountOK
    <3>5. n = (IF TimerHolds(q)' THEN 1 ELSE 0) + Cardinality(Cancelers(q))
      <4>1. Cardinality(Cancelers(q)) \in Nat
        BY <1>1, CountParts
      <4> QED BY <1>3, <2>10, <3>1, <3>2, <3>3, <3>4, <4>1
    <3>6. \A u \in Threads : \A p \in UncountedPlaces : ~Works(thread'[u], q, p)
      BY <2>4 DEF CarrierPlaces
    <3> QED BY <2>2, <2>6, <2>9, <3>5, <3>6 DEF CountOK
  <2> QED BY <1>1, <2>1, <2>2, <2>7, <2>8, <2>11, <2>12, OtherRequests DEF RequestInv, RequestOK
<1>4. CASE /\ CancelTimer(q)
           /\ req' = [req EXCEPT ![q].count = @ - 1, ![q].flags = (@ \ {"TimerSet"}) \cup {"Completed"}]
           /\ thread' = Jump(t, <<>>)
  BY <1>3, <1>4
<1>5. CASE ~CancelTimer(q) /\ req' = [req EXCEPT ![q].flags = @ \cup {"Completed"}] /\ thread' = Jump(t, <<>>)
  <2>1. [req[q] EXCEPT !.count = req[q].count, !.flags = @ \cup {"Completed"}]
          = [req[q] EXCEPT !.flags = @ \cup {"Completed"}]
    BY <1>1, Fields DEF Request
  <2> QED BY <1>3, <1>5, <2>1
<1> QED BY <1>0, <1>1, <1>2, <1>4, <1>5 DEF RequestCompletionRoutine

(* Steps that do not touch what is tracked.                                 *)
LEMMA Untracked ==
  ASSUME NEW t \in Threads, NEW q, NEW h, NEW new, Steps(t, q, h, new), Elsewhere(q),
         h \notin TrackedPlaces, new \cap TrackedPlaces = {}, UNCHANGED owner, UNCHANGED todo,
         \A r \in Requests :
           /\ req'[r].count = req[r].count /\ req'[r].list = req[r].list /\ req'[r].irp = req[r].irp
           /\ req'[r].cancelRoutine = req[r].cancelRoutine /\ req'[r].options = req[r].options
           /\ \A f \in {"Completed", "TimerSet", "IgnoreState"} : f \in req'[r].flags <=> f \in req[r].flags
  PROVE  \A r \in Requests : Same(r)
<1> SUFFICES ASSUME NEW r \in Requests
             PROVE  Same(r)
  OBVIOUS
<1>1. \A u \in Threads : \A p \in TrackedPlaces : Works(thread'[u], r, p) <=> Works(thread[u], r, p)
  <2>1. CASE r # q
    BY <2>1 DEF Elsewhere
  <2>2. CASE r = q
    BY <2>2 DEF Steps
  <2> QED BY <2>1, <2>2
<1> QED BY <1>1 DEF Same

LEMMA Apart ==
  ({"signal", "dereference", "cancel", "cancelReference", "cancelIrp", "wait", "waitAgain", "timedOut", "resubmitted", "resubmit",
    "failPended", "cancelSent", "waitSent", "waited", "dispose", "waitDispose", "idle"} \cap TrackedPlaces) = {}
BY DEF TrackedPlaces, CarrierPlaces, CountedPlaces, UncountedPlaces

LEMMA QuietRequests ==
  ASSUME TypeInv, RequestInv, NEW t \in Threads,
         \/ SetSentIoEvent(t) \/ DecrementIoCount(t) \/ Cancel(t)
         \/ SyncCompleted(t) \/ SyncTimesOut(t) \/ SyncCancels(t)
  PROVE  RequestInv'
<1>0. PICK q : q = thread[t].cur
  OBVIOUS
<1>1. ASSUME NEW h \in {"signal", "dereference", "wait", "waitAgain"}, At(t, h),
             thread' = Jump(t, <<>>), UNCHANGED <<req, owner, todo>>
      PROVE  RequestInv'
  <2>1. h \in Places /\ h \notin TrackedPlaces
    BY Apart DEF Places
  <2>2. Steps(t, q, h, {}) /\ Elsewhere(q)
    BY <1>0, <1>1, <2>1, WorksOn, FewerMoves, Stepped DEF Fewer
  <2>3. \A r \in Requests : Same(r)
    BY <1>1, <2>1, <2>2, Untracked
  <2> QED BY <2>3, NoRequests DEF RequestInv
<1>2. CASE Cancel(t)
  <2>1. /\ "cancel" \in Places /\ "cancelReference" \in Places
        /\ RankOf("cancelReference") <= RankOf("cancel") /\ Proper("cancel", {"cancelReference"})
    BY DEF Places, RankOf, Proper, RequestPlaces, Submitting
  <2>2. Steps(t, q, "cancel", {"cancelReference"}) /\ Elsewhere(q)
    BY <1>0, <1>2, <2>1, OneMoves, Stepped DEF Cancel
  <2>3. q \in Requests /\ req' = [req EXCEPT ![q].canceled = TRUE] /\ UNCHANGED <<owner, todo>>
    BY <1>0, <1>2, <2>1, WorksOn DEF Cancel, Cur, RequestPlaces
  <2>4. \A r \in Requests :
           /\ req'[r].count = req[r].count /\ req'[r].list = req[r].list /\ req'[r].irp = req[r].irp
           /\ req'[r].cancelRoutine = req[r].cancelRoutine /\ req'[r].options = req[r].options
           /\ req'[r].flags = req[r].flags
    BY <2>3, Fields DEF Request
  <2>5. \A r \in Requests : Same(r)
    BY <2>2, <2>3, <2>4, Untracked, Apart
  <2> QED BY <2>5, NoRequests DEF RequestInv
<1>3. CASE SyncTimesOut(t)
  <2>1. /\ "wait" \in Places /\ "timedOut" \in Places
        /\ RankOf("timedOut") <= RankOf("wait") /\ Proper("wait", {"timedOut"})
    BY DEF Places, RankOf, Proper, RequestPlaces, Submitting
  <2>2. Steps(t, q, "wait", {"timedOut"}) /\ Elsewhere(q)
    BY <1>0, <1>3, <2>1, OneMoves, Stepped DEF SyncTimesOut
  <2>3. UNCHANGED <<req, owner, todo>>
    BY <1>3 DEF SyncTimesOut
  <2>4. \A r \in Requests : Same(r)
    BY <2>2, <2>3, Untracked, Apart
  <2> QED BY <2>4, NoRequests DEF RequestInv
<1>4. CASE SyncCancels(t)
  <2>1. /\ "timedOut" \in Places /\ "cancel" \in Places
        /\ "waitAgain" \in Places \cap Beneath
        /\ RankOf("cancel") < RankOf("waitAgain")
        /\ RankOf("waitAgain") <= RankOf("timedOut")
        /\ Proper("timedOut", {"cancel", "waitAgain"})
    BY DEF Places, Beneath, RankOf, Proper, RequestPlaces, Submitting
  <2>2. Steps(t, q, "timedOut", {"cancel", "waitAgain"}) /\ Elsewhere(q)
    BY <1>0, <1>4, <2>1, TwoMoves, Stepped DEF SyncCancels
  <2>3. q \in Requests /\ req' = [req EXCEPT ![q].flags = @ \cup {"CancelledFromTimer"}] /\ UNCHANGED <<owner, todo>>
    BY <1>0, <1>4, <2>1, WorksOn DEF SyncCancels, Cur, RequestPlaces
  <2>4. \A r \in Requests :
           /\ req'[r].count = req[r].count /\ req'[r].list = req[r].list /\ req'[r].irp = req[r].irp
           /\ req'[r].cancelRoutine = req[r].cancelRoutine /\ req'[r].options = req[r].options
           /\ \A f \in {"Completed", "TimerSet", "IgnoreState"} : f \in req'[r].flags <=> f \in req[r].flags
    BY <2>3, Fields DEF Request
  <2>5. \A r \in Requests : Same(r)
    BY <2>2, <2>3, <2>4, Untracked, Apart
  <2> QED BY <2>5, NoRequests DEF RequestInv
<1> QED BY <1>1, <1>2, <1>3, <1>4 DEF SetSentIoEvent, DecrementIoCount, SyncCompleted

LEMMA CallbackRequests ==
  ASSUME TypeInv, RequestInv, NEW t \in Threads, CompleteRequest(t)
  PROVE  RequestInv'
<1>0. PICK q : q = Cur(t)
  OBVIOUS
<1>1. /\ At(t, "complete") /\ q \in Requests /\ Top(thread[t]) = "complete" /\ ~Idle(t)
      /\ thread[t].cur = q /\ RequestOK(q) /\ UNCHANGED <<req, todo>>
      /\ owner' = [owner EXCEPT ![q] = "driver"] /\ thread' = Jump(t, <<>>) /\ "complete" \in Places
  BY <1>0, WorksOn DEF CompleteRequest, Places, RequestPlaces, RequestInv
<1>2. Steps(t, q, "complete", {}) /\ Elsewhere(q)
  BY <1>1, FewerMoves, Stepped DEF Fewer
<1>3. Works(thread[t], q, "complete") /\ Carrying(t, q)
  BY <1>1, <1>2 DEF Steps, Carrying, CarrierPlaces, UncountedPlaces
<1>4. \A u \in Threads : \A p \in CarrierPlaces : ~Works(thread'[u], q, p)
  <2>1. \A u \in Threads : Carrying(u, q) => u = t
    BY <1>1, <1>3 DEF RequestOK, SeatOK
  <2> QED BY <1>1, <1>2, <2>1, StepSeats DEF Carrying
<1>5. /\ req[q].irp = "here" /\ ~req[q].cancelRoutine /\ q \notin todo.pended
      /\ req[q].list = "none" /\ req[q].count = 0
  BY <1>1, <1>3 DEF RequestOK, SeatOK, ListOK, CountOK, UncountedPlaces
<1>6. /\ (Called(q)' <=> Called(q)) /\ (Canceled(q)' <=> Canceled(q))
      /\ Cancelers(q)' = Cancelers(q)
  BY <1>1, <1>2, StepCancelers, StepTimer
<1>7. ~UnderWay(q)' /\ ~Resending(q)'
  BY <1>1, <1>4, <1>5 DEF UnderWay, CarrierPlaces, CountedPlaces, UncountedPlaces, Failing, Resending
<1>14. "TimerSet" \notin req[q].flags /\ "Completed" \notin req[q].flags /\ ~Canceled(q)
  BY <1>1, <1>3 DEF RequestOK, TimerOK, Unsubmitted
<1>8. ~UnderWay(q) /\ ~TimerHolds(q) /\ Cardinality(Cancelers(q)) = 0
  BY <1>1, <1>5, CountParts DEF RequestOK, CountOK
<1>9. owner'[q] = "driver" /\ \A r \in Requests : r # q => owner'[r] = owner[r]
  BY <1>1, Fields
<1>10. SeatOK(q)'
  BY <1>1, <1>4, <1>5, <1>9 DEF SeatOK, Carrying
<1>11. ListOK(q)'
  BY <1>1, <1>4, <1>5 DEF ListOK, CarrierPlaces, CountedPlaces, UncountedPlaces, Submitting
<1>12. TimerOK(q)'
  BY <1>1, <1>6, <1>7, <1>8, <1>14 DEF RequestOK, TimerOK, TimerHolds
<1>13. CountOK(q)'
  <2>1. ~TimerHolds(q)'
    BY <1>1, <1>6, <1>8 DEF TimerHolds
  <2>2. \A u \in Threads : \A p \in UncountedPlaces : ~Works(thread'[u], q, p)
    BY <1>4 DEF CarrierPlaces
  <2> QED BY <1>1, <1>5, <1>6, <1>7, <1>8, <2>1, <2>2 DEF CountOK
<1> QED BY <1>1, <1>2, <1>9, <1>10, <1>11, <1>12, <1>13, OtherRequests DEF RequestInv, RequestOK

LEMMA ReferenceRequests ==
  ASSUME TypeInv, RequestInv, NEW t \in Threads, CancelReference(t)
  PROVE  RequestInv'
<1>0. PICK q : q = Cur(t)
  OBVIOUS
<1>1. /\ At(t, "cancelReference") /\ q \in Requests /\ Top(thread[t]) = "cancelReference" /\ ~Idle(t)
      /\ thread[t].cur = q /\ RequestOK(q) /\ UNCHANGED <<owner, todo>> /\ "cancelReference" \in Places
  BY <1>0, WorksOn DEF CancelReference, Places, RequestPlaces, RequestInv
<1>2. CASE req[q].count > 0 /\ req' = [req EXCEPT ![q].count = @ + 1]
           /\ thread' = Jump(t, <<"cancelIrp", "cancelRelease">>)
  <2> DEFINE new == {"cancelIrp", "cancelRelease"}
  <2>1. Steps(t, q, "cancelReference", new) /\ Elsewhere(q)
    <3>1. /\ "cancelIrp" \in Places /\ "cancelRelease" \in Places \cap Beneath
          /\ RankOf("cancelIrp") < RankOf("cancelRelease")
          /\ RankOf("cancelRelease") <= RankOf("cancelReference")
          /\ Proper("cancelReference", {"cancelIrp", "cancelRelease"})
      BY DEF Places, Beneath, RankOf, Proper, RequestPlaces, Submitting
    <3>2. Moves(t, {"cancelIrp"}, new)
      BY <1>1, <1>2, <3>1, TwoMoves
    <3> QED BY <1>1, <3>2, Stepped
  <2>2. /\ req'[q].count = req[q].count + 1 /\ req'[q].list = req[q].list /\ req'[q].irp = req[q].irp
        /\ req'[q].cancelRoutine = req[q].cancelRoutine /\ req'[q].flags = req[q].flags
        /\ req'[q].options = req[q].options /\ \A r \in Requests : r # q => req'[r] = req[r]
    BY <1>1, <1>2, Fields DEF Request
  <2>3. \A u \in Threads : \A p \in CarrierPlaces : Works(thread'[u], q, p) <=> Works(thread[u], q, p)
    <3>1. "cancelReference" \notin CarrierPlaces /\ new \cap CarrierPlaces = {}
      BY DEF CarrierPlaces, CountedPlaces, UncountedPlaces
    <3> QED BY <1>1, <2>1, <3>1 DEF Steps
  <2>4. \A u \in Threads : Carrying(u, q)' <=> Carrying(u, q)
    BY <2>3 DEF Carrying
  <2>5. /\ (Called(q)' <=> Called(q)) /\ (Canceled(q)' <=> Canceled(q))
        /\ Cardinality(Cancelers(q)') = Cardinality(Cancelers(q)) + 1
    <3>1. ~Works(thread[t], q, "cancelRelease")
      <4>1. RankOf("cancelReference") = RankOf("cancelRelease")
        BY DEF RankOf
      <4>2. RankOf("cancelRelease") \in 0..9
        BY RankType
      <4> QED BY <1>1, <4>1, <4>2, TypeParts, TopOfStack DEF Works
    <3> QED BY <1>1, <2>1, <3>1, StepCancelers, StepTimer
  <2>6. /\ (UnderWay(q)' <=> UnderWay(q)) /\ (Unsubmitted(q)' <=> Unsubmitted(q))
        /\ (Resending(q)' <=> Resending(q)) /\ (TimerHolds(q)' <=> TimerHolds(q))
    BY <1>1, <2>2, <2>3, <2>5 DEF UnderWay, Unsubmitted, Resending, Failing, CarrierPlaces, CountedPlaces,
                                UncountedPlaces, Submitting, TimerHolds
  <2>7. SeatOK(q)'
    BY <1>1, <1>2, <2>2, <2>4 DEF RequestOK, SeatOK
  <2>8. ListOK(q)'
    BY <1>1, <2>2, <2>3 DEF RequestOK, ListOK, CarrierPlaces, CountedPlaces, UncountedPlaces, Submitting
  <2>9. TimerOK(q)'
    BY <1>1, <2>2, <2>5, <2>6 DEF RequestOK, TimerOK
  <2>10. CountOK(q)'
    <3>1. req[q].count # 0 /\ Cardinality(Cancelers(q)) \in Nat
      BY <1>1, <1>2, CountParts
    <3>2. ~Resending(q) /\ \A u \in Threads : \A p \in UncountedPlaces : ~Works(thread[u], q, p)
      BY <1>1, <3>1 DEF RequestOK, CountOK
    <3>3. \A u \in Threads : \A p \in UncountedPlaces : ~Works(thread'[u], q, p)
      BY <2>3, <3>2 DEF CarrierPlaces
    <3> QED BY <1>1, <2>2, <2>5, <2>6, <3>1, <3>2, <3>3 DEF RequestOK, CountOK
  <2> QED BY <1>1, <2>1, <2>2, <2>7, <2>8, <2>9, <2>10, OtherRequests DEF RequestInv, RequestOK
<1>3. CASE thread' = Jump(t, <<>>) /\ UNCHANGED req
  <2>1. Steps(t, q, "cancelReference", {}) /\ Elsewhere(q)
    BY <1>1, <1>3, FewerMoves, Stepped DEF Fewer
  <2>2. \A r \in Requests : Same(r)
    BY <1>1, <1>3, <2>1, Untracked, Apart
  <2> QED BY <2>2, NoRequests DEF RequestInv
<1> QED BY <1>0, <1>1, <1>2, <1>3 DEF CancelReference

LEMMA CancelIrpRequests ==
  ASSUME TypeInv, RequestInv, NEW t \in Threads, CancelIrp(t)
  PROVE  RequestInv'
<1>0. PICK q : q = Cur(t)
  OBVIOUS
<1>1. /\ At(t, "cancelIrp") /\ q \in Requests /\ Top(thread[t]) = "cancelIrp" /\ ~Idle(t)
      /\ thread[t].cur = q /\ RequestOK(q) /\ UNCHANGED <<owner, todo>> /\ "cancelIrp" \in Places
      /\ req' = [req EXCEPT ![q] = [req[q] EXCEPT !.irpCanceled = TRUE, !.cancelRoutine = FALSE]]
      /\ thread' = Jump(t, IF req[q].cancelRoutine THEN <<"requestCancelled">> ELSE <<>>)
  BY <1>0, WorksOn DEF CancelIrp, Places, RequestPlaces, RequestInv
<1>2. /\ req'[q].count = req[q].count /\ req'[q].list = req[q].list /\ req'[q].irp = req[q].irp
      /\ req'[q].cancelRoutine = FALSE /\ req'[q].flags = req[q].flags /\ req'[q].options = req[q].options
      /\ req[q].irp \in {"here", "lower"} /\ \A r \in Requests : r # q => req'[r] = req[r]
  BY <1>1, Fields DEF Request
<1>3. CASE req[q].cancelRoutine
  <2>1. Steps(t, q, "cancelIrp", {"requestCancelled"}) /\ Elsewhere(q)
    <3>1. /\ "requestCancelled" \in Places /\ RankOf("requestCancelled") <= RankOf("cancelIrp")
          /\ Proper("cancelIrp", {"requestCancelled"})
      BY DEF Places, RankOf, Proper, RequestPlaces, Submitting
    <3>2. Moves(t, {"requestCancelled"}, {"requestCancelled"})
      BY <1>1, <1>3, <3>1, OneMoves
    <3> QED BY <1>1, <3>2, Stepped
  <2>2. \A u \in Threads : ~Carrying(u, q)
    BY <1>1, <1>3 DEF RequestOK, SeatOK
  <2>3. \A u \in Threads : \A p \in CarrierPlaces :
          Works(thread'[u], q, p) <=> u = t /\ p = "requestCancelled"
    <3>1. \A p \in CarrierPlaces : Works(thread'[t], q, p) <=> p = "requestCancelled"
      BY <1>1, <2>1, StepSeats
    <3> QED BY <1>1, <2>1, <2>2, <3>1, StepSeats DEF Carrying
  <2>4. /\ (Called(q)' <=> Called(q)) /\ (Canceled(q)' <=> Canceled(q))
        /\ Cancelers(q)' = Cancelers(q)
    BY <1>1, <2>1, StepCancelers, StepTimer
  <2>5. /\ req[q].irp = "here" /\ q \notin todo.pended /\ owner[q] = "target" /\ req[q].list = "pended"
        /\ UnderWay(q)
    BY <1>1, <1>2, <1>3 DEF RequestOK, SeatOK, UnderWay
  <2>6. UnderWay(q)' /\ ~Unsubmitted(q)' /\ ~Resending(q)' /\ (TimerHolds(q)' <=> TimerHolds(q))
    <3>1. UnderWay(q)'
      BY <2>3 DEF UnderWay, CarrierPlaces, CountedPlaces
    <3> QED BY <1>1, <1>2, <2>3, <2>4, <2>5, <3>1 DEF Unsubmitted, Resending, TimerHolds, CarrierPlaces,
                CountedPlaces, UncountedPlaces, Submitting
  <2>7. SeatOK(q)'
    BY <1>1, <1>2, <2>3, <2>5 DEF SeatOK, Carrying
  <2>8. ListOK(q)'
    BY <1>1, <1>2, <2>3, <2>5 DEF ListOK, CarrierPlaces, CountedPlaces, UncountedPlaces, Submitting
  <2>9. TimerOK(q)'
    BY <1>1, <1>2, <2>4, <2>5, <2>6 DEF RequestOK, TimerOK
  <2>10. CountOK(q)'
    <3>1. \A u \in Threads : \A p \in UncountedPlaces : ~Works(thread'[u], q, p)
      BY <2>3 DEF CarrierPlaces, UncountedPlaces
    <3> QED BY <1>1, <1>2, <2>4, <2>5, <2>6, <3>1 DEF RequestOK, CountOK
  <2> QED BY <1>1, <1>2, <2>1, <2>7, <2>8, <2>9, <2>10, OtherRequests DEF RequestInv, RequestOK
<1>4. CASE ~req[q].cancelRoutine
  <2>1. Steps(t, q, "cancelIrp", {}) /\ Elsewhere(q)
    BY <1>1, <1>4, FewerMoves, Stepped DEF Fewer
  <2>2. req'[q].cancelRoutine = req[q].cancelRoutine
    BY <1>1, <1>2, <1>4, Fields DEF Request
  <2>3. \A r \in Requests :
           /\ req'[r].count = req[r].count /\ req'[r].list = req[r].list /\ req'[r].irp = req[r].irp
           /\ req'[r].cancelRoutine = req[r].cancelRoutine /\ req'[r].options = req[r].options
           /\ req'[r].flags = req[r].flags
    BY <1>2, <2>2
  <2>4. UNCHANGED owner /\ UNCHANGED todo
    BY <1>1
  <2>5. \A r \in Requests : Same(r)
    <3>1. "cancelIrp" \notin TrackedPlaces /\ {} \cap TrackedPlaces = {}
      BY Apart
    <3> QED BY <2>1, <2>3, <2>4, <3>1, Untracked
  <2> QED BY <2>5, NoRequests DEF RequestInv
<1> QED BY <1>3, <1>4

LEMMA CancelledRequests ==
  ASSUME TypeInv, RequestInv, NEW t \in Threads, RequestCancelled(t)
  PROVE  RequestInv'
<1>0. PICK q : q = Cur(t)
  OBVIOUS
<1>1. /\ At(t, "requestCancelled") /\ q \in Requests /\ Top(thread[t]) = "requestCancelled" /\ ~Idle(t)
      /\ thread[t].cur = q /\ RequestOK(q) /\ UNCHANGED <<owner, todo>> /\ "requestCancelled" \in Places
      /\ req' = [req EXCEPT ![q] = [req[q] EXCEPT !.list = "none", !.status = "Cancelled"]]
      /\ thread' = Jump(t, <<"completion">>)
  BY <1>0, WorksOn DEF RequestCancelled, Places, RequestPlaces, RequestInv
<1>2. /\ req'[q].count = req[q].count /\ req'[q].list = "none" /\ req'[q].irp = req[q].irp
      /\ req'[q].cancelRoutine = req[q].cancelRoutine /\ req'[q].flags = req[q].flags
      /\ \A r \in Requests : r # q => req'[r] = req[r]
  BY <1>1, Fields DEF Request
<1>3. Steps(t, q, "requestCancelled", {"completion"}) /\ Elsewhere(q)
  <2>1. /\ "completion" \in Places /\ RankOf("completion") <= RankOf("requestCancelled")
        /\ Proper("requestCancelled", {"completion"})
    BY DEF Places, RankOf, Proper, RequestPlaces, Submitting
  <2>2. Moves(t, {"completion"}, {"completion"})
    BY <1>1, <2>1, OneMoves
  <2> QED BY <1>1, <2>2, Stepped
<1>4. Carrying(t, q) /\ UnderWay(q)
  BY <1>1, <1>3 DEF Steps, Carrying, CarrierPlaces, CountedPlaces, UnderWay
<1>5. \A u \in Threads : \A p \in CarrierPlaces : Works(thread'[u], q, p) <=> u = t /\ p = "completion"
  <2>1. \A u \in Threads : Carrying(u, q) => u = t
    BY <1>1, <1>4 DEF RequestOK, SeatOK
  <2>2. \A p \in CarrierPlaces : Works(thread'[t], q, p) <=> p = "completion"
    BY <1>1, <1>3, StepSeats
  <2> QED BY <1>1, <1>3, <2>1, <2>2, StepSeats DEF Carrying
<1>6. /\ (Called(q)' <=> Called(q)) /\ (Canceled(q)' <=> Canceled(q))
      /\ Cancelers(q)' = Cancelers(q)
  BY <1>1, <1>3, StepCancelers, StepTimer
<1>7. /\ req[q].irp = "here" /\ q \notin todo.pended /\ owner[q] = "target" /\ ~req[q].cancelRoutine
  BY <1>1, <1>4 DEF RequestOK, SeatOK
<1>8. UnderWay(q)' /\ ~Unsubmitted(q)' /\ ~Resending(q)' /\ (TimerHolds(q)' <=> TimerHolds(q))
  <2>1. UnderWay(q)'
    BY <1>5 DEF UnderWay, CarrierPlaces, CountedPlaces
  <2> QED BY <1>1, <1>2, <1>5, <1>6, <1>7, <2>1 DEF Unsubmitted, Resending, TimerHolds, CarrierPlaces,
              CountedPlaces, UncountedPlaces, Submitting
<1>9. SeatOK(q)'
  BY <1>1, <1>2, <1>5, <1>7 DEF SeatOK, Carrying
<1>10. ListOK(q)'
  BY <1>1, <1>2, <1>5, <1>7 DEF ListOK, CarrierPlaces, CountedPlaces, UncountedPlaces, Submitting
<1>11. TimerOK(q)'
  BY <1>1, <1>2, <1>4, <1>6, <1>8 DEF RequestOK, TimerOK
<1>12. CountOK(q)'
  <2>1. \A u \in Threads : \A p \in UncountedPlaces : ~Works(thread'[u], q, p)
    BY <1>5 DEF CarrierPlaces, UncountedPlaces
  <2> QED BY <1>1, <1>2, <1>4, <1>6, <1>8, <2>1 DEF RequestOK, CountOK
<1> QED BY <1>1, <1>2, <1>3, <1>9, <1>10, <1>11, <1>12, OtherRequests DEF RequestInv, RequestOK

LEMMA ReleaseRequests ==
  ASSUME TypeInv, RequestInv, NEW t \in Threads, CancelRelease(t)
  PROVE  RequestInv'
<1>0. PICK q : q = Cur(t)
  OBVIOUS
<1>1. /\ At(t, "cancelRelease") /\ q \in Requests /\ Top(thread[t]) = "cancelRelease" /\ ~Idle(t)
      /\ thread[t].cur = q /\ RequestOK(q) /\ UNCHANGED <<owner, todo>> /\ "cancelRelease" \in Places
      /\ req' = [req EXCEPT ![q] = [req[q] EXCEPT !.count = req[q].count - 1]]
      /\ thread' = Jump(t, IF req[q].count = 1 THEN <<"completeCanceled">> ELSE <<>>)
  BY <1>0, WorksOn DEF CancelRelease, Places, RequestPlaces, RequestInv
<1>2. /\ req'[q].count = req[q].count - 1 /\ req'[q].list = req[q].list /\ req'[q].irp = req[q].irp
      /\ req'[q].cancelRoutine = req[q].cancelRoutine /\ req'[q].flags = req[q].flags
      /\ req'[q].options = req[q].options /\ req[q].irp \in {"here", "lower"}
      /\ req[q].list \in Lists /\ owner[q] \in {"driver", "target"}
      /\ \A r \in Requests : r # q => req'[r] = req[r]
  BY <1>1, Fields DEF Request
<1>3. PICK new \in {{}, {"completeCanceled"}} :
        /\ Steps(t, q, "cancelRelease", new) /\ Elsewhere(q)
        /\ new # {} <=> req[q].count = 1
  <2>1. CASE req[q].count = 1
    <3>1. /\ "completeCanceled" \in Places /\ RankOf("completeCanceled") <= RankOf("cancelRelease")
          /\ Proper("cancelRelease", {"completeCanceled"})
      BY DEF Places, RankOf, Proper, RequestPlaces, Submitting
    <3>2. Moves(t, {"completeCanceled"}, {"completeCanceled"})
      BY <1>1, <2>1, <3>1, OneMoves
    <3> QED BY <1>1, <2>1, <3>2, Stepped
  <2>2. CASE req[q].count # 1
    BY <1>1, <2>2, FewerMoves, Stepped DEF Fewer
  <2> QED BY <2>1, <2>2
<1>4. Cardinality(Cancelers(q)') = Cardinality(Cancelers(q)) - 1 /\ Cardinality(Cancelers(q)) \in Nat
      /\ Cardinality(Cancelers(q)) >= 1
  <2>1. t \in Cancelers(q)
    BY <1>1, <1>3 DEF Steps, Cancelers
  <2> QED BY <1>1, <1>3, <2>1, StepCancelers, FS_EmptySet
<1>5. (Called(q)' <=> Called(q)) /\ (Canceled(q)' <=> Canceled(q)) /\ req[q].count > 0
  BY <1>1, <1>3, <1>4, StepTimer DEF RequestOK, CountOK
<1>6. \A u \in Threads : \A p \in UncountedPlaces : ~Works(thread[u], q, p)
  BY <1>1, <1>5 DEF RequestOK, CountOK
<1>7. ~Resending(q) /\ owner[q] = "target"
  BY <1>1, <1>2, <1>5 DEF RequestOK, CountOK, SeatOK
<1>8. \A u \in Threads : \A p \in CarrierPlaces :
         Works(thread'[u], q, p) <=> Works(thread[u], q, p) \/ (u = t /\ p \in new)
  <2>1. "cancelRelease" \notin CarrierPlaces
    BY DEF CarrierPlaces, CountedPlaces, UncountedPlaces
  <2> QED BY <1>3, <2>1 DEF Steps
<1>9. /\ (UnderWay(q)' <=> UnderWay(q)) /\ (Unsubmitted(q)' <=> Unsubmitted(q))
      /\ (Resending(q)' <=> Resending(q)) /\ (TimerHolds(q)' <=> TimerHolds(q))
  BY <1>1, <1>2, <1>5, <1>8 DEF UnderWay, Unsubmitted, Resending, Failing, CarrierPlaces, CountedPlaces,
                                UncountedPlaces, Submitting, TimerHolds
<1>10. CASE new = {"completeCanceled"}
  <2>1. req[q].count = 1
    BY <1>3, <1>10
  <2>2. ~UnderWay(q) /\ ~TimerHolds(q) /\ Cardinality(Cancelers(q)) = 1
    BY <1>1, <1>4, <2>1 DEF RequestOK, CountOK
  <2>3. \A u \in Threads : ~Carrying(u, q)
    BY <1>6, <2>2 DEF UnderWay, Carrying, CarrierPlaces
  <2>4. \A u \in Threads : \A p \in CarrierPlaces :
           Works(thread'[u], q, p) <=> u = t /\ p = "completeCanceled"
    BY <1>8, <1>10, <2>3 DEF Carrying
  <2>5. req[q].irp = "here" /\ ~req[q].cancelRoutine /\ q \notin todo.pended /\ req[q].list # "pended"
    BY <1>1, <1>2, <1>7, <2>2 DEF UnderWay, Failing, Resending, RequestOK, ListOK, CountedPlaces
  <2>6. SeatOK(q)'
    BY <1>1, <1>2, <1>7, <2>4, <2>5 DEF SeatOK, Carrying
  <2>7. ListOK(q)'
    BY <1>1, <1>2, <2>4, <2>5 DEF RequestOK, ListOK, CarrierPlaces, CountedPlaces, UncountedPlaces, Submitting
  <2>8. TimerOK(q)'
    BY <1>1, <1>2, <1>5, <1>9 DEF RequestOK, TimerOK
  <2>9. CountOK(q)'
    BY <1>2, <1>4, <1>9, <2>1, <2>2 DEF CountOK
  <2> QED BY <1>1, <1>2, <1>3, <2>6, <2>7, <2>8, <2>9, OtherRequests DEF RequestInv, RequestOK
<1>11. CASE new = {}
  <2>1. \A u \in Threads : \A p \in CarrierPlaces : Works(thread'[u], q, p) <=> Works(thread[u], q, p)
    BY <1>8, <1>11
  <2>2. \A u \in Threads : Carrying(u, q)' <=> Carrying(u, q)
    BY <2>1 DEF Carrying
  <2>3. SeatOK(q)'
    BY <1>1, <1>2, <1>7, <2>2 DEF RequestOK, SeatOK
  <2>4. ListOK(q)'
    BY <1>1, <1>2, <2>1 DEF RequestOK, ListOK, CarrierPlaces, CountedPlaces, UncountedPlaces, Submitting
  <2>5. TimerOK(q)'
    BY <1>1, <1>2, <1>5, <1>9 DEF RequestOK, TimerOK
  <2>6. CountOK(q)'
    <3>1. \A u \in Threads : \A p \in UncountedPlaces : ~Works(thread'[u], q, p)
      BY <1>6, <2>1 DEF CarrierPlaces
    <3> QED BY <1>1, <1>2, <1>4, <1>7, <1>9, <3>1 DEF RequestOK, CountOK
  <2> QED BY <1>1, <1>2, <1>3, <2>3, <2>4, <2>5, <2>6, OtherRequests DEF RequestInv, RequestOK
<1> QED BY <1>3, <1>10, <1>11

LEMMA CompleteCanceledRequests ==
  ASSUME TypeInv, RequestInv, NEW t \in Threads,
         NEW h \in {"completeCanceled", "failedResubmit"}, At(t, h), NEW b,
         RemoveCompletedRequestLocked(t, Cur(t), b), UNCHANGED <<owner, todo>>
  PROVE  RequestInv'
<1>0. PICK q : q = Cur(t)
  OBVIOUS
<1>1. q \in Requests /\ Top(thread[t]) \in Completers /\ RequestOK(q)
  <2>1. h \in Places \cap RequestPlaces /\ h \in Completers
    BY DEF Places, RequestPlaces, Completers
  <2> QED BY <1>0, <2>1, WorksOn DEF RequestInv
<1>2. RequestOK(q)' /\ Elsewhere(q)
  BY <1>0, <1>1, OwnsCanceled, Removed
<1>3. \A r \in Requests : r # q => req'[r] = req[r]
  BY <1>0, <1>1, Fields DEF RemoveCompletedRequestLocked
<1> QED BY <1>1, <1>2, <1>3, OtherRequests DEF RequestInv

(* Steps of the timer: where the IRP is does not change.                    *)
LEMMA SameSeats ==
  ASSUME NEW t \in Threads, NEW q \in Requests, NEW h, NEW new, Steps(t, q, h, new),
         h \notin CarrierPlaces, new \cap CarrierPlaces = {}, UNCHANGED todo,
         req'[q].irp = req[q].irp, req'[q].cancelRoutine = req[q].cancelRoutine, owner'[q] = owner[q]
  PROVE  /\ \A u \in Threads : \A p \in CarrierPlaces : Works(thread'[u], q, p) <=> Works(thread[u], q, p)
         /\ \A u \in Threads : Carrying(u, q)' <=> Carrying(u, q)
         /\ UnderWay(q)' <=> UnderWay(q)
         /\ Unsubmitted(q)' <=> Unsubmitted(q)
         /\ Resending(q)' <=> Resending(q)
<1>1. \A u \in Threads : \A p \in CarrierPlaces : Works(thread'[u], q, p) <=> Works(thread[u], q, p)
  BY DEF Steps
<1>2. \A u \in Threads : Carrying(u, q)' <=> Carrying(u, q)
  BY <1>1 DEF Carrying
<1>3. /\ CountedPlaces \subseteq CarrierPlaces
      /\ Submitting \cup {"failedResubmit", "complete"} \subseteq CarrierPlaces
  BY DEF CarrierPlaces, CountedPlaces, UncountedPlaces, Submitting
<1>4. UnderWay(q)' <=> UnderWay(q)
  BY <1>1, <1>3 DEF UnderWay, Failing
<1>5. (Resending(q)' <=> Resending(q)) /\ (Unsubmitted(q)' <=> Unsubmitted(q))
  BY <1>1, <1>3 DEF Resending, Unsubmitted
<1> QED BY <1>1, <1>2, <1>4, <1>5

LEMMA SameLists ==
  ASSUME NEW q \in Requests, RequestOK(q), UNCHANGED <<owner, todo>>,
         \A u \in Threads : \A p \in CarrierPlaces : Works(thread'[u], q, p) <=> Works(thread[u], q, p),
         \A u \in Threads : Carrying(u, q)' <=> Carrying(u, q),
         req'[q].irp = req[q].irp, req'[q].cancelRoutine = req[q].cancelRoutine,
         req'[q].list = req[q].list, req'[q].options = req[q].options,
         "IgnoreState" \in req[q].flags => "IgnoreState" \in req'[q].flags,
         owner[q] = "driver" => req'[q].count = 0
  PROVE  SeatOK(q)' /\ ListOK(q)'
<1>1. SeatOK(q)'
  BY DEF RequestOK, SeatOK
<1>2. ListOK(q)'
  BY DEF RequestOK, ListOK, CarrierPlaces, CountedPlaces, UncountedPlaces, Submitting
<1> QED BY <1>1, <1>2

LEMMA TimerFiresRequests ==
  ASSUME TypeInv, RequestInv, NEW q \in Requests, TimerFires(q)
  PROVE  RequestInv'
<1> DEFINE t == Timer(q)
<1>1. /\ Idle(t) /\ "TimerSet" \in req[q].flags /\ ~At(t, "timerCallback") /\ t \in Threads
      /\ thread' = Begin(t, q, <<"timerCallback">>) /\ UNCHANGED <<req, owner, todo>> /\ RequestOK(q)
  BY Kinds DEF TimerFires, TimerArmed, RequestInv
<1>2. Steps(t, q, "idle", {"timerCallback"}) /\ Elsewhere(q)
  <2>1. t[2] = q
    BY Kinds
  <2>2. Begins(t, q, "timerCallback", {"timerCallback"})
    BY <1>1, <2>1, BeginMoves
  <2> QED BY <1>1, <2>2, Begun
<1>3. ~Called(q) /\ ~Canceled(q) /\ Called(q)' /\ (Canceled(q)' <=> Canceled(q))
      /\ Cancelers(q)' = Cancelers(q)
  <2>1. ~Called(q) /\ ~Canceled(q)
    BY <1>1, CalledTop
  <2>2. Called(q)'
    BY <1>1, <1>2, StepSeats DEF Called, Timer
  <2> QED BY <1>1, <1>2, <2>1, <2>2, StepTimer, StepCancelers
<1>4. "Completed" \notin req[q].flags
  BY <1>1, <1>3 DEF RequestOK, TimerOK
<1>5. "idle" \notin CarrierPlaces /\ {"timerCallback"} \cap CarrierPlaces = {}
  BY DEF CarrierPlaces, CountedPlaces, UncountedPlaces
<1>6. /\ \A u \in Threads : \A p \in CarrierPlaces : Works(thread'[u], q, p) <=> Works(thread[u], q, p)
      /\ \A u \in Threads : Carrying(u, q)' <=> Carrying(u, q)
      /\ UnderWay(q)' <=> UnderWay(q)
      /\ Unsubmitted(q)' <=> Unsubmitted(q)
      /\ Resending(q)' <=> Resending(q)
  BY <1>1, <1>2, <1>5, SameSeats
<1>7. SeatOK(q)' /\ ListOK(q)'
  <2>1. owner[q] = "driver" => req[q].count = 0
    BY <1>1 DEF RequestOK, SeatOK
  <2> QED BY <1>1, <1>6, <2>1, SameLists
<1>8. TimerOK(q)'
  BY <1>1, <1>3, <1>4, <1>6 DEF RequestOK, TimerOK
<1>9. CountOK(q)'
  <2>1. TimerHolds(q)' <=> TimerHolds(q)
    BY <1>1, <1>3, <1>4 DEF TimerHolds
  <2>2. UncountedPlaces \subseteq CarrierPlaces
    BY DEF CarrierPlaces
  <2> QED BY <1>1, <1>3, <1>6, <2>1, <2>2 DEF RequestOK, CountOK
<1> QED BY <1>1, <1>2, <1>7, <1>8, <1>9, OtherRequests DEF RequestInv, RequestOK

LEMMA TimerRequests ==
  ASSUME TypeInv, RequestInv, NEW t \in Threads, TimerCallback(t) \/ TimerCanceled(t)
  PROVE  RequestInv'
<1>0. PICK q : q = Cur(t)
  OBVIOUS
<1>1. PICK h \in {"timerCallback", "timerCanceled"} :
        At(t, h) /\ (TimerCallback(t) <=> h = "timerCallback") /\ (TimerCanceled(t) <=> h = "timerCanceled")
  BY DEF TimerCallback, TimerCanceled, At
<1>2. /\ q \in Requests /\ Top(thread[t]) = h /\ ~Idle(t) /\ t = Timer(q)
      /\ thread[t].cur = q /\ RequestOK(q) /\ UNCHANGED <<owner, todo>> /\ h \in Places
  <2>1. h \in Places \cap RequestPlaces
    BY DEF Places, RequestPlaces
  <2>2. q \in Requests /\ Top(thread[t]) = h /\ ~Idle(t) /\ thread[t].cur = q /\ Has(thread[t], h)
    BY <1>0, <1>1, <2>1, WorksOn
  <2>3. t = Timer(q)
    BY <2>2, CalledTop DEF Works
  <2> QED BY <2>1, <2>2, <2>3 DEF TimerCallback, TimerCanceled, RequestInv
<1>3. CASE req[q].count = 1 /\ (h = "timerCallback" => "Completed" \in req[q].flags)
           /\ RemoveCompletedRequestLocked(t, q, TRUE)
  <2>1. RequestOK(q)' /\ Elsewhere(q)
    BY <1>0, <1>1, <1>2, <1>3, OwnsTimer, Removed DEF Completers
  <2>2. \A r \in Requests : r # q => req'[r] = req[r]
    BY <1>2, <1>3, Fields DEF RemoveCompletedRequestLocked
  <2> QED BY <1>2, <2>1, <2>2, OtherRequests DEF RequestInv
<1>4. /\ h = "timerCallback" <=> Called(q)
      /\ h = "timerCanceled" <=> Canceled(q)
  <2>1. Works(thread[t], q, h)
    <3>1. Has(thread[t], h)
      BY <1>2, TypeParts, TopOfStack, StepPlaces
    <3> QED BY <1>2, <3>1 DEF Works
  <2>2. h = "timerCallback" => Called(q)
    BY <1>2, <2>1 DEF Called
  <2>3. h = "timerCanceled" => Canceled(q)
    BY <1>2, <2>1 DEF Canceled
  <2> QED BY <1>2, <2>2, <2>3, CalledOrCanceled
<1>5. ASSUME NEW n, NEW F, req' = [req EXCEPT ![q] = [req[q] EXCEPT !.count = n, !.flags = F]],
             "Completed" \in F <=> "Completed" \in req[q].flags, "TimerSet" \in F => h = "timerCanceled" /\ "TimerSet" \in req[q].flags,
             "IgnoreState" \in F <=> "IgnoreState" \in req[q].flags,
             NEW new \in {{}, {"cancel", "timerCanceled"}}, Steps(t, q, h, new), Elsewhere(q),
             new = {} => n = req[q].count - 1 /\ (h = "timerCallback" => "Completed" \in req[q].flags),
             new # {} => n = req[q].count + 1 /\ h = "timerCallback" /\ "Completed" \notin req[q].flags
      PROVE  RequestInv'
  <2>1. /\ req'[q].count = n /\ req'[q].flags = F /\ req'[q].list = req[q].list /\ req'[q].irp = req[q].irp
        /\ req'[q].cancelRoutine = req[q].cancelRoutine /\ req'[q].options = req[q].options
        /\ \A r \in Requests : r # q => req'[r] = req[r]
    BY <1>2, <1>5, Fields DEF Request
  <2>2. ~Called(q)' /\ (Canceled(q)' <=> new # {}) /\ Cancelers(q)' = Cancelers(q)
    <3>1. Works(thread'[t], q, "timerCallback") <=> "timerCallback" \in new
      BY <1>2, <1>5, StepSeats
    <3>2. Works(thread'[t], q, "timerCanceled") <=>
            "timerCanceled" \in new \/ (Works(thread[t], q, "timerCanceled") /\ "timerCanceled" # h)
      BY <1>5 DEF Steps
    <3>3. Cancelers(q)' = Cancelers(q)
      BY <1>2, <1>5, StepCancelers
    <3> QED BY <1>2, <1>4, <1>5, <3>1, <3>2, <3>3 DEF Called, Canceled, Timer
  <2>3. /\ \A u \in Threads : \A p \in CarrierPlaces : Works(thread'[u], q, p) <=> Works(thread[u], q, p)
        /\ \A u \in Threads : Carrying(u, q)' <=> Carrying(u, q)
        /\ UnderWay(q)' <=> UnderWay(q)
        /\ Unsubmitted(q)' <=> Unsubmitted(q)
        /\ Resending(q)' <=> Resending(q)
    <3>1. h \notin CarrierPlaces /\ new \cap CarrierPlaces = {}
      BY DEF CarrierPlaces, CountedPlaces, UncountedPlaces
    <3> QED BY <1>2, <1>5, <2>1, <3>1, SameSeats
  <2>4. UnderWay(q) \/ TimerHolds(q)
    BY <1>2, <1>4 DEF RequestOK, TimerOK, TimerHolds
  <2>5. req[q].count > 0
    BY <1>2, <2>4, CountParts DEF RequestOK, CountOK
  <2>6. SeatOK(q)' /\ ListOK(q)'
    <3>1. owner[q] # "driver"
      BY <1>2, <2>5 DEF RequestOK, SeatOK
    <3> QED BY <1>2, <1>5, <2>1, <2>3, <3>1, SameLists
  <2>7. TimerOK(q)'
    BY <1>2, <1>4, <1>5, <2>1, <2>2, <2>3 DEF RequestOK, TimerOK
  <2>8. CountOK(q)'
    <3>1. TimerHolds(q)' <=> new # {}
      BY <2>2 DEF TimerHolds
    <3>2. TimerHolds(q) <=> new = {}
      BY <1>4, <1>5 DEF TimerHolds
    <3>3. n = (IF UnderWay(q) THEN 1 ELSE 0) + (IF TimerHolds(q)' THEN 1 ELSE 0) + Cardinality(Cancelers(q))
      <4>1. req[q].count = (IF UnderWay(q) THEN 1 ELSE 0) + (IF TimerHolds(q) THEN 1 ELSE 0)
                             + Cardinality(Cancelers(q))
        BY <1>2 DEF RequestOK, CountOK
      <4>2. Cardinality(Cancelers(q)) \in Nat
        BY <1>2, CountParts
      <4> QED BY <1>5, <3>1, <3>2, <4>1, <4>2
    <3>4. ~Resending(q) /\ \A u \in Threads : \A p \in UncountedPlaces : ~Works(thread[u], q, p)
      BY <1>2, <2>5 DEF RequestOK, CountOK
    <3>5. \A u \in Threads : \A p \in UncountedPlaces : ~Works(thread'[u], q, p)
      BY <2>3, <3>4 DEF CarrierPlaces
    <3> QED BY <2>1, <2>2, <2>3, <3>3, <3>4, <3>5 DEF CountOK
  <2> QED BY <1>2, <1>5, <2>1, <2>6, <2>7, <2>8, OtherRequests DEF RequestInv, RequestOK
<1>6. CASE thread' = Jump(t, <<>>) /\ h = "timerCallback" /\ "Completed" \in req[q].flags
           /\ req' = [req EXCEPT ![q].count = @ - 1, ![q].flags = @ \ {"TimerSet"}]
  <2>1. Steps(t, q, h, {}) /\ Elsewhere(q)
    BY <1>2, <1>6, FewerMoves, Stepped DEF Fewer
  <2>2. PICK F : F = req[q].flags \ {"TimerSet"}
    OBVIOUS
  <2>3. req' = [req EXCEPT ![q] = [req[q] EXCEPT !.count = req[q].count - 1, !.flags = F]]
    BY <1>6, <2>2
  <2>4. /\ "Completed" \in F <=> "Completed" \in req[q].flags
        /\ "TimerSet" \in F => h = "timerCanceled" /\ "TimerSet" \in req[q].flags
        /\ "IgnoreState" \in F <=> "IgnoreState" \in req[q].flags
    BY <2>2
  <2> QED BY <1>5, <1>6, <2>1, <2>3, <2>4
<1>7. CASE thread' = Jump(t, <<>>) /\ h = "timerCanceled" /\ req' = [req EXCEPT ![q].count = @ - 1]
  <2>1. Steps(t, q, h, {}) /\ Elsewhere(q)
    BY <1>2, <1>7, FewerMoves, Stepped DEF Fewer
  <2>2. req' = [req EXCEPT ![q] = [req[q] EXCEPT !.count = req[q].count - 1, !.flags = req[q].flags]]
    BY <1>2, <1>7, Fields DEF Request
  <2> QED BY <1>5, <1>7, <2>1, <2>2
<1>8. CASE thread' = Jump(t, <<"cancel", "timerCanceled">>) /\ h = "timerCallback" /\ "Completed" \notin req[q].flags
           /\ req' = [req EXCEPT ![q].count = @ + 1, ![q].flags = (@ \ {"TimerSet"}) \cup {"CancelledFromTimer"}]
  <2>1. Steps(t, q, h, {"cancel", "timerCanceled"}) /\ Elsewhere(q)
    <3>1. /\ "timerCallback" \in Places /\ "cancel" \in Places
          /\ "timerCanceled" \in Places \cap Beneath
          /\ RankOf("cancel") < RankOf("timerCanceled")
          /\ RankOf("timerCanceled") <= RankOf("timerCallback")
          /\ Proper("timerCallback", {"cancel", "timerCanceled"})
      BY DEF Places, Beneath, RankOf, Proper, RequestPlaces, Submitting
    <3>2. Moves(t, {"cancel"}, {"cancel", "timerCanceled"})
      BY <1>1, <1>8, <3>1, TwoMoves
    <3> QED BY <1>2, <3>2, Stepped
  <2>2. PICK F : F = (req[q].flags \ {"TimerSet"}) \cup {"CancelledFromTimer"}
    OBVIOUS
  <2>3. req' = [req EXCEPT ![q] = [req[q] EXCEPT !.count = req[q].count + 1, !.flags = F]]
    BY <1>8, <2>2
  <2>4. /\ "Completed" \in F <=> "Completed" \in req[q].flags
        /\ "TimerSet" \in F => h = "timerCanceled" /\ "TimerSet" \in req[q].flags
        /\ "IgnoreState" \in F <=> "IgnoreState" \in req[q].flags
    BY <2>2
  <2> QED BY <1>5, <1>8, <2>1, <2>3, <2>4
<1> QED BY <1>0, <1>1, <1>2, <1>3, <1>6, <1>7, <1>8 DEF TimerCallback, TimerCanceled

(* The thread that carries the IRP moves.                                   *)
LEMMA CarrierSteps ==
  ASSUME TypeInv, NEW t \in Threads, NEW q \in Requests, RequestOK(q), NEW h \in CarrierPlaces, NEW new,
         Steps(t, q, h, new)
  PROVE  /\ \A u \in Threads : \A p \in CarrierPlaces : Works(thread'[u], q, p) <=> u = t /\ p \in new
         /\ \A u \in Threads : Carrying(u, q)' <=> u = t /\ new \cap CarrierPlaces # {}
         /\ req[q].irp = "here" /\ ~req[q].cancelRoutine /\ q \notin todo.pended /\ owner[q] = "target"
         /\ "timerCallback" \notin new => (Called(q)' <=> Called(q))
         /\ "timerCanceled" \notin new => (Canceled(q)' <=> Canceled(q))
         /\ "cancelRelease" \notin new => Cancelers(q)' = Cancelers(q)
<1>1. Works(thread[t], q, h) /\ Carrying(t, q)
  <2>1. h # "idle"
    BY DEF CarrierPlaces, CountedPlaces, UncountedPlaces
  <2> QED BY <2>1 DEF Steps, Carrying
<1>2. \A u \in Threads : Carrying(u, q) => u = t
  BY <1>1 DEF RequestOK, SeatOK
<1>3. \A p \in CarrierPlaces : Works(thread'[t], q, p) <=> p \in new
  BY StepSeats
<1>4. \A u \in Threads : u # t => \A p \in CarrierPlaces : ~Works(thread'[u], q, p)
  BY <1>2, StepSeats DEF Carrying
<1>5. h \notin {"timerCallback", "timerCanceled", "cancelRelease"}
  BY DEF CarrierPlaces, CountedPlaces, UncountedPlaces
<1>6. /\ req[q].irp = "here" /\ ~req[q].cancelRoutine /\ q \notin todo.pended /\ owner[q] = "target"
  BY <1>1 DEF RequestOK, SeatOK
<1> QED BY <1>3, <1>4, <1>5, <1>6, StepTimer, StepCancelers DEF Carrying

LEMMA UnsubmittedTimer ==
  ASSUME NEW q \in Requests, RequestOK(q), NEW t \in Threads, NEW h \in Submitting, Works(thread[t], q, h)
  PROVE  /\ "TimerSet" \notin req[q].flags /\ "Completed" \notin req[q].flags /\ ~Called(q) /\ ~Canceled(q)
         /\ ~TimerHolds(q) /\ req[q].list = "none"
<1>1. Unsubmitted(q)
  BY DEF Unsubmitted
<1>2. "TimerSet" \notin req[q].flags /\ "Completed" \notin req[q].flags /\ ~Called(q) /\ ~Canceled(q)
  BY <1>1 DEF RequestOK, TimerOK
<1> QED BY <1>2 DEF TimerHolds, RequestOK, ListOK

(* A request that was not sent.                                             *)
LEMMA NotSentRequests ==
  ASSUME TypeInv, RequestInv, NEW t \in Threads, NEW h \in Submitting, At(t, h), NotSubmitted(t),
         NEW q, q = Cur(t), UNCHANGED todo, Cardinality(Cancelers(q)) = 0,
         req'[q].count = 0, req'[q].list = req[q].list, req'[q].irp = req[q].irp,
         req'[q].cancelRoutine = req[q].cancelRoutine, req'[q].flags = req[q].flags,
         \A r \in Requests : r # q => req'[r] = req[r]
  PROVE  RequestInv'
<1>1. /\ q \in Requests /\ thread[t].cur = q /\ RequestOK(q) /\ Works(thread[t], q, h) /\ Carrying(t, q)
      /\ h \in CarrierPlaces /\ t # Timer(q)
  <2>1. h \in Places \cap RequestPlaces /\ h \in CarrierPlaces
    BY DEF Submitting, Places, RequestPlaces, CarrierPlaces, CountedPlaces, UncountedPlaces
  <2>2. q \in Requests /\ thread[t].cur = q /\ Has(thread[t], h)
    BY <2>1, WorksOn
  <2>3. t = Sender(q) \/ t = Control
    BY <2>2 DEF TypeInv, ShapeInv, ShapeOK
  <2> QED BY <2>1, <2>2, <2>3, Kinds DEF Works, Carrying, RequestInv
<1>2. /\ \A u \in Threads : u # t => thread'[u] = thread[u]
      /\ Elsewhere(q)
      /\ \A p \in CarrierPlaces \cup {"cancelRelease"} : Works(thread'[t], q, p) <=> t = Control /\ p = "failedResubmit"
      /\ \A r \in Requests : r # q => owner'[r] = owner[r]
      /\ owner'[q] = IF t = Control THEN owner[q] ELSE "driver"
  <2>1. CASE t = Control
    <3>1. Begins(t, q, "failedResubmit", {"failedResubmit", "resubmit"}) /\ UNCHANGED owner
      BY <2>1, NotSubmittedMoves
    <3>2. "resubmit" \notin CarrierPlaces \cup {"cancelRelease"}
      BY DEF CarrierPlaces, CountedPlaces, UncountedPlaces
    <3> QED BY <1>1, <2>1, <3>1, <3>2 DEF Begins, Works, Elsewhere
  <2>2. CASE t # Control
    <3>1. /\ \A u \in Threads : u # t => thread'[u] = thread[u]
          /\ thread'[t].cur = q /\ \A p : ~Has(thread'[t], p)
          /\ owner' = [owner EXCEPT ![q] = "driver"]
      BY <2>2, NotSubmittedMoves
    <3> QED BY <1>1, <2>2, <3>1, Fields DEF Works, Elsewhere
  <2> QED BY <2>1, <2>2
<1>3. \A u \in Threads : \A p \in CarrierPlaces :
        Works(thread'[u], q, p) <=> u = t /\ t = Control /\ p = "failedResubmit"
  <2>1. \A u \in Threads : Carrying(u, q) => u = t
    BY <1>1 DEF RequestOK, SeatOK
  <2> QED BY <1>2, <2>1 DEF Carrying
<1>4. /\ req[q].irp = "here" /\ ~req[q].cancelRoutine /\ q \notin todo.pended /\ owner[q] = "target"
  BY <1>1 DEF RequestOK, SeatOK
<1>5. /\ "TimerSet" \notin req[q].flags /\ "Completed" \notin req[q].flags /\ ~Called(q) /\ ~Canceled(q)
      /\ req[q].list = "none"
  BY <1>1, UnsubmittedTimer
<1>6. ~Called(q)' /\ ~Canceled(q)'
  <2>1. Timer(q) \in Threads
    BY <1>1, Kinds
  <2> QED BY <1>1, <1>2, <1>5, <2>1 DEF Called, Canceled, Timer
<1>7. Cardinality(Cancelers(q)') = 0
  <2>1. Cancelers(q) = {}
    BY <1>1, CountParts, FS_EmptySet
  <2>2. Cancelers(q)' = {}
    BY <1>2, <2>1 DEF Cancelers
  <2> QED BY <2>2, FS_EmptySet
<1>8. SeatOK(q)'
  BY <1>2, <1>3, <1>4, <1>5 DEF SeatOK, Carrying
<1>9. ListOK(q)'
  BY <1>3, <1>5 DEF ListOK, CarrierPlaces, CountedPlaces, UncountedPlaces, Submitting
<1>10. ~UnderWay(q)' /\ ~TimerHolds(q)'
  BY <1>3, <1>4, <1>6 DEF UnderWay, TimerHolds, Failing, CarrierPlaces, CountedPlaces, UncountedPlaces
<1>11. TimerOK(q)'
  BY <1>5, <1>6, <1>10 DEF TimerOK
<1>12. CountOK(q)'
  BY <1>7, <1>10 DEF CountOK
<1> QED BY <1>1, <1>2, <1>8, <1>9, <1>11, <1>12, OtherRequests DEF RequestInv, RequestOK

(* What is known of a thread at a place of a submission.                    *)
LEMMA AtSubmission ==
  ASSUME TypeInv, RequestInv, NEW t \in Threads, NEW h \in Submitting \cup {"send"}, At(t, h),
         NEW q, q = Cur(t)
  PROVE  /\ q \in Requests /\ Top(thread[t]) = h /\ ~Idle(t) /\ thread[t].cur = q /\ RequestOK(q)
         /\ h \in Places /\ h \in CarrierPlaces /\ Works(thread[t], q, h) /\ Carrying(t, q)
<1>1. h \in Places \cap RequestPlaces /\ h \in CarrierPlaces
  BY DEF Submitting, Places, RequestPlaces, CarrierPlaces, CountedPlaces, UncountedPlaces
<1> QED BY <1>1, WorksOn DEF RequestInv, Works, Carrying

LEMMA SubmitRefusedRequests ==
  ASSUME TypeInv, RequestInv, NEW t \in Threads, SubmitRefused(t)
  PROVE  RequestInv'
<1>0. PICK q : q = Cur(t)
  OBVIOUS
<1>1. /\ At(t, "submit") /\ "submit" \in Submitting /\ UNCHANGED todo /\ NotSubmitted(t)
      /\ req' = [req EXCEPT ![q] = [req[q] EXCEPT !.status = "Refused"]]
  BY <1>0 DEF SubmitRefused, Submitting
<1>2. q \in Requests /\ RequestOK(q) /\ Works(thread[t], q, "submit")
  BY <1>0, <1>1, AtSubmission
<1>3. req[q].count = 0 /\ Cardinality(Cancelers(q)) = 0
  BY <1>2, CountParts DEF RequestOK, CountOK, UncountedPlaces
<1>4. /\ req'[q].count = 0 /\ req'[q].list = req[q].list /\ req'[q].irp = req[q].irp
      /\ req'[q].cancelRoutine = req[q].cancelRoutine /\ req'[q].flags = req[q].flags
      /\ \A r \in Requests : r # q => req'[r] = req[r]
  BY <1>1, <1>2, <1>3, Fields DEF Request
<1> QED BY <1>0, <1>1, <1>3, <1>4, NotSentRequests

LEMMA SubmitAcceptRequests ==
  ASSUME TypeInv, RequestInv, NEW t \in Threads, SubmitAccept(t)
  PROVE  RequestInv'
<1>0. PICK q : q = Cur(t)
  OBVIOUS
<1>f. PICK F : F = MarkIgnores(t, req[q].flags)
  OBVIOUS
<1>1. /\ At(t, "submit") /\ "submit" \in Submitting /\ UNCHANGED <<owner, todo>>
      /\ req' = [req EXCEPT ![q] = [req[q] EXCEPT !.count = 1, !.list = "none", !.flags = F]]
      /\ thread' = Jump(t, <<"submitCounted">>)
  BY <1>0, <1>f DEF SubmitAccept, Submitting
<1>2. /\ q \in Requests /\ RequestOK(q) /\ Works(thread[t], q, "submit") /\ thread[t].cur = q
      /\ Top(thread[t]) = "submit" /\ "submit" \in Places /\ "submit" \in CarrierPlaces
  BY <1>0, <1>1, AtSubmission
<1>3. /\ req'[q].count = 1 /\ req'[q].list = "none" /\ req'[q].irp = req[q].irp /\ req'[q].flags = F
      /\ req'[q].cancelRoutine = req[q].cancelRoutine /\ req'[q].options = req[q].options
      /\ \A r \in Requests : r # q => req'[r] = req[r]
  BY <1>1, <1>2, Fields DEF Request
<1>4. Steps(t, q, "submit", {"submitCounted"}) /\ Elsewhere(q)
  <2>1. /\ "submitCounted" \in Places /\ RankOf("submitCounted") <= RankOf("submit")
        /\ Proper("submit", {"submitCounted"})
    BY DEF Places, RankOf, Proper, RequestPlaces, Submitting
  <2>2. Moves(t, {"submitCounted"}, {"submitCounted"})
    BY <1>1, <1>2, <2>1, OneMoves
  <2> QED BY <1>2, <2>2, Stepped
<1>5. /\ \A u \in Threads : \A p \in CarrierPlaces : Works(thread'[u], q, p) <=> u = t /\ p = "submitCounted"
      /\ \A u \in Threads : Carrying(u, q)' => u = t
      /\ req[q].irp = "here" /\ ~req[q].cancelRoutine /\ q \notin todo.pended /\ owner[q] = "target"
      /\ (Called(q)' <=> Called(q)) /\ (Canceled(q)' <=> Canceled(q)) /\ Cancelers(q)' = Cancelers(q)
  BY <1>2, <1>4, CarrierSteps
<1>6. /\ "TimerSet" \notin req[q].flags /\ "Completed" \notin req[q].flags /\ ~Called(q) /\ ~Canceled(q)
      /\ ~TimerHolds(q)
  BY <1>1, <1>2, UnsubmittedTimer
<1>7. "TimerSet" \notin F /\ "Completed" \notin F
  BY <1>f, <1>6 DEF MarkIgnores
<1>8. t # Control /\ "IgnoreState" \in req[q].options => "IgnoreState" \in F
  BY <1>0, <1>f DEF MarkIgnores, Ignores, SendOptions
<1>9. req[q].count = 0 /\ Cardinality(Cancelers(q)) = 0
  BY <1>2, CountParts DEF RequestOK, CountOK, UncountedPlaces
<1>10. UnderWay(q)' /\ ~TimerHolds(q)' /\ ~Resending(q)'
  <2>1. UnderWay(q)'
    BY <1>5 DEF UnderWay, CarrierPlaces, CountedPlaces
  <2> QED BY <1>1, <1>5, <1>6, <2>1 DEF TimerHolds, Resending
<1>11. SeatOK(q)'
  BY <1>1, <1>3, <1>5 DEF SeatOK
<1>12. ListOK(q)'
  BY <1>3, <1>5, <1>8 DEF ListOK, CarrierPlaces, CountedPlaces, UncountedPlaces, Submitting
<1>13. TimerOK(q)'
  BY <1>3, <1>5, <1>6, <1>7 DEF TimerOK
<1>14. CountOK(q)'
  <2>1. \A u \in Threads : \A p \in UncountedPlaces : ~Works(thread'[u], q, p)
    BY <1>5 DEF CarrierPlaces, UncountedPlaces
  <2> QED BY <1>3, <1>5, <1>9, <1>10, <2>1 DEF CountOK
<1> QED BY <1>1, <1>2, <1>3, <1>4, <1>11, <1>12, <1>13, <1>14, OtherRequests DEF RequestInv, RequestOK

(* Cancelled before it was sent.                                            *)
LEMMA SubmitCancelledRequests ==
  ASSUME TypeInv, RequestInv, NEW t \in Threads, NEW h \in {"submitCounted", "submitChecked"}, At(t, h),
         SubmitCancelled(t), UNCHANGED todo
  PROVE  RequestInv'
<1>0. PICK q : q = Cur(t)
  OBVIOUS
<1>1. /\ h \in Submitting /\ h \in CountedPlaces
      /\ req' = [req EXCEPT ![q] = [req[q] EXCEPT !.count = req[q].count - 1, !.status = "Cancelled"]]
  BY <1>0 DEF SubmitCancelled, Submitting, CountedPlaces
<1>2. /\ q \in Requests /\ RequestOK(q) /\ Works(thread[t], q, h) /\ thread[t].cur = q
      /\ Top(thread[t]) = h /\ h \in Places /\ h \in CarrierPlaces /\ ~Idle(t)
  BY <1>0, <1>1, AtSubmission
<1>3. /\ req'[q].count = req[q].count - 1 /\ req'[q].list = req[q].list /\ req'[q].irp = req[q].irp
      /\ req'[q].cancelRoutine = req[q].cancelRoutine /\ req'[q].flags = req[q].flags
      /\ \A r \in Requests : r # q => req'[r] = req[r]
  BY <1>1, <1>2, Fields DEF Request
<1>4. UnderWay(q)
  BY <1>1, <1>2 DEF UnderWay
<1>5. /\ "TimerSet" \notin req[q].flags /\ "Completed" \notin req[q].flags /\ ~Called(q) /\ ~Canceled(q)
      /\ ~TimerHolds(q) /\ req[q].list = "none"
  BY <1>1, <1>2, UnsubmittedTimer
<1>6. req[q].count = 1 + Cardinality(Cancelers(q)) /\ Cardinality(Cancelers(q)) \in Nat
  BY <1>2, <1>4, <1>5, CountParts DEF RequestOK, CountOK
<1>7. CASE req[q].count = 1 /\ NotSubmitted(t)
  BY <1>0, <1>1, <1>3, <1>6, <1>7, NotSentRequests
<1>8. CASE thread' = Jump(t, <<>>) /\ UNCHANGED owner
  <2>1. Steps(t, q, h, {}) /\ Elsewhere(q)
    BY <1>2, <1>8, FewerMoves, Stepped DEF Fewer
  <2>2. /\ \A u \in Threads : \A p \in CarrierPlaces : ~Works(thread'[u], q, p)
        /\ req[q].irp = "here" /\ ~req[q].cancelRoutine /\ q \notin todo.pended /\ owner[q] = "target"
        /\ (Called(q)' <=> Called(q)) /\ (Canceled(q)' <=> Canceled(q)) /\ Cancelers(q)' = Cancelers(q)
    BY <1>2, <2>1, CarrierSteps
  <2>3. ~UnderWay(q)' /\ ~TimerHolds(q)' /\ ~Resending(q)' /\ ~Unsubmitted(q)'
    BY <1>3, <1>5, <1>8, <2>2 DEF UnderWay, TimerHolds, Resending, Failing, Unsubmitted, CarrierPlaces,
                            CountedPlaces, UncountedPlaces, Submitting
  <2>4. SeatOK(q)'
    BY <1>3, <1>8, <2>2 DEF SeatOK, Carrying
  <2>5. ListOK(q)'
    BY <1>3, <1>5, <2>2 DEF ListOK, CarrierPlaces, CountedPlaces, UncountedPlaces, Submitting
  <2>6. TimerOK(q)'
    BY <1>3, <1>5, <2>2, <2>3 DEF TimerOK
  <2>7. CountOK(q)'
    <3>1. \A u \in Threads : \A p \in UncountedPlaces : ~Works(thread'[u], q, p)
      BY <2>2 DEF CarrierPlaces
    <3> QED BY <1>3, <1>6, <2>2, <2>3, <3>1 DEF CountOK
  <2> QED BY <1>2, <1>3, <1>8, <2>1, <2>4, <2>5, <2>6, <2>7, OtherRequests DEF RequestInv, RequestOK
<1> QED BY <1>0, <1>7, <1>8 DEF SubmitCancelled

(* The IRP goes on, under way as before.                                    *)
LEMMA OnwardRequests ==
  ASSUME TypeInv, RequestInv, NEW t \in Threads, NEW h \in CountedPlaces, NEW q \in Requests, RequestOK(q),
         NEW new, Steps(t, q, h, new), Elsewhere(q), new \subseteq CountedPlaces,
         UNCHANGED owner, UNCHANGED todo, req'[q].count = req[q].count,
         "Completed" \in req'[q].flags <=> "Completed" \in req[q].flags,
         "TimerSet" \in req[q].flags => "TimerSet" \in req'[q].flags,
         new \cap Submitting # {} => "TimerSet" \notin req'[q].flags /\ ~Canceled(q),
         \/ new # {} /\ req'[q].irp = "here" /\ ~req'[q].cancelRoutine
         \/ new = {} /\ req'[q].irp = "lower" /\ ~req'[q].cancelRoutine /\ req'[q].list \in {"sent", "ignored"}
         \/ new = {} /\ req'[q].irp = "here" /\ req'[q].cancelRoutine /\ req'[q].list = "pended",
         ListOK(q)', \A r \in Requests : r # q => req'[r] = req[r]
  PROVE  RequestInv'
<1>1. h \in CarrierPlaces /\ new \subseteq CarrierPlaces /\ new \cap UncountedPlaces = {}
      /\ "timerCallback" \notin new /\ "timerCanceled" \notin new /\ "cancelRelease" \notin new
  BY DEF CarrierPlaces, CountedPlaces, UncountedPlaces
<1>2. /\ \A u \in Threads : \A p \in CarrierPlaces : Works(thread'[u], q, p) <=> u = t /\ p \in new
      /\ \A u \in Threads : Carrying(u, q)' <=> u = t /\ new # {}
      /\ q \notin todo.pended /\ owner[q] = "target"
      /\ (Called(q)' <=> Called(q)) /\ (Canceled(q)' <=> Canceled(q)) /\ Cancelers(q)' = Cancelers(q)
  BY <1>1, CarrierSteps
<1>3. UnderWay(q)
  BY <1>1, StepSeats DEF UnderWay, Steps, CarrierPlaces, CountedPlaces
<1>4. UnderWay(q)'
  BY <1>1, <1>2 DEF UnderWay
<1>6. TimerHolds(q)' <=> TimerHolds(q)
  BY <1>2 DEF TimerHolds
<1>7. SeatOK(q)'
  BY <1>2 DEF SeatOK
<1>8. TimerOK(q)'
  <2>1. Unsubmitted(q)' => new \cap Submitting # {}
    BY <1>1, <1>2 DEF Unsubmitted, Resending, CarrierPlaces, CountedPlaces, UncountedPlaces, Submitting
  <2>2. "Completed" \notin req[q].flags
    BY <1>3 DEF RequestOK, TimerOK
  <2> QED BY <1>2, <1>3, <1>4, <2>1, <2>2 DEF RequestOK, TimerOK
<1>9. CountOK(q)'
  <2>1. ~Resending(q)' /\ \A u \in Threads : \A p \in UncountedPlaces : ~Works(thread'[u], q, p)
    BY <1>1, <1>2 DEF CarrierPlaces, Resending
  <2> QED BY <1>2, <1>3, <1>4, <1>6, <2>1 DEF RequestOK, CountOK
<1> QED BY <1>7, <1>8, <1>9, OtherRequests DEF RequestInv, RequestOK

LEMMA SubmitCheckRequests ==
  ASSUME TypeInv, RequestInv, NEW t \in Threads, SubmitCheckCanceled(t)
  PROVE  RequestInv'
<1>0. PICK q : q = Cur(t)
  OBVIOUS
<1>1. /\ At(t, "submitCounted") /\ "submitCounted" \in Submitting /\ UNCHANGED todo
      /\ "submitCounted" \in CountedPlaces /\ "submitChecked" \in CountedPlaces
  BY DEF SubmitCheckCanceled, Submitting, CountedPlaces
<1>2. /\ q \in Requests /\ RequestOK(q) /\ Works(thread[t], q, "submitCounted") /\ thread[t].cur = q
      /\ Top(thread[t]) = "submitCounted" /\ "submitCounted" \in Places
      /\ "submitCounted" \in CarrierPlaces
  BY <1>0, <1>1, AtSubmission
<1>3. CASE SubmitCancelled(t)
  BY <1>1, <1>3, SubmitCancelledRequests
<1>4. CASE thread' = Jump(t, <<"submitChecked">>) /\ UNCHANGED <<target, lock, req, owner>>
  <2>1. Steps(t, q, "submitCounted", {"submitChecked"}) /\ Elsewhere(q)
    <3>1. /\ "submitChecked" \in Places /\ RankOf("submitChecked") <= RankOf("submitCounted")
          /\ Proper("submitCounted", {"submitChecked"})
      BY DEF Places, RankOf, Proper, RequestPlaces, Submitting
    <3>2. Moves(t, {"submitChecked"}, {"submitChecked"})
      BY <1>1, <1>2, <1>4, <3>1, OneMoves
    <3> QED BY <1>2, <3>2, Stepped
  <2>2. "TimerSet" \notin req[q].flags /\ ~Canceled(q)
    BY <1>1, <1>2, UnsubmittedTimer
  <2>3. /\ \A u \in Threads : \A p \in CarrierPlaces : Works(thread'[u], q, p) <=> u = t /\ p = "submitChecked"
        /\ req[q].irp = "here" /\ ~req[q].cancelRoutine
    BY <1>2, <2>1, CarrierSteps
  <2>4. ListOK(q)'
    BY <1>2, <1>4, <2>3 DEF RequestOK, ListOK, CarrierPlaces, CountedPlaces, UncountedPlaces, Submitting
  <2> QED BY <1>1, <1>2, <1>4, <2>1, <2>2, <2>3, <2>4, OnwardRequests
<1> QED BY <1>3, <1>4 DEF SubmitCheckCanceled

LEMMA SubmitSendRequests ==
  ASSUME TypeInv, RequestInv, NEW t \in Threads, SubmitSend(t)
  PROVE  RequestInv'
<1>0. PICK q : q = Cur(t)
  OBVIOUS
<1>f. PICK F : F = StartTimer(t, req[q].flags)
  OBVIOUS
<1>l. PICK l : l = IF Ignores(t) THEN "ignored" ELSE "sent"
  OBVIOUS
<1>1. /\ At(t, "submitChecked") /\ "submitChecked" \in Submitting /\ UNCHANGED <<owner, todo>>
      /\ req' = [req EXCEPT ![q] = [req[q] EXCEPT !.list = l, !.flags = F]]
      /\ thread' = Jump(t, <<"send">>)
      /\ "submitChecked" \in CountedPlaces /\ "send" \in CountedPlaces
  BY <1>0, <1>f, <1>l DEF SubmitSend, Submitting, CountedPlaces
<1>2. /\ q \in Requests /\ RequestOK(q) /\ Works(thread[t], q, "submitChecked") /\ thread[t].cur = q
      /\ Top(thread[t]) = "submitChecked" /\ "submitChecked" \in Places
      /\ "submitChecked" \in CarrierPlaces
  BY <1>0, <1>1, AtSubmission
<1>3. /\ req'[q].count = req[q].count /\ req'[q].list = l /\ req'[q].irp = req[q].irp /\ req'[q].flags = F
      /\ req'[q].options = req[q].options
      /\ req'[q].cancelRoutine = req[q].cancelRoutine
      /\ \A r \in Requests : r # q => req'[r] = req[r]
  BY <1>1, <1>2, Fields DEF Request
<1>4. Steps(t, q, "submitChecked", {"send"}) /\ Elsewhere(q)
  <2>1. /\ "send" \in Places /\ RankOf("send") <= RankOf("submitChecked")
        /\ Proper("submitChecked", {"send"})
    BY DEF Places, RankOf, Proper, RequestPlaces, Submitting
  <2>2. Moves(t, {"send"}, {"send"})
    BY <1>1, <1>2, <2>1, OneMoves
  <2> QED BY <1>2, <2>2, Stepped
<1>5. /\ \A u \in Threads : \A p \in CarrierPlaces : Works(thread'[u], q, p) <=> u = t /\ p = "send"
      /\ req[q].irp = "here" /\ ~req[q].cancelRoutine
  BY <1>2, <1>4, CarrierSteps
<1>6. /\ "Completed" \in F <=> "Completed" \in req[q].flags
      /\ req[q].flags \subseteq F
  BY <1>f DEF StartTimer
<1>7. l = "ignored" => "IgnoreState" \in F /\ "IgnoreState" \in req[q].options
  <2>1. l = "ignored" => t # Control /\ "IgnoreState" \in req[q].options
    BY <1>0, <1>l DEF Ignores, SendOptions
  <2> QED BY <1>2, <1>6, <2>1 DEF RequestOK, ListOK
<1>8. ListOK(q)'
  BY <1>l, <1>3, <1>5, <1>7 DEF ListOK, CarrierPlaces, CountedPlaces, UncountedPlaces, Submitting
<1>9. {"send"} \subseteq CountedPlaces /\ {"send"} \cap Submitting = {}
  BY DEF CountedPlaces, Submitting
<1> QED BY <1>1, <1>2, <1>3, <1>4, <1>5, <1>6, <1>8, <1>9, OnwardRequests

LEMMA PendRequests ==
  ASSUME TypeInv, RequestInv, NEW t \in Threads, PendRequestLocked(t)
  PROVE  RequestInv'
<1>0. PICK q : q = Cur(t)
  OBVIOUS
<1>f. PICK F : F = StartTimer(t, req[q].flags)
  OBVIOUS
<1>1. /\ At(t, "submitChecked") /\ "submitChecked" \in Submitting /\ UNCHANGED todo
      /\ "submitChecked" \in CountedPlaces
  BY DEF PendRequestLocked, Submitting, CountedPlaces
<1>2. /\ q \in Requests /\ RequestOK(q) /\ Works(thread[t], q, "submitChecked") /\ thread[t].cur = q
      /\ Top(thread[t]) = "submitChecked" /\ "submitChecked" \in Places /\ ~Idle(t)
      /\ "submitChecked" \in CarrierPlaces
  BY <1>0, <1>1, AtSubmission
<1>3. CASE SubmitCancelled(t)
  BY <1>1, <1>3, SubmitCancelledRequests
<1>4. CASE /\ req' = [req EXCEPT ![q] = [req[q] EXCEPT !.list = "pended", !.cancelRoutine = TRUE, !.flags = F]]
           /\ thread' = Jump(t, <<>>) /\ UNCHANGED owner
  <2>1. Steps(t, q, "submitChecked", {}) /\ Elsewhere(q)
    BY <1>2, <1>4, FewerMoves, Stepped DEF Fewer
  <2>2. /\ req'[q].count = req[q].count /\ req'[q].list = "pended" /\ req'[q].irp = req[q].irp
        /\ req'[q].flags = F /\ req'[q].cancelRoutine = TRUE
        /\ \A r \in Requests : r # q => req'[r] = req[r]
    BY <1>2, <1>4, Fields DEF Request
  <2>3. /\ \A u \in Threads : \A p \in CarrierPlaces : ~Works(thread'[u], q, p)
        /\ req[q].irp = "here"
    BY <1>2, <2>1, CarrierSteps
  <2>4. /\ "Completed" \in F <=> "Completed" \in req[q].flags
        /\ req[q].flags \subseteq F
    BY <1>f DEF StartTimer
  <2>5. ListOK(q)'
    BY <2>2, <2>3 DEF ListOK, CarrierPlaces, CountedPlaces, UncountedPlaces, Submitting
  <2> QED BY <1>1, <1>2, <1>4, <2>1, <2>2, <2>3, <2>4, <2>5, OnwardRequests
<1> QED BY <1>0, <1>f, <1>3, <1>4 DEF PendRequestLocked

LEMMA SendRequests ==
  ASSUME TypeInv, RequestInv, NEW t \in Threads, Send(t)
  PROVE  RequestInv'
<1>0. PICK q : q = Cur(t)
  OBVIOUS
<1>1. /\ At(t, "send") /\ UNCHANGED owner /\ UNCHANGED todo /\ thread' = Jump(t, <<>>)
      /\ req' = [req EXCEPT ![q] = [req[q] EXCEPT !.irp = "lower"]]
      /\ "send" \in CountedPlaces
  BY <1>0 DEF Send, CountedPlaces
<1>2. /\ q \in Requests /\ RequestOK(q) /\ Works(thread[t], q, "send") /\ thread[t].cur = q
      /\ Top(thread[t]) = "send" /\ "send" \in Places /\ ~Idle(t) /\ "send" \in CarrierPlaces
  BY <1>0, <1>1, AtSubmission
<1>3. Steps(t, q, "send", {}) /\ Elsewhere(q)
  BY <1>1, <1>2, FewerMoves, Stepped DEF Fewer
<1>4. /\ req'[q].count = req[q].count /\ req'[q].list = req[q].list /\ req'[q].irp = "lower"
      /\ req'[q].flags = req[q].flags /\ req'[q].options = req[q].options
      /\ req'[q].cancelRoutine = req[q].cancelRoutine
      /\ \A r \in Requests : r # q => req'[r] = req[r]
  BY <1>1, <1>2, Fields DEF Request
<1>5. /\ \A u \in Threads : \A p \in CarrierPlaces : ~Works(thread'[u], q, p)
      /\ ~req[q].cancelRoutine
  BY <1>2, <1>3, CarrierSteps
<1>6. /\ req[q].list \in {"sent", "ignored"}
      /\ req[q].list = "ignored" => "IgnoreState" \in req[q].flags /\ "IgnoreState" \in req[q].options
  BY <1>2 DEF RequestOK, ListOK
<1>7. ListOK(q)'
  BY <1>4, <1>5, <1>6 DEF ListOK, CarrierPlaces, CountedPlaces, UncountedPlaces, Submitting
<1> QED BY <1>1, <1>2, <1>3, <1>4, <1>5, <1>6, <1>7, OnwardRequests

-----------------------------------------------------------------------------
(* What comes from outside.                                                 *)

LEMMA RequestSendRequests ==
  ASSUME TypeInv, RequestInv, NEW q \in Requests, RequestSend(q)
  PROVE  RequestInv'
<1> DEFINE t == Sender(q)
<1>1. /\ owner[q] = "driver" /\ Idle(t) /\ t \in Threads /\ RequestOK(q) /\ UNCHANGED todo
      /\ owner' = [owner EXCEPT ![q] = "target"]
  BY Kinds DEF RequestSend, RequestInv
<1>2. PICK o \in SUBSET Options : req' = [req EXCEPT ![q] = Reused(q, o)]
  <2>1. plan.sends[q] \in Seq(SUBSET Options) /\ plan.sends[q] # <<>>
    BY TypeParts DEF RestOK, RequestSend
  <2>2. Head(plan.sends[q]) \in SUBSET Options
    BY <2>1
  <2>3. req' = [req EXCEPT ![q] = Reused(q, Head(plan.sends[q]))]
    BY DEF RequestSend
  <2> QED BY <2>2, <2>3
<1>3. /\ req'[q].count = 0 /\ req'[q].list = "none" /\ req'[q].irp = "here"
      /\ "TimerSet" \notin req'[q].flags /\ "Completed" \notin req'[q].flags
      /\ ~req'[q].cancelRoutine /\ owner'[q] = "target"
      /\ \A r \in Requests : r # q => req'[r] = req[r] /\ owner'[r] = owner[r]
  <2>1. Unsubmitted(q)
    BY <1>1 DEF Unsubmitted
  <2>2. /\ req[q].count = 0 /\ req[q].list = "none" /\ req[q].irp = "here" /\ ~req[q].cancelRoutine
        /\ "TimerSet" \notin req[q].flags /\ "Completed" \notin req[q].flags
    BY <1>1, <2>1, Fields DEF RequestOK, SeatOK, TimerOK, Request
  <2> QED BY <1>1, <1>2, <2>2, Fields DEF Reused, Request
<1>4. PICK new \in {{"submit"}, {"submit", "wait"}} : Steps(t, q, "idle", new) /\ Elsewhere(q)
  BY <1>1, SendTypes, Begun
<1>5. ~UnderWay(q) /\ ~TimerHolds(q) /\ Cardinality(Cancelers(q)) = 0
  BY <1>1, CountParts DEF RequestOK, SeatOK, CountOK
<1>6. ~Called(q) /\ ~Canceled(q)
  BY <1>1, <1>5 DEF TimerHolds, RequestOK, TimerOK
<1>7. q \notin todo.pended /\ \A u \in Threads : ~Carrying(u, q)
  BY <1>1 DEF RequestOK, SeatOK
<1>8. /\ \A u \in Threads : \A p \in CarrierPlaces : Works(thread'[u], q, p) <=> u = t /\ p = "submit"
      /\ ~Called(q)' /\ ~Canceled(q)' /\ Cancelers(q)' = Cancelers(q)
  <2>1. "wait" \notin CarrierPlaces
    BY DEF CarrierPlaces, CountedPlaces, UncountedPlaces
  <2>2. \A p \in CarrierPlaces : Works(thread'[t], q, p) <=> p = "submit"
    BY <1>1, <1>4, <2>1, StepSeats DEF CarrierPlaces, UncountedPlaces
  <2>3. \A u \in Threads : u # t => \A p \in CarrierPlaces : ~Works(thread'[u], q, p)
    BY <1>1, <1>4, <1>7, StepSeats DEF Carrying
  <2> QED BY <1>1, <1>4, <1>6, <2>2, <2>3, StepTimer, StepCancelers
<1>9. SeatOK(q)'
  BY <1>1, <1>3, <1>7, <1>8 DEF SeatOK, Carrying
<1>10. ListOK(q)'
  BY <1>3, <1>8 DEF ListOK, CarrierPlaces, CountedPlaces, UncountedPlaces, Submitting
<1>11. ~UnderWay(q)' /\ ~TimerHolds(q)'
  BY <1>1, <1>3, <1>7, <1>8 DEF UnderWay, TimerHolds, Failing, CarrierPlaces, CountedPlaces, UncountedPlaces
<1>12. TimerOK(q)'
  BY <1>3, <1>8, <1>11 DEF TimerOK
<1>13. CountOK(q)'
  BY <1>3, <1>5, <1>8, <1>11 DEF CountOK
<1> QED BY <1>1, <1>3, <1>4, <1>9, <1>10, <1>12, <1>13, OtherRequests DEF RequestInv, RequestOK

LEMMA LowerRequests ==
  ASSUME TypeInv, RequestInv, NEW q \in Requests, LowerCompletes(q)
  PROVE  RequestInv'
<1> DEFINE t == Lower(q)
<1>1. /\ req[q].irp = "lower" /\ Idle(t) /\ t \in Threads /\ t[2] = q /\ RequestOK(q)
      /\ UNCHANGED <<owner, todo>> /\ thread' = Begin(t, q, <<"completion">>)
  BY Kinds DEF LowerCompletes, RequestInv
<1>2. PICK s : req' = [req EXCEPT ![q] = [req[q] EXCEPT !.irp = "here", !.status = s]]
  BY DEF LowerCompletes
<1>3. /\ req'[q].count = req[q].count /\ req'[q].list = req[q].list /\ req'[q].flags = req[q].flags
      /\ req'[q].irp = "here" /\ req'[q].cancelRoutine = req[q].cancelRoutine
      /\ req'[q].options = req[q].options
      /\ \A r \in Requests : r # q => req'[r] = req[r]
  BY <1>2, Fields DEF Request
<1>4. Steps(t, q, "idle", {"completion"}) /\ Elsewhere(q)
  <2>1. Begins(t, q, "completion", {"completion"})
    BY <1>1, BeginMoves
  <2> QED BY <1>1, <2>1, Begun
<1>5. /\ \A u \in Threads : ~Carrying(u, q)
      /\ req[q].list \in {"sent", "ignored"} /\ ~req[q].cancelRoutine /\ q \notin todo.pended /\ owner[q] = "target"
  BY <1>1 DEF RequestOK, SeatOK
<1>6. /\ \A u \in Threads : \A p \in CarrierPlaces : Works(thread'[u], q, p) <=> u = t /\ p = "completion"
      /\ (Called(q)' <=> Called(q)) /\ (Canceled(q)' <=> Canceled(q)) /\ Cancelers(q)' = Cancelers(q)
  <2>1. \A p \in CarrierPlaces : Works(thread'[t], q, p) <=> p = "completion"
    BY <1>1, <1>4, StepSeats
  <2>2. \A u \in Threads : u # t => \A p \in CarrierPlaces : ~Works(thread'[u], q, p)
    BY <1>1, <1>4, <1>5, StepSeats DEF Carrying
  <2> QED BY <1>1, <1>4, <2>1, <2>2, StepTimer, StepCancelers
<1>7. UnderWay(q) /\ UnderWay(q)' /\ ~Unsubmitted(q)' /\ ~Resending(q)' /\ (TimerHolds(q)' <=> TimerHolds(q))
  <2>1. UnderWay(q)'
    BY <1>1, <1>6 DEF UnderWay, CarrierPlaces, CountedPlaces
  <2> QED BY <1>1, <1>3, <1>5, <1>6, <2>1 DEF UnderWay, Unsubmitted, Resending, TimerHolds, CarrierPlaces,
              CountedPlaces, UncountedPlaces, Submitting
<1>8. SeatOK(q)'
  BY <1>1, <1>3, <1>5, <1>6 DEF SeatOK, Carrying
<1>9. ListOK(q)'
  BY <1>1, <1>3, <1>5, <1>6 DEF RequestOK, ListOK, CarrierPlaces, CountedPlaces, UncountedPlaces, Submitting
<1>10. TimerOK(q)'
  BY <1>1, <1>3, <1>6, <1>7 DEF RequestOK, TimerOK
<1>11. CountOK(q)'
  <2>1. \A u \in Threads : \A p \in UncountedPlaces : ~Works(thread'[u], q, p)
    BY <1>6 DEF CarrierPlaces, UncountedPlaces
  <2> QED BY <1>1, <1>3, <1>6, <1>7, <2>1 DEF RequestOK, CountOK
<1> QED BY <1>1, <1>3, <1>4, <1>8, <1>9, <1>10, <1>11, OtherRequests DEF RequestInv, RequestOK

LEMMA CancelSentRequestRequests ==
  ASSUME TypeInv, RequestInv, NEW q \in Requests, CancelSentRequest(q)
  PROVE  RequestInv'
<1>1. /\ Idle(Canceller) /\ Canceller \in Threads /\ UNCHANGED req /\ UNCHANGED owner /\ UNCHANGED todo
      /\ thread' = Begin(Canceller, q, <<"cancel">>)
  BY Kinds DEF CancelSentRequest
<1>2. Steps(Canceller, q, "idle", {"cancel"}) /\ Elsewhere(q)
  <2>1. Begins(Canceller, q, "cancel", {"cancel"})
    BY <1>1, BeginMoves
  <2> QED BY <1>1, <2>1, Begun
<1>3. \A r \in Requests : Same(r)
  <2>1. "idle" \notin TrackedPlaces /\ {"cancel"} \cap TrackedPlaces = {}
    BY Apart
  <2> QED BY <1>1, <1>2, <2>1, Untracked
<1> QED BY <1>3, NoRequests DEF RequestInv

-----------------------------------------------------------------------------
(* The control thread's loops.                                              *)

(* A place it returns to from its loops is not one of a request.            *)
LEMMA LoopPlaces ==
  ASSUME TypeInv, NEW h \in {"resubmit", "failPended", "cancelSent"}, Top(thread[Control]) = h
  PROVE  \A p \in TrackedPlaces : ~Has(thread[Control], p)
<1>1. Control \in Threads /\ h # "idle" /\ RankOf(h) >= 5
  BY Kinds DEF RankOf
<1>2. \A p : Has(thread[Control], p) => p = h \/ (RankOf(h) < RankOf(p) /\ p \in Beneath)
  BY <1>1, TypeParts, TopOfStack
<1>3. \A p \in TrackedPlaces : p # h /\ RankOf(p) <= 5 /\ RankOf(p) \in 0..9
  BY RankType DEF TrackedPlaces, CarrierPlaces, CountedPlaces, UncountedPlaces, RankOf
<1>4. RankOf(h) \in 0..9
  BY RankType
<1> QED BY <1>1, <1>2, <1>3, <1>4

(* It takes up q at p0, whatever it worked on before.                       *)
Hands(q, p0) ==
  \A r \in Requests : \A u \in Threads : \A p \in TrackedPlaces :
    Works(thread'[u], r, p) <=> Works(thread[u], r, p) \/ (u = Control /\ r = q /\ p = p0)

LEMMA PendedRequests ==
  ASSUME TypeInv, RequestInv, NEW q \in Requests, q \in todo.pended,
         todo' = [todo EXCEPT !.pended = @ \ {q}], NEW p0 \in {"submit", "completion"}, Hands(q, p0),
         p0 = "submit" <=> todo.op = "Start", UNCHANGED owner,
         req'[q].count = req[q].count, req'[q].list = req[q].list, req'[q].irp = req[q].irp,
         req'[q].cancelRoutine = req[q].cancelRoutine, req'[q].flags = req[q].flags,
         \A r \in Requests : r # q => req'[r] = req[r]
  PROVE  RequestInv'
<1>1. /\ Control \in Threads /\ RequestOK(q) /\ p0 \in CarrierPlaces /\ p0 \in TrackedPlaces
      /\ CarrierPlaces \subseteq TrackedPlaces /\ {"timerCallback", "timerCanceled", "cancelRelease"} \subseteq TrackedPlaces
      /\ Timer(q) \in Threads /\ Timer(q) # Control
  BY Kinds DEF RequestInv, TrackedPlaces, CarrierPlaces, CountedPlaces, UncountedPlaces
<1>2. todo'.pended = todo.pended \ {q} /\ todo'.op = todo.op
  BY TypeParts DEF RestOK
<1>3. ASSUME NEW r \in Requests, r # q
      PROVE  RequestOK(r)'
  <2>1. Same(r)
    BY <1>2, <1>3 DEF Same, Hands
  <2> QED BY <2>1, SameRequest DEF RequestInv
<1>4. /\ \A u \in Threads : ~Carrying(u, q)
      /\ req[q].irp # "lower" /\ ~req[q].cancelRoutine /\ owner[q] = "target" /\ req[q].list = "none"
  BY <1>1 DEF RequestOK, SeatOK
<1>5. req[q].irp = "here"
  BY <1>4, Fields DEF Request
<1>6. /\ \A u \in Threads : \A p \in CarrierPlaces : Works(thread'[u], q, p) <=> u = Control /\ p = p0
      /\ (Called(q)' <=> Called(q)) /\ (Canceled(q)' <=> Canceled(q)) /\ Cancelers(q)' = Cancelers(q)
  <2>1. \A u \in Threads : \A p \in CarrierPlaces : Works(thread'[u], q, p) <=> u = Control /\ p = p0
    BY <1>1, <1>4 DEF Hands, Carrying
  <2>2. \A u \in Threads : \A p \in {"timerCallback", "timerCanceled", "cancelRelease"} :
          Works(thread'[u], q, p) <=> Works(thread[u], q, p)
    BY <1>1 DEF Hands
  <2> QED BY <1>1, <2>1, <2>2 DEF Called, Canceled, Cancelers, Timer
<1>7. (TimerHolds(q)' <=> TimerHolds(q)) /\ q \notin todo'.pended /\ owner'[q] = "target"
  BY <1>2, <1>4, <1>6 DEF TimerHolds
<1>8. SeatOK(q)'
  BY <1>1, <1>4, <1>5, <1>6, <1>7 DEF SeatOK, Carrying
<1>9. ListOK(q)'
  BY <1>4, <1>6 DEF ListOK, CarrierPlaces, CountedPlaces, UncountedPlaces, Submitting
<1>10. CASE p0 = "submit"
  <2>1. Resending(q) /\ Unsubmitted(q)
    BY <1>10 DEF Resending, Unsubmitted
  <2>2. /\ req[q].count = 0 /\ "TimerSet" \notin req[q].flags /\ "Completed" \notin req[q].flags /\ ~Canceled(q)
        /\ ~Called(q)
    BY <1>1, <2>1 DEF RequestOK, TimerOK, CountOK
  <2>3. ~UnderWay(q) /\ ~TimerHolds(q) /\ Cardinality(Cancelers(q)) = 0
    BY <1>1, <2>2, CountParts DEF RequestOK, CountOK
  <2>4. ~UnderWay(q)'
    BY <1>4, <1>5, <1>6, <1>7, <1>10 DEF UnderWay, Failing, CarrierPlaces, CountedPlaces
  <2>5. TimerOK(q)'
    BY <1>6, <2>2, <2>4 DEF TimerOK
  <2>6. CountOK(q)'
    BY <1>6, <1>7, <2>2, <2>3, <2>4 DEF CountOK
  <2> QED BY <1>3, <1>8, <1>9, <2>5, <2>6 DEF RequestInv, RequestOK
<1>11. CASE p0 = "completion"
  <2>1. UnderWay(q)
    BY <1>11 DEF UnderWay, Failing
  <2>2. UnderWay(q)'
    BY <1>1, <1>6, <1>11 DEF UnderWay, CountedPlaces
  <2>3. ~Unsubmitted(q)' /\ ~Resending(q)' /\ \A u \in Threads : \A p \in UncountedPlaces : ~Works(thread'[u], q, p)
    BY <1>6, <1>7, <1>11 DEF Unsubmitted, Resending, CarrierPlaces, UncountedPlaces, CountedPlaces, Submitting
  <2>4. TimerOK(q)'
    BY <1>1, <1>6, <2>1, <2>2, <2>3 DEF RequestOK, TimerOK
  <2>5. CountOK(q)'
    BY <1>1, <1>6, <1>7, <2>1, <2>2, <2>3 DEF RequestOK, CountOK
  <2> QED BY <1>3, <1>8, <1>9, <2>4, <2>5 DEF RequestInv, RequestOK
<1> QED BY <1>10, <1>11

(* A loop that is done.                                                     *)
LEMMA LoopDone ==
  ASSUME TypeInv, RequestInv, NEW h, Top(thread[Control]) = h, NEW new \in {{}, {"waited"}},
         NEW tops, Moves(Control, tops, new),
         h \in {"resubmit", "resubmitted", "failPended", "cancelSent", "waitSent", "waited", "dispose", "waitDispose"},
         UNCHANGED req, UNCHANGED owner, UNCHANGED todo
  PROVE  RequestInv'
<1>1. Control \in Threads /\ h \in Places /\ h \notin TrackedPlaces /\ new \cap TrackedPlaces = {}
  BY Kinds, Apart DEF Places
<1>2. Steps(Control, thread[Control].cur, h, new) /\ Elsewhere(thread[Control].cur)
  BY <1>1, Stepped
<1>3. \A r \in Requests : Same(r)
  BY <1>1, <1>2, Untracked
<1> QED BY <1>3, NoRequests DEF RequestInv

LEMMA ResubmitRequests ==
  ASSUME TypeInv, RequestInv, SubmitPendedRequest, todo.op = "Start"
  PROVE  RequestInv'
<1>1. Top(thread[Control]) = "resubmit" /\ UNCHANGED req /\ UNCHANGED owner
  BY ResubmitTypes DEF SubmitPendedRequest
<1>2. ASSUME NEW q \in todo.pended, todo' = [todo EXCEPT !.pended = @ \ {q}],
             Begins(Control, q, "submit", {"submit", "resubmitted", "resubmit"})
      PROVE  RequestInv'
  <2>1. q \in Requests
    BY TypeParts DEF RestOK
  <2>2. \A p \in TrackedPlaces : ~Has(thread[Control], p)
    BY <1>1, LoopPlaces
  <2>3. "resubmitted" \notin TrackedPlaces /\ "resubmit" \notin TrackedPlaces
    BY Apart
  <2>4. Hands(q, "submit")
    BY <1>2, <2>2, <2>3 DEF Begins, Hands, Works
  <2> QED BY <1>1, <1>2, <2>1, <2>4, PendedRequests
<1>3. CASE Fewer(Control) /\ UNCHANGED todo
  BY <1>1, <1>3, LoopDone DEF Fewer
<1> QED BY <1>2, <1>3, ResubmitTypes

LEMMA FailPendedRequests ==
  ASSUME TypeInv, RequestInv, FailPendedRequest, todo.op # "Start"
  PROVE  RequestInv'
<1>1. Top(thread[Control]) = "failPended" /\ UNCHANGED owner
  BY FailPendedTypes DEF FailPendedRequest
<1>2. ASSUME NEW q \in todo.pended, todo' = [todo EXCEPT !.pended = @ \ {q}], Calls(q, "completion"),
             req' = [req EXCEPT ![q].status = "NotSent"]
      PROVE  RequestInv'
  <2>1. q \in Requests
    BY TypeParts DEF RestOK
  <2>2. \A p \in TrackedPlaces : ~Has(thread[Control], p)
    BY <1>1, LoopPlaces
  <2>3. Hands(q, "completion")
    BY <1>2, <2>2 DEF Calls, Hands, Works
  <2>4. /\ req'[q].count = req[q].count /\ req'[q].list = req[q].list /\ req'[q].irp = req[q].irp
        /\ req'[q].cancelRoutine = req[q].cancelRoutine /\ req'[q].flags = req[q].flags
        /\ \A r \in Requests : r # q => req'[r] = req[r]
    BY <1>2, <2>1, Fields DEF Request
  <2> QED BY <1>1, <1>2, <2>1, <2>3, <2>4, PendedRequests
<1>3. CASE Fewer(Control) /\ UNCHANGED <<todo, req>>
  BY <1>1, <1>3, LoopDone DEF Fewer
<1> QED BY <1>2, <1>3, FailPendedTypes

LEMMA CancelSentRequestsKept ==
  ASSUME TypeInv, RequestInv, CancelSentRequests
  PROVE  RequestInv'
<1>1. Top(thread[Control]) = "cancelSent" /\ UNCHANGED req /\ UNCHANGED owner
  BY CancelSentTypes DEF CancelSentRequests
<1>2. ASSUME NEW q \in Requests, Calls(q, "cancel"), todo' = [todo EXCEPT !.sent = @ \ {q}]
      PROVE  RequestInv'
  <2>1. \A p \in TrackedPlaces : ~Has(thread[Control], p) /\ p # "cancel"
    BY <1>1, LoopPlaces, Apart
  <2>2. todo'.pended = todo.pended /\ todo'.op = todo.op
    BY <1>2, TypeParts DEF RestOK
  <2>3. \A r \in Requests : Same(r)
    BY <1>1, <1>2, <2>1, <2>2 DEF Calls, Same, Works
  <2> QED BY <2>3, NoRequests DEF RequestInv
<1>3. CASE Fewer(Control) /\ UNCHANGED todo
  BY <1>1, <1>3, LoopDone DEF Fewer
<1> QED BY <1>2, <1>3, CancelSentTypes

LEMMA WaitRequests ==
  ASSUME TypeInv, RequestInv,
         Resubmitted \/ WaitForSentIoToComplete \/ WaitEnds \/ WaitForDisposeEvent
  PROVE  RequestInv'
<1>1. PICK h \in {"resubmitted", "waitSent", "waited", "dispose", "waitDispose"} : At(Control, h)
  BY DEF Resubmitted, WaitForSentIoToComplete, WaitEnds, WaitForDisposeEvent
<1>2. Top(thread[Control]) = h
  <2>1. h \in Places
    BY DEF Places
  <2> QED BY <1>1, <2>1, Kinds, WorksOn
<1>3. UNCHANGED req /\ UNCHANGED owner /\ UNCHANGED todo
  BY DEF Resubmitted, WaitForSentIoToComplete, WaitEnds, WaitForDisposeEvent
<1>4. CASE Fewer(Control)
  BY <1>2, <1>3, <1>4, LoopDone DEF Fewer
<1>5. CASE Moves(Control, {"waited"}, {"waited"})
  BY <1>2, <1>3, <1>5, LoopDone
<1> QED BY <1>4, <1>5, WaitTypes

-----------------------------------------------------------------------------
(* The operations. The control thread begins with no request.               *)

Unmoved ==
  \A r \in Requests : \A u \in Threads : \A p : Works(thread'[u], r, p) <=> Works(thread[u], r, p)

LEMMA OperationUnmoved ==
  ASSUME TypeInv, Idle(Control), NEW top, NEW new, Begins(Control, NoRequest, top, new)
  PROVE  Unmoved
<1>1. Control \in Threads /\ NoRequest \notin Requests
  BY Kinds, TargetAssumption
<1>2. \A p : ~Has(thread[Control], p)
  BY <1>1, TypeParts, TopOfStack
<1> QED BY <1>1, <1>2 DEF Begins, Unmoved, Works

(* The places are as they were.                                             *)
LEMMA UnmovedPlaces ==
  ASSUME TypeInv, NEW r \in Requests, Unmoved, RequestOK(r), req[r].cancelRoutine
  PROVE  /\ \A u \in Threads : \A p \in CarrierPlaces : ~Works(thread'[u], r, p)
         /\ \A u \in Threads : ~Carrying(u, r)'
         /\ (Called(r)' <=> Called(r)) /\ (Canceled(r)' <=> Canceled(r)) /\ Cancelers(r)' = Cancelers(r)
         /\ UnderWay(r) /\ req[r].irp = "here" /\ owner[r] = "target" /\ "Completed" \notin req[r].flags
<1>1. Timer(r) \in Threads /\ req[r].irp \in {"here", "lower"}
  BY Kinds, Fields DEF Request
<1>2. \A u \in Threads : ~Carrying(u, r)
  BY DEF RequestOK, SeatOK
<1>3. /\ \A u \in Threads : \A p \in CarrierPlaces : ~Works(thread'[u], r, p)
      /\ \A u \in Threads : ~Carrying(u, r)'
  BY <1>2 DEF Unmoved, Carrying
<1>4. (Called(r)' <=> Called(r)) /\ (Canceled(r)' <=> Canceled(r)) /\ Cancelers(r)' = Cancelers(r)
  BY <1>1 DEF Unmoved, Called, Canceled, Cancelers, Timer
<1>5. UnderWay(r) /\ req[r].irp = "here" /\ owner[r] = "target"
  BY <1>1 DEF UnderWay, RequestOK, SeatOK
<1>6. "Completed" \notin req[r].flags
  BY <1>5 DEF RequestOK, TimerOK
<1> QED BY <1>3, <1>4, <1>5, <1>6

(* Taken off the queue to fail it,                                          *)
LEMMA DrainedFails ==
  ASSUME TypeInv, NEW r \in Requests, Unmoved, RequestOK(r), req[r].cancelRoutine,
         req'[r] = [req[r] EXCEPT !.list = "none", !.cancelRoutine = FALSE], UNCHANGED owner,
         r \in todo'.pended, todo'.op # "Start"
  PROVE  RequestOK(r)'
<1>1. /\ req'[r].list = "none" /\ req'[r].cancelRoutine = FALSE /\ req'[r].count = req[r].count
      /\ req'[r].flags = req[r].flags /\ req'[r].irp = req[r].irp
  BY Fields DEF Request
<1>2. UnderWay(r)' /\ ~Resending(r)' /\ ~Unsubmitted(r)' /\ (TimerHolds(r)' <=> TimerHolds(r))
  <2>1. ~Resending(r)' /\ UnderWay(r)'
    BY DEF UnderWay, Failing, Resending
  <2> QED BY <1>1, <2>1, UnmovedPlaces DEF Unsubmitted, CarrierPlaces, CountedPlaces, UncountedPlaces, Submitting,
                                           TimerHolds
<1>3. SeatOK(r)'
  BY <1>1, UnmovedPlaces DEF SeatOK
<1>4. ListOK(r)'
  BY <1>1, UnmovedPlaces DEF ListOK, CarrierPlaces, CountedPlaces, UncountedPlaces, Submitting
<1>5. TimerOK(r)'
  BY <1>1, <1>2, UnmovedPlaces DEF RequestOK, TimerOK
<1>6. CountOK(r)'
  <2>1. \A u \in Threads : \A p \in UncountedPlaces : ~Works(thread'[u], r, p)
    BY UnmovedPlaces DEF CarrierPlaces
  <2> QED BY <1>1, <1>2, <2>1, UnmovedPlaces DEF RequestOK, CountOK
<1> QED BY <1>3, <1>4, <1>5, <1>6 DEF RequestOK

(* its timer stopped or still due.                                          *)
LEMMA TimerStopped ==
  ASSUME TypeInv, NEW r \in Requests, RequestOK(r)
  PROVE  /\ CancelTimer(r) => ~Called(r)
         /\ ~CancelTimer(r) => Called(r) /\ "TimerSet" \in req[r].flags /\ ~Canceled(r)
BY CalledTop, CalledOrCanceled DEF RequestOK, TimerOK, CancelTimer, TimerArmed

(* to send it again,                                                        *)
LEMMA DrainedResent ==
  ASSUME TypeInv, NEW r \in Requests, Unmoved, RequestOK(r), req[r].cancelRoutine,
         CancelTimer(r), req[r].count = 1,
         req'[r] = [req[r] EXCEPT !.list = "none", !.cancelRoutine = FALSE, !.count = 0, !.flags = @ \ {"TimerSet"}],
         UNCHANGED owner, r \in todo'.pended, todo'.op = "Start"
  PROVE  RequestOK(r)'
<1>1. /\ req'[r].list = "none" /\ req'[r].cancelRoutine = FALSE /\ req'[r].count = 0
      /\ req'[r].flags = req[r].flags \ {"TimerSet"} /\ req'[r].irp = req[r].irp
  BY Fields DEF Request
<1>2. ~TimerHolds(r) /\ Cardinality(Cancelers(r)) = 0
  BY CountParts, UnmovedPlaces DEF RequestOK, CountOK
<1>3. ~Called(r) /\ ~Canceled(r)
  BY <1>2, TimerStopped DEF TimerHolds
<1>4. ~UnderWay(r)' /\ ~TimerHolds(r)'
  BY <1>1, <1>3, UnmovedPlaces DEF UnderWay, Failing, TimerHolds, CarrierPlaces
<1>5. SeatOK(r)'
  BY <1>1, UnmovedPlaces DEF SeatOK
<1>6. ListOK(r)'
  BY <1>1, UnmovedPlaces DEF ListOK, CarrierPlaces, CountedPlaces, UncountedPlaces, Submitting
<1>7. TimerOK(r)'
  BY <1>1, <1>3, <1>4, UnmovedPlaces DEF TimerOK
<1>8. CountOK(r)'
  BY <1>1, <1>2, <1>4, UnmovedPlaces DEF CountOK
<1> QED BY <1>5, <1>6, <1>7, <1>8 DEF RequestOK

(* or to leave its completion to another thread.                            *)
LEMMA DrainedLeft ==
  ASSUME TypeInv, NEW r \in Requests, Unmoved, RequestOK(r), req[r].cancelRoutine,
         NEW n, NEW F, n = (IF CancelTimer(r) THEN req[r].count - 1 ELSE req[r].count),
         F = {"Completed"} \cup (IF CancelTimer(r) THEN req[r].flags \ {"TimerSet"} ELSE req[r].flags),
         req'[r] = [req[r] EXCEPT !.list = "none", !.cancelRoutine = FALSE, !.status = "Cancelled",
                                  !.count = n, !.flags = F],
         UNCHANGED owner, r \notin todo'.pended
  PROVE  RequestOK(r)'
<1>1. /\ req'[r].list = "none" /\ req'[r].cancelRoutine = FALSE /\ req'[r].count = n
      /\ req'[r].flags = F /\ req'[r].irp = req[r].irp
  BY Fields DEF Request
<1>2. ~UnderWay(r)' /\ ~Unsubmitted(r)' /\ ~Resending(r)'
  BY <1>1, UnmovedPlaces DEF UnderWay, Failing, Unsubmitted, Resending, CarrierPlaces, CountedPlaces,
                             UncountedPlaces, Submitting
<1>3. SeatOK(r)'
  BY <1>1, UnmovedPlaces DEF SeatOK
<1>4. ListOK(r)'
  BY <1>1, UnmovedPlaces DEF ListOK, CarrierPlaces, CountedPlaces, UncountedPlaces, Submitting
<1>5. TimerOK(r)'
  BY <1>1, <1>2, TimerStopped, UnmovedPlaces DEF TimerOK
<1>6. CountOK(r)'
  <2>1. \A u \in Threads : \A p \in UncountedPlaces : ~Works(thread'[u], r, p)
    BY UnmovedPlaces DEF CarrierPlaces
  <2>2. TimerHolds(r)' <=> Canceled(r) \/ Called(r)
    BY <1>1, UnmovedPlaces DEF TimerHolds
  <2>3. TimerHolds(r) <=> Canceled(r)
    BY UnmovedPlaces DEF TimerHolds
  <2>4. /\ req[r].count = 1 + (IF TimerHolds(r) THEN 1 ELSE 0) + Cardinality(Cancelers(r))
        /\ Cardinality(Cancelers(r)) \in Nat
    BY CountParts, UnmovedPlaces DEF RequestOK, CountOK
  <2>5. n = (IF TimerHolds(r)' THEN 1 ELSE 0) + Cardinality(Cancelers(r))
    BY <2>2, <2>3, <2>4, TimerStopped
  <2> QED BY <1>1, <1>2, <2>1, <2>5, UnmovedPlaces DEF CountOK
<1> QED BY <1>3, <1>4, <1>5, <1>6 DEF RequestOK

(* The others.                                                              *)
LEMMA NotDrained ==
  ASSUME NEW r \in Requests, Unmoved, RequestOK(r), req'[r] = req[r], UNCHANGED owner,
         r \notin todo.pended, r \notin todo'.pended
  PROVE  RequestOK(r)'
<1>1. Same(r)
  BY DEF Same, Unmoved
<1> QED BY <1>1, SameRequest

LEMMA StartRequests ==
  ASSUME TypeInv, RequestInv, Start, todo.pended = {}
  PROVE  RequestInv'
<1>1. /\ Idle(Control) /\ UNCHANGED owner /\ todo'.pended = Resent /\ todo'.op = "Start" /\ DrainToResend
  BY DEF Start, Operate
<1>2. Unmoved
  BY <1>1, StartTypes, OperationUnmoved
<1> SUFFICES ASSUME NEW r \in Requests
             PROVE  RequestOK(r)'
  BY DEF RequestInv
<1>3. RequestOK(r)
  BY DEF RequestInv
<1>4. CASE r \in Resent
  <2>1. /\ CancelTimer(r) /\ req[r].count = 1 /\ req[r].cancelRoutine
        /\ req'[r] = [req[r] EXCEPT !.list = "none", !.cancelRoutine = FALSE, !.count = 0, !.flags = @ \ {"TimerSet"}]
    BY <1>1, <1>4 DEF DrainToResend, Resent, Drained
  <2> QED BY <1>1, <1>2, <1>3, <1>4, <2>1, DrainedResent
<1>5. CASE r \in Drained \ Resent
  <2>1. PICK n, F :
          /\ n = (IF CancelTimer(r) THEN req[r].count - 1 ELSE req[r].count)
          /\ F = {"Completed"} \cup (IF CancelTimer(r) THEN req[r].flags \ {"TimerSet"} ELSE req[r].flags)
    OBVIOUS
  <2>2. req'[r] = [req[r] EXCEPT !.list = "none", !.cancelRoutine = FALSE, !.status = "Cancelled",
                                 !.count = n, !.flags = F]
    BY <1>1, <1>5, <2>1 DEF DrainToResend
  <2>3. req[r].cancelRoutine
    BY <1>5 DEF Drained
  <2> QED BY <1>1, <1>2, <1>3, <1>5, <2>1, <2>2, <2>3, DrainedLeft
<1>6. CASE r \notin Drained
  <2>1. req'[r] = req[r] /\ r \notin Resent
    BY <1>1, <1>6 DEF DrainToResend, Resent
  <2> QED BY <1>1, <1>2, <1>3, <2>1, NotDrained
<1> QED BY <1>4, <1>5, <1>6

LEMMA FailedRequests ==
  ASSUME TypeInv, RequestInv, Unmoved, DrainToFail, UNCHANGED owner, todo.pended = {},
         todo'.pended = Drained, todo'.op # "Start"
  PROVE  RequestInv'
<1> SUFFICES ASSUME NEW r \in Requests
             PROVE  RequestOK(r)'
  BY DEF RequestInv
<1>1. RequestOK(r)
  BY DEF RequestInv
<1>2. CASE r \in Drained
  <2>1. req[r].cancelRoutine /\ req'[r] = [req[r] EXCEPT !.list = "none", !.cancelRoutine = FALSE]
    BY <1>2 DEF DrainToFail, Drained
  <2> QED BY <1>1, <1>2, <2>1, DrainedFails
<1>3. CASE r \notin Drained
  <2>1. req'[r] = req[r]
    BY <1>3 DEF DrainToFail
  <2> QED BY <1>1, <1>3, <2>1, NotDrained
<1> QED BY <1>2, <1>3

LEMMA OperationRequests ==
  ASSUME TypeInv, RequestInv, Operation, todo.pended = {}
  PROVE  RequestInv'
<1>1. CASE Start
  BY <1>1, StartRequests
<1>2. ASSUME CancelSentIo \/ \E op \in {"StopCancel", "StopWait", "StopLeave"} : Stop(op)
      PROVE  RequestInv'
  <2>1. Idle(Control) /\ UNCHANGED owner /\ UNCHANGED req /\ todo'.pended = {}
    BY <1>2 DEF CancelSentIo, Stop, Operate
  <2>2. Unmoved
    BY <1>2, <2>1, CancelSentIoTypes, StopTypes, OperationUnmoved
  <2> QED BY <2>1, <2>2, NotDrained DEF RequestInv
<1>3. ASSUME Remove \/ \E op \in {"Purge", "PurgeNoWait"} : Purge(op)
      PROVE  RequestInv'
  <2>1. Idle(Control) /\ UNCHANGED owner /\ DrainToFail /\ todo'.pended = Drained /\ todo'.op # "Start"
    BY <1>3 DEF Remove, Purge, Operate
  <2>2. Unmoved
    BY <1>3, <2>1, RemovalTypes, PurgeTypes, OperationUnmoved
  <2> QED BY <2>1, <2>2, FailedRequests
<1> QED BY <1>1, <1>2, <1>3 DEF Operation

-----------------------------------------------------------------------------
(* The target: its operation, its lock, its event and its I/O count.        *)

WaitOps == {"StopCancel", "StopWait", "Purge"}

(* The operation the control thread is in.                                  *)
ControlInv ==
  /\ todo.op = "Remove" <=> target.state = "Deleted"
  /\ todo.op \in WaitOps => target.state # "Started"
  /\ Has(thread[Control], "resubmit") \/ Has(thread[Control], "resubmitted") => todo.op = "Start"
  /\ Has(thread[Control], "failPended") \/ Has(thread[Control], "waitSent") => todo.op # "Start"
  /\ todo.pended # {} => Has(thread[Control], "resubmit") \/ Has(thread[Control], "failPended")
  /\ todo.op = "Remove" =>
       /\ Has(thread[Control], "waitSent") => Has(thread[Control], "dispose")
       /\ Has(thread[Control], "dispose") => Has(thread[Control], "waitDispose")
  /\ Has(thread[Control], "dispose") \/ Has(thread[Control], "waitDispose") => todo.op = "Remove"

(* Who submits has the lock; a target that is removed lets in only what     *)
(* ignores its state, and only while it still waits.                        *)
LockInv ==
  \A t \in Threads : \A p \in {"submitCounted", "submitChecked"} : Has(thread[t], p) =>
    lock = t /\ (target.state = "Deleted" => target.removing /\ Ignores(t))

(* The wait for sent I/O, and the one signal that ends it.                  *)
Awaited == Has(thread[Control], "waitSent") /\ todo.wait /\ ~target.event

EventInv ==
  /\ target.waiting => todo.op \in WaitOps /\ Awaited
  /\ target.removing => todo.op = "Remove" /\ Awaited
  /\ \A t \in Threads : Has(thread[t], "signal") =>
       /\ Awaited /\ ~target.waiting /\ ~target.removing
       /\ \A u \in Threads : Has(thread[u], "signal") => u = t
  /\ todo.op \in WaitOps /\ ~target.waiting => \A r \in Requests : req[r].list # "sent"
  /\ todo.op = "Remove" /\ ~target.removing => \A r \in Requests : req[r].list \notin {"sent", "ignored"}

(* What the I/O count counts.                                               *)
Needs(r) ==
  /\ owner[r] = "target" /\ ~Has(thread[Sender(r)], "submit")
  /\ \A t \in Threads : ~Works(thread[t], r, "complete")
NeedsIt      == {r \in Requests : Needs(r)}
Holders      == {t \in Threads : Has(thread[t], "dereference")}
Base         == IF todo.op = "Remove" /\ ~Has(thread[Control], "dispose") THEN 0 ELSE 1
Resubmitting == Has(thread[Control], "resubmitted") /\ ~Has(thread[Control], "submit")

Users == Base + Cardinality(NeedsIt) + Cardinality(Holders) + (IF Resubmitting THEN 1 ELSE 0)

CountInv == target.ioCount = Users

(* A target that was removed is not counted again.                          *)
DisposeInv == todo.op = "Remove" /\ ~Has(thread[Control], "waitDispose") => target.ioCount = 0

TargetInv == ControlInv /\ LockInv /\ EventInv /\ CountInv /\ DisposeInv

-----------------------------------------------------------------------------
(* Steps that the target does not notice.                                   *)

Watched == {"complete", "signal", "dereference", "submit", "submitCounted", "submitChecked", "resubmit",
            "resubmitted", "failPended", "waitSent", "dispose", "waitDispose"}

SameLevel ==
  \A r \in Requests :
    /\ req'[r].options = req[r].options
    /\ req'[r].list = "sent" <=> req[r].list = "sent"
    /\ req'[r].list = "ignored" <=> req[r].list = "ignored"

Quiet ==
  /\ UNCHANGED target /\ UNCHANGED lock /\ UNCHANGED owner /\ SameLevel
  /\ todo'.op = todo.op /\ todo'.wait = todo.wait /\ todo'.pended \subseteq todo.pended
  /\ \A u \in Threads : \A p \in Watched : Has(thread'[u], p) <=> Has(thread[u], p)
  /\ \A u \in Threads : \A p \in {"complete", "submitCounted", "submitChecked"} :
       Has(thread[u], p) => thread'[u].cur = thread[u].cur

LEMMA QuietKeeps ==
  ASSUME TypeInv, TargetInv, Quiet
  PROVE  TargetInv'
<1>1. Control \in Threads /\ {"resubmit", "resubmitted", "failPended", "waitSent", "dispose", "waitDispose"} \subseteq Watched
      /\ {"signal", "dereference", "submit", "submitCounted", "submitChecked", "complete"} \subseteq Watched
      /\ \A r \in Requests : Sender(r) \in Threads
  BY Kinds DEF Watched
<1>2. ControlInv'
  BY <1>1 DEF TargetInv, ControlInv, Quiet
<1>3. LockInv'
  <2> SUFFICES ASSUME NEW t \in Threads, NEW p \in {"submitCounted", "submitChecked"}, Has(thread'[t], p)
               PROVE  lock' = t /\ (target'.state = "Deleted" => target'.removing /\ Ignores(t)')
    BY DEF LockInv
  <2>1. Has(thread[t], p) /\ thread'[t].cur = thread[t].cur /\ UNCHANGED target /\ UNCHANGED lock
    BY <1>1 DEF Quiet
  <2>2. thread[t].cur \in Requests
    BY <2>1 DEF TypeInv, ShapeInv, ShapeOK, RequestPlaces
  <2>3. Ignores(t)' <=> Ignores(t)
    BY <2>1, <2>2 DEF Quiet, SameLevel, Ignores, SendOptions, Cur
  <2> QED BY <2>1, <2>3 DEF TargetInv, LockInv
<1>4. EventInv'
  <2>1. Awaited' <=> Awaited
    BY <1>1 DEF Quiet, Awaited
  <2> QED BY <1>1, <2>1 DEF TargetInv, EventInv, Quiet, SameLevel
<1>5. CountInv'
  <2>1. \A r \in Requests : \A t \in Threads : Works(thread'[t], r, "complete") <=> Works(thread[t], r, "complete")
    BY <1>1 DEF Quiet, Works
  <2>2. NeedsIt' = NeedsIt
    BY <1>1, <2>1 DEF Quiet, NeedsIt, Needs
  <2>3. Holders' = Holders
    BY <1>1 DEF Quiet, Holders
  <2>4. Base' = Base /\ (Resubmitting' <=> Resubmitting)
    BY <1>1 DEF Quiet, Base, Resubmitting
  <2> QED BY <2>2, <2>3, <2>4 DEF Quiet, TargetInv, CountInv, Users
<1>6. DisposeInv'
  BY <1>1 DEF Quiet, TargetInv, DisposeInv
<1> QED BY <1>2, <1>3, <1>4, <1>5, <1>6 DEF TargetInv

LEMMA QuietMoves ==
  ASSUME TypeInv, NEW t \in Threads, Top(thread[t]) \notin Watched, NEW tops, NEW new, Moves(t, tops, new),
         new \cap Watched = {}, UNCHANGED <<target, lock, owner, todo>>, SameLevel
  PROVE  Quiet
<1>1. \A u \in Threads : \A p \in Watched : Has(thread'[u], p) <=> Has(thread[u], p)
  BY DEF Moves
<1>2. \A u \in Threads : thread'[u].cur = thread[u].cur
  BY DEF Moves
<1> QED BY <1>1, <1>2 DEF Quiet

(* The places between which a thread goes without the target's notice.      *)
LEMMA QuietJumps ==
  ASSUME TypeInv, NEW t \in Threads, NEW h \in Places, At(t, h), h \notin Watched,
         NEW pcs, thread' = Jump(t, pcs), UNCHANGED <<target, lock, owner, todo>>, SameLevel,
         \/ pcs = <<>>
         \/ h = "cancel" /\ pcs = <<"cancelReference">>
         \/ h = "cancelReference" /\ pcs = <<"cancelIrp", "cancelRelease">>
         \/ h = "cancelIrp" /\ pcs = <<"requestCancelled">>
         \/ h = "requestCancelled" /\ pcs = <<"completion">>
         \/ h = "cancelRelease" /\ pcs = <<"completeCanceled">>
         \/ h = "timerCallback" /\ pcs = <<"cancel", "timerCanceled">>
         \/ h = "timedOut" /\ pcs = <<"cancel", "waitAgain">>
         \/ h = "wait" /\ pcs = <<"timedOut">>
  PROVE  Quiet
<1>1. Top(thread[t]) = h /\ ~Idle(t)
  BY WorksOn
<1>2. CASE pcs = <<>>
  BY <1>1, <1>2, FewerMoves, QuietMoves DEF Fewer
<1>3. ASSUME NEW p \in Places, p \notin Watched, RankOf(p) <= RankOf(h), Proper(h, {p}), pcs = <<p>>
      PROVE  Quiet
  <2>1. Moves(t, {p}, {p})
    BY <1>3, OneMoves
  <2> QED BY <1>1, <1>3, <2>1, QuietMoves
<1>4. ASSUME NEW p \in Places, p \notin Watched, NEW q \in Places \cap Beneath, q \notin Watched,
             RankOf(p) < RankOf(q), RankOf(q) <= RankOf(h), Proper(h, {p, q}), pcs = <<p, q>>
      PROVE  Quiet
  <2>1. Moves(t, {p}, {p, q})
    BY <1>4, TwoMoves
  <2> QED BY <1>1, <1>4, <2>1, QuietMoves
<1>5. CASE h = "cancel" /\ pcs = <<"cancelReference">>
  BY <1>3, <1>5 DEF Places, Watched, RankOf, Proper, RequestPlaces, Submitting
<1>6. CASE h = "cancelReference" /\ pcs = <<"cancelIrp", "cancelRelease">>
  BY <1>4, <1>6 DEF Places, Beneath, Watched, RankOf, Proper, RequestPlaces, Submitting
<1>7. CASE h = "cancelIrp" /\ pcs = <<"requestCancelled">>
  BY <1>3, <1>7 DEF Places, Watched, RankOf, Proper, RequestPlaces, Submitting
<1>8. CASE h = "requestCancelled" /\ pcs = <<"completion">>
  BY <1>3, <1>8 DEF Places, Watched, RankOf, Proper, RequestPlaces, Submitting
<1>9. CASE h = "cancelRelease" /\ pcs = <<"completeCanceled">>
  BY <1>3, <1>9 DEF Places, Watched, RankOf, Proper, RequestPlaces, Submitting
<1>10. CASE h = "timerCallback" /\ pcs = <<"cancel", "timerCanceled">>
  BY <1>4, <1>10 DEF Places, Beneath, Watched, RankOf, Proper, RequestPlaces, Submitting
<1>11. CASE h = "timedOut" /\ pcs = <<"cancel", "waitAgain">>
  BY <1>4, <1>11 DEF Places, Beneath, Watched, RankOf, Proper, RequestPlaces, Submitting
<1>12. CASE h = "wait" /\ pcs = <<"timedOut">>
  BY <1>3, <1>12 DEF Places, Watched, RankOf, Proper, RequestPlaces, Submitting
<1> QED BY <1>2, <1>5, <1>6, <1>7, <1>8, <1>9, <1>10, <1>11, <1>12

-----------------------------------------------------------------------------
(* What the other steps leave of it.                                        *)

ControlPlaces == {"resubmit", "resubmitted", "failPended", "waitSent", "dispose", "waitDispose"}

LEMMA ControlKeeps ==
  ASSUME ControlInv, target'.state = target.state, todo'.op = todo.op, todo'.pended \subseteq todo.pended,
         \A p \in ControlPlaces : Has(thread'[Control], p) <=> Has(thread[Control], p)
  PROVE  ControlInv'
BY DEF ControlInv, ControlPlaces

(* Nobody submits while the lock is free.                                   *)
LEMMA Vacant ==
  ASSUME LockInv, Unlocked, NEW t \in Threads, NEW p \in {"submitCounted", "submitChecked"}
  PROVE  ~Has(thread[t], p)
BY Kinds DEF LockInv, Unlocked

LEMMA LockKeeps ==
  ASSUME LockInv, Unlocked,
         \A u \in Threads : \A p \in {"submitCounted", "submitChecked"} : Has(thread'[u], p) => Has(thread[u], p)
  PROVE  LockInv'
BY Vacant DEF LockInv

(* The numbers that the I/O count is made of.                               *)
LEMMA CountSets ==
  ASSUME TypeInv
  PROVE  /\ IsFiniteSet(NeedsIt) /\ Cardinality(NeedsIt) \in Nat
         /\ IsFiniteSet(Holders) /\ Cardinality(Holders) \in Nat
         /\ target.ioCount \in Int /\ target \in Target
<1>1. IsFiniteSet(NeedsIt) /\ IsFiniteSet(Holders)
  BY TargetAssumption, ThreadsFinite, FS_Subset DEF NeedsIt, Holders
<1>2. target \in Target
  BY TypeParts DEF RestOK
<1> QED BY <1>1, <1>2, FS_CardinalityType DEF Target

(* A step of t between places.                                              *)
LEMMA MovesElsewhere ==
  ASSUME NEW t \in Threads, NEW tops, NEW new, Moves(t, tops, new)
  PROVE  /\ \A u \in Threads : \A p : p \notin new /\ p # Top(thread[t]) => (Has(thread'[u], p) <=> Has(thread[u], p))
         /\ \A u \in Threads : \A r, p : p \notin new /\ p # Top(thread[t]) =>
              (Works(thread'[u], r, p) <=> Works(thread[u], r, p))
         /\ \A u \in Threads : thread'[u].cur = thread[u].cur
BY DEF Moves, Works

LEMMA TopPlaces ==
  ASSUME TypeInv, NEW t \in Threads, NEW p, p \notin Beneath, Has(thread[t], p)
  PROVE  Top(thread[t]) = p
BY TypeParts, TopOfStack

LEMMA LowPlaces ==
  ASSUME TypeInv, NEW t \in Threads, RankOf(Top(thread[t])) >= 3
  PROVE  ~Has(thread[t], "signal") /\ ~Has(thread[t], "dereference") /\ ~Has(thread[t], "complete")
<1>1. \A p : Has(thread[t], p) => p = Top(thread[t]) \/ RankOf(Top(thread[t])) < RankOf(p)
  BY TypeParts, TopOfStack
<1>2. \A p \in {"signal", "dereference", "complete"} : RankOf(p) < 3
  BY DEF RankOf
<1> QED BY <1>1, <1>2, RankType

LEMMA CompletersLow ==
  ASSUME TypeInv, NEW t \in Threads, Top(thread[t]) \in Completers
  PROVE  /\ ~Has(thread[t], "signal") /\ ~Has(thread[t], "dereference") /\ ~Has(thread[t], "complete")
         /\ ~Has(thread[t], "submit")
<1>1. RankOf(Top(thread[t])) >= 3 /\ Top(thread[t]) # "submit" /\ "submit" \notin Beneath
  BY DEF Completers, RankOf, Beneath
<1> QED BY <1>1, LowPlaces, TopPlaces

(* The completion of a request, by the one who owns it.                     *)
LEMMA RemovedNeeds ==
  ASSUME TypeInv, NEW t \in Threads, NEW q \in Requests, q = Cur(t), Owns(t, q),
         Top(thread[t]) \in Completers, NEW new, Moves(t, {"complete"}, new),
         "complete" \in new, "dereference" \in new, new \subseteq {"complete", "signal", "dereference"},
         UNCHANGED owner
  PROVE  /\ Cardinality(NeedsIt') = Cardinality(NeedsIt) - 1
         /\ Cardinality(Holders') = Cardinality(Holders) + 1
<1>1. thread[t].cur = q /\ thread'[t].cur = q /\ \A u \in Threads : u # t => thread'[u] = thread[u]
  BY DEF Cur, Moves
<1>2. Needs(q) /\ ~Needs(q)'
  <2>1. \A u \in Threads : \A p \in {"submit", "complete"} : ~Works(thread[u], q, p)
    <3> SUFFICES ASSUME NEW u \in Threads, NEW p \in {"submit", "complete"}, Works(thread[u], q, p)
                 PROVE  FALSE
      OBVIOUS
    <3>1. Carrying(u, q)
      BY DEF Carrying, CarrierPlaces, UncountedPlaces
    <3>2. u = t
      BY <3>1 DEF Owns
    <3> QED BY <3>2, CompletersLow DEF Works
  <2>2. Sender(q) \in Threads /\ thread[Sender(q)].cur = q
    BY Kinds DEF TypeInv, ShapeInv, ShapeOK
  <2>3. Needs(q)
    BY <2>1, <2>2 DEF Needs, Owns, Works
  <2>4. Works(thread'[t], q, "complete")
    BY <1>1 DEF Moves, Works
  <2> QED BY <2>3, <2>4 DEF Needs
<1>3. \A r \in Requests : r # q => (Needs(r)' <=> Needs(r))
  <2> SUFFICES ASSUME NEW r \in Requests, r # q
               PROVE  Needs(r)' <=> Needs(r)
    OBVIOUS
  <2>1. \A u \in Threads : Works(thread'[u], r, "complete") <=> Works(thread[u], r, "complete")
    BY <1>1 DEF Works
  <2>2. Sender(r) \in Threads /\ Top(thread[t]) # "submit" /\ "submit" \notin new
    BY Kinds DEF Completers
  <2>3. Has(thread'[Sender(r)], "submit") <=> Has(thread[Sender(r)], "submit")
    BY <2>2, MovesElsewhere
  <2> QED BY <2>1, <2>3 DEF Needs, Sender
<1>4. NeedsIt' = NeedsIt \ {q} /\ q \in NeedsIt
  BY <1>2, <1>3 DEF NeedsIt
<1>5. Holders' = Holders \cup {t} /\ t \notin Holders
  BY <1>1, CompletersLow DEF Holders, Moves
<1> QED BY <1>4, <1>5, CountSets, FS_AddElement, FS_RemoveElement
LEMMA RemovedTarget ==
  ASSUME TypeInv, TargetInv, NEW t \in Threads, NEW q \in Requests, q = Cur(t), Owns(t, q), Unlocked,
         Top(thread[t]) \in Completers, NEW b, RemoveCompletedRequestLocked(t, q, b),
         UNCHANGED <<lock, owner, todo>>
  PROVE  TargetInv'
<1> DEFINE last == LastRemoved(q) \/ LastStopped(q)
<1>1. PICK new : /\ Moves(t, {"complete"}, new)
                 /\ "complete" \in new /\ "dereference" \in new /\ new \subseteq {"complete", "signal", "dereference"}
                 /\ "signal" \in new <=> last
  <2>1. CASE last
    <3>1. Moves(t, {"complete"}, {"complete", "signal", "dereference"})
      BY <2>1, RemoveMoves DEF Completers
    <3> QED BY <2>1, <3>1
  <2>2. CASE ~last
    <3>1. Moves(t, {"complete"}, {"complete", "dereference"})
      BY <2>2, RemoveMoves DEF Completers
    <3> QED BY <2>2, <3>1
  <2> QED BY <2>1, <2>2
<1>2. /\ \A u \in Threads : \A p : p \notin new /\ p # Top(thread[t]) => (Has(thread'[u], p) <=> Has(thread[u], p))
      /\ Control \in Threads
  BY <1>1, MovesElsewhere, Kinds
<1>3. \A u \in Threads : \A p \in ControlPlaces \cup {"submit", "submitCounted", "submitChecked"} :
         Has(thread'[u], p) <=> Has(thread[u], p)
  <2>1. \A p \in ControlPlaces \cup {"submit", "submitCounted", "submitChecked"} : p \notin new /\ p # Top(thread[t])
    BY <1>1 DEF ControlPlaces, Completers
  <2> QED BY <1>2, <2>1
<1>4. /\ target' = [target EXCEPT !.removing = @ /\ ~LastRemoved(q), !.waiting = @ /\ ~LastStopped(q)]
      /\ target \in Target
  BY CountSets DEF RemoveCompletedRequestLocked
<1>5. /\ target'.state = target.state /\ target'.event = target.event /\ target'.ioCount = target.ioCount
      /\ target'.removing <=> target.removing /\ ~LastRemoved(q)
      /\ target'.waiting <=> target.waiting /\ ~LastStopped(q)
  BY <1>4 DEF Target
<1>6. req'[q].list = "none" /\ \A r \in Requests : r # q => req'[r] = req[r]
  <2>1. req \in [Requests -> Request] /\ req[q] \in Request
    BY Fields
  <2> QED BY <2>1 DEF RemoveCompletedRequestLocked, Request
<1>7. ControlInv'
  BY <1>2, <1>3, <1>5, ControlKeeps DEF TargetInv
<1>8. LockInv'
  BY <1>3, LockKeeps DEF TargetInv
<1>9. EventInv'
  <2>1. Awaited' <=> Awaited
    BY <1>2, <1>3, <1>5 DEF Awaited, ControlPlaces
  <2>2. (target.waiting => todo.op \in WaitOps /\ Awaited) /\ (target.removing => todo.op = "Remove" /\ Awaited)
        /\ ~(target.waiting /\ target.removing)
    BY DEF TargetInv, EventInv, WaitOps
  <2>3. \A u \in Threads : Has(thread'[u], "signal") => Has(thread[u], "signal") \/ (u = t /\ last)
    BY <1>1 DEF Moves
  <2>4. last => (target.waiting \/ target.removing) /\ ~target'.waiting /\ ~target'.removing
    BY <1>5, <2>2 DEF LastRemoved, LastStopped
  <2>5. ASSUME NEW u \in Threads, Has(thread'[u], "signal")
        PROVE  /\ Awaited' /\ ~target'.waiting /\ ~target'.removing
               /\ \A v \in Threads : Has(thread'[v], "signal") => v = u
    <3>1. CASE last
      <4>1. \A v \in Threads : ~Has(thread[v], "signal")
        BY <2>4, <3>1 DEF TargetInv, EventInv
      <4> QED BY <2>1, <2>2, <2>3, <2>4, <2>5, <3>1, <4>1
    <3>2. CASE ~last
      BY <1>5, <2>1, <2>3, <2>5, <3>2 DEF TargetInv, EventInv
    <3> QED BY <3>1, <3>2
  <2>6. ASSUME todo.op \in WaitOps, ~target'.waiting, NEW r \in Requests
        PROVE  req'[r].list # "sent"
    <3>1. CASE target.waiting
      BY <1>5, <1>6, <2>6, <3>1 DEF LastStopped, On
    <3>2. CASE ~target.waiting
      BY <1>6, <2>6, <3>2 DEF TargetInv, EventInv
    <3> QED BY <3>1, <3>2
  <2>7. ASSUME todo.op = "Remove", ~target'.removing, NEW r \in Requests
        PROVE  req'[r].list \notin {"sent", "ignored"}
    <3>1. CASE target.removing
      BY <1>5, <1>6, <2>7, <3>1 DEF LastRemoved, On
    <3>2. CASE ~target.removing
      BY <1>6, <2>7, <3>2 DEF TargetInv, EventInv
    <3> QED BY <3>1, <3>2
  <2>8. (target'.waiting => todo'.op \in WaitOps /\ Awaited') /\ (target'.removing => todo'.op = "Remove" /\ Awaited')
    BY <1>5, <2>1, <2>2
  <2> QED BY <2>5, <2>6, <2>7, <2>8 DEF EventInv
<1>10. CountInv'
  <2>1. /\ Cardinality(NeedsIt') = Cardinality(NeedsIt) - 1
        /\ Cardinality(Holders') = Cardinality(Holders) + 1
    BY <1>1, RemovedNeeds
  <2>2. Base' = Base /\ (Resubmitting' <=> Resubmitting)
    BY <1>2, <1>3 DEF Base, Resubmitting, ControlPlaces
  <2>3. Base \in Int
    BY DEF Base
  <2> QED BY <1>5, <2>1, <2>2, <2>3, CountSets DEF TargetInv, CountInv, Users
<1>11. DisposeInv'
  BY <1>2, <1>3, <1>5 DEF TargetInv, DisposeInv, ControlPlaces
<1> QED BY <1>7, <1>8, <1>9, <1>10, <1>11 DEF TargetInv
LEMMA CompletionTarget ==
  ASSUME TypeInv, RequestInv, TargetInv, NEW t \in Threads, RequestCompletionRoutine(t)
  PROVE  TargetInv'
<1>1. PICK q : q = Cur(t)
  OBVIOUS
<1>2. /\ At(t, "completion") /\ "completion" \in Places /\ "completion" \notin Watched /\ q \in Requests
      /\ Top(thread[t]) = "completion" /\ "completion" \in Completers /\ Unlocked
  BY <1>1, WorksOn DEF RequestCompletionRoutine, Places, RequestPlaces, Watched, Completers
<1>3. UNCHANGED <<lock, owner, todo>>
  BY DEF RequestCompletionRoutine
<1>4. CASE CancelTimer(q) /\ req[q].count = 1 /\ RemoveCompletedRequestLocked(t, q, FromTimer(q))
  <2>1. Owns(t, q)
    BY <1>1, <1>2, <1>4, OwnsCompletion DEF RequestInv
  <2> QED BY <1>1, <1>2, <1>3, <1>4, <2>1, RemovedTarget
<1>5. CASE /\ thread' = Jump(t, <<>>) /\ UNCHANGED target
           /\ \/ req' = [req EXCEPT ![q].count = @ - 1, ![q].flags = (@ \ {"TimerSet"}) \cup {"Completed"}]
              \/ req' = [req EXCEPT ![q].flags = @ \cup {"Completed"}]
  <2>1. req \in [Requests -> Request] /\ req[q] \in Request
    BY <1>2, Fields
  <2>2. SameLevel
    BY <1>5, <2>1 DEF SameLevel, Request
  <2> QED BY <1>2, <1>3, <1>5, <2>2, QuietJumps, QuietKeeps
<1> QED BY <1>1, <1>4, <1>5 DEF RequestCompletionRoutine

LEMMA CanceledTarget ==
  ASSUME TypeInv, RequestInv, TargetInv, NEW t \in Threads,
         NEW h \in {"completeCanceled", "failedResubmit"}, At(t, h), Unlocked, NEW b,
         RemoveCompletedRequestLocked(t, Cur(t), b), UNCHANGED <<lock, owner, todo>>
  PROVE  TargetInv'
<1>1. PICK q : q = Cur(t)
  OBVIOUS
<1>2. h \in Places \cap RequestPlaces /\ h \in Completers
  BY DEF Places, RequestPlaces, Completers
<1>3. q \in Requests /\ Top(thread[t]) = h
  BY <1>1, <1>2, WorksOn
<1>4. Owns(t, q)
  BY <1>1, <1>3, OwnsCanceled DEF RequestInv
<1> QED BY <1>1, <1>2, <1>3, <1>4, RemovedTarget

LEMMA TimerTarget ==
  ASSUME TypeInv, RequestInv, TargetInv, NEW t \in Threads, TimerCallback(t) \/ TimerCanceled(t)
  PROVE  TargetInv'
<1>1. PICK q : q = Cur(t)
  OBVIOUS
<1>2. PICK h \in {"timerCallback", "timerCanceled"} :
         At(t, h) /\ (h = "timerCallback" => TimerCallback(t)) /\ (h = "timerCanceled" => TimerCanceled(t))
  BY DEF TimerCallback, TimerCanceled
<1>3. h \in Places \cap RequestPlaces /\ h \in Completers /\ h \notin Watched
  BY DEF Places, RequestPlaces, Completers, Watched
<1>4. q \in Requests /\ Top(thread[t]) = h /\ Unlocked /\ UNCHANGED <<lock, owner, todo>>
  BY <1>1, <1>2, <1>3, WorksOn DEF TimerCallback, TimerCanceled
<1>5. CASE /\ req[q].count = 1 /\ RemoveCompletedRequestLocked(t, q, TRUE)
           /\ h = "timerCallback" => "Completed" \in req[q].flags
  <2>1. Owns(t, q)
    BY <1>1, <1>2, <1>4, <1>5, OwnsTimer DEF RequestInv
  <2> QED BY <1>1, <1>3, <1>4, <1>5, <2>1, RemovedTarget
<1>6. CASE /\ UNCHANGED target
           /\ thread' = Jump(t, <<>>) \/ (h = "timerCallback" /\ thread' = Jump(t, <<"cancel", "timerCanceled">>))
           /\ \E n, F : req' = [req EXCEPT ![q].count = n, ![q].flags = F] \/ req' = [req EXCEPT ![q].count = n]
  <2>1. req \in [Requests -> Request] /\ req[q] \in Request
    BY <1>4, Fields
  <2>2. SameLevel
    BY <1>6, <2>1 DEF SameLevel, Request
  <2> QED BY <1>2, <1>3, <1>4, <1>6, <2>2, QuietJumps, QuietKeeps
<1>7. CASE h = "timerCallback"
  BY <1>1, <1>2, <1>5, <1>6, <1>7 DEF TimerCallback
<1>8. CASE h = "timerCanceled"
  BY <1>1, <1>2, <1>5, <1>6, <1>8 DEF TimerCanceled
<1> QED BY <1>7, <1>8

(* Cancelling.                                                              *)
LEMMA CancelTarget ==
  ASSUME TypeInv, RequestInv, TargetInv, NEW t \in Threads,
         Cancel(t) \/ CancelReference(t) \/ CancelIrp(t) \/ CancelRelease(t) \/ Send(t)
  PROVE  TargetInv'
<1>1. PICK q : q = Cur(t)
  OBVIOUS
<1>2. PICK h \in {"cancel", "cancelReference", "cancelIrp", "cancelRelease", "send"} :
         /\ At(t, h)
         /\ h = "cancel" => Cancel(t)
         /\ h = "cancelReference" => CancelReference(t)
         /\ h = "cancelIrp" => CancelIrp(t)
         /\ h = "cancelRelease" => CancelRelease(t)
         /\ h = "send" => Send(t)
  BY DEF Cancel, CancelReference, CancelIrp, CancelRelease, Send
<1>3. h \in Places \cap RequestPlaces /\ h \notin Watched
  BY DEF Places, RequestPlaces, Watched
<1>4. q \in Requests
  BY <1>1, <1>2, <1>3, WorksOn
<1>5. req \in [Requests -> Request] /\ req[q] \in Request
  BY <1>4, Fields
<1>6. UNCHANGED <<target, lock, owner, todo>>
  BY DEF Cancel, CancelReference, CancelIrp, CancelRelease, Send
<1>7. SameLevel
  <2>1. CASE UNCHANGED req
    BY <2>1 DEF SameLevel
  <2>2. CASE \/ req' = [req EXCEPT ![q].canceled = TRUE] \/ req' = [req EXCEPT ![q].irp = "lower"]
             \/ req' = [req EXCEPT ![q].irpCanceled = TRUE, ![q].cancelRoutine = FALSE]
    BY <1>5, <2>2 DEF SameLevel, Request
  <2>3. CASE \E n : req' = [req EXCEPT ![q].count = n]
    BY <1>5, <2>3 DEF SameLevel, Request
  <2>4. Cancel(t) \/ CancelReference(t) \/ CancelIrp(t) => UNCHANGED req \/ req' = [req EXCEPT ![q].canceled = TRUE]
          \/ req' = [req EXCEPT ![q].irpCanceled = TRUE, ![q].cancelRoutine = FALSE]
          \/ \E n : req' = [req EXCEPT ![q].count = n]
    BY <1>1 DEF Cancel, CancelReference, CancelIrp
  <2>5. CancelRelease(t) \/ Send(t) => (\E n : req' = [req EXCEPT ![q].count = n]) \/ req' = [req EXCEPT ![q].irp = "lower"]
    BY <1>1 DEF CancelRelease, Send
  <2> QED BY <2>1, <2>2, <2>3, <2>4, <2>5
<1>8. /\ h = "cancel" => thread' = Jump(t, <<"cancelReference">>)
      /\ h = "cancelReference" => thread' = Jump(t, <<"cancelIrp", "cancelRelease">>) \/ thread' = Jump(t, <<>>)
      /\ h = "cancelIrp" => thread' = Jump(t, <<"requestCancelled">>) \/ thread' = Jump(t, <<>>)
      /\ h = "cancelRelease" => thread' = Jump(t, <<"completeCanceled">>) \/ thread' = Jump(t, <<>>)
      /\ h = "send" => thread' = Jump(t, <<>>)
  BY <1>2 DEF Cancel, CancelReference, CancelIrp, CancelRelease, Send
<1>9. Quiet
  BY <1>2, <1>3, <1>6, <1>7, <1>8, QuietJumps
<1> QED BY <1>9, QuietKeeps

LEMMA CancelledTarget ==
  ASSUME TypeInv, RequestInv, TargetInv, NEW t \in Threads, RequestCancelled(t)
  PROVE  TargetInv'
<1>1. PICK q : q = Cur(t)
  OBVIOUS
<1>2. /\ At(t, "requestCancelled") /\ "requestCancelled" \in Places /\ "requestCancelled" \notin Watched
      /\ q \in Requests /\ Works(thread[t], q, "requestCancelled")
  BY <1>1, WorksOn DEF RequestCancelled, Places, RequestPlaces, Watched, Works
<1>3. req[q].list = "pended" /\ req \in [Requests -> Request] /\ req[q] \in Request
  BY <1>2, Fields DEF RequestInv, RequestOK, ListOK
<1>4. SameLevel
  BY <1>1, <1>3 DEF RequestCancelled, SameLevel, Request
<1>5. Quiet
  BY <1>2, <1>4, QuietJumps DEF RequestCancelled
<1> QED BY <1>5, QuietKeeps

LEMMA SyncTarget ==
  ASSUME TypeInv, TargetInv, NEW t \in Threads, SyncCompleted(t) \/ SyncCancels(t) \/ SyncTimesOut(t)
  PROVE  TargetInv'
<1>1. PICK q : q = Cur(t)
  OBVIOUS
<1>2. PICK h \in {"wait", "waitAgain", "timedOut"} :
         /\ At(t, h)
         /\ \/ SyncCompleted(t)
            \/ h = "timedOut" /\ SyncCancels(t)
            \/ h = "wait" /\ SyncTimesOut(t)
  BY DEF SyncCompleted, SyncCancels, SyncTimesOut
<1>3. h \in Places \cap RequestPlaces /\ h \notin Watched
  BY DEF Places, RequestPlaces, Watched
<1>4. q \in Requests
  BY <1>1, <1>2, <1>3, WorksOn
<1>5. req \in [Requests -> Request] /\ req[q] \in Request
  BY <1>4, Fields
<1>6. UNCHANGED <<target, lock, owner, todo>>
  BY DEF SyncCompleted, SyncCancels, SyncTimesOut
<1>7. SameLevel
  BY <1>1, <1>5 DEF SyncCompleted, SyncCancels, SyncTimesOut, SameLevel, Request
<1>8. \/ thread' = Jump(t, <<>>)
      \/ h = "timedOut" /\ thread' = Jump(t, <<"cancel", "waitAgain">>)
      \/ h = "wait" /\ thread' = Jump(t, <<"timedOut">>)
  BY <1>2 DEF SyncCompleted, SyncCancels, SyncTimesOut
<1>9. Quiet
  BY <1>2, <1>3, <1>6, <1>7, <1>8, QuietJumps
<1> QED BY <1>9, QuietKeeps
-----------------------------------------------------------------------------
(* Steps that leave most of it as it is.                                    *)

LEMMA LockStays ==
  ASSUME TypeInv, LockInv, UNCHANGED lock, target'.state = target.state, target'.removing = target.removing, SameLevel,
         \A u \in Threads : \A p \in {"submitCounted", "submitChecked"} :
           Has(thread'[u], p) => Has(thread[u], p) /\ thread'[u].cur = thread[u].cur
  PROVE  LockInv'
<1> SUFFICES ASSUME NEW t \in Threads, NEW p \in {"submitCounted", "submitChecked"}, Has(thread'[t], p)
             PROVE  lock' = t /\ (target'.state = "Deleted" => target'.removing /\ Ignores(t)')
  BY DEF LockInv
<1>1. Has(thread[t], p) /\ thread'[t].cur = thread[t].cur
  OBVIOUS
<1>2. thread[t].cur \in Requests
  BY <1>1 DEF TypeInv, ShapeInv, ShapeOK, RequestPlaces
<1>3. Ignores(t)' <=> Ignores(t)
  BY <1>1, <1>2 DEF SameLevel, Ignores, SendOptions, Cur
<1> QED BY <1>1, <1>3 DEF LockInv

LEMMA EventStays ==
  ASSUME EventInv, target'.waiting = target.waiting, target'.removing = target.removing, target'.event = target.event,
         todo'.op = todo.op, todo'.wait = todo.wait, SameLevel,
         Has(thread'[Control], "waitSent") <=> Has(thread[Control], "waitSent"),
         \A u \in Threads : Has(thread'[u], "signal") => Has(thread[u], "signal")
  PROVE  EventInv'
<1>1. Awaited' <=> Awaited
  BY DEF Awaited
<1> QED BY <1>1 DEF EventInv, SameLevel

LEMMA SameNeeds ==
  ASSUME UNCHANGED owner,
         \A u \in Threads : \A r \in Requests : Works(thread'[u], r, "complete") <=> Works(thread[u], r, "complete"),
         \A r \in Requests : Has(thread'[Sender(r)], "submit") <=> Has(thread[Sender(r)], "submit")
  PROVE  NeedsIt' = NeedsIt
BY DEF NeedsIt, Needs, Sender

LEMMA SameBase ==
  ASSUME todo'.op = todo.op,
         \A p \in {"dispose", "resubmitted", "submit"} : Has(thread'[Control], p) <=> Has(thread[Control], p)
  PROVE  Base' = Base /\ (Resubmitting' <=> Resubmitting)
BY DEF Base, Resubmitting

LEMMA BaseNumber == Base \in {0, 1}
BY DEF Base

(* A thread that does not notice the target begins.                         *)
LEMMA QuietBegins ==
  ASSUME TypeInv, NEW t \in Threads, Idle(t), NEW r, NEW top, NEW new, Begins(t, r, top, new),
         new \cap Watched = {}, UNCHANGED <<target, lock, owner, todo>>, SameLevel
  PROVE  Quiet
<1>1. \A p : ~Has(thread[t], p)
  BY TypeParts, TopOfStack
<1>2. \A u \in Threads : \A p \in Watched : Has(thread'[u], p) <=> Has(thread[u], p)
  BY <1>1 DEF Begins
<1>3. \A u \in Threads : \A p : Has(thread[u], p) => thread'[u].cur = thread[u].cur
  BY <1>1 DEF Begins
<1> QED BY <1>2, <1>3 DEF Quiet

LEMMA OutsideTarget ==
  ASSUME TypeInv, TargetInv, NEW r \in Requests,
         CancelSentRequest(r) \/ TimerFires(r) \/ LowerCompletes(r)
  PROVE  TargetInv'
<1>1. req \in [Requests -> Request] /\ req[r] \in Request
  BY Fields
<1>2. SameLevel
  BY <1>1 DEF CancelSentRequest, TimerFires, LowerCompletes, SameLevel, Request
<1>3. UNCHANGED <<target, lock, owner, todo>>
  BY DEF CancelSentRequest, TimerFires, LowerCompletes
<1>4. PICK t \in Threads, p \in {"cancel", "timerCallback", "completion"} :
         /\ Idle(t) /\ thread' = Begin(t, r, <<p>>) /\ (t = Canceller \/ t[2] = r)
         /\ p = "timerCallback" => t = Timer(r)
  BY Kinds DEF CancelSentRequest, TimerFires, LowerCompletes
<1>5. Begins(t, r, p, {p})
  BY <1>4, BeginMoves
<1>6. {p} \cap Watched = {}
  BY DEF Watched
<1> QED BY <1>2, <1>3, <1>4, <1>5, <1>6, QuietBegins, QuietKeeps

-----------------------------------------------------------------------------
(* After the completion.                                                    *)

LEMMA CallbackTarget ==
  ASSUME TypeInv, TargetInv, NEW t \in Threads, CompleteRequest(t)
  PROVE  TargetInv'
<1>1. PICK q : q = Cur(t)
  OBVIOUS
<1>2. /\ At(t, "complete") /\ q \in Requests /\ Top(thread[t]) = "complete" /\ Has(thread[t], "complete")
      /\ ~Idle(t) /\ thread[t].cur = q /\ UNCHANGED <<target, lock, req, todo>>
  BY <1>1, WorksOn DEF CompleteRequest, Places, RequestPlaces
<1>3. Fewer(t)
  BY <1>2, FewerMoves DEF CompleteRequest
<1>4. /\ \A u \in Threads : \A p : p # "complete" => (Has(thread'[u], p) <=> Has(thread[u], p))
      /\ \A u \in Threads : thread'[u].cur = thread[u].cur
      /\ Control \in Threads /\ \A r \in Requests : Sender(r) \in Threads
  BY <1>2, <1>3, MovesElsewhere, Kinds DEF Fewer
<1>5. SameLevel
  BY <1>2 DEF SameLevel
<1>6. ControlInv'
  BY <1>2, <1>4, ControlKeeps DEF TargetInv, ControlPlaces
<1>7. LockInv'
  BY <1>2, <1>4, <1>5, LockStays DEF TargetInv
<1>8. EventInv'
  BY <1>2, <1>4, <1>5, EventStays DEF TargetInv
<1>9. CountInv'
  <2>1. owner \in [Requests -> {"driver", "target"}] /\ owner' = [owner EXCEPT ![q] = "driver"]
    BY <1>1, TypeParts DEF RestOK, CompleteRequest
  <2>2. ~Needs(q) /\ ~Needs(q)'
    BY <1>2, <2>1 DEF Needs, Works
  <2>3. \A r \in Requests : r # q => \A u \in Threads : Works(thread'[u], r, "complete") <=> Works(thread[u], r, "complete")
    BY <1>2, <1>3 DEF Fewer, Moves, Works
  <2>4. \A r \in Requests : r # q => (Needs(r)' <=> Needs(r))
    BY <1>4, <2>1, <2>3 DEF Needs, Sender
  <2>5. NeedsIt' = NeedsIt
    BY <2>2, <2>4 DEF NeedsIt
  <2>6. Holders' = Holders
    BY <1>4 DEF Holders
  <2>7. Base' = Base /\ (Resubmitting' <=> Resubmitting)
    BY <1>2, <1>4, SameBase
  <2> QED BY <1>2, <2>5, <2>6, <2>7 DEF TargetInv, CountInv, Users
<1>10. DisposeInv'
  BY <1>2, <1>4 DEF TargetInv, DisposeInv
<1> QED BY <1>6, <1>7, <1>8, <1>9, <1>10 DEF TargetInv

LEMMA SignalTarget ==
  ASSUME TypeInv, TargetInv, NEW t \in Threads, SetSentIoEvent(t)
  PROVE  TargetInv'
<1>1. /\ At(t, "signal") /\ "signal" \in Places /\ Top(thread[t]) = "signal" /\ Has(thread[t], "signal")
      /\ ~Idle(t) /\ UNCHANGED <<lock, req, owner, todo>>
  BY WorksOn DEF SetSentIoEvent, Places
<1>2. Fewer(t)
  BY <1>1, FewerMoves DEF SetSentIoEvent
<1>3. /\ \A u \in Threads : \A p : p # "signal" => (Has(thread'[u], p) <=> Has(thread[u], p))
      /\ \A u \in Threads : \A r, p : p # "signal" => (Works(thread'[u], r, p) <=> Works(thread[u], r, p))
      /\ \A u \in Threads : thread'[u].cur = thread[u].cur
      /\ Control \in Threads /\ \A r \in Requests : Sender(r) \in Threads
  BY <1>1, <1>2, MovesElsewhere, Kinds DEF Fewer
<1>4. SameLevel
  BY <1>1 DEF SameLevel
<1>5. /\ target'.state = target.state /\ target'.waiting = target.waiting /\ target'.removing = target.removing
      /\ target'.ioCount = target.ioCount
  BY CountSets DEF SetSentIoEvent, Target
<1>6. ControlInv'
  BY <1>1, <1>3, <1>5, ControlKeeps DEF TargetInv, ControlPlaces
<1>7. LockInv'
  BY <1>1, <1>3, <1>4, <1>5, LockStays DEF TargetInv
<1>8. EventInv'
  <2>1. ~target.waiting /\ ~target.removing /\ \A u \in Threads : Has(thread[u], "signal") => u = t
    BY <1>1 DEF TargetInv, EventInv
  <2>2. ~Has(thread'[t], "signal") /\ \A u \in Threads : u # t => thread'[u] = thread[u]
    BY <1>1, <1>2 DEF Fewer, Moves
  <2>3. \A u \in Threads : ~Has(thread'[u], "signal")
    BY <2>1, <2>2
  <2> QED BY <1>1, <1>5, <2>1, <2>3 DEF TargetInv, EventInv
<1>9. CountInv'
  <2>1. NeedsIt' = NeedsIt
    BY <1>1, <1>3, SameNeeds
  <2>2. Holders' = Holders
    BY <1>3 DEF Holders
  <2>3. Base' = Base /\ (Resubmitting' <=> Resubmitting)
    BY <1>1, <1>3, SameBase
  <2> QED BY <1>5, <2>1, <2>2, <2>3 DEF TargetInv, CountInv, Users
<1>10. DisposeInv'
  BY <1>1, <1>3, <1>5 DEF TargetInv, DisposeInv
<1> QED BY <1>6, <1>7, <1>8, <1>9, <1>10 DEF TargetInv

LEMMA DereferenceTarget ==
  ASSUME TypeInv, TargetInv, NEW t \in Threads, DecrementIoCount(t)
  PROVE  TargetInv'
<1>1. /\ At(t, "dereference") /\ "dereference" \in Places /\ Top(thread[t]) = "dereference"
      /\ Has(thread[t], "dereference") /\ ~Idle(t) /\ UNCHANGED <<lock, req, owner, todo>>
  BY WorksOn DEF DecrementIoCount, Places
<1>2. Fewer(t)
  BY <1>1, FewerMoves DEF DecrementIoCount
<1>3. /\ \A u \in Threads : \A p : p # "dereference" => (Has(thread'[u], p) <=> Has(thread[u], p))
      /\ \A u \in Threads : \A r, p : p # "dereference" => (Works(thread'[u], r, p) <=> Works(thread[u], r, p))
      /\ \A u \in Threads : thread'[u].cur = thread[u].cur
      /\ Control \in Threads /\ \A r \in Requests : Sender(r) \in Threads
  BY <1>1, <1>2, MovesElsewhere, Kinds DEF Fewer
<1>4. SameLevel
  BY <1>1 DEF SameLevel
<1>5. /\ target'.state = target.state /\ target'.waiting = target.waiting /\ target'.removing = target.removing
      /\ target'.event = target.event /\ target'.ioCount = target.ioCount - 1
  BY CountSets DEF DecrementIoCount, Target
<1>6. ControlInv'
  BY <1>1, <1>3, <1>5, ControlKeeps DEF TargetInv, ControlPlaces
<1>7. LockInv'
  BY <1>1, <1>3, <1>4, <1>5, LockStays DEF TargetInv
<1>8. EventInv'
  BY <1>1, <1>3, <1>4, <1>5, EventStays DEF TargetInv
<1>9. Cardinality(Holders') = Cardinality(Holders) - 1 /\ Cardinality(Holders') \in Nat
  <2>1. Holders' = Holders \ {t} /\ t \in Holders
    BY <1>1, <1>2 DEF Holders, Fewer, Moves
  <2> QED BY <2>1, CountSets, FS_RemoveElement, FS_CardinalityType
<1>10. CountInv'
  <2>1. NeedsIt' = NeedsIt
    BY <1>1, <1>3, SameNeeds
  <2>2. Base' = Base /\ (Resubmitting' <=> Resubmitting)
    BY <1>1, <1>3, SameBase
  <2> QED BY <1>5, <1>9, <2>1, <2>2, CountSets, BaseNumber DEF TargetInv, CountInv, Users
<1>11. DisposeInv'
  <2>1. target.ioCount # 0
    BY <1>9, CountSets, BaseNumber DEF TargetInv, CountInv, Users
  <2> QED BY <1>1, <1>3, <2>1 DEF TargetInv, DisposeInv
<1> QED BY <1>6, <1>7, <1>8, <1>10, <1>11 DEF TargetInv
-----------------------------------------------------------------------------
(* Submitting.                                                              *)

(* Who submits q has it to himself.                                         *)
LEMMA Submitter ==
  ASSUME TypeInv, RequestInv, NEW t \in Threads, NEW h \in Submitting, At(t, h), NEW q, q = Cur(t)
  PROVE  /\ q \in Requests /\ Top(thread[t]) = h /\ thread[t].cur = q /\ ~Idle(t) /\ Has(thread[t], h)
         /\ t = Sender(q) \/ (t = Control /\ Has(thread[Control], "resubmitted"))
         /\ req[q].list = "none"
         /\ \A p \in Submitting \cup {"signal", "dereference", "complete"} : Has(thread[t], p) => p = h
         /\ Needs(q) <=> h # "submit" \/ t = Control
         /\ \A u \in Threads : u # t => ~Works(thread[u], q, "submit") /\ ~Works(thread[u], q, "complete")
<1>1. /\ q \in Requests /\ Top(thread[t]) = h /\ ~Idle(t) /\ thread[t].cur = q /\ RequestOK(q)
      /\ h \in Places /\ Works(thread[t], q, h) /\ Carrying(t, q) /\ h \in Submitting
  BY AtSubmission
<1>2. Has(thread[t], h) /\ (t = Sender(q) \/ (t = Control /\ Has(thread[Control], "resubmitted")))
  BY <1>1 DEF Works, TypeInv, ShapeInv, ShapeOK
<1>3. req[q].list = "none" /\ owner[q] = "target"
  BY <1>1 DEF RequestOK, ListOK, SeatOK
<1>4. \A p \in Submitting \cup {"signal", "dereference", "complete"} : Has(thread[t], p) => p = h
  <2>1. RankOf(h) = 3 /\ Submitting \cap Beneath = {}
    BY DEF Submitting, RankOf, Beneath
  <2> QED BY <1>1, <2>1, LowPlaces, TopPlaces
<1>5. \A u \in Threads : u # t => ~Works(thread[u], q, "submit") /\ ~Works(thread[u], q, "complete")
  BY <1>1 DEF RequestOK, SeatOK, Carrying, CarrierPlaces, UncountedPlaces
<1>6. Sender(q) \in Threads /\ Sender(q) # Control /\ thread[Sender(q)].cur = q
  BY <1>1, Kinds DEF TypeInv, ShapeInv, ShapeOK
<1>7. \A u \in Threads : ~Works(thread[u], q, "complete")
  <2>1. "complete" \notin Submitting
    BY DEF Submitting
  <2> QED BY <1>1, <1>4, <1>5, <2>1 DEF Works
<1>8. Has(thread[Sender(q)], "submit") <=> h = "submit" /\ t = Sender(q)
  <2>1. "submit" \in Submitting
    BY DEF Submitting
  <2> QED BY <1>1, <1>2, <1>4, <1>5, <1>6, <2>1 DEF Works
<1>9. Needs(q) <=> h # "submit" \/ t = Control
  BY <1>2, <1>3, <1>6, <1>7, <1>8 DEF Needs
<1> QED BY <1>1, <1>2, <1>3, <1>4, <1>5, <1>9

(* The threads that a submission leaves alone.                              *)
LEMMA OthersNeed ==
  ASSUME TypeInv, NEW t \in Threads, NEW q \in Requests, thread[t].cur = q, thread'[t].cur = q,
         t = Sender(q) \/ t = Control, \A u \in Threads : u # t => thread'[u] = thread[u],
         \A r \in Requests : r # q => owner'[r] = owner[r]
  PROVE  \A r \in Requests : r # q => (Needs(r)' <=> Needs(r))
<1> SUFFICES ASSUME NEW r \in Requests, r # q
             PROVE  Needs(r)' <=> Needs(r)
  OBVIOUS
<1>1. Sender(r) \in Threads /\ Sender(r) # t
  BY Kinds
<1>2. \A u \in Threads : Works(thread'[u], r, "complete") <=> Works(thread[u], r, "complete")
  BY DEF Works
<1> QED BY <1>1, <1>2 DEF Needs, Sender

(* The request is not submitted.                                            *)
LEMMA NotSubmittedUsers ==
  ASSUME TypeInv, RequestInv, ControlInv, NEW t \in Threads, NEW h \in Submitting, At(t, h), NEW q, q = Cur(t),
         NotSubmitted(t), UNCHANGED todo
  PROVE  /\ \A u \in Threads : u # t => thread'[u] = thread[u]
         /\ \A p \in {"submitCounted", "submitChecked", "signal"} : ~Has(thread'[t], p)
         /\ Has(thread'[Control], "waitSent") <=> Has(thread[Control], "waitSent")
         /\ Has(thread'[Control], "waitDispose") <=> Has(thread[Control], "waitDispose")
         /\ UNCHANGED target.state => ControlInv'
         /\ Users' = IF h = "submit" THEN Users ELSE Users - 1
<1>1. /\ q \in Requests /\ Top(thread[t]) = h /\ thread[t].cur = q /\ ~Idle(t) /\ Has(thread[t], h)
      /\ t = Sender(q) \/ (t = Control /\ Has(thread[Control], "resubmitted"))
      /\ \A p \in Submitting \cup {"signal", "dereference", "complete"} : Has(thread[t], p) => p = h
      /\ Needs(q) <=> h # "submit" \/ t = Control
      /\ \A u \in Threads : u # t => ~Works(thread[u], q, "submit") /\ ~Works(thread[u], q, "complete")
  BY Submitter
<1>2. Sender(q) # Control /\ Sender(q) \in Threads /\ Control \in Threads /\ h \notin {"signal", "dereference", "complete"}
  BY <1>1, Kinds DEF Submitting
<1>3. ~Has(thread[t], "dereference") /\ ~Has(thread[t], "complete")
  BY <1>1, <1>2
<1>4. CASE t = Sender(q)
  <2>1. /\ \A u \in Threads : u # t => thread'[u] = thread[u]
        /\ thread'[t].cur = q /\ \A p : ~Has(thread'[t], p)
        /\ owner' = [owner EXCEPT ![q] = "driver"]
    BY <1>2, <1>4, NotSubmittedMoves
  <2>2. owner'[q] = "driver" /\ \A r \in Requests : r # q => owner'[r] = owner[r]
    <3>1. owner \in [Requests -> {"driver", "target"}]
      BY TypeParts DEF RestOK
    <3> QED BY <1>1, <2>1, <3>1
  <2>3. thread'[Control] = thread[Control]
    BY <1>2, <1>4, <2>1
  <2>4. \A r \in Requests : r # q => (Needs(r)' <=> Needs(r))
    BY <1>1, <1>4, <2>1, <2>2, OthersNeed
  <2>5. ~Needs(q)'
    BY <2>2 DEF Needs
  <2>6. NeedsIt' = NeedsIt \ {q}
    BY <2>4, <2>5 DEF NeedsIt
  <2>7. Cardinality(NeedsIt') = IF h = "submit" THEN Cardinality(NeedsIt) ELSE Cardinality(NeedsIt) - 1
    <3>1. CASE h = "submit"
      <4>1. NeedsIt' = NeedsIt
        BY <1>1, <1>2, <1>4, <2>6, <3>1 DEF NeedsIt
      <4> QED BY <3>1, <4>1
    <3>2. CASE h # "submit"
      <4>1. q \in NeedsIt
        BY <1>1, <3>2 DEF NeedsIt
      <4> QED BY <2>6, <3>2, <4>1, CountSets, FS_RemoveElement
    <3> QED BY <3>1, <3>2
  <2>8. Holders' = Holders
    BY <1>3, <2>1 DEF Holders
  <2>9. Base' = Base /\ (Resubmitting' <=> Resubmitting)
    BY <2>3, SameBase
  <2>10. Users' = IF h = "submit" THEN Users ELSE Users - 1
    BY <2>7, <2>8, <2>9, CountSets, BaseNumber DEF Users
  <2>11. UNCHANGED target.state => ControlInv'
    BY <2>3, ControlKeeps
  <2> QED BY <2>1, <2>3, <2>10, <2>11
<1>5. CASE t = Control
  <2>1. Begins(t, q, "failedResubmit", {"failedResubmit", "resubmit"}) /\ UNCHANGED owner
    BY <1>5, NotSubmittedMoves
  <2>2. /\ \A u \in Threads : u # Control => thread'[u] = thread[u]
        /\ thread'[Control].cur = q /\ \A p : Has(thread'[Control], p) <=> p \in {"failedResubmit", "resubmit"}
    BY <1>5, <2>1 DEF Begins
  <2>3. Has(thread[Control], "resubmitted") /\ todo.op = "Start"
    BY <1>1, <1>2, <1>5 DEF ControlInv
  <2>4. ~Has(thread[Control], "waitSent") /\ ~Has(thread[Control], "waitDispose") /\ ~Has(thread[Control], "dispose")
    BY <2>3 DEF ControlInv
  <2>5. \A r \in Requests : r # q => (Needs(r)' <=> Needs(r))
    BY <1>1, <1>5, <2>1, <2>2, OthersNeed
  <2>6. Needs(q)
    BY <1>1, <1>5
  <2>7. \A u \in Threads : ~Works(thread'[u], q, "complete")
    BY <1>1, <1>5, <2>2 DEF Works
  <2>8. Needs(q)'
    BY <1>2, <2>1, <2>2, <2>6, <2>7 DEF Needs, Sender
  <2>9. NeedsIt' = NeedsIt
    BY <2>5, <2>6, <2>8 DEF NeedsIt
  <2>10. Holders' = Holders
    BY <1>3, <1>5, <2>2 DEF Holders
  <2>11. ~Resubmitting' /\ (Resubmitting <=> h # "submit")
    <3>1. Has(thread[Control], "submit") <=> h = "submit"
      BY <1>1, <1>5 DEF Submitting
    <3> QED BY <2>2, <2>3, <3>1 DEF Resubmitting
  <2>12. Base' = Base
    BY <2>3 DEF Base
  <2>13. Users' = IF h = "submit" THEN Users ELSE Users - 1
    BY <2>9, <2>10, <2>11, <2>12, CountSets, BaseNumber DEF Users
  <2>14. UNCHANGED target.state => ControlInv'
    BY <2>2, <2>3 DEF ControlInv, WaitOps
  <2> QED BY <1>5, <2>2, <2>4, <2>13, <2>14
<1> QED BY <1>1, <1>4, <1>5
LEMMA SubmitRefusedTarget ==
  ASSUME TypeInv, RequestInv, TargetInv, NEW t \in Threads, SubmitRefused(t)
  PROVE  TargetInv'
<1>1. PICK q : q = Cur(t)
  OBVIOUS
<1>2. At(t, "submit") /\ "submit" \in Submitting /\ NotSubmitted(t) /\ Unlocked /\ UNCHANGED <<target, lock, todo>>
  BY DEF SubmitRefused, Submitting
<1>3. q \in Requests
  BY <1>1, <1>2, Submitter
<1>4. /\ \A u \in Threads : u # t => thread'[u] = thread[u]
      /\ \A p \in {"submitCounted", "submitChecked", "signal"} : ~Has(thread'[t], p)
      /\ Has(thread'[Control], "waitSent") <=> Has(thread[Control], "waitSent")
      /\ Has(thread'[Control], "waitDispose") <=> Has(thread[Control], "waitDispose")
      /\ ControlInv' /\ Users' = Users
  BY <1>1, <1>2, NotSubmittedUsers DEF TargetInv
<1>5. SameLevel
  <2>1. req \in [Requests -> Request] /\ req[q] \in Request /\ req' = [req EXCEPT ![q].status = "Refused"]
    BY <1>1, <1>3, Fields DEF SubmitRefused
  <2> QED BY <2>1 DEF SameLevel, Request
<1>6. LockInv'
  BY <1>2, <1>4, LockKeeps DEF TargetInv
<1>7. EventInv'
  BY <1>2, <1>4, <1>5, EventStays DEF TargetInv
<1>8. CountInv' /\ DisposeInv'
  BY <1>2, <1>4 DEF TargetInv, CountInv, DisposeInv
<1> QED BY <1>4, <1>6, <1>7, <1>8 DEF TargetInv

LEMMA SubmitAcceptTarget ==
  ASSUME TypeInv, RequestInv, TargetInv, NEW t \in Threads, SubmitAccept(t)
  PROVE  TargetInv'
<1>1. PICK q : q = Cur(t)
  OBVIOUS
<1>2. /\ At(t, "submit") /\ "submit" \in Submitting /\ Accepts(t) /\ Unlocked /\ lock' = t /\ UNCHANGED <<owner, todo>>
      /\ thread' = Jump(t, <<"submitCounted">>)
  BY DEF SubmitAccept, Submitting
<1>3. /\ q \in Requests /\ Top(thread[t]) = "submit" /\ thread[t].cur = q /\ Has(thread[t], "submit")
      /\ t = Sender(q) \/ (t = Control /\ Has(thread[Control], "resubmitted"))
      /\ req[q].list = "none" /\ \A p \in {"signal", "dereference", "complete"} : ~Has(thread[t], p)
      /\ Needs(q) <=> t = Control
      /\ \A u \in Threads : u # t => ~Works(thread[u], q, "submit") /\ ~Works(thread[u], q, "complete")
  BY <1>1, <1>2, Submitter
<1>4. Moves(t, {"submitCounted"}, {"submitCounted"})
  <2>1. /\ "submit" \in Places /\ "submitCounted" \in Places /\ RankOf("submitCounted") <= RankOf("submit")
        /\ Proper("submit", {"submitCounted"})
    BY DEF Places, RankOf, Proper, RequestPlaces, Submitting
  <2> QED BY <1>2, <2>1, OneMoves
<1>5. /\ \A u \in Threads : u # t => thread'[u] = thread[u]
      /\ thread'[t].cur = q
      /\ \A p : Has(thread'[t], p) <=> p = "submitCounted" \/ (Has(thread[t], p) /\ p # "submit")
      /\ \A u \in Threads : \A p : p \notin {"submit", "submitCounted"} => (Has(thread'[u], p) <=> Has(thread[u], p))
      /\ Control \in Threads
  BY <1>3, <1>4, Kinds DEF Moves
<1>6. /\ target'.state = target.state /\ target'.waiting = target.waiting /\ target'.removing = target.removing
      /\ target'.event = target.event /\ target'.ioCount = target.ioCount + 1
  BY CountSets DEF SubmitAccept, Target
<1>7. SameLevel
  <2>1. PICK F : req' = [req EXCEPT ![q].count = 1, ![q].list = "none", ![q].flags = F]
    BY <1>1 DEF SubmitAccept
  <2>2. req \in [Requests -> Request] /\ req[q] \in Request
    BY <1>3, Fields
  <2> QED BY <1>3, <2>1, <2>2 DEF SameLevel, Request
<1>8. target.state = "Deleted" => target.removing /\ Ignores(t)
  BY <1>2 DEF Accepts
<1>9. ControlInv'
  BY <1>2, <1>5, <1>6, ControlKeeps DEF TargetInv, ControlPlaces
<1>10. LockInv'
  <2>1. Ignores(t)' <=> Ignores(t)
    BY <1>3, <1>5, <1>7 DEF Ignores, SendOptions, Cur, SameLevel
  <2>2. \A u \in Threads : u # t => \A p \in {"submitCounted", "submitChecked"} : ~Has(thread'[u], p)
    BY <1>2, <1>5, Vacant DEF TargetInv
  <2> QED BY <1>2, <1>6, <1>8, <2>1, <2>2 DEF LockInv
<1>11. EventInv'
  BY <1>2, <1>5, <1>6, <1>7, EventStays DEF TargetInv
<1>12. Users' = Users + 1
  <2>1. \A r \in Requests : r # q => (Needs(r)' <=> Needs(r))
    BY <1>2, <1>3, <1>5, OthersNeed
  <2>2. Holders' = Holders
    BY <1>5 DEF Holders
  <2>3. owner[q] = "target"
    BY <1>1, <1>2, AtSubmission DEF RequestOK, SeatOK
  <2>4. Base' = Base
    BY <1>2, <1>5 DEF Base
  <2>5. ~Has(thread'[t], "submit") /\ \A u \in Threads : ~Works(thread'[u], q, "complete")
    BY <1>3, <1>5 DEF Works
  <2>6. Needs(q)'
    <3>1. Sender(q) \in Threads /\ thread[Sender(q)].cur = q
      BY <1>3, Kinds DEF TypeInv, ShapeInv, ShapeOK
    <3>2. ~Has(thread'[Sender(q)], "submit")
      BY <1>3, <1>5, <2>5, <3>1 DEF Works
    <3> QED BY <1>2, <2>3, <2>5, <3>2 DEF Needs, Sender
  <2>7. CASE t = Sender(q)
    <3>1. Sender(q) # Control
      BY <1>3, Kinds
    <3>2. NeedsIt' = NeedsIt \cup {q} /\ q \notin NeedsIt
      BY <1>3, <2>1, <2>6, <2>7, <3>1 DEF NeedsIt
    <3>3. Cardinality(NeedsIt') = Cardinality(NeedsIt) + 1
      BY <3>2, CountSets, FS_AddElement
    <3>4. Resubmitting' <=> Resubmitting
      BY <1>5, <2>7, <3>1 DEF Resubmitting
    <3> QED BY <2>2, <2>4, <3>3, <3>4, CountSets, BaseNumber DEF Users
  <2>8. CASE t = Control /\ Has(thread[Control], "resubmitted")
    <3>1. NeedsIt' = NeedsIt
      BY <1>3, <2>1, <2>6, <2>8 DEF NeedsIt
    <3>2. Resubmitting' /\ ~Resubmitting
      BY <1>3, <1>5, <2>5, <2>8 DEF Resubmitting
    <3> QED BY <2>2, <2>4, <3>1, <3>2, CountSets, BaseNumber DEF Users
  <2> QED BY <1>3, <2>7, <2>8
<1>13. CountInv'
  BY <1>6, <1>12 DEF TargetInv, CountInv
<1>14. DisposeInv'
  BY <1>2, <1>5, <1>6, <1>8 DEF TargetInv, DisposeInv, ControlInv, EventInv, Awaited
<1> QED BY <1>9, <1>10, <1>11, <1>13, <1>14 DEF TargetInv

(* A target that is submitted to is not disposed yet.                       *)
LEMMA Undisposed ==
  ASSUME TargetInv, NEW t \in Threads, NEW h \in {"submitCounted", "submitChecked"}, Has(thread[t], h)
  PROVE  /\ lock = t
         /\ target.state = "Deleted" => target.removing /\ Ignores(t)
         /\ todo.op = "Remove" => Has(thread[Control], "waitDispose")
         /\ \A u \in Threads : u # t => \A p \in {"submitCounted", "submitChecked"} : ~Has(thread[u], p)
BY DEF TargetInv, LockInv, ControlInv, EventInv, Awaited

(* The submission goes on, or ends, with nothing counted.                   *)
LEMMA SubmitOnward ==
  ASSUME TypeInv, RequestInv, TargetInv, NEW t \in Threads, NEW h \in {"submitCounted", "submitChecked"}, At(t, h),
         NEW tops, NEW new \in {{}, {"submitChecked"}, {"send"}}, Moves(t, tops, new),
         UNCHANGED <<target, owner, todo>>
  PROVE  /\ ControlInv' /\ CountInv' /\ DisposeInv'
         /\ \A u \in Threads : \A p \in {"signal", "waitSent"} : Has(thread'[u], p) <=> Has(thread[u], p)
         /\ \A u \in Threads : u # t => \A p \in {"submitCounted", "submitChecked"} : ~Has(thread'[u], p)
         /\ "submitChecked" \notin new => ~Has(thread'[t], "submitChecked")
         /\ ~Has(thread'[t], "submitCounted")
         /\ Control \in Threads
<1>1. PICK q : q = Cur(t)
  OBVIOUS
<1>2. h \in Submitting
  BY DEF Submitting
<1>3. /\ Top(thread[t]) = h /\ Has(thread[t], h)
      /\ \A p \in Submitting : Has(thread[t], p) => p = h
  BY <1>1, <1>2, Submitter
<1>4. /\ \A u \in Threads : u # t => thread'[u] = thread[u]
      /\ \A u \in Threads : \A p : p \notin {"submitCounted", "submitChecked", "send"} => (Has(thread'[u], p) <=> Has(thread[u], p))
      /\ \A u \in Threads : \A r, p : p \notin {"submitCounted", "submitChecked", "send"} =>
           (Works(thread'[u], r, p) <=> Works(thread[u], r, p))
      /\ \A p : Has(thread'[t], p) <=> p \in new \/ (Has(thread[t], p) /\ p # h)
      /\ Control \in Threads /\ \A r \in Requests : Sender(r) \in Threads
  BY <1>3, MovesElsewhere, Kinds DEF Moves
<1>5. ControlInv'
  BY <1>4, ControlKeeps DEF TargetInv, ControlPlaces
<1>6. CountInv'
  <2>1. NeedsIt' = NeedsIt
    BY <1>4, SameNeeds
  <2>2. Holders' = Holders
    BY <1>4 DEF Holders
  <2>3. Base' = Base /\ (Resubmitting' <=> Resubmitting)
    BY <1>4, SameBase
  <2> QED BY <2>1, <2>2, <2>3 DEF TargetInv, CountInv, Users
<1>7. DisposeInv'
  BY <1>4 DEF TargetInv, DisposeInv
<1>8. \A u \in Threads : u # t => \A p \in {"submitCounted", "submitChecked"} : ~Has(thread'[u], p)
  BY <1>3, <1>4, Undisposed
<1>9. ("submitChecked" \notin new => ~Has(thread'[t], "submitChecked")) /\ ~Has(thread'[t], "submitCounted")
  BY <1>3, <1>4 DEF Submitting
<1> QED BY <1>4, <1>5, <1>6, <1>7, <1>8, <1>9

LEMMA SubmitCancelledTarget ==
  ASSUME TypeInv, RequestInv, TargetInv, NEW t \in Threads, NEW h \in {"submitCounted", "submitChecked"}, At(t, h),
         SubmitCancelled(t), UNCHANGED todo
  PROVE  TargetInv'
<1>1. PICK q : q = Cur(t)
  OBVIOUS
<1>2. h \in Submitting
  BY DEF Submitting
<1>3. /\ q \in Requests /\ Top(thread[t]) = h /\ thread[t].cur = q /\ Has(thread[t], h) /\ ~Idle(t)
  BY <1>1, <1>2, Submitter
<1>4. SameLevel /\ lock' = NoThread
  <2>1. PICK n : req' = [req EXCEPT ![q].count = n, ![q].status = "Cancelled"]
    BY <1>1 DEF SubmitCancelled
  <2>2. req \in [Requests -> Request] /\ req[q] \in Request
    BY <1>3, Fields
  <2> QED BY <2>1, <2>2 DEF SameLevel, Request, SubmitCancelled
<1>5. CASE target' = [target EXCEPT !.ioCount = @ - 1] /\ NotSubmitted(t)
  <2>1. /\ target'.state = target.state /\ target'.waiting = target.waiting /\ target'.removing = target.removing
        /\ target'.event = target.event /\ target'.ioCount = target.ioCount - 1
    BY <1>5, CountSets DEF Target
  <2>2. /\ \A u \in Threads : u # t => thread'[u] = thread[u]
        /\ \A p \in {"submitCounted", "submitChecked", "signal"} : ~Has(thread'[t], p)
        /\ Has(thread'[Control], "waitSent") <=> Has(thread[Control], "waitSent")
        /\ Has(thread'[Control], "waitDispose") <=> Has(thread[Control], "waitDispose")
        /\ ControlInv' /\ Users' = Users - 1
    BY <1>1, <1>2, <1>5, <2>1, NotSubmittedUsers DEF TargetInv
  <2>3. LockInv'
    BY <1>3, <2>2, Undisposed DEF LockInv
  <2>4. EventInv'
    BY <1>4, <2>1, <2>2, EventStays DEF TargetInv
  <2>5. CountInv'
    BY <2>1, <2>2 DEF TargetInv, CountInv
  <2>6. DisposeInv'
    BY <1>3, <2>2, Undisposed DEF DisposeInv
  <2> QED BY <2>2, <2>3, <2>4, <2>5, <2>6 DEF TargetInv
<1>6. CASE thread' = Jump(t, <<>>) /\ UNCHANGED <<target, owner>>
  <2>1. Moves(t, Down, {})
    BY <1>3, <1>6, FewerMoves DEF Fewer
  <2>2. /\ ControlInv' /\ CountInv' /\ DisposeInv' /\ Control \in Threads
        /\ \A u \in Threads : \A p \in {"signal", "waitSent"} : Has(thread'[u], p) <=> Has(thread[u], p)
        /\ \A u \in Threads : \A p \in {"submitCounted", "submitChecked"} : ~Has(thread'[u], p)
    BY <1>6, <2>1, SubmitOnward
  <2>3. LockInv'
    BY <2>2 DEF LockInv
  <2>4. EventInv'
    BY <1>4, <1>6, <2>2, EventStays DEF TargetInv
  <2> QED BY <2>2, <2>3, <2>4 DEF TargetInv
<1> QED BY <1>5, <1>6 DEF SubmitCancelled

LEMMA SubmitCheckTarget ==
  ASSUME TypeInv, RequestInv, TargetInv, NEW t \in Threads, SubmitCheckCanceled(t)
  PROVE  TargetInv'
<1>1. At(t, "submitCounted") /\ UNCHANGED todo
  BY DEF SubmitCheckCanceled
<1>2. CASE SubmitCancelled(t)
  BY <1>1, <1>2, SubmitCancelledTarget
<1>3. CASE thread' = Jump(t, <<"submitChecked">>) /\ UNCHANGED <<target, lock, req, owner>>
  <2>1. Moves(t, {"submitChecked"}, {"submitChecked"}) /\ Top(thread[t]) = "submitCounted" /\ Has(thread[t], "submitCounted")
    <3>1. /\ "submitCounted" \in Places /\ "submitChecked" \in Places /\ RankOf("submitChecked") <= RankOf("submitCounted")
          /\ Proper("submitCounted", {"submitChecked"})
      BY DEF Places, RankOf, Proper, RequestPlaces, Submitting
    <3> QED BY <1>1, <1>3, <3>1, OneMoves, WorksOn
  <2>2. /\ ControlInv' /\ CountInv' /\ DisposeInv' /\ Control \in Threads
        /\ \A u \in Threads : \A p \in {"signal", "waitSent"} : Has(thread'[u], p) <=> Has(thread[u], p)
        /\ \A u \in Threads : u # t => \A p \in {"submitCounted", "submitChecked"} : ~Has(thread'[u], p)
    BY <1>1, <1>3, <2>1, SubmitOnward
  <2>3. SameLevel
    BY <1>3 DEF SameLevel
  <2>4. LockInv'
    <3>1. lock = t /\ (target.state = "Deleted" => target.removing /\ Ignores(t))
      BY <2>1, Undisposed
    <3>2. Ignores(t)' <=> Ignores(t)
      BY <1>3, <2>1 DEF Ignores, SendOptions, Cur, Moves
    <3> QED BY <1>3, <2>2, <3>1, <3>2 DEF LockInv
  <2>5. EventInv'
    BY <1>1, <1>3, <2>2, <2>3, EventStays DEF TargetInv
  <2> QED BY <2>2, <2>4, <2>5 DEF TargetInv
<1> QED BY <1>2, <1>3 DEF SubmitCheckCanceled

LEMMA SubmitSendTarget ==
  ASSUME TypeInv, RequestInv, TargetInv, NEW t \in Threads, SubmitSend(t)
  PROVE  TargetInv'
<1>1. PICK q : q = Cur(t)
  OBVIOUS
<1>2. /\ At(t, "submitChecked") /\ Sends(t) /\ lock' = NoThread /\ UNCHANGED <<target, owner, todo>>
      /\ thread' = Jump(t, <<"send">>)
  BY DEF SubmitSend
<1>3. q \in Requests /\ Has(thread[t], "submitChecked")
  <2>1. "submitChecked" \in Submitting
    BY DEF Submitting
  <2> QED BY <1>1, <1>2, <2>1, Submitter
<1>4. Moves(t, {"send"}, {"send"})
  <2>1. /\ "submitChecked" \in Places /\ "send" \in Places /\ RankOf("send") <= RankOf("submitChecked")
        /\ Proper("submitChecked", {"send"})
    BY DEF Places, RankOf, Proper, RequestPlaces, Submitting
  <2> QED BY <1>2, <2>1, OneMoves
<1>5. /\ ControlInv' /\ CountInv' /\ DisposeInv' /\ Control \in Threads
      /\ \A u \in Threads : \A p \in {"signal", "waitSent"} : Has(thread'[u], p) <=> Has(thread[u], p)
      /\ \A u \in Threads : \A p \in {"submitCounted", "submitChecked"} : ~Has(thread'[u], p)
  BY <1>2, <1>4, SubmitOnward
<1>6. LockInv'
  BY <1>5 DEF LockInv
<1>7. EventInv'
  <2>1. PICK l, F : req' = [req EXCEPT ![q].list = l, ![q].flags = F] /\ l = IF Ignores(t) THEN "ignored" ELSE "sent"
    BY <1>1 DEF SubmitSend
  <2>2. req \in [Requests -> Request] /\ req[q] \in Request
    BY <1>3, Fields
  <2>3. req'[q].list = l /\ \A r \in Requests : r # q => req'[r] = req[r]
    BY <1>3, <2>1, <2>2 DEF Request
  <2>4. target.state = "Deleted" => target.removing
    BY <1>3, Undisposed
  <2>5. todo.op = "Remove" => target.removing
    BY <2>4 DEF TargetInv, ControlInv
  <2>6. todo.op \in WaitOps => l # "sent"
    BY <1>2, <2>1 DEF TargetInv, ControlInv, Sends
  <2>7. Awaited' <=> Awaited
    BY <1>2, <1>5 DEF Awaited
  <2> QED BY <1>2, <1>5, <2>3, <2>5, <2>6, <2>7 DEF TargetInv, EventInv
<1> QED BY <1>5, <1>6, <1>7 DEF TargetInv

LEMMA PendTarget ==
  ASSUME TypeInv, RequestInv, TargetInv, NEW t \in Threads, PendRequestLocked(t)
  PROVE  TargetInv'
<1>1. PICK q : q = Cur(t)
  OBVIOUS
<1>2. At(t, "submitChecked") /\ UNCHANGED todo
  BY DEF PendRequestLocked
<1>3. CASE SubmitCancelled(t)
  BY <1>2, <1>3, SubmitCancelledTarget
<1>4. CASE /\ req' = [req EXCEPT ![q].list = "pended", ![q].cancelRoutine = TRUE, ![q].flags = StartTimer(t, @)]
           /\ lock' = NoThread /\ thread' = Jump(t, <<>>) /\ UNCHANGED <<target, owner>>
  <2>1. q \in Requests /\ req[q].list = "none" /\ ~Idle(t)
    <3>1. "submitChecked" \in Submitting
      BY DEF Submitting
    <3> QED BY <1>1, <1>2, <3>1, Submitter
  <2>2. Moves(t, Down, {})
    BY <1>4, <2>1, FewerMoves DEF Fewer
  <2>3. /\ ControlInv' /\ CountInv' /\ DisposeInv' /\ Control \in Threads
        /\ \A u \in Threads : \A p \in {"signal", "waitSent"} : Has(thread'[u], p) <=> Has(thread[u], p)
        /\ \A u \in Threads : \A p \in {"submitCounted", "submitChecked"} : ~Has(thread'[u], p)
    BY <1>2, <1>4, <2>2, SubmitOnward
  <2>4. LockInv'
    BY <2>3 DEF LockInv
  <2>5. SameLevel
    <3>1. PICK F : req' = [req EXCEPT ![q].list = "pended", ![q].cancelRoutine = TRUE, ![q].flags = F]
      BY <1>4
    <3>2. req \in [Requests -> Request] /\ req[q] \in Request
      BY <2>1, Fields
    <3> QED BY <2>1, <3>1, <3>2 DEF SameLevel, Request
  <2>6. EventInv'
    BY <1>2, <1>4, <2>3, <2>5, EventStays DEF TargetInv
  <2> QED BY <2>3, <2>4, <2>6 DEF TargetInv
<1> QED BY <1>1, <1>3, <1>4 DEF PendRequestLocked
-----------------------------------------------------------------------------
(* Sending.                                                                 *)

LEMMA RequestSendTarget ==
  ASSUME TypeInv, RequestInv, TargetInv, NEW q \in Requests, RequestSend(q)
  PROVE  TargetInv'
<1>1. owner[q] = "driver" /\ Idle(Sender(q)) /\ UNCHANGED <<target, lock, todo>>
  BY DEF RequestSend
<1>2. PICK new : Begins(Sender(q), q, "submit", new) /\ "submit" \in new /\ new \subseteq {"submit", "wait"}
  BY SendTypes
<1>3. /\ \A u \in Threads : u # Sender(q) => thread'[u] = thread[u]
      /\ thread'[Sender(q)].cur = q /\ \A p : Has(thread'[Sender(q)], p) <=> p \in new
      /\ \A p : ~Has(thread[Sender(q)], p)
      /\ Sender(q) \in Threads /\ Control \in Threads /\ Control # Sender(q)
  BY <1>1, <1>2, Kinds, TypeParts, TopOfStack DEF Begins
<1>4. thread'[Control] = thread[Control]
  BY <1>3
<1>5. /\ owner'[q] = "target" /\ \A r \in Requests : r # q => owner'[r] = owner[r]
      /\ \A r \in Requests : r # q => req'[r] = req[r]
      /\ \A r \in Requests : req'[r].list = req[r].list
  <2>1. req \in [Requests -> Request] /\ req[q] \in Request /\ owner \in [Requests -> {"driver", "target"}]
    BY Fields
  <2>2. PICK options : req' = [req EXCEPT ![q] = Reused(q, options)]
    BY DEF RequestSend
  <2>3. req[q].list = "none"
    BY <1>1 DEF RequestInv, RequestOK, SeatOK
  <2>4. owner' = [owner EXCEPT ![q] = "target"]
    BY DEF RequestSend
  <2> QED BY <2>1, <2>2, <2>3, <2>4 DEF Reused, Request
<1>6. ControlInv'
  BY <1>1, <1>4, ControlKeeps DEF TargetInv
<1>7. LockInv'
  <2> SUFFICES ASSUME NEW u \in Threads, NEW p \in {"submitCounted", "submitChecked"}, Has(thread'[u], p)
               PROVE  lock' = u /\ (target'.state = "Deleted" => target'.removing /\ Ignores(u)')
    BY DEF LockInv
  <2>1. u # Sender(q) /\ Has(thread[u], p) /\ thread'[u] = thread[u]
    BY <1>2, <1>3
  <2>2. thread[u].cur \in Requests
    BY <2>1 DEF TypeInv, ShapeInv, ShapeOK, RequestPlaces
  <2>3. thread[u].cur # q
    <3>1. SUFFICES ASSUME thread[u].cur = q
                   PROVE  FALSE
      OBVIOUS
    <3>2. Carrying(u, q)
      BY <2>1, <3>1 DEF Carrying, CarrierPlaces, CountedPlaces, Works
    <3> QED BY <1>1, <3>2 DEF RequestInv, RequestOK, SeatOK
  <2>4. Ignores(u)' <=> Ignores(u)
    BY <1>5, <2>1, <2>2, <2>3 DEF Ignores, SendOptions, Cur
  <2> QED BY <1>1, <2>1, <2>4 DEF TargetInv, LockInv
<1>8. EventInv'
  <2>1. Awaited' <=> Awaited
    BY <1>1, <1>4 DEF Awaited
  <2>2. \A u \in Threads : Has(thread'[u], "signal") => Has(thread[u], "signal")
    BY <1>2, <1>3
  <2> QED BY <1>1, <1>5, <2>1, <2>2 DEF TargetInv, EventInv
<1>9. CountInv'
  <2>1. \A r \in Requests : r # q => (Needs(r)' <=> Needs(r))
    <3>1. thread[Sender(q)].cur = q
      BY <1>3, Kinds DEF TypeInv, ShapeInv, ShapeOK
    <3> QED BY <1>3, <1>5, <3>1, OthersNeed
  <2>2. ~Needs(q)
    BY <1>1 DEF Needs
  <2>3. ~Needs(q)'
    BY <1>2, <1>3 DEF Needs, Sender
  <2>4. NeedsIt' = NeedsIt
    BY <2>1, <2>2, <2>3 DEF NeedsIt
  <2>5. Holders' = Holders
    BY <1>2, <1>3 DEF Holders
  <2>6. Base' = Base /\ (Resubmitting' <=> Resubmitting)
    BY <1>1, <1>4, SameBase
  <2> QED BY <1>1, <2>4, <2>5, <2>6 DEF TargetInv, CountInv, Users
<1>10. DisposeInv'
  BY <1>1, <1>4 DEF TargetInv, DisposeInv
<1> QED BY <1>6, <1>7, <1>8, <1>9, <1>10 DEF TargetInv

-----------------------------------------------------------------------------
(* The operations' loops and waits.                                         *)

LoopTops == {"resubmit", "resubmitted", "failPended", "cancelSent", "waitSent", "waited", "dispose", "waitDispose"}

LEMMA LoopTop ==
  ASSUME TypeInv, NEW h \in LoopTops, Top(thread[Control]) = h
  PROVE  /\ \A p : Has(thread[Control], p) => p = h \/ RankOf(h) < RankOf(p)
         /\ Has(thread[Control], h) /\ Control \in Threads
         /\ \A p \in {"submit", "submitCounted", "submitChecked", "signal", "dereference", "complete"} :
              ~Has(thread[Control], p)
<1>1. /\ \A p : Has(thread[Control], p) => p = h \/ RankOf(h) < RankOf(p)
      /\ Has(thread[Control], h) /\ Control \in Threads
  BY Kinds, TypeParts, TopOfStack DEF LoopTops
<1>2. \A p \in {"submit", "submitCounted", "submitChecked", "signal", "dereference", "complete"} :
         p # h /\ ~(RankOf(h) < RankOf(p))
  BY DEF LoopTops, RankOf
<1> QED BY <1>1, <1>2

LEMMA LoopGoesOn ==
  ASSUME TypeInv, NEW h \in LoopTops, Top(thread[Control]) = h, NEW tops, NEW new \in {{}, {"waited"}},
         Moves(Control, tops, new), UNCHANGED owner
  PROVE  /\ \A u \in Threads : thread'[u].cur = thread[u].cur
         /\ \A u \in Threads : \A p \in {"submit", "submitCounted", "submitChecked", "signal"} :
              Has(thread'[u], p) <=> Has(thread[u], p)
         /\ \A p : Has(thread'[Control], p) <=> p \in new \/ (Has(thread[Control], p) /\ p # h)
         /\ NeedsIt' = NeedsIt /\ Holders' = Holders
<1>1. /\ \A u \in Threads : \A p : p \notin {h, "waited"} => (Has(thread'[u], p) <=> Has(thread[u], p))
      /\ \A u \in Threads : \A r, p : p \notin {h, "waited"} => (Works(thread'[u], r, p) <=> Works(thread[u], r, p))
      /\ \A u \in Threads : thread'[u].cur = thread[u].cur
  BY MovesElsewhere, Kinds
<1>2. {"submit", "submitCounted", "submitChecked", "signal", "complete", "dereference"} \cap {h, "waited"} = {}
  BY DEF LoopTops
<1>3. NeedsIt' = NeedsIt
  BY <1>1, <1>2, SameNeeds, Kinds
<1>4. Holders' = Holders
  BY <1>1, <1>2 DEF Holders
<1>5. \A p : Has(thread'[Control], p) <=> p \in new \/ (Has(thread[Control], p) /\ p # h)
  BY DEF Moves
<1> QED BY <1>1, <1>2, <1>3, <1>4, <1>5

LEMMA ResubmitTarget ==
  ASSUME TypeInv, TargetInv, SubmitPendedRequest
  PROVE  TargetInv'
<1>1. /\ Top(thread[Control]) = "resubmit" /\ "resubmit" \in LoopTops /\ UNCHANGED <<target, lock, req, owner>>
      /\ Control \in Threads
  BY ResubmitTypes, Kinds DEF SubmitPendedRequest, LoopTops
<1>2. /\ \A p : Has(thread[Control], p) => p = "resubmit" \/ RankOf("resubmit") < RankOf(p)
      /\ Has(thread[Control], "resubmit")
      /\ \A p \in {"submit", "submitCounted", "submitChecked", "signal", "dereference", "complete"} :
           ~Has(thread[Control], p)
  BY <1>1, LoopTop
<1>3. todo.op = "Start" /\ ~Has(thread[Control], "waitSent") /\ ~Has(thread[Control], "dispose")
      /\ ~Has(thread[Control], "waitDispose")
  BY <1>2 DEF TargetInv, ControlInv
<1>4. ~Has(thread[Control], "resubmitted")
  BY <1>2 DEF RankOf
<1>5. SameLevel
  BY <1>1 DEF SameLevel
<1>6. ASSUME NEW r \in todo.pended, Begins(Control, r, "submit", {"submit", "resubmitted", "resubmit"}),
             todo' = [todo EXCEPT !.pended = @ \ {r}]
      PROVE  TargetInv'
  <2>1. /\ \A u \in Threads : u # Control => thread'[u] = thread[u]
        /\ \A p : Has(thread'[Control], p) <=> p \in {"submit", "resubmitted", "resubmit"}
    BY <1>6 DEF Begins
  <2>2. todo'.op = "Start" /\ todo'.wait = todo.wait
    <3>1. todo \in [op : Operations, pended : SUBSET Requests, sent : SUBSET Requests, wait : BOOLEAN]
      BY TypeParts DEF RestOK
    <3> QED BY <1>3, <1>6, <3>1
  <2>3. ControlInv'
    BY <1>1, <1>3, <2>1, <2>2 DEF TargetInv, ControlInv, WaitOps
  <2>4. LockInv'
    BY <1>1, <1>5, <2>1, LockStays DEF TargetInv
  <2>5. EventInv'
    BY <1>1, <1>3, <1>5, <2>1, <2>2, EventStays DEF TargetInv
  <2>6. NeedsIt' = NeedsIt
    <3>1. \A u \in Threads : \A x \in Requests : Works(thread'[u], x, "complete") <=> Works(thread[u], x, "complete")
      BY <1>2, <2>1 DEF Works
    <3>2. \A x \in Requests : Has(thread'[Sender(x)], "submit") <=> Has(thread[Sender(x)], "submit")
      BY <2>1, Kinds
    <3> QED BY <1>1, <3>1, <3>2, SameNeeds
  <2>7. Holders' = Holders
    BY <1>2, <2>1 DEF Holders
  <2>8. Base' = Base /\ ~Resubmitting' /\ ~Resubmitting
    BY <1>3, <1>4, <2>1, <2>2 DEF Base, Resubmitting
  <2>9. CountInv'
    BY <1>1, <2>6, <2>7, <2>8 DEF TargetInv, CountInv, Users
  <2>10. DisposeInv'
    BY <2>2 DEF DisposeInv
  <2> QED BY <2>3, <2>4, <2>5, <2>9, <2>10 DEF TargetInv
<1>7. ASSUME todo.pended = {}, Fewer(Control), UNCHANGED todo
      PROVE  TargetInv'
  <2>1. /\ \A u \in Threads : thread'[u].cur = thread[u].cur
        /\ \A u \in Threads : \A p \in {"submit", "submitCounted", "submitChecked", "signal"} :
             Has(thread'[u], p) <=> Has(thread[u], p)
        /\ \A p : Has(thread'[Control], p) <=> Has(thread[Control], p) /\ p # "resubmit"
        /\ NeedsIt' = NeedsIt /\ Holders' = Holders
    BY <1>1, <1>7, LoopGoesOn DEF Fewer
  <2>2. ControlInv'
    BY <1>1, <1>3, <1>7, <2>1 DEF TargetInv, ControlInv, WaitOps
  <2>3. LockInv'
    BY <1>1, <1>5, <2>1, LockStays DEF TargetInv
  <2>4. EventInv'
    BY <1>1, <1>5, <1>7, <2>1, EventStays DEF TargetInv
  <2>5. Base' = Base /\ (Resubmitting' <=> Resubmitting)
    BY <1>7, <2>1, SameBase
  <2>6. CountInv'
    BY <1>1, <2>1, <2>5 DEF TargetInv, CountInv, Users
  <2>7. DisposeInv'
    BY <1>3, <1>7 DEF DisposeInv
  <2> QED BY <2>2, <2>3, <2>4, <2>6, <2>7 DEF TargetInv
<1> QED BY <1>6, <1>7, ResubmitTypes

LEMMA QuietCalls ==
  ASSUME TypeInv, NEW h \in {"failPended", "cancelSent"}, Top(thread[Control]) = h,
         NEW r, NEW p \in {"completion", "cancel"}, Calls(r, p),
         UNCHANGED <<target, lock, owner>>, SameLevel,
         todo'.op = todo.op, todo'.wait = todo.wait, todo'.pended \subseteq todo.pended
  PROVE  Quiet
<1>1. p \notin Watched /\ h \in LoopTops
  BY DEF Watched, LoopTops
<1>2. \A x \in {"complete", "submitCounted", "submitChecked"} : ~Has(thread[Control], x)
  BY <1>1, LoopTop
<1> QED BY <1>1, <1>2 DEF Quiet, Calls

LEMMA FailPendedTarget ==
  ASSUME TypeInv, TargetInv, FailPendedRequest
  PROVE  TargetInv'
<1>1. /\ Top(thread[Control]) = "failPended" /\ "failPended" \in LoopTops /\ UNCHANGED <<target, lock, owner>>
      /\ Control \in Threads
      /\ todo \in [op : Operations, pended : SUBSET Requests, sent : SUBSET Requests, wait : BOOLEAN]
  BY FailPendedTypes, Kinds, TypeParts DEF FailPendedRequest, LoopTops, RestOK
<1>2. ASSUME NEW r \in todo.pended, Calls(r, "completion"), todo' = [todo EXCEPT !.pended = @ \ {r}],
             req' = [req EXCEPT ![r].status = "NotSent"]
      PROVE  TargetInv'
  <2>1. todo'.op = todo.op /\ todo'.wait = todo.wait /\ todo'.pended \subseteq todo.pended /\ r \in Requests
    BY <1>1, <1>2
  <2>2. req \in [Requests -> Request] /\ req[r] \in Request
    BY <2>1, Fields
  <2>3. SameLevel
    BY <1>2, <2>1, <2>2 DEF SameLevel, Request
  <2> QED BY <1>1, <1>2, <2>1, <2>3, QuietCalls, QuietKeeps
<1>3. ASSUME todo.pended = {}, Fewer(Control), UNCHANGED todo, UNCHANGED req
      PROVE  TargetInv'
  <2>1. /\ \A u \in Threads : thread'[u].cur = thread[u].cur
        /\ \A u \in Threads : \A p \in {"submit", "submitCounted", "submitChecked", "signal"} :
             Has(thread'[u], p) <=> Has(thread[u], p)
        /\ \A p : Has(thread'[Control], p) <=> Has(thread[Control], p) /\ p # "failPended"
        /\ NeedsIt' = NeedsIt /\ Holders' = Holders
    BY <1>1, <1>3, LoopGoesOn DEF Fewer
  <2>2. SameLevel
    BY <1>3 DEF SameLevel
  <2>3. ControlInv'
    BY <1>1, <1>3, <2>1 DEF TargetInv, ControlInv
  <2>4. LockInv'
    BY <1>1, <2>1, <2>2, LockStays DEF TargetInv
  <2>5. EventInv'
    BY <1>1, <1>3, <2>1, <2>2, EventStays DEF TargetInv
  <2>6. Base' = Base /\ (Resubmitting' <=> Resubmitting)
    BY <1>3, <2>1, SameBase
  <2>7. CountInv'
    BY <1>1, <2>1, <2>6 DEF TargetInv, CountInv, Users
  <2>8. DisposeInv'
    BY <1>1, <1>3, <2>1 DEF TargetInv, DisposeInv
  <2> QED BY <2>3, <2>4, <2>5, <2>7, <2>8 DEF TargetInv
<1> QED BY <1>2, <1>3, FailPendedTypes

LEMMA CancelSentTarget ==
  ASSUME TypeInv, TargetInv, CancelSentRequests
  PROVE  TargetInv'
<1>1. /\ Top(thread[Control]) = "cancelSent" /\ UNCHANGED <<target, lock, req, owner>> /\ Control \in Threads
      /\ todo \in [op : Operations, pended : SUBSET Requests, sent : SUBSET Requests, wait : BOOLEAN]
  BY CancelSentTypes, Kinds, TypeParts DEF CancelSentRequests, RestOK
<1>2. SameLevel
  BY <1>1 DEF SameLevel
<1>3. ASSUME NEW r \in todo.sent, Calls(r, "cancel"), todo' = [todo EXCEPT !.sent = @ \ {r}]
      PROVE  TargetInv'
  <2>1. todo'.op = todo.op /\ todo'.wait = todo.wait /\ todo'.pended \subseteq todo.pended
    BY <1>1, <1>3
  <2> QED BY <1>1, <1>2, <1>3, <2>1, QuietCalls, QuietKeeps
<1>4. ASSUME Fewer(Control), UNCHANGED todo
      PROVE  TargetInv'
  <2>1. "cancelSent" \notin Watched
    BY DEF Watched
  <2> QED BY <1>1, <1>2, <1>4, <2>1, QuietMoves, QuietKeeps DEF Fewer
<1> QED BY <1>3, <1>4, CancelSentTypes
LEMMA ResubmittedTarget ==
  ASSUME TypeInv, TargetInv, Resubmitted
  PROVE  TargetInv'
<1>1. /\ At(Control, "resubmitted") /\ "resubmitted" \in Places /\ "resubmitted" \in LoopTops /\ Control \in Threads
      /\ UNCHANGED <<lock, req, owner, todo>> /\ thread' = Jump(Control, <<>>)
  BY Kinds DEF Resubmitted, LoopTops, Places
<1>2. Top(thread[Control]) = "resubmitted" /\ ~Idle(Control)
  BY <1>1, WorksOn
<1>3. Fewer(Control)
  BY <1>1, <1>2, FewerMoves
<1>4. Has(thread[Control], "resubmitted") /\ ~Has(thread[Control], "submit")
  BY <1>1, <1>2, LoopTop
<1>5. /\ \A u \in Threads : thread'[u].cur = thread[u].cur
      /\ \A u \in Threads : \A p \in {"submit", "submitCounted", "submitChecked", "signal"} :
           Has(thread'[u], p) <=> Has(thread[u], p)
      /\ \A p : Has(thread'[Control], p) <=> Has(thread[Control], p) /\ p # "resubmitted"
      /\ NeedsIt' = NeedsIt /\ Holders' = Holders
  BY <1>1, <1>2, <1>3, LoopGoesOn DEF Fewer
<1>6. todo.op = "Start"
  BY <1>4 DEF TargetInv, ControlInv
<1>7. /\ target'.state = target.state /\ target'.waiting = target.waiting /\ target'.removing = target.removing
      /\ target'.event = target.event /\ target'.ioCount = target.ioCount - 1
  BY CountSets DEF Resubmitted, Target
<1>8. SameLevel
  BY <1>1 DEF SameLevel
<1>9. ControlInv'
  <2>1. todo.pended # {} => Has(thread[Control], "resubmit")
    BY <1>6 DEF TargetInv, ControlInv
  <2> QED BY <1>1, <1>5, <1>6, <1>7, <2>1 DEF TargetInv, ControlInv
<1>10. LockInv'
  BY <1>1, <1>5, <1>7, <1>8, LockStays DEF TargetInv
<1>11. EventInv'
  BY <1>1, <1>5, <1>7, <1>8, EventStays DEF TargetInv
<1>12. CountInv'
  <2>1. Base' = Base
    BY <1>1, <1>6 DEF Base
  <2>2. Resubmitting /\ ~Resubmitting'
    BY <1>4, <1>5 DEF Resubmitting
  <2> QED BY <1>5, <1>7, <2>1, <2>2, CountSets, BaseNumber DEF TargetInv, CountInv, Users
<1>13. DisposeInv'
  BY <1>1, <1>6 DEF DisposeInv
<1> QED BY <1>9, <1>10, <1>11, <1>12, <1>13 DEF TargetInv

(* The wait is over, so nobody has a signal left to give.                   *)
LEMMA WaitTarget ==
  ASSUME TypeInv, TargetInv, WaitForSentIoToComplete
  PROVE  TargetInv'
<1>1. /\ At(Control, "waitSent") /\ "waitSent" \in Places /\ "waitSent" \in LoopTops /\ Control \in Threads
      /\ UNCHANGED <<target, lock, req, owner, todo>> /\ ~Awaited
  BY Kinds DEF WaitForSentIoToComplete, LoopTops, Places, Awaited
<1>2. Top(thread[Control]) = "waitSent"
  BY <1>1, WorksOn
<1>3. PICK new \in {{}, {"waited"}} : \E tops : Moves(Control, tops, new)
  BY WaitTypes DEF Fewer
<1>4. /\ \A u \in Threads : thread'[u].cur = thread[u].cur
      /\ \A u \in Threads : \A p \in {"submit", "submitCounted", "submitChecked", "signal"} :
           Has(thread'[u], p) <=> Has(thread[u], p)
      /\ \A p : Has(thread'[Control], p) <=> p \in new \/ (Has(thread[Control], p) /\ p # "waitSent")
      /\ NeedsIt' = NeedsIt /\ Holders' = Holders
  BY <1>1, <1>2, <1>3, LoopGoesOn
<1>5. SameLevel
  BY <1>1 DEF SameLevel
<1>6. ControlInv'
  BY <1>1, <1>4 DEF TargetInv, ControlInv
<1>7. LockInv'
  BY <1>1, <1>4, <1>5, LockStays DEF TargetInv
<1>8. EventInv'
  BY <1>1, <1>4 DEF TargetInv, EventInv
<1>9. CountInv'
  <2>1. Base' = Base /\ (Resubmitting' <=> Resubmitting)
    BY <1>1, <1>4, SameBase
  <2> QED BY <1>1, <1>4, <2>1 DEF TargetInv, CountInv, Users
<1>10. DisposeInv'
  BY <1>1, <1>4 DEF TargetInv, DisposeInv
<1> QED BY <1>6, <1>7, <1>8, <1>9, <1>10 DEF TargetInv

LEMMA WaitEndsTarget ==
  ASSUME TypeInv, TargetInv, WaitEnds
  PROVE  TargetInv'
<1>1. /\ At(Control, "waited") /\ "waited" \in Places /\ "waited" \in LoopTops /\ "waited" \notin Watched
      /\ Control \in Threads /\ UNCHANGED <<lock, req, owner, todo>> /\ thread' = Jump(Control, <<>>)
  BY Kinds DEF WaitEnds, LoopTops, Places, Watched
<1>2. Top(thread[Control]) = "waited"
  BY <1>1, WorksOn
<1>3. ~Has(thread[Control], "waitSent")
  BY <1>1, <1>2, LoopTop DEF RankOf
<1>4. UNCHANGED target
  <2>1. target.waiting = FALSE
    BY <1>3, CountSets DEF TargetInv, EventInv, Awaited, Target
  <2> QED BY <2>1, CountSets DEF WaitEnds, Target
<1>5. SameLevel
  BY <1>1 DEF SameLevel
<1> QED BY <1>1, <1>4, <1>5, QuietJumps, QuietKeeps

LEMMA DisposeTarget ==
  ASSUME TypeInv, TargetInv, WaitForDisposeEvent
  PROVE  TargetInv'
<1>1. PICK h \in {"dispose", "waitDispose"} :
         /\ At(Control, h) /\ thread' = Jump(Control, <<>>)
         /\ h = "dispose" => target' = [target EXCEPT !.ioCount = @ - 1]
         /\ h = "waitDispose" => UNCHANGED target /\ target.ioCount = 0
  BY DEF WaitForDisposeEvent
<1>2. h \in Places /\ h \in LoopTops /\ Control \in Threads /\ UNCHANGED <<lock, req, owner, todo>>
  BY Kinds DEF WaitForDisposeEvent, LoopTops, Places
<1>3. Top(thread[Control]) = h /\ ~Idle(Control)
  BY <1>1, <1>2, WorksOn
<1>4. Fewer(Control)
  BY <1>1, <1>2, <1>3, FewerMoves
<1>5. /\ Has(thread[Control], h) /\ ~Has(thread[Control], "waitSent")
      /\ h = "waitDispose" => ~Has(thread[Control], "dispose")
  BY <1>2, <1>3, LoopTop DEF RankOf
<1>6. /\ \A u \in Threads : thread'[u].cur = thread[u].cur
      /\ \A u \in Threads : \A p \in {"submit", "submitCounted", "submitChecked", "signal"} :
           Has(thread'[u], p) <=> Has(thread[u], p)
      /\ \A p : Has(thread'[Control], p) <=> Has(thread[Control], p) /\ p # h
      /\ NeedsIt' = NeedsIt /\ Holders' = Holders
  BY <1>2, <1>3, <1>4, LoopGoesOn DEF Fewer
<1>7. todo.op = "Remove" /\ (h = "dispose" => Has(thread[Control], "waitDispose"))
  BY <1>5 DEF TargetInv, ControlInv
<1>8. /\ target'.state = target.state /\ target'.waiting = target.waiting /\ target'.removing = target.removing
      /\ target'.event = target.event
      /\ target'.ioCount = IF h = "dispose" THEN target.ioCount - 1 ELSE target.ioCount
  BY <1>1, CountSets DEF Target
<1>9. SameLevel
  BY <1>2 DEF SameLevel
<1>10. ControlInv'
  BY <1>2, <1>5, <1>6, <1>7, <1>8 DEF TargetInv, ControlInv
<1>11. LockInv'
  BY <1>2, <1>6, <1>8, <1>9, LockStays DEF TargetInv
<1>12. EventInv'
  BY <1>2, <1>6, <1>8, <1>9, EventStays DEF TargetInv
<1>13. CountInv'
  <2>1. Base = (IF h = "dispose" THEN 1 ELSE 0) /\ Base' = 0
    BY <1>2, <1>5, <1>6, <1>7 DEF Base
  <2>2. Resubmitting' <=> Resubmitting
    BY <1>2, <1>6 DEF Resubmitting
  <2> QED BY <1>6, <1>8, <2>1, <2>2, CountSets DEF TargetInv, CountInv, Users
<1>14. DisposeInv'
  BY <1>1, <1>2, <1>6, <1>7, <1>8 DEF DisposeInv
<1> QED BY <1>10, <1>11, <1>12, <1>13, <1>14 DEF TargetInv
-----------------------------------------------------------------------------
(* An operation begins when the last one returned.                          *)

LEMMA Returned ==
  ASSUME TypeInv, TargetInv, Idle(Control)
  PROVE  /\ todo.pended = {} /\ target.waiting = FALSE /\ target.removing = FALSE
         /\ \A t \in Threads : ~Has(thread[t], "signal")
         /\ \A p : ~Has(thread[Control], p)
<1>1. \A p : ~Has(thread[Control], p)
  BY Kinds, TypeParts, TopOfStack
<1>2. ~Awaited
  BY <1>1 DEF Awaited
<1> QED BY <1>1, <1>2, CountSets DEF TargetInv, ControlInv, EventInv, Target

LEMMA OperationBegins ==
  ASSUME TypeInv, TargetInv, Idle(Control), Unlocked, target.state # "Deleted",
         NEW top, NEW new, Begins(Control, NoRequest, top, new), new \subseteq OperationPlaces,
         UNCHANGED owner, target'.ioCount = target.ioCount,
         todo'.op = "Remove" => "dispose" \in new /\ "waitDispose" \in new
  PROVE  /\ LockInv' /\ CountInv' /\ DisposeInv'
         /\ \A t \in Threads : ~Has(thread'[t], "signal")
         /\ \A p : Has(thread'[Control], p) <=> p \in new
<1>1. /\ \A t \in Threads : ~Has(thread[t], "signal")
      /\ \A p : ~Has(thread[Control], p)
  BY Returned
<1>2. /\ \A u \in Threads : u # Control => thread'[u] = thread[u]
      /\ \A p : Has(thread'[Control], p) <=> p \in new
      /\ \A p \in {"signal", "complete", "dereference", "submit", "submitCounted", "submitChecked", "resubmitted"} :
           ~Has(thread'[Control], p)
  BY DEF Begins, OperationPlaces
<1>3. LockInv'
  BY <1>2, LockKeeps DEF TargetInv
<1>4. NeedsIt' = NeedsIt
  <2>1. \A u \in Threads : \A r \in Requests : Works(thread'[u], r, "complete") <=> Works(thread[u], r, "complete")
    BY <1>1, <1>2 DEF Works
  <2>2. \A r \in Requests : Has(thread'[Sender(r)], "submit") <=> Has(thread[Sender(r)], "submit")
    BY <1>2, Kinds
  <2> QED BY <2>1, <2>2, SameNeeds
<1>5. Holders' = Holders
  BY <1>1, <1>2 DEF Holders
<1>6. Base = 1 /\ Base' = 1
  BY <1>2 DEF Base, TargetInv, ControlInv
<1>7. ~Resubmitting /\ ~Resubmitting'
  BY <1>1, <1>2 DEF Resubmitting
<1>8. CountInv'
  BY <1>4, <1>5, <1>6, <1>7 DEF TargetInv, CountInv, Users
<1>9. DisposeInv'
  BY <1>2 DEF DisposeInv
<1> QED BY <1>1, <1>2, <1>3, <1>8, <1>9

LEMMA DrainLists ==
  ASSUME TypeInv, DrainToFail
  PROVE  \A r \in Requests : req'[r].list = req[r].list \/ req'[r].list = "none"
<1> SUFFICES ASSUME NEW r \in Requests
             PROVE  req'[r].list = req[r].list \/ req'[r].list = "none"
  OBVIOUS
<1>1. req[r] \in Request
  BY Fields
<1> QED BY <1>1 DEF DrainToFail, Request

LEMMA StartTarget ==
  ASSUME TypeInv, TargetInv, Start
  PROVE  TargetInv'
<1>1. /\ Idle(Control) /\ Unlocked /\ target.state # "Deleted" /\ UNCHANGED <<lock, owner>>
      /\ todo'.op = "Start"
      /\ target' = [target EXCEPT !.state = "Started", !.waiting = FALSE, !.event = FALSE]
  BY DEF Start, Operate
<1>2. /\ target'.state = "Started" /\ ~target'.waiting /\ ~target'.removing /\ target'.ioCount = target.ioCount
  BY <1>1, Returned, CountSets DEF Target
<1>3. Begins(Control, NoRequest, "resubmit", {"resubmit"}) /\ {"resubmit"} \subseteq OperationPlaces
  BY StartTypes DEF OperationPlaces
<1>4. /\ LockInv' /\ CountInv' /\ DisposeInv'
      /\ \A t \in Threads : ~Has(thread'[t], "signal")
      /\ \A p : Has(thread'[Control], p) <=> p = "resubmit"
  BY <1>1, <1>2, <1>3, OperationBegins
<1>5. ControlInv'
  BY <1>1, <1>2, <1>4 DEF ControlInv, WaitOps
<1>6. EventInv'
  BY <1>1, <1>2, <1>4 DEF EventInv, WaitOps
<1> QED BY <1>4, <1>5, <1>6 DEF TargetInv

LEMMA CancelSentIoTarget ==
  ASSUME TypeInv, TargetInv, CancelSentIo
  PROVE  TargetInv'
<1>1. /\ Idle(Control) /\ Unlocked /\ target.state # "Deleted" /\ UNCHANGED <<target, lock, owner>>
      /\ todo'.op = "CancelSentIo" /\ todo'.pended = {}
  BY DEF CancelSentIo, Operate
<1>2. Begins(Control, NoRequest, "cancelSent", {"cancelSent"})
  BY CancelSentIoTypes
<1>3. ~target.waiting /\ ~target.removing
  BY <1>1, Returned
<1>4. {"cancelSent"} \subseteq OperationPlaces
  BY DEF OperationPlaces
<1>5. /\ LockInv' /\ CountInv' /\ DisposeInv'
      /\ \A t \in Threads : ~Has(thread'[t], "signal")
      /\ \A p : Has(thread'[Control], p) <=> p = "cancelSent"
  BY <1>1, <1>2, <1>4, OperationBegins
<1>6. ControlInv'
  BY <1>1, <1>5 DEF ControlInv, WaitOps
<1>7. EventInv'
  BY <1>1, <1>3, <1>5 DEF EventInv, WaitOps
<1> QED BY <1>5, <1>6, <1>7 DEF TargetInv

LEMMA StopTarget ==
  ASSUME TypeInv, TargetInv, NEW op \in {"StopCancel", "StopWait", "StopLeave"}, Stop(op)
  PROVE  TargetInv'
<1>1. PICK w \in BOOLEAN : w = (op # "StopLeave" /\ (On("sent") # {} \/ target.waiting))
  OBVIOUS
<1>2. /\ Idle(Control) /\ Unlocked /\ target.state # "Deleted" /\ UNCHANGED <<lock, owner, req>>
      /\ todo'.op = op /\ todo'.pended = {} /\ todo'.wait = w
      /\ target' = [target EXCEPT !.state = "Stopped", !.waiting = w, !.event = ~w]
  BY <1>1 DEF Stop, Operate
<1>3. /\ target'.state = "Stopped" /\ target'.waiting = w /\ target'.event = ~w /\ target'.removing = FALSE
      /\ target'.ioCount = target.ioCount
  BY <1>2, Returned, CountSets DEF Target
<1>4. /\ Begins(Control, NoRequest, "cancelSent", {"cancelSent", "waitSent"})
      /\ {"cancelSent", "waitSent"} \subseteq OperationPlaces
  BY StopTypes DEF OperationPlaces
<1>5. /\ LockInv' /\ CountInv' /\ DisposeInv'
      /\ \A t \in Threads : ~Has(thread'[t], "signal")
      /\ \A p : Has(thread'[Control], p) <=> p \in {"cancelSent", "waitSent"}
  BY <1>2, <1>3, <1>4, OperationBegins
<1>6. ControlInv'
  BY <1>2, <1>3, <1>5 DEF ControlInv, WaitOps
<1>7. EventInv'
  <2>1. w => op \in WaitOps /\ Awaited'
    BY <1>1, <1>2, <1>3, <1>5 DEF Awaited, WaitOps
  <2>2. op \in WaitOps /\ ~w => On("sent") = {}
    BY <1>1 DEF WaitOps
  <2>3. op \in WaitOps /\ ~w => \A r \in Requests : req'[r].list # "sent"
    BY <1>2, <2>2 DEF On
  <2> QED BY <1>2, <1>3, <1>5, <2>1, <2>3 DEF EventInv
<1> QED BY <1>5, <1>6, <1>7 DEF TargetInv

LEMMA PurgeTarget ==
  ASSUME TypeInv, TargetInv, NEW op \in {"Purge", "PurgeNoWait"}, Purge(op)
  PROVE  TargetInv'
<1>1. PICK w \in BOOLEAN : w = (op = "Purge" /\ (On("sent") # {} \/ target.waiting))
  OBVIOUS
<1>2. /\ Idle(Control) /\ Unlocked /\ target.state # "Deleted" /\ UNCHANGED <<lock, owner>> /\ DrainToFail
      /\ todo'.op = op /\ todo'.wait = w
      /\ target' = [target EXCEPT !.state = "Purged", !.waiting = w, !.event = ~w]
  BY <1>1 DEF Purge, Operate
<1>3. /\ target'.state = "Purged" /\ target'.waiting = w /\ target'.event = ~w /\ target'.removing = FALSE
      /\ target'.ioCount = target.ioCount
  BY <1>2, Returned, CountSets DEF Target
<1>4. /\ Begins(Control, NoRequest, "failPended", {"failPended", "cancelSent", "waitSent"})
      /\ {"failPended", "cancelSent", "waitSent"} \subseteq OperationPlaces
  BY PurgeTypes DEF OperationPlaces
<1>5. /\ LockInv' /\ CountInv' /\ DisposeInv'
      /\ \A t \in Threads : ~Has(thread'[t], "signal")
      /\ \A p : Has(thread'[Control], p) <=> p \in {"failPended", "cancelSent", "waitSent"}
  BY <1>2, <1>3, <1>4, OperationBegins
<1>6. ControlInv'
  BY <1>2, <1>3, <1>5 DEF ControlInv, WaitOps
<1>7. EventInv'
  <2>1. w => op \in WaitOps /\ Awaited'
    BY <1>1, <1>2, <1>3, <1>5 DEF Awaited, WaitOps
  <2>2. op \in WaitOps /\ ~w => On("sent") = {}
    BY <1>1 DEF WaitOps
  <2>3. op \in WaitOps /\ ~w => \A r \in Requests : req'[r].list # "sent"
    BY <1>2, <2>2, DrainLists DEF On
  <2> QED BY <1>2, <1>3, <1>5, <2>1, <2>3 DEF EventInv
<1> QED BY <1>5, <1>6, <1>7 DEF TargetInv

LEMMA RemovalTarget ==
  ASSUME TypeInv, TargetInv, Remove
  PROVE  TargetInv'
<1>1. PICK w \in BOOLEAN : w = (On("sent") \cup On("ignored") # {})
  OBVIOUS
<1>2. /\ Idle(Control) /\ Unlocked /\ target.state # "Deleted" /\ UNCHANGED <<lock, owner>> /\ DrainToFail
      /\ todo'.op = "Remove" /\ todo'.wait = w
      /\ target' = [target EXCEPT !.state = "Deleted", !.removing = w, !.event = ~w]
  BY <1>1 DEF Remove, Operate
<1>3. /\ target'.state = "Deleted" /\ target'.waiting = FALSE /\ target'.event = ~w /\ target'.removing = w
      /\ target'.ioCount = target.ioCount
  BY <1>2, Returned, CountSets DEF Target
<1>4. /\ Begins(Control, NoRequest, "failPended", {"failPended", "cancelSent", "waitSent", "dispose", "waitDispose"})
      /\ {"failPended", "cancelSent", "waitSent", "dispose", "waitDispose"} \subseteq OperationPlaces
  BY RemovalTypes DEF OperationPlaces
<1>5. /\ LockInv' /\ CountInv' /\ DisposeInv'
      /\ \A t \in Threads : ~Has(thread'[t], "signal")
      /\ \A p : Has(thread'[Control], p) <=> p \in {"failPended", "cancelSent", "waitSent", "dispose", "waitDispose"}
  BY <1>2, <1>3, <1>4, OperationBegins
<1>6. ControlInv'
  BY <1>2, <1>3, <1>5 DEF ControlInv, WaitOps
<1>7. EventInv'
  <2>1. w => Awaited'
    BY <1>2, <1>3, <1>5 DEF Awaited
  <2>2. ~w => On("sent") \cup On("ignored") = {}
    BY <1>1
  <2>3. ~w => \A r \in Requests : req'[r].list \notin {"sent", "ignored"}
    BY <1>2, <2>2, DrainLists DEF On
  <2> QED BY <1>2, <1>3, <1>5, <2>1, <2>3 DEF EventInv, WaitOps
<1> QED BY <1>5, <1>6, <1>7 DEF TargetInv
-----------------------------------------------------------------------------
(* The three together are inductive.                                        *)

IInv == TypeInv /\ RequestInv /\ TargetInv

LEMMA InvInit == Init => IInv
<1> SUFFICES ASSUME Init
             PROVE  IInv
  OBVIOUS
<1>1. TypeInv
  BY TypeInit
<1>2. \A t \in Threads : \A p : ~Has(thread[t], p)
  <2>1. \A t \in Threads : Idle(t)
    BY DEF Init, Idle
  <2> QED BY <1>1, <2>1, TypeParts, TopOfStack
<1>3. \A r \in Requests : req[r] = Fresh /\ owner[r] = "driver"
  BY DEF Init
<1>4. /\ todo = [op |-> "Start", pended |-> {}, sent |-> {}, wait |-> FALSE]
      /\ target = [state |-> "Started", waiting |-> FALSE, removing |-> FALSE, event |-> FALSE, ioCount |-> 1]
  BY DEF Init
<1>5. RequestInv
  <2> SUFFICES ASSUME NEW r \in Requests
               PROVE  RequestOK(r)
    BY DEF RequestInv
  <2>1. \A t \in Threads : ~Carrying(t, r) /\ \A p : ~Works(thread[t], r, p)
    BY <1>2 DEF Carrying, Works
  <2>2. /\ req[r].count = 0 /\ req[r].list = "none" /\ req[r].flags = {} /\ req[r].irp = "here"
        /\ ~req[r].cancelRoutine /\ todo.pended = {}
    BY <1>3, <1>4 DEF Fresh
  <2>3. ~UnderWay(r) /\ ~Resending(r) /\ ~Called(r) /\ ~Canceled(r)
    BY <2>1, <2>2, Kinds DEF UnderWay, Failing, Resending, Called, Canceled
  <2>4. Cancelers(r) = {}
    BY <2>1 DEF Cancelers
  <2>5. SeatOK(r)
    BY <2>1, <2>2 DEF SeatOK
  <2>6. ListOK(r)
    BY <2>1, <2>2 DEF ListOK
  <2>7. TimerOK(r)
    BY <2>2, <2>3 DEF TimerOK
  <2>8. CountOK(r)
    BY <2>2, <2>3, <2>4, FS_EmptySet DEF CountOK, TimerHolds
  <2> QED BY <2>5, <2>6, <2>7, <2>8 DEF RequestOK
<1>6. ControlInv /\ LockInv /\ EventInv /\ DisposeInv
  BY <1>2, <1>4, Kinds DEF ControlInv, LockInv, EventInv, DisposeInv, WaitOps
<1>7. CountInv
  <2>1. NeedsIt = {} /\ Holders = {}
    BY <1>2, <1>3 DEF NeedsIt, Needs, Holders
  <2>2. Base = 1 /\ ~Resubmitting
    BY <1>2, <1>4, Kinds DEF Base, Resubmitting
  <2> QED BY <1>4, <2>1, <2>2, FS_EmptySet DEF CountInv, Users
<1> QED BY <1>1, <1>5, <1>6, <1>7 DEF IInv, TargetInv

LEMMA RequestStep ==
  ASSUME TypeInv, RequestInv, TargetInv, [Next]_vars
  PROVE  RequestInv'
<1>1. ASSUME NEW t \in Threads, ThreadStep(t)
      PROVE  RequestInv'
  <2>1. CASE RequestCompletionRoutine(t) \/ CompleteRequest(t)
    BY <2>1, CompletionRequests, CallbackRequests
  <2>2. CASE CompleteCanceledRequest(t)
    BY <2>2, CompleteCanceledRequests DEF CompleteCanceledRequest
  <2>3. CASE SetSentIoEvent(t) \/ DecrementIoCount(t) \/ Cancel(t) \/ SyncCompleted(t) \/ SyncCancels(t)
    BY <2>3, QuietRequests
  <2>4. CASE CancelReference(t) \/ CancelIrp(t) \/ RequestCancelled(t) \/ CancelRelease(t)
    BY <2>4, ReferenceRequests, CancelIrpRequests, CancelledRequests, ReleaseRequests
  <2>5. CASE TimerCallback(t) \/ TimerCanceled(t)
    BY <2>5, TimerRequests
  <2>6. CASE SubmitRefused(t) \/ SubmitAccept(t) \/ SubmitCheckCanceled(t)
    BY <2>6, SubmitRefusedRequests, SubmitAcceptRequests, SubmitCheckRequests
  <2>7. CASE SubmitSend(t) \/ PendRequestLocked(t) \/ Send(t)
    BY <2>7, SubmitSendRequests, PendRequests, SendRequests
  <2> QED BY <1>1, <2>1, <2>2, <2>3, <2>4, <2>5, <2>6, <2>7 DEF ThreadStep
<1>2. CASE ControlStep
  <2>1. CASE SubmitPendedRequest
    <3>1. Has(thread[Control], "resubmit")
      BY <2>1, WorksOn, Kinds DEF SubmitPendedRequest, Places
    <3>2. todo.op = "Start"
      BY <3>1 DEF TargetInv, ControlInv
    <3> QED BY <2>1, <3>2, ResubmitRequests
  <2>2. CASE FailPendedRequest
    <3>1. Has(thread[Control], "failPended")
      BY <2>2, WorksOn, Kinds DEF FailPendedRequest, Places
    <3>2. todo.op # "Start"
      BY <3>1 DEF TargetInv, ControlInv
    <3> QED BY <2>2, <3>2, FailPendedRequests
  <2>3. CASE HandleFailedResubmit
    BY <2>3, CompleteCanceledRequests, Kinds DEF HandleFailedResubmit
  <2>4. CASE CancelSentRequests
    BY <2>4, CancelSentRequestsKept
  <2>5. CASE Resubmitted \/ WaitForSentIoToComplete \/ WaitEnds \/ WaitForDisposeEvent
    BY <2>5, WaitRequests
  <2> QED BY <1>2, <2>1, <2>2, <2>3, <2>4, <2>5 DEF ControlStep
<1>3. CASE Operation
  <2>1. Idle(Control)
    BY <1>3 DEF Operation, Start, Stop, Purge, CancelSentIo, Remove, Operate
  <2>2. todo.pended = {}
    BY <2>1, Returned
  <2> QED BY <1>3, <2>2, OperationRequests
<1>4. ASSUME NEW r \in Requests, RequestSend(r) \/ SyncTimesOut(Sender(r))
      PROVE  RequestInv'
  BY <1>4, RequestSendRequests, QuietRequests, Kinds
<1>5. ASSUME NEW r \in Requests, CancelSentRequest(r) \/ TimerFires(r) \/ LowerCompletes(r)
      PROVE  RequestInv'
  BY <1>5, CancelSentRequestRequests, TimerFiresRequests, LowerRequests
<1>6. CASE UNCHANGED vars
  <2>1. UNCHANGED <<target, lock, req, owner, thread, todo, plan>>
    BY <1>6 DEF vars
  <2>2. \A r \in Requests : Same(r)
    BY <2>1 DEF Same
  <2> QED BY <2>2, NoRequests DEF RequestInv
<1> QED BY <1>1, <1>2, <1>3, <1>4, <1>5, <1>6 DEF Next

LEMMA TargetStep ==
  ASSUME TypeInv, RequestInv, TargetInv, [Next]_vars
  PROVE  TargetInv'
<1>1. ASSUME NEW t \in Threads, ThreadStep(t)
      PROVE  TargetInv'
  <2>1. CASE RequestCompletionRoutine(t) \/ CompleteRequest(t) \/ SetSentIoEvent(t) \/ DecrementIoCount(t)
    BY <2>1, CompletionTarget, CallbackTarget, SignalTarget, DereferenceTarget
  <2>2. CASE CompleteCanceledRequest(t)
    BY <2>2, CanceledTarget DEF CompleteCanceledRequest
  <2>3. CASE Cancel(t) \/ CancelReference(t) \/ CancelIrp(t) \/ CancelRelease(t) \/ Send(t)
    BY <2>3, CancelTarget
  <2>4. CASE RequestCancelled(t) \/ SyncCompleted(t) \/ SyncCancels(t)
    BY <2>4, CancelledTarget, SyncTarget
  <2>5. CASE TimerCallback(t) \/ TimerCanceled(t)
    BY <2>5, TimerTarget
  <2>6. CASE SubmitRefused(t) \/ SubmitAccept(t) \/ SubmitCheckCanceled(t)
    BY <2>6, SubmitRefusedTarget, SubmitAcceptTarget, SubmitCheckTarget
  <2>7. CASE SubmitSend(t) \/ PendRequestLocked(t)
    BY <2>7, SubmitSendTarget, PendTarget
  <2> QED BY <1>1, <2>1, <2>2, <2>3, <2>4, <2>5, <2>6, <2>7 DEF ThreadStep
<1>2. CASE ControlStep
  <2>1. CASE HandleFailedResubmit
    BY <2>1, CanceledTarget, Kinds DEF HandleFailedResubmit
  <2>2. CASE SubmitPendedRequest \/ FailPendedRequest \/ CancelSentRequests
    BY <2>2, ResubmitTarget, FailPendedTarget, CancelSentTarget
  <2>3. CASE Resubmitted \/ WaitForSentIoToComplete \/ WaitEnds \/ WaitForDisposeEvent
    BY <2>3, ResubmittedTarget, WaitTarget, WaitEndsTarget, DisposeTarget
  <2> QED BY <1>2, <2>1, <2>2, <2>3 DEF ControlStep
<1>3. CASE Operation
  BY <1>3, StartTarget, CancelSentIoTarget, RemovalTarget, StopTarget, PurgeTarget DEF Operation
<1>4. ASSUME NEW r \in Requests, RequestSend(r) \/ SyncTimesOut(Sender(r))
      PROVE  TargetInv'
  BY <1>4, RequestSendTarget, SyncTarget, Kinds
<1>5. ASSUME NEW r \in Requests, CancelSentRequest(r) \/ TimerFires(r) \/ LowerCompletes(r)
      PROVE  TargetInv'
  BY <1>5, OutsideTarget
<1>6. CASE UNCHANGED vars
  <2>1. UNCHANGED <<target, lock, req, owner, thread, todo, plan>>
    BY <1>6 DEF vars
  <2>2. Quiet
    BY <2>1 DEF Quiet, SameLevel
  <2> QED BY <2>2, QuietKeeps
<1> QED BY <1>1, <1>2, <1>3, <1>4, <1>5, <1>6 DEF Next

LEMMA Invariance == Spec => []IInv
<1>1. IInv /\ [Next]_vars => IInv'
  <2> SUFFICES ASSUME IInv, [Next]_vars
               PROVE  IInv'
    OBVIOUS
  <2>1. TypeInv /\ RequestInv /\ TargetInv
    BY DEF IInv
  <2>2. TypeInv'
    BY <2>1, TypeStep
  <2>3. RequestInv' /\ TargetInv'
    BY <2>1, RequestStep, TargetStep
  <2> QED BY <2>2, <2>3 DEF IInv
<1> QED BY <1>1, InvInit, PTL DEF Spec

-----------------------------------------------------------------------------
(* What the invariant says.                                                 *)

LEMMA PendingPlaces ==
  ASSUME NEW t, NEW places
  PROVE  Pending(t, places) <=> \E p \in places : Has(thread[t], p)
BY DEF Pending, Has

LEMMA CompletedOnceHolds ==
  ASSUME IInv
  PROVE  CompletedOnce
<1> SUFFICES ASSUME NEW r \in Requests
             PROVE  /\ Cardinality(Completing(r)) <= 1
                    /\ Completing(r) # {} =>
                         /\ owner[r] = "target"
                         /\ req[r].list # "pended" /\ req[r].irp = "here" /\ req[r].count = 0
  BY DEF CompletedOnce
<1>1. CASE Completing(r) = {}
  BY <1>1, FS_EmptySet
<1>2. CASE Completing(r) # {}
  <2>1. PICK t \in Threads : t \in Completing(r)
    BY <1>2 DEF Completing
  <2>2. \A u \in Completing(r) : u \in Threads /\ \E p \in {"complete", "completeCanceled", "failedResubmit"} : Works(thread[u], r, p)
    BY PendingPlaces DEF Completing, Works, Cur
  <2>3. RequestOK(r)
    BY DEF IInv, RequestInv
  <2>4. \A u \in Completing(r) : Carrying(u, r)
    BY <2>2 DEF Carrying, CarrierPlaces, UncountedPlaces
  <2>5. Completing(r) = {t}
    BY <2>1, <2>2, <2>3, <2>4 DEF RequestOK, SeatOK
  <2>6. Cardinality(Completing(r)) = 1
    BY <2>5, FS_Singleton
  <2>7. PICK p \in {"complete", "completeCanceled", "failedResubmit"} : Works(thread[t], r, p)
    BY <2>1, <2>2
  <2>8. owner[r] = "target" /\ req[r].irp = "here"
    BY <2>1, <2>3, <2>4 DEF RequestOK, SeatOK
  <2>9. req[r].count = 0
    BY <2>3, <2>7 DEF RequestOK, CountOK, UncountedPlaces
  <2>10. req[r].list # "pended"
    BY <2>3, <2>7 DEF RequestOK, ListOK
  <2> QED BY <2>6, <2>8, <2>9, <2>10
<1> QED BY <1>1, <1>2

(* The timer's DPC has, or will get, a reference.                           *)
LEMMA TimerCounts ==
  ASSUME TypeInv, NEW r \in Requests, RequestOK(r)
  PROVE  /\ Called(r) \/ Canceled(r) => req[r].count > 0
         /\ Cancelers(r) # {} => req[r].count > 0
         /\ Canceled(r) /\ req[r].count = 1 => "Completed" \in req[r].flags
         /\ ~UnderWay(r) /\ req[r].count = 0 => "TimerSet" \notin req[r].flags
<1>1. /\ IsFiniteSet(Cancelers(r)) /\ Cardinality(Cancelers(r)) \in Nat
      /\ Cancelers(r) # {} => Cardinality(Cancelers(r)) > 0
  BY CountParts, FS_EmptySet
<1>2. req[r].count = (IF UnderWay(r) THEN 1 ELSE 0) + (IF TimerHolds(r) THEN 1 ELSE 0) + Cardinality(Cancelers(r))
  BY DEF RequestOK, CountOK
<1>3. Called(r) => UnderWay(r) \/ TimerHolds(r)
  BY DEF RequestOK, TimerOK, TimerHolds
<1>4. Canceled(r) => TimerHolds(r) /\ (~UnderWay(r) => "Completed" \in req[r].flags)
  BY DEF RequestOK, TimerOK, TimerHolds
<1>5. ~UnderWay(r) /\ ~TimerHolds(r) => "TimerSet" \notin req[r].flags
  BY DEF RequestOK, TimerOK, TimerHolds
<1> QED BY <1>1, <1>2, <1>3, <1>4, <1>5

LEMMA AssertionsHoldThen ==
  ASSUME IInv
  PROVE  AssertionsHold
<1> SUFFICES ASSUME NEW t \in Threads, ~Idle(t), NEW r, r = Cur(t), NEW pc, pc = Head(thread[t].stack)
             PROVE  /\ pc = "submit" => req[r].count = 0
                    /\ pc \in {"completion", "failedResubmit"} => "Completed" \notin req[r].flags
                    /\ pc = "timerCallback" => req[r].count > 0
                    /\ pc = "timerCanceled" /\ req[r].count = 1 => "Completed" \in req[r].flags
                    /\ pc \in {"completeCanceled", "failedResubmit"} => "TimerSet" \notin req[r].flags
                    /\ pc = "requestCancelled" => req[r].list = "pended"
                    /\ pc = "submitCounted" => target.ioCount > 1
  BY DEF AssertionsHold
<1>1. TypeInv /\ RequestInv /\ TargetInv /\ At(t, pc)
  BY DEF IInv, At
<1>2. ASSUME pc \in RequestPlaces
      PROVE  r \in Requests /\ Works(thread[t], r, pc) /\ RequestOK(r) /\ Has(thread[t], pc)
  <2>1. pc \in Places
    BY <1>2, StepPlaces
  <2>2. r \in Requests /\ Works(thread[t], r, pc) /\ Has(thread[t], pc)
    BY <1>1, <1>2, <2>1, WorksOn DEF Works, Cur
  <2> QED BY <1>1, <2>2 DEF RequestInv
<1>3. pc = "submit" => req[r].count = 0
  BY <1>2 DEF RequestPlaces, RequestOK, CountOK, UncountedPlaces
<1>4. pc \in {"completion", "failedResubmit"} => "Completed" \notin req[r].flags
  <2>1. pc = "completion" => UnderWay(r)
    BY <1>2 DEF RequestPlaces, UnderWay, CountedPlaces
  <2>2. pc = "failedResubmit" => Unsubmitted(r)
    BY <1>2 DEF RequestPlaces, Unsubmitted
  <2> QED BY <1>2, <2>1, <2>2 DEF RequestPlaces, RequestOK, TimerOK
<1>5. /\ pc = "timerCallback" => req[r].count > 0
      /\ pc = "timerCanceled" /\ req[r].count = 1 => "Completed" \in req[r].flags
  <2>1. pc \in {"timerCallback", "timerCanceled"} => t = Timer(r) /\ r \in Requests
    BY <1>1, <1>2, CalledTop DEF RequestPlaces
  <2>2. (pc = "timerCallback" => Called(r)) /\ (pc = "timerCanceled" => Canceled(r))
    BY <1>2, <2>1 DEF RequestPlaces, Called, Canceled
  <2> QED BY <1>1, <1>2, <2>1, <2>2, TimerCounts DEF RequestPlaces
<1>6. pc \in {"completeCanceled", "failedResubmit"} => "TimerSet" \notin req[r].flags
  <2>1. ASSUME pc = "completeCanceled"
        PROVE  "TimerSet" \notin req[r].flags
    <3>1. r \in Requests /\ Works(thread[t], r, pc) /\ RequestOK(r)
      BY <1>2, <2>1 DEF RequestPlaces
    <3>2. req[r].count = 0
      BY <2>1, <3>1 DEF RequestOK, CountOK, UncountedPlaces
    <3>3. ~UnderWay(r)
      BY <1>1, <3>1, <3>2, CountParts DEF RequestOK, CountOK
    <3> QED BY <1>1, <3>1, <3>2, <3>3, TimerCounts
  <2>2. pc = "failedResubmit" => Unsubmitted(r) /\ RequestOK(r)
    BY <1>2 DEF RequestPlaces, Unsubmitted
  <2> QED BY <2>1, <2>2 DEF RequestOK, TimerOK
<1>7. pc = "requestCancelled" => req[r].list = "pended"
  BY <1>2 DEF RequestPlaces, RequestOK, ListOK
<1>8. ASSUME pc = "submitCounted"
      PROVE  target.ioCount > 1
  <2>1. Needs(r) /\ r \in Requests /\ Has(thread[t], "submitCounted")
    <3>1. "submitCounted" \in Submitting
      BY DEF Submitting
    <3> QED BY <1>1, <1>8, <3>1, Submitter
  <2>2. todo.op = "Remove" => Has(thread[Control], "dispose")
    BY <1>1, <2>1 DEF TargetInv, LockInv, ControlInv, EventInv, Awaited
  <2>3. Base = 1
    BY <2>2 DEF Base
  <2>4. Cardinality(NeedsIt) >= 1
    <3>1. NeedsIt # {}
      BY <2>1 DEF NeedsIt
    <3> QED BY <1>1, <3>1, CountSets, FS_EmptySet
  <2> QED BY <1>1, <2>3, <2>4, CountSets DEF TargetInv, CountInv, Users
<1> QED BY <1>3, <1>4, <1>5, <1>6, <1>7, <1>8

LEMMA SubmitTop ==
  ASSUME TypeInv, NEW t \in Threads
  PROVE  At(t, "submit") <=> Has(thread[t], "submit")
<1>1. "submit" \in Places /\ "submit" \notin Beneath
  BY DEF Places, Beneath
<1> QED BY <1>1, WorksOn, TopPlaces, TypeParts, TopOfStack

LEMMA IoCountExactThen ==
  ASSUME IInv
  PROVE  IoCountExact
<1>1. TypeInv /\ TargetInv /\ Control \in Threads /\ \A r \in Requests : Sender(r) \in Threads
  BY Kinds DEF IInv
<1>2. {r \in Requests : Counted(r)} = NeedsIt
  <2>1. ASSUME NEW r \in Requests
        PROVE  Counted(r) <=> Needs(r)
    <3>1. At(Sender(r), "submit") <=> Has(thread[Sender(r)], "submit")
      BY <1>1, SubmitTop
    <3>2. \A t \in Threads : Cur(t) = r /\ Pending(t, {"complete"}) <=> Works(thread[t], r, "complete")
      BY PendingPlaces DEF Works, Cur
    <3> QED BY <3>1, <3>2 DEF Counted, Needs
  <2> QED BY <2>1 DEF NeedsIt
<1>3. Dereferencing = Holders
  BY PendingPlaces DEF Dereferencing, Holders
<1>4. BaseCount = Base
  BY PendingPlaces DEF BaseCount, Base
<1>5. Pending(Control, {"resubmitted"}) /\ ~At(Control, "submit") <=> Resubmitting
  BY <1>1, PendingPlaces, SubmitTop DEF Resubmitting
<1> QED BY <1>1, <1>2, <1>3, <1>4, <1>5 DEF IoCountExact, TargetInv, CountInv, Users

LEMMA WaitedMeansQuietThen ==
  ASSUME IInv
  PROVE  WaitedMeansQuiet
<1> SUFFICES ASSUME Idle(Control), todo.op \in {"StopCancel", "StopWait", "Purge", "Remove"}, NEW r \in Requests
             PROVE  /\ req[r].list # "sent"
                    /\ req[r].irp = "lower" => "IgnoreState" \in req[r].options
                    /\ todo.op = "Remove" => req[r].irp = "here"
  BY DEF WaitedMeansQuiet
<1>1. TypeInv /\ TargetInv /\ RequestOK(r)
  BY DEF IInv, RequestInv
<1>2. ~target.waiting /\ ~target.removing
  BY <1>1, Returned
<1>3. req[r].list # "sent" /\ (todo.op = "Remove" => req[r].list # "ignored")
  BY <1>1, <1>2 DEF TargetInv, EventInv, WaitOps
<1>4. req[r].irp \in {"here", "lower"}
  BY <1>1, Fields DEF Request
<1> QED BY <1>1, <1>3, <1>4 DEF RequestOK, SeatOK, ListOK

LEMMA DisposedMeansUnusedThen ==
  ASSUME IInv
  PROVE  DisposedMeansUnused
<1> SUFFICES ASSUME Idle(Control), todo.op = "Remove"
             PROVE  /\ \A t \in Threads : ~Pending(t, Uses)
                    /\ \A r \in Requests : owner[r] = "target" => At(Sender(r), "submit")
  BY DEF DisposedMeansUnused
<1>1. TypeInv /\ RequestInv /\ TargetInv
  BY DEF IInv
<1>2. ~Has(thread[Control], "waitDispose")
  BY <1>1, Returned
<1>3. NeedsIt = {} /\ Holders = {}
  <2>1. target.ioCount = 0
    BY <1>1, <1>2 DEF TargetInv, DisposeInv
  <2>2. Cardinality(NeedsIt) = 0 /\ Cardinality(Holders) = 0
    BY <1>1, <2>1, CountSets, BaseNumber DEF TargetInv, CountInv, Users
  <2> QED BY <1>1, <2>2, CountSets, FS_EmptySet
<1>4. \A t \in Threads : \A p \in {"complete", "signal", "dereference"} : ~Has(thread[t], p)
  BY <1>1, <1>3 DEF Holders, TypeInv, ShapeInv, ShapeOK
<1>5. ASSUME NEW r \in Requests, owner[r] = "target"
      PROVE  Has(thread[Sender(r)], "submit")
  BY <1>3, <1>4, <1>5 DEF NeedsIt, Needs, Works
<1>6. ASSUME NEW r \in Requests
      PROVE  /\ req[r].count = 0
             /\ \A t \in Threads : \A p \in CarrierPlaces : Works(thread[t], r, p) => p = "submit"
  <2>1. RequestOK(r) /\ Sender(r) \in Threads /\ thread[Sender(r)].cur = r
    BY <1>1, Kinds DEF RequestInv, TypeInv, ShapeInv, ShapeOK
  <2>2. owner[r] \in {"driver", "target"}
    BY <1>1, Fields
  <2>3. CASE owner[r] = "driver"
    BY <2>1, <2>3 DEF RequestOK, SeatOK, Carrying
  <2>4. CASE owner[r] = "target"
    <3>1. Works(thread[Sender(r)], r, "submit")
      BY <1>5, <2>1, <2>4 DEF Works
    <3>2. req[r].count = 0 /\ Carrying(Sender(r), r)
      BY <2>1, <3>1 DEF RequestOK, CountOK, UncountedPlaces, Carrying, CarrierPlaces
    <3>3. \A t \in Threads : \A p \in CarrierPlaces : Works(thread[t], r, p) => t = Sender(r)
      BY <2>1, <3>2 DEF RequestOK, SeatOK, Carrying
    <3>4. CarrierPlaces \cap Beneath = {} /\ "submit" \notin Beneath
      BY DEF CarrierPlaces, CountedPlaces, UncountedPlaces, Beneath
    <3> QED BY <1>1, <2>1, <3>1, <3>2, <3>3, <3>4, TopPlaces DEF Works
  <2> QED BY <2>2, <2>3, <2>4
<1>7. ASSUME NEW t \in Threads, NEW p \in Uses, Has(thread[t], p)
      PROVE  FALSE
  <2>1. p \in RequestPlaces
    BY <1>4, <1>7 DEF Uses, RequestPlaces
  <2>2. PICK r \in Requests : Works(thread[t], r, p)
    BY <1>1, <1>7, <2>1 DEF TypeInv, ShapeInv, ShapeOK, Works
  <2>3. RequestOK(r) /\ req[r].count = 0
    BY <1>1, <1>6 DEF RequestInv
  <2>4. CASE p \in {"completion", "requestCancelled", "completeCanceled", "submitCounted", "submitChecked", "send"}
    BY <1>6, <2>2, <2>4 DEF CarrierPlaces, CountedPlaces, UncountedPlaces
  <2>5. CASE p \in {"cancelIrp", "cancelRelease"}
    <3>1. Works(thread[t], r, "cancelRelease")
      BY <1>1, <2>2, <2>5 DEF Works, TypeInv, ShapeInv, ShapeOK
    <3>2. Cancelers(r) # {}
      BY <3>1 DEF Cancelers
    <3> QED BY <1>1, <2>3, <3>2, TimerCounts
  <2>6. CASE p \in {"timerCallback", "timerCanceled"}
    <3>1. t = Timer(r)
      BY <1>1, <2>2, <2>6, CalledTop
    <3>2. Called(r) \/ Canceled(r)
      BY <2>2, <2>6, <3>1 DEF Called, Canceled
    <3> QED BY <1>1, <2>3, <3>2, TimerCounts
  <2> QED BY <1>4, <1>7, <2>4, <2>5, <2>6 DEF Uses
<1>8. \A t \in Threads : ~Pending(t, Uses)
  BY <1>7, PendingPlaces
<1>9. \A r \in Requests : owner[r] = "target" => At(Sender(r), "submit")
  BY <1>1, <1>5, SubmitTop, Kinds
<1> QED BY <1>8, <1>9

-----------------------------------------------------------------------------
(* A request that is sent through the target is completed by one of those   *)
(* who race for it, the lower driver, the DPC, a canceller or an operation, *)
(* and only when nobody holds a reference to its completion.                *)
THEOREM CompletedByOne == Spec => []CompletedOnce
BY Invariance, CompletedOnceHolds, PTL

(* The assertions that FxIoTarget makes of a request and of the count hold  *)
(* whatever the threads interleave.                                         *)
THEOREM TargetAssertions == Spec => []AssertionsHold
BY Invariance, AssertionsHoldThen, PTL

(* m_IoCount is the number of requests that need the target, and of threads *)
(* that have not given theirs up yet.                                       *)
THEOREM IoCounted == Spec => []IoCountExact
BY Invariance, IoCountExactThen, PTL

(* Who waited for sent I/O returns when the lower driver has none of it.    *)
THEOREM WaitersFindQuiet == Spec => []WaitedMeansQuiet
BY Invariance, WaitedMeansQuietThen, PTL

(* Who disposed the target returns when nobody comes back to it.            *)
THEOREM DisposedUnused == Spec => []DisposedMeansUnused
BY Invariance, DisposedMeansUnusedThen, PTL
=============================================================================
