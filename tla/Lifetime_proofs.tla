--------------------------- MODULE Lifetime_proofs ---------------------------
(***************************************************************************)
(* Proofs about the life of temporaries in the plans of the handlers as    *)
(* they are. The names that are live after a plan follow from those before *)
(* it, so that what the helpers need and leave adds up to what a handler   *)
(* does: every handler of both filters reads, writes and frees only kregs  *)
(* that it has allocated, on that path, and not freed. Codegen then finds  *)
(* each of them in a kreg of its own.                                      *)
(***************************************************************************)
EXTENDS Discipline_proofs

(* The temporaries live after the first k steps of a plan p that starts    *)
(* with those of L: never freed since, or bound by a step and not freed    *)
(* since that; and those live after the whole of it.                       *)
LiveFrom(L, p, k, v) ==
  \/ v \in L /\ \A l \in 1..k : ~Frees(p[l], v)
  \/ \E b \in 1..k : Binds(p[b], v) /\ \A l \in b + 1..k : ~Frees(p[l], v)
At(L, p, k) == {v \in L \union {p[b].v : b \in 1..k} : LiveFrom(L, p, k, v)}
After(L, p) == At(L, p, Len(p))

(* What L has to hold for an operand, for the arguments of a call, for a   *)
(* step, and for a plan at every one of its steps: the names of the kregs  *)
(* that are read, written and freed.                                       *)
NameIn(L, s) == s.at \in {"tmp", "deref"} => s.v \in L
Names(L, args) == IsPlan(args) /\ \A j \in 1..Len(args) : NameIn(L, args[j])
StepIn(L, st) ==
  /\ st.do \in {"widen", "store", "emit"} => Names(L, st.src)
  /\ st.do = "free" => st.v \in L
  /\ st.do = "emit" /\ st.dst.at = "tmp" => st.dst.v \in L
InScope(L, p) == IsPlan(p) /\ \A k \in 1..Len(p) : StepIn(At(L, p, k - 1), p[k])

(* What one step makes of the live temporaries.                            *)
Then(L, st) == {v \in L \union {st.v} : Binds(st, v) \/ (v \in L /\ ~Frees(st, v))}

(* The set of the live temporaries holds exactly these.                    *)
LEMMA InAt ==
  ASSUME NEW L, NEW p, NEW k, NEW v
  PROVE  v \in At(L, p, k) <=> LiveFrom(L, p, k, v)
BY DEF At, LiveFrom, Binds

(* As far as the first of two plans goes, the second does not matter,      *)
LEMMA AtFirst ==
  ASSUME NEW L, NEW p, NEW k \in Int, NEW q, IsPlan(p), IsPlan(q), k <= Len(p)
  PROVE  At(L, p \o q, k) = At(L, p, k)
<1>1. \A l \in 1..k : (p \o q)[l] = p[l]
  BY Concatenation, SMT
<1>2. ASSUME NEW v PROVE LiveFrom(L, p \o q, k, v) <=> LiveFrom(L, p, k, v)
  BY <1>1 DEF LiveFrom
<1> QED BY <1>2, InAt

(* and in the second it matters of the first only what it has left live.   *)
LEMMA AtSecond ==
  ASSUME NEW L, NEW p, NEW k \in Nat, NEW q, IsPlan(p), IsPlan(q), k <= Len(q)
  PROVE  At(L, p \o q, Len(p) + k) = At(After(L, p), q, k)
<1> DEFINE m == Len(p)
           n == m + k
           r == p \o q
<1>1. m \in Nat /\ n \in Nat /\ m <= n /\ \A l \in 1..m : l \in 1..n /\ r[l] = p[l]
  BY Concatenation, SMT
<1>2. \A l \in 1..k : m + l \in 1..n /\ m + l > m /\ r[m + l] = q[l]
  BY Concatenation, SMT
<1>3. \A l \in 1..n : l \in 1..m \/ (l > m /\ l - m \in 1..k /\ m + (l - m) = l)
  BY <1>1
<1>4. n = m + k
  OBVIOUS
<1> HIDE DEF m, n, r
<1>5. ASSUME NEW v PROVE LiveFrom(L, r, n, v) <=> LiveFrom(After(L, p), q, k, v)
  <2>1. v \in After(L, p) <=> LiveFrom(L, p, m, v)
    BY InAt DEF After, m
  <2>2. LiveFrom(L, r, n, v) => LiveFrom(After(L, p), q, k, v)
    <3>1. CASE v \in L /\ \A l \in 1..n : ~Frees(r[l], v)
      <4>1. LiveFrom(L, p, m, v)
        BY <1>1, <3>1 DEF LiveFrom
      <4>2. \A l \in 1..k : ~Frees(q[l], v)
        BY <1>2, <3>1
      <4> QED BY <2>1, <4>1, <4>2 DEF LiveFrom
    <3>2. ASSUME NEW b \in 1..n, Binds(r[b], v), \A l \in b + 1..n : ~Frees(r[l], v)
          PROVE  LiveFrom(After(L, p), q, k, v)
      <4>1. CASE b <= m
        <5>0. b \in 1..m
          BY <1>1, <4>1
        <5>1. LiveFrom(L, p, m, v)
          <6>1. \A l \in b + 1..m : l \in b + 1..n /\ l \in 1..m
            BY <1>1, <5>0
          <6>2. \A l \in b + 1..m : ~Frees(p[l], v)
            BY <1>1, <3>2, <6>1
          <6>3. Binds(p[b], v)
            BY <1>1, <3>2, <5>0
          <6> QED BY <5>0, <6>2, <6>3 DEF LiveFrom
        <5>2. \A l \in 1..k : m + l \in b + 1..n
          BY <1>1, <1>4, <4>1
        <5>3. \A l \in 1..k : ~Frees(q[l], v)
          BY <1>2, <3>2, <5>2
        <5> QED BY <2>1, <5>1, <5>3 DEF LiveFrom
      <4>2. CASE b > m
        <5> DEFINE c == b - m
        <5>1. c \in 1..k /\ b = m + c
          BY <1>1, <1>4, <4>2
        <5>2. Binds(q[c], v)
          BY <1>2, <3>2, <5>1
        <5>3. \A l \in c + 1..k : m + l \in b + 1..n /\ l \in 1..k
          BY <1>1, <1>4, <5>1
        <5>4. \A l \in c + 1..k : ~Frees(q[l], v)
          BY <1>2, <3>2, <5>3
        <5> HIDE DEF c
        <5> QED BY <5>1, <5>2, <5>4 DEF LiveFrom
      <4> QED BY <1>1, <4>1, <4>2
    <3> QED BY <3>1, <3>2 DEF LiveFrom
  <2>3. LiveFrom(After(L, p), q, k, v) => LiveFrom(L, r, n, v)
    <3>1. ASSUME LiveFrom(L, p, m, v), \A l \in 1..k : ~Frees(q[l], v)
          PROVE  LiveFrom(L, r, n, v)
      <4>1. \A l \in 1..n : l > m => ~Frees(r[l], v)
        <5> SUFFICES ASSUME NEW l \in 1..n, l > m PROVE ~Frees(r[l], v)
          OBVIOUS
        <5>1. l - m \in 1..k /\ m + (l - m) = l
          BY <1>1, <1>3
        <5> QED BY <1>2, <3>1, <5>1
      <4>2. CASE v \in L /\ \A l \in 1..m : ~Frees(p[l], v)
        <5>1. \A l \in 1..n : ~Frees(r[l], v)
          BY <1>1, <1>3, <4>1, <4>2
        <5> QED BY <4>2, <5>1 DEF LiveFrom
      <4>3. ASSUME NEW b \in 1..m, Binds(p[b], v), \A l \in b + 1..m : ~Frees(p[l], v)
            PROVE  LiveFrom(L, r, n, v)
        <5>1. b \in 1..n /\ Binds(r[b], v)
          BY <1>1, <4>3
        <5>2. \A l \in b + 1..n : l \in 1..n /\ (l > m \/ (l \in b + 1..m /\ l \in 1..m))
          BY <1>1
        <5>3. \A l \in b + 1..n : ~Frees(r[l], v)
          BY <1>1, <4>1, <4>3, <5>2
        <5> QED BY <5>1, <5>3 DEF LiveFrom
      <4> QED BY <3>1, <4>2, <4>3 DEF LiveFrom
    <3>2. ASSUME NEW b \in 1..k, Binds(q[b], v), \A l \in b + 1..k : ~Frees(q[l], v)
          PROVE  LiveFrom(L, r, n, v)
      <4> DEFINE c == m + b
      <4>1. c \in 1..n /\ Binds(r[c], v)
        BY <1>1, <1>2, <3>2
      <4>2. \A l \in c + 1..n : l \in 1..n /\ l > m /\ l - m \in b + 1..k
        BY <1>1, <1>4
      <4>3. \A l \in c + 1..n : ~Frees(r[l], v)
        <5>1. SUFFICES ASSUME NEW l \in c + 1..n PROVE ~Frees(r[l], v)
          OBVIOUS
        <5>2. l - m \in b + 1..k /\ l - m \in 1..k /\ m + (l - m) = l
          BY <1>3, <4>2, <1>1
        <5> QED BY <1>2, <3>2, <5>2
      <4> HIDE DEF c
      <4> QED BY <4>1, <4>3 DEF LiveFrom
    <3> QED BY <2>1, <3>1, <3>2 DEF LiveFrom
  <2> QED BY <2>2, <2>3
<1> QED BY <1>4, <1>5, InAt DEF m, r

(* One plan after the other: the second goes on with what the first has    *)
(* left live.                                                              *)
LEMMA ScopeClosed ==
  ASSUME NEW L, NEW p, NEW q, InScope(L, p), InScope(After(L, p), q)
  PROVE  InScope(L, p \o q) /\ After(L, p \o q) = After(After(L, p), q)
<1>1. /\ IsPlan(p) /\ IsPlan(q) /\ IsPlan(p \o q)
      /\ Len(p) \in Nat /\ Len(q) \in Nat /\ Len(p \o q) = Len(p) + Len(q)
  BY Concatenation DEF InScope
<1>2. After(L, p \o q) = After(After(L, p), q)
  <2>1. At(L, p \o q, Len(p) + Len(q)) = At(After(L, p), q, Len(q))
    BY <1>1, AtSecond
  <2> QED BY <1>1, <2>1 DEF After
<1>3. ASSUME NEW k \in 1..Len(p) + Len(q)
      PROVE  StepIn(At(L, p \o q, k - 1), (p \o q)[k])
  <2>1. CASE k <= Len(p)
    <3>1. (p \o q)[k] = p[k] /\ k \in 1..Len(p)
      BY <1>1, <2>1, Concatenation, SMT
    <3>2. At(L, p \o q, k - 1) = At(L, p, k - 1)
      BY <1>1, <2>1, AtFirst
    <3> QED BY <3>1, <3>2 DEF InScope
  <2>2. CASE k > Len(p)
    <3> DEFINE j == k - Len(p)
    <3>1. (p \o q)[k] = q[j] /\ j \in 1..Len(q) /\ k - 1 = Len(p) + (j - 1) /\ j - 1 \in Nat
      BY <1>1, <2>2, Concatenation, SMT
    <3>2. At(L, p \o q, Len(p) + (j - 1)) = At(After(L, p), q, j - 1)
      BY <1>1, <3>1, AtSecond
    <3> QED BY <3>1, <3>2 DEF InScope
  <2> QED BY <1>1, <2>1, <2>2
<1> QED BY <1>1, <1>2, <1>3 DEF InScope

(* Plans of no step and of one.                                            *)
LEMMA ScopeOfOne ==
  /\ \A L : InScope(L, <<>>) /\ After(L, <<>>) = L
  /\ \A L, a : InScope(L, <<a>>) <=> StepIn(L, a)
  /\ \A L, a : After(L, <<a>>) = Then(L, a)
<1>1. ASSUME NEW L, NEW p PROVE At(L, p, 0) = L
  <2>1. ASSUME NEW v PROVE LiveFrom(L, p, 0, v) <=> v \in L
    BY DEF LiveFrom
  <2> QED BY <2>1, InAt
<1>2. \A L : InScope(L, <<>>) /\ After(L, <<>>) = L
  BY <1>1, Tuples DEF InScope, After
<1>3. ASSUME NEW L, NEW a PROVE InScope(L, <<a>>) <=> StepIn(L, a)
  <2>1. <<a>>[1] = a /\ IsPlan(<<a>>) /\ Len(<<a>>) = 1 /\ At(L, <<a>>, 0) = L
    BY <1>1, Tuples
  <2> QED BY <2>1 DEF InScope
<1>4. ASSUME NEW L, NEW a PROVE After(L, <<a>>) = Then(L, a)
  <2>1. <<a>>[1] = a /\ Len(<<a>>) = 1
    BY Tuples
  <2>2. ASSUME NEW v PROVE LiveFrom(L, <<a>>, 1, v) <=> v \in Then(L, a)
    <3>1. Binds(a, v) => v = a.v /\ ~Frees(a, v)
      BY DEF Binds, Frees
    <3>2. (\A l \in 1..1 : ~Frees(<<a>>[l], v)) <=> ~Frees(a, v)
      BY <2>1
    <3>3. (\E b \in 1..1 : Binds(<<a>>[b], v) /\ \A l \in b + 1..1 : ~Frees(<<a>>[l], v))
          <=> Binds(a, v)
      <4>1. \A l \in 1 + 1..1 : FALSE
        OBVIOUS
      <4> QED BY <2>1, <4>1
    <3>4. LiveFrom(L, <<a>>, 1, v) <=> (v \in L /\ ~Frees(a, v)) \/ Binds(a, v)
      BY <3>2, <3>3 DEF LiveFrom
    <3> QED BY <3>1, <3>4 DEF Then
  <2> QED BY <2>1, <2>2, InAt DEF After
<1> QED BY <1>2, <1>3, <1>4

(* Plans of two and three steps.                                           *)
LEMMA ScopeOfTwo ==
  ASSUME NEW L, NEW a, NEW b, StepIn(L, a), StepIn(Then(L, a), b)
  PROVE  InScope(L, <<a, b>>) /\ After(L, <<a, b>>) = Then(Then(L, a), b)
<1>1. <<a, b>> = <<a>> \o <<b>>
  <2> DEFINE p == <<a>>
             q == <<b>>
             r == <<a, b>>
  <2>1. p \in Seq({a, b}) /\ q \in Seq({a, b}) /\ r \in Seq({a, b})
    OBVIOUS
  <2>2. Len(p) = 1 /\ Len(q) = 1 /\ Len(r) = 2 /\ p[1] = a /\ q[1] = b /\ r[1] = a /\ r[2] = b
    OBVIOUS
  <2> HIDE DEF p, q, r
  <2>3. /\ p \o q \in Seq({a, b}) /\ Len(p \o q) = 2
        /\ \A j \in 1..2 : (p \o q)[j] = IF j <= 1 THEN p[j] ELSE q[j - 1]
    BY <2>1, <2>2, ConcatProperties
  <2>4. \A j \in 1..2 : (p \o q)[j] = r[j]
    BY <2>2, <2>3
  <2>5. p \o q = r
    BY <2>1, <2>2, <2>3, <2>4, SeqEqual
  <2> QED BY <2>5 DEF p, q, r
<1>2. /\ InScope(L, <<a>>) /\ After(L, <<a>>) = Then(L, a)
      /\ InScope(Then(L, a), <<b>>) /\ After(Then(L, a), <<b>>) = Then(Then(L, a), b)
  BY ScopeOfOne
<1>3. InScope(L, <<a>> \o <<b>>) /\ After(L, <<a>> \o <<b>>) = Then(Then(L, a), b)
  BY <1>2, ScopeClosed
<1> QED BY <1>1, <1>3

LEMMA ScopeOfThree ==
  ASSUME NEW L, NEW a, NEW b, NEW c,
         StepIn(L, a), StepIn(Then(L, a), b), StepIn(Then(Then(L, a), b), c)
  PROVE  InScope(L, <<a, b, c>>) /\ After(L, <<a, b, c>>) = Then(Then(Then(L, a), b), c)
<1> DEFINE M == Then(Then(L, a), b)
<1>1. <<a, b, c>> = <<a, b>> \o <<c>>
  OBVIOUS
<1>2. /\ InScope(L, <<a, b>>) /\ After(L, <<a, b>>) = M
      /\ InScope(M, <<c>>) /\ After(M, <<c>>) = Then(M, c)
  BY ScopeOfOne, ScopeOfTwo
<1>3. InScope(L, <<a, b>> \o <<c>>) /\ After(L, <<a, b>> \o <<c>>) = Then(M, c)
  BY <1>2, ScopeClosed
<1> QED BY <1>1, <1>3

(* What the handlers are put together with.                                *)
LEMMA Scoping ==
  /\ \A L, p, q : InScope(L, p) /\ InScope(After(L, p), q)
                 => InScope(L, p \o q) /\ After(L, p \o q) = After(After(L, p), q)
  /\ \A L, a, b : StepIn(L, a) /\ StepIn(Then(L, a), b)
                 => InScope(L, <<a, b>>) /\ After(L, <<a, b>>) = Then(Then(L, a), b)
  /\ \A L, a, b, c : StepIn(L, a) /\ StepIn(Then(L, a), b) /\ StepIn(Then(Then(L, a), b), c)
                    => /\ InScope(L, <<a, b, c>>)
                       /\ After(L, <<a, b, c>>) = Then(Then(Then(L, a), b), c)
BY ScopeClosed, ScopeOfTwo, ScopeOfThree

(* Longer plans in parts: of four steps                                    *)
LEMMA ScopeOfFour ==
  ASSUME NEW L, NEW a, NEW b, NEW c, NEW d,
         InScope(L, <<a, b>>), InScope(After(L, <<a, b>>), <<c, d>>)
  PROVE  /\ InScope(L, <<a, b, c, d>>)
         /\ After(L, <<a, b, c, d>>) = After(After(L, <<a, b>>), <<c, d>>)
<1>1. <<a, b, c, d>> = <<a, b>> \o <<c, d>>
  OBVIOUS
<1>2. /\ InScope(L, <<a, b>> \o <<c, d>>)
      /\ After(L, <<a, b>> \o <<c, d>>) = After(After(L, <<a, b>>), <<c, d>>)
  BY ScopeClosed
<1> QED BY <1>1, <1>2

(* and of five.                                                            *)
LEMMA ScopeOfFive ==
  ASSUME NEW L, NEW a, NEW b, NEW c, NEW d, NEW e,
         InScope(L, <<a, b>>), InScope(After(L, <<a, b>>), <<c, d, e>>)
  PROVE  /\ InScope(L, <<a, b, c, d, e>>)
         /\ After(L, <<a, b, c, d, e>>) = After(After(L, <<a, b>>), <<c, d, e>>)
<1>1. <<a, b, c, d, e>> = <<a, b>> \o <<c, d, e>>
  OBVIOUS
<1>2. /\ InScope(L, <<a, b>> \o <<c, d, e>>)
      /\ After(L, <<a, b>> \o <<c, d, e>>) = After(After(L, <<a, b>>), <<c, d, e>>)
  BY ScopeClosed
<1> QED BY <1>1, <1>2

(* What each kind of step needs and leaves.                                *)
LEMMA ScopeSteps ==
  /\ \A L, n, v, w : StepIn(L, LoadOp(n, v, w)) /\ StepIn(L, LoadUnchecked(n, v, w))
  /\ \A L, n, v : StepIn(L, Address(n, v))
  /\ \A L, n, v, k : StepIn(L, AddressOrSkip(n, v, k))
  /\ \A L, v, w : StepIn(L, Alloc(v, w)) /\ StepIn(L, AllocUnchecked(v, w))
  /\ \A L, v, w, u : StepIn(L, AllocElseFree(v, w, u))
  /\ \A L, v : v \in L => StepIn(L, Free(v))
  /\ \A L, merr : merr \in Final => StepIn(L, Finish(merr))
<1>1. \A L, st : st.do \in {"load", "addr", "alloc"} \union Final => StepIn(L, st)
  BY DEF StepIn, Final
<1>2. \A L, st : st.do = "free" /\ st.v \in L => StepIn(L, st)
  BY DEF StepIn
<1>3. /\ \A n, v, w : LoadOp(n, v, w).do = "load" /\ LoadUnchecked(n, v, w).do = "load"
      /\ \A n, v : Address(n, v).do = "addr"
      /\ \A n, v, k : AddressOrSkip(n, v, k).do = "addr"
      /\ \A v, w : Alloc(v, w).do = "alloc" /\ AllocUnchecked(v, w).do = "alloc"
      /\ \A v, w, u : AllocElseFree(v, w, u).do = "alloc"
      /\ \A v : Free(v).do = "free" /\ Free(v).v = v
      /\ \A merr : Finish(merr).do = merr
  BY DEF LoadOp, LoadUnchecked, Address, AddressOrSkip, Alloc, AllocUnchecked, AllocElseFree, Free,
         Finish, Step
<1> QED BY <1>1, <1>2, <1>3

(* Of a step that emits, its operands.                                     *)
LEMMA ScopeEmits ==
  /\ \A L, n, s : NameIn(L, s) => StepIn(L, StoreOp(n, s)) /\ StepIn(L, StoreUnchecked(n, s))
  /\ \A L, v, w, s : NameIn(L, s) => StepIn(L, WidenTmp(v, w, s))
  /\ \A L, dst, s :
       NameIn(L, dst) /\ NameIn(L, s) => StepIn(L, Mov(dst, s)) /\ StepIn(L, Xdu(dst, s))
  /\ \A L, dst, s :
       NameIn(L, dst) /\ NameIn(L, s) => StepIn(L, I2f(dst, s)) /\ StepIn(L, F2f(dst, s))
  /\ \A L, dst, args : NameIn(L, dst) /\ Names(L, args) =>
       StepIn(L, Call(dst, args)) /\ StepIn(L, ScalarCall(dst, args))
  /\ \A L, n, dst : NameIn(L, dst) => StepIn(L, AddressImm(n, dst))
<1>1. \A L, s : NameIn(L, s) => Names(L, <<s>>)
  BY Tuples DEF Names
<1>2. \A L : Names(L, <<>>)
  BY Tuples DEF Names
<1> QED BY <1>1, <1>2 DEF StepIn, StoreOp, StoreUnchecked, WidenTmp, Mov, Xdu, I2f, F2f, Call,
           ScalarCall, AddressImm, Emit, Step, NameIn

(* Loads, addresses, allocations and widenings add their temporary;        *)
(* free_kreg takes it away;                                                *)
LEMMA ThenSteps ==
  /\ \A L, n, v, w, x : x \in Then(L, LoadOp(n, v, w)) <=> x \in L \/ x = v
  /\ \A L, n, v, w, x : x \in Then(L, LoadUnchecked(n, v, w)) <=> x \in L \/ x = v
  /\ \A L, n, v, x : x \in Then(L, Address(n, v)) <=> x \in L \/ x = v
  /\ \A L, n, v, k, x : x \in Then(L, AddressOrSkip(n, v, k)) <=> x \in L \/ x = v
  /\ \A L, v, w, x : x \in Then(L, Alloc(v, w)) <=> x \in L \/ x = v
  /\ \A L, v, w, x : x \in Then(L, AllocUnchecked(v, w)) <=> x \in L \/ x = v
  /\ \A L, v, w, u, x : x \in Then(L, AllocElseFree(v, w, u)) <=> x \in L \/ x = v
  /\ \A L, v, x : x \in Then(L, Free(v)) <=> x \in L /\ x # v
  /\ \A L, v, w, s, x : x \in Then(L, WidenTmp(v, w, s)) <=> x \in L \/ x = v
<1>1. \A L, st, x :
        st.do \in {"load", "addr", "alloc", "widen"} => (x \in Then(L, st) <=> x \in L \/ x = st.v)
  BY DEF Then, Binds, Frees
<1>2. \A L, st, x : st.do = "free" => (x \in Then(L, st) <=> x \in L /\ x # st.v)
  BY DEF Then, Binds, Frees
<1>3. /\ \A n, v, w : LoadOp(n, v, w).do = "load" /\ LoadOp(n, v, w).v = v
      /\ \A n, v, w : LoadUnchecked(n, v, w).do = "load" /\ LoadUnchecked(n, v, w).v = v
      /\ \A n, v : Address(n, v).do = "addr" /\ Address(n, v).v = v
      /\ \A n, v, k : AddressOrSkip(n, v, k).do = "addr" /\ AddressOrSkip(n, v, k).v = v
      /\ \A v, w : Alloc(v, w).do = "alloc" /\ Alloc(v, w).v = v
      /\ \A v, w : AllocUnchecked(v, w).do = "alloc" /\ AllocUnchecked(v, w).v = v
      /\ \A v, w, u : AllocElseFree(v, w, u).do = "alloc" /\ AllocElseFree(v, w, u).v = v
      /\ \A v : Free(v).do = "free" /\ Free(v).v = v
      /\ \A v, w, s : WidenTmp(v, w, s).do = "widen" /\ WidenTmp(v, w, s).v = v
  BY DEF LoadOp, LoadUnchecked, Address, AddressOrSkip, Alloc, AllocUnchecked, AllocElseFree, Free,
         WidenTmp, Step
<1> QED BY <1>1, <1>2, <1>3

(* and the others leave the live temporaries as they are.                  *)
LEMMA ThenEmits ==
  /\ \A L, merr : merr \in Final => Then(L, Finish(merr)) = L
  /\ \A L, n, s : Then(L, StoreOp(n, s)) = L /\ Then(L, StoreUnchecked(n, s)) = L
  /\ \A L, dst, s : Then(L, Mov(dst, s)) = L /\ Then(L, Xdu(dst, s)) = L
  /\ \A L, dst, s : Then(L, I2f(dst, s)) = L /\ Then(L, F2f(dst, s)) = L
  /\ \A L, dst, args : Then(L, Call(dst, args)) = L /\ Then(L, ScalarCall(dst, args)) = L
  /\ \A L, n, dst : Then(L, AddressImm(n, dst)) = L
<1>1. \A L, st : st.do \notin {"load", "addr", "alloc", "widen", "free"} => Then(L, st) = L
  BY DEF Then, Binds, Frees
<1>2. /\ \A merr : Finish(merr).do = merr
      /\ \A n, s : StoreOp(n, s).do = "store" /\ StoreUnchecked(n, s).do = "store"
      /\ \A dst, s : Mov(dst, s).do = "emit" /\ Xdu(dst, s).do = "emit"
      /\ \A dst, s : I2f(dst, s).do = "emit" /\ F2f(dst, s).do = "emit"
      /\ \A dst, args : Call(dst, args).do = "emit" /\ ScalarCall(dst, args).do = "emit"
      /\ \A n, dst : AddressImm(n, dst).do = "emit"
  BY DEF Finish, StoreOp, StoreUnchecked, Mov, Xdu, I2f, F2f, Call, ScalarCall, AddressImm, Emit,
         Step
<1>3. \A merr : merr \in Final => merr \notin {"load", "addr", "alloc", "widen", "free"}
  BY DEF Final
<1> QED BY <1>1, <1>2, <1>3

(* Arguments are named one by one, and lists of them put together.         *)
LEMMA NamesClosed ==
  /\ \A L : Names(L, <<>>)
  /\ \A L, a : NameIn(L, a) => Names(L, <<a>>)
  /\ \A L, a, b : NameIn(L, a) /\ NameIn(L, b) => Names(L, <<a, b>>)
  /\ \A L, a, b, c : NameIn(L, a) /\ NameIn(L, b) /\ NameIn(L, c) => Names(L, <<a, b, c>>)
  /\ \A L, x, y : Names(L, x) /\ Names(L, y) => Names(L, x \o y)
<1>1. /\ \A L : Names(L, <<>>)
      /\ \A L, a : NameIn(L, a) => Names(L, <<a>>)
      /\ \A L, a, b : NameIn(L, a) /\ NameIn(L, b) => Names(L, <<a, b>>)
      /\ \A L, a, b, c : NameIn(L, a) /\ NameIn(L, b) /\ NameIn(L, c) => Names(L, <<a, b, c>>)
  BY Tuples DEF Names
<1>2. ASSUME NEW L, NEW x, NEW y, Names(L, x), Names(L, y) PROVE Names(L, x \o y)
  BY <1>2, Concatenation, SMT DEF Names
<1> QED BY <1>1, <1>2

(* More live names do no harm.                                             *)
LEMMA NamesGrow ==
  ASSUME NEW L, NEW M, L \subseteq M
  PROVE  /\ \A s : NameIn(L, s) => NameIn(M, s)
         /\ \A x : Names(L, x) => Names(M, x)
BY DEF Names, NameIn

(* Registers, immediates, masks and flags need no kreg; a memory operand   *)
(* needs the one it was loaded into.                                       *)
LEMMA NamesOfArgs ==
  /\ \A L, v, w : NameIn(L, Tmp(v, w)) <=> v \in L
  /\ \A L, v, w : NameIn(L, Deref(v, w)) <=> v \in L
  /\ \A L, n, w : NameIn(L, Reg(n, w))
  /\ \A L, n : NameIn(L, Imm(n)) /\ NameIn(L, MaskImm(n)) /\ NameIn(L, add_argument_mask(n))
  /\ \A L, l : NameIn(L, Flag(l))
  /\ \A L : NameIn(L, ZF) /\ NameIn(L, CF) /\ NameIn(L, OtherFlags) /\ NameIn(L, Number0)
       /\ NameIn(L, Effect)
  /\ \A L, i, n, v, w : NameIn(L, Loaded(i, n, v, w)) <=> (IsMem(Op(i, n)) => v \in L)
  /\ \A L, i, n, w : NameIn(L, VecSource(i, n, w)) <=>
       (IsMem(Op(i, n)) => (IF Op(i, n).w < w THEN "t" ELSE "s") \in L)
BY DEF NameIn, Tmp, Deref, Reg, Imm, MaskImm, add_argument_mask, Flag, ZF, CF, OtherFlags, Number0,
       Effect, Loaded, VecSource

(* A mask and what a masked intrinsic merges with need none either.        *)
LEMMA NamesOfMasked ==
  /\ \A L, i, w : Names(L, MergeArg(i, w))
  /\ \A L, i, w, args : Names(L, args) => Names(L, MaskedArgs(i, w, args))
BY NamesClosed, NamesOfArgs DEF MergeArg, MaskedArgs

(* emit_zmm_load leaves the address and the loaded value live,             *)
LEMMA ScopeOfZmmLoad ==
  ASSUME NEW L, NEW i, NEW n, NEW v
  PROVE  /\ InScope(L, emit_zmm_load(i, n, v))
         /\ \A x : x \in After(L, emit_zmm_load(i, n, v)) <=> x \in L \/ x \in {"ea", v}
BY Scoping, ScopeSteps, ScopeEmits, ThenSteps, ThenEmits, NamesOfArgs DEF emit_zmm_load

(* and so load_operand_udt the loaded value.                               *)
LEMMA ScopeOfUdtLoad ==
  ASSUME NEW L, NEW i, NEW n, NEW v, NEW size
  PROVE  /\ InScope(L, load_operand_udt(i, n, v, size))
         /\ L \union {v} \subseteq After(L, load_operand_udt(i, n, v, size))
<1>1. /\ InScope(L, <<LoadOp(n, v, size)>>)
      /\ \A x : x \in After(L, <<LoadOp(n, v, size)>>) <=> x \in L \/ x = v
  BY ScopeOfOne, ScopeSteps, ThenSteps
<1> QED BY <1>1, ScopeOfZmmLoad DEF load_operand_udt

(* make_vector_load_mop leaves the address live.                           *)
LEMMA ScopeOfAddress ==
  ASSUME NEW L, NEW i, NEW n
  PROVE  /\ InScope(L, make_vector_load_mop(i, n))
         /\ L \union {"addr"} \subseteq After(L, make_vector_load_mop(i, n))
BY ScopeOfOne, Scoping, ScopeSteps, ScopeEmits, ThenSteps, ThenEmits, NamesOfArgs
   DEF make_vector_load_mop

(* AvxOpLoader leaves a memory operand in the kreg it was told,            *)
LEMMA ScopeOfLoader ==
  ASSUME NEW L, NEW i, NEW n, NEW v
  PROVE  /\ InScope(L, AvxOpLoader(i, n, v))
         /\ L \subseteq After(L, AvxOpLoader(i, n, v))
         /\ IsMem(Op(i, n)) => v \in After(L, AvxOpLoader(i, n, v))
BY ScopeOfUdtLoad, ScopeOfOne DEF AvxOpLoader

(* a source that is widened if need be is left where VecSource looks for   *)
(* it,                                                                     *)
LEMMA ScopeOfVecSource ==
  ASSUME NEW L, NEW i, NEW n, NEW w
  PROVE  /\ InScope(L, add_vec_source(i, n, w))
         /\ L \subseteq After(L, add_vec_source(i, n, w))
         /\ NameIn(After(L, add_vec_source(i, n, w)), VecSource(i, n, w))
<1> DEFINE M == After(L, AvxOpLoader(i, n, "s"))
           p == IF Op(i, n).w < w THEN <<WidenTmp("t", w, Tmp("s", Op(i, n).w))>> ELSE <<>>
<1>1. CASE ~IsMem(Op(i, n))
  BY <1>1, ScopeOfOne, NamesOfArgs DEF add_vec_source
<1>2. CASE IsMem(Op(i, n))
  <2>1. InScope(L, AvxOpLoader(i, n, "s")) /\ L \subseteq M /\ "s" \in M
    BY <1>2, ScopeOfLoader
  <2>2. InScope(M, p) /\ M \subseteq After(M, p) /\ (Op(i, n).w < w => "t" \in After(M, p))
    BY <2>1, ScopeOfOne, ScopeEmits, ThenSteps, NamesOfArgs
  <2>3. add_vec_source(i, n, w) = AvxOpLoader(i, n, "s") \o p
    BY <1>2 DEF add_vec_source
  <2> HIDE DEF p
  <2> QED BY <1>2, <2>1, <2>2, <2>3, Scoping, NamesOfArgs
<1> QED BY <1>1, <1>2

(* and a scalar one is left in a kreg of an XMM register's size.           *)
LEMMA ScopeOfScalarSource ==
  ASSUME NEW L, NEW i, NEW n, NEW w
  PROVE  /\ InScope(L, ScalarSource(i, n, w))
         /\ L \subseteq After(L, ScalarSource(i, n, w))
         /\ IsMem(Op(i, n)) => "t" \in After(L, ScalarSource(i, n, w))
<1> DEFINE M == After(L, AvxOpLoader(i, n, "s"))
           p == <<Alloc("t", 16), Xdu(Tmp("t", 16), Tmp("s", w))>>
<1>1. CASE ~IsMem(Op(i, n))
  BY <1>1, ScopeOfOne DEF ScalarSource
<1>2. CASE IsMem(Op(i, n))
  <2>1. InScope(L, AvxOpLoader(i, n, "s")) /\ L \subseteq M /\ "s" \in M
    BY <1>2, ScopeOfLoader
  <2>2. InScope(M, p) /\ \A x : x \in After(M, p) <=> x \in M \/ x = "t"
    BY <2>1, Scoping, ScopeSteps, ScopeEmits, ThenSteps, ThenEmits, NamesOfArgs
  <2>3. ScalarSource(i, n, w) = AvxOpLoader(i, n, "s") \o p
    BY <1>2 DEF ScalarSource
  <2> HIDE DEF p
  <2> QED BY <2>1, <2>2, <2>3, Scoping
<1> QED BY <1>1, <1>2

(* How handlers end, and what they free before: the widened operand, if    *)
(* there was one, and what __writemask and __writezmm have taken.          *)
LEMMA ScopeOfEndings ==
  /\ \A L : InScope(L, MERR_OK) /\ InScope(L, MERR_INSN) /\ InScope(L, INTERR)
  /\ \A L, c, p : (c => InScope(L, p)) => InScope(L, QASSERT(c, p))
  /\ \A L, i, n, v : (IsMem(Op(i, n)) => v \in L) => InScope(L, FreeIfMem(i, n, v))
  /\ \A L, n, v, w : v \in L => InScope(L, emit_write_call(n, v, w))
  /\ \A L, n, v, w, x : v \in L => (x \in After(L, emit_write_call(n, v, w)) <=> x \in L /\ x # v)
<1>1. \A L : InScope(L, MERR_OK) /\ InScope(L, MERR_INSN) /\ InScope(L, INTERR)
  BY ScopeOfOne, ScopeSteps DEF MERR_OK, MERR_INSN, INTERR, Final
<1>2. \A L, c, p : (c => InScope(L, p)) => InScope(L, QASSERT(c, p))
  BY <1>1 DEF QASSERT
<1>3. \A L, i, n, v : (IsMem(Op(i, n)) => v \in L) => InScope(L, FreeIfMem(i, n, v))
  BY ScopeOfOne, ScopeSteps DEF FreeIfMem
<1>4. ASSUME NEW L, NEW n, NEW v, NEW w, v \in L
      PROVE  /\ InScope(L, emit_write_call(n, v, w))
             /\ \A x : x \in After(L, emit_write_call(n, v, w)) <=> x \in L /\ x # v
  BY <1>4, Scoping, ScopeSteps, ScopeEmits, ThenSteps, ThenEmits, NamesOfArgs DEF emit_write_call
<1> QED BY <1>1, <1>2, <1>3, <1>4

(* Stores take a live value and leave it live.                             *)
LEMMA ScopeOfVectorStore ==
  ASSUME NEW L, NEW i, NEW n, NEW src, NameIn(L, src)
  PROVE  /\ InScope(L, emit_vector_store(i, n, src))
         /\ L \subseteq After(L, emit_vector_store(i, n, src))
<1> DEFINE p == IF Op(i, n).glob
                THEN <<AllocUnchecked("addr", PtrSize(i)), AddressImm(n, Tmp("addr", PtrSize(i)))>>
                ELSE <<Address(n, "addr")>>
           q == <<Call(Effect, <<Tmp("addr", PtrSize(i)), src>>)>>
           M == After(L, p)
<1>1. InScope(L, p) /\ L \subseteq M /\ "addr" \in M
  BY ScopeOfOne, Scoping, ScopeSteps, ScopeEmits, ThenSteps, ThenEmits, NamesOfArgs
<1>2. emit_vector_store(i, n, src) = p \o q
  BY DEF emit_vector_store
<1> HIDE DEF p
<1>3. NameIn(M, src)
  BY <1>1, NamesGrow
<1> HIDE DEF M
<1>4. InScope(M, q) /\ After(M, q) = M
  BY <1>1, <1>3, ScopeOfOne, ScopeEmits, ThenEmits, NamesClosed, NamesOfArgs
<1> HIDE DEF q
<1> QED BY <1>1, <1>2, <1>4, Scoping DEF M

(* So do those that choose the path by the size of the value.              *)
LEMMA ScopeOfStores ==
  /\ \A L, i, n, src : NameIn(L, src) => InScope(L, store_operand_hack(i, n, src))
  /\ \A L, i, n, src : NameIn(L, src) => InScope(L, unchecked_store(i, n, src))
  /\ \A L, i, n, src : NameIn(L, src) => L \subseteq After(L, unchecked_store(i, n, src))
<1>1. \A L, n, src : NameIn(L, src) =>
        /\ InScope(L, <<StoreOp(n, src)>>) /\ InScope(L, <<StoreUnchecked(n, src)>>)
        /\ After(L, <<StoreUnchecked(n, src)>>) = L
  BY ScopeOfOne, ScopeEmits, ThenEmits
<1>2. \A L, i, n, src : NameIn(L, src) => InScope(L, store_operand_hack(i, n, src))
  BY <1>1, ScopeOfVectorStore DEF store_operand_hack
<1>3. ASSUME NEW L, NEW i, NEW n, NEW src, NameIn(L, src)
      PROVE  /\ InScope(L, unchecked_store(i, n, src))
             /\ L \subseteq After(L, unchecked_store(i, n, src))
  <2> DEFINE a == AddressOrSkip(n, "addr", 1)
             b == Call(Effect, <<Tmp("addr", PtrSize(i)), src>>)
             M == Then(L, a)
  <2>1. StepIn(L, a) /\ L \subseteq M /\ "addr" \in M
    BY ScopeSteps, ThenSteps
  <2> HIDE DEF M
  <2>2. NameIn(M, src)
    BY <1>3, <2>1, NamesGrow
  <2>3. StepIn(M, b) /\ Then(M, b) = M
    BY <2>1, <2>2, ScopeEmits, ThenEmits, NamesClosed, NamesOfArgs
  <2>4. \/ unchecked_store(i, n, src) = <<StoreUnchecked(n, src)>>
        \/ unchecked_store(i, n, src) = emit_vector_store(i, n, src)
        \/ unchecked_store(i, n, src) = <<a, b>>
    BY DEF unchecked_store
  <2> HIDE DEF a, b
  <2>5. InScope(L, <<a, b>>) /\ L \subseteq After(L, <<a, b>>)
    BY <2>1, <2>3, Scoping DEF M
  <2>6. /\ InScope(L, <<StoreUnchecked(n, src)>>)
        /\ L \subseteq After(L, <<StoreUnchecked(n, src)>>)
        /\ InScope(L, emit_vector_store(i, n, src))
        /\ L \subseteq After(L, emit_vector_store(i, n, src))
    BY <1>1, <1>3, ScopeOfVectorStore
  <2> QED BY <2>4, <2>5, <2>6
<1> QED BY <1>2, <1>3

(* A call into a kreg of its own,                                          *)
LEMMA ScopeOfKregCall ==
  ASSUME NEW L, NEW w, NEW args, Names(L, args)
  PROVE  /\ InScope(L, <<Alloc("tmp", w), Call(Tmp("tmp", w), args)>>)
         /\ \A x : x \in After(L, <<Alloc("tmp", w), Call(Tmp("tmp", w), args)>>)
                   <=> x \in L \/ x = "tmp"
<1> DEFINE a == Alloc("tmp", w)
           b == Call(Tmp("tmp", w), args)
           M == Then(L, a)
<1>1. StepIn(L, a) /\ L \subseteq M /\ \A x : x \in M <=> x \in L \/ x = "tmp"
  BY ScopeSteps, ThenSteps
<1> HIDE DEF M
<1>2. Names(M, args)
  BY <1>1, NamesGrow
<1>3. StepIn(M, b) /\ Then(M, b) = M
  BY <1>1, <1>2, ScopeEmits, ThenEmits, NamesOfArgs
<1> HIDE DEF a, b
<1>4. InScope(L, <<a, b>>) /\ After(L, <<a, b>>) = M
  BY <1>1, <1>3, Scoping DEF M
<1> QED BY <1>1, <1>4 DEF a, b

(* the same for a register through __writezmm,                             *)
LEMMA ScopeOfCallIntoVec ==
  ASSUME NEW L, NEW i, NEW w, NEW args, Names(L, args)
  PROVE  /\ InScope(L, CallIntoVec(i, w, args))
         /\ \A x \in L : x # "tmp" => x \in After(L, CallIntoVec(i, w, args))
<1> DEFINE p == <<Alloc("tmp", w), Call(Tmp("tmp", w), args)>>
           q == emit_write_call(1, "tmp", w)
           M == After(L, p)
<1>1. InScope(L, p) /\ \A x : x \in M <=> x \in L \/ x = "tmp"
  BY ScopeOfKregCall
<1> HIDE DEF M
<1>2. InScope(M, q) /\ \A x : x \in After(M, q) <=> x \in M /\ x # "tmp"
  BY <1>1, ScopeOfEndings
<1>3. CallIntoVec(i, w, args) = IF w = 64 THEN p \o q ELSE <<Call(Reg(1, w), args)>>
  BY DEF CallIntoVec
<1> HIDE DEF p, q
<1>4. InScope(L, p \o q) /\ After(L, p \o q) = After(M, q)
  BY <1>1, <1>2, Scoping DEF M
<1>5. InScope(L, <<Call(Reg(1, w), args)>>) /\ After(L, <<Call(Reg(1, w), args)>>) = L
  BY ScopeOfOne, ScopeEmits, ThenEmits, NamesOfArgs
<1> QED BY <1>1, <1>2, <1>3, <1>4, <1>5

(* and for memory through a store; both free it.                           *)
LEMMA ScopeOfCallIntoMem ==
  ASSUME NEW L, NEW i, NEW w, NEW args, Names(L, args)
  PROVE  InScope(L, CallIntoMem(i, w, args))
<1> DEFINE p == <<Alloc("tmp", w), Call(Tmp("tmp", w), args)>>
           q == unchecked_store(i, 1, Tmp("tmp", w))
           M == After(L, p)
<1>1. InScope(L, p) /\ "tmp" \in M
  BY ScopeOfKregCall
<1> HIDE DEF M
<1>2. InScope(M, q) /\ "tmp" \in After(M, q)
  BY <1>1, ScopeOfStores, NamesOfArgs
<1>3. InScope(After(M, q), <<Free("tmp")>>)
  BY <1>2, ScopeOfOne, ScopeSteps
<1>4. CallIntoMem(i, w, args) = p \o q \o <<Free("tmp")>>
  BY DEF CallIntoMem
<1> HIDE DEF p, q
<1> QED BY <1>1, <1>2, <1>3, <1>4, Scoping DEF M

(* Arguments: the operands of the arithmetic handlers, and tuples of four. *)
LEMMA MoreNames ==
  /\ \A L, i, n : NameIn(L, Src(i, n)) <=> (IsMem(Op(i, n)) => "s" \in L)
  /\ \A L, i, n : NameIn(L, Vec(i, n))
  /\ \A L, a, b, c, d : NameIn(L, a) /\ NameIn(L, b) /\ NameIn(L, c) /\ NameIn(L, d)
                       => Names(L, <<a, b, c, d>>)
<1>1. /\ \A L, i, n : NameIn(L, Src(i, n)) <=> (IsMem(Op(i, n)) => "s" \in L)
      /\ \A L, i, n : NameIn(L, Vec(i, n))
  BY NamesOfArgs DEF Src, Vec
<1>2. \A a, b, c, d : <<a, b, c, d>> \in Seq({a, b, c, d}) /\ Len(<<a, b, c, d>>) = 4
  OBVIOUS
<1>3. \A a, b, c, d : IsPlan(<<a, b, c, d>>)
  BY <1>2 DEF IsPlan
<1> QED BY <1>1, <1>2, <1>3 DEF Names

(* A call that is the last microinstruction of a handler.                  *)
LEMMA LastCall ==
  /\ \A L, dst, args : NameIn(L, dst) /\ Names(L, args) =>
       InScope(L, <<Call(dst, args)>>) /\ After(L, <<Call(dst, args)>>) = L
  /\ \A L, dst, args : NameIn(L, dst) /\ Names(L, args) =>
       InScope(L, <<ScalarCall(dst, args)>>) /\ After(L, <<ScalarCall(dst, args)>>) = L
  /\ \A L, dst, args :
       NameIn(L, dst) /\ Names(L, args) => InScope(L, <<Call(dst, args)>> \o MERR_OK)
  /\ \A L, dst, args :
       NameIn(L, dst) /\ Names(L, args) => InScope(L, <<ScalarCall(dst, args)>> \o MERR_OK)
  /\ \A L, i, n, v : (IsMem(Op(i, n)) => v \in L) => InScope(L, FreeIfMem(i, n, v) \o MERR_OK)
BY ScopeOfOne, Scoping, ScopeEmits, ThenEmits, ScopeOfEndings

(* The calls that the arithmetic handlers end with,                        *)
LEMMA ScopeOfIntrinsic ==
  ASSUME NEW L, NEW i
  PROVE  /\ \A args : Names(L, args) => InScope(L, Intrinsic(i, args))
         /\ \A imm :
              (IsMem(Op(i, 3)) => "t" \in L) /\ Names(L, imm) => InScope(L, ScalarIntrinsic(i, imm))
<1>1. \A args : Names(L, args) => InScope(L, Intrinsic(i, args))
  BY LastCall, NamesOfMasked, NamesOfArgs DEF Intrinsic
<1>2. ASSUME NEW imm, IsMem(Op(i, 3)) => "t" \in L, Names(L, imm)
      PROVE  InScope(L, ScalarIntrinsic(i, imm))
  <2> DEFINE p == <<ScalarCall(Reg(1, 16), MaskedArgs(i, 16, <<Reg(2, 16), Loaded(i, 3, "t", 16)>>
                                                      \o imm))>>
  <2>1. InScope(L, p) /\ After(L, p) = L
    BY <1>2, LastCall, NamesClosed, NamesOfMasked, NamesOfArgs
  <2>2. InScope(L, FreeIfMem(i, 3, "t"))
    BY <1>2, ScopeOfEndings
  <2>3. ScalarIntrinsic(i, imm) = p \o FreeIfMem(i, 3, "t") \o MERR_OK
    BY DEF ScalarIntrinsic
  <2> HIDE DEF p
  <2> QED BY <2>1, <2>2, <2>3, Scoping, ScopeOfEndings
<1> QED BY <1>1, <1>2

(* with their operands loaded before,                                      *)
LEMMA ScopeOfUnary ==
  ASSUME NEW L, NEW i, NEW imm, Names(L, imm)
  PROVE  InScope(L, Unary(i, imm)) /\ InScope(L, Binary(i, imm))
           /\ InScope(L, ScalarBinaryOp(i, imm))
<1> DEFINE M(n) == After(L, AvxOpLoader(i, n, "s"))
           N == After(L, ScalarSource(i, 3, i.es))
<1>1. /\ \A n : InScope(L, AvxOpLoader(i, n, "s")) /\ L \subseteq M(n)
      /\ \A n : NameIn(M(n), Src(i, n)) /\ NameIn(M(n), Vec(i, 2))
  BY ScopeOfLoader, MoreNames
<1>2. \A n : Names(M(n), imm)
  BY <1>1, NamesGrow
<1>3. InScope(L, ScalarSource(i, 3, i.es)) /\ L \subseteq N /\ (IsMem(Op(i, 3)) => "t" \in N)
  BY ScopeOfScalarSource
<1>4. Names(N, imm)
  BY <1>3, NamesGrow
<1>5. InScope(L, Unary(i, imm))
  <2>1. Names(M(2), <<Src(i, 2)>> \o imm)
    BY <1>1, <1>2, NamesClosed
  <2> QED BY <1>1, <2>1, ScopeOfIntrinsic, Scoping DEF Unary
<1>6. InScope(L, Binary(i, imm))
  <2>1. Names(M(3), <<Vec(i, 2), Src(i, 3)>> \o imm)
    BY <1>1, <1>2, NamesClosed
  <2> QED BY <1>1, <2>1, ScopeOfIntrinsic, Scoping DEF Binary
<1>7. InScope(L, ScalarBinaryOp(i, imm))
  BY <1>3, <1>4, ScopeOfIntrinsic, Scoping DEF ScalarBinaryOp
<1> QED BY <1>5, <1>6, <1>7

(* and those that accumulate into operand 1.                               *)
LEMMA ScopeOfAccumulate ==
  ASSUME NEW L, NEW i PROVE InScope(L, accumulate(i))
<1> DEFINE M == After(L, AvxOpLoader(i, 3, "s"))
           mask == add_argument_mask(NumElements(i))
           w == Op(i, 1).w
           acc == CASE i.mask = "zero"  -> <<mask, Reg(1, w)>>
                    [] i.mask = "merge" -> <<Reg(1, w), mask>>
                    [] OTHER            -> <<Reg(1, w)>>
<1>1. InScope(L, AvxOpLoader(i, 3, "s")) /\ NameIn(M, Src(i, 3)) /\ NameIn(M, Vec(i, 2))
  BY ScopeOfLoader, MoreNames
<1>2. Names(M, <<mask, Reg(1, w)>>) /\ Names(M, <<Reg(1, w), mask>>) /\ Names(M, <<Reg(1, w)>>)
  BY NamesClosed, NamesOfArgs
<1>3. Names(M, acc)
  BY <1>2, Zenon
<1> HIDE DEF acc
<1>4. Names(M, acc \o <<Vec(i, 2), Src(i, 3)>>)
  BY <1>1, <1>3, NamesClosed
<1>5. InScope(M, <<Call(Reg(1, w), acc \o <<Vec(i, 2), Src(i, 3)>>)>>)
  BY <1>4, LastCall, NamesOfArgs
<1>6. accumulate(i) = AvxOpLoader(i, 3, "s") \o <<Call(Reg(1, w), acc \o <<Vec(i, 2), Src(i, 3)>>)>>
        \o MERR_OK
  BY DEF accumulate, acc
<1> QED BY <1>1, <1>5, <1>6, Scoping, ScopeOfEndings

(* The handlers of handler_math.cpp made of these.                         *)
LEMMA MathScopes ==
  ASSUME NEW L, NEW i
  PROVE  /\ InScope(L, handle_vsad(i)) /\ InScope(L, handle_v_abs(i))
         /\ InScope(L, handle_v_sign(i))
         /\ InScope(L, handle_v_math_ph(i)) /\ InScope(L, handle_v_hmath(i))
         /\ InScope(L, handle_vaddsubps_pd(i))
         /\ InScope(L, handle_v_minmax_ss_sd(i)) /\ InScope(L, handle_v_math_sh(i))
         /\ InScope(L, handle_vsqrt_sh(i))
         /\ InScope(L, handle_vrcp_rsqrt(i)) /\ InScope(L, handle_vrcp_rsqrt_ss(i))
         /\ InScope(L, handle_v_sqrt_ph(i))
         /\ InScope(L, handle_vsqrt_ps_pd(i)) /\ InScope(L, handle_v_getexp(i))
         /\ InScope(L, handle_v_scalef(i))
         /\ InScope(L, handle_v_ifma(i)) /\ InScope(L, handle_v_vnni(i))
         /\ InScope(L, handle_v_getmant(i)) /\ InScope(L, handle_v_reduce(i))
         /\ InScope(L, handle_v_fixupimm(i)) /\ InScope(L, handle_v_range(i))
<1>1. Names(L, <<>>) /\ \A n : Names(L, <<Imm(n)>>)
  BY NamesClosed, NamesOfArgs
<1>2. \A j : InScope(L, Unary(j, <<>>)) /\ InScope(L, Binary(j, <<>>))
        /\ InScope(L, ScalarBinaryOp(j, <<>>))
  BY <1>1, ScopeOfUnary
<1>3. \A j, n : InScope(L, Unary(j, <<Imm(n)>>)) /\ InScope(L, Binary(j, <<Imm(n)>>))
        /\ InScope(L, ScalarBinaryOp(j, <<Imm(n)>>))
  BY <1>1, ScopeOfUnary
<1> QED BY <1>2, <1>3, ScopeOfAccumulate, ScopeOfEndings
        DEF handle_vsad, handle_v_abs, handle_v_sign, handle_v_math_ph, handle_v_hmath,
         handle_vaddsubps_pd, handle_v_minmax_ss_sd, handle_v_math_sh, handle_vsqrt_sh,
         handle_vrcp_rsqrt, handle_vrcp_rsqrt_ss, handle_v_sqrt_ph, handle_vsqrt_ps_pd,
         handle_v_getexp, handle_v_scalef, handle_v_ifma, handle_v_vnni, handle_v_getmant,
         handle_v_reduce, handle_v_fixupimm, handle_v_range, unary_with_imm, binary_with_imm

(* What a loaded operand leaves.                                           *)
LEMMA LoadedNames ==
  /\ \A L, i, n : InScope(L, AvxOpLoader(i, n, "s"))
  /\ \A L, i, n, m : NameIn(After(L, AvxOpLoader(i, n, "s")), Src(i, n))
  /\ \A L, i, n, w : NameIn(After(L, AvxOpLoader(i, n, "s")), Loaded(i, n, "s", w))
  /\ \A L, i, n, w : NameIn(After(L, ScalarSource(i, n, w)), Loaded(i, n, "t", 16))
  /\ \A L, i, n, w : InScope(L, ScalarSource(i, n, w))
  /\ \A L, i, n, w : (IsMem(Op(i, n)) => "t" \in After(L, ScalarSource(i, n, w)))
BY ScopeOfLoader, ScopeOfScalarSource, NamesOfArgs, MoreNames

(* Plans one after the other.                                              *)
LEMMA Chain ==
  /\ \A L, p, q, r :
       InScope(L, p) /\ InScope(After(L, p), q) /\ InScope(After(After(L, p), q), r)
       => /\ InScope(L, p \o q \o r)
          /\ After(L, p \o q \o r) = After(After(After(L, p), q), r)
  /\ \A L, p, q : InScope(L, p) /\ InScope(After(L, p), q) => InScope(L, p \o q \o MERR_OK)
  /\ \A L, p, q, r :
       InScope(L, p) /\ InScope(After(L, p), q) /\ InScope(After(After(L, p), q), r)
       => InScope(L, p \o q \o r \o MERR_OK)
<1>1. \A L, p, q : InScope(L, p) /\ InScope(After(L, p), q)
                 => InScope(L, p \o q) /\ After(L, p \o q) = After(After(L, p), q)
  BY ScopeClosed
<1>2. \A L : InScope(L, MERR_OK)
  BY ScopeOfEndings
<1> QED BY <1>1, <1>2

(* The ways in which most handlers end, after a plan that has loaded what  *)
(* they read.                                                              *)
LEMMA Afterwards ==
  /\ \A L, p, dst, args : InScope(L, p) /\ NameIn(After(L, p), dst) /\ Names(After(L, p), args) =>
       /\ InScope(L, p \o <<Call(dst, args)>> \o MERR_OK)
       /\ InScope(L, p \o <<ScalarCall(dst, args)>> \o MERR_OK)
  /\ \A L, p, i, w, args : InScope(L, p) /\ Names(After(L, p), args) =>
       /\ InScope(L, p \o CallIntoVec(i, w, args) \o MERR_OK)
       /\ InScope(L, p \o CallIntoMem(i, w, args) \o MERR_OK)
       /\ InScope(L, p \o Intrinsic(i, args))
  /\ \A L, p, c, q : InScope(L, p) /\ InScope(After(L, p), q) =>
       InScope(L, p \o QASSERT(c, q)) /\ InScope(L, p \o q)
<1>1. \A L, p, q : InScope(L, p) /\ InScope(After(L, p), q) => InScope(L, p \o q)
        /\ InScope(L, p \o q \o MERR_OK)
  BY Scoping, Chain
<1>2. \A K, dst, args : NameIn(K, dst) /\ Names(K, args) =>
        InScope(K, <<Call(dst, args)>>) /\ InScope(K, <<ScalarCall(dst, args)>>)
  BY LastCall
<1>3. \A K, i, w, args : Names(K, args) =>
        InScope(K, CallIntoVec(i, w, args)) /\ InScope(K, CallIntoMem(i, w, args))
          /\ InScope(K, Intrinsic(i, args))
  BY ScopeOfCallIntoVec, ScopeOfCallIntoMem, ScopeOfIntrinsic
<1>4. \A K, c, q : InScope(K, q) => InScope(K, QASSERT(c, q))
  BY ScopeOfEndings
<1> QED BY <1>1, <1>2, <1>3, <1>4

(* Three factors of a multiply-add, in any order.                          *)
LEMMA FactorNames ==
  ASSUME NEW L, NEW i, NEW s, NEW o, NameIn(L, s)
  PROVE  Names(L, [j \in 1..3 |-> IF o[j] = 3 THEN s ELSE Vec(i, o[j])])
<1> DEFINE f == [j \in 1..3 |-> IF o[j] = 3 THEN s ELSE Vec(i, o[j])]
<1>1. \A j \in 1..3 : NameIn(L, f[j])
  BY MoreNames
<1>2. f = <<f[1], f[2], f[3]>>
  OBVIOUS
<1> HIDE DEF f
<1>3. Names(L, <<f[1], f[2], f[3]>>)
  BY <1>1, NamesClosed
<1> QED BY <1>2, <1>3 DEF f

(* The other handlers of handler_math.cpp.                                 *)
LEMMA MathScopes2 ==
  ASSUME NEW L, NEW i
  PROVE  /\ InScope(L, handle_v_math_p(i)) /\ InScope(L, handle_v_dot(i))
         /\ InScope(L, handle_vround(i))
         /\ InScope(L, handle_vround_ss_sd(i)) /\ InScope(L, handle_v_math_ss_sd(i))
         /\ InScope(L, handle_v_complex_ph(i)) /\ InScope(L, handle_v_fp16_scalar_misc(i))
         /\ InScope(L, handle_v_fma(i)) /\ InScope(L, handle_v_bf16(i))
         /\ InScope(L, handle_vsqrtss(i)) /\ InScope(L, handle_vsqrtsd(i))
<1>1. InScope(L, handle_v_math_p(i))
  BY LoadedNames, ScopeOfCallIntoVec, Scoping, ScopeOfEndings, NamesClosed, NamesOfArgs,
     NamesOfMasked, MoreNames DEF handle_v_math_p
<1>2. InScope(L, handle_v_dot(i))
  <2> DEFINE M == After(L, AvxOpLoader(i, 3, "s"))
             p == Intrinsic(IgnoresMask(i), <<Vec(i, 2), Src(i, 3), Imm(4)>>)
  <2>1. InScope(L, AvxOpLoader(i, 3, "s")) /\ Names(M, <<Vec(i, 2), Src(i, 3), Imm(4)>>)
    BY LoadedNames, NamesClosed, NamesOfArgs, MoreNames
  <2>2. InScope(M, p)
    BY <2>1, ScopeOfIntrinsic
  <2> HIDE DEF p
  <2>3. \A c : InScope(L, AvxOpLoader(i, 3, "s") \o QASSERT(c, p))
    BY <2>1, <2>2, Afterwards
  <2> QED BY <2>3, ScopeOfEndings DEF handle_v_dot, p
<1>3. InScope(L, handle_vround(i)) /\ InScope(L, handle_vround_ss_sd(i))
  BY LoadedNames, ScopeOfIntrinsic, Scoping, ScopeOfEndings, NamesClosed, NamesOfArgs, MoreNames
     DEF handle_vround, handle_vround_ss_sd
<1>4. InScope(L, handle_v_math_ss_sd(i))
  <2> DEFINE r == IF Op(i, 3).k = "void" THEN Reg(1, i.es) ELSE Loaded(i, 3, "s", i.es)
             copied == Op(i, 2).r # Op(i, 1).r
             aliased == copied
               /\ (Op(i, 3).k = "void" \/ (IsXmm(Op(i, 3)) /\ Op(i, 3).r = Op(i, 1).r))
             M == After(L, AvxOpLoader(i, 3, "s"))
             save == IF aliased THEN <<Alloc("t", i.es), Mov(Tmp("t", i.es), r)>> ELSE <<>>
             N == After(M, save)
             copy == IF copied THEN <<Mov(Reg(1, 16), Reg(2, 16))>> ELSE <<>>
             second == IF aliased THEN Tmp("t", i.es) ELSE r
             call == <<Call(Reg(1, i.es), <<Reg(2, i.es), second>>)>>
  <2>1. InScope(L, AvxOpLoader(i, 3, "s")) /\ NameIn(M, r)
    BY LoadedNames, NamesOfArgs
  <2> HIDE DEF M, r, aliased
  <2>2. InScope(M, save) /\ M \subseteq N /\ (aliased => "t" \in N)
    <3>1. \A x : x \in Then(M, Alloc("t", i.es)) <=> x \in M \/ x = "t"
      BY ThenSteps
    <3>2. NameIn(Then(M, Alloc("t", i.es)), r)
      BY <2>1, <3>1, NamesGrow
    <3> QED BY <3>1, <3>2, Scoping, ScopeOfOne, ScopeSteps, ScopeEmits, ThenEmits, NamesOfArgs
  <2>3. NameIn(N, second)
    BY <2>1, <2>2, NamesGrow, NamesOfArgs
  <2> HIDE DEF N, save, second
  <2>4. InScope(N, copy) /\ After(N, copy) = N
    BY ScopeOfOne, ScopeEmits, ThenEmits, NamesOfArgs
  <2>5. InScope(N, call) /\ After(N, call) = N
    BY <2>3, LastCall, NamesClosed, NamesOfArgs
  <2> HIDE DEF copy, call
  <2>6. InScope(L, AvxOpLoader(i, 3, "s") \o save \o copy \o call \o MERR_OK)
    <3> DEFINE A == AvxOpLoader(i, 3, "s")
    <3>1. M = After(L, A) /\ N = After(M, save)
      BY DEF M, N
    <3>2. InScope(L, A \o save \o copy) /\ After(L, A \o save \o copy) = N
      BY <2>1, <2>2, <2>4, <3>1, Chain
    <3> QED BY <2>5, <3>2, Chain
  <2>7. handle_v_math_ss_sd(i) = QASSERT(VecRegs12(i), AvxOpLoader(i, 3, "s") \o save \o copy
                                         \o call \o MERR_OK)
    BY DEF handle_v_math_ss_sd, save, copy, call, second, aliased, r
  <2> QED BY <2>6, <2>7, ScopeOfEndings
<1>5. InScope(L, handle_v_complex_ph(i))
  <2> DEFINE w == Op(i, 1).w
             args == MaskedArgs(i, w,
                (IF i.it \in ComplexMulAdd THEN <<Reg(1, w), Reg(2, w)>> ELSE <<Reg(2, w)>>)
                \o <<VecSource(i, 3, w)>>)
             M == After(L, add_vec_source(i, 3, w))
             call == <<IF IsScalar(i) THEN ScalarCall(Reg(1, w), args) ELSE Call(Reg(1, w), args)>>
  <2>1. InScope(L, add_vec_source(i, 3, w)) /\ Names(M, args)
    BY ScopeOfVecSource, NamesClosed, NamesOfArgs, NamesOfMasked
  <2> HIDE DEF args
  <2>2. InScope(M, call)
    BY <2>1, LastCall, NamesOfArgs
  <2>3. handle_v_complex_ph(i) = add_vec_source(i, 3, w) \o call \o MERR_OK
    BY DEF handle_v_complex_ph, args
  <2> HIDE DEF call
  <2> QED BY <2>1, <2>2, <2>3, Scoping, ScopeOfEndings
<1>6. InScope(L, handle_v_fp16_scalar_misc(i))
  <2> DEFINE M == After(L, add_vec_source(i, 3, 16))
             imm == IF i.it \in FP16Imm /\ Op(i, 4).k = "imm" THEN <<Imm(4)>> ELSE <<>>
             args == MaskedArgs(i, 16, <<Reg(2, 16), VecSource(i, 3, 16)>> \o imm)
  <2>1. Names(M, imm)
    BY NamesClosed, NamesOfArgs
  <2>2. InScope(L, add_vec_source(i, 3, 16)) /\ Names(M, <<Reg(2, 16), VecSource(i, 3, 16)>>)
    BY ScopeOfVecSource, NamesClosed, NamesOfArgs
  <2> HIDE DEF imm
  <2>3. Names(M, args)
    BY <2>1, <2>2, NamesClosed, NamesOfMasked
  <2>4. handle_v_fp16_scalar_misc(i)
        = add_vec_source(i, 3, 16) \o <<ScalarCall(Reg(1, 16), args)>> \o MERR_OK
    BY DEF handle_v_fp16_scalar_misc, args, imm
  <2> HIDE DEF args
  <2> QED BY <2>2, <2>3, <2>4, Afterwards, NamesOfArgs
<1>7. InScope(L, handle_v_fma(i))
  <2> DEFINE w == Op(i, 1).w
             op3 == IF IsScalar(i) THEN Loaded(i, 3, "t", 16) ELSE Src(i, 3)
             args == MaskedArgs(i, w,
                                [j \in 1..3 |-> IF fma_order(i)[j] = 3 THEN op3
                                                ELSE Vec(i, fma_order(i)[j])])
             M == After(L, ScalarSource(i, 3, i.es))
             N == After(L, AvxOpLoader(i, 3, "s"))
  <2>1. \A K : NameIn(K, op3) => Names(K, args)
    BY FactorNames, NamesOfMasked
  <2>2. CASE IsScalar(i)
    <3>1. InScope(L, ScalarSource(i, 3, i.es)) /\ NameIn(M, op3) /\ (IsMem(Op(i, 3)) => "t" \in M)
      BY <2>2, LoadedNames
    <3>2. Names(M, args)
      BY <2>1, <3>1
    <3>3. handle_v_fma(i) = ScalarSource(i, 3, i.es) \o <<ScalarCall(Reg(1, 16), args)>>
                            \o FreeIfMem(i, 3, "t") \o MERR_OK
      BY <2>2 DEF handle_v_fma
    <3> HIDE DEF args, op3
    <3>4. InScope(M, <<ScalarCall(Reg(1, 16), args)>>)
            /\ After(M, <<ScalarCall(Reg(1, 16), args)>>) = M
      BY <3>2, LastCall, NamesOfArgs
    <3>5. InScope(M, FreeIfMem(i, 3, "t"))
      BY <3>1, ScopeOfEndings
    <3> QED BY <3>1, <3>3, <3>4, <3>5, Chain
  <2>3. CASE ~IsScalar(i)
    <3>1. InScope(L, AvxOpLoader(i, 3, "s")) /\ NameIn(N, op3)
      BY <2>3, LoadedNames
    <3>2. Names(N, args)
      BY <2>1, <3>1
    <3>3. handle_v_fma(i) = AvxOpLoader(i, 3, "s") \o <<Call(Reg(1, w), args)>> \o MERR_OK
      BY <2>3 DEF handle_v_fma
    <3> HIDE DEF args, op3
    <3>4. InScope(N, <<Call(Reg(1, w), args)>>)
      BY <3>2, LastCall, NamesOfArgs
    <3> QED BY <3>1, <3>3, <3>4, Scoping, ScopeOfEndings
  <2> QED BY <2>2, <2>3
<1>8. InScope(L, handle_v_bf16(i))
  <2>1. /\ InScope(L, AvxOpLoader(i, 2, "s") \o Binary(i, <<>>))
        /\ InScope(L, AvxOpLoader(i, 2, "s") \o Intrinsic(i, <<Loaded(i, 2, "s", Op(i, 2).w)>>))
        /\ InScope(L, accumulate(i)) /\ InScope(L, MERR_INSN)
    BY LoadedNames, ScopeOfUnary, ScopeOfIntrinsic, ScopeOfAccumulate, Scoping, ScopeOfEndings,
       NamesClosed
  <2> QED BY <2>1, Zenon DEF handle_v_bf16
(* A square root in a copy of operand 2.                                   *)
<1>9. ASSUME NEW M, NEW a, NEW w, NEW s, NameIn(M, s), StepIn(M, a),
             \A x : x \in Then(M, a) <=> x \in M \/ x = "tmp"
      PROVE  LET p == <<a, Mov(Tmp("tmp", 16), Reg(2, 16)), Call(Tmp("tmp", w), <<s>>),
                        Mov(Reg(1, 16), Tmp("tmp", 16)), Free("tmp")>>
             IN  InScope(M, p) /\ \A x : x \in After(M, p) <=> x \in M /\ x # "tmp"
  <2> DEFINE N == Then(M, a)
             b == Mov(Tmp("tmp", 16), Reg(2, 16))
             c == Call(Tmp("tmp", w), <<s>>)
             d == Mov(Reg(1, 16), Tmp("tmp", 16))
             e == Free("tmp")
  <2>1. NameIn(N, s) /\ "tmp" \in N
    BY <1>9, NamesGrow
  <2>2. \A x : x \in N <=> x \in M \/ x = "tmp"
    BY <1>9
  <2> HIDE DEF N
  <2>3. /\ StepIn(N, b) /\ Then(N, b) = N /\ StepIn(N, c) /\ Then(N, c) = N
        /\ StepIn(N, d) /\ Then(N, d) = N /\ StepIn(N, e)
        /\ \A x : x \in Then(N, e) <=> x \in N /\ x # "tmp"
    BY <2>1, ScopeEmits, ScopeSteps, ThenSteps, ThenEmits, NamesClosed, NamesOfArgs
  <2> HIDE DEF b, c, d, e
  <2>4. InScope(M, <<a, b, c, d, e>>) /\ After(M, <<a, b, c, d, e>>) = Then(N, e)
    <3>1. N = Then(M, a) /\ StepIn(M, a)
      BY <1>9 DEF N
    <3>2. InScope(M, <<a, b>>) /\ After(M, <<a, b>>) = N
      BY <2>3, <3>1, Scoping
    <3>3. InScope(N, <<c, d, e>>) /\ After(N, <<c, d, e>>) = Then(N, e)
      BY <2>3, Scoping
    <3> QED BY <3>2, <3>3, ScopeOfFive
  <2>5. \A x : x \in Then(N, e) <=> (x \in M /\ x # "tmp")
    BY <2>2, <2>3
  <2> QED BY <2>4, <2>5 DEF b, c, d, e
<1>10. InScope(L, handle_vsqrtss(i))
  <2> DEFINE M == After(L, AvxOpLoader(i, 3, "s"))
             p == <<Alloc("tmp", 16), Mov(Tmp("tmp", 16), Reg(2, 16)),
                    Call(Tmp("tmp", 4), <<Loaded(i, 3, "s", 4)>>),
                    Mov(Reg(1, 16), Tmp("tmp", 16)), Free("tmp")>>
  <2>1. InScope(L, AvxOpLoader(i, 3, "s")) /\ NameIn(M, Loaded(i, 3, "s", 4))
    BY LoadedNames
  <2> DEFINE a == Alloc("tmp", 16)
  <2>4. StepIn(M, a) /\ \A x : x \in Then(M, a) <=> x \in M \/ x = "tmp"
    BY ScopeSteps, ThenSteps
  <2>2. InScope(M, p)
    BY <2>1, <2>4, <1>9
  <2>3. handle_vsqrtss(i) = QASSERT(Xmms12(i), AvxOpLoader(i, 3, "s") \o p \o MERR_OK)
    BY DEF handle_vsqrtss
  <2> HIDE DEF p
  <2> QED BY <2>1, <2>2, <2>3, Scoping, ScopeOfEndings
<1>11. InScope(L, handle_vsqrtsd(i))
  <2> DEFINE M == After(L, ScalarSource(i, 3, 8))
             u == IF IsMem(Op(i, 3)) THEN "t" ELSE ""
             p == <<AllocElseFree("tmp", 16, u), Mov(Tmp("tmp", 16), Reg(2, 16)),
                    Call(Tmp("tmp", 8), <<Loaded(i, 3, "t", 8)>>), Mov(Reg(1, 16), Tmp("tmp", 16)),
                    Free("tmp")>>
  <2>1. InScope(L, ScalarSource(i, 3, 8)) /\ NameIn(M, Loaded(i, 3, "t", 8))
          /\ (IsMem(Op(i, 3)) => "t" \in M)
    BY LoadedNames, NamesOfArgs
  <2> DEFINE a == AllocElseFree("tmp", 16, u)
  <2>5. StepIn(M, a) /\ \A x : x \in Then(M, a) <=> (x \in M \/ x = "tmp")
    <3> HIDE DEF u
    <3> QED BY ScopeSteps, ThenSteps
  <2>2. InScope(M, p) /\ \A x : x \in After(M, p) <=> (x \in M /\ x # "tmp")
    <3> HIDE DEF u, M
    <3> QED BY <2>1, <2>5, <1>9
  <2>3. handle_vsqrtsd(i) = QASSERT(Xmms12(i), ScalarSource(i, 3, 8) \o p \o FreeIfMem(i, 3, "t")
                                    \o MERR_OK)
    BY DEF handle_vsqrtsd
  <2> HIDE DEF p
  <2>4. InScope(After(M, p), FreeIfMem(i, 3, "t"))
    BY <2>1, <2>2, ScopeOfEndings
  <2> QED BY <2>1, <2>2, <2>3, <2>4, Scoping, ScopeOfEndings
<1> QED BY <1>1, <1>2, <1>3, <1>4, <1>5, <1>6, <1>7, <1>8, <1>10, <1>11

(* The same at the start of a handler.                                     *)
LEMMA AtOnce ==
  /\ \A L, dst, args : NameIn(L, dst) /\ Names(L, args) =>
       InScope(L, <<Call(dst, args)>> \o MERR_OK)
         /\ InScope(L, <<ScalarCall(dst, args)>> \o MERR_OK)
  /\ \A L, i, w, args : Names(L, args) =>
       InScope(L, CallIntoVec(i, w, args) \o MERR_OK)
         /\ InScope(L, CallIntoMem(i, w, args) \o MERR_OK)
  /\ \A L, i, n, src : NameIn(L, src) =>
       InScope(L, store_operand_hack(i, n, src) \o MERR_OK)
         /\ InScope(L, unchecked_store(i, n, src) \o MERR_OK)
  /\ \A L, dst, src : NameIn(L, dst) /\ NameIn(L, src) => InScope(L, <<Mov(dst, src)>> \o MERR_OK)
  /\ \A L, n, src : NameIn(L, src) => InScope(L, <<StoreUnchecked(n, src)>> \o MERR_OK)
<1>1. \A L, p : InScope(L, p) => InScope(L, p \o MERR_OK)
  BY Scoping, ScopeOfEndings
<1> QED BY <1>1, LastCall, ScopeOfCallIntoVec, ScopeOfCallIntoMem, ScopeOfStores, ScopeOfOne,
           ScopeEmits

(* A computation on the first elements of its operands.                    *)
LEMMA ScopeOfScalarCall ==
  ASSUME NEW L, NEW i, NEW n, NEW w, NEW m, NEW v, NEW args,
         Names(After(L, ScalarSource(i, n, w)), args)
  PROVE  /\ InScope(L, ScalarSource(i, n, w) \o <<ScalarCall(Reg(m, v), args)>>
                    \o FreeIfMem(i, n, "t") \o MERR_OK)
         /\ InScope(L, ScalarSource(i, n, w) \o <<Call(Reg(m, v), args)>> \o FreeIfMem(i, n, "t")
                    \o MERR_OK)
<1> DEFINE M == After(L, ScalarSource(i, n, w))
<1>1. InScope(L, ScalarSource(i, n, w)) /\ (IsMem(Op(i, n)) => "t" \in M)
  BY LoadedNames
<1>2. /\ InScope(M, <<ScalarCall(Reg(m, v), args)>>)
      /\ After(M, <<ScalarCall(Reg(m, v), args)>>) = M
      /\ InScope(M, <<Call(Reg(m, v), args)>>) /\ After(M, <<Call(Reg(m, v), args)>>) = M
  BY LastCall, NamesOfArgs
<1>3. InScope(M, FreeIfMem(i, n, "t"))
  BY <1>1, ScopeOfEndings
<1> QED BY <1>1, <1>2, <1>3, Chain

(* What a handler may name while a loaded address is live.                 *)
LEMMA AddressNames ==
  /\ \A L, i, n : InScope(L, load_memory_address(i, n))
  /\ \A L, i, n : NameIn(After(L, load_memory_address(i, n)), MemoryAddress(i))
  /\ \A L, i, n, w : NameIn(After(L, load_memory_address(i, n)), Deref("addr", w))
  /\ \A L, n, dst, args :
       NameIn(Then(L, Address(n, "addr")), dst) /\ Names(Then(L, Address(n, "addr")), args) =>
       InScope(L, <<Address(n, "addr"), Call(dst, args)>> \o MERR_OK)
  /\ \A L, n, w : NameIn(Then(L, Address(n, "addr")), Tmp("addr", w))
<1>1. \A L, i, n :
        InScope(L, load_memory_address(i, n)) /\ "addr" \in After(L, load_memory_address(i, n))
  BY ScopeOfAddress DEF load_memory_address
<1>2. \A L, n, dst, args :
        NameIn(Then(L, Address(n, "addr")), dst) /\ Names(Then(L, Address(n, "addr")), args) =>
       InScope(L, <<Address(n, "addr"), Call(dst, args)>> \o MERR_OK)
  BY Scoping, ScopeSteps, ScopeEmits, ScopeOfEndings
<1> QED BY <1>1, <1>2, ThenSteps, NamesOfArgs DEF MemoryAddress

(* A kreg that is allocated, filled from s, read by a microinstruction and *)
(* freed.                                                                  *)
LEMMA BorrowedOnce ==
  ASSUME NEW L, NEW v, NEW w, NEW n, NEW s, NEW z, NEW d, NameIn(L, s)
  PROVE  /\ InScope(L, <<Alloc(v, w), Mov(Tmp(v, n), s), Xdu(Reg(1, z), Tmp(v, d)), Free(v)>>)
         /\ \A x : x \in After(L,
                               <<Alloc(v, w), Mov(Tmp(v, n), s), Xdu(Reg(1, z), Tmp(v, d)),
                                 Free(v)>>)
                   <=> x \in L /\ x # v
<1> DEFINE a == Alloc(v, w)
           b == Mov(Tmp(v, n), s)
           c == Xdu(Reg(1, z), Tmp(v, d))
           e == Free(v)
           M == Then(L, a)
<1>1. StepIn(L, a) /\ (\A x : x \in M <=> (x \in L \/ x = v)) /\ L \subseteq M
  BY ScopeSteps, ThenSteps
<1> HIDE DEF M
<1>2. NameIn(M, s)
  BY <1>1, NamesGrow
<1>3. StepIn(M, b) /\ Then(M, b) = M /\ StepIn(M, c) /\ Then(M, c) = M /\ StepIn(M, e)
  BY <1>1, <1>2, ScopeEmits, ScopeSteps, ThenEmits, NamesOfArgs
<1>4. \A x : x \in Then(M, e) <=> (x \in L /\ x # v)
  BY <1>1, ThenSteps
<1> HIDE DEF a, b, c, e
<1>5. InScope(L, <<a, b>>) /\ After(L, <<a, b>>) = M
  BY <1>1, <1>3, Scoping DEF M
<1>6. InScope(M, <<c, e>>) /\ After(M, <<c, e>>) = Then(M, e)
  BY <1>3, Scoping
<1>7. InScope(L, <<a, b, c, e>>) /\ After(L, <<a, b, c, e>>) = Then(M, e)
  BY <1>5, <1>6, ScopeOfFour
<1> QED BY <1>4, <1>7 DEF a, b, c, e

(* The same with two writes.                                               *)
LEMMA BorrowedTwice ==
  ASSUME NEW L, NEW v, NEW w, NEW n, NEW m, NEW s, NEW t, NEW z, NEW d, NameIn(L, s), NameIn(L, t)
  PROVE  /\ InScope(L, <<Alloc(v, w), Mov(Tmp(v, n), s), Mov(Tmp(v, m), t),
                         Mov(Reg(1, z), Tmp(v, d)), Free(v)>>)
         /\ InScope(L, <<Alloc(v, w), Mov(Tmp(v, n), s), F2f(Tmp(v, m), t),
                         Mov(Reg(1, z), Tmp(v, d)), Free(v)>>)
<1>1. ASSUME NEW c, c \in {Mov(Tmp(v, m), t), F2f(Tmp(v, m), t)}
      PROVE  InScope(L, <<Alloc(v, w), Mov(Tmp(v, n), s), c, Mov(Reg(1, z), Tmp(v, d)), Free(v)>>)
  <2> DEFINE a == Alloc(v, w)
             b == Mov(Tmp(v, n), s)
             g == Mov(Reg(1, z), Tmp(v, d))
             e == Free(v)
             M == Then(L, a)
  <2>1. StepIn(L, a) /\ (\A x : x \in M <=> (x \in L \/ x = v)) /\ L \subseteq M
    BY ScopeSteps, ThenSteps
  <2> HIDE DEF M
  <2>2. NameIn(M, s) /\ NameIn(M, t)
    BY <2>1, NamesGrow
  <2>3. StepIn(M, b) /\ Then(M, b) = M /\ StepIn(M, g) /\ Then(M, g) = M /\ StepIn(M, e)
    BY <2>1, <2>2, ScopeEmits, ScopeSteps, ThenEmits, NamesOfArgs
  <2>4. StepIn(M, c) /\ Then(M, c) = M
    BY <1>1, <2>1, <2>2, ScopeEmits, ThenEmits, NamesOfArgs
  <2> HIDE DEF a, b, g, e
  <2>5. InScope(L, <<a, b>>) /\ After(L, <<a, b>>) = M
    BY <2>1, <2>3, Scoping DEF M
  <2>6. InScope(M, <<c, g, e>>)
    BY <2>3, <2>4, Scoping
  <2>7. InScope(L, <<a, b, c, g, e>>)
    BY <2>5, <2>6, ScopeOfFive
  <2> QED BY <2>7 DEF a, b, g, e
<1>2. Mov(Tmp(v, m), t) \in {Mov(Tmp(v, m), t), F2f(Tmp(v, m), t)}
  OBVIOUS
<1>3. F2f(Tmp(v, m), t) \in {Mov(Tmp(v, m), t), F2f(Tmp(v, m), t)}
  OBVIOUS
<1> QED BY <1>1, <1>2, <1>3

(* The handlers of handler_mov.cpp but gathers and scatters.               *)
LEMMA MovScopes ==
  ASSUME NEW L, NEW i
  PROVE  /\ InScope(L, handle_vmov_sh(i)) /\ InScope(L, handle_vmovw(i))
         /\ InScope(L, masked_v_mov(i)) /\ InScope(L, handle_v_mov_ps_dq(i))
         /\ InScope(L, handle_v_compress(i)) /\ InScope(L, handle_v_expand(i))
         /\ InScope(L, handle_vmov(i)) /\ InScope(L, handle_vmov_ss_sd(i))
<1>1. InScope(L, masked_scalar_move(i))
  BY ScopeOfScalarCall, ScopeOfEndings, LoadedNames, NamesClosed, NamesOfArgs, NamesOfMasked
     DEF masked_scalar_move
<1>2. InScope(L, handle_vmov_sh(i))
  BY <1>1, ScopeOfScalarCall, AtOnce, ScopeOfEndings, LoadedNames, NamesClosed, NamesOfArgs
     DEF handle_vmov_sh
<1>3. InScope(L, handle_vmovw(i))
  BY LoadedNames, Afterwards, AtOnce, ScopeOfEndings, NamesClosed, NamesOfArgs, NamesOfMasked
     DEF handle_vmovw
<1>4. InScope(L, masked_v_mov(i))
  BY AddressNames, AtOnce, ScopeOfEndings, NamesClosed, NamesOfArgs, NamesOfMasked DEF masked_v_mov
<1>5. InScope(L, handle_v_mov_ps_dq(i))
  <2>1. \A w, v : InScope(L, <<Mov(Reg(1, w), Reg(2, v))>> \o MERR_OK)
    BY AtOnce, NamesOfArgs
  <2>2. \A w : InScope(L, (make_vector_load_mop(i, 2) \o <<Mov(Reg(1, 64), Deref("addr", 64))>>))
    BY ScopeOfAddress, ScopeOfOne, Scoping, ScopeEmits, NamesOfArgs
  <2>3. \A w : InScope(L, (load_operand_udt(i, 2, "s", w) \o <<Mov(Reg(1, w), Tmp("s", w))>>))
    BY ScopeOfUdtLoad, ScopeOfOne, Scoping, ScopeEmits, NamesOfArgs
  <2>4. \A p, c : InScope(L, p) => InScope(L, QASSERT(c, p) \o MERR_OK)
    BY ScopeOfEndings, Scoping
  <2> QED BY <1>4, <2>1, <2>2, <2>3, <2>4, AtOnce, ScopeOfEndings, NamesOfArgs
             DEF handle_v_mov_ps_dq
<1>6. InScope(L, handle_v_compress(i))
  BY AddressNames, LoadedNames, Afterwards, AtOnce, ScopeOfEndings, NamesClosed, NamesOfArgs,
     NamesOfMasked DEF handle_v_compress
<1>7. InScope(L, handle_v_expand(i))
  <2>1. \A w, n : InScope(L, <<Address(2, "addr"),
                               Call(Reg(1, w), MergeArg(i, w)
                                    \o <<add_argument_mask(n), Tmp("addr", PtrSize(i))>>)>>
                                      \o MERR_OK)
    BY AddressNames, NamesClosed, NamesOfArgs, NamesOfMasked
  <2>2. \A w, n : InScope(L, <<Call(Reg(1, w), MergeArg(i, w)
                                    \o <<add_argument_mask(n), Reg(2, w)>>)>> \o MERR_OK)
    BY AtOnce, NamesClosed, NamesOfArgs, NamesOfMasked
  <2> QED BY <2>1, <2>2, ScopeOfEndings DEF handle_v_expand
<1>8. InScope(L, handle_vmov(i))
  <2> DEFINE M == After(L, AvxOpLoader(i, 2, "s"))
             w == IF i.b64 THEN 32 ELSE 16
             p == <<Alloc("t", i.es), Mov(Tmp("t", i.es), Loaded(i, 2, "s", i.es)),
                    Xdu(Reg(1, w), Tmp("t", i.es)), Free("t")>>
  <2>1. InScope(L, AvxOpLoader(i, 2, "s")) /\ NameIn(M, Loaded(i, 2, "s", i.es))
    BY LoadedNames
  <2> HIDE DEF w, M
  <2>2. InScope(M, p)
    BY <2>1, BorrowedOnce
  <2>3. /\ InScope(L, <<StoreUnchecked(1, Reg(2, i.es))>> \o MERR_OK)
        /\ InScope(L, <<Mov(Reg(1, i.es), Reg(2, i.es))>> \o MERR_OK)
    BY AtOnce, NamesOfArgs
  <2>4. InScope(L, AvxOpLoader(i, 2, "s") \o p \o MERR_OK)
    BY <2>1, <2>2, Chain DEF M
  <2> HIDE DEF p
  <2> QED BY <2>3, <2>4, ScopeOfEndings DEF handle_vmov, p, w
<1>9. InScope(L, handle_vmov_ss_sd(i))
  <2>1. IsMem(Op(i, 2))
          => InScope(L, AvxOpLoader(i, 2, "s") \o <<Mov(Reg(1, i.es), Tmp("s", i.es))>> \o MERR_OK)
    <3>1. \A K : "s" \in K => InScope(K, <<Mov(Reg(1, i.es), Tmp("s", i.es))>>)
      BY ScopeOfOne, ScopeEmits, NamesOfArgs
    <3> QED BY <3>1, ScopeOfLoader, Chain
  <2>2. InScope(L, <<Alloc("t", 16), Mov(Tmp("t", 16), Reg(2, 16)),
                     Mov(Tmp("t", i.es), Reg(3, i.es)),
           Mov(Reg(1, 16), Tmp("t", 16)), Free("t")>> \o MERR_OK)
    <3>1. InScope(L, <<Alloc("t", 16), Mov(Tmp("t", 16), Reg(2, 16)),
                       Mov(Tmp("t", i.es), Reg(3, i.es)),
           Mov(Reg(1, 16), Tmp("t", 16)), Free("t")>>)
      BY BorrowedTwice, NamesOfArgs
    <3> QED BY <3>1, Scoping, ScopeOfEndings
  <2>3. \A c, p : (c => InScope(L, p)) => InScope(L, QASSERT(c, p))
    BY ScopeOfEndings
  <2> QED BY <1>1, <2>1, <2>2, <2>3, AtOnce, NamesOfArgs DEF handle_vmov_ss_sd
<1> QED BY <1>2, <1>3, <1>4, <1>5, <1>6, <1>7, <1>8, <1>9

(* Gathers and scatters: a zero-masked gather would read its kreg of zeros *)
(* after freeing it; the others are in scope.                              *)
LEMMA GatherScopes ==
  ASSUME NEW L, NEW i
  PROVE  /\ i.mask # "zero" => InScope(L, handle_v_gather(i))
         /\ InScope(L, handle_v_scatter(i))
<1>1. ASSUME NEW n
      PROVE  /\ InScope(L, BaseSteps(i, n)) /\ NameIn(After(L, BaseSteps(i, n)), BaseArg(i, n))
             /\ Op(i, n).disp => "base" \in After(L, BaseSteps(i, n))
  BY Scoping, ScopeOfOne, ScopeSteps, ScopeEmits, ThenSteps, ThenEmits, NamesClosed, NamesOfArgs
     DEF BaseSteps, BaseArg
<1>2. \A n, K : (Op(i, n).disp => "base" \in K) => InScope(K, FreeBase(i, n))
  BY ScopeOfOne, ScopeSteps DEF FreeBase
<1>3. ASSUME NEW n, NEW dst, NEW args, NameIn(After(L, BaseSteps(i, n)), dst),
             Names(After(L, BaseSteps(i, n)), args),
             NEW p, InScope(L, p), After(L, p) = After(L, BaseSteps(i, n))
      PROVE  InScope(L, p \o <<Call(dst, args)>> \o FreeBase(i, n) \o MERR_OK)
  <2> DEFINE K == After(L, BaseSteps(i, n))
  <2>1. InScope(K, <<Call(dst, args)>>) /\ After(K, <<Call(dst, args)>>) = K
    BY <1>3, LastCall
  <2> QED BY <1>1, <1>2, <1>3, <2>1, Chain
<1>4. ASSUME i.mask # "zero" PROVE InScope(L, handle_v_gather(i))
  <2> DEFINE w == Op(i, 1).w
             p == BaseSteps(i, 2)
             K == After(L, p)
             args == IF i.mask = "merge" THEN <<Reg(1, w), add_argument_mask(w \div i.es),
                                                Reg(4, IndexSize(i, w)), BaseArg(i, 2)>>
                     ELSE <<Reg(1, w), BaseArg(i, 2), Reg(4, IndexSize(i, w)), Reg(3, w)>>
  <2>1. NameIn(K, Reg(1, w)) /\ Names(K, args)
    BY <1>1, NamesOfArgs, MoreNames
  <2>2. InScope(L, p \o <<>>) /\ After(L, p \o <<>>) = K
    BY <1>1, ScopeOfOne, Scoping
  <2>3. handle_v_gather(i) = p \o <<>> \o <<Call(Reg(1, w), args)>> \o FreeBase(i, 2) \o MERR_OK
    BY <1>4 DEF handle_v_gather
  <2> HIDE DEF args
  <2> QED BY <1>3, <2>1, <2>2, <2>3
<1>5. InScope(L, handle_v_scatter(i))
  BY <1>1, <1>3, ScopeOfEndings, NamesOfArgs, MoreNames DEF handle_v_scatter
<1> QED BY <1>4, <1>5

(* The handlers of opmask instructions.                                    *)
LEMMA MaskScopes ==
  ASSUME NEW L, NEW i
  PROVE  /\ InScope(L, handle_v_cmp_to_mask(i)) /\ InScope(L, handle_v_2src_to_mask(i))
         /\ InScope(L, handle_v_fpclass_to_mask(i)) /\ InScope(L, handle_v_movx2m(i))
         /\ InScope(L, handle_v_p2intersect(i)) /\ InScope(L, handle_v_mask_to_vec(i))
         /\ InScope(L, handle_v_broadcastm(i)) /\ InScope(L, handle_k_alu(i))
         /\ InScope(L, handle_kmov(i))
<1>1. \A K, args, w : Names(K, args)
        => InScope(K, <<Alloc("tmp", w), Call(Tmp("tmp", w), args)>>
                   \o emit_write_call(1, "tmp", w))
  BY ScopeOfKregCall, ScopeOfEndings, Scoping
<1>2. \A K, args, w : Names(K, args)
        => InScope(K, <<Alloc("tmp", w), Call(Tmp("tmp", w), args)>> \o emit_write_call(1, "tmp", w)
                   \o MERR_OK)
  BY <1>1, Scoping, ScopeOfEndings
<1>3. \A K, args, n : Names(K, args) => InScope(K, finish_mask_result(args, n))
  BY <1>2 DEF finish_mask_result
<1>4. \A K : Names(K, MaskArg(i))
  BY NamesClosed, NamesOfArgs DEF MaskArg
(* Two sources, of which the second may need the names of the first.       *)
<1>5. ASSUME NEW w
      PROVE  LET p == add_vec_source(i, 2, w) \o add_vec_source(i, 3, w)
             IN  /\ InScope(L, p) /\ InScope(L, add_vec_source(i, 2, w))
                 /\ NameIn(After(L, p), VecSource(i, 2, w))
                 /\ NameIn(After(L, p), VecSource(i, 3, w))
                 /\ NameIn(After(L, add_vec_source(i, 2, w)), VecSource(i, 2, w))
  <2> DEFINE K == After(L, add_vec_source(i, 2, w))
             M == After(K, add_vec_source(i, 3, w))
  <2>1. /\ InScope(L, add_vec_source(i, 2, w)) /\ NameIn(K, VecSource(i, 2, w))
        /\ InScope(K, add_vec_source(i, 3, w)) /\ NameIn(M, VecSource(i, 3, w)) /\ K \subseteq M
    BY ScopeOfVecSource
  <2>2. NameIn(M, VecSource(i, 2, w))
    BY <2>1, NamesGrow
  <2> QED BY <2>1, <2>2, Scoping
<1>6. InScope(L, handle_v_cmp_to_mask(i)) /\ InScope(L, handle_v_2src_to_mask(i))
  <2>1. ASSUME NEW w, NEW n
        PROVE  InScope(L, add_vec_source(i, 2, w) \o add_vec_source(i, 3, w)
                          \o finish_mask_result(MaskArg(i)
                                                \o <<VecSource(i, 2, w), VecSource(i, 3, w)>>, n))
    BY <1>3, <1>4, <1>5, NamesClosed, Scoping
  <2> QED BY <2>1 DEF handle_v_cmp_to_mask, handle_v_2src_to_mask
<1>7. InScope(L, handle_v_fpclass_to_mask(i)) /\ InScope(L, handle_v_movx2m(i))
  <2>1. ASSUME NEW w, NEW n
        PROVE  /\ InScope(L, add_vec_source(i, 2, w)
                          \o finish_mask_result(MaskArg(i) \o <<VecSource(i, 2, w)>>, n))
               /\ InScope(L, add_vec_source(i, 2, w)
                          \o finish_mask_result(<<VecSource(i, 2, w)>>, n))
    BY <1>3, <1>4, <1>5, NamesClosed, Scoping
  <2> QED BY <2>1 DEF handle_v_fpclass_to_mask, handle_v_movx2m
<1>8. InScope(L, handle_v_p2intersect(i))
  <2>1. ASSUME NEW w
        PROVE  InScope(L, add_vec_source(i, 2, w) \o add_vec_source(i, 3, w)
                 \o <<Call(Effect, <<VecSource(i, 2, w), VecSource(i, 3, w)>>)>> \o MERR_OK)
    BY <1>5, Afterwards, NamesClosed, NamesOfArgs
  <2> QED BY <2>1 DEF handle_v_p2intersect
<1>9. InScope(L, handle_v_mask_to_vec(i)) /\ InScope(L, handle_v_broadcastm(i))
        /\ InScope(L, handle_k_alu(i))
  BY <1>2, AtOnce, NamesClosed, NamesOfArgs
     DEF handle_v_mask_to_vec, handle_v_broadcastm, handle_k_alu
<1>10. InScope(L, handle_kmov(i))
  <2>1. ASSUME NEW K, NEW val, NameIn(K, val)
        PROVE  /\ InScope(K, store_operand_hack(i, 1, val) \o MERR_OK)
               /\ val.at = "tmp" => InScope(K, emit_write_call(1, val.v, i.es) \o MERR_OK)
               /\ InScope(K, <<Mov(Reg(1, i.es), val)>> \o MERR_OK)
               /\ InScope(K, store_operand_hack(i, 1, val))
               /\ val.at = "tmp" => InScope(K, emit_write_call(1, val.v, i.es))
               /\ InScope(K, <<Mov(Reg(1, i.es), val)>>)
    <3>1. val.at = "tmp" => val.v \in K
      BY <2>1 DEF NameIn
    <3> QED BY <2>1, <3>1, AtOnce, ScopeOfStores, ScopeOfOne, ScopeEmits, ScopeOfEndings, Scoping,
               NamesOfArgs
  <2> DEFINE val == IF Op(i, 2).k = "k" THEN Tmp("tmp", i.es) ELSE Loaded(i, 2, "s", i.es)
             p == IF Op(i, 2).k = "k" THEN <<Alloc("tmp", i.es),
                                             Mov(Tmp("tmp", i.es), Reg(2, i.es))>>
                  ELSE AvxOpLoader(i, 2, "s")
             q == IF IsMem(Op(i, 1)) THEN store_operand_hack(i, 1, val)
                  ELSE IF Op(i, 1).k = "k" /\ val.at = "tmp" THEN emit_write_call(1, val.v, i.es)
                  ELSE <<Mov(Reg(1, i.es), val)>>
             K == After(L, p)
  <2>2. InScope(L, p) /\ NameIn(K, val)
    <3>1. /\ InScope(L, <<Alloc("tmp", i.es), Mov(Tmp("tmp", i.es), Reg(2, i.es))>>)
          /\ NameIn(After(L, <<Alloc("tmp", i.es), Mov(Tmp("tmp", i.es), Reg(2, i.es))>>),
                    Tmp("tmp", i.es))
      BY Scoping, ScopeSteps, ScopeEmits, ThenSteps, ThenEmits, NamesOfArgs
    <3> QED BY <3>1, LoadedNames, Zenon
  <2> HIDE DEF p, val
  <2>3. InScope(K, q)
    BY <2>1, <2>2
  <2>4. handle_kmov(i) = p \o q \o MERR_OK
    BY DEF handle_kmov, p, val
  <2> HIDE DEF q
  <2> QED BY <2>2, <2>3, <2>4, Chain
<1> QED BY <1>6, <1>7, <1>8, <1>9, <1>10

(* Plans of eight steps.                                                   *)
LEMMA ScopeOfEight ==
  ASSUME NEW L, NEW a, NEW b, NEW c, NEW d, NEW e, NEW f, NEW g, NEW h,
         InScope(L, <<a, b, c, d, e>>), InScope(After(L, <<a, b, c, d, e>>), <<f, g, h>>)
  PROVE  InScope(L, <<a, b, c, d, e, f, g, h>>)
<1>1. <<a, b, c, d, e, f, g, h>> = <<a, b, c, d, e>> \o <<f, g, h>>
  OBVIOUS
<1> QED BY <1>1, ScopeClosed

(* Conversions from a general register or a small memory operand.          *)
LEMMA ScopeOfSi2fp ==
  ASSUME NEW L, NEW src, NEW fp, NEW s, NameIn(L, s)
  PROVE  InScope(L, <<Alloc("t", 16), AllocElseFree("tmp", src, "t"), Mov(Tmp("t", 16), Reg(2, 16)),
                      I2f(Tmp("tmp", src), s), F2f(Tmp("t", fp), Tmp("tmp", src)),
                      Mov(Reg(1, 16), Tmp("t", 16)), Free("t"), Free("tmp")>>)
<1> DEFINE a == Alloc("t", 16)
           b == AllocElseFree("tmp", src, "t")
           c == Mov(Tmp("t", 16), Reg(2, 16))
           d == I2f(Tmp("tmp", src), s)
           e == F2f(Tmp("t", fp), Tmp("tmp", src))
           f == Mov(Reg(1, 16), Tmp("t", 16))
           g == Free("t")
           h == Free("tmp")
           K == Then(L, a)
           M == Then(K, b)
<1>1. StepIn(L, a) /\ StepIn(K, b) /\ \A x : x \in M <=> (x \in L \/ x = "t" \/ x = "tmp")
  BY ScopeSteps, ThenSteps
<1> HIDE DEF K, M
<1>2. NameIn(M, s) /\ "t" \in M /\ "tmp" \in M
  BY <1>1, NamesGrow
<1>3. /\ StepIn(M, c) /\ Then(M, c) = M /\ StepIn(M, d) /\ Then(M, d) = M
      /\ StepIn(M, e) /\ Then(M, e) = M /\ StepIn(M, f) /\ Then(M, f) = M
      /\ StepIn(M, g) /\ StepIn(Then(M, g), h)
  BY <1>2, ScopeSteps, ScopeEmits, ThenSteps, ThenEmits, NamesOfArgs
<1> HIDE DEF a, b, c, d, e, f, g, h
<1>4. InScope(L, <<a, b>>) /\ After(L, <<a, b>>) = M
  BY <1>1, Scoping DEF K, M
<1>5. InScope(M, <<c, d, e>>) /\ After(M, <<c, d, e>>) = M
  BY <1>3, Scoping
<1>6. InScope(M, <<f, g, h>>)
  BY <1>3, Scoping
<1>7. InScope(L, <<a, b, c, d, e>>) /\ After(L, <<a, b, c, d, e>>) = M
  BY <1>4, <1>5, ScopeOfFive
<1>8. InScope(L, <<a, b, c, d, e, f, g, h>>)
  BY <1>6, <1>7, ScopeOfEight
<1> QED BY <1>8 DEF a, b, c, d, e, f, g, h

(* The handlers of handler_cvt.cpp; of the control register's, vldmxcsr if *)
(* it reads memory.                                                        *)
LEMMA CvtScopes ==
  ASSUME NEW L, NEW i
  PROVE  /\ \A w, dst : InScope(L, convert(i, w, dst)) /\ InScope(L, from_xmm(i, w, dst))
         /\ InScope(L, handle_vcvt_fp16(i)) /\ InScope(L, handle_vcvtsi2fp(i))
         /\ InScope(L, handle_vcvtfp2fp(i)) /\ InScope(L, handle_vcvt_scalar_ext(i))
         /\ (i.it = "vldmxcsr" => IsMem(Op(i, 1))) => InScope(L, handle_vmxcsr(i))
<1>1. \A w, dst : InScope(L, convert(i, w, dst))
  BY LoadedNames, Afterwards, NamesClosed, NamesOfArgs DEF convert
<1>2. ASSUME NEW w, NEW dst PROVE InScope(L, from_xmm(i, w, dst))
  <2> DEFINE p == ScalarSource(i, 2, w)
             M == After(L, p)
             q == <<Call(Reg(1, dst), <<Tmp("t", 16)>>), Free("t")>>
  <2>1. CASE IsMem(Op(i, 2))
    <3>1. InScope(L, p) /\ "t" \in M
      BY <2>1, LoadedNames
    <3>2. InScope(M, q)
      BY <3>1, Scoping, ScopeEmits, ScopeSteps, ThenEmits, NamesClosed, NamesOfArgs
    <3>3. InScope(L, p \o q \o MERR_OK)
      BY <3>1, <3>2, Chain
    <3> QED BY <1>1, <3>3 DEF from_xmm
  <2>2. CASE ~IsMem(Op(i, 2))
    BY <1>1, <2>2 DEF from_xmm
  <2> QED BY <2>1, <2>2
<1>3. InScope(L, handle_vcvt_fp16(i))
  <2> DEFINE args == <<Loaded(i, 2, "s", Op(i, 2).w)>>
               \o (IF Op(i, 3).k = "imm" THEN <<Imm(3)>> ELSE <<>>)
             p == AvxOpLoader(i, 2, "s")
             q == CallIntoVec(i, Op(i, 1).w, args)
             r == CallIntoMem(i, Op(i, 1).w, args)
  <2>1. Names(After(L, p), args)
    BY LoadedNames, NamesClosed, NamesOfArgs
  <2> HIDE DEF args
  <2>2. InScope(L, p \o q \o MERR_OK) /\ InScope(L, p \o r \o MERR_OK)
    BY <2>1, LoadedNames, Afterwards
  <2>3. handle_vcvt_fp16(i) = p \o (IF IsVec(Op(i, 1)) THEN q ELSE r) \o MERR_OK
    BY DEF handle_vcvt_fp16, args
  <2> HIDE DEF p, q, r
  <2> QED BY <2>2, <2>3
<1>4. InScope(L, handle_vcvtsi2fp(i))
  <2> DEFINE s == Loaded(i, 3, "s", Op(i, 3).w)
             src == Op(i, 3).w
             M == After(L, AvxOpLoader(i, 3, "s"))
             p == <<Alloc("t", 16), AllocElseFree("tmp", src, "t"), Mov(Tmp("t", 16), Reg(2, 16)),
                    I2f(Tmp("tmp", src), s), F2f(Tmp("t", fp_size(i)), Tmp("tmp", src)),
                    Mov(Reg(1, 16), Tmp("t", 16)), Free("t"), Free("tmp")>>
  <2>1. InScope(L, AvxOpLoader(i, 3, "s")) /\ NameIn(M, s)
    BY LoadedNames
  <2>2. InScope(M, p)
    <3> HIDE DEF s, src, M
    <3> QED BY <2>1, ScopeOfSi2fp
  <2>3. handle_vcvtsi2fp(i) = AvxOpLoader(i, 3, "s") \o p \o MERR_OK
    BY DEF handle_vcvtsi2fp
  <2> HIDE DEF p
  <2> QED BY <2>1, <2>2, <2>3, Chain
<1>5. InScope(L, handle_vcvtfp2fp(i))
  <2> DEFINE src == IF i.it = "vcvtss2sd" THEN 4 ELSE 8
             mask == IF Masked(i) THEN MergeArg(i, 16)
               \o <<add_argument_mask(from_insn(i, fp_size(i)))>> ELSE <<>>
             args == mask \o <<Reg(2, 16), Loaded(i, 3, "t", 16)>>
             M == After(L, AvxOpLoader(i, 3, "s"))
             p == <<Alloc("t", 4), Mov(Tmp("t", 4), Reg(3, 64)), F2f(Reg(1, 8), Tmp("t", 4))>>
               \o MERR_OK
             q == ScalarSource(i, 3, src) \o <<ScalarCall(Reg(1, 16), args)>>
               \o FreeIfMem(i, 3, "t") \o MERR_OK
             r == <<Alloc("t", 16), Mov(Tmp("t", 16), Reg(2, 16)),
                    F2f(Tmp("t", fp_size(i)), Loaded(i, 3, "s", src)),
                    Mov(Reg(1, 16), Tmp("t", 16)), Free("t")>>
  <2>1. InScope(L, p)
    BY Scoping, ScopeSteps, ScopeEmits, ThenSteps, ThenEmits, NamesOfArgs, ScopeOfEndings
  <2>2. InScope(L, q)
    <3> HIDE DEF src
    <3>1. \A K : Names(K, mask)
      BY NamesClosed, NamesOfArgs, NamesOfMasked
    <3> HIDE DEF mask
    <3>2. Names(After(L, ScalarSource(i, 3, src)), args)
      BY <3>1, LoadedNames, NamesClosed, NamesOfArgs
    <3> HIDE DEF args
    <3> QED BY <3>2, ScopeOfScalarCall
  <2>3. InScope(L, AvxOpLoader(i, 3, "s") \o r \o MERR_OK)
    <3>1. InScope(L, AvxOpLoader(i, 3, "s")) /\ NameIn(M, Loaded(i, 3, "s", src))
      BY LoadedNames
    <3>2. InScope(M, r)
      <4> HIDE DEF M, src
      <4> QED BY <3>1, BorrowedTwice, NamesOfArgs
    <3> HIDE DEF r
    <3> QED BY <3>1, <3>2, Chain
  <2>4. \/ handle_vcvtfp2fp(i) = p \/ handle_vcvtfp2fp(i) = q
        \/ handle_vcvtfp2fp(i) = AvxOpLoader(i, 3, "s") \o r \o MERR_OK
    BY DEF handle_vcvtfp2fp
  <2> HIDE DEF p, q, r
  <2> QED BY <2>1, <2>2, <2>3, <2>4
<1>6. InScope(L, handle_vcvt_scalar_ext(i))
  <2>1. \A w : InScope(L, add_vec_source(i, 2, 16) \o <<Call(Reg(1, w), <<VecSource(i, 2, 16)>>)>>
                       \o MERR_OK)
    BY ScopeOfVecSource, Afterwards, NamesClosed, NamesOfArgs
  <2>2. \A w : InScope(L, AvxOpLoader(i, 3, "s")
                       \o <<ScalarCall(Reg(1, 16), <<Reg(2, 16), Loaded(i, 3, "s", w)>>)>>
                         \o MERR_OK)
    BY LoadedNames, Afterwards, NamesClosed, NamesOfArgs
  <2>3. InScope(L, add_vec_source(i, 3, 16)
                \o <<ScalarCall(Reg(1, 16), <<Reg(2, 16), VecSource(i, 3, 16)>>)>> \o MERR_OK)
    BY ScopeOfVecSource, Afterwards, NamesClosed, NamesOfArgs
  <2> QED BY <2>1, <2>2, <2>3 DEF handle_vcvt_scalar_ext
<1>7. (i.it = "vldmxcsr" => IsMem(Op(i, 1))) => InScope(L, handle_vmxcsr(i))
  <2>1. IsMem(Op(i, 1)) => InScope(L, AvxOpLoader(i, 1, "s") \o <<Call(Effect, <<Tmp("s", 4)>>)>>
                                   \o MERR_OK)
    BY ScopeOfLoader, Afterwards, NamesClosed, NamesOfArgs
  <2>2. InScope(L, CallIntoMem(i, 4, <<>>) \o MERR_OK)
    BY AtOnce, NamesClosed
  <2> QED BY <2>1, <2>2 DEF handle_vmxcsr
<1> QED BY <1>1, <1>2, <1>3, <1>4, <1>5, <1>6, <1>7

(* The common parts of the handlers of handler_logic.cpp, for whatever     *)
(* instruction and names.                                                  *)
LEMMA LogicParts ==
  /\ \A L, i, n : InScope(L, Unary(i, <<>>)) /\ InScope(L, Binary(i, <<>>))
       /\ InScope(L, ScalarBinaryOp(i, <<>>))
                  /\ InScope(L, Unary(i, <<Imm(n)>>)) /\ InScope(L, Binary(i, <<Imm(n)>>))
                  /\ InScope(L, Binary(i, <<Vec(i, n)>>))
  /\ \A L, i : InScope(L, accumulate(i))
  /\ \A L, i, n, p : (\A K : InScope(K, p)) => InScope(L, AvxOpLoader(i, n, "s") \o p)
  /\ \A L, i, n, m : InScope(L, AvxOpLoader(i, n, "s") \o Intrinsic(i, <<Src(i, n), Imm(m)>>))
  /\ \A L, i, n, m : InScope(L, AvxOpLoader(i, n, "s") \o Intrinsic(i, <<Vec(i, m), Src(i, n)>>))
  /\ \A L, i, n, m : InScope(L, AvxOpLoader(i, n, "s") \o Intrinsic(i, <<Src(i, n), Vec(i, m)>>))
  /\ \A L, c, p : InScope(L, p) => InScope(L, QASSERT(c, p))
<1>1. \A L, i, n : Names(L, <<>>) /\ Names(L, <<Imm(n)>>) /\ Names(L, <<Vec(i, n)>>)
  BY NamesClosed, NamesOfArgs, MoreNames
<1>2. \A L, i, n : InScope(L, Unary(i, <<>>)) /\ InScope(L, Binary(i, <<>>))
        /\ InScope(L, ScalarBinaryOp(i, <<>>))
                  /\ InScope(L, Unary(i, <<Imm(n)>>)) /\ InScope(L, Binary(i, <<Imm(n)>>))
                  /\ InScope(L, Binary(i, <<Vec(i, n)>>))
  BY <1>1, ScopeOfUnary
<1>3. \A L, i, n, p : (\A K : InScope(K, p)) => InScope(L, AvxOpLoader(i, n, "s") \o p)
  BY LoadedNames, Scoping
<1>4. \A L, i, n, m : /\ InScope(L, AvxOpLoader(i, n, "s") \o Intrinsic(i, <<Src(i, n), Imm(m)>>))
                      /\ InScope(L, AvxOpLoader(i, n, "s")
                                 \o Intrinsic(i, <<Vec(i, m), Src(i, n)>>))
                      /\ InScope(L, AvxOpLoader(i, n, "s")
                                 \o Intrinsic(i, <<Src(i, n), Vec(i, m)>>))
  BY LoadedNames, Afterwards, NamesClosed, NamesOfArgs, MoreNames
<1> QED BY <1>2, <1>3, <1>4, ScopeOfAccumulate, ScopeOfEndings

(* The loaded operand with an immediate behind it.                         *)
LEMMA WithImmediate ==
  /\ \A L, i, n, m, c :
       InScope(L, AvxOpLoader(i, n, "s") \o QASSERT(c, Intrinsic(i, <<Src(i, n), Imm(m)>>)))
  /\ \A L, i, n, m, c, k :
       InScope(L, AvxOpLoader(i, n, "s")
                  \o QASSERT(c, Intrinsic(i, <<Vec(i, k), Src(i, n), Imm(m)>>)))
  /\ \A L, i, n, m, c, j, k :
       InScope(L, AvxOpLoader(i, n, "s")
               \o QASSERT(c, Intrinsic(i, <<Vec(i, j), Vec(i, k), Src(i, n), Imm(m)>>)))
<1>1. \A K, i, n, m, j, k : NameIn(K, Src(i, n)) =>
        /\ Names(K, <<Src(i, n), Imm(m)>>) /\ Names(K, <<Vec(i, k), Src(i, n), Imm(m)>>)
        /\ Names(K, <<Vec(i, j), Vec(i, k), Src(i, n), Imm(m)>>)
  BY NamesClosed, NamesOfArgs, MoreNames
<1>2. \A K, i, args, c : Names(K, args) => InScope(K, QASSERT(c, Intrinsic(i, args)))
  BY ScopeOfIntrinsic, ScopeOfEndings
<1> QED BY <1>1, <1>2, LoadedNames, Scoping

(* The handlers of handler_logic.cpp made of these,                        *)
LEMMA LogicScopes ==
  ASSUME NEW L, NEW i
  PROVE  /\ InScope(L, handle_v_bitwise(i)) /\ InScope(L, handle_v_var_shift(i))
         /\ InScope(L, handle_v_var_rotate(i))
         /\ InScope(L, handle_v_shift(i)) /\ InScope(L, handle_v_rotate(i))
         /\ InScope(L, handle_vpslldq_vpsrldq(i))
         /\ InScope(L, handle_v_shift_double(i)) /\ InScope(L, handle_v_multishift(i))
         /\ InScope(L, handle_v_ternary_logic(i)) /\ InScope(L, handle_v_conflict(i))
         /\ InScope(L, handle_v_popcnt(i)) /\ InScope(L, handle_v_lzcnt(i))
         /\ InScope(L, handle_v_gfni(i))
         /\ InScope(L, handle_v_aes(i)) /\ InScope(L, handle_vcmp_ps_pd(i))
         /\ InScope(L, handle_vpcmp_int(i))
         /\ InScope(L, handle_vblendv_ps_pd(i)) /\ InScope(L, handle_vblend_imm_ps_pd(i))
         /\ InScope(L, handle_vblend_int(i)) /\ InScope(L, handle_vphsub_sw(i))
         /\ InScope(L, handle_vpack(i))
         /\ InScope(L, handle_vphminposuw(i))
<1>1. InScope(L, handle_v_shift(i))
  <2>1. InScope(L, AvxOpLoader(i, 2, "s") \o Intrinsic(i, <<Src(i, 2), Imm(3)>>))
    BY LogicParts
  <2>2. InScope(L, AvxOpLoader(i, 2, "s")
                \o (AvxOpLoader(i, 3, "s") \o Intrinsic(i, <<Src(i, 2), Loaded(i, 3, "s", 16)>>)))
    <3> DEFINE K == After(L, AvxOpLoader(i, 2, "s"))
               M == After(K, AvxOpLoader(i, 3, "s"))
    <3>1. /\ InScope(L, AvxOpLoader(i, 2, "s")) /\ InScope(K, AvxOpLoader(i, 3, "s"))
          /\ K \subseteq M
          /\ NameIn(K, Src(i, 2)) /\ NameIn(M, Loaded(i, 3, "s", 16))
      BY LoadedNames, ScopeOfLoader
    <3>2. Names(M, <<Src(i, 2), Loaded(i, 3, "s", 16)>>)
      BY <3>1, NamesGrow, NamesClosed
    <3>3. InScope(K, AvxOpLoader(i, 3, "s") \o Intrinsic(i, <<Src(i, 2), Loaded(i, 3, "s", 16)>>))
      BY <3>1, <3>2, Afterwards
    <3> QED BY <3>1, <3>3, Scoping
  <2> QED BY <2>1, <2>2, Zenon DEF handle_v_shift
<1>2. InScope(L, handle_v_rotate(i)) /\ InScope(L, handle_vpslldq_vpsrldq(i))
  BY WithImmediate DEF handle_v_rotate, handle_vpslldq_vpsrldq
<1>3. /\ InScope(L, handle_v_shift_double(i)) /\ InScope(L, handle_v_multishift(i))
      /\ InScope(L, handle_vcmp_ps_pd(i)) /\ InScope(L, handle_vblendv_ps_pd(i))
  <2>1. /\ InScope(L, AvxOpLoader(i, 2, "s") \o Binary(i, <<Imm(4)>>))
        /\ InScope(L, AvxOpLoader(i, 2, "s") \o Binary(i, <<>>))
        /\ InScope(L, AvxOpLoader(i, 2, "s") \o Binary(i, <<Vec(i, 4)>>))
    BY LogicParts
  <2> QED BY <2>1, LogicParts
             DEF handle_v_shift_double, handle_v_multishift, handle_vcmp_ps_pd, handle_vblendv_ps_pd
<1>4. InScope(L, handle_v_ternary_logic(i)) /\ InScope(L, handle_v_gfni(i))
        /\ InScope(L, handle_vblend_int(i))
  BY WithImmediate, LogicParts DEF handle_v_ternary_logic, handle_v_gfni, handle_vblend_int
<1> QED BY <1>1, <1>2, <1>3, <1>4, LogicParts, ScopeOfEndings
        DEF handle_v_bitwise, handle_v_var_shift, handle_v_var_rotate, handle_v_conflict,
            handle_v_popcnt, handle_v_lzcnt,
            handle_v_aes, handle_vpcmp_int, handle_vblend_imm_ps_pd, handle_vphsub_sw, handle_vpack,
            handle_vphminposuw

(* and the others.                                                         *)
LEMMA LogicScopes2 ==
  ASSUME NEW L, NEW i, i.it = "sha256rnds2" => ~IsMem(Op(i, 3))
  PROVE  /\ InScope(L, handle_v_pclmul(i)) /\ InScope(L, handle_v_sha(i))
         /\ InScope(L, handle_cache_ctrl(i))
         /\ InScope(L, handle_vzeroupper_nop(i)) /\ InScope(L, handle_vzeroall(i))
         /\ InScope(L, handle_v_blendm(i))
         /\ InScope(L, handle_vmaskmov_ps_pd(i)) /\ InScope(L, handle_vpmaskmov_int(i))
         /\ InScope(L, handle_vmovnt(i))
         /\ InScope(L, handle_vptest(i)) /\ InScope(L, handle_vtest_ps_pd(i))
         /\ InScope(L, handle_v_comish(i))
         /\ InScope(L, handle_vmovmsk(i)) /\ InScope(L, handle_vfmaddsub(i))
         /\ InScope(L, handle_v_4fma(i))
         /\ InScope(L, handle_v_er(i))
<1>1. InScope(L, handle_v_pclmul(i))
  <2>1. ASSUME NEW w
        PROVE  /\ InScope(L, make_vector_load_mop(i, 3)
                          \o <<Call(Reg(1, w), <<Reg(2, w), Deref("addr", w), Imm(4)>>)>>
                            \o MERR_OK)
               /\ InScope(L, <<>> \o <<Call(Reg(1, w), <<Reg(2, w), Reg(3, w), Imm(4)>>)>>
                          \o MERR_OK)
    BY AddressNames, ScopeOfOne, Afterwards, NamesClosed, NamesOfArgs DEF load_memory_address
  <2>2. \A c, p : InScope(L, p) => InScope(L, QASSERT(c, p))
    BY ScopeOfEndings
  <2> QED BY <2>1, <2>2, Zenon DEF handle_v_pclmul
<1>2. InScope(L, handle_v_sha(i))
  <2> DEFINE third == CASE i.it = "sha256rnds2" -> <<Loaded(i, 3, "s", 16)>>
                        [] i.it = "sha1rnds4" -> <<Imm(3)>>
                        [] OTHER -> <<>>
             M == After(L, AvxOpLoader(i, 2, "s"))
             q == <<Call(Reg(1, 16), <<Reg(1, 16), Loaded(i, 2, "s", 16)>> \o third)>> \o MERR_OK
             c == i.it = "sha1rnds4" => IsImm(i, 3)
  <2>1. \A K : Names(K, third)
    <3>1. \A K : Names(K, <<>>) /\ Names(K, <<Imm(3)>>)
      BY NamesClosed, NamesOfArgs
    <3>2. ~IsMem(Op(i, 3)) => \A K : Names(K, <<Loaded(i, 3, "s", 16)>>)
      BY NamesClosed, NamesOfArgs
    <3> QED BY <3>1, <3>2, Zenon
  <2> HIDE DEF third
  <2>2. Names(M, <<Reg(1, 16), Loaded(i, 2, "s", 16)>> \o third)
    BY <2>1, LoadedNames, NamesClosed, NamesOfArgs
  <2>3. InScope(M, q)
    BY <2>2, AtOnce, NamesOfArgs
  <2>4. handle_v_sha(i) = QASSERT(IsXmm(Op(i, 1)), AvxOpLoader(i, 2, "s") \o QASSERT(c, q))
    BY DEF handle_v_sha, third
  <2> HIDE DEF q, c
  <2> QED BY <2>3, <2>4, LoadedNames, Afterwards, ScopeOfEndings
<1>3. /\ InScope(L, handle_cache_ctrl(i)) /\ InScope(L, handle_vzeroupper_nop(i))
      /\ InScope(L, handle_vzeroall(i))
      /\ InScope(L, handle_vmovmsk(i))
  BY AddressNames, Afterwards, AtOnce, ScopeOfEndings, NamesClosed, NamesOfArgs
     DEF handle_cache_ctrl, handle_vzeroupper_nop, handle_vzeroall, handle_vmovmsk
<1>4. InScope(L, handle_v_blendm(i)) /\ InScope(L, handle_v_4fma(i))
  BY LoadedNames, Afterwards, ScopeOfEndings, NamesClosed, NamesOfArgs, MoreNames
     DEF handle_v_blendm, handle_v_4fma
<1>5. InScope(L, handle_vmaskmov_ps_pd(i))
  <2>1. ASSUME NEW w
        PROVE  InScope(L, <<LoadUnchecked(1, "s", w)>>
                       \o CallIntoMem(i, w, <<Tmp("s", w), Reg(3, w), Reg(2, w)>>) \o MERR_OK)
    BY ScopeOfOne, ScopeSteps, ThenSteps, Afterwards, NamesClosed, NamesOfArgs
  <2>2. ASSUME NEW w
        PROVE  InScope(L, <<LoadUnchecked(3, "s", w), Alloc("zero", w), Call(Tmp("zero", w), <<>>),
                            Call(Reg(1, w), <<Tmp("zero", w), Tmp("s", w), Reg(2, w)>>),
                            Free("zero")>>)
    <3> DEFINE a == LoadUnchecked(3, "s", w)
               b == Alloc("zero", w)
               c == Call(Tmp("zero", w), <<>>)
               d == Call(Reg(1, w), <<Tmp("zero", w), Tmp("s", w), Reg(2, w)>>)
               e == Free("zero")
               K == Then(L, a)
               M == Then(K, b)
    <3>1. StepIn(L, a) /\ StepIn(K, b) /\ "s" \in M /\ "zero" \in M
      BY ScopeSteps, ThenSteps
    <3> HIDE DEF K, M
    <3>2. StepIn(M, c) /\ Then(M, c) = M /\ StepIn(M, d) /\ Then(M, d) = M /\ StepIn(M, e)
      BY <3>1, ScopeSteps, ScopeEmits, ThenEmits, NamesClosed, NamesOfArgs
    <3> HIDE DEF a, b, c, d, e
    <3>3. InScope(L, <<a, b>>) /\ After(L, <<a, b>>) = M
      BY <3>1, Scoping DEF K, M
    <3>4. InScope(M, <<c, d, e>>)
      BY <3>2, Scoping
    <3>5. InScope(L, <<a, b, c, d, e>>)
      BY <3>3, <3>4, ScopeOfFive
    <3> QED BY <3>5 DEF a, b, c, d, e
  <2>3. \A c, p : InScope(L, p) => InScope(L, QASSERT(c, p \o MERR_OK))
    BY ScopeOfEndings, Scoping
  <2> QED BY <2>1, <2>2, <2>3, Zenon DEF handle_vmaskmov_ps_pd
<1>6. InScope(L, handle_vpmaskmov_int(i))
  <2>1. ASSUME NEW w
        PROVE  /\ InScope(L, load_memory_address(i, 1)
                          \o <<Call(Effect, <<MemoryAddress(i), Reg(2, w), Reg(3, w)>>)>>
                            \o MERR_OK)
               /\ InScope(L, load_memory_address(i, 3)
                          \o <<Call(Vec(i, 1), <<MemoryAddress(i), Vec(i, 2)>>)>> \o MERR_OK)
    BY AddressNames, Afterwards, NamesClosed, NamesOfArgs, MoreNames
  <2> QED BY <2>1, ScopeOfEndings DEF handle_vpmaskmov_int
<1>7. InScope(L, handle_vmovnt(i))
  <2>1. ASSUME NEW w PROVE InScope(L, AvxOpLoader(i, 2, "s") \o <<Mov(Reg(1, w), Src(i, 2))>>
                                   \o MERR_OK)
    <3>1. \A K : NameIn(K, Src(i, 2)) => InScope(K, <<Mov(Reg(1, w), Src(i, 2))>>)
      BY ScopeOfOne, ScopeEmits, NamesOfArgs
    <3> QED BY <3>1, LoadedNames, Chain
  <2>2. \A w : InScope(L, unchecked_store(i, 1, Reg(2, w)) \o MERR_OK)
    BY AtOnce, NamesOfArgs
  <2> QED BY <2>1, <2>2, ScopeOfEndings DEF handle_vmovnt
<1>8. InScope(L, handle_vptest(i)) /\ InScope(L, handle_vtest_ps_pd(i))
  <2>1. ASSUME NEW K, NameIn(K, Src(i, 2)) PROVE InScope(K, emit_test_flags(Vec(i, 1), Src(i, 2)))
    <3> DEFINE a == Vec(i, 1)
               b == Src(i, 2)
    <3>1. NameIn(K, a) /\ NameIn(K, b)
      BY <2>1, MoreNames
    <3> HIDE DEF a, b
    <3>2. InScope(K, emit_test_flags(a, b))
      BY <3>1, Scoping, ScopeEmits, ThenEmits, NamesClosed, NamesOfArgs DEF emit_test_flags
    <3> QED BY <3>2 DEF a, b
  <2> QED BY <2>1, LoadedNames, Chain DEF handle_vptest, handle_vtest_ps_pd
<1>9. InScope(L, handle_v_comish(i))
  <2>1. \A K : NameIn(K, VecSource(i, 2, 16))
          => InScope(K,
                     <<Alloc("tmp", 4), Call(Tmp("tmp", 4), <<Reg(1, 16), VecSource(i, 2, 16)>>)>>)
    BY ScopeOfKregCall, NamesClosed, NamesOfArgs
  <2> QED BY <2>1, ScopeOfVecSource, Chain DEF handle_v_comish
<1>10. InScope(L, handle_vfmaddsub(i))
  <2> DEFINE o == addsub_order(i)
             s == Src(i, 3)
             args == [j \in 1..3 |-> IF o[j] = 3 THEN s ELSE Vec(i, o[j])]
  <2>1. \A K : NameIn(K, s) => Names(K, args)
    BY FactorNames
  <2>2. InScope(L, AvxOpLoader(i, 3, "s") \o Intrinsic(i, args))
    <3> HIDE DEF args
    <3> QED BY <2>1, LoadedNames, Afterwards
  <2> QED BY <2>2 DEF handle_vfmaddsub
<1>11. InScope(L, handle_v_er(i))
  <2> DEFINE w == Op(i, 1).w
             scalar == i.it \in ScalarLogic
             n == IF scalar THEN 3 ELSE 2
             args == MaskedArgs(i, w, (IF scalar THEN <<Vec(i, 2)>> ELSE <<>>)
                                \o <<VecSource(i, n, w)>>)
             p == add_vec_source(i, n, w)
  <2>1. InScope(L, p) /\ Names(After(L, p), args)
    <3> HIDE DEF n, w, scalar
    <3>1. InScope(L, p) /\ NameIn(After(L, p), VecSource(i, n, w))
      BY ScopeOfVecSource
    <3>2. \A K : Names(K, IF scalar THEN <<Vec(i, 2)>> ELSE <<>>)
      BY NamesClosed, MoreNames
    <3> QED BY <3>1, <3>2, NamesClosed, NamesOfMasked
  <2> HIDE DEF args, p
  <2>2. InScope(L, p \o <<ScalarCall(Reg(1, w), args)>> \o MERR_OK)
          /\ InScope(L, p \o CallIntoVec(i, w, args) \o MERR_OK)
    BY <2>1, Afterwards, NamesOfArgs
  <2>3. \/ handle_v_er(i) = p \o <<ScalarCall(Reg(1, w), args)>> \o MERR_OK
        \/ handle_v_er(i) = p \o CallIntoVec(i, w, args) \o MERR_OK
    BY DEF handle_v_er, args, p
  <2> QED BY <2>2, <2>3
<1> QED BY <1>1, <1>2, <1>3, <1>4, <1>5, <1>6, <1>7, <1>8, <1>9, <1>10, <1>11

(* Shuffles and permutes,                                                  *)
LEMMA ShuffleScopes ==
  ASSUME NEW L, NEW i
  PROVE  /\ InScope(L, handle_vshufps(i)) /\ InScope(L, handle_vshufpd(i))
         /\ InScope(L, handle_v_shuffle_int(i))
         /\ InScope(L, handle_v_shuf_lane(i)) /\ InScope(L, handle_vpermpd(i))
         /\ InScope(L, handle_v_perm_int(i))
         /\ InScope(L, handle_v_permutex(i)) /\ InScope(L, handle_v_permutex2(i))
         /\ InScope(L, handle_v_align(i))
         /\ InScope(L, handle_vperm2f128_i128(i)) /\ InScope(L, handle_vmovlhps(i))
         /\ InScope(L, handle_vmovhlps(i))
         /\ InScope(L, handle_vmovl_h_ps_pd(i))
<1>1. \A K, c, p : InScope(K, p) => InScope(K, QASSERT(c, p))
  BY ScopeOfEndings
<1>2. InScope(L, handle_vshufps(i)) /\ InScope(L, handle_vshufpd(i))
        /\ InScope(L, handle_v_permutex(i))
  BY <1>1, LogicParts DEF handle_vshufps, handle_vshufpd, handle_v_permutex
<1>3. InScope(L, handle_v_shuffle_int(i))
  <2>1. /\ InScope(L, AvxOpLoader(i, 2, "s") \o Binary(i, <<>>))
        /\ \A c : InScope(L, AvxOpLoader(i, 2, "s")
                          \o QASSERT(c, Intrinsic(i, <<Src(i, 2), Imm(3)>>)))
    BY LogicParts, WithImmediate
  <2> QED BY <2>1, Zenon DEF handle_v_shuffle_int
<1>4. InScope(L, handle_v_shuf_lane(i))
  <2>1. ASSUME NEW w, NEW c
        PROVE  InScope(L, QASSERT(c, AvxOpLoader(i, 3, "s")
                 \o CallIntoVec(i, w, MaskedArgs(i, w, <<Vec(i, 2), Src(i, 3), Imm(4)>>))
                   \o MERR_OK))
    BY <1>1, LoadedNames, Afterwards, NamesClosed, NamesOfArgs, NamesOfMasked, MoreNames
  <2> QED BY <2>1, ScopeOfEndings DEF handle_v_shuf_lane
<1>5. InScope(L, handle_vpermpd(i))
  <2>1. ASSUME NEW w
        PROVE  /\ InScope(L, AvxOpLoader(i, 2, "s")
                          \o CallIntoVec(i, w, MaskedArgs(i, w, <<Src(i, 2), Imm(3)>>)) \o MERR_OK)
               /\ InScope(L, AvxOpLoader(i, 3, "s")
                          \o CallIntoVec(i, w, MaskedArgs(i, w, <<Vec(i, 2), Src(i, 3)>>))
                            \o MERR_OK)
    BY LoadedNames, Afterwards, NamesClosed, NamesOfArgs, NamesOfMasked, MoreNames
  <2> QED BY <2>1, ScopeOfEndings, Zenon DEF handle_vpermpd
<1>6. InScope(L, handle_v_perm_int(i))
  <2> DEFINE p == AvxOpLoader(i, 2, "s")
             q == AvxOpLoader(i, 3, "s") \o Intrinsic(i, <<Src(i, 3), Vec(i, 2)>>)
             r == Intrinsic(i, <<Src(i, 2), Imm(3)>>)
             b == Binary(i, <<>>)
  <2>1. InScope(L, p \o MERR_INSN) /\ InScope(L, p \o r) /\ InScope(L, p \o q) /\ InScope(L, p \o b)
        /\ InScope(L, AvxOpLoader(i, 3, "s") \o MERR_INSN) /\ InScope(L, q) /\ InScope(L, MERR_INSN)
    <3>1. \A K : InScope(K, MERR_INSN) /\ InScope(K, q) /\ InScope(K, b)
      BY LogicParts, ScopeOfEndings
    <3>2. InScope(L, p \o r)
      BY LogicParts
    <3> HIDE DEF q, b, r
    <3> QED BY <3>1, <3>2, LogicParts
  <2>2. \/ handle_v_perm_int(i) = p \o MERR_INSN \/ handle_v_perm_int(i) = p \o r
        \/ handle_v_perm_int(i) = p \o q \/ handle_v_perm_int(i) = p \o b
        \/ handle_v_perm_int(i) = AvxOpLoader(i, 3, "s") \o MERR_INSN
        \/ handle_v_perm_int(i) = q \/ handle_v_perm_int(i) = MERR_INSN
    <3>1. CASE i.it = "vpermq"
      <4> DEFINE x == IF ~YmmOrZmm(i) THEN MERR_INSN ELSE IF IsImm(i, 3) THEN r ELSE q
      <4>1. x = MERR_INSN \/ x = r \/ x = q
        <5> HIDE DEF q, r
        <5> QED BY DEF MERR_INSN
      <4>2. handle_v_perm_int(i) = p \o x
        BY <3>1, Zenon DEF handle_v_perm_int
      <4> HIDE DEF p, q, r, x
      <4> QED BY <4>1, <4>2
    <3>2. CASE i.it = "vpermd"
      BY <3>2, Zenon DEF handle_v_perm_int
    <3>3. CASE i.it = "vpermps"
      BY <3>3, Zenon DEF handle_v_perm_int
    <3>4. CASE i.it \notin {"vpermq", "vpermd", "vpermps"}
      BY <3>4, Zenon DEF handle_v_perm_int
    <3> QED BY <3>1, <3>2, <3>3, <3>4
  <2> HIDE DEF p, q, r, b
  <2> QED BY <2>1, <2>2
<1>7. InScope(L, handle_v_permutex2(i))
  <2> DEFINE w     == Op(i, 1).w
             mask  == <<add_argument_mask(NumElements(i))>>
             table == <<Reg(IF i.it = "vpermi2w" THEN 2 ELSE 1, w)>>
             rest  == <<Reg(IF i.it = "vpermi2w" THEN 1 ELSE 2, w), Src(i, 3)>>
             args  == CASE i.mask = "zero"  -> mask \o table \o rest
                        [] i.mask = "merge" -> table \o mask \o rest
                        [] OTHER            -> table \o rest
             K == After(L, AvxOpLoader(i, 3, "s"))
  <2>1. Names(K, mask) /\ Names(K, table) /\ Names(K, rest)
    BY LoadedNames, NamesClosed, NamesOfArgs
  <2> HIDE DEF mask, table, rest
  <2>2. Names(K, mask \o table \o rest) /\ Names(K, table \o mask \o rest)
          /\ Names(K, table \o rest)
    BY <2>1, NamesClosed
  <2>3. Names(K, args)
    BY <2>2, Zenon
  <2>4. handle_v_permutex2(i) = AvxOpLoader(i, 3, "s") \o <<Call(Reg(1, w), args)>> \o MERR_OK
    BY DEF handle_v_permutex2, args, mask, table, rest
  <2> HIDE DEF args
  <2> QED BY <2>3, <2>4, LoadedNames, Afterwards, NamesOfArgs
<1>8. \A j : InScope(L, handle_v_align(j))
  BY WithImmediate DEF handle_v_align
<1>9. InScope(L, handle_vperm2f128_i128(i))
  BY <1>1, <1>8 DEF handle_vperm2f128_i128
<1>10. InScope(L, handle_vmovlhps(i)) /\ InScope(L, handle_vmovhlps(i))
  BY ScopeOfIntrinsic, ScopeOfEndings, NamesClosed, NamesOfArgs DEF handle_vmovlhps, handle_vmovhlps
<1>11. InScope(L, handle_vmovl_h_ps_pd(i))
  <2>1. /\ InScope(L, load_memory_address(i, 1)
                   \o <<Call(Effect, <<MemoryAddress(i), Reg(2, 16)>>)>> \o MERR_OK)
        /\ InScope(L, load_memory_address(i, 3)
                   \o <<Call(Reg(1, 16), <<Reg(2, 16), MemoryAddress(i)>>)>> \o MERR_OK)
    BY AddressNames, Afterwards, NamesClosed, NamesOfArgs
  <2> QED BY <2>1, ScopeOfEndings, Zenon DEF handle_vmovl_h_ps_pd
<1> QED BY <1>2, <1>3, <1>4, <1>5, <1>6, <1>7, <1>8, <1>9, <1>10, <1>11

(* broadcasts and blends,                                                  *)
LEMMA BroadcastScopes ==
  ASSUME NEW L, NEW i
  PROVE  /\ InScope(L, handle_vbroadcast_ss_sd(i)) /\ InScope(L, handle_vbroadcastf128_fp(i))
         /\ InScope(L, handle_vbroadcasti128_int(i)) /\ InScope(L, handle_vbroadcast_x4(i))
         /\ InScope(L, handle_vpbroadcast_d_q(i)) /\ InScope(L, handle_vpbroadcast_b_w(i))
         /\ InScope(L, handle_v_broadcast_x2(i)) /\ InScope(L, handle_vmovddup(i))
<1>1. InScope(L, broadcast_low(i))
  BY ScopeOfScalarCall, LoadedNames, NamesClosed, MoreNames DEF broadcast_low, Vec
<1>2. InScope(L, handle_vpbroadcast_d_q(i)) /\ InScope(L, handle_vpbroadcast_b_w(i))
        /\ InScope(L, handle_vmovddup(i))
  BY <1>1, AtOnce, LogicParts, NamesClosed, NamesOfArgs
     DEF handle_vpbroadcast_d_q, handle_vpbroadcast_b_w, handle_vmovddup
<1>3. InScope(L, handle_v_broadcast_x2(i))
  BY ScopeOfVecSource, Afterwards, NamesClosed DEF handle_v_broadcast_x2
<1>4. InScope(L, handle_vbroadcast_x4(i))
  <2>1. \A w : InScope(L, AvxOpLoader(i, 2, "s") \o <<Call(Vec(i, 1), <<Loaded(i, 2, "s", w)>>)>>
                       \o MERR_OK)
    BY LoadedNames, Afterwards, NamesClosed, MoreNames
  <2> QED BY <2>1, ScopeOfEndings DEF handle_vbroadcast_x4
<1>5. InScope(L, handle_vbroadcasti128_int(i))
  BY Scoping, ScopeSteps, ScopeEmits, ThenSteps, ThenEmits, ScopeOfEndings, NamesClosed, NamesOfArgs
     DEF handle_vbroadcasti128_int
<1>6. InScope(L, handle_vbroadcastf128_fp(i))
  <2> DEFINE a == LoadUnchecked(2, "s", 16)
             b == Alloc("tmp", 32)
             c == Call(Tmp("tmp", 32), <<Tmp("s", 16)>>)
             d == Call(Reg(1, 32), <<Tmp("tmp", 32), Tmp("s", 16)>>)
             e == Free("tmp")
             K == Then(L, a)
             M == Then(K, b)
  <2>1. StepIn(L, a) /\ StepIn(K, b) /\ "s" \in M /\ "tmp" \in M
    BY ScopeSteps, ThenSteps
  <2> HIDE DEF K, M
  <2>2. StepIn(M, c) /\ Then(M, c) = M /\ StepIn(M, d) /\ Then(M, d) = M /\ StepIn(M, e)
    BY <2>1, ScopeSteps, ScopeEmits, ThenEmits, NamesClosed, NamesOfArgs
  <2> HIDE DEF a, b, c, d, e
  <2>3. InScope(L, <<a, b>>) /\ After(L, <<a, b>>) = M
    BY <2>1, Scoping DEF K, M
  <2>4. InScope(M, <<c, d, e>>)
    BY <2>2, Scoping
  <2>5. InScope(L, <<a, b, c, d, e>> \o MERR_OK)
    BY <2>3, <2>4, ScopeOfFive, Scoping, ScopeOfEndings
  <2> QED BY <2>5, ScopeOfEndings DEF handle_vbroadcastf128_fp, a, b, c, d, e
<1>7. InScope(L, handle_vbroadcast_ss_sd(i))
  <2> DEFINE w == Op(i, 1).w
             p == AvxOpLoader(i, 2, "s")
             q == <<Alloc("t", i.es), Mov(Tmp("t", i.es), Loaded(i, 2, "s", i.es))>>
             r == <<AllocElseFree("tmp", w, "t"), Call(Tmp("tmp", w), <<Tmp("t", i.es)>>)>>
               \o emit_write_call(1, "tmp", w)
             u == <<Call(Reg(1, w), <<Tmp("t", i.es)>>)>>
             K == After(L, p)
             M == After(K, q)
  <2>1. InScope(L, p) /\ NameIn(K, Loaded(i, 2, "s", i.es))
    BY LoadedNames
  <2>2. InScope(K, q) /\ "t" \in M
    <3> DEFINE s == Loaded(i, 2, "s", i.es)
               N == Then(K, Alloc("t", i.es))
    <3>1. StepIn(K, Alloc("t", i.es)) /\ K \subseteq N /\ "t" \in N
      BY ScopeSteps, ThenSteps
    <3> HIDE DEF K, s, N
    <3>2. NameIn(N, s)
      BY <2>1, <3>1, NamesGrow DEF s
    <3>3. StepIn(N, Mov(Tmp("t", i.es), s)) /\ Then(N, Mov(Tmp("t", i.es), s)) = N
      BY <3>1, <3>2, ScopeEmits, ThenEmits, NamesOfArgs
    <3>4. InScope(K, <<Alloc("t", i.es), Mov(Tmp("t", i.es), s)>>)
          /\ After(K, <<Alloc("t", i.es), Mov(Tmp("t", i.es), s)>>) = N
      BY <3>1, <3>3, Scoping DEF N
    <3> QED BY <3>1, <3>4 DEF s
  <2>3. InScope(M, u) /\ "t" \in After(M, u)
    <3> HIDE DEF M, w
    <3>1. InScope(M, u) /\ After(M, u) = M
      BY <2>2, LastCall, NamesClosed, NamesOfArgs
    <3> HIDE DEF u
    <3> QED BY <2>2, <3>1
  <2>4. InScope(M, r) /\ "t" \in After(M, r)
    <3> DEFINE v == <<AllocElseFree("tmp", w, "t"), Call(Tmp("tmp", w), <<Tmp("t", i.es)>>)>>
    <3> HIDE DEF M, w
    <3>1. InScope(M, v) /\ "t" \in After(M, v) /\ "tmp" \in After(M, v)
      BY <2>2, Scoping, ScopeSteps, ScopeEmits, ThenSteps, ThenEmits, NamesClosed, NamesOfArgs
    <3> HIDE DEF v
    <3>2. InScope(After(M, v), emit_write_call(1, "tmp", w))
            /\ "t" \in After(After(M, v), emit_write_call(1, "tmp", w))
      BY <3>1, ScopeOfEndings
    <3>3. InScope(M, v \o emit_write_call(1, "tmp", w))
            /\ "t" \in After(M, v \o emit_write_call(1, "tmp", w))
      BY <3>1, <3>2, Scoping
    <3> QED BY <3>3 DEF v, w
  <2>5. ASSUME NEW x, x \in {u, r} PROVE InScope(L, p \o q \o x \o <<Free("t")>> \o MERR_OK)
    <3>1. InScope(M, x) /\ "t" \in After(M, x)
      BY <2>3, <2>4, <2>5
    <3>2. InScope(L, p \o q) /\ After(L, p \o q) = M
      BY <2>1, <2>2, Scoping
    <3>3. InScope(After(M, x), <<Free("t")>>)
      BY <3>1, ScopeOfOne, ScopeSteps
    <3> HIDE DEF p, q, M
    <3> QED BY <3>1, <3>2, <3>3, Chain
  <2>6. InScope(L, CallIntoVec(i, w, MaskedArgs(i, w, <<Reg(2, 16)>>)) \o MERR_OK)
    BY AtOnce, NamesClosed, NamesOfArgs, NamesOfMasked
  <2>7. \/ handle_vbroadcast_ss_sd(i) = MERR_INSN
        \/ handle_vbroadcast_ss_sd(i) = CallIntoVec(i, w, MaskedArgs(i, w, <<Reg(2, 16)>>))
             \o MERR_OK
        \/ handle_vbroadcast_ss_sd(i) = p \o q \o r \o <<Free("t")>> \o MERR_OK
        \/ handle_vbroadcast_ss_sd(i) = p \o q \o u \o <<Free("t")>> \o MERR_OK
    BY Zenon DEF handle_vbroadcast_ss_sd
  <2> HIDE DEF p, q, r, u
  <2> QED BY <2>5, <2>6, <2>7, ScopeOfEndings
<1> QED BY <1>1, <1>2, <1>3, <1>4, <1>5, <1>6, <1>7

(* and handlers that move lanes or change their size.                      *)
LEMMA LaneScopes ==
  ASSUME NEW L, NEW i
  PROVE  /\ InScope(L, handle_vextractf128(i)) /\ InScope(L, handle_vinsertf128(i))
         /\ InScope(L, handle_vpinsert(i))
         /\ InScope(L, handle_vinsertps(i)) /\ InScope(L, handle_vextractps(i))
         /\ InScope(L, handle_vmovshdup(i))
         /\ InScope(L, handle_vmovsldup(i)) /\ InScope(L, handle_vunpck(i))
         /\ InScope(L, handle_vpunpck(i))
         /\ InScope(L, handle_vpmovsx(i)) /\ InScope(L, handle_vpmovzx(i))
         /\ InScope(L, handle_vpmovwb(i))
         /\ InScope(L, handle_vpmov_down(i))
<1>1. \A K, c, p : InScope(K, p) => InScope(K, QASSERT(c, p))
  BY ScopeOfEndings
<1>2. InScope(L, handle_vextractf128(i))
  <2>1. ASSUME NEW src, NEW dst
        PROVE  /\ InScope(L, <<Call(Reg(1, dst), <<Reg(2, src), Imm(3)>>)>> \o MERR_OK)
               /\ InScope(L, CallIntoMem(i, dst, <<Reg(2, src), Imm(3)>>) \o MERR_OK)
    BY AtOnce, NamesClosed, NamesOfArgs
  <2> QED BY <1>1, <2>1, Zenon DEF handle_vextractf128
<1>3. InScope(L, handle_vinsertf128(i))
  <2>1. ASSUME NEW w, NEW part
        PROVE  InScope(L, AvxOpLoader(i, 3, "s")
                       \o CallIntoVec(i, w, <<Reg(2, w), Loaded(i, 3, "s", part), Imm(4)>>)
                         \o MERR_OK)
    BY LoadedNames, Afterwards, NamesClosed, NamesOfArgs
  <2> QED BY <1>1, <2>1 DEF handle_vinsertf128
<1>4. InScope(L, handle_vpinsert(i)) /\ InScope(L, handle_vinsertps(i))
  <2>1. ASSUME NEW w
        PROVE  InScope(L, AvxOpLoader(i, 3, "s")
                       \o <<Call(Reg(1, 16), <<Reg(2, 16), Loaded(i, 3, "s", w), Imm(4)>>)>>
                         \o MERR_OK)
    BY LoadedNames, Afterwards, NamesClosed, NamesOfArgs
  <2> QED BY <1>1, <2>1 DEF handle_vpinsert, handle_vinsertps
<1>5. InScope(L, handle_vextractps(i))
  <2>1. /\ InScope(L, <<Call(Reg(1, 4), <<Reg(2, 16), Imm(3)>>)>> \o MERR_OK)
        /\ InScope(L, CallIntoMem(i, 4, <<Reg(2, 16), Imm(3)>>) \o MERR_OK)
    BY AtOnce, NamesClosed, NamesOfArgs
  <2> QED BY <1>1, <2>1, Zenon DEF handle_vextractps
<1>6. /\ InScope(L, handle_vmovshdup(i)) /\ InScope(L, handle_vmovsldup(i))
      /\ InScope(L, handle_vunpck(i))
      /\ InScope(L, handle_vpunpck(i))
  BY LogicParts DEF handle_vmovshdup, handle_vmovsldup, handle_vunpck, handle_vpunpck
<1>7. InScope(L, handle_vpmovsx(i)) /\ InScope(L, handle_vpmovzx(i))
  <2>1. \A w : InScope(L, AvxOpLoader(i, 2, "s") \o <<Call(Vec(i, 1), <<Loaded(i, 2, "s", w)>>)>>
                       \o MERR_OK)
    BY LoadedNames, Afterwards, NamesClosed, MoreNames
  <2> QED BY <2>1 DEF handle_vpmovsx, handle_vpmovzx
<1>8. InScope(L, handle_vpmovwb(i))
  BY AtOnce, NamesClosed, NamesOfArgs DEF handle_vpmovwb
<1>9. InScope(L, handle_vpmov_down(i))
  <2> DEFINE args == <<Reg(2, get_vector_size(Op(i, 2)))>>
             p == <<Call(Vec(i, 1), args)>>
             q == CallIntoMem(i, Op(i, 1).w, args)
  <2>1. Names(L, args)
    BY NamesClosed, NamesOfArgs
  <2> HIDE DEF args
  <2>2. InScope(L, p \o MERR_OK) /\ InScope(L, q \o MERR_OK) /\ InScope(L, <<>> \o MERR_INSN)
    BY <2>1, AtOnce, MoreNames, ScopeOfOne, ScopeOfEndings, Scoping
  <2> HIDE DEF p, q
  <2>3. CASE IsVec(Op(i, 1))
    BY <2>2, <2>3 DEF handle_vpmov_down, args, p, q
  <2>4. CASE ~IsVec(Op(i, 1)) /\ IsMem(Op(i, 1))
    BY <2>2, <2>4 DEF handle_vpmov_down, args, p, q
  <2>5. CASE ~IsVec(Op(i, 1)) /\ ~IsMem(Op(i, 1))
    BY <2>2, <2>5 DEF handle_vpmov_down
  <2> QED BY <2>3, <2>4, <2>5
<1> QED BY <1>2, <1>3, <1>4, <1>5, <1>6, <1>7, <1>8, <1>9

(* The VMX filter's apply.                                                 *)
LEMMA VmxScopes ==
  ASSUME NEW L, NEW i PROVE InScope(L, vmx_apply(i))
<1>1. \A K, dst, args : NameIn(K, dst) /\ Names(K, args) => InScope(K, VMXIntrinsic(dst, args))
  BY AtOnce DEF VMXIntrinsic
<1>2. \A n : /\ InScope(L, load_mem_address(i, n))
             /\ NameIn(After(L, load_mem_address(i, n)), MemAddress(i))
  BY ScopeOfOne, ScopeSteps, ThenSteps, NamesOfArgs DEF load_mem_address, MemAddress
<1>3. InScope(L, handle_vmx_no_op(i)) /\ InScope(L, handle_vmx_mem_op(i))
        /\ InScope(L, handle_vmptrst(i))
  BY <1>1, <1>2, Scoping, NamesClosed, NamesOfArgs
     DEF handle_vmx_no_op, handle_vmx_mem_op, handle_vmptrst
<1>4. InScope(L, handle_vmread(i))
  BY <1>1, <1>2, Scoping, NamesClosed, NamesOfArgs DEF handle_vmread
<1>5. InScope(L, handle_invept(i)) /\ InScope(L, handle_invvpid(i))
  BY <1>1, <1>2, Scoping, NamesClosed, NamesOfArgs DEF handle_invept, handle_invvpid
<1>6. InScope(L, handle_vmwrite(i))
  <2> DEFINE p == IF IsMem(Op(i, 2)) THEN <<LoadOp(2, "s", Op(i, 2).w)>> ELSE <<>>
             q == VMXIntrinsic(Effect, <<Reg(1, PtrSize(i)), Loaded(i, 2, "s", PtrSize(i))>>)
  <2>1. InScope(L, p) /\ (IsMem(Op(i, 2)) => "s" \in After(L, p))
    BY ScopeOfOne, ScopeSteps, ThenSteps
  <2>2. handle_vmwrite(i) = p \o q
    BY DEF handle_vmwrite
  <2> HIDE DEF p
  <2>3. InScope(After(L, p), q)
    BY <1>1, <2>1, NamesClosed, NamesOfArgs
  <2> HIDE DEF q
  <2> QED BY <2>1, <2>2, <2>3, Scoping
<1> QED BY <1>3, <1>4, <1>5, <1>6, ScopeOfEndings, Zenon DEF vmx_apply

(* The AVX filter's apply.                                                 *)
LEMMA AvxScopes ==
  ASSUME NEW i, Encodable(i) PROVE InScope({}, apply(i))
<1>0. InScope({}, MERR_OK) /\ InScope({}, MERR_INSN)
  BY ScopeOfEndings
<1>1. InScope({}, apply_math(i))
  BY <1>0, MathScopes, MathScopes2, Zenon DEF apply_math, handle_v_fma_ph
<1>2. InScope({}, apply_cvt(i))
  <2>1. (i.it = "vldmxcsr" => IsMem(Op(i, 1))) => InScope({}, handle_vmxcsr(i))
    BY CvtScopes
  <2>2. InScope({}, handle_vmxcsr(i))
    BY <2>1 DEF Encodable
  <2>3. \A w, dst : InScope({}, convert(i, w, dst)) /\ InScope({}, from_xmm(i, w, dst))
    BY CvtScopes
  <2>4. /\ InScope({}, handle_vcvtdq2ps(i)) /\ InScope({}, handle_vcvtps2pd(i))
        /\ InScope({}, handle_vcvtpd2ps(i))
        /\ InScope({}, handle_vcvt_ps2dq(i)) /\ InScope({}, handle_vcvt_pd2dq(i))
        /\ InScope({}, handle_vcvtdq2pd(i))
        /\ InScope({}, handle_vcvt_ps2udq(i)) /\ InScope({}, handle_vcvt_pd2udq(i))
        /\ InScope({}, handle_vcvt_udq2ps(i))
        /\ InScope({}, handle_vcvt_udq2pd(i)) /\ InScope({}, handle_vcvt_pd2qq(i))
        /\ InScope({}, handle_vcvt_ps2qq(i))
        /\ InScope({}, handle_vcvt_qq2fp(i))
    BY <2>3 DEF handle_vcvtdq2ps, handle_vcvtps2pd, handle_vcvtpd2ps, handle_vcvt_ps2dq,
                handle_vcvt_pd2dq, handle_vcvtdq2pd,
                handle_vcvt_ps2udq, handle_vcvt_pd2udq, handle_vcvt_udq2ps, handle_vcvt_udq2pd,
                handle_vcvt_pd2qq,
                handle_vcvt_ps2qq, handle_vcvt_qq2fp, same_size
  <2> QED BY <2>2, <2>4, CvtScopes, Zenon DEF apply_cvt
<1>3. InScope({}, apply_logic(i))
  <2>1. i.it = "sha256rnds2" => ~IsMem(Op(i, 3))
    BY DEF Encodable
  <2> QED BY <1>0, <2>1, LogicScopes, LogicScopes2, Zenon DEF apply_logic
<1>4. InScope({}, apply_shuffle(i))
  BY <1>3, ShuffleScopes, BroadcastScopes, LaneScopes, Zenon DEF apply_shuffle
<1>5. i.it \in Gathers => InScope({}, handle_v_gather(i))
  BY GatherScopes DEF Encodable
<1>6. InScope({}, handle_zmm_direct_call(i))
  BY AtOnce, NamesClosed, NamesOfArgs DEF handle_zmm_direct_call
<1> QED BY <1>0, <1>1, <1>2, <1>4, <1>5, <1>6, MaskScopes, MovScopes, GatherScopes, Zenon DEF apply

(* Every handler of both filters frees, writes and reads only kregs that   *)
(* it has allocated, itself and on every path, and not yet freed: for      *)
(* whatever instruction, whatever shape its operands have.                 *)
THEOREM EveryHandlerScoped ==
  /\ \A i : Encodable(i) => InScope({}, apply(i))
  /\ \A i : InScope({}, vmx_apply(i))
BY AvxScopes, VmxScopes

(* What microcode can have wrong about which kreg it is: read or written   *)
(* without being bound, bound to something else, or freed.                 *)
KregFaults == {"unbound", "foreign", "freed"}

(* A live temporary names an allocated kreg of its own.                    *)
Owned(v) ==
  Live(Plan[insn], pc, v) => env[v] \in Slots /\ slots[env[v]].used /\ slots[env[v]].own = v

(* While a plan is followed on which nothing falls back, no                *)
(* microinstruction has had a wrong kreg, and the live temporaries are the *)
(* handler's own; outside of it, there is nothing to say.                  *)
Orderly == bad \cap KregFaults = {} /\ (result = "none" => \A v \in Vars : Owned(v))
OrderlyUnlessFallsBack == result = "idle" \/ ~FallsBack(Plan[insn]) => Orderly

(* The property: microcode gets a wrong kreg only where a step goes on     *)
(* after a failure.                                                        *)
StrayKregsFallBack == bad \cap KregFaults # {} => FallsBack(Plan[insn])

(* Live from an empty handler on is live in the sense of Codegen.          *)
LEMMA LiveAt ==
  ASSUME NEW p, NEW k \in Nat \ {0}, NEW v
  PROVE  v \in At({}, p, k - 1) <=> Live(p, k, v)
BY InAt DEF LiveFrom, Live

(* What a step that is in scope reads, frees or writes.                    *)
LEMMA InScopeIsLive ==
  ASSUME NEW p, InScope({}, p), NEW k \in 1..Len(p)
  PROVE  /\ p[k].do \in {"widen", "store", "emit"} =>
              \A j \in DOMAIN p[k].src :
                p[k].src[j].at \in {"tmp", "deref"} => Live(p, k, p[k].src[j].v)
         /\ p[k].do = "free" => Live(p, k, p[k].v)
         /\ p[k].do = "emit" /\ p[k].dst.at = "tmp" => Live(p, k, p[k].dst.v)
<1> DEFINE st == p[k]
<1>1. k \in Nat \ {0}
  BY DEF InScope, IsPlan
<1>2. StepIn(At({}, p, k - 1), st) /\ \A v : v \in At({}, p, k - 1) => Live(p, k, v)
  BY <1>1, LiveAt DEF InScope
<1>3. ASSUME st.do \in {"widen", "store", "emit"}, NEW j \in DOMAIN st.src,
             st.src[j].at \in {"tmp", "deref"}
      PROVE  Live(p, k, st.src[j].v)
  <2>1. Names(At({}, p, k - 1), st.src)
    BY <1>2, <1>3 DEF StepIn
  <2>2. DOMAIN st.src = 1..Len(st.src)
    BY <2>1 DEF Names, IsPlan
  <2> QED BY <1>2, <1>3, <2>1, <2>2 DEF Names, NameIn
<1> QED BY <1>2, <1>3 DEF StepIn

(* A handler of the lifter whose next step is due.                         *)
InHand ==
  TypeOK /\ result = "none" /\ InScope({}, Plan[insn]) /\ bad \cap KregFaults = {}
  /\ \A v \in Vars : Owned(v)

(* Its live temporaries are bound to kregs,                                *)
LEMMA LiveIsOwned ==
  ASSUME InHand, NEW v, Live(Plan[insn], pc, v)
  PROVE  /\ v \in Vars /\ env[v] \in Slots /\ env[v] # NoSlot
         /\ slots[env[v]].used /\ slots[env[v]].own = v
<1>1. insn \in Insns /\ pc \in 1..Len(Plan[insn])
  BY DEF InHand, TypeOK
<1>2. v \in Vars
  BY <1>1, LiveInVars
<1> QED BY <1>2, CodegenAssumption DEF InHand, Owned

(* So nothing it emits has a wrong kreg.                                   *)
LEMMA NothingStray ==
  ASSUME InHand, Plan[insn][pc].do \in {"widen", "store", "emit"}
  PROVE  Malformed(Plan[insn][pc]) \cap KregFaults = {}
<1> DEFINE st == Plan[insn][pc]
<1>1. pc \in 1..Len(Plan[insn]) /\ InScope({}, Plan[insn])
  BY DEF InHand, TypeOK
<1>2. \A s : Unsupported(s) \cap KregFaults = {}
  BY DEF Unsupported, KregFaults
<1>3. ASSUME NEW j \in DOMAIN st.src PROVE Misread(st.src[j]) \cap KregFaults = {}
  <2> DEFINE s == st.src[j]
  <2>1. CASE s.at \in {"tmp", "deref"}
    <3>1. Live(Plan[insn], pc, s.v)
      BY <1>1, <1>3, <2>1, InScopeIsLive
    <3> HIDE DEF s
    <3>2. env[s.v] # NoSlot /\ slots[env[s.v]].used /\ slots[env[s.v]].own = s.v
      BY <3>1, LiveIsOwned
    <3> QED BY <2>1, <3>2 DEF Misread, KregFaults, s
  <2>2. CASE s.at \notin {"tmp", "deref"}
    BY <2>2 DEF Misread, KregFaults
  <2> QED BY <2>1, <2>2
<1> HIDE DEF st
<1> QED BY <1>2, <1>3 DEF Malformed, st

(* Binding a free kreg makes it the variable's own and disturbs no other.  *)
LEMMA BoundIsOwned ==
  ASSUME InHand, NEW s \in FreeSlots, NEW def, NEW val,
         Binds(Plan[insn][pc], Plan[insn][pc].v),
         Bind(Plan[insn][pc].v, s, def, val), insn' = insn, Advance
  PROVE  \A v \in Vars : Owned(v)'
<1> DEFINE st == Plan[insn][pc]
<1>1. insn \in Insns /\ pc \in 1..Len(Plan[insn]) /\ pc \in Nat \ {0} /\ pc' = pc + 1
  BY CodegenAssumption DEF InHand, TypeOK, Advance, Skip
<1>2. st.v \in Vars /\ s \in Slots /\ ~slots[s].used
  BY <1>1, CodegenAssumption DEF HasOperands, Binds, FreeSlots
<1>3. /\ slots' = [slots EXCEPT ![s] = Kreg(TRUE, st.v, def, val)]
      /\ env' = [env EXCEPT ![st.v] = s]
      /\ DOMAIN slots = Slots /\ env \in [Vars -> Slots \union {NoSlot}]
  BY DEF Bind, InHand, TypeOK
<1>4. ASSUME NEW v \in Vars PROVE Owned(v)'
  <2>1. Live(Plan[insn], pc + 1, v) => Binds(st, v) \/ Live(Plan[insn], pc, v)
    BY <1>1, LiveNext
  <2>2. CASE v = st.v
    <3>1. env'[v] = s /\ slots'[s] = Kreg(TRUE, v, def, val)
      BY <1>2, <1>3, <2>2
    <3> QED BY <1>2, <3>1 DEF Kreg, Owned
  <2>3. CASE v # st.v
    <3>1. ~Binds(st, v) /\ env'[v] = env[v]
      BY <1>3, <2>3 DEF Binds
    <3>2. Live(Plan[insn], pc, v) => env[v] # s /\ env[v] \in Slots /\ slots[env[v]].used
            /\ slots[env[v]].own = v
      BY <1>2, LiveIsOwned
    <3>3. Live(Plan[insn], pc, v) => slots'[env[v]] = slots[env[v]]
      BY <1>3, <3>2
    <3> QED BY <1>1, <2>1, <3>1, <3>2, <3>3 DEF Owned
  <2> QED BY <2>2, <2>3
<1> QED BY <1>4

(* A step that binds none leaves those owned that it does not free.        *)
LEMMA OthersStayOwned ==
  ASSUME InHand, insn' = insn, Advance, env' = env,
         \A v : ~Binds(Plan[insn][pc], v),
         \A v \in Vars :
           env[v] \in Slots /\ slots[env[v]].used /\ slots[env[v]].own = v
             /\ ~Frees(Plan[insn][pc], v)
             => slots'[env[v]].used /\ slots'[env[v]].own = v
  PROVE  \A v \in Vars : Owned(v)'
<1> DEFINE st == Plan[insn][pc]
<1>1. pc \in Nat \ {0} /\ pc' = pc + 1
  BY CodegenAssumption DEF InHand, TypeOK, Advance, Skip
<1>2. ASSUME NEW v \in Vars, Live(Plan[insn], pc + 1, v)
      PROVE  env[v] \in Slots /\ slots'[env[v]].used /\ slots'[env[v]].own = v
  <2>1. Live(Plan[insn], pc, v) /\ ~Frees(st, v)
    BY <1>1, <1>2, LiveNext
  <2>2. env[v] \in Slots /\ slots[env[v]].used /\ slots[env[v]].own = v
    BY <2>1, LiveIsOwned
  <2> QED BY <2>1, <2>2
<1> QED BY <1>1, <1>2 DEF Owned

(* Order is kept by every step of a handler in scope that does not fall    *)
(* back.                                                                   *)
LEMMA OrderlyStep ==
  ASSUME TypeOK, Orderly, [Next]_vars,
         result = "none" => InScope({}, Plan[insn]) /\ ~FallsBack(Plan[insn])
  PROVE  Orderly'
<1> DEFINE st == Plan[insn][pc]
<1>1. result = "none" => InHand
  BY DEF InHand, Orderly
<1>2. result = "none" =>
        /\ pc \in 1..Len(Plan[insn])
        /\ st.do # "widen" /\ (st.do \in {"load", "addr", "alloc", "store"} => st.checked)
  BY DEF TypeOK, FallsBack
<1>3. ASSUME GiveUp(st), bad' = bad PROVE Orderly'
  BY <1>3 DEF GiveUp, Orderly
<1>4. ASSUME NEW s \in FreeSlots, NEW def, NEW val, Bind(st.v, s, def, val), result = "none",
             st.do \in {"load", "addr", "alloc"}, insn' = insn, Advance, bad' \cap KregFaults = {}
      PROVE  Orderly'
  <2>1. Binds(st, st.v)
    BY <1>4 DEF Binds
  <2> QED BY <1>1, <1>4, <2>1, BoundIsOwned DEF Orderly
<1>5. ASSUME result = "none", st.do \in {"widen", "store", "emit"}, NEW E, E \cap KregFaults = {},
             bad' = bad \union Malformed(st) \union E
      PROVE  bad' \cap KregFaults = {}
  BY <1>1, <1>5, NothingStray DEF Orderly
<1>6. ASSUME result = "none", st.do \in {"store", "emit"}, insn' = insn, Advance,
             env' = env, slots' = slots, bad' \cap KregFaults = {}
      PROVE  Orderly'
  <2>1. \A v : ~Binds(st, v)
    BY <1>6 DEF Binds
  <2> QED BY <1>1, <1>6, <2>1, OthersStayOwned DEF Orderly
<1>7. CASE Load
  <2>1. result = "none" /\ st.do = "load" /\ st.checked /\ insn' = insn
    BY <1>2, <1>7 DEF Load, Running
  <2>2. CASE GiveUp(st) /\ UNCHANGED bad
    BY <1>3, <2>2
  <2>3. CASE /\ \E s \in FreeSlots :
                  Bind(st.v, s, st.w, Cut(arch[<<"m", 0>>], Covers(st.w, insn.es)))
             /\ bad' = bad \union Unsupported(Deref(st.v, st.w))
             /\ Advance
    <3>1. bad' \cap KregFaults = {}
      BY <2>1, <2>3 DEF Orderly, Unsupported, KregFaults
    <3> QED BY <1>4, <2>1, <2>3, <3>1
  <2> QED BY <1>7, <2>1, <2>2, <2>3 DEF Load
<1>8. CASE LoadAddress
  <2>1. result = "none" /\ st.do = "addr" /\ st.checked /\ insn' = insn /\ bad' = bad
    BY <1>2, <1>8 DEF LoadAddress, Running
  <2>2. bad' \cap KregFaults = {}
    BY <2>1 DEF Orderly
  <2> QED BY <1>3, <1>4, <1>8, <2>1, <2>2 DEF LoadAddress
<1>9. CASE AllocKreg
  <2>1. result = "none" /\ st.do = "alloc" /\ st.checked /\ insn' = insn /\ bad' = bad
    BY <1>2, <1>9 DEF AllocKreg, Running
  <2>2. bad' \cap KregFaults = {}
    BY <2>1 DEF Orderly
  <2> QED BY <1>3, <1>4, <1>9, <2>1, <2>2 DEF AllocKreg
<1>10. CASE Widen
  BY <1>2, <1>10 DEF Widen, Running
<1>11. CASE StoreOperand
  <2>1. result = "none" /\ st.do = "store" /\ st.checked /\ insn' = insn
    BY <1>2, <1>11 DEF StoreOperand, Running
  <2>2. CASE GiveUp(st) /\ UNCHANGED bad
    BY <1>3, <2>2
  <2>3. CASE bad' = bad \union Malformed(st) /\ Advance /\ UNCHANGED <<slots, env>>
    <3>1. bad' \cap KregFaults = {}
      BY <1>1, <2>1, <2>3, NothingStray DEF Orderly
    <3> QED BY <1>6, <2>1, <2>3, <3>1
  <2> QED BY <1>11, <2>1, <2>2, <2>3 DEF StoreOperand
<1>12. CASE EmitToArch
  <2>1. /\ result = "none" /\ st.do = "emit" /\ insn' = insn /\ Advance /\ slots' = slots
        /\ env' = env
        /\ bad' = bad \union Malformed(st)
    BY <1>12 DEF EmitToArch, Running
  <2>2. bad' \cap KregFaults = {}
    BY <1>1, <2>1, NothingStray DEF Orderly
  <2> QED BY <1>6, <2>1, <2>2
<1>13. CASE EmitToKreg
  <2> DEFINE u == st.dst.v
  <2>1. result = "none" /\ st.do = "emit" /\ st.dst.at = "tmp" /\ insn' = insn /\ Advance
          /\ env' = env
    BY <1>13 DEF EmitToKreg, Running
  <2>2. Live(Plan[insn], pc, u)
    BY <1>1, <1>2, <2>1, InScopeIsLive DEF InHand
  <2>3. u \in Vars /\ env[u] \in Slots /\ env[u] # NoSlot /\ slots[env[u]].used
          /\ slots[env[u]].own = u
    <3> HIDE DEF u
    <3> QED BY <1>1, <2>1, <2>2, LiveIsOwned
  <2>4. bad' = bad \union Malformed(st)
    BY <1>13, <2>3 DEF EmitToKreg
  <2>5. bad' \cap KregFaults = {}
    BY <1>1, <2>1, <2>4, NothingStray DEF Orderly
  <2>6. PICK def, val : slots' = [slots EXCEPT ![env[u]] = Kreg(@.used, @.own, def, val)]
    BY <1>13, <2>3 DEF EmitToKreg
  <2>7. \A v \in Vars : env[v] \in Slots =>
          slots'[env[v]].used = slots[env[v]].used /\ slots'[env[v]].own = slots[env[v]].own
    <3>1. ASSUME NEW s \in Slots
          PROVE  slots'[s].used = slots[s].used /\ slots'[s].own = slots[s].own
      BY <2>3, <2>6 DEF Kreg, TypeOK
    <3> QED BY <3>1
  <2>8. \A v : ~Binds(st, v)
    BY <2>1 DEF Binds
  <2>9. \A v \in Vars : Owned(v)'
    BY <1>1, <2>1, <2>7, <2>8, OthersStayOwned
  <2> QED BY <2>5, <2>9 DEF Orderly
<1>14. CASE FreeKreg
  <2> DEFINE u == st.v
  <2>1. result = "none" /\ st.do = "free" /\ insn' = insn /\ Advance /\ env' = env /\ bad' = bad
    BY <1>14 DEF FreeKreg, Running
  <2>2. Live(Plan[insn], pc, u)
    BY <1>1, <1>2, <2>1, InScopeIsLive DEF InHand
  <2>3. u \in Vars /\ env[u] \in Slots /\ slots[env[u]].own = u
    <3> HIDE DEF u
    <3> QED BY <1>1, <2>1, <2>2, LiveIsOwned
  <2>4. \A v : ~Binds(st, v) /\ (Frees(st, v) <=> v = u)
    BY <2>1 DEF Binds, Frees
  <2>5. ASSUME NEW v \in Vars, env[v] \in Slots, slots[env[v]].own = v, v # u
        PROVE  slots'[env[v]] = slots[env[v]]
    BY <1>14, <2>3, <2>5 DEF FreeKreg
  <2>6. \A v \in Vars : Owned(v)'
    BY <1>1, <2>1, <2>4, <2>5, OthersStayOwned
  <2> QED BY <2>1, <2>6 DEF Orderly
<1>15. CASE Return
  BY <1>15 DEF Return, Final, Orderly
<1>16. CASE Leave \/ NextFunction
  BY <1>16 DEF Leave, NextFunction, Idle, Orderly
<1>17. CASE Begin
  <2>1. pc' = 1 /\ bad' = bad
    BY <1>17 DEF Begin, TypeOK
  <2>2. \A plan, v : ~Live(plan, 1, v)
    BY DEF Live
  <2> QED BY <2>1, <2>2 DEF Orderly, Owned
<1>18. CASE UNCHANGED vars
  BY <1>18 DEF vars, Orderly, Owned
<1> HIDE DEF st
<1> QED BY <1>7, <1>8, <1>9, <1>10, <1>11, <1>12, <1>13, <1>14, <1>15, <1>16, <1>17, <1>18 DEF Next

(* Whatever instructions a function is made of, in whatever order, however *)
(* few kregs there are and whatever fails: no handler's microcode reads or *)
(* writes a kreg that is not its own, unless one of its steps goes on      *)
(* after a failure.                                                        *)
THEOREM NoStrayKregs ==
  ASSUME \A i \in Insns : Plan[i] = vmx_apply(i) \/ (Encodable(i) /\ Plan[i] = apply(i))
  PROVE  Spec => []StrayKregsFallBack
<1>1. Init => OrderlyUnlessFallsBack
  BY DEF Init, OrderlyUnlessFallsBack, Orderly
<1>2. TypeOK /\ OrderlyUnlessFallsBack /\ [Next]_vars => OrderlyUnlessFallsBack'
  <2> SUFFICES ASSUME TypeOK, OrderlyUnlessFallsBack, [Next]_vars PROVE OrderlyUnlessFallsBack'
    OBVIOUS
  <2>1. result = "none" => InScope({}, Plan[insn])
    BY EveryHandlerScoped DEF TypeOK
  <2>2. ASSUME result = "idle" \/ ~FallsBack(Plan[insn]) PROVE Orderly'
    <3>1. result = "none" => InScope({}, Plan[insn]) /\ ~FallsBack(Plan[insn])
      BY <2>1, <2>2
    <3> QED BY <2>2, <3>1, OrderlyStep DEF OrderlyUnlessFallsBack
  <2>3. CASE Leave \/ NextFunction
    BY <2>3 DEF Leave, NextFunction, Idle, OrderlyUnlessFallsBack, Orderly
  <2>4. CASE Begin \/ UNCHANGED vars
    BY <2>2, <2>4 DEF Begin, vars, OrderlyUnlessFallsBack
  <2>5. CASE Load \/ LoadAddress \/ AllocKreg \/ Widen \/ FreeKreg \/ StoreOperand \/ EmitToKreg
               \/ EmitToArch \/ Return
    <3>1. insn' = insn /\ result' # "idle"
      BY <2>5 DEF Load, LoadAddress, AllocKreg, Widen, FreeKreg, StoreOperand, EmitToKreg,
                  EmitToArch,
                  Return, Running, Advance, Skip, GiveUp, Final
    <3> QED BY <2>2, <3>1 DEF OrderlyUnlessFallsBack
  <2> QED BY <2>3, <2>4, <2>5 DEF Next
<1>3. TypeOK /\ OrderlyUnlessFallsBack => StrayKregsFallBack
  BY DEF OrderlyUnlessFallsBack, StrayKregsFallBack, Orderly
<1> QED BY <1>1, <1>2, <1>3, TypeCorrect, PTL DEF Spec

(* No handler reads, writes or frees a temporary that it does not have.    *)
LEMMA ScopeIsOnlyLive ==
  ASSUME NEW p, InScope({}, p) PROVE OnlyLive(p)
BY InScopeIsLive DEF OnlyLive

(* And where a handler goes on after no failure, what MERR_OK leaves is a  *)
(* matter of the instruction alone, however many kregs there are,          *)
(* whichever it is given and whatever they held.                           *)
THEOREM HandlersAsOnPaper ==
  ASSUME IsFiniteSet(Slots),
         \A i \in Insns : Plan[i] = vmx_apply(i) \/ (Encodable(i) /\ Plan[i] = apply(i)),
         \A i \in Insns : Dependable(Plan[i]) /\ StoresChecked(Plan[i])
  PROVE  Spec => []AsOnPaper
<1>1. \A i \in Insns : OnlyLive(Plan[i])
  BY EveryHandlerScoped, ScopeIsOnlyLive
<1> QED BY <1>1, AsOnPaperHolds

(* And it is what the processor promises, if it is on paper.               *)
THEOREM HandlersComputePromise ==
  ASSUME IsFiniteSet(Slots),
         \A i \in Insns : Plan[i] = vmx_apply(i) \/ (Encodable(i) /\ Plan[i] = apply(i)),
         \A i \in Insns : Dependable(Plan[i]) /\ StoresChecked(Plan[i]) /\ KeepsPromise(i)
  PROVE  Spec => []ComputesPromise
<1>1. \A i \in Insns : OnlyLive(Plan[i])
  BY EveryHandlerScoped, ScopeIsOnlyLive
<1> QED BY <1>1, ComputesPromiseHolds
==============================================================================
