--------------------------- MODULE Bytes_proofs ---------------------------
(***************************************************************************)
(* Proofs about the bytes of temporaries in the plans of the handlers as   *)
(* they are. Each plan comes with what it needs of its temporaries: a load *)
(* or an address brings as much, and what is allocated is filled with as   *)
(* much before it is read. A handler of either filter, given operands of   *)
(* the forms that instructions of 64-bit binaries have, then reads nothing *)
(* that it has not defined, unless it goes on after a failure or widens.   *)
(***************************************************************************)
EXTENDS Lifetime_proofs

(* Bytes. N says of each temporary how many of its bytes a plan in a       *)
(* 64-bit binary reads; addresses have 8. An operand takes no more than    *)
(* that of a temporary, and no more than there is of a general register.   *)
Needs == {N \in [Vars -> Nat] : N["ea"] = 8 /\ N["addr"] = 8 /\ N["base"] = 8}
Need(s, t, tmp) ==
  [v \in Vars |-> CASE v = "s" -> s [] v = "t" -> t [] v \in {"tmp", "zero"} -> tmp [] OTHER -> 8]

Takes(i, N, s) ==
  /\ s.at = "tmp" => s.w <= N[s.v]
  /\ s.at = "deref" => 8 <= N[s.v]
  /\ s.at = "reg" /\ Op(i, s.n).k \in {"gpr", "mem"} => s.w <= 8
TakesAll(i, N, args) == IsPlan(args) /\ \A j \in 1..Len(args) : Takes(i, N, args[j])

(* A load or an address brings what is needed of its temporary, and to     *)
(* what is allocated it is written before anything is read.                *)
Brings(i, N, st) ==
  /\ st.do \in {"store", "emit"} => TakesAll(i, N, st.src)
  /\ st.do = "load" => N[st.v] <= st.w
  /\ st.do = "addr" => N[st.v] <= 8
Reads(st, v) ==
  /\ st.do \in {"store", "emit"}
  /\ \E j \in 1..Len(st.src) : st.src[j].at \in {"tmp", "deref"} /\ st.src[j].v = v
Filled(N, p, k) ==
  p[k].do = "alloc" =>
    \E m \in k + 1..Len(p) :
      /\ Fills(p[m], p[k].v) /\ N[p[k].v] <= p[m].dst.w
      /\ \A l \in k + 1..m : ~Reads(p[l], p[k].v)
Suits(i, N, p) ==
  IsPlan(p) /\ (FallsBack(p) \/ \A k \in 1..Len(p) : Brings(i, N, p[k]) /\ Filled(N, p, k))

(* Plans that fit, one after the other, fit; and whatever comes before or  *)
(* after a plan that falls back.                                           *)
LEMMA FallsBackCompose ==
  ASSUME NEW p, NEW q, IsPlan(p), IsPlan(q), FallsBack(p) \/ FallsBack(q)
  PROVE  FallsBack(p \o q)
<1>1. /\ Len(p) \in Nat /\ Len(q) \in Nat /\ Len(p \o q) = Len(p) + Len(q)
      /\ \A j \in 1..Len(p) + Len(q) : (p \o q)[j] = IF j <= Len(p) THEN p[j] ELSE q[j - Len(p)]
  BY Concatenation
<1>2. \A j \in 1..Len(p) : j \in 1..Len(p \o q) /\ (p \o q)[j] = p[j]
  BY <1>1
<1>3. \A j \in 1..Len(q) : Len(p) + j \in 1..Len(p \o q) /\ (p \o q)[Len(p) + j] = q[j]
  BY <1>1
<1> QED BY <1>2, <1>3 DEF FallsBack

(* The second plan frees, fills and reads temporaries of its own loads and *)
(* allocations, or the first has fallen back.                              *)
LEMMA FitsCompose ==
  ASSUME NEW i, NEW N, NEW p, NEW q, Suits(i, N, p), Suits(i, N, q)
  PROVE  Suits(i, N, p \o q)
<1>1. IsPlan(p) /\ IsPlan(q)
  BY DEF Suits
<1>2. /\ Len(p) \in Nat /\ Len(q) \in Nat /\ Len(p \o q) = Len(p) + Len(q) /\ IsPlan(p \o q)
      /\ \A j \in 1..Len(p) + Len(q) : (p \o q)[j] = IF j <= Len(p) THEN p[j] ELSE q[j - Len(p)]
  BY <1>1, Concatenation
<1>3. CASE FallsBack(p) \/ FallsBack(q)
  BY <1>1, <1>2, <1>3, FallsBackCompose DEF Suits
<1>4. CASE ~FallsBack(p) /\ ~FallsBack(q)
  <2> DEFINE r == p \o q
             a == Len(p)
             b == Len(q)
  <2>0. a \in Nat /\ b \in Nat /\ Len(r) = a + b
    BY <1>2
  <2>1. /\ \A k \in 1..a : Brings(i, N, p[k]) /\ Filled(N, p, k)
        /\ \A k \in 1..b : Brings(i, N, q[k]) /\ Filled(N, q, k)
    BY <1>4 DEF Suits
  <2>2. \A k \in 1..a : k \in 1..a + b /\ r[k] = p[k]
    BY <1>2
  <2>3. \A k \in 1..b : a + k \in 1..a + b /\ r[a + k] = q[k]
    BY <1>2
  <2>4. \A k \in 1..a + b : k \in 1..a \/ (k - a \in 1..b /\ a + (k - a) = k)
    BY <2>0
  <2> HIDE DEF r, a, b
  <2>5. ASSUME NEW k \in 1..a PROVE Brings(i, N, r[k]) /\ Filled(N, r, k)
    <3>1. ASSUME p[k].do = "alloc" PROVE Filled(N, r, k)
      <4>1. PICK m \in k + 1..a :
              /\ Fills(p[m], p[k].v) /\ N[p[k].v] <= p[m].dst.w
              /\ \A l \in k + 1..m : ~Reads(p[l], p[k].v)
        BY <2>1, <3>1 DEF Filled, a
      <4>2. m \in k + 1..a + b /\ \A l \in k + 1..m : l \in 1..a
        BY <2>0
      <4> QED BY <2>0, <2>2, <4>1, <4>2 DEF Filled
    <3> QED BY <2>1, <2>2, <3>1 DEF Filled
  <2>6. ASSUME NEW c \in 1..b PROVE Brings(i, N, r[a + c]) /\ Filled(N, r, a + c)
    <3>1. ASSUME q[c].do = "alloc" PROVE Filled(N, r, a + c)
      <4>1. PICK m \in c + 1..b :
              /\ Fills(q[m], q[c].v) /\ N[q[c].v] <= q[m].dst.w
              /\ \A l \in c + 1..m : ~Reads(q[l], q[c].v)
        BY <2>1, <3>1 DEF Filled, b
      <4>2. a + m \in (a + c) + 1..a + b /\ m \in 1..b
        BY <2>0
      <4>3. ASSUME NEW l \in (a + c) + 1..a + m PROVE ~Reads(r[l], q[c].v)
        <5>1. l - a \in c + 1..m /\ l - a \in 1..b /\ a + (l - a) = l
          BY <2>0
        <5>2. r[l] = q[l - a]
          BY <2>3, <5>1
        <5> QED BY <4>1, <5>1, <5>2
      <4> QED BY <2>0, <2>3, <4>1, <4>2, <4>3 DEF Filled
    <3> QED BY <2>1, <2>3, <3>1 DEF Filled
  <2>7. \A k \in 1..a + b : Brings(i, N, r[k]) /\ Filled(N, r, k)
    BY <2>4, <2>5, <2>6
  <2> QED BY <1>2, <2>0, <2>7 DEF Suits, r
<1> QED BY <1>3, <1>4

(* In the form the handlers need it.                                       *)
LEMMA Fitting ==
  /\ \A i, N, p, q : Suits(i, N, p) /\ Suits(i, N, q) => Suits(i, N, p \o q)
  /\ \A i, N, p, q : IsPlan(p) /\ FallsBack(p) /\ IsPlan(q) => Suits(i, N, p \o q)
  /\ \A i, N, p : Suits(i, N, p) => IsPlan(p)
  /\ \A i, N, p : IsPlan(p) /\ FallsBack(p) => Suits(i, N, p)
BY FitsCompose, FallsBackCompose, Concatenation DEF Suits

(* A step that may go on after a failure; one that brings what is needed.  *)
Unsure(st) == st.do = "widen" \/ (st.do \in {"load", "addr", "alloc", "store"} /\ ~st.checked)
Meets(i, N, st) == st.do # "alloc" /\ Brings(i, N, st)

(* A plan of one step fits if the step brings what is needed.              *)
LEMMA FitsOne ==
  /\ \A i, N : Suits(i, N, <<>>)
  /\ \A i, N, a : Meets(i, N, a) => Suits(i, N, <<a>>)
  /\ \A a : Unsure(a) => FallsBack(<<a>>)
<1>1. \A i, N : Suits(i, N, <<>>)
  BY Tuples DEF Suits
<1>2. \A i, N, a : Meets(i, N, a) => Suits(i, N, <<a>>)
  BY Tuples DEF Suits, Meets, Filled
<1>3. \A a : Unsure(a) => FallsBack(<<a>>)
  BY Tuples DEF FallsBack, Unsure
<1> QED BY <1>1, <1>2, <1>3

(* An allocation and what fills it; the latter reads something else.       *)
LEMMA FitsAlloc ==
  ASSUME NEW i, NEW N, NEW a, NEW b, a.do = "alloc", Fills(b, a.v), N[a.v] <= b.dst.w,
         Brings(i, N, b), ~Reads(b, a.v)
  PROVE  Suits(i, N, <<a, b>>)
<1> DEFINE p == <<a, b>>
<1>1. IsPlan(p) /\ Len(p) = 2 /\ p[1] = a /\ p[2] = b
  BY Tuples
<1> HIDE DEF p
<1>2. b.do = "emit" /\ Brings(i, N, a)
  BY DEF Fills, Brings
<1>3. Filled(N, p, 1)
  <2>1. 2 \in 1 + 1..Len(p)
    BY <1>1
  <2>2. \A l \in 1 + 1..2 : ~Reads(p[l], p[1].v)
    BY <1>1
  <2>3. Fills(p[2], p[1].v) /\ N[p[1].v] <= p[2].dst.w
    BY <1>1
  <2> QED BY <2>1, <2>2, <2>3 DEF Filled
<1>4. Filled(N, p, 2)
  BY <1>1, <1>2 DEF Filled
<1>5. \A k \in 1..Len(p) : Brings(i, N, p[k]) /\ Filled(N, p, k)
  BY <1>1, <1>2, <1>3, <1>4
<1> QED BY <1>1, <1>5 DEF Suits, p

(* Two in a row, filled in the same order.                                 *)
LEMMA FitsAllocs ==
  ASSUME NEW i, NEW N, NEW a, NEW b, NEW c, NEW d, a.do = "alloc", b.do = "alloc",
         Fills(c, a.v), N[a.v] <= c.dst.w, Fills(d, b.v), N[b.v] <= d.dst.w,
         Brings(i, N, c), Brings(i, N, d),
         ~Reads(c, a.v), ~Reads(c, b.v), ~Reads(d, b.v)
  PROVE  Suits(i, N, <<a, b, c, d>>)
<1> DEFINE p == <<a, b, c, d>>
<1>1. IsPlan(p) /\ Len(p) = 4 /\ p[1] = a /\ p[2] = b /\ p[3] = c /\ p[4] = d
  <2>1. p \in Seq({a, b, c, d})
    OBVIOUS
  <2> QED BY <2>1 DEF IsPlan
<1> HIDE DEF p
<1>2. c.do = "emit" /\ d.do = "emit" /\ Brings(i, N, a) /\ Brings(i, N, b) /\ ~Reads(b, a.v)
  BY DEF Fills, Brings, Reads
<1>3. Filled(N, p, 1)
  <2>1. 3 \in 1 + 1..Len(p)
    BY <1>1
  <2>2. \A l \in 1 + 1..3 : ~Reads(p[l], p[1].v)
    BY <1>1, <1>2
  <2>3. Fills(p[3], p[1].v) /\ N[p[1].v] <= p[3].dst.w
    BY <1>1
  <2> QED BY <2>1, <2>2, <2>3 DEF Filled
<1>4. Filled(N, p, 2)
  <2>1. 4 \in 2 + 1..Len(p)
    BY <1>1
  <2>2. \A l \in 2 + 1..4 : ~Reads(p[l], p[2].v)
    BY <1>1
  <2>3. Fills(p[4], p[2].v) /\ N[p[2].v] <= p[4].dst.w
    BY <1>1
  <2> QED BY <2>1, <2>2, <2>3 DEF Filled
<1>5. Filled(N, p, 3) /\ Filled(N, p, 4)
  BY <1>1, <1>2 DEF Filled
<1>6. \A k \in 1..Len(p) : Brings(i, N, p[k]) /\ Filled(N, p, k)
  BY <1>1, <1>2, <1>3, <1>4, <1>5
<1> QED BY <1>1, <1>6 DEF Suits, p

(* An argument of a call whose result goes to tmp: the calls do not read   *)
(* tmp. Arguments are given one by one, and lists of them put together.    *)
Arg(i, N, s) == Takes(i, N, s) /\ s.v # "tmp"
Given(i, N, args) == IsPlan(args) /\ \A j \in 1..Len(args) : Arg(i, N, args[j])

(* Lists of arguments, each of which takes what there is.                  *)
LEMMA GivenClosed ==
  /\ \A i, N : Given(i, N, <<>>)
  /\ \A i, N, a : Arg(i, N, a) => Given(i, N, <<a>>)
  /\ \A i, N, a, b : Arg(i, N, a) /\ Arg(i, N, b) => Given(i, N, <<a, b>>)
  /\ \A i, N, a, b, c : Arg(i, N, a) /\ Arg(i, N, b) /\ Arg(i, N, c) => Given(i, N, <<a, b, c>>)
  /\ \A i, N, x, y : Given(i, N, x) /\ Given(i, N, y) => Given(i, N, x \o y)
  /\ \A i, N, x : Given(i, N, x) => TakesAll(i, N, x)
<1>1. /\ \A i, N : Given(i, N, <<>>)
      /\ \A i, N, a : Arg(i, N, a) => Given(i, N, <<a>>)
      /\ \A i, N, a, b : Arg(i, N, a) /\ Arg(i, N, b) => Given(i, N, <<a, b>>)
      /\ \A i, N, a, b, c : Arg(i, N, a) /\ Arg(i, N, b) /\ Arg(i, N, c) => Given(i, N, <<a, b, c>>)
  BY Tuples DEF Given
<1>2. ASSUME NEW i, NEW N, NEW x, NEW y, Given(i, N, x), Given(i, N, y) PROVE Given(i, N, x \o y)
  BY <1>2, Concatenation, SMT DEF Given
<1>3. \A i, N, x : Given(i, N, x) => TakesAll(i, N, x)
  BY DEF Given, Arg, TakesAll
<1> QED BY <1>1, <1>2, <1>3

(* A register that is not general has the bytes that are read of it; of a  *)
(* memory operand that is loaded, there are as many as are read.           *)
Whole64(i, n) == Op(i, n).k \notin {"gpr", "mem"}
Reaches(i, n, w) ==
  IF IsMem(Op(i, n)) THEN w <= Op(i, n).w /\ w <= 64 ELSE Op(i, n).k = "gpr" => w <= 8

(* The operands that the handlers pass, at widths that are there.          *)
LEMMA ArgsFit ==
  /\ \A i, N, v, w : v # "tmp" /\ w <= N[v] => Arg(i, N, Tmp(v, w))
  /\ \A i, N, v, w : v # "tmp" /\ 8 <= N[v] => Arg(i, N, Deref(v, w))
  /\ \A i, N, n, w : Whole64(i, n) \/ w <= 8 => Arg(i, N, Reg(n, w))
  /\ \A i, N, n : Whole64(i, n) => Arg(i, N, Vec(i, n))
  /\ \A i, N, n : Arg(i, N, Imm(n)) /\ Arg(i, N, MaskImm(n)) /\ Arg(i, N, add_argument_mask(n))
  /\ \A i, N : Arg(i, N, Number0)
  /\ \A i, N, v, w : w <= N[v] => Takes(i, N, Tmp(v, w))
  /\ \A i, N, s : Arg(i, N, s) => Takes(i, N, s)
BY DEF Arg, Takes, Whole64, Tmp, Deref, Reg, Vec, Imm, MaskImm, add_argument_mask, Number0

(* A mask and what a masked intrinsic merges with.                         *)
LEMMA MaskedArgsFit ==
  /\ \A i, N, w : Whole64(i, 1) => Given(i, N, MergeArg(i, w))
  /\ \A i, N, w, args : Whole64(i, 1) /\ Given(i, N, args) => Given(i, N, MaskedArgs(i, w, args))
BY GivenClosed, ArgsFit DEF MergeArg, MaskedArgs

(* Steps.                                                                  *)
LEMMA StepsMeet ==
  /\ \A i, N, n, v, w : N[v] <= w => Meets(i, N, LoadOp(n, v, w))
  /\ \A i, N, n, v : N[v] <= 8 => Meets(i, N, Address(n, v))
  /\ \A i, N, v : Meets(i, N, Free(v))
  /\ \A i, N, merr : merr \in Final => Meets(i, N, Finish(merr))
  /\ \A i, N, n, s : Takes(i, N, s) => Meets(i, N, StoreOp(n, s))
  /\ \A i, N, dst, s : Takes(i, N, s) =>
       /\ Meets(i, N, Mov(dst, s)) /\ Meets(i, N, Xdu(dst, s))
       /\ Meets(i, N, I2f(dst, s)) /\ Meets(i, N, F2f(dst, s))
  /\ \A i, N, dst, args : TakesAll(i, N, args) =>
       Meets(i, N, Call(dst, args)) /\ Meets(i, N, ScalarCall(dst, args))
  /\ \A i, N, n, dst : Meets(i, N, AddressImm(n, dst))
<1>1. /\ \A i, N, n, v, w : N[v] <= w => Meets(i, N, LoadOp(n, v, w))
      /\ \A i, N, n, v : N[v] <= 8 => Meets(i, N, Address(n, v))
      /\ \A i, N, v : Meets(i, N, Free(v))
  BY DEF Meets, Brings, LoadOp, Address, Free, Step
<1>0. \A i, N, merr : merr \in Final => Meets(i, N, Finish(merr))
  BY DEF Meets, Brings, Finish, Final, Step
<1>2. \A i, N, s : Takes(i, N, s) => TakesAll(i, N, <<s>>)
  BY Tuples DEF TakesAll
<1>3. \A i, N : TakesAll(i, N, <<>>)
  BY Tuples DEF TakesAll
<1>4. \A i, N, how, dst, args : TakesAll(i, N, args) => Meets(i, N, Emit(how, dst, args))
  BY DEF Meets, Brings, Emit, Step
<1>5. \A i, N, n, s : Takes(i, N, s) => Meets(i, N, StoreOp(n, s))
  BY <1>2 DEF Meets, Brings, StoreOp, Step
<1>6. \A i, N, n, dst : Meets(i, N, AddressImm(n, dst))
  BY <1>3 DEF Meets, Brings, AddressImm, Emit, Step
<1> QED BY <1>0, <1>1, <1>2, <1>4, <1>5, <1>6 DEF Mov, Xdu, I2f, F2f, Call, ScalarCall

(* The steps after which a handler goes on without what it asked for.      *)
LEMMA UnsureSteps ==
  /\ \A n, v, w : FallsBack(<<LoadUnchecked(n, v, w)>>)
  /\ \A n, v, k : FallsBack(<<AddressOrSkip(n, v, k)>>)
  /\ \A v, w : FallsBack(<<AllocUnchecked(v, w)>>)
  /\ \A n, s : FallsBack(<<StoreUnchecked(n, s)>>)
  /\ \A v, w, s : FallsBack(<<WidenTmp(v, w, s)>>)
<1>1. /\ \A n, v, w : Unsure(LoadUnchecked(n, v, w))
      /\ \A n, v, k : Unsure(AddressOrSkip(n, v, k))
      /\ \A v, w : Unsure(AllocUnchecked(v, w))
      /\ \A n, s : Unsure(StoreUnchecked(n, s))
      /\ \A v, w, s : Unsure(WidenTmp(v, w, s))
  BY DEF Unsure, LoadUnchecked, LoadOp, AddressOrSkip, Address, AllocUnchecked, Alloc,
         StoreUnchecked, StoreOp, WidenTmp, Step
<1> QED BY <1>1, FitsOne

(* Kregs: allocated, and filled at once.                                   *)
LEMMA KregsFit ==
  /\ \A i, N, v, w, u, z, s : N[v] <= z /\ Takes(i, N, s) /\ s.v # v =>
       /\ Suits(i, N, <<Alloc(v, w), Mov(Tmp(v, z), s)>>)
       /\ Suits(i, N, <<Alloc(v, w), Xdu(Tmp(v, z), s)>>)
       /\ Suits(i, N, <<AllocElseFree(v, w, u), Mov(Tmp(v, z), s)>>)
  /\ \A i, N, v, w, u, z, args :
       N[v] <= z /\ TakesAll(i, N, args) /\ (\A j \in 1..Len(args) : args[j].v # v) =>
         /\ Suits(i, N, <<Alloc(v, w), Call(Tmp(v, z), args)>>)
         /\ Suits(i, N, <<AllocElseFree(v, w, u), Call(Tmp(v, z), args)>>)
  /\ \A i, N, v, w, z, n : N[v] <= z => Suits(i, N, <<Alloc(v, w), AddressImm(n, Tmp(v, z))>>)
<1>1. /\ \A v, w : Alloc(v, w).do = "alloc" /\ Alloc(v, w).v = v
      /\ \A v, w, u : AllocElseFree(v, w, u).do = "alloc" /\ AllocElseFree(v, w, u).v = v
  BY DEF Alloc, AllocElseFree, Step
<1>2. ASSUME NEW i, NEW N, NEW how, NEW v, NEW z, NEW args, N[v] <= z, TakesAll(i, N, args),
             \A j \in 1..Len(args) : args[j].v # v
      PROVE  /\ Fills(Emit(how, Tmp(v, z), args), v) /\ N[v] <= Emit(how, Tmp(v, z), args).dst.w
             /\ Brings(i, N, Emit(how, Tmp(v, z), args)) /\ ~Reads(Emit(how, Tmp(v, z), args), v)
  BY <1>2 DEF Fills, Brings, Reads, Emit, Step, Tmp
<1>3. ASSUME NEW i, NEW N, NEW how, NEW v, NEW w, NEW u, NEW z, NEW args, N[v] <= z,
             TakesAll(i, N, args), \A j \in 1..Len(args) : args[j].v # v
      PROVE  /\ Suits(i, N, <<Alloc(v, w), Emit(how, Tmp(v, z), args)>>)
             /\ Suits(i, N, <<AllocElseFree(v, w, u), Emit(how, Tmp(v, z), args)>>)
  <2>1. /\ Fills(Emit(how, Tmp(v, z), args), v) /\ N[v] <= Emit(how, Tmp(v, z), args).dst.w
        /\ Brings(i, N, Emit(how, Tmp(v, z), args)) /\ ~Reads(Emit(how, Tmp(v, z), args), v)
    BY <1>2, <1>3
  <2> QED BY <1>1, <2>1, FitsAlloc
<1>4. \A i, N, s : Takes(i, N, s) => TakesAll(i, N, <<s>>)
  BY Tuples DEF TakesAll
<1>5. \A s, v : s.v # v => \A j \in 1..Len(<<s>>) : <<s>>[j].v # v
  BY Tuples
<1>6. ASSUME NEW i, NEW N, NEW v, NEW w, NEW z, NEW n, N[v] <= z
      PROVE  Suits(i, N, <<Alloc(v, w), AddressImm(n, Tmp(v, z))>>)
  <2>1. TakesAll(i, N, <<>>)
    BY Tuples DEF TakesAll
  <2>2. /\ Fills(AddressImm(n, Tmp(v, z)), v) /\ N[v] <= AddressImm(n, Tmp(v, z)).dst.w
        /\ Brings(i, N, AddressImm(n, Tmp(v, z))) /\ ~Reads(AddressImm(n, Tmp(v, z)), v)
    BY <1>6, <2>1, Tuples DEF Fills, Brings, Reads, AddressImm, Emit, Step, Tmp
  <2> QED BY <1>1, <2>2, FitsAlloc
<1>7. ASSUME NEW i, NEW N, NEW v, NEW w, NEW u, NEW z, NEW s, N[v] <= z, Takes(i, N, s), s.v # v
      PROVE  /\ Suits(i, N, <<Alloc(v, w), Mov(Tmp(v, z), s)>>)
             /\ Suits(i, N, <<Alloc(v, w), Xdu(Tmp(v, z), s)>>)
             /\ Suits(i, N, <<AllocElseFree(v, w, u), Mov(Tmp(v, z), s)>>)
  <2> DEFINE args == <<s>>
  <2>1. TakesAll(i, N, args) /\ \A j \in 1..Len(args) : args[j].v # v
    BY <1>4, <1>5, <1>7
  <2> HIDE DEF args
  <2>2. \A how : /\ Suits(i, N, <<Alloc(v, w), Emit(how, Tmp(v, z), args)>>)
                 /\ Suits(i, N, <<AllocElseFree(v, w, u), Emit(how, Tmp(v, z), args)>>)
    BY <1>3, <1>7, <2>1
  <2> QED BY <2>2 DEF Mov, Xdu, args
<1> DEFINE Apart(v, args) == \A j \in 1..Len(args) : args[j].v # v
<1> HIDE DEF Apart
<1>8. ASSUME NEW i, NEW N, NEW v, NEW w, NEW u, NEW z, NEW args, N[v] <= z,
             TakesAll(i, N, args), Apart(v, args)
      PROVE  /\ Suits(i, N, <<Alloc(v, w), Call(Tmp(v, z), args)>>)
             /\ Suits(i, N, <<AllocElseFree(v, w, u), Call(Tmp(v, z), args)>>)
  <2>1. Call(Tmp(v, z), args) = Emit("fn", Tmp(v, z), args)
    BY DEF Call
  <2>2. /\ Suits(i, N, <<Alloc(v, w), Emit("fn", Tmp(v, z), args)>>)
        /\ Suits(i, N, <<AllocElseFree(v, w, u), Emit("fn", Tmp(v, z), args)>>)
    BY <1>3, <1>8 DEF Apart
  <2> QED BY <2>1, <2>2, Zenon
<1>9. \A i, N, v, w, u, z, s : N[v] <= z /\ Takes(i, N, s) /\ s.v # v =>
       /\ Suits(i, N, <<Alloc(v, w), Mov(Tmp(v, z), s)>>)
       /\ Suits(i, N, <<Alloc(v, w), Xdu(Tmp(v, z), s)>>)
       /\ Suits(i, N, <<AllocElseFree(v, w, u), Mov(Tmp(v, z), s)>>)
  BY <1>7
<1>10. \A i, N, v, w, z, n : N[v] <= z => Suits(i, N, <<Alloc(v, w), AddressImm(n, Tmp(v, z))>>)
  BY <1>6, Zenon
<1>11. \A i, N, v, w, u, z, args :
         N[v] <= z /\ TakesAll(i, N, args) /\ Apart(v, args) =>
           /\ Suits(i, N, <<Alloc(v, w), Call(Tmp(v, z), args)>>)
           /\ Suits(i, N, <<AllocElseFree(v, w, u), Call(Tmp(v, z), args)>>)
  <2> SUFFICES ASSUME NEW i, NEW N, NEW v, NEW w, NEW u, NEW z, NEW args,
                      N[v] <= z, TakesAll(i, N, args), Apart(v, args)
               PROVE  /\ Suits(i, N, <<Alloc(v, w), Call(Tmp(v, z), args)>>)
                      /\ Suits(i, N, <<AllocElseFree(v, w, u), Call(Tmp(v, z), args)>>)
    OBVIOUS
  <2> QED BY <1>8
<1> QED BY <1>9, <1>10, <1>11, Zenon DEF Apart

(* What a handler may rely on: a 64-bit binary, and operands of the sizes  *)
(* there are.                                                              *)
Known(i) == i.b64 /\ i.es \in 1..8 /\ \A n : Op(i, n).w \in 0..64

(* What each temporary of such a need is read for.                         *)
LEMMA NeedIs ==
  ASSUME NEW a \in Nat, NEW b \in Nat, NEW c \in Nat
  PROVE  /\ Need(a, b, c) \in Needs
         /\ Need(a, b, c)["s"] = a /\ Need(a, b, c)["t"] = b
         /\ Need(a, b, c)["tmp"] = c /\ Need(a, b, c)["zero"] = c
BY DEF Need, Needs, Vars

(* A needed number of bytes is a number; addresses have 8.                 *)
LEMMA NeedsAre ==
  ASSUME NEW N \in Needs
  PROVE  /\ N["s"] \in Nat /\ N["t"] \in Nat /\ N["tmp"] \in Nat /\ N["zero"] \in Nat
         /\ N["ea"] = 8 /\ N["addr"] = 8 /\ N["base"] = 8
BY DEF Needs, Vars

(* Loads and addresses.                                                    *)
LEMMA FitsZmmLoad ==
  ASSUME NEW i, NEW N \in Needs, NEW n, NEW v, v # "ea", N[v] <= 64
  PROVE  Suits(i, N, emit_zmm_load(i, n, v))
<1>1. Suits(i, N, <<Address(n, "ea")>>)
  BY NeedsAre, StepsMeet, FitsOne
<1>2. Deref("ea", 64).v # v /\ Deref("ea", 64).v = "ea" /\ Takes(i, N, Deref("ea", 64))
  BY NeedsAre DEF Deref, Takes
<1>3. Suits(i, N, <<Alloc(v, 64), Mov(Tmp(v, 64), Deref("ea", 64))>>)
  <2> DEFINE s == Deref("ea", 64)
  <2>1. s.v # v /\ Takes(i, N, s) /\ N[v] <= 64
    BY <1>2
  <2> HIDE DEF s
  <2>2. Suits(i, N, <<Alloc(v, 64), Mov(Tmp(v, 64), s)>>)
    BY <2>1, KregsFit
  <2> QED BY <2>2 DEF s
<1>4. <<Address(n, "ea"), Alloc(v, 64), Mov(Tmp(v, 64), Deref("ea", 64))>>
      = <<Address(n, "ea")>> \o <<Alloc(v, 64), Mov(Tmp(v, 64), Deref("ea", 64))>>
  OBVIOUS
<1> QED BY <1>1, <1>3, <1>4, Fitting DEF emit_zmm_load

(* The same of an operand of any size, in a register of that size.         *)
LEMMA FitsUdtLoad ==
  ASSUME NEW i, NEW N \in Needs, NEW n, NEW v, NEW size, v # "ea", N[v] <= size, N[v] <= 64
  PROVE  Suits(i, N, load_operand_udt(i, n, v, size))
BY FitsZmmLoad, StepsMeet, FitsOne DEF load_operand_udt

(* The address of an operand, and the operands that go through it.         *)
LEMMA FitsAddress ==
  ASSUME NEW i, NEW N \in Needs, NEW n, i.b64
  PROVE  /\ Suits(i, N, make_vector_load_mop(i, n)) /\ Suits(i, N, load_memory_address(i, n))
         /\ Suits(i, N, <<Address(n, "addr")>>) /\ Suits(i, N, load_mem_address(i, n))
         /\ Arg(i, N, Tmp("addr", PtrSize(i))) /\ Arg(i, N, MemoryAddress(i))
         /\ Arg(i, N, MemAddress(i)) /\ \A w : Arg(i, N, Deref("addr", w))
<1>1. PtrSize(i) = 8 /\ N["addr"] = 8
  BY NeedsAre DEF PtrSize
<1>2. Suits(i, N, <<Address(n, "addr")>>)
  BY <1>1, StepsMeet, FitsOne
<1>3. \A w : Suits(i, N, <<Alloc("addr", w), AddressImm(n, Tmp("addr", 8))>>)
  BY <1>1, KregsFit
<1>4. Suits(i, N, make_vector_load_mop(i, n))
  BY <1>1, <1>2, <1>3 DEF make_vector_load_mop
<1>5. Arg(i, N, Tmp("addr", PtrSize(i))) /\ \A w : Arg(i, N, Deref("addr", w))
  BY <1>1, ArgsFit
<1> QED BY <1>2, <1>4, <1>5 DEF load_memory_address, load_mem_address, MemoryAddress, MemAddress

(* AvxOpLoader loads all of a memory operand and nothing of a register.    *)
LEMMA FitsLoader ==
  ASSUME NEW i, NEW N \in Needs, Known(i), NEW n, N["s"] <= Op(i, n).w \/ ~IsMem(Op(i, n))
  PROVE  Suits(i, N, AvxOpLoader(i, n, "s"))
<1>1. CASE ~IsMem(Op(i, n))
  BY <1>1, FitsOne DEF AvxOpLoader
<1>2. CASE IsMem(Op(i, n))
  <2>1. N["s"] <= 64 /\ N["s"] <= Op(i, n).w
    BY <1>2, NeedsAre DEF Known
  <2> QED BY <1>2, <2>1, FitsUdtLoad DEF AvxOpLoader
<1> QED BY <1>1, <1>2

(* An operand that reaches as far as it is read is loaded and can be read. *)
LEMMA FitsSource ==
  ASSUME NEW i, NEW N \in Needs, Known(i), NEW n, NEW w, N["s"] = w, Reaches(i, n, w)
  PROVE  Suits(i, N, AvxOpLoader(i, n, "s")) /\ Arg(i, N, Loaded(i, n, "s", w))
<1>1. Suits(i, N, AvxOpLoader(i, n, "s"))
  BY FitsLoader DEF Reaches
<1>2. w \in Nat
  BY NeedsAre
<1>3. Arg(i, N, Loaded(i, n, "s", w))
  BY <1>2, ArgsFit DEF Loaded, Reaches, Whole64, IsMem
<1> QED BY <1>1, <1>3

(* A vector source: a memory operand is widened if it is less.             *)
LEMMA FitsVecSource ==
  ASSUME NEW i, NEW N \in Needs, Known(i), NEW n, NEW w, N["s"] = w, N["t"] = w,
         IsMem(Op(i, n)) \/ Whole64(i, n)
  PROVE  Suits(i, N, add_vec_source(i, n, w)) /\ Arg(i, N, VecSource(i, n, w))
<1>1. w \in Nat /\ Op(i, n).w \in Nat
  BY NeedsAre DEF Known
<1>2. Arg(i, N, VecSource(i, n, w))
  BY <1>1, ArgsFit DEF VecSource
<1>3. CASE ~IsMem(Op(i, n))
  BY <1>2, <1>3, FitsOne DEF add_vec_source
<1>4. CASE IsMem(Op(i, n)) /\ w <= Op(i, n).w
  <2>1. Suits(i, N, AvxOpLoader(i, n, "s")) /\ Suits(i, N, <<>>) /\ ~(Op(i, n).w < w)
    BY <1>1, <1>4, FitsLoader, FitsOne
  <2> QED BY <1>2, <1>4, <2>1, Fitting DEF add_vec_source
<1>5. CASE IsMem(Op(i, n)) /\ Op(i, n).w < w
  <2> DEFINE widen == <<WidenTmp("t", w, Tmp("s", Op(i, n).w))>>
             load == AvxOpLoader(i, n, "s")
  <2>1. IsPlan(load) /\ IsPlan(widen) /\ FallsBack(widen)
    BY ShapesOfHelpers, UnsureSteps, Tuples DEF Part
  <2>2. IsPlan(load \o widen) /\ FallsBack(load \o widen)
    BY <2>1, FallsBackCompose, Concatenation
  <2> QED BY <1>2, <1>5, <2>2, Fitting DEF add_vec_source
<1> QED BY <1>1, <1>2, <1>3, <1>4, <1>5

(* A scalar source, loaded at its own width and passed as an xmm register. *)
LEMMA FitsScalarSource ==
  ASSUME NEW i, NEW N \in Needs, Known(i), NEW n, NEW w, N["s"] = w, N["t"] = 16, Reaches(i, n, w)
  PROVE  Suits(i, N, ScalarSource(i, n, w))
         /\ (IsMem(Op(i, n)) \/ Whole64(i, n) => Arg(i, N, Loaded(i, n, "t", 16)))
<1>1. w \in Nat /\ Suits(i, N, AvxOpLoader(i, n, "s"))
  BY NeedsAre, FitsSource
<1>2. Takes(i, N, Tmp("s", w)) /\ Tmp("s", w).v # "t" /\ N["t"] <= 16
  BY <1>1, ArgsFit DEF Tmp
<1>3. Suits(i, N, <<Alloc("t", 16), Xdu(Tmp("t", 16), Tmp("s", w))>>)
  BY <1>2, KregsFit
<1>4. Suits(i, N, ScalarSource(i, n, w))
  BY <1>1, <1>3, Fitting, FitsOne DEF ScalarSource
<1>5. IsMem(Op(i, n)) \/ Whole64(i, n) => Arg(i, N, Loaded(i, n, "t", 16))
  <2>1. Arg(i, N, Tmp("t", 16)) /\ (Whole64(i, n) => Arg(i, N, Reg(n, 16)))
    BY ArgsFit
  <2> QED BY <2>1 DEF Loaded, Whole64, IsMem
<1> QED BY <1>4, <1>5

(* Ends, and what QASSERT guards.                                          *)
LEMMA FitsEnds ==
  ASSUME NEW i, NEW N
  PROVE  /\ Suits(i, N, MERR_OK) /\ Suits(i, N, MERR_INSN) /\ Suits(i, N, INTERR) /\ Suits(i, N, <<>>)
         /\ \A c, p : Suits(i, N, p) => Suits(i, N, QASSERT(c, p))
         /\ \A n, v : Suits(i, N, FreeIfMem(i, n, v))
         /\ \A v : Suits(i, N, <<Free(v)>>)
<1>1. \A merr : merr \in Final => Suits(i, N, <<Finish(merr)>>)
  BY StepsMeet, FitsOne
<1>2. Suits(i, N, MERR_OK) /\ Suits(i, N, MERR_INSN) /\ Suits(i, N, INTERR)
  BY <1>1 DEF MERR_OK, MERR_INSN, INTERR, Final
<1>3. Suits(i, N, <<>>) /\ \A v : Suits(i, N, <<Free(v)>>)
  BY StepsMeet, FitsOne
<1> QED BY <1>2, <1>3 DEF QASSERT, FreeIfMem

(* Microinstructions that fill no kreg for the first time.                 *)
LEMMA FitsEmits ==
  ASSUME NEW i, NEW N
  PROVE  /\ \A dst, args : Given(i, N, args) => /\ Suits(i, N, <<Call(dst, args)>>)
                                               /\ Suits(i, N, <<ScalarCall(dst, args)>>)
         /\ \A dst, s : Takes(i, N, s) =>
              /\ Suits(i, N, <<Mov(dst, s)>>) /\ Suits(i, N, <<Xdu(dst, s)>>)
              /\ Suits(i, N, <<I2f(dst, s)>>) /\ Suits(i, N, <<F2f(dst, s)>>)
         /\ \A n, s : Takes(i, N, s) => Suits(i, N, <<StoreOp(n, s)>>)
         /\ \A n, v, w : w <= N[v] => Suits(i, N, emit_write_call(n, v, w))
<1>1. /\ \A dst, args : Given(i, N, args) => /\ Suits(i, N, <<Call(dst, args)>>)
                                            /\ Suits(i, N, <<ScalarCall(dst, args)>>)
      /\ \A dst, s : Takes(i, N, s) =>
           /\ Suits(i, N, <<Mov(dst, s)>>) /\ Suits(i, N, <<Xdu(dst, s)>>)
           /\ Suits(i, N, <<I2f(dst, s)>>) /\ Suits(i, N, <<F2f(dst, s)>>)
      /\ \A n, s : Takes(i, N, s) => Suits(i, N, <<StoreOp(n, s)>>)
  BY GivenClosed, StepsMeet, FitsOne
<1>2. ASSUME NEW n, NEW v, NEW w, w <= N[v] PROVE Suits(i, N, emit_write_call(n, v, w))
  <2>1. Suits(i, N, <<Mov(Reg(n, w), Tmp(v, w))>>) /\ Suits(i, N, <<Free(v)>>)
    BY <1>1, <1>2, ArgsFit, FitsEnds
  <2>2. <<Mov(Reg(n, w), Tmp(v, w)), Free(v)>> = <<Mov(Reg(n, w), Tmp(v, w))>> \o <<Free(v)>>
    OBVIOUS
  <2> QED BY <2>1, <2>2, Fitting DEF emit_write_call
<1> QED BY <1>1, <1>2

(* Stores that are looked at, and stores that are not.                     *)
LEMMA FitsStore ==
  ASSUME NEW i, NEW N \in Needs, i.b64, NEW n, NEW src, Takes(i, N, src)
  PROVE  Suits(i, N, store_operand_hack(i, n, src))
<1>1. CASE ~(src.w > 8)
  BY <1>1, FitsEmits DEF store_operand_hack
<1>2. CASE src.w > 8
  <2> DEFINE call == <<Call(Effect, <<Tmp("addr", PtrSize(i)), src>>)>>
  <2>1. TakesAll(i, N, <<Tmp("addr", PtrSize(i)), src>>)
    <3>1. Takes(i, N, Tmp("addr", PtrSize(i)))
      BY FitsAddress DEF Arg
    <3> QED BY <3>1, Tuples DEF TakesAll
  <2>2. Suits(i, N, call)
    BY <2>1, StepsMeet, FitsOne
  <2> HIDE DEF call
  <2>3. CASE ~Op(i, n).glob
    BY <1>2, <2>2, <2>3, FitsAddress, Fitting DEF store_operand_hack, emit_vector_store, call
  <2>4. CASE Op(i, n).glob
    <3> DEFINE get == <<AllocUnchecked("addr", PtrSize(i)), AddressImm(n, Tmp("addr", PtrSize(i)))>>
    <3>1. get = <<AllocUnchecked("addr", PtrSize(i))>> \o <<AddressImm(n, Tmp("addr", PtrSize(i)))>>
      OBVIOUS
    <3>2. Suits(i, N, get)
      BY <3>1, UnsureSteps, Tuples, Fitting
    <3> QED BY <1>2, <2>2, <2>4, <3>2, Fitting DEF store_operand_hack, emit_vector_store, call
  <2> QED BY <2>3, <2>4
<1> QED BY <1>1, <1>2

(* A store that nobody looks at may leave memory as it was.                *)
LEMMA UncheckedStore ==
  ASSUME NEW i, NEW n, NEW src
  PROVE  IsPlan(unchecked_store(i, n, src)) /\ FallsBack(unchecked_store(i, n, src))
<1>1. IsPlan(unchecked_store(i, n, src))
  BY ShapesOfStores DEF Part
<1>2. CASE src.w <= 8
  BY <1>1, <1>2, UnsureSteps DEF unchecked_store
<1>3. CASE ~(src.w <= 8) /\ Op(i, n).glob
  <2> DEFINE get == <<AllocUnchecked("addr", PtrSize(i)), AddressImm(n, Tmp("addr", PtrSize(i)))>>
             call == <<Call(Effect, <<Tmp("addr", PtrSize(i)), src>>)>>
  <2>1. get = <<AllocUnchecked("addr", PtrSize(i))>> \o <<AddressImm(n, Tmp("addr", PtrSize(i)))>>
    OBVIOUS
  <2>2. FallsBack(get) /\ IsPlan(get) /\ IsPlan(call)
    BY <2>1, UnsureSteps, Tuples, FallsBackCompose
  <2> QED BY <1>1, <1>3, <2>2, FallsBackCompose DEF unchecked_store, emit_vector_store
<1>4. CASE ~(src.w <= 8) /\ ~Op(i, n).glob
  <2> DEFINE get == <<AddressOrSkip(n, "addr", 1)>>
             call == <<Call(Effect, <<Tmp("addr", PtrSize(i)), src>>)>>
  <2>1. <<AddressOrSkip(n, "addr", 1), Call(Effect, <<Tmp("addr", PtrSize(i)), src>>)>> = get \o call
    OBVIOUS
  <2>2. FallsBack(get \o call)
    BY UnsureSteps, Tuples, FallsBackCompose
  <2> QED BY <1>1, <1>4, <2>1, <2>2 DEF unchecked_store
<1> QED BY <1>2, <1>3, <1>4

(* A call whose result is stored, which is not checked.                    *)
LEMMA FitsIntoMem ==
  ASSUME NEW i, NEW N, NEW w, NEW args
  PROVE  Suits(i, N, CallIntoMem(i, w, args))
<1> DEFINE call == <<Alloc("tmp", w), Call(Tmp("tmp", w), args)>>
           store == unchecked_store(i, 1, Tmp("tmp", w))
<1>1. IsPlan(call) /\ IsPlan(store) /\ FallsBack(store) /\ IsPlan(<<Free("tmp")>>)
  BY UncheckedStore, Tuples
<1> HIDE DEF call, store
<1>2. IsPlan(call \o store) /\ FallsBack(call \o store)
  BY <1>1, FallsBackCompose, Concatenation
<1>3. Suits(i, N, call \o store \o <<Free("tmp")>>)
  BY <1>1, <1>2, Fitting
<1> QED BY <1>3 DEF CallIntoMem, call, store

(* The result of a call, through a kreg or not.                            *)
LEMMA FitsIntoKreg ==
  ASSUME NEW i, NEW N \in Needs, NEW w, N["tmp"] = w, NEW args, Given(i, N, args)
  PROVE  /\ \A k : Suits(i, N, <<Alloc("tmp", k), Call(Tmp("tmp", w), args)>>)
         /\ \A k, u : Suits(i, N, <<AllocElseFree("tmp", k, u), Call(Tmp("tmp", w), args)>>)
         /\ \A n : Suits(i, N, emit_write_call(n, "tmp", w))
<1>1. w \in Nat /\ N["tmp"] <= w /\ w <= N["tmp"]
  BY NeedsAre
<1>2. TakesAll(i, N, args) /\ \A j \in 1..Len(args) : args[j].v # "tmp"
  BY GivenClosed DEF Given, Arg
<1> QED BY <1>1, <1>2, KregsFit, FitsEmits

(* A call whose result goes through a kreg into a vector register.         *)
LEMMA FitsIntoVec ==
  ASSUME NEW i, NEW N \in Needs, NEW w, N["tmp"] = w, NEW args, Given(i, N, args)
  PROVE  Suits(i, N, CallIntoVec(i, w, args))
<1>1. CASE w = 64
  <2>1. /\ Suits(i, N, <<Alloc("tmp", w), Call(Tmp("tmp", w), args)>>)
        /\ Suits(i, N, emit_write_call(1, "tmp", w))
    BY FitsIntoKreg
  <2>2. Suits(i, N, <<Alloc("tmp", w), Call(Tmp("tmp", w), args)>> \o emit_write_call(1, "tmp", w))
    BY <2>1, Fitting
  <2> QED BY <1>1, <2>2 DEF CallIntoVec
<1>2. CASE w # 64
  BY <1>2, FitsEmits DEF CallIntoVec
<1> QED BY <1>1, <1>2

(* The instructions of 64-bit binaries, with operands as they are encoded, *)
(* and what that says of each operand.                                     *)
Fine(i) == i.b64 /\ Encodable(i) /\ Decoded(i) /\ Sized(i)
Source64(i, n) == IsMem(Op(i, n)) \/ Whole64(i, n)

(* Vectors and memory operands have what is read of them, and no two       *)
(* operands are in memory.                                                 *)
LEMMA FineIs ==
  ASSUME NEW i, Fine(i)
  PROVE  /\ Known(i) /\ PtrSize(i) = 8
         /\ \A n : IsVec(Op(i, n)) => /\ Whole64(i, n) /\ ~IsMem(Op(i, n))
                                     /\ Op(i, n).w \in {16, 32, 64}
                                     /\ (Op(i, n).w = 64 <=> Op(i, n).k = "zmm")
         /\ \A n : IsXmm(Op(i, n)) => IsVec(Op(i, n)) /\ Op(i, n).w = 16
         /\ \A n \in 2..4 : i.it \notin FromGpr => Source64(i, n) /\ Reaches(i, n, Op(i, n).w)
         /\ \A n \in 2..4, w \in Nat : i.it \notin FromGpr /\ w <= BytesRead(i) => Reaches(i, n, w)
         /\ \A m, n : IsMem(Op(i, m)) /\ IsMem(Op(i, n)) => m = n
         /\ ~IsMem(Op(i, 4))
<1>1. \A n : n \notin DOMAIN i.ops => Op(i, n).k = "void" /\ Op(i, n).w = 0
  BY DEF Op
<1>2. Known(i) /\ PtrSize(i) = 8
  BY <1>1 DEF Fine, Decoded, Sized, Known, PtrSize
<1>3. \A n : IsVec(Op(i, n)) => /\ Whole64(i, n) /\ ~IsMem(Op(i, n)) /\ Op(i, n).w \in {16, 32, 64}
                              /\ (Op(i, n).w = 64 <=> Op(i, n).k = "zmm")
  BY <1>1 DEF Fine, Decoded, IsVec, IsMem, Whole64
<1>13. \A n : IsXmm(Op(i, n)) => IsVec(Op(i, n)) /\ Op(i, n).w = 16
  BY <1>1 DEF Fine, Decoded, IsVec, IsXmm
<1>4. \A n : IsMem(Op(i, n)) => n \in DOMAIN i.ops
  BY <1>1 DEF IsMem
<1>5. ASSUME NEW n \in 2..4, i.it \notin FromGpr
      PROVE  /\ Op(i, n).k # "gpr" /\ Op(i, n).w \in 0..64
             /\ IsMem(Op(i, n)) => BytesRead(i) <= Op(i, n).w
  BY <1>1, <1>2, <1>4, <1>5 DEF Fine, Sized, Known
<1>6. ASSUME NEW n \in 2..4, i.it \notin FromGpr
      PROVE  Source64(i, n) /\ Reaches(i, n, Op(i, n).w)
  BY <1>5, <1>6 DEF Source64, Whole64, IsMem, Reaches
<1>7. \A n : Op(i, n).w \in 0..64
  BY <1>2 DEF Known
<1>8. \A x : IsMem(x) <=> x.k = "mem"
  BY DEF IsMem
<1>9. ASSUME NEW n \in 2..4, NEW w \in Nat, i.it \notin FromGpr, w <= BytesRead(i),
             IsMem(Op(i, n)) => BytesRead(i) \in Nat
      PROVE  Reaches(i, n, w)
  BY <1>5, <1>7, <1>9 DEF Reaches
<1>10. \A m, n : IsMem(Op(i, m)) /\ IsMem(Op(i, n)) => m = n
  BY <1>4 DEF Fine, Sized
<1>11. ~IsMem(Op(i, 4))
  BY <1>4 DEF Fine, Sized
<1>12. BytesRead(i) \in Nat
  <2>1. Op(i, 1).w \in Nat /\ i.es \in Nat /\ Op(i, 1).w \div 2 \in Nat
    BY <1>2 DEF Known
  <2> QED BY <2>1, Zenon DEF BytesRead
<1> QED BY <1>2, <1>3, <1>6, <1>9, <1>10, <1>11, <1>12, <1>13

(* An instruction all of whose operands are as wide as its destination.   *)
Plain(i, N, w) ==
  /\ Known(i) /\ Op(i, 1).w = w /\ N["s"] = w /\ Whole64(i, 1) /\ Whole64(i, 4)
  /\ Reaches(i, 2, w) /\ Reaches(i, 3, w)

(* An opmask that is ignored changes no operand.                           *)
LEMMA Ignoring ==
  ASSUME NEW i, Fine(i), NEW N
  PROVE  LET j == IgnoresMask(i)
         IN  /\ \A n : Op(j, n) = Op(i, n)
             /\ \A n : (Source64(j, n) <=> Source64(i, n)) /\ (Whole64(j, n) <=> Whole64(i, n))
             /\ \A n, w : Reaches(j, n, w) <=> Reaches(i, n, w)
             /\ Known(j) /\ \A w : Plain(i, N, w) => Plain(j, N, w)
             /\ \A s : Arg(j, N, s) <=> Arg(i, N, s)
             /\ \A args : Given(j, N, args) <=> Given(i, N, args)
             /\ \A p : Suits(j, N, p) <=> Suits(i, N, p)
<1> DEFINE j == IgnoresMask(i)
<1>1. j.ops = i.ops /\ j.es = i.es /\ j.b64 = i.b64
  BY DEF Fine, Decoded, Sized, IgnoresMask
<1>2. \A n : Op(j, n) = Op(i, n)
  BY <1>1 DEF Op
<1> HIDE DEF j
<1>3. /\ \A n : (Source64(j, n) <=> Source64(i, n)) /\ (Whole64(j, n) <=> Whole64(i, n))
      /\ \A n, w : Reaches(j, n, w) <=> Reaches(i, n, w)
  BY <1>2 DEF Source64, Whole64, Reaches
<1>4. \A s : Takes(j, N, s) <=> Takes(i, N, s)
  BY <1>2 DEF Takes
<1>5. \A args : TakesAll(j, N, args) <=> TakesAll(i, N, args)
  BY <1>4 DEF TakesAll
<1>6. \A st : Brings(j, N, st) <=> Brings(i, N, st)
  BY <1>5 DEF Brings
<1>7. \A p : Suits(j, N, p) <=> Suits(i, N, p)
  BY <1>6 DEF Suits
<1>8. \A s : Arg(j, N, s) <=> Arg(i, N, s)
  BY <1>4 DEF Arg
<1>9. \A args : Given(j, N, args) <=> Given(i, N, args)
  BY <1>8 DEF Given
<1>10. Known(j) /\ \A w : Plain(i, N, w) => Plain(j, N, w)
  BY <1>1, <1>2, <1>3, FineIs DEF Known, Plain
<1> QED BY <1>2, <1>3, <1>7, <1>8, <1>9, <1>10 DEF j

(* Its intrinsic.                                                          *)
LEMMA FitsPlain ==
  ASSUME NEW i, NEW N \in Needs, NEW w, Plain(i, N, w)
  PROVE  /\ Suits(i, N, AvxOpLoader(i, 2, "s")) /\ Arg(i, N, Src(i, 2))
         /\ Suits(i, N, AvxOpLoader(i, 3, "s")) /\ Arg(i, N, Src(i, 3))
         /\ \A n : Whole64(i, n) => Arg(i, N, Vec(i, n))
         /\ \A args : Given(i, N, args) =>
              /\ Given(i, N, MaskedArgs(i, w, args))
              /\ Suits(i, N, Intrinsic(i, args)) /\ Suits(i, N, <<Call(Reg(1, w), args)>> \o MERR_OK)
         /\ \A imm : Given(i, N, imm) => Suits(i, N, Unary(i, imm))
         /\ \A imm : Given(i, N, imm) /\ Whole64(i, 2) => Suits(i, N, Binary(i, imm))
         /\ Whole64(i, 2) => Suits(i, N, accumulate(i))
<1>1. /\ Suits(i, N, AvxOpLoader(i, 2, "s")) /\ Arg(i, N, Src(i, 2))
      /\ Suits(i, N, AvxOpLoader(i, 3, "s")) /\ Arg(i, N, Src(i, 3))
  BY FitsSource DEF Plain, Src
<1>2. \A n : Whole64(i, n) => Arg(i, N, Vec(i, n))
  BY ArgsFit
<1>3. ASSUME NEW args, Given(i, N, args)
      PROVE  /\ Given(i, N, MaskedArgs(i, w, args)) /\ Suits(i, N, Intrinsic(i, args))
             /\ Suits(i, N, <<Call(Reg(1, w), args)>> \o MERR_OK)
  <2>1. Given(i, N, MaskedArgs(i, w, args))
    BY <1>3, MaskedArgsFit DEF Plain
  <2> QED BY <1>3, <2>1, FitsEmits, FitsEnds, Fitting DEF Intrinsic, Plain
<1>4. ASSUME NEW imm, Given(i, N, imm) PROVE Suits(i, N, Unary(i, imm))
  <2>1. Given(i, N, <<Src(i, 2)>> \o imm)
    BY <1>1, <1>4, GivenClosed
  <2> QED BY <1>1, <1>3, <2>1, Fitting DEF Unary
<1>5. ASSUME NEW imm, Given(i, N, imm), Whole64(i, 2) PROVE Suits(i, N, Binary(i, imm))
  <2>1. Given(i, N, <<Vec(i, 2), Src(i, 3)>> \o imm)
    BY <1>1, <1>2, <1>5, GivenClosed
  <2> QED BY <1>1, <1>3, <2>1, Fitting DEF Binary
<1>6. ASSUME Whole64(i, 2) PROVE Suits(i, N, accumulate(i))
  <2> DEFINE mask == add_argument_mask(NumElements(i))
             first == CASE i.mask = "zero"  -> <<mask, Reg(1, w)>>
                        [] i.mask = "merge" -> <<Reg(1, w), mask>>
                        [] OTHER            -> <<Reg(1, w)>>
             last == <<Vec(i, 2), Src(i, 3)>>
  <2>1. Arg(i, N, Reg(1, w)) /\ Arg(i, N, mask)
    BY ArgsFit DEF Plain
  <2>2. Given(i, N, <<mask, Reg(1, w)>>) /\ Given(i, N, <<Reg(1, w), mask>>) /\ Given(i, N, <<Reg(1, w)>>)
    BY <2>1, GivenClosed
  <2>3. Given(i, N, first)
    BY <2>2, Zenon
  <2>4. Given(i, N, last)
    BY <1>1, <1>2, <1>6, GivenClosed
  <2> HIDE DEF first, last
  <2>5. Suits(i, N, AvxOpLoader(i, 3, "s") \o <<Call(Reg(1, w), first \o last)>> \o MERR_OK)
    BY <1>1, <2>3, <2>4, GivenClosed, FitsEmits, FitsEnds, Fitting
  <2> QED BY <2>5 DEF accumulate, first, last, Plain
<1> QED BY <1>1, <1>2, <1>3, <1>4, <1>5, <1>6

(* The scalar ones: of operand 3, as many bytes as an element has.         *)
LEMMA FitsScalars ==
  ASSUME NEW i, NEW N \in Needs, Known(i), NEW w, N["s"] = w, N["t"] = 16,
         Whole64(i, 1), Whole64(i, 2), Source64(i, 3), Reaches(i, 3, w)
  PROVE  /\ Suits(i, N, ScalarSource(i, 3, w)) /\ Arg(i, N, Loaded(i, 3, "t", 16))
         /\ \A args : Given(i, N, args) => Given(i, N, MaskedArgs(i, 16, args))
         /\ \A imm : Given(i, N, imm) => Suits(i, N, ScalarIntrinsic(i, imm))
         /\ \A imm : Given(i, N, imm) /\ w = i.es => Suits(i, N, ScalarBinaryOp(i, imm))
<1>1. Suits(i, N, ScalarSource(i, 3, w)) /\ Arg(i, N, Loaded(i, 3, "t", 16))
  BY FitsScalarSource DEF Source64
<1>2. \A args : Given(i, N, args) => Given(i, N, MaskedArgs(i, 16, args))
  BY MaskedArgsFit
<1>3. ASSUME NEW imm, Given(i, N, imm) PROVE Suits(i, N, ScalarIntrinsic(i, imm))
  <2>1. Arg(i, N, Reg(2, 16))
    BY ArgsFit
  <2>2. Given(i, N, <<Reg(2, 16), Loaded(i, 3, "t", 16)>> \o imm)
    BY <1>1, <1>3, <2>1, GivenClosed
  <2> QED BY <1>2, <2>2, FitsEmits, FitsEnds, Fitting DEF ScalarIntrinsic
<1> QED BY <1>1, <1>2, <1>3, Fitting DEF ScalarBinaryOp

Fitted(i, p) == \E N \in Needs : Suits(i, N, p)

(* Arithmetic: its operands, those of packed and of scalar instructions.   *)
LEMMA MathOperands ==
  ASSUME NEW i, Fine(i), i.it \in MathInsns
  PROVE  /\ i.it \notin FromGpr /\ IsVec(Op(i, 1))
         /\ i.it \in PackedUnary \union PackedUnaryImm \/ IsVec(Op(i, 2))
         /\ i.it \in ScalarMath => IsXmm(Op(i, 1)) /\ Op(i, 1).w = 16 /\ IsVec(Op(i, 2))
         /\ i.it \in ScalarMath \ ScalarUnary => BytesRead(i) = i.es
         /\ i.it = "vsqrtss" => BytesRead(i) = 4
         /\ i.it = "vsqrtsd" => BytesRead(i) = 8
         /\ i.it \notin ScalarMath => BytesRead(i) = Op(i, 1).w
<1>1. i.it \notin FromGpr
  BY DEF FromGpr, Kmovs, Transfers, VmxInsns, IntToScalar, MathInsns, PackedUnary, PackedUnaryImm,
         PackedBinary, WideProducts, PackedBinaryImm, Accumulating, Fixups, MulAdds, MulAdd132,
         MulAdd213, MulAdd231, ComplexMulAdd, ScalarMath, ScalarUnary, ScalarBinary,
         ScalarBinaryImm, ScalarMulAdds
<1>2. IsVec(Op(i, 1))
  BY DEF Fine, Decoded
<1>3. i.it \in PackedUnary \union PackedUnaryImm \/ IsVec(Op(i, 2))
  BY DEF Fine, Sized, VecSecond
<1>4. i.it \in ScalarMath => i.it \notin PackedUnary \union PackedUnaryImm
  BY DEF ScalarMath, ScalarUnary, ScalarBinary, ScalarBinaryImm, ScalarMulAdds, PackedUnary,
         PackedUnaryImm
<1>5. i.it \in ScalarMath => IsXmm(Op(i, 1)) /\ Op(i, 1).w = 16
  BY <1>2, FineIs DEF Fine, Decoded, Scalars, IsVec, IsMem
<1>6. i.it \in ScalarMath \ ScalarUnary => BytesRead(i) = i.es
  <2> SUFFICES ASSUME i.it \in ScalarMath \ ScalarUnary PROVE BytesRead(i) = i.es
    OBVIOUS
  <2>1. /\ i.it \in Scalars
        /\ i.it \notin {"vsqrtss", "vcvtss2sd", "vinsertps", "vldmxcsr"}
        /\ i.it \notin {"vsqrtsd", "vcvtsd2ss", "vmwrite"} \union HalfMoves
        /\ i.it \notin Hashes \union {"v4fmaddps", "v4fmaddss", "vbroadcastf32x4", "vbroadcastf128",
                               "vbroadcasti128", "vinsertf128", "vcvtpd2ps", "vcvtpd2dq", "vpclmulqdq"}
        /\ i.it \notin {"vbroadcasti64x4", "vinserti64x4"} /\ i.it # "vpsllw"
    BY DEF Scalars, ScalarMath, ScalarUnary, ScalarBinary, ScalarBinaryImm, ScalarMulAdds, HalfMoves,
           Hashes
  <2> QED BY <2>1 DEF BytesRead
<1>7. (i.it = "vsqrtss" => BytesRead(i) = 4) /\ (i.it = "vsqrtsd" => BytesRead(i) = 8)
  BY DEF BytesRead
<1>8. i.it \notin ScalarMath => BytesRead(i) = Op(i, 1).w
  <2> SUFFICES ASSUME i.it \notin ScalarMath PROVE BytesRead(i) = Op(i, 1).w
    OBVIOUS
  <2>1. i.it \in PackedUnary \union PackedUnaryImm \union PackedBinary \union PackedBinaryImm
          \union Accumulating \union MulAdds \union ComplexMulAdd \union {"vfixupimmps"}
    BY DEF MathInsns, ScalarMath, Fixups
  <2>2. /\ i.it \notin {"vsqrtss", "vcvtss2sd", "vinsertps", "vldmxcsr"}
        /\ i.it \notin {"vsqrtsd", "vcvtsd2ss", "vmwrite"} \union HalfMoves
        /\ i.it \notin Hashes \union {"v4fmaddps", "v4fmaddss", "vbroadcastf32x4", "vbroadcastf128",
                               "vbroadcasti128", "vinsertf128", "vcvtpd2ps", "vcvtpd2dq", "vpclmulqdq"}
        /\ i.it \notin {"vbroadcasti64x4", "vinserti64x4"} /\ i.it # "vpsllw" /\ i.it # "vmovddup"
    BY <2>1 DEF HalfMoves, Hashes, PackedUnary, PackedUnaryImm, PackedBinary, WideProducts,
           PackedBinaryImm, Accumulating, MulAdds, MulAdd132, MulAdd213, MulAdd231, ComplexMulAdd
  <2>3. /\ i.it \notin Scalars \union ScalarMoves \union Transfers \union Kmovs \union ScalarToMask
        /\ i.it \notin ScalarToGpr \union Broadcasts \union Gathers
               \union {"vcomish", "vpinsrb", "vpinsrd"}
        /\ i.it \notin Extends
    BY <2>1 DEF Scalars, ScalarConvert, IntToScalar, ScalarLogic, ScalarMoves, Transfers, Kmovs,
           ScalarToMask, ScalarToGpr, Broadcasts, Gathers, Extends, PackedUnary, PackedUnaryImm,
           PackedBinary, WideProducts, PackedBinaryImm, Accumulating, MulAdds, MulAdd132, MulAdd213,
           MulAdd231, ComplexMulAdd
  <2> QED BY <2>2, <2>3 DEF BytesRead
<1> QED BY <1>1, <1>2, <1>3, <1>4, <1>5, <1>6, <1>7, <1>8

(* Three factors of a multiply-add, in any order.                          *)
LEMMA FactorsFit ==
  ASSUME NEW i, NEW N, NEW s, NEW o, Arg(i, N, s), \A j \in 1..3 : o[j] # 3 => Arg(i, N, Vec(i, o[j]))
  PROVE  Given(i, N, [j \in 1..3 |-> IF o[j] = 3 THEN s ELSE Vec(i, o[j])])
<1> DEFINE f == [j \in 1..3 |-> IF o[j] = 3 THEN s ELSE Vec(i, o[j])]
<1>1. \A j \in 1..3 : Arg(i, N, f[j])
  OBVIOUS
<1>2. f = <<f[1], f[2], f[3]>>
  OBVIOUS
<1> HIDE DEF f
<1>3. Given(i, N, <<f[1], f[2], f[3]>>)
  BY <1>1, GivenClosed
<1> QED BY <1>2, <1>3 DEF f

(* The handlers of handler_math.cpp for packed instructions.               *)
LEMMA PackedFits ==
  ASSUME NEW i, Fine(i), i.it \in MathInsns, i.it \notin ScalarMath
  PROVE  LET w == Op(i, 1).w
             N == Need(w, w, w)
         IN  /\ N \in Needs /\ Plain(i, N, w) /\ N["t"] = w /\ N["tmp"] = w
             /\ i.it \notin PackedUnary \union PackedUnaryImm => Whole64(i, 2)
<1>1. Known(i) /\ i.it \notin FromGpr /\ IsVec(Op(i, 1)) /\ Op(i, 1).w = BytesRead(i)
  BY FineIs, MathOperands
<1>2. Op(i, 1).w \in Nat
  BY <1>1 DEF Known
<1>3. /\ Reaches(i, 2, Op(i, 1).w) /\ Reaches(i, 3, Op(i, 1).w) /\ Whole64(i, 1) /\ Whole64(i, 4)
  BY <1>1, <1>2, FineIs DEF Source64
<1>4. i.it \notin PackedUnary \union PackedUnaryImm => Whole64(i, 2)
  BY MathOperands, FineIs
<1> QED BY <1>1, <1>2, <1>3, <1>4, NeedIs DEF Plain

(* Packed arithmetic: every operand at the width of the destination.       *)
LEMMA PackedMathFits ==
  ASSUME NEW i, NEW N \in Needs, NEW w, Fine(i), Plain(i, N, w), N["t"] = w, N["tmp"] = w
  PROVE  /\ Suits(i, N, handle_v_abs(i)) /\ Suits(i, N, handle_vsqrt_ps_pd(i))
         /\ Suits(i, N, handle_v_sqrt_ph(i)) /\ Suits(i, N, handle_vrcp_rsqrt(i))
         /\ Suits(i, N, handle_vround(i))
         /\ ~IsScalar(i) => Suits(i, N, handle_v_getexp(i)) /\ Suits(i, N, unary_with_imm(i))
         /\ Whole64(i, 2) =>
              /\ Suits(i, N, handle_vsad(i)) /\ Suits(i, N, handle_v_sign(i))
              /\ Suits(i, N, handle_v_math_ph(i)) /\ Suits(i, N, handle_vaddsubps_pd(i))
              /\ Suits(i, N, handle_v_math_p(i)) /\ Suits(i, N, handle_v_hmath(i))
              /\ Suits(i, N, handle_v_dot(i)) /\ Suits(i, N, accumulate(i))
              /\ ~IsScalar(i) =>
                   /\ Suits(i, N, handle_v_scalef(i)) /\ Suits(i, N, binary_with_imm(i))
                   /\ Suits(i, N, handle_v_fma(i))
<1> DEFINE j == IgnoresMask(i)
<1>1. /\ \A imm : Given(i, N, imm) => Suits(i, N, Unary(i, imm))
      /\ \A imm : Given(i, N, imm) /\ Whole64(i, 2) => Suits(i, N, Binary(i, imm))
  BY FitsPlain
<1>2. /\ \A imm : Given(i, N, imm) => Suits(i, N, Unary(j, imm))
      /\ \A imm : Given(i, N, imm) /\ Whole64(i, 2) => Suits(i, N, Binary(j, imm))
      /\ \A args : Given(i, N, args) => Suits(i, N, Intrinsic(j, args))
  <2> HIDE DEF j
  <2>1. Plain(j, N, w) /\ (Whole64(i, 2) <=> Whole64(j, 2))
        /\ \A args : Given(i, N, args) <=> Given(j, N, args)
    BY Ignoring DEF j
  <2>2. /\ \A imm : Given(j, N, imm) => Suits(j, N, Unary(j, imm))
        /\ \A imm : Given(j, N, imm) /\ Whole64(j, 2) => Suits(j, N, Binary(j, imm))
        /\ \A args : Given(j, N, args) => Suits(j, N, Intrinsic(j, args))
    BY <2>1, FitsPlain
  <2>3. \A p : Suits(j, N, p) => Suits(i, N, p)
    BY Ignoring DEF j
  <2> QED BY <2>1, <2>2, <2>3
<1>3. /\ Given(i, N, <<>>) /\ Given(i, N, <<Imm(3)>>) /\ Given(i, N, <<Imm(4)>>)
      /\ Arg(i, N, Imm(3)) /\ Arg(i, N, Imm(4))
  BY ArgsFit, GivenClosed
<1>4. \A c, p : Suits(i, N, p) => Suits(i, N, QASSERT(c, p))
  BY FitsEnds
<1>5. /\ Suits(i, N, handle_v_abs(i)) /\ Suits(i, N, handle_vsqrt_ps_pd(i))
      /\ Suits(i, N, handle_v_sqrt_ph(i)) /\ Suits(i, N, handle_vrcp_rsqrt(i))
  BY <1>1, <1>2, <1>3 DEF handle_v_abs, handle_vsqrt_ps_pd, handle_v_sqrt_ph, handle_vrcp_rsqrt
<1>6. Suits(i, N, handle_vround(i))
  <2>1. Suits(i, N, AvxOpLoader(i, 2, "s")) /\ Given(i, N, <<Src(i, 2), Imm(3)>>)
    BY <1>3, FitsPlain, GivenClosed
  <2> QED BY <1>4, <2>1, FitsPlain, Fitting DEF handle_vround
<1>7. ~IsScalar(i) => Suits(i, N, handle_v_getexp(i)) /\ Suits(i, N, unary_with_imm(i))
  BY <1>1, <1>3, <1>4 DEF handle_v_getexp, unary_with_imm
<1>8. ASSUME Whole64(i, 2)
      PROVE  /\ Suits(i, N, handle_vsad(i)) /\ Suits(i, N, handle_v_sign(i))
             /\ Suits(i, N, handle_v_math_ph(i)) /\ Suits(i, N, handle_vaddsubps_pd(i))
             /\ Suits(i, N, handle_v_hmath(i))
             /\ ~IsScalar(i) => Suits(i, N, handle_v_scalef(i)) /\ Suits(i, N, binary_with_imm(i))
  BY <1>1, <1>2, <1>3, <1>4, <1>8
     DEF handle_vsad, handle_v_sign, handle_v_math_ph, handle_vaddsubps_pd, handle_v_hmath,
         handle_v_scalef, binary_with_imm
<1>9. ASSUME Whole64(i, 2) PROVE Suits(i, N, handle_v_math_p(i)) /\ Suits(i, N, handle_v_dot(i))
  <2>0. /\ Suits(i, N, AvxOpLoader(i, 3, "s")) /\ Given(i, N, <<Vec(i, 2), Src(i, 3)>>)
        /\ Given(i, N, <<Vec(i, 2), Src(i, 3), Imm(4)>>)
    BY <1>3, <1>9, FitsPlain, GivenClosed
  <2>1. Suits(i, N, handle_v_dot(i))
    <3>1. Suits(i, N, QASSERT(Op(i, 4).k = "imm", Intrinsic(j, <<Vec(i, 2), Src(i, 3), Imm(4)>>)))
      BY <1>2, <1>4, <2>0
    <3> QED BY <1>4, <2>0, <3>1, Fitting DEF handle_v_dot
  <2>2. Suits(i, N, handle_v_math_p(i))
    <3> DEFINE mask == add_argument_mask(from_insn(i, math_p_elem_size(i)))
               first == IF Masked(i) THEN MergeArg(i, w) \o <<mask>> ELSE <<>>
    <3>1. Given(i, N, first)
      BY <1>3, ArgsFit, MaskedArgsFit, GivenClosed DEF Plain
    <3> HIDE DEF first
    <3>2. Given(i, N, first \o <<Vec(i, 2), Src(i, 3)>>)
      BY <2>0, <3>1, GivenClosed
    <3>3. Suits(i, N, CallIntoVec(i, w, first \o <<Vec(i, 2), Src(i, 3)>>))
      BY <3>2, FitsIntoVec
    <3>4. Suits(i, N, AvxOpLoader(i, 3, "s")
                     \o CallIntoVec(i, w, first \o <<Vec(i, 2), Src(i, 3)>>) \o MERR_OK)
      BY <2>0, <3>3, FitsEnds, Fitting
    <3> QED BY <1>4, <3>4 DEF handle_v_math_p, first, Plain
  <2> QED BY <2>1, <2>2
<1>10. ASSUME Whole64(i, 2), ~IsScalar(i) PROVE Suits(i, N, handle_v_fma(i))
  <2> DEFINE o == fma_order(i)
             facs == [m \in 1..3 |-> IF o[m] = 3 THEN Src(i, 3) ELSE Vec(i, o[m])]
  <2>1. o[1] \in {1, 2, 3} /\ o[2] \in {1, 2, 3} /\ o[3] \in {1, 2, 3}
    BY DEF fma_order
  <2>2. Arg(i, N, Src(i, 3)) /\ Arg(i, N, Vec(i, 1)) /\ Arg(i, N, Vec(i, 2))
    BY <1>10, FitsPlain DEF Plain
  <2> HIDE DEF o
  <2>3. Given(i, N, facs)
    BY <2>1, <2>2, FactorsFit
  <2> HIDE DEF facs
  <2>4. Suits(i, N, AvxOpLoader(i, 3, "s") \o <<Call(Reg(1, w), MaskedArgs(i, w, facs))>> \o MERR_OK)
    BY <2>3, FitsPlain, FitsEmits, FitsEnds, Fitting
  <2>5. handle_v_fma(i) = AvxOpLoader(i, 3, "s") \o <<Call(Reg(1, w), MaskedArgs(i, w, facs))>> \o MERR_OK
    BY <1>10 DEF handle_v_fma, Plain, facs, o
  <2> QED BY <2>4, <2>5
<1> QED BY <1>5, <1>6, <1>7, <1>8, <1>9, <1>10, FitsPlain

(* What is emitted once a kreg has been filled.                            *)
LEMMA FitsLonger ==
  ASSUME NEW i, NEW N, NEW a, NEW b, Suits(i, N, <<a, b>>)
  PROVE  /\ \A c : Suits(i, N, <<c>>) => Suits(i, N, <<a, b, c>>)
         /\ \A c, d : Suits(i, N, <<c>>) /\ Suits(i, N, <<d>>) => Suits(i, N, <<a, b, c, d>>)
         /\ \A c, d, e : Suits(i, N, <<c>>) /\ Suits(i, N, <<d>>) /\ Suits(i, N, <<e>>) =>
              Suits(i, N, <<a, b, c, d, e>>)
<1>1. ASSUME NEW c, Suits(i, N, <<c>>) PROVE Suits(i, N, <<a, b, c>>)
  <2>1. <<a, b, c>> = <<a, b>> \o <<c>>
    OBVIOUS
  <2> QED BY <1>1, <2>1, Fitting
<1>2. ASSUME NEW c, NEW d, Suits(i, N, <<c>>), Suits(i, N, <<d>>) PROVE Suits(i, N, <<a, b, c, d>>)
  <2>1. <<a, b, c, d>> = <<a, b, c>> \o <<d>>
    OBVIOUS
  <2> QED BY <1>1, <1>2, <2>1, Fitting
<1>3. ASSUME NEW c, NEW d, NEW e, Suits(i, N, <<c>>), Suits(i, N, <<d>>), Suits(i, N, <<e>>)
      PROVE  Suits(i, N, <<a, b, c, d, e>>)
  <2>1. <<a, b, c, d, e>> = <<a, b, c, d>> \o <<e>>
    OBVIOUS
  <2> QED BY <1>2, <1>3, <2>1, Fitting
<1> QED BY <1>1, <1>2, <1>3

(* Those for scalar instructions.                                          *)
LEMMA ScalarMathFits ==
  ASSUME NEW i, Fine(i), i.it \in ScalarMath \ ScalarUnary
  PROVE  /\ Fitted(i, handle_v_minmax_ss_sd(i)) /\ Fitted(i, handle_v_math_sh(i))
         /\ Fitted(i, handle_vsqrt_sh(i)) /\ Fitted(i, handle_vrcp_rsqrt_ss(i))
         /\ Fitted(i, handle_vround_ss_sd(i))
         /\ Fitted(i, handle_v_getexp(i)) /\ Fitted(i, handle_v_scalef(i))
         /\ Fitted(i, unary_with_imm(i)) /\ Fitted(i, binary_with_imm(i)) /\ Fitted(i, handle_v_fma(i))
<1> DEFINE N == Need(i.es, 16, 16)
<1>1. /\ i.it \in MathInsns /\ IsScalar(i) /\ i.es \in Nat /\ Known(i) /\ Op(i, 1).w = 16
      /\ Whole64(i, 1) /\ Whole64(i, 2) /\ Source64(i, 3) /\ Reaches(i, 3, i.es)
  <2>1. i.it \in MathInsns /\ IsScalar(i)
    BY DEF IsScalar, MathInsns
  <2>2. i.es \in Nat /\ Known(i)
    BY FineIs DEF Known
  <2>3. i.it \notin FromGpr /\ BytesRead(i) = i.es /\ IsVec(Op(i, 1)) /\ IsVec(Op(i, 2)) /\ Op(i, 1).w = 16
    BY <2>1, MathOperands
  <2> QED BY <2>1, <2>2, <2>3, FineIs
<1>2. N \in Needs /\ N["s"] = i.es /\ N["t"] = 16 /\ N["tmp"] = 16
  BY <1>1, NeedIs
<1> HIDE DEF N
<1>3. /\ Suits(i, N, ScalarSource(i, 3, i.es)) /\ Arg(i, N, Loaded(i, 3, "t", 16))
      /\ \A args : Given(i, N, args) => Given(i, N, MaskedArgs(i, 16, args))
      /\ \A imm : Given(i, N, imm) => Suits(i, N, ScalarIntrinsic(i, imm))
      /\ \A imm : Given(i, N, imm) => Suits(i, N, ScalarBinaryOp(i, imm))
  BY <1>1, <1>2, FitsScalars
<1>4. Given(i, N, <<>>) /\ Given(i, N, <<Imm(4)>>)
  BY ArgsFit, GivenClosed
<1>5. \A c, p : Suits(i, N, p) => Suits(i, N, QASSERT(c, p))
  BY FitsEnds
<1>6. /\ Suits(i, N, handle_v_minmax_ss_sd(i)) /\ Suits(i, N, handle_v_math_sh(i))
      /\ Suits(i, N, handle_vsqrt_sh(i)) /\ Suits(i, N, handle_vrcp_rsqrt_ss(i))
  BY <1>3, <1>4, <1>5 DEF handle_v_minmax_ss_sd, handle_v_math_sh, handle_vsqrt_sh, handle_vrcp_rsqrt_ss
<1>7. /\ Suits(i, N, handle_v_getexp(i)) /\ Suits(i, N, handle_v_scalef(i))
      /\ Suits(i, N, unary_with_imm(i)) /\ Suits(i, N, binary_with_imm(i))
  BY <1>1, <1>3, <1>4, <1>5 DEF handle_v_getexp, handle_v_scalef, unary_with_imm, binary_with_imm
<1>8. Suits(i, N, handle_vround_ss_sd(i))
  BY <1>3, <1>4, <1>5, Fitting DEF handle_vround_ss_sd
<1>9. Suits(i, N, handle_v_fma(i))
  <2> DEFINE o == fma_order(i)
             facs == [m \in 1..3 |-> IF o[m] = 3 THEN Loaded(i, 3, "t", 16) ELSE Vec(i, o[m])]
             args == MaskedArgs(i, 16, facs)
             call == <<ScalarCall(Reg(1, 16), args)>>
  <2>1. o[1] \in {1, 2, 3} /\ o[2] \in {1, 2, 3} /\ o[3] \in {1, 2, 3}
    BY DEF fma_order
  <2>2. Arg(i, N, Vec(i, 1)) /\ Arg(i, N, Vec(i, 2))
    BY <1>1, ArgsFit
  <2> HIDE DEF o
  <2>3. Given(i, N, facs)
    BY <1>3, <2>1, <2>2, FactorsFit
  <2> HIDE DEF facs
  <2>4. Suits(i, N, call)
    BY <1>3, <2>3, FitsEmits
  <2>5. handle_v_fma(i) = ScalarSource(i, 3, i.es) \o call \o FreeIfMem(i, 3, "t") \o MERR_OK
    BY <1>1 DEF handle_v_fma, facs, o
  <2> HIDE DEF call
  <2> QED BY <1>3, <2>4, <2>5, FitsEnds, Fitting
<1> QED BY <1>2, <1>6, <1>7, <1>8, <1>9 DEF Fitted

(* Subtraction in native microcode: the copy of operand 3 has the size of  *)
(* an element.                                                             *)
LEMMA NativeMathFits ==
  ASSUME NEW i, Fine(i), i.it \in ScalarMath \ ScalarUnary
  PROVE  Fitted(i, handle_v_math_ss_sd(i))
<1> DEFINE N == Need(i.es, i.es, 16)
           r == IF Op(i, 3).k = "void" THEN Reg(1, i.es) ELSE Loaded(i, 3, "s", i.es)
           copied == Op(i, 2).r # Op(i, 1).r
           aliased == copied
             /\ (Op(i, 3).k = "void" \/ (IsXmm(Op(i, 3)) /\ Op(i, 3).r = Op(i, 1).r))
           save == IF aliased THEN <<Alloc("t", i.es), Mov(Tmp("t", i.es), r)>> ELSE <<>>
           copy == IF copied THEN <<Mov(Reg(1, 16), Reg(2, 16))>> ELSE <<>>
           second == IF aliased THEN Tmp("t", i.es) ELSE r
           call == <<Call(Reg(1, i.es), <<Reg(2, i.es), second>>)>>
<1>1. i.es \in Nat /\ i.es <= 8 /\ Known(i) /\ Whole64(i, 2) /\ Reaches(i, 3, i.es)
  <2>1. i.es \in Nat /\ i.es <= 8 /\ Known(i)
    BY FineIs DEF Known
  <2>2. i.it \notin FromGpr /\ BytesRead(i) = i.es /\ IsVec(Op(i, 2))
    BY MathOperands DEF MathInsns
  <2> QED BY <2>1, <2>2, FineIs
<1>2. N \in Needs /\ N["s"] = i.es /\ N["t"] = i.es
  BY <1>1, NeedIs
<1> HIDE DEF N
<1>3. Suits(i, N, AvxOpLoader(i, 3, "s")) /\ Arg(i, N, Loaded(i, 3, "s", i.es))
  BY <1>1, <1>2, FitsSource
<1>4. Arg(i, N, r) /\ r.v # "t"
  BY <1>1, <1>3, ArgsFit DEF Loaded, Reg, Tmp
<1> HIDE DEF r, aliased
<1>5. Suits(i, N, save)
  <2>1. N["t"] <= i.es /\ Takes(i, N, r)
    BY <1>1, <1>2, <1>4 DEF Arg
  <2> QED BY <1>4, <2>1, KregsFit, FitsOne
<1>6. Arg(i, N, second) /\ Arg(i, N, Reg(2, i.es)) /\ Takes(i, N, Reg(2, 16))
  BY <1>1, <1>2, <1>4, ArgsFit
<1>7. Suits(i, N, copy) /\ Suits(i, N, call)
  BY <1>6, GivenClosed, FitsEmits, FitsOne
<1>8. handle_v_math_ss_sd(i) = QASSERT(VecRegs12(i), AvxOpLoader(i, 3, "s") \o save \o copy
                                       \o call \o MERR_OK)
  BY DEF handle_v_math_ss_sd, aliased, r
<1> HIDE DEF save, copy, call
<1>9. Suits(i, N, AvxOpLoader(i, 3, "s") \o save \o copy \o call \o MERR_OK)
  BY <1>3, <1>5, <1>7, FitsEnds, Fitting
<1> QED BY <1>2, <1>8, <1>9, FitsEnds DEF Fitted

(* Square roots: the first element of a copy of operand 2 is replaced.     *)
LEMMA RootsFit ==
  ASSUME NEW i, Fine(i)
  PROVE  /\ i.it = "vsqrtss" => Fitted(i, handle_vsqrtss(i))
         /\ i.it = "vsqrtsd" => Fitted(i, handle_vsqrtsd(i))
<1> DEFINE M == Need(4, 16, 16)
           N == Need(8, 16, 16)
<1>1. /\ M \in Needs /\ M["s"] = 4 /\ M["t"] = 16 /\ M["tmp"] = 16
      /\ N \in Needs /\ N["s"] = 8 /\ N["t"] = 16 /\ N["tmp"] = 16
  BY NeedIs
<1> HIDE DEF M, N
<1>2. ASSUME i.it \in ScalarUnary
      PROVE  /\ Known(i) /\ Whole64(i, 1) /\ Whole64(i, 2) /\ Source64(i, 3)
             /\ i.it = "vsqrtss" => Reaches(i, 3, 4)
             /\ i.it = "vsqrtsd" => Reaches(i, 3, 8)
  <2>1. i.it \in MathInsns
    BY <1>2 DEF ScalarUnary, ScalarMath, MathInsns
  <2>2. /\ i.it \notin FromGpr /\ IsVec(Op(i, 1))
        /\ IsVec(Op(i, 2)) \/ i.it \in PackedUnary \union PackedUnaryImm
    BY <2>1, MathOperands
  <2>3. i.it \notin PackedUnary \union PackedUnaryImm
    BY <1>2 DEF ScalarUnary, PackedUnary, PackedUnaryImm
  <2> QED BY <2>1, <2>2, <2>3, MathOperands, FineIs
<1>3. ASSUME i.it = "vsqrtss" PROVE Suits(i, M, handle_vsqrtss(i))
  <2>1. Known(i) /\ Whole64(i, 2) /\ Reaches(i, 3, 4)
    BY <1>2, <1>3 DEF ScalarUnary
  <2>2. Suits(i, M, AvxOpLoader(i, 3, "s")) /\ Arg(i, M, Loaded(i, 3, "s", 4))
    BY <1>1, <2>1, FitsSource
  <2>3. Suits(i, M, <<Alloc("tmp", 16), Mov(Tmp("tmp", 16), Reg(2, 16))>>)
    <3>1. M["tmp"] <= 16 /\ Arg(i, M, Reg(2, 16))
      BY <1>1, <2>1, ArgsFit
    <3> QED BY <3>1, KregsFit DEF Arg
  <2>4. /\ Suits(i, M, <<Call(Tmp("tmp", 4), <<Loaded(i, 3, "s", 4)>>)>>)
        /\ Suits(i, M, <<Mov(Reg(1, 16), Tmp("tmp", 16))>>) /\ Suits(i, M, <<Free("tmp")>>)
    <3>1. Given(i, M, <<Loaded(i, 3, "s", 4)>>) /\ Takes(i, M, Tmp("tmp", 16))
      BY <1>1, <2>2, GivenClosed, ArgsFit
    <3> QED BY <3>1, FitsEmits, FitsEnds
  <2>5. Suits(i, M, <<Alloc("tmp", 16), Mov(Tmp("tmp", 16), Reg(2, 16)),
                     Call(Tmp("tmp", 4), <<Loaded(i, 3, "s", 4)>>),
                     Mov(Reg(1, 16), Tmp("tmp", 16)), Free("tmp")>>)
    BY <2>3, <2>4, FitsLonger
  <2> QED BY <2>2, <2>5, FitsEnds, Fitting DEF handle_vsqrtss
<1>4. ASSUME i.it = "vsqrtsd" PROVE Suits(i, N, handle_vsqrtsd(i))
  <2>1. Known(i) /\ Whole64(i, 1) /\ Whole64(i, 2) /\ Source64(i, 3) /\ Reaches(i, 3, 8)
    BY <1>2, <1>4 DEF ScalarUnary
  <2>2. Suits(i, N, ScalarSource(i, 3, 8)) /\ Arg(i, N, Loaded(i, 3, "t", 16))
    BY <1>1, <2>1, FitsScalars
  <2>3. \A u : Suits(i, N, <<AllocElseFree("tmp", 16, u), Mov(Tmp("tmp", 16), Reg(2, 16))>>)
    <3>1. N["tmp"] <= 16 /\ Arg(i, N, Reg(2, 16))
      BY <1>1, <2>1, ArgsFit
    <3> QED BY <3>1, KregsFit DEF Arg
  <2>4. /\ Suits(i, N, <<Call(Tmp("tmp", 8), <<Loaded(i, 3, "t", 8)>>)>>)
        /\ Suits(i, N, <<Mov(Reg(1, 16), Tmp("tmp", 16))>>) /\ Suits(i, N, <<Free("tmp")>>)
    <3>1. Arg(i, N, Loaded(i, 3, "t", 8))
      BY <1>1, ArgsFit DEF Loaded
    <3>2. Given(i, N, <<Loaded(i, 3, "t", 8)>>) /\ Takes(i, N, Tmp("tmp", 16))
      BY <1>1, <3>1, GivenClosed, ArgsFit
    <3> QED BY <3>2, FitsEmits, FitsEnds
  <2>5. \A u : Suits(i, N, <<AllocElseFree("tmp", 16, u), Mov(Tmp("tmp", 16), Reg(2, 16)),
                            Call(Tmp("tmp", 8), <<Loaded(i, 3, "t", 8)>>),
                            Mov(Reg(1, 16), Tmp("tmp", 16)), Free("tmp")>>)
    BY <2>3, <2>4, FitsLonger
  <2> QED BY <2>2, <2>5, FitsEnds, Fitting DEF handle_vsqrtsd
<1> QED BY <1>1, <1>3, <1>4 DEF Fitted, ScalarUnary

(* The call of an intrinsic, at whatever width its sources were loaded.    *)
LEMMA FitsIntrinsic ==
  ASSUME NEW i, NEW N, Whole64(i, 1)
  PROVE  /\ \A w, args : Given(i, N, args) => Given(i, N, MaskedArgs(i, w, args))
         /\ \A args : Given(i, N, args) => Suits(i, N, Intrinsic(i, args))
BY MaskedArgsFit, FitsEmits, FitsEnds, Fitting DEF Intrinsic

(* Complex products, BF16 and the FP16 scalars without handlers of their   *)
(* own.                                                                    *)
LEMMA OtherMathFits ==
  ASSUME NEW i, Fine(i), i.it \in MathInsns
  PROVE  /\ i.it \notin PackedUnary \union PackedUnaryImm => Fitted(i, handle_v_complex_ph(i))
         /\ i.it \in {"vdpbf16ps", "vcvtne2ps2bf16", "vcvtneps2bf16"} => Fitted(i, handle_v_bf16(i))
         /\ i.it \in ScalarMath => Fitted(i, handle_v_fp16_scalar_misc(i))
<1>1. /\ Known(i) /\ i.it \notin FromGpr /\ Whole64(i, 1) /\ Source64(i, 3)
      /\ i.it \notin PackedUnary \union PackedUnaryImm => Whole64(i, 2)
      /\ Op(i, 1).w \in Nat /\ Op(i, 2).w \in Nat
  BY MathOperands, FineIs DEF Known
<1>2. ASSUME i.it \notin PackedUnary \union PackedUnaryImm PROVE Fitted(i, handle_v_complex_ph(i))
  <2> DEFINE w == Op(i, 1).w
             N == Need(w, w, w)
             args == (IF i.it \in ComplexMulAdd THEN <<Reg(1, w), Reg(2, w)>> ELSE <<Reg(2, w)>>)
                     \o <<VecSource(i, 3, w)>>
             call == <<IF IsScalar(i) THEN ScalarCall(Reg(1, w), MaskedArgs(i, w, args))
                       ELSE Call(Reg(1, w), MaskedArgs(i, w, args))>>
  <2>1. N \in Needs /\ N["s"] = w /\ N["t"] = w
    BY <1>1, NeedIs
  <2> HIDE DEF N
  <2>2. Suits(i, N, add_vec_source(i, 3, w)) /\ Arg(i, N, VecSource(i, 3, w))
    BY <1>1, <2>1, FitsVecSource DEF Source64
  <2>3. Arg(i, N, Reg(1, w)) /\ Arg(i, N, Reg(2, w))
    BY <1>1, <1>2, ArgsFit
  <2>4. Given(i, N, <<Reg(1, w), Reg(2, w)>>) /\ Given(i, N, <<Reg(2, w)>>) /\ Given(i, N, <<VecSource(i, 3, w)>>)
    BY <2>2, <2>3, GivenClosed
  <2>5. Given(i, N, args)
    BY <2>4, GivenClosed
  <2> HIDE DEF args
  <2>6. Suits(i, N, call)
    BY <1>1, <2>5, FitsIntrinsic, FitsEmits
  <2>7. handle_v_complex_ph(i) = add_vec_source(i, 3, w) \o call \o MERR_OK
    BY DEF handle_v_complex_ph, args
  <2> HIDE DEF call
  <2> QED BY <2>1, <2>2, <2>6, <2>7, FitsEnds, Fitting DEF Fitted
<1>3. ASSUME i.it \in {"vdpbf16ps", "vcvtne2ps2bf16"} PROVE Fitted(i, handle_v_bf16(i))
  <2>1. i.it \notin ScalarMath /\ i.it \notin PackedUnary \union PackedUnaryImm
    BY <1>3 DEF ScalarMath, ScalarUnary, ScalarBinary, ScalarBinaryImm, ScalarMulAdds, PackedUnary,
                PackedUnaryImm
  <2> DEFINE w == Op(i, 1).w
             N == Need(w, w, w)
  <2>2. N \in Needs /\ Plain(i, N, w)
    BY <2>1, PackedFits
  <2> HIDE DEF N
  <2>3. /\ Suits(i, N, accumulate(i)) /\ Suits(i, N, AvxOpLoader(i, 2, "s"))
        /\ Given(i, N, <<>>) => Suits(i, N, Binary(i, <<>>))
    BY <1>1, <2>1, <2>2, FitsPlain
  <2>4. Suits(i, N, AvxOpLoader(i, 2, "s") \o Binary(i, <<>>))
    BY <2>3, GivenClosed, Fitting
  <2> QED BY <1>3, <2>2, <2>3, <2>4 DEF handle_v_bf16, Fitted
<1>4. ASSUME i.it = "vcvtneps2bf16" PROVE Fitted(i, handle_v_bf16(i))
  <2> DEFINE w == Op(i, 2).w
             N == Need(w, w, w)
  <2>1. N \in Needs /\ N["s"] = w
    BY <1>1, NeedIs
  <2> HIDE DEF N
  <2>2. Suits(i, N, AvxOpLoader(i, 2, "s")) /\ Arg(i, N, Loaded(i, 2, "s", w))
    BY <1>1, <2>1, FitsSource, FineIs
  <2>3. Suits(i, N, AvxOpLoader(i, 2, "s") \o Intrinsic(i, <<Loaded(i, 2, "s", w)>>))
    BY <1>1, <2>2, GivenClosed, FitsIntrinsic, Fitting
  <2> QED BY <1>4, <2>1, <2>3 DEF handle_v_bf16, Fitted
<1>5. ASSUME i.it \in ScalarMath PROVE Fitted(i, handle_v_fp16_scalar_misc(i))
  <2> DEFINE N == Need(16, 16, 16)
             imm == IF i.it \in FP16Imm /\ Op(i, 4).k = "imm" THEN <<Imm(4)>> ELSE <<>>
             call == <<ScalarCall(Reg(1, 16),
                         MaskedArgs(i, 16, <<Reg(2, 16), VecSource(i, 3, 16)>> \o imm))>>
  <2>1. N \in Needs /\ N["s"] = 16 /\ N["t"] = 16
    BY NeedIs
  <2> HIDE DEF N
  <2>2. Suits(i, N, add_vec_source(i, 3, 16)) /\ Arg(i, N, VecSource(i, 3, 16))
    BY <1>1, <2>1, FitsVecSource DEF Source64
  <2>3. Arg(i, N, Reg(2, 16)) /\ Arg(i, N, Imm(4))
    <3>1. Whole64(i, 2)
      BY <1>5, MathOperands, FineIs
    <3> QED BY <3>1, ArgsFit
  <2>4. Given(i, N, imm) /\ Given(i, N, <<Reg(2, 16), VecSource(i, 3, 16)>>)
    BY <2>2, <2>3, GivenClosed
  <2> HIDE DEF imm
  <2>5. Suits(i, N, call)
    BY <1>1, <2>4, GivenClosed, FitsIntrinsic, FitsEmits
  <2>6. handle_v_fp16_scalar_misc(i) = add_vec_source(i, 3, 16) \o call \o MERR_OK
    BY DEF handle_v_fp16_scalar_misc, imm
  <2> HIDE DEF call
  <2> QED BY <2>1, <2>2, <2>5, <2>6, FitsEnds, Fitting DEF Fitted
<1> QED BY <1>2, <1>3, <1>4, <1>5

(* Arithmetic, as apply() gives it out.                                    *)
LEMMA MathFits ==
  ASSUME NEW i, Fine(i), i.it \in MathInsns
  PROVE  Fitted(i, apply_math(i))
<1> DEFINE w == Op(i, 1).w
           N == Need(w, w, w)
           unary == PackedUnary \union PackedUnaryImm
<1>1. ASSUME i.it \notin ScalarMath
      PROVE  /\ Fitted(i, handle_v_abs(i)) /\ Fitted(i, handle_vsqrt_ps_pd(i))
             /\ Fitted(i, handle_v_sqrt_ph(i)) /\ Fitted(i, handle_vrcp_rsqrt(i))
             /\ Fitted(i, handle_vround(i)) /\ Fitted(i, handle_v_getexp(i)) /\ Fitted(i, unary_with_imm(i))
             /\ i.it \notin unary =>
                  /\ Fitted(i, handle_vsad(i)) /\ Fitted(i, handle_v_sign(i))
                  /\ Fitted(i, handle_v_math_ph(i)) /\ Fitted(i, handle_vaddsubps_pd(i))
                  /\ Fitted(i, handle_v_math_p(i)) /\ Fitted(i, handle_v_hmath(i))
                  /\ Fitted(i, handle_v_dot(i)) /\ Fitted(i, accumulate(i))
                  /\ Fitted(i, handle_v_scalef(i)) /\ Fitted(i, binary_with_imm(i))
                  /\ Fitted(i, handle_v_fma(i))
  <2>1. /\ N \in Needs /\ Plain(i, N, w) /\ N["t"] = w /\ N["tmp"] = w
        /\ i.it \notin unary => Whole64(i, 2)
    BY <1>1, PackedFits
  <2>2. ~IsScalar(i)
    BY <1>1 DEF IsScalar
  <2> HIDE DEF N, unary
  <2> QED BY <2>1, <2>2, PackedMathFits DEF Fitted
<1>2. ASSUME i.it \in ScalarMath \ ScalarUnary
      PROVE  /\ Fitted(i, handle_v_minmax_ss_sd(i)) /\ Fitted(i, handle_v_math_sh(i))
             /\ Fitted(i, handle_vsqrt_sh(i)) /\ Fitted(i, handle_vrcp_rsqrt_ss(i))
             /\ Fitted(i, handle_vround_ss_sd(i))
             /\ Fitted(i, handle_v_getexp(i)) /\ Fitted(i, handle_v_scalef(i))
             /\ Fitted(i, unary_with_imm(i)) /\ Fitted(i, binary_with_imm(i)) /\ Fitted(i, handle_v_fma(i))
             /\ Fitted(i, handle_v_math_ss_sd(i))
  BY <1>2, ScalarMathFits, NativeMathFits
<1>3. /\ Fitted(i, MERR_INSN)
      /\ i.it = "vsqrtss" => Fitted(i, handle_vsqrtss(i))
      /\ i.it = "vsqrtsd" => Fitted(i, handle_vsqrtsd(i))
      /\ i.it \in ScalarMath => Fitted(i, handle_v_fp16_scalar_misc(i))
      /\ i.it \notin unary => Fitted(i, handle_v_complex_ph(i))
      /\ i.it \in {"vdpbf16ps", "vcvtne2ps2bf16", "vcvtneps2bf16"} => Fitted(i, handle_v_bf16(i))
  <2>1. Fitted(i, MERR_INSN)
    BY FitsEnds, NeedIs DEF Fitted
  <2> QED BY <2>1, RootsFit, OtherMathFits
<1>4. /\ i.it \in {"vpsadbw", "vmpsadbw", "vsubph", "vpsignw", "vpmadd52luq", "vpdpbusd", "vhaddps",
                   "vdpps", "vaddsubps"} \union packed_math =>
           i.it \notin ScalarMath /\ i.it \notin unary
      /\ i.it \in {"vpabsd", "vrcp14ps", "vroundps", "vrndscaleph", "vsqrtph", "vsqrtps"} =>
           i.it \notin ScalarMath
      /\ i.it \in {"vsubss", "vsubsd", "vsubsh", "vminsd", "vsqrtsh", "vrcpss", "vrsqrt14sd", "vroundsd",
                   "vrndscaless"} => i.it \in ScalarMath \ ScalarUnary
      /\ i.it \in {"vrcpsh", "vreducesh"} => i.it \in ScalarMath
      /\ i.it \in {"vfmulcph", "vfmulcsh"} \union ComplexMulAdd => i.it \notin unary
  BY DEF ScalarMath, ScalarUnary, ScalarBinary, ScalarBinaryImm, ScalarMulAdds, PackedUnary,
         PackedUnaryImm, packed_math, WideProducts, ComplexMulAdd
<1>5. /\ i.it \in MulAdds \union fp16_fma \union Fixups
                  \union {"vscalefps", "vscalefsd", "vrangepd", "vrangesd"} =>
           i.it \in ScalarMath \ ScalarUnary \/ (i.it \notin ScalarMath /\ i.it \notin unary)
      /\ i.it \in {"vgetexppd", "vgetexpss", "vgetmantps", "vgetmantsd", "vreducepd", "vreducess"} =>
           i.it \in ScalarMath \ ScalarUnary \/ i.it \notin ScalarMath
  BY DEF ScalarMath, ScalarUnary, ScalarBinary, ScalarBinaryImm, ScalarMulAdds, PackedUnary,
         PackedUnaryImm, MulAdds, MulAdd132, MulAdd213, MulAdd231, fp16_fma, Fixups
<1> HIDE DEF unary
<1>6. /\ i.it \in {"vpsadbw", "vmpsadbw"} => Fitted(i, handle_vsad(i))
      /\ i.it \in {"vsubss", "vsubsd"} => Fitted(i, handle_v_math_ss_sd(i))
      /\ i.it = "vsubsh" => Fitted(i, handle_v_math_sh(i))
      /\ i.it = "vminsd" => Fitted(i, handle_v_minmax_ss_sd(i))
      /\ i.it \in packed_math => Fitted(i, handle_v_math_p(i))
      /\ i.it = "vsubph" => Fitted(i, handle_v_math_ph(i))
      /\ i.it = "vpabsd" => Fitted(i, handle_v_abs(i))
      /\ i.it = "vpsignw" => Fitted(i, handle_v_sign(i))
      /\ i.it = "vpmadd52luq" => Fitted(i, handle_v_ifma(i))
      /\ i.it = "vpdpbusd" => Fitted(i, handle_v_vnni(i))
      /\ i.it = "vhaddps" => Fitted(i, handle_v_hmath(i))
      /\ i.it = "vdpps" => Fitted(i, handle_v_dot(i))
      /\ i.it = "vrcp14ps" => Fitted(i, handle_vrcp_rsqrt(i))
      /\ i.it \in {"vroundps", "vrndscaleph"} => Fitted(i, handle_vround(i))
      /\ i.it = "vsqrtph" => Fitted(i, handle_v_sqrt_ph(i))
      /\ i.it = "vsqrtsh" => Fitted(i, handle_vsqrt_sh(i))
      /\ i.it = "vsqrtps" => Fitted(i, handle_vsqrt_ps_pd(i))
      /\ i.it \in {"vrcpss", "vrsqrt14sd"} => Fitted(i, handle_vrcp_rsqrt_ss(i))
      /\ i.it \in {"vroundsd", "vrndscaless"} => Fitted(i, handle_vround_ss_sd(i))
      /\ i.it = "vaddsubps" => Fitted(i, handle_vaddsubps_pd(i))
  BY <1>1, <1>2, <1>4 DEF handle_v_ifma, handle_v_vnni
<1>7. /\ i.it \in MulAdds \union fp16_fma => Fitted(i, handle_v_fma(i))
      /\ i.it \in Fixups \union {"vrangepd", "vrangesd"} => Fitted(i, binary_with_imm(i))
      /\ i.it \in {"vscalefps", "vscalefsd"} => Fitted(i, handle_v_scalef(i))
      /\ i.it \in {"vgetexppd", "vgetexpss"} => Fitted(i, handle_v_getexp(i))
      /\ i.it \in {"vgetmantps", "vgetmantsd", "vreducepd", "vreducess"} => Fitted(i, unary_with_imm(i))
  BY <1>1, <1>2, <1>5
<1>8. /\ i.it \in MulAdds \ fp16_fma => Fitted(i, handle_v_fma(i))
      /\ i.it \in fp16_fma => Fitted(i, handle_v_fma_ph(i))
      /\ i.it \in Fixups => Fitted(i, handle_v_fixupimm(i))
      /\ i.it \in {"vrangepd", "vrangesd"} => Fitted(i, handle_v_range(i))
      /\ i.it \in {"vgetmantps", "vgetmantsd"} => Fitted(i, handle_v_getmant(i))
      /\ i.it \in {"vreducepd", "vreducess"} => Fitted(i, handle_v_reduce(i))
      /\ i.it \in {"vrcpsh", "vreducesh"} => Fitted(i, handle_v_fp16_scalar_misc(i))
      /\ i.it \in {"vfmulcph", "vfmulcsh"} \union ComplexMulAdd => Fitted(i, handle_v_complex_ph(i))
  BY <1>3, <1>4, <1>7 DEF handle_v_fma_ph, handle_v_fixupimm, handle_v_range, handle_v_getmant, handle_v_reduce
<1>9. /\ i.it \in {"vscalefps", "vscalefsd"} => Fitted(i, handle_v_scalef(i))
      /\ i.it \in {"vgetexppd", "vgetexpss"} => Fitted(i, handle_v_getexp(i))
      /\ Fitted(i, MERR_INSN)
      /\ i.it = "vsqrtss" => Fitted(i, handle_vsqrtss(i))
      /\ i.it = "vsqrtsd" => Fitted(i, handle_vsqrtsd(i))
      /\ i.it \in {"vdpbf16ps", "vcvtne2ps2bf16", "vcvtneps2bf16"} => Fitted(i, handle_v_bf16(i))
  BY <1>3, <1>7
<1> QED BY <1>6, <1>8, <1>9, SMTT(60) DEF apply_math

(* Moves: their operands.                                                  *)
LEMMA MovOperands ==
  ASSUME NEW i, Fine(i)
  PROVE  /\ Known(i) /\ i.es \in Nat /\ i.es <= 8 /\ \A n : Op(i, n).w \in Nat
         /\ \A n \in 2..4, w \in Nat : w <= 8 /\ w <= BytesRead(i) => Reaches(i, n, w)
         /\ i.it \in ScalarMoves \union Transfers \union Kmovs => BytesRead(i) = i.es
         /\ i.it \in ScalarMoves \union Gathers \union Scatters \union WholeMoveInsns \union PackInsns =>
              i.it \notin FromGpr
         /\ i.it \in PackInsns => BytesRead(i) = Op(i, 1).w
<1>1. Known(i) /\ i.es \in Nat /\ i.es <= 8 /\ \A n : Op(i, n).w \in Nat
  BY FineIs DEF Known
<1>2. ASSUME NEW n \in 2..4, NEW w \in Nat, w <= 8, w <= BytesRead(i) PROVE Reaches(i, n, w)
  <2>1. n \in DOMAIN i.ops \/ Op(i, n).k = "void"
    BY DEF Op
  <2>2. BytesRead(i) \in Nat
    <3>1. Op(i, 1).w \div 2 \in Nat
      BY <1>1
    <3> QED BY <1>1, <3>1, Zenon DEF BytesRead
  <2>3. IsMem(Op(i, n)) => w <= Op(i, n).w
    BY <1>1, <1>2, <2>1, <2>2 DEF Fine, Sized, IsMem
  <2> QED BY <1>1, <1>2, <2>3 DEF Reaches
<1>3. ASSUME i.it \in ScalarMoves \union Transfers \union Kmovs PROVE BytesRead(i) = i.es
  <2>1. /\ i.it \notin {"vsqrtss", "vcvtss2sd", "vinsertps", "vldmxcsr"}
        /\ i.it \notin {"vsqrtsd", "vcvtsd2ss", "vmwrite"} \union HalfMoves
        /\ i.it \notin Hashes \union {"v4fmaddps", "v4fmaddss", "vbroadcastf32x4", "vbroadcastf128",
                               "vbroadcasti128", "vinsertf128", "vcvtpd2ps", "vcvtpd2dq", "vpclmulqdq"}
        /\ i.it \notin {"vbroadcasti64x4", "vinserti64x4"} /\ i.it # "vpsllw"
    BY <1>3 DEF ScalarMoves, Transfers, Kmovs, HalfMoves, Hashes
  <2> QED BY <1>3, <2>1 DEF BytesRead
<1>4. i.it \in ScalarMoves \union Gathers \union Scatters \union WholeMoveInsns \union PackInsns =>
        i.it \notin FromGpr
  BY DEF ScalarMoves, Gathers, Scatters, WholeMoveInsns, PackInsns, FromGpr, Kmovs, Transfers, VmxInsns,
         IntToScalar
<1>5. ASSUME i.it \in PackInsns PROVE BytesRead(i) = Op(i, 1).w
  <2>1. /\ i.it \notin {"vsqrtss", "vcvtss2sd", "vinsertps", "vldmxcsr"}
        /\ i.it \notin {"vsqrtsd", "vcvtsd2ss", "vmwrite"} \union HalfMoves
        /\ i.it \notin Hashes \union {"v4fmaddps", "v4fmaddss", "vbroadcastf32x4", "vbroadcastf128",
                               "vbroadcasti128", "vinsertf128", "vcvtpd2ps", "vcvtpd2dq", "vpclmulqdq"}
        /\ i.it \notin {"vbroadcasti64x4", "vinserti64x4"} /\ i.it # "vpsllw" /\ i.it # "vmovddup"
    BY <1>5 DEF PackInsns, HalfMoves, Hashes
  <2>2. /\ i.it \notin Scalars \union ScalarMoves \union Transfers \union Kmovs \union ScalarToMask
        /\ i.it \notin ScalarToGpr \union Broadcasts \union Gathers
               \union {"vcomish", "vpinsrb", "vpinsrd"}
        /\ i.it \notin Extends
    BY <1>5 DEF PackInsns, Scalars, ScalarConvert, IntToScalar, ScalarLogic, ScalarMoves, Transfers,
           Kmovs, ScalarToMask, ScalarToGpr, Broadcasts, Gathers, Extends, ScalarMath, ScalarUnary,
           ScalarBinary, ScalarBinaryImm, ScalarMulAdds
  <2> QED BY <2>1, <2>2 DEF BytesRead
<1> QED BY <1>1, <1>2, <1>3, <1>4, <1>5

(* Scalar moves.                                                           *)
LEMMA ScalarMovFits ==
  ASSUME NEW i, Fine(i), i.it \in ScalarMoves
  PROVE  /\ Fitted(i, handle_vmov_ss_sd(i))
         /\ i.it = "vmovsh" => Fitted(i, handle_vmov_sh(i))
<1> DEFINE N == Need(i.es, 16, 16)
<1>1. /\ Known(i) /\ i.es \in Nat /\ Source64(i, 3) /\ Reaches(i, 2, i.es) /\ Reaches(i, 3, i.es) /\ i.b64
      /\ \A n : IsXmm(Op(i, n)) => Whole64(i, n) /\ ~IsMem(Op(i, n))
  BY MovOperands, FineIs DEF Known
<1>2. N \in Needs /\ N["s"] = i.es /\ N["t"] = 16
  BY <1>1, NeedIs
<1> HIDE DEF N
<1>3. /\ Suits(i, N, MERR_OK) /\ Suits(i, N, MERR_INSN) /\ \A v : Suits(i, N, <<Free(v)>>)
      /\ \A c, p : Suits(i, N, p) => Suits(i, N, QASSERT(c, p))
      /\ Suits(i, N, FreeIfMem(i, 3, "t"))
  BY FitsEnds
<1>4. ASSUME IsXmm(Op(i, 1)), IsXmm(Op(i, 2))
      PROVE  /\ Suits(i, N, ScalarSource(i, 3, i.es)) /\ Arg(i, N, Loaded(i, 3, "t", 16))
             /\ Arg(i, N, Reg(2, 16)) /\ Given(i, N, MergeArg(i, 16))
  BY <1>1, <1>2, <1>4, FitsScalars, ArgsFit, MaskedArgsFit
<1>5. Suits(i, N, masked_scalar_move(i))
  <2> DEFINE args == MergeArg(i, 16) \o <<add_argument_mask(NumElements(i)), Reg(2, 16), Loaded(i, 3, "t", 16)>>
  <2>1. ASSUME IsXmm(Op(i, 1)), IsXmm(Op(i, 2))
        PROVE  Suits(i, N, ScalarSource(i, 3, i.es) \o <<ScalarCall(Reg(1, 16), args)>>
                          \o FreeIfMem(i, 3, "t") \o MERR_OK)
    <3>1. Given(i, N, <<add_argument_mask(NumElements(i)), Reg(2, 16), Loaded(i, 3, "t", 16)>>)
      BY <1>4, <2>1, ArgsFit, GivenClosed
    <3>2. Given(i, N, args)
      BY <1>4, <2>1, <3>1, GivenClosed
    <3> HIDE DEF args
    <3> QED BY <1>3, <1>4, <2>1, <3>2, FitsEmits, Fitting
  <2> QED BY <1>3, <2>1 DEF masked_scalar_move
<1>6. IsXmm(Op(i, 2)) => \A w : Suits(i, N, store_operand_hack(i, 1, Reg(2, w)))
  BY <1>1, <1>2, ArgsFit, FitsStore
<1>7. IsMem(Op(i, 2)) => Suits(i, N, AvxOpLoader(i, 2, "s") \o <<Mov(Reg(1, i.es), Tmp("s", i.es))>> \o MERR_OK)
  <2>1. Suits(i, N, AvxOpLoader(i, 2, "s"))
    BY <1>1, <1>2, FitsSource
  <2>2. Takes(i, N, Tmp("s", i.es))
    BY <1>1, <1>2, ArgsFit
  <2> QED BY <1>3, <2>1, <2>2, FitsEmits, Fitting
<1>8. (\A n \in 1..3 : IsXmm(Op(i, n))) =>
        Suits(i, N, <<Alloc("t", 16), Mov(Tmp("t", 16), Reg(2, 16)), Mov(Tmp("t", i.es), Reg(3, i.es)),
                     Mov(Reg(1, 16), Tmp("t", 16)), Free("t")>>)
  <2> SUFFICES ASSUME \A n \in 1..3 : IsXmm(Op(i, n))
               PROVE  Suits(i, N, <<Alloc("t", 16), Mov(Tmp("t", 16), Reg(2, 16)),
                                   Mov(Tmp("t", i.es), Reg(3, i.es)), Mov(Reg(1, 16), Tmp("t", 16)),
                                   Free("t")>>)
    OBVIOUS
  <2>1. Takes(i, N, Reg(2, 16)) /\ Takes(i, N, Reg(3, i.es)) /\ N["t"] <= 16
    BY <1>1, <1>2, ArgsFit
  <2>2. Reg(2, 16).v # "t"
    BY DEF Reg
  <2>3. Suits(i, N, <<Alloc("t", 16), Mov(Tmp("t", 16), Reg(2, 16))>>)
    BY <2>1, <2>2, KregsFit
  <2>4. Takes(i, N, Tmp("t", 16))
    BY <1>2, ArgsFit
  <2>5. /\ Suits(i, N, <<Mov(Tmp("t", i.es), Reg(3, i.es))>>)
        /\ Suits(i, N, <<Mov(Reg(1, 16), Tmp("t", 16))>>)
    BY <2>1, <2>4, FitsEmits
  <2> QED BY <1>3, <2>3, <2>5, FitsLonger
<1>9. Suits(i, N, handle_vmov_ss_sd(i))
  BY <1>3, <1>5, <1>6, <1>7, <1>8, Fitting DEF handle_vmov_ss_sd, QASSERT
<1>10. ASSUME i.it = "vmovsh" PROVE Suits(i, N, handle_vmov_sh(i))
  <2>1. i.es = 2
    BY <1>10 DEF Fine, Sized
  <2>2. ASSUME IsXmm(Op(i, 1)), IsXmm(Op(i, 2))
        PROVE  Suits(i, N, ScalarSource(i, 3, 2)
                 \o <<ScalarCall(Reg(1, 16), <<Reg(2, 16), Loaded(i, 3, "t", 16)>>)>>
                 \o FreeIfMem(i, 3, "t") \o MERR_OK)
    <3>1. Given(i, N, <<Reg(2, 16), Loaded(i, 3, "t", 16)>>)
      BY <1>4, <2>2, GivenClosed
    <3> QED BY <1>3, <1>4, <2>1, <2>2, <3>1, FitsEmits, Fitting
  <2> QED BY <1>3, <1>5, <1>6, <2>2, Fitting DEF handle_vmov_sh, QASSERT
<1> QED BY <1>2, <1>9, <1>10 DEF Fitted

(* To and from general registers.                                          *)
LEMMA TransfersFit ==
  ASSUME NEW i, Fine(i), i.it \in Transfers
  PROVE  /\ Fitted(i, handle_vmov(i))
         /\ i.it = "vmovw" => Fitted(i, handle_vmovw(i))
<1> DEFINE N == Need(i.es, i.es, 16)
<1>1. /\ Known(i) /\ i.es \in Nat /\ i.es <= 8 /\ Reaches(i, 2, i.es) /\ i.b64
      /\ \A n : IsXmm(Op(i, n)) => Whole64(i, n) /\ ~IsMem(Op(i, n))
  BY MovOperands, FineIs DEF Known
<1>2. N \in Needs /\ N["s"] = i.es /\ N["t"] = i.es
  BY <1>1, NeedIs
<1> HIDE DEF N
<1>3. Suits(i, N, MERR_OK) /\ Suits(i, N, MERR_INSN) /\ \A v : Suits(i, N, <<Free(v)>>)
  BY FitsEnds
<1>4. Suits(i, N, AvxOpLoader(i, 2, "s")) /\ Arg(i, N, Loaded(i, 2, "s", i.es))
  BY <1>1, <1>2, FitsSource
<1>5. Suits(i, N, handle_vmov(i))
  <2> DEFINE d == Reg(1, IF i.b64 THEN 32 ELSE 16)
             copy == <<Alloc("t", i.es), Mov(Tmp("t", i.es), Loaded(i, 2, "s", i.es)),
                       Xdu(d, Tmp("t", i.es)), Free("t")>>
             store == <<StoreUnchecked(1, Reg(2, i.es))>>
             move == <<Mov(Reg(1, i.es), Reg(2, i.es))>>
  <2> HIDE DEF d
  <2>1. Suits(i, N, copy)
    <3>1. Loaded(i, 2, "s", i.es).v # "t" /\ N["t"] <= i.es
      BY <1>1, <1>2 DEF Loaded, Tmp, Reg
    <3>2. Takes(i, N, Loaded(i, 2, "s", i.es))
      BY <1>4, ArgsFit
    <3>3. Suits(i, N, <<Alloc("t", i.es), Mov(Tmp("t", i.es), Loaded(i, 2, "s", i.es))>>)
      BY <3>1, <3>2, KregsFit
    <3>4. Takes(i, N, Tmp("t", i.es))
      BY <1>1, <1>2, ArgsFit
    <3>5. Suits(i, N, <<Xdu(d, Tmp("t", i.es))>>)
      BY <3>4, FitsEmits
    <3> QED BY <1>3, <3>3, <3>5, FitsLonger
  <2>2. Suits(i, N, store)
    BY UnsureSteps, Tuples, Fitting
  <2>3. Suits(i, N, move)
    BY <1>1, ArgsFit, FitsEmits
  <2> HIDE DEF copy, store, move
  <2>4. Suits(i, N, AvxOpLoader(i, 2, "s") \o copy \o MERR_OK)
        /\ Suits(i, N, store \o MERR_OK) /\ Suits(i, N, move \o MERR_OK)
    BY <1>3, <1>4, <2>1, <2>2, <2>3, Fitting
  <2>5. handle_vmov(i) = IF IsXmm(Op(i, 1)) THEN AvxOpLoader(i, 2, "s") \o copy \o MERR_OK
                         ELSE QASSERT(IsXmm(Op(i, 2)),
                                (IF IsMem(Op(i, 1)) THEN store ELSE move) \o MERR_OK)
    BY DEF handle_vmov, copy, store, move, d
  <2> QED BY <2>4, <2>5, FitsEnds
<1>6. ASSUME i.it = "vmovw" PROVE Suits(i, N, handle_vmovw(i))
  <2> DEFINE head == IF Masked(i) THEN MergeArg(i, 16) \o <<add_argument_mask(NumElements(i))>> ELSE <<>>
             call == <<Call(Reg(1, 16), head \o <<Loaded(i, 2, "s", 2)>>)>>
  <2>1. i.es = 2
    BY <1>6 DEF Fine, Sized
  <2>2. ASSUME IsXmm(Op(i, 1)) PROVE Suits(i, N, call)
    <3>1. Given(i, N, MergeArg(i, 16)) /\ Given(i, N, <<add_argument_mask(NumElements(i))>>)
      BY <1>1, <2>2, MaskedArgsFit, ArgsFit, GivenClosed
    <3>2. Given(i, N, head)
      BY <3>1, GivenClosed
    <3> HIDE DEF head
    <3>3. Given(i, N, head \o <<Loaded(i, 2, "s", 2)>>)
      BY <1>4, <2>1, <3>2, GivenClosed
    <3> QED BY <3>3, FitsEmits
  <2>3. IsXmm(Op(i, 2)) => Suits(i, N, store_operand_hack(i, 1, Reg(2, 2)))
    BY <1>1, <1>2, ArgsFit, FitsStore
  <2>4. Suits(i, N, <<Mov(Reg(1, 2), Reg(2, 2))>>)
    <3>1. Takes(i, N, Reg(2, 2))
      BY DEF Takes, Reg
    <3> QED BY <3>1, FitsEmits
  <2>5. IsXmm(Op(i, 1)) => handle_vmovw(i) = AvxOpLoader(i, 2, "s") \o call \o MERR_OK
    BY DEF handle_vmovw
  <2> HIDE DEF call
  <2>6. IsXmm(Op(i, 1)) => Suits(i, N, handle_vmovw(i))
    BY <1>3, <1>4, <2>2, <2>5, Fitting
  <2>7. /\ IsXmm(Op(i, 2)) => Suits(i, N, store_operand_hack(i, 1, Reg(2, 2)) \o MERR_OK)
        /\ Suits(i, N, <<Mov(Reg(1, 2), Reg(2, 2))>> \o MERR_OK)
    BY <1>3, <2>3, <2>4, Fitting
  <2>8. ~IsXmm(Op(i, 1)) =>
          handle_vmovw(i) \in {MERR_INSN, <<Mov(Reg(1, 2), Reg(2, 2))>> \o MERR_OK}
            \/ (IsXmm(Op(i, 2)) /\ handle_vmovw(i) = store_operand_hack(i, 1, Reg(2, 2)) \o MERR_OK)
    BY DEF handle_vmovw
  <2> QED BY <1>3, <2>6, <2>7, <2>8
<1> QED BY <1>2, <1>5, <1>6 DEF Fitted

(* An address, and the call that is given it.                              *)
LEMMA FitsAddressed ==
  ASSUME NEW i, NEW N \in Needs, i.b64, NEW n, NEW call, Suits(i, N, <<call>>)
  PROVE  Suits(i, N, <<Address(n, "addr"), call>>)
<1>1. <<Address(n, "addr"), call>> = <<Address(n, "addr")>> \o <<call>>
  OBVIOUS
<1> QED BY <1>1, FitsAddress, Fitting

(* Whole registers.                                                        *)
LEMMA WholeMovesFit ==
  ASSUME NEW i, Fine(i), i.it \in WholeMoveInsns
  PROVE  Fitted(i, handle_v_mov_ps_dq(i))
<1> DEFINE w == IF IsVec(Op(i, 1)) THEN Op(i, 1).w ELSE Op(i, 2).w
           N == Need(w, w, w)
           mask == add_argument_mask(NumElements(i))
           masked1 == <<Call(Reg(1, w), MergeArg(i, w) \o <<mask, Reg(2, w)>>)>>
           masked2 == <<Address(2, "addr"),
                        Call(Reg(1, w), MergeArg(i, w) \o <<mask, Tmp("addr", PtrSize(i))>>)>>
           masked3 == <<Address(1, "addr"), Call(Effect, <<Tmp("addr", PtrSize(i)), mask, Reg(2, w)>>)>>
<1>1. /\ Known(i) /\ w \in Nat /\ w <= 64 /\ i.b64
      /\ \A n : IsVec(Op(i, n)) => Whole64(i, n)
  BY FineIs DEF Known
<1>2. N \in Needs /\ N["s"] = w
  BY <1>1, NeedIs
<1> HIDE DEF w, N, mask
<1>3. /\ Arg(i, N, Tmp("addr", PtrSize(i))) /\ Arg(i, N, mask)
      /\ IsVec(Op(i, 1)) => Given(i, N, MergeArg(i, w))
      /\ \A z : IsVec(Op(i, 2)) => Arg(i, N, Reg(2, z))
      /\ Suits(i, N, MERR_OK) /\ Suits(i, N, MERR_INSN)
      /\ \A c, p : Suits(i, N, p) => Suits(i, N, QASSERT(c, p))
  BY <1>1, <1>2, FitsAddress, ArgsFit, MaskedArgsFit, FitsEnds DEF mask
<1>4. Suits(i, N, masked_v_mov(i))
  <2>1. IsVec(Op(i, 1)) /\ IsVec(Op(i, 2)) => Suits(i, N, masked1)
    <3> SUFFICES ASSUME IsVec(Op(i, 1)), IsVec(Op(i, 2)) PROVE Suits(i, N, masked1)
      OBVIOUS
    <3>1. Given(i, N, <<mask, Reg(2, w)>>)
      BY <1>3, GivenClosed
    <3> QED BY <1>3, <3>1, GivenClosed, FitsEmits
  <2>2. IsVec(Op(i, 1)) => Suits(i, N, masked2)
    <3> SUFFICES ASSUME IsVec(Op(i, 1)) PROVE Suits(i, N, masked2)
      OBVIOUS
    <3>1. Given(i, N, <<mask, Tmp("addr", PtrSize(i))>>)
      BY <1>3, GivenClosed
    <3>2. Suits(i, N, <<Call(Reg(1, w), MergeArg(i, w) \o <<mask, Tmp("addr", PtrSize(i))>>)>>)
      BY <1>3, <3>1, GivenClosed, FitsEmits
    <3> QED BY <1>1, <1>2, <3>2, FitsAddressed
  <2>3. IsVec(Op(i, 2)) => Suits(i, N, masked3)
    <3> SUFFICES ASSUME IsVec(Op(i, 2)) PROVE Suits(i, N, masked3)
      OBVIOUS
    <3>1. Given(i, N, <<Tmp("addr", PtrSize(i)), mask, Reg(2, w)>>)
      BY <1>3, GivenClosed
    <3>2. Suits(i, N, <<Call(Effect, <<Tmp("addr", PtrSize(i)), mask, Reg(2, w)>>)>>)
      BY <3>1, FitsEmits
    <3> QED BY <1>1, <1>2, <3>2, FitsAddressed
  <2>4. masked_v_mov(i) =
          IF IsVec(Op(i, 1)) /\ IsVec(Op(i, 2)) THEN masked1 \o MERR_OK
          ELSE IF IsVec(Op(i, 1)) THEN QASSERT(IsMem(Op(i, 2)), masked2 \o MERR_OK)
          ELSE IF IsMem(Op(i, 1)) /\ IsVec(Op(i, 2)) THEN masked3 \o MERR_OK
          ELSE MERR_INSN
    BY DEF masked_v_mov, w, mask
  <2> HIDE DEF masked1, masked2, masked3
  <2> QED BY <1>3, <2>1, <2>2, <2>3, <2>4, Fitting
<1> HIDE DEF masked1, masked2, masked3
<1> DEFINE zmove == <<Mov(Reg(1, 64), Reg(2, 64))>>
           zload == make_vector_load_mop(i, 2) \o <<Mov(Reg(1, 64), Deref("addr", 64))>>
           move  == <<Mov(Reg(1, w), Reg(2, w))>>
           load  == load_operand_udt(i, 2, "s", w) \o <<Mov(Reg(1, w), Tmp("s", w))>>
           store == store_operand_hack(i, 1, Reg(2, w))
<1>5. IsVec(Op(i, 2)) => Suits(i, N, zmove) /\ Suits(i, N, move) /\ Suits(i, N, store)
  BY <1>1, <1>2, <1>3, ArgsFit, FitsEmits, FitsStore
<1>6. Suits(i, N, zload)
  <2>1. Suits(i, N, make_vector_load_mop(i, 2)) /\ Takes(i, N, Deref("addr", 64))
    BY <1>1, <1>2, FitsAddress, ArgsFit
  <2> QED BY <2>1, FitsEmits, Fitting
<1>7. Suits(i, N, load)
  <2>1. N["s"] <= w /\ N["s"] <= 64 /\ "s" # "ea"
    BY <1>1, <1>2
  <2>2. Suits(i, N, load_operand_udt(i, 2, "s", w))
    BY <1>2, <2>1, FitsUdtLoad
  <2>3. Takes(i, N, Tmp("s", w))
    BY <1>1, <1>2, ArgsFit
  <2> QED BY <2>2, <2>3, FitsEmits, Fitting
<1>8. handle_v_mov_ps_dq(i) =
        IF Masked(i) THEN masked_v_mov(i)
        ELSE IF IsVec(Op(i, 1)) /\ w = 64
        THEN (IF IsVec(Op(i, 2)) THEN zmove ELSE QASSERT(IsMem(Op(i, 2)), zload)) \o MERR_OK
        ELSE IF IsVec(Op(i, 1))
        THEN (IF IsVec(Op(i, 2)) THEN move ELSE QASSERT(IsMem(Op(i, 2)), load)) \o MERR_OK
        ELSE IF IsMem(Op(i, 1)) /\ IsVec(Op(i, 2)) THEN store \o MERR_OK
        ELSE MERR_INSN
  BY DEF handle_v_mov_ps_dq, w
<1> HIDE DEF zmove, zload, move, load, store
<1> QED BY <1>2, <1>3, <1>4, <1>5, <1>6, <1>7, <1>8, Fitting DEF Fitted

(* Compress and expand.                                                    *)
LEMMA PacksFit ==
  ASSUME NEW i, Fine(i), i.it \in PackInsns
  PROVE  /\ Fitted(i, handle_v_compress(i))
         /\ i.it \in {"vexpandps", "vpexpandw"} => Fitted(i, handle_v_expand(i))
<1>1. /\ Known(i) /\ i.b64 /\ \A n : Op(i, n).w \in Nat
      /\ Reaches(i, 2, Op(i, 1).w)
      /\ \A n : IsVec(Op(i, n)) => Whole64(i, n)
  BY MovOperands, FineIs DEF Known
<1>2. Fitted(i, handle_v_compress(i))
  <2> DEFINE w == IF IsVec(Op(i, 1)) THEN Op(i, 1).w ELSE Op(i, 2).w
             N == Need(w, w, w)
             mask == add_argument_mask(w \div i.es)
             load == <<Call(Reg(1, w), MergeArg(i, w) \o <<mask, Loaded(i, 2, "s", w)>>)>>
             store == <<Address(1, "addr"), Call(Effect, <<Tmp("addr", PtrSize(i)), mask, Reg(2, w)>>)>>
  <2>1. N \in Needs /\ N["s"] = w
    BY <1>1, NeedIs
  <2> HIDE DEF N
  <2>2. IsVec(Op(i, 1)) => /\ Suits(i, N, AvxOpLoader(i, 2, "s")) /\ Arg(i, N, Loaded(i, 2, "s", w))
                           /\ Given(i, N, MergeArg(i, w))
    BY <1>1, <2>1, FitsSource, MaskedArgsFit
  <2>3. Arg(i, N, Tmp("addr", PtrSize(i))) /\ Arg(i, N, mask) /\ (IsVec(Op(i, 2)) => Arg(i, N, Reg(2, w)))
    BY <1>1, <2>1, FitsAddress, ArgsFit
  <2> HIDE DEF w, mask
  <2>4. IsVec(Op(i, 1)) => Suits(i, N, load)
    <3> SUFFICES ASSUME IsVec(Op(i, 1)) PROVE Suits(i, N, load)
      OBVIOUS
    <3>1. Given(i, N, <<mask, Loaded(i, 2, "s", w)>>)
      BY <2>2, <2>3, GivenClosed
    <3> QED BY <2>2, <3>1, GivenClosed, FitsEmits
  <2>5. IsVec(Op(i, 2)) => Suits(i, N, store)
    <3> SUFFICES ASSUME IsVec(Op(i, 2)) PROVE Suits(i, N, store)
      OBVIOUS
    <3>1. Given(i, N, <<Tmp("addr", PtrSize(i)), mask, Reg(2, w)>>)
      BY <2>3, GivenClosed
    <3>2. Suits(i, N, <<Call(Effect, <<Tmp("addr", PtrSize(i)), mask, Reg(2, w)>>)>>)
      BY <3>1, FitsEmits
    <3> QED BY <1>1, <2>1, <3>2, FitsAddressed
  <2>6. handle_v_compress(i) =
          IF ~Masked(i) THEN MERR_INSN
          ELSE IF IsVec(Op(i, 1)) THEN AvxOpLoader(i, 2, "s") \o load \o MERR_OK
          ELSE IF IsMem(Op(i, 1)) /\ IsVec(Op(i, 2)) THEN store \o MERR_OK
          ELSE MERR_INSN
    BY DEF handle_v_compress, w, mask
  <2> HIDE DEF load, store
  <2> QED BY <2>1, <2>2, <2>4, <2>5, <2>6, FitsEnds, Fitting DEF Fitted
<1>3. ASSUME i.it \in {"vexpandps", "vpexpandw"} PROVE Fitted(i, handle_v_expand(i))
  <2> DEFINE w == Op(i, 1).w
             N == Need(w, w, w)
             mask == add_argument_mask(w \div i.es)
             load == <<Address(2, "addr"),
                       Call(Reg(1, w), MergeArg(i, w) \o <<mask, Tmp("addr", PtrSize(i))>>)>>
             move == <<Call(Reg(1, w), MergeArg(i, w) \o <<mask, Reg(2, w)>>)>>
  <2>1. N \in Needs
    BY <1>1, NeedIs
  <2> HIDE DEF N
  <2>2. Whole64(i, 1)
    BY <1>1, <1>3 DEF Fine, Decoded
  <2>3. Given(i, N, MergeArg(i, w))
    BY <2>2, MaskedArgsFit
  <2>4. Arg(i, N, Tmp("addr", PtrSize(i))) /\ Arg(i, N, mask) /\ (IsVec(Op(i, 2)) => Arg(i, N, Reg(2, w)))
    BY <1>1, <2>1, FitsAddress, ArgsFit
  <2> HIDE DEF w, mask
  <2>5. Suits(i, N, load)
    <3>1. Given(i, N, <<mask, Tmp("addr", PtrSize(i))>>)
      BY <2>4, GivenClosed
    <3>2. Suits(i, N, <<Call(Reg(1, w), MergeArg(i, w) \o <<mask, Tmp("addr", PtrSize(i))>>)>>)
      BY <2>3, <3>1, GivenClosed, FitsEmits
    <3> QED BY <1>1, <2>1, <3>2, FitsAddressed
  <2>6. IsVec(Op(i, 2)) => Suits(i, N, move)
    <3> SUFFICES ASSUME IsVec(Op(i, 2)) PROVE Suits(i, N, move)
      OBVIOUS
    <3>1. Given(i, N, <<mask, Reg(2, w)>>)
      BY <2>4, GivenClosed
    <3> QED BY <2>3, <3>1, GivenClosed, FitsEmits
  <2>7. handle_v_expand(i) =
          IF ~Masked(i) THEN MERR_INSN
          ELSE IF IsMem(Op(i, 2)) THEN load \o MERR_OK
          ELSE IF IsVec(Op(i, 2)) THEN move \o MERR_OK ELSE MERR_INSN
    BY DEF handle_v_expand, w, mask
  <2> HIDE DEF load, move
  <2> QED BY <2>1, <2>5, <2>6, <2>7, FitsEnds, Fitting DEF Fitted
<1> QED BY <1>2, <1>3

(* Gather and scatter: the base register as a 64-bit value.                *)
LEMMA FitsBase ==
  ASSUME NEW i, NEW N \in Needs, i.b64, NEW n
  PROVE  Suits(i, N, BaseSteps(i, n)) /\ Arg(i, N, BaseArg(i, n)) /\ Suits(i, N, FreeBase(i, n))
<1>1. N["base"] = 8 /\ PtrSize(i) = 8
  BY NeedsAre DEF PtrSize
<1>2. Arg(i, N, Reg(n, 8)) /\ Arg(i, N, Tmp("base", 8))
  BY <1>1, ArgsFit
<1>3. Suits(i, N, <<Alloc("base", 8), Call(Tmp("base", 8), <<Reg(n, 8)>>)>>)
  <2>1. TakesAll(i, N, <<Reg(n, 8)>>)
    BY <1>2, GivenClosed
  <2>2. \A j \in 1..Len(<<Reg(n, 8)>>) : <<Reg(n, 8)>>[j].v # "base"
    <3>1. \A s : s.v # "base" => \A j \in 1..Len(<<s>>) : <<s>>[j].v # "base"
      BY Tuples
    <3>2. Reg(n, 8).v # "base"
      BY DEF Reg
    <3> QED BY <3>1, <3>2
  <2>3. N["base"] <= 8
    BY <1>1
  <2> QED BY <2>1, <2>2, <2>3, KregsFit
<1>4. Suits(i, N, BaseSteps(i, n)) /\ Suits(i, N, FreeBase(i, n))
  BY <1>3, FitsEnds DEF BaseSteps, FreeBase
<1> QED BY <1>1, <1>2, <1>4 DEF BaseArg

(* Four arguments, two by two.                                             *)
LEMMA GivenFour ==
  ASSUME NEW i, NEW N, NEW a, NEW b, NEW c, NEW d, Given(i, N, <<a, b>>), Given(i, N, <<c, d>>)
  PROVE  Given(i, N, <<a, b, c, d>>)
<1>1. <<a, b, c, d>> = <<a, b>> \o <<c, d>>
  OBVIOUS
<1> QED BY <1>1, GivenClosed

(* Gather and scatter, through the base register and a vector of indices.  *)
LEMMA GathersFit ==
  ASSUME NEW i, Fine(i)
  PROVE  /\ i.it \in Gathers => Fitted(i, handle_v_gather(i))
         /\ i.it \in Scatters => Fitted(i, handle_v_scatter(i))
<1> DEFINE N == Need(0, 0, 0)
<1>1. /\ N \in Needs /\ i.b64
      /\ \A n : IsVec(Op(i, n)) => Whole64(i, n)
      /\ i.it \in Gathers \union Scatters => \A n \in 2..4 : Source64(i, n)
      /\ \A m, n : IsMem(Op(i, m)) /\ IsMem(Op(i, n)) => m = n
      /\ ~IsMem(Op(i, 4))
  BY NeedIs, MovOperands, FineIs DEF Known
<1> HIDE DEF N
<1>2. /\ Suits(i, N, MERR_OK) /\ Suits(i, N, MERR_INSN)
      /\ \A n : Suits(i, N, BaseSteps(i, n)) /\ Arg(i, N, BaseArg(i, n)) /\ Suits(i, N, FreeBase(i, n))
  BY <1>1, FitsEnds, FitsBase
<1>3. i.it \in Gathers \union Scatters => Whole64(i, 4)
  BY <1>1 DEF Source64
<1>4. ASSUME i.it \in Gathers PROVE Suits(i, N, handle_v_gather(i))
  <2> DEFINE w == Op(i, 1).w
             index == Reg(4, IndexSize(i, w))
             mask == add_argument_mask(w \div i.es)
             args == IF i.mask = "merge" THEN <<Reg(1, w), mask, index, BaseArg(i, 2)>>
                     ELSE <<Reg(1, w), BaseArg(i, 2), index, Reg(3, w)>>
  <2>1. IsVec(Op(i, 1)) /\ IsMem(Op(i, 2)) /\ i.mask # "zero"
    BY <1>4 DEF Fine, Sized, VecFirst, Encodable
  <2>2. Whole64(i, 1) /\ Whole64(i, 3)
    <3>1. ~IsMem(Op(i, 3))
      BY <1>1, <2>1
    <3> QED BY <1>1, <1>4, <2>1, <3>1 DEF Source64
  <2>3. Arg(i, N, Reg(1, w)) /\ Arg(i, N, index) /\ Arg(i, N, Reg(3, w)) /\ Arg(i, N, mask)
    BY <1>3, <1>4, <2>2, ArgsFit
  <2> HIDE DEF w, index, mask
  <2>4. Given(i, N, <<Reg(1, w), mask>>) /\ Given(i, N, <<Reg(1, w), BaseArg(i, 2)>>)
        /\ Given(i, N, <<index, BaseArg(i, 2)>>) /\ Given(i, N, <<index, Reg(3, w)>>)
    BY <1>2, <2>3, GivenClosed
  <2>6. Given(i, N, <<Reg(1, w), mask, index, BaseArg(i, 2)>>)
        /\ Given(i, N, <<Reg(1, w), BaseArg(i, 2), index, Reg(3, w)>>)
    BY <2>4, GivenFour
  <2>7. Given(i, N, args)
    BY <2>6
  <2>8. handle_v_gather(i) = BaseSteps(i, 2) \o <<>> \o <<Call(Reg(1, w), args)>>
                             \o FreeBase(i, 2) \o MERR_OK
    BY <2>1 DEF handle_v_gather, w, index, mask
  <2> HIDE DEF args
  <2> QED BY <1>2, <2>7, <2>8, FitsEmits, FitsEnds, Fitting
<1>5. ASSUME i.it \in Scatters PROVE Suits(i, N, handle_v_scatter(i))
  <2> DEFINE w == Op(i, 2).w
             index == Reg(4, IndexSize(i, w))
             mask == add_argument_mask(w \div i.es)
             args == <<BaseArg(i, 1), mask, index, Reg(2, w)>>
  <2>1. Arg(i, N, index) /\ Arg(i, N, mask) /\ (IsVec(Op(i, 2)) => Arg(i, N, Reg(2, w)))
    BY <1>1, <1>3, <1>5, ArgsFit
  <2> HIDE DEF w, index, mask
  <2>2. args = <<BaseArg(i, 1), mask>> \o <<index, Reg(2, w)>>
    OBVIOUS
  <2>3. IsVec(Op(i, 2)) => Given(i, N, args)
    BY <1>2, <2>1, <2>2, GivenClosed
  <2>4. handle_v_scatter(i) =
          IF ~IsMem(Op(i, 1)) \/ ~IsVec(Op(i, 2)) \/ ~Masked(i) THEN MERR_INSN
          ELSE BaseSteps(i, 1) \o <<Call(Effect, args)>> \o FreeBase(i, 1) \o MERR_OK
    BY DEF handle_v_scatter, w, index, mask
  <2> HIDE DEF args
  <2> QED BY <1>2, <2>3, <2>4, FitsEmits, Fitting
<1> QED BY <1>1, <1>4, <1>5 DEF Fitted

(* Opmasks. A vector, a mask and the opmask it goes to.                    *)
LEMMA MaskOperands ==
  ASSUME NEW i, Fine(i), i.it \in IntoMask
  PROVE  Known(i) /\ i.b64 /\ Source64(i, 2) /\ Source64(i, 3) /\ get_vector_size(Op(i, 2)) \in Nat
<1>1. i.it \notin FromGpr
  BY DEF IntoMask, CompareToMask, TestToMask, ClassToMask, SignsToMask, Intersects, FromGpr, Kmovs,
         Transfers, VmxInsns, IntToScalar
<1> QED BY <1>1, FineIs DEF Known, get_vector_size

(* Comparisons, tests and classifications into an opmask.                  *)
LEMMA IntoMaskFits ==
  ASSUME NEW i, Fine(i), i.it \in IntoMask
  PROVE  /\ Fitted(i, handle_v_cmp_to_mask(i)) /\ Fitted(i, handle_v_2src_to_mask(i))
         /\ Fitted(i, handle_v_fpclass_to_mask(i)) /\ Fitted(i, handle_v_movx2m(i))
         /\ Fitted(i, handle_v_p2intersect(i))
<1>1. Known(i) /\ i.b64 /\ Source64(i, 2) /\ Source64(i, 3) /\ get_vector_size(Op(i, 2)) \in Nat
  BY MaskOperands
<1>2. ASSUME NEW z \in Nat, NEW n
      PROVE  LET one == VecSource(i, 2, z)
                 two == VecSource(i, 3, z)
             IN  /\ Fitted(i, add_vec_source(i, 2, z) \o add_vec_source(i, 3, z)
                              \o finish_mask_result(MaskArg(i) \o <<one, two>>, n))
                 /\ Fitted(i, add_vec_source(i, 2, z) \o finish_mask_result(MaskArg(i) \o <<one>>, n))
                 /\ Fitted(i, add_vec_source(i, 2, z) \o finish_mask_result(<<one>>, n))
                 /\ Fitted(i, add_vec_source(i, 2, z) \o add_vec_source(i, 3, z)
                              \o <<Call(Effect, <<one, two>>)>> \o MERR_OK)
  <2> DEFINE k == kmask_type_for(n)
             N == Need(z, z, k)
             one == VecSource(i, 2, z)
             two == VecSource(i, 3, z)
  <2>1. k \in Nat
    BY DEF kmask_type_for, MaskSize
  <2>2. N \in Needs /\ N["s"] = z /\ N["t"] = z /\ N["tmp"] = k
    BY <2>1, NeedIs
  <2> HIDE DEF N, k
  <2>3. /\ Suits(i, N, add_vec_source(i, 2, z)) /\ Arg(i, N, one)
        /\ Suits(i, N, add_vec_source(i, 3, z)) /\ Arg(i, N, two)
    BY <1>1, <2>2, FitsVecSource DEF Source64
  <2> HIDE DEF one, two
  <2>4. Given(i, N, MaskArg(i)) /\ Given(i, N, <<one, two>>) /\ Given(i, N, <<one>>)
    BY <2>3, GivenClosed, ArgsFit DEF MaskArg
  <2>5. Given(i, N, MaskArg(i) \o <<one, two>>) /\ Given(i, N, MaskArg(i) \o <<one>>)
    BY <2>4, GivenClosed
  <2>6. ASSUME NEW args, Given(i, N, args) PROVE Suits(i, N, finish_mask_result(args, n))
    <3>1. Suits(i, N, <<Alloc("tmp", k), Call(Tmp("tmp", k), args)>>) /\ Suits(i, N, emit_write_call(1, "tmp", k))
      BY <2>2, <2>6, FitsIntoKreg
    <3> QED BY <3>1, FitsEnds, Fitting DEF finish_mask_result, k
  <2>7. Suits(i, N, <<Call(Effect, <<one, two>>)>>)
    BY <2>4, FitsEmits
  <2>8. /\ Suits(i, N, add_vec_source(i, 2, z) \o add_vec_source(i, 3, z)
                      \o finish_mask_result(MaskArg(i) \o <<one, two>>, n))
        /\ Suits(i, N, add_vec_source(i, 2, z) \o finish_mask_result(MaskArg(i) \o <<one>>, n))
        /\ Suits(i, N, add_vec_source(i, 2, z) \o finish_mask_result(<<one>>, n))
        /\ Suits(i, N, add_vec_source(i, 2, z) \o add_vec_source(i, 3, z)
                      \o <<Call(Effect, <<one, two>>)>> \o MERR_OK)
    BY <2>3, <2>4, <2>5, <2>6, <2>7, FitsEnds, Fitting
  <2> QED BY <2>2, <2>8 DEF Fitted, one, two
<1> DEFINE size == get_vector_size(Op(i, 2))
<1>3. size \in Nat /\ (IF i.it \in ScalarToMask THEN 16 ELSE size) \in Nat
  BY <1>1
<1>4. Fitted(i, handle_v_cmp_to_mask(i)) /\ Fitted(i, handle_v_fpclass_to_mask(i))
  BY <1>2, <1>3 DEF handle_v_cmp_to_mask, handle_v_fpclass_to_mask
<1>5. Fitted(i, handle_v_2src_to_mask(i)) /\ Fitted(i, handle_v_movx2m(i))
      /\ Fitted(i, handle_v_p2intersect(i))
  BY <1>2, <1>3 DEF handle_v_2src_to_mask, handle_v_movx2m, handle_v_p2intersect
<1> QED BY <1>4, <1>5

(* Opmasks to vectors, and among themselves.                               *)
LEMMA MaskToVecFits ==
  ASSUME NEW i, Fine(i)
  PROVE  Fitted(i, handle_v_mask_to_vec(i)) /\ Fitted(i, handle_v_broadcastm(i))
<1> DEFINE w == Op(i, 1).w
           M == Need(w, w, w)
<1>1. Known(i) /\ w \in Nat
  BY MovOperands, FineIs DEF Known
<1>2. M \in Needs /\ M["tmp"] = w
  BY <1>1, NeedIs
<1> HIDE DEF M
<1>3. \A n : Given(i, M, <<add_argument_mask(n)>>)
  BY ArgsFit, GivenClosed
<1>4. \A n : Suits(i, M, <<Call(Reg(1, w), <<add_argument_mask(n)>>)>> \o MERR_OK)
  BY <1>3, FitsEmits, FitsEnds, Fitting
<1>5. \A n : Suits(i, M, CallIntoVec(i, w, <<add_argument_mask(n)>>) \o MERR_OK)
  BY <1>2, <1>3, FitsIntoVec, FitsEnds, Fitting
<1> QED BY <1>1, <1>2, <1>4, <1>5 DEF handle_v_mask_to_vec, handle_v_broadcastm, Fitted

(* Arithmetic on opmasks, and moves of them.                               *)
LEMMA OpmasksFit ==
  ASSUME NEW i, Fine(i)
  PROVE  Fitted(i, handle_k_alu(i)) /\ (i.it \in Kmovs => Fitted(i, handle_kmov(i)))
<1>1. Known(i) /\ i.b64 /\ i.es \in Nat /\ i.es <= 8 /\ Op(i, 1).w \in Nat
  BY MovOperands, FineIs DEF Known
<1> DEFINE N == Need(i.es, i.es, i.es)
<1>3. N \in Needs /\ N["s"] = i.es /\ N["tmp"] = i.es
      /\ i.es <= N["s"] /\ i.es <= N["tmp"] /\ N["tmp"] <= i.es
  BY <1>1, NeedIs
<1> HIDE DEF N
<1>4. \A n : Arg(i, N, Reg(n, i.es))
  BY <1>1, ArgsFit
<1>5. Suits(i, N, MERR_OK) /\ \A n : Suits(i, N, emit_write_call(n, "tmp", i.es))
  BY <1>1, <1>3, FitsEnds, FitsEmits
<1>6. Suits(i, N, handle_k_alu(i))
  <2> DEFINE args == IF i.it \in UnaryMaskOps THEN <<Reg(2, i.es)>> ELSE <<Reg(2, i.es), Reg(3, i.es)>>
  <2>1. Given(i, N, args)
    BY <1>4, GivenClosed
  <2>2. handle_k_alu(i) = <<Alloc("tmp", i.es), Call(Tmp("tmp", i.es), args)>>
                          \o emit_write_call(1, "tmp", i.es) \o MERR_OK
    BY DEF handle_k_alu
  <2> HIDE DEF args
  <2> QED BY <1>3, <1>5, <2>1, <2>2, FitsIntoKreg, Fitting
<1>7. ASSUME i.it \in Kmovs PROVE Suits(i, N, handle_kmov(i))
  <2> DEFINE val == IF Op(i, 2).k = "k" THEN Tmp("tmp", i.es) ELSE Loaded(i, 2, "s", i.es)
             get == IF Op(i, 2).k = "k" THEN <<Alloc("tmp", i.es), Mov(Tmp("tmp", i.es), Reg(2, i.es))>>
                    ELSE AvxOpLoader(i, 2, "s")
             put == IF IsMem(Op(i, 1)) THEN store_operand_hack(i, 1, val)
                    ELSE IF Op(i, 1).k = "k" /\ val.at = "tmp" THEN emit_write_call(1, val.v, i.es)
                    ELSE <<Mov(Reg(1, i.es), val)>>
  <2>1. Reaches(i, 2, i.es)
    <3>1. BytesRead(i) = i.es
      BY <1>7, MovOperands
    <3> QED BY <1>1, <3>1, MovOperands
  <2>2. Suits(i, N, AvxOpLoader(i, 2, "s")) /\ Takes(i, N, Loaded(i, 2, "s", i.es))
    BY <1>1, <1>3, <2>1, FitsSource, ArgsFit
  <2>3. Takes(i, N, Tmp("tmp", i.es)) /\ Reg(2, i.es).v # "tmp" /\ N["tmp"] <= i.es
    BY <1>1, <1>3, ArgsFit DEF Reg
  <2>4. Suits(i, N, get)
    <3>1. Takes(i, N, Reg(2, i.es))
      BY <1>4, ArgsFit
    <3>2. Suits(i, N, <<Alloc("tmp", i.es), Mov(Tmp("tmp", i.es), Reg(2, i.es))>>)
      BY <2>3, <3>1, KregsFit
    <3> QED BY <2>2, <3>2
  <2>5. Takes(i, N, val)
    BY <2>2, <2>3
  <2>6. val.at = "tmp" => i.es <= N[val.v]
    <3>1. val.at = "tmp" => val.v = "tmp" \/ val.v = "s"
      BY DEF Tmp, Loaded, Reg, Imm, MaskImm
    <3> QED BY <1>3, <3>1
  <2> HIDE DEF val, get
  <2>7. val.at = "tmp" => Suits(i, N, emit_write_call(1, val.v, i.es))
    BY <2>6, FitsEmits
  <2>8. Suits(i, N, put)
    BY <1>1, <1>3, <2>5, <2>7, FitsStore, FitsEmits
  <2>9. handle_kmov(i) = get \o put \o MERR_OK
    BY DEF handle_kmov, get, val
  <2> HIDE DEF put
  <2> QED BY <1>5, <2>4, <2>8, <2>9, Fitting
<1>8. \A p : Suits(i, N, p) => Fitted(i, p)
  BY <1>3 DEF Fitted
<1> QED BY <1>6, <1>7, <1>8

(* An intrinsic of operand 2, at a width that it reaches.                  *)
LEMMA ConvertFits ==
  ASSUME NEW i, Fine(i), NEW w \in Nat, Reaches(i, 2, w)
  PROVE  \A dst : Fitted(i, convert(i, w, dst))
<1> DEFINE N == Need(w, w, w)
<1>1. N \in Needs /\ N["s"] = w /\ Known(i)
  BY NeedIs, FineIs
<1> HIDE DEF N
<1>2. Suits(i, N, AvxOpLoader(i, 2, "s")) /\ Given(i, N, <<Loaded(i, 2, "s", w)>>)
  BY <1>1, FitsSource, GivenClosed
<1>3. \A dst : Suits(i, N, convert(i, w, dst))
  BY <1>2, FitsEmits, FitsEnds, Fitting DEF convert
<1> QED BY <1>1, <1>3 DEF Fitted

(* Operands of conversions.                                                *)
LEMMA CvtOperands ==
  ASSUME NEW i, Fine(i), i.it \in ConversionInsns
  PROVE  /\ i.it \notin IntToScalar \union CsrMoves =>
              \A n \in 2..4 : Source64(i, n) /\ Reaches(i, n, Op(i, n).w)
         /\ i.it \notin CsrMoves => \A n \in 2..4, w \in Nat : w <= 8 /\ w <= BytesRead(i) => Reaches(i, n, w)
         /\ i.it \notin IntToScalar \union CsrMoves =>
              \A n \in 2..4, w \in Nat : w <= BytesRead(i) => Reaches(i, n, w)
         /\ i.it \in Extends => IsVec(Op(i, 1)) /\ BytesRead(i) = Op(i, 1).w \div 2
         /\ i.it \in ScalarConvert => IsVec(Op(i, 1)) /\ IsVec(Op(i, 2))
         /\ i.it \in {"vcvtdq2ps", "vcvtps2dq", "vcvttps2udq", "vcvtudq2ps"} => BytesRead(i) = Op(i, 1).w
         /\ i.it \in {"vcvtpd2ps", "vcvtpd2dq"} => BytesRead(i) = 16
         /\ i.it = "vcvtss2sd" => BytesRead(i) = 4
         /\ i.it = "vcvtsd2ss" => BytesRead(i) = 8
<1>1. i.it \notin IntToScalar \union CsrMoves => i.it \notin FromGpr
  BY DEF ConversionInsns, Extends, Narrows, Converts, pmov, ScalarToGpr, ScalarConvert, CsrMoves, FromGpr,
         Kmovs, Transfers, VmxInsns, IntToScalar
<1>2. (i.it \in Extends => IsVec(Op(i, 1))) /\ (i.it \in ScalarConvert => IsVec(Op(i, 1)) /\ IsVec(Op(i, 2)))
  BY DEF Fine, Sized, VecFirst, VecSecond
<1>3. i.it \in Extends => BytesRead(i) = Op(i, 1).w \div 2
  <2> SUFFICES ASSUME i.it \in Extends PROVE BytesRead(i) = Op(i, 1).w \div 2
    OBVIOUS
  <2>1. /\ i.it \notin {"vsqrtss", "vcvtss2sd", "vinsertps", "vldmxcsr"}
        /\ i.it \notin {"vsqrtsd", "vcvtsd2ss", "vmwrite"} \union HalfMoves
        /\ i.it \notin Hashes \union {"v4fmaddps", "v4fmaddss", "vbroadcastf32x4", "vbroadcastf128",
                               "vbroadcasti128", "vinsertf128", "vcvtpd2ps", "vcvtpd2dq", "vpclmulqdq"}
        /\ i.it \notin {"vbroadcasti64x4", "vinserti64x4"} /\ i.it # "vpsllw" /\ i.it # "vmovddup"
    BY DEF Extends, HalfMoves, Hashes
  <2>2. /\ i.it \notin Scalars \union ScalarMoves \union Transfers \union Kmovs \union ScalarToMask
        /\ i.it \notin ScalarToGpr \union Broadcasts \union Gathers \union {"vcomish", "vpinsrb", "vpinsrd"}
    BY DEF Extends, Scalars, ScalarMath, ScalarUnary, ScalarBinary, ScalarBinaryImm, ScalarMulAdds,
           ScalarConvert, IntToScalar, ScalarLogic, ScalarMoves, Transfers, Kmovs, ScalarToMask,
           ScalarToGpr, Broadcasts, Gathers
  <2> QED BY <2>1, <2>2 DEF BytesRead
<1>4. i.it \in {"vcvtdq2ps", "vcvtps2dq", "vcvttps2udq", "vcvtudq2ps"} => BytesRead(i) = Op(i, 1).w
  <2> SUFFICES ASSUME i.it \in {"vcvtdq2ps", "vcvtps2dq", "vcvttps2udq", "vcvtudq2ps"}
               PROVE  BytesRead(i) = Op(i, 1).w
    OBVIOUS
  <2>1. /\ i.it \notin {"vsqrtss", "vcvtss2sd", "vinsertps", "vldmxcsr"}
        /\ i.it \notin {"vsqrtsd", "vcvtsd2ss", "vmwrite"} \union HalfMoves
        /\ i.it \notin Hashes \union {"v4fmaddps", "v4fmaddss", "vbroadcastf32x4", "vbroadcastf128",
                               "vbroadcasti128", "vinsertf128", "vcvtpd2ps", "vcvtpd2dq", "vpclmulqdq"}
        /\ i.it \notin {"vbroadcasti64x4", "vinserti64x4"} /\ i.it # "vpsllw" /\ i.it # "vmovddup"
    BY DEF HalfMoves, Hashes
  <2>2. /\ i.it \notin Scalars \union ScalarMoves \union Transfers \union Kmovs \union ScalarToMask
        /\ i.it \notin ScalarToGpr \union Broadcasts \union Gathers \union {"vcomish", "vpinsrb", "vpinsrd"}
        /\ i.it \notin Extends
    BY DEF Extends, Scalars, ScalarMath, ScalarUnary, ScalarBinary, ScalarBinaryImm, ScalarMulAdds,
           ScalarConvert, IntToScalar, ScalarLogic, ScalarMoves, Transfers, Kmovs, ScalarToMask,
           ScalarToGpr, Broadcasts, Gathers
  <2> QED BY <2>1, <2>2 DEF BytesRead
<1>5. i.it \in {"vcvtpd2ps", "vcvtpd2dq"} => BytesRead(i) = 16
  BY DEF BytesRead, HalfMoves
<1>6. (i.it = "vcvtss2sd" => BytesRead(i) = 4) /\ (i.it = "vcvtsd2ss" => BytesRead(i) = 8)
  BY DEF BytesRead
<1>7. \A n \in 2..4, w \in Nat : w <= 8 /\ w <= BytesRead(i) => Reaches(i, n, w)
  BY MovOperands
<1>8. i.it \notin IntToScalar \union CsrMoves =>
        /\ \A n \in 2..4 : Source64(i, n) /\ Reaches(i, n, Op(i, n).w)
        /\ \A n \in 2..4, w \in Nat : w <= BytesRead(i) => Reaches(i, n, w)
  BY <1>1, FineIs
<1> QED BY <1>2, <1>3, <1>4, <1>5, <1>6, <1>7, <1>8

(* Packed conversions.                                                     *)
LEMMA PackedCvtFits ==
  ASSUME NEW i, Fine(i), i.it \in ConversionInsns
  PROVE  /\ i.it \in {"vcvtdq2ps", "vcvtps2dq", "vcvttps2udq", "vcvtudq2ps"} => Fitted(i, same_size(i))
         /\ i.it = "vcvtudq2pd" => Fitted(i, handle_vcvt_udq2pd(i))
         /\ i.it \notin IntToScalar \union CsrMoves => Fitted(i, handle_vcvt_pd2qq(i))
         /\ i.it \in {"vcvtpd2ps", "vcvtpd2dq"} => Fitted(i, handle_vcvtpd2ps(i))
         /\ i.it = "vcvtps2pd" => Fitted(i, handle_vcvtps2pd(i))
         /\ i.it = "vcvtdq2pd" => Fitted(i, handle_vcvtdq2pd(i))
<1>1. /\ Known(i) /\ Op(i, 1).w \in Nat /\ Op(i, 2).w \in Nat /\ Op(i, 2).w <= 64
      /\ \A n : IsVec(Op(i, n)) => Op(i, n).w \in {16, 32, 64}
      /\ \A n : IsXmm(Op(i, n)) => Op(i, n).w = 16
      /\ IsVec(Op(i, 1)) /\ ~IsXmm(Op(i, 1)) => Op(i, 1).w \in {32, 64}
  <2>1. \A n : IsVec(Op(i, n)) /\ ~IsXmm(Op(i, n)) => Op(i, n).w \in {32, 64}
    BY DEF Fine, Decoded, IsVec, IsXmm, Op
  <2> QED BY <2>1, FineIs DEF Known
<1>2. ASSUME i.it \in {"vcvtdq2ps", "vcvtps2dq", "vcvttps2udq", "vcvtudq2ps"} PROVE Fitted(i, same_size(i))
  <2>1. i.it \notin IntToScalar \union CsrMoves /\ BytesRead(i) = Op(i, 1).w
    BY <1>2, CvtOperands DEF IntToScalar, CsrMoves
  <2>2. Reaches(i, 2, Op(i, 1).w)
    BY <1>1, <2>1, CvtOperands
  <2> QED BY <1>1, <2>2, ConvertFits DEF same_size
<1>3. ASSUME i.it = "vcvtudq2pd" PROVE Fitted(i, handle_vcvt_udq2pd(i))
  <2>1. i.it \notin IntToScalar \union CsrMoves /\ i.it \in Extends
    BY <1>3 DEF IntToScalar, CsrMoves, Extends
  <2>2. Reaches(i, 2, Op(i, 1).w \div 2) /\ Op(i, 1).w \div 2 \in Nat
    BY <1>1, <2>1, CvtOperands
  <2> QED BY <2>2, ConvertFits DEF handle_vcvt_udq2pd
<1>4. ASSUME i.it \notin IntToScalar \union CsrMoves PROVE Fitted(i, handle_vcvt_pd2qq(i))
  <2>1. Reaches(i, 2, Op(i, 2).w)
    BY <1>4, CvtOperands
  <2> QED BY <1>1, <2>1, ConvertFits DEF handle_vcvt_pd2qq
<1>5. ASSUME i.it \in {"vcvtpd2ps", "vcvtpd2dq"} PROVE Fitted(i, handle_vcvtpd2ps(i))
  <2>1. i.it \notin IntToScalar \union CsrMoves /\ BytesRead(i) = 16
    BY <1>5, CvtOperands DEF IntToScalar, CsrMoves
  <2>2. Reaches(i, 2, 16) /\ (Op(i, 2).w = 32 => Reaches(i, 2, 32))
    BY <2>1, CvtOperands
  <2>3. Fitted(i, convert(i, 16, 16)) /\ (Op(i, 2).w = 32 => Fitted(i, convert(i, 32, 16)))
    BY <2>2, ConvertFits
  <2> QED BY <2>3 DEF handle_vcvtpd2ps
<1>6. ASSUME i.it \in {"vcvtps2pd", "vcvtdq2pd"}, NEW half \in {8, 16, 32}, NEW dst,
             half <= Op(i, 1).w \div 2
      PROVE  Fitted(i, from_xmm(i, half, dst))
  <2>1. i.it \notin IntToScalar \union CsrMoves /\ i.it \in Extends
    BY <1>6 DEF IntToScalar, CsrMoves, Extends
  <2>2. Source64(i, 2) /\ Reaches(i, 2, half) /\ BytesRead(i) = Op(i, 1).w \div 2
    <3>1. half \in Nat
      BY <1>6
    <3> QED BY <1>6, <2>1, <3>1, CvtOperands
  <2>3. half # 8 => Reaches(i, 2, 16)
    <3> SUFFICES ASSUME half # 8 PROVE Reaches(i, 2, 16)
      OBVIOUS
    <3>1. 16 <= BytesRead(i)
      BY <1>1, <1>6, <2>2
    <3> QED BY <2>1, <3>1, CvtOperands
  <2>4. ~IsMem(Op(i, 2)) => Reaches(i, 2, 16)
    BY <2>2 DEF Source64, Whole64, Reaches
  <2>5. CASE IsMem(Op(i, 2)) /\ half = 8
    <3> DEFINE N == Need(8, 16, 16)
    <3>1. N \in Needs /\ N["s"] = 8 /\ N["t"] = 16
      BY NeedIs
    <3> HIDE DEF N
    <3>2. Suits(i, N, ScalarSource(i, 2, 8))
      BY <1>1, <2>2, <2>5, <3>1, FitsScalarSource
    <3>3. Given(i, N, <<Tmp("t", 16)>>)
      BY <3>1, ArgsFit, GivenClosed
    <3>4. Suits(i, N, <<Call(Reg(1, dst), <<Tmp("t", 16)>>)>>) /\ Suits(i, N, <<Free("t")>>) /\ Suits(i, N, MERR_OK)
      BY <3>3, FitsEmits, FitsEnds
    <3>5. <<Call(Reg(1, dst), <<Tmp("t", 16)>>), Free("t")>>
          = <<Call(Reg(1, dst), <<Tmp("t", 16)>>)>> \o <<Free("t")>>
      OBVIOUS
    <3>6. Suits(i, N, ScalarSource(i, 2, 8)
                       \o <<Call(Reg(1, dst), <<Tmp("t", 16)>>), Free("t")>> \o MERR_OK)
      BY <3>2, <3>4, <3>5, Fitting
    <3> QED BY <2>5, <3>1, <3>6 DEF from_xmm, Fitted
  <2>6. CASE ~(IsMem(Op(i, 2)) /\ half = 8)
    <3>1. Reaches(i, 2, 16) /\ ~(IsMem(Op(i, 2)) /\ half < 16)
      BY <1>6, <2>3, <2>4, <2>6
    <3> QED BY <3>1, ConvertFits DEF from_xmm
  <2> QED BY <2>5, <2>6
<1>7. ASSUME i.it = "vcvtps2pd" PROVE Fitted(i, handle_vcvtps2pd(i))
  <2> DEFINE half == IF IsXmm(Op(i, 1)) THEN 8 ELSE 16
  <2>1. IsVec(Op(i, 1))
    BY <1>7, CvtOperands DEF Extends
  <2>2. half \in {8, 16, 32} /\ half <= Op(i, 1).w \div 2
    BY <1>1, <2>1
  <2>3. handle_vcvtps2pd(i) = from_xmm(i, half, 2 * half)
    BY DEF handle_vcvtps2pd
  <2> HIDE DEF half
  <2> QED BY <1>6, <1>7, <2>2, <2>3
<1>8. ASSUME i.it = "vcvtdq2pd" PROVE Fitted(i, handle_vcvtdq2pd(i))
  <2>1. IsVec(Op(i, 1))
    BY <1>8, CvtOperands DEF Extends
  <2>2. Op(i, 1).w \div 2 \in {8, 16, 32} /\ Op(i, 1).w \div 2 <= Op(i, 1).w \div 2
    BY <1>1, <2>1
  <2> QED BY <1>6, <1>8, <2>2 DEF handle_vcvtdq2pd
<1> QED BY <1>2, <1>3, <1>4, <1>5, <1>7, <1>8

(* Half precision, and the control register.                               *)
LEMMA HalvesFit ==
  ASSUME NEW i, Fine(i), i.it \in ConversionInsns
  PROVE  /\ i.it \notin IntToScalar \union CsrMoves => Fitted(i, handle_vcvt_fp16(i))
         /\ i.it \in CsrMoves => Fitted(i, handle_vmxcsr(i))
<1>1. Known(i) /\ Op(i, 1).w \in Nat /\ Op(i, 2).w \in Nat
  BY FineIs DEF Known
<1>2. ASSUME i.it \notin IntToScalar \union CsrMoves PROVE Fitted(i, handle_vcvt_fp16(i))
  <2> DEFINE N == Need(Op(i, 2).w, 0, Op(i, 1).w)
             imm == IF Op(i, 3).k = "imm" THEN <<Imm(3)>> ELSE <<>>
             args == <<Loaded(i, 2, "s", Op(i, 2).w)>> \o imm
             out == IF IsVec(Op(i, 1)) THEN CallIntoVec(i, Op(i, 1).w, args)
                    ELSE CallIntoMem(i, Op(i, 1).w, args)
  <2>1. N \in Needs /\ N["s"] = Op(i, 2).w /\ N["tmp"] = Op(i, 1).w
    BY <1>1, NeedIs
  <2> HIDE DEF N
  <2>2. Reaches(i, 2, Op(i, 2).w)
    BY <1>2, CvtOperands
  <2>3. Suits(i, N, AvxOpLoader(i, 2, "s")) /\ Given(i, N, <<Loaded(i, 2, "s", Op(i, 2).w)>>)
    BY <1>1, <2>1, <2>2, FitsSource, GivenClosed
  <2>4. Given(i, N, imm)
    BY ArgsFit, GivenClosed
  <2> HIDE DEF imm
  <2>5. Given(i, N, args)
    BY <2>3, <2>4, GivenClosed
  <2> HIDE DEF args
  <2>6. Suits(i, N, out)
    BY <2>1, <2>5, FitsIntoVec, FitsIntoMem
  <2>7. handle_vcvt_fp16(i) = AvxOpLoader(i, 2, "s") \o out \o MERR_OK
    BY DEF handle_vcvt_fp16, args, imm
  <2> HIDE DEF out
  <2> QED BY <2>1, <2>3, <2>6, <2>7, FitsEnds, Fitting DEF Fitted
<1>3. ASSUME i.it \in CsrMoves PROVE Fitted(i, handle_vmxcsr(i))
  <2> DEFINE N == Need(4, 0, 0)
  <2>1. N \in Needs /\ N["s"] = 4
    BY NeedIs
  <2> HIDE DEF N
  <2>2. i.it = "vldmxcsr" => 4 <= Op(i, 1).w /\ IsMem(Op(i, 1))
    <3> SUFFICES ASSUME i.it = "vldmxcsr" PROVE 4 <= Op(i, 1).w /\ IsMem(Op(i, 1))
      OBVIOUS
    <3>1. IsMem(Op(i, 1)) /\ BytesRead(i) = 4
      BY DEF Fine, Encodable, BytesRead
    <3>2. 1 \in DOMAIN i.ops
      BY <3>1 DEF Op, IsMem
    <3> QED BY <3>1, <3>2 DEF Fine, Sized
  <2>3. i.it = "vldmxcsr" => Suits(i, N, AvxOpLoader(i, 1, "s"))
    BY <1>1, <2>1, <2>2, FitsLoader
  <2>4. Given(i, N, <<Tmp("s", 4)>>)
    BY <2>1, ArgsFit, GivenClosed
  <2>5. Suits(i, N, <<Call(Effect, <<Tmp("s", 4)>>)>>) /\ Suits(i, N, CallIntoMem(i, 4, <<>>)) /\ Suits(i, N, MERR_OK)
    BY <2>4, FitsEmits, FitsIntoMem, FitsEnds
  <2> QED BY <2>1, <2>3, <2>5, Fitting DEF handle_vmxcsr, Fitted
<1> QED BY <1>2, <1>3

(* Scalars.                                                                *)
LEMMA ScalarCvtFits ==
  ASSUME NEW i, Fine(i), i.it \in ConversionInsns
  PROVE  /\ i.it \in ScalarToGpr \union ScalarConvert => Fitted(i, handle_vcvt_scalar_ext(i))
         /\ i.it \in {"vcvtsi2ss", "vcvtsi2sd"} => Fitted(i, handle_vcvtsi2fp(i))
         /\ i.it \in {"vcvtss2sd", "vcvtsd2ss"} => Fitted(i, handle_vcvtfp2fp(i))
<1>1. /\ Known(i) /\ Op(i, 1).w \in Nat /\ Op(i, 2).w \in Nat /\ Op(i, 3).w \in Nat /\ Op(i, 3).w <= 64
      /\ \A n : IsVec(Op(i, n)) => Whole64(i, n)
      /\ \A n : IsXmm(Op(i, n)) => IsVec(Op(i, n))
  BY FineIs DEF Known
<1>2. i.it \in ScalarConvert => Whole64(i, 1) /\ Whole64(i, 2)
  BY <1>1, CvtOperands
<1>3. Reaches(i, 3, Op(i, 3).w)
  <2>1. Op(i, 3).k = "gpr" => Op(i, 3).w <= 8
    <3>1. 3 \notin DOMAIN i.ops => Op(i, 3).k = "void"
      BY DEF Op
    <3> QED BY <3>1 DEF Fine, Sized
  <2> QED BY <1>1, <2>1 DEF Reaches
<1>4. ASSUME i.it \in ScalarToGpr \union ScalarConvert PROVE Fitted(i, handle_vcvt_scalar_ext(i))
  <2> DEFINE N == Need(16, 16, 0)
             M == Need(Op(i, 3).w, 0, 0)
             p1 == add_vec_source(i, 2, 16) \o <<Call(Reg(1, Op(i, 1).w), <<VecSource(i, 2, 16)>>)>> \o MERR_OK
             p2 == AvxOpLoader(i, 3, "s")
                   \o <<ScalarCall(Reg(1, 16), <<Reg(2, 16), Loaded(i, 3, "s", Op(i, 3).w)>>)>> \o MERR_OK
             p3 == add_vec_source(i, 3, 16)
                   \o <<ScalarCall(Reg(1, 16), <<Reg(2, 16), VecSource(i, 3, 16)>>)>> \o MERR_OK
  <2>1. N \in Needs /\ N["s"] = 16 /\ N["t"] = 16 /\ M \in Needs /\ M["s"] = Op(i, 3).w
    <3>1. N \in Needs /\ N["s"] = 16 /\ N["t"] = 16
      BY NeedIs
    <3>2. M \in Needs /\ M["s"] = Op(i, 3).w
      <4>1. Op(i, 3).w \in Nat /\ 0 \in Nat
        BY <1>1
      <4> QED BY <4>1, NeedIs
    <3> QED BY <3>1, <3>2
  <2> HIDE DEF N, M
  <2>2. ASSUME NEW n \in 2..3, Source64(i, n)
        PROVE  Suits(i, N, add_vec_source(i, n, 16)) /\ Arg(i, N, VecSource(i, n, 16))
    BY <1>1, <2>1, <2>2, FitsVecSource DEF Source64
  <2>3. i.it \notin IntToScalar => i.it \notin IntToScalar \union CsrMoves
    BY <1>4 DEF CsrMoves, ScalarToGpr, ScalarConvert, IntToScalar
  <2>4. i.it \in ScalarToGpr => i.it \notin IntToScalar \union CsrMoves
    BY DEF CsrMoves, ScalarToGpr, IntToScalar
  <2>5. ASSUME i.it \in ScalarToGpr PROVE Suits(i, N, p1)
    <3>1. Suits(i, N, add_vec_source(i, 2, 16)) /\ Given(i, N, <<VecSource(i, 2, 16)>>)
      BY <2>2, <2>4, <2>5, CvtOperands, GivenClosed
    <3> QED BY <3>1, FitsEmits, FitsEnds, Fitting
  <2>6. ASSUME i.it \in IntToScalar PROVE Suits(i, M, p2)
    <3>1. Suits(i, M, AvxOpLoader(i, 3, "s")) /\ Arg(i, M, Loaded(i, 3, "s", Op(i, 3).w))
      BY <1>1, <1>3, <2>1, FitsSource
    <3>2. Arg(i, M, Reg(2, 16))
      BY <1>2, <2>6, ArgsFit DEF ScalarConvert
    <3>3. Given(i, M, <<Reg(2, 16), Loaded(i, 3, "s", Op(i, 3).w)>>)
      BY <3>1, <3>2, GivenClosed
    <3> QED BY <3>1, <3>3, FitsEmits, FitsEnds, Fitting
  <2>7. ASSUME i.it \notin ScalarToGpr, i.it \notin IntToScalar PROVE Suits(i, N, p3)
    <3>1. Suits(i, N, add_vec_source(i, 3, 16)) /\ Arg(i, N, VecSource(i, 3, 16))
      BY <2>2, <2>3, <2>7, CvtOperands
    <3>2. Arg(i, N, Reg(2, 16))
      BY <1>2, <1>4, <2>7, ArgsFit
    <3>3. Given(i, N, <<Reg(2, 16), VecSource(i, 3, 16)>>)
      BY <3>1, <3>2, GivenClosed
    <3> QED BY <3>1, <3>3, FitsEmits, FitsEnds, Fitting
  <2>8. /\ i.it \in ScalarToGpr => handle_vcvt_scalar_ext(i) = p1
        /\ i.it \in IntToScalar => handle_vcvt_scalar_ext(i) = p2
        /\ i.it \notin ScalarToGpr /\ i.it \notin IntToScalar => handle_vcvt_scalar_ext(i) = p3
    <3>1. i.it \in IntToScalar => i.it \notin ScalarToGpr
      BY DEF IntToScalar, ScalarToGpr
    <3> QED BY <3>1 DEF handle_vcvt_scalar_ext
  <2> HIDE DEF p1, p2, p3
  <2> QED BY <2>1, <2>5, <2>6, <2>7, <2>8 DEF Fitted
<1>5. ASSUME i.it \in {"vcvtsi2ss", "vcvtsi2sd"} PROVE Fitted(i, handle_vcvtsi2fp(i))
  <2> DEFINE src == Op(i, 3).w
             N == Need(src, 16, src)
             fp == fp_size(i)
             a == Alloc("t", 16)
             b == AllocElseFree("tmp", src, "t")
             c == Mov(Tmp("t", 16), Reg(2, 16))
             d == I2f(Tmp("tmp", src), Loaded(i, 3, "s", src))
             e == F2f(Tmp("t", fp), Tmp("tmp", src))
             f == Mov(Reg(1, 16), Tmp("t", 16))
  <2>1. /\ N \in Needs /\ N["s"] = src /\ N["t"] = 16 /\ N["tmp"] = src
        /\ N["t"] <= 16 /\ 16 <= N["t"] /\ N["tmp"] <= src /\ src <= N["tmp"]
    <3>1. src \in Nat /\ 16 \in Nat
      BY <1>1
    <3>2. N \in Needs /\ N["s"] = src /\ N["t"] = 16 /\ N["tmp"] = src
      BY <3>1, NeedIs
    <3> HIDE DEF N
    <3> QED BY <3>1, <3>2
  <2> HIDE DEF N
  <2>2. Suits(i, N, AvxOpLoader(i, 3, "s")) /\ Arg(i, N, Loaded(i, 3, "s", src))
    BY <1>1, <1>3, <2>1, FitsSource
  <2>3. Arg(i, N, Reg(2, 16))
    BY <1>2, <1>5, ArgsFit DEF ScalarConvert, IntToScalar
  <2>4. Takes(i, N, Reg(2, 16)) /\ Takes(i, N, Loaded(i, 3, "s", src))
    BY <2>2, <2>3, ArgsFit
  <2>5. /\ a.do = "alloc" /\ a.v = "t" /\ b.do = "alloc" /\ b.v = "tmp"
        /\ Fills(c, "t") /\ c.dst.w = 16 /\ Fills(d, "tmp") /\ d.dst.w = src
    BY DEF Alloc, AllocElseFree, Step, Mov, I2f, Emit, Tmp, Fills
  <2>6. /\ ~Reads(c, "t") /\ ~Reads(c, "tmp") /\ ~Reads(d, "tmp")
    <3>1. Reg(2, 16).at = "reg" /\ Loaded(i, 3, "s", src).v # "tmp"
      BY DEF Reg, Loaded, Tmp
    <3>2. c.src = <<Reg(2, 16)>> /\ d.src = <<Loaded(i, 3, "s", src)>>
      BY DEF Mov, I2f, Emit, Step
    <3> HIDE DEF c, d
    <3> QED BY <3>1, <3>2 DEF Reads
  <2>7. Brings(i, N, c) /\ Brings(i, N, d)
    BY <2>4, StepsMeet DEF Meets
  <2> HIDE DEF a, b, c, d
  <2>8. Suits(i, N, <<a, b, c, d>>)
    BY <2>1, <2>5, <2>6, <2>7, FitsAllocs
  <2>9. Takes(i, N, Tmp("tmp", src)) /\ Takes(i, N, Tmp("t", 16))
    BY <2>1, ArgsFit
  <2>10. /\ Suits(i, N, <<e>>) /\ Suits(i, N, <<f>>) /\ Suits(i, N, <<Free("t")>>)
         /\ Suits(i, N, <<Free("tmp")>>) /\ Suits(i, N, MERR_OK)
    BY <2>9, FitsEmits, FitsEnds
  <2>11. handle_vcvtsi2fp(i) = AvxOpLoader(i, 3, "s")
           \o <<a, b, c, d, e, f, Free("t"), Free("tmp")>> \o MERR_OK
    BY DEF handle_vcvtsi2fp, a, b, c, d
  <2> HIDE DEF e, f
  <2>12. <<a, b, c, d, e, f, Free("t"), Free("tmp")>>
         = <<a, b, c, d>> \o <<e>> \o <<f>> \o <<Free("t")>> \o <<Free("tmp")>>
    OBVIOUS
  <2>13. Suits(i, N, <<a, b, c, d, e, f, Free("t"), Free("tmp")>>)
    BY <2>8, <2>10, <2>12, Fitting
  <2> QED BY <2>1, <2>2, <2>10, <2>11, <2>13, Fitting DEF Fitted
<1>6. ASSUME i.it \in {"vcvtss2sd", "vcvtsd2ss"} PROVE Fitted(i, handle_vcvtfp2fp(i))
  <2> DEFINE src == IF i.it = "vcvtss2sd" THEN 4 ELSE 8
             M == Need(4, 4, 4)
             N == Need(src, 16, 16)
             fp == fp_size(i)
             mask == IF Masked(i)
                     THEN MergeArg(i, 16) \o <<add_argument_mask(from_insn(i, fp))>> ELSE <<>>
             p1 == <<Alloc("t", 4), Mov(Tmp("t", 4), Reg(3, 64)), F2f(Reg(1, 8), Tmp("t", 4))>>
             p2 == <<ScalarCall(Reg(1, 16), mask \o <<Reg(2, 16), Loaded(i, 3, "t", 16)>>)>>
             p3 == <<Alloc("t", 16), Mov(Tmp("t", 16), Reg(2, 16)),
                     F2f(Tmp("t", fp), Loaded(i, 3, "s", src)),
                     Mov(Reg(1, 16), Tmp("t", 16)), Free("t")>>
  <2>1. /\ M \in Needs /\ M["t"] = 4 /\ N \in Needs /\ N["s"] = src /\ N["t"] = 16
        /\ M["t"] <= 4 /\ 4 <= M["t"] /\ N["t"] <= 16 /\ 16 <= N["t"]
    BY NeedIs
  <2> HIDE DEF M, N
  <2>2. i.it \in ScalarConvert /\ i.it \notin IntToScalar \union CsrMoves /\ src \in Nat
        /\ BytesRead(i) = src
    BY <1>6, CvtOperands DEF ScalarConvert, IntToScalar, CsrMoves
  <2>3. Whole64(i, 1) /\ Whole64(i, 2) /\ Source64(i, 3) /\ Reaches(i, 3, src)
    <3>1. Reaches(i, 3, src)
      BY <2>2, CvtOperands
    <3> QED BY <1>2, <2>2, <3>1, CvtOperands
  <2> HIDE DEF src
  <2>4. ASSUME IsXmm(Op(i, 3)) PROVE Suits(i, M, p1)
    <3>1. Takes(i, M, Reg(3, 64)) /\ Takes(i, M, Tmp("t", 4))
      BY <1>1, <2>1, <2>4, ArgsFit
    <3>2. Reg(3, 64).v # "t"
      BY DEF Reg
    <3>3. Suits(i, M, <<Alloc("t", 4), Mov(Tmp("t", 4), Reg(3, 64))>>)
      BY <2>1, <3>1, <3>2, KregsFit
    <3>4. Suits(i, M, <<F2f(Reg(1, 8), Tmp("t", 4))>>)
      BY <3>1, FitsEmits
    <3> QED BY <3>3, <3>4, FitsLonger
  <2>5. Suits(i, N, ScalarSource(i, 3, src)) /\ Arg(i, N, Loaded(i, 3, "t", 16)) /\ Arg(i, N, Reg(2, 16))
    BY <1>1, <2>1, <2>3, FitsScalars, ArgsFit
  <2>6. Suits(i, N, p2)
    <3>1. Given(i, N, MergeArg(i, 16)) /\ Given(i, N, <<add_argument_mask(from_insn(i, fp))>>)
      BY <2>3, MaskedArgsFit, ArgsFit, GivenClosed
    <3>2. Given(i, N, mask)
      BY <3>1, GivenClosed
    <3>3. Given(i, N, <<Reg(2, 16), Loaded(i, 3, "t", 16)>>)
      BY <2>5, GivenClosed
    <3> HIDE DEF mask
    <3> QED BY <3>2, <3>3, GivenClosed, FitsEmits
  <2>7. Suits(i, N, AvxOpLoader(i, 3, "s")) /\ Arg(i, N, Loaded(i, 3, "s", src))
    BY <1>1, <2>1, <2>3, FitsSource
  <2>8. Suits(i, N, p3)
    <3>1. Takes(i, N, Reg(2, 16)) /\ Takes(i, N, Loaded(i, 3, "s", src)) /\ Takes(i, N, Tmp("t", 16))
      BY <2>1, <2>5, <2>7, ArgsFit
    <3>2. Reg(2, 16).v # "t"
      BY DEF Reg
    <3>3. Suits(i, N, <<Alloc("t", 16), Mov(Tmp("t", 16), Reg(2, 16))>>)
      BY <2>1, <3>1, <3>2, KregsFit
    <3>4. /\ Suits(i, N, <<F2f(Tmp("t", fp), Loaded(i, 3, "s", src))>>)
          /\ Suits(i, N, <<Mov(Reg(1, 16), Tmp("t", 16))>>) /\ Suits(i, N, <<Free("t")>>)
      BY <3>1, FitsEmits, FitsEnds
    <3> QED BY <3>3, <3>4, FitsLonger
  <2>9. handle_vcvtfp2fp(i) =
          IF i.it = "vcvtss2sd" /\ IsXmm(Op(i, 3)) /\ previous_insn_is_zmm_call(i) THEN p1 \o MERR_OK
          ELSE IF Masked(i) THEN ScalarSource(i, 3, src) \o p2 \o FreeIfMem(i, 3, "t") \o MERR_OK
          ELSE AvxOpLoader(i, 3, "s") \o p3 \o MERR_OK
    BY DEF handle_vcvtfp2fp, src
  <2> HIDE DEF p1, p2, p3
  <2>10. /\ IsXmm(Op(i, 3)) => Suits(i, M, p1 \o MERR_OK)
         /\ Suits(i, N, ScalarSource(i, 3, src) \o p2 \o FreeIfMem(i, 3, "t") \o MERR_OK)
         /\ Suits(i, N, AvxOpLoader(i, 3, "s") \o p3 \o MERR_OK)
    BY <2>4, <2>5, <2>6, <2>7, <2>8, FitsEnds, Fitting
  <2> QED BY <2>1, <2>9, <2>10 DEF Fitted
<1> QED BY <1>4, <1>5, <1>6

(* Conversions, as apply() gives them out.                                 *)
LEMMA CvtFits ==
  ASSUME NEW i, Fine(i), i.it \in ConversionInsns
  PROVE  Fitted(i, apply_cvt(i))
<1>1. /\ i.it = "vcvtdq2ps" => Fitted(i, handle_vcvtdq2ps(i))
      /\ i.it = "vcvtps2dq" => Fitted(i, handle_vcvt_ps2dq(i))
      /\ i.it = "vcvttps2udq" => Fitted(i, handle_vcvt_ps2udq(i))
      /\ i.it = "vcvtudq2ps" => Fitted(i, handle_vcvt_udq2ps(i))
      /\ i.it = "vcvtps2pd" => Fitted(i, handle_vcvtps2pd(i))
      /\ i.it = "vcvtdq2pd" => Fitted(i, handle_vcvtdq2pd(i))
      /\ i.it = "vcvtpd2ps" => Fitted(i, handle_vcvtpd2ps(i))
      /\ i.it = "vcvtpd2dq" => Fitted(i, handle_vcvt_pd2dq(i))
      /\ i.it = "vcvtudq2pd" => Fitted(i, handle_vcvt_udq2pd(i))
  BY PackedCvtFits DEF handle_vcvtdq2ps, handle_vcvt_ps2dq, handle_vcvt_ps2udq, handle_vcvt_udq2ps,
     handle_vcvt_pd2dq
<1>2. /\ i.it = "vcvtpd2udq" => Fitted(i, handle_vcvt_pd2udq(i))
      /\ i.it = "vcvtpd2qq" => Fitted(i, handle_vcvt_pd2qq(i))
      /\ i.it = "vcvtps2qq" => Fitted(i, handle_vcvt_ps2qq(i))
      /\ i.it \in {"vcvtqq2pd", "vcvtqq2ps"} => Fitted(i, handle_vcvt_qq2fp(i))
      /\ i.it \in fp16_cvt => Fitted(i, handle_vcvt_fp16(i))
  <2>1. i.it \in {"vcvtpd2udq", "vcvtpd2qq", "vcvtps2qq", "vcvtqq2pd", "vcvtqq2ps"} \union fp16_cvt =>
          i.it \notin IntToScalar \union CsrMoves
    BY DEF IntToScalar, CsrMoves, fp16_cvt
  <2> QED BY <2>1, PackedCvtFits, HalvesFit DEF handle_vcvt_pd2udq, handle_vcvt_pd2qq, handle_vcvt_ps2qq,
             handle_vcvt_qq2fp
<1>3. /\ i.it \in {"vcvtsi2ss", "vcvtsi2sd"} => Fitted(i, handle_vcvtsi2fp(i))
      /\ i.it \in {"vcvtss2sd", "vcvtsd2ss"} => Fitted(i, handle_vcvtfp2fp(i))
      /\ i.it \in CsrMoves => Fitted(i, handle_vmxcsr(i))
      /\ i.it \in ScalarToGpr \union ScalarConvert => Fitted(i, handle_vcvt_scalar_ext(i))
  BY ScalarCvtFits, HalvesFit
<1>4. \/ i.it \in {"vcvtdq2ps", "vcvtps2dq", "vcvttps2udq", "vcvtudq2ps", "vcvtps2pd", "vcvtdq2pd",
                   "vcvtpd2ps", "vcvtpd2dq", "vcvtudq2pd", "vcvtpd2udq", "vcvtpd2qq", "vcvtps2qq",
                   "vcvtqq2pd", "vcvtqq2ps"} \union fp16_cvt \union CsrMoves
      \/ i.it \in ScalarToGpr \union ScalarConvert
  BY DEF ConversionInsns, Extends, Narrows, Converts, pmov, fp16_cvt
<1> QED BY <1>1, <1>2, <1>3, <1>4, SMTT(60) DEF apply_cvt

(* Logic and shuffles all of whose operands are as wide as the destination:*)
(* with one source, with two, with an immediate or a vector of indices.    *)
LEMMA PlainUnaryFits ==
  ASSUME NEW i, Fine(i), NEW N \in Needs, NEW w, Plain(i, N, w), N["t"] = w, N["tmp"] = w
  PROVE  LET j == IgnoresMask(i)
         IN  /\ Suits(i, N, Unary(i, <<>>)) /\ Suits(i, N, Unary(j, <<>>))
             /\ Suits(i, N, handle_v_rotate(i)) /\ Suits(i, N, handle_v_rotate(j))
             /\ Suits(i, N, handle_vmovlhps(i))
             /\ Whole64(i, 2) => /\ Suits(i, N, Binary(j, <<>>))
                                 /\ Suits(i, N, handle_v_align(i)) /\ Suits(i, N, handle_v_align(j))
<1> DEFINE j == IgnoresMask(i)
<1>1. /\ Given(i, N, <<>>) /\ Arg(i, N, Imm(3)) /\ Arg(i, N, Imm(4))
  BY ArgsFit, GivenClosed
<1>2. ASSUME NEW h, Fine(i), Plain(h, N, w), \A s : Arg(h, N, s) <=> Arg(i, N, s),
             \A n : Whole64(h, n) <=> Whole64(i, n),
             \A args : Given(h, N, args) <=> Given(i, N, args), \A p : Suits(h, N, p) <=> Suits(i, N, p)
      PROVE  /\ Suits(i, N, Unary(h, <<>>)) /\ Suits(i, N, handle_v_rotate(h))
             /\ \A a, b : Arg(i, N, a) /\ Arg(i, N, b) => Suits(i, N, Intrinsic(h, <<a, b>>))
             /\ Whole64(i, 2) => Suits(i, N, Binary(h, <<>>)) /\ Suits(i, N, handle_v_align(h))
  <2>1. Given(h, N, <<>>) /\ Arg(h, N, Imm(3)) /\ Arg(h, N, Imm(4))
    BY <1>1, <1>2
  <2>2. Suits(h, N, Unary(h, <<>>)) /\ (Whole64(i, 2) => Suits(h, N, Binary(h, <<>>)))
    BY <1>2, <2>1, FitsPlain
  <2>3. Suits(h, N, handle_v_rotate(h))
    <3>1. Given(h, N, <<Src(h, 2), Imm(3)>>) /\ Suits(h, N, AvxOpLoader(h, 2, "s"))
      BY <1>2, <2>1, FitsPlain, GivenClosed
    <3>2. Suits(h, N, Intrinsic(h, <<Src(h, 2), Imm(3)>>))
      BY <1>2, <3>1, FitsPlain
    <3> QED BY <3>1, <3>2, FitsEnds, Fitting DEF handle_v_rotate
  <2>4. ASSUME Whole64(i, 2) PROVE Suits(h, N, handle_v_align(h))
    <3>1. Given(h, N, <<Vec(h, 2), Src(h, 3), Imm(4)>>) /\ Suits(h, N, AvxOpLoader(h, 3, "s"))
      BY <1>2, <2>1, <2>4, FitsPlain, GivenClosed
    <3>2. Suits(h, N, Intrinsic(h, <<Vec(h, 2), Src(h, 3), Imm(4)>>))
      BY <1>2, <3>1, FitsPlain
    <3> QED BY <3>1, <3>2, FitsEnds, Fitting DEF handle_v_align
  <2>5. ASSUME NEW a, NEW b, Arg(i, N, a), Arg(i, N, b) PROVE Suits(h, N, Intrinsic(h, <<a, b>>))
    <3>1. Given(h, N, <<a, b>>)
      BY <1>2, <2>5, GivenClosed
    <3> QED BY <1>2, <3>1, FitsPlain
  <2> QED BY <1>2, <2>2, <2>3, <2>4, <2>5
<1> HIDE DEF j
<1>3. /\ Plain(j, N, w) /\ (\A s : Arg(j, N, s) <=> Arg(i, N, s))
      /\ (\A n : Whole64(j, n) <=> Whole64(i, n))
      /\ (\A args : Given(j, N, args) <=> Given(i, N, args)) /\ \A p : Suits(j, N, p) <=> Suits(i, N, p)
  BY Ignoring DEF j
<1>4. /\ Suits(i, N, Unary(j, <<>>)) /\ Suits(i, N, handle_v_rotate(j))
      /\ \A a, b : Arg(i, N, a) /\ Arg(i, N, b) => Suits(i, N, Intrinsic(j, <<a, b>>))
      /\ Whole64(i, 2) => Suits(i, N, Binary(j, <<>>)) /\ Suits(i, N, handle_v_align(j))
  BY <1>2, <1>3
<1>5. /\ Suits(i, N, Unary(i, <<>>)) /\ Suits(i, N, handle_v_rotate(i))
      /\ Whole64(i, 2) => Suits(i, N, handle_v_align(i))
  BY <1>2
<1>6. Suits(i, N, handle_vmovlhps(i))
  <2>1. IsXmm(Op(i, 2)) /\ IsXmm(Op(i, 3)) => Arg(i, N, Reg(2, 16)) /\ Arg(i, N, Reg(3, 16))
    BY FineIs, ArgsFit
  <2>2. IsXmm(Op(i, 2)) /\ IsXmm(Op(i, 3)) => Suits(i, N, Intrinsic(j, <<Reg(2, 16), Reg(3, 16)>>))
    BY <1>4, <2>1
  <2> QED BY <2>2, FitsEnds DEF handle_vmovlhps, Xmms12, j
<1> QED BY <1>4, <1>5, <1>6 DEF j

(* Logic with two sources, and with a third operand besides.               *)
LEMMA PlainBinaryFits ==
  ASSUME NEW i, Fine(i), NEW N \in Needs, NEW w, Plain(i, N, w), N["t"] = w, N["tmp"] = w, Whole64(i, 2)
  PROVE  /\ Suits(i, N, Binary(i, <<>>)) /\ Suits(i, N, handle_v_bitwise(i))
         /\ Suits(i, N, handle_v_multishift(i)) /\ Suits(i, N, handle_v_shift_double(i))
         /\ Suits(i, N, handle_v_ternary_logic(i)) /\ Suits(i, N, handle_v_gfni(i))
         /\ i.it # "vcmpeqss" => Suits(i, N, handle_vcmp_ps_pd(i))
         /\ Suits(i, N, handle_vblendv_ps_pd(i)) /\ Suits(i, N, handle_vblend_imm_ps_pd(i))
         /\ Suits(i, N, handle_vblend_int(i)) /\ Suits(i, N, handle_v_blendm(i))
         /\ Suits(i, N, handle_vfmaddsub(i)) /\ Suits(i, N, handle_vshufps(i))
         /\ Suits(i, N, handle_v_shuf_lane(i)) /\ Suits(i, N, handle_v_permutex2(i))
<1>1. /\ Given(i, N, <<>>) /\ Arg(i, N, Imm(3)) /\ Arg(i, N, Imm(4)) /\ Given(i, N, <<Imm(4)>>)
      /\ Arg(i, N, Vec(i, 1)) /\ Arg(i, N, Vec(i, 2)) /\ Arg(i, N, Src(i, 3)) /\ Given(i, N, <<Vec(i, 4)>>)
      /\ Arg(i, N, Reg(1, w)) /\ Arg(i, N, Reg(2, w))
      /\ Suits(i, N, AvxOpLoader(i, 2, "s")) /\ Suits(i, N, AvxOpLoader(i, 3, "s")) /\ Op(i, 1).w = w
  BY ArgsFit, GivenClosed, FitsPlain DEF Plain
<1>2. /\ Suits(i, N, MERR_INSN) /\ Suits(i, N, MERR_OK)
      /\ \A c, p : Suits(i, N, p) => Suits(i, N, QASSERT(c, p))
      /\ \A p, q : Suits(i, N, p) /\ Suits(i, N, q) => Suits(i, N, p \o q)
  BY FitsEnds, Fitting
<1>3. /\ \A imm : Given(i, N, imm) => Suits(i, N, Binary(i, imm))
      /\ \A args : Given(i, N, args) => Suits(i, N, Intrinsic(i, args)) /\ Given(i, N, MaskedArgs(i, w, args))
      /\ Suits(i, N, accumulate(i))
  BY FitsPlain
<1>4. Given(i, N, <<Vec(i, 2), Src(i, 3), Imm(4)>>)
  BY <1>1, GivenClosed
<1>5. /\ Suits(i, N, Binary(i, <<>>)) /\ Suits(i, N, handle_v_bitwise(i))
      /\ Suits(i, N, handle_v_multishift(i)) /\ Suits(i, N, handle_v_shift_double(i))
      /\ Suits(i, N, handle_v_gfni(i)) /\ Suits(i, N, handle_vshufps(i))
      /\ i.it # "vcmpeqss" => Suits(i, N, handle_vcmp_ps_pd(i))
  BY <1>1, <1>2, <1>3, <1>4 DEF handle_v_bitwise, handle_v_multishift, handle_v_shift_double,
     handle_v_gfni, handle_vcmp_ps_pd, handle_vshufps
<1>6. /\ Suits(i, N, handle_vblendv_ps_pd(i)) /\ Suits(i, N, handle_vblend_imm_ps_pd(i))
      /\ Suits(i, N, handle_vblend_int(i))
  BY <1>1, <1>2, <1>3, <1>4 DEF handle_vblendv_ps_pd, handle_vblend_imm_ps_pd, handle_vblend_int
<1>7. Suits(i, N, handle_v_ternary_logic(i))
  <2>1. Given(i, N, <<Vec(i, 1), Vec(i, 2)>>) /\ Given(i, N, <<Src(i, 3), Imm(4)>>)
    BY <1>1, GivenClosed
  <2>2. Given(i, N, <<Vec(i, 1), Vec(i, 2), Src(i, 3), Imm(4)>>)
    BY <2>1, GivenFour
  <2> QED BY <1>1, <1>2, <1>3, <2>2 DEF handle_v_ternary_logic
<1>8. Suits(i, N, handle_v_blendm(i))
  <2>1. Given(i, N, <<add_argument_mask(NumElements(i)), Vec(i, 2), Src(i, 3)>>)
    BY <1>1, ArgsFit, GivenClosed
  <2>2. Suits(i, N, CallIntoVec(i, w, <<add_argument_mask(NumElements(i)), Vec(i, 2), Src(i, 3)>>))
    BY <2>1, FitsIntoVec
  <2> QED BY <1>1, <1>2, <2>2 DEF handle_v_blendm
<1>9. Suits(i, N, handle_vfmaddsub(i))
  <2> DEFINE o == addsub_order(i)
             facs == [m \in 1..3 |-> IF o[m] = 3 THEN Src(i, 3) ELSE Vec(i, o[m])]
  <2>1. o[1] \in {1, 2, 3} /\ o[2] \in {1, 2, 3} /\ o[3] \in {1, 2, 3}
    BY DEF addsub_order
  <2> HIDE DEF o
  <2>2. Given(i, N, facs)
    BY <1>1, <2>1, FactorsFit
  <2> HIDE DEF facs
  <2>3. Suits(i, N, AvxOpLoader(i, 3, "s") \o Intrinsic(i, facs))
    BY <1>1, <1>2, <1>3, <2>2
  <2> QED BY <2>3 DEF handle_vfmaddsub, facs, o
<1>10. Suits(i, N, handle_v_shuf_lane(i))
  <2>1. Suits(i, N, CallIntoVec(i, w, MaskedArgs(i, w, <<Vec(i, 2), Src(i, 3), Imm(4)>>)))
    BY <1>3, <1>4, FitsIntoVec
  <2> QED BY <1>1, <1>2, <2>1 DEF handle_v_shuf_lane
<1>11. Suits(i, N, handle_v_permutex2(i))
  <2> DEFINE mask == <<add_argument_mask(NumElements(i))>>
             table == <<Reg(IF i.it = "vpermi2w" THEN 2 ELSE 1, w)>>
             rest == <<Reg(IF i.it = "vpermi2w" THEN 1 ELSE 2, w), Src(i, 3)>>
             args == CASE i.mask = "zero"  -> mask \o table \o rest
                       [] i.mask = "merge" -> table \o mask \o rest
                       [] OTHER            -> table \o rest
  <2>1. Given(i, N, mask) /\ Given(i, N, table) /\ Given(i, N, rest)
    BY <1>1, ArgsFit, GivenClosed
  <2> HIDE DEF mask, table, rest
  <2>2. Given(i, N, mask \o table \o rest) /\ Given(i, N, table \o mask \o rest) /\ Given(i, N, table \o rest)
    BY <2>1, GivenClosed
  <2>3. Given(i, N, args)
    BY <2>2, Zenon
  <2> HIDE DEF args
  <2>4. Suits(i, N, AvxOpLoader(i, 3, "s") \o <<Call(Reg(1, w), args)>> \o MERR_OK)
    BY <1>1, <1>2, <2>3, FitsEmits
  <2> QED BY <1>1, <2>4 DEF handle_v_permutex2, args, mask, table, rest
<1> QED BY <1>5, <1>6, <1>7, <1>8, <1>9, <1>10, <1>11

(* Permutations by an immediate or by a vector of indices.                 *)
LEMMA PermutationsFit ==
  ASSUME NEW i, Fine(i), NEW N \in Needs, NEW w, Plain(i, N, w), N["t"] = w, N["tmp"] = w,
         Whole64(i, 2) \/ IsImm(i, 3)
  PROVE  /\ Suits(i, N, handle_vpermpd(i))
         /\ (i.it = "vpshufb" => Whole64(i, 2)) => Suits(i, N, handle_v_shuffle_int(i))
         /\ (i.it \in {"vpermd", "vpermps"} => Whole64(i, 2)) => Suits(i, N, handle_v_perm_int(i))
<1>1. /\ Arg(i, N, Imm(3)) /\ Arg(i, N, Src(i, 2)) /\ Arg(i, N, Src(i, 3)) /\ Given(i, N, <<>>)
      /\ Suits(i, N, AvxOpLoader(i, 2, "s")) /\ Suits(i, N, AvxOpLoader(i, 3, "s")) /\ Op(i, 1).w = w
      /\ Whole64(i, 2) => Arg(i, N, Vec(i, 2))
  BY ArgsFit, GivenClosed, FitsPlain DEF Plain
<1>2. /\ Suits(i, N, MERR_INSN) /\ Suits(i, N, MERR_OK)
      /\ \A c, p : Suits(i, N, p) => Suits(i, N, QASSERT(c, p))
      /\ \A p, q : Suits(i, N, p) /\ Suits(i, N, q) => Suits(i, N, p \o q)
  BY FitsEnds, Fitting
<1>3. /\ Given(i, N, <<Src(i, 2), Imm(3)>>)
      /\ Whole64(i, 2) => Given(i, N, <<Src(i, 3), Vec(i, 2)>>) /\ Given(i, N, <<Vec(i, 2), Src(i, 3)>>)
  BY <1>1, GivenClosed
<1>4. /\ Whole64(i, 2) => Suits(i, N, Binary(i, <<>>))
      /\ \A args : Given(i, N, args) => Suits(i, N, Intrinsic(i, args)) /\ Given(i, N, MaskedArgs(i, w, args))
  BY <1>1, FitsPlain
<1>5. Suits(i, N, handle_vpermpd(i))
  <2> DEFINE n == IF IsImm(i, 3) THEN 2 ELSE 3
             args == IF IsImm(i, 3) THEN <<Src(i, 2), Imm(3)>> ELSE <<Vec(i, 2), Src(i, 3)>>
  <2>1. Given(i, N, args) /\ Suits(i, N, AvxOpLoader(i, n, "s"))
    BY <1>1, <1>3
  <2> HIDE DEF args, n
  <2>2. Suits(i, N, CallIntoVec(i, w, MaskedArgs(i, w, args)))
    BY <1>4, <2>1, FitsIntoVec
  <2>3. Suits(i, N, AvxOpLoader(i, n, "s") \o CallIntoVec(i, w, MaskedArgs(i, w, args)) \o MERR_OK)
    BY <1>2, <2>1, <2>2
  <2> QED BY <1>1, <1>2, <2>3 DEF handle_vpermpd, n, args
<1>6. ASSUME i.it = "vpshufb" => Whole64(i, 2) PROVE Suits(i, N, handle_v_shuffle_int(i))
  BY <1>1, <1>2, <1>3, <1>4, <1>6 DEF handle_v_shuffle_int
<1>7. ASSUME i.it \in {"vpermd", "vpermps"} => Whole64(i, 2) PROVE Suits(i, N, handle_v_perm_int(i))
  <2> DEFINE swapped == Intrinsic(i, <<Src(i, 3), Vec(i, 2)>>)
             fixed == Intrinsic(i, <<Src(i, 2), Imm(3)>>)
  <2>1. Suits(i, N, fixed) /\ (Whole64(i, 2) => Suits(i, N, swapped))
    BY <1>3, <1>4
  <2>2. handle_v_perm_int(i) =
          IF i.it = "vpermq"
          THEN AvxOpLoader(i, 2, "s") \o (IF ~YmmOrZmm(i) THEN MERR_INSN ELSE IF IsImm(i, 3) THEN fixed
                                          ELSE AvxOpLoader(i, 3, "s") \o swapped)
          ELSE IF i.it = "vpermd"
          THEN AvxOpLoader(i, 3, "s") \o (IF YmmOrZmm(i) THEN swapped ELSE MERR_INSN)
          ELSE IF i.it = "vpermps"
          THEN IF Op(i, 1).k # "ymm" \/ Masked(i) \/ Op(i, 2).k # "ymm" THEN MERR_INSN
               ELSE AvxOpLoader(i, 3, "s") \o swapped
          ELSE AvxOpLoader(i, 2, "s") \o (IF IsImm(i, 3) THEN fixed ELSE Binary(i, <<>>))
    BY DEF handle_v_perm_int
  <2> HIDE DEF swapped, fixed
  <2> QED BY <1>1, <1>2, <1>4, <1>7, <2>1, <2>2
<1> QED BY <1>5, <1>6, <1>7

(* Logic and shuffles whose operands are all as wide as the destination,   *)
(* and what the others read.                                               *)
PlainLogic == RegularLogic \ (Hashes \union ScalarLogic \union {"vpclmulqdq", "vmovddup"})
FullWidth == PlainLogic \union {"vptest", "vtestps", "vmovntdqa", "vpsllw", "vmovddup"}

(* How many bytes a logic instruction reads of a memory operand.           *)
LEMMA LogicOperands ==
  ASSUME NEW i, Fine(i), i.it \in LogicInsns
  PROVE  /\ i.it \notin {"vpinsrb", "vpinsrd", "vpbroadcastd"} => i.it \notin FromGpr
         /\ i.it \in FullWidth /\ (i.it = "vmovddup" => ~IsXmm(Op(i, 1)))
            /\ (i.it = "vpsllw" => IsImm(i, 3)) => BytesRead(i) = Op(i, 1).w
         /\ i.it \in Hashes \union {"v4fmaddps", "v4fmaddss", "vbroadcastf32x4", "vinsertf128"} =>
              BytesRead(i) = 16
         /\ i.it = "vpsllw" /\ ~IsImm(i, 3) => BytesRead(i) = 16
         /\ i.it \in {"vbroadcasti64x4", "vinserti64x4"} => BytesRead(i) = 32
         /\ i.it = "vinsertps" => BytesRead(i) = 4
         /\ i.it \in Broadcasts \union ScalarLogic \union {"vpinsrb", "vpinsrd"} => BytesRead(i) = i.es
         /\ i.it = "vmovddup" /\ IsXmm(Op(i, 1)) => BytesRead(i) = i.es
<1>1. i.it \notin {"vpinsrb", "vpinsrd", "vpbroadcastd"} => i.it \notin FromGpr
  BY DEF LogicInsns, LogicUnary, LogicBinary, LogicTernary, LogicAccumulating, HalfMoves, Hashes, Broadcasts,
         MaskBlends, AddSubMuls, AddSub132, AddSub213, AddSub231, Selective, NonTemporal, CacheControl, Clears,
         VectorTests, ScalarLogic, pmov, FromGpr, Kmovs, Transfers, VmxInsns, IntToScalar
<1>2. i.it \in FullWidth \union Broadcasts \union ScalarLogic \union {"vpinsrb", "vpinsrd", "vmovddup"} =>
        /\ i.it \notin {"vsqrtss", "vcvtss2sd", "vinsertps", "vldmxcsr"}
        /\ i.it \notin {"vsqrtsd", "vcvtsd2ss", "vmwrite"} \union HalfMoves
        /\ i.it \notin Hashes \union {"v4fmaddps", "v4fmaddss", "vbroadcastf32x4", "vbroadcastf128",
                               "vbroadcasti128", "vinsertf128", "vcvtpd2ps", "vcvtpd2dq", "vpclmulqdq"}
        /\ i.it \notin {"vbroadcasti64x4", "vinserti64x4"}
  BY DEF FullWidth, PlainLogic, RegularLogic, Hashes, HalfMoves, MaskBlends, AddSub132, AddSub213, AddSub231,
         Broadcasts, ScalarLogic
<1>3. i.it \in FullWidth =>
        /\ i.it \notin Scalars \union ScalarMoves \union Transfers \union Kmovs \union ScalarToMask
        /\ i.it \notin ScalarToGpr \union Broadcasts \union Gathers \union {"vcomish", "vpinsrb", "vpinsrd"}
        /\ i.it \notin Extends
  BY DEF FullWidth, PlainLogic, RegularLogic, Hashes, MaskBlends, AddSub132, AddSub213, AddSub231,
         Extends, Scalars, ScalarMath, ScalarUnary, ScalarBinary, ScalarBinaryImm, ScalarMulAdds,
         ScalarConvert, IntToScalar, ScalarLogic, ScalarMoves, Transfers, Kmovs, ScalarToMask,
         ScalarToGpr, Broadcasts, Gathers
<1>4. i.it \in FullWidth /\ (i.it = "vmovddup" => ~IsXmm(Op(i, 1))) /\ (i.it = "vpsllw" => IsImm(i, 3)) =>
        BytesRead(i) = Op(i, 1).w
  BY <1>2, <1>3 DEF BytesRead, IsImm
<1>5. /\ i.it \in Broadcasts \union ScalarLogic \union {"vpinsrb", "vpinsrd"} => BytesRead(i) = i.es
      /\ i.it = "vmovddup" /\ IsXmm(Op(i, 1)) => BytesRead(i) = i.es
  <2>1. i.it \in Broadcasts \union ScalarLogic \union {"vpinsrb", "vpinsrd", "vmovddup"} =>
          i.it # "vpsllw"
    BY DEF Broadcasts, ScalarLogic
  <2>2. i.it \in ScalarLogic => i.it \in Scalars
    BY DEF Scalars
  <2> QED BY <1>2, <2>1, <2>2 DEF BytesRead
<1>6. i.it \in Hashes \union {"v4fmaddps", "v4fmaddss", "vbroadcastf32x4", "vinsertf128"} => BytesRead(i) = 16
  <2>1. i.it \in Hashes \union {"v4fmaddps", "v4fmaddss", "vbroadcastf32x4", "vinsertf128"} =>
          /\ i.it \notin {"vsqrtss", "vcvtss2sd", "vinsertps", "vldmxcsr"}
          /\ i.it \notin {"vsqrtsd", "vcvtsd2ss", "vmwrite"} \union HalfMoves
    BY DEF Hashes, HalfMoves
  <2> QED BY <2>1 DEF BytesRead
<1>7. /\ i.it = "vpsllw" /\ ~IsImm(i, 3) => BytesRead(i) = 16
      /\ i.it \in {"vbroadcasti64x4", "vinserti64x4"} => BytesRead(i) = 32
      /\ i.it = "vinsertps" => BytesRead(i) = 4
  BY DEF BytesRead, IsImm, HalfMoves, Hashes
<1> QED BY <1>1, <1>4, <1>5, <1>6, <1>7

(* Which of their operands are vectors.                                    *)
LEMMA LogicVectors ==
  ASSUME NEW i, Fine(i), i.it \in LogicInsns
  PROVE  /\ i.it \in PlainLogic \union {"vpsllw", "vmovddup"} \union ScalarLogic \union Broadcasts
                  \union VectorTests \union LogicAccumulating => Whole64(i, 1)
         /\ i.it \in (LogicBinary \ WithImm) \union LogicTernary \union LogicAccumulating \union MaskBlends
                  \union ScalarLogic \union AddSubMuls
                  \union {"vpternlogd", "vpermi2w", "vpermps", "vmovmskps", "vpmovmskb", "vpmovwb",
                          "vpmovdb", "vpmovqd"} => Whole64(i, 2)
         /\ i.it \in WithImm => Whole64(i, 2) \/ IsImm(i, 3)
<1>1. /\ i.it \in PlainLogic \union {"vmovddup"} \union ScalarLogic => IsVec(Op(i, 1))
      /\ i.it \in {"vpsllw"} \union Broadcasts \union VectorTests \union LogicAccumulating => IsVec(Op(i, 1))
  <2>1. i.it \in PlainLogic \union {"vmovddup"} \union ScalarLogic => i.it \in RegularLogic
    BY DEF PlainLogic, RegularLogic, ScalarLogic
  <2> QED BY <2>1 DEF Fine, Decoded, Sized, VecFirst
<1>2. i.it \in (LogicBinary \ WithImm) \union LogicTernary \union LogicAccumulating \union MaskBlends
         \union ScalarLogic \union AddSubMuls
         \union {"vpternlogd", "vpermi2w", "vpermps", "vmovmskps", "vpmovmskb", "vpmovwb",
                 "vpmovdb", "vpmovqd"} => IsVec(Op(i, 2))
  BY DEF Fine, Sized, VecSecond, AddSubMuls
<1>3. i.it \in WithImm => IsVec(Op(i, 2)) \/ IsImm(i, 3)
  BY DEF Fine, Sized, IsImm
<1> QED BY <1>1, <1>2, <1>3, FineIs

(* Those that read as many as they write.                                  *)
LEMMA LogicPlain ==
  ASSUME NEW i, Fine(i), i.it \in PlainLogic \/ (i.it = "vmovddup" /\ ~IsXmm(Op(i, 1)))
                           \/ (i.it = "vpsllw" /\ IsImm(i, 3)),
         i.it \in LogicInsns
  PROVE  LET w == Op(i, 1).w
             N == Need(w, w, w)
         IN  N \in Needs /\ Plain(i, N, w) /\ N["t"] = w /\ N["tmp"] = w
<1>1. /\ Known(i) /\ i.it \notin FromGpr /\ Whole64(i, 1) /\ BytesRead(i) = Op(i, 1).w
      /\ Op(i, 1).w \in Nat
  <2>1. i.it \in FullWidth /\ i.it \notin {"vpinsrb", "vpinsrd", "vpbroadcastd"}
    BY DEF FullWidth, PlainLogic, RegularLogic, Hashes, MaskBlends, AddSub132, AddSub213, AddSub231
  <2>2. (i.it = "vmovddup" => ~IsXmm(Op(i, 1))) /\ (i.it = "vpsllw" => IsImm(i, 3))
    BY DEF PlainLogic, RegularLogic, Hashes, MaskBlends, AddSub132, AddSub213, AddSub231
  <2>3. Op(i, 1).w \in Nat /\ Known(i)
    BY FineIs DEF Known
  <2> QED BY <2>1, <2>2, <2>3, LogicOperands, LogicVectors
<1>2. Reaches(i, 2, Op(i, 1).w) /\ Reaches(i, 3, Op(i, 1).w) /\ Whole64(i, 4)
  BY <1>1, FineIs DEF Source64
<1> QED BY <1>1, <1>2, NeedIs DEF Plain

(* Logic that reads its operands at widths of their own.                   *)
LEMMA ShiftsFit ==
  ASSUME NEW i, Fine(i), i.it \in LogicInsns
  PROVE  /\ i.it = "vpsllw" => Fitted(i, handle_v_shift(i))
         /\ i.it = "vpclmulqdq" => Fitted(i, handle_v_pclmul(i))
         /\ i.it \in Hashes => Fitted(i, handle_v_sha(i))
         /\ i.it = "vcmpeqss" => Fitted(i, handle_vcmp_ps_pd(i))
<1> DEFINE w == Op(i, 1).w
<1>1. /\ Known(i) /\ i.b64 /\ w \in Nat /\ i.es \in Nat
      /\ \A n : IsXmm(Op(i, n)) => Whole64(i, n)
  BY FineIs DEF Known
<1>2. ASSUME i.it = "vpsllw" PROVE Fitted(i, handle_v_shift(i))
  <2>1. CASE IsImm(i, 3)
    <3> DEFINE N == Need(w, w, w)
    <3>1. N \in Needs /\ Plain(i, N, w)
      BY <1>2, <2>1, LogicPlain
    <3> HIDE DEF N
    <3>2. Suits(i, N, AvxOpLoader(i, 2, "s")) /\ Arg(i, N, Src(i, 2)) /\ Arg(i, N, Imm(3))
      BY <3>1, FitsPlain, ArgsFit
    <3>3. Given(i, N, <<Src(i, 2), Imm(3)>>)
      BY <3>2, GivenClosed
    <3>4. Suits(i, N, Intrinsic(i, <<Src(i, 2), Imm(3)>>))
      BY <3>1, <3>3, FitsPlain
    <3> QED BY <2>1, <3>1, <3>2, <3>4, Fitting DEF handle_v_shift, Fitted
  <2>2. CASE ~IsImm(i, 3)
    <3> DEFINE N == Need(16, 16, 16)
    <3>1. N \in Needs /\ N["s"] = 16
      BY NeedIs
    <3> HIDE DEF N
    <3>2. Whole64(i, 1) /\ Whole64(i, 2) /\ i.it \notin FromGpr /\ BytesRead(i) = 16
      BY <1>2, <2>2, LogicOperands, LogicVectors DEF WithImm
    <3>3. Reaches(i, 3, 16)
      BY <3>2, FineIs
    <3>4. Suits(i, N, AvxOpLoader(i, 3, "s")) /\ Arg(i, N, Loaded(i, 3, "s", 16))
      BY <1>1, <3>1, <3>3, FitsSource
    <3>5. ~IsMem(Op(i, 2))
      BY <3>2 DEF Whole64, IsMem
    <3>6. Arg(i, N, Src(i, 2)) /\ AvxOpLoader(i, 2, "s") = <<>>
      BY <3>2, <3>5, ArgsFit DEF Src, Loaded, AvxOpLoader
    <3>7. Given(i, N, <<Src(i, 2), Loaded(i, 3, "s", 16)>>)
      BY <3>4, <3>6, GivenClosed
    <3>8. Suits(i, N, Intrinsic(i, <<Src(i, 2), Loaded(i, 3, "s", 16)>>))
      BY <3>2, <3>7, FitsIntrinsic
    <3> QED BY <2>2, <3>1, <3>4, <3>6, <3>8, FitsEnds, Fitting DEF handle_v_shift, Fitted
  <2> QED BY <2>1, <2>2
<1>3. ASSUME i.it = "vpclmulqdq" PROVE Fitted(i, handle_v_pclmul(i))
  <2> DEFINE N == Need(0, 0, 0)
             b == IF IsMem(Op(i, 3)) THEN Deref("addr", w) ELSE Reg(3, w)
             get == IF IsMem(Op(i, 3)) THEN make_vector_load_mop(i, 3) ELSE <<>>
  <2>1. N \in Needs
    BY NeedIs
  <2> HIDE DEF N
  <2>2. Whole64(i, 2) /\ Source64(i, 3)
    BY <1>3, LogicOperands, LogicVectors, FineIs DEF LogicTernary
  <2>3. Arg(i, N, Reg(2, w)) /\ Arg(i, N, Imm(4)) /\ (~IsMem(Op(i, 3)) => Arg(i, N, Reg(3, w)))
    BY <2>2, ArgsFit DEF Source64
  <2>4. Arg(i, N, b) /\ Suits(i, N, get)
    BY <1>1, <2>1, <2>3, FitsAddress, FitsEnds
  <2> HIDE DEF b, get
  <2>5. Given(i, N, <<Reg(2, w), b, Imm(4)>>)
    BY <2>3, <2>4, GivenClosed
  <2>6. Suits(i, N, get \o <<Call(Reg(1, w), <<Reg(2, w), b, Imm(4)>>)>> \o MERR_OK)
    BY <2>4, <2>5, FitsEmits, FitsEnds, Fitting
  <2> QED BY <2>1, <2>6, FitsEnds DEF handle_v_pclmul, b, get, Fitted
<1>4. ASSUME i.it \in Hashes PROVE Fitted(i, handle_v_sha(i))
  <2> DEFINE N == Need(16, 16, 16)
             third == CASE i.it = "sha256rnds2" -> <<Loaded(i, 3, "s", 16)>>
                        [] i.it = "sha1rnds4" -> <<Imm(3)>>
                        [] OTHER -> <<>>
             call == <<Call(Reg(1, 16), <<Reg(1, 16), Loaded(i, 2, "s", 16)>> \o third)>>
  <2>1. N \in Needs /\ N["s"] = 16
    BY NeedIs
  <2> HIDE DEF N
  <2>2. i.it \notin FromGpr /\ BytesRead(i) = 16
    <3>1. i.it \notin {"vpinsrb", "vpinsrd", "vpbroadcastd"}
      BY <1>4 DEF Hashes
    <3> QED BY <1>4, <3>1, LogicOperands
  <2>3. Reaches(i, 2, 16) /\ Reaches(i, 3, 16)
    BY <2>2, FineIs
  <2>4. /\ Suits(i, N, AvxOpLoader(i, 2, "s")) /\ Arg(i, N, Loaded(i, 2, "s", 16))
        /\ Arg(i, N, Loaded(i, 3, "s", 16)) /\ Arg(i, N, Imm(3))
        /\ IsXmm(Op(i, 1)) => Arg(i, N, Reg(1, 16))
    BY <1>1, <2>1, <2>3, FitsSource, ArgsFit
  <2>5. Given(i, N, <<Loaded(i, 3, "s", 16)>>) /\ Given(i, N, <<Imm(3)>>) /\ Given(i, N, <<>>)
    BY <2>4, GivenClosed
  <2>6. Given(i, N, third)
    BY <2>5, Zenon
  <2> HIDE DEF third
  <2>7. IsXmm(Op(i, 1)) => Given(i, N, <<Reg(1, 16), Loaded(i, 2, "s", 16)>> \o third)
    BY <2>4, <2>6, GivenClosed
  <2>8. IsXmm(Op(i, 1)) => Suits(i, N, call)
    BY <2>7, FitsEmits
  <2>9. handle_v_sha(i) = QASSERT(IsXmm(Op(i, 1)), AvxOpLoader(i, 2, "s")
                            \o QASSERT(i.it = "sha1rnds4" => IsImm(i, 3), call \o MERR_OK))
    BY DEF handle_v_sha, third
  <2> HIDE DEF call
  <2>10. IsXmm(Op(i, 1)) => Suits(i, N, AvxOpLoader(i, 2, "s")
                              \o QASSERT(i.it = "sha1rnds4" => IsImm(i, 3), call \o MERR_OK))
    BY <2>4, <2>8, FitsEnds, Fitting
  <2>11. Suits(i, N, INTERR)
    BY FitsEnds
  <2> QED BY <2>1, <2>9, <2>10, <2>11 DEF Fitted, QASSERT
<1>5. ASSUME i.it = "vcmpeqss" PROVE Fitted(i, handle_vcmp_ps_pd(i))
  <2> DEFINE N == Need(i.es, 16, 16)
  <2>1. N \in Needs /\ N["s"] = i.es /\ N["t"] = 16
    BY <1>1, NeedIs
  <2> HIDE DEF N
  <2>2. Whole64(i, 1) /\ Whole64(i, 2) /\ i.it \notin FromGpr /\ BytesRead(i) = i.es
    BY <1>5, LogicOperands, LogicVectors DEF ScalarLogic
  <2>3. Source64(i, 3) /\ Reaches(i, 3, i.es)
    BY <1>1, <2>2, FineIs
  <2>4. Given(i, N, <<>>)
    BY GivenClosed
  <2>5. Suits(i, N, ScalarBinaryOp(i, <<>>))
    BY <1>1, <2>1, <2>2, <2>3, <2>4, FitsScalars
  <2> QED BY <1>5, <2>1, <2>5 DEF handle_vcmp_ps_pd, Fitted
<1> QED BY <1>2, <1>3, <1>4, <1>5

(* The instructions of AVX-512ER and of four steps.                        *)
LEMMA ErFits ==
  ASSUME NEW i, Fine(i), i.it \in LogicInsns
  PROVE  /\ i.it \in {"vexp2ps", "vrcp28ss"} => Fitted(i, handle_v_er(i))
         /\ i.it \in {"v4fmaddps", "v4fmaddss"} => Fitted(i, handle_v_4fma(i))
         /\ i.it = "vcomish" => Fitted(i, handle_v_comish(i))
<1> DEFINE w == Op(i, 1).w
<1>1. /\ Known(i) /\ w \in Nat
      /\ i.it \in {"vexp2ps", "vrcp28ss", "v4fmaddps", "v4fmaddss", "vcomish"} =>
           /\ Whole64(i, 1) /\ i.it \notin FromGpr /\ Source64(i, 2) /\ Source64(i, 3)
           /\ i.it \in {"vrcp28ss", "v4fmaddps", "v4fmaddss"} => Whole64(i, 2)
  <2>1. i.it \in {"vexp2ps", "vrcp28ss", "v4fmaddps", "v4fmaddss", "vcomish"} =>
           i.it \in PlainLogic \union ScalarLogic \union VectorTests \union LogicAccumulating
    BY DEF PlainLogic, RegularLogic, Hashes, ScalarLogic, VectorTests, LogicAccumulating
  <2>2. i.it \in {"vrcp28ss", "v4fmaddps", "v4fmaddss"} => i.it \in LogicAccumulating \union ScalarLogic
    BY DEF ScalarLogic, LogicAccumulating
  <2>3. i.it \in {"vexp2ps", "vrcp28ss", "v4fmaddps", "v4fmaddss", "vcomish"} => i.it \notin FromGpr
    BY LogicOperands
  <2>4. Known(i) /\ w \in Nat
    BY FineIs DEF Known
  <2> QED BY <2>1, <2>2, <2>3, <2>4, LogicVectors, FineIs
<1>2. ASSUME i.it \in {"vexp2ps", "vrcp28ss"} PROVE Fitted(i, handle_v_er(i))
  <2> DEFINE N == Need(w, w, w)
             scalar == i.it \in ScalarLogic
             n == IF scalar THEN 3 ELSE 2
             first == IF scalar THEN <<Vec(i, 2)>> ELSE <<>>
             args == MaskedArgs(i, w, first \o <<VecSource(i, n, w)>>)
             call == IF scalar THEN <<ScalarCall(Reg(1, w), args)>> ELSE CallIntoVec(i, w, args)
  <2>1. N \in Needs /\ N["s"] = w /\ N["t"] = w /\ N["tmp"] = w
    BY <1>1, NeedIs
  <2> HIDE DEF N
  <2>2. Source64(i, n) /\ (scalar => Whole64(i, 2))
    BY <1>1, <1>2 DEF ScalarLogic
  <2>3. Given(i, N, first)
    BY <2>2, ArgsFit, GivenClosed
  <2> HIDE DEF first, n
  <2>4. Suits(i, N, add_vec_source(i, n, w)) /\ Given(i, N, <<VecSource(i, n, w)>>)
    BY <1>1, <2>1, <2>2, FitsVecSource, GivenClosed DEF Source64
  <2>5. Given(i, N, args)
    BY <1>1, <1>2, <2>3, <2>4, GivenClosed, FitsIntrinsic
  <2> HIDE DEF args
  <2>6. Suits(i, N, call)
    BY <2>1, <2>5, FitsIntoVec, FitsEmits
  <2>7. handle_v_er(i) = add_vec_source(i, n, w) \o call \o MERR_OK
    BY DEF handle_v_er, args, first, n
  <2> HIDE DEF call
  <2> QED BY <2>1, <2>4, <2>6, <2>7, FitsEnds, Fitting DEF Fitted
<1>3. ASSUME i.it \in {"v4fmaddps", "v4fmaddss"} PROVE Fitted(i, handle_v_4fma(i))
  <2> DEFINE N == Need(16, 16, w)
             args == <<Vec(i, 1), Reg(2, 64), Loaded(i, 3, "s", 16)>>
  <2>1. N \in Needs /\ N["s"] = 16 /\ N["tmp"] = w
    BY <1>1, NeedIs
  <2> HIDE DEF N
  <2>2. Reaches(i, 3, 16)
    BY <1>1, <1>3, LogicOperands, FineIs
  <2>3. Suits(i, N, AvxOpLoader(i, 3, "s")) /\ Arg(i, N, Loaded(i, 3, "s", 16))
    BY <1>1, <2>1, <2>2, FitsSource
  <2>4. Given(i, N, args)
    BY <1>1, <1>3, <2>3, ArgsFit, GivenClosed
  <2>5. handle_v_4fma(i) = AvxOpLoader(i, 3, "s") \o CallIntoVec(i, w, args) \o MERR_OK
    BY DEF handle_v_4fma
  <2> HIDE DEF args
  <2> QED BY <2>1, <2>3, <2>4, <2>5, FitsIntoVec, FitsEnds, Fitting DEF Fitted
<1>4. ASSUME i.it = "vcomish" PROVE Fitted(i, handle_v_comish(i))
  <2> DEFINE N == Need(16, 16, 4)
             args == <<Reg(1, 16), VecSource(i, 2, 16)>>
  <2>1. N \in Needs /\ N["s"] = 16 /\ N["t"] = 16 /\ N["tmp"] = 4
    BY NeedIs
  <2> HIDE DEF N
  <2>2. Suits(i, N, add_vec_source(i, 2, 16)) /\ Arg(i, N, VecSource(i, 2, 16))
    BY <1>1, <1>4, <2>1, FitsVecSource DEF Source64
  <2>3. Given(i, N, args)
    BY <1>1, <1>4, <2>2, ArgsFit, GivenClosed
  <2> HIDE DEF args
  <2>4. Suits(i, N, <<Alloc("tmp", 4), Call(Tmp("tmp", 4), args)>>)
    BY <2>1, <2>3, FitsIntoKreg
  <2> QED BY <2>1, <2>2, <2>4, FitsEnds, Fitting DEF handle_v_comish, args, Fitted
<1> QED BY <1>2, <1>3, <1>4

(* Logic that goes by the address of an operand, or only has an effect.    *)
LEMMA AddressedLogicFits ==
  ASSUME NEW i, Fine(i), i.it \in LogicInsns
  PROVE  /\ Fitted(i, handle_cache_ctrl(i)) /\ Fitted(i, handle_vzeroall(i))
         /\ Fitted(i, handle_vzeroupper_nop(i))
         /\ i.it = "vpmaskmovd" => Fitted(i, handle_vpmaskmov_int(i))
         /\ i.it \in HalfMoves => Fitted(i, handle_vmovl_h_ps_pd(i))
<1> DEFINE N == Need(0, 0, 0)
<1>1. N \in Needs /\ i.b64
  BY NeedIs, FineIs DEF Known
<1> HIDE DEF N
<1>2. /\ Suits(i, N, load_memory_address(i, 1)) /\ Suits(i, N, load_memory_address(i, 3))
      /\ Arg(i, N, MemoryAddress(i))
  BY <1>1, FitsAddress
<1>3. /\ Suits(i, N, MERR_OK) /\ Suits(i, N, MERR_INSN)
      /\ \A p, q : Suits(i, N, p) /\ Suits(i, N, q) => Suits(i, N, p \o q)
  BY FitsEnds, Fitting
<1>4. \A dst, args : Given(i, N, args) => Suits(i, N, <<Call(dst, args)>>)
  BY FitsEmits
<1>5. Suits(i, N, handle_cache_ctrl(i))
  <2>1. Given(i, N, <<MemoryAddress(i)>>)
    BY <1>2, GivenClosed
  <2>2. Suits(i, N, load_memory_address(i, 1) \o <<Call(Effect, <<MemoryAddress(i)>>)>> \o MERR_OK)
    BY <1>2, <1>3, <1>4, <2>1
  <2> QED BY <1>3, <2>2 DEF handle_cache_ctrl
<1>6. Suits(i, N, handle_vzeroall(i)) /\ Suits(i, N, handle_vzeroupper_nop(i))
  BY <1>3, <1>4, GivenClosed DEF handle_vzeroall, handle_vzeroupper_nop
<1>7. ASSUME i.it \in HalfMoves \union {"vpmaskmovd"} PROVE i.it \notin FromGpr
  <2>1. i.it \notin {"vpinsrb", "vpinsrd", "vpbroadcastd"}
    BY <1>7 DEF HalfMoves
  <2> QED BY <2>1, LogicOperands
<1>8. ASSUME i.it \in HalfMoves \union {"vpmaskmovd"}
      PROVE  /\ IsMem(Op(i, 1)) => Whole64(i, 2) /\ Whole64(i, 3)
             /\ IsVec(Op(i, 2)) => Whole64(i, 2)
  BY <1>7, <1>8, FineIs DEF Source64
<1>9. ASSUME i.it = "vpmaskmovd" PROVE Suits(i, N, handle_vpmaskmov_int(i))
  <2> DEFINE w == get_vector_size(Op(i, 3))
             stored == <<MemoryAddress(i), Reg(2, w), Reg(3, w)>>
             loaded == <<MemoryAddress(i), Vec(i, 2)>>
  <2>1. /\ IsMem(Op(i, 1)) => Given(i, N, stored)
        /\ VecRegs12(i) => Given(i, N, loaded)
    BY <1>2, <1>8, <1>9, ArgsFit, GivenClosed DEF VecRegs12
  <2>2. handle_vpmaskmov_int(i) =
          CASE IsMem(Op(i, 1)) -> load_memory_address(i, 1) \o <<Call(Effect, stored)>> \o MERR_OK
            [] VecRegs12(i) /\ IsMem(Op(i, 3)) ->
                 load_memory_address(i, 3) \o <<Call(Vec(i, 1), loaded)>> \o MERR_OK
            [] OTHER -> MERR_INSN
    BY DEF handle_vpmaskmov_int
  <2> HIDE DEF stored, loaded
  <2>3. /\ IsMem(Op(i, 1)) =>
             Suits(i, N, load_memory_address(i, 1) \o <<Call(Effect, stored)>> \o MERR_OK)
        /\ VecRegs12(i) /\ IsMem(Op(i, 3)) =>
             Suits(i, N, load_memory_address(i, 3) \o <<Call(Vec(i, 1), loaded)>> \o MERR_OK)
    BY <1>2, <1>3, <1>4, <2>1
  <2> QED BY <1>3, <2>2, <2>3
<1>10. ASSUME i.it \in HalfMoves PROVE Suits(i, N, handle_vmovl_h_ps_pd(i))
  <2> DEFINE stored == <<MemoryAddress(i), Reg(2, 16)>>
             loaded == <<Reg(2, 16), MemoryAddress(i)>>
  <2>1. IsXmm(Op(i, 2)) => Given(i, N, stored) /\ Given(i, N, loaded)
    BY <1>2, <1>8, <1>10, FineIs, ArgsFit, GivenClosed
  <2>2. handle_vmovl_h_ps_pd(i) =
          CASE IsMem(Op(i, 1)) /\ IsXmm(Op(i, 2)) ->
                 load_memory_address(i, 1) \o <<Call(Effect, stored)>> \o MERR_OK
            [] Xmms12(i) /\ IsMem(Op(i, 3)) ->
                 load_memory_address(i, 3) \o <<Call(Reg(1, 16), loaded)>> \o MERR_OK
            [] OTHER -> MERR_INSN
    BY DEF handle_vmovl_h_ps_pd
  <2> HIDE DEF stored, loaded
  <2>3. IsXmm(Op(i, 2)) =>
          /\ Suits(i, N, load_memory_address(i, 1) \o <<Call(Effect, stored)>> \o MERR_OK)
          /\ Suits(i, N, load_memory_address(i, 3) \o <<Call(Reg(1, 16), loaded)>> \o MERR_OK)
    BY <1>2, <1>3, <1>4, <2>1
  <2> QED BY <1>3, <2>2, <2>3 DEF Xmms12
<1> QED BY <1>1, <1>5, <1>6, <1>9, <1>10 DEF Fitted

(* A plan that falls back with its first step.                             *)
LEMMA UnsureFirst ==
  ASSUME NEW i, NEW N, NEW a, FallsBack(<<a>>)
  PROVE  /\ \A b : Suits(i, N, <<a, b>>)
         /\ \A b, c, d, e : Suits(i, N, <<a, b, c, d, e>>)
<1>1. ASSUME NEW b, NEW c, NEW d, NEW e PROVE Suits(i, N, <<a, b, c, d, e>>)
  <2>1. <<a, b, c, d, e>> = <<a, b, c>> \o <<d, e>> /\ <<a, b, c>> = <<a>> \o <<b, c>>
    OBVIOUS
  <2>2. IsPlan(<<a>>) /\ IsPlan(<<b, c>>) /\ IsPlan(<<a, b, c>>) /\ IsPlan(<<d, e>>)
    BY Tuples
  <2>3. FallsBack(<<a>> \o <<b, c>>)
    BY <2>2, FallsBackCompose
  <2>4. FallsBack(<<a, b, c>>)
    BY <2>1, <2>3
  <2>5. Suits(i, N, <<a, b, c>> \o <<d, e>>)
    BY <2>2, <2>4, Fitting
  <2> QED BY <2>1, <2>5
<1>2. ASSUME NEW b PROVE Suits(i, N, <<a, b>>)
  <2>1. <<a, b>> = <<a>> \o <<b>> /\ IsPlan(<<a>>) /\ IsPlan(<<b>>)
    BY Tuples
  <2> QED BY <2>1, Fitting
<1> QED BY <1>1, <1>2

(* Logic that selects, streams or tests.                                   *)
LEMMA SelectiveLogicFits ==
  ASSUME NEW i, Fine(i), i.it \in LogicInsns
  PROVE  /\ i.it = "vmaskmovps" => Fitted(i, handle_vmaskmov_ps_pd(i))
         /\ i.it \in NonTemporal => Fitted(i, handle_vmovnt(i))
         /\ i.it \in {"vptest", "vtestps"} => Fitted(i, handle_vptest(i))
         /\ i.it \in {"vmovmskps", "vpmovmskb"} => Fitted(i, handle_vmovmsk(i))
         /\ i.it = "vphminposuw" => Fitted(i, handle_vphminposuw(i))
<1> DEFINE w == Op(i, 1).w
<1>1. Known(i) /\ w \in Nat
  BY FineIs DEF Known
<1>2. ASSUME i.it = "vmaskmovps" PROVE Fitted(i, handle_vmaskmov_ps_pd(i))
  <2> DEFINE N == Need(0, 0, 0)
             z == IF IsXmm(Op(i, 1)) \/ (IsMem(Op(i, 1)) /\ IsXmm(Op(i, 2))) THEN 16 ELSE 32
             stored == <<Tmp("s", z), Reg(3, z), Reg(2, z)>>
             blended == <<LoadUnchecked(3, "s", z), Alloc("zero", z), Call(Tmp("zero", z), <<>>),
                          Call(Reg(1, z), <<Tmp("zero", z), Tmp("s", z), Reg(2, z)>>), Free("zero")>>
  <2>1. N \in Needs
    BY NeedIs
  <2> HIDE DEF N
  <2>2. handle_vmaskmov_ps_pd(i) =
          IF IsMem(Op(i, 1))
          THEN <<LoadUnchecked(1, "s", z)>> \o CallIntoMem(i, z, stored) \o MERR_OK
          ELSE QASSERT(IsMem(Op(i, 3)), blended \o MERR_OK)
    BY Zenon DEF handle_vmaskmov_ps_pd, z, stored, blended
  <2>3. \A n, p : IsPlan(p) => Suits(i, N, <<LoadUnchecked(n, "s", z)>> \o p)
    BY UnsureSteps, Fitting, Tuples
  <2>4. Suits(i, N, blended)
    <3>1. FallsBack(<<LoadUnchecked(3, "s", z)>>)
      BY UnsureSteps
    <3>2. \A b, c, d, e : Suits(i, N, <<LoadUnchecked(3, "s", z), b, c, d, e>>)
      <4> HIDE DEF z
      <4> QED BY <3>1, UnsureFirst
    <3> QED BY <3>2, Zenon DEF blended
  <2> HIDE DEF stored, blended, z
  <2>5. Suits(i, N, <<LoadUnchecked(1, "s", z)>> \o CallIntoMem(i, z, stored) \o MERR_OK)
    BY <2>3, UnsureSteps, FitsIntoMem, FitsEnds, Fitting, Tuples
  <2> QED BY <2>1, <2>2, <2>4, <2>5, FitsEnds, Fitting DEF Fitted
<1>3. ASSUME i.it \in NonTemporal PROVE Fitted(i, handle_vmovnt(i))
  <2> DEFINE N == Need(w, w, w)
  <2>1. N \in Needs /\ N["s"] = w
    BY <1>1, NeedIs
  <2> HIDE DEF N
  <2>2. ASSUME i.it = "vmovntdqa", IsMem(Op(i, 2)) PROVE Suits(i, N, handle_vmovnt(i))
    <3> DEFINE z == IF Op(i, 1).k = "zmm" THEN 32 ELSE Op(i, 1).w
               src == Src(i, 2)
    <3>1. i.it \notin FromGpr /\ BytesRead(i) = w
      BY <2>2, LogicOperands DEF FullWidth
    <3>2. Reaches(i, 2, w)
      BY <1>1, <3>1, FineIs
    <3>3. Suits(i, N, AvxOpLoader(i, 2, "s")) /\ Arg(i, N, src)
      BY <1>1, <2>1, <3>2, FitsSource DEF Src
    <3>4. handle_vmovnt(i) = AvxOpLoader(i, 2, "s") \o <<Mov(Reg(1, z), src)>> \o MERR_OK
      BY <2>2 DEF handle_vmovnt, QASSERT
    <3> HIDE DEF src, z
    <3>5. Takes(i, N, src)
      BY <3>3, ArgsFit
    <3> QED BY <3>3, <3>4, <3>5, FitsEmits, FitsEnds, Fitting
  <2>3. ASSUME i.it # "vmovntdqa" PROVE Suits(i, N, handle_vmovnt(i))
    <3> DEFINE store == unchecked_store(i, 1, Reg(2, get_vector_size(Op(i, 2))))
    <3>1. IsPlan(store) /\ FallsBack(store)
      BY UncheckedStore
    <3>2. handle_vmovnt(i) = QASSERT(IsMem(Op(i, 1)), store \o MERR_OK)
      BY <2>3 DEF handle_vmovnt
    <3> HIDE DEF store
    <3>3. Suits(i, N, store \o MERR_OK)
      BY <3>1, FitsEnds, Fitting
    <3> QED BY <3>2, <3>3, FitsEnds
  <2>4. ASSUME i.it = "vmovntdqa", ~IsMem(Op(i, 2)) PROVE Suits(i, N, handle_vmovnt(i))
    BY <2>4, FitsEnds DEF handle_vmovnt, QASSERT
  <2> QED BY <2>1, <2>2, <2>3, <2>4 DEF Fitted
<1>4. ASSUME i.it \in {"vptest", "vtestps"} PROVE Fitted(i, handle_vptest(i))
  <2> DEFINE N == Need(w, w, w)
             args == <<Vec(i, 1), Src(i, 2)>>
  <2>1. N \in Needs /\ N["s"] = w
    BY <1>1, NeedIs
  <2> HIDE DEF N
  <2>2. Whole64(i, 1) /\ i.it \notin FromGpr /\ BytesRead(i) = w
    <3>1. i.it \in VectorTests
      BY <1>4 DEF VectorTests
    <3> QED BY <1>4, <3>1, LogicOperands, LogicVectors DEF FullWidth
  <2>3. Reaches(i, 2, w)
    BY <1>1, <2>2, FineIs
  <2>4. Suits(i, N, AvxOpLoader(i, 2, "s")) /\ Arg(i, N, Src(i, 2)) /\ Arg(i, N, Vec(i, 1))
    BY <1>1, <2>1, <2>2, <2>3, FitsSource, ArgsFit DEF Src
  <2>5. Given(i, N, args) /\ Takes(i, N, Number0)
    BY <2>4, GivenClosed, ArgsFit
  <2>6. handle_vptest(i) = AvxOpLoader(i, 2, "s")
          \o <<Call(ZF, args), Call(CF, args), Mov(OtherFlags, Number0)>> \o MERR_OK
    BY DEF handle_vptest, emit_test_flags
  <2> HIDE DEF args
  <2>7. <<Call(ZF, args), Call(CF, args), Mov(OtherFlags, Number0)>> =
          <<Call(ZF, args)>> \o <<Call(CF, args)>> \o <<Mov(OtherFlags, Number0)>>
    OBVIOUS
  <2>8. Suits(i, N, <<Call(ZF, args), Call(CF, args), Mov(OtherFlags, Number0)>>)
    BY <2>5, <2>7, FitsEmits, Fitting
  <2> QED BY <2>1, <2>4, <2>6, <2>8, FitsEnds, Fitting DEF Fitted
<1>5. ASSUME i.it \in {"vmovmskps", "vpmovmskb"} PROVE Fitted(i, handle_vmovmsk(i))
  <2> DEFINE N == Need(0, 0, 0)
             args == <<Reg(2, get_vector_size(Op(i, 2)))>>
  <2>1. N \in Needs
    BY NeedIs
  <2> HIDE DEF N
  <2>2. Whole64(i, 2)
    BY <1>5, LogicVectors
  <2>3. Given(i, N, args)
    BY <2>2, ArgsFit, GivenClosed
  <2>4. handle_vmovmsk(i) = <<Call(Reg(1, 4), args)>> \o MERR_OK
    BY DEF handle_vmovmsk
  <2> HIDE DEF args
  <2> QED BY <2>1, <2>3, <2>4, FitsEmits, FitsEnds, Fitting DEF Fitted
<1>6. ASSUME i.it = "vphminposuw" PROVE Fitted(i, handle_vphminposuw(i))
  <2> DEFINE N == Need(w, w, w)
  <2>1. N \in Needs /\ Plain(i, N, w) /\ N["t"] = w /\ N["tmp"] = w
    BY <1>6, LogicPlain DEF PlainLogic, RegularLogic, Hashes, ScalarLogic
  <2> HIDE DEF N
  <2>2. Suits(i, N, Unary(IgnoresMask(i), <<>>))
    BY <2>1, PlainUnaryFits
  <2> QED BY <2>1, <2>2, FitsEnds DEF handle_vphminposuw, Fitted
<1> QED BY <1>2, <1>3, <1>4, <1>5, <1>6

(* Broadcasts read one element, or one part.                               *)
LEMMA LowBroadcastFits ==
  ASSUME NEW i, Fine(i), Source64(i, 2), BytesRead(i) = i.es
  PROVE  Fitted(i, broadcast_low(i))
<1> DEFINE N == Need(i.es, 16, 0)
           call == <<Call(Vec(i, 1), <<Loaded(i, 2, "t", 16)>>)>>
<1>1. Known(i) /\ i.es \in Nat /\ i.es <= 8 /\ Reaches(i, 2, i.es)
  BY MovOperands
<1>2. N \in Needs /\ N["s"] = i.es /\ N["t"] = 16
  BY <1>1, NeedIs
<1> HIDE DEF N
<1>3. Suits(i, N, ScalarSource(i, 2, i.es)) /\ Arg(i, N, Loaded(i, 2, "t", 16))
  BY <1>1, <1>2, FitsScalarSource DEF Source64
<1>4. Given(i, N, <<Loaded(i, 2, "t", 16)>>)
  BY <1>3, GivenClosed
<1>5. Suits(i, N, call)
  BY <1>4, FitsEmits
<1>6. broadcast_low(i) = ScalarSource(i, 2, i.es) \o call \o FreeIfMem(i, 2, "t") \o MERR_OK
  BY DEF broadcast_low
<1> HIDE DEF call
<1> QED BY <1>2, <1>3, <1>5, <1>6, FitsEnds, Fitting DEF Fitted

(* The broadcast handlers, by mnemonic.                                    *)
LEMMA BroadcastsFit ==
  ASSUME NEW i, Fine(i), i.it \in LogicInsns
  PROVE  /\ i.it \in {"vbroadcastss", "vbroadcastsd"} => Fitted(i, handle_vbroadcast_ss_sd(i))
         /\ i.it = "vbroadcastf128" => Fitted(i, handle_vbroadcastf128_fp(i))
         /\ i.it = "vbroadcasti128" => Fitted(i, handle_vbroadcasti128_int(i))
         /\ i.it \in {"vbroadcastf32x4", "vbroadcasti64x4"} => Fitted(i, handle_vbroadcast_x4(i))
         /\ i.it = "vpbroadcastd" => Fitted(i, handle_vpbroadcast_d_q(i))
         /\ i.it = "vpbroadcastw" => Fitted(i, handle_vpbroadcast_b_w(i))
         /\ i.it = "vmovddup" => Fitted(i, handle_vmovddup(i))
         /\ i.it = "vbroadcastf32x2" => Fitted(i, handle_v_broadcast_x2(i))
<1> DEFINE w == Op(i, 1).w
<1>1. /\ Known(i) /\ i.es \in Nat /\ i.es <= 8 /\ w \in Nat
      /\ \A n \in 2..4, z \in Nat : z <= 8 /\ z <= BytesRead(i) => Reaches(i, n, z)
  BY MovOperands
<1>2. /\ i.it \notin {"vpinsrb", "vpinsrd", "vpbroadcastd"} => i.it \notin FromGpr /\ Source64(i, 2)
      /\ i.it \in Broadcasts => BytesRead(i) = i.es /\ Whole64(i, 1)
  BY LogicOperands, LogicVectors, FineIs
<1>3. ASSUME i.it \in {"vbroadcastss", "vbroadcastsd"} PROVE Fitted(i, handle_vbroadcast_ss_sd(i))
  <2> DEFINE N == Need(i.es, i.es, w)
             args == MaskedArgs(i, w, <<Reg(2, 16)>>)
             src == Loaded(i, 2, "s", i.es)
             one == <<Tmp("t", i.es)>>
             fill == <<Alloc("t", i.es), Mov(Tmp("t", i.es), src)>>
             wide == <<AllocElseFree("tmp", w, "t"), Call(Tmp("tmp", w), one)>>
             result1 == IF w = 64 THEN wide \o emit_write_call(1, "tmp", w) ELSE <<Call(Reg(1, w), one)>>
  <2>1. N \in Needs /\ N["s"] = i.es /\ N["t"] = i.es /\ N["tmp"] = w
    BY <1>1, NeedIs
  <2> HIDE DEF N
  <2>2. i.it \in Broadcasts
    BY <1>3 DEF Broadcasts
  <2>3. IsVec(Op(i, 2)) => Given(i, N, args)
    <3>1. IsVec(Op(i, 2)) => Given(i, N, <<Reg(2, 16)>>)
      BY FineIs, ArgsFit, GivenClosed
    <3> QED BY <1>2, <2>2, <3>1, MaskedArgsFit
  <2>4. Suits(i, N, AvxOpLoader(i, 2, "s")) /\ Arg(i, N, src)
    <3>1. Reaches(i, 2, i.es)
      BY <1>1, <1>2, <2>2
    <3> QED BY <1>1, <2>1, <3>1, FitsSource
  <2>5. Takes(i, N, src) /\ src.v # "t"
    <3>1. src.v # "t"
      BY DEF Loaded, Tmp, Reg
    <3> HIDE DEF src
    <3> QED BY <2>4, <3>1, ArgsFit
  <2>6. Suits(i, N, fill)
    <3> HIDE DEF src
    <3>1. N["t"] <= i.es
      BY <1>1, <2>1
    <3> QED BY <2>5, <3>1, KregsFit
  <2>7. Given(i, N, one)
    BY <1>1, <2>1, ArgsFit, GivenClosed
  <2> HIDE DEF args, src, one, fill
  <2>8. Suits(i, N, wide) /\ Suits(i, N, emit_write_call(1, "tmp", w))
    BY <2>1, <2>7, FitsIntoKreg
  <2>9. Suits(i, N, <<Call(Reg(1, w), one)>>)
    BY <2>7, FitsEmits
  <2>10. Suits(i, N, result1)
    BY <2>8, <2>9, Fitting
  <2>11. IsVec(Op(i, 2)) => Suits(i, N, CallIntoVec(i, w, args))
    BY <2>1, <2>3, FitsIntoVec
  <2>12. handle_vbroadcast_ss_sd(i) =
           IF Masked(i)
           THEN IF w # 64 \/ ~IsVec(Op(i, 2)) THEN MERR_INSN ELSE CallIntoVec(i, w, args) \o MERR_OK
           ELSE AvxOpLoader(i, 2, "s") \o fill \o result1 \o <<Free("t")>> \o MERR_OK
    BY DEF handle_vbroadcast_ss_sd, args, fill, src, one
  <2> HIDE DEF result1
  <2> QED BY <2>1, <2>4, <2>6, <2>10, <2>11, <2>12, FitsEnds, Fitting DEF Fitted
<1>4. ASSUME i.it = "vbroadcastf128" PROVE Fitted(i, handle_vbroadcastf128_fp(i))
  <2> DEFINE N == Need(0, 0, 0)
             p == <<LoadUnchecked(2, "s", 16), Alloc("tmp", 32), Call(Tmp("tmp", 32), <<Tmp("s", 16)>>),
                    Call(Reg(1, 32), <<Tmp("tmp", 32), Tmp("s", 16)>>), Free("tmp")>>
  <2>1. N \in Needs
    BY NeedIs
  <2> HIDE DEF N
  <2>2. Suits(i, N, p)
    <3>1. FallsBack(<<LoadUnchecked(2, "s", 16)>>)
      BY UnsureSteps
    <3> QED BY <3>1, UnsureFirst, Zenon DEF p
  <2>3. handle_vbroadcastf128_fp(i) = QASSERT(Op(i, 1).k = "ymm" /\ IsMem(Op(i, 2)), p \o MERR_OK)
    BY Zenon DEF handle_vbroadcastf128_fp, p
  <2> HIDE DEF p
  <2> QED BY <2>1, <2>2, <2>3, FitsEnds, Fitting DEF Fitted
<1>5. ASSUME i.it = "vbroadcasti128" PROVE Fitted(i, handle_vbroadcasti128_int(i))
  <2> DEFINE N == Need(0, 0, 0)
             p == <<LoadUnchecked(2, "s", 16), Call(Reg(1, 32), <<Tmp("s", 16)>>)>>
  <2>1. N \in Needs
    BY NeedIs
  <2> HIDE DEF N
  <2>2. Suits(i, N, p)
    <3>1. FallsBack(<<LoadUnchecked(2, "s", 16)>>)
      BY UnsureSteps
    <3> QED BY <3>1, UnsureFirst, Zenon DEF p
  <2>3. handle_vbroadcasti128_int(i) = QASSERT(Op(i, 1).k = "ymm" /\ IsMem(Op(i, 2)), p \o MERR_OK)
    BY DEF handle_vbroadcasti128_int
  <2> HIDE DEF p
  <2> QED BY <2>1, <2>2, <2>3, FitsEnds, Fitting DEF Fitted
<1>6. ASSUME i.it \in {"vbroadcastf32x4", "vbroadcasti64x4"} PROVE Fitted(i, handle_vbroadcast_x4(i))
  <2> DEFINE z == IF i.it = "vbroadcasti64x4" THEN 32 ELSE 16
             N == Need(z, 0, 0)
             call == <<Call(Vec(i, 1), <<Loaded(i, 2, "s", z)>>)>>
  <2>1. z \in Nat
    OBVIOUS
  <2>2. BytesRead(i) = z
    BY <1>6, LogicOperands
  <2>3. handle_vbroadcast_x4(i) = QASSERT(IsVec(Op(i, 1)), AvxOpLoader(i, 2, "s") \o call \o MERR_OK)
    BY DEF handle_vbroadcast_x4
  <2> HIDE DEF z
  <2>4. Reaches(i, 2, z)
    BY <1>2, <1>6, <2>1, <2>2, FineIs
  <2>5. N \in Needs /\ N["s"] = z
    BY <2>1, NeedIs
  <2> HIDE DEF N
  <2>6. Suits(i, N, AvxOpLoader(i, 2, "s")) /\ Given(i, N, <<Loaded(i, 2, "s", z)>>)
    BY <1>1, <2>4, <2>5, FitsSource, GivenClosed
  <2>7. Suits(i, N, call)
    BY <2>6, FitsEmits
  <2> HIDE DEF call
  <2> QED BY <2>3, <2>5, <2>6, <2>7, FitsEnds, Fitting DEF Fitted
<1>7. ASSUME i.it = "vpbroadcastd" PROVE Fitted(i, handle_vpbroadcast_d_q(i))
  <2>1. i.it \in Broadcasts
    BY <1>7 DEF Broadcasts
  <2>2. CASE Op(i, 2).k = "gpr"
    <3> DEFINE N == Need(0, 0, w)
    <3>1. N \in Needs /\ N["tmp"] = w
      BY <1>1, NeedIs
    <3> HIDE DEF N
    <3>2. Given(i, N, <<Reg(2, i.es)>>)
      BY <1>1, ArgsFit, GivenClosed
    <3>3. Suits(i, N, CallIntoVec(i, w, <<Reg(2, i.es)>>))
      BY <3>1, <3>2, FitsIntoVec
    <3>4. handle_vpbroadcast_d_q(i) = CallIntoVec(i, w, <<Reg(2, i.es)>>) \o MERR_OK
      BY <2>2 DEF handle_vpbroadcast_d_q
    <3> QED BY <3>1, <3>3, <3>4, FitsEnds, Fitting DEF Fitted
  <2>3. CASE Op(i, 2).k # "gpr"
    <3>1. Source64(i, 2)
      BY <2>3 DEF Source64, Whole64, IsMem
    <3> QED BY <1>2, <2>1, <2>3, <3>1, LowBroadcastFits DEF handle_vpbroadcast_d_q
  <2> QED BY <2>2, <2>3
<1>8. ASSUME i.it = "vpbroadcastw" PROVE Fitted(i, handle_vpbroadcast_b_w(i))
  BY <1>2, <1>8, LowBroadcastFits DEF Broadcasts, handle_vpbroadcast_b_w
<1>9. ASSUME i.it = "vmovddup" PROVE Fitted(i, handle_vmovddup(i))
  <2>1. CASE IsXmm(Op(i, 1))
    <3>1. BytesRead(i) = i.es
      BY <1>9, <2>1, LogicOperands
    <3> QED BY <1>2, <1>9, <2>1, <3>1, LowBroadcastFits DEF handle_vmovddup
  <2>2. CASE ~IsXmm(Op(i, 1))
    <3> DEFINE N == Need(w, w, w)
    <3>1. N \in Needs /\ Plain(i, N, w) /\ N["t"] = w /\ N["tmp"] = w
      BY <1>9, <2>2, LogicPlain
    <3> HIDE DEF N
    <3> QED BY <2>2, <3>1, PlainUnaryFits DEF handle_vmovddup, Fitted
  <2> QED BY <2>1, <2>2
<1>10. ASSUME i.it = "vbroadcastf32x2" PROVE Fitted(i, handle_v_broadcast_x2(i))
  <2> DEFINE N == Need(16, 16, w)
             args == <<VecSource(i, 2, 16)>>
  <2>1. N \in Needs /\ N["s"] = 16 /\ N["t"] = 16 /\ N["tmp"] = w
    BY <1>1, NeedIs
  <2> HIDE DEF N
  <2>2. Suits(i, N, add_vec_source(i, 2, 16)) /\ Given(i, N, args)
    BY <1>1, <1>2, <1>10, <2>1, FitsVecSource, GivenClosed DEF Source64
  <2> HIDE DEF args
  <2>3. Suits(i, N, CallIntoVec(i, w, args))
    BY <2>1, <2>2, FitsIntoVec
  <2> QED BY <2>1, <2>2, <2>3, FitsEnds, Fitting DEF handle_v_broadcast_x2, args, Fitted
<1> QED BY <1>3, <1>4, <1>5, <1>6, <1>7, <1>8, <1>9, <1>10

(* A load, then a call, if the operands are as the handler expects.        *)
LEMMA LoadedCallFits ==
  ASSUME NEW i, NEW N, NEW n, NEW c, NEW dst, NEW args, Suits(i, N, AvxOpLoader(i, n, "s")), Given(i, N, args)
  PROVE  /\ Suits(i, N, AvxOpLoader(i, n, "s") \o <<Call(dst, args)>> \o MERR_OK)
         /\ Suits(i, N, QASSERT(c, AvxOpLoader(i, n, "s") \o <<Call(dst, args)>> \o MERR_OK))
         /\ Suits(i, N, <<Call(dst, args)>> \o MERR_OK)
         /\ Suits(i, N, QASSERT(c, <<Call(dst, args)>> \o MERR_OK))
  BY FitsEmits, FitsEnds, Fitting

(* Inserts.                                                                *)
LEMMA InsertsFit ==
  ASSUME NEW i, Fine(i), i.it \in LogicInsns
  PROVE  /\ i.it \in {"vinsertf128", "vinserti64x4"} => Fitted(i, handle_vinsertf128(i))
         /\ i.it \in {"vpinsrb", "vpinsrd"} => Fitted(i, handle_vpinsert(i))
         /\ i.it = "vinsertps" => Fitted(i, handle_vinsertps(i))
<1>1. /\ Known(i) /\ i.es \in Nat /\ i.es <= 8 /\ Op(i, 1).w \in Nat
      /\ \A n \in 2..4, z \in Nat : z <= 8 /\ z <= BytesRead(i) => Reaches(i, n, z)
  BY MovOperands
<1>2. i.it \in {"vinsertf128", "vinserti64x4", "vpinsrb", "vpinsrd", "vinsertps"} => Whole64(i, 2)
  BY LogicVectors DEF LogicTernary
<1>3. i.it \in {"vinsertf128", "vinserti64x4", "vinsertps"} => i.it \notin FromGpr /\ Source64(i, 3)
  BY LogicOperands, FineIs
<1>4. ASSUME i.it \in {"vinsertf128", "vinserti64x4"} PROVE Fitted(i, handle_vinsertf128(i))
  <2> DEFINE w == IF i.it = "vinsertf128" THEN 32 ELSE Op(i, 1).w
             part == IF i.it = "vinsertf128" THEN 16 ELSE 32
             N == Need(part, 0, w)
             args == <<Reg(2, w), Loaded(i, 3, "s", part), Imm(4)>>
  <2>1. w \in Nat /\ part \in Nat /\ BytesRead(i) = part
    BY <1>1, <1>4, LogicOperands
  <2>2. handle_vinsertf128(i) =
          QASSERT(IsImm(i, 4), AvxOpLoader(i, 3, "s") \o CallIntoVec(i, w, args) \o MERR_OK)
    BY DEF handle_vinsertf128
  <2> HIDE DEF w, part
  <2>3. N \in Needs /\ N["s"] = part /\ N["tmp"] = w
    BY <2>1, NeedIs
  <2> HIDE DEF N
  <2>4. Reaches(i, 3, part)
    BY <1>3, <1>4, <2>1, FineIs
  <2>5. Suits(i, N, AvxOpLoader(i, 3, "s")) /\ Arg(i, N, Loaded(i, 3, "s", part))
    BY <1>1, <2>3, <2>4, FitsSource
  <2>6. Given(i, N, args)
    BY <1>2, <1>4, <2>5, ArgsFit, GivenClosed
  <2> HIDE DEF args
  <2> QED BY <2>2, <2>3, <2>5, <2>6, FitsIntoVec, FitsEnds, Fitting DEF Fitted
<1>5. ASSUME NEW z \in Nat, Reaches(i, 3, z), Whole64(i, 2)
      PROVE  Fitted(i, QASSERT(IsImm(i, 4),
               AvxOpLoader(i, 3, "s")
               \o <<Call(Reg(1, 16), <<Reg(2, 16), Loaded(i, 3, "s", z), Imm(4)>>)>> \o MERR_OK))
  <2> DEFINE N == Need(z, 0, 0)
  <2>1. N \in Needs /\ N["s"] = z
    BY NeedIs
  <2> HIDE DEF N
  <2>2. Suits(i, N, AvxOpLoader(i, 3, "s")) /\ Arg(i, N, Loaded(i, 3, "s", z))
    BY <1>1, <1>5, <2>1, FitsSource
  <2>3. Given(i, N, <<Reg(2, 16), Loaded(i, 3, "s", z), Imm(4)>>)
    BY <1>5, <2>2, ArgsFit, GivenClosed
  <2> QED BY <2>1, <2>2, <2>3, LoadedCallFits DEF Fitted
<1>6. ASSUME i.it \in {"vpinsrb", "vpinsrd"} PROVE Fitted(i, handle_vpinsert(i))
  <2> DEFINE z == IF IsMem(Op(i, 3)) THEN i.es ELSE IF i.es < 4 THEN 4 ELSE i.es
  <2>1. z \in Nat /\ z <= 8
    BY <1>1
  <2>2. Reaches(i, 3, z)
    <3>1. BytesRead(i) = i.es
      BY <1>6, LogicOperands
    <3> QED BY <1>1, <2>1, <3>1 DEF Reaches
  <2>3. handle_vpinsert(i) = QASSERT(IsImm(i, 4),
               AvxOpLoader(i, 3, "s")
               \o <<Call(Reg(1, 16), <<Reg(2, 16), Loaded(i, 3, "s", z), Imm(4)>>)>> \o MERR_OK)
    BY DEF handle_vpinsert
  <2> HIDE DEF z
  <2> QED BY <1>2, <1>5, <1>6, <2>1, <2>2, <2>3
<1>7. ASSUME i.it = "vinsertps" PROVE Fitted(i, handle_vinsertps(i))
  <2> DEFINE z == IF IsMem(Op(i, 3)) THEN 4 ELSE 16
  <2>1. z \in Nat
    OBVIOUS
  <2>2. Reaches(i, 3, z)
    <3>1. BytesRead(i) = 4
      BY <1>7, LogicOperands
    <3> QED BY <1>1, <1>3, <1>7, <3>1 DEF Reaches, Source64, Whole64
  <2>3. handle_vinsertps(i) = QASSERT(IsImm(i, 4),
               AvxOpLoader(i, 3, "s")
               \o <<Call(Reg(1, 16), <<Reg(2, 16), Loaded(i, 3, "s", z), Imm(4)>>)>> \o MERR_OK)
    BY DEF handle_vinsertps
  <2> HIDE DEF z
  <2> QED BY <1>2, <1>5, <1>7, <2>1, <2>2, <2>3
<1> QED BY <1>4, <1>6, <1>7

(* Extracts, extensions, and truncations.                                  *)
LEMMA ExtractsFit ==
  ASSUME NEW i, Fine(i), i.it \in LogicInsns
  PROVE  /\ i.it \in {"vextractf128", "vextracti64x4"} => Fitted(i, handle_vextractf128(i))
         /\ i.it = "vextractps" => Fitted(i, handle_vextractps(i))
         /\ i.it \in {"vpmovsxbw", "vpmovzxwd"} => Fitted(i, handle_vpmovsx(i))
         /\ i.it = "vpmovwb" => Fitted(i, handle_vpmovwb(i))
         /\ i.it \in {"vpmovdb", "vpmovqd"} => Fitted(i, handle_vpmov_down(i))
<1>1. /\ Known(i) /\ Op(i, 2).w \in Nat
  BY MovOperands
<1>2. i.it \in {"vextractf128", "vextracti64x4", "vextractps", "vpmovwb", "vpmovdb", "vpmovqd"} => Whole64(i, 2)
  BY LogicVectors DEF LogicBinary, WithImm
<1> DEFINE O == Need(0, 0, 0)
<1>3. O \in Needs
  BY NeedIs
<1> HIDE DEF O
<1>4. ASSUME i.it \in {"vextractf128", "vextracti64x4"} PROVE Fitted(i, handle_vextractf128(i))
  <2> DEFINE src == IF i.it = "vextractf128" THEN 32 ELSE get_vector_size(Op(i, 2))
             dst == IF i.it = "vextractf128" THEN 16 ELSE 32
             args == <<Reg(2, src), Imm(3)>>
  <2>1. handle_vextractf128(i) =
          QASSERT(IsImm(i, 3),
            IF Op(i, 1).k \in {"xmm", "ymm"} THEN <<Call(Reg(1, dst), args)>> \o MERR_OK
            ELSE QASSERT(IsMem(Op(i, 1)), CallIntoMem(i, dst, args) \o MERR_OK))
    BY DEF handle_vextractf128
  <2> HIDE DEF src, dst
  <2>2. Given(i, O, args)
    BY <1>2, <1>4, ArgsFit, GivenClosed
  <2> HIDE DEF args
  <2>3. Suits(i, O, <<Call(Reg(1, dst), args)>> \o MERR_OK) /\ Suits(i, O, CallIntoMem(i, dst, args) \o MERR_OK)
    BY <2>2, FitsEmits, FitsIntoMem, FitsEnds, Fitting
  <2> QED BY <1>3, <2>1, <2>3, FitsEnds DEF Fitted
<1>5. ASSUME i.it = "vextractps" PROVE Fitted(i, handle_vextractps(i))
  <2> DEFINE args == <<Reg(2, 16), Imm(3)>>
             call == IF IsMem(Op(i, 1)) THEN CallIntoMem(i, 4, args) ELSE <<Call(Reg(1, 4), args)>>
  <2>1. handle_vextractps(i) = QASSERT(IsImm(i, 3), call \o MERR_OK)
    BY DEF handle_vextractps
  <2>2. Given(i, O, args)
    BY <1>2, <1>5, ArgsFit, GivenClosed
  <2> HIDE DEF args
  <2>3. Suits(i, O, call)
    BY <2>2, FitsEmits, FitsIntoMem
  <2> HIDE DEF call
  <2> QED BY <1>3, <2>1, <2>3, FitsEnds, Fitting DEF Fitted
<1>6. ASSUME i.it \in {"vpmovsxbw", "vpmovzxwd"} PROVE Fitted(i, handle_vpmovsx(i))
  <2> DEFINE z == IF IsMem(Op(i, 2)) THEN Op(i, 2).w ELSE 16
             N == Need(z, 0, 0)
             args == <<Loaded(i, 2, "s", z)>>
  <2>1. z \in Nat
    BY <1>1
  <2>2. Reaches(i, 2, z)
    <3>1. i.it \notin FromGpr
      BY <1>6, LogicOperands
    <3>2. Source64(i, 2) /\ Reaches(i, 2, Op(i, 2).w)
      BY <3>1, FineIs
    <3> QED BY <3>2 DEF Reaches, Source64, Whole64
  <2>3. handle_vpmovsx(i) = AvxOpLoader(i, 2, "s") \o <<Call(Vec(i, 1), args)>> \o MERR_OK
    BY DEF handle_vpmovsx
  <2> HIDE DEF z
  <2>4. N \in Needs /\ N["s"] = z
    BY <2>1, NeedIs
  <2> HIDE DEF N
  <2>5. Suits(i, N, AvxOpLoader(i, 2, "s")) /\ Given(i, N, args)
    BY <1>1, <2>2, <2>4, FitsSource, GivenClosed
  <2> HIDE DEF args
  <2> QED BY <2>3, <2>4, <2>5, LoadedCallFits DEF Fitted
<1>7. ASSUME i.it = "vpmovwb" PROVE Fitted(i, handle_vpmovwb(i))
  <2> DEFINE w == get_vector_size(Op(i, 1))
             args == <<Reg(2, 2 * w)>>
  <2>1. handle_vpmovwb(i) = <<Call(Reg(1, w), args)>> \o MERR_OK
    BY DEF handle_vpmovwb
  <2> HIDE DEF w
  <2>2. Given(i, O, args)
    BY <1>2, <1>7, ArgsFit, GivenClosed
  <2> HIDE DEF args
  <2> QED BY <1>3, <2>1, <2>2, FitsEmits, FitsEnds, Fitting DEF Fitted
<1>8. ASSUME i.it \in {"vpmovdb", "vpmovqd"} PROVE Fitted(i, handle_vpmov_down(i))
  <2> DEFINE args == <<Reg(2, get_vector_size(Op(i, 2)))>>
             call == CASE IsVec(Op(i, 1)) -> <<Call(Vec(i, 1), args)>>
                       [] IsMem(Op(i, 1)) -> CallIntoMem(i, Op(i, 1).w, args)
                       [] OTHER           -> <<>>
             ending == IF IsVec(Op(i, 1)) \/ IsMem(Op(i, 1)) THEN MERR_OK ELSE MERR_INSN
  <2>1. handle_vpmov_down(i) = call \o ending
    BY DEF handle_vpmov_down
  <2>2. Given(i, O, args)
    BY <1>2, <1>8, ArgsFit, GivenClosed
  <2> HIDE DEF args
  <2>3. /\ Suits(i, O, <<Call(Vec(i, 1), args)>>) /\ Suits(i, O, CallIntoMem(i, Op(i, 1).w, args))
        /\ Suits(i, O, <<>>) /\ Suits(i, O, MERR_OK) /\ Suits(i, O, MERR_INSN)
    BY <2>2, FitsEmits, FitsIntoMem, FitsEnds
  <2>4. Suits(i, O, call) /\ Suits(i, O, ending)
    BY <2>3, Zenon
  <2> HIDE DEF call, ending
  <2> QED BY <1>3, <2>1, <2>4, Fitting DEF Fitted
<1> QED BY <1>4, <1>5, <1>6, <1>7, <1>8

(* Logic and shuffles at the width of the destination, handler by handler. *)
LEMMA PlainLogicFits ==
  ASSUME NEW i, Fine(i), i.it \in LogicInsns, i.it \in PlainLogic
  PROVE  LET j == IgnoresMask(i)
         IN  /\ Fitted(i, Unary(i, <<>>)) /\ Fitted(i, Unary(j, <<>>))
             /\ Fitted(i, handle_v_rotate(i)) /\ Fitted(i, handle_v_rotate(j)) /\ Fitted(i, handle_vmovlhps(i))
             /\ Whole64(i, 2) =>
                  /\ Fitted(i, Binary(i, <<>>)) /\ Fitted(i, Binary(j, <<>>))
                  /\ Fitted(i, handle_v_align(i)) /\ Fitted(i, handle_v_align(j))
                  /\ Fitted(i, handle_v_bitwise(i)) /\ Fitted(i, handle_v_multishift(i))
                  /\ Fitted(i, handle_v_shift_double(i)) /\ Fitted(i, handle_v_ternary_logic(i))
                  /\ Fitted(i, handle_v_gfni(i)) /\ Fitted(i, handle_vcmp_ps_pd(i))
                  /\ Fitted(i, handle_vblendv_ps_pd(i)) /\ Fitted(i, handle_vblend_imm_ps_pd(i))
                  /\ Fitted(i, handle_vblend_int(i)) /\ Fitted(i, handle_v_blendm(i))
                  /\ Fitted(i, handle_vfmaddsub(i)) /\ Fitted(i, handle_vshufps(i))
                  /\ Fitted(i, handle_v_shuf_lane(i)) /\ Fitted(i, handle_v_permutex2(i))
                  /\ Fitted(i, handle_vperm2f128_i128(i))
             /\ Whole64(i, 2) \/ IsImm(i, 3) =>
                  /\ Fitted(i, handle_vpermpd(i))
                  /\ (i.it = "vpshufb" => Whole64(i, 2)) => Fitted(i, handle_v_shuffle_int(i))
                  /\ (i.it \in {"vpermd", "vpermps"} => Whole64(i, 2)) => Fitted(i, handle_v_perm_int(i))
<1> DEFINE w == Op(i, 1).w
           N == Need(w, w, w)
<1>1. N \in Needs /\ Plain(i, N, w) /\ N["t"] = w /\ N["tmp"] = w
  BY LogicPlain
<1> HIDE DEF N, w
<1>2. i.it # "vcmpeqss"
  BY DEF PlainLogic, RegularLogic, Hashes, ScalarLogic, MaskBlends, AddSub132, AddSub213, AddSub231
<1>3. \A p : Suits(i, N, p) => Fitted(i, p)
  BY <1>1 DEF Fitted
<1>4. Suits(i, N, handle_v_align(IgnoresMask(i))) => Suits(i, N, handle_vperm2f128_i128(i))
  BY FitsEnds DEF handle_vperm2f128_i128
<1>5. LET j == IgnoresMask(i)
      IN  /\ Fitted(i, Unary(i, <<>>)) /\ Fitted(i, Unary(j, <<>>))
          /\ Fitted(i, handle_v_rotate(i)) /\ Fitted(i, handle_v_rotate(j)) /\ Fitted(i, handle_vmovlhps(i))
          /\ Whole64(i, 2) => /\ Fitted(i, Binary(j, <<>>)) /\ Fitted(i, handle_vperm2f128_i128(i))
                              /\ Fitted(i, handle_v_align(i)) /\ Fitted(i, handle_v_align(j))
  BY <1>1, <1>3, <1>4, PlainUnaryFits
<1>6. ASSUME Whole64(i, 2)
      PROVE  /\ Fitted(i, Binary(i, <<>>))
             /\ Fitted(i, handle_v_bitwise(i)) /\ Fitted(i, handle_v_multishift(i))
             /\ Fitted(i, handle_v_shift_double(i)) /\ Fitted(i, handle_v_ternary_logic(i))
             /\ Fitted(i, handle_v_gfni(i)) /\ Fitted(i, handle_vcmp_ps_pd(i))
             /\ Fitted(i, handle_vblendv_ps_pd(i)) /\ Fitted(i, handle_vblend_imm_ps_pd(i))
             /\ Fitted(i, handle_vblend_int(i)) /\ Fitted(i, handle_v_blendm(i))
             /\ Fitted(i, handle_vfmaddsub(i)) /\ Fitted(i, handle_vshufps(i))
             /\ Fitted(i, handle_v_shuf_lane(i)) /\ Fitted(i, handle_v_permutex2(i))
  BY <1>1, <1>2, <1>3, <1>6, PlainBinaryFits
<1>7. ASSUME Whole64(i, 2) \/ IsImm(i, 3)
      PROVE  /\ Fitted(i, handle_vpermpd(i))
             /\ (i.it = "vpshufb" => Whole64(i, 2)) => Fitted(i, handle_v_shuffle_int(i))
             /\ (i.it \in {"vpermd", "vpermps"} => Whole64(i, 2)) => Fitted(i, handle_v_perm_int(i))
  BY <1>1, <1>3, <1>7, PermutationsFit
<1> QED BY <1>5, <1>6, <1>7

(* Which of these an instruction of the plain ones needs.                  *)
OneSource ==
  {"vpopcntb", "vplzcntq", "vprold", "vpconflictd", "vpslldq", "vpshufd", "vpermq", "vpermilps",
   "vpermpd", "vmovlhps", "vmovhlps", "vmovshdup", "vmovsldup"}
TwoSources ==
  {"vpand", "vgf2p8affineqb", "vgf2p8mulb", "vaesenc", "vpsllvd", "vprolvq", "vpshldw", "vpshrdvd",
   "vpmultishiftqb", "vcmpeqps", "vpcmpeqd", "vblendvps", "vblendps", "vpblendw", "vpblendvb",
   "vpternlogd", "vphsubw", "vpackssdw", "vpshufb", "vshuff32x4", "vpermd", "vpermps", "vpalignr",
   "valignd", "vshufps", "vshufpd", "vunpckhps", "vperm2f128", "vpermw", "vpermi2w", "vpermt2d",
   "vpunpcklbw"}

(* Their operands: which have a second vector, which an immediate.         *)
LEMMA PlainOperands ==
  ASSUME NEW i, Fine(i), i.it \in LogicInsns
  PROVE  /\ i.it \in OneSource \union TwoSources \union MaskBlends \union AddSubMuls => i.it \in PlainLogic
         /\ i.it \in TwoSources \union MaskBlends \union AddSubMuls => Whole64(i, 2)
         /\ i.it \in {"vpermpd", "vpermq", "vpermilps", "vpshufd"} => Whole64(i, 2) \/ IsImm(i, 3)
<1>1. AddSubMuls = AddSub132 \union AddSub213 \union AddSub231
  BY DEF AddSubMuls
<1>2. i.it \in OneSource \union TwoSources \union MaskBlends \union AddSubMuls => i.it \in PlainLogic
  BY <1>1 DEF OneSource, TwoSources, PlainLogic, RegularLogic, Hashes, ScalarLogic, MaskBlends, AddSub132,
              AddSub213, AddSub231
<1>3. i.it \in TwoSources =>
        i.it \in (LogicBinary \ WithImm) \union LogicTernary \union LogicAccumulating
                 \union {"vpternlogd", "vpermi2w", "vpermps"}
  BY DEF TwoSources, LogicBinary, WithImm, LogicTernary, LogicAccumulating
<1>4. i.it \in {"vpermpd", "vpermq", "vpermilps", "vpshufd"} => i.it \in WithImm
  BY DEF WithImm
<1> QED BY <1>2, <1>3, <1>4, LogicVectors

(* Logic and shuffles.                                                     *)
LEMMA LogicFits ==
  ASSUME NEW i, Fine(i), i.it \in LogicInsns
  PROVE  Fitted(i, apply_logic(i))
<1>1. Fitted(i, MERR_INSN)
  BY NeedIs, FitsEnds DEF Fitted
<1>2. /\ i.it \in TwoSources \union MaskBlends \union AddSubMuls => i.it \in PlainLogic /\ Whole64(i, 2)
      /\ i.it \in OneSource => i.it \in PlainLogic
  BY PlainOperands
<1>3. /\ i.it = "vpand" => Fitted(i, handle_v_bitwise(i))
      /\ i.it = "vpopcntb" => Fitted(i, handle_v_popcnt(i))
      /\ i.it = "vplzcntq" => Fitted(i, handle_v_lzcnt(i))
      /\ i.it \in {"vgf2p8affineqb", "vgf2p8mulb"} => Fitted(i, handle_v_gfni(i))
      /\ i.it = "vaesenc" => Fitted(i, handle_v_aes(i))
      /\ i.it = "vpsllvd" => Fitted(i, handle_v_var_shift(i))
      /\ i.it = "vprold" => Fitted(i, handle_v_rotate(i))
      /\ i.it = "vprolvq" => Fitted(i, handle_v_var_rotate(i))
      /\ i.it \in {"vpshldw", "vpshrdvd"} => Fitted(i, handle_v_shift_double(i))
      /\ i.it = "vpmultishiftqb" => Fitted(i, handle_v_multishift(i))
  <2>1. /\ i.it \in {"vpand", "vgf2p8affineqb", "vgf2p8mulb", "vaesenc", "vpsllvd", "vprolvq", "vpshldw",
                     "vpshrdvd", "vpmultishiftqb"} => i.it \in TwoSources
        /\ i.it \in {"vpopcntb", "vplzcntq", "vprold"} => i.it \in OneSource
    BY DEF TwoSources, OneSource
  <2> QED BY <1>2, <2>1, PlainLogicFits
          DEF handle_v_popcnt, handle_v_lzcnt, handle_v_aes, handle_v_var_shift, handle_v_var_rotate
<1>4. /\ i.it \in MaskBlends => Fitted(i, handle_v_blendm(i))
      /\ i.it = "vcmpeqps" => Fitted(i, handle_vcmp_ps_pd(i))
      /\ i.it = "vpcmpeqd" => Fitted(i, handle_vpcmp_int(i))
      /\ i.it = "vblendvps" => Fitted(i, handle_vblendv_ps_pd(i))
      /\ i.it = "vblendps" => Fitted(i, handle_vblend_imm_ps_pd(i))
      /\ i.it \in {"vpblendw", "vpblendvb"} => Fitted(i, handle_vblend_int(i))
      /\ i.it = "vpternlogd" => Fitted(i, handle_v_ternary_logic(i))
      /\ i.it = "vpconflictd" => Fitted(i, handle_v_conflict(i))
      /\ i.it = "vphsubw" => Fitted(i, handle_vphsub_sw(i))
      /\ i.it = "vpackssdw" => Fitted(i, handle_vpack(i))
      /\ i.it \in AddSubMuls => Fitted(i, handle_vfmaddsub(i))
      /\ i.it = "vpslldq" => Fitted(i, handle_vpslldq_vpsrldq(i))
  <2>1. /\ i.it \in {"vcmpeqps", "vpcmpeqd", "vblendvps", "vblendps", "vpblendw", "vpblendvb", "vpternlogd",
                     "vphsubw", "vpackssdw"} => i.it \in TwoSources
        /\ i.it \in {"vpconflictd", "vpslldq"} => i.it \in OneSource
    BY DEF TwoSources, OneSource
  <2> QED BY <1>2, <2>1, PlainLogicFits
          DEF handle_vpcmp_int, handle_v_conflict, handle_vphsub_sw, handle_vpack, handle_vpslldq_vpsrldq
<1>5. /\ i.it = "vpclmulqdq" => Fitted(i, handle_v_pclmul(i))
      /\ i.it \in Hashes => Fitted(i, handle_v_sha(i))
      /\ i.it \in CacheControl => Fitted(i, handle_cache_ctrl(i))
      /\ i.it = "vpsllw" => Fitted(i, handle_v_shift(i))
      /\ i.it \in {"vexp2ps", "vrcp28ss"} => Fitted(i, handle_v_er(i))
      /\ i.it \in {"v4fmaddps", "v4fmaddss"} => Fitted(i, handle_v_4fma(i))
      /\ i.it = "vcomish" => Fitted(i, handle_v_comish(i))
      /\ i.it \in {"vcmpeqps", "vcmpeqss"} => Fitted(i, handle_vcmp_ps_pd(i))
  BY <1>4, ShiftsFit, ErFits, AddressedLogicFits
<1>6. /\ i.it = "vmaskmovps" => Fitted(i, handle_vmaskmov_ps_pd(i))
      /\ i.it = "vpmaskmovd" => Fitted(i, handle_vpmaskmov_int(i))
      /\ i.it = "vzeroupper" => Fitted(i, handle_vzeroupper_nop(i))
      /\ i.it = "vzeroall" => Fitted(i, handle_vzeroall(i))
      /\ i.it = "vphminposuw" => Fitted(i, handle_vphminposuw(i))
      /\ i.it = "vtestps" => Fitted(i, handle_vtest_ps_pd(i))
      /\ i.it \in {"vmovmskps", "vpmovmskb"} => Fitted(i, handle_vmovmsk(i))
      /\ i.it \in NonTemporal => Fitted(i, handle_vmovnt(i))
      /\ i.it = "vptest" => Fitted(i, handle_vptest(i))
  BY SelectiveLogicFits, AddressedLogicFits DEF handle_vtest_ps_pd
<1> QED BY <1>1, <1>3, <1>4, <1>5, <1>6, SMTT(60) DEF apply_logic

(* The shuffles and permutations that apply_shuffle() dispatches.          *)
LEMMA ShufflesFit ==
  ASSUME NEW i, Fine(i), i.it \in LogicInsns
  PROVE  Fitted(i, apply_shuffle(i))
<1>1. Fitted(i, apply_logic(i))
  BY LogicFits
<1>2. /\ i.it \in TwoSources => i.it \in PlainLogic /\ Whole64(i, 2)
      /\ i.it \in OneSource => i.it \in PlainLogic
      /\ i.it \in {"vpermpd", "vpermq", "vpermilps", "vpshufd"} => Whole64(i, 2) \/ IsImm(i, 3)
  BY PlainOperands
<1>3. /\ i.it \in {"vpshufd", "vpshufb"} => Fitted(i, handle_v_shuffle_int(i))
      /\ i.it \in {"vpermq", "vpermd", "vpermps", "vpermilps"} => Fitted(i, handle_v_perm_int(i))
      /\ i.it = "vpermpd" => Fitted(i, handle_vpermpd(i))
  <2>1. /\ i.it \in {"vpshufb", "vpermd", "vpermps"} => i.it \in TwoSources
        /\ i.it \in {"vpshufd", "vpermq", "vpermilps", "vpermpd"} => i.it \in OneSource
    BY DEF TwoSources, OneSource
  <2>2. i.it \in {"vpshufd", "vpshufb", "vpermq", "vpermd", "vpermps", "vpermilps", "vpermpd"} =>
          /\ i.it \in PlainLogic /\ (Whole64(i, 2) \/ IsImm(i, 3))
          /\ i.it \in {"vpshufb", "vpermd", "vpermps"} => Whole64(i, 2)
    BY <1>2, <2>1
  <2> QED BY <2>2, PlainLogicFits
<1>4. /\ i.it = "vshuff32x4" => Fitted(i, handle_v_shuf_lane(i))
      /\ i.it \in {"vpalignr", "valignd"} => Fitted(i, handle_v_align(i))
      /\ i.it = "vshufps" => Fitted(i, handle_vshufps(i))
      /\ i.it = "vshufpd" => Fitted(i, handle_vshufpd(i))
      /\ i.it = "vmovlhps" => Fitted(i, handle_vmovlhps(i))
      /\ i.it = "vmovhlps" => Fitted(i, handle_vmovhlps(i))
      /\ i.it = "vmovshdup" => Fitted(i, handle_vmovshdup(i))
      /\ i.it = "vmovsldup" => Fitted(i, handle_vmovsldup(i))
      /\ i.it = "vunpckhps" => Fitted(i, handle_vunpck(i))
      /\ i.it = "vperm2f128" => Fitted(i, handle_vperm2f128_i128(i))
      /\ i.it = "vpermw" => Fitted(i, handle_v_permutex(i))
      /\ i.it \in {"vpermi2w", "vpermt2d"} => Fitted(i, handle_v_permutex2(i))
      /\ i.it = "vpunpcklbw" => Fitted(i, handle_vpunpck(i))
  <2>1. /\ i.it \in {"vshuff32x4", "vpalignr", "valignd", "vshufps", "vshufpd", "vunpckhps", "vperm2f128",
                     "vpermw", "vpermi2w", "vpermt2d", "vpunpcklbw"} => i.it \in TwoSources
        /\ i.it \in {"vmovlhps", "vmovhlps", "vmovshdup", "vmovsldup"} => i.it \in OneSource
    BY DEF TwoSources, OneSource
  <2> QED BY <1>2, <2>1, PlainLogicFits
          DEF handle_vshufpd, handle_vmovhlps, handle_vmovshdup, handle_vmovsldup, handle_vunpck, handle_vpunpck,
              handle_v_permutex
<1>5. /\ i.it = "vbroadcastf32x2" => Fitted(i, handle_v_broadcast_x2(i))
      /\ i.it \in {"vbroadcastss", "vbroadcastsd"} => Fitted(i, handle_vbroadcast_ss_sd(i))
      /\ i.it = "vbroadcastf128" => Fitted(i, handle_vbroadcastf128_fp(i))
      /\ i.it = "vbroadcasti128" => Fitted(i, handle_vbroadcasti128_int(i))
      /\ i.it \in {"vbroadcastf32x4", "vbroadcasti64x4"} => Fitted(i, handle_vbroadcast_x4(i))
      /\ i.it \in HalfMoves => Fitted(i, handle_vmovl_h_ps_pd(i))
      /\ i.it \in {"vextractf128", "vextracti64x4"} => Fitted(i, handle_vextractf128(i))
      /\ i.it \in {"vinsertf128", "vinserti64x4"} => Fitted(i, handle_vinsertf128(i))
      /\ i.it = "vmovddup" => Fitted(i, handle_vmovddup(i))
      /\ i.it = "vpbroadcastd" => Fitted(i, handle_vpbroadcast_d_q(i))
      /\ i.it = "vpbroadcastw" => Fitted(i, handle_vpbroadcast_b_w(i))
      /\ i.it \in {"vpinsrb", "vpinsrd"} => Fitted(i, handle_vpinsert(i))
      /\ i.it = "vpmovsxbw" => Fitted(i, handle_vpmovsx(i))
      /\ i.it = "vpmovzxwd" => Fitted(i, handle_vpmovzx(i))
      /\ i.it = "vpmovwb" => Fitted(i, handle_vpmovwb(i))
      /\ i.it \in {"vpmovdb", "vpmovqd"} => Fitted(i, handle_vpmov_down(i))
      /\ i.it = "vextractps" => Fitted(i, handle_vextractps(i))
      /\ i.it = "vinsertps" => Fitted(i, handle_vinsertps(i))
  BY BroadcastsFit, InsertsFit, ExtractsFit, AddressedLogicFits DEF handle_vpmovzx
<1> QED BY <1>1, <1>3, <1>4, <1>5, SMTT(60) DEF apply_shuffle

(* VMX.                                                                    *)
LEMMA VmxFits ==
  ASSUME NEW i, Fine(i)
  PROVE  Fitted(i, vmx_apply(i))
<1>1. /\ Known(i) /\ i.b64 /\ PtrSize(i) = 8 /\ Op(i, 2).w \in Nat
      /\ \A n \in 2..4, z \in Nat : z <= 8 /\ z <= BytesRead(i) => Reaches(i, n, z)
  BY MovOperands, FineIs DEF Known
<1> DEFINE N == Need(8, 0, 0)
<1>2. N \in Needs /\ N["s"] = 8
  BY NeedIs
<1> HIDE DEF N
<1>3. /\ \A n : Suits(i, N, load_mem_address(i, n))
      /\ Arg(i, N, MemAddress(i)) /\ \A n : Arg(i, N, Reg(n, PtrSize(i)))
  <2>1. PtrSize(i) <= 8
    BY <1>1
  <2>2. \A n : Arg(i, N, Reg(n, PtrSize(i)))
    BY <2>1, ArgsFit
  <2> QED BY <1>1, <1>2, <2>2, FitsAddress
<1>4. \A dst, args : Given(i, N, args) => Suits(i, N, VMXIntrinsic(dst, args))
  BY FitsEmits, FitsEnds, Fitting DEF VMXIntrinsic
<1>5. \A p, q : Suits(i, N, p) /\ Suits(i, N, q) => Suits(i, N, p \o q)
  BY Fitting
<1>6. /\ Given(i, N, <<>>) /\ Given(i, N, <<MemAddress(i)>>) /\ \A n : Given(i, N, <<Reg(n, PtrSize(i))>>)
      /\ \A n : Given(i, N, <<MemAddress(i), Reg(n, PtrSize(i))>>)
      /\ \A n : Given(i, N, <<Reg(n, PtrSize(i)), MemAddress(i)>>)
  BY <1>3, GivenClosed
<1>7. Suits(i, N, handle_vmx_no_op(i)) /\ Suits(i, N, handle_vmx_mem_op(i)) /\ Suits(i, N, handle_vmptrst(i))
  BY <1>3, <1>4, <1>5, <1>6 DEF handle_vmx_no_op, handle_vmx_mem_op, handle_vmptrst
<1>8. Suits(i, N, handle_vmread(i)) /\ Suits(i, N, handle_invept(i)) /\ Suits(i, N, handle_invvpid(i))
  BY <1>3, <1>4, <1>5, <1>6 DEF handle_vmread, handle_invept, handle_invvpid
<1>9. i.it = "vmwrite" => Suits(i, N, handle_vmwrite(i))
  <2> SUFFICES ASSUME i.it = "vmwrite" PROVE Suits(i, N, handle_vmwrite(i))
    OBVIOUS
  <2> DEFINE load == IF IsMem(Op(i, 2)) THEN <<LoadOp(2, "s", Op(i, 2).w)>> ELSE <<>>
             args == <<Reg(1, PtrSize(i)), Loaded(i, 2, "s", PtrSize(i))>>
  <2>1. BytesRead(i) = 8
    BY DEF BytesRead
  <2>2. Reaches(i, 2, 8)
    BY <1>1, <2>1
  <2>3. Arg(i, N, Loaded(i, 2, "s", 8))
    BY <1>1, <1>2, <2>2, FitsSource
  <2>4. Given(i, N, args)
    BY <1>1, <1>3, <2>3, GivenClosed
  <2>5. Suits(i, N, load)
    <3>1. IsMem(Op(i, 2)) => N["s"] <= Op(i, 2).w
      BY <1>2, <2>2 DEF Reaches
    <3>2. IsMem(Op(i, 2)) => Meets(i, N, LoadOp(2, "s", Op(i, 2).w))
      BY <3>1, StepsMeet
    <3> QED BY <3>2, FitsOne
  <2> HIDE DEF load, args
  <2>6. Suits(i, N, VMXIntrinsic(Effect, args))
    BY <1>4, <2>4
  <2> QED BY <1>5, <2>5, <2>6 DEF handle_vmwrite, load, args
<1>10. Suits(i, N, MERR_INSN)
  BY FitsEnds
<1>11. Suits(i, N, vmx_apply(i))
  BY <1>7, <1>8, <1>9, <1>10, Zenon DEF vmx_apply
<1> QED BY <1>2, <1>11 DEF Fitted

(* Whatever apply() is given.                                              *)
LEMMA ApplyFits ==
  ASSUME NEW i, Fine(i)
  PROVE  Fitted(i, apply(i))
<1> DEFINE N == Need(0, 0, 0)
<1>1. Fitted(i, MERR_INSN) /\ Fitted(i, MERR_OK) /\ Fitted(i, handle_zmm_direct_call(i))
  <2>1. N \in Needs
    BY NeedIs
  <2> HIDE DEF N
  <2>2. Suits(i, N, handle_zmm_direct_call(i))
    BY GivenClosed, FitsEmits, FitsEnds, Fitting DEF handle_zmm_direct_call
  <2> QED BY <2>1, <2>2, FitsEnds DEF Fitted
<1> HIDE DEF N
<1>2. /\ i.it \in CompareToMask => Fitted(i, handle_v_cmp_to_mask(i))
      /\ i.it \in TestToMask => Fitted(i, handle_v_2src_to_mask(i))
      /\ i.it \in ClassToMask => Fitted(i, handle_v_fpclass_to_mask(i))
      /\ i.it \in SignsToMask => Fitted(i, handle_v_movx2m(i))
      /\ i.it \in Intersects => Fitted(i, handle_v_p2intersect(i))
  BY IntoMaskFits DEF IntoMask
<1>3. /\ i.it \in Kmovs => Fitted(i, handle_kmov(i))
      /\ i.it \in UnaryMaskOps \union BinaryMaskOps => Fitted(i, handle_k_alu(i))
      /\ i.it \in Broadcastm => Fitted(i, handle_v_broadcastm(i))
      /\ i.it \in MaskToVec \ Broadcastm => Fitted(i, handle_v_mask_to_vec(i))
  BY OpmasksFit, MaskToVecFits
<1>4. /\ i.it \in ConversionInsns => Fitted(i, apply_cvt(i))
      /\ i.it \in MathInsns => Fitted(i, apply_math(i))
      /\ Op(i, 1).k # "k" /\ i.it \in LogicInsns => Fitted(i, apply_shuffle(i))
  BY CvtFits, MathFits, ShufflesFit
<1>5. /\ i.it \in {"vmovss", "vmovsd"} => Fitted(i, handle_vmov_ss_sd(i))
      /\ i.it = "vmovsh" => Fitted(i, handle_vmov_sh(i))
      /\ i.it \in {"vmovd", "vmovq"} => Fitted(i, handle_vmov(i))
      /\ i.it = "vmovw" => Fitted(i, handle_vmovw(i))
  BY ScalarMovFits, TransfersFit DEF ScalarMoves, Transfers
<1>6. /\ i.it \in WholeMoveInsns => Fitted(i, handle_v_mov_ps_dq(i))
      /\ i.it \in {"vcompressps", "vpcompressw"} => Fitted(i, handle_v_compress(i))
      /\ i.it \in {"vexpandps", "vpexpandw"} => Fitted(i, handle_v_expand(i))
      /\ i.it \in Gathers => Fitted(i, handle_v_gather(i))
      /\ i.it \in Scatters => Fitted(i, handle_v_scatter(i))
  BY WholeMovesFit, PacksFit, GathersFit DEF PackInsns
<1> QED BY <1>1, <1>2, <1>3, <1>4, <1>5, <1>6, SMTT(60) DEF apply

(* The last step that binds a temporary.                                   *)
LEMMA LastBinding ==
  ASSUME NEW p, NEW k \in Nat, NEW v, NEW b \in 1..k - 1, Binds(p[b], v)
  PROVE  \E c \in 1..k - 1 : Binds(p[c], v) /\ \A l \in c + 1..k - 1 : ~Binds(p[l], v)
<1> DEFINE T == {m \in Nat : k - 1 - m \in 1..k - 1 /\ Binds(p[k - 1 - m], v)}
<1>1. k - 1 - b \in Nat /\ k - 1 - (k - 1 - b) = b
  OBVIOUS
<1>2. k - 1 - b \in T
  BY <1>1
<1>3. PICK m \in T : \A n \in T : m <= n
  <2>1. T \in SUBSET Nat /\ T # {}
    BY <1>2
  <2> HIDE DEF T
  <2> QED BY <2>1, LeastElement
<1>4. k - 1 - m \in 1..k - 1 /\ Binds(p[k - 1 - m], v) /\ m \in Nat
  BY <1>3
<1>5. ASSUME NEW l \in (k - 1 - m) + 1..k - 1, Binds(p[l], v) PROVE FALSE
  <2>1. k - 1 - l \in Nat /\ k - 1 - (k - 1 - l) = l /\ k - 1 - l < m /\ l \in 1..k - 1
    BY <1>4
  <2>2. k - 1 - l \in T
    BY <1>5, <2>1
  <2> HIDE DEF T
  <2> QED BY <1>3, <1>4, <2>1, <2>2
<1> QED BY <1>4, <1>5

(* A temporary of a plan that fits has, where it is read, all the bytes    *)
(* that are needed of it.                                                  *)
LEMMA Brought ==
  ASSUME NEW i, i.b64, NEW N \in Needs, NEW p, Suits(i, N, p), ~FallsBack(p),
         NEW k \in 1..Len(p), NEW v, Live(p, k, v), Reads(p[k], v)
  PROVE  \E j \in 1..k - 1 :
           /\ Binds(p[j], v) \/ Fills(p[j], v)
           /\ N[v] <= Bytes(i, p[j])
           /\ \A l \in j + 1..k - 1 : ~Binds(p[l], v)
<1>1. Len(p) \in Nat /\ k \in Nat /\ k <= Len(p)
  BY DEF Suits, IsPlan
<1>2. PICK b \in 1..k - 1 : Binds(p[b], v)
  BY DEF Live
<1>3. PICK c \in 1..k - 1 : Binds(p[c], v) /\ \A l \in c + 1..k - 1 : ~Binds(p[l], v)
  BY <1>1, <1>2, LastBinding
<1>4. c \in 1..Len(p) /\ Brings(i, N, p[c]) /\ Filled(N, p, c)
  BY <1>1, <1>3 DEF Suits
<1>5. p[c].v = v /\ p[c].do \in {"load", "addr", "alloc"}
  <2>1. p[c].do # "widen"
    BY <1>4 DEF FallsBack
  <2> QED BY <1>3, <2>1 DEF Binds
<1>6. CASE p[c].do = "load"
  <2>1. N[v] <= Bytes(i, p[c])
    BY <1>4, <1>5, <1>6 DEF Brings, Bytes
  <2> QED BY <1>3, <2>1
<1>7. CASE p[c].do = "addr"
  <2>1. N[v] <= Bytes(i, p[c])
    BY <1>4, <1>5, <1>7 DEF Brings, Bytes, PtrSize
  <2> QED BY <1>3, <2>1
<1>8. CASE p[c].do = "alloc"
  <2>1. PICK m \in c + 1..Len(p) :
          /\ Fills(p[m], v) /\ N[v] <= p[m].dst.w
          /\ \A l \in c + 1..m : ~Reads(p[l], v)
    BY <1>4, <1>5, <1>8 DEF Filled
  <2>2. ~(k <= m)
    BY <1>1, <1>3, <2>1
  <2>3. m \in 1..k - 1 /\ \A l \in m + 1..k - 1 : l \in c + 1..k - 1
    BY <1>1, <1>3, <2>1, <2>2
  <2>4. N[v] <= Bytes(i, p[m])
    BY <2>1 DEF Fills, Bytes
  <2> QED BY <1>3, <2>1, <2>3, <2>4
<1> QED BY <1>5, <1>6, <1>7, <1>8

(* A plan that fits, of temporaries it has, is well scoped.                *)
LEMMA FittingIsScoped ==
  ASSUME NEW i \in Insns, i.b64, ~i.seg, NEW N \in Needs, Suits(i, N, Plan[i]), OnlyLive(Plan[i]),
         ~FallsBack(Plan[i])
  PROVE  WellScoped(i, Plan[i])
<1> DEFINE p == Plan[i]
<1>1. ASSUME NEW k \in 1..Len(p), p[k].do \in {"widen", "store", "emit"}, NEW j \in DOMAIN p[k].src
      PROVE  Readable(i, p, k, p[k].src[j])
  <2> DEFINE s == p[k].src[j]
  <2>1. p[k].do \in {"store", "emit"}
    BY <1>1 DEF FallsBack
  <2>2. j \in 1..Len(p[k].src) /\ Takes(i, N, s)
    <3>1. TakesAll(i, N, p[k].src)
      BY <2>1 DEF Suits, Brings
    <3>2. DOMAIN p[k].src = 1..Len(p[k].src)
      BY <3>1 DEF TakesAll, IsPlan
    <3> QED BY <3>1, <3>2 DEF TakesAll
  <2>3. HasOperands(i, p[k])
    BY CodegenAssumption
  <2>4. s.w \in Nat /\ (s.at \in {"tmp", "deref"} => s.v \in Vars /\ N[s.v] \in Nat)
    BY <2>3 DEF HasOperands, Needs
  <2>5. s.at \in {"tmp", "deref"} => Live(p, k, s.v)
    BY <1>1 DEF OnlyLive
  <2>6. ASSUME s.at \in {"tmp", "deref"}, NEW n \in Nat, n <= N[s.v] PROVE Defined(i, p, k, s.v, n)
    <3> DEFINE v == s.v
    <3>1. Reads(p[k], v)
      BY <2>1, <2>2, <2>6 DEF Reads
    <3>2. Live(p, k, v) /\ N[v] \in Nat /\ n <= N[v]
      BY <2>4, <2>5, <2>6
    <3> HIDE DEF v, p, s
    <3>3. PICK c \in 1..k - 1 :
            /\ Binds(p[c], v) \/ Fills(p[c], v)
            /\ N[v] <= Bytes(i, p[c])
            /\ \A l \in c + 1..k - 1 : ~Binds(p[l], v)
      BY <3>1, <3>2, Brought DEF p
    <3>4. Bytes(i, p[c]) \in Nat
      <4>1. Len(p) \in Nat
        BY DEF Suits, IsPlan, p
      <4>2. c \in 1..Len(p)
        BY <3>3, <4>1
      <4>3. HasOperands(i, p[c])
        BY <4>2, CodegenAssumption DEF p
      <4> QED BY <4>3 DEF HasOperands, Bytes, PtrSize
    <3>5. n <= Bytes(i, p[c])
      BY <3>2, <3>3, <3>4
    <3>6. Defined(i, p, k, v, n)
      BY <3>3, <3>5 DEF Defined
    <3> QED BY <3>6 DEF v
  <2>7. PtrSize(i) = 8
    BY DEF PtrSize
  <2>8. s.at = "tmp" => Defined(i, p, k, s.v, s.w)
    BY <2>2, <2>4, <2>6 DEF Takes
  <2>9. s.at = "deref" => Defined(i, p, k, s.v, PtrSize(i))
    BY <2>2, <2>4, <2>6, <2>7 DEF Takes
  <2>10. s.at = "reg" /\ RegLoc(i, s.n, s.w)[1] = "g" => s.w <= PtrSize(i)
    BY <2>2, <2>7 DEF Takes, RegLoc
  <2> HIDE DEF s, p
  <2>11. Readable(i, p, k, s)
    BY <2>5, <2>8, <2>9, <2>10 DEF Readable
  <2> QED BY <2>11 DEF s
<1>2. \A s : Supported(i, s)
  BY DEF Supported
<1>3. \A k \in 1..Len(p) :
        /\ p[k].do = "free" => Live(p, k, p[k].v)
        /\ p[k].do = "emit" /\ p[k].dst.at = "tmp" => Live(p, k, p[k].dst.v)
  BY DEF OnlyLive
<1> HIDE DEF p
<1>4. WellScoped(i, p)
  BY <1>1, <1>2, <1>3 DEF WellScoped
<1> QED BY <1>4 DEF p

(* What a 64-bit binary can have: instructions without segment override,   *)
(* which match() declines, as they are encoded, and the handlers' plans.   *)
Encoded64 ==
  \A i \in Insns : Fine(i) /\ ~i.seg /\ (Plan[i] = apply(i) \/ Plan[i] = vmx_apply(i))

(* Every handler, then, either goes on after a failure or widens, or is    *)
(* well scoped.                                                            *)
LEMMA HandlersWellScoped ==
  ASSUME Encoded64, NEW i \in Insns
  PROVE  FallsBack(Plan[i]) \/ WellScoped(i, Plan[i])
<1>1. i.b64 /\ ~i.seg /\ Encodable(i)
  BY DEF Encoded64, Fine
<1>2. OnlyLive(Plan[i])
  BY <1>1, EveryHandlerScoped, ScopeIsOnlyLive DEF Encoded64
<1>3. PICK N \in Needs : Suits(i, N, Plan[i])
  BY ApplyFits, VmxFits DEF Encoded64, Fitted
<1> QED BY <1>1, <1>2, <1>3, FittingIsScoped

(* In a 64-bit binary, every temporary that a handler's microcode reads    *)
(* has been given, on every path, as many bytes as are read of it: in a    *)
(* call, a move or a store, after a load, a widening or an allocation; and *)
(* of a general register none past its end. Where not, the handler goes on *)
(* after a failure that it does not look at, or widens.                    *)
THEOREM HandlersScoped ==
  ASSUME Encoded64
  PROVE  Spec => []Scoped
<1>1. TypeOK => Scoped
  BY HandlersWellScoped DEF TypeOK, Scoped
<1> QED BY <1>1, TypeCorrect, PTL

(* So, however few kregs there are and whatever fails, microcode that      *)
(* misreads is that of such a handler.                                     *)
THEOREM HandlersMisread ==
  ASSUME Encoded64
  PROVE  Spec => []OnlyFallbacksMisread
BY HandlersWellScoped, OnlyFallbacksMisreadHolds
===========================================================================
