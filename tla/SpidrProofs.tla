------------------------------ MODULE SpidrProofs ------------------------------
(***************************************************************************)
(* What the controller's operations can be relied on for, whatever the     *)
(* network delays and the module refuses, for any number of devices and    *)
(* rows, any registers and any number of faults and calls.                 *)
(***************************************************************************)
EXTENDS SpidrController, SequenceTheorems, WellFoundedInduction, TLAPS

-----------------------------------------------------------------------------
(* Sequences of anything.                                                  *)

IsSeq(s) == \E S : s \in Seq(S)

LEMMA InSeq == ASSUME NEW S, NEW s \in Seq(S) PROVE IsSeq(s)
BY DEF IsSeq

LEMMA SeqFacts ==
    ASSUME NEW s, IsSeq(s)
    PROVE  Len(s) \in Nat /\ DOMAIN s = 1 .. Len(s) /\ (s = <<>> <=> Len(s) = 0)
<1>1. PICK S : s \in Seq(S)
  BY DEF IsSeq
<1> QED
  BY <1>1, LenProperties, EmptySeq

LEMMA EmptyIs == IsSeq(<<>>) /\ Len(<<>>) = 0
<1>1. <<>> \in Seq({})
  BY EmptySeq
<1> QED
  BY <1>1, EmptySeq, InSeq

LEMMA SingletonIs ==
    ASSUME NEW x PROVE IsSeq(<<x>>) /\ Len(<<x>>) = 1 /\ <<x>>[1] = x
<1>1. <<x>> \in Seq({x})
  OBVIOUS
<1> QED
  BY <1>1, InSeq

LEMMA ListIs ==
    ASSUME NEW n \in Nat, NEW f, f = [i \in 1 .. n |-> f[i]]
    PROVE  IsSeq(f) /\ Len(f) = n
<1> DEFINE S == {f[i] : i \in 1 .. n}
<1>1. f \in [1 .. n -> S]
  OBVIOUS
<1>2. f \in Seq(S) /\ Len(f) = n
  BY <1>1
<1> HIDE DEF S
<1> QED
  BY <1>2, InSeq

LEMMA HeadIs ==
    ASSUME NEW s, IsSeq(s), s # <<>>
    PROVE  Head(s) = s[1] /\ Len(s) >= 1
BY SeqFacts

LEMMA TailIs ==
    ASSUME NEW s, IsSeq(s), s # <<>>
    PROVE  /\ IsSeq(Tail(s)) /\ Len(Tail(s)) = Len(s) - 1
           /\ \A i \in 1 .. Len(s) - 1 : Tail(s)[i] = s[i + 1]
<1>1. PICK S : s \in Seq(S)
  BY DEF IsSeq
<1>2. /\ Tail(s) \in Seq(S) /\ Len(Tail(s)) = Len(s) - 1
      /\ \A i \in 1 .. Len(Tail(s)) : Tail(s)[i] = s[i + 1]
  BY <1>1, HeadTailProperties
<1> QED
  BY <1>2, InSeq

LEMMA ConcatIs ==
    ASSUME NEW s, IsSeq(s), NEW t, IsSeq(t)
    PROVE  /\ IsSeq(s \o t) /\ Len(s \o t) = Len(s) + Len(t)
           /\ \A i \in 1 .. Len(s) + Len(t) :
                  (s \o t)[i] = IF i <= Len(s) THEN s[i] ELSE t[i - Len(s)]
<1>1. PICK S : s \in Seq(S)
  BY DEF IsSeq
<1>2. PICK T : t \in Seq(T)
  BY DEF IsSeq
<1>3. s \in Seq(S \cup T) /\ t \in Seq(S \cup T)
  BY <1>1, <1>2, SeqMonotonic
<1>4. /\ s \o t \in Seq(S \cup T) /\ Len(s \o t) = Len(s) + Len(t)
      /\ \A i \in 1 .. Len(s) + Len(t) :
             (s \o t)[i] = IF i <= Len(s) THEN s[i] ELSE t[i - Len(s)]
  BY <1>3, ConcatProperties
<1> QED
  BY <1>4, InSeq

LEMMA AppendIs ==
    ASSUME NEW s, IsSeq(s), NEW x
    PROVE  /\ IsSeq(Append(s, x)) /\ Len(Append(s, x)) = Len(s) + 1
           /\ \A i \in 1 .. Len(s) : Append(s, x)[i] = s[i]
           /\ Append(s, x)[Len(s) + 1] = x
<1>1. PICK S : s \in Seq(S)
  BY DEF IsSeq
<1>2. s \in Seq(S \cup {x})
  BY <1>1, SeqMonotonic
<1>3. /\ Append(s, x) \in Seq(S \cup {x}) /\ Len(Append(s, x)) = Len(s) + 1
      /\ \A i \in 1 .. Len(s) : Append(s, x)[i] = s[i]
      /\ Append(s, x)[Len(s) + 1] = x
  BY <1>2, AppendProperties
<1> QED
  BY <1>3, InSeq

LEMMA FromIs ==
    ASSUME NEW s, IsSeq(s), NEW m \in 1 .. Len(s) + 1
    PROVE  /\ IsSeq(SubSeq(s, m, Len(s))) /\ Len(SubSeq(s, m, Len(s))) = Len(s) - m + 1
           /\ \A i \in 1 .. Len(s) - m + 1 : SubSeq(s, m, Len(s))[i] = s[m + i - 1]
<1>1. PICK S : s \in Seq(S)
  BY DEF IsSeq
<1>2. Len(s) \in Nat /\ m \in Int
  BY SeqFacts
<1>3. \A i \in m .. Len(s) : s[i] \in S
  BY <1>1, <1>2
<1>4. /\ SubSeq(s, m, Len(s)) \in Seq(S)
      /\ Len(SubSeq(s, m, Len(s))) = IF m <= Len(s) THEN Len(s) - m + 1 ELSE 0
      /\ \A i \in 1 .. Len(s) - m + 1 : SubSeq(s, m, Len(s))[i] = s[m + i - 1]
  BY <1>2, <1>3, SubSeqProperties
<1>5. Len(SubSeq(s, m, Len(s))) = Len(s) - m + 1
  BY <1>2, <1>4
<1> QED
  BY <1>4, <1>5, InSeq

(* The last of some positions. *)
LEMMA LastExists ==
    ASSUME NEW n \in Nat, NEW T \in SUBSET (1 .. n), T # {}
    PROVE  \E i \in T : \A j \in T : j <= i
<1> DEFINE U == {n - i : i \in T}
<1>1. U \subseteq Nat /\ U # {}
  <2>1. \A i \in T : n - i \in Nat
    OBVIOUS
  <2> QED
    BY <2>1
<1>2. PICK x \in U : \A y \in U : ~ (<<y, x>> \in OpToRel(<, Nat))
  BY <1>1, WFMin, NatLessThanWellFounded
<1>3. \A y \in U : ~ (y < x)
  BY <1>1, <1>2 DEF OpToRel
<1>4. PICK i \in T : x = n - i
  OBVIOUS
<1>5. \A j \in T : j <= i
  BY <1>3, <1>4
<1> QED
  BY <1>5

-----------------------------------------------------------------------------
(* Well-formed requests and steps.                                         *)

IsReq(r) ==
    /\ r = Req(r.kind, r.what, r.dev, r.at, r.val)
    /\ r.kind \in {"set", "get", "modify", "verify"}

(* What a request may write to a register. *)
OwnBits(r) ==
    /\ r.kind = "set" /\ r.what = "SPIDRREG" => r.val \subseteq BitsOf(r.at)
    /\ r.kind = "modify" =>
           /\ r.what = "SPIDRREG"
           /\ r.val = [bit |-> r.val.bit, on |-> r.val.on]
           /\ r.val.bit \in BitsOf(r.at) /\ r.val.on \in BOOLEAN

(* The register that m modifies is read by r. *)
ReadBy(r, m) == r.kind = "get" /\ Place(r) = Place(m)

(* The requests of a call: each modification comes after a reading. *)
GoodReqs(s) ==
    /\ IsSeq(s)
    /\ \A i \in 1 .. Len(s) : IsReq(s[i]) /\ OwnBits(s[i])
    /\ \A i \in 1 .. Len(s) : s[i].kind = "modify" => i > 1 /\ ReadBy(s[i - 1], s[i])

IsStep(x) ==
    /\ x = [req |-> x.req, skip |-> x.skip, tested |-> x.tested]
    /\ IsReq(x.req) /\ OwnBits(x.req) /\ x.skip \in Nat /\ x.tested \in BOOLEAN

(* The steps that are left, one perhaps begun: a failure leads past the    *)
(* rest of the call, where no modification is next.                        *)
GoodSteps(s) ==
    /\ IsSeq(s)
    /\ \A i \in 1 .. Len(s) : IsStep(s[i]) /\ i + s[i].skip <= Len(s)
    /\ \A i \in 1 .. Len(s) : \A k \in i .. i + s[i].skip : s[k].tested = s[i].tested
    /\ \A i, k \in 1 .. Len(s) : k = i + s[i].skip + 1 => s[k].req.kind # "modify"
    /\ \A i \in 1 .. Len(s) :
           s[i].req.kind = "modify" /\ i > 1 => ReadBy(s[i - 1].req, s[i].req)

NotBegun(s) == s # <<>> => s[1].req.kind # "modify"

LEMMA ConcatReqs ==
    ASSUME NEW s, GoodReqs(s), NEW t, GoodReqs(t) PROVE GoodReqs(s \o t)
<1> DEFINE u == s \o t
<1>1. /\ IsSeq(u) /\ Len(u) = Len(s) + Len(t) /\ Len(s) \in Nat /\ Len(t) \in Nat
      /\ \A i \in 1 .. Len(s) + Len(t) : u[i] = IF i <= Len(s) THEN s[i] ELSE t[i - Len(s)]
  BY ConcatIs, SeqFacts DEF GoodReqs
<1> HIDE DEF u
<1>2. ASSUME NEW i \in 1 .. Len(u)
      PROVE  /\ IsReq(u[i]) /\ OwnBits(u[i])
             /\ u[i].kind = "modify" => i > 1 /\ ReadBy(u[i - 1], u[i])
  <2>1. CASE i <= Len(s)
    <3>1. i \in 1 .. Len(s) /\ u[i] = s[i] /\ (i > 1 => u[i - 1] = s[i - 1])
      BY <1>1, <2>1
    <3> QED
      BY <3>1 DEF GoodReqs
  <2>2. CASE i > Len(s)
    <3>1. i - Len(s) \in 1 .. Len(t) /\ u[i] = t[i - Len(s)]
          /\ (i - Len(s) > 1 => i > 1 /\ u[i - 1] = t[(i - Len(s)) - 1])
      BY <1>1, <2>2
    <3> QED
      BY <3>1 DEF GoodReqs
  <2> QED
    BY <1>1, <2>1, <2>2
<1> QED
  BY <1>1, <1>2 DEF GoodReqs, u

LEMMA OneReq ==
    ASSUME NEW r, IsReq(r), OwnBits(r), r.kind # "modify" PROVE GoodReqs(<<r>>)
<1>1. IsSeq(<<r>>) /\ Len(<<r>>) = 1 /\ <<r>>[1] = r
  BY SingletonIs, Zenon
<1> DEFINE s == <<r>>
<1> HIDE DEF s
<1>2. IsSeq(s) /\ Len(s) = 1 /\ s[1] = r
  BY <1>1 DEF s
<1>3. \A i \in 1 .. Len(s) : i = 1
  BY <1>2
<1>4. GoodReqs(s)
  BY <1>2, <1>3 DEF GoodReqs
<1> QED
  BY <1>4 DEF s

LEMMA CallSteps ==
    ASSUME NEW s, GoodReqs(s), NEW tested \in BOOLEAN
    PROVE  /\ GoodSteps(Call(tested, s)) /\ NotBegun(Call(tested, s))
           /\ Len(Call(tested, s)) = Len(s)
           /\ \A i \in 1 .. Len(s) : /\ Call(tested, s)[i].req = s[i]
                                     /\ Call(tested, s)[i].tested = tested
<1> DEFINE c == Call(tested, s)
<1>1. IsSeq(s) /\ Len(s) \in Nat /\ DOMAIN s = 1 .. Len(s)
  BY SeqFacts DEF GoodReqs
<1>2. c = [i \in 1 .. Len(s) |-> [req |-> s[i], skip |-> Len(s) - i, tested |-> tested]]
  BY <1>1 DEF Call
<1> HIDE DEF c
<1>3. \A i \in 1 .. Len(s) : c[i] = [req |-> s[i], skip |-> Len(s) - i, tested |-> tested]
  BY <1>2
<1>4. IsSeq(c) /\ Len(c) = Len(s)
  <2>1. c = [i \in 1 .. Len(s) |-> c[i]]
    BY <1>2
  <2> QED
    BY <1>1, <2>1, ListIs
<1>a. ASSUME NEW i \in 1 .. Len(c)
      PROVE  /\ c[i].req = s[i] /\ c[i].skip = Len(s) - i /\ c[i].tested = tested
             /\ c[i] = [req |-> c[i].req, skip |-> c[i].skip, tested |-> c[i].tested]
  <2>1. i \in 1 .. Len(s)
    BY <1>4
  <2>2. c[i] = [req |-> s[i], skip |-> Len(s) - i, tested |-> tested]
    BY <1>3, <2>1
  <2> QED
    BY <2>2
<1>5. ASSUME NEW i \in 1 .. Len(c)
      PROVE  IsStep(c[i]) /\ c[i].skip \in Nat /\ i + c[i].skip = Len(c)
  <2>1. c[i] = [req |-> c[i].req, skip |-> c[i].skip, tested |-> c[i].tested]
    BY <1>a
  <2>3. i \in 1 .. Len(s) /\ c[i].skip = Len(s) - i
    BY <1>4, <1>a
  <2>2. c[i].skip \in Nat /\ i + c[i].skip = Len(c) /\ i \in 1 .. Len(s)
    <3>1. Len(s) - i \in Nat /\ i + (Len(s) - i) = Len(s)
      BY <1>1, <2>3
    <3> QED
      BY <1>4, <2>3, <3>1
  <2> QED
    BY <1>a, <2>1, <2>2 DEF GoodReqs, IsStep
<1>6. ASSUME NEW i \in 1 .. Len(c), NEW k \in i .. i + c[i].skip
      PROVE  c[k].tested = c[i].tested
  <2>1. k \in 1 .. Len(c)
    BY <1>5
  <2> QED
    BY <1>a, <2>1
<1>7. ASSUME NEW i \in 1 .. Len(c), NEW k \in 1 .. Len(c), k = i + c[i].skip + 1
      PROVE  c[k].req.kind # "modify"
  BY <1>5, <1>7
<1>8. ASSUME NEW i \in 1 .. Len(c), c[i].req.kind = "modify"
      PROVE  i > 1 /\ ReadBy(c[i - 1].req, c[i].req)
  <2>1. i \in 1 .. Len(s) /\ s[i].kind = "modify"
    BY <1>4, <1>8, <1>a
  <2>2. i > 1 /\ ReadBy(s[i - 1], s[i]) /\ i - 1 \in 1 .. Len(c)
    BY <1>4, <2>1 DEF GoodReqs
  <2> QED
    BY <1>a, <2>2
<1>9. NotBegun(c)
  BY <1>1, <1>4, <1>8, SeqFacts DEF NotBegun
<1>b. GoodSteps(c)
  BY <1>4, <1>5, <1>6, <1>7, <1>8 DEF GoodSteps
<1> QED
  BY <1>4, <1>9, <1>a, <1>b DEF c

LEMMA Shifted ==
    ASSUME NEW j \in Nat, j >= 1, NEW n \in Nat, NEW x \in Nat, NEW m \in Nat, j + x <= m,
           NEW k \in j + n .. (j + n) + x
    PROVE  k - n \in j .. j + x /\ k - n \in 1 .. m /\ (k - n) + n = k
OBVIOUS

LEMMA ConcatSteps ==
    ASSUME NEW s, GoodSteps(s), NotBegun(s), NEW t, GoodSteps(t), NotBegun(t)
    PROVE  GoodSteps(s \o t) /\ NotBegun(s \o t)
<1> DEFINE u == s \o t
<1>1. /\ IsSeq(u) /\ Len(u) = Len(s) + Len(t) /\ Len(s) \in Nat /\ Len(t) \in Nat
      /\ \A i \in 1 .. Len(s) + Len(t) : u[i] = IF i <= Len(s) THEN s[i] ELSE t[i - Len(s)]
  BY ConcatIs, SeqFacts DEF GoodSteps
<1> HIDE DEF u
<1>2. \A i \in 1 .. Len(s) : u[i] = s[i]
  BY <1>1
<1>3. \A i \in 1 .. Len(t) : u[i + Len(s)] = t[i]
  BY <1>1
<1>4. \A i \in 1 .. Len(u) : i \in 1 .. Len(s) \/ (i - Len(s) \in 1 .. Len(t))
  BY <1>1
<1>a. Len(u) = Len(s) + Len(t) /\ Len(s) \in Nat /\ Len(t) \in Nat
  BY <1>1
<1>0. (Len(s) > 0 => s # <<>>) /\ (Len(t) > 0 => t # <<>>) /\ (u # <<>> => Len(u) > 0)
  BY <1>1, SeqFacts DEF GoodSteps
<1>5. ASSUME NEW i \in 1 .. Len(s)
      PROVE  /\ IsStep(u[i]) /\ i + u[i].skip <= Len(u)
             /\ \A k \in i .. i + u[i].skip : u[k].tested = u[i].tested
             /\ \A k \in 1 .. Len(u) : k = i + u[i].skip + 1 => u[k].req.kind # "modify"
             /\ u[i].req.kind = "modify" => i > 1 /\ ReadBy(u[i - 1].req, u[i].req)
  <2>1. u[i] = s[i] /\ IsStep(s[i]) /\ i + s[i].skip <= Len(s) /\ s[i].skip \in Nat
    BY <1>2 DEF GoodSteps, IsStep
  <2>2. \A k \in i .. i + u[i].skip : u[k].tested = u[i].tested
    <3>1. \A k \in i .. i + s[i].skip : s[k].tested = s[i].tested
      BY DEF GoodSteps
    <3>2. \A k \in i .. i + s[i].skip : k \in 1 .. Len(s)
      BY <1>a, <2>1
    <3> QED
      BY <1>2, <2>1, <3>1, <3>2
  <2>3. ASSUME NEW k \in 1 .. Len(u), k = i + u[i].skip + 1 PROVE u[k].req.kind # "modify"
    <3>1. CASE k <= Len(s)
      <4>1. k \in 1 .. Len(s) /\ u[k] = s[k] /\ u[i] = s[i]
        BY <1>1, <1>2, <3>1
      <4>2. k = i + s[i].skip + 1
        BY <2>3, <4>1
      <4> QED
        BY <4>1, <4>2 DEF GoodSteps
    <3>2. CASE k > Len(s)
      <4>0. u[i].skip \in Nat /\ i + u[i].skip <= Len(s)
        BY <2>1
      <4>1. k = 1 + Len(s) /\ 1 \in 1 .. Len(t)
        <5>1. PICK x \in Nat : x = u[i].skip
          BY <4>0
        <5>2. /\ k = i + x + 1 /\ i + x <= Len(s) /\ Len(s) < k
              /\ i \in Nat /\ k \in Nat /\ k <= Len(s) + Len(t)
          BY <1>1, <2>3, <3>2, <4>0, <5>1
        <5> QED
          BY <1>1, <5>2
      <4>2. u[k] = t[1] /\ t # <<>>
        BY <1>0, <1>3, <4>1
      <4> QED
        BY <4>2 DEF NotBegun
    <3> QED
      BY <1>1, <3>1, <3>2
  <2>4. u[i].req.kind = "modify" => i > 1 /\ ReadBy(u[i - 1].req, u[i].req)
    <3>1. i = 1 => u[i].req.kind # "modify"
      BY <1>0, <2>1 DEF NotBegun
    <3>2. i > 1 => u[i - 1] = s[i - 1]
      BY <1>1, <1>2
    <3> QED
      BY <2>1, <3>1, <3>2 DEF GoodSteps
  <2> QED
    BY <1>1, <2>1, <2>2, <2>3, <2>4
<1>6. ASSUME NEW j \in 1 .. Len(t)
      PROVE  \A i : i = j + Len(s) =>
             /\ IsStep(u[i]) /\ i + u[i].skip <= Len(u)
             /\ \A k \in i .. i + u[i].skip : u[k].tested = u[i].tested
             /\ \A k \in 1 .. Len(u) : k = i + u[i].skip + 1 => u[k].req.kind # "modify"
             /\ u[i].req.kind = "modify" /\ j > 1 => ReadBy(u[i - 1].req, u[i].req)
             /\ j = 1 => u[i].req.kind # "modify"
  <2> SUFFICES ASSUME NEW i, i = j + Len(s)
               PROVE  /\ IsStep(u[i]) /\ i + u[i].skip <= Len(u)
                      /\ \A k \in i .. i + u[i].skip : u[k].tested = u[i].tested
                      /\ \A k \in 1 .. Len(u) : k = i + u[i].skip + 1 => u[k].req.kind # "modify"
                      /\ u[i].req.kind = "modify" /\ j > 1 => ReadBy(u[i - 1].req, u[i].req)
                      /\ j = 1 => u[i].req.kind # "modify"
    OBVIOUS
  <2>1. u[i] = t[j] /\ IsStep(t[j]) /\ j + t[j].skip <= Len(t) /\ t[j].skip \in Nat
    BY <1>3 DEF GoodSteps, IsStep
  <2>2. \A k \in i .. i + u[i].skip : u[k].tested = u[i].tested
    <3> SUFFICES ASSUME NEW k \in i .. i + u[i].skip PROVE u[k].tested = u[i].tested
      OBVIOUS
    <3>0. u[i].skip = t[j].skip /\ t[j].skip \in Nat /\ j + t[j].skip <= Len(t)
      BY <2>1
    <3>1. k - Len(s) \in j .. j + t[j].skip /\ k - Len(s) \in 1 .. Len(t)
          /\ (k - Len(s)) + Len(s) = k
      <4>1. PICK x \in Nat : x = t[j].skip /\ j + x <= Len(t)
        BY <3>0
      <4>2. PICK l \in Nat, m \in Nat : l = Len(s) /\ m = Len(t)
        BY <1>a
      <4>3. j \in Nat /\ j >= 1 /\ j + x <= m /\ k \in j + l .. (j + l) + x
        BY <3>0, <4>1, <4>2
      <4>4. k - l \in j .. j + x /\ k - l \in 1 .. m /\ (k - l) + l = k
        BY <4>3, Shifted
      <4> QED
        BY <4>1, <4>2, <4>4
    <3>2. u[k] = t[k - Len(s)]
      BY <1>3, <3>1
    <3> QED
      BY <2>1, <3>1, <3>2 DEF GoodSteps
  <2>3. \A k \in 1 .. Len(u) : k = i + u[i].skip + 1 => u[k].req.kind # "modify"
    <3> SUFFICES ASSUME NEW k \in 1 .. Len(u), k = i + u[i].skip + 1
                 PROVE  u[k].req.kind # "modify"
      OBVIOUS
    <3>1. k - Len(s) \in 1 .. Len(t) /\ k - Len(s) = j + t[j].skip + 1
          /\ (k - Len(s)) + Len(s) = k
      <4>1. PICK x \in Nat : x = t[j].skip /\ x = u[i].skip
        BY <2>1
      <4>2. PICK l \in Nat, m \in Nat : l = Len(s) /\ m = Len(t) /\ Len(u) = l + m
        BY <1>a
      <4>3. k = (j + l) + x + 1 /\ k \in 1 .. l + m /\ j \in Nat /\ j >= 1
        BY <4>1, <4>2
      <4>4. k - l \in 1 .. m /\ k - l = j + x + 1 /\ (k - l) + l = k
        BY <4>3
      <4> QED
        BY <4>1, <4>2, <4>4
    <3>2. u[k] = t[k - Len(s)]
      BY <1>3, <3>1
    <3>3. \A l \in 1 .. Len(t) : l = j + t[j].skip + 1 => t[l].req.kind # "modify"
      BY DEF GoodSteps
    <3> QED
      BY <3>1, <3>2, <3>3
  <2>4. u[i].req.kind = "modify" /\ j > 1 => ReadBy(u[i - 1].req, u[i].req)
    <3>1. j > 1 => j - 1 \in 1 .. Len(t) /\ (j - 1) + Len(s) = i - 1
      BY <1>1
    <3>2. j > 1 => u[i - 1] = t[j - 1]
      BY <1>3, <3>1
    <3> QED
      BY <2>1, <3>2 DEF GoodSteps
  <2>5. j = 1 => u[i].req.kind # "modify"
    BY <1>0, <1>1, <2>1 DEF NotBegun
  <2>6. i + u[i].skip <= Len(u)
    <3>1. PICK x \in Nat : x = t[j].skip
      BY <2>1
    <3>2. j + x <= Len(t) /\ j \in Nat
      BY <2>1, <3>1
    <3>3. i + x <= Len(u)
      BY <1>1, <3>2
    <3> QED
      BY <2>1, <3>1, <3>3
  <2> QED
    BY <2>1, <2>2, <2>3, <2>4, <2>5, <2>6
<1>7. ASSUME NEW i \in 1 .. Len(u)
      PROVE  /\ IsStep(u[i]) /\ i + u[i].skip <= Len(u)
             /\ \A k \in i .. i + u[i].skip : u[k].tested = u[i].tested
             /\ \A k \in 1 .. Len(u) : k = i + u[i].skip + 1 => u[k].req.kind # "modify"
             /\ u[i].req.kind = "modify" => i > 1 /\ ReadBy(u[i - 1].req, u[i].req)
  <2>1. CASE i \in 1 .. Len(s)
    BY <1>5, <2>1
  <2>2. CASE i - Len(s) \in 1 .. Len(t)
    <3> DEFINE j == i - Len(s)
    <3>1. j \in 1 .. Len(t) /\ i = j + Len(s) /\ (j > 1 => i > 1)
      BY <1>1, <2>2
    <3>2. /\ IsStep(u[i]) /\ i + u[i].skip <= Len(u)
          /\ \A k \in i .. i + u[i].skip : u[k].tested = u[i].tested
          /\ \A k \in 1 .. Len(u) : k = i + u[i].skip + 1 => u[k].req.kind # "modify"
          /\ u[i].req.kind = "modify" /\ j > 1 => ReadBy(u[i - 1].req, u[i].req)
          /\ j = 1 => u[i].req.kind # "modify"
      BY <1>6, <3>1
    <3>3. u[i].req.kind = "modify" => j > 1
      BY <3>1, <3>2
    <3> HIDE DEF j
    <3> QED
      BY <3>1, <3>2, <3>3
  <2> QED
    BY <1>4, <2>1, <2>2
<1>8. NotBegun(u)
  BY <1>0, <1>1, <1>7 DEF NotBegun
<1>9. GoodSteps(u)
  BY <1>1, <1>7 DEF GoodSteps
<1> QED
  BY <1>8, <1>9 DEF u

(* One step done, and the rest of a call given up.                         *)
LEMMA TailSteps ==
    ASSUME NEW s, GoodSteps(s), s # <<>>
    PROVE  /\ GoodSteps(Tail(s)) /\ Len(Tail(s)) = Len(s) - 1
           /\ \A i \in 1 .. Len(s) - 1 : Tail(s)[i] = s[i + 1]
<1> DEFINE t == Tail(s)
<1>1. /\ IsSeq(t) /\ Len(t) = Len(s) - 1 /\ Len(s) \in Nat /\ Len(s) >= 1
      /\ \A i \in 1 .. Len(s) - 1 : t[i] = s[i + 1]
  BY TailIs, HeadIs, SeqFacts DEF GoodSteps
<1> HIDE DEF t
<1>2. ASSUME NEW i \in 1 .. Len(t)
      PROVE  /\ i + 1 \in 1 .. Len(s) /\ t[i] = s[i + 1]
             /\ IsStep(t[i]) /\ t[i].skip \in Nat /\ i + t[i].skip <= Len(t)
  <2>1. i + 1 \in 1 .. Len(s) /\ t[i] = s[i + 1]
    BY <1>1
  <2>2. IsStep(t[i]) /\ t[i].skip \in Nat /\ i + 1 + t[i].skip <= Len(s)
    BY <2>1 DEF GoodSteps, IsStep
  <2> QED
    BY <1>1, <2>1, <2>2
<1>3. ASSUME NEW i \in 1 .. Len(t), NEW k \in i .. i + t[i].skip
      PROVE  t[k].tested = t[i].tested
  <2>1. k \in 1 .. Len(t) /\ k + 1 \in i + 1 .. i + 1 + t[i].skip
    BY <1>1, <1>2
  <2>2. t[k] = s[k + 1] /\ t[i] = s[i + 1] /\ i + 1 \in 1 .. Len(s)
    BY <1>2, <2>1
  <2> QED
    BY <2>1, <2>2 DEF GoodSteps
<1>4. ASSUME NEW i \in 1 .. Len(t), NEW k \in 1 .. Len(t), k = i + t[i].skip + 1
      PROVE  t[k].req.kind # "modify"
  <2>1. k + 1 = (i + 1) + t[i].skip + 1
    <3>1. t[i].skip \in Nat /\ i \in Nat /\ k = i + t[i].skip + 1
      BY <1>2, <1>4
    <3>2. \A a, b, c : a \in Nat /\ b \in Nat /\ c = a + b + 1 => c + 1 = (a + 1) + b + 1
      OBVIOUS
    <3> QED
      BY <3>1, <3>2
  <2>2. t[k] = s[k + 1] /\ t[i] = s[i + 1] /\ i + 1 \in 1 .. Len(s) /\ k + 1 \in 1 .. Len(s)
    BY <1>2
  <2> QED
    BY <2>1, <2>2 DEF GoodSteps
<1>5. ASSUME NEW i \in 1 .. Len(t), t[i].req.kind = "modify", i > 1
      PROVE  ReadBy(t[i - 1].req, t[i].req)
  <2>1. i - 1 \in 1 .. Len(t) /\ (i - 1) + 1 = i /\ (i + 1) - 1 = i /\ i + 1 > 1
    BY <1>1, <1>5
  <2>2. t[i] = s[i + 1] /\ t[i - 1] = s[i] /\ i + 1 \in 1 .. Len(s)
    BY <1>2, <2>1
  <2> QED
    BY <1>5, <2>1, <2>2 DEF GoodSteps
<1> QED
  BY <1>1, <1>2, <1>3, <1>4, <1>5 DEF GoodSteps, t

LEMMA RestSteps ==
    ASSUME NEW s, GoodSteps(s), s # <<>>
    PROVE  LET rest == SubSeq(s, Head(s).skip + 2, Len(s)) IN
           /\ GoodSteps(rest) /\ NotBegun(rest)
           /\ Len(rest) = Len(s) - Head(s).skip - 1
           /\ \A i \in 1 .. Len(rest) : rest[i] = s[Head(s).skip + 1 + i]
<1> DEFINE n == Head(s).skip + 1
           t == SubSeq(s, Head(s).skip + 2, Len(s))
<1>0. Head(s) = s[1] /\ Len(s) \in Nat /\ Len(s) >= 1 /\ s[1].skip \in Nat
      /\ 1 + s[1].skip <= Len(s) /\ IsSeq(s)
  <2>1. Head(s) = s[1] /\ Len(s) \in Nat /\ Len(s) >= 1 /\ IsSeq(s)
    BY HeadIs, SeqFacts DEF GoodSteps
  <2>2. 1 \in 1 .. Len(s)
    BY <2>1
  <2> QED
    BY <2>1, <2>2 DEF GoodSteps, IsStep
<1>a. n \in Nat /\ n >= 1 /\ n <= Len(s)
  BY <1>0
<1>1. /\ IsSeq(t) /\ Len(t) = Len(s) - n
      /\ \A i \in 1 .. Len(s) - n : t[i] = s[n + i]
  <2> DEFINE m == Head(s).skip + 2
  <2>1. m \in 1 .. Len(s) + 1 /\ m = n + 1
    BY <1>0
  <2>2. /\ IsSeq(t) /\ Len(t) = Len(s) - m + 1
        /\ \A i \in 1 .. Len(s) - m + 1 : t[i] = s[m + i - 1]
    BY <1>0, <2>1, FromIs
  <2> HIDE DEF m, t, n
  <2>3. Len(s) - m + 1 = Len(s) - n /\ \A i \in 1 .. Len(s) - n : m + i - 1 = n + i
    BY <1>0, <1>a, <2>1
  <2> QED
    BY <2>2, <2>3
<1> HIDE DEF t
<1>b. n = s[1].skip + 1
  BY <1>0
<1> HIDE DEF n
<1>2. ASSUME NEW i \in 1 .. Len(t)
      PROVE  /\ n + i \in 1 .. Len(s) /\ t[i] = s[n + i]
             /\ IsStep(t[i]) /\ t[i].skip \in Nat /\ i + t[i].skip <= Len(t)
  <2>1. n + i \in 1 .. Len(s) /\ t[i] = s[n + i]
    BY <1>0, <1>1, <1>a
  <2>2. IsStep(t[i]) /\ t[i].skip \in Nat /\ n + i + t[i].skip <= Len(s)
    BY <2>1 DEF GoodSteps, IsStep
  <2> QED
    BY <1>0, <1>1, <1>a, <2>1, <2>2
<1>3. ASSUME NEW i \in 1 .. Len(t), NEW k \in i .. i + t[i].skip
      PROVE  t[k].tested = t[i].tested
  <2>1. k \in 1 .. Len(t) /\ n + k \in n + i .. n + i + t[i].skip
    <3>1. PICK x \in Nat : x = t[i].skip /\ i + x <= Len(t)
      BY <1>2
    <3>2. k \in i .. i + x /\ i \in Nat /\ i >= 1 /\ Len(t) \in Nat /\ n \in Nat
      BY <1>1, <1>a, <3>1
    <3>3. k \in 1 .. Len(t) /\ n + k \in n + i .. n + i + x
      BY <3>1, <3>2
    <3> QED
      BY <3>1, <3>3
  <2>2. t[k] = s[n + k] /\ t[i] = s[n + i] /\ n + i \in 1 .. Len(s)
    BY <1>2, <2>1
  <2> QED
    BY <2>1, <2>2 DEF GoodSteps
<1>4. ASSUME NEW i \in 1 .. Len(t), NEW k \in 1 .. Len(t), k = i + t[i].skip + 1
      PROVE  t[k].req.kind # "modify"
  <2>1. n + k = (n + i) + t[i].skip + 1
    <3>1. t[i].skip \in Nat /\ i \in Nat
      BY <1>2
    <3>2. PICK x \in Nat : x = t[i].skip
      BY <3>1
    <3>3. k = i + x + 1 /\ n \in Nat
      BY <1>4, <1>a, <3>2
    <3>4. n + k = (n + i) + x + 1
      BY <3>1, <3>3
    <3> QED
      BY <3>2, <3>4
  <2>2. t[k] = s[n + k] /\ t[i] = s[n + i] /\ n + i \in 1 .. Len(s) /\ n + k \in 1 .. Len(s)
    BY <1>2
  <2> QED
    BY <2>1, <2>2 DEF GoodSteps
<1>5. ASSUME NEW i \in 1 .. Len(t), t[i].req.kind = "modify", i > 1
      PROVE  ReadBy(t[i - 1].req, t[i].req)
  <2>1. i - 1 \in 1 .. Len(t) /\ n + (i - 1) = (n + i) - 1 /\ n + i > 1
    BY <1>0, <1>1, <1>5, <1>a
  <2>2. t[i] = s[n + i] /\ t[i - 1] = s[(n + i) - 1] /\ n + i \in 1 .. Len(s)
    BY <1>2, <2>1
  <2> QED
    BY <1>5, <2>1, <2>2 DEF GoodSteps
<1>6. NotBegun(t)
  <2> SUFFICES ASSUME t # <<>> PROVE t[1].req.kind # "modify"
    BY DEF NotBegun
  <2>1. 1 \in 1 .. Len(t)
    BY <1>1, SeqFacts
  <2>2. t[1] = s[n + 1] /\ n + 1 \in 1 .. Len(s) /\ n + 1 = 1 + s[1].skip + 1
    BY <1>0, <1>2, <1>b, <2>1
  <2>3. 1 \in 1 .. Len(s)
    BY <1>0
  <2> QED
    BY <2>2, <2>3 DEF GoodSteps
<1>7. GoodSteps(t)
  BY <1>1, <1>2, <1>3, <1>4, <1>5 DEF GoodSteps
<1>8. Len(t) = Len(s) - Head(s).skip - 1 /\ \A i \in 1 .. Len(t) : t[i] = s[Head(s).skip + 1 + i]
  <2>1. Head(s).skip \in Nat /\ n = Head(s).skip + 1
    BY <1>0, <1>b
  <2>2. Len(t) = Len(s) - Head(s).skip - 1
    BY <1>0, <1>1, <2>1
  <2>3. \A i \in 1 .. Len(t) : t[i] = s[n + i]
    BY <1>2
  <2> QED
    BY <2>1, <2>2, <2>3
<1> QED
  BY <1>6, <1>7, <1>8 DEF t

LEMMA EachDevSteps ==
    ASSUME NEW what, NEW val, what # "SPIDRREG"
    PROVE  /\ GoodSteps(EachDev(what, val)) /\ NotBegun(EachDev(what, val))
           /\ Len(EachDev(what, val)) = NumDevs
           /\ \A i \in 1 .. NumDevs : /\ EachDev(what, val)[i].req = Set(what, i - 1, val)
                                      /\ EachDev(what, val)[i].tested = FALSE
<1> DEFINE c == EachDev(what, val)
<1>1. NumDevs \in Nat /\ NumDevs >= 1
  BY SpidrAssumption
<1>2. c = [i \in 1 .. NumDevs |-> [req |-> Set(what, i - 1, val), skip |-> 0, tested |-> FALSE]]
  BY DEF EachDev
<1> HIDE DEF c
<1>3. IsSeq(c) /\ Len(c) = NumDevs
  <2>1. c = [i \in 1 .. NumDevs |-> c[i]]
    BY <1>2
  <2> QED
    BY <1>1, <2>1, ListIs
<1>4. ASSUME NEW i \in 1 .. Len(c)
      PROVE  /\ c[i].req = Set(what, i - 1, val) /\ c[i].skip = 0 /\ c[i].tested = FALSE
             /\ c[i] = [req |-> c[i].req, skip |-> c[i].skip, tested |-> c[i].tested]
             /\ IsReq(c[i].req) /\ OwnBits(c[i].req) /\ c[i].req.kind = "set"
  <2>1. c[i] = [req |-> Set(what, i - 1, val), skip |-> 0, tested |-> FALSE]
    BY <1>2, <1>3
  <2>2. c[i].req = Set(what, i - 1, val)
    BY <2>1
  <2>3. IsReq(Set(what, i - 1, val)) /\ OwnBits(Set(what, i - 1, val))
        /\ Set(what, i - 1, val).kind = "set"
    BY DEF Set, Req, IsReq, OwnBits
  <2> QED
    BY <2>1, <2>2, <2>3
<1>a. \A i \in 1 .. Len(c) : c[i].skip = 0
  BY <1>4
<1>b. \A i \in 1 .. Len(c) : IsStep(c[i])
  <2>1. \A r : IsReq(r) /\ OwnBits(r) => IsStep([req |-> r, skip |-> 0, tested |-> FALSE])
    BY DEF IsStep
  <2>2. \A i : IsReq(Set(what, i - 1, val)) /\ OwnBits(Set(what, i - 1, val))
    BY DEF Set, Req, IsReq, OwnBits
  <2> QED
    BY <1>2, <1>3, <2>1, <2>2
<1>5. \A i \in 1 .. Len(c) : IsStep(c[i]) /\ i + c[i].skip <= Len(c)
  <2> SUFFICES ASSUME NEW i \in 1 .. Len(c) PROVE i + c[i].skip <= Len(c)
    BY <1>b
  <2>1. c[i].skip = 0
    BY <1>a
  <2> QED
    BY <1>1, <1>3, <2>1
<1>6. ASSUME NEW i \in 1 .. Len(c), NEW k \in i .. i + c[i].skip
      PROVE  c[k].tested = c[i].tested
  <2>1. c[i].skip = 0
    BY <1>a
  <2>2. k = i
    BY <1>1, <1>3, <2>1
  <2> QED
    BY <2>2
<1>7. GoodSteps(c)
  BY <1>3, <1>4, <1>5, <1>6 DEF GoodSteps
<1>8. NotBegun(c)
  <2>1. 1 \in 1 .. Len(c)
    BY <1>1, <1>3
  <2> QED
    BY <1>4, <2>1 DEF NotBegun
<1> QED
  BY <1>3, <1>4, <1>7, <1>8 DEF c

-----------------------------------------------------------------------------
(* The requests of a sequence as a set.                                    *)

Elems(s) == {s[i] : i \in 1 .. Len(s)}
Reqs(s) == {<<s[i].req, s[i].tested>> : i \in 1 .. Len(s)}

LEMMA ConcatElems ==
    ASSUME NEW s, IsSeq(s), NEW t, IsSeq(t) PROVE Elems(s \o t) = Elems(s) \cup Elems(t)
<1> DEFINE u == s \o t
<1>1. /\ Len(u) = Len(s) + Len(t) /\ Len(s) \in Nat /\ Len(t) \in Nat
      /\ \A i \in 1 .. Len(s) + Len(t) : u[i] = IF i <= Len(s) THEN s[i] ELSE t[i - Len(s)]
  BY ConcatIs, SeqFacts
<1> HIDE DEF u
<1>2. \A i \in 1 .. Len(s) : i \in 1 .. Len(u) /\ u[i] = s[i]
  BY <1>1
<1>3. ASSUME NEW i \in 1 .. Len(t)
      PROVE  i + Len(s) \in 1 .. Len(u) /\ u[i + Len(s)] = t[i]
  <2>1. Len(u) = Len(s) + Len(t) /\ Len(s) \in Nat /\ Len(t) \in Nat
    BY <1>1
  <2>2. /\ i + Len(s) \in 1 .. Len(s) + Len(t) /\ ~ (i + Len(s) <= Len(s))
        /\ (i + Len(s)) - Len(s) = i
    BY <2>1
  <2> QED
    BY <1>1, <2>1, <2>2
<1>4. \A i \in 1 .. Len(u) : \/ i \in 1 .. Len(s) /\ u[i] = s[i]
                             \/ i - Len(s) \in 1 .. Len(t) /\ u[i] = t[i - Len(s)]
  BY <1>1
<1>5. Elems(u) = Elems(s) \cup Elems(t)
  <2>1. Elems(u) \subseteq Elems(s) \cup Elems(t)
    BY <1>4 DEF Elems
  <2>2. Elems(s) \subseteq Elems(u)
    BY <1>2 DEF Elems
  <2>3. Elems(t) \subseteq Elems(u)
    BY <1>3 DEF Elems
  <2> QED
    BY <2>1, <2>2, <2>3
<1> QED
  BY <1>5 DEF u

LEMMA OneElem == \A r : IsSeq(<<r>>) /\ Elems(<<r>>) = {r}
<1> SUFFICES ASSUME NEW r PROVE IsSeq(<<r>>) /\ Elems(<<r>>) = {r}
  OBVIOUS
<1> DEFINE s == <<r>>
<1>1. IsSeq(s) /\ Len(s) = 1 /\ s[1] = r
  BY SingletonIs, Zenon
<1> HIDE DEF s
<1>2. \A i : i \in 1 .. Len(s) <=> i = 1
  BY <1>1
<1>3. Elems(s) = {r}
  BY <1>1, <1>2 DEF Elems
<1> QED
  BY <1>1, <1>3 DEF s

LEMMA NoElem == GoodReqs(<<>>) /\ Elems(<<>>) = {}
<1>1. \A i : i \notin 1 .. Len(<<>>)
  BY EmptyIs
<1> QED
  BY <1>1, EmptyIs DEF GoodReqs, Elems

LEMMA ConcatStepReqs ==
    ASSUME NEW s, IsSeq(s), NEW t, IsSeq(t) PROVE Reqs(s \o t) = Reqs(s) \cup Reqs(t)
<1> DEFINE u == s \o t
<1>1. /\ Len(u) = Len(s) + Len(t) /\ Len(s) \in Nat /\ Len(t) \in Nat
      /\ \A i \in 1 .. Len(s) + Len(t) : u[i] = IF i <= Len(s) THEN s[i] ELSE t[i - Len(s)]
  BY ConcatIs, SeqFacts
<1> HIDE DEF u
<1>2. \A i \in 1 .. Len(s) : i \in 1 .. Len(u) /\ u[i] = s[i]
  BY <1>1
<1>3. \A i \in 1 .. Len(t) : i + Len(s) \in 1 .. Len(u) /\ u[i + Len(s)] = t[i]
  BY <1>1
<1>4. \A i \in 1 .. Len(u) : \/ i \in 1 .. Len(s) /\ u[i] = s[i]
                             \/ i - Len(s) \in 1 .. Len(t) /\ u[i] = t[i - Len(s)]
  BY <1>1
<1>5. Reqs(u) = Reqs(s) \cup Reqs(t)
  <2>1. Reqs(s) \subseteq Reqs(u)
    BY <1>2 DEF Reqs
  <2>2. Reqs(t) \subseteq Reqs(u)
    BY <1>3 DEF Reqs
  <2>3. Reqs(u) \subseteq Reqs(s) \cup Reqs(t)
    BY <1>4 DEF Reqs
  <2> QED
    BY <2>1, <2>2, <2>3
<1> QED
  BY <1>5 DEF u

(* What a call, and the loop over the devices, makes of its requests.      *)
Begins(s) == GoodSteps(s) /\ NotBegun(s)

LEMMA CallBegins ==
    ASSUME NEW s, GoodReqs(s), NEW tested \in BOOLEAN
    PROVE  /\ Begins(Call(tested, s))
           /\ Reqs(Call(tested, s)) = {<<r, tested>> : r \in Elems(s)}
<1> DEFINE c == Call(tested, s)
<1>1. /\ Begins(c) /\ Len(c) = Len(s)
      /\ \A i \in 1 .. Len(s) : c[i].req = s[i] /\ c[i].tested = tested
  BY CallSteps DEF Begins
<1> HIDE DEF c
<1>2. Reqs(c) = {<<r, tested>> : r \in Elems(s)}
  BY <1>1 DEF Reqs, Elems
<1> QED
  BY <1>1, <1>2 DEF c

LEMMA EachDevBegins ==
    ASSUME NEW what, NEW val, what # "SPIDRREG"
    PROVE  /\ Begins(EachDev(what, val))
           /\ Reqs(EachDev(what, val)) = {<<Set(what, i - 1, val), FALSE>> : i \in 1 .. NumDevs}
<1> DEFINE c == EachDev(what, val)
<1>1. /\ Begins(c) /\ Len(c) = NumDevs
      /\ \A i \in 1 .. NumDevs : c[i].req = Set(what, i - 1, val) /\ c[i].tested = FALSE
  BY EachDevSteps DEF Begins
<1> HIDE DEF c
<1>2. Reqs(c) = {<<Set(what, i - 1, val), FALSE>> : i \in 1 .. NumDevs}
  BY <1>1 DEF Reqs
<1> QED
  BY <1>1, <1>2 DEF c

LEMMA ConcatBegins ==
    ASSUME NEW s, Begins(s), NEW t, Begins(t)
    PROVE  Begins(s \o t) /\ Reqs(s \o t) = Reqs(s) \cup Reqs(t)
<1>1. IsSeq(s) /\ IsSeq(t)
  BY DEF Begins, GoodSteps
<1> QED
  BY <1>1, ConcatSteps, ConcatStepReqs DEF Begins

-----------------------------------------------------------------------------
(* What a step does for a promise: it writes the promised word, or changes *)
(* the promised bit, and the operation goes on only if that was done.      *)

IsFact(f) == \/ f = Whole(f.place, f.val)
             \/ f = OneBit(f.place, f.bit, f.on) /\ f.on \in BOOLEAN
Serves(r, f) ==
    /\ Place(r) = f.place
    /\ \/ f = Whole(f.place, f.val) /\ r.kind = "set" /\ r.val = f.val
       \/ /\ f = OneBit(f.place, f.bit, f.on) /\ r.kind = "modify"
          /\ r.val = [bit |-> f.bit, on |-> f.on]
Does(y, f) == y[2] /\ Serves(y[1], f)

(* Nothing left to do spoils the promise, and something left to do fulfils it. *)
Keeps(s, f) ==
    \A y \in Reqs(s) : Command(y[1]) = "set" /\ Place(y[1]) = f.place => Does(y, f)
Fulfils(s, f) == \E y \in Reqs(s) : Does(y, f)
Delivers(s, f) == IsFact(f) /\ Keeps(s, f) /\ Fulfils(s, f)

LEMMA SingleCall ==
    ASSUME NEW r, IsReq(r), OwnBits(r), r.kind # "modify", NEW tested \in BOOLEAN
    PROVE  Begins(Call(tested, <<r>>)) /\ Reqs(Call(tested, <<r>>)) = {<<r, tested>>}
<1>1. GoodReqs(<<r>>) /\ Elems(<<r>>) = {r}
  BY OneReq, OneElem, Zenon
<1> DEFINE s == <<r>>
<1>2. GoodReqs(s) /\ Elems(s) = {r}
  BY <1>1
<1> HIDE DEF s
<1>3. Begins(Call(tested, s)) /\ Reqs(Call(tested, s)) = {<<r, tested>>}
  BY <1>2, CallBegins
<1> QED
  BY <1>3 DEF s

LEMMA GetCall ==
    ASSUME NEW what, NEW dev, NEW at
    PROVE  Begins(Call(TRUE, <<Get(what, dev, at)>>))
<1>1. LET r == Get(what, dev, at) IN IsReq(r) /\ OwnBits(r) /\ r.kind # "modify"
  BY DEF Get, Req, IsReq, OwnBits
<1> QED
  BY <1>1, SingleCall

LEMMA SetCall ==
    ASSUME NEW what, NEW dev, NEW at, NEW val, NEW tested \in BOOLEAN,
           what = "SPIDRREG" => val \subseteq BitsOf(at)
    PROVE  LET r == Req("set", what, dev, at, val) IN
           Begins(Call(tested, <<r>>)) /\ Reqs(Call(tested, <<r>>)) = {<<r, tested>>}
<1>1. LET r == Req("set", what, dev, at, val) IN IsReq(r) /\ OwnBits(r) /\ r.kind # "modify"
  BY DEF Req, IsReq, OwnBits
<1> QED
  BY <1>1, SingleCall

LEMMA SetRegReqs ==
    ASSUME NEW a, NEW v, v \subseteq BitsOf(a), NEW verify \in BOOLEAN
    PROVE  /\ GoodReqs(setSpidrReg(a, v, verify))
           /\ Elems(setSpidrReg(a, v, verify)) =
                  {Req("set", "SPIDRREG", 0, a, v)}
                  \cup (IF verify THEN {Req("verify", "SPIDRREG", 0, a, v)} ELSE {})
<1> DEFINE r == Req("set", "SPIDRREG", 0, a, v)
           c == Req("verify", "SPIDRREG", 0, a, v)
           t == IF verify THEN <<c>> ELSE <<>>
<1>1. IsReq(r) /\ OwnBits(r) /\ r.kind # "modify" /\ IsReq(c) /\ OwnBits(c) /\ c.kind # "modify"
  BY DEF Req, IsReq, OwnBits
<1> HIDE DEF r, c
<1>2. GoodReqs(<<r>>) /\ Elems(<<r>>) = {r}
  BY <1>1, OneReq, OneElem, Zenon
<1>3. GoodReqs(<<c>>) /\ Elems(<<c>>) = {c}
  BY <1>1, OneReq, OneElem, Zenon
<1>4. GoodReqs(t) /\ Elems(t) = IF verify THEN {c} ELSE {}
  BY <1>3, NoElem, Zenon
<1> HIDE DEF t
<1> DEFINE s == <<r>>
<1>5. GoodReqs(s) /\ Elems(s) = {r}
  BY <1>2, Zenon
<1> HIDE DEF s
<1>6. GoodReqs(s \o t) /\ Elems(s \o t) = Elems(s) \cup Elems(t)
  BY <1>4, <1>5, ConcatReqs, ConcatElems DEF GoodReqs
<1>7. setSpidrReg(a, v, verify) = s \o t
  BY DEF setSpidrReg, s, t, r, c
<1> QED
  BY <1>4, <1>5, <1>6, <1>7 DEF r, c
LEMMA SetRegCalls ==
    ASSUME NEW a, NEW v, v \subseteq BitsOf(a), NEW tested \in BOOLEAN
    PROVE  LET r == Req("set", "SPIDRREG", 0, a, v)
               c == Req("verify", "SPIDRREG", 0, a, v)
               s == Call(tested, setSpidrReg(a, v, FALSE))
               t == Call(tested, setSpidrReg(a, v, TRUE))
           IN  /\ Begins(s) /\ Reqs(s) = {<<r, tested>>}
               /\ Begins(t) /\ Reqs(t) = {<<r, tested>>, <<c, tested>>}
<1> DEFINE r == Req("set", "SPIDRREG", 0, a, v)
           c == Req("verify", "SPIDRREG", 0, a, v)
           p == setSpidrReg(a, v, FALSE)
           q == setSpidrReg(a, v, TRUE)
<1>1. \A verify \in BOOLEAN :
          /\ GoodReqs(setSpidrReg(a, v, verify))
          /\ Elems(setSpidrReg(a, v, verify)) = {r} \cup (IF verify THEN {c} ELSE {})
  BY SetRegReqs, Zenon
<1>2. GoodReqs(p) /\ Elems(p) = {r} \cup (IF FALSE THEN {c} ELSE {})
  BY <1>1, Zenon
<1>3. GoodReqs(q) /\ Elems(q) = {r} \cup (IF TRUE THEN {c} ELSE {})
  BY <1>1, Zenon
<1> HIDE DEF p, q, r, c
<1>4. Begins(Call(tested, p)) /\ Reqs(Call(tested, p)) = {<<x, tested>> : x \in Elems(p)}
  BY <1>2, CallBegins
<1>5. Begins(Call(tested, q)) /\ Reqs(Call(tested, q)) = {<<x, tested>> : x \in Elems(q)}
  BY <1>3, CallBegins
<1>6. Elems(p) = {r} /\ Elems(q) = {r, c}
  BY <1>2, <1>3
<1>7. Reqs(Call(tested, p)) = {<<r, tested>>}
      /\ Reqs(Call(tested, q)) = {<<r, tested>>, <<c, tested>>}
  BY <1>4, <1>5, <1>6
<1> QED
  BY <1>4, <1>5, <1>7 DEF p, q, r, c

LEMMA SetRegBitReqs ==
    ASSUME NEW a, NEW b \in BitsOf(a), NEW on \in BOOLEAN, NEW verify \in BOOLEAN
    PROVE  /\ GoodReqs(setSpidrRegBit(a, b, on, verify))
           /\ Elems(setSpidrRegBit(a, b, on, verify)) =
                  {Get("SPIDRREG", 0, a),
                   Req("modify", "SPIDRREG", 0, a, [bit |-> b, on |-> on])}
                  \cup (IF verify THEN {Req("verify", "SPIDRREG", 0, a, {})} ELSE {})
<1> DEFINE g == Get("SPIDRREG", 0, a)
           m == Req("modify", "SPIDRREG", 0, a, [bit |-> b, on |-> on])
           c == Req("verify", "SPIDRREG", 0, a, {})
           t == IF verify THEN <<c>> ELSE <<>>
           u == <<g>> \o <<m>>
<1>1. /\ IsReq(g) /\ OwnBits(g) /\ g.kind # "modify" /\ IsReq(c) /\ OwnBits(c)
      /\ c.kind # "modify" /\ IsReq(m) /\ OwnBits(m) /\ ReadBy(g, m)
  BY DEF Req, IsReq, OwnBits, Get, ReadBy, Place
<1>7. setSpidrRegBit(a, b, on, verify) = u \o t
  BY DEF setSpidrRegBit, getSpidrReg
<1> HIDE DEF g, m, c
<1>3. GoodReqs(<<c>>) /\ Elems(<<c>>) = {c}
  BY <1>1, OneReq, OneElem, Zenon
<1>4. GoodReqs(t) /\ Elems(t) = IF verify THEN {c} ELSE {}
  BY <1>3, NoElem, Zenon
<1>5. GoodReqs(u) /\ Elems(u) = {g, m}
  <2> DEFINE s1 == <<g>>
             s2 == <<m>>
  <2>1. IsSeq(s1) /\ Len(s1) = 1 /\ s1[1] = g /\ Elems(s1) = {g}
    BY SingletonIs, OneElem, Zenon
  <2>2. IsSeq(s2) /\ Len(s2) = 1 /\ s2[1] = m /\ Elems(s2) = {m}
    BY SingletonIs, OneElem, Zenon
  <2> HIDE DEF s1, s2
  <2>3. IsSeq(s1 \o s2) /\ Len(s1 \o s2) = 2 /\ (s1 \o s2)[1] = g /\ (s1 \o s2)[2] = m
        /\ Elems(s1 \o s2) = {g, m}
    <3>1. /\ IsSeq(s1 \o s2) /\ Len(s1 \o s2) = Len(s1) + Len(s2)
          /\ \A i \in 1 .. Len(s1) + Len(s2) :
                 (s1 \o s2)[i] = IF i <= Len(s1) THEN s1[i] ELSE s2[i - Len(s1)]
      BY <2>1, <2>2, ConcatIs
    <3>2. Elems(s1 \o s2) = {g, m}
      BY <2>1, <2>2, ConcatElems
    <3> QED
      BY <2>1, <2>2, <3>1, <3>2
  <2>4. u = s1 \o s2
    BY DEF s1, s2
  <2> HIDE DEF u
  <2>5. \A i \in 1 .. Len(u) : i = 1 \/ i = 2
    BY <2>3, <2>4
  <2>6. \A i \in 1 .. Len(u) : IsReq(u[i]) /\ OwnBits(u[i])
    BY <1>1, <2>3, <2>4, <2>5
  <2>7. \A i \in 1 .. Len(u) : u[i].kind = "modify" => i > 1 /\ ReadBy(u[i - 1], u[i])
    <3> SUFFICES ASSUME NEW i \in 1 .. Len(u), u[i].kind = "modify"
                 PROVE  i > 1 /\ ReadBy(u[i - 1], u[i])
      OBVIOUS
    <3>1. i = 2
      BY <1>1, <2>3, <2>4, <2>5
    <3> QED
      BY <1>1, <2>3, <2>4, <3>1
  <2> QED
    BY <2>3, <2>4, <2>6, <2>7 DEF GoodReqs
<1> HIDE DEF t, u
<1>6. GoodReqs(u \o t) /\ Elems(u \o t) = Elems(u) \cup Elems(t)
  BY <1>4, <1>5, ConcatReqs, ConcatElems DEF GoodReqs
<1> QED
  BY <1>4, <1>5, <1>6, <1>7 DEF g, m, c

LEMMA SetRegBitCalls ==
    ASSUME NEW a, NEW b \in BitsOf(a), NEW on \in BOOLEAN, NEW tested \in BOOLEAN
    PROVE  LET g == Get("SPIDRREG", 0, a)
               m == Req("modify", "SPIDRREG", 0, a, [bit |-> b, on |-> on])
               c == Req("verify", "SPIDRREG", 0, a, {})
               s == Call(tested, setSpidrRegBit(a, b, on, FALSE))
               t == Call(tested, setSpidrRegBit(a, b, on, TRUE))
           IN  /\ Begins(s) /\ Reqs(s) = {<<g, tested>>, <<m, tested>>}
               /\ Begins(t) /\ Reqs(t) = {<<g, tested>>, <<m, tested>>, <<c, tested>>}
<1> DEFINE g == Get("SPIDRREG", 0, a)
           m == Req("modify", "SPIDRREG", 0, a, [bit |-> b, on |-> on])
           c == Req("verify", "SPIDRREG", 0, a, {})
           p == setSpidrRegBit(a, b, on, FALSE)
           q == setSpidrRegBit(a, b, on, TRUE)
<1>1. \A verify \in BOOLEAN :
          /\ GoodReqs(setSpidrRegBit(a, b, on, verify))
          /\ Elems(setSpidrRegBit(a, b, on, verify)) = {g, m} \cup (IF verify THEN {c} ELSE {})
  BY SetRegBitReqs
<1>2. GoodReqs(p) /\ Elems(p) = {g, m} \cup (IF FALSE THEN {c} ELSE {})
  BY <1>1, Zenon
<1>3. GoodReqs(q) /\ Elems(q) = {g, m} \cup (IF TRUE THEN {c} ELSE {})
  BY <1>1, Zenon
<1> HIDE DEF p, q, g, m, c
<1>4. Begins(Call(tested, p)) /\ Reqs(Call(tested, p)) = {<<x, tested>> : x \in Elems(p)}
  BY <1>2, CallBegins
<1>5. Begins(Call(tested, q)) /\ Reqs(Call(tested, q)) = {<<x, tested>> : x \in Elems(q)}
  BY <1>3, CallBegins
<1>6. Elems(p) = {g, m} /\ Elems(q) = {g, m, c}
  BY <1>2, <1>3
<1>7. Reqs(Call(tested, p)) = {<<g, tested>>, <<m, tested>>}
      /\ Reqs(Call(tested, q)) = {<<g, tested>>, <<m, tested>>, <<c, tested>>}
  BY <1>4, <1>5, <1>6
<1> QED
  BY <1>4, <1>5, <1>7 DEF p, q, g, m, c

-----------------------------------------------------------------------------
(* Each operation of the client is well formed and, where all its requests *)
(* succeed, does what it promises.                                         *)

Keeping(s, told) == Begins(s) /\ \A f \in told : Delivers(s, f)

LEMMA PlainSet ==
    ASSUME NEW what, NEW dev, NEW at, NEW val, what = "SPIDRREG" => val \subseteq BitsOf(at)
    PROVE  Keeping(Call(TRUE, <<Req("set", what, dev, at, val)>>),
                   {Whole(<<what, dev, at>>, val)})
<1> DEFINE r == Req("set", what, dev, at, val)
           s == Call(TRUE, <<r>>)
<1>1. Begins(s) /\ Reqs(s) = {<<r, TRUE>>}
  <2>1. \A tested \in BOOLEAN :
            /\ Begins(Call(tested, <<r>>))
            /\ Reqs(Call(tested, <<r>>)) = {<<r, tested>>}
    BY SetCall
  <2> QED
    BY <2>1, Zenon
<1> HIDE DEF s
<1>2. Serves(r, Whole(<<what, dev, at>>, val)) /\ IsFact(Whole(<<what, dev, at>>, val))
  BY DEF Serves, IsFact, Whole, Req, Place
<1>3. Does(<<r, TRUE>>, Whole(<<what, dev, at>>, val))
  BY <1>2 DEF Does
<1> HIDE DEF r
<1>4. Keeping(s, {Whole(<<what, dev, at>>, val)})
  BY <1>1, <1>2, <1>3 DEF Keeping, Delivers, Keeps, Fulfils
<1> QED
  BY <1>4 DEF s, r

LEMMA PlainGet ==
    ASSUME NEW what, NEW dev, NEW at
    PROVE  Keeping(Call(TRUE, <<Get(what, dev, at)>>), {})
BY GetCall DEF Keeping

LEMMA RegisterSet ==
    ASSUME NEW a, NEW v, v \subseteq BitsOf(a)
    PROVE  Keeping(Call(TRUE, setSpidrReg(a, v, TRUE)), {Whole(Reg(a), v)})
<1> DEFINE s == Call(TRUE, setSpidrReg(a, v, TRUE))
           r == Req("set", "SPIDRREG", 0, a, v)
           c == Req("verify", "SPIDRREG", 0, a, v)
           f == Whole(Reg(a), v)
<1>1. Begins(s) /\ Reqs(s) = {<<r, TRUE>>, <<c, TRUE>>}
  BY SetRegCalls, Zenon
<1>2. Serves(r, f) /\ IsFact(f) /\ Command(c) # "set"
  BY DEF Serves, IsFact, Whole, Req, Place, Command, Reg
<1> HIDE DEF s, r, c, f
<1>3. Does(<<r, TRUE>>, f) /\ <<c, TRUE>>[1] = c
  BY <1>2 DEF Does
<1>4. Keeping(s, {f})
  BY <1>1, <1>2, <1>3 DEF Keeping, Delivers, Keeps, Fulfils
<1> QED
  BY <1>4 DEF s, f

LEMMA RegisterBitSet ==
    ASSUME NEW a, NEW b \in BitsOf(a), NEW on \in BOOLEAN
    PROVE  Keeping(Call(TRUE, setSpidrRegBit(a, b, on, TRUE)), {OneBit(Reg(a), b, on)})
<1> DEFINE s == Call(TRUE, setSpidrRegBit(a, b, on, TRUE))
           g == Get("SPIDRREG", 0, a)
           r == Req("modify", "SPIDRREG", 0, a, [bit |-> b, on |-> on])
           c == Req("verify", "SPIDRREG", 0, a, {})
           f == OneBit(Reg(a), b, on)
<1>1. Begins(s) /\ Reqs(s) = {<<g, TRUE>>, <<r, TRUE>>, <<c, TRUE>>}
  BY SetRegBitCalls, Zenon
<1>2. Serves(r, f) /\ IsFact(f) /\ Command(c) # "set" /\ Command(g) # "set"
  BY DEF Serves, IsFact, OneBit, Req, Get, Place, Command, Reg
<1> HIDE DEF s, g, r, c, f
<1>3. Does(<<r, TRUE>>, f) /\ <<c, TRUE>>[1] = c /\ <<g, TRUE>>[1] = g
  BY <1>2 DEF Does
<1>4. Keeping(s, {f})
  BY <1>1, <1>2, <1>3 DEF Keeping, Delivers, Keeps, Fulfils
<1> QED
  BY <1>4 DEF s, f

LEMMA TwoReqs ==
    ASSUME NEW r1, IsReq(r1), OwnBits(r1), r1.kind # "modify",
           NEW r2, IsReq(r2), OwnBits(r2), r2.kind # "modify"
    PROVE  /\ Begins(Call(TRUE, <<r1>> \o <<r2>>))
           /\ Reqs(Call(TRUE, <<r1>> \o <<r2>>)) = {<<r1, TRUE>>, <<r2, TRUE>>}
<1> DEFINE s1 == <<r1>>
           s2 == <<r2>>
           q == s1 \o s2
<1>2. GoodReqs(s1) /\ Elems(s1) = {r1}
  BY OneReq, OneElem, Zenon
<1>3. GoodReqs(s2) /\ Elems(s2) = {r2}
  BY OneReq, OneElem, Zenon
<1> HIDE DEF s1, s2
<1>4. GoodReqs(q) /\ Elems(q) = {r1, r2}
  <2>1. IsSeq(s1) /\ IsSeq(s2)
    BY <1>2, <1>3 DEF GoodReqs
  <2>2. Elems(q) = Elems(s1) \cup Elems(s2)
    BY <2>1, ConcatElems
  <2> QED
    BY <1>2, <1>3, <2>2, ConcatReqs
<1> HIDE DEF q
<1>5. Begins(Call(TRUE, q)) /\ Reqs(Call(TRUE, q)) = {<<x, TRUE>> : x \in Elems(q)}
  BY <1>4, CallBegins
<1>6. Reqs(Call(TRUE, q)) = {<<r1, TRUE>>, <<r2, TRUE>>}
  BY <1>4, <1>5
<1> QED
  BY <1>5, <1>6 DEF q, s1, s2

(* A promise is delivered by the one request that writes its place.        *)
LEMMA DeliversIf ==
    ASSUME NEW s, NEW f, IsFact(f), NEW r, <<r, TRUE>> \in Reqs(s), Serves(r, f),
           \A y \in Reqs(s) : \/ Command(y[1]) # "set" \/ Place(y[1]) # f.place
                              \/ y = <<r, TRUE>>
    PROVE  Delivers(s, f)
<1>1. Does(<<r, TRUE>>, f)
  BY DEF Does
<1> QED
  BY <1>1 DEF Delivers, Keeps, Fulfils

LEMMA ServesWhole ==
    ASSUME NEW what, NEW dev, NEW at, NEW val
    PROVE  LET r == Req("set", what, dev, at, val)
               f == Whole(<<what, dev, at>>, val)
           IN  IsFact(f) /\ f.place = <<what, dev, at>> /\ Serves(r, f)
BY DEF IsFact, Whole, Serves, Req, Place

LEMMA ServesBit ==
    ASSUME NEW what, NEW dev, NEW at, NEW b, NEW on \in BOOLEAN
    PROVE  LET r == Req("modify", what, dev, at, [bit |-> b, on |-> on])
               f == OneBit(<<what, dev, at>>, b, on)
           IN  IsFact(f) /\ f.place = <<what, dev, at>> /\ Serves(r, f)
BY DEF IsFact, OneBit, Serves, Req, Place

LEMMA StartReqs ==
    LET R2 == {<<Set("CRW", i - 1, On), FALSE>> : i \in 1 .. NumDevs} IN
    /\ Begins(startContReadout({0}))
    /\ Reqs(startContReadout({0})) =
           {<<Req("set", "READY", 0, 0, On), TRUE>>} \cup R2
           \cup {<<Req("set", "SPIDRREG", 0, "SHUTTER1_PERIOD", {0}), TRUE>>}
           \cup {<<Get("SPIDRREG", 0, "SHUTTERTRIG_CTRL"), TRUE>>,
                 <<Req("modify", "SPIDRREG", 0, "SHUTTERTRIG_CTRL", [bit |-> CntrSel, on |-> TRUE]),
                   TRUE>>}
           \cup {<<Req("set", "TRIGCONFIG", 0, 0, OpenTrigger), TRUE>>,
                 <<Req("set", "AUTOTRIG", 0, 0, On), TRUE>>}
<1> DEFINE r1 == Req("set", "READY", 0, 0, On)
           r3 == Req("set", "SPIDRREG", 0, "SHUTTER1_PERIOD", {0})
           g4 == Get("SPIDRREG", 0, "SHUTTERTRIG_CTRL")
           r4 == Req("modify", "SPIDRREG", 0, "SHUTTERTRIG_CTRL", [bit |-> CntrSel, on |-> TRUE])
           r5 == Req("set", "TRIGCONFIG", 0, 0, OpenTrigger)
           r6 == Req("set", "AUTOTRIG", 0, 0, On)
           s1 == Call(TRUE, <<Set("READY", 0, On)>>)
           s2 == EachDev("CRW", On)
           s3 == Call(TRUE, setSpidrReg("SHUTTER1_PERIOD", {0}, FALSE))
           s4 == Call(TRUE, setSpidrRegBit("SHUTTERTRIG_CTRL", CntrSel, TRUE, FALSE))
           s5 == Call(TRUE, openShutter)
           R2 == {<<Set("CRW", i - 1, On), FALSE>> : i \in 1 .. NumDevs}
<1>0. startContReadout({0}) = s1 \o s2 \o s3 \o s4 \o s5
  BY DEF startContReadout
<1>1. Begins(s1) /\ Reqs(s1) = {<<r1, TRUE>>}
  <2>1. \A tested \in BOOLEAN :
            Begins(Call(tested, <<r1>>)) /\ Reqs(Call(tested, <<r1>>)) = {<<r1, tested>>}
    BY SetCall
  <2>2. Set("READY", 0, On) = r1
    BY DEF Set
  <2> QED
    BY <2>1, <2>2, Zenon
<1>2. Begins(s2) /\ Reqs(s2) = R2
  BY EachDevBegins
<1>3. Begins(s3) /\ Reqs(s3) = {<<r3, TRUE>>}
  <2>1. {0} \subseteq BitsOf("SHUTTER1_PERIOD")
    BY BitsAssumption
  <2> QED
    BY <2>1, SetRegCalls, Zenon
<1>4. Begins(s4) /\ Reqs(s4) = {<<g4, TRUE>>, <<r4, TRUE>>}
  <2>1. CntrSel \in BitsOf("SHUTTERTRIG_CTRL") /\ TRUE \in BOOLEAN
    BY BitsAssumption
  <2> QED
    BY <2>1, SetRegBitCalls, Zenon
<1>5. Begins(s5) /\ Reqs(s5) = {<<r5, TRUE>>, <<r6, TRUE>>}
  <2>1. r5 = Set("TRIGCONFIG", 0, OpenTrigger) /\ r6 = Set("AUTOTRIG", 0, On)
    BY DEF Set
  <2>2. openShutter = <<r5>> \o <<r6>>
    BY <2>1 DEF openShutter, setShutterTriggerConfig, startAutoTrigger
  <2> QED
    <3>1. IsReq(r5) /\ OwnBits(r5) /\ r5.kind # "modify"
          /\ IsReq(r6) /\ OwnBits(r6) /\ r6.kind # "modify"
      BY DEF IsReq, OwnBits, Req
    <3> HIDE DEF r5, r6
    <3> QED
      BY <2>2, <3>1, TwoReqs
<1> HIDE DEF s1, s2, s3, s4, s5, r1, r3, g4, r4, r5, r6, R2
<1> DEFINE s == s1 \o s2 \o s3 \o s4 \o s5
<1>6. /\ Begins(s)
      /\ Reqs(s) = {<<r1, TRUE>>} \cup R2 \cup {<<r3, TRUE>>} \cup {<<g4, TRUE>>, <<r4, TRUE>>}
                   \cup {<<r5, TRUE>>, <<r6, TRUE>>}
  <2>1. Begins(s1 \o s2) /\ Reqs(s1 \o s2) = {<<r1, TRUE>>} \cup R2
    BY <1>1, <1>2, ConcatBegins
  <2>2. Begins(s1 \o s2 \o s3) /\ Reqs(s1 \o s2 \o s3) = Reqs(s1 \o s2) \cup Reqs(s3)
    BY <1>3, <2>1, ConcatBegins
  <2>3. Begins(s1 \o s2 \o s3 \o s4)
        /\ Reqs(s1 \o s2 \o s3 \o s4) = Reqs(s1 \o s2 \o s3) \cup Reqs(s4)
    BY <1>4, <2>2, ConcatBegins
  <2>4. Begins(s) /\ Reqs(s) = Reqs(s1 \o s2 \o s3 \o s4) \cup Reqs(s5)
    BY <1>5, <2>3, ConcatBegins
  <2> QED
    BY <1>1, <1>2, <1>3, <1>4, <1>5, <2>1, <2>2, <2>3, <2>4, Zenon
<1> QED
  BY <1>0, <1>6 DEF r1, r3, g4, r4, r5, r6, R2

LEMMA StartKeeps ==
    Keeping(startContReadout({0}),
            {Whole(Reg("SHUTTER1_PERIOD"), {0}), OneBit(Reg("SHUTTERTRIG_CTRL"), CntrSel, TRUE),
             Whole(<<"TRIGCONFIG", 0, 0>>, OpenTrigger), Whole(<<"AUTOTRIG", 0, 0>>, On)})
<1> DEFINE r1 == Req("set", "READY", 0, 0, On)
           r3 == Req("set", "SPIDRREG", 0, "SHUTTER1_PERIOD", {0})
           g4 == Get("SPIDRREG", 0, "SHUTTERTRIG_CTRL")
           r4 == Req("modify", "SPIDRREG", 0, "SHUTTERTRIG_CTRL", [bit |-> CntrSel, on |-> TRUE])
           r5 == Req("set", "TRIGCONFIG", 0, 0, OpenTrigger)
           r6 == Req("set", "AUTOTRIG", 0, 0, On)
           R2 == {<<Set("CRW", i - 1, On), FALSE>> : i \in 1 .. NumDevs}
           s == startContReadout({0})
<1>6. /\ Begins(s)
      /\ Reqs(s) = {<<r1, TRUE>>} \cup R2 \cup {<<r3, TRUE>>} \cup {<<g4, TRUE>>, <<r4, TRUE>>}
                   \cup {<<r5, TRUE>>, <<r6, TRUE>>}
  BY StartReqs
<1> HIDE DEF s
<1>7. /\ Place(r1) = <<"READY", 0, 0>> /\ Place(r3) = Reg("SHUTTER1_PERIOD")
      /\ Place(r4) = Reg("SHUTTERTRIG_CTRL") /\ Place(r5) = <<"TRIGCONFIG", 0, 0>>
      /\ Place(r6) = <<"AUTOTRIG", 0, 0>> /\ Command(g4) = "get"
  BY DEF Place, Reg, Req, Get, Command
<1>8. ASSUME NEW y \in R2 PROVE \E i : Place(y[1]) = <<"CRW", i, 0>>
  <2>1. PICK i \in 1 .. NumDevs : y = <<Set("CRW", i - 1, On), FALSE>>
    OBVIOUS
  <2>2. y[1] = Set("CRW", i - 1, On)
    BY <2>1
  <2>3. Place(y[1]) = <<"CRW", i - 1, 0>>
    BY <2>2 DEF Place, Set, Req
  <2> QED
    BY <2>3
<1>9. /\ Reg("SHUTTER1_PERIOD") = <<"SPIDRREG", 0, "SHUTTER1_PERIOD">>
      /\ Reg("SHUTTERTRIG_CTRL") = <<"SPIDRREG", 0, "SHUTTERTRIG_CTRL">>
  BY DEF Reg
<1> DEFINE f3 == Whole(Reg("SHUTTER1_PERIOD"), {0})
           f4 == OneBit(Reg("SHUTTERTRIG_CTRL"), CntrSel, TRUE)
           f5 == Whole(<<"TRIGCONFIG", 0, 0>>, OpenTrigger)
           f6 == Whole(<<"AUTOTRIG", 0, 0>>, On)
<1>a. /\ IsFact(f3) /\ f3.place = Reg("SHUTTER1_PERIOD") /\ Serves(r3, f3)
      /\ IsFact(f5) /\ f5.place = <<"TRIGCONFIG", 0, 0>> /\ Serves(r5, f5)
      /\ IsFact(f6) /\ f6.place = <<"AUTOTRIG", 0, 0>> /\ Serves(r6, f6)
  BY <1>9, ServesWhole, Zenon
<1>b. IsFact(f4) /\ f4.place = Reg("SHUTTERTRIG_CTRL") /\ Serves(r4, f4)
  BY <1>9, ServesBit, Zenon
<1> HIDE DEF r1, r3, g4, r4, r5, r6, R2, f3, f4, f5, f6
<1>c. \A y \in Reqs(s) : \/ y = <<r1, TRUE>> \/ y \in R2 \/ y = <<r3, TRUE>>
                         \/ y = <<g4, TRUE>> \/ y = <<r4, TRUE>> \/ y = <<r5, TRUE>>
                         \/ y = <<r6, TRUE>>
  BY <1>6, Zenon
<1>d. ASSUME NEW y \in Reqs(s)
      PROVE  \/ y = <<r3, TRUE>> \/ y = <<r4, TRUE>> \/ y = <<r5, TRUE>> \/ y = <<r6, TRUE>>
             \/ Command(y[1]) # "set"
             \/ /\ Place(y[1]) # Reg("SHUTTER1_PERIOD") /\ Place(y[1]) # Reg("SHUTTERTRIG_CTRL")
                /\ Place(y[1]) # <<"TRIGCONFIG", 0, 0>> /\ Place(y[1]) # <<"AUTOTRIG", 0, 0>>
  <2>1. CASE y = <<r1, TRUE>>
    <3>1. y[1] = r1
      BY <2>1
    <3>2. Place(y[1]) = <<"READY", 0, 0>>
      BY <1>7, <3>1
    <3>3. /\ <<"READY", 0, 0>> # <<"SPIDRREG", 0, "SHUTTER1_PERIOD">>
          /\ <<"READY", 0, 0>> # <<"SPIDRREG", 0, "SHUTTERTRIG_CTRL">>
          /\ <<"READY", 0, 0>> # <<"TRIGCONFIG", 0, 0>> /\ <<"READY", 0, 0>> # <<"AUTOTRIG", 0, 0>>
      OBVIOUS
    <3> QED
      BY <1>9, <3>2, <3>3, Zenon
  <2>2. CASE y \in R2
    <3>1. PICK i : Place(y[1]) = <<"CRW", i, 0>>
      BY <1>8, <2>2
    <3>3. /\ <<"CRW", i, 0>> # <<"SPIDRREG", 0, "SHUTTER1_PERIOD">>
          /\ <<"CRW", i, 0>> # <<"SPIDRREG", 0, "SHUTTERTRIG_CTRL">>
          /\ <<"CRW", i, 0>> # <<"TRIGCONFIG", 0, 0>> /\ <<"CRW", i, 0>> # <<"AUTOTRIG", 0, 0>>
      OBVIOUS
    <3> QED
      BY <1>9, <3>1, <3>3, Zenon
  <2>3. CASE y = <<g4, TRUE>>
    <3>1. y[1] = g4
      BY <2>3
    <3> QED
      BY <1>7, <3>1
  <2> QED
    BY <1>c, <2>1, <2>2, <2>3
<1>g. /\ Reg("SHUTTER1_PERIOD") # Reg("SHUTTERTRIG_CTRL")
      /\ Reg("SHUTTER1_PERIOD") # <<"TRIGCONFIG", 0, 0>>
      /\ Reg("SHUTTER1_PERIOD") # <<"AUTOTRIG", 0, 0>>
      /\ Reg("SHUTTERTRIG_CTRL") # <<"TRIGCONFIG", 0, 0>>
      /\ Reg("SHUTTERTRIG_CTRL") # <<"AUTOTRIG", 0, 0>>
      /\ <<"TRIGCONFIG", 0, 0>> # <<"AUTOTRIG", 0, 0>>
  BY <1>9
<1>h. /\ <<r3, TRUE>>[1] = r3 /\ <<r4, TRUE>>[1] = r4
      /\ <<r5, TRUE>>[1] = r5 /\ <<r6, TRUE>>[1] = r6
  OBVIOUS
<1>e. Delivers(s, f3) /\ Delivers(s, f4) /\ Delivers(s, f5) /\ Delivers(s, f6)
  <2>0. /\ <<r3, TRUE>> \in Reqs(s) /\ <<r4, TRUE>> \in Reqs(s)
        /\ <<r5, TRUE>> \in Reqs(s) /\ <<r6, TRUE>> \in Reqs(s)
    BY <1>6, Zenon
  <2>1. \A y \in Reqs(s) : Command(y[1]) # "set" \/ Place(y[1]) # f3.place \/ y = <<r3, TRUE>>
    BY <1>7, <1>a, <1>d, <1>g, <1>h
  <2>2. \A y \in Reqs(s) : Command(y[1]) # "set" \/ Place(y[1]) # f4.place \/ y = <<r4, TRUE>>
    BY <1>7, <1>b, <1>d, <1>g, <1>h
  <2>3. \A y \in Reqs(s) : Command(y[1]) # "set" \/ Place(y[1]) # f5.place \/ y = <<r5, TRUE>>
    BY <1>7, <1>a, <1>d, <1>g, <1>h
  <2>4. \A y \in Reqs(s) : Command(y[1]) # "set" \/ Place(y[1]) # f6.place \/ y = <<r6, TRUE>>
    BY <1>7, <1>a, <1>d, <1>g, <1>h
  <2> QED
    BY <1>a, <1>b, <2>0, <2>1, <2>2, <2>3, <2>4, DeliversIf
<1>f. Keeping(s, {f3, f4, f5, f6})
  BY <1>6, <1>e DEF Keeping
<1> QED
  BY <1>f DEF s, f3, f4, f5, f6

LEMMA StopKeeps == Keeping(stopContReadout, {Whole(<<"AUTOTRIG", 0, 0>>, Off)})
<1> DEFINE g2 == Get("SPIDRREG", 0, "SHUTTERTRIG_CTRL")
           r2 == Req("modify", "SPIDRREG", 0, "SHUTTERTRIG_CTRL", [bit |-> CntrSel, on |-> FALSE])
           r3 == Req("set", "AUTOTRIG", 0, 0, Off)
           s1 == EachDev("CRW", Off)
           s2 == Call(FALSE, setSpidrRegBit("SHUTTERTRIG_CTRL", CntrSel, FALSE, FALSE))
           s3 == Call(TRUE, <<r3>>)
           R1 == {<<Set("CRW", i - 1, Off), FALSE>> : i \in 1 .. NumDevs}
           f == Whole(<<"AUTOTRIG", 0, 0>>, Off)
<1>0. stopContReadout = s1 \o s2 \o s3
  <2>1. Set("AUTOTRIG", 0, Off) = r3
    BY DEF Set
  <2> QED
    BY <2>1 DEF stopContReadout, stopAutoTrigger
<1>1. Begins(s1) /\ Reqs(s1) = R1
  BY EachDevBegins
<1>2. Begins(s2) /\ Reqs(s2) = {<<g2, FALSE>>, <<r2, FALSE>>}
  BY BitsAssumption, SetRegBitCalls, Zenon
<1>3. Begins(s3) /\ Reqs(s3) = {<<r3, TRUE>>}
  <2>1. \A tested \in BOOLEAN :
            Begins(Call(tested, <<r3>>)) /\ Reqs(Call(tested, <<r3>>)) = {<<r3, tested>>}
    BY SetCall
  <2> QED
    BY <2>1, Zenon
<1> HIDE DEF s1, s2, s3
<1> DEFINE s == s1 \o s2 \o s3
<1>4. Begins(s) /\ Reqs(s) = R1 \cup {<<g2, FALSE>>, <<r2, FALSE>>} \cup {<<r3, TRUE>>}
  <2>1. Begins(s1 \o s2) /\ Reqs(s1 \o s2) = R1 \cup {<<g2, FALSE>>, <<r2, FALSE>>}
    BY <1>1, <1>2, ConcatBegins
  <2>2. Begins(s) /\ Reqs(s) = Reqs(s1 \o s2) \cup Reqs(s3)
    BY <1>3, <2>1, ConcatBegins
  <2> QED
    BY <1>3, <2>1, <2>2, Zenon
<1> HIDE DEF s
<1>5. IsFact(f) /\ f.place = <<"AUTOTRIG", 0, 0>> /\ Serves(r3, f)
  BY ServesWhole, Zenon
<1>6. ASSUME NEW y \in R1 PROVE Place(y[1]) # <<"AUTOTRIG", 0, 0>>
  <2>1. PICK i \in 1 .. NumDevs : y = <<Set("CRW", i - 1, Off), FALSE>>
    OBVIOUS
  <2>2. y[1] = Set("CRW", i - 1, Off)
    BY <2>1
  <2>3. Place(y[1]) = <<"CRW", i - 1, 0>>
    BY <2>2 DEF Place, Set, Req
  <2> QED
    BY <2>3
<1>7. Command(g2) # "set" /\ Place(r2) # <<"AUTOTRIG", 0, 0>>
  BY DEF Place, Req, Get, Command
<1> HIDE DEF g2, r2, r3, R1, f
<1>8. <<g2, FALSE>>[1] = g2 /\ <<r2, FALSE>>[1] = r2
  OBVIOUS
<1>9. \A y \in Reqs(s) : y \in R1 \/ y = <<g2, FALSE>> \/ y = <<r2, FALSE>> \/ y = <<r3, TRUE>>
  BY <1>4, Zenon
<1>a. \A y \in Reqs(s) : Command(y[1]) # "set" \/ Place(y[1]) # f.place \/ y = <<r3, TRUE>>
  BY <1>5, <1>6, <1>7, <1>8, <1>9
<1>b. <<r3, TRUE>> \in Reqs(s)
  BY <1>4, Zenon
<1>c. Delivers(s, f)
  BY <1>5, <1>a, <1>b, DeliversIf
<1> QED
  BY <1>0, <1>4, <1>c DEF Keeping, s, f

LEMMA PulsesKeep ==
    Keeping(setTpFrequency(TRUE, {0}, {0}), {OneBit(Reg("MPX3_CTRL"), 0, TRUE)})
<1> DEFINE r1 == Req("set", "SPIDRREG", 0, "TPSWITCH_FREQ", {0})
           r2 == Req("set", "SPIDRREG", 0, "TP_LENGTH", {0})
           g3 == Get("SPIDRREG", 0, "MPX3_CTRL")
           r3 == Req("modify", "SPIDRREG", 0, "MPX3_CTRL", [bit |-> 0, on |-> TRUE])
           c3 == Req("verify", "SPIDRREG", 0, "MPX3_CTRL", {})
           s1 == Call(FALSE, setSpidrReg("TPSWITCH_FREQ", {0}, FALSE))
           s2 == Call(FALSE, setSpidrReg("TP_LENGTH", {0}, FALSE))
           s3 == Call(TRUE, setSpidrRegBit("MPX3_CTRL", 0, TRUE, TRUE))
           f == OneBit(Reg("MPX3_CTRL"), 0, TRUE)
<1>0. setTpFrequency(TRUE, {0}, {0}) = s1 \o s2 \o s3
  BY DEF setTpFrequency
<1>1. Begins(s1) /\ Reqs(s1) = {<<r1, FALSE>>}
  <2>1. {0} \subseteq BitsOf("TPSWITCH_FREQ")
    BY BitsAssumption
  <2> QED
    BY <2>1, SetRegCalls, Zenon
<1>2. Begins(s2) /\ Reqs(s2) = {<<r2, FALSE>>}
  <2>1. {0} \subseteq BitsOf("TP_LENGTH")
    BY BitsAssumption
  <2> QED
    BY <2>1, SetRegCalls, Zenon
<1>3. Begins(s3) /\ Reqs(s3) = {<<g3, TRUE>>, <<r3, TRUE>>, <<c3, TRUE>>}
  <2>1. 0 \in BitsOf("MPX3_CTRL")
    BY BitsAssumption
  <2> QED
    BY <2>1, SetRegBitCalls, Zenon
<1> HIDE DEF s1, s2, s3
<1> DEFINE s == s1 \o s2 \o s3
<1>4. Begins(s) /\ Reqs(s) = {<<r1, FALSE>>} \cup {<<r2, FALSE>>}
                             \cup {<<g3, TRUE>>, <<r3, TRUE>>, <<c3, TRUE>>}
  <2>1. Begins(s1 \o s2) /\ Reqs(s1 \o s2) = {<<r1, FALSE>>} \cup {<<r2, FALSE>>}
    BY <1>1, <1>2, ConcatBegins
  <2>2. Begins(s) /\ Reqs(s) = Reqs(s1 \o s2) \cup Reqs(s3)
    BY <1>3, <2>1, ConcatBegins
  <2> QED
    BY <1>3, <2>1, <2>2, Zenon
<1> HIDE DEF s
<1>5. IsFact(f) /\ f.place = <<"SPIDRREG", 0, "MPX3_CTRL">> /\ Serves(r3, f)
  <2>1. Reg("MPX3_CTRL") = <<"SPIDRREG", 0, "MPX3_CTRL">>
    BY DEF Reg
  <2> QED
    BY <2>1, ServesBit, Zenon
<1>6. /\ Command(g3) # "set" /\ Command(c3) # "set"
      /\ Place(r1) # <<"SPIDRREG", 0, "MPX3_CTRL">> /\ Place(r2) # <<"SPIDRREG", 0, "MPX3_CTRL">>
  BY DEF Place, Req, Get, Command
<1> HIDE DEF r1, r2, g3, r3, c3, f
<1>7. /\ <<r1, FALSE>>[1] = r1 /\ <<r2, FALSE>>[1] = r2
      /\ <<g3, TRUE>>[1] = g3 /\ <<c3, TRUE>>[1] = c3
  OBVIOUS
<1>8. \A y \in Reqs(s) : \/ y = <<r1, FALSE>> \/ y = <<r2, FALSE>>
                         \/ y = <<g3, TRUE>> \/ y = <<r3, TRUE>> \/ y = <<c3, TRUE>>
  BY <1>4, Zenon
<1>9. \A y \in Reqs(s) : Command(y[1]) # "set" \/ Place(y[1]) # f.place \/ y = <<r3, TRUE>>
  BY <1>5, <1>6, <1>7, <1>8
<1>a. <<r3, TRUE>> \in Reqs(s)
  BY <1>4, Zenon
<1>b. Delivers(s, f)
  BY <1>5, <1>9, <1>a, DeliversIf
<1> QED
  BY <1>0, <1>4, <1>b DEF Keeping, s, f

(* The rows of a matrix, one request each.                                 *)
RowReq(what, dev, v, row) == Req("set", what, dev, row, v[row])

LEMMA RowReqs ==
    ASSUME NEW what, NEW dev, NEW v, what # "SPIDRREG",
           NEW s, IsSeq(s), Len(s) = NumRows,
           \A i \in 1 .. NumRows : s[i] = RowReq(what, dev, v, i - 1)
    PROVE  /\ GoodReqs(s)
           /\ \A row \in Rows : RowReq(what, dev, v, row) \in Elems(s)
           /\ \A x \in Elems(s) : \E row \in Rows : x = RowReq(what, dev, v, row)
<1>1. NumRows \in Nat
  BY SpidrAssumption
<1>2. \A row : /\ IsReq(RowReq(what, dev, v, row)) /\ OwnBits(RowReq(what, dev, v, row))
               /\ RowReq(what, dev, v, row).kind # "modify"
  BY DEF IsReq, OwnBits, Req, RowReq
<1>3. IsSeq(s) /\ Len(s) = NumRows
  OBVIOUS
<1>4. GoodReqs(s)
  <2>1. \A i \in 1 .. Len(s) : IsReq(s[i]) /\ OwnBits(s[i]) /\ s[i].kind # "modify"
    BY <1>2, <1>3
  <2> QED
    BY <1>3, <2>1 DEF GoodReqs
<1>5. ASSUME NEW x \in Elems(s) PROVE \E row \in Rows : x = RowReq(what, dev, v, row)
  <2>1. PICK i \in 1 .. NumRows : x = s[i]
    BY <1>3 DEF Elems
  <2>2. i - 1 \in Rows
    BY <1>1 DEF Rows
  <2> QED
    BY <2>1, <2>2
<1>6. ASSUME NEW row \in Rows PROVE RowReq(what, dev, v, row) \in Elems(s)
  <2>1. row + 1 \in 1 .. NumRows /\ (row + 1) - 1 = row
    BY <1>1 DEF Rows
  <2>2. row + 1 \in 1 .. Len(s) /\ s[row + 1] = RowReq(what, dev, v, row)
    BY <1>3, <2>1
  <2> QED
    BY <2>2 DEF Elems
<1> QED
  BY <1>4, <1>5, <1>6

LEMMA RowDelivered ==
    ASSUME NEW s, NEW what, NEW other, what # other, NEW dev, NEW v, NEW row \in Rows,
           <<RowReq(what, dev, v, row), TRUE>> \in Reqs(s),
           \A y \in Reqs(s) : \/ \E r \in Rows : y = <<RowReq(what, dev, v, r), TRUE>>
                              \/ \E r : Place(y[1]) = <<other, dev, r>>
    PROVE  Delivers(s, Whole(<<what, dev, row>>, v[row]))
<1> DEFINE f == Whole(<<what, dev, row>>, v[row])
           q == RowReq(what, dev, v, row)
<1>1. IsFact(f) /\ f.place = <<what, dev, row>> /\ Serves(q, f)
  BY ServesWhole, Zenon DEF RowReq
<1>2. ASSUME NEW y \in Reqs(s)
      PROVE  Place(y[1]) # f.place \/ y = <<q, TRUE>>
  <2>1. CASE \E r \in Rows : y = <<RowReq(what, dev, v, r), TRUE>>
    <3>1. PICK r \in Rows : y = <<RowReq(what, dev, v, r), TRUE>>
      BY <2>1
    <3>2. y[1] = RowReq(what, dev, v, r)
      BY <3>1
    <3>3. Place(y[1]) = <<what, dev, r>>
      BY <3>2 DEF RowReq, Place, Req
    <3>4. Place(y[1]) = f.place => r = row
      BY <1>1, <3>3
    <3> QED
      BY <3>1, <3>4
  <2>2. CASE \E r : Place(y[1]) = <<other, dev, r>>
    <3>1. PICK r : Place(y[1]) = <<other, dev, r>>
      BY <2>2
    <3>2. <<what, dev, row>> # <<other, dev, r>>
      OBVIOUS
    <3> QED
      BY <1>1, <3>1, <3>2
  <2> QED
    BY <2>1, <2>2
<1> HIDE DEF f, q
<1>3. <<q, TRUE>> \in Reqs(s)
  BY DEF q
<1>4. Delivers(s, f)
  BY <1>1, <1>2, <1>3, DeliversIf
<1> QED
  BY <1>4 DEF f

LEMMA Mpx3rxKeeps ==
    ASSUME NEW dev
    PROVE  Keeping(setPixelConfigMpx3rx(dev),
                   {Whole(RowPlace(dev, row), pixelConfig[row]) : row \in Rows})
<1> DEFINE s == [i \in 1 .. NumRows |-> Req("set", "PIXCONF", dev, i - 1, pixelConfig[i - 1])]
           q(row) == RowReq("PIXCONF", dev, pixelConfig, row)
<1>1. /\ s = [i \in 1 .. NumRows |-> s[i]]
      /\ \A i \in 1 .. NumRows : s[i] = q(i - 1)
      /\ setPixelConfigMpx3rx(dev) = Call(TRUE, s)
  BY DEF RowReq, setPixelConfigMpx3rx
<1> HIDE DEF s
<1>2. /\ GoodReqs(s) /\ \A row \in Rows : q(row) \in Elems(s)
      /\ \A x \in Elems(s) : \E row \in Rows : x = q(row)
  <2>1. "PIXCONF" # "SPIDRREG"
    OBVIOUS
  <2>3. NumRows \in Nat
    BY SpidrAssumption
  <2>2. /\ IsSeq(s) /\ Len(s) = NumRows
        /\ \A i \in 1 .. NumRows : s[i] = RowReq("PIXCONF", dev, pixelConfig, i - 1)
    BY <1>1, <2>3, ListIs
  <2> QED
    BY <2>1, <2>2, RowReqs
<1> DEFINE c == Call(TRUE, s)
<1>3. Begins(c) /\ Reqs(c) = {<<r, TRUE>> : r \in Elems(s)}
  BY <1>2, CallBegins
<1> HIDE DEF c
<1>4. \A row \in Rows : <<q(row), TRUE>> \in Reqs(c)
  BY <1>2, <1>3
<1>5. \A y \in Reqs(c) : \E row \in Rows : y = <<q(row), TRUE>>
  BY <1>2, <1>3
<1>6. \A row \in Rows : Delivers(c, Whole(<<"PIXCONF", dev, row>>, pixelConfig[row]))
  <2>1. "PIXCONF" # "PIXCONF_0"
    OBVIOUS
  <2> QED
    BY <1>4, <1>5, <2>1, RowDelivered
<1> QED
  BY <1>1, <1>3, <1>6 DEF Keeping, RowPlace, c

LEMMA Mpx3Keeps ==
    ASSUME NEW dev
    PROVE  Keeping(setPixelConfigMpx3(dev),
             {Whole(<<"PIXCONF_0", dev, row>>, pixelConfig[row] \cap (0 .. 11)) : row \in Rows}
             \cup {Whole(<<"PIXCONF_1", dev, row>>, pixelConfig[row] \cap (12 .. 23)) :
                       row \in Rows})
<1> DEFINE v0 == [row \in Rows |-> pixelConfig[row] \cap (0 .. 11)]
           v1 == [row \in Rows |-> pixelConfig[row] \cap (12 .. 23)]
           s0 == Counter("PIXCONF_0", dev, 0 .. 11)
           s1 == Counter("PIXCONF_1", dev, 12 .. 23)
           q0(row) == RowReq("PIXCONF_0", dev, v0, row)
           q1(row) == RowReq("PIXCONF_1", dev, v1, row)
<1>0. \A i \in 1 .. NumRows : i - 1 \in Rows
  BY SpidrAssumption DEF Rows
<1>1. /\ s0 = [i \in 1 .. NumRows |-> s0[i]] /\ s1 = [i \in 1 .. NumRows |-> s1[i]]
      /\ \A i \in 1 .. NumRows : s0[i] = q0(i - 1)
      /\ \A i \in 1 .. NumRows : s1[i] = q1(i - 1)
  BY <1>0 DEF RowReq, Counter
<1>2. setPixelConfigMpx3(dev) = Call(TRUE, s0 \o s1)
  BY DEF setPixelConfigMpx3
<1>3. /\ \A row \in Rows : v0[row] = pixelConfig[row] \cap (0 .. 11)
      /\ \A row \in Rows : v1[row] = pixelConfig[row] \cap (12 .. 23)
  OBVIOUS
<1> HIDE DEF s0, s1, v0, v1
<1>4. /\ GoodReqs(s0) /\ \A row \in Rows : q0(row) \in Elems(s0)
      /\ \A x \in Elems(s0) : \E row \in Rows : x = q0(row)
  <2>1. "PIXCONF_0" # "SPIDRREG"
    OBVIOUS
  <2>3. NumRows \in Nat
    BY SpidrAssumption
  <2>2. /\ IsSeq(s0) /\ Len(s0) = NumRows
        /\ \A i \in 1 .. NumRows : s0[i] = RowReq("PIXCONF_0", dev, v0, i - 1)
    BY <1>1, <2>3, ListIs
  <2> QED
    BY <2>1, <2>2, RowReqs
<1>5. /\ GoodReqs(s1) /\ \A row \in Rows : q1(row) \in Elems(s1)
      /\ \A x \in Elems(s1) : \E row \in Rows : x = q1(row)
  <2>1. "PIXCONF_1" # "SPIDRREG"
    OBVIOUS
  <2>3. NumRows \in Nat
    BY SpidrAssumption
  <2>2. /\ IsSeq(s1) /\ Len(s1) = NumRows
        /\ \A i \in 1 .. NumRows : s1[i] = RowReq("PIXCONF_1", dev, v1, i - 1)
    BY <1>1, <2>3, ListIs
  <2> QED
    BY <2>1, <2>2, RowReqs
<1> DEFINE u == s0 \o s1
<1>6. GoodReqs(u) /\ Elems(u) = Elems(s0) \cup Elems(s1)
  BY <1>4, <1>5, ConcatReqs, ConcatElems DEF GoodReqs
<1> HIDE DEF u
<1> DEFINE c == Call(TRUE, u)
<1>7. Begins(c) /\ Reqs(c) = {<<r, TRUE>> : r \in Elems(u)}
  BY <1>6, CallBegins
<1> HIDE DEF c
<1>8. \A row \in Rows : <<q0(row), TRUE>> \in Reqs(c) /\ <<q1(row), TRUE>> \in Reqs(c)
  BY <1>4, <1>5, <1>6, <1>7
<1>9. \A y \in Reqs(c) : \/ \E row \in Rows : y = <<q0(row), TRUE>>
                         \/ \E row \in Rows : y = <<q1(row), TRUE>>
  <2> SUFFICES ASSUME NEW y \in Reqs(c)
               PROVE  \/ \E row \in Rows : y = <<q0(row), TRUE>>
                      \/ \E row \in Rows : y = <<q1(row), TRUE>>
    OBVIOUS
  <2>1. PICK x \in Elems(u) : y = <<x, TRUE>>
    BY <1>7
  <2>2. CASE x \in Elems(s0)
    <3>1. PICK row \in Rows : x = q0(row)
      BY <1>4, <2>2
    <3> QED
      BY <2>1, <3>1
  <2>3. CASE x \in Elems(s1)
    <3>1. PICK row \in Rows : x = q1(row)
      BY <1>5, <2>3
    <3> QED
      BY <2>1, <3>1
  <2> QED
    BY <1>6, <2>2, <2>3
<1>a. \A row : /\ Place(q0(row)) = <<"PIXCONF_0", dev, row>>
               /\ Place(q1(row)) = <<"PIXCONF_1", dev, row>>
  BY DEF Place, RowReq, Req
<1>b. \A row : <<q0(row), TRUE>>[1] = q0(row) /\ <<q1(row), TRUE>>[1] = q1(row)
  OBVIOUS
<1>c. \A row \in Rows : Delivers(c, Whole(<<"PIXCONF_0", dev, row>>, v0[row]))
  <2>1. \A y \in Reqs(c) : \/ \E row \in Rows : y = <<q0(row), TRUE>>
                           \/ \E row : Place(y[1]) = <<"PIXCONF_1", dev, row>>
    <3> SUFFICES ASSUME NEW y \in Reqs(c), \E row \in Rows : y = <<q1(row), TRUE>>
                 PROVE  \E row : Place(y[1]) = <<"PIXCONF_1", dev, row>>
      BY <1>9
    <3>1. PICK row \in Rows : y = <<q1(row), TRUE>>
      OBVIOUS
    <3>2. y[1] = q1(row)
      BY <3>1, <1>b
    <3> QED
      BY <1>a, <3>2
  <2>2. "PIXCONF_0" # "PIXCONF_1"
    OBVIOUS
  <2> QED
    BY <1>8, <2>1, <2>2, RowDelivered
<1>d. \A row \in Rows : Delivers(c, Whole(<<"PIXCONF_1", dev, row>>, v1[row]))
  <2>1. \A y \in Reqs(c) : \/ \E row \in Rows : y = <<q1(row), TRUE>>
                           \/ \E row : Place(y[1]) = <<"PIXCONF_0", dev, row>>
    <3> SUFFICES ASSUME NEW y \in Reqs(c), \E row \in Rows : y = <<q0(row), TRUE>>
                 PROVE  \E row : Place(y[1]) = <<"PIXCONF_0", dev, row>>
      BY <1>9
    <3>1. PICK row \in Rows : y = <<q0(row), TRUE>>
      OBVIOUS
    <3>2. y[1] = q0(row)
      BY <3>1, <1>b
    <3> QED
      BY <1>a, <3>2
  <2>2. "PIXCONF_1" # "PIXCONF_0"
    OBVIOUS
  <2> QED
    BY <1>8, <2>1, <2>2, RowDelivered
<1>e. \A row \in Rows :
          /\ Delivers(c, Whole(<<"PIXCONF_0", dev, row>>, pixelConfig[row] \cap (0 .. 11)))
          /\ Delivers(c, Whole(<<"PIXCONF_1", dev, row>>, pixelConfig[row] \cap (12 .. 23)))
  BY <1>3, <1>c, <1>d
<1>f. setPixelConfigMpx3(dev) = c
  BY <1>2 DEF c, u
<1> QED
  BY <1>7, <1>e, <1>f DEF Keeping

LEMMA NothingBegins == Keeping(<<>>, {})
<1>1. \A i : i \notin 1 .. Len(<<>>)
  BY EmptyIs
<1> QED
  BY <1>1, EmptyIs DEF Keeping, Begins, GoodSteps, NotBegun

(* Whatever the client begins keeps what it promises.                      *)
LEMMA ClientStep ==
    ASSUME Client
    PROVE  /\ op = <<>> /\ Keeping(op', promise') /\ (ret' => promise' = {})
           /\ UNCHANGED <<device, pending, sock, asked, readval, timeouts, refusals>>
<1> DEFINE Same == UNCHANGED <<device, pending, sock, asked, readval, timeouts, refusals>>
<1>1. ASSUME NEW steps, NEW told, Begin(steps, told), Keeping(steps, told)
      PROVE  op = <<>> /\ Keeping(op', promise') /\ (ret' => promise' = {}) /\ Same
  <2>1. op = <<>> /\ op' = steps /\ promise' = told /\ ret' = FALSE
        /\ UNCHANGED <<wire, asked, readval, timeouts, refusals>>
    BY <1>1 DEF Begin
  <2>2. Same
    BY <2>1 DEF wire
  <2>3. Keeping(op', promise')
    BY <1>1, <2>1
  <2> QED
    BY <2>1, <2>2, <2>3
<1>2. CASE GetRegister
  <2>1. PICK a \in Registers : Begin(Call(TRUE, <<Get("SPIDRREG", 0, a)>>), {})
    BY <1>2 DEF GetRegister, getSpidrReg
  <2> QED
    BY <1>1, <2>1, PlainGet
<1>3. CASE SetRegister
  <2>1. PICK a \in Registers : \E v \in SUBSET BitsOf(a) :
            Begin(Call(TRUE, setSpidrReg(a, v, TRUE)), {Whole(Reg(a), v)})
    BY <1>3 DEF SetRegister
  <2>2. PICK v \in SUBSET BitsOf(a) :
            Begin(Call(TRUE, setSpidrReg(a, v, TRUE)), {Whole(Reg(a), v)})
    BY <2>1
  <2> QED
    BY <1>1, <2>2, RegisterSet
<1>4. CASE SetRegisterBit
  <2>1. PICK a \in Registers : \E b \in BitsOf(a), on \in BOOLEAN :
            Begin(Call(TRUE, setSpidrRegBit(a, b, on, TRUE)), {OneBit(Reg(a), b, on)})
    BY <1>4 DEF SetRegisterBit
  <2>2. PICK b \in BitsOf(a), on \in BOOLEAN :
            Begin(Call(TRUE, setSpidrRegBit(a, b, on, TRUE)), {OneBit(Reg(a), b, on)})
    BY <2>1
  <2> QED
    BY <1>1, <2>2, RegisterBitSet
<1>5. CASE Continuous
  BY <1>1, <1>5, StartKeeps, StopKeeps DEF Continuous
<1>6. CASE TestPulses
  BY <1>1, <1>6, PulsesKeep DEF TestPulses
<1>7. CASE DacsAndFlash
  <2>1. CASE \E code \in {1, 2} : Begin(Call(TRUE, getDac(0, code)), {})
    BY <1>1, <2>1, PlainGet DEF getDac
  <2>2. CASE Begin(Call(TRUE, setDac(0, 1, On)), {Whole(<<"DAC", 0, 1>>, On)})
    <3>1. "DAC" # "SPIDRREG"
      OBVIOUS
    <3>2. Keeping(Call(TRUE, setDac(0, 1, On)), {Whole(<<"DAC", 0, 1>>, On)})
      BY <3>1, PlainSet DEF setDac
    <3> QED
      BY <1>1, <2>2, <3>2
  <2>3. CASE Begin(Call(TRUE, readFlash(0)), {})
    BY <1>1, <2>3, PlainGet DEF readFlash
  <2>4. CASE Begin(Call(TRUE, writeFlash(0, On)), {Whole(<<"FLASH", 0, 0>>, On)})
    <3>1. "FLASH" # "SPIDRREG"
      OBVIOUS
    <3>2. Keeping(Call(TRUE, writeFlash(0, On)), {Whole(<<"FLASH", 0, 0>>, On)})
      BY <3>1, PlainSet DEF writeFlash
    <3> QED
      BY <1>1, <2>4, <3>2
  <2> QED
    BY <1>7, <2>1, <2>2, <2>3, <2>4 DEF DacsAndFlash
<1>8. CASE SetDevice
  <2>1. PICK what \in Settings, dev \in Devs, v \in {On, Off} :
            Begin(Call(TRUE, <<Set(what, dev, v)>>), {Whole(<<what, dev, 0>>, v)})
    BY <1>8 DEF SetDevice
  <2>2. what # "SPIDRREG"
    BY CommandAssumption DEF DeviceSettings, InterfaceSettings, ModuleSettings, StoredSettings
  <2>3. Keeping(Call(TRUE, <<Set(what, dev, v)>>), {Whole(<<what, dev, 0>>, v)})
    BY <2>2, PlainSet DEF Set
  <2> QED
    BY <1>1, <2>1, <2>3
<1>9. CASE Monitor
  BY <1>1, <1>9, PlainGet DEF Monitor
<1>a. CASE ConfigPixels \/ MaskPixels
  <2>1. op = <<>> /\ promise' = {} /\ UNCHANGED <<wire, ctrl, timeouts, refusals>>
    BY <1>a DEF ConfigPixels, MaskPixels
  <2>2. Same /\ op' = <<>>
    BY <2>1 DEF wire, ctrl
  <2> QED
    BY <2>1, <2>2, NothingBegins
<1>b. CASE Upload
  <2>1. PICK dev \in Devs :
            \/ Begin(setPixelConfigMpx3rx(dev),
                     {Whole(RowPlace(dev, row), pixelConfig[row]) : row \in Rows})
            \/ Begin(setPixelConfigMpx3(dev),
                     {Whole(<<"PIXCONF_0", dev, row>>, pixelConfig[row] \cap (0 .. 11)) : row \in Rows}
                     \cup {Whole(<<"PIXCONF_1", dev, row>>, pixelConfig[row] \cap (12 .. 23)) :
                               row \in Rows})
    BY <1>b DEF Upload
  <2> QED
    BY <1>1, <2>1, Mpx3rxKeeps, Mpx3Keeps
<1> QED
  BY <1>2, <1>3, <1>4, <1>5, <1>6, <1>7, <1>8, <1>9, <1>a, <1>b DEF Client

-----------------------------------------------------------------------------
(* Going on after a reply, and giving up.                                  *)

Expecting(t, val) == [t EXCEPT ![1].req.val = val]

LEMMA VerifyExpects ==
    ASSUME NEW t, GoodSteps(t), t # <<>>, t[1].req.kind = "verify", NEW val
    PROVE  /\ GoodSteps(Expecting(t, val)) /\ Len(Expecting(t, val)) = Len(t)
           /\ \A i \in 1 .. Len(t) : i > 1 => Expecting(t, val)[i] = t[i]
           /\ Expecting(t, val)[1].req.kind = "verify"
<1> DEFINE u == Expecting(t, val)
<1>1. IsSeq(t) /\ Len(t) \in Nat /\ 1 \in 1 .. Len(t) /\ DOMAIN t = 1 .. Len(t)
  BY SeqFacts DEF GoodSteps
<1>2. IsStep(t[1])
  BY <1>1 DEF GoodSteps
<1>3. /\ t[1] = [req |-> t[1].req, skip |-> t[1].skip, tested |-> t[1].tested]
      /\ t[1].req = [kind |-> t[1].req.kind, what |-> t[1].req.what, dev |-> t[1].req.dev,
                     at |-> t[1].req.at, val |-> t[1].req.val]
  BY <1>2 DEF IsStep, IsReq, Req
<1> DEFINE r == [t[1].req EXCEPT !.val = val]
           x == [t[1] EXCEPT !.req.val = val]
<1>4. r = Req("verify", t[1].req.what, t[1].req.dev, t[1].req.at, val)
  BY <1>3 DEF Req
<1>5. x = [req |-> r, skip |-> t[1].skip, tested |-> t[1].tested]
  BY <1>3
<1>6. u = [t EXCEPT ![1] = x]
  BY DEF Expecting
<1> HIDE DEF u
<1>7. PICK S : t \in Seq(S)
  BY <1>1 DEF IsSeq
<1> HIDE DEF x, r
<1>8. u = [i \in 1 .. Len(t) |-> IF i = 1 THEN x ELSE t[i]]
  <2>1. t = [i \in 1 .. Len(t) |-> t[i]]
    BY <1>1, <1>7
  <2> QED
    BY <1>1, <1>6, <2>1
<1>9. IsSeq(u) /\ Len(u) = Len(t)
  <2>1. u = [i \in 1 .. Len(t) |-> u[i]]
    BY <1>8
  <2>2. Len(t) \in Nat
    BY <1>1
  <2> QED
    BY <2>1, <2>2, ListIs
<1>a. u[1] = x /\ \A i \in 1 .. Len(t) : i > 1 => u[i] = t[i]
  BY <1>1, <1>8
<1>b. /\ r.kind = "verify" /\ Place(r) = Place(t[1].req) /\ IsReq(r) /\ OwnBits(r)
  BY <1>4 DEF IsReq, OwnBits, Place, Req
<1>c. /\ x.req = r /\ x.skip = t[1].skip /\ x.tested = t[1].tested /\ IsStep(x)
  BY <1>2, <1>5, <1>b DEF IsStep
<1>d. \A i \in 1 .. Len(u) : /\ IsStep(u[i]) /\ u[i].skip = t[i].skip
                             /\ u[i].tested = t[i].tested /\ u[i].req.kind = t[i].req.kind
                             /\ Place(u[i].req) = Place(t[i].req)
                             /\ (u[i].req.kind = "modify" => u[i] = t[i])
  <2> SUFFICES ASSUME NEW i \in 1 .. Len(u)
               PROVE  /\ IsStep(u[i]) /\ u[i].skip = t[i].skip
                      /\ u[i].tested = t[i].tested /\ u[i].req.kind = t[i].req.kind
                      /\ Place(u[i].req) = Place(t[i].req)
                      /\ (u[i].req.kind = "modify" => u[i] = t[i])
    OBVIOUS
  <2>1. CASE i = 1
    BY <1>a, <1>b, <1>c, <2>1
  <2>2. CASE i # 1
    <3>1. i \in 1 .. Len(t) /\ u[i] = t[i]
      BY <1>1, <1>9, <1>a, <2>2
    <3> QED
      BY <3>1 DEF GoodSteps
  <2> QED
    BY <2>1, <2>2
<1>e. ASSUME NEW i \in 1 .. Len(u), NEW k \in i .. i + u[i].skip
      PROVE  u[k].tested = u[i].tested
  <2>1. i \in 1 .. Len(t) /\ u[i].skip = t[i].skip /\ t[i].skip \in Nat /\ i + t[i].skip <= Len(t)
    BY <1>9, <1>d DEF GoodSteps, IsStep
  <2>2. k \in 1 .. Len(u) /\ k \in i .. i + t[i].skip
    BY <1>1, <1>9, <2>1
  <2>3. t[k].tested = t[i].tested
    BY <2>1, <2>2 DEF GoodSteps
  <2> QED
    BY <1>d, <2>2, <2>3
<1>f. ASSUME NEW i \in 1 .. Len(u), NEW k \in 1 .. Len(u), k = i + u[i].skip + 1
      PROVE  u[k].req.kind # "modify"
  <2>1. i \in 1 .. Len(t) /\ k \in 1 .. Len(t) /\ k = i + t[i].skip + 1
    BY <1>9, <1>d, <1>f
  <2>2. t[k].req.kind # "modify"
    BY <2>1 DEF GoodSteps
  <2> QED
    BY <1>d, <2>2
<1>g. ASSUME NEW i \in 1 .. Len(u), u[i].req.kind = "modify", i > 1
      PROVE  ReadBy(u[i - 1].req, u[i].req)
  <2>1. i \in 1 .. Len(t) /\ t[i].req.kind = "modify" /\ u[i] = t[i]
    BY <1>9, <1>d, <1>g
  <2>2. ReadBy(t[i - 1].req, t[i].req)
    BY <1>g, <2>1 DEF GoodSteps
  <2>3. i - 1 \in 1 .. Len(u)
    BY <1>1, <1>9, <1>g
  <2>4. u[i - 1].req.kind = t[i - 1].req.kind /\ Place(u[i - 1].req) = Place(t[i - 1].req)
    BY <1>d, <2>3
  <2> QED
    BY <2>1, <2>2, <2>4 DEF ReadBy
<1>h. \A i \in 1 .. Len(u) : i + u[i].skip <= Len(u)
  BY <1>9, <1>d DEF GoodSteps
<1>i. GoodSteps(u)
  BY <1>9, <1>d, <1>e, <1>f, <1>g, <1>h DEF GoodSteps
<1> QED
  BY <1>9, <1>a, <1>b, <1>c, <1>i DEF u

(* The step at the head of the operation has been answered as it should.   *)
LEMMA Advance ==
    ASSUME NEW s, GoodSteps(s), s # <<>>, NEW u, u = ExpectWritten(Tail(s), asked.val)
    PROVE  /\ GoodSteps(u) /\ Len(u) = Len(s) - 1
           /\ u # <<>> => (u[1].req.kind = "modify" => ReadBy(s[1].req, u[1].req))
           /\ \A f : Keeps(s, f) => Keeps(u, f)
           /\ \A f : Fulfils(s, f) => Fulfils(u, f) \/ Does(<<s[1].req, s[1].tested>>, f)
<1> DEFINE t == Tail(s)
<1>1. /\ GoodSteps(t) /\ Len(t) = Len(s) - 1 /\ Len(s) \in Nat /\ Len(s) >= 1
      /\ \A i \in 1 .. Len(s) - 1 : t[i] = s[i + 1]
  BY TailSteps, HeadIs, SeqFacts DEF GoodSteps
<1>2. \/ u = t
      \/ t # <<>> /\ t[1].req.kind = "verify" /\ u = Expecting(t, asked.val)
  <2>1. t # <<>> => Head(t) = t[1]
    BY <1>1, HeadIs DEF GoodSteps
  <2> HIDE DEF t
  <2>2. u = ExpectWritten(t, asked.val)
    BY DEF t
  <2> QED
    BY <2>1, <2>2 DEF ExpectWritten, Expecting
<1> HIDE DEF t
<1>3. /\ GoodSteps(u) /\ Len(u) = Len(t)
      /\ \A i \in 1 .. Len(t) : \/ u[i] = t[i]
                                \/ /\ i = 1 /\ u[i].req.kind = "verify"
                                   /\ t[i].req.kind = "verify"
  <2>1. CASE u = t
    BY <1>1, <2>1
  <2>2. CASE t # <<>> /\ t[1].req.kind = "verify" /\ u = Expecting(t, asked.val)
    <3>1. /\ GoodSteps(u) /\ Len(u) = Len(t) /\ u[1].req.kind = "verify"
          /\ \A i \in 1 .. Len(t) : i > 1 => u[i] = t[i]
      BY <1>1, <2>2, VerifyExpects
    <3>2. \A i \in 1 .. Len(t) : i = 1 \/ i > 1
      BY <1>1
    <3> QED
      BY <2>2, <3>1, <3>2
  <2> QED
    BY <1>2, <2>1, <2>2
<1>4. u # <<>> => (u[1].req.kind = "modify" => ReadBy(s[1].req, u[1].req))
  <2> SUFFICES ASSUME u # <<>>, u[1].req.kind = "modify" PROVE ReadBy(s[1].req, u[1].req)
    OBVIOUS
  <2>1. 1 \in 1 .. Len(t) /\ 2 \in 1 .. Len(s) /\ u[1] = t[1] /\ t[1] = s[2]
    <3>1. Len(u) # 0
      BY <1>3, SeqFacts DEF GoodSteps
    <3>2. 1 \in 1 .. Len(t) /\ 2 \in 1 .. Len(s)
      BY <1>1, <1>3, <3>1
    <3> QED
      BY <1>1, <1>3, <3>2
  <2> QED
    BY <2>1 DEF GoodSteps
<1>5. ASSUME NEW y \in Reqs(u) PROVE y \in Reqs(s) \/ Command(y[1]) = "get"
  <2>1. PICK i \in 1 .. Len(u) : y = <<u[i].req, u[i].tested>>
    BY DEF Reqs
  <2>2. i \in 1 .. Len(s) - 1 /\ i + 1 \in 1 .. Len(s)
    BY <1>1, <1>3
  <2>3. CASE u[i] = t[i]
    BY <1>1, <2>1, <2>2, <2>3 DEF Reqs
  <2>4. CASE u[i].req.kind = "verify"
    <3>1. y[1] = u[i].req
      BY <2>1
    <3> QED
      BY <2>4, <3>1 DEF Command
  <2> QED
    BY <1>1, <1>3, <2>2, <2>3, <2>4
<1>6. ASSUME NEW y \in Reqs(s)
      PROVE  y \in Reqs(u) \/ y = <<s[1].req, s[1].tested>> \/ y[1].kind = "verify"
  <2>1. PICK i \in 1 .. Len(s) : y = <<s[i].req, s[i].tested>>
    BY DEF Reqs
  <2>2. CASE i = 1
    BY <2>1, <2>2
  <2>3. CASE i # 1
    <3>1. i - 1 \in 1 .. Len(t) /\ t[i - 1] = s[i]
      <4>1. i - 1 \in 1 .. Len(s) - 1 /\ (i - 1) + 1 = i
        BY <1>1, <2>3
      <4> QED
        BY <1>1, <4>1
    <3>2. CASE u[i - 1] = t[i - 1]
      BY <1>3, <2>1, <3>1, <3>2 DEF Reqs
    <3>3. CASE t[i - 1].req.kind = "verify"
      <4>1. y[1] = s[i].req
        BY <2>1
      <4> QED
        BY <3>1, <3>3, <4>1
    <3> QED
      BY <1>3, <3>1, <3>2, <3>3
  <2> QED
    BY <2>2, <2>3
<1>7. \A f : Keeps(s, f) => Keeps(u, f)
  BY <1>5 DEF Keeps
<1>8. \A f, y : Does(y, f) => y[1].kind # "verify"
  BY DEF Does, Serves
<1>9. \A f : Fulfils(s, f) => Fulfils(u, f) \/ Does(<<s[1].req, s[1].tested>>, f)
  BY <1>6, <1>8 DEF Fulfils
<1> QED
  BY <1>1, <1>3, <1>4, <1>7, <1>9

(* A failure leaves nothing to do, or what comes after the call that failed. *)
LEMMA GiveUp ==
    ASSUME GoodSteps(op), op # <<>>, Fail
    PROVE  /\ Begins(op') /\ ret' = FALSE
           /\ \A f : Keeps(op, f) => Keeps(op', f)
           /\ \A f : Fulfils(op, f) /\ op' # <<>> => Fulfils(op', f)
<1> DEFINE rest == SubSeq(op, Head(op).skip + 2, Len(op))
           n == Head(op).skip + 1
<1>1. /\ GoodSteps(rest) /\ NotBegun(rest) /\ Len(rest) = Len(op) - Head(op).skip - 1
      /\ \A i \in 1 .. Len(rest) : rest[i] = op[Head(op).skip + 1 + i]
  BY RestSteps
<1>2. Head(op) = op[1] /\ Len(op) \in Nat /\ 1 \in 1 .. Len(op)
  BY HeadIs, SeqFacts DEF GoodSteps
<1>3. op[1].skip \in Nat /\ 1 + op[1].skip <= Len(op) /\ op[1].tested \in BOOLEAN
  BY <1>2 DEF GoodSteps, IsStep
<1>4. ret' = FALSE /\ op' = IF Head(op).tested THEN <<>> ELSE rest
  BY DEF Fail
<1>0. n = op[1].skip + 1
  BY <1>2
<1> HIDE DEF rest, n
<1>5. /\ Len(rest) = Len(op) - n /\ n \in Nat /\ n >= 1 /\ n <= Len(op)
      /\ \A i \in 1 .. Len(rest) : rest[i] = op[n + i]
  <2>1. n \in Nat /\ n >= 1 /\ n <= Len(op) /\ n = Head(op).skip + 1
    BY <1>0, <1>2, <1>3
  <2>2. Len(op) - Head(op).skip - 1 = Len(op) - n
    <3>1. Head(op).skip \in Nat /\ Len(op) \in Nat
      BY <1>2, <1>3
    <3> QED
      BY <2>1, <3>1
  <2> QED
    BY <1>1, <2>1, <2>2
<1>6. CASE op[1].tested
  <2>1. op' = <<>>
    BY <1>2, <1>4, <1>6
  <2>2. Keeping(op', {})
    BY <2>1, NothingBegins
  <2>3. Begins(op') /\ Reqs(op') = {}
    <3>1. \A i : i \notin 1 .. Len(op')
      BY <2>1, EmptyIs
    <3> QED
      BY <2>2, <3>1 DEF Keeping, Reqs
  <2> QED
    BY <1>4, <2>1, <2>3 DEF Keeps
<1>7. CASE ~ op[1].tested
  <2>1. op' = rest
    BY <1>2, <1>4, <1>7
  <2>2. Begins(rest)
    BY <1>1 DEF Begins
  <2>3. ASSUME NEW y \in Reqs(rest) PROVE y \in Reqs(op)
    <3>1. PICK i \in 1 .. Len(rest) : y = <<rest[i].req, rest[i].tested>>
      BY DEF Reqs
    <3>2. n + i \in 1 .. Len(op) /\ rest[i] = op[n + i]
      BY <1>2, <1>5
    <3> QED
      BY <3>1, <3>2 DEF Reqs
  <2>4. ASSUME NEW y \in Reqs(op), y[2] PROVE y \in Reqs(rest)
    <3>1. PICK i \in 1 .. Len(op) : y = <<op[i].req, op[i].tested>>
      BY DEF Reqs
    <3>2. CASE i <= n
      <4>1. i \in 1 .. 1 + op[1].skip
        BY <1>0, <1>2, <1>3, <3>2
      <4>2. op[i].tested = op[1].tested
        BY <1>2, <4>1 DEF GoodSteps
      <4>3. y[2] = op[i].tested
        BY <3>1
      <4> QED
        BY <1>7, <2>4, <4>2, <4>3
    <3>3. CASE i > n
      <4>1. i - n \in 1 .. Len(rest) /\ n + (i - n) = i
        BY <1>2, <1>5, <3>3
      <4>2. rest[i - n] = op[i]
        BY <1>5, <4>1
      <4> QED
        BY <3>1, <4>1, <4>2 DEF Reqs
    <3> QED
      BY <1>2, <1>5, <3>2, <3>3
  <2> QED
    BY <1>4, <2>1, <2>2, <2>3, <2>4 DEF Keeps, Fulfils, Does
<1> QED
  BY <1>6, <1>7

-----------------------------------------------------------------------------
(* Messages, places and what is stored there.                              *)

LEMMA SomebodyIs == \A r : IsReq(r) => r # Nobody
<1> SUFFICES ASSUME NEW r, IsReq(r) PROVE r # Nobody
  OBVIOUS
<1>1. "kind" \in DOMAIN r
  BY DEF IsReq, Req
<1>2. "kind" \notin DOMAIN Nobody
  BY DEF Nobody
<1> QED
  BY <1>1, <1>2

LEMMA MessageIs ==
    ASSUME NEW r, IsReq(r), OwnBits(r)
    PROVE  LET m == Message(r) IN
           /\ IsReq(m) /\ m.kind = r.kind /\ Place(m) = Place(r) /\ Command(m) = Command(r)
           /\ r.kind # "modify" => m = r
           /\ r.kind = "modify" =>
                  m.val = IF r.val.on THEN readval \cup {r.val.bit} ELSE readval \ {r.val.bit}
<1> DEFINE m == Message(r)
<1>1. CASE r.kind # "modify"
  <2>1. m = r
    BY <1>1 DEF Message
  <2> HIDE DEF m
  <2>2. IsReq(m) /\ m.kind = r.kind /\ Place(m) = Place(r) /\ Command(m) = Command(r)
    BY <2>1
  <2> QED
    BY <1>1, <2>1, <2>2 DEF m
<1>2. CASE r.kind = "modify"
  <2> DEFINE v == IF r.val.on THEN readval \cup {r.val.bit} ELSE readval \ {r.val.bit}
  <2>1. r = [kind |-> r.kind, what |-> r.what, dev |-> r.dev, at |-> r.at, val |-> r.val]
    BY DEF IsReq, Req
  <2>2. m = [r EXCEPT !.val = v]
    BY <1>2 DEF Message
  <2> HIDE DEF v
  <2>3. m = [kind |-> r.kind, what |-> r.what, dev |-> r.dev, at |-> r.at, val |-> v]
    BY <2>1, <2>2
  <2> HIDE DEF m
  <2>4. IsReq(m) /\ m.kind = r.kind /\ Place(m) = Place(r) /\ Command(m) = Command(r) /\ m.val = v
    BY <1>2, <2>3 DEF IsReq, Req, Place, Command
  <2> QED
    BY <1>2, <2>4 DEF m, v
<1> QED
  BY <1>1, <1>2

LEMMA WriteStores ==
    ASSUME NEW p, NEW v, device' = Written(p, v)
    PROVE  /\ DOMAIN device' = {p} \cup DOMAIN device
           /\ \A q : q # p /\ q \in DOMAIN device => device'[q] = device[q]
           /\ device'[p] = v
           /\ \A q : Stored(q)' = IF q = p THEN v ELSE Stored(q)
<1>1. device' = [q \in {p} \cup DOMAIN device |-> IF q = p THEN v ELSE device[q]]
  BY DEF Written
<1>2. DOMAIN device' = {p} \cup DOMAIN device
  BY <1>1
<1>3. \A q \in {p} \cup DOMAIN device : device'[q] = IF q = p THEN v ELSE device[q]
  BY <1>1
<1>4. \A q : Stored(q)' = IF q \in DOMAIN device' THEN device'[q] ELSE Off
  BY DEF Stored, Off
<1>5. \A q : Stored(q) = IF q \in DOMAIN device THEN device[q] ELSE Off
  BY DEF Stored, Off
<1>6. \A q : Stored(q)' = IF q = p THEN v ELSE Stored(q)
  BY <1>2, <1>3, <1>4, <1>5
<1> QED
  BY <1>2, <1>3, <1>6

LEMMA PlaceIs ==
    ASSUME NEW r
    PROVE  /\ Place(r)[1] = r.what /\ Place(r)[3] = r.at
           /\ \A s : Place(r) = Place(s) => r.what = s.what /\ r.dev = s.dev /\ r.at = s.at
BY DEF Place

LEMMA ReplyIs ==
    ASSUME NEW r, NEW err
    PROVE  LET m == Reply(r, err) IN
           /\ m.kind = Command(r) /\ m.what = r.what /\ m.dev = r.dev /\ m.at = r.at
           /\ m.err = err
           /\ m.val = IF Command(r) = "get" /\ err = "none" THEN Stored(Place(r)) ELSE {}
BY DEF Reply

-----------------------------------------------------------------------------
(* What the operation, the requests and the replies look like.             *)

Shape ==
    /\ GoodSteps(op) /\ IsSeq(pending) /\ IsSeq(sock)
    /\ \A i \in 1 .. Len(pending) : IsReq(pending[i])
    /\ asked # Nobody => op # <<>> /\ asked = Message(op[1].req)
    /\ timeouts \in Nat /\ refusals \in Nat

LEMMA HeadReq ==
    ASSUME GoodSteps(op), op # <<>>
    PROVE  /\ Head(op) = op[1] /\ 1 \in 1 .. Len(op)
           /\ IsStep(op[1]) /\ IsReq(op[1].req) /\ OwnBits(op[1].req)
<1>1. Head(op) = op[1] /\ 1 \in 1 .. Len(op)
  BY HeadIs, SeqFacts DEF GoodSteps
<1> QED
  BY <1>1 DEF GoodSteps, IsStep

LEMMA ShapeStep == ASSUME Shape, [Next]_vars PROVE Shape'
<1> USE DEF Shape
<1>1. CASE Client
  <2>1. op = <<>> /\ GoodSteps(op')
        /\ UNCHANGED <<pending, sock, asked, readval, timeouts, refusals>>
    BY <1>1, ClientStep DEF Keeping, Begins
  <2>2. asked = Nobody
    BY <2>1
  <2> QED
    BY <2>1, <2>2
<1>2. CASE SendRequest
  <2>1. /\ op # <<>> /\ UNCHANGED <<sock, op, readval, timeouts, refusals>>
        /\ asked' = Message(Head(op).req)
        /\ pending' = Append(pending, Message(Head(op).req))
    BY <1>2 DEF SendRequest
  <2>2. Head(op) = op[1] /\ IsReq(op[1].req) /\ OwnBits(op[1].req)
    BY <2>1, HeadReq
  <2>3. IsReq(Message(op[1].req))
    BY <2>2, MessageIs
  <2>4. Message(op[1].req)' = Message(op[1].req)
    BY <2>1 DEF Message
  <2>5. IsSeq(pending') /\ \A i \in 1 .. Len(pending') : IsReq(pending'[i])
    <3>1. /\ IsSeq(pending') /\ Len(pending') = Len(pending) + 1
          /\ \A i \in 1 .. Len(pending) : pending'[i] = pending[i]
          /\ pending'[Len(pending) + 1] = Message(op[1].req)
      BY <2>1, <2>2, AppendIs
    <3>2. Len(pending) \in Nat
      BY SeqFacts
    <3> QED
      BY <2>3, <3>1, <3>2
  <2> QED
    BY <2>1, <2>2, <2>4, <2>5
<1>3. CASE SendTimeOut
  <2>1. /\ op # <<>> /\ UNCHANGED <<sock, asked, readval, refusals>> /\ timeouts' = timeouts + 1
        /\ asked = Nobody /\ Fail
        /\ pending' = pending \/ pending' = Append(pending, Message(Head(op).req))
    BY <1>3 DEF SendTimeOut
  <2>2. Head(op) = op[1] /\ IsReq(op[1].req) /\ OwnBits(op[1].req)
    BY <2>1, HeadReq
  <2>3. IsReq(Message(op[1].req))
    BY <2>2, MessageIs
  <2>4. GoodSteps(op')
    BY <2>1, GiveUp DEF Begins
  <2>5. IsSeq(pending') /\ \A i \in 1 .. Len(pending') : IsReq(pending'[i])
    <3>1. CASE pending' = pending
      BY <3>1
    <3>2. CASE pending' = Append(pending, Message(Head(op).req))
      <4>1. /\ IsSeq(pending') /\ Len(pending') = Len(pending) + 1
            /\ \A i \in 1 .. Len(pending) : pending'[i] = pending[i]
            /\ pending'[Len(pending) + 1] = Message(op[1].req)
        BY <2>2, <3>2, AppendIs
      <4>2. Len(pending) \in Nat
        BY SeqFacts
      <4> QED
        BY <2>3, <4>1, <4>2
    <3> QED
      BY <2>1, <3>1, <3>2
  <2> QED
    BY <2>1, <2>4, <2>5
<1>4. CASE ReplyTimeOut
  <2>1. /\ asked # Nobody /\ Fail /\ asked' = Nobody /\ timeouts' = timeouts + 1
        /\ UNCHANGED <<pending, sock, refusals>>
    BY <1>4 DEF ReplyTimeOut, wire
  <2>2. GoodSteps(op')
    BY <2>1, GiveUp DEF Begins
  <2> QED
    BY <2>1, <2>2
<1>5. CASE ReadReply
  <2>1. /\ asked # Nobody /\ asked' = Nobody /\ sock' = <<>>
        /\ UNCHANGED <<pending, timeouts, refusals>>
        /\ op' = ExpectWritten(Tail(op), asked.val) \/ Fail
    BY <1>5 DEF ReadReply
  <2>2. GoodSteps(op')
    <3>1. CASE op' = ExpectWritten(Tail(op), asked.val)
      BY <2>1, <3>1, Advance
    <3>2. CASE Fail
      BY <2>1, <3>2, GiveUp DEF Begins
    <3> QED
      BY <2>1, <3>1, <3>2
  <2> QED
    BY <2>1, <2>2, EmptyIs
<1>6. CASE Module
  <2>1. /\ pending # <<>> /\ pending' = Tail(pending) /\ UNCHANGED <<op, asked, readval, timeouts>>
        /\ refusals' \in {refusals, refusals + 1}
        /\ \E m : sock' = Append(sock, m)
    BY <1>6 DEF Module, Answer, Refuse, ctrl
  <2>2. IsSeq(sock')
    BY <2>1, AppendIs
  <2>3. IsSeq(pending') /\ \A i \in 1 .. Len(pending') : IsReq(pending'[i])
    <3>1. /\ IsSeq(pending') /\ Len(pending') = Len(pending) - 1
          /\ \A i \in 1 .. Len(pending) - 1 : pending'[i] = pending[i + 1]
      BY <2>1, TailIs
    <3>2. Len(pending) \in Nat
      BY SeqFacts
    <3> QED
      BY <3>1, <3>2
  <2>4. Message(op[1].req)' = Message(op[1].req)
    BY <2>1 DEF Message
  <2> QED
    BY <2>1, <2>2, <2>3, <2>4
<1>7. CASE UNCHANGED vars
  <2>1. UNCHANGED <<pending, sock, op, asked, readval, timeouts, refusals>>
    BY <1>7 DEF vars, wire, ctrl
  <2>2. Message(op[1].req)' = Message(op[1].req)
    BY <2>1 DEF Message
  <2> QED
    BY <2>1, <2>2
<1> QED
  BY <1>1, <1>2, <1>3, <1>4, <1>5, <1>6, <1>7 DEF Next, Controller

-----------------------------------------------------------------------------
(* No register gets a bit that is not its own: the requests written, the   *)
(* replies on their way and the word about to be modified carry none.      *)

OwnWord(m) == Command(m) = "set" /\ m.what = "SPIDRREG" => m.val \subseteq BitsOf(m.at)
OwnReply(m) == m.kind = "get" /\ m.what = "SPIDRREG" => m.val \subseteq BitsOf(m.at)
ToModify == op # <<>> => (op[1].req.kind = "modify" => readval \subseteq BitsOf(op[1].req.at))
NoneForeign ==
    /\ NoForeignBits
    /\ \A i \in 1 .. Len(pending) : OwnWord(pending[i])
    /\ \A i \in 1 .. Len(sock) : OwnReply(sock[i])
    /\ ToModify

LEMMA OwnMessage ==
    ASSUME Shape, NoneForeign, op # <<>> PROVE OwnWord(Message(op[1].req))
<1> DEFINE r == op[1].req
           m == Message(r)
<1>1. IsReq(r) /\ OwnBits(r)
  BY HeadReq DEF Shape
<1>2. /\ m.kind = r.kind /\ Command(m) = Command(r) /\ m.what = r.what /\ m.at = r.at
      /\ r.kind # "modify" => m = r
      /\ r.kind = "modify" =>
             m.val = IF r.val.on THEN readval \cup {r.val.bit} ELSE readval \ {r.val.bit}
  BY <1>1, MessageIs DEF Place
<1>3. r.kind = "modify" => readval \subseteq BitsOf(r.at)
  BY DEF NoneForeign, ToModify
<1> HIDE DEF m, r
<1>4. CASE r.kind = "modify"
  <2>1. r.val.bit \in BitsOf(r.at)
    BY <1>1, <1>4 DEF OwnBits
  <2>2. m.val \subseteq BitsOf(r.at)
    BY <1>2, <1>3, <1>4, <2>1
  <2> QED
    BY <1>2, <2>2 DEF OwnWord, m, r
<1>5. CASE r.kind # "modify"
  <2>1. Command(r) = "set" => r.kind = "set"
    BY <1>1, <1>5 DEF IsReq, Command
  <2>2. OwnWord(m)
    BY <1>1, <1>2, <1>5, <2>1 DEF OwnBits, OwnWord
  <2> QED
    BY <2>2 DEF m, r
<1> QED
  BY <1>4, <1>5

LEMMA AppendFrom ==
    ASSUME NEW s, IsSeq(s), NEW x
    PROVE  \A i \in 1 .. Len(Append(s, x)) :
               Append(s, x)[i] = x \/ \E j \in 1 .. Len(s) : Append(s, x)[i] = s[j]
<1> DEFINE t == Append(s, x)
<1>1. /\ Len(t) = Len(s) + 1 /\ \A i \in 1 .. Len(s) : t[i] = s[i]
      /\ t[Len(s) + 1] = x /\ Len(s) \in Nat
  BY AppendIs, SeqFacts
<1> HIDE DEF t
<1>2. \A i \in 1 .. Len(t) : i \in 1 .. Len(s) \/ i = Len(s) + 1
  BY <1>1
<1>3. \A i \in 1 .. Len(t) : t[i] = x \/ \E j \in 1 .. Len(s) : t[i] = s[j]
  BY <1>1, <1>2
<1> QED
  BY <1>3 DEF t

LEMMA TailFrom ==
    ASSUME NEW s, IsSeq(s), s # <<>>
    PROVE  \A i \in 1 .. Len(Tail(s)) : \E j \in 1 .. Len(s) : Tail(s)[i] = s[j]
<1> DEFINE t == Tail(s)
<1>1. /\ Len(t) = Len(s) - 1 /\ Len(s) \in Nat
      /\ \A i \in 1 .. Len(s) - 1 : t[i] = s[i + 1]
  BY TailIs, SeqFacts
<1> HIDE DEF t
<1>2. \A i \in 1 .. Len(t) : i \in 1 .. Len(s) - 1 /\ i + 1 \in 1 .. Len(s)
  BY <1>1
<1>3. \A i \in 1 .. Len(t) : \E j \in 1 .. Len(s) : t[i] = s[j]
  BY <1>1, <1>2
<1> QED
  BY <1>3 DEF t

(* What is stored in a register is its own.                                *)
LEMMA OwnStored ==
    ASSUME NoForeignBits, NEW r, r.what = "SPIDRREG" PROVE Stored(Place(r)) \subseteq BitsOf(r.at)
BY PlaceIs DEF NoForeignBits, Stored, Off

LEMMA ForeignStep == ASSUME Shape, NoneForeign, [Next]_vars PROVE NoneForeign'
<1>0. IsSeq(pending) /\ IsSeq(sock) /\ GoodSteps(op)
  BY DEF Shape
<1>1. CASE Client
  <2>1. op = <<>> /\ NotBegun(op') /\ UNCHANGED <<device, pending, sock, readval>>
    BY <1>1, ClientStep DEF Keeping, Begins
  <2> QED
    BY <2>1 DEF NoneForeign, NoForeignBits, ToModify, NotBegun
<1>2. CASE SendRequest
  <2>1. /\ op # <<>> /\ UNCHANGED <<device, sock, op, readval>>
        /\ pending' = Append(pending, Message(Head(op).req))
    BY <1>2 DEF SendRequest
  <2>2. OwnWord(Message(op[1].req)) /\ Head(op) = op[1]
    BY <1>0, <2>1, OwnMessage, HeadReq
  <2>3. \A i \in 1 .. Len(pending') : OwnWord(pending'[i])
    BY <1>0, <2>1, <2>2, AppendFrom DEF NoneForeign
  <2> QED
    BY <2>1, <2>3 DEF NoneForeign, NoForeignBits, ToModify
<1>3. CASE SendTimeOut
  <2>1. /\ op # <<>> /\ UNCHANGED <<device, sock, readval>> /\ Fail
        /\ pending' = pending \/ pending' = Append(pending, Message(Head(op).req))
    BY <1>3 DEF SendTimeOut
  <2>2. OwnWord(Message(op[1].req)) /\ Head(op) = op[1]
    BY <1>0, <2>1, OwnMessage, HeadReq
  <2>3. \A i \in 1 .. Len(pending') : OwnWord(pending'[i])
    BY <1>0, <2>1, <2>2, AppendFrom DEF NoneForeign
  <2>4. NotBegun(op')
    BY <1>0, <2>1, GiveUp DEF Begins
  <2> QED
    BY <2>1, <2>3, <2>4 DEF NoneForeign, NoForeignBits, ToModify, NotBegun
<1>4. CASE ReplyTimeOut
  <2>1. op # <<>> /\ UNCHANGED <<device, pending, sock, readval>> /\ Fail
    BY <1>4 DEF ReplyTimeOut, wire, Shape
  <2>2. NotBegun(op')
    BY <1>0, <2>1, GiveUp DEF Begins
  <2> QED
    BY <2>1, <2>2 DEF NoneForeign, NoForeignBits, ToModify, NotBegun
<1>5. CASE ReadReply
  <2> DEFINE m == Head(sock)
  <2>1. /\ op # <<>> /\ asked = Message(op[1].req) /\ sock # <<>> /\ sock' = <<>>
        /\ UNCHANGED <<device, pending>>
    BY <1>5 DEF ReadReply, Shape
  <2>2. \A i : i \notin 1 .. Len(sock')
    BY <2>1, EmptyIs
  <2>3. ToModify'
    <3>1. CASE Accepts(m)
      <4>1. /\ op' = ExpectWritten(Tail(op), asked.val)
            /\ readval' = IF m.kind = "get" THEN m.val ELSE readval
        BY <1>5, <3>1 DEF ReadReply
      <4> SUFFICES ASSUME op' # <<>>, op'[1].req.kind = "modify"
                   PROVE  readval' \subseteq BitsOf(op'[1].req.at)
        BY DEF ToModify
      <4>2. GoodSteps(op') /\ ReadBy(op[1].req, op'[1].req)
        BY <1>0, <2>1, <4>1, Advance
      <4>3. 1 \in 1 .. Len(op') /\ OwnBits(op'[1].req)
        <5>1. Len(op') \in Nat /\ Len(op') # 0
          BY <4>2, SeqFacts DEF GoodSteps
        <5>2. 1 \in 1 .. Len(op')
          BY <5>1
        <5> QED
          BY <4>2, <5>2 DEF GoodSteps, IsStep
      <4>4. /\ op[1].req.kind = "get" /\ op[1].req.what = "SPIDRREG"
            /\ op[1].req.at = op'[1].req.at
        BY <4>2, <4>3, PlaceIs DEF ReadBy, OwnBits
      <4>5. asked = op[1].req
        BY <2>1, <4>4 DEF Message
      <4>6. /\ m.kind = "get" /\ m.what = "SPIDRREG" /\ m.at = op[1].req.at
        BY <3>1, <4>4, <4>5 DEF Accepts, Matches, Echoed, Command
      <4>7. OwnReply(m)
        <5>1. m = sock[1] /\ 1 \in 1 .. Len(sock)
          BY <1>0, <2>1, HeadIs, SeqFacts
        <5> QED
          BY <5>1 DEF NoneForeign
      <4> QED
        BY <4>1, <4>4, <4>6, <4>7 DEF OwnReply
    <3>2. CASE ~ Accepts(m)
      <4>1. Fail
        BY <1>5, <3>2 DEF ReadReply
      <4>2. NotBegun(op')
        BY <1>0, <2>1, <4>1, GiveUp DEF Begins
      <4> QED
        BY <4>2 DEF ToModify, NotBegun
    <3> QED
      BY <3>1, <3>2
  <2> QED
    BY <2>1, <2>2, <2>3 DEF NoneForeign, NoForeignBits
<1>6. CASE Answer
  <2> DEFINE r == Head(pending)
             m == Reply(r, "none")
  <2>1. /\ pending # <<>> /\ pending' = Tail(pending) /\ sock' = Append(sock, m)
        /\ device' = IF Command(r) = "set" THEN Written(Place(r), r.val) ELSE device
        /\ UNCHANGED <<op, readval>>
    BY <1>6 DEF Answer, ctrl
  <2>2. OwnWord(r)
    <3>1. r = pending[1] /\ 1 \in 1 .. Len(pending)
      BY <1>0, <2>1, HeadIs, SeqFacts
    <3> QED
      BY <3>1 DEF NoneForeign
  <2>3. OwnReply(m)
    <3>1. /\ m.kind = Command(r) /\ m.what = r.what /\ m.at = r.at
          /\ m.val = IF Command(r) = "get" THEN Stored(Place(r)) ELSE {}
      BY ReplyIs
    <3>2. r.what = "SPIDRREG" => Stored(Place(r)) \subseteq BitsOf(r.at)
      BY OwnStored DEF NoneForeign
    <3> HIDE DEF r, m
    <3> QED
      BY <3>1, <3>2 DEF OwnReply
  <2> HIDE DEF m, r
  <2>4. NoForeignBits'
    <3>1. CASE Command(r) = "set"
      <4>1. device' = Written(Place(r), r.val)
        BY <2>1, <3>1
      <4>2. /\ DOMAIN device' = {Place(r)} \cup DOMAIN device
            /\ \A q : q # Place(r) /\ q \in DOMAIN device => device'[q] = device[q]
            /\ device'[Place(r)] = r.val
        BY <4>1, WriteStores
      <4>3. Place(r)[1] = r.what /\ Place(r)[3] = r.at
        BY PlaceIs
      <4> QED
        BY <2>2, <3>1, <4>2, <4>3 DEF OwnWord, NoneForeign, NoForeignBits
    <3>2. CASE Command(r) # "set"
      BY <2>1, <3>2 DEF NoneForeign, NoForeignBits
    <3> QED
      BY <3>1, <3>2
  <2>5. \A i \in 1 .. Len(sock') : OwnReply(sock'[i])
    BY <1>0, <2>1, <2>3, AppendFrom DEF NoneForeign
  <2>6. \A i \in 1 .. Len(pending') : OwnWord(pending'[i])
    BY <1>0, <2>1, TailFrom DEF NoneForeign
  <2> QED
    BY <2>1, <2>4, <2>5, <2>6 DEF NoneForeign, ToModify
<1>7. CASE Refuse
  <2>1. PICK err \in {"refused", "short"} : sock' = Append(sock, Reply(Head(pending), err))
    BY <1>7 DEF Refuse
  <2>2. pending # <<>> /\ pending' = Tail(pending) /\ UNCHANGED <<device, op, readval>>
    BY <1>7 DEF Refuse, ctrl
  <2> DEFINE m == Reply(Head(pending), err)
  <2>3. OwnReply(m)
    <3>1. m.val = {}
      BY ReplyIs
    <3> HIDE DEF m
    <3> QED
      BY <3>1 DEF OwnReply
  <2> HIDE DEF m
  <2>4. \A i \in 1 .. Len(sock') : OwnReply(sock'[i])
    BY <1>0, <2>1, <2>3, AppendFrom DEF NoneForeign, m
  <2>5. \A i \in 1 .. Len(pending') : OwnWord(pending'[i])
    BY <1>0, <2>2, TailFrom DEF NoneForeign
  <2> QED
    BY <2>2, <2>4, <2>5 DEF NoneForeign, NoForeignBits, ToModify
<1>8. CASE UNCHANGED vars
  <2>1. UNCHANGED <<device, pending, sock, op, readval>>
    BY <1>8 DEF vars, wire, ctrl
  <2> QED
    BY <2>1 DEF NoneForeign, NoForeignBits, ToModify
<1> QED
  BY <1>1, <1>2, <1>3, <1>4, <1>5, <1>6, <1>7, <1>8 DEF Next, Controller, Module

LEMMA InitShape == ASSUME Init PROVE Shape /\ NoneForeign
<1>1. /\ op = <<>> /\ pending = <<>> /\ sock = <<>> /\ asked = Nobody
      /\ timeouts = 0 /\ refusals = 0 /\ device = <<>>
  BY DEF Init, Idle
<1>2. \A i : i \notin 1 .. Len(<<>>)
  BY EmptyIs
<1>3. GoodSteps(<<>>)
  BY NothingBegins DEF Keeping, Begins
<1>4. Shape
  BY <1>1, <1>2, <1>3, EmptyIs DEF Shape
<1>5. DOMAIN device = {}
  <2>1. IsSeq(device) /\ Len(device) = 0
    BY <1>1, EmptyIs
  <2>2. DOMAIN device = 1 .. Len(device)
    BY <2>1, SeqFacts
  <2> QED
    BY <2>1, <2>2
<1>6. NoneForeign
  BY <1>1, <1>2, <1>5 DEF NoneForeign, NoForeignBits, ToModify
<1> QED
  BY <1>4, <1>6

(* The requests, replies and steps in progress have the form the           *)
(* operations give them, and no word on the wire, in the socket or read by *)
(* the controller holds a bit foreign to its register.                     *)
THEOREM ShapeHolds == Spec => [](Shape /\ NoneForeign)
<1>1. Init => Shape /\ NoneForeign
  BY InitShape
<1>2. Shape /\ NoneForeign /\ [Next]_vars => (Shape /\ NoneForeign)'
  BY ShapeStep, ForeignStep
<1> QED
  BY <1>1, <1>2, PTL DEF Spec

(* Whatever times out and whatever is refused, however often, no register  *)
(* ever gets a bit that is not its own.                                    *)
THEOREM RegistersKeepTheirBits == Spec => []NoForeignBits
<1>1. Shape /\ NoneForeign => NoForeignBits
  BY DEF NoneForeign
<1> QED
  BY <1>1, ShapeHolds, PTL

-----------------------------------------------------------------------------
(* Until something has timed out, the request that is awaited is the only  *)
(* one written, then its own reply the only one in the socket; and the     *)
(* word about to be modified is what the register holds.                   *)

Answered(err) ==
    /\ Len(pending) = 0 /\ Len(sock) = 1 /\ sock[1] = Reply(asked, err)
    /\ err = "none" /\ Command(asked) = "set" => Stored(Place(asked)) = asked.val
Written1 == Len(pending) = 1 /\ pending[1] = asked /\ Len(sock) = 0
LockStep ==
    timeouts = 0 =>
        /\ asked = Nobody => Len(pending) = 0 /\ Len(sock) = 0
        /\ asked # Nobody => \/ Written1
                             \/ \E err \in {"none", "refused", "short"} : Answered(err)
        /\ op # <<>> /\ Len(sock) = 0 =>
               (op[1].req.kind = "modify" => readval = Stored(Place(op[1].req)))

LEMMA AskedIs ==
    ASSUME Shape, asked # Nobody
    PROVE  /\ op # <<>> /\ Head(op) = op[1] /\ IsReq(op[1].req) /\ OwnBits(op[1].req)
           /\ asked.kind = op[1].req.kind /\ Place(asked) = Place(op[1].req)
           /\ Command(asked) = Command(op[1].req)
           /\ asked.kind # "modify" => asked = op[1].req
           /\ asked.kind = "modify" =>
                  asked.val = IF op[1].req.val.on THEN readval \cup {op[1].req.val.bit}
                                                  ELSE readval \ {op[1].req.val.bit}
<1>1. op # <<>> /\ asked = Message(op[1].req)
  BY DEF Shape
<1>2. Head(op) = op[1] /\ IsReq(op[1].req) /\ OwnBits(op[1].req)
  BY <1>1, HeadReq DEF Shape
<1> QED
  BY <1>1, <1>2, MessageIs

(* A reply that is accepted, nothing having timed out, is that of the      *)
(* request, which the module has carried out.                              *)
LEMMA AcceptedIs ==
    ASSUME Shape, LockStep, timeouts = 0, asked # Nobody, sock # <<>>
    PROVE  /\ Head(sock) = sock[1] /\ Len(pending) = 0
           /\ Accepts(Head(sock)) => sock[1] = Reply(asked, "none") /\ Answered("none")
<1>1. IsSeq(sock) /\ Len(sock) # 0 /\ Head(sock) = sock[1]
  BY HeadIs, SeqFacts DEF Shape
<1>2. PICK err \in {"none", "refused", "short"} : Answered(err)
  BY <1>1 DEF LockStep, Written1
<1>3. Len(sock) = 1 /\ sock[1] = Reply(asked, err) /\ Len(pending) = 0
  BY <1>2 DEF Answered
<1>4. sock[1].err = err
  BY <1>3, ReplyIs
<1>5. ASSUME Accepts(Head(sock)) PROVE err = "none"
  <2>1. LongEnough /\ sock[1].err \in {"none", "short"}
    BY <1>1, <1>5 DEF Accepts
  <2>2. sock[1].err # "short"
    BY <1>1, <1>3, <2>1 DEF LongEnough
  <2> QED
    BY <1>4, <2>1, <2>2
<1> QED
  BY <1>1, <1>2, <1>3, <1>5

LEMMA ReplyKeeps ==
    ASSUME UNCHANGED <<device, asked>> PROVE \A err : Reply(asked, err)' = Reply(asked, err)
BY DEF Reply, Stored

LEMMA StoredSame ==
    ASSUME UNCHANGED device PROVE \A p : Stored(p)' = Stored(p)
BY DEF Stored

LEMMA LockStepStep == ASSUME Shape, LockStep, [Next]_vars PROVE LockStep'
<1> SUFFICES ASSUME timeouts' = 0
             PROVE  /\ asked' = Nobody => Len(pending') = 0 /\ Len(sock') = 0
                    /\ asked' # Nobody =>
                           \/ Written1'
                           \/ \E err \in {"none", "refused", "short"} : Answered(err)'
                    /\ op' # <<>> /\ Len(sock') = 0 =>
                           (op'[1].req.kind = "modify" =>
                                readval' = Stored(Place(op[1].req))')
  BY DEF LockStep
<1>0. /\ IsSeq(pending) /\ IsSeq(sock) /\ GoodSteps(op) /\ timeouts \in Nat
      /\ Len(pending) \in Nat /\ Len(sock) \in Nat
  BY SeqFacts DEF Shape
<1>1. CASE Client
  <2>1. op = <<>> /\ NotBegun(op') /\ UNCHANGED <<pending, sock, asked, timeouts>>
    BY <1>1, ClientStep DEF Keeping, Begins
  <2>2. asked = Nobody
    BY <2>1 DEF Shape
  <2> QED
    BY <2>1, <2>2 DEF LockStep, NotBegun
<1>2. CASE SendRequest
  <2>1. /\ op # <<>> /\ asked = Nobody
        /\ UNCHANGED <<device, sock, op, readval, timeouts>>
        /\ asked' = Message(Head(op).req)
        /\ pending' = Append(pending, asked')
    BY <1>2 DEF SendRequest
  <2>2. Len(pending) = 0 /\ Len(sock) = 0 /\ timeouts = 0
    BY <2>1 DEF LockStep
  <2>3. /\ Len(pending') = Len(pending) + 1
        /\ pending'[Len(pending) + 1] = asked'
    BY <1>0, <2>1, AppendIs
  <2>4. Written1'
    BY <2>1, <2>2, <2>3 DEF Written1
  <2>5. asked' # Nobody
    <3>1. IsReq(op[1].req) /\ OwnBits(op[1].req) /\ Head(op) = op[1]
      BY <1>0, <2>1, HeadReq
    <3>2. IsReq(Message(op[1].req))
      BY <3>1, MessageIs
    <3> QED
      BY <2>1, <3>1, <3>2, SomebodyIs
  <2>6. op[1].req.kind = "modify" => readval = Stored(Place(op[1].req))
    BY <2>1, <2>2 DEF LockStep
  <2>7. Stored(Place(op[1].req))' = Stored(Place(op[1].req))
    BY <2>1 DEF Stored
  <2> QED
    BY <2>1, <2>4, <2>5, <2>6, <2>7
<1>3. CASE SendTimeOut \/ ReplyTimeOut
  BY <1>0, <1>3 DEF SendTimeOut, ReplyTimeOut
<1>4. CASE ReadReply
  <2>1. /\ asked # Nobody /\ sock # <<>> /\ sock' = <<>> /\ asked' = Nobody
        /\ UNCHANGED <<device, pending, timeouts>>
    BY <1>4 DEF ReadReply
  <2>2. /\ timeouts = 0 /\ Head(sock) = sock[1] /\ Len(pending) = 0
        /\ Accepts(Head(sock)) => sock[1] = Reply(asked, "none")
    BY <2>1, AcceptedIs
  <2>3. Len(pending') = 0 /\ Len(sock') = 0
    BY <2>1, <2>2, EmptyIs
  <2>4. ASSUME op' # <<>>, op'[1].req.kind = "modify"
        PROVE  readval' = Stored(Place(op[1].req))'
    <3>1. CASE Accepts(Head(sock))
      <4>1. /\ op' = ExpectWritten(Tail(op), asked.val) /\ op # <<>>
            /\ readval' = IF sock[1].kind = "get" THEN sock[1].val ELSE readval
        BY <1>4, <2>1, <2>2, <3>1 DEF ReadReply, Shape
      <4>2. ReadBy(op[1].req, op'[1].req)
        BY <1>0, <2>4, <4>1, Advance
      <4>3. /\ Command(asked) = "get" /\ Place(asked) = Place(op'[1].req)
        BY <2>1, <4>2, AskedIs DEF ReadBy, Command
      <4>4. sock[1].kind = "get" /\ sock[1].val = Stored(Place(asked))
        BY <2>2, <3>1, <4>3, ReplyIs
      <4>5. Stored(Place(op[1].req))' = Stored(Place(op'[1].req))
        BY <2>1 DEF Stored, Place
      <4> QED
        BY <4>1, <4>3, <4>4, <4>5
    <3>2. CASE ~ Accepts(Head(sock))
      <4>1. Fail /\ op # <<>>
        BY <1>4, <2>1, <3>2 DEF ReadReply, Shape
      <4>2. NotBegun(op')
        BY <1>0, <4>1, GiveUp DEF Begins
      <4> QED
        BY <2>4, <4>2 DEF NotBegun
    <3> QED
      BY <3>1, <3>2
  <2> QED
    BY <2>1, <2>3, <2>4
<1>5. CASE Module
  <2>1. /\ pending # <<>> /\ pending' = Tail(pending) /\ UNCHANGED <<op, asked, readval, timeouts>>
    BY <1>5 DEF Module, Answer, Refuse, ctrl
  <2>2. Len(pending) # 0 /\ timeouts = 0
    BY <1>0, <2>1, SeqFacts
  <2>3. asked # Nobody /\ Written1
    BY <2>2 DEF LockStep, Answered
  <2>4. Head(pending) = asked /\ Len(pending') = 0 /\ Len(sock) = 0
    BY <1>0, <2>1, <2>3, HeadIs, TailIs DEF Written1
  <2>5. PICK err \in {"none", "refused", "short"} :
            /\ sock' = Append(sock, Reply(asked, err))
            /\ err = "none" =>
                  device' = IF Command(asked) = "set" THEN Written(Place(asked), asked.val)
                                                      ELSE device
            /\ err # "none" => device' = device
    BY <1>5, <2>4 DEF Module, Answer, Refuse
  <2>6. Len(sock') = 1 /\ sock'[1] = Reply(asked, err)
    <3>1. Len(sock') = Len(sock) + 1 /\ sock'[Len(sock) + 1] = Reply(asked, err)
      BY <1>0, <2>5, AppendIs
    <3> QED
      BY <2>4, <3>1
  <2>7. Answered(err)'
    <3>1. CASE err = "none" /\ Command(asked) = "set"
      <4>1. device' = Written(Place(asked), asked.val)
        BY <2>5, <3>1
      <4>2. Stored(Place(asked))' = asked.val
        <5>1. \A q : Stored(q)' = IF q = Place(asked) THEN asked.val ELSE Stored(q)
          BY <4>1, WriteStores
        <5> QED
          BY <2>1, <5>1 DEF Stored, Place
      <4>3. Reply(asked, err)' = Reply(asked, err)
        <5>1. Command(asked) # "get"
          BY <3>1
        <5> QED
          BY <2>1, <5>1 DEF Reply, Command
      <4> QED
        BY <2>1, <2>4, <2>6, <4>2, <4>3 DEF Answered
    <3>2. CASE ~ (err = "none" /\ Command(asked) = "set")
      <4>1. UNCHANGED <<device, asked>>
        BY <2>1, <2>5, <3>2
      <4>2. Reply(asked, err)' = Reply(asked, err)
        BY <4>1 DEF Reply, Stored
      <4>3. Command(asked)' = Command(asked)
        BY <2>1 DEF Command
      <4> QED
        BY <2>4, <2>6, <3>2, <4>2, <4>3 DEF Answered
    <3> QED
      BY <3>1, <3>2
  <2> QED
    BY <2>1, <2>3, <2>6, <2>7
<1>6. CASE UNCHANGED vars
  <2>1. UNCHANGED <<device, pending, sock, op, asked, readval, timeouts>>
    BY <1>6 DEF vars, wire, ctrl
  <2>2. LockStep' <=> LockStep
    BY <2>1 DEF LockStep, Answered, Written1, Reply, Stored, Command, Place
  <2> QED
    BY <2>1, <2>2 DEF LockStep
<1> QED
  BY <1>1, <1>2, <1>3, <1>4, <1>5, <1>6 DEF Next, Controller

LEMMA InitLockStep == ASSUME Init PROVE LockStep
BY EmptyIs DEF Init, Idle, LockStep

(* Until the first time-out, the controller and the module take turns: no  *)
(* reply can be mistaken for that of another request.                      *)
THEOREM LockStepHolds == Spec => [](Shape /\ NoneForeign /\ LockStep)
<1>1. Init => LockStep
  BY InitLockStep
<1>2. Shape /\ LockStep /\ [Next]_vars => LockStep'
  BY LockStepStep
<1> QED
  BY <1>1, <1>2, ShapeHolds, PTL DEF Spec

(* Nothing having timed out, what a get returned is what the module held   *)
(* for the place asked for.                                                *)
THEOREM GetsAreCurrent == Spec => ReadsCurrent
<1>1. ASSUME Shape, LockStep, [Next]_vars, asked # Nobody, asked' = Nobody, ret', op' = <<>>,
             asked.kind = "get", timeouts' = 0
      PROVE  readval' = Stored(Place(asked))
  <2>1. op # <<>> /\ timeouts \in Nat
    BY <1>1 DEF Shape
  <2>2. CASE ReadReply
    <3>1. timeouts = 0 /\ sock # <<>>
      BY <1>1, <2>2 DEF ReadReply
    <3>2. Accepts(Head(sock))
      BY <1>1, <2>2 DEF ReadReply, Fail
    <3>3. sock[1] = Reply(asked, "none") /\ Head(sock) = sock[1]
      BY <1>1, <3>1, <3>2, AcceptedIs
    <3>4. readval' = IF sock[1].kind = "get" THEN sock[1].val ELSE readval
      BY <2>2, <3>2, <3>3 DEF ReadReply
    <3>5. Command(asked) = "get"
      BY <1>1 DEF Command
    <3> QED
      BY <3>3, <3>4, <3>5, ReplyIs
  <2>3. CASE Client
    BY <2>1, <2>3, ClientStep
  <2>4. CASE SendRequest \/ SendTimeOut
    BY <1>1, <2>4 DEF SendRequest, SendTimeOut
  <2>5. CASE ReplyTimeOut
    BY <1>1, <2>1, <2>5 DEF ReplyTimeOut
  <2>6. CASE Module \/ UNCHANGED vars
    BY <1>1, <2>6 DEF Module, Answer, Refuse, vars, ctrl
  <2> QED
    BY <1>1, <2>2, <2>3, <2>4, <2>5, <2>6 DEF Next, Controller
<1>2. Shape /\ LockStep /\ [Next]_vars =>
          [(asked # Nobody /\ asked' = Nobody /\ ret' /\ op' = <<>> /\ asked.kind = "get"
            /\ timeouts' = 0) => readval' = Stored(Place(asked))]_vars
  BY <1>1
<1> QED
  BY <1>2, LockStepHolds, PTL DEF Spec, ReadsCurrent

(* Setting a bit reads the register, changes the bit and writes it back in *)
(* separate requests: whatever is refused in between, the other bits       *)
(* survive, as long as nothing has timed out.                              *)
THEOREM BitWritesAreLocal == Spec => BitWriteIsLocal
<1>1. ASSUME Shape, LockStep, [Next]_vars, asked # Nobody, asked.kind = "modify",
             device' # device, timeouts = 0
      PROVE  Changed(asked) \subseteq {Head(op).req.val.bit}
  <2>1. pending # <<>>
    <3>1. CASE Client
      BY <1>1, <3>1, ClientStep
    <3>2. CASE Controller
      BY <1>1, <3>2 DEF Controller, SendRequest, SendTimeOut, ReplyTimeOut, ReadReply, wire
    <3>3. CASE Module
      BY <3>3 DEF Module, Answer, Refuse
    <3>4. CASE UNCHANGED vars
      BY <1>1, <3>4 DEF vars, wire
    <3> QED
      BY <1>1, <3>1, <3>2, <3>3, <3>4 DEF Next
  <2>2. Len(pending) # 0
    BY <1>1, <2>1, SeqFacts DEF Shape
  <2>3. Written1
    BY <1>1, <2>2 DEF LockStep, Answered
  <2>4. /\ op # <<>> /\ Head(op) = op[1] /\ op[1].req.kind = "modify"
        /\ Place(asked) = Place(op[1].req)
        /\ asked.val = IF op[1].req.val.on THEN readval \cup {op[1].req.val.bit}
                                           ELSE readval \ {op[1].req.val.bit}
    BY <1>1, AskedIs
  <2>5. readval = Stored(Place(asked))
    BY <1>1, <2>3, <2>4 DEF LockStep, Written1
  <2> QED
    BY <2>4, <2>5 DEF Changed
<1>2. Shape /\ LockStep /\ [Next]_vars =>
          [(asked # Nobody /\ asked.kind = "modify" /\ device' # device /\ timeouts = 0)
               => Changed(asked) \subseteq {Head(op).req.val.bit}]_vars
  BY <1>1
<1> QED
  BY <1>2, LockStepHolds, PTL DEF Spec, BitWriteIsLocal

-----------------------------------------------------------------------------
(* The word that a place will hold once the module has handled everything  *)
(* written: the last of the writes to it, or what it holds now.            *)

WritesOf(s, p) == {i \in 1 .. Len(s) : Command(s[i]) = "set" /\ Place(s[i]) = p}
LastOf(T) == CHOOSE i \in T : \A j \in T : j <= i
Holds(s, d, p) == IF WritesOf(s, p) = {} THEN d ELSE s[LastOf(WritesOf(s, p))].val

LEMMA LastIs ==
    ASSUME NEW T \in SUBSET Nat, NEW i \in T, \A j \in T : j <= i PROVE LastOf(T) = i
<1>1. LastOf(T) \in T /\ \A j \in T : j <= LastOf(T)
  BY DEF LastOf
<1>2. LastOf(T) <= i /\ i <= LastOf(T) /\ LastOf(T) \in Nat /\ i \in Nat
  BY <1>1
<1> QED
  BY <1>2

LEMMA HoldsAppend ==
    ASSUME NEW s, IsSeq(s), NEW m, NEW d, NEW p
    PROVE  Holds(Append(s, m), d, p) =
               IF Command(m) = "set" /\ Place(m) = p THEN m.val ELSE Holds(s, d, p)
<1> DEFINE t == Append(s, m)
           n == Len(s) + 1
<1>1. /\ Len(t) = n /\ \A i \in 1 .. Len(s) : t[i] = s[i]
      /\ t[n] = m /\ Len(s) \in Nat
  BY AppendIs, SeqFacts
<1> HIDE DEF t
<1>2. WritesOf(s, p) \in SUBSET (1 .. Len(s)) /\ WritesOf(t, p) \in SUBSET Nat
  BY <1>1 DEF WritesOf
<1>3. CASE Command(m) = "set" /\ Place(m) = p
  <2>1. n \in WritesOf(t, p) /\ \A j \in WritesOf(t, p) : j <= n
    BY <1>1, <1>3 DEF WritesOf
  <2>2. LastOf(WritesOf(t, p)) = n
    BY <1>2, <2>1, LastIs
  <2>3. Holds(t, d, p) = m.val
    BY <1>1, <2>1, <2>2 DEF Holds
  <2> QED
    BY <1>3, <2>3 DEF t
<1>4. CASE ~ (Command(m) = "set" /\ Place(m) = p)
  <2>1. WritesOf(t, p) = WritesOf(s, p)
    <3>1. \A i \in 1 .. Len(t) : i \in 1 .. Len(s) \/ i = n
      BY <1>1
    <3>2. \A i \in 1 .. Len(s) : i \in 1 .. Len(t)
      BY <1>1
    <3> QED
      BY <1>1, <1>4, <3>1, <3>2 DEF WritesOf
  <2>2. CASE WritesOf(s, p) = {}
    <3>1. Holds(t, d, p) = d /\ Holds(s, d, p) = d
      BY <2>1, <2>2 DEF Holds
    <3> QED
      BY <1>4, <3>1 DEF t
  <2>3. CASE WritesOf(s, p) # {}
    <3>1. PICK i \in WritesOf(s, p) : \A j \in WritesOf(s, p) : j <= i
      BY <1>1, <1>2, <2>3, LastExists
    <3>2. LastOf(WritesOf(s, p)) = i /\ i \in 1 .. Len(s)
      <4>1. WritesOf(s, p) \in SUBSET Nat
        BY <1>2, <2>1
      <4> QED
        BY <1>2, <3>1, <4>1, LastIs
    <3>3. Holds(t, d, p) = s[i].val /\ Holds(s, d, p) = s[i].val
      BY <1>1, <2>1, <2>3, <3>2 DEF Holds
    <3> QED
      BY <1>4, <3>3 DEF t
  <2> QED
    BY <2>2, <2>3
<1> QED
  BY <1>3, <1>4

LEMMA HoldsTail ==
    ASSUME NEW s, IsSeq(s), s # <<>>, NEW d, NEW p
    PROVE  Holds(s, d, p) =
               Holds(Tail(s), IF Command(s[1]) = "set" /\ Place(s[1]) = p THEN s[1].val ELSE d, p)
<1> DEFINE t == Tail(s)
           e == IF Command(s[1]) = "set" /\ Place(s[1]) = p THEN s[1].val ELSE d
<1>1. /\ Len(t) = Len(s) - 1 /\ Len(s) \in Nat /\ Len(s) >= 1
      /\ \A i \in 1 .. Len(s) - 1 : t[i] = s[i + 1]
  BY TailIs, HeadIs, SeqFacts
<1> HIDE DEF t
<1>2. /\ WritesOf(t, p) \in SUBSET (1 .. Len(t)) /\ WritesOf(t, p) \in SUBSET Nat
      /\ WritesOf(s, p) \in SUBSET Nat /\ Len(t) \in Nat
  BY <1>1 DEF WritesOf
<1>3. \A i \in WritesOf(t, p) : i + 1 \in WritesOf(s, p) /\ s[i + 1] = t[i]
  BY <1>1 DEF WritesOf
<1>4. ASSUME NEW i \in WritesOf(s, p), i # 1 PROVE i - 1 \in WritesOf(t, p)
  <2>1. i \in 1 .. Len(s)
    BY DEF WritesOf
  <2>2. i - 1 \in 1 .. Len(t) /\ t[i - 1] = s[i]
    <3>1. i - 1 \in 1 .. Len(s) - 1 /\ (i - 1) + 1 = i
      BY <1>1, <1>4, <2>1
    <3> QED
      BY <1>1, <3>1
  <2> QED
    BY <2>2 DEF WritesOf
<1>5. 1 \in WritesOf(s, p) <=> Command(s[1]) = "set" /\ Place(s[1]) = p
  BY <1>1 DEF WritesOf
<1>6. CASE WritesOf(t, p) = {}
  <2>1. \A i \in WritesOf(s, p) : i = 1
    BY <1>4, <1>6
  <2>2. CASE 1 \in WritesOf(s, p)
    <3>1. LastOf(WritesOf(s, p)) = 1
      <4>1. \A j \in WritesOf(s, p) : j <= 1
        BY <2>1
      <4> QED
        BY <1>2, <2>2, <4>1, LastIs
    <3>2. Holds(s, d, p) = s[1].val /\ Holds(t, e, p) = e /\ e = s[1].val
      BY <1>5, <1>6, <2>2, <3>1 DEF Holds
    <3> QED
      BY <3>2 DEF t
  <2>3. CASE 1 \notin WritesOf(s, p)
    <3>1. WritesOf(s, p) = {}
      BY <2>1, <2>3
    <3>2. Holds(s, d, p) = d /\ Holds(t, e, p) = e /\ e = d
      BY <1>5, <1>6, <2>3, <3>1 DEF Holds
    <3> QED
      BY <3>2 DEF t
  <2> QED
    BY <2>2, <2>3
<1>7. CASE WritesOf(t, p) # {}
  <2>1. PICK i \in WritesOf(t, p) : \A j \in WritesOf(t, p) : j <= i
    BY <1>2, <1>7, LastExists
  <2>2. LastOf(WritesOf(t, p)) = i /\ i \in Nat /\ i >= 1
    BY <1>2, <2>1, LastIs
  <2>3. i + 1 \in WritesOf(s, p) /\ s[i + 1] = t[i]
    BY <1>3, <2>1
  <2>4. ASSUME NEW j \in WritesOf(s, p) PROVE j <= i + 1
    <3>1. CASE j = 1
      BY <2>2, <3>1
    <3>2. CASE j # 1
      <4>1. j - 1 <= i /\ j \in Nat
        BY <1>2, <1>4, <2>1, <3>2
      <4> QED
        BY <2>2, <4>1
    <3> QED
      BY <3>1, <3>2
  <2>5. LastOf(WritesOf(s, p)) = i + 1
    BY <1>2, <2>3, <2>4, LastIs
  <2>6. Holds(s, d, p) = s[i + 1].val /\ Holds(t, e, p) = t[i].val
    BY <1>7, <2>2, <2>3, <2>5 DEF Holds
  <2> QED
    BY <2>3, <2>6 DEF t
<1> QED
  BY <1>6, <1>7

LEMMA WillHoldIs ==
    ASSUME NEW p, IsSeq(pending)
    PROVE  WillHold(p) = Holds(pending, Stored(p), p)
<1>1. DOMAIN pending = 1 .. Len(pending)
  BY SeqFacts
<1> QED
  BY <1>1 DEF WillHold, Holds, WritesOf, LastOf

LEMMA WillHoldNext ==
    ASSUME NEW p, IsSeq(pending')
    PROVE  WillHold(p)' = Holds(pending', Stored(p)', p)
<1>1. DOMAIN pending' = 1 .. Len(pending')
  BY SeqFacts
<1> QED
  BY <1>1 DEF WillHold, Holds, WritesOf, LastOf

(* A write is kept in mind from the moment it is sent; handling it changes nothing. *)
LEMMA SendHolds ==
    ASSUME IsSeq(pending), NEW m, pending' = Append(pending, m), UNCHANGED device, NEW p
    PROVE  WillHold(p)' = IF Command(m) = "set" /\ Place(m) = p THEN m.val ELSE WillHold(p)
<1>1. IsSeq(pending') /\ Stored(p)' = Stored(p)
  BY AppendIs DEF Stored
<1>2. WillHold(p)' = Holds(Append(pending, m), Stored(p), p)
  BY <1>1, WillHoldNext
<1>3. WillHold(p) = Holds(pending, Stored(p), p)
  BY WillHoldIs
<1> QED
  BY <1>2, <1>3, HoldsAppend

LEMMA AnswerHolds ==
    ASSUME IsSeq(pending), Answer, NEW p PROVE WillHold(p)' = WillHold(p)
<1> DEFINE r == pending[1]
<1>1. /\ pending # <<>> /\ pending' = Tail(pending) /\ Head(pending) = r
      /\ device' = IF Command(r) = "set" THEN Written(Place(r), r.val) ELSE device
  BY HeadIs DEF Answer
<1>2. IsSeq(pending')
  BY <1>1, TailIs
<1>3. Stored(p)' = IF Command(r) = "set" /\ Place(r) = p THEN r.val ELSE Stored(p)
  <2>1. CASE Command(r) = "set"
    <3>1. device' = Written(Place(r), r.val)
      BY <1>1, <2>1
    <3>2. Stored(p)' = IF p = Place(r) THEN r.val ELSE Stored(p)
      BY <3>1, WriteStores
    <3> QED
      BY <2>1, <3>2
  <2>2. CASE Command(r) # "set"
    BY <1>1, <2>2 DEF Stored
  <2> QED
    BY <2>1, <2>2
<1>4. WillHold(p)' = Holds(Tail(pending), Stored(p)', p)
  BY <1>1, <1>2, WillHoldNext
<1>5. WillHold(p) = Holds(pending, Stored(p), p)
  BY WillHoldIs
<1> HIDE DEF r
<1> DEFINE d == Stored(p)
           e == Stored(p)'
<1>6. e = IF Command(pending[1]) = "set" /\ Place(pending[1]) = p THEN pending[1].val ELSE d
  BY <1>3 DEF r
<1> HIDE DEF d, e
<1>7. Holds(pending, d, p) = Holds(Tail(pending), e, p)
  BY <1>1, <1>6, HoldsTail
<1> QED
  BY <1>4, <1>5, <1>7 DEF d, e

-----------------------------------------------------------------------------
(* As long as the operation goes on, or has succeeded, each promise is     *)
(* fulfilled by what is stored or by a request still to be made, and no    *)
(* request to be made spoils it.  Without time-outs "stored" is what the   *)
(* module holds; without refusals, what it will hold.                      *)

Sat(f, w) == IF "val" \in DOMAIN f THEN w = f.val ELSE (f.bit \in w) = f.on
Due(f, w) == IsFact(f) /\ Keeps(op, f) /\ (Fulfils(op, f) \/ Sat(f, w))
Live == op # <<>> \/ ret
KeptStored == timeouts = 0 /\ Live => \A f \in promise : Due(f, Stored(f.place))
KeptInLine == refusals = 0 /\ Live => \A f \in promise : Due(f, WillHold(f.place))
SentInLine ==
    \A p : refusals = 0 /\ asked # Nobody /\ Command(asked) = "set" /\ p = Place(asked) =>
        WillHold(p) = asked.val
Promised == KeptStored /\ KeptInLine /\ SentInLine

(* What a serving request writes satisfies the promise.                    *)
LEMMA ServedIs ==
    ASSUME Shape, op # <<>>, NEW f, Does(<<op[1].req, op[1].tested>>, f)
    PROVE  /\ Sat(f, Message(op[1].req).val) /\ Command(op[1].req) = "set"
           /\ Place(op[1].req) = f.place
<1> DEFINE r == op[1].req
           m == Message(r)
<1>1. Serves(r, f)
  BY DEF Does
<1>2. IsReq(r) /\ OwnBits(r)
  BY HeadReq DEF Shape
<1>3. /\ r.kind # "modify" => m = r
      /\ r.kind = "modify" =>
             m.val = IF r.val.on THEN readval \cup {r.val.bit} ELSE readval \ {r.val.bit}
  BY <1>2, MessageIs
<1> HIDE DEF r, m
<1>4. Place(r) = f.place
  BY <1>1 DEF Serves
<1>5. CASE f = Whole(f.place, f.val) /\ r.kind = "set" /\ r.val = f.val
  <2>1. "val" \in DOMAIN f
    BY <1>5 DEF Whole
  <2>2. Sat(f, m.val) /\ Command(r) = "set"
    BY <1>3, <1>5, <2>1 DEF Sat, Command
  <2> QED
    BY <1>4, <2>2 DEF r, m
<1>6. CASE /\ f = OneBit(f.place, f.bit, f.on) /\ r.kind = "modify"
           /\ r.val = [bit |-> f.bit, on |-> f.on]
  <2>1. "val" \notin DOMAIN f
    BY <1>6 DEF OneBit
  <2>2. r.val.bit = f.bit /\ r.val.on = f.on /\ f.on \in BOOLEAN
    BY <1>2, <1>6 DEF OwnBits
  <2>3. m.val = IF f.on THEN readval \cup {f.bit} ELSE readval \ {f.bit}
    BY <1>3, <1>6, <2>2
  <2>4. (f.bit \in m.val) = f.on
    <3>1. CASE f.on = TRUE
      BY <2>3, <3>1
    <3>2. CASE f.on = FALSE
      <4>1. m.val = readval \ {f.bit}
        BY <2>3, <3>2, Zenon
      <4>2. (f.bit \in m.val) = FALSE
        BY <4>1
      <4> QED
        BY <3>2, <4>2
    <3> QED
      BY <2>2, <3>1, <3>2
  <2>5. Sat(f, m.val) /\ Command(r) = "set"
    BY <1>6, <2>1, <2>4 DEF Sat, Command
  <2> QED
    BY <1>4, <2>5 DEF r, m
<1> QED
  BY <1>1, <1>5, <1>6 DEF Serves

(* A write to the place of a promise that is kept satisfies it.            *)
LEMMA WriteSatisfies ==
    ASSUME Shape, op # <<>>, NEW f, Keeps(op, f),
           Command(op[1].req) = "set", Place(op[1].req) = f.place
    PROVE  Sat(f, Message(op[1].req).val)
<1> DEFINE y == <<op[1].req, op[1].tested>>
<1>1. 1 \in 1 .. Len(op)
  BY HeadReq DEF Shape
<1>2. y \in Reqs(op)
  BY <1>1 DEF Reqs
<1>3. y[1] = op[1].req
  OBVIOUS
<1>4. Does(y, f)
  BY <1>2, <1>3 DEF Keeps
<1> QED
  BY <1>4, ServedIs

(* Sending the request at the head keeps what the place will hold as due.  *)
LEMMA SendKeeps ==
    ASSUME Shape, op # <<>>, NEW f, Keeps(op, f), UNCHANGED device,
           pending' = pending \/ pending' = Append(pending, Message(op[1].req)),
           Sat(f, WillHold(f.place))
    PROVE  Sat(f, WillHold(f.place)')
<1> DEFINE m == Message(op[1].req)
<1>1. CASE pending' = pending
  BY <1>1 DEF WillHold, Stored
<1>2. CASE pending' = Append(pending, m)
  <2>1. WillHold(f.place)' =
            IF Command(m) = "set" /\ Place(m) = f.place THEN m.val ELSE WillHold(f.place)
    BY <1>2, SendHolds DEF Shape
  <2>2. Command(m) = Command(op[1].req) /\ Place(m) = Place(op[1].req)
    BY HeadReq, MessageIs DEF Shape
  <2>3. Command(m) = "set" /\ Place(m) = f.place => Sat(f, m.val)
    BY <2>2, WriteSatisfies
  <2> HIDE DEF m
  <2> QED
    BY <2>1, <2>3
<1> QED
  BY <1>1, <1>2

LEMMA GiveUpDue ==
    ASSUME Shape, op # <<>>, Fail, op' # <<>>, NEW f, NEW w, Due(f, w)
    PROVE  IsFact(f) /\ Keeps(op', f) /\ (Fulfils(op', f) \/ Sat(f, w))
BY GiveUp DEF Due, Shape

LEMMA AdvanceDue ==
    ASSUME Shape, op # <<>>, op' = ExpectWritten(Tail(op), asked.val), NEW f, NEW w, Due(f, w),
           Command(op[1].req) = "set" /\ Place(op[1].req) = f.place =>
               w = Message(op[1].req).val
    PROVE  IsFact(f) /\ Keeps(op', f) /\ (Fulfils(op', f) \/ Sat(f, w))
<1>1. /\ Keeps(op', f)
      /\ Fulfils(op, f) => Fulfils(op', f) \/ Does(<<op[1].req, op[1].tested>>, f)
  BY Advance DEF Shape, Due
<1>2. Does(<<op[1].req, op[1].tested>>, f) => Sat(f, w)
  BY ServedIs
<1> QED
  BY <1>1, <1>2 DEF Due

LEMMA PromisedStep == ASSUME Shape, LockStep, Promised, [Next]_vars PROVE Promised'
<1>0. /\ IsSeq(pending) /\ IsSeq(sock) /\ GoodSteps(op) /\ timeouts \in Nat /\ refusals \in Nat
  BY DEF Shape
<1>1. CASE Client
  <2>1. /\ op = <<>> /\ Keeping(op', promise') /\ (ret' => promise' = {})
        /\ UNCHANGED <<device, pending, asked>>
    BY <1>1, ClientStep
  <2>2. asked = Nobody
    BY <2>1 DEF Shape
  <2>3. \A f \in promise' : IsFact(f) /\ Keeps(op', f) /\ Fulfils(op', f)
    BY <2>1 DEF Keeping, Delivers
  <2> QED
    BY <2>1, <2>2, <2>3 DEF Promised, KeptStored, KeptInLine, SentInLine, Due
<1>2. CASE SendRequest
  <2>1. /\ op # <<>> /\ UNCHANGED <<device, op, ret, promise, timeouts, refusals>>
        /\ asked' = Message(op[1].req) /\ pending' = Append(pending, Message(op[1].req))
    BY <1>0, <1>2, HeadReq DEF SendRequest
  <2>2. KeptStored'
    <3>1. \A p : Stored(p)' = Stored(p)
      BY <2>1, StoredSame
    <3> QED
      BY <2>1, <3>1 DEF Promised, KeptStored, Live, Due, Stored
  <2>3. KeptInLine'
    <3> SUFFICES ASSUME refusals' = 0, NEW f \in promise'
                 PROVE  IsFact(f) /\ Keeps(op', f)
                        /\ (Fulfils(op', f) \/ Sat(f, WillHold(f.place)'))
      BY DEF KeptInLine, Due
    <3>1. Due(f, WillHold(f.place))
      BY <2>1 DEF Promised, KeptInLine, Live
    <3>2. Keeps(op, f) /\ (Sat(f, WillHold(f.place)) => Sat(f, WillHold(f.place)'))
      BY <2>1, <3>1, SendKeeps DEF Due
    <3> QED
      BY <2>1, <3>1, <3>2 DEF Due
  <2>4. SentInLine'
    <3> DEFINE m == Message(op[1].req)
    <3>1. \A p : WillHold(p)' = IF Command(m) = "set" /\ Place(m) = p THEN m.val ELSE WillHold(p)
      BY <1>0, <2>1, SendHolds
    <3>2. asked' = m
      BY <2>1
    <3> HIDE DEF m
    <3> SUFFICES ASSUME NEW p, Command(m) = "set", p = Place(m)
                 PROVE  WillHold(p)' = m.val
      BY <3>2 DEF SentInLine, Command, Place
    <3> QED
      BY <3>1
  <2> QED
    BY <2>2, <2>3, <2>4 DEF Promised
<1>3. CASE SendTimeOut
  <2>1. /\ op # <<>> /\ Fail /\ UNCHANGED <<device, asked, promise, refusals>>
        /\ asked = Nobody /\ timeouts' = timeouts + 1
        /\ pending' = pending \/ pending' = Append(pending, Message(op[1].req))
    BY <1>0, <1>3, HeadReq DEF SendTimeOut
  <2>2. KeptInLine'
    <3> SUFFICES ASSUME refusals' = 0, op' # <<>>, NEW f \in promise'
                 PROVE  IsFact(f) /\ Keeps(op', f)
                        /\ (Fulfils(op', f) \/ Sat(f, WillHold(f.place)'))
      BY <2>1 DEF KeptInLine, Due, Live, Fail
    <3>1. Due(f, WillHold(f.place))
      BY <2>1 DEF Promised, KeptInLine, Live
    <3>2. Keeps(op, f) /\ (Sat(f, WillHold(f.place)) => Sat(f, WillHold(f.place)'))
      BY <2>1, <3>1, SendKeeps DEF Due
    <3>3. IsFact(f) /\ Keeps(op', f) /\ (Fulfils(op', f) \/ Sat(f, WillHold(f.place)))
      BY <2>1, <3>1, GiveUpDue
    <3> QED
      BY <3>2, <3>3
  <2> QED
    BY <1>0, <2>1, <2>2 DEF Promised, KeptStored, SentInLine
<1>4. CASE ReplyTimeOut
  <2>1. /\ op # <<>> /\ Fail /\ UNCHANGED <<device, pending, promise, refusals>>
        /\ asked' = Nobody /\ timeouts' = timeouts + 1
    BY <1>4 DEF ReplyTimeOut, Shape, wire
  <2>2. KeptInLine'
    <3> SUFFICES ASSUME refusals' = 0, op' # <<>>, NEW f \in promise'
                 PROVE  IsFact(f) /\ Keeps(op', f)
                        /\ (Fulfils(op', f) \/ Sat(f, WillHold(f.place)'))
      BY <2>1 DEF KeptInLine, Due, Live, Fail
    <3>1. Due(f, WillHold(f.place)) /\ WillHold(f.place)' = WillHold(f.place)
      BY <2>1 DEF Promised, KeptInLine, Live, WillHold, Stored
    <3> QED
      BY <2>1, <3>1, GiveUpDue
  <2> QED
    BY <1>0, <2>1, <2>2 DEF Promised, KeptStored, SentInLine
<1>5. CASE ReadReply
  <2>1. /\ asked # Nobody /\ sock # <<>> /\ asked' = Nobody /\ op # <<>>
        /\ UNCHANGED <<device, pending, promise, timeouts, refusals>>
        /\ asked = Message(op[1].req) /\ Command(asked) = Command(op[1].req)
        /\ Place(asked) = Place(op[1].req)
    BY <1>5, AskedIs DEF ReadReply, Shape
  <2>2. \A p : WillHold(p)' = WillHold(p) /\ Stored(p)' = Stored(p)
    BY <2>1 DEF WillHold, Stored
  <2>3. CASE Accepts(Head(sock))
    <3>1. op' = ExpectWritten(Tail(op), asked.val)
      BY <1>5, <2>3 DEF ReadReply
    <3>2. KeptStored'
      <4> SUFFICES ASSUME timeouts' = 0, NEW f \in promise'
                   PROVE  IsFact(f) /\ Keeps(op', f)
                          /\ (Fulfils(op', f) \/ Sat(f, Stored(f.place)'))
        BY DEF KeptStored, Due
      <4>1. Due(f, Stored(f.place)) /\ timeouts = 0
        BY <2>1 DEF Promised, KeptStored, Live
      <4>2. Answered("none")
        BY <2>1, <2>3, <4>1, AcceptedIs
      <4>3. Command(op[1].req) = "set" /\ Place(op[1].req) = f.place =>
                Stored(f.place) = Message(op[1].req).val
        BY <2>1, <4>2 DEF Answered
      <4>4. IsFact(f) /\ Keeps(op', f) /\ (Fulfils(op', f) \/ Sat(f, Stored(f.place)))
        BY <2>1, <3>1, <4>1, <4>3, AdvanceDue
      <4> QED
        BY <2>2, <4>4
    <3>3. KeptInLine'
      <4> SUFFICES ASSUME refusals' = 0, NEW f \in promise'
                   PROVE  IsFact(f) /\ Keeps(op', f)
                          /\ (Fulfils(op', f) \/ Sat(f, WillHold(f.place)'))
        BY DEF KeptInLine, Due
      <4>1. Due(f, WillHold(f.place)) /\ refusals = 0
        BY <2>1 DEF Promised, KeptInLine, Live
      <4>2. Command(op[1].req) = "set" /\ Place(op[1].req) = f.place =>
                WillHold(f.place) = Message(op[1].req).val
        BY <2>1, <4>1 DEF Promised, SentInLine
      <4>3. IsFact(f) /\ Keeps(op', f) /\ (Fulfils(op', f) \/ Sat(f, WillHold(f.place)))
        BY <2>1, <3>1, <4>1, <4>2, AdvanceDue
      <4> QED
        BY <2>2, <4>3
    <3> QED
      BY <2>1, <3>2, <3>3 DEF Promised, SentInLine
  <2>4. CASE ~ Accepts(Head(sock))
    <3>1. Fail
      BY <1>5, <2>4 DEF ReadReply
    <3>2. KeptStored'
      <4> SUFFICES ASSUME timeouts' = 0, op' # <<>>, NEW f \in promise'
                   PROVE  IsFact(f) /\ Keeps(op', f)
                          /\ (Fulfils(op', f) \/ Sat(f, Stored(f.place)'))
        BY <3>1 DEF KeptStored, Due, Live, Fail
      <4>1. Due(f, Stored(f.place))
        BY <2>1 DEF Promised, KeptStored, Live
      <4>2. IsFact(f) /\ Keeps(op', f) /\ (Fulfils(op', f) \/ Sat(f, Stored(f.place)))
        BY <2>1, <3>1, <4>1, GiveUpDue
      <4> QED
        BY <2>2, <4>2
    <3>3. KeptInLine'
      <4> SUFFICES ASSUME refusals' = 0, op' # <<>>, NEW f \in promise'
                   PROVE  IsFact(f) /\ Keeps(op', f)
                          /\ (Fulfils(op', f) \/ Sat(f, WillHold(f.place)'))
        BY <3>1 DEF KeptInLine, Due, Live, Fail
      <4>1. Due(f, WillHold(f.place))
        BY <2>1 DEF Promised, KeptInLine, Live
      <4>2. IsFact(f) /\ Keeps(op', f) /\ (Fulfils(op', f) \/ Sat(f, WillHold(f.place)))
        BY <2>1, <3>1, <4>1, GiveUpDue
      <4> QED
        BY <2>2, <4>2
    <3> QED
      BY <2>1, <3>2, <3>3 DEF Promised, SentInLine
  <2> QED
    BY <2>3, <2>4
<1>6. CASE Answer
  <2>1. /\ pending # <<>> /\ pending' = Tail(pending)
        /\ UNCHANGED <<op, asked, ret, promise, timeouts, refusals>>
        /\ device' = IF Command(Head(pending)) = "set"
                     THEN Written(Place(Head(pending)), Head(pending).val) ELSE device
    BY <1>6 DEF Answer, ctrl
  <2>2. \A p : WillHold(p)' = WillHold(p)
    BY <1>0, <1>6, AnswerHolds
  <2>3. KeptInLine'
    <3> SUFFICES ASSUME refusals' = 0, Live', NEW f \in promise'
                 PROVE  IsFact(f) /\ Keeps(op', f)
                        /\ (Fulfils(op', f) \/ Sat(f, WillHold(f.place)'))
      BY DEF KeptInLine, Due
    <3>1. Due(f, WillHold(f.place))
      BY <2>1 DEF Promised, KeptInLine, Live
    <3> QED
      BY <2>1, <2>2, <3>1 DEF Due
  <2>4. SentInLine'
    <3> SUFFICES ASSUME NEW p, refusals = 0, asked # Nobody, Command(asked) = "set",
                        p = Place(asked)
                 PROVE  WillHold(p)' = asked.val
      BY <2>1 DEF SentInLine, Command, Place
    <3>1. WillHold(p) = asked.val
      BY DEF Promised, SentInLine
    <3> QED
      BY <2>2, <3>1
  <2>5. KeptStored'
    <3> SUFFICES ASSUME timeouts' = 0, Live', NEW f \in promise'
                 PROVE  IsFact(f) /\ Keeps(op', f)
                        /\ (Fulfils(op', f) \/ Sat(f, Stored(f.place)'))
      BY DEF KeptStored, Due
    <3>1. Due(f, Stored(f.place)) /\ timeouts = 0
      BY <2>1 DEF Promised, KeptStored, Live
    <3>2. Len(pending) # 0
      BY <1>0, <2>1, SeqFacts
    <3>3. asked # Nobody /\ Written1
      BY <3>1, <3>2 DEF LockStep, Answered
    <3>4. Head(pending) = asked
      BY <1>0, <2>1, <3>3, HeadIs DEF Written1
    <3>5. /\ asked = Message(op[1].req) /\ op # <<>> /\ Command(asked) = Command(op[1].req)
          /\ Place(asked) = Place(op[1].req)
      BY <3>3, AskedIs DEF Shape
    <3>6. Sat(f, Stored(f.place)) => Sat(f, Stored(f.place)')
      <4>1. CASE Command(asked) = "set"
        <5>1. device' = Written(Place(asked), asked.val)
          BY <2>1, <3>4, <4>1
        <5>2. Stored(f.place)' = IF f.place = Place(asked) THEN asked.val ELSE Stored(f.place)
          BY <5>1, WriteStores
        <5>3. f.place = Place(asked) => Sat(f, asked.val)
          BY <3>1, <3>5, <4>1, WriteSatisfies DEF Due
        <5> QED
          BY <5>2, <5>3
      <4>2. CASE Command(asked) # "set"
        BY <2>1, <3>4, <4>2 DEF Stored
      <4> QED
        BY <4>1, <4>2
    <3> QED
      BY <2>1, <3>1, <3>6 DEF Due
  <2> QED
    BY <2>3, <2>4, <2>5 DEF Promised
<1>7. CASE Refuse
  <2>1. /\ refusals' = refusals + 1 /\ UNCHANGED <<device, op, asked, ret, promise, timeouts>>
    BY <1>7 DEF Refuse, ctrl
  <2>2. KeptStored'
    <3> SUFFICES ASSUME timeouts' = 0, Live', NEW f \in promise'
                 PROVE  IsFact(f) /\ Keeps(op', f)
                        /\ (Fulfils(op', f) \/ Sat(f, Stored(f.place)'))
      BY DEF KeptStored, Due
    <3>1. Due(f, Stored(f.place)) /\ Stored(f.place)' = Stored(f.place)
      BY <2>1 DEF Promised, KeptStored, Live, Stored
    <3> QED
      BY <2>1, <3>1 DEF Due
  <2> QED
    BY <1>0, <2>1, <2>2 DEF Promised, KeptInLine, SentInLine
<1>8. CASE UNCHANGED vars
  <2>1. UNCHANGED <<device, pending, op, asked, ret, promise, timeouts, refusals>>
    BY <1>8 DEF vars, wire, ctrl
  <2>2. \A p : WillHold(p)' = WillHold(p) /\ Stored(p)' = Stored(p)
    BY <2>1 DEF WillHold, Stored
  <2>3. KeptStored'
    <3> SUFFICES ASSUME timeouts' = 0, Live', NEW f \in promise'
                 PROVE  IsFact(f) /\ Keeps(op', f)
                        /\ (Fulfils(op', f) \/ Sat(f, Stored(f.place)'))
      BY DEF KeptStored, Due
    <3>1. Due(f, Stored(f.place))
      BY <2>1 DEF Promised, KeptStored, Live
    <3> QED
      BY <2>1, <2>2, <3>1 DEF Due
  <2>4. KeptInLine'
    <3> SUFFICES ASSUME refusals' = 0, Live', NEW f \in promise'
                 PROVE  IsFact(f) /\ Keeps(op', f)
                        /\ (Fulfils(op', f) \/ Sat(f, WillHold(f.place)'))
      BY DEF KeptInLine, Due
    <3>1. Due(f, WillHold(f.place))
      BY <2>1 DEF Promised, KeptInLine, Live
    <3> QED
      BY <2>1, <2>2, <3>1 DEF Due
  <2>5. SentInLine'
    <3> SUFFICES ASSUME NEW p, refusals = 0, asked # Nobody, Command(asked) = "set",
                        p = Place(asked)
                 PROVE  WillHold(p)' = asked.val
      BY <2>1 DEF SentInLine, Command, Place
    <3>1. WillHold(p) = asked.val
      BY DEF Promised, SentInLine
    <3> QED
      BY <2>2, <3>1
  <2> QED
    BY <2>3, <2>4, <2>5 DEF Promised
<1> QED
  BY <1>1, <1>2, <1>3, <1>4, <1>5, <1>6, <1>7, <1>8 DEF Next, Controller, Module

LEMMA InitPromised == ASSUME Init PROVE Promised
BY DEF Init, Idle, Promised, KeptStored, KeptInLine, SentInLine

(* An operation that returned TRUE has done what it promises, if either    *)
(* nothing has timed out or nothing was refused so far: the module holds   *)
(* every value, or has it next in line, the rows of an upload included.    *)
THEOREM SuccessesAreReal == Spec => []SuccessIsReal
<1>1. Init => Promised
  BY InitPromised
<1>2. Shape /\ LockStep /\ Promised /\ [Next]_vars => Promised'
  BY PromisedStep
<1>3. ASSUME Shape, LockStep, Promised PROVE SuccessIsReal
  <2> SUFFICES ASSUME op = <<>>, ret, timeouts = 0 \/ refusals = 0, NEW f \in promise
               PROVE  Kept(f)
    BY DEF SuccessIsReal
  <2>1. ASSUME NEW w, Due(f, w) PROVE Sat(f, w)
    <3>1. Reqs(op) = {}
      BY EmptyIs DEF Reqs
    <3> QED
      BY <2>1, <3>1 DEF Due, Fulfils
  <2>2. CASE refusals = 0
    <3>1. Sat(f, WillHold(f.place))
      BY <1>3, <2>1, <2>2 DEF Promised, KeptInLine, Live
    <3> QED
      BY <3>1 DEF Sat, Kept
  <2>3. CASE timeouts = 0
    <3>1. Sat(f, Stored(f.place))
      BY <1>3, <2>1, <2>3 DEF Promised, KeptStored, Live
    <3>2. asked = Nobody /\ IsSeq(pending)
      BY <1>3 DEF Shape
    <3>3. Len(pending) = 0
      BY <1>3, <2>3, <3>2 DEF LockStep
    <3>4. WritesOf(pending, f.place) = {}
      BY <3>3 DEF WritesOf
    <3>5. WillHold(f.place) = Stored(f.place)
      BY <3>2, <3>4, WillHoldIs DEF Holds
    <3> QED
      BY <3>1, <3>5 DEF Sat, Kept
  <2> QED
    BY <2>2, <2>3
<1> QED
  BY <1>1, <1>2, <1>3, LockStepHolds, PTL DEF Spec
=============================================================================
