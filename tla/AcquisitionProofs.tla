-------------------------- MODULE AcquisitionProofs --------------------------
(***************************************************************************)
(* Theorems about the programs around the controller, for any number of    *)
(* devices, whichever are present and asked for, and any number of         *)
(* time-outs and refusals: the tables without the old firmware's bug are   *)
(* only used with new firmware; a fault costs at most one of the settings; *)
(* the trigger is off until the receiving thread runs, unless two faults   *)
(* meet; and SpidrDaq, if nothing fails, enables the devices asked for.    *)
(***************************************************************************)
EXTENDS Acquisition, SpidrProofs, FiniteSetTheorems

-----------------------------------------------------------------------------
(* What is left of an operation, compared with what there was.             *)

Writes(r, p) == Command(r) = "set" /\ Place(r) = p
SameRequest(r, q) ==
    r.kind = q.kind /\ Place(r) = Place(q) /\ (q.kind # "verify" => r = q)
LeftOf(s, t, n) ==
    /\ n \in 1 .. Len(s) /\ IsSeq(t) /\ Len(t) = Len(s) - n
    /\ \A i \in 1 .. Len(t) : /\ t[i].skip = s[i + n].skip /\ t[i].tested = s[i + n].tested
                              /\ SameRequest(t[i].req, s[i + n].req)

(* A failure skips verifications and modifications, nothing else. *)
Lost(s, i) == IF s[i].tested THEN Len(s) ELSE i + s[i].skip
Simple(s) ==
    \A i \in 1 .. Len(s) : \A k \in i + 1 .. Lost(s, i) : s[k].req.kind \in {"modify", "verify"}

(* What is still to be sent. *)
Rest == {i \in 1 .. Len(op) : i > 1 \/ asked = Nobody}
ToSend(p) == \E i \in Rest : Writes(op[i].req, p)

-----------------------------------------------------------------------------
(* The places of the programs.                                             *)

MainPlaces == {"stopped", "initialised", "spawned", "joining"}
DaqPlaces == {"address", "ids", "ports", "type", "mask", "enabled", "serving"}
PlaceInv ==
    /\ program \in {"main", "stop", "daq"}
    /\ place \in {"start", "exited", "version", "binding", "bound"} \cup MainPlaces \cup DaqPlaces
    /\ place \in MainPlaces => program = "main"
    /\ place \in DaqPlaces => program = "daq"
    /\ program = "stop" => place \in {"start", "exited"}
    /\ place \in {"start", "binding", "bound"} => op = <<>>
    /\ place = "start" => pending = <<>> /\ sock = <<>> /\ Faults = 0

(* Some get, still to be answered or answered. *)
AnsweredBy(what, dev, w) ==
    LET r == Get(what, dev, 0) IN
    \/ Len(op) = 1 /\ op[1].req = r /\ op[1].skip = 0
    \/ op = <<>> /\ (ret => readval \in w)

-----------------------------------------------------------------------------
(* The tables.                                                             *)

IsFirmware(r) == r.what = "FIRMWVERSION" => r = Get("FIRMWVERSION", 0, 0)
TablesInv ==
    /\ Stored(Firmware) \in {On, Off}
    /\ \A i \in 1 .. Len(op) : IsFirmware(op[i].req)
    /\ \A i \in 1 .. Len(pending) : IsFirmware(pending[i])
    /\ \A i \in 1 .. Len(sock) : sock[i].kind = "get" /\ sock[i].what = "FIRMWVERSION" =>
           sock[i].val \in {Off, Stored(Firmware)}
    /\ place = "version" => AnsweredBy("FIRMWVERSION", 0, {Off, Stored(Firmware)})
    /\ TablesErrOneWay

-----------------------------------------------------------------------------
(* The settings.                                                           *)

(* The last write to each place is the right one. *)
LastRight(s) ==
    \A f \in Wanted : \A i \in 1 .. Len(s) : Writes(s[i].req, f.place) =>
        /\ s[i].req.kind = "set"
        /\ s[i].req.val = f.val \/ \E k \in i + 1 .. Len(s) : Writes(s[k].req, f.place)
LostSettings == {f \in Wanted : ~ Kept(f) /\ ~ ToSend(f.place)}
SettingsInv ==
    program = "main" /\ place \in Configured \cup {"initialised"} =>
        /\ Simple(op) /\ LastRight(op)
        /\ IsFiniteSet(LostSettings) /\ Cardinality(LostSettings) <= Faults

-----------------------------------------------------------------------------
(* The trigger.                                                            *)

Stops(r) == Writes(r, AutoTrig) => r.kind = "set" /\ r.val = Off
QuietInv ==
    program = "main" /\ place # "joining" =>
        /\ Simple(op)
        /\ \A i \in 1 .. Len(op) : Stops(op[i].req)
        /\ \A i \in 1 .. Len(pending) : Stops(pending[i])
        /\ place = "stopped" /\ Faults = 0 => ToSend(AutoTrig) \/ WillHold(AutoTrig) = Off
        /\ place \in Configured \cup {"initialised"} =>
              /\ Faults = 0 => Stored(AutoTrig) = Off
              /\ Faults <= 1 => ToSend(AutoTrig) \/ WillHold(AutoTrig) = Off
        /\ place = "initialised" => \A i \in 1 .. Len(op) : Writes(op[i].req, AutoTrig) =>
               Len(op) - i >= Len(initDetector) - Len(stopContReadout)
        /\ place \in Configured => \A i \in 1 .. Len(op) : ~ Writes(op[i].req, AutoTrig)

-----------------------------------------------------------------------------
(* SpidrDaq.                                                               *)

Enables(r) == r.kind = "get" \/ (r.kind = "set" /\ Place(r) = AcqEnable)
Found(n) == {d \in Present : d < n}
DaqWire ==
    /\ \A i \in 1 .. Len(op) : Enables(op[i].req)
    /\ \A i \in 1 .. Len(pending) : Enables(pending[i])
    /\ refusals = 0 => \A i \in 1 .. Len(sock) : sock[i].err = "none"
    /\ Stored(DeviceIds) = Present
    /\ \A d \in Devs : Stored(<<"SERVERPORT", d, 0>>) = On
    /\ place \in {"start", "address", "ids"} => index = 0 /\ ports = {}
DaqPlan ==
    /\ place = "ids" => AnsweredBy("DEVICEIDS", 0, {Present}) /\ (op = <<>> => ret)
    /\ place \in {"ports", "type"} => ids = Present /\ ports = Found(index)
    /\ place = "type" =>
          /\ index \in Present
          /\ AnsweredBy("SERVERPORT", index, {On}) /\ (op = <<>> => ret)
    /\ place \in {"mask", "enabled", "version", "binding", "bound", "serving"} =>
          ports = mask \cap Present
    /\ place = "mask" => AnsweredBy("ACQENABLE", 0, {Stored(AcqEnable)}) /\ (op = <<>> => ret)
    /\ place = "enabled" =>
          \/ Len(op) = 1 /\ op[1].req = Set("ACQENABLE", 0, ports) /\ op[1].skip = 0
          \/ op = <<>> /\ Stored(AcqEnable) = ports
    /\ place \in {"version", "binding", "bound", "serving"} =>
          Stored(AcqEnable) = ports /\ \A i \in 1 .. Len(op) : op[i].req.kind = "get"
    /\ place \in {"binding", "bound", "serving"} => (0 \in ports => base)
DaqInv == program = "daq" => DaqWire /\ (Faults = 0 => DaqPlan)

-----------------------------------------------------------------------------
(* Lemmas on what is left of an operation.                                 *)

LEMMA SameIs ==
    /\ \A r : SameRequest(r, r)
    /\ \A r, q, p : SameRequest(r, q) => (Writes(r, p) <=> Writes(q, p)) /\ r.kind = q.kind
    /\ \A r, q, p : SameRequest(r, q) /\ Writes(r, p) => r = q
BY DEF SameRequest, Writes, Command

LEMMA TailLeft ==
    ASSUME NEW s, IsSeq(s), s # <<>> PROVE LeftOf(s, Tail(s), 1)
<1>1. /\ IsSeq(Tail(s)) /\ Len(Tail(s)) = Len(s) - 1 /\ Len(s) \in Nat /\ Len(s) >= 1
      /\ \A i \in 1 .. Len(s) - 1 : Tail(s)[i] = s[i + 1]
  BY TailIs, HeadIs, SeqFacts
<1> QED
  BY <1>1, SameIs DEF LeftOf

(* Expecting another word changes nothing else. *)
LEMMA ExpectingSame ==
    ASSUME NEW t, GoodSteps(t), t # <<>>, NEW val
    PROVE  LET u == Expecting(t, val) IN
           /\ Place(u[1].req) = Place(t[1].req) /\ u[1].skip = t[1].skip
           /\ u[1].tested = t[1].tested
<1>1. IsSeq(t) /\ 1 \in 1 .. Len(t) /\ DOMAIN t = 1 .. Len(t)
  BY HeadIs, SeqFacts DEF GoodSteps
<1>2. IsStep(t[1])
  BY <1>1 DEF GoodSteps
<1>3. /\ t[1] = [req |-> t[1].req, skip |-> t[1].skip, tested |-> t[1].tested]
      /\ t[1].req = [kind |-> t[1].req.kind, what |-> t[1].req.what, dev |-> t[1].req.dev,
                     at |-> t[1].req.at, val |-> t[1].req.val]
  BY <1>2 DEF IsStep, IsReq, Req
<1> DEFINE r == [t[1].req EXCEPT !.val = val]
           x == [t[1] EXCEPT !.req.val = val]
<1>4. r.what = t[1].req.what /\ r.dev = t[1].req.dev /\ r.at = t[1].req.at
  BY <1>3
<1>5. x = [req |-> r, skip |-> t[1].skip, tested |-> t[1].tested]
  BY <1>3
<1> HIDE DEF r
<1>6. x.req = r /\ x.skip = t[1].skip /\ x.tested = t[1].tested
  BY <1>5
<1>7. Expecting(t, val) = [t EXCEPT ![1] = x]
  BY DEF Expecting
<1> HIDE DEF x
<1>8. Expecting(t, val)[1] = x
  <2>1. PICK S : t \in Seq(S)
    BY <1>1 DEF IsSeq
  <2> QED
    BY <1>1, <1>7, <2>1
<1> QED
  BY <1>4, <1>6, <1>8 DEF Place

(* An answer as expected, and a failure. *)
LEMMA AdvanceLeft ==
    ASSUME NEW s, GoodSteps(s), s # <<>>, NEW u, u = ExpectWritten(Tail(s), asked.val)
    PROVE  LeftOf(s, u, 1)
<1> DEFINE t == Tail(s)
<1>1. GoodSteps(t) /\ LeftOf(s, t, 1)
  BY TailSteps, TailLeft DEF GoodSteps
<1>2. \/ u = t
      \/ t # <<>> /\ t[1].req.kind = "verify" /\ u = Expecting(t, asked.val)
  <2>1. t # <<>> => Head(t) = t[1]
    BY <1>1, HeadIs DEF GoodSteps
  <2> HIDE DEF t
  <2>2. u = ExpectWritten(t, asked.val)
    BY DEF t
  <2> QED
    BY <2>1, <2>2 DEF ExpectWritten, Expecting
<1> HIDE DEF t
<1>3. CASE u = t
  BY <1>1, <1>3
<1>4. CASE t # <<>> /\ t[1].req.kind = "verify" /\ u = Expecting(t, asked.val)
  <2>1. /\ GoodSteps(u) /\ Len(u) = Len(t) /\ u[1].req.kind = "verify"
        /\ \A i \in 1 .. Len(t) : i > 1 => u[i] = t[i]
    BY <1>1, <1>4, VerifyExpects
  <2>2. /\ Place(u[1].req) = Place(t[1].req) /\ u[1].skip = t[1].skip
        /\ u[1].tested = t[1].tested
    BY <1>1, <1>4, ExpectingSame
  <2>3. \A i \in 1 .. Len(u) : i = 1 \/ (i \in 1 .. Len(t) /\ i > 1)
    BY <1>1, <2>1, SeqFacts DEF GoodSteps
  <2>4. SameRequest(u[1].req, t[1].req)
    BY <1>4, <2>1, <2>2 DEF SameRequest
  <2>5. \A i \in 1 .. Len(u) : /\ u[i].skip = t[i].skip /\ u[i].tested = t[i].tested
                               /\ SameRequest(u[i].req, t[i].req)
    BY <2>1, <2>2, <2>3, <2>4, SameIs
  <2>6. ASSUME NEW i \in 1 .. Len(u)
        PROVE  /\ u[i].skip = s[i + 1].skip /\ u[i].tested = s[i + 1].tested
               /\ SameRequest(u[i].req, s[i + 1].req)
    <3>1. /\ t[i].skip = s[i + 1].skip /\ t[i].tested = s[i + 1].tested
          /\ SameRequest(t[i].req, s[i + 1].req)
      BY <1>1, <2>1 DEF LeftOf
    <3> QED
      BY <2>5, <3>1 DEF SameRequest
  <2> QED
    BY <1>1, <2>1, <2>6 DEF LeftOf, GoodSteps
<1> QED
  BY <1>2, <1>3, <1>4

LEMMA FailLeft ==
    ASSUME GoodSteps(op), op # <<>>, Fail
    PROVE  /\ LeftOf(op, op', IF op[1].tested THEN Len(op) ELSE op[1].skip + 1)
           /\ ret' = FALSE
<1> DEFINE rest == SubSeq(op, Head(op).skip + 2, Len(op))
           n == op[1].skip + 1
<1>1. /\ GoodSteps(rest) /\ Len(rest) = Len(op) - Head(op).skip - 1
      /\ \A i \in 1 .. Len(rest) : rest[i] = op[Head(op).skip + 1 + i]
  BY RestSteps
<1>2. Head(op) = op[1] /\ Len(op) \in Nat /\ 1 \in 1 .. Len(op)
  BY HeadIs, SeqFacts DEF GoodSteps
<1>3. op[1].skip \in Nat /\ 1 + op[1].skip <= Len(op) /\ op[1].tested \in BOOLEAN
  BY <1>2 DEF GoodSteps, IsStep
<1>4. ret' = FALSE /\ op' = IF op[1].tested THEN <<>> ELSE rest
  BY <1>2 DEF Fail
<1> HIDE DEF rest
<1>5. CASE op[1].tested
  <2>1. IsSeq(op') /\ Len(op') = 0
    BY <1>4, <1>5, EmptyIs
  <2>2. \A i : i \notin 1 .. Len(op')
    BY <2>1
  <2> QED
    BY <1>2, <1>4, <1>5, <2>1, <2>2 DEF LeftOf
<1>6. CASE ~ op[1].tested
  <2>1. n \in 1 .. Len(op) /\ Len(rest) = Len(op) - n /\ Len(rest) \in Nat
    BY <1>1, <1>2, <1>3
  <2>2. \A i \in 1 .. Len(rest) : rest[i] = op[i + n]
    <3>1. \A i \in 1 .. Len(rest) : op[1].skip + 1 + i = i + n
      BY <1>3, <2>1
    <3> QED
      BY <1>1, <1>2, <3>1
  <2>3. LeftOf(op, rest, n)
    BY <1>1, <2>1, <2>2, SameIs DEF LeftOf, GoodSteps
  <2> QED
    BY <1>4, <1>6, <2>3
<1> QED
  BY <1>3, <1>5, <1>6

(* What holds of the requests of an operation holds of those left. *)
LEMMA LeftWrites ==
    ASSUME NEW s, IsSeq(s), NEW t, NEW n, LeftOf(s, t, n)
    PROVE  /\ \A i \in 1 .. Len(t) : i + n \in 1 .. Len(s)
           /\ \A i \in 1 .. Len(s) : i > n => i - n \in 1 .. Len(t) /\ (i - n) + n = i
           /\ \A i \in 1 .. Len(t) : \A p : Writes(t[i].req, p) <=> Writes(s[i + n].req, p)
           /\ \A i \in 1 .. Len(t) : \A p : Writes(t[i].req, p) => t[i].req = s[i + n].req
<1>1. Len(s) \in Nat /\ n \in 1 .. Len(s) /\ Len(t) = Len(s) - n
  BY SeqFacts DEF LeftOf
<1>2. \A i \in 1 .. Len(t) : i + n \in 1 .. Len(s) /\ SameRequest(t[i].req, s[i + n].req)
  BY <1>1 DEF LeftOf
<1>3. \A i \in 1 .. Len(s) : i > n => i - n \in 1 .. Len(t) /\ (i - n) + n = i
  BY <1>1
<1> QED
  BY <1>2, <1>3, SameIs

LEMMA Shortened ==
    ASSUME NEW i \in Nat, NEW n \in Nat, NEW x \in Nat, NEW m \in Nat, (i + n) + x <= m, n <= m
    PROVE  m - n \in Nat /\ i + x <= m - n /\ i + x \in Nat /\ (i + x) + n = (i + n) + x
OBVIOUS

LEMMA LeftSimple ==
    ASSUME NEW s, GoodSteps(s), Simple(s), NEW t, NEW n, LeftOf(s, t, n)
    PROVE  Simple(t)
<1> SUFFICES ASSUME NEW i \in 1 .. Len(t), NEW k \in i + 1 .. Lost(t, i)
             PROVE  t[k].req.kind \in {"modify", "verify"}
  BY DEF Simple
<1>1. Len(s) \in Nat /\ n \in 1 .. Len(s) /\ Len(t) = Len(s) - n /\ i + n \in 1 .. Len(s)
  BY LeftWrites, SeqFacts DEF LeftOf, GoodSteps
<1>2. t[i].skip = s[i + n].skip /\ t[i].tested = s[i + n].tested
  BY DEF LeftOf
<1>3. s[i + n].skip \in Nat /\ (i + n) + s[i + n].skip <= Len(s)
  BY <1>1 DEF GoodSteps, IsStep
<1>4. Lost(t, i) + n = Lost(s, i + n) /\ Lost(t, i) \in Nat /\ Lost(t, i) <= Len(t)
  <2>1. PICK x \in Nat : x = s[i + n].skip /\ (i + n) + x <= Len(s)
    BY <1>3
  <2>2. /\ i \in Nat /\ n \in Nat /\ Len(t) \in Nat
        /\ i + x <= Len(t) /\ i + x \in Nat /\ (i + x) + n = (i + n) + x
    <3>1. i \in Nat /\ n \in Nat /\ n <= Len(s)
      BY <1>1
    <3> QED
      BY <1>1, <2>1, <3>1, Shortened
  <2>3. Len(t) + n = Len(s)
    BY <1>1
  <2>4. CASE s[i + n].tested
    BY <1>2, <2>2, <2>3, <2>4 DEF Lost
  <2>5. CASE ~ s[i + n].tested
    BY <1>2, <2>1, <2>2, <2>5 DEF Lost
  <2> QED
    BY <2>4, <2>5
<1>5. k \in 1 .. Len(t) /\ k + n \in (i + n) + 1 .. Lost(s, i + n)
  <2>1. PICK l \in Nat : l = Lost(t, i) /\ l <= Len(t)
    BY <1>4
  <2>2. k \in i + 1 .. l /\ i \in Nat /\ n \in Nat /\ Len(t) \in Nat
    BY <1>1, <2>1
  <2>3. k \in 1 .. Len(t) /\ k + n \in (i + n) + 1 .. l + n
    BY <2>1, <2>2
  <2> QED
    BY <1>4, <2>1, <2>3
<1>6. s[k + n].req.kind \in {"modify", "verify"}
  BY <1>1, <1>5 DEF Simple
<1>7. t[k].req.kind = s[k + n].req.kind
  BY <1>5 DEF LeftOf, SameRequest
<1> QED
  BY <1>6, <1>7

-----------------------------------------------------------------------------
(* What a step of the controller or the module does.                       *)

Dropped == IF op[1].tested THEN Len(op) ELSE op[1].skip + 1
Sent ==
    /\ op # <<>> /\ asked = Nobody /\ asked' = Message(op[1].req) /\ asked' # Nobody
    /\ pending' = Append(pending, Message(op[1].req))
    /\ UNCHANGED <<device, sock, op, readval, ret, timeouts, refusals>>
NotSent ==
    /\ op # <<>> /\ asked = Nobody /\ asked' = Nobody
    /\ pending' = pending \/ pending' = Append(pending, Message(op[1].req))
    /\ LeftOf(op, op', Dropped) /\ ret' = FALSE /\ timeouts' = timeouts + 1
    /\ UNCHANGED <<device, sock, readval, refusals>>
NoReply ==
    /\ op # <<>> /\ asked # Nobody /\ asked' = Nobody
    /\ LeftOf(op, op', Dropped) /\ ret' = FALSE /\ timeouts' = timeouts + 1
    /\ UNCHANGED <<device, pending, sock, readval, refusals>>
GotReply ==
    /\ op # <<>> /\ asked # Nobody /\ asked' = Nobody
    /\ sock # <<>> /\ Head(sock) = sock[1] /\ sock' = <<>>
    /\ \/ /\ Accepts(sock[1]) /\ LeftOf(op, op', 1) /\ ret' = (Len(op) = 1)
          /\ readval' = IF sock[1].kind = "get" THEN sock[1].val ELSE readval
       \/ /\ ~ Accepts(sock[1]) /\ LeftOf(op, op', Dropped) /\ ret' = FALSE
          /\ UNCHANGED readval
    /\ UNCHANGED <<device, pending, timeouts, refusals>>
Handled ==
    /\ Answer /\ pending # <<>> /\ pending' = Tail(pending)
    /\ sock' = Append(sock, Reply(pending[1], "none"))
    /\ device' = IF Command(pending[1]) = "set" THEN Written(Place(pending[1]), pending[1].val)
                                                ELSE device
    /\ UNCHANGED <<op, asked, readval, ret, timeouts, refusals>>
Refused ==
    /\ pending # <<>> /\ pending' = Tail(pending)
    /\ \E err \in {"refused", "short"} : sock' = Append(sock, Reply(pending[1], err))
    /\ refusals' = refusals + 1
    /\ UNCHANGED <<device, op, asked, readval, ret, timeouts>>
AStep == Sent \/ NotSent \/ NoReply \/ GotReply \/ Handled \/ Refused

LEMMA AStepIs == ASSUME Shape, Controller \/ Module PROVE AStep
<1>1. op # <<>> => Head(op) = op[1]
  BY HeadReq DEF Shape
<1>2. asked # Nobody => op # <<>>
  BY DEF Shape
<1>3. /\ pending # <<>> => Head(pending) = pending[1]
      /\ sock # <<>> => Head(sock) = sock[1]
  BY HeadIs DEF Shape
<1>4. GoodSteps(op)
  BY DEF Shape
<1>5. CASE SendRequest
  <2>1. asked' # Nobody
    <3>1. IsReq(op[1].req) /\ OwnBits(op[1].req)
      BY <1>4, <1>5, HeadReq DEF SendRequest
    <3>2. IsReq(Message(op[1].req))
      BY <3>1, MessageIs
    <3>3. asked' = Message(op[1].req)
      BY <1>1, <1>5 DEF SendRequest
    <3> QED
      BY <3>2, <3>3, SomebodyIs
  <2> QED
    BY <1>1, <1>5, <2>1 DEF SendRequest, AStep, Sent
<1>6. CASE SendTimeOut
  <2>1. op # <<>> /\ Fail /\ asked = Nobody
    BY <1>6 DEF SendTimeOut
  <2>2. LeftOf(op, op', Dropped) /\ ret' = FALSE
    BY <1>4, <2>1, FailLeft DEF Dropped
  <2> QED
    BY <1>1, <1>6, <2>1, <2>2 DEF SendTimeOut, AStep, NotSent
<1>7. CASE ReplyTimeOut
  <2>1. op # <<>> /\ Fail
    BY <1>2, <1>7 DEF ReplyTimeOut
  <2>2. LeftOf(op, op', Dropped) /\ ret' = FALSE
    BY <1>4, <2>1, FailLeft DEF Dropped
  <2> QED
    BY <1>2, <1>7, <2>2 DEF ReplyTimeOut, AStep, NoReply, wire
<1>8. CASE ReadReply
  <2>1. /\ op # <<>> /\ asked # Nobody /\ asked' = Nobody /\ sock # <<>>
        /\ Head(sock) = sock[1] /\ sock' = <<>>
        /\ UNCHANGED <<device, pending, timeouts, refusals>>
    BY <1>2, <1>3, <1>8 DEF ReadReply
  <2>2. CASE Accepts(sock[1])
    <3>1. /\ op' = ExpectWritten(Tail(op), asked.val) /\ ret' = (Len(op) = 1)
          /\ readval' = IF sock[1].kind = "get" THEN sock[1].val ELSE readval
      BY <1>8, <2>1, <2>2 DEF ReadReply
    <3>2. LeftOf(op, op', 1)
      BY <1>4, <2>1, <3>1, AdvanceLeft
    <3> QED
      BY <2>1, <2>2, <3>1, <3>2 DEF AStep, GotReply
  <2>3. CASE ~ Accepts(sock[1])
    <3>1. Fail /\ UNCHANGED readval
      BY <1>8, <2>1, <2>3 DEF ReadReply
    <3>2. LeftOf(op, op', Dropped) /\ ret' = FALSE
      BY <1>4, <2>1, <3>1, FailLeft DEF Dropped
    <3> QED
      BY <2>1, <2>3, <3>1, <3>2 DEF AStep, GotReply
  <2> QED
    BY <2>2, <2>3
<1>9. CASE Answer
  BY <1>3, <1>9 DEF Answer, AStep, Handled, ctrl
<1>a. CASE Refuse
  BY <1>3, <1>a DEF Refuse, AStep, Refused, ctrl
<1> QED
  BY <1>5, <1>6, <1>7, <1>8, <1>9, <1>a DEF Controller, Module

(* In most respects an operation goes on in one of three ways: as it was,  *)
(* the request at its head now being awaited or not, or shortened.         *)
LEMMA OpLeft ==
    ASSUME Shape, AStep
    PROVE  op' = op \/ \E n : LeftOf(op, op', n)
BY DEF AStep, Sent, NotSent, NoReply, GotReply, Handled, Refused

LEMMA SimpleKept == ASSUME Shape, AStep, Simple(op) PROVE Simple(op')
BY OpLeft, LeftSimple DEF Shape

(* A property of single requests.                                          *)
LEMMA PendingFrom ==
    ASSUME Shape, AStep, NEW i \in 1 .. Len(pending')
    PROVE  \/ \E j \in 1 .. Len(pending) : pending'[i] = pending[j]
           \/ op # <<>> /\ asked = Nobody /\ pending'[i] = Message(op[1].req)
<1>1. IsSeq(pending) /\ Len(pending) \in Nat
  BY SeqFacts DEF Shape
<1>2. CASE pending' = pending
  BY <1>2
<1>3. CASE op # <<>> /\ asked = Nobody /\ pending' = Append(pending, Message(op[1].req))
  <2>1. /\ Len(pending') = Len(pending) + 1 /\ pending'[Len(pending) + 1] = Message(op[1].req)
        /\ \A j \in 1 .. Len(pending) : pending'[j] = pending[j]
    BY <1>1, <1>3, AppendIs
  <2>2. i \in 1 .. Len(pending) \/ i = Len(pending) + 1
    BY <1>1, <2>1
  <2> QED
    BY <1>3, <2>1, <2>2
<1>4. CASE pending # <<>> /\ pending' = Tail(pending)
  <2>1. /\ Len(pending') = Len(pending) - 1
        /\ \A j \in 1 .. Len(pending) - 1 : pending'[j] = pending[j + 1]
    BY <1>1, <1>4, TailIs
  <2>2. i \in 1 .. Len(pending) - 1 /\ i + 1 \in 1 .. Len(pending)
    BY <1>1, <2>1
  <2> QED
    BY <2>1, <2>2
<1> QED
  BY <1>2, <1>3, <1>4 DEF AStep, Sent, NotSent, NoReply, GotReply, Handled, Refused

LEMMA SockFrom ==
    ASSUME Shape, AStep, NEW i \in 1 .. Len(sock')
    PROVE  \/ \E j \in 1 .. Len(sock) : sock'[i] = sock[j]
           \/ /\ pending # <<>> /\ 1 \in 1 .. Len(pending)
              /\ \/ sock'[i] = Reply(pending[1], "none") /\ Handled
                 \/ Refused /\ \E err \in {"refused", "short"} : sock'[i] = Reply(pending[1], err)
<1>1. IsSeq(sock) /\ Len(sock) \in Nat
  BY SeqFacts DEF Shape
<1>2. CASE sock' = sock
  BY <1>2
<1>3. CASE sock' = <<>>
  BY <1>3, EmptyIs
<1>4. ASSUME NEW m, sock' = Append(sock, m)
      PROVE  (\E j \in 1 .. Len(sock) : sock'[i] = sock[j]) \/ sock'[i] = m
  <2>1. /\ Len(sock') = Len(sock) + 1 /\ sock'[Len(sock) + 1] = m
        /\ \A j \in 1 .. Len(sock) : sock'[j] = sock[j]
    BY <1>1, <1>4, AppendIs
  <2>2. i \in 1 .. Len(sock) \/ i = Len(sock) + 1
    BY <1>1, <2>1
  <2> QED
    BY <2>1, <2>2
<1>5. pending # <<>> => 1 \in 1 .. Len(pending)
  BY HeadIs, SeqFacts DEF Shape
<1>6. CASE Handled
  <2>1. sock' = Append(sock, Reply(pending[1], "none")) /\ pending # <<>>
    BY <1>6 DEF Handled
  <2> QED
    BY <1>4, <1>5, <1>6, <2>1
<1>7. CASE Refused
  <2>1. PICK err \in {"refused", "short"} : sock' = Append(sock, Reply(pending[1], err))
    BY <1>7 DEF Refused
  <2>2. pending # <<>>
    BY <1>7 DEF Refused
  <2> QED
    BY <1>4, <1>5, <1>7, <2>1, <2>2
<1> QED
  BY <1>2, <1>3, <1>6, <1>7 DEF AStep, Sent, NotSent, NoReply, GotReply

(* A write awaits its turn until it is sent, or given up at the head. *)
LEMMA ToSendNext ==
    ASSUME Shape, AStep, Simple(op), NEW p, ToSend(p),
           \A i \in 1 .. Len(op) : Writes(op[i].req, p) => op[i].req.kind = "set"
    PROVE  \/ ToSend(p)'
           \/ (Sent \/ NotSent) /\ Writes(op[1].req, p)
<1>1. PICK i \in Rest : Writes(op[i].req, p)
  BY DEF ToSend
<1>2. /\ i \in 1 .. Len(op) /\ (i > 1 \/ asked = Nobody) /\ op[i].req.kind = "set"
      /\ Len(op) \in Nat /\ GoodSteps(op) /\ IsSeq(op)
  BY <1>1, SeqFacts DEF Rest, Shape, GoodSteps
<1>3. CASE Handled \/ Refused
  <2>1. UNCHANGED <<op, asked>>
    BY <1>3 DEF Handled, Refused
  <2> QED
    BY <2>1 DEF ToSend, Rest, Writes, Command, Place
<1>4. CASE Sent /\ i > 1
  <2>1. op' = op
    BY <1>4 DEF Sent
  <2>2. i \in Rest'
    BY <1>2, <1>4, <2>1 DEF Rest
  <2>3. Writes(op'[i].req, p)
    BY <1>1, <2>1
  <2> QED
    BY <2>2, <2>3 DEF ToSend, Writes, Command, Place
<1>5. ASSUME NEW n, LeftOf(op, op', n), i > n, asked' = Nobody PROVE ToSend(p)'
  <2>1. i - n \in 1 .. Len(op') /\ (i - n) + n = i
    BY <1>2, <1>5, LeftWrites
  <2>2. Writes(op'[i - n].req, p)
    <3>1. \A j \in 1 .. Len(op') : Writes(op'[j].req, p) <=> Writes(op[j + n].req, p)
      BY <1>2, <1>5, LeftWrites
    <3>2. Writes(op'[i - n].req, p) <=> Writes(op[i].req, p)
      BY <2>1, <3>1
    <3> QED
      BY <1>1, <3>2
  <2>3. i - n \in Rest'
    BY <1>5, <2>1 DEF Rest
  <2> QED
    BY <2>2, <2>3 DEF ToSend, Writes, Command, Place
<1>6. ASSUME i > 1 PROVE i > Dropped
  <2>0. 1 \in 1 .. Len(op)
    BY <1>2, <1>6
  <2>1. op[1].skip \in Nat /\ 1 + op[1].skip <= Len(op)
    BY <1>2, <2>0 DEF GoodSteps, IsStep
  <2>2. Lost(op, 1) = Dropped /\ Dropped \in Nat
    BY <1>2, <2>1 DEF Lost, Dropped
  <2>3. i \notin 2 .. Lost(op, 1)
    BY <1>2, <2>0 DEF Simple
  <2> QED
    BY <1>2, <1>6, <2>2, <2>3
<1>7. CASE i = 1
  <2>1. asked = Nobody /\ Writes(op[1].req, p)
    BY <1>1, <1>2, <1>7
  <2> QED
    BY <1>3, <2>1 DEF AStep, NoReply, GotReply
<1>8. CASE i # 1
  <2>1. i > 1 /\ i > Dropped
    BY <1>2, <1>6, <1>8
  <2>2. CASE Sent
    BY <1>4, <2>1, <2>2
  <2>3. CASE NotSent \/ NoReply
    BY <1>5, <2>1, <2>3 DEF NotSent, NoReply
  <2>4. CASE GotReply
    BY <1>5, <2>1, <2>4 DEF GotReply
  <2> QED
    BY <1>3, <2>2, <2>3, <2>4 DEF AStep
<1> QED
  BY <1>7, <1>8

-----------------------------------------------------------------------------
(* The operations the programs are made of.                                *)

Untested(s) == \A i \in 1 .. Len(s) : s[i].tested = FALSE
Part(s) == Begins(s) /\ Simple(s) /\ Untested(s)
RequestsOf(s) == {s[i].req : i \in 1 .. Len(s)}

LEMMA ConcatSimple ==
    ASSUME NEW s, Part(s), NEW t, Begins(t), Simple(t) PROVE Simple(s \o t)
<1> DEFINE u == s \o t
<1>1. /\ IsSeq(u) /\ Len(u) = Len(s) + Len(t) /\ Len(s) \in Nat /\ Len(t) \in Nat
      /\ \A i \in 1 .. Len(s) + Len(t) : u[i] = IF i <= Len(s) THEN s[i] ELSE t[i - Len(s)]
  BY ConcatIs, SeqFacts DEF Part, Begins, GoodSteps
<1> HIDE DEF u
<1> SUFFICES ASSUME NEW i \in 1 .. Len(u), NEW k \in i + 1 .. Lost(u, i)
             PROVE  u[k].req.kind \in {"modify", "verify"}
  BY DEF Simple, u
<1>2. CASE i <= Len(s)
  <2>1. i \in 1 .. Len(s) /\ u[i] = s[i]
    BY <1>1, <1>2
  <2>2. s[i].tested = FALSE /\ s[i].skip \in Nat /\ i + s[i].skip <= Len(s)
    BY <2>1 DEF Part, Untested, Begins, GoodSteps, IsStep
  <2>3. Lost(u, i) = i + s[i].skip /\ Lost(s, i) = i + s[i].skip
    BY <2>1, <2>2 DEF Lost
  <2>4. k \in i + 1 .. Lost(s, i) /\ k \in 1 .. Len(s)
    BY <1>1, <2>1, <2>2, <2>3
  <2>5. u[k] = s[k]
    BY <1>1, <2>4
  <2> QED
    BY <2>1, <2>4, <2>5 DEF Part, Simple
<1>3. CASE i > Len(s)
  <2>1. i - Len(s) \in 1 .. Len(t) /\ u[i] = t[i - Len(s)]
    BY <1>1, <1>3
  <2> DEFINE j == i - Len(s)
  <2>2. t[j].skip \in Nat /\ j + t[j].skip <= Len(t) /\ j \in 1 .. Len(t) /\ i = j + Len(s)
    <3>1. t[j].skip \in Nat /\ j + t[j].skip <= Len(t)
      BY <2>1 DEF Begins, GoodSteps, IsStep
    <3> QED
      BY <1>1, <2>1, <3>1
  <2>3. u[i] = t[j]
    BY <2>1
  <2> HIDE DEF j
  <2>a. Len(u) = Len(s) + Len(t) /\ Len(s) \in Nat /\ Len(t) \in Nat /\ j \in Nat
    BY <1>1, <2>2
  <2>4. Lost(u, i) = Lost(t, j) + Len(s) /\ Lost(t, j) \in Nat /\ Lost(t, j) <= Len(t)
    <3>1. PICK x \in Nat : x = t[j].skip /\ j + x <= Len(t)
      BY <2>2
    <3>2. i + x = (j + x) + Len(s) /\ j + x \in Nat /\ Len(u) = Len(t) + Len(s)
      BY <2>2, <2>a
    <3>3. CASE t[j].tested
      BY <2>3, <2>a, <3>2, <3>3 DEF Lost
    <3>4. CASE ~ t[j].tested
      BY <2>3, <3>1, <3>2, <3>4 DEF Lost
    <3> QED
      BY <3>3, <3>4
  <2>5. k - Len(s) \in j + 1 .. Lost(t, j) /\ k \in 1 .. Len(u) /\ k > Len(s)
    <3>1. PICK l \in Nat : l = Lost(t, j) /\ l <= Len(t) /\ Lost(u, i) = l + Len(s)
      BY <2>4
    <3>2. k \in (j + Len(s)) + 1 .. l + Len(s)
      BY <2>2, <3>1
    <3>3. k - Len(s) \in j + 1 .. l /\ k \in 1 .. Len(u) /\ k > Len(s)
      BY <2>a, <3>1, <3>2
    <3> QED
      BY <3>1, <3>3
  <2>6. u[k] = t[k - Len(s)]
    BY <1>1, <2>5
  <2> QED
    BY <2>2, <2>5, <2>6 DEF Simple
<1> QED
  BY <1>1, <1>2, <1>3

LEMMA ConcatParts ==
    ASSUME NEW s, Part(s), NEW t, Part(t)
    PROVE  /\ Part(s \o t) /\ RequestsOf(s \o t) = RequestsOf(s) \cup RequestsOf(t)
           /\ Len(s \o t) = Len(s) + Len(t)
           /\ \A i \in 1 .. Len(s) + Len(t) :
                  (s \o t)[i] = IF i <= Len(s) THEN s[i] ELSE t[i - Len(s)]
<1> DEFINE u == s \o t
<1>1. /\ IsSeq(u) /\ Len(u) = Len(s) + Len(t) /\ Len(s) \in Nat /\ Len(t) \in Nat
      /\ \A i \in 1 .. Len(s) + Len(t) : u[i] = IF i <= Len(s) THEN s[i] ELSE t[i - Len(s)]
  BY ConcatIs, SeqFacts DEF Part, Begins, GoodSteps
<1>2. Begins(u) /\ Simple(u)
  BY ConcatBegins, ConcatSimple DEF Part
<1> HIDE DEF u
<1>3. \A i \in 1 .. Len(s) : i \in 1 .. Len(u) /\ u[i] = s[i]
  BY <1>1
<1>4. ASSUME NEW i \in 1 .. Len(t)
      PROVE  i + Len(s) \in 1 .. Len(u) /\ u[i + Len(s)] = t[i]
  <2>1. Len(u) = Len(s) + Len(t) /\ Len(s) \in Nat /\ Len(t) \in Nat
    BY <1>1
  <2>2. /\ i + Len(s) \in 1 .. Len(s) + Len(t) /\ ~ (i + Len(s) <= Len(s))
        /\ (i + Len(s)) - Len(s) = i
    BY <2>1
  <2> QED
    BY <1>1, <2>1, <2>2
<1>5. \A i \in 1 .. Len(u) : \/ i \in 1 .. Len(s) /\ u[i] = s[i]
                             \/ i - Len(s) \in 1 .. Len(t) /\ u[i] = t[i - Len(s)]
  BY <1>1
<1>6. Untested(u)
  BY <1>5 DEF Part, Untested
<1>7. RequestsOf(u) = RequestsOf(s) \cup RequestsOf(t)
  <2>1. RequestsOf(s) \subseteq RequestsOf(u)
    BY <1>3 DEF RequestsOf
  <2>2. RequestsOf(t) \subseteq RequestsOf(u)
    BY <1>4 DEF RequestsOf
  <2>3. RequestsOf(u) \subseteq RequestsOf(s) \cup RequestsOf(t)
    BY <1>5 DEF RequestsOf
  <2> QED
    BY <2>1, <2>2, <2>3
<1> QED
  BY <1>1, <1>2, <1>6, <1>7 DEF Part, u

(* A call in which only verifications and modifications follow another     *)
(* request, alone and with its result ignored.                             *)
LEMMA CallSimple ==
    ASSUME NEW s, GoodReqs(s), NEW tested \in BOOLEAN,
           \A k \in 2 .. Len(s) : s[k].kind \in {"modify", "verify"}
    PROVE  /\ Begins(Call(tested, s)) /\ Simple(Call(tested, s))
           /\ RequestsOf(Call(tested, s)) = Elems(s)
           /\ tested = FALSE => Part(Call(tested, s))
<1> DEFINE c == Call(tested, s)
<1>1. /\ Begins(c) /\ Len(c) = Len(s) /\ Len(s) \in Nat
      /\ \A i \in 1 .. Len(s) : c[i].req = s[i] /\ c[i].tested = tested
  BY CallSteps, SeqFacts DEF Begins, GoodReqs
<1> HIDE DEF c
<1>2. Simple(c)
  <2> SUFFICES ASSUME NEW i \in 1 .. Len(c), NEW k \in i + 1 .. Lost(c, i)
               PROVE  c[k].req.kind \in {"modify", "verify"}
    BY DEF Simple
  <2>1. c[i].skip \in Nat /\ i + c[i].skip <= Len(c)
    BY <1>1 DEF Begins, GoodSteps, IsStep
  <2>2. Lost(c, i) \in Nat /\ Lost(c, i) <= Len(c)
    BY <1>1, <2>1 DEF Lost
  <2>3. k \in 2 .. Len(s) /\ k \in 1 .. Len(s)
    BY <1>1, <2>2
  <2> QED
    BY <1>1, <2>3
<1>3. RequestsOf(c) = Elems(s)
  BY <1>1 DEF RequestsOf, Elems
<1>4. tested = FALSE => Untested(c)
  BY <1>1 DEF Untested
<1> QED
  BY <1>1, <1>2, <1>3, <1>4 DEF c, Part

LEMMA IgnoredPart ==
    ASSUME NEW s, Begins(s)
    PROVE  /\ Begins(Ignored(s)) /\ Untested(Ignored(s)) /\ Len(Ignored(s)) = Len(s)
           /\ \A i \in 1 .. Len(s) : Ignored(s)[i].req = s[i].req
           /\ RequestsOf(Ignored(s)) = RequestsOf(s)
           /\ Simple(s) => Part(Ignored(s))
<1> DEFINE c == Ignored(s)
<1>0. /\ GoodSteps(s) /\ IsSeq(s) /\ Len(s) \in Nat /\ DOMAIN s = 1 .. Len(s)
      /\ (s = <<>> <=> Len(s) = 0)
  BY SeqFacts DEF Begins, GoodSteps
<1>1. c = [i \in 1 .. Len(s) |->
              [s[i] EXCEPT !.skip = IF s[i].tested THEN Len(s) - i ELSE @, !.tested = FALSE]]
  BY <1>0 DEF Ignored
<1> HIDE DEF c
<1>2. IsSeq(c) /\ Len(c) = Len(s)
  <2>1. c = [i \in 1 .. Len(s) |-> c[i]]
    BY <1>1
  <2> QED
    BY <1>0, <2>1, ListIs
<1>3. ASSUME NEW i \in 1 .. Len(s)
      PROVE  /\ c[i].req = s[i].req /\ c[i].tested = FALSE
             /\ c[i].skip = IF s[i].tested THEN Len(s) - i ELSE s[i].skip
             /\ IsStep(c[i]) /\ i + c[i].skip <= Len(s) /\ i + c[i].skip = Lost(s, i)
  <2>1. /\ s[i] = [req |-> s[i].req, skip |-> s[i].skip, tested |-> s[i].tested]
        /\ s[i].tested \in BOOLEAN /\ s[i].skip \in Nat /\ i + s[i].skip <= Len(s)
        /\ IsReq(s[i].req) /\ OwnBits(s[i].req)
    BY <1>0 DEF GoodSteps, IsStep
  <2>2. c[i] = [s[i] EXCEPT !.skip = IF s[i].tested THEN Len(s) - i ELSE @, !.tested = FALSE]
    BY <1>1
  <2> DEFINE n == IF s[i].tested THEN Len(s) - i ELSE s[i].skip
  <2>3. c[i] = [req |-> s[i].req, skip |-> n, tested |-> FALSE]
    BY <2>1, <2>2
  <2>4. n \in Nat /\ i + n <= Len(s) /\ i + n = Lost(s, i)
    BY <1>0, <2>1 DEF Lost
  <2> HIDE DEF n
  <2>5. c[i].req = s[i].req /\ c[i].tested = FALSE /\ c[i].skip = n
    BY <2>3
  <2>6. IsStep(c[i])
    BY <2>1, <2>3, <2>4, <2>5 DEF IsStep
  <2> QED
    BY <2>4, <2>5, <2>6 DEF n
<1>4. GoodSteps(c)
  <2>1. ASSUME NEW i \in 1 .. Len(c), NEW k \in i .. i + c[i].skip PROVE c[k].tested = c[i].tested
    <3>1. i \in 1 .. Len(s) /\ i + c[i].skip <= Len(s) /\ c[i].skip \in Nat
      BY <1>2, <1>3 DEF IsStep
    <3>2. k \in 1 .. Len(s)
      BY <1>0, <3>1
    <3> QED
      BY <1>3, <3>1, <3>2
  <2>2. ASSUME NEW i \in 1 .. Len(c), NEW k \in 1 .. Len(c), k = i + c[i].skip + 1
        PROVE  c[k].req.kind # "modify"
    <3>1. i \in 1 .. Len(s) /\ k \in 1 .. Len(s) /\ c[k].req = s[k].req
      BY <1>2, <1>3
    <3>2. CASE s[i].tested
      <4>1. c[i].skip = Len(s) - i
        BY <1>3, <3>1, <3>2
      <4> QED
        BY <1>0, <2>2, <3>1, <4>1
    <3>3. CASE ~ s[i].tested
      <4>1. c[i].skip = s[i].skip
        BY <1>3, <3>1, <3>3
      <4> QED
        BY <1>0, <2>2, <3>1, <4>1 DEF GoodSteps
    <3> QED
      BY <3>2, <3>3
  <2>3. ASSUME NEW i \in 1 .. Len(c), c[i].req.kind = "modify", i > 1
        PROVE  ReadBy(c[i - 1].req, c[i].req)
    <3>1. i \in 1 .. Len(s) /\ i - 1 \in 1 .. Len(s)
      BY <1>0, <1>2, <2>3
    <3>2. c[i].req = s[i].req /\ c[i - 1].req = s[i - 1].req
      BY <1>3, <3>1
    <3> QED
      BY <1>0, <2>3, <3>1, <3>2 DEF GoodSteps
  <2>4. \A i \in 1 .. Len(c) : IsStep(c[i]) /\ i + c[i].skip <= Len(c)
    BY <1>2, <1>3
  <2> QED
    BY <1>2, <2>1, <2>2, <2>3, <2>4 DEF GoodSteps
<1>5. NotBegun(c)
  <2>1. c # <<>> => s # <<>> /\ 1 \in 1 .. Len(s)
    BY <1>0, <1>2, SeqFacts
  <2> QED
    BY <1>3, <2>1 DEF NotBegun, Begins
<1>6. Untested(c)
  BY <1>2, <1>3 DEF Untested
<1>7. RequestsOf(c) = RequestsOf(s)
  BY <1>2, <1>3 DEF RequestsOf
<1>8. ASSUME Simple(s) PROVE Simple(c)
  <2> SUFFICES ASSUME NEW i \in 1 .. Len(c), NEW k \in i + 1 .. Lost(c, i)
               PROVE  c[k].req.kind \in {"modify", "verify"}
    BY DEF Simple
  <2>1. /\ i \in 1 .. Len(s) /\ Lost(c, i) = Lost(s, i) /\ Lost(s, i) <= Len(s)
        /\ Lost(s, i) \in Nat
    <3>1. /\ i \in 1 .. Len(s) /\ c[i].tested = FALSE /\ i + c[i].skip = Lost(s, i)
          /\ i + c[i].skip <= Len(s) /\ c[i].skip \in Nat
      BY <1>2, <1>3 DEF IsStep
    <3> QED
      BY <3>1 DEF Lost
  <2>2. k \in 1 .. Len(s) /\ k \in i + 1 .. Lost(s, i)
    BY <1>0, <2>1
  <2> QED
    BY <1>3, <1>8, <2>1, <2>2 DEF Simple
<1> QED
  BY <1>2, <1>3, <1>4, <1>5, <1>6, <1>7, <1>8 DEF Begins, Part, c

(* One request, one for each device, and a register written and read back. *)
LEMMA OnePart ==
    ASSUME NEW r, IsReq(r), OwnBits(r), r.kind # "modify", NEW tested \in BOOLEAN
    PROVE  LET c == Call(tested, <<r>>) IN
           /\ Begins(c) /\ Simple(c) /\ RequestsOf(c) = {r} /\ Len(c) = 1
           /\ c[1] = [req |-> r, skip |-> 0, tested |-> tested]
           /\ tested = FALSE => Part(c)
<1> DEFINE s == <<r>>
<1>1. GoodReqs(s) /\ Elems(s) = {r}
  BY OneReq, OneElem, Zenon
<1>2. IsSeq(s) /\ Len(s) = 1 /\ s[1] = r
  BY SingletonIs, Zenon
<1> HIDE DEF s
<1>3. \A k : k \notin 2 .. Len(s)
  BY <1>2
<1>4. /\ Begins(Call(tested, s)) /\ Simple(Call(tested, s)) /\ RequestsOf(Call(tested, s)) = {r}
      /\ tested = FALSE => Part(Call(tested, s))
  BY <1>1, <1>3, CallSimple
<1>5. DOMAIN s = 1 .. 1
  BY <1>2, SeqFacts
<1>6. Call(tested, s) = [i \in 1 .. 1 |-> [req |-> s[i], skip |-> 1 - i, tested |-> tested]]
  BY <1>2, <1>5 DEF Call
<1>7. Len(Call(tested, s)) = 1
  BY <1>1, <1>2, CallSteps
<1>8. Call(tested, s)[1] = [req |-> r, skip |-> 0, tested |-> tested]
  BY <1>2, <1>6
<1> QED
  BY <1>4, <1>7, <1>8 DEF s

LEMMA OneIs ==
    ASSUME NEW r, IsReq(r), OwnBits(r), r.kind # "modify"
    PROVE  /\ Part(One(r)) /\ RequestsOf(One(r)) = {r} /\ Len(One(r)) = 1
           /\ One(r)[1] = [req |-> r, skip |-> 0, tested |-> FALSE]
BY OnePart DEF One

LEMMA PlainReqs ==
    /\ \A what, dev, at : LET r == Get(what, dev, at) IN
           IsReq(r) /\ OwnBits(r) /\ r.kind = "get"
    /\ \A what, dev, val : what # "SPIDRREG" => LET r == Set(what, dev, val) IN
           IsReq(r) /\ OwnBits(r) /\ r.kind = "set"
BY DEF Get, Set, Req, IsReq, OwnBits

(* Steps of which each is a setting by itself. *)
LEMMA SettingsPart ==
    ASSUME NEW n \in Nat, NEW c, c = [i \in 1 .. n |-> c[i]],
           \A i \in 1 .. n : /\ c[i] = [req |-> c[i].req, skip |-> 0, tested |-> FALSE]
                             /\ IsReq(c[i].req) /\ OwnBits(c[i].req) /\ c[i].req.kind = "set"
    PROVE  Part(c) /\ Len(c) = n
<1>1. IsSeq(c) /\ Len(c) = n
  BY ListIs
<1>2. \A i \in 1 .. n : /\ c[i].skip = 0 /\ c[i].tested = FALSE /\ c[i].req.kind # "modify"
                        /\ IsStep(c[i])
  <2> SUFFICES ASSUME NEW i \in 1 .. n
               PROVE  /\ c[i].skip = 0 /\ c[i].tested = FALSE /\ c[i].req.kind # "modify"
                      /\ IsStep(c[i])
    OBVIOUS
  <2>1. c[i] = [req |-> c[i].req, skip |-> 0, tested |-> FALSE]
    OBVIOUS
  <2>2. c[i].skip = 0 /\ c[i].tested = FALSE
    BY <2>1
  <2>3. IsReq(c[i].req) /\ OwnBits(c[i].req) /\ c[i].req.kind = "set"
    OBVIOUS
  <2>4. c[i] = [req |-> c[i].req, skip |-> c[i].skip, tested |-> c[i].tested]
    BY <2>1, <2>2
  <2>5. c[i].skip = 0 /\ 0 \in Nat /\ c[i].tested = FALSE /\ FALSE \in BOOLEAN
    BY <2>2
  <2> QED
    BY <2>2, <2>3, <2>4, <2>5 DEF IsStep
<1>3. GoodSteps(c)
  <2>1. \A i \in 1 .. Len(c) : IsStep(c[i]) /\ i + c[i].skip <= Len(c)
    BY <1>1, <1>2
  <2>2. \A i \in 1 .. Len(c) : \A k \in i .. i + c[i].skip : c[k].tested = c[i].tested
    <3>1. \A i \in 1 .. Len(c) : \A k \in i .. i + c[i].skip : k = i
      BY <1>1, <1>2
    <3> QED
      BY <3>1
  <2> QED
    BY <1>1, <1>2, <2>1, <2>2 DEF GoodSteps
<1>4. NotBegun(c)
  <2>1. c # <<>> => 1 \in 1 .. n
    BY <1>1, SeqFacts
  <2> QED
    BY <1>2, <2>1 DEF NotBegun
<1>5. Simple(c)
  <2>1. \A i \in 1 .. Len(c) : Lost(c, i) = i
    BY <1>1, <1>2 DEF Lost
  <2>2. \A i \in 1 .. Len(c) : \A k : k \notin i + 1 .. Lost(c, i)
    BY <1>1, <2>1
  <2> QED
    BY <2>2 DEF Simple
<1> QED
  BY <1>1, <1>2, <1>3, <1>4, <1>5 DEF Part, Begins, Untested

LEMMA EachDevPart ==
    ASSUME NEW what, NEW val, what # "SPIDRREG"
    PROVE  LET c == EachDev(what, val) IN
           /\ Part(c) /\ Len(c) = NumDevs /\ RequestsOf(c) = {Set(what, i, val) : i \in Devs}
<1> DEFINE c == EachDev(what, val)
<1>1. NumDevs \in Nat
  BY SpidrAssumption
<1>2. c = [i \in 1 .. NumDevs |-> [req |-> Set(what, i - 1, val), skip |-> 0, tested |-> FALSE]]
  BY DEF EachDev
<1> HIDE DEF c
<1>3. \A i \in 1 .. NumDevs :
          /\ c[i].req = Set(what, i - 1, val)
          /\ c[i] = [req |-> c[i].req, skip |-> 0, tested |-> FALSE]
  BY <1>2
<1>4. \A i \in 1 .. NumDevs : IsReq(c[i].req) /\ OwnBits(c[i].req) /\ c[i].req.kind = "set"
  <2>1. \A dev : LET r == Set(what, dev, val) IN IsReq(r) /\ OwnBits(r) /\ r.kind = "set"
    BY PlainReqs
  <2> QED
    BY <1>3, <2>1
<1>5. c = [i \in 1 .. NumDevs |-> c[i]]
  BY <1>2
<1>6. Part(c) /\ Len(c) = NumDevs
  BY <1>1, <1>3, <1>4, <1>5, SettingsPart
<1>7. RequestsOf(c) = {Set(what, i, val) : i \in Devs}
  <2>1. \A i \in 1 .. NumDevs : i - 1 \in Devs
    BY <1>1 DEF Devs
  <2>2. \A i \in Devs : i + 1 \in 1 .. NumDevs /\ (i + 1) - 1 = i
    BY <1>1 DEF Devs
  <2>3. \A i \in Devs : c[i + 1].req = Set(what, i, val)
    BY <1>3, <2>2
  <2>4. RequestsOf(c) \subseteq {Set(what, i, val) : i \in Devs}
    BY <1>3, <1>6, <2>1 DEF RequestsOf
  <2>5. {Set(what, i, val) : i \in Devs} \subseteq RequestsOf(c)
    BY <1>6, <2>2, <2>3 DEF RequestsOf
  <2> QED
    BY <2>4, <2>5
<1> QED
  BY <1>6, <1>7 DEF c

LEMMA VerifiedPart ==
    ASSUME NEW a, NEW v, v \subseteq BitsOf(a)
    PROVE  LET c == Ignored(Call(TRUE, setSpidrReg(a, v, TRUE))) IN
           /\ Part(c)
           /\ RequestsOf(c) = {Req("set", "SPIDRREG", 0, a, v), Req("verify", "SPIDRREG", 0, a, v)}
<1> DEFINE r == Req("set", "SPIDRREG", 0, a, v)
           w == Req("verify", "SPIDRREG", 0, a, v)
           s == setSpidrReg(a, v, TRUE)
<1>1. GoodReqs(s) /\ Elems(s) = {r, w}
  <2>1. \A verify \in BOOLEAN :
            /\ GoodReqs(setSpidrReg(a, v, verify))
            /\ Elems(setSpidrReg(a, v, verify)) = {r} \cup (IF verify THEN {w} ELSE {})
    BY SetRegReqs, Zenon
  <2>2. GoodReqs(s) /\ Elems(s) = {r} \cup (IF TRUE THEN {w} ELSE {})
    BY <2>1, Zenon
  <2> QED
    BY <2>2
<1>2. Len(s) = 2 /\ s[2] = w
  <2>1. s = <<r>> \o <<w>>
    BY DEF setSpidrReg
  <2> DEFINE s1 == <<r>>
             s2 == <<w>>
  <2>2. IsSeq(s1) /\ Len(s1) = 1 /\ IsSeq(s2) /\ Len(s2) = 1 /\ s2[1] = w
    BY SingletonIs, Zenon
  <2>3. s = s1 \o s2
    BY <2>1
  <2> HIDE DEF s1, s2, s
  <2>4. /\ Len(s1 \o s2) = Len(s1) + Len(s2)
        /\ \A i \in 1 .. Len(s1) + Len(s2) :
               (s1 \o s2)[i] = IF i <= Len(s1) THEN s1[i] ELSE s2[i - Len(s1)]
    BY <2>2, ConcatIs
  <2> QED
    BY <2>2, <2>3, <2>4
<1>3. w.kind = "verify"
  BY DEF Req
<1> HIDE DEF s, r, w
<1>4. \A k \in 2 .. Len(s) : s[k].kind \in {"modify", "verify"}
  <2>1. \A k \in 2 .. Len(s) : k = 2
    BY <1>2
  <2> QED
    BY <1>2, <1>3, <2>1
<1>5. /\ Begins(Call(TRUE, s)) /\ Simple(Call(TRUE, s))
      /\ RequestsOf(Call(TRUE, s)) = Elems(s)
  BY <1>1, <1>4, CallSimple
<1> DEFINE d == Call(TRUE, s)
<1>6. Begins(d) /\ Simple(d) /\ RequestsOf(d) = Elems(s)
  BY <1>5
<1> HIDE DEF d
<1>7. Part(Ignored(d)) /\ RequestsOf(Ignored(d)) = RequestsOf(d)
  BY <1>6, IgnoredPart
<1> QED
  BY <1>1, <1>6, <1>7 DEF d, s, r, w

(* stopContReadout clears the switch of the automatic trigger last.        *)
LEMMA StopIs ==
    /\ Begins(stopContReadout) /\ Simple(stopContReadout) /\ Len(stopContReadout) = NumDevs + 3
    /\ RequestsOf(stopContReadout) =
           {Set("CRW", i, Off) : i \in Devs}
           \cup {Get("SPIDRREG", 0, "SHUTTERTRIG_CTRL"),
                 Req("modify", "SPIDRREG", 0, "SHUTTERTRIG_CTRL", [bit |-> CntrSel, on |-> FALSE]),
                 Set("AUTOTRIG", 0, Off)}
<1> DEFINE g == Get("SPIDRREG", 0, "SHUTTERTRIG_CTRL")
           m == Req("modify", "SPIDRREG", 0, "SHUTTERTRIG_CTRL", [bit |-> CntrSel, on |-> FALSE])
           x == Set("AUTOTRIG", 0, Off)
           q == setSpidrRegBit("SHUTTERTRIG_CTRL", CntrSel, FALSE, FALSE)
           s1 == EachDev("CRW", Off)
           s2 == Call(FALSE, q)
           s3 == Call(TRUE, <<x>>)
<1>0. stopContReadout = s1 \o s2 \o s3
  BY DEF stopContReadout, stopAutoTrigger
<1>1. Part(s1) /\ Len(s1) = NumDevs /\ RequestsOf(s1) = {Set("CRW", i, Off) : i \in Devs}
  BY EachDevPart
<1>2. GoodReqs(q) /\ Elems(q) = {g, m}
  <2>1. \A verify \in BOOLEAN :
            /\ GoodReqs(setSpidrRegBit("SHUTTERTRIG_CTRL", CntrSel, FALSE, verify))
            /\ Elems(setSpidrRegBit("SHUTTERTRIG_CTRL", CntrSel, FALSE, verify)) =
                   {g, m} \cup (IF verify THEN {Req("verify", "SPIDRREG", 0, "SHUTTERTRIG_CTRL", {})}
                                          ELSE {})
    BY SetRegBitReqs, BitsAssumption
  <2>2. /\ GoodReqs(q)
        /\ Elems(q) = {g, m} \cup (IF FALSE THEN {Req("verify", "SPIDRREG", 0, "SHUTTERTRIG_CTRL", {})}
                                            ELSE {})
    BY <2>1, Zenon
  <2> QED
    BY <2>2
<1>3. Len(q) = 2 /\ q[2] = m
  <2>1. q = (<<g>> \o <<m>>) \o <<>>
    BY DEF setSpidrRegBit, getSpidrReg
  <2> DEFINE t1 == <<g>>
             t2 == <<m>>
  <2>2. IsSeq(t1) /\ Len(t1) = 1 /\ IsSeq(t2) /\ Len(t2) = 1 /\ t2[1] = m
    BY SingletonIs, Zenon
  <2>3. q = (t1 \o t2) \o <<>>
    BY <2>1
  <2> HIDE DEF t1, t2, q
  <2>4. /\ IsSeq(t1 \o t2) /\ Len(t1 \o t2) = Len(t1) + Len(t2)
        /\ \A i \in 1 .. Len(t1) + Len(t2) :
               (t1 \o t2)[i] = IF i <= Len(t1) THEN t1[i] ELSE t2[i - Len(t1)]
    BY <2>2, ConcatIs
  <2> DEFINE t == t1 \o t2
             e == <<>>
  <2>5. IsSeq(t) /\ Len(t) = 2 /\ t[2] = m
    BY <2>2, <2>4
  <2>6. IsSeq(e) /\ Len(e) = 0 /\ q = t \o e
    BY <2>3, EmptyIs
  <2> HIDE DEF t, e
  <2>7. /\ Len(t \o e) = Len(t) + Len(e)
        /\ \A i \in 1 .. Len(t) + Len(e) :
               (t \o e)[i] = IF i <= Len(t) THEN t[i] ELSE e[i - Len(t)]
    BY <2>5, <2>6, ConcatIs
  <2> QED
    BY <2>5, <2>6, <2>7
<1>4. m.kind = "modify"
  BY DEF Req
<1>5. Part(s2) /\ Len(s2) = 2 /\ RequestsOf(s2) = {g, m}
  <2> HIDE DEF q, g, m
  <2>1. \A k \in 2 .. Len(q) : q[k].kind \in {"modify", "verify"}
    <3>1. \A k \in 2 .. Len(q) : k = 2
      BY <1>3
    <3> QED
      BY <1>3, <1>4, <3>1
  <2>2. /\ FALSE = FALSE => Part(Call(FALSE, q))
        /\ RequestsOf(Call(FALSE, q)) = Elems(q)
    BY <1>2, <2>1, CallSimple
  <2>3. Len(Call(FALSE, q)) = Len(q)
    BY <1>2, CallSteps
  <2> QED
    BY <1>2, <1>3, <2>2, <2>3
<1>6. Begins(s3) /\ Simple(s3) /\ RequestsOf(s3) = {x} /\ Len(s3) = 1
  <2>1. IsReq(x) /\ OwnBits(x) /\ x.kind # "modify"
    BY PlainReqs
  <2> HIDE DEF x
  <2> QED
    BY <2>1, OnePart
<1> HIDE DEF s1, s2, s3
<1> DEFINE s == s1 \o s2
<1>7. /\ Part(s) /\ Len(s) = NumDevs + 2
      /\ RequestsOf(s) = {Set("CRW", i, Off) : i \in Devs} \cup {g, m}
  <2> HIDE DEF g, m
  <2>1. Part(s1) /\ Part(s2)
    BY <1>1, <1>5
  <2>2. /\ Part(s) /\ RequestsOf(s) = RequestsOf(s1) \cup RequestsOf(s2)
        /\ Len(s) = Len(s1) + Len(s2)
    BY <2>1, ConcatParts
  <2> QED
    BY <1>1, <1>5, <2>2
<1> HIDE DEF s
<1>8. Begins(s \o s3) /\ Simple(s \o s3)
  BY <1>6, <1>7, ConcatBegins, ConcatSimple DEF Part
<1>9. /\ Len(s \o s3) = NumDevs + 3
      /\ RequestsOf(s \o s3) = RequestsOf(s) \cup RequestsOf(s3)
  <2>1. IsSeq(s) /\ IsSeq(s3)
    BY <1>6, <1>7 DEF Part, Begins, GoodSteps
  <2> DEFINE u == s \o s3
  <2>2. /\ Len(u) = Len(s) + Len(s3) /\ Len(s) \in Nat /\ Len(s3) \in Nat
        /\ \A i \in 1 .. Len(s) + Len(s3) : u[i] = IF i <= Len(s) THEN s[i] ELSE s3[i - Len(s)]
    BY <2>1, ConcatIs, SeqFacts
  <2> HIDE DEF u
  <2>3. \A i \in 1 .. Len(s) : i \in 1 .. Len(u) /\ u[i] = s[i]
    BY <2>2
  <2>4. \A i \in 1 .. Len(s3) : i + Len(s) \in 1 .. Len(u) /\ u[i + Len(s)] = s3[i]
    BY <2>2
  <2>5. \A i \in 1 .. Len(u) : \/ i \in 1 .. Len(s) /\ u[i] = s[i]
                               \/ i - Len(s) \in 1 .. Len(s3) /\ u[i] = s3[i - Len(s)]
    BY <2>2
  <2>6. RequestsOf(u) = RequestsOf(s) \cup RequestsOf(s3)
    <3>1. RequestsOf(s) \subseteq RequestsOf(u)
      BY <2>3 DEF RequestsOf
    <3>2. RequestsOf(s3) \subseteq RequestsOf(u)
      BY <2>4 DEF RequestsOf
    <3>3. RequestsOf(u) \subseteq RequestsOf(s) \cup RequestsOf(s3)
      BY <2>5 DEF RequestsOf
    <3> QED
      BY <3>1, <3>2, <3>3
  <2> QED
    BY <1>6, <1>7, <2>2, <2>6, SpidrAssumption DEF u
<1> QED
  BY <1>0, <1>6, <1>7, <1>8, <1>9 DEF s

(* startContReadout has no request for the version of the firmware.        *)
LEMMA StartIs ==
    LET c == Ignored(startContReadout({0})) IN
    Begins(c) /\ \A r \in RequestsOf(c) : IsFirmware(r)
<1> DEFINE s == startContReadout({0})
           R2 == {<<Set("CRW", i - 1, On), FALSE>> : i \in 1 .. NumDevs}
           Plain(y) == y[1].what # "FIRMWVERSION"
<1>1. /\ Begins(s)
      /\ Reqs(s) =
             {<<Req("set", "READY", 0, 0, On), TRUE>>} \cup R2
             \cup {<<Req("set", "SPIDRREG", 0, "SHUTTER1_PERIOD", {0}), TRUE>>}
             \cup {<<Get("SPIDRREG", 0, "SHUTTERTRIG_CTRL"), TRUE>>,
                   <<Req("modify", "SPIDRREG", 0, "SHUTTERTRIG_CTRL", [bit |-> CntrSel, on |-> TRUE]),
                     TRUE>>}
             \cup {<<Req("set", "TRIGCONFIG", 0, 0, OpenTrigger), TRUE>>,
                   <<Req("set", "AUTOTRIG", 0, 0, On), TRUE>>}
  BY StartReqs
<1> HIDE DEF s
<1>2. \A what, dev, at, val, t : what # "FIRMWVERSION" =>
          /\ Plain(<<Req("set", what, dev, at, val), t>>)
          /\ Plain(<<Req("modify", what, dev, at, val), t>>)
          /\ Plain(<<Get(what, dev, at), t>>) /\ Plain(<<Set(what, dev, val), t>>)
  BY DEF Req, Get, Set
<1>3. \A y \in R2 : Plain(y)
  <2>1. \A i \in 1 .. NumDevs : Plain(<<Set("CRW", i - 1, On), FALSE>>)
    BY <1>2
  <2> HIDE DEF Plain
  <2> QED
    BY <2>1
<1> HIDE DEF R2
<1>4. \A y \in Reqs(s) : Plain(y)
  <2> HIDE DEF Plain
  <2>1. \A y \in Reqs(s) :
            \/ y = <<Req("set", "READY", 0, 0, On), TRUE>> \/ y \in R2
            \/ y = <<Req("set", "SPIDRREG", 0, "SHUTTER1_PERIOD", {0}), TRUE>>
            \/ y = <<Get("SPIDRREG", 0, "SHUTTERTRIG_CTRL"), TRUE>>
            \/ y = <<Req("modify", "SPIDRREG", 0, "SHUTTERTRIG_CTRL", [bit |-> CntrSel, on |-> TRUE]),
                     TRUE>>
            \/ y = <<Req("set", "TRIGCONFIG", 0, 0, OpenTrigger), TRUE>>
            \/ y = <<Req("set", "AUTOTRIG", 0, 0, On), TRUE>>
    BY <1>1, Zenon
  <2>2. /\ Plain(<<Req("set", "READY", 0, 0, On), TRUE>>)
        /\ Plain(<<Req("set", "SPIDRREG", 0, "SHUTTER1_PERIOD", {0}), TRUE>>)
        /\ Plain(<<Get("SPIDRREG", 0, "SHUTTERTRIG_CTRL"), TRUE>>)
        /\ Plain(<<Req("modify", "SPIDRREG", 0, "SHUTTERTRIG_CTRL", [bit |-> CntrSel, on |-> TRUE]),
                   TRUE>>)
        /\ Plain(<<Req("set", "TRIGCONFIG", 0, 0, OpenTrigger), TRUE>>)
        /\ Plain(<<Req("set", "AUTOTRIG", 0, 0, On), TRUE>>)
    BY <1>2
  <2> QED
    BY <1>3, <2>1, <2>2, Zenon
<1>5. \A r \in RequestsOf(s) : IsFirmware(r)
  <2> SUFFICES ASSUME NEW i \in 1 .. Len(s) PROVE IsFirmware(s[i].req)
    BY DEF RequestsOf
  <2>1. <<s[i].req, s[i].tested>> \in Reqs(s)
    BY DEF Reqs
  <2>2. Plain(<<s[i].req, s[i].tested>>)
    BY <1>4, <2>1
  <2> QED
    BY <2>2 DEF IsFirmware
<1>6. Begins(Ignored(s)) /\ RequestsOf(Ignored(s)) = RequestsOf(s)
  BY <1>1, IgnoredPart
<1> QED
  BY <1>5, <1>6 DEF s

-----------------------------------------------------------------------------
(* What is wanted: one value for each place.                               *)

Setting(f) ==
    \/ \E k \in 1 .. 9, i \in Devs :
           f.place = <<ChipSettings[k][1], i, 0>> /\ f.val = ChipSettings[k][2]
    \/ \E i \in Devs : f.place = <<"CRW", i, 0>> /\ f.val = On
    \/ \E i \in 1 .. 4 : f.place = Reg(IDelay(i)) /\ f.val = Delays[i]
    \/ f.place \in {<<"BIAS_SUPPLY", 0, 0>>, <<"BIAS_ADJUST", 0, 0>>} /\ f.val = On
    \/ f.place = <<"TRIGCONFIG", 0, 0>> /\ f.val = TriggerConfig

LEMMA ChipIs ==
    /\ DOMAIN ChipSettings = 1 .. 9 /\ Len(ChipSettings) = 9
    /\ \A k \in 1 .. 9 :
          /\ k = 1 => ChipSettings[k][1] = "PS" /\ ChipSettings[k][2] = {0, 1}
          /\ k = 2 => ChipSettings[k][1] = "EQTHRESHH" /\ ChipSettings[k][2] = Off
          /\ k = 3 => ChipSettings[k][1] = "INTERNALTP" /\ ChipSettings[k][2] = On
          /\ k = 4 => ChipSettings[k][1] = "DISCCSMSPM" /\ ChipSettings[k][2] = Off
          /\ k = 5 => ChipSettings[k][1] = "CSMSPM" /\ ChipSettings[k][2] = Off
          /\ k = 6 => ChipSettings[k][1] = "POLARITY" /\ ChipSettings[k][2] = On
          /\ k = 7 => ChipSettings[k][1] = "GAINMODE" /\ ChipSettings[k][2] = On
          /\ k = 8 => ChipSettings[k][1] = "COUNTERDEPTH" /\ ChipSettings[k][2] = {1}
          /\ k = 9 => ChipSettings[k][1] = "COLOURMODE" /\ ChipSettings[k][2] = Off
BY DEF ChipSettings

ChipNames == {"PS", "EQTHRESHH", "INTERNALTP", "DISCCSMSPM", "CSMSPM", "POLARITY", "GAINMODE",
              "COUNTERDEPTH", "COLOURMODE"}
LEMMA ChipNamesIs ==
    /\ \A k \in 1 .. 9 : ChipSettings[k][1] \in ChipNames
    /\ \A k, j \in 1 .. 9 : ChipSettings[k][1] = ChipSettings[j][1] => k = j
<1>1. \A k \in 1 .. 9 : k \in {1, 2, 3, 4, 5, 6, 7, 8, 9}
  OBVIOUS
<1>2. \A k \in 1 .. 9 : ChipSettings[k][1] \in ChipNames
  BY <1>1, ChipIs DEF ChipNames
<1>3. ASSUME NEW k \in 1 .. 9, NEW j \in 1 .. 9, ChipSettings[k][1] = ChipSettings[j][1]
      PROVE  k = j
  BY <1>1, <1>3, ChipIs
<1> QED
  BY <1>2, <1>3

LEMMA DelayIs ==
    /\ \A i \in 1 .. 4 : IDelay(i) \in {"IDELAY_0", "IDELAY_1", "IDELAY_2", "IDELAY_3"}
    /\ \A i, j \in 1 .. 4 : IDelay(i) = IDelay(j) => i = j
<1>1. /\ IDelay(1) = "IDELAY_0" /\ IDelay(2) = "IDELAY_1" /\ IDelay(3) = "IDELAY_2"
      /\ IDelay(4) = "IDELAY_3"
  BY DEF IDelay
<1>2. \A i \in 1 .. 4 : i \in {1, 2, 3, 4}
  OBVIOUS
<1> QED
  BY <1>1, <1>2

LEMMA WantedIs == \A f \in Wanted : f = Whole(f.place, f.val) /\ Setting(f)
<1> SUFFICES ASSUME NEW f \in Wanted PROVE f = Whole(f.place, f.val) /\ Setting(f)
  OBVIOUS
<1>1. \A p, v : Whole(p, v).place = p /\ Whole(p, v).val = v
  BY DEF Whole
<1> DEFINE W1 == {Whole(<<ChipSettings[k][1], i, 0>>, ChipSettings[k][2]) :
                      k \in DOMAIN ChipSettings, i \in Devs}
           W2 == {Whole(<<"CRW", i, 0>>, On) : i \in Devs}
           W3 == {Whole(Reg(IDelay(i)), Delays[i]) : i \in 1 .. 4}
           w4 == Whole(<<"BIAS_SUPPLY", 0, 0>>, On)
           w5 == Whole(<<"BIAS_ADJUST", 0, 0>>, On)
           w6 == Whole(<<"TRIGCONFIG", 0, 0>>, TriggerConfig)
<1>2. f \in W1 \/ f \in W2 \/ f \in W3 \/ f = w4 \/ f = w5 \/ f = w6
  <2>1. Wanted = W1 \cup W2 \cup W3 \cup {w4, w5, w6}
    BY DEF Wanted
  <2> HIDE DEF W1, W2, W3, w4, w5, w6
  <2> QED
    BY <2>1
<1>3. CASE f \in W1
  <2>1. PICK k \in 1 .. 9, i \in Devs :
            f = Whole(<<ChipSettings[k][1], i, 0>>, ChipSettings[k][2])
    <3>1. DOMAIN ChipSettings = 1 .. 9
      BY ChipIs
    <3>2. PICK k \in DOMAIN ChipSettings, i \in Devs :
              f = Whole(<<ChipSettings[k][1], i, 0>>, ChipSettings[k][2])
      BY <1>3
    <3> QED
      BY <3>1, <3>2
  <2>2. f.place = <<ChipSettings[k][1], i, 0>> /\ f.val = ChipSettings[k][2]
    BY <1>1, <2>1
  <2> QED
    BY <2>1, <2>2 DEF Setting
<1>4. CASE f \in W2
  <2>1. PICK i \in Devs : f = Whole(<<"CRW", i, 0>>, On)
    BY <1>4
  <2>2. f.place = <<"CRW", i, 0>> /\ f.val = On
    BY <1>1, <2>1
  <2> QED
    BY <2>1, <2>2 DEF Setting
<1>5. CASE f \in W3
  <2>1. PICK i \in 1 .. 4 : f = Whole(Reg(IDelay(i)), Delays[i])
    BY <1>5
  <2>2. f.place = Reg(IDelay(i)) /\ f.val = Delays[i]
    BY <1>1, <2>1
  <2> QED
    BY <2>1, <2>2 DEF Setting
<1>6. CASE f = w4 \/ f = w5 \/ f = w6
  BY <1>1, <1>6 DEF Setting
<1> QED
  BY <1>2, <1>3, <1>4, <1>5, <1>6

(* The names of the settings, by which they are told apart.                *)
LEMMA SettingNames ==
    ASSUME NEW f, Setting(f)
    PROVE  /\ f.place = <<f.place[1], f.place[2], f.place[3]>>
           /\ f.place[1] \in ChipNames \cup {"CRW", "SPIDRREG", "BIAS_SUPPLY", "BIAS_ADJUST",
                                             "TRIGCONFIG"}
           /\ f.place[1] \in ChipNames => \E k \in 1 .. 9 :
                  f.place[1] = ChipSettings[k][1] /\ f.val = ChipSettings[k][2]
           /\ f.place[1] \in {"CRW", "BIAS_SUPPLY", "BIAS_ADJUST"} => f.val = On
           /\ f.place[1] = "SPIDRREG" => \E i \in 1 .. 4 :
                  f.place = Reg(IDelay(i)) /\ f.val = Delays[i]
           /\ f.place[1] = "TRIGCONFIG" => f.val = TriggerConfig
<1>1. CASE \E k \in 1 .. 9, i \in Devs :
               f.place = <<ChipSettings[k][1], i, 0>> /\ f.val = ChipSettings[k][2]
  <2>1. PICK k \in 1 .. 9, i \in Devs :
            f.place = <<ChipSettings[k][1], i, 0>> /\ f.val = ChipSettings[k][2]
    BY <1>1
  <2>2. ChipSettings[k][1] \in ChipNames
    BY ChipNamesIs
  <2> DEFINE n == ChipSettings[k][1]
  <2>3. n \in ChipNames /\ f.place = <<n, i, 0>>
    BY <2>1, <2>2
  <2>4. f.place[1] = n /\ f.place = <<f.place[1], f.place[2], f.place[3]>>
    <3> HIDE DEF n
    <3> QED
      BY <2>3
  <2>5. n \notin {"CRW", "SPIDRREG", "BIAS_SUPPLY", "BIAS_ADJUST", "TRIGCONFIG"}
    <3> HIDE DEF n
    <3> QED
      BY <2>3 DEF ChipNames
  <2>6. \E j \in 1 .. 9 : f.place[1] = ChipSettings[j][1] /\ f.val = ChipSettings[j][2]
    BY <2>1, <2>4
  <2> HIDE DEF n
  <2> QED
    BY <2>3, <2>4, <2>5, <2>6
<1>2. CASE \E i \in Devs : f.place = <<"CRW", i, 0>> /\ f.val = On
  <2>1. f.place[1] = "CRW" /\ f.place = <<f.place[1], f.place[2], f.place[3]>>
    BY <1>2
  <2> QED
    BY <1>2, <2>1 DEF ChipNames
<1>3. CASE \E i \in 1 .. 4 : f.place = Reg(IDelay(i)) /\ f.val = Delays[i]
  <2>1. f.place[1] = "SPIDRREG" /\ f.place = <<f.place[1], f.place[2], f.place[3]>>
    BY <1>3 DEF Reg
  <2> QED
    BY <1>3, <2>1 DEF ChipNames
<1>4. CASE f.place \in {<<"BIAS_SUPPLY", 0, 0>>, <<"BIAS_ADJUST", 0, 0>>} /\ f.val = On
  <2>1. /\ f.place[1] = "BIAS_SUPPLY" \/ f.place[1] = "BIAS_ADJUST"
        /\ f.place = <<f.place[1], f.place[2], f.place[3]>>
    BY <1>4
  <2> QED
    BY <1>4, <2>1 DEF ChipNames
<1>5. CASE f.place = <<"TRIGCONFIG", 0, 0>> /\ f.val = TriggerConfig
  <2>1. f.place[1] = "TRIGCONFIG" /\ f.place = <<f.place[1], f.place[2], f.place[3]>>
    BY <1>5
  <2> QED
    BY <1>5, <2>1 DEF ChipNames
<1> QED
  BY <1>1, <1>2, <1>3, <1>4, <1>5 DEF Setting

LEMMA WantedUnique == \A f, g \in Wanted : f.place = g.place => f = g
<1> SUFFICES ASSUME NEW f \in Wanted, NEW g \in Wanted, f.place = g.place PROVE f.val = g.val
  BY WantedIs
<1>1. Setting(f) /\ Setting(g)
  BY WantedIs
<1>2. CASE f.place[1] \in ChipNames
  <2>1. PICK k \in 1 .. 9 : f.place[1] = ChipSettings[k][1] /\ f.val = ChipSettings[k][2]
    BY <1>1, <1>2, SettingNames
  <2>2. PICK j \in 1 .. 9 : g.place[1] = ChipSettings[j][1] /\ g.val = ChipSettings[j][2]
    BY <1>1, <1>2, SettingNames
  <2>3. k = j
    BY <2>1, <2>2, ChipNamesIs
  <2> QED
    BY <2>1, <2>2, <2>3
<1>3. CASE f.place[1] \in {"CRW", "BIAS_SUPPLY", "BIAS_ADJUST"}
  BY <1>1, <1>3, SettingNames
<1>4. CASE f.place[1] = "SPIDRREG"
  <2>1. PICK i \in 1 .. 4 : f.place = Reg(IDelay(i)) /\ f.val = Delays[i]
    BY <1>1, <1>4, SettingNames
  <2>2. PICK j \in 1 .. 4 : g.place = Reg(IDelay(j)) /\ g.val = Delays[j]
    BY <1>1, <1>4, SettingNames
  <2>3. IDelay(i) = IDelay(j)
    <3>1. \A a, b : Reg(a) = Reg(b) => a = b
      BY DEF Reg
    <3> QED
      BY <2>1, <2>2, <3>1
  <2>4. i = j
    BY <2>3, DelayIs
  <2> QED
    BY <2>1, <2>2, <2>4
<1>5. CASE f.place[1] = "TRIGCONFIG"
  BY <1>1, <1>5, SettingNames
<1> QED
  BY <1>1, <1>2, <1>3, <1>4, <1>5, SettingNames

-----------------------------------------------------------------------------
(* initDetector stops the readout and then gives each setting its value,   *)
(* without touching the trigger again.                                     *)

Right(r) ==
    /\ \A f \in Wanted : Writes(r, f.place) => r.kind = "set" /\ r.val = f.val
    /\ ~ Writes(r, AutoTrig) /\ r.what # "FIRMWVERSION"
Harmless(r) ==
    /\ Stops(r) /\ r.what # "FIRMWVERSION"
    /\ \A f \in Wanted : Writes(r, f.place) => r.kind = "set"
StopLen == Len(stopContReadout)
Tidy(s) ==
    /\ Part(s) /\ Len(s) >= StopLen
    /\ \A i \in 1 .. Len(s) : /\ i <= StopLen => Harmless(s[i].req)
                              /\ i > StopLen => Right(s[i].req)
    /\ \E i \in 1 .. Len(s) : Writes(s[i].req, AutoTrig)
Covers(s, p) == \E i \in 1 .. Len(s) : i > StopLen /\ Writes(s[i].req, p)
AllRight(t) == Part(t) /\ \A r \in RequestsOf(t) : Right(r)

LEMMA WritesSet ==
    \A what, dev, val, p : Writes(Set(what, dev, val), p) <=> p = <<what, dev, 0>>
BY DEF Writes, Command, Place, Set, Req

LEMMA StopLenIs == StopLen \in Nat /\ StopLen = NumDevs + 3
BY StopIs, SpidrAssumption DEF StopLen

LEMMA TidyGrows ==
    ASSUME NEW s, Tidy(s), NEW t, AllRight(t)
    PROVE  /\ Tidy(s \o t)
           /\ \A p : Covers(s, p) \/ (\E r \in RequestsOf(t) : Writes(r, p)) => Covers(s \o t, p)
<1> DEFINE u == s \o t
<1>1. /\ Part(u) /\ Len(u) = Len(s) + Len(t) /\ Len(s) \in Nat /\ Len(t) \in Nat
      /\ \A i \in 1 .. Len(s) + Len(t) : u[i] = IF i <= Len(s) THEN s[i] ELSE t[i - Len(s)]
      /\ StopLen \in Nat /\ Len(s) >= StopLen
  <2>1. Part(s) /\ Part(t) /\ Len(s) >= StopLen
    BY DEF Tidy, AllRight
  <2>2. Len(s) \in Nat /\ Len(t) \in Nat
    BY <2>1, SeqFacts DEF Part, Begins, GoodSteps
  <2> QED
    BY <2>1, <2>2, ConcatParts, StopLenIs
<1> HIDE DEF u
<1>2. \A i \in 1 .. Len(s) : i \in 1 .. Len(u) /\ u[i] = s[i]
  BY <1>1
<1>3. \A i \in 1 .. Len(t) :
          i + Len(s) \in 1 .. Len(u) /\ u[i + Len(s)] = t[i] /\ i + Len(s) > StopLen
  BY <1>1
<1>4. \A i \in 1 .. Len(u) :
          \/ i \in 1 .. Len(s) /\ u[i] = s[i]
          \/ i > StopLen /\ i - Len(s) \in 1 .. Len(t) /\ u[i] = t[i - Len(s)]
  BY <1>1
<1>5. \A i \in 1 .. Len(t) : Right(t[i].req)
  BY DEF AllRight, RequestsOf
<1>6. Tidy(u)
  <2>1. ASSUME NEW i \in 1 .. Len(u)
        PROVE  /\ i <= StopLen => Harmless(u[i].req)
               /\ i > StopLen => Right(u[i].req)
    <3>1. CASE i \in 1 .. Len(s) /\ u[i] = s[i]
      BY <3>1 DEF Tidy
    <3>2. CASE i > StopLen /\ i - Len(s) \in 1 .. Len(t) /\ u[i] = t[i - Len(s)]
      <4>1. ~ (i <= StopLen)
        BY <1>1, <3>2
      <4> QED
        BY <1>5, <3>2, <4>1
    <3> QED
      BY <1>4, <3>1, <3>2
  <2>2. Len(u) >= StopLen
    BY <1>1
  <2>3. \E i \in 1 .. Len(u) : Writes(u[i].req, AutoTrig)
    BY <1>2 DEF Tidy
  <2> QED
    BY <1>1, <2>1, <2>2, <2>3 DEF Tidy
<1>7. ASSUME NEW p, Covers(s, p) PROVE Covers(u, p)
  BY <1>2, <1>7 DEF Covers
<1>8. ASSUME NEW p, NEW r \in RequestsOf(t), Writes(r, p) PROVE Covers(u, p)
  <2>1. PICK i \in 1 .. Len(t) : r = t[i].req
    BY DEF RequestsOf
  <2> QED
    BY <1>3, <1>8, <2>1 DEF Covers
<1> QED
  BY <1>6, <1>7, <1>8 DEF u

LEMMA RightSet ==
    ASSUME NEW what, NEW dev, NEW val, what \notin {"AUTOTRIG", "FIRMWVERSION"},
           \A f \in Wanted : f.place = <<what, dev, 0>> => f.val = val
    PROVE  Right(Set(what, dev, val))
<1>1. \A f \in Wanted : Writes(Set(what, dev, val), f.place) => f.val = val
  BY WritesSet
<1>2. /\ Set(what, dev, val).kind = "set" /\ Set(what, dev, val).val = val
      /\ Set(what, dev, val).what = what
  BY DEF Set, Req
<1>3. ~ Writes(Set(what, dev, val), AutoTrig)
  <2>1. <<"AUTOTRIG", 0, 0>> # <<what, dev, 0>>
    OBVIOUS
  <2> QED
    BY <2>1, WritesSet DEF AutoTrig
<1> QED
  BY <1>1, <1>2, <1>3 DEF Right

LEMMA RightPlain ==
    /\ \A what \in {"CRW", "BIAS_SUPPLY", "BIAS_ADJUST"} : \A dev : Right(Set(what, dev, On))
    /\ \A what \in {"COUNTERS", "LOGLEVEL"} : \A dev, val : Right(Set(what, dev, val))
    /\ Right(Set("TRIGCONFIG", 0, TriggerConfig))
    /\ \A k \in 1 .. 9 : \A dev : Right(Set(ChipSettings[k][1], dev, ChipSettings[k][2]))
<1>0. ASSUME NEW f \in Wanted, NEW what, NEW dev, f.place = <<what, dev, 0>>
      PROVE  Setting(f) /\ f.place[1] = what
  BY <1>0, WantedIs
<1>1. ASSUME NEW what \in {"CRW", "BIAS_SUPPLY", "BIAS_ADJUST"}, NEW dev
      PROVE  Right(Set(what, dev, On))
  <2>1. \A f \in Wanted : f.place = <<what, dev, 0>> => f.val = On
    BY <1>0, SettingNames
  <2> QED
    BY <2>1, RightSet
<1>2. ASSUME NEW what \in {"COUNTERS", "LOGLEVEL"}, NEW dev, NEW val
      PROVE  Right(Set(what, dev, val))
  <2>1. \A f \in Wanted : f.place # <<what, dev, 0>>
    <3> SUFFICES ASSUME NEW f \in Wanted, f.place = <<what, dev, 0>> PROVE FALSE
      OBVIOUS
    <3>1. Setting(f) /\ f.place[1] = what
      BY <1>0
    <3> QED
      BY <3>1, SettingNames DEF ChipNames
  <2> QED
    BY <2>1, RightSet
<1>3. Right(Set("TRIGCONFIG", 0, TriggerConfig))
  <2>1. \A f \in Wanted : f.place = <<"TRIGCONFIG", 0, 0>> => f.val = TriggerConfig
    BY <1>0, SettingNames
  <2> QED
    BY <2>1, RightSet
<1>4. ASSUME NEW k \in 1 .. 9, NEW dev
      PROVE  Right(Set(ChipSettings[k][1], dev, ChipSettings[k][2]))
  <2> DEFINE n == ChipSettings[k][1]
             v == ChipSettings[k][2]
  <2>1. n \in ChipNames
    BY ChipNamesIs
  <2>2. ASSUME NEW f \in Wanted, f.place = <<n, dev, 0>> PROVE f.val = v
    <3>1. Setting(f) /\ f.place[1] = n
      BY <1>0, <2>2
    <3>2. PICK j \in 1 .. 9 : f.place[1] = ChipSettings[j][1] /\ f.val = ChipSettings[j][2]
      BY <2>1, <3>1, SettingNames
    <3>3. j = k
      BY <3>1, <3>2, ChipNamesIs
    <3> QED
      BY <3>2, <3>3
  <2> HIDE DEF n, v
  <2>3. n \notin {"AUTOTRIG", "FIRMWVERSION"}
    BY <2>1 DEF ChipNames
  <2>4. Right(Set(n, dev, v))
    BY <2>2, <2>3, RightSet
  <2> QED
    BY <2>4 DEF n, v
<1> QED
  BY <1>1, <1>2, <1>3, <1>4

LEMMA OneRight ==
    ASSUME NEW what, NEW dev, NEW val, what # "SPIDRREG", Right(Set(what, dev, val))
    PROVE  LET c == One(Set(what, dev, val)) IN
           AllRight(c) /\ \E r \in RequestsOf(c) : Writes(r, <<what, dev, 0>>)
<1> DEFINE r == Set(what, dev, val)
<1>1. IsReq(r) /\ OwnBits(r) /\ r.kind # "modify"
  BY PlainReqs
<1>2. Writes(r, <<what, dev, 0>>)
  BY WritesSet
<1>3. Right(r)
  OBVIOUS
<1> HIDE DEF r
<1>4. Part(One(r)) /\ RequestsOf(One(r)) = {r}
  BY <1>1, OneIs
<1>5. AllRight(One(r)) /\ \E x \in RequestsOf(One(r)) : Writes(x, <<what, dev, 0>>)
  BY <1>2, <1>3, <1>4 DEF AllRight
<1> QED
  BY <1>5 DEF r

LEMMA CrwRight ==
    /\ AllRight(EachDev("CRW", On))
    /\ \A i \in Devs : \E r \in RequestsOf(EachDev("CRW", On)) : Writes(r, <<"CRW", i, 0>>)
<1> DEFINE c == EachDev("CRW", On)
<1>1. Part(c) /\ RequestsOf(c) = {Set("CRW", i, On) : i \in Devs}
  BY EachDevPart
<1> HIDE DEF c
<1>2. \A i \in Devs : Right(Set("CRW", i, On)) /\ Writes(Set("CRW", i, On), <<"CRW", i, 0>>)
  BY RightPlain, WritesSet
<1> QED
  BY <1>1, <1>2 DEF AllRight, c

LEMMA ChipsRight ==
    /\ AllRight(SetChips)
    /\ \A k \in 1 .. 9, i \in Devs : \E r \in RequestsOf(SetChips) :
           Writes(r, <<ChipSettings[k][1], i, 0>>)
<1> DEFINE n == NumDevs * 9
           c == SetChips
           K(i) == ((i - 1) % 9) + 1
           q(i) == Set(ChipSettings[K(i)][1], (i - 1) \div 9, ChipSettings[K(i)][2])
<1>1. NumDevs \in Nat /\ n \in Nat
  BY SpidrAssumption
<1>2. c = [i \in 1 .. n |-> One(q(i))[1]]
  BY ChipIs DEF SetChips
<1>3. \A i \in 1 .. n : K(i) \in 1 .. 9
  BY <1>1
<1>4. ASSUME NEW i \in 1 .. n
      PROVE  /\ IsReq(q(i)) /\ OwnBits(q(i)) /\ q(i).kind = "set" /\ Right(q(i))
             /\ Writes(q(i), <<ChipSettings[K(i)][1], (i - 1) \div 9, 0>>)
  <2> DEFINE w == ChipSettings[K(i)][1]
             d == (i - 1) \div 9
             v == ChipSettings[K(i)][2]
  <2>1. w \in ChipNames
    BY <1>3, ChipNamesIs
  <2>2. Right(Set(w, d, v))
    BY <1>3, RightPlain, Zenon
  <2> HIDE DEF w, d, v
  <2>3. w # "SPIDRREG"
    BY <2>1 DEF ChipNames
  <2>4. /\ IsReq(Set(w, d, v)) /\ OwnBits(Set(w, d, v)) /\ Set(w, d, v).kind = "set"
        /\ Writes(Set(w, d, v), <<w, d, 0>>)
    BY <2>3, PlainReqs, WritesSet
  <2> QED
    BY <2>2, <2>4 DEF w, d, v
<1> HIDE DEF q
<1>5. \A i \in 1 .. n : One(q(i))[1] = [req |-> q(i), skip |-> 0, tested |-> FALSE]
  BY <1>4, OneIs
<1> HIDE DEF c, n
<1>6. \A i \in 1 .. n : /\ c[i] = [req |-> q(i), skip |-> 0, tested |-> FALSE]
                        /\ c[i].req = q(i)
  <2> SUFFICES ASSUME NEW i \in 1 .. n
               PROVE  /\ c[i] = [req |-> q(i), skip |-> 0, tested |-> FALSE]
                      /\ c[i].req = q(i)
    OBVIOUS
  <2>1. c[i] = One(q(i))[1]
    BY <1>2
  <2>2. c[i] = [req |-> q(i), skip |-> 0, tested |-> FALSE]
    BY <1>5, <2>1
  <2> QED
    BY <2>2
<1>7. c = [i \in 1 .. n |-> c[i]]
  BY <1>2
<1>8. Part(c) /\ Len(c) = n
  BY <1>1, <1>4, <1>6, <1>7, SettingsPart
<1>9. AllRight(c)
  BY <1>4, <1>6, <1>8 DEF AllRight, RequestsOf
<1>a. ASSUME NEW k \in 1 .. 9, NEW d \in Devs
      PROVE  \E r \in RequestsOf(c) : Writes(r, <<ChipSettings[k][1], d, 0>>)
  <2> DEFINE i == d * 9 + k
  <2>1. d \in Nat /\ d <= NumDevs - 1
    BY <1>1 DEF Devs
  <2>2. i \in 1 .. n /\ K(i) = k /\ (i - 1) \div 9 = d
    BY <1>1, <2>1 DEF n
  <2> HIDE DEF i
  <2>3. Writes(q(i), <<ChipSettings[k][1], d, 0>>)
    BY <1>4, <2>2
  <2>4. q(i) \in RequestsOf(c)
    BY <1>6, <1>8, <2>2 DEF RequestsOf
  <2> QED
    BY <2>3, <2>4
<1> QED
  BY <1>9, <1>a DEF c

LEMMA DelayRight ==
    ASSUME NEW i \in 1 .. 4
    PROVE  AllRight(SetDelay(i)) /\ \E r \in RequestsOf(SetDelay(i)) : Writes(r, Reg(IDelay(i)))
<1> DEFINE a == IDelay(i)
           v == Delays[i]
           r == Req("set", "SPIDRREG", 0, a, v)
           w == Req("verify", "SPIDRREG", 0, a, v)
           c == Ignored(Call(TRUE, setSpidrReg(a, v, TRUE)))
<1>1. v \subseteq BitsOf(a)
  BY DelayAssumption
<1>2. SetDelay(i) = c
  BY DEF SetDelay
<1>3. \A f \in Wanted : f.place = Reg(a) => f.val = v
  <2> SUFFICES ASSUME NEW f \in Wanted, f.place = Reg(a) PROVE f.val = v
    OBVIOUS
  <2>1. Setting(f) /\ f.place[1] = "SPIDRREG"
    BY WantedIs DEF Reg
  <2>2. PICK j \in 1 .. 4 : f.place = Reg(IDelay(j)) /\ f.val = Delays[j]
    BY <2>1, SettingNames
  <2>3. \A x, y : Reg(x) = Reg(y) => x = y
    BY DEF Reg
  <2>4. IDelay(j) = IDelay(i)
    BY <2>2, <2>3
  <2>5. j = i
    BY <2>4, DelayIs
  <2> QED
    BY <2>2, <2>5
<1> HIDE DEF a, v
<1>4. Part(c) /\ RequestsOf(c) = {r, w}
  BY <1>1, VerifiedPart
<1>5. /\ Command(r) = "set" /\ Place(r) = Reg(a) /\ r.kind = "set" /\ r.val = v
      /\ Command(w) = "get" /\ r.what = "SPIDRREG" /\ w.what = "SPIDRREG"
  BY DEF Command, Place, Req, Reg
<1>6. Reg(a) # AutoTrig
  BY DEF Reg, AutoTrig
<1> HIDE DEF r, w, c
<1>7. Right(r) /\ Right(w)
  BY <1>3, <1>5, <1>6 DEF Right, Writes
<1> QED
  BY <1>2, <1>4, <1>5, <1>7 DEF AllRight, Writes, a

LEMMA StopHarmless == \A r \in RequestsOf(stopContReadout) : Harmless(r)
<1> SUFFICES ASSUME NEW r \in RequestsOf(stopContReadout) PROVE Harmless(r)
  OBVIOUS
<1>1. CASE \E i \in Devs : r = Set("CRW", i, Off)
  <2>1. PICK i \in Devs : r = Set("CRW", i, Off)
    BY <1>1
  <2>2. AutoTrig # <<"CRW", i, 0>>
    BY DEF AutoTrig
  <2> QED
    BY <2>1, <2>2, WritesSet DEF Harmless, Stops, Set, Req
<1>2. CASE r = Get("SPIDRREG", 0, "SHUTTERTRIG_CTRL")
  BY <1>2 DEF Harmless, Stops, Get, Req, Writes, Command
<1>3. CASE r = Req("modify", "SPIDRREG", 0, "SHUTTERTRIG_CTRL", [bit |-> CntrSel, on |-> FALSE])
  <2>1. Place(r) = <<"SPIDRREG", 0, "SHUTTERTRIG_CTRL">> /\ r.what = "SPIDRREG"
    BY <1>3 DEF Req, Place
  <2>2. Stops(r)
    BY <2>1 DEF Stops, Writes, AutoTrig
  <2>3. ASSUME NEW f \in Wanted, f.place = <<"SPIDRREG", 0, "SHUTTERTRIG_CTRL">> PROVE FALSE
    <3>1. Setting(f) /\ f.place[1] = "SPIDRREG"
      BY <2>3, WantedIs
    <3>2. PICK i \in 1 .. 4 : f.place = Reg(IDelay(i))
      BY <3>1, SettingNames
    <3>3. \A a : Reg(a) = <<"SPIDRREG", 0, "SHUTTERTRIG_CTRL">> => a = "SHUTTERTRIG_CTRL"
      BY DEF Reg
    <3>4. IDelay(i) = "SHUTTERTRIG_CTRL"
      BY <2>3, <3>2, <3>3
    <3> QED
      BY <3>4, DelayIs
  <2> QED
    BY <2>1, <2>2, <2>3 DEF Harmless, Writes
<1>4. CASE r = Set("AUTOTRIG", 0, Off)
  BY <1>4 DEF Harmless, Stops, Set, Req
<1> QED
  BY <1>1, <1>2, <1>3, <1>4, StopIs

LEMMA StopFacts ==
    LET s == stopContReadout IN
    /\ Begins(s) /\ Simple(s)
    /\ \A i \in 1 .. Len(s) : IsFirmware(s[i].req) /\ Stops(s[i].req)
    /\ \E i \in 1 .. Len(s) : Writes(s[i].req, AutoTrig)
<1> DEFINE s == stopContReadout
           x == Set("AUTOTRIG", 0, Off)
<1>1. Begins(s) /\ Simple(s) /\ x \in RequestsOf(s)
  BY StopIs
<1>2. \A r \in RequestsOf(s) : Harmless(r)
  BY StopHarmless
<1>3. Writes(x, AutoTrig)
  BY WritesSet DEF AutoTrig
<1> HIDE DEF s, x
<1>4. \A i \in 1 .. Len(s) : Harmless(s[i].req)
  BY <1>2 DEF RequestsOf
<1>5. \E i \in 1 .. Len(s) : Writes(s[i].req, AutoTrig)
  BY <1>1, <1>3 DEF RequestsOf
<1> QED
  BY <1>1, <1>4, <1>5 DEF Harmless, IsFirmware, s

(* initDetector as a whole.                                                *)
LEMMA InitTidy ==
    /\ Tidy(initDetector)
    /\ \A f \in Wanted : Covers(initDetector, f.place)
<1> DEFINE s0 == Ignored(stopContReadout)
           t1 == EachDev("CRW", On)
           t2 == SetChips
           t3 == One(Set("COUNTERS", 0, On))
           t4 == One(Set("LOGLEVEL", 0, Off))
           t5 == SetDelay(1)
           t6 == SetDelay(2)
           t7 == SetDelay(3)
           t8 == SetDelay(4)
           t9 == One(Set("BIAS_SUPPLY", 0, On))
           ta == One(Set("BIAS_ADJUST", 0, On))
           tb == Call(FALSE, setShutterTriggerConfig(TriggerConfig))
           s1 == s0 \o t1
           s2 == s1 \o t2
           s3 == s2 \o t3
           s4 == s3 \o t4
           s5 == s4 \o t5
           s6 == s5 \o t6
           s7 == s6 \o t7
           s8 == s7 \o t8
           s9 == s8 \o t9
           sa == s9 \o ta
           sb == sa \o tb
           Gives(t, p) == \E r \in RequestsOf(t) : Writes(r, p)
<1>1. initDetector = sb
  BY DEF initDetector
<1>2. tb = One(Set("TRIGCONFIG", 0, TriggerConfig))
  BY DEF setShutterTriggerConfig, One
<1>3. Tidy(s0)
  <2>1. /\ Part(s0) /\ Len(s0) = StopLen
        /\ \A i \in 1 .. Len(s0) : s0[i].req = stopContReadout[i].req
    BY IgnoredPart, StopIs DEF StopLen
  <2>2. ASSUME NEW r \in RequestsOf(stopContReadout) PROVE Harmless(r)
    BY <2>2, StopHarmless
  <2> HIDE DEF s0
  <2>3. \A i \in 1 .. Len(s0) : s0[i].req \in RequestsOf(stopContReadout)
    BY <2>1 DEF RequestsOf, StopLen
  <2>4. \A i \in 1 .. Len(s0) : i <= StopLen
    BY <2>1, StopLenIs
  <2>5. \A i \in 1 .. Len(s0) : ~ (i > StopLen)
    BY <2>1, StopLenIs
  <2>6. Len(s0) >= StopLen
    BY <2>1, StopLenIs
  <2>7. \E i \in 1 .. Len(s0) : Writes(s0[i].req, AutoTrig)
    <3>1. PICK i \in 1 .. StopLen : Writes(stopContReadout[i].req, AutoTrig)
      BY StopFacts DEF StopLen
    <3> QED
      BY <2>1, <3>1
  <2> QED
    BY <2>1, <2>2, <2>3, <2>5, <2>6, <2>7 DEF Tidy
<1>4. AllRight(t1) /\ \A i \in Devs : Gives(t1, <<"CRW", i, 0>>)
  BY CrwRight
<1>5. AllRight(t2) /\ \A k \in 1 .. 9, i \in Devs : Gives(t2, <<ChipSettings[k][1], i, 0>>)
  BY ChipsRight
<1>6. /\ AllRight(t3) /\ AllRight(t4)
      /\ AllRight(t9) /\ Gives(t9, <<"BIAS_SUPPLY", 0, 0>>)
      /\ AllRight(ta) /\ Gives(ta, <<"BIAS_ADJUST", 0, 0>>)
      /\ AllRight(tb) /\ Gives(tb, <<"TRIGCONFIG", 0, 0>>)
  BY <1>2, RightPlain, OneRight
<1>7. /\ AllRight(t5) /\ Gives(t5, Reg(IDelay(1))) /\ AllRight(t6) /\ Gives(t6, Reg(IDelay(2)))
      /\ AllRight(t7) /\ Gives(t7, Reg(IDelay(3))) /\ AllRight(t8) /\ Gives(t8, Reg(IDelay(4)))
  BY DelayRight
<1> HIDE DEF s0, t1, t2, t3, t4, t5, t6, t7, t8, t9, ta, tb
<1> DEFINE Grown(s, t) ==
               Tidy(s \o t) /\ \A p : Covers(s, p) \/ Gives(t, p) => Covers(s \o t, p)
<1>8. \A s, t : Tidy(s) /\ AllRight(t) => Grown(s, t)
  BY TidyGrows
<1> HIDE DEF Gives
<1>9. /\ Grown(s0, t1) /\ Grown(s1, t2) /\ Grown(s2, t3) /\ Grown(s3, t4) /\ Grown(s4, t5)
      /\ Grown(s5, t6) /\ Grown(s6, t7) /\ Grown(s7, t8) /\ Grown(s8, t9) /\ Grown(s9, ta)
      /\ Grown(sa, tb)
  <2>1. Grown(s0, t1) /\ Tidy(s1)
    BY <1>3, <1>4, <1>8
  <2> HIDE DEF s1
  <2>2. Grown(s1, t2) /\ Tidy(s2)
    BY <1>5, <1>8, <2>1
  <2> HIDE DEF s2
  <2>3. Grown(s2, t3) /\ Tidy(s3)
    BY <1>6, <1>8, <2>2
  <2> HIDE DEF s3
  <2>4. Grown(s3, t4) /\ Tidy(s4)
    BY <1>6, <1>8, <2>3
  <2> HIDE DEF s4
  <2>5. Grown(s4, t5) /\ Tidy(s5)
    BY <1>7, <1>8, <2>4
  <2> HIDE DEF s5
  <2>6. Grown(s5, t6) /\ Tidy(s6)
    BY <1>7, <1>8, <2>5
  <2> HIDE DEF s6
  <2>7. Grown(s6, t7) /\ Tidy(s7)
    BY <1>7, <1>8, <2>6
  <2> HIDE DEF s7
  <2>8. Grown(s7, t8) /\ Tidy(s8)
    BY <1>7, <1>8, <2>7
  <2> HIDE DEF s8
  <2>9. Grown(s8, t9) /\ Tidy(s9)
    BY <1>6, <1>8, <2>8
  <2> HIDE DEF s9
  <2>a. Grown(s9, ta) /\ Tidy(sa)
    BY <1>6, <1>8, <2>9
  <2> HIDE DEF sa
  <2>b. Grown(sa, tb)
    BY <1>6, <1>8, <2>a
  <2> QED
    BY <2>1, <2>2, <2>3, <2>4, <2>5, <2>6, <2>7, <2>8, <2>9, <2>a, <2>b
<1>a. Tidy(sb)
  BY <1>9
<1>b. ASSUME NEW p, \/ Gives(t1, p) \/ Gives(t2, p) \/ Gives(t5, p) \/ Gives(t6, p) \/ Gives(t7, p)
                    \/ Gives(t8, p) \/ Gives(t9, p) \/ Gives(ta, p) \/ Gives(tb, p)
      PROVE  Covers(sb, p)
  <2>1. /\ Covers(s0, p) \/ Gives(t1, p) => Covers(s1, p)
        /\ Covers(s1, p) \/ Gives(t2, p) => Covers(s2, p)
        /\ Covers(s2, p) => Covers(s3, p)
        /\ Covers(s3, p) => Covers(s4, p)
        /\ Covers(s4, p) \/ Gives(t5, p) => Covers(s5, p)
        /\ Covers(s5, p) \/ Gives(t6, p) => Covers(s6, p)
        /\ Covers(s6, p) \/ Gives(t7, p) => Covers(s7, p)
        /\ Covers(s7, p) \/ Gives(t8, p) => Covers(s8, p)
        /\ Covers(s8, p) \/ Gives(t9, p) => Covers(s9, p)
        /\ Covers(s9, p) \/ Gives(ta, p) => Covers(sa, p)
        /\ Covers(sa, p) \/ Gives(tb, p) => Covers(sb, p)
    BY <1>9
  <2> HIDE DEF s1, s2, s3, s4, s5, s6, s7, s8, s9, sa, sb
  <2> QED
    BY <1>b, <2>1
<1>c. ASSUME NEW f \in Wanted PROVE Covers(sb, f.place)
  <2>1. Setting(f)
    BY WantedIs
  <2>2. \A i \in 1 .. 4 : i = 1 \/ i = 2 \/ i = 3 \/ i = 4
    OBVIOUS
  <2>3. \/ Gives(t1, f.place) \/ Gives(t2, f.place) \/ Gives(t5, f.place) \/ Gives(t6, f.place)
        \/ Gives(t7, f.place) \/ Gives(t8, f.place) \/ Gives(t9, f.place) \/ Gives(ta, f.place)
        \/ Gives(tb, f.place)
    <3>1. CASE \E k \in 1 .. 9, i \in Devs :
                   f.place = <<ChipSettings[k][1], i, 0>> /\ f.val = ChipSettings[k][2]
      BY <1>5, <3>1
    <3>2. CASE \E i \in Devs : f.place = <<"CRW", i, 0>> /\ f.val = On
      BY <1>4, <3>2
    <3>3. CASE \E i \in 1 .. 4 : f.place = Reg(IDelay(i)) /\ f.val = Delays[i]
      <4>1. PICK i \in 1 .. 4 : f.place = Reg(IDelay(i))
        BY <3>3
      <4>2. \/ f.place = Reg(IDelay(1)) \/ f.place = Reg(IDelay(2)) \/ f.place = Reg(IDelay(3))
            \/ f.place = Reg(IDelay(4))
        BY <2>2, <4>1
      <4> QED
        BY <1>7, <4>2
    <3>4. CASE \/ f.place \in {<<"BIAS_SUPPLY", 0, 0>>, <<"BIAS_ADJUST", 0, 0>>} /\ f.val = On
               \/ f.place = <<"TRIGCONFIG", 0, 0>> /\ f.val = TriggerConfig
      BY <1>6, <3>4
    <3> QED
      BY <2>1, <3>1, <3>2, <3>3, <3>4 DEF Setting
  <2> HIDE DEF sb
  <2> QED
    BY <1>b, <2>3
<1> HIDE DEF sb
<1> QED
  BY <1>1, <1>a, <1>c

LEMMA InitIs ==
    LET s == initDetector IN
    /\ Begins(s) /\ Simple(s) /\ LastRight(s) /\ Len(s) \in Nat
    /\ \A i \in 1 .. Len(s) : /\ IsFirmware(s[i].req) /\ Stops(s[i].req)
                              /\ Writes(s[i].req, AutoTrig) => Len(s) - i >= Len(s) - StopLen
    /\ \A f \in Wanted : \E i \in 1 .. Len(s) : Writes(s[i].req, f.place)
    /\ \E i \in 1 .. Len(s) : Writes(s[i].req, AutoTrig)
<1> DEFINE s == initDetector
<1>1. Tidy(s) /\ \A f \in Wanted : Covers(s, f.place)
  BY InitTidy
<1> HIDE DEF s
<1>2. Begins(s) /\ Simple(s) /\ Len(s) \in Nat /\ StopLen \in Nat
  BY <1>1, SeqFacts, StopLenIs DEF Tidy, Part, Begins, GoodSteps
<1>3. \A i \in 1 .. Len(s) : /\ i <= StopLen => Harmless(s[i].req)
                             /\ i > StopLen => Right(s[i].req)
  BY <1>1 DEF Tidy
<1>4. ASSUME NEW i \in 1 .. Len(s)
      PROVE  /\ IsFirmware(s[i].req) /\ Stops(s[i].req)
             /\ Writes(s[i].req, AutoTrig) => Len(s) - i >= Len(s) - StopLen
  <2>1. CASE i <= StopLen
    <3>1. Harmless(s[i].req) /\ Len(s) - i >= Len(s) - StopLen
      BY <1>2, <1>3, <2>1
    <3> QED
      BY <3>1 DEF Harmless, IsFirmware
  <2>2. CASE i > StopLen
    <3>1. Right(s[i].req)
      BY <1>3, <2>2
    <3> QED
      BY <3>1 DEF Right, Stops, IsFirmware
  <2> QED
    BY <1>2, <2>1, <2>2
<1>5. ASSUME NEW f \in Wanted, NEW i \in 1 .. Len(s), Writes(s[i].req, f.place)
      PROVE  /\ s[i].req.kind = "set"
             /\ s[i].req.val = f.val \/ \E k \in i + 1 .. Len(s) : Writes(s[k].req, f.place)
  <2>1. CASE i <= StopLen
    <3>1. s[i].req.kind = "set"
      BY <1>3, <1>5, <2>1 DEF Harmless
    <3>2. PICK k \in 1 .. Len(s) : k > StopLen /\ Writes(s[k].req, f.place)
      BY <1>1 DEF Covers
    <3>3. k \in i + 1 .. Len(s)
      BY <1>2, <2>1, <3>2
    <3> QED
      BY <3>1, <3>2, <3>3
  <2>2. CASE i > StopLen
    BY <1>3, <1>5, <2>2 DEF Right
  <2> QED
    BY <1>2, <2>1, <2>2
<1>6. \A f \in Wanted : \E i \in 1 .. Len(s) : Writes(s[i].req, f.place)
  BY <1>1 DEF Covers
<1>7. LastRight(s)
  BY <1>5 DEF LastRight
<1>8. \E i \in 1 .. Len(s) : Writes(s[i].req, AutoTrig)
  BY <1>1 DEF Tidy
<1> QED
  BY <1>2, <1>4, <1>6, <1>7, <1>8 DEF s

-----------------------------------------------------------------------------
(* What a place will hold, from one step to the next.                      *)

LEMMA MessageWrites ==
    ASSUME Shape, op # <<>>
    PROVE  LET r == op[1].req IN
           /\ 1 \in 1 .. Len(op) /\ IsReq(r)
           /\ \A p : Writes(Message(r), p) <=> Writes(r, p)
           /\ r.kind # "modify" => Message(r) = r
<1>1. 1 \in 1 .. Len(op) /\ IsReq(op[1].req) /\ OwnBits(op[1].req)
  BY HeadReq DEF Shape
<1> QED
  BY <1>1, MessageIs DEF Writes

LEMMA WillHoldStep ==
    ASSUME Shape, AStep, NEW p
    PROVE  \/ WillHold(p)' = WillHold(p)
           \/ /\ Sent \/ NotSent
              /\ Writes(op[1].req, p) /\ WillHold(p)' = Message(op[1].req).val
           \/ Refused /\ Writes(pending[1], p)
<1>0. IsSeq(pending)
  BY DEF Shape
<1>1. CASE UNCHANGED <<device, pending>>
  BY <1>1 DEF WillHold, Stored
<1>2. CASE (Sent \/ NotSent) /\ pending' = Append(pending, Message(op[1].req))
  <2> DEFINE m == Message(op[1].req)
  <2>1. UNCHANGED device /\ op # <<>>
    BY <1>2 DEF Sent, NotSent
  <2>2. WillHold(p)' = IF Command(m) = "set" /\ Place(m) = p THEN m.val ELSE WillHold(p)
    BY <1>0, <1>2, <2>1, SendHolds
  <2>3. Writes(m, p) <=> Writes(op[1].req, p)
    BY <2>1, MessageWrites
  <2> HIDE DEF m
  <2>4. WillHold(p)' = IF Writes(m, p) THEN m.val ELSE WillHold(p)
    BY <2>2 DEF Writes
  <2> QED
    BY <1>2, <2>3, <2>4 DEF m
<1>3. CASE Handled
  BY <1>0, <1>3, AnswerHolds DEF Handled
<1>4. CASE Refused /\ ~ Writes(pending[1], p)
  <2>1. pending # <<>> /\ pending' = Tail(pending) /\ UNCHANGED device
    BY <1>4 DEF Refused
  <2>2. IsSeq(pending') /\ Stored(p)' = Stored(p)
    BY <1>0, <2>1, TailIs DEF Stored
  <2>3. WillHold(p)' = Holds(Tail(pending), Stored(p), p)
    BY <2>1, <2>2, WillHoldNext
  <2>4. WillHold(p) = Holds(pending, Stored(p), p)
    BY <1>0, WillHoldIs
  <2> DEFINE d == Stored(p)
             e == IF Command(pending[1]) = "set" /\ Place(pending[1]) = p THEN pending[1].val ELSE d
  <2>5. e = d
    BY <1>4 DEF Writes
  <2>6. Holds(pending, d, p) = Holds(Tail(pending), e, p)
    BY <1>0, <2>1, HoldsTail
  <2> HIDE DEF d, e
  <2> QED
    BY <2>3, <2>4, <2>5, <2>6 DEF d
<1>5. CASE Refused /\ Writes(pending[1], p)
  BY <1>5
<1>6. CASE NoReply \/ GotReply \/ (NotSent /\ pending' = pending)
  BY <1>1, <1>6 DEF NoReply, GotReply, NotSent
<1> QED
  BY <1>2, <1>3, <1>4, <1>5, <1>6 DEF AStep, Sent, NotSent

(* What is to be sent is still to be sent, or being sent. *)
LEMMA WritesNext == UNCHANGED op => \A i, p : Writes(op[i].req, p)' <=> Writes(op[i].req, p)
BY DEF Writes, Command, Place

LEMMA FaultsNext ==
    ASSUME Shape, AStep
    PROVE  /\ Faults \in Nat /\ Faults' \in Nat
           /\ NotSent \/ NoReply \/ Refused => Faults' = Faults + 1
           /\ Sent \/ GotReply \/ Handled => Faults' = Faults
<1>1. timeouts \in Nat /\ refusals \in Nat
  BY DEF Shape
<1>2. /\ NotSent \/ NoReply => timeouts' = timeouts + 1 /\ refusals' = refusals
      /\ Refused => timeouts' = timeouts /\ refusals' = refusals + 1
      /\ Sent \/ GotReply \/ Handled => timeouts' = timeouts /\ refusals' = refusals
  BY DEF NotSent, NoReply, Refused, Sent, GotReply, Handled
<1> QED
  BY <1>1, <1>2 DEF Faults, AStep

-----------------------------------------------------------------------------
(* Settings: a step loses at most one, and only if it is a fault.          *)

LEMMA KeptIs ==
    ASSUME NEW f \in Wanted
    PROVE  /\ Kept(f) <=> WillHold(f.place) = f.val
           /\ Kept(f)' <=> WillHold(f.place)' = f.val
<1>1. f = Whole(f.place, f.val)
  BY WantedIs
<1>2. "val" \in DOMAIN f
  BY <1>1 DEF Whole
<1> QED
  BY <1>2 DEF Kept

LEMMA OneSetting ==
    \A r : \A f, g \in Wanted : Writes(r, f.place) /\ Writes(r, g.place) => f = g
BY WantedUnique DEF Writes

LEMMA LeftLastRight ==
    ASSUME NEW s, IsSeq(s), LastRight(s), NEW t, NEW n, LeftOf(s, t, n) PROVE LastRight(t)
<1> SUFFICES ASSUME NEW f \in Wanted, NEW i \in 1 .. Len(t), Writes(t[i].req, f.place)
             PROVE  /\ t[i].req.kind = "set"
                    /\ t[i].req.val = f.val
                       \/ \E k \in i + 1 .. Len(t) : Writes(t[k].req, f.place)
  BY DEF LastRight
<1>0. Len(s) \in Nat /\ n \in 1 .. Len(s) /\ Len(t) = Len(s) - n
  BY SeqFacts DEF LeftOf
<1>1. /\ i + n \in 1 .. Len(s) /\ Writes(s[i + n].req, f.place)
      /\ t[i].req = s[i + n].req
  <2>1. i + n \in 1 .. Len(s) /\ SameRequest(t[i].req, s[i + n].req)
    BY <1>0 DEF LeftOf
  <2> QED
    BY <2>1, SameIs
<1>2. /\ s[i + n].req.kind = "set"
      /\ s[i + n].req.val = f.val
         \/ \E k \in (i + n) + 1 .. Len(s) : Writes(s[k].req, f.place)
  BY <1>1 DEF LastRight
<1>3. ASSUME NEW k \in (i + n) + 1 .. Len(s), Writes(s[k].req, f.place)
      PROVE  \E j \in i + 1 .. Len(t) : Writes(t[j].req, f.place)
  <2>1. k - n \in 1 .. Len(t) /\ k - n \in i + 1 .. Len(t) /\ (k - n) + n = k
    BY <1>0
  <2>2. SameRequest(t[k - n].req, s[(k - n) + n].req)
    BY <2>1 DEF LeftOf
  <2>3. Writes(t[k - n].req, f.place)
    BY <1>3, <2>1, <2>2, SameIs
  <2> QED
    BY <2>1, <2>3
<1> QED
  BY <1>1, <1>2, <1>3

LEMMA LastRightNext ==
    ASSUME Shape, AStep, LastRight(op) PROVE LastRight(op')
BY OpLeft, LeftLastRight DEF Shape, GoodSteps

(* The write that a fault drops, if it drops one. *)
Dropping == IF Refused THEN pending[1] ELSE op[1].req
LEMMA LosesOne ==
    ASSUME Shape, AStep, Simple(op), LastRight(op), NEW f \in Wanted,
           f \in LostSettings', f \notin LostSettings
    PROVE  (NotSent \/ Refused) /\ Writes(Dropping, f.place)
<1> DEFINE p == f.place
<1>0. ~ Kept(f)' /\ ~ ToSend(p)' /\ (Kept(f) \/ ToSend(p))
  BY DEF LostSettings
<1>1. \A i \in 1 .. Len(op) : Writes(op[i].req, p) =>
          /\ op[i].req.kind = "set"
          /\ op[i].req.val = f.val \/ \E k \in i + 1 .. Len(op) : Writes(op[k].req, p)
  BY DEF LastRight
<1>2. ToSend(p) => (Sent \/ NotSent) /\ Writes(op[1].req, p)
  BY <1>0, <1>1, ToSendNext
<1>3. ASSUME Sent, Writes(op[1].req, p) PROVE FALSE
  <2>1. op # <<>> /\ op' = op /\ Len(op) \in Nat
    BY <1>3, SeqFacts DEF Sent, Shape, GoodSteps
  <2>2. 1 \in 1 .. Len(op)
    BY <2>1, MessageWrites
  <2>3. CASE op[1].req.val = f.val
    <3>1. op[1].req.kind = "set" /\ Message(op[1].req) = op[1].req
      BY <1>1, <1>3, <2>1, <2>2, MessageWrites
    <3>2. WillHold(p)' = Message(op[1].req).val
      <4>1. pending' = Append(pending, Message(op[1].req)) /\ UNCHANGED device
        BY <1>3 DEF Sent
      <4>2. Writes(Message(op[1].req), p)
        BY <1>3, <3>1
      <4> QED
        BY <4>1, <4>2, SendHolds DEF Shape, Writes
    <3> QED
      BY <1>0, <2>3, <3>1, <3>2, KeptIs
  <2>4. CASE \E k \in 1 + 1 .. Len(op) : Writes(op[k].req, p)
    <3>1. PICK k \in 1 + 1 .. Len(op) : Writes(op[k].req, p)
      BY <2>4
    <3>2. k \in Rest' /\ Writes(op[k].req, p)'
      BY <2>1, <3>1, WritesNext DEF Rest
    <3> QED
      BY <1>0, <3>2 DEF ToSend
  <2> QED
    BY <1>1, <1>3, <2>2, <2>3, <2>4
<1>4. CASE Kept(f)
  <2>1. WillHold(p) = f.val /\ WillHold(p)' # f.val
    BY <1>0, <1>4, KeptIs
  <2>2. \/ (Sent \/ NotSent) /\ Writes(op[1].req, p)
        \/ Refused /\ Writes(pending[1], p)
    BY <2>1, WillHoldStep
  <2>3. NotSent => ~ Refused
    BY DEF NotSent, Refused, Shape
  <2> QED
    BY <1>3, <2>2, <2>3 DEF Dropping
<1>5. CASE ToSend(p)
  <2>1. NotSent => ~ Refused
    BY DEF NotSent, Refused, Shape
  <2> QED
    BY <1>2, <1>3, <1>5, <2>1 DEF Dropping
<1> QED
  BY <1>0, <1>4, <1>5

LEMMA SettingsStep ==
    ASSUME Shape, SettingsInv, AStep, UNCHANGED <<program, place>> PROVE SettingsInv'
<1> SUFFICES ASSUME program = "main", place \in Configured \cup {"initialised"}
             PROVE  /\ Simple(op') /\ LastRight(op')
                    /\ IsFiniteSet(LostSettings') /\ Cardinality(LostSettings') <= Faults'
  BY DEF SettingsInv, Simple, LastRight, Lost, Writes, Command, Place, Configured
<1>1. /\ Simple(op) /\ LastRight(op) /\ IsFiniteSet(LostSettings)
      /\ Cardinality(LostSettings) <= Faults
  BY DEF SettingsInv
<1>2. Simple(op') /\ LastRight(op')
  BY <1>1, SimpleKept, LastRightNext
<1>3. /\ Faults \in Nat /\ Faults' \in Nat /\ Faults' >= Faults
      /\ NotSent \/ Refused => Faults' = Faults + 1
  BY FaultsNext DEF AStep
<1>4. Cardinality(LostSettings) \in Nat
  BY <1>1, FS_CardinalityType
<1>5. LostSettings' \subseteq Wanted
  BY DEF LostSettings
<1>6. CASE LostSettings' \subseteq LostSettings
  <2>1. IsFiniteSet(LostSettings') /\ Cardinality(LostSettings') <= Cardinality(LostSettings)
    BY <1>1, <1>6, FS_Subset
  <2>2. Cardinality(LostSettings') \in Nat
    BY <2>1, FS_CardinalityType
  <2> QED
    BY <1>1, <1>2, <1>3, <1>4, <2>1, <2>2
<1>7. CASE ~ (LostSettings' \subseteq LostSettings)
  <2>1. PICK f \in LostSettings' : f \notin LostSettings
    BY <1>7
  <2>2. (NotSent \/ Refused) /\ Writes(Dropping, f.place) /\ f \in Wanted
    BY <1>1, <1>5, <2>1, LosesOne
  <2>3. LostSettings' \subseteq LostSettings \cup {f}
    <3> SUFFICES ASSUME NEW g \in LostSettings', g \notin LostSettings PROVE g = f
      OBVIOUS
    <3>1. Writes(Dropping, g.place) /\ g \in Wanted
      BY <1>1, <1>5, LosesOne
    <3> QED
      BY <2>2, <3>1, OneSetting
  <2>4. /\ IsFiniteSet(LostSettings \cup {f})
        /\ Cardinality(LostSettings \cup {f}) = Cardinality(LostSettings) + 1
    BY <1>1, <2>1, FS_AddElement
  <2>5. /\ IsFiniteSet(LostSettings')
        /\ Cardinality(LostSettings') <= Cardinality(LostSettings \cup {f})
    BY <2>3, <2>4, FS_Subset
  <2>6. Cardinality(LostSettings') \in Nat
    BY <2>5, FS_CardinalityType
  <2> QED
    BY <1>1, <1>2, <1>3, <1>4, <2>2, <2>4, <2>5, <2>6
<1> QED
  BY <1>6, <1>7

-----------------------------------------------------------------------------
(* The trigger.                                                            *)

(* Requests that stop the trigger, if they concern it, leave it off. *)
LEMMA AllOff ==
    ASSUME NEW s, IsSeq(s), \A i \in 1 .. Len(s) : Stops(s[i])
    PROVE  Holds(s, Off, AutoTrig) = Off
<1>1. CASE WritesOf(s, AutoTrig) = {}
  BY <1>1 DEF Holds
<1>2. CASE WritesOf(s, AutoTrig) # {}
  <2>1. Len(s) \in Nat /\ WritesOf(s, AutoTrig) \in SUBSET (1 .. Len(s))
    BY SeqFacts DEF WritesOf
  <2>2. PICK i \in WritesOf(s, AutoTrig) : \A j \in WritesOf(s, AutoTrig) : j <= i
    BY <1>2, <2>1, LastExists
  <2>3. LastOf(WritesOf(s, AutoTrig)) = i
    BY <2>1, <2>2, LastIs
  <2>4. i \in 1 .. Len(s) /\ Writes(s[i], AutoTrig)
    BY <2>2 DEF WritesOf, Writes
  <2>5. s[i].val = Off
    BY <2>4 DEF Stops
  <2> QED
    BY <1>2, <2>3, <2>5 DEF Holds
<1> QED
  BY <1>1, <1>2

LEMMA LeftStops ==
    ASSUME NEW s, IsSeq(s), \A i \in 1 .. Len(s) : Stops(s[i].req), NEW t, NEW n, LeftOf(s, t, n)
    PROVE  \A i \in 1 .. Len(t) : Stops(t[i].req)
<1> SUFFICES ASSUME NEW i \in 1 .. Len(t), Writes(t[i].req, AutoTrig)
             PROVE  t[i].req.kind = "set" /\ t[i].req.val = Off
  BY DEF Stops
<1>1. Len(s) \in Nat /\ n \in 1 .. Len(s) /\ Len(t) = Len(s) - n
  BY SeqFacts DEF LeftOf
<1>2. i + n \in 1 .. Len(s) /\ SameRequest(t[i].req, s[i + n].req)
  BY <1>1 DEF LeftOf
<1>3. t[i].req = s[i + n].req /\ Writes(s[i + n].req, AutoTrig)
  BY <1>2, SameIs
<1> QED
  BY <1>2, <1>3 DEF Stops

LEMMA StopsNext ==
    ASSUME Shape, AStep, \A i \in 1 .. Len(op) : Stops(op[i].req),
           \A i \in 1 .. Len(pending) : Stops(pending[i])
    PROVE  /\ \A i \in 1 .. Len(op') : Stops(op'[i].req)
           /\ \A i \in 1 .. Len(pending') : Stops(pending'[i])
<1>1. \A i \in 1 .. Len(op') : Stops(op'[i].req)
  BY OpLeft, LeftStops DEF Shape, GoodSteps
<1>2. ASSUME NEW i \in 1 .. Len(pending') PROVE Stops(pending'[i])
  <2>1. CASE \E j \in 1 .. Len(pending) : pending'[i] = pending[j]
    BY <2>1
  <2>2. CASE op # <<>> /\ pending'[i] = Message(op[1].req)
    <3> DEFINE r == op[1].req
               m == Message(r)
    <3>1. /\ 1 \in 1 .. Len(op) /\ (Writes(m, AutoTrig) <=> Writes(r, AutoTrig))
          /\ r.kind # "modify" => m = r
      BY <2>2, MessageWrites
    <3>2. Stops(r)
      BY <3>1
    <3> HIDE DEF r, m
    <3>3. Stops(m)
      BY <3>1, <3>2 DEF Stops
    <3> QED
      BY <2>2, <3>3 DEF m, r
  <2> QED
    BY <2>1, <2>2, PendingFrom
<1> QED
  BY <1>1, <1>2

(* The trigger is off, or will be: no step but a fault changes this. *)
LEMMA QuietNext ==
    ASSUME Shape, AStep, Simple(op), \A i \in 1 .. Len(op) : Stops(op[i].req),
           ToSend(AutoTrig) \/ WillHold(AutoTrig) = Off, Faults' = Faults
    PROVE  ToSend(AutoTrig)' \/ WillHold(AutoTrig)' = Off
<1>1. ~ NotSent /\ ~ Refused
  BY FaultsNext
<1>2. ASSUME Sent, Writes(op[1].req, AutoTrig) PROVE WillHold(AutoTrig)' = Off
  <2>1. op # <<>> /\ pending' = Append(pending, Message(op[1].req)) /\ UNCHANGED device
    BY <1>2 DEF Sent
  <2>2. 1 \in 1 .. Len(op) /\ Writes(Message(op[1].req), AutoTrig)
    BY <1>2, <2>1, MessageWrites
  <2>3. op[1].req.kind = "set" /\ op[1].req.val = Off
    BY <1>2, <2>2 DEF Stops
  <2>4. Message(op[1].req) = op[1].req
    BY <2>1, <2>3, MessageWrites
  <2> QED
    BY <2>1, <2>2, <2>3, <2>4, SendHolds DEF Shape, Writes
<1>3. CASE ToSend(AutoTrig)
  <2>1. \A i \in 1 .. Len(op) : Writes(op[i].req, AutoTrig) => op[i].req.kind = "set"
    BY DEF Stops
  <2> QED
    BY <1>1, <1>2, <1>3, <2>1, ToSendNext
<1>4. CASE WillHold(AutoTrig) = Off
  BY <1>1, <1>2, <1>4, WillHoldStep
<1> QED
  BY <1>3, <1>4

LEMMA QuietStep ==
    ASSUME Shape, QuietInv, AStep, Shape', UNCHANGED <<program, place>> PROVE QuietInv'
<1> SUFFICES ASSUME program = "main", place # "joining"
             PROVE  QuietInv'
  BY DEF QuietInv
<1>0. /\ Simple(op) /\ \A i \in 1 .. Len(op) : Stops(op[i].req)
      /\ \A i \in 1 .. Len(pending) : Stops(pending[i])
      /\ place = "stopped" /\ Faults = 0 => ToSend(AutoTrig) \/ WillHold(AutoTrig) = Off
      /\ place \in Configured \cup {"initialised"} =>
              /\ Faults = 0 => Stored(AutoTrig) = Off
              /\ Faults <= 1 => ToSend(AutoTrig) \/ WillHold(AutoTrig) = Off
  BY DEF QuietInv
<1>1. Simple(op')
  BY <1>0, SimpleKept
<1>2. /\ \A i \in 1 .. Len(op') : Stops(op'[i].req)
      /\ \A i \in 1 .. Len(pending') : Stops(pending'[i])
  BY <1>0, StopsNext
<1>3. Faults \in Nat /\ Faults' \in Nat /\ (Faults' = Faults \/ Faults' = Faults + 1)
  BY FaultsNext DEF AStep
<1>4. ASSUME place = "stopped", Faults' = 0
      PROVE  ToSend(AutoTrig)' \/ WillHold(AutoTrig)' = Off
  <2>1. Faults = 0 /\ Faults' = Faults
    BY <1>3, <1>4
  <2> QED
    BY <1>0, <1>4, <2>1, QuietNext
<1>5. ASSUME place \in Configured \cup {"initialised"}, Faults = 0
      PROVE  Stored(AutoTrig)' = Off
  <2>1. Stored(AutoTrig) = Off
    BY <1>0, <1>5
  <2>2. CASE UNCHANGED device
    BY <2>1, <2>2 DEF Stored
  <2>3. CASE Handled
    <3>1. 1 \in 1 .. Len(pending) /\ Stops(pending[1])
      <4>1. 1 \in 1 .. Len(pending)
        BY <2>3, HeadIs, SeqFacts DEF Handled, Shape
      <4> QED
        BY <1>0, <4>1
    <3>2. CASE Command(pending[1]) = "set"
      <4>1. device' = Written(Place(pending[1]), pending[1].val)
        BY <2>3, <3>2 DEF Handled
      <4>2. Stored(AutoTrig)' = IF AutoTrig = Place(pending[1]) THEN pending[1].val
                                                                ELSE Stored(AutoTrig)
        BY <4>1, WriteStores
      <4> QED
        BY <2>1, <3>1, <3>2, <4>2 DEF Stops, Writes
    <3>3. CASE Command(pending[1]) # "set"
      BY <2>2, <2>3, <3>3 DEF Handled
    <3> QED
      BY <3>2, <3>3
  <2> QED
    BY <2>2, <2>3 DEF AStep, Sent, NotSent, NoReply, GotReply, Refused
<1>6. ASSUME place \in Configured \cup {"initialised"}
      PROVE  /\ Faults' = 0 => Stored(AutoTrig)' = Off
             /\ Faults' <= 1 => ToSend(AutoTrig)' \/ WillHold(AutoTrig)' = Off
  <2>1. Faults' = 0 => Stored(AutoTrig)' = Off
    BY <1>3, <1>5, <1>6
  <2>2. CASE Faults = 0
    <3>1. Stored(AutoTrig)' = Off /\ IsSeq(pending')
      BY <1>5, <1>6, <2>2 DEF Shape
    <3>2. Holds(pending', Off, AutoTrig) = Off
      BY <1>2, <3>1, AllOff
    <3>3. WillHold(AutoTrig)' = Holds(pending', Stored(AutoTrig)', AutoTrig)
      BY <3>1, WillHoldNext
    <3> QED
      BY <2>1, <3>1, <3>2, <3>3
  <2>3. CASE Faults # 0 /\ Faults' <= 1
    <3>1. Faults <= 1 /\ Faults' = Faults
      BY <1>3, <2>3
    <3> QED
      BY <1>0, <1>6, <2>1, <3>1, QuietNext
  <2> QED
    BY <2>1, <2>2, <2>3
<1>7. /\ IsSeq(op) /\ Len(op) \in Nat
  BY SeqFacts DEF Shape, GoodSteps
<1>8. ASSUME NEW i \in 1 .. Len(op'), Writes(op'[i].req, AutoTrig)
      PROVE  \E k \in 1 .. Len(op) : Writes(op[k].req, AutoTrig) /\ Len(op) - k = Len(op') - i
  <2>1. CASE op' = op
    BY <1>8, <2>1
  <2>2. ASSUME NEW n, LeftOf(op, op', n)
        PROVE  \E k \in 1 .. Len(op) : Writes(op[k].req, AutoTrig) /\ Len(op) - k = Len(op') - i
    <3>1. n \in 1 .. Len(op) /\ Len(op') = Len(op) - n
      BY <2>2 DEF LeftOf
    <3>2. i + n \in 1 .. Len(op) /\ SameRequest(op'[i].req, op[i + n].req)
      BY <1>7, <2>2, <3>1 DEF LeftOf
    <3>3. Writes(op[i + n].req, AutoTrig) /\ Len(op) - (i + n) = Len(op') - i
      BY <1>7, <1>8, <3>1, <3>2, SameIs
    <3> QED
      BY <3>2, <3>3
  <2> QED
    BY <2>1, <2>2, OpLeft
<1>9. place = "initialised" => \A i \in 1 .. Len(op') : Writes(op'[i].req, AutoTrig) =>
               Len(op') - i >= Len(initDetector) - Len(stopContReadout)
  <2>1. place = "initialised" => \A i \in 1 .. Len(op) : Writes(op[i].req, AutoTrig) =>
               Len(op) - i >= Len(initDetector) - Len(stopContReadout)
    BY DEF QuietInv
  <2> QED
    BY <1>8, <2>1
<1>a. place \in Configured => \A i \in 1 .. Len(op') : ~ Writes(op'[i].req, AutoTrig)
  <2>1. place \in Configured => \A i \in 1 .. Len(op) : ~ Writes(op[i].req, AutoTrig)
    BY DEF QuietInv
  <2> QED
    BY <1>8, <2>1
<1>b. /\ \A i : Stops(op[i].req)' <=> Stops(op'[i].req)
      /\ \A i : Stops(pending[i])' <=> Stops(pending'[i])
      /\ \A i : Writes(op[i].req, AutoTrig)' <=> Writes(op'[i].req, AutoTrig)
      /\ Simple(op)' <=> Simple(op')
      /\ Len(initDetector)' = Len(initDetector) /\ Len(stopContReadout)' = Len(stopContReadout)
  OBVIOUS
<1>c. place' = place /\ program' = program /\ Configured' = Configured
  BY DEF Configured
<1> QED
  BY <1>1, <1>2, <1>4, <1>6, <1>9, <1>a, <1>b, <1>c DEF QuietInv

-----------------------------------------------------------------------------
(* A get by itself.                                                        *)

LEMMA GetIs ==
    ASSUME NEW what, NEW dev, NEW at
    PROVE  LET r == Get(what, dev, at) IN
           /\ r.kind = "get" /\ r.what = what /\ r.dev = dev /\ r.at = at /\ Command(r) = "get"
           /\ Place(r) = <<what, dev, at>> /\ Message(r) = r /\ Message(r)' = r
BY DEF Get, Req, Command, Place, Message

(* An operation of one request ends with its failure or its answer. *)
LEMMA LastOne ==
    ASSUME Shape, AStep, Len(op) = 1, op[1].skip = 0
    PROVE  \/ Sent \/ Handled \/ Refused
           \/ op' = <<>> /\ (ret' => GotReply /\ Accepts(sock[1]))
<1>1. IsSeq(op) /\ Dropped = 1
  BY DEF Shape, GoodSteps, Dropped
<1>2. ASSUME LeftOf(op, op', 1) PROVE op' = <<>>
  <2>1. IsSeq(op') /\ Len(op') = 0
    BY <1>2 DEF LeftOf
  <2> QED
    BY <2>1, SeqFacts
<1>3. CASE NotSent \/ NoReply
  BY <1>1, <1>2, <1>3 DEF NotSent, NoReply
<1>4. CASE GotReply
  BY <1>1, <1>2, <1>4 DEF GotReply
<1> QED
  BY <1>3, <1>4 DEF AStep

LEMMA AnsweredStep ==
    ASSUME Shape, AStep, NEW what, NEW dev, NEW w, AnsweredBy(what, dev, w),
           \A i \in 1 .. Len(sock) :
               sock[i].kind = "get" /\ sock[i].what = what /\ sock[i].dev = dev => sock[i].val \in w
    PROVE  \/ Len(op') = 1 /\ op'[1].req = Get(what, dev, 0) /\ op'[1].skip = 0
           \/ op' = <<>> /\ (ret' => readval' \in w)
<1>1. CASE op = <<>>
  <2>1. ret => readval \in w
    BY <1>1, EmptyIs DEF AnsweredBy
  <2>2. Handled \/ Refused
    BY <1>1 DEF AStep, Sent, NotSent, NoReply, GotReply
  <2> QED
    BY <1>1, <2>1, <2>2 DEF Handled, Refused
<1>2. CASE Len(op) = 1 /\ op[1].req = Get(what, dev, 0) /\ op[1].skip = 0
  <2>1. CASE Sent \/ Handled \/ Refused
    BY <1>2, <2>1 DEF Sent, Handled, Refused
  <2>2. CASE op' = <<>> /\ (ret' => GotReply /\ Accepts(sock[1]))
    <3>1. ASSUME ret' PROVE readval' \in w
      <4>1. GotReply /\ Accepts(sock[1])
        BY <2>2, <3>1
      <4>2. asked = Get(what, dev, 0)
        BY <1>2, <4>1, GetIs DEF Shape, GotReply
      <4>3. /\ sock[1].kind = "get" /\ sock[1].what = what /\ sock[1].dev = dev
        BY <4>1, <4>2, GetIs DEF Accepts, Matches
      <4>4. 1 \in 1 .. Len(sock) /\ readval' = sock[1].val
        <5>1. 1 \in 1 .. Len(sock)
          BY <4>1, HeadIs, SeqFacts DEF GotReply, Shape
        <5> QED
          BY <4>1, <4>3, <5>1 DEF GotReply
      <4> QED
        BY <4>3, <4>4
    <3> QED
      BY <2>2, <3>1
  <2> QED
    BY <1>2, <2>1, <2>2, LastOne
<1> QED
  BY <1>1, <1>2 DEF AnsweredBy

-----------------------------------------------------------------------------
(* The tables.                                                             *)

LEMMA StoredNext ==
    ASSUME Shape, AStep, NEW p, \A i \in 1 .. Len(pending) : ~ Writes(pending[i], p)
    PROVE  Stored(p)' = Stored(p)
<1>1. CASE UNCHANGED device
  BY <1>1 DEF Stored
<1>2. CASE Handled
  <2>1. 1 \in 1 .. Len(pending)
    BY <1>2, HeadIs, SeqFacts DEF Handled, Shape
  <2>2. CASE Command(pending[1]) = "set"
    <3>1. device' = Written(Place(pending[1]), pending[1].val)
      BY <1>2, <2>2 DEF Handled
    <3>2. Place(pending[1]) # p
      BY <2>1, <2>2 DEF Writes
    <3> QED
      BY <3>1, <3>2, WriteStores
  <2>3. CASE Command(pending[1]) # "set"
    BY <1>1, <1>2, <2>3 DEF Handled
  <2> QED
    BY <2>2, <2>3
<1> QED
  BY <1>1, <1>2 DEF AStep, Sent, NotSent, NoReply, GotReply, Refused

LEMMA LeftFirmware ==
    ASSUME NEW s, IsSeq(s), \A i \in 1 .. Len(s) : IsFirmware(s[i].req), NEW t, NEW n,
           LeftOf(s, t, n)
    PROVE  \A i \in 1 .. Len(t) : IsFirmware(t[i].req)
<1> SUFFICES ASSUME NEW i \in 1 .. Len(t), t[i].req.what = "FIRMWVERSION"
             PROVE  t[i].req = Get("FIRMWVERSION", 0, 0)
  BY DEF IsFirmware
<1>1. Len(s) \in Nat /\ n \in 1 .. Len(s) /\ Len(t) = Len(s) - n
  BY SeqFacts DEF LeftOf
<1>2. i + n \in 1 .. Len(s) /\ SameRequest(t[i].req, s[i + n].req)
  BY <1>1 DEF LeftOf
<1>3. s[i + n].req.what = "FIRMWVERSION"
  BY <1>2, PlaceIs DEF SameRequest
<1>4. s[i + n].req = Get("FIRMWVERSION", 0, 0)
  BY <1>2, <1>3 DEF IsFirmware
<1>5. s[i + n].req.kind = "get"
  BY <1>4, GetIs
<1> QED
  BY <1>2, <1>4, <1>5 DEF SameRequest

LEMMA TablesStep ==
    ASSUME Shape, TablesInv, AStep, UNCHANGED <<place, lutBug>> PROVE TablesInv'
<1> DEFINE q == Get("FIRMWVERSION", 0, 0)
<1>1. /\ Stored(Firmware) \in {On, Off}
      /\ \A i \in 1 .. Len(op) : IsFirmware(op[i].req)
      /\ \A i \in 1 .. Len(pending) : IsFirmware(pending[i])
      /\ \A i \in 1 .. Len(sock) : sock[i].kind = "get" /\ sock[i].what = "FIRMWVERSION" =>
             sock[i].val \in {Off, Stored(Firmware)}
      /\ place = "version" => AnsweredBy("FIRMWVERSION", 0, {Off, Stored(Firmware)})
      /\ lutBug = "no" => Stored(Firmware) = On
  BY DEF TablesInv, TablesErrOneWay
<1>2. \A r : IsFirmware(r) => ~ Writes(r, Firmware)
  <2> SUFFICES ASSUME NEW r, IsFirmware(r), Writes(r, Firmware) PROVE FALSE
    OBVIOUS
  <2>1. r.what = "FIRMWVERSION"
    BY DEF Writes, Place, Firmware
  <2>2. r = q
    BY <2>1 DEF IsFirmware
  <2> QED
    BY <2>2, GetIs DEF Writes
<1>3. Stored(Firmware)' = Stored(Firmware)
  BY <1>1, <1>2, StoredNext
<1>4. \A i \in 1 .. Len(op') : IsFirmware(op'[i].req)
  <2>1. CASE op' = op
    BY <1>1, <2>1
  <2>2. CASE \E n : LeftOf(op, op', n)
    BY <1>1, <2>2, LeftFirmware DEF Shape, GoodSteps
  <2> QED
    BY <2>1, <2>2, OpLeft
<1>5. ASSUME NEW i \in 1 .. Len(pending') PROVE IsFirmware(pending'[i])
  <2>1. CASE \E j \in 1 .. Len(pending) : pending'[i] = pending[j]
    BY <1>1, <2>1
  <2>2. CASE op # <<>> /\ pending'[i] = Message(op[1].req)
    <3> DEFINE r == op[1].req
               m == Message(r)
    <3>1. 1 \in 1 .. Len(op) /\ IsReq(r) /\ OwnBits(r)
      BY <2>2, HeadReq DEF Shape
    <3>2. IsFirmware(r) /\ Place(m) = Place(r)
      BY <1>1, <3>1, MessageIs
    <3>3. ASSUME m.what = "FIRMWVERSION" PROVE m = q
      <4>1. r.what = "FIRMWVERSION"
        BY <3>2, <3>3, PlaceIs
      <4>2. r = q
        BY <3>2, <4>1 DEF IsFirmware
      <4> QED
        BY <4>2, GetIs
    <3> HIDE DEF m, r
    <3> QED
      BY <2>2, <3>3 DEF IsFirmware, m, r
  <2> QED
    BY <2>1, <2>2, PendingFrom
<1>6. ASSUME NEW i \in 1 .. Len(sock'), sock'[i].kind = "get", sock'[i].what = "FIRMWVERSION"
      PROVE  sock'[i].val \in {Off, Stored(Firmware)}
  <2>1. CASE \E j \in 1 .. Len(sock) : sock'[i] = sock[j]
    BY <1>1, <1>6, <2>1
  <2>2. ASSUME NEW err, sock'[i] = Reply(pending[1], err), 1 \in 1 .. Len(pending)
        PROVE  sock'[i].val \in {Off, Stored(Firmware)}
    <3>1. pending[1].what = "FIRMWVERSION"
      BY <1>6, <2>2, ReplyIs
    <3>2. pending[1] = q
      BY <1>1, <2>2, <3>1 DEF IsFirmware
    <3>3. Place(pending[1]) = Firmware
      BY <3>2, GetIs DEF Firmware
    <3>4. sock'[i].val = Stored(Firmware) \/ sock'[i].val = {}
      BY <2>2, <3>3, ReplyIs
    <3> QED
      BY <3>4 DEF Off
  <2> QED
    BY <2>1, <2>2, SockFrom
<1>7. ASSUME place = "version"
      PROVE  \/ Len(op') = 1 /\ op'[1].req = q /\ op'[1].skip = 0
             \/ op' = <<>> /\ (ret' => readval' \in {Off, Stored(Firmware)})
  <2> DEFINE w == {Off, Stored(Firmware)}
  <2>1. AnsweredBy("FIRMWVERSION", 0, w)
    BY <1>1, <1>7
  <2>2. \A i \in 1 .. Len(sock) :
            sock[i].kind = "get" /\ sock[i].what = "FIRMWVERSION" /\ sock[i].dev = 0 =>
                sock[i].val \in w
    BY <1>1
  <2> HIDE DEF w
  <2>3. \/ Len(op') = 1 /\ op'[1].req = q /\ op'[1].skip = 0
        \/ op' = <<>> /\ (ret' => readval' \in w)
    BY <2>1, <2>2, AnsweredStep
  <2> QED
    BY <2>3 DEF w
<1>8. /\ Stored(Firmware)' \in {On, Off}
      /\ \A i \in 1 .. Len(sock') : sock'[i].kind = "get" /\ sock'[i].what = "FIRMWVERSION" =>
             sock'[i].val \in {Off, Stored(Firmware)'}
      /\ lutBug' = "no" => Stored(Firmware)' = On
  BY <1>1, <1>3, <1>6
<1>9. place' = "version" => AnsweredBy("FIRMWVERSION", 0, {Off, Stored(Firmware)})'
  BY <1>3, <1>7 DEF AnsweredBy
<1>a. \A r : IsFirmware(r) <=> (r.what = "FIRMWVERSION" => r = q)
  BY DEF IsFirmware
<1> QED
  BY <1>4, <1>5, <1>8, <1>9 DEF TablesInv, TablesErrOneWay, IsFirmware

-----------------------------------------------------------------------------
(* SpidrDaq.                                                               *)

(* Without faults, nothing happens between operations; what is in line is  *)
(* the request awaited; and its reply is accepted.                         *)
LEMMA NoFaults ==
    ASSUME Shape, LockStep, AStep, Faults' = 0
    PROVE  /\ Faults = 0 /\ timeouts = 0 /\ refusals = 0 /\ op # <<>>
           /\ Sent \/ GotReply \/ Handled
           /\ Handled => asked # Nobody /\ pending[1] = Message(op[1].req)
<1>1. Faults \in Nat /\ Faults' # Faults + 1 /\ (Sent \/ GotReply \/ Handled => Faults' = Faults)
  BY FaultsNext
<1>2. Sent \/ GotReply \/ Handled
  BY <1>1, FaultsNext DEF AStep
<1>3. Faults = 0 /\ timeouts = 0 /\ refusals = 0
  <2>1. timeouts \in Nat /\ refusals \in Nat
    BY DEF Shape
  <2> QED
    BY <1>1, <1>2, <2>1 DEF Faults
<1>4. ASSUME Handled PROVE asked # Nobody /\ op # <<>> /\ pending[1] = Message(op[1].req)
  <2>1. Len(pending) # 0
    BY <1>4, SeqFacts DEF Handled, Shape
  <2>2. asked # Nobody /\ Written1
    BY <1>3, <2>1 DEF LockStep, Answered
  <2> QED
    BY <2>2 DEF Shape, Written1
<1> QED
  BY <1>2, <1>3, <1>4 DEF Sent, GotReply

LEMMA ReplyDone ==
    ASSUME Shape, LockStep, GotReply, timeouts = 0,
           \A i \in 1 .. Len(sock) : sock[i].err = "none"
    PROVE  /\ sock[1] = Reply(asked, "none")
           /\ Command(asked) = "set" => Stored(Place(asked)) = asked.val
<1>1. asked # Nobody /\ sock # <<>> /\ Len(sock) # 0 /\ 1 \in 1 .. Len(sock)
  BY HeadIs, SeqFacts DEF GotReply, Shape
<1>2. PICK err \in {"none", "refused", "short"} : Answered(err)
  BY <1>1 DEF LockStep, Written1
<1>3. sock[1] = Reply(asked, err)
  BY <1>2 DEF Answered
<1>4. err = "none"
  BY <1>1, <1>3, ReplyIs
<1> QED
  BY <1>2, <1>3, <1>4 DEF Answered

LEMMA GetDone ==
    ASSUME Shape, LockStep, AStep, Faults' = 0, \A i \in 1 .. Len(sock) : sock[i].err = "none",
           NEW what, NEW dev, Len(op) = 1, op[1].req = Get(what, dev, 0), op[1].skip = 0
    PROVE  /\ UNCHANGED device
           /\ \/ Len(op') = 1 /\ op'[1].req = Get(what, dev, 0) /\ op'[1].skip = 0
              \/ op' = <<>> /\ ret' /\ readval' = Stored(<<what, dev, 0>>)
<1>1. timeouts = 0 /\ (Sent \/ GotReply \/ Handled)
  BY NoFaults
<1>2. CASE Sent
  BY <1>2 DEF Sent
<1>3. CASE Handled
  <2>1. Command(pending[1]) = "get"
    BY <1>3, NoFaults, GetIs
  <2> QED
    BY <1>3, <2>1 DEF Handled
<1>4. CASE GotReply
  <2>1. asked = Get(what, dev, 0) /\ UNCHANGED device
    BY <1>4, GetIs DEF Shape, GotReply
  <2>2. sock[1] = Reply(asked, "none") /\ Head(sock) = sock[1]
    BY <1>1, <1>4, ReplyDone DEF GotReply
  <2>3. /\ sock[1].kind = "get" /\ sock[1].what = what /\ sock[1].dev = dev /\ sock[1].at = 0
        /\ sock[1].err = "none" /\ sock[1].val = Stored(<<what, dev, 0>>)
        /\ Command(asked) = "get" /\ asked.kind = "get" /\ asked.what = what /\ asked.dev = dev
        /\ asked.at = 0
    BY <2>1, <2>2, ReplyIs, GetIs
  <2>4. Accepts(sock[1])
    BY <2>2, <2>3 DEF Accepts, LongEnough, Matches, Echoed, Verified
  <2>5. /\ LeftOf(op, op', 1) /\ ret' = (Len(op) = 1) /\ readval' = sock[1].val
    BY <1>4, <2>3, <2>4 DEF GotReply
  <2>6. op' = <<>>
    <3>1. IsSeq(op') /\ Len(op') = 0
      BY <2>5 DEF LeftOf
    <3> QED
      BY <3>1, SeqFacts
  <2> QED
    BY <2>1, <2>3, <2>5, <2>6
<1> QED
  BY <1>1, <1>2, <1>3, <1>4

LEMMA SetDone ==
    ASSUME Shape, LockStep, AStep, Faults' = 0, \A i \in 1 .. Len(sock) : sock[i].err = "none",
           NEW what, NEW dev, NEW val, Len(op) = 1, op[1].req = Set(what, dev, val),
           op[1].skip = 0
    PROVE  \/ Len(op') = 1 /\ op'[1].req = Set(what, dev, val) /\ op'[1].skip = 0
           \/ op' = <<>> /\ Stored(<<what, dev, 0>>)' = val
<1> DEFINE r == Set(what, dev, val)
<1>0. /\ Message(r) = r /\ Command(r) = "set" /\ Place(r) = <<what, dev, 0>> /\ r.val = val
  BY DEF Set, Req, Message, Command, Place
<1>1. timeouts = 0 /\ (Sent \/ GotReply \/ Handled)
  BY NoFaults
<1>2. CASE Sent \/ Handled
  BY <1>2 DEF Sent, Handled
<1>3. CASE GotReply
  <2>1. asked = r /\ UNCHANGED device
    BY <1>0, <1>3 DEF Shape, GotReply
  <2>2. Stored(<<what, dev, 0>>) = val
    BY <1>0, <1>1, <1>3, <2>1, ReplyDone
  <2>3. op' = <<>>
    <3>1. ~ Sent /\ ~ Handled /\ ~ Refused
      BY <1>3 DEF GotReply, Sent, Handled, Refused
    <3> QED
      BY <3>1, LastOne
  <2>4. Stored(<<what, dev, 0>>)' = Stored(<<what, dev, 0>>)
    BY <2>1 DEF Stored
  <2> QED
    BY <2>2, <2>3, <2>4
<1> QED
  BY <1>1, <1>2, <1>3

LEMMA LeftEnables ==
    ASSUME NEW s, IsSeq(s), NEW t, NEW n, LeftOf(s, t, n)
    PROVE  /\ (\A i \in 1 .. Len(s) : Enables(s[i].req)) => \A i \in 1 .. Len(t) : Enables(t[i].req)
           /\ (\A i \in 1 .. Len(s) : s[i].req.kind = "get") =>
                  \A i \in 1 .. Len(t) : t[i].req.kind = "get"
<1>1. Len(s) \in Nat /\ n \in 1 .. Len(s) /\ Len(t) = Len(s) - n
  BY SeqFacts DEF LeftOf
<1>2. ASSUME NEW i \in 1 .. Len(t)
      PROVE  i + n \in 1 .. Len(s) /\ SameRequest(t[i].req, s[i + n].req)
  BY <1>1 DEF LeftOf
<1>3. \A r, q : SameRequest(r, q) => r.kind = q.kind /\ (Enables(q) => Enables(r))
  BY DEF SameRequest, Enables
<1> QED
  BY <1>2, <1>3

LEMMA DaqRequests ==
    ASSUME Shape, AStep, \A i \in 1 .. Len(op) : Enables(op[i].req),
           \A i \in 1 .. Len(pending) : Enables(pending[i]),
           refusals = 0 => \A i \in 1 .. Len(sock) : sock[i].err = "none"
    PROVE  /\ \A i \in 1 .. Len(op') : Enables(op'[i].req)
           /\ \A i \in 1 .. Len(pending') : Enables(pending'[i])
           /\ refusals' = 0 => \A i \in 1 .. Len(sock') : sock'[i].err = "none"
           /\ \A p : p # AcqEnable => Stored(p)' = Stored(p)
<1>1. \A i \in 1 .. Len(op') : Enables(op'[i].req)
  <2>1. CASE op' = op
    BY <2>1
  <2>2. CASE \E n : LeftOf(op, op', n)
    BY <2>2, LeftEnables DEF Shape, GoodSteps
  <2> QED
    BY <2>1, <2>2, OpLeft
<1>2. ASSUME NEW i \in 1 .. Len(pending') PROVE Enables(pending'[i])
  <2>1. CASE \E j \in 1 .. Len(pending) : pending'[i] = pending[j]
    BY <2>1
  <2>2. CASE op # <<>> /\ pending'[i] = Message(op[1].req)
    <3>1. 1 \in 1 .. Len(op) /\ Enables(op[1].req)
      BY <2>2, HeadReq DEF Shape
    <3>2. Message(op[1].req) = op[1].req
      BY <2>2, <3>1, MessageWrites DEF Enables
    <3> QED
      BY <2>2, <3>1, <3>2
  <2> QED
    BY <2>1, <2>2, PendingFrom
<1>3. ASSUME refusals' = 0, NEW i \in 1 .. Len(sock') PROVE sock'[i].err = "none"
  <2>1. ~ Refused /\ refusals = 0
    BY <1>3 DEF AStep, Sent, NotSent, NoReply, GotReply, Handled, Refused, Shape
  <2>2. CASE \E j \in 1 .. Len(sock) : sock'[i] = sock[j]
    BY <2>1, <2>2
  <2>3. CASE sock'[i] = Reply(pending[1], "none")
    BY <2>3, ReplyIs
  <2> QED
    BY <2>1, <2>2, <2>3, SockFrom
<1>4. \A r, p : Enables(r) /\ p # AcqEnable => ~ Writes(r, p)
  BY DEF Enables, Writes, Command
<1>5. \A p : p # AcqEnable => Stored(p)' = Stored(p)
  BY <1>4, StoredNext
<1> QED
  BY <1>1, <1>2, <1>3, <1>5

LEMMA GetsStore ==
    ASSUME Shape, LockStep, AStep, Faults' = 0, \A i \in 1 .. Len(op) : op[i].req.kind = "get"
    PROVE  /\ UNCHANGED device
           /\ \A i \in 1 .. Len(op') : op'[i].req.kind = "get"
<1>1. UNCHANGED device
  <2>1. CASE Handled
    <3>1. op # <<>> /\ pending[1] = Message(op[1].req)
      BY <2>1, NoFaults
    <3>2. 1 \in 1 .. Len(op) /\ op[1].req.kind = "get"
      BY <3>1, HeadReq DEF Shape
    <3>3. pending[1] = op[1].req
      BY <3>1, <3>2, MessageWrites
    <3>4. Command(pending[1]) # "set"
      BY <3>2, <3>3 DEF Command
    <3> QED
      BY <2>1, <3>4 DEF Handled
  <2> QED
    BY <2>1 DEF AStep, Sent, NotSent, NoReply, GotReply, Refused
<1>2. \A i \in 1 .. Len(op') : op'[i].req.kind = "get"
  <2>1. CASE op' = op
    BY <2>1
  <2>2. CASE \E n : LeftOf(op, op', n)
    BY <2>2, LeftEnables DEF Shape, GoodSteps
  <2> QED
    BY <2>1, <2>2, OpLeft
<1> QED
  BY <1>1, <1>2


LEMMA DaqStep ==
    ASSUME Shape, LockStep, DaqInv, AStep, UNCHANGED <<prog, base>>
    PROVE  DaqInv'
<1>1. UNCHANGED <<program, place, mask, ids, ports, index, base>>
  BY DEF prog
<1>2. CASE program # "daq"
  BY <1>1, <1>2 DEF DaqInv, DaqWire, DaqPlan
<1>3. CASE program = "daq"
  <2>1. /\ \A i \in 1 .. Len(op) : Enables(op[i].req)
        /\ \A i \in 1 .. Len(pending) : Enables(pending[i])
        /\ refusals = 0 => \A i \in 1 .. Len(sock) : sock[i].err = "none"
        /\ Stored(DeviceIds) = Present
        /\ \A d \in Devs : Stored(<<"SERVERPORT", d, 0>>) = On
        /\ place \in {"start", "address", "ids"} => index = 0 /\ ports = {}
    BY <1>3 DEF DaqInv, DaqWire, DaqPlan
  <2>2. /\ \A i \in 1 .. Len(op') : Enables(op'[i].req)
        /\ \A i \in 1 .. Len(pending') : Enables(pending'[i])
        /\ refusals' = 0 => \A i \in 1 .. Len(sock') : sock'[i].err = "none"
        /\ \A p : p # AcqEnable => Stored(p)' = Stored(p)
    BY <2>1, DaqRequests
  <2>3. /\ Stored(DeviceIds)' = Present
        /\ \A d \in Devs : Stored(<<"SERVERPORT", d, 0>>)' = On
    <3>1. DeviceIds # AcqEnable /\ \A d \in Devs : <<"SERVERPORT", d, 0>> # AcqEnable
      BY DEF DeviceIds, AcqEnable
    <3> QED
      BY <2>1, <2>2, <3>1
  <2>4. \A i \in 1 .. Len(op') : Enables(op[i].req)' <=> Enables(op'[i].req)
    BY DEF Enables, AcqEnable, Place
  <2>5. ASSUME Faults' = 0
        PROVE  /\ place = "ids" =>
                      AnsweredBy("DEVICEIDS", 0, {Present})' /\ (op' = <<>> => ret')
               /\ place \in {"ports", "type"} => ids = Present /\ ports = Found(index)
               /\ place = "type" =>
                     /\ index \in Present
                     /\ AnsweredBy("SERVERPORT", index, {On})' /\ (op' = <<>> => ret')
               /\ place \in {"mask", "enabled", "version", "binding", "bound", "serving"} =>
                     ports = mask \cap Present
               /\ place = "mask" =>
                     AnsweredBy("ACQENABLE", 0, {Stored(AcqEnable)})' /\ (op' = <<>> => ret')
               /\ place = "enabled" =>
                     \/ Len(op') = 1 /\ op'[1].req = Set("ACQENABLE", 0, ports) /\ op'[1].skip = 0
                     \/ op' = <<>> /\ Stored(AcqEnable)' = ports
               /\ place \in {"version", "binding", "bound", "serving"} =>
                     Stored(AcqEnable)' = ports /\ \A i \in 1 .. Len(op') : op'[i].req.kind = "get"
               /\ place \in {"binding", "bound", "serving"} => (0 \in ports => base)
    <3>1. Faults = 0 /\ refusals = 0 /\ op # <<>>
      BY <2>5, NoFaults
    <3>2. \A i \in 1 .. Len(sock) : sock[i].err = "none"
      BY <2>1, <3>1
    <3>3. ASSUME NEW what, NEW dev, NEW w, AnsweredBy(what, dev, w)
          PROVE  /\ UNCHANGED device
                 /\ \/ Len(op') = 1 /\ op'[1].req = Get(what, dev, 0) /\ op'[1].skip = 0
                    \/ op' = <<>> /\ ret' /\ readval' = Stored(<<what, dev, 0>>)
      <4>1. Len(op) = 1 /\ op[1].req = Get(what, dev, 0) /\ op[1].skip = 0
        BY <3>1, <3>3 DEF AnsweredBy
      <4> QED
        BY <2>5, <3>2, <4>1, GetDone
    <3>4. ASSUME NEW what, NEW dev, AnsweredBy(what, dev, {Stored(<<what, dev, 0>>)})
          PROVE  /\ Stored(<<what, dev, 0>>)' = Stored(<<what, dev, 0>>)
                 /\ op' = <<>> => ret'
                 /\ \/ Len(op') = 1 /\ op'[1].req = Get(what, dev, 0) /\ op'[1].skip = 0
                    \/ op' = <<>> /\ ret' /\ readval' = Stored(<<what, dev, 0>>)
      <4>1. op' = <<>> => Len(op') = 0
        BY EmptyIs
      <4> QED
        BY <3>3, <3>4, <4>1 DEF Stored
    <3>5. ASSUME place = "ids"
          PROVE  AnsweredBy("DEVICEIDS", 0, {Present})' /\ (op' = <<>> => ret')
      <4>1. AnsweredBy("DEVICEIDS", 0, {Stored(<<"DEVICEIDS", 0, 0>>)})
        BY <1>3, <2>1, <3>1, <3>5 DEF DaqInv, DaqWire, DaqPlan, DeviceIds
      <4> QED
        BY <2>1, <3>4, <4>1 DEF AnsweredBy, DeviceIds
    <3>6. ASSUME place = "type"
          PROVE  AnsweredBy("SERVERPORT", index, {On})' /\ (op' = <<>> => ret')
      <4>1. index \in Devs /\ AnsweredBy("SERVERPORT", index, {On})
        BY <1>3, <3>1, <3>6, AcquisitionAssumption DEF DaqInv, DaqWire, DaqPlan
      <4>2. AnsweredBy("SERVERPORT", index, {Stored(<<"SERVERPORT", index, 0>>)})
        BY <2>1, <4>1
      <4> QED
        BY <1>1, <2>1, <3>4, <4>1, <4>2 DEF AnsweredBy
    <3>7. ASSUME place = "mask"
          PROVE  AnsweredBy("ACQENABLE", 0, {Stored(AcqEnable)})' /\ (op' = <<>> => ret')
      <4>1. AnsweredBy("ACQENABLE", 0, {Stored(<<"ACQENABLE", 0, 0>>)})
        BY <1>3, <3>1, <3>7 DEF DaqInv, DaqWire, DaqPlan, AcqEnable
      <4> QED
        BY <3>4, <4>1 DEF AnsweredBy, AcqEnable
    <3>8. ASSUME place = "enabled"
          PROVE  \/ Len(op') = 1 /\ op'[1].req = Set("ACQENABLE", 0, ports) /\ op'[1].skip = 0
                 \/ op' = <<>> /\ Stored(AcqEnable)' = ports
      <4>1. Len(op) = 1 /\ op[1].req = Set("ACQENABLE", 0, ports) /\ op[1].skip = 0
        BY <1>3, <3>1, <3>8 DEF DaqInv, DaqWire, DaqPlan
      <4> QED
        BY <2>5, <3>2, <4>1, SetDone DEF AcqEnable
    <3>9. ASSUME place \in {"version", "binding", "bound", "serving"}
          PROVE  Stored(AcqEnable)' = ports /\ \A i \in 1 .. Len(op') : op'[i].req.kind = "get"
      <4>1. Stored(AcqEnable) = ports /\ \A i \in 1 .. Len(op) : op[i].req.kind = "get"
        BY <1>3, <3>1, <3>9 DEF DaqInv, DaqWire, DaqPlan
      <4> QED
        BY <2>5, <4>1, GetsStore DEF Stored
    <3> QED
      BY <1>3, <3>1, <3>5, <3>6, <3>7, <3>8, <3>9 DEF DaqInv, DaqWire, DaqPlan
  <2> QED
    BY <1>1, <1>3, <2>1, <2>2, <2>3, <2>4, <2>5 DEF DaqInv, DaqWire, DaqPlan
<1> QED
  BY <1>2, <1>3

-----------------------------------------------------------------------------
(* The moves of the programs: with an operation begun, or with none.       *)

Same ==
    /\ op = <<>>
    /\ UNCHANGED <<device, pending, sock, op, asked, readval, ret, timeouts, refusals>>
Begun(s) ==
    /\ op = <<>> /\ op' = s /\ ret' = FALSE
    /\ UNCHANGED <<device, pending, sock, asked, readval, timeouts, refusals>>
Moved(from, to) == place = from /\ place' = to
MainMove ==
    /\ UNCHANGED <<mask, ids, ports, index, udp>>
    /\ \/ program = "stop" /\ Moved("start", "exited") /\ Begun(stopContReadout)
       \/ program = "main" /\ Moved("start", "stopped") /\ Begun(stopContReadout)
       \/ program # "daq" /\ Moved("start", "exited") /\ Same
       \/ Moved("stopped", "initialised") /\ Begun(initDetector)
       \/ Moved("spawned", "joining") /\ Begun(Ignored(startContReadout({0})))
AskMove ==
    /\ UNCHANGED <<mask, ids, ports, index, udp>>
    /\ place \in {"initialised", "enabled"} /\ place' = "version"
    /\ Begun(One(Get("FIRMWVERSION", 0, 0)))
DaqMove ==
    /\ UNCHANGED <<mask, udp>>
    /\ \/ /\ program = "daq" /\ Moved("start", "address")
          /\ Begun(One(Get("IPADDR_DEST", 0, 0))) /\ UNCHANGED <<ids, ports, index>>
       \/ /\ Moved("address", "ids") /\ Begun(One(Get("DEVICEIDS", 0, 0)))
          /\ UNCHANGED <<ids, ports, index>>
       \/ Moved("ids", "ports") /\ Same /\ ids' = Result /\ UNCHANGED <<ports, index>>
       \/ /\ index \in ids /\ Moved("ports", "type") /\ Begun(One(Get("SERVERPORT", index, 0)))
          /\ UNCHANGED <<ids, ports, index>>
       \/ /\ Moved("type", "ports") /\ Begun(One(Get("DEVICETYPE", index, 0)))
          /\ ports' = (IF Result = On THEN ports \cup {index} ELSE ports)
          /\ index' = index + 1 /\ UNCHANGED ids
       \/ /\ index \in Devs \ ids /\ Moved("ports", "ports") /\ Same
          /\ index' = index + 1 /\ UNCHANGED <<ids, ports>>
       \/ /\ index = NumDevs /\ Moved("ports", "mask") /\ Begun(One(Get("ACQENABLE", 0, 0)))
          /\ ports' = ports \cap mask /\ UNCHANGED <<ids, index>>
       \/ /\ MustEnable /\ Moved("mask", "enabled") /\ Begun(One(Set("ACQENABLE", 0, ports)))
          /\ UNCHANGED <<ids, ports, index>>
       \/ ~ MustEnable /\ Moved("mask", "enabled") /\ Same /\ UNCHANGED <<ids, ports, index>>
ReceiverMove ==
    /\ UNCHANGED <<mask, ids, ports, index>> /\ Same
    /\ \/ /\ Moved("version", "binding")
          /\ lutBug' = (IF Result = Off THEN "yes" ELSE "no")
          /\ base' = (program = "daq" => 0 \in ports)
       \/ /\ UNCHANGED <<lutBug, base>>
          /\ \/ place = "binding" /\ place' \in {"binding", "bound"}
             \/ Moved("bound", IF program = "daq" THEN "serving" ELSE "spawned")
Move == UNCHANGED program /\ (MainMove \/ AskMove \/ DaqMove \/ ReceiverMove)

LEMMA BeginIs == ASSUME NEW from, NEW steps, NEW to, Operation(from, steps, to)
                 PROVE  Moved(from, to) /\ Begun(steps)
BY DEF Operation, Begin, Moved, Begun, wire

LEMMA StepIs == ASSUME NEW from, NEW to, Step(from, to) PROVE Moved(from, to) /\ Same
BY DEF Step, Moved, Same, vars, wire, ctrl

LEMMA MoveIs == ASSUME Main \/ Daq \/ Receiver PROVE Move
<1>1. CASE StopMode \/ NotConnected \/ MainStops
  BY <1>1, BeginIs, StepIs DEF StopMode, NotConnected, MainStops, Move, MainMove
<1>2. CASE MainInitialises \/ StartTrigger
  BY <1>2, BeginIs DEF MainInitialises, StartTrigger, Move, MainMove
<1>3. CASE AskFirmware
  <2>1. PICK from \in {"initialised", "enabled"} :
            /\ Operation(from, One(Get("FIRMWVERSION", 0, 0)), "version")
            /\ UNCHANGED <<program, mask, ids, ports, index, udp>>
    BY <1>3 DEF AskFirmware
  <2> QED
    BY <2>1, BeginIs DEF Moved, Move, AskMove
<1>4. CASE DaqAddress \/ DaqIds \/ DaqHasIds
  BY <1>4, BeginIs, StepIs DEF DaqAddress, DaqIds, DaqHasIds, Move, DaqMove
<1>5. CASE DaqPort \/ DaqType \/ DaqNoDevice
  BY <1>5, BeginIs, StepIs DEF DaqPort, DaqType, DaqNoDevice, Move, DaqMove
<1>6. CASE DaqMask
  BY <1>6, BeginIs DEF DaqMask, Move, DaqMove
<1>7. CASE DaqEnable
  BY <1>7, BeginIs, StepIs DEF DaqEnable, Move, DaqMove
<1>8. CASE MakeReceiver
  BY <1>8, StepIs DEF MakeReceiver, Move, ReceiverMove
<1>9. CASE BindNext \/ BindFails \/ AllBound \/ Spawn
  <2>1. /\ UNCHANGED <<program, mask, ids, ports, index, lutBug, base>>
        /\ \/ Moved("binding", "binding") /\ Same
           \/ Moved("binding", "bound") /\ Same
           \/ Moved("bound", IF program = "daq" THEN "serving" ELSE "spawned") /\ Same
    BY <1>9, StepIs DEF BindNext, BindFails, AllBound, Spawn, udp
  <2> QED
    BY <2>1 DEF Moved, Move, ReceiverMove
<1> QED
  BY <1>1, <1>2, <1>3, <1>4, <1>5, <1>6, <1>7, <1>8, <1>9 DEF Main, Daq, Receiver

(* What is begun is one of the operations. *)
LEMMA OneGet ==
    ASSUME NEW what, NEW dev, what # "FIRMWVERSION" \/ dev = 0
    PROVE  LET s == One(Get(what, dev, 0)) IN
           /\ Begins(s) /\ Simple(s) /\ Len(s) = 1 /\ s[1].req = Get(what, dev, 0)
           /\ s[1].skip = 0 /\ s[1].req.kind = "get" /\ IsFirmware(s[1].req)
           /\ \A p : ~ Writes(s[1].req, p)
<1> DEFINE r == Get(what, dev, 0)
<1>1. IsReq(r) /\ OwnBits(r) /\ r.kind = "get"
  BY PlainReqs
<1>2. Part(One(r)) /\ Len(One(r)) = 1 /\ One(r)[1] = [req |-> r, skip |-> 0, tested |-> FALSE]
  BY <1>1, OneIs
<1>3. IsFirmware(r) /\ \A p : ~ Writes(r, p)
  BY GetIs DEF IsFirmware, Writes
<1> HIDE DEF r
<1>4. One(r)[1].req = r /\ One(r)[1].skip = 0
  BY <1>2
<1> QED
  BY <1>1, <1>2, <1>3, <1>4 DEF Part, r

LEMMA OneEnable ==
    LET s == One(Set("ACQENABLE", 0, ports)) IN
    /\ Begins(s) /\ Simple(s) /\ Len(s) = 1 /\ s[1].req = Set("ACQENABLE", 0, ports)
    /\ s[1].skip = 0 /\ Enables(s[1].req) /\ IsFirmware(s[1].req)
<1> DEFINE r == Set("ACQENABLE", 0, ports)
<1>1. IsReq(r) /\ OwnBits(r) /\ r.kind = "set"
  BY PlainReqs
<1>2. Part(One(r)) /\ Len(One(r)) = 1 /\ One(r)[1] = [req |-> r, skip |-> 0, tested |-> FALSE]
  BY <1>1, OneIs
<1>3. IsFirmware(r) /\ Enables(r)
  BY DEF Set, Req, IsFirmware, Enables, Place, AcqEnable
<1> HIDE DEF r
<1>4. One(r)[1].req = r /\ One(r)[1].skip = 0
  BY <1>2
<1> QED
  BY <1>2, <1>3, <1>4 DEF Part, r

LEMMA MoveBegins ==
    ASSUME Move
    PROVE  /\ op = <<>> /\ UNCHANGED <<device, pending, sock, asked, timeouts, refusals>>
           /\ \/ Same
              \/ \E s : Begins(s) /\ Begun(s) /\ \A i \in 1 .. Len(s) : IsFirmware(s[i].req)
<1>1. op = <<>> /\ UNCHANGED <<device, pending, sock, asked, timeouts, refusals>>
  BY DEF Move, MainMove, AskMove, DaqMove, ReceiverMove, Begun, Same
<1> DEFINE OK(s) == Begins(s) /\ \A i \in 1 .. Len(s) : IsFirmware(s[i].req)
<1>2. OK(stopContReadout) /\ OK(initDetector) /\ OK(Ignored(startContReadout({0})))
  <2>1. OK(Ignored(startContReadout({0})))
    BY StartIs DEF RequestsOf
  <2> QED
    BY <2>1, StopFacts, InitIs
<1>3. ASSUME NEW what, NEW dev, what # "FIRMWVERSION" \/ dev = 0
      PROVE  OK(One(Get(what, dev, 0)))
  BY <1>3, OneGet
<1>4. OK(One(Set("ACQENABLE", 0, ports)))
  BY OneEnable
<1> HIDE DEF OK
<1>5. Same \/ \E s : OK(s) /\ Begun(s)
  <2>1. CASE MainMove
    BY <1>2, <2>1 DEF MainMove
  <2>2. CASE AskMove
    BY <1>3, <2>2 DEF AskMove
  <2>3. CASE DaqMove
    <3>1. /\ OK(One(Get("IPADDR_DEST", 0, 0))) /\ OK(One(Get("DEVICEIDS", 0, 0)))
          /\ OK(One(Get("SERVERPORT", index, 0))) /\ OK(One(Get("DEVICETYPE", index, 0)))
          /\ OK(One(Get("ACQENABLE", 0, 0)))
      BY <1>3
    <3> QED
      BY <1>4, <2>3, <3>1 DEF DaqMove
  <2>4. CASE ReceiverMove
    BY <2>4 DEF ReceiverMove
  <2> QED
    BY <2>1, <2>2, <2>3, <2>4 DEF Move
<1> QED
  BY <1>1, <1>5 DEF OK

LEMMA MoveKeeps == ASSUME Shape, LockStep, Move PROVE Shape' /\ LockStep'
<1>1. op = <<>> /\ UNCHANGED <<device, pending, sock, asked, timeouts, refusals>>
  BY MoveBegins
<1>2. asked = Nobody
  BY <1>1 DEF Shape
<1>3. GoodSteps(op') /\ (op' # <<>> => op'[1].req.kind # "modify")
  <2>1. CASE Same
    BY <1>1, <2>1 DEF Same, Shape
  <2>2. CASE \E s : Begins(s) /\ Begun(s)
    BY <2>2 DEF Begun, Begins, NotBegun
  <2> QED
    BY <2>1, <2>2, MoveBegins
<1>4. Shape'
  BY <1>1, <1>2, <1>3 DEF Shape
<1>5. LockStep'
  BY <1>1, <1>2, <1>3 DEF LockStep
<1> QED
  BY <1>4, <1>5

(* The requests and replies of an operation change none of the rest. *)
LEMMA PlaceStep ==
    ASSUME Shape, PlaceInv, AStep, UNCHANGED <<program, place>> PROVE PlaceInv'
<1>1. place # "start"
  BY DEF PlaceInv, AStep, Sent, NotSent, NoReply, GotReply, Handled, Refused
<1>2. op = <<>> => op' = <<>>
  BY DEF AStep, Sent, NotSent, NoReply, GotReply, Handled, Refused
<1> QED
  BY <1>1, <1>2 DEF PlaceInv, MainPlaces, DaqPlaces

LEMMA PlaceMove == ASSUME PlaceInv, Move PROVE PlaceInv'
<1>1. UNCHANGED program /\ (Same => op' = <<>>)
  BY DEF Move, Same
<1>2. CASE MainMove \/ AskMove
  BY <1>1, <1>2 DEF MainMove, AskMove, Moved, PlaceInv, MainPlaces, DaqPlaces
<1>3. CASE DaqMove
  BY <1>1, <1>3 DEF DaqMove, Moved, PlaceInv, MainPlaces, DaqPlaces
<1>4. CASE ReceiverMove
  BY <1>1, <1>4 DEF ReceiverMove, Moved, PlaceInv, MainPlaces, DaqPlaces
<1> QED
  BY <1>2, <1>3, <1>4 DEF Move

-----------------------------------------------------------------------------
(* The moves and the tables.                                               *)

LEMMA TablesMove == ASSUME TablesInv, Move PROVE TablesInv'
<1>1. op = <<>> /\ UNCHANGED <<device, pending, sock, asked, timeouts, refusals>>
  BY MoveBegins
<1>2. \A i \in 1 .. Len(op') : IsFirmware(op'[i].req)
  <2>1. CASE Same
    BY <2>1 DEF Same, TablesInv
  <2>2. CASE \E s : Begun(s) /\ \A i \in 1 .. Len(s) : IsFirmware(s[i].req)
    BY <2>2 DEF Begun
  <2> QED
    BY <2>1, <2>2, MoveBegins
<1>3. /\ Stored(Firmware)' = Stored(Firmware)
      /\ \A i : IsFirmware(op[i].req)' <=> IsFirmware(op'[i].req)
      /\ \A i : IsFirmware(pending[i])' <=> IsFirmware(pending[i])
  BY <1>1 DEF Stored, IsFirmware, Firmware
<1>4. place' = "version" => AnsweredBy("FIRMWVERSION", 0, {Off, Stored(Firmware)})'
  <2>1. CASE MainMove \/ DaqMove \/ ReceiverMove
    BY <2>1 DEF MainMove, DaqMove, ReceiverMove, Moved
  <2>2. CASE AskMove
    BY <2>2, OneGet DEF AskMove, Begun, AnsweredBy
  <2> QED
    BY <2>1, <2>2 DEF Move
<1>5. TablesErrOneWay'
  <2>1. lutBug' = lutBug \/ (place = "version" /\ lutBug' = IF Result = Off THEN "yes" ELSE "no")
    BY DEF Move, MainMove, AskMove, DaqMove, ReceiverMove, Moved, udp
  <2>2. CASE lutBug' = lutBug
    BY <1>3, <2>2 DEF TablesInv, TablesErrOneWay
  <2>3. CASE place = "version" /\ lutBug' = IF Result = Off THEN "yes" ELSE "no"
    <3>1. ret => readval \in {Off, Stored(Firmware)}
      <4>1. Len(op) # 1
        BY <1>1, EmptyIs
      <4> QED
        BY <2>3, <4>1 DEF TablesInv, AnsweredBy
    <3>2. Result # Off => Stored(Firmware) = On
      BY <3>1 DEF Result, TablesInv
    <3> QED
      BY <1>3, <2>3, <3>2 DEF TablesErrOneWay
  <2> QED
    BY <2>1, <2>2, <2>3
<1> QED
  BY <1>1, <1>2, <1>3, <1>4, <1>5 DEF TablesInv

-----------------------------------------------------------------------------
(* The moves and the settings: none is lost when an operation begins, for  *)
(* it begins with everything still to be sent.                             *)

LEMMA NothingLeft == ASSUME op = <<>> PROVE \A p : ~ ToSend(p)
BY EmptyIs DEF ToSend, Rest

LEMMA SameHeld ==
    ASSUME UNCHANGED <<device, pending>>
    PROVE  \A p : WillHold(p)' = WillHold(p) /\ Stored(p)' = Stored(p)
BY DEF WillHold, Stored, Command, Place

(* What the main program's moves are, between the two stops and the start  *)
(* of the trigger.                                                         *)
LEMMA MainMoves ==
    ASSUME PlaceInv, Move, program = "main", place' # "exited", place' # "joining"
    PROVE  \/ place = "start" /\ place' = "stopped" /\ Begun(stopContReadout)
           \/ place = "stopped" /\ place' = "initialised" /\ Begun(initDetector)
           \/ /\ place = "initialised" /\ place' = "version"
              /\ Begun(One(Get("FIRMWVERSION", 0, 0)))
           \/ place \in Configured /\ place' \in Configured /\ Same
<1>1. place \notin DaqPlaces
  BY DEF PlaceInv
<1>2. CASE MainMove
  BY <1>2 DEF MainMove, Moved
<1>3. CASE AskMove
  BY <1>1, <1>3 DEF AskMove, DaqPlaces
<1>4. CASE DaqMove
  BY <1>1, <1>4 DEF DaqMove, Moved, DaqPlaces
<1>5. CASE ReceiverMove
  BY <1>5 DEF ReceiverMove, Moved, Configured
<1> QED
  BY <1>2, <1>3, <1>4, <1>5 DEF Move

LEMMA SettingsMove ==
    ASSUME Shape, PlaceInv, SettingsInv, Move PROVE SettingsInv'
<1>0. UNCHANGED program /\ op = <<>> /\ UNCHANGED <<device, pending, asked, timeouts, refusals>>
  BY MoveBegins DEF Move
<1> SUFFICES ASSUME program = "main", place' \in Configured \cup {"initialised"}
             PROVE  /\ Simple(op') /\ LastRight(op')
                    /\ IsFiniteSet(LostSettings') /\ Cardinality(LostSettings') <= Faults'
  BY <1>0 DEF SettingsInv, Simple, LastRight, Lost, Writes, Command, Place, Configured
<1>1. Faults' = Faults /\ Faults \in Nat
  BY <1>0 DEF Faults, Shape
<1>2. \A f \in Wanted : Kept(f)' <=> Kept(f)
  BY <1>0, KeptIs, SameHeld
<1>3. \A p : ~ ToSend(p)
  BY <1>0, NothingLeft
<1>4. ASSUME place \in Configured \cup {"initialised"}, \A p : ~ ToSend(p)'
      PROVE  IsFiniteSet(LostSettings') /\ Cardinality(LostSettings') <= Faults'
  <2>1. IsFiniteSet(LostSettings) /\ Cardinality(LostSettings) <= Faults
    BY <1>0, <1>4 DEF SettingsInv
  <2>2. LostSettings' = {f \in Wanted : ~ Kept(f)' /\ ~ ToSend(f.place)'}
    BY DEF LostSettings
  <2>3. LostSettings = {f \in Wanted : ~ Kept(f) /\ ~ ToSend(f.place)}
    BY DEF LostSettings
  <2>4. LostSettings' = LostSettings
    BY <1>2, <1>3, <1>4, <2>2, <2>3
  <2> QED
    BY <1>1, <2>1, <2>4
<1>5. CASE Begun(initDetector)
  <2>1. op' = initDetector /\ asked' = Nobody
    BY <1>0, <1>5 DEF Begun, Shape
  <2>2. \A f \in Wanted : ToSend(f.place)'
    <3> SUFFICES ASSUME NEW f \in Wanted PROVE ToSend(f.place)'
      OBVIOUS
    <3>1. PICK i \in 1 .. Len(op') : Writes(op'[i].req, f.place)
      BY <2>1, InitIs
    <3> QED
      BY <2>1, <3>1 DEF ToSend, Rest, Writes, Command, Place
  <2>3. LostSettings' = {}
    BY <2>2 DEF LostSettings
  <2> QED
    BY <1>1, <2>1, <2>3, InitIs, FS_EmptySet
<1>6. CASE place = "initialised" /\ Begun(One(Get("FIRMWVERSION", 0, 0)))
  <2> DEFINE s == One(Get("FIRMWVERSION", 0, 0))
  <2>1. op' = s /\ Simple(s) /\ Len(s) = 1 /\ \A p : ~ Writes(s[1].req, p)
    BY <1>6, OneGet DEF Begun
  <2> HIDE DEF s
  <2>2. \A i \in 1 .. Len(s) : \A p : ~ Writes(s[i].req, p)
    BY <2>1
  <2>3. LastRight(s)
    BY <2>2 DEF LastRight
  <2>4. \A p : ~ ToSend(p)'
    BY <2>1, <2>2 DEF ToSend, Rest, Writes, Command, Place
  <2> QED
    BY <1>4, <1>6, <2>1, <2>3, <2>4
<1>7. CASE place \in Configured /\ Same
  <2>1. UNCHANGED <<op, asked>>
    BY <1>7 DEF Same
  <2>2. Simple(op) /\ LastRight(op)
    BY <1>0, <1>7 DEF SettingsInv
  <2>3. \A p : ~ ToSend(p)'
    BY <1>0, <2>1, EmptyIs DEF ToSend, Rest
  <2>4. Simple(op') /\ LastRight(op')
    BY <2>1, <2>2
  <2> QED
    BY <1>4, <1>7, <2>3, <2>4
<1> QED
  BY <1>5, <1>6, <1>7, MainMoves DEF Configured

-----------------------------------------------------------------------------
(* The moves and the trigger: main stops it, and stops it again.           *)

LEMMA QuietMove ==
    ASSUME Shape, LockStep, PlaceInv, QuietInv, Move PROVE QuietInv'
<1>0. UNCHANGED program /\ op = <<>> /\ UNCHANGED <<device, pending, asked, timeouts, refusals>>
  BY MoveBegins DEF Move
<1> SUFFICES ASSUME program = "main", place' # "joining" PROVE QuietInv'
  BY <1>0 DEF QuietInv
<1>1. Faults' = Faults /\ Faults \in Nat /\ asked = Nobody
  BY <1>0 DEF Faults, Shape
<1>2. /\ WillHold(AutoTrig)' = WillHold(AutoTrig) /\ Stored(AutoTrig)' = Stored(AutoTrig)
      /\ ~ ToSend(AutoTrig)
  BY <1>0, NothingLeft, SameHeld
<1>3. place # "joining"
  BY DEF Move, MainMove, AskMove, DaqMove, ReceiverMove, Moved
<1>4. /\ Simple(op) /\ \A i \in 1 .. Len(op) : Stops(op[i].req)
      /\ \A i \in 1 .. Len(pending) : Stops(pending[i])
      /\ place = "stopped" /\ Faults = 0 => WillHold(AutoTrig) = Off
      /\ place \in Configured \cup {"initialised"} =>
              /\ Faults = 0 => Stored(AutoTrig) = Off
              /\ Faults <= 1 => WillHold(AutoTrig) = Off
  BY <1>2, <1>3 DEF QuietInv
<1>5. /\ \A i : Stops(op[i].req)' <=> Stops(op'[i].req)
      /\ \A i : Stops(pending[i])' <=> Stops(pending'[i])
      /\ \A i : Writes(op[i].req, AutoTrig)' <=> Writes(op'[i].req, AutoTrig)
      /\ Simple(op)' <=> Simple(op')
      /\ Len(initDetector)' = Len(initDetector) /\ Len(stopContReadout)' = Len(stopContReadout)
  OBVIOUS
<1>6. \A i \in 1 .. Len(pending') : Stops(pending'[i])
  BY <1>0, <1>4
<1>7. ASSUME NEW i \in 1 .. Len(op'), Writes(op'[i].req, AutoTrig) PROVE ToSend(AutoTrig)'
  <2>1. asked' = Nobody
    BY <1>0, <1>1
  <2> QED
    BY <1>7, <2>1 DEF ToSend, Rest, Writes, Command, Place, AutoTrig
<1>8. CASE place' = "exited"
  <2>1. op' = op
    BY <1>0, <1>8 DEF Move, MainMove, AskMove, DaqMove, ReceiverMove, Moved, Same
  <2> QED
    BY <1>4, <1>5, <1>6, <1>8, <2>1 DEF QuietInv, Configured
<1>9. CASE place' = "stopped" /\ Begun(stopContReadout)
  <2>1. op' = stopContReadout
    BY <1>9 DEF Begun
  <2>2. Simple(op') /\ \A i \in 1 .. Len(op') : Stops(op'[i].req)
    BY <2>1, StopFacts
  <2>3. ToSend(AutoTrig)'
    BY <1>7, <2>1, StopFacts
  <2> QED
    BY <1>5, <1>6, <1>9, <2>2, <2>3 DEF QuietInv, Configured
<1>a. CASE place = "stopped" /\ place' = "initialised" /\ Begun(initDetector)
  <2>1. op' = initDetector
    BY <1>a DEF Begun
  <2>2. /\ Simple(op') /\ \A i \in 1 .. Len(op') : Stops(op'[i].req)
        /\ \A i \in 1 .. Len(op') : Writes(op'[i].req, AutoTrig) =>
               Len(op') - i >= Len(initDetector) - Len(stopContReadout)
    BY <2>1, InitIs DEF StopLen
  <2>3. ToSend(AutoTrig)'
    BY <1>7, <2>1, InitIs
  <2>4. Faults' = 0 => Stored(AutoTrig)' = Off
    <3> SUFFICES ASSUME Faults = 0 PROVE Stored(AutoTrig) = Off
      BY <1>1, <1>2
    <3>1. timeouts = 0
      BY DEF Faults, Shape
    <3>2. Len(pending) = 0 /\ IsSeq(pending)
      BY <1>1, <3>1 DEF LockStep, Shape
    <3>3. WritesOf(pending, AutoTrig) = {}
      BY <3>2 DEF WritesOf
    <3>4. WillHold(AutoTrig) = Stored(AutoTrig)
      BY <3>2, <3>3, WillHoldIs DEF Holds
    <3> QED
      BY <1>4, <1>a, <3>4
  <2> QED
    BY <1>5, <1>6, <1>a, <2>2, <2>3, <2>4 DEF QuietInv, Configured
<1>b. CASE /\ place = "initialised" /\ place' = "version"
           /\ Begun(One(Get("FIRMWVERSION", 0, 0)))
  <2> DEFINE s == One(Get("FIRMWVERSION", 0, 0))
  <2>1. op' = s /\ Simple(s) /\ Len(s) = 1 /\ \A p : ~ Writes(s[1].req, p)
    BY <1>b, OneGet DEF Begun
  <2> HIDE DEF s
  <2>2. \A i \in 1 .. Len(s) : ~ Writes(s[i].req, AutoTrig) /\ Stops(s[i].req)
    BY <2>1 DEF Stops
  <2> QED
    BY <1>1, <1>2, <1>4, <1>5, <1>6, <1>b, <2>1, <2>2 DEF QuietInv, Configured
<1>c. CASE place \in Configured /\ place' \in Configured /\ Same
  <2>1. op' = op
    BY <1>c DEF Same
  <2>2. \A i \in 1 .. Len(op) : ~ Writes(op[i].req, AutoTrig)
    BY <1>0, EmptyIs
  <2> QED
    BY <1>1, <1>2, <1>4, <1>5, <1>6, <1>c, <2>1, <2>2 DEF QuietInv, Configured
<1> QED
  BY <1>8, <1>9, <1>a, <1>b, <1>c, MainMoves

-----------------------------------------------------------------------------
(* The moves of SpidrDaq.                                                  *)

LEMMA FoundIs ==
    /\ Found(0) = {} /\ Found(NumDevs) = Present
    /\ \A n \in Devs : /\ n \in Present => Found(n + 1) = Found(n) \cup {n}
                       /\ n \notin Present => Found(n + 1) = Found(n)
<1>1. NumDevs \in Nat /\ \A d \in Present : d \in Nat /\ d < NumDevs /\ ~ (d < 0)
  BY SpidrAssumption, AcquisitionAssumption DEF Devs
<1>2. \A n \in Devs : n \in Nat
  BY DEF Devs
<1>3. \A n \in Nat : \A d \in Nat : d < n + 1 <=> d < n \/ d = n
  OBVIOUS
<1>4. Found(0) = {} /\ Found(NumDevs) = Present
  BY <1>1 DEF Found
<1>5. ASSUME NEW n \in Devs
      PROVE  /\ n \in Present => Found(n + 1) = Found(n) \cup {n}
             /\ n \notin Present => Found(n + 1) = Found(n)
  <2>1. \A d \in Present : d < n + 1 <=> d < n \/ d = n
    BY <1>1, <1>2, <1>3
  <2> QED
    BY <2>1 DEF Found
<1> QED
  BY <1>4, <1>5

LEMMA DaqPlanMove ==
    ASSUME Shape, PlaceInv, program = "daq", DaqWire, DaqPlan, Move PROVE DaqPlan'
<1>0. op = <<>> /\ UNCHANGED <<device, pending, sock, asked, timeouts, refusals>> /\ Len(op) # 1
  BY MoveBegins, EmptyIs
<1>1. /\ \A p : Stored(p)' = Stored(p)
      /\ Stored(AcqEnable)' = Stored(AcqEnable) /\ Stored(AcqEnable) = Stored(<<"ACQENABLE", 0, 0>>)
  BY <1>0, SameHeld DEF AcqEnable, Stored
<1>2. place \notin MainPlaces
  BY DEF PlaceInv
<1>3. ASSUME NEW what, NEW dev, NEW w, what # "FIRMWVERSION" \/ dev = 0,
             Begun(One(Get(what, dev, 0)))
      PROVE  /\ Len(op') = 1 /\ op'[1].req = Get(what, dev, 0) /\ op'[1].skip = 0
             /\ op' # <<>> /\ \A i \in 1 .. Len(op') : op'[i].req.kind = "get"
  <2> DEFINE s == One(Get(what, dev, 0))
  <2>1. op' = s /\ Len(s) = 1 /\ s[1].req = Get(what, dev, 0) /\ s[1].skip = 0
        /\ s[1].req.kind = "get"
    BY <1>3, OneGet DEF Begun
  <2> HIDE DEF s
  <2>2. op' # <<>>
    <3>1. Len(op') # 0
      BY <2>1
    <3> QED
      BY <3>1, EmptyIs, Zenon
  <2>3. \A i \in 1 .. Len(s) : s[i].req.kind = "get"
    BY <2>1
  <2> QED
    BY <2>1, <2>2, <2>3
<1>4. CASE MainMove
  BY <1>2, <1>4 DEF MainMove, Moved, MainPlaces
<1>5. CASE AskMove
  <2>1. place = "enabled" /\ place' = "version"
    BY <1>2, <1>5 DEF AskMove, MainPlaces
  <2>2. Stored(AcqEnable) = ports /\ ports = mask \cap Present
    BY <1>0, <2>1 DEF DaqPlan
  <2>3. \A i \in 1 .. Len(op') : op'[i].req.kind = "get"
    BY <1>3, <1>5 DEF AskMove
  <2>4. ports' = ports /\ mask' = mask
    BY <1>5 DEF AskMove
  <2> QED
    BY <1>1, <2>1, <2>2, <2>3, <2>4 DEF DaqPlan
<1>6. CASE ReceiverMove
  <2>1. UNCHANGED <<mask, ids, ports, index, op>>
    BY <1>6 DEF ReceiverMove, Same
  <2>2. CASE Moved("version", "binding") /\ base' = (program = "daq" => 0 \in ports)
    BY <1>1, <2>1, <2>2 DEF DaqPlan, Moved
  <2>3. CASE /\ base' = base
             /\ \/ place = "binding" /\ place' \in {"binding", "bound"}
                \/ Moved("bound", IF program = "daq" THEN "serving" ELSE "spawned")
    BY <1>1, <2>1, <2>3 DEF DaqPlan, Moved
  <2> QED
    BY <1>6, <2>2, <2>3 DEF ReceiverMove
<1>7. CASE DaqMove
  <2>0. mask' = mask
    BY <1>7 DEF DaqMove
  <2>1. CASE Moved("start", "address")
    BY <2>1 DEF DaqPlan, Moved
  <2>2. CASE Moved("address", "ids") /\ Begun(One(Get("DEVICEIDS", 0, 0)))
    BY <1>3, <2>2 DEF DaqPlan, Moved, AnsweredBy
  <2>3. CASE Moved("ids", "ports") /\ ids' = Result /\ UNCHANGED <<ports, index>>
    <3>1. ret /\ readval \in {Present}
      BY <1>0, <2>3 DEF DaqPlan, Moved, AnsweredBy
    <3>2. index = 0 /\ ports = {}
      BY <2>3 DEF DaqWire, Moved
    <3>3. ids' = Present /\ ports' = Found(index')
      BY <2>3, <3>1, <3>2, FoundIs DEF Result
    <3>4. Found(index)' = Found(index')
      BY DEF Found
    <3> QED
      BY <2>3, <3>3, <3>4 DEF DaqPlan, Moved
  <2>4. CASE /\ index \in ids /\ Moved("ports", "type") /\ Begun(One(Get("SERVERPORT", index, 0)))
             /\ UNCHANGED <<ids, ports, index>>
    <3>1. ids = Present /\ ports = Found(index)
      BY <2>4 DEF DaqPlan, Moved
    <3>2. /\ Len(op') = 1 /\ op'[1].req = Get("SERVERPORT", index, 0) /\ op'[1].skip = 0
          /\ op' # <<>>
      BY <1>3, <2>4
    <3>3. Found(index)' = Found(index)
      BY <2>4 DEF Found
    <3> QED
      BY <2>4, <3>1, <3>2, <3>3 DEF DaqPlan, Moved, AnsweredBy
  <2>5. CASE /\ Moved("type", "ports") /\ index' = index + 1 /\ UNCHANGED ids
             /\ ports' = (IF Result = On THEN ports \cup {index} ELSE ports)
    <3>1. ret /\ readval \in {On} /\ index \in Present /\ ids = Present /\ ports = Found(index)
      BY <1>0, <2>5 DEF DaqPlan, Moved, AnsweredBy
    <3>2. index \in Devs
      BY <3>1, AcquisitionAssumption
    <3>3. ports' = Found(index')
      BY <2>5, <3>1, <3>2, FoundIs DEF Result
    <3>4. Found(index)' = Found(index')
      BY DEF Found
    <3> QED
      BY <2>5, <3>1, <3>3, <3>4 DEF DaqPlan, Moved
  <2>6. CASE /\ index \in Devs \ ids /\ Moved("ports", "ports") /\ index' = index + 1
             /\ UNCHANGED <<ids, ports>>
    <3>1. ids = Present /\ ports = Found(index)
      BY <2>6 DEF DaqPlan, Moved
    <3>2. ports' = Found(index')
      BY <2>6, <3>1, FoundIs
    <3>3. Found(index)' = Found(index')
      BY DEF Found
    <3> QED
      BY <2>6, <3>1, <3>2, <3>3 DEF DaqPlan, Moved
  <2>7. CASE /\ index = NumDevs /\ Moved("ports", "mask") /\ Begun(One(Get("ACQENABLE", 0, 0)))
             /\ ports' = ports \cap mask
    <3>1. ports' = mask \cap Present
      BY <2>7, FoundIs DEF DaqPlan, Moved
    <3>2. /\ Len(op') = 1 /\ op'[1].req = Get("ACQENABLE", 0, 0) /\ op'[1].skip = 0
          /\ op' # <<>>
      BY <1>3, <2>7
    <3> QED
      BY <2>0, <2>7, <3>1, <3>2 DEF DaqPlan, Moved, AnsweredBy
  <2>8. CASE /\ Moved("mask", "enabled") /\ Begun(One(Set("ACQENABLE", 0, ports)))
             /\ UNCHANGED ports
    <3>1. Len(op') = 1 /\ op'[1].req = Set("ACQENABLE", 0, ports) /\ op'[1].skip = 0
      BY <2>8, OneEnable DEF Begun
    <3>2. ports = mask \cap Present
      BY <2>8 DEF DaqPlan, Moved
    <3> QED
      BY <2>0, <2>8, <3>1, <3>2 DEF DaqPlan, Moved
  <2>9. CASE ~ MustEnable /\ Moved("mask", "enabled") /\ Same /\ UNCHANGED ports
    <3>1. ret /\ readval \in {Stored(AcqEnable)} /\ ports = mask \cap Present
      BY <1>0, <2>9 DEF DaqPlan, Moved, AnsweredBy
    <3>2. Stored(AcqEnable)' = ports' /\ op' = <<>>
      BY <1>0, <1>1, <2>9, <3>1 DEF MustEnable, Same
    <3> QED
      BY <2>0, <2>9, <3>1, <3>2 DEF DaqPlan, Moved
  <2> QED
    BY <1>7, <2>1, <2>2, <2>3, <2>4, <2>5, <2>6, <2>7, <2>8, <2>9 DEF DaqMove
<1> QED
  BY <1>4, <1>5, <1>6, <1>7 DEF Move

LEMMA DaqWireMove ==
    ASSUME Shape, PlaceInv, program = "daq", DaqWire, Move PROVE DaqWire'
<1>0. op = <<>> /\ UNCHANGED <<device, pending, sock, asked, timeouts, refusals>>
  BY MoveBegins
<1>1. /\ Stored(DeviceIds)' = Stored(DeviceIds)
      /\ \A d : Stored(<<"SERVERPORT", d, 0>>)' = Stored(<<"SERVERPORT", d, 0>>)
      /\ \A i : Enables(op[i].req)' <=> Enables(op'[i].req)
      /\ \A i : Enables(pending[i])' <=> Enables(pending[i])
  BY <1>0 DEF Stored, DeviceIds, Enables, Place, AcqEnable
<1>2. place \notin MainPlaces
  BY DEF PlaceInv
<1>3. ASSUME NEW what, NEW dev, what # "FIRMWVERSION" \/ dev = 0, Begun(One(Get(what, dev, 0)))
      PROVE  \A i \in 1 .. Len(op') : Enables(op'[i].req)
  <2> DEFINE s == One(Get(what, dev, 0))
  <2>1. op' = s /\ Len(s) = 1 /\ s[1].req.kind = "get"
    BY <1>3, OneGet DEF Begun
  <2> HIDE DEF s
  <2> QED
    BY <2>1 DEF Enables
<1>4. \A i \in 1 .. Len(op') : Enables(op'[i].req)
  <2>1. CASE Same
    BY <2>1 DEF Same, DaqWire
  <2>2. CASE MustEnable /\ Begun(One(Set("ACQENABLE", 0, ports)))
    BY <2>2, OneEnable DEF Begun
  <2>3. CASE MainMove
    BY <1>2, <2>3 DEF MainMove, Moved, MainPlaces
  <2>4. CASE AskMove
    BY <1>3, <2>4 DEF AskMove
  <2>5. CASE DaqMove
    <3>1. \/ Same
          \/ MustEnable /\ Begun(One(Set("ACQENABLE", 0, ports)))
          \/ Begun(One(Get("IPADDR_DEST", 0, 0)))
          \/ Begun(One(Get("DEVICEIDS", 0, 0)))
          \/ Begun(One(Get("SERVERPORT", index, 0)))
          \/ Begun(One(Get("DEVICETYPE", index, 0)))
          \/ Begun(One(Get("ACQENABLE", 0, 0)))
      BY <2>5 DEF DaqMove
    <3> QED
      BY <1>3, <2>1, <2>2, <3>1
  <2>6. CASE ReceiverMove
    BY <2>1, <2>6 DEF ReceiverMove
  <2> QED
    BY <2>3, <2>4, <2>5, <2>6 DEF Move
<1>5. place' \in {"start", "address", "ids"} => index' = 0 /\ ports' = {}
  BY DEF DaqWire, Move, MainMove, AskMove, DaqMove, ReceiverMove, Moved
<1> QED
  BY <1>0, <1>1, <1>4, <1>5 DEF DaqWire

LEMMA DaqKept == ASSUME Shape, PlaceInv, DaqInv, Move PROVE DaqInv'
<1>1. UNCHANGED program /\ Faults' = Faults
  BY MoveBegins DEF Move, Faults
<1> QED
  BY <1>1, DaqPlanMove, DaqWireMove DEF DaqInv

-----------------------------------------------------------------------------
(* A step that changes nothing.                                            *)

LEMMA NothingMoves ==
    ASSUME PlaceInv, TablesInv, SettingsInv, QuietInv, DaqInv, UNCHANGED avars
    PROVE  PlaceInv' /\ TablesInv' /\ SettingsInv' /\ QuietInv' /\ DaqInv'
<1>1. /\ UNCHANGED <<device, pending, sock, op, asked, readval, ret, timeouts, refusals>>
      /\ UNCHANGED <<program, place, mask, ids, ports, index, lutBug, base>>
  BY DEF avars, vars, wire, ctrl, prog, udp
<1>2. /\ \A p : Stored(p)' = Stored(p) /\ WillHold(p)' = WillHold(p)
      /\ \A p : ToSend(p)' <=> ToSend(p)
      /\ Faults' = Faults
  <2>1. \A p : Stored(p)' = Stored(p) /\ WillHold(p)' = WillHold(p)
    BY <1>1, SameHeld
  <2>2. \A p : ToSend(p)' <=> ToSend(p)
    BY <1>1 DEF ToSend, Rest, Writes, Command, Place
  <2> QED
    BY <1>1, <2>1, <2>2 DEF Faults
<1>3. /\ Stored(Firmware)' = Stored(Firmware) /\ Stored(AcqEnable)' = Stored(AcqEnable)
      /\ Stored(DeviceIds)' = Stored(DeviceIds) /\ Stored(AutoTrig)' = Stored(AutoTrig)
      /\ WillHold(AutoTrig)' = WillHold(AutoTrig) /\ (ToSend(AutoTrig)' <=> ToSend(AutoTrig))
      /\ \A d : Stored(<<"SERVERPORT", d, 0>>)' = Stored(<<"SERVERPORT", d, 0>>)
  BY <1>2
<1>4. PlaceInv'
  BY <1>1, <1>3 DEF PlaceInv, Faults, MainPlaces, DaqPlaces
<1>5. TablesInv'
  BY <1>1, <1>3 DEF TablesInv, TablesErrOneWay, AnsweredBy, IsFirmware
<1>6. SettingsInv'
  <2>1. \A f \in Wanted : Kept(f)' <=> Kept(f)
    BY <1>2, KeptIs
  <2>2. LostSettings' = {f \in Wanted : ~ Kept(f)' /\ ~ ToSend(f.place)'}
    BY DEF LostSettings
  <2>3. LostSettings = {f \in Wanted : ~ Kept(f) /\ ~ ToSend(f.place)}
    BY DEF LostSettings
  <2>4. LostSettings' = LostSettings
    BY <1>2, <2>1, <2>2, <2>3
  <2>5. Simple(op)' <=> Simple(op)
    BY <1>1 DEF Simple, Lost
  <2>6. LastRight(op)' <=> LastRight(op)
    BY <1>1 DEF LastRight, Writes, Command, Place
  <2> QED
    BY <1>1, <1>2, <2>4, <2>5, <2>6 DEF SettingsInv, Configured
<1>7. QuietInv'
  <2>1. Simple(op)' <=> Simple(op)
    BY <1>1 DEF Simple, Lost
  <2>2. /\ \A i : Stops(op[i].req)' <=> Stops(op[i].req)
        /\ \A i : Stops(pending[i])' <=> Stops(pending[i])
        /\ \A i : Writes(op[i].req, AutoTrig)' <=> Writes(op[i].req, AutoTrig)
    BY <1>1 DEF Stops, Writes, Command, Place, AutoTrig
  <2>3. Len(initDetector)' = Len(initDetector) /\ Len(stopContReadout)' = Len(stopContReadout)
    OBVIOUS
  <2> QED
    BY <1>1, <1>2, <1>3, <2>1, <2>2, <2>3 DEF QuietInv, Configured
<1>8. DaqInv'
  <2>1. DaqWire => DaqWire'
    BY <1>1, <1>3 DEF DaqWire, Enables, Place, AcqEnable
  <2>2. DaqPlan => DaqPlan'
    BY <1>1, <1>3 DEF DaqPlan, AnsweredBy, Found
  <2> QED
    BY <1>1, <1>2, <2>1, <2>2 DEF DaqInv
<1> QED
  BY <1>4, <1>5, <1>6, <1>7, <1>8

-----------------------------------------------------------------------------
(* The initial states, and the invariant.                                  *)

LEMMA LeftoverIs ==
    ASSUME NEW running, NEW new, device = Leftover(running, new)
    PROVE  /\ Stored(Firmware) = new /\ Stored(DeviceIds) = Present
           /\ \A d \in Devs : Stored(<<"SERVERPORT", d, 0>>) = On
<1>1. ASSUME NEW p, p[1] \in {"FIRMWVERSION", "DEVICEIDS"} PROVE Whole(p, Off) \notin Wanted
  <2> SUFFICES ASSUME Whole(p, Off) \in Wanted PROVE FALSE
    OBVIOUS
  <2>1. Setting(Whole(p, Off)) /\ Whole(p, Off).place = p
    BY WantedIs DEF Whole
  <2> QED
    BY <1>1, <2>1, SettingNames DEF ChipNames
<1>2. Firmware \in DOMAIN device /\ device[Firmware] = new
  <2>1. Firmware # AutoTrig /\ Firmware # DeviceIds /\ Firmware # AcqEnable
        /\ Firmware[1] = "FIRMWVERSION"
    BY DEF Firmware, AutoTrig, DeviceIds, AcqEnable
  <2>2. Whole(Firmware, Off) \notin Wanted
    BY <1>1, <2>1
  <2> QED
    BY <2>1, <2>2 DEF Leftover
<1>3. DeviceIds \in DOMAIN device /\ device[DeviceIds] = Present
  <2>1. DeviceIds # AutoTrig /\ Firmware # DeviceIds /\ DeviceIds # AcqEnable
        /\ DeviceIds[1] = "DEVICEIDS"
    BY DEF Firmware, AutoTrig, DeviceIds, AcqEnable
  <2>2. Whole(DeviceIds, Off) \notin Wanted
    BY <1>1, <2>1
  <2> QED
    BY <2>1, <2>2 DEF Leftover
<1>4. ASSUME NEW d \in Devs
      PROVE  <<"SERVERPORT", d, 0>> \in DOMAIN device /\ device[<<"SERVERPORT", d, 0>>] = On
  <2> DEFINE p == <<"SERVERPORT", d, 0>>
  <2>1. p # AutoTrig /\ p # Firmware /\ p # DeviceIds /\ p # AcqEnable /\ p[1] = "SERVERPORT"
        /\ p \in {<<"SERVERPORT", i, 0>> : i \in Devs}
    BY DEF Firmware, AutoTrig, DeviceIds, AcqEnable
  <2> HIDE DEF p
  <2> QED
    BY <2>1 DEF Leftover, p
<1> QED
  BY <1>2, <1>3, <1>4 DEF Stored

AInv == Shape /\ LockStep /\ PlaceInv /\ TablesInv /\ SettingsInv /\ QuietInv /\ DaqInv

LEMMA InitInv == ASSUME AInit PROVE AInv
<1>1. /\ op = <<>> /\ pending = <<>> /\ sock = <<>> /\ asked = Nobody
      /\ timeouts = 0 /\ refusals = 0 /\ Faults = 0
      /\ place = "start" /\ index = 0 /\ ports = {} /\ lutBug = "unset"
      /\ program \in {"main", "stop", "daq"}
  BY DEF AInit, Idle, Faults
<1>2. \A i : i \notin 1 .. Len(<<>>)
  BY EmptyIs
<1>3. Shape
  <2>1. GoodSteps(<<>>)
    BY NothingBegins DEF Keeping, Begins
  <2> QED
    BY <1>1, <1>2, <2>1, EmptyIs DEF Shape
<1>4. LockStep
  BY <1>1, EmptyIs DEF LockStep
<1>5. PlaceInv
  BY <1>1 DEF PlaceInv, MainPlaces, DaqPlaces
<1>6. /\ Stored(Firmware) \in {On, Off} /\ Stored(DeviceIds) = Present
      /\ \A d \in Devs : Stored(<<"SERVERPORT", d, 0>>) = On
  BY LeftoverIs DEF AInit
<1>7. TablesInv
  BY <1>1, <1>2, <1>6 DEF TablesInv, TablesErrOneWay
<1>8. SettingsInv
  BY <1>1 DEF SettingsInv, Configured
<1>9. QuietInv
  BY <1>1, <1>2 DEF QuietInv, Simple, Configured
<1>a. DaqInv
  BY <1>1, <1>2, <1>6 DEF DaqInv, DaqWire, DaqPlan
<1> QED
  BY <1>3, <1>4, <1>5, <1>7, <1>8, <1>9, <1>a DEF AInv

LEMMA StepInv == ASSUME AInv, [ANext]_avars PROVE AInv'
<1>1. Shape /\ LockStep /\ PlaceInv /\ TablesInv /\ SettingsInv /\ QuietInv /\ DaqInv
  BY DEF AInv
<1>2. CASE Requests
  <2>1. Controller \/ Module
    BY <1>2 DEF Requests
  <2>2. UNCHANGED <<prog, program, place, lutBug, base>>
    BY <1>2 DEF Requests, prog, udp
  <2>3. Shape' /\ LockStep'
    BY <1>1, <2>1, ShapeStep, LockStepStep DEF Next
  <2>4. AStep
    BY <1>1, <2>1, AStepIs
  <2> QED
    BY <1>1, <2>2, <2>3, <2>4, PlaceStep, TablesStep, SettingsStep, QuietStep, DaqStep DEF AInv
<1>3. CASE Main \/ Daq \/ Receiver
  <2>1. Move
    BY <1>3, MoveIs
  <2> QED
    BY <1>1, <2>1, MoveKeeps, PlaceMove, TablesMove, SettingsMove, QuietMove, DaqKept DEF AInv
<1>4. CASE UNCHANGED avars
  <2>1. Shape' /\ LockStep'
    BY <1>1, <1>4, ShapeStep, LockStepStep DEF avars
  <2> QED
    BY <1>1, <1>4, <2>1, NothingMoves DEF AInv
<1> QED
  BY <1>2, <1>3, <1>4 DEF ANext

(* What the rest comes from: where each program can be, what is left of    *)
(* its operation and what is on its way, of the settings and the trigger   *)
(* that main is to leave and of the devices that SpidrDaq reads out.       *)
THEOREM ProgramsKeepInv == ASpec => []AInv
<1>1. AInit => AInv
  BY InitInv
<1>2. AInv /\ [ANext]_avars => AInv'
  BY StepInv
<1> QED
  BY <1>1, <1>2, PTL DEF ASpec

(* MakeReceiver: whatever becomes of the request for the firmware version, *)
(* the look-up tables without the old firmware's bug are only ever used    *)
(* with new firmware.                                                      *)
THEOREM TablesNeverErr == ASpec => []TablesErrOneWay
<1>1. AInv => TablesErrOneWay
  BY DEF AInv, TablesInv
<1> QED
  BY <1>1, ProgramsKeepInv, PTL

(* initDetector looks at no result: however many of its requests time out  *)
(* or are refused, and whatever replies the later ones are given, as many  *)
(* settings at most are wrong as there were faults.                        *)
THEOREM FaultsCostOneSetting == ASpec => []OneFaultOneSetting
<1>1. AInv => OneFaultOneSetting
  <2> SUFFICES ASSUME AInv, program = "main", op = <<>>, place \in Configured \cup {"initialised"}
               PROVE  Cardinality({f \in Wanted : ~ Kept(f)}) <= Faults
    BY DEF OneFaultOneSetting
  <2>1. \A p : ~ ToSend(p)
    BY NothingLeft
  <2>2. LostSettings = {f \in Wanted : ~ Kept(f)}
    BY <2>1 DEF LostSettings
  <2> QED
    BY <2>2 DEF AInv, SettingsInv
<1> QED
  BY <1>1, ProgramsKeepInv, PTL

(* main: with at most one fault, wherever it strikes and however the       *)
(* previous program left the module, the trigger is off, or will be before *)
(* anything later is handled, from its configuration until the thread that *)
(* takes the data runs.                                                    *)
THEOREM TriggerStaysOff == ASpec => []QuietUntilReceiving
<1>1. AInv => QuietUntilReceiving
  <2> SUFFICES ASSUME AInv, program = "main", Faults <= 1, Configuring \/ place \in Configured
               PROVE  WillHold(AutoTrig) = Off
    BY DEF QuietUntilReceiving
  <2>1. Shape /\ QuietInv
    BY DEF AInv
  <2>2. place # "joining" /\ place \in Configured \cup {"initialised"}
    BY DEF Configured, Configuring
  <2>3. ToSend(AutoTrig) \/ WillHold(AutoTrig) = Off
    BY <2>1, <2>2 DEF QuietInv
  <2>4. ~ ToSend(AutoTrig)
    <3> SUFFICES ASSUME NEW i \in 1 .. Len(op), Writes(op[i].req, AutoTrig) PROVE FALSE
      BY DEF ToSend, Rest
    <3>1. place \notin Configured
      BY <2>1, <2>2 DEF QuietInv
    <3>2. Configuring /\ place = "initialised"
      BY <3>1 DEF Configuring
    <3>3. Len(op) - i >= Len(initDetector) - Len(stopContReadout)
      BY <2>1, <2>2, <3>2 DEF QuietInv
    <3>4. Len(op) <= Len(initDetector) - Len(stopContReadout)
      BY <3>2 DEF Configuring
    <3>5. Len(op) \in Nat /\ Len(initDetector) \in Nat /\ Len(stopContReadout) \in Nat
      BY <2>1, SeqFacts, InitIs, StopLenIs DEF Shape, GoodSteps, StopLen
    <3> QED
      BY <3>3, <3>4, <3>5
  <2> QED
    BY <2>3, <2>4
<1> QED
  BY <1>1, ProgramsKeepInv, PTL

(* SpidrDaq: if nothing fails, the module sends for just the devices asked *)
(* for that are present, and the port of the first socket is the one of    *)
(* device 0 if that is one of them.                                        *)
THEOREM DaqEnablesAsAsked == ASpec => []EnabledAsAsked
<1>1. AInv => EnabledAsAsked
  <2> SUFFICES ASSUME AInv, place = "serving", Faults = 0
               PROVE  /\ Stored(AcqEnable) = mask \cap Present
                      /\ (0 \in mask \cap Present) => base
    BY DEF EnabledAsAsked
  <2>1. program = "daq"
    BY DEF AInv, PlaceInv, DaqPlaces
  <2>2. DaqPlan
    BY <2>1 DEF AInv, DaqInv
  <2> QED
    BY <2>2 DEF DaqPlan
<1> QED
  BY <1>1, ProgramsKeepInv, PTL
=============================================================================
