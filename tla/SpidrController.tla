--------------------------- MODULE SpidrController ---------------------------
(***************************************************************************)
(* The slow control of the SPIDR module over TCP (SpidrController.cpp): a  *)
(* request is written to the socket and the reply awaited, each with a     *)
(* time limit.  A request that ran into its limit has still been written,  *)
(* so the module handles it and its reply arrives later, in the socket of  *)
(* another request.  The public operations are sequences of requests.      *)
(***************************************************************************)
EXTENDS Naturals, Sequences, TLC

CONSTANTS
    NumDevs,     \* devices on the module; loops run over 0 .. 3 in the build
    NumRows,     \* rows of a pixel matrix, 256
    Registers,   \* SPIDR registers the client uses with setSpidrReg and its kin
    BitsOf(_),   \* register -> the bits it uses
    Settings,    \* one-word settings of a device in use, from DeviceSettings
    Monitors,    \* one-word readings in use, from ModuleReadings
    PixelValues, \* what configPixel... writes into a pixel, beside its mask
    MaxFaults,   \* bound: time-outs and refusals of a behaviour
    MaxCalls     \* bound: operations the client calls

ASSUME SpidrAssumption ==
    /\ NumDevs \in Nat \ {0} /\ NumRows \in Nat \ {0}
    /\ MaxFaults \in Nat /\ MaxCalls \in Nat
    /\ \A r \in Registers : BitsOf(r) \subseteq Nat

VARIABLES
    device,      \* what the module holds: place -> value, of the places set
    pending,     \* requests written that the module has not answered
    sock,        \* replies in the socket
    op,          \* the requests the operation in progress still has to make
    asked,       \* the request whose reply is awaited, or Nobody
    readval,     \* data words of the last reply to a get
    ret,         \* what the last operation returned
    errId,       \* _errId
    pixelConfig, \* _pixelConfig: row -> the bits of its pixels; columns are alike
    promise,     \* what a TRUE result tells the caller of this operation
    timeouts, refusals, calls

wire == <<device, pending, sock>>
ctrl == <<op, asked, readval, ret, errId>>
vars == <<wire, ctrl, pixelConfig, promise, timeouts, refusals, calls>>

Devs == 0 .. NumDevs - 1
Rows == 0 .. NumRows - 1
Nobody == [what |-> "nobody"]

-----------------------------------------------------------------------------
(* Requests.  A command is a kind (set or get) and what it concerns; "at"  *)
(* is the part of the argument that selects a register, DAC, row or flash  *)
(* address.  A "modify" sets or resets one bit of the word read before.    *)

Req(kind, what, dev, at, val) ==
    [kind |-> kind, what |-> what, dev |-> dev, at |-> at, val |-> val]
Set(what, dev, val) == Req("set", what, dev, 0, val)
Get(what, dev, at) == Req("get", what, dev, at, {})
Place(r) == <<r.what, r.dev, r.at>>
Command(r) == IF r.kind \in {"get", "verify"} THEN "get" ELSE "set"

(* A word is the set of its bits that are 1. *)
Off == {}
On == {0}
Stored(p) == IF p \in DOMAIN device THEN device[p] ELSE Off

(* The requests of one call: the first that fails abandons the rest of the *)
(* call, and of the whole operation where the caller tests the result.     *)
Call(tested, reqs) ==
    [i \in DOMAIN reqs |-> [req |-> reqs[i], skip |-> Len(reqs) - i, tested |-> tested]]
EachDev(what, val) ==
    [i \in 1 .. NumDevs |-> [req |-> Set(what, i - 1, val), skip |-> 0, tested |-> FALSE]]

getSpidrReg(addr) == <<Get("SPIDRREG", 0, addr)>>
setSpidrReg(addr, val, verify) ==
    <<Req("set", "SPIDRREG", 0, addr, val)>>
    \o (IF verify THEN <<Req("verify", "SPIDRREG", 0, addr, val)>> ELSE <<>>)
setSpidrRegBit(addr, bitnr, set, verify) ==
    getSpidrReg(addr) \o <<Req("modify", "SPIDRREG", 0, addr, [bit |-> bitnr, on |-> set])>>
    \o (IF verify THEN <<Req("verify", "SPIDRREG", 0, addr, {})>> ELSE <<>>)

setTpFrequency(enable, freq, width) ==
       Call(FALSE, setSpidrReg("TPSWITCH_FREQ", freq, FALSE))
    \o Call(FALSE, setSpidrReg("TP_LENGTH", width, FALSE))
    \o Call(TRUE, setSpidrRegBit("MPX3_CTRL", 0, enable, TRUE))

setDac(dev, code, val) == <<Req("set", "DAC", dev, code, val)>>
getDac(dev, code) == <<Get("DAC", dev, code)>>
readFlash(addr) == <<Get("FLASH", 0, addr)>>
writeFlash(addr, bytes) == <<Req("set", "FLASH", 0, addr, bytes)>>

(* Trigger settings are told apart, not spelled out: openShutter replaces  *)
(* the configured ones by its own, a trigger of zero width.                *)
setShutterTriggerConfig(config) == <<Set("TRIGCONFIG", 0, config)>>
startAutoTrigger == <<Set("AUTOTRIG", 0, On)>>
stopAutoTrigger == <<Set("AUTOTRIG", 0, Off)>>
OpenTrigger == {1}
openShutter == setShutterTriggerConfig(OpenTrigger) \o startAutoTrigger
CntrSel == 7
startContReadout(period) ==
       Call(TRUE, <<Set("READY", 0, On)>>) \o EachDev("CRW", On)
    \o Call(TRUE, setSpidrReg("SHUTTER1_PERIOD", period, FALSE))
    \o Call(TRUE, setSpidrRegBit("SHUTTERTRIG_CTRL", CntrSel, TRUE, FALSE))
    \o Call(TRUE, openShutter)
stopContReadout ==
       EachDev("CRW", Off)
    \o Call(FALSE, setSpidrRegBit("SHUTTERTRIG_CTRL", CntrSel, FALSE, FALSE))
    \o Call(TRUE, stopAutoTrigger)

(* Operations that are one request each, grouped as the source groups them. *)
DeviceSettings ==
    {"CRW", "POLARITY", "PS", "DISCCSMSPM", "INTERNALTP", "COUNTERDEPTH", "EQTHRESHH",
     "COLOURMODE", "CSMSPM", "GAINMODE", "SENSEDAC", "EXTDAC"}
InterfaceSettings == {"IPADDR_SRC", "IPADDR_DEST", "SERVERPORT", "MACADDR", "CHIPBOARDID"}
ModuleSettings == {"UDPPACKET_SZ", "BUSY", "LOGLEVEL", "INFO", "ACQENABLE", "READY",
                   "BIAS_SUPPLY", "BIAS_ADJUST", "DECODERS"}
StoredSettings == {"ADDRPORTS", "DACS"}
ModuleReadings == {"SOFTWVERSION", "FIRMWVERSION", "DEVICECOUNT", "DEVICEIDS", "SPIDR_ADC",
                   "REMOTETEMP", "LOCALTEMP", "FPGATEMP", "AVDD", "DVDD", "VDD", "AVDD_NOW",
                   "DVDD_NOW", "VDD_NOW", "FANSPEED", "HUMIDITY", "PRESSURE"}

ASSUME CommandAssumption ==
    /\ Settings \subseteq DeviceSettings \cup InterfaceSettings \cup ModuleSettings
                              \cup StoredSettings
    /\ Monitors \subseteq ModuleReadings

(* A register's bits include those that the operations above give it. *)
ASSUME BitsAssumption ==
    /\ CntrSel \in BitsOf("SHUTTERTRIG_CTRL")
    /\ \A r \in {"SHUTTER1_PERIOD", "MPX3_CTRL", "TPSWITCH_FREQ", "TP_LENGTH"} : 0 \in BitsOf(r)

-----------------------------------------------------------------------------
Idle ==
    /\ pending = <<>> /\ sock = <<>>
    /\ op = <<>> /\ asked = Nobody /\ readval = {} /\ ret = FALSE /\ errId = "none"
    /\ pixelConfig = [row \in Rows |-> {}]
    /\ promise = {} /\ timeouts = 0 /\ refusals = 0 /\ calls = 0
Init == Idle /\ device = <<>>

CanFail == timeouts + refusals < MaxFaults

(* The caller continues after a request that failed. *)
FailVariant == op' = Tail(op) /\ ret' = FALSE
Fail ==
    LET rest == SubSeq(op, Head(op).skip + 2, Len(op))
    IN  op' = (IF Head(op).tested THEN <<>> ELSE rest) /\ ret' = FALSE

(* The message as it is written. *)
Message(r) ==
    IF r.kind # "modify" THEN r
    ELSE [r EXCEPT !.val = IF r.val.on THEN readval \cup {r.val.bit}
                                       ELSE readval \ {r.val.bit}]

SendRequest ==
    /\ op # <<>> /\ asked = Nobody
    /\ LET msg == Message(Head(op).req)
       IN  pending' = Append(pending, msg) /\ asked' = msg
    /\ UNCHANGED <<device, sock, op, readval, ret, errId, pixelConfig, promise,
                   timeouts, refusals, calls>>

(* waitForBytesWritten: what Qt has buffered may still be sent later. *)
SendTimeOut ==
    /\ op # <<>> /\ asked = Nobody /\ CanFail
    /\ pending' \in {pending, Append(pending, Message(Head(op).req))}
    /\ Fail /\ timeouts' = timeouts + 1
    /\ UNCHANGED <<device, sock, asked, readval, errId, pixelConfig, promise, refusals,
                   calls>>

(* waitForReadyRead, then read, which takes all that has arrived. *)
ReplyTimeOut ==
    /\ asked # Nobody /\ pending # <<>> /\ CanFail
    /\ Fail /\ asked' = Nobody /\ timeouts' = timeouts + 1
    /\ UNCHANGED <<wire, readval, errId, pixelConfig, promise, refusals, calls>>

LongEnoughVariant == TRUE
LongEnough == Len(sock) > 1 \/ Head(sock).err # "short"
Matches(m) == m.kind = Command(asked) /\ m.what = asked.what /\ m.dev = asked.dev
(* Registers, DACs and flash addresses are echoed and compared. *)
EchoedVariant(m) == TRUE
Echoed(m) == asked.what \in {"SPIDRREG", "DAC", "FLASH"} => m.at = asked.at
Verified(m) == asked.kind = "verify" => m.val = asked.val
Accepts(m) ==
    /\ LongEnough /\ m.err \in {"none", "short"} /\ Matches(m)
    /\ m.kind = "get" => Echoed(m) /\ Verified(m)

(* Writing a modified word keeps it for the verification that follows. *)
ExpectWritten(rest, val) ==
    IF asked.kind = "modify" /\ rest # <<>> /\ Head(rest).req.kind = "verify"
    THEN [rest EXCEPT ![1].req.val = val] ELSE rest

ReadReply ==
    /\ asked # Nobody /\ sock # <<>>
    /\ LET m == Head(sock) IN
       /\ IF Accepts(m)
          THEN /\ op' = ExpectWritten(Tail(op), asked.val) /\ ret' = (Len(op) = 1)
               /\ readval' = IF m.kind = "get" THEN m.val ELSE readval
          ELSE Fail /\ UNCHANGED readval
       /\ errId' = IF LongEnough THEN m.err ELSE errId
    /\ sock' = <<>> /\ asked' = Nobody
    /\ UNCHANGED <<device, pending, pixelConfig, promise, timeouts, refusals, calls>>

Reply(r, err) ==
    [kind |-> Command(r), what |-> r.what, dev |-> r.dev, at |-> r.at, err |-> err,
     val |-> IF Command(r) = "get" /\ err = "none" THEN Stored(Place(r)) ELSE {}]

(* The module handles requests in the order they were written. *)
Written(p, val) ==
    [q \in {p} \cup DOMAIN device |-> IF q = p THEN val ELSE device[q]]
Answer ==
    /\ pending # <<>>
    /\ LET r == Head(pending) IN
       /\ device' = IF Command(r) = "set" THEN Written(Place(r), r.val) ELSE device
       /\ sock' = Append(sock, Reply(r, "none"))
    /\ pending' = Tail(pending)
    /\ UNCHANGED <<ctrl, pixelConfig, promise, timeouts, refusals, calls>>
Refuse ==
    /\ pending # <<>> /\ CanFail
    /\ \E err \in {"refused", "short"} : sock' = Append(sock, Reply(Head(pending), err))
    /\ pending' = Tail(pending) /\ refusals' = refusals + 1
    /\ UNCHANGED <<device, ctrl, pixelConfig, promise, timeouts, calls>>

-----------------------------------------------------------------------------
(* The client calls one operation at a time.                               *)

Begin(steps, told) ==
    /\ op = <<>> /\ op' = steps /\ promise' = told /\ ret' = FALSE
    /\ calls < MaxCalls /\ calls' = calls + 1
    /\ UNCHANGED <<wire, asked, readval, errId, pixelConfig, timeouts, refusals>>
Whole(p, val) == [place |-> p, val |-> val]
OneBit(p, b, on) == [place |-> p, bit |-> b, on |-> on]
Reg(a) == <<"SPIDRREG", 0, a>>

GetRegister == \E a \in Registers : Begin(Call(TRUE, getSpidrReg(a)), {})
SetRegister == \E a \in Registers : \E v \in SUBSET BitsOf(a) :
    Begin(Call(TRUE, setSpidrReg(a, v, TRUE)), {Whole(Reg(a), v)})
SetRegisterBit == \E a \in Registers : \E b \in BitsOf(a), on \in BOOLEAN :
    Begin(Call(TRUE, setSpidrRegBit(a, b, on, TRUE)), {OneBit(Reg(a), b, on)})
Continuous ==
    \/ Begin(startContReadout({0}),
             {Whole(Reg("SHUTTER1_PERIOD"), {0}), OneBit(Reg("SHUTTERTRIG_CTRL"), CntrSel, TRUE),
              Whole(<<"TRIGCONFIG", 0, 0>>, OpenTrigger), Whole(<<"AUTOTRIG", 0, 0>>, On)})
    \/ Begin(stopContReadout, {Whole(<<"AUTOTRIG", 0, 0>>, Off)})
TestPulses == Begin(setTpFrequency(TRUE, {0}, {0}), {OneBit(Reg("MPX3_CTRL"), 0, TRUE)})
DacsAndFlash ==
    \/ \E code \in {1, 2} : Begin(Call(TRUE, getDac(0, code)), {})
    \/ Begin(Call(TRUE, setDac(0, 1, On)), {Whole(<<"DAC", 0, 1>>, On)})
    \/ Begin(Call(TRUE, readFlash(0)), {})
    \/ Begin(Call(TRUE, writeFlash(0, On)), {Whole(<<"FLASH", 0, 0>>, On)})
SetDevice == \E what \in Settings, dev \in Devs, v \in {On, Off} :
    Begin(Call(TRUE, <<Set(what, dev, v)>>), {Whole(<<what, dev, 0>>, v)})
Monitor == \E what \in Monitors : Begin(Call(TRUE, <<Get(what, 0, 0)>>), {})

(* The pixel configuration is compiled locally, row by row, and uploaded.  *)
MaskBit == 0
ConfigPixels == \E row \in Rows, cfg \in PixelValues :
    /\ op = <<>> /\ pixelConfig' = [pixelConfig EXCEPT ![row] = (@ \cap {MaskBit}) \cup cfg]
    /\ calls < MaxCalls /\ calls' = calls + 1
    /\ promise' = {} /\ UNCHANGED <<wire, ctrl, timeouts, refusals>>
MaskPixels == \E row \in Rows, b \in BOOLEAN :
    /\ op = <<>> /\ pixelConfig' = [pixelConfig EXCEPT ![row] = IF b THEN @ \cup {MaskBit} ELSE @ \ {MaskBit}]
    /\ calls < MaxCalls /\ calls' = calls + 1
    /\ promise' = {} /\ UNCHANGED <<wire, ctrl, timeouts, refusals>>
RowPlace(dev, row) == <<"PIXCONF", dev, row>>
setPixelConfigMpx3rxVariant(dev) == [i \in 1 .. NumRows |->
    [req |-> Req("set", "PIXCONF", dev, i - 1, pixelConfig[i - 1]), skip |-> 0, tested |-> FALSE]]
setPixelConfigMpx3rx(dev) == Call(TRUE, [i \in 1 .. NumRows |->
    Req("set", "PIXCONF", dev, i - 1, pixelConfig[i - 1])])
(* The Medipix3 takes bits 0-11 of all rows, then bits 12-23. *)
Counter(what, dev, bits) == [i \in 1 .. NumRows |->
    Req("set", what, dev, i - 1, pixelConfig[i - 1] \cap bits)]
setPixelConfigMpx3(dev) ==
    Call(TRUE, Counter("PIXCONF_0", dev, 0 .. 11) \o Counter("PIXCONF_1", dev, 12 .. 23))
Upload == \E dev \in Devs :
    \/ Begin(setPixelConfigMpx3rx(dev),
             {Whole(RowPlace(dev, row), pixelConfig[row]) : row \in Rows})
    \/ Begin(setPixelConfigMpx3(dev),
             {Whole(<<"PIXCONF_0", dev, row>>, pixelConfig[row] \cap (0 .. 11)) : row \in Rows}
             \cup {Whole(<<"PIXCONF_1", dev, row>>, pixelConfig[row] \cap (12 .. 23)) :
                       row \in Rows})

Client == \/ GetRegister \/ SetRegister \/ SetRegisterBit \/ Continuous \/ TestPulses
          \/ DacsAndFlash \/ SetDevice \/ Monitor \/ ConfigPixels \/ MaskPixels \/ Upload
Controller == SendRequest \/ SendTimeOut \/ ReplyTimeOut \/ ReadReply
Module == Answer \/ Refuse
Next == Client \/ Controller \/ Module
Spec == Init /\ [][Next]_vars

-----------------------------------------------------------------------------
(* An operation that returned TRUE has done what it promises: the module    *)
(* holds every value, or has it next in line, the pixel rows of an upload   *)
(* included (setSpidrReg, setPixelConfigMpx3rx, startContReadout).  Late    *)
(* replies alone, and refusals alone, cannot break this; both together can: *)
(* the late answer to an earlier request hides the refusal of this one.     *)
WillHold(p) ==
    LET writes == {i \in DOMAIN pending : Command(pending[i]) = "set" /\ Place(pending[i]) = p}
    IN  IF writes = {} THEN Stored(p)
        ELSE pending[CHOOSE i \in writes : \A j \in writes : j <= i].val
Kept(f) == IF "val" \in DOMAIN f THEN WillHold(f.place) = f.val
                                 ELSE (f.bit \in WillHold(f.place)) = f.on
SuccessIsReal ==
    (op = <<>> /\ ret /\ (timeouts = 0 \/ refusals = 0)) => \A f \in promise : Kept(f)

(* What a get returned is what the module held for the place asked for,     *)
(* unless a time-out left replies of other requests in the socket.          *)
ReadsCurrent ==
    [][(asked # Nobody /\ asked' = Nobody /\ ret' /\ op' = <<>> /\ asked.kind = "get"
        /\ timeouts' = 0) => readval' = Stored(Place(asked))]_vars

(* Setting a bit reads the register, changes the bit and writes it back in  *)
(* separate requests (setSpidrRegBit): whatever is refused in between, the  *)
(* other bits of the register survive.                                      *)
Changed(r) ==
    LET old == Stored(Place(r)) IN (r.val \ old) \cup (old \ r.val)
BitWriteIsLocal ==
    [][(asked # Nobody /\ asked.kind = "modify" /\ device' # device /\ timeouts = 0)
        => Changed(asked) \subseteq {Head(op).req.val.bit}]_vars

(* A late reply may carry an old value of a register, never the value of    *)
(* another one: no register ever gets a bit that is not its own.            *)
NoForeignBits ==
    \A p \in DOMAIN device : p[1] = "SPIDRREG" => device[p] \subseteq BitsOf(p[3])
=============================================================================
