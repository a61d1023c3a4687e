----------------------------- MODULE Acquisition -----------------------------
(***************************************************************************)
(* The programs around the controller and the receiving thread: main, with *)
(* and without the argument "stop" (main.cpp), and the constructor of      *)
(* SpidrDaq for a given controller (SpidrDaq.cpp).  Each is a sequence of  *)
(* operations of SpidrController whose results are mostly ignored, the     *)
(* binding of one UDP socket per chip and the start of the thread          *)
(* (UdpReceiver.cpp).                                                      *)
(***************************************************************************)
EXTENDS SpidrController, FiniteSets

CONSTANTS
    Masks,       \* readout_mask values a caller of SpidrDaq passes
    Present      \* devices on the module, whose id is not 0

ASSUME AcquisitionAssumption == Present \subseteq Devs /\ \A m \in Masks : m \subseteq Devs

VARIABLES
    program,     \* "main", "stop" or "daq"
    place,       \* where the program is
    mask, ids,   \* SpidrDaq: the devices to read out and those with an id
    ports,       \* SpidrDaq: the devices whose port is known and wanted
    index,       \* SpidrDaq: the loop over the devices
    lutBug,      \* what the look-up tables are made for, or "unset"
    bound,       \* chips whose socket is bound and polled
    base,        \* is the port of the first socket the one of device 0?
    receiver     \* "none", "running": the thread in UdpReceiver::run

prog == <<program, place, mask, ids, ports, index>>
udp == <<lutBug, bound, base, receiver>>
avars == <<vars, prog, udp>>

-----------------------------------------------------------------------------
(* A caller that ignores an operation's result: a failure ends only the    *)
(* operation.                                                              *)
IgnoredVariant(steps) == steps
Ignored(steps) == [i \in DOMAIN steps |->
    [steps[i] EXCEPT !.skip = IF steps[i].tested THEN Len(steps) - i ELSE @, !.tested = FALSE]]
One(req) == Call(FALSE, <<req>>)

ChipSettings ==
    <<<<"PS", {0, 1}>>, <<"EQTHRESHH", Off>>, <<"INTERNALTP", On>>, <<"DISCCSMSPM", Off>>,
      <<"CSMSPM", Off>>, <<"POLARITY", On>>, <<"GAINMODE", On>>, <<"COUNTERDEPTH", {1}>>,
      <<"COLOURMODE", Off>>>>
SetChips == [k \in 1 .. NumDevs * Len(ChipSettings) |->
    LET c == ChipSettings[((k - 1) % Len(ChipSettings)) + 1]
    IN  One(Set(c[1], (k - 1) \div Len(ChipSettings), c[2]))[1]]
Delays == <<{0, 1, 2, 3}, {0, 1, 2, 3}, {0, 1, 2, 3}, {1, 3}>>
IDelay(i) == <<"IDELAY_0", "IDELAY_1", "IDELAY_2", "IDELAY_3">>[i]
SetDelay(i) == Ignored(Call(TRUE, setSpidrReg(IDelay(i), Delays[i], TRUE)))
TriggerConfig == {2}

(* The delays are bits of their registers. *)
ASSUME DelayAssumption == \A i \in 1 .. 4 : Delays[i] \subseteq BitsOf(IDelay(i))

initOnceVariant ==
       EachDev("CRW", On) \o SetChips
    \o One(Set("COUNTERS", 0, On)) \o One(Set("LOGLEVEL", 0, Off))
    \o SetDelay(1) \o SetDelay(2) \o SetDelay(3) \o SetDelay(4)
    \o One(Set("BIAS_SUPPLY", 0, On)) \o One(Set("BIAS_ADJUST", 0, On))
    \o Call(FALSE, setShutterTriggerConfig(TriggerConfig))
initDetector ==
       Ignored(stopContReadout) \o EachDev("CRW", On) \o SetChips
    \o One(Set("COUNTERS", 0, On)) \o One(Set("LOGLEVEL", 0, Off))
    \o SetDelay(1) \o SetDelay(2) \o SetDelay(3) \o SetDelay(4)
    \o One(Set("BIAS_SUPPLY", 0, On)) \o One(Set("BIAS_ADJUST", 0, On))
    \o Call(FALSE, setShutterTriggerConfig(TriggerConfig))

(* What initDetector is to leave in the module. *)
Wanted ==
       {Whole(<<ChipSettings[k][1], i, 0>>, ChipSettings[k][2]) : k \in DOMAIN ChipSettings,
                                                                  i \in Devs}
    \cup {Whole(<<"CRW", i, 0>>, On) : i \in Devs}
    \cup {Whole(Reg(IDelay(i)), Delays[i]) : i \in 1 .. 4}
    \cup {Whole(<<"BIAS_SUPPLY", 0, 0>>, On), Whole(<<"BIAS_ADJUST", 0, 0>>, On),
          Whole(<<"TRIGCONFIG", 0, 0>>, TriggerConfig)}

(* The module as a previous program may have left it: triggering or not,   *)
(* and with every setting wrong.                                           *)
AutoTrig == <<"AUTOTRIG", 0, 0>>
Firmware == <<"FIRMWVERSION", 0, 0>>
DeviceIds == <<"DEVICEIDS", 0, 0>>
AcqEnable == <<"ACQENABLE", 0, 0>>
Leftover(running, new) ==
    [p \in {f.place : f \in Wanted} \cup {AutoTrig, Firmware, DeviceIds, AcqEnable}
           \cup {<<"SERVERPORT", i, 0>> : i \in Devs} |->
        CASE p = AutoTrig -> running
          [] p = Firmware -> new
          [] p = DeviceIds -> Present
          [] p = AcqEnable -> Devs
          [] p[1] = "SERVERPORT" \/ Whole(p, Off) \in Wanted -> On
          [] OTHER -> Off]

AInit ==
    /\ Idle
    /\ \E running, new \in {On, Off} : device = Leftover(running, new)
    /\ program \in {"main", "stop", "daq"} /\ place = "start"
    /\ mask \in (IF program = "daq" THEN Masks ELSE {Devs})
    /\ ids = {} /\ ports = {} /\ index = 0
    /\ lutBug = "unset" /\ bound = {} /\ base = FALSE /\ receiver = "none"

(* From one place of a program to the next, by an operation or without.    *)
Operation(from, steps, to) ==
    /\ place = from /\ place' = to /\ Begin(steps, {})
Step(from, to) ==
    /\ place = from /\ op = <<>> /\ place' = to /\ UNCHANGED vars
(* The data word a get leaves behind: zero if it failed. *)
ResultVariant == readval
Result == IF ret THEN readval ELSE Off

(* main with "stop" does not look whether it is connected. *)
StopMode ==
    /\ program = "stop"
    /\ \/ Operation("start", stopContReadout, "exited")
       \/ Step("start", "exited")
    /\ UNCHANGED <<program, mask, ids, ports, index, udp>>
NotConnected ==
    /\ program = "main" /\ Step("start", "exited")
    /\ UNCHANGED <<program, mask, ids, ports, index, udp>>
MainStops ==
    /\ program = "main" /\ Operation("start", stopContReadout, "stopped")
    /\ UNCHANGED <<program, mask, ids, ports, index, udp>>
MainInitialises ==
    /\ Operation("stopped", initDetector, "initialised")
    /\ UNCHANGED <<program, mask, ids, ports, index, udp>>
AskFirmware == \E from \in {"initialised", "enabled"} :
    /\ Operation(from, One(Get("FIRMWVERSION", 0, 0)), "version")
    /\ UNCHANGED <<program, mask, ids, ports, index, udp>>

(* SpidrDaq asks for the host address, the ids, and port and type of each  *)
(* device found; a port it could not get is 0, like one masked out.        *)
DaqAddress ==
    /\ program = "daq" /\ Operation("start", One(Get("IPADDR_DEST", 0, 0)), "address")
    /\ UNCHANGED <<program, mask, ids, ports, index, udp>>
DaqIds ==
    /\ Operation("address", One(Get("DEVICEIDS", 0, 0)), "ids")
    /\ UNCHANGED <<program, mask, ids, ports, index, udp>>
DaqHasIds ==
    /\ Step("ids", "ports") /\ ids' = Result
    /\ UNCHANGED <<program, mask, ports, index, udp>>
DaqPort ==
    /\ index \in ids /\ Operation("ports", One(Get("SERVERPORT", index, 0)), "type")
    /\ UNCHANGED <<program, mask, ids, ports, index, udp>>
DaqType ==
    /\ Operation("type", One(Get("DEVICETYPE", index, 0)), "ports")
    /\ ports' = IF Result = On THEN ports \cup {index} ELSE ports
    /\ index' = index + 1
    /\ UNCHANGED <<program, mask, ids, udp>>
DaqNoDeviceVariant ==
    /\ index \in Devs \ ids /\ Step("ports", "ports")
    /\ UNCHANGED <<program, mask, ids, ports, index, udp>>
DaqNoDevice ==
    /\ index \in Devs \ ids /\ Step("ports", "ports")
    /\ index' = index + 1
    /\ UNCHANGED <<program, mask, ids, ports, udp>>
DaqMask ==
    /\ index = NumDevs /\ Operation("ports", One(Get("ACQENABLE", 0, 0)), "mask")
    /\ ports' = ports \cap mask
    /\ UNCHANGED <<program, mask, ids, index, udp>>
MustEnableVariant == ret /\ readval = ports
MustEnable == ret /\ readval # ports
DaqEnable ==
    /\ IF MustEnable THEN Operation("mask", One(Set("ACQENABLE", 0, ports)), "enabled")
                     ELSE Step("mask", "enabled")
    /\ UNCHANGED <<program, mask, ids, ports, index, udp>>

(* The receiver: look-up tables for the firmware, one socket per chip, the *)
(* thread.  initThread ignores a failure to bind; the remaining chips then *)
(* have no socket.                                                         *)
MakeReceiver ==
    /\ Step("version", "binding")
    /\ lutBug' = IF Result = Off THEN "yes" ELSE "no"
    /\ base' = (program = "daq" => 0 \in ports)
    /\ UNCHANGED <<program, mask, ids, ports, index, bound, receiver>>
BindNext ==
    /\ bound # Devs /\ Step("binding", "binding")
    /\ bound' = bound \cup {Cardinality(bound)}
    /\ UNCHANGED <<program, mask, ids, ports, index, lutBug, base, receiver>>
BindFails ==
    /\ bound # Devs /\ Step("binding", "bound")
    /\ UNCHANGED <<program, mask, ids, ports, index, udp>>
AllBound ==
    /\ bound = Devs /\ Step("binding", "bound")
    /\ UNCHANGED <<program, mask, ids, ports, index, udp>>
Spawn ==
    /\ Step("bound", IF program = "daq" THEN "serving" ELSE "spawned")
    /\ receiver' = "running"
    /\ UNCHANGED <<program, mask, ids, ports, index, lutBug, bound, base>>
(* main then waits for the thread, which nothing ever ends. *)
StartTrigger ==
    /\ Operation("spawned", Ignored(startContReadout({0})), "joining")
    /\ UNCHANGED <<program, mask, ids, ports, index, udp>>

Main == StopMode \/ NotConnected \/ MainStops \/ MainInitialises \/ AskFirmware \/ StartTrigger
Daq == \/ DaqAddress \/ DaqIds \/ DaqHasIds \/ DaqPort \/ DaqType \/ DaqNoDevice \/ DaqMask
       \/ DaqEnable
Receiver == MakeReceiver \/ BindNext \/ BindFails \/ AllBound \/ Spawn
Requests == (Controller \/ Module) /\ UNCHANGED <<prog, udp>>
ANext == Main \/ Daq \/ Receiver \/ Requests

(* Every request ends, in its reply or at its time limit, and the program  *)
(* goes on; nothing is assumed of the faults.                              *)
AFairness ==
    /\ WF_avars(Main) /\ WF_avars(Daq) /\ WF_avars(Receiver)
    /\ WF_avars((SendRequest \/ ReadReply \/ Answer) /\ UNCHANGED <<prog, udp>>)
ASpec == AInit /\ [][ANext]_avars /\ AFairness

-----------------------------------------------------------------------------
Faults == timeouts + refusals
Configured == {"version", "binding", "bound", "spawned"}
Configuring ==
    place = "initialised" /\ Len(op) <= Len(initDetector) - Len(stopContReadout)

(* "It is possible that someone didn't stop the trigger from a previous    *)
(* run": with one request failing at any place, the trigger is off, or     *)
(* about to be, while the detector is configured and until the thread that *)
(* takes the data runs, because main stops it twice.                       *)
QuietUntilReceiving ==
    (program = "main" /\ Faults <= 1 /\ (Configuring \/ place \in Configured)
     /\ receiver = "none") => WillHold(AutoTrig) = Off

(* A request that fails, in time or for good, costs at most one setting of *)
(* initDetector, although no result is looked at and the replies to all    *)
(* later requests may be out of step.                                      *)
OneFaultOneSetting ==
    (program = "main" /\ op = <<>> /\ place \in Configured \cup {"initialised"})
        => Cardinality({f \in Wanted : ~ Kept(f)}) <= Faults

(* Tables without the old firmware's bug are used only with new firmware,  *)
(* whatever becomes of the request for its version.                        *)
TablesErrOneWay == lutBug = "no" => Stored(Firmware) = On

(* SpidrDaq without faults: the module sends for just the devices asked    *)
(* for and present, and each is heard if device 0 is one of them.          *)
EnabledAsAsked ==
    (place = "serving" /\ Faults = 0) =>
        /\ Stored(AcqEnable) = mask \cap Present
        /\ (0 \in mask \cap Present) => base

(* Each program gets to its end: to the wait for the receiving thread, to  *)
(* the serving of a client or to its exit.                                 *)
Settles == <>(place \in {"joining", "serving", "exited"} /\ op = <<>>)
=============================================================================
