------------------------------ MODULE RtkitBoot -------------------------------
(* RTKit's boot handshake, drivers/soc/apple-rtkit: boot_inner and the       *)
(* handlers it calls while it waits, then polling, start_ep and shutdown.    *)
(* One task drives it.  The firmware is external: what it does is what the   *)
(* driver waits for, in any order the driver allows it.                      *)
EXTENDS Naturals, Sequences, SequencesExt, FiniteSets

CONSTANTS
  Crashlog,    \* RTKIT_EP_CRASHLOG
  OtherSys,    \* the other endpoints that ask for a buffer
  Extra,       \* system endpoints that are not in RTKIT_DEFAULT_ENDPOINTS
  AppEps,      \* endpoints from RTKIT_APP_ENDPOINT_START on
  Requested,   \* boot_with_endpoints' argument, an order of its endpoints
  ApMin, ApMax,    \* RTKIT_MIN_VERSION, RTKIT_MAX_VERSION
  FwVersions,  \* external: version ranges the firmware may support
  FwMaps,      \* external: endpoint maps, each split into its EPMAP messages
  BootMayFail, \* whether waits may time out, buffers and sends may fail
  MaxBoots,    \* bound: how often the processor is booted
  MaxApp       \* bound: application messages per boot

Default == {Crashlog} \cup OtherSys
Endpoints == Default \cup Extra \cup AppEps
RequestedSet == {Requested[i] : i \in DOMAIN Requested}

(* What an instance may choose; the modules that instantiate this one assume it. *)
BootAssumption ==
  /\ Requested \in Seq(Extra \cup AppEps)
  /\ (Default \cup Extra) \cap AppEps = {} /\ IsFiniteSet(Default)
  /\ FwMaps \subseteq Seq(SUBSET Endpoints) \ {<<>>}
  /\ {ApMin, ApMax, MaxBoots, MaxApp} \subseteq Nat
  /\ FwVersions \subseteq Nat \X Nat
  /\ BootMayFail \in BOOLEAN

VARIABLES
  apc,       \* where the driver is: off, the steps of boot_inner, up or failed
  todo,      \* endpoints the current loop of boot_inner has still to start
  iop, ap,   \* iop_power, ap_power: "OFF", "INIT" or "ON"
  crashed,   \* the crash flag
  bitmap,    \* ep_bitmap
  buffers,   \* endpoints with an entry in syslog_buffers
  toFw, fromFw,  \* the mailbox, a2i and i2a
  boots,     \* times boot has been called
  lost,      \* history: whose messages were thrown away, <<boot, endpoint>>
  fw         \* external: the firmware; clean: it started with an empty mailbox,
             \* stale: the application endpoints whose START_EP it found there

driver == <<apc, todo, iop, ap, crashed, bitmap, buffers>>
bootVars == <<driver, toFw, fromFw, boots, lost, fw>>

Msg(t, a) == [type |-> t, arg |-> a]

FwOff(v, m) ==
  [pc |-> "off", ver |-> v, map |-> m, chunk |-> 1, agreed |-> 0,
   started |-> {}, asked |-> {}, buffered |-> {}, apOn |-> FALSE,
   said |-> "none", crashed |-> FALSE, app |-> 0, clean |-> TRUE, stale |-> {}]

BootInit ==
  /\ apc = "off" /\ todo = <<>> /\ iop = "OFF" /\ ap = "OFF"
  /\ crashed = FALSE /\ bitmap = {} /\ buffers = {}
  /\ toFw = <<>> /\ fromFw = <<>> /\ boots = 0 /\ lost = {}
  /\ \E v \in FwVersions, m \in FwMaps : fw = FwOff(v, m)

Send(m) == toFw' = Append(toFw, m)
Goto(p) == apc' = p

------------------------------------------------------------------------------
(* handle_mgmt_message: power states are recorded whatever is waited for. *)
HandleMgmt(m) ==
  /\ iop' = IF m.type = "iopAck" THEN m.arg ELSE iop
  /\ ap' = IF m.type = "apState" THEN m.arg ELSE ap

(* Mutant: every buffer request of the crashlog endpoint reports a crash. *)
ReportsCrashAlways(m) == m.type = "bufReq" /\ m.arg = Crashlog

(* handle_crashlog_message: a request for a second crashlog buffer is how the *)
(* firmware reports a crash.                                                  *)
ReportsCrash(m) == m.type = "bufReq" /\ m.arg = Crashlog /\ Crashlog \in buffers

(* Mutant: the request is recorded and not answered. *)
HandleBufferSilently(m) ==
  /\ buffers' = buffers \cup {m.arg}
  /\ UNCHANGED toFw

(* handle_buffer_request: a buffer the firmware brings is only recorded; one  *)
(* it asks for is allocated unless there is one, and answered.                *)
HandleBuffer(m) ==
  /\ buffers' = buffers \cup {m.arg}
  /\ IF m.type = "bufReq" THEN Send(Msg("bufReply", m.arg)) ELSE UNCHANGED toFw

(* The messages boot's waits deal with and go on. *)
IsMgmt(m) == m.type \in {"hello", "epmap", "iopAck", "apState"}
IsBuffer(m) == m.type \in {"bufReq", "bufGiven"}

------------------------------------------------------------------------------
(* boot_inner *)

(* Application endpoints that an earlier boot asked for and the mailbox holds. *)
LeftOver == {e \in AppEps : Msg("startEp", e) \in ToSet(toFw)}

(* cpu_start, then IOP_PWR_STATE(INIT).  The coprocessor starts afresh; what  *)
(* it said before it was stopped is still in the mailbox, and so is what the  *)
(* driver sent and it did not read: the new message goes behind that, or does *)
(* not fit.                                                                   *)
Boot ==
  /\ apc = "off" /\ boots < MaxBoots
  /\ boots' = boots + 1
  /\ fw' = [FwOff(fw.ver, fw.map) EXCEPT !.pc = "reset", !.stale = LeftOver,
                                         !.clean = (fromFw = <<>> /\ toFw = <<>>)]
  /\ \/ Send(Msg("iopPower", "INIT")) /\ Goto("hello")
     \/ BootMayFail /\ Goto("failed") /\ UNCHANGED toFw
  /\ UNCHANGED <<todo, iop, ap, crashed, bitmap, buffers, fromFw, lost>>

Waiting == apc \in {"hello", "epmap", "waitOn"}

(* The type each wait is for. *)
Awaited == [hello |-> "hello", epmap |-> "epmap", waitOn |-> "iopAck"]

Fail == Goto("failed") /\ todo' = <<>>

(* Mutant: the peer's minimum is not looked at. *)
VersionNoMin(v) ==
  LET n == IF v[2] < ApMax THEN v[2] ELSE ApMax
  IN  IF n < ApMin THEN {} ELSE {n}

(* handle_hello: the version to acknowledge, or none. *)
Version(v) ==
  LET n == IF v[2] < ApMax THEN v[2] ELSE ApMax
  IN  IF n < ApMin \/ n < v[1] THEN {} ELSE {n}

HandleHello(m) ==
  \/ /\ Version(m.arg) = {}
     /\ Fail /\ UNCHANGED <<toFw, bitmap>>
  \/ /\ \E n \in Version(m.arg) : Send(Msg("helloAck", n))
     /\ Goto("epmap") /\ UNCHANGED <<todo, bitmap>>

(* handle_epmap_sequence; after the last message, on to the system endpoints. *)
HandleEpmap(m) ==
  /\ bitmap' = bitmap \cup m.arg.eps
  /\ Send(Msg("epmapReply", m.arg.done))
  /\ IF m.arg.done
       THEN Goto("startSys") /\ todo' = SetToSeq(Default) \o Requested
       ELSE UNCHANGED <<apc, todo>>

(* Mutant: any acknowledged power state ends the wait. *)
HandleOnAny(m) ==
  /\ Goto("apOn")
  /\ UNCHANGED <<toFw, bitmap, todo>>

HandleOn(m) ==
  /\ Goto(IF m.arg = "ON" THEN "apOn" ELSE "waitOn")
  /\ UNCHANGED <<toFw, bitmap, todo>>

(* wait_any_mgmt_msg takes a message: management messages of another type    *)
(* than the awaited one are dropped once recorded, buffer requests answered, *)
(* and what belongs to an application endpoint is dropped.                   *)
WaitMgmt(m) ==
  /\ IsMgmt(m) /\ HandleMgmt(m)
  /\ \/ m.type # Awaited[apc] /\ UNCHANGED <<toFw, apc, todo, bitmap>>
     \/ apc = "hello" /\ m.type = "hello" /\ HandleHello(m)
     \/ apc = "epmap" /\ m.type = "epmap" /\ HandleEpmap(m)
     \/ apc = "waitOn" /\ m.type = "iopAck" /\ HandleOn(m)
  /\ UNCHANGED <<crashed, buffers, lost>>

WaitBuffer(m) ==
  /\ IsBuffer(m) /\ ~ReportsCrash(m) /\ HandleBuffer(m)
  /\ UNCHANGED <<apc, todo, iop, ap, crashed, bitmap, lost>>

WaitCrash(m) ==
  /\ ReportsCrash(m) /\ crashed' = TRUE /\ Fail
  /\ UNCHANGED <<iop, ap, bitmap, buffers, toFw, lost>>

WaitApp(m) ==
  /\ m.type = "app" /\ lost' = lost \cup {m.arg}
  /\ UNCHANGED <<driver, toFw>>

BootWait ==
  /\ Waiting /\ fromFw # <<>> /\ fromFw' = Tail(fromFw)
  /\ LET m == Head(fromFw) IN WaitMgmt(m) \/ WaitBuffer(m) \/ WaitCrash(m) \/ WaitApp(m)
  /\ UNCHANGED <<boots, fw>>

(* A wait times out, or an allocation, a mapping or a send fails. *)
BootFails ==
  /\ BootMayFail /\ apc \notin {"off", "up", "failed"}
  /\ Fail
  /\ UNCHANGED <<iop, ap, crashed, bitmap, buffers, toFw, fromFw, boots, lost, fw>>

(* Mutant: application endpoints are started with the system ones. *)
StartLoopAll(loop, now, next) ==
  /\ apc = loop
  /\ IF todo = <<>>
       THEN Goto(next) /\ todo' = (IF loop = "startSys" THEN <<>> ELSE todo) /\ UNCHANGED toFw
       ELSE /\ todo' = Tail(todo) /\ UNCHANGED apc
            /\ IF Head(todo) \in bitmap
                 THEN Send(Msg("startEp", Head(todo)))
                 ELSE UNCHANGED toFw
  /\ UNCHANGED <<iop, ap, crashed, bitmap, buffers, fromFw, boots, lost, fw>>

(* Mutant: the loop ends at the first endpoint the map lacks. *)
StartLoopBreaks(loop, now, next) ==
  /\ apc = loop
  /\ IF todo = <<>>
       THEN Goto(next) /\ todo' = Requested /\ UNCHANGED toFw
       ELSE IF Head(todo) \in now \cap bitmap
              THEN Send(Msg("startEp", Head(todo))) /\ todo' = Tail(todo) /\ UNCHANGED apc
              ELSE Goto(next) /\ UNCHANGED <<todo, toFw>>
  /\ UNCHANGED <<iop, ap, crashed, bitmap, buffers, fromFw, boots, lost, fw>>

(* Mutant: an endpoint is started without a look at the map. *)
StartLoopBlind(loop, now, next) ==
  /\ apc = loop
  /\ IF todo = <<>>
       THEN Goto(next) /\ todo' = Requested /\ UNCHANGED toFw
       ELSE /\ todo' = Tail(todo) /\ UNCHANGED apc
            /\ IF Head(todo) \in now
                 THEN Send(Msg("startEp", Head(todo)))
                 ELSE UNCHANGED toFw
  /\ UNCHANGED <<iop, ap, crashed, bitmap, buffers, fromFw, boots, lost, fw>>

(* One turn of a loop over endpoints: those in "now" are started when the    *)
(* map has them; a requested one that it lacks fails the boot, a default one *)
(* is skipped.                                                               *)
StartLoop(loop, now, next) ==
  /\ apc = loop
  /\ IF todo = <<>>
       THEN Goto(next) /\ todo' = Requested /\ UNCHANGED toFw
       ELSE LET e == Head(todo)
            IN  CASE e \in now /\ e \in bitmap ->
                       Send(Msg("startEp", e)) /\ todo' = Tail(todo) /\ UNCHANGED apc
                  [] e \in now /\ e \notin bitmap /\ e \in RequestedSet ->
                       Fail /\ UNCHANGED toFw
                  [] OTHER ->
                       todo' = Tail(todo) /\ UNCHANGED <<apc, toFw>>
  /\ UNCHANGED <<iop, ap, crashed, bitmap, buffers, fromFw, boots, lost, fw>>

StartSystem == StartLoop("startSys", Default \cup Extra, "waitOn")
StartApps == StartLoop("startApp", AppEps, "up")

ApOn ==
  /\ apc = "apOn"
  /\ Send(Msg("apPower", "ON")) /\ ap' = "ON"
  /\ Goto("startApp")
  /\ UNCHANGED <<todo, iop, crashed, bitmap, buffers, fromFw, boots, lost, fw>>

------------------------------------------------------------------------------
(* After boot *)

(* recv, from the client's poll: it returns false, the client's message, or  *)
(* an error when the firmware reports a crash.                               *)
Poll ==
  /\ apc \in {"up", "failed"} /\ fromFw # <<>> /\ fromFw' = Tail(fromFw)
  /\ LET m == Head(fromFw)
     IN  \/ /\ IsMgmt(m) /\ HandleMgmt(m)
            /\ UNCHANGED <<crashed, buffers, toFw>>
         \/ /\ IsBuffer(m) /\ ~ReportsCrash(m) /\ HandleBuffer(m)
            /\ UNCHANGED <<iop, ap, crashed>>
         \/ /\ ReportsCrash(m) /\ crashed' = TRUE
            /\ UNCHANGED <<iop, ap, buffers, toFw>>
         \/ /\ m.type = "app"
            /\ UNCHANGED <<iop, ap, crashed, buffers, toFw>>
  /\ UNCHANGED <<apc, todo, bitmap, boots, lost, fw>>

(* start_ep, from a client that has booted without endpoints. *)
StartEp(e) ==
  /\ apc = "up" /\ e \in bitmap /\ e \in AppEps /\ e \notin fw.started
  /\ Msg("startEp", e) \notin ToSet(toFw)
  /\ Send(Msg("startEp", e))
  /\ UNCHANGED <<driver, fromFw, boots, lost, fw>>

(* RemoteProcessor::shutdown: only the power states are reset. *)
Shutdown ==
  /\ apc \in {"up", "failed"}
  /\ iop' = "OFF" /\ ap' = "OFF" /\ Goto("off")
  /\ fw' = [fw EXCEPT !.pc = "off"]
  /\ UNCHANGED <<todo, crashed, bitmap, buffers, toFw, fromFw, boots, lost>>

IsRunning == iop = "ON" /\ ap = "ON" /\ ~crashed
State ==
  CASE crashed                  -> "Crashed"
    [] ~crashed /\ IsRunning    -> "Running"
    [] ~crashed /\ iop = "INIT" -> "Loading"
    [] OTHER                    -> "Offline"

------------------------------------------------------------------------------
(* The firmware *)

Say(m) == fromFw' = Append(fromFw, m)
Chunk == Msg("epmap", [eps |-> fw.map[fw.chunk], done |-> fw.chunk = Len(fw.map)])
FwUnchanged == UNCHANGED <<driver, boots, lost>>

FwReceive ==
  /\ fw.pc \notin {"off", "dead"} /\ toFw # <<>> /\ toFw' = Tail(toFw)
  /\ LET m == Head(toFw)
     IN  CASE m.type = "iopPower" ->
                fw' = [fw EXCEPT !.pc = "hello"] /\ Say(Msg("hello", fw.ver))
           [] m.type = "helloAck" ->
                fw' = [fw EXCEPT !.pc = "epmap", !.agreed = m.arg] /\ Say(Chunk)
           [] m.type = "epmapReply" /\ ~m.arg /\ fw.chunk = Len(fw.map) ->
                UNCHANGED <<fw, fromFw>>
           [] m.type = "epmapReply" /\ ~m.arg /\ fw.chunk # Len(fw.map) ->
                /\ fw' = [fw EXCEPT !.chunk = @ + 1]
                /\ Say(Msg("epmap", [eps |-> fw.map[fw.chunk + 1],
                                        done |-> fw.chunk + 1 = Len(fw.map)]))
           [] m.type = "epmapReply" /\ m.arg ->
                fw' = [fw EXCEPT !.pc = "run"] /\ UNCHANGED fromFw
           [] m.type = "startEp" ->
                fw' = [fw EXCEPT !.started = @ \cup {m.arg}] /\ UNCHANGED fromFw
           [] m.type = "bufReply" ->
                fw' = [fw EXCEPT !.buffered = @ \cup {m.arg}] /\ UNCHANGED fromFw
           [] m.type = "apPower" ->
                fw' = [fw EXCEPT !.apOn = TRUE] /\ Say(Msg("apState", "ON"))
  /\ FwUnchanged

(* A started system endpoint asks for a buffer or says where its own is. *)
FwBuffer(e) ==
  /\ fw.pc = "run" /\ e \in (fw.started \cap Default) \ fw.asked
  /\ \/ /\ Say(Msg("bufReq", e))
        /\ fw' = [fw EXCEPT !.asked = @ \cup {e}]
     \/ /\ Say(Msg("bufGiven", e))
        /\ fw' = [fw EXCEPT !.asked = @ \cup {e}, !.buffered = @ \cup {e}]
  /\ UNCHANGED toFw /\ FwUnchanged

(* It reports INIT at once and ON when every buffer it asked for is there. *)
FwIopInit ==
  /\ fw.pc = "run" /\ fw.said = "none"
  /\ fw' = [fw EXCEPT !.said = "init"]
  /\ Say(Msg("iopAck", "INIT"))
  /\ UNCHANGED toFw /\ FwUnchanged

FwIopOn ==
  /\ fw.pc = "run" /\ fw.said # "on" /\ fw.asked = fw.buffered
  /\ fw' = [fw EXCEPT !.said = "on"]
  /\ Say(Msg("iopAck", "ON"))
  /\ UNCHANGED toFw /\ FwUnchanged

FwApp(e) ==
  /\ fw.pc = "run" /\ e \in fw.started \cap AppEps /\ fw.app < MaxApp
  /\ fw' = [fw EXCEPT !.app = @ + 1]
  /\ Say(Msg("app", <<boots, e>>))
  /\ UNCHANGED toFw /\ FwUnchanged

FwCrash ==
  /\ BootMayFail /\ fw.pc = "run" /\ Crashlog \in fw.buffered
  /\ fw' = [fw EXCEPT !.pc = "dead", !.crashed = TRUE]
  /\ Say(Msg("bufReq", Crashlog))
  /\ UNCHANGED toFw /\ FwUnchanged

------------------------------------------------------------------------------
BootStep == BootWait \/ StartSystem \/ ApOn \/ StartApps
BootFirmware ==
  \/ FwReceive \/ FwIopInit \/ FwIopOn \/ FwCrash
  \/ \E e \in Endpoints : FwBuffer(e) \/ FwApp(e)

BootNext ==
  \/ Boot \/ BootStep \/ BootFails \/ Poll \/ Shutdown
  \/ \E e \in AppEps : StartEp(e)
  \/ BootFirmware

BootSpec == BootInit /\ [][BootNext]_bootVars

(* The booting task keeps running; the firmware reads its mailbox and, once   *)
(* it has its buffers, reports ON.                                            *)
BootFairSpec == BootSpec /\ WF_bootVars(BootStep) /\ WF_bootVars(FwReceive) /\ WF_bootVars(FwIopOn)

------------------------------------------------------------------------------
(* Types *)
Power == {"OFF", "INIT", "ON"}
BootTypeOK ==
  /\ apc \in {"off", "hello", "epmap", "startSys", "waitOn", "apOn", "startApp", "up", "failed"}
  /\ todo \in Seq(Endpoints) /\ {iop, ap} \subseteq Power /\ crashed \in BOOLEAN
  /\ bitmap \subseteq Endpoints /\ buffers \subseteq Default
  /\ boots \in 0 .. MaxBoots /\ lost \subseteq (1 .. MaxBoots) \X AppEps
  /\ apc = "startSys" \/ ToSet(todo) \subseteq RequestedSet

Advertised == UNION {fw.map[i] : i \in DOMAIN fw.map}
Common == fw.ver[1] .. fw.ver[2] \cap ApMin .. ApMax

(* The handshake goes past HELLO exactly with firmware that shares a version *)
(* with the driver, and then both sides use one that both support.           *)
AgreesOnVersion ==
  /\ fw.agreed # 0 => fw.agreed \in Common
  /\ apc \in {"startSys", "waitOn", "apOn", "startApp", "up"} => Common # {}

(* What the driver starts, the firmware of this boot has advertised, whatever *)
(* the number of EPMAP messages.                                              *)
StartsOnlyAdvertised ==
  /\ fw.started \subseteq Advertised
  /\ \A i \in DOMAIN toFw : toFw[i].type = "startEp" => toFw[i].arg \in Advertised

(* "Ok(()) when RTKit reaches the powered-on state and all requested          *)
(* endpoints were started": at Ok, the START_EP of each is sent; and if boot  *)
(* found the mailbox empty both ways, this firmware has reported ON and every *)
(* advertised default endpoint is started too.  (It takes what a coprocessor  *)
(* that was stopped left in the mailbox for the new one's answers, and the    *)
(* new one what was meant for the old.)                                       *)
AskedFor(e) == e \in fw.started \/ Msg("startEp", e) \in ToSet(toFw)
OkMeansStarted ==
  apc = "up" =>
    /\ \A e \in RequestedSet : AskedFor(e)
    /\ fw.clean =>
         /\ fw.said = "on" /\ State \in {"Running", "Crashed"}
         /\ \A e \in Default \cap Advertised : AskedFor(e)

(* wait_any_mgmt_msg drops application messages.  Of this boot's, only those  *)
(* of an endpoint that a START_EP left in the mailbox by an earlier boot has  *)
(* started: this boot starts no application endpoint until its waits are over.*)
BootLosesNothing == \A e \in AppEps : <<boots, e>> \in lost => e \in fw.stale

(* "Check whether RTKit reported crash state": the crash flag is raised only  *)
(* by firmware that has crashed.                                              *)
CrashedOnlyByCrash == (crashed /\ fw.pc # "off") => fw.crashed

(* No deadlock of the handshake: firmware that holds ON back until its        *)
(* buffers are there gets them from the wait for ON, so without timeouts and  *)
(* failures boot succeeds.                                                    *)
BootSucceeds == (apc = "hello") ~> (apc = "up")

(* What boot promises: a common version, only endpoints that exist, Ok only    *)
(* when all asked for run, and no message of theirs thrown away on the way.    *)
BootKeepsPromise == AgreesOnVersion /\ StartsOnlyAdvertised /\ OkMeansStarted /\ BootLosesNothing

=============================================================================
