------------------------------ MODULE BootProofs ------------------------------
(* Proofs about RtkitBoot, for any endpoints, versions and endpoint maps and  *)
(* any number of boots: what boot promises.  And about the composition of the *)
(* services: what the demultiplexer promises holds of its instances there.    *)
EXTENDS MCServices, Integers, SequenceTheorems, FiniteSetTheorems, TLAPS

------------------------------------------------------------------------------
(* The invariant.  Types, of the messages under way too. *)
Places == {"off", "hello", "epmap", "startSys", "waitOn", "apOn", "startApp", "up", "failed"}
Later == {"startSys", "waitOn", "apOn", "startApp", "up"}
Firmwares ==
  [pc : {"off", "reset", "hello", "epmap", "run", "dead"}, ver : FwVersions, map : FwMaps, chunk : Nat,
   agreed : Nat, started : SUBSET Endpoints, asked : SUBSET Default, buffered : SUBSET Default,
   apOn : BOOLEAN, said : {"none", "init", "on"}, crashed : BOOLEAN, app : Nat, clean : BOOLEAN,
   stale : SUBSET AppEps]
Outward ==
  [type : {"iopPower"}, arg : {"INIT"}] \cup [type : {"helloAck"}, arg : Common]
    \cup [type : {"epmapReply"}, arg : BOOLEAN] \cup [type : {"startEp"}, arg : Advertised]
    \cup [type : {"bufReply"}, arg : Default] \cup [type : {"apPower"}, arg : {"ON"}]
Inward ==
  [type : {"hello"}, arg : {fw.ver}] \cup [type : {"epmap"}, arg : [eps : SUBSET Advertised, done : BOOLEAN]]
    \cup [type : {"iopAck"}, arg : {"INIT", "ON"}] \cup [type : {"apState"}, arg : {"ON"}]
    \cup [type : {"bufReq", "bufGiven"}, arg : Default] \cup [type : {"app"}, arg : Nat \X AppEps]

BootTypes ==
  /\ apc \in Places /\ todo \in Seq(Endpoints) /\ iop \in Power /\ ap \in Power /\ crashed \in BOOLEAN
  /\ bitmap \subseteq Advertised /\ buffers \subseteq Default
  /\ boots \in Nat /\ lost \subseteq Nat \X AppEps
  /\ fw \in Firmwares /\ fw.chunk \in DOMAIN fw.map /\ fw.started \subseteq Advertised
  /\ toFw \in Seq(Outward) /\ fromFw \in Seq(Inward)

VersionOK ==
  /\ fw.agreed # 0 => fw.agreed \in Common
  /\ apc \in Later \cup {"epmap"} => Common # {}

(* This boot starts application endpoints when all waits are over: until then *)
(* those alone may run whose START_EP was left over.                          *)
AppsOK ==
  /\ \A q \in lost : q[1] <= boots /\ (q[1] = boots => q[2] \in fw.stale)
  /\ \A i \in DOMAIN fromFw : fromFw[i].type = "app" => fromFw[i].arg[1] <= boots
  /\ apc \in {"hello", "epmap", "startSys", "waitOn", "apOn"} =>
       /\ fw.started \cap AppEps \subseteq fw.stale
       /\ \A i \in DOMAIN toFw : toFw[i].type = "startEp" => toFw[i].arg \notin AppEps \ fw.stale
       /\ \A i \in DOMAIN fromFw :
            fromFw[i].type = "app" /\ fromFw[i].arg[1] = boots => fromFw[i].arg[2] \in fw.stale

(* What the loops of boot_inner are through with is asked for. *)
SystemEps == (Default \cap bitmap) \cup (RequestedSet \ AppEps)
StartsOK ==
  /\ apc = "startSys" =>
       ToSet(todo) \subseteq Default \cup RequestedSet /\ \A e \in SystemEps : e \in ToSet(todo) \/ AskedFor(e)
  /\ apc \in {"waitOn", "apOn", "startApp", "up"} => \A e \in SystemEps : AskedFor(e)
  /\ apc \in {"waitOn", "apOn"} => todo = Requested
  /\ apc = "startApp" => \A e \in RequestedSet \cap AppEps : e \in ToSet(todo) \/ AskedFor(e)
  /\ apc = "up" => \A e \in RequestedSet : AskedFor(e)

(* The handshake is in lockstep until the map is there ... *)
Shaken ==
  /\ apc = "hello" =>
       /\ fw.chunk = 1 /\ fw.said = "none"
       /\ \/ fw.pc = "reset" /\ toFw = <<Msg("iopPower", "INIT")>> /\ fromFw = <<>>
          \/ fw.pc = "hello" /\ toFw = <<>> /\ fromFw = <<Msg("hello", fw.ver)>>
  /\ apc = "epmap" =>
       /\ fw.said = "none"
       /\ \/ fw.pc = "hello" /\ fw.chunk = 1 /\ fromFw = <<>> /\ \E n \in Common : toFw = <<Msg("helloAck", n)>>
          \/ fw.pc = "epmap" /\ toFw = <<>> /\ fromFw = <<Chunk>> /\ \A k \in 1 .. fw.chunk - 1 : fw.map[k] \subseteq bitmap
          \/ /\ fw.pc = "epmap" /\ fw.chunk # Len(fw.map) /\ fromFw = <<>> /\ toFw = <<Msg("epmapReply", FALSE)>>
             /\ \A k \in 1 .. fw.chunk : fw.map[k] \subseteq bitmap

(* ... the firmware then runs once it has read the last reply ... *)
RunsOK ==
  apc \in Later =>
    /\ Advertised \subseteq bitmap /\ fw.pc \in {"epmap", "run", "dead"}
    /\ fw.pc = "epmap" => toFw # <<>> /\ toFw[1] = Msg("epmapReply", TRUE) /\ fromFw = <<>> /\ fw.said = "none"
    /\ \A i \in DOMAIN toFw : toFw[i].type \in {"startEp", "bufReply", "apPower"} \/ (fw.pc = "epmap" /\ i = 1)
    /\ \A i \in DOMAIN fromFw : fromFw[i].type \notin {"hello", "epmap"}

(* ... and ON is the last power state it reports. *)
SaidOK ==
  /\ apc \in Later =>
       \A i \in DOMAIN fromFw : fromFw[i].type = "iopAck" =>
         /\ fw.said # "none"
         /\ fromFw[i].arg = "ON" => fw.said = "on" /\ \A j \in DOMAIN fromFw : i < j => fromFw[j].type # "iopAck"
  /\ apc \in {"apOn", "startApp", "up"} =>
       fw.said = "on" /\ iop = "ON" /\ \A i \in DOMAIN fromFw : fromFw[i].type # "iopAck"
  /\ apc \in {"startApp", "up"} => ap = "ON"

CleanOK == fw.clean => Shaken /\ RunsOK /\ SaidOK
BootInv == BootTypes /\ VersionOK /\ AppsOK /\ StartsOK /\ CleanOK

------------------------------------------------------------------------------
(* Sequences of messages *)
LEMMA Appended ==
  ASSUME NEW S, NEW s \in Seq(S), NEW m \in S, NEW t, t = Append(s, m)
  PROVE  /\ t \in Seq(S) /\ Len(s) \in Nat
         /\ DOMAIN s = 1 .. Len(s) /\ DOMAIN t = 1 .. (Len(s) + 1)
         /\ \A i \in DOMAIN s : i \in DOMAIN t /\ t[i] = s[i]
         /\ t[Len(s) + 1] = m
<1>1. t \in Seq(S) /\ Len(t) = Len(s) + 1 /\ t[Len(s) + 1] = m /\ \A i \in 1 .. Len(s) : t[i] = s[i]
  BY AppendProperties
<1>2. DOMAIN s = 1 .. Len(s) /\ Len(s) \in Nat /\ DOMAIN t = 1 .. (Len(s) + 1)
  BY <1>1
<1>3. QED
  BY <1>1, <1>2

LEMMA AppendedSet ==
  ASSUME NEW S, NEW s \in Seq(S), NEW m \in S
  PROVE  ToSet(Append(s, m)) = ToSet(s) \cup {m}
<1>1. PICK t : t = Append(s, m)
  OBVIOUS
<1>2. /\ DOMAIN s = 1 .. Len(s) /\ DOMAIN t = 1 .. (Len(s) + 1) /\ Len(s) \in Nat
      /\ t[Len(s) + 1] = m /\ \A i \in DOMAIN s : i \in DOMAIN t /\ t[i] = s[i]
  BY <1>1, Appended
<1>3. Len(s) + 1 \in DOMAIN t /\ \A i \in DOMAIN t : (i \in DOMAIN s /\ t[i] = s[i]) \/ t[i] = m
  BY <1>2
<1>4. QED
  BY <1>1, <1>2, <1>3 DEF ToSet

LEMMA Tailed ==
  ASSUME NEW S, NEW s \in Seq(S), s # <<>>, NEW t, t = Tail(s)
  PROVE  /\ t \in Seq(S) /\ Head(s) = s[1] /\ s[1] \in S /\ 1 \in DOMAIN s
         /\ \A i \in DOMAIN t : i \in Nat /\ i # 0 /\ i + 1 \in DOMAIN s /\ t[i] = s[i + 1]
         /\ \A i \in DOMAIN s : i = 1 \/ (i - 1 \in DOMAIN t /\ t[i - 1] = s[i])
<1>1. t \in Seq(S) /\ Len(t) = Len(s) - 1 /\ Head(s) = s[1] /\ Len(s) \in Nat /\ Len(s) # 0
      /\ \A i \in 1 .. Len(t) : t[i] = s[i + 1]
  BY HeadTailProperties, EmptySeq
<1>2. DOMAIN s = 1 .. Len(s) /\ DOMAIN t = 1 .. (Len(s) - 1)
  BY <1>1
<1>3. 1 \in DOMAIN s /\ s[1] \in S
  BY <1>1, <1>2
<1>4. QED
  BY <1>1, <1>2, <1>3

LEMMA TailedSet ==
  ASSUME NEW S, NEW s \in Seq(S), s # <<>>
  PROVE  ToSet(s) = {Head(s)} \cup ToSet(Tail(s))
<1>1. PICK t : t = Tail(s)
  OBVIOUS
<1>2. /\ Head(s) = s[1] /\ 1 \in DOMAIN s
      /\ \A i \in DOMAIN t : i + 1 \in DOMAIN s /\ t[i] = s[i + 1]
      /\ \A i \in DOMAIN s : i = 1 \/ (i - 1 \in DOMAIN t /\ t[i - 1] = s[i])
  BY <1>1, Tailed
<1>3. ASSUME NEW x \in ToSet(s) PROVE x = s[1] \/ x \in ToSet(t)
  <2>1. PICK i \in DOMAIN s : s[i] = x
    BY <1>3 DEF ToSet
  <2>2. QED
    BY <1>2, <2>1 DEF ToSet
<1>4. s[1] \in ToSet(s) /\ \A x \in ToSet(t) : x \in ToSet(s)
  BY <1>2 DEF ToSet
<1>5. QED
  BY <1>1, <1>2, <1>3, <1>4

(* SetToSeq keeps every element. *)
LEMMA SeqOfSet ==
  ASSUME NEW S, IsFiniteSet(S)
  PROVE  SetToSeq(S) \in Seq(S) /\ ToSet(SetToSeq(S)) = S
<1> DEFINE n == Cardinality(S)
<1>1. n \in Nat /\ ExistsBijection(1 .. n, S)
  BY FS_CardinalityType
<1>2. \E f \in [1 .. n -> S] : IsInjective(f)
  BY <1>1 DEF ExistsBijection, Bijection, Injection, IsInjective
<1>3. PICK f : f = SetToSeq(S)
  OBVIOUS
<1>4. f \in [1 .. n -> S] /\ IsInjective(f)
  BY <1>2, <1>3 DEF SetToSeq
<1>5. f \in Injection(1 .. n, S)
  BY <1>4 DEF Injection
<1>6. IsFiniteSet(1 .. n) /\ Cardinality(1 .. n) = n
  BY <1>1, FS_Interval
<1>7. f \in Surjection(1 .. n, S)
  BY <1>5, <1>6, FS_Injection
<1>8. f \in Seq(S) /\ \A e \in S : \E i \in 1 .. n : f[i] = e
  BY <1>1, <1>4, <1>7 DEF Surjection
<1>9. ToSet(f) = S
  BY <1>4, <1>8 DEF ToSet
<1>10. QED
  BY <1>3, <1>8, <1>9

LEMMA FwIs ==
  ASSUME BootAssumption, fw \in Firmwares
  PROVE  /\ fw.map \in Seq(SUBSET Endpoints) /\ Len(fw.map) \in Nat /\ Len(fw.map) # 0
         /\ DOMAIN fw.map = 1 .. Len(fw.map)
         /\ \A k \in DOMAIN fw.map : fw.map[k] \subseteq Advertised
         /\ Advertised \subseteq Endpoints /\ Common \subseteq Nat
         /\ fw.ver \in FwVersions /\ fw.map \in FwMaps
<1>1. fw.ver \in FwVersions /\ fw.map \in FwMaps
  BY DEF Firmwares
<1>2. fw.map \in Seq(SUBSET Endpoints) /\ fw.map # <<>>
  BY <1>1 DEF BootAssumption
<1>3. Len(fw.map) \in Nat /\ Len(fw.map) # 0 /\ DOMAIN fw.map = 1 .. Len(fw.map)
  BY <1>2, EmptySeq, LenProperties
<1>4. \A k \in DOMAIN fw.map : fw.map[k] \subseteq Advertised /\ fw.map[k] \subseteq Endpoints
  BY <1>2, <1>3, ElementOfSeq DEF Advertised
<1>5. Advertised \subseteq Endpoints
  BY <1>4 DEF Advertised
<1>6. Common \subseteq Nat
  <2>1. ApMin \in Nat /\ ApMax \in Nat
    BY DEF BootAssumption
  <2>2. ApMin .. ApMax \subseteq Nat
    BY <2>1
  <2>3. QED
    BY <2>2 DEF Common
<1>7. QED
  BY <1>1, <1>2, <1>3, <1>4, <1>5, <1>6

(* The same firmware: what may be on its way is of the same kind. *)
SameFw == fw'.ver = fw.ver /\ fw'.map = fw.map /\ fw'.stale = fw.stale

LEMMA SameKinds ==
  ASSUME SameFw
  PROVE  Advertised' = Advertised /\ Common' = Common /\ Outward' = Outward /\ Inward' = Inward
<1>1. Advertised' = Advertised /\ Common' = Common
  BY DEF SameFw, Advertised, Common
<1>2. Outward' = Outward /\ Inward' = Inward
  BY <1>1 DEF SameFw, Outward, Inward
<1>3. QED
  BY <1>1, <1>2

(* The driver's actions but Boot and Shutdown leave the firmware alone; what   *)
(* they send and read:                                                        *)
LEMMA OutwardAre ==
  ASSUME BootTypes
  PROVE  /\ Msg("iopPower", "INIT") \in Outward /\ Msg("apPower", "ON") \in Outward
         /\ \A n \in Common : Msg("helloAck", n) \in Outward
         /\ \A b \in BOOLEAN : Msg("epmapReply", b) \in Outward
         /\ \A e \in Advertised : Msg("startEp", e) \in Outward
         /\ \A e \in Default : Msg("bufReply", e) \in Outward
  BY DEF Msg, Outward

LEMMA InwardAre ==
  ASSUME BootTypes
  PROVE  /\ Msg("hello", fw.ver) \in Inward
         /\ \A eps \in SUBSET Advertised, b \in BOOLEAN : Msg("epmap", [eps |-> eps, done |-> b]) \in Inward
         /\ \A s \in {"INIT", "ON"} : Msg("iopAck", s) \in Inward
         /\ Msg("apState", "ON") \in Inward
         /\ \A e \in Default : Msg("bufReq", e) \in Inward /\ Msg("bufGiven", e) \in Inward
         /\ \A n \in Nat, e \in AppEps : Msg("app", <<n, e>>) \in Inward
  BY DEF Msg, Inward

LEMMA InwardArgs ==
  ASSUME NEW m \in Inward
  PROVE  /\ m.type \in {"hello", "epmap", "iopAck", "apState", "bufReq", "bufGiven", "app"}
         /\ m.type = "hello" => m.arg = fw.ver
         /\ m.type = "epmap" => m.arg.eps \subseteq Advertised /\ m.arg.done \in BOOLEAN
         /\ m.type = "iopAck" => m.arg \in {"INIT", "ON"}
         /\ m.type = "apState" => m.arg = "ON"
         /\ m.type \in {"bufReq", "bufGiven"} => m.arg \in Default
         /\ m.type = "app" => m.arg \in Nat \X AppEps
  BY DEF Inward

LEMMA OutwardArgs ==
  ASSUME NEW m \in Outward
  PROVE  /\ m.type \in {"iopPower", "helloAck", "epmapReply", "startEp", "bufReply", "apPower"}
         /\ m.type = "helloAck" => m.arg \in Common
         /\ m.type = "epmapReply" => m.arg \in BOOLEAN
         /\ m.type = "startEp" => m.arg \in Advertised
         /\ m.type = "bufReply" => m.arg \in Default
         /\ m = Msg(m.type, m.arg)
  BY DEF Outward, Msg

(* What the driver makes of a HELLO is a version both sides support. *)
LEMMA VersionIsCommon ==
  ASSUME BootAssumption, fw \in Firmwares, NEW n \in Version(fw.ver)
  PROVE  n \in Common
<1>1. fw.ver \in Nat \X Nat /\ ApMin \in Nat /\ ApMax \in Nat
  BY FwIs DEF BootAssumption
<1>2. fw.ver[1] \in Nat /\ fw.ver[2] \in Nat
  BY <1>1
<1>3. QED
  BY <1>1, <1>2 DEF Version, Common

(* A message taken and one sent *)
LEMMA Taken ==
  ASSUME BootTypes, fromFw # <<>>, fromFw' = Tail(fromFw)
  PROVE  /\ Head(fromFw) = fromFw[1] /\ fromFw[1] \in Inward /\ 1 \in DOMAIN fromFw /\ fromFw' \in Seq(Inward)
         /\ \A i \in DOMAIN fromFw' : i \in Nat /\ i # 0 /\ i + 1 \in DOMAIN fromFw /\ fromFw'[i] = fromFw[i + 1]
  BY Tailed DEF BootTypes

LEMMA SentOut ==
  ASSUME BootTypes, NEW m \in Outward, Send(m)
  PROVE  /\ toFw' \in Seq(Outward) /\ toFw' # <<>> /\ ToSet(toFw') = ToSet(toFw) \cup {m}
         /\ \A i \in DOMAIN toFw' : (i \in DOMAIN toFw /\ toFw'[i] = toFw[i]) \/ toFw'[i] = m
         /\ \A i \in DOMAIN toFw : i \in DOMAIN toFw' /\ toFw'[i] = toFw[i]
         /\ toFw # <<>> => 1 \in DOMAIN toFw
         /\ toFw = <<>> => toFw' = <<m>>
<1>1. toFw' = Append(toFw, m) /\ toFw \in Seq(Outward)
  BY DEF Send, BootTypes
<1>2. /\ toFw' \in Seq(Outward)
      /\ DOMAIN toFw = 1 .. Len(toFw) /\ Len(toFw) \in Nat /\ DOMAIN toFw' = 1 .. (Len(toFw) + 1)
      /\ \A i \in DOMAIN toFw : i \in DOMAIN toFw' /\ toFw'[i] = toFw[i]
      /\ toFw'[Len(toFw) + 1] = m
  BY <1>1, Appended
<1>3. \A i \in DOMAIN toFw' : (i \in DOMAIN toFw /\ toFw'[i] = toFw[i]) \/ toFw'[i] = m
  BY <1>2
<1>4. toFw # <<>> => 1 \in DOMAIN toFw
  BY <1>1, <1>2, EmptySeq
<1>5. ToSet(toFw') = ToSet(toFw) \cup {m}
  BY <1>1, AppendedSet
<1>6. toFw = <<>> => toFw' = <<m>>
  BY <1>1
<1>7. toFw' # <<>>
  BY <1>2
<1>8. QED
  BY <1>2, <1>3, <1>4, <1>5, <1>6, <1>7

LEMMA SentIn ==
  ASSUME BootTypes, NEW m \in Inward, Say(m)
  PROVE  /\ fromFw' \in Seq(Inward)
         /\ \A i \in DOMAIN fromFw' : (i \in DOMAIN fromFw /\ fromFw'[i] = fromFw[i]) \/ fromFw'[i] = m
         /\ \A i, j \in DOMAIN fromFw' : i < j => i \in DOMAIN fromFw /\ fromFw'[i] = fromFw[i]
         /\ fromFw = <<>> => fromFw' = <<m>>
<1>1. fromFw' = Append(fromFw, m) /\ fromFw \in Seq(Inward)
  BY DEF Say, BootTypes
<1>2. /\ fromFw' \in Seq(Inward)
      /\ DOMAIN fromFw = 1 .. Len(fromFw) /\ Len(fromFw) \in Nat /\ DOMAIN fromFw' = 1 .. (Len(fromFw) + 1)
      /\ \A i \in DOMAIN fromFw : i \in DOMAIN fromFw' /\ fromFw'[i] = fromFw[i]
      /\ fromFw'[Len(fromFw) + 1] = m
  BY <1>1, Appended
<1>3. /\ \A i \in DOMAIN fromFw' : (i \in DOMAIN fromFw /\ fromFw'[i] = fromFw[i]) \/ fromFw'[i] = m
      /\ \A i, j \in DOMAIN fromFw' : i < j => i \in DOMAIN fromFw /\ fromFw'[i] = fromFw[i]
  BY <1>2
<1>4. fromFw = <<>> => fromFw' = <<m>>
  BY <1>1
<1>5. QED
  BY <1>2, <1>3, <1>4

LEMMA TodoShrinks ==
  ASSUME BootTypes, todo # <<>>
  PROVE  /\ Tail(todo) \in Seq(Endpoints) /\ Head(todo) \in Endpoints
         /\ ToSet(todo) = {Head(todo)} \cup ToSet(Tail(todo))
<1>1. todo \in Seq(Endpoints)
  BY DEF BootTypes
<1>2. QED
  BY <1>1, HeadTailProperties, TailedSet

LEMMA Requests ==
  ASSUME BootAssumption
  PROVE  /\ Requested \in Seq(Endpoints) /\ ToSet(Requested) = RequestedSet /\ RequestedSet \subseteq Extra \cup AppEps
         /\ SetToSeq(Default) \o Requested \in Seq(Endpoints)
         /\ ToSet(SetToSeq(Default) \o Requested) = Default \cup RequestedSet
<1>1. Requested \in Seq(Extra \cup AppEps) /\ IsFiniteSet(Default)
  BY DEF BootAssumption
<1>2. \A i \in DOMAIN Requested : Requested[i] \in Extra \cup AppEps
  BY <1>1
<1>3. RequestedSet \subseteq Extra \cup AppEps /\ ToSet(Requested) = RequestedSet
  BY <1>2 DEF RequestedSet, ToSet
<1>4. Requested \in Seq(Endpoints) /\ \A e \in Default : e \in Endpoints
  BY <1>1 DEF Endpoints
<1>5. PICK d : d = SetToSeq(Default)
  OBVIOUS
<1>6. d \in Seq(Default) /\ ToSet(d) = Default
  BY <1>1, <1>5, SeqOfSet
<1>7. d \in Seq(Endpoints)
  BY <1>4, <1>6
<1>8. PICK q : q = d \o Requested
  OBVIOUS
<1>9. /\ q \in Seq(Endpoints) /\ DOMAIN d = 1 .. Len(d) /\ DOMAIN Requested = 1 .. Len(Requested)
      /\ DOMAIN q = 1 .. (Len(d) + Len(Requested)) /\ Len(d) \in Nat /\ Len(Requested) \in Nat
      /\ \A i \in DOMAIN q : q[i] = IF i <= Len(d) THEN d[i] ELSE Requested[i - Len(d)]
  BY <1>4, <1>7, <1>8
<1>10. \A i \in DOMAIN q : q[i] \in ToSet(d) \cup ToSet(Requested)
  BY <1>9 DEF ToSet
<1>11. /\ \A i \in DOMAIN d : i \in DOMAIN q /\ q[i] = d[i]
       /\ \A i \in DOMAIN Requested : i + Len(d) \in DOMAIN q /\ q[i + Len(d)] = Requested[i]
  BY <1>9
<1>12. ToSet(q) = ToSet(d) \cup ToSet(Requested)
  BY <1>10, <1>11 DEF ToSet
<1>13. QED
  BY <1>3, <1>4, <1>5, <1>6, <1>8, <1>9, <1>12

------------------------------------------------------------------------------
(* Types *)
LEMMA BootInitOK ==
  ASSUME BootAssumption, BootInit
  PROVE  BootInv
<1>1. PICK v \in FwVersions, m \in FwMaps : fw = FwOff(v, m)
  BY DEF BootInit
<1>2. fw \in Firmwares /\ fw.chunk = 1 /\ fw.started = {} /\ fw.agreed = 0
  BY <1>1 DEF FwOff, Firmwares
<1>3. fw.chunk \in DOMAIN fw.map
  BY <1>2, FwIs
<1>4. /\ apc = "off" /\ todo = <<>> /\ iop = "OFF" /\ ap = "OFF" /\ crashed = FALSE /\ bitmap = {} /\ buffers = {}
      /\ toFw = <<>> /\ fromFw = <<>> /\ boots = 0 /\ lost = {}
  BY DEF BootInit
<1>5. BootTypes
  BY <1>2, <1>3, <1>4, EmptySeq DEF BootTypes, Places, Power
<1>6. VersionOK /\ AppsOK /\ StartsOK /\ CleanOK
  BY <1>2, <1>4 DEF VersionOK, AppsOK, StartsOK, CleanOK, Shaken, RunsOK, SaidOK, Later
<1>7. QED
  BY <1>5, <1>6 DEF BootInv

(* Steps of the driver that leave the firmware alone and know what they send. *)
DriverStep ==
  /\ UNCHANGED <<fw, boots>>
  /\ toFw' = toFw \/ \E m \in Outward : Send(m)
  /\ fromFw' = fromFw \/ (fromFw # <<>> /\ fromFw' = Tail(fromFw))

LEMMA DriverTypes ==
  ASSUME BootAssumption, BootTypes, DriverStep, apc' \in Places, todo' \in Seq(Endpoints),
         iop' \in Power, ap' \in Power, crashed' \in BOOLEAN, bitmap' \subseteq Advertised,
         buffers' \subseteq Default, lost' \subseteq Nat \X AppEps
  PROVE  BootTypes'
<1>1. SameFw /\ fw' = fw /\ boots' = boots
  BY DEF DriverStep, SameFw
<1>2. Advertised' = Advertised /\ Outward' = Outward /\ Inward' = Inward
  BY <1>1, SameKinds
<1>3. toFw' \in Seq(Outward) /\ fromFw' \in Seq(Inward)
  BY SentOut, Taken DEF DriverStep, BootTypes
<1>4. QED
  BY <1>1, <1>2, <1>3 DEF BootTypes

(* Steps of the firmware *)
FwStep ==
  /\ UNCHANGED <<driver, boots, lost>> /\ SameFw /\ fw'.clean = fw.clean
  /\ toFw' = toFw \/ (toFw # <<>> /\ toFw' = Tail(toFw))
  /\ fromFw' = fromFw \/ \E m \in Inward : Say(m)

LEMMA FwTypes ==
  ASSUME BootAssumption, BootTypes, FwStep, fw' \in Firmwares,
         fw'.chunk \in DOMAIN fw.map, fw'.started \subseteq Advertised
  PROVE  BootTypes'
<1>1. Advertised' = Advertised /\ Outward' = Outward /\ Inward' = Inward /\ fw'.map = fw.map
  BY SameKinds DEF FwStep, SameFw
<1>2. toFw' \in Seq(Outward) /\ fromFw' \in Seq(Inward)
  BY SentIn, Tailed DEF FwStep, BootTypes
<1>3. QED
  BY <1>1, <1>2 DEF BootTypes, FwStep, driver

------------------------------------------------------------------------------
(* What rests *)
ReadsOne == fromFw' = fromFw \/ (fromFw # <<>> /\ fromFw' = Tail(fromFw))
Waits == {"hello", "epmap", "startSys", "waitOn", "apOn"}

LEMMA ReadIs ==
  ASSUME BootTypes, ReadsOne
  PROVE  /\ \A i \in DOMAIN fromFw' : \E j \in DOMAIN fromFw : fromFw'[i] = fromFw[j]
         /\ \A i, k \in DOMAIN fromFw' : i < k =>
              \E j, l \in DOMAIN fromFw : j < l /\ fromFw'[i] = fromFw[j] /\ fromFw'[k] = fromFw[l]
<1>1. CASE fromFw' = fromFw
  BY <1>1
<1>2. CASE fromFw # <<>> /\ fromFw' = Tail(fromFw)
  <2>1. \A i \in DOMAIN fromFw' : i \in Nat /\ i + 1 \in DOMAIN fromFw /\ fromFw'[i] = fromFw[i + 1]
    BY <1>2, Taken
  <2>2. \A i, k \in DOMAIN fromFw' : i < k => i + 1 < k + 1
    BY <2>1
  <2>3. QED
    BY <2>1, <2>2
<1>3. QED
  BY <1>1, <1>2 DEF ReadsOne

LEMMA VersionRests ==
  ASSUME VersionOK, SameFw, fw'.agreed = fw.agreed,
         apc' \in Later \cup {"epmap"} => apc \in Later \cup {"epmap"}
  PROVE  VersionOK'
  BY SameKinds DEF VersionOK

LEMMA AppsRest ==
  ASSUME BootTypes, AppsOK, ReadsOne, boots' = boots, lost' = lost, fw'.started = fw.started, fw'.stale = fw.stale,
         apc' \in Waits => apc \in Waits,
         apc' \in Waits => \A i \in DOMAIN toFw' :
            (\E j \in DOMAIN toFw : toFw'[i] = toFw[j]) \/ toFw'[i].type # "startEp" \/ toFw'[i].arg \notin AppEps
  PROVE  AppsOK'
<1>1. \A i \in DOMAIN fromFw' : \E j \in DOMAIN fromFw : fromFw'[i] = fromFw[j]
  BY ReadIs
<1>2. QED
  BY <1>1 DEF AppsOK, Waits

LEMMA StartsRest ==
  ASSUME BootTypes, StartsOK, bitmap' = bitmap, fw.started \subseteq fw'.started,
         \A e : Msg("startEp", e) \in ToSet(toFw) => Msg("startEp", e) \in ToSet(toFw') \/ e \in fw'.started,
         \/ apc' = apc /\ todo' = todo
         \/ apc' \in {"off", "hello", "epmap", "failed"}
  PROVE  StartsOK'
<1>1. \A e : AskedFor(e) => AskedFor(e)'
  BY DEF AskedFor
<1>2. SystemEps' = SystemEps
  BY DEF SystemEps
<1>3. QED
  BY <1>1, <1>2 DEF StartsOK

(* Ends and failures promise nothing. *)
LEMMA EndsOK ==
  ASSUME BootInv, BootTypes', apc' \in {"off", "failed"}, ReadsOne, SameFw, fw'.agreed = fw.agreed,
         boots' = boots, lost' = lost, fw'.started = fw.started
  PROVE  BootInv'
<1>1. VersionOK'
  BY VersionRests DEF BootInv, Later
<1>2. AppsOK'
  BY AppsRest DEF BootInv, Waits, SameFw
<1>3. StartsOK' /\ CleanOK'
  BY DEF StartsOK, CleanOK, Shaken, RunsOK, SaidOK, Later
<1>4. QED
  BY <1>1, <1>2, <1>3 DEF BootInv

(* The firmware is up and the driver reads and sends. *)
Chatter == {"startEp", "bufReply", "apPower"}
SendsChatter == toFw' = toFw \/ \E m \in Outward : m.type \in Chatter /\ Send(m)

LEMMA ChatterKeeps ==
  ASSUME BootTypes, SendsChatter
  PROVE  /\ ToSet(toFw) \subseteq ToSet(toFw')
         /\ \A i \in DOMAIN toFw : i \in DOMAIN toFw' /\ toFw'[i] = toFw[i]
         /\ \A i \in DOMAIN toFw' : (i \in DOMAIN toFw /\ toFw'[i] = toFw[i]) \/ toFw'[i].type \in Chatter
         /\ toFw # <<>> => toFw' # <<>> /\ 1 \in DOMAIN toFw
<1>1. CASE toFw' = toFw
  <2>1. toFw # <<>> => 1 \in DOMAIN toFw
    BY EmptySeq, LenProperties DEF BootTypes
  <2>2. QED
    BY <1>1, <2>1
<1>2. CASE \E m \in Outward : m.type \in Chatter /\ Send(m)
  BY <1>2, SentOut
<1>3. QED
  BY <1>1, <1>2 DEF SendsChatter

LEMMA RunsRest ==
  ASSUME BootTypes, RunsOK, fw' = fw, ReadsOne, SendsChatter, apc' \in Later => apc \in Later,
         bitmap \subseteq bitmap', fw.pc = "epmap" => fromFw' = fromFw
  PROVE  RunsOK'
<1>1. SUFFICES ASSUME apc' \in Later PROVE RunsOK'
  BY DEF RunsOK
<1>2. apc \in Later /\ Advertised' = Advertised
  BY <1>1 DEF Advertised
<1>3. /\ ToSet(toFw) \subseteq ToSet(toFw')
      /\ \A i \in DOMAIN toFw : i \in DOMAIN toFw' /\ toFw'[i] = toFw[i]
      /\ \A i \in DOMAIN toFw' : (i \in DOMAIN toFw /\ toFw'[i] = toFw[i]) \/ toFw'[i].type \in Chatter
      /\ toFw # <<>> => toFw' # <<>> /\ 1 \in DOMAIN toFw
  BY ChatterKeeps
<1>4. \A i \in DOMAIN fromFw' : fromFw'[i].type \notin {"hello", "epmap"}
  BY <1>2, ReadIs DEF RunsOK
<1>5. \A i \in DOMAIN toFw' : toFw'[i].type \in Chatter \/ (fw.pc = "epmap" /\ i = 1)
  BY <1>2, <1>3 DEF RunsOK, Chatter
<1>6. fw.pc = "epmap" => toFw' # <<>> /\ toFw'[1] = Msg("epmapReply", TRUE) /\ fromFw' = <<>> /\ fw.said = "none"
  BY <1>2, <1>3 DEF RunsOK
<1>7. Advertised \subseteq bitmap' /\ fw.pc \in {"epmap", "run", "dead"}
  BY <1>2 DEF RunsOK
<1>8. QED
  BY <1>2, <1>4, <1>5, <1>6, <1>7 DEF RunsOK, Chatter, Msg

LEMMA SaidRests ==
  ASSUME BootTypes, SaidOK, fw' = fw, ReadsOne, apc' \in Later => apc \in Later,
         apc' \in {"apOn", "startApp", "up"} => apc \in {"apOn", "startApp", "up"} /\ iop' = iop,
         apc' \in {"startApp", "up"} => ap' = "ON" \/ (apc \in {"startApp", "up"} /\ ap' = ap)
  PROVE  SaidOK'
<1>1. /\ \A i \in DOMAIN fromFw' : \E j \in DOMAIN fromFw : fromFw'[i] = fromFw[j]
      /\ \A i, k \in DOMAIN fromFw' : i < k =>
              \E j, l \in DOMAIN fromFw : j < l /\ fromFw'[i] = fromFw[j] /\ fromFw'[k] = fromFw[l]
  BY ReadIs
<1>2. apc' \in Later =>
       \A i \in DOMAIN fromFw' : fromFw'[i].type = "iopAck" =>
         /\ fw.said # "none"
         /\ fromFw'[i].arg = "ON" => fw.said = "on" /\ \A k \in DOMAIN fromFw' : i < k => fromFw'[k].type # "iopAck"
  BY <1>1 DEF SaidOK
<1>3. apc' \in {"apOn", "startApp", "up"} =>
       fw.said = "on" /\ iop' = "ON" /\ \A i \in DOMAIN fromFw' : fromFw'[i].type # "iopAck"
  BY <1>1 DEF SaidOK
<1>4. apc' \in {"startApp", "up"} => ap' = "ON"
  BY DEF SaidOK
<1>5. QED
  BY <1>2, <1>3, <1>4 DEF SaidOK

------------------------------------------------------------------------------
(* The waits of boot_inner, and poll *)
Reading == fromFw # <<>> /\ fromFw' = Tail(fromFw) /\ UNCHANGED <<boots, fw>>

(* What a clean boot finds when it reads *)
LEMMA ReadsClean ==
  ASSUME BootInv, Reading, fw.clean
  PROVE  /\ apc = "hello" => /\ fromFw[1] = Msg("hello", fw.ver) /\ fromFw' = <<>> /\ toFw = <<>>
                             /\ fw.pc = "hello" /\ fw.chunk = 1 /\ fw.said = "none"
         /\ apc = "epmap" => /\ fromFw[1] = Chunk /\ fromFw' = <<>> /\ toFw = <<>> /\ fw.pc = "epmap" /\ fw.said = "none"
                             /\ \A k \in 1 .. fw.chunk - 1 : fw.map[k] \subseteq bitmap
         /\ apc \in Later => fromFw[1].type \notin {"hello", "epmap"} /\ fw.pc # "epmap"
         /\ apc = "up" => fromFw[1].type # "iopAck"
<1>1. Shaken /\ RunsOK /\ SaidOK /\ 1 \in DOMAIN fromFw
  BY Taken DEF BootInv, CleanOK, Reading
<1>2. \A m : fromFw = <<m>> => fromFw' = <<>> /\ fromFw[1] = m
  BY DEF Reading
<1>3. fromFw # <<>>
  BY DEF Reading
<1>4. apc = "hello" => fw.pc = "hello" /\ toFw = <<>> /\ fromFw = <<Msg("hello", fw.ver)>> /\ fw.chunk = 1 /\ fw.said = "none"
  BY <1>1, <1>3 DEF Shaken
<1>5. apc = "epmap" => /\ fw.pc = "epmap" /\ toFw = <<>> /\ fromFw = <<Chunk>> /\ fw.said = "none"
                       /\ \A k \in 1 .. fw.chunk - 1 : fw.map[k] \subseteq bitmap
  BY <1>1, <1>3 DEF Shaken
<1>6. apc \in Later => fromFw[1].type \notin {"hello", "epmap"} /\ fw.pc # "epmap"
  BY <1>1, <1>3 DEF RunsOK
<1>7. apc = "up" => fromFw[1].type # "iopAck"
  BY <1>1 DEF SaidOK
<1>8. QED
  BY <1>2, <1>4, <1>5, <1>6, <1>7

(* A message that is dealt with and leaves the driver where it is. *)
LEMMA StaysOK ==
  ASSUME BootInv, BootTypes', AppsOK', Reading, SendsChatter, apc' = apc, todo' = todo, bitmap' = bitmap,
         apc \in {"hello", "epmap", "waitOn", "up", "failed"},
         fw.clean => apc \notin {"hello", "epmap"},
         fw.clean /\ apc = "up" => iop' = iop /\ ap' \in {ap, "ON"}
  PROVE  BootInv'
<1>1. fw' = fw /\ SameFw /\ ReadsOne
  BY DEF Reading, SameFw, ReadsOne
<1>2. VersionOK'
  BY <1>1, VersionRests DEF BootInv
<1>3. ToSet(toFw) \subseteq ToSet(toFw')
  BY ChatterKeeps DEF BootInv
<1>4. StartsOK'
  BY <1>1, <1>3, StartsRest DEF BootInv
<1>5. ASSUME fw.clean PROVE Shaken' /\ RunsOK' /\ SaidOK'
  <2>1. fw.pc = "epmap" => apc \notin Later
    BY <1>5, ReadsClean
  <2>2. apc \in Later => RunsOK'
    BY <1>1, <1>5, <2>1, RunsRest DEF BootInv, CleanOK
  <2>3. SaidOK'
    BY <1>1, <1>5, SaidRests DEF BootInv, CleanOK
  <2>4. Shaken' /\ (apc \notin Later => RunsOK')
    BY <1>5 DEF Shaken, RunsOK
  <2>5. QED
    BY <2>2, <2>3, <2>4
<1>6. QED
  BY <1>1, <1>2, <1>4, <1>5 DEF BootInv, CleanOK

(* Both deal with a buffer in the same way. *)
LEMMA BufferIs ==
  ASSUME BootAssumption, BootInv, Reading, IsBuffer(fromFw[1]), HandleBuffer(fromFw[1]),
         UNCHANGED <<apc, todo, iop, ap, crashed, bitmap, lost>>,
         apc \in {"hello", "epmap", "waitOn", "up", "failed"}
  PROVE  BootInv'
<1>1. BootTypes /\ AppsOK /\ fromFw[1] \in Inward /\ fw' = fw /\ SameFw /\ ReadsOne
  BY Taken DEF BootInv, Reading, SameFw, ReadsOne
<1>2. fromFw[1].arg \in Default
  BY <1>1, InwardArgs DEF IsBuffer
<1>3. Msg("bufReply", fromFw[1].arg) \in Outward /\ Msg("bufReply", fromFw[1].arg).type = "bufReply"
  BY <1>1, <1>2, OutwardAre DEF Msg
<1>4. SendsChatter /\ (toFw' = toFw \/ Send(Msg("bufReply", fromFw[1].arg)))
  BY <1>3 DEF HandleBuffer, SendsChatter, Chatter
<1>5. BootTypes'
  <2>1. DriverStep
    BY <1>3, <1>4 DEF DriverStep, Reading
  <2>2. buffers' \subseteq Default
    BY <1>1, <1>2 DEF HandleBuffer, BootTypes
  <2>3. QED
    BY <1>1, <2>1, <2>2, DriverTypes DEF BootTypes
<1>6. AppsOK'
  <2>1. \A i \in DOMAIN toFw' : (\E j \in DOMAIN toFw : toFw'[i] = toFw[j]) \/ toFw'[i].type # "startEp"
    BY <1>1, <1>3, <1>4, SentOut
  <2>2. QED
    BY <1>1, <2>1, AppsRest DEF Reading
<1>7. fw.clean => apc \notin {"hello", "epmap"}
  BY ReadsClean DEF IsBuffer, Msg, Chunk
<1>8. QED
  BY <1>4, <1>5, <1>6, <1>7, StaysOK

(* Management messages are recorded, and answered in boot only. *)
LEMMA MgmtStays ==
  ASSUME BootAssumption, BootInv, Reading, IsMgmt(fromFw[1]), HandleMgmt(fromFw[1]),
         UNCHANGED <<apc, todo, crashed, bitmap, buffers, toFw, lost>>,
         \/ apc \in {"up", "failed"}
         \/ apc \in {"hello", "epmap", "waitOn"} /\ fromFw[1].type # Awaited[apc]
         \/ apc = "waitOn" /\ fromFw[1].type = "iopAck" /\ fromFw[1].arg # "ON"
  PROVE  BootInv'
<1>1. BootTypes /\ AppsOK /\ fromFw[1] \in Inward /\ fw' = fw /\ SameFw /\ ReadsOne
  BY Taken DEF BootInv, Reading, SameFw, ReadsOne
<1>2. iop' \in Power /\ ap' \in {ap, "ON"} /\ ap' \in Power /\ (fromFw[1].type # "iopAck" => iop' = iop)
  BY <1>1, InwardArgs DEF HandleMgmt, Power, BootTypes
<1>3. BootTypes'
  <2>1. DriverStep
    BY DEF DriverStep, Reading
  <2>2. QED
    BY <1>1, <1>2, <2>1, DriverTypes DEF BootTypes
<1>4. AppsOK' /\ SendsChatter
  BY <1>1, AppsRest DEF Reading, SendsChatter
<1>5. fw.clean => apc \notin {"hello", "epmap"}
  BY ReadsClean DEF Awaited, Msg, Chunk
<1>6. fw.clean /\ apc = "up" => iop' = iop /\ ap' \in {ap, "ON"}
  BY <1>2, ReadsClean
<1>7. QED
  BY <1>3, <1>4, <1>5, <1>6, StaysOK

LEMMA CrashEnds ==
  ASSUME BootAssumption, BootInv, Reading, UNCHANGED <<iop, ap, bitmap, buffers, toFw, lost>>, crashed' = TRUE,
         Fail \/ (UNCHANGED <<apc, todo>> /\ apc \in {"up", "failed"})
  PROVE  BootInv'
<1>1. BootTypes /\ AppsOK /\ fw' = fw /\ SameFw /\ ReadsOne /\ DriverStep
  BY DEF BootInv, Reading, SameFw, ReadsOne, DriverStep
<1>2. BootTypes'
  BY <1>1, DriverTypes, EmptySeq DEF BootTypes, Fail, Goto, Places
<1>3. CASE Fail
  BY <1>1, <1>2, <1>3, EndsOK DEF Fail, Goto, Reading
<1>4. CASE UNCHANGED <<apc, todo>> /\ apc \in {"up", "failed"}
  <2>1. AppsOK' /\ SendsChatter
    BY <1>1, AppsRest, <1>4 DEF Reading, SendsChatter
  <2>2. QED
    BY <1>2, <1>4, <2>1, StaysOK
<1>5. QED
  BY <1>3, <1>4

LEMMA PollOK ==
  ASSUME BootAssumption, BootInv, Poll
  PROVE  BootInv'
<1>1. /\ apc \in {"up", "failed"} /\ Reading /\ UNCHANGED <<apc, todo, bitmap, lost>> /\ fromFw[1] = Head(fromFw)
      /\ BootTypes /\ AppsOK
  BY Taken DEF Poll, Reading, BootInv
<1>2. PICK m : m = fromFw[1] /\ m = Head(fromFw)
  BY <1>1
<1>3. CASE IsMgmt(m) /\ HandleMgmt(m) /\ UNCHANGED <<crashed, buffers, toFw>>
  BY <1>1, <1>2, <1>3, MgmtStays
<1>4. CASE IsBuffer(m) /\ HandleBuffer(m) /\ UNCHANGED <<iop, ap, crashed>>
  BY <1>1, <1>2, <1>4, BufferIs
<1>5. CASE crashed' = TRUE /\ UNCHANGED <<iop, ap, buffers, toFw>>
  BY <1>1, <1>5, CrashEnds
<1>6. CASE UNCHANGED <<iop, ap, crashed, buffers, toFw>>
  <2>1. fw' = fw /\ SameFw /\ ReadsOne /\ DriverStep /\ SendsChatter
    BY <1>1, <1>6 DEF Reading, SameFw, ReadsOne, DriverStep, SendsChatter
  <2>2. BootTypes'
    BY <1>1, <1>6, <2>1, DriverTypes DEF BootTypes
  <2>3. AppsOK'
    BY <1>1, <1>6, <2>1, AppsRest DEF Reading
  <2>4. QED
    BY <1>1, <1>6, <2>1, <2>2, <2>3, StaysOK
<1>7. QED
  BY <1>2, <1>3, <1>4, <1>5, <1>6 DEF Poll

(* HELLO: no common version ends it, else the acknowledgement is under way. *)
LEMMA HelloOK ==
  ASSUME BootAssumption, BootInv, Reading, apc = "hello", fromFw[1].type = "hello",
         HandleMgmt(fromFw[1]), HandleHello(fromFw[1]), UNCHANGED <<crashed, buffers, lost>>
  PROVE  BootInv'
<1>1. BootTypes /\ AppsOK /\ fromFw[1] \in Inward /\ fw \in Firmwares /\ fw' = fw /\ SameFw /\ ReadsOne
  BY Taken DEF BootInv, BootTypes, Reading, SameFw, ReadsOne
<1>2. fromFw[1].arg = fw.ver /\ iop' = iop /\ ap' = ap
  BY <1>1, InwardArgs DEF HandleMgmt
<1>3. CASE Fail /\ UNCHANGED <<toFw, bitmap>>
  <2>1. DriverStep
    BY <1>3 DEF DriverStep, Reading
  <2>2. BootTypes'
    BY <1>1, <1>2, <1>3, <2>1, DriverTypes, EmptySeq DEF BootTypes, Fail, Goto, Places
  <2>3. QED
    BY <1>1, <1>3, <2>2, EndsOK DEF Fail, Goto, Reading
<1>4. CASE \E n \in Version(fw.ver) : Send(Msg("helloAck", n)) /\ Goto("epmap") /\ UNCHANGED <<todo, bitmap>>
  <2>1. PICK n \in Version(fw.ver) : Send(Msg("helloAck", n)) /\ apc' = "epmap" /\ todo' = todo /\ bitmap' = bitmap
    BY <1>4 DEF Goto
  <2>2. n \in Common
    BY <1>1, VersionIsCommon
  <2>3. PICK m : m = Msg("helloAck", n)
    OBVIOUS
  <2>4. m \in Outward /\ m.type = "helloAck" /\ Send(m)
    BY <1>1, <2>1, <2>2, <2>3, OutwardAre DEF Msg
  <2>5. BootTypes'
    <3>1. DriverStep
      BY <2>4 DEF DriverStep, Reading
    <3>2. QED
      BY <1>1, <1>2, <2>1, <3>1, DriverTypes DEF BootTypes, Places
  <2>6. VersionOK'
    BY <1>1, <2>2, SameKinds DEF VersionOK, BootInv
  <2>7. \A i \in DOMAIN toFw' : (\E j \in DOMAIN toFw : toFw'[i] = toFw[j]) \/ toFw'[i].type # "startEp"
    BY <1>1, <2>4, SentOut
  <2>8. AppsOK'
    BY <1>1, <2>1, <2>7, AppsRest DEF Reading, Waits
  <2>9. StartsOK'
    BY <2>1 DEF StartsOK
  <2>10. ASSUME fw.clean PROVE Shaken' /\ RunsOK' /\ SaidOK'
    <3>1. fromFw' = <<>> /\ toFw = <<>> /\ fw.pc = "hello" /\ fw.chunk = 1 /\ fw.said = "none"
      BY <2>10, ReadsClean
    <3>2. toFw' = <<Msg("helloAck", n)>> /\ Common' = Common
      BY <1>1, <2>3, <2>4, <3>1, SentOut, SameKinds
    <3>3. Shaken'
      BY <1>1, <2>1, <2>2, <3>1, <3>2 DEF Shaken
    <3>4. QED
      BY <2>1, <3>3 DEF RunsOK, SaidOK, Later
  <2>11. QED
    BY <1>1, <2>5, <2>6, <2>8, <2>9, <2>10 DEF BootInv, CleanOK
<1>5. QED
  BY <1>2, <1>3, <1>4 DEF HandleHello

(* EPMAP: the map grows; with its last message the loops may start. *)
LEMMA EpmapOK ==
  ASSUME BootAssumption, BootInv, Reading, apc = "epmap", fromFw[1].type = "epmap",
         HandleMgmt(fromFw[1]), HandleEpmap(fromFw[1]), UNCHANGED <<crashed, buffers, lost>>
  PROVE  BootInv'
<1>1. BootTypes /\ AppsOK /\ fromFw[1] \in Inward /\ fw \in Firmwares /\ fw' = fw /\ SameFw /\ ReadsOne
  BY Taken DEF BootInv, BootTypes, Reading, SameFw, ReadsOne
<1>2. PICK b, eps : b = fromFw[1].arg.done /\ eps = fromFw[1].arg.eps
  OBVIOUS
<1>3. b \in BOOLEAN /\ eps \subseteq Advertised /\ iop' = iop /\ ap' = ap /\ bitmap' = bitmap \cup eps
  BY <1>1, <1>2, InwardArgs DEF HandleMgmt, HandleEpmap
<1>4. bitmap' \subseteq Advertised
  BY <1>1, <1>3 DEF BootTypes
<1>5. PICK m : m = Msg("epmapReply", b)
  OBVIOUS
<1>6. m \in Outward /\ m.type = "epmapReply" /\ Send(m)
  BY <1>1, <1>2, <1>3, <1>5, OutwardAre DEF Msg, HandleEpmap
<1>7. /\ b => apc' = "startSys" /\ todo' = SetToSeq(Default) \o Requested
      /\ ~b => apc' = apc /\ todo' = todo
  BY <1>2 DEF HandleEpmap, Goto
<1>8. BootTypes'
  <2>1. DriverStep
    BY <1>6 DEF DriverStep, Reading
  <2>2. todo' \in Seq(Endpoints) /\ apc' \in Places
    BY <1>1, <1>3, <1>7, Requests DEF BootTypes, Places
  <2>3. QED
    BY <1>1, <1>3, <1>4, <2>1, <2>2, DriverTypes DEF BootTypes
<1>9. VersionOK'
  BY <1>1, VersionRests DEF BootInv
<1>10. AppsOK'
  <2>1. \A i \in DOMAIN toFw' : (\E j \in DOMAIN toFw : toFw'[i] = toFw[j]) \/ toFw'[i].type # "startEp"
    BY <1>1, <1>6, SentOut
  <2>2. QED
    BY <1>1, <2>1, AppsRest DEF Reading, Waits
<1>11. StartsOK'
  <2>1. CASE b
    <3>1. ToSet(todo') = Default \cup RequestedSet /\ apc' = "startSys"
      BY <1>7, <2>1, Requests
    <3>2. SystemEps' \subseteq ToSet(todo')
      BY <3>1 DEF SystemEps
    <3>3. QED
      BY <3>1, <3>2 DEF StartsOK
  <2>2. CASE ~b
    BY <1>7, <2>2 DEF StartsOK
  <2>3. QED
    BY <1>3, <2>1, <2>2
<1>12. ASSUME fw.clean PROVE Shaken' /\ RunsOK' /\ SaidOK'
  <2>1. /\ fromFw[1] = Chunk /\ fromFw' = <<>> /\ toFw = <<>> /\ fw.pc = "epmap" /\ fw.said = "none"
        /\ \A k \in 1 .. fw.chunk - 1 : fw.map[k] \subseteq bitmap
    BY <1>12, ReadsClean
  <2>2. toFw' = <<m>>
    BY <1>1, <1>6, <2>1, SentOut
  <2>3. eps = fw.map[fw.chunk] /\ b = (fw.chunk = Len(fw.map)) /\ fw.chunk \in 1 .. Len(fw.map) /\ Len(fw.map) \in Nat
    BY <1>1, <1>2, <2>1, FwIs DEF Chunk, Msg, BootTypes
  <2>4. \A k \in 1 .. fw.chunk : fw.map[k] \subseteq bitmap'
    BY <1>3, <2>1, <2>3
  <2>5. CASE b
    <3>1. Advertised \subseteq bitmap' /\ Advertised' = Advertised
      <4>1. DOMAIN fw.map = 1 .. fw.chunk
        BY <1>1, <2>3, <2>5, FwIs
      <4>2. \A k \in DOMAIN fw.map : fw.map[k] \subseteq bitmap'
        BY ONLY <2>4, <4>1
      <4>3. Advertised \subseteq bitmap'
        BY ONLY <4>2 DEF Advertised
      <4>4. QED
        BY <1>1, <4>3, SameKinds
    <3>2. RunsOK'
      <4>1. toFw' # <<>> /\ toFw'[1] = Msg("epmapReply", TRUE) /\ DOMAIN toFw' = {1}
        BY <1>5, <2>2, <2>5
      <4>2. QED
        BY <1>1, <2>1, <3>1, <4>1 DEF RunsOK
    <3>3. Shaken' /\ SaidOK'
      BY <1>7, <2>1, <2>5 DEF Shaken, SaidOK
    <3>4. QED
      BY <3>2, <3>3
  <2>6. CASE ~b
    <3>1. Shaken'
      BY <1>1, <1>5, <1>7, <2>1, <2>2, <2>3, <2>4, <2>6 DEF Shaken
    <3>2. QED
      BY <1>7, <2>6, <3>1 DEF RunsOK, SaidOK, Later
  <2>7. QED
    BY <1>3, <2>5, <2>6
<1>13. QED
  BY <1>1, <1>8, <1>9, <1>10, <1>11, <1>12 DEF BootInv, CleanOK

(* ON ends the wait. *)
LEMMA OnOK ==
  ASSUME BootAssumption, BootInv, Reading, apc = "waitOn", fromFw[1].type = "iopAck", fromFw[1].arg = "ON",
         HandleMgmt(fromFw[1]), HandleOn(fromFw[1]), UNCHANGED <<crashed, buffers, lost>>
  PROVE  BootInv'
<1>1. BootTypes /\ AppsOK /\ fromFw[1] \in Inward /\ fw \in Firmwares /\ fw' = fw /\ SameFw /\ ReadsOne
  BY Taken DEF BootInv, BootTypes, Reading, SameFw, ReadsOne
<1>2. iop' = "ON" /\ ap' = ap /\ apc' = "apOn" /\ todo' = todo /\ bitmap' = bitmap /\ toFw' = toFw
  BY DEF HandleMgmt, HandleOn, Goto
<1>3. BootTypes'
  BY <1>1, <1>2, DriverTypes DEF BootTypes, Power, Places, DriverStep, Reading
<1>4. VersionOK'
  BY <1>1, VersionRests DEF BootInv, Later
<1>5. AppsOK'
  BY <1>1, <1>2, AppsRest DEF Reading, Waits
<1>6. StartsOK'
  <2>1. StartsOK
    BY DEF BootInv
  <2>2. QED
    BY <1>1, <1>2, <2>1 DEF StartsOK, AskedFor, SystemEps
<1>7. ASSUME fw.clean PROVE Shaken' /\ RunsOK' /\ SaidOK'
  <2>1. RunsOK /\ SaidOK /\ fw.pc # "epmap"
    BY <1>7, ReadsClean DEF BootInv, CleanOK, Later
  <2>2. RunsOK'
    BY <1>1, <1>2, <2>1, RunsRest DEF SendsChatter, Later
  <2>3. SaidOK'
    <3>1. /\ \A i \in DOMAIN fromFw' : i \in Nat /\ i # 0 /\ i + 1 \in DOMAIN fromFw /\ fromFw'[i] = fromFw[i + 1]
          /\ 1 \in DOMAIN fromFw
      BY <1>1, Taken DEF Reading
    <3>2. fw.said = "on" /\ \A j \in DOMAIN fromFw : 1 < j => fromFw[j].type # "iopAck"
      BY <2>1, <3>1 DEF SaidOK, Later
    <3>3. \A i \in DOMAIN fromFw' : fromFw'[i].type # "iopAck"
      BY <3>1, <3>2
    <3>4. QED
      BY <1>1, <1>2, <3>2, <3>3 DEF SaidOK
  <2>4. Shaken'
    BY <1>2 DEF Shaken
  <2>5. QED
    BY <2>2, <2>3, <2>4
<1>8. QED
  BY <1>1, <1>3, <1>4, <1>5, <1>6, <1>7 DEF BootInv, CleanOK

LEMMA WaitAppOK ==
  ASSUME BootAssumption, BootInv, Reading, Waiting, WaitApp(fromFw[1])
  PROVE  BootInv'
<1>1. /\ BootTypes /\ AppsOK /\ fromFw[1] \in Inward /\ 1 \in DOMAIN fromFw /\ fw' = fw /\ SameFw /\ ReadsOne
      /\ UNCHANGED <<apc, todo, iop, ap, crashed, bitmap, buffers, toFw>>
  BY Taken DEF BootInv, Reading, SameFw, ReadsOne, WaitApp, driver
<1>2. PICK n : n = fromFw[1].arg
  OBVIOUS
<1>3. /\ n \in Nat \X AppEps /\ n[1] <= boots /\ (n[1] = boots => n[2] \in fw.stale)
      /\ lost' = lost \cup {n} /\ apc \in {"hello", "epmap", "waitOn"}
  BY <1>1, <1>2, InwardArgs DEF AppsOK, WaitApp, Waiting
<1>4. BootTypes'
  <2>1. DriverStep /\ lost' \subseteq Nat \X AppEps
    BY <1>1, <1>3 DEF DriverStep, Reading, BootTypes
  <2>2. QED
    BY <1>1, <2>1, DriverTypes DEF BootTypes
<1>5. AppsOK'
  <2>1. \A i \in DOMAIN fromFw' : \E j \in DOMAIN fromFw : fromFw'[i] = fromFw[j]
    BY <1>1, ReadIs
  <2>2. QED
    BY <1>1, <1>3, <2>1 DEF AppsOK, Reading
<1>6. fw.clean => apc \notin {"hello", "epmap"}
  BY ReadsClean DEF WaitApp, Msg, Chunk
<1>7. QED
  BY <1>1, <1>3, <1>4, <1>5, <1>6, StaysOK DEF SendsChatter

LEMMA BootWaitOK ==
  ASSUME BootAssumption, BootInv, BootWait
  PROVE  BootInv'
<1>1. Reading /\ Waiting /\ fromFw[1] = Head(fromFw) /\ fromFw[1] \in Inward /\ apc \in {"hello", "epmap", "waitOn"}
  BY Taken DEF BootWait, Reading, BootInv, Waiting
<1>2. PICK m : m = fromFw[1] /\ m = Head(fromFw)
  BY <1>1
<1>3. CASE WaitMgmt(m)
  <2>1. IsMgmt(m) /\ HandleMgmt(m) /\ UNCHANGED <<crashed, buffers, lost>>
    BY <1>3 DEF WaitMgmt
  <2>2. CASE m.type # Awaited[apc] /\ UNCHANGED <<toFw, apc, todo, bitmap>>
    BY <1>1, <1>2, <2>1, <2>2, MgmtStays
  <2>3. CASE apc = "hello" /\ m.type = "hello" /\ HandleHello(m)
    BY <1>1, <1>2, <2>1, <2>3, HelloOK
  <2>4. CASE apc = "epmap" /\ m.type = "epmap" /\ HandleEpmap(m)
    BY <1>1, <1>2, <2>1, <2>4, EpmapOK
  <2>5. CASE apc = "waitOn" /\ m.type = "iopAck" /\ HandleOn(m)
    <3>1. CASE m.arg = "ON"
      BY <1>1, <1>2, <2>1, <2>5, <3>1, OnOK
    <3>2. CASE m.arg # "ON"
      <4>1. UNCHANGED <<apc, todo, bitmap, toFw>>
        BY <2>5, <3>2 DEF HandleOn, Goto
      <4>2. QED
        BY <1>1, <1>2, <2>1, <2>5, <3>2, <4>1, MgmtStays
    <3>3. QED
      BY <3>1, <3>2
  <2>6. QED
    BY <1>3, <2>2, <2>3, <2>4, <2>5 DEF WaitMgmt
<1>4. CASE WaitBuffer(m)
  BY <1>1, <1>2, <1>4, BufferIs DEF WaitBuffer
<1>5. CASE WaitCrash(m)
  BY <1>5, <1>1, CrashEnds DEF WaitCrash
<1>6. CASE WaitApp(m)
  BY <1>1, <1>2, <1>6, WaitAppOK
<1>7. QED
  BY <1>2, <1>3, <1>4, <1>5, <1>6 DEF BootWait

------------------------------------------------------------------------------
(* The other steps of the driver *)
LEMMA BootOK ==
  ASSUME BootAssumption, BootInv, Boot
  PROVE  BootInv'
<1>1. /\ BootTypes /\ AppsOK /\ fw \in Firmwares /\ boots' = boots + 1 /\ boots \in Nat
      /\ (apc' = "hello" /\ Send(Msg("iopPower", "INIT"))) \/ (apc' = "failed" /\ toFw' = toFw)
      /\ UNCHANGED <<todo, iop, ap, crashed, bitmap, buffers, fromFw, lost>>
  BY DEF BootInv, BootTypes, Boot, Goto
<1>2. /\ fw'.ver = fw.ver /\ fw'.map = fw.map /\ fw'.pc = "reset" /\ fw'.chunk = 1 /\ fw'.agreed = 0
      /\ fw'.started = {} /\ fw'.said = "none" /\ fw'.stale = LeftOver
      /\ fw'.clean = (fromFw = <<>> /\ toFw = <<>>)
  BY DEF Boot, FwOff
<1>3. fw' \in Firmwares /\ 1 \in DOMAIN fw.map
  <2>1. fw.ver \in FwVersions /\ fw.map \in FwMaps /\ 1 \in DOMAIN fw.map
    BY <1>1, FwIs
  <2>2. LeftOver \in SUBSET AppEps
    BY DEF LeftOver
  <2>3. QED
    BY <2>1, <2>2 DEF Boot, FwOff, Firmwares
<1>4. Advertised' = Advertised /\ Common' = Common
  BY <1>2 DEF Advertised, Common
<1>5. Outward' = Outward /\ Inward' = Inward
  BY <1>2, <1>4 DEF Outward, Inward
<1>6. PICK m : m = Msg("iopPower", "INIT")
  OBVIOUS
<1>7. m \in Outward /\ m.type = "iopPower" /\ (Send(m) \/ (apc' = "failed" /\ toFw' = toFw))
  BY <1>1, <1>6, OutwardAre DEF Msg
<1>8. /\ toFw' \in Seq(Outward)
      /\ \A i \in DOMAIN toFw' : (i \in DOMAIN toFw /\ toFw'[i] = toFw[i]) \/ toFw'[i] = m
      /\ toFw = <<>> /\ apc' = "hello" => toFw' = <<m>>
  BY <1>1, <1>7, SentOut DEF BootTypes
<1>9. BootTypes'
  BY <1>1, <1>2, <1>3, <1>4, <1>5, <1>8 DEF BootTypes, Places
<1>10. VersionOK'
  BY <1>1, <1>2 DEF VersionOK, Later
<1>11. AppsOK'
  <2>1. \A q \in lost : q[1] \in Nat /\ q[1] <= boots
    BY <1>1 DEF AppsOK, BootTypes
  <2>2. \A i \in DOMAIN fromFw : fromFw[i].type = "app" => fromFw[i].arg[1] \in Nat /\ fromFw[i].arg[1] <= boots
    <3>1. \A i \in DOMAIN fromFw : fromFw[i] \in Inward
      BY <1>1, ElementOfSeq, LenProperties DEF BootTypes
    <3>2. QED
      BY <1>1, <3>1, InwardArgs DEF AppsOK
  <2>3. \A n \in Nat : n <= boots => n <= boots + 1 /\ n # boots + 1
    BY <1>1
  <2>4. \A i \in DOMAIN toFw' : toFw'[i].type = "startEp" => toFw'[i].arg \notin AppEps \ fw'.stale
    <3>1. SUFFICES ASSUME NEW i \in DOMAIN toFw', toFw'[i].type = "startEp", toFw'[i].arg \in AppEps
                   PROVE  toFw'[i].arg \in LeftOver
      BY <1>2
    <3>2. i \in DOMAIN toFw /\ toFw'[i] = toFw[i]
      BY <1>7, <1>8, <3>1
    <3>3. toFw[i] \in Outward
      BY <1>1, <3>2, ElementOfSeq, LenProperties DEF BootTypes
    <3>4. toFw[i] = Msg("startEp", toFw[i].arg)
      BY <3>1, <3>2, <3>3, OutwardArgs
    <3>5. QED
      BY <3>1, <3>2, <3>4 DEF LeftOver, ToSet
  <2>5. QED
    BY <1>1, <1>2, <2>1, <2>2, <2>3, <2>4 DEF AppsOK
<1>12. StartsOK'
  BY <1>1 DEF StartsOK
<1>13. CleanOK'
  <2>1. fw'.clean /\ apc' = "hello" => fromFw' = <<>> /\ toFw' = <<Msg("iopPower", "INIT")>>
    BY <1>1, <1>2, <1>6, <1>8
  <2>2. QED
    BY <1>1, <1>2, <2>1 DEF CleanOK, Shaken, RunsOK, SaidOK, Later
<1>14. QED
  BY <1>9, <1>10, <1>11, <1>12, <1>13 DEF BootInv

LEMMA ShutdownOK ==
  ASSUME BootAssumption, BootInv, Shutdown
  PROVE  BootInv'
<1>1. /\ BootTypes /\ fw \in Firmwares /\ ReadsOne /\ apc' = "off" /\ iop' = "OFF" /\ ap' = "OFF"
      /\ UNCHANGED <<todo, crashed, bitmap, buffers, toFw, fromFw, boots, lost>>
  BY DEF BootInv, BootTypes, Shutdown, Goto, ReadsOne
<1>2. /\ SameFw /\ fw'.agreed = fw.agreed /\ fw'.started = fw.started /\ fw'.chunk = fw.chunk
      /\ fw' \in Firmwares
  BY <1>1 DEF Shutdown, SameFw, Firmwares
<1>3. Advertised' = Advertised /\ Outward' = Outward /\ Inward' = Inward /\ fw'.map = fw.map
  BY <1>2, SameKinds DEF SameFw
<1>4. BootTypes'
  BY <1>1, <1>2, <1>3 DEF BootTypes, Places, Power
<1>5. QED
  BY <1>1, <1>2, <1>4, EndsOK

LEMMA BootFailsOK ==
  ASSUME BootAssumption, BootInv, BootFails
  PROVE  BootInv'
<1>1. /\ BootTypes /\ ReadsOne /\ apc' = "failed" /\ todo' = <<>> /\ SameFw /\ fw' = fw /\ DriverStep
      /\ UNCHANGED <<iop, ap, crashed, bitmap, buffers, boots, lost>>
  BY DEF BootInv, BootFails, Fail, Goto, ReadsOne, SameFw, DriverStep
<1>2. BootTypes'
  BY <1>1, DriverTypes, EmptySeq DEF BootTypes, Places
<1>3. QED
  BY <1>1, <1>2, EndsOK

(* What the loops and the power-on have in common. *)
DriverSends ==
  /\ UNCHANGED <<iop, crashed, bitmap, buffers, fromFw, boots, lost, fw>>
  /\ SendsChatter /\ apc' \in Places /\ ap' \in {ap, "ON"}

LEMMA SendsOK ==
  ASSUME BootAssumption, BootInv, DriverSends, apc \in Later, apc' \in Later, todo' \in Seq(Endpoints),
         apc' \in Waits => apc \in Waits,
         apc' \in {"apOn", "startApp", "up"} => apc \in {"apOn", "startApp", "up"},
         apc' \in {"startApp", "up"} => apc \in {"startApp", "up"} \/ ap' = "ON",
         apc' \in Waits => \A i \in DOMAIN toFw' :
            (\E j \in DOMAIN toFw : toFw'[i] = toFw[j]) \/ toFw'[i].type # "startEp" \/ toFw'[i].arg \notin AppEps
  PROVE  /\ StartsOK' => BootInv'
         /\ \A e : AskedFor(e) => AskedFor(e)'
         /\ SystemEps' = SystemEps
<1>1. /\ BootTypes /\ AppsOK /\ fw' = fw /\ SameFw /\ ReadsOne /\ SendsChatter
      /\ ap' \in Power
  BY DEF BootInv, BootTypes, DriverSends, SameFw, ReadsOne, Power
<1>2. BootTypes'
  <2>1. DriverStep
    BY DEF DriverSends, DriverStep, SendsChatter
  <2>2. QED
    BY <1>1, <2>1, DriverTypes DEF BootTypes, DriverSends
<1>3. VersionOK'
  BY <1>1, VersionRests DEF BootInv
<1>4. AppsOK'
  BY <1>1, AppsRest DEF DriverSends
<1>5. ASSUME fw.clean PROVE Shaken' /\ RunsOK' /\ SaidOK'
  <2>1. RunsOK' /\ SaidOK'
    BY <1>1, <1>5, RunsRest, SaidRests DEF BootInv, CleanOK, DriverSends
  <2>2. Shaken'
    BY DEF Shaken, Later
  <2>3. QED
    BY <2>1, <2>2
<1>6. \A e : AskedFor(e) => AskedFor(e)'
  BY <1>1, ChatterKeeps DEF AskedFor
<1>7. SystemEps' = SystemEps
  BY DEF SystemEps, DriverSends
<1>8. QED
  BY <1>1, <1>2, <1>3, <1>4, <1>5, <1>6, <1>7 DEF BootInv, CleanOK

LEMMA StartsEp ==
  ASSUME BootTypes, NEW e \in bitmap, Send(Msg("startEp", e))
  PROVE  /\ SendsChatter /\ (fw' = fw => AskedFor(e)')
         /\ \A i \in DOMAIN toFw' : (\E j \in DOMAIN toFw : toFw'[i] = toFw[j]) \/ toFw'[i].arg = e
<1>1. PICK m : m = Msg("startEp", e)
  OBVIOUS
<1>2. e \in Advertised
  BY DEF BootTypes
<1>3. m \in Outward /\ m.type = "startEp" /\ m.arg = e /\ Send(m)
  BY <1>1, <1>2, OutwardAre DEF Msg
<1>4. /\ ToSet(toFw') = ToSet(toFw) \cup {m}
      /\ \A i \in DOMAIN toFw' : (i \in DOMAIN toFw /\ toFw'[i] = toFw[i]) \/ toFw'[i] = m
  BY <1>3, SentOut
<1>5. SendsChatter
  BY <1>3 DEF SendsChatter, Chatter
<1>6. QED
  BY <1>1, <1>3, <1>4, <1>5 DEF AskedFor

(* One turn of a loop: what is left to ask for shrinks by what is asked for. *)
LEMMA LoopTurns ==
  ASSUME BootAssumption, BootInv, NEW loop, NEW now, NEW next, StartLoop(loop, now, next),
         loop \in {"startSys", "startApp"}, next \in Later, loop # next,
         loop = "startSys" => now = Default \cup Extra /\ next = "waitOn",
         loop = "startApp" => now = AppEps /\ next = "up"
  PROVE  \/ BootInv'
         \/ /\ todo = <<>> /\ apc' = next /\ todo' = Requested /\ toFw' = toFw
            /\ (StartsOK' => BootInv') /\ (\A x : AskedFor(x) => AskedFor(x)') /\ SystemEps' = SystemEps
         \/ /\ apc' = loop /\ ToSet(todo') \subseteq ToSet(todo)
            /\ \A x : x \in ToSet(todo) => x \in ToSet(todo') \/ AskedFor(x)' \/ x \notin now
                                            \/ (x \notin bitmap /\ x \notin RequestedSet)
            /\ (StartsOK' => BootInv') /\ (\A x : AskedFor(x) => AskedFor(x)') /\ SystemEps' = SystemEps
<1>1. /\ BootTypes /\ apc = loop /\ ReadsOne /\ fw' = fw /\ SameFw
      /\ UNCHANGED <<iop, ap, crashed, bitmap, buffers, fromFw, boots, lost, fw>>
  BY DEF BootInv, StartLoop, ReadsOne, SameFw
<1>2. CASE todo = <<>>
  <2>1. apc' = next /\ todo' = Requested /\ toFw' = toFw
    BY <1>2 DEF StartLoop, Goto
  <2>2. DriverSends
    BY <1>1, <2>1 DEF DriverSends, SendsChatter, Places, Later
  <2>3. todo' \in Seq(Endpoints)
    BY <2>1, Requests
  <2>4. \A i \in DOMAIN toFw' : \E j \in DOMAIN toFw : toFw'[i] = toFw[j]
    BY <2>1
  <2>5. (StartsOK' => BootInv') /\ (\A x : AskedFor(x) => AskedFor(x)') /\ SystemEps' = SystemEps
    BY <1>1, <2>1, <2>2, <2>3, <2>4, SendsOK DEF Waits, Later
  <2>6. QED
    BY <1>2, <2>1, <2>5
<1>3. CASE todo # <<>>
  <2>1. PICK e : e = Head(todo)
    OBVIOUS
  <2>2. Tail(todo) \in Seq(Endpoints) /\ e \in Endpoints /\ ToSet(todo) = {e} \cup ToSet(Tail(todo))
    BY <1>1, <1>3, <2>1, TodoShrinks
  <2>3. CASE e \in now /\ e \in bitmap
    <3>1. Send(Msg("startEp", e)) /\ todo' = Tail(todo) /\ apc' = apc
      BY <1>3, <2>1, <2>3 DEF StartLoop
    <3>2. /\ SendsChatter /\ AskedFor(e)'
          /\ \A i \in DOMAIN toFw' : (\E j \in DOMAIN toFw : toFw'[i] = toFw[j]) \/ toFw'[i].arg = e
      BY <1>1, <2>3, <3>1, StartsEp
    <3>3. apc' \in Waits => e \notin AppEps
      BY <1>1, <2>3, <3>1 DEF BootAssumption, Waits
    <3>4. DriverSends
      BY <1>1, <3>1, <3>2 DEF DriverSends, Places
    <3>5. (StartsOK' => BootInv') /\ (\A x : AskedFor(x) => AskedFor(x)') /\ SystemEps' = SystemEps
      BY <1>1, <2>2, <3>1, <3>2, <3>3, <3>4, SendsOK DEF Later
    <3>6. QED
      BY <1>1, <2>2, <3>1, <3>2, <3>5
  <2>4. CASE e \in now /\ e \notin bitmap /\ e \in RequestedSet
    <3>1. apc' = "failed" /\ todo' = <<>> /\ toFw' = toFw
      BY <1>3, <2>1, <2>4 DEF StartLoop, Fail, Goto
    <3>2. BootTypes'
      BY <1>1, <3>1, DriverTypes, EmptySeq DEF BootTypes, Places, DriverStep
    <3>3. QED
      BY <1>1, <3>1, <3>2, EndsOK
  <2>5. CASE ~(e \in now /\ e \in bitmap) /\ ~(e \in now /\ e \notin bitmap /\ e \in RequestedSet)
    <3>1. todo' = Tail(todo) /\ apc' = apc /\ toFw' = toFw
      BY <1>3, <2>1, <2>5 DEF StartLoop
    <3>2. DriverSends
      BY <1>1, <3>1 DEF DriverSends, SendsChatter, Places
    <3>3. \A i \in DOMAIN toFw' : \E j \in DOMAIN toFw : toFw'[i] = toFw[j]
      BY <3>1
    <3>4. (StartsOK' => BootInv') /\ (\A x : AskedFor(x) => AskedFor(x)') /\ SystemEps' = SystemEps
      BY <1>1, <2>2, <3>1, <3>2, <3>3, SendsOK DEF Later
    <3>5. QED
      BY <1>1, <2>2, <2>5, <3>1, <3>4
  <2>6. QED
    BY <2>3, <2>4, <2>5
<1>4. QED
  BY <1>2, <1>3

LEMMA StartSystemOK ==
  ASSUME BootAssumption, BootInv, StartSystem
  PROVE  BootInv'
<1>1. /\ apc = "startSys" /\ StartsOK
      /\ ToSet(todo) \subseteq Default \cup RequestedSet /\ \A x \in SystemEps : x \in ToSet(todo) \/ AskedFor(x)
  BY DEF StartSystem, StartLoop, BootInv, StartsOK
<1>2. SystemEps \subseteq Default \cup Extra /\ \A x \in SystemEps : x \in bitmap \/ x \in RequestedSet
  BY Requests DEF SystemEps
<1>3. CASE /\ todo = <<>> /\ apc' = "waitOn" /\ todo' = Requested
           /\ (StartsOK' => BootInv') /\ (\A x : AskedFor(x) => AskedFor(x)') /\ SystemEps' = SystemEps
  <2>1. \A x \in SystemEps : AskedFor(x)'
    BY <1>1, <1>3 DEF ToSet
  <2>2. StartsOK'
    BY <1>3, <2>1 DEF StartsOK
  <2>3. QED
    BY <1>3, <2>2
<1>4. CASE /\ apc' = "startSys" /\ ToSet(todo') \subseteq ToSet(todo)
           /\ \A x : x \in ToSet(todo) => x \in ToSet(todo') \/ AskedFor(x)' \/ x \notin Default \cup Extra
                                           \/ (x \notin bitmap /\ x \notin RequestedSet)
           /\ (StartsOK' => BootInv') /\ (\A x : AskedFor(x) => AskedFor(x)') /\ SystemEps' = SystemEps
  <2>1. \A x \in SystemEps : x \in ToSet(todo') \/ AskedFor(x)'
    BY <1>1, <1>2, <1>4
  <2>2. StartsOK'
    BY <1>1, <1>4, <2>1 DEF StartsOK
  <2>3. QED
    BY <1>4, <2>2
<1>5. QED
  BY <1>3, <1>4, LoopTurns DEF StartSystem, Later

LEMMA StartAppsOK ==
  ASSUME BootAssumption, BootInv, StartApps
  PROVE  BootInv'
<1>1. /\ apc = "startApp" /\ \A x \in SystemEps : AskedFor(x)
      /\ \A x \in RequestedSet \cap AppEps : x \in ToSet(todo) \/ AskedFor(x)
  BY DEF StartApps, StartLoop, BootInv, StartsOK
<1>2. CASE /\ todo = <<>> /\ apc' = "up"
           /\ (StartsOK' => BootInv') /\ (\A x : AskedFor(x) => AskedFor(x)') /\ SystemEps' = SystemEps
  <2>1. \A x \in RequestedSet \cap AppEps : AskedFor(x)'
    BY <1>1, <1>2 DEF ToSet
  <2>2. \A x \in SystemEps : AskedFor(x)'
    BY <1>1, <1>2
  <2>3. \A x \in RequestedSet : AskedFor(x)'
    BY <2>1, <2>2 DEF SystemEps
  <2>4. StartsOK'
    BY <1>2, <2>2, <2>3 DEF StartsOK
  <2>5. QED
    BY <1>2, <2>4
<1>3. CASE /\ apc' = "startApp"
           /\ \A x : x \in ToSet(todo) => x \in ToSet(todo') \/ AskedFor(x)' \/ x \notin AppEps
                                           \/ (x \notin bitmap /\ x \notin RequestedSet)
           /\ (StartsOK' => BootInv') /\ (\A x : AskedFor(x) => AskedFor(x)') /\ SystemEps' = SystemEps
  <2>1. \A x \in RequestedSet \cap AppEps : x \in ToSet(todo') \/ AskedFor(x)'
    BY <1>1, <1>3
  <2>2. \A x \in SystemEps : AskedFor(x)'
    BY <1>1, <1>3
  <2>3. StartsOK'
    BY <1>3, <2>1, <2>2 DEF StartsOK
  <2>4. QED
    BY <1>3, <2>3
<1>4. QED
  BY <1>2, <1>3, LoopTurns DEF StartApps, Later

LEMMA ApOnOK ==
  ASSUME BootAssumption, BootInv, ApOn
  PROVE  BootInv'
<1>1. /\ BootTypes /\ apc = "apOn" /\ apc' = "startApp" /\ ap' = "ON" /\ todo' = todo /\ todo = Requested
      /\ Send(Msg("apPower", "ON")) /\ \A x \in SystemEps : AskedFor(x)
      /\ UNCHANGED <<iop, crashed, bitmap, buffers, fromFw, boots, lost, fw>>
  BY DEF ApOn, Goto, BootInv, StartsOK
<1>2. PICK m : m = Msg("apPower", "ON")
  OBVIOUS
<1>3. m \in Outward /\ m.type \in Chatter /\ m.type # "startEp" /\ Send(m)
  BY <1>1, <1>2, OutwardAre DEF Msg, Chatter
<1>4. DriverSends
  BY <1>1, <1>3 DEF DriverSends, SendsChatter, Places
<1>5. todo' \in Seq(Endpoints) /\ RequestedSet \cap AppEps \subseteq ToSet(todo')
  BY <1>1, Requests
<1>6. (StartsOK' => BootInv') /\ (\A x : AskedFor(x) => AskedFor(x)') /\ SystemEps' = SystemEps
  BY <1>1, <1>4, <1>5, SendsOK DEF Later, Waits
<1>7. StartsOK'
  BY <1>1, <1>5, <1>6 DEF StartsOK
<1>8. QED
  BY <1>6, <1>7

LEMMA StartEpOK ==
  ASSUME BootAssumption, BootInv, NEW e \in AppEps, StartEp(e)
  PROVE  BootInv'
<1>1. /\ BootTypes /\ apc = "up" /\ apc' = apc /\ ap' = ap /\ todo' = todo /\ e \in bitmap
      /\ Send(Msg("startEp", e)) /\ fw' = fw
      /\ UNCHANGED <<iop, crashed, bitmap, buffers, fromFw, boots, lost, fw>>
  BY DEF StartEp, driver, BootInv
<1>2. SendsChatter
  BY <1>1, StartsEp
<1>3. DriverSends
  BY <1>1, <1>2 DEF DriverSends, Places
<1>4. todo' \in Seq(Endpoints)
  BY <1>1 DEF BootTypes
<1>5. (StartsOK' => BootInv') /\ (\A x : AskedFor(x) => AskedFor(x)') /\ SystemEps' = SystemEps
  BY <1>1, <1>3, <1>4, SendsOK DEF Later, Waits
<1>6. StartsOK'
  BY <1>1, <1>5 DEF BootInv, StartsOK
<1>7. QED
  BY <1>5, <1>6

------------------------------------------------------------------------------
(* The firmware *)
Reads == toFw # <<>> /\ toFw' = Tail(toFw) /\ (toFw[1].type = "startEp" => toFw[1].arg \in fw'.started)

LEMMA FwCommon ==
  ASSUME BootAssumption, BootInv, FwStep,
         fw'.agreed = fw.agreed \/ fw'.agreed \in Common,
         \/ fw'.started = fw.started
         \/ toFw # <<>> /\ toFw[1].type = "startEp" /\ fw'.started = fw.started \cup {toFw[1].arg},
         toFw' = toFw \/ Reads,
         \A i \in DOMAIN fromFw' : \/ \E j \in DOMAIN fromFw : fromFw'[i] = fromFw[j]
                                   \/ fromFw'[i].type # "app"
                                   \/ fromFw'[i].arg[1] = boots /\ (apc \in Waits => fromFw'[i].arg[2] \in fw.stale)
  PROVE  VersionOK' /\ AppsOK' /\ StartsOK'
<1>1. BootTypes /\ SameFw /\ UNCHANGED <<apc, todo, iop, ap, crashed, bitmap, buffers, boots, lost>>
  BY DEF BootInv, FwStep, driver
<1>2. VersionOK'
  BY <1>1, SameKinds DEF BootInv, VersionOK
<1>3. toFw # <<>> => 1 \in DOMAIN toFw
  BY <1>1, Tailed DEF BootTypes
<1>4. \A i \in DOMAIN toFw' : \E j \in DOMAIN toFw : toFw'[i] = toFw[j]
  BY <1>1, Tailed DEF Reads, BootTypes
<1>5. AppsOK'
  <2>1. /\ \A q \in lost : q[1] <= boots /\ (q[1] = boots => q[2] \in fw.stale)
        /\ boots \in Nat /\ fw'.stale = fw.stale
        /\ \A i \in DOMAIN fromFw : fromFw[i].type = "app" => fromFw[i].arg[1] <= boots
    BY <1>1 DEF BootInv, AppsOK, BootTypes, SameFw
  <2>2. \A i \in DOMAIN fromFw' : fromFw'[i].type = "app" => fromFw'[i].arg[1] <= boots
    BY <2>1
  <2>3. ASSUME apc \in Waits
        PROVE  /\ fw'.started \cap AppEps \subseteq fw.stale
               /\ \A i \in DOMAIN toFw' : toFw'[i].type = "startEp" => toFw'[i].arg \notin AppEps \ fw.stale
               /\ \A i \in DOMAIN fromFw' :
                    fromFw'[i].type = "app" /\ fromFw'[i].arg[1] = boots => fromFw'[i].arg[2] \in fw.stale
    <3>1. /\ fw.started \cap AppEps \subseteq fw.stale
          /\ \A i \in DOMAIN toFw : toFw[i].type = "startEp" => toFw[i].arg \notin AppEps \ fw.stale
          /\ \A i \in DOMAIN fromFw :
               fromFw[i].type = "app" /\ fromFw[i].arg[1] = boots => fromFw[i].arg[2] \in fw.stale
      BY <2>3 DEF BootInv, AppsOK, Waits
    <3>2. fw'.started \cap AppEps \subseteq fw.stale
      BY <1>3, <3>1
    <3>3. QED
      BY <1>4, <2>3, <3>1, <3>2
  <2>4. QED
    BY <1>1, <2>1, <2>2, <2>3 DEF AppsOK, Waits
<1>6. ToSet(toFw) \subseteq ToSet(toFw') \cup {toFw[1]} /\ (toFw' = toFw \/ toFw # <<>>)
  <2>1. CASE toFw' = toFw
    BY <2>1
  <2>2. CASE Reads
    BY <1>1, <2>2, TailedSet, Tailed DEF Reads, BootTypes
  <2>3. QED
    BY <2>1, <2>2
<1>7. StartsOK'
  <2>1. \A x : Msg("startEp", x) \in ToSet(toFw) => Msg("startEp", x) \in ToSet(toFw') \/ x \in fw'.started
    BY <1>6 DEF Msg, Reads
  <2>2. QED
    BY <1>1, <2>1, StartsRest DEF BootInv
<1>8. QED
  BY <1>2, <1>5, <1>7

(* What running firmware says *)
Says ==
  \/ fw'.said = fw.said /\ (fromFw' = fromFw \/ \E m \in Inward : m.type \notin {"hello", "epmap", "iopAck"} /\ Say(m))
  \/ fw.said = "none" /\ fw'.said = "init" /\ Say(Msg("iopAck", "INIT"))
  \/ fw.said # "on" /\ fw'.said = "on" /\ Say(Msg("iopAck", "ON"))

LEMMA FwRuns ==
  ASSUME BootAssumption, BootInv, FwStep, fw.clean, apc \in Later, fw.pc \in {"run", "dead"}, fw'.pc \in {"run", "dead"},
         toFw' = toFw \/ Reads, Says
  PROVE  Shaken' /\ RunsOK' /\ SaidOK'
<1>1. /\ BootTypes /\ SameFw /\ RunsOK /\ SaidOK
      /\ UNCHANGED <<apc, todo, iop, ap, crashed, bitmap, buffers, boots, lost>>
  BY DEF BootInv, CleanOK, FwStep, driver
<1>2. Shaken'
  BY <1>1 DEF Shaken, Later
<1>3. \A i \in DOMAIN toFw' : \E j \in DOMAIN toFw : toFw'[i] = toFw[j]
  BY <1>1, Tailed DEF Reads, BootTypes
<1>4. PICK m : m \in Inward /\ m.type \notin {"hello", "epmap"} /\
        \/ fw'.said = fw.said /\ (fromFw' = fromFw \/ (m.type # "iopAck" /\ Say(m)))
        \/ fw.said = "none" /\ fw'.said = "init" /\ m.arg = "INIT" /\ Say(m)
        \/ fw.said # "on" /\ fw'.said = "on" /\ m.arg = "ON" /\ m.type = "iopAck" /\ Say(m)
  <2>1. /\ Msg("apState", "ON") \in Inward /\ Msg("iopAck", "INIT") \in Inward /\ Msg("iopAck", "ON") \in Inward
        /\ Msg("apState", "ON").type = "apState" /\ Msg("iopAck", "INIT").type = "iopAck"
        /\ Msg("iopAck", "ON").type = "iopAck" /\ Msg("iopAck", "INIT").arg = "INIT" /\ Msg("iopAck", "ON").arg = "ON"
    BY <1>1, InwardAre DEF Msg
  <2>2. QED
    BY <2>1 DEF Says
<1>5. \A i \in DOMAIN fromFw' : (i \in DOMAIN fromFw /\ fromFw'[i] = fromFw[i]) \/ fromFw'[i] = m
  BY <1>1, <1>4, SentIn
<1>6. \A i, j \in DOMAIN fromFw' : i < j => i \in DOMAIN fromFw /\ fromFw'[i] = fromFw[i]
  <2>1. fromFw' = fromFw \/ Say(m)
    BY <1>4
  <2>2. QED
    BY <1>1, <1>4, <2>1, SentIn
<1>7. RunsOK'
  <2>1. Advertised' = Advertised
    BY <1>1, SameKinds
  <2>2. \A i \in DOMAIN fromFw' : fromFw'[i].type \notin {"hello", "epmap"}
    BY <1>1, <1>4, <1>5 DEF RunsOK
  <2>3. \A i \in DOMAIN toFw : toFw[i].type \in Chatter
    BY <1>1 DEF RunsOK, Chatter
  <2>4. QED
    BY <1>1, <1>3, <2>1, <2>2, <2>3 DEF RunsOK, Chatter
<1>8. SaidOK'
  <2>1. \A i \in DOMAIN fromFw : fromFw[i].type = "iopAck" =>
          /\ fw.said # "none"
          /\ fromFw[i].arg = "ON" => fw.said = "on" /\ \A j \in DOMAIN fromFw : i < j => fromFw[j].type # "iopAck"
    BY <1>1 DEF SaidOK
  <2>2. apc \in {"apOn", "startApp", "up"} =>
          fw.said = "on" /\ iop = "ON" /\ \A i \in DOMAIN fromFw : fromFw[i].type # "iopAck"
    BY <1>1 DEF SaidOK
  <2>3. CASE fw'.said = fw.said /\ (fromFw' = fromFw \/ m.type # "iopAck")
    <3>1. \A i \in DOMAIN fromFw' : fromFw'[i].type = "iopAck" => i \in DOMAIN fromFw /\ fromFw'[i] = fromFw[i]
      BY <1>5, <2>3
    <3>2. QED
      BY <1>1, <2>1, <2>2, <2>3, <3>1 DEF SaidOK
  <2>4. CASE fw.said = "none" /\ fw'.said = "init" /\ m.arg = "INIT"
    <3>1. \A i \in DOMAIN fromFw' : fromFw'[i].type = "iopAck" => fromFw'[i] = m
      BY <1>5, <2>1, <2>4
    <3>2. QED
      BY <1>1, <2>2, <2>4, <3>1 DEF SaidOK
  <2>5. CASE fw.said # "on" /\ fw'.said = "on" /\ m.arg = "ON"
    <3>1. \A i, j \in DOMAIN fromFw' : i < j /\ fromFw'[i].type = "iopAck" => fromFw'[i].arg # "ON"
      BY <1>6, <2>1, <2>5
    <3>2. QED
      BY <1>1, <2>2, <2>5, <3>1 DEF SaidOK
  <2>6. QED
    BY <1>4, <2>3, <2>4, <2>5
<1>9. QED
  BY <1>2, <1>7, <1>8

(* BootFirmware that runs is past the handshake. *)
LEMMA FwSpeaks ==
  ASSUME BootAssumption, BootInv, FwStep, BootTypes', fw.pc = "run", fw'.pc \in {"run", "dead"},
         fw'.agreed = fw.agreed, fw'.started = fw.started, toFw' = toFw, Says,
         \A i \in DOMAIN fromFw' : \/ \E j \in DOMAIN fromFw : fromFw'[i] = fromFw[j]
                                   \/ fromFw'[i].type # "app"
                                   \/ fromFw'[i].arg[1] = boots /\ (apc \in Waits => fromFw'[i].arg[2] \in fw.stale)
  PROVE  BootInv'
<1>1. VersionOK' /\ AppsOK' /\ StartsOK' /\ apc' = apc /\ fw'.clean = fw.clean
  BY FwCommon DEF FwStep, driver
<1>2. ASSUME fw.clean PROVE Shaken' /\ RunsOK' /\ SaidOK'
  <2>1. CASE apc \in Later
    BY <1>2, <2>1, FwRuns
  <2>2. CASE apc \notin Later
    <3>1. apc \notin {"hello", "epmap"}
      BY <1>2 DEF BootInv, CleanOK, Shaken
    <3>2. QED
      BY <1>1, <2>2, <3>1 DEF Shaken, RunsOK, SaidOK, Later
  <2>3. QED
    BY <2>1, <2>2
<1>3. QED
  BY <1>1, <1>2 DEF BootInv, CleanOK

LEMMA BufferGiven ==
  ASSUME fw \in Firmwares, NEW e \in Default,
         fw' = [fw EXCEPT !.asked = @ \cup {e}, !.buffered = @ \cup {e}]
  PROVE  /\ fw' \in Firmwares /\ fw'.ver = fw.ver /\ fw'.map = fw.map /\ fw'.stale = fw.stale /\ fw'.clean = fw.clean /\ fw'.pc = fw.pc
         /\ fw'.chunk = fw.chunk /\ fw'.agreed = fw.agreed /\ fw'.started = fw.started /\ fw'.said = fw.said
<1>1. PICK h : h = [fw EXCEPT !.asked = @ \cup {e}]
  OBVIOUS
<1>2. /\ h \in Firmwares /\ h.ver = fw.ver /\ h.map = fw.map /\ h.stale = fw.stale /\ h.clean = fw.clean /\ h.pc = fw.pc
      /\ h.chunk = fw.chunk /\ h.agreed = fw.agreed /\ h.started = fw.started /\ h.said = fw.said
  BY <1>1 DEF Firmwares
<1>3. fw' = [h EXCEPT !.buffered = @ \cup {e}]
  BY <1>1, Zenon
<1>4. QED
  BY <1>2, <1>3 DEF Firmwares

LEMMA FwActsOK ==
  ASSUME BootAssumption, BootInv, FwIopInit \/ FwIopOn \/ FwCrash \/ \E e \in Endpoints : FwBuffer(e) \/ FwApp(e)
  PROVE  BootInv'
<1> DEFINE Acts(m) ==
      /\ fw.pc = "run" /\ toFw' = toFw /\ UNCHANGED <<driver, boots, lost>>
      /\ fw' \in Firmwares /\ SameFw /\ fw'.clean = fw.clean /\ fw'.pc \in {"run", "dead"} /\ fw'.chunk = fw.chunk
      /\ fw'.agreed = fw.agreed /\ fw'.started = fw.started
      /\ m \in Inward /\ Say(m) /\ m.type # "hello"
      /\ m.type = "app" => m.arg[1] = boots /\ m.arg[2] \in fw.started \cap AppEps
      /\ \/ fw'.said = fw.said /\ m.type \notin {"hello", "epmap", "iopAck"}
         \/ fw.said = "none" /\ fw'.said = "init" /\ m = Msg("iopAck", "INIT")
         \/ fw.said # "on" /\ fw'.said = "on" /\ m = Msg("iopAck", "ON")
<1>1. /\ BootTypes /\ fw \in Firmwares /\ Crashlog \in Default /\ boots \in Nat
      /\ fw.chunk \in DOMAIN fw.map /\ fw.started \subseteq Advertised
  BY DEF BootInv, BootTypes, Default
<1>2. ASSUME FwIopInit PROVE \E m : Acts(m)
  <2>1. Msg("iopAck", "INIT") \in Inward /\ Msg("iopAck", "INIT").type = "iopAck"
    BY <1>1, InwardAre DEF Msg
  <2>2. QED
    BY <1>1, <1>2, <2>1 DEF FwIopInit, FwUnchanged, Firmwares, SameFw
<1>3. ASSUME FwIopOn PROVE \E m : Acts(m)
  <2>1. Msg("iopAck", "ON") \in Inward /\ Msg("iopAck", "ON").type = "iopAck"
    BY <1>1, InwardAre DEF Msg
  <2>2. QED
    BY <1>1, <1>3, <2>1 DEF FwIopOn, FwUnchanged, Firmwares, SameFw
<1>4. ASSUME FwCrash PROVE \E m : Acts(m)
  <2>1. Msg("bufReq", Crashlog) \in Inward
    BY <1>1, InwardAre
  <2>2. Msg("bufReq", Crashlog).type = "bufReq"
    BY DEF Msg
  <2>3. QED
    BY <1>1, <1>4, <2>1, <2>2 DEF FwCrash, FwUnchanged, Firmwares, SameFw
<1>5. ASSUME NEW e \in Endpoints, FwBuffer(e)
      PROVE  \E m : Acts(m)
  <2>1. e \in Default
    BY <1>5, Zenon DEF FwBuffer
  <2>2. Msg("bufReq", e) \in Inward /\ Msg("bufGiven", e) \in Inward
    BY <1>1, <2>1, InwardAre
  <2>3. Msg("bufReq", e).type = "bufReq" /\ Msg("bufGiven", e).type = "bufGiven"
    BY DEF Msg
  <2>4. fw.pc = "run" /\ toFw' = toFw /\ UNCHANGED <<driver, boots, lost>>
    BY <1>5, Zenon DEF FwBuffer, FwUnchanged
  <2>5. CASE Say(Msg("bufReq", e)) /\ fw' = [fw EXCEPT !.asked = @ \cup {e}]
    BY <1>1, <2>1, <2>2, <2>3, <2>4, <2>5 DEF Firmwares, SameFw
  <2>6. CASE Say(Msg("bufGiven", e)) /\ fw' = [fw EXCEPT !.asked = @ \cup {e}, !.buffered = @ \cup {e}]
    <3>1. /\ fw' \in Firmwares /\ fw'.ver = fw.ver /\ fw'.map = fw.map /\ fw'.stale = fw.stale /\ fw'.clean = fw.clean /\ fw'.pc = fw.pc
          /\ fw'.chunk = fw.chunk /\ fw'.agreed = fw.agreed /\ fw'.started = fw.started /\ fw'.said = fw.said
      <4>1. fw \in Firmwares
        BY <1>1
      <4>2. fw' = [fw EXCEPT !.asked = @ \cup {e}, !.buffered = @ \cup {e}]
        BY <2>6, Zenon
      <4>3. QED
        BY <2>1, <4>1, <4>2, BufferGiven, Zenon
    <3>2. Say(Msg("bufGiven", e))
      BY <2>6
    <3>3. Acts(Msg("bufGiven", e))
      BY <2>2, <2>3, <2>4, <3>1, <3>2 DEF SameFw
    <3>4. QED
      BY <3>3
  <2>7. QED
    BY <1>5, <2>5, <2>6, Zenon DEF FwBuffer
<1>6. ASSUME NEW e \in Endpoints, FwApp(e)
      PROVE  \E m : Acts(m)
  <2>1. e \in fw.started \cap AppEps
    BY <1>6, Zenon DEF FwApp
  <2>2. /\ Msg("app", <<boots, e>>) \in Inward /\ Msg("app", <<boots, e>>).type = "app"
        /\ Msg("app", <<boots, e>>).arg[1] = boots /\ Msg("app", <<boots, e>>).arg[2] = e
    BY <1>1, <2>1, InwardAre DEF Msg
  <2>3. QED
    BY <1>1, <1>6, <2>1, <2>2 DEF FwApp, FwUnchanged, Firmwares, SameFw
<1>7. PICK m : Acts(m)
  BY <1>2, <1>3, <1>4, <1>5, <1>6
<1>8. FwStep
  BY <1>7 DEF FwStep
<1>9. BootTypes'
  BY <1>1, <1>7, <1>8, FwTypes
<1>10. Says
  BY <1>7 DEF Says
<1>11. \A i \in DOMAIN fromFw' : \/ \E j \in DOMAIN fromFw : fromFw'[i] = fromFw[j]
                                 \/ fromFw'[i].type # "app"
                                 \/ fromFw'[i].arg[1] = boots /\ (apc \in Waits => fromFw'[i].arg[2] \in fw.stale)
  <2>1. \A i \in DOMAIN fromFw' : (i \in DOMAIN fromFw /\ fromFw'[i] = fromFw[i]) \/ fromFw'[i] = m
    BY <1>1, <1>7, SentIn
  <2>2. m.type = "app" => (apc \in Waits => m.arg[2] \in fw.stale)
    BY <1>7 DEF BootInv, AppsOK, Waits
  <2>3. QED
    BY <1>7, <2>1, <2>2
<1>12. QED
  BY <1>7, <1>8, <1>9, <1>10, <1>11, FwSpeaks

(* What the firmware of a clean boot finds when it reads *)
LEMMA FwReads ==
  ASSUME BootInv, fw.clean, toFw # <<>>, toFw' = Tail(toFw)
  PROVE  /\ apc = "hello" => /\ fw.pc = "reset" /\ toFw[1] = Msg("iopPower", "INIT") /\ toFw' = <<>> /\ fromFw = <<>>
                             /\ fw.chunk = 1 /\ fw.said = "none"
         /\ apc = "epmap" =>
              /\ toFw' = <<>> /\ fromFw = <<>> /\ fw.said = "none"
              /\ \/ fw.pc = "hello" /\ fw.chunk = 1 /\ toFw[1].type = "helloAck"
                 \/ /\ fw.pc = "epmap" /\ fw.chunk # Len(fw.map) /\ toFw[1] = Msg("epmapReply", FALSE)
                    /\ \A k \in 1 .. fw.chunk : fw.map[k] \subseteq bitmap
         /\ apc \in Later =>
              /\ fw.pc \in {"run", "dead"} => toFw[1].type \in Chatter
              /\ fw.pc \notin {"run", "dead"} => /\ fw.pc = "epmap" /\ toFw[1] = Msg("epmapReply", TRUE) /\ fromFw = <<>>
                                                 /\ fw.said = "none"
                                                 /\ \A i \in DOMAIN toFw' : toFw'[i].type \in Chatter
<1>1. Shaken /\ RunsOK /\ toFw \in Seq(Outward)
  BY DEF BootInv, CleanOK, BootTypes
<1>2. /\ 1 \in DOMAIN toFw
      /\ \A i \in DOMAIN toFw' : i \in Nat /\ i # 0 /\ i + 1 \in DOMAIN toFw /\ toFw'[i] = toFw[i + 1]
  BY <1>1, Tailed
<1>3. \A m : toFw = <<m>> => toFw' = <<>> /\ toFw[1] = m
  OBVIOUS
<1>4. apc = "hello" => /\ fw.pc = "reset" /\ toFw = <<Msg("iopPower", "INIT")>> /\ fromFw = <<>>
                       /\ fw.chunk = 1 /\ fw.said = "none"
  BY <1>1 DEF Shaken
<1>5. apc = "epmap" =>
        /\ fromFw = <<>> /\ fw.said = "none"
        /\ \/ fw.pc = "hello" /\ fw.chunk = 1 /\ \E n \in Common : toFw = <<Msg("helloAck", n)>>
           \/ /\ fw.pc = "epmap" /\ fw.chunk # Len(fw.map) /\ toFw = <<Msg("epmapReply", FALSE)>>
              /\ \A k \in 1 .. fw.chunk : fw.map[k] \subseteq bitmap
  BY <1>1 DEF Shaken
<1>6. apc = "epmap" =>
        /\ toFw' = <<>> /\ fromFw = <<>> /\ fw.said = "none"
        /\ \/ fw.pc = "hello" /\ fw.chunk = 1 /\ toFw[1].type = "helloAck"
           \/ /\ fw.pc = "epmap" /\ fw.chunk # Len(fw.map) /\ toFw[1] = Msg("epmapReply", FALSE)
              /\ \A k \in 1 .. fw.chunk : fw.map[k] \subseteq bitmap
  <2>1. \A n : Msg("helloAck", n).type = "helloAck"
    BY DEF Msg
  <2>2. QED
    BY <1>3, <1>5, <2>1
<1>7. ASSUME apc \in Later
      PROVE  /\ fw.pc \in {"run", "dead"} => toFw[1].type \in Chatter
             /\ fw.pc \notin {"run", "dead"} => /\ fw.pc = "epmap" /\ toFw[1] = Msg("epmapReply", TRUE) /\ fromFw = <<>>
                                                /\ fw.said = "none"
                                                /\ \A i \in DOMAIN toFw' : toFw'[i].type \in Chatter
  <2>1. \A i \in DOMAIN toFw' : i + 1 # 1
    BY <1>2
  <2>2. QED
    BY <1>1, <1>2, <1>7, <2>1 DEF RunsOK, Chatter
<1>8. QED
  BY <1>3, <1>4, <1>6, <1>7

LEMMA FwGoesOn ==
  ASSUME BootAssumption, BootInv, toFw # <<>>, toFw' = Tail(toFw), FwUnchanged,
         fw' \in Firmwares, SameFw, fw'.clean = fw.clean, fw'.chunk \in DOMAIN fw.map,
         fw'.agreed = fw.agreed \/ fw'.agreed \in Common,
         \/ fw'.started = fw.started /\ toFw[1].type # "startEp"
         \/ toFw[1].type = "startEp" /\ fw'.started = fw.started \cup {toFw[1].arg},
         fromFw' = fromFw \/ \E m \in Inward : m.type # "app" /\ Say(m),
         fw.clean => Shaken' /\ RunsOK' /\ SaidOK'
  PROVE  BootInv'
<1>1. BootTypes /\ FwStep
  BY DEF BootInv, FwUnchanged, FwStep
<1>2. fw.started \subseteq Advertised /\ toFw[1] \in Outward
  BY <1>1, Tailed DEF BootTypes
<1>3. BootTypes'
  BY <1>1, <1>2, FwTypes, OutwardArgs
<1>4. \A i \in DOMAIN fromFw' : (\E j \in DOMAIN fromFw : fromFw'[i] = fromFw[j]) \/ fromFw'[i].type # "app"
  BY <1>1, SentIn
<1>5. Reads
  BY DEF Reads
<1>6. VersionOK' /\ AppsOK' /\ StartsOK'
  BY <1>1, <1>4, <1>5, FwCommon
<1>7. QED
  BY <1>3, <1>6 DEF BootInv, CleanOK

(* Nothing is promised of a boot that has ended. *)
LEMMA Ended ==
  ASSUME apc' \notin Later \cup {"hello", "epmap"}
  PROVE  Shaken' /\ RunsOK' /\ SaidOK'
  BY DEF Shaken, RunsOK, SaidOK, Later

LEMMA FwReceiveOK ==
  ASSUME BootAssumption, BootInv, FwReceive
  PROVE  BootInv'
<1>1. /\ BootTypes /\ fw \in Firmwares /\ fw.chunk \in DOMAIN fw.map /\ toFw # <<>> /\ toFw' = Tail(toFw) /\ FwUnchanged
      /\ Head(toFw) = toFw[1] /\ toFw[1] \in Outward /\ apc' = apc /\ bitmap' = bitmap
  BY Tailed DEF BootInv, BootTypes, FwReceive, FwUnchanged, driver
<1>2. PICK m : m = toFw[1] /\ m = Head(toFw)
  BY <1>1
<1>3. /\ m.type \in {"iopPower", "helloAck", "epmapReply", "startEp", "bufReply", "apPower"}
      /\ m.type = "helloAck" => m.arg \in Common
      /\ m.type = "epmapReply" => m.arg \in BOOLEAN
      /\ m.type = "bufReply" => m.arg \in Default
      /\ m.type = "startEp" => m.arg \in Advertised
  BY <1>1, <1>2, OutwardArgs
<1>4. /\ Len(fw.map) \in Nat /\ DOMAIN fw.map = 1 .. Len(fw.map) /\ Common \subseteq Nat /\ Advertised \subseteq Endpoints
      /\ \A k \in DOMAIN fw.map : fw.map[k] \subseteq Advertised
  BY <1>1, FwIs
<1>5. CASE m.type = "iopPower"
  <2>1. fw' = [fw EXCEPT !.pc = "hello"] /\ Say(Msg("hello", fw.ver))
    BY <1>2, <1>5 DEF FwReceive
  <2>2. /\ fw' \in Firmwares /\ SameFw /\ fw'.clean = fw.clean /\ fw'.chunk = fw.chunk /\ fw'.pc = "hello"
        /\ fw'.agreed = fw.agreed /\ fw'.started = fw.started /\ fw'.said = fw.said
    <3>1. fw \in Firmwares /\ fw' = [fw EXCEPT !.pc = "hello"]
      BY <1>1, <2>1
    <3>2. fw' \in Firmwares
      BY <3>1 DEF Firmwares
    <3>3. QED
      BY <3>1, <3>2 DEF Firmwares, SameFw
  <2>3. Msg("hello", fw.ver) \in Inward /\ Msg("hello", fw.ver).type # "app"
    BY <1>1, InwardAre DEF Msg
  <2>4. ASSUME fw.clean PROVE Shaken' /\ RunsOK' /\ SaidOK'
    <3>1. apc \notin Later \cup {"epmap"}
      BY <1>1, <1>2, <1>5, <2>4, FwReads DEF Chatter, Msg
    <3>2. CASE apc = "hello"
      <4>1. toFw' = <<>> /\ fromFw' = <<Msg("hello", fw.ver)>> /\ fw.chunk = 1 /\ fw.said = "none"
        BY <1>1, <2>1, <2>3, <2>4, <3>2, FwReads, SentIn
      <4>2. Shaken'
        BY <1>1, <2>2, <3>2, <4>1 DEF Shaken, SameFw
      <4>3. QED
        BY <1>1, <3>2, <4>2 DEF RunsOK, SaidOK, Later
    <3>3. QED
      BY <1>1, <3>1, <3>2, Ended
  <2>5. QED
    BY <1>1, <1>2, <1>5, <2>1, <2>2, <2>3, <2>4, FwGoesOn
<1>6. CASE m.type = "helloAck"
  <2>1. fw' = [fw EXCEPT !.pc = "epmap", !.agreed = m.arg] /\ Say(Chunk)
    BY <1>2, <1>6 DEF FwReceive
  <2>2. /\ fw' \in Firmwares /\ SameFw /\ fw'.clean = fw.clean /\ fw'.chunk = fw.chunk /\ fw'.pc = "epmap"
        /\ fw'.agreed = m.arg /\ fw'.started = fw.started /\ fw'.said = fw.said
    <3>1. fw \in Firmwares /\ fw' = [fw EXCEPT !.pc = "epmap", !.agreed = m.arg] /\ m.arg \in Nat
      BY <1>1, <1>3, <1>4, <1>6, <2>1
    <3>2. fw' \in Firmwares
      BY <3>1 DEF Firmwares
    <3>3. QED
      BY <3>1, <3>2 DEF Firmwares, SameFw
  <2>3. Chunk \in Inward /\ Chunk.type = "epmap" /\ Chunk' = Chunk
    BY <1>1, <1>4, <2>2, InwardAre DEF Chunk, Msg, SameFw
  <2>4. ASSUME fw.clean PROVE Shaken' /\ RunsOK' /\ SaidOK'
    <3>1. apc \notin Later \cup {"hello"}
      BY <1>1, <1>2, <1>6, <2>4, FwReads DEF Chatter, Msg
    <3>2. CASE apc = "epmap"
      <4>1. toFw' = <<>> /\ fromFw' = <<Chunk>> /\ fw.chunk = 1 /\ fw.said = "none"
        BY <1>1, <1>2, <1>6, <2>1, <2>3, <2>4, <3>2, FwReads, SentIn DEF Msg
      <4>2. \A k \in 1 .. fw'.chunk - 1 : fw'.map[k] \subseteq bitmap'
        BY <2>2, <4>1
      <4>3. Shaken'
        BY <1>1, <2>2, <2>3, <3>2, <4>1, <4>2 DEF Shaken
      <4>4. QED
        BY <1>1, <3>2, <4>3 DEF RunsOK, SaidOK, Later
    <3>3. QED
      BY <1>1, <3>1, <3>2, Ended
  <2>5. QED
    BY <1>1, <1>2, <1>3, <1>6, <2>1, <2>2, <2>3, <2>4, FwGoesOn
<1>7. CASE m.type = "epmapReply" /\ ~m.arg /\ fw.chunk = Len(fw.map)
  <2>1. fw' = fw /\ fromFw' = fromFw
    BY <1>2, <1>7 DEF FwReceive
  <2>2. ASSUME fw.clean PROVE Shaken' /\ RunsOK' /\ SaidOK'
    <3>1. apc \notin Later \cup {"hello", "epmap"}
      BY <1>1, <1>2, <1>7, <2>2, FwReads DEF Chatter, Msg
    <3>2. QED
      BY <1>1, <3>1, Ended
  <2>3. QED
    BY <1>1, <1>2, <1>7, <2>1, <2>2, FwGoesOn DEF SameFw
<1>8. CASE m.type = "epmapReply" /\ ~m.arg /\ fw.chunk # Len(fw.map)
  <2>1. PICK c : c = Msg("epmap", [eps |-> fw.map[fw.chunk + 1], done |-> fw.chunk + 1 = Len(fw.map)])
    OBVIOUS
  <2>2. fw' = [fw EXCEPT !.chunk = @ + 1] /\ Say(c)
    BY <1>2, <1>8, <2>1 DEF FwReceive
  <2>3. fw.chunk \in Nat /\ fw.chunk + 1 \in DOMAIN fw.map
    BY <1>1, <1>4, <1>8
  <2>4. /\ fw' \in Firmwares /\ SameFw /\ fw'.clean = fw.clean /\ fw'.chunk = fw.chunk + 1 /\ fw'.pc = fw.pc
        /\ fw'.agreed = fw.agreed /\ fw'.started = fw.started /\ fw'.said = fw.said
    <3>1. fw \in Firmwares /\ fw' = [fw EXCEPT !.chunk = @ + 1] /\ fw.chunk + 1 \in Nat
      BY <1>1, <2>2, <2>3
    <3>2. fw' \in Firmwares
      BY <3>1 DEF Firmwares
    <3>3. QED
      BY <3>1, <3>2 DEF Firmwares, SameFw
  <2>5. c \in Inward /\ c.type = "epmap" /\ Chunk' = c
    BY <1>1, <1>4, <2>1, <2>3, <2>4, InwardAre DEF Chunk, Msg, SameFw
  <2>6. ASSUME fw.clean PROVE Shaken' /\ RunsOK' /\ SaidOK'
    <3>1. apc \notin Later \cup {"hello"}
      BY <1>1, <1>2, <1>8, <2>6, FwReads DEF Chatter, Msg
    <3>2. CASE apc = "epmap"
      <4>1. /\ toFw' = <<>> /\ fromFw' = <<c>> /\ fw.pc = "epmap" /\ fw.said = "none"
            /\ \A k \in 1 .. fw.chunk : fw.map[k] \subseteq bitmap
        BY <1>1, <1>2, <1>8, <2>2, <2>5, <2>6, <3>2, FwReads, SentIn DEF Msg
      <4>2. \A k \in 1 .. fw'.chunk - 1 : fw'.map[k] \subseteq bitmap'
        BY <1>1, <2>3, <2>4, <4>1 DEF SameFw
      <4>3. Shaken'
        BY <1>1, <2>4, <2>5, <3>2, <4>1, <4>2 DEF Shaken
      <4>4. QED
        BY <1>1, <3>2, <4>3 DEF RunsOK, SaidOK, Later
    <3>3. QED
      BY <1>1, <3>1, <3>2, Ended
  <2>7. QED
    BY <1>1, <1>2, <1>8, <2>2, <2>3, <2>4, <2>5, <2>6, FwGoesOn
<1>9. CASE m.type = "epmapReply" /\ m.arg
  <2>1. fw' = [fw EXCEPT !.pc = "run"] /\ fromFw' = fromFw
    BY <1>2, <1>9 DEF FwReceive
  <2>2. /\ fw' \in Firmwares /\ SameFw /\ fw'.clean = fw.clean /\ fw'.chunk = fw.chunk /\ fw'.pc = "run"
        /\ fw'.agreed = fw.agreed /\ fw'.started = fw.started /\ fw'.said = fw.said
    <3>1. fw \in Firmwares /\ fw' = [fw EXCEPT !.pc = "run"]
      BY <1>1, <2>1
    <3>2. fw' \in Firmwares
      BY <3>1 DEF Firmwares
    <3>3. QED
      BY <3>1, <3>2 DEF Firmwares, SameFw
  <2>3. ASSUME fw.clean PROVE Shaken' /\ RunsOK' /\ SaidOK'
    <3>1. apc \notin {"hello", "epmap"}
      BY <1>1, <1>2, <1>9, <2>3, FwReads DEF Msg
    <3>2. CASE apc \in Later
      <4>1. fw.said = "none" /\ fromFw = <<>> /\ \A i \in DOMAIN toFw' : toFw'[i].type \in Chatter
        BY <1>1, <1>2, <1>9, <2>3, <3>2, FwReads DEF Chatter
      <4>2. RunsOK /\ SaidOK
        BY <2>3 DEF BootInv, CleanOK
      <4>3. Advertised \subseteq bitmap' /\ Advertised' = Advertised
        BY <1>1, <2>2, <3>2, <4>2, SameKinds DEF RunsOK
      <4>4. RunsOK'
        BY <1>1, <2>1, <2>2, <4>1, <4>3 DEF RunsOK, Chatter
      <4>5. apc \notin {"apOn", "startApp", "up"}
        BY <4>1, <4>2 DEF SaidOK
      <4>6. SaidOK' /\ Shaken'
        BY <1>1, <2>1, <3>1, <4>1, <4>5 DEF SaidOK, Shaken
      <4>7. QED
        BY <4>4, <4>6
    <3>3. QED
      BY <1>1, <3>1, <3>2, Ended
  <2>4. QED
    BY <1>1, <1>2, <1>9, <2>1, <2>2, <2>3, FwGoesOn
<1>10. CASE m.type \in Chatter
  <2>1. /\ fw' \in Firmwares /\ SameFw /\ fw'.clean = fw.clean /\ fw'.chunk = fw.chunk /\ fw'.pc = fw.pc
        /\ fw'.agreed = fw.agreed /\ fw'.said = fw.said
        /\ \/ fw'.started = fw.started /\ m.type # "startEp"
           \/ m.type = "startEp" /\ fw'.started = fw.started \cup {m.arg}
        /\ fromFw' = fromFw \/ Say(Msg("apState", "ON"))
    <3>1. CASE m.type = "startEp"
      <4>1. fw' = [fw EXCEPT !.started = @ \cup {m.arg}] /\ fromFw' = fromFw
        BY <1>2, <3>1 DEF FwReceive
      <4>2. fw \in Firmwares /\ fw' = [fw EXCEPT !.started = @ \cup {m.arg}] /\ m.arg \in Endpoints
        BY <1>1, <1>3, <1>4, <3>1, <4>1
      <4>3. fw' \in Firmwares
        BY <4>2 DEF Firmwares
      <4>4. fw'.started = fw.started \cup {m.arg} /\ SameFw /\ fw'.clean = fw.clean /\ fw'.chunk = fw.chunk /\ fw'.pc = fw.pc
            /\ fw'.agreed = fw.agreed /\ fw'.said = fw.said
        BY <4>2, <4>3 DEF Firmwares, SameFw
      <4>5. QED
        BY <3>1, <4>1, <4>3, <4>4
    <3>2. CASE m.type = "bufReply"
      <4>1. fw' = [fw EXCEPT !.buffered = @ \cup {m.arg}] /\ fromFw' = fromFw
        BY <1>2, <3>2 DEF FwReceive
      <4>2. fw \in Firmwares /\ fw' = [fw EXCEPT !.buffered = @ \cup {m.arg}] /\ m.arg \in Default
        BY <1>1, <1>3, <3>2, <4>1
      <4>3. fw' \in Firmwares
        BY <4>2 DEF Firmwares
      <4>4. fw'.started = fw.started /\ SameFw /\ fw'.clean = fw.clean /\ fw'.chunk = fw.chunk /\ fw'.pc = fw.pc
            /\ fw'.agreed = fw.agreed /\ fw'.said = fw.said
        BY <4>2, <4>3 DEF Firmwares, SameFw
      <4>5. QED
        BY <3>2, <4>1, <4>3, <4>4
    <3>3. CASE m.type = "apPower"
      <4>1. fw' = [fw EXCEPT !.apOn = TRUE] /\ Say(Msg("apState", "ON"))
        BY <1>2, <3>3 DEF FwReceive
      <4>2. fw \in Firmwares /\ fw' = [fw EXCEPT !.apOn = TRUE]
        BY <1>1, <3>3, <4>1
      <4>3. fw' \in Firmwares
        BY <4>2 DEF Firmwares
      <4>4. fw'.started = fw.started /\ SameFw /\ fw'.clean = fw.clean /\ fw'.chunk = fw.chunk /\ fw'.pc = fw.pc
            /\ fw'.agreed = fw.agreed /\ fw'.said = fw.said
        BY <4>2, <4>3 DEF Firmwares, SameFw
      <4>5. QED
        BY <3>3, <4>1, <4>3, <4>4
    <3>4. QED
      BY <1>10, <3>1, <3>2, <3>3 DEF Chatter
  <2>2. Msg("apState", "ON") \in Inward /\ Msg("apState", "ON").type = "apState"
    BY <1>1, InwardAre DEF Msg
  <2>3. Says /\ Reads /\ FwStep
    BY <1>1, <1>2, <2>1, <2>2 DEF Says, Reads, FwStep, FwUnchanged
  <2>4. ASSUME fw.clean PROVE Shaken' /\ RunsOK' /\ SaidOK'
    <3>1. apc \notin {"hello", "epmap"}
      BY <1>1, <1>2, <1>10, <2>4, FwReads DEF Chatter, Msg
    <3>2. CASE apc \in Later
      <4>1. fw.pc \in {"run", "dead"}
        BY <1>1, <1>2, <1>10, <2>4, <3>2, FwReads DEF Chatter, Msg
      <4>2. QED
        BY <2>1, <2>3, <2>4, <3>2, <4>1, FwRuns
    <3>3. QED
      BY <1>1, <3>1, <3>2, Ended
  <2>5. QED
    BY <1>1, <1>2, <2>1, <2>2, <2>4, FwGoesOn
<1>11. QED
  BY <1>3, <1>5, <1>6, <1>7, <1>8, <1>9, <1>10 DEF Chatter

------------------------------------------------------------------------------
(* The invariant of every boot *)
LEMMA BootStepsOK ==
  ASSUME BootAssumption, BootInv, [BootNext]_bootVars
  PROVE  BootInv'
<1>1. CASE Boot
  BY <1>1, BootOK
<1>2. CASE BootStep
  BY <1>2, BootWaitOK, StartSystemOK, ApOnOK, StartAppsOK DEF BootStep
<1>3. CASE BootFails
  BY <1>3, BootFailsOK
<1>4. CASE Poll
  BY <1>4, PollOK
<1>5. CASE Shutdown
  BY <1>5, ShutdownOK
<1>6. CASE \E e \in AppEps : StartEp(e)
  BY <1>6, StartEpOK
<1>7. CASE BootFirmware
  BY <1>7, FwReceiveOK, FwActsOK DEF BootFirmware
<1>8. CASE UNCHANGED bootVars
  <2>1. /\ UNCHANGED <<apc, todo, iop, ap, crashed, bitmap, buffers>>
        /\ UNCHANGED <<toFw, fromFw, boots, lost, fw>>
    BY <1>8 DEF bootVars, driver
  <2>2. /\ Advertised' = Advertised /\ Common' = Common /\ Outward' = Outward /\ Inward' = Inward
        /\ Chunk' = Chunk /\ SystemEps' = SystemEps
    BY <2>1 DEF Advertised, Common, Outward, Inward, Chunk, SystemEps
  <2>3. BootTypes' /\ VersionOK' /\ AppsOK'
    BY <2>1, <2>2 DEF BootInv, BootTypes, VersionOK, AppsOK
  <2>4. \A e : AskedFor(e) => AskedFor(e)'
    BY <2>1 DEF AskedFor
  <2>5. StartsOK'
    BY <2>1, <2>2, <2>4 DEF BootInv, StartsOK
  <2>6. CleanOK'
    BY <2>1, <2>2 DEF BootInv, CleanOK, Shaken, RunsOK, SaidOK
  <2>7. QED
    BY <2>3, <2>5, <2>6 DEF BootInv
<1>9. QED
  BY <1>1, <1>2, <1>3, <1>4, <1>5, <1>6, <1>7, <1>8 DEF BootNext

LEMMA BootInvPromises ==
  ASSUME BootInv
  PROVE  BootKeepsPromise
<1>1. BootTypes /\ VersionOK /\ AppsOK /\ StartsOK
  BY DEF BootInv
<1>2. AgreesOnVersion
  BY <1>1 DEF VersionOK, AgreesOnVersion, Later
<1>3. StartsOnlyAdvertised
  <2>1. \A i \in DOMAIN toFw : toFw[i] \in Outward
    BY <1>1, ElementOfSeq, LenProperties DEF BootTypes
  <2>2. QED
    BY <1>1, <2>1, OutwardArgs DEF StartsOnlyAdvertised, BootTypes
<1>4. OkMeansStarted
  <2>1. SUFFICES ASSUME apc = "up" PROVE OkMeansStarted
    BY DEF OkMeansStarted
  <2>2. (\A e \in RequestedSet : AskedFor(e)) /\ \A e \in SystemEps : AskedFor(e)
    BY <1>1, <2>1 DEF StartsOK
  <2>3. ASSUME fw.clean
        PROVE  /\ fw.said = "on" /\ State \in {"Running", "Crashed"}
               /\ \A e \in Default \cap Advertised : AskedFor(e)
    <3>1. RunsOK /\ SaidOK
      BY <2>3 DEF BootInv, CleanOK
    <3>2. fw.said = "on" /\ iop = "ON" /\ ap = "ON" /\ Advertised \subseteq bitmap
      BY <2>1, <3>1 DEF RunsOK, SaidOK, Later
    <3>3. State \in {"Running", "Crashed"}
      BY <1>1, <3>2 DEF State, IsRunning, BootTypes
    <3>4. Default \cap Advertised \subseteq SystemEps
      BY <3>2 DEF SystemEps
    <3>5. QED
      BY <2>2, <3>2, <3>3, <3>4
  <2>4. QED
    BY <2>1, <2>2, <2>3 DEF OkMeansStarted
<1>5. BootLosesNothing
  BY <1>1 DEF AppsOK, BootLosesNothing
<1>6. QED
  BY <1>2, <1>3, <1>4, <1>5 DEF BootKeepsPromise

(* However often the processor is booted, with whatever versions, endpoint    *)
(* maps and requests, and whatever fails in between: the two sides agree on a *)
(* version both support, only advertised endpoints are started, Ok means that *)
(* all the requested ones are asked for (and, from an empty mailbox, that the *)
(* firmware has reported ON), and no message of an application endpoint that  *)
(* this boot has started is thrown away by its waits.                         *)
THEOREM BootKeepsItsPromise ==
  ASSUME BootAssumption
  PROVE  BootSpec => []BootKeepsPromise
<1>1. BootInit => BootInv
  BY BootInitOK
<1>2. BootInv /\ [BootNext]_bootVars => BootInv'
  BY BootStepsOK
<1>3. BootInv => BootKeepsPromise
  BY BootInvPromises
<1>4. QED
  BY <1>1, <1>2, <1>3, PTL DEF BootSpec

------------------------------------------------------------------------------
(* The services' run: its demultiplexers are instances of RtkitDemux.           *)
PP == INSTANCE RtkitDemuxProofs WITH
        Tasks <- {present, audio}, AppEps <- {iomfb, epic}, SysEp <- "sys", IrqDriven <- TRUE,
        Serves <- [t \in {present, audio} |-> IF t = present THEN {iomfb} ELSE {epic}],
        MaxMsgs <- [e \in {iomfb, epic, "sys"} |-> CASE e = iomfb -> 2 [] e = epic -> 1 [] OTHER -> 0],
        pc <- tpc
OO == INSTANCE RtkitDemuxProofs WITH
        Tasks <- {present}, AppEps <- {iomfb, epic}, SysEp <- "sys", IrqDriven <- FALSE,
        Serves <- [t \in {present} |-> {iomfb, epic}],
        MaxMsgs <- [e \in {iomfb, epic, "sys"} |-> IF e = "sys" THEN 1 ELSE 3],
        pc <- tpc

(* An operator of the model and what is proved of it are the same formula.      *)
LEMMA PairIsDemux ==
  /\ P!DemuxAssumption <=> PP!DemuxAssumption
  /\ P!Init <=> PP!Init
  /\ [P!Next]_(P!vars) <=> [PP!Next]_(PP!vars)
  /\ P!NothingLost <=> PP!NothingLost
<1>1. P!DemuxAssumption <=> PP!DemuxAssumption
  BY DEF P!DemuxAssumption, PP!DemuxAssumption
<1>2. P!Init <=> PP!Init
  BY Zenon DEF P!Init, PP!Init, P!Endpoints, PP!Endpoints, P!None, PP!None
<1>3. [P!Next]_(P!vars) <=> [PP!Next]_(PP!vars)
  BY Zenon DEF P!Next, P!vars, P!asc, P!Endpoints, P!None, P!FirmwareSend, P!IrqDrain, P!IrqAppend,
    P!Visible, P!Return, P!Deliver, P!PendingAt, P!FirstOf, P!TakePending, P!RemoveAt, P!Call,
    P!PollCall, P!WaitCall, P!KeepForeign, P!AnswerSystem, P!Take, P!CanRecv, P!PollTake,
    P!PollStolen, P!WaitTake, P!WaitTimeout, P!Stash, P!Finish, PP!Next, PP!vars, PP!asc,
    PP!Endpoints, PP!None, PP!FirmwareSend, PP!IrqDrain, PP!IrqAppend, PP!Visible, PP!Return,
    PP!Deliver, PP!PendingAt, PP!FirstOf, PP!TakePending, PP!RemoveAt, PP!Call, PP!PollCall,
    PP!WaitCall, PP!KeepForeign, PP!AnswerSystem, PP!Take, PP!CanRecv, PP!PollTake, PP!PollStolen,
    PP!WaitTake, PP!WaitTimeout, PP!Stash, PP!Finish
<1>4. P!NothingLost <=> PP!NothingLost
  BY Zenon DEF P!NothingLost, P!Places, P!Count, P!Cardinality, P!Message, P!Endpoints, P!Visible,
    PP!NothingLost, PP!Places, PP!Count, PP!Cardinality, PP!Message, PP!Endpoints, PP!Visible
<1>5. QED
  BY <1>1, <1>2, <1>3, <1>4

LEMMA OneIsDemux ==
  /\ O!DemuxAssumption <=> OO!DemuxAssumption
  /\ O!Init <=> OO!Init
  /\ [O!Next]_(O!vars) <=> [OO!Next]_(OO!vars)
  /\ O!OrderAtRest <=> OO!OrderAtRest
  /\ O!ReturnsNext <=> OO!ReturnsNext
<1>1. O!DemuxAssumption <=> OO!DemuxAssumption
  BY DEF O!DemuxAssumption, OO!DemuxAssumption
<1>2. O!Init <=> OO!Init
  BY Zenon DEF O!Init, OO!Init, O!Endpoints, OO!Endpoints, O!None, OO!None
<1>3. [O!Next]_(O!vars) <=> [OO!Next]_(OO!vars)
  BY Zenon DEF O!Next, O!vars, O!asc, O!Endpoints, O!None, O!FirmwareSend, O!IrqDrain, O!IrqAppend,
    O!Visible, O!Return, O!Deliver, O!PendingAt, O!FirstOf, O!TakePending, O!RemoveAt, O!Call,
    O!PollCall, O!WaitCall, O!KeepForeign, O!AnswerSystem, O!Take, O!CanRecv, O!PollTake,
    O!PollStolen, O!WaitTake, O!WaitTimeout, O!Stash, O!Finish, OO!Next, OO!vars, OO!asc,
    OO!Endpoints, OO!None, OO!FirmwareSend, OO!IrqDrain, OO!IrqAppend, OO!Visible, OO!Return,
    OO!Deliver, OO!PendingAt, OO!FirstOf, OO!TakePending, OO!RemoveAt, OO!Call, OO!PollCall,
    OO!WaitCall, OO!KeepForeign, OO!AnswerSystem, OO!Take, OO!CanRecv, OO!PollTake, OO!PollStolen,
    OO!WaitTake, OO!WaitTimeout, OO!Stash, OO!Finish
<1>4. O!OrderAtRest <=> OO!OrderAtRest
  BY Zenon DEF O!OrderAtRest, O!Waiting, O!InLine, O!Visible, OO!OrderAtRest, OO!Waiting, OO!InLine,
    OO!Visible
<1>5. O!ReturnsNext <=> OO!ReturnsNext
  BY Zenon DEF O!ReturnsNext, OO!ReturnsNext
<1>6. QED
  BY <1>1, <1>2, <1>3, <1>4, <1>5

(* The services' run, with any clients' names and endpoints: a message is always *)
(* in one place for two tasks and an interrupt, and a single task's messages    *)
(* are returned in the order in which they were sent.                           *)
THEOREM MessagesStayInOrder == Spec => [](NothingLost /\ ReturnedInOrder)
<1>1. PP!DemuxAssumption /\ OO!DemuxAssumption
  BY ServicesAssumption, PairIsDemux, OneIsDemux
<1>2. Spec => []NothingLost
  <2>1. part = "pair" /\ Init => PP!Init
    BY PairIsDemux DEF Init
  <2>2. part = "pair" /\ [Next]_vars => [PP!Next]_(PP!vars) /\ (part = "pair")'
    <3>1. part = "pair" /\ [Next]_vars => [P!Next]_(P!vars) /\ (part = "pair")'
      BY DEF Next, vars, demuxVars, P!vars, P!asc
    <3>2. QED
      BY <3>1, PairIsDemux
  <2>3. Spec /\ part = "pair" => PP!Spec /\ [](part = "pair")
    BY <2>1, <2>2, PTL DEF Spec, PP!Spec
  <2>4. PP!Spec => []PP!NothingLost
    BY <1>1, PP!NothingIsLost
  <2>5. ~(part = "pair") /\ [Next]_vars => ~(part = "pair")'
    BY DEF Next, vars
  <2>6. Spec /\ ~(part = "pair") => []~(part = "pair")
    BY <2>5, PTL DEF Spec
  <2>7. P!NothingLost <=> PP!NothingLost
    BY PairIsDemux
  <2>8. QED
    BY <2>3, <2>4, <2>6, <2>7, PTL DEF NothingLost
<1>3. Spec => []ReturnedInOrder
  <2>1. part = "one" /\ Init => OO!Init
    BY OneIsDemux DEF Init
  <2>2. part = "one" /\ [Next]_vars => [OO!Next]_(OO!vars) /\ (part = "one")'
    <3>1. part = "one" /\ [Next]_vars => [O!Next]_(O!vars) /\ (part = "one")'
      BY DEF Next, vars, demuxVars, O!vars, O!asc
    <3>2. QED
      BY <3>1, OneIsDemux
  <2>3. Spec /\ part = "one" => OO!Spec /\ [](part = "one")
    BY <2>1, <2>2, PTL DEF Spec, OO!Spec
  <2>4. OO!Spec => [](OO!OrderAtRest /\ OO!ReturnsNext)
    BY <1>1, OO!OneTaskKeepsOrder
  <2>5. ~(part = "one") /\ [Next]_vars => ~(part = "one")'
    BY DEF Next, vars
  <2>6. Spec /\ ~(part = "one") => []~(part = "one")
    BY <2>5, PTL DEF Spec
  <2>7. (O!OrderAtRest <=> OO!OrderAtRest) /\ (O!ReturnsNext <=> OO!ReturnsNext)
    BY OneIsDemux
  <2>8. QED
    BY <2>3, <2>4, <2>6, <2>7, PTL DEF ReturnedInOrder
<1>4. QED
  BY <1>2, <1>3, PTL
=============================================================================
