----------------------------- MODULE KernelWifi -----------------------------
(***************************************************************************)
(* The kernel's Wi-Fi station and the access points of its test radio      *)
(* (aios-kernel/src/wifi.rs): scanning, association, the WPA2 four-way     *)
(* handshake, and data frames over three bounded queues.                   *)
(*                                                                         *)
(* `w` holds the module's statics.  A frame is a type, the access point    *)
(* whose address it carries, a key it is signed or encrypted with, and a   *)
(* nonce.  A pairwise key is what derive_ptk mixes: the access point, the  *)
(* passphrase and the two nonces in no order.  Nonces come from the low    *)
(* byte of the tick count, so they repeat: one poll draws any of them.     *)
(* Group keys never carry a frame here and are left out.                   *)
(*                                                                         *)
(* Time is counted in ticks; Poll(d, ..) runs d ticks after the last poll. *)
(***************************************************************************)
EXTENDS Integers, FiniteSets, SequencesExt

CONSTANTS
    APs,           \* the access points
    Secure,        \* those that ask for WPA2
    Nonces,        \* the values fill_nonce may draw
    Payloads,      \* what net sends: "ask" is answered, "tell" is not
    QDepth,        \* QDEPTH
    Burst,         \* frames of a queue handled in one poll
    ScanTicks, BeaconTicks, ConnectTicks,
    MaxLag,        \* ticks between two polls
    MaxCalls       \* bound on the calls of the user

CONSTANT None

VARIABLES w, calls

vars == <<w, calls>>

States == {"Idle", "Scanning", "Connecting", "Associated"}
Stages == {"None", "WaitAuth", "WaitAssoc", "WaitM1", "WaitM3"}
NoKey == <<>>
Keys == {NoKey} \cup {<<a, r, n>> : a \in Secure, r \in BOOLEAN, n \in SUBSET Nonces}
Frames ==
    [t : {"probe", "auth", "assoc", "deauth", "beacon", "authResp", "assocResp",
          "m1", "m2", "m3", "m4"} \cup Payloads \cup {"answer"},
     ap : APs \cup {None}, key : Keys, nonce : Nonces \cup {None}]

Radio ==
    [sim : BOOLEAN, wstate : States, stage : Stages, connectAp : APs \cup {None},
     right : BOOLEAN, staPtk : Keys, results : SUBSET APs, scanDone : BOOLEAN,
     scanLeft : 0 .. ScanTicks, beaconLeft : 0 .. BeaconTicks,
     waited : 0 .. ConnectTicks + 1,
     apCur : APs \cup {None}, apAssoced : BOOLEAN, apHsOk : BOOLEAN, apPtk : Keys,
     apAnonce : Nonces \cup {None},
     txq : Seq(Frames), rxq : Seq(Frames), ethq : Seq(Frames)]

Init ==
    /\ w = [sim |-> FALSE, wstate |-> "Idle", stage |-> "None", connectAp |-> None,
            right |-> FALSE, staPtk |-> NoKey, results |-> {}, scanDone |-> FALSE,
            scanLeft |-> 0, beaconLeft |-> 0, waited |-> 0,
            apCur |-> None, apAssoced |-> FALSE, apHsOk |-> FALSE, apPtk |-> NoKey,
            apAnonce |-> None, txq |-> <<>>, rxq |-> <<>>, ethq |-> <<>>]
    /\ calls = 0

-----------------------------------------------------------------------------
Frame(t, ap, key, nonce) == [t |-> t, ap |-> ap, key |-> key, nonce |-> nonce]
Plain(t, ap) == Frame(t, ap, NoKey, None)

(* FrameQueue::push; every caller but send_frame ignores a full queue      *)
Push(q, f) == IF Len(q) < QDepth THEN Append(q, f) ELSE q
PushAll(q, fs) == SubSeq(q \o fs, 1, IF Len(q \o fs) > QDepth THEN QDepth ELSE Len(q \o fs))

Ptk(ap, right, an, sn) == <<ap, right, {an, sn}>>
MicAny(f, ptk) == TRUE
MicOk(f, ptk) == f.key = ptk

(* One frame of each access point, in the order of APS                     *)
OneEach == CHOOSE s \in [1 .. Cardinality(APs) -> {Plain("beacon", a) : a \in APs}] :
               \A a \in APs : \E i \in DOMAIN s : s[i].ap = a

-----------------------------------------------------------------------------
(* The access point's side *)

ApRxAuth(s, f) ==
    [s EXCEPT !.apCur = f.ap, !.apAssoced = FALSE, !.apHsOk = FALSE, !.apPtk = NoKey,
              !.rxq = Push(@, Plain("authResp", f.ap))]

(* The request names its network; it is dropped unless the access point    *)
(* that answered last is the one named                                     *)
ApRxAssoc(s, f, an) ==
    IF s.apCur = None \/ f.ap # s.apCur THEN s
    ELSE LET t == [s EXCEPT !.rxq = Push(@, Plain("assocResp", s.apCur)), !.apAssoced = TRUE]
         IN  IF s.apCur \in Secure
             THEN [t EXCEPT !.apAnonce = an, !.rxq = Push(@, Frame("m1", s.apCur, NoKey, an))]
             ELSE t

(* M2 proves the passphrase, M4 that the station holds the same key        *)
ApEapol(s, f) ==
    LET ptk == Ptk(s.apCur, TRUE, s.apAnonce, f.nonce)
    IN  IF s.apCur = None \/ s.apCur \notin Secure \/ ~s.apAssoced THEN s
        ELSE CASE f.t = "m2" /\ ~s.apHsOk /\ MicOk(f, ptk) ->
                    [s EXCEPT !.apPtk = ptk, !.rxq = Push(@, Frame("m3", s.apCur, ptk, None))]
               [] f.t = "m4" /\ s.apPtk # NoKey /\ MicOk(f, s.apPtk) ->
                    [s EXCEPT !.apHsOk = TRUE]
               [] OTHER -> s

LanProtect(s) == s.apCur \in Secure /\ s.apHsOk
ApLan(s, f) ==
    IF f.t # "ask" \/ s.apCur = None THEN s
    ELSE [s EXCEPT !.rxq = Push(@, Frame("answer", s.apCur,
                                         IF LanProtect(s) THEN s.apPtk ELSE NoKey, None))]

ApRxData(s, f) ==
    CASE f.key = NoKey /\ s.apCur \in Secure -> s
      [] f.key # NoKey /\ (~s.apHsOk \/ f.key # s.apPtk) -> s
      [] OTHER -> ApLan(s, f)

ApRx(s, f, an) ==
    CASE f.t = "probe" -> [s EXCEPT !.rxq = PushAll(@, OneEach)]
      [] f.t = "auth" -> ApRxAuth(s, f)
      [] f.t = "assoc" -> ApRxAssoc(s, f, an)
      [] f.t = "deauth" -> [s EXCEPT !.apAssoced = FALSE, !.apHsOk = FALSE]
      [] f.t \in {"m2", "m4"} -> ApEapol(s, f)
      [] OTHER -> ApRxData(s, f)

-----------------------------------------------------------------------------
(* The station's side.  The access points refuse nobody and never send a   *)
(* deauth, so the branches for those answers do not occur.                 *)

StaRxScan(s, f) ==
    IF s.wstate = "Scanning" THEN [s EXCEPT !.results = @ \cup {f.ap}] ELSE s

StaRxAuth(s) ==
    IF s.stage # "WaitAuth" THEN s
    ELSE [s EXCEPT !.txq = Push(@, Plain("assoc", s.connectAp)), !.stage = "WaitAssoc"]

StaRxAssoc(s) ==
    IF s.stage # "WaitAssoc" THEN s
    ELSE IF s.connectAp \in Secure THEN [s EXCEPT !.stage = "WaitM1"]
    ELSE [s EXCEPT !.wstate = "Associated", !.stage = "None"]

StaEapol(s, f, sn) ==
    LET ptk == Ptk(s.connectAp, s.right, f.nonce, sn)
    IN  IF f.ap # s.connectAp THEN s
        ELSE CASE f.t = "m1" /\ s.stage = "WaitM1" ->
                    [s EXCEPT !.staPtk = ptk, !.stage = "WaitM3",
                              !.txq = Push(@, Frame("m2", s.connectAp, ptk, sn))]
               [] f.t = "m3" /\ s.stage = "WaitM3" /\ MicOk(f, s.staPtk) ->
                    [s EXCEPT !.wstate = "Associated", !.stage = "None",
                              !.txq = Push(@, Frame("m4", s.connectAp, s.staPtk, None))]
               [] OTHER -> s

StaRxData(s, f) ==
    IF f.key # NoKey /\ f.key # s.staPtk THEN s ELSE [s EXCEPT !.ethq = Push(@, f)]

StaRx(s, f, sn) ==
    CASE f.t = "beacon" -> StaRxScan(s, f)
      [] f.t = "authResp" -> StaRxAuth(s)
      [] f.t = "assocResp" -> StaRxAssoc(s)
      [] f.t \in {"m1", "m3"} -> StaEapol(s, f, sn)
      [] OTHER -> StaRxData(s, f)

-----------------------------------------------------------------------------
First(q) == SubSeq(q, 1, IF Len(q) < Burst THEN Len(q) ELSE Burst)
Rest(q) == SubSeq(q, Burst + 1, Len(q))

(* A poll handles the frames queued when it comes to a queue, at most      *)
(* Burst of them: handling one adds to the other queue only                *)
PumpTx(s, an) ==
    FoldLeft(LAMBDA t, f : ApRx(t, f, an), [s EXCEPT !.txq = Rest(@)], First(s.txq))

PumpRx(s, sn) ==
    FoldLeft(LAMBDA t, f : StaRx(t, f, sn), [s EXCEPT !.rxq = Rest(@)], First(s.rxq))

(* d ticks pass; a deadline is looked at only in its own state             *)
Left(n, d) == IF n > d THEN n - d ELSE 0
Elapse(s, d) ==
    CASE s.wstate = "Scanning" ->
           [s EXCEPT !.scanLeft = Left(@, d), !.beaconLeft = Left(@, d)]
      [] s.wstate = "Connecting" ->
           [s EXCEPT !.waited = IF @ + d > ConnectTicks THEN ConnectTicks + 1 ELSE @ + d]
      [] OTHER -> s

BeaconBurst(s) ==
    IF s.wstate = "Scanning" /\ s.beaconLeft = 0
    THEN [s EXCEPT !.rxq = PushAll(@, OneEach), !.beaconLeft = BeaconTicks]
    ELSE s

ScanEnds(s) ==
    IF s.wstate = "Scanning" /\ s.scanLeft = 0
    THEN [s EXCEPT !.wstate = "Idle", !.scanDone = TRUE]
    ELSE s

ConnectNeverTimesOut(s) == s

ConnectTimesOut(s) ==
    IF s.wstate = "Connecting" /\ s.waited > ConnectTicks
    THEN [s EXCEPT !.wstate = "Idle", !.stage = "None", !.apCur = None]
    ELSE s

Poll(d, an, sn) ==
    /\ IF w.sim
       THEN \E aired \in {BeaconBurst(PumpTx(Elapse(w, d), an))} :
                w' = ConnectTimesOut(ScanEnds(PumpRx(aired, sn)))
       ELSE UNCHANGED w
    /\ UNCHANGED calls

Call == calls < MaxCalls /\ calls' = calls + 1

SetSim(on) ==
    /\ Call
    /\ w' = IF on
            THEN [w EXCEPT !.sim = TRUE, !.scanDone = FALSE, !.results = {}]
            ELSE [w EXCEPT !.sim = FALSE, !.scanDone = FALSE, !.wstate = "Idle",
                           !.stage = "None", !.apCur = None, !.apAssoced = FALSE,
                           !.apHsOk = FALSE, !.results = {},
                           !.txq = <<>>, !.rxq = <<>>, !.ethq = <<>>]

(* Without the test radio a scan ends at once with nothing found           *)
StartScan ==
    /\ Call
    /\ w' = CASE ~w.sim -> [w EXCEPT !.results = {}, !.scanDone = TRUE]
              [] w.sim /\ w.wstate = "Scanning" -> w
              [] OTHER -> [w EXCEPT !.results = {}, !.scanDone = FALSE,
                                    !.wstate = "Scanning", !.scanLeft = ScanTicks,
                                    !.beaconLeft = 0, !.txq = Push(@, Plain("probe", None))]

ConnectKeepsStage(a, right) ==
    /\ Call
    /\ w.sim
    /\ w' = [w EXCEPT !.connectAp = a, !.right = right,
                      !.stage = IF @ = "None" THEN "WaitAuth" ELSE @,
                      !.wstate = "Connecting", !.waited = 0,
                      !.txq = Push(@, Plain("auth", a))]

Connect(a, right) ==
    /\ Call
    /\ w.sim
    /\ w' = [w EXCEPT !.connectAp = a, !.right = right, !.stage = "WaitAuth",
                      !.wstate = "Connecting", !.waited = 0,
                      !.txq = Push(@, Plain("auth", a))]

Disconnect ==
    /\ Call
    /\ w' = LET s == IF w.wstate = "Associated" /\ w.connectAp # None
                     THEN [w EXCEPT !.txq = Push(@, Plain("deauth", w.connectAp)),
                                    !.apCur = None, !.apAssoced = FALSE, !.apHsOk = FALSE]
                     ELSE w
            IN  [s EXCEPT !.wstate = "Idle", !.stage = "None"]

(* net sends and takes frames *)
SendFrame(p) ==
    /\ w.wstate = "Associated" /\ w.connectAp # None
    /\ Len(w.txq) < QDepth
    /\ w' = [w EXCEPT !.txq = Push(@, Frame(p, w.connectAp,
                 IF w.connectAp \in Secure THEN w.staPtk ELSE NoKey, None))]
    /\ UNCHANGED calls

PollFrame ==
    /\ w.ethq # <<>>
    /\ w' = [w EXCEPT !.ethq = Tail(@)]
    /\ UNCHANGED calls

Next ==
    \/ \E d \in 1 .. MaxLag, an, sn \in Nonces : Poll(d, an, sn)
    \/ \E on \in BOOLEAN : SetSim(on)
    \/ StartScan
    \/ \E a \in APs, right \in BOOLEAN : Connect(a, right)
    \/ Disconnect
    \/ \E p \in Payloads : SendFrame(p)
    \/ PollFrame

Spec == Init /\ [][Next]_vars

(* The kernel's main loop polls the radio in every iteration               *)
LiveSpec == Spec /\ WF_vars(\E d \in 1 .. MaxLag, an, sn \in Nonces : Poll(d, an, sn))

-----------------------------------------------------------------------------
(* Every static holds a value of its type and no queue outgrows its ring.  *)
TypeOK ==
    /\ w \in Radio
    /\ \A q \in {w.txq, w.rxq, w.ethq} : Len(q) <= QDepth

(* Once the frames of an association have reached the access point, it     *)
(* serves the network the station asked for, counts the station in, and    *)
(* under WPA2 both hold the same key and know it: whatever net sends from  *)
(* there on is taken.                                                      *)
Talks(q) == \E i \in DOMAIN q : q[i].t \in {"auth", "assoc", "deauth", "m2", "m4"}
BothAgree ==
    w.wstate = "Associated" /\ ~Talks(w.txq) =>
        /\ w.apCur = w.connectAp
        /\ w.apAssoced
        /\ w.connectAp \in Secure => w.apHsOk /\ w.apPtk = w.staPtk

(* A station is associated with a WPA2 network only if it was given the    *)
(* passphrase of that network, whatever other attempts left in the queues. *)
NeverWithWrongPassphrase ==
    w.wstate = "Associated" /\ w.connectAp \in Secure => w.right

(* An attempt that nothing interrupts ends: associated with the right      *)
(* passphrase or on an open network, and back in Idle with a wrong one.    *)
Undisturbed == calls = MaxCalls
Attempting == w.wstate = "Connecting" /\ Undisturbed
Settled == w.wstate = IF w.right \/ w.connectAp \notin Secure THEN "Associated" ELSE "Idle"
AttemptSettles == Attempting ~> Settled

(* connecting is true while an association or a handshake is running.      *)
\* Refuted: section 5 of the README.
HandshakeIsConnecting == w.stage # "None" => w.wstate = "Connecting"

(* disconnect tears the association down: the access point no longer      *)
(* counts the station in.                                                  *)
\* Refuted: section 5 of the README.
DisconnectTearsDown == [][Disconnect => ~w'.apAssoced]_vars
=============================================================================
