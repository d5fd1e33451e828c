----------------------- MODULE DatabaseTunnel_proofs -----------------------
(***************************************************************************)
(* What the Database tunnel keeps for any number of calls: nothing is left *)
(* behind by a call that ended, shutdown accounts for every session, a     *)
(* cancel stays with the developer who sent it, a session's end gives its  *)
(* true reason, and the trail is the audit trail SessionAudit asks for.    *)
(*                                                                         *)
(* The invariant says of each call what its phase implies: which of its    *)
(* two ends are open (Wired), what its copiers have reported (Relayed) and *)
(* what was recorded of it (Trailed).  A step is of one call, and leaves   *)
(* the others alone; the clock, the shutdown and the exit touch all.       *)
(***************************************************************************)
EXTENDS DatabaseTunnel, SequenceTheorems, TLAPS

(* Which ends of a call are open.  Only a check call has none when it is   *)
(* checked; the database's end is the session's own.                       *)
Wired(p, k, w) ==
  /\ p \in {"none", "called", "counted"} => w["client"] = "none" /\ w["database"] = "none"
  /\ p \in {"counted", "startup", "login", "greeting", "cancelling", "passing"} => k # "check"
  /\ p \in {"relaying", "hanging"} => w["client"] \in {"open", "stalled", "gone"}
  /\ p \in {"startup", "checking", "login", "greeting", "cancelling", "passing"} /\ k # "check"
       => w["client"] \in {"open", "stalled", "gone"}
  /\ p \in {"greeting", "relaying", "hanging", "passing"} => w["database"] \in {"open", "gone"}
  /\ p \in {"closing", "ended", "cut"} => \A s \in Side : w[s] \in {"none", "closed"}

RelayRecord ==
  [copier : [Side -> {"off", "reading", "writing", "done"}],
   done : Seq(Side), reason : Reason, idle : 0 .. IdleLimit,
   age : 0 .. MaxSession, wake : 0 .. FirstWake]

(* A copier reports once, when it ends, which it does while the session is *)
(* relayed only because one of the two peers has gone.                     *)
Reported(y) ==
  /\ Len(y.done) <= 2
  /\ \A s \in Side : y.copier[s] # "done" => Len(y.done) <= 1
  /\ (\A s \in Side : y.copier[s] # "done") => Len(y.done) = 0

Relayed(p, w, y) ==
  /\ y \in RelayRecord
  /\ Reported(y)
  /\ p = "relaying" /\ y.done # <<>> => \E s \in Side : w[s] = "gone"

(* What was recorded of a call in each phase. *)
Before == {"none", "called", "counted", "startup", "checking", "login", "greeting", "cancelling",
           "passing"}
Began == {<<"started">>, <<"started", "ended">>}

Trailed(p, t) ==
  /\ p \in Before => t = <<>>
  /\ p \in {"relaying", "hanging", "closing"} => t = <<"started">>
  /\ p = "ended" => t \in {<<>>, <<"refused">>, <<"started", "ended">>}

(* Once the HTTP server is drained no call can still count itself; only a  *)
(* failed shutdown cuts one off.                                           *)
Shut(p, s) ==
  /\ s = "stopping" => p \notin {"called", "counted"}
  /\ s = "stopped" => p \in {"none", "ended"}
  /\ p = "cut" => s = "failed"

Local(c) ==
  /\ Wired(phase[c], request[c].kind, wire[c])
  /\ Relayed(phase[c], wire[c], relay[c])
  /\ Trailed(phase[c], trail[c])
  /\ Shut(phase[c], server)
  /\ c \in live <=> phase[c] \in {"relaying", "hanging", "closing"}

(* The session d may be cancelled by c. *)
MayCancel(c, d) ==
  /\ trail[d] \in Began
  /\ request[d].login = request[c].login /\ request[d].place = request[c].place

Cancelling ==
  /\ \A c \in Connection : phase[c] = "cancelling" => MayCancel(c, request[c].target)
  /\ \A pair \in cancelled : MayCancel(pair[1], pair[2])

(* Shutdown has returned only when every Event was written or given up on. *)
Settled == server = "stopped" => pending = {}

TunnelInv ==
  /\ TunnelTypeOK
  /\ \A c \in Connection : Local(c)
  /\ Cancelling
  /\ Settled

-----------------------------------------------------------------------------
(* Sequences of what is recorded, and the numbers of the limits *)

LEMMA AppendToOne ==
  ASSUME NEW S, NEW x \in S, NEW y \in S
  PROVE  Append(<<x>>, y) = <<x, y>>
<1>1. <<x>> \in Seq(S) /\ <<x, y>> \in Seq(S)
  OBVIOUS
<1>2. PICK s \in Seq(S) : s = <<x>>
  BY <1>1, Zenon
<1>3. PICK t \in Seq(S) : t = <<x, y>>
  BY <1>1, Zenon
<1>4. Len(s) = 1 /\ s[1] = x
  BY <1>2
<1>5. Len(t) = 2 /\ t[1] = x /\ t[2] = y
  BY <1>3
<1>6. PICK u \in Seq(S) : /\ u = Append(s, y) /\ Len(u) = Len(s) + 1
                          /\ \A i \in 1 .. Len(s) : u[i] = s[i]
                          /\ u[Len(s) + 1] = y
  BY AppendProperties
<1>7. Len(u) = Len(t) /\ \A i \in 1 .. Len(u) : u[i] = t[i]
  BY <1>4, <1>5, <1>6
<1>8. u = t
  BY <1>7, SeqEqual
<1> QED
  BY <1>2, <1>3, <1>6, <1>8

LEMMA Trails ==
  /\ Append(<<>>, "started") = <<"started">>
  /\ Append(<<>>, "refused") = <<"refused">>
  /\ Append(<<"started">>, "ended") = <<"started", "ended">>
  /\ \A m : <<>> # <<m>>
  /\ <<>> \notin Began
  /\ \A t \in Began : t # <<>> /\ Head(t) = "started"
<1>1. Append(<<>>, "started") = <<"started">>
  OBVIOUS
<1>2. Append(<<>>, "refused") = <<"refused">>
  OBVIOUS
<1>3. Append(<<"started">>, "ended") = <<"started", "ended">>
  <2>1. "started" \in Moment /\ "ended" \in Moment
    BY DEF Moment
  <2> QED
    BY <2>1, AppendToOne
<1>4. \A m : <<>> # <<m>>
  OBVIOUS
<1>5. <<>> # <<"started", "ended">>
  OBVIOUS
<1>6. Head(<<"started">>) = "started"
  OBVIOUS
<1>7. Head(<<"started", "ended">>) = "started"
  OBVIOUS
<1> QED
  BY <1>1, <1>2, <1>3, <1>4, <1>5, <1>6, <1>7 DEF Began

LEMMA Limits ==
  /\ IdleLimit \in Nat \ {0} /\ MaxSession \in Nat \ {0} /\ FirstWake \in Nat
  /\ 0 \in 0 .. FirstWake /\ FirstWake \in 0 .. FirstWake
  /\ 0 \in 0 .. IdleLimit /\ 0 \in 0 .. MaxSession
  /\ \A i \in 0 .. IdleLimit, a \in 0 .. MaxSession :
       Sooner(IdleLimit - i, MaxSession - a) \in 0 .. FirstWake
BY TunnelAssumption DEF FirstWake, Sooner

LEMMA TickedType ==
  ASSUME NEW y \in RelayRecord
  PROVE  /\ Ticked(y) \in RelayRecord
         /\ Ticked(y).copier = y.copier /\ Ticked(y).done = y.done
         /\ Ticked(y).reason = y.reason
<1>1. /\ y.idle \in 0 .. IdleLimit /\ y.age \in 0 .. MaxSession /\ y.wake \in 0 .. FirstWake
  BY DEF RelayRecord
<1>2. Sooner(y.idle + 1, IdleLimit) \in 0 .. IdleLimit
  BY <1>1, Limits DEF Sooner
<1>3. Sooner(y.age + 1, MaxSession) \in 0 .. MaxSession
  BY <1>1, Limits DEF Sooner
<1>4. ASSUME NEW n \in 0 .. FirstWake PROVE (IF n = 0 THEN 0 ELSE n - 1) \in 0 .. FirstWake
  BY Limits
<1> QED
  BY <1>1, <1>2, <1>3, <1>4 DEF Ticked, RelayRecord

LEMMA EndedType ==
  ASSUME NEW y \in RelayRecord, NEW reason \in Reason, NEW done \in Seq(Side)
  PROVE  /\ Ended(y, reason, done) \in RelayRecord
         /\ Ended(y, reason, done).copier = y.copier
         /\ Ended(y, reason, done).done = done
BY Limits DEF Ended, RelayRecord

LEMMA NoRelayType == NoRelay \in RelayRecord /\ Reported(NoRelay)
<1>1. <<>> \in Seq(Side) /\ Len(<<>>) = 0
  BY EmptySeq
<1>2. NoRelay \in RelayRecord
  BY <1>1, Limits DEF NoRelay, RelayRecord, Reason
<1>3. NoRelay.done = <<>>
  BY DEF NoRelay
<1> QED
  BY <1>1, <1>2, <1>3 DEF Reported

LEMMA ClosedEndsClosed ==
  \A w : \A s \in Side : ClosedEnds(w)[s] \in {"none", "closed"}
BY DEF ClosedEnds

-----------------------------------------------------------------------------
(* What each kind of step leaves alone *)

(* A step of c's handler. *)
Handler(c) == Call(c) \/ Obliged(c) \/ Answered(c)

(* A step of one of c's copiers or of one of its peers. *)
Wire(c) ==
  \/ \E s \in Side : CopierReads(c, s) \/ CopierWrites(c, s) \/ CopierEnds(c, s) \/ PeerCloses(c, s)
  \/ ClientStalls(c) \/ ClientReads(c)

(* A step of c, seen from d. *)
Spared(d) ==
  /\ phase'[d] = phase[d] /\ wire'[d] = wire[d]
  /\ relay'[d] = relay[d] /\ trail'[d] = trail[d]
  /\ d \in live' <=> d \in live

LEMMA StepOfOne ==
  ASSUME NEW c \in Connection, Handler(c) \/ Wire(c)
  PROVE  server' = server /\ request' = request /\ Running
BY DEF Handler, Obliged, Answered, Wire, Call, StartCheckCall, Count, Upgrade, UpgradeFails,
       ReadStartup, StartupFails, CheckPasses, CheckRefuses, PassOn, CancelFails, CancelTaken,
       CancelAnswered, CancelEnds, HangUp, LogsIn,
       LoginFails, Greet, GreetFails, EndsByCopier, EndsByStop, EndsWith, Ended, Wakes, Finish,
       CopierReads, CopierWrites, CopierEnds, PeerCloses, ClientStalls, ClientReads, Steps

LEMMA OthersAreSpared ==
  ASSUME TunnelTypeOK, NEW c \in Connection, Handler(c) \/ Wire(c),
         NEW d \in Connection \ {c}
  PROVE  Spared(d)
<1>1. phase'[d] = phase[d]
  BY DEF TunnelTypeOK, Handler, Obliged, Answered, Wire, Call, StartCheckCall, Count, Upgrade,
       UpgradeFails, ReadStartup, StartupFails, CheckPasses, CheckRefuses, PassOn, CancelFails, CancelTaken,
       CancelAnswered, CancelEnds, HangUp,
       LogsIn, LoginFails, Greet, GreetFails, EndsByCopier, EndsByStop, EndsWith, Ended, Wakes, Finish,
       CopierReads, CopierWrites, CopierEnds, PeerCloses, ClientStalls, ClientReads, Steps
<1>2. wire'[d] = wire[d]
  BY DEF TunnelTypeOK, Handler, Obliged, Answered, Wire, Call, StartCheckCall, Count, Upgrade,
       UpgradeFails, ReadStartup, StartupFails, CheckPasses, CheckRefuses, PassOn, CancelFails, CancelTaken,
       CancelAnswered, CancelEnds, HangUp,
       LogsIn, LoginFails, Greet, GreetFails, EndsByCopier, EndsByStop, EndsWith, Ended, Wakes, Finish,
       CopierReads, CopierWrites, CopierEnds, PeerCloses, ClientStalls, ClientReads, CloseEnds
<1>3. relay'[d] = relay[d]
  BY DEF TunnelTypeOK, Handler, Obliged, Answered, Wire, Call, StartCheckCall, Count, Upgrade,
       UpgradeFails, ReadStartup, StartupFails, CheckPasses, CheckRefuses, PassOn, CancelFails, CancelTaken,
       CancelAnswered, CancelEnds, HangUp,
       LogsIn, LoginFails, Greet, GreetFails, EndsByCopier, EndsByStop, EndsWith, Ended, Wakes, Finish,
       CopierReads, CopierWrites, CopierEnds, PeerCloses, ClientStalls, ClientReads
<1>4. trail'[d] = trail[d]
  BY DEF TunnelTypeOK, Handler, Obliged, Answered, Wire, Call, StartCheckCall, Count, Upgrade,
       UpgradeFails, ReadStartup, StartupFails, CheckPasses, CheckRefuses, PassOn, CancelFails, CancelTaken,
       CancelAnswered, CancelEnds, HangUp,
       LogsIn, LoginFails, Greet, GreetFails, EndsByCopier, EndsByStop, EndsWith, Ended, Wakes, Finish,
       CopierReads, CopierWrites, CopierEnds, PeerCloses, ClientStalls, ClientReads, Record, Unrecorded
<1>5. d \in live' <=> d \in live
  BY DEF Handler, Obliged, Answered, Wire, Call, StartCheckCall, Count, Upgrade,
       UpgradeFails, ReadStartup, StartupFails, CheckPasses, CheckRefuses, PassOn, CancelFails, CancelTaken,
       CancelAnswered, CancelEnds, HangUp,
       LogsIn, LoginFails, Greet, GreetFails, EndsByCopier, EndsByStop, EndsWith, Ended, Wakes, Finish,
       CopierReads, CopierWrites, CopierEnds, PeerCloses, ClientStalls, ClientReads
<1> QED
  BY <1>1, <1>2, <1>3, <1>4, <1>5 DEF Spared

LEMMA SparedKeeps ==
  ASSUME NEW d \in Connection, Local(d), Spared(d), server' = server, request' = request
  PROVE  Local(d)'
BY DEF Local, Spared

-----------------------------------------------------------------------------
(* A handler's step, for the call it is of *)

LEMMA HandlerWires ==
  ASSUME TunnelTypeOK, NEW c \in Connection, Local(c), Handler(c)
  PROVE  Wired(phase'[c], request[c].kind, wire'[c])
<1> DEFINE W == Wired(phase'[c], request[c].kind, wire'[c])
<1>1. Wired(phase[c], request[c].kind, wire[c])
  BY DEF Local
<1>2. /\ phase \in [Connection -> Phase] /\ DOMAIN wire = Connection
      /\ \A d \in Connection : DOMAIN wire[d] = Side
  BY DEF TunnelTypeOK
<1>3. CASE Call(c) \/ StartCheckCall(c) \/ Count(c) \/ ReadStartup(c) \/ Greet(c) \/ Finish(c)
           \/ UpgradeFails(c)
  BY <1>1, <1>2, <1>3 DEF Call, StartCheckCall, Count, ReadStartup, Greet, Finish, UpgradeFails,
                          Steps, Wired, Side
<1>4. CASE Upgrade(c)
  BY <1>1, <1>2, <1>4 DEF Upgrade, Steps, Wired, Side
<1>5. CASE LogsIn(c)
  BY <1>1, <1>2, <1>5 DEF LogsIn, Steps, Wired, Side
<1>6. ASSUME CloseEnds(c), phase'[c] \in {"closing", "ended"} PROVE W
  <2>1. wire'[c] = ClosedEnds(wire[c])
    BY <1>2, <1>6 DEF CloseEnds
  <2> QED
    BY <1>6, <2>1, ClosedEndsClosed DEF Wired
<1>7. CASE StartupFails(c) \/ CheckRefuses(c) \/ CancelFails(c) \/ CancelTaken(c)
           \/ CancelAnswered(c) \/ LoginFails(c) \/ GreetFails(c) \/ HangUp(c)
  BY <1>2, <1>6, <1>7 DEF StartupFails, CheckRefuses, CancelFails, CancelTaken, CancelAnswered,
                          CancelEnds, LoginFails, GreetFails, HangUp, Steps
<1>8. CASE CheckPasses(c)
  <2>1. CASE phase'[c] = "ended"
    BY <1>2, <1>6, <1>8, <2>1 DEF CheckPasses, Steps
  <2>2. CASE phase'[c] # "ended"
    BY <1>1, <1>2, <1>8, <2>2 DEF CheckPasses, Steps, Wired, Side
  <2> QED
    BY <2>1, <2>2
<1>9. CASE EndsByCopier(c) \/ EndsByStop(c) \/ Wakes(c)
  <2>1. wire' = wire /\ (phase' = phase \/ (phase[c] = "relaying" /\ phase'[c] = "hanging"))
    BY <1>2, <1>9 DEF EndsByCopier, EndsByStop, Wakes, EndsWith, Steps
  <2> QED
    BY <1>1, <2>1 DEF Wired
<1>10. CASE PassOn(c)
  BY <1>1, <1>2, <1>10 DEF PassOn, Steps, Wired, Side
<1> QED
  BY <1>3, <1>4, <1>5, <1>7, <1>8, <1>9, <1>10 DEF Handler, Obliged, Answered

LEMMA HandlerTrails ==
  ASSUME TunnelTypeOK, NEW c \in Connection, Local(c), Handler(c)
  PROVE  /\ Trailed(phase'[c], trail'[c])
         /\ trail[c] \in Began => trail'[c] \in Began
         /\ \/ trail'[c] = trail[c]
            \/ \E moment \in Moment : Record(c, moment)
<1>1. Trailed(phase[c], trail[c])
  BY DEF Local
<1>2. phase \in [Connection -> Phase] /\ trail \in [Connection -> Seq(Moment)]
  BY DEF TunnelTypeOK
<1>3. CASE trail' = trail
  <2>1. \/ phase[c] \in Before /\ phase'[c] \in Before
        \/ phase[c] \in Before /\ phase'[c] = "ended"
        \/ phase[c] \in {"relaying", "hanging", "closing"} /\ phase'[c] \in {"relaying", "hanging", "closing"}
    <3>1. ~Greet(c) /\ ~LoginFails(c) /\ ~Finish(c)
      <4>1. ASSUME NEW m \in Moment, Record(c, m) PROVE FALSE
        BY <1>2, <1>3, <4>1, AppendProperties DEF Record
      <4> QED
        BY <4>1 DEF Greet, LoginFails, Finish, Moment
    <3>2. CASE \/ Call(c) \/ StartCheckCall(c) \/ Count(c) \/ Upgrade(c) \/ ReadStartup(c)
               \/ CheckPasses(c) \/ PassOn(c) \/ LogsIn(c)
      BY <1>2, <3>2 DEF Call, StartCheckCall, Count, Upgrade, ReadStartup, CheckPasses, PassOn,
                        LogsIn, Steps, Before
    <3>3. CASE \/ UpgradeFails(c) \/ StartupFails(c) \/ CheckRefuses(c)
               \/ CancelFails(c) \/ CancelTaken(c) \/ CancelAnswered(c) \/ GreetFails(c)
      BY <1>2, <3>3 DEF UpgradeFails, StartupFails, CheckRefuses, CancelFails, CancelTaken,
                        CancelAnswered, CancelEnds, GreetFails, Steps, Before
    <3>4. CASE EndsByCopier(c) \/ EndsByStop(c) \/ Wakes(c) \/ HangUp(c)
      BY <1>2, <3>4 DEF EndsByCopier, EndsByStop, Wakes, EndsWith, HangUp, Steps
    <3> QED
      BY <3>1, <3>2, <3>3, <3>4 DEF Handler, Obliged, Answered
  <2> QED
    BY <1>1, <1>3, <2>1 DEF Trailed, Before
<1>4. CASE trail' # trail
  <2>1. \/ Greet(c) /\ Record(c, "started")
        \/ (LoginFails(c) \/ CheckRefuses(c)) /\ Record(c, "refused")
        \/ Finish(c) /\ Record(c, "ended")
    BY <1>4 DEF Handler, Obliged, Answered, Call, StartCheckCall, Count, Upgrade, UpgradeFails,
       ReadStartup, StartupFails, CheckPasses, CheckRefuses, PassOn, CancelFails, CancelTaken,
       CancelAnswered, CancelEnds, HangUp, LogsIn,
       LoginFails, Greet, GreetFails, EndsByCopier, EndsByStop, EndsWith, Ended, Wakes, Finish, Unrecorded
  <2>2. CASE Greet(c) /\ Record(c, "started")
    <3>1. phase[c] = "greeting" /\ phase'[c] = "relaying" /\ trail'[c] = Append(trail[c], "started")
      BY <1>2, <2>2 DEF Greet, Steps, Record
    <3>2. trail[c] = <<>> /\ trail'[c] = <<"started">>
      BY <1>1, <3>1, Trails DEF Trailed, Before
    <3> QED
      BY <2>2, <3>1, <3>2 DEF Trailed, Before, Moment, Began
  <2>3. CASE (LoginFails(c) \/ CheckRefuses(c)) /\ Record(c, "refused")
    <3>1. /\ phase[c] \in {"login", "checking"} /\ phase'[c] = "ended"
          /\ trail'[c] = Append(trail[c], "refused")
      BY <1>2, <2>3 DEF LoginFails, CheckRefuses, Steps, Record
    <3>2. trail[c] = <<>> /\ trail'[c] = <<"refused">>
      BY <1>1, <3>1, Trails DEF Trailed, Before
    <3> QED
      BY <2>3, <3>1, <3>2, Trails DEF Trailed, Before, Moment
  <2>4. CASE Finish(c) /\ Record(c, "ended")
    <3>1. phase[c] = "closing" /\ phase'[c] = "ended" /\ trail'[c] = Append(trail[c], "ended")
      BY <1>2, <2>4 DEF Finish, Steps, Record
    <3>2. trail[c] = <<"started">> /\ trail'[c] = <<"started", "ended">>
      BY <1>1, <3>1, Trails DEF Trailed
    <3> QED
      BY <2>4, <3>1, <3>2 DEF Trailed, Before, Moment, Began
  <2> QED
    BY <2>1, <2>2, <2>3, <2>4
<1> QED
  BY <1>3, <1>4

LEMMA HandlerShuts ==
  ASSUME TunnelTypeOK, NEW c \in Connection, Local(c), Handler(c)
  PROVE  /\ Shut(phase'[c], server)
         /\ c \in live' <=> phase'[c] \in {"relaying", "hanging", "closing"}
<1>1. phase \in [Connection -> Phase]
  BY DEF TunnelTypeOK
<1>2. Shut(phase[c], server) /\ (c \in live <=> phase[c] \in {"relaying", "hanging", "closing"})
  BY DEF Local
<1>3. server \in {"serving", "draining", "stopping"}
  BY StepOfOne DEF Running
<1>4. Shut(phase'[c], server)
  <2>1. phase'[c] # "cut"
    BY <1>1, <1>2, <1>3 DEF Handler, Obliged, Answered, Call, StartCheckCall, Count, Upgrade,
       UpgradeFails, ReadStartup, StartupFails, CheckPasses, CheckRefuses, PassOn, CancelFails, CancelTaken,
       CancelAnswered, CancelEnds, HangUp,
       LogsIn, LoginFails, Greet, GreetFails, EndsByCopier, EndsByStop, EndsWith, Ended, Wakes, Finish,
       Steps, Shut
  <2>2. server = "stopping" => phase'[c] \notin {"called", "counted"}
    BY <1>1, <1>2, <1>3 DEF Handler, Obliged, Answered, Call, StartCheckCall, Count, Upgrade,
       UpgradeFails, ReadStartup, StartupFails, CheckPasses, CheckRefuses, PassOn, CancelFails, CancelTaken,
       CancelAnswered, CancelEnds, HangUp,
       LogsIn, LoginFails, Greet, GreetFails, EndsByCopier, EndsByStop, EndsWith, Ended, Wakes, Finish,
       Steps, Shut
  <2> QED
    BY <1>3, <2>1, <2>2 DEF Shut
<1>5. c \in live' <=> phase'[c] \in {"relaying", "hanging", "closing"}
  BY <1>1, <1>2 DEF Handler, Obliged, Answered, Call, StartCheckCall, Count, Upgrade,
     UpgradeFails, ReadStartup, StartupFails, CheckPasses, CheckRefuses, PassOn, CancelFails, CancelTaken,
       CancelAnswered, CancelEnds, HangUp,
     LogsIn, LoginFails, Greet, GreetFails, EndsByCopier, EndsByStop, EndsWith, Ended, Wakes, Finish,
     Steps
<1> QED
  BY <1>4, <1>5

LEMMA HandlerRelays ==
  ASSUME TunnelTypeOK, NEW c \in Connection, Local(c), Handler(c)
  PROVE  Relayed(phase'[c], wire'[c], relay'[c])
<1>1. Relayed(phase[c], wire[c], relay[c]) /\ Wired(phase[c], request[c].kind, wire[c])
  BY DEF Local
<1>2. phase \in [Connection -> Phase] /\ DOMAIN relay = Connection
  BY DEF TunnelTypeOK
<1>3. CASE Greet(c)
  <2> DEFINE y == [NoRelay EXCEPT !.copier = [s \in Side |-> "reading"], !.wake = FirstWake]
  <2>1. relay'[c] = y
    BY <1>2, <1>3 DEF Greet
  <2>2. y.done = <<>> /\ \A s \in Side : y.copier[s] = "reading"
    BY DEF NoRelay
  <2>3. y \in RelayRecord
    BY NoRelayType, Limits DEF RelayRecord
  <2>4. Len(<<>>) = 0
    OBVIOUS
  <2> HIDE DEF y
  <2> QED
    BY <2>1, <2>2, <2>3, <2>4 DEF Relayed, Reported
<1>4. CASE EndsByCopier(c)
  <2> DEFINE y == relay[c]
             z == Ended(y, Head(y.done), Tail(y.done))
  <2>1. relay'[c] = z /\ y.done # <<>> /\ phase'[c] = "hanging"
    BY <1>2, <1>4 DEF EndsByCopier, Steps
  <2>2. y \in RelayRecord /\ Reported(y)
    BY <1>1 DEF Relayed
  <2>3. y.done \in Seq(Side)
    BY <2>2 DEF RelayRecord
  <2>4. Head(y.done) \in Side /\ Tail(y.done) \in Seq(Side) /\ Len(Tail(y.done)) = Len(y.done) - 1
    BY <2>1, <2>3, HeadTailProperties
  <2>5. Len(y.done) \in Nat \ {0}
    BY <2>1, <2>3, EmptySeq
  <2>6. Head(y.done) \in Reason
    BY <2>4 DEF Reason, Side
  <2>7. z \in RelayRecord /\ z.done = Tail(y.done) /\ z.copier = y.copier
    BY <2>2, <2>4, <2>6, EndedType
  <2> HIDE DEF z
  <2>8. Reported(z)
    BY <2>2, <2>4, <2>5, <2>7 DEF Reported
  <2> QED
    BY <2>1, <2>7, <2>8 DEF Relayed
<1>5. ASSUME NEW reason \in Reason, EndsWith(c, reason)
      PROVE  Relayed(phase'[c], wire'[c], relay'[c])
  <2> DEFINE y == relay[c]
             z == Ended(y, reason, y.done)
  <2>1. relay'[c] = z /\ phase'[c] = "hanging"
    BY <1>2, <1>5 DEF EndsWith, Steps
  <2>2. y \in RelayRecord /\ Reported(y)
    BY <1>1 DEF Relayed
  <2>3. z \in RelayRecord /\ z.done = y.done /\ z.copier = y.copier
    <3>1. y.done \in Seq(Side)
      BY <2>2 DEF RelayRecord
    <3> QED
      BY <2>2, <3>1, EndedType
  <2>4. Reported(z)
    BY <2>2, <2>3 DEF Reported
  <2> HIDE DEF z
  <2> QED
    BY <2>1, <2>3, <2>4 DEF Relayed
<1>6. CASE EndsByStop(c)
  BY <1>5, <1>6 DEF EndsByStop, Reason
<1>7. CASE Wakes(c)
  <2>1. CASE \E reason \in Reason : EndsWith(c, reason)
    BY <1>5, <2>1
  <2>2. CASE /\ relay' = [relay EXCEPT ![c].wake = NextWake(relay[c])]
             /\ phase' = phase /\ wire' = wire
    <3> DEFINE y == relay[c]
               z == [y EXCEPT !.wake = NextWake(y)]
    <3>1. relay'[c] = z
      BY <1>2, <2>2
    <3>2. y \in RelayRecord
      BY <1>1 DEF Relayed
    <3>3. NextWake(y) \in 0 .. FirstWake
      <4>1. y.idle \in 0 .. IdleLimit /\ y.age \in 0 .. MaxSession
        BY <3>2 DEF RelayRecord
      <4> QED
        BY <4>1, Limits DEF NextWake
    <3>4. z \in RelayRecord /\ z.done = y.done /\ z.copier = y.copier
      BY <3>2, <3>3 DEF RelayRecord
    <3> HIDE DEF z
    <3> QED
      BY <1>1, <2>2, <3>1, <3>4 DEF Relayed, Reported
  <2> QED
    BY <1>7, <2>1, <2>2 DEF Wakes, Reason, ExpiredReason
<1>8. CASE ~(Greet(c) \/ EndsByCopier(c) \/ EndsByStop(c) \/ Wakes(c))
  <2>1. relay' = relay
    BY <1>8 DEF Handler, Obliged, Answered, Call, StartCheckCall, Count, Upgrade, UpgradeFails,
       ReadStartup, StartupFails, CheckPasses, CheckRefuses, PassOn, CancelFails, CancelTaken,
       CancelAnswered, CancelEnds, HangUp, LogsIn,
       LoginFails, GreetFails, Finish
  <2>2. phase'[c] # "relaying"
    BY <1>2, <1>8 DEF Handler, Obliged, Answered, Call, StartCheckCall, Count, Upgrade,
       UpgradeFails, ReadStartup, StartupFails, CheckPasses, CheckRefuses, PassOn, CancelFails, CancelTaken,
       CancelAnswered, CancelEnds, HangUp,
       LogsIn, LoginFails, GreetFails, Finish, Steps
  <2> QED
    BY <1>1, <2>1, <2>2 DEF Relayed
<1> QED
  BY <1>3, <1>4, <1>6, <1>7, <1>8

-----------------------------------------------------------------------------
(* A step of a copier or of a peer, for the call it is of *)

LEMMA WireKeeps ==
  ASSUME TunnelTypeOK, NEW c \in Connection, Local(c), Wire(c)
  PROVE  Local(c)' /\ phase' = phase /\ trail' = trail /\ live' = live
<1>1. PICK s \in Side : \/ CopierReads(c, s) \/ CopierWrites(c, s) \/ CopierEnds(c, s)
                       \/ PeerCloses(c, s) \/ ClientStalls(c) \/ ClientReads(c)
  BY DEF Wire, Side
<1>2. /\ server' = server /\ request' = request /\ phase' = phase /\ trail' = trail
      /\ live' = live
  BY <1>1 DEF CopierReads, CopierWrites, CopierEnds, PeerCloses, ClientStalls, ClientReads, Unrecorded
<1>3. /\ DOMAIN relay = Connection /\ DOMAIN wire = Connection
      /\ wire[c] \in [Side -> {"none", "open", "stalled", "gone", "closed"}]
  BY DEF TunnelTypeOK
<1>4. Wired(phase[c], request[c].kind, wire[c]) /\ Relayed(phase[c], wire[c], relay[c])
  BY DEF Local
<1> DEFINE y == relay[c]
<1>5. y \in RelayRecord /\ Reported(y)
  BY <1>4 DEF Relayed
<1>6. Wired(phase[c], request[c].kind, wire'[c])
  <2>1. CASE PeerCloses(c, s) \/ ClientStalls(c) \/ ClientReads(c)
    BY <1>3, <1>4, <2>1 DEF PeerCloses, ClientStalls, ClientReads, Wired, Side
  <2> QED
    BY <1>1, <1>4, <2>1 DEF CopierReads, CopierWrites, CopierEnds
<1>7. Relayed(phase[c], wire'[c], relay'[c])
  <2>1. ASSUME NEW next \in {"reading", "writing"}, NEW idle \in 0 .. IdleLimit, wire' = wire,
               relay'[c] = [y EXCEPT !.copier = [y.copier EXCEPT ![s] = next], !.idle = idle],
               y.copier[s] # "done"
        PROVE  Relayed(phase[c], wire'[c], relay'[c])
    <3> DEFINE z == [y EXCEPT !.copier = [y.copier EXCEPT ![s] = next], !.idle = idle]
    <3>1. z \in RelayRecord /\ z.done = y.done
      BY <1>5 DEF RelayRecord
    <3>2. \A t \in Side : z.copier[t] # "done" <=> y.copier[t] # "done"
      BY <1>5, <2>1 DEF RelayRecord
    <3>3. Reported(z)
      BY <1>5, <3>1, <3>2 DEF Reported
    <3> HIDE DEF z
    <3> QED
      BY <1>4, <2>1, <3>1, <3>3 DEF Relayed, z
  <2>2. CASE CopierReads(c, s)
    <3>1. /\ relay'[c] = [y EXCEPT !.copier = [y.copier EXCEPT ![s] = "writing"], !.idle = 0]
          /\ y.copier[s] # "done" /\ wire' = wire
      BY <1>3, <2>2 DEF CopierReads
    <3> QED
      BY <2>1, <3>1, Limits
  <2>3. CASE CopierWrites(c, s)
    <3>1. /\ relay'[c] = [y EXCEPT !.copier = [y.copier EXCEPT ![s] = "reading"], !.idle = y.idle]
          /\ y.copier[s] # "done" /\ wire' = wire
      BY <1>3, <1>5, <2>3 DEF CopierWrites, RelayRecord
    <3>2. y.idle \in 0 .. IdleLimit
      BY <1>5 DEF RelayRecord
    <3> QED
      BY <2>1, <3>1, <3>2
  <2>4. CASE CopierEnds(c, s)
    <3> DEFINE z == [y EXCEPT !.copier = [y.copier EXCEPT ![s] = "done"],
                              !.done = Append(y.done, s)]
    <3>1. relay'[c] = z /\ wire' = wire /\ y.copier[s] # "done"
      BY <1>3, <1>5, <2>4 DEF CopierEnds, RelayRecord
    <3>2. y.done \in Seq(Side) /\ y.copier \in [Side -> {"off", "reading", "writing", "done"}]
      BY <1>5 DEF RelayRecord
    <3>3. Append(y.done, s) \in Seq(Side) /\ Len(Append(y.done, s)) = Len(y.done) + 1
      BY <3>2, AppendProperties
    <3>4. z \in RelayRecord /\ z.done = Append(y.done, s)
      BY <1>5, <3>2, <3>3 DEF RelayRecord
    <3>5. /\ z.copier[s] = "done"
          /\ \A t \in Side \ {s} : z.copier[t] = y.copier[t]
      BY <1>5, <3>2 DEF RelayRecord
    <3>6. Reported(z)
      <4>1. Len(y.done) \in Nat /\ Len(y.done) <= 1
        BY <1>5, <3>1, <3>2, LenProperties DEF Reported
      <4>2. ASSUME NEW t \in Side, z.copier[t] # "done" PROVE Len(y.done) = 0
        <5>1. t # s /\ y.copier[t] # "done"
          BY <3>5, <4>2
        <5>2. \A r \in Side : y.copier[r] # "done"
          BY <3>1, <5>1 DEF Side
        <5> QED
          BY <1>5, <5>2 DEF Reported
      <4> HIDE DEF z
      <4> QED
        BY <3>3, <3>4, <3>5, <4>1, <4>2 DEF Reported
    <3>7. phase[c] = "relaying" => \E t \in Side : wire[c][t] = "gone"
      <4>1. \E t \in Side : wire[c][t] \in {"gone", "closed"}
        BY <2>4 DEF CopierEnds, OtherSide, Side
      <4>2. phase[c] = "relaying" => \A t \in Side : wire[c][t] # "closed"
        <5>1. phase[c] = "relaying" => /\ wire[c]["client"] \in {"open", "stalled", "gone"}
                                       /\ wire[c]["database"] \in {"open", "gone"}
          BY <1>4 DEF Wired
        <5> QED
          BY <5>1 DEF Side
      <4> QED
        BY <4>1, <4>2
    <3> HIDE DEF z
    <3> QED
      BY <3>1, <3>4, <3>6, <3>7 DEF Relayed
  <2>5. CASE PeerCloses(c, s) \/ ClientStalls(c) \/ ClientReads(c)
    <3>1. relay' = relay /\ \A t \in Side : wire[c][t] = "gone" => wire'[c][t] = "gone"
      BY <1>3, <2>5 DEF PeerCloses, ClientStalls, ClientReads
    <3> QED
      BY <1>4, <3>1 DEF Relayed
  <2> QED
    BY <1>1, <2>2, <2>3, <2>4, <2>5
<1> QED
  BY <1>2, <1>6, <1>7 DEF Local

-----------------------------------------------------------------------------
(* The steps that touch every call *)

LEMMA TickKeeps ==
  ASSUME TunnelTypeOK, NEW c \in Connection, Local(c), Tick
  PROVE  Local(c)'
<1>1. /\ server' = server /\ request' = request /\ phase' = phase /\ wire' = wire
      /\ trail' = trail /\ live' = live
  BY DEF Tick, Unrecorded
<1>2. relay'[c] = Ticked(relay[c]) \/ relay'[c] = relay[c]
  BY DEF Tick
<1>3. Relayed(phase[c], wire[c], relay[c])
  BY DEF Local
<1>4. Relayed(phase[c], wire[c], relay'[c])
  <2>1. relay[c] \in RelayRecord
    BY <1>3 DEF Relayed
  <2>2. /\ relay'[c] \in RelayRecord
        /\ relay'[c].copier = relay[c].copier /\ relay'[c].done = relay[c].done
    BY <1>2, <2>1, TickedType
  <2> QED
    BY <1>3, <2>2 DEF Relayed, Reported
<1> QED
  BY <1>1, <1>4 DEF Local

LEMMA ServerKeeps ==
  ASSUME TunnelTypeOK, NEW c \in Connection, Local(c), Terminate \/ Drained
  PROVE  Local(c)'
<1>1. /\ request' = request /\ phase' = phase /\ wire' = wire /\ relay' = relay
      /\ trail' = trail /\ live' = live
  BY DEF Terminate, Drained
<1>2. Shut(phase[c], server)
  BY DEF Local
<1>3. Shut(phase[c], server')
  BY <1>2 DEF Terminate, Drained, Answering, Shut
<1> QED
  BY <1>1, <1>3 DEF Local

LEMMA ExitKeeps ==
  ASSUME TunnelTypeOK, NEW c \in Connection, Local(c), Stop \/ DrainFails
  PROVE  Local(c)'
<1>1. PICK end \in {"stopped", "failed"} :
        /\ Exit(end) /\ Running
        /\ end = "stopped" => phase[c] \in {"none", "ended"}
  BY DEF Stop, DrainFails, Running
<1>2. /\ server' = end /\ request' = request /\ trail' = trail /\ live' = {}
      /\ phase'[c] = IF phase[c] \in {"none", "ended"} THEN phase[c] ELSE "cut"
      /\ wire'[c] = ClosedEnds(wire[c]) /\ relay'[c] = NoRelay
  BY <1>1 DEF Exit
<1>3. /\ Wired(phase[c], request[c].kind, wire[c]) /\ Trailed(phase[c], trail[c])
      /\ Shut(phase[c], server)
  BY DEF Local
<1>4. phase'[c] \in {"none", "ended", "cut"} /\ (phase'[c] # "cut" => phase'[c] = phase[c])
  BY <1>2
<1>5. Wired(phase'[c], request'[c].kind, wire'[c])
  <2>1. CASE phase'[c] = "none"
    <3>1. wire[c]["client"] = "none" /\ wire[c]["database"] = "none"
      BY <1>3, <1>4, <2>1 DEF Wired
    <3>2. wire'[c]["client"] = "none" /\ wire'[c]["database"] = "none"
      BY <1>2, <3>1 DEF ClosedEnds, Side
    <3> QED
      BY <2>1, <3>2 DEF Wired
  <2>2. CASE phase'[c] \in {"ended", "cut"}
    BY <1>2, <2>2, ClosedEndsClosed DEF Wired
  <2> QED
    BY <1>4, <2>1, <2>2
<1>6. Relayed(phase'[c], wire'[c], relay'[c])
  BY <1>2, <1>4, NoRelayType DEF Relayed
<1>7. Trailed(phase'[c], trail'[c])
  BY <1>2, <1>3, <1>4 DEF Trailed, Before
<1>8. Shut(phase'[c], server')
  BY <1>1, <1>2, <1>4 DEF Shut
<1>9. ~(c \in live') /\ ~(phase'[c] \in {"relaying", "hanging", "closing"})
  BY <1>2, <1>4
<1> QED
  BY <1>5, <1>6, <1>7, <1>8, <1>9 DEF Local

LEMMA LocalStep ==
  ASSUME TunnelTypeOK, \A c \in Connection : Local(c), [TunnelNext]_tunnelVars,
         NEW d \in Connection
  PROVE  Local(d)'
<1>1. ASSUME NEW c \in Connection, Handler(c) \/ Wire(c), d # c PROVE Local(d)'
  BY <1>1, StepOfOne, OthersAreSpared, SparedKeeps
<1>2. CASE Handler(d)
  BY <1>2, StepOfOne, HandlerWires, HandlerTrails, HandlerShuts, HandlerRelays DEF Local
<1>3. CASE Wire(d)
  BY <1>3, WireKeeps
<1>4. CASE Tick
  BY <1>4, TickKeeps
<1>5. CASE EventDone \/ UNCHANGED tunnelVars
  BY <1>5 DEF EventDone, tunnelVars, Local
<1>6. CASE Terminate \/ Drained
  BY <1>6, ServerKeeps
<1>7. CASE Stop \/ DrainFails
  BY <1>7, ExitKeeps
<1> QED
  BY <1>1, <1>2, <1>3, <1>4, <1>5, <1>6, <1>7 DEF TunnelNext, Handler, Wire

-----------------------------------------------------------------------------
(* Types *)

(* An end that opens or goes, or both that are closed, keep wire's type. *)
LEMMA WireType ==
  ASSUME TunnelTypeOK, NEW c \in Connection,
         \/ CloseEnds(c)
         \/ \E s \in Side, to \in {"open", "stalled", "gone"} : wire' = [wire EXCEPT ![c][s] = to]
  PROVE  wire' \in [Connection -> [Side -> {"none", "open", "stalled", "gone", "closed"}]]
<1>1. wire \in [Connection -> [Side -> {"none", "open", "stalled", "gone", "closed"}]]
  BY DEF TunnelTypeOK
<1>2. CASE CloseEnds(c)
  <2>1. ClosedEnds(wire[c]) \in [Side -> {"none", "open", "stalled", "gone", "closed"}]
    BY DEF ClosedEnds
  <2> QED
    BY <1>1, <1>2, <2>1 DEF CloseEnds
<1>3. ASSUME NEW s \in Side, NEW to \in {"open", "stalled", "gone"}, wire' = [wire EXCEPT ![c][s] = to]
      PROVE  wire' \in [Connection -> [Side -> {"none", "open", "stalled", "gone", "closed"}]]
  <2>1. [wire[c] EXCEPT ![s] = to] \in [Side -> {"none", "open", "stalled", "gone", "closed"}]
    BY <1>1
  <2> QED
    BY <1>1, <1>3, <2>1
<1> QED
  BY <1>2, <1>3

LEMMA TunnelTypeStep ==
  ASSUME TunnelTypeOK, \A c \in Connection : Local(c), \A c \in Connection : Local(c)',
         [TunnelNext]_tunnelVars
  PROVE  TunnelTypeOK'
<1>1. \A c \in Connection : relay'[c] \in RelayRecord /\ Len(relay'[c].done) <= 2
  BY DEF Local, Relayed, Reported
<1>2. ASSUME NEW c \in Connection, Handler(c) PROVE TunnelTypeOK'
  <2>1. server' = server /\ request' = request
    BY <1>2, StepOfOne
  <2>2. phase' \in [Connection -> Phase]
    BY <1>2 DEF TunnelTypeOK, Handler, Obliged, Answered, Call, StartCheckCall, Count, Upgrade,
       UpgradeFails, ReadStartup, StartupFails, CheckPasses, CheckRefuses, PassOn, CancelFails, CancelTaken,
       CancelAnswered, CancelEnds, HangUp,
       LogsIn, LoginFails, Greet, GreetFails, EndsByCopier, EndsByStop, EndsWith, Ended, Wakes, Finish,
       Steps, Phase
  <2>3. wire' \in [Connection -> [Side -> {"none", "open", "stalled", "gone", "closed"}]]
    <3>1. \/ wire' = wire \/ CloseEnds(c)
          \/ \E s \in Side : wire' = [wire EXCEPT ![c][s] = "open"]
      BY <1>2 DEF Handler, Obliged, Answered, Call, StartCheckCall, Count, Upgrade,
         UpgradeFails, ReadStartup, StartupFails, CheckPasses, CheckRefuses, PassOn, CancelFails, CancelTaken,
       CancelAnswered, CancelEnds, HangUp,
         LogsIn, LoginFails, Greet, GreetFails, EndsByCopier, EndsByStop, EndsWith, Ended, Wakes, Finish,
         Side
    <3> QED
      BY <3>1, WireType DEF TunnelTypeOK
  <2>4. DOMAIN relay' = Connection /\ relay' = [d \in DOMAIN relay' |-> relay'[d]]
    BY <1>2 DEF TunnelTypeOK, Handler, Obliged, Answered, Call, StartCheckCall, Count, Upgrade,
       UpgradeFails, ReadStartup, StartupFails, CheckPasses, CheckRefuses, PassOn, CancelFails, CancelTaken,
       CancelAnswered, CancelEnds, HangUp,
       LogsIn, LoginFails, Greet, GreetFails, EndsByCopier, EndsByStop, EndsWith, Ended, Wakes, Finish
  <2>5. live' \in SUBSET Connection /\ cancelled' \in SUBSET (Connection \X Connection)
    BY <1>2 DEF TunnelTypeOK, Handler, Obliged, Answered, Call, StartCheckCall, Count, Upgrade,
       UpgradeFails, ReadStartup, StartupFails, CheckPasses, CheckRefuses, PassOn, CancelFails, CancelTaken,
       CancelAnswered, CancelEnds, HangUp,
       LogsIn, LoginFails, Greet, GreetFails, EndsByCopier, EndsByStop, EndsWith, Ended, Wakes, Finish,
       Request
  <2>6. /\ trail' \in [Connection -> Seq(Moment)]
        /\ pending' \in SUBSET (Connection \X Moment)
    <3>1. \/ Unrecorded
          \/ \E m \in Moment : Record(c, m)
      BY <1>2 DEF Handler, Obliged, Answered, Call, StartCheckCall, Count, Upgrade,
         UpgradeFails, ReadStartup, StartupFails, CheckPasses, CheckRefuses, PassOn, CancelFails, CancelTaken,
       CancelAnswered, CancelEnds, HangUp,
         LogsIn, LoginFails, Greet, GreetFails, EndsByCopier, EndsByStop, EndsWith, Ended, Wakes, Finish,
         Moment
    <3>2. ASSUME NEW m \in Moment, Record(c, m)
          PROVE  /\ trail' \in [Connection -> Seq(Moment)]
                 /\ pending' \in SUBSET (Connection \X Moment)
      <4>1. Append(trail[c], m) \in Seq(Moment)
        BY AppendProperties DEF TunnelTypeOK
      <4> QED
        BY <3>2, <4>1 DEF TunnelTypeOK, Record
    <3> QED
      BY <3>1, <3>2 DEF TunnelTypeOK, Unrecorded
  <2> QED
    BY <1>1, <2>1, <2>2, <2>3, <2>4, <2>5, <2>6 DEF TunnelTypeOK, RelayRecord
<1>3. ASSUME NEW c \in Connection, Wire(c) PROVE TunnelTypeOK'
  <2>1. /\ server' = server /\ request' = request /\ phase' = phase
        /\ trail' = trail /\ live' = live
    BY <1>3, StepOfOne, WireKeeps
  <2>2. pending' = pending /\ cancelled' = cancelled
    BY <1>3 DEF Wire, CopierReads, CopierWrites, CopierEnds, PeerCloses, ClientStalls, ClientReads, Unrecorded
  <2>3. wire' \in [Connection -> [Side -> {"none", "open", "stalled", "gone", "closed"}]]
    <3>1. \/ wire' = wire
          \/ \E s \in Side, to \in {"open", "stalled", "gone"} : wire' = [wire EXCEPT ![c][s] = to]
      BY <1>3 DEF Side, Wire, CopierReads, CopierWrites, CopierEnds, PeerCloses, ClientStalls, ClientReads
    <3> QED
      BY <3>1, WireType DEF TunnelTypeOK
  <2>4. DOMAIN relay' = Connection /\ relay' = [d \in DOMAIN relay' |-> relay'[d]]
    BY <1>3 DEF TunnelTypeOK, Wire, CopierReads, CopierWrites, CopierEnds, PeerCloses, ClientStalls, ClientReads
  <2> QED
    BY <1>1, <2>1, <2>2, <2>3, <2>4 DEF TunnelTypeOK, RelayRecord
<1>4. CASE Tick
  <2>1. DOMAIN relay' = Connection /\ relay' = [d \in DOMAIN relay' |-> relay'[d]]
    BY <1>4 DEF Tick
  <2> QED
    BY <1>1, <1>4, <2>1 DEF TunnelTypeOK, RelayRecord, Tick, Unrecorded
<1>5. CASE EventDone \/ Terminate \/ Drained \/ UNCHANGED tunnelVars
  BY <1>5 DEF TunnelTypeOK, EventDone, Terminate, Drained, tunnelVars
<1>6. CASE Stop \/ DrainFails
  <2>1. PICK end \in {"stopped", "failed"} : Exit(end)
    BY <1>6 DEF Stop, DrainFails
  <2>2. phase' \in [Connection -> Phase]
    BY <2>1 DEF TunnelTypeOK, Exit, Phase
  <2>3. wire' \in [Connection -> [Side -> {"none", "open", "stalled", "gone", "closed"}]]
    BY <2>1 DEF TunnelTypeOK, Exit, ClosedEnds
  <2>4. DOMAIN relay' = Connection /\ relay' = [d \in DOMAIN relay' |-> relay'[d]]
    BY <2>1 DEF Exit
  <2> QED
    BY <1>1, <2>1, <2>2, <2>3, <2>4 DEF TunnelTypeOK, RelayRecord, Exit
<1> QED
  BY <1>2, <1>3, <1>4, <1>5, <1>6 DEF TunnelNext, Handler, Wire

-----------------------------------------------------------------------------
(* Cancels *)

(* What a cancel was let through for stays true, as trails only grow. *)
LEMMA BegunStaysBegun ==
  ASSUME TunnelTypeOK, \A c \in Connection : Local(c), [TunnelNext]_tunnelVars,
         NEW d \in Connection, trail[d] \in Began
  PROVE  trail'[d] \in Began
<1>1. ASSUME NEW c \in Connection, Handler(c) \/ Wire(c) PROVE trail'[d] \in Began
  <2>1. CASE d # c
    BY <1>1, <2>1, OthersAreSpared DEF Spared
  <2>2. CASE d = c
    BY <1>1, <2>2, HandlerTrails, WireKeeps
  <2> QED
    BY <2>1, <2>2
<1>2. ASSUME trail' = trail PROVE trail'[d] \in Began
  BY <1>2
<1>3. CASE Tick \/ EventDone \/ Terminate \/ Drained \/ Stop \/ DrainFails \/ UNCHANGED tunnelVars
  BY <1>2, <1>3 DEF Tick, EventDone, Terminate, Drained, Stop, DrainFails, Exit, Unrecorded,
                    tunnelVars
<1> QED
  BY <1>1, <1>3 DEF TunnelNext, Handler, Wire

LEMMA OnlyCancelsAreAdded ==
  ASSUME TunnelTypeOK, [TunnelNext]_tunnelVars
  PROVE  /\ request' = request
         /\ \A c \in Connection : phase'[c] = "cancelling" =>
              \/ phase[c] = "cancelling"
              \/ request[c].kind = "cancel" /\ CancelAllowed(c)
         /\ \A pair \in cancelled' :
              \/ pair \in cancelled
              \/ \E c \in Connection :
                   phase[c] = "cancelling" /\ pair = <<c, request[c].target>>
<1>1. ASSUME NEW c \in Connection, Handler(c)
      PROVE  /\ phase'[c] = "cancelling" =>
                  \/ phase[c] = "cancelling"
                  \/ request[c].kind = "cancel" /\ CancelAllowed(c)
             /\ \/ cancelled' = cancelled
                \/ /\ phase[c] = "cancelling"
                   /\ cancelled' = cancelled \cup {<<c, request[c].target>>}
  BY <1>1 DEF TunnelTypeOK, Handler, Obliged, Answered, Call, StartCheckCall, Count, Upgrade,
     UpgradeFails, ReadStartup, StartupFails, CheckPasses, CheckRefuses, PassOn, CancelFails, CancelTaken,
       CancelAnswered, CancelEnds, HangUp,
     LogsIn, LoginFails, Greet, GreetFails, EndsByCopier, EndsByStop, EndsWith, Ended, Wakes, Finish,
     Steps
<1>2. ASSUME NEW c \in Connection, Handler(c)
      PROVE  /\ request' = request
             /\ \A d \in Connection \ {c} : phase'[d] = phase[d]
  BY <1>2, StepOfOne, OthersAreSpared DEF Spared
<1>3. ASSUME NEW c \in Connection, Wire(c)
      PROVE  request' = request /\ phase' = phase /\ cancelled' = cancelled
  BY <1>3 DEF Wire, CopierReads, CopierWrites, CopierEnds, PeerCloses, ClientStalls, ClientReads
<1>4. CASE Tick \/ EventDone \/ Terminate \/ Drained \/ UNCHANGED tunnelVars
  BY <1>4 DEF Tick, EventDone, Terminate, Drained, tunnelVars
<1>5. CASE Stop \/ DrainFails
  <2>1. PICK end : Exit(end)
    BY <1>5 DEF Stop, DrainFails
  <2>2. /\ request' = request /\ cancelled' = cancelled
        /\ \A c \in Connection : phase'[c] = "cancelling" => phase[c] = "cancelling"
    BY <2>1 DEF Exit
  <2> QED
    BY <2>2
<1> QED
  BY <1>1, <1>2, <1>3, <1>4, <1>5 DEF TunnelNext, Handler, Wire

LEMMA CancellingStep ==
  ASSUME TunnelInv, [TunnelNext]_tunnelVars
  PROVE  Cancelling'
<1>1. TunnelTypeOK /\ (\A c \in Connection : Local(c)) /\ Cancelling
  BY DEF TunnelInv
<1>2. request' = request
  BY <1>1, OnlyCancelsAreAdded
<1>3. ASSUME NEW c, NEW d \in Connection, MayCancel(c, d) PROVE MayCancel(c, d)'
  BY <1>1, <1>2, <1>3, BegunStaysBegun DEF MayCancel
<1>4. \A c \in Connection : request[c].target \in Connection
  BY <1>1 DEF TunnelTypeOK, Request
<1>5. ASSUME NEW c \in Connection, phase'[c] = "cancelling",
             NEW d \in Connection, d = request[c].target
      PROVE  MayCancel(c, d)'
  <2>1. MayCancel(c, d)
    <3>1. CASE phase[c] = "cancelling"
      BY <1>1, <1>5, <3>1 DEF Cancelling
    <3>2. CASE CancelAllowed(c)
      <4>1. phase[d] \in {"relaying", "hanging", "closing"} /\ Trailed(phase[d], trail[d])
        BY <1>1, <1>5, <3>2 DEF CancelAllowed, Local
      <4>2. trail[d] \in Began
        BY <4>1 DEF Trailed, Began
      <4> QED
        BY <1>5, <3>2, <4>2 DEF CancelAllowed, MayCancel
    <3> QED
      BY <1>1, <1>5, <3>1, <3>2, OnlyCancelsAreAdded
  <2> QED
    BY <1>3, <2>1
<1>6. ASSUME NEW pair \in cancelled', NEW c, NEW d, c = pair[1], d = pair[2]
      PROVE  MayCancel(c, d)'
  <2>1. CASE pair \in cancelled
    <3>1. d \in Connection /\ MayCancel(c, d)
      BY <1>1, <1>6, <2>1 DEF Cancelling, TunnelTypeOK
    <3> QED
      BY <1>3, <3>1
  <2>2. ASSUME NEW x \in Connection, phase[x] = "cancelling", pair = <<x, request[x].target>>
        PROVE  MayCancel(c, d)'
    <3>1. c = x /\ d = request[x].target /\ d \in Connection
      BY <1>4, <1>6, <2>2
    <3>2. MayCancel(c, d)
      BY <1>1, <2>2, <3>1 DEF Cancelling
    <3> QED
      BY <1>3, <3>1, <3>2
  <2> QED
    BY <1>1, <1>6, <2>1, <2>2, OnlyCancelsAreAdded
<1> QED
  BY <1>2, <1>4, <1>5, <1>6 DEF Cancelling, MayCancel

-----------------------------------------------------------------------------
(* The invariant *)

LEMMA SettledStep ==
  ASSUME TunnelInv, [TunnelNext]_tunnelVars
  PROVE  Settled'
<1>1. Settled
  BY DEF TunnelInv
<1>2. ASSUME NEW c \in Connection, Handler(c) \/ Wire(c) PROVE Settled'
  <2>1. server' # "stopped"
    BY <1>2, StepOfOne DEF Running
  <2> QED
    BY <2>1 DEF Settled
<1>3. CASE Stop
  BY <1>3 DEF Stop, Exit, Settled
<1>4. CASE Tick \/ EventDone \/ Terminate \/ Drained \/ DrainFails \/ UNCHANGED tunnelVars
  BY <1>1, <1>4 DEF Tick, EventDone, Terminate, Drained, DrainFails, Exit, Running, Unrecorded,
                    Settled, tunnelVars
<1> QED
  BY <1>2, <1>3, <1>4 DEF TunnelNext, Handler, Wire

LEMMA TunnelInvInit == TunnelInit => TunnelInv
<1> SUFFICES ASSUME TunnelInit PROVE TunnelInv
  OBVIOUS
<1>1. ASSUME NEW c \in Connection PROVE Local(c)
  <2>1. /\ phase[c] = "none" /\ trail[c] = <<>> /\ relay[c] = NoRelay /\ live = {}
        /\ server = "serving" /\ wire[c] = [s \in Side |-> "none"]
    BY DEF TunnelInit
  <2>2. wire[c]["client"] = "none" /\ wire[c]["database"] = "none"
    BY <2>1 DEF Side
  <2>3. NoRelay \in RelayRecord /\ Reported(NoRelay)
    BY NoRelayType
  <2> QED
    BY <2>1, <2>2, <2>3 DEF Local, Wired, Relayed, Trailed, Shut
<1>2. TunnelTypeOK
  <2>1. relay \in [Connection -> RelayRecord]
    BY NoRelayType DEF TunnelInit
  <2>2. \A c \in Connection : Len(relay[c].done) <= 2
    BY <1>1 DEF Local, Relayed, Reported
  <2>3. trail \in [Connection -> Seq(Moment)]
    BY EmptySeq DEF TunnelInit
  <2> QED
    BY <2>1, <2>2, <2>3 DEF TunnelInit, TunnelTypeOK, RelayRecord, Phase
<1>3. Cancelling
  BY DEF TunnelInit, Cancelling
<1>4. Settled
  BY DEF TunnelInit, Settled
<1> QED
  BY <1>1, <1>2, <1>3, <1>4 DEF TunnelInv

LEMMA TunnelInvStep == TunnelInv /\ [TunnelNext]_tunnelVars => TunnelInv'
<1> SUFFICES ASSUME TunnelInv, [TunnelNext]_tunnelVars PROVE TunnelInv'
  OBVIOUS
<1>1. \A c \in Connection : Local(c)'
  BY LocalStep DEF TunnelInv
<1>2. TunnelTypeOK'
  BY <1>1, TunnelTypeStep DEF TunnelInv
<1> QED
  BY <1>1, <1>2, CancellingStep, SettledStep DEF TunnelInv

LEMMA TunnelInvAlways == TunnelSpec => []TunnelInv
BY TunnelInvInit, TunnelInvStep, PTL DEF TunnelSpec

(* A call that ended, whatever way, has both its connections closed, and   *)
(* the cancel keys are those of the sessions under way.                    *)
THEOREM EndedCallsHoldNothing == TunnelSpec => []EndedHoldsNothing
<1>1. TunnelInv => EndedHoldsNothing
  BY DEF TunnelInv, Local, Wired, EndedHoldsNothing
<1> QED
  BY <1>1, TunnelInvAlways, PTL

(* Shutdown returns with every session's end recorded, no call cut off and *)
(* no Event on its way; no call counts itself once it waits.               *)
THEOREM ShutdownForgetsNothing == TunnelSpec => []ShutdownAccountsForAll
<1>1. TunnelInv => ShutdownAccountsForAll
  <2> SUFFICES ASSUME TunnelInv PROVE ShutdownAccountsForAll
    OBVIOUS
  <2>1. ASSUME NEW c \in Connection
        PROVE  /\ server = "stopping" => phase[c] \notin {"called", "counted"}
               /\ server = "stopped" =>
                    /\ phase[c] # "cut"
                    /\ trail[c] \in {<<>>, <<"refused">>, <<"started", "ended">>}
    <3>1. Shut(phase[c], server) /\ Trailed(phase[c], trail[c])
      BY DEF TunnelInv, Local
    <3> QED
      BY <3>1 DEF Shut, Trailed, Before
  <2>2. server = "stopped" => pending = {}
    BY DEF TunnelInv, Settled
  <2> QED
    BY <2>1, <2>2 DEF ShutdownAccountsForAll
<1> QED
  BY <1>1, TunnelInvAlways, PTL

(* A cancel only ever stopped a query of a session that was let in, of the *)
(* same developer on the same Environment.                                 *)
THEOREM CancelsAreOnesOwn == TunnelSpec => []CancelsStayWithTheirDeveloper
<1>1. TunnelInv => CancelsStayWithTheirDeveloper
  <2> SUFFICES ASSUME TunnelInv, NEW pair \in cancelled
               PROVE  /\ trail[pair[2]] # <<>> /\ Head(trail[pair[2]]) = "started"
                      /\ request[pair[2]].login = request[pair[1]].login
                      /\ request[pair[2]].place = request[pair[1]].place
    BY DEF CancelsStayWithTheirDeveloper
  <2>1. MayCancel(pair[1], pair[2])
    BY DEF TunnelInv, Cancelling
  <2> QED
    BY <2>1, Trails DEF MayCancel
<1> QED
  BY <1>1, TunnelInvAlways, PTL

(* A session's end gives its true reason, however the timer, the copiers   *)
(* and the stop race each other to end it.                                 *)
THEOREM ReasonsStayTrue == TunnelSpec => ReasonsAreTrue
<1> DEFINE AllTrue ==
      \A c \in Connection : relay'[c].reason # relay[c].reason /\ phase'[c] = "hanging" =>
        CASE relay'[c].reason = "idle" -> relay[c].idle = IdleLimit
          [] relay'[c].reason = "max" -> relay[c].age = MaxSession
          [] relay'[c].reason = "stop" -> Stopping
          [] OTHER -> \E s \in Side : wire[c][s] = "gone"
<1>1. ASSUME TunnelInv, [TunnelNext]_tunnelVars, NEW c \in Connection,
             relay'[c].reason # relay[c].reason, phase'[c] = "hanging"
      PROVE  LET reason == relay'[c].reason IN
             /\ reason = "idle" => relay[c].idle = IdleLimit
             /\ reason = "max" => relay[c].age = MaxSession
             /\ reason = "stop" => Stopping
             /\ reason \notin {"idle", "max", "stop"} => \E s \in Side : wire[c][s] = "gone"
  <2>1. TunnelTypeOK /\ Local(c) /\ relay[c] \in RelayRecord /\ DOMAIN relay = Connection
    BY <1>1 DEF TunnelInv, Local, Relayed, TunnelTypeOK
  <2>2. EndsByCopier(c) \/ EndsByStop(c) \/ Wakes(c)
    <3>1. ~Tick
      <4>1. ASSUME Tick PROVE relay'[c].reason = relay[c].reason
        BY <2>1, <4>1, TickedType DEF Tick
      <4> QED
        BY <1>1, <4>1
    <3>2. ~Stop /\ ~DrainFails
      BY <1>1 DEF Stop, DrainFails, Exit
    <3>3. relay' # relay
      BY <1>1
    <3>4. PICK d \in Connection : Handler(d) \/ Wire(d)
      BY <1>1, <3>1, <3>2, <3>3
      DEF TunnelNext, Handler, Wire, EventDone, Terminate, Drained, tunnelVars
    <3>5. d = c
      BY <1>1, <2>1, <3>4, OthersAreSpared DEF Spared
    <3>6. ~Wire(c)
      <4>1. ASSUME NEW s \in Side, \/ CopierReads(c, s) \/ CopierWrites(c, s) \/ CopierEnds(c, s)
                                   \/ PeerCloses(c, s) \/ ClientStalls(c) \/ ClientReads(c)
            PROVE  relay'[c].reason = relay[c].reason
        BY <2>1, <4>1 DEF CopierReads, CopierWrites, CopierEnds, PeerCloses, ClientStalls, ClientReads, RelayRecord
      <4> QED
        BY <1>1, <4>1 DEF Wire, Side
    <3>7. ~Greet(c)
      BY <1>1, <2>1 DEF Greet, Steps, TunnelTypeOK
    <3> QED
      BY <3>3, <3>4, <3>5, <3>6, <3>7
      DEF Handler, Obliged, Answered, Call, StartCheckCall, Count, Upgrade, UpgradeFails,
          ReadStartup, StartupFails, CheckPasses, CheckRefuses, PassOn, CancelFails, CancelTaken,
       CancelAnswered, CancelEnds, HangUp, LogsIn,
          LoginFails, GreetFails, Finish
  <2>3. CASE EndsByCopier(c)
    <3>1. /\ phase[c] = "relaying" /\ relay[c].done # <<>>
          /\ relay'[c].reason = Head(relay[c].done)
      BY <2>1, <2>3 DEF EndsByCopier, Ended, Steps, RelayRecord
    <3>2. Head(relay[c].done) \in Side
      <4>1. relay[c].done \in Seq(Side)
        BY <2>1 DEF RelayRecord
      <4> QED
        BY <3>1, <4>1, HeadTailProperties
    <3>3. \E s \in Side : wire[c][s] = "gone"
      BY <2>1, <3>1 DEF Local, Relayed
    <3> QED
      BY <3>1, <3>2, <3>3 DEF Side
  <2>4. CASE EndsByStop(c)
    <3>1. Stopping /\ relay'[c].reason = "stop"
      BY <2>1, <2>4 DEF EndsByStop, EndsWith, Ended, RelayRecord
    <3> QED
      BY <3>1
  <2>5. CASE Wakes(c)
    <3>1. Expired(relay[c]) /\ EndsWith(c, ExpiredReason(relay[c]))
      BY <1>1, <2>5 DEF Wakes
    <3>2. relay'[c].reason = ExpiredReason(relay[c])
      BY <2>1, <3>1 DEF EndsWith, Ended, RelayRecord
    <3>3. CASE relay[c].age = MaxSession
      <4>1. relay'[c].reason = "max"
        BY <3>2, <3>3 DEF ExpiredReason
      <4> QED
        BY <3>3, <4>1
    <3>4. CASE relay[c].age # MaxSession
      <4>1. relay'[c].reason = "idle" /\ relay[c].idle = IdleLimit
        BY <3>1, <3>2, <3>4 DEF ExpiredReason, Expired
      <4> QED
        BY <4>1
    <3> QED
      BY <3>3, <3>4
  <2> QED
    BY <2>2, <2>3, <2>4, <2>5
<1>2. TunnelInv /\ [TunnelNext]_tunnelVars => AllTrue
  BY <1>1
<1> QED
  BY <1>2, TunnelInvAlways, PTL DEF TunnelSpec, ReasonsAreTrue

-----------------------------------------------------------------------------
(* The audit trail *)

(* What SessionAudit sees of a phase. *)
SessionOf(p) ==
  IF p \in {"relaying", "hanging", "closing"} THEN "open"
  ELSE IF p = "ended" THEN "over"
  ELSE IF p = "cut" THEN "cut"
  ELSE "before"

LEMMA AuditMoves ==
  ASSUME TunnelTypeOK, NEW c \in Connection, Handler(c), Local(c),
         NEW from, NEW to, NEW moments,
         SessionOf(phase[c]) = from, SessionOf(phase'[c]) = to,
         trail'[c] = trail[c] \o moments
  PROVE  Audit!Moves(c, from, to, moments)
<1> DEFINE session == [d \in Connection |-> SessionOf(phase[d])]
           next == [d \in Connection |-> SessionOf(phase'[d])]
<1>1. \A d \in Connection \ {c} : phase'[d] = phase[d] /\ trail'[d] = trail[d]
  BY OthersAreSpared DEF Spared
<1>2. next = [session EXCEPT ![c] = to]
  BY <1>1
<1>3. trail' = [trail EXCEPT ![c] = @ \o moments]
  <2>1. DOMAIN trail = Connection /\ DOMAIN trail' = Connection
        /\ trail' = [d \in Connection |-> trail'[d]]
    BY DEF TunnelTypeOK, Handler, Obliged, Answered, Call, StartCheckCall, Count, Upgrade,
       UpgradeFails, ReadStartup, StartupFails, CheckPasses, CheckRefuses, PassOn, CancelFails, CancelTaken,
       CancelAnswered, CancelEnds, HangUp,
       LogsIn, LoginFails, Greet, GreetFails, EndsByCopier, EndsByStop, EndsWith, Ended, Wakes, Finish,
       Record, Unrecorded
  <2> QED
    BY <1>1, <2>1
<1>4. session[c] = from
  OBVIOUS
<1>5. Running /\ server' = server
  BY StepOfOne
<1> QED
  BY <1>2, <1>3, <1>4, <1>5 DEF Audit!Moves, SessionOf, Running

LEMMA HandlerAudits ==
  ASSUME TunnelTypeOK, NEW c \in Connection, Handler(c), Local(c)
  PROVE  [Audit!AuditNext]_Audit!auditVars
<1>1. trail[c] \in Seq(Moment) /\ phase \in [Connection -> Phase]
  BY DEF TunnelTypeOK
<1>2. ASSUME NEW m \in Moment, Record(c, m) PROVE trail'[c] = trail[c] \o <<m>>
  BY <1>1, <1>2, AppendIsConcat DEF TunnelTypeOK, Record
<1>3. trail[c] = trail[c] \o <<>>
  BY <1>1, ConcatEmptySeq
<1>4. CASE Greet(c)
  <2>1. SessionOf(phase[c]) = "before" /\ SessionOf(phase'[c]) = "open"
    BY <1>1, <1>4 DEF Greet, Steps, SessionOf
  <2>2. trail'[c] = trail[c] \o <<"started">>
    BY <1>2, <1>4 DEF Greet, Moment
  <2>3. Audit!Open(c)
    BY <2>1, <2>2, AuditMoves DEF Audit!Open
  <2> QED
    BY <2>3 DEF Audit!AuditNext
<1>5. CASE Finish(c)
  <2>1. SessionOf(phase[c]) = "open" /\ SessionOf(phase'[c]) = "over"
    BY <1>1, <1>5 DEF Finish, Steps, SessionOf
  <2>2. trail'[c] = trail[c] \o <<"ended">>
    BY <1>2, <1>5 DEF Finish, Moment
  <2>3. Audit!Close(c)
    BY <2>1, <2>2, AuditMoves DEF Audit!Close
  <2> QED
    BY <2>3 DEF Audit!AuditNext
<1>6. CASE (LoginFails(c) \/ CheckRefuses(c)) /\ Record(c, "refused")
  <2>1. SessionOf(phase[c]) = "before" /\ SessionOf(phase'[c]) = "over"
    BY <1>1, <1>6 DEF LoginFails, CheckRefuses, Steps, SessionOf
  <2>2. trail'[c] = trail[c] \o <<"refused">>
    BY <1>2, <1>6 DEF Moment
  <2>3. Audit!Refuse(c)
    BY <2>1, <2>2, AuditMoves DEF Audit!Refuse
  <2> QED
    BY <2>3 DEF Audit!AuditNext
<1>7. CASE Unrecorded
  <2>1. CASE SessionOf(phase[c]) = "before" /\ SessionOf(phase'[c]) = "over"
    <3>1. trail'[c] = trail[c] \o <<>>
      BY <1>3, <1>7 DEF Unrecorded
    <3>2. Audit!Leave(c)
      BY <2>1, <3>1, AuditMoves DEF Audit!Leave
    <3> QED
      BY <3>2 DEF Audit!AuditNext
  <2>2. CASE SessionOf(phase[c]) = SessionOf(phase'[c])
    <3>1. \A d \in Connection : SessionOf(phase'[d]) = SessionOf(phase[d])
      BY <2>2, OthersAreSpared DEF Spared
    <3>2. UNCHANGED Audit!auditVars
      BY <1>7, <3>1, StepOfOne DEF Audit!auditVars, Unrecorded, SessionOf, Running
    <3> QED
      BY <3>2
  <2>3. ~Greet(c) /\ ~Finish(c)
    <3>1. ASSUME NEW m \in Moment, Record(c, m) PROVE FALSE
      BY <1>1, <1>7, <3>1, AppendProperties DEF TunnelTypeOK, Record, Unrecorded
    <3> QED
      BY <3>1 DEF Greet, Finish, Moment
  <2>4. \/ SessionOf(phase[c]) = "before" /\ SessionOf(phase'[c]) = "over"
        \/ SessionOf(phase[c]) = SessionOf(phase'[c])
    BY <1>1, <2>3 DEF Handler, Obliged, Answered, Call, StartCheckCall, Count, Upgrade,
       UpgradeFails, ReadStartup, StartupFails, CheckPasses, CheckRefuses, PassOn, CancelFails, CancelTaken,
       CancelAnswered, CancelEnds, HangUp,
       LogsIn, LoginFails, GreetFails, EndsByCopier, EndsByStop, EndsWith, Ended, Wakes,
       Steps, SessionOf
  <2> QED
    BY <2>1, <2>2, <2>4
<1> QED
  BY <1>4, <1>5, <1>6, <1>7
  DEF Handler, Obliged, Answered, Call, StartCheckCall, Count, Upgrade, UpgradeFails,
      ReadStartup, StartupFails, CheckPasses, CheckRefuses, PassOn, CancelFails, CancelTaken,
       CancelAnswered, CancelEnds, HangUp, LogsIn,
      LoginFails, GreetFails, EndsByCopier, EndsByStop, EndsWith, Ended, Wakes

LEMMA TunnelStepAudits == TunnelInv /\ [TunnelNext]_tunnelVars => [Audit!AuditNext]_Audit!auditVars
<1> SUFFICES ASSUME TunnelInv, [TunnelNext]_tunnelVars PROVE [Audit!AuditNext]_Audit!auditVars
  OBVIOUS
<1>1. ASSUME NEW c \in Connection, Handler(c) PROVE [Audit!AuditNext]_Audit!auditVars
  BY <1>1, HandlerAudits DEF TunnelInv
<1>2. ASSUME phase' = phase, trail' = trail, Running' <=> Running
      PROVE  UNCHANGED Audit!auditVars
  BY <1>2 DEF Audit!auditVars
<1>3. ASSUME NEW c \in Connection, Wire(c) PROVE UNCHANGED Audit!auditVars
  BY <1>2, <1>3, WireKeeps, StepOfOne DEF TunnelInv, Running
<1>4. CASE Tick \/ EventDone \/ Terminate \/ Drained \/ UNCHANGED tunnelVars
  BY <1>2, <1>4 DEF Tick, EventDone, Terminate, Drained, Unrecorded, Running, tunnelVars
<1>5. CASE Stop \/ DrainFails
  <2> DEFINE calls == {c \in Connection : phase[c] # "none" /\ SessionOf(phase[c]) = "before"}
  <2>1. /\ trail' = trail /\ Running /\ ~Running'
        /\ \A c \in Connection : phase'[c] = IF phase[c] \in {"none", "ended"} THEN phase[c] ELSE "cut"
    BY <1>5 DEF Stop, DrainFails, Exit, Running
  <2>2. \A c \in Connection : phase[c] # "cut"
    BY <2>1 DEF TunnelInv, Local, Shut, Running
  <2>3. \A c \in Connection : SessionOf(phase'[c]) =
          IF SessionOf(phase[c]) = "open" \/ c \in calls THEN "cut" ELSE SessionOf(phase[c])
    BY <2>1, <2>2 DEF SessionOf
  <2>4. calls \in SUBSET {c \in Connection : SessionOf(phase[c]) = "before"}
    OBVIOUS
  <2> DEFINE session == [c \in Connection |-> SessionOf(phase[c])]
             next == [c \in Connection |-> SessionOf(phase'[c])]
  <2>5. next = [c \in Connection |->
                  IF session[c] = "open" \/ c \in calls THEN "cut" ELSE session[c]]
    BY <2>3
  <2>6. calls \in SUBSET {c \in Connection : session[c] = "before"}
    BY <2>4
  <2> HIDE DEF calls
  <2>7. Audit!ProcessEnds
    BY <2>1, <2>5, <2>6 DEF Audit!ProcessEnds, SessionOf
  <2> QED
    BY <2>7 DEF Audit!AuditNext
<1> QED
  BY <1>1, <1>3, <1>4, <1>5 DEF TunnelNext, Handler, Wire

(* The tunnel's trail is an audit trail: every step of it is a step of     *)
(* SessionAudit or one SessionAudit does not see.                          *)
THEOREM TunnelImplementsAudit == TunnelSpec => ImplementsAudit
<1>1. TunnelInit => Audit!AuditInit
  BY DEF TunnelInit, Running, Audit!AuditInit
<1> QED
  BY <1>1, TunnelInvAlways, TunnelStepAudits, PTL
  DEF TunnelSpec, ImplementsAudit, Audit!AuditSpec
=============================================================================
