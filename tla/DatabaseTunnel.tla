--------------------------- MODULE DatabaseTunnel ---------------------------
(***************************************************************************)
(* The Database tunnel (internal/dbtunnel, cmd/iidp-db-tunnel): the calls  *)
(* developers make, a session's two copying goroutines and its limits,     *)
(* cancel requests, the Events recorded in the background, and the         *)
(* shutdown of the process.                                                *)
(***************************************************************************)
EXTENDS Integers, Sequences

CONSTANTS
  Connection,    \* the calls made to one run of the process
  Login,         \* developers: the GitHub logins their tokens belong to
  Place,         \* Environments of Applications, as the check resolves them
  Requests,      \* the calls each Connection may make
  IdleLimit,     \* the session limits, in ticks of the clock
  MaxSession

\* A "check" call only asks whether a session would be let in.  The others
\* upgrade to a WebSocket, whose first packet starts a session or names, by its
\* key, the session whose query to cancel.
Request == [kind : {"check", "session", "cancel"}, login : Login,
            place : Place, target : Connection]

ASSUME TunnelAssumption ==
  /\ Requests \in [Connection -> SUBSET Request]
  /\ \A c \in Connection : Requests[c] # {}
  /\ IdleLimit \in Nat \ {0}
  /\ MaxSession \in Nat \ {0}

VARIABLES
  server,      \* the process: serving, draining its HTTP server, stopping its
               \* sessions, stopped, or failed
  request,     \* what each Connection asks for
  phase,       \* how far its handler is
  wire,        \* its two network connections
  relay,       \* its session's copiers, timers and end
  live,        \* liveSessions: the sessions whose cancel key is known
  trail,       \* what record() was called with, for each Connection
  pending,     \* the Events being recorded in the background
  cancelled    \* the cancels passed on: who sent it, whose query it names

tunnelVars ==
  <<server, request, phase, wire, relay, live, trail, pending, cancelled>>

-----------------------------------------------------------------------------
Side == {"client", "database"}
Moment == {"started", "ended", "refused"}
Reason == {"none", "client", "database", "idle", "max", "stop"}
Phase == {"none", "called", "counted", "startup", "checking", "login",
          "greeting", "relaying", "hanging", "closing", "cancelling", "passing",
          "ended", "cut"}

OtherSide(s) == IF s = "client" THEN "database" ELSE "client"
Sooner(a, b) == IF a < b THEN a ELSE b
FirstWake == Sooner(IdleLimit, MaxSession)

TunnelTypeOK ==
  /\ server \in {"serving", "draining", "stopping", "stopped", "failed"}
  /\ request \in [Connection -> Request]
  /\ phase \in [Connection -> Phase]
  \* an end is not there, open, open to a peer that reads nothing while every
  \* buffer on the way is full, closed by the peer, or closed by the tunnel
  /\ wire \in [Connection -> [Side -> {"none", "open", "stalled", "gone", "closed"}]]
  /\ relay \in [Connection ->
       [copier : [Side -> {"off", "reading", "writing", "done"}],
        done : Seq(Side), reason : Reason, idle : 0 .. IdleLimit,
        age : 0 .. MaxSession, wake : 0 .. FirstWake]]
  /\ \A c \in Connection : Len(relay[c].done) <= 2
  /\ live \in SUBSET Connection
  /\ trail \in [Connection -> Seq(Moment)]
  /\ pending \in SUBSET (Connection \X Moment)
  /\ cancelled \in SUBSET (Connection \X Connection)

NoRelay == [copier |-> [s \in Side |-> "off"], done |-> <<>>,
            reason |-> "none", idle |-> 0, age |-> 0, wake |-> 0]

TunnelInit ==
  /\ server = "serving"
  /\ request \in {r \in [Connection -> Request] :
                    \A c \in Connection : r[c] \in Requests[c]}
  /\ phase = [c \in Connection |-> "none"]
  /\ wire = [c \in Connection |-> [s \in Side |-> "none"]]
  /\ relay = [c \in Connection |-> NoRelay]
  /\ live = {}
  /\ trail = [c \in Connection |-> <<>>]
  /\ pending = {}
  /\ cancelled = {}

Running == server \in {"serving", "draining", "stopping"}
Stopping == server = "stopping"      \* the context stop has ended

\* A step of c's handler from one phase to another.
Steps(c, from, to) ==
  /\ Running
  /\ phase[c] = from
  /\ phase' = [phase EXCEPT ![c] = to]
  /\ UNCHANGED <<server, request>>

\* record(): the Event is created in the background.
Record(c, moment) ==
  /\ trail' = [trail EXCEPT ![c] = Append(@, moment)]
  /\ pending' = pending \cup {<<c, moment>>}

Unrecorded == UNCHANGED <<trail, pending>>

\* Mutant of ClosedEnds: only the client's end is closed.
ClosesTheClientOnly(w) ==
  [w EXCEPT !["client"] = IF @ = "none" THEN "none" ELSE "closed"]

\* The deferred calls to Close: whatever there is of a call's ends is closed.
ClosedEnds(w) == [s \in Side |-> IF w[s] = "none" THEN "none" ELSE "closed"]
CloseEnds(c) == wire' = [wire EXCEPT ![c] = ClosedEnds(@)]

-----------------------------------------------------------------------------
(* A call up to its check.                                                 *)

\* A call with a token comes in; a draining server still answers what is on the
\* connections it has.
Call(c) ==
  /\ server \in {"serving", "draining"}
  /\ Steps(c, "none", "called")
  /\ UNCHANGED <<wire, relay, live, cancelled>> /\ Unrecorded

\* serveCheck goes straight to the check.
StartCheckCall(c) ==
  /\ request[c].kind = "check"
  /\ Steps(c, "called", "checking")
  /\ UNCHANGED <<wire, relay, live, cancelled>> /\ Unrecorded

\* serveConnect tests stop, then counts itself in sessions.
Count(c) ==
  /\ request[c].kind # "check"
  /\ ~Stopping
  /\ Steps(c, "called", "counted")
  /\ UNCHANGED <<wire, relay, live, cancelled>> /\ Unrecorded

\* The handshake takes the connection over from the HTTP server.
Upgrade(c) ==
  /\ Steps(c, "counted", "startup")
  /\ wire' = [wire EXCEPT ![c]["client"] = "open"]
  /\ UNCHANGED <<relay, live, cancelled>> /\ Unrecorded

UpgradeFails(c) ==
  /\ Steps(c, "counted", "ended")
  /\ UNCHANGED <<wire, relay, live, cancelled>> /\ Unrecorded

ReadStartup(c) ==
  /\ wire[c]["client"] = "open"
  /\ Steps(c, "startup", "checking")
  /\ UNCHANGED <<wire, relay, live, cancelled>> /\ Unrecorded

\* Mutant of StartupFails: the startup has no deadline.
StartupFailsIfClosed(c) ==
  /\ wire[c]["client"] = "gone"
  /\ Steps(c, "startup", "ended")
  /\ CloseEnds(c)
  /\ UNCHANGED <<relay, live, cancelled>> /\ Unrecorded

\* The client went, sent what is no startup, or took more than a minute.
StartupFails(c) ==
  /\ Steps(c, "startup", "ended")
  /\ CloseEnds(c)
  /\ UNCHANGED <<relay, live, cancelled>> /\ Unrecorded

\* Mutant of CancelAllowed: whose session it is is not asked.
CancelOfAnySession(c) == request[c].target \in live

\* A cancel is passed on only for an open session of the same developer on the
\* same Environment.
CancelAllowed(c) ==
  LET d == request[c].target
  IN /\ d \in live
     /\ request[d].login = request[c].login
     /\ request[d].place = request[c].place

CheckPasses(c) ==
  /\ \/ /\ request[c].kind = "session"
        /\ Steps(c, "checking", "login")
        /\ UNCHANGED wire
     \/ /\ request[c].kind = "cancel"
        /\ CancelAllowed(c)
        /\ Steps(c, "checking", "cancelling")
        /\ UNCHANGED wire
     \/ /\ request[c].kind = "check" \/ (request[c].kind = "cancel" /\ ~CancelAllowed(c))
        /\ Steps(c, "checking", "ended")
        /\ CloseEnds(c)
  /\ UNCHANGED <<relay, live, cancelled>> /\ Unrecorded

\* A refusal is recorded when the developer and the Environment are known, and
\* never for a cancel.  The check also fails when stop has ended.
CheckRefuses(c) ==
  /\ Steps(c, "checking", "ended")
  /\ CloseEnds(c)
  /\ \/ request[c].kind # "cancel" /\ Record(c, "refused")
     \/ Unrecorded
  /\ UNCHANGED <<relay, live, cancelled>>

\* The database is dialled, and the packet is in the empty buffer of its connection.
PassOn(c) ==
  /\ Steps(c, "cancelling", "passing")
  /\ wire' = [wire EXCEPT ![c]["database"] = "open"]
  /\ cancelled' = cancelled \cup {<<c, request[c].target>>}
  /\ UNCHANGED <<relay, live>> /\ Unrecorded

\* It could not be dialled in time, or written to.
CancelFails(c) ==
  /\ Steps(c, "cancelling", "ended")
  /\ CloseEnds(c)
  /\ UNCHANGED <<relay, live, cancelled>> /\ Unrecorded

\* The handler then reads from the database, with no deadline and without a look at
\* the context, until the database closes the connection or sends a byte.
CancelEnds(c) ==
  /\ Steps(c, "passing", "ended")
  /\ CloseEnds(c)
  /\ UNCHANGED <<relay, live, cancelled>> /\ Unrecorded

CancelTaken(c) == wire[c]["database"] = "gone" /\ CancelEnds(c)
CancelAnswered(c) == wire[c]["database"] = "open" /\ CancelEnds(c)

-----------------------------------------------------------------------------
(* A session.                                                              *)

LogsIn(c) ==
  /\ Steps(c, "login", "greeting")
  /\ wire' = [wire EXCEPT ![c]["database"] = "open"]
  /\ UNCHANGED <<relay, live, cancelled>> /\ Unrecorded

LoginFails(c) ==
  /\ Steps(c, "login", "ended")
  /\ CloseEnds(c)
  /\ Record(c, "refused")
  /\ UNCHANGED <<relay, live, cancelled>>

\* The client is told it is in; then the session is live, recorded, and relayed.
Greet(c) ==
  /\ Steps(c, "greeting", "relaying")
  /\ live' = live \cup {c}
  /\ Record(c, "started")
  /\ relay' = [relay EXCEPT ![c] =
       [NoRelay EXCEPT !.copier = [s \in Side |-> "reading"], !.wake = FirstWake]]
  /\ UNCHANGED <<wire, cancelled>>

\* The client went, or the minute of its startup is over.
GreetFails(c) ==
  /\ Steps(c, "greeting", "ended")
  /\ CloseEnds(c)
  /\ UNCHANGED <<relay, live, cancelled>> /\ Unrecorded

\* copyOne: what is read from one side is traffic, then written to the other.
CopierReads(c, s) ==
  /\ Running
  /\ relay[c].copier[s] = "reading"
  /\ wire[c][s] \in {"open", "stalled"}
  /\ relay' = [relay EXCEPT ![c].copier[s] = "writing", ![c].idle = 0]
  /\ UNCHANGED <<server, request, phase, wire, live, cancelled>> /\ Unrecorded

\* A peer that does not read holds the write up for as long as it likes.
CopierWrites(c, s) ==
  /\ Running
  /\ relay[c].copier[s] = "writing"
  /\ wire[c][OtherSide(s)] \in {"open", "gone"}
  /\ relay' = [relay EXCEPT ![c].copier[s] = "reading"]
  /\ UNCHANGED <<server, request, phase, wire, live, cancelled>> /\ Unrecorded

\* Either way the copier reports the side it reads from.
CopierEnds(c, s) ==
  /\ Running
  /\ \/ relay[c].copier[s] = "reading" /\ wire[c][s] \in {"gone", "closed"}
     \/ relay[c].copier[s] = "writing" /\ wire[c][OtherSide(s)] \in {"gone", "closed"}
  /\ relay' = [relay EXCEPT ![c].copier[s] = "done", ![c].done = Append(@, s)]
  /\ UNCHANGED <<server, request, phase, wire, live, cancelled>> /\ Unrecorded

\* Relay's loop is over, and what it timed no longer matters.
Ended(r, reason, done) ==
  [r EXCEPT !.reason = reason, !.done = done, !.idle = 0, !.age = 0, !.wake = 0]

\* Relay takes a reason, and calls client.Close().
EndsWith(c, reason) ==
  /\ Steps(c, "relaying", "hanging")
  /\ relay' = [relay EXCEPT ![c] = Ended(@, reason, @.done)]
  /\ UNCHANGED <<wire, live, cancelled>> /\ Unrecorded

EndsByCopier(c) ==
  /\ relay[c].done # <<>>
  /\ Steps(c, "relaying", "hanging")
  /\ relay' = [relay EXCEPT ![c] = Ended(@, Head(@.done), Tail(@.done))]
  /\ UNCHANGED <<wire, live, cancelled>> /\ Unrecorded

EndsByStop(c) == Stopping /\ EndsWith(c, "stop")

\* Mutants of Expired: the timer's word is taken for the idleness; a busy session
\* has no limit.
ExpiredWhenWoken(r) == r.age = MaxSession \/ r.wake = 0
ExpiredByIdleness(r) == r.idle = IdleLimit

\* The timer fires, and the limits are looked at again: the 8 hours, then the
\* traffic since.
Expired(r) == r.age = MaxSession \/ r.idle = IdleLimit
ExpiredReason(r) == IF r.age = MaxSession THEN "max" ELSE "idle"
NextWake(r) == Sooner(IdleLimit - r.idle, MaxSession - r.age)

Wakes(c) ==
  /\ phase[c] = "relaying"
  /\ relay[c].wake = 0
  /\ \/ Expired(relay[c]) /\ EndsWith(c, ExpiredReason(relay[c]))
     \/ /\ ~Expired(relay[c])
        /\ Running
        /\ relay' = [relay EXCEPT ![c].wake = NextWake(relay[c])]
        /\ UNCHANGED <<server, request, phase, wire, live, cancelled>>
        /\ Unrecorded

\* Closing a WebSocket writes a close frame, under the lock a Write holds until the
\* client takes what it writes, and no deadline is left on either.  Only then are
\* the client's connection and the database's closed.
HangUp(c) ==
  /\ wire[c]["client"] # "stalled"
  /\ relay[c].copier["database"] # "writing"
  /\ Steps(c, "hanging", "closing")
  /\ CloseEnds(c)
  /\ UNCHANGED <<relay, live, cancelled>> /\ Unrecorded

\* Mutant of Finish: the end is not recorded.
FinishUnrecorded(c) ==
  /\ Steps(c, "closing", "ended")
  /\ live' = live \ {c}
  /\ UNCHANGED <<wire, relay, cancelled>> /\ Unrecorded

\* The other copier has stopped, or 5 seconds have passed.
Finish(c) ==
  /\ Steps(c, "closing", "ended")
  /\ Record(c, "ended")
  /\ live' = live \ {c}
  /\ UNCHANGED <<wire, relay, cancelled>>

-----------------------------------------------------------------------------
(* The peers, the clock, the Events and the process.                       *)

\* A client or a database closes its end, or the network takes it away.
PeerCloses(c, s) ==
  /\ Running
  /\ wire[c][s] \in {"open", "stalled"}
  /\ wire' = [wire EXCEPT ![c][s] = "gone"]
  /\ UNCHANGED <<server, request, phase, relay, live, cancelled>> /\ Unrecorded

\* A client stops reading, which before the session is relayed only lets the minute
\* of its startup pass.
ClientStalls(c) ==
  /\ Running
  /\ phase[c] \in {"relaying", "hanging"}
  /\ wire[c]["client"] = "open"
  /\ wire' = [wire EXCEPT ![c]["client"] = "stalled"]
  /\ UNCHANGED <<server, request, phase, relay, live, cancelled>> /\ Unrecorded

ClientReads(c) ==
  /\ Running
  /\ wire[c]["client"] = "stalled"
  /\ wire' = [wire EXCEPT ![c]["client"] = "open"]
  /\ UNCHANGED <<server, request, phase, relay, live, cancelled>> /\ Unrecorded

\* The clocks stop at the limits they are compared with.
Ticked(r) == [r EXCEPT !.idle = Sooner(r.idle + 1, IdleLimit),
                       !.age = Sooner(r.age + 1, MaxSession),
                       !.wake = IF r.wake = 0 THEN 0 ELSE r.wake - 1]

Tick ==
  /\ Running
  /\ relay' = [c \in Connection |-> IF phase[c] = "relaying" THEN Ticked(relay[c])
                                                             ELSE relay[c]]
  /\ UNCHANGED <<server, request, phase, wire, live, cancelled>> /\ Unrecorded

\* The Event is written, refused by the API server, or given up after 10 seconds.
EventDone ==
  /\ Running
  /\ \E e \in pending : pending' = pending \ {e}
  /\ UNCHANGED <<server, request, phase, wire, relay, live, trail, cancelled>>

\* SIGTERM: the HTTP server is shut down first.
Terminate ==
  /\ server = "serving"
  /\ server' = "draining"
  /\ UNCHANGED <<request, phase, wire, relay, live, trail, pending, cancelled>>

\* The HTTP server's own calls: those it has not handed over.
Answering(c) ==
  \/ phase[c] \in {"called", "counted"}
  \/ request[c].kind = "check" /\ phase[c] = "checking"

\* Then Shutdown ends every session.
Drained ==
  /\ server = "draining"
  /\ \A c \in Connection : ~Answering(c)
  /\ server' = "stopping"
  /\ UNCHANGED <<request, phase, wire, relay, live, trail, pending, cancelled>>

\* The process ends, and what is left of its calls with it; an Event still on its
\* way is lost.
Exit(end) ==
  /\ server' = end
  /\ phase' = [c \in Connection |-> IF phase[c] \in {"none", "ended"} THEN phase[c]
                                                                      ELSE "cut"]
  /\ wire' = [c \in Connection |-> ClosedEnds(wire[c])]
  /\ relay' = [c \in Connection |-> NoRelay]
  /\ live' = {}
  /\ UNCHANGED <<request, trail, pending, cancelled>>

\* Mutant of Stop: Shutdown waits for the sessions, not for the Events.
StopWithEventsOpen ==
  /\ server = "stopping"
  /\ \A c \in Connection : phase[c] \in {"none", "ended"}
  /\ Exit("stopped")

\* sessions.Wait, then events.Wait.
Stop ==
  /\ server = "stopping"
  /\ \A c \in Connection : phase[c] \in {"none", "ended"}
  /\ pending = {}
  /\ Exit("stopped")

\* Draining takes 30 seconds, as a check call may, which has a minute: run returns
\* the error, and main exits.
DrainFails ==
  /\ server = "draining"
  /\ \E c \in Connection : request[c].kind = "check" /\ phase[c] = "checking"
  /\ Exit("failed")

\* These steps wait for nobody, or for somebody under a deadline, on a closed
\* connection or a closed channel: they are sure to come.
Obliged(c) ==
  \/ StartCheckCall(c) \/ Count(c) \/ Upgrade(c)
  \/ StartupFails(c) \/ CheckRefuses(c) \/ CancelFails(c) \/ CancelTaken(c)
  \/ LoginFails(c) \/ GreetFails(c)
  \/ EndsByCopier(c) \/ EndsByStop(c) \/ Wakes(c) \/ Finish(c)

\* These are somebody else's to let come.
Answered(c) ==
  \/ UpgradeFails(c) \/ ReadStartup(c) \/ CheckPasses(c) \/ PassOn(c)
  \/ CancelAnswered(c) \/ LogsIn(c) \/ Greet(c) \/ HangUp(c)

TunnelNext ==
  \/ \E c \in Connection :
       \/ Call(c) \/ Obliged(c) \/ Answered(c)
       \/ ClientStalls(c) \/ ClientReads(c)
       \/ \E s \in Side : \/ CopierReads(c, s) \/ CopierWrites(c, s)
                          \/ CopierEnds(c, s) \/ PeerCloses(c, s)
  \/ Tick
  \/ EventDone
  \/ Terminate \/ Drained \/ Stop \/ DrainFails

\* Nobody has to call, answer, send, read or close; a copier whose end closes is
\* told, an Event is given up on after 10 seconds, and time passes.  What a client
\* reads time and again gets written, and Go's mutex starves neither the copier that
\* writes nor the handler that closes.
Relayable == {c \in Connection : \E q \in Requests[c] : q.kind = "session"}

TunnelFairness ==
  /\ \A c \in Connection : WF_tunnelVars(Obliged(c))
  /\ \A c \in Relayable :
       /\ WF_tunnelVars(\E s \in Side : CopierEnds(c, s))
       /\ SF_tunnelVars(CopierWrites(c, "database"))
       /\ SF_tunnelVars(HangUp(c))
  /\ WF_tunnelVars(Tick)
  /\ WF_tunnelVars(EventDone)
  /\ WF_tunnelVars(Drained \/ Stop)

TunnelSpec == TunnelInit /\ [][TunnelNext]_tunnelVars /\ TunnelFairness

-----------------------------------------------------------------------------
(* What must hold.                                                         *)

\* When Shutdown has returned, every session that started has recorded its end
\* and no Event is still on its way; and once it waits for the sessions, no call
\* is left that could still count itself among them.
ShutdownAccountsForAll ==
  /\ server = "stopping" => \A c \in Connection : phase[c] \notin {"called", "counted"}
  /\ server = "stopped" =>
       /\ pending = {}
       /\ \A c \in Connection :
            /\ phase[c] # "cut"
            /\ trail[c] \in {<<>>, <<"refused">>, <<"started", "ended">>}

\* A session is one a cancel finds exactly from its greeting to its last Event, and
\* a call that ended, whatever way, has both its connections closed.  (And
\* everything keeps its type.)
EndedHoldsNothing ==
  /\ TunnelTypeOK
  /\ \A c \in Connection :
       /\ c \in live <=> phase[c] \in {"relaying", "hanging", "closing"}
       /\ phase[c] \in {"closing", "ended", "cut"} => \A s \in Side : wire[c][s] \in {"none", "closed"}

\* A session ends for the reason its Event gives: for idleness only after a whole
\* limit without traffic either way, for its length only after the longest a
\* session may last, for a stop only when the tunnel stops, and for a side only
\* when one of the two has gone.
ReasonsAreTrue ==
  [][\A c \in Connection : relay'[c].reason # relay[c].reason /\ phase'[c] = "hanging" =>
       CASE relay'[c].reason = "idle" -> relay[c].idle = IdleLimit
         [] relay'[c].reason = "max" -> relay[c].age = MaxSession
         [] relay'[c].reason = "stop" -> Stopping
         [] OTHER -> \E s \in Side : wire[c][s] = "gone"]_tunnelVars

\* The query a cancel stops is one of a session that was let in, of the developer
\* who cancels, on the Environment they were checked for.
CancelsStayWithTheirDeveloper ==
  \A pair \in cancelled :
    LET sender == pair[1]
        session == pair[2]
    IN /\ trail[session] # <<>> /\ Head(trail[session]) = "started"
       /\ request[session].login = request[sender].login
       /\ request[session].place = request[sender].place

\* The client reads again, or goes, whenever it has stopped reading.
KeepsReading(c) == []<>(wire[c]["client"] # "stalled")

\* However busy it is, and whatever its database does, a session whose client does
\* not stop reading for good comes to its end, and its copiers with it.
SessionsEnd ==
  \A c \in Connection :
    KeepsReading(c) =>
      (phase[c] = "relaying" ~> /\ phase[c] \in {"ended", "cut"}
                               /\ \A s \in Side : relay[c].copier[s] \in {"off", "done"})

\* A SIGTERM ends the process, whatever its calls are waiting for, when no client
\* stops reading for good and every database lets go of a cancel's connection.
ShutdownReturns ==
  (\A c \in Connection : KeepsReading(c) /\ []<>(phase[c] # "passing"))
    => (server = "draining" ~> server \in {"stopped", "failed"})

Audit == INSTANCE SessionAudit WITH
  process <- IF Running THEN "running" ELSE "ended",
  session <- [c \in Connection |->
    IF phase[c] \in {"relaying", "hanging", "closing"} THEN "open"
    ELSE IF phase[c] = "ended" THEN "over"
    ELSE IF phase[c] = "cut" THEN "cut"
    ELSE "before"]

\* The tunnel's trail is an audit trail: SessionAudit, with a session open from
\* its greeting to its last Event, and cut off only by the end of the process.
ImplementsAudit == Audit!AuditSpec

=============================================================================
