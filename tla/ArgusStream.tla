----------------------------- MODULE ArgusStream -----------------------------
(***************************************************************************)
(* Argus (internal/argus, cmd/iidp-argus): a store that informers fill, a  *)
(* loop that interprets it again and sends what changed, the feed of notes *)
(* with its seeding at the start, and the streams of browsers, which fall  *)
(* behind, break and reconnect.                                            *)
(***************************************************************************)
EXTENDS Integers, Sequences, FiniteSets, SequencesExt

CONSTANTS
  Subject,         \* Applications and components, by name
  Warning,         \* keys of Events that each make a note
  Probe,           \* keys of Events of failed probes, each about a Pod of its own
  Browser,
  ClientBuffer,    \* messages a browser may fall behind
  FeedSize,
  NotReadyGrace,   \* how long a Pod may take to turn ready, in ticks of the clock
  WatchLostAfter,  \* how long the API server may be silent, in ticks
  MaxChanges,      \* bound: things that happen around Argus
  MaxNow           \* bound: ticks of the clock

ASSUME ArgusAssumption ==
  /\ ClientBuffer \in Nat \ {0} /\ FeedSize \in Nat \ {0}
  /\ NotReadyGrace \in Nat /\ WatchLostAfter \in Nat
  /\ MaxChanges \in Nat /\ MaxNow \in Nat
  \* the keys of Subjects and Events, and the names of the other notes, are kinds apart
  /\ IsFiniteSet(Subject) /\ IsFiniteSet(Warning) /\ IsFiniteSet(Probe)
  /\ Warning \cap Probe = {} /\ Subject \cap (Warning \cup Probe) = {}
  /\ {"lost", "seen", "seam"} \cap (Subject \cup Warning \cup Probe) = {}

VARIABLES
  now,         \* the clock
  changes,     \* how much has happened: the source of new versions
  objects,     \* what the store's objects of a Subject come to; see Same
  event,       \* the Events the store holds, by their times
  pod,         \* the Pods the store holds
  brokenSince, \* since when the API server has not answered
  apps,        \* the picture: each Subject as last interpreted
  cluster,     \* the picture: whether Argus sees the cluster
  feed,        \* [notes, nextID]
  restartedAt, \* the change this run of Argus started with
  seeding,     \* Seed: "before", "between" its two locks, "done"
  held,        \* failed probes of Pods still starting, by the times they failed
  dropped,     \* failed probes dropped as their Pods turned ready in time
  stream,      \* each Browser's connection
  view,        \* what each Browser shows
  told         \* notes made of each Event as it is now

objectVars == <<objects, event, pod, brokenSince>>
pictureVars == <<apps, cluster, feed, restartedAt, seeding, held, dropped, told>>
streamVars == <<stream, view>>
argusVars == <<now, changes, objectVars, pictureVars, streamVars>>

-----------------------------------------------------------------------------
Event == Warning \cup Probe
Time == 0 .. MaxNow
Never == -1       \* no such object, or no such time
Gone == -2        \* an Event that was deleted; its key does not come back

\* A Subject's versions are numbered by the changes that made them; a negative one
\* says it went then, and 0 that it never was.
Version == -MaxChanges .. MaxChanges
There(v) == v > 0
Revision(v) == IF v < 0 THEN -v ELSE v
Same(a, b) == a = b \/ (~There(a) /\ ~There(b))

Note == [id : Nat \ {0}, about : Subject \cup Event \cup {"lost", "seen", "seam"}]
Connection == {"connected", "interrupted", "lost"}
Picture == [apps : [Subject -> Version], cluster : Connection, notes : Seq(Note),
            restartedAt : 0 .. MaxChanges]
Message == [type : {"snapshot"}, picture : Picture]
             \cup [type : {"subject"}, name : Subject, version : Version]
             \cup [type : {"cluster"}, state : Connection]
             \cup [type : {"note"}, note : Note]

ArgusTypeOK ==
  /\ now \in Time /\ changes \in 0 .. MaxChanges
  /\ objects \in [Subject -> Version] /\ apps \in [Subject -> Version]
  /\ event \in [Event -> Time \cup {Never, Gone}]
  /\ pod \in [Probe -> [created : Time \cup {Never}, readyAt : Time \cup {Never}]]
  /\ brokenSince \in Time \cup {Never}
  /\ cluster \in Connection
  /\ feed.notes \in Seq(Note) /\ Len(feed.notes) <= FeedSize /\ feed.nextID \in Nat
  /\ restartedAt \in 0 .. MaxChanges /\ seeding \in {"before", "between", "done"}
  /\ held \in [Probe -> Time \cup {Never}] /\ dropped \in SUBSET Probe
  /\ \A b \in Browser :
       /\ stream[b].state \in {"none", "open", "closed"}
       /\ stream[b].queue \in Seq(Message) /\ Len(stream[b].queue) <= ClientBuffer + 1
       /\ view[b] \in Picture /\ Len(view[b].notes) <= FeedSize
  /\ told \in [Event -> 0 .. 1]

NoPod == [created |-> Never, readyAt |-> Never]
NothingHeld == [p \in Probe |-> Never]
EmptyFeed == [notes |-> <<>>, nextID |-> 0]
EmptyPicture == [apps |-> [s \in Subject |-> 0], cluster |-> "connected", notes |-> <<>>,
                 restartedAt |-> 0]
NoStream == [state |-> "none", queue |-> <<>>]

ArgusInit ==
  /\ now = 0 /\ changes = 0
  /\ objects = [s \in Subject |-> 0] /\ apps = [s \in Subject |-> 0]
  /\ event = [e \in Event |-> Never] /\ told = [e \in Event |-> 0]
  \* the Pods may have been listed already: one just created, or none
  /\ pod \in [Probe -> {NoPod, [created |-> 0, readyAt |-> Never]}]
  /\ brokenSince = Never /\ cluster = "connected"
  /\ feed = EmptyFeed /\ restartedAt = 0 /\ seeding = "before"
  /\ held = NothingHeld /\ dropped = {}
  /\ stream = [b \in Browser |-> NoStream]
  /\ view = [b \in Browser |-> EmptyPicture]

seeded == seeding = "done"

\* Something happens around Argus.
Happens == changes < MaxChanges /\ changes' = changes + 1

-----------------------------------------------------------------------------
(* Sending.                                                                *)

\* The snapshot is written before the channel is read, and takes no room in it.
Room(q) == ClientBuffer - (IF q # <<>> /\ Head(q).type = "snapshot" THEN Len(q) - 1 ELSE Len(q))

Queued(st, frames) ==
  IF st.state = "open" THEN [st EXCEPT !.queue = @ \o frames] ELSE st

\* Mutants of Sent: what does not fit is left out; the stream is forgotten but its
\* channel not closed.
SentDropping(st, frames) ==
  IF st.state # "open" \/ Len(frames) <= Room(st.queue) THEN Queued(st, frames)
  ELSE Queued(st, SubSeq(frames, 1, Room(st.queue)))
SentForgetting(st, frames) ==
  IF Len(frames) <= Room(st.queue) THEN Queued(st, frames) ELSE st

\* A stream with no room for a frame gets those before it, and is closed.
Sent(st, frames) ==
  IF st.state # "open" \/ Len(frames) <= Room(st.queue) THEN Queued(st, frames)
  ELSE [Queued(st, SubSeq(frames, 1, Room(st.queue))) EXCEPT !.state = "closed"]

Broadcast(frames) == stream' = [b \in Browser |-> Sent(stream[b], frames)]

\* The feed numbers what it is given, and keeps the last of it.
Numbered(abouts) ==
  [i \in DOMAIN abouts |-> [id |-> feed.nextID + i, about |-> abouts[i]]]
Trimmed(notes) ==
  IF Len(notes) <= FeedSize THEN notes
  ELSE SubSeq(notes, Len(notes) - FeedSize + 1, Len(notes))
NoteFrames(abouts) ==
  [i \in DOMAIN abouts |-> [type |-> "note", note |-> Numbered(abouts)[i]]]

\* publishNotes, after the frames of what changed.
Publish(frames, abouts) ==
  /\ feed' = [notes |-> Trimmed(feed.notes \o Numbered(abouts)),
              nextID |-> feed.nextID + Len(abouts)]
  /\ Broadcast(frames \o NoteFrames(abouts))

Telling(abouts) ==
  [e \in Event |-> told[e] + Cardinality({i \in DOMAIN abouts : abouts[i] = e})]

-----------------------------------------------------------------------------
(* What becomes of a failed probe.                                         *)

\* p failed at time t; isHeld says it is already held.
Fate(p, t, isHeld) ==
  LET created == pod[p].created
      readyAt == pod[p].readyAt
  IN CASE created = Never \/ t < created -> IF isHeld THEN "drop" ELSE "publish"
       [] created # Never /\ t - created > NotReadyGrace -> "publish"
       [] created \in 0 .. t /\ t - created <= NotReadyGrace /\ readyAt # Never ->
            IF readyAt < t \/ readyAt - created > NotReadyGrace THEN "publish" ELSE "drop"
       [] OTHER -> IF now - created > NotReadyGrace THEN "publish" ELSE "hold"

FirstFate(e, t) == IF e \in Probe THEN Fate(e, t, FALSE) ELSE "publish"

Settled == {p \in Probe : held[p] # Never /\ Fate(p, held[p], TRUE) # "hold"}
SettledAs(fate) == {p \in Settled : Fate(p, held[p], TRUE) = fate}

-----------------------------------------------------------------------------
(* The informers and the probe of the API server.                          *)

\* Something of s changed, or time alone made it read differently.
Put(s) ==
  /\ Happens
  /\ objects' = [objects EXCEPT ![s] = changes + 1]
  /\ UNCHANGED <<now, event, pod, brokenSince, pictureVars, streamVars>>

Delete(s) ==
  /\ Happens
  /\ There(objects[s])
  /\ objects' = [objects EXCEPT ![s] = -(changes + 1)]
  /\ UNCHANGED <<now, event, pod, brokenSince, pictureVars, streamVars>>

\* A new Event is news once the feed is seeded; before, Seed will find it.
Noticed(e, t) ==
  \/ /\ ~seeded \/ FirstFate(e, t) # "publish"
     /\ held' = IF seeded /\ FirstFate(e, t) = "hold" THEN [held EXCEPT ![e] = t] ELSE held
     /\ dropped' = IF seeded /\ FirstFate(e, t) = "drop" THEN dropped \cup {e}
                                                         ELSE dropped \ {e}
     /\ told' = [told EXCEPT ![e] = 0]
     /\ UNCHANGED <<feed, stream>>
  \/ /\ seeded /\ FirstFate(e, t) = "publish"
     /\ dropped' = dropped \ {e}
     /\ Publish(<<>>, <<e>>)
     /\ told' = [told EXCEPT ![e] = 1]
     /\ UNCHANGED held

PutNewEvent(e) ==
  /\ Happens
  /\ event[e] = Never
  /\ \E t \in 0 .. now :
       /\ event' = [event EXCEPT ![e] = t]
       /\ Noticed(e, t)
  /\ UNCHANGED <<now, objects, pod, brokenSince, apps, cluster, restartedAt, seeding,
                 view>>

\* The kubelet updates an Event in place.  That is no news, unless the failure it
\* was before has been dropped.
UpdateEvent(e) ==
  /\ Happens
  /\ event[e] \in Time
  /\ \E t \in event[e] + 1 .. now :
       /\ event' = [event EXCEPT ![e] = t]
       /\ \/ e \in dropped /\ Noticed(e, t)
          \/ e \notin dropped /\ UNCHANGED <<feed, stream, held, dropped, told>>
  /\ UNCHANGED <<now, objects, pod, brokenSince, apps, cluster, restartedAt, seeding,
                 view>>

DeleteEvent(e) ==
  /\ Happens
  /\ event[e] \in Time
  /\ event' = [event EXCEPT ![e] = Gone]
  /\ dropped' = dropped \ {e}
  /\ UNCHANGED <<now, objects, pod, brokenSince, apps, cluster, feed, restartedAt, seeding,
                 held, told, streamVars>>

\* A Pod is created, turns ready, stops being ready, or goes.
PutPod(p) ==
  /\ Happens
  /\ \/ pod[p] = NoPod /\ \E t \in 0 .. now :
          pod' = [pod EXCEPT ![p] = [created |-> t, readyAt |-> Never]]
     \/ /\ pod[p] # NoPod /\ pod[p].readyAt = Never
        /\ \E t \in pod[p].created .. now : pod' = [pod EXCEPT ![p].readyAt = t]
     \/ /\ pod[p].readyAt # Never
        /\ pod' = [pod EXCEPT ![p].readyAt = Never]
     \/ pod[p] # NoPod /\ pod' = [pod EXCEPT ![p] = NoPod]
  /\ UNCHANGED <<now, objects, event, brokenSince, pictureVars, streamVars>>

SetReachable ==
  /\ Happens
  /\ brokenSince' = IF brokenSince = Never THEN now ELSE Never
  /\ UNCHANGED <<now, objects, event, pod, pictureVars, streamVars>>

Tick ==
  /\ now < MaxNow
  /\ now' = now + 1
  /\ UNCHANGED <<changes, objectVars, pictureVars, streamVars>>

-----------------------------------------------------------------------------
(* The interpretation, and the seeding of the feed.                        *)

ClusterNow ==
  IF brokenSince = Never THEN "connected"
  ELSE IF now - brokenSince >= WatchLostAfter THEN "lost" ELSE "interrupted"

ClusterFrames ==
  IF ClusterNow = cluster THEN <<>> ELSE <<[type |-> "cluster", state |-> ClusterNow]>>

\* The loss is told even before the feed is seeded.
ClusterNotes ==
  IF ClusterNow = cluster THEN <<>>
  ELSE IF ClusterNow = "lost" THEN <<"lost">>
  ELSE IF cluster = "lost" THEN <<"seen">> ELSE <<>>

StillHeld == [p \in Probe |-> IF seeded /\ p \in Settled THEN Never ELSE held[p]]

\* Recompute: a message per Subject that changed, the notes those changes make, and
\* the held probes whose fate is settled.
Recomputing(next) ==
  LET changed == {s \in Subject : ~Same(apps[s], objects[s])}
      order == SetToSeq(changed)
      frames == [i \in DOMAIN order |->
        [type |-> "subject", name |-> order[i], version |-> objects[order[i]]]]
      settled == IF seeded THEN SettledAs("publish") ELSE {}
  IN /\ apps' = objects
     /\ cluster' = ClusterNow
     /\ seeding' = next
     /\ held' = StillHeld
     /\ dropped' = IF seeded THEN dropped \cup SettledAs("drop") ELSE dropped
     /\ \E noted \in SUBSET (IF seeded THEN changed ELSE {}) :
          LET abouts == SetToSeq(noted) \o ClusterNotes \o SetToSeq(settled)
          IN Publish(frames \o ClusterFrames, abouts) /\ told' = Telling(abouts)

\* Run: a tick, or a change and the time it takes to settle.
Recompute ==
  /\ Recomputing(seeding)
  /\ UNCHANGED <<now, changes, objectVars, restartedAt, view>>

\* Seed, once the informers have listed or have had their time: it interprets the
\* model in silence,
SeedBegins ==
  /\ seeding = "before"
  /\ Recomputing("between")
  /\ UNCHANGED <<now, changes, objectVars, restartedAt, view>>

\* Mutant of SeedEnds: it leaves what is held to the informers.
SeedEndsWithoutEvents ==
  /\ seeding = "between"
  /\ seeding' = "done"
  /\ Publish(<<>>, <<"seam">>)
  /\ UNCHANGED <<now, changes, objectVars, apps, cluster, restartedAt, told, held,
                 dropped, view>>

\* then, under a second lock, tells what the cluster still says, and the seam.
SeedEnds ==
  LET known == {e \in Event : event[e] \in Time}
      fated(fate) == {e \in known : FirstFate(e, event[e]) = fate}
      abouts == SetToSeq({s \in Subject : There(apps[s])} \cup fated("publish"))
  IN /\ seeding = "between"
     /\ seeding' = "done"
     /\ held' = [p \in Probe |-> IF p \in fated("hold") THEN event[p] ELSE held[p]]
     /\ dropped' = dropped \cup fated("drop")
     /\ Publish(<<>>, Append(abouts, "seam"))
     /\ told' = Telling(abouts)
     /\ UNCHANGED <<now, changes, objectVars, apps, cluster, restartedAt, view>>

-----------------------------------------------------------------------------
(* The browsers.                                                           *)

Snapshot == [apps |-> apps, cluster |-> cluster, notes |-> feed.notes,
             restartedAt |-> restartedAt]

\* Mutant of Subscribe: what an earlier stream had left comes after the snapshot.
SubscribeKeepingQueue(b) ==
  /\ stream[b].state \in {"none", "closed"}
  /\ stream' = [stream EXCEPT ![b] =
       [state |-> "open",
        queue |-> <<[type |-> "snapshot", picture |-> Snapshot]>>
                    \o SelectSeq(@.queue, LAMBDA m : m.type # "snapshot")]]
  /\ UNCHANGED <<now, changes, objectVars, pictureVars, view>>

\* The snapshot and the channel are taken together.
Subscribe(b) ==
  /\ stream[b].state = "none"
  /\ stream' = [stream EXCEPT ![b] =
       [state |-> "open", queue |-> <<[type |-> "snapshot", picture |-> Snapshot]>>]]
  /\ UNCHANGED <<now, changes, objectVars, pictureVars, view>>

\* What a Browser makes of a message.
Replayed(v, m) ==
  CASE m.type = "snapshot" -> m.picture
    [] m.type = "subject" -> [v EXCEPT !.apps[m.name] = m.version]
    [] m.type = "cluster" -> [v EXCEPT !.cluster = m.state]
    [] m.type = "note" -> [v EXCEPT !.notes = Trimmed(Append(@, m.note))]

Deliver(b) ==
  /\ stream[b].queue # <<>>
  /\ view' = [view EXCEPT ![b] = Replayed(@, Head(stream[b].queue))]
  /\ stream' = [stream EXCEPT ![b].queue = Tail(@)]
  /\ UNCHANGED <<now, changes, objectVars, pictureVars>>

\* A closed stream ends when what was left in it has been sent.
StreamEnds(b) ==
  /\ stream[b].state = "closed" /\ stream[b].queue = <<>>
  /\ stream' = [stream EXCEPT ![b] = NoStream]
  /\ UNCHANGED <<now, changes, objectVars, pictureVars, view>>

\* The connection breaks, and what was on its way is lost.
Break(b) ==
  /\ Happens
  /\ stream[b].state # "none"
  /\ stream' = [stream EXCEPT ![b] = NoStream]
  /\ UNCHANGED <<now, objectVars, pictureVars, view>>

\* Argus is replaced: everything it knew goes, and every stream ends.
Restart ==
  /\ Happens
  /\ objects' = [s \in Subject |-> 0] /\ apps' = [s \in Subject |-> 0]
  /\ event' = [e \in Event |-> Never] /\ told' = [e \in Event |-> 0]
  /\ pod' = [p \in Probe |-> NoPod]
  /\ brokenSince' = Never /\ cluster' = "connected"
  /\ feed' = EmptyFeed /\ restartedAt' = changes + 1 /\ seeding' = "before"
  /\ held' = NothingHeld /\ dropped' = {}
  /\ stream' = [b \in Browser |-> NoStream]
  /\ UNCHANGED <<now, view>>

ArgusNext ==
  \/ \E s \in Subject : Put(s) \/ Delete(s)
  \/ \E e \in Event : PutNewEvent(e) \/ UpdateEvent(e) \/ DeleteEvent(e)
  \/ \E p \in Probe : PutPod(p)
  \/ SetReachable \/ Tick
  \/ Recompute \/ SeedBegins \/ SeedEnds
  \/ \E b \in Browser : Subscribe(b) \/ Deliver(b) \/ StreamEnds(b) \/ Break(b)
  \/ Restart

\* Run recomputes every five seconds, Seed is called when the informers have synced
\* or a minute is over, and an EventSource reads and reconnects.
ArgusFairness ==
  /\ WF_argusVars(Recompute) /\ WF_argusVars(SeedBegins) /\ WF_argusVars(SeedEnds)
  /\ \A b \in Browser :
       WF_argusVars(Subscribe(b)) /\ WF_argusVars(Deliver(b)) /\ WF_argusVars(StreamEnds(b))

ArgusSpec == ArgusInit /\ [][ArgusNext]_argusVars /\ ArgusFairness

-----------------------------------------------------------------------------
(* What must hold.                                                         *)

\* Whatever a browser has seen, once it has what is on its way it shows the
\* store's picture: a stream that is still open has neither a gap nor a repeat.  (And
\* everything keeps its type.)
StreamAddsUp ==
  /\ ArgusTypeOK
  /\ \A b \in Browser : stream[b].state = "open" =>
       LET final == FoldLeft(Replayed, view[b], stream[b].queue)
       IN /\ \A s \in Subject : Same(final.apps[s], apps[s])
          /\ final.cluster = cluster
          /\ final.notes = feed.notes
          /\ final.restartedAt = restartedAt

\* Once the feed is seeded, each Event the store holds has been told exactly once,
\* whether Seed found it or it came later; and a failed probe is told, held or
\* dropped, and never two of these.
EveryEventHasOneFate ==
  seeded => \A e \in Event : event[e] \in Time =>
    IF e \in Warning THEN told[e] = 1
    ELSE told[e] + (IF held[e] # Never THEN 1 ELSE 0) + (IF e \in dropped THEN 1 ELSE 0) = 1

\* A browser never shows a Subject as it was before what it has already shown, nor
\* fewer notes, whatever its streams go through, until Argus itself is replaced.
LastID(v) == IF v.notes = <<>> THEN 0 ELSE Last(v.notes).id
NeverBackwards ==
  [][\A b \in Browser : view'[b].restartedAt = view[b].restartedAt =>
       /\ LastID(view[b]) <= LastID(view'[b])
       /\ \A s \in Subject :
            Revision(view[b].apps[s]) <= Revision(view'[b].apps[s])]_argusVars

\* When nothing more happens around Argus, every browser comes to show the cluster as
\* it is, and goes on to.
ViewsCatchUp ==
  \A b \in Browser :
    <>[](/\ \A s \in Subject : Same(view[b].apps[s], objects[s])
         /\ view[b].cluster = ClusterNow
         /\ view[b].notes = feed.notes)
=============================================================================
