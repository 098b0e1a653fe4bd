--------------------------- MODULE ControllerProofs ---------------------------
(***************************************************************************)
(* Theorems about Controller, for any set of viewers, deploys, requests,   *)
(* resources, updates and releases, any durations and any bounds.          *)
(*                                                                         *)
(* The activities share the process and the clock only, so each has an     *)
(* inductive invariant of its own, and a lemma that says what a step of    *)
(* the whole system may do to its variables.                               *)
(***************************************************************************)
EXTENDS Controller, TLAPS

-----------------------------------------------------------------------------
(* What a step of the system does to each activity.                        *)

\* The event streams take a step, are lost with the process, or stand still.
LEMMA EventsMove ==
  [Next]_vars => EventsNext \/ EventsLost \/ UNCHANGED eventsVars
  BY DEF Next, InProcess, Outside, Restarts, Starts, Tick, MemoryFollows, Memory, vars

\* The same for the backups, whose clock never goes back.
LEMMA BackupsMove ==
  ASSUME clock \in Int, [Next]_vars
  PROVE  /\ clock' \in Int /\ clock' >= clock
         /\ \/ BackupsNext /\ clock' = clock
            \/ BackupsLost
            \/ BackupsStart
            \/ UNCHANGED backupsVars
  BY DEF Next, InProcess, Outside, Restarts, Starts, Tick, MemoryFollows, Memory, vars

\* The same for the monitor.
LEMMA MonitorMove ==
  ASSUME clock \in Int, [Next]_vars
  PROVE  /\ clock' \in Int /\ clock' >= clock
         /\ \/ MonitorNext /\ clock' = clock
            \/ MonitorLost
            \/ MonitorStart
            \/ UNCHANGED monitorVars
  BY DEF Next, InProcess, Outside, Restarts, Starts, Tick, MemoryFollows, Memory, vars

\* The controller's container changes at the hands of the updates only.
LEMMA UpdateMove ==
  [Next]_vars =>
    \/ Up /\ InControllerNext
    \/ HelpersNext
    \/ RestartController
    \/ Crash
    \/ DockerStarts
    \/ UNCHANGED <<controller, updateVars>>
  BY DEF Next, InProcess, Outside, Restarts, Tick, vars

-----------------------------------------------------------------------------
(* The event streams.                                                      *)

OpenStreams == {v \in Viewers : stream[v] \in {"open", "leaving"}}

\* Whoever subscribes, or is yet to be reached by an emitter, has not closed
\* its channel: it cannot cancel while an emitter holds the lock.
EventsInv ==
  /\ stream \in [Viewers -> {"none", "open", "leaving", "closed", "lost"}]
  /\ emitting \in [Deploys -> [active : BOOLEAN, number : Nat, pending : SUBSET Viewers]]
  /\ deploySubs \subseteq OpenStreams
  /\ \A d \in Deploys : emitting[d].pending \subseteq OpenStreams
  /\ \A d \in Deploys : ~emitting[d].active => emitting[d].pending = {}
  /\ ~panicked

\* Nobody has subscribed and nothing is being emitted.
LEMMA InitEventsInv == Init => EventsInv
  BY DEF Init, EventsInit, EventsInv, Silent, OpenStreams

\* Every action preserves EventsInv: the lock keeps Cancel and Send apart.
LEMMA StepEventsInv == EventsInv /\ [Next]_vars => EventsInv'
  <1> SUFFICES ASSUME EventsInv, [Next]_vars PROVE EventsInv'
    OBVIOUS
  <1> USE DEF EventsInv, OpenStreams
  <1>1. CASE UNCHANGED eventsVars
    BY <1>1 DEF eventsVars, eventsMemory, eventsHistory
  <1>2. CASE EventsLost
    BY <1>2 DEF EventsLost, Silent, eventsHistory
  <1>3. ASSUME NEW v \in Viewers, SubscribeDeployEvents(v) PROVE EventsInv'
    BY <1>3 DEF SubscribeDeployEvents, NoReader, eventsHistory
  <1>4. ASSUME NEW v \in Viewers, Show(v) \/ Leave(v) PROVE EventsInv'
    BY <1>4 DEF Show, Leave, eventsHistory
  <1>5. ASSUME NEW v \in Viewers, Cancel(v) PROVE EventsInv'
    BY <1>5 DEF Cancel, NoReader, eventsHistory
  <1>6. ASSUME NEW d \in Deploys, EmitDeployEvent(d) PROVE EventsInv'
    BY <1>6 DEF EmitDeployEvent, eventsHistory
  <1>7. ASSUME NEW d \in Deploys, NEW v \in Viewers, Send(d, v) PROVE EventsInv'
    <2>1. stream[v] # "closed"
      BY <1>7 DEF Send
    <2> QED
      BY ZenonT(30), <1>7, <2>1 DEF Send
  <1>8. ASSUME NEW d \in Deploys, Emitted(d) PROVE EventsInv'
    BY <1>8 DEF Emitted, eventsHistory
  <1> QED
    BY <1>1, <1>2, <1>3, <1>4, <1>5, <1>6, <1>7, <1>8, EventsMove DEF EventsNext

\* No deploy ever sends on a channel that its viewer has closed.
THEOREM NobodyPanics == Spec => []NeverPanics
  <1>1. EventsInv => NeverPanics
    BY DEF EventsInv, NeverPanics
  <1> QED
    BY <1>1, InitEventsInv, StepEventsInv, PTL DEF Spec

Seen(v) == shown[v] \o channel[v]
Elements(s) == {s[i] : i \in DOMAIN s}
Ordered(s) ==
  \A i, j \in DOMAIN s : i < j /\ s[i][1] = s[j][1] => s[i][2] < s[j][2]

AllEvents == Deploys \X Nat

\* A send adds to the end of what a viewer has been and will be shown, and
\* showing an event changes nothing about it.
LEMMA SeenGrows ==
  ASSUME NEW s \in Seq(AllEvents), NEW t \in Seq(AllEvents), NEW e \in AllEvents
  PROVE  s \o Append(t, e) = Append(s \o t, e)
  OBVIOUS

\* Showing the head of the channel leaves what is seen as it is.
LEMMA SeenMoves ==
  ASSUME NEW s \in Seq(AllEvents), NEW t \in Seq(AllEvents), t # <<>>
  PROVE  Append(s, Head(t)) \o Tail(t) = s \o t
  OBVIOUS

\* An event younger than all those of its deploy keeps the order.
LEMMA OrderedAppend ==
  ASSUME NEW s \in Seq(AllEvents), NEW e \in AllEvents, Ordered(s),
         \A x \in Elements(s) : x[1] = e[1] => x[2] < e[2]
  PROVE  Ordered(Append(s, e)) /\ Elements(Append(s, e)) = Elements(s) \cup {e}
  <1>1. /\ Len(s) \in Nat /\ DOMAIN s = 1..Len(s)
        /\ DOMAIN Append(s, e) = 1..(Len(s) + 1)
        /\ \A i \in 1..Len(s) : Append(s, e)[i] = s[i] /\ s[i] \in Elements(s)
        /\ Append(s, e)[Len(s) + 1] = e
    BY DEF Elements
  <1>2. Elements(Append(s, e)) = Elements(s) \cup {e}
    BY <1>1 DEF Elements
  <1>3. Ordered(Append(s, e))
    <2> SUFFICES ASSUME NEW i \in 1..(Len(s) + 1), NEW j \in 1..(Len(s) + 1), i < j,
                        Append(s, e)[i][1] = Append(s, e)[j][1]
                 PROVE  Append(s, e)[i][2] < Append(s, e)[j][2]
      BY <1>1 DEF Ordered
    <2>1. i \in 1..Len(s)
      BY <1>1
    <2>2. CASE j = Len(s) + 1
      BY <1>1, <2>1, <2>2
    <2>3. CASE j \in 1..Len(s)
      BY <1>1, <2>1, <2>3 DEF Ordered
    <2> QED
      BY <1>1, <2>2, <2>3
  <1> QED
    BY <1>2, <1>3

\* Without what is in its channel, a viewer has still seen events in order.
LEMMA OrderedPrefix ==
  ASSUME NEW s \in Seq(AllEvents), NEW t \in Seq(AllEvents), Ordered(s \o t)
  PROVE  Ordered(s \o <<>>) /\ Elements(s \o <<>>) \subseteq Elements(s \o t)
  <1>1. /\ Len(s) \in Nat /\ Len(t) \in Nat
        /\ s \o <<>> = s /\ DOMAIN s = 1..Len(s) /\ DOMAIN (s \o t) = 1..(Len(s) + Len(t))
        /\ \A i \in 1..Len(s) : (s \o t)[i] = s[i]
    OBVIOUS
  <1>2. DOMAIN s \subseteq DOMAIN (s \o t)
    BY <1>1
  <1> QED
    BY <1>1, <1>2 DEF Ordered, Elements

\* What a viewer has been offered is no younger than its deploy's newest event,
\* and older while that has yet to reach the viewer.
OfferedInv ==
  /\ shown \in [Viewers -> Seq(AllEvents)] /\ channel \in [Viewers -> Seq(AllEvents)]
  /\ due \in [Viewers -> SUBSET AllEvents] /\ skipped \in [Viewers -> SUBSET AllEvents]
  /\ \A v \in Viewers, d \in Deploys : \A e \in due[v] :
       e[1] = d => /\ e[2] <= emitting[d].number
                   /\ v \in emitting[d].pending => e[2] < emitting[d].number

SeenOK(v) ==
  /\ skipped[v] \subseteq due[v] /\ Elements(Seen(v)) \subseteq due[v]
  /\ stream[v] = "none" => channel[v] = <<>>
  /\ stream[v] # "lost" => Elements(Seen(v)) = due[v] \ skipped[v]
  /\ Ordered(Seen(v))

StreamsInv == EventsInv /\ OfferedInv /\ \A v \in Viewers : SeenOK(v)

\* Nothing has been seen, offered or missed.
LEMMA InitStreamsInv == Init => StreamsInv
  <1> SUFFICES ASSUME Init PROVE StreamsInv
    OBVIOUS
  <1>1. \A v \in Viewers : shown[v] = <<>> /\ channel[v] = <<>> /\ due[v] = {} /\ skipped[v] = {}
    BY DEF Init, EventsInit
  <1>2. \A v \in Viewers : Seen(v) = <<>>
    BY <1>1 DEF Seen
  <1>3. Ordered(<<>>) /\ Elements(<<>>) = {}
    BY DEF Ordered, Elements
  <1>4. \A v \in Viewers : SeenOK(v)
    BY <1>1, <1>2, <1>3 DEF SeenOK
  <1>5. OfferedInv
    BY <1>1 DEF OfferedInv, Init, EventsInit
  <1> QED
    BY <1>4, <1>5, InitEventsInv DEF StreamsInv

\* A viewer to whom nothing is sent.
LEMMA SeenStays ==
  ASSUME NEW v \in Viewers, SeenOK(v), Seen(v)' = Seen(v), UNCHANGED <<due[v], skipped[v]>>,
         stream'[v] = "none" => channel'[v] = <<>>,
         stream[v] = "lost" => stream'[v] = "lost"
  PROVE  SeenOK(v)'
  BY DEF SeenOK

\* A step that leaves what viewers have been offered and have seen alone.
LEMMA QuietStream ==
  ASSUME StreamsInv, EventsInv', UNCHANGED <<shown, channel, due, skipped>>,
         \A d \in Deploys : emitting'[d].number = emitting[d].number
                              /\ emitting'[d].pending \subseteq emitting[d].pending,
         \A v \in Viewers : stream'[v] = stream[v] \/ (stream[v] # "lost" /\ stream'[v] # "none")
  PROVE  StreamsInv'
  <1>1. OfferedInv'
    BY DEF StreamsInv, OfferedInv
  <1>2. ASSUME NEW v \in Viewers PROVE SeenOK(v)'
    <2>1. Seen(v)' = Seen(v)
      BY DEF Seen
    <2>2. SeenOK(v) /\ (stream'[v] = "none" => channel'[v] = <<>>)
      BY DEF StreamsInv, SeenOK
    <2> QED
      BY <2>1, <2>2, SeenStays
  <1> QED
    BY <1>1, <1>2 DEF StreamsInv

\* Every action preserves StreamsInv; the case that matters is Send.
LEMMA StepStreamsInv == StreamsInv /\ [Next]_vars => StreamsInv'
  <1> SUFFICES ASSUME StreamsInv, [Next]_vars PROVE StreamsInv'
    OBVIOUS
  <1>0. EventsInv /\ EventsInv' /\ OfferedInv
    BY StepEventsInv DEF StreamsInv
  <1>1. CASE UNCHANGED eventsVars
    BY <1>0, <1>1, QuietStream DEF eventsVars, eventsMemory, eventsHistory
  <1>2. CASE EventsLost
    <2>1. /\ UNCHANGED <<shown, due, skipped>>
          /\ \A v \in Viewers : channel'[v] = <<>>
          /\ \A v \in Viewers : stream'[v] = IF stream[v] = "none" THEN "none" ELSE "lost"
      BY <1>2 DEF EventsLost, eventsHistory
    <2>2. \A d \in Deploys : emitting'[d].number = emitting[d].number /\ emitting'[d].pending = {}
      BY <1>2 DEF EventsLost, Silent
    <2>3. OfferedInv'
      <3>1. channel' \in [Viewers -> Seq(AllEvents)]
        BY <1>2 DEF EventsLost
      <3> QED
        BY <1>0, <2>1, <2>2, <3>1 DEF OfferedInv
    <2>4. ASSUME NEW v \in Viewers PROVE SeenOK(v)'
      <3>1. SeenOK(v) /\ shown[v] \in Seq(AllEvents) /\ channel[v] \in Seq(AllEvents)
        BY <1>0 DEF StreamsInv, OfferedInv
      <3>2. Seen(v)' = shown[v] \o <<>>
        BY <2>1 DEF Seen
      <3>3. Ordered(Seen(v)') /\ Elements(Seen(v)') \subseteq Elements(Seen(v))
        BY <3>1, <3>2, OrderedPrefix DEF SeenOK, Seen
      <3>4. CASE stream[v] = "none"
        <4>1. Seen(v)' = Seen(v)
          BY <3>1, <3>2, <3>4 DEF SeenOK, Seen
        <4> QED
          BY <2>1, <3>1, <3>4, <4>1, SeenStays
      <3>5. CASE stream[v] # "none"
        BY <2>1, <3>1, <3>3, <3>5 DEF SeenOK
      <3> QED
        BY <3>4, <3>5
    <2> QED
      BY <1>0, <2>3, <2>4 DEF StreamsInv
  <1>3. ASSUME NEW v \in Viewers, SubscribeDeployEvents(v) \/ Leave(v) \/ Cancel(v)
        PROVE  StreamsInv'
    <2>1. /\ UNCHANGED <<shown, channel, due, skipped, emitting>>
          /\ \A x \in Viewers : stream'[x] = stream[x] \/ (stream[x] # "lost" /\ stream'[x] # "none")
      BY <1>0, <1>3 DEF SubscribeDeployEvents, Leave, Cancel, eventsHistory, EventsInv
    <2> QED
      BY <1>0, <2>1, QuietStream
  <1>4. ASSUME NEW v \in Viewers, Show(v) PROVE StreamsInv'
    <2>1. /\ UNCHANGED <<stream, emitting, due, skipped>>
          /\ shown' = [shown EXCEPT ![v] = Append(@, Head(channel[v]))]
          /\ channel' = [channel EXCEPT ![v] = Tail(@)]
          /\ channel[v] # <<>> /\ stream[v] = "open"
      BY <1>4 DEF Show
    <2>2. shown[v] \in Seq(AllEvents) /\ channel[v] \in Seq(AllEvents)
      BY <1>0 DEF OfferedInv
    <2>3. Append(shown[v], Head(channel[v])) \in Seq(AllEvents) /\ Tail(channel[v]) \in Seq(AllEvents)
      BY <2>1, <2>2
    <2>4. OfferedInv'
      BY <1>0, <2>1, <2>3 DEF OfferedInv
    <2>5. Seen(v)' = Seen(v)
      BY <1>0, <2>1, <2>2, SeenMoves DEF Seen, OfferedInv
    <2>6. \A x \in Viewers \ {v} : Seen(x)' = Seen(x) /\ channel'[x] = channel[x]
      BY <1>0, <2>1 DEF Seen, OfferedInv
    <2>7. \A x \in Viewers : SeenOK(x) /\ (stream'[x] = "none" => channel'[x] = <<>>)
      BY <2>1, <2>6 DEF StreamsInv, SeenOK
    <2>8. \A x \in Viewers : SeenOK(x)'
      BY <2>1, <2>5, <2>6, <2>7, SeenStays
    <2> QED
      BY <1>0, <2>4, <2>8 DEF StreamsInv
  <1>5. ASSUME NEW d \in Deploys, EmitDeployEvent(d) PROVE StreamsInv'
    <2>1. /\ UNCHANGED <<shown, channel, due, skipped, stream>>
          /\ emitting'[d].number = emitting[d].number + 1
          /\ \A x \in Deploys \ {d} : emitting'[x] = emitting[x]
      BY <1>0, <1>5 DEF EmitDeployEvent, eventsHistory, EventsInv
    <2>2. emitting[d].number \in Nat
      BY <1>0 DEF EventsInv
    <2>3. \A v \in Viewers : \A e \in due[v] : e[2] \in Nat
      BY <1>0 DEF OfferedInv, AllEvents
    <2>4. ASSUME NEW v \in Viewers, NEW x \in Deploys, NEW e \in due[v], e[1] = x
          PROVE  /\ e[2] <= emitting'[x].number
                 /\ v \in emitting'[x].pending => e[2] < emitting'[x].number
      <3>1. /\ e[2] <= emitting[x].number
            /\ v \in emitting[x].pending => e[2] < emitting[x].number
        BY <1>0, <2>4 DEF OfferedInv
      <3> QED
        BY <2>1, <2>2, <2>3, <3>1
    <2>5. OfferedInv'
      BY <1>0, <2>1, <2>4 DEF OfferedInv
    <2>6. \A v \in Viewers : SeenOK(v) /\ Seen(v)' = Seen(v)
      BY <2>1 DEF StreamsInv, Seen
    <2>7. \A v \in Viewers : SeenOK(v)'
      BY <2>1, <2>6 DEF SeenOK
    <2> QED
      BY <1>0, <2>5, <2>7 DEF StreamsInv
  <1>6. ASSUME NEW d \in Deploys, Emitted(d) PROVE StreamsInv'
    <2>1. UNCHANGED <<shown, channel, due, skipped, stream>>
      BY <1>6 DEF Emitted, eventsHistory
    <2>2. \A x \in Deploys : emitting'[x].number = emitting[x].number
                               /\ emitting'[x].pending \subseteq emitting[x].pending
      BY <1>0, <1>6 DEF Emitted, EventsInv
    <2> QED
      BY <1>0, <2>1, <2>2, QuietStream
  <1>7. ASSUME NEW d \in Deploys, NEW v \in Viewers, Send(d, v) PROVE StreamsInv'
    <2> DEFINE event == <<d, emitting[d].number>>
    <2>1. event \in AllEvents /\ v \in emitting[d].pending
      BY <1>0, <1>7 DEF Send, EventsInv, AllEvents
    <2>2. stream[v] \in {"open", "leaving"} /\ UNCHANGED <<shown, stream>>
      BY <1>0, <1>7, <2>1 DEF Send, EventsInv, OpenStreams
    <2>3. /\ due'[v] = due[v] \cup {event} /\ \A x \in Viewers \ {v} : due'[x] = due[x]
          /\ due' \in [Viewers -> SUBSET AllEvents]
      BY <1>0, <1>7, <2>1 DEF Send, OfferedInv
    <2>4. /\ emitting'[d].number = emitting[d].number
          /\ emitting'[d].pending = emitting[d].pending \ {v}
          /\ \A x \in Deploys \ {d} : emitting'[x] = emitting[x]
      BY <1>0, <1>7 DEF Send, EventsInv
    <2>5. shown[v] \in Seq(AllEvents) /\ channel[v] \in Seq(AllEvents) /\ skipped[v] \subseteq AllEvents
      BY <1>0 DEF OfferedInv
    <2>6. /\ channel'[v] = AfterSend(channel[v], event)
          /\ \A x \in Viewers \ {v} : channel'[x] = channel[x] /\ skipped'[x] = skipped[x]
          /\ skipped'[v] = IF Len(channel[v]) < Buffer THEN skipped[v] ELSE skipped[v] \cup {event}
      BY <1>0, <1>7 DEF Send, OfferedInv
    <2>7. event[1] = d /\ event[2] = emitting[d].number
      OBVIOUS
    <2> HIDE DEF event
    <2>8. AfterSend(channel[v], event) \in Seq(AllEvents)
      BY <2>1, <2>5 DEF AfterSend
    <2>9. /\ channel' \in [Viewers -> Seq(AllEvents)]
          /\ skipped' \in [Viewers -> SUBSET AllEvents]
      <3>1. channel' = [channel EXCEPT ![v] = AfterSend(@, event)]
        BY <1>7 DEF Send, event
      <3>2. skipped' = skipped \/ skipped' = [skipped EXCEPT ![v] = @ \cup {event}]
        BY <1>7 DEF Send, event
      <3> QED
        BY <1>0, <2>1, <2>8, <3>1, <3>2 DEF OfferedInv
    <2>10. OfferedInv'
      <3> SUFFICES ASSUME NEW x \in Viewers, NEW y \in Deploys, NEW e \in due'[x], e[1] = y
                   PROVE  /\ e[2] <= emitting'[y].number
                          /\ x \in emitting'[y].pending => e[2] < emitting'[y].number
        BY <1>0, <2>2, <2>3, <2>9 DEF OfferedInv
      <3>1. CASE e \in due[x]
        BY <1>0, <2>4, <3>1 DEF OfferedInv
      <3>2. CASE x = v /\ e = event
        BY <1>0, <2>4, <2>7, <3>2 DEF EventsInv
      <3> QED
        BY <2>3, <3>1, <3>2
    <2>11. ASSUME NEW x \in Viewers \ {v} PROVE SeenOK(x)'
      <3>1. Seen(x)' = Seen(x) /\ SeenOK(x)
        BY <2>2, <2>6 DEF Seen, StreamsInv
      <3> QED
        BY <2>2, <2>3, <2>6, <3>1 DEF SeenOK
    <2>12. SeenOK(v)'
      <3>1. SeenOK(v) /\ Seen(v) \in Seq(AllEvents)
        BY <2>5 DEF StreamsInv, Seen
      <3>2. \A e \in due[v] : e[1] = d => e[2] < event[2]
        BY <1>0, <2>1, <2>7 DEF OfferedInv
      <3>3. event \notin due[v]
        <4>1. event[2] \in Nat
          BY <1>0, <2>7 DEF EventsInv
        <4> QED
          BY <2>7, <3>2, <4>1
      <3>4. CASE Len(channel[v]) < Buffer
        <4>1. Seen(v)' = Append(Seen(v), event)
          <5>1. Seen(v)' = shown[v] \o Append(channel[v], event)
            BY <2>2, <2>6, <3>4 DEF AfterSend, Seen
          <5>2. shown[v] \o Append(channel[v], event) = Append(shown[v] \o channel[v], event)
            BY <2>1, <2>5, SeenGrows
          <5> QED
            BY <5>1, <5>2 DEF Seen
        <4>2. Ordered(Seen(v)') /\ Elements(Seen(v)') = Elements(Seen(v)) \cup {event}
          BY <2>1, <2>7, <3>1, <3>2, <4>1, OrderedAppend DEF SeenOK
        <4> QED
          BY <2>2, <2>3, <2>6, <3>1, <3>3, <3>4, <4>2 DEF SeenOK
      <3>5. CASE ~(Len(channel[v]) < Buffer)
        <4>1. Seen(v)' = Seen(v)
          BY <2>2, <2>6, <3>5 DEF AfterSend, Seen
        <4> QED
          BY <2>2, <2>3, <2>6, <3>1, <3>3, <3>5, <4>1 DEF SeenOK
      <3> QED
        BY <3>4, <3>5
    <2> QED
      BY <1>0, <2>10, <2>11, <2>12 DEF StreamsInv
  <1> QED
    BY <1>1, <1>2, <1>3, <1>4, <1>5, <1>6, <1>7, EventsMove DEF EventsNext

\* A viewer is shown the events of each deploy in order, and all of them but
\* those that came while its channel was full.
THEOREM ViewersSeeInOrder == Spec => []StreamsFaithful
  <1>1. StreamsInv => StreamsFaithful
    BY DEF StreamsInv, StreamsFaithful, SeenOK, Seen, Elements, Ordered
  <1> QED
    BY <1>1, InitStreamsInv, StepStreamsInv, PTL DEF Spec

-----------------------------------------------------------------------------
(* The updates.                                                            *)

\* The state has its shape, an update under way has its target, and the timers
\* of a controller do not outlive it.
UpdateInv ==
  /\ UpdateTypeOK
  /\ \A u \in Updates : updates[u].pc \in InController \cup InHelper => updates[u].target \in Releases
  /\ \A u \in Updates : updates[u].pc \in InController => Up

\* u is about to bring the controller back.
Reviving(u) ==
  \/ controller.state = "stopped" /\ updates[u].pc = "remove"
  \/ controller.state = "absent" /\ updates[u].pc = "create"
  \/ controller.state = "created" /\ updates[u].pc = "start" /\ controller.by = u

SurvivalInv == ~cut => Up \/ Restarting \/ \E u \in Updates : Reviving(u)

\* As long as no helpers have overlapped, there is one at most, what it has
\* removed is not there, and no target is behind the image.  Until it stops the
\* controller, that runs or is about to, if nothing was cut off.
AloneInv ==
  ~overlapped =>
    /\ \A u, v \in Updates : Helping(u) /\ Helping(v) => u = v
    /\ \A u \in Updates : updates[u].pc = "create" => controller.state = "absent"
    /\ \A u \in Updates : updates[u].pc = "start" => controller.state = "created"
    /\ \A u \in Updates : updates[u].pc \in {"inspect", "pull", "look", "stop"} /\ ~cut
                            => Up \/ Restarting
    /\ \A u \in Updates : updates[u].pc \in InController \cup InHelper
                            => updates[u].target >= controller.image

\* If nothing was cut off either, and no helper has missed them, the ports are
\* where they were.
PortsInv ==
  ~overlapped /\ ~cut /\ ~blinded =>
    /\ controller.state # "absent" => controller.ports
    /\ \A u \in Updates : updates[u].pc \in InHelper \ {"inspect"} => updates[u].ports

\* The order of the helper's calls.
LEMMA FollowingIs ==
  /\ Following["timer"] = "inspect" /\ Following["inspect"] = "pull"
  /\ Following["pull"] = "look" /\ Following["look"] = "stop" /\ Following["stop"] = "remove"
  /\ Following["remove"] = "create" /\ Following["create"] = "start"
  /\ Following["start"] = "done"
  BY DEF Following

AllUpdateInv == UpdateInv /\ SurvivalInv /\ AloneInv /\ PortsInv

\* The controller runs as installed, and no update has begun.
LEMMA InitUpdateInv == Init => AllUpdateInv
  <1> SUFFICES ASSUME Init PROVE AllUpdateInv
    OBVIOUS
  <1>1. Unused \in Update /\ controller \in Container /\ Up
    BY ReleasesAssumption DEF Init, UpdateInit, Unused, Update, Container, States, Up
  <1>2. \A u \in Updates : updates[u].pc = "unused"
    BY DEF Init, UpdateInit, Unused
  <1>3. UpdateTypeOK
    BY <1>1, ReleasesAssumption DEF Init, UpdateInit, UpdateTypeOK
  <1>4. "unused" \notin InController \cup InHelper
    BY DEF InController, InHelper
  <1>5. controller.ports
    BY DEF Init, UpdateInit
  <1> QED
    BY <1>1, <1>2, <1>3, <1>4, <1>5
       DEF AllUpdateInv, UpdateInv, SurvivalInv, AloneInv, PortsInv, Helping

\* u goes on to pc; of the others, a timer may end with the process.
Moves(u, pc) ==
  /\ updates' \in [Updates -> Update]
  /\ updates'[u].pc = pc
  /\ \A x \in Updates \ {u} :
       \/ updates'[x] = updates[x]
       \/ updates[x].pc \in InController /\ updates'[x].pc = "done"

Keeps(u) == updates'[u].target = updates[u].target /\ updates'[u].ports = updates[u].ports

Places == {"unused", "done"} \cup InController \cup InHelper

\* An update that only goes on in its code keeps its target and its ports.
LEMMA ComesMoves ==
  ASSUME updates \in [Updates -> Update], NEW u \in Updates, NEW pc \in Places,
         Comes(u, pc)
  PROVE  Moves(u, pc) /\ (pc # "done" => Keeps(u))
  <1>1. updates[u] \in Update /\ [updates[u] EXCEPT !.pc = pc] \in Update /\ Over \in Update
    BY DEF Update, Places, Over
  <1>2. updates'[u] = IF pc = "done" THEN Over ELSE [updates[u] EXCEPT !.pc = pc]
    BY DEF Comes
  <1>3. \A x \in Updates \ {u} : updates'[x] = updates[x]
    BY DEF Comes
  <1>4. updates' \in [Updates -> Update]
    BY <1>1 DEF Comes
  <1>5. updates'[u].pc = pc
    BY <1>1, <1>2 DEF Over, Update
  <1>6. pc # "done" => Keeps(u)
    BY <1>1, <1>2 DEF Keeps, Update
  <1> QED
    BY <1>3, <1>4, <1>5, <1>6 DEF Moves

\* The timers that a process takes with it.
LEMMA TimersEnd ==
  ASSUME NEW after \in [Updates -> Update], restarts \in BOOLEAN, TimersLost(after)
  PROVE  /\ updates' \in [Updates -> Update] /\ restarts' \in BOOLEAN
         /\ \A x \in Updates : \/ updates'[x] = after[x]
                               \/ after[x].pc \in InController /\ updates'[x].pc = "done"
         /\ Up => \A x \in Updates : updates'[x].pc \notin InController
  <1>1. \A x \in Updates : after[x] \in Update /\ Over \in Update
    BY DEF Update, Over
  <1>2. /\ \A x \in Updates : updates'[x] =
             IF Up /\ after[x].pc \in InController THEN Over ELSE after[x]
        /\ updates' \in [Updates -> Update] /\ restarts' \in BOOLEAN
    BY <1>1 DEF TimersLost
  <1>3. Over.pc = "done"
    BY DEF Over
  <1>4. "done" \notin InController
    BY DEF InController
  <1>5. \A x \in Updates : \/ updates'[x] = after[x]
                           \/ after[x].pc \in InController /\ updates'[x].pc = "done"
    BY <1>2, <1>3
  <1>6. Up => \A x \in Updates : updates'[x].pc \notin InController
    BY <1>2, <1>3, <1>4
  <1> QED
    BY <1>2, <1>5, <1>6

\* The same, when its step takes the process down.
LEMMA TimersLostMoves ==
  ASSUME updates \in [Updates -> Update], restarts \in BOOLEAN,
         NEW u \in Updates, NEW pc \in Places \ InController,
         TimersLost([updates EXCEPT ![u].pc = pc])
  PROVE  /\ Moves(u, pc) /\ Keeps(u) /\ restarts' \in BOOLEAN
         /\ Up => \A x \in Updates : updates'[x].pc \notin InController
  <1> DEFINE after == [updates EXCEPT ![u].pc = pc]
  <1>1. updates[u] \in Update /\ [updates[u] EXCEPT !.pc = pc] \in Update
    BY DEF Update, Places
  <1>2. after[u] = [updates[u] EXCEPT !.pc = pc] /\ after \in [Updates -> Update]
    BY <1>1
  <1>3. \A x \in Updates \ {u} : after[x] = updates[x]
    OBVIOUS
  <1>4. after[u].pc = pc /\ after[u].target = updates[u].target /\ after[u].ports = updates[u].ports
    BY <1>1, <1>2 DEF Update
  <1>5. TimersLost(after)
    OBVIOUS
  <1> HIDE DEF after
  <1> QED
    BY <1>2, <1>3, <1>4, <1>5, TimersEnd DEF Moves, Keeps

\* Whoever is about to bring the controller back still is, unless it is u.
LEMMA SurvivalKept ==
  ASSUME SurvivalInv, NEW u \in Updates, NEW pc, Moves(u, pc), UNCHANGED <<controller, cut>>,
         updates[u].pc \notin {"remove", "create", "start"}
  PROVE  SurvivalInv'
  <1> SUFFICES ASSUME ~cut, ~Up, ~Restarting PROVE \E x \in Updates : Reviving(x)'
    BY DEF SurvivalInv, Up, Restarting
  <1>1. PICK x \in Updates : Reviving(x)
    BY DEF SurvivalInv
  <1>2. updates[x].pc \in {"remove", "create", "start"}
    BY <1>1 DEF Reviving
  <1>3. updates'[x] = updates[x]
    BY <1>2 DEF Moves, InController
  <1> QED
    BY <1>1, <1>3 DEF Reviving

\* Every action preserves the invariants of the updates.
LEMMA StepUpdateInv == AllUpdateInv /\ [Next]_vars => AllUpdateInv'
  <1> SUFFICES ASSUME AllUpdateInv, [Next]_vars PROVE AllUpdateInv'
    OBVIOUS
  <1> USE BoundsAssumption, ReleasesAssumption
  <1>0. /\ updates \in [Updates -> Update] /\ restarts \in BOOLEAN
        /\ controller \in Container /\ SurvivalInv
        /\ \A u \in Updates : updates[u] \in Update
    BY DEF AllUpdateInv, UpdateInv, UpdateTypeOK
  <1>1. CASE UNCHANGED <<controller, updateVars>>
             \/ (Up /\ (HandleSettingsRestart \/ RestartFails))
    <2>1. UNCHANGED <<controller, updates, overlapped, cut, blinded>> /\ restarts' \in BOOLEAN
      BY <1>0, <1>1 DEF updateVars, HandleSettingsRestart, RestartFails
    <2> QED
      BY <2>1 DEF AllUpdateInv, UpdateInv, UpdateTypeOK, SurvivalInv, Reviving, AloneInv, Helping,
                  PortsInv, Up, Restarting
  <1>2. CASE RestartController \/ Crash
    <2>1. /\ UNCHANGED <<overlapped, cut, blinded>> /\ Up /\ TimersLost(updates)
          /\ controller' = [controller EXCEPT !.state = "restarting"]
      BY <1>2 DEF RestartController, Crash, Stops
    <2>2. /\ updates' \in [Updates -> Update] /\ restarts' \in BOOLEAN
          /\ \A x \in Updates : \/ updates'[x] = updates[x]
                                \/ updates[x].pc \in InController /\ updates'[x].pc = "done"
          /\ \A x \in Updates : updates'[x].pc \notin InController
      BY <1>0, <2>1, TimersEnd
    <2>3. /\ controller' \in Container /\ controller'.state = "restarting"
          /\ controller'.image = controller.image /\ controller'.ports = controller.ports
          /\ controller.state = "running"
      BY <1>0, <2>1 DEF Container, States, Up
    <2>4. UpdateInv'
      BY <2>1, <2>2, <2>3 DEF AllUpdateInv, UpdateInv, UpdateTypeOK, InController, InHelper
    <2>5. SurvivalInv'
      BY <2>3 DEF SurvivalInv, Restarting
    <2>6. AloneInv'
      BY <2>1, <2>2, <2>3 DEF AllUpdateInv, AloneInv, Helping, InController, InHelper, Restarting
    <2>7. PortsInv'
      BY <2>1, <2>2, <2>3 DEF AllUpdateInv, PortsInv, InController, InHelper
    <2> QED
      BY <2>4, <2>5, <2>6, <2>7 DEF AllUpdateInv
  <1>3. CASE DockerStarts
    <2>1. /\ UNCHANGED <<updates, restarts, overlapped, blinded>> /\ controller.state = "restarting"
          /\ controller' \in Container
          /\ controller'.image = controller.image /\ controller'.ports = controller.ports
          /\ \/ controller'.state = "running" /\ cut' = cut
             \/ controller'.state = "stopped" /\ cut' = TRUE
      BY <1>0, <1>3 DEF DockerStarts, Restarting, Container, States
    <2>2. UpdateInv'
      BY <2>1 DEF AllUpdateInv, UpdateInv, UpdateTypeOK, Up
    <2>3. SurvivalInv'
      BY <2>1 DEF SurvivalInv, Up
    <2>4. AloneInv'
      BY <2>1 DEF AllUpdateInv, AloneInv, Helping, Up
    <2>5. PortsInv'
      BY <2>1 DEF AllUpdateInv, PortsInv
    <2> QED
      BY <2>2, <2>3, <2>4, <2>5 DEF AllUpdateInv
  <1>4. ASSUME NEW u \in Updates, Up, HandleSettingsUpdate(u) PROVE AllUpdateInv'
    <2>1. PICK latest \in Releases :
            /\ Newer(latest, controller.image)
            /\ updates' = [updates EXCEPT ![u] = [pc |-> "timer", target |-> latest, ports |-> FALSE]]
            /\ updates[u].pc = "unused"
            /\ UNCHANGED <<controller, restarts, overlapped, cut, blinded>>
      BY <1>4 DEF HandleSettingsUpdate
    <2>2. Moves(u, "timer") /\ updates'[u].target = latest
      <3>1. [pc |-> "timer", target |-> latest, ports |-> FALSE] \in Update
        BY DEF Update, InController
      <3> QED
        BY <1>0, <2>1, <3>1 DEF Moves
    <2>7. latest >= controller.image
      <3>1. latest \in Nat /\ controller.image \in Nat
        BY <1>0 DEF Container
      <3> QED
        BY <2>1, <3>1 DEF Newer
    <2>3. UpdateInv'
      BY <2>1, <2>2, <1>4 DEF AllUpdateInv, UpdateInv, UpdateTypeOK, Moves, Keeps, InController, InHelper, Up
    <2>4. SurvivalInv'
      BY <1>0, <2>1, <2>2, SurvivalKept
    <2>5. AloneInv'
      BY <2>1, <2>2, <2>7, <1>4, <1>0 DEF AllUpdateInv, AloneInv, Helping, Moves, Keeps, InController, InHelper, Up, Restarting
    <2>6. PortsInv'
      BY <2>1, <2>2, <1>4 DEF AllUpdateInv, AloneInv, PortsInv, Moves, Keeps, InController, InHelper, Up
    <2> QED
      BY <2>3, <2>4, <2>5, <2>6 DEF AllUpdateInv
  <1>5. ASSUME NEW u \in Updates, Up, StartControllerUpdate(u) PROVE AllUpdateInv'
    <2>1. PICK pc \in {"inspect", "done"} :
            /\ Moves(u, pc) /\ (pc # "done" => Keeps(u))
            /\ overlapped' = (overlapped \/ (pc = "inspect" /\ \E x \in Updates : Helping(x)))
      BY <1>0, <1>5, ComesMoves, FollowingIs DEF StartControllerUpdate, Places, InController, InHelper
    <2>2. UNCHANGED <<controller, restarts, cut, blinded>> /\ updates[u].pc = "timer"
          /\ overlapped \in BOOLEAN
      BY <1>5 DEF StartControllerUpdate, AllUpdateInv, UpdateInv, UpdateTypeOK
    <2>3. UpdateInv'
      BY <2>1, <2>2, <1>5 DEF AllUpdateInv, UpdateInv, UpdateTypeOK, Moves, Keeps, InController, InHelper, Up
    <2>4. SurvivalInv'
      BY <1>0, <2>1, <2>2, SurvivalKept
    <2>5. AloneInv'
      BY ZenonT(30), <2>1, <2>2, <1>5 DEF AllUpdateInv, AloneInv, Helping, Moves, Keeps, InController, InHelper, Up, Restarting
    <2>6. PortsInv'
      BY <2>1, <2>2, <1>5 DEF AllUpdateInv, AloneInv, PortsInv, Moves, Keeps, InController, InHelper, Up
    <2> QED
      BY <2>3, <2>4, <2>5, <2>6 DEF AllUpdateInv
  <1>6. ASSUME NEW u \in Updates, Inspect(u) PROVE AllUpdateInv'
    <2>1. PICK pc \in {"pull", "done"} :
            /\ Moves(u, pc)
            /\ pc # "done" => /\ updates'[u].target = updates[u].target
                              /\ updates'[u].ports = (Up /\ controller.ports)
      <3>1. updates[u] \in Update /\ Over \in Update /\ Over.pc = "done"
        BY <1>0 DEF Update, Over
      <3>2. CASE controller.state = "absent"
        <4>1. updates' = [updates EXCEPT ![u] = Over]
          BY <1>6, <3>2 DEF Inspect
        <4> QED
          BY <1>0, <3>1, <4>1 DEF Moves
      <3>3. CASE controller.state # "absent"
        <4> DEFINE after == [updates[u] EXCEPT !.pc = "pull", !.ports = (Up /\ controller.ports)]
        <4>1. updates' = [updates EXCEPT ![u] = after]
          BY <1>6, <3>3, FollowingIs DEF Inspect
        <4>2. (Up /\ controller.ports) \in BOOLEAN
          BY <1>0 DEF Container
        <4>3. /\ after \in Update /\ after.pc = "pull" /\ after.target = updates[u].target
              /\ after.ports = (Up /\ controller.ports)
          BY <3>1, <4>2 DEF Update, InHelper
        <4> HIDE DEF after
        <4> QED
          BY <1>0, <4>1, <4>3 DEF Moves
      <3> QED
        BY <3>2, <3>3
    <2>2. /\ UNCHANGED <<controller, restarts, overlapped, cut>> /\ updates[u].pc = "inspect"
          /\ blinded' = (blinded \/ Restarting) /\ blinded \in BOOLEAN
      BY <1>6 DEF Inspect, AllUpdateInv, UpdateInv, UpdateTypeOK
    <2>3. UpdateInv'
      BY <2>1, <2>2 DEF AllUpdateInv, UpdateInv, UpdateTypeOK, Moves, Keeps, InController, InHelper, Up
    <2>4. SurvivalInv'
      BY <1>0, <2>1, <2>2, SurvivalKept
    <2>5. AloneInv'
      BY <2>1, <2>2 DEF AllUpdateInv, AloneInv, Helping, Moves, Keeps, InController, InHelper, Up, Restarting
    <2>6. PortsInv'
      BY <2>1, <2>2 DEF AllUpdateInv, AloneInv, PortsInv, Moves, Keeps, InController, InHelper, Up
    <2> QED
      BY <2>3, <2>4, <2>5, <2>6 DEF AllUpdateInv
  <1>7. ASSUME NEW u \in Updates, Pull(u) PROVE AllUpdateInv'
    <2>1. PICK pc \in {"look", "done"} : Moves(u, pc) /\ (pc # "done" => Keeps(u))
      BY <1>0, <1>7, ComesMoves, FollowingIs DEF Pull, Places, InController, InHelper
    <2>2. UNCHANGED <<controller, restarts, overlapped, cut, blinded>> /\ updates[u].pc = "pull"
      BY <1>7 DEF Pull
    <2>3. UpdateInv'
      BY <2>1, <2>2 DEF AllUpdateInv, UpdateInv, UpdateTypeOK, Moves, Keeps, InController, InHelper, Up
    <2>4. SurvivalInv'
      BY <1>0, <2>1, <2>2, SurvivalKept
    <2>5. AloneInv'
      BY <2>1, <2>2 DEF AllUpdateInv, AloneInv, Helping, Moves, Keeps, InController, InHelper, Up, Restarting
    <2>6. PortsInv'
      BY <2>1, <2>2 DEF AllUpdateInv, AloneInv, PortsInv, Moves, Keeps, InController, InHelper, Up
    <2> QED
      BY <2>3, <2>4, <2>5, <2>6 DEF AllUpdateInv
  <1>8. ASSUME NEW u \in Updates, Look(u) PROVE AllUpdateInv'
    <2>1. PICK pc \in {"stop", "create"} :
            Moves(u, pc) /\ (pc # "done" => Keeps(u)) /\ (pc = "create" <=> controller.state = "absent")
      BY <1>0, <1>8, ComesMoves, FollowingIs DEF Look, Places, InController, InHelper
    <2>2. UNCHANGED <<controller, restarts, overlapped, cut, blinded>> /\ updates[u].pc = "look"
      BY <1>8 DEF Look
    <2>3. UpdateInv'
      BY <2>1, <2>2 DEF AllUpdateInv, UpdateInv, UpdateTypeOK, Moves, Keeps, InController, InHelper, Up
    <2>4. SurvivalInv'
      BY <1>0, <2>1, <2>2, SurvivalKept
    <2>5. AloneInv'
      BY <2>1, <2>2 DEF AllUpdateInv, AloneInv, Helping, Moves, Keeps, InController, InHelper, Up, Restarting
    <2>6. PortsInv'
      BY <2>1, <2>2 DEF AllUpdateInv, AloneInv, PortsInv, Moves, Keeps, InController, InHelper, Up
    <2> QED
      BY <2>3, <2>4, <2>5, <2>6 DEF AllUpdateInv
  <1>9. ASSUME NEW u \in Updates, Stop(u) PROVE AllUpdateInv'
    <2>1. /\ Moves(u, "remove") /\ Keeps(u) /\ restarts' \in BOOLEAN
          /\ Up => \A x \in Updates : updates'[x].pc \notin InController
      BY <1>0, <1>9, TimersLostMoves, FollowingIs DEF Stop, Places, InController, InHelper
    <2>2. /\ UNCHANGED <<overlapped, cut, blinded>> /\ updates[u].pc = "stop"
          /\ controller' \in Container /\ controller'.state \in AfterStop
          /\ controller'.image = controller.image /\ controller'.ports = controller.ports
          /\ controller'.by = controller.by
      BY <1>0, <1>9 DEF Stop, AfterStop, Container, States, Up, Restarting
    <2>7. /\ Up => controller'.state = "stopped"
          /\ Restarting => controller'.state \in {"stopped", "restarting"}
          /\ ~Up /\ ~Restarting => controller'.state = controller.state
      BY <2>2 DEF AfterStop, Up, Restarting
    <2>3. UpdateInv'
      BY <2>1, <2>2, <2>7 DEF AllUpdateInv, UpdateInv, UpdateTypeOK, Moves, Keeps, InController, InHelper, Up, Restarting
    <2>4. SurvivalInv'
      <3>1. CASE controller'.state = "stopped" /\ (Up \/ Restarting)
        <4>1. Reviving(u)'
          BY <2>1, <2>2, <3>1 DEF Reviving, Moves
        <4> QED
          BY <4>1 DEF SurvivalInv
      <3>2. CASE controller'.state = "restarting"
        BY <3>2 DEF SurvivalInv, Restarting
      <3>3. CASE ~Up /\ ~Restarting
        <4> SUFFICES ASSUME ~cut PROVE \E x \in Updates : Reviving(x)'
          BY <2>2 DEF SurvivalInv
        <4>1. PICK x \in Updates : Reviving(x)
          BY <1>0, <3>3 DEF SurvivalInv
        <4>2. x # u /\ updates'[x] = updates[x]
          BY <2>1, <2>2, <4>1 DEF Reviving, Moves, InController
        <4> QED
          BY <2>2, <2>7, <3>3, <4>1, <4>2 DEF Reviving
      <3> QED
        BY <2>7, <3>1, <3>2, <3>3
    <2>5. AloneInv'
      BY <2>1, <2>2, <2>7 DEF AllUpdateInv, AloneInv, Helping, Moves, Keeps, InController, InHelper, Up, Restarting
    <2>6. PortsInv'
      BY <2>1, <2>2, <2>7 DEF AllUpdateInv, AloneInv, PortsInv, Moves, Keeps, InController, InHelper, Up, Restarting
    <2> QED
      BY <2>3, <2>4, <2>5, <2>6 DEF AllUpdateInv
  <1>10. ASSUME NEW u \in Updates, Remove(u) PROVE AllUpdateInv'
    <2>1. /\ Moves(u, "create") /\ Keeps(u) /\ restarts' \in BOOLEAN
          /\ Up => \A x \in Updates : updates'[x].pc \notin InController
      BY <1>0, <1>10, TimersLostMoves, FollowingIs DEF Remove, Places, InController, InHelper
    <2>2. /\ UNCHANGED <<overlapped, cut, blinded>> /\ updates[u].pc = "remove"
          /\ controller' \in Container
          /\ controller'.state = "absent" /\ controller'.image = controller.image
      BY <1>0, <1>10 DEF Remove, Container, States
    <2>3. UpdateInv'
      BY <2>1, <2>2 DEF AllUpdateInv, UpdateInv, UpdateTypeOK, Moves, Keeps, InController, InHelper, Up
    <2>4. SurvivalInv'
      <3>1. Reviving(u)'
        BY <2>1, <2>2 DEF Reviving, Moves
      <3> QED
        BY <3>1 DEF SurvivalInv
    <2>5. AloneInv'
      BY <2>1, <2>2 DEF AllUpdateInv, AloneInv, Helping, Moves, Keeps, InController, InHelper, Up, Restarting
    <2>6. PortsInv'
      BY <2>1, <2>2 DEF AllUpdateInv, AloneInv, PortsInv, Moves, Keeps, InController, InHelper, Up
    <2> QED
      BY <2>3, <2>4, <2>5, <2>6 DEF AllUpdateInv
  <1>11. ASSUME NEW u \in Updates, Create(u) PROVE AllUpdateInv'
    <2>1. PICK pc \in {"start", "done"} :
            /\ Moves(u, pc) /\ (pc # "done" => Keeps(u))
            /\ pc = "start" <=> controller.state = "absent"
      BY <1>0, <1>11, ComesMoves, FollowingIs DEF Create, Places, InController, InHelper
    <2>2. /\ UNCHANGED <<restarts, overlapped, cut, blinded>> /\ updates[u].pc = "create"
          /\ controller' \in Container
          /\ IF controller.state = "absent"
               THEN /\ controller'.state = "created" /\ controller'.by = u
                    /\ controller'.image = updates[u].target
                    /\ controller'.ports = updates[u].ports
               ELSE UNCHANGED controller
      <3>1. updates[u].target \in Releases /\ updates[u].ports \in BOOLEAN
        BY <1>0, <1>11 DEF Create, AllUpdateInv, UpdateInv, InHelper, Update
      <3> QED
        BY <1>0, <1>11, <3>1 DEF Create, Container, States
    <2>7. /\ updates[u].target \in Nat
          /\ ~Up => \A x \in Updates : updates[x].pc \notin InController
      BY <1>0, <2>2 DEF AllUpdateInv, UpdateInv, InHelper
    <2>3. UpdateInv'
      BY <2>1, <2>2 DEF AllUpdateInv, UpdateInv, UpdateTypeOK, Moves, Keeps, InController, InHelper, Up
    <2>4. SurvivalInv'
      <3>1. CASE controller.state = "absent"
        <4>1. Reviving(u)'
          BY <2>1, <2>2, <3>1 DEF Reviving, Moves
        <4> QED
          BY <4>1 DEF SurvivalInv
      <3>2. CASE controller.state # "absent"
        <4> SUFFICES ASSUME ~cut, ~Up, ~Restarting PROVE \E x \in Updates : Reviving(x)'
          BY <2>2, <3>2 DEF SurvivalInv, Up, Restarting
        <4>1. PICK x \in Updates : Reviving(x)
          BY <1>0 DEF SurvivalInv
        <4>2. x # u /\ updates'[x] = updates[x]
          BY <2>1, <2>2, <3>2, <4>1 DEF Reviving, Moves, InController
        <4> QED
          BY <2>2, <3>2, <4>1, <4>2 DEF Reviving
      <3> QED
        BY <3>1, <3>2
    <2>5. AloneInv'
      BY <2>1, <2>2, <2>7 DEF AllUpdateInv, AloneInv, Helping, Moves, Keeps, InController, InHelper, Up, Restarting
    <2>6. PortsInv'
      BY <2>1, <2>2 DEF AllUpdateInv, AloneInv, PortsInv, Moves, Keeps, InController, InHelper, Up
    <2> QED
      BY <2>3, <2>4, <2>5, <2>6 DEF AllUpdateInv
  <1>12. ASSUME NEW u \in Updates, StartMine(u) PROVE AllUpdateInv'
    <2>1. Moves(u, "done")
      BY <1>0, <1>12, ComesMoves DEF StartMine, Places
    <2>2. /\ UNCHANGED <<restarts, overlapped, cut, blinded>> /\ updates[u].pc = "start"
          /\ controller' \in Container
          /\ IF controller.by = u /\ controller.state # "absent"
               THEN controller'.state = "running" ELSE UNCHANGED controller
          /\ controller'.image = controller.image /\ controller'.ports = controller.ports
      BY <1>0, <1>12 DEF StartMine, Container, States
    <2>3. UpdateInv'
      BY <2>1, <2>2 DEF AllUpdateInv, UpdateInv, UpdateTypeOK, Moves, Keeps, InController, InHelper, Up
    <2>4. SurvivalInv'
      BY <1>0, <2>1, <2>2 DEF SurvivalInv, Reviving, Moves, InController, Up, Restarting
    <2>5. AloneInv'
      BY <2>1, <2>2 DEF AllUpdateInv, AloneInv, Helping, Moves, Keeps, InController, InHelper, Up, Restarting
    <2>6. PortsInv'
      BY <2>1, <2>2 DEF AllUpdateInv, AloneInv, PortsInv, Moves, Keeps, InController, InHelper, Up
    <2> QED
      BY <2>3, <2>4, <2>5, <2>6 DEF AllUpdateInv
  <1>13. ASSUME NEW u \in Updates, HelperCut(u) PROVE AllUpdateInv'
    <2>1. Moves(u, "done")
      BY <1>0, <1>13, ComesMoves DEF HelperCut, Places
    <2>2. /\ UNCHANGED <<controller, restarts, overlapped, blinded>>
          /\ cut' = (cut \/ updates[u].pc \in {"remove", "create", "start"}) /\ cut \in BOOLEAN
          /\ updates[u].pc \in InHelper
      BY <1>13 DEF HelperCut, Helping, AllUpdateInv, UpdateInv, UpdateTypeOK
    <2>3. UpdateInv'
      BY <2>1, <2>2 DEF AllUpdateInv, UpdateInv, UpdateTypeOK, Moves, Keeps, InController, InHelper, Up
    <2>4. SurvivalInv'
      <3>1. CASE cut'
        BY <3>1 DEF SurvivalInv
      <3>2. CASE ~cut'
        <4>1. updates[u].pc \notin {"remove", "create", "start"} /\ cut' = cut
          BY <2>2, <3>2
        <4> QED
          BY <1>0, <2>1, <2>2, <4>1, SurvivalKept
      <3> QED
        BY <3>1, <3>2
    <2>5. AloneInv'
      BY <2>1, <2>2 DEF AllUpdateInv, AloneInv, Helping, Moves, Keeps, InController, InHelper, Up, Restarting
    <2>6. PortsInv'
      BY <2>1, <2>2 DEF AllUpdateInv, AloneInv, PortsInv, Moves, Keeps, InController, InHelper, Up
    <2> QED
      BY <2>3, <2>4, <2>5, <2>6 DEF AllUpdateInv
  <1> QED
    BY <1>1, <1>2, <1>3, <1>4, <1>5, <1>6, <1>7, <1>8, <1>9, <1>10, <1>11, <1>12, <1>13, UpdateMove
       DEF InControllerNext, HelpersNext

\* Whatever helpers overlap, the last one to end leaves a controller that runs,
\* unless one was cut off.
THEOREM ControllerAlwaysReturns == Spec => []ControllerSurvives
  <1>1. AllUpdateInv => ControllerSurvives
    BY DEF AllUpdateInv, SurvivalInv, Reviving, ControllerSurvives, Helping, InHelper
  <1> QED
    BY <1>1, InitUpdateInv, StepUpdateInv, PTL DEF Spec

\* An update that runs alone leaves the controller the ports it had.
THEOREM PortsStay == Spec => []PortsKept
  <1>1. AllUpdateInv => PortsKept
    BY DEF AllUpdateInv, PortsInv, PortsKept, Up
  <1> QED
    BY <1>1, InitUpdateInv, StepUpdateInv, PTL DEF Spec

\* Updates that do not overlap never take the controller back to an older
\* release.
THEOREM NoDowngrade == Spec => ReleasesForward
  <1>1. AllUpdateInv /\ [Next]_vars =>
          [~overlapped' => controller'.image >= controller.image]_<<controller, updateVars>>
    <2> SUFFICES ASSUME AllUpdateInv, [Next]_vars, ~overlapped'
                 PROVE  controller'.image >= controller.image
      OBVIOUS
    <2>1. controller \in Container /\ controller.image \in Nat
      BY ReleasesAssumption DEF AllUpdateInv, UpdateInv, UpdateTypeOK, Container
    <2>2. CASE controller'.image = controller.image
      BY <2>1, <2>2
    <2>3. ASSUME NEW u \in Updates, Create(u) PROVE controller'.image >= controller.image
      <3>1. ~overlapped
        BY <2>3 DEF Create
      <3>2. updates[u].target >= controller.image
        BY <2>3, <3>1 DEF AllUpdateInv, AloneInv, Create, InHelper
      <3> QED
        BY <2>1, <2>3, <3>2 DEF Create
    <2>4. ASSUME NEW u \in Updates, Stop(u) \/ Remove(u) \/ StartMine(u)
          PROVE  controller'.image = controller.image
      BY <2>1, <2>4 DEF Stop, Remove, StartMine, Container
    <2>7. CASE RestartController \/ Crash \/ DockerStarts
      BY <2>1, <2>2, <2>7 DEF RestartController, Crash, Stops, DockerStarts, Container
    <2>5. ASSUME NEW u \in Updates, Inspect(u) \/ Pull(u) \/ Look(u) \/ HelperCut(u)
          PROVE  controller'.image = controller.image
      BY <2>5 DEF Inspect, Pull, Look, HelperCut
    <2>6. CASE InControllerNext \/ UNCHANGED <<controller, updateVars>>
      <3>1. UNCHANGED controller
        BY <2>6 DEF InControllerNext, HandleSettingsUpdate, StartControllerUpdate,
                    HandleSettingsRestart, RestartFails
      <3> QED
        BY <2>2, <3>1
    <2> QED
      BY <2>2, <2>3, <2>4, <2>5, <2>6, <2>7, UpdateMove DEF HelpersNext
  <1> QED
    BY <1>1, InitUpdateInv, StepUpdateInv, PTL DEF Spec, ReleasesForward

-----------------------------------------------------------------------------
(* The monitor.                                                            *)

\* While the goroutine waits, lastSent is not behind any mail that went out
\* without an error; from the check to the mail, the cooldown since the last one
\* is over; until it is recorded, the mail is the only one not in lastSent.
MonitorInv ==
  /\ clock \in Int
  /\ monitor \in [pc : {"wait", "send", "record"}, key : SUBSET Resources, at : Int]
  /\ monitor.pc # "wait" => monitor.key \in Keys
  /\ lastSent \in [Keys -> Int \cup {None}]
  /\ \A m \in mails : m.key \in Keys /\ m.at \in Int /\ m.at <= clock
  /\ \A m \in mails : m.sure /\ ~(monitor.pc = "record" /\ monitor.key = m.key) =>
       lastSent[m.key] # None /\ m.at <= lastSent[m.key]
  /\ monitor.pc = "send" =>
       \A m \in mails : m.sure /\ m.key = monitor.key => clock - m.at >= Cooldown
  /\ monitor.pc = "record" => \E m \in mails : m.key = monitor.key /\ m.sure
  /\ \A k \in Keys : lastSent[k] # None => \E m \in mails : m.key = k /\ m.sure
  /\ MailsSpaced

\* No mail has been sent.
LEMMA InitMonitorInv == Init => MonitorInv
  BY DEF Init, MonitorInit, MonitorInv, Waiting, MailsSpaced

\* Every action preserves MonitorInv.
LEMMA StepMonitorInv == MonitorInv /\ [Next]_vars => MonitorInv'
  <1> SUFFICES ASSUME MonitorInv, [Next]_vars PROVE MonitorInv'
    OBVIOUS
  <1> USE MonitorAssumption, BoundsAssumption DEF MonitorInv, MailsSpaced
  <1>1. /\ clock' \in Int /\ clock' >= clock
        /\ \/ MonitorNext /\ clock' = clock
           \/ MonitorLost \/ MonitorStart \/ UNCHANGED monitorVars
    BY MonitorMove
  <1>2. CASE UNCHANGED monitorVars
    BY <1>1, <1>2 DEF monitorVars
  <1>3. CASE MonitorLost \/ MonitorStart
    BY <1>1, <1>3 DEF MonitorLost, MonitorStart, Waiting
  <1>4. CASE CheckAndNotify /\ clock' = clock
    <2>1. PICK low \in SUBSET Resources :
            IF low = {} \/ CoolingDown(low)
              THEN monitor' = Waiting(clock + Interval)
              ELSE monitor' = [pc |-> "send", key |-> low, at |-> clock]
      BY <1>4 DEF CheckAndNotify
    <2>2. monitor.pc = "wait" /\ UNCHANGED <<lastSent, mails>>
      BY <1>4 DEF CheckAndNotify
    <2>3. CASE low = {} \/ CoolingDown(low)
      BY <1>4, <2>1, <2>2, <2>3 DEF Waiting
    <2>4. CASE ~(low = {} \/ CoolingDown(low))
      <3>1. low \in Keys
        BY <2>4 DEF Keys
      <3>2. \A m \in mails : m.sure /\ m.key = low => clock - m.at >= Cooldown
        BY <2>2, <2>4, <3>1 DEF CoolingDown
      <3> QED
        BY <1>4, <2>1, <2>2, <2>4, <3>1, <3>2
    <2> QED
      BY <2>3, <2>4
  <1>5. CASE SendMail /\ clock' = clock
    <2>1. PICK fails \in BOOLEAN, arrives \in BOOLEAN :
            /\ fails \/ arrives
            /\ mails' = IF arrives
                        THEN mails \cup {[key |-> monitor.key, at |-> clock, sure |-> ~fails]}
                        ELSE mails
            /\ monitor' = IF fails THEN AfterFailure ELSE [monitor EXCEPT !.pc = "record"]
      BY <1>5 DEF SendMail
    <2>2. monitor.pc = "send" /\ UNCHANGED lastSent
      BY <1>5 DEF SendMail
    <2>3. /\ IF fails THEN monitor'.pc = "wait"
                      ELSE monitor'.pc = "record" /\ monitor'.key = monitor.key
          /\ monitor' \in [pc : {"wait", "send", "record"}, key : SUBSET Resources, at : Int]
      BY <1>5, <2>1, <2>2 DEF AfterFailure, Waiting
    <2> DEFINE mail == [key |-> monitor.key, at |-> clock, sure |-> ~fails]
    <2>4. mails' \subseteq mails \cup {mail} /\ mails \subseteq mails' /\ (~fails => mail \in mails')
      BY <2>1
    <2>5. mail.key = monitor.key /\ mail.at = clock /\ mail.sure = ~fails /\ monitor.key \in Keys
      BY <2>2
    <2> HIDE DEF mail
    <2>6. MailsSpaced'
      BY <1>5, <2>2, <2>4, <2>5
    <2>7. \A m \in mails' : m.sure /\ ~(monitor'.pc = "record" /\ monitor'.key = m.key) =>
            lastSent[m.key] # None /\ m.at <= lastSent[m.key]
      BY <2>2, <2>3, <2>4, <2>5
    <2>8. monitor'.pc = "record" => \E m \in mails' : m.key = monitor'.key /\ m.sure
      BY <2>3, <2>4, <2>5
    <2>9. \A k \in Keys : lastSent'[k] # None => \E m \in mails' : m.key = k /\ m.sure
      BY <2>2, <2>4
    <2>10. \A m \in mails' : m.key \in Keys /\ m.at \in Int /\ m.at <= clock
      BY <2>4, <2>5
    <2>11. monitor'.pc # "send" /\ (monitor'.pc # "wait" => monitor'.key \in Keys)
      BY <2>3, <2>5
    <2> QED
      BY <1>5, <2>2, <2>3, <2>6, <2>7, <2>8, <2>9, <2>10, <2>11
  <1>6. CASE RecordSent /\ clock' = clock
    BY <1>6 DEF RecordSent, SentAt, Waiting
  <1> QED
    BY <1>1, <1>2, <1>3, <1>4, <1>5, <1>6 DEF MonitorNext

\* Between two mails with the same warning lies the cooldown.
THEOREM CooldownKept == Spec => []MailsSpaced
  <1>1. MonitorInv => MailsSpaced
    BY DEF MonitorInv
  <1> QED
    BY <1>1, InitMonitorInv, StepMonitorInv, PTL DEF Spec

\* A warning is held back only after a mail with the same warning went out.
THEOREM SilenceIsEarned == Spec => []SilenceEarned
  <1>1. MonitorInv => SilenceEarned
    BY DEF MonitorInv, SilenceEarned, CoolingDown
  <1> QED
    BY <1>1, InitMonitorInv, StepMonitorInv, PTL DEF Spec

-----------------------------------------------------------------------------
(* The backups.                                                            *)

Reported(report) ==
  clock < report.at + Retention /\ report.name \notin spoilt =>
    /\ report.name \in DOMAIN archives
    /\ archives[report.name].whole /\ archives[report.name].mtime >= report.at

\* One run is past the lock.  While it writes its archive, an earlier snapshot
\* of the same name counts as spoilt; what it then reports is whole or spoilt.
BackupsInv ==
  /\ clock \in Int
  /\ runs \in [Runners -> [pc : {"idle", "lock", "dump", "create", "fill", "prune", "unlock"},
                           name : Int]]
  /\ \A r \in Runners : runs[r].pc \notin {"idle", "lock"} => mutex = r
  /\ \A r \in Runners : runs[r].pc \in {"fill", "prune"} => runs[r].name \in DOMAIN archives
  /\ \A r \in Runners : runs[r].pc = "fill" =>
       \A report \in reported : report.name = runs[r].name => runs[r].name \in spoilt
  /\ \A r \in Runners : runs[r].pc = "prune" =>
       archives[runs[r].name].whole \/ runs[r].name \in spoilt
  /\ \A t \in DOMAIN archives : archives[t].mtime \in Int /\ archives[t].mtime <= clock
  /\ \A report \in reported : report.at \in Int /\ report.at <= clock /\ Reported(report)

\* There is no archive, and nobody has been told of one.
LEMMA InitBackupsInv == Init => BackupsInv
  BY DEF Init, BackupsInit, BackupsInv, IdleRun, Runners

\* A step of one run that leaves the archives alone.
LEMMA QuietRun ==
  ASSUME BackupsInv, clock' = clock, UNCHANGED <<archives, reported, spoilt>>,
         NEW r \in Runners, NEW run \in [pc : {"idle", "lock", "dump", "create", "unlock"}, name : Int],
         runs' = [runs EXCEPT ![r] = run],
         run.pc \notin {"idle", "lock"} => mutex' = r,
         mutex = r \/ mutex' = mutex \/ mutex = None
  PROVE  BackupsInv'
  <1>1. /\ runs'[r] = run /\ \A x \in Runners \ {r} : runs'[x] = runs[x]
        /\ runs' \in [Runners -> [pc : {"idle", "lock", "dump", "create", "fill", "prune", "unlock"},
                                  name : Int]]
    BY DEF BackupsInv
  <1>2. \A x \in Runners : runs'[x].pc \notin {"idle", "lock"} => mutex' = x
    BY <1>1, RunnersAssumption DEF BackupsInv
  <1>3. runs'[r].pc \notin {"fill", "prune"}
    BY <1>1
  <1> QED
    BY <1>1, <1>2, <1>3 DEF BackupsInv, Reported

\* Every action preserves BackupsInv: the mutex keeps two runs off one archive.
LEMMA StepBackupsInv == BackupsInv /\ [Next]_vars => BackupsInv'
  <1> SUFFICES ASSUME BackupsInv, [Next]_vars PROVE BackupsInv'
    OBVIOUS
  <1> USE DayAssumption, BoundsAssumption
  <1>1. /\ clock' \in Int /\ clock' >= clock
        /\ \/ BackupsNext /\ clock' = clock
           \/ BackupsLost \/ BackupsStart \/ UNCHANGED backupsVars
    BY BackupsMove DEF BackupsInv
  <1>2. CASE UNCHANGED backupsVars
    BY <1>1, <1>2 DEF backupsVars, backupsMemory, backupsHistory, BackupsInv, Reported
  <1>3. CASE BackupsLost \/ BackupsStart
    BY <1>1, <1>3 DEF BackupsLost, BackupsStart, backupsHistory, IdleRun, BackupsInv, Reported
  <1>4. CASE BackupDue /\ clock' = clock
    BY <1>4, QuietRun DEF BackupDue, Goes, Runners, BackupsInv
  <1>5. ASSUME NEW r \in Runners, clock' = clock,
               RequestBackup(r) \/ LockBackups(r) \/ UnlockBackups(r)
        PROVE  BackupsInv'
    BY <1>5, QuietRun DEF RequestBackup, LockBackups, UnlockBackups, Goes, backupsHistory, IdleRun,
                          BackupsInv
  <1>6. ASSUME NEW r \in Runners, clock' = clock, Dump(r) PROVE BackupsInv'
    BY ZenonT(30), <1>6, QuietRun DEF Dump, Goes, backupsHistory, BackupsInv
  <1>7. ASSUME NEW r \in Runners, clock' = clock, CreateArchive(r) PROVE BackupsInv'
    BY <1>7 DEF CreateArchive, Goes, BackupsInv, Reported
  <1>8. ASSUME NEW r \in Runners, clock' = clock, FillArchive(r) PROVE BackupsInv'
    BY <1>8 DEF FillArchive, Goes, BackupsInv, Reported
  <1>9. ASSUME NEW r \in Runners, clock' = clock, Prune(r) PROVE BackupsInv'
    BY <1>9 DEF Prune, Goes, Old, BackupsInv, Reported
  <1> QED
    BY <1>1, <1>2, <1>3, <1>4, <1>5, <1>6, <1>7, <1>8, <1>9 DEF BackupsNext

\* A snapshot that was reported stays, whole, until its retention is over.
THEOREM BackupsStay == Spec => []ReportedBackupsKept
  <1>1. BackupsInv => ReportedBackupsKept
    BY DEF BackupsInv, Reported, ReportedBackupsKept
  <1> QED
    BY <1>1, InitBackupsInv, StepBackupsInv, PTL DEF Spec

-----------------------------------------------------------------------------
(* The nightly backup, and the types.                                      *)

BoundsInv == clock \in Times /\ work \in 0..MaxWork

LEMMA InitBounds == Init => BoundsInv
  BY BoundsAssumption DEF Init, BoundsInv, Times

\* The clock and the count of the work never go back, nor beyond their bounds.
LEMMA StepBounds ==
  ASSUME BoundsInv, [Next]_vars
  PROVE  BoundsInv' /\ clock' >= clock /\ work' >= work
  <1> USE BoundsAssumption DEF BoundsInv, Times
  <1>1. clock' = clock \/ (clock < MaxTime /\ clock' = clock + 1)
    BY DEF Next, InProcess, Outside, Restarts, Tick, vars
  <1>2. work' = work \/ Works
    <2>1. CASE EventsNext
      BY <2>1 DEF EventsNext, SubscribeDeployEvents, EmitDeployEvent
    <2>2. CASE BackupsNext
      BY <2>2 DEF BackupsNext, BackupDue, RequestBackup
    <2>3. CASE MonitorNext
      BY <2>3 DEF MonitorNext, CheckAndNotify
    <2>4. CASE InControllerNext \/ HelpersNext \/ Crash \/ DockerStarts
      BY <2>4 DEF InControllerNext, HandleSettingsUpdate, HandleSettingsRestart, HelpersNext,
                  HelperCut, Crash, DockerStarts
    <2> QED
      BY <2>1, <2>2, <2>3, <2>4 DEF Next, InProcess, Outside, Restarts, Tick, vars
  <1> QED
    BY <1>1, <1>2 DEF Works

\* When the backup of a day is due.
Due(d) == d * Day + ScheduledAt

LEMMA MultipleWithin ==
  ASSUME NEW q \in Int, NEW r \in Int, NEW b \in Nat \ {0}, q * b < r * b + b
  PROVE  q <= r
  <1> SUFFICES ASSUME q >= r + 1 PROVE FALSE
    OBVIOUS
  <1>1. (q - (r + 1)) * b >= 0
    OBVIOUS
  <1>2. (q - (r + 1)) * b = q * b - r * b - b
    OBVIOUS
  <1> QED
    BY <1>1, <1>2

LEMMA DayBounds ==
  ASSUME NEW t \in Nat
  PROVE  /\ DayOf(t) \in Nat /\ DayOf(t) * Day \in Nat
         /\ DayOf(t) * Day <= t /\ t < DayOf(t) * Day + Day
  <1>1. Day \in Nat \ {0}
    BY DayAssumption
  <1>2. DayOf(t) \in Int /\ DayOf(t) * Day <= t /\ t < DayOf(t) * Day + Day
    BY <1>1, Z3 DEF DayOf
  <1>3. 0 <= DayOf(t)
    <2>1. 0 * Day < DayOf(t) * Day + Day
      BY <1>1, <1>2
    <2> QED
      BY <1>1, <1>2, <2>1, MultipleWithin
  <1>4. DayOf(t) * Day \in Nat
    BY <1>1, <1>2, <1>3
  <1> QED
    BY <1>2, <1>3, <1>4

\* A time that is due belongs to the day it is due on.
LEMMA DayOfDue ==
  ASSUME NEW d \in Nat
  PROVE  /\ Due(d) \in Nat /\ DayOf(Due(d)) = d
         /\ \A t \in Nat : Due(d) <= t => d <= DayOf(t)
  <1>1. Day \in Nat \ {0} /\ ScheduledAt \in Nat /\ ScheduledAt < Day
    BY DayAssumption
  <1>2. d * Day \in Nat /\ Due(d) \in Nat
    BY <1>1 DEF Due
  <1>3. /\ DayOf(Due(d)) \in Nat /\ DayOf(Due(d)) * Day \in Nat
        /\ DayOf(Due(d)) * Day <= Due(d) /\ Due(d) < DayOf(Due(d)) * Day + Day
    BY <1>2, DayBounds
  <1>4. ASSUME NEW t \in Nat, Due(d) <= t PROVE d <= DayOf(t)
    <2>1. DayOf(t) \in Nat /\ DayOf(t) * Day \in Nat /\ t < DayOf(t) * Day + Day
      BY DayBounds
    <2>2. d * Day < DayOf(t) * Day + Day
      BY <1>1, <1>2, <1>4, <2>1 DEF Due
    <2> QED
      BY <1>1, <2>1, <2>2, MultipleWithin
  <1>5. DayOf(Due(d)) <= d
    <2>1. DayOf(Due(d)) * Day < d * Day + Day
      BY <1>1, <1>2, <1>3 DEF Due
    <2> QED
      BY <1>1, <1>3, <2>1, MultipleWithin
  <1> QED
    BY <1>2, <1>3, <1>4, <1>5

\* The timer is set to a time that is due and lies ahead.
LEMMA NextIsDue ==
  ASSUME NEW now \in Nat
  PROVE  \E d \in Nat : /\ NextScheduledRun(now) = Due(d)
                        /\ now < Due(d) /\ Due(d) <= now + Day
  <1>1. Day \in Nat \ {0} /\ ScheduledAt \in Nat /\ ScheduledAt < Day
    BY DayAssumption
  <1>2. PICK d \in Nat : d = DayOf(now)
    BY DayBounds
  <1>3. d * Day \in Nat /\ d * Day <= now /\ now < d * Day + Day
    BY <1>2, DayBounds
  <1>4. Due(d) = d * Day + ScheduledAt /\ Due(d + 1) = d * Day + Day + ScheduledAt
    <2>1. (d + 1) * Day = d * Day + Day
      BY <1>1
    <2> QED
      BY <2>1 DEF Due
  <1>5. NextScheduledRun(now) = IF now < Due(d) THEN Due(d) ELSE Due(d) + Day
    BY <1>2 DEF NextScheduledRun, Due
  <1>6. CASE now < Due(d)
    BY <1>1, <1>3, <1>4, <1>5, <1>6
  <1>7. CASE ~(now < Due(d))
    <2>1. NextScheduledRun(now) = Due(d + 1)
      BY <1>1, <1>3, <1>4, <1>5, <1>7
    <2>2. now < Due(d + 1) /\ Due(d + 1) <= now + Day
      BY <1>1, <1>3, <1>4, <1>7
    <2> QED
      BY <2>1, <2>2
  <1> QED
    BY <1>6, <1>7

\* The timer runs for a time that is due, of a night not yet begun unless the
\* loop is busy, or beyond the end of the clock; a night that has begun was due.
NightsInv ==
  /\ nightly \in [0..DayOf(MaxTime) -> Nat]
  /\ \A d \in 0..DayOf(MaxTime) :
       /\ nightly[d] <= 1 /\ nightly[d] <= work
       /\ nightly[d] = 1 => Due(d) <= clock
  /\ schedule \in Nat /\ schedule <= MaxTime + Day
  /\ schedule > MaxTime \/ \E d \in Nat : schedule = Due(d)
  /\ runs[Loop].pc = "idle" =>
       \A d \in 0..DayOf(MaxTime) : schedule = Due(d) => nightly[d] = 0

\* The timer is set, and no night begins.
LEMMA TimerSet ==
  ASSUME NightsInv, BoundsInv, BoundsInv', clock' >= clock, work' >= work, UNCHANGED nightly,
         \/ schedule' = NextScheduledRun(clock)
         \/ schedule' = MaxTime + Day
  PROVE  NightsInv'
  <1>1. /\ clock \in Nat /\ clock <= MaxTime /\ clock' \in Nat /\ MaxTime \in Nat
        /\ Day \in Nat /\ Day >= 1 /\ work \in Nat /\ work' \in Nat
    BY BoundsAssumption, DayAssumption DEF BoundsInv, Times
  <1>2. \A d \in 0..DayOf(MaxTime) : Due(d) \in Nat /\ nightly[d] \in Nat
    <2>1. \A d \in 0..DayOf(MaxTime) : Due(d) \in Nat
      BY DayOfDue
    <2> QED
      BY <2>1 DEF NightsInv
  <1>3. /\ schedule' \in Nat /\ schedule' > clock /\ schedule' <= MaxTime + Day
        /\ schedule' > MaxTime \/ \E d \in Nat : schedule' = Due(d)
    <2>1. CASE schedule' = MaxTime + Day
      BY <1>1, <2>1
    <2>2. CASE schedule' = NextScheduledRun(clock)
      <3>1. PICK d \in Nat : schedule' = Due(d) /\ clock < Due(d) /\ Due(d) <= clock + Day
        BY <1>1, <2>2, NextIsDue
      <3>2. Due(d) \in Nat
        BY DayOfDue
      <3> QED
        BY <1>1, <3>1, <3>2
    <2> QED
      BY <2>1, <2>2
  <1>4. \A d \in 0..DayOf(MaxTime) :
          /\ nightly'[d] <= 1 /\ nightly'[d] <= work'
          /\ nightly'[d] = 1 => Due(d) <= clock'
          /\ schedule' = Due(d) => nightly'[d] = 0
    BY <1>1, <1>2, <1>3 DEF NightsInv
  <1> QED
    BY <1>3, <1>4 DEF NightsInv

\* Timer and nights are left alone, and a loop that is busy stays so.
LEMMA TimerRuns ==
  ASSUME NightsInv, BoundsInv, BoundsInv', clock' >= clock, work' >= work,
         UNCHANGED <<nightly, schedule>>,
         runs'[Loop].pc = "idle" => runs[Loop].pc = "idle"
  PROVE  NightsInv'
  <1>1. clock \in Nat /\ clock' \in Nat /\ work \in Nat /\ work' \in Nat
    BY BoundsAssumption DEF BoundsInv, Times
  <1>2. \A d \in 0..DayOf(MaxTime) : Due(d) \in Nat
    BY DayOfDue
  <1>3. \A d \in 0..DayOf(MaxTime) : nightly[d] \in Nat
    BY DEF NightsInv
  <1> QED
    BY <1>1, <1>2, <1>3 DEF NightsInv

\* The timer fires: this is the night's first time, and the loop is busy now.
LEMMA TimerFired ==
  ASSUME NightsInv, BoundsInv, BoundsInv', BackupDue, clock' = clock,
         runs \in [Runners -> [pc : {"idle", "lock", "dump", "create", "fill", "prune", "unlock"},
                               name : Int]]
  PROVE  NightsInv'
  <1>1. /\ clock \in Nat /\ clock <= MaxTime /\ MaxTime \in Nat
        /\ work \in Nat /\ work' = work + 1
    BY BoundsAssumption DEF BoundsInv, Times, BackupDue, Works
  <1>2. /\ runs[Loop].pc = "idle" /\ clock >= schedule /\ UNCHANGED schedule
        /\ nightly' = [nightly EXCEPT ![DayOf(schedule)] = @ + 1]
    BY DEF BackupDue
  <1>3. PICK d \in Nat : schedule = Due(d)
    BY <1>1, <1>2 DEF NightsInv
  <1>4. /\ Due(d) \in Nat /\ DayOf(schedule) = d /\ d \in 0..DayOf(MaxTime)
        /\ DayOf(MaxTime) \in Nat
    BY <1>1, <1>2, <1>3, DayOfDue, DayBounds
  <1>5. nightly[d] = 0 /\ nightly'[d] = 1 /\ nightly' \in [0..DayOf(MaxTime) -> Nat]
    BY <1>2, <1>3, <1>4 DEF NightsInv
  <1>6. \A e \in 0..DayOf(MaxTime) : e # d => nightly'[e] = nightly[e] /\ nightly[e] \in Nat
    BY <1>2, <1>4 DEF NightsInv
  <1>7. \A e \in 0..DayOf(MaxTime) :
          /\ nightly'[e] <= 1 /\ nightly'[e] <= work'
          /\ nightly'[e] = 1 => Due(e) <= clock'
    <2> TAKE e \in 0..DayOf(MaxTime)
    <2>1. CASE e = d
      BY <1>1, <1>2, <1>3, <1>5, <2>1
    <2>2. CASE e # d
      BY <1>1, <1>6, <2>2 DEF NightsInv
    <2> QED
      BY <2>1, <2>2
  <1>8. runs'[Loop].pc # "idle"
    BY DEF BackupDue, Goes, Runners
  <1> QED
    BY <1>2, <1>5, <1>7, <1>8 DEF NightsInv

LEMMA InitNights == Init => NightsInv
  <1> SUFFICES ASSUME Init PROVE NightsInv
    OBVIOUS
  <1>1. /\ clock = 0 /\ work = 0 /\ schedule = NextScheduledRun(0)
        /\ nightly = [d \in 0..DayOf(MaxTime) |-> 0]
        /\ MaxTime \in Nat /\ Day \in Nat
    BY BoundsAssumption, DayAssumption DEF Init, BackupsInit
  <1>2. PICK d \in Nat : schedule = Due(d) /\ Due(d) <= 0 + Day /\ Due(d) \in Nat
    BY <1>1, NextIsDue, DayOfDue
  <1> QED
    BY <1>1, <1>2 DEF NightsInv

LEMMA StepNights == BackupsInv /\ BoundsInv /\ NightsInv /\ [Next]_vars => NightsInv'
  <1> SUFFICES ASSUME BackupsInv, BoundsInv, NightsInv, [Next]_vars PROVE NightsInv'
    OBVIOUS
  <1>1. BoundsInv' /\ clock' >= clock /\ work' >= work
    BY StepBounds
  <1>2. /\ clock \in Int
        /\ runs \in [Runners -> [pc : {"idle", "lock", "dump", "create", "fill", "prune", "unlock"},
                                 name : Int]]
    BY DEF BackupsInv
  <1>3. \/ BackupsNext /\ clock' = clock
        \/ BackupsLost \/ BackupsStart \/ UNCHANGED backupsVars
    BY <1>2, BackupsMove
  <1>4. CASE UNCHANGED backupsVars
    BY <1>1, <1>4, TimerRuns DEF backupsVars, backupsMemory, backupsHistory
  <1>5. CASE BackupsLost \/ BackupsStart
    BY <1>1, <1>5, TimerSet DEF BackupsLost, BackupsStart, backupsHistory
  <1>6. CASE BackupDue /\ clock' = clock
    BY <1>1, <1>2, <1>6, TimerFired
  <1>7. ASSUME NEW r \in Runners, RequestBackup(r) \/ LockBackups(r) \/ CreateArchive(r)
                                    \/ FillArchive(r) \/ Prune(r) \/ Dump(r)
        PROVE  NightsInv'
    <2>1. UNCHANGED <<nightly, schedule>>
      BY <1>7 DEF RequestBackup, LockBackups, CreateArchive, FillArchive, Prune, Dump,
                  backupsHistory
    <2>2. runs'[Loop].pc = "idle" => runs[Loop].pc = "idle"
      <3>1. runs'[r].pc # "idle" /\ \A x \in Runners \ {r} : runs'[x] = runs[x]
        <4>1. CASE RequestBackup(r) \/ CreateArchive(r) \/ Prune(r)
          BY <1>2, <4>1 DEF RequestBackup, CreateArchive, Prune, Goes
        <4>2. CASE LockBackups(r)
          BY <1>2, <4>2 DEF LockBackups
        <4>3. CASE Dump(r)
          BY <1>2, <4>3 DEF Dump, Goes
        <4>4. CASE FillArchive(r)
          BY <1>2, <4>4 DEF FillArchive, Goes
        <4> QED
          BY <1>7, <4>1, <4>2, <4>3, <4>4
      <3>2. Loop \in Runners
        BY DEF Runners
      <3> QED
        BY <3>1, <3>2
    <2> QED
      BY <1>1, <2>1, <2>2, TimerRuns
  <1>8. ASSUME NEW r \in Runners, UnlockBackups(r) PROVE NightsInv'
    <2>1. CASE r = Loop
      BY <1>1, <1>8, <2>1, TimerSet DEF UnlockBackups, backupsHistory
    <2>2. CASE r # Loop
      BY <1>1, <1>2, <1>8, <2>2, TimerRuns DEF UnlockBackups, backupsHistory
    <2> QED
      BY <2>1, <2>2
  <1> QED
    BY <1>3, <1>4, <1>5, <1>6, <1>7, <1>8 DEF BackupsNext

\* However long a run takes, however late its timer fires and however often the
\* process restarts, the loop begins no night's backup twice.
THEOREM NightsOnce == Spec => []EachNightOnce
  <1>1. NightsInv => EachNightOnce
    BY DEF NightsInv, EachNightOnce
  <1> QED
    BY InitBackupsInv, StepBackupsInv, InitBounds, StepBounds, InitNights, StepNights, <1>1,
       PTL DEF Spec

\* Events are numbered by the work there has been.
EventsTyped ==
  /\ EventsTypeOK
  /\ \A d \in Deploys : /\ emitting[d].number <= work
                        /\ emitting[d].active => emitting[d].number \in 1..MaxWork

LEMMA InitEventsTyped == Init => EventsTyped
  <1> SUFFICES ASSUME Init PROVE EventsTyped
    OBVIOUS
  <1>1. <<>> \in Seq(Events) /\ Len(<<>>) = 0 /\ Buffer \in Nat /\ MaxWork \in Nat /\ work = 0
    BY BoundsAssumption, BufferAssumption DEF Init
  <1>2. Silent \in [active : BOOLEAN, number : 0..MaxWork, pending : SUBSET Viewers]
    BY <1>1 DEF Silent
  <1>3. \A v \in Viewers : channel[v] = <<>>
    BY DEF Init, EventsInit
  <1>4. EventsTypeOK
    <2>1. channel \in [Viewers -> Seq(Events)] /\ \A v \in Viewers : Len(channel[v]) <= Buffer
      <3>1. channel \in [Viewers -> Seq(Events)]
        BY <1>1 DEF Init, EventsInit
      <3>2. ASSUME NEW v \in Viewers PROVE Len(channel[v]) <= Buffer
        BY <1>1, <1>3
      <3> QED
        BY <3>1, <3>2
    <2>2. shown \in [Viewers -> Seq(Events)]
      BY <1>1 DEF Init, EventsInit
    <2>3. /\ deploySubs \subseteq Viewers /\ panicked \in BOOLEAN
          /\ stream \in [Viewers -> {"none", "open", "leaving", "closed", "lost"}]
          /\ emitting \in [Deploys -> [active : BOOLEAN, number : 0..MaxWork, pending : SUBSET Viewers]]
          /\ due \in [Viewers -> SUBSET Events] /\ skipped \in [Viewers -> SUBSET Events]
      BY <1>2 DEF Init, EventsInit
    <2> QED
      BY <2>1, <2>2, <2>3 DEF EventsTypeOK
  <1>5. \A d \in Deploys : emitting[d].number = 0 /\ ~emitting[d].active
    BY DEF Init, EventsInit, Silent
  <1> QED
    BY <1>1, <1>4, <1>5 DEF EventsTyped

LEMMA ChannelBounded ==
  ASSUME NEW queue \in Seq(Events), Len(queue) <= Buffer, NEW event \in Events
  PROVE  AfterSend(queue, event) \in Seq(Events) /\ Len(AfterSend(queue, event)) <= Buffer
  BY BufferAssumption DEF AfterSend

LEMMA StepEventsTyped == EventsInv /\ BoundsInv /\ EventsTyped /\ [Next]_vars => EventsTyped'
  <1> SUFFICES ASSUME EventsInv, BoundsInv, EventsTyped, [Next]_vars PROVE EventsTyped'
    OBVIOUS
  <1>0. /\ MaxWork \in Nat /\ work \in Nat /\ work' \in Nat /\ work' >= work /\ work' <= MaxWork
        /\ Buffer \in Nat
        /\ EventsTypeOK
        /\ \A d \in Deploys : /\ emitting[d].number \in Nat /\ emitting[d].number <= work
                              /\ emitting[d].active => emitting[d].number \in 1..MaxWork
    BY StepBounds, BoundsAssumption, BufferAssumption DEF BoundsInv, EventsTyped, EventsTypeOK
  <1>1. CASE UNCHANGED eventsVars
    BY <1>0, <1>1 DEF eventsVars, eventsMemory, eventsHistory, EventsTyped, EventsTypeOK
  <1>2. CASE EventsLost
    <2>1. /\ emitting' \in [Deploys -> [active : BOOLEAN, number : 0..MaxWork, pending : SUBSET Viewers]]
          /\ \A d \in Deploys : emitting'[d].number = emitting[d].number /\ ~emitting'[d].active
      BY <1>0, <1>2 DEF EventsLost, Silent, EventsTypeOK
    <2>2. /\ channel' \in [Viewers -> Seq(Events)] /\ \A v \in Viewers : channel'[v] = <<>>
          /\ Len(<<>>) = 0
      BY <1>2 DEF EventsLost
    <2>3. stream' \in [Viewers -> {"none", "open", "leaving", "closed", "lost"}]
      BY <1>2 DEF EventsLost
    <2>4. EventsTypeOK'
      BY <1>0, <1>2, <2>1, <2>2, <2>3 DEF EventsLost, eventsHistory, EventsTypeOK
    <2> QED
      BY <1>0, <2>1, <2>4 DEF EventsTyped
  <1>3. ASSUME NEW v \in Viewers, SubscribeDeployEvents(v) \/ Leave(v) \/ Cancel(v)
        PROVE  EventsTyped'
    <2>1. UNCHANGED <<channel, emitting, eventsHistory>>
      BY <1>3 DEF SubscribeDeployEvents, Leave, Cancel
    <2>2. /\ deploySubs' \subseteq Viewers
          /\ stream' \in [Viewers -> {"none", "open", "leaving", "closed", "lost"}]
      BY <1>0, <1>3 DEF SubscribeDeployEvents, Leave, Cancel, EventsTypeOK
    <2>3. EventsTypeOK'
      BY <1>0, <2>1, <2>2 DEF eventsHistory, EventsTypeOK
    <2> QED
      BY <1>0, <2>1, <2>3 DEF EventsTyped
  <1>4. ASSUME NEW v \in Viewers, Show(v) PROVE EventsTyped'
    <2>1. /\ channel[v] \in Seq(Events) /\ channel[v] # <<>> /\ Len(channel[v]) <= Buffer
          /\ shown[v] \in Seq(Events)
      BY <1>0, <1>4 DEF Show, EventsTypeOK
    <2>2. /\ Append(shown[v], Head(channel[v])) \in Seq(Events)
          /\ Tail(channel[v]) \in Seq(Events) /\ Len(Tail(channel[v])) <= Buffer
      BY <1>0, <2>1
    <2> QED
      BY <1>0, <1>4, <2>2 DEF Show, EventsTyped, EventsTypeOK
  <1>5. ASSUME NEW d \in Deploys, EmitDeployEvent(d) PROVE EventsTyped'
    <2>1. /\ work' = work + 1 /\ UNCHANGED <<deploySubs, stream, channel, eventsHistory>>
          /\ emitting' = [emitting EXCEPT ![d] =
               [active |-> TRUE, number |-> emitting[d].number + 1, pending |-> deploySubs]]
      BY <1>5 DEF EmitDeployEvent, Works
    <2>2. /\ emitting[d].number + 1 \in 1..MaxWork /\ emitting[d].number + 1 \in 0..MaxWork
          /\ emitting[d].number + 1 <= work'
      BY <1>0, <2>1
    <2> QED
      BY <1>0, <2>1, <2>2 DEF eventsHistory, EventsTyped, EventsTypeOK
  <1>6. ASSUME NEW d \in Deploys, Emitted(d) PROVE EventsTyped'
    <2>1. /\ UNCHANGED <<deploySubs, stream, channel, eventsHistory>>
          /\ emitting' = [emitting EXCEPT ![d].active = FALSE]
      BY <1>6 DEF Emitted
    <2>2. /\ emitting' \in [Deploys -> [active : BOOLEAN, number : 0..MaxWork, pending : SUBSET Viewers]]
          /\ \A x \in Deploys : /\ emitting'[x].number = emitting[x].number
                                /\ emitting'[x].active => emitting[x].active
      BY <1>0, <2>1 DEF EventsTypeOK
    <2>3. EventsTypeOK'
      BY <1>0, <2>1, <2>2 DEF eventsHistory, EventsTypeOK
    <2> QED
      BY <1>0, <2>2, <2>3 DEF EventsTyped
  <1>7. ASSUME NEW d \in Deploys, NEW v \in Viewers, Send(d, v) PROVE EventsTyped'
    <2>1. PICK event : event = <<d, emitting[d].number>>
      OBVIOUS
    <2>2. emitting[d].active /\ event \in Events
      BY <1>0, <1>7, <2>1 DEF Send, EventsInv, Events
    <2>3. /\ emitting' = [emitting EXCEPT ![d].pending = @ \ {v}]
          /\ panicked' \in BOOLEAN
          /\ channel' = [channel EXCEPT ![v] = AfterSend(channel[v], event)]
          /\ due' = [due EXCEPT ![v] = @ \cup {event}]
          /\ skipped' = skipped \/ skipped' = [skipped EXCEPT ![v] = @ \cup {event}]
          /\ UNCHANGED <<deploySubs, stream, shown>>
      BY <1>7, <2>1 DEF Send
    <2>4. AfterSend(channel[v], event) \in Seq(Events) /\ Len(AfterSend(channel[v], event)) <= Buffer
      BY <1>0, <2>2, ChannelBounded DEF EventsTypeOK
    <2>5. channel' \in [Viewers -> Seq(Events)] /\ \A x \in Viewers : Len(channel'[x]) <= Buffer
      BY <1>0, <2>3, <2>4 DEF EventsTypeOK
    <2>6. due' \in [Viewers -> SUBSET Events]
      BY <1>0, <2>2, <2>3 DEF EventsTypeOK
    <2>7. skipped' \in [Viewers -> SUBSET Events]
      <3>1. CASE skipped' = skipped
        BY <1>0, <3>1 DEF EventsTypeOK
      <3>2. CASE skipped' = [skipped EXCEPT ![v] = @ \cup {event}]
        BY <1>0, <2>2, <3>2 DEF EventsTypeOK
      <3> QED
        BY <2>3, <3>1, <3>2
    <2>8. /\ emitting' \in [Deploys -> [active : BOOLEAN, number : 0..MaxWork, pending : SUBSET Viewers]]
          /\ \A x \in Deploys : /\ emitting'[x].number = emitting[x].number
                                /\ emitting'[x].active => emitting[x].active
      BY <1>0, <2>3 DEF EventsTypeOK
    <2>9. EventsTypeOK'
      BY <1>0, <2>3, <2>5, <2>6, <2>7, <2>8 DEF EventsTypeOK
    <2> QED
      BY <1>0, <2>8, <2>9 DEF EventsTyped
  <1> QED
    BY <1>1, <1>2, <1>3, <1>4, <1>5, <1>6, <1>7, EventsMove DEF EventsNext

LEMMA InitBackupsTyped == Init => BackupsTypeOK
  <1> SUFFICES ASSUME Init PROVE BackupsTypeOK
    OBVIOUS
  <1>1. NightsInv /\ MaxWork \in Nat /\ MaxTime \in Nat /\ Day \in Nat
    BY InitNights, BoundsAssumption, DayAssumption
  <1>2. schedule \in 0..(MaxTime + Day) /\ nightly \in [0..DayOf(MaxTime) -> 0..MaxWork]
    BY <1>1 DEF NightsInv, Init, BackupsInit
  <1> QED
    BY <1>1, <1>2 DEF Init, BackupsInit, BackupsTypeOK, IdleRun, Run, Times

LEMMA StepBackupsTyped ==
  BackupsInv /\ BoundsInv /\ NightsInv' /\ BackupsTypeOK /\ [Next]_vars => BackupsTypeOK'
  <1> SUFFICES ASSUME BackupsInv, BoundsInv, NightsInv', BackupsTypeOK, [Next]_vars
               PROVE  BackupsTypeOK'
    OBVIOUS
  <1>0. /\ MaxWork \in Nat /\ MaxTime \in Nat /\ Day \in Nat /\ clock \in Times
        /\ work' \in Nat /\ work' <= MaxWork /\ 0 \in Times
    BY StepBounds, BoundsAssumption, DayAssumption DEF BoundsInv, Times
  <1>1. schedule' \in 0..(MaxTime + Day) /\ nightly' \in [0..DayOf(MaxTime) -> 0..MaxWork]
    <2>1. \A d \in 0..DayOf(MaxTime) : nightly'[d] \in 0..MaxWork
      BY <1>0 DEF NightsInv
    <2> QED
      BY <1>0, <2>1 DEF NightsInv
  <1>2. \/ BackupsNext /\ clock' = clock
        \/ BackupsLost \/ BackupsStart \/ UNCHANGED backupsVars
    BY BackupsMove DEF BackupsInv
  <1>3. ASSUME UNCHANGED <<archives, reported, spoilt>>,
               runs' \in [Runners -> Run], mutex' \in Runners \cup {None}
        PROVE  BackupsTypeOK'
    BY <1>1, <1>3 DEF BackupsTypeOK
  <1>4. CASE UNCHANGED backupsVars
    BY <1>3, <1>4 DEF backupsVars, backupsMemory, backupsHistory, BackupsTypeOK
  <1>5. CASE BackupsLost \/ BackupsStart
    BY <1>0, <1>3, <1>5 DEF BackupsLost, BackupsStart, backupsHistory, IdleRun, Run
  <1>6. CASE BackupDue
    BY <1>3, <1>6 DEF BackupDue, Goes, BackupsTypeOK, Run
  <1>7. ASSUME NEW r \in Runners,
               RequestBackup(r) \/ LockBackups(r) \/ UnlockBackups(r)
        PROVE  BackupsTypeOK'
    BY <1>0, <1>3, <1>7
    DEF RequestBackup, LockBackups, UnlockBackups, Goes, backupsHistory, IdleRun, BackupsTypeOK, Run
  <1>8. ASSUME NEW r \in Runners, Dump(r) PROVE BackupsTypeOK'
    BY <1>3, <1>8 DEF Dump, Goes, backupsHistory, BackupsTypeOK, Run
  <1>9. ASSUME NEW r \in Runners, CreateArchive(r) PROVE BackupsTypeOK'
    <2>1. runs[r].name \in Times
      BY DEF BackupsTypeOK, Run
    <2>2. runs' \in [Runners -> Run]
      BY <1>9 DEF CreateArchive, Goes, BackupsTypeOK, Run
    <2>3. /\ DOMAIN archives' \subseteq Times
          /\ \A t \in DOMAIN archives' : archives'[t] \in Archive
      BY <1>0, <1>9, <2>1 DEF CreateArchive, BackupsTypeOK, Archive
    <2>4. spoilt' \subseteq Times
      BY <1>9, <2>1 DEF CreateArchive, BackupsTypeOK
    <2> QED
      BY <1>1, <1>9, <2>2, <2>3, <2>4 DEF CreateArchive, BackupsTypeOK
  <1>10. ASSUME NEW r \in Runners, FillArchive(r) PROVE BackupsTypeOK'
    <2>1. runs[r].name \in Times /\ runs[r].name \in DOMAIN archives
      BY <1>10 DEF FillArchive, BackupsInv, BackupsTypeOK, Run
    <2>2. PICK walks \in BOOLEAN, closes \in BOOLEAN :
            /\ archives' = [archives EXCEPT ![runs[r].name] =
                              [mtime |-> clock, whole |-> walks /\ closes]]
            /\ spoilt' \subseteq spoilt \cup {runs[r].name}
            /\ Goes(r, IF walks THEN "prune" ELSE "unlock")
            /\ UNCHANGED <<mutex, reported>>
      BY <1>10 DEF FillArchive
    <2>3. runs' \in [Runners -> Run]
      BY <2>2 DEF Goes, BackupsTypeOK, Run
    <2>4. [mtime |-> clock, whole |-> walks /\ closes] \in Archive
      BY <1>0 DEF Archive
    <2>5. /\ DOMAIN archives' \subseteq Times
          /\ \A t \in DOMAIN archives' : archives'[t] \in Archive
      BY <2>1, <2>2, <2>4 DEF BackupsTypeOK
    <2>6. spoilt' \subseteq Times
      BY <2>1, <2>2 DEF BackupsTypeOK
    <2> QED
      BY <1>1, <2>2, <2>3, <2>5, <2>6 DEF BackupsTypeOK
  <1>11. ASSUME NEW r \in Runners, Prune(r) PROVE BackupsTypeOK'
    <2>1. runs[r].name \in Times /\ archives[runs[r].name].mtime \in Times
      BY <1>11 DEF Prune, BackupsInv, BackupsTypeOK, Run, Archive
    <2>2. PICK removed \in SUBSET Old :
            /\ archives' = [t \in DOMAIN archives \ removed |-> archives[t]]
            /\ reported' \subseteq reported
                 \cup {[name |-> runs[r].name, at |-> archives[runs[r].name].mtime]}
            /\ Goes(r, "unlock") /\ UNCHANGED <<mutex, spoilt>>
      BY <1>11 DEF Prune
    <2>3. runs' \in [Runners -> Run]
      BY <2>2 DEF Goes, BackupsTypeOK, Run
    <2>4. /\ DOMAIN archives' \subseteq Times
          /\ \A t \in DOMAIN archives' : archives'[t] \in Archive
      BY <2>2 DEF BackupsTypeOK
    <2>5. reported' \subseteq [name : Times, at : Times]
      BY <2>1, <2>2 DEF BackupsTypeOK
    <2> QED
      BY <1>1, <2>2, <2>3, <2>4, <2>5 DEF BackupsTypeOK
  <1> QED
    BY <1>2, <1>4, <1>5, <1>6, <1>7, <1>8, <1>9, <1>10, <1>11 DEF BackupsNext

LEMMA InitMonitorTyped == Init => MonitorTypeOK
  BY BoundsAssumption, MonitorAssumption DEF Init, MonitorInit, MonitorTypeOK, Waiting, Times

LEMMA StepMonitorTyped ==
  MonitorInv /\ BoundsInv /\ MonitorTypeOK /\ [Next]_vars => MonitorTypeOK'
  <1> SUFFICES ASSUME MonitorInv, BoundsInv, MonitorTypeOK, [Next]_vars PROVE MonitorTypeOK'
    OBVIOUS
  <1>0. /\ MaxTime \in Nat /\ Interval \in Nat /\ clock \in Times /\ clock \in Nat
        /\ clock <= MaxTime /\ clock \in 0..(MaxTime + Interval + 1)
        /\ \A t \in {clock, clock + Interval, MaxTime + 1} :
             Waiting(t) \in [pc : {"wait", "send", "record"}, key : SUBSET Resources,
                             at : 0..(MaxTime + Interval + 1)]
    BY BoundsAssumption, MonitorAssumption DEF BoundsInv, Times, Waiting
  <1>1. CASE UNCHANGED monitorVars
    BY <1>1 DEF monitorVars, MonitorTypeOK
  <1>2. CASE MonitorLost \/ MonitorStart
    BY <1>0, <1>2 DEF MonitorLost, MonitorStart, MonitorTypeOK
  <1>3. CASE CheckAndNotify
    <2>1. PICK low \in SUBSET Resources :
            \/ monitor' = Waiting(clock + Interval)
            \/ monitor' = [pc |-> "send", key |-> low, at |-> clock]
      BY <1>3 DEF CheckAndNotify
    <2> QED
      BY <1>0, <1>3, <2>1 DEF CheckAndNotify, MonitorTypeOK
  <1>4. CASE SendMail
    <2>1. PICK fails \in BOOLEAN :
            /\ mails' \subseteq mails \cup {[key |-> monitor.key, at |-> clock, sure |-> ~fails]}
            /\ monitor' = IF fails THEN AfterFailure ELSE [monitor EXCEPT !.pc = "record"]
      BY <1>4 DEF SendMail
    <2>2. monitor.key \in Keys
      BY <1>4 DEF SendMail, MonitorInv
    <2>3. mails' \subseteq [key : Keys, at : Times, sure : BOOLEAN]
      <3>1. [key |-> monitor.key, at |-> clock, sure |-> ~fails]
              \in [key : Keys, at : Times, sure : BOOLEAN]
        BY <1>0, <2>2, Zenon
      <3>2. mails \subseteq [key : Keys, at : Times, sure : BOOLEAN]
        BY DEF MonitorTypeOK
      <3> QED
        BY <2>1, <3>1, <3>2
    <2>4. monitor' \in [pc : {"wait", "send", "record"}, key : SUBSET Resources,
                        at : 0..(MaxTime + Interval + 1)]
      BY <1>0, <2>1 DEF AfterFailure, MonitorTypeOK
    <2> QED
      BY <1>4, <2>3, <2>4 DEF SendMail, MonitorTypeOK
  <1>5. CASE RecordSent
    BY <1>0, <1>5 DEF RecordSent, SentAt, MonitorTypeOK
  <1> QED
    BY <1>1, <1>2, <1>3, <1>4, <1>5, MonitorMove DEF MonitorInv, MonitorNext

\* The whole system's variables keep their shape: no channel holds more than its
\* buffer, no event is numbered and no night counted beyond the work there was.
THEOREM ControllerTypeCorrect == Spec => []TypeOK
  <1>1. BoundsInv /\ AllUpdateInv /\ EventsTyped /\ BackupsTypeOK /\ MonitorTypeOK => TypeOK
    BY DEF BoundsInv, AllUpdateInv, UpdateInv, UpdateTypeOK, Container, EventsTyped,
           ProcessTypeOK, TypeOK
  <1> QED
    BY InitEventsInv, StepEventsInv, InitUpdateInv, StepUpdateInv, InitMonitorInv, StepMonitorInv,
       InitBackupsInv, StepBackupsInv, InitBounds, StepBounds, InitNights, StepNights,
       InitEventsTyped, StepEventsTyped, InitBackupsTyped, StepBackupsTyped,
       InitMonitorTyped, StepMonitorTyped, <1>1, PTL DEF Spec
=============================================================================
