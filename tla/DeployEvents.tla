----------------------------- MODULE DeployEvents -----------------------------
(***************************************************************************)
(* The live progress of a project's deploys: SubscribeDeployEvents and     *)
(* emitDeployEvent in internal/projects/service.go, and the handler of the *)
(* event stream in internal/server/server.go.                              *)
(*                                                                         *)
(* The subscribers of one project are modelled; those of another share     *)
(* nothing but the lock.  An event is <<deploy, number>>.  An operator     *)
(* whose comment begins "A mutant" is no part of the model.                *)
(***************************************************************************)
EXTENDS Process

CONSTANTS
  Deploys,  \* goroutines that emit events of the project
  Viewers,  \* open pages that stream them
  Buffer    \* capacity of a subscriber's channel (16)

ASSUME BufferAssumption == Buffer \in Nat \ {0}

VARIABLES
  deploySubs, \* the subscribers of the project
  stream,     \* what the handler of each viewer is doing
  channel,    \* what is in the channel of each viewer
  emitting,   \* each deploy's event, and the subscribers it has yet to reach
  panicked,   \* history: something was sent on a closed channel
  shown,      \* history: the events each viewer has been shown
  due,        \* history: the events offered to each viewer
  skipped     \* history: the events a viewer missed with a full channel

eventsMemory == <<deploySubs, stream, channel, emitting>>
eventsHistory == <<panicked, shown, due, skipped>>
eventsVars == <<eventsMemory, eventsHistory>>

Events == Deploys \X (1..MaxWork)
Silent == [active |-> FALSE, number |-> 0, pending |-> {}]

EventsInit ==
  /\ deploySubs = {}
  /\ stream = [v \in Viewers |-> "none"]
  /\ channel = [v \in Viewers |-> <<>>]
  /\ emitting = [d \in Deploys |-> Silent]
  /\ panicked = FALSE
  /\ shown = [v \in Viewers |-> <<>>]
  /\ due = [v \in Viewers |-> {}]
  /\ skipped = [v \in Viewers |-> {}]

\* Emitters hold deployMu for reading; whoever subscribes or cancels holds it
\* for writing, in one step.
NoReader == \A d \in Deploys : ~emitting[d].active

-----------------------------------------------------------------------------

SubscribeDeployEvents(v) ==
  /\ stream[v] = "none" /\ NoReader /\ Works
  /\ deploySubs' = deploySubs \cup {v}
  /\ stream' = [stream EXCEPT ![v] = "open"]
  /\ UNCHANGED <<channel, emitting, eventsHistory>>

EmitDeployEvent(d) ==
  /\ ~emitting[d].active /\ Works
  /\ emitting' = [emitting EXCEPT ![d] =
       [active |-> TRUE, number |-> @.number + 1, pending |-> deploySubs]]
  /\ UNCHANGED <<deploySubs, stream, channel, eventsHistory>>

\* A mutant: a full channel gives up its oldest event for the new one.
AfterSendLatest(queue, event) ==
  IF Len(queue) < Buffer THEN Append(queue, event) ELSE Append(Tail(queue), event)

\* A mutant: the channel has no capacity to reach.
AfterSendUnbounded(queue, event) == Append(queue, event)

\* The channel after a send that does not wait.
AfterSend(queue, event) == IF Len(queue) < Buffer THEN Append(queue, event) ELSE queue

\* One turn of the loop of emitDeployEvent; the map is walked in any order.
Send(d, v) ==
  LET event == <<d, emitting[d].number>>
  IN  /\ v \in emitting[d].pending
      /\ emitting' = [emitting EXCEPT ![d].pending = @ \ {v}]
      /\ panicked' = (panicked \/ stream[v] = "closed")
      /\ channel' = [channel EXCEPT ![v] = AfterSend(@, event)]
      /\ due' = [due EXCEPT ![v] = @ \cup {event}]
      /\ skipped' = IF Len(channel[v]) < Buffer THEN skipped
                    ELSE [skipped EXCEPT ![v] = @ \cup {event}]
      /\ UNCHANGED <<deploySubs, stream, shown>>

\* The end of emitDeployEvent gives the lock back.
Emitted(d) ==
  /\ emitting[d].active /\ emitting[d].pending = {}
  /\ emitting' = [emitting EXCEPT ![d].active = FALSE]
  /\ UNCHANGED <<deploySubs, stream, channel, eventsHistory>>

Show(v) ==
  /\ stream[v] = "open" /\ channel[v] # <<>>
  /\ shown' = [shown EXCEPT ![v] = Append(@, Head(channel[v]))]
  /\ channel' = [channel EXCEPT ![v] = Tail(@)]
  /\ UNCHANGED <<deploySubs, stream, emitting, panicked, due, skipped>>

\* The page is left, or a write to it fails, be it only because the server's
\* WriteTimeout is over.
Leave(v) ==
  /\ stream[v] = "open"
  /\ stream' = [stream EXCEPT ![v] = "leaving"]
  /\ UNCHANGED <<deploySubs, channel, emitting, eventsHistory>>

\* A mutant: the channel is closed outside the lock.
CancelUnlocked(v) ==
  /\ stream[v] = "leaving"
  /\ deploySubs' = deploySubs \ {v}
  /\ stream' = [stream EXCEPT ![v] = "closed"]
  /\ UNCHANGED <<channel, emitting, eventsHistory>>

\* The deferred cancel: the entry goes and the channel is closed.
Cancel(v) ==
  /\ stream[v] = "leaving" /\ NoReader
  /\ deploySubs' = deploySubs \ {v}
  /\ stream' = [stream EXCEPT ![v] = "closed"]
  /\ UNCHANGED <<channel, emitting, eventsHistory>>

EventsNext ==
  \/ \E v \in Viewers :
       SubscribeDeployEvents(v) \/ ((Show(v) \/ Leave(v) \/ Cancel(v)) /\ UNCHANGED work)
  \/ \E d \in Deploys :
       \/ EmitDeployEvent(d)
       \/ (Emitted(d) \/ \E v \in Viewers : Send(d, v)) /\ UNCHANGED work

\* What is left of it when the process ends: an event stream cannot be resumed.
EventsLost ==
  /\ deploySubs' = {} /\ channel' = [v \in Viewers |-> <<>>]
  /\ stream' = [v \in Viewers |-> IF stream[v] = "none" THEN "none" ELSE "lost"]
  /\ emitting' = [d \in Deploys |-> [Silent EXCEPT !.number = emitting[d].number]]
  /\ UNCHANGED eventsHistory

-----------------------------------------------------------------------------
(* Properties.                                                             *)

EventsTypeOK ==
  /\ deploySubs \subseteq Viewers
  /\ stream \in [Viewers -> {"none", "open", "leaving", "closed", "lost"}]
  /\ channel \in [Viewers -> Seq(Events)] /\ \A v \in Viewers : Len(channel[v]) <= Buffer
  /\ emitting \in [Deploys -> [active : BOOLEAN, number : 0..MaxWork, pending : SUBSET Viewers]]
  /\ panicked \in BOOLEAN
  /\ shown \in [Viewers -> Seq(Events)]
  /\ due \in [Viewers -> SUBSET Events] /\ skipped \in [Viewers -> SUBSET Events]

\* No deploy sends on a channel that its viewer has closed by then, which
\* would bring the whole controller down.
NeverPanics == ~panicked

\* A viewer is shown the events of each deploy in the order they were emitted,
\* and of those emitted while it was there it misses only the ones that came
\* while Buffer others were waiting for it.
StreamsFaithful ==
  \A v \in Viewers :
    LET seen == shown[v] \o channel[v]
    IN  /\ \A i, j \in DOMAIN seen :
             i < j /\ seen[i][1] = seen[j][1] => seen[i][2] < seen[j][2]
        /\ stream[v] = "open" =>
             {seen[i] : i \in DOMAIN seen} = due[v] \ skipped[v]
=============================================================================
