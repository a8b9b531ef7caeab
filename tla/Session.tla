------------------------------- MODULE Session -------------------------------
(***************************************************************************)
(* The session actor of src/wireless/session.rs: clones of one             *)
(* SessionHandle send commands through a bounded channel to a single task, *)
(* which owns the session state, emits events into a second bounded        *)
(* channel, and only then answers.  A send into a full channel waits; a    *)
(* send into a channel whose receiver is gone fails, and a failed emit     *)
(* ends the actor on the spot.                                             *)
(*                                                                         *)
(* Configurations are tokens; validate_for is membership in                *)
(* ValidConfigs.  A position is its clock and its octet counter.  `mirror` *)
(* is what a hardware adapter knows of the session from the events it has  *)
(* received: StateChanged(Idle) tells it to forget the rest.               *)
(***************************************************************************)
EXTENDS Naturals, Sequences

CONSTANTS Clients,          \* holders of a SessionHandle clone
          Configs,          \* configurations clients ask for
          ValidConfigs,     \* those that pass validate_for(session_type)
          NoConfig,         \* Option::None
          NoClient,         \* a reply channel whose receiver is gone
          Reports,          \* positions adapters report
          CommandCapacity,  \* mpsc::channel(16) of commands
          EventCapacity     \* mpsc::channel(16) of events

ASSUME SessionAssumption ==
  /\ ValidConfigs \subseteq Configs
  /\ NoConfig \notin Configs
  /\ NoClient \notin Clients
  /\ Reports \subseteq [time : Nat, octets : Nat]
  /\ CommandCapacity \in Nat \ {0}
  /\ EventCapacity \in Nat \ {0}

VARIABLES
  hostPayload,    \* session_type.carries_host_payload()
  state,          \* the actor's SessionState
  configuration,  \* the actor's Option<AudioConfiguration>
  position,       \* the actor's PresentationPosition
  actor,          \* "recv", "emit", or how the task ended: "done", "failed"
  outbox,         \* events the current handler has still to emit
  asker,          \* whom the current handler will answer, or NoClient
  commands,       \* the command channel, and behind it the callers waiting for room
  events,         \* the event channel
  client,         \* client -> "idle" (its last call, if any, was answered), "waiting", "lost"
  handles,        \* some SessionHandle clone is alive
  listening,      \* the event receiver is alive
  mirror          \* the session as told by the events received so far

sessionVars == <<hostPayload, state, configuration, position>>
actorVars == <<actor, outbox, asker>>
vars == <<sessionVars, actorVars, commands, events, client, handles, listening, mirror>>

DefaultPosition == [time |-> 0, octets |-> 0]
Positions == Reports \cup {DefaultPosition}
States == {"Idle", "Configured", "Streaming", "Suspended", "Closed"}

StateChanged(s) == [event |-> "StateChanged", value |-> s]
ConfigurationChanged(k) == [event |-> "ConfigurationChanged", value |-> k]
PositionChanged(p) == [event |-> "PositionChanged", value |-> p]

Commands ==
  [op : {"configure"}, arg : Configs] \cup
  [op : {"update_position"}, arg : Reports] \cup
  [op : {"start", "suspend", "stop", "get_position", "close"}, arg : {0}]

Session(s, k, p) == [state |-> s, configuration |-> k, position |-> p]

Init ==
  /\ hostPayload \in BOOLEAN
  /\ state = "Idle"
  /\ configuration = NoConfig
  /\ position = DefaultPosition
  /\ actor = "recv"
  /\ outbox = <<>>
  /\ asker = NoClient
  /\ commands = <<>>
  /\ events = <<>>
  /\ client = [c \in Clients |-> "idle"]
  /\ handles = TRUE
  /\ listening = TRUE
  /\ mirror = Session("Idle", NoConfig, DefaultPosition)

-----------------------------------------------------------------------------
(* Clients.                                                                *)

ActorAlive == actor \in {"recv", "emit"}

\* send(): the first CommandCapacity entries are in the channel; the channel's
\* semaphore lets the callers behind them in by order of arrival.
Send(c, command) ==
  /\ handles
  /\ client[c] # "waiting"
  /\ ActorAlive
  /\ commands' = Append(commands, [from |-> c, body |-> command])
  /\ client' = [client EXCEPT ![c] = "waiting"]
  /\ UNCHANGED <<sessionVars, actorVars, events, handles, listening, mirror>>

\* "wireless audio session stopped": the command channel has no receiver.
SendToStopped(c) ==
  /\ handles
  /\ client[c] \notin {"waiting", "lost"}
  /\ ~ActorAlive
  /\ client' = [client EXCEPT ![c] = "lost"]
  /\ UNCHANGED <<sessionVars, actorVars, commands, events, handles, listening, mirror>>

\* A caller gives up.  A command already in the channel stays there with
\* nobody to answer; one still waiting for room goes with its caller.
CancelRequest(c) ==
  /\ client[c] = "waiting"
  /\ client' = [client EXCEPT ![c] = "idle"]
  /\ \/ \E i \in DOMAIN commands :
          /\ commands[i].from = c /\ i > CommandCapacity
          /\ commands' = SubSeq(commands, 1, i - 1) \o SubSeq(commands, i + 1, Len(commands))
     \/ /\ \A i \in DOMAIN commands : commands[i].from = c => i <= CommandCapacity
        /\ commands' = [i \in DOMAIN commands |->
                          IF commands[i].from = c THEN [commands[i] EXCEPT !.from = NoClient]
                                                  ELSE commands[i]]
  /\ asker' = IF asker = c THEN NoClient ELSE asker
  /\ UNCHANGED <<sessionVars, actor, outbox, events, handles, listening, mirror>>

DropHandles ==
  /\ handles
  /\ \A c \in Clients : client[c] # "waiting"
  /\ handles' = FALSE
  /\ UNCHANGED <<sessionVars, actorVars, commands, events, client, listening, mirror>>

-----------------------------------------------------------------------------
(* The actor.                                                              *)

Answered(c, result) ==
  IF c = NoClient THEN client ELSE [client EXCEPT ![c] = result]

\* reply.send: Ok or Err, the call returns.
Reply(c) == Answered(c, "idle")

\* The task ends: its command receiver goes, and with it every queued reply
\* channel and the one of the command being handled.
Abandoned(unanswered, answered) ==
  [c \in Clients |->
     IF c \in unanswered \cup {commands[i].from : i \in DOMAIN commands} THEN "lost"
     ELSE IF c = answered THEN "idle" ELSE client[c]]

\* recv() yields a command with this operation.
Receive(op) ==
  /\ actor = "recv"
  /\ commands # <<>>
  /\ Head(commands).body.op = op

Argument == Head(commands).body.arg

\* The handler refuses: nothing changes but the answer.
Refuse ==
  /\ commands' = Tail(commands)
  /\ client' = Reply(Head(commands).from)
  /\ UNCHANGED <<sessionVars, actorVars, events, handles, listening, mirror>>

\* The handler has changed the session and will emit `told` before it answers.
Accept(s, k, p, told) ==
  /\ state' = s
  /\ configuration' = k
  /\ position' = p
  /\ actor' = "emit"
  /\ outbox' = told
  /\ asker' = Head(commands).from
  /\ commands' = Tail(commands)
  /\ UNCHANGED <<hostPayload, events, client, handles, listening, mirror>>

\* Seeded fault: a new configuration silently restarts the position.
ConfigureResetsPosition ==
  /\ Receive("configure")
  /\ IF state \in {"Idle", "Configured", "Suspended"} /\ Argument \in ValidConfigs
       THEN Accept("Configured", Argument, DefaultPosition,
                   <<ConfigurationChanged(Argument), StateChanged("Configured")>>)
       ELSE Refuse

Configure ==
  /\ Receive("configure")
  /\ IF state \in {"Idle", "Configured", "Suspended"} /\ Argument \in ValidConfigs
       THEN Accept("Configured", Argument, position,
                   <<ConfigurationChanged(Argument), StateChanged("Configured")>>)
       ELSE Refuse

Start ==
  /\ Receive("start")
  /\ IF configuration # NoConfig /\ state \in {"Configured", "Suspended"}
       THEN Accept("Streaming", configuration, position, <<StateChanged("Streaming")>>)
       ELSE Refuse

Suspend ==
  /\ Receive("suspend")
  /\ IF state = "Streaming"
       THEN Accept("Suspended", configuration, position, <<StateChanged("Suspended")>>)
       ELSE Refuse

Stop ==
  /\ Receive("stop")
  /\ IF state \notin {"Idle", "Closed"}
       THEN Accept("Idle", NoConfig, DefaultPosition, <<StateChanged("Idle")>>)
       ELSE Refuse

\* Seeded fault: the clock is not compared with the last position.
UpdatePositionUnordered ==
  /\ Receive("update_position")
  /\ IF state = "Streaming" /\ (hostPayload \/ Argument.octets = 0)
       THEN Accept(state, configuration, Argument, <<PositionChanged(Argument)>>)
       ELSE Refuse

UpdatePosition ==
  /\ Receive("update_position")
  /\ IF /\ state = "Streaming"
        /\ Argument.time >= position.time
        /\ IF hostPayload THEN Argument.octets >= position.octets
                          ELSE Argument.octets = 0
       THEN Accept(state, configuration, Argument, <<PositionChanged(Argument)>>)
       ELSE Refuse

GetPosition ==
  /\ Receive("get_position")
  /\ commands' = Tail(commands)
  /\ client' = Reply(Head(commands).from)
  /\ UNCHANGED <<sessionVars, actorVars, events, handles, listening, mirror>>

Close ==
  /\ Receive("close")
  /\ Accept("Closed", configuration, position, <<StateChanged("Closed")>>)

\* emit: one event enters the channel; after the last one the handler answers,
\* and after a close the task ends.
Emit ==
  /\ actor = "emit"
  /\ listening
  /\ Len(events) < EventCapacity
  /\ events' = Append(events, Head(outbox))
  /\ outbox' = Tail(outbox)
  /\ LET last == Len(outbox) = 1
         closing == last /\ state = "Closed"
     IN /\ actor' = IF closing THEN "done" ELSE IF last THEN "recv" ELSE "emit"
        /\ commands' = IF closing THEN <<>> ELSE commands
        /\ asker' = IF last THEN NoClient ELSE asker
        /\ client' = IF closing THEN Abandoned({}, asker)
                     ELSE IF last THEN Reply(asker) ELSE client
  /\ UNCHANGED <<sessionVars, handles, listening, mirror>>

\* Seeded fault: emit waits for a receiver that is gone.
EmitRetries ==
  /\ actor = "emit"
  /\ ~listening
  /\ UNCHANGED vars

\* emit fails: the session has already changed, nobody is answered.
EmitFails ==
  /\ actor = "emit"
  /\ ~listening
  /\ actor' = "failed"
  /\ outbox' = <<>>
  /\ asker' = NoClient
  /\ client' = Abandoned({asker}, NoClient)
  /\ commands' = <<>>
  /\ UNCHANGED <<sessionVars, events, handles, listening, mirror>>

\* recv() yields None.
RecvNone ==
  /\ actor = "recv"
  /\ ~handles
  /\ commands = <<>>
  /\ actor' = "done"
  /\ UNCHANGED <<sessionVars, outbox, asker, commands, events, client, handles,
                 listening, mirror>>

-----------------------------------------------------------------------------
(* The event consumer.                                                     *)

Learn(m, e) ==
  CASE e.event = "ConfigurationChanged" -> [m EXCEPT !.configuration = e.value]
    [] e.event = "PositionChanged"      -> [m EXCEPT !.position = e.value]
    [] e = StateChanged("Idle")         -> Session("Idle", NoConfig, DefaultPosition)
    [] OTHER                            -> [m EXCEPT !.state = e.value]

ConsumeEvent ==
  /\ listening
  /\ events # <<>>
  /\ mirror' = Learn(mirror, Head(events))
  /\ events' = Tail(events)
  /\ UNCHANGED <<sessionVars, actorVars, commands, client, handles, listening>>

DropReceiver ==
  /\ listening
  /\ listening' = FALSE
  /\ events' = <<>>
  /\ UNCHANGED <<sessionVars, actorVars, commands, client, handles, mirror>>

-----------------------------------------------------------------------------
Handle ==
  Configure \/ Start \/ Suspend \/ Stop \/ UpdatePosition \/ GetPosition \/ Close

Actor == Handle \/ Emit \/ EmitFails \/ RecvNone

Next ==
  \/ \E c \in Clients, command \in Commands : Send(c, command)
  \/ \E c \in Clients : SendToStopped(c) \/ CancelRequest(c)
  \/ DropHandles
  \/ Actor
  \/ ConsumeEvent
  \/ DropReceiver

Spec == Init /\ [][Next]_vars

\* The runtime keeps polling the actor, and the consumer its receiver.
FairSpec == Spec /\ WF_vars(Actor) /\ WF_vars(ConsumeEvent)

-----------------------------------------------------------------------------
(* Properties.                                                             *)

\* What an adapter that knows `m` knows after these events.
Replay(m, es) ==
  LET after[n \in 0 .. Len(es)] == IF n = 0 THEN m ELSE Learn(after[n - 1], es[n])
  IN  after[Len(es)]

\* emit and the answers: while the receiver lives, the events it still has to
\* take, followed by those the handler is still to emit, lead from what the
\* adapter knows exactly to the actor's session.  No change goes untold,
\* none is told twice, none out of order.
EventsTellAll ==
  listening => Replay(mirror, events \o outbox) = Session(state, configuration, position)

\* A legal change of a session from `m` to `n`.
Legal(m, n) ==
  /\ m.state # "Closed"
  /\ n.state = "Streaming" /\ m.state # "Streaming" =>
       m.state \in {"Configured", "Suspended"} /\ n.configuration \in ValidConfigs
  /\ n.state = "Streaming" /\ m.state = "Streaming" => n.configuration = m.configuration
  /\ n.state = "Suspended" /\ m.state # "Suspended" => m.state = "Streaming"
  /\ n.state # "Idle" =>
       /\ n.position.time >= m.position.time
       /\ n.position.octets >= m.position.octets
       /\ n.position # m.position => m.state = "Streaming"

\* What an adapter observes is a legal life cycle, whatever clients race for
\* the handle: streaming starts only from a configured or suspended session
\* whose configuration it knows, the configuration never changes while
\* streaming, only a streaming session is suspended, the clock and the counter
\* never run backwards within a session, and nothing follows Closed.
ObservedLifeCycle == [][Legal(mirror, mirror')]_mirror

\* request and the handle methods: every call returns, through full channels,
\* cancelled neighbours, Close and a receiver that goes away.
EveryCallReturns ==
  \A c \in Clients : (client[c] = "waiting") ~> (client[c] # "waiting")
=============================================================================
