---------------------------- MODULE SessionProofs ----------------------------
(***************************************************************************)
(* Session: what the events of the actor tell, for every set of clients,   *)
(* configurations and positions and channels of every capacity.  Neither   *)
(* property is inductive: both speak of the adapter's side of the event    *)
(* channel, and the steps that make them true happen on the actor's.  The  *)
(* invariant is that the events under way are a chain of legal changes     *)
(* from what the adapter knows to what the actor has: a handler lengthens  *)
(* the chain, an emit moves a link from the outbox to the channel, and the *)
(* adapter takes the first link off.                                       *)
(*                                                                         *)
(* Negotiation: what the registry promises, for every set of providers and *)
(* requests and registries of every length; and what the two loops of the  *)
(* broadcast check compute, for any number of subgroups and BIS.           *)
(***************************************************************************)
EXTENDS Session, Negotiation, WellFoundedInduction, TLAPS

\* A set of naturals that is not empty has a least element.
LEMMA LeastElement ==
  ASSUME NEW S \in SUBSET Nat, S # {}
  PROVE  \E i \in S : \A j \in S : i <= j
<1> DEFINE R == {ss \in Nat \X Nat : ss[1] < ss[2]}
<1>1. IsWellFoundedOn(R, Nat)
  BY NatLessThanWellFounded DEF OpToRel
<1>2. \A i, j \in Nat : <<j, i>> \notin R => i <= j
  OBVIOUS
<1> HIDE DEF R
<1>3. \E i \in S : \A j \in S : ~(<<j, i>> \in R)
  BY <1>1, WFMin
<1> QED
  BY <1>2, <1>3

\* A property of 0 that every successor inherits holds up to n.
LEMMA CountUp ==
  ASSUME NEW S, NEW n \in Nat, 0 \in S, \A k \in 0 .. n - 1 : k \in S => k + 1 \in S
  PROVE  \A k \in 0 .. n : k \in S
<1> SUFFICES ASSUME NEW m \in 0 .. n, m \notin S PROVE FALSE
  OBVIOUS
<1> DEFINE Missing == {k \in 0 .. n : k \notin S}
<1>1. Missing \in SUBSET Nat /\ Missing # {}
  OBVIOUS
<1>2. PICK i \in Missing : \A j \in Missing : i <= j
  <2> HIDE DEF Missing
  <2> QED
    BY <1>1, LeastElement
<1>3. i - 1 \in 0 .. n - 1 /\ (i - 1) + 1 = i /\ ~(i <= i - 1)
  OBVIOUS
<1> QED
  BY <1>2, <1>3

-----------------------------------------------------------------------------
(* Chains of events.                                                       *)

Clock == [time : Nat, octets : Nat]
Sessions == [state : States, configuration : ValidConfigs \cup {NoConfig}, position : Clock]

\* The events lead from m to t, by legal changes only.
Chain(h, m, es, t) ==
  /\ h \in [0 .. Len(es) -> Sessions]
  /\ h[0] = m
  /\ h[Len(es)] = t
  /\ \A i \in 1 .. Len(es) : /\ h[i] = Learn(h[i - 1], es[i])
                             /\ h[i] # h[i - 1] => Legal(h[i - 1], h[i])

Leads(m, es, t) == \E h : Chain(h, m, es, t)

LEMMA LeadsNowhere ==
  ASSUME NEW m \in Sessions
  PROVE  Leads(m, << >>, m)
<1> DEFINE h == [i \in 0 .. 0 |-> m]
<1>1. h \in [0 .. 0 -> Sessions] /\ h[0] = m
  OBVIOUS
<1>2. Len(<< >>) = 0 /\ 1 .. 0 = {}
  OBVIOUS
<1>3. Chain(h, m, << >>, m)
  <2> HIDE DEF h
  <2> QED
    BY <1>1, <1>2 DEF Chain
<1> QED
  BY <1>3 DEF Leads

\* The adapter takes the first event.
LEMMA LeadsOn ==
  ASSUME NEW E, NEW es \in Seq(E), es # << >>, NEW m, NEW t, Leads(m, es, t)
  PROVE  /\ Learn(m, Head(es)) # m => Legal(m, Learn(m, Head(es)))
         /\ Leads(Learn(m, Head(es)), Tail(es), t)
<1>1. PICK h : Chain(h, m, es, t)
  BY DEF Leads
<1> DEFINE n == Len(es)
           rest == Tail(es)
           g == [i \in 0 .. n - 1 |-> h[i + 1]]
<1>2. n \in Nat \ {0} /\ Len(rest) = n - 1 /\ \A i \in 1 .. n - 1 : rest[i] = es[i + 1]
  OBVIOUS
<1>3. Head(es) = es[1]
  OBVIOUS
<1>4. /\ h \in [0 .. n -> Sessions] /\ h[0] = m /\ h[n] = t
      /\ \A i \in 1 .. n : /\ h[i] = Learn(h[i - 1], es[i])
                           /\ h[i] # h[i - 1] => Legal(h[i - 1], h[i])
  BY <1>1 DEF Chain
<1> HIDE DEF n, rest
<1>5. h[1] = Learn(m, Head(es)) /\ (h[1] # m => Legal(m, h[1]))
  <2>1. 1 \in 1 .. n /\ 1 - 1 = 0
    BY <1>2
  <2> QED
    BY <1>3, <1>4, <2>1
<1>6. g \in [0 .. n - 1 -> Sessions] /\ g[0] = h[1] /\ g[n - 1] = t
  BY <1>2, <1>4
<1>7. ASSUME NEW i \in 1 .. n - 1
      PROVE  g[i] = Learn(g[i - 1], rest[i]) /\ (g[i] # g[i - 1] => Legal(g[i - 1], g[i]))
  <2>1. i + 1 \in 1 .. n /\ (i + 1) - 1 = i /\ i - 1 \in 0 .. n - 1 /\ i \in 0 .. n - 1 /\ (i - 1) + 1 = i
    BY <1>2
  <2>2. g[i] = h[i + 1] /\ g[i - 1] = h[i] /\ rest[i] = es[i + 1]
    BY <1>2, <2>1
  <2> QED
    BY <1>4, <2>1, <2>2
<1>8. Chain(g, h[1], rest, t)
  <2> HIDE DEF g
  <2> QED
    BY <1>2, <1>6, <1>7 DEF Chain
<1> QED
  BY <1>5, <1>8 DEF Leads, rest

\* The actor has one more event to tell.
LEMMA LeadsFurther ==
  ASSUME NEW E, NEW es \in Seq(E), NEW e \in E, NEW m, NEW t, Leads(m, es, t),
         NEW u \in Sessions, u = Learn(t, e), u # t => Legal(t, u)
  PROVE  Leads(m, Append(es, e), u)
<1>1. PICK h : Chain(h, m, es, t)
  BY DEF Leads
<1> DEFINE n == Len(es)
           more == Append(es, e)
           g == [i \in 0 .. n + 1 |-> IF i = n + 1 THEN u ELSE h[i]]
<1>2. n \in Nat /\ Len(more) = n + 1 /\ more[n + 1] = e /\ \A i \in 1 .. n : more[i] = es[i]
  OBVIOUS
<1>3. /\ h \in [0 .. n -> Sessions] /\ h[0] = m /\ h[n] = t
      /\ \A i \in 1 .. n : /\ h[i] = Learn(h[i - 1], es[i])
                           /\ h[i] # h[i - 1] => Legal(h[i - 1], h[i])
  BY <1>1 DEF Chain
<1> HIDE DEF n, more
<1>4. /\ g \in [0 .. n + 1 -> Sessions] /\ g[0] = m /\ g[n + 1] = u
      /\ \A i \in 0 .. n : g[i] = h[i]
  BY <1>2, <1>3
<1> HIDE DEF g
<1>5. ASSUME NEW i \in 1 .. n + 1
      PROVE  g[i] = Learn(g[i - 1], more[i]) /\ (g[i] # g[i - 1] => Legal(g[i - 1], g[i]))
  <2>1. CASE i = n + 1
    <3>1. g[i - 1] = t /\ g[i] = u /\ more[i] = e
      BY <1>2, <1>3, <1>4, <2>1
    <3> QED
      BY <3>1
  <2>2. CASE i # n + 1
    <3>1. i \in 1 .. n /\ i - 1 \in 0 .. n /\ i \in 0 .. n
      BY <1>2, <2>2
    <3>2. g[i] = h[i] /\ g[i - 1] = h[i - 1] /\ more[i] = es[i]
      BY <1>2, <1>4, <3>1
    <3> QED
      BY <1>3, <3>1, <3>2
  <2> QED
    BY <2>1, <2>2
<1>6. Chain(g, m, more, u)
  BY <1>2, <1>4, <1>5 DEF Chain
<1> QED
  BY <1>6 DEF Leads, more

\* A chain is what the adapter's replay computes.
LEMMA LeadsIsReplay ==
  ASSUME NEW E, NEW es \in Seq(E), NEW m, NEW t, Leads(m, es, t)
  PROVE  Replay(m, es) = t
<1>1. PICK h : Chain(h, m, es, t)
  BY DEF Leads
<1> DEFINE n == Len(es)
           Step(f) == [i \in 0 .. n |-> IF i = 0 THEN m ELSE Learn(f[i - 1], es[i])]
           after == CHOOSE f : f = Step(f)
<1>2. n \in Nat
  OBVIOUS
<1>3. /\ h \in [0 .. n -> Sessions] /\ h[0] = m /\ h[n] = t
      /\ \A i \in 1 .. n : h[i] = Learn(h[i - 1], es[i])
  BY <1>1 DEF Chain
<1>4. Replay(m, es) = after[n]
  BY DEF Replay
<1> HIDE DEF n
<1>5. h = Step(h)
  <2>1. \A i \in 0 .. n : h[i] = IF i = 0 THEN m ELSE Learn(h[i - 1], es[i])
    BY <1>2, <1>3
  <2> QED
    BY <1>3, <2>1
<1>6. after = Step(after)
  BY <1>5
<1> HIDE DEF after
<1>7. \A i \in 0 .. n : after[i] = IF i = 0 THEN m ELSE Learn(after[i - 1], es[i])
  <2>1. \A i \in 0 .. n : Step(after)[i] = IF i = 0 THEN m ELSE Learn(after[i - 1], es[i])
    OBVIOUS
  <2> QED
    BY <1>6, <2>1
<1> HIDE DEF Step
<1> DEFINE S == {k \in 0 .. n : after[k] = h[k]}
<1>8. 0 \in S
  BY <1>2, <1>3, <1>7
<1>9. ASSUME NEW k \in 0 .. n - 1, k \in S PROVE k + 1 \in S
  <2>1. k + 1 \in 1 .. n /\ (k + 1) - 1 = k /\ k + 1 # 0 /\ k + 1 \in 0 .. n
    BY <1>2
  <2>2. after[k + 1] = Learn(after[k], es[k + 1])
    BY <1>7, <2>1
  <2>3. h[k + 1] = Learn(h[k], es[k + 1])
    BY <1>3, <2>1
  <2> QED
    BY <1>9, <2>1, <2>2, <2>3
<1>10. \A k \in 0 .. n : k \in S
  <2> HIDE DEF S
  <2> QED
    BY <1>2, <1>8, <1>9, CountUp
<1>11. after[n] = h[n]
  BY <1>2, <1>10
<1> QED
  BY <1>3, <1>4, <1>11

-----------------------------------------------------------------------------
(* The actor.                                                              *)

Events ==
  [event : {"StateChanged"}, value : States] \cup
  [event : {"ConfigurationChanged"}, value : ValidConfigs] \cup
  [event : {"PositionChanged"}, value : Clock]

Current == Session(state, configuration, position)
Untold == events \o outbox

\* The actor is idle with nothing to tell and a session that is not closed, or
\* it is telling what it has done; and what is untold is a legal chain.
SessionInv ==
  /\ hostPayload \in BOOLEAN
  /\ Current \in Sessions
  /\ ~hostPayload => position.octets = 0
  /\ commands \in Seq([from : Clients \cup {NoClient}, body : Commands])
  /\ events \in Seq(Events)
  /\ outbox \in Seq(Events)
  /\ actor = "recv" => outbox = << >> /\ state # "Closed"
  /\ actor = "emit" => outbox # << >>
  /\ listening => Leads(mirror, Untold, Current)

\* What each event teaches.
LEMMA Learned ==
  ASSUME NEW s, NEW k, NEW p, NEW x
  PROVE  /\ x # "Idle" => Learn(Session(s, k, p), StateChanged(x)) = Session(x, k, p)
         /\ Learn(Session(s, k, p), StateChanged("Idle"))
              = Session("Idle", NoConfig, DefaultPosition)
         /\ Learn(Session(s, k, p), ConfigurationChanged(x)) = Session(s, x, p)
         /\ Learn(Session(s, k, p), PositionChanged(x)) = Session(s, k, x)
  BY DEF Learn, StateChanged, ConfigurationChanged, PositionChanged, Session

\* A session is its three fields.
LEMMA SessionFields ==
  ASSUME NEW s, NEW k, NEW p
  PROVE  /\ Session(s, k, p).state = s
         /\ Session(s, k, p).configuration = k
         /\ Session(s, k, p).position = p
         /\ Session(s, k, p) \in Sessions <=>
              s \in States /\ k \in ValidConfigs \cup {NoConfig} /\ p \in Clock
  BY DEF Session, Sessions

LEMMA SessionStart == Init => SessionInv
<1> SUFFICES ASSUME Init PROVE SessionInv
  OBVIOUS
<1>1. Current \in Sessions /\ mirror = Current
  BY DEF Init, Current, Session, Sessions, States, Clock, DefaultPosition
<1>2. Untold = << >>
  BY DEF Init, Untold
<1>3. Leads(mirror, Untold, Current)
  BY <1>1, <1>2, LeadsNowhere
<1> QED
  BY <1>1, <1>3 DEF Init, SessionInv, DefaultPosition

\* The steps that leave the session, its events and what is known of them.
LEMMA UntoldStays ==
  ASSUME SessionInv, UNCHANGED <<sessionVars, events, outbox, mirror>>,
         commands' \in Seq([from : Clients \cup {NoClient}, body : Commands]),
         actor' \in {"recv", "emit"} => actor' = actor,
         listening' => listening
  PROVE  SessionInv'
<1>1. Current' = Current /\ Untold' = Untold
  BY DEF Current, Untold, sessionVars
<1> QED
  BY <1>1 DEF SessionInv, sessionVars

\* A handler that accepts with one event.
LEMMA AcceptOne ==
  ASSUME SessionInv, actor = "recv", NEW s, NEW k, NEW p, NEW e \in Events,
         Accept(s, k, p, <<e>>), commands # << >>,
         Session(s, k, p) \in Sessions,
         ~hostPayload => p.octets = 0,
         Session(s, k, p) = Learn(Current, e),
         Legal(Current, Session(s, k, p))
  PROVE  SessionInv'
<1>1. Current' = Session(s, k, p)
  BY DEF Current, Accept
<1>2. /\ events \in Seq(Events) /\ outbox = << >> /\ outbox' = <<e>> /\ events' = events
      /\ UNCHANGED <<mirror, listening, hostPayload>> /\ actor' = "emit" /\ position' = p
      /\ commands' = Tail(commands)
  BY DEF SessionInv, Accept
<1>3. Untold = events /\ Untold' = Append(events, e)
  BY <1>2 DEF Untold
<1>4. listening => Leads(mirror, Append(events, e), Session(s, k, p))
  BY <1>2, <1>3, LeadsFurther DEF SessionInv
<1>5. commands' \in Seq([from : Clients \cup {NoClient}, body : Commands])
  BY <1>2 DEF SessionInv
<1>6. outbox' \in Seq(Events) /\ outbox' # << >>
  BY <1>2
<1> QED
  BY <1>1, <1>2, <1>3, <1>4, <1>5, <1>6 DEF SessionInv

\* Configure accepts with two.
LEMMA AcceptTwo ==
  ASSUME SessionInv, actor = "recv", NEW s, NEW k, NEW p, NEW d \in Events, NEW e \in Events,
         Accept(s, k, p, <<d, e>>), commands # << >>,
         Learn(Current, d) \in Sessions,
         Learn(Current, d) # Current => Legal(Current, Learn(Current, d)),
         Session(s, k, p) \in Sessions,
         ~hostPayload => p.octets = 0,
         Session(s, k, p) = Learn(Learn(Current, d), e),
         Session(s, k, p) # Learn(Current, d) => Legal(Learn(Current, d), Session(s, k, p))
  PROVE  SessionInv'
<1>1. Current' = Session(s, k, p)
  BY DEF Current, Accept
<1>2. /\ events \in Seq(Events) /\ outbox = << >> /\ outbox' = <<d, e>> /\ events' = events
      /\ UNCHANGED <<mirror, listening, hostPayload>> /\ actor' = "emit" /\ position' = p
      /\ commands' = Tail(commands)
  BY DEF SessionInv, Accept
<1>3. Untold = events /\ Untold' = Append(Append(events, d), e) /\ Append(events, d) \in Seq(Events)
  BY <1>2 DEF Untold
<1>4. listening => Leads(mirror, Append(events, d), Learn(Current, d))
  BY <1>2, <1>3, LeadsFurther DEF SessionInv
<1>5. listening => Leads(mirror, Append(Append(events, d), e), Session(s, k, p))
  BY <1>3, <1>4, LeadsFurther
<1>6. commands' \in Seq([from : Clients \cup {NoClient}, body : Commands])
  BY <1>2 DEF SessionInv
<1>7. outbox' \in Seq(Events) /\ outbox' # << >>
  BY <1>2
<1> QED
  BY <1>1, <1>2, <1>3, <1>5, <1>6, <1>7 DEF SessionInv

\* A refused command only leaves the queue.
LEMMA RefuseStep ==
  ASSUME SessionInv, commands # << >>, commands' = Tail(commands),
         UNCHANGED <<sessionVars, actorVars, events, listening, mirror>>
  PROVE  SessionInv'
<1>1. commands' \in Seq([from : Clients \cup {NoClient}, body : Commands])
  BY DEF SessionInv
<1> QED
  BY <1>1, UntoldStays DEF actorVars

\* What the handlers know of the session and of their argument.
LEMMA HandlerFacts ==
  ASSUME SessionInv, NEW op, Receive(op)
  PROVE  /\ actor = "recv" /\ commands # << >> /\ state # "Closed"
         /\ state \in States /\ configuration \in ValidConfigs \cup {NoConfig} /\ position \in Clock
         /\ op = "update_position" => Argument \in Clock
<1> DEFINE Entries == [from : Clients \cup {NoClient}, body : Commands]
<1>1. Head(commands) \in Entries
  <2>1. commands \in Seq(Entries) /\ commands # << >>
    BY DEF SessionInv, Receive
  <2> HIDE DEF Entries
  <2> QED
    BY <2>1
<1>2. Head(commands).body \in Commands
  BY <1>1
<1>3. op = "update_position" => Argument \in Reports
  BY <1>2 DEF Receive, Argument, Commands
<1>4. Reports \subseteq Clock
  BY SessionAssumption DEF Clock
<1> QED
  BY <1>3, <1>4, SessionFields DEF SessionInv, Receive, Current

LEMMA ConfigureStep ==
  ASSUME SessionInv, Configure
  PROVE  SessionInv'
<1> DEFINE k == Argument
<1>1. /\ actor = "recv" /\ commands # << >> /\ state # "Closed" /\ state \in States
      /\ configuration \in ValidConfigs \cup {NoConfig} /\ position \in Clock
  BY HandlerFacts DEF Configure
<1>2. CASE state \in {"Idle", "Configured", "Suspended"} /\ k \in ValidConfigs
  <2>1. Accept("Configured", k, position, <<ConfigurationChanged(k), StateChanged("Configured")>>)
    BY <1>2 DEF Configure
  <2>2. ConfigurationChanged(k) \in Events /\ StateChanged("Configured") \in Events
    BY <1>2 DEF ConfigurationChanged, StateChanged, Events, States
  <2>3. Learn(Current, ConfigurationChanged(k)) = Session(state, k, position)
    BY Learned DEF Current
  <2>4. Learn(Session(state, k, position), StateChanged("Configured"))
          = Session("Configured", k, position)
    BY Learned
  <2>5. Session(state, k, position) \in Sessions /\ Session("Configured", k, position) \in Sessions
    BY <1>1, <1>2, SessionFields DEF States
  <2>6. \A n \in Nat : n >= n
    OBVIOUS
  <2>7. position.time \in Nat /\ position.octets \in Nat
    BY <1>1 DEF Clock
  <2>8. Legal(Current, Session(state, k, position))
    BY <1>1, <1>2, <2>6, <2>7, SessionFields DEF Legal, Current
  <2>9. Legal(Session(state, k, position), Session("Configured", k, position))
    BY <1>1, <1>2, <2>6, <2>7, SessionFields DEF Legal
  <2> HIDE DEF k
  <2> QED
    BY <1>1, <2>1, <2>2, <2>3, <2>4, <2>5, <2>8, <2>9, AcceptTwo DEF SessionInv
<1>3. CASE ~(state \in {"Idle", "Configured", "Suspended"} /\ k \in ValidConfigs)
  BY <1>1, <1>3, RefuseStep DEF Configure, Refuse
<1> QED
  BY <1>2, <1>3

LEMMA StartStopStep ==
  ASSUME SessionInv, Start \/ Suspend \/ Stop \/ Close
  PROVE  SessionInv'
<1>1. /\ actor = "recv" /\ commands # << >> /\ state # "Closed" /\ state \in States
      /\ configuration \in ValidConfigs \cup {NoConfig} /\ position \in Clock
  BY HandlerFacts DEF Start, Suspend, Stop, Close
<1>2. position.time \in Nat /\ position.octets \in Nat /\ \A n \in Nat : n >= n
  BY <1>1 DEF Clock
<1>3. CASE Refuse
  BY <1>1, <1>3, RefuseStep DEF Refuse
<1>4. ASSUME NEW s \in States \ {"Idle"}, Accept(s, configuration, position, <<StateChanged(s)>>),
             s = "Streaming" => configuration \in ValidConfigs /\ state \in {"Configured", "Suspended"},
             s = "Suspended" => state = "Streaming"
      PROVE  SessionInv'
  <2>1. StateChanged(s) \in Events
    BY DEF StateChanged, Events
  <2>2. Learn(Current, StateChanged(s)) = Session(s, configuration, position)
    BY Learned DEF Current
  <2>3. Session(s, configuration, position) \in Sessions
    BY <1>1, SessionFields
  <2>4. Legal(Current, Session(s, configuration, position))
    BY <1>1, <1>2, <1>4, SessionFields DEF Legal, Current
  <2> QED
    BY <1>1, <1>4, <2>1, <2>2, <2>3, <2>4, AcceptOne DEF SessionInv
<1>5. ASSUME Accept("Idle", NoConfig, DefaultPosition, <<StateChanged("Idle")>>)
      PROVE  SessionInv'
  <2>1. StateChanged("Idle") \in Events
    BY DEF StateChanged, Events, States
  <2>2. Learn(Current, StateChanged("Idle")) = Session("Idle", NoConfig, DefaultPosition)
    BY Learned DEF Current
  <2>3. DefaultPosition \in Clock /\ DefaultPosition.octets = 0
    BY DEF DefaultPosition, Clock
  <2>4. Session("Idle", NoConfig, DefaultPosition) \in Sessions
    BY <2>3, SessionFields DEF States
  <2>5. Legal(Current, Session("Idle", NoConfig, DefaultPosition))
    BY <1>1, SessionFields DEF Legal, Current
  <2> QED
    BY <1>1, <1>5, <2>1, <2>2, <2>3, <2>4, <2>5, AcceptOne
<1>6. CASE Start
  BY <1>1, <1>3, <1>4, <1>6 DEF Start, States
<1>7. CASE Suspend
  BY <1>3, <1>4, <1>7 DEF Suspend, States
<1>8. CASE Stop
  BY <1>3, <1>5, <1>8 DEF Stop
<1>9. CASE Close
  BY <1>4, <1>9 DEF Close, States
<1> QED
  BY <1>6, <1>7, <1>8, <1>9

LEMMA UpdatePositionStep ==
  ASSUME SessionInv, UpdatePosition
  PROVE  SessionInv'
<1> DEFINE p == Argument
<1>1. /\ actor = "recv" /\ commands # << >> /\ state # "Closed" /\ state \in States
      /\ configuration \in ValidConfigs \cup {NoConfig} /\ position \in Clock /\ p \in Clock
  BY HandlerFacts DEF UpdatePosition
<1>2. CASE Refuse
  BY <1>1, <1>2, RefuseStep DEF Refuse
<1>3. CASE /\ state = "Streaming" /\ p.time >= position.time
           /\ IF hostPayload THEN p.octets >= position.octets ELSE p.octets = 0
           /\ Accept(state, configuration, p, <<PositionChanged(p)>>)
  <2>1. PositionChanged(p) \in Events
    BY <1>1 DEF PositionChanged, Events
  <2>2. Learn(Current, PositionChanged(p)) = Session(state, configuration, p)
    BY Learned DEF Current
  <2>3. Session(state, configuration, p) \in Sessions
    BY <1>1, SessionFields
  <2>4. ~hostPayload => p.octets = 0 /\ position.octets = 0
    BY <1>3 DEF SessionInv
  <2>5. p.octets >= position.octets
    BY <1>3, <2>4
  <2>6. Legal(Current, Session(state, configuration, p))
    BY <1>1, <1>3, <2>5, SessionFields DEF Legal, Current
  <2> HIDE DEF p
  <2> QED
    BY <1>1, <1>3, <2>1, <2>2, <2>3, <2>4, <2>6, AcceptOne
<1> QED
  BY <1>2, <1>3 DEF UpdatePosition

\* An event enters the channel: what is untold is the same.
LEMMA EmitStep ==
  ASSUME SessionInv, Emit
  PROVE  SessionInv'
<1>1. /\ outbox \in Seq(Events) /\ outbox # << >> /\ events \in Seq(Events)
      /\ events' = Append(events, Head(outbox)) /\ outbox' = Tail(outbox)
      /\ UNCHANGED <<sessionVars, listening, mirror>>
  BY DEF SessionInv, Emit
<1>2. events' \in Seq(Events) /\ outbox' \in Seq(Events) /\ Len(outbox') = Len(outbox) - 1
  BY <1>1
<1>3. Untold' = Untold
  <2> DEFINE e == events
             o == outbox
             x == Append(e, Head(o)) \o Tail(o)
             y == e \o o
  <2>1. x \in Seq(Events) /\ y \in Seq(Events) /\ Len(x) = Len(y)
    BY <1>1
  <2>2. \A i \in 1 .. Len(y) : x[i] = y[i]
    BY <1>1
  <2>3. x = y
    <3> HIDE DEF x, y
    <3> QED
      BY <2>1, <2>2
  <2> QED
    BY <1>1, <2>3 DEF Untold
<1>4. Current' = Current
  BY <1>1 DEF Current, sessionVars
<1>5. commands' \in Seq([from : Clients \cup {NoClient}, body : Commands])
  BY DEF SessionInv, Emit
<1>6. /\ actor' = "recv" => Len(outbox) = 1 /\ state # "Closed"
      /\ actor' = "emit" => Len(outbox) # 1
  BY DEF Emit
<1>7. /\ actor' = "recv" => outbox' = << >>
      /\ actor' = "emit" => outbox' # << >>
  <2>1. Len(outbox) = 1 => outbox' = << >>
    BY <1>2
  <2>2. Len(outbox) # 1 => outbox' # << >>
    BY <1>1, <1>2
  <2> QED
    BY <1>6, <2>1, <2>2
<1> QED
  BY <1>1, <1>2, <1>3, <1>4, <1>5, <1>6, <1>7 DEF SessionInv, sessionVars

\* The adapter takes an event: a legal change, and what is untold is the rest.
LEMMA ConsumeStep ==
  ASSUME SessionInv, ConsumeEvent
  PROVE  SessionInv' /\ (mirror' # mirror => Legal(mirror, mirror'))
<1>1. /\ events \in Seq(Events) /\ events # << >> /\ outbox \in Seq(Events)
      /\ events' = Tail(events) /\ mirror' = Learn(mirror, Head(events))
      /\ UNCHANGED <<sessionVars, actorVars, commands>> /\ listening /\ listening'
  BY DEF SessionInv, ConsumeEvent
<1>2. Untold \in Seq(Events) /\ Untold # << >> /\ Head(Untold) = Head(events)
  BY <1>1 DEF Untold
<1>3. Untold' = Tail(Untold)
  <2> DEFINE e == events
             o == outbox
             x == Tail(e) \o o
             y == Tail(e \o o)
  <2>1. x \in Seq(Events) /\ y \in Seq(Events) /\ Len(x) = Len(y)
    BY <1>1
  <2>2. \A i \in 1 .. Len(y) : x[i] = y[i]
    BY <1>1
  <2>3. x = y
    <3> HIDE DEF x, y
    <3> QED
      BY <2>1, <2>2
  <2> QED
    BY <1>1, <2>3 DEF Untold, actorVars
<1>4. Current' = Current /\ events' \in Seq(Events)
  BY <1>1 DEF Current, sessionVars
<1>5. Leads(mirror, Untold, Current)
  BY <1>1 DEF SessionInv
<1>6. /\ mirror' # mirror => Legal(mirror, mirror')
      /\ Leads(mirror', Untold', Current')
  BY <1>1, <1>2, <1>3, <1>4, <1>5, LeadsOn
<1> QED
  BY <1>1, <1>4, <1>6 DEF SessionInv, sessionVars, actorVars

\* Whatever a caller that gives up leaves behind is a queue of commands.
LEMMA CancelStep ==
  ASSUME SessionInv, NEW c \in Clients, CancelRequest(c)
  PROVE  SessionInv'
<1> DEFINE Entries == [from : Clients \cup {NoClient}, body : Commands]
<1>1. commands \in Seq(Entries)
  BY DEF SessionInv
<1>2. \A x \in Entries : [x EXCEPT !.from = NoClient] \in Entries
  OBVIOUS
<1>3. commands' \in Seq(Entries)
  <2> HIDE DEF Entries
  <2>1. ASSUME NEW i \in DOMAIN commands
        PROVE  SubSeq(commands, 1, i - 1) \o SubSeq(commands, i + 1, Len(commands)) \in Seq(Entries)
    BY <1>1
  <2>2. [i \in DOMAIN commands |-> IF commands[i].from = c THEN [commands[i] EXCEPT !.from = NoClient]
                                                          ELSE commands[i]] \in Seq(Entries)
    BY <1>1, <1>2
  <2> QED
    BY <2>1, <2>2 DEF CancelRequest
<1> QED
  BY <1>3, UntoldStays DEF CancelRequest

LEMMA SessionStep == SessionInv /\ [Next]_vars => SessionInv'
<1> SUFFICES ASSUME SessionInv, [Next]_vars PROVE SessionInv'
  OBVIOUS
<1>1. ASSUME NEW c \in Clients, NEW command \in Commands, Send(c, command) PROVE SessionInv'
  <2>1. commands' \in Seq([from : Clients \cup {NoClient}, body : Commands])
    BY <1>1 DEF SessionInv, Send
  <2> QED
    BY <1>1, <2>1, UntoldStays DEF Send, actorVars
<1>2. ASSUME NEW c \in Clients, SendToStopped(c) PROVE SessionInv'
  BY <1>2, UntoldStays DEF SendToStopped, actorVars, SessionInv
<1>3. ASSUME NEW c \in Clients, CancelRequest(c) PROVE SessionInv'
  BY <1>3, CancelStep
<1>4. CASE DropHandles
  BY <1>4, UntoldStays DEF DropHandles, actorVars, SessionInv
<1>5. CASE Configure
  BY <1>5, ConfigureStep
<1>6. CASE Start \/ Suspend \/ Stop \/ Close
  BY <1>6, StartStopStep
<1>7. CASE UpdatePosition
  BY <1>7, UpdatePositionStep
<1>8. CASE GetPosition
  BY <1>8, RefuseStep DEF GetPosition, Receive
<1>9. CASE Emit
  BY <1>9, EmitStep
<1>10. CASE EmitFails
  <2>1. Current' = Current
    BY <1>10 DEF EmitFails, Current, sessionVars
  <2> QED
    BY <1>10, <2>1 DEF EmitFails, SessionInv, sessionVars
<1>11. CASE RecvNone
  BY <1>11, UntoldStays DEF RecvNone, SessionInv
<1>12. CASE ConsumeEvent
  BY <1>12, ConsumeStep
<1>13. CASE DropReceiver
  <2>1. Current' = Current
    BY <1>13 DEF DropReceiver, Current, sessionVars
  <2> QED
    BY <1>13, <2>1 DEF DropReceiver, SessionInv, sessionVars, actorVars
<1>14. CASE UNCHANGED vars
  BY <1>14, UntoldStays DEF vars, actorVars, SessionInv
<1> QED
  BY <1>1, <1>2, <1>3, <1>4, <1>5, <1>6, <1>7, <1>8, <1>9, <1>10, <1>11, <1>12, <1>13, <1>14
     DEF Next, Actor, Handle

\* emit tells everything once and in order: while the receiver lives, replaying
\* what is under way on what the adapter knows gives the actor's session.
THEOREM NothingGoesUntold == Spec => []EventsTellAll
<1>1. ASSUME SessionInv PROVE EventsTellAll
  <2>1. Untold \in Seq(Events)
    BY <1>1 DEF SessionInv, Untold
  <2> QED
    BY <1>1, <2>1, LeadsIsReplay DEF SessionInv, EventsTellAll, Untold, Current
<1> QED
  BY <1>1, SessionStart, SessionStep, PTL DEF Spec

\* Every change an adapter observes is legal, whatever the clients ask for and
\* however their commands race: the handlers' checks on the actor's state are
\* enough for an adapter that runs behind it by any number of events.
THEOREM LifeCycleIsObserved == Spec => ObservedLifeCycle
<1>1. ASSUME SessionInv, [Next]_vars PROVE [Legal(mirror, mirror')]_mirror
  <2>1. CASE ConsumeEvent
    BY <1>1, <2>1, ConsumeStep
  <2>2. ASSUME ~ConsumeEvent PROVE mirror' = mirror
    BY <1>1, <2>2 DEF Next, vars, Send, SendToStopped, CancelRequest, DropHandles, Actor, Handle,
       Configure, Start, Suspend, Stop, UpdatePosition, GetPosition, Close, Accept, Refuse,
       Emit, EmitFails, RecvNone, DropReceiver
  <2> QED
    BY <2>1, <2>2
<1> QED
  BY <1>1, SessionStart, SessionStep, PTL DEF Spec, ObservedLifeCycle

-----------------------------------------------------------------------------
(* The registry of providers.                                              *)

\* The registry holds providers, a grant is what NoHiddenFallback says, and the
\* last verdict is about the session that is still open.
RegistryInv ==
  /\ providers \in Seq(Capabilities)
  /\ NoHiddenFallback
  /\ session # None => granted = None
  /\ attempt # None => /\ session # None
                       /\ attempt.config \in AudioConfigurations
                       /\ attempt.ok <=> ValidateFor(attempt.config, session)

\* select finds a provider that is registered and accepts, unless none does.
LEMMA SelectFinds ==
  ASSUME NEW ps \in Seq(Capabilities), NEW request
  PROVE  \/ /\ Select(ps, request) = None
            /\ \A i \in DOMAIN ps : ~Accepts(ps[i], request)
         \/ \E i \in DOMAIN ps :
              /\ Select(ps, request) = ps[i] /\ ps[i] # None
              /\ Accepts(ps[i], request)
              /\ \A j \in DOMAIN ps : Accepts(ps[j], request) => i <= j
<1> DEFINE accepting == {i \in DOMAIN ps : Accepts(ps[i], request)}
<1>1. CASE accepting = {}
  <2>1. Select(ps, request) = None
    BY <1>1 DEF Select
  <2> QED
    BY <1>1, <2>1
<1>2. CASE accepting # {}
  <2>1. \E i \in accepting : \A j \in accepting : i <= j
    <3>1. accepting \subseteq Nat
      OBVIOUS
    <3> HIDE DEF accepting
    <3> QED
      BY <1>2, <3>1, LeastElement
  <2> DEFINE first == CHOOSE i \in accepting : \A j \in accepting : i <= j
  <2>2. first \in accepting /\ \A j \in accepting : first <= j
    BY <2>1
  <2>3. Select(ps, request) = ps[first]
    BY <1>2 DEF Select
  <2>4. ps[first] \in Capabilities
    BY <2>2
  <2> QED
    BY <2>2, <2>3, <2>4, NegotiationAssumption
<1> QED
  BY <1>1, <1>2

\* A registration leaves the answer to every request that had one.
LEMMA AppendKeepsSelection ==
  ASSUME NEW ps \in Seq(Capabilities), NEW p \in Capabilities, NEW request,
         Select(ps, request) # None
  PROVE  Select(Append(ps, p), request) = Select(ps, request)
<1> DEFINE qs == Append(ps, p)
<1>1. /\ qs \in Seq(Capabilities)
      /\ DOMAIN ps \subseteq DOMAIN qs
      /\ \A i \in DOMAIN ps : qs[i] = ps[i]
      /\ \A j \in DOMAIN qs : j \in DOMAIN ps \/ \A i \in DOMAIN ps : i < j
      /\ DOMAIN qs \subseteq Nat
  OBVIOUS
<1>2. PICK i \in DOMAIN ps :
        /\ Select(ps, request) = ps[i]
        /\ Accepts(ps[i], request)
        /\ \A j \in DOMAIN ps : Accepts(ps[j], request) => i <= j
  BY SelectFinds
<1> HIDE DEF qs
<1>3. i \in DOMAIN qs /\ Accepts(qs[i], request)
  BY <1>1, <1>2
<1>4. PICK k \in DOMAIN qs :
        /\ Select(qs, request) = qs[k]
        /\ Accepts(qs[k], request)
        /\ \A j \in DOMAIN qs : Accepts(qs[j], request) => k <= j
  BY <1>1, <1>3, SelectFinds
<1>5. k <= i
  BY <1>3, <1>4
<1>6. k \in DOMAIN ps
  BY <1>1, <1>5
<1>7. i <= k
  BY <1>1, <1>2, <1>4, <1>6
<1>8. i = k
  BY <1>1, <1>3, <1>5, <1>7
<1> QED
  BY <1>1, <1>2, <1>4, <1>8 DEF qs

\* A successful request establishes the promise.
LEMMA RequestIsExplicit ==
  ASSUME RegistryInv,
         NEW preferred \in Requests, NEW fallback \in Requests \cup {None},
         Request(preferred, fallback)
  PROVE  NoHiddenFallback'
<1> DEFINE s == SelectOrFallback(providers, preferred, fallback)
<1>1. /\ s.provider # None
      /\ granted' = [preferred |-> preferred, fallback |-> fallback,
                     served |-> s.served, provider |-> s.provider]
      /\ providers' = providers
  BY DEF Request
<1>2. CASE Select(providers, preferred) # None
  <2>1. s.served = preferred /\ s.provider = Select(providers, preferred)
    BY <1>2 DEF SelectOrFallback
  <2>2. PICK i \in DOMAIN providers :
          Select(providers, preferred) = providers[i] /\ Accepts(providers[i], preferred)
    BY <1>2, SelectFinds DEF RegistryInv
  <2> QED
    BY <1>1, <2>1, <2>2 DEF NoHiddenFallback
<1>3. CASE Select(providers, preferred) = None
  <2>1. /\ s.served = fallback
        /\ s.provider = IF fallback = None THEN None ELSE Select(providers, fallback)
    BY <1>3 DEF SelectOrFallback
  <2>2. s.provider = Select(providers, fallback) /\ Select(providers, fallback) # None
    BY <1>1, <2>1
  <2>3. PICK i \in DOMAIN providers :
          Select(providers, fallback) = providers[i] /\ Accepts(providers[i], fallback)
    BY <2>2, SelectFinds DEF RegistryInv
  <2>4. \A j \in DOMAIN providers : ~Accepts(providers[j], preferred)
    BY <1>3, SelectFinds DEF RegistryInv
  <2> QED
    BY <1>1, <2>1, <2>2, <2>3, <2>4 DEF NoHiddenFallback
<1> QED
  BY <1>2, <1>3

LEMMA RegistryStep ==
  RegistryInv /\ [NegotiationNext]_negotiationVars => RegistryInv'
<1> SUFFICES ASSUME RegistryInv, [NegotiationNext]_negotiationVars PROVE RegistryInv'
  OBVIOUS
<1>1. ASSUME NEW p \in Capabilities, Register(p) PROVE RegistryInv'
  BY <1>1 DEF RegistryInv, Register, NoHiddenFallback
<1>2. ASSUME NEW preferred \in Requests, NEW fallback \in Requests \cup {None},
             Request(preferred, fallback)
      PROVE  RegistryInv'
  BY <1>2, RequestIsExplicit DEF RegistryInv, Request
<1>3. CASE Open
  <2>1. granted' = None /\ attempt' = None /\ providers' = providers
    BY <1>3 DEF Open, RegistryInv
  <2> QED
    BY <2>1 DEF RegistryInv, NoHiddenFallback
<1>4. ASSUME NEW k \in AudioConfigurations, ConfigureSession(k) PROVE RegistryInv'
  <2>1. UNCHANGED <<providers, granted, session>> /\ granted = None /\ session # None
    BY <1>4 DEF ConfigureSession, RegistryInv
  <2>2. attempt'.config = k /\ (attempt'.ok <=> ValidateFor(k, session))
    BY <1>4 DEF ConfigureSession
  <2> QED
    BY <2>1, <2>2 DEF RegistryInv, NoHiddenFallback
<1>5. CASE UNCHANGED negotiationVars
  BY <1>5 DEF RegistryInv, negotiationVars, NoHiddenFallback
<1> QED
  BY <1>1, <1>2, <1>3, <1>4, <1>5 DEF NegotiationNext

LEMMA RegistryInit == NegotiationInit => RegistryInv
BY DEF NegotiationInit, RegistryInv, NoHiddenFallback

\* No hidden fallback: whatever providers there are and in whatever order they
\* were registered, a grant is for the preferred request or, when nobody accepts
\* that, for the fallback the caller has named.
THEOREM FallbackIsExplicit == NegotiationSpec => []NoHiddenFallback
<1>1. RegistryInv => NoHiddenFallback
  BY DEF RegistryInv
<1>2. RegistryInv /\ [NegotiationNext]_negotiationVars => RegistryInv'
  BY RegistryStep
<1> QED
  BY <1>1, <1>2, RegistryInit, PTL DEF NegotiationSpec

\* Registration order is final: no registration changes whom a request that had
\* a provider is served by.
THEOREM RegistrationKeepsSelection == NegotiationSpec => SelectionStable
<1> DEFINE Stable == \A request \in Requests :
                       Select(providers, request) # None =>
                         Select(providers', request) = Select(providers, request)
<1>1. ASSUME RegistryInv, [NegotiationNext]_negotiationVars PROVE [Stable]_negotiationVars
  <2>1. ASSUME NEW p \in Capabilities, Register(p) PROVE Stable
    BY <1>1, <2>1, AppendKeepsSelection DEF RegistryInv, Register
  <2>2. ASSUME providers' = providers PROVE Stable
    BY <2>2
  <2> QED
    BY <1>1, <2>1, <2>2 DEF NegotiationNext, Request, Open, ConfigureSession
<1>2. RegistryInv /\ [NegotiationNext]_negotiationVars => RegistryInv'
  BY RegistryStep
<1> QED
  BY <1>1, <1>2, RegistryInit, PTL DEF NegotiationSpec, SelectionStable

\* The one codec capability that SoftwareLc3Provider::new reports.
LEMMA SoftwareCodec ==
  ASSUME NEW channels, NEW p, p = SoftwareLc3(channels), NEW d \in p.codecs
  PROVE  /\ d.sampling_frequencies_hz = SampleRates /\ d.frame_durations_us = {7500, 10000}
         /\ d.octets_per_frame_min = 20 /\ d.octets_per_frame_max = 400
<1>1. d \in SoftwareLc3(channels).codecs
  OBVIOUS
<1> QED
  BY <1>1 DEF SoftwareLc3

\* The two codec checks agree: what CodecCapability::supports admits for the
\* software provider, Lc3Configuration::validate admits too, provided an SDU
\* holds a codec frame.
THEOREM GrantsAreConfigurable == NegotiationSpec => []GrantIsConfigurable
<1>1. ASSUME RegistryInv PROVE GrantIsConfigurable
  <2> SUFFICES ASSUME granted # None, granted.provider.name = "floss-host-lc3"
               PROVE  Lc3Valid(granted.served.codec)
                        <=> granted.served.codec.codec_frames_per_sdu > 0
    BY DEF GrantIsConfigurable
  <2>1. granted.provider \in Capabilities /\ Accepts(granted.provider, granted.served)
    <3>1. providers \in Seq(Capabilities)
      BY <1>1 DEF RegistryInv
    <3>2. PICK i \in DOMAIN providers :
            providers[i] = granted.provider /\ Accepts(granted.provider, granted.served)
      BY <1>1 DEF RegistryInv, NoHiddenFallback
    <3>3. providers[i] \in Capabilities
      BY <3>1
    <3> QED
      BY <3>2, <3>3
  <2>2. PICK c \in granted.provider.codecs :
          granted.provider = SoftwareLc3(c.channel_allocations)
    BY <2>1, ProviderAssumption
  <2>3. PICK d \in granted.provider.codecs : CodecSupports(d, granted.served.codec)
    BY <2>1 DEF Accepts
  <2>4. /\ d.sampling_frequencies_hz = SampleRates /\ d.frame_durations_us = {7500, 10000}
        /\ d.octets_per_frame_min = 20 /\ d.octets_per_frame_max = 400
    BY <2>2, SoftwareCodec
  <2> DEFINE codec == granted.served.codec
             octets == codec.octets_per_codec_frame
  <2>5. /\ codec.sampling_frequency_hz \in d.sampling_frequencies_hz
        /\ codec.frame_duration_us \in d.frame_durations_us
        /\ octets \in d.octets_per_frame_min .. d.octets_per_frame_max
    BY <2>3 DEF CodecSupports
  <2> HIDE DEF octets
  <2>6. codec.sampling_frequency_hz \in SampleRates /\ codec.frame_duration_us \in {7500, 10000}
    BY <2>4, <2>5
  <2>7. octets \in 20 .. 400
    BY <2>4, <2>5
  <2>8. octets > 0
    BY <2>7
  <2> QED
    BY <2>6, <2>8 DEF Lc3Valid, octets
<1>2. RegistryInv /\ [NegotiationNext]_negotiationVars => RegistryInv'
  BY RegistryStep
<1> QED
  BY <1>1, <1>2, RegistryInit, PTL DEF NegotiationSpec

-----------------------------------------------------------------------------
(* The loops over subgroups and BIS.                                       *)

Indices(bis, n) == {bis[j].bis_index : j \in 1 .. n}

LEMMA InIndices ==
  ASSUME NEW bis, NEW n, NEW x
  PROVE  x \in Indices(bis, n) <=> \E j \in 1 .. n : x = bis[j].bis_index
  BY DEF Indices

\* The ensure!s of one turn of the inner loop, with what earlier ones have seen.
Admits(codec, seen, bis, j) ==
  /\ bis[j].bis_index \in 1 .. 31
  /\ bis[j].bis_index \notin seen \cup Indices(bis, j - 1)
  /\ Lc3Valid(bis[j].lc3)
  /\ bis[j].lc3 = codec

AdmitsUpto(ok, codec, seen, bis, n) == ok /\ \A j \in 1 .. n : Admits(codec, seen, bis, j)

LEMMA IndicesGrow ==
  ASSUME NEW bis, NEW n \in Nat, NEW ok \in BOOLEAN, NEW codec, NEW seen
  PROVE  /\ Indices(bis, 0) = {}
         /\ Indices(bis, n + 1) = Indices(bis, n) \cup {bis[n + 1].bis_index}
         /\ AdmitsUpto(ok, codec, seen, bis, 0) = ok
         /\ AdmitsUpto(ok, codec, seen, bis, n + 1)
              = (AdmitsUpto(ok, codec, seen, bis, n) /\ Admits(codec, seen, bis, n + 1))
<1>1. 1 .. 0 = {} /\ 1 .. n + 1 = (1 .. n) \cup {n + 1}
  OBVIOUS
<1>2. Indices(bis, 0) = {} /\ Indices(bis, n + 1) = Indices(bis, n) \cup {bis[n + 1].bis_index}
  BY <1>1 DEF Indices
<1>3. AdmitsUpto(ok, codec, seen, bis, 0) = ok
  BY <1>1 DEF AdmitsUpto
<1>4. AdmitsUpto(ok, codec, seen, bis, n + 1)
        = (AdmitsUpto(ok, codec, seen, bis, n) /\ Admits(codec, seen, bis, n + 1))
  BY <1>1 DEF AdmitsUpto
<1> QED
  BY <1>2, <1>3, <1>4

\* One turn of the inner loop.
LEMMA InnerTurn ==
  ASSUME NEW ok \in BOOLEAN, NEW seen, NEW codec, NEW bis, NEW k \in Nat
  PROVE  CheckBis(codec,
                    [ok |-> AdmitsUpto(ok, codec, seen, bis, k), seen |-> seen \cup Indices(bis, k)],
                    bis[k + 1])
           = [ok |-> AdmitsUpto(ok, codec, seen, bis, k + 1), seen |-> seen \cup Indices(bis, k + 1)]
<1> DEFINE acc == [ok |-> AdmitsUpto(ok, codec, seen, bis, k), seen |-> seen \cup Indices(bis, k)]
           Turn == /\ acc.ok
                   /\ bis[k + 1].bis_index \in 1 .. 31
                   /\ bis[k + 1].bis_index \notin acc.seen
                   /\ Lc3Valid(bis[k + 1].lc3)
                   /\ bis[k + 1].lc3 = codec
<1>1. CheckBis(codec, acc, bis[k + 1])
        = [ok |-> Turn, seen |-> acc.seen \cup {bis[k + 1].bis_index}]
  BY DEF CheckBis
<1>2. acc.seen = seen \cup Indices(bis, k) /\ (acc.ok <=> AdmitsUpto(ok, codec, seen, bis, k))
  OBVIOUS
<1>3. acc.seen \cup {bis[k + 1].bis_index} = seen \cup Indices(bis, k + 1)
  <2>1. Indices(bis, k + 1) = Indices(bis, k) \cup {bis[k + 1].bis_index}
    BY IndicesGrow
  <2> HIDE DEF acc
  <2> QED
    BY <1>2, <2>1
<1>4. Turn <=> AdmitsUpto(ok, codec, seen, bis, k + 1)
  <2>1. (k + 1) - 1 = k
    OBVIOUS
  <2>2. Admits(codec, seen, bis, k + 1) <=>
          /\ bis[k + 1].bis_index \in 1 .. 31
          /\ bis[k + 1].bis_index \notin seen \cup Indices(bis, k)
          /\ Lc3Valid(bis[k + 1].lc3)
          /\ bis[k + 1].lc3 = codec
    BY <2>1 DEF Admits
  <2>3. AdmitsUpto(ok, codec, seen, bis, k + 1) <=>
          AdmitsUpto(ok, codec, seen, bis, k) /\ Admits(codec, seen, bis, k + 1)
    BY IndicesGrow
  <2> QED
    BY <1>2, <2>2, <2>3
<1>5. Turn \in BOOLEAN /\ AdmitsUpto(ok, codec, seen, bis, k + 1) \in BOOLEAN
  BY DEF AdmitsUpto
<1>6. Turn = AdmitsUpto(ok, codec, seen, bis, k + 1)
  BY <1>4, <1>5
<1> QED
  BY <1>1, <1>3, <1>6

\* The inner loop.
LEMMA InnerLoop ==
  ASSUME NEW ok \in BOOLEAN, NEW seen, NEW B, NEW g, g.bis \in Seq(B)
  PROVE  CheckAllBis([ok |-> ok, seen |-> seen], g)
           = [ok |-> AdmitsUpto(ok, g.codec, seen, g.bis, Len(g.bis)),
              seen |-> seen \cup Indices(g.bis, Len(g.bis))]
<1> DEFINE n == Len(g.bis)
           acc == [ok |-> ok, seen |-> seen]
           At(k) == [ok |-> AdmitsUpto(ok, g.codec, seen, g.bis, k),
                     seen |-> seen \cup Indices(g.bis, k)]
           Step(f) == [k \in 0 .. n |-> IF k = 0 THEN acc
                                        ELSE CheckBis(g.codec, f[k - 1], g.bis[k])]
           after == CHOOSE f : f = Step(f)
           F == [k \in 0 .. n |-> At(k)]
<1>1. n \in Nat
  OBVIOUS
<1>2. CheckAllBis(acc, g) = after[n]
  BY DEF CheckAllBis
<1>3. At(0) = acc
  BY IndicesGrow
<1>4. ASSUME NEW k \in Nat PROVE CheckBis(g.codec, At(k), g.bis[k + 1]) = At(k + 1)
  <2> DEFINE codec == g.codec
             bis == g.bis
  <2>1. CheckBis(codec,
                   [ok |-> AdmitsUpto(ok, codec, seen, bis, k), seen |-> seen \cup Indices(bis, k)],
                   bis[k + 1])
          = [ok |-> AdmitsUpto(ok, codec, seen, bis, k + 1), seen |-> seen \cup Indices(bis, k + 1)]
    <3> HIDE DEF codec, bis
    <3> QED
      BY InnerTurn
  <2> QED
    BY <2>1
<1> HIDE DEF n, acc, At
<1>5. F = Step(F)
  <2>1. ASSUME NEW k \in 0 .. n
        PROVE  At(k) = IF k = 0 THEN acc ELSE CheckBis(g.codec, F[k - 1], g.bis[k])
    <3>1. CASE k # 0
      <4>1. k - 1 \in Nat /\ (k - 1) + 1 = k /\ k - 1 \in 0 .. n
        BY <1>1, <3>1
      <4>2. F[k - 1] = At(k - 1)
        BY <4>1
      <4>3. CheckBis(g.codec, At(k - 1), g.bis[(k - 1) + 1]) = At((k - 1) + 1)
        BY <1>4, <4>1
      <4> QED
        BY <3>1, <4>1, <4>2, <4>3
    <3> QED
      BY <1>3, <3>1
  <2> QED
    BY <2>1
<1>6. after = Step(after)
  BY <1>5
<1> HIDE DEF after
<1>7. \A k \in 0 .. n : after[k] = IF k = 0 THEN acc ELSE CheckBis(g.codec, after[k - 1], g.bis[k])
  <2>1. \A k \in 0 .. n : Step(after)[k] = IF k = 0 THEN acc
                                           ELSE CheckBis(g.codec, after[k - 1], g.bis[k])
    OBVIOUS
  <2> QED
    BY <1>6, <2>1
<1> HIDE DEF Step
<1> DEFINE S == {k \in 0 .. n : after[k] = At(k)}
<1>8. 0 \in S
  BY <1>1, <1>3, <1>7
<1>9. ASSUME NEW k \in 0 .. n - 1, k \in S PROVE k + 1 \in S
  <2>1. k + 1 \in 0 .. n /\ (k + 1) - 1 = k /\ k + 1 # 0 /\ k \in Nat
    BY <1>1
  <2>2. after[k + 1] = CheckBis(g.codec, after[k], g.bis[k + 1])
    BY <1>7, <2>1
  <2>3. CheckBis(g.codec, At(k), g.bis[k + 1]) = At(k + 1)
    BY <1>4, <2>1
  <2> QED
    BY <1>9, <2>1, <2>2, <2>3
<1>10. \A k \in 0 .. n : k \in S
  <2> HIDE DEF S
  <2> QED
    BY <1>1, <1>8, <1>9, CountUp
<1>11. after[n] = At(n)
  BY <1>1, <1>10
<1> QED
  BY <1>2, <1>11 DEF n, acc, At

\* What the outer loop has seen, and whether it has gone on, after n subgroups.
SeenUpto(gs, n) == UNION {Indices(gs[i].bis, Len(gs[i].bis)) : i \in 1 .. n}

AdmitsGroup(gs, i) ==
  /\ Lc3Valid(gs[i].codec)
  /\ gs[i].bis # << >>
  /\ \A j \in 1 .. Len(gs[i].bis) : Admits(gs[i].codec, SeenUpto(gs, i - 1), gs[i].bis, j)

AdmitsGroups(gs, n) == \A i \in 1 .. n : AdmitsGroup(gs, i)

LEMMA SeenGrows ==
  ASSUME NEW gs, NEW n \in Nat
  PROVE  /\ SeenUpto(gs, 0) = {}
         /\ SeenUpto(gs, n + 1) = SeenUpto(gs, n) \cup Indices(gs[n + 1].bis, Len(gs[n + 1].bis))
         /\ AdmitsGroups(gs, 0)
         /\ AdmitsGroups(gs, n + 1) <=> AdmitsGroups(gs, n) /\ AdmitsGroup(gs, n + 1)
<1>1. 1 .. 0 = {} /\ 1 .. n + 1 = (1 .. n) \cup {n + 1}
  OBVIOUS
<1>2. SeenUpto(gs, 0) = {}
  BY <1>1 DEF SeenUpto
<1>3. SeenUpto(gs, n + 1) = SeenUpto(gs, n) \cup Indices(gs[n + 1].bis, Len(gs[n + 1].bis))
  BY <1>1 DEF SeenUpto
<1>4. AdmitsGroups(gs, 0) /\ (AdmitsGroups(gs, n + 1) <=> AdmitsGroups(gs, n) /\ AdmitsGroup(gs, n + 1))
  BY <1>1 DEF AdmitsGroups
<1> QED
  BY <1>2, <1>3, <1>4

\* One turn of the outer loop.
LEMMA OuterTurn ==
  ASSUME NEW B, NEW gs, NEW k \in Nat, gs[k + 1].bis \in Seq(B)
  PROVE  CheckSubgroup([ok |-> AdmitsGroups(gs, k), seen |-> SeenUpto(gs, k)], gs[k + 1])
           = [ok |-> AdmitsGroups(gs, k + 1), seen |-> SeenUpto(gs, k + 1)]
<1> DEFINE acc == [ok |-> AdmitsGroups(gs, k), seen |-> SeenUpto(gs, k)]
           g == gs[k + 1]
           n == Len(g.bis)
           seen == SeenUpto(gs, k)
           Turn == acc.ok /\ Lc3Valid(g.codec) /\ g.bis # << >>
<1>1. PICK ok \in BOOLEAN : ok = Turn
  OBVIOUS
<1>2. acc.seen = seen /\ (acc.ok <=> AdmitsGroups(gs, k))
  OBVIOUS
<1>3. CheckSubgroup(acc, g) = CheckAllBis([ok |-> ok, seen |-> seen], g)
  BY <1>1, <1>2 DEF CheckSubgroup
<1>4. ok <=> AdmitsGroups(gs, k) /\ Lc3Valid(g.codec) /\ g.bis # << >>
  BY <1>1, <1>2
<1>5. CheckAllBis([ok |-> ok, seen |-> seen], g)
        = [ok |-> AdmitsUpto(ok, g.codec, seen, g.bis, n), seen |-> seen \cup Indices(g.bis, n)]
  <2> HIDE DEF g, seen
  <2> QED
    BY InnerLoop DEF g
<1>6. seen \cup Indices(g.bis, n) = SeenUpto(gs, k + 1)
  BY SeenGrows
<1>7. AdmitsUpto(ok, g.codec, seen, g.bis, n) <=> AdmitsGroups(gs, k + 1)
  <2>1. (k + 1) - 1 = k
    OBVIOUS
  <2>2. AdmitsGroup(gs, k + 1) <=> /\ Lc3Valid(g.codec) /\ g.bis # << >>
                                   /\ \A j \in 1 .. n : Admits(g.codec, seen, g.bis, j)
    BY <2>1 DEF AdmitsGroup
  <2>3. AdmitsGroups(gs, k + 1) <=> AdmitsGroups(gs, k) /\ AdmitsGroup(gs, k + 1)
    BY SeenGrows
  <2> QED
    BY <1>4, <2>2, <2>3 DEF AdmitsUpto
<1>8. AdmitsUpto(ok, g.codec, seen, g.bis, n) \in BOOLEAN /\ AdmitsGroups(gs, k + 1) \in BOOLEAN
  BY DEF AdmitsUpto, AdmitsGroups
<1>9. AdmitsUpto(ok, g.codec, seen, g.bis, n) = AdmitsGroups(gs, k + 1)
  BY <1>7, <1>8
<1> HIDE DEF n, seen, g
<1> QED
  BY <1>3, <1>5, <1>6, <1>9 DEF g

\* The outer loop.
LEMMA OuterLoop ==
  ASSUME NEW gs \in Seq(BroadcastSubgroups)
  PROVE  CheckSubgroups(gs) = [ok |-> AdmitsGroups(gs, Len(gs)), seen |-> SeenUpto(gs, Len(gs))]
<1> DEFINE n == Len(gs)
           acc == [ok |-> TRUE, seen |-> {}]
           At(k) == [ok |-> AdmitsGroups(gs, k), seen |-> SeenUpto(gs, k)]
           Step(f) == [k \in 0 .. n |-> IF k = 0 THEN acc ELSE CheckSubgroup(f[k - 1], gs[k])]
           after == CHOOSE f : f = Step(f)
           F == [k \in 0 .. n |-> At(k)]
<1>1. n \in Nat /\ \A k \in 1 .. n : gs[k] \in BroadcastSubgroups
  OBVIOUS
<1>2. CheckSubgroups(gs) = after[n]
  BY DEF CheckSubgroups
<1>3. At(0) = acc
  <2>1. AdmitsGroups(gs, 0) = TRUE /\ SeenUpto(gs, 0) = {}
    BY SeenGrows DEF AdmitsGroups
  <2> QED
    BY <2>1
<1>4. ASSUME NEW k \in Nat, k + 1 \in 1 .. n
      PROVE  CheckSubgroup(At(k), gs[k + 1]) = At(k + 1)
  <2>1. gs[k + 1].bis \in Seq(BisConfigurations)
    BY <1>1, <1>4 DEF BroadcastSubgroups
  <2> QED
    BY <2>1, OuterTurn
<1> HIDE DEF n, acc, At
<1>5. F = Step(F)
  <2>1. ASSUME NEW k \in 0 .. n
        PROVE  At(k) = IF k = 0 THEN acc ELSE CheckSubgroup(F[k - 1], gs[k])
    <3>1. CASE k # 0
      <4>1. k - 1 \in Nat /\ (k - 1) + 1 = k /\ k - 1 \in 0 .. n /\ k \in 1 .. n
        BY <1>1, <3>1
      <4>2. F[k - 1] = At(k - 1)
        BY <4>1
      <4>3. CheckSubgroup(At(k - 1), gs[(k - 1) + 1]) = At((k - 1) + 1)
        BY <1>4, <4>1
      <4> QED
        BY <3>1, <4>1, <4>2, <4>3
    <3> QED
      BY <1>3, <3>1
  <2> QED
    BY <2>1
<1>6. after = Step(after)
  BY <1>5
<1> HIDE DEF after
<1>7. \A k \in 0 .. n : after[k] = IF k = 0 THEN acc ELSE CheckSubgroup(after[k - 1], gs[k])
  <2>1. \A k \in 0 .. n : Step(after)[k] = IF k = 0 THEN acc
                                           ELSE CheckSubgroup(after[k - 1], gs[k])
    OBVIOUS
  <2> QED
    BY <1>6, <2>1
<1> HIDE DEF Step
<1> DEFINE S == {k \in 0 .. n : after[k] = At(k)}
<1>8. 0 \in S
  BY <1>1, <1>3, <1>7
<1>9. ASSUME NEW k \in 0 .. n - 1, k \in S PROVE k + 1 \in S
  <2>1. k + 1 \in 0 .. n /\ (k + 1) - 1 = k /\ k + 1 # 0 /\ k \in Nat /\ k + 1 \in 1 .. n
    BY <1>1
  <2>2. after[k + 1] = CheckSubgroup(after[k], gs[k + 1])
    BY <1>7, <2>1
  <2>3. CheckSubgroup(At(k), gs[k + 1]) = At(k + 1)
    BY <1>4, <2>1
  <2> QED
    BY <1>9, <2>1, <2>2, <2>3
<1>10. \A k \in 0 .. n : k \in S
  <2> HIDE DEF S
  <2> QED
    BY <1>1, <1>8, <1>9, CountUp
<1>11. after[n] = At(n)
  BY <1>1, <1>10
<1> QED
  BY <1>2, <1>11 DEF n, At

\* The loops accept exactly the sound broadcasts.
LEMMA LoopsAreRight ==
  ASSUME NEW b, b.subgroups \in Seq(BroadcastSubgroups)
  PROVE  AdmitsGroups(b.subgroups, Len(b.subgroups)) <=> SoundBroadcast(b)
<1> DEFINE gs == b.subgroups
           n == Len(gs)
           m(i) == Len(gs[i].bis)
           Index(i, j) == gs[i].bis[j].bis_index
           Fits(i, j) == /\ Index(i, j) \in 1 .. 31
                         /\ Lc3Valid(gs[i].bis[j].lc3) /\ gs[i].bis[j].lc3 = gs[i].codec
           Apart(i, j, k, l) == Index(i, j) = Index(k, l) => i = k /\ j = l
<1>1. n \in Nat /\ DOMAIN gs = 1 .. n
  OBVIOUS
<1>2. ASSUME NEW i \in 1 .. n
      PROVE  /\ m(i) \in Nat /\ DOMAIN gs[i].bis = 1 .. m(i)
             /\ gs[i].bis # << >> => 1 \in 1 .. m(i)
  <2>1. gs[i] \in BroadcastSubgroups
    <3>1. gs \in Seq(BroadcastSubgroups) /\ i \in 1 .. Len(gs)
      OBVIOUS
    <3> HIDE DEF gs
    <3> QED
      BY <3>1
  <2>2. gs[i].bis \in Seq(BisConfigurations)
    <3> HIDE DEF gs
    <3> QED
      BY <2>1 DEF BroadcastSubgroups
  <2> QED
    BY <2>2
<1>3. \A i \in 1 .. n : \A x : x \in SeenUpto(gs, i - 1) <=>
        \E k \in 1 .. i - 1 : \E l \in 1 .. m(k) : x = Index(k, l)
  BY DEF SeenUpto, Indices
<1>4. \A i \in 1 .. n : \A j \in 1 .. m(i) : \A x : x \in Indices(gs[i].bis, j - 1) <=>
        \E l \in 1 .. j - 1 : x = Index(i, l)
  BY InIndices
<1>5. SoundBroadcast(b) <=>
        \A i \in 1 .. n :
          /\ gs[i].bis # << >>
          /\ \A j \in 1 .. m(i) :
               Fits(i, j) /\ \A k \in 1 .. n : \A l \in 1 .. m(k) : Apart(i, j, k, l)
  <2>1. SoundBroadcast(b) <=>
          \A i \in DOMAIN gs :
            /\ gs[i].bis # << >>
            /\ \A j \in DOMAIN gs[i].bis :
                 Fits(i, j) /\ \A k \in DOMAIN gs : \A l \in DOMAIN gs[k].bis : Apart(i, j, k, l)
    BY DEF SoundBroadcast
  <2>2. \A i \in 1 .. n : DOMAIN gs[i].bis = 1 .. m(i)
    BY <1>2
  <2> HIDE DEF gs, n, m, Fits, Apart
  <2> QED
    BY <1>1, <2>1, <2>2
<1>6. AdmitsGroups(gs, n) <=>
        \A i \in 1 .. n :
          /\ Lc3Valid(gs[i].codec) /\ gs[i].bis # << >>
          /\ \A j \in 1 .. m(i) :
               /\ Fits(i, j)
               /\ Index(i, j) \notin SeenUpto(gs, i - 1)
               /\ Index(i, j) \notin Indices(gs[i].bis, j - 1)
  BY DEF AdmitsGroups, AdmitsGroup, Admits
<1>7. \A i \in 1 .. n : m(i) \in Nat /\ (gs[i].bis # << >> => 1 \in 1 .. m(i))
  BY <1>2
<1>8. \A i \in 1 .. n : \A j \in 1 .. m(i) : Fits(i, j) => (Lc3Valid(gs[i].codec))
  BY Zenon
<1> HIDE DEF Index, Fits, m, gs, n
<1>9. ASSUME AdmitsGroups(gs, n) PROVE SoundBroadcast(b)
  <2>1. ASSUME NEW i \in 1 .. n, NEW j \in 1 .. m(i), NEW k \in 1 .. n, NEW l \in 1 .. m(k),
               Index(i, j) = Index(k, l)
        PROVE  i = k /\ j = l
    <3>1. ~(k < i) /\ ~(i < k)
      <4>1. k < i => k \in 1 .. i - 1
        BY <1>1
      <4>2. i < k => i \in 1 .. k - 1
        BY <1>1
      <4>3. Index(i, j) \notin SeenUpto(gs, i - 1) /\ Index(k, l) \notin SeenUpto(gs, k - 1)
        BY <1>6, <1>9
      <4> QED
        BY <1>3, <2>1, <4>1, <4>2, <4>3
    <3>2. i = k
      BY <1>1, <3>1
    <3>3. ~(l < j) /\ ~(j < l)
      <4>1. m(i) \in Nat /\ l \in 1 .. m(i)
        BY <1>7, <3>2
      <4>2. (l < j => l \in 1 .. j - 1) /\ (j < l => j \in 1 .. l - 1)
        BY <4>1
      <4>3. Index(i, j) \notin Indices(gs[i].bis, j - 1) /\ Index(i, l) \notin Indices(gs[i].bis, l - 1)
        BY <1>6, <1>9, <4>1
      <4> QED
        BY <1>4, <2>1, <3>2, <4>1, <4>2, <4>3
    <3> QED
      BY <1>7, <3>2, <3>3
  <2>2. \A i \in 1 .. n : \A j \in 1 .. m(i) : \A k \in 1 .. n : \A l \in 1 .. m(k) : Apart(i, j, k, l)
    BY <2>1
  <2> HIDE DEF Apart
  <2> QED
    BY <1>5, <1>6, <1>9, <2>2
<1>10. ASSUME SoundBroadcast(b) PROVE AdmitsGroups(gs, n)
  <2>1. ASSUME NEW i \in 1 .. n, NEW j \in 1 .. m(i)
        PROVE  Index(i, j) \notin SeenUpto(gs, i - 1) /\ Index(i, j) \notin Indices(gs[i].bis, j - 1)
    <3>1. \A k \in 1 .. i - 1 : k \in 1 .. n /\ k # i
      BY <1>1
    <3>2. \A l \in 1 .. j - 1 : l \in 1 .. m(i) /\ l # j
      BY <1>7
    <3>3. \A k \in 1 .. n : \A l \in 1 .. m(k) : Index(i, j) = Index(k, l) => i = k /\ j = l
      BY <1>5, <1>10, Zenon
    <3>4. Index(i, j) \notin SeenUpto(gs, i - 1)
      BY <1>3, <3>1, <3>3
    <3>5. Index(i, j) \notin Indices(gs[i].bis, j - 1)
      <4>1. \A l \in 1 .. j - 1 : Index(i, j) # Index(i, l)
        BY <3>2, <3>3
      <4>2. Index(i, j) \in Indices(gs[i].bis, j - 1) =>
              \E l \in 1 .. j - 1 : Index(i, j) = Index(i, l)
        <5> DEFINE s == gs[i].bis
                   x == Index(i, j)
        <5>1. x \in Indices(s, j - 1) => \E l \in 1 .. j - 1 : x = s[l].bis_index
          <6> HIDE DEF s, x
          <6> QED
            BY InIndices
        <5> QED
          BY <5>1, Zenon DEF Index
      <4> QED
        BY <4>1, <4>2, Zenon
    <3> QED
      BY <3>4, <3>5
  <2>2. \A i \in 1 .. n : Lc3Valid(gs[i].codec)
    BY <1>5, <1>7, <1>8, <1>10
  <2> HIDE DEF Apart
  <2> QED
    BY <1>5, <1>6, <1>10, <2>1, <2>2
<1> QED
  BY <1>9, <1>10 DEF gs, n

\* A configured session carries what its type can, and BroadcastConfiguration's
\* loops with their one seen_bis accept exactly the sound broadcasts, of any
\* number of subgroups and BIS.
THEOREM ConfigurationsAreSound == NegotiationSpec => []ConfigurationSound
<1>1. ASSUME RegistryInv PROVE ConfigurationSound
  <2> SUFFICES ASSUME attempt # None PROVE ConfigurationSound
    BY DEF ConfigurationSound
  <2> DEFINE k == attempt.config
  <2>1. k \in AudioConfigurations /\ (attempt.ok <=> ValidateFor(k, session))
    BY <1>1 DEF RegistryInv
  <2>2. attempt.ok => /\ k.kind = "Pcm" => ~session.offloaded
                      /\ k.kind = "LeAudio" => ~session.broadcast
                      /\ k.kind = "LeBroadcast" => session.broadcast
    BY <2>1 DEF ValidateFor
  <2>3. ASSUME k.kind = "LeBroadcast", session.broadcast, BroadcastFields(k)
        PROVE  attempt.ok <=> SoundBroadcast(k)
    <3>1. k.subgroups \in Seq(BroadcastSubgroups)
      BY <2>1, <2>3, NegotiationAssumption
    <3>2. ValidateFor(k, session) <=> CheckSubgroups(k.subgroups).ok
      BY <2>3 DEF ValidateFor, BroadcastValid
    <3>3. CheckSubgroups(k.subgroups).ok = AdmitsGroups(k.subgroups, Len(k.subgroups))
      BY <3>1, OuterLoop
    <3> HIDE DEF k
    <3> QED
      BY <2>1, <3>1, <3>2, <3>3, LoopsAreRight
  <2> QED
    BY <2>2, <2>3 DEF ConfigurationSound
<1>2. RegistryInv /\ [NegotiationNext]_negotiationVars => RegistryInv'
  BY RegistryStep
<1> QED
  BY <1>1, <1>2, RegistryInit, PTL DEF NegotiationSpec
=============================================================================
