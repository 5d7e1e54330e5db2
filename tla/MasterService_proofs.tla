------------------------ MODULE MasterService_proofs ------------------------
(***************************************************************************)
(* Proofs about the master: what its replies hold, what it leaves on its   *)
(* connections, and what host_list is worth.                               *)
(***************************************************************************)
EXTENDS MasterService, SequenceLemmas, FiniteSetTheorems

Arg == Key \cup Worker \cup {"nothing"}
Row == [worker : Worker, key : Arg]
Connection == [open : BOOLEAN, live : BOOLEAN, req : Seq(Arg), rep : Seq(Row)]
Progress == {"new", "open", "sent", "got", "done"}
Delegation == [container : Nat, state : Progress, matches : Seq(Row)]
Reply == [asked : Arg, from : Seq(Nat), rows : Seq(Row)]
Stage == {"idle", "collect", "join", "scan", "push", "link", "erase", "dead"}

Types ==
  /\ host_list \in Seq(Nat) /\ last \in Nat
  /\ container \in Seq(Worker)
  /\ conn \in Seq(Connection) /\ Len(conn) = Len(container)
  /\ pc \in [Thread -> Stage] /\ arg \in [Thread -> Arg]
  /\ it \in [Thread -> Nat] /\ prev \in [Thread -> Nat]
  /\ delegators \in [Thread -> Seq(Delegation)]
  /\ reply \in [Thread -> Reply]
  /\ up \subseteq Worker /\ crashed \subseteq Worker
  /\ serving \in [Worker -> Nat]
  /\ \A t \in Thread : Writes(t) => arg[t] \in Worker

(***************************************************************************)
(* A container number that anything refers to is one that was given out.   *)
(***************************************************************************)
Given(c) == c \in DOMAIN container

NumbersGiven ==
  /\ \A n \in DOMAIN host_list : Given(host_list[n])
  /\ \A t \in Thread : \A d \in DOMAIN delegators[t] : Given(delegators[t][d].container)
  /\ \A t \in Thread : \A n \in DOMAIN reply[t].from : Given(reply[t].from[n])
  /\ \A t \in Thread : it[t] # 0 => Given(it[t])
  /\ \A w \in Worker : serving[w] # 0 => Given(serving[w])
  /\ shared \subseteq DOMAIN container

-----------------------------------------------------------------------------
(* What the iterators over host_list return. *)
LEMMA ListTypes ==
  ASSUME Types
  PROVE  /\ First \in Nat
         /\ \A c \in Nat : InList(c) => /\ Position(c) \in 1..Len(host_list)
                                        /\ host_list[Position(c)] = c
                                        /\ After(c) \in Nat
         /\ \A c \in Anywhere : c \in Nat
<1> USE DEF Types
<1>1. First \in Nat /\ \A c \in Anywhere : c \in Nat
  BY DEF First, Anywhere
<1>2. ASSUME NEW c \in Nat, InList(c)
      PROVE  Position(c) \in 1..Len(host_list) /\ host_list[Position(c)] = c
  BY <1>2 DEF InList, Position
<1>3. ASSUME NEW c \in Nat, InList(c)
      PROVE  After(c) \in Nat
  BY <1>2, <1>3 DEF After
<1> QED
  BY <1>1, <1>2, <1>3

(* The part of host_list up to a container is a beginning of it. *)
LEMMA UpToTypes ==
  ASSUME Types, NEW c \in Nat, c = 0 \/ InList(c)
  PROVE  /\ UpTo(c) \in Seq(Nat)
         /\ Len(UpTo(c)) = IF c = 0 THEN 0 ELSE Position(c)
         /\ Len(UpTo(c)) <= Len(host_list)
         /\ \A n \in 1..Len(UpTo(c)) : UpTo(c)[n] = host_list[n]
<1>1. host_list \in Seq(Nat)
  BY DEF Types
<1>2. CASE c = 0
  <2>1. UpTo(c) = <<>>
    BY <1>2 DEF UpTo
  <2>2. <<>> \in Seq(Nat) /\ Len(<<>>) = 0 /\ 1..0 = {}
    OBVIOUS
  <2>3. UpTo(c) \in Seq(Nat) /\ Len(UpTo(c)) = 0
    BY <2>1, <2>2
  <2> QED
    BY <1>1, <1>2, <2>2, <2>3
<1>3. CASE c # 0
  <2>1. Position(c) \in 1..Len(host_list)
    BY <1>3, ListTypes
  <2>2. UpTo(c) = SubSeq(host_list, 1, Position(c))
    BY <1>3 DEF UpTo
  <2> QED
    BY <1>1, <1>3, <2>1, <2>2
<1> QED
  BY <1>2, <1>3

(* Going on with a loop keeps the types of its variables. *)
LEMMA GoOnTypes ==
  ASSUME Types, NEW t \in Thread, NEW c \in Nat, NEW done \in Stage, GoOn(t, c, done)
  PROVE  it' \in [Thread -> Nat] /\ pc' \in [Thread -> Stage]
  BY DEF Types, GoOn

(* So does whatever happens at a dangling iterator. *)
LEMMA DanglingTypes ==
  ASSUME Types, NEW t \in Thread, NEW done \in Stage, Dangling(t, done)
  PROVE  it' \in [Thread -> Nat] /\ pc' \in [Thread -> Stage]
<1>1. CASE Crash
  BY <1>1 DEF Crash, Types, Stage
<1>2. ASSUME NEW c \in Anywhere, GoOn(t, c, done)
      PROVE  it' \in [Thread -> Nat] /\ pc' \in [Thread -> Stage]
  BY <1>2, GoOnTypes, ListTypes
<1> QED
  BY <1>1, <1>2 DEF Dangling

(* What findMatches returns from its delegators has the right type. *)
LEMMA ReplyTypes ==
  ASSUME Types, NEW t \in Thread
  PROVE  LET ds == delegators[t]
             ms == [d \in DOMAIN ds |-> ds[d].matches]
             cs == [d \in DOMAIN ds |-> ds[d].container]
         IN  /\ ms \in Seq(Seq(Row)) /\ cs \in Seq(Nat) /\ FlattenSeq(ms) \in Seq(Row)
             /\ Len(ms) = Len(ds) /\ Len(cs) = Len(ds) /\ DOMAIN ms = DOMAIN ds /\ DOMAIN cs = DOMAIN ds
<1> DEFINE ds == delegators[t]
           ms == [d \in DOMAIN ds |-> ds[d].matches]
           cs == [d \in DOMAIN ds |-> ds[d].container]
<1>1. ds \in Seq(Delegation)
  BY DEF Types
<1> HIDE DEF ds
<1>2. /\ DOMAIN ds = 1..Len(ds) /\ Len(ds) \in Nat
      /\ \A d \in 1..Len(ds) : ds[d].matches \in Seq(Row) /\ ds[d].container \in Nat
  <2>1. \A d \in 1..Len(ds) : ds[d] \in Delegation
    BY <1>1
  <2> QED
    BY <1>1, <2>1 DEF Delegation
<1>3. ms \in Seq(Seq(Row)) /\ Len(ms) = Len(ds)
  BY <1>2
<1>4. cs \in Seq(Nat) /\ Len(cs) = Len(ds)
  BY <1>2
<1> QED
  BY <1>2, <1>3, <1>4, FlattenSeqType DEF ds


(***************************************************************************)
(* A step of delegator d of t that leaves it as g and its connection as r. *)
(***************************************************************************)
Turn(t, d, g, r) ==
  LET c == delegators[t][d].container
  IN  /\ g \in Delegation /\ g.container = c
      /\ delegators' = [delegators EXCEPT ![t] = [delegators[t] EXCEPT ![d] = g]]
      /\ r \in Connection
      /\ conn' = [conn EXCEPT ![c] = r]
      /\ UNCHANGED <<listVars, threadVars, reply, calls, registered, up, crashed>>

(* A delegator and its connection are what their types say. *)
LEMMA SameConnection ==
  ASSUME Types, NumbersGiven, NEW t \in Thread, NEW d \in DOMAIN delegators[t]
  PROVE  LET c == delegators[t][d].container
         IN  /\ delegators[t][d] \in Delegation
             /\ c \in DOMAIN container /\ c \in DOMAIN conn /\ conn[c] \in Connection
             /\ conn = [conn EXCEPT ![c] = conn[c]]
<1> DEFINE c == delegators[t][d].container
<1>1. delegators[t][d] \in Delegation
  BY DEF Types
<1>2. c \in DOMAIN container /\ DOMAIN container = DOMAIN conn
  BY DEF Types, NumbersGiven, Given
<1>3. conn[c] \in Connection
  BY <1>2 DEF Types
<1>4. conn = [conn EXCEPT ![c] = conn[c]]
  BY <1>2 DEF Types
<1> QED
  BY <1>1, <1>2, <1>3, <1>4

(* A step that changes only the state of a delegator is a Turn. *)
LEMMA StateTurn ==
  ASSUME Types, NumbersGiven, NEW t \in Thread, NEW d \in DOMAIN delegators[t]
  PROVE  \A s \in Progress, r \in Connection :
           Becomes(t, d, s) /\ conn' = [conn EXCEPT ![delegators[t][d].container] = r]
             => \E g \in Delegation :
                  Turn(t, d, g, r) /\ g.matches = delegators[t][d].matches /\ g.state = s
<1> SUFFICES ASSUME NEW s \in Progress, NEW r \in Connection, Becomes(t, d, s),
                    conn' = [conn EXCEPT ![delegators[t][d].container] = r]
             PROVE  \E g \in Delegation :
                      Turn(t, d, g, r) /\ g.matches = delegators[t][d].matches /\ g.state = s
  OBVIOUS
<1> DEFINE g0 == delegators[t][d]
           g  == [g0 EXCEPT !.state = s]
<1>1. g0 \in Delegation
  BY SameConnection
<1>2. /\ g \in Delegation /\ g.container = g0.container /\ g.matches = g0.matches
      /\ g.state = s
  BY <1>1 DEF Delegation
<1>3. delegators' = [delegators EXCEPT ![t] = [delegators[t] EXCEPT ![d] = g]]
  BY DEF Becomes
<1>4. UNCHANGED <<listVars, threadVars, reply, calls, registered, up, crashed>>
  BY DEF Becomes
<1> HIDE DEF g
<1>5. Turn(t, d, g, r)
  BY <1>2, <1>3, <1>4 DEF Turn
<1> QED
  BY <1>2, <1>5

(***************************************************************************)
(* What the four steps of a delegator do to it and to its connection.      *)
(***************************************************************************)
Fresh == [Closed EXCEPT !.open = TRUE, !.live = TRUE]

(* The two values a connection is set to. *)
LEMMA ConnectionValues ==
  /\ Closed \in Connection /\ Fresh \in Connection
  /\ Closed.open = FALSE /\ Closed.live = FALSE /\ Closed.req = <<>> /\ Closed.rep = <<>>
  /\ Fresh.open = TRUE /\ Fresh.live = TRUE /\ Fresh.req = <<>> /\ Fresh.rep = <<>>
<1>1. <<>> \in Seq(Arg) /\ <<>> \in Seq(Row)
  OBVIOUS
<1>2. Closed \in Connection
  BY <1>1 DEF Closed, Connection
<1>3. Closed.open = FALSE /\ Closed.live = FALSE /\ Closed.req = <<>> /\ Closed.rep = <<>>
  BY DEF Closed
<1>4. /\ Fresh \in Connection /\ Fresh.open = TRUE /\ Fresh.live = TRUE
      /\ Fresh.req = Closed.req /\ Fresh.rep = Closed.rep
  BY <1>2 DEF Fresh, Connection
<1> QED
  BY <1>2, <1>3, <1>4, Zenon

(* delegator_t: open does nothing, opens the connection, or throws. *)
LEMMA OpenTurn ==
  ASSUME Types, NumbersGiven, NEW t \in Thread, NEW d \in DOMAIN delegators[t], Open(t, d)
  PROVE  LET g0 == delegators[t][d]
             r0 == conn[g0.container]
         IN  /\ pc[t] = "join" /\ g0.state = "new" /\ UNCHANGED serving
             /\ \E g \in Delegation, r \in Connection :
                  /\ Turn(t, d, g, r) /\ g.matches = g0.matches
                  /\ \/ r0.open /\ g.state = "open" /\ r = r0
                     \/ ~r0.open /\ g.state = "open" /\ r = Fresh
                     \/ ~r0.open /\ container[g0.container] \notin up /\ g.state = "done" /\ r = r0
<1> DEFINE g0 == delegators[t][d]
           r0 == conn[g0.container]
<1>0. ASSUME NEW s \in Progress, NEW r \in Connection, Becomes(t, d, s),
             conn' = [conn EXCEPT ![g0.container] = r]
      PROVE  \E g \in Delegation : Turn(t, d, g, r) /\ g.matches = g0.matches /\ g.state = s
  BY <1>0, StateTurn
<1>1. r0 \in Connection /\ conn = [conn EXCEPT ![g0.container] = r0]
  BY SameConnection
<1>2. pc[t] = "join" /\ g0.state = "new" /\ UNCHANGED serving
  BY DEF Open, Running
<1>3. "open" \in Progress /\ "done" \in Progress
  BY DEF Progress
<1>4. CASE r0.open
  <2>1. Becomes(t, d, "open") /\ conn' = [conn EXCEPT ![g0.container] = r0]
    BY <1>1, <1>4 DEF Open
  <2>2. PICK g \in Delegation : Turn(t, d, g, r0) /\ g.matches = g0.matches /\ g.state = "open"
    BY <1>1, <1>3, <2>1, <1>0
  <2> QED
    BY <1>1, <1>2, <1>4, <2>2
<1>5. CASE ~r0.open /\ container[g0.container] \in up
  <2>1. Becomes(t, d, "open") /\ conn' = [conn EXCEPT ![g0.container] = Fresh]
    BY <1>5 DEF Open, Fresh
  <2>2. PICK g \in Delegation : Turn(t, d, g, Fresh) /\ g.matches = g0.matches /\ g.state = "open"
    BY <1>3, <2>1, <1>0, ConnectionValues
  <2> QED
    BY <1>2, <1>5, <2>2, ConnectionValues
<1>6. CASE ~r0.open /\ container[g0.container] \notin up
  <2>1. Becomes(t, d, "done") /\ conn' = [conn EXCEPT ![g0.container] = r0]
    BY <1>1, <1>6 DEF Open
  <2>2. PICK g \in Delegation : Turn(t, d, g, r0) /\ g.matches = g0.matches /\ g.state = "done"
    BY <1>1, <1>3, <2>1, <1>0
  <2> QED
    BY <1>1, <1>2, <1>6, <2>2
<1> QED
  BY <1>4, <1>5, <1>6

(* delegator_t: the request is written, lost or refused. *)
LEMMA SendTurn ==
  ASSUME Types, NumbersGiven, NEW t \in Thread, NEW d \in DOMAIN delegators[t], Send(t, d)
  PROVE  LET g0 == delegators[t][d]
             r0 == conn[g0.container]
         IN  /\ pc[t] = "join" /\ g0.state = "open" /\ UNCHANGED serving
             /\ \E g \in Delegation, r \in Connection :
                  /\ Turn(t, d, g, r) /\ g.matches = g0.matches
                  /\ \/ ~r0.open /\ g.state = "done" /\ r = r0
                     \/ /\ r0.open /\ r0.live /\ g.state = "sent"
                        /\ \/ r = [r0 EXCEPT !.req = Append(@, arg[t])]
                           \/ Crowded(g0.container) /\ r = r0
                     \/ /\ r0.open /\ ~r0.live
                        /\ \/ g.state = "sent" /\ r = r0
                           \/ g.state = "done" /\ r = Closed
<1> DEFINE g0 == delegators[t][d]
           r0 == conn[g0.container]
           asked == [r0 EXCEPT !.req = Append(@, arg[t])]
<1>0. ASSUME NEW s \in Progress, NEW r \in Connection, Becomes(t, d, s),
             conn' = [conn EXCEPT ![g0.container] = r]
      PROVE  \E g \in Delegation : Turn(t, d, g, r) /\ g.matches = g0.matches /\ g.state = s
  BY <1>0, StateTurn
<1>1. r0 \in Connection /\ conn = [conn EXCEPT ![g0.container] = r0]
  BY SameConnection
<1>2. pc[t] = "join" /\ g0.state = "open" /\ UNCHANGED serving
  BY DEF Send, Running
<1>3. "sent" \in Progress /\ "done" \in Progress /\ Closed \in Connection
  BY ConnectionValues DEF Progress
<1>4. asked \in Connection
  <2>1. arg[t] \in Arg /\ r0.req \in Seq(Arg)
    BY <1>1 DEF Types, Connection
  <2>2. Append(r0.req, arg[t]) \in Seq(Arg)
    BY <2>1
  <2> QED
    BY <1>1, <2>2 DEF Connection
<1>5. ASSUME NEW s \in Progress, Becomes(t, d, s), UNCHANGED conn
      PROVE  \E g \in Delegation : Turn(t, d, g, r0) /\ g.matches = g0.matches /\ g.state = s
  BY <1>1, <1>5, StateTurn
<1>6. CASE ~r0.open /\ Becomes(t, d, "done") /\ UNCHANGED conn
  <2>1. PICK g \in Delegation : Turn(t, d, g, r0) /\ g.matches = g0.matches /\ g.state = "done"
    BY <1>3, <1>5, <1>6
  <2> QED
    BY <1>1, <1>2, <1>6, <2>1
<1>7. CASE r0.open /\ r0.live /\ conn' = [conn EXCEPT ![g0.container] = asked] /\ Becomes(t, d, "sent")
  <2> HIDE DEF asked
  <2>1. PICK g \in Delegation : Turn(t, d, g, asked) /\ g.matches = g0.matches /\ g.state = "sent"
    BY <1>3, <1>4, <1>7, <1>0
  <2> QED
    BY <1>2, <1>4, <1>7, <2>1 DEF asked
<1>8. CASE r0.open /\ r0.live /\ Crowded(g0.container) /\ UNCHANGED conn /\ Becomes(t, d, "sent")
  <2>1. PICK g \in Delegation : Turn(t, d, g, r0) /\ g.matches = g0.matches /\ g.state = "sent"
    BY <1>3, <1>5, <1>8
  <2> QED
    BY <1>1, <1>2, <1>8, <2>1
<1>9. CASE r0.open /\ ~r0.live /\ Becomes(t, d, "sent") /\ UNCHANGED conn
  <2>1. PICK g \in Delegation : Turn(t, d, g, r0) /\ g.matches = g0.matches /\ g.state = "sent"
    BY <1>3, <1>5, <1>9
  <2> QED
    BY <1>1, <1>2, <1>9, <2>1
<1>10. CASE r0.open /\ ~r0.live /\ Becomes(t, d, "done") /\ conn' = [conn EXCEPT ![g0.container] = Closed]
  <2>1. PICK g \in Delegation : Turn(t, d, g, Closed) /\ g.matches = g0.matches /\ g.state = "done"
    BY <1>3, <1>10, StateTurn
  <2> QED
    BY <1>2, <1>3, <1>10, <2>1
<1> QED
  BY <1>6, <1>7, <1>8, <1>9, <1>10 DEF Send

(* delegator_t: an answer is read, or an exception ends the call. *)
LEMMA ReceiveTurn ==
  ASSUME Types, NumbersGiven, NEW t \in Thread, NEW d \in DOMAIN delegators[t], Receive(t, d)
  PROVE  LET g0 == delegators[t][d]
             r0 == conn[g0.container]
         IN  /\ pc[t] = "join" /\ g0.state = "sent" /\ UNCHANGED serving
             /\ \E g \in Delegation, r \in Connection :
                  /\ Turn(t, d, g, r)
                  /\ \/ /\ r0.open /\ r0.rep # <<>> /\ g.state = "got"
                        /\ g.matches = <<Head(r0.rep)>> /\ r = [r0 EXCEPT !.rep = Tail(@)]
                     \/ /\ ~r0.open \/ (r0.rep = <<>> /\ ~r0.live) \/ Crowded(g0.container)
                        /\ g.state = "done" /\ g.matches = g0.matches /\ r = r0
<1> DEFINE g0 == delegators[t][d]
           c  == g0.container
           r0 == conn[c]
<1>1. g0 \in Delegation /\ r0 \in Connection /\ conn = [conn EXCEPT ![c] = r0]
  BY SameConnection
<1>2. pc[t] = "join" /\ g0.state = "sent" /\ UNCHANGED serving
  BY DEF Receive, Running
<1>3. CASE /\ r0.open /\ r0.rep # <<>>
           /\ delegators' = [delegators EXCEPT ![t][d].state = "got",
                                              ![t][d].matches = <<Head(r0.rep)>>]
           /\ conn' = [conn EXCEPT ![c].rep = Tail(@)]
           /\ UNCHANGED <<listVars, threadVars, reply, calls, registered, up, crashed>>
  <2> DEFINE g == [g0 EXCEPT !.state = "got", !.matches = <<Head(r0.rep)>>]
             r == [r0 EXCEPT !.rep = Tail(@)]
  <2>1. Head(r0.rep) \in Row /\ Tail(r0.rep) \in Seq(Row)
    <3>1. r0.rep \in Seq(Row)
      BY <1>1 DEF Connection
    <3> QED
      BY SMTT(60), <1>3, <3>1
  <2>2. /\ g \in Delegation /\ g.container = c /\ g.state = "got"
        /\ g.matches = <<Head(r0.rep)>>
    <3>1. <<Head(r0.rep)>> \in Seq(Row)
      BY <2>1
    <3> QED
      BY <1>1, <3>1 DEF Delegation, Progress
  <2>3. r \in Connection
    BY <1>1, <2>1 DEF Connection
  <2>4. delegators' = [delegators EXCEPT ![t] = [delegators[t] EXCEPT ![d] = g]]
    BY <1>3
  <2>5. conn' = [conn EXCEPT ![c] = r]
    BY <1>3
  <2> HIDE DEF g, r
  <2>6. Turn(t, d, g, r)
    BY <1>3, <2>2, <2>3, <2>4, <2>5 DEF Turn
  <2> QED
    BY <1>2, <1>3, <2>2, <2>3, <2>6 DEF r
<1>4. CASE /\ ~r0.open \/ (r0.rep = <<>> /\ ~r0.live) \/ Crowded(c)
           /\ Becomes(t, d, "done") /\ UNCHANGED conn
  <2>1. PICK g \in Delegation : Turn(t, d, g, r0) /\ g.matches = g0.matches /\ g.state = "done"
    BY <1>1, <1>4, StateTurn DEF Progress
  <2> QED
    BY <1>1, <1>2, <1>4, <2>1
<1> QED
  BY <1>3, <1>4 DEF Receive

(* delegator_t: the connection is closed. *)
LEMMA CloseTurn ==
  ASSUME Types, NumbersGiven, NEW t \in Thread, NEW d \in DOMAIN delegators[t], Close(t, d)
  PROVE  LET g0 == delegators[t][d]
             c  == g0.container
             w  == container[c]
         IN  /\ pc[t] = "join" /\ g0.state = "got"
             /\ serving' = IF serving[w] = c THEN [serving EXCEPT ![w] = 0] ELSE serving
             /\ \E g \in Delegation :
                  Turn(t, d, g, Closed) /\ g.matches = g0.matches /\ g.state = "done"
<1>1. "done" \in Progress /\ Closed \in Connection
  BY ConnectionValues DEF Progress
<1>2. Becomes(t, d, "done") /\ conn' = [conn EXCEPT ![delegators[t][d].container] = Closed]
  BY DEF Close
<1>3. \E g \in Delegation :
        Turn(t, d, g, Closed) /\ g.matches = delegators[t][d].matches /\ g.state = "done"
  BY <1>1, <1>2, StateTurn
<1> QED
  BY <1>3 DEF Close, Running

(* A Turn changes one delegator and one connection, and no other. *)
LEMMA TurnEffect ==
  ASSUME Types, NumbersGiven, NEW t \in Thread, NEW d \in DOMAIN delegators[t],
         NEW g \in Delegation, NEW r \in Connection, Turn(t, d, g, r)
  PROVE  /\ delegators' \in [Thread -> Seq(Delegation)]
         /\ conn' \in Seq(Connection) /\ Len(conn') = Len(conn)
         /\ \A u \in Thread : DOMAIN delegators'[u] = DOMAIN delegators[u]
         /\ \A u \in Thread : \A e \in DOMAIN delegators[u] :
              delegators'[u][e] = IF u = t /\ e = d THEN g ELSE delegators[u][e]
         /\ \A c \in DOMAIN container :
              conn'[c] = IF c = delegators[t][d].container THEN r ELSE conn[c]
<1>1. delegators[t] \in Seq(Delegation) /\ d \in 1..Len(delegators[t])
  BY DEF Types
<1> DEFINE ds == [delegators[t] EXCEPT ![d] = g]
<1>2. /\ ds \in Seq(Delegation) /\ DOMAIN ds = DOMAIN delegators[t]
      /\ \A e \in DOMAIN ds : ds[e] = IF e = d THEN g ELSE delegators[t][e]
  BY <1>1, ExceptSeq
<1>3. delegators' = [delegators EXCEPT ![t] = ds]
  BY DEF Turn
<1> HIDE DEF ds
<1>4. /\ delegators' \in [Thread -> Seq(Delegation)]
      /\ \A u \in Thread : delegators'[u] = IF u = t THEN ds ELSE delegators[u]
  BY <1>2, <1>3 DEF Types
<1>5. /\ \A u \in Thread : DOMAIN delegators'[u] = DOMAIN delegators[u]
      /\ \A u \in Thread : \A e \in DOMAIN delegators[u] :
           delegators'[u][e] = IF u = t /\ e = d THEN g ELSE delegators[u][e]
  BY <1>2, <1>4
<1>6. /\ conn \in Seq(Connection) /\ delegators[t][d].container \in 1..Len(conn)
      /\ DOMAIN container = 1..Len(conn)
  BY SameConnection DEF Types
<1>7. conn' = [conn EXCEPT ![delegators[t][d].container] = r]
  BY DEF Turn
<1>8. /\ conn' \in Seq(Connection) /\ Len(conn') = Len(conn)
      /\ \A c \in 1..Len(conn) : conn'[c] = IF c = delegators[t][d].container THEN r ELSE conn[c]
  BY <1>6, <1>7, ExceptSeq
<1> QED
  BY <1>4, <1>5, <1>6, <1>8

(* A Turn keeps the types. *)
LEMMA TurnTypes ==
  ASSUME Types, NumbersGiven, NEW t \in Thread, NEW d \in DOMAIN delegators[t],
         \E g \in Delegation, r \in Connection : Turn(t, d, g, r),
         serving' \in [Worker -> Nat]
  PROVE  Types'
<1>1. PICK g \in Delegation, r \in Connection : Turn(t, d, g, r)
  OBVIOUS
<1>2. UNCHANGED <<listVars, threadVars, reply, calls, registered, up, crashed>>
  BY <1>1 DEF Turn
<1> QED
  BY <1>1, <1>2, TurnEffect DEF Types, listVars, threadVars, Writes

(***************************************************************************)
(* What the external steps of a worker do to its connections.              *)
(***************************************************************************)
Served(w, r) ==
  [r EXCEPT !.req = Tail(@), !.rep = Append(@, Answer(w, Head(r.req)))]

(* A worker answers the first request of one connection. *)
LEMMA ServeEffect ==
  ASSUME Types, NumbersGiven, NEW w \in Worker, Serve(w)
  PROVE  LET c == serving[w]
         IN  /\ c \in DOMAIN container /\ conn[c].req # <<>>
             /\ conn' \in Seq(Connection) /\ Len(conn') = Len(conn)
             /\ conn'[c] = Served(w, conn[c])
             /\ \A e \in DOMAIN container : e # c => conn'[e] = conn[e]
<1> DEFINE c == serving[w]
<1>1. c \in DOMAIN container /\ c \in 1..Len(conn) /\ conn[c].req # <<>> /\ DOMAIN container = 1..Len(conn)
  BY DEF Serve, NumbersGiven, Given, Types
<1>2. conn[c] \in Connection
  BY <1>1 DEF Types
<1>3. Served(w, conn[c]) \in Connection
  <2>1. conn[c].req \in Seq(Arg) /\ conn[c].rep \in Seq(Row)
    BY <1>2 DEF Connection
  <2>2. Head(conn[c].req) \in Arg /\ Tail(conn[c].req) \in Seq(Arg)
    BY <1>1, <2>1
  <2>3. Answer(w, Head(conn[c].req)) \in Row
    BY <2>2 DEF Answer, Row
  <2>4. Append(conn[c].rep, Answer(w, Head(conn[c].req))) \in Seq(Row)
    BY <2>1, <2>3
  <2> QED
    BY <1>2, <2>2, <2>4 DEF Served, Connection
<1>4. conn' = [conn EXCEPT ![c] = Served(w, conn[c])]
  BY <1>2 DEF Serve, Served
<1>5. conn \in Seq(Connection)
  BY DEF Types
<1> HIDE DEF c
<1> QED
  BY <1>1, <1>3, <1>4, <1>5, ExceptSeq DEF c

Cut(r, arrives) ==
  [r EXCEPT !.live = FALSE, !.req = <<>>, !.rep = IF arrives THEN @ ELSE <<>>]

(* A crash cuts the open connections of the worker. *)
LEMMA CrashEffect ==
  ASSUME Types, NEW w \in Worker, WorkerCrash(w)
  PROVE  /\ conn' \in Seq(Connection) /\ Len(conn') = Len(conn)
         /\ \E arrives \in BOOLEAN : \A c \in DOMAIN container :
              conn'[c] = IF container[c] = w /\ conn[c].open THEN Cut(conn[c], arrives) ELSE conn[c]
<1>1. conn \in Seq(Connection) /\ DOMAIN conn = 1..Len(conn) /\ Len(conn) \in Nat /\ DOMAIN container = 1..Len(conn)
  BY DEF Types
<1>2. PICK arrives \in BOOLEAN :
        conn' = [c \in DOMAIN conn |-> IF container[c] = w /\ conn[c].open
                                       THEN Cut(conn[c], arrives) ELSE conn[c]]
  BY DEF WorkerCrash, Cut
<1>3. ASSUME NEW r \in Connection PROVE Cut(r, arrives) \in Connection
  <2>1. <<>> \in Seq(Row) /\ <<>> \in Seq(Arg)
    OBVIOUS
  <2>2. (IF arrives THEN r.rep ELSE <<>>) \in Seq(Row)
    BY <2>1 DEF Connection
  <2> QED
    BY <2>1, <2>2 DEF Cut, Connection
<1>4. \A c \in 1..Len(conn) : conn'[c] \in Connection
  BY <1>1, <1>2, <1>3
<1>5. conn' \in Seq(Connection) /\ Len(conn') = Len(conn)
  BY <1>1, <1>2, <1>4
<1> QED
  BY <1>1, <1>2, <1>5

(* Every step keeps the types. *)
LEMMA TypesHold == Types /\ NumbersGiven /\ [ServiceNext]_serviceVars => Types'
<1> SUFFICES ASSUME Types, NumbersGiven, [ServiceNext]_serviceVars PROVE Types'
  OBVIOUS
<1> USE DEF listVars, threadVars, workerVars, masterVars
<1>1. ASSUME NEW t \in Thread, NEW k \in Key, CallFindMatches(t, k) PROVE Types'
  <2>1. reply' \in [Thread -> Reply]
    <3>1. [asked |-> k, from |-> <<>>, rows |-> <<>>] \in Reply
      BY DEF Reply, Arg
    <3> QED
      BY <1>1, <3>1 DEF CallFindMatches, Types
  <2> QED
    BY <1>1, <2>1, ListTypes DEF Types, CallFindMatches, Call, Arg, Stage, Writes
<1>2. ASSUME NEW t \in Thread, NEW w \in Worker, CallRegisterService(t, w) PROVE Types'
  BY <1>2, ListTypes DEF Types, CallRegisterService, Call, Arg, Stage, Writes
<1>3. ASSUME NEW t \in Thread, NEW w \in Worker, CallDeregisterService(t, w) PROVE Types'
  BY <1>3, ListTypes DEF Types, CallDeregisterService, Call, Arg, Stage, Writes
<1>4. ASSUME NEW t \in Thread, Collect(t) PROVE Types'
  <2>1. it' \in [Thread -> Nat] /\ pc' \in [Thread -> Stage]
    BY <1>4, ListTypes, GoOnTypes, DanglingTypes DEF Collect, Stage, Types
  <2>2. Delegator(it[t]) \in Delegation
    BY DEF Delegator, Delegation, Progress, Types
  <2>3. delegators' \in [Thread -> Seq(Delegation)]
    <3>1. Append(delegators[t], Delegator(it[t])) \in Seq(Delegation)
      BY <2>2 DEF Types
    <3> QED
      BY <1>4, <3>1 DEF Collect, Types
  <2> QED
    BY <1>4, <2>1, <2>3 DEF Collect, Types, Writes, Dangling, GoOn, Crash
<1>5. ASSUME NEW t \in Thread, Join(t) PROVE Types'
  <2>1. reply' \in [Thread -> Reply]
    BY <1>5, ReplyTypes DEF Join, Reply, Types
  <2>2. delegators' \in [Thread -> Seq(Delegation)] /\ pc' \in [Thread -> Stage]
    BY <1>5 DEF Join, Stage, Types
  <2> QED
    BY <1>5, <2>1, <2>2 DEF Join, Types, Writes
<1>6. ASSUME NEW t \in Thread, Scan(t) PROVE Types'
  <2>1. it' \in [Thread -> Nat] /\ pc' \in [Thread -> Stage]
    BY <1>6, ListTypes, GoOnTypes, DanglingTypes DEF Scan, Stage, Types
  <2> QED
    BY <1>6, <2>1 DEF Scan, Types, Writes, Dangling, GoOn, Crash
<1>7. ASSUME NEW t \in Thread, Push(t) PROVE Types'
  BY <1>7 DEF Push, Stage, Types, Writes
<1>8. ASSUME NEW t \in Thread, Link(t) PROVE Types'
  <2>1. arg[t] \in Worker
    BY <1>8 DEF Types, Link, Writes
  <2>2. host_list' \in Seq(Nat)
    <3>1. Len(container) + 1 \in Nat
      BY DEF Types
    <3>2. \A c \in Nat : c = 0 \/ InList(c) => UpTo(c) \in Seq(Nat)
      BY ListTypes DEF UpTo, Types
    <3> QED
      BY <1>8, <3>1, <3>2 DEF Link, Types
  <2>3. container' \in Seq(Worker) /\ conn' \in Seq(Connection) /\ Len(conn') = Len(container')
    BY <1>8, <2>1, ConnectionValues DEF Link, Types
  <2> QED
    BY <1>8, <2>2, <2>3 DEF Link, Types, Writes, Stage
<1>9. ASSUME NEW t \in Thread, Deregister(t) PROVE Types'
  <2>1. it' \in [Thread -> Nat] /\ pc' \in [Thread -> Stage]
    BY <1>9, ListTypes, GoOnTypes, DanglingTypes DEF Deregister, Stage, Types
  <2>2. host_list' \in Seq(Nat) /\ last' \in Nat
    <3>1. ASSUME InList(it[t]) PROVE RemoveAt(host_list, Position(it[t])) \in Seq(Nat)
      <4>1. Position(it[t]) \in 1..Len(host_list)
        BY <3>1, ListTypes DEF Types
      <4> QED
        BY SMTT(30), <4>1, ConcatProperties DEF RemoveAt, Types
    <3>2. ASSUME InList(it[t]), First # it[t]
          PROVE  host_list[Position(it[t]) - 1] \in Nat
      <4>1. Position(it[t]) \in 1..Len(host_list) /\ host_list[Position(it[t])] = it[t]
        BY <3>2, ListTypes DEF Types
      <4>2. Position(it[t]) # 1
        BY <3>2, <4>1 DEF First
      <4> QED
        BY <4>1, <4>2 DEF Types
    <3> QED
      BY <1>9, <3>1, <3>2 DEF Deregister, Erase, Types
  <2> QED
    BY <1>9, <2>1, <2>2 DEF Deregister, Types, Writes, Dangling, GoOn, Crash
<1>10. ASSUME NEW t \in Thread, NEW d \in DOMAIN delegators[t], Open(t, d) PROVE Types'
  <2>1. \E g \in Delegation, r \in Connection : Turn(t, d, g, r)
    BY <1>10, OpenTurn
  <2>2. serving' \in [Worker -> Nat]
    BY <1>10, OpenTurn DEF Types
  <2> QED
    BY <2>1, <2>2, TurnTypes
<1>11. ASSUME NEW t \in Thread, NEW d \in DOMAIN delegators[t], Send(t, d) PROVE Types'
  <2>1. \E g \in Delegation, r \in Connection : Turn(t, d, g, r)
    BY <1>11, SendTurn
  <2>2. serving' \in [Worker -> Nat]
    BY <1>11, SendTurn DEF Types
  <2> QED
    BY <2>1, <2>2, TurnTypes
<1>12. ASSUME NEW t \in Thread, NEW d \in DOMAIN delegators[t], Receive(t, d) PROVE Types'
  <2>1. \E g \in Delegation, r \in Connection : Turn(t, d, g, r)
    BY <1>12, ReceiveTurn
  <2>2. serving' \in [Worker -> Nat]
    BY <1>12, ReceiveTurn DEF Types
  <2> QED
    BY <2>1, <2>2, TurnTypes
<1>13. ASSUME NEW t \in Thread, NEW d \in DOMAIN delegators[t], Close(t, d) PROVE Types'
  <2>1. \E g \in Delegation, r \in Connection : Turn(t, d, g, r)
    BY <1>13, CloseTurn, ConnectionValues
  <2>2. serving' \in [Worker -> Nat]
    BY <1>13 DEF Close, Types
  <2> QED
    BY <2>1, <2>2, TurnTypes
<1>14. ASSUME NEW w \in Worker, Accept(w) PROVE Types'
  <2>1. serving' \in [Worker -> Nat]
    BY <1>14 DEF Accept, Types
  <2> QED
    BY <1>14, <2>1 DEF Accept, Types, Writes
<1>15. ASSUME NEW w \in Worker, Serve(w) PROVE Types'
  <2>1. conn' \in Seq(Connection) /\ Len(conn') = Len(conn)
    BY <1>15, ServeEffect
  <2> QED
    BY <1>15, <2>1 DEF Serve, Types, Writes
<1>16. ASSUME NEW w \in Worker, WorkerCrash(w) PROVE Types'
  <2>1. conn' \in Seq(Connection) /\ Len(conn') = Len(conn)
    BY <1>16, CrashEffect
  <2>2. serving' \in [Worker -> Nat]
    BY <1>16 DEF WorkerCrash, Types
  <2> QED
    BY <1>16, <2>1, <2>2 DEF WorkerCrash, Types, Writes
<1>17. ASSUME NEW w \in Worker, WorkerRestart(w) PROVE Types'
  BY <1>17 DEF WorkerRestart, Types, Writes
<1>18. CASE UNCHANGED serviceVars
  BY <1>18 DEF serviceVars, Types, Writes
<1> QED
  BY <1>1, <1>2, <1>3, <1>4, <1>5, <1>6, <1>7, <1>8, <1>9, <1>10, <1>11, <1>12, <1>13, <1>14, <1>15,
     <1>16, <1>17, <1>18 DEF ServiceNext, Step, Handle, Delegate

-----------------------------------------------------------------------------
(***************************************************************************)
(* The steps of the service, by what they touch.                           *)
(***************************************************************************)
LEMMA StepCases ==
  ASSUME ServiceNext
  PROVE  \/ \E t \in Thread, k \in Key : CallFindMatches(t, k)
         \/ \E t \in Thread, w \in Worker : CallRegisterService(t, w) \/ CallDeregisterService(t, w)
         \/ \E t \in Thread : Collect(t) \/ Join(t) \/ Scan(t) \/ Push(t) \/ Link(t) \/ Deregister(t)
         \/ \E t \in Thread : \E d \in DOMAIN delegators[t] :
              Open(t, d) \/ Send(t, d) \/ Receive(t, d) \/ Close(t, d)
         \/ \E w \in Worker : Accept(w) \/ Serve(w) \/ WorkerCrash(w) \/ WorkerRestart(w)
  BY DEF ServiceNext, Step, Handle, Delegate

(* Containers are never renumbered, and the histories only grow. *)
LEMMA ContainersGrow ==
  ASSUME Types, [ServiceNext]_serviceVars
  PROVE  /\ DOMAIN container \subseteq DOMAIN container'
         /\ \A c \in DOMAIN container : container'[c] = container[c]
         /\ shared \subseteq shared' /\ crashed \subseteq crashed'
<1> USE DEF listVars, threadVars, workerVars, masterVars
<1>1. CASE UNCHANGED serviceVars
  BY <1>1 DEF serviceVars
<1>2. ASSUME ServiceNext PROVE shared \subseteq shared'
  BY <1>2 DEF ServiceNext
<1>3. ASSUME NEW t \in Thread, Link(t)
      PROVE  /\ DOMAIN container \subseteq DOMAIN container' /\ UNCHANGED crashed
             /\ \A c \in DOMAIN container : container'[c] = container[c]
  <2>1. container \in Seq(Worker) /\ arg[t] \in Worker /\ container' = Append(container, arg[t])
    BY <1>3 DEF Types, Link, Writes
  <2> QED
    BY <1>3, <2>1 DEF Link
<1>4. ASSUME NEW t \in Thread, NEW d \in DOMAIN delegators[t],
             Open(t, d) \/ Send(t, d) \/ Receive(t, d) \/ Close(t, d)
      PROVE  UNCHANGED <<container, crashed>>
  BY <1>4 DEF Open, Send, Receive, Close, Becomes
<1>5. ASSUME NEW t \in Thread,
             \/ \E k \in Key : CallFindMatches(t, k)
             \/ \E w \in Worker : CallRegisterService(t, w) \/ CallDeregisterService(t, w)
             \/ Collect(t) \/ Join(t) \/ Scan(t) \/ Push(t) \/ Deregister(t)
      PROVE  UNCHANGED <<container, crashed>>
  BY <1>5 DEF CallFindMatches, CallRegisterService, CallDeregisterService, Collect, Join, Scan, Push, Deregister
<1>6. ASSUME NEW w \in Worker, Accept(w) \/ Serve(w) \/ WorkerCrash(w) \/ WorkerRestart(w)
      PROVE  UNCHANGED container /\ crashed \subseteq crashed'
  BY <1>6 DEF Accept, Serve, WorkerCrash, WorkerRestart
<1>7. CASE ServiceNext
  BY <1>2, <1>3, <1>4, <1>5, <1>6, <1>7, StepCases
<1> QED
  BY <1>1, <1>7

(* The iterators stand at containers that exist. *)
LEMMA ListNumbers ==
  ASSUME Types, NumbersGiven
  PROVE  /\ First # 0 => Given(First)
         /\ \A c \in Nat : InList(c) => Given(c)
         /\ \A c \in Nat : InList(c) => (After(c) # 0 => Given(After(c)))
         /\ \A c \in Anywhere : c # 0 => Given(c)
         /\ \A c \in Nat : Given(c) => c \in 1..Len(container)
<1> USE DEF Types, NumbersGiven
<1>1. First # 0 => Given(First)
  BY DEF First
<1>2. \A c \in Nat : InList(c) => Given(c)
  BY DEF InList
<1>3. ASSUME NEW c \in Nat, InList(c), After(c) # 0 PROVE Given(After(c))
  BY <1>3, ListTypes DEF After
<1>4. \A c \in Anywhere : c # 0 => Given(c)
  BY DEF Anywhere
<1> QED
  BY <1>1, <1>2, <1>3, <1>4 DEF Given

(* They still do after a turn of a loop over host_list. *)
LEMMA GoOnNumbers ==
  ASSUME Types, NumbersGiven, NEW t \in Thread, NEW done,
         \/ Dangling(t, done)
         \/ InList(it[t]) /\ GoOn(t, After(it[t]), done)
  PROVE  \A u \in Thread : it'[u] # 0 => Given(it'[u])
<1>1. CASE Crash
  BY <1>1 DEF Crash, NumbersGiven
<1>2. ASSUME NEW c \in Anywhere, GoOn(t, c, done)
      PROVE  \A u \in Thread : it'[u] # 0 => Given(it'[u])
  BY <1>2, ListNumbers DEF GoOn, NumbersGiven, Types
<1>3. CASE InList(it[t]) /\ GoOn(t, After(it[t]), done)
  BY <1>3, ListNumbers DEF GoOn, NumbersGiven, Types
<1> QED
  BY <1>1, <1>2, <1>3 DEF Dangling

(* Every step keeps the numbers of containers within those given out. *)
LEMMA NumbersHold == Types /\ NumbersGiven /\ [ServiceNext]_serviceVars => NumbersGiven'
<1> SUFFICES ASSUME Types, NumbersGiven, [ServiceNext]_serviceVars PROVE NumbersGiven'
  OBVIOUS
<1> USE DEF listVars, threadVars, workerVars, masterVars
<1>0. /\ \A c \in DOMAIN container : c \in DOMAIN container'
      /\ \A c : Given(c) => Given(c)'
  BY ContainersGrow DEF Given
<1>s. shared' \subseteq DOMAIN container'
  BY <1>0 DEF NumbersGiven, ServiceNext, Sharing, serviceVars
<1>f. First # 0 => Given(First)
  BY ListNumbers
<1>1. ASSUME NEW t \in Thread, NEW k \in Key, CallFindMatches(t, k) PROVE NumbersGiven'
  <2>1. \A u \in Thread : \A n \in DOMAIN reply'[u].from : Given(reply'[u].from[n])
    <3> DEFINE none == [asked |-> k, from |-> <<>>, rows |-> <<>>]
    <3>1. \A n \in DOMAIN none.from : FALSE
      OBVIOUS
    <3> HIDE DEF none
    <3>2. reply' = reply \/ reply' = [reply EXCEPT ![t] = none]
      BY <1>1 DEF CallFindMatches, none
    <3> QED
      BY <3>1, <3>2 DEF NumbersGiven, Types
  <2>2. \A u \in Thread : it'[u] # 0 => Given(it'[u])
    BY <1>1, <1>f DEF CallFindMatches, NumbersGiven, Types
  <2> QED
    BY <1>1, <1>0, <1>s, <2>1, <2>2 DEF CallFindMatches, NumbersGiven
<1>2. ASSUME NEW t \in Thread, NEW w \in Worker,
             CallRegisterService(t, w) \/ CallDeregisterService(t, w)
      PROVE  NumbersGiven'
  <2>2. \A u \in Thread : it'[u] # 0 => Given(it'[u])
    BY <1>2, <1>f DEF CallRegisterService, CallDeregisterService, NumbersGiven, Types
  <2> QED
    BY <1>2, <1>0, <1>s, <2>2 DEF CallRegisterService, CallDeregisterService, NumbersGiven
<1>4. ASSUME NEW t \in Thread, Collect(t) PROVE NumbersGiven'
  <2>1. \A u \in Thread : it'[u] # 0 => Given(it'[u])
    BY <1>4, GoOnNumbers DEF Collect
  <2>2. InList(it[t]) => Given(it[t])
    BY ListNumbers DEF Types
  <2>3. \A u \in Thread : \A d \in DOMAIN delegators'[u] : Given(delegators'[u][d].container)
    <3>1. CASE ~InList(it[t])
      BY <1>4, <3>1 DEF Collect, NumbersGiven
    <3>2. CASE InList(it[t])
      <4>1. Delegator(it[t]).container = it[t]
        BY DEF Delegator
      <4>2. delegators[t] \in Seq(Delegation)
        BY DEF Types
      <4> HIDE DEF Delegator
      <4>3. delegators' = [delegators EXCEPT ![t] = Append(delegators[t], Delegator(it[t]))]
        BY <1>4, <3>2 DEF Collect
      <4>4. \A d \in DOMAIN Append(delegators[t], Delegator(it[t])) :
              \/ d \in DOMAIN delegators[t] /\ Append(delegators[t], Delegator(it[t]))[d] = delegators[t][d]
              \/ Append(delegators[t], Delegator(it[t]))[d] = Delegator(it[t])
        BY <4>2
      <4>5. \A d \in DOMAIN Append(delegators[t], Delegator(it[t])) :
              Given(Append(delegators[t], Delegator(it[t]))[d].container)
        BY <2>2, <3>2, <4>1, <4>4 DEF NumbersGiven
      <4> QED
        BY <4>3, <4>5 DEF NumbersGiven, Types
    <3> QED
      BY <3>1, <3>2
  <2> QED
    BY <1>4, <1>0, <1>s, <2>1, <2>3 DEF Collect, NumbersGiven
<1>5. ASSUME NEW t \in Thread, Join(t) PROVE NumbersGiven'
  <2>1. \A u \in Thread : \A d \in DOMAIN delegators'[u] : Given(delegators'[u][d].container)
    BY <1>5 DEF Join, NumbersGiven, Types
  <2>2. \A u \in Thread : \A n \in DOMAIN reply'[u].from : Given(reply'[u].from[n])
    BY <1>5, ReplyTypes DEF Join, NumbersGiven, Types
  <2> QED
    BY <1>5, <1>0, <1>s, <2>1, <2>2 DEF Join, NumbersGiven
<1>6. ASSUME NEW t \in Thread, Scan(t) PROVE NumbersGiven'
  <2>1. \A u \in Thread : it'[u] # 0 => Given(it'[u])
    BY <1>6, GoOnNumbers DEF Scan, NumbersGiven
  <2> QED
    BY <1>6, <1>0, <1>s, <2>1 DEF Scan, NumbersGiven
<1>7. ASSUME NEW t \in Thread, Push(t) PROVE NumbersGiven'
  BY <1>7, <1>0, <1>s DEF Push, NumbersGiven
<1>8. ASSUME NEW t \in Thread, Link(t) PROVE NumbersGiven'
  <2>1. Len(container) + 1 \in DOMAIN container'
    <3>1. arg[t] \in Worker /\ container \in Seq(Worker) /\ container' = Append(container, arg[t])
      BY <1>8 DEF Types, Link, Writes
    <3> QED
      BY <3>1
  <2>4. (\A n \in DOMAIN host_list : Given(host_list[n]))'
    <3>1. CASE ~(prev[t] = 0 \/ InList(prev[t]))
      BY <1>8, <1>0, <3>1 DEF Link, NumbersGiven
    <3>2. CASE prev[t] = 0 \/ InList(prev[t])
      <4> DEFINE q == UpTo(prev[t])
      <4>1. /\ q \in Seq(Nat) /\ Len(q) <= Len(host_list) /\ host_list \in Seq(Nat)
            /\ \A n \in 1..Len(q) : q[n] = host_list[n]
        BY <3>2, UpToTypes DEF Types
      <4>2. host_list' = Append(q, Len(container) + 1)
        BY <1>8, <3>2 DEF Link
      <4> HIDE DEF q
      <4>3. ASSUME NEW n \in DOMAIN host_list'
            PROVE  \/ host_list'[n] = Len(container) + 1
                   \/ n \in DOMAIN host_list /\ host_list'[n] = host_list[n]
        BY <4>1, <4>2
      <4> QED
        BY <1>0, <2>1, <4>3 DEF NumbersGiven, Given
    <3> QED
      BY <3>1, <3>2
  <2> QED
    BY <1>8, <1>0, <1>s, <2>4 DEF Link, NumbersGiven
<1>9. ASSUME NEW t \in Thread, Deregister(t) PROVE NumbersGiven'
  <2>1. \A u \in Thread : it'[u] # 0 => Given(it'[u])
    BY <1>9, GoOnNumbers DEF Deregister
  <2>2. \A n \in DOMAIN host_list' : \E m \in DOMAIN host_list : host_list'[n] = host_list[m]
    <3>1. ASSUME InList(it[t])
          PROVE  \A n \in DOMAIN RemoveAt(host_list, Position(it[t])) :
                   \E m \in DOMAIN host_list : RemoveAt(host_list, Position(it[t]))[n] = host_list[m]
      <4>1. Position(it[t]) \in 1..Len(host_list)
        BY <3>1, ListTypes DEF Types
      <4> QED
        BY <4>1, RemovedElements DEF Types
    <3> QED
      BY <1>9, <3>1 DEF Deregister, Erase
  <2> QED
    BY <1>9, <1>0, <1>s, <2>1, <2>2 DEF Deregister, NumbersGiven
<1>10. ASSUME NEW t \in Thread, NEW d \in DOMAIN delegators[t],
              Open(t, d) \/ Send(t, d) \/ Receive(t, d) \/ Close(t, d)
       PROVE  NumbersGiven'
  <2>1. PICK g \in Delegation, r \in Connection : Turn(t, d, g, r)
    <3>1. ASSUME Open(t, d) PROVE \E g \in Delegation, r \in Connection : Turn(t, d, g, r)
      BY <3>1, OpenTurn
    <3>2. ASSUME Send(t, d) PROVE \E g \in Delegation, r \in Connection : Turn(t, d, g, r)
      BY <3>2, SendTurn
    <3>3. ASSUME Receive(t, d) PROVE \E g \in Delegation, r \in Connection : Turn(t, d, g, r)
      BY <3>3, ReceiveTurn
    <3>4. ASSUME Close(t, d) PROVE \E g \in Delegation, r \in Connection : Turn(t, d, g, r)
      BY <3>4, CloseTurn, ConnectionValues
    <3> QED
      BY <1>10, <3>1, <3>2, <3>3, <3>4
  <2>2. \A u \in Thread : \A e \in DOMAIN delegators'[u] : Given(delegators'[u][e].container)
    BY <2>1, TurnEffect DEF Turn, NumbersGiven
  <2>3. \A w \in Worker : serving'[w] # 0 => Given(serving'[w])
    BY <1>10 DEF Open, Send, Receive, Close, NumbersGiven, Types
  <2> QED
    BY <1>0, <1>s, <2>1, <2>2, <2>3 DEF Turn, NumbersGiven
<1>14. ASSUME NEW w \in Worker, Accept(w) \/ Serve(w) \/ WorkerCrash(w) \/ WorkerRestart(w)
       PROVE  NumbersGiven'
  <2>1. \A v \in Worker : serving'[v] # 0 => Given(serving'[v])
    BY <1>14 DEF Accept, Serve, WorkerCrash, WorkerRestart, NumbersGiven, Given, Types
  <2> QED
    BY <1>14, <1>0, <1>s, <2>1 DEF Accept, Serve, WorkerCrash, WorkerRestart, NumbersGiven
<1>18. CASE UNCHANGED serviceVars
  BY <1>18 DEF serviceVars, NumbersGiven, Given
<1> QED
  BY <1>1, <1>2, <1>4, <1>5, <1>6, <1>7, <1>8, <1>9, <1>10, <1>14, <1>18, StepCases

-----------------------------------------------------------------------------
(***************************************************************************)
(* A worker that does not run has crashed, and serves only connections of  *)
(* its own containers.                                                     *)
(***************************************************************************)
WorkersSound ==
  /\ Worker \ up \subseteq crashed
  /\ \A w \in Worker : serving[w] # 0 => container[serving[w]] = w

(* Every step keeps WorkersSound. *)
LEMMA WorkersHold ==
  Types /\ NumbersGiven /\ WorkersSound /\ [ServiceNext]_serviceVars => WorkersSound'
<1> SUFFICES ASSUME Types, NumbersGiven, WorkersSound, [ServiceNext]_serviceVars
             PROVE  WorkersSound'
  OBVIOUS
<1> USE DEF listVars, threadVars, workerVars, masterVars
<1>1. \A w \in Worker : serving[w] # 0 => container'[serving[w]] = w
  BY ContainersGrow DEF WorkersSound, NumbersGiven, Given
<1>2. CASE UNCHANGED <<up, crashed>> /\ \A w \in Worker : serving'[w] \in {serving[w], 0}
  BY <1>1, <1>2 DEF WorkersSound
<1>3. ASSUME NEW t \in Thread,
             \/ \E k \in Key : CallFindMatches(t, k)
             \/ \E w \in Worker : CallRegisterService(t, w) \/ CallDeregisterService(t, w)
             \/ Collect(t) \/ Join(t) \/ Scan(t) \/ Push(t) \/ Link(t) \/ Deregister(t)
      PROVE  UNCHANGED <<up, crashed, serving>>
  BY <1>3 DEF CallFindMatches, CallRegisterService, CallDeregisterService, Collect, Join, Scan, Push, Link, Deregister
<1>4. ASSUME NEW t \in Thread, NEW d \in DOMAIN delegators[t],
             Open(t, d) \/ Send(t, d) \/ Receive(t, d) \/ Close(t, d)
      PROVE  UNCHANGED <<up, crashed>> /\ \A w \in Worker : serving'[w] \in {serving[w], 0}
  BY <1>4 DEF Open, Send, Receive, Close, Becomes, Types
<1>5. ASSUME NEW w \in Worker, Accept(w) PROVE WorkersSound'
  BY <1>1, <1>5 DEF Accept, Types, WorkersSound
<1>6. ASSUME NEW w \in Worker, Serve(w) PROVE UNCHANGED <<up, crashed, serving>>
  BY <1>6 DEF Serve
<1>7. ASSUME NEW w \in Worker, WorkerCrash(w) PROVE WorkersSound'
  BY <1>1, <1>7 DEF WorkerCrash, Types, WorkersSound
<1>8. ASSUME NEW w \in Worker, WorkerRestart(w) PROVE WorkersSound'
  BY <1>1, <1>8 DEF WorkerRestart, WorkersSound
<1>9. CASE UNCHANGED serviceVars
  BY <1>2, <1>9 DEF serviceVars
<1>10. CASE ServiceNext
  <2>1. CASE UNCHANGED <<up, crashed, serving>>
    BY <1>2, <2>1
  <2> QED
    BY <1>2, <1>3, <1>4, <1>5, <1>6, <1>7, <1>8, <1>10, <2>1, StepCases
<1> QED
  BY <1>9, <1>10

-----------------------------------------------------------------------------
(***************************************************************************)
(* The delegators that are in a connection, and one of them alone in it:   *)
(* two that meet there are seen by shared.                                 *)
(***************************************************************************)
Active == {"open", "sent", "got"}
Uses(t, d, c) == delegators[t][d].container = c /\ delegators[t][d].state \in Active

Private(c) ==
  \A t, u \in Thread : \A d \in DOMAIN delegators[t], e \in DOMAIN delegators[u] :
    Uses(t, d, c) /\ Uses(u, e, c) => t = u /\ d = e

SharingSeen == Sharing \subseteq shared

(* A container without users is one that no delegator is in. *)
LEMMA NoUsers ==
  \A c : Users(c) = {} <=> \A t \in Thread : \A d \in DOMAIN delegators[t] : ~Uses(t, d, c)
<1> TAKE c
<1>1. ASSUME NEW t \in Thread, NEW d \in DOMAIN delegators[t], Uses(t, d, c)
      PROVE  <<t, d>> \in Users(c)
  BY <1>1 DEF Users, Uses, Active
<1>2. ASSUME NEW x \in Users(c)
      PROVE  \E t \in Thread : \E d \in DOMAIN delegators[t] : Uses(t, d, c)
  BY DEF Users, Uses, Active
<1> QED
  BY <1>1, <1>2

(* The image of a finite set is finite. *)
LEMMA FiniteImage ==
  ASSUME NEW S, IsFiniteSet(S), NEW R, NEW f \in [S -> R]
  PROVE  IsFiniteSet({f[x] : x \in S})
<1> DEFINE T == {f[x] : x \in S}
<1>1. f \in [S -> T]
  OBVIOUS
<1>2. f \in Surjection(S, T)
  BY <1>1 DEF Surjection
<1> QED
  BY <1>2, FS_Surjection

(* A set of at most one element has no two. *)
LEMMA TwoOfOne ==
  ASSUME NEW S, IsFiniteSet(S), Cardinality(S) <= 1, NEW x \in S, NEW y \in S
  PROVE  x = y
<1>1. IsFiniteSet({x, y}) /\ {x, y} \subseteq S
  BY FS_Subset
<1>2. Cardinality({x, y}) <= 1
  <2>1. Cardinality({x, y}) <= Cardinality(S) /\ Cardinality({x, y}) \in Nat /\ Cardinality(S) \in Nat
    BY <1>1, FS_Subset, FS_CardinalityType
  <2> QED
    BY <2>1
<1>3. ASSUME x # y PROVE Cardinality({x, y}) = 2
  <2>1. IsFiniteSet({x}) /\ Cardinality({x}) = 1
    BY FS_Singleton
  <2>2. Cardinality({x} \cup {y}) = Cardinality({x}) + 1
    BY <1>3, <2>1, FS_AddElement
  <2>3. {x} \cup {y} = {x, y}
    OBVIOUS
  <2> QED
    BY <2>1, <2>2, <2>3
<1> QED
  BY <1>2, <1>3

AllPrivate == \A c \in DOMAIN container : c \notin shared => Private(c)

(***************************************************************************)
(* The connection of a container that was never shared is used by one       *)
(* delegator at most: here Thread must be finite, so that Users has a       *)
(* cardinality.                                                             *)
(***************************************************************************)
LEMMA PrivateUnlessShared == Types /\ SharingSeen => AllPrivate
<1> SUFFICES ASSUME Types, SharingSeen, NEW c \in DOMAIN container, c \notin shared,
                    NEW t \in Thread, NEW u \in Thread,
                    NEW d \in DOMAIN delegators[t], NEW e \in DOMAIN delegators[u],
                    Uses(t, d, c), Uses(u, e, c)
             PROVE  t = u /\ d = e
  BY DEF Private, AllPrivate
<1>1. ~Crowded(c)
  BY DEF SharingSeen, Sharing
<1>2. <<t, d>> \in Users(c) /\ <<u, e>> \in Users(c)
  BY DEF Users, Uses, Active
<1>3. IsFiniteSet(Users(c))
  <2> DEFINE of(v) == {<<v, f>> : f \in {g \in DOMAIN delegators[v] :
                                         /\ delegators[v][g].container = c
                                         /\ delegators[v][g].state \in {"open", "sent", "got"}}}
             all == {of(v) : v \in Thread}
  <2>1. ASSUME NEW v \in Thread PROVE IsFiniteSet(of(v))
    <3>1. IsFiniteSet(DOMAIN delegators[v])
      BY FS_Interval DEF Types
    <3> DEFINE some == {g \in DOMAIN delegators[v] :
                          /\ delegators[v][g].container = c
                          /\ delegators[v][g].state \in {"open", "sent", "got"}}
    <3>2. IsFiniteSet(some)
      BY <3>1, FS_Subset
    <3> HIDE DEF some
    <3> DEFINE pairs == {<<v, f>> : f \in some}
               pair == [f \in some |-> <<v, f>>]
    <3>3. pair \in [some -> pairs]
      OBVIOUS
    <3>4. {pair[f] : f \in some} = pairs
      OBVIOUS
    <3> HIDE DEF pair, pairs
    <3>5. IsFiniteSet({pair[f] : f \in some})
      BY ZenonT(40), <3>2, <3>3, FiniteImage
    <3> QED
      BY <3>4, <3>5 DEF some, pairs
  <2> HIDE DEF of
  <2>2. IsFiniteSet(all)
    <3> DEFINE each == [v \in Thread |-> of(v)]
    <3>1. IsFiniteSet({each[v] : v \in Thread})
      <4>1. each \in [Thread -> all]
        OBVIOUS
      <4> HIDE DEF each, all
      <4> QED
        BY ZenonT(40), ServiceAssumption, <4>1, FiniteImage
    <3>2. {each[v] : v \in Thread} = all
      OBVIOUS
    <3> QED
      BY <3>1, <3>2
  <2>3. \A s \in all : IsFiniteSet(s)
    BY <2>1
  <2> HIDE DEF all
  <2>4. IsFiniteSet(UNION all)
    BY <2>2, <2>3, FS_UNION
  <2>5. Users(c) = UNION all
    BY DEF Users, all, of
  <2> QED
    BY <2>4, <2>5
<1>4. Cardinality(Users(c)) \in Nat /\ Cardinality(Users(c)) <= 1
  BY <1>1, <1>3, FS_CardinalityType DEF Crowded
<1>5. <<t, d>> = <<u, e>>
  BY <1>2, <1>3, <1>4, TwoOfOne
<1> QED
  BY <1>5

(* Whatever is shared now is in the history. *)
LEMMA SharingHolds == SharingSeen /\ [ServiceNext]_serviceVars => SharingSeen'
<1> USE DEF listVars, threadVars, workerVars
<1>1. CASE UNCHANGED serviceVars
  BY <1>1 DEF serviceVars, SharingSeen, Sharing, Crowded, Users
<1> QED
  BY <1>1 DEF ServiceNext, SharingSeen

-----------------------------------------------------------------------------
(***************************************************************************)
(* A delegator and its connection.  A connection that nobody uses is at    *)
(* rest; the delegator that is alone in one finds there nothing but its    *)
(* own request or the answer to it.                                        *)
(***************************************************************************)
Quiet(r) == r.req = <<>> /\ r.rep = <<>>

AtRest(r) == Quiet(r) /\ ~(r.open /\ r.live)

GoodConnection(r, gone) ==
  /\ ~r.open => r = Closed
  /\ ~r.live => r.req = <<>>
  /\ r.open /\ ~r.live => gone

NoUser(c) == \A t \in Thread : \A d \in DOMAIN delegators[t] : ~Uses(t, d, c)

ConnectionsSound ==
  \A c \in DOMAIN container :
    /\ GoodConnection(conn[c], container[c] \in crashed)
    /\ c \notin shared /\ NoUser(c) => AtRest(conn[c])

Alone(g, r, a, gone) ==
  /\ g.matches \in {<<>>, <<a>>}
  /\ g.state = "got" => g.matches # <<>>
  /\ g.state = "done" /\ g.matches = <<>> => gone
  /\ g.state \in Active => r.open
  /\ g.state \in {"open", "got"} => Quiet(r)
  /\ g.state = "sent" => \/ Quiet(r) /\ ~r.live
                         \/ r.req = <<a.key>> /\ r.rep = <<>>
                         \/ r.req = <<>> /\ r.rep = <<a>>

Modest(g) ==
  /\ g.state \in {"new", "open", "sent"} => g.matches = <<>>
  /\ Len(g.matches) <= 1

DelegatorSound(t, d) ==
  LET g == delegators[t][d]
      c == g.container
  IN  /\ Modest(g)
      /\ c \notin shared =>
           Alone(g, conn[c], Answer(container[c], arg[t]), container[c] \in crashed)

DelegatorsSound == \A t \in Thread : \A d \in DOMAIN delegators[t] : DelegatorSound(t, d)

Exchange == ConnectionsSound /\ DelegatorsSound

(* Only a delegator in its connection counts on what is in it. *)
LEMMA AloneElsewhere ==
  ASSUME NEW g, NEW r, NEW q, NEW a, NEW gone, Alone(g, r, a, gone), g.state \notin Active
  PROVE  Alone(g, q, a, gone)
  BY DEF Alone, Active

(* Only a call of findMatches, or one that the process died in, has delegators. *)
Unoccupied ==
  \A t \in Thread : pc[t] \notin {"collect", "join", "dead"} => delegators[t] = <<>>

(* Every step keeps Unoccupied. *)
LEMMA UnoccupiedHolds ==
  Types /\ NumbersGiven /\ Unoccupied /\ [ServiceNext]_serviceVars => Unoccupied'
<1> SUFFICES ASSUME Types, NumbersGiven, Unoccupied, [ServiceNext]_serviceVars
             PROVE  Unoccupied'
  OBVIOUS
<1> USE DEF listVars, threadVars, workerVars, masterVars
<1>1. ASSUME NEW t \in Thread,
             \/ \E k \in Key : CallFindMatches(t, k)
             \/ \E w \in Worker : CallRegisterService(t, w) \/ CallDeregisterService(t, w)
             \/ Scan(t) \/ Push(t) \/ Link(t) \/ Deregister(t)
      PROVE  Unoccupied'
  <2>1. UNCHANGED delegators
    BY <1>1 DEF CallFindMatches, CallRegisterService, CallDeregisterService, Scan, Push, Link, Deregister
  <2>2. pc[t] \in {"idle", "scan", "push", "link", "erase"}
    BY <1>1 DEF CallFindMatches, CallRegisterService, CallDeregisterService, Call, Scan, Push, Link, Deregister
  <2>3. \A u \in Thread : pc'[u] = pc[u] \/ pc'[u] = "dead" \/ u = t
    BY <1>1 DEF CallFindMatches, CallRegisterService, CallDeregisterService, Scan, Push, Link, Deregister,
                GoOn, Dangling, Crash, Types
  <2> QED
    BY <2>1, <2>2, <2>3 DEF Unoccupied
<1>2. ASSUME NEW t \in Thread, Collect(t) PROVE Unoccupied'
  <2>1. \A u \in Thread : u # t => delegators'[u] = delegators[u]
    BY <1>2 DEF Collect, Types
  <2>2. pc[t] = "collect"
    BY <1>2 DEF Collect
  <2>3. \/ \A u \in Thread : pc'[u] = "dead"
        \/ /\ \A u \in Thread : u # t => pc'[u] = pc[u]
           /\ pc'[t] \in {"collect", "join"}
    BY <1>2, <2>2 DEF Collect, GoOn, Dangling, Crash, Types
  <2> QED
    BY <2>1, <2>3 DEF Unoccupied
<1>3. ASSUME NEW t \in Thread, Join(t) PROVE Unoccupied'
  BY <1>3 DEF Join, Types, Unoccupied
<1>4. ASSUME NEW t \in Thread, NEW d \in DOMAIN delegators[t],
             Open(t, d) \/ Send(t, d) \/ Receive(t, d) \/ Close(t, d)
      PROVE  Unoccupied'
  <2>1. pc[t] = "join" /\ UNCHANGED pc
    BY <1>4 DEF Open, Send, Receive, Close, Becomes, Running
  <2>2. \A u \in Thread : u # t => delegators'[u] = delegators[u]
    BY <1>4 DEF Open, Send, Receive, Close, Becomes, Types
  <2> QED
    BY <2>1, <2>2 DEF Unoccupied
<1>5. ASSUME NEW w \in Worker, Accept(w) \/ Serve(w) \/ WorkerCrash(w) \/ WorkerRestart(w)
      PROVE  Unoccupied'
  BY <1>5 DEF Accept, Serve, WorkerCrash, WorkerRestart, Unoccupied
<1>6. CASE UNCHANGED serviceVars
  BY <1>6 DEF serviceVars, Unoccupied
<1> QED
  BY <1>1, <1>2, <1>3, <1>4, <1>5, <1>6, StepCases

Sound ==
  Types /\ NumbersGiven /\ WorkersSound /\ SharingSeen /\ Unoccupied /\ Exchange

(* What the invariants other than Exchange give for a step, in one place. *)
LEMMA SoundStep ==
  Sound /\ [ServiceNext]_serviceVars =>
    /\ Types' /\ NumbersGiven' /\ WorkersSound' /\ SharingSeen' /\ Unoccupied'
    /\ AllPrivate /\ AllPrivate'
    /\ shared \subseteq shared' /\ crashed \subseteq crashed'
    /\ DOMAIN container \subseteq DOMAIN container'
    /\ \A c \in DOMAIN container : container'[c] = container[c]
<1> SUFFICES ASSUME Sound, [ServiceNext]_serviceVars
             PROVE  /\ Types' /\ NumbersGiven' /\ WorkersSound' /\ SharingSeen' /\ Unoccupied'
                    /\ AllPrivate /\ AllPrivate'
                    /\ shared \subseteq shared' /\ crashed \subseteq crashed'
                    /\ DOMAIN container \subseteq DOMAIN container'
                    /\ \A c \in DOMAIN container : container'[c] = container[c]
  OBVIOUS
<1>1. Types /\ NumbersGiven /\ WorkersSound /\ SharingSeen /\ Unoccupied
  BY DEF Sound
<1>2. Types' /\ NumbersGiven' /\ WorkersSound' /\ SharingSeen' /\ Unoccupied'
  BY <1>1, TypesHold, NumbersHold, WorkersHold, SharingHolds, UnoccupiedHolds
<1>3. AllPrivate /\ AllPrivate'
  BY <1>1, <1>2, PrivateUnlessShared, PTL
<1> QED
  BY <1>1, <1>2, <1>3, ContainersGrow

(* What a turn of a delegator has to be for both to stay so. *)
Suits(t, d, g, r, c) ==
  /\ delegators[t][d].state \in Active \/ g.state \in Active \/ r = conn[c]
  /\ GoodConnection(r, container[c] \in crashed)
  /\ Modest(g)
  /\ c \notin shared' => Alone(g, r, Answer(container[c], arg[t]), container[c] \in crashed)
  /\ (/\ c \notin shared' /\ g.state \notin Active
      /\ delegators[t][d].state \in Active \/ NoUser(c)) => AtRest(r)

(***************************************************************************)
(* A Turn that leaves its delegator and its connection in a state that      *)
(* suits both keeps Exchange: no other delegator counts on that             *)
(* connection.                                                              *)
(***************************************************************************)
LEMMA TurnExchange ==
  ASSUME Sound, [ServiceNext]_serviceVars,
         NEW t \in Thread, NEW d \in DOMAIN delegators[t]
  PROVE  \A g \in Delegation, r \in Connection :
           Turn(t, d, g, r) /\ Suits(t, d, g, r, delegators[t][d].container) => Exchange'
<1> SUFFICES ASSUME NEW g \in Delegation, NEW r \in Connection, Turn(t, d, g, r),
                    Suits(t, d, g, r, delegators[t][d].container)
             PROVE  Exchange'
  OBVIOUS
<1> PICK c : c = delegators[t][d].container
  OBVIOUS
<1>a. /\ Types /\ NumbersGiven /\ SharingSeen /\ Exchange /\ Types' /\ SharingSeen'
      /\ shared \subseteq shared'
  BY SoundStep DEF Sound
<1>b. /\ delegators[t][d].state \in Active \/ g.state \in Active \/ r = conn[c]
      /\ GoodConnection(r, container[c] \in crashed)
      /\ Modest(g)
      /\ c \notin shared' => Alone(g, r, Answer(container[c], arg[t]), container[c] \in crashed)
      /\ (/\ c \notin shared' /\ g.state \notin Active
          /\ delegators[t][d].state \in Active \/ NoUser(c)) => AtRest(r)
  BY DEF Suits
<1> USE <1>a, <1>b
<1>1. /\ UNCHANGED <<container, arg, crashed>>
      /\ g.container = c
  BY DEF Turn, listVars, threadVars
<1>2. /\ \A u \in Thread : DOMAIN delegators'[u] = DOMAIN delegators[u]
      /\ \A u \in Thread : \A e \in DOMAIN delegators[u] :
           delegators'[u][e] = IF u = t /\ e = d THEN g ELSE delegators[u][e]
      /\ \A e \in DOMAIN container : conn'[e] = IF e = c THEN r ELSE conn[e]
      /\ c \in DOMAIN container
  BY TurnEffect, SameConnection
<1>3. \A e \in DOMAIN container : e \notin shared' => Private(e) /\ Private(e)'
  <2>1. AllPrivate /\ AllPrivate'
    BY PrivateUnlessShared, PTL
  <2> QED
    BY <1>1, <2>1 DEF AllPrivate
<1>4. ASSUME NEW e \in DOMAIN container
      PROVE  /\ GoodConnection(conn'[e], container[e] \in crashed)
             /\ e \notin shared' /\ NoUser(e)' => AtRest(conn'[e])
  <2>1. GoodConnection(conn'[e], container[e] \in crashed)
    BY <1>2 DEF Exchange, ConnectionsSound
  <2>2. ASSUME e \notin shared', NoUser(e)' PROVE AtRest(conn'[e])
    <3>1. \A u \in Thread : \A f \in DOMAIN delegators[u] : ~Uses(u, f, e) \/ (u = t /\ f = d)
      BY <1>2, <2>2 DEF NoUser, Uses
    <3>2. CASE e # c
      <4>1. ~Uses(t, d, e)
        BY <3>2 DEF Uses
      <4>2. NoUser(e)
        BY <3>1, <4>1 DEF NoUser
      <4> QED
        BY <1>2, <2>2, <3>2, <4>2 DEF Exchange, ConnectionsSound
    <3>3. CASE e = c
      <4>1. g.state \notin Active
        BY <1>1, <1>2, <2>2, <3>3 DEF NoUser, Uses
      <4>2. delegators[t][d].state \in Active \/ NoUser(c)
        BY <3>1, <3>3 DEF NoUser, Uses
      <4> QED
        BY <1>2, <2>2, <3>3, <4>1, <4>2
    <3> QED
      BY <3>2, <3>3
  <2> QED
    BY <2>1, <2>2
<1>5. ConnectionsSound'
  BY <1>1, <1>4 DEF ConnectionsSound
<1>6. ASSUME NEW u \in Thread, NEW e \in DOMAIN delegators[u]
      PROVE  DelegatorSound(u, e)'
  <2>1. CASE u = t /\ e = d
    <3>1. delegators'[u][e] = g /\ conn'[c] = r
      BY <1>2, <2>1
    <3> QED
      BY <1>1, <2>1, <3>1 DEF DelegatorSound
  <2>2. CASE ~(u = t /\ e = d)
    <3> DEFINE h == delegators[u][e]
               b == h.container
               a == Answer(container[b], arg[u])
    <3>1. delegators'[u][e] = h /\ b \in DOMAIN container
      BY <1>2, <2>2 DEF NumbersGiven, Given
    <3>2. Modest(h) /\ (b \notin shared' => Alone(h, conn[b], a, container[b] \in crashed))
      BY DEF Exchange, DelegatorsSound, DelegatorSound
    <3>3. ASSUME b \notin shared' PROVE Alone(h, conn'[b], a, container[b] \in crashed)
      <4>1. CASE b # c \/ r = conn[c]
        <5>1. conn'[b] = conn[b]
          BY <1>2, <3>1, <4>1
        <5> QED
          BY <3>2, <3>3, <5>1
      <4>2. CASE h.state \notin Active
        BY <3>2, <3>3, <4>2, AloneElsewhere
      <4>3. CASE b = c /\ r # conn[c] /\ h.state \in Active
        <5>1. Private(c) /\ Private(c)'
          BY <1>2, <1>3, <3>3, <4>3
        <5>2. Uses(u, e, c) /\ Uses(u, e, c)'
          BY <3>1, <4>3 DEF Uses
        <5>3. Uses(t, d, c) \/ Uses(t, d, c)'
          BY <1>1, <1>2, <4>3 DEF Uses
        <5>4. CASE Uses(t, d, c)
          BY <5>1, <5>2, <5>4, <2>2 DEF Private
        <5>5. CASE Uses(t, d, c)'
          BY <1>2, <5>1, <5>2, <5>5, <2>2 DEF Private
        <5> QED
          BY <5>3, <5>4, <5>5
      <4> QED
        BY <4>1, <4>2, <4>3
    <3> QED
      BY <1>1, <3>1, <3>2, <3>3 DEF DelegatorSound
  <2> QED
    BY <2>1, <2>2
<1>7. DelegatorsSound'
  BY <1>2, <1>6 DEF DelegatorsSound
<1> QED
  BY <1>5, <1>7 DEF Exchange

(* What the invariant says of one delegator and its connection. *)
LEMMA DelegatorFacts ==
  ASSUME Sound, NEW t \in Thread, NEW d \in DOMAIN delegators[t],
         NEW g, g = delegators[t][d], NEW c, c = g.container
  PROVE  /\ c \in DOMAIN container /\ conn[c] \in Connection /\ g \in Delegation
         /\ GoodConnection(conn[c], container[c] \in crashed)
         /\ c \notin shared /\ NoUser(c) => AtRest(conn[c])
         /\ Modest(g)
         /\ c \notin shared =>
              Alone(g, conn[c], Answer(container[c], arg[t]), container[c] \in crashed)
         /\ Crowded(c) => c \in shared
<1>1. c \in DOMAIN container /\ conn[c] \in Connection /\ g \in Delegation
  BY SameConnection DEF Sound
<1> QED
  BY <1>1 DEF Sound, Exchange, ConnectionsSound, DelegatorsSound, DelegatorSound, SharingSeen, Sharing

(* Opening keeps Exchange: a connection nobody is in is at rest. *)
LEMMA OpenExchange ==
  ASSUME Sound, [ServiceNext]_serviceVars,
         NEW t \in Thread, NEW d \in DOMAIN delegators[t], Open(t, d)
  PROVE  Exchange'
<1> PICK g0, c : g0 = delegators[t][d] /\ c = g0.container
  OBVIOUS
<1> DEFINE a  == Answer(container[c], arg[t])
           gone == container[c] \in crashed
<1>1. PICK g \in Delegation, r \in Connection :
        /\ Turn(t, d, g, r) /\ g.matches = g0.matches
        /\ \/ conn[c].open /\ g.state = "open" /\ r = conn[c]
           \/ ~conn[c].open /\ g.state = "open" /\ r = Fresh
           \/ ~conn[c].open /\ container[c] \notin up /\ g.state = "done" /\ r = conn[c]
  BY OpenTurn DEF Sound
<1>2. g0.state = "new" /\ g0.matches = <<>>
  BY DelegatorFacts, OpenTurn DEF Sound, Modest
<1>3. /\ c \in DOMAIN container
      /\ GoodConnection(conn[c], gone)
      /\ c \notin shared /\ NoUser(c) => AtRest(conn[c])
  BY DelegatorFacts
<1>4. AllPrivate' /\ shared \subseteq shared' /\ UNCHANGED container /\ g.container = c
  BY <1>1, SoundStep DEF Turn, listVars
<1>5. /\ \A u \in Thread : DOMAIN delegators'[u] = DOMAIN delegators[u]
      /\ \A u \in Thread : \A e \in DOMAIN delegators[u] :
           delegators'[u][e] = IF u = t /\ e = d THEN g ELSE delegators[u][e]
  BY <1>1, TurnEffect DEF Sound
<1>6. ASSUME c \notin shared', g.state = "open" PROVE NoUser(c)
  <2>1. Private(c)'
    BY <1>3, <1>4, <1>6 DEF AllPrivate
  <2>2. Uses(t, d, c)'
    BY <1>4, <1>5, <1>6 DEF Uses, Active
  <2>3. ASSUME NEW u \in Thread, NEW e \in DOMAIN delegators[u], Uses(u, e, c) PROVE FALSE
    <3>1. ~(u = t /\ e = d)
      BY <1>2, <2>3 DEF Uses, Active
    <3>2. Uses(u, e, c)'
      BY <1>5, <2>3, <3>1 DEF Uses
    <3> QED
      BY <1>5, <2>1, <2>2, <3>1, <3>2 DEF Private
  <2> QED
    BY <2>3 DEF NoUser
<1>7. container[c] \notin up => gone
  BY <1>3 DEF Sound, WorkersSound, Types
<1>8. GoodConnection(r, gone)
  BY <1>1, <1>3, ConnectionValues DEF GoodConnection
<1>9. Modest(g)
  BY <1>1, <1>2 DEF Modest
<1>10. ASSUME c \notin shared' PROVE Alone(g, r, a, gone)
  <2>1. g.state = "open" => Quiet(r) /\ r.open
    BY <1>1, <1>3, <1>4, <1>6, <1>10, ConnectionValues DEF AtRest, Quiet
  <2> QED
    BY <1>1, <1>2, <1>7, <2>1 DEF Alone, Active
<1>11. ASSUME c \notin shared', g.state \notin Active, g0.state \in Active \/ NoUser(c)
       PROVE  AtRest(r)
  BY <1>1, <1>2, <1>3, <1>4, <1>11 DEF Active
<1>12. g0.state \in Active \/ g.state \in Active \/ r = conn[c]
  BY <1>1 DEF Active
<1>13. Suits(t, d, g, r, c)
  BY <1>8, <1>9, <1>10, <1>11, <1>12 DEF Suits
<1> QED
  BY <1>1, <1>13, TurnExchange

(* Sending keeps Exchange: the request is the only one in the connection. *)
LEMMA SendExchange ==
  ASSUME Sound, [ServiceNext]_serviceVars,
         NEW t \in Thread, NEW d \in DOMAIN delegators[t], Send(t, d)
  PROVE  Exchange'
<1> PICK g0, c, r0 : g0 = delegators[t][d] /\ c = g0.container /\ r0 = conn[c]
  OBVIOUS
<1> DEFINE a  == Answer(container[c], arg[t])
           gone == container[c] \in crashed
<1>1. PICK g \in Delegation, r \in Connection :
        /\ Turn(t, d, g, r) /\ g.matches = g0.matches
        /\ \/ ~r0.open /\ g.state = "done" /\ r = r0
           \/ /\ r0.open /\ r0.live /\ g.state = "sent"
              /\ \/ r = [r0 EXCEPT !.req = Append(@, arg[t])]
                 \/ Crowded(c) /\ r = r0
           \/ /\ r0.open /\ ~r0.live
              /\ \/ g.state = "sent" /\ r = r0
                 \/ g.state = "done" /\ r = Closed
  BY SMTT(60), SendTurn DEF Sound
<1>2. g0.state = "open" /\ g0.matches = <<>>
  BY DelegatorFacts, SendTurn DEF Sound, Modest
<1>3. /\ GoodConnection(r0, gone) /\ r0 \in Connection
      /\ c \notin shared => Alone(g0, r0, a, gone)
      /\ Crowded(c) => c \in shared
  BY DelegatorFacts
<1>4. shared \subseteq shared'
  BY SoundStep
<1>5. c \notin shared' => r0.open /\ Quiet(r0) /\ ~Crowded(c)
  BY <1>2, <1>3, <1>4 DEF Alone, Active
<1>6. ASSUME r0.open, r0.live, r = [r0 EXCEPT !.req = Append(@, arg[t])]
      PROVE  r.open /\ r.live /\ r.rep = r0.rep /\ r.req = Append(r0.req, arg[t])
  BY <1>3, <1>6 DEF Connection
<1>7. GoodConnection(r, gone)
  BY <1>1, <1>3, <1>6, ConnectionValues DEF GoodConnection
<1>8. Modest(g)
  <2>1. g.matches = <<>>
    BY <1>1, <1>2
  <2>2. g.state \in {"sent", "done"}
    BY <1>1
  <2> QED
    BY <2>1, <2>2 DEF Modest
<1>9. ASSUME c \notin shared' PROVE Alone(g, r, a, gone)
  <2>1. CASE r0.live
    <3>1. r.open /\ r.req = Append(<<>>, arg[t]) /\ r.rep = <<>> /\ g.state = "sent"
      BY <1>1, <1>5, <1>6, <1>9, <2>1 DEF Quiet
    <3>2. r.req = <<a.key>>
      BY <3>1 DEF Answer
    <3> QED
      BY <1>1, <1>2, <3>1, <3>2 DEF Alone, Active
  <2>2. CASE ~r0.live
    BY <1>1, <1>2, <1>3, <1>5, <1>9, <2>2 DEF Alone, Active, GoodConnection
  <2> QED
    BY <2>1, <2>2
<1>10. ASSUME c \notin shared', g.state \notin Active PROVE AtRest(r)
  BY <1>1, <1>5, <1>10, ConnectionValues DEF Active, AtRest, Quiet
<1>11. g0.state \in Active
  BY <1>2 DEF Active
<1>12. Suits(t, d, g, r, c)
  BY <1>7, <1>8, <1>9, <1>10, <1>11 DEF Suits
<1> QED
  BY <1>1, <1>12, TurnExchange

(* Receiving keeps Exchange: the answer read is that of the request sent. *)
LEMMA ReceiveExchange ==
  ASSUME Sound, [ServiceNext]_serviceVars,
         NEW t \in Thread, NEW d \in DOMAIN delegators[t], Receive(t, d)
  PROVE  Exchange'
<1> PICK g0, c, r0 : g0 = delegators[t][d] /\ c = g0.container /\ r0 = conn[c]
  OBVIOUS
<1> DEFINE a  == Answer(container[c], arg[t])
           gone == container[c] \in crashed
<1>1. PICK g \in Delegation, r \in Connection :
        /\ Turn(t, d, g, r)
        /\ \/ /\ r0.open /\ r0.rep # <<>> /\ g.state = "got"
              /\ g.matches = <<Head(r0.rep)>> /\ r = [r0 EXCEPT !.rep = Tail(@)]
           \/ /\ ~r0.open \/ (r0.rep = <<>> /\ ~r0.live) \/ Crowded(c)
              /\ g.state = "done" /\ g.matches = g0.matches /\ r = r0
  <2>1. Types /\ NumbersGiven
    BY DEF Sound
  <2>2. LET h0 == delegators[t][d]
            q0 == conn[h0.container]
        IN  \E g \in Delegation, r \in Connection :
              /\ Turn(t, d, g, r)
              /\ \/ /\ q0.open /\ q0.rep # <<>> /\ g.state = "got"
                    /\ g.matches = <<Head(q0.rep)>> /\ r = [q0 EXCEPT !.rep = Tail(@)]
                 \/ /\ ~q0.open \/ (q0.rep = <<>> /\ ~q0.live) \/ Crowded(h0.container)
                    /\ g.state = "done" /\ g.matches = h0.matches /\ r = q0
    BY SMTT(60), <2>1, ReceiveTurn
  <2> QED
    BY <2>2
<1>2. g0.state = "sent" /\ g0.matches = <<>>
  BY DelegatorFacts, ReceiveTurn DEF Sound, Modest
<1>3. /\ GoodConnection(r0, gone) /\ r0 \in Connection
      /\ c \notin shared => Alone(g0, r0, a, gone)
      /\ Crowded(c) => c \in shared
  BY DelegatorFacts
<1>4. shared \subseteq shared'
  BY SoundStep
<1>5. ASSUME c \notin shared'
      PROVE  /\ ~Crowded(c) /\ r0.open
             /\ \/ Quiet(r0) /\ ~r0.live
                \/ r0.req = <<a.key>> /\ r0.rep = <<>>
                \/ r0.req = <<>> /\ r0.rep = <<a>>
  BY <1>2, <1>3, <1>4, <1>5 DEF Alone, Active
<1>6. ASSUME r = [r0 EXCEPT !.rep = Tail(@)]
      PROVE  r.open = r0.open /\ r.live = r0.live /\ r.req = r0.req /\ r.rep = Tail(r0.rep)
  BY <1>3, <1>6 DEF Connection
<1>7. GoodConnection(r, gone)
  BY <1>1, <1>3, <1>6, ConnectionValues DEF GoodConnection
<1>8. Modest(g)
  <2>1. g.state \in {"got", "done"}
    BY <1>1
  <2>2. CASE g.matches = g0.matches
    BY <1>2, <2>1, <2>2 DEF Modest
  <2>3. CASE g.matches = <<Head(r0.rep)>>
    <3>1. Len(g.matches) = 1
      BY <2>3
    <3> QED
      BY <2>1, <3>1 DEF Modest
  <2> QED
    BY <1>1, <2>2, <2>3
<1>9. ASSUME c \notin shared' PROVE Alone(g, r, a, gone)
  <2>1. CASE g.state = "got"
    <3>1. r0.req = <<>> /\ r0.rep = <<a>>
      BY <1>1, <1>5, <1>9, <2>1 DEF Quiet
    <3>2. Head(<<a>>) = a /\ Tail(<<a>>) = <<>> /\ <<a>> # <<>>
      OBVIOUS
    <3> HIDE DEF a
    <3>3. g.matches = <<a>> /\ r.req = <<>> /\ r.rep = <<>> /\ r.open
      BY <1>1, <1>6, <2>1, <3>1, <3>2
    <3> QED
      BY <2>1, <3>2, <3>3 DEF Alone, Active, Quiet
  <2>2. CASE g.state = "done"
    <3>1. ~r0.live
      <4>1. r0.rep = <<>> /\ ~r0.live
        BY <1>1, <1>5, <1>9, <2>2
      <4> QED
        BY <4>1
    <3>2. gone
      BY <1>3, <1>5, <1>9, <3>1 DEF GoodConnection
    <3> QED
      BY <1>1, <1>2, <2>2, <3>2 DEF Alone, Active
  <2> QED
    BY <1>1, <2>1, <2>2
<1>10. ASSUME c \notin shared', g.state \notin Active PROVE AtRest(r)
  <2>1. g.state = "done" /\ r = r0 /\ r0.rep = <<>> /\ ~r0.live
    BY <1>1, <1>5, <1>10 DEF Active
  <2> QED
    BY <1>3, <2>1 DEF AtRest, Quiet, GoodConnection
<1>11. g0.state \in Active
  BY <1>2 DEF Active
<1>12. Suits(t, d, g, r, c)
  BY <1>7, <1>8, <1>9, <1>10, <1>11 DEF Suits
<1> QED
  BY <1>1, <1>12, TurnExchange

(* Closing keeps Exchange: nothing is left in the connection. *)
LEMMA CloseExchange ==
  ASSUME Sound, [ServiceNext]_serviceVars,
         NEW t \in Thread, NEW d \in DOMAIN delegators[t], Close(t, d)
  PROVE  Exchange'
<1> PICK g0, c, r0 : g0 = delegators[t][d] /\ c = g0.container /\ r0 = conn[c]
  OBVIOUS
<1> DEFINE a  == Answer(container[c], arg[t])
           gone == container[c] \in crashed
<1>1. PICK g \in Delegation :
        Turn(t, d, g, Closed) /\ g.matches = g0.matches /\ g.state = "done"
  BY CloseTurn DEF Sound
<1>2. g0.state = "got" /\ Modest(g0)
  BY DelegatorFacts, CloseTurn DEF Sound
<1>3. c \notin shared => Alone(g0, r0, a, gone)
  BY DelegatorFacts
<1>4. shared \subseteq shared'
  BY SoundStep
<1>5. GoodConnection(Closed, gone) /\ AtRest(Closed)
  BY ConnectionValues DEF GoodConnection, AtRest, Quiet
<1>6. Modest(g)
  BY <1>1, <1>2 DEF Modest
<1>7. ASSUME c \notin shared' PROVE Alone(g, Closed, a, gone)
  BY <1>1, <1>2, <1>3, <1>4, <1>7 DEF Alone, Active
<1>8. g0.state \in Active
  BY <1>2 DEF Active
<1>9. Suits(t, d, g, Closed, c)
  BY <1>5, <1>6, <1>7, <1>8 DEF Suits
<1> QED
  BY <1>1, <1>9, ConnectionValues, TurnExchange

(***************************************************************************)
(* A step that leaves the delegators alone.                                *)
(***************************************************************************)
LEMMA AloneGone ==
  ASSUME NEW g, NEW r, NEW a, NEW gone, NEW gone2, Alone(g, r, a, gone), gone => gone2
  PROVE  Alone(g, r, a, gone2)
  BY DEF Alone

Keeps(c) ==
  /\ GoodConnection(conn[c], container[c] \in crashed)
       => GoodConnection(conn'[c], container[c] \in crashed')
  /\ AtRest(conn[c]) => AtRest(conn'[c])
  /\ \A g \in Delegation, k \in Arg :
       Alone(g, conn[c], Answer(container[c], k), container[c] \in crashed)
         => Alone(g, conn'[c], Answer(container[c], k), container[c] \in crashed')

(* Connections that do not change are kept. *)
LEMMA SameKept ==
  ASSUME NEW c, UNCHANGED conn, crashed \subseteq crashed'
  PROVE  Keeps(c)
<1>1. GoodConnection(conn[c], container[c] \in crashed)
       => GoodConnection(conn[c], container[c] \in crashed')
  BY DEF GoodConnection
<1>2. container[c] \in crashed => container[c] \in crashed'
  OBVIOUS
<1>3. \A g \in Delegation, k \in Arg :
        Alone(g, conn[c], Answer(container[c], k), container[c] \in crashed)
          => Alone(g, conn[c], Answer(container[c], k), container[c] \in crashed')
  BY <1>2 DEF Alone
<1> QED
  BY <1>1, <1>3 DEF Keeps

(***************************************************************************)
(* Steps that change no delegator keep Exchange if they keep each           *)
(* connection and begin new ones closed.                                    *)
(***************************************************************************)
LEMMA OthersExchange ==
  ASSUME Sound, [ServiceNext]_serviceVars, UNCHANGED delegators,
         \A t \in Thread : delegators[t] # <<>> => arg'[t] = arg[t],
         \A c \in DOMAIN container : Keeps(c),
         \A c \in DOMAIN container' : c \in DOMAIN container \/ conn'[c] = Closed
  PROVE  Exchange'
<1>1. /\ shared \subseteq shared' /\ Types
      /\ \A c \in DOMAIN container : container'[c] = container[c]
  BY SoundStep DEF Sound
<1>2. ASSUME NEW c \in DOMAIN container'
      PROVE  /\ GoodConnection(conn'[c], container'[c] \in crashed')
             /\ c \notin shared' /\ NoUser(c)' => AtRest(conn'[c])
  <2>1. CASE c \in DOMAIN container
    <3>1. NoUser(c)' => NoUser(c)
      BY DEF NoUser, Uses
    <3> QED
      BY <1>1, <2>1, <3>1 DEF Sound, Exchange, ConnectionsSound, Keeps
  <2>2. CASE conn'[c] = Closed
    BY <2>2, ConnectionValues DEF GoodConnection, AtRest, Quiet
  <2> QED
    BY <2>1, <2>2
<1>3. ASSUME NEW t \in Thread, NEW d \in DOMAIN delegators[t]
      PROVE  DelegatorSound(t, d)'
  <2> PICK g, c : g = delegators[t][d] /\ c = g.container
    OBVIOUS
  <2>1. /\ c \in DOMAIN container /\ g \in Delegation /\ Modest(g)
        /\ c \notin shared =>
             Alone(g, conn[c], Answer(container[c], arg[t]), container[c] \in crashed)
    BY DelegatorFacts
  <2>2. arg'[t] = arg[t] /\ arg[t] \in Arg
    BY <1>1 DEF Types
  <2>3. c \notin shared' =>
          Alone(g, conn'[c], Answer(container[c], arg[t]), container[c] \in crashed')
    BY <1>1, <2>1, <2>2 DEF Keeps
  <2>4. delegators'[t][d] = g /\ container'[c] = container[c]
    BY <1>1, <2>1
  <2> QED
    BY <2>1, <2>2, <2>3, <2>4 DEF DelegatorSound
<1>4. ConnectionsSound'
  BY <1>2 DEF ConnectionsSound
<1>5. DelegatorsSound'
  BY <1>3 DEF DelegatorsSound
<1> QED
  BY <1>4, <1>5 DEF Exchange

(* A worker that answers a request keeps Exchange. *)
LEMMA ServeExchange ==
  ASSUME Sound, [ServiceNext]_serviceVars, NEW w \in Worker, Serve(w)
  PROVE  Exchange'
<1> USE DEF masterVars, listVars, threadVars, workerVars
<1> PICK b, r : b = serving[w] /\ r = conn[b]
  OBVIOUS
<1>1. /\ b \in DOMAIN container /\ r.req # <<>> /\ r \in Connection
      /\ conn'[b] = Served(w, r)
      /\ \A e \in DOMAIN container : e # b => conn'[e] = conn[e]
  BY ServeEffect DEF Sound, Types
<1>2. UNCHANGED <<delegators, arg, container, crashed>>
  BY DEF Serve
<1>3. container[b] = w
  BY DEF Sound, WorkersSound, Serve
<1>4. LET q == Served(w, r)
      IN  /\ q.open = r.open /\ q.live = r.live /\ q.req = Tail(r.req)
          /\ q.rep = Append(r.rep, Answer(w, Head(r.req)))
  BY <1>1 DEF Served, Connection
<1>5. Keeps(b)
  <2>1. GoodConnection(r, container[b] \in crashed)
          => GoodConnection(Served(w, r), container[b] \in crashed')
    BY <1>1, <1>4, ConnectionValues DEF GoodConnection
  <2>2. ASSUME NEW g \in Delegation, NEW k \in Arg, NEW gone,
               Alone(g, r, Answer(container[b], k), gone)
        PROVE  Alone(g, Served(w, r), Answer(container[b], k), gone)
    <3> DEFINE a == Answer(w, k)
    <3>1. CASE g.state = "sent"
      <4>1. r.req = <<k>> /\ r.rep = <<>>
        BY <1>1, <1>3, <2>2, <3>1 DEF Alone, Quiet, Answer
      <4>2. Tail(<<k>>) = <<>> /\ Head(<<k>>) = k /\ Append(<<>>, a) = <<a>>
        OBVIOUS
      <4>3. Served(w, r).req = <<>> /\ Served(w, r).rep = <<a>> /\ Served(w, r).open = r.open
        BY <1>4, <4>1, <4>2
      <4> HIDE DEF a
      <4>4. Alone(g, r, a, gone)
        BY <1>3, <2>2 DEF a
      <4>5. Alone(g, Served(w, r), a, gone)
        BY <3>1, <4>3, <4>4 DEF Alone
      <4> QED
        BY <1>3, <4>5 DEF a
    <3>2. CASE g.state \in {"open", "got"}
      BY <1>1, <2>2, <3>2 DEF Alone, Quiet
    <3>3. CASE g.state \notin Active
      BY <2>2, <3>3, AloneElsewhere
    <3> QED
      BY <3>1, <3>2, <3>3 DEF Active
  <2> QED
    BY <1>1, <1>2, <2>1, <2>2 DEF Keeps, AtRest, Quiet
<1>6. ASSUME NEW c \in DOMAIN container, c # b PROVE Keeps(c)
  BY <1>1, <1>2, <1>6 DEF Keeps
<1> QED
  BY <1>2, <1>5, <1>6, OthersExchange

(* A worker that crashes keeps Exchange: its delegators may end empty. *)
LEMMA CrashExchange ==
  ASSUME Sound, [ServiceNext]_serviceVars, NEW w \in Worker, WorkerCrash(w)
  PROVE  Exchange'
<1> USE DEF masterVars, listVars, threadVars
<1>1. PICK arrives \in BOOLEAN : \A c \in DOMAIN container :
        conn'[c] = IF container[c] = w /\ conn[c].open THEN Cut(conn[c], arrives) ELSE conn[c]
  BY CrashEffect DEF Sound
<1>2. UNCHANGED <<delegators, arg, container>> /\ crashed' = crashed \cup {w}
  BY DEF WorkerCrash
<1>3. ASSUME NEW c \in DOMAIN container PROVE Keeps(c)
  <2> PICK r : r = conn[c]
    OBVIOUS
  <2>1. CASE container[c] = w /\ r.open
    <3> DEFINE q == Cut(r, arrives)
    <3>1. r \in Connection
      BY DEF Sound, Types
    <3>2. /\ q.open = r.open /\ q.live = FALSE /\ q.req = <<>>
          /\ q.rep = r.rep \/ q.rep = <<>>
      BY <3>1 DEF Cut, Connection
    <3>3. conn'[c] = q /\ w \in crashed'
      BY <1>1, <1>2, <2>1
    <3> HIDE DEF q
    <3>4. GoodConnection(q, container[c] \in crashed')
      BY <2>1, <3>2, <3>3 DEF GoodConnection
    <3>5. AtRest(r) => AtRest(q)
      BY <3>2 DEF AtRest, Quiet
    <3>6. ASSUME NEW g \in Delegation, NEW k \in Arg,
                 Alone(g, r, Answer(container[c], k), container[c] \in crashed)
          PROVE  Alone(g, q, Answer(container[c], k), container[c] \in crashed')
      <4> DEFINE a == Answer(container[c], k)
      <4> HIDE DEF a
      <4>1. Alone(g, r, a, container[c] \in crashed)
        BY <3>6 DEF a
      <4>2. g.state = "sent" => \/ Quiet(q) /\ ~q.live
                                \/ q.req = <<>> /\ q.rep = <<a>>
        BY <3>2, <4>1 DEF Alone, Quiet
      <4>3. g.state \in {"open", "got"} => Quiet(q)
        BY <3>2, <4>1 DEF Alone, Quiet
      <4>4. container[c] \in crashed'
        BY <2>1, <3>3
      <4>5. Alone(g, q, a, container[c] \in crashed')
        BY <3>2, <4>1, <4>2, <4>3, <4>4 DEF Alone
      <4> QED
        BY <4>5 DEF a
    <3> QED
      BY <3>3, <3>4, <3>5, <3>6 DEF Keeps
  <2>2. CASE ~(container[c] = w /\ r.open)
    <3>1. conn'[c] = r
      BY <1>1, <2>2
    <3>2. GoodConnection(r, container[c] \in crashed) => GoodConnection(r, container[c] \in crashed')
      BY <1>2 DEF GoodConnection
    <3> QED
      BY <1>2, <3>1, <3>2, AloneGone DEF Keeps
  <2> QED
    BY <2>1, <2>2
<1> QED
  BY <1>2, <1>3, OthersExchange

(* A new container is closed, and no delegator is in it. *)
LEMMA LinkExchange ==
  ASSUME Sound, [ServiceNext]_serviceVars, NEW t \in Thread, Link(t)
  PROVE  Exchange'
<1>1. /\ container \in Seq(Worker) /\ conn \in Seq(Connection) /\ Len(conn) = Len(container)
      /\ arg[t] \in Worker
  BY DEF Sound, Types, Link, Writes
<1>2. /\ container' = Append(container, arg[t]) /\ conn' = Append(conn, Closed)
      /\ UNCHANGED <<delegators, arg, crashed>>
  BY DEF Link, workerVars
<1>3. /\ \A c \in DOMAIN container : conn'[c] = conn[c]
      /\ \A c \in DOMAIN container' : c \in DOMAIN container \/ conn'[c] = Closed
  BY <1>1, <1>2, ConnectionValues
<1>4. \A c \in DOMAIN container : Keeps(c)
  BY <1>2, <1>3 DEF Keeps
<1> QED
  BY <1>2, <1>3, <1>4, OthersExchange

(***************************************************************************)
(* A new delegator has not begun: it has no matches and is in no            *)
(* connection.                                                              *)
(***************************************************************************)
LEMMA CollectExchange ==
  ASSUME Sound, [ServiceNext]_serviceVars, NEW t \in Thread, Collect(t)
  PROVE  Exchange'
<1> USE DEF listVars, workerVars
<1>0. /\ UNCHANGED <<container, conn, arg, crashed>> /\ shared \subseteq shared'
      /\ delegators \in [Thread -> Seq(Delegation)]
  BY SoundStep DEF Collect, Sound, Types
<1>1. CASE UNCHANGED delegators
  <2>1. \A c \in DOMAIN container : Keeps(c)
    BY <1>0, SameKept
  <2> QED
    BY <1>0, <1>1, <2>1, OthersExchange
<1>2. CASE delegators' = [delegators EXCEPT ![t] = Append(@, Delegator(it[t]))]
  <2> PICK g : g = Delegator(it[t])
    OBVIOUS
  <2>1. g.state = "new" /\ g.matches = <<>>
    BY DEF Delegator
  <2>2. delegators' = [delegators EXCEPT ![t] = Append(delegators[t], g)]
    BY <1>2
  <2>3. \A u \in Thread : \A d \in DOMAIN delegators'[u] :
          \/ d \in DOMAIN delegators[u] /\ delegators'[u][d] = delegators[u][d]
          \/ delegators'[u][d] = g
    BY <1>0, <2>2
  <2>4. \A u \in Thread : \A d \in DOMAIN delegators[u] :
          d \in DOMAIN delegators'[u] /\ delegators'[u][d] = delegators[u][d]
    BY <1>0, <2>2
  <2>5. \A c \in DOMAIN container : NoUser(c)' => NoUser(c)
    BY <2>4 DEF NoUser, Uses
  <2>6. ConnectionsSound'
    BY <1>0, <2>5 DEF Sound, Exchange, ConnectionsSound
  <2>7. Modest(g) /\ \A r, a, gone : Alone(g, r, a, gone)
    <3>1. Len(<<>>) = 0
      OBVIOUS
    <3> QED
      BY <2>1, <3>1 DEF Modest, Alone, Active
  <2>8. ASSUME NEW u \in Thread, NEW d \in DOMAIN delegators'[u]
        PROVE  DelegatorSound(u, d)'
    <3>1. CASE delegators'[u][d] = g
      BY <2>7, <3>1 DEF DelegatorSound
    <3>2. CASE d \in DOMAIN delegators[u] /\ delegators'[u][d] = delegators[u][d]
      BY <1>0, <3>2 DEF DelegatorSound, Sound, Exchange, DelegatorsSound
    <3> QED
      BY <2>3, <3>1, <3>2
  <2>9. DelegatorsSound'
    BY <2>8 DEF DelegatorsSound
  <2> QED
    BY <2>6, <2>9 DEF Exchange
<1> QED
  BY <1>1, <1>2 DEF Collect

(* findMatches deletes its delegators when all of them are done. *)
LEMMA JoinExchange ==
  ASSUME Sound, [ServiceNext]_serviceVars, NEW t \in Thread, Join(t)
  PROVE  Exchange'
<1>0. /\ UNCHANGED <<container, conn, arg, crashed>> /\ shared \subseteq shared'
      /\ delegators \in [Thread -> Seq(Delegation)]
      /\ \A d \in DOMAIN delegators[t] : delegators[t][d].state = "done"
      /\ delegators' = [delegators EXCEPT ![t] = <<>>]
  BY SoundStep DEF Join, Sound, Types, AllDone, listVars, workerVars
<1>1. \A u \in Thread : u # t => delegators'[u] = delegators[u]
  BY <1>0
<1>2. DOMAIN delegators'[t] = {}
  BY <1>0
<1>3. \A c \in DOMAIN container : NoUser(c)' => NoUser(c)
  BY <1>0, <1>1 DEF NoUser, Uses, Active
<1>4. ConnectionsSound'
  BY <1>0, <1>3 DEF Sound, Exchange, ConnectionsSound
<1>5. DelegatorsSound'
  BY <1>0, <1>1, <1>2 DEF Sound, Exchange, DelegatorsSound, DelegatorSound
<1> QED
  BY <1>4, <1>5 DEF Exchange

(* Every step keeps Exchange. *)
LEMMA ExchangeHolds == Sound /\ [ServiceNext]_serviceVars => Exchange'
<1> SUFFICES ASSUME Sound, [ServiceNext]_serviceVars PROVE Exchange'
  OBVIOUS
<1> USE DEF listVars, threadVars, workerVars, masterVars
<1>1. ASSUME UNCHANGED <<conn, container, delegators>>, crashed \subseteq crashed',
             \A t \in Thread : delegators[t] # <<>> => arg'[t] = arg[t]
      PROVE  Exchange'
  <2>1. \A c \in DOMAIN container : Keeps(c)
    BY <1>1, SameKept
  <2> QED
    BY <1>1, <2>1, OthersExchange
<1>2. ASSUME NEW t \in Thread,
             \/ \E k \in Key : CallFindMatches(t, k)
             \/ \E w \in Worker : CallRegisterService(t, w) \/ CallDeregisterService(t, w)
      PROVE  Exchange'
  <2>1. delegators[t] = <<>>
    BY <1>2 DEF Sound, Unoccupied, CallFindMatches, CallRegisterService, CallDeregisterService, Call
  <2>2. UNCHANGED <<conn, container, delegators, crashed>>
    BY <1>2 DEF CallFindMatches, CallRegisterService, CallDeregisterService
  <2>3. \A u \in Thread : u # t => arg'[u] = arg[u]
    BY <1>2 DEF CallFindMatches, CallRegisterService, CallDeregisterService, Call, Sound, Types
  <2> QED
    BY <1>1, <2>1, <2>2, <2>3
<1>3. ASSUME NEW t \in Thread, Scan(t) \/ Push(t) \/ Deregister(t) PROVE Exchange'
  BY <1>1, <1>3 DEF Scan, Push, Deregister
<1>4. ASSUME NEW w \in Worker, Accept(w) \/ WorkerRestart(w) PROVE Exchange'
  BY <1>1, <1>4 DEF Accept, WorkerRestart
<1>5. CASE UNCHANGED serviceVars
  BY <1>1, <1>5 DEF serviceVars
<1> QED
  BY <1>2, <1>3, <1>4, <1>5, StepCases, CollectExchange, JoinExchange, LinkExchange, OpenExchange,
     SendExchange, ReceiveExchange, CloseExchange, ServeExchange, CrashExchange

-----------------------------------------------------------------------------
(***************************************************************************)
(* A reply: of says whose answer each of its rows is.                      *)
(***************************************************************************)
ReplyOf(of, p) ==
  /\ of \in [DOMAIN p.rows -> DOMAIN p.from]
  /\ \A r \in DOMAIN of :
       p.from[of[r]] \in shared \/ p.rows[r] = Answer(container[p.from[of[r]]], p.asked)
  /\ \A q, r \in DOMAIN of : q < r => of[q] < of[r]
  /\ \A n \in DOMAIN p.from : Trusted(p.from[n]) => \E r \in DOMAIN of : of[r] = n

RepliesSound == \A t \in Thread : \E of : ReplyOf(of, reply[t])

(* What is said of a reply stays true: the histories only grow. *)
LEMMA ReplyKept ==
  ASSUME Sound, [ServiceNext]_serviceVars, NEW p, NEW of,
         \A n \in DOMAIN p.from : Given(p.from[n]), ReplyOf(of, p)
  PROVE  ReplyOf(of, p)'
<1>1. /\ shared \subseteq shared' /\ crashed \subseteq crashed'
      /\ \A n \in DOMAIN p.from : container'[p.from[n]] = container[p.from[n]]
  BY SoundStep DEF Given
<1>2. \A n \in DOMAIN p.from : Trusted(p.from[n])' => Trusted(p.from[n])
  BY <1>1 DEF Trusted
<1>3. \A r \in DOMAIN of : of[r] \in DOMAIN p.from
  BY DEF ReplyOf
<1> QED
  BY <1>1, <1>2, <1>3 DEF ReplyOf

(* It is true of a reply without rows that nobody was asked for. *)
LEMMA EmptyReply ==
  ASSUME NEW p, p.rows = <<>>, p.from = <<>>
  PROVE  \E of : ReplyOf(of, p)
<1> DEFINE of == [r \in {} |-> 0]
<1>1. DOMAIN p.rows = {} /\ DOMAIN p.from = {}
  OBVIOUS
<1>2. of \in [{} -> {}] /\ DOMAIN of = {}
  OBVIOUS
<1> HIDE DEF of
<1>3. ReplyOf(of, p)
  BY <1>1, <1>2 DEF ReplyOf
<1> QED
  BY <1>3

(***************************************************************************)
(* It is true of what findMatches puts together: each delegator that is     *)
(* done has one answer, of its own worker to its own key, or none.          *)
(***************************************************************************)
LEMMA JoinedReply ==
  ASSUME Sound, NEW t \in Thread, AllDone(t),
         NEW p, p = [asked |-> arg[t],
                     from  |-> [d \in DOMAIN delegators[t] |-> delegators[t][d].container],
                     rows  |-> FlattenSeq([d \in DOMAIN delegators[t] |-> delegators[t][d].matches])]
  PROVE  \E of : ReplyOf(of, p)
<1> DEFINE ds == delegators[t]
           ms == [d \in DOMAIN ds |-> ds[d].matches]
           cs == [d \in DOMAIN ds |-> ds[d].container]
           a(d) == Answer(container[cs[d]], arg[t])
<1>1. /\ ms \in Seq(Seq(Row)) /\ FlattenSeq(ms) \in Seq(Row)
      /\ Len(ms) = Len(ds) /\ Len(cs) = Len(ds)
      /\ DOMAIN ms = 1..Len(ms) /\ DOMAIN cs = 1..Len(ms) /\ DOMAIN ds = 1..Len(ms)
  <2>1. Types
    BY DEF Sound
  <2>2. DOMAIN ds = 1..Len(ds)
    BY <2>1 DEF Types
  <2> QED
    BY <2>1, <2>2, ReplyTypes
<1>2. ASSUME NEW d \in 1..Len(ms)
      PROVE  /\ Len(ms[d]) <= 1
             /\ cs[d] \in shared \/ ms[d] = <<a(d)>> \/ (ms[d] = <<>> /\ container[cs[d]] \in crashed)
  <2>1. ds[d].state = "done" /\ ms[d] = ds[d].matches /\ cs[d] = ds[d].container /\ d \in DOMAIN delegators[t]
    BY <1>1 DEF AllDone
  <2>2. /\ Modest(ds[d])
        /\ cs[d] \notin shared =>
             Alone(ds[d], conn[cs[d]], a(d), container[cs[d]] \in crashed)
    BY <2>1, DelegatorFacts
  <2> HIDE DEF ds, ms, cs, a
  <2> QED
    BY <2>1, <2>2 DEF Modest, Alone
<1>3. PICK of : IsOrigin(of, ms, FlattenSeq(ms))
  <2> HIDE DEF ms
  <2> QED
    BY <1>1, <1>2, FlattenOrigin
<1>4. p.asked = arg[t] /\ p.from = cs /\ p.rows = FlattenSeq(ms)
  OBVIOUS
<1> DEFINE F == FlattenSeq(ms)
<1> HIDE DEF F, ms, cs, ds
<1>5. /\ DOMAIN p.rows = 1..Len(F) /\ DOMAIN p.from = 1..Len(ms)
      /\ of \in [1..Len(F) -> 1..Len(ms)] /\ DOMAIN of = 1..Len(F)
  BY <1>1, <1>3, <1>4 DEF IsOrigin, F
<1>6. ASSUME NEW r \in 1..Len(F)
      PROVE  p.from[of[r]] \in shared \/ p.rows[r] = Answer(container[p.from[of[r]]], p.asked)
  <2>1. of[r] \in 1..Len(ms) /\ ms[of[r]] = <<F[r]>>
    BY <1>3, <1>5 DEF IsOrigin, F
  <2>2. cs[of[r]] \in shared \/ ms[of[r]] = <<a(of[r])>> \/ ms[of[r]] = <<>>
    BY <1>2, <2>1
  <2>3. cs[of[r]] \in shared \/ F[r] = a(of[r])
    <3> HIDE DEF a
    <3> QED
      BY <2>1, <2>2
  <2> QED
    BY <1>4, <2>3 DEF F
<1>7. \A q, r \in 1..Len(F) : q < r => of[q] < of[r]
  BY <1>3 DEF IsOrigin, F
<1>8. ASSUME NEW n \in 1..Len(ms), Trusted(p.from[n])
      PROVE  \E r \in 1..Len(F) : of[r] = n
  <2>1. cs[n] \notin shared /\ container[cs[n]] \notin crashed
    BY <1>4, <1>8 DEF Trusted
  <2>2. ms[n] = <<a(n)>>
    BY <1>2, <2>1
  <2>3. ms[n] # <<>>
    BY <2>2
  <2> QED
    BY <1>3, <2>3 DEF IsOrigin, F
<1>9. ReplyOf(of, p)
  BY <1>5, <1>6, <1>7, <1>8 DEF ReplyOf
<1> QED
  BY <1>9

(* Every step keeps RepliesSound. *)
LEMMA RepliesHold == Sound /\ RepliesSound /\ [ServiceNext]_serviceVars => RepliesSound'
<1> SUFFICES ASSUME Sound, RepliesSound, [ServiceNext]_serviceVars PROVE RepliesSound'
  OBVIOUS
<1> USE DEF listVars, threadVars, workerVars, masterVars
<1>1. ASSUME NEW u \in Thread, reply'[u] = reply[u] PROVE \E of : ReplyOf(of, reply[u])'
  <2>1. PICK p : p = reply[u]
    OBVIOUS
  <2>2. PICK of : ReplyOf(of, p)
    BY <2>1 DEF RepliesSound
  <2>3. \A n \in DOMAIN p.from : Given(p.from[n])
    BY <2>1 DEF Sound, NumbersGiven
  <2>4. ReplyOf(of, p)'
    BY <2>2, <2>3, ReplyKept
  <2>5. reply'[u] = p
    BY <1>1, <2>1
  <2> QED
    BY <2>4, <2>5
<1>2. CASE UNCHANGED reply
  BY <1>1, <1>2 DEF RepliesSound
<1>3. ASSUME NEW t \in Thread, NEW k \in Key, CallFindMatches(t, k) PROVE RepliesSound'
  <2> DEFINE none == [asked |-> k, from |-> <<>>, rows |-> <<>>]
  <2>1. CASE reply' = [reply EXCEPT ![t] = none]
    <3>1. none.rows = <<>> /\ none.from = <<>>
      OBVIOUS
    <3> HIDE DEF none
    <3>2. reply'[t] = none /\ \A u \in Thread : u # t => reply'[u] = reply[u]
      BY <2>1 DEF Sound, Types
    <3>3. \E of : ReplyOf(of, none)'
      <4> DEFINE of == [r \in {} |-> 0]
      <4>1. DOMAIN none.rows = {} /\ DOMAIN none.from = {}
        BY <3>1
      <4>2. of \in [{} -> {}] /\ DOMAIN of = {}
        OBVIOUS
      <4> HIDE DEF of
      <4>3. ReplyOf(of, none)'
        BY <4>1, <4>2 DEF ReplyOf
      <4> QED
        BY <4>3
    <3> QED
      BY <1>1, <3>2, <3>3 DEF RepliesSound
  <2> QED
    BY <1>2, <1>3, <2>1 DEF CallFindMatches
<1>4. ASSUME NEW t \in Thread, Join(t) PROVE RepliesSound'
  <2>1. PICK p : p = [asked |-> arg[t],
                      from  |-> [d \in DOMAIN delegators[t] |-> delegators[t][d].container],
                      rows  |-> FlattenSeq([d \in DOMAIN delegators[t] |-> delegators[t][d].matches])]
    OBVIOUS
  <2>2. /\ AllDone(t) /\ reply'[t] = p
        /\ \A u \in Thread : u # t => reply'[u] = reply[u]
    BY <1>4, <2>1 DEF Join, Sound, Types
  <2>3. PICK of : ReplyOf(of, p)
    BY <2>1, <2>2, JoinedReply
  <2>4. \A n \in DOMAIN p.from : Given(p.from[n])
    <3>1. \A d \in DOMAIN delegators[t] : Given(delegators[t][d].container)
      BY DEF Sound, NumbersGiven
    <3> QED
      BY <2>1, <3>1
  <2>5. ReplyOf(of, p)'
    BY <2>3, <2>4, ReplyKept
  <2> QED
    BY <1>1, <2>2, <2>5 DEF RepliesSound
<1>5. ASSUME NEW t \in Thread,
             \/ \E w \in Worker : CallRegisterService(t, w) \/ CallDeregisterService(t, w)
             \/ Collect(t) \/ Scan(t) \/ Push(t) \/ Link(t) \/ Deregister(t)
      PROVE  UNCHANGED reply
  BY <1>5 DEF CallRegisterService, CallDeregisterService, Collect, Scan, Push, Link, Deregister
<1>6. ASSUME NEW t \in Thread, NEW d \in DOMAIN delegators[t],
             Open(t, d) \/ Send(t, d) \/ Receive(t, d) \/ Close(t, d)
      PROVE  UNCHANGED reply
  BY <1>6 DEF Open, Send, Receive, Close, Becomes
<1>7. ASSUME NEW w \in Worker, Accept(w) \/ Serve(w) \/ WorkerCrash(w) \/ WorkerRestart(w)
      PROVE  UNCHANGED reply
  BY <1>7 DEF Accept, Serve, WorkerCrash, WorkerRestart
<1>8. UNCHANGED serviceVars => UNCHANGED reply
  BY DEF serviceVars
<1> QED
  BY <1>2, <1>3, <1>4, <1>5, <1>6, <1>7, <1>8, StepCases

-----------------------------------------------------------------------------
ServiceInv == Sound /\ RepliesSound

(* The invariant holds at the start. *)
LEMMA ServiceInvInit == ServiceInit => ServiceInv
<1> SUFFICES ASSUME ServiceInit PROVE ServiceInv
  OBVIOUS
<1> USE DEF ServiceInit
<1>1. /\ DOMAIN container = {} /\ DOMAIN conn = {} /\ DOMAIN host_list = {}
      /\ \A t \in Thread : delegators[t] = <<>> /\ DOMAIN delegators[t] = {}
  OBVIOUS
<1>2. <<>> \in Seq(Nat) /\ <<>> \in Seq(Worker) /\ <<>> \in Seq(Connection)
      /\ <<>> \in Seq(Row) /\ <<>> \in Seq(Delegation)
  OBVIOUS
<1>3. NoReply \in Reply /\ NoReply.rows = <<>> /\ NoReply.from = <<>>
  BY <1>2 DEF NoReply, Reply, Arg
<1>4. Types
  BY <1>2, <1>3 DEF Types, Arg, Stage, Writes
<1>5. NumbersGiven
  <2>1. DOMAIN NoReply.from = {}
    BY <1>3
  <2> QED
    BY <1>1, <2>1 DEF NumbersGiven
<1>6. WorkersSound /\ SharingSeen /\ Unoccupied
  BY <1>1 DEF WorkersSound, SharingSeen, Sharing, Unoccupied
<1>7. Exchange
  BY <1>1 DEF Exchange, ConnectionsSound, DelegatorsSound
<1>8. RepliesSound
  BY <1>3, EmptyReply DEF RepliesSound
<1> QED
  BY <1>4, <1>5, <1>6, <1>7, <1>8 DEF ServiceInv, Sound

(* The invariant holds always. *)
LEMMA ServiceInvHolds == ServiceSpec => []ServiceInv
<1>1. ServiceInv /\ [ServiceNext]_serviceVars => ServiceInv'
  <2> SUFFICES ASSUME ServiceInv, [ServiceNext]_serviceVars PROVE ServiceInv'
    OBVIOUS
  <2>1. Sound /\ RepliesSound
    BY DEF ServiceInv
  <2>2. Types' /\ NumbersGiven' /\ WorkersSound' /\ SharingSeen' /\ Unoccupied'
    BY <2>1, SoundStep
  <2>3. Exchange' /\ RepliesSound'
    BY <2>1, ExchangeHolds, RepliesHold
  <2> QED
    BY <2>2, <2>3 DEF ServiceInv, Sound
<1> QED
  BY <1>1, ServiceInvInit, PTL DEF ServiceSpec

(* The invariant says of a connection without users that it is at rest. *)
LEMMA NothingLeft == ServiceInv => NothingLeftOver
  BY NoUsers DEF ServiceInv, Sound, Exchange, ConnectionsSound, NothingLeftOver, NoUser, AtRest, Quiet

(***************************************************************************)
(* Whatever the workers do, a delegator leaves its connection empty and     *)
(* closed, or cut: the next findMatches that opens it cannot read an        *)
(* answer of this one, and the worker is free to accept another.            *)
(***************************************************************************)
THEOREM NothingIsLeftOver == ServiceSpec => []NothingLeftOver
  BY ServiceInvHolds, NothingLeft, PTL

(* Every row comes from a delegator that was asked the same key. *)
LEMMA AnswersKey == ServiceInv => RowsAnswerTheKey
<1> SUFFICES ASSUME ServiceInv, NEW t \in Thread, NEW r \in DOMAIN reply[t].rows
             PROVE  \/ reply[t].rows[r].key = reply[t].asked
                    \/ \E n \in DOMAIN reply[t].from : reply[t].from[n] \in shared
  BY DEF RowsAnswerTheKey
<1>1. PICK of : ReplyOf(of, reply[t])
  BY DEF ServiceInv, RepliesSound
<1>2. of[r] \in DOMAIN reply[t].from /\ r \in DOMAIN of
  BY <1>1 DEF ReplyOf
<1>3. CASE reply[t].from[of[r]] \in shared
  BY <1>2, <1>3
<1>4. CASE reply[t].rows[r] = Answer(container[reply[t].from[of[r]]], reply[t].asked)
  BY <1>4 DEF Answer
<1> QED
  BY <1>1, <1>2, <1>3, <1>4 DEF ReplyOf

(***************************************************************************)
(* findMatches returns answers to the key it was called with, for any       *)
(* number of threads, workers and calls and in spite of crashes, unless     *)
(* another delegator was in one of its connections.                         *)
(***************************************************************************)
THEOREM RowsAnswer == ServiceSpec => []RowsAnswerTheKey
  BY ServiceInvHolds, AnswersKey, PTL

(* The origins of the rows are what NobodyMissing asks for. *)
LEMMA NobodyIs == ServiceInv => NobodyMissing
<1> SUFFICES ASSUME ServiceInv, NEW t \in Thread
             PROVE  \E of \in [DOMAIN reply[t].rows -> DOMAIN reply[t].from] :
      /\ \A r \in DOMAIN of :
           \/ reply[t].from[of[r]] \in shared
           \/ reply[t].rows[r].worker = container[reply[t].from[of[r]]]
      /\ \A q, r \in DOMAIN of : q < r => of[q] < of[r]
      /\ \A n \in DOMAIN reply[t].from :
           Trusted(reply[t].from[n]) => \E r \in DOMAIN of : of[r] = n
  BY DEF NobodyMissing
<1>1. PICK of : ReplyOf(of, reply[t])
  BY DEF ServiceInv, RepliesSound
<1>2. \A r \in DOMAIN of :
        \/ reply[t].from[of[r]] \in shared
        \/ reply[t].rows[r].worker = container[reply[t].from[of[r]]]
  <2> SUFFICES ASSUME NEW r \in DOMAIN of, reply[t].from[of[r]] \notin shared
               PROVE  reply[t].rows[r].worker = container[reply[t].from[of[r]]]
    OBVIOUS
  <2>1. reply[t].rows[r] = Answer(container[reply[t].from[of[r]]], reply[t].asked)
    BY <1>1 DEF ReplyOf
  <2> QED
    BY <2>1 DEF Answer
<1> QED
  BY <1>1, <1>2 DEF ReplyOf

(***************************************************************************)
(* findMatches returns one answer of each registered worker that did not    *)
(* crash, in the order of host_list, and no answer of anyone else, where    *)
(* its connections were its own.                                            *)
(***************************************************************************)
THEOREM NobodyIsMissing == ServiceSpec => []NobodyMissing
  BY ServiceInvHolds, NobodyIs, PTL

-----------------------------------------------------------------------------
(***************************************************************************)
(* The list.  The numbers in it ascend, so that an iterator stands at one  *)
(* position, and the elements after it are those it has still to visit.    *)
(***************************************************************************)
Ascending == \A m, n \in DOMAIN host_list : m < n => host_list[m] < host_list[n]

Back == IF host_list = <<>> THEN 0 ELSE host_list[Len(host_list)]

(* In an ascending list, Position and After are what their names say. *)
LEMMA ListOrder ==
  ASSUME Types, NumbersGiven, Ascending
  PROVE  /\ host_list \in Seq(Nat) /\ Len(host_list) \in Nat /\ DOMAIN host_list = 1..Len(host_list)
         /\ \A n \in DOMAIN host_list : host_list[n] \in 1..Len(container)
         /\ \A n \in DOMAIN host_list : InList(host_list[n]) /\ Position(host_list[n]) = n
         /\ \A n \in DOMAIN host_list : n < Len(host_list) => After(host_list[n]) = host_list[n + 1]
         /\ host_list # <<>> => After(host_list[Len(host_list)]) = 0
         /\ host_list # <<>> => First = host_list[1] /\ First # 0 /\ 1 \in DOMAIN host_list
         /\ host_list = <<>> => First = 0
<1>1. host_list \in Seq(Nat) /\ Len(host_list) \in Nat /\ DOMAIN host_list = 1..Len(host_list)
  BY DEF Types
<1>2. \A n \in DOMAIN host_list : host_list[n] \in 1..Len(container)
  BY ListNumbers DEF Types, NumbersGiven, Given
<1>3. ASSUME NEW n \in DOMAIN host_list
      PROVE  InList(host_list[n]) /\ Position(host_list[n]) = n
  <2>1. InList(host_list[n])
    BY DEF InList
  <2>2. Position(host_list[n]) \in 1..Len(host_list) /\ host_list[Position(host_list[n])] = host_list[n]
    BY <1>1, <2>1, ListTypes
  <2>3. \A m \in DOMAIN host_list : host_list[m] = host_list[n] => m = n
    <3> SUFFICES ASSUME NEW m \in DOMAIN host_list, host_list[m] = host_list[n], m # n PROVE FALSE
      OBVIOUS
    <3>1. m < n \/ n < m
      BY <1>1
    <3>2. host_list[m] < host_list[n] \/ host_list[n] < host_list[m]
      BY <3>1 DEF Ascending
    <3> QED
      BY <1>1, <3>2
  <2> QED
    BY <1>1, <2>1, <2>2, <2>3
<1>4. \A n \in DOMAIN host_list : n < Len(host_list) => After(host_list[n]) = host_list[n + 1]
  BY <1>1, <1>3 DEF After
<1>5. host_list # <<>> => After(host_list[Len(host_list)]) = 0
  BY <1>1, <1>3 DEF After
<1>6. host_list # <<>> => First = host_list[1] /\ First # 0 /\ 1 \in DOMAIN host_list
  BY <1>1, <1>2 DEF First
<1> QED
  BY <1>1, <1>2, <1>3, <1>4, <1>5, <1>6 DEF First

(***************************************************************************)
(* What the list is while no writer of it has met another user: of the     *)
(* registered workers, each once, but for the address that the one writer  *)
(* is at; and a writer has passed no container of its address.             *)
(***************************************************************************)
Registered == {container[host_list[n]] : n \in DOMAIN host_list}

Distinct ==
  \A m, n \in DOMAIN host_list : m # n => container[host_list[m]] # container[host_list[n]]

At(t, p) ==
  /\ p \in DOMAIN host_list /\ host_list[p] = it[t]
  /\ \A n \in DOMAIN host_list : n < p => container[host_list[n]] # arg[t]

ThreadSound(t) ==
  /\ pc[t] = "collect" => InList(it[t])
  /\ pc[t] = "scan" => Registered = registered /\ \E p \in Nat : At(t, p)
  /\ pc[t] \in {"push", "link"} => Registered = registered /\ arg[t] \notin Registered
  /\ pc[t] = "link" => prev[t] = last
  /\ pc[t] = "erase" => /\ Registered \ {arg[t]} = registered \ {arg[t]}
                        /\ \E p \in Nat : At(t, p)

Quiescent == \A t \in Thread : ~Writes(t)

ListSound ==
  /\ last = Back
  /\ Distinct
  /\ Quiescent => Registered = registered
  /\ \A t \in Thread : ThreadSound(t)

RaceSeen == Racing => raced

ListInv == Ascending /\ RaceSeen /\ (~raced => ListSound)

(* Nothing is asked of a thread that does not use the list. *)
LEMMA Bystander ==
  ASSUME NEW u \in Thread, pc'[u] = pc[u], ~UsesList(u)
  PROVE  ThreadSound(u)'
  BY DEF UsesList, Writes, ThreadSound

(***************************************************************************)
(* A thread that uses the list is undisturbed where the list is unchanged.  *)
(***************************************************************************)
LEMMA Onlooker ==
  ASSUME NEW u \in Thread, ThreadSound(u),
         UNCHANGED <<host_list, last, registered>>,
         \A n \in DOMAIN host_list : container'[host_list[n]] = container[host_list[n]],
         pc'[u] = pc[u], it'[u] = it[u], arg'[u] = arg[u], prev'[u] = prev[u]
  PROVE  ThreadSound(u)'
<1>1. Registered' = Registered
  BY DEF Registered
<1>2. \A p \in Nat : At(u, p) => At(u, p)'
  BY DEF At
<1>3. InList(it[u]) => InList(it[u])'
  BY DEF InList
<1> QED
  BY <1>1, <1>2, <1>3 DEF ThreadSound

(* Whatever races now is in the history. *)
LEMMA RaceHolds == RaceSeen /\ [ServiceNext]_serviceVars => RaceSeen'
<1>1. CASE UNCHANGED serviceVars
  BY <1>1 DEF serviceVars, threadVars, RaceSeen, Racing, Writes, UsesList
<1> QED
  BY <1>1 DEF ServiceNext, RaceSeen

(***************************************************************************)
(* Every step keeps the list ascending, races included: push_back cuts it   *)
(* and links the newest container, erase takes one out.                     *)
(***************************************************************************)
LEMMA AscendingHolds ==
  Types /\ NumbersGiven /\ Ascending /\ [ServiceNext]_serviceVars => Ascending'
<1> SUFFICES ASSUME Types, NumbersGiven, Ascending, [ServiceNext]_serviceVars
             PROVE  Ascending'
  OBVIOUS
<1> USE DEF listVars, threadVars, workerVars, masterVars
<1>0. host_list \in Seq(Nat) /\ Len(host_list) \in Nat /\ Len(container) \in Nat
  BY DEF Types
<1>1. CASE UNCHANGED host_list
  BY <1>1 DEF Ascending
<1>2. ASSUME NEW t \in Thread, Link(t) PROVE Ascending'
  <2>1. CASE ~(prev[t] = 0 \/ InList(prev[t]))
    BY <1>1, <1>2, <2>1 DEF Link
  <2>2. CASE prev[t] = 0 \/ InList(prev[t])
    <3> DEFINE q == UpTo(prev[t])
    <3>1. /\ q \in Seq(Nat) /\ Len(q) <= Len(host_list)
          /\ \A n \in 1..Len(q) : q[n] = host_list[n]
      BY <2>2, UpToTypes DEF Types
    <3>2. host_list' = Append(q, Len(container) + 1)
      BY <1>2, <2>2 DEF Link
    <3>3. \A n \in DOMAIN host_list : host_list[n] \in 1..Len(container)
      BY ListOrder
    <3> HIDE DEF q
    <3>4. /\ DOMAIN host_list' = 1..(Len(q) + 1) /\ host_list'[Len(q) + 1] = Len(container) + 1
          /\ \A n \in 1..Len(q) : host_list'[n] = host_list[n] /\ n \in DOMAIN host_list
          /\ Len(q) \in Nat
      BY <1>0, <3>1, <3>2
    <3>5. ASSUME NEW m \in 1..(Len(q) + 1), NEW n \in 1..(Len(q) + 1), m < n
          PROVE  host_list'[m] < host_list'[n]
      <4>1. m \in 1..Len(q)
        BY <3>4, <3>5
      <4>2. host_list'[m] = host_list[m] /\ m \in DOMAIN host_list /\ host_list[m] \in 1..Len(container)
        BY <3>3, <3>4, <4>1
      <4>3. CASE n = Len(q) + 1
        BY <1>0, <3>4, <4>2, <4>3
      <4>4. CASE n # Len(q) + 1
        <5>1. n \in 1..Len(q)
          BY <3>4, <4>4
        <5> QED
          BY <3>4, <3>5, <4>2, <5>1 DEF Ascending
      <4> QED
        BY <4>3, <4>4
    <3> QED
      BY <3>4, <3>5 DEF Ascending
  <2> QED
    BY <2>1, <2>2
<1>3. ASSUME NEW t \in Thread, Deregister(t) PROVE Ascending'
  <2>1. CASE InList(it[t]) /\ Erase(it[t])
    <3> DEFINE p == Position(it[t])
    <3>1. p \in 1..Len(host_list)
      BY <2>1, ListTypes DEF Types
    <3>2. host_list' = RemoveAt(host_list, p)
      BY <2>1 DEF Erase
    <3> HIDE DEF p
    <3>3. /\ host_list' \in Seq(Nat) /\ Len(host_list') = Len(host_list) - 1
          /\ \A n \in 1..(Len(host_list) - 1) :
               host_list'[n] = IF n < p THEN host_list[n] ELSE host_list[n + 1]
      BY <1>0, <3>1, <3>2, RemovedElements
    <3> PICK l : l = Len(host_list)
      OBVIOUS
    <3> DEFINE old(k) == IF k < p THEN k ELSE k + 1
    <3>4. DOMAIN host_list' = 1..(l - 1) /\ DOMAIN host_list = 1..l /\ l \in Nat /\ p \in 1..l
      BY <1>0, <3>1, <3>3
    <3>5. \A k \in 1..(l - 1) : old(k) \in 1..l /\ host_list'[k] = host_list[old(k)]
      BY <3>3, <3>4
    <3>6. \A m, n \in 1..(l - 1) : m < n => old(m) < old(n)
      BY <3>4
    <3> HIDE DEF old
    <3> QED
      BY <3>4, <3>5, <3>6 DEF Ascending
  <2> QED
    BY <1>1, <1>3, <2>1 DEF Deregister
<1>4. ASSUME NEW t \in Thread,
             \/ \E k \in Key : CallFindMatches(t, k)
             \/ \E w \in Worker : CallRegisterService(t, w) \/ CallDeregisterService(t, w)
             \/ Collect(t) \/ Join(t) \/ Scan(t) \/ Push(t)
      PROVE  UNCHANGED host_list
  BY <1>4 DEF CallFindMatches, CallRegisterService, CallDeregisterService, Collect, Join, Scan, Push
<1>5. ASSUME NEW t \in Thread, NEW d \in DOMAIN delegators[t],
             Open(t, d) \/ Send(t, d) \/ Receive(t, d) \/ Close(t, d)
      PROVE  UNCHANGED host_list
  BY <1>5 DEF Open, Send, Receive, Close, Becomes
<1>6. ASSUME NEW w \in Worker, Accept(w) \/ Serve(w) \/ WorkerCrash(w) \/ WorkerRestart(w)
      PROVE  UNCHANGED host_list
  BY <1>6 DEF Accept, Serve, WorkerCrash, WorkerRestart
<1>7. UNCHANGED serviceVars => UNCHANGED host_list
  BY DEF serviceVars
<1> QED
  BY <1>1, <1>2, <1>3, <1>4, <1>5, <1>6, <1>7, StepCases

(***************************************************************************)
(* A step in which no writer meets another user of the list.               *)
(***************************************************************************)
Calm == Types /\ NumbersGiven /\ Ascending /\ ListSound /\ ~Racing /\ ~Racing'

(* Without a race, nobody else uses the list while a thread writes it. *)
LEMMA OnlyWriter ==
  ASSUME ~Racing, NEW t \in Thread, Writes(t), NEW u \in Thread, u # t
  PROVE  ~UsesList(u) /\ ~Writes(u)
  BY DEF Racing, UsesList

(* The threads other than t, when t is the only one to move. *)
LEMMA OthersLook ==
  ASSUME Calm, NEW t \in Thread, UNCHANGED <<host_list, last, container, registered>>,
         \A u \in Thread : u # t => /\ pc'[u] = pc[u] /\ it'[u] = it[u]
                                    /\ arg'[u] = arg[u] /\ prev'[u] = prev[u],
         ThreadSound(t)', Quiescent' => Registered = registered
  PROVE  ListSound'
<1>1. \A u \in Thread : ThreadSound(u)'
  BY Onlooker DEF Calm, ListSound
<1>2. Registered' = Registered /\ Back' = Back /\ (Distinct => Distinct')
  BY DEF Registered, Back, Distinct
<1> QED
  BY <1>1, <1>2 DEF Calm, ListSound

(* Where a loop over host_list begins. *)
LEMMA FirstSound ==
  ASSUME Calm
  PROVE  /\ host_list # <<>> =>
              /\ First # 0 /\ InList(First) /\ 1 \in DOMAIN host_list /\ host_list[1] = First
              /\ \A n \in DOMAIN host_list : ~(n < 1)
         /\ host_list = <<>> => First = 0 /\ Registered = {} /\ \A c : ~InList(c)
<1>1. /\ DOMAIN host_list = 1..Len(host_list)
      /\ \A n \in DOMAIN host_list : InList(host_list[n])
      /\ host_list # <<>> => First = host_list[1] /\ First # 0 /\ 1 \in DOMAIN host_list
      /\ host_list = <<>> => First = 0
  BY ListOrder DEF Calm
<1>2. host_list = <<>> => Registered = {} /\ \A c : ~InList(c)
  BY DEF Registered, InList
<1>3. \A n \in DOMAIN host_list : ~(n < 1)
  BY <1>1
<1> QED
  BY <1>1, <1>2, <1>3

(* The call of findMatches keeps ListSound. *)
LEMMA CallFindList ==
  ASSUME Calm, NEW t \in Thread, NEW k \in Key, CallFindMatches(t, k)
  PROVE  ListSound'
<1> USE DEF listVars
<1>1. /\ UNCHANGED <<host_list, last, container, registered, prev>>
      /\ pc[t] = "idle"
      /\ \A u \in Thread : u # t => pc'[u] = pc[u] /\ it'[u] = it[u] /\ arg'[u] = arg[u]
      /\ it'[t] = First
      /\ IF host_list = <<>> THEN pc'[t] = "idle" ELSE pc'[t] = "collect"
  BY DEF CallFindMatches, Call, Calm, Types
<1>2. ThreadSound(t)'
  BY <1>1, FirstSound DEF ThreadSound, InList
<1>3. Quiescent' => Quiescent
  BY <1>1 DEF Quiescent, Writes
<1> QED
  BY <1>1, <1>2, <1>3, OthersLook DEF Calm, ListSound

(* The call of registerService keeps ListSound. *)
LEMMA CallRegisterList ==
  ASSUME Calm, NEW t \in Thread, NEW w \in Worker, CallRegisterService(t, w)
  PROVE  ListSound'
<1> USE DEF listVars
<1>1. /\ UNCHANGED <<host_list, last, container, registered, prev>>
      /\ pc[t] = "idle"
      /\ \A u \in Thread : u # t => pc'[u] = pc[u] /\ it'[u] = it[u] /\ arg'[u] = arg[u]
      /\ it'[t] = First
      /\ pc'[t] = IF First = 0 THEN "push" ELSE "scan"
  BY DEF CallRegisterService, Call, Calm, Types
<1>2. Writes(t)'
  BY <1>1 DEF Writes
<1>3. Quiescent
  <2> SUFFICES ASSUME NEW u \in Thread, Writes(u) PROVE FALSE
    BY DEF Quiescent
  <2>1. u # t
    BY <1>1 DEF Writes
  <2>2. Writes(u)'
    BY <1>1, <2>1 DEF Writes
  <2> QED
    BY <1>2, <2>1, <2>2 DEF Calm, Racing, UsesList
<1>4. Registered = registered
  BY <1>3 DEF Calm, ListSound
<1>5. UNCHANGED Registered
  BY <1>1 DEF Registered
<1>6. CASE host_list = <<>>
  <2>1. pc'[t] = "push" /\ Registered = {}
    BY <1>1, <1>6, FirstSound
  <2>2. ThreadSound(t)'
    BY <1>1, <1>4, <1>5, <2>1 DEF ThreadSound
  <2> QED
    BY <1>1, <1>4, <2>2, OthersLook
<1>7. CASE host_list # <<>>
  <2>1. pc'[t] = "scan"
    BY <1>1, <1>7, FirstSound
  <2>2. At(t, 1)'
    BY <1>1, <1>7, FirstSound DEF At
  <2>3. ThreadSound(t)'
    BY <1>1, <1>4, <1>5, <2>1, <2>2 DEF ThreadSound
  <2> QED
    BY <1>1, <1>4, <2>3, OthersLook
<1> QED
  BY <1>6, <1>7

(***************************************************************************)
(* The call of deregisterService keeps ListSound: nothing to erase in an    *)
(* empty list.                                                              *)
(***************************************************************************)
LEMMA CallDeregisterList ==
  ASSUME Calm, NEW t \in Thread, NEW w \in Worker, CallDeregisterService(t, w)
  PROVE  ListSound'
<1> USE DEF listVars
<1>1. /\ UNCHANGED <<host_list, last, container, prev>>
      /\ pc[t] = "idle"
      /\ \A u \in Thread : u # t => pc'[u] = pc[u] /\ it'[u] = it[u] /\ arg'[u] = arg[u]
      /\ it'[t] = First /\ arg'[t] = w
      /\ pc'[t] = IF First = 0 THEN "idle" ELSE "erase"
      /\ registered' = IF First = 0 THEN registered \ {w} ELSE registered
  BY DEF CallDeregisterService, Call, Calm, Types
<1>2. UNCHANGED Registered
  BY <1>1 DEF Registered
<1>3. CASE host_list = <<>>
  <2>1. pc'[t] = "idle" /\ Registered = {} /\ registered' = registered \ {w} /\ \A c : ~InList(c)
    BY <1>1, <1>3, FirstSound
  <2>2. registered = {}
    <3>1. CASE Quiescent
      BY <2>1, <3>1 DEF Calm, ListSound
    <3>2. ASSUME NEW u \in Thread, Writes(u) PROVE registered = {}
      <4>1. ThreadSound(u)
        BY DEF Calm, ListSound
      <4>2. pc[u] # "erase"
        BY <1>3, <4>1 DEF ThreadSound, At
      <4> QED
        BY <2>1, <3>2, <4>1, <4>2 DEF ThreadSound, Writes
    <3> QED
      BY <3>1, <3>2 DEF Quiescent
  <2>3. ThreadSound(t)' /\ UNCHANGED registered
    BY <2>1, <2>2 DEF ThreadSound
  <2> QED
    BY <1>1, <2>1, <2>2, <2>3, OthersLook
<1>4. CASE host_list # <<>>
  <2>1. pc'[t] = "erase" /\ UNCHANGED registered
    BY <1>1, <1>4, FirstSound
  <2>2. At(t, 1)'
    BY <1>1, <1>4, FirstSound DEF At
  <2>3. Quiescent
    <3> SUFFICES ASSUME NEW u \in Thread, Writes(u) PROVE FALSE
      BY DEF Quiescent
    <3>1. u # t
      BY <1>1 DEF Writes
    <3>2. Writes(u)' /\ Writes(t)'
      BY <1>1, <2>1, <3>1 DEF Writes
    <3> QED
      BY <3>1, <3>2 DEF Calm, Racing, UsesList
  <2>4. Registered = registered
    BY <2>3 DEF Calm, ListSound
  <2>5. ThreadSound(t)'
    BY <1>1, <1>2, <2>1, <2>2, <2>4 DEF ThreadSound
  <2> QED
    BY <1>1, <2>1, <2>4, <2>5, OthersLook
<1> QED
  BY <1>3, <1>4

(* A turn of findMatches keeps ListSound. *)
LEMMA CollectList ==
  ASSUME Calm, NEW t \in Thread, Collect(t)
  PROVE  ListSound'
<1> USE DEF listVars
<1>1. pc[t] = "collect" /\ InList(it[t])
  BY DEF Collect, Calm, ListSound, ThreadSound
<1>2. /\ UNCHANGED <<host_list, last, container, registered, prev, arg>>
      /\ \A u \in Thread : u # t => pc'[u] = pc[u] /\ it'[u] = it[u]
      /\ it'[t] = After(it[t])
      /\ pc'[t] = IF After(it[t]) = 0 THEN "join" ELSE "collect"
  BY <1>1 DEF Collect, GoOn, Calm, Types
<1>3. After(it[t]) # 0 => InList(After(it[t]))
  <2>1. PICK n \in DOMAIN host_list : host_list[n] = it[t]
    BY <1>1 DEF InList
  <2>2. /\ n \in 1..Len(host_list) /\ Len(host_list) \in Nat
        /\ n < Len(host_list) => After(it[t]) = host_list[n + 1] /\ n + 1 \in DOMAIN host_list
        /\ n = Len(host_list) => After(it[t]) = 0
    <3>1. host_list # <<>>
      BY <2>1
    <3> QED
      BY <2>1, <3>1, ListOrder DEF Calm
  <2> QED
    BY <2>2 DEF InList
<1>4. ThreadSound(t)'
  BY <1>2, <1>3 DEF ThreadSound, InList
<1>5. Quiescent' => Quiescent
  BY <1>1, <1>2 DEF Quiescent, Writes
<1> QED
  BY <1>2, <1>4, <1>5, OthersLook DEF Calm, ListSound

(* The end of findMatches keeps ListSound. *)
LEMMA JoinList ==
  ASSUME Calm, NEW t \in Thread, Join(t)
  PROVE  ListSound'
<1>1. /\ UNCHANGED <<host_list, last, container, registered, prev, arg, it>>
      /\ pc[t] = "join" /\ pc'[t] = "idle"
      /\ \A u \in Thread : u # t => pc'[u] = pc[u]
  BY DEF Join, Calm, Types, listVars
<1>2. ThreadSound(t)'
  BY <1>1 DEF ThreadSound
<1>3. Quiescent' => Quiescent
  BY <1>1 DEF Quiescent, Writes
<1> QED
  BY <1>1, <1>2, <1>3, OthersLook DEF Calm, ListSound

(* Where the iterator of t goes from p: its address is at none it passed. *)
LEMMA NextAt ==
  ASSUME Calm, NEW t \in Thread, NEW p \in Nat, At(t, p)
  PROVE  /\ InList(it[t]) /\ Position(it[t]) = p /\ p \in 1..Len(host_list) /\ Len(host_list) \in Nat
         /\ DOMAIN host_list = 1..Len(host_list) /\ host_list[p] = it[t]
         /\ p < Len(host_list) => After(it[t]) = host_list[p + 1] /\ After(it[t]) # 0
         /\ p = Len(host_list) => After(it[t]) = 0
<1>1. p \in DOMAIN host_list /\ host_list[p] = it[t]
  BY DEF At
<1>2. host_list # <<>>
  BY <1>1
<1>3. Types /\ NumbersGiven /\ Ascending
  BY DEF Calm
<1>4. /\ DOMAIN host_list = 1..Len(host_list) /\ Len(host_list) \in Nat
      /\ \A n \in DOMAIN host_list : host_list[n] \in 1..Len(container)
      /\ \A n \in DOMAIN host_list : InList(host_list[n]) /\ Position(host_list[n]) = n
      /\ \A n \in DOMAIN host_list : n < Len(host_list) => After(host_list[n]) = host_list[n + 1]
      /\ host_list # <<>> => After(host_list[Len(host_list)]) = 0
  BY <1>3, ListOrder
<1>5. p \in 1..Len(host_list) /\ InList(it[t]) /\ Position(it[t]) = p
  BY <1>1, <1>4
<1>6. p < Len(host_list) => After(it[t]) = host_list[p + 1] /\ After(it[t]) # 0
  <2>1. p < Len(host_list) => p + 1 \in DOMAIN host_list
    BY <1>4, <1>5
  <2>2. \A n \in DOMAIN host_list : host_list[n] # 0
    BY <1>4
  <2> QED
    BY <1>1, <1>4, <2>1, <2>2
<1>7. p = Len(host_list) => After(it[t]) = 0
  BY <1>1, <1>2, <1>4
<1> QED
  BY <1>1, <1>4, <1>5, <1>6, <1>7

(***************************************************************************)
(* A turn of registerService keeps ListSound: the address is not before     *)
(* the iterator, and if it is there the worker is registered already.       *)
(***************************************************************************)
LEMMA ScanList ==
  ASSUME Calm, NEW t \in Thread, Scan(t)
  PROVE  ListSound'
<1> USE DEF listVars
<1>1. pc[t] = "scan" /\ Registered = registered
  BY DEF Scan, Calm, ListSound, ThreadSound
<1>2. PICK p \in Nat : At(t, p)
  BY <1>1 DEF Calm, ListSound, ThreadSound
<1>3. InList(it[t])
  BY <1>2, NextAt
<1>4. /\ UNCHANGED <<host_list, last, container, prev, arg>>
      /\ \A u \in Thread : u # t => pc'[u] = pc[u] /\ it'[u] = it[u]
  BY <1>3 DEF Scan, GoOn, Calm, Types
<1>5. UNCHANGED Registered
  BY <1>4 DEF Registered
<1>6. CASE Same(it[t], arg[t])
  <2>1. pc'[t] = "idle" /\ registered' = registered \cup {arg[t]}
    BY <1>3, <1>6 DEF Scan, Calm, Types
  <2>2. arg[t] \in Registered
    BY <1>2, <1>6 DEF Same, At, Registered
  <2>3. UNCHANGED registered
    BY <1>1, <2>1, <2>2
  <2>4. ThreadSound(t)'
    BY <2>1 DEF ThreadSound
  <2> QED
    BY <1>1, <1>4, <2>3, <2>4, OthersLook
<1>7. CASE ~Same(it[t], arg[t])
  <2>1. /\ it'[t] = After(it[t]) /\ UNCHANGED registered
        /\ pc'[t] = IF After(it[t]) = 0 THEN "push" ELSE "scan"
    BY <1>1, <1>3, <1>7 DEF Scan, GoOn, Calm, Types
  <2>2. \A n \in DOMAIN host_list : n <= p => container[host_list[n]] # arg[t]
    <3>1. \A n \in DOMAIN host_list : n <= p => n < p \/ n = p
      BY <1>2, NextAt
    <3> QED
      BY <1>2, <1>7, <3>1 DEF Same, At
  <2>3. ThreadSound(t)'
    <3>1. CASE p < Len(host_list)
      <4>1. pc'[t] = "scan" /\ it'[t] = host_list[p + 1]
        BY <1>2, <2>1, <3>1, NextAt
      <4>2. p + 1 \in DOMAIN host_list /\ \A n \in DOMAIN host_list : n < p + 1 => n <= p
        BY <1>2, <3>1, NextAt
      <4>3. At(t, p + 1)'
        BY <1>4, <2>2, <4>1, <4>2 DEF At
      <4> QED
        BY <1>1, <1>5, <2>1, <4>1, <4>3 DEF ThreadSound
    <3>2. CASE p = Len(host_list)
      <4>1. pc'[t] = "push" /\ \A n \in DOMAIN host_list : n <= p
        BY <1>2, <2>1, <3>2, NextAt
      <4>2. arg[t] \notin Registered
        BY <2>2, <4>1 DEF Registered
      <4> QED
        BY <1>1, <1>4, <1>5, <2>1, <4>1, <4>2 DEF ThreadSound
    <3> QED
      BY <1>2, <3>1, <3>2, NextAt
  <2> QED
    BY <1>1, <1>4, <2>1, <2>3, OthersLook
<1> QED
  BY <1>6, <1>7

(* The first half of push_back keeps ListSound. *)
LEMMA PushList ==
  ASSUME Calm, NEW t \in Thread, Push(t)
  PROVE  ListSound'
<1>1. /\ UNCHANGED <<host_list, last, container, registered, arg, it>>
      /\ pc[t] = "push" /\ pc'[t] = "link" /\ prev'[t] = last
      /\ \A u \in Thread : u # t => pc'[u] = pc[u] /\ prev'[u] = prev[u]
  BY DEF Push, Calm, Types, listVars
<1>2. Registered = registered /\ arg[t] \notin Registered
  BY <1>1 DEF Calm, ListSound, ThreadSound
<1>3. UNCHANGED Registered
  BY <1>1 DEF Registered
<1>4. ThreadSound(t)'
  BY <1>1, <1>2, <1>3 DEF ThreadSound
<1> QED
  BY <1>1, <1>2, <1>4, OthersLook

(***************************************************************************)
(* The second half of push_back keeps ListSound: the new container goes to  *)
(* the end of the whole list, and its address was not in it.                *)
(***************************************************************************)
LEMMA LinkList ==
  ASSUME Calm, NEW t \in Thread, Link(t)
  PROVE  ListSound'
<1> PICK l, new : l = Len(host_list) /\ new = Len(container) + 1
  OBVIOUS
<1>1. /\ pc[t] = "link" /\ Writes(t) /\ prev[t] = last /\ last = Back
      /\ Registered = registered /\ arg[t] \notin Registered /\ Distinct
  BY DEF Link, Writes, Calm, ListSound, ThreadSound
<1>2. /\ host_list \in Seq(Nat) /\ l \in Nat /\ DOMAIN host_list = 1..l /\ new \in Nat
      /\ container \in Seq(Worker) /\ arg[t] \in Worker
      /\ \A n \in 1..l : /\ host_list[n] \in DOMAIN container /\ host_list[n] # 0
                         /\ InList(host_list[n]) /\ Position(host_list[n]) = n
  <2>1. Types /\ NumbersGiven /\ Ascending
    BY DEF Calm
  <2>2. /\ DOMAIN host_list = 1..Len(host_list) /\ Len(host_list) \in Nat
        /\ \A n \in DOMAIN host_list : host_list[n] \in 1..Len(container)
        /\ \A n \in DOMAIN host_list : InList(host_list[n]) /\ Position(host_list[n]) = n
    BY <2>1, ListOrder
  <2>3. /\ host_list \in Seq(Nat) /\ container \in Seq(Worker) /\ arg[t] \in Worker
        /\ DOMAIN container = 1..Len(container) /\ Len(container) \in Nat
    BY <1>1, <2>1 DEF Types
  <2> QED
    BY <2>2, <2>3
<1>3. host_list' = Append(host_list, new)
  <2>1. prev[t] = 0 \/ InList(prev[t])
    BY <1>1, <1>2 DEF Back
  <2>2. host_list' = Append(UpTo(last), new)
    BY <1>1, <2>1 DEF Link
  <2>3. UpTo(last) = host_list
    <3>1. CASE host_list = <<>>
      BY <1>1, <3>1 DEF UpTo, Back
    <3>2. CASE host_list # <<>>
      <4>1. l \in 1..l
        BY <1>2, <3>2
      <4>2. last = host_list[l] /\ last # 0 /\ Position(last) = l
        BY <1>1, <1>2, <3>2, <4>1 DEF Back
      <4>3. UpTo(last) = SubSeq(host_list, 1, l)
        BY <4>2 DEF UpTo
      <4> QED
        BY <1>2, <4>3
    <3> QED
      BY <3>1, <3>2
  <2> QED
    BY <2>2, <2>3
<1>4. /\ DOMAIN host_list' = 1..(l + 1) /\ Len(host_list') = l + 1 /\ host_list'[l + 1] = new
      /\ \A n \in 1..l : host_list'[n] = host_list[n]
  BY <1>2, <1>3
<1>5. /\ container' = Append(container, arg[t]) /\ last' = new
      /\ registered' = registered \cup {arg[t]}
      /\ pc'[t] = "idle" /\ \A u \in Thread : u # t => pc'[u] = pc[u]
  BY DEF Link, Calm, Types
<1>6. container'[new] = arg[t] /\ \A c \in DOMAIN container : container'[c] = container[c]
  BY <1>2, <1>5
<1>7. /\ container'[host_list'[l + 1]] = arg[t]
      /\ \A n \in 1..l : container'[host_list'[n]] = container[host_list[n]]
  BY <1>2, <1>4, <1>6
<1>8. \A n \in 1..l : container[host_list[n]] # arg[t]
  BY <1>1, <1>2 DEF Registered
<1>9. \A n \in 1..(l + 1) : n \in 1..l \/ n = l + 1
  BY <1>2
<1>10. Distinct'
  BY <1>1, <1>2, <1>4, <1>7, <1>8, <1>9 DEF Distinct
<1>11. Registered' = registered'
  <2>1. Registered' = Registered \cup {arg[t]}
    <3>1. \A x : x \in Registered' <=> \E n \in 1..(l + 1) : x = container'[host_list'[n]]
      BY <1>4 DEF Registered
    <3>2. \A x : x \in Registered <=> \E n \in 1..l : x = container[host_list[n]]
      BY <1>2 DEF Registered
    <3>3. \A n \in 1..l : n \in 1..(l + 1)
      BY <1>2
    <3>4. l + 1 \in 1..(l + 1)
      BY <1>2
    <3> QED
      BY <1>7, <1>9, <3>1, <3>2, <3>3, <3>4
  <2> QED
    BY <1>1, <1>5, <2>1
<1>12. last' = Back'
  <2>1. host_list' # <<>>
    BY <1>2, <1>3
  <2> QED
    BY <1>4, <1>5, <2>1 DEF Back
<1>13. ASSUME NEW u \in Thread PROVE ThreadSound(u)'
  <2>1. CASE u = t
    BY <1>5, <2>1 DEF ThreadSound
  <2>2. CASE u # t
    <3>1. ~UsesList(u)
      BY <1>1, <2>2, OnlyWriter DEF Calm
    <3> QED
      BY <1>5, <2>2, <3>1, Bystander
  <2> QED
    BY <2>1, <2>2
<1> QED
  BY <1>10, <1>11, <1>12, <1>13 DEF ListSound

(* The places of an iterator. *)
LEMMA LastOrBefore ==
  ASSUME NEW n \in Nat, NEW p \in 1..n
  PROVE  p = n \/ p < n
  OBVIOUS

(* What erase leaves of the list. *)
LEMMA ErasedList ==
  ASSUME Calm, NEW t \in Thread, NEW p \in Nat, At(t, p), Same(it[t], arg[t]), Erase(it[t]),
         UNCHANGED container
  PROVE  /\ Registered' = Registered \ {arg[t]} /\ Distinct' /\ last' = Back'
         /\ \A n \in 1..(Len(host_list) - 1) : n < p => n \in DOMAIN host_list' /\ host_list'[n] = host_list[n]
         /\ p < Len(host_list) => p \in DOMAIN host_list' /\ host_list'[p] = host_list[p + 1]
<1> PICK l : l = Len(host_list)
  OBVIOUS
<1>1. /\ Position(it[t]) = p /\ p \in 1..l /\ l \in Nat /\ DOMAIN host_list = 1..l
      /\ host_list[p] = it[t] /\ container[host_list[p]] = arg[t]
  BY NextAt DEF Same
<1>2. host_list \in Seq(Nat) /\ Distinct /\ last = Back /\ host_list # <<>>
  BY <1>1 DEF Calm, Types, ListSound
<1> DEFINE old(k) == IF k < p THEN k ELSE k + 1
<1>3. /\ host_list' \in Seq(Nat) /\ Len(host_list') = l - 1 /\ DOMAIN host_list' = 1..(l - 1)
      /\ \A k \in 1..(l - 1) : host_list'[k] = host_list[old(k)]
  <2>1. host_list' = RemoveAt(host_list, p)
    BY <1>1 DEF Erase
  <2> HIDE DEF old
  <2>2. /\ host_list' \in Seq(Nat) /\ Len(host_list') = l - 1
        /\ \A k \in 1..(l - 1) : host_list'[k] = IF k < p THEN host_list[k] ELSE host_list[k + 1]
    BY <1>1, <1>2, <2>1, RemovedElements
  <2> QED
    BY <2>2 DEF old
<1>4. /\ \A k \in 1..(l - 1) : old(k) \in 1..l /\ old(k) # p
      /\ \A j, k \in 1..(l - 1) : j # k => old(j) # old(k)
      /\ \A n \in 1..l : n # p => \E k \in 1..(l - 1) : old(k) = n
  <2>1. \A n \in 1..l : n # p => \E k \in 1..(l - 1) : old(k) = n
    <3> SUFFICES ASSUME NEW n \in 1..l, n # p PROVE \E k \in 1..(l - 1) : old(k) = n
      OBVIOUS
    <3>1. CASE n < p
      <4>1. n \in 1..(l - 1) /\ old(n) = n
        BY <1>1, <3>1
      <4> QED
        BY <4>1
    <3>2. CASE n > p
      <4>1. n - 1 \in 1..(l - 1) /\ old(n - 1) = n
        BY <1>1, <3>2
      <4> QED
        BY <4>1
    <3> QED
      BY <1>1, <3>1, <3>2
  <2> QED
    BY <1>1, <2>1
<1>5. /\ \A n \in 1..(l - 1) : n < p => old(n) = n
      /\ p < l => p \in 1..(l - 1) /\ old(p) = p + 1 /\ l - 1 \in 1..(l - 1) /\ old(l - 1) = l
      /\ p = l /\ p # 1 => l - 1 \in 1..(l - 1) /\ old(l - 1) = l - 1
  BY <1>1
<1> HIDE DEF old
<1>6. Distinct'
  <2> SUFFICES ASSUME NEW j \in 1..(l - 1), NEW k \in 1..(l - 1), j # k
               PROVE  container[host_list'[j]] # container[host_list'[k]]
    BY <1>3 DEF Distinct
  <2>1. old(j) \in DOMAIN host_list /\ old(k) \in DOMAIN host_list /\ old(j) # old(k)
    BY <1>1, <1>4
  <2>2. container[host_list[old(j)]] # container[host_list[old(k)]]
    BY <1>2, <2>1 DEF Distinct
  <2>3. host_list'[j] = host_list[old(j)] /\ host_list'[k] = host_list[old(k)]
    BY <1>3
  <2> QED
    BY <2>2, <2>3
<1>7. Registered' = Registered \ {arg[t]}
  <2>1. ASSUME NEW k \in 1..(l - 1)
        PROVE  container'[host_list'[k]] \in Registered \ {arg[t]}
    <3>1. container'[host_list'[k]] = container[host_list[old(k)]] /\ old(k) \in 1..l /\ old(k) # p
      BY <1>3, <1>4
    <3> QED
      BY <1>1, <1>2, <3>1 DEF Registered, Distinct
  <2>2. ASSUME NEW x \in Registered \ {arg[t]} PROVE x \in Registered'
    <3>1. PICK n \in 1..l : x = container[host_list[n]]
      BY <1>1 DEF Registered
    <3>2. n # p
      BY <1>1, <3>1
    <3>3. PICK k \in 1..(l - 1) : old(k) = n
      BY <1>4, <3>2
    <3>4. x = container'[host_list'[k]] /\ k \in DOMAIN host_list'
      BY <1>3, <3>1, <3>3
    <3> QED
      BY <3>4 DEF Registered
  <2>3. ASSUME NEW x \in Registered' PROVE x \in Registered \ {arg[t]}
    <3>1. PICK k \in 1..(l - 1) : x = container'[host_list'[k]]
      BY <1>3 DEF Registered
    <3> QED
      BY <2>1, <3>1
  <2> QED
    BY <2>2, <2>3
<1>8. last' = Back'
  <2>1. last = host_list[l]
    BY <1>2 DEF Back
  <2>2. CASE p < l
    <3>1. host_list[l] # host_list[p]
      <4>1. l \in 1..l /\ l # p
        BY <1>1, <2>2
      <4> QED
        BY <1>1, <1>2, <4>1 DEF Distinct
    <3>2. last' = last
      BY <1>1, <2>1, <3>1 DEF Erase
    <3>3. host_list'[l - 1] = host_list[l]
      BY <1>3, <1>5, <2>2
    <3>4. host_list' # <<>>
      BY <1>3, <1>5, <2>2
    <3> QED
      BY <1>3, <2>1, <3>2, <3>3, <3>4 DEF Back
  <2>3. CASE p = l /\ p = 1
    <3>1. First = it[t] /\ last = it[t]
      BY <1>1, <1>2, <2>1, <2>3 DEF First
    <3>2. last' = 0
      BY <3>1 DEF Erase
    <3>3. host_list' = <<>>
      <4>1. Len(host_list') = 0
        BY <1>3, <2>3
      <4> QED
        BY <1>3, <4>1
    <3> QED
      BY <3>2, <3>3 DEF Back
  <2>4. CASE p = l /\ p # 1
    <3>1. last = it[t]
      BY <1>1, <2>1, <2>4
    <3>2. First # it[t]
      <4>1. First = host_list[1] /\ 1 \in 1..l
        BY <1>1, <1>2 DEF First
      <4> QED
        BY <1>1, <1>2, <2>4, <4>1 DEF Distinct
    <3>3. last' = host_list[l - 1]
      BY <1>1, <2>4, <3>1, <3>2 DEF Erase
    <3>4. host_list'[l - 1] = host_list[l - 1] /\ host_list' # <<>>
      BY <1>3, <1>5, <2>4
    <3> QED
      BY <1>3, <3>3, <3>4 DEF Back
  <2> QED
    BY <1>1, <2>2, <2>3, <2>4
<1>9. \A n \in 1..(l - 1) : n < p => n \in DOMAIN host_list' /\ host_list'[n] = host_list[n]
  BY <1>3, <1>5
<1>10. p < l => p \in DOMAIN host_list' /\ host_list'[p] = host_list[p + 1]
  BY <1>3, <1>5
<1> QED
  BY <1>6, <1>7, <1>8, <1>9, <1>10

(***************************************************************************)
(* A turn of deregisterService keeps ListSound: the address is not before   *)
(* the iterator, and since the list has it once at most, it is gone when    *)
(* the loop ends.                                                           *)
(***************************************************************************)
LEMMA DeregisterList ==
  ASSUME Calm, NEW t \in Thread, Deregister(t)
  PROVE  ListSound'
<1> USE DEF listVars
<1>1. /\ pc[t] = "erase" /\ Writes(t) /\ Registered \ {arg[t]} = registered \ {arg[t]}
      /\ Distinct /\ last = Back
  BY DEF Deregister, Writes, Calm, ListSound, ThreadSound
<1>2. PICK p \in Nat : At(t, p)
  BY <1>1 DEF Calm, ListSound, ThreadSound
<1>3. /\ InList(it[t]) /\ p \in 1..Len(host_list) /\ Len(host_list) \in Nat
      /\ DOMAIN host_list = 1..Len(host_list) /\ host_list[p] = it[t]
  BY <1>2, NextAt
<1>4. /\ UNCHANGED <<container, prev, arg>>
      /\ \A u \in Thread : u # t => pc'[u] = pc[u] /\ it'[u] = it[u]
      /\ it'[t] = After(it[t])
      /\ pc'[t] = IF After(it[t]) = 0 THEN "idle" ELSE "erase"
      /\ registered' = IF After(it[t]) = 0 THEN registered \ {arg[t]} ELSE registered
  BY <1>1, <1>3 DEF Deregister, GoOn, Calm, Types
<1>5. ASSUME NEW u \in Thread, u # t PROVE ThreadSound(u)'
  <2>1. ~UsesList(u)
    BY <1>1, <1>5, OnlyWriter DEF Calm
  <2> QED
    BY <1>4, <1>5, <2>1, Bystander
<1>6. pc'[t] = "erase" => ~Quiescent'
  BY DEF Quiescent, Writes
<1>7. CASE Same(it[t], arg[t])
  <2>1. Erase(it[t])
    BY <1>3, <1>7 DEF Deregister
  <2>2. /\ Registered' = Registered \ {arg[t]} /\ Distinct' /\ last' = Back'
        /\ \A n \in 1..(Len(host_list) - 1) : n < p => n \in DOMAIN host_list' /\ host_list'[n] = host_list[n]
        /\ p < Len(host_list) => p \in DOMAIN host_list' /\ host_list'[p] = host_list[p + 1]
    BY <1>2, <1>4, <1>7, <2>1, ErasedList
  <2>3. CASE p = Len(host_list)
    <3>1. pc'[t] = "idle" /\ registered' = registered \ {arg[t]}
      BY <1>2, <1>4, <2>3, NextAt
    <3>2. ThreadSound(t)'
      BY <3>1 DEF ThreadSound
    <3> QED
      BY <1>1, <1>5, <2>2, <3>1, <3>2 DEF ListSound
  <2>4. CASE p < Len(host_list)
    <3>1. pc'[t] = "erase" /\ UNCHANGED registered /\ it'[t] = host_list[p + 1]
      BY <1>2, <1>4, <2>4, NextAt
    <3>2. At(t, p)'
      <4>1. \A n \in DOMAIN host_list' : n < p => n \in DOMAIN host_list /\ host_list'[n] = host_list[n]
        <5> SUFFICES ASSUME NEW n \in DOMAIN host_list', n < p
                     PROVE  n \in DOMAIN host_list /\ host_list'[n] = host_list[n]
          OBVIOUS
        <5>1. n \in Nat \ {0}
          BY <2>1 DEF Erase, RemoveAt
        <5>2. n \in 1..(Len(host_list) - 1)
          BY <1>3, <2>4, <5>1
        <5> QED
          BY <1>3, <2>2, <5>2
      <4> QED
        BY <1>2, <1>4, <2>2, <2>4, <3>1, <4>1 DEF At
    <3>3. Registered' \ {arg'[t]} = registered' \ {arg'[t]}
      BY <1>1, <1>4, <2>2, <3>1
    <3>4. ThreadSound(t)'
      BY <3>1, <3>2, <3>3 DEF ThreadSound
    <3> QED
      BY <1>5, <1>6, <2>2, <3>1, <3>4 DEF ListSound
  <2>5. p = Len(host_list) \/ p < Len(host_list)
    BY <1>3, LastOrBefore
  <2> QED
    BY <2>3, <2>4, <2>5
<1>8. CASE ~Same(it[t], arg[t])
  <2>1. UNCHANGED <<host_list, last>>
    BY <1>3, <1>8 DEF Deregister
  <2>2. UNCHANGED <<Registered, Back, Distinct>>
    BY <1>4, <2>1 DEF Registered, Back, Distinct
  <2>3. \A n \in DOMAIN host_list : n <= p => container[host_list[n]] # arg[t]
    <3>1. \A n \in DOMAIN host_list : n <= p => n < p \/ n = p
      BY <1>3
    <3> QED
      BY <1>2, <1>8, <3>1 DEF Same, At
  <2>4. CASE p = Len(host_list)
    <3>1. pc'[t] = "idle" /\ registered' = registered \ {arg[t]}
      BY <1>2, <1>4, <2>4, NextAt
    <3>2. arg[t] \notin Registered
      <4>1. \A n \in DOMAIN host_list : n <= p
        BY <1>3, <2>4
      <4> QED
        BY <2>3, <4>1 DEF Registered
    <3>3. Registered = registered'
      BY <1>1, <3>1, <3>2
    <3>4. ThreadSound(t)'
      BY <3>1 DEF ThreadSound
    <3> QED
      BY <1>1, <1>5, <2>1, <2>2, <3>3, <3>4 DEF ListSound
  <2>5. CASE p < Len(host_list)
    <3>1. pc'[t] = "erase" /\ UNCHANGED registered /\ it'[t] = host_list[p + 1]
      BY <1>2, <1>4, <2>5, NextAt
    <3>2. p + 1 \in Nat /\ At(t, p + 1)'
      <4>1. p + 1 \in DOMAIN host_list /\ \A n \in DOMAIN host_list : n < p + 1 => n <= p
        BY <1>3, <2>5
      <4> QED
        BY <1>4, <2>1, <2>3, <3>1, <4>1 DEF At
    <3>3. Registered' \ {arg'[t]} = registered' \ {arg'[t]}
      BY <1>1, <1>4, <2>2, <3>1
    <3>4. ThreadSound(t)'
      BY <3>1, <3>2, <3>3 DEF ThreadSound
    <3> QED
      BY <1>1, <1>5, <1>6, <2>1, <2>2, <3>1, <3>4 DEF ListSound
  <2>6. p = Len(host_list) \/ p < Len(host_list)
    BY <1>3, LastOrBefore
  <2> QED
    BY <2>4, <2>5, <2>6
<1> QED
  BY <1>7, <1>8

(* Every step keeps ListInv. *)
LEMMA ListHolds ==
  Types /\ NumbersGiven /\ ListInv /\ [ServiceNext]_serviceVars => ListInv'
<1> SUFFICES ASSUME Types, NumbersGiven, ListInv, [ServiceNext]_serviceVars PROVE ListInv'
  OBVIOUS
<1> USE DEF listVars, threadVars, workerVars, masterVars
<1>1. Ascending' /\ RaceSeen'
  BY AscendingHolds, RaceHolds DEF ListInv
<1>2. CASE UNCHANGED serviceVars
  <2>1. UNCHANGED <<raced, host_list, last, registered, container, pc, it, arg, prev>>
    BY <1>2 DEF serviceVars
  <2>2. ListSound => ListSound'
    <3> SUFFICES ASSUME ListSound PROVE ListSound'
      OBVIOUS
    <3>1. \A u \in Thread : ThreadSound(u)'
      BY <2>1, Onlooker DEF ListSound
    <3> QED
      BY <2>1, <3>1 DEF ListSound, Back, Distinct, Registered, Quiescent, Writes
  <2> QED
    BY <1>1, <2>1, <2>2 DEF ListInv
<1>3. CASE ServiceNext
  <2>1. ASSUME ~raced' PROVE Calm
    <3>1. ~raced /\ ~Racing'
      BY <1>3, <2>1 DEF ServiceNext
    <3> QED
      BY <3>1 DEF Calm, ListInv, RaceSeen
  <2>2. ASSUME Calm, UNCHANGED <<host_list, last, container, registered, pc, it, arg, prev>>
        PROVE  ListSound'
    <3>1. \A u \in Thread : ThreadSound(u)'
      BY <2>2, Onlooker DEF Calm, ListSound
    <3> QED
      BY <2>2, <3>1 DEF Calm, ListSound, Back, Distinct, Registered, Quiescent, Writes
  <2>3. ASSUME NEW t \in Thread, NEW d \in DOMAIN delegators[t],
               Open(t, d) \/ Send(t, d) \/ Receive(t, d) \/ Close(t, d)
        PROVE  UNCHANGED <<host_list, last, container, registered, pc, it, arg, prev>>
    BY <2>3 DEF Open, Send, Receive, Close, Becomes
  <2>4. ASSUME NEW w \in Worker, Accept(w) \/ Serve(w) \/ WorkerCrash(w) \/ WorkerRestart(w)
        PROVE  UNCHANGED <<host_list, last, container, registered, pc, it, arg, prev>>
    BY <2>4 DEF Accept, Serve, WorkerCrash, WorkerRestart
  <2>5. Calm => ListSound'
    BY <1>3, <2>2, <2>3, <2>4, StepCases, CallFindList, CallRegisterList, CallDeregisterList,
       CollectList, JoinList, ScanList, PushList, LinkList, DeregisterList
  <2> QED
    BY <1>1, <2>1, <2>5 DEF ListInv
<1> QED
  BY <1>2, <1>3

(* ListInv holds at the start. *)
LEMMA ListInvInit == ServiceInit => ListInv
<1> SUFFICES ASSUME ServiceInit PROVE ListInv
  OBVIOUS
<1>1. /\ DOMAIN host_list = {} /\ host_list = <<>> /\ last = 0 /\ registered = {}
      /\ \A t \in Thread : pc[t] = "idle"
  BY DEF ServiceInit
<1> QED
  BY <1>1 DEF ListInv, Ascending, RaceSeen, Racing, Writes, UsesList, ListSound, Back, Distinct,
              Registered, ThreadSound

(* ListInv says what ListIsRegistry says. *)
LEMMA ListIs == ListInv => ListIsRegistry
  BY DEF ListInv, ListSound, ListIsRegistry, Back, Distinct, Registered, Quiescent

(***************************************************************************)
(* As long as no registration or deregistration met another user of         *)
(* host_list, the list is the set of registered workers, each once, and     *)
(* push_back links where the list ends. With one handler thread, as in      *)
(* start_server, that is always.                                            *)
(***************************************************************************)
THEOREM ListIsTheRegistry == ServiceSpec => []ListIsRegistry
<1>1. ServiceSpec => []ListInv
  <2>1. ServiceInv => Types /\ NumbersGiven
    BY DEF ServiceInv, Sound
  <2> QED
    BY <2>1, ServiceInvHolds, ListInvInit, ListHolds, PTL DEF ServiceSpec
<1> QED
  BY <1>1, ListIs, PTL
=============================================================================
