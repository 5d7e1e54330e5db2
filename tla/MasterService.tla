---------------------------- MODULE MasterService ----------------------------
(***************************************************************************)
(* The master of the distributed search                                    *)
(* (thrift/service-cpp/RemoteInfixSearch_server.cpp): workers register     *)
(* their address, and findMatches sends a key to every registered worker   *)
(* at once and puts their answers together.                                *)
(*                                                                         *)
(* Thread is the set of threads that run handlers: one in start_server     *)
(* (TSimpleServer), ten in start_http_server (TThreadPoolServer), which    *)
(* share host_list and the connections in it without a lock.  findMatches  *)
(* adds a thread for every worker it asks.  The steps of all of them       *)
(* interleave here.                                                        *)
(*                                                                         *)
(* The sockets, the thrift client and the workers are external: a client   *)
(* writes its request on the connection and reads the next answer that     *)
(* comes back on it, whoever asked; open does nothing on a connection that *)
(* is open; a worker serves one connection at a time, until it is closed.  *)
(* There are no timeouts.                                                  *)
(***************************************************************************)
EXTENDS Integers, Sequences, FiniteSets, SequencesExt

CONSTANTS
  Thread,     (* the threads that run handlers                             *)
  Worker,     (* the addresses (host and port) of workers                  *)
  Key,        (* the keys that are searched for                            *)
  MaxCalls,   (* bound: calls the master receives                          *)
  MaxCrashes  (* bound: workers that crash, each at most once              *)

(* The server has one thread, or the ten of its pool. *)
ASSUME ServiceAssumption == IsFiniteSet(Thread)

VARIABLES
  host_list,  (* the registered containers, by number, in order            *)
  last,       (* the back of host_list, where push_back links; 0: none     *)
  container,  (* container number -> its worker                            *)
  conn,       (* container number -> its connection                        *)
  pc,         (* thread -> what it is about to do                          *)
  arg,        (* thread -> the argument of its call                        *)
  it,         (* thread -> its iterator over host_list                     *)
  prev,       (* thread -> the node its push_back links to                 *)
  delegators, (* thread -> delegator_list of its findMatches               *)
  reply,      (* thread -> what its last findMatches returned              *)
  up,         (* the workers that run                                      *)
  serving,    (* worker -> the connection it serves; 0: none               *)
  calls,      (* calls received                                            *)
  crashed,    (* history: the workers that have crashed                    *)
  registered, (* history: whose last call to return was registerService    *)
  raced,      (* history: a writer of host_list met another user of it     *)
  shared      (* history: containers that two delegators used at once      *)

listVars == <<host_list, last, container>>
threadVars == <<pc, arg, it, prev>>
workerVars == <<up, serving, crashed>>
serviceVars == <<listVars, conn, threadVars, delegators, reply, workerVars,
                 calls, registered, raced, shared>>

Closed == [open |-> FALSE, live |-> FALSE, req |-> <<>>, rep |-> <<>>]
Answer(w, k) == [worker |-> w, key |-> k]
NoReply == [asked |-> "nothing", from |-> <<>>, rows |-> <<>>]

ServiceInit ==
  /\ host_list = <<>> /\ last = 0 /\ container = <<>> /\ conn = <<>>
  /\ pc = [t \in Thread |-> "idle"] /\ arg = [t \in Thread |-> "nothing"]
  /\ it = [t \in Thread |-> 0] /\ prev = [t \in Thread |-> 0]
  /\ delegators = [t \in Thread |-> <<>>] /\ reply = [t \in Thread |-> NoReply]
  /\ up = Worker /\ serving = [w \in Worker |-> 0]
  /\ calls = 0 /\ crashed = {} /\ registered = {}
  /\ raced = FALSE /\ shared = {}

-----------------------------------------------------------------------------
(***************************************************************************)
(* Iterators over host_list.  A node that deregisterService erased has     *)
(* been freed: an iterator that stands there may end up anywhere.          *)
(***************************************************************************)
InList(c) == c \in {host_list[n] : n \in DOMAIN host_list}

Position(c) == CHOOSE n \in DOMAIN host_list : host_list[n] = c

After(c) ==
  IF Position(c) = Len(host_list) THEN 0 ELSE host_list[Position(c) + 1]

First == IF host_list = <<>> THEN 0 ELSE host_list[1]

Anywhere == {host_list[n] : n \in DOMAIN host_list} \cup {0}

(* A thread goes on with its loop at container c, or to done after the last. *)
GoOn(t, c, done) ==
  /\ it' = [it EXCEPT ![t] = c]
  /\ pc' = IF c = 0 THEN [pc EXCEPT ![t] = done] ELSE pc

(* The process crashes at a dangling iterator. *)
Crash ==
  /\ pc' = [t \in Thread |-> "dead"]
  /\ UNCHANGED it

Dangling(t, done) ==
  /\ it[t] # 0 /\ ~InList(it[t])
  /\ Crash \/ \E c \in Anywhere : GoOn(t, c, done)

Call(t, a) ==
  /\ pc[t] = "idle" /\ calls < MaxCalls
  /\ calls' = calls + 1
  /\ arg' = [arg EXCEPT ![t] = a]

-----------------------------------------------------------------------------
(***************************************************************************)
(* findMatches: a delegator for every registered worker, all of them run   *)
(* at once, and the answers in the order of host_list.                     *)
(***************************************************************************)
CallFindMatches(t, k) ==
  /\ Call(t, k)
  /\ it' = [it EXCEPT ![t] = First]
  /\ IF host_list = <<>>
     THEN /\ reply' = [reply EXCEPT ![t] = [asked |-> k, from |-> <<>>, rows |-> <<>>]]
          /\ UNCHANGED pc
     ELSE /\ pc' = [pc EXCEPT ![t] = "collect"]
          /\ UNCHANGED reply
  /\ UNCHANGED <<listVars, conn, prev, delegators, workerVars, registered>>

Delegator(c) == [container |-> c, state |-> "new", matches |-> <<>>]

Collect(t) ==
  /\ pc[t] = "collect"
  /\ IF InList(it[t])
     THEN /\ delegators' = [delegators EXCEPT ![t] = Append(@, Delegator(it[t]))]
          /\ GoOn(t, After(it[t]), "join")
     ELSE /\ Dangling(t, "join")
          /\ UNCHANGED delegators
  /\ UNCHANGED <<listVars, conn, arg, prev, reply, workerVars, calls, registered>>

(***************************************************************************)
(* The destructor of the thread pool waits for every task (external); the  *)
(* delegators are deleted after their matches have been taken.             *)
(***************************************************************************)
AnyDone(t) ==   (* seeded fault: one is enough *)
  \E d \in DOMAIN delegators[t] : delegators[t][d].state = "done"
AllDone(t) == \A d \in DOMAIN delegators[t] : delegators[t][d].state = "done"

Join(t) ==
  /\ pc[t] = "join"
  /\ AllDone(t)
  /\ LET ds == delegators[t]
     IN  reply' = [reply EXCEPT ![t] =
           [asked |-> arg[t],
            from  |-> [d \in DOMAIN ds |-> ds[d].container],
            rows  |-> FlattenSeq([d \in DOMAIN ds |-> ds[d].matches])]]
  /\ delegators' = [delegators EXCEPT ![t] = <<>>]
  /\ pc' = [pc EXCEPT ![t] = "idle"]
  /\ UNCHANGED <<listVars, conn, arg, it, prev, workerVars, calls, registered>>

-----------------------------------------------------------------------------
(***************************************************************************)
(* delegator_t::operator(): open, findMatches, close.  An exception ends   *)
(* it where it is, without close.                                          *)
(***************************************************************************)
Running(t, d, s) ==
  /\ pc[t] = "join" /\ d \in DOMAIN delegators[t]
  /\ delegators[t][d].state = s

Becomes(t, d, s) ==
  /\ delegators' = [delegators EXCEPT ![t][d].state = s]
  /\ UNCHANGED <<listVars, threadVars, reply, calls, registered, up, crashed>>

Open(t, d) ==
  /\ Running(t, d, "new")
  /\ LET c == delegators[t][d].container
     IN  IF conn[c].open
         THEN Becomes(t, d, "open") /\ UNCHANGED conn
         ELSE IF container[c] \in up
         THEN /\ conn' = [conn EXCEPT ![c] = [Closed EXCEPT !.open = TRUE, !.live = TRUE]]
              /\ Becomes(t, d, "open")
         ELSE Becomes(t, d, "done") /\ UNCHANGED conn
  /\ UNCHANGED serving

(***************************************************************************)
(* Two delegators that are in one connection at once also share its read   *)
(* and write buffers: a request may then be lost in the other's, and an    *)
(* answer may be unreadable.                                               *)
(***************************************************************************)
Users(c) ==
  UNION {{<<t, d>> : d \in {e \in DOMAIN delegators[t] :
                             /\ delegators[t][e].container = c
                             /\ delegators[t][e].state \in {"open", "sent", "got"}}} : t \in Thread}

Crowded(c) == Cardinality(Users(c)) > 1

(* The first write to a worker that has gone succeeds, a later one fails. *)
Send(t, d) ==
  /\ Running(t, d, "open")
  /\ LET c == delegators[t][d].container
     IN  \/ /\ ~conn[c].open
            /\ Becomes(t, d, "done") /\ UNCHANGED conn
         \/ /\ conn[c].open /\ conn[c].live
            /\ \/ conn' = [conn EXCEPT ![c].req = Append(@, arg[t])]
               \/ Crowded(c) /\ UNCHANGED conn
            /\ Becomes(t, d, "sent")
         \/ /\ conn[c].open /\ ~conn[c].live
            /\ \/ Becomes(t, d, "sent") /\ UNCHANGED conn
               \/ Becomes(t, d, "done") /\ conn' = [conn EXCEPT ![c] = Closed]
  /\ UNCHANGED serving

ReceiveHasty(t, d) ==   (* seeded fault: an answer that is late is not waited for *)
  /\ Running(t, d, "sent")
  /\ LET c == delegators[t][d].container
     IN  IF conn[c].open /\ conn[c].rep # <<>>
         THEN /\ delegators' = [delegators EXCEPT ![t][d].state = "got",
                                                 ![t][d].matches = <<Head(conn[c].rep)>>]
              /\ conn' = [conn EXCEPT ![c].rep = Tail(@)]
              /\ UNCHANGED <<listVars, threadVars, reply, calls, registered, up, crashed>>
         ELSE Becomes(t, d, "done") /\ UNCHANGED conn
  /\ UNCHANGED serving

Receive(t, d) ==
  /\ Running(t, d, "sent")
  /\ LET c == delegators[t][d].container
     IN  \/ /\ conn[c].open /\ conn[c].rep # <<>>
            /\ delegators' = [delegators EXCEPT ![t][d].state = "got",
                                               ![t][d].matches = <<Head(conn[c].rep)>>]
            /\ conn' = [conn EXCEPT ![c].rep = Tail(@)]
            /\ UNCHANGED <<listVars, threadVars, reply, calls, registered, up, crashed>>
         \/ /\ ~conn[c].open \/ (conn[c].rep = <<>> /\ ~conn[c].live) \/ Crowded(c)
            /\ Becomes(t, d, "done") /\ UNCHANGED conn
  /\ UNCHANGED serving

LeaveOpen(t, d) ==   (* seeded fault: the connection is not closed *)
  Running(t, d, "got") /\ Becomes(t, d, "done") /\ UNCHANGED <<conn, serving>>

Close(t, d) ==
  /\ Running(t, d, "got")
  /\ LET c == delegators[t][d].container
         w == container[c]
     IN  /\ conn' = [conn EXCEPT ![c] = Closed]
         /\ serving' = IF serving[w] = c THEN [serving EXCEPT ![w] = 0] ELSE serving
  /\ Becomes(t, d, "done")

Delegate(t) ==
  \E d \in DOMAIN delegators[t] :
    Open(t, d) \/ Send(t, d) \/ Receive(t, d) \/ Close(t, d)

-----------------------------------------------------------------------------
(***************************************************************************)
(* registerService looks for the address in host_list and pushes it to the *)
(* back if it is not there.  push_back reads the back node and then links  *)
(* the new node to it: a node that another thread linked or unlinked in    *)
(* between is overwritten.                                                 *)
(***************************************************************************)
CallRegisterService(t, w) ==
  /\ Call(t, w)
  /\ it' = [it EXCEPT ![t] = First]
  /\ pc' = [pc EXCEPT ![t] = IF First = 0 THEN "push" ELSE "scan"]
  /\ UNCHANGED <<listVars, conn, prev, delegators, reply, workerVars, registered>>

SameNever(c, w) == FALSE   (* seeded fault: the address is not compared *)
Same(c, w) == container[c] = w

Scan(t) ==
  /\ pc[t] = "scan"
  /\ IF ~InList(it[t])
     THEN Dangling(t, "push") /\ UNCHANGED registered
     ELSE IF Same(it[t], arg[t])
     THEN /\ pc' = [pc EXCEPT ![t] = "idle"]
          /\ registered' = registered \cup {arg[t]}
          /\ UNCHANGED it
     ELSE GoOn(t, After(it[t]), "push") /\ UNCHANGED registered
  /\ UNCHANGED <<listVars, conn, arg, prev, delegators, reply, workerVars, calls>>

Push(t) ==
  /\ pc[t] = "push"
  /\ prev' = [prev EXCEPT ![t] = last]
  /\ pc' = [pc EXCEPT ![t] = "link"]
  /\ UNCHANGED <<listVars, conn, arg, it, delegators, reply, workerVars, calls, registered>>

UpTo(c) ==
  IF c = 0 THEN <<>>
  ELSE SubSeq(host_list, 1, Position(c))

Link(t) ==
  LET new == Len(container) + 1
  IN  /\ pc[t] = "link"
      /\ container' = Append(container, arg[t])
      /\ conn' = Append(conn, Closed)
      /\ host_list' = IF prev[t] = 0 \/ InList(prev[t])
                      THEN Append(UpTo(prev[t]), new) ELSE host_list
      /\ last' = new
      /\ registered' = registered \cup {arg[t]}
      /\ pc' = [pc EXCEPT ![t] = "idle"]
      /\ UNCHANGED <<arg, it, prev, delegators, reply, workerVars, calls>>

(***************************************************************************)
(* deregisterService erases every container of the address.                *)
(***************************************************************************)
CallDeregisterService(t, w) ==
  /\ Call(t, w)
  /\ it' = [it EXCEPT ![t] = First]
  /\ pc' = [pc EXCEPT ![t] = IF First = 0 THEN "idle" ELSE "erase"]
  /\ registered' = IF First = 0 THEN registered \ {w} ELSE registered
  /\ UNCHANGED <<listVars, conn, prev, delegators, reply, workerVars>>

EraseNot(c) == UNCHANGED <<host_list, last>>   (* seeded fault: nothing is erased *)
Erase(c) ==
  /\ host_list' = RemoveAt(host_list, Position(c))
  /\ last' = IF last # c THEN last ELSE IF First = c THEN 0
             ELSE host_list[Position(c) - 1]

Deregister(t) ==
  /\ pc[t] = "erase"
  /\ IF ~InList(it[t])
     THEN Dangling(t, "idle") /\ UNCHANGED <<host_list, last>>
     ELSE /\ GoOn(t, After(it[t]), "idle")
          /\ IF Same(it[t], arg[t]) THEN Erase(it[t]) ELSE UNCHANGED <<host_list, last>>
  /\ registered' = IF pc'[t] = "idle" THEN registered \ {arg[t]} ELSE registered
  /\ UNCHANGED <<container, conn, arg, prev, delegators, reply, workerVars, calls>>

-----------------------------------------------------------------------------
(***************************************************************************)
(* The workers (external): TSimpleServer accepts one connection and        *)
(* answers its requests in order.  A crash ends its connections; an answer *)
(* that was on its way may still arrive or not.                            *)
(***************************************************************************)
masterVars == <<listVars, threadVars, delegators, reply, calls, registered>>

Accept(w) ==
  /\ w \in up /\ serving[w] = 0
  /\ \E c \in DOMAIN container :
       /\ container[c] = w /\ conn[c].open /\ conn[c].live
       /\ serving' = [serving EXCEPT ![w] = c]
  /\ UNCHANGED <<masterVars, conn, up, crashed>>

Serve(w) ==
  LET c == serving[w]
  IN  /\ c # 0 /\ conn[c].req # <<>>
      /\ conn' = [conn EXCEPT ![c].req = Tail(@),
                              ![c].rep = Append(@, Answer(w, Head(conn[c].req)))]
      /\ UNCHANGED <<masterVars, workerVars>>

WorkerCrash(w) ==
  /\ w \in up \ crashed /\ Cardinality(crashed) < MaxCrashes
  /\ up' = up \ {w} /\ crashed' = crashed \cup {w}
  /\ serving' = [serving EXCEPT ![w] = 0]
  /\ \E arrives \in BOOLEAN :
       conn' = [c \in DOMAIN conn |->
                  IF container[c] = w /\ conn[c].open
                  THEN [conn[c] EXCEPT !.live = FALSE, !.req = <<>>,
                                       !.rep = IF arrives THEN @ ELSE <<>>]
                  ELSE conn[c]]
  /\ UNCHANGED masterVars

WorkerRestart(w) ==
  /\ w \notin up
  /\ up' = up \cup {w}
  /\ UNCHANGED <<masterVars, conn, serving, crashed>>

-----------------------------------------------------------------------------
Handle(t) == Collect(t) \/ Join(t) \/ Scan(t) \/ Push(t) \/ Link(t) \/ Deregister(t)

Step ==
  \/ \E t \in Thread :
       \/ \E k \in Key : CallFindMatches(t, k)
       \/ \E w \in Worker : CallRegisterService(t, w) \/ CallDeregisterService(t, w)
       \/ Handle(t)
       \/ Delegate(t)
  \/ \E w \in Worker : Accept(w) \/ Serve(w) \/ WorkerCrash(w) \/ WorkerRestart(w)

Writes(t) == pc[t] \in {"scan", "push", "link", "erase"}
UsesList(t) == Writes(t) \/ pc[t] = "collect"

Racing == \E t, u \in Thread : t # u /\ Writes(t) /\ UsesList(u)

Sharing == {c \in DOMAIN container : Crowded(c)}

ServiceNext ==
  /\ Step
  /\ raced' = (raced \/ Racing')
  /\ shared' = shared \cup Sharing'

(***************************************************************************)
(* Handlers, delegators and workers are threads of their own, which the    *)
(* scheduler does not starve.  No caller has to call, no worker has to     *)
(* crash or to come back.                                                  *)
(***************************************************************************)
ServiceSpec ==
  /\ ServiceInit /\ [][ServiceNext]_serviceVars
  /\ \A t \in Thread : WF_serviceVars(ServiceNext /\ Handle(t))
  /\ \A t \in Thread : WF_serviceVars(ServiceNext /\ Delegate(t))
  /\ \A w \in Worker : WF_serviceVars(ServiceNext /\ (Accept(w) \/ Serve(w)))

-----------------------------------------------------------------------------
(* Properties *)

(***************************************************************************)
(* Unless a registration or deregistration met another call that used      *)
(* host_list, the list has just the workers whose last call to return      *)
(* registered them, each once, and its back is where push_back links.      *)
(***************************************************************************)
ListIsRegistry ==
  ~raced =>
    /\ last = IF host_list = <<>> THEN 0 ELSE host_list[Len(host_list)]
    /\ \A m, n \in DOMAIN host_list :
         m # n => container[host_list[m]] # container[host_list[n]]
    /\ (\A t \in Thread : ~Writes(t)) =>
         {container[host_list[n]] : n \in DOMAIN host_list} = registered

(***************************************************************************)
(* The rows that findMatches returns answer the key it was called with, if *)
(* no other call used one of its connections while it did.                 *)
(***************************************************************************)
RowsAnswerTheKey ==
  \A t \in Thread : \A r \in DOMAIN reply[t].rows :
    reply[t].rows[r].key = reply[t].asked
      \/ \E n \in DOMAIN reply[t].from : reply[t].from[n] \in shared

(***************************************************************************)
(* Every row of a reply is the answer of one of the workers that were      *)
(* asked, no worker gives two, and they come in the order of host_list; a  *)
(* worker that did not crash is not missing.  This is said of workers      *)
(* whose connection no other call used at the time.                        *)
(***************************************************************************)
Trusted(c) == c \notin shared /\ container[c] \notin crashed

NobodyMissing ==
  \A t \in Thread :
    \E of \in [DOMAIN reply[t].rows -> DOMAIN reply[t].from] :
      /\ \A r \in DOMAIN of :
           \/ reply[t].from[of[r]] \in shared
           \/ reply[t].rows[r].worker = container[reply[t].from[of[r]]]
      /\ \A q, r \in DOMAIN of : q < r => of[q] < of[r]
      /\ \A n \in DOMAIN reply[t].from :
           Trusted(reply[t].from[n]) => \E r \in DOMAIN of : of[r] = n

(***************************************************************************)
(* A connection that no delegator is using holds no answer, so that the    *)
(* next call cannot take it for its own, and no worker is kept by it.      *)
(***************************************************************************)
NothingLeftOver ==
  \A c \in DOMAIN container :
    (c \notin shared /\ Users(c) = {}) =>
      conn[c].rep = <<>> /\ ~(conn[c].open /\ conn[c].live)

(***************************************************************************)
(* Every call of findMatches returns, whichever workers crash or register  *)
(* again meanwhile, unless the master itself crashes or two calls have     *)
(* been in one connection at once.                                         *)
(***************************************************************************)
FindMatchesReturns ==
  \A t \in Thread : pc[t] = "collect" ~> (pc[t] \in {"idle", "dead"} \/ shared # {})
=============================================================================
