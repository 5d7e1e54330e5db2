---------------------------- MODULE SearchService ----------------------------
(***************************************************************************)
(* The processes of the distributed search, from main to the answer of a   *)
(* call (thrift/service-cpp/RemoteInfixSearch_server.cpp over the          *)
(* generated code, RemoteInfixSearch): masters and workers started from    *)
(* command lines, the addresses they listen on, the protocol they speak,   *)
(* the threads that serve their connections, and the calls a master makes  *)
(* of the workers that were registered with it.                            *)
(*                                                                         *)
(* main calls start_http_server; start_server stands beside it, commented  *)
(* out.  build says which of the two the running program was built with.   *)
(*                                                                         *)
(* A handler that makes no call of its own is one step here; what handler  *)
(* threads of one master do to each other is MasterService's subject.      *)
(* Sockets, the thrift runtime and the callers are external.               *)
(***************************************************************************)
EXTENDS RemoteInfixSearch, FiniteSets, SequencesExt

CONSTANTS
  Process,       (* the processes                                          *)
  CommandLine,   (* process -> the hosts and arguments it may start with   *)
  Number(_),     (* what atoi makes of a word                              *)
  Readable,      (* the data sets that can be opened                       *)
  HttpPort,      (* the port in start_http_server                          *)
  PoolSize,      (* the threads of its pool                                *)
  Caller,        (* the programs that call the service                     *)
  Request,       (* the calls they make: method and fields                 *)
  MaxCalls,      (* bound: calls they make                                 *)
  MaxFailures    (* bound: calls of findMatches that end in an exception   *)

VARIABLES
  build,         (* "http" or "simple": the start function main calls      *)
  proc,          (* process -> its configuration and registered workers    *)
  conn,          (* connection -> its state and the tokens on their way    *)
  task,          (* connection -> the findMatches its server is busy with  *)
  caller,        (* caller -> its call and the answer it got               *)
  calls,         (* calls the callers have made                            *)
  failures,      (* calls that have ended in an exception                  *)
  made           (* history: connection -> what its server last answered   *)

serviceVars == <<build, proc, conn, task, caller, calls, failures, made>>

TYPE_SLAVE == 1

NotStarted == [state |-> "off", type |-> -1, addr |-> <<"", 0>>, data |-> FALSE, hosts |-> <<>>]
Closed == [stage |-> "closed", to |-> <<"", 0>>, req |-> <<>>, rep |-> <<>>]
NoTask == [busy |-> FALSE, key |-> "", seqid |-> 0, hosts |-> <<>>, there |-> {}, state |-> <<>>, matches |-> <<>>]
NotMade == [times |-> 0, answer |-> <<>>, key |-> "", hosts |-> <<>>, there |-> {}]
NoCall == [state |-> "idle", method |-> "", answer |-> <<>>]

(* The connections: of the callers, and of the containers in host_lists. *)
AddressIn(args) == <<args[1].value, args[2].value>>
Address ==
  {AddressIn(Read(registerService_args, r.fields)) : r \in {q \in Request : q.method = "registerService"}}
Container == Process \X Address
Link == Caller \cup Container

ASSUME CallerAssumption == Caller \cap Container = {}

(* What a caller sends in the struct of a call is a sequence of fields. *)
IsSequence(s) == Len(s) \in Nat /\ s = [n \in 1..Len(s) |-> s[n]]

ASSUME RequestAssumption ==
  \A r \in Request :
    IsSequence(r.fields) /\ \A n \in DOMAIN r.fields : r.fields[n].token = "field"

ServiceInit ==
  /\ build \in {"http", "simple"}
  /\ proc = [p \in Process |-> NotStarted]
  /\ conn = [l \in Link |-> Closed]
  /\ task = [l \in Link |-> NoTask]
  /\ caller = [c \in Caller |-> NoCall]
  /\ calls = 0 /\ failures = 0
  /\ made = [l \in Link |-> NotMade]

-----------------------------------------------------------------------------
(***************************************************************************)
(* main: the loop over the arguments takes the word after an option as its *)
(* value, whatever it is, and ignores words it does not know.  There is no *)
(* check that a word follows: a last option reads past the arguments.      *)
(***************************************************************************)
Configured(options, word) ==
  IF options.expect = "" THEN [options EXCEPT !.expect = IF word \in {"--port", "--type", "--dataset"} THEN word ELSE ""]
  ELSE [options EXCEPT !.expect = "",
                       !.port = IF options.expect = "--port" THEN Number(word) ELSE @,
                       !.type = IF options.expect = "--type" THEN Number(word) ELSE @,
                       !.dataset = IF options.expect = "--dataset" THEN word ELSE @]

Options(argv) ==
  FoldLeft(Configured, [expect |-> "", port |-> -1, type |-> -1, dataset |-> ""], argv)

Listening(a) == {p \in Process : proc[p].state = "up" /\ proc[p].addr = a}

StartsAt(line) ==   (* where the start function listens *)
  <<line.host, IF build = "http" THEN HttpPort ELSE Options(line.argv).port>>

Loads(argv) == build = "simple" /\ Options(argv).type = TYPE_SLAVE

(* Without arguments, with half an option, with a data set that cannot be  *)
(* opened, or at an address in use, the process ends.                      *)
Fails(line) ==
  \/ line.argv = <<>> \/ Options(line.argv).expect # ""
  \/ Loads(line.argv) /\ Options(line.argv).dataset \notin Readable
  \/ Listening(StartsAt(line)) # {}

Main(p, line) ==
  /\ proc[p].state = "off"
  /\ proc' = [proc EXCEPT ![p] =
       IF Fails(line) THEN [NotStarted EXCEPT !.state = "ended"]
       ELSE [state |-> "up", type |-> Options(line.argv).type, addr |-> StartsAt(line),
             data |-> Loads(line.argv), hosts |-> <<>>]]
  /\ UNCHANGED <<build, conn, task, caller, calls, failures, made>>

-----------------------------------------------------------------------------
(***************************************************************************)
(* Connections.  An opened one waits until a thread of the server is free  *)
(* for it and keeps that thread until it is closed.                        *)
(***************************************************************************)
Opened(a) ==
  IF Listening(a) = {} THEN Closed ELSE [Closed EXCEPT !.stage = "queued", !.to = a]

Server(l) == CHOOSE p \in Process : p \in Listening(conn[l].to)
Served(p) == {l \in Link : conn[l].stage = "served" /\ Server(l) = p}
Threads == IF build = "http" THEN PoolSize ELSE 1

AcceptTooFew(l) ==   (* seeded fault: the accepting thread is counted as busy *)
  /\ conn[l].stage = "queued"
  /\ Cardinality(Served(Server(l))) + 1 < Threads
  /\ conn' = [conn EXCEPT ![l].stage = "served"]
  /\ UNCHANGED <<build, proc, task, caller, calls, failures, made>>

Accept(l) ==
  /\ conn[l].stage = "queued"
  /\ Cardinality(Served(Server(l))) < Threads
  /\ conn' = [conn EXCEPT ![l].stage = "served"]
  /\ UNCHANGED <<build, proc, task, caller, calls, failures, made>>

(* The clients of registerService speak TBinaryProtocol, start_http_server *)
(* TJSONProtocol: the server ends the connection at the first message.     *)
Understood(l) == build = "simple" \/ l \in Caller

Refuse(l) ==
  /\ conn[l].stage = "served" /\ conn[l].req # <<>> /\ ~Understood(l)
  /\ conn' = [conn EXCEPT ![l].stage = "ended", ![l].req = <<>>]
  /\ UNCHANGED <<build, proc, task, caller, calls, failures, made>>

-----------------------------------------------------------------------------
(***************************************************************************)
(* Processing a message.                                                   *)
(***************************************************************************)
Asked(l, m) ==
  /\ conn[l].stage = "served" /\ conn[l].req # <<>> /\ Understood(l) /\ ~task[l].busy
  /\ Head(conn[l].req).name = m

Seqid(l) == Head(conn[l].req).seqid
Given(l, m) == Read(ArgsOf(m), FieldsOf(Tail(conn[l].req)))

(* The message has been read off the connection. *)
Taken(l) == [conn EXCEPT ![l].req = AfterStruct(Tail(@))]

(* The answer of task t is on its way. *)
Answers(l, taken, tokens, t) ==
  /\ conn' = [taken EXCEPT ![l].rep = @ \o tokens]
  /\ made' = [made EXCEPT ![l] = [times |-> @.times + 1, answer |-> tokens,
                                  key |-> t.key, hosts |-> t.hosts, there |-> t.there]]

DispatchInStream(l) ==   (* seeded fault: the arguments are not skipped *)
  /\ conn[l].stage = "served" /\ conn[l].req # <<>> /\ Understood(l) /\ ~task[l].busy
  /\ Head(conn[l].req).name \notin processMap_
  /\ conn' = [conn EXCEPT ![l].req = Tail(@),
                          ![l].rep = @ \o Exception(Head(conn[l].req).name, Seqid(l), "unknown method")]
  /\ made' = [made EXCEPT ![l].times = @ + 1]
  /\ UNCHANGED <<build, proc, task, caller, calls, failures>>

dispatchCall(l) ==
  LET m == Head(conn[l].req).name
  IN  /\ Asked(l, m) /\ m \notin processMap_
      /\ Answers(l, Taken(l), Exception(m, Seqid(l), "unknown method"), NoTask)
      /\ UNCHANGED <<build, proc, task, caller, calls, failures>>

process_ping(l) ==
  /\ Asked(l, "ping")
  /\ Answers(l, Taken(l), Reply("ping", Seqid(l), 0), NoTask)
  /\ UNCHANGED <<build, proc, task, caller, calls, failures>>

(* registerService and deregisterService end without a return statement:   *)
(* one value stands for whatever the caller gets.                          *)
Unspecified == 0

process_registerService(l) ==
  LET m == "registerService"
      p == Server(l)
      a == AddressIn(Given(l, m))
  IN  /\ Asked(l, m)
      /\ proc' = [proc EXCEPT ![p].hosts = IF \E n \in DOMAIN @ : @[n] = a THEN @ ELSE Append(@, a)]
      /\ Answers(l, Taken(l), Reply(m, Seqid(l), Unspecified), NoTask)
      /\ UNCHANGED <<build, task, caller, calls, failures>>

(* host_list after the loop that erases every entry of an address. *)
Without(hosts, a) ==
  FlattenSeq([n \in DOMAIN hosts |-> IF hosts[n] = a THEN <<>> ELSE <<hosts[n]>>])

process_deregisterService(l) ==
  LET m == "deregisterService"
      p == Server(l)
      a == AddressIn(Given(l, m))
  IN  /\ Asked(l, m)
      /\ proc' = [proc EXCEPT ![p].hosts = Without(@, a)]
      /\ Answers(l, Taken(l), Reply(m, Seqid(l), Unspecified), NoTask)
      /\ UNCHANGED <<build, task, caller, calls, failures>>

(***************************************************************************)
(* findMatches: a worker answers from its own trie (InfixSearch, RowStore; *)
(* here one row for a worker with data), a master by asking every worker.  *)
(* An exception, as of memory or threads that cannot be had, is answered.  *)
(***************************************************************************)
Row(a, k) == [worker |-> a, key |-> k]
IsSlave(p) == proc[p].type = TYPE_SLAVE
Lookup(p, key) == IF proc[p].data THEN <<Row(proc[p].addr, key)>> ELSE <<>>

process_findMatches(l) ==
  LET m == "findMatches"
      p == Server(l)
      key == Given(l, m)[1].value
  IN  /\ Asked(l, m)
      /\ \/ /\ IsSlave(p) \/ proc[p].hosts = <<>>
            /\ Answers(l, Taken(l), Reply(m, Seqid(l), Lookup(p, key)), NoTask)
            /\ UNCHANGED <<task, failures>>
         \/ /\ failures < MaxFailures
            /\ failures' = failures + 1
            /\ Answers(l, Taken(l), Exception(m, Seqid(l), "handler"), NoTask)
            /\ UNCHANGED task
         \/ /\ ~IsSlave(p) /\ proc[p].hosts # <<>>
            /\ task' = [task EXCEPT ![l] =
                 [busy |-> TRUE, key |-> key, seqid |-> Seqid(l), hosts |-> proc[p].hosts,
                  there |-> {a \in Address : Listening(a) # {}},
                  state |-> [n \in DOMAIN proc[p].hosts |-> "new"],
                  matches |-> [n \in DOMAIN proc[p].hosts |-> <<>>]]]
            /\ conn' = Taken(l)
            /\ UNCHANGED <<failures, made>>
      /\ UNCHANGED <<build, proc, caller, calls>>

-----------------------------------------------------------------------------
(***************************************************************************)
(* The delegators of the findMatches that connection l is served by: open, *)
(* send_findMatches, recv_findMatches, close.  An exception ends one where *)
(* it is, with its connection open.                                        *)
(***************************************************************************)
Turn(l, n, from, to) ==
  /\ n \in DOMAIN task[l].state /\ task[l].state[n] = from
  /\ task' = [task EXCEPT ![l].state[n] = to]
  /\ UNCHANGED <<build, proc, caller, calls, failures, made>>

Host(l, n) == <<Server(l), task[l].hosts[n]>>

Open(l, n) ==
  LET k == Host(l, n)
      opened == IF conn[k].stage = "closed" THEN Opened(k[2]) ELSE conn[k]
  IN  /\ Turn(l, n, "new", IF opened.stage = "closed" THEN "done" ELSE "open")
      /\ conn' = [conn EXCEPT ![k] = opened]

(* A write to a connection the server has ended may still succeed. *)
send_findMatches(l, n) ==
  LET k == Host(l, n)
      call == Call("findMatches", Write(findMatches_args, <<task[l].key>>))
  IN  \/ /\ Turn(l, n, "open", "sent")
         /\ conn[k].stage # "closed"
         /\ conn' = [conn EXCEPT ![k].req = IF conn[k].stage = "ended" THEN @ ELSE @ \o call]
      \/ /\ Turn(l, n, "open", "done")
         /\ conn[k].stage \in {"ended", "closed"}
         /\ conn' = [conn EXCEPT ![k] = Closed]

recv_findMatches(l, n) ==
  LET k == Host(l, n)
      answer == Recv("findMatches", conn[k].rep)
  IN  \/ /\ conn[k].rep # <<>>
         /\ n \in DOMAIN task[l].state /\ task[l].state[n] = "sent"
         /\ conn' = [conn EXCEPT ![k].rep = AfterStruct(Tail(@))]
         /\ task' = [task EXCEPT ![l].state[n] = IF answer.kind = "returned" THEN "got" ELSE "done",
                                 ![l].matches[n] = IF answer.kind = "returned" THEN answer.value ELSE @]
         /\ UNCHANGED <<build, proc, caller, calls, failures, made>>
      \/ /\ conn[k].rep = <<>> /\ conn[k].stage \in {"ended", "closed"}
         /\ Turn(l, n, "sent", "done")
         /\ UNCHANGED conn

Close(l, n) ==
  /\ Turn(l, n, "got", "done")
  /\ conn' = [conn EXCEPT ![Host(l, n)] = Closed]

Delegate(l) ==
  \E n \in DOMAIN task[l].state :
    Open(l, n) \/ send_findMatches(l, n) \/ recv_findMatches(l, n) \/ Close(l, n)

(* The answers of all of them, in the order of host_list. *)
MergeLast(l) ==   (* seeded fault: the last answer instead of all *)
  /\ task[l].busy /\ \A n \in DOMAIN task[l].state : task[l].state[n] = "done"
  /\ Answers(l, conn, Reply("findMatches", task[l].seqid, task[l].matches[Len(task[l].matches)]), task[l])
  /\ task' = [task EXCEPT ![l] = NoTask]
  /\ UNCHANGED <<build, proc, caller, calls, failures>>
Merge(l) ==
  /\ task[l].busy /\ \A n \in DOMAIN task[l].state : task[l].state[n] = "done"
  /\ Answers(l, conn, Reply("findMatches", task[l].seqid, FlattenSeq(task[l].matches)), task[l])
  /\ task' = [task EXCEPT ![l] = NoTask]
  /\ UNCHANGED <<build, proc, caller, calls, failures>>

-----------------------------------------------------------------------------
(***************************************************************************)
(* The callers (external): a thrift client each, that speaks the service's *)
(* protocol, connects to one process, makes calls and hangs up.            *)
(***************************************************************************)
Dial(c) ==
  /\ caller[c].state = "idle" /\ calls < MaxCalls
  /\ \E p \in Process :
       /\ proc[p].state = "up"
       /\ conn' = [conn EXCEPT ![c] = Opened(proc[p].addr)]
  /\ caller' = [caller EXCEPT ![c].state = "open"]
  /\ UNCHANGED <<build, proc, task, calls, failures, made>>

Ask(c) ==
  /\ caller[c].state = "open" /\ calls < MaxCalls
  /\ calls' = calls + 1
  /\ \E r \in Request :
       /\ conn' = [conn EXCEPT ![c].req = @ \o Call(r.method, r.fields)]
       /\ caller' = [caller EXCEPT ![c] =
            [state |-> "waiting", method |-> r.method, answer |-> <<>>]]
  /\ made' = [made EXCEPT ![c] = NotMade]
  /\ UNCHANGED <<build, proc, task, failures>>

Get(c) ==
  /\ caller[c].state = "waiting" /\ conn[c].rep # <<>>
  /\ caller' = [caller EXCEPT ![c].state = "open",
                              ![c].answer = <<Recv(caller[c].method, conn[c].rep)>>]
  /\ conn' = [conn EXCEPT ![c].rep = AfterStruct(Tail(@))]
  /\ UNCHANGED <<build, proc, task, calls, failures, made>>

HangUp(c) ==
  /\ caller[c].state = "open" /\ (caller[c].method # "" \/ calls = MaxCalls)
  /\ conn' = [conn EXCEPT ![c] = Closed]
  /\ caller' = [caller EXCEPT ![c] = NoCall]
  /\ made' = [made EXCEPT ![c] = NotMade]
  /\ UNCHANGED <<build, proc, task, calls, failures>>

-----------------------------------------------------------------------------
Process_(l) ==
  dispatchCall(l) \/ process_ping(l) \/ process_registerService(l)
    \/ process_deregisterService(l) \/ process_findMatches(l)

Serve(l) == Accept(l) \/ Refuse(l) \/ Process_(l) \/ Delegate(l) \/ Merge(l)

ServiceNext ==
  \/ \E p \in Process : \E line \in CommandLine[p] : Main(p, line)
  \/ \E l \in Link : Serve(l)
  \/ \E c \in Caller : Dial(c) \/ Ask(c) \/ Get(c) \/ HangUp(c)

(***************************************************************************)
(* The threads of the servers run on as long as they can, and a caller     *)
(* that has connected calls, takes its answer and hangs up: one of them    *)
(* goes on whenever any can.  The bound on calls keeps each of them from   *)
(* being passed over for ever.                                             *)
(***************************************************************************)
ServiceSpec ==
  /\ ServiceInit /\ [][ServiceNext]_serviceVars
  /\ WF_serviceVars(\/ \E c \in Caller : Ask(c) \/ Get(c) \/ HangUp(c)
                    \/ \E l \in Link : Serve(l))

-----------------------------------------------------------------------------
(* Properties *)

(***************************************************************************)
(* What a caller's client makes of an answer is what the server made of    *)
(* just that call: it ran once, and neither the answer to an earlier call  *)
(* nor a lost one comes back in its place.                                 *)
(***************************************************************************)
AnswerIsOwn ==
  \A c \in Caller : caller[c].answer # <<>> =>
    /\ made[c].times = 1
    /\ Head(made[c].answer).name = caller[c].method
    /\ caller[c].answer[1].kind \in {"returned", "thrown"}
    /\ caller[c].answer[1] = Recv(caller[c].method, made[c].answer)

(***************************************************************************)
(* Client and server stay in step where they understand each other: a      *)
(* connection carries whole messages, one for every caller or delegator    *)
(* that waits and none when nobody does.                                   *)
(***************************************************************************)
Messages(tokens) == Cardinality({n \in DOMAIN tokens : tokens[n].token = "begin"})

Whole(tokens) ==
  tokens # <<>> => Head(tokens).token = "begin" /\ tokens[Len(tokens)].token = "stop"

Delegators(k, states) ==
  UNION {{<<l, n>> : n \in {m \in DOMAIN task[l].state :
           Host(l, m) = k /\ task[l].state[m] \in states}} : l \in {j \in Link : task[j].busy}}

Waiting(k) ==
  IF k \in Caller THEN IF caller[k].state = "waiting" THEN 1 ELSE 0
  ELSE Cardinality(Delegators(k, {"sent"}))

InStep ==
  \A k \in Link :
    /\ Whole(conn[k].req) /\ Whole(conn[k].rep)
    /\ Understood(k) /\ conn[k].stage \in {"queued", "served"} =>
         Messages(conn[k].req) + Messages(conn[k].rep) + (IF task[k].busy THEN 1 ELSE 0) = Waiting(k)

(***************************************************************************)
(* What a master answers: started by start_http_server it never gets a row *)
(* from any worker, as its clients and the workers do not understand each  *)
(* other; with start_server, as long as no call ended in an exception, it  *)
(* has the row of every worker with data that was there when it was asked, *)
(* once, in the order of host_list, and no row of anybody else.            *)
(***************************************************************************)
RowOf(a, k) ==
  IF \E p \in Listening(a) : proc[p].data THEN <<Row(a, k)>> ELSE <<>>

RowsOf(answered, k, hosts) ==
  FlattenSeq([n \in DOMAIN hosts |-> IF hosts[n] \in answered THEN RowOf(hosts[n], k) ELSE <<>>])

FanOut ==
  \A l \in Link :
    LET m == made[l]
    IN  m.hosts # <<>> =>
          \/ build = "http" /\ m.answer = Reply("findMatches", 0, <<>>)
          \/ /\ build = "simple"
             /\ \/ failures > 0
                \/ \E n \in DOMAIN m.hosts : \E p \in Listening(m.hosts[n]) : ~IsSlave(p)
                \/ \E late \in SUBSET Address :
                     m.answer = Reply("findMatches", 0, RowsOf(m.there \cup late, m.key, m.hosts))

(***************************************************************************)
(* Every call is answered, unless masters were registered with each other  *)
(* in a circle, so that a thread waits for itself, or a call that ended in *)
(* an exception left its connection open and a worker's thread in it.      *)
(***************************************************************************)
Leads(p, q) == ~IsSlave(p) /\ \E n \in DOMAIN proc[p].hosts : q \in Listening(proc[p].hosts[n])

Circle == \E p, q \in Process : Leads(p, q) /\ (q = p \/ Leads(q, p))

Kept ==
  failures > 0 /\ \E k \in Container :
    conn[k].stage = "served" /\ Delegators(k, {"open", "sent", "got"}) = {}

EveryCallAnswered ==
  \A c \in Caller : caller[c].state = "waiting" ~> (caller[c].state # "waiting" \/ Circle \/ Kept)

(***************************************************************************)
(* A process that runs listens on the port its command line gave.          *)
(***************************************************************************)
PortsTold(p) == {Options(line.argv).port : line \in CommandLine[p]}
ListensWhereTold ==
  \A p \in Process : proc[p].state = "up" => proc[p].addr[2] \in PortsTold(p)
=============================================================================
