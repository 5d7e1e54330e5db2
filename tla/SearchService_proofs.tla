------------------------ MODULE SearchService_proofs ------------------------
(***************************************************************************)
(* Proofs about SearchService, for any processes, command lines, callers   *)
(* and calls: client and server stay in step, a caller gets the answer to  *)
(* its own call, and a master answers the rows of its workers.             *)
(***************************************************************************)
EXTENDS SearchService, SequenceLemmas, FiniteSetTheorems

(***************************************************************************)
(* The functions and the records of the state.                             *)
(***************************************************************************)
Shapes ==
  /\ build \in {"http", "simple"} /\ failures \in Nat
  /\ DOMAIN proc = Process /\ DOMAIN caller = Caller
  /\ DOMAIN conn = Link /\ DOMAIN task = Link /\ DOMAIN made = Link
  /\ \A p \in Process : DOMAIN proc[p] = {"state", "type", "addr", "data", "hosts"}
  /\ \A c \in Caller : DOMAIN caller[c] = {"state", "method", "answer"}
  /\ \A l \in Link :
       /\ DOMAIN conn[l] = {"stage", "to", "req", "rep"}
       /\ DOMAIN task[l] = {"busy", "key", "seqid", "hosts", "there", "state", "matches"}
       /\ DOMAIN made[l] = {"times", "answer", "key", "hosts", "there"}

(* No two processes listen at one address, and no list names one twice. *)
AddressesDistinct ==
  \A p, q \in Process :
    proc[p].state = "up" /\ proc[q].state = "up" /\ proc[p].addr = proc[q].addr => p = q

Injective(s) == \A m, n \in DOMAIN s : s[m] = s[n] => m = n

HostsSound == \A p \in Process : proc[p].hosts \in Seq(Address) /\ Injective(proc[p].hosts)

(***************************************************************************)
(* An open connection leads to a process; with start_server one at a time  *)
(* is served by a process.                                                 *)
(***************************************************************************)
ConnOK(l) ==
  /\ conn[l].stage \in {"closed", "queued", "served", "ended"}
  /\ conn[l].stage \in {"queued", "served"} => Listening(conn[l].to) # {}
  /\ conn[l].stage = "ended" => ~Understood(l)
  /\ l \in Container /\ conn[l].stage # "closed" => conn[l].to = l[2]

ConnSound == \A l \in Link : ConnOK(l)

OneServed ==
  build = "simple" =>
    \A k, l \in Link :
      conn[k].stage = "served" /\ conn[l].stage = "served" /\ conn[k].to = conn[l].to => k = l

IsFunction(f, D) == f = [x \in D |-> f[x]]

(* A findMatches under way is that of a master, over its list. *)
TaskOK(l) ==
  IF ~task[l].busy THEN task[l].state = <<>>
  ELSE /\ conn[l].stage = "served" /\ Understood(l) /\ ~IsSlave(Server(l))
       /\ task[l].seqid = 0 /\ task[l].hosts # <<>>
       /\ task[l].hosts \in Seq(Address) /\ Injective(task[l].hosts)
       /\ DOMAIN task[l].state = DOMAIN task[l].hosts
       /\ IsFunction(task[l].matches, DOMAIN task[l].hosts)
       /\ \A a \in task[l].there : Listening(a) # {}

TaskSound == \A l \in Link : TaskOK(l)

(***************************************************************************)
(* What a delegator that is through has brought: the row of its worker, or *)
(* nothing from a worker that was not there.                               *)
(***************************************************************************)
Excused(a) == failures > 0 \/ \E p \in Listening(a) : ~IsSlave(p)

Brought(a, key, there, v) ==
  IF build = "http" THEN v = <<>>
  ELSE \/ Excused(a)
       \/ Listening(a) # {} /\ v = RowOf(a, key)
       \/ a \notin there /\ v = <<>>

MatchesOK(l) ==
  \A n \in DOMAIN task[l].state :
    IF task[l].state[n] \in {"got", "done"}
    THEN Brought(task[l].hosts[n], task[l].key, task[l].there, task[l].matches[n])
    ELSE task[l].matches[n] = <<>>

MatchesSound == \A l \in Link : MatchesOK(l)

Idle(l) == conn[l].req = <<>> /\ conn[l].rep = <<>> /\ ~task[l].busy

IsReply(tokens, m) == tokens # <<>> /\ tokens = Reply(m, 0, tokens[2].value)
IsException(tokens, m) == tokens # <<>> /\ tokens = Exception(m, 0, tokens[2].value)
IsAnswer(tokens, m) == (m \in processMap_ /\ IsReply(tokens, m)) \/ IsException(tokens, m)
IsCall(tokens, m) == \E r \in Request : r.method = m /\ tokens = Call(m, r.fields)

(***************************************************************************)
(* A caller that waits: its call is on the way, being worked on, or        *)
(* answered.  Otherwise its connection is idle.                            *)
(***************************************************************************)
CallerWaits(c) ==
  \/ /\ IsCall(conn[c].req, caller[c].method) /\ conn[c].rep = <<>> /\ ~task[c].busy
     /\ made[c].times = 0
  \/ /\ conn[c].req = <<>> /\ conn[c].rep = <<>> /\ task[c].busy
     /\ caller[c].method = "findMatches" /\ made[c].times = 0
  \/ /\ conn[c].req = <<>> /\ conn[c].rep = made[c].answer /\ ~task[c].busy
     /\ IsAnswer(made[c].answer, caller[c].method) /\ made[c].times = 1

GotOwn(c) ==
  /\ made[c].times = 1 /\ IsAnswer(made[c].answer, caller[c].method)
  /\ caller[c].answer = <<Recv(caller[c].method, made[c].answer)>>

CallerOK(c) ==
  /\ IF caller[c].state = "waiting" THEN caller[c].answer = <<>> /\ CallerWaits(c) ELSE Idle(c)
  /\ caller[c].answer # <<>> => GotOwn(c)

CallerSound == \A c \in Caller : CallerOK(c)

(***************************************************************************)
(* The same of a delegator, where master and worker understand each other. *)
(***************************************************************************)
KeyCall(key) == Call("findMatches", Write(findMatches_args, <<key>>))

Fits(k, key) ==
  \/ failures > 0 /\ IsException(conn[k].rep, "findMatches")
  \/ /\ IsReply(conn[k].rep, "findMatches")
     /\ Excused(k[2]) \/ conn[k].rep[2].value = RowOf(k[2], key)

DelegatorWaits(k, key) ==
  \/ conn[k].req = KeyCall(key) /\ conn[k].rep = <<>> /\ ~task[k].busy
  \/ conn[k].req = <<>> /\ conn[k].rep = <<>> /\ task[k].busy
  \/ conn[k].req = <<>> /\ ~task[k].busy /\ Fits(k, key)

LineOK(l, n) ==
  /\ task[l].state[n] \in {"open", "sent", "got"} => conn[Host(l, n)].stage \in {"queued", "served"}
  /\ task[l].state[n] = "sent" => DelegatorWaits(Host(l, n), task[l].key)

Sends(l, n, k) ==
  n \in DOMAIN task[l].state /\ task[l].state[n] = "sent" /\ Host(l, n) = k

FreeOK(k) == (\A l \in Link : \A n \in DOMAIN task[l].state : ~Sends(l, n, k)) => Idle(k)

DelegatorsSound ==
  build = "simple" =>
    /\ \A l \in Link : \A n \in DOMAIN task[l].state : LineOK(l, n)
    /\ \A k \in Container : FreeOK(k)

(* Where they do not, nothing but calls is ever on the way. *)
HttpOK(k) ==
  /\ conn[k].rep = <<>> /\ ~task[k].busy
  /\ IsSequence(conn[k].req) /\ Whole(conn[k].req)

HttpSound == build = "http" => \A k \in Container : HttpOK(k)

(* What a master answered. *)
Answered(m) ==
  IF build = "http" THEN m.answer = Reply("findMatches", 0, <<>>)
  ELSE \/ \E n \in DOMAIN m.hosts : Excused(m.hosts[n])
       \/ \E late \in SUBSET Address :
            /\ m.answer = Reply("findMatches", 0, RowsOf(m.there \cup late, m.key, m.hosts))
            /\ \A n \in DOMAIN m.hosts : m.hosts[n] \in m.there \cup late => Listening(m.hosts[n]) # {}

MadeOK(l) == made[l].hosts # <<>> => Answered(made[l])

MadeSound == \A l \in Link : MadeOK(l)

ServiceInv ==
  /\ Shapes /\ AddressesDistinct /\ HostsSound /\ ConnSound /\ OneServed /\ TaskSound
  /\ MatchesSound /\ CallerSound /\ DelegatorsSound /\ HttpSound /\ MadeSound

-----------------------------------------------------------------------------
(* Messages *)

(***************************************************************************)
(* A function on 1..k with values in T is a sequence.                      *)
(***************************************************************************)
LEMMA SequenceIn ==
  ASSUME NEW s, NEW T, NEW k \in Nat, s = [n \in 1..k |-> s[n]], \A n \in 1..k : s[n] \in T
  PROVE  s \in Seq(T) /\ Len(s) = k /\ DOMAIN s = 1..k
<1> PICK f : f = [n \in 1..k |-> s[n]]
  OBVIOUS
<1>1. f \in [1..k -> T]
  OBVIOUS
<1>2. f \in Seq(T) /\ Len(f) = k /\ DOMAIN f = 1..k
  BY <1>1
<1>3. s = f
  OBVIOUS
<1> QED
  BY <1>2, <1>3

LEMMA SequenceOut ==
  ASSUME NEW T, NEW s \in Seq(T)
  PROVE  IsSequence(s) /\ DOMAIN s = 1..Len(s)
<1> PICK k \in Nat : k = Len(s)
  OBVIOUS
<1>1. s = [n \in 1..k |-> s[n]]
  OBVIOUS
<1> QED
  BY <1>1 DEF IsSequence

(***************************************************************************)
(* A sequence of fields and the stop behind it.                            *)
(***************************************************************************)
LEMMA Closing ==
  ASSUME NEW fields, IsSequence(fields), \A n \in DOMAIN fields : fields[n].token = "field"
  PROVE  LET s == fields \o <<Stop>>
         IN  /\ IsSequence(s) /\ Len(s) = Len(fields) + 1 /\ s # <<>>
             /\ \A n \in 1..Len(fields) : s[n] = fields[n]
             /\ s[Len(s)] = Stop
             /\ FieldsOf(s) = fields /\ AfterStruct(s) = <<>>
<1> DEFINE s == fields \o <<Stop>>
           T == Range(fields) \cup {Stop}
<1> PICK k \in Nat : k = Len(fields)
  BY DEF IsSequence
<1>1. fields \in Seq(T) /\ DOMAIN fields = 1..k
  <2>1. fields = [n \in 1..k |-> fields[n]]
    BY DEF IsSequence
  <2>2. \A n \in 1..k : fields[n] \in T
    BY <2>1 DEF Range
  <2> HIDE DEF T
  <2> QED
    BY <2>1, <2>2, SequenceIn
<1>2. <<Stop>> \in Seq(T) /\ Len(<<Stop>>) = 1 /\ <<Stop>>[1] = Stop
  OBVIOUS
<1> HIDE DEF T
<1>3. /\ s \in Seq(T) /\ Len(s) = k + 1
      /\ \A n \in 1..k : s[n] = fields[n]
      /\ s[k + 1] = Stop
  BY <1>1, <1>2
<1> HIDE DEF s
<1>4. IsSequence(s) /\ DOMAIN s = 1..(k + 1) /\ s # <<>>
  <2>1. s = [n \in 1..Len(s) |-> s[n]]
    BY <1>3
  <2> QED
    BY <1>3, <2>1 DEF IsSequence
<1>5. StopOf(s) = k + 1
  <2>1. Stop.token = "stop"
    BY DEF Stop
  <2>2. \A n \in 1..k : s[n].token # "stop"
    BY <1>1, <1>3
  <2>3. \A n \in DOMAIN s :
          (s[n].token = "stop" /\ \A m \in 1..(n - 1) : s[m].token # "stop") <=> n = k + 1
    BY <2>1, <2>2, <1>3, <1>4
  <2> QED
    BY <2>3, <1>4 DEF StopOf
<1>6. AfterStruct(s) = <<>>
  BY <1>3, <1>5 DEF AfterStruct
<1>7. FieldsOf(s) = fields
  <2>1. FieldsOf(s) = SubSeq(s, 1, k)
    BY <1>5 DEF FieldsOf
  <2>2. SubSeq(s, 1, k) = fields
    BY <1>1, <1>3
  <2> QED
    BY <2>1, <2>2
<1> QED
  BY <1>3, <1>4, <1>6, <1>7 DEF s

(***************************************************************************)
(* What begins, goes on with fields and stops is one whole message.        *)
(***************************************************************************)
Message(s, begin, fields) == s = <<begin>> \o fields \o <<Stop>>

ReadsAs(s, begin, fields) ==
  /\ IsSequence(s) /\ s # <<>> /\ Len(s) = Len(fields) + 2
  /\ Head(s) = begin /\ s[1] = begin
  /\ \A n \in 1..Len(fields) : s[n + 1] = fields[n]
  /\ FieldsOf(Tail(s)) = fields /\ AfterStruct(Tail(s)) = <<>>
  /\ Whole(s) /\ Messages(s) = 1

LEMMA OneMessage ==
  ASSUME NEW begin, begin.token = "begin", NEW fields, IsSequence(fields),
         \A n \in DOMAIN fields : fields[n].token = "field",
         NEW s, Message(s, begin, fields)
  PROVE  ReadsAs(s, begin, fields)
<1> DEFINE t == fields \o <<Stop>>
           T == Range(t) \cup {begin}
<1>1. /\ IsSequence(t) /\ Len(t) = Len(fields) + 1
      /\ \A n \in 1..Len(fields) : t[n] = fields[n]
      /\ t[Len(t)] = Stop
      /\ FieldsOf(t) = fields /\ AfterStruct(t) = <<>>
  BY Closing
<1> PICK k \in Nat : k = Len(fields)
  BY DEF IsSequence
<1>2. DOMAIN fields = 1..k /\ fields \in Seq(Range(fields))
  <2>1. fields = [n \in 1..k |-> fields[n]]
    BY DEF IsSequence
  <2>2. \A n \in 1..k : fields[n] \in Range(fields)
    BY <2>1 DEF Range
  <2> QED
    BY <2>1, <2>2
<1>3. s = <<begin>> \o t
  <2> DEFINE U == Range(fields) \cup {begin, Stop}
  <2>1. fields \in Seq(U) /\ <<begin>> \in Seq(U) /\ <<Stop>> \in Seq(U)
    <3>1. Range(fields) \subseteq U
      OBVIOUS
    <3> QED
      BY <3>1, <1>2
  <2> HIDE DEF U
  <2> QED
    BY <2>1, ConcatAssociative DEF Message
<1> HIDE DEF t
<1>4. t \in Seq(T) /\ <<begin>> \in Seq(T) /\ Len(t) = k + 1
  <2>0. begin \in T /\ Len(t) = k + 1
    BY <1>1
  <2>3. <<begin>> \in Seq(T)
    BY <2>0
  <2>1. t = [n \in 1..(k + 1) |-> t[n]]
    BY <1>1 DEF IsSequence
  <2>2. \A n \in 1..(k + 1) : t[n] \in T
    BY <2>1 DEF Range
  <2> HIDE DEF T
  <2> PICK j \in Nat : j = k + 1
    OBVIOUS
  <2>4. t \in Seq(T)
    BY <2>1, <2>2, SequenceIn
  <2> QED
    BY <2>0, <2>3, <2>4
<1> HIDE DEF T
<1>5. /\ s \in Seq(T) /\ Len(s) = k + 2 /\ s[1] = begin
      /\ \A n \in 1..(k + 1) : s[n + 1] = t[n]
  BY <1>3, <1>4
<1>6. Tail(s) = t /\ Head(s) = begin
  BY <1>3, <1>4, <1>5
<1>7. IsSequence(s) /\ DOMAIN s = 1..(k + 2) /\ s # <<>>
  <2>1. s = [n \in 1..Len(s) |-> s[n]]
    BY <1>5
  <2> QED
    BY <1>5, <2>1 DEF IsSequence
<1>8. s[Len(s)].token = "stop"
  BY <1>5, <1>1, <1>4 DEF Stop
<1>9. \A n \in 1..k : s[n + 1] = fields[n]
  BY <1>1, <1>5
<1>10. Messages(s) = 1
  <2>1. \A n \in DOMAIN s : s[n].token = "begin" <=> n = 1
    <3> SUFFICES ASSUME NEW n \in 2..(k + 2) PROVE s[n].token # "begin"
      BY <1>7, <1>5
    <3>1. CASE n = k + 2
      BY <3>1, <1>5, <1>8
    <3>2. CASE n # k + 2
      <4>1. n - 1 \in 1..k /\ n = (n - 1) + 1
        BY <3>2
      <4> QED
        BY <4>1, <1>9, <1>2
    <3> QED
      BY <3>1, <3>2
  <2>2. {n \in DOMAIN s : s[n].token = "begin"} = {1}
    BY <2>1, <1>7
  <2> QED
    BY <2>2, FS_Singleton DEF Messages
<1>11. Whole(s)
  BY <1>5, <1>6, <1>8 DEF Whole
<1> QED
  BY <1>1, <1>5, <1>6, <1>7, <1>9, <1>10, <1>11 DEF ReadsAs

LEMMA NoMessage == Messages(<<>>) = 0 /\ Whole(<<>>) /\ IsSequence(<<>>)
<1>1. {n \in DOMAIN <<>> : <<>>[n].token = "begin"} = {}
  OBVIOUS
<1>2. <<>> = [n \in 1..Len(<<>>) |-> <<>>[n]]
  OBVIOUS
<1> QED
  BY <1>1, <1>2, FS_EmptySet DEF Messages, Whole, IsSequence

(***************************************************************************)
(* The struct of a result, and of an exception, has one field.             *)
(***************************************************************************)
LEMMA OneField ==
  ASSUME NEW f, f.token = "field"
  PROVE  IsSequence(<<f>>) /\ Len(<<f>>) = 1 /\ \A n \in DOMAIN <<f>> : <<f>>[n].token = "field"
<1>1. <<f>> = [n \in 1..Len(<<f>>) |-> <<f>>[n]]
  OBVIOUS
<1> QED
  BY <1>1 DEF IsSequence

ResultId(m) == ResultOf(m)[1]

LEMMA ResultHasOne ==
  ASSUME NEW m \in processMap_
  PROVE  \E type : ResultOf(m) = <<[id |-> 0, type |-> type]>>
<1>1. CASE m = "ping"
  BY <1>1 DEF ResultOf, ping_result
<1>2. CASE m = "findMatches"
  BY <1>2 DEF ResultOf, findMatches_result
<1>3. CASE m = "registerService"
  BY <1>3 DEF ResultOf, registerService_result
<1>4. CASE m = "deregisterService"
  BY <1>4 DEF ResultOf, deregisterService_result
<1> QED
  BY <1>1, <1>2, <1>3, <1>4 DEF processMap_

(***************************************************************************)
(* What a client makes of a reply to its call.                             *)
(***************************************************************************)
LEMMA ReplyRead ==
  ASSUME NEW m \in processMap_, NEW v
  PROVE  LET s == Reply(m, 0, v)
         IN  /\ s # <<>> /\ IsSequence(s) /\ Len(s) = 3 /\ Head(s).name = m /\ s[2].value = v
             /\ AfterStruct(Tail(s)) = <<>> /\ Whole(s) /\ Messages(s) = 1
             /\ Recv(m, s) = Returned(v)
<1> DEFINE s == Reply(m, 0, v)
<1>1. PICK type : ResultOf(m) = <<[id |-> 0, type |-> type]>>
  BY ResultHasOne
<1> DEFINE f == Field([id |-> 0, type |-> type], v)
           b == Begin(m, "reply", 0)
<1>2. Write(ResultOf(m), <<v>>) = <<f>>
  BY <1>1 DEF Write
<1>3. f.token = "field" /\ f.id = 0 /\ f.type = type /\ f.value = v
  BY DEF Field
<1>4. b.token = "begin" /\ b.name = m /\ b.type = "reply"
  BY DEF Begin
<1>5. Message(s, b, <<f>>)
  BY <1>2 DEF Message, Reply
<1> HIDE DEF f, b, s
<1>g. PICK g : g = <<f>>
  OBVIOUS
<1>6. IsSequence(g) /\ Len(g) = 1 /\ \A n \in DOMAIN g : g[n].token = "field"
  BY <1>3, <1>g, OneField
<1>7. ReadsAs(s, b, g)
  BY <1>4, <1>5, <1>6, <1>g, OneMessage
<1>8. s[2] = f
  BY <1>6, <1>7, <1>g DEF ReadsAs
<1>9. /\ Read(ResultOf(m), g)[1].isset
      /\ Read(ResultOf(m), g)[1].value = v
  <2> DEFINE hits == {n \in DOMAIN g : g[n].id = ResultOf(m)[1].id
                                             /\ g[n].type = ResultOf(m)[1].type}
  <2>1. hits = {1}
    BY <1>1, <1>3, <1>g
  <2>0. 1 \in DOMAIN ResultOf(m)
    BY <1>1
  <2>2. Read(ResultOf(m), g)[1] =
          [isset |-> hits # {},
           value |-> IF hits = {} THEN Unset(ResultOf(m)[1].type)
                     ELSE g[CHOOSE n \in hits : \A k \in hits : k <= n].value]
    BY <2>0, Zenon DEF Read
  <2> HIDE DEF hits
  <2>3. (CHOOSE n \in hits : \A k \in hits : k <= n) = 1
    BY <2>1
  <2>4. hits # {} /\ g[1].value = v
    BY <2>1, <1>3, <1>g
  <2> DEFINE x == IF hits = {} THEN Unset(ResultOf(m)[1].type)
                  ELSE g[CHOOSE n \in hits : \A k \in hits : k <= n].value
  <2>7. x = v
    BY <2>3, <2>4
  <2> HIDE DEF x
  <2> PICK w : w = Read(ResultOf(m), g)[1]
    OBVIOUS
  <2>8. w = [isset |-> hits # {}, value |-> x]
    BY <2>2, Zenon DEF x
  <2>10. (hits # {}) = TRUE
    BY <2>4
  <2>9. w = [isset |-> TRUE, value |-> x]
    BY <2>8, <2>10, Zenon
  <2>5. Read(ResultOf(m), g)[1].isset
    BY <2>9
  <2>6. Read(ResultOf(m), g)[1].value = v
    BY <2>9, <2>7
  <2> QED
    BY <2>5, <2>6
<1>10. Recv(m, s) = Returned(v)
  BY <1>4, <1>7, <1>9 DEF Recv, Returned, ReadsAs
<1> QED
  BY <1>3, <1>4, <1>6, <1>7, <1>8, <1>10, <1>g DEF s, ReadsAs

LEMMA ExceptionRead ==
  ASSUME NEW m, NEW code
  PROVE  LET s == Exception(m, 0, code)
         IN  /\ s # <<>> /\ IsSequence(s) /\ Len(s) = 3 /\ Head(s).name = m /\ s[2].value = code
             /\ AfterStruct(Tail(s)) = <<>> /\ Whole(s) /\ Messages(s) = 1
             /\ Recv(m, s) = Thrown(code)
<1> DEFINE s == Exception(m, 0, code)
           f == Field(TApplicationException, code)
           b == Begin(m, "exception", 0)
<1>3. f.token = "field" /\ f.value = code
  BY DEF Field
<1>4. b.token = "begin" /\ b.name = m /\ b.type = "exception"
  BY DEF Begin
<1>5. Message(s, b, <<f>>)
  BY DEF Message, Exception
<1> HIDE DEF f, b, s
<1>g. PICK g : g = <<f>>
  OBVIOUS
<1>6. IsSequence(g) /\ Len(g) = 1 /\ \A n \in DOMAIN g : g[n].token = "field"
  BY <1>3, <1>g, OneField
<1>7. ReadsAs(s, b, g)
  BY <1>4, <1>5, <1>6, <1>g, OneMessage
<1>8. s[2] = f
  BY <1>6, <1>7, <1>g DEF ReadsAs
<1>10. Recv(m, s) = Thrown(code)
  BY <1>3, <1>4, <1>7, <1>8 DEF Recv, ReadsAs
<1> QED
  BY <1>3, <1>4, <1>6, <1>7, <1>8, <1>10, <1>g DEF s, ReadsAs

(***************************************************************************)
(* The call of a caller, and that of a delegator.                          *)
(***************************************************************************)
LEMMA CallRead ==
  ASSUME NEW r \in Request
  PROVE  LET s == Call(r.method, r.fields)
         IN  /\ s # <<>> /\ IsSequence(s) /\ Head(s).name = r.method /\ Head(s).seqid = 0
             /\ FieldsOf(Tail(s)) = r.fields /\ AfterStruct(Tail(s)) = <<>>
             /\ Whole(s) /\ Messages(s) = 1
<1> DEFINE s == Call(r.method, r.fields)
           b == Begin(r.method, "call", 0)
<1>1. b.token = "begin" /\ b.name = r.method /\ b.seqid = 0
  BY DEF Begin
<1>2. Message(s, b, r.fields)
  BY DEF Message, Call
<1>3. IsSequence(r.fields) /\ \A n \in DOMAIN r.fields : r.fields[n].token = "field"
  BY RequestAssumption
<1> HIDE DEF b, s
<1>7. ReadsAs(s, b, r.fields)
  BY <1>1, <1>2, <1>3, OneMessage
<1> QED
  BY <1>1, <1>7 DEF s, ReadsAs

LEMMA KeyCallRead ==
  ASSUME NEW key
  PROVE  LET s == KeyCall(key)
         IN  /\ s # <<>> /\ IsSequence(s) /\ Head(s).name = "findMatches" /\ Head(s).seqid = 0
             /\ Read(findMatches_args, FieldsOf(Tail(s)))[1].value = key
             /\ AfterStruct(Tail(s)) = <<>>
             /\ Whole(s) /\ Messages(s) = 1
<1> DEFINE s == KeyCall(key)
           b == Begin("findMatches", "call", 0)
           f == Field([id |-> 1, type |-> "string"], key)
<1>1. b.token = "begin" /\ b.name = "findMatches" /\ b.seqid = 0
  BY DEF Begin
<1>2. f.token = "field" /\ f.id = 1 /\ f.type = "string" /\ f.value = key
  BY DEF Field
<1>3. Write(findMatches_args, <<key>>) = <<f>>
  BY DEF Write, findMatches_args
<1>4. Message(s, b, <<f>>)
  BY <1>3 DEF Message, Call, KeyCall
<1> HIDE DEF b, f, s
<1>6. IsSequence(<<f>>) /\ Len(<<f>>) = 1 /\ \A n \in DOMAIN <<f>> : <<f>>[n].token = "field"
  BY <1>2, OneField
<1>7. ReadsAs(s, b, <<f>>)
  BY <1>1, <1>4, <1>6, OneMessage
<1>9. Read(findMatches_args, <<f>>)[1].value = key
  <2> DEFINE hits == {n \in DOMAIN <<f>> : <<f>>[n].id = findMatches_args[1].id
                                             /\ <<f>>[n].type = findMatches_args[1].type}
  <2>1. hits = {1}
    BY <1>2 DEF findMatches_args
  <2>2. Read(findMatches_args, <<f>>)[1] =
          [isset |-> hits # {},
           value |-> IF hits = {} THEN Unset(findMatches_args[1].type)
                     ELSE <<f>>[CHOOSE n \in hits : \A k \in hits : k <= n].value]
    BY DEF Read, findMatches_args
  <2> HIDE DEF hits
  <2>3. (CHOOSE n \in hits : \A k \in hits : k <= n) = 1
    BY <2>1
  <2> QED
    BY <2>1, <2>2, <2>3, <1>2
<1> QED
  BY <1>1, <1>7, <1>9 DEF s, ReadsAs

(***************************************************************************)
(* Whole messages behind one another are whole messages.                   *)
(***************************************************************************)
LEMMA WholeBehind ==
  ASSUME NEW s, NEW t, IsSequence(s), IsSequence(t), Whole(s), Whole(t)
  PROVE  IsSequence(s \o t) /\ Whole(s \o t)
<1> DEFINE T == Range(s) \cup Range(t)
<1> PICK j \in Nat, k \in Nat : j = Len(s) /\ k = Len(t)
  BY DEF IsSequence
<1>1. s = [n \in 1..j |-> s[n]] /\ t = [n \in 1..k |-> t[n]]
  BY DEF IsSequence
<1>2. (\A n \in 1..j : s[n] \in T) /\ \A n \in 1..k : t[n] \in T
  <2>1. (\A n \in 1..j : s[n] \in Range(s)) /\ \A n \in 1..k : t[n] \in Range(t)
    BY <1>1 DEF Range
  <2> QED
    BY <2>1
<1> HIDE DEF T
<1>3. s \in Seq(T) /\ t \in Seq(T)
  BY <1>1, <1>2, SequenceIn
<1> PICK u : u = s \o t
  OBVIOUS
<1>4. /\ u \in Seq(T) /\ Len(u) = j + k
      /\ \A n \in 1..j : u[n] = s[n]
      /\ \A n \in 1..k : u[j + n] = t[n]
  BY <1>3
<1>5. IsSequence(u)
  BY <1>4, SequenceOut
<1>6. Whole(u)
  <2> SUFFICES ASSUME u # <<>> PROVE Head(u).token = "begin" /\ u[Len(u)].token = "stop"
    BY DEF Whole
  <2>1. CASE t = <<>>
    <3>1. k = 0 /\ u = s
      BY <2>1, <1>3
    <3> QED
      BY <3>1 DEF Whole
  <2>2. CASE s = <<>> /\ t # <<>>
    <3>1. u = t
      BY <2>2, <1>3
    <3> QED
      BY <3>1 DEF Whole
  <2>3. CASE s # <<>> /\ t # <<>>
    <3>1. j > 0 /\ k > 0
      BY <2>3, <1>3
    <3>2. Head(u) = Head(s)
      BY <3>1, <1>3, <1>4, <2>3
    <3>3. u[Len(u)] = t[Len(t)]
      BY <3>1, <1>4
    <3> QED
      BY <2>3, <3>2, <3>3 DEF Whole
  <2> QED
    BY <2>1, <2>2, <2>3
<1> QED
  BY <1>5, <1>6

(***************************************************************************)
(* The addresses that are registered.                                      *)
(***************************************************************************)
LEMMA RegisteredAddress ==
  ASSUME NEW r \in Request, r.method = "registerService"
  PROVE  AddressIn(Read(registerService_args, r.fields)) \in Address
BY DEF Address

(***************************************************************************)
(* Without takes one address out of a list.                                *)
(***************************************************************************)
LEMMA WithoutSound ==
  ASSUME NEW A, NEW hosts \in Seq(A), Injective(hosts), NEW a
  PROVE  Without(hosts, a) \in Seq(A) /\ Injective(Without(hosts, a))
<1> DEFINE s == [n \in DOMAIN hosts |-> IF hosts[n] = a THEN <<>> ELSE <<hosts[n]>>]
           t == FlattenSeq(s)
<1> PICK k \in Nat : k = Len(hosts)
  OBVIOUS
<1>1. s \in Seq(Seq(A)) /\ Len(s) = k /\ \A n \in 1..Len(s) : Len(s[n]) <= 1
  <2>1. s \in [1..k -> Seq(A)]
    OBVIOUS
  <2>2. \A n \in 1..k : Len(s[n]) <= 1
    OBVIOUS
  <2> HIDE DEF s
  <2>3. s \in Seq(Seq(A)) /\ Len(s) = k
    BY <2>1
  <2> QED
    BY <2>2, <2>3
<1>2. \A n \in 1..k : \A x : s[n] = <<x>> => hosts[n] = x
  <2> SUFFICES ASSUME NEW n \in 1..k, NEW x, s[n] = <<x>> PROVE hosts[n] = x
    OBVIOUS
  <2>1. s[n] = IF hosts[n] = a THEN <<>> ELSE <<hosts[n]>>
    OBVIOUS
  <2> HIDE DEF s
  <2>2. <<x>> # <<>> /\ (<<x>> = <<hosts[n]>> => x = hosts[n])
    OBVIOUS
  <2> QED
    BY <2>1, <2>2
<1>3. t \in Seq(A)
  <2> HIDE DEF s
  <2> QED
    BY <1>1, FlattenSeqType
<1>4. PICK of : IsOrigin(of, s, t)
  <2> HIDE DEF s
  <2> QED
    BY <1>1, FlattenOrigin
<1> HIDE DEF s, t
<1>5. Injective(t)
  <2> SUFFICES ASSUME NEW m \in DOMAIN t, NEW n \in DOMAIN t, t[m] = t[n] PROVE m = n
    BY DEF Injective
  <2> PICK j \in Nat : j = Len(t)
    BY <1>3
  <2>1. DOMAIN t = 1..j /\ DOMAIN hosts = 1..k /\ Len(s) = k
    BY <1>1, <1>3
  <2>2. /\ of \in [1..j -> 1..k]
        /\ \A i \in 1..j : s[of[i]] = <<t[i]>>
        /\ \A i, q \in 1..j : i < q => of[i] < of[q]
    BY <1>4, <2>1 DEF IsOrigin
  <2>3. of[m] \in 1..k /\ of[n] \in 1..k
    BY <2>1, <2>2
  <2>4. s[of[m]] = <<t[m]>> /\ s[of[n]] = <<t[n]>>
    BY <2>1, <2>2
  <2>5. hosts[of[m]] = t[m] /\ hosts[of[n]] = t[n]
    BY <2>3, <2>4, <1>2
  <2>6. of[m] = of[n]
    BY <2>1, <2>3, <2>5 DEF Injective
  <2>7. m \in 1..j /\ n \in 1..j /\ ~(m < n) /\ ~(n < m)
    BY <2>1, <2>2, <2>3, <2>6
  <2> QED
    BY <2>7
<1> QED
  BY <1>3, <1>5 DEF Without, s, t

(***************************************************************************)
(* Nothing, however often, is nothing.                                     *)
(***************************************************************************)
LEMMA FlattenNothing ==
  ASSUME NEW k \in Nat, NEW s, s = [n \in 1..k |-> <<>>]
  PROVE  FlattenSeq(s) = <<>>
<1>1. s \in Seq(Seq({})) /\ Len(s) = k
  <2>1. s \in [1..k -> Seq({})]
    OBVIOUS
  <2> QED
    BY <2>1
<1>2. FlattenSeq(s) \in Seq({})
  BY <1>1, FlattenSeqType
<1> PICK t : t = FlattenSeq(s)
  OBVIOUS
<1>3. t \in Seq({})
  BY <1>2
<1>4. Len(t) = 0
  BY <1>3
<1> QED
  BY <1>3, <1>4

-----------------------------------------------------------------------------
(* Processes and connections *)

LEMMA LinkFacts ==
  /\ Caller \subseteq Link /\ Container \subseteq Link
  /\ \A l \in Link : l \in Container <=> l \notin Caller
BY CallerAssumption DEF Link

LEMMA OneListens ==
  ASSUME AddressesDistinct, NEW a, NEW p \in Listening(a), NEW q \in Listening(a)
  PROVE  p = q
BY DEF AddressesDistinct, Listening

LEMMA ServerListens ==
  ASSUME NEW l, Listening(conn[l].to) # {}
  PROVE  Server(l) \in Process /\ Server(l) \in Listening(conn[l].to)
<1>1. Listening(conn[l].to) \subseteq Process
  BY DEF Listening
<1>2. \E p \in Process : p \in Listening(conn[l].to)
  BY <1>1
<1> QED
  BY <1>2 DEF Server

(***************************************************************************)
(* With start_server, a container is used by one delegator.                *)
(***************************************************************************)
LEMMA BusyServed ==
  ASSUME Shapes, TaskSound, ConnSound, NEW l \in Link, NEW n \in DOMAIN task[l].state
  PROVE  /\ task[l].busy /\ conn[l].stage = "served"
         /\ Server(l) \in Process /\ Server(l) \in Listening(conn[l].to)
         /\ n \in DOMAIN task[l].hosts /\ task[l].hosts[n] \in Address
         /\ Host(l, n) \in Container /\ Host(l, n)[2] = task[l].hosts[n]
<1>1. task[l].busy
  BY DEF TaskSound, TaskOK
<1>2. /\ conn[l].stage = "served" /\ task[l].hosts \in Seq(Address)
      /\ DOMAIN task[l].state = DOMAIN task[l].hosts
  BY <1>1 DEF TaskSound, TaskOK
<1>3. Listening(conn[l].to) # {}
  BY <1>2 DEF ConnSound, ConnOK
<1>4. Server(l) \in Process /\ Server(l) \in Listening(conn[l].to)
  BY <1>3, ServerListens
<1>5. task[l].hosts[n] \in Address
  BY <1>2
<1> QED
  BY <1>1, <1>2, <1>4, <1>5 DEF Host, Container

LEMMA OneDelegator ==
  ASSUME Shapes, TaskSound, ConnSound, OneServed, build = "simple",
         NEW j \in Link, NEW m \in DOMAIN task[j].state,
         NEW l \in Link, NEW n \in DOMAIN task[l].state, Host(j, m) = Host(l, n)
  PROVE  j = l /\ m = n
<1>1. /\ conn[j].stage = "served" /\ Server(j) \in Listening(conn[j].to)
      /\ task[j].busy /\ m \in DOMAIN task[j].hosts
  BY BusyServed
<1>2. /\ conn[l].stage = "served" /\ Server(l) \in Listening(conn[l].to)
      /\ task[l].busy /\ n \in DOMAIN task[l].hosts
  BY BusyServed
<1>3. Server(j) = Server(l) /\ task[j].hosts[m] = task[l].hosts[n]
  BY DEF Host
<1>4. conn[j].to = conn[l].to
  BY <1>1, <1>2, <1>3 DEF Listening
<1>5. j = l
  BY <1>1, <1>2, <1>4 DEF OneServed
<1>6. m = n
  BY <1>1, <1>2, <1>3, <1>5 DEF TaskSound, TaskOK, Injective
<1> QED
  BY <1>5, <1>6

(***************************************************************************)
(* What no step takes back: a process that listens, what it is and what it *)
(* has read; that there was an exception.                                  *)
(***************************************************************************)
Settled ==
  /\ build' = build /\ (failures > 0 => failures' > 0)
  /\ \A a : Listening(a) # {} => Listening(a)' = Listening(a)
  /\ \A p \in Process : proc[p].state = "up" =>
       /\ proc'[p].type = proc[p].type /\ proc'[p].addr = proc[p].addr
       /\ proc'[p].data = proc[p].data

LEMMA StillExcused ==
  ASSUME Settled, NEW a, Excused(a)
  PROVE  Excused(a)'
<1>1. CASE failures > 0
  BY <1>1 DEF Settled, Excused
<1>2. CASE \E p \in Listening(a) : ~IsSlave(p)
  <2>1. PICK p \in Listening(a) : ~IsSlave(p)
    BY <1>2
  <2>2. p \in Listening(a)' /\ p \in Process /\ proc[p].state = "up"
    BY DEF Settled, Listening
  <2>3. proc'[p].type = proc[p].type
    BY <2>2 DEF Settled
  <2>4. ~IsSlave(p)'
    BY <2>1, <2>3 DEF IsSlave
  <2> QED
    BY <2>2, <2>4 DEF Excused
<1> QED
  BY <1>1, <1>2 DEF Excused

LEMMA StillRow ==
  ASSUME Settled, NEW a, Listening(a) # {}, NEW key
  PROVE  RowOf(a, key)' = RowOf(a, key)
<1>1. Listening(a)' = Listening(a)
  BY DEF Settled
<1>2. \A p \in Listening(a) : proc'[p].data = proc[p].data
  BY DEF Settled, Listening
<1>3. (\E p \in Listening(a)' : proc'[p].data) <=> \E p \in Listening(a) : proc[p].data
  BY <1>1, <1>2
<1> QED
  BY <1>3 DEF RowOf, Row

LEMMA StillBrought ==
  ASSUME Settled, NEW a, NEW key, NEW there, NEW v, Brought(a, key, there, v)
  PROVE  Brought(a, key, there, v)'
<1>0. build' = build
  BY DEF Settled
<1>1. CASE build = "http"
  BY <1>0, <1>1 DEF Brought
<1>2. CASE build # "http" /\ Excused(a)
  BY <1>0, <1>2, StillExcused DEF Brought
<1>3. CASE build # "http" /\ Listening(a) # {} /\ v = RowOf(a, key)
  <2>1. RowOf(a, key)' = RowOf(a, key) /\ Listening(a)' # {}
    BY <1>3, StillRow DEF Settled
  <2> QED
    BY <1>0, <1>3, <2>1 DEF Brought
<1>4. CASE build # "http" /\ a \notin there /\ v = <<>>
  BY <1>0, <1>4 DEF Brought
<1> QED
  BY <1>1, <1>2, <1>3, <1>4 DEF Brought

(***************************************************************************)
(* A connection that leads where it led has the server that it had.        *)
(***************************************************************************)
LEMMA StillServer ==
  ASSUME Settled, NEW l, conn'[l].to = conn[l].to, Listening(conn[l].to) # {}
  PROVE  Server(l)' = Server(l)
<1> PICK a : a = conn[l].to
  OBVIOUS
<1>1. Listening(a)' = Listening(a)
  BY DEF Settled
<1>2. Listening(conn[l].to)' = Listening(a)'
  BY DEF Listening
<1>3. Listening(conn[l].to)' = Listening(conn[l].to)
  BY <1>1, <1>2
<1> QED
  BY <1>3 DEF Server

LEMMA StillUnderstood ==
  ASSUME Settled, NEW l
  PROVE  Understood(l)' <=> Understood(l)
BY DEF Settled, Understood

LEMMA ConnStill ==
  ASSUME Settled, NEW l, ConnOK(l), conn'[l].stage = conn[l].stage, conn'[l].to = conn[l].to
  PROVE  ConnOK(l)'
<1> PICK a : a = conn[l].to
  OBVIOUS
<1>1. Listening(a) # {} => Listening(a)' # {}
  BY DEF Settled
<1>2. Listening(conn[l].to)' = Listening(a)'
  BY DEF Listening
<1>3. Understood(l)' <=> Understood(l)
  BY StillUnderstood
<1> QED
  BY <1>1, <1>2, <1>3 DEF ConnOK

LEMMA TaskStill ==
  ASSUME Settled, NEW l, ConnOK(l), TaskOK(l), task'[l] = task[l],
         conn'[l].stage = conn[l].stage, conn'[l].to = conn[l].to
  PROVE  TaskOK(l)'
<1>1. CASE ~task[l].busy
  BY <1>1 DEF TaskOK
<1>2. CASE task[l].busy
  <2>1. conn[l].stage = "served" /\ Listening(conn[l].to) # {}
    BY <1>2 DEF TaskOK, ConnOK
  <2>2. Server(l)' = Server(l) /\ Server(l) \in Process /\ Server(l) \in Listening(conn[l].to)
    BY <2>1, StillServer, ServerListens
  <2>3. ~IsSlave(Server(l))'
    <3> PICK p : p = Server(l)
      OBVIOUS
    <3>1. proc'[p].type = proc[p].type
      BY <2>2 DEF Settled, Listening
    <3>2. ~IsSlave(p)
      BY <1>2 DEF TaskOK
    <3> QED
      BY <2>2, <3>1, <3>2 DEF IsSlave
  <2>4. Understood(l)'
    BY <1>2, StillUnderstood DEF TaskOK
  <2>5. \A a \in task[l].there : Listening(a)' # {}
    BY <1>2 DEF TaskOK, Settled
  <2> QED
    BY <1>2, <2>1, <2>3, <2>4, <2>5 DEF TaskOK
<1> QED
  BY <1>1, <1>2

LEMMA MatchesStill ==
  ASSUME Settled, NEW l, MatchesOK(l), task'[l] = task[l]
  PROVE  MatchesOK(l)'
<1> SUFFICES ASSUME NEW n \in DOMAIN task[l].state
             PROVE  IF task[l].state[n] \in {"got", "done"}
                    THEN Brought(task[l].hosts[n], task[l].key, task[l].there, task[l].matches[n])'
                    ELSE task[l].matches[n] = <<>>
  BY DEF MatchesOK
<1> PICK a, key, there, v :
      a = task[l].hosts[n] /\ key = task[l].key /\ there = task[l].there /\ v = task[l].matches[n]
  OBVIOUS
<1>1. Brought(task[l].hosts[n], task[l].key, task[l].there, task[l].matches[n])'
        <=> Brought(a, key, there, v)'
  BY DEF Brought, Excused, RowOf, Listening
<1>2. Brought(a, key, there, v) => Brought(a, key, there, v)'
  BY StillBrought
<1> QED
  BY <1>1, <1>2 DEF MatchesOK

LEMMA StillRows ==
  ASSUME Settled, NEW answered, NEW key, NEW hosts,
         \A n \in DOMAIN hosts : hosts[n] \in answered => Listening(hosts[n]) # {}
  PROVE  RowsOf(answered, key, hosts)' = RowsOf(answered, key, hosts)
<1>1. \A n \in DOMAIN hosts : hosts[n] \in answered => RowOf(hosts[n], key)' = RowOf(hosts[n], key)
  BY StillRow
<1>2. [n \in DOMAIN hosts |-> IF hosts[n] \in answered THEN RowOf(hosts[n], key)' ELSE <<>>]
        = [n \in DOMAIN hosts |-> IF hosts[n] \in answered THEN RowOf(hosts[n], key) ELSE <<>>]
  BY <1>1
<1> QED
  BY <1>2 DEF RowsOf

LEMMA StillAnswered ==
  ASSUME Settled, NEW m, Answered(m)
  PROVE  Answered(m)'
<1>0. build' = build
  BY DEF Settled
<1>1. CASE build = "http"
  BY <1>0, <1>1 DEF Answered
<1>2. CASE build # "http" /\ \E n \in DOMAIN m.hosts : Excused(m.hosts[n])
  <2>1. PICK n \in DOMAIN m.hosts : Excused(m.hosts[n])
    BY <1>2
  <2>2. Excused(m.hosts[n])'
    <3> PICK a : a = m.hosts[n]
      OBVIOUS
    <3>1. Excused(a)'
      BY <2>1, StillExcused
    <3> QED
      BY <3>1
  <2> QED
    BY <1>0, <1>2, <2>2 DEF Answered
<1>3. CASE build # "http" /\ \E late \in SUBSET Address :
            /\ m.answer = Reply("findMatches", 0, RowsOf(m.there \cup late, m.key, m.hosts))
            /\ \A n \in DOMAIN m.hosts : m.hosts[n] \in m.there \cup late => Listening(m.hosts[n]) # {}
  <2>1. PICK late \in SUBSET Address :
            /\ m.answer = Reply("findMatches", 0, RowsOf(m.there \cup late, m.key, m.hosts))
            /\ \A n \in DOMAIN m.hosts : m.hosts[n] \in m.there \cup late => Listening(m.hosts[n]) # {}
    BY <1>3
  <2> PICK answered, key, hosts : answered = m.there \cup late /\ key = m.key /\ hosts = m.hosts
    OBVIOUS
  <2>2. \A n \in DOMAIN hosts : hosts[n] \in answered => Listening(hosts[n]) # {}
    BY <2>1
  <2>3. RowsOf(answered, key, hosts)' = RowsOf(answered, key, hosts)
    BY <2>2, StillRows
  <2>4. \A n \in DOMAIN hosts : hosts[n] \in answered => Listening(hosts[n])' # {}
    BY <2>2 DEF Settled
  <2>5. m.answer = Reply("findMatches", 0, RowsOf(answered, key, hosts)')
    BY <2>1, <2>3
  <2> QED
    BY <1>0, <1>3, <2>4, <2>5 DEF Answered
<1> QED
  BY <1>1, <1>2, <1>3 DEF Answered

LEMMA MadeStill ==
  ASSUME Settled, NEW l, MadeOK(l), made'[l] = made[l]
  PROVE  MadeOK(l)'
<1> PICK m : m = made[l]
  OBVIOUS
<1>1. Answered(m) => Answered(m)'
  BY StillAnswered
<1>2. Answered(made[l])' <=> Answered(m)'
  BY DEF Answered
<1> QED
  BY <1>1, <1>2 DEF MadeOK

LEMMA CallerStill ==
  ASSUME NEW c, CallerOK(c), caller'[c] = caller[c], made'[c] = made[c],
         conn'[c].req = conn[c].req, conn'[c].rep = conn[c].rep, (task'[c].busy <=> task[c].busy)
  PROVE  CallerOK(c)'
BY DEF CallerOK, CallerWaits, GotOwn, Idle

LEMMA HttpStill ==
  ASSUME NEW k, HttpOK(k),
         conn'[k].req = conn[k].req, conn'[k].rep = conn[k].rep, (task'[k].busy <=> task[k].busy)
  PROVE  HttpOK(k)'
BY DEF HttpOK, Whole

LEMMA WaitsStill ==
  ASSUME Settled, NEW k, NEW key, DelegatorWaits(k, key), Listening(k[2]) # {},
         conn'[k].req = conn[k].req, conn'[k].rep = conn[k].rep, (task'[k].busy <=> task[k].busy)
  PROVE  DelegatorWaits(k, key)'
<1>1. ASSUME Fits(k, key) PROVE Fits(k, key)'
  <2> PICK a : a = k[2]
    OBVIOUS
  <2>1. Excused(a) => Excused(a)'
    BY StillExcused
  <2>2. RowOf(a, key)' = RowOf(a, key)
    BY StillRow
  <2>3. failures > 0 => failures' > 0
    BY DEF Settled
  <2> QED
    BY <1>1, <2>1, <2>2, <2>3 DEF Fits
<1> QED
  BY <1>1 DEF DelegatorWaits

(***************************************************************************)
(* A delegator whose task and connection are left alone.                   *)
(***************************************************************************)
HostStill(l) == task'[l] = task[l] /\ conn'[l].stage = conn[l].stage /\ conn'[l].to = conn[l].to

LEMMA StillHost ==
  ASSUME Shapes, TaskSound, ConnSound, Settled, NEW l \in Link, HostStill(l),
         NEW n \in DOMAIN task[l].state
  PROVE  Host(l, n)' = Host(l, n)
<1>1. Listening(conn[l].to) # {}
  BY BusyServed DEF ConnSound, ConnOK
<1>2. Server(l)' = Server(l)
  BY <1>1, StillServer DEF HostStill
<1> QED
  BY <1>2 DEF Host, HostStill

LEMMA StillSends ==
  ASSUME Shapes, TaskSound, ConnSound, Settled, NEW l \in Link, HostStill(l), NEW n, NEW k
  PROVE  Sends(l, n, k)' <=> Sends(l, n, k)
<1>1. CASE n \in DOMAIN task[l].state
  <2>1. Host(l, n)' = Host(l, n)
    BY <1>1, StillHost
  <2> QED
    BY <2>1 DEF Sends, HostStill
<1>2. CASE n \notin DOMAIN task[l].state
  BY <1>2 DEF Sends, HostStill
<1> QED
  BY <1>1, <1>2

Quiet(k) ==
  conn'[k].req = conn[k].req /\ conn'[k].rep = conn[k].rep /\ (task'[k].busy <=> task[k].busy)

LEMMA LineStill ==
  ASSUME Shapes, TaskSound, ConnSound, Settled, NEW l \in Link, HostStill(l),
         NEW n \in DOMAIN task[l].state, LineOK(l, n), NEW k, k = Host(l, n), Quiet(k),
         conn'[k].stage = conn[k].stage \/ conn'[k].stage \in {"queued", "served"}
  PROVE  LineOK(l, n)'
<1>1. Host(l, n)' = k
  BY StillHost
<1>2. k \in Container /\ k \in Link
  BY BusyServed, LinkFacts
<1>3. task'[l] = task[l]
  BY DEF HostStill
<1>4. task[l].state[n] \in {"open", "sent", "got"} => conn[k].stage \in {"queued", "served"}
  BY DEF LineOK
<1>5. ASSUME task[l].state[n] = "sent" PROVE DelegatorWaits(k, task[l].key)'
  <2>1. DelegatorWaits(k, task[l].key)
    BY <1>5 DEF LineOK
  <2>2. Listening(k[2]) # {}
    BY <1>2, <1>4, <1>5 DEF ConnSound, ConnOK
  <2> PICK key : key = task[l].key
    OBVIOUS
  <2>3. DelegatorWaits(k, key)'
    BY <2>1, <2>2, WaitsStill DEF Quiet
  <2> QED
    BY <2>3, <1>3
<1>6. LineOK(l, n)' <=>
        /\ task'[l].state[n] \in {"open", "sent", "got"} => conn'[k].stage \in {"queued", "served"}
        /\ task'[l].state[n] = "sent" => DelegatorWaits(k, task[l].key)'
  BY <1>1, <1>3 DEF LineOK
<1> QED
  BY <1>3, <1>4, <1>5, <1>6

(***************************************************************************)
(* A container that is left alone while nobody stops waiting for it.       *)
(***************************************************************************)
LEMMA FreeStill ==
  ASSUME NEW k, FreeOK(k), Quiet(k),
         \A l \in Link : \A n : Sends(l, n, k) => \E j \in Link : \E m : Sends(j, m, k)'
  PROVE  FreeOK(k)'
<1> SUFFICES ASSUME \A l \in Link : \A n \in DOMAIN task'[l].state : ~Sends(l, n, k)'
             PROVE  Idle(k)'
  BY DEF FreeOK
<1>1. \A l \in Link : \A n : ~Sends(l, n, k)'
  BY DEF Sends
<1>2. Idle(k)
  BY <1>1 DEF FreeOK
<1> QED
  BY <1>2 DEF Idle, Quiet

-----------------------------------------------------------------------------
(* Calls and their answers *)

(***************************************************************************)
(* A call that a processor has before it is that of a caller who waits, or *)
(* of a delegator that waits.                                              *)
(***************************************************************************)
AskedBy(l, m) ==
  IF l \in Caller
  THEN /\ caller[l].state = "waiting" /\ caller[l].method = m /\ made[l].times = 0
       /\ \E r \in Request : r.method = m /\ FieldsOf(Tail(conn[l].req)) = r.fields
  ELSE /\ l \in Container /\ build = "simple" /\ m = "findMatches"
       /\ \E j \in Link : \E n :
            /\ Sends(j, n, l)
            /\ Read(findMatches_args, FieldsOf(Tail(conn[l].req)))[1].value = task[j].key

LEMMA AskedOnce ==
  ASSUME ServiceInv, NEW l \in Link, NEW m, Asked(l, m)
  PROVE  /\ conn[l].stage = "served" /\ conn[l].rep = <<>> /\ ~task[l].busy
         /\ Server(l) \in Process /\ Server(l) \in Listening(conn[l].to)
         /\ Seqid(l) = 0 /\ AfterStruct(Tail(conn[l].req)) = <<>>
         /\ AskedBy(l, m)
<1>1. /\ conn[l].stage = "served" /\ conn[l].req # <<>> /\ ~task[l].busy
      /\ Head(conn[l].req).name = m /\ Understood(l)
  BY DEF Asked
<1>2. Server(l) \in Process /\ Server(l) \in Listening(conn[l].to)
  BY <1>1, ServerListens DEF ServiceInv, ConnSound, ConnOK
<1>3. CASE l \in Caller
  <2>1. CallerOK(l)
    BY <1>3 DEF ServiceInv, CallerSound
  <2>2. /\ caller[l].state = "waiting" /\ IsCall(conn[l].req, caller[l].method)
        /\ conn[l].rep = <<>> /\ made[l].times = 0
    BY <1>1, <2>1 DEF CallerOK, CallerWaits, Idle
  <2>3. PICK r \in Request : r.method = caller[l].method /\ conn[l].req = Call(r.method, r.fields)
    BY <2>2 DEF IsCall
  <2> PICK s : s = Call(r.method, r.fields)
    OBVIOUS
  <2>4. /\ Head(s).name = r.method /\ Head(s).seqid = 0
        /\ FieldsOf(Tail(s)) = r.fields /\ AfterStruct(Tail(s)) = <<>>
    BY CallRead
  <2> QED
    BY <1>1, <1>2, <1>3, <2>2, <2>3, <2>4 DEF AskedBy, Seqid
<1>4. CASE l \notin Caller
  <2>1. l \in Container /\ build = "simple"
    BY <1>1, <1>4, LinkFacts DEF Understood
  <2>2. FreeOK(l)
    BY <2>1 DEF ServiceInv, DelegatorsSound
  <2>3. PICK j, n : j \in Link /\ n \in DOMAIN task[j].state /\ Sends(j, n, l)
    BY <1>1, <2>2 DEF FreeOK, Idle
  <2>4. LineOK(j, n)
    BY <2>1, <2>3 DEF ServiceInv, DelegatorsSound
  <2>5. DelegatorWaits(l, task[j].key)
    BY <2>3, <2>4 DEF LineOK, Sends
  <2> PICK key : key = task[j].key
    OBVIOUS
  <2>6. conn[l].req = KeyCall(key) /\ conn[l].rep = <<>>
    BY <1>1, <2>5 DEF DelegatorWaits
  <2> PICK s : s = KeyCall(key)
    OBVIOUS
  <2>7. /\ Head(s).name = "findMatches" /\ Head(s).seqid = 0
        /\ Read(findMatches_args, FieldsOf(Tail(s)))[1].value = key
        /\ AfterStruct(Tail(s)) = <<>>
    BY KeyCallRead
  <2> QED
    BY <1>1, <1>2, <1>4, <2>1, <2>3, <2>6, <2>7 DEF AskedBy, Seqid
<1> QED
  BY <1>3, <1>4

(***************************************************************************)
(* A step of the server of connection l: it takes a call up, or answers.   *)
(***************************************************************************)
ServerStep(l) ==
  /\ conn'[l].stage = conn[l].stage /\ conn'[l].to = conn[l].to
  /\ \A k \in Link : k # l => conn'[k] = conn[k] /\ task'[k] = task[k] /\ made'[k] = made[k]
  /\ caller' = caller

WaitsNext(l, key) == DelegatorWaits(l, key)'

WaitedFor(l) ==
  /\ l \in Container /\ build = "simple"
  /\ \E j \in Link : \E n : Sends(j, n, l) /\ WaitsNext(l, task[j].key)

LEMMA ServerStepSound ==
  ASSUME ServiceInv, Settled, NEW l \in Link, ServerStep(l), TaskOK(l)', MatchesOK(l)',
         \A n \in DOMAIN task'[l].state : task'[l].state[n] = "new",
         IF l \in Caller THEN CallerOK(l)' ELSE WaitedFor(l),
         \A n, k : ~Sends(l, n, k)
  PROVE  /\ ConnSound' /\ OneServed' /\ TaskSound' /\ MatchesSound' /\ CallerSound'
         /\ DelegatorsSound' /\ HttpSound'
<1> USE DEF ServerStep
<1>0. build' = build
  BY DEF Settled
<1>1. \A k \in Link : conn'[k].stage = conn[k].stage /\ conn'[k].to = conn[k].to
  OBVIOUS
<1>2. ConnSound'
  BY <1>1, ConnStill DEF ServiceInv, ConnSound
<1>3. OneServed'
  BY <1>0, <1>1 DEF ServiceInv, OneServed
<1>4. TaskSound'
  <2>2. ASSUME NEW k \in Link, k # l PROVE TaskOK(k)'
    <3>1. task'[k] = task[k] /\ ConnOK(k) /\ TaskOK(k)
      BY <2>2 DEF ServiceInv, ConnSound, TaskSound
    <3> QED
      BY <1>1, <3>1, TaskStill
  <2> QED
    BY <2>2 DEF TaskSound
<1>5. MatchesSound'
  <2>2. ASSUME NEW k \in Link, k # l PROVE MatchesOK(k)'
    BY <2>2, MatchesStill DEF ServiceInv, MatchesSound
  <2> QED
    BY <2>2 DEF MatchesSound
<1>6. CallerSound'
  <2> SUFFICES ASSUME NEW c \in Caller PROVE CallerOK(c)'
    BY DEF CallerSound
  <2>0. c \in Link /\ CallerOK(c)
    BY LinkFacts DEF ServiceInv, CallerSound
  <2>1. CASE c # l
    BY <2>0, <2>1, CallerStill
  <2>2. CASE c = l
    BY <2>2
  <2> QED
    BY <2>1, <2>2
<1>7. DelegatorsSound'
  <2> SUFFICES ASSUME build = "simple"
               PROVE  /\ \A i \in Link : \A n \in DOMAIN task'[i].state : LineOK(i, n)'
                      /\ \A k \in Container : FreeOK(k)'
    BY <1>0 DEF DelegatorsSound
  <2>i. Shapes /\ TaskSound /\ ConnSound /\ OneServed
    BY DEF ServiceInv
  <2>1. ASSUME NEW i \in Link, NEW n \in DOMAIN task'[i].state PROVE LineOK(i, n)'
    <3>0. CASE i = l
      BY <2>1, <3>0 DEF LineOK
    <3> SUFFICES ASSUME i # l PROVE LineOK(i, n)'
      BY <3>0
    <3>2. HostStill(i) /\ n \in DOMAIN task[i].state
      BY <2>1 DEF HostStill
    <3> PICK k : k = Host(i, n)
      OBVIOUS
    <3>3. k \in Link /\ LineOK(i, n)
      BY <2>i, <3>2, BusyServed, LinkFacts DEF ServiceInv, DelegatorsSound
    <3>4. CASE k # l
      <4>1. Quiet(k) /\ conn'[k].stage = conn[k].stage
        BY <3>3, <3>4 DEF Quiet
      <4> QED
        BY <2>i, <3>2, <3>3, <4>1, LineStill
    <3>5. CASE k = l
      <4>1. l \in Container /\ l \notin Caller
        BY <2>i, <3>2, <3>5, BusyServed, LinkFacts
      <4>2. PICK j, m : j \in Link /\ Sends(j, m, l) /\ WaitsNext(l, task[j].key)
        BY <4>1 DEF WaitedFor
      <4>3. m \in DOMAIN task[j].state /\ Host(j, m) = Host(i, n)
        BY <3>5, <4>2 DEF Sends
      <4>4. i = j /\ n = m
        BY <2>i, <3>2, <4>2, <4>3, OneDelegator
      <4>5. Host(i, n)' = l /\ task'[i] = task[i]
        BY <2>i, <3>2, <3>5, StillHost DEF HostStill
      <4>6. DelegatorWaits(l, task[i].key)'
        <5> PICK key : key = task[i].key
          OBVIOUS
        <5>3. DelegatorWaits(l, key)'
          BY <4>2, <4>4 DEF WaitsNext
        <5> QED
          BY <5>3, <4>5
      <4>7. conn'[l].stage \in {"queued", "served"}
        BY <3>3, <3>5, <4>2, <4>4 DEF LineOK, Sends
      <4>8. LineOK(i, n)' <=>
              /\ task'[i].state[n] \in {"open", "sent", "got"} => conn'[l].stage \in {"queued", "served"}
              /\ task'[i].state[n] = "sent" => DelegatorWaits(l, task[i].key)'
        BY <4>5 DEF LineOK
      <4> QED
        BY <4>6, <4>7, <4>8
    <3> QED
      BY <3>4, <3>5
  <2>2. ASSUME NEW k \in Container PROVE FreeOK(k)'
    <3>0. k \in Link /\ FreeOK(k)
      BY LinkFacts DEF ServiceInv, DelegatorsSound
    <3>1. ASSUME NEW j \in Link, NEW m, Sends(j, m, k) PROVE Sends(j, m, k)'
      <4>1. j # l
        BY <3>1
      <4>2. HostStill(j)
        BY <4>1 DEF HostStill
      <4> QED
        BY <2>i, <3>1, <4>2, StillSends
    <3>2. CASE k # l
      <4>1. Quiet(k)
        BY <3>0, <3>2 DEF Quiet
      <4> QED
        BY <3>0, <3>1, <4>1, FreeStill
    <3>3. CASE k = l
      <4>1. PICK j, m : j \in Link /\ Sends(j, m, l)
        BY <3>3, LinkFacts DEF WaitedFor
      <4>2. Sends(j, m, k)'
        BY <3>1, <3>3, <4>1
      <4>3. m \in DOMAIN task'[j].state
        BY <4>2 DEF Sends
      <4> QED
        BY <4>1, <4>2, <4>3 DEF FreeOK
    <3> QED
      BY <3>2, <3>3
  <2> QED
    BY <2>1, <2>2
<1>8. HttpSound'
  <2> SUFFICES ASSUME build = "http", NEW k \in Container PROVE HttpOK(k)'
    BY <1>0 DEF HttpSound
  <2>1. k # l /\ k \in Link /\ HttpOK(k)
    BY LinkFacts DEF WaitedFor, ServiceInv, HttpSound
  <2> QED
    BY <2>1, HttpStill
<1> QED
  BY <1>2, <1>3, <1>4, <1>5, <1>6, <1>7, <1>8

(***************************************************************************)
(* The answer of the server of connection l, at once or after a merge.     *)
(***************************************************************************)
Replies(l, tokens) ==
  /\ ServerStep(l)
  /\ conn'[l].req = <<>> /\ conn'[l].rep = tokens
  /\ ~task'[l].busy /\ task'[l].state = <<>>
  /\ made'[l].answer = tokens /\ made'[l].times = made[l].times + 1

FitsNext(l, tokens, key) ==
  \/ failures' > 0 /\ IsException(tokens, "findMatches")
  \/ /\ IsReply(tokens, "findMatches")
     /\ Excused(l[2])' \/ tokens[2].value = RowOf(l[2], key)'

RepliesTo(l, tokens) ==
  IF l \in Caller
  THEN caller[l].state = "waiting" /\ made[l].times = 0 /\ IsAnswer(tokens, caller[l].method)
  ELSE /\ l \in Container /\ build = "simple"
       /\ \E j \in Link : \E n : Sends(j, n, l) /\ FitsNext(l, tokens, task[j].key)

LEMMA RepliedSound ==
  ASSUME ServiceInv, Settled, NEW l \in Link, NEW tokens, Replies(l, tokens), RepliesTo(l, tokens),
         \A n, k : ~Sends(l, n, k)
  PROVE  /\ ConnSound' /\ OneServed' /\ TaskSound' /\ MatchesSound' /\ CallerSound'
         /\ DelegatorsSound' /\ HttpSound'
<1>1. ServerStep(l)
  BY DEF Replies
<1>2. TaskOK(l)' /\ MatchesOK(l)' /\ \A n \in DOMAIN task'[l].state : task'[l].state[n] = "new"
  BY DEF Replies, TaskOK, MatchesOK
<1>3. ASSUME l \in Caller PROVE CallerOK(l)'
  <2>0. CallerOK(l)
    BY <1>3 DEF ServiceInv, CallerSound
  <2>1. caller'[l] = caller[l] /\ made'[l].answer = tokens /\ made'[l].times = 1
    BY <1>3 DEF RepliesTo, Replies, ServerStep
  <2>2. IsAnswer(made'[l].answer, caller[l].method) /\ caller[l].state = "waiting"
    BY <1>3, <2>1 DEF RepliesTo
  <2>3. caller[l].answer = <<>>
    BY <2>0, <2>2 DEF CallerOK
  <2>4. CallerWaits(l)'
    BY <2>1, <2>2 DEF CallerWaits, Replies
  <2> QED
    BY <2>1, <2>2, <2>3, <2>4 DEF CallerOK
<1>4. ASSUME l \notin Caller PROVE WaitedFor(l)
  <2>1. ASSUME NEW key, FitsNext(l, tokens, key) PROVE WaitsNext(l, key)
    <3>1. Fits(l, key)'
      BY <2>1 DEF Fits, FitsNext, Replies
    <3> QED
      BY <3>1 DEF DelegatorWaits, WaitsNext, Replies
  <2> QED
    BY <1>4, <2>1 DEF RepliesTo, WaitedFor
<1> QED
  BY <1>1, <1>2, <1>3, <1>4, ServerStepSound

LEMMA EmptyBefore ==
  ASSUME NEW s, IsSequence(s)
  PROVE  <<>> \o s = s
<1> PICK k \in Nat : k = Len(s)
  BY DEF IsSequence
<1> DEFINE T == Range(s)
<1>1. s = [n \in 1..k |-> s[n]]
  BY DEF IsSequence
<1>2. \A n \in 1..k : s[n] \in T
  BY <1>1 DEF Range
<1> HIDE DEF T
<1>3. s \in Seq(T)
  BY <1>1, <1>2, SequenceIn
<1> QED
  BY <1>3

LEMMA ReplyAnswers ==
  ASSUME NEW m \in processMap_, NEW v
  PROVE  /\ IsSequence(Reply(m, 0, v)) /\ IsReply(Reply(m, 0, v), m) /\ IsAnswer(Reply(m, 0, v), m)
         /\ Reply(m, 0, v)[2].value = v
<1> PICK s : s = Reply(m, 0, v)
  OBVIOUS
<1>1. s # <<>> /\ IsSequence(s) /\ s[2].value = v
  BY ReplyRead
<1> QED
  BY <1>1 DEF IsReply, IsAnswer

LEMMA ExceptionAnswers ==
  ASSUME NEW m, NEW code
  PROVE  /\ IsSequence(Exception(m, 0, code)) /\ IsException(Exception(m, 0, code), m)
         /\ IsAnswer(Exception(m, 0, code), m)
<1> PICK s : s = Exception(m, 0, code)
  OBVIOUS
<1>1. s # <<>> /\ IsSequence(s) /\ s[2].value = code
  BY ExceptionRead
<1> QED
  BY <1>1 DEF IsException, IsAnswer

(***************************************************************************)
(* The steps that leave the processes alone.                               *)
(***************************************************************************)
ProcessesSound ==
  /\ build \in {"http", "simple"} /\ failures \in Nat
  /\ DOMAIN proc = Process
  /\ \A p \in Process : DOMAIN proc[p] = {"state", "type", "addr", "data", "hosts"}
  /\ AddressesDistinct /\ HostsSound

LEMMA ProcessesStill ==
  ASSUME ServiceInv, build' = build, proc' = proc, failures' = failures \/ failures' = failures + 1
  PROVE  Settled /\ ProcessesSound'
<1>1. failures' \in Nat /\ (failures > 0 => failures' > 0)
  BY DEF ServiceInv, Shapes
<1>2. Settled
  BY <1>1 DEF Settled, Listening
<1>3. ProcessesSound'
  BY <1>1 DEF ServiceInv, Shapes, ProcessesSound, AddressesDistinct, HostsSound
<1> QED
  BY <1>2, <1>3

(***************************************************************************)
(* A call that is answered at once.                                        *)
(***************************************************************************)
LEMMA AnsweredAtOnce ==
  ASSUME ServiceInv, Settled, ProcessesSound', NEW l \in Link, NEW m, Asked(l, m),
         NEW tokens, IsSequence(tokens), Answers(l, Taken(l), tokens, NoTask),
         task' = task, caller' = caller,
         l \in Caller => IsAnswer(tokens, m),
         l \notin Caller => \A key : key = Given(l, m)[1].value => FitsNext(l, tokens, key)
  PROVE  ServiceInv'
<1>0. Shapes
  BY DEF ServiceInv
<1>1. /\ conn[l].stage = "served" /\ conn[l].rep = <<>> /\ ~task[l].busy
      /\ AfterStruct(Tail(conn[l].req)) = <<>> /\ AskedBy(l, m)
  BY AskedOnce
<1>2. DOMAIN conn = Link /\ DOMAIN conn[l] = {"stage", "to", "req", "rep"}
  BY <1>0 DEF Shapes
<1>3. conn' = [conn EXCEPT ![l] = [[conn[l] EXCEPT !.req = <<>>] EXCEPT !.rep = tokens]]
  <2> PICK taken : taken = [conn EXCEPT ![l] = [conn[l] EXCEPT !.req = <<>>]]
    OBVIOUS
  <2>1. taken = Taken(l)
    BY <1>1, <1>2 DEF Taken
  <2>2. taken[l] = [conn[l] EXCEPT !.req = <<>>] /\ taken[l].rep = <<>>
    BY <1>1, <1>2
  <2>3. conn' = [taken EXCEPT ![l] = [taken[l] EXCEPT !.rep = taken[l].rep \o tokens]]
    BY <2>1 DEF Answers
  <2>4. taken[l].rep \o tokens = tokens
    BY <2>2, EmptyBefore
  <2>5. conn' = [taken EXCEPT ![l] = [[conn[l] EXCEPT !.req = <<>>] EXCEPT !.rep = tokens]]
    BY <2>2, <2>3, <2>4
  <2> QED
    BY <2>5, <1>2
<1>4. /\ DOMAIN conn' = Link /\ DOMAIN conn'[l] = {"stage", "to", "req", "rep"}
      /\ conn'[l].stage = conn[l].stage /\ conn'[l].to = conn[l].to
      /\ conn'[l].req = <<>> /\ conn'[l].rep = tokens
      /\ \A k \in Link : k # l => conn'[k] = conn[k]
  BY <1>2, <1>3
<1>5. /\ DOMAIN made' = Link /\ DOMAIN made'[l] = {"times", "answer", "key", "hosts", "there"}
      /\ made'[l].times = made[l].times + 1 /\ made'[l].answer = tokens /\ made'[l].hosts = <<>>
      /\ \A k \in Link : k # l => made'[k] = made[k]
  BY <1>0 DEF Shapes, Answers, NoTask
<1>6. Shapes'
  BY <1>0, <1>4, <1>5 DEF Shapes, ProcessesSound
<1>7. task[l].state = <<>>
  BY <1>1 DEF ServiceInv, TaskSound, TaskOK
<1>8. Replies(l, tokens)
  BY <1>1, <1>4, <1>5, <1>7 DEF Replies, ServerStep
<1>9. RepliesTo(l, tokens)
  <2>1. CASE l \in Caller
    BY <1>1, <2>1 DEF RepliesTo, AskedBy
  <2>2. CASE l \notin Caller
    <3>1. /\ l \in Container /\ build = "simple" /\ m = "findMatches"
          /\ \E j \in Link : \E n :
               /\ Sends(j, n, l)
               /\ Read(findMatches_args, FieldsOf(Tail(conn[l].req)))[1].value = task[j].key
      BY <1>1, <2>2 DEF AskedBy
    <3>2. Given(l, m) = Read(findMatches_args, FieldsOf(Tail(conn[l].req)))
      BY <3>1 DEF Given, ArgsOf
    <3> QED
      BY <2>2, <3>1, <3>2 DEF RepliesTo
  <2> QED
    BY <2>1, <2>2
<1>10. \A n, k : ~Sends(l, n, k)
  BY <1>7 DEF Sends
<1>11. /\ ConnSound' /\ OneServed' /\ TaskSound' /\ MatchesSound' /\ CallerSound'
       /\ DelegatorsSound' /\ HttpSound'
  BY <1>8, <1>9, <1>10, RepliedSound
<1>12. MadeSound'
  <2>1. MadeOK(l)'
    BY <1>5 DEF MadeOK
  <2>2. \A k \in Link : k # l => MadeOK(k)'
    BY <1>5, MadeStill DEF ServiceInv, MadeSound
  <2> QED
    BY <2>1, <2>2 DEF MadeSound
<1> QED
  BY <1>6, <1>11, <1>12 DEF ServiceInv, ProcessesSound

LEMMA OnlyFindMatches ==
  ASSUME ServiceInv, NEW l \in Link, NEW m, Asked(l, m), m # "findMatches"
  PROVE  l \in Caller
BY AskedOnce DEF AskedBy

LEMMA DispatchCallKeeps ==
  ASSUME ServiceInv, NEW l \in Link, dispatchCall(l)
  PROVE  ServiceInv'
<1>1. PICK m :
        /\ Asked(l, m) /\ m \notin processMap_
        /\ Answers(l, Taken(l), Exception(m, Seqid(l), "unknown method"), NoTask)
  BY DEF dispatchCall
<1>2. Seqid(l) = 0
  BY <1>1, AskedOnce
<1>3. m # "findMatches"
  BY <1>1 DEF processMap_
<1>4. l \in Caller
  BY <1>1, <1>3, OnlyFindMatches
<1> PICK tokens : tokens = Exception(m, 0, "unknown method")
  OBVIOUS
<1>5. IsSequence(tokens) /\ IsAnswer(tokens, m)
  BY ExceptionAnswers
<1>6. build' = build /\ proc' = proc /\ task' = task /\ caller' = caller /\ failures' = failures
  BY DEF dispatchCall
<1>7. Settled /\ ProcessesSound'
  BY <1>6, ProcessesStill
<1>8. Answers(l, Taken(l), tokens, NoTask)
  BY <1>1, <1>2
<1> QED
  BY <1>1, <1>4, <1>5, <1>6, <1>7, <1>8, AnsweredAtOnce

LEMMA PingKeeps ==
  ASSUME ServiceInv, NEW l \in Link, process_ping(l)
  PROVE  ServiceInv'
<1>1. Asked(l, "ping") /\ Answers(l, Taken(l), Reply("ping", Seqid(l), 0), NoTask)
  BY DEF process_ping
<1>2. Seqid(l) = 0 /\ l \in Caller
  BY <1>1, AskedOnce, OnlyFindMatches
<1> PICK tokens : tokens = Reply("ping", 0, 0)
  OBVIOUS
<1>5. IsSequence(tokens) /\ IsAnswer(tokens, "ping")
  BY ReplyAnswers DEF processMap_
<1>6. build' = build /\ proc' = proc /\ task' = task /\ caller' = caller /\ failures' = failures
  BY DEF process_ping
<1>7. Settled /\ ProcessesSound'
  BY <1>6, ProcessesStill
<1>8. Answers(l, Taken(l), tokens, NoTask)
  BY <1>1, <1>2
<1> QED
  BY <1>1, <1>2, <1>5, <1>6, <1>7, <1>8, AnsweredAtOnce

(***************************************************************************)
(* A list that gets or loses an address.                                   *)
(***************************************************************************)
LEMMA ListChanged ==
  ASSUME ServiceInv, NEW p \in Process, NEW hosts \in Seq(Address), Injective(hosts),
         proc' = [proc EXCEPT ![p] = [proc[p] EXCEPT !.hosts = hosts]],
         build' = build, failures' = failures
  PROVE  Settled /\ ProcessesSound'
<1>0. DOMAIN proc = Process /\ \A q \in Process : DOMAIN proc[q] = {"state", "type", "addr", "data", "hosts"}
  BY DEF ServiceInv, Shapes
<1>1. /\ DOMAIN proc' = Process
      /\ \A q \in Process : DOMAIN proc'[q] = {"state", "type", "addr", "data", "hosts"}
      /\ \A q \in Process : /\ proc'[q].state = proc[q].state /\ proc'[q].type = proc[q].type
                            /\ proc'[q].addr = proc[q].addr /\ proc'[q].data = proc[q].data
      /\ \A q \in Process : q # p => proc'[q].hosts = proc[q].hosts
      /\ proc'[p].hosts = hosts
  BY <1>0
<1>2. \A a : Listening(a)' = Listening(a)
  BY <1>1 DEF Listening
<1>3. Settled
  BY <1>1, <1>2 DEF Settled
<1>4. AddressesDistinct'
  BY <1>1 DEF ServiceInv, AddressesDistinct
<1>5. HostsSound'
  BY <1>1 DEF ServiceInv, HostsSound
<1> QED
  BY <1>1, <1>3, <1>4, <1>5 DEF ProcessesSound, ServiceInv, Shapes

LEMMA RegisterKeeps ==
  ASSUME ServiceInv, NEW l \in Link, process_registerService(l)
  PROVE  ServiceInv'
<1> DEFINE m == "registerService"
<1> PICK p : p = Server(l)
  OBVIOUS
<1> PICK a : a = AddressIn(Given(l, m))
  OBVIOUS
<1>1. /\ Asked(l, m) /\ Answers(l, Taken(l), Reply(m, Seqid(l), Unspecified), NoTask)
      /\ proc' = [proc EXCEPT ![p].hosts = IF \E n \in DOMAIN @ : @[n] = a THEN @ ELSE Append(@, a)]
      /\ build' = build /\ task' = task /\ caller' = caller /\ failures' = failures
  BY DEF process_registerService
<1>2. Seqid(l) = 0 /\ l \in Caller /\ p \in Process /\ AskedBy(l, m)
  BY <1>1, AskedOnce, OnlyFindMatches
<1>3. a \in Address
  <2>1. PICK r \in Request : r.method = m /\ FieldsOf(Tail(conn[l].req)) = r.fields
    BY <1>2 DEF AskedBy
  <2>2. Given(l, m) = Read(registerService_args, r.fields)
    BY <2>1 DEF Given, ArgsOf
  <2> QED
    BY <2>1, <2>2, RegisteredAddress
<1> PICK old : old = proc[p].hosts
  OBVIOUS
<1> PICK hosts : hosts = IF \E n \in DOMAIN old : old[n] = a THEN old ELSE Append(old, a)
  OBVIOUS
<1>4. old \in Seq(Address) /\ Injective(old)
  BY <1>2 DEF ServiceInv, HostsSound
<1>5. hosts \in Seq(Address) /\ Injective(hosts)
  <2>1. CASE \E n \in DOMAIN old : old[n] = a
    BY <1>4, <2>1
  <2>2. CASE ~\E n \in DOMAIN old : old[n] = a
    <3>1. hosts = Append(old, a)
      BY <2>2
    <3>2. hosts \in Seq(Address)
      BY <1>3, <1>4, <3>1
    <3>3. Injective(hosts)
      <4> SUFFICES ASSUME NEW i \in DOMAIN hosts, NEW n \in DOMAIN hosts, hosts[i] = hosts[n]
                   PROVE  i = n
        BY DEF Injective
      <4> PICK j \in Nat : j = Len(old)
        BY <1>4
      <4>1. /\ DOMAIN hosts = 1..(j + 1) /\ DOMAIN old = 1..j /\ hosts[j + 1] = a
            /\ \A k \in 1..j : hosts[k] = old[k]
        BY <1>3, <1>4, <3>1
      <4>2. CASE i \in 1..j /\ n \in 1..j
        BY <1>4, <4>1, <4>2 DEF Injective
      <4>3. CASE i = j + 1 /\ n = j + 1
        BY <4>3
      <4>4. CASE i \in 1..j /\ n = j + 1
        BY <2>2, <4>1, <4>4
      <4>5. CASE i = j + 1 /\ n \in 1..j
        BY <2>2, <4>1, <4>5
      <4> QED
        BY <4>1, <4>2, <4>3, <4>4, <4>5
    <3> QED
      BY <3>2, <3>3
  <2> QED
    BY <2>1, <2>2
<1>6. proc' = [proc EXCEPT ![p] = [proc[p] EXCEPT !.hosts = hosts]]
  BY <1>1
<1>7. Settled /\ ProcessesSound'
  BY <1>1, <1>2, <1>5, <1>6, ListChanged
<1> PICK tokens : tokens = Reply(m, 0, Unspecified)
  OBVIOUS
<1>8. IsSequence(tokens) /\ IsAnswer(tokens, m)
  BY ReplyAnswers DEF processMap_
<1>9. Answers(l, Taken(l), tokens, NoTask)
  BY <1>1, <1>2
<1> QED
  BY <1>1, <1>2, <1>7, <1>8, <1>9, AnsweredAtOnce

LEMMA DeregisterKeeps ==
  ASSUME ServiceInv, NEW l \in Link, process_deregisterService(l)
  PROVE  ServiceInv'
<1> DEFINE m == "deregisterService"
<1> PICK p : p = Server(l)
  OBVIOUS
<1> PICK a : a = AddressIn(Given(l, m))
  OBVIOUS
<1>1. /\ Asked(l, m) /\ Answers(l, Taken(l), Reply(m, Seqid(l), Unspecified), NoTask)
      /\ proc' = [proc EXCEPT ![p].hosts = Without(@, a)]
      /\ build' = build /\ task' = task /\ caller' = caller /\ failures' = failures
  BY DEF process_deregisterService
<1>2. Seqid(l) = 0 /\ l \in Caller /\ p \in Process
  BY <1>1, AskedOnce, OnlyFindMatches
<1> PICK old : old = proc[p].hosts
  OBVIOUS
<1> PICK hosts : hosts = Without(old, a)
  OBVIOUS
<1>4. old \in Seq(Address) /\ Injective(old)
  BY <1>2 DEF ServiceInv, HostsSound
<1>5. hosts \in Seq(Address) /\ Injective(hosts)
  BY <1>4, WithoutSound
<1>6. proc' = [proc EXCEPT ![p] = [proc[p] EXCEPT !.hosts = hosts]]
  BY <1>1
<1>7. Settled /\ ProcessesSound'
  BY <1>1, <1>2, <1>5, <1>6, ListChanged
<1> PICK tokens : tokens = Reply(m, 0, Unspecified)
  OBVIOUS
<1>8. IsSequence(tokens) /\ IsAnswer(tokens, m)
  BY ReplyAnswers DEF processMap_
<1>9. Answers(l, Taken(l), tokens, NoTask)
  BY <1>1, <1>2
<1> QED
  BY <1>1, <1>2, <1>7, <1>8, <1>9, AnsweredAtOnce

(***************************************************************************)
(* What the server of a container answers is a row of that address, or it  *)
(* is no worker.                                                           *)
(***************************************************************************)
LEMMA LookupFits ==
  ASSUME ServiceInv, Settled, proc' = proc, NEW a, NEW p \in Process, p \in Listening(a), NEW key
  PROVE  IF IsSlave(p) THEN Lookup(p, key) = RowOf(a, key)' ELSE Excused(a)'
<1>1. CASE ~IsSlave(p)
  <2>1. Excused(a)
    BY <1>1 DEF Excused
  <2> QED
    BY <1>1, <2>1, StillExcused
<1>2. CASE IsSlave(p)
  <2>1. (\E q \in Listening(a) : proc[q].data) <=> proc[p].data
    BY OneListens DEF ServiceInv
  <2>2. proc[p].addr = a
    BY DEF Listening
  <2>3. Lookup(p, key) = RowOf(a, key)
    BY <2>1, <2>2 DEF Lookup, RowOf
  <2>4. RowOf(a, key)' = RowOf(a, key)
    BY StillRow
  <2> QED
    BY <1>2, <2>3, <2>4
<1> QED
  BY <1>1, <1>2

(* Where the server of a container listens. *)
LEMMA ContainerServer ==
  ASSUME ServiceInv, NEW l \in Link, l \notin Caller, conn[l].stage = "served"
  PROVE  Server(l) \in Process /\ Server(l) \in Listening(l[2])
<1>1. Listening(conn[l].to) # {} /\ conn[l].to = l[2]
  BY LinkFacts DEF ServiceInv, ConnSound, ConnOK
<1> QED
  BY <1>1, ServerListens

LEMMA FindAtOnceKeeps ==
  ASSUME ServiceInv, NEW l \in Link, Asked(l, "findMatches"),
         NEW p, p = Server(l), NEW key, key = Given(l, "findMatches")[1].value,
         IsSlave(p) \/ proc[p].hosts = <<>>,
         Answers(l, Taken(l), Reply("findMatches", Seqid(l), Lookup(p, key)), NoTask),
         build' = build, proc' = proc, task' = task, caller' = caller, failures' = failures
  PROVE  ServiceInv'
<1> DEFINE m == "findMatches"
<1>1. Settled /\ ProcessesSound'
  BY ProcessesStill
<1>2. Seqid(l) = 0 /\ conn[l].stage = "served"
  BY AskedOnce
<1> PICK v : v = Lookup(p, key)
  OBVIOUS
<1> PICK tokens : tokens = Reply(m, 0, v)
  OBVIOUS
<1>3. IsSequence(tokens) /\ IsAnswer(tokens, m) /\ IsReply(tokens, m) /\ tokens[2].value = v
  BY ReplyAnswers DEF processMap_
<1>4. Answers(l, Taken(l), tokens, NoTask)
  BY <1>2
<1>5. ASSUME l \notin Caller PROVE FitsNext(l, tokens, key)
  <2> PICK a : a = l[2]
    OBVIOUS
  <2>1. p \in Process /\ p \in Listening(a)
    BY <1>2, <1>5, ContainerServer
  <2>2. v = RowOf(a, key)' \/ Excused(a)'
    BY <1>1, <2>1, LookupFits
  <2> QED
    BY <1>3, <2>2 DEF FitsNext
<1>6. l \notin Caller => \A k : k = Given(l, m)[1].value => FitsNext(l, tokens, k)
  BY <1>5
<1> QED
  BY <1>1, <1>3, <1>4, <1>6, AnsweredAtOnce

LEMMA FindFailsKeeps ==
  ASSUME ServiceInv, NEW l \in Link, Asked(l, "findMatches"),
         Answers(l, Taken(l), Exception("findMatches", Seqid(l), "handler"), NoTask),
         build' = build, proc' = proc, task' = task, caller' = caller, failures' = failures + 1
  PROVE  ServiceInv'
<1> DEFINE m == "findMatches"
<1>1. Settled /\ ProcessesSound'
  BY ProcessesStill
<1>2. Seqid(l) = 0
  BY AskedOnce
<1> PICK tokens : tokens = Exception(m, 0, "handler")
  OBVIOUS
<1>3. IsSequence(tokens) /\ IsAnswer(tokens, m) /\ IsException(tokens, m)
  BY ExceptionAnswers
<1>4. Answers(l, Taken(l), tokens, NoTask)
  BY <1>2
<1>5. failures' > 0
  BY DEF ServiceInv, Shapes
<1>6. l \notin Caller => \A k : k = Given(l, m)[1].value => FitsNext(l, tokens, k)
  BY <1>3, <1>5 DEF FitsNext
<1> QED
  BY <1>1, <1>3, <1>4, <1>6, AnsweredAtOnce

(***************************************************************************)
(* A master takes a call up.                                               *)
(***************************************************************************)
LEMMA FindBeginsKeeps ==
  ASSUME ServiceInv, NEW l \in Link, Asked(l, "findMatches"),
         NEW p, p = Server(l), NEW key, ~IsSlave(p), NEW hosts, hosts = proc[p].hosts, hosts # <<>>,
         task' = [task EXCEPT ![l] =
           [busy |-> TRUE, key |-> key, seqid |-> Seqid(l), hosts |-> hosts,
            there |-> {a \in Address : Listening(a) # {}},
            state |-> [n \in DOMAIN hosts |-> "new"],
            matches |-> [n \in DOMAIN hosts |-> <<>>]]],
         conn' = Taken(l),
         build' = build, proc' = proc, made' = made, caller' = caller, failures' = failures
  PROVE  ServiceInv'
<1> DEFINE m == "findMatches"
<1>0. Shapes
  BY DEF ServiceInv
<1>1. Settled /\ ProcessesSound'
  BY ProcessesStill
<1>2. /\ Seqid(l) = 0 /\ conn[l].stage = "served" /\ conn[l].rep = <<>> /\ ~task[l].busy
      /\ p \in Process /\ p \in Listening(conn[l].to) /\ AfterStruct(Tail(conn[l].req)) = <<>>
      /\ AskedBy(l, m) /\ Understood(l)
  BY AskedOnce DEF Asked
<1>3. /\ DOMAIN conn' = Link /\ DOMAIN conn'[l] = {"stage", "to", "req", "rep"}
      /\ conn'[l].stage = "served" /\ conn'[l].to = conn[l].to
      /\ conn'[l].req = <<>> /\ conn'[l].rep = <<>>
      /\ \A k \in Link : k # l => conn'[k] = conn[k]
  BY <1>0, <1>2 DEF Shapes, Taken
<1>4. /\ DOMAIN task' = Link
      /\ DOMAIN task'[l] = {"busy", "key", "seqid", "hosts", "there", "state", "matches"}
      /\ task'[l].busy /\ task'[l].key = key /\ task'[l].seqid = 0 /\ task'[l].hosts = hosts
      /\ task'[l].there = {a \in Address : Listening(a) # {}}
      /\ task'[l].state = [n \in DOMAIN hosts |-> "new"]
      /\ task'[l].matches = [n \in DOMAIN hosts |-> <<>>]
      /\ \A k \in Link : k # l => task'[k] = task[k]
  <2> PICK t : t = [busy |-> TRUE, key |-> key, seqid |-> Seqid(l), hosts |-> hosts,
                    there |-> {a \in Address : Listening(a) # {}},
                    state |-> [n \in DOMAIN hosts |-> "new"],
                    matches |-> [n \in DOMAIN hosts |-> <<>>]]
    OBVIOUS
  <2>1. task' = [task EXCEPT ![l] = t] /\ DOMAIN task = Link
    BY <1>0 DEF Shapes
  <2>2. task'[l] = t /\ DOMAIN task' = Link /\ \A k \in Link : k # l => task'[k] = task[k]
    BY <2>1
  <2>3. /\ DOMAIN t = {"busy", "key", "seqid", "hosts", "there", "state", "matches"}
        /\ t.busy /\ t.key = key /\ t.seqid = Seqid(l) /\ t.hosts = hosts
        /\ t.there = {a \in Address : Listening(a) # {}}
        /\ t.state = [n \in DOMAIN hosts |-> "new"]
        /\ t.matches = [n \in DOMAIN hosts |-> <<>>]
    OBVIOUS
  <2> QED
    BY <1>2, <2>2, <2>3
<1>5. Shapes'
  BY <1>0, <1>1, <1>3, <1>4 DEF Shapes, ProcessesSound
<1>6. ServerStep(l)
  BY <1>2, <1>3, <1>4 DEF ServerStep
<1>7. TaskOK(l)'
  <2>1. Listening(conn[l].to) # {}
    BY <1>2
  <2>2. Server(l)' = p
    BY <1>1, <1>3, <2>1, StillServer
  <2>3. ~IsSlave(Server(l))'
    BY <2>2 DEF IsSlave
  <2>4. hosts \in Seq(Address) /\ Injective(hosts)
    BY <1>2 DEF ServiceInv, HostsSound
  <2>5. \A a \in task'[l].there : Listening(a)' # {}
    BY <1>1, <1>4 DEF Settled
  <2>6. Understood(l)'
    BY <1>1, <1>2, StillUnderstood
  <2>7. IsFunction(task'[l].matches, DOMAIN hosts)
    BY <1>4 DEF IsFunction
  <2>8. DOMAIN task'[l].state = DOMAIN hosts
    BY <1>4
  <2> QED
    BY <1>3, <1>4, <2>3, <2>4, <2>5, <2>6, <2>7, <2>8 DEF TaskOK
<1>8. MatchesOK(l)' /\ \A n \in DOMAIN task'[l].state : task'[l].state[n] = "new"
  BY <1>4 DEF MatchesOK
<1>9. \A n, k : ~Sends(l, n, k)
  BY <1>2 DEF ServiceInv, TaskSound, TaskOK, Sends
<1>10. ASSUME l \in Caller PROVE CallerOK(l)'
  <2>1. CallerOK(l) /\ caller[l].state = "waiting" /\ caller[l].method = m /\ made[l].times = 0
    BY <1>2, <1>10 DEF ServiceInv, CallerSound, AskedBy
  <2>2. CallerWaits(l)'
    BY <1>3, <1>4, <2>1 DEF CallerWaits
  <2> QED
    BY <2>1, <2>2 DEF CallerOK
<1>11. ASSUME l \notin Caller PROVE WaitedFor(l)
  <2>1. \A k : WaitsNext(l, k)
    BY <1>3, <1>4 DEF WaitsNext, DelegatorWaits
  <2> QED
    BY <1>2, <1>11, <2>1 DEF AskedBy, WaitedFor
<1>12. /\ ConnSound' /\ OneServed' /\ TaskSound' /\ MatchesSound' /\ CallerSound'
       /\ DelegatorsSound' /\ HttpSound'
  BY <1>1, <1>6, <1>7, <1>8, <1>9, <1>10, <1>11, ServerStepSound
<1>13. MadeSound'
  BY <1>1, MadeStill DEF ServiceInv, MadeSound
<1> QED
  BY <1>1, <1>5, <1>12, <1>13 DEF ServiceInv, ProcessesSound

LEMMA FindMatchesKeeps ==
  ASSUME ServiceInv, NEW l \in Link, process_findMatches(l)
  PROVE  ServiceInv'
<1> PICK p, key, hosts : p = Server(l) /\ key = Given(l, "findMatches")[1].value /\ hosts = proc[p].hosts
  OBVIOUS
<1>1. /\ Asked(l, "findMatches")
      /\ build' = build /\ proc' = proc /\ caller' = caller
      /\ \/ /\ IsSlave(p) \/ proc[p].hosts = <<>>
            /\ Answers(l, Taken(l), Reply("findMatches", Seqid(l), Lookup(p, key)), NoTask)
            /\ task' = task /\ failures' = failures
         \/ /\ failures' = failures + 1 /\ task' = task
            /\ Answers(l, Taken(l), Exception("findMatches", Seqid(l), "handler"), NoTask)
         \/ /\ ~IsSlave(p) /\ hosts # <<>>
            /\ task' = [task EXCEPT ![l] =
                 [busy |-> TRUE, key |-> key, seqid |-> Seqid(l), hosts |-> hosts,
                  there |-> {a \in Address : Listening(a) # {}},
                  state |-> [n \in DOMAIN hosts |-> "new"],
                  matches |-> [n \in DOMAIN hosts |-> <<>>]]]
            /\ conn' = Taken(l) /\ made' = made /\ failures' = failures
  BY DEF process_findMatches
<1>2. CASE IsSlave(p) \/ proc[p].hosts = <<>>
  <2>1. CASE /\ Answers(l, Taken(l), Reply("findMatches", Seqid(l), Lookup(p, key)), NoTask)
             /\ task' = task /\ failures' = failures
    BY <1>1, <1>2, <2>1, FindAtOnceKeeps
  <2>2. CASE /\ failures' = failures + 1 /\ task' = task
             /\ Answers(l, Taken(l), Exception("findMatches", Seqid(l), "handler"), NoTask)
    BY <1>1, <2>2, FindFailsKeeps
  <2> QED
    BY <1>1, <1>2, <2>1, <2>2
<1>3. CASE ~(IsSlave(p) \/ proc[p].hosts = <<>>)
  <2>1. CASE /\ ~IsSlave(p) /\ hosts # <<>>
            /\ task' = [task EXCEPT ![l] =
                 [busy |-> TRUE, key |-> key, seqid |-> Seqid(l), hosts |-> hosts,
                  there |-> {a \in Address : Listening(a) # {}},
                  state |-> [n \in DOMAIN hosts |-> "new"],
                  matches |-> [n \in DOMAIN hosts |-> <<>>]]]
            /\ conn' = Taken(l) /\ made' = made /\ failures' = failures
    BY <1>1, <2>1, FindBeginsKeeps
  <2>2. CASE /\ failures' = failures + 1 /\ task' = task
             /\ Answers(l, Taken(l), Exception("findMatches", Seqid(l), "handler"), NoTask)
    BY <1>1, <2>2, FindFailsKeeps
  <2> QED
    BY <1>1, <1>3, <2>1, <2>2
<1> QED
  BY <1>2, <1>3

-----------------------------------------------------------------------------
(* A master's answer *)

(***************************************************************************)
(* When a master works on a call, somebody waits for it.                   *)
(***************************************************************************)
LEMMA BusyFor ==
  ASSUME ServiceInv, NEW l \in Link, task[l].busy
  PROVE  /\ conn[l].req = <<>> /\ conn[l].rep = <<>>
         /\ IF l \in Caller
            THEN /\ caller[l].state = "waiting" /\ caller[l].method = "findMatches"
                 /\ made[l].times = 0
            ELSE /\ l \in Container /\ build = "simple"
                 /\ \E j \in Link : \E n : Sends(j, n, l)
<1>1. CASE l \in Caller
  <2>1. CallerOK(l)
    BY <1>1 DEF ServiceInv, CallerSound
  <2> QED
    BY <1>1, <2>1 DEF CallerOK, CallerWaits, Idle
<1>2. CASE l \notin Caller
  <2>1. l \in Container
    BY <1>2, LinkFacts
  <2>2. build = "simple"
    BY <2>1 DEF ServiceInv, HttpSound, HttpOK, Shapes
  <2>3. PICK j, n : j \in Link /\ n \in DOMAIN task[j].state /\ Sends(j, n, l)
    BY <2>1, <2>2 DEF ServiceInv, DelegatorsSound, FreeOK, Idle
  <2>4. LineOK(j, n)
    BY <2>2, <2>3 DEF ServiceInv, DelegatorsSound
  <2>5. DelegatorWaits(l, task[j].key)
    BY <2>3, <2>4 DEF LineOK, Sends
  <2> QED
    BY <1>2, <2>1, <2>2, <2>3, <2>5 DEF DelegatorWaits
<1> QED
  BY <1>1, <1>2

(***************************************************************************)
(* With start_http_server nothing has come; with start_server the rows of  *)
(* the workers that were there, and of some that came late.                *)
(***************************************************************************)
LEMMA MergedHttp ==
  ASSUME NEW hosts \in Seq(Address), NEW matches, IsFunction(matches, DOMAIN hosts),
         \A n \in DOMAIN hosts : matches[n] = <<>>
  PROVE  FlattenSeq(matches) = <<>>
<1> PICK k \in Nat : k = Len(hosts)
  OBVIOUS
<1>1. DOMAIN hosts = 1..k
  OBVIOUS
<1>2. [n \in 1..k |-> matches[n]] = [n \in 1..k |-> <<>>]
  BY <1>1
<1>3. matches = [n \in 1..k |-> <<>>]
  BY <1>1, <1>2 DEF IsFunction
<1> QED
  BY <1>3, FlattenNothing

WithLate(answer, there, key, hosts) ==
  \E late \in SUBSET Address :
    /\ answer = RowsOf(there \cup late, key, hosts)
    /\ \A n \in DOMAIN hosts : hosts[n] \in there \cup late => Listening(hosts[n]) # {}

LEMMA MergedSimple ==
  ASSUME NEW hosts \in Seq(Address), Injective(hosts), NEW key, NEW there,
         NEW matches, IsFunction(matches, DOMAIN hosts),
         \A a \in there : Listening(a) # {},
         \A n \in DOMAIN hosts :
           \/ Listening(hosts[n]) # {} /\ matches[n] = RowOf(hosts[n], key)
           \/ hosts[n] \notin there /\ matches[n] = <<>>
  PROVE  WithLate(FlattenSeq(matches), there, key, hosts)
<1> DEFINE late == {a \in Address : \E n \in DOMAIN hosts :
                      hosts[n] = a /\ Listening(a) # {} /\ matches[n] = RowOf(a, key)}
           answered == there \cup late
<1>1. \A n \in DOMAIN hosts : hosts[n] \in Address
  OBVIOUS
<1>2. ASSUME NEW n \in DOMAIN hosts
      PROVE  matches[n] = IF hosts[n] \in answered THEN RowOf(hosts[n], key) ELSE <<>>
  <2>1. CASE hosts[n] \in there
    BY <2>1
  <2>2. CASE hosts[n] \notin there /\ hosts[n] \in late
    <3>1. PICK m \in DOMAIN hosts : hosts[m] = hosts[n] /\ matches[m] = RowOf(hosts[n], key)
      BY <2>2
    <3>2. m = n
      BY <3>1 DEF Injective
    <3> QED
      BY <2>2, <3>1, <3>2
  <2>3. CASE hosts[n] \notin there /\ hosts[n] \notin late
    BY <1>1, <2>3
  <2> QED
    BY <2>1, <2>2, <2>3
<1>3. \A n \in DOMAIN hosts : hosts[n] \in answered => Listening(hosts[n]) # {}
  OBVIOUS
<1>4. late \in SUBSET Address
  OBVIOUS
<1> HIDE DEF late
<1>5. [n \in DOMAIN hosts |-> matches[n]]
        = [n \in DOMAIN hosts |-> IF hosts[n] \in answered THEN RowOf(hosts[n], key) ELSE <<>>]
  BY <1>2
<1>6. matches = [n \in DOMAIN hosts |-> IF hosts[n] \in answered THEN RowOf(hosts[n], key) ELSE <<>>]
  BY <1>5 DEF IsFunction
<1>7. FlattenSeq(matches) = RowsOf(answered, key, hosts)
  BY <1>6 DEF RowsOf
<1> QED
  BY <1>3, <1>4, <1>7 DEF WithLate

LEMMA MergedAnswer ==
  ASSUME ServiceInv, NEW l \in Link, task[l].busy,
         \A n \in DOMAIN task[l].state : task[l].state[n] = "done",
         NEW m, m.answer = Reply("findMatches", 0, FlattenSeq(task[l].matches)),
         m.key = task[l].key, m.hosts = task[l].hosts, m.there = task[l].there
  PROVE  Answered(m)
<1> PICK hosts, key, there, matches :
      hosts = task[l].hosts /\ key = task[l].key /\ there = task[l].there /\ matches = task[l].matches
  OBVIOUS
<1>1. /\ hosts \in Seq(Address) /\ Injective(hosts) /\ IsFunction(matches, DOMAIN hosts)
      /\ \A a \in there : Listening(a) # {}
      /\ DOMAIN task[l].state = DOMAIN hosts
  BY DEF ServiceInv, TaskSound, TaskOK
<1>2. \A n \in DOMAIN hosts : Brought(hosts[n], key, there, matches[n])
  BY <1>1 DEF ServiceInv, MatchesSound, MatchesOK
<1>3. CASE build = "http"
  <2>1. \A n \in DOMAIN hosts : matches[n] = <<>>
    BY <1>2, <1>3 DEF Brought
  <2>2. FlattenSeq(matches) = <<>>
    BY <1>1, <2>1, MergedHttp
  <2> QED
    BY <1>3, <2>2 DEF Answered
<1>4. CASE build # "http" /\ \E n \in DOMAIN hosts : Excused(hosts[n])
  BY <1>4 DEF Answered
<1>5. CASE build # "http" /\ ~\E n \in DOMAIN hosts : Excused(hosts[n])
  <2>1. \A n \in DOMAIN hosts :
          \/ Listening(hosts[n]) # {} /\ matches[n] = RowOf(hosts[n], key)
          \/ hosts[n] \notin there /\ matches[n] = <<>>
    BY <1>2, <1>5 DEF Brought
  <2> PICK rows : rows = FlattenSeq(matches)
    OBVIOUS
  <2>2. WithLate(rows, there, key, hosts)
    BY <1>1, <2>1, MergedSimple
  <2>3. PICK late \in SUBSET Address :
           /\ rows = RowsOf(there \cup late, key, hosts)
           /\ \A n \in DOMAIN hosts : hosts[n] \in there \cup late => Listening(hosts[n]) # {}
    BY <2>2 DEF WithLate
  <2>4. m.answer = Reply("findMatches", 0, RowsOf(m.there \cup late, m.key, m.hosts))
    BY <2>3
  <2> QED
    BY <1>5, <2>3, <2>4 DEF Answered
<1> QED
  BY <1>3, <1>4, <1>5

LEMMA MergeKeeps ==
  ASSUME ServiceInv, NEW l \in Link, Merge(l)
  PROVE  ServiceInv'
<1> DEFINE m == "findMatches"
<1>0. Shapes
  BY DEF ServiceInv
<1>1. /\ task[l].busy /\ \A n \in DOMAIN task[l].state : task[l].state[n] = "done"
      /\ Answers(l, conn, Reply(m, task[l].seqid, FlattenSeq(task[l].matches)), task[l])
      /\ task' = [task EXCEPT ![l] = NoTask]
      /\ build' = build /\ proc' = proc /\ caller' = caller /\ failures' = failures
  BY DEF Merge
<1>2. Settled /\ ProcessesSound'
  BY <1>1, ProcessesStill
<1>3. task[l].seqid = 0 /\ conn[l].stage = "served" /\ ~IsSlave(Server(l))
  BY <1>1 DEF ServiceInv, TaskSound, TaskOK
<1>4. /\ conn[l].req = <<>> /\ conn[l].rep = <<>>
      /\ IF l \in Caller
         THEN /\ caller[l].state = "waiting" /\ caller[l].method = m /\ made[l].times = 0
         ELSE /\ l \in Container /\ build = "simple"
              /\ \E j \in Link : \E n : Sends(j, n, l)
  BY <1>1, BusyFor
<1> PICK tokens : tokens = Reply(m, 0, FlattenSeq(task[l].matches))
  OBVIOUS
<1>5. IsSequence(tokens) /\ IsAnswer(tokens, m) /\ IsReply(tokens, m)
  BY ReplyAnswers DEF processMap_
<1>6. /\ conn' = [conn EXCEPT ![l] = [conn[l] EXCEPT !.rep = tokens]]
      /\ made' = [made EXCEPT ![l] = [times |-> made[l].times + 1, answer |-> tokens,
                      key |-> task[l].key, hosts |-> task[l].hosts, there |-> task[l].there]]
  <2>1. conn[l].rep \o tokens = tokens
    BY <1>4, <1>5, EmptyBefore
  <2> QED
    BY <1>1, <1>3, <2>1 DEF Answers
<1>7. /\ DOMAIN conn' = Link /\ DOMAIN conn'[l] = {"stage", "to", "req", "rep"}
      /\ conn'[l].stage = conn[l].stage /\ conn'[l].to = conn[l].to
      /\ conn'[l].req = <<>> /\ conn'[l].rep = tokens
      /\ \A k \in Link : k # l => conn'[k] = conn[k]
  BY <1>0, <1>4, <1>6 DEF Shapes
<1>8. /\ DOMAIN made' = Link /\ DOMAIN made'[l] = {"times", "answer", "key", "hosts", "there"}
      /\ made'[l].times = made[l].times + 1 /\ made'[l].answer = tokens
      /\ made'[l].key = task[l].key /\ made'[l].hosts = task[l].hosts /\ made'[l].there = task[l].there
      /\ \A k \in Link : k # l => made'[k] = made[k]
  BY <1>0, <1>6 DEF Shapes
<1>9. /\ DOMAIN task' = Link
      /\ DOMAIN task'[l] = {"busy", "key", "seqid", "hosts", "there", "state", "matches"}
      /\ ~task'[l].busy /\ task'[l].state = <<>>
      /\ \A k \in Link : k # l => task'[k] = task[k]
  BY <1>0, <1>1 DEF Shapes, NoTask
<1>10. Shapes'
  BY <1>0, <1>1, <1>2, <1>7, <1>8, <1>9 DEF Shapes, ProcessesSound
<1>11. Replies(l, tokens)
  BY <1>1, <1>7, <1>8, <1>9 DEF Replies, ServerStep
<1>12. RepliesTo(l, tokens)
  <2>1. CASE l \in Caller
    BY <1>4, <1>5, <2>1 DEF RepliesTo
  <2>2. CASE l \notin Caller
    <3> PICK a : a = l[2]
      OBVIOUS
    <3>1. Server(l) \in Listening(a)
      BY <1>3, <2>2, ContainerServer
    <3>2. Excused(a)
      BY <1>3, <3>1 DEF Excused
    <3>3. Excused(a)'
      BY <1>2, <3>2, StillExcused
    <3>4. \A key : FitsNext(l, tokens, key)
      BY <1>5, <3>3 DEF FitsNext
    <3> QED
      BY <1>4, <2>2, <3>4 DEF RepliesTo
  <2> QED
    BY <2>1, <2>2
<1>13. \A n, k : ~Sends(l, n, k)
  BY <1>1 DEF Sends
<1>14. /\ ConnSound' /\ OneServed' /\ TaskSound' /\ MatchesSound' /\ CallerSound'
       /\ DelegatorsSound' /\ HttpSound'
  BY <1>2, <1>11, <1>12, <1>13, RepliedSound
<1>15. MadeSound'
  <2>1. MadeOK(l)'
    <3> PICK r : r = made'[l]
      OBVIOUS
    <3>1. Answered(r)
      BY <1>1, <1>8, MergedAnswer
    <3>2. Answered(r)'
      BY <1>2, <3>1, StillAnswered
    <3>3. Answered(made[l])' <=> Answered(r)'
      BY DEF Answered
    <3> QED
      BY <3>2, <3>3 DEF MadeOK
  <2>2. \A k \in Link : k # l => MadeOK(k)'
    BY <1>2, <1>8, MadeStill DEF ServiceInv, MadeSound
  <2> QED
    BY <2>1, <2>2 DEF MadeSound
<1> QED
  BY <1>2, <1>10, <1>14, <1>15 DEF ServiceInv, ProcessesSound

-----------------------------------------------------------------------------
(* Delegators *)

(***************************************************************************)
(* A turn of delegator n of the findMatches on connection l, which works   *)
(* on container k and leaves every other connection alone.                 *)
(***************************************************************************)
TaskTurns(l, n) ==
  /\ DOMAIN task' = Link /\ \A j \in Link : j # l => task'[j] = task[j]
  /\ DOMAIN task'[l] = {"busy", "key", "seqid", "hosts", "there", "state", "matches"}
  /\ task'[l].busy /\ task'[l].key = task[l].key /\ task'[l].seqid = task[l].seqid
  /\ task'[l].hosts = task[l].hosts /\ task'[l].there = task[l].there
  /\ DOMAIN task'[l].state = DOMAIN task[l].state
  /\ IsFunction(task'[l].matches, DOMAIN task[l].hosts)
  /\ \A m \in DOMAIN task[l].state :
       m # n => task'[l].state[m] = task[l].state[m] /\ task'[l].matches[m] = task[l].matches[m]

TurnMatches(l, n) ==
  IF task'[l].state[n] \in {"got", "done"}
  THEN Brought(task[l].hosts[n], task[l].key, task[l].there, task'[l].matches[n])
  ELSE task'[l].matches[n] = <<>>

ConnTurns(k) ==
  /\ DOMAIN conn' = Link /\ \A j \in Link : j # k => conn'[j] = conn[j]
  /\ DOMAIN conn'[k] = {"stage", "to", "req", "rep"}
  /\ ConnOK(k)'
  /\ conn'[k].stage = "served" => conn[k].stage = "served" /\ conn'[k].to = conn[k].to

(* What the delegator leaves on the container. *)
TurnLine(l, n, k) ==
  /\ task'[l].state[n] \in {"open", "sent", "got"} => conn'[k].stage \in {"queued", "served"}
  /\ task'[l].state[n] = "sent" => DelegatorWaits(k, task[l].key)'
  /\ task'[l].state[n] # "sent" => Idle(k)'

OthersStill == build' = build /\ proc' = proc /\ caller' = caller /\ failures' = failures /\ made' = made

LEMMA TurnSound ==
  ASSUME ServiceInv, NEW l \in Link, NEW n \in DOMAIN task[l].state, NEW k, k = Host(l, n),
         OthersStill, ~task[k].busy, TaskTurns(l, n), TurnMatches(l, n), ConnTurns(k),
         build = "simple" => TurnLine(l, n, k),
         build = "http" => HttpOK(k)'
  PROVE  ServiceInv'
<1>0. Shapes /\ TaskSound /\ ConnSound /\ OneServed
  BY DEF ServiceInv
<1>1. Settled /\ ProcessesSound'
  BY ProcessesStill DEF OthersStill
<1>2. k \in Link /\ k \in Container /\ task[l].busy /\ k # l
  BY <1>0, BusyServed, LinkFacts
<1>3. \A j \in Link : task'[j].busy <=> task[j].busy
  BY <1>2 DEF TaskTurns
<1>4. \A j \in Link : j # k => conn'[j] = conn[j]
  BY DEF ConnTurns
<1>5. Shapes'
  BY <1>0, <1>1, <1>2 DEF Shapes, ProcessesSound, TaskTurns, ConnTurns, OthersStill
<1>6. ConnSound'
  <2>1. ASSUME NEW j \in Link, j # k PROVE ConnOK(j)'
    BY <1>0, <1>1, <1>4, <2>1, ConnStill DEF ConnSound
  <2> QED
    BY <2>1 DEF ConnSound, ConnTurns
<1>7. OneServed'
  <2> SUFFICES ASSUME build = "simple", NEW i \in Link, NEW j \in Link,
                      conn'[i].stage = "served", conn'[j].stage = "served", conn'[i].to = conn'[j].to
               PROVE  i = j
    BY DEF OneServed, OthersStill
  <2>1. conn[i].stage = "served" /\ conn'[i].to = conn[i].to
    BY <1>4 DEF ConnTurns
  <2>2. conn[j].stage = "served" /\ conn'[j].to = conn[j].to
    BY <1>4 DEF ConnTurns
  <2> QED
    BY <1>0, <2>1, <2>2 DEF OneServed
<1>8. ASSUME NEW j \in Link, NEW m \in DOMAIN task[j].state
      PROVE  Host(j, m)' = Host(j, m)
  <2>1. task[j].busy /\ conn[j].stage = "served" /\ Listening(conn[j].to) # {}
    BY <1>0, <1>8, BusyServed DEF ConnSound, ConnOK
  <2>2. j # k
    BY <2>1
  <2>3. Server(j)' = Server(j)
    BY <1>1, <1>4, <2>1, <2>2, StillServer
  <2>4. task'[j].hosts = task[j].hosts
    BY DEF TaskTurns
  <2> QED
    BY <2>3, <2>4 DEF Host
<1>9. TaskSound'
  <2>1. TaskOK(l)'
    <3>1. TaskOK(l) /\ ConnOK(l) /\ conn'[l] = conn[l]
      BY <1>0, <1>2, <1>4 DEF TaskSound, ConnSound
    <3>2. conn[l].stage = "served" /\ Listening(conn[l].to) # {}
      BY <1>2, <3>1 DEF TaskOK, ConnOK
    <3>3. Server(l)' = Server(l)
      BY <1>1, <3>1, <3>2, StillServer
    <3>4. ~IsSlave(Server(l))'
      BY <1>2, <3>1, <3>3 DEF TaskOK, IsSlave, OthersStill
    <3>5. Understood(l)'
      BY <1>1, <1>2, <3>1, StillUnderstood DEF TaskOK
    <3>6. \A a \in task'[l].there : Listening(a)' # {}
      BY <1>1, <1>2, <3>1 DEF TaskOK, Settled, TaskTurns
    <3> QED
      BY <1>2, <3>1, <3>2, <3>4, <3>5, <3>6 DEF TaskOK, TaskTurns
  <2>2. ASSUME NEW j \in Link, j # l PROVE TaskOK(j)'
    <3>1. task'[j] = task[j] /\ TaskOK(j) /\ ConnOK(j)
      BY <1>0, <2>2 DEF TaskSound, ConnSound, TaskTurns
    <3>2. CASE j # k
      BY <1>1, <1>4, <3>1, <3>2, TaskStill
    <3>3. CASE j = k
      BY <3>1, <3>3 DEF TaskOK
    <3> QED
      BY <3>2, <3>3
  <2> QED
    BY <2>1, <2>2 DEF TaskSound
<1>10. MatchesSound'
  <2>1. ASSUME NEW j \in Link, j # l PROVE MatchesOK(j)'
    BY <1>1, <2>1, MatchesStill DEF ServiceInv, MatchesSound, TaskTurns
  <2>2. MatchesOK(l)'
    <3> SUFFICES ASSUME NEW m \in DOMAIN task'[l].state
                 PROVE  IF task'[l].state[m] \in {"got", "done"}
                        THEN Brought(task[l].hosts[m], task[l].key, task[l].there, task[l].matches[m])'
                        ELSE task'[l].matches[m] = <<>>
      BY DEF MatchesOK
    <3>0. m \in DOMAIN task[l].state /\ MatchesOK(l)
      BY DEF TaskTurns, ServiceInv, MatchesSound
    <3> PICK a, key, there, v :
          a = task[l].hosts[m] /\ key = task[l].key /\ there = task[l].there /\ v = task'[l].matches[m]
      OBVIOUS
    <3>1. IF task'[l].state[m] \in {"got", "done"} THEN Brought(a, key, there, v) ELSE v = <<>>
      <4>1. CASE m = n
        BY <4>1 DEF TurnMatches
      <4>2. CASE m # n
        BY <3>0, <4>2 DEF TaskTurns, MatchesOK
      <4> QED
        BY <4>1, <4>2
    <3>2. Brought(task[l].hosts[m], task[l].key, task[l].there, task[l].matches[m])'
            <=> Brought(a, key, there, v)'
      BY DEF Brought, Excused, RowOf, Listening, TaskTurns
    <3>3. Brought(a, key, there, v) => Brought(a, key, there, v)'
      BY <1>1, StillBrought
    <3> QED
      BY <3>1, <3>2, <3>3
  <2> QED
    BY <2>1, <2>2 DEF MatchesSound
<1>11. CallerSound'
  <2> SUFFICES ASSUME NEW c \in Caller PROVE CallerOK(c)'
    BY DEF CallerSound
  <2>1. c \in Link /\ c # k /\ CallerOK(c)
    BY <1>2, LinkFacts DEF ServiceInv, CallerSound
  <2> QED
    BY <1>3, <1>4, <2>1, CallerStill DEF OthersStill
<1>12. DelegatorsSound'
  <2> SUFFICES ASSUME build = "simple"
               PROVE  /\ \A j \in Link : \A m \in DOMAIN task'[j].state : LineOK(j, m)'
                      /\ \A i \in Container : FreeOK(i)'
    BY DEF DelegatorsSound, OthersStill
  <2>0. TurnLine(l, n, k)
    OBVIOUS
  <2>1. ASSUME NEW j \in Link, NEW m \in DOMAIN task'[j].state PROVE LineOK(j, m)'
    <3>0. m \in DOMAIN task[j].state /\ task'[j].key = task[j].key
      BY <2>1 DEF TaskTurns
    <3> PICK i, key : i = Host(j, m) /\ key = task[j].key
      OBVIOUS
    <3>1. Host(j, m)' = i
      BY <1>8, <3>0
    <3>2. LineOK(j, m)' <=>
            /\ task'[j].state[m] \in {"open", "sent", "got"} => conn'[i].stage \in {"queued", "served"}
            /\ task'[j].state[m] = "sent" => DelegatorWaits(i, key)'
      BY <3>0, <3>1 DEF LineOK
    <3>3. CASE j = l /\ m = n
      <4>1. i = k /\ key = task[l].key
        BY <3>3
      <4>2. DelegatorWaits(k, task[l].key)' <=> DelegatorWaits(i, key)'
        BY <4>1, <3>0, <3>3 DEF DelegatorWaits, Fits
      <4> QED
        BY <2>0, <3>2, <3>3, <4>1, <4>2 DEF TurnLine
    <3>4. CASE ~(j = l /\ m = n)
      <4>1. i # k
        BY <1>0, <3>0, <3>4, OneDelegator
      <4>2. i \in Link /\ i \in Container /\ LineOK(j, m)
        BY <1>0, <3>0, BusyServed, LinkFacts DEF ServiceInv, DelegatorsSound
      <4>3. task'[j].state[m] = task[j].state[m] /\ conn'[i] = conn[i] /\ (task'[i].busy <=> task[i].busy)
        BY <1>3, <1>4, <3>0, <3>4, <4>1, <4>2 DEF TaskTurns
      <4>4. ASSUME task[j].state[m] = "sent" PROVE DelegatorWaits(i, key)'
        <5>1. DelegatorWaits(i, key) /\ conn[i].stage \in {"queued", "served"}
          BY <4>2, <4>4 DEF LineOK
        <5>2. Listening(i[2]) # {}
          BY <1>0, <4>2, <5>1 DEF ConnSound, ConnOK
        <5> QED
          BY <1>1, <4>3, <5>1, <5>2, WaitsStill
      <4> QED
        BY <3>2, <4>2, <4>3, <4>4 DEF LineOK
    <3> QED
      BY <3>3, <3>4
  <2>2. ASSUME NEW i \in Container PROVE FreeOK(i)'
    <3>0. i \in Link /\ FreeOK(i)
      BY LinkFacts DEF ServiceInv, DelegatorsSound
    <3>1. CASE i = k
      <4>1. CASE task'[l].state[n] = "sent"
        <5>1. Sends(l, n, k)' /\ n \in DOMAIN task'[l].state
          BY <1>8, <4>1 DEF Sends, TaskTurns
        <5> QED
          BY <3>1, <5>1 DEF FreeOK
      <4>2. CASE task'[l].state[n] # "sent"
        BY <2>0, <3>1, <4>2 DEF TurnLine, FreeOK
      <4> QED
        BY <4>1, <4>2
    <3>2. CASE i # k
      <4> SUFFICES ASSUME \A j \in Link : \A m \in DOMAIN task'[j].state : ~Sends(j, m, i)'
                   PROVE  Idle(i)'
        BY DEF FreeOK
      <4>1. ASSUME NEW j \in Link, NEW m \in DOMAIN task[j].state, Sends(j, m, i) PROVE FALSE
        <5>1. ~(j = l /\ m = n)
          BY <3>2, <4>1 DEF Sends
        <5>2. m \in DOMAIN task'[j].state /\ task'[j].state[m] = "sent"
          BY <4>1, <5>1 DEF Sends, TaskTurns
        <5>3. Sends(j, m, i)'
          BY <1>8, <4>1, <5>2 DEF Sends
        <5> QED
          BY <5>2, <5>3
      <4>2. Idle(i)
        BY <3>0, <4>1 DEF FreeOK
      <4> QED
        BY <1>3, <1>4, <3>0, <3>2, <4>2 DEF Idle
    <3> QED
      BY <3>1, <3>2
  <2> QED
    BY <2>1, <2>2
<1>13. HttpSound'
  <2> SUFFICES ASSUME build = "http", NEW i \in Container PROVE HttpOK(i)'
    BY DEF HttpSound, OthersStill
  <2>1. CASE i = k
    BY <2>1
  <2>2. CASE i # k
    <3>1. i \in Link /\ HttpOK(i)
      BY LinkFacts DEF ServiceInv, HttpSound
    <3>2. ~task'[i].busy /\ ~task[i].busy
      BY <1>3, <3>1 DEF HttpOK
    <3> QED
      BY <1>4, <2>2, <3>1, <3>2 DEF HttpOK, Whole
  <2> QED
    BY <2>1, <2>2
<1>14. MadeSound'
  BY <1>1, MadeStill DEF ServiceInv, MadeSound, OthersStill
<1> QED
  BY <1>1, <1>5, <1>6, <1>7, <1>9, <1>10, <1>11, <1>12, <1>13, <1>14 DEF ServiceInv, ProcessesSound

(***************************************************************************)
(* What a delegator finds when its turn comes.                             *)
(***************************************************************************)
LEMMA LineBefore ==
  ASSUME ServiceInv, NEW l \in Link, NEW n \in DOMAIN task[l].state, NEW k, k = Host(l, n)
  PROVE  /\ k \in Link /\ k \in Container /\ k[2] = task[l].hosts[n]
         /\ build = "simple" => LineOK(l, n) /\ (task[l].state[n] # "sent" => Idle(k))
         /\ build = "simple" => conn[k].stage # "ended"
         /\ build = "http" => HttpOK(k)
         /\ build \in {"http", "simple"}
         /\ DOMAIN conn = Link /\ DOMAIN conn[k] = {"stage", "to", "req", "rep"}
         /\ IF task[l].state[n] \in {"got", "done"}
            THEN Brought(task[l].hosts[n], task[l].key, task[l].there, task[l].matches[n])
            ELSE task[l].matches[n] = <<>>
         /\ \A b \in task[l].there : Listening(b) # {}
<1>0. Shapes /\ TaskSound /\ ConnSound /\ OneServed
  BY DEF ServiceInv
<1>1. /\ k \in Link /\ k \in Container /\ k[2] = task[l].hosts[n] /\ task[l].busy
  BY <1>0, BusyServed, LinkFacts
<1>2. ASSUME build = "simple", task[l].state[n] # "sent" PROVE Idle(k)
  <2>1. ASSUME NEW j \in Link, NEW m \in DOMAIN task[j].state, Sends(j, m, k) PROVE FALSE
    <3>1. j = l /\ m = n
      BY <1>0, <1>2, <2>1, OneDelegator DEF Sends
    <3> QED
      BY <1>2, <2>1, <3>1 DEF Sends
  <2> QED
    BY <1>1, <1>2, <2>1 DEF ServiceInv, DelegatorsSound, FreeOK
<1>3. ASSUME build = "simple" PROVE LineOK(l, n) /\ conn[k].stage # "ended"
  BY <1>0, <1>1, <1>3 DEF ServiceInv, DelegatorsSound, ConnSound, ConnOK, Understood
<1>4. build = "http" => HttpOK(k)
  BY <1>1 DEF ServiceInv, HttpSound
<1>5. MatchesOK(l) /\ TaskOK(l)
  BY DEF ServiceInv, MatchesSound, TaskSound
<1>6. IF task[l].state[n] \in {"got", "done"}
      THEN Brought(task[l].hosts[n], task[l].key, task[l].there, task[l].matches[n])
      ELSE task[l].matches[n] = <<>>
  BY <1>5 DEF MatchesOK
<1>7. \A b \in task[l].there : Listening(b) # {}
  BY <1>1, <1>5 DEF TaskOK
<1>8. build \in {"http", "simple"} /\ DOMAIN conn = Link /\ DOMAIN conn[k] = {"stage", "to", "req", "rep"}
  BY <1>0, <1>1 DEF Shapes
<1> QED
  BY <1>1, <1>2, <1>3, <1>4, <1>6, <1>7, <1>8

(***************************************************************************)
(* A turn of a delegator puts its task back with one state and one match   *)
(* changed.                                                                *)
(***************************************************************************)
TaskPuts(l, n, t) ==
  /\ DOMAIN t = DOMAIN task[l] /\ t.busy = task[l].busy /\ t.key = task[l].key
  /\ t.seqid = task[l].seqid /\ t.hosts = task[l].hosts /\ t.there = task[l].there
  /\ DOMAIN t.state = DOMAIN task[l].state /\ IsFunction(t.matches, DOMAIN task[l].hosts)
  /\ \A m \in DOMAIN task[l].state :
       m # n => t.state[m] = task[l].state[m] /\ t.matches[m] = task[l].matches[m]

LEMMA TaskPut ==
  ASSUME ServiceInv, NEW l \in Link, NEW n, n \in DOMAIN task[l].state,
         NEW t, TaskPuts(l, n, t), task' = [task EXCEPT ![l] = t]
  PROVE  TaskTurns(l, n) /\ task'[l] = t
<1>1. /\ DOMAIN task = Link /\ DOMAIN task[l] = {"busy", "key", "seqid", "hosts", "there", "state", "matches"}
      /\ task[l].busy
  BY DEF ServiceInv, Shapes, TaskSound, TaskOK
<1>2. DOMAIN task' = Link /\ task'[l] = t /\ \A j \in Link : j # l => task'[j] = task[j]
  BY <1>1
<1> QED
  BY <1>1, <1>2 DEF TaskTurns, TaskPuts

(***************************************************************************)
(* What open, send_findMatches, recv_findMatches and close do to the task. *)
(***************************************************************************)
LEMMA TurnedTask ==
  ASSUME ServiceInv, NEW l \in Link, NEW n, NEW from, NEW to, Turn(l, n, from, to)
  PROVE  /\ n \in DOMAIN task[l].state /\ task[l].state[n] = from
         /\ TaskTurns(l, n) /\ task'[l].state[n] = to /\ task'[l].matches[n] = task[l].matches[n]
         /\ OthersStill
<1>1. /\ n \in DOMAIN task[l].state /\ task[l].state[n] = from
      /\ task' = [task EXCEPT ![l].state[n] = to]
  BY DEF Turn
<1> PICK states, matches, v : /\ states = [task[l].state EXCEPT ![n] = to]
                              /\ v = task[l].matches[n] /\ matches = task[l].matches
  OBVIOUS
<1>2. DOMAIN task = Link /\ DOMAIN task[l] = {"busy", "key", "seqid", "hosts", "there", "state", "matches"}
  BY DEF ServiceInv, Shapes
<1>3. IsFunction(matches, DOMAIN task[l].hosts)
  BY <1>1 DEF ServiceInv, TaskSound, TaskOK
<1> PICK t : t = [task[l] EXCEPT !.state = states]
  OBVIOUS
<1>4. task' = [task EXCEPT ![l] = t]
  BY <1>1
<1>5. /\ DOMAIN t = DOMAIN task[l] /\ t.busy = task[l].busy /\ t.key = task[l].key
      /\ t.seqid = task[l].seqid /\ t.hosts = task[l].hosts /\ t.there = task[l].there
      /\ t.state = states /\ t.matches = matches
  BY <1>2
<1>6. t.state[n] = to /\ TaskPuts(l, n, t)
  BY <1>1, <1>3, <1>5 DEF TaskPuts
<1>7. TaskTurns(l, n) /\ task'[l] = t
  BY <1>1, <1>4, <1>6, TaskPut
<1> QED
  BY <1>1, <1>5, <1>6, <1>7 DEF Turn, OthersStill

LEMMA ClosedIs ==
  /\ Closed.stage = "closed" /\ Closed.req = <<>> /\ Closed.rep = <<>>
  /\ DOMAIN Closed = {"stage", "to", "req", "rep"}
BY DEF Closed

(***************************************************************************)
(* A connection that is put away.                                          *)
(***************************************************************************)
LEMMA PutAway ==
  ASSUME NEW k, DOMAIN conn = Link, k \in Link, conn' = [conn EXCEPT ![k] = Closed],
         ~task'[k].busy
  PROVE  ConnTurns(k) /\ Idle(k)' /\ HttpOK(k)'
<1>1. conn'[k] = Closed /\ DOMAIN conn' = Link /\ \A j \in Link : j # k => conn'[j] = conn[j]
  OBVIOUS
<1>2. /\ conn'[k].stage = "closed" /\ conn'[k].req = <<>> /\ conn'[k].rep = <<>>
      /\ DOMAIN conn'[k] = {"stage", "to", "req", "rep"}
  BY <1>1, ClosedIs
<1>3. ConnOK(k)'
  BY <1>2 DEF ConnOK
<1>4. ConnTurns(k)
  BY <1>1, <1>2, <1>3 DEF ConnTurns
<1>5. Idle(k)'
  BY <1>2 DEF Idle
<1>6. HttpOK(k)'
  <2>1. IsSequence(conn'[k].req) /\ Whole(conn'[k].req)
    BY <1>2, NoMessage
  <2> QED
    BY <1>2, <2>1 DEF HttpOK, Whole
<1> QED
  BY <1>4, <1>5, <1>6

(***************************************************************************)
(* The container of a delegator serves no findMatches of its own, other    *)
(* than in the answer to that delegator's call.                            *)
(***************************************************************************)
LEMMA NotItself ==
  ASSUME ServiceInv, NEW l \in Link, NEW n \in DOMAIN task[l].state, NEW k \in Link, ~task[k].busy,
         TaskTurns(l, n)
  PROVE  k # l /\ task'[k] = task[k]
<1>1. task[l].busy
  BY DEF ServiceInv, TaskSound, TaskOK
<1> QED
  BY <1>1 DEF TaskTurns

LEMMA OpenedIs ==
  ASSUME NEW a, NEW opened, opened = Opened(a)
  PROVE  \/ Listening(a) = {} /\ opened = Closed
         \/ /\ Listening(a) # {} /\ opened.stage = "queued" /\ opened.to = a
            /\ opened.req = <<>> /\ opened.rep = <<>> /\ DOMAIN opened = {"stage", "to", "req", "rep"}
BY DEF Opened, Closed

LEMMA OpenKeeps ==
  ASSUME ServiceInv, NEW l \in Link, NEW n, Open(l, n)
  PROVE  ServiceInv'
<1> PICK k, a : k = Host(l, n) /\ a = k[2]
  OBVIOUS
<1> PICK opened : opened = IF conn[k].stage = "closed" THEN Opened(a) ELSE conn[k]
  OBVIOUS
<1> PICK to : to = IF opened.stage = "closed" THEN "done" ELSE "open"
  OBVIOUS
<1>1. Turn(l, n, "new", to) /\ conn' = [conn EXCEPT ![k] = opened]
  BY DEF Open
<1>2. /\ n \in DOMAIN task[l].state /\ task[l].state[n] = "new"
      /\ TaskTurns(l, n) /\ task'[l].state[n] = to /\ task'[l].matches[n] = task[l].matches[n]
      /\ OthersStill
  BY <1>1, TurnedTask
<1>l. /\ k \in Link /\ k \in Container /\ k[2] = task[l].hosts[n]
      /\ build = "simple" => LineOK(l, n) /\ (task[l].state[n] # "sent" => Idle(k))
      /\ build = "simple" => conn[k].stage # "ended"
      /\ build = "http" => HttpOK(k)
      /\ build \in {"http", "simple"}
      /\ DOMAIN conn = Link /\ DOMAIN conn[k] = {"stage", "to", "req", "rep"}
      /\ IF task[l].state[n] \in {"got", "done"}
         THEN Brought(task[l].hosts[n], task[l].key, task[l].there, task[l].matches[n])
         ELSE task[l].matches[n] = <<>>
      /\ \A b \in task[l].there : Listening(b) # {}
  BY <1>2, LineBefore
<1>3. /\ k \in Link /\ k \in Container /\ a = task[l].hosts[n]
      /\ build = "simple" => Idle(k) /\ conn[k].stage # "ended"
      /\ build = "http" => HttpOK(k)
      /\ build \in {"http", "simple"}
      /\ DOMAIN conn = Link /\ DOMAIN conn[k] = {"stage", "to", "req", "rep"}
      /\ task[l].matches[n] = <<>> /\ \A b \in task[l].there : Listening(b) # {}
  BY <1>2, <1>l
<1>c. ConnOK(k)
  BY <1>3 DEF ServiceInv, ConnSound
<1>4. Settled
  BY <1>2, ProcessesStill DEF OthersStill
<1>5. ~task[k].busy
  BY <1>3 DEF Idle, HttpOK
<1>6. conn'[k] = opened /\ DOMAIN conn' = Link /\ \A j \in Link : j # k => conn'[j] = conn[j]
  BY <1>1, <1>3
<1>k. k # l /\ task'[k] = task[k]
  BY <1>2, <1>3, <1>5, NotItself
<1>7. \/ Listening(a) = {} /\ opened = Closed
      \/ /\ opened.stage = "queued" /\ opened.to = a /\ Listening(a) # {}
         /\ opened.req = <<>> /\ opened.rep = <<>> /\ DOMAIN opened = {"stage", "to", "req", "rep"}
      \/ opened.stage # "closed" /\ opened = conn[k]
  BY OpenedIs
<1>8. ConnTurns(k)
  <2>1. CASE opened = conn[k]
    <3>1. ConnOK(k)'
      BY <1>c, <1>4, <1>6, <2>1, ConnStill
    <3> QED
      BY <1>3, <1>6, <2>1, <3>1 DEF ConnTurns
  <2>2. CASE opened = Closed
    <3>1. ~task'[k].busy
      BY <1>5, <1>k
    <3> QED
      BY <1>1, <1>3, <2>2, <3>1, PutAway
  <2>3. CASE /\ opened.stage = "queued" /\ opened.to = a /\ Listening(a) # {}
             /\ DOMAIN opened = {"stage", "to", "req", "rep"}
    <3>1. Listening(a)' # {}
      BY <1>4, <2>3 DEF Settled
    <3>2. Listening(conn[k].to)' = Listening(a)'
      BY <1>6, <2>3 DEF Listening
    <3>3. ConnOK(k)'
      BY <1>6, <2>3, <3>1, <3>2 DEF ConnOK
    <3> QED
      BY <1>6, <2>3, <3>3 DEF ConnTurns
  <2> QED
    BY <1>7, <2>1, <2>2, <2>3
<1>9. TurnMatches(l, n)
  <2>1. CASE to = "open"
    BY <1>2, <1>3, <2>1 DEF TurnMatches
  <2>2. CASE to # "open"
    <3>1. to = "done" /\ opened.stage = "closed"
      BY <2>2
    <3>2. Listening(a) = {}
      BY <1>7, <3>1
    <3>3. a \notin task[l].there
      BY <1>3, <3>2
    <3>4. Brought(a, task[l].key, task[l].there, <<>>)
      BY <3>3 DEF Brought
    <3> QED
      BY <1>2, <1>3, <3>1, <3>4 DEF TurnMatches
  <2> QED
    BY <2>1, <2>2
<1>10. ASSUME build = "simple" PROVE TurnLine(l, n, k)
  <2>1. to \in {"open", "done"}
    OBVIOUS
  <2>2. Idle(k)'
    <3>1. Idle(k)
      BY <1>3, <1>10
    <3>2. opened.req = <<>> /\ opened.rep = <<>>
      BY <1>7, <3>1, ClosedIs DEF Idle
    <3> QED
      BY <1>5, <1>6, <1>k, <3>2 DEF Idle
  <2>3. to = "open" => conn'[k].stage \in {"queued", "served"}
    <3>1. conn[k].stage \in {"closed", "queued", "served"}
      BY <1>c, <1>3, <1>10 DEF ConnOK
    <3>2. to = "open" => opened.stage # "closed"
      OBVIOUS
    <3> QED
      BY <1>6, <1>7, <3>1, <3>2, ClosedIs
  <2> QED
    BY <1>2, <2>1, <2>2, <2>3 DEF TurnLine
<1>11. ASSUME build = "http" PROVE HttpOK(k)'
  <2>1. HttpOK(k)
    BY <1>3, <1>11
  <2>2. (opened.req = <<>> \/ opened.req = conn[k].req) /\ opened.rep = <<>>
    BY <1>7, <2>1, ClosedIs DEF HttpOK
  <2>3. IsSequence(opened.req) /\ Whole(opened.req)
    BY <2>1, <2>2, NoMessage DEF HttpOK
  <2> QED
    BY <1>5, <1>6, <1>k, <2>2, <2>3 DEF HttpOK, Whole
<1> QED
  BY <1>2, <1>5, <1>8, <1>9, <1>10, <1>11, TurnSound

LEMMA CloseKeeps ==
  ASSUME ServiceInv, NEW l \in Link, NEW n, Close(l, n)
  PROVE  ServiceInv'
<1> PICK k : k = Host(l, n)
  OBVIOUS
<1>1. Turn(l, n, "got", "done") /\ conn' = [conn EXCEPT ![k] = Closed]
  BY DEF Close
<1>2. /\ n \in DOMAIN task[l].state /\ task[l].state[n] = "got"
      /\ TaskTurns(l, n) /\ task'[l].state[n] = "done" /\ task'[l].matches[n] = task[l].matches[n]
      /\ OthersStill
  BY <1>1, TurnedTask
<1>l. /\ k \in Link /\ k \in Container
      /\ build = "simple" => LineOK(l, n) /\ (task[l].state[n] # "sent" => Idle(k))
      /\ build = "http" => HttpOK(k)
      /\ build \in {"http", "simple"} /\ DOMAIN conn = Link
      /\ IF task[l].state[n] \in {"got", "done"}
         THEN Brought(task[l].hosts[n], task[l].key, task[l].there, task[l].matches[n])
         ELSE task[l].matches[n] = <<>>
  BY <1>2, LineBefore
<1>3. ~task[k].busy
  BY <1>2, <1>l DEF Idle, HttpOK
<1>4. k # l /\ task'[k] = task[k]
  BY <1>2, <1>3, <1>l, NotItself
<1>5. ConnTurns(k) /\ Idle(k)' /\ HttpOK(k)'
  BY <1>1, <1>3, <1>4, <1>l, PutAway
<1>6. TurnMatches(l, n)
  BY <1>2, <1>l DEF TurnMatches
<1>7. TurnLine(l, n, k)
  BY <1>2, <1>5 DEF TurnLine
<1> QED
  BY <1>2, <1>3, <1>5, <1>6, <1>7, TurnSound

(***************************************************************************)
(* A delegator sends its call.                                             *)
(***************************************************************************)
LEMMA ConnPut ==
  ASSUME ServiceInv, Settled, NEW k \in Link, NEW x, conn' = [conn EXCEPT ![k] = x],
         DOMAIN x = DOMAIN conn[k], x.stage = conn[k].stage, x.to = conn[k].to
  PROVE  ConnTurns(k) /\ conn'[k] = x
<1>1. DOMAIN conn = Link /\ DOMAIN conn[k] = {"stage", "to", "req", "rep"} /\ ConnOK(k)
  BY DEF ServiceInv, Shapes, ConnSound
<1>2. conn'[k] = x /\ DOMAIN conn' = Link /\ \A j \in Link : j # k => conn'[j] = conn[j]
  BY <1>1
<1>3. ConnOK(k)'
  BY <1>1, <1>2, ConnStill
<1> QED
  BY <1>1, <1>2, <1>3 DEF ConnTurns

LEMMA SendKeeps ==
  ASSUME ServiceInv, NEW l \in Link, NEW n, send_findMatches(l, n)
  PROVE  ServiceInv'
<1> PICK k, key : k = Host(l, n) /\ key = task[l].key
  OBVIOUS
<1> PICK call : call = KeyCall(key)
  OBVIOUS
<1>1. \/ /\ Turn(l, n, "open", "sent") /\ conn[k].stage # "closed"
         /\ conn' = [conn EXCEPT ![k].req = IF conn[k].stage = "ended" THEN @ ELSE @ \o call]
      \/ /\ Turn(l, n, "open", "done") /\ conn[k].stage \in {"ended", "closed"}
         /\ conn' = [conn EXCEPT ![k] = Closed]
  BY DEF send_findMatches, KeyCall
<1> PICK to : to \in {"sent", "done"} /\ Turn(l, n, "open", to)
              /\ (to = "sent" <=> task'[l].state[n] = "sent")
  <2>1. CASE Turn(l, n, "open", "sent")
    <3>1. task'[l].state[n] = "sent"
      BY <2>1, TurnedTask
    <3> QED
      BY <2>1, <3>1
  <2>2. CASE Turn(l, n, "open", "done")
    <3>1. task'[l].state[n] = "done"
      BY <2>2, TurnedTask
    <3> QED
      BY <2>2, <3>1
  <2> QED
    BY <1>1, <2>1, <2>2
<1>2. /\ n \in DOMAIN task[l].state /\ task[l].state[n] = "open"
      /\ TaskTurns(l, n) /\ task'[l].state[n] = to /\ task'[l].matches[n] = task[l].matches[n]
      /\ OthersStill
  BY TurnedTask
<1>l. /\ k \in Link /\ k \in Container
      /\ build = "simple" => LineOK(l, n) /\ (task[l].state[n] # "sent" => Idle(k))
      /\ build = "http" => HttpOK(k)
      /\ build \in {"http", "simple"}
      /\ DOMAIN conn = Link /\ DOMAIN conn[k] = {"stage", "to", "req", "rep"}
      /\ IF task[l].state[n] \in {"got", "done"}
         THEN Brought(task[l].hosts[n], task[l].key, task[l].there, task[l].matches[n])
         ELSE task[l].matches[n] = <<>>
  BY <1>2, LineBefore
<1>3. /\ build = "simple" => Idle(k) /\ conn[k].stage \in {"queued", "served"}
      /\ build = "http" => HttpOK(k)
      /\ task[l].matches[n] = <<>>
  BY <1>2, <1>l DEF LineOK
<1>4. ~task[k].busy
  BY <1>3, <1>l DEF Idle, HttpOK
<1>5. k # l /\ task'[k] = task[k]
  BY <1>2, <1>4, <1>l, NotItself
<1>6. Settled
  BY <1>2, ProcessesStill DEF OthersStill
<1>7. CASE /\ Turn(l, n, "open", "sent") /\ conn[k].stage # "closed"
           /\ conn' = [conn EXCEPT ![k].req = IF conn[k].stage = "ended" THEN @ ELSE @ \o call]
  <2>0. task'[l].state[n] = "sent"
    BY <1>7, TurnedTask
  <2> PICK req : req = IF conn[k].stage = "ended" THEN conn[k].req ELSE conn[k].req \o call
    OBVIOUS
  <2> PICK x : x = [conn[k] EXCEPT !.req = req]
    OBVIOUS
  <2>1. conn' = [conn EXCEPT ![k] = x]
    BY <1>7
  <2>2. /\ DOMAIN x = DOMAIN conn[k] /\ x.stage = conn[k].stage /\ x.to = conn[k].to
        /\ x.req = req /\ x.rep = conn[k].rep
    BY <1>l
  <2>3. ConnTurns(k) /\ conn'[k] = x
    BY <1>6, <1>l, <2>1, <2>2, ConnPut
  <2>4. IsSequence(call) /\ Whole(call)
    BY KeyCallRead
  <2>5. TurnMatches(l, n)
    BY <1>2, <1>3, <2>0 DEF TurnMatches
  <2>6. ASSUME build = "simple" PROVE TurnLine(l, n, k)
    <3>1. req = call
      BY <1>3, <2>4, <2>6, EmptyBefore DEF Idle
    <3>2. DelegatorWaits(k, key)'
      BY <1>3, <1>5, <2>2, <2>3, <2>6, <3>1 DEF DelegatorWaits, Idle
    <3>3. DelegatorWaits(k, task[l].key)' <=> DelegatorWaits(k, key)'
      BY <1>2 DEF DelegatorWaits, TaskTurns, Fits
    <3>4. conn'[k].stage \in {"queued", "served"}
      BY <1>3, <2>2, <2>3, <2>6
    <3> QED
      BY <2>0, <3>2, <3>3, <3>4 DEF TurnLine
  <2>7. ASSUME build = "http" PROVE HttpOK(k)'
    <3>1. HttpOK(k)
      BY <1>3, <2>7
    <3>2. IsSequence(req) /\ Whole(req)
      BY <2>4, <3>1, WholeBehind DEF HttpOK
    <3>3. ~task'[k].busy /\ conn'[k].rep = <<>> /\ conn'[k].req = req
      BY <1>4, <1>5, <2>2, <2>3, <3>1 DEF HttpOK
    <3> QED
      BY <3>2, <3>3 DEF HttpOK, Whole
  <2> QED
    BY <1>2, <1>4, <2>3, <2>5, <2>6, <2>7, TurnSound
<1>8. CASE /\ Turn(l, n, "open", "done") /\ conn[k].stage \in {"ended", "closed"}
           /\ conn' = [conn EXCEPT ![k] = Closed]
  <2>1. build = "http"
    BY <1>3, <1>8, <1>l
  <2>2. ConnTurns(k) /\ HttpOK(k)'
    BY <1>4, <1>5, <1>8, <1>l, PutAway
  <2>3. Brought(task[l].hosts[n], task[l].key, task[l].there, <<>>)
    BY <2>1 DEF Brought
  <2>4. TurnMatches(l, n)
    BY <1>2, <1>3, <2>3 DEF TurnMatches
  <2> QED
    BY <1>2, <1>4, <2>1, <2>2, <2>4, TurnSound
<1> QED
  BY <1>1, <1>7, <1>8

(***************************************************************************)
(* What a delegator makes of what has come back.                           *)
(***************************************************************************)
LEMMA FitsReads ==
  ASSUME NEW k, NEW key, Fits(k, key)
  PROVE  /\ conn[k].rep # <<>> => AfterStruct(Tail(conn[k].rep)) = <<>>
         /\ \/ failures > 0 /\ Recv("findMatches", conn[k].rep).kind = "thrown"
            \/ /\ Recv("findMatches", conn[k].rep).kind = "returned"
               /\ Excused(k[2]) \/ Recv("findMatches", conn[k].rep).value = RowOf(k[2], key)
<1> PICK rep, v : rep = conn[k].rep /\ v = rep[2].value
  OBVIOUS
<1>1. CASE failures > 0 /\ IsException(rep, "findMatches")
  <2>1. rep = Exception("findMatches", 0, v)
    BY <1>1 DEF IsException
  <2>2. AfterStruct(Tail(rep)) = <<>> /\ Recv("findMatches", rep) = Thrown(v)
    BY <2>1, ExceptionRead
  <2> QED
    BY <1>1, <2>2 DEF Thrown
<1>2. CASE IsReply(rep, "findMatches") /\ (Excused(k[2]) \/ v = RowOf(k[2], key))
  <2>1. rep = Reply("findMatches", 0, v) /\ "findMatches" \in processMap_
    BY <1>2 DEF IsReply, processMap_
  <2>2. AfterStruct(Tail(rep)) = <<>> /\ Recv("findMatches", rep) = Returned(v)
    BY <2>1, ReplyRead
  <2> QED
    BY <1>2, <2>2 DEF Returned
<1> QED
  BY <1>1, <1>2 DEF Fits

LEMMA RecvKeeps ==
  ASSUME ServiceInv, NEW l \in Link, NEW n, recv_findMatches(l, n)
  PROVE  ServiceInv'
<1> PICK k, key : k = Host(l, n) /\ key = task[l].key
  OBVIOUS
<1> PICK answer : answer = Recv("findMatches", conn[k].rep)
  OBVIOUS
<1>1. \/ /\ conn[k].rep # <<>>
         /\ n \in DOMAIN task[l].state /\ task[l].state[n] = "sent"
         /\ conn' = [conn EXCEPT ![k].rep = AfterStruct(Tail(@))]
         /\ task' = [task EXCEPT ![l].state[n] = IF answer.kind = "returned" THEN "got" ELSE "done",
                                 ![l].matches[n] = IF answer.kind = "returned" THEN answer.value ELSE @]
         /\ OthersStill
      \/ /\ conn[k].rep = <<>> /\ conn[k].stage \in {"ended", "closed"}
         /\ Turn(l, n, "sent", "done") /\ conn' = conn
  BY DEF recv_findMatches, OthersStill
<1>2. n \in DOMAIN task[l].state /\ task[l].state[n] = "sent"
  BY <1>1 DEF Turn
<1>l. /\ k \in Link /\ k \in Container /\ k[2] = task[l].hosts[n]
      /\ build = "simple" => LineOK(l, n) /\ (task[l].state[n] # "sent" => Idle(k))
      /\ build = "http" => HttpOK(k)
      /\ build \in {"http", "simple"}
      /\ DOMAIN conn = Link /\ DOMAIN conn[k] = {"stage", "to", "req", "rep"}
      /\ IF task[l].state[n] \in {"got", "done"}
         THEN Brought(task[l].hosts[n], task[l].key, task[l].there, task[l].matches[n])
         ELSE task[l].matches[n] = <<>>
  BY <1>2, LineBefore
<1>3. /\ build = "simple" => DelegatorWaits(k, key) /\ conn[k].stage \in {"queued", "served"}
      /\ build = "http" => HttpOK(k)
      /\ task[l].matches[n] = <<>>
  BY <1>2, <1>l DEF LineOK
<1>4. ConnOK(k)
  BY <1>l DEF ServiceInv, ConnSound
<1>7. CASE /\ conn[k].rep # <<>>
           /\ conn' = [conn EXCEPT ![k].rep = AfterStruct(Tail(@))]
           /\ task' = [task EXCEPT ![l].state[n] = IF answer.kind = "returned" THEN "got" ELSE "done",
                                   ![l].matches[n] = IF answer.kind = "returned" THEN answer.value ELSE @]
           /\ OthersStill
  <2>0. build = "simple"
    BY <1>3, <1>7, <1>l DEF HttpOK
  <2>1. Fits(k, key) /\ conn[k].req = <<>> /\ ~task[k].busy
    BY <1>3, <1>7, <2>0 DEF DelegatorWaits
  <2>2. /\ AfterStruct(Tail(conn[k].rep)) = <<>>
        /\ \/ failures > 0 /\ answer.kind = "thrown"
           \/ /\ answer.kind = "returned"
              /\ Excused(k[2]) \/ answer.value = RowOf(k[2], key)
    BY <1>7, <2>1, FitsReads
  <2> PICK to, v : /\ to = IF answer.kind = "returned" THEN "got" ELSE "done"
                   /\ v = IF answer.kind = "returned" THEN answer.value ELSE <<>>
    OBVIOUS
  <2> PICK states, matches : /\ states = [task[l].state EXCEPT ![n] = to]
                             /\ matches = [task[l].matches EXCEPT ![n] = v]
    OBVIOUS
  <2>3. /\ DOMAIN task = Link /\ DOMAIN task[l] = {"busy", "key", "seqid", "hosts", "there", "state", "matches"}
        /\ DOMAIN task[l].state = DOMAIN task[l].hosts
        /\ IsFunction(task[l].matches, DOMAIN task[l].hosts)
    BY <1>2 DEF ServiceInv, Shapes, TaskSound, TaskOK
  <2>4. task[l].matches[n] = <<>>
    BY <1>3
  <2> PICK t : t = [[task[l] EXCEPT !.state = states] EXCEPT !.matches = matches]
    OBVIOUS
  <2>5. task' = [task EXCEPT ![l] = t]
    BY <1>7, <2>3, <2>4
  <2>6. /\ DOMAIN t = DOMAIN task[l] /\ t.busy = task[l].busy /\ t.key = task[l].key
        /\ t.seqid = task[l].seqid /\ t.hosts = task[l].hosts /\ t.there = task[l].there
        /\ t.state = states /\ t.matches = matches
    BY <2>3
  <2>7. /\ IsFunction(matches, DOMAIN task[l].hosts) /\ matches[n] = v
        /\ \A m \in DOMAIN task[l].state : m # n => matches[m] = task[l].matches[m]
    <3> PICK D, f : D = DOMAIN task[l].hosts /\ f = task[l].matches
      OBVIOUS
    <3>1. n \in D /\ f = [x \in D |-> f[x]] /\ matches = [f EXCEPT ![n] = v]
      BY <1>2, <2>3 DEF IsFunction
    <3>2. matches = [x \in D |-> IF x = n THEN v ELSE f[x]]
      BY <3>1
    <3>3. [x \in D |-> matches[x]] = [x \in D |-> IF x = n THEN v ELSE f[x]]
      BY <3>2
    <3>4. IsFunction(matches, D)
      BY <3>2, <3>3 DEF IsFunction
    <3>5. matches[n] = v /\ \A m \in D : m # n => matches[m] = f[m]
      BY <3>1, <3>2
    <3> QED
      BY <2>3, <3>4, <3>5
  <2>8. t.state[n] = to /\ t.matches[n] = v /\ TaskPuts(l, n, t)
    BY <1>2, <2>6, <2>7 DEF TaskPuts
  <2>9. TaskTurns(l, n) /\ task'[l] = t
    BY <1>2, <2>5, <2>8, TaskPut
  <2>10. k # l /\ task'[k] = task[k]
    BY <1>2, <1>l, <2>1, <2>9, NotItself
  <2>11. Settled
    BY <1>7, ProcessesStill DEF OthersStill
  <2> PICK x : x = [conn[k] EXCEPT !.rep = <<>>]
    OBVIOUS
  <2>12. conn' = [conn EXCEPT ![k] = x]
    BY <1>7, <2>2
  <2>13. /\ DOMAIN x = DOMAIN conn[k] /\ x.stage = conn[k].stage /\ x.to = conn[k].to
         /\ x.req = conn[k].req /\ x.rep = <<>>
    BY <1>l
  <2>14. ConnTurns(k) /\ conn'[k] = x
    BY <1>l, <2>11, <2>12, <2>13, ConnPut
  <2>15. TurnMatches(l, n)
    <3> PICK a, there : a = task[l].hosts[n] /\ there = task[l].there
      OBVIOUS
    <3>1. a = k[2] /\ Listening(a) # {}
      BY <1>3, <1>4, <1>l, <2>0 DEF ConnOK
    <3>2. Brought(a, key, there, v)
      <4>1. CASE failures > 0
        BY <2>0, <4>1 DEF Brought, Excused
      <4>2. CASE answer.kind = "returned" /\ (Excused(a) \/ answer.value = RowOf(a, key))
        BY <2>0, <3>1, <4>2 DEF Brought
      <4> QED
        BY <2>2, <3>1, <4>1, <4>2
    <3> QED
      BY <2>8, <2>9, <3>2 DEF TurnMatches
  <2>16. TurnLine(l, n, k)
    <3>1. to # "sent" /\ conn'[k].stage \in {"queued", "served"}
      BY <1>3, <2>0, <2>13, <2>14
    <3>2. Idle(k)'
      BY <2>1, <2>10, <2>13, <2>14 DEF Idle
    <3> QED
      BY <2>8, <2>9, <3>1, <3>2 DEF TurnLine
  <2> QED
    BY <1>2, <1>7, <2>0, <2>1, <2>9, <2>14, <2>15, <2>16, TurnSound
<1>8. CASE /\ conn[k].rep = <<>> /\ conn[k].stage \in {"ended", "closed"}
           /\ Turn(l, n, "sent", "done") /\ conn' = conn
  <2>1. build = "http"
    BY <1>3, <1>8, <1>l
  <2>2. /\ TaskTurns(l, n) /\ task'[l].state[n] = "done" /\ task'[l].matches[n] = task[l].matches[n]
        /\ OthersStill
    BY <1>8, TurnedTask
  <2>3. HttpOK(k) /\ ~task[k].busy
    BY <1>3, <2>1 DEF HttpOK
  <2>4. task'[k] = task[k]
    BY <1>2, <1>l, <2>2, <2>3, NotItself
  <2>5. Settled
    BY <2>2, ProcessesStill DEF OthersStill
  <2>7. ConnTurns(k)
    <3>1. ConnOK(k)'
      BY <1>4, <1>8, <2>5, ConnStill
    <3> QED
      BY <1>8, <1>l, <3>1 DEF ConnTurns
  <2>8. HttpOK(k)'
    BY <1>8, <2>3, <2>4, HttpStill
  <2>9. Brought(task[l].hosts[n], task[l].key, task[l].there, <<>>)
    BY <2>1 DEF Brought
  <2>10. TurnMatches(l, n)
    BY <1>3, <2>2, <2>9 DEF TurnMatches
  <2> QED
    BY <1>2, <2>1, <2>2, <2>3, <2>7, <2>8, <2>10, TurnSound
<1> QED
  BY <1>1, <1>7, <1>8

LEMMA DelegateKeeps ==
  ASSUME ServiceInv, NEW l \in Link, Delegate(l)
  PROVE  ServiceInv'
BY OpenKeeps, SendKeeps, RecvKeeps, CloseKeeps DEF Delegate

-----------------------------------------------------------------------------
(* Connections, processes and callers *)

(***************************************************************************)
(* A step that leaves the tasks alone and works on some of the connections.*)
(***************************************************************************)
Alone(j) ==
  conn'[j] = conn[j] /\ made'[j] = made[j] /\ (j \in Caller => caller'[j] = caller[j])

Works(j) ==
  /\ DOMAIN conn'[j] = {"stage", "to", "req", "rep"}
  /\ ConnOK(j)' /\ MadeOK(j)'
  /\ task[j].busy => conn'[j].stage = conn[j].stage /\ conn'[j].to = conn[j].to
  /\ j \in Caller => CallerOK(j)'
  /\ j \in Container /\ build = "simple" =>
       /\ Quiet(j)
       /\ conn'[j].stage = conn[j].stage \/ conn'[j].stage \in {"queued", "served"}
  /\ j \in Container /\ build = "http" => HttpOK(j)'

Framed ==
  /\ DOMAIN caller = Caller /\ DOMAIN conn = Link /\ DOMAIN made = Link
  /\ \A c \in Caller : DOMAIN caller[c] = {"state", "method", "answer"}
  /\ \A l \in Link : DOMAIN made[l] = {"times", "answer", "key", "hosts", "there"}

LEMMA StepSound ==
  ASSUME ServiceInv, Settled, ProcessesSound', Framed', OneServed', task' = task,
         \A j \in Link : Alone(j) \/ Works(j)
  PROVE  ServiceInv'
<1>0. Shapes /\ TaskSound /\ ConnSound /\ OneServed /\ build' = build
  BY DEF ServiceInv, Settled
<1>1. Shapes'
  BY <1>0 DEF Shapes, ProcessesSound, Framed, Alone, Works
<1>2. ConnSound'
  <2> SUFFICES ASSUME NEW j \in Link PROVE ConnOK(j)'
    BY DEF ConnSound
  <2>1. CASE Alone(j)
    BY <1>0, <2>1, ConnStill DEF ConnSound, Alone
  <2> QED
    BY <2>1 DEF Works
<1>3. \A j \in Link : task[j].busy => conn'[j].stage = conn[j].stage /\ conn'[j].to = conn[j].to
  BY DEF Alone, Works
<1>4. TaskSound'
  <2> SUFFICES ASSUME NEW j \in Link PROVE TaskOK(j)'
    BY DEF TaskSound
  <2>0. TaskOK(j) /\ ConnOK(j)
    BY <1>0 DEF TaskSound, ConnSound
  <2>1. CASE task[j].busy
    BY <1>3, <2>0, <2>1, TaskStill
  <2>2. CASE ~task[j].busy
    BY <2>0, <2>2 DEF TaskOK
  <2> QED
    BY <2>1, <2>2
<1>5. MatchesSound'
  BY MatchesStill DEF ServiceInv, MatchesSound
<1>6. CallerSound'
  <2> SUFFICES ASSUME NEW c \in Caller PROVE CallerOK(c)'
    BY DEF CallerSound
  <2>0. c \in Link /\ CallerOK(c)
    BY LinkFacts DEF ServiceInv, CallerSound
  <2>1. CASE Alone(c)
    BY <2>0, <2>1, CallerStill DEF Alone
  <2> QED
    BY <2>0, <2>1 DEF Works
<1>7. ASSUME build = "simple", NEW j \in Container
      PROVE  /\ j \in Link /\ Quiet(j)
             /\ conn'[j].stage = conn[j].stage \/ conn'[j].stage \in {"queued", "served"}
  <2>1. j \in Link
    BY LinkFacts
  <2> QED
    BY <1>7, <2>1 DEF Alone, Works, Quiet
<1>8. \A j \in Link : \A n \in DOMAIN task[j].state : HostStill(j)
  BY <1>0, <1>3, BusyServed DEF HostStill
<1>9. DelegatorsSound'
  <2> SUFFICES ASSUME build = "simple"
               PROVE  /\ \A j \in Link : \A n \in DOMAIN task[j].state : LineOK(j, n)'
                      /\ \A k \in Container : FreeOK(k)'
    BY <1>0 DEF DelegatorsSound
  <2>1. ASSUME NEW j \in Link, NEW n \in DOMAIN task[j].state PROVE LineOK(j, n)'
    <3> PICK k : k = Host(j, n)
      OBVIOUS
    <3>1. k \in Container /\ LineOK(j, n)
      BY <1>0, <2>1, BusyServed DEF ServiceInv, DelegatorsSound
    <3>2. HostStill(j)
      BY <1>8, <2>1
    <3> QED
      BY <1>0, <1>7, <2>1, <3>1, <3>2, LineStill
  <2>2. ASSUME NEW k \in Container PROVE FreeOK(k)'
    <3>1. ASSUME NEW j \in Link, NEW m, Sends(j, m, k) PROVE Sends(j, m, k)'
      <4>1. HostStill(j)
        BY <1>8, <3>1 DEF Sends
      <4> QED
        BY <1>0, <3>1, <4>1, StillSends
    <3>2. FreeOK(k) /\ Quiet(k)
      BY <1>7 DEF ServiceInv, DelegatorsSound
    <3> QED
      BY <3>1, <3>2, FreeStill
  <2> QED
    BY <2>1, <2>2
<1>10. HttpSound'
  <2> SUFFICES ASSUME build = "http", NEW k \in Container PROVE HttpOK(k)'
    BY <1>0 DEF HttpSound
  <2>1. k \in Link /\ HttpOK(k)
    BY LinkFacts DEF ServiceInv, HttpSound
  <2>2. CASE Alone(k)
    BY <2>1, <2>2, HttpStill DEF Alone
  <2> QED
    BY <2>1, <2>2 DEF Works
<1>11. MadeSound'
  <2> SUFFICES ASSUME NEW j \in Link PROVE MadeOK(j)'
    BY DEF MadeSound
  <2>1. CASE Alone(j)
    BY <2>1, MadeStill DEF ServiceInv, MadeSound, Alone
  <2> QED
    BY <2>1 DEF Works
<1> QED
  BY <1>1, <1>2, <1>4, <1>5, <1>6, <1>9, <1>10, <1>11 DEF ServiceInv, ProcessesSound

(***************************************************************************)
(* A connection is accepted: with start_server, one at a time.             *)
(***************************************************************************)
LEMMA ServedOne ==
  ASSUME ServiceInv, build = "simple", NEW j \in Link, conn[j].stage = "served"
  PROVE  Cardinality(Served(Server(j))) = 1
<1> PICK p : p = Server(j)
  OBVIOUS
<1>1. p \in Listening(conn[j].to)
  BY ServerListens DEF ServiceInv, ConnSound, ConnOK
<1>2. ASSUME NEW i \in Served(p) PROVE i = j
  <2>1. i \in Link /\ conn[i].stage = "served" /\ Server(i) = p
    BY DEF Served
  <2>2. p \in Listening(conn[i].to)
    BY <2>1, ServerListens DEF ServiceInv, ConnSound, ConnOK
  <2>3. conn[i].to = conn[j].to
    BY <1>1, <2>2 DEF Listening
  <2> QED
    BY <2>1, <2>3 DEF ServiceInv, OneServed
<1>3. j \in Served(p)
  BY DEF Served
<1>4. Served(p) = {j}
  BY <1>2, <1>3
<1> QED
  BY <1>4, FS_Singleton

LEMMA AcceptKeeps ==
  ASSUME ServiceInv, NEW l \in Link, Accept(l)
  PROVE  ServiceInv'
<1>0. Shapes /\ ConnOK(l) /\ TaskOK(l)
  BY DEF ServiceInv, ConnSound, TaskSound
<1>1. /\ conn[l].stage = "queued" /\ Cardinality(Served(Server(l))) < Threads
      /\ conn' = [conn EXCEPT ![l] = [conn[l] EXCEPT !.stage = "served"]]
      /\ build' = build /\ proc' = proc /\ task' = task /\ caller' = caller
      /\ failures' = failures /\ made' = made
  BY DEF Accept
<1>2. Settled /\ ProcessesSound'
  BY <1>1, ProcessesStill
<1>3. /\ DOMAIN conn' = Link /\ DOMAIN conn'[l] = {"stage", "to", "req", "rep"}
      /\ conn'[l].stage = "served" /\ conn'[l].to = conn[l].to
      /\ conn'[l].req = conn[l].req /\ conn'[l].rep = conn[l].rep
      /\ \A j \in Link : j # l => conn'[j] = conn[j]
  BY <1>0, <1>1 DEF Shapes
<1>4. Framed'
  BY <1>0, <1>1, <1>3 DEF Shapes, Framed
<1>5. ASSUME build = "simple", NEW j \in Link, conn[j].stage = "served", conn[j].to = conn[l].to
      PROVE  FALSE
  <2>1. Server(j) = Server(l)
    BY <1>5 DEF Server
  <2>2. Cardinality(Served(Server(l))) = 1
    BY <1>5, <2>1, ServedOne
  <2> QED
    BY <1>1, <1>5, <2>2 DEF Threads
<1>6. OneServed'
  <2> SUFFICES ASSUME build = "simple", NEW i \in Link, NEW j \in Link,
                      conn'[i].stage = "served", conn'[j].stage = "served", conn'[i].to = conn'[j].to
               PROVE  i = j
    BY <1>1 DEF OneServed
  <2>1. CASE i # l /\ j # l
    BY <1>3, <2>1 DEF ServiceInv, OneServed
  <2>2. CASE i = l /\ j # l
    BY <1>3, <1>5, <2>2
  <2>3. CASE i # l /\ j = l
    BY <1>3, <1>5, <2>3
  <2> QED
    BY <2>1, <2>2, <2>3
<1>7. Works(l)
  <2>1. ConnOK(l)'
    <3> PICK a : a = conn[l].to
      OBVIOUS
    <3>1. Listening(a)' # {}
      BY <1>0, <1>1, <1>2 DEF ConnOK, Settled
    <3>2. Listening(conn[l].to)' = Listening(a)'
      BY <1>3 DEF Listening
    <3> QED
      BY <1>0, <1>1, <1>3, <3>1, <3>2 DEF ConnOK
  <2>2. MadeOK(l)'
    BY <1>1, <1>2, MadeStill DEF ServiceInv, MadeSound
  <2>3. ~task[l].busy
    BY <1>0, <1>1 DEF TaskOK
  <2>4. l \in Caller => CallerOK(l)'
    BY <1>1, <1>3, CallerStill DEF ServiceInv, CallerSound
  <2>5. l \in Container /\ build = "http" => HttpOK(l)'
    BY <1>1, <1>3, HttpStill DEF ServiceInv, HttpSound
  <2>6. Quiet(l)
    BY <1>1, <1>3 DEF Quiet
  <2> QED
    BY <1>3, <2>1, <2>2, <2>3, <2>4, <2>5, <2>6 DEF Works
<1>8. \A j \in Link : j # l => Alone(j)
  BY <1>1, <1>3 DEF Alone
<1> QED
  BY <1>1, <1>2, <1>4, <1>6, <1>7, <1>8, StepSound

LEMMA RefuseKeeps ==
  ASSUME ServiceInv, NEW l \in Link, Refuse(l)
  PROVE  ServiceInv'
<1>0. Shapes /\ ConnOK(l)
  BY DEF ServiceInv, ConnSound
<1>1. /\ conn[l].stage = "served" /\ ~Understood(l)
      /\ conn' = [conn EXCEPT ![l].stage = "ended", ![l].req = <<>>]
      /\ build' = build /\ proc' = proc /\ task' = task /\ caller' = caller
      /\ failures' = failures /\ made' = made
  BY DEF Refuse
<1>2. Settled /\ ProcessesSound'
  BY <1>1, ProcessesStill
<1> PICK x : x = [[conn[l] EXCEPT !.stage = "ended"] EXCEPT !.req = <<>>]
  OBVIOUS
<1>3. conn' = [conn EXCEPT ![l] = x]
  BY <1>0, <1>1 DEF Shapes
<1>4. /\ DOMAIN x = {"stage", "to", "req", "rep"} /\ x.stage = "ended" /\ x.to = conn[l].to
      /\ x.req = <<>> /\ x.rep = conn[l].rep
  BY <1>0 DEF Shapes
<1>5. DOMAIN conn' = Link /\ conn'[l] = x /\ \A j \in Link : j # l => conn'[j] = conn[j]
  BY <1>0, <1>3 DEF Shapes
<1>6. build = "http" /\ l \in Container /\ l \notin Caller
  BY <1>0, <1>1, LinkFacts DEF Understood, Shapes
<1>7. HttpOK(l)
  BY <1>6 DEF ServiceInv, HttpSound
<1>8. Framed'
  BY <1>0, <1>1, <1>4, <1>5 DEF Shapes, Framed
<1>9. OneServed'
  BY <1>1, <1>6 DEF OneServed
<1>10. Works(l)
  <2>1. ~Understood(l)'
    BY <1>1, <1>2, StillUnderstood
  <2>2. ConnOK(l)'
    BY <1>0, <1>1, <1>4, <1>5, <2>1 DEF ConnOK
  <2>3. MadeOK(l)'
    BY <1>1, <1>2, MadeStill DEF ServiceInv, MadeSound
  <2>4. IsSequence(x.req) /\ Whole(x.req)
    BY <1>4, NoMessage
  <2>5. HttpOK(l)'
    BY <1>1, <1>4, <1>5, <1>7, <2>4 DEF HttpOK, Whole
  <2>6. ~task[l].busy
    BY <1>7 DEF HttpOK
  <2> QED
    BY <1>4, <1>5, <1>6, <2>2, <2>3, <2>5, <2>6 DEF Works
<1>11. \A j \in Link : j # l => Alone(j)
  BY <1>1, <1>5 DEF Alone
<1> QED
  BY <1>1, <1>2, <1>8, <1>9, <1>10, <1>11, StepSound

(***************************************************************************)
(* A process starts, where nobody listens yet, or ends.                    *)
(***************************************************************************)
LEMMA StartedIs ==
  ASSUME NEW line, NEW x,
         x = IF Fails(line) THEN [NotStarted EXCEPT !.state = "ended"]
             ELSE [state |-> "up", type |-> Options(line.argv).type, addr |-> StartsAt(line),
                   data |-> Loads(line.argv), hosts |-> <<>>]
  PROVE  /\ DOMAIN x = {"state", "type", "addr", "data", "hosts"} /\ x.hosts = <<>>
         /\ x.state = "up" => Listening(x.addr) = {}
<1>1. CASE Fails(line)
  BY <1>1 DEF NotStarted
<1>2. CASE ~Fails(line)
  <2>1. Listening(StartsAt(line)) = {}
    BY <1>2 DEF Fails
  <2> HIDE DEF Fails
  <2> PICK type, addr, data : type = Options(line.argv).type /\ addr = StartsAt(line) /\ data = Loads(line.argv)
    OBVIOUS
  <2>2. x = [state |-> "up", type |-> type, addr |-> addr, data |-> data, hosts |-> <<>>]
    BY <1>2
  <2>3. DOMAIN x = {"state", "type", "addr", "data", "hosts"} /\ x.hosts = <<>> /\ x.addr = addr
    BY <2>2
  <2> QED
    BY <2>1, <2>3
<1> QED
  BY <1>1, <1>2

LEMMA MainKeeps ==
  ASSUME ServiceInv, NEW p \in Process, NEW line, Main(p, line)
  PROVE  ServiceInv'
<1> PICK x : x = IF Fails(line) THEN [NotStarted EXCEPT !.state = "ended"]
             ELSE [state |-> "up", type |-> Options(line.argv).type, addr |-> StartsAt(line),
                   data |-> Loads(line.argv), hosts |-> <<>>]
  OBVIOUS
<1>0. Shapes
  BY DEF ServiceInv
<1>1. /\ proc[p].state = "off" /\ proc' = [proc EXCEPT ![p] = x]
      /\ build' = build /\ conn' = conn /\ task' = task /\ caller' = caller
      /\ failures' = failures /\ made' = made
  BY DEF Main
<1>2. /\ DOMAIN x = {"state", "type", "addr", "data", "hosts"} /\ x.hosts = <<>>
      /\ x.state = "up" => Listening(x.addr) = {}
  BY StartedIs
<1>3. DOMAIN proc' = Process /\ proc'[p] = x /\ \A q \in Process : q # p => proc'[q] = proc[q]
  BY <1>0, <1>1 DEF Shapes
<1>4. Settled
  <2>1. ASSUME NEW a, Listening(a) # {} PROVE Listening(a)' = Listening(a)
    <3>1. p \notin Listening(a) /\ ~(x.state = "up" /\ x.addr = a)
      BY <1>1, <1>2, <2>1 DEF Listening
    <3> QED
      BY <1>3, <3>1 DEF Listening
  <2>2. \A q \in Process : proc[q].state = "up" => proc'[q] = proc[q]
    BY <1>1, <1>3
  <2> QED
    BY <1>1, <2>1, <2>2 DEF Settled
<1>5. AddressesDistinct'
  <2> SUFFICES ASSUME NEW i \in Process, NEW j \in Process, proc'[i].state = "up",
                      proc'[j].state = "up", proc'[i].addr = proc'[j].addr
               PROVE  i = j
    BY DEF AddressesDistinct
  <2>1. CASE i # p /\ j # p
    BY <1>3, <2>1 DEF ServiceInv, AddressesDistinct
  <2>2. CASE i = p /\ j # p
    BY <1>2, <1>3, <2>2 DEF Listening
  <2>3. CASE i # p /\ j = p
    BY <1>2, <1>3, <2>3 DEF Listening
  <2> QED
    BY <2>1, <2>2, <2>3
<1>6. HostsSound'
  <2>1. <<>> \in Seq(Address) /\ Injective(<<>>)
    BY DEF Injective
  <2> QED
    BY <1>2, <1>3, <2>1 DEF ServiceInv, HostsSound
<1>7. ProcessesSound'
  BY <1>0, <1>1, <1>2, <1>3, <1>5, <1>6 DEF ProcessesSound, Shapes
<1>8. Framed'
  BY <1>0, <1>1 DEF Shapes, Framed
<1>9. OneServed'
  BY <1>1 DEF ServiceInv, OneServed
<1>10. \A j \in Link : Alone(j)
  BY <1>1 DEF Alone
<1> QED
  BY <1>1, <1>4, <1>7, <1>8, <1>9, <1>10, StepSound

(***************************************************************************)
(* The callers.                                                            *)
(***************************************************************************)
LEMMA NotMadeIs == NotMade.hosts = <<>> /\ NotMade.times = 0
BY DEF NotMade

Reconnects(c, x) ==
  /\ DOMAIN x = {"stage", "to", "req", "rep"} /\ ~task[c].busy
  /\ \/ x.stage = "closed"
     \/ x.stage = "queued" /\ Listening(x.to) # {}
     \/ x.stage = conn[c].stage /\ x.to = conn[c].to

Remade(c, z) ==
  (made' = made /\ z = made[c]) \/ (made' = [made EXCEPT ![c] = NotMade] /\ z = NotMade)

LEMMA CallerStep ==
  ASSUME ServiceInv, NEW c \in Caller,
         NEW x, conn' = [conn EXCEPT ![c] = x], Reconnects(c, x),
         NEW y, caller' = [caller EXCEPT ![c] = y], DOMAIN y = {"state", "method", "answer"},
         NEW z, Remade(c, z),
         build' = build, proc' = proc, task' = task, failures' = failures,
         conn'[c] = x /\ caller'[c] = y /\ made'[c] = z => CallerOK(c)'
  PROVE  ServiceInv'
<1>0. Shapes /\ c \in Link /\ c \notin Container /\ ConnOK(c)
  BY LinkFacts DEF ServiceInv, ConnSound
<1>1. Settled /\ ProcessesSound'
  BY ProcessesStill
<1>2. DOMAIN conn' = Link /\ conn'[c] = x /\ \A j \in Link : j # c => conn'[j] = conn[j]
  BY <1>0 DEF Shapes
<1>3. DOMAIN caller' = Caller /\ caller'[c] = y /\ \A j \in Caller : j # c => caller'[j] = caller[j]
  BY <1>0 DEF Shapes
<1>4. DOMAIN made' = Link /\ made'[c] = z /\ \A j \in Link : j # c => made'[j] = made[j]
  BY <1>0 DEF Shapes, Remade
<1>5. DOMAIN z = {"times", "answer", "key", "hosts", "there"}
  BY <1>0 DEF Shapes, NotMade, Remade
<1>6. Framed'
  BY <1>0, <1>2, <1>3, <1>4, <1>5 DEF Shapes, Framed
<1>7. OneServed'
  <2> SUFFICES ASSUME build = "simple", NEW i \in Link, NEW j \in Link,
                      conn'[i].stage = "served", conn'[j].stage = "served", conn'[i].to = conn'[j].to
               PROVE  i = j
    BY DEF OneServed
  <2>1. conn[i].stage = "served" /\ conn'[i].to = conn[i].to
    BY <1>2 DEF Reconnects
  <2>2. conn[j].stage = "served" /\ conn'[j].to = conn[j].to
    BY <1>2 DEF Reconnects
  <2> QED
    BY <2>1, <2>2 DEF ServiceInv, OneServed
<1>8. Works(c)
  <2>1. ConnOK(c)'
    <3> PICK a : a = x.to
      OBVIOUS
    <3>1. Listening(a)' = Listening(a) /\ Listening(conn[c].to)' = Listening(a)'
      BY <1>2 DEF Listening
    <3>2. Understood(c)' <=> Understood(c)
      BY <1>1, StillUnderstood
    <3> QED
      BY <1>0, <1>2, <3>1, <3>2 DEF ConnOK, Reconnects
  <2>2. MadeOK(c)'
    <3>1. CASE z = made[c]
      BY <1>0, <1>1, <1>4, <3>1, MadeStill DEF ServiceInv, MadeSound
    <3>2. CASE z = NotMade
      <4>1. made'[c] = NotMade /\ NotMade.hosts = <<>>
        BY <1>4, <3>2, NotMadeIs
      <4> QED
        BY <4>1 DEF MadeOK
    <3> QED
      BY <3>1, <3>2 DEF Remade
  <2>3. CallerOK(c)'
    BY <1>2, <1>3, <1>4
  <2> QED
    BY <1>0, <1>2, <2>1, <2>2, <2>3 DEF Works, Reconnects
<1>9. \A j \in Link : j # c => Alone(j)
  BY <1>2, <1>3, <1>4 DEF Alone
<1> QED
  BY <1>1, <1>6, <1>7, <1>8, <1>9, StepSound

LEMMA DialKeeps ==
  ASSUME ServiceInv, NEW c \in Caller, Dial(c)
  PROVE  ServiceInv'
<1>0. Shapes /\ c \in Link /\ CallerOK(c)
  BY LinkFacts DEF ServiceInv, CallerSound
<1>1. PICK a : conn' = [conn EXCEPT ![c] = Opened(a)]
  BY DEF Dial
<1> PICK x, y, z : /\ x = Opened(a) /\ y = [caller[c] EXCEPT !.state = "open"] /\ z = made[c]
  OBVIOUS
<1>2. /\ caller[c].state = "idle" /\ caller' = [caller EXCEPT ![c] = y]
      /\ build' = build /\ proc' = proc /\ task' = task /\ failures' = failures /\ made' = made
  BY DEF Dial
<1>3. Remade(c, z)
  BY <1>2 DEF Remade
<1>4. /\ x.stage \in {"closed", "queued"} /\ (x.stage = "queued" => Listening(x.to) # {})
      /\ x.req = <<>> /\ x.rep = <<>> /\ DOMAIN x = {"stage", "to", "req", "rep"}
  BY OpenedIs, ClosedIs
<1>5. /\ DOMAIN y = {"state", "method", "answer"} /\ y.state = "open"
      /\ y.method = caller[c].method /\ y.answer = caller[c].answer
  BY <1>0 DEF Shapes
<1>6. ~task[c].busy
  BY <1>0, <1>2 DEF CallerOK, Idle
<1>7. ASSUME conn'[c] = x, caller'[c] = y, made'[c] = z PROVE CallerOK(c)'
  <2>1. Idle(c)'
    BY <1>2, <1>4, <1>6, <1>7 DEF Idle
  <2>2. GotOwn(c) => GotOwn(c)'
    BY <1>5, <1>7 DEF GotOwn
  <2> QED
    BY <1>0, <1>5, <1>7, <2>1, <2>2 DEF CallerOK
<1>8. Reconnects(c, x)
  BY <1>4, <1>6 DEF Reconnects
<1> QED
  BY <1>1, <1>2, <1>3, <1>5, <1>7, <1>8, CallerStep

LEMMA AskKeeps ==
  ASSUME ServiceInv, NEW c \in Caller, Ask(c)
  PROVE  ServiceInv'
<1>0. Shapes /\ c \in Link /\ CallerOK(c) /\ ConnOK(c)
  BY LinkFacts DEF ServiceInv, CallerSound, ConnSound
<1>1. PICK r \in Request :
        /\ conn' = [conn EXCEPT ![c].req = @ \o Call(r.method, r.fields)]
        /\ caller' = [caller EXCEPT ![c] =
             [state |-> "waiting", method |-> r.method, answer |-> <<>>]]
  BY DEF Ask
<1> PICK call, method : call = Call(r.method, r.fields) /\ method = r.method
  OBVIOUS
<1>2. /\ caller[c].state = "open" /\ made' = [made EXCEPT ![c] = NotMade]
      /\ build' = build /\ proc' = proc /\ task' = task /\ failures' = failures
  BY DEF Ask
<1>3. Idle(c)
  BY <1>0, <1>2 DEF CallerOK
<1> PICK x, y, z : /\ x = [conn[c] EXCEPT !.req = call]
                   /\ y = [state |-> "waiting", method |-> method, answer |-> <<>>] /\ z = NotMade
  OBVIOUS
<1>4. <<>> \o call = call
  BY CallRead, EmptyBefore
<1>5. conn' = [conn EXCEPT ![c] = x]
  BY <1>1, <1>3, <1>4 DEF Idle
<1>6. /\ x.stage = conn[c].stage /\ x.to = conn[c].to
      /\ x.req = call /\ x.rep = <<>> /\ DOMAIN x = {"stage", "to", "req", "rep"}
  BY <1>0, <1>3 DEF Idle, Shapes
<1>7. /\ DOMAIN y = {"state", "method", "answer"} /\ y.state = "waiting"
      /\ y.method = method /\ y.answer = <<>>
  OBVIOUS
<1>8. caller' = [caller EXCEPT ![c] = y] /\ Remade(c, z)
  BY <1>1, <1>2 DEF Remade
<1>9. z.times = 0
  BY DEF NotMade
<1>10. ASSUME conn'[c] = x, caller'[c] = y, made'[c] = z PROVE CallerOK(c)'
  <2>1. IsCall(call, method)
    BY DEF IsCall
  <2>2. CallerWaits(c)'
    BY <1>2, <1>3, <1>6, <1>7, <1>9, <1>10, <2>1 DEF CallerWaits, Idle
  <2> QED
    BY <1>7, <1>10, <2>2 DEF CallerOK
<1>11. Reconnects(c, x)
  BY <1>3, <1>6 DEF Reconnects, Idle
<1> QED
  BY <1>2, <1>5, <1>7, <1>8, <1>10, <1>11, CallerStep

(***************************************************************************)
(* What a caller makes of the answer to its call.                          *)
(***************************************************************************)
LEMMA AnswerRead ==
  ASSUME NEW m, NEW s, IsAnswer(s, m)
  PROVE  /\ s # <<>> /\ AfterStruct(Tail(s)) = <<>> /\ Head(s).name = m
         /\ Recv(m, s).kind \in {"returned", "thrown"}
         /\ Whole(s) /\ Messages(s) = 1
<1> PICK v : v = s[2].value
  OBVIOUS
<1>1. CASE m \in processMap_ /\ IsReply(s, m)
  <2>1. s = Reply(m, 0, v)
    BY <1>1 DEF IsReply
  <2>2. /\ s # <<>> /\ AfterStruct(Tail(s)) = <<>> /\ Head(s).name = m
        /\ Whole(s) /\ Messages(s) = 1 /\ Recv(m, s) = Returned(v)
    BY <1>1, <2>1, ReplyRead
  <2> QED
    BY <2>2 DEF Returned
<1>2. CASE IsException(s, m)
  <2>1. s = Exception(m, 0, v)
    BY <1>2 DEF IsException
  <2>2. /\ s # <<>> /\ AfterStruct(Tail(s)) = <<>> /\ Head(s).name = m
        /\ Whole(s) /\ Messages(s) = 1 /\ Recv(m, s) = Thrown(v)
    BY <2>1, ExceptionRead
  <2> QED
    BY <2>2 DEF Thrown
<1> QED
  BY <1>1, <1>2 DEF IsAnswer

LEMMA GetKeeps ==
  ASSUME ServiceInv, NEW c \in Caller, Get(c)
  PROVE  ServiceInv'
<1>0. Shapes /\ c \in Link /\ CallerOK(c) /\ ConnOK(c)
  BY LinkFacts DEF ServiceInv, CallerSound, ConnSound
<1> PICK m, s, got : m = caller[c].method /\ s = conn[c].rep /\ got = <<Recv(m, s)>>
  OBVIOUS
<1>1. /\ caller[c].state = "waiting" /\ s # <<>>
      /\ caller' = [caller EXCEPT ![c].state = "open", ![c].answer = got]
      /\ conn' = [conn EXCEPT ![c].rep = AfterStruct(Tail(@))]
      /\ build' = build /\ proc' = proc /\ task' = task /\ failures' = failures /\ made' = made
  BY DEF Get
<1>2. /\ conn[c].req = <<>> /\ s = made[c].answer /\ ~task[c].busy
      /\ IsAnswer(s, m) /\ made[c].times = 1
  BY <1>0, <1>1 DEF CallerOK, CallerWaits
<1>3. AfterStruct(Tail(s)) = <<>>
  BY <1>2, AnswerRead
<1>p. PICK x, y, z : /\ x = [conn[c] EXCEPT !.rep = <<>>]
                   /\ y = [[caller[c] EXCEPT !.state = "open"] EXCEPT !.answer = got] /\ z = made[c]
  OBVIOUS
<1>4. conn' = [conn EXCEPT ![c] = x] /\ Remade(c, z)
  BY <1>1, <1>3, <1>p DEF Remade
<1>5. caller' = [caller EXCEPT ![c] = y]
  BY <1>0, <1>1, <1>p DEF Shapes
<1>6. /\ x.stage = conn[c].stage /\ x.to = conn[c].to
      /\ x.req = <<>> /\ x.rep = <<>> /\ DOMAIN x = {"stage", "to", "req", "rep"}
  BY <1>0, <1>2, <1>p DEF Shapes
<1>7. DOMAIN y = {"state", "method", "answer"} /\ y.state = "open" /\ y.method = m /\ y.answer = got
  BY <1>0, <1>p DEF Shapes
<1>8. ASSUME conn'[c] = x, caller'[c] = y, made'[c] = z PROVE CallerOK(c)'
  <2>0. z = made[c]
    BY <1>p
  <2>1. Idle(c)'
    BY <1>1, <1>2, <1>6, <1>8 DEF Idle
  <2>2. GotOwn(c)'
    BY <1>2, <1>7, <1>8, <2>0 DEF GotOwn
  <2> QED
    BY <1>7, <1>8, <2>1, <2>2 DEF CallerOK
<1>9. Reconnects(c, x)
  BY <1>2, <1>6 DEF Reconnects
<1> QED
  BY <1>1, <1>4, <1>5, <1>7, <1>8, <1>9, CallerStep

LEMMA HangUpKeeps ==
  ASSUME ServiceInv, NEW c \in Caller, HangUp(c)
  PROVE  ServiceInv'
<1>0. CallerOK(c)
  BY DEF ServiceInv, CallerSound
<1>1. /\ caller[c].state = "open" /\ conn' = [conn EXCEPT ![c] = Closed]
      /\ caller' = [caller EXCEPT ![c] = NoCall] /\ made' = [made EXCEPT ![c] = NotMade]
      /\ build' = build /\ proc' = proc /\ task' = task /\ failures' = failures
  BY DEF HangUp
<1>2. ~task[c].busy
  BY <1>0, <1>1 DEF CallerOK, Idle
<1>3. DOMAIN NoCall = {"state", "method", "answer"} /\ NoCall.state = "idle" /\ NoCall.answer = <<>>
  BY DEF NoCall
<1>4. ASSUME conn'[c] = Closed, caller'[c] = NoCall PROVE CallerOK(c)'
  <2>1. Idle(c)'
    BY <1>1, <1>2, <1>4, ClosedIs DEF Idle
  <2> QED
    BY <1>3, <1>4, <2>1 DEF CallerOK
<1>5. Reconnects(c, Closed) /\ Remade(c, NotMade)
  BY <1>1, <1>2, ClosedIs DEF Reconnects, Remade
<1> QED
  BY <1>1, <1>3, <1>4, <1>5, CallerStep

-----------------------------------------------------------------------------
(* The specification *)

LEMMA ServiceStart ==
  ASSUME ServiceInit
  PROVE  ServiceInv
<1>1. /\ build \in {"http", "simple"} /\ failures = 0
      /\ proc = [p \in Process |-> NotStarted] /\ conn = [l \in Link |-> Closed]
      /\ task = [l \in Link |-> NoTask] /\ caller = [c \in Caller |-> NoCall]
      /\ made = [l \in Link |-> NotMade]
  BY DEF ServiceInit
<1>2. /\ \A p \in Process : proc[p].state = "off" /\ proc[p].hosts = <<>>
      /\ \A p \in Process : DOMAIN proc[p] = {"state", "type", "addr", "data", "hosts"}
  BY <1>1 DEF NotStarted
<1>3. \A l \in Link : /\ conn[l].stage = "closed" /\ conn[l].req = <<>> /\ conn[l].rep = <<>>
                      /\ DOMAIN conn[l] = {"stage", "to", "req", "rep"}
  BY <1>1, ClosedIs
<1>4. \A l \in Link : /\ ~task[l].busy /\ task[l].state = <<>>
                      /\ DOMAIN task[l] = {"busy", "key", "seqid", "hosts", "there", "state", "matches"}
  BY <1>1 DEF NoTask
<1>5. \A c \in Caller : /\ caller[c].state = "idle" /\ caller[c].answer = <<>>
                        /\ DOMAIN caller[c] = {"state", "method", "answer"}
  BY <1>1 DEF NoCall
<1>6. \A l \in Link : made[l].hosts = <<>> /\ DOMAIN made[l] = {"times", "answer", "key", "hosts", "there"}
  BY <1>1 DEF NotMade
<1>7. Shapes
  BY <1>1, <1>2, <1>3, <1>4, <1>5, <1>6 DEF Shapes
<1>8. AddressesDistinct
  BY <1>2 DEF AddressesDistinct
<1>9. HostsSound
  <2>1. <<>> \in Seq(Address) /\ Injective(<<>>)
    BY DEF Injective
  <2> QED
    BY <1>2, <2>1 DEF HostsSound
<1>10. ConnSound /\ OneServed
  BY <1>3 DEF ConnSound, ConnOK, OneServed
<1>11. TaskSound /\ MatchesSound
  BY <1>4 DEF TaskSound, TaskOK, MatchesSound, MatchesOK
<1>12. \A l \in Link : Idle(l)
  BY <1>3, <1>4 DEF Idle
<1>13. CallerSound
  BY <1>5, <1>12, LinkFacts DEF CallerSound, CallerOK
<1>14. DelegatorsSound
  BY <1>4, <1>12, LinkFacts DEF DelegatorsSound, FreeOK
<1>15. HttpSound
  <2>1. \A k \in Container : HttpOK(k)
    BY <1>3, <1>4, NoMessage, LinkFacts DEF HttpOK
  <2> QED
    BY <2>1 DEF HttpSound
<1>16. MadeSound
  BY <1>6 DEF MadeSound, MadeOK
<1> QED
  BY <1>7, <1>8, <1>9, <1>10, <1>11, <1>13, <1>14, <1>15, <1>16 DEF ServiceInv

LEMMA StutterKeeps ==
  ASSUME ServiceInv, UNCHANGED serviceVars
  PROVE  ServiceInv'
<1>1. /\ build' = build /\ proc' = proc /\ conn' = conn /\ task' = task /\ caller' = caller
      /\ failures' = failures /\ made' = made
  BY DEF serviceVars
<1>2. Settled /\ ProcessesSound'
  BY <1>1, ProcessesStill
<1>3. Framed'
  BY <1>1 DEF Framed, ServiceInv, Shapes
<1>4. OneServed'
  BY <1>1 DEF ServiceInv, OneServed
<1>5. \A j \in Link : Alone(j)
  BY <1>1 DEF Alone
<1> QED
  BY <1>1, <1>2, <1>3, <1>4, <1>5, StepSound

LEMMA ServiceStep ==
  ServiceInv /\ [ServiceNext]_serviceVars => ServiceInv'
<1> SUFFICES ASSUME ServiceInv, [ServiceNext]_serviceVars PROVE ServiceInv'
  OBVIOUS
<1>1. ASSUME NEW p \in Process, NEW line \in CommandLine[p], Main(p, line) PROVE ServiceInv'
  BY <1>1, MainKeeps
<1>2. ASSUME NEW l \in Link, Serve(l) PROVE ServiceInv'
  <2>1. ASSUME Process_(l) PROVE ServiceInv'
    BY <2>1, DispatchCallKeeps, PingKeeps, RegisterKeeps, DeregisterKeeps, FindMatchesKeeps DEF Process_
  <2> QED
    BY <1>2, <2>1, AcceptKeeps, RefuseKeeps, DelegateKeeps, MergeKeeps DEF Serve
<1>3. ASSUME NEW c \in Caller, Dial(c) \/ Ask(c) \/ Get(c) \/ HangUp(c) PROVE ServiceInv'
  BY <1>3, DialKeeps, AskKeeps, GetKeeps, HangUpKeeps
<1>4. CASE UNCHANGED serviceVars
  BY <1>4, StutterKeeps
<1> QED
  BY <1>1, <1>2, <1>3, <1>4 DEF ServiceNext

(***************************************************************************)
(* The inductive invariant of the service.                                 *)
(***************************************************************************)
THEOREM ServiceIsSound == ServiceSpec => []ServiceInv
<1>1. ServiceInit => ServiceInv
  BY ServiceStart
<1> QED
  BY <1>1, ServiceStep, PTL DEF ServiceSpec

(***************************************************************************)
(* A caller gets the answer that the server made, once, of its own call.   *)
(***************************************************************************)
THEOREM CallersGetTheirOwn == ServiceSpec => []AnswerIsOwn
<1>1. ServiceInv => AnswerIsOwn
  <2> SUFFICES ASSUME ServiceInv, NEW c \in Caller, caller[c].answer # <<>>
               PROVE  /\ made[c].times = 1
                      /\ Head(made[c].answer).name = caller[c].method
                      /\ caller[c].answer[1].kind \in {"returned", "thrown"}
                      /\ caller[c].answer[1] = Recv(caller[c].method, made[c].answer)
    BY DEF AnswerIsOwn
  <2>1. GotOwn(c)
    BY DEF ServiceInv, CallerSound, CallerOK
  <2> PICK m, s : m = caller[c].method /\ s = made[c].answer
    OBVIOUS
  <2>2. made[c].times = 1 /\ IsAnswer(s, m) /\ caller[c].answer[1] = Recv(m, s)
    BY <2>1 DEF GotOwn
  <2>3. Head(s).name = m /\ Recv(m, s).kind \in {"returned", "thrown"}
    BY <2>2, AnswerRead
  <2> QED
    BY <2>2, <2>3
<1> QED
  BY <1>1, ServiceIsSound, PTL

(***************************************************************************)
(* A master answers the rows of the workers that were there, in the order  *)
(* of its list; started by start_http_server it answers none.              *)
(***************************************************************************)
THEOREM MastersAnswerRows == ServiceSpec => []FanOut
<1>1. ServiceInv => FanOut
  <2> SUFFICES ASSUME ServiceInv, NEW l \in Link, NEW m, m = made[l], m.hosts # <<>>
               PROVE  \/ build = "http" /\ m.answer = Reply("findMatches", 0, <<>>)
                      \/ /\ build = "simple"
                         /\ \/ failures > 0
                            \/ \E n \in DOMAIN m.hosts : \E p \in Listening(m.hosts[n]) : ~IsSlave(p)
                            \/ \E late \in SUBSET Address :
                                 m.answer = Reply("findMatches", 0, RowsOf(m.there \cup late, m.key, m.hosts))
    BY DEF FanOut
  <2>1. Answered(m) /\ build \in {"http", "simple"}
    BY DEF ServiceInv, MadeSound, MadeOK, Shapes
  <2>2. CASE build = "http"
    BY <2>1, <2>2 DEF Answered
  <2>3. CASE build = "simple"
    BY <2>1, <2>3 DEF Answered, Excused
  <2> QED
    BY <2>1, <2>2, <2>3
<1> QED
  BY <1>1, ServiceIsSound, PTL

(***************************************************************************)
(* Those who wait for container k are the delegators that have sent.       *)
(***************************************************************************)
LEMMA DelegatorsSend ==
  ASSUME ServiceInv, NEW k, NEW x
  PROVE  x \in Delegators(k, {"sent"}) <=> \E l \in Link : \E n : Sends(l, n, k) /\ x = <<l, n>>
<1> DEFINE Of(l) == {m \in DOMAIN task[l].state : Host(l, m) = k /\ task[l].state[m] \in {"sent"}}
           Pairs(l) == {<<l, n>> : n \in Of(l)}
           Busy == {j \in Link : task[j].busy}
<1>1. Delegators(k, {"sent"}) = UNION {Pairs(l) : l \in Busy}
  BY Zenon DEF Delegators
<1>2. \A l, n : n \in Of(l) <=> Sends(l, n, k)
  BY DEF Sends
<1>3. \A l \in Link : \A n : Sends(l, n, k) => l \in Busy
  BY BusyServed DEF ServiceInv, Sends
<1>4. \A l : x \in Pairs(l) <=> \E n \in Of(l) : x = <<l, n>>
  OBVIOUS
<1>6. \A l : l \in Busy => l \in Link
  OBVIOUS
<1> HIDE DEF Of, Pairs, Busy
<1>5. x \in UNION {Pairs(l) : l \in Busy} <=> \E l \in Busy : x \in Pairs(l)
  OBVIOUS
<1> QED
  BY <1>1, <1>2, <1>3, <1>4, <1>5, <1>6

(***************************************************************************)
(* What is on the way to and from k, and what is being made of it.         *)
(***************************************************************************)
Carried(k) == Messages(conn[k].req) + Messages(conn[k].rep) + (IF task[k].busy THEN 1 ELSE 0)

LEMMA IdleCarries ==
  ASSUME NEW k, Idle(k)
  PROVE  Whole(conn[k].req) /\ Whole(conn[k].rep) /\ Carried(k) = 0
<1>1. conn[k].req = <<>> /\ conn[k].rep = <<>> /\ ~task[k].busy
  BY DEF Idle
<1> QED
  BY <1>1, NoMessage DEF Carried

LEMMA OneCarried ==
  ASSUME NEW k,
         \/ conn[k].rep = <<>> /\ ~task[k].busy /\ Whole(conn[k].req) /\ Messages(conn[k].req) = 1
         \/ conn[k].req = <<>> /\ conn[k].rep = <<>> /\ task[k].busy
         \/ conn[k].req = <<>> /\ ~task[k].busy /\ Whole(conn[k].rep) /\ Messages(conn[k].rep) = 1
  PROVE  Whole(conn[k].req) /\ Whole(conn[k].rep) /\ Carried(k) = 1
<1> PICK none : none = Messages(<<>>)
  OBVIOUS
<1>1. none = 0 /\ Whole(<<>>)
  BY NoMessage
<1> QED
  BY <1>1 DEF Carried

LEMMA CallerCarries ==
  ASSUME ServiceInv, NEW c \in Caller
  PROVE  Whole(conn[c].req) /\ Whole(conn[c].rep) /\ Carried(c) = Waiting(c)
<1>0. CallerOK(c)
  BY DEF ServiceInv, CallerSound
<1>1. CASE caller[c].state # "waiting"
  BY <1>0, <1>1, IdleCarries DEF CallerOK, Waiting
<1>2. CASE caller[c].state = "waiting"
  <2> PICK m : m = caller[c].method
    OBVIOUS
  <2>1. ASSUME IsCall(conn[c].req, m) PROVE Whole(conn[c].req) /\ Messages(conn[c].req) = 1
    BY <2>1, CallRead DEF IsCall
  <2>2. ASSUME IsAnswer(conn[c].rep, m) PROVE Whole(conn[c].rep) /\ Messages(conn[c].rep) = 1
    BY <2>2, AnswerRead
  <2>3. \/ conn[c].rep = <<>> /\ ~task[c].busy /\ Whole(conn[c].req) /\ Messages(conn[c].req) = 1
        \/ conn[c].req = <<>> /\ conn[c].rep = <<>> /\ task[c].busy
        \/ conn[c].req = <<>> /\ ~task[c].busy /\ Whole(conn[c].rep) /\ Messages(conn[c].rep) = 1
    BY <1>0, <1>2, <2>1, <2>2 DEF CallerOK, CallerWaits
  <2> QED
    BY <1>2, <2>3, OneCarried DEF Waiting
<1> QED
  BY <1>1, <1>2

LEMMA ContainerCarries ==
  ASSUME ServiceInv, build = "simple", NEW k \in Container
  PROVE  Whole(conn[k].req) /\ Whole(conn[k].rep) /\ Carried(k) = Waiting(k)
<1>0. k \in Link /\ k \notin Caller
  BY LinkFacts
<1>1. Waiting(k) = Cardinality(Delegators(k, {"sent"}))
  BY <1>0 DEF Waiting
<1>2. CASE \E l \in Link : \E n : Sends(l, n, k)
  <2>1. PICK l, n : l \in Link /\ Sends(l, n, k)
    BY <1>2
  <2>2. ASSUME NEW j \in Link, NEW m, Sends(j, m, k) PROVE j = l /\ m = n
    BY <2>1, <2>2, OneDelegator DEF ServiceInv, Sends
  <2>3. \A x : x \in Delegators(k, {"sent"}) <=> x = <<l, n>>
    BY <2>1, <2>2, DelegatorsSend
  <2>4. Delegators(k, {"sent"}) = {<<l, n>>}
    BY <2>3
  <2>5. Waiting(k) = 1
    BY <1>1, <2>4, FS_Singleton
  <2> PICK key : key = task[l].key
    OBVIOUS
  <2>6. DelegatorWaits(k, key)
    BY <2>1 DEF ServiceInv, DelegatorsSound, LineOK, Sends
  <2>7. ASSUME conn[k].req = KeyCall(key) PROVE Whole(conn[k].req) /\ Messages(conn[k].req) = 1
    BY <2>7, KeyCallRead
  <2>8. ASSUME Fits(k, key) PROVE Whole(conn[k].rep) /\ Messages(conn[k].rep) = 1
    <3>1. IsAnswer(conn[k].rep, "findMatches")
      BY <2>8 DEF Fits, IsAnswer, processMap_
    <3> QED
      BY <3>1, AnswerRead
  <2>9. \/ conn[k].rep = <<>> /\ ~task[k].busy /\ Whole(conn[k].req) /\ Messages(conn[k].req) = 1
        \/ conn[k].req = <<>> /\ conn[k].rep = <<>> /\ task[k].busy
        \/ conn[k].req = <<>> /\ ~task[k].busy /\ Whole(conn[k].rep) /\ Messages(conn[k].rep) = 1
    BY <2>6, <2>7, <2>8 DEF DelegatorWaits
  <2> QED
    BY <2>5, <2>9, OneCarried
<1>3. CASE ~\E l \in Link : \E n : Sends(l, n, k)
  <2>1. Idle(k)
    BY <1>3 DEF ServiceInv, DelegatorsSound, FreeOK
  <2>2. \A x : x \notin Delegators(k, {"sent"})
    BY <1>3, DelegatorsSend
  <2>3. Delegators(k, {"sent"}) = {}
    BY <2>2
  <2> QED
    BY <1>1, <2>1, <2>3, IdleCarries, FS_EmptySet
<1> QED
  BY <1>2, <1>3

(***************************************************************************)
(* Client and server stay in step: whole messages, one for each who waits. *)
(***************************************************************************)
THEOREM StaysInStep == ServiceSpec => []InStep
<1>1. ServiceInv => InStep
  <2> SUFFICES ASSUME ServiceInv, NEW k \in Link
               PROVE  /\ Whole(conn[k].req) /\ Whole(conn[k].rep)
                      /\ Understood(k) => Carried(k) = Waiting(k)
    BY DEF InStep, Carried
  <2>1. CASE k \in Caller
    BY <2>1, CallerCarries
  <2>2. CASE k \notin Caller /\ build = "simple"
    BY <2>2, LinkFacts, ContainerCarries
  <2>3. CASE k \notin Caller /\ build = "http"
    <3>1. HttpOK(k)
      BY <2>3, LinkFacts DEF ServiceInv, HttpSound
    <3>2. ~Understood(k)
      BY <2>3 DEF Understood
    <3> QED
      BY <3>1, <3>2, NoMessage DEF HttpOK
  <2>4. build \in {"http", "simple"}
    BY DEF ServiceInv, Shapes
  <2> QED
    BY <2>1, <2>2, <2>3, <2>4
<1> QED
  BY <1>1, ServiceIsSound, PTL

=============================================================================
