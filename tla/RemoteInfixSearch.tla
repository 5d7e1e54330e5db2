-------------------------- MODULE RemoteInfixSearch --------------------------
(***************************************************************************)
(* The code thrift generates for the service (thrift/service-cpp/          *)
(* RemoteInfixSearch.cpp, of which thrift/gen-cpp holds a copy): how the   *)
(* arguments and results of the four methods are written and read, what a  *)
(* client makes of an answer, and what a processor answers.                *)
(*                                                                         *)
(* What travels is a sequence of tokens: a message begins with its name,   *)
(* type and number, goes on with the fields of one struct and ends with    *)
(* the stop of that struct.  How a protocol lays tokens out in bytes is    *)
(* thrift's (external); a field is known by its number and type alone.     *)
(***************************************************************************)
EXTENDS Integers, Sequences

Begin(name, type, seqid) == [token |-> "begin", name |-> name, type |-> type, seqid |-> seqid]
Stop == [token |-> "stop"]
Field(f, v) == [token |-> "field", id |-> f.id, type |-> f.type, value |-> v]

(* The fields up to the first stop, and what comes after it. *)
StopOf(tokens) ==
  CHOOSE n \in DOMAIN tokens :
    tokens[n].token = "stop" /\ \A m \in 1..(n - 1) : tokens[m].token # "stop"
FieldsOf(tokens) == SubSeq(tokens, 1, StopOf(tokens) - 1)
AfterStruct(tokens) == SubSeq(tokens, StopOf(tokens) + 1, Len(tokens))

-----------------------------------------------------------------------------
(***************************************************************************)
(* The structs, by their fields in the order they are written.             *)
(***************************************************************************)
ping_args == <<>>
ping_result == <<[id |-> 0, type |-> "i32"]>>
findMatches_args == <<[id |-> 1, type |-> "string"]>>
findMatches_result == <<[id |-> 0, type |-> "list"]>>
registerService_args == <<[id |-> 1, type |-> "string"], [id |-> 2, type |-> "i32"]>>
registerService_result == <<[id |-> 0, type |-> "i32"]>>
deregisterService_args == <<[id |-> 1, type |-> "string"], [id |-> 2, type |-> "i32"]>>
deregisterService_result == <<[id |-> 0, type |-> "i32"]>>

processMap_ == {"ping", "findMatches", "registerService", "deregisterService"}

ArgsOf(m) ==
  CASE m = "ping" -> ping_args
    [] m = "findMatches" -> findMatches_args
    [] m = "registerService" -> registerService_args
    [] m = "deregisterService" -> deregisterService_args

ResultOf(m) ==
  CASE m = "ping" -> ping_result
    [] m = "findMatches" -> findMatches_result
    [] m = "registerService" -> registerService_result
    [] m = "deregisterService" -> deregisterService_result

Unset(type) == CASE type = "string" -> "" [] type = "i32" -> 0 [] type = "list" -> <<>>

Write(struct, values) == [n \in DOMAIN struct |-> Field(struct[n], values[n])]

(***************************************************************************)
(* read goes through the fields as they come: one with a known number and  *)
(* its type is stored, the last of several winning, any other is skipped.  *)
(* A field that does not come keeps the value of the constructor.          *)
(***************************************************************************)
Read(struct, fields) ==
  [n \in DOMAIN struct |->
     LET hits == {m \in DOMAIN fields : fields[m].id = struct[n].id
                                          /\ fields[m].type = struct[n].type}
     IN  [isset |-> hits # {},
          value |-> IF hits = {} THEN Unset(struct[n].type)
                    ELSE fields[CHOOSE m \in hits : \A k \in hits : k <= m].value]]

-----------------------------------------------------------------------------
(***************************************************************************)
(* The processor: every call is answered under its own name and number,    *)
(* with the struct of a result or of a TApplicationException.              *)
(***************************************************************************)
TApplicationException == [id |-> 2, type |-> "i32"]

Reply(m, seqid, value) ==
  <<Begin(m, "reply", seqid)>> \o Write(ResultOf(m), <<value>>) \o <<Stop>>

Exception(m, seqid, code) ==
  <<Begin(m, "exception", seqid), Field(TApplicationException, code), Stop>>

-----------------------------------------------------------------------------
(***************************************************************************)
(* The client: cseqid is always 0.                                         *)
(***************************************************************************)
Call(m, fields) == <<Begin(m, "call", 0)>> \o fields \o <<Stop>>

Returned(v) == [kind |-> "returned", value |-> v]
Thrown(code) == [kind |-> "thrown", value |-> code]
Missing == [kind |-> "missing result", value |-> 0]
Lost == [kind |-> "lost", value |-> 0]

(***************************************************************************)
(* recv_ reads one answer.  After an answer of another type or name it     *)
(* skips that struct, yet goes on to read the result from the beginning of *)
(* the next message, where there is none: the answer is lost.  rseqid is   *)
(* not looked at.                                                          *)
(***************************************************************************)
RecvAnyType(m, tokens) ==   (* seeded fault: an exception is taken for a result *)
  LET result == Read(ResultOf(m), FieldsOf(Tail(tokens)))
  IN  IF result[1].isset THEN Returned(result[1].value) ELSE Missing
Recv(m, tokens) ==
  LET begin  == Head(tokens)
      result == Read(ResultOf(m), FieldsOf(Tail(tokens)))
  IN  CASE begin.type = "exception" -> Thrown(tokens[2].value)
        [] begin.type # "exception" /\ (begin.type # "reply" \/ begin.name # m) ->
             Lost
        [] begin.type = "reply" /\ begin.name = m ->
             IF result[1].isset THEN Returned(result[1].value) ELSE Missing
=============================================================================
