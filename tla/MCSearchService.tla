--------------------------- MODULE MCSearchService ---------------------------
(***************************************************************************)
(* SearchService for TLC: command lines as in thrift/service-cpp/run.sh,   *)
(* and the calls of its clients.                                           *)
(***************************************************************************)
EXTENDS SearchService, TLC

CONSTANTS p1, p2, c1, c2

MCNumber(w) ==
  CASE w = "0" -> 0 [] w = "1" -> 1 [] w = "9090" -> 9090 [] w = "8080" -> 8080 [] OTHER -> 0

On(h, argv) == [host |-> h, argv |-> argv]
Master(port) == <<"--type", "0", "--port", port>>
Slave(file) == <<"--type", "1", "--port", "8080", "--dataset", file>>

MCCommandLine ==
  p1 :> {On("h1", Master("9090"))}
    @@ p2 :> {On("h2", Slave("parts")), On("h2", Slave("lost")), On("h2", Master("8080")),
             On("h1", Slave("parts")), On("h2", <<"--type">>)}

To(host, port) == Write(registerService_args, <<host, port>>)
Called(m, fields) == [method |-> m, fields |-> fields]

(* The third leaves out the port, the fourth has a field of another type   *)
(* and one the server does not know, the last a method it does not know.   *)
MCRequest ==
  { Called("findMatches", Write(findMatches_args, <<"key">>)),
    Called("registerService", To("h2", 8080)),
    Called("registerService", SubSeq(To("h2", 8080), 1, 1)),
    Called("deregisterService", To("h2", 8080)
      \o <<Field([id |-> 2, type |-> "string"], "8080"), Field([id |-> 3, type |-> "i32"], 1)>>),
    Called("ping", <<>>),
    Called("stats", To("h1", 0)) }
=============================================================================
