-------------------------------- MODULE Wire --------------------------------
(***************************************************************************)
(* One request and its answer on one connection: client_session::feed at   *)
(* one end, session::serve at the other, and the TCP streams between them. *)
(* Both ends write a message field by field and read it field by field.    *)
(* A read is one recv of the size of the field; it may return less, or     *)
(* nothing, and nobody looks at how much it returned: what was not         *)
(* received stays as it was, for an int never written at all (Junk).       *)
(*                                                                         *)
(* Connections share nothing but the server's process, so one is modelled  *)
(* at a time; the process may end at any moment because of the others.     *)
(***************************************************************************)
EXTENDS Payload, FiniteSetsExt

CONSTANTS
  Requests,    \* [type, user_id, target, vec]; vec are the fields typed
  Responses,   \* [success, user_id, text]: what a handler may answer
  ByteMod,     \* a byte is a number below this one
  HugeLen      \* bound: from here on resize() throws

Width == 2     \* bytes of an int
Byte == 0 .. (ByteMod - 1)
Junk == ByteMod   \* a byte that was never written
None == <<>>

Number == 0 .. (ByteMod * ByteMod - 1)   \* what an int holds

ASSUME WireAssumption == ByteMod \in Nat \ {0} /\ HugeLen \in Nat \ {0} /\ Delimiter \in Byte

\* A message is made of ints and texts, and the length of a text is an int too.
ASSUME MessagesAssumption ==
  /\ Requests \subseteq [type : Number, user_id : Number, target : Number, vec : Seq(Seq(Byte))]
  /\ \A r \in Requests : Len(Join(r.vec)) \in Number
  /\ Responses \subseteq [success : Number, user_id : Number, text : Seq(Byte)]
  /\ \A r \in Responses : Len(r.text) \in Number

Sides == {"client", "server"}
Other(x) == IF x = "client" THEN "server" ELSE "client"

VARIABLES
  end,     \* end[x]: what the program at x does, has to write and has read
  inq,     \* inq[x]: bytes on their way to x or waiting there
  gone,    \* gone[x]: x closed its end, with a FIN or with a RST
  rst,     \* rst[x]: a RST is on its way to x, is there, or was reported
  sent,      \* history: the request of this feed
  executed,  \* history: the request that exec was given, or None
  answered,  \* history: the response that exec gave, or None
  short,     \* history: ends at which a recv returned less than its field
  fate       \* how the server's process ended, while it is down

net == <<inq, gone, rst>>
history == <<sent, executed, answered, short>>
vars == <<end, net, history, fate>>

Untouched == [i \in 1 .. Width |-> Junk]

\* An end: what it does, the pieces it has still to write, the fields it has
\* still to read, and the message object that it reads them into.
End(pc) == [pc |-> pc, out |-> <<>>, fields |-> <<>>,
            got |-> [f \in {"type", "user_id", "target", "success", "len"} |-> Untouched],
            text |-> <<>>]

Init ==
  /\ end = [x \in Sides |-> End(IF x = "client" THEN "idle" ELSE "listen")]
  /\ inq = [x \in Sides |-> <<>>]
  /\ gone = [x \in Sides |-> "no"] /\ rst = [x \in Sides |-> "no"]
  /\ sent = None /\ executed = None /\ answered = None /\ short = {} /\ fate = "no"

-----------------------------------------------------------------------------
(* Messages *)

IntBytes(n) == <<n % ByteMod, n \div ByteMod>>

\* The numbers that an int may hold, with any byte for one never written.
Values(bytes) ==
  {a + ByteMod * b : a \in IF bytes[1] = Junk THEN Byte ELSE {bytes[1]},
                     b \in IF bytes[2] = Junk THEN Byte ELSE {bytes[2]}}

\* base_data::write of a string: its length, then its bytes.
Text(t) == <<IntBytes(Len(t)), t>>

\* request_data::send and response_data::send, one write per piece.
RequestPieces(r) ==
  <<IntBytes(r.type), IntBytes(r.user_id), IntBytes(r.target)>> \o Text(Join(r.vec))
ResponsePieces(r) == <<IntBytes(r.success), IntBytes(r.user_id)>> \o Text(r.text)

\* Fault: the receiver takes user_id and target in the other order.
RequestFieldsSwapped == <<"type", "target", "user_id", "len", "text">>

\* request_data::recv and response_data::recv.
RequestFields == <<"type", "user_id", "target", "len", "text">>

\* Fault: the response is read without its user_id.
ResponseFieldsForgetUser == <<"success", "len", "text">>

ResponseFields == <<"success", "user_id", "len", "text">>

-----------------------------------------------------------------------------
(* The sockets of the two ends *)

At(x, pc) == end[x].pc = pc
Becomes(x, e) == end' = [end EXCEPT ![x] = e]

\* x's end is closed, by the program or with its process.  Bytes it has not
\* read make it a reset.
LeavesUnread(x, unread) ==
  LET how == IF unread = <<>> THEN "fin" ELSE "rst"
      y == Other(x)
  IN /\ gone' = [gone EXCEPT ![x] = how]
     /\ rst' = IF how = "rst" /\ gone[y] = "no" /\ rst[y] = "no"
                 THEN [rst EXCEPT ![y] = "coming"] ELSE rst
     /\ inq' = [inq EXCEPT ![x] = <<>>]
Leaves(x) == LeavesUnread(x, inq[x])

Ended(x) == gone[Other(x)] = "fin" \/ rst[x] \in {"here", "noted"}

\* What a recv of n bytes may return; no outcome means that it blocks.  A reset
\* is reported once and reads like the end of the stream afterwards.
Received(x, n) ==
  IF n = 0 THEN {<<>>}
  ELSE IF inq[x] # <<>> THEN {SubSeq(inq[x], 1, k) : k \in 1 .. Min({n, Len(inq[x])})}
  ELSE IF Ended(x) THEN {<<>>}
  ELSE {}

\* read_n, which goes on until it has all or the stream ends.
ReceivedAll(x, n) ==
  IF n <= Len(inq[x]) THEN {SubSeq(inq[x], 1, n)}
  ELSE IF Ended(x) THEN {inq[x]}
  ELSE {}

\* x has received bytes into the start of a buffer of n.
Takes(x, bytes, n) ==
  /\ inq' = [inq EXCEPT ![x] = SubSeq(@, Len(bytes) + 1, Len(@))]
  /\ rst' = IF bytes = <<>> /\ n > 0 /\ rst[x] = "here"
              THEN [rst EXCEPT ![x] = "noted"] ELSE rst
  /\ short' = IF Len(bytes) < n THEN short \cup {x} ELSE short
  /\ UNCHANGED <<gone, sent, executed, answered>>
Filled(buffer, bytes) == bytes \o SubSeq(buffer, Len(bytes) + 1, Len(buffer))

\* One send.  Bytes for an end that is gone bring a reset; an error is returned
\* at most once, then SIGPIPE ends the process, since nobody calls
\* socket::initialize.
Sends(x, bytes) ==
  \/ /\ rst[x] \in {"no", "coming"} /\ gone[Other(x)] = "no"
     /\ inq' = [inq EXCEPT ![Other(x)] = @ \o bytes]
     /\ UNCHANGED <<gone, rst>>
  \/ /\ rst[x] \in {"no", "coming"} /\ gone[Other(x)] # "no"
     /\ rst' = [rst EXCEPT ![x] = "coming"]
     /\ UNCHANGED <<gone, inq>>
  \/ /\ rst[x] = "here"
     /\ rst' = [rst EXCEPT ![x] = "noted"]
     /\ UNCHANGED <<gone, inq>>
BrokenPipe(x) == rst[x] \in {"here", "noted"}

\* The network delivers a reset; bytes that were behind it are lost.
ResetArrives(x) ==
  /\ rst[x] = "coming"
  /\ rst' = [rst EXCEPT ![x] = "here"]
  /\ \E k \in 0 .. Len(inq[x]) : inq' = [inq EXCEPT ![x] = SubSeq(@, 1, k)]
  /\ UNCHANGED <<end, gone, history, fate>>

-----------------------------------------------------------------------------
(* Fields, at either end *)

Write(x) ==
  /\ At(x, "write") /\ end[x].out # <<>>
  /\ Sends(x, Head(end[x].out))
  /\ Becomes(x, [end[x] EXCEPT !.out = Tail(@)])
  /\ UNCHANGED <<history, fate>>

\* Fault: the size of another field is read.
ReadIntOverruns(x) ==
  LET e == end[x]
      f == Head(e.fields)
  IN /\ At(x, "read") /\ e.fields # <<>> /\ f \notin {"len", "text"}
     /\ \E bytes \in Received(x, 2 * Width) :
          /\ Takes(x, bytes, 2 * Width)
          /\ Becomes(x, [e EXCEPT !.fields = Tail(@), !.got[f] = Filled(@, bytes)])
     /\ UNCHANGED fate

\* base_data::read of an int.
ReadInt(x) ==
  LET e == end[x]
      f == Head(e.fields)
  IN /\ At(x, "read") /\ e.fields # <<>> /\ f \notin {"len", "text"}
     /\ \E bytes \in Received(x, Width) :
          /\ Takes(x, bytes, Width)
          /\ Becomes(x, [e EXCEPT !.fields = Tail(@), !.got[f] = Filled(@, bytes)])
     /\ UNCHANGED fate

\* base_data::read of a string: the length, for which the buffer is resized.
ReadLen(x) ==
  LET e == end[x]
  IN /\ At(x, "read") /\ e.fields # <<>> /\ Head(e.fields) = "len"
     /\ \E bytes \in Received(x, Width) :
          /\ Takes(x, bytes, Width)
          /\ \E len \in Values(Filled(Untouched, bytes)) :
               /\ len < HugeLen
               /\ Becomes(x, [e EXCEPT !.fields = Tail(@), !.text = [i \in 1 .. len |-> 0]])
     /\ UNCHANGED fate

\* Fault: the bytes of the string are read until all are there.
ReadTextAll(x) ==
  LET e == end[x]
  IN /\ At(x, "read") /\ e.fields # <<>> /\ Head(e.fields) = "text"
     /\ \E bytes \in ReceivedAll(x, Len(e.text)) :
          /\ Takes(x, bytes, Len(e.text))
          /\ Becomes(x, [e EXCEPT !.fields = Tail(@), !.text = Filled(@, bytes)])
     /\ UNCHANGED fate

\* The bytes of the string, as many as one recv gives.
ReadText(x) ==
  LET e == end[x]
  IN /\ At(x, "read") /\ e.fields # <<>> /\ Head(e.fields) = "text"
     /\ \E bytes \in Received(x, Len(e.text)) :
          /\ Takes(x, bytes, Len(e.text))
          /\ Becomes(x, [e EXCEPT !.fields = Tail(@), !.text = Filled(@, bytes)])
     /\ UNCHANGED fate

\* A length that resize() cannot serve: the exception leaves the function that
\* reads, and its socket is destroyed.
Throws(x) ==
  /\ At(x, "read") /\ end[x].fields # <<>> /\ Head(end[x].fields) = "len"
  /\ \E bytes \in Received(x, Width) :
       /\ \E len \in Values(Filled(Untouched, bytes)) : len >= HugeLen
       /\ LeavesUnread(x, SubSeq(inq[x], Len(bytes) + 1, Len(inq[x])))

Fields(x) == Write(x) \/ ReadInt(x) \/ ReadLen(x) \/ ReadText(x)

-----------------------------------------------------------------------------
(* client_session::feed *)

\* The client, or the one started after it, has a request to make.
Free == At("client", "idle") \/ At("client", "left")

\* request_data::send, then response_data::recv.
Connect(r) ==
  /\ Free /\ At("server", "listen")
  /\ inq' = [x \in Sides |-> <<>>]
  /\ gone' = [x \in Sides |-> "no"] /\ rst' = [x \in Sides |-> "no"]
  /\ end' = [client |-> [End("write") EXCEPT !.out = RequestPieces(r),
                                            !.fields = ResponseFields],
             server |-> [End("read") EXCEPT !.fields = RequestFields]]
  /\ sent' = r /\ executed' = None /\ answered' = None /\ short' = {}
  /\ UNCHANGED fate

\* "failed to connect...": the answer is made up of success = 0.
ConnectFails(r) ==
  /\ Free /\ At("server", "down")
  /\ Becomes("client", [End("idle") EXCEPT !.got["success"] = IntBytes(0)])
  /\ sent' = r /\ executed' = None /\ answered' = None /\ short' = {}
  /\ UNCHANGED <<net, fate>>

Awaits ==
  /\ At("client", "write") /\ end["client"].out = <<>>
  /\ Becomes("client", [end["client"] EXCEPT !.pc = "read"])
  /\ UNCHANGED <<net, history, fate>>

\* The answer is printed and returned, the connection closed.
Returns ==
  /\ At("client", "read") /\ end["client"].fields = <<>>
  /\ Becomes("client", [end["client"] EXCEPT !.pc = "idle"])
  /\ Leaves("client")
  /\ UNCHANGED <<history, fate>>

\* The cli catches an exception that leaves feed.
FeedThrows ==
  /\ Throws("client")
  /\ Becomes("client", End("idle"))
  /\ short' = short \cup {"client"}
  /\ UNCHANGED <<sent, executed, answered, fate>>

\* The person leaves, or SIGPIPE ends the client.
ClientLeaves ==
  /\ At("client", "write") \/ At("client", "read")
  /\ Becomes("client", End("left"))
  /\ Leaves("client")
  /\ UNCHANGED <<history, fate>>

-----------------------------------------------------------------------------
(* session::serve *)

\* exec is given whatever was read.
Exec ==
  LET e == end["server"]
  IN /\ At("server", "read") /\ e.fields = <<>>
     /\ executed' = [type |-> e.got["type"], user_id |-> e.got["user_id"],
                     target |-> e.got["target"], text |-> e.text]
     /\ \E r \in Responses :
          /\ answered' = r
          /\ Becomes("server", [End("write") EXCEPT !.out = ResponsePieces(r)])
     /\ UNCHANGED <<net, sent, short, fate>>

\* sock.close(), and the thread ends.
Done ==
  /\ At("server", "write") /\ end["server"].out = <<>>
  /\ Becomes("server", End("listen"))
  /\ Leaves("server")
  /\ UNCHANGED <<history, fate>>

\* The server's process ends: a handler or another thread dereferences null, an
\* exception leaves serve, SIGPIPE, a kill.
Ends(how) == Becomes("server", End("down")) /\ fate' = how /\ UNCHANGED history

Dies ==
  /\ ~At("server", "down") /\ Ends("kill")
  /\ IF At("server", "listen") THEN UNCHANGED net ELSE Leaves("server")
ServeThrows == Throws("server") /\ Ends("throw")
SignalOf(x) == At(x, "write") /\ end[x].out # <<>> /\ BrokenPipe(x)
ServePipe == SignalOf("server") /\ Ends("pipe") /\ Leaves("server")
Restart ==
  /\ At("server", "down") /\ Becomes("server", End("listen")) /\ fate' = "no"
  /\ UNCHANGED <<net, history>>

-----------------------------------------------------------------------------
Feed == \E r \in Requests : Connect(r) \/ ConnectFails(r)
ClientGoesOn ==
  \/ Fields("client") \/ Awaits \/ Returns \/ FeedThrows
  \/ SignalOf("client") /\ ClientLeaves
ServerGoesOn == Fields("server") \/ Exec \/ Done \/ ServeThrows \/ ServePipe

Next ==
  \/ Feed \/ ClientGoesOn \/ ClientLeaves
  \/ ServerGoesOn \/ Dies \/ Restart
  \/ \E x \in Sides : ResetArrives(x)

Spec == Init /\ [][Next]_vars

\* Both programs run, and the network delivers.
Fairness ==
  /\ WF_vars(ClientGoesOn) /\ WF_vars(ServerGoesOn)
  /\ \A x \in Sides : WF_vars(ResetArrives(x))
FairSpec == Spec /\ Fairness

-----------------------------------------------------------------------------
(* Correctness *)

\* No read writes past its field: an int keeps its width whatever arrives.
TypeOK ==
  /\ \A x \in Sides : \A f \in DOMAIN end[x].got :
       Len(end[x].got[f]) = Width /\ \A i \in 1 .. Width : end[x].got[f][i] \in Byte \cup {Junk}
  /\ \A x \in Sides : /\ end[x].text \in Seq(Byte) /\ Len(end[x].text) < HugeLen
                       /\ inq[x] \in Seq(Byte)
                       /\ gone[x] \in {"no", "fin", "rst"}
                       /\ rst[x] \in {"no", "coming", "here", "noted"}
  /\ end["client"].pc \in {"idle", "write", "read", "left"}
  /\ end["server"].pc \in {"listen", "read", "write", "down"}
  /\ short \subseteq Sides

\* A request is executed as it was sent, however its bytes were cut and whatever
\* happened to the connection since, unless a recv of the server returned less
\* than its field (which serve does not notice).
ExecutedAsSent ==
  executed # None /\ "server" \notin short =>
    /\ executed.type = IntBytes(sent.type)
    /\ executed.user_id = IntBytes(sent.user_id)
    /\ executed.target = IntBytes(sent.target)
    /\ executed.text = Join(sent.vec)

\* The handler sees the fields that were typed, unless one of them holds the
\* delimiter; a request without fields gives it one empty field.
FieldsArrive ==
  executed # None /\ "server" \notin short
    /\ (\A k \in DOMAIN sent.vec : \A i \in DOMAIN sent.vec[k] : sent.vec[k][i] # Delimiter)
    => Split(executed.text) = IF sent.vec = <<>> THEN <<<<>>>> ELSE sent.vec

\* What feed returns after a full read is what exec answered to this request; it
\* makes an answer up only when it could not connect, and then the request was
\* not executed.
AnswerIsTheServers ==
  At("client", "idle") /\ sent # None /\ "client" \notin short =>
    LET resp == end["client"]
    IN \/ /\ answered # None
          /\ resp.got["success"] = IntBytes(answered.success)
          /\ resp.got["user_id"] = IntBytes(answered.user_id)
          /\ resp.text = answered.text
       \/ executed = None /\ resp.got["success"] = IntBytes(0)

\* Nobody waits for ever: after a read that ended early there are bytes left for
\* the next one, so that even two ends that misread each other come to an end.
FeedEnds == ~Free ~> Free
ServeEnds == At("server", "read") \/ At("server", "write") ~> At("server", "listen") \/ At("server", "down")

-----------------------------------------------------------------------------
(* What the source's own words say, and the programs do not do *)

\* "error when sending resp." (server_session.cpp:113): a client that is gone
\* before it has its answer is an error of one thread, and not the end of the
\* server.
SurvivesClients == fate # "pipe"
=============================================================================
