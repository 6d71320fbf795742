------------------------------- MODULE Socket -------------------------------
(***************************************************************************)
(* One `Socket` object of the JavaScript runtime (bindings/modules/        *)
(* socket/socket.cc) with one of its two engines, the TCP one              *)
(* (tcp_socket.cc) or the one for WebSockets (web_socket.cc).              *)
(*                                                                         *)
(* The main thread runs JavaScript, which opens, writes and closes, and    *)
(* once per server frame runs the oldest callback that was posted to the   *)
(* main io_context.  The background thread runs the completion handlers of *)
(* the operations the two threads start, in the order in which the         *)
(* operations completed.  The network decides when an operation completes, *)
(* and how.                                                                *)
(*                                                                         *)
(* Streams are numbered: i is the secure stream created for attempt i, -i  *)
(* the plain one, which the WebSocket engine creates for each attempt, and *)
(* 0 is boost_tcp_socket_, which all the plain attempts of the TCP engine  *)
(* share; where a pointer is 0 otherwise, there is no stream yet.          *)
(*                                                                         *)
(* Nothing orders the accesses of the two threads to active_write_ and     *)
(* write_queue_, and to ssl_mode_ and the pointers to the streams: Write   *)
(* is split at the former, and Halfway is OnResolved between the latter.   *)
(* Every access is taken to be atomic.                                     *)
(***************************************************************************)
EXTENDS Integers, Sequences, FiniteSets, SequencesExt

CONSTANTS
  Engines,        \* the engines a socket may have, a subset of {"tcp", "web"}
  Modes,          \* values of the `ssl` option, a subset of {"none", "ssl"}
  MaxOpens,       \* bound: calls of open() that find the socket disconnected
  MaxWrites,      \* bound: calls of write()
  MaxCloses,      \* bound: calls of close()
  MaxCalls,       \* bound: calls of the three together, for each engine
  MaxMessages     \* bound: successful reads

ASSUME SocketAssumption ==
  /\ Engines \subseteq {"tcp", "web"}
  /\ Modes \subseteq {"none", "ssl"}
  /\ MaxOpens \in Nat \ {0}
  /\ {MaxWrites, MaxCloses, MaxMessages} \subseteq Nat
  /\ MaxCalls \in [Engines -> Nat]

VARIABLES
  (* The Socket object, main thread. *)
  engine,           \* the class of engine_
  state,            \* state_
  opened,           \* the promises of open()
  written,          \* the promises of write()
  closes,           \* calls of close()
  (* Shared with the background thread. *)
  ssl_mode,         \* ssl_mode_ is not kNone
  plain,            \* boost_tcp_socket_ or ws_stream_
  secure,           \* boost_ssl_socket_ or wss_stream_
  status,           \* what each stream is ready for
  timer,            \* the attempt boost_deadline_timer_ runs for, or 0
  active_write,     \* active_write_
  write_queue,      \* write_queue_
  (* boost::asio. *)
  posted,           \* callbacks the main thread has to run
  in_flight,        \* operations that have not completed
  ready,            \* completions the background thread has to handle
  received,         \* reads that returned data
  (* Write and OnWrite, which both threads may be in. *)
  pc, hand

objectVars == <<engine, state, opened, written, closes>>
pointerVars == <<ssl_mode, plain, secure>>
streamVars == <<pointerVars, status, timer>>
writeVars  == <<active_write, write_queue, pc, hand>>
ioVars     == <<in_flight, ready>>
vars == <<objectVars, streamVars, writeVars, posted, ioVars, received>>

Attempt == 1 .. MaxOpens
WriteId == 1 .. MaxWrites
Stream  == -MaxOpens .. MaxOpens
Thread  == {"main", "background"}

Operation ==
  [op : {"resolve", "connect", "handshake", "upgrade", "read"}, id : Attempt, on : Stream]
    \cup [op : {"send"}, id : WriteId, on : Stream]
    \cup [op : {"shutdown"}, id : 1 .. MaxCloses, on : Stream]

Completion ==
  [of : Operation, ec : {"ok", "error"}]
    \cup [of : [op : {"timer"}, id : Attempt, on : {0}], ec : {"ok"}]

Callback ==
  [to : {"OnConnect"}, id : Attempt, ec : {"ok", "error", "timed_out"}]
    \cup [to : {"OnWrite"}, id : WriteId]
    \cup [to : {"OnRead", "OnError", "OnClose"}]

SocketTypeOK ==
  /\ engine \in Engines
  /\ state \in {"connecting", "connected", "disconnecting", "disconnected"}
  /\ opened \in [Attempt -> {"none", "pending", "resolved"}]
  /\ written \in [WriteId -> {"none", "pending", "resolved"}]
  /\ closes \in 0 .. MaxCloses
  /\ ssl_mode \in BOOLEAN
  /\ plain \in -MaxOpens .. 0
  /\ secure \in 0 .. MaxOpens
  /\ status \in [Stream -> {"closed", "connecting", "connected", "secure", "open"}]
  /\ timer \in 0 .. MaxOpens
  /\ active_write \in BOOLEAN
  /\ write_queue \in Seq(WriteId)
  /\ posted \in Seq(Callback)
  /\ in_flight \in SUBSET Operation
  /\ ready \in Seq(Completion)
  /\ received \in 0 .. MaxMessages
  /\ pc \in [Thread -> {"idle", "test", "push", "send", "flush", "closing", "ended"}]
  /\ hand \in [Thread -> 0 .. MaxWrites]

Init ==
  /\ engine \in Engines
  /\ state = "disconnected"
  /\ opened = [i \in Attempt |-> "none"]
  /\ written = [w \in WriteId |-> "none"]
  /\ closes = 0
  /\ ssl_mode = FALSE
  /\ plain = 0
  /\ secure = 0
  /\ status = [s \in Stream |-> "closed"]
  /\ timer = 0
  /\ active_write = FALSE
  /\ write_queue = <<>>
  /\ posted = <<>>
  /\ in_flight = {}
  /\ ready = <<>>
  /\ received = 0
  /\ pc = [t \in Thread |-> "idle"]
  /\ hand = [t \in Thread |-> 0]

\* The stream the engine uses.
Current == IF ssl_mode THEN secure ELSE plain

\* The background thread handles the completions in their order.
Handle(op) ==
  /\ pc["background"] = "idle"
  /\ ready # <<>> /\ Head(ready).of.op = op

Of == Head(ready).of
Ok == Head(ready).ec = "ok"

\* OnResolved may have set ssl_mode_ and not yet have made the first stream of
\* that kind: the main thread then finds a null pointer.
Halfway ==
  /\ Handle("resolve") /\ Ok
  /\ (Of.on > 0 /\ secure = 0) \/ (Of.on < 0 /\ plain = 0)

\* A null pointer, or an exception nobody catches, ends the process.
End == pc' = [t \in Thread |-> "ended"]
Ended == pc["main"] = "ended"
-----------------------------------------------------------------------------
(***************************************************************************)
(* boost::asio, and boost::beast for WebSockets.                           *)
(***************************************************************************)
Completed(o, ec) == [of |-> o, ec |-> ec]

\* What a stream must be for the operation to start at all: TLS comes before
\* the upgrade to a WebSocket, data after both.
Transport(s) == IF s > 0 THEN "secure" ELSE "connected"

Accepts(o) ==
  status[o.on] =
    CASE o.op = "handshake" -> "connected"
      [] o.op = "upgrade" -> Transport(o.on)
      [] o.op \in {"read", "send", "shutdown"} ->
           IF engine = "web" THEN "open" ELSE Transport(o.on)

\* An operation started on a stream that is not fit for it completes at once.
Start(o, completions) ==
  \/ /\ Accepts(o)
     /\ in_flight' = in_flight \cup {o}
     /\ ready' = completions
  \/ /\ ~Accepts(o)
     /\ ready' = Append(completions, Completed(o, "error"))
     /\ UNCHANGED in_flight

\* Closing, or destroying, a stream aborts what is in flight on it.
Pending(s) == {o \in in_flight : o.on = s /\ o.op # "resolve"}
Aborts(s) == SetToSeqs({Completed(o, "error") : o \in Pending(s)})

CloseStream(s, completions) ==
  /\ status' = [status EXCEPT ![s] = "closed"]
  /\ in_flight' = in_flight \ Pending(s)
  /\ \E aborts \in Aborts(s) : ready' = completions \o aborts

\* What the stream becomes when an operation on it completes.
StatusAfter(o, ec) ==
  CASE o.op = "connect" -> IF ec = "ok" THEN "connected" ELSE "closed"
    [] o.op = "handshake" /\ ec = "ok" -> "secure"
    [] o.op = "upgrade" /\ ec = "ok" -> "open"
    [] o.op = "shutdown" -> IF engine = "web" THEN "closed" ELSE "connected"
    [] OTHER -> status[o.on]

\* What goes when o completes: a WebSocket that was closed is torn down.
Goes(o) ==
  IF engine = "web" /\ o.op = "shutdown" THEN Pending(o.on) ELSE {o}

\* The network: an operation completes.  Names are resolved one at a time.
Complete(o, ec) ==
  /\ o \in in_flight
  /\ o.op = "resolve" =>
       \A other \in in_flight : other.op = "resolve" => o.id <= other.id
  /\ o.op = "read" /\ ec = "ok" => received < MaxMessages
  /\ received' = received + (IF o.op = "read" /\ ec = "ok" THEN 1 ELSE 0)
  /\ in_flight' = in_flight \ Goes(o)
  /\ \E aborts \in SetToSeqs({Completed(p, "error") : p \in Goes(o) \ {o}}) :
       ready' = Append(ready, Completed(o, ec)) \o aborts
  /\ status' = IF o.op = "resolve" THEN status
               ELSE [status EXCEPT ![o.on] = StatusAfter(o, ec)]
  /\ UNCHANGED <<objectVars, pointerVars, timer, writeVars, posted>>

\* The time an attempt may take is over.
Expire ==
  /\ timer # 0
  /\ timer' = 0
  /\ ready' = Append(ready,
                     Completed([op |-> "timer", id |-> timer, on |-> 0], "ok"))
  /\ UNCHANGED <<objectVars, pointerVars, status, writeVars, posted, in_flight,
                 received>>
-----------------------------------------------------------------------------
(***************************************************************************)
(* The main thread.                                                        *)
(***************************************************************************)
Opens == Cardinality({i \in Attempt : opened[i] # "none"})
Writes == Cardinality({w \in WriteId : written[w] # "none"})
MayCall == pc["main"] = "idle" /\ Opens + Writes + closes < MaxCalls[engine]

\* Socket.prototype.open(): anything but a disconnected socket throws.
Open(mode) ==
  /\ MayCall
  /\ state = "disconnected" /\ Opens < MaxOpens
  /\ LET i == Opens + 1
     IN  /\ opened' = [opened EXCEPT ![i] = "pending"]
         /\ in_flight' = in_flight \cup
              {[op |-> "resolve", id |-> i,
                on |-> CASE mode = "ssl" -> i
                         [] mode = "none" /\ engine = "web" -> -i
                         [] mode = "none" /\ engine = "tcp" -> 0]}
  /\ state' = "connecting"
  /\ UNCHANGED <<engine, written, closes, streamVars, writeVars, posted, ready,
                 received>>

\* Socket.prototype.write(): anything but a connected socket throws.
Write ==
  /\ MayCall
  /\ state = "connected" /\ Writes < MaxWrites
  /\ written' = [written EXCEPT ![Writes + 1] = "pending"]
  /\ hand' = [hand EXCEPT !["main"] = Writes + 1]
  /\ pc' = [pc EXCEPT !["main"] = "test"]
  /\ UNCHANGED <<engine, state, opened, closes, streamVars, active_write,
                 write_queue, posted, ioVars, received>>

\* TcpSocket::Close, of a plain stream: it is closed on the spot.
ClosePlain ==
  /\ engine = "tcp" /\ ~ssl_mode
  /\ CloseStream(0, ready)
  /\ posted' = Append(posted, [to |-> "OnClose"])
  /\ UNCHANGED pc

\* A secure stream and a WebSocket have to shut down.
Shutdown ==
  /\ Current # 0
  /\ Start([op |-> "shutdown", id |-> closes', on |-> Current], ready)
  /\ UNCHANGED <<status, posted, pc>>

\* Neither engine asks whether there is a stream.
CloseNothing ==
  /\ (engine = "web" /\ Current = 0) \/ Halfway
  /\ End
  /\ UNCHANGED <<status, posted, ioVars>>

\* Socket.prototype.close(), valid in every state but disconnected, so also
\* when the socket is being closed already.
Close ==
  /\ MayCall
  /\ state # "disconnected" /\ closes < MaxCloses
  /\ state' = "disconnecting"
  /\ closes' = closes + 1
  /\ ClosePlain \/ Shutdown \/ CloseNothing
  /\ UNCHANGED <<engine, opened, written, pointerVars, timer, active_write,
                 write_queue, hand, received>>

\* Runtime::OnFrame: the main thread runs the callback posted first.
RunOne(name) ==
  /\ pc["main"] = "idle"
  /\ posted # <<>> /\ Head(posted).to = name
  /\ posted' = Tail(posted)

OnConnect ==
  /\ RunOne("OnConnect")
  /\ LET i == Head(posted).id
         resolve == opened' = [opened EXCEPT ![i] = "resolved"]
     IN  \/ /\ Head(posted).ec = "ok"
            /\ state' = "connected"
            /\ Start([op |-> "read", id |-> i, on |-> Current], ready)
            /\ resolve
            /\ UNCHANGED pc
         \/ /\ Head(posted).ec = "ok" /\ Halfway
            /\ state' = "connected"
            /\ End
            /\ UNCHANGED <<opened, ioVars>>
         \/ /\ Head(posted).ec # "ok"
            /\ state' = "disconnected"
            /\ resolve
            /\ UNCHANGED <<pc, ioVars>>
  /\ UNCHANGED <<engine, written, closes, streamVars, active_write, write_queue,
                 hand, received>>

OnWriteResult ==
  /\ RunOne("OnWrite")
  /\ written' = [written EXCEPT ![Head(posted).id] = "resolved"]
  /\ UNCHANGED <<engine, state, opened, closes, streamVars, writeVars, ioVars,
                 received>>

\* The promise close() has returned is left as it is.
OnClose ==
  /\ RunOne("OnClose")
  /\ state' = "disconnected"
  /\ UNCHANGED <<engine, opened, written, closes, streamVars, writeVars, ioVars,
                 received>>

\* `message` and `error` events go to the listeners, the state stays.
OnEvent ==
  /\ RunOne("OnRead") \/ RunOne("OnError")
  /\ UNCHANGED <<objectVars, streamVars, writeVars, ioVars, received>>
-----------------------------------------------------------------------------
(***************************************************************************)
(* The background thread.                                                  *)
(***************************************************************************)
PostConnect(ec) ==
  posted' = Append(posted, [to |-> "OnConnect", id |-> Of.id, ec |-> ec])

\* boost_tcp_socket_ refuses a second connect while it is connecting or
\* connected; where a stream is created, the last one of its kind is destroyed.
Connect ==
  LET o == [op |-> "connect", id |-> Of.id, on |-> Of.on]
      old == {s \in Stream : s * o.on > 0 /\ s # o.on}
      lost == UNION {Pending(s) : s \in old}
  IN  \/ /\ o.on = 0 /\ status[0] # "closed"
         /\ ready' = Append(Tail(ready), Completed(o, "error"))
         /\ UNCHANGED <<in_flight, status>>
      \/ /\ o.on # 0 \/ status[0] = "closed"
         /\ in_flight' = (in_flight \ lost) \cup {o}
         /\ \E aborts \in SetToSeqs({Completed(p, "error") : p \in lost}) :
              ready' = Tail(ready) \o aborts
         /\ status' = [s \in Stream |->
                         CASE s = o.on -> "connecting"
                           [] s \in old -> "closed"
                           [] OTHER -> status[s]]

\* Mutant: only plain attempts get a deadline.
SetPlainDeadline == timer' = IF Of.on = 0 THEN Of.id ELSE 0

\* expires_from_now cancels a wait for an earlier attempt.
SetDeadline == timer' = Of.id

OnResolved ==
  /\ Handle("resolve")
  /\ \/ /\ Ok
        /\ Connect
        /\ ssl_mode' = (Of.on > 0)
        /\ plain' = IF Of.on < 0 THEN Of.on ELSE plain
        /\ secure' = IF Of.on > 0 THEN Of.on ELSE secure
        /\ SetDeadline
        /\ UNCHANGED posted
     \/ /\ ~Ok
        /\ PostConnect("error")
        /\ ready' = Tail(ready)
        /\ UNCHANGED <<streamVars, in_flight>>
  /\ UNCHANGED <<objectVars, writeVars, received>>

\* The attempt is over, well or not.
Report ==
  /\ timer' = 0
  /\ PostConnect(Head(ready).ec)
  /\ ready' = Tail(ready)
  /\ UNCHANGED in_flight

\* The attempt goes on with the next operation, on stream s.
GoOn(op, s) ==
  /\ Ok
  /\ Start([op |-> op, id |-> Of.id, on |-> s], Tail(ready))
  /\ UNCHANGED <<timer, posted>>

\* TcpSocket::OnConnected.  The mode that counts is that of the stream in use.
OnConnected ==
  /\ engine = "tcp" /\ Handle("connect")
  /\ \/ (~Ok \/ ~ssl_mode) /\ Report
     \/ ssl_mode /\ GoOn("handshake", secure)
  /\ UNCHANGED <<objectVars, pointerVars, status, writeVars, received>>

\* WebSocket::OnSecureConnected
OnSecureConnected ==
  /\ engine = "web" /\ Handle("connect") /\ Of.on > 0
  /\ \/ ~Ok /\ Report
     \/ GoOn("handshake", secure)
  /\ UNCHANGED <<objectVars, pointerVars, status, writeVars, received>>

\* WebSocket::OnConnected, after TLS if there is any.
OnTransport ==
  /\ engine = "web"
  /\ Handle("handshake") \/ (Handle("connect") /\ Of.on < 0)
  /\ \/ ~Ok /\ Report
     \/ GoOn("upgrade", Current)
  /\ UNCHANGED <<objectVars, pointerVars, status, writeVars, received>>

OnHandshakeCompleted ==
  /\ Handle(IF engine = "web" THEN "upgrade" ELSE "handshake")
  /\ Report
  /\ UNCHANGED <<objectVars, pointerVars, status, writeVars, received>>

\* TcpSocket::OnConnectionTimeout, and the end of that of WebSocket.
TimedOut ==
  /\ CloseStream(Current, Tail(ready))
  /\ PostConnect("timed_out")
  /\ UNCHANGED <<objectVars, pointerVars, timer, active_write, write_queue,
                 hand, received>>

OnConnectionTimeout ==
  /\ engine = "tcp" /\ Handle("timer")
  /\ TimedOut
  /\ UNCHANGED pc

\* WebSocket::OnConnectionTimeout calls the close() that waits for the peer's
\* answer and throws when it fails, as it does if the stream is not open.
OnWebTimeout ==
  /\ engine = "web" /\ Handle("timer")
  /\ \/ /\ status[Current] = "open"
        /\ pc' = [pc EXCEPT !["background"] = "closing"]
     \/ status[Current] # "open" /\ End
  /\ UNCHANGED <<objectVars, streamVars, active_write, write_queue, hand,
                 posted, ioVars, received>>

\* The peer answers, or the connection breaks.
CloseReturns ==
  /\ pc["background"] = "closing"
  /\ \/ /\ TimedOut
        /\ pc' = [pc EXCEPT !["background"] = "idle"]
     \/ /\ End
        /\ UNCHANGED <<objectVars, streamVars, active_write, write_queue, hand,
                       posted, ioVars, received>>

\* Reading goes on until it fails.
OnRead ==
  /\ Handle("read")
  /\ \/ /\ Ok
        /\ posted' = Append(posted, [to |-> "OnRead"])
        /\ Start([op |-> "read", id |-> Of.id, on |-> Current], Tail(ready))
     \/ /\ ~Ok
        /\ posted' = Append(posted, [to |-> "OnError"])
        /\ ready' = Tail(ready)
        /\ UNCHANGED in_flight
  /\ UNCHANGED <<objectVars, streamVars, writeVars, received>>

\* Mutant: a shutdown that failed is not reported.
OnShutdownIgnoresError ==
  /\ Handle("shutdown")
  /\ posted' = IF Ok THEN Append(posted, [to |-> "OnClose"]) ELSE posted
  /\ ready' = Tail(ready)
  /\ UNCHANGED <<objectVars, streamVars, writeVars, in_flight, received>>

OnShutdown ==
  /\ Handle("shutdown")
  /\ posted' = Append(posted, [to |-> "OnClose"])
  /\ ready' = Tail(ready)
  /\ UNCHANGED <<objectVars, streamVars, writeVars, in_flight, received>>

\* Mutant: an early return when the send has failed.
OnWriteReturnsOnError ==
  /\ Handle("send")
  /\ posted' = Append(posted, [to |-> "OnWrite", id |-> Of.id])
  /\ ready' = Tail(ready)
  /\ active_write' = ~Ok
  /\ pc' = [pc EXCEPT !["background"] = IF Ok THEN "flush" ELSE "idle"]
  /\ UNCHANGED <<objectVars, streamVars, write_queue, hand, in_flight,
                 received>>

OnWrite ==
  /\ Handle("send")
  /\ posted' = Append(posted, [to |-> "OnWrite", id |-> Of.id])
  /\ ready' = Tail(ready)
  /\ active_write' = FALSE
  /\ pc' = [pc EXCEPT !["background"] = "flush"]
  /\ UNCHANGED <<objectVars, streamVars, write_queue, hand, in_flight,
                 received>>

\* Mutant: the queue is read but not popped.
FlushWithoutPop ==
  /\ pc["background"] = "flush" /\ write_queue # <<>>
  /\ hand' = [hand EXCEPT !["background"] = Head(write_queue)]
  /\ pc' = [pc EXCEPT !["background"] = "test"]
  /\ UNCHANGED <<objectVars, streamVars, active_write, write_queue, posted,
                 ioVars, received>>

\* The second half of OnWrite.
Flush ==
  /\ pc["background"] = "flush"
  /\ \/ /\ write_queue = <<>>
        /\ pc' = [pc EXCEPT !["background"] = "idle"]
        /\ UNCHANGED <<write_queue, hand>>
     \/ /\ write_queue # <<>>
        /\ hand' = [hand EXCEPT !["background"] = Head(write_queue)]
        /\ write_queue' = Tail(write_queue)
        /\ pc' = [pc EXCEPT !["background"] = "test"]
  /\ UNCHANGED <<objectVars, streamVars, active_write, posted, ioVars,
                 received>>
-----------------------------------------------------------------------------
(***************************************************************************)
(* Write, the same in both engines, on either thread.                      *)
(***************************************************************************)
TestActive(t) ==
  /\ pc[t] = "test"
  /\ pc' = [pc EXCEPT ![t] = IF active_write THEN "push" ELSE "send"]
  /\ UNCHANGED <<objectVars, streamVars, active_write, write_queue, hand,
                 posted, ioVars, received>>

Push(t) ==
  /\ pc[t] = "push"
  /\ write_queue' = Append(write_queue, hand[t])
  /\ pc' = [pc EXCEPT ![t] = "idle"]
  /\ hand' = [hand EXCEPT ![t] = 0]
  /\ UNCHANGED <<objectVars, streamVars, active_write, posted, ioVars,
                 received>>

Send(t) ==
  /\ pc[t] = "send"
  /\ active_write' = TRUE
  /\ \/ /\ Start([op |-> "send", id |-> hand[t], on |-> Current], ready)
        /\ pc' = [pc EXCEPT ![t] = "idle"]
        /\ hand' = [hand EXCEPT ![t] = 0]
     \/ /\ t = "main" /\ Halfway
        /\ End
        /\ UNCHANGED <<hand, ioVars>>
  /\ UNCHANGED <<objectVars, streamVars, write_queue, posted, received>>
-----------------------------------------------------------------------------
ScriptNext == (\E mode \in Modes : Open(mode)) \/ Write \/ Close

WriteNext(t) == TestActive(t) \/ Push(t) \/ Send(t)

MainNext ==
  OnConnect \/ OnWriteResult \/ OnClose \/ OnEvent \/ WriteNext("main")

BackgroundNext ==
  OnResolved \/ OnConnected \/ OnSecureConnected \/ OnTransport
    \/ OnHandshakeCompleted \/ OnConnectionTimeout \/ OnWebTimeout \/ OnRead \/ OnShutdown \/ OnWrite \/ Flush \/ WriteNext("background")

Resolve ==
  \E o \in in_flight, ec \in {"ok", "error"} :
    o.op = "resolve" /\ Complete(o, ec)

NetworkNext ==
  CloseReturns \/ Expire \/ \E o \in in_flight, ec \in {"ok", "error"} : Complete(o, ec)

Next == ScriptNext \/ MainNext \/ BackgroundNext \/ NetworkNext

Spec == Init /\ [][Next]_vars

\* Both threads go on running what is posted to them, a name is resolved or
\* found not to exist, and time passes.  Peers need not do anything.
FairSpec ==
  /\ Spec
  /\ WF_vars(MainNext) /\ WF_vars(BackgroundNext)
  /\ WF_vars(Resolve) /\ WF_vars(Expire)
-----------------------------------------------------------------------------
(***************************************************************************)
(* Properties.                                                             *)
(***************************************************************************)
Occurrences(w, q) == {k \in DOMAIN q : q[k] = w}

\* Where a message can be.
Places(w) ==
  Cardinality(Occurrences(w, write_queue))
    + Cardinality({t \in Thread : hand[t] = w})
    + Cardinality({o \in in_flight : o.op = "send" /\ o.id = w})
    + Cardinality({k \in DOMAIN ready : ready[k].of.op = "send"
                                          /\ ready[k].of.id = w})
    + Cardinality({k \in DOMAIN posted : posted[k].to = "OnWrite"
                                           /\ posted[k].id = w})

\* A message is sent once and its promise resolved once, although both
\* threads take writes out of and put them back into the same queue: a
\* message whose promise is pending is in exactly one place, any other in none.
WritesAccounted ==
  \A w \in WriteId : Places(w) = IF written[w] = "pending" THEN 1 ELSE 0

\* The state is well formed and every write is in its one place.
SocketInv == SocketTypeOK /\ WritesAccounted

\* "Timeout, in seconds, to wait for the socket's connection to succeed"
\* (socket_module.h:27): open() is settled although the peer never answers,
\* unless it is disturbed: the handlers of another attempt that is still under
\* way cancel the timer, and close the stream, of whichever is current.  The
\* deadline of a WebSocket may end the process instead, or leave the background
\* thread waiting for the peer.
Resolving(i) == \E o \in in_flight : o.op = "resolve" /\ o.id = i

Disturbed(i) ==
  /\ opened[i] = "pending"
  /\ \E o \in in_flight \cup {ready[k].of : k \in DOMAIN ready} :
       o.op \in {"resolve", "connect", "handshake", "upgrade", "timer"} /\ o.id # i

Lost == Ended \/ pc["background"] = "closing"

OpenSettlesUnlessDisturbed ==
  \A i \in Attempt :
    (Resolving(i) /\ []~Disturbed(i)) ~> (opened[i] # "pending" \/ Lost)

\* close() leads out of the disconnecting state if the peers answer shutdowns.
ShutdownsAnswered == []<>(\A o \in in_flight : o.op # "shutdown")
CloseCompletes ==
  ShutdownsAnswered => []<>(state # "disconnecting" \/ Lost)

\* A write waits for ever only if a send does not complete, or because it is
\* stranded: queued while no write is active to take it out.
SendsComplete == []<>(\A o \in in_flight : o.op # "send")
Stranded(w) == Occurrences(w, write_queue) # {} /\ ~active_write
WriteSettlesUnlessStranded ==
  SendsComplete =>
    []<>(Lost \/ \A w \in WriteId : written[w] = "pending" => Stranded(w))

\* "it's important to wait for completion of one operation before starting
\* the next" (tcp_socket.h:69)
OneSendAtATime == Cardinality({o \in in_flight : o.op = "send"}) <= 1
=============================================================================
