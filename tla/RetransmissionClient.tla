------------------------ MODULE RetransmissionClient ------------------------
(***************************************************************************)
(* Networking::RetransmissionClient (networking/retransmission_client.cpp) *)
(* with the server it connects to, which is external.                      *)
(*                                                                         *)
(* Three kinds of threads share the client's members without a lock: the   *)
(* application's, which calls start and stop; client_thread_, which runs   *)
(* receive_loop; and those that call request_retransmission. Each step of  *)
(* a thread lies between two accesses that another thread can disturb.     *)
(*                                                                         *)
(* The server's byte stream is a sequence of half messages, so that recv   *)
(* can return any part of a message, and the receive buffer can start in   *)
(* the middle of one.                                                      *)
(***************************************************************************)
EXTENDS Integers, Sequences, FiniteSets

CONSTANTS
  Requesters,   \* the threads that call request_retransmission
  Backup,       \* NetworkManager has a backup server to fail over to
  MaxConns,     \* bound: connections that the server accepts
  MaxSent,      \* bound: messages that the server sends besides the login's
  MaxAsked      \* bound: requests

ASSUME BoundsAssumption == MaxConns \in Nat /\ MaxSent \in Nat /\ MaxAsked \in Nat

\* NetworkManager, which fails over, makes no requests.
ASSUME BackupAssumption == Backup \in BOOLEAN /\ (Backup => Requesters = {})

VARIABLES
  running, connected, logged_in,  \* the atomic flags
  socket_fd,           \* the connection's number, or NoFd for -1
  client_msg_seq_num,
  buffer,              \* tcp_receive_buffer_
  open,                \* the descriptors that the process has open
  timed,               \* the last connection has a receive timeout
  loop,                \* where client_thread_ is in receive_loop
  app,                 \* where the application is in stop
  req,                 \* where every requester is in request_retransmission
  fate,                \* "live" or "terminated"
  conns,               \* external: the server's side of every connection
  sent, asked,         \* counted against their bounds
  torn,                \* history: a connection followed one cut within a message
  meddled              \* history: a requester has closed the socket

flags == <<running, connected, logged_in>>
bounds == <<sent, asked>>
history == <<torn, meddled>>
vars == <<flags, socket_fd, client_msg_seq_num, buffer, open, timed, loop, app,
          req, fate, conns, bounds, history>>

NoFd == 0

-----------------------------------------------------------------------------
(* Messages *)

\* "data" is a message that changes nothing in the client: market data and the
\* answer to a request (102), which go to a callback, and login responses (030).
Kinds == {"050", "104", "010", "data"}
Halves == [conn : 1..MaxConns, kind : Kinds, part : {"head", "tail"}]

\* The bytes of a message of the server on connection c.
Bytes(c, kind) == << [conn |-> c, kind |-> kind, part |-> "head"],
                     [conn |-> c, kind |-> kind, part |-> "tail"] >>

\* process_incoming_data finds the start of a message at the front of a buffer.
Aligned(b) == b # << >> /\ b[1].part = "head"

\* The front of the buffer is one message, and not the head of one followed by
\* the bytes of another: the latter has a bad checksum and is not handled.
Intact(b) == b[2] = [b[1] EXCEPT !.part = "tail"]

Drop(b, n) == SubSeq(b, n + 1, Len(b))

-----------------------------------------------------------------------------
(* Sending *)

\* disconnected_callback_ on client_thread_. With a backup server it is
\* NetworkManager::on_retransmission_disconnected, which calls stop of this very
\* client: the thread joins itself, which throws; or, when stop is already
\* under way, replaces the client, whose destructor finds its thread joinable.
OnDisconnected == fate' = IF Backup THEN "terminated" ELSE fate

\* The socket is closed on client_thread_ after a failure.
Disconnect ==
  /\ open' = open \ {socket_fd}
  /\ socket_fd' = NoFd
  /\ connected' = FALSE
  /\ logged_in' = FALSE
  /\ OnDisconnected

Unsendable == ~ connected \/ socket_fd = NoFd

\* A peer that is gone, or a descriptor that another thread has closed.
SendCanFail == socket_fd \notin open \/ ~ conns[socket_fd].up

\* What the server has got once message m is sent; nothing if it is gone.
Transmitted(m) ==
  IF conns[socket_fd].up
  THEN [conns EXCEPT ![socket_fd].got = Append(@, m)]
  ELSE conns

\* send_tcp_message on client_thread_, with logged_in as it is to stay.
SendTcp(m) ==
  \/ /\ Unsendable
     /\ UNCHANGED <<socket_fd, connected, logged_in, open, fate, conns>>
  \/ /\ ~ Unsendable /\ socket_fd \in open
     /\ conns' = Transmitted(m)
     /\ UNCHANGED <<socket_fd, connected, logged_in, open, fate>>
  \/ /\ ~ Unsendable /\ SendCanFail
     /\ Disconnect
     /\ UNCHANGED conns

-----------------------------------------------------------------------------
(* client_thread_: receive_loop *)

\* Faulty variant of LoopTop: running_ is not looked at.
LoopTopForever ==
  /\ loop = "top"
  /\ loop' = IF ~ connected \/ socket_fd = NoFd THEN "connect" ELSE "recv"
  /\ UNCHANGED <<flags, socket_fd, client_msg_seq_num, buffer, open, timed, app,
                 req, fate, conns, bounds, history>>

LoopTop ==
  /\ loop = "top"
  /\ loop' = IF ~ running THEN "ended"
             ELSE IF ~ connected \/ socket_fd = NoFd THEN "connect" ELSE "recv"
  /\ UNCHANGED <<flags, socket_fd, client_msg_seq_num, buffer, open, timed, app,
                 req, fate, conns, bounds, history>>

\* connect_to_server up to the creation of the socket, after the sleep.
ConnectSocket ==
  /\ loop = "connect"
  /\ IF connected /\ socket_fd # NoFd
     THEN /\ loop' = "login"
          /\ UNCHANGED <<connected, logged_in, socket_fd, open, conns>>
     ELSE /\ connected' = FALSE
          /\ logged_in' = FALSE
          /\ IF Len(conns) < MaxConns
             THEN /\ conns' = Append(conns, [up |-> FALSE, got |-> << >>,
                                             out |-> << >>, said |-> "nothing"])
                  /\ socket_fd' = Len(conns')
                  /\ open' = (open \ {socket_fd}) \cup {socket_fd'}
                  /\ loop' = "connecting"
             ELSE /\ socket_fd' = NoFd      \* socket() fails
                  /\ open' = open \ {socket_fd}
                  /\ loop' = "top"
                  /\ UNCHANGED conns
  /\ UNCHANGED <<running, client_msg_seq_num, buffer, timed, app, req, fate,
                 bounds, history>>

\* connect() succeeds. A receive timeout that cannot be set is only logged.
ConnectOk ==
  /\ loop = "connecting"
  /\ socket_fd \in open
  /\ timed' \in BOOLEAN
  /\ conns' = [conns EXCEPT ![socket_fd].up = TRUE]
  /\ connected' = TRUE
  /\ loop' = "login"
  /\ torn' = (torn \/ (buffer # << >> /\ buffer[Len(buffer)].part = "head"))
  /\ UNCHANGED <<running, logged_in, socket_fd, client_msg_seq_num, buffer, open,
                 app, req, fate, bounds, meddled>>

\* Faulty variant of ConnectFails: the loop is left after one attempt.
ConnectFailsForGood ==
  /\ loop = "connecting"
  /\ open' = open \ {socket_fd}
  /\ conns' = IF socket_fd = NoFd THEN conns ELSE SubSeq(conns, 1, Len(conns) - 1)
  /\ socket_fd' = NoFd
  /\ loop' = "ended"
  /\ UNCHANGED <<flags, client_msg_seq_num, buffer, timed, app, req, fate,
                 bounds, history>>

\* connect() fails. The number of the connection that never was is used again.
ConnectFails ==
  /\ loop = "connecting"
  /\ open' = open \ {socket_fd}
  /\ conns' = IF socket_fd = NoFd THEN conns ELSE SubSeq(conns, 1, Len(conns) - 1)
  /\ socket_fd' = NoFd
  /\ loop' = "top"
  /\ UNCHANGED <<flags, client_msg_seq_num, buffer, timed, app, req, fate,
                 bounds, history>>

\* Faulty variant of perform_login: the numbers go on from the last connection.
perform_login_numbered_on ==
  /\ loop = "login"
  /\ loop' = "recv"
  /\ IF connected /\ ~ logged_in
     THEN /\ client_msg_seq_num' = client_msg_seq_num + 1
          /\ SendTcp(<<"020", client_msg_seq_num>>)
     ELSE UNCHANGED <<client_msg_seq_num, socket_fd, connected, logged_in, open,
                      fate, conns>>
  /\ UNCHANGED <<running, buffer, timed, app, req, bounds, history>>

\* perform_login: the numbers start again at the login request.
perform_login ==
  /\ loop = "login"
  /\ loop' = "recv"
  /\ IF connected /\ ~ logged_in
     THEN /\ client_msg_seq_num' = 1
          /\ SendTcp(<<"020", 0>>)
     ELSE UNCHANGED <<client_msg_seq_num, socket_fd, connected, logged_in, open,
                      fate, conns>>
  /\ UNCHANGED <<running, buffer, timed, app, req, bounds, history>>

\* The connection that recv was called with: a recv that blocks keeps it, even if
\* another thread closes the descriptor.
Reading == IF loop = "blocked" THEN Len(conns) ELSE socket_fd

CanRead == loop = "blocked" \/ (loop = "recv" /\ socket_fd \in open)

\* recv returns some of the bytes in flight.
RecvBytes ==
  /\ CanRead
  /\ \E n \in 1..Len(conns[Reading].out) :
       /\ buffer' = buffer \o SubSeq(conns[Reading].out, 1, n)
       /\ conns' = [conns EXCEPT ![Reading].out = Drop(@, n)]
  /\ loop' = "handle"
  /\ UNCHANGED <<flags, socket_fd, client_msg_seq_num, open, timed, app, req,
                 fate, bounds, history>>

\* There is no socket, or recv times out: the loop starts over.
RecvNothing ==
  /\ loop = "recv"
  /\ socket_fd # NoFd => /\ socket_fd \in open /\ timed
                         /\ conns[socket_fd].up /\ conns[socket_fd].out = << >>
  /\ loop' = "top"
  /\ UNCHANGED <<flags, socket_fd, client_msg_seq_num, buffer, open, timed, app,
                 req, fate, conns, bounds, history>>

\* recv without a timeout waits for the server, and for nothing else.
RecvBlocks ==
  /\ loop = "recv" /\ socket_fd \in open /\ ~ timed
  /\ conns[socket_fd].up /\ conns[socket_fd].out = << >>
  /\ loop' = "blocked"
  /\ UNCHANGED <<flags, socket_fd, client_msg_seq_num, buffer, open, timed, app,
                 req, fate, conns, bounds, history>>

\* recv finds the connection closed by the server, or the descriptor by another
\* thread; the latter only ends the loop if stop was called.
RecvFails ==
  /\ CanRead \/ (loop = "recv" /\ socket_fd # NoFd)
  /\ \/ /\ ~ CanRead /\ ~ running
        /\ loop' = "ended"
        /\ UNCHANGED <<socket_fd, connected, logged_in, open, fate>>
     \/ /\ IF CanRead
           THEN ~ conns[Reading].up /\ conns[Reading].out = << >>
           ELSE running
        /\ loop' = "top"
        /\ Disconnect
  /\ UNCHANGED <<running, client_msg_seq_num, buffer, timed, app, req, conns,
                 bounds, history>>

-----------------------------------------------------------------------------
(* client_thread_: process_incoming_data *)

\* The buffer holds no complete message, or the client was stopped meanwhile.
BufferDone ==
  /\ loop = "handle"
  /\ ~ running \/ Len(buffer) < 2 \/ ~ Aligned(buffer)
  /\ loop' = "top"
  /\ UNCHANGED <<flags, socket_fd, client_msg_seq_num, buffer, open, timed, app,
                 req, fate, conns, bounds, history>>

\* Faulty variant of send_client_heartbeat: the server's message type is used.
send_server_heartbeat ==
  IF connected
  THEN /\ client_msg_seq_num' = client_msg_seq_num + 1
       /\ SendTcp(<<"104", client_msg_seq_num>>)
  ELSE UNCHANGED <<client_msg_seq_num, socket_fd, connected, logged_in, open,
                   fate, conns>>

\* send_client_heartbeat answers a server heartbeat, once connected.
send_client_heartbeat ==
  IF connected
  THEN /\ client_msg_seq_num' = client_msg_seq_num + 1
       /\ SendTcp(<<"105", client_msg_seq_num>>)
  ELSE UNCHANGED <<client_msg_seq_num, socket_fd, connected, logged_in, open,
                   fate, conns>>

\* handle_protocol_message, and the callback for market data.
handle_protocol_message(kind) ==
  \/ /\ kind = "104"
     /\ send_client_heartbeat
  \/ /\ kind # "104"
     /\ logged_in' = IF kind = "050" THEN TRUE
                     ELSE IF kind = "010" THEN FALSE ELSE logged_in
     /\ UNCHANGED <<client_msg_seq_num, socket_fd, connected, open, fate, conns>>

\* Faulty variant of BufferMessage: the whole buffer is cleared after a message.
BufferMessageClearing ==
  /\ loop = "handle" /\ running
  /\ Len(buffer) >= 2 /\ Aligned(buffer)
  /\ buffer' = << >>
  /\ IF Intact(buffer)
     THEN handle_protocol_message(buffer[1].kind)
     ELSE UNCHANGED <<client_msg_seq_num, socket_fd, connected, logged_in, open,
                      fate, conns>>
  /\ UNCHANGED <<running, timed, loop, app, req, bounds, history>>

\* The message at the front of the buffer is handled, if it is one, and erased.
BufferMessage ==
  /\ loop = "handle" /\ running
  /\ Len(buffer) >= 2 /\ Aligned(buffer)
  /\ buffer' = Drop(buffer, 2)
  /\ IF Intact(buffer)
     THEN handle_protocol_message(buffer[1].kind)
     ELSE UNCHANGED <<client_msg_seq_num, socket_fd, connected, logged_in, open,
                      fate, conns>>
  /\ UNCHANGED <<running, timed, loop, app, req, bounds, history>>

\* The buffer starts within a message: what is there is taken for a length or a
\* header, and some of the bytes or all of them are thrown away.
BufferGarbage ==
  /\ loop = "handle" /\ running
  /\ buffer # << >> /\ ~ Aligned(buffer)
  /\ \E n \in 1..Len(buffer) : buffer' = Drop(buffer, n)
  /\ UNCHANGED <<flags, socket_fd, client_msg_seq_num, open, timed, loop, app,
                 req, fate, conns, bounds, history>>

-----------------------------------------------------------------------------
(* The application: start and stop *)

start ==
  /\ app = "idle" /\ ~ running
  /\ Len(conns) < MaxConns
  /\ running' = TRUE
  /\ loop' = "top"
  /\ UNCHANGED <<connected, logged_in, socket_fd, client_msg_seq_num, buffer,
                 open, timed, app, req, fate, conns, bounds, history>>

stop ==
  /\ app = "idle" /\ running
  /\ running' = FALSE
  /\ app' = "close"
  /\ UNCHANGED <<connected, logged_in, socket_fd, client_msg_seq_num, buffer,
                 open, timed, loop, req, fate, conns, bounds, history>>

StopClose ==
  /\ app = "close"
  /\ app' = IF socket_fd = NoFd THEN "join" ELSE "clear"
  /\ open' = open \ {socket_fd}
  /\ UNCHANGED <<flags, socket_fd, client_msg_seq_num, buffer, timed, loop, req,
                 fate, conns, bounds, history>>

StopClear ==
  /\ app = "clear"
  /\ app' = "join"
  /\ socket_fd' = NoFd
  /\ UNCHANGED <<flags, client_msg_seq_num, buffer, open, timed, loop, req, fate,
                 conns, bounds, history>>

StopJoin ==
  /\ app = "join" /\ loop = "ended"
  /\ app' = "idle"
  /\ connected' = FALSE
  /\ logged_in' = FALSE
  /\ UNCHANGED <<running, socket_fd, client_msg_seq_num, buffer, open, timed,
                 loop, req, fate, conns, bounds, history>>

-----------------------------------------------------------------------------
(* The requesters: request_retransmission *)

NotAsking == [at |-> "idle", num |-> 0]

Asking(r, where, n) == req' = [req EXCEPT ![r] = [at |-> where, num |-> n]]

\* The check of logged_in_; a client that is not logged in returns false.
request_retransmission(r) ==
  /\ req[r] = NotAsking /\ asked < MaxAsked
  /\ logged_in
  /\ asked' = asked + 1
  /\ Asking(r, "load", 0)
  /\ UNCHANGED <<flags, socket_fd, client_msg_seq_num, buffer, open, timed, loop,
                 app, fate, conns, sent, history>>

\* client_msg_seq_num_++ is not atomic.
LoadNumber(r) ==
  /\ req[r].at = "load"
  /\ Asking(r, "store", client_msg_seq_num)
  /\ UNCHANGED <<flags, socket_fd, client_msg_seq_num, buffer, open, timed, loop,
                 app, fate, conns, bounds, history>>

StoreNumber(r) ==
  /\ req[r].at = "store"
  /\ client_msg_seq_num' = req[r].num + 1
  /\ Asking(r, "send", req[r].num)
  /\ UNCHANGED <<flags, socket_fd, buffer, open, timed, loop, app, fate, conns,
                 bounds, history>>

\* send_tcp_message: the request goes out, or nothing is connected.
SendRequest(r) ==
  /\ req[r].at = "send"
  /\ \/ Unsendable /\ UNCHANGED conns
     \/ /\ ~ Unsendable /\ socket_fd \in open
        /\ conns' = Transmitted(<<"101", req[r].num>>)
  /\ Asking(r, "idle", 0)
  /\ UNCHANGED <<flags, socket_fd, client_msg_seq_num, buffer, open, timed, loop,
                 app, fate, bounds, history>>

\* send_tcp_message: the send fails and the requester closes the socket.
SendRequestFails(r) ==
  /\ req[r].at = "send" /\ ~ Unsendable /\ SendCanFail
  /\ open' = open \ {socket_fd}
  /\ socket_fd' = NoFd
  /\ meddled' = TRUE
  /\ Asking(r, "flags", 0)
  /\ UNCHANGED <<flags, client_msg_seq_num, buffer, timed, loop, app, fate,
                 conns, bounds, torn>>

ClearFlags(r) ==
  /\ req[r].at = "flags"
  /\ connected' = FALSE
  /\ logged_in' = FALSE
  /\ Asking(r, "idle", 0)
  /\ UNCHANGED <<running, socket_fd, client_msg_seq_num, buffer, open, timed,
                 loop, app, fate, conns, bounds, history>>

-----------------------------------------------------------------------------
(* The server *)

\* The server answers a login request with the start of its service.
Welcome(c) ==
  /\ conns[c].up /\ conns[c].said = "nothing"
  /\ \E i \in DOMAIN conns[c].got : conns[c].got[i][1] = "020"
  /\ conns' = [conns EXCEPT ![c].said = "welcome",
                            ![c].out = @ \o Bytes(c, "050")]
  /\ UNCHANGED <<flags, socket_fd, client_msg_seq_num, buffer, open, timed, loop,
                 app, req, fate, bounds, history>>

\* The server sends a heartbeat, or a message that changes nothing.
ServerSends(c, kind) ==
  /\ conns[c].up /\ conns[c].said = "welcome"
  /\ sent < MaxSent
  /\ sent' = sent + 1
  /\ conns' = [conns EXCEPT ![c].out = @ \o Bytes(c, kind)]
  /\ UNCHANGED <<flags, socket_fd, client_msg_seq_num, buffer, open, timed, loop,
                 app, req, fate, asked, history>>

\* The server reports an error, after which it closes the connection.
Dismiss(c) ==
  /\ conns[c].up /\ conns[c].said = "welcome"
  /\ Len(conns) < MaxConns
  /\ conns' = [conns EXCEPT ![c].said = "dismissed", ![c].out = @ \o Bytes(c, "010")]
  /\ UNCHANGED <<flags, socket_fd, client_msg_seq_num, buffer, open, timed, loop,
                 app, req, fate, bounds, history>>

\* The server closes the connection, or it breaks and loses bytes in flight. The
\* last connection stays.
ServerCloses(c) ==
  /\ conns[c].up /\ Len(conns) < MaxConns
  /\ \E n \in 0..Len(conns[c].out) :
       conns' = [conns EXCEPT ![c].up = FALSE, ![c].out = SubSeq(@, 1, n)]
  /\ UNCHANGED <<flags, socket_fd, client_msg_seq_num, buffer, open, timed, loop,
                 app, req, fate, bounds, history>>

-----------------------------------------------------------------------------

Init ==
  /\ running = FALSE /\ connected = FALSE /\ logged_in = FALSE
  /\ socket_fd = NoFd
  /\ client_msg_seq_num = 0
  /\ buffer = << >>
  /\ open = {} /\ timed = FALSE
  /\ loop = "ended"
  /\ app = "idle"
  /\ req = [r \in Requesters |-> NotAsking]
  /\ fate = "live"
  /\ conns = << >>
  /\ sent = 0 /\ asked = 0
  /\ torn = FALSE /\ meddled = FALSE

ClientStep ==
  \/ LoopTop \/ ConnectSocket \/ ConnectOk \/ ConnectFails \/ perform_login
  \/ RecvBytes \/ RecvNothing \/ RecvBlocks \/ RecvFails
  \/ BufferDone \/ BufferMessage \/ BufferGarbage

StopStep == StopClose \/ StopClear \/ StopJoin

RequestStep(r) ==
  LoadNumber(r) \/ StoreNumber(r) \/ SendRequest(r) \/ SendRequestFails(r) \/ ClearFlags(r)

Next ==
  /\ fate = "live"
  /\ \/ ClientStep
     \/ start \/ stop \/ StopStep
     \/ \E r \in Requesters : request_retransmission(r) \/ RequestStep(r)
     \/ \E c \in DOMAIN conns : \/ Welcome(c) \/ Dismiss(c) \/ ServerCloses(c)
                                \/ \E k \in {"104", "data"} : ServerSends(c, k)

Spec == Init /\ [][Next]_vars

\* The operating system schedules every thread, and send() takes the few bytes of
\* a message without waiting for the server; a server that is tried again and
\* again accepts in the end, answers a login and closes after an error.
Fairness ==
  /\ WF_vars(fate = "live" /\ ClientStep)
  /\ SF_vars(fate = "live" /\ ConnectOk)
  /\ WF_vars(fate = "live" /\ StopStep)
  /\ \A c \in 1..MaxConns :
       /\ WF_vars(fate = "live" /\ c \in DOMAIN conns /\ Welcome(c))
       /\ WF_vars(/\ fate = "live" /\ c \in DOMAIN conns
                  /\ conns[c].said = "dismissed" /\ ServerCloses(c))

FairSpec == Spec /\ Fairness

-----------------------------------------------------------------------------
(* Properties *)

\* Every variable has its type.
TypeOK ==
  /\ {running, connected, logged_in, timed, torn, meddled} \subseteq BOOLEAN
  /\ socket_fd \in 0..MaxConns /\ open \subseteq 1..MaxConns
  /\ client_msg_seq_num \in Nat
  /\ buffer \in Seq(Halves)
  /\ loop \in {"ended", "top", "connect", "connecting", "login", "recv", "blocked",
             "handle"}
  /\ app \in {"idle", "close", "clear", "join"}
  /\ req \in [Requesters -> [at : {"idle", "load", "store", "send", "flags"}, num : Nat]]
  /\ fate \in {"live", "terminated"}
  /\ Len(conns) <= MaxConns
  /\ \A c \in DOMAIN conns :
       conns[c] \in [up : BOOLEAN, got : Seq({"020", "101", "105"} \X Nat),
                     out : Seq(Halves), said : {"nothing", "welcome", "dismissed"}]
  /\ sent \in 0..MaxSent /\ asked \in 0..MaxAsked

\* The client is connected to a server that has welcomed it, and it has read and
\* handled all that the connection brought.
WelcomedAndCaughtUp ==
  /\ running /\ connected /\ loop \in {"recv", "blocked"}
  /\ socket_fd \in open
  /\ conns[socket_fd].up
  /\ conns[socket_fd].said = "welcome" /\ conns[socket_fd].out = << >>

\* A client that is connected, that the server has welcomed and that has read all
\* there is knows that it is logged in, across any number of lost connections,
\* stops and starts, provided no connection was cut within a message and no
\* requester closed the socket.
WelcomeIsNoticed ==
  WelcomedAndCaughtUp /\ ~ meddled /\ ~ torn => logged_in

\* What the server gets on a connection starts with a login request and is
\* numbered 0, 1, 2, ... whatever was left in the buffer by an earlier one, as
\* long as client_thread_ alone sends. So the code counts: the login request is
\* number 0 and the first message after the login number 1, although the comment of
\* RetransmissionMsgHeader::msg_seq_num has the number reset to 0 "after each
\* successful login".
NumberedFromLogin ==
  asked = 0 =>
    \A c \in DOMAIN conns : \A i \in DOMAIN conns[c].got :
      conns[c].got[i] = <<IF i = 1 THEN "020" ELSE "105", i - 1>>

\* client_thread_ is in a recv without a timeout, on a connection whose server sends
\* nothing more and does not close it.
Deaf == loop = "blocked" /\ conns[Len(conns)].up /\ conns[Len(conns)].out = << >>

\* stop returns: whatever client_thread_ is doing, it ends and is joined; unless the
\* thread waits for good in a recv whose timeout could not be set, from which the
\* close in stop does not wake it.
StopReturns == (app = "close" ~> app = "idle") \/ <>[]Deaf

\* A client that is left running is logged in again and again, although the
\* server may refuse, dismiss or drop it.
LoginAgain ==
  <>[] running => []<>(logged_in \/ torn \/ meddled)

\* stop "disconnects from the server, and joins the thread": when it has
\* returned no descriptor is open.
StopDisconnects == app = "idle" /\ ~ running => open = {}

\* NetworkManager switches to the backup when the primary server is lost: the
\* program outlives the callback that says so.
FailoverSurvives == fate = "live"

=============================================================================
