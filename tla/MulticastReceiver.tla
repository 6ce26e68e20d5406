------------------------- MODULE MulticastReceiver -------------------------
(***************************************************************************)
(* MulticastReceiver (networking/multicast_receiver.cpp): subscriptions to *)
(* multicast groups, each with a socket and a thread of its own once the   *)
(* receiver is started.                                                    *)
(*                                                                         *)
(* rx[r] is the object behind a handle r, op[r] where its owner is inside  *)
(* start() or stop(). The owner is one thread; it calls one method at a    *)
(* time. The receiver threads run meanwhile.                               *)
(***************************************************************************)
EXTENDS Naturals, Sequences

CONSTANTS
  Receivers,   \* the handles (std::unique_ptr<MulticastReceiver>)
  Groups,      \* group address, port and interface of a subscription
  MaxSubs      \* bound on the subscriptions of an object

ASSUME MaxSubsAssumption == MaxSubs \in Nat

VARIABLES rx, op

rxvars == <<rx, op>>

-----------------------------------------------------------------------------
(* Objects *)

\* socket_fd is closed (-1), or open with or without its receive timeout.
Sockets == {"closed", "timed", "untimed"}

\* Where a receiver thread is: not started, or joined; at the loop condition; in
\* recvfrom; in data_callback_; or at the end of receive_loop.
Places == {"none", "check", "recv", "callback", "ended"}

\* ActiveSubscription
Subscriptions ==
  [group : Groups, fd : Sockets, flag : BOOLEAN, thread : Places]

\* A handle that holds no object, and an object just constructed.
NoReceiver == [built |-> FALSE, running |-> FALSE, subs |-> <<>>]
Constructed == [built |-> TRUE, running |-> FALSE, subs |-> <<>>]

\* add_subscription is refused while the receiver runs.
Subscribed(o, g) ==
  IF o.running THEN o
  ELSE [o EXCEPT !.subs = Append(@, [group |-> g, fd |-> "closed",
                                     flag |-> FALSE, thread |-> "none"])]

\* The owner is inside no method; ok is what the last start() returned.
Returned(ok) == [call |-> "none", i |-> 0, ok |-> ok]

Free(r) == op[r].call = "none"

\* The owner's loop over subscriptions_ is at its i-th element, or past the last.
AtSub(r, call) == op[r].call = call /\ op[r].i \in DOMAIN rx[r].subs
PastSubs(r, call) == op[r].call = call /\ op[r].i \notin DOMAIN rx[r].subs

-----------------------------------------------------------------------------
(* The owner *)

construct(r) ==
  /\ ~ rx[r].built
  /\ rx' = [rx EXCEPT ![r] = Constructed]
  /\ op' = [op EXCEPT ![r] = Returned(FALSE)]

add_subscription(r, g) ==
  /\ rx[r].built /\ Free(r) /\ Len(rx[r].subs) < MaxSubs
  /\ rx' = [rx EXCEPT ![r] = Subscribed(@, g)]
  /\ UNCHANGED op

\* start(): nothing to do when it runs already, refused without subscriptions.
start(r) ==
  /\ rx[r].built /\ Free(r)
  /\ IF rx[r].running \/ rx[r].subs = <<>>
     THEN /\ op' = [op EXCEPT ![r] = Returned(rx[r].running)]
          /\ UNCHANGED rx
     ELSE /\ rx' = [rx EXCEPT ![r].running = TRUE]
          /\ op' = [op EXCEPT ![r] = [call |-> "start", i |-> 1, ok |-> FALSE]]

\* socket, SO_REUSEADDR, bind and IP_ADD_MEMBERSHIP succeed; SO_RCVTIMEO may
\* fail, which is only logged. The thread starts at once.
StartSub(r) ==
  /\ AtSub(r, "start")
  /\ \E fd \in {"timed", "untimed"} :
       rx' = [rx EXCEPT ![r].subs[op[r].i] =
                [@ EXCEPT !.fd = fd, !.flag = TRUE, !.thread = "check"]]
  /\ op' = [op EXCEPT ![r] = [@ EXCEPT !.i = op[r].i + 1, !.ok = TRUE]]

\* Faulty variant of StartSubFails: the socket whose bind failed is not closed.
StartSubFailsOpen(r) ==
  /\ AtSub(r, "start")
  /\ rx' = [rx EXCEPT ![r].subs[op[r].i].fd = "timed"]
  /\ op' = [op EXCEPT ![r].i = @ + 1]

\* One of the four calls fails: the socket, if there is one, is closed again and
\* the loop goes on with the next subscription.
StartSubFails(r) ==
  /\ AtSub(r, "start")
  /\ rx' = [rx EXCEPT ![r].subs[op[r].i].fd = "closed"]
  /\ op' = [op EXCEPT ![r].i = @ + 1]

\* Faulty variant of StartReturns: running_ is not cleared when nothing started.
StartReturnsRunning(r) ==
  /\ PastSubs(r, "start")
  /\ op' = [op EXCEPT ![r] = Returned(op[r].ok)]
  /\ UNCHANGED rx

\* running_ is cleared again when no subscription could be started.
StartReturns(r) ==
  /\ PastSubs(r, "start")
  /\ rx' = [rx EXCEPT ![r].running = op[r].ok]
  /\ op' = [op EXCEPT ![r] = Returned(op[r].ok)]

\* stop(): running_.exchange(false); nothing else when it was false.
stop(r) ==
  /\ rx[r].built /\ Free(r)
  /\ rx' = [rx EXCEPT ![r].running = FALSE]
  /\ op' = [op EXCEPT ![r] = IF rx[r].running
                             THEN [call |-> "stop", i |-> 1, ok |-> FALSE]
                             ELSE Returned(FALSE)]

\* Faulty variant of StopSignal: the socket is closed to wake the thread up.
StopSignalClosing(r) ==
  /\ AtSub(r, "stop")
  /\ rx' = [rx EXCEPT ![r].subs[op[r].i].flag = FALSE,
                      ![r].subs[op[r].i].fd = "closed"]
  /\ op' = [op EXCEPT ![r].call = "join"]

\* thread_running_flag = false
StopSignal(r) ==
  /\ AtSub(r, "stop")
  /\ rx' = [rx EXCEPT ![r].subs[op[r].i].flag = FALSE]
  /\ op' = [op EXCEPT ![r].call = "join"]

\* Faulty variant of StopJoin: the thread is detached, not joined.
StopJoinDetaching(r) ==
  /\ AtSub(r, "join")
  /\ rx' = [rx EXCEPT ![r].subs[op[r].i] =
              [@ EXCEPT !.thread = "none", !.fd = "closed"]]
  /\ op' = [op EXCEPT ![r] = [@ EXCEPT !.call = "stop", !.i = op[r].i + 1]]

\* join, unless the thread was never started, then close.
StopJoin(r) ==
  /\ AtSub(r, "join")
  /\ rx[r].subs[op[r].i].thread \in {"none", "ended"}
  /\ rx' = [rx EXCEPT ![r].subs[op[r].i] =
              [@ EXCEPT !.thread = "none", !.fd = "closed"]]
  /\ op' = [op EXCEPT ![r] = [@ EXCEPT !.call = "stop", !.i = op[r].i + 1]]

\* Faulty variant of StopReturns: the subscriptions are kept.
StopReturnsKeeping(r) ==
  /\ PastSubs(r, "stop")
  /\ op' = [op EXCEPT ![r] = Returned(FALSE)]
  /\ UNCHANGED rx

\* subscriptions_.clear()
StopReturns(r) ==
  /\ PastSubs(r, "stop")
  /\ rx' = [rx EXCEPT ![r].subs = <<>>]
  /\ op' = [op EXCEPT ![r] = Returned(FALSE)]

\* The destructor calls stop(), which is modelled as the owner's own call: what is
\* left to do then is to give the object up.
destroy(r) ==
  /\ rx[r].built /\ Free(r) /\ ~ rx[r].running
  /\ rx' = [rx EXCEPT ![r] = NoReceiver]
  /\ UNCHANGED op

OwnerStep(r) ==
  \/ StartSub(r) \/ StartSubFails(r) \/ StartReturns(r)
  \/ StopSignal(r) \/ StopJoin(r) \/ StopReturns(r)

-----------------------------------------------------------------------------
(* The receiver threads *)

ThreadAt(r, i, place) == i \in DOMAIN rx[r].subs /\ rx[r].subs[i].thread = place

Goto(r, i, place) ==
  /\ rx' = [rx EXCEPT ![r].subs[i].thread = place]
  /\ UNCHANGED op

\* Faulty variant of LoopCondition: the loop looks only at the timeout.
LoopForever(r, i) == ThreadAt(r, i, "check") /\ Goto(r, i, "recv")

\* while (running_ && thread_running_flag)
LoopCondition(r, i) ==
  /\ ThreadAt(r, i, "check")
  /\ Goto(r, i, IF rx[r].running /\ rx[r].subs[i].flag THEN "recv" ELSE "ended")

\* recvfrom returns a packet.
RecvPacket(r, i) == ThreadAt(r, i, "recv") /\ Goto(r, i, "callback")

\* recvfrom times out: back to the loop condition. A socket without the timeout
\* waits for a packet.
RecvTimesOut(r, i) ==
  /\ ThreadAt(r, i, "recv") /\ rx[r].subs[i].fd = "timed"
  /\ Goto(r, i, "check")

\* Any other error: break if the loop is to end, or else sleep and go round.
RecvFails(r, i) ==
  /\ ThreadAt(r, i, "recv")
  /\ \/ Goto(r, i, "check")
     \/ ~ (rx[r].running /\ rx[r].subs[i].flag) /\ Goto(r, i, "ended")

\* data_callback_ returns.
CallbackReturns(r, i) == ThreadAt(r, i, "callback") /\ Goto(r, i, "check")

\* What a thread does without anything from outside.
ThreadStep(r, i) ==
  LoopCondition(r, i) \/ RecvTimesOut(r, i) \/ CallbackReturns(r, i)

ReceiverStep(r) ==
  \/ OwnerStep(r)
  \/ \E i \in 1 .. MaxSubs :
       ThreadStep(r, i) \/ RecvPacket(r, i) \/ RecvFails(r, i)

-----------------------------------------------------------------------------
(* A receiver used by itself *)

RxInit ==
  /\ rx = [r \in Receivers |-> NoReceiver]
  /\ op = [r \in Receivers |-> Returned(FALSE)]

RxNext ==
  \E r \in Receivers :
    \/ ReceiverStep(r)
    \/ construct(r) \/ start(r) \/ stop(r) \/ destroy(r)
    \/ \E g \in Groups : add_subscription(r, g)

RxSpec == RxInit /\ [][RxNext]_rxvars

-----------------------------------------------------------------------------
(* Properties *)

\* Objects and the owner's place in them have their types, and no object gets more
\* subscriptions than MaxSubs.
RxTypeOK ==
  /\ rx \in [Receivers -> [built : BOOLEAN, running : BOOLEAN,
                           subs : Seq(Subscriptions)]]
  /\ op \in [Receivers -> [call : {"none", "start", "stop", "join"},
                           i : Nat, ok : BOOLEAN]]
  /\ \A r \in Receivers : Len(rx[r].subs) <= MaxSubs

Alive(s) == s.thread # "none"

Quiet(s) == ~ Alive(s) /\ s.fd = "closed"

\* stop() "Signals all receiving threads to terminate, joins them, and closes all
\* sockets", and a start() that fails leaves nothing either: whenever an object
\* does not run and its owner is in no method, it has no thread and no socket,
\* whichever sockets failed to open on the way.
NothingLeftBehind ==
  \A r \in Receivers : Free(r) /\ ~ rx[r].running =>
    \A i \in DOMAIN rx[r].subs : Quiet(rx[r].subs[i])

\* A thread has its socket until it is joined: recvfrom is never called on a
\* descriptor that stop() or a failed start() has closed.
ThreadsHaveSockets ==
  \A r \in Receivers : \A i \in DOMAIN rx[r].subs :
    Alive(rx[r].subs[i]) => rx[r].subs[i].fd # "closed"

\* A thread that is in its loop and is not told to leave it.
InLoop(s) == s.thread \in {"check", "recv", "callback"} /\ s.flag

\* A receiver that says it runs does listen: start() returns true, and leaves
\* running_ set, only if the thread of some subscription is in its loop, and no
\* error of recvfrom ends that thread before stop() is called.
StartedHears ==
  \A r \in Receivers : Free(r) /\ rx[r].running =>
    \E i \in DOMAIN rx[r].subs : InLoop(rx[r].subs[i])

\* Nothing is lost on the way either: a subscription with a thread keeps both its
\* thread and its socket in every step, until the thread is at its end and they go
\* together. In particular subscriptions_.clear(), and the destructor of an object
\* that is given up or replaced, only ever meet subscriptions without a thread (a
\* std::thread that is destroyed before it was joined ends the program).
JoinedBeforeGone ==
  [][\A r \in Receivers : \A i \in DOMAIN rx[r].subs :
       Quiet(rx[r].subs[i])
         \/ /\ i \in DOMAIN rx'[r].subs
            /\ \/ Alive(rx'[r].subs[i]) /\ rx'[r].subs[i].fd = rx[r].subs[i].fd
               \/ Quiet(rx'[r].subs[i]) /\ rx[r].subs[i].thread = "ended"]_rxvars

=============================================================================
