-------------------------- MODULE NetworkLifecycle --------------------------
(***************************************************************************)
(* NetworkManager::configure_and_start and stop                            *)
(* (networking/network_manager.cpp) over the MulticastReceivers and the    *)
(* RetransmissionClient that they create, start and stop.                  *)
(*                                                                         *)
(* One application thread calls the two methods; mgr is where it is. The   *)
(* receivers' threads run beside it and read running_ in their callbacks.  *)
(* The client is abstracted to whether it exists and runs                  *)
(* (RetransmissionClient models its inside).                               *)
(***************************************************************************)
EXTENDS MulticastReceiver

CONSTANTS Configurations  \* NetworkManager::Config

ASSUME ReceiversAssumption ==
  Receivers = {"primary", "secondary"} /\ MaxSubs >= 1

ASSUME ConfigurationsAssumption ==
  \A c \in Configurations :
    c \in [feeds : Seq(Groups), dual : BOOLEAN, server : BOOLEAN]

VARIABLES
  running,   \* running_
  config,    \* config_
  client,    \* retransmission_client_: "none", "running" or "stopped"
  started,   \* the locals primary_started and secondary_started, as a set
  mgr,       \* where the application is; "idle" outside the two methods
  leftover   \* history: the groups whose receivers were not started

nmvars == <<running, config, client, started, mgr, leftover>>
vars == <<rx, op, running, config, client, started, mgr, leftover>>

\* The feeds that a configuration asks for, by the receiver they are for.
Wanted(c, r) ==
  IF r = "primary" THEN {c.feeds[i] : i \in DOMAIN c.feeds \cap {1}}
  ELSE {c.feeds[i] : i \in IF c.dual THEN DOMAIN c.feeds \cap {2} ELSE {}}

-----------------------------------------------------------------------------
(* configure_and_start *)

\* Faulty variant of configure_and_start: an object that is there is used again.
configure_and_start_reusing(c) ==
  /\ mgr = "idle" /\ ~ running
  /\ config' = c
  /\ rx' = [r \in Receivers |->
              IF Wanted(c, r) = {} THEN rx[r]
              ELSE Subscribed([rx[r] EXCEPT !.built = TRUE],
                              CHOOSE g \in Wanted(c, r) : TRUE)]
  /\ op' = [r \in Receivers |-> Returned(FALSE)]
  /\ started' = {}
  /\ mgr' = "connect"
  /\ UNCHANGED <<running, client, leftover>>

\* Refused while running. A receiver is made anew, with its one subscription, only
\* if the configuration has a feed for it; otherwise the handle keeps what it has.
\* (The object that is replaced does not run, so its destructor's stop() returns
\* at once: NoSessionNothingRuns.)
configure_and_start(c) ==
  /\ mgr = "idle" /\ ~ running
  /\ config' = c
  /\ rx' = [r \in Receivers |->
              IF Wanted(c, r) = {} THEN rx[r]
              ELSE Subscribed(Constructed, CHOOSE g \in Wanted(c, r) : TRUE)]
  /\ op' = [r \in Receivers |-> Returned(FALSE)]
  /\ started' = {}
  /\ mgr' = "connect"
  /\ UNCHANGED <<running, client, leftover>>

\* connect_retransmission_client creates the client and starts its thread.
ConnectClient ==
  /\ mgr = "connect"
  /\ client' = IF config.server THEN "running" ELSE client
  /\ mgr' = "set_running"
  /\ UNCHANGED <<rx, op, running, config, started, leftover>>

SetRunning ==
  /\ mgr = "set_running"
  /\ running' = TRUE
  /\ mgr' = "start_primary"
  /\ UNCHANGED <<rx, op, config, client, started, leftover>>

StartPrimary ==
  /\ mgr = "start_primary"
  /\ IF rx["primary"].built
     THEN start("primary") /\ mgr' = "primary_result"
     ELSE mgr' = "start_secondary" /\ UNCHANGED rxvars
  /\ UNCHANGED <<running, config, client, started, leftover>>

Took(r) == started' = IF op[r].ok THEN started \cup {r} ELSE started

\* Faulty variant of PrimaryResult: the failure is only logged.
PrimaryResultIgnored ==
  /\ mgr = "primary_result" /\ Free("primary")
  /\ Took("primary")
  /\ mgr' = "start_secondary"
  /\ UNCHANGED <<rx, op, running, config, client, leftover>>

\* Without its primary receiver the manager does not run.
PrimaryResult ==
  /\ mgr = "primary_result" /\ Free("primary")
  /\ Took("primary")
  /\ running' = op["primary"].ok
  /\ mgr' = "start_secondary"
  /\ UNCHANGED <<rx, op, config, client, leftover>>

StartSecondary ==
  /\ mgr = "start_secondary"
  /\ IF running /\ rx["secondary"].built
     THEN start("secondary") /\ mgr' = "secondary_result"
     ELSE mgr' = "finish" /\ UNCHANGED rxvars
  /\ UNCHANGED <<running, config, client, started, leftover>>

\* Faulty variant of SecondaryResult: a failed secondary is treated like a failed
\* primary.
SecondaryResultEssential ==
  /\ mgr = "secondary_result" /\ Free("secondary")
  /\ Took("secondary")
  /\ running' = op["secondary"].ok
  /\ mgr' = "finish"
  /\ UNCHANGED <<rx, op, config, client, leftover>>

\* Without its secondary receiver it goes on in single feed mode.
SecondaryResult ==
  /\ mgr = "secondary_result" /\ Free("secondary")
  /\ Took("secondary")
  /\ mgr' = "finish"
  /\ UNCHANGED <<rx, op, running, config, client, leftover>>

Leftover ==
  leftover' = leftover \cup UNION {Wanted(config, r) : r \in Receivers \ started}

\* Faulty variant of FinishStart: a failed start returns without the cleanup.
FinishStartAsIs ==
  /\ mgr = "finish"
  /\ mgr' = "idle"
  /\ Leftover
  /\ UNCHANGED <<rx, op, running, config, client, started>>

\* The result is running_. After a failure what was started is stopped, unless
\* there is nothing at all. (stop() of a receiver that is not in started returns
\* at once, so the cleanup goes the way of nm_stop.)
FinishStart ==
  /\ mgr = "finish"
  /\ mgr' = IF running \/ (started = {} /\ client = "none")
            THEN "idle" ELSE "stop_primary"
  /\ Leftover
  /\ UNCHANGED <<rx, op, running, config, client, started>>

-----------------------------------------------------------------------------
(* stop *)

nm_stop ==
  /\ mgr = "idle" /\ running
  /\ running' = FALSE
  /\ mgr' = "stop_primary"
  /\ UNCHANGED <<rx, op, config, client, started, leftover>>

StopReceiver(here, r, there) ==
  /\ mgr = here
  /\ IF rx[r].built THEN stop(r) ELSE UNCHANGED rxvars
  /\ mgr' = there
  /\ UNCHANGED <<running, config, client, started, leftover>>

StopPrimary == StopReceiver("stop_primary", "primary", "stop_secondary")

StopSecondary ==
  Free("primary") /\ StopReceiver("stop_secondary", "secondary", "stop_client")

\* RetransmissionClient::stop joins the client's thread.
StopClient ==
  /\ mgr = "stop_client" /\ Free("secondary")
  /\ client' = IF client = "running" THEN "stopped" ELSE client
  /\ mgr' = "idle"
  /\ UNCHANGED <<rx, op, running, config, started, leftover>>

-----------------------------------------------------------------------------

Init ==
  /\ RxInit
  /\ running = FALSE
  /\ config = [feeds |-> <<>>, dual |-> FALSE, server |-> FALSE]
  /\ client = "none"
  /\ started = {}
  /\ mgr = "idle"
  /\ leftover = {}

ManagerStep ==
  \/ ConnectClient \/ SetRunning \/ StartPrimary \/ PrimaryResult
  \/ StartSecondary \/ SecondaryResult \/ FinishStart
  \/ StopPrimary \/ StopSecondary \/ StopClient

Next ==
  \/ \E c \in Configurations : configure_and_start(c)
  \/ nm_stop
  \/ ManagerStep
  \/ \E r \in Receivers : ReceiverStep(r) /\ UNCHANGED nmvars

Spec == Init /\ [][Next]_vars

\* The application's calls go on to their end, and so does a thread that is not
\* waiting for a packet without a timeout. Packets and errors need not come.
FairSpec ==
  /\ Spec
  /\ WF_vars(ManagerStep)
  /\ \A r \in Receivers : WF_vars(OwnerStep(r) /\ UNCHANGED nmvars)
  /\ \A r \in Receivers : WF_vars(ThreadStep(r, 1) /\ UNCHANGED nmvars)

-----------------------------------------------------------------------------
(* Properties *)

Stopping == mgr \in {"stop_primary", "stop_secondary", "stop_client"}

\* Every variable has its type, and a receiver of the manager has at most the one
\* subscription that configure_and_start gives it.
TypeOK ==
  /\ RxTypeOK
  /\ running \in BOOLEAN
  /\ config.dual \in BOOLEAN /\ config.server \in BOOLEAN
  /\ client \in {"none", "running", "stopped"}
  /\ started \subseteq Receivers
  /\ leftover \subseteq Groups

\* After stop(), and after a configure_and_start that returned false at whichever
\* step, neither a receiver nor the client runs ("Joins any running network
\* threads"): a later start finds no thread of an earlier one.
NoSessionNothingRuns ==
  mgr = "idle" /\ ~ running =>
    client # "running" /\ \A r \in Receivers : ~ rx[r].running

\* A manager that says it runs hears what it was configured for: the thread of
\* the primary feed is in its loop, and the client is there if a server is.
SessionHears ==
  mgr = "idle" /\ running =>
    /\ config.server => client = "running"
    /\ config.feeds # <<>> =>
         \E i \in DOMAIN rx["primary"].subs :
           rx["primary"].subs[i].thread \in {"check", "recv", "callback"}

\* process_incoming_packet drops what comes while running_ is false: that can
\* hit a multicast packet only when the manager is being stopped, because running_
\* is set before the first receiver thread exists and a failed secondary does not
\* clear it.
FeedsHeard ==
  \A r \in Receivers : \A i \in DOMAIN rx[r].subs :
    Alive(rx[r].subs[i]) => running \/ Stopping

\* A thread listens only to a group that the current configuration names for its
\* receiver, or to one whose receiver could not be started earlier: such a receiver
\* keeps its subscription through stop(), and a later start that has no feed for it
\* (dual_feed_enabled now false, say) starts it all the same. A receiver that did
\* run keeps nothing.
ConfiguredFeedsOnly ==
  \A r \in Receivers : \A i \in DOMAIN rx[r].subs :
    Alive(rx[r].subs[i]) /\ ~ Stopping =>
      rx[r].subs[i].group \in Wanted(config, r) \cup leftover

\* A thread waits for a packet on a socket whose SO_RCVTIMEO could not be set.
Deaf ==
  \E r \in Receivers : \E i \in DOMAIN rx[r].subs :
    rx[r].subs[i].fd = "untimed" /\ rx[r].subs[i].thread = "recv"

\* stop() returns, whatever the threads are doing and whichever errors recvfrom
\* returns, unless one of them waits for good on a socket without a timeout.
StopEnds == (mgr = "stop_primary" ~> mgr = "idle") \/ <>[]Deaf

=============================================================================
