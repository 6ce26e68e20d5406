----------------------- MODULE NetworkLifecycleProofs -----------------------
(***************************************************************************)
(* First the receivers' sockets and threads on their own (RxSpec), for any *)
(* number of subscriptions. Then configure_and_start and stop of the       *)
(* manager (Spec), for all groups and all configurations, whichever        *)
(* sockets fail and whenever the receivers' threads run: what holds inside *)
(* a receiver comes from the first part.                                   *)
(***************************************************************************)
EXTENDS NetworkLifecycle, SequenceTheorems, TLAPS

Objects == [built : BOOLEAN, running : BOOLEAN, subs : Seq(Subscriptions)]

OwnerPlaces == [call : {"none", "start", "stop", "join"}, i : Nat, ok : BOOLEAN]

-----------------------------------------------------------------------------
(* The receivers: the inductive invariant *)

\* A subscription has both a thread and a socket, or neither.
Paired(s) == Alive(s) <=> s.fd # "closed"
AllPaired(o) == \A j \in DOMAIN o.subs : Paired(o.subs[j])

\* Which subscriptions have nothing of either, by the place p of the owner: all of
\* them when the receiver does not run; those that start() has not come to, and all
\* while none has succeeded; those that stop() has passed.
QuietByPlace(o, p) ==
  /\ p.call = "none" /\ ~ o.running => \A j \in DOMAIN o.subs : Quiet(o.subs[j])
  /\ p.call = "start" =>
       /\ o.running
       /\ \A j \in DOMAIN o.subs : j >= p.i \/ ~ p.ok => Quiet(o.subs[j])
  /\ p.call \in {"stop", "join"} =>
       /\ ~ o.running /\ p.i >= 1
       /\ \A j \in DOMAIN o.subs : j < p.i => Quiet(o.subs[j])

\* A thread is in its loop from the first success of start() until stop().
Heard(o, p) ==
  (p.call = "none" /\ o.running) \/ (p.call = "start" /\ p.ok) =>
    \E j \in DOMAIN o.subs : InLoop(o.subs[j])

\* A handle without an object has nothing at all.
NothingUnbuilt(o) == ~ o.built => ~ o.running /\ o.subs = <<>>

Sound(o, p) == AllPaired(o) /\ QuietByPlace(o, p) /\ Heard(o, p) /\ NothingUnbuilt(o)

\* What a step may do to the threads and the sockets of an object o that it makes n:
\* the content of JoinedBeforeGone.
Kept(o, n) ==
  \A i \in DOMAIN o.subs :
    Quiet(o.subs[i])
      \/ /\ i \in DOMAIN n.subs
         /\ \/ Alive(n.subs[i]) /\ n.subs[i].fd = o.subs[i].fd
            \/ Quiet(n.subs[i]) /\ o.subs[i].thread = "ended"

KeepsThreads == \A r \in Receivers : Kept(rx[r], rx'[r])

RxInv == RxTypeOK /\ \A r \in Receivers : Sound(rx[r], op[r])

-----------------------------------------------------------------------------
(* One receiver at a time *)

\* An object whose subscriptions stay as they are.
LEMMA KeptSame ==
  ASSUME NEW o, NEW n, n.subs = o.subs, AllPaired(o)
  PROVE  Kept(o, n)
BY DEF Kept, AllPaired, Paired, Quiet

\* What there is to show of a step that changes one receiver and its owner's place.
LEMMA OneReceiver ==
  ASSUME RxInv, NEW r \in Receivers, NEW o \in Objects, NEW p \in OwnerPlaces,
         Len(o.subs) <= MaxSubs, Sound(o, p), Kept(rx[r], o),
         rx' = [rx EXCEPT ![r] = o], op' = [op EXCEPT ![r] = p]
  PROVE  RxInv' /\ KeepsThreads
<1>1. rx' \in [Receivers -> Objects] /\ op' \in [Receivers -> OwnerPlaces]
  BY DEF RxInv, RxTypeOK, Objects, OwnerPlaces
<1>2. \A s \in Receivers : rx'[s] = (IF s = r THEN o ELSE rx[s])
                           /\ op'[s] = (IF s = r THEN p ELSE op[s])
  BY DEF RxInv, RxTypeOK
<1>3. \A s \in Receivers : Len(rx'[s].subs) <= MaxSubs /\ Sound(rx'[s], op'[s])
  BY <1>2, Zenon DEF RxInv, RxTypeOK
<1>4. \A s \in Receivers : Kept(rx[s], rx[s])
  BY KeptSame DEF RxInv, Sound
<1>5. KeepsThreads
  BY <1>2, <1>4, Zenon DEF KeepsThreads
<1> QED
  BY <1>1, <1>3, <1>5, Zenon DEF RxInv, RxTypeOK, Objects, OwnerPlaces

\* What is known of a receiver.
LEMMA ReceiverType ==
  ASSUME RxInv, NEW r \in Receivers
  PROVE  /\ rx[r] \in Objects /\ op[r] \in OwnerPlaces
         /\ Len(rx[r].subs) <= MaxSubs /\ Sound(rx[r], op[r])
         /\ rx = [rx EXCEPT ![r] = rx[r]] /\ op = [op EXCEPT ![r] = op[r]]
         /\ rx[r].subs \in Seq(Subscriptions)
         /\ \A i \in DOMAIN rx[r].subs : rx[r].subs[i] \in Subscriptions /\ i \in Nat
<1>1. rx[r] \in Objects /\ op[r] \in OwnerPlaces
  BY DEF RxInv, RxTypeOK, Objects, OwnerPlaces
<1>2. Len(rx[r].subs) <= MaxSubs /\ Sound(rx[r], op[r])
  BY DEF RxInv, RxTypeOK
<1>3. rx = [rx EXCEPT ![r] = rx[r]] /\ op = [op EXCEPT ![r] = op[r]]
  BY DEF RxInv, RxTypeOK
<1>4. rx[r].subs \in Seq(Subscriptions)
  BY <1>1 DEF Objects
<1>5. \A i \in DOMAIN rx[r].subs : rx[r].subs[i] \in Subscriptions /\ i \in Nat
  BY <1>4, ElementOfSeq, LenProperties
<1> QED
  BY <1>1, <1>2, <1>3, <1>4, <1>5

\* Changing one subscription of an object.
LEMMA OneSubscription ==
  ASSUME NEW o \in Objects, NEW i \in DOMAIN o.subs, NEW s \in Subscriptions
  PROVE  LET n == [o EXCEPT !.subs[i] = s]
         IN  /\ n \in Objects
             /\ n.built = o.built /\ n.running = o.running
             /\ DOMAIN n.subs = DOMAIN o.subs /\ Len(n.subs) = Len(o.subs)
             /\ n.subs # <<>>
             /\ \A j \in DOMAIN o.subs : n.subs[j] = IF j = i THEN s ELSE o.subs[j]
<1> DEFINE n == [o EXCEPT !.subs[i] = s]
<1>1. o.subs \in Seq(Subscriptions)
  BY DEF Objects
<1>2. n.subs = [o.subs EXCEPT ![i] = s] /\ n.built = o.built /\ n.running = o.running
  BY DEF Objects
<1>3. [o.subs EXCEPT ![i] = s] \in Seq(Subscriptions)
      /\ Len([o.subs EXCEPT ![i] = s]) = Len(o.subs)
  BY <1>1, ExceptSeq, LenProperties
<1>4. n \in Objects
  BY <1>2, <1>3 DEF Objects
<1>5. \A j \in DOMAIN o.subs : n.subs[j] = IF j = i THEN s ELSE o.subs[j]
  BY <1>1, <1>2
<1>6. DOMAIN n.subs = DOMAIN o.subs
  BY <1>2
<1>7. n.subs # <<>>
  BY <1>6, <1>1
<1> QED
  BY <1>2, <1>3, <1>4, <1>5, <1>6, <1>7

\* The same as a step: subscription i of receiver r becomes s, its owner goes to p.
LEMMA SubscriptionStep ==
  ASSUME RxInv, NEW r \in Receivers, NEW i \in DOMAIN rx[r].subs,
         NEW s \in Subscriptions, NEW p \in OwnerPlaces, Paired(s),
         \/ Quiet(rx[r].subs[i])
         \/ Alive(s) /\ s.fd = rx[r].subs[i].fd
         \/ Quiet(s) /\ rx[r].subs[i].thread = "ended",
         LET o == [rx[r] EXCEPT !.subs[i] = s]
         IN  (\A j \in DOMAIN rx[r].subs :
                o.subs[j] = IF j = i THEN s ELSE rx[r].subs[j])
               => QuietByPlace(o, p) /\ Heard(o, p),
         rx' = [rx EXCEPT ![r] = [rx[r] EXCEPT !.subs[i] = s]],
         op' = [op EXCEPT ![r] = p]
  PROVE  RxInv' /\ KeepsThreads
<1> DEFINE o == [rx[r] EXCEPT !.subs[i] = s]
<1>1. rx[r] \in Objects /\ Len(rx[r].subs) <= MaxSubs /\ Sound(rx[r], op[r])
  BY ReceiverType
<1>2. /\ o \in Objects
      /\ o.built = rx[r].built
      /\ DOMAIN o.subs = DOMAIN rx[r].subs /\ Len(o.subs) = Len(rx[r].subs)
      /\ \A j \in DOMAIN rx[r].subs : o.subs[j] = IF j = i THEN s ELSE rx[r].subs[j]
  BY <1>1, OneSubscription, SMTT(30)
<1>3. QuietByPlace(o, p) /\ Heard(o, p)
  BY <1>2
<1>4. rx[r].built
  BY <1>1 DEF Sound, NothingUnbuilt
<1>5. NothingUnbuilt(o)
  BY <1>2, <1>4 DEF NothingUnbuilt
<1>6. AllPaired(o)
  BY <1>1, <1>2 DEF AllPaired, Sound
<1>7. Kept(rx[r], o)
  <2> HIDE DEF o
  <2>1. Kept(rx[r], rx[r])
    BY <1>1, KeptSame DEF Sound
  <2> QED
    BY <1>2, <2>1 DEF Kept
<1> QED
  BY <1>1, <1>2, <1>3, <1>5, <1>6, <1>7, OneReceiver DEF Sound

-----------------------------------------------------------------------------
(* The owner's steps *)

LEMMA ConstructStep ==
  ASSUME RxInv, NEW r \in Receivers, construct(r)
  PROVE  RxInv' /\ KeepsThreads
<1>1. /\ Constructed \in Objects /\ Returned(FALSE) \in OwnerPlaces
      /\ Len(Constructed.subs) <= MaxSubs
      /\ Sound(Constructed, Returned(FALSE))
  BY MaxSubsAssumption, EmptySeq DEF Constructed, Returned, Objects, OwnerPlaces, Sound,
     AllPaired, QuietByPlace, Heard, NothingUnbuilt
<1>2. Kept(rx[r], Constructed)
  BY DEF construct, RxInv, Sound, NothingUnbuilt, Kept
<1> QED
  BY <1>1, <1>2, OneReceiver DEF construct

\* A new subscription has neither a thread nor a socket.
LEMMA SubscribedSound ==
  ASSUME NEW o \in Objects, NEW g \in Groups, ~ o.running, o.built,
         Sound(o, Returned(FALSE))
  PROVE  /\ Subscribed(o, g) \in Objects
         /\ Len(Subscribed(o, g).subs) = Len(o.subs) + 1
         /\ \A ok \in BOOLEAN : Sound(Subscribed(o, g), Returned(ok))
         /\ Subscribed(o, g).built /\ ~ Subscribed(o, g).running
         /\ Kept(o, Subscribed(o, g))
<1> DEFINE s == [group |-> g, fd |-> "closed", flag |-> FALSE, thread |-> "none"]
           n == Subscribed(o, g)
<1>1. s \in Subscriptions /\ Quiet(s)
  BY DEF Subscriptions, Sockets, Places, Quiet, Alive
<1>2. n = [o EXCEPT !.subs = Append(o.subs, s)]
  BY DEF Subscribed
<1>3. o.subs \in Seq(Subscriptions)
  BY DEF Objects
<1> HIDE DEF s, n
<1>4. n.built = o.built /\ n.running = o.running /\ n.subs = Append(o.subs, s)
  BY <1>2 DEF Objects
<1>5. /\ n.subs \in Seq(Subscriptions) /\ Len(n.subs) = Len(o.subs) + 1
      /\ \A j \in DOMAIN n.subs : (j \in DOMAIN o.subs /\ n.subs[j] = o.subs[j]) \/ n.subs[j] = s
  BY <1>1, <1>3, <1>4, AppendProperties, LenProperties
<1>6. n \in Objects
  BY <1>2, <1>4, <1>5 DEF Objects
<1>7. \A j \in DOMAIN o.subs : Quiet(o.subs[j])
  BY DEF Sound, QuietByPlace, Heard, Returned
<1>8. \A j \in DOMAIN n.subs : Quiet(n.subs[j])
  BY <1>1, <1>5, <1>7
<1>9. \A ok \in BOOLEAN : Sound(n, Returned(ok))
  BY <1>4, <1>8 DEF Sound, AllPaired, Paired, Quiet, QuietByPlace, Heard, NothingUnbuilt, Returned
<1>10. Kept(o, n)
  BY <1>7 DEF Kept
<1> QED
  BY <1>4, <1>5, <1>6, <1>9, <1>10 DEF n

LEMMA AddSubscriptionStep ==
  ASSUME RxInv, NEW r \in Receivers, NEW g \in Groups, add_subscription(r, g)
  PROVE  RxInv' /\ KeepsThreads
<1>1. /\ rx[r] \in Objects /\ op[r] \in OwnerPlaces /\ Sound(rx[r], op[r])
      /\ Len(rx[r].subs) <= MaxSubs
      /\ rx = [rx EXCEPT ![r] = rx[r]] /\ op = [op EXCEPT ![r] = op[r]]
  BY ReceiverType
<1>2. /\ rx[r].built /\ op[r].call = "none" /\ Len(rx[r].subs) < MaxSubs
      /\ rx' = [rx EXCEPT ![r] = Subscribed(rx[r], g)] /\ op' = op
  BY DEF add_subscription, Free
<1>3. CASE rx[r].running
  <2>1. Subscribed(rx[r], g) = rx[r]
    BY <1>3 DEF Subscribed
  <2>2. Kept(rx[r], rx[r])
    BY <1>1, KeptSame DEF Sound
  <2> QED
    BY <1>1, <1>2, <2>1, <2>2, OneReceiver
<1>4. CASE ~ rx[r].running
  <2>1. Sound(rx[r], Returned(FALSE))
    BY <1>1, <1>2, <1>4 DEF Sound, QuietByPlace, Heard, Returned
  <2>2. /\ Subscribed(rx[r], g) \in Objects
        /\ Len(Subscribed(rx[r], g).subs) = Len(rx[r].subs) + 1
        /\ Sound(Subscribed(rx[r], g), Returned(FALSE))
        /\ Kept(rx[r], Subscribed(rx[r], g))
    BY <1>1, <1>2, <1>4, <2>1, SubscribedSound
  <2>3. Sound(Subscribed(rx[r], g), op[r])
    BY <1>2, <2>2 DEF Sound, QuietByPlace, Heard, Returned
  <2>4. Len(rx[r].subs) \in Nat
    BY <1>1, LenProperties DEF Objects
  <2>5. Len(Subscribed(rx[r], g).subs) <= MaxSubs
    BY <1>2, <2>2, <2>4, MaxSubsAssumption
  <2> QED
    BY <1>1, <1>2, <2>2, <2>3, <2>5, OneReceiver
<1> QED
  BY <1>3, <1>4

LEMMA StartStep ==
  ASSUME RxInv, NEW r \in Receivers, start(r)
  PROVE  RxInv' /\ KeepsThreads
<1>1. /\ rx[r] \in Objects /\ op[r] \in OwnerPlaces /\ Sound(rx[r], op[r])
      /\ Len(rx[r].subs) <= MaxSubs
      /\ rx = [rx EXCEPT ![r] = rx[r]]
  BY ReceiverType
<1>2. rx[r].built /\ op[r].call = "none" /\ rx[r].running \in BOOLEAN
  BY <1>1 DEF start, Free, Objects
<1>3. CASE rx[r].running \/ rx[r].subs = <<>>
  <2>1. rx' = rx /\ op' = [op EXCEPT ![r] = Returned(rx[r].running)]
    BY <1>3 DEF start
  <2>2. Returned(rx[r].running) \in OwnerPlaces
    BY <1>2 DEF Returned, OwnerPlaces
  <2>3. Sound(rx[r], Returned(rx[r].running))
    BY <1>1, <1>2 DEF Sound, QuietByPlace, Heard, Returned
  <2>4. Kept(rx[r], rx[r])
    BY <1>1, KeptSame DEF Sound
  <2> QED
    BY <1>1, <2>1, <2>2, <2>3, <2>4, OneReceiver
<1>4. CASE ~ (rx[r].running \/ rx[r].subs = <<>>)
  <2> DEFINE o == [rx[r] EXCEPT !.running = TRUE]
             p == [call |-> "start", i |-> 1, ok |-> FALSE]
  <2>1. rx' = [rx EXCEPT ![r] = o] /\ op' = [op EXCEPT ![r] = p]
    BY <1>4 DEF start
  <2>2. /\ o \in Objects /\ p \in OwnerPlaces
        /\ o.subs = rx[r].subs /\ o.running /\ o.built = rx[r].built
    BY <1>1 DEF Objects, OwnerPlaces
  <2>3. Sound(o, p)
    BY <1>1, <1>2, <1>4, <2>2 DEF Sound, AllPaired, QuietByPlace, Heard, NothingUnbuilt
  <2>4. Kept(rx[r], o)
    BY <1>1, <2>2, KeptSame DEF Sound
  <2> HIDE DEF o, p
  <2> QED
    BY <1>1, <2>1, <2>2, <2>3, <2>4, OneReceiver
<1> QED
  BY <1>3, <1>4

\* The owner's place in a later round of its loop.
LEMMA PlaceMoves ==
  ASSUME NEW p \in OwnerPlaces
  PROVE  /\ [p EXCEPT !.i = p.i + 1, !.ok = TRUE] \in OwnerPlaces
         /\ [p EXCEPT !.i = p.i + 1, !.ok = TRUE].call = p.call
         /\ [p EXCEPT !.i = p.i + 1, !.ok = TRUE].i = p.i + 1
         /\ [p EXCEPT !.i = p.i + 1, !.ok = TRUE].ok
         /\ [p EXCEPT !.call = "stop", !.i = p.i + 1] \in OwnerPlaces
         /\ [p EXCEPT !.call = "stop", !.i = p.i + 1].call = "stop"
         /\ [p EXCEPT !.call = "stop", !.i = p.i + 1].i = p.i + 1
<1> DEFINE n == p.i + 1
<1>1. n \in Nat
  BY DEF OwnerPlaces
<1> HIDE DEF n
<1>2. /\ [p EXCEPT !.i = n, !.ok = TRUE] \in OwnerPlaces
      /\ [p EXCEPT !.call = "stop", !.i = n] \in OwnerPlaces
  BY <1>1 DEF OwnerPlaces
<1> QED
  BY <1>2 DEF n, OwnerPlaces

\* The subscription that the owner's loop is at.
LEMMA AtSubType ==
  ASSUME RxInv, NEW r \in Receivers, NEW call, AtSub(r, call)
  PROVE  /\ op[r].call = call /\ op[r].i \in DOMAIN rx[r].subs
         /\ rx[r].subs[op[r].i] \in Subscriptions
         /\ op[r].i \in Nat /\ op[r] \in OwnerPlaces
         /\ Sound(rx[r], op[r])
         /\ \A j \in DOMAIN rx[r].subs : j \in Nat /\ rx[r].subs[j] \in Subscriptions
BY ReceiverType DEF AtSub, OwnerPlaces

LEMMA StartSubStep ==
  ASSUME RxInv, NEW r \in Receivers, StartSub(r)
  PROVE  RxInv' /\ KeepsThreads
<1> DEFINE i == op[r].i
           p == [op[r] EXCEPT !.i = i + 1, !.ok = TRUE]
<1>1. PICK fd \in {"timed", "untimed"} :
        rx' = [rx EXCEPT ![r].subs[i] =
                 [@ EXCEPT !.fd = fd, !.flag = TRUE, !.thread = "check"]]
  BY DEF StartSub
<1> DEFINE s == [rx[r].subs[i] EXCEPT !.fd = fd, !.flag = TRUE, !.thread = "check"]
           o == [rx[r] EXCEPT !.subs[i] = s]
<1>2. /\ op[r].call = "start" /\ i \in DOMAIN rx[r].subs
      /\ rx[r].subs[i] \in Subscriptions
      /\ i \in Nat /\ op[r] \in OwnerPlaces
      /\ Sound(rx[r], op[r])
      /\ \A j \in DOMAIN rx[r].subs : j \in Nat
  BY AtSubType DEF StartSub
<1>3. s \in Subscriptions /\ Paired(s) /\ InLoop(s)
  BY <1>2 DEF Subscriptions, Sockets, Places, Paired, Alive, InLoop
<1>4. rx' = [rx EXCEPT ![r] = o]
  BY <1>1, <1>2, ReceiverType DEF RxInv, RxTypeOK
<1>5. /\ op' = [op EXCEPT ![r] = p] /\ p \in OwnerPlaces
      /\ p.call = "start" /\ p.i = i + 1 /\ p.ok
  <2>1. op' = [op EXCEPT ![r] = p]
    BY DEF StartSub
  <2> QED
    BY <1>2, <2>1, PlaceMoves
<1>6. ASSUME \A j \in DOMAIN rx[r].subs : o.subs[j] = IF j = i THEN s ELSE rx[r].subs[j]
      PROVE  QuietByPlace(o, p) /\ Heard(o, p)
  <2>1. /\ rx[r] \in Objects
        /\ DOMAIN o.subs = DOMAIN rx[r].subs /\ o.running = rx[r].running
    BY <1>2, <1>3, ReceiverType, OneSubscription
  <2> HIDE DEF o, s, p
  <2> QED
    BY <1>2, <1>3, <1>5, <1>6, <2>1 DEF Sound, QuietByPlace, Heard
<1>7. Quiet(rx[r].subs[i])
  BY <1>2 DEF Sound, QuietByPlace
<1> HIDE DEF s, p
<1> QED
  BY <1>2, <1>3, <1>4, <1>5, <1>6, <1>7, SubscriptionStep

LEMMA StartSubFailsStep ==
  ASSUME RxInv, NEW r \in Receivers, StartSubFails(r)
  PROVE  RxInv' /\ KeepsThreads
<1> DEFINE i == op[r].i
           p == [op[r] EXCEPT !.i = i + 1]
           s == [rx[r].subs[i] EXCEPT !.fd = "closed"]
           o == [rx[r] EXCEPT !.subs[i] = s]
<1>1. /\ op[r].call = "start" /\ i \in DOMAIN rx[r].subs
      /\ rx[r].subs[i] \in Subscriptions
      /\ i \in Nat /\ op[r] \in OwnerPlaces
      /\ Sound(rx[r], op[r])
      /\ \A j \in DOMAIN rx[r].subs : j \in Nat
  BY AtSubType DEF StartSubFails
<1>2. Quiet(rx[r].subs[i])
  BY <1>1 DEF Sound, QuietByPlace
<1>3. s \in Subscriptions /\ Paired(s) /\ Quiet(s)
  BY <1>1, <1>2 DEF Subscriptions, Sockets, Paired, Quiet, Alive
<1>4. rx' = [rx EXCEPT ![r] = o]
  BY <1>1, ReceiverType DEF StartSubFails
<1>5. /\ op' = [op EXCEPT ![r] = p] /\ p \in OwnerPlaces
      /\ p.call = "start" /\ p.i = i + 1 /\ p.ok = op[r].ok
  BY <1>1 DEF StartSubFails, OwnerPlaces
<1>6. ASSUME \A j \in DOMAIN rx[r].subs : o.subs[j] = IF j = i THEN s ELSE rx[r].subs[j]
      PROVE  QuietByPlace(o, p) /\ Heard(o, p)
  <2>1. /\ rx[r] \in Objects
        /\ DOMAIN o.subs = DOMAIN rx[r].subs /\ o.running = rx[r].running
    BY <1>1, <1>3, ReceiverType, OneSubscription
  <2>2. ~ InLoop(rx[r].subs[i])
    BY <1>2 DEF Quiet, Alive, InLoop
  <2> HIDE DEF o, s, p
  <2> QED
    BY <1>1, <1>3, <1>5, <1>6, <2>1, <2>2 DEF Sound, QuietByPlace, Heard
<1> HIDE DEF s, p
<1> QED
  BY <1>1, <1>2, <1>3, <1>4, <1>5, <1>6, SubscriptionStep

LEMMA StartReturnsStep ==
  ASSUME RxInv, NEW r \in Receivers, StartReturns(r)
  PROVE  RxInv' /\ KeepsThreads
<1> DEFINE o == [rx[r] EXCEPT !.running = op[r].ok]
           p == Returned(op[r].ok)
<1>1. /\ rx[r] \in Objects /\ op[r] \in OwnerPlaces /\ Sound(rx[r], op[r])
      /\ Len(rx[r].subs) <= MaxSubs
  BY ReceiverType
<1>2. op[r].call = "start" /\ op[r].ok \in BOOLEAN
  BY <1>1 DEF StartReturns, PastSubs, OwnerPlaces
<1>3. rx' = [rx EXCEPT ![r] = o] /\ op' = [op EXCEPT ![r] = p]
  BY DEF StartReturns
<1>4. /\ o \in Objects /\ o.subs = rx[r].subs /\ o.built = rx[r].built
      /\ o.running = op[r].ok
  BY <1>1, <1>2 DEF Objects
<1>5. p \in OwnerPlaces /\ p.call = "none"
  BY <1>2 DEF OwnerPlaces, Returned
<1> HIDE DEF o, p
<1>6. Sound(o, p)
  BY <1>1, <1>2, <1>4, <1>5 DEF Sound, AllPaired, QuietByPlace, Heard, NothingUnbuilt
<1>7. Kept(rx[r], o)
  BY <1>1, <1>4, KeptSame DEF Sound
<1> QED
  BY <1>1, <1>3, <1>4, <1>5, <1>6, <1>7, OneReceiver

LEMMA StopStep ==
  ASSUME RxInv, NEW r \in Receivers, stop(r)
  PROVE  RxInv' /\ KeepsThreads
<1> DEFINE o == [rx[r] EXCEPT !.running = FALSE]
           p == IF rx[r].running THEN [call |-> "stop", i |-> 1, ok |-> FALSE]
                ELSE Returned(FALSE)
<1>1. /\ rx[r] \in Objects /\ op[r] \in OwnerPlaces /\ Sound(rx[r], op[r])
      /\ Len(rx[r].subs) <= MaxSubs
      /\ \A j \in DOMAIN rx[r].subs : j \in Nat
      /\ rx[r].subs \in Seq(Subscriptions)
  BY ReceiverType
<1>2. op[r].call = "none"
  BY DEF stop, Free
<1>3. rx' = [rx EXCEPT ![r] = o] /\ op' = [op EXCEPT ![r] = p]
  BY DEF stop
<1>4. /\ o \in Objects /\ o.subs = rx[r].subs /\ o.built = rx[r].built /\ ~ o.running
  BY <1>1 DEF Objects
<1>5. /\ p \in OwnerPlaces
      /\ \/ rx[r].running /\ p.call = "stop" /\ p.i = 1
         \/ ~ rx[r].running /\ p.call = "none"
  BY DEF OwnerPlaces, Returned
<1>6. \A j \in DOMAIN rx[r].subs : ~ (j < 1)
  BY <1>1, LenProperties
<1> HIDE DEF o, p
<1>7. QuietByPlace(o, p) /\ Heard(o, p)
  BY <1>1, <1>2, <1>4, <1>5, <1>6 DEF Sound, QuietByPlace, Heard
<1>8. Sound(o, p)
  BY <1>1, <1>4, <1>7 DEF Sound, AllPaired, NothingUnbuilt
<1>9. Kept(rx[r], o)
  BY <1>1, <1>4, KeptSame DEF Sound
<1> QED
  BY <1>1, <1>3, <1>4, <1>5, <1>8, <1>9, OneReceiver

LEMMA StopSignalStep ==
  ASSUME RxInv, NEW r \in Receivers, StopSignal(r)
  PROVE  RxInv' /\ KeepsThreads
<1> DEFINE i == op[r].i
           p == [op[r] EXCEPT !.call = "join"]
           s == [rx[r].subs[i] EXCEPT !.flag = FALSE]
           o == [rx[r] EXCEPT !.subs[i] = s]
<1>1. /\ op[r].call = "stop" /\ i \in DOMAIN rx[r].subs
      /\ rx[r].subs[i] \in Subscriptions
      /\ i \in Nat /\ op[r] \in OwnerPlaces
      /\ Sound(rx[r], op[r])
      /\ \A j \in DOMAIN rx[r].subs : j \in Nat
  BY AtSubType DEF StopSignal
<1>2. Paired(rx[r].subs[i])
  BY <1>1 DEF Sound, AllPaired
<1>3. s \in Subscriptions /\ Paired(s)
  BY <1>1, <1>2 DEF Subscriptions, Paired, Alive
<1>4. rx' = [rx EXCEPT ![r] = o]
  BY <1>1, ReceiverType DEF StopSignal
<1>5. /\ op' = [op EXCEPT ![r] = p] /\ p \in OwnerPlaces
      /\ p.call = "join" /\ p.i = i
  BY <1>1 DEF StopSignal, OwnerPlaces
<1>6. ASSUME \A j \in DOMAIN rx[r].subs : o.subs[j] = IF j = i THEN s ELSE rx[r].subs[j]
      PROVE  QuietByPlace(o, p) /\ Heard(o, p)
  <2>1. /\ rx[r] \in Objects
        /\ DOMAIN o.subs = DOMAIN rx[r].subs /\ o.running = rx[r].running
    BY <1>1, <1>3, ReceiverType, OneSubscription
  <2> HIDE DEF o, s, p
  <2> QED
    BY <1>1, <1>5, <1>6, <2>1 DEF Sound, QuietByPlace, Heard
<1>7. Quiet(rx[r].subs[i]) \/ (Alive(s) /\ s.fd = rx[r].subs[i].fd)
  BY <1>1, <1>2 DEF Subscriptions, Paired, Quiet, Alive
<1> HIDE DEF s, p
<1> QED
  BY <1>1, <1>3, <1>4, <1>5, <1>6, <1>7, SubscriptionStep

LEMMA StopJoinStep ==
  ASSUME RxInv, NEW r \in Receivers, StopJoin(r)
  PROVE  RxInv' /\ KeepsThreads
<1> DEFINE i == op[r].i
           p == [op[r] EXCEPT !.call = "stop", !.i = i + 1]
           s == [rx[r].subs[i] EXCEPT !.thread = "none", !.fd = "closed"]
           o == [rx[r] EXCEPT !.subs[i] = s]
<1>1. /\ op[r].call = "join" /\ i \in DOMAIN rx[r].subs
      /\ rx[r].subs[i] \in Subscriptions
      /\ i \in Nat /\ op[r] \in OwnerPlaces
      /\ Sound(rx[r], op[r])
      /\ \A j \in DOMAIN rx[r].subs : j \in Nat
  BY AtSubType DEF StopJoin
<1>2. s \in Subscriptions /\ Paired(s) /\ Quiet(s)
  BY <1>1 DEF Subscriptions, Sockets, Places, Paired, Quiet, Alive
<1>3. rx' = [rx EXCEPT ![r] = o]
  BY <1>1, ReceiverType DEF StopJoin
<1>4. /\ op' = [op EXCEPT ![r] = p] /\ p \in OwnerPlaces
      /\ p.call = "stop" /\ p.i = i + 1
  <2>1. op' = [op EXCEPT ![r] = p]
    BY DEF StopJoin
  <2> QED
    BY <1>1, <2>1, PlaceMoves
<1>5. ASSUME \A j \in DOMAIN rx[r].subs : o.subs[j] = IF j = i THEN s ELSE rx[r].subs[j]
      PROVE  QuietByPlace(o, p) /\ Heard(o, p)
  <2>1. /\ rx[r] \in Objects
        /\ DOMAIN o.subs = DOMAIN rx[r].subs /\ o.running = rx[r].running
    BY <1>1, <1>2, ReceiverType, OneSubscription
  <2> HIDE DEF o, s, p
  <2> QED
    BY <1>1, <1>2, <1>4, <1>5, <2>1 DEF Sound, QuietByPlace, Heard
<1>6. Quiet(rx[r].subs[i]) \/ rx[r].subs[i].thread = "ended"
  BY <1>1 DEF StopJoin, Sound, AllPaired, Paired, Quiet, Alive
<1> HIDE DEF s, p
<1> QED
  BY <1>1, <1>2, <1>3, <1>4, <1>5, <1>6, SubscriptionStep

LEMMA StopReturnsStep ==
  ASSUME RxInv, NEW r \in Receivers, StopReturns(r)
  PROVE  RxInv' /\ KeepsThreads
<1> DEFINE o == [rx[r] EXCEPT !.subs = <<>>]
           p == Returned(FALSE)
<1>1. /\ rx[r] \in Objects /\ Sound(rx[r], op[r])
  BY ReceiverType
<1>2. rx' = [rx EXCEPT ![r] = o] /\ op' = [op EXCEPT ![r] = p]
  BY DEF StopReturns
<1>3. /\ o \in Objects /\ o.subs = <<>> /\ o.built = rx[r].built
      /\ o.running = rx[r].running /\ Len(o.subs) = 0
  BY <1>1, EmptySeq DEF Objects
<1>4. p \in OwnerPlaces /\ p.call = "none"
  BY DEF OwnerPlaces, Returned
<1> HIDE DEF o, p
<1>5. Sound(o, p)
  BY <1>1, <1>3, <1>4
     DEF StopReturns, PastSubs, Sound, AllPaired, QuietByPlace, Heard, NothingUnbuilt
<1>6. Len(o.subs) <= MaxSubs
  BY <1>3, MaxSubsAssumption
<1>7. Kept(rx[r], o)
  <2>1. op[r].call = "stop" /\ op[r].i \notin DOMAIN rx[r].subs
    BY DEF StopReturns, PastSubs
  <2>2. rx[r].subs \in Seq(Subscriptions) /\ op[r].i \in Nat /\ op[r].i >= 1
    BY <1>1, <2>1, ReceiverType DEF OwnerPlaces, Sound, QuietByPlace
  <2>3. \A j \in DOMAIN rx[r].subs : j < op[r].i
    BY <2>1, <2>2, LenProperties
  <2> QED
    BY <1>1, <2>1, <2>3 DEF Sound, QuietByPlace, Kept
<1> QED
  BY <1>2, <1>3, <1>4, <1>5, <1>6, <1>7, OneReceiver

LEMMA DestroyStep ==
  ASSUME RxInv, NEW r \in Receivers, destroy(r)
  PROVE  RxInv' /\ KeepsThreads
<1>1. op[r] \in OwnerPlaces /\ op = [op EXCEPT ![r] = op[r]]
  BY ReceiverType
<1>2. op[r].call = "none" /\ rx' = [rx EXCEPT ![r] = NoReceiver] /\ op' = op
  BY DEF destroy, Free
<1>3. NoReceiver \in Objects /\ Len(NoReceiver.subs) <= MaxSubs
  BY EmptySeq, MaxSubsAssumption DEF NoReceiver, Objects
<1>4. Sound(NoReceiver, op[r])
  BY <1>2 DEF NoReceiver, Sound, AllPaired, QuietByPlace, Heard, NothingUnbuilt
<1>5. Kept(rx[r], NoReceiver)
  BY <1>2, ReceiverType DEF destroy, Sound, QuietByPlace, Kept
<1> QED
  BY <1>1, <1>2, <1>3, <1>4, <1>5, OneReceiver

-----------------------------------------------------------------------------
(* The threads' steps *)

\* A thread that goes from one place of its loop to another.
LEMMA GotoStep ==
  ASSUME RxInv, NEW r \in Receivers, NEW i, NEW from, NEW to \in Places,
         ThreadAt(r, i, from), Goto(r, i, to), from # "none", to # "none",
         to = "ended" => ~ (rx[r].running /\ rx[r].subs[i].flag)
  PROVE  RxInv' /\ KeepsThreads
<1> DEFINE s == [rx[r].subs[i] EXCEPT !.thread = to]
           o == [rx[r] EXCEPT !.subs[i] = s]
<1>1. i \in DOMAIN rx[r].subs /\ rx[r].subs[i].thread = from
  BY DEF ThreadAt
<1>2. /\ rx[r].subs[i] \in Subscriptions /\ rx[r] \in Objects
      /\ op[r] \in OwnerPlaces /\ op = [op EXCEPT ![r] = op[r]]
      /\ Sound(rx[r], op[r])
  BY <1>1, ReceiverType
<1>3. Alive(rx[r].subs[i]) /\ Paired(rx[r].subs[i])
  BY <1>1, <1>2 DEF Sound, AllPaired, Alive
<1>4. s \in Subscriptions /\ Paired(s)
  BY <1>2, <1>3 DEF Subscriptions, Paired, Alive
<1>5. rx' = [rx EXCEPT ![r] = o] /\ op' = op
  BY <1>1, <1>2 DEF Goto
<1>6. ASSUME \A j \in DOMAIN rx[r].subs : o.subs[j] = IF j = i THEN s ELSE rx[r].subs[j]
      PROVE  QuietByPlace(o, op[r]) /\ Heard(o, op[r])
  <2>1. DOMAIN o.subs = DOMAIN rx[r].subs /\ o.running = rx[r].running
    BY <1>1, <1>2, <1>4, OneSubscription
  <2>2. ~ Quiet(rx[r].subs[i])
    BY <1>3 DEF Quiet
  <2>3. rx[r].running /\ InLoop(rx[r].subs[i]) => InLoop(s)
    BY <1>2 DEF InLoop, Subscriptions, Places
  <2> HIDE DEF o, s
  <2> QED
    BY <1>1, <1>2, <1>6, <2>1, <2>2, <2>3 DEF Sound, QuietByPlace, Heard
<1>7. Alive(s) /\ s.fd = rx[r].subs[i].fd
  BY <1>2 DEF Subscriptions, Alive
<1> HIDE DEF s
<1> QED
  BY <1>1, <1>2, <1>4, <1>5, <1>6, <1>7, SubscriptionStep

\* The places that a thread goes to are places of its loop.
LEMMA ThreadSteps ==
  ASSUME RxInv, NEW r \in Receivers, NEW i,
         ThreadStep(r, i) \/ RecvPacket(r, i) \/ RecvFails(r, i)
  PROVE  RxInv' /\ KeepsThreads
<1>1. \E from, to \in Places :
        /\ ThreadAt(r, i, from) /\ Goto(r, i, to) /\ from # "none" /\ to # "none"
        /\ to = "ended" => ~ (rx[r].running /\ rx[r].subs[i].flag)
  BY DEF ThreadStep, LoopCondition, RecvTimesOut, CallbackReturns, RecvPacket, RecvFails,
     Places
<1> QED
  BY <1>1, GotoStep

\* Every step inside a receiver, by its owner or by one of its threads.
LEMMA ReceiverSteps ==
  ASSUME RxInv, NEW r \in Receivers, ReceiverStep(r)
  PROVE  RxInv' /\ KeepsThreads
BY StartSubStep, StartSubFailsStep, StartReturnsStep, StopSignalStep, StopJoinStep,
   StopReturnsStep, ThreadSteps
   DEF ReceiverStep, OwnerStep

-----------------------------------------------------------------------------
(* The receivers: theorems *)

LEMMA RxInitially == RxInit => RxInv
<1> SUFFICES ASSUME RxInit PROVE RxInv
  OBVIOUS
<1>1. /\ NoReceiver \in Objects /\ Returned(FALSE) \in OwnerPlaces
      /\ Len(NoReceiver.subs) <= MaxSubs
      /\ Sound(NoReceiver, Returned(FALSE))
  BY MaxSubsAssumption, EmptySeq DEF NoReceiver, Returned, Objects, OwnerPlaces, Sound,
     AllPaired, QuietByPlace, Heard, NothingUnbuilt
<1>2. \A r \in Receivers : rx[r] = NoReceiver /\ op[r] = Returned(FALSE)
  BY DEF RxInit
<1>3. rx \in [Receivers -> Objects] /\ op \in [Receivers -> OwnerPlaces]
  BY <1>1 DEF RxInit
<1> QED
  BY <1>1, <1>2, <1>3, Zenon DEF RxInv, RxTypeOK, Objects, OwnerPlaces

LEMMA RxSteps == RxInv /\ [RxNext]_rxvars => RxInv' /\ [KeepsThreads]_rxvars
<1> SUFFICES ASSUME RxInv, [RxNext]_rxvars PROVE RxInv' /\ [KeepsThreads]_rxvars
  OBVIOUS
<1>1. CASE UNCHANGED rxvars
  BY <1>1 DEF rxvars, RxInv, RxTypeOK
<1>2. CASE RxNext
  <2>1. PICK r \in Receivers :
          \/ ReceiverStep(r)
          \/ construct(r) \/ start(r) \/ stop(r) \/ destroy(r)
          \/ \E g \in Groups : add_subscription(r, g)
    BY <1>2 DEF RxNext
  <2> QED
    BY <2>1, ReceiverSteps, ConstructStep, StartStep, StopStep, DestroyStep,
       AddSubscriptionStep
<1> QED
  BY <1>1, <1>2

\* What the properties of the receiver say of a state in which RxInv holds.
LEMMA RxInvImplies ==
  RxInv => NothingLeftBehind /\ ThreadsHaveSockets /\ StartedHears
BY DEF RxInv, Sound, AllPaired, Paired, QuietByPlace, Heard, Free, NothingLeftBehind,
   ThreadsHaveSockets, StartedHears

\* RxInv holds of any number of receivers with any number of subscriptions.
THEOREM RxCorrect == RxSpec => []RxInv
BY RxInitially, RxSteps, PTL DEF RxSpec

\* Objects have their types, and start() and stop() never leave the subscriptions.
THEOREM RxTypeCorrect == RxSpec => []RxTypeOK
BY RxCorrect, PTL DEF RxInv

\* A receiver that does not run has no thread and no socket, whichever sockets
\* failed to open in start() and however stop() met the threads.
THEOREM RxNothingLeftBehind == RxSpec => []NothingLeftBehind
BY RxCorrect, RxInvImplies, PTL

\* No thread is ever on a socket that was closed.
THEOREM RxThreadsHaveSockets == RxSpec => []ThreadsHaveSockets
BY RxCorrect, RxInvImplies, PTL

\* A receiver that runs has a thread in its loop.
THEOREM RxStartedHears == RxSpec => []StartedHears
BY RxCorrect, RxInvImplies, PTL

\* No step loses a thread or a socket: a thread goes only when it is at its end and
\* is joined, and its socket with it.
THEOREM RxJoinedBeforeGone == RxSpec => JoinedBeforeGone
<1>1. RxInv /\ [RxNext]_rxvars => [KeepsThreads]_rxvars
  BY RxSteps
<1> QED
  BY <1>1, RxCorrect, PTL DEF RxSpec, JoinedBeforeGone, KeepsThreads, Kept

ManagerPlaces ==
  {"idle", "connect", "set_running", "start_primary", "primary_result",
   "start_secondary", "secondary_result", "finish",
   "stop_primary", "stop_secondary", "stop_client"}

\* The places after the result of the primary receiver, where it goes on running.
Result == {"start_secondary", "secondary_result", "finish", "idle"}

Configs == [feeds : Seq(Groups), dual : BOOLEAN, server : BOOLEAN]

-----------------------------------------------------------------------------
(* The manager: the inductive invariant *)

ManagerTypes ==
  /\ running \in BOOLEAN
  /\ config \in Configs
  /\ client \in {"none", "running", "stopped"}
  /\ started \subseteq Receivers
  /\ leftover \subseteq Groups
  /\ mgr \in ManagerPlaces

\* running_, by the place of the application.
RunningByPlace ==
  /\ mgr \in {"connect", "set_running"} \/ Stopping => ~ running
  /\ mgr \in {"start_primary", "primary_result", "secondary_result"} => running

\* The application is inside a receiver only where the manager calls it.
InsideByPlace ==
  /\ op["primary"].call = "start" => mgr = "primary_result"
  /\ op["primary"].call \in {"stop", "join"} => mgr = "stop_secondary"
  /\ op["secondary"].call = "start" => mgr = "secondary_result"
  /\ op["secondary"].call \in {"stop", "join"} => mgr = "stop_client"

\* A receiver runs only in a session that was started and is not yet stopped.
ReceiversByPlace ==
  /\ rx["primary"].running =>
       (running /\ mgr \in Result \cup {"primary_result"}) \/ mgr = "stop_primary"
  /\ rx["secondary"].running =>
       \/ running /\ mgr \in {"secondary_result", "finish", "idle"}
       \/ mgr \in {"stop_primary", "stop_secondary"}

\* What start() returned is whether the receiver runs, until it is looked at.
ResultsByPlace ==
  /\ mgr = "primary_result" /\ Free("primary") =>
       op["primary"].ok = rx["primary"].running
  /\ mgr = "secondary_result" /\ Free("secondary") =>
       op["secondary"].ok = rx["secondary"].running

\* The primary feed is heard in a session that is up.
PrimaryUp ==
  /\ config.feeds # <<>> => rx["primary"].built
  /\ mgr \in Result /\ running /\ rx["primary"].built => rx["primary"].running

\* The client runs from connect_retransmission_client to its stop.
ClientByPlace ==
  /\ client = "running" => mgr # "connect" /\ (mgr = "idle" => running)
  /\ config.server /\ ~ Stopping /\ mgr # "connect" /\ (mgr = "idle" => running) =>
       client = "running"

\* A receiver that was started runs, is being stopped, or has given up its
\* subscriptions; and it was started after its turn has come.
StartedByPlace ==
  /\ \A r \in started :
       rx[r].running \/ op[r].call \in {"stop", "join"} \/ rx[r].subs = <<>>
  /\ "primary" \in started =>
       mgr \notin {"connect", "set_running", "start_primary", "primary_result"}
  /\ "secondary" \in started => mgr \in {"finish", "idle"} \/ Stopping

\* Where the groups of the subscriptions come from: all of them from the
\* configuration or from a receiver that could not be started; outside of
\* configure_and_start, those of receivers that were not started from the latter.
GroupsKnown ==
  /\ \A r \in Receivers : \A i \in DOMAIN rx[r].subs :
       rx[r].subs[i].group \in Wanted(config, r) \cup leftover
  /\ mgr = "idle" \/ Stopping =>
       \A r \in Receivers \ started : \A i \in DOMAIN rx[r].subs :
         rx[r].subs[i].group \in leftover

ManagerInv ==
  /\ ManagerTypes /\ RunningByPlace /\ InsideByPlace /\ ReceiversByPlace
  /\ ResultsByPlace /\ PrimaryUp /\ ClientByPlace /\ StartedByPlace /\ GroupsKnown

LifeInv == RxInv /\ ManagerInv

-----------------------------------------------------------------------------
(* What a step inside a receiver does, as far as the manager can tell *)

\* Nothing to other receivers, to the handle and to the groups.
LeavesRest(r) ==
  /\ \A q \in Receivers \ {r} : rx'[q] = rx[q] /\ op'[q] = op[q]
  /\ rx'[r].built = rx[r].built
  /\ rx[r].subs = <<>> => rx'[r].subs = <<>>
  /\ \A j \in DOMAIN rx'[r].subs :
       j \in DOMAIN rx[r].subs /\ rx'[r].subs[j].group = rx[r].subs[j].group

\* A thread's step; one inside start(), or its return; one inside stop(), or its
\* return.
OwnerEffect(r) ==
  \/ rx'[r].running = rx[r].running /\ op'[r] = op[r]
  \/ /\ op[r].call = "start" /\ op'[r].call = "start"
     /\ rx'[r].running = rx[r].running
  \/ op[r].call = "start" /\ op'[r].call = "none" /\ op'[r].ok = rx'[r].running
  \/ /\ op[r].call \in {"stop", "join"} /\ op'[r].call \in {"stop", "join"}
     /\ rx'[r].running = rx[r].running
  \/ /\ op[r].call = "stop" /\ op'[r].call = "none"
     /\ rx'[r].running = rx[r].running /\ rx'[r].subs = <<>>

LEMMA SubscriptionEffect ==
  ASSUME RxInv, NEW r \in Receivers, NEW i \in DOMAIN rx[r].subs,
         NEW s \in Subscriptions, s.group = rx[r].subs[i].group,
         rx' = [rx EXCEPT ![r] = [rx[r] EXCEPT !.subs[i] = s]],
         NEW p, op' = [op EXCEPT ![r] = p]
  PROVE  LeavesRest(r) /\ rx'[r].running = rx[r].running /\ op'[r] = p
<1> DEFINE o == [rx[r] EXCEPT !.subs[i] = s]
<1>1. rx[r] \in Objects /\ rx \in [Receivers -> Objects] /\ op \in [Receivers -> OwnerPlaces]
  BY DEF RxInv, RxTypeOK, Objects, OwnerPlaces
<1>2. /\ o.built = rx[r].built /\ o.running = rx[r].running
      /\ DOMAIN o.subs = DOMAIN rx[r].subs
      /\ \A j \in DOMAIN rx[r].subs : o.subs[j] = IF j = i THEN s ELSE rx[r].subs[j]
  BY <1>1, OneSubscription
<1>3. rx'[r] = o /\ op'[r] = p
  BY <1>1
<1>4. \A q \in Receivers \ {r} : rx'[q] = rx[q] /\ op'[q] = op[q]
  BY <1>1
<1> HIDE DEF o
<1> QED
  BY <1>2, <1>3, <1>4 DEF LeavesRest

LEMMA OwnerStepEffect ==
  ASSUME RxInv, NEW r \in Receivers, OwnerStep(r)
  PROVE  LeavesRest(r) /\ OwnerEffect(r)
<1> DEFINE i == op[r].i
<1>1. /\ rx[r] \in Objects /\ op[r] \in OwnerPlaces
      /\ rx \in [Receivers -> Objects] /\ op \in [Receivers -> OwnerPlaces]
  BY DEF RxInv, RxTypeOK, Objects, OwnerPlaces
<1>2. CASE StartSub(r)
  <2>1. PICK fd \in {"timed", "untimed"} :
          rx' = [rx EXCEPT ![r].subs[i] =
                   [@ EXCEPT !.fd = fd, !.flag = TRUE, !.thread = "check"]]
    BY <1>2 DEF StartSub
  <2> DEFINE s == [rx[r].subs[i] EXCEPT !.fd = fd, !.flag = TRUE, !.thread = "check"]
             p == [op[r] EXCEPT !.i = i + 1, !.ok = TRUE]
  <2>2. op[r].call = "start" /\ i \in DOMAIN rx[r].subs /\ rx[r].subs[i] \in Subscriptions
    BY <1>2, AtSubType DEF StartSub
  <2>3. s \in Subscriptions /\ s.group = rx[r].subs[i].group
    BY <2>2 DEF Subscriptions, Sockets, Places
  <2>4. rx' = [rx EXCEPT ![r] = [rx[r] EXCEPT !.subs[i] = s]]
    BY <2>1, <2>2, ReceiverType
  <2>5. op' = [op EXCEPT ![r] = p] /\ p.call = "start"
    BY <1>1, <1>2, <2>2, PlaceMoves DEF StartSub
  <2> HIDE DEF s, p
  <2> QED
    BY <2>2, <2>3, <2>4, <2>5, SubscriptionEffect DEF OwnerEffect
<1>3. CASE StartSubFails(r)
  <2> DEFINE s == [rx[r].subs[i] EXCEPT !.fd = "closed"]
             p == [op[r] EXCEPT !.i = i + 1]
  <2>1. op[r].call = "start" /\ i \in DOMAIN rx[r].subs /\ rx[r].subs[i] \in Subscriptions
    BY <1>3, AtSubType DEF StartSubFails
  <2>2. s \in Subscriptions /\ s.group = rx[r].subs[i].group
    BY <2>1 DEF Subscriptions, Sockets
  <2>3. rx' = [rx EXCEPT ![r] = [rx[r] EXCEPT !.subs[i] = s]]
    BY <1>3, <2>1, ReceiverType DEF StartSubFails
  <2>4. op' = [op EXCEPT ![r] = p] /\ p.call = "start"
    BY <1>1, <1>3, <2>1 DEF StartSubFails, OwnerPlaces
  <2> HIDE DEF s, p
  <2> QED
    BY <2>1, <2>2, <2>3, <2>4, SubscriptionEffect DEF OwnerEffect
<1>4. CASE StartReturns(r)
  <2>1. /\ op[r].call = "start"
        /\ rx'[r] = [rx[r] EXCEPT !.running = op[r].ok] /\ op'[r] = Returned(op[r].ok)
        /\ \A q \in Receivers \ {r} : rx'[q] = rx[q] /\ op'[q] = op[q]
    BY <1>1, <1>4 DEF StartReturns, PastSubs
  <2> QED
    BY <1>1, <2>1 DEF LeavesRest, OwnerEffect, Returned, Objects
<1>5. CASE StopSignal(r)
  <2> DEFINE s == [rx[r].subs[i] EXCEPT !.flag = FALSE]
             p == [op[r] EXCEPT !.call = "join"]
  <2>1. op[r].call = "stop" /\ i \in DOMAIN rx[r].subs /\ rx[r].subs[i] \in Subscriptions
    BY <1>5, AtSubType DEF StopSignal
  <2>2. s \in Subscriptions /\ s.group = rx[r].subs[i].group
    BY <2>1 DEF Subscriptions
  <2>3. rx' = [rx EXCEPT ![r] = [rx[r] EXCEPT !.subs[i] = s]]
    BY <1>5, <2>1, ReceiverType DEF StopSignal
  <2>4. op' = [op EXCEPT ![r] = p] /\ p.call = "join"
    BY <1>1, <1>5, <2>1 DEF StopSignal, OwnerPlaces
  <2> HIDE DEF s, p
  <2> QED
    BY <2>1, <2>2, <2>3, <2>4, SubscriptionEffect DEF OwnerEffect
<1>6. CASE StopJoin(r)
  <2> DEFINE s == [rx[r].subs[i] EXCEPT !.thread = "none", !.fd = "closed"]
             p == [op[r] EXCEPT !.call = "stop", !.i = i + 1]
  <2>1. op[r].call = "join" /\ i \in DOMAIN rx[r].subs /\ rx[r].subs[i] \in Subscriptions
    BY <1>6, AtSubType DEF StopJoin
  <2>2. s \in Subscriptions /\ s.group = rx[r].subs[i].group
    BY <2>1 DEF Subscriptions, Sockets, Places
  <2>3. rx' = [rx EXCEPT ![r] = [rx[r] EXCEPT !.subs[i] = s]]
    BY <1>6, <2>1, ReceiverType DEF StopJoin
  <2>4. op' = [op EXCEPT ![r] = p] /\ p.call = "stop"
    BY <1>1, <1>6, <2>1, PlaceMoves DEF StopJoin
  <2> HIDE DEF s, p
  <2> QED
    BY <2>1, <2>2, <2>3, <2>4, SubscriptionEffect DEF OwnerEffect
<1>7. CASE StopReturns(r)
  <2>1. /\ op[r].call = "stop"
        /\ rx'[r] = [rx[r] EXCEPT !.subs = <<>>] /\ op'[r] = Returned(FALSE)
        /\ \A q \in Receivers \ {r} : rx'[q] = rx[q] /\ op'[q] = op[q]
    BY <1>1, <1>7 DEF StopReturns, PastSubs
  <2>2. rx'[r].subs = <<>> /\ rx'[r].built = rx[r].built /\ rx'[r].running = rx[r].running
    BY <1>1, <2>1 DEF Objects
  <2> QED
    BY <2>1, <2>2 DEF LeavesRest, OwnerEffect, Returned
<1> QED
  BY <1>2, <1>3, <1>4, <1>5, <1>6, <1>7 DEF OwnerStep

LEMMA ReceiverStepEffect ==
  ASSUME RxInv, NEW r \in Receivers, ReceiverStep(r)
  PROVE  LeavesRest(r) /\ OwnerEffect(r)
<1>1. CASE OwnerStep(r)
  BY <1>1, OwnerStepEffect
<1>2. ASSUME NEW i, ThreadStep(r, i) \/ RecvPacket(r, i) \/ RecvFails(r, i)
      PROVE  LeavesRest(r) /\ OwnerEffect(r)
  <2>1. PICK to \in Places : i \in DOMAIN rx[r].subs /\ Goto(r, i, to)
    BY <1>2 DEF ThreadStep, LoopCondition, RecvTimesOut, CallbackReturns, RecvPacket,
       RecvFails, Places, ThreadAt
  <2> DEFINE s == [rx[r].subs[i] EXCEPT !.thread = to]
  <2>2. /\ rx[r].subs[i] \in Subscriptions
        /\ op = [op EXCEPT ![r] = op[r]]
    BY <2>1, ReceiverType
  <2>3. s \in Subscriptions /\ s.group = rx[r].subs[i].group
    BY <2>2 DEF Subscriptions
  <2>4. rx' = [rx EXCEPT ![r] = [rx[r] EXCEPT !.subs[i] = s]] /\ op' = op
    BY <2>1, ReceiverType DEF Goto
  <2> HIDE DEF s
  <2> QED
    BY <2>1, <2>2, <2>3, <2>4, SubscriptionEffect DEF OwnerEffect
<1> QED
  BY <1>1, <1>2 DEF ReceiverStep

-----------------------------------------------------------------------------
(* What start() and stop() of a receiver do when the manager calls them *)

LEMMA StartEffect ==
  ASSUME RxInv, NEW r \in Receivers, start(r)
  PROVE  /\ LeavesRest(r) /\ rx'[r].subs = rx[r].subs
         /\ op[r].call = "none"
         /\ \/ /\ op'[r].call = "none" /\ op'[r].ok = rx'[r].running
               /\ rx'[r].running = rx[r].running
            \/ op'[r].call = "start" /\ rx'[r].running
<1>1. /\ rx[r] \in Objects /\ rx \in [Receivers -> Objects] /\ op \in [Receivers -> OwnerPlaces]
  BY DEF RxInv, RxTypeOK, Objects, OwnerPlaces
<1>2. /\ op[r].call = "none"
      /\ \A q \in Receivers \ {r} : rx'[q] = rx[q] /\ op'[q] = op[q]
      /\ \/ rx'[r] = rx[r] /\ op'[r] = Returned(rx[r].running)
         \/ /\ rx'[r] = [rx[r] EXCEPT !.running = TRUE]
            /\ op'[r] = [call |-> "start", i |-> 1, ok |-> FALSE]
  BY <1>1 DEF start, Free
<1> QED
  BY <1>1, <1>2 DEF LeavesRest, Returned, Objects

LEMMA StopEffect ==
  ASSUME RxInv, NEW r \in Receivers, stop(r)
  PROVE  /\ LeavesRest(r) /\ rx'[r].subs = rx[r].subs
         /\ op[r].call = "none" /\ ~ rx'[r].running
         /\ op'[r].call = IF rx[r].running THEN "stop" ELSE "none"
<1>1. /\ rx[r] \in Objects /\ rx \in [Receivers -> Objects] /\ op \in [Receivers -> OwnerPlaces]
  BY DEF RxInv, RxTypeOK, Objects, OwnerPlaces
<1>2. /\ op[r].call = "none"
      /\ \A q \in Receivers \ {r} : rx'[q] = rx[q] /\ op'[q] = op[q]
      /\ rx'[r] = [rx[r] EXCEPT !.running = FALSE]
      /\ op'[r] = IF rx[r].running THEN [call |-> "stop", i |-> 1, ok |-> FALSE]
                  ELSE Returned(FALSE)
  BY <1>1 DEF stop, Free
<1>3. rx'[r].subs = rx[r].subs /\ rx'[r].built = rx[r].built /\ ~ rx'[r].running
  BY <1>1, <1>2 DEF Objects
<1> QED
  BY <1>2, <1>3 DEF LeavesRest, Returned

-----------------------------------------------------------------------------
(* The manager's steps, one lemma per action and one step per conjunct *)

\* The feeds of a configuration are groups.
LEMMA WantedGroups ==
  ASSUME NEW c \in Configs, NEW r
  PROVE  Wanted(c, r) \subseteq Groups
BY ElementOfSeq, LenProperties DEF Wanted, Configs

LEMMA ConnectClientStep ==
  ASSUME LifeInv, ConnectClient
  PROVE  ManagerInv'
<1> USE ReceiversAssumption DEF LifeInv, ManagerInv, ConnectClient, Stopping, Result, Free
<1>1. ManagerTypes'
  BY DEF ManagerTypes, ManagerPlaces
<1>2. RunningByPlace'
  BY DEF RunningByPlace
<1>3. InsideByPlace'
  BY DEF InsideByPlace
<1>4. ReceiversByPlace'
  BY DEF ReceiversByPlace
<1>5. ResultsByPlace'
  BY DEF ResultsByPlace
<1>6. PrimaryUp'
  BY DEF PrimaryUp
<1>7. ClientByPlace'
  BY DEF ClientByPlace
<1>8. StartedByPlace'
  BY DEF StartedByPlace
<1>9. GroupsKnown'
  BY DEF GroupsKnown
<1> QED
  BY <1>1, <1>2, <1>3, <1>4, <1>5, <1>6, <1>7, <1>8, <1>9

LEMMA SetRunningStep ==
  ASSUME LifeInv, SetRunning
  PROVE  ManagerInv'
<1> USE ReceiversAssumption DEF LifeInv, ManagerInv, SetRunning, Stopping, Result, Free
<1>1. ManagerTypes'
  BY DEF ManagerTypes, ManagerPlaces
<1>2. RunningByPlace'
  BY DEF RunningByPlace
<1>3. InsideByPlace'
  BY DEF InsideByPlace
<1>4. ReceiversByPlace'
  BY DEF ReceiversByPlace
<1>5. ResultsByPlace'
  BY DEF ResultsByPlace
<1>6. PrimaryUp'
  BY DEF PrimaryUp
<1>7. ClientByPlace'
  BY DEF ClientByPlace
<1>8. StartedByPlace'
  BY DEF StartedByPlace
<1>9. GroupsKnown'
  BY DEF GroupsKnown
<1> QED
  BY <1>1, <1>2, <1>3, <1>4, <1>5, <1>6, <1>7, <1>8, <1>9

LEMMA PrimaryResultStep ==
  ASSUME LifeInv, PrimaryResult
  PROVE  ManagerInv'
<1> USE ReceiversAssumption DEF LifeInv, ManagerInv, PrimaryResult, Took, Stopping, Result,
        Free
<1>a. op["primary"].ok \in BOOLEAN
  BY ReceiverType DEF OwnerPlaces
<1>1. ManagerTypes'
  BY <1>a DEF ManagerTypes, ManagerPlaces
<1>2. RunningByPlace'
  BY DEF RunningByPlace
<1>3. InsideByPlace'
  BY DEF InsideByPlace
<1>4. ReceiversByPlace'
  BY DEF ReceiversByPlace, ResultsByPlace
<1>5. ResultsByPlace'
  BY DEF ResultsByPlace
<1>6. PrimaryUp'
  BY DEF PrimaryUp, ResultsByPlace
<1>7. ClientByPlace'
  BY DEF ClientByPlace
<1>8. StartedByPlace'
  BY DEF StartedByPlace, ResultsByPlace
<1>9. GroupsKnown'
  BY DEF GroupsKnown
<1> QED
  BY <1>1, <1>2, <1>3, <1>4, <1>5, <1>6, <1>7, <1>8, <1>9

LEMMA SecondaryResultStep ==
  ASSUME LifeInv, SecondaryResult
  PROVE  ManagerInv'
<1> USE ReceiversAssumption DEF LifeInv, ManagerInv, SecondaryResult, Took, Stopping,
        Result, Free
<1>1. ManagerTypes'
  BY DEF ManagerTypes, ManagerPlaces
<1>2. RunningByPlace'
  BY DEF RunningByPlace
<1>3. InsideByPlace'
  BY DEF InsideByPlace
<1>4. ReceiversByPlace'
  BY DEF ReceiversByPlace
<1>5. ResultsByPlace'
  BY DEF ResultsByPlace
<1>6. PrimaryUp'
  BY DEF PrimaryUp
<1>7. ClientByPlace'
  BY DEF ClientByPlace
<1>8. StartedByPlace'
  BY DEF StartedByPlace, ResultsByPlace
<1>9. GroupsKnown'
  BY DEF GroupsKnown
<1> QED
  BY <1>1, <1>2, <1>3, <1>4, <1>5, <1>6, <1>7, <1>8, <1>9

LEMMA FinishStartStep ==
  ASSUME LifeInv, FinishStart
  PROVE  ManagerInv'
<1> USE ReceiversAssumption DEF LifeInv, ManagerInv, FinishStart, Leftover, Stopping,
        Result, Free
<1>1. ManagerTypes'
  BY WantedGroups DEF ManagerTypes, ManagerPlaces
<1>2. RunningByPlace'
  BY DEF RunningByPlace
<1>3. InsideByPlace'
  BY DEF InsideByPlace
<1>4. ReceiversByPlace'
  BY DEF ReceiversByPlace
<1>5. ResultsByPlace'
  BY DEF ResultsByPlace
<1>6. PrimaryUp'
  BY DEF PrimaryUp
<1>7. ClientByPlace'
  BY DEF ClientByPlace
<1>8. StartedByPlace'
  BY DEF StartedByPlace
<1>9. GroupsKnown'
  BY DEF GroupsKnown
<1> QED
  BY <1>1, <1>2, <1>3, <1>4, <1>5, <1>6, <1>7, <1>8, <1>9

LEMMA ManagerStopStep ==
  ASSUME LifeInv, nm_stop
  PROVE  ManagerInv'
<1> USE ReceiversAssumption DEF LifeInv, ManagerInv, nm_stop, Stopping, Result, Free
<1>1. ManagerTypes'
  BY DEF ManagerTypes, ManagerPlaces
<1>2. RunningByPlace'
  BY DEF RunningByPlace
<1>3. InsideByPlace'
  BY DEF InsideByPlace
<1>4. ReceiversByPlace'
  BY DEF ReceiversByPlace
<1>5. ResultsByPlace'
  BY DEF ResultsByPlace
<1>6. PrimaryUp'
  BY DEF PrimaryUp
<1>7. ClientByPlace'
  BY DEF ClientByPlace
<1>8. StartedByPlace'
  BY DEF StartedByPlace
<1>9. GroupsKnown'
  BY DEF GroupsKnown
<1> QED
  BY <1>1, <1>2, <1>3, <1>4, <1>5, <1>6, <1>7, <1>8, <1>9

LEMMA StopClientStep ==
  ASSUME LifeInv, StopClient
  PROVE  ManagerInv'
<1> USE ReceiversAssumption DEF LifeInv, ManagerInv, StopClient, Stopping, Result, Free
<1>1. ManagerTypes'
  BY DEF ManagerTypes, ManagerPlaces
<1>2. RunningByPlace'
  BY DEF RunningByPlace
<1>3. InsideByPlace'
  BY DEF InsideByPlace
<1>4. ReceiversByPlace'
  BY DEF ReceiversByPlace
<1>5. ResultsByPlace'
  BY DEF ResultsByPlace
<1>6. PrimaryUp'
  BY DEF PrimaryUp, RunningByPlace
<1>7. ClientByPlace'
  BY DEF ClientByPlace, RunningByPlace
<1>8. StartedByPlace'
  BY DEF StartedByPlace
<1>9. GroupsKnown'
  BY DEF GroupsKnown
<1> QED
  BY <1>1, <1>2, <1>3, <1>4, <1>5, <1>6, <1>7, <1>8, <1>9

\* A step that does not touch the receivers.
LEMMA RxUnchanged ==
  ASSUME RxInv, UNCHANGED <<rx, op>>
  PROVE  RxInv' /\ KeepsThreads
<1>1. RxInv'
  BY DEF RxInv, RxTypeOK
<1>2. \A r \in Receivers : Kept(rx[r], rx[r])
  BY KeptSame DEF RxInv, Sound
<1> QED
  BY <1>1, <1>2 DEF KeepsThreads

LEMMA StartPrimaryStep ==
  ASSUME LifeInv, StartPrimary
  PROVE  LifeInv' /\ KeepsThreads
<1> USE ReceiversAssumption DEF LifeInv, ManagerInv, Stopping, Result, Free
<1>1. CASE rx["primary"].built
  <2>1. /\ start("primary")
        /\ mgr' = "primary_result" /\ UNCHANGED <<running, config, client, started, leftover>>
    BY <1>1 DEF StartPrimary
  <2>2. RxInv' /\ KeepsThreads
    BY <2>1, StartStep
  <2>3. /\ LeavesRest("primary") /\ rx'["primary"].subs = rx["primary"].subs
        /\ op["primary"].call = "none"
        /\ \/ /\ op'["primary"].call = "none" /\ op'["primary"].ok = rx'["primary"].running
              /\ rx'["primary"].running = rx["primary"].running
           \/ op'["primary"].call = "start" /\ rx'["primary"].running
    BY <2>1, StartEffect
  <2>4. ManagerTypes'
    BY <2>1, <2>3 DEF ManagerTypes, ManagerPlaces, LeavesRest, StartPrimary
  <2>5. RunningByPlace'
    BY <2>1, <2>3 DEF RunningByPlace, LeavesRest, StartPrimary
  <2>6. InsideByPlace'
    BY <2>1, <2>3 DEF InsideByPlace, LeavesRest, StartPrimary
  <2>7. ReceiversByPlace'
    BY <2>1, <2>3 DEF ReceiversByPlace, RunningByPlace, LeavesRest, StartPrimary
  <2>8. ResultsByPlace'
    BY <2>1, <2>3 DEF ResultsByPlace, LeavesRest, StartPrimary
  <2>9. PrimaryUp'
    BY <2>1, <2>3 DEF PrimaryUp, LeavesRest, StartPrimary
  <2>10. ClientByPlace'
    BY <2>1, <2>3 DEF ClientByPlace, LeavesRest, StartPrimary
  <2>11. StartedByPlace'
    BY <2>1, <2>3 DEF StartedByPlace, ManagerTypes, LeavesRest, StartPrimary
  <2>12. GroupsKnown'
    BY <2>1, <2>3 DEF GroupsKnown, LeavesRest, StartPrimary
  <2> QED
    BY <2>2, <2>4, <2>5, <2>6, <2>7, <2>8, <2>9, <2>10, <2>11, <2>12
<1>2. CASE ~ (rx["primary"].built)
  <2>1. mgr' = "start_secondary" /\ UNCHANGED <<rx, op, running, config, client, started, leftover>>
    BY <1>2 DEF StartPrimary, rxvars
  <2>2. RxInv' /\ KeepsThreads
    BY <2>1, RxUnchanged
  <2>3. ManagerTypes'
    BY <1>2, <2>1 DEF ManagerTypes, ManagerPlaces, StartPrimary
  <2>4. RunningByPlace'
    BY <1>2, <2>1 DEF RunningByPlace, StartPrimary
  <2>5. InsideByPlace'
    BY <1>2, <2>1 DEF InsideByPlace, StartPrimary
  <2>6. ReceiversByPlace'
    BY <1>2, <2>1 DEF ReceiversByPlace, RunningByPlace, StartPrimary
  <2>7. ResultsByPlace'
    BY <1>2, <2>1 DEF ResultsByPlace, StartPrimary
  <2>8. PrimaryUp'
    BY <1>2, <2>1 DEF PrimaryUp, StartPrimary
  <2>9. ClientByPlace'
    BY <1>2, <2>1 DEF ClientByPlace, StartPrimary
  <2>10. StartedByPlace'
    BY <1>2, <2>1 DEF StartedByPlace, ManagerTypes, StartPrimary
  <2>11. GroupsKnown'
    BY <1>2, <2>1 DEF GroupsKnown, StartPrimary
  <2> QED
    BY <2>2, <2>3, <2>4, <2>5, <2>6, <2>7, <2>8, <2>9, <2>10, <2>11
<1> QED
  BY <1>1, <1>2

LEMMA StartSecondaryStep ==
  ASSUME LifeInv, StartSecondary
  PROVE  LifeInv' /\ KeepsThreads
<1> USE ReceiversAssumption DEF LifeInv, ManagerInv, Stopping, Result, Free
<1>1. CASE running /\ rx["secondary"].built
  <2>1. /\ start("secondary")
        /\ mgr' = "secondary_result" /\ UNCHANGED <<running, config, client, started, leftover>>
    BY <1>1 DEF StartSecondary
  <2>2. RxInv' /\ KeepsThreads
    BY <2>1, StartStep
  <2>3. /\ LeavesRest("secondary") /\ rx'["secondary"].subs = rx["secondary"].subs
        /\ op["secondary"].call = "none"
        /\ \/ /\ op'["secondary"].call = "none" /\ op'["secondary"].ok = rx'["secondary"].running
              /\ rx'["secondary"].running = rx["secondary"].running
           \/ op'["secondary"].call = "start" /\ rx'["secondary"].running
    BY <2>1, StartEffect
  <2>4. ManagerTypes'
    BY <2>1, <2>3 DEF ManagerTypes, ManagerPlaces, LeavesRest, StartSecondary
  <2>5. RunningByPlace'
    BY <2>1, <2>3, <1>1 DEF RunningByPlace, LeavesRest, StartSecondary
  <2>6. InsideByPlace'
    BY <2>1, <2>3 DEF InsideByPlace, LeavesRest, StartSecondary
  <2>7. ReceiversByPlace'
    BY <2>1, <2>3, <1>1 DEF ReceiversByPlace, LeavesRest, StartSecondary
  <2>8. ResultsByPlace'
    BY <2>1, <2>3 DEF ResultsByPlace, LeavesRest, StartSecondary
  <2>9. PrimaryUp'
    BY <2>1, <2>3 DEF PrimaryUp, LeavesRest, StartSecondary
  <2>10. ClientByPlace'
    BY <2>1, <2>3 DEF ClientByPlace, LeavesRest, StartSecondary
  <2>11. StartedByPlace'
    BY <2>1, <2>3 DEF StartedByPlace, ManagerTypes, LeavesRest, StartSecondary
  <2>12. GroupsKnown'
    BY <2>1, <2>3 DEF GroupsKnown, LeavesRest, StartSecondary
  <2> QED
    BY <2>2, <2>4, <2>5, <2>6, <2>7, <2>8, <2>9, <2>10, <2>11, <2>12
<1>2. CASE ~ (running /\ rx["secondary"].built)
  <2>1. mgr' = "finish" /\ UNCHANGED <<rx, op, running, config, client, started, leftover>>
    BY <1>2 DEF StartSecondary, rxvars
  <2>2. RxInv' /\ KeepsThreads
    BY <2>1, RxUnchanged
  <2>3. ManagerTypes'
    BY <1>2, <2>1 DEF ManagerTypes, ManagerPlaces, StartSecondary
  <2>4. RunningByPlace'
    BY <1>2, <2>1 DEF RunningByPlace, StartSecondary
  <2>5. InsideByPlace'
    BY <1>2, <2>1 DEF InsideByPlace, StartSecondary
  <2>6. ReceiversByPlace'
    BY <1>2, <2>1 DEF ReceiversByPlace, StartSecondary
  <2>7. ResultsByPlace'
    BY <1>2, <2>1 DEF ResultsByPlace, StartSecondary
  <2>8. PrimaryUp'
    BY <1>2, <2>1 DEF PrimaryUp, StartSecondary
  <2>9. ClientByPlace'
    BY <1>2, <2>1 DEF ClientByPlace, StartSecondary
  <2>10. StartedByPlace'
    BY <1>2, <2>1 DEF StartedByPlace, ManagerTypes, StartSecondary
  <2>11. GroupsKnown'
    BY <1>2, <2>1 DEF GroupsKnown, StartSecondary
  <2> QED
    BY <2>2, <2>3, <2>4, <2>5, <2>6, <2>7, <2>8, <2>9, <2>10, <2>11
<1> QED
  BY <1>1, <1>2

LEMMA StopPrimaryStep ==
  ASSUME LifeInv, StopPrimary
  PROVE  LifeInv' /\ KeepsThreads
<1> USE ReceiversAssumption DEF LifeInv, ManagerInv, Stopping, Result, Free
<1>1. CASE rx["primary"].built
  <2>1. /\ stop("primary")
        /\ mgr' = "stop_secondary" /\ UNCHANGED <<running, config, client, started, leftover>>
    BY <1>1 DEF StopPrimary, StopReceiver
  <2>2. RxInv' /\ KeepsThreads
    BY <2>1, StopStep
  <2>3. /\ LeavesRest("primary") /\ rx'["primary"].subs = rx["primary"].subs
        /\ op["primary"].call = "none" /\ ~ rx'["primary"].running
        /\ op'["primary"].call = IF rx["primary"].running THEN "stop" ELSE "none"
    BY <2>1, StopEffect
  <2>4. ManagerTypes'
    BY <2>1, <2>3 DEF ManagerTypes, ManagerPlaces, LeavesRest, StopPrimary, StopReceiver
  <2>5. RunningByPlace'
    BY <2>1, <2>3 DEF RunningByPlace, LeavesRest, StopPrimary, StopReceiver
  <2>6. InsideByPlace'
    BY <2>1, <2>3 DEF InsideByPlace, LeavesRest, StopPrimary, StopReceiver
  <2>7. ReceiversByPlace'
    BY <2>1, <2>3 DEF ReceiversByPlace, LeavesRest, StopPrimary, StopReceiver
  <2>8. ResultsByPlace'
    BY <2>1, <2>3 DEF ResultsByPlace, LeavesRest, StopPrimary, StopReceiver
  <2>9. PrimaryUp'
    BY <2>1, <2>3 DEF PrimaryUp, LeavesRest, StopPrimary, StopReceiver
  <2>10. ClientByPlace'
    BY <2>1, <2>3 DEF ClientByPlace, LeavesRest, StopPrimary, StopReceiver
  <2>11. StartedByPlace'
    BY <2>1, <2>3 DEF StartedByPlace, ManagerTypes, LeavesRest, StopPrimary, StopReceiver
  <2>12. GroupsKnown'
    BY <2>1, <2>3 DEF GroupsKnown, LeavesRest, StopPrimary, StopReceiver
  <2> QED
    BY <2>2, <2>4, <2>5, <2>6, <2>7, <2>8, <2>9, <2>10, <2>11, <2>12
<1>2. CASE ~ (rx["primary"].built)
  <2>1. mgr' = "stop_secondary" /\ UNCHANGED <<rx, op, running, config, client, started, leftover>>
    BY <1>2 DEF StopPrimary, StopReceiver, rxvars
  <2>2. RxInv' /\ KeepsThreads
    BY <2>1, RxUnchanged
  <2>3. ManagerTypes'
    BY <1>2, <2>1 DEF ManagerTypes, ManagerPlaces, StopPrimary, StopReceiver
  <2>4. RunningByPlace'
    BY <1>2, <2>1 DEF RunningByPlace, StopPrimary, StopReceiver
  <2>5. InsideByPlace'
    BY <1>2, <2>1 DEF InsideByPlace, StopPrimary, StopReceiver
  <2>6. ReceiversByPlace'
    BY <1>2, <2>1 DEF ReceiversByPlace, RxInv, Sound, NothingUnbuilt, StopPrimary, StopReceiver
  <2>7. ResultsByPlace'
    BY <1>2, <2>1 DEF ResultsByPlace, StopPrimary, StopReceiver
  <2>8. PrimaryUp'
    BY <1>2, <2>1 DEF PrimaryUp, StopPrimary, StopReceiver
  <2>9. ClientByPlace'
    BY <1>2, <2>1 DEF ClientByPlace, StopPrimary, StopReceiver
  <2>10. StartedByPlace'
    BY <1>2, <2>1 DEF StartedByPlace, ManagerTypes, StopPrimary, StopReceiver
  <2>11. GroupsKnown'
    BY <1>2, <2>1 DEF GroupsKnown, StopPrimary, StopReceiver
  <2> QED
    BY <2>2, <2>3, <2>4, <2>5, <2>6, <2>7, <2>8, <2>9, <2>10, <2>11
<1> QED
  BY <1>1, <1>2

LEMMA StopSecondaryStep ==
  ASSUME LifeInv, StopSecondary
  PROVE  LifeInv' /\ KeepsThreads
<1> USE ReceiversAssumption DEF LifeInv, ManagerInv, Stopping, Result, Free
<1>1. CASE rx["secondary"].built
  <2>1. /\ stop("secondary")
        /\ mgr' = "stop_client" /\ UNCHANGED <<running, config, client, started, leftover>>
    BY <1>1 DEF StopSecondary, StopReceiver
  <2>2. RxInv' /\ KeepsThreads
    BY <2>1, StopStep
  <2>3. /\ LeavesRest("secondary") /\ rx'["secondary"].subs = rx["secondary"].subs
        /\ op["secondary"].call = "none" /\ ~ rx'["secondary"].running
        /\ op'["secondary"].call = IF rx["secondary"].running THEN "stop" ELSE "none"
    BY <2>1, StopEffect
  <2>4. ManagerTypes'
    BY <2>1, <2>3 DEF ManagerTypes, ManagerPlaces, LeavesRest, StopSecondary, StopReceiver
  <2>5. RunningByPlace'
    BY <2>1, <2>3 DEF RunningByPlace, LeavesRest, StopSecondary, StopReceiver
  <2>6. InsideByPlace'
    BY <2>1, <2>3 DEF InsideByPlace, LeavesRest, StopSecondary, StopReceiver
  <2>7. ReceiversByPlace'
    BY <2>1, <2>3 DEF ReceiversByPlace, LeavesRest, StopSecondary, StopReceiver
  <2>8. ResultsByPlace'
    BY <2>1, <2>3 DEF ResultsByPlace, LeavesRest, StopSecondary, StopReceiver
  <2>9. PrimaryUp'
    BY <2>1, <2>3 DEF PrimaryUp, LeavesRest, StopSecondary, StopReceiver
  <2>10. ClientByPlace'
    BY <2>1, <2>3 DEF ClientByPlace, LeavesRest, StopSecondary, StopReceiver
  <2>11. StartedByPlace'
    BY <2>1, <2>3 DEF StartedByPlace, ManagerTypes, LeavesRest, StopSecondary, StopReceiver
  <2>12. GroupsKnown'
    BY <2>1, <2>3 DEF GroupsKnown, LeavesRest, StopSecondary, StopReceiver
  <2> QED
    BY <2>2, <2>4, <2>5, <2>6, <2>7, <2>8, <2>9, <2>10, <2>11, <2>12
<1>2. CASE ~ (rx["secondary"].built)
  <2>1. mgr' = "stop_client" /\ UNCHANGED <<rx, op, running, config, client, started, leftover>>
    BY <1>2 DEF StopSecondary, StopReceiver, rxvars
  <2>2. RxInv' /\ KeepsThreads
    BY <2>1, RxUnchanged
  <2>3. ManagerTypes'
    BY <1>2, <2>1 DEF ManagerTypes, ManagerPlaces, StopSecondary, StopReceiver
  <2>4. RunningByPlace'
    BY <1>2, <2>1 DEF RunningByPlace, StopSecondary, StopReceiver
  <2>5. InsideByPlace'
    BY <1>2, <2>1 DEF InsideByPlace, StopSecondary, StopReceiver
  <2>6. ReceiversByPlace'
    BY <1>2, <2>1 DEF ReceiversByPlace, RxInv, Sound, NothingUnbuilt, StopSecondary, StopReceiver
  <2>7. ResultsByPlace'
    BY <1>2, <2>1 DEF ResultsByPlace, StopSecondary, StopReceiver
  <2>8. PrimaryUp'
    BY <1>2, <2>1 DEF PrimaryUp, StopSecondary, StopReceiver
  <2>9. ClientByPlace'
    BY <1>2, <2>1 DEF ClientByPlace, StopSecondary, StopReceiver
  <2>10. StartedByPlace'
    BY <1>2, <2>1 DEF StartedByPlace, ManagerTypes, StopSecondary, StopReceiver
  <2>11. GroupsKnown'
    BY <1>2, <2>1 DEF GroupsKnown, StopSecondary, StopReceiver
  <2> QED
    BY <2>2, <2>3, <2>4, <2>5, <2>6, <2>7, <2>8, <2>9, <2>10, <2>11
<1> QED
  BY <1>1, <1>2

\* A step inside a receiver, by the application in start() or stop() or by one of
\* the receiver's threads.
LEMMA InnerStep ==
  ASSUME LifeInv, NEW r \in Receivers, ReceiverStep(r), UNCHANGED nmvars
  PROVE  LifeInv' /\ KeepsThreads
<1> USE ReceiversAssumption DEF LifeInv, ManagerInv, Stopping, Result, Free, nmvars
<1>1. RxInv' /\ KeepsThreads
  BY ReceiverSteps
<1>2. LeavesRest(r) /\ OwnerEffect(r)
  BY ReceiverStepEffect
<1>3. op[r].call \in {"none", "start", "stop", "join"}
  BY ReceiverType DEF OwnerPlaces
<1>4. ManagerTypes' /\ RunningByPlace' /\ ClientByPlace'
  BY DEF ManagerTypes, RunningByPlace, ClientByPlace
<1>5. InsideByPlace'
  BY <1>2, <1>3 DEF InsideByPlace, LeavesRest, OwnerEffect
<1>6. ReceiversByPlace'
  BY <1>2, <1>3 DEF ReceiversByPlace, InsideByPlace, RunningByPlace, LeavesRest, OwnerEffect
<1>7. ResultsByPlace'
  BY <1>2, <1>3 DEF ResultsByPlace, InsideByPlace, LeavesRest, OwnerEffect
<1>8. PrimaryUp'
  BY <1>2, <1>3 DEF PrimaryUp, InsideByPlace, LeavesRest, OwnerEffect
<1>9. StartedByPlace'
  BY <1>2, <1>3 DEF StartedByPlace, ManagerTypes, InsideByPlace, LeavesRest, OwnerEffect
<1>10. GroupsKnown'
  BY <1>2 DEF GroupsKnown, LeavesRest
<1> QED
  BY <1>1, <1>4, <1>5, <1>6, <1>7, <1>8, <1>9, <1>10

\* configure_and_start replaces only receivers that do not run.
LEMMA ConfigureStep ==
  ASSUME LifeInv, NEW c \in Configurations, configure_and_start(c)
  PROVE  LifeInv' /\ KeepsThreads
<1> USE ReceiversAssumption DEF LifeInv, ManagerInv, Stopping, Result, Free
<1> DEFINE g(r) == CHOOSE g \in Wanted(c, r) : TRUE
           n(r) == IF Wanted(c, r) = {} THEN rx[r] ELSE Subscribed(Constructed, g(r))
<1>1. /\ mgr = "idle" /\ ~ running /\ config' = c /\ started' = {} /\ mgr' = "connect"
      /\ UNCHANGED <<running, client, leftover>>
      /\ rx' = [r \in Receivers |-> n(r)]
      /\ op' = [r \in Receivers |-> Returned(FALSE)]
  BY DEF configure_and_start
<1>2. c \in Configs
  BY ConfigurationsAssumption DEF Configs
<1>3. \A r \in Receivers : /\ rx[r] \in Objects /\ Len(rx[r].subs) <= MaxSubs
                           /\ Sound(rx[r], op[r])
                           /\ op[r].call \in {"none", "start", "stop", "join"}
  BY ReceiverType DEF OwnerPlaces
<1>4. \A r \in Receivers : op[r].call = "none" /\ ~ rx[r].running
  BY <1>1, <1>3 DEF InsideByPlace, ReceiversByPlace
<1>5. Constructed \in Objects /\ Sound(Constructed, Returned(FALSE))
  BY EmptySeq DEF Constructed, Returned, Objects, Sound, AllPaired, QuietByPlace, Heard,
     NothingUnbuilt
<1>6. /\ Constructed.subs = <<>> /\ Len(Constructed.subs) = 0
      /\ Constructed.built /\ ~ Constructed.running
  BY EmptySeq DEF Constructed
<1>7. \A r \in Receivers : Wanted(c, r) # {} =>
        g(r) \in Wanted(c, r) /\ g(r) \in Groups
  BY <1>2, WantedGroups
<1>8. ASSUME NEW r \in Receivers, Wanted(c, r) # {}
      PROVE  LET o == Subscribed(Constructed, g(r))
             IN  /\ o \in Objects /\ Len(o.subs) = 1 /\ Sound(o, Returned(FALSE))
                 /\ o.built /\ ~ o.running
                 /\ \A i \in DOMAIN o.subs : o.subs[i].group = g(r)
  <2> HIDE DEF g
  <2>1. /\ Subscribed(Constructed, g(r)) \in Objects
        /\ Len(Subscribed(Constructed, g(r)).subs) = 0 + 1
        /\ Sound(Subscribed(Constructed, g(r)), Returned(FALSE))
        /\ Subscribed(Constructed, g(r)).built /\ ~ Subscribed(Constructed, g(r)).running
    BY <1>5, <1>6, <1>7, <1>8, SubscribedSound
  <2> DEFINE s == [group |-> g(r), fd |-> "closed", flag |-> FALSE, thread |-> "none"]
  <2>2. Subscribed(Constructed, g(r)).subs = Append(<<>>, s)
    BY <1>5, <1>6 DEF Subscribed, Objects
  <2>3. s.group = g(r)
    OBVIOUS
  <2> HIDE DEF s
  <2>4. \A i \in DOMAIN Append(<<>>, s) : Append(<<>>, s)[i] = s
    OBVIOUS
  <2>5. Len(Subscribed(Constructed, g(r)).subs) = 1
    BY <2>1
  <2>6. \A i \in DOMAIN Subscribed(Constructed, g(r)).subs :
          Subscribed(Constructed, g(r)).subs[i].group = g(r)
    BY <2>2, <2>3, <2>4
  <2> QED
    BY <2>1, <2>5, <2>6, Zenon
<1> HIDE DEF g
<1>9. \A r \in Receivers :
        /\ n(r) \in Objects /\ Len(n(r).subs) <= MaxSubs /\ Sound(n(r), Returned(FALSE))
        /\ ~ n(r).running /\ (Wanted(c, r) # {} => n(r).built)
        /\ \A i \in DOMAIN n(r).subs :
             \/ n(r).subs[i].group \in Wanted(c, r)
             \/ n(r) = rx[r]
  <2> SUFFICES ASSUME NEW r \in Receivers
               PROVE  /\ n(r) \in Objects /\ Len(n(r).subs) <= MaxSubs
                      /\ Sound(n(r), Returned(FALSE))
                      /\ ~ n(r).running /\ (Wanted(c, r) # {} => n(r).built)
                      /\ \A i \in DOMAIN n(r).subs :
                           \/ n(r).subs[i].group \in Wanted(c, r)
                           \/ n(r) = rx[r]
    OBVIOUS
  <2>1. CASE Wanted(c, r) = {}
    <3>1. n(r) = rx[r]
      BY <2>1
    <3>2. Sound(rx[r], Returned(FALSE))
      BY <1>3, <1>4 DEF Sound, QuietByPlace, Heard, Returned
    <3> QED
      BY <1>3, <1>4, <2>1, <3>1, <3>2
  <2>2. CASE Wanted(c, r) # {}
    <3> DEFINE o == Subscribed(Constructed, g(r))
    <3>1. n(r) = o
      BY <2>2
    <3>2. /\ o \in Objects /\ Len(o.subs) = 1 /\ Sound(o, Returned(FALSE))
          /\ o.built /\ ~ o.running
          /\ \A i \in DOMAIN o.subs : o.subs[i].group \in Wanted(c, r)
      BY <1>7, <1>8, <2>2, Zenon
    <3>3. Len(o.subs) <= MaxSubs
      BY <3>2
    <3> HIDE DEF o, n
    <3> QED
      BY <3>1, <3>2, <3>3, Zenon
  <2> QED
    BY <2>1, <2>2
<1> HIDE DEF n
<1>10. \A r \in Receivers : rx'[r] = n(r) /\ op'[r] = Returned(FALSE)
  BY <1>1
<1>11. RxInv'
  <2>1. Returned(FALSE) \in OwnerPlaces
    BY DEF Returned, OwnerPlaces
  <2>2. rx' \in [Receivers -> Objects] /\ op' \in [Receivers -> OwnerPlaces]
    BY <1>1, <1>9, <2>1
  <2> QED
    BY <1>9, <1>10, <2>2 DEF RxInv, RxTypeOK, Objects, OwnerPlaces
<1>12. KeepsThreads
  BY <1>3, <1>4 DEF KeepsThreads, Kept, Sound, QuietByPlace
<1>13. \A r \in Receivers : op'[r].call = "none" /\ ~ rx'[r].running
  BY <1>9, <1>10 DEF Returned
<1>14. ManagerTypes' /\ RunningByPlace'
  BY <1>1, <1>2 DEF ManagerTypes, ManagerPlaces, RunningByPlace
<1>15. InsideByPlace' /\ ReceiversByPlace' /\ ResultsByPlace'
  BY <1>1, <1>13 DEF InsideByPlace, ReceiversByPlace, ResultsByPlace
<1>16. PrimaryUp'
  <2>1. c.feeds # <<>> => Wanted(c, "primary") # {}
    BY <1>2, LenProperties DEF Configs, Wanted
  <2> QED
    BY <1>1, <1>9, <1>10, <2>1 DEF PrimaryUp
<1>17. ClientByPlace' /\ StartedByPlace'
  BY <1>1 DEF ClientByPlace, StartedByPlace
<1>18. GroupsKnown'
  <2>1. \A r \in Receivers : \A i \in DOMAIN rx[r].subs : rx[r].subs[i].group \in leftover
    BY <1>1, <1>4 DEF GroupsKnown, StartedByPlace
  <2> QED
    BY <1>1, <1>9, <1>10, <2>1 DEF GroupsKnown
<1> QED
  BY <1>11, <1>12, <1>14, <1>15, <1>16, <1>17, <1>18

-----------------------------------------------------------------------------
(* The manager: theorems *)

LEMMA Initially == Init => LifeInv
<1> SUFFICES ASSUME Init PROVE LifeInv
  OBVIOUS
<1>1. RxInv
  BY RxInitially DEF Init
<1>2. \A r \in Receivers :
        /\ ~ rx[r].running /\ rx[r].subs = <<>> /\ op[r].call = "none"
  BY DEF Init, RxInit, NoReceiver, Returned
<1>3. ManagerTypes
  BY EmptySeq DEF Init, ManagerTypes, ManagerPlaces, Configs
<1>4. RunningByPlace /\ InsideByPlace /\ ReceiversByPlace /\ ResultsByPlace
  BY <1>2, ReceiversAssumption DEF Init, RunningByPlace, InsideByPlace, ReceiversByPlace,
     ResultsByPlace, Stopping
<1>5. PrimaryUp /\ ClientByPlace
  BY DEF Init, PrimaryUp, ClientByPlace
<1>6. StartedByPlace /\ GroupsKnown
  BY <1>2 DEF Init, StartedByPlace, GroupsKnown
<1> QED
  BY <1>1, <1>3, <1>4, <1>5, <1>6 DEF LifeInv, ManagerInv

\* The steps of the application inside configure_and_start and stop.
LEMMA ManagerSteps ==
  ASSUME LifeInv, ManagerStep
  PROVE  LifeInv' /\ KeepsThreads
<1>1. CASE ConnectClient \/ SetRunning \/ PrimaryResult \/ SecondaryResult
           \/ FinishStart \/ StopClient
  <2>1. ManagerInv'
    BY <1>1, ConnectClientStep, SetRunningStep, PrimaryResultStep, SecondaryResultStep,
       FinishStartStep, StopClientStep
  <2>2. UNCHANGED <<rx, op>>
    BY <1>1 DEF ConnectClient, SetRunning, PrimaryResult, SecondaryResult, FinishStart,
       StopClient
  <2> QED
    BY <2>1, <2>2, RxUnchanged DEF LifeInv
<1>2. CASE StartPrimary \/ StartSecondary \/ StopPrimary \/ StopSecondary
  BY <1>2, StartPrimaryStep, StartSecondaryStep, StopPrimaryStep, StopSecondaryStep
<1> QED
  BY <1>1, <1>2 DEF ManagerStep

LEMMA Steps == LifeInv /\ [Next]_vars => LifeInv' /\ [KeepsThreads]_rxvars
<1> SUFFICES ASSUME LifeInv, [Next]_vars PROVE LifeInv' /\ [KeepsThreads]_rxvars
  OBVIOUS
<1>1. CASE UNCHANGED vars
  <2>1. UNCHANGED <<rx, op>> /\ UNCHANGED rxvars
    BY <1>1 DEF vars, rxvars
  <2>2. RxInv'
    BY <2>1, RxUnchanged DEF LifeInv
  <2>3. ManagerInv'
    BY <1>1 DEF vars, LifeInv, ManagerInv, ManagerTypes, RunningByPlace, InsideByPlace,
       ReceiversByPlace, ResultsByPlace, PrimaryUp, ClientByPlace, StartedByPlace,
       GroupsKnown, Stopping, Free
  <2> QED
    BY <2>1, <2>2, <2>3 DEF LifeInv
<1>2. CASE Next
  <2>1. CASE \E c \in Configurations : configure_and_start(c)
    BY <2>1, ConfigureStep
  <2>2. CASE nm_stop
    <3>1. ManagerInv' /\ UNCHANGED <<rx, op>>
      BY <2>2, ManagerStopStep DEF nm_stop
    <3> QED
      BY <3>1, RxUnchanged DEF LifeInv
  <2>3. CASE ManagerStep
    BY <2>3, ManagerSteps
  <2>4. CASE \E r \in Receivers : ReceiverStep(r) /\ UNCHANGED nmvars
    BY <2>4, InnerStep
  <2> QED
    BY <1>2, <2>1, <2>2, <2>3, <2>4 DEF Next
<1> QED
  BY <1>1, <1>2

\* Where a thread is, its receiver runs or its owner is inside one of its methods.
LEMMA AliveByPlace ==
  ASSUME LifeInv, NEW r \in Receivers, NEW i \in DOMAIN rx[r].subs, Alive(rx[r].subs[i])
  PROVE  running \/ Stopping
<1>1. rx[r].running \/ op[r].call \in {"start", "stop", "join"}
  BY ReceiverType DEF LifeInv, Sound, QuietByPlace, Quiet, OwnerPlaces
<1> QED
  BY <1>1, ReceiversAssumption DEF LifeInv, ManagerInv, ReceiversByPlace, InsideByPlace,
     RunningByPlace, Stopping

\* What the properties of the manager say of a state in which LifeInv holds.
LEMMA LifeInvImplies ==
  LifeInv => /\ TypeOK /\ NoSessionNothingRuns /\ SessionHears /\ FeedsHeard
             /\ ConfiguredFeedsOnly
<1> SUFFICES ASSUME LifeInv
             PROVE  /\ TypeOK /\ NoSessionNothingRuns /\ SessionHears /\ FeedsHeard
                    /\ ConfiguredFeedsOnly
  OBVIOUS
<1>1. TypeOK
  BY DEF LifeInv, ManagerInv, ManagerTypes, Configs, RxInv, TypeOK
<1>2. NoSessionNothingRuns
  BY ReceiversAssumption DEF LifeInv, ManagerInv, ReceiversByPlace, ClientByPlace,
     NoSessionNothingRuns
<1>3. SessionHears
  <2> SUFFICES ASSUME mgr = "idle", running
               PROVE  /\ config.server => client = "running"
                      /\ config.feeds # <<>> =>
                           \E i \in DOMAIN rx["primary"].subs :
                             rx["primary"].subs[i].thread \in {"check", "recv", "callback"}
    BY DEF SessionHears
  <2>1. config.server => client = "running"
    BY DEF LifeInv, ManagerInv, ManagerTypes, ClientByPlace, Stopping
  <2>2. ASSUME config.feeds # <<>>
        PROVE  rx["primary"].running
    BY <2>2 DEF LifeInv, ManagerInv, PrimaryUp, Result
  <2>3. Free("primary")
    BY ReceiverType, ReceiversAssumption
       DEF LifeInv, ManagerInv, InsideByPlace, OwnerPlaces, Free
  <2> QED
    BY <2>1, <2>2, <2>3, RxInvImplies, ReceiversAssumption
       DEF LifeInv, StartedHears, InLoop
<1>4. FeedsHeard
  BY AliveByPlace DEF FeedsHeard
<1>5. ConfiguredFeedsOnly
  BY DEF LifeInv, ManagerInv, GroupsKnown, ConfiguredFeedsOnly
<1> QED
  BY <1>1, <1>2, <1>3, <1>4, <1>5

\* LifeInv holds of every session, for all groups and configurations.
THEOREM LifeCorrect == Spec => []LifeInv
BY Initially, Steps, PTL DEF Spec

\* The variables have their types, and a receiver of the manager never has more than
\* the one subscription that configure_and_start gives it.
THEOREM LifeTypeCorrect == Spec => []TypeOK
BY LifeCorrect, LifeInvImplies, PTL

\* After stop() and after a configure_and_start that returned false, neither a
\* receiver nor the client runs.
THEOREM LifeNoSessionNothingRuns == Spec => []NoSessionNothingRuns
BY LifeCorrect, LifeInvImplies, PTL

\* A manager that says it runs has the thread of its primary feed in its loop, and
\* its client if there is a server.
THEOREM LifeSessionHears == Spec => []SessionHears
BY LifeCorrect, LifeInvImplies, PTL

\* While a receiver's thread exists, process_incoming_packet takes what it brings,
\* unless the manager is being stopped.
THEOREM LifeFeedsHeard == Spec => []FeedsHeard
BY LifeCorrect, LifeInvImplies, PTL

\* A thread listens only to groups of the configuration, or to one whose receiver
\* could not be started earlier.
THEOREM LifeConfiguredFeedsOnly == Spec => []ConfiguredFeedsOnly
BY LifeCorrect, LifeInvImplies, PTL

\* What the receivers promise they also promise to this owner: no thread and no
\* socket is left behind, and no thread is on a closed socket.
THEOREM LifeReceivers == Spec => [](NothingLeftBehind /\ ThreadsHaveSockets)
<1>1. LifeInv => NothingLeftBehind /\ ThreadsHaveSockets
  BY RxInvImplies DEF LifeInv
<1> QED
  BY <1>1, LifeCorrect, PTL

\* configure_and_start replaces, and stop() clears, only receivers whose threads
\* were joined.
THEOREM LifeJoinedBeforeGone == Spec => JoinedBeforeGone
<1>1. LifeInv /\ [Next]_vars => [KeepsThreads]_rxvars
  BY Steps
<1> QED
  BY <1>1, LifeCorrect, PTL DEF Spec, JoinedBeforeGone, KeepsThreads, Kept

=============================================================================
