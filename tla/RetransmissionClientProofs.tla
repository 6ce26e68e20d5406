--------------------- MODULE RetransmissionClientProofs ---------------------
(***************************************************************************)
(* The retransmission client for any number of connections, requests and   *)
(* messages of the server.                                                 *)
(***************************************************************************)
EXTENDS RetransmissionClient, SequenceTheorems, TLAPS

Sendings == {"020", "101", "105"} \X Nat

\* The server's side of a connection.
Conns == [up : BOOLEAN, got : Seq(Sendings), out : Seq(Halves),
          said : {"nothing", "welcome", "dismissed"}]

\* A connection that connect() has not made yet.
NewConn == [up |-> FALSE, got |-> << >>, out |-> << >>, said |-> "nothing"]

LoopPlaces == {"ended", "top", "connect", "connecting", "login", "recv", "blocked", "handle"}
ReqPlaces == [at : {"idle", "load", "store", "send", "flags"}, num : Nat]

-----------------------------------------------------------------------------
(* The inductive invariant *)

Types ==
  /\ running \in BOOLEAN /\ connected \in BOOLEAN /\ logged_in \in BOOLEAN
  /\ timed \in BOOLEAN /\ torn \in BOOLEAN /\ meddled \in BOOLEAN
  /\ client_msg_seq_num \in Nat
  /\ buffer \in Seq(Halves)
  /\ loop \in LoopPlaces
  /\ app \in {"idle", "close", "clear", "join"}
  /\ req \in [Requesters -> ReqPlaces]
  /\ fate \in {"live", "terminated"}
  /\ conns \in Seq(Conns) /\ Len(conns) <= MaxConns
  /\ sent \in 0..MaxSent /\ asked \in 0..MaxAsked

\* socket_fd_ is the last connection, whatever else is open.
SocketKnown ==
  /\ socket_fd = NoFd \/ (socket_fd = Len(conns) /\ Len(conns) >= 1)
  /\ open \subseteq 1..Len(conns)

\* The connection that the client has, if it has one.
Current == conns[socket_fd]
HasSocket == socket_fd # NoFd

\* What is known of the flags and of the connection by the place of client_thread_.
ByPlace ==
  /\ loop = "connect" => ~ connected \/ ~ HasSocket
  /\ loop = "connecting" => ~ connected /\ (HasSocket => Current = NewConn)
  /\ loop \in {"connecting", "login"} => ~ logged_in
  /\ loop = "login" /\ HasSocket =>
       /\ Current.said = "nothing"
       /\ \A i \in DOMAIN Current.got : Current.got[i][1] # "020"

\* Between stop() and start() there is no thread and no connection.
Stopped == app = "idle" /\ ~ running => loop = "ended" /\ ~ connected

\* What was sent on every connection, and how the client's number goes with it, as
\* long as there was no request.
InOrder(got) == \A i \in DOMAIN got : got[i] = <<IF i = 1 THEN "020" ELSE "105", i - 1>>

NumbersKept ==
  asked = 0 =>
    /\ \A r \in Requesters : req[r].at = "idle"
    /\ \A c \in DOMAIN conns : InOrder(conns[c].got)
    /\ loop \in {"connecting", "login"} /\ HasSocket => Current.got = << >>
    /\ loop \notin {"connecting", "login"} /\ connected /\ HasSocket /\ Current.up =>
         Len(Current.got) = client_msg_seq_num /\ client_msg_seq_num > 0

\* A sequence of halves is one of messages, the last of which may be cut.
Whole(s) ==
  \A i \in DOMAIN s :
    /\ i % 2 = 1 => s[i].part = "head"
    /\ i % 2 = 0 => s[i] = [s[i - 1] EXCEPT !.part = "tail"]

\* What the client has yet to handle of the connection.
Pending == buffer \o Current.out

\* The connection of a recv that blocks: the last, whoever has closed its descriptor.
Last == conns[Len(conns)]

\* The client never loses the boundaries of messages.
Boundaries ==
  /\ loop = "blocked" => Len(conns) >= 1
  /\ ~ torn =>
       /\ Whole(buffer)
       /\ HasSocket => Whole(Pending)
       /\ HasSocket /\ Current.up => Len(Pending) % 2 = 0
       /\ loop = "blocked" =>
            /\ Whole(buffer \o Last.out)
            /\ Last.up => Len(buffer \o Last.out) % 2 = 0

\* With s still to be handled, a client with flag l ends up logged in.
LoggedInAfter(l, s) ==
  \/ l /\ \A j \in DOMAIN s : s[j].kind # "010"
  \/ \E i \in DOMAIN s : s[i].kind = "050" /\ \A j \in DOMAIN s : j > i => s[j].kind # "010"

WelcomePending ==
  ~ torn /\ ~ meddled =>
    /\ \A r \in Requesters : req[r].at # "flags"
    /\ connected /\ HasSocket /\ Current.up /\ Current.said = "welcome" =>
         LoggedInAfter(logged_in, Pending)

\* When there is nothing left to read, what was read has been handled.
CaughtUp ==
  /\ running /\ connected /\ ~ torn /\ HasSocket /\ loop \in {"top", "recv", "blocked"}
  /\ Current.up /\ Current.said # "nothing" /\ Current.out = << >>
  => Len(buffer) < 2

Inv ==
  /\ Types /\ SocketKnown /\ ByPlace /\ Stopped
  /\ NumbersKept /\ Boundaries /\ WelcomePending /\ CaughtUp

-----------------------------------------------------------------------------
(* Sequences of halves *)

LEMMA Taken ==
  ASSUME NEW S, NEW s \in Seq(S), NEW n \in 0..Len(s)
  PROVE  /\ SubSeq(s, 1, n) \in Seq(S) /\ Len(SubSeq(s, 1, n)) = n
         /\ \A i \in 1..n : SubSeq(s, 1, n)[i] = s[i]
<1>1. n \in Int /\ 1 \in Int /\ \A i \in 1..n : s[i] \in S
  BY ElementOfSeq, LenProperties
<1>2. /\ SubSeq(s, 1, n) \in Seq(S)
      /\ Len(SubSeq(s, 1, n)) = IF 1 <= n THEN n - 1 + 1 ELSE 0
      /\ \A i \in 1 .. n - 1 + 1 : SubSeq(s, 1, n)[i] = s[1 + i - 1]
  BY <1>1, SubSeqProperties
<1> QED
  BY <1>1, <1>2, LenProperties

LEMMA Dropped ==
  ASSUME NEW S, NEW s \in Seq(S), NEW n \in 0..Len(s)
  PROVE  /\ Drop(s, n) \in Seq(S) /\ Len(Drop(s, n)) = Len(s) - n
         /\ \A i \in 1..(Len(s) - n) : Drop(s, n)[i] = s[n + i]
<1> DEFINE l == Len(s)
<1>1. l \in Nat /\ n + 1 \in Int /\ \A i \in (n + 1)..l : s[i] \in S
  BY ElementOfSeq, LenProperties
<1> HIDE DEF l
<1>2. /\ SubSeq(s, n + 1, l) \in Seq(S)
      /\ Len(SubSeq(s, n + 1, l)) = IF n + 1 <= l THEN l - (n + 1) + 1 ELSE 0
      /\ \A i \in 1 .. l - (n + 1) + 1 : SubSeq(s, n + 1, l)[i] = s[(n + 1) + i - 1]
  BY <1>1, SubSeqProperties
<1> QED
  BY <1>1, <1>2 DEF Drop, l

\* Reading n halves moves them, and changes nothing of the whole.
LEMMA ReadMoves ==
  ASSUME NEW S, NEW b \in Seq(S), NEW o \in Seq(S), NEW n \in 0..Len(o)
  PROVE  (b \o SubSeq(o, 1, n)) \o Drop(o, n) = b \o o
<1> DEFINE t == SubSeq(o, 1, n)
           d == Drop(o, n)
<1>1. t \in Seq(S) /\ d \in Seq(S)
  BY Taken, Dropped
<1>2. t \o d = o
  <2>1. /\ t \o d \in Seq(S) /\ Len(t \o d) = Len(t) + Len(d)
        /\ \A i \in 1 .. Len(t) + Len(d) :
             (t \o d)[i] = IF i <= Len(t) THEN t[i] ELSE d[i - Len(t)]
    BY <1>1, ConcatProperties
  <2>2. /\ Len(t) = n /\ Len(d) = Len(o) - n
        /\ \A i \in 1..n : t[i] = o[i]
        /\ \A i \in 1..(Len(o) - n) : d[i] = o[n + i]
    BY Taken, Dropped
  <2>3. Len(o) \in Nat
    BY LenProperties
  <2> HIDE DEF t, d
  <2>4. Len(t \o d) = Len(o) /\ \A i \in 1..Len(t \o d) : (t \o d)[i] = o[i]
    BY <2>1, <2>2, <2>3
  <2> QED
    BY <2>1, <2>4, SeqEqual
<1> HIDE DEF t, d
<1>3. (b \o t) \o d = b \o (t \o d)
  BY <1>1, ConcatAssociative
<1> QED
  BY <1>2, <1>3 DEF t, d

\* Dropping from the front of what was read is dropping from the whole.
LEMMA DropFromFront ==
  ASSUME NEW S, NEW b \in Seq(S), NEW o \in Seq(S), NEW n \in 0..Len(b)
  PROVE  Drop(b, n) \o o = Drop(b \o o, n)
<1> DEFINE d == Drop(b, n)
           w == b \o o
           e == Drop(w, n)
<1>1. Len(b) \in Nat /\ Len(o) \in Nat
  BY LenProperties
<1>2. /\ w \in Seq(S) /\ Len(w) = Len(b) + Len(o)
      /\ \A i \in 1 .. Len(b) + Len(o) : w[i] = IF i <= Len(b) THEN b[i] ELSE o[i - Len(b)]
  BY ConcatProperties
<1>3. /\ d \in Seq(S) /\ Len(d) = Len(b) - n
      /\ \A i \in 1..(Len(b) - n) : d[i] = b[n + i]
  BY Dropped
<1>4. n \in 0..Len(w)
  BY <1>1, <1>2
<1> HIDE DEF d, w
<1>5. /\ e \in Seq(S) /\ Len(e) = Len(w) - n
      /\ \A i \in 1..(Len(w) - n) : e[i] = w[n + i]
  BY <1>2, <1>4, Dropped
<1>6. /\ d \o o \in Seq(S) /\ Len(d \o o) = Len(d) + Len(o)
      /\ \A i \in 1 .. Len(d) + Len(o) :
           (d \o o)[i] = IF i <= Len(d) THEN d[i] ELSE o[i - Len(d)]
  BY <1>3, ConcatProperties
<1> HIDE DEF e
<1>7. Len(d \o o) = Len(e)
  BY <1>1, <1>2, <1>3, <1>5, <1>6
<1>8. \A i \in 1..Len(d \o o) : (d \o o)[i] = e[i]
  BY <1>1, <1>2, <1>3, <1>5, <1>6, SMTT(30)
<1>9. d \o o = e
  BY <1>5, <1>6, <1>7, <1>8, SeqEqual
<1> QED
  BY <1>9 DEF d, w, e

LEMMA BytesOf ==
  ASSUME NEW c \in 1..MaxConns, NEW k \in Kinds
  PROVE  /\ Bytes(c, k) \in Seq(Halves) /\ Len(Bytes(c, k)) = 2
         /\ Bytes(c, k)[1].part = "head" /\ Bytes(c, k)[1].kind = k
         /\ Bytes(c, k)[2] = [Bytes(c, k)[1] EXCEPT !.part = "tail"]
         /\ Bytes(c, k)[2].kind = k
BY DEF Bytes, Halves

\* A message of the server, appended to a sequence of halves.
LEMMA OneMore ==
  ASSUME NEW w \in Seq(Halves), NEW c \in 1..MaxConns, NEW k \in Kinds
  PROVE  /\ w \o Bytes(c, k) \in Seq(Halves) /\ w \o Bytes(c, k) # << >>
         /\ Len(w \o Bytes(c, k)) = Len(w) + 2
         /\ \A i \in 1..Len(w) : (w \o Bytes(c, k))[i] = w[i]
         /\ (w \o Bytes(c, k))[Len(w) + 1] = Bytes(c, k)[1]
         /\ (w \o Bytes(c, k))[Len(w) + 2] = Bytes(c, k)[2]
<1> DEFINE m == Bytes(c, k)
           n == w \o m
<1>1. m \in Seq(Halves) /\ Len(m) = 2
  BY BytesOf
<1> HIDE DEF m
<1>2. /\ n \in Seq(Halves) /\ Len(n) = Len(w) + Len(m)
      /\ \A i \in 1 .. Len(w) + Len(m) : n[i] = IF i <= Len(w) THEN w[i] ELSE m[i - Len(w)]
  BY <1>1, ConcatProperties
<1>3. Len(w) \in Nat
  BY LenProperties
<1> HIDE DEF n
<1>4. Len(n) = Len(w) + 2 /\ n # << >>
  BY <1>1, <1>2, <1>3, EmptySeq
<1>5. /\ \A i \in 1..Len(w) : n[i] = w[i]
      /\ n[Len(w) + 1] = m[1] /\ n[Len(w) + 2] = m[2]
  BY <1>1, <1>2, <1>3
<1> QED
  BY <1>2, <1>4, <1>5 DEF m, n

\* The same for what is in flight, seen in the whole.
LEMMA MoreSent ==
  ASSUME NEW b \in Seq(Halves), NEW o \in Seq(Halves), NEW c \in 1..MaxConns, NEW k \in Kinds
  PROVE  b \o (o \o Bytes(c, k)) = (b \o o) \o Bytes(c, k)
BY BytesOf, ConcatAssociative

-----------------------------------------------------------------------------
(* Boundaries of messages *)

LEMMA Parity ==
  ASSUME NEW n \in Nat
  PROVE  (2 + n) % 2 = n % 2 /\ (n % 2 = 0 => (n + 1) % 2 = 1 /\ (n + 2) % 2 = 0)
OBVIOUS

LEMMA WholeFront ==
  ASSUME NEW b \in Seq(Halves), NEW o \in Seq(Halves), Whole(b \o o)
  PROVE  Whole(b)
<1> DEFINE w == b \o o
<1>1. /\ w \in Seq(Halves) /\ Len(w) = Len(b) + Len(o)
      /\ \A i \in 1 .. Len(b) + Len(o) : w[i] = IF i <= Len(b) THEN b[i] ELSE o[i - Len(b)]
  BY ConcatProperties
<1>2. /\ DOMAIN w = 1..Len(w) /\ DOMAIN b = 1..Len(b)
      /\ Len(b) \in Nat /\ Len(o) \in Nat
  BY <1>1, LenProperties
<1>3. Whole(w)
  OBVIOUS
<1> HIDE DEF w
<1>4. ASSUME NEW i \in DOMAIN b, i % 2 = 1 PROVE b[i].part = "head"
  BY <1>1, <1>2, <1>3, <1>4 DEF Whole
<1>5. ASSUME NEW i \in DOMAIN b, i % 2 = 0 PROVE b[i] = [b[i - 1] EXCEPT !.part = "tail"]
  <2>1. i \in DOMAIN w /\ w[i] = [w[i - 1] EXCEPT !.part = "tail"]
    BY <1>1, <1>2, <1>3, <1>5 DEF Whole
  <2>2. i > 1
    BY <1>2, <1>5
  <2>3. w[i] = b[i] /\ w[i - 1] = b[i - 1]
    BY <1>1, <1>2, <2>2
  <2> QED
    BY <2>1, <2>3
<1> QED
  BY <1>4, <1>5 DEF Whole

\* A connection that breaks within a message.
LEMMA WholeCut ==
  ASSUME NEW b \in Seq(Halves), NEW o \in Seq(Halves), NEW n \in 0..Len(o), Whole(b \o o)
  PROVE  Whole(b \o SubSeq(o, 1, n))
<1>1. SubSeq(o, 1, n) \in Seq(Halves) /\ Drop(o, n) \in Seq(Halves)
  BY Taken, Dropped
<1>2. b \o SubSeq(o, 1, n) \in Seq(Halves)
  BY <1>1, ConcatProperties
<1>3. (b \o SubSeq(o, 1, n)) \o Drop(o, n) = b \o o
  BY ReadMoves
<1> QED
  BY <1>1, <1>2, <1>3, WholeFront

LEMMA WholeMore ==
  ASSUME NEW w \in Seq(Halves), NEW c \in 1..MaxConns, NEW k \in Kinds,
         Whole(w), Len(w) % 2 = 0
  PROVE  Whole(w \o Bytes(c, k)) /\ Len(w \o Bytes(c, k)) % 2 = 0
<1> DEFINE m == Bytes(c, k)
           n == w \o m
<1>1. /\ n \in Seq(Halves) /\ n # << >> /\ Len(n) = Len(w) + 2
      /\ \A i \in 1..Len(w) : n[i] = w[i]
      /\ n[Len(w) + 1] = m[1] /\ n[Len(w) + 2] = m[2]
  BY OneMore
<1>2. m[1].part = "head" /\ m[2] = [m[1] EXCEPT !.part = "tail"]
  BY BytesOf
<1>3. /\ DOMAIN w = 1..Len(w) /\ DOMAIN n = 1..Len(n)
      /\ Len(w) \in Nat
  BY <1>1, LenProperties
<1>4. Whole(w) /\ Len(w) % 2 = 0
  OBVIOUS
<1> HIDE DEF n, m
<1>5. Len(n) % 2 = 0
  BY <1>1, <1>3, <1>4
<1>6. ASSUME NEW i \in DOMAIN n, i % 2 = 1 PROVE n[i].part = "head"
  <2>1. CASE i <= Len(w)
    BY <1>1, <1>3, <1>4, <1>6, <2>1 DEF Whole
  <2>2. CASE i > Len(w)
    <3>1. i = Len(w) + 1 \/ i = Len(w) + 2
      <4>1. i \in 1..(Len(w) + 2)
        BY <1>1, <1>3
      <4> QED
        BY <1>3, <2>2, <4>1
    <3>2. (Len(w) + 2) % 2 = 0
      BY <1>3, <1>4, Parity
    <3>3. i = Len(w) + 1
      BY <1>6, <3>1, <3>2
    <3> QED
      BY <1>1, <1>2, <3>3
  <2> QED
    BY <1>3, <2>1, <2>2
<1>7. ASSUME NEW i \in DOMAIN n, i % 2 = 0 PROVE n[i] = [n[i - 1] EXCEPT !.part = "tail"]
  <2>1. CASE i <= Len(w)
    <3>1. w[i] = [w[i - 1] EXCEPT !.part = "tail"]
      BY <1>1, <1>3, <1>4, <1>7, <2>1 DEF Whole
    <3>2. i > 1
      BY <1>3, <1>7
    <3>3. n[i] = w[i] /\ n[i - 1] = w[i - 1]
      BY <1>1, <1>3, <2>1, <3>2
    <3> QED
      BY <3>1, <3>3
  <2>2. CASE i > Len(w)
    <3>1. i = Len(w) + 1 \/ (i = Len(w) + 2 /\ i - 1 = Len(w) + 1)
      BY <1>1, <1>3, <2>2
    <3>2. (Len(w) + 1) % 2 = 1
      BY <1>3, <1>4, Parity
    <3>3. i = Len(w) + 2 /\ i - 1 = Len(w) + 1
      BY <1>7, <3>1, <3>2
    <3> QED
      BY <1>1, <1>2, <3>3
  <2> QED
    BY <1>3, <2>1, <2>2
<1>8. Whole(n)
  BY <1>6, <1>7 DEF Whole
<1> QED
  BY <1>5, <1>8 DEF n, m

\* The message at the front of a sequence of messages, and what is left without it.
LEMMA WholeDrop ==
  ASSUME NEW s \in Seq(Halves), Whole(s), Len(s) >= 2
  PROVE  /\ Drop(s, 2) \in Seq(Halves) /\ Len(Drop(s, 2)) = Len(s) - 2
         /\ Whole(Drop(s, 2))
         /\ Aligned(s) /\ Intact(s) /\ s[2].kind = s[1].kind
<1> DEFINE d == Drop(s, 2)
<1>1. Len(s) \in Nat /\ DOMAIN s = 1..Len(s) /\ 2 \in 0..Len(s)
  BY LenProperties
<1>2. /\ d \in Seq(Halves) /\ Len(d) = Len(s) - 2
      /\ \A i \in 1..(Len(s) - 2) : d[i] = s[2 + i]
  BY <1>1, Dropped
<1>3. DOMAIN d = 1..Len(d)
  BY <1>2, LenProperties
<1> HIDE DEF d
<1>4. ASSUME NEW i \in DOMAIN d, i % 2 = 1 PROVE d[i].part = "head"
  <2>1. (2 + i) \in DOMAIN s /\ d[i] = s[2 + i] /\ i \in Nat
    BY <1>1, <1>2, <1>3
  <2>2. (2 + i) % 2 = 1
    BY <1>4, <2>1, Parity
  <2> QED
    BY <2>1, <2>2 DEF Whole
<1>5. ASSUME NEW i \in DOMAIN d, i % 2 = 0 PROVE d[i] = [d[i - 1] EXCEPT !.part = "tail"]
  <2>1. i > 1
    BY <1>2, <1>3, <1>5, SMTT(30)
  <2>2. (2 + i) \in DOMAIN s /\ d[i] = s[2 + i] /\ i \in Nat
    BY <1>1, <1>2, <1>3
  <2>3. d[i - 1] = s[(2 + i) - 1]
    BY <1>1, <1>2, <1>3, <2>1
  <2>4. (2 + i) % 2 = 0
    BY <1>5, <2>2, Parity
  <2> QED
    BY <2>2, <2>3, <2>4 DEF Whole
<1>6. Whole(d)
  BY <1>4, <1>5 DEF Whole
<1>7. 1 \in DOMAIN s /\ 2 \in DOMAIN s /\ 1 % 2 = 1 /\ 2 % 2 = 0
  BY <1>1
<1>8. s[1].part = "head"
  BY <1>7 DEF Whole
<1>9. s[2] = [s[1] EXCEPT !.part = "tail"]
  <2>1. s[2] = [s[2 - 1] EXCEPT !.part = "tail"]
    BY <1>7 DEF Whole
  <2> QED
    BY <2>1
<1>10. s[2].kind = s[1].kind
  <2>1. s[1] \in Halves
    BY <1>7, <1>1, ElementOfSeq
  <2> QED
    BY <1>9, <2>1 DEF Halves
<1>11. s # << >>
  BY <1>1, EmptySeq
<1> QED
  BY <1>2, <1>6, <1>8, <1>9, <1>10, <1>11 DEF d, Aligned, Intact

-----------------------------------------------------------------------------
(* What the client will know *)

LEMMA AfterMore ==
  ASSUME NEW l \in BOOLEAN, NEW w \in Seq(Halves), NEW c \in 1..MaxConns, NEW k \in Kinds,
         \/ k = "050"
         \/ k # "010" /\ LoggedInAfter(l, w)
  PROVE  LoggedInAfter(l, w \o Bytes(c, k))
<1> DEFINE n == w \o Bytes(c, k)
<1>1. /\ n \in Seq(Halves) /\ Len(n) = Len(w) + 2
      /\ \A i \in 1..Len(w) : n[i] = w[i]
      /\ n[Len(w) + 1].kind = k /\ n[Len(w) + 2].kind = k
  <2>1. /\ n \in Seq(Halves) /\ n # << >> /\ Len(n) = Len(w) + 2
        /\ \A i \in 1..Len(w) : n[i] = w[i]
        /\ n[Len(w) + 1] = Bytes(c, k)[1] /\ n[Len(w) + 2] = Bytes(c, k)[2]
    BY OneMore
  <2>2. Bytes(c, k)[1].kind = k /\ Bytes(c, k)[2].kind = k
    BY BytesOf
  <2> HIDE DEF n
  <2> QED
    BY <2>1, <2>2
<1>2. /\ DOMAIN w = 1..Len(w) /\ DOMAIN n = 1..Len(n) /\ Len(w) \in Nat
  BY <1>1, LenProperties
<1> HIDE DEF n
<1>3. \A j \in DOMAIN n : j \in DOMAIN w \/ n[j].kind = k
  <2> SUFFICES ASSUME NEW j \in DOMAIN n, j \notin DOMAIN w PROVE n[j].kind = k
    OBVIOUS
  <2>1. j = Len(w) + 1 \/ j = Len(w) + 2
    <3>1. j \in 1..(Len(w) + 2)
      BY <1>1, <1>2
    <3> QED
      BY <1>2, <3>1
  <2> QED
    BY <1>1, <2>1
<1>4. CASE k = "050"
  <2>1. Len(w) + 2 \in DOMAIN n /\ n[Len(w) + 2].kind = "050"
    BY <1>1, <1>2, <1>4
  <2>2. \A j \in DOMAIN n : ~ (j > Len(w) + 2)
    BY <1>1, <1>2
  <2>3. LoggedInAfter(l, n)
    BY <2>1, <2>2 DEF LoggedInAfter
  <2> QED
    BY <2>3 DEF n
<1>5. CASE k # "010" /\ LoggedInAfter(l, w)
  <2>1. \A j \in DOMAIN w : j \in DOMAIN n /\ n[j] = w[j]
    BY <1>1, <1>2
  <2>2. LoggedInAfter(l, n)
    BY <1>3, <1>5, <2>1 DEF LoggedInAfter
  <2> QED
    BY <2>2 DEF n
<1> QED
  BY <1>4, <1>5

\* The flag after the message at the front, as handle_protocol_message leaves it.
FlagAfter(l, kind) == IF kind = "050" THEN TRUE ELSE IF kind = "010" THEN FALSE ELSE l

LEMMA AfterHandled ==
  ASSUME NEW l \in BOOLEAN, NEW s \in Seq(Halves), Whole(s), Len(s) >= 2,
         LoggedInAfter(l, s)
  PROVE  LoggedInAfter(FlagAfter(l, s[1].kind), Drop(s, 2))
<1> DEFINE d == Drop(s, 2)
           k == s[1].kind
           f == FlagAfter(l, k)
<1>1. Len(s) \in Nat /\ DOMAIN s = 1..Len(s) /\ 2 \in 0..Len(s)
  BY LenProperties
<1>2. /\ d \in Seq(Halves) /\ Len(d) = Len(s) - 2
      /\ \A i \in 1..(Len(s) - 2) : d[i] = s[2 + i]
  BY <1>1, Dropped
<1>3. DOMAIN d = 1..Len(d)
  BY <1>2, LenProperties
<1>4. s[1].kind = k /\ s[2].kind = k
  BY WholeDrop
<1>5. f = FlagAfter(l, k)
  OBVIOUS
<1> HIDE DEF d, k, f
<1>6. \A j \in DOMAIN d : 2 + j \in DOMAIN s /\ d[j] = s[2 + j] /\ j \in Nat
  BY <1>1, <1>2, <1>3
<1>7. CASE l /\ \A j \in DOMAIN s : s[j].kind # "010"
  <2>1. k # "010"
    BY <1>1, <1>4, <1>7
  <2>2. f
    BY <1>5, <1>7, <2>1 DEF FlagAfter
  <2>3. \A j \in DOMAIN d : d[j].kind # "010"
    BY <1>6, <1>7
  <2> QED
    BY <2>2, <2>3 DEF LoggedInAfter, d, f, k
<1>8. CASE \E i \in DOMAIN s : s[i].kind = "050" /\ \A j \in DOMAIN s : j > i => s[j].kind # "010"
  <2>1. PICK i \in DOMAIN s : s[i].kind = "050" /\ \A j \in DOMAIN s : j > i => s[j].kind # "010"
    BY <1>8
  <2>2. CASE i <= 2
    <3>1. k = "050"
      <4>1. i = 1 \/ i = 2
        BY <1>1, <2>2
      <4> QED
        BY <1>4, <2>1, <4>1
    <3>2. f
      BY <1>5, <3>1 DEF FlagAfter
    <3>3. \A j \in DOMAIN d : d[j].kind # "010"
      <4> SUFFICES ASSUME NEW j \in DOMAIN d PROVE d[j].kind # "010"
        OBVIOUS
      <4>1. 2 + j > i
        BY <1>1, <1>2, <1>3, <2>2
      <4> QED
        BY <1>6, <2>1, <4>1
    <3> QED
      BY <3>2, <3>3 DEF LoggedInAfter, d, f, k
  <2>3. CASE i > 2
    <3>1. i - 2 \in DOMAIN d /\ d[i - 2] = s[i]
      <4>1. i - 2 \in DOMAIN d /\ 2 + (i - 2) = i
        BY <1>1, <1>2, <1>3, <2>3
      <4> QED
        BY <1>6, <4>1
    <3>2. \A j \in DOMAIN d : j > i - 2 => 2 + j > i
      BY <1>1, <1>6
    <3>3. \A j \in DOMAIN d : j > i - 2 => d[j].kind # "010"
      BY <1>6, <2>1, <3>2
    <3> QED
      BY <2>1, <3>1, <3>3 DEF LoggedInAfter, d
  <2> QED
    BY <1>1, <2>2, <2>3
<1> QED
  BY <1>7, <1>8 DEF LoggedInAfter

-----------------------------------------------------------------------------
(* The steps, one lemma per action *)

LEMMA LoopTopStep ==
  ASSUME Inv, LoopTop
  PROVE  Inv'
<1> USE DEF Inv, LoopTop, HasSocket, Current, flags, bounds, history
<1>1. Types'
  BY DEF Types, LoopPlaces
<1>2. SocketKnown'
  BY DEF SocketKnown
<1>3. ByPlace'
  BY DEF ByPlace
<1>4. Stopped'
  BY DEF Stopped
<1>5. NumbersKept'
  BY DEF NumbersKept
<1>6. Boundaries'
  BY DEF Boundaries, Pending, Last
<1>7. WelcomePending'
  BY DEF WelcomePending, Pending
<1>8. CaughtUp'
  BY DEF CaughtUp, Types
<1> QED
  BY <1>1, <1>2, <1>3, <1>4, <1>5, <1>6, <1>7, <1>8

LEMMA RecvNothingStep ==
  ASSUME Inv, RecvNothing
  PROVE  Inv'
<1> USE DEF Inv, RecvNothing, HasSocket, Current, flags, bounds, history
<1>1. Types'
  BY DEF Types, LoopPlaces
<1>2. SocketKnown'
  BY DEF SocketKnown
<1>3. ByPlace'
  BY DEF ByPlace
<1>4. Stopped'
  BY DEF Stopped
<1>5. NumbersKept'
  BY DEF NumbersKept
<1>6. Boundaries'
  BY DEF Boundaries, Pending, Last
<1>7. WelcomePending'
  BY DEF WelcomePending, Pending
<1>8. CaughtUp'
  BY DEF CaughtUp, Types
<1> QED
  BY <1>1, <1>2, <1>3, <1>4, <1>5, <1>6, <1>7, <1>8

LEMMA RecvBlocksStep ==
  ASSUME Inv, RecvBlocks
  PROVE  Inv'
<1> USE DEF Inv, RecvBlocks, HasSocket, Current, flags, bounds, history
<1>1. Types'
  BY DEF Types, LoopPlaces
<1>2. SocketKnown'
  BY DEF SocketKnown
<1>3. ByPlace'
  BY DEF ByPlace
<1>4. Stopped'
  BY DEF Stopped
<1>5. NumbersKept'
  BY DEF NumbersKept
<1>6. Boundaries'
  <2>1. socket_fd = Len(conns) /\ socket_fd # NoFd /\ Len(conns) >= 1
    <3>1. Len(conns) \in Nat
      BY LenProperties DEF Types
    <3> QED
      BY <3>1 DEF SocketKnown, NoFd
  <2> QED
    BY <2>1 DEF Boundaries, Pending, Last
<1>7. WelcomePending'
  BY DEF WelcomePending, Pending
<1>8. CaughtUp'
  BY DEF CaughtUp, Types
<1> QED
  BY <1>1, <1>2, <1>3, <1>4, <1>5, <1>6, <1>7, <1>8

LEMMA BufferDoneStep ==
  ASSUME Inv, BufferDone
  PROVE  Inv'
<1> USE DEF Inv, BufferDone, HasSocket, Current, flags, bounds, history
<1>1. Types'
  BY DEF Types, LoopPlaces
<1>2. SocketKnown'
  BY DEF SocketKnown
<1>3. ByPlace'
  BY DEF ByPlace
<1>4. Stopped'
  BY DEF Stopped
<1>5. NumbersKept'
  BY DEF NumbersKept
<1>6. Boundaries'
  BY DEF Boundaries, Pending, Last
<1>7. WelcomePending'
  BY DEF WelcomePending, Pending
<1>8. CaughtUp'
  <2>1. running /\ ~ torn => Len(buffer) < 2
    BY WholeDrop DEF Types, Boundaries
  <2> QED
    BY <2>1 DEF CaughtUp, Types
<1> QED
  BY <1>1, <1>2, <1>3, <1>4, <1>5, <1>6, <1>7, <1>8

LEMMA startStep ==
  ASSUME Inv, start
  PROVE  Inv'
<1> USE DEF Inv, start, HasSocket, Current, flags, bounds, history
<1>1. Types'
  BY DEF Types, LoopPlaces
<1>2. SocketKnown'
  BY DEF SocketKnown
<1>3. ByPlace'
  BY DEF ByPlace
<1>4. Stopped'
  BY DEF Stopped
<1>5. NumbersKept'
  BY DEF NumbersKept, Stopped
<1>6. Boundaries'
  BY DEF Boundaries, Pending, Last
<1>7. WelcomePending'
  BY DEF WelcomePending, Pending
<1>8. CaughtUp'
  BY DEF CaughtUp, Stopped
<1> QED
  BY <1>1, <1>2, <1>3, <1>4, <1>5, <1>6, <1>7, <1>8

LEMMA stopStep ==
  ASSUME Inv, stop
  PROVE  Inv'
<1> USE DEF Inv, stop, HasSocket, Current, flags, bounds, history
<1>1. Types'
  BY DEF Types, LoopPlaces
<1>2. SocketKnown'
  BY DEF SocketKnown
<1>3. ByPlace'
  BY DEF ByPlace
<1>4. Stopped'
  BY DEF Stopped
<1>5. NumbersKept'
  BY DEF NumbersKept
<1>6. Boundaries'
  BY DEF Boundaries, Pending, Last
<1>7. WelcomePending'
  BY DEF WelcomePending, Pending
<1>8. CaughtUp'
  BY DEF CaughtUp, Types
<1> QED
  BY <1>1, <1>2, <1>3, <1>4, <1>5, <1>6, <1>7, <1>8

LEMMA StopCloseStep ==
  ASSUME Inv, StopClose
  PROVE  Inv'
<1> USE DEF Inv, StopClose, HasSocket, Current, flags, bounds, history
<1>1. Types'
  BY DEF Types, LoopPlaces
<1>2. SocketKnown'
  BY DEF SocketKnown
<1>3. ByPlace'
  BY DEF ByPlace
<1>4. Stopped'
  BY DEF Stopped
<1>5. NumbersKept'
  BY DEF NumbersKept
<1>6. Boundaries'
  BY DEF Boundaries, Pending, Last
<1>7. WelcomePending'
  BY DEF WelcomePending, Pending
<1>8. CaughtUp'
  BY DEF CaughtUp, Types
<1> QED
  BY <1>1, <1>2, <1>3, <1>4, <1>5, <1>6, <1>7, <1>8

LEMMA StopJoinStep ==
  ASSUME Inv, StopJoin
  PROVE  Inv'
<1> USE DEF Inv, StopJoin, HasSocket, Current, flags, bounds, history
<1>1. Types'
  BY DEF Types, LoopPlaces
<1>2. SocketKnown'
  BY DEF SocketKnown
<1>3. ByPlace'
  BY DEF ByPlace
<1>4. Stopped'
  BY DEF Stopped
<1>5. NumbersKept'
  BY DEF NumbersKept
<1>6. Boundaries'
  BY DEF Boundaries, Pending, Last
<1>7. WelcomePending'
  BY DEF WelcomePending, Pending
<1>8. CaughtUp'
  BY DEF CaughtUp, Types
<1> QED
  BY <1>1, <1>2, <1>3, <1>4, <1>5, <1>6, <1>7, <1>8

LEMMA StopClearStep ==
  ASSUME Inv, StopClear
  PROVE  Inv'
<1> USE DEF Inv, StopClear, HasSocket, Current, flags, bounds, history
<1>1. Types'
  BY DEF Types, LoopPlaces
<1>2. SocketKnown'
  BY DEF SocketKnown
<1>3. ByPlace'
  BY DEF ByPlace
<1>4. Stopped'
  BY DEF Stopped
<1>5. NumbersKept'
  BY DEF NumbersKept
<1>6. Boundaries'
  BY DEF Boundaries, Pending, Last
<1>7. WelcomePending'
  BY DEF WelcomePending, Pending
<1>8. CaughtUp'
  BY DEF CaughtUp, Types
<1> QED
  BY <1>1, <1>2, <1>3, <1>4, <1>5, <1>6, <1>7, <1>8

LEMMA RecvFailsStep ==
  ASSUME Inv, RecvFails
  PROVE  Inv'
<1> USE DEF Inv, RecvFails, HasSocket, Current, flags, bounds, history, Disconnect, OnDisconnected,
           CanRead
<1>1. Types'
  BY DEF Types, LoopPlaces
<1>2. SocketKnown'
  BY DEF SocketKnown
<1>3. ByPlace'
  BY DEF ByPlace
<1>4. Stopped'
  BY DEF Stopped
<1>5. NumbersKept'
  BY DEF NumbersKept
<1>6. Boundaries'
  BY DEF Boundaries, Pending, Last
<1>7. WelcomePending'
  BY DEF WelcomePending, Pending
<1>8. CaughtUp'
  BY DEF CaughtUp, Types
<1> QED
  BY <1>1, <1>2, <1>3, <1>4, <1>5, <1>6, <1>7, <1>8

\* A new connection, as a step of the server's side.
LEMMA NewConnection ==
  ASSUME Types, Len(conns) < MaxConns
  PROVE  /\ Append(conns, NewConn) \in Seq(Conns)
         /\ Len(Append(conns, NewConn)) = Len(conns) + 1 /\ Len(conns) \in Nat
         /\ \A c \in DOMAIN conns : Append(conns, NewConn)[c] = conns[c]
         /\ Append(conns, NewConn)[Len(conns) + 1] = NewConn
         /\ DOMAIN Append(conns, NewConn) = DOMAIN conns \cup {Len(conns) + 1}
         /\ DOMAIN conns = 1..Len(conns)
<1>1. NewConn \in Conns
  BY EmptySeq DEF NewConn, Conns
<1>2. conns \in Seq(Conns)
  BY DEF Types
<1>3. /\ Append(conns, NewConn) \in Seq(Conns)
      /\ Append(conns, NewConn) # << >>
      /\ Len(Append(conns, NewConn)) = Len(conns) + 1
      /\ \A c \in 1..Len(conns) : Append(conns, NewConn)[c] = conns[c]
      /\ Append(conns, NewConn)[Len(conns) + 1] = NewConn
  BY <1>1, <1>2, AppendProperties
<1>4. /\ DOMAIN Append(conns, NewConn) = 1..(Len(conns) + 1)
      /\ DOMAIN conns = 1..Len(conns) /\ Len(conns) \in Nat
  BY <1>2, <1>3, LenProperties
<1> QED
  BY <1>3, <1>4

LEMMA ConnectSocketStep ==
  ASSUME Inv, ConnectSocket
  PROVE  Inv'
<1> USE DEF Inv, HasSocket, Current, flags, bounds, history
<1>1. /\ loop = "connect" /\ connected' = FALSE /\ logged_in' = FALSE
      /\ UNCHANGED <<running, client_msg_seq_num, buffer, timed, app, req, fate, sent, asked, torn, meddled>>
      /\ \/ /\ Len(conns) < MaxConns /\ conns' = Append(conns, NewConn)
            /\ socket_fd' = Len(conns') /\ open' = (open \ {socket_fd}) \cup {socket_fd'}
            /\ loop' = "connecting"
         \/ /\ conns' = conns /\ socket_fd' = NoFd /\ open' = open \ {socket_fd}
            /\ loop' = "top"
  BY DEF ConnectSocket, ByPlace, NewConn
<1>2. \/ /\ conns' \in Seq(Conns) /\ Len(conns') = Len(conns) + 1 /\ Len(conns') <= MaxConns
         /\ socket_fd' = Len(conns) + 1 /\ socket_fd' # NoFd /\ conns'[socket_fd'] = NewConn
         /\ DOMAIN conns' = DOMAIN conns \cup {Len(conns) + 1}
         /\ \A c \in DOMAIN conns : conns'[c] = conns[c]
         /\ open' \subseteq 1..(Len(conns) + 1) /\ loop' = "connecting"
      \/ /\ conns' = conns /\ socket_fd' = NoFd /\ open' \subseteq open /\ loop' = "top"
  <2>1. CASE conns' = conns
    BY <1>1, <2>1
  <2>2. CASE Len(conns) < MaxConns /\ conns' = Append(conns, NewConn)
             /\ socket_fd' = Len(conns') /\ open' = (open \ {socket_fd}) \cup {socket_fd'}
             /\ loop' = "connecting"
    <3>1. MaxConns \in Nat
      BY BoundsAssumption
    <3>2. /\ conns' \in Seq(Conns) /\ Len(conns') = Len(conns) + 1 /\ Len(conns) \in Nat
          /\ \A c \in DOMAIN conns : conns'[c] = conns[c]
          /\ conns'[Len(conns) + 1] = NewConn
          /\ DOMAIN conns' = DOMAIN conns \cup {Len(conns) + 1}
      BY <2>2, NewConnection
    <3>3. open' \subseteq 1..(Len(conns) + 1)
      <4>1. open \subseteq 1..Len(conns)
        BY DEF SocketKnown
      <4>2. open' \subseteq open \cup {Len(conns) + 1}
        BY <2>2, <3>2
      <4> QED
        BY <3>2, <4>1, <4>2
    <3> QED
      BY <2>2, <3>1, <3>2, <3>3 DEF NoFd
  <2> QED
    BY <1>1, <2>1, <2>2
<1>3. Types'
  BY <1>1, <1>2 DEF Types, LoopPlaces
<1>4. SocketKnown'
  <2>1. Len(conns) \in Nat
    BY LenProperties DEF Types
  <2>2. CASE conns' = conns /\ socket_fd' = NoFd /\ open' \subseteq open
    BY <2>2 DEF SocketKnown
  <2>3. CASE /\ Len(conns') = Len(conns) + 1 /\ socket_fd' = Len(conns) + 1
             /\ open' \subseteq 1..(Len(conns) + 1)
    BY <2>1, <2>3 DEF SocketKnown
  <2> QED
    BY <1>2, <2>2, <2>3
<1>5. ByPlace'
  BY <1>1, <1>2 DEF ByPlace
<1>6. Stopped'
  BY <1>1, <1>2 DEF Stopped
<1>7. NumbersKept'
  <2>1. InOrder(<< >>) /\ NewConn.got = << >>
    BY DEF InOrder, NewConn
  <2> QED
    BY <1>1, <1>2, <2>1 DEF NumbersKept
<1>8. Boundaries'
  <2>1. buffer \o NewConn.out = buffer /\ NewConn.up = FALSE
    BY ConcatEmptySeq DEF Types, NewConn
  <2>2. socket_fd' = NoFd \/ conns'[socket_fd'] = NewConn
    BY <1>2
  <2> QED
    BY <1>1, <2>1, <2>2 DEF Boundaries, Pending, Last
<1>9. WelcomePending'
  BY <1>1, <1>2 DEF WelcomePending
<1>10. CaughtUp'
  BY <1>1, <1>2 DEF CaughtUp
<1> QED
  BY <1>3, <1>4, <1>5, <1>6, <1>7, <1>8, <1>9, <1>10

\* The bytes of the earlier connection that are still in the buffer are whole messages.
LEMMA ConnectOkStep ==
  ASSUME Inv, ConnectOk
  PROVE  Inv'
<1> USE DEF Inv, HasSocket, Current, flags, bounds, history
<1>1. loop = "connecting" /\ socket_fd \in open /\ ~ connected /\ ~ logged_in
      /\ socket_fd # NoFd /\ socket_fd = Len(conns) /\ conns[socket_fd] = NewConn
  BY DEF ConnectOk, ByPlace, SocketKnown, NoFd
<1>2. conns \in Seq(Conns) /\ DOMAIN conns = 1..Len(conns) /\ Len(conns) \in Nat
      /\ socket_fd \in DOMAIN conns
  BY <1>1, LenProperties DEF Types, SocketKnown, ConnectOk
<1>3. conns' = [conns EXCEPT ![socket_fd] = [NewConn EXCEPT !.up = TRUE]]
  BY <1>1, <1>2 DEF ConnectOk
<1>4. [NewConn EXCEPT !.up = TRUE] \in Conns
  BY EmptySeq DEF NewConn, Conns
<1>5. conns' \in Seq(Conns) /\ Len(conns') = Len(conns)
      /\ \A c \in DOMAIN conns : conns'[c] = IF c = socket_fd THEN [NewConn EXCEPT !.up = TRUE] ELSE conns[c]
  BY <1>2, <1>3, <1>4, ExceptSeq
<1>6. DOMAIN conns' = DOMAIN conns
  BY <1>3
<1>7. /\ connected' = TRUE /\ loop' = "login"
      /\ torn' = (torn \/ (buffer # << >> /\ buffer[Len(buffer)].part = "head"))
      /\ timed' \in BOOLEAN
      /\ UNCHANGED <<running, logged_in, socket_fd, client_msg_seq_num, buffer, open, app, req, fate, sent, asked, meddled>>
  BY DEF ConnectOk
<1>8. Types'
  <2>1. torn' \in BOOLEAN
    BY <1>7 DEF Types
  <2> QED
    BY <1>5, <1>7, <2>1 DEF Types, LoopPlaces
<1>9. SocketKnown'
  BY <1>5, <1>7 DEF SocketKnown
<1>10. ByPlace'
  BY <1>1, <1>2, <1>5, <1>7 DEF ByPlace, NewConn
<1>11. Stopped'
  BY <1>1, <1>7 DEF Stopped
<1>12. NumbersKept'
  <2>1. InOrder(<< >>) /\ NewConn.got = << >> /\ [NewConn EXCEPT !.up = TRUE].got = << >>
    BY DEF InOrder, NewConn
  <2> QED
    BY <1>2, <1>5, <1>6, <1>7, <2>1 DEF NumbersKept
<1>13. Boundaries'
  <2> SUFFICES ASSUME ~ torn'
               PROVE  Whole(buffer) /\ Whole(buffer \o conns'[socket_fd].out)
                      /\ Len(buffer \o conns'[socket_fd].out) % 2 = 0
    BY <1>7 DEF Boundaries, Pending, Last
  <2>1. buffer \o conns'[socket_fd].out = buffer
    BY <1>2, <1>5, ConcatEmptySeq DEF Types, NewConn
  <2>2. ~ torn /\ (buffer = << >> \/ buffer[Len(buffer)].part # "head")
    BY <1>7 DEF Types
  <2>3. Whole(buffer)
    BY <2>2 DEF Boundaries
  <2>4. Len(buffer) \in Nat /\ DOMAIN buffer = 1..Len(buffer)
        /\ (buffer # << >> => Len(buffer) \in DOMAIN buffer)
    BY LenProperties, EmptySeq DEF Types
  <2>5. Len(buffer) % 2 = 0
    <3>1. CASE buffer = << >>
      BY <3>1
    <3>2. CASE buffer # << >>
      BY <2>2, <2>3, <2>4, <3>2 DEF Whole
    <3> QED
      BY <3>1, <3>2
  <2> QED
    BY <2>1, <2>3, <2>5
<1>14. WelcomePending'
  BY <1>1, <1>2, <1>5, <1>7 DEF WelcomePending, Types, NewConn
<1>15. CaughtUp'
  BY <1>7 DEF CaughtUp
<1> QED
  BY <1>8, <1>9, <1>10, <1>11, <1>12, <1>13, <1>14, <1>15

LEMMA ConnectFailsStep ==
  ASSUME Inv, ConnectFails
  PROVE  Inv'
<1> USE DEF Inv, HasSocket, Current, flags, bounds, history
<1>1. conns \in Seq(Conns) /\ DOMAIN conns = 1..Len(conns) /\ Len(conns) \in Nat
  BY LenProperties DEF Types
<1>2. socket_fd # NoFd =>
        /\ conns' \in Seq(Conns) /\ Len(conns') = Len(conns) - 1 /\ DOMAIN conns' = 1..Len(conns')
        /\ \A c \in 1..(Len(conns) - 1) : conns'[c] = conns[c]
  <2> SUFFICES ASSUME socket_fd # NoFd
               PROVE  /\ conns' \in Seq(Conns) /\ Len(conns') = Len(conns) - 1
                      /\ DOMAIN conns' = 1..Len(conns')
                      /\ \A c \in 1..(Len(conns) - 1) : conns'[c] = conns[c]
    OBVIOUS
  <2>1. conns' = SubSeq(conns, 1, Len(conns) - 1) /\ Len(conns) >= 1
    BY DEF ConnectFails, SocketKnown
  <2>2. Len(conns) - 1 \in 0..Len(conns)
    BY <1>1, <2>1
  <2>3. /\ SubSeq(conns, 1, Len(conns) - 1) \in Seq(Conns)
        /\ Len(SubSeq(conns, 1, Len(conns) - 1)) = Len(conns) - 1
        /\ \A c \in 1..(Len(conns) - 1) : SubSeq(conns, 1, Len(conns) - 1)[c] = conns[c]
    BY <1>1, <2>2, Taken
  <2>4. conns' \in Seq(Conns)
    BY <2>1, <2>3
  <2> QED
    BY <2>1, <2>3, <2>4, LenProperties
<1>3. /\ loop' = "top" /\ socket_fd' = NoFd /\ open' = open \ {socket_fd}
      /\ socket_fd = NoFd => conns' = conns
      /\ UNCHANGED <<running, connected, logged_in, client_msg_seq_num, buffer, timed, app, req, fate, sent, asked, torn, meddled>>
  BY DEF ConnectFails
<1>4. Types'
  <2>1. conns' \in Seq(Conns) /\ Len(conns') <= MaxConns
    <3>1. CASE socket_fd = NoFd
      BY <1>3, <3>1 DEF Types
    <3>2. CASE socket_fd # NoFd
      <4>1. Len(conns) <= MaxConns /\ MaxConns \in Nat
        BY BoundsAssumption DEF Types
      <4> QED
        BY <1>1, <1>2, <3>2, <4>1
    <3> QED
      BY <3>1, <3>2
  <2> QED
    BY <1>3, <2>1 DEF Types, LoopPlaces
<1>5. SocketKnown'
  <2>1. CASE socket_fd = NoFd
    BY <1>3, <2>1 DEF SocketKnown
  <2>2. CASE socket_fd # NoFd
    <3>1. socket_fd = Len(conns) /\ Len(conns') = Len(conns) - 1
      BY <1>2, <2>2 DEF SocketKnown
    <3>2. open \subseteq 1..Len(conns) /\ open' = open \ {Len(conns)}
      BY <1>3, <3>1 DEF SocketKnown
    <3>3. open' \subseteq 1..(Len(conns) - 1)
      <4> SUFFICES ASSUME NEW x \in open' PROVE x \in 1..(Len(conns) - 1)
        OBVIOUS
      <4> DEFINE n == Len(conns)
      <4>1. x \in 1..n /\ x # n /\ n \in Nat
        BY <1>1, <3>2
      <4> HIDE DEF n
      <4>2. x \in 1..(n - 1)
        BY <4>1
      <4> QED
        BY <4>2 DEF n
    <3> QED
      BY <1>3, <3>1, <3>3 DEF SocketKnown
  <2> QED
    BY <2>1, <2>2
<1>6. ByPlace'
  BY <1>3 DEF ByPlace
<1>7. Stopped'
  BY <1>3 DEF Stopped, ConnectFails
<1>8. NumbersKept'
  <2>1. \A c \in DOMAIN conns' : c \in DOMAIN conns /\ conns'[c] = conns[c]
    <3>1. CASE socket_fd = NoFd
      BY <1>3, <3>1
    <3>2. CASE socket_fd # NoFd
      BY <1>1, <1>2, <3>2
    <3> QED
      BY <3>1, <3>2
  <2> QED
    BY <1>3, <2>1 DEF NumbersKept
<1>9. Boundaries'
  BY <1>3 DEF Boundaries
<1>10. WelcomePending'
  BY <1>3 DEF WelcomePending
<1>11. CaughtUp'
  BY <1>3 DEF CaughtUp
<1> QED
  BY <1>4, <1>5, <1>6, <1>7, <1>8, <1>9, <1>10, <1>11

LEMMA request_retransmissionStep ==
  ASSUME Inv, NEW r \in Requesters, request_retransmission(r)
  PROVE  Inv'
<1> USE DEF Inv, request_retransmission, HasSocket, Current, flags, bounds, history, Asking, NotAsking
<1>1. Types'
  <2>1. asked' \in 0..MaxAsked
    BY BoundsAssumption DEF Types
  <2>2. req' \in [Requesters -> ReqPlaces]
    BY DEF Types, ReqPlaces
  <2> QED
    BY <2>1, <2>2 DEF Types
<1>2. SocketKnown'
  BY DEF SocketKnown
<1>3. ByPlace'
  BY DEF ByPlace
<1>4. Stopped'
  BY DEF Stopped
<1>5. NumbersKept'
  <2>1. asked' # 0
    BY BoundsAssumption DEF Types
  <2> QED
    BY <2>1 DEF NumbersKept
<1>6. Boundaries'
  BY DEF Boundaries, Pending, Last
<1>7. WelcomePending'
  BY DEF WelcomePending, Pending, Types
<1>8. CaughtUp'
  BY DEF CaughtUp, Types
<1> QED
  BY <1>1, <1>2, <1>3, <1>4, <1>5, <1>6, <1>7, <1>8

LEMMA LoadNumberStep ==
  ASSUME Inv, NEW r \in Requesters, LoadNumber(r)
  PROVE  Inv'
<1> USE DEF Inv, LoadNumber, HasSocket, Current, flags, bounds, history, Asking, NotAsking
<1>1. Types'
  BY DEF Types, ReqPlaces
<1>2. SocketKnown'
  BY DEF SocketKnown
<1>3. ByPlace'
  BY DEF ByPlace
<1>4. Stopped'
  BY DEF Stopped
<1>5. NumbersKept'
  BY DEF NumbersKept
<1>6. Boundaries'
  BY DEF Boundaries, Pending, Last
<1>7. WelcomePending'
  BY DEF WelcomePending, Pending
<1>8. CaughtUp'
  BY DEF CaughtUp, Types
<1> QED
  BY <1>1, <1>2, <1>3, <1>4, <1>5, <1>6, <1>7, <1>8

LEMMA StoreNumberStep ==
  ASSUME Inv, NEW r \in Requesters, StoreNumber(r)
  PROVE  Inv'
<1> USE DEF Inv, StoreNumber, HasSocket, Current, flags, bounds, history, Asking, NotAsking
<1>1. Types'
  BY DEF Types, ReqPlaces
<1>2. SocketKnown'
  BY DEF SocketKnown
<1>3. ByPlace'
  BY DEF ByPlace
<1>4. Stopped'
  BY DEF Stopped
<1>5. NumbersKept'
  BY DEF NumbersKept
<1>6. Boundaries'
  BY DEF Boundaries, Pending, Last
<1>7. WelcomePending'
  BY DEF WelcomePending, Pending
<1>8. CaughtUp'
  BY DEF CaughtUp, Types
<1> QED
  BY <1>1, <1>2, <1>3, <1>4, <1>5, <1>6, <1>7, <1>8

LEMMA SendRequestFailsStep ==
  ASSUME Inv, NEW r \in Requesters, SendRequestFails(r)
  PROVE  Inv'
<1> USE DEF Inv, SendRequestFails, HasSocket, Current, flags, bounds, history, Asking, NotAsking
<1>1. Types'
  BY DEF Types, ReqPlaces
<1>2. SocketKnown'
  BY DEF SocketKnown
<1>3. ByPlace'
  BY DEF ByPlace
<1>4. Stopped'
  BY DEF Stopped
<1>5. NumbersKept'
  BY DEF NumbersKept
<1>6. Boundaries'
  BY DEF Boundaries, Pending, Last
<1>7. WelcomePending'
  BY DEF WelcomePending, Pending
<1>8. CaughtUp'
  BY DEF CaughtUp, Types
<1> QED
  BY <1>1, <1>2, <1>3, <1>4, <1>5, <1>6, <1>7, <1>8

LEMMA ClearFlagsStep ==
  ASSUME Inv, NEW r \in Requesters, ClearFlags(r)
  PROVE  Inv'
<1> USE DEF Inv, ClearFlags, HasSocket, Current, flags, bounds, history, Asking, NotAsking
<1>1. Types'
  BY DEF Types, ReqPlaces
<1>2. SocketKnown'
  BY DEF SocketKnown
<1>3. ByPlace'
  BY DEF ByPlace
<1>4. Stopped'
  BY DEF Stopped
<1>5. NumbersKept'
  BY DEF NumbersKept
<1>6. Boundaries'
  BY DEF Boundaries, Pending, Last
<1>7. WelcomePending'
  BY DEF WelcomePending, Pending
<1>8. CaughtUp'
  BY DEF CaughtUp, Types
<1> QED
  BY <1>1, <1>2, <1>3, <1>4, <1>5, <1>6, <1>7, <1>8

\* Bytes that are read move from the connection to the buffer.
LEMMA RecvBytesStep ==
  ASSUME Inv, RecvBytes
  PROVE  Inv'
<1> USE DEF Inv, HasSocket, Current, flags, bounds, history
<1>0. PICK fd : fd = Reading
  OBVIOUS
<1>1. /\ fd \in DOMAIN conns /\ conns \in Seq(Conns) /\ DOMAIN conns = 1..Len(conns)
      /\ socket_fd # NoFd => socket_fd = fd
      /\ loop = "blocked" => fd = Len(conns)
      /\ loop # "blocked" => socket_fd = fd /\ socket_fd # NoFd
  <2>1. conns \in Seq(Conns) /\ DOMAIN conns = 1..Len(conns) /\ Len(conns) \in Nat
    BY LenProperties DEF Types
  <2>2. CASE loop = "blocked"
    BY <1>0, <2>1, <2>2 DEF Reading, SocketKnown, Boundaries
  <2>3. CASE loop # "blocked"
    BY <1>0, <2>1, <2>3 DEF Reading, CanRead, RecvBytes, SocketKnown, NoFd
  <2> QED
    BY <2>1, <2>2, <2>3
<1>2. /\ loop \in {"recv", "blocked"} /\ loop' = "handle"
      /\ UNCHANGED <<running, connected, logged_in, socket_fd, client_msg_seq_num, open,
                     timed, app, req, fate, sent, asked, torn, meddled>>
  BY DEF RecvBytes, CanRead
<1>3. PICK n \in 1..Len(conns[fd].out) :
        /\ buffer' = buffer \o SubSeq(conns[fd].out, 1, n)
        /\ conns' = [conns EXCEPT ![fd].out = Drop(@, n)]
  BY <1>0 DEF RecvBytes
<1>4. /\ conns[fd] \in Conns /\ conns[fd].out \in Seq(Halves)
      /\ n \in 0..Len(conns[fd].out) /\ buffer \in Seq(Halves)
  <2>1. conns[fd] \in Conns
    BY <1>1, ElementOfSeq
  <2>2. conns[fd].out \in Seq(Halves)
    BY <2>1 DEF Conns
  <2>3. Len(conns[fd].out) \in Nat
    BY <2>2, LenProperties
  <2> QED
    BY <2>1, <2>2, <2>3 DEF Types
<1>5. /\ buffer' \in Seq(Halves) /\ Drop(conns[fd].out, n) \in Seq(Halves)
  <2>1. SubSeq(conns[fd].out, 1, n) \in Seq(Halves)
    BY <1>4, Taken
  <2>2. Drop(conns[fd].out, n) \in Seq(Halves)
    BY <1>4, Dropped
  <2> QED
    BY <1>3, <1>4, <2>1, <2>2, ConcatProperties
<1>6. /\ conns' \in Seq(Conns) /\ Len(conns') = Len(conns) /\ DOMAIN conns' = DOMAIN conns
      /\ \A c \in DOMAIN conns : conns'[c].got = conns[c].got
      /\ conns'[fd].up = conns[fd].up /\ conns'[fd].said = conns[fd].said
      /\ conns'[fd].out = Drop(conns[fd].out, n)
  <2> DEFINE o == Drop(conns[fd].out, n)
             d == [conns[fd] EXCEPT !.out = o]
  <2>1. o \in Seq(Halves)
    BY <1>5
  <2> HIDE DEF o
  <2>2. /\ d \in Conns /\ d.got = conns[fd].got /\ d.up = conns[fd].up
        /\ d.said = conns[fd].said /\ d.out = o
    BY <1>4, <2>1 DEF Conns
  <2>3. conns' = [conns EXCEPT ![fd] = d]
    BY <1>3, <1>1 DEF o
  <2> HIDE DEF d
  <2>4. DOMAIN conns' = DOMAIN conns
    BY <2>3
  <2> QED
    BY <1>1, <2>2, <2>3, <2>4, ExceptSeq DEF o
<1>7. buffer' \o conns'[fd].out = buffer \o conns[fd].out
  <2>1. (buffer \o SubSeq(conns[fd].out, 1, n)) \o Drop(conns[fd].out, n)
          = buffer \o conns[fd].out
    BY <1>4, ReadMoves
  <2> QED
    BY <1>3, <1>6, <2>1
<1>8. Types'
  BY <1>2, <1>5, <1>6 DEF Types, LoopPlaces
<1>9. SocketKnown'
  BY <1>2, <1>6 DEF SocketKnown
<1>10. ByPlace'
  BY <1>2 DEF ByPlace
<1>11. Stopped'
  BY <1>2 DEF Stopped
<1>12. NumbersKept'
  BY <1>1, <1>2, <1>6 DEF NumbersKept
<1>13. Boundaries'
  <2>1. ASSUME ~ torn PROVE Whole(buffer')
    <3>1. Whole(buffer' \o conns'[fd].out)
      BY <1>1, <1>7, <2>1 DEF Boundaries, Pending, Last
    <3>2. buffer' \in Seq(Halves) /\ conns'[fd].out \in Seq(Halves)
      BY <1>5, <1>6
    <3> QED
      BY <3>1, <3>2, WholeFront
  <2> QED
    BY <1>1, <1>2, <1>6, <1>7, <2>1 DEF Boundaries, Pending, Last
<1>14. WelcomePending'
  BY <1>1, <1>2, <1>6, <1>7 DEF WelcomePending, Pending
<1>15. CaughtUp'
  BY <1>2 DEF CaughtUp
<1> QED
  BY <1>8, <1>9, <1>10, <1>11, <1>12, <1>13, <1>14, <1>15

\* Garbage is only ever found after a connection that was cut.
LEMMA BufferGarbageStep ==
  ASSUME Inv, BufferGarbage
  PROVE  Inv'
<1> USE DEF Inv, HasSocket, Current, flags, bounds, history
<1>1. UNCHANGED <<running, connected, logged_in, socket_fd, client_msg_seq_num, open, loop, timed, app,
                  req, fate, conns, sent, asked, torn, meddled>>
      /\ loop = "handle"
  BY DEF BufferGarbage
<1>2. buffer' \in Seq(Halves)
  <2>1. PICK n \in 1..Len(buffer) : buffer' = Drop(buffer, n)
    BY DEF BufferGarbage
  <2>2. buffer \in Seq(Halves) /\ n \in 0..Len(buffer)
    BY LenProperties DEF Types
  <2> QED
    BY <2>1, <2>2, Dropped
<1>3. torn
  <2>1. buffer # << >> /\ ~ Aligned(buffer) /\ buffer \in Seq(Halves)
    BY DEF BufferGarbage, Types
  <2>2. 1 \in DOMAIN buffer
    BY <2>1, EmptySeq, LenProperties
  <2>3. buffer[1].part # "head"
    BY <2>1 DEF Aligned
  <2>4. 1 % 2 = 1
    OBVIOUS
  <2> QED
    BY <2>2, <2>3, <2>4 DEF Boundaries, Whole, Types
<1>4. Types'
  BY <1>1, <1>2 DEF Types
<1>5. SocketKnown'
  BY <1>1 DEF SocketKnown
<1>6. ByPlace'
  BY <1>1 DEF ByPlace
<1>7. Stopped'
  BY <1>1 DEF Stopped
<1>8. NumbersKept'
  BY <1>1 DEF NumbersKept
<1>9. Boundaries'
  BY <1>1, <1>3 DEF Boundaries
<1>10. WelcomePending'
  BY <1>1, <1>3 DEF WelcomePending
<1>11. CaughtUp'
  BY <1>1 DEF CaughtUp
<1> QED
  BY <1>4, <1>5, <1>6, <1>7, <1>8, <1>9, <1>10, <1>11

\* After b, what is in flight on connection d completes messages.
EndsWhole(b, d) == Whole(b \o d.out) /\ (d.up => Len(b \o d.out) % 2 = 0)

\* The boundaries stay if they do on the connection that is read.
LEMMA BoundariesKept ==
  ASSUME Boundaries, UNCHANGED <<buffer, torn, loop, socket_fd>>, Len(conns') = Len(conns),
         HasSocket /\ EndsWhole(buffer, conns[socket_fd]) => EndsWhole(buffer, conns'[socket_fd]),
         loop = "blocked" /\ EndsWhole(buffer, conns[Len(conns)]) =>
           EndsWhole(buffer, conns'[Len(conns)])
  PROVE  Boundaries'
<1>1. ~ torn' /\ HasSocket' => EndsWhole(buffer, conns[socket_fd])'
  BY DEF Boundaries, Pending, Current, HasSocket, EndsWhole
<1>2. ~ torn' /\ loop' = "blocked" => EndsWhole(buffer, Last)'
  BY DEF Boundaries, Last, EndsWhole
<1>3. (loop = "blocked" => Len(conns) >= 1)' /\ (~ torn => Whole(buffer))'
  BY DEF Boundaries
<1> QED
  BY <1>1, <1>2, <1>3 DEF Boundaries, Pending, Current, EndsWhole

\* What there is to show of a step of the server on connection c.
LEMMA ServerSide ==
  ASSUME Inv, NEW c \in DOMAIN conns, NEW d \in Conns, conns' = [conns EXCEPT ![c] = d],
         conns[c].up, d.got = conns[c].got,
         \/ d.said = conns[c].said
         \/ conns[c].said # "nothing"
         \/ \E i \in DOMAIN conns[c].got : conns[c].got[i][1] = "020",
         \A b \in Seq(Halves) :
           Whole(b \o conns[c].out) /\ Len(b \o conns[c].out) % 2 = 0 =>
             Whole(b \o d.out) /\ (d.up => Len(b \o d.out) % 2 = 0),
         \A b \in Seq(Halves), l \in BOOLEAN :
           /\ d.up /\ d.said = "welcome"
           /\ conns[c].said = "welcome" => LoggedInAfter(l, b \o conns[c].out)
           => LoggedInAfter(l, b \o d.out),
         d.up => d.out # << >>,
         sent' \in 0..MaxSent,
         UNCHANGED <<running, connected, logged_in, socket_fd, client_msg_seq_num, buffer, open,
                     loop, timed, app, req, fate, asked, torn, meddled>>
  PROVE  Inv'
<1> USE DEF Inv, HasSocket, Current
<1>1. conns \in Seq(Conns) /\ DOMAIN conns = 1..Len(conns)
  BY LenProperties DEF Types
<1>2. /\ conns' \in Seq(Conns) /\ Len(conns') = Len(conns)
      /\ \A e \in DOMAIN conns : conns'[e] = IF e = c THEN d ELSE conns[e]
  BY <1>1, ExceptSeq
<1>3. DOMAIN conns' = DOMAIN conns
  OBVIOUS
<1>4. socket_fd # NoFd => socket_fd \in DOMAIN conns
  <2>1. Len(conns) \in Nat
    BY <1>1, LenProperties
  <2> QED
    BY <1>1, <2>1 DEF SocketKnown
<1>5. Types'
  BY <1>2 DEF Types
<1>6. SocketKnown'
  BY <1>2 DEF SocketKnown
<1>7. ByPlace'
  BY <1>2, <1>4 DEF ByPlace, NewConn
<1>8. Stopped'
  BY DEF Stopped
<1>9. NumbersKept'
  <2>1. \A e \in DOMAIN conns : conns'[e].got = conns[e].got
    BY <1>2
  <2>2. \A e \in DOMAIN conns : conns'[e].up => conns[e].up
    BY <1>2
  <2> QED
    BY <1>3, <1>4, <2>1, <2>2 DEF NumbersKept
<1>10. Boundaries'
  <2>1. buffer \in Seq(Halves) /\ Len(conns) \in Nat
    BY <1>1, LenProperties DEF Types
  <2>2. ASSUME NEW e \in DOMAIN conns, EndsWhole(buffer, conns[e])
        PROVE  EndsWhole(buffer, conns'[e])
    BY <1>2, <2>1, <2>2 DEF EndsWhole
  <2>3. HasSocket /\ EndsWhole(buffer, conns[socket_fd]) => EndsWhole(buffer, conns'[socket_fd])
    BY <1>4, <2>2
  <2>4. loop = "blocked" => Len(conns) \in DOMAIN conns
    BY <1>1, <2>1 DEF Boundaries
  <2>5. loop = "blocked" /\ EndsWhole(buffer, conns[Len(conns)]) =>
          EndsWhole(buffer, conns'[Len(conns)])
    BY <2>2, <2>4
  <2> QED
    BY <1>2, <2>3, <2>5, BoundariesKept
<1>11. WelcomePending'
  <2>1. CASE socket_fd = c
    BY <1>2, <1>4, <2>1 DEF WelcomePending, Pending, Types
  <2>2. CASE socket_fd # c
    BY <1>2, <1>4, <2>2 DEF WelcomePending, Pending
  <2> QED
    BY <2>1, <2>2
<1>12. CaughtUp'
  BY <1>2, <1>4 DEF CaughtUp
<1> QED
  BY <1>5, <1>6, <1>7, <1>8, <1>9, <1>10, <1>11, <1>12

\* A message that the server sends on a connection.
LEMMA ServerMessage ==
  ASSUME NEW o \in Seq(Halves), NEW c \in 1..MaxConns, NEW k \in Kinds
  PROVE  /\ o \o Bytes(c, k) \in Seq(Halves) /\ o \o Bytes(c, k) # << >>
         /\ \A b \in Seq(Halves) :
              Whole(b \o o) /\ Len(b \o o) % 2 = 0 =>
                Whole(b \o (o \o Bytes(c, k))) /\ Len(b \o (o \o Bytes(c, k))) % 2 = 0
         /\ \A b \in Seq(Halves), l \in BOOLEAN :
              k = "050" \/ (k # "010" /\ LoggedInAfter(l, b \o o)) =>
                LoggedInAfter(l, b \o (o \o Bytes(c, k)))
<1>1. o \o Bytes(c, k) \in Seq(Halves) /\ o \o Bytes(c, k) # << >>
  BY OneMore
<1>2. ASSUME NEW b \in Seq(Halves)
      PROVE  b \o o \in Seq(Halves) /\ b \o (o \o Bytes(c, k)) = (b \o o) \o Bytes(c, k)
  BY MoreSent, ConcatProperties
<1>3. ASSUME NEW b \in Seq(Halves), Whole(b \o o), Len(b \o o) % 2 = 0
      PROVE  Whole(b \o (o \o Bytes(c, k))) /\ Len(b \o (o \o Bytes(c, k))) % 2 = 0
  BY <1>2, <1>3, WholeMore
<1>4. ASSUME NEW b \in Seq(Halves), NEW l \in BOOLEAN,
             k = "050" \/ (k # "010" /\ LoggedInAfter(l, b \o o))
      PROVE  LoggedInAfter(l, b \o (o \o Bytes(c, k)))
  BY <1>2, <1>4, AfterMore
<1> QED
  BY <1>1, <1>3, <1>4

\* From the welcome on, the client is going to be logged in.
LEMMA WelcomeStep ==
  ASSUME Inv, NEW c \in DOMAIN conns, Welcome(c)
  PROVE  Inv'
<1> DEFINE o == conns[c].out \o Bytes(c, "050")
           d == [conns[c] EXCEPT !.said = "welcome", !.out = o]
<1>1. /\ conns \in Seq(Conns) /\ DOMAIN conns = 1..Len(conns) /\ Len(conns) \in Nat
      /\ Len(conns) <= MaxConns
  BY LenProperties DEF Inv, Types
<1>2. c \in 1..MaxConns /\ conns[c] \in Conns
  BY <1>1, BoundsAssumption, ElementOfSeq
<1>3. conns[c].out \in Seq(Halves) /\ "050" \in Kinds
  BY <1>2 DEF Conns, Kinds
<1>4. /\ o \in Seq(Halves) /\ o # << >>
      /\ \A b \in Seq(Halves) :
           Whole(b \o conns[c].out) /\ Len(b \o conns[c].out) % 2 = 0 =>
             Whole(b \o o) /\ Len(b \o o) % 2 = 0
      /\ \A b \in Seq(Halves), l \in BOOLEAN :
           "050" = "050" \/ ("050" # "010" /\ LoggedInAfter(l, b \o conns[c].out)) =>
             LoggedInAfter(l, b \o o)
  BY <1>2, <1>3, ServerMessage
<1>5. conns' = [conns EXCEPT ![c] = d]
  BY <1>2 DEF Welcome
<1> HIDE DEF o
<1>6. /\ d \in Conns /\ d.got = conns[c].got /\ d.up = conns[c].up
      /\ d.said = "welcome" /\ d.out = o
  BY <1>2, <1>4 DEF Conns
<1>7. sent' \in 0..MaxSent
  BY BoundsAssumption DEF Inv, Types, Welcome, bounds
<1>8. /\ conns[c].up
      /\ UNCHANGED <<running, connected, logged_in, socket_fd, client_msg_seq_num, buffer, open,
                     loop, timed, app, req, fate, asked, torn, meddled>>
  BY DEF Welcome, flags, bounds, history
<1>9. \/ d.said = conns[c].said
      \/ conns[c].said # "nothing"
      \/ \E i \in DOMAIN conns[c].got : conns[c].got[i][1] = "020"
  BY <1>6 DEF Welcome
<1>10. \A b \in Seq(Halves), l \in BOOLEAN : LoggedInAfter(l, b \o o)
  BY <1>4, <1>6 DEF Welcome
<1>11. /\ \A b \in Seq(Halves) :
            Whole(b \o conns[c].out) /\ Len(b \o conns[c].out) % 2 = 0 =>
              Whole(b \o d.out) /\ (d.up => Len(b \o d.out) % 2 = 0)
       /\ \A b \in Seq(Halves), l \in BOOLEAN :
            /\ d.up /\ d.said = "welcome"
            /\ conns[c].said = "welcome" => LoggedInAfter(l, b \o conns[c].out)
            => LoggedInAfter(l, b \o d.out)
       /\ d.up => d.out # << >>
  BY <1>4, <1>6, <1>10
<1> HIDE DEF d
<1> QED
  BY <1>5, <1>6, <1>7, <1>8, <1>9, <1>11, ServerSide

LEMMA ServerSendsStep ==
  ASSUME Inv, NEW c \in DOMAIN conns, NEW k \in {"104", "data"}, ServerSends(c, k)
  PROVE  Inv'
<1> DEFINE o == conns[c].out \o Bytes(c, k)
           d == [conns[c] EXCEPT !.out = o]
<1>1. /\ conns \in Seq(Conns) /\ DOMAIN conns = 1..Len(conns) /\ Len(conns) \in Nat
      /\ Len(conns) <= MaxConns
  BY LenProperties DEF Inv, Types
<1>2. c \in 1..MaxConns /\ conns[c] \in Conns
  BY <1>1, BoundsAssumption, ElementOfSeq
<1>3. conns[c].out \in Seq(Halves) /\ k \in Kinds
  BY <1>2 DEF Conns, Kinds
<1>4. /\ o \in Seq(Halves) /\ o # << >>
      /\ \A b \in Seq(Halves) :
           Whole(b \o conns[c].out) /\ Len(b \o conns[c].out) % 2 = 0 =>
             Whole(b \o o) /\ Len(b \o o) % 2 = 0
      /\ \A b \in Seq(Halves), l \in BOOLEAN :
           k = "050" \/ (k # "010" /\ LoggedInAfter(l, b \o conns[c].out)) =>
             LoggedInAfter(l, b \o o)
  BY <1>2, <1>3, ServerMessage
<1>5. conns' = [conns EXCEPT ![c] = d]
  BY <1>2 DEF ServerSends
<1> HIDE DEF o
<1>6. /\ d \in Conns /\ d.got = conns[c].got /\ d.up = conns[c].up
      /\ d.said = conns[c].said /\ d.out = o
  BY <1>2, <1>4 DEF Conns
<1>7. sent' \in 0..MaxSent
  BY BoundsAssumption DEF Inv, Types, ServerSends, bounds
<1>8. /\ conns[c].up
      /\ UNCHANGED <<running, connected, logged_in, socket_fd, client_msg_seq_num, buffer, open,
                     loop, timed, app, req, fate, asked, torn, meddled>>
  BY DEF ServerSends, flags, bounds, history
<1>9. \/ d.said = conns[c].said
      \/ conns[c].said # "nothing"
      \/ \E i \in DOMAIN conns[c].got : conns[c].got[i][1] = "020"
  BY <1>6 DEF ServerSends
<1>10. k # "010" /\ conns[c].said = "welcome"
  BY <1>4, <1>6 DEF ServerSends
<1>11. /\ \A b \in Seq(Halves) :
            Whole(b \o conns[c].out) /\ Len(b \o conns[c].out) % 2 = 0 =>
              Whole(b \o d.out) /\ (d.up => Len(b \o d.out) % 2 = 0)
       /\ \A b \in Seq(Halves), l \in BOOLEAN :
            /\ d.up /\ d.said = "welcome"
            /\ conns[c].said = "welcome" => LoggedInAfter(l, b \o conns[c].out)
            => LoggedInAfter(l, b \o d.out)
       /\ d.up => d.out # << >>
  BY <1>4, <1>6, <1>10
<1> HIDE DEF d
<1> QED
  BY <1>5, <1>6, <1>7, <1>8, <1>9, <1>11, ServerSide

LEMMA DismissStep ==
  ASSUME Inv, NEW c \in DOMAIN conns, Dismiss(c)
  PROVE  Inv'
<1> DEFINE o == conns[c].out \o Bytes(c, "010")
           d == [conns[c] EXCEPT !.said = "dismissed", !.out = o]
<1>1. /\ conns \in Seq(Conns) /\ DOMAIN conns = 1..Len(conns) /\ Len(conns) \in Nat
      /\ Len(conns) <= MaxConns
  BY LenProperties DEF Inv, Types
<1>2. c \in 1..MaxConns /\ conns[c] \in Conns
  BY <1>1, BoundsAssumption, ElementOfSeq
<1>3. conns[c].out \in Seq(Halves) /\ "010" \in Kinds
  BY <1>2 DEF Conns, Kinds
<1>4. /\ o \in Seq(Halves) /\ o # << >>
      /\ \A b \in Seq(Halves) :
           Whole(b \o conns[c].out) /\ Len(b \o conns[c].out) % 2 = 0 =>
             Whole(b \o o) /\ Len(b \o o) % 2 = 0
      /\ \A b \in Seq(Halves), l \in BOOLEAN :
           "010" = "050" \/ ("010" # "010" /\ LoggedInAfter(l, b \o conns[c].out)) =>
             LoggedInAfter(l, b \o o)
  BY <1>2, <1>3, ServerMessage
<1>5. conns' = [conns EXCEPT ![c] = d]
  BY <1>2 DEF Dismiss
<1> HIDE DEF o
<1>6. /\ d \in Conns /\ d.got = conns[c].got /\ d.up = conns[c].up
      /\ d.said = "dismissed" /\ d.out = o
  BY <1>2, <1>4 DEF Conns
<1>7. sent' \in 0..MaxSent
  BY BoundsAssumption DEF Inv, Types, Dismiss, bounds
<1>8. /\ conns[c].up
      /\ UNCHANGED <<running, connected, logged_in, socket_fd, client_msg_seq_num, buffer, open,
                     loop, timed, app, req, fate, asked, torn, meddled>>
  BY DEF Dismiss, flags, bounds, history
<1>9. \/ d.said = conns[c].said
      \/ conns[c].said # "nothing"
      \/ \E i \in DOMAIN conns[c].got : conns[c].got[i][1] = "020"
  BY <1>6 DEF Dismiss
<1>10. d.said # "welcome"
  BY <1>4, <1>6 DEF Dismiss
<1>11. /\ \A b \in Seq(Halves) :
            Whole(b \o conns[c].out) /\ Len(b \o conns[c].out) % 2 = 0 =>
              Whole(b \o d.out) /\ (d.up => Len(b \o d.out) % 2 = 0)
       /\ \A b \in Seq(Halves), l \in BOOLEAN :
            /\ d.up /\ d.said = "welcome"
            /\ conns[c].said = "welcome" => LoggedInAfter(l, b \o conns[c].out)
            => LoggedInAfter(l, b \o d.out)
       /\ d.up => d.out # << >>
  BY <1>4, <1>6, <1>10
<1> HIDE DEF d
<1> QED
  BY <1>5, <1>6, <1>7, <1>8, <1>9, <1>11, ServerSide

LEMMA ServerClosesStep ==
  ASSUME Inv, NEW c \in DOMAIN conns, ServerCloses(c)
  PROVE  Inv'
<1>1. /\ conns \in Seq(Conns) /\ DOMAIN conns = 1..Len(conns)
  BY LenProperties DEF Inv, Types
<1>2. conns[c] \in Conns /\ conns[c].out \in Seq(Halves)
  <2>1. conns[c] \in Conns
    BY <1>1, ElementOfSeq
  <2> QED
    BY <2>1 DEF Conns
<1>3. PICK n \in 0..Len(conns[c].out) :
        conns' = [conns EXCEPT ![c].up = FALSE, ![c].out = SubSeq(@, 1, n)]
  BY DEF ServerCloses
<1> DEFINE o == SubSeq(conns[c].out, 1, n)
           d == [conns[c] EXCEPT !.up = FALSE, !.out = o]
<1>4. o \in Seq(Halves)
  BY <1>2, Taken
<1>5. \A b \in Seq(Halves) : Whole(b \o conns[c].out) => Whole(b \o o)
  BY <1>2, WholeCut
<1>6. conns' = [conns EXCEPT ![c] = d]
  BY <1>2, <1>3
<1> HIDE DEF o
<1>7. /\ d \in Conns /\ d.got = conns[c].got /\ d.up = FALSE
      /\ d.said = conns[c].said /\ d.out = o
  BY <1>2, <1>4 DEF Conns
<1>8. sent' \in 0..MaxSent
  BY DEF Inv, Types, ServerCloses, bounds
<1>9. /\ conns[c].up
      /\ UNCHANGED <<running, connected, logged_in, socket_fd, client_msg_seq_num, buffer, open,
                     loop, timed, app, req, fate, asked, torn, meddled>>
  BY DEF ServerCloses, flags, bounds, history
<1> HIDE DEF d
<1> QED
  BY <1>5, <1>6, <1>7, <1>8, <1>9, ServerSide

-----------------------------------------------------------------------------
(* The steps that send *)

\* What a message does to the server's side: nothing, if the server is gone.
Received(m) ==
  /\ conns' \in Seq(Conns) /\ Len(conns') = Len(conns) /\ DOMAIN conns' = DOMAIN conns
  /\ \A c \in DOMAIN conns :
       /\ conns'[c].up = conns[c].up /\ conns'[c].out = conns[c].out
       /\ conns'[c].said = conns[c].said
       /\ c # socket_fd => conns'[c].got = conns[c].got
  /\ Current.up => conns'[socket_fd].got = Append(Current.got, m)
  /\ ~ Current.up => conns'[socket_fd].got = Current.got

LEMMA TransmittedEffect ==
  ASSUME Types, SocketKnown, HasSocket, NEW m \in Sendings, conns' = Transmitted(m)
  PROVE  socket_fd \in DOMAIN conns /\ Current \in Conns /\ Received(m)
<1> USE DEF HasSocket, Current
<1>1. conns \in Seq(Conns) /\ DOMAIN conns = 1..Len(conns) /\ Len(conns) \in Nat
  BY LenProperties DEF Types
<1>2. socket_fd \in DOMAIN conns
  BY <1>1 DEF SocketKnown
<1>3. conns[socket_fd] \in Conns
  BY <1>1, <1>2, ElementOfSeq
<1>4. CASE conns[socket_fd].up
  <2> DEFINE g == Append(conns[socket_fd].got, m)
             d == [conns[socket_fd] EXCEPT !.got = g]
  <2>1. g \in Seq(Sendings)
    <3>1. conns[socket_fd].got \in Seq(Sendings)
      BY <1>3 DEF Conns
    <3> QED
      BY <3>1, AppendProperties
  <2>2. conns' = [conns EXCEPT ![socket_fd] = d]
    BY <1>2, <1>4 DEF Transmitted
  <2> HIDE DEF g
  <2>3. /\ d \in Conns /\ d.up = conns[socket_fd].up /\ d.out = conns[socket_fd].out
        /\ d.said = conns[socket_fd].said /\ d.got = g
    BY <1>3, <2>1 DEF Conns
  <2> HIDE DEF d
  <2>4. /\ conns' \in Seq(Conns) /\ Len(conns') = Len(conns)
        /\ \A c \in DOMAIN conns : conns'[c] = IF c = socket_fd THEN d ELSE conns[c]
    BY <1>1, <1>2, <2>2, <2>3, ExceptSeq
  <2>5. DOMAIN conns' = DOMAIN conns
    BY <2>2
  <2> QED
    BY <1>2, <1>3, <1>4, <2>3, <2>4, <2>5 DEF g, Received
<1>5. CASE ~ conns[socket_fd].up
  <2>1. conns' = conns
    BY <1>5 DEF Transmitted
  <2> QED
    BY <1>1, <1>2, <1>3, <1>5, <2>1 DEF Received
<1> QED
  BY <1>4, <1>5

\* The three outcomes of send_tcp_message on client_thread_: nothing is connected,
\* the message is under way, or the connection is given up.
LEMMA SendTcpEffect ==
  ASSUME Types, SocketKnown, NEW m \in Sendings, SendTcp(m)
  PROVE  \/ /\ ~ connected \/ ~ HasSocket
            /\ UNCHANGED <<socket_fd, connected, logged_in, open, fate, conns>>
         \/ /\ connected /\ HasSocket /\ socket_fd \in DOMAIN conns /\ Current \in Conns
            /\ Received(m)
            /\ UNCHANGED <<socket_fd, connected, logged_in, open, fate>>
         \/ /\ connected' = FALSE /\ logged_in' = FALSE /\ socket_fd' = NoFd
            /\ open' \subseteq open /\ fate' \in {fate, "terminated"} /\ conns' = conns
<1>1. CASE Unsendable /\ UNCHANGED <<socket_fd, connected, logged_in, open, fate, conns>>
  BY <1>1 DEF Unsendable, HasSocket
<1>2. CASE /\ ~ Unsendable /\ conns' = Transmitted(m)
           /\ UNCHANGED <<socket_fd, connected, logged_in, open, fate>>
  <2>1. connected /\ HasSocket
    BY <1>2 DEF Unsendable, HasSocket, Types
  <2> QED
    BY <1>2, <2>1, TransmittedEffect
<1>3. CASE Disconnect /\ UNCHANGED conns
  BY <1>3 DEF Disconnect, OnDisconnected
<1> QED
  BY <1>1, <1>2, <1>3 DEF SendTcp

\* The next message in order.
LEMMA NextInOrder ==
  ASSUME NEW g \in Seq(Sendings), InOrder(g), NEW m \in Sendings,
         m = <<IF Len(g) = 0 THEN "020" ELSE "105", Len(g)>>
  PROVE  /\ InOrder(Append(g, m)) /\ Len(Append(g, m)) = Len(g) + 1 /\ Len(g) \in Nat
<1> DEFINE n == Append(g, m)
<1>1. /\ n \in Seq(Sendings) /\ n # << >> /\ Len(n) = Len(g) + 1
      /\ \A i \in 1..Len(g) : n[i] = g[i]
      /\ n[Len(g) + 1] = m
  BY AppendProperties
<1>2. DOMAIN n = 1..(Len(g) + 1) /\ DOMAIN g = 1..Len(g) /\ Len(g) \in Nat
  BY <1>1, LenProperties
<1> HIDE DEF n
<1>3. ASSUME NEW i \in DOMAIN n
      PROVE  n[i] = <<IF i = 1 THEN "020" ELSE "105", i - 1>>
  <2>1. CASE i \in 1..Len(g)
    BY <1>1, <1>2, <2>1 DEF InOrder
  <2>2. CASE i = Len(g) + 1
    <3>1. (i = 1 <=> Len(g) = 0) /\ i - 1 = Len(g)
      BY <1>2, <2>2
    <3> QED
      BY <1>1, <2>2, <3>1
  <2> QED
    BY <1>2, <2>1, <2>2
<1>4. InOrder(n)
  BY <1>3 DEF InOrder
<1> QED
  BY <1>1, <1>2, <1>4 DEF n

\* The numbers of a connection start with its login request.
LEMMA perform_loginStep ==
  ASSUME Inv, perform_login
  PROVE  Inv'
<1> USE DEF Inv, HasSocket, Current, flags, bounds, history
<1>1. /\ loop = "login" /\ loop' = "recv" /\ ~ logged_in
      /\ UNCHANGED <<running, buffer, timed, app, req, sent, asked, torn, meddled>>
  BY DEF perform_login, ByPlace
<1>2. /\ client_msg_seq_num' \in Nat
      /\ \/ /\ ~ connected \/ ~ HasSocket
            /\ UNCHANGED <<socket_fd, connected, logged_in, open, fate, conns>>
         \/ /\ connected /\ HasSocket /\ socket_fd \in DOMAIN conns /\ Current \in Conns
            /\ Received(<<"020", 0>>) /\ client_msg_seq_num' = 1
            /\ UNCHANGED <<socket_fd, connected, logged_in, open, fate>>
         \/ /\ connected' = FALSE /\ logged_in' = FALSE /\ socket_fd' = NoFd
            /\ open' \subseteq open /\ fate' \in {fate, "terminated"} /\ conns' = conns
  <2>1. CASE connected
    <3>1. client_msg_seq_num' = 1 /\ SendTcp(<<"020", 0>>)
      BY <1>1, <2>1 DEF perform_login
    <3>2. <<"020", 0>> \in Sendings
      BY DEF Sendings
    <3>3. connected /\ Types /\ SocketKnown
      BY <2>1
    <3> QED
      BY <3>1, <3>2, <3>3, SendTcpEffect
  <2>2. CASE ~ connected
    BY <2>2 DEF perform_login, Types
  <2> QED
    BY <2>1, <2>2
<1>3. Types'
  BY <1>1, <1>2 DEF Types, LoopPlaces, Received
<1>4. SocketKnown'
  BY <1>2 DEF SocketKnown, Received
<1>5. ByPlace'
  BY <1>1 DEF ByPlace
<1>6. Stopped'
  BY <1>1, <1>2 DEF Stopped
<1>7. NumbersKept'
  <2> SUFFICES ASSUME asked = 0 PROVE NumbersKept'
    BY <1>1 DEF NumbersKept
  <2>1. CASE ~ connected \/ ~ HasSocket
    BY <1>1, <1>2, <2>1 DEF NumbersKept
  <2>2. CASE connected' = FALSE /\ conns' = conns
    BY <1>1, <2>2 DEF NumbersKept
  <2>3. CASE /\ HasSocket /\ socket_fd \in DOMAIN conns /\ Received(<<"020", 0>>)
             /\ client_msg_seq_num' = 1 /\ UNCHANGED <<socket_fd, connected>>
    <3>1. Current.got = << >> /\ InOrder(<< >>) /\ << >> \in Seq(Sendings) /\ Len(<< >>) = 0
      BY <1>1, <2>3, EmptySeq DEF NumbersKept, InOrder
    <3>2. <<"020", 0>> \in Sendings
      BY DEF Sendings
    <3>3. InOrder(Append(Current.got, <<"020", 0>>)) /\ Len(Append(Current.got, <<"020", 0>>)) = 1
      <4> DEFINE g == Current.got
                 m == <<"020", 0>>
      <4>1. /\ g \in Seq(Sendings) /\ InOrder(g) /\ Len(g) = 0 /\ m \in Sendings
            /\ m = <<IF Len(g) = 0 THEN "020" ELSE "105", Len(g)>>
        BY <3>1, <3>2
      <4> HIDE DEF g, m
      <4>2. InOrder(Append(g, m)) /\ Len(Append(g, m)) = Len(g) + 1
        BY <4>1, NextInOrder
      <4> QED
        BY <4>1, <4>2 DEF g, m
    <3>4. \A c \in DOMAIN conns' : InOrder(conns'[c].got)
      BY <2>3, <3>1, <3>3 DEF NumbersKept, Received
    <3>5. Current.up => Len(conns'[socket_fd].got) = client_msg_seq_num' /\ client_msg_seq_num' > 0
      <4>1. Current.up => conns'[socket_fd].got = Append(Current.got, <<"020", 0>>)
        BY <2>3 DEF Received
      <4>2. client_msg_seq_num' = 1 /\ 1 > 0
        BY <2>3
      <4>3. Current.up => Len(conns'[socket_fd].got) = 1
        BY <3>3, <4>1
      <4> QED
        BY <4>2, <4>3
    <3> QED
      BY <1>1, <2>3, <3>4, <3>5 DEF NumbersKept, Received
  <2> QED
    BY <1>2, <2>1, <2>2, <2>3
<1>8. Boundaries'
  BY <1>1, <1>2 DEF Boundaries, Pending, Last, Received
<1>9. WelcomePending'
  BY <1>1, <1>2 DEF WelcomePending, ByPlace, Received
<1>10. CaughtUp'
  BY <1>1, <1>2 DEF CaughtUp, ByPlace, Received
<1> QED
  BY <1>3, <1>4, <1>5, <1>6, <1>7, <1>8, <1>9, <1>10

LEMMA SendRequestStep ==
  ASSUME Inv, NEW r \in Requesters, SendRequest(r)
  PROVE  Inv'
<1> USE DEF Inv, HasSocket, Current
<1> DEFINE m == <<"101", req[r].num>>
<1>1. /\ req[r].at = "send" /\ req' = [req EXCEPT ![r] = NotAsking]
      /\ UNCHANGED <<running, connected, logged_in, socket_fd, client_msg_seq_num, buffer,
                     open, timed, loop, app, fate, sent, asked, torn, meddled>>
  BY DEF SendRequest, Asking, NotAsking, flags, bounds, history
<1>2. m \in Sendings
  BY DEF Sendings, Types, ReqPlaces
<1>3. \/ conns' = conns
      \/ connected /\ HasSocket /\ conns' = Transmitted(m)
  BY DEF SendRequest, Unsendable
<1>4. m[1] # "020"
  OBVIOUS
<1> HIDE DEF m
<1>5. \/ conns' = conns
      \/ connected /\ HasSocket /\ socket_fd \in DOMAIN conns /\ Current \in Conns /\ Received(m)
  BY <1>2, <1>3, TransmittedEffect
<1>6. Types'
  <2>1. req' \in [Requesters -> ReqPlaces]
    BY <1>1 DEF Types, ReqPlaces, NotAsking
  <2> QED
    BY <1>1, <1>5, <2>1 DEF Types, Received
<1>7. SocketKnown'
  BY <1>1, <1>5 DEF SocketKnown, Received
<1>8. ByPlace'
  <2>1. CASE conns' = conns
    BY <1>1, <2>1 DEF ByPlace
  <2>2. CASE /\ connected /\ HasSocket /\ socket_fd \in DOMAIN conns /\ Current \in Conns
             /\ Received(m)
    <3>1. ASSUME \A i \in DOMAIN Current.got : Current.got[i][1] # "020"
          PROVE  \A i \in DOMAIN conns'[socket_fd].got : conns'[socket_fd].got[i][1] # "020"
      <4> DEFINE g == Current.got
                 n == Append(g, m)
      <4>1. g \in Seq(Sendings)
        BY <2>2 DEF Conns
      <4> HIDE DEF g
      <4>2. /\ n \in Seq(Sendings) /\ n # << >> /\ Len(n) = Len(g) + 1
            /\ \A i \in 1..Len(g) : n[i] = g[i]
            /\ n[Len(g) + 1] = m
        BY <1>2, <4>1, AppendProperties
      <4>3. DOMAIN n = 1..(Len(g) + 1) /\ DOMAIN g = 1..Len(g) /\ Len(g) \in Nat
        BY <4>1, <4>2, LenProperties
      <4> HIDE DEF n
      <4>4. \A i \in DOMAIN g : g[i][1] # "020"
        BY <3>1 DEF g
      <4>5. \A i \in DOMAIN n : i \in DOMAIN g \/ i = Len(g) + 1
        BY <4>3
      <4>6. \A i \in DOMAIN n : n[i][1] # "020"
        BY <1>4, <4>2, <4>3, <4>4, <4>5
      <4> QED
        BY <2>2, <4>4, <4>6 DEF g, n, Received
    <3> QED
      BY <1>1, <2>2, <3>1 DEF ByPlace, Received
  <2> QED
    BY <1>5, <2>1, <2>2
<1>9. Stopped'
  BY <1>1 DEF Stopped
<1>10. NumbersKept'
  BY <1>1 DEF NumbersKept
<1>11. Boundaries'
  <2>1. CASE conns' = conns
    BY <1>1, <2>1 DEF Boundaries, Pending, Last
  <2>2. CASE HasSocket /\ socket_fd \in DOMAIN conns /\ Received(m)
    <3>1. socket_fd = Len(conns) /\ Len(conns') = Len(conns)
      BY <2>2 DEF SocketKnown, Received
    <3>2. /\ conns'[Len(conns)].out = Last.out /\ conns'[Len(conns)].up = Last.up
          /\ conns'[socket_fd].out = Current.out /\ conns'[socket_fd].up = Current.up
      BY <2>2, <3>1 DEF Received, Last
    <3> QED
      BY <1>1, <3>1, <3>2 DEF Boundaries, Pending, Last
  <2> QED
    BY <1>5, <2>1, <2>2
<1>12. WelcomePending'
  <2>1. ~ torn /\ ~ meddled => \A q \in Requesters : req'[q].at # "flags"
    BY <1>1 DEF WelcomePending, Types, NotAsking
  <2> QED
    BY <1>1, <1>5, <2>1 DEF WelcomePending, Pending, Received
<1>13. CaughtUp'
  BY <1>1, <1>5 DEF CaughtUp, Received
<1> QED
  BY <1>6, <1>7, <1>8, <1>9, <1>10, <1>11, <1>12, <1>13

\* A message at the front of the buffer is handled and erased, and the client knows
\* what it says.
LEMMA BufferMessageStep ==
  ASSUME Inv, BufferMessage
  PROVE  Inv'
<1> USE DEF Inv, HasSocket, Current, flags, bounds, history
<1>1. /\ loop = "handle" /\ loop' = "handle" /\ running /\ buffer' = Drop(buffer, 2)
      /\ UNCHANGED <<running, timed, app, req, sent, asked, torn, meddled>>
  BY DEF BufferMessage
<1>2. /\ buffer \in Seq(Halves) /\ Len(buffer) \in Nat /\ Len(buffer) >= 2 /\ 2 \in 0..Len(buffer)
      /\ buffer' \in Seq(Halves)
  <2>1. buffer \in Seq(Halves) /\ Len(buffer) \in Nat /\ Len(buffer) >= 2
    BY LenProperties DEF Types, BufferMessage
  <2>2. 2 \in 0..Len(buffer)
    BY <2>1
  <2> QED
    BY <1>1, <2>1, <2>2, Dropped
<1>3. /\ client_msg_seq_num' \in Nat /\ logged_in' \in BOOLEAN
      /\ \/ /\ UNCHANGED <<socket_fd, connected, open, fate, conns, client_msg_seq_num>>
            /\ Intact(buffer) => logged_in' = FlagAfter(logged_in, buffer[1].kind)
         \/ /\ ~ connected \/ ~ HasSocket
            /\ UNCHANGED <<socket_fd, connected, logged_in, open, fate, conns>>
         \/ /\ connected /\ HasSocket /\ socket_fd \in DOMAIN conns /\ Current \in Conns
            /\ Received(<<"105", client_msg_seq_num>>)
            /\ client_msg_seq_num' = client_msg_seq_num + 1
            /\ UNCHANGED <<socket_fd, connected, logged_in, open, fate>>
            /\ logged_in' = FlagAfter(logged_in, buffer[1].kind)
         \/ /\ connected' = FALSE /\ logged_in' = FALSE /\ socket_fd' = NoFd
            /\ open' \subseteq open /\ fate' \in {fate, "terminated"} /\ conns' = conns
  <2>1. CASE ~ Intact(buffer)
    BY <2>1 DEF BufferMessage, Types
  <2>2. CASE Intact(buffer) /\ buffer[1].kind # "104"
    <3>1. /\ UNCHANGED <<socket_fd, connected, open, fate, conns, client_msg_seq_num>>
          /\ logged_in' = FlagAfter(logged_in, buffer[1].kind)
      BY <2>2 DEF BufferMessage, handle_protocol_message, FlagAfter
    <3> QED
      BY <3>1 DEF FlagAfter, Types
  <2>3. CASE Intact(buffer) /\ buffer[1].kind = "104" /\ connected
    <3>1. /\ client_msg_seq_num' = client_msg_seq_num + 1
          /\ SendTcp(<<"105", client_msg_seq_num>>)
      BY <2>3 DEF BufferMessage, handle_protocol_message, send_client_heartbeat
    <3>2. <<"105", client_msg_seq_num>> \in Sendings
      BY DEF Sendings, Types
    <3>3. FlagAfter(logged_in, buffer[1].kind) = logged_in
      BY <2>3 DEF FlagAfter
    <3>4. Types /\ SocketKnown /\ client_msg_seq_num' \in Nat
      BY <3>1 DEF Types
    <3>5. logged_in \in BOOLEAN
      BY DEF Types
    <3> QED
      BY <3>1, <3>2, <3>3, <3>4, <3>5, SendTcpEffect
  <2>4. CASE Intact(buffer) /\ buffer[1].kind = "104" /\ ~ connected
    BY <2>4 DEF BufferMessage, handle_protocol_message, send_client_heartbeat, Types
  <2> QED
    BY <2>1, <2>2, <2>3, <2>4
<1>4. ASSUME ~ torn, socket_fd' # NoFd
      PROVE  /\ socket_fd' = socket_fd /\ (connected' => connected)
             /\ conns'[socket_fd].up = Current.up /\ conns'[socket_fd].said = Current.said
             /\ Whole(buffer' \o conns'[socket_fd].out)
             /\ Current.up => Len(buffer' \o conns'[socket_fd].out) % 2 = 0
             /\ connected' /\ LoggedInAfter(logged_in, Pending) =>
                  LoggedInAfter(logged_in', buffer' \o conns'[socket_fd].out)
  <2> DEFINE o == Current.out
             p == buffer \o o
  <2>1. Intact(buffer)
    BY <1>2, <1>4, WholeDrop DEF Boundaries
  <2>2. /\ socket_fd' = socket_fd /\ HasSocket /\ (connected' => connected)
        /\ conns' = conns \/ (socket_fd \in DOMAIN conns /\ Received(<<"105", client_msg_seq_num>>))
        /\ connected' => logged_in' = FlagAfter(logged_in, buffer[1].kind)
    BY <1>3, <1>4, <2>1
  <2>3. socket_fd \in DOMAIN conns /\ Current \in Conns
    <3>1. conns \in Seq(Conns) /\ DOMAIN conns = 1..Len(conns) /\ Len(conns) \in Nat
      BY LenProperties DEF Types
    <3>2. socket_fd \in DOMAIN conns
      BY <2>2, <3>1 DEF SocketKnown
    <3> QED
      BY <3>1, <3>2, ElementOfSeq
  <2>4. /\ conns'[socket_fd].up = Current.up /\ conns'[socket_fd].said = Current.said
        /\ conns'[socket_fd].out = o
    BY <2>2, <2>3 DEF Received
  <2>5. o \in Seq(Halves)
    BY <2>3 DEF Conns
  <2>6. Whole(p) /\ (Current.up => Len(p) % 2 = 0)
    BY <1>4, <2>2 DEF Boundaries, Pending, Last
  <2>7. Pending = p
    BY DEF Pending
  <2> HIDE DEF o
  <2>8. /\ p \in Seq(Halves) /\ Len(p) = Len(buffer) + Len(o)
        /\ \A i \in 1 .. Len(buffer) + Len(o) :
             p[i] = IF i <= Len(buffer) THEN buffer[i] ELSE o[i - Len(buffer)]
    BY <1>2, <2>5, ConcatProperties
  <2>9. Drop(buffer, 2) \o o = Drop(p, 2)
    BY <1>2, <2>5, DropFromFront
  <2> HIDE DEF p
  <2>10. Len(o) \in Nat
    BY <2>5, LenProperties
  <2>11. Len(p) \in Nat /\ Len(p) >= 2 /\ p[1] = buffer[1]
    BY <1>2, <2>8, <2>10
  <2>12. Whole(Drop(p, 2)) /\ Len(Drop(p, 2)) = Len(p) - 2
    BY <2>6, <2>8, <2>11, WholeDrop
  <2>13. Current.up => Len(Drop(p, 2)) % 2 = 0
    <3>1. (Len(p) - 2) \in Nat /\ 2 + (Len(p) - 2) = Len(p)
      BY <2>11
    <3>2. (2 + (Len(p) - 2)) % 2 = (Len(p) - 2) % 2
      BY <3>1, Parity
    <3> QED
      BY <2>6, <2>12, <3>1, <3>2
  <2>14. LoggedInAfter(logged_in, p) =>
           LoggedInAfter(FlagAfter(logged_in, p[1].kind), Drop(p, 2))
    BY <2>6, <2>8, <2>11, AfterHandled DEF Types
  <2>15. buffer' \o conns'[socket_fd].out = Drop(p, 2)
    BY <1>1, <2>4, <2>9
  <2> QED
    BY <2>2, <2>4, <2>7, <2>11, <2>12, <2>13, <2>14, <2>15
<1>5. Types'
  BY <1>1, <1>2, <1>3 DEF Types, LoopPlaces, Received
<1>6. SocketKnown'
  BY <1>3 DEF SocketKnown, Received
<1>7. ByPlace'
  BY <1>1 DEF ByPlace
<1>8. Stopped'
  BY <1>1 DEF Stopped
<1>9. NumbersKept'
  <2> SUFFICES ASSUME asked = 0 PROVE NumbersKept'
    BY <1>1 DEF NumbersKept
  <2>1. CASE conns' = conns /\ client_msg_seq_num' = client_msg_seq_num
             /\ socket_fd' = socket_fd /\ connected' = connected
    BY <1>1, <2>1 DEF NumbersKept
  <2>2. CASE ~ connected' /\ conns' = conns
    BY <1>1, <2>2 DEF NumbersKept
  <2>3. CASE socket_fd' = NoFd /\ conns' = conns
    BY <1>1, <2>3 DEF NumbersKept
  <2>4. CASE /\ connected /\ HasSocket /\ socket_fd \in DOMAIN conns /\ Current \in Conns
             /\ Received(<<"105", client_msg_seq_num>>)
             /\ client_msg_seq_num' = client_msg_seq_num + 1
             /\ UNCHANGED <<socket_fd, connected>>
    <3> DEFINE g == Current.got
               m == <<"105", client_msg_seq_num>>
    <3>1. g \in Seq(Sendings) /\ InOrder(g) /\ m \in Sendings
      BY <2>4 DEF NumbersKept, Conns, Sendings, Types
    <3>2. Current.up => Len(g) = client_msg_seq_num /\ client_msg_seq_num > 0
      BY <1>1, <2>4 DEF NumbersKept
    <3>3. Current.up => m = <<IF Len(g) = 0 THEN "020" ELSE "105", Len(g)>>
      BY <3>2 DEF Types
    <3>4. Current.up => conns'[socket_fd].got = Append(g, m)
      BY <2>4 DEF Received
    <3>5. ~ Current.up => conns'[socket_fd].got = g
      BY <2>4 DEF Received
    <3> HIDE DEF g, m
    <3>6. Current.up => InOrder(Append(g, m)) /\ Len(Append(g, m)) = Len(g) + 1
      BY <3>1, <3>3, NextInOrder
    <3>7. InOrder(conns'[socket_fd].got)
      BY <3>1, <3>4, <3>5, <3>6
    <3>8. Current.up => Len(conns'[socket_fd].got) = client_msg_seq_num' /\ client_msg_seq_num' > 0
      BY <2>4, <3>2, <3>4, <3>6 DEF Types
    <3>9. \A c \in DOMAIN conns' : InOrder(conns'[c].got)
      BY <2>4, <3>7 DEF NumbersKept, Received
    <3>10. conns'[socket_fd].up = Current.up
      BY <2>4 DEF Received
    <3> QED
      BY <1>1, <2>4, <3>8, <3>9, <3>10 DEF NumbersKept
  <2> QED
    BY <1>3, <2>1, <2>2, <2>3, <2>4
<1>10. Boundaries'
  <2> SUFFICES ASSUME ~ torn PROVE Boundaries'
    BY <1>1 DEF Boundaries
  <2>1. Whole(buffer')
    BY <1>1, <1>2, WholeDrop DEF Boundaries, Types
  <2>2. CASE socket_fd' = NoFd
    BY <1>1, <2>1, <2>2 DEF Boundaries
  <2>3. CASE socket_fd' # NoFd
    BY <1>1, <1>4, <2>1, <2>3 DEF Boundaries, Pending
  <2> QED
    BY <2>2, <2>3
<1>11. WelcomePending'
  <2> SUFFICES ASSUME ~ torn, ~ meddled PROVE WelcomePending'
    BY <1>1 DEF WelcomePending
  <2>1. \A r \in Requesters : req'[r].at # "flags"
    BY <1>1 DEF WelcomePending
  <2>2. ASSUME connected', socket_fd' # NoFd, conns'[socket_fd'].up,
               conns'[socket_fd'].said = "welcome"
        PROVE  LoggedInAfter(logged_in', buffer' \o conns'[socket_fd'].out)
    BY <1>4, <2>2 DEF WelcomePending, Pending
  <2> QED
    BY <2>1, <2>2 DEF WelcomePending, Pending
<1>12. CaughtUp'
  BY <1>1 DEF CaughtUp
<1> QED
  BY <1>5, <1>6, <1>7, <1>8, <1>9, <1>10, <1>11, <1>12

-----------------------------------------------------------------------------
(* The theorems *)

LEMMA Initially ==
  ASSUME Init
  PROVE  Inv
<1> USE DEF Init, HasSocket, NoFd
<1>1. /\ conns \in Seq(Conns) /\ Len(conns) = 0 /\ DOMAIN conns = {}
      /\ buffer \in Seq(Halves) /\ DOMAIN buffer = {}
  BY EmptySeq
<1>2. Types
  <2>1. 0 \in 0..MaxSent /\ 0 \in 0..MaxAsked /\ 0 <= MaxConns
    BY BoundsAssumption
  <2>2. req \in [Requesters -> ReqPlaces]
    BY DEF ReqPlaces, NotAsking
  <2> QED
    BY <1>1, <2>1, <2>2 DEF Types, LoopPlaces
<1>3. SocketKnown
  BY DEF SocketKnown
<1>4. ByPlace /\ Stopped /\ WelcomePending /\ CaughtUp
  BY DEF ByPlace, Stopped, WelcomePending, CaughtUp, NotAsking
<1>5. NumbersKept
  BY <1>1 DEF NumbersKept, NotAsking
<1>6. Boundaries
  BY <1>1 DEF Boundaries, Whole
<1> QED
  BY <1>2, <1>3, <1>4, <1>5, <1>6 DEF Inv

LEMMA Unchanged ==
  ASSUME Inv, UNCHANGED vars
  PROVE  Inv'
<1> USE DEF vars, flags, bounds, history, Inv, HasSocket, Current
<1>1. Types' /\ SocketKnown' /\ ByPlace' /\ Stopped'
  BY DEF Types, SocketKnown, ByPlace, Stopped
<1>2. NumbersKept' /\ Boundaries'
  BY DEF NumbersKept, Boundaries, Pending, Last
<1>3. WelcomePending' /\ CaughtUp'
  BY DEF WelcomePending, CaughtUp, Pending
<1> QED
  BY <1>1, <1>2, <1>3

LEMMA Steps ==
  ASSUME Inv, [Next]_vars
  PROVE  Inv'
<1>1. CASE ClientStep
  BY <1>1, LoopTopStep, ConnectSocketStep, ConnectOkStep, ConnectFailsStep,
     perform_loginStep, RecvBytesStep, RecvNothingStep, RecvBlocksStep, RecvFailsStep,
     BufferDoneStep, BufferMessageStep, BufferGarbageStep DEF ClientStep
<1>2. CASE start \/ stop \/ StopStep
  BY <1>2, startStep, stopStep, StopCloseStep, StopClearStep, StopJoinStep DEF StopStep
<1>3. ASSUME NEW r \in Requesters, request_retransmission(r) \/ RequestStep(r)
      PROVE  Inv'
  BY <1>3, request_retransmissionStep, LoadNumberStep, StoreNumberStep,
     SendRequestStep, SendRequestFailsStep, ClearFlagsStep DEF RequestStep
<1>4. ASSUME NEW c \in DOMAIN conns,
             \/ Welcome(c) \/ Dismiss(c) \/ ServerCloses(c)
             \/ \E k \in {"104", "data"} : ServerSends(c, k)
      PROVE  Inv'
  BY <1>4, WelcomeStep, DismissStep, ServerClosesStep, ServerSendsStep
<1>5. CASE UNCHANGED vars
  BY <1>5, Unchanged
<1> QED
  BY <1>1, <1>2, <1>3, <1>4, <1>5 DEF Next

\* The inductive invariant holds of every behaviour of the client.
THEOREM ClientCorrect == Spec => []Inv
<1>1. Init => Inv
  BY Initially
<1>2. Inv /\ [Next]_vars => Inv'
  BY Steps
<1> QED
  BY <1>1, <1>2, PTL DEF Spec

\* Every member of the client, every thread's place and the server's side of every
\* connection keep their types.
THEOREM ClientTypeCorrect == Spec => []TypeOK
<1>1. ASSUME Inv PROVE TypeOK
  <2> USE <1>1 DEF Inv
  <2>1. /\ conns \in Seq(Conns) /\ DOMAIN conns = 1..Len(conns)
        /\ Len(conns) \in Nat /\ Len(conns) <= MaxConns /\ MaxConns \in Nat
    BY LenProperties, BoundsAssumption DEF Types
  <2>2. socket_fd \in 0..MaxConns /\ open \subseteq 1..MaxConns
    BY <2>1 DEF SocketKnown, NoFd
  <2>3. \A c \in DOMAIN conns : conns[c] \in Conns
    BY <2>1, ElementOfSeq
  <2>4. {running, connected, logged_in, timed, torn, meddled} \subseteq BOOLEAN
    BY DEF Types
  <2> QED
    BY <2>1, <2>2, <2>3, <2>4 DEF TypeOK, Types, Conns, Sendings, LoopPlaces, ReqPlaces
<1> QED
  BY <1>1, ClientCorrect, PTL

\* What client_thread_ sends on a connection starts with the login request and is
\* numbered without a gap, whatever an earlier connection left behind, as long as
\* no requester sends.
THEOREM ClientNumberedFromLogin == Spec => []NumberedFromLogin
<1>1. ASSUME Inv PROVE NumberedFromLogin
  BY <1>1 DEF Inv, NumbersKept, InOrder, NumberedFromLogin
<1> QED
  BY <1>1, ClientCorrect, PTL

\* A client that has read all that a server which welcomed it has sent knows that it
\* is logged in, after any number of lost connections, stops and starts.
THEOREM ClientWelcomeIsNoticed == Spec => []WelcomeIsNoticed
<1>1. ASSUME Inv, WelcomedAndCaughtUp, ~ meddled, ~ torn PROVE logged_in
  <2> USE <1>1 DEF Inv
  <2>1. /\ running /\ connected /\ loop \in {"recv", "blocked"} /\ socket_fd \in open
        /\ Current.up /\ Current.said = "welcome" /\ Current.out = << >>
    BY DEF WelcomedAndCaughtUp, Current
  <2>2. HasSocket
    <3>1. Len(conns) \in Nat
      BY LenProperties DEF Types
    <3> QED
      BY <2>1, <3>1 DEF SocketKnown, HasSocket, NoFd
  <2>3. buffer \in Seq(Halves) /\ Len(buffer) \in Nat
    BY LenProperties DEF Types
  <2>4. Pending = buffer
    BY <2>1, <2>3, ConcatEmptySeq DEF Pending
  <2>5. Len(buffer) < 2 /\ Len(buffer) % 2 = 0
    BY <2>1, <2>2, <2>4 DEF CaughtUp, Boundaries
  <2>6. buffer = << >>
    BY <2>3, <2>5, EmptySeq
  <2>7. LoggedInAfter(logged_in, buffer)
    BY <2>1, <2>2, <2>4 DEF WelcomePending
  <2>8. DOMAIN buffer = {}
    BY <2>6
  <2> QED
    BY <2>7, <2>8 DEF LoggedInAfter
<1>2. Inv => WelcomeIsNoticed
  BY <1>1 DEF WelcomeIsNoticed
<1> QED
  BY <1>2, ClientCorrect, PTL

=============================================================================
