--------------------------- MODULE HomebrewProofs ---------------------------
(***************************************************************************)
(* Proofs about the Homebrew client, for any nonces, any ping period and   *)
(* timeout, any bound on datagrams in flight and any faults of the network *)
(* and of the master.                                                      *)
(***************************************************************************)
EXTENDS Homebrew, TLAPS

(***************************************************************************)
(* What is in the network after a datagram was added or taken.             *)
(***************************************************************************)
\* Sending adds at most the datagram that was sent.
LEMMA SentDatagrams ==
    ASSUME NEW net, NEW m
    PROVE  BagToSet(net (+) One(m)) \subseteq BagToSet(net) \cup {m}
  BY DEF BagToSet, (+), One, SetToBag

\* Delivering or losing a datagram adds none.
LEMMA RemovedDatagrams ==
    ASSUME NEW net, NEW m
    PROVE  BagToSet(net (-) One(m)) \subseteq BagToSet(net)
  BY DEF BagToSet, (-), One, SetToBag

\* A delivery that leaves the datagram in the network for later adds none either.
LEMMA DeliveredDatagrams ==
    ASSUME NEW net, NEW m, NEW after \in Delivered(net, m)
    PROVE  BagToSet(after) \subseteq BagToSet(net)
  BY RemovedDatagrams DEF Delivered

(***************************************************************************)
(* A key was accepted before the client goes beyond sending it.            *)
(***************************************************************************)
\* KeyWasAccepted is not inductive: the client goes on when an acknowledgement
\* arrives, so every acknowledgement in flight must have its cause, and so must
\* the master's own session that produces it.
AcksHaveCause ==
    \A m \in BagToSet(toClient) : m.type = "MSTACK" => accepted # {}

SessionHasCause == session.state \in {"authed", "online"} => accepted # {}

KeyInv == AcksHaveCause /\ SessionHasCause /\ KeyWasAccepted

\* Reading a datagram keeps the invariant: only an acknowledgement takes the
\* client beyond AUTH_INIT.
LEMMA ReadKeyInv ==
    ASSUME KeyInv, NEW m \in BagToSet(toClient), dmr_homebrew_read(m)
    PROVE  KeyInv'
  <1>1. accepted' = accepted /\ session' = session
    BY DEF dmr_homebrew_read, master
  <1>2. BagToSet(toClient') \subseteq BagToSet(toClient)
    BY DeliveredDatagrams DEF dmr_homebrew_read
  <1>3. KeyWasAccepted'
    <2>1. CASE read_nonce(m)
      <3>1. state' \in {"AUTH_INIT", state}
        BY <2>1 DEF read_nonce, homebrew_send_key
      <3> QED
        BY <1>1, <3>1 DEF KeyInv, KeyWasAccepted
    <2>2. CASE read_ack(m)
      BY <1>1, <2>2 DEF read_ack, KeyInv, AcksHaveCause, KeyWasAccepted
    <2>3. CASE read_nak(m)
      BY <2>3 DEF read_nak, KeyWasAccepted
    <2>4. CASE read_pong(m)
      BY <1>1, <2>4 DEF read_pong, KeyInv, KeyWasAccepted
    <2> QED
      BY <2>1, <2>2, <2>3, <2>4 DEF dmr_homebrew_read
  <1> QED
    BY <1>1, <1>2, <1>3 DEF KeyInv, AcksHaveCause, SessionHasCause

\* A step of the master keeps the invariant: it acknowledges only what it
\* accepted.
LEMMA MasterKeyInv ==
    ASSUME KeyInv, NEW m \in BagToSet(toMaster), MasterReceive(m)
    PROVE  KeyInv'
  <1>1. state' = state
    BY DEF MasterReceive, client
  <1>2. ASSUME NEW r, MasterSend(r), accepted \subseteq accepted',
               r.type = "MSTACK" => accepted' # {},
               SessionHasCause'
        PROVE  KeyInv'
    <2>1. BagToSet(toClient') \subseteq BagToSet(toClient) \cup {r}
      BY <1>2, SentDatagrams DEF MasterSend
    <2> QED
      BY <1>1, <1>2, <2>1 DEF KeyInv, AcksHaveCause, KeyWasAccepted
  <1>3. CASE Challenge
    BY <1>2, <1>3 DEF Challenge, MSTACKn, SessionHasCause
  <1>4. CASE AcceptKey(m)
    BY <1>2, <1>4 DEF AcceptKey, SessionHasCause
  <1>5. CASE AcceptConfig
    <2>1. accepted' = accepted /\ MasterSend(MSTACK("config")) /\ accepted # {}
      BY <1>5 DEF AcceptConfig, KeyInv, SessionHasCause
    <2> QED
      BY <1>2, <2>1 DEF SessionHasCause
  <1>6. CASE MasterSend(RPTPONG) /\ UNCHANGED <<session, accepted, configured>>
    BY <1>2, <1>6 DEF RPTPONG, KeyInv, SessionHasCause
  <1>7. CASE Forget
    BY <1>1, <1>7 DEF Forget, KeyInv, AcksHaveCause, KeyWasAccepted, SessionHasCause
  <1>8. CASE Refuse
    BY <1>2, <1>8 DEF Refuse, MSTNAK, SessionHasCause
  <1> QED
    BY <1>3, <1>4, <1>5, <1>6, <1>7, <1>8 DEF MasterReceive

\* Whatever the network and the master do, the client sends its configuration and
\* believes itself logged in only after a key of it was accepted.
THEOREM KeyAcceptedBeforeLogin == Spec => []KeyWasAccepted
  <1>1. Init => KeyInv
    BY DEF Init, KeyInv, AcksHaveCause, SessionHasCause, KeyWasAccepted, EmptyBag,
       SetToBag, BagToSet
  <1>2. KeyInv /\ [Next]_vars => KeyInv'
    <2> SUFFICES ASSUME KeyInv, [Next]_vars PROVE KeyInv'
      OBVIOUS
    <2>1. ASSUME NEW m \in BagToSet(toClient), dmr_homebrew_read(m) PROVE KeyInv'
      BY <2>1, ReadKeyInv
    <2>2. CASE dmr_homebrew_auth \/ homebrew_io_ping_timer \/ dmr_homebrew_close
               \/ homebrew_io_error \/ Tick \/ UNCHANGED vars
      <3>1. UNCHANGED <<toClient, session, accepted>> /\ state' \in {state, "AUTH_NONE"}
        BY <2>2 DEF dmr_homebrew_auth, homebrew_io_ping_timer, dmr_homebrew_close,
           homebrew_io_error, Released, Tick, vars, client, master
      <3> QED
        BY <3>1 DEF KeyInv, AcksHaveCause, SessionHasCause, KeyWasAccepted
    <2>3. ASSUME NEW m \in BagToSet(toMaster), MasterReceive(m) PROVE KeyInv'
      BY <2>3, MasterKeyInv
    <2>4. CASE Restart
      BY <2>4 DEF Restart, Forget, client, KeyInv, AcksHaveCause, SessionHasCause,
         KeyWasAccepted
    <2>5. CASE Lose
      <3>1. BagToSet(toClient') \subseteq BagToSet(toClient)
        BY <2>5, RemovedDatagrams DEF Lose
      <3> QED
        BY <2>5, <3>1 DEF Lose, client, master, KeyInv, AcksHaveCause,
           SessionHasCause, KeyWasAccepted
    <2> QED
      BY <2>1, <2>2, <2>3, <2>4, <2>5 DEF Next, Client
  <1>3. KeyInv => KeyWasAccepted
    BY DEF KeyInv
  <1> QED
    BY <1>1, <1>2, <1>3, PTL DEF Spec

(***************************************************************************)
(* Unanswered pings.                                                       *)
(***************************************************************************)
\* The clocks of the keep-alive keep their types.
PingTypes ==
    /\ since_pong \in 0..(PongTimeout + 1)
    /\ ping_timer \in 0..PingPeriod
    /\ unanswered \in Nat

\* The inductive invariant: every unanswered ping took a period of the time since
\* the last pong, the last of them counted down by the timer (unless the clock
\* is past the timeout, when no ping is sent any more); and the pings before
\* the last fit into the timeout.
PingInv ==
    /\ PingTypes
    /\ since_pong <= PongTimeout => unanswered * PingPeriod <= since_pong + ping_timer
    /\ unanswered > 0 => (unanswered - 1) * PingPeriod <= PongTimeout

\* A quotient is at least what fits.
LEMMA FitsQuotient ==
    ASSUME NEW u \in Nat, NEW p \in Nat \ {0}, NEW t \in Nat, u * p <= t
    PROVE  u <= t \div p
  <1>1. t \div p \in Int /\ t < p * (t \div p) + p
    OBVIOUS
  <1>2. CASE u > t \div p
    <2>1. u >= (t \div p) + 1
      BY <1>1, <1>2
    <2>2. u * p >= ((t \div p) + 1) * p
      BY <1>1, <2>1
    <2>3. ((t \div p) + 1) * p = p * (t \div p) + p
      BY <1>1
    <2> QED
      BY <1>1, <2>2, <2>3
  <1> QED
    BY <1>1, <1>2

\* The keep-alive sends no more pings to a silent master than fit between the
\* last pong and the pong timeout, and one (homebrew_io_ping_timer).
THEOREM PingsBounded == Spec => []UnansweredPingsBounded
  <1> USE HomebrewAssumption
  <1>1. Init => PingInv
    BY DEF Init, PingInv, PingTypes
  <1>2. PingInv /\ [Next]_vars => PingInv'
    <2> SUFFICES ASSUME PingInv, [Next]_vars PROVE PingInv'
      OBVIOUS
    <2> USE DEF PingInv, PingTypes
    <2>1. CASE UNCHANGED <<since_pong, ping_timer, unanswered>>
      BY <2>1
    <2>2. CASE unanswered' = 0 /\ since_pong' = 0 /\ ping_timer' = ping_timer
      BY <2>2
    <2>3. CASE dmr_homebrew_auth
      BY <2>3 DEF dmr_homebrew_auth
    <2>4. CASE Tick
      BY <2>4 DEF Tick
    <2>5. CASE homebrew_io_ping_timer
      <3>1. ping_timer = 0 /\ ping_timer' = PingPeriod /\ since_pong' = since_pong
        BY <2>5 DEF homebrew_io_ping_timer
      <3>2. CASE unanswered' = unanswered
        BY <3>1, <3>2
      <3>3. CASE ping_due /\ unanswered' = unanswered + 1
        <4>1. unanswered * PingPeriod <= since_pong /\ since_pong <= PongTimeout
          BY <3>1, <3>3 DEF ping_due
        <4>2. (unanswered + 1) * PingPeriod = unanswered * PingPeriod + PingPeriod
          OBVIOUS
        <4>3. unanswered' - 1 = unanswered
          BY <3>3
        <4> QED
          BY <3>1, <3>3, <4>1, <4>2, <4>3
      <3> QED
        BY <2>5, <3>2, <3>3 DEF homebrew_io_ping_timer
    <2>6. ASSUME NEW m \in BagToSet(toClient), dmr_homebrew_read(m) PROVE PingInv'
      <3>1. \/ UNCHANGED <<since_pong, ping_timer, unanswered>>
            \/ unanswered' = 0 /\ since_pong' = 0 /\ ping_timer' = ping_timer
        BY <2>6 DEF dmr_homebrew_read, read_nonce, read_ack, read_nak, read_pong,
           homebrew_send_config, LoginDone
      <3> QED
        BY <2>1, <2>2, <3>1
    <2>7. CASE Restart \/ Lose \/ UNCHANGED vars
      BY <2>1, <2>7 DEF Restart, Lose, vars, client
    <2>9. CASE dmr_homebrew_close \/ homebrew_io_error
      BY <2>9 DEF dmr_homebrew_close, homebrew_io_error, Released
    <2>8. ASSUME NEW m \in BagToSet(toMaster), MasterReceive(m) PROVE PingInv'
      BY <2>1, <2>8 DEF MasterReceive, client
    <2> QED
      BY <2>3, <2>4, <2>5, <2>6, <2>7, <2>8, <2>9 DEF Next, Client
  <1>3. PingInv => UnansweredPingsBounded
    <2> SUFFICES ASSUME PingInv PROVE UnansweredPingsBounded
      OBVIOUS
    <2>1. CASE unanswered = 0
      BY <2>1, FitsQuotient DEF UnansweredPingsBounded
    <2>2. CASE unanswered > 0
      <3>1. unanswered - 1 \in Nat /\ (unanswered - 1) * PingPeriod <= PongTimeout
        BY <2>2 DEF PingInv, PingTypes
      <3>2. unanswered - 1 <= PongTimeout \div PingPeriod
        BY <3>1, FitsQuotient
      <3>3. PongTimeout \div PingPeriod \in Int
        OBVIOUS
      <3> QED
        BY <3>1, <3>2, <3>3 DEF UnansweredPingsBounded, PingInv, PingTypes
    <2> QED
      BY <2>1, <2>2 DEF PingInv, PingTypes
  <1> QED
    BY <1>1, <1>2, <1>3, PTL DEF Spec

(***************************************************************************)
(* The nonce of a key that was sent.                                       *)
(***************************************************************************)
\* Whatever arrives late, twice or out of order, no step replaces the nonce of a
\* key already sent, unless the login starts over (dmr_homebrew_read).
THEOREM NonceStays == Spec => NonceStable
  <1>1. [Next]_vars => [state # "AUTH_NONE" /\ state' # "AUTH_NONE" => nonce' = nonce]_vars
    <2> SUFFICES ASSUME [Next]_vars, state # "AUTH_NONE", state' # "AUTH_NONE"
                 PROVE  nonce' = nonce
      OBVIOUS
    <2>1. ASSUME NEW m \in BagToSet(toClient), dmr_homebrew_read(m) PROVE nonce' = nonce
      BY <2>1 DEF dmr_homebrew_read, read_nonce, read_ack, read_nak, read_pong
    <2>2. CASE dmr_homebrew_auth \/ homebrew_io_ping_timer \/ Tick \/ UNCHANGED vars
      BY <2>2 DEF dmr_homebrew_auth, homebrew_io_ping_timer, Tick, vars, client
    <2>3. CASE dmr_homebrew_close \/ homebrew_io_error
      BY <2>3 DEF dmr_homebrew_close, homebrew_io_error, Released
    <2>4. ASSUME NEW m \in BagToSet(toMaster), MasterReceive(m) PROVE nonce' = nonce
      BY <2>4 DEF MasterReceive, client
    <2>5. CASE Restart \/ Lose
      BY <2>5 DEF Restart, Lose, client
    <2> QED
      BY <2>1, <2>2, <2>3, <2>4, <2>5 DEF Next, Client
  <1> QED
    BY <1>1, PTL DEF Spec, NonceStable

(***************************************************************************)
(* Client and master agree on the login.  As long as the network does not  *)
(* deliver a datagram twice, login requests and their answers are one      *)
(* token that the two sides pass to each other, so each of them knows what *)
(* the other did when it holds the token.                                  *)
(***************************************************************************)
LoginMessage(m) == m.type \in {"RPTL", "RPTK", "RPTC", "MSTACKn", "MSTACK"}

Quiet(net) == \A m \in BagToSet(net) : ~ LoginMessage(m)

Lone(net) ==
    \A m \in BagToSet(net) :
        LoginMessage(m) => net[m] = 1 /\ \A r \in BagToSet(net) : LoginMessage(r) => r = m

OneLoginMessage ==
    /\ Lone(toMaster) /\ Lone(toClient)
    /\ Quiet(toMaster) \/ Quiet(toClient)
    /\ phase = "new" => Quiet(toMaster) /\ Quiet(toClient) /\ state = "AUTH_NONE"

\* A request in flight is the one of the client's state, unless the client was
\* refused or left meanwhile.
RequestFits(m) ==
    /\ m.type = "RPTL" => state = "AUTH_NONE"
    /\ m.type = "RPTK" => state = "AUTH_NONE" \/ (state = "AUTH_INIT" /\ m.nonce = nonce)
    /\ m.type = "RPTC" => state \in {"AUTH_NONE", "AUTH_CONFIG"}

\* So is an answer; and an acknowledgement that the client would take for that of
\* its key, or of its configuration, is that one.
AnswerFits(m) ==
    /\ m.type = "MSTACKn" => state = "AUTH_NONE"
    /\ m.type = "MSTACK" /\ m.of = "key" =>
            state = "AUTH_NONE" \/ (state = "AUTH_INIT" /\ nonce \in accepted)
    /\ m.type = "MSTACK" /\ m.of # "key" =>
            state \in {"AUTH_NONE", "AUTH_CONFIG"} /\ configured

LoginInv ==
    "repeat" \notin network =>
        /\ OneLoginMessage
        /\ \A m \in BagToSet(toMaster) : RequestFits(m)
        /\ \A m \in BagToSet(toClient) : AnswerFits(m)
        /\ state \in {"AUTH_CONFIG", "AUTH_DONE"} => nonce \in accepted
        /\ state = "AUTH_DONE" => configured

\* Sending any datagram over a network without login messages leaves at most one
\* there; sending another datagram changes nothing about them.
LEMMA SentLogin ==
    ASSUME NEW net, NEW m
    PROVE  /\ Quiet(net) => Lone(net (+) One(m))
           /\ Quiet(net) /\ ~ LoginMessage(m) => Quiet(net (+) One(m))
           /\ Lone(net) /\ ~ LoginMessage(m) => Lone(net (+) One(m))
  <1> DEFINE sum == net (+) One(m)
  <1>1. BagToSet(sum) = BagToSet(net) \cup {m}
    BY DEF BagToSet, (+), One, SetToBag
  <1>2. m \notin BagToSet(net) => sum[m] = 1
    BY DEF BagToSet, (+), One, SetToBag
  <1>3. \A r \in BagToSet(net) : r # m /\ net[r] = 1 => sum[r] = 1
    BY DEF BagToSet, (+), One, SetToBag
  <1> HIDE DEF sum
  <1>4. Quiet(net) => Lone(sum)
    BY <1>1, <1>2 DEF Quiet, Lone
  <1>5. Quiet(net) /\ ~ LoginMessage(m) => Quiet(sum)
    BY <1>1 DEF Quiet
  <1>6. Lone(net) /\ ~ LoginMessage(m) => Lone(sum)
    BY <1>1, <1>3 DEF Lone
  <1> QED
    BY <1>4, <1>5, <1>6 DEF sum

\* A datagram that leaves the network takes no other with it, and the login message
\* that leaves it was the only one.
LEMMA RemovedLogin ==
    ASSUME NEW net, NEW m, Lone(net)
    PROVE  /\ Lone(net (-) One(m))
           /\ Quiet(net) => Quiet(net (-) One(m))
           /\ LoginMessage(m) /\ m \in BagToSet(net) => Quiet(net (-) One(m))
  <1> DEFINE rest == net (-) One(m)
  <1>1. BagToSet(rest) \subseteq BagToSet(net)
    BY RemovedDatagrams
  <1>2. \A r \in BagToSet(rest) : r # m => rest[r] = net[r]
    BY DEF BagToSet, (-), One, SetToBag
  <1>3. m \in BagToSet(net) /\ net[m] = 1 => m \notin BagToSet(rest)
    BY DEF BagToSet, (-), One, SetToBag
  <1> HIDE DEF rest
  <1>4. Lone(rest)
    BY <1>1, <1>2, <1>3 DEF Lone
  <1>5. Quiet(net) => Quiet(rest)
    BY <1>1 DEF Quiet
  <1>6. LoginMessage(m) /\ m \in BagToSet(net) => Quiet(rest)
    BY <1>1, <1>3 DEF Lone, Quiet
  <1> QED
    BY <1>4, <1>5, <1>6 DEF rest

\* Only login messages have to fit.
LEMMA OthersFit ==
    ASSUME NEW m, ~ LoginMessage(m)
    PROVE  RequestFits(m) /\ AnswerFits(m) /\ RequestFits(m)' /\ AnswerFits(m)'
  BY DEF LoginMessage, RequestFits, AnswerFits

\* Reading: the client takes the token off the network before it sends the next
\* request, and does so only in the state the answer belongs to.
LEMMA ReadLogin ==
    ASSUME LoginInv, NEW m \in BagToSet(toClient), dmr_homebrew_read(m)
    PROVE  LoginInv'
  <1> SUFFICES ASSUME "repeat" \notin network
               PROVE  LoginInv'
    BY DEF LoginInv, dmr_homebrew_read
  <1>1. toClient' = toClient (-) One(m)
    BY DEF dmr_homebrew_read, Delivered
  <1>2. /\ phase = "running" /\ phase' = phase
        /\ accepted' = accepted /\ configured' = configured /\ network' = network
    BY DEF dmr_homebrew_read, master
  <1>3. BagToSet(toClient') \subseteq BagToSet(toClient)
    BY <1>1, RemovedDatagrams
  <1>4. Lone(toClient') /\ (Quiet(toClient) => Quiet(toClient'))
    BY <1>1, RemovedLogin DEF LoginInv, OneLoginMessage
  <1>5. CASE read_nak(m) \/ read_pong(m)
    <2>1. toMaster' = toMaster /\ nonce' = nonce /\ state' \in {state, "AUTH_NONE"}
      BY <1>5 DEF read_nak, read_pong
    <2>2. (\A r \in BagToSet(toMaster') : RequestFits(r)')
            /\ \A r \in BagToSet(toClient') : AnswerFits(r)'
      BY <1>2, <1>3, <2>1 DEF LoginInv, RequestFits, AnswerFits
    <2> QED
      BY <1>2, <1>4, <2>1, <2>2 DEF LoginInv, OneLoginMessage
  <1>6. CASE read_nonce(m) \/ read_ack(m)
    <2>1. LoginMessage(m) /\ Quiet(toMaster) /\ Quiet(toClient')
      <3>1. LoginMessage(m)
        BY <1>6 DEF read_nonce, read_ack, LoginMessage
      <3> QED
        BY <1>1, <3>1, RemovedLogin DEF LoginInv, OneLoginMessage, Quiet
    <2>2. ASSUME NEW r, dmr_homebrew_send_raw(r), RequestFits(r)'
          PROVE  /\ OneLoginMessage'
                 /\ \A q \in BagToSet(toMaster') : RequestFits(q)'
                 /\ \A q \in BagToSet(toClient') : AnswerFits(q)'
      <3>1. BagToSet(toMaster') \subseteq BagToSet(toMaster) \cup {r}
        BY <2>2, SentDatagrams DEF dmr_homebrew_send_raw
      <3>2. Lone(toMaster')
        BY <2>1, <2>2, SentLogin DEF dmr_homebrew_send_raw, LoginInv, OneLoginMessage
      <3>3. \A q \in BagToSet(toMaster') : RequestFits(q)'
        BY <2>1, <2>2, <3>1, OthersFit DEF Quiet
      <3>4. \A q \in BagToSet(toClient') : AnswerFits(q)'
        BY <2>1, OthersFit DEF Quiet
      <3> QED
        BY <1>2, <1>4, <2>1, <3>2, <3>3, <3>4 DEF OneLoginMessage
    <2>3. ASSUME UNCHANGED toMaster
          PROVE  /\ OneLoginMessage'
                 /\ \A q \in BagToSet(toMaster') : RequestFits(q)'
                 /\ \A q \in BagToSet(toClient') : AnswerFits(q)'
      BY <1>2, <1>4, <2>1, <2>3, OthersFit DEF Quiet, LoginInv, OneLoginMessage
    <2>4. CASE read_nonce(m)
      <3>1. state = "AUTH_NONE"
        BY <2>4 DEF read_nonce, LoginInv, AnswerFits
      <3>2. state' = "AUTH_INIT" /\ nonce' = m.nonce /\ dmr_homebrew_send_raw(RPTK(m.nonce))
        BY <2>4, <3>1 DEF read_nonce, homebrew_send_key
      <3>3. RequestFits(RPTK(m.nonce))'
        BY <3>2 DEF RequestFits, RPTK
      <3> QED
        BY <2>2, <3>2, <3>3 DEF LoginInv
    <2>5. CASE read_ack(m)
      <3>1. nonce' = nonce /\ m.type = "MSTACK" /\ AnswerFits(m)
        BY <2>5 DEF read_ack, LoginInv
      <3>2. CASE state = "AUTH_INIT"
        <4>1. state' = "AUTH_CONFIG" /\ dmr_homebrew_send_raw(RPTC) /\ nonce \in accepted
          BY <2>5, <3>1, <3>2 DEF read_ack, homebrew_send_config, AnswerFits
        <4>2. RequestFits(RPTC)'
          BY <4>1 DEF RequestFits, RPTC
        <4> QED
          BY <1>2, <2>2, <3>1, <4>1, <4>2 DEF LoginInv
      <3>3. CASE state = "AUTH_CONFIG"
        <4>1. state' = "AUTH_DONE" /\ UNCHANGED toMaster /\ configured
          BY <2>5, <3>1, <3>3 DEF read_ack, LoginDone, AnswerFits
        <4> QED
          BY <1>2, <2>3, <3>1, <3>3, <4>1 DEF LoginInv
      <3>4. CASE state \notin {"AUTH_INIT", "AUTH_CONFIG"}
        <4>1. UNCHANGED <<state, toMaster>>
          BY <2>5, <3>4 DEF read_ack
        <4> QED
          BY <1>2, <2>3, <3>1, <3>4, <4>1 DEF LoginInv
      <3> QED
        BY <3>2, <3>3, <3>4
    <2> QED
      BY <1>6, <2>4, <2>5
  <1> QED
    BY <1>5, <1>6 DEF dmr_homebrew_read

\* The master: it takes the request off the network and sends one answer, which
\* fits the state the client sent the request in.
LEMMA MasterLogin ==
    ASSUME LoginInv, NEW m \in BagToSet(toMaster), MasterReceive(m)
    PROVE  LoginInv'
  <1> SUFFICES ASSUME "repeat" \notin network
               PROVE  LoginInv'
    BY DEF LoginInv, MasterReceive
  <1>1. toMaster' = toMaster (-) One(m)
    BY DEF MasterReceive, Delivered
  <1>2. UNCHANGED <<phase, state, nonce, network>>
    BY DEF MasterReceive, client
  <1>3. BagToSet(toMaster') \subseteq BagToSet(toMaster)
    BY <1>1, RemovedDatagrams
  <1>4. Lone(toMaster') /\ (Quiet(toMaster) => Quiet(toMaster'))
    BY <1>1, RemovedLogin DEF LoginInv, OneLoginMessage
  <1>5. LoginMessage(m) => Quiet(toMaster') /\ Quiet(toClient) /\ phase # "new"
    BY <1>1, RemovedLogin DEF LoginInv, OneLoginMessage, Quiet
  <1>6. accepted \subseteq accepted' /\ (configured => configured')
    BY DEF MasterReceive, Challenge, AcceptKey, AcceptConfig, Refuse, Forget
  <1>7. \A q \in BagToSet(toMaster') : RequestFits(q)'
    BY <1>2, <1>3 DEF LoginInv, RequestFits
  <1>8. \A q \in BagToSet(toClient) : AnswerFits(q)'
    BY <1>2, <1>6 DEF LoginInv, AnswerFits
  <1>9. ASSUME OneLoginMessage', \A q \in BagToSet(toClient') : AnswerFits(q)'
        PROVE  LoginInv'
    BY <1>2, <1>6, <1>7, <1>9 DEF LoginInv
  <1>10. ASSUME NEW r, MasterSend(r), LoginMessage(m) \/ ~ LoginMessage(r), AnswerFits(r)'
         PROVE  LoginInv'
    <2>1. BagToSet(toClient') \subseteq BagToSet(toClient) \cup {r}
      BY <1>10, SentDatagrams DEF MasterSend
    <2>2. \A q \in BagToSet(toClient') : AnswerFits(q)'
      BY <1>8, <1>10, <2>1
    <2>3. Lone(toClient') /\ (~ LoginMessage(r) /\ Quiet(toClient) => Quiet(toClient'))
      BY <1>5, <1>10, SentLogin DEF MasterSend, LoginInv, OneLoginMessage
    <2>4. OneLoginMessage'
      BY <1>2, <1>4, <1>5, <1>10, <2>3 DEF LoginInv, OneLoginMessage
    <2> QED
      BY <1>9, <2>2, <2>4
  <1>11. CASE UNCHANGED toClient
    <2>1. OneLoginMessage'
      BY <1>2, <1>4, <1>11 DEF LoginInv, OneLoginMessage
    <2> QED
      BY <1>8, <1>9, <1>11, <2>1
  <1>12. CASE m.type = "RPTL" /\ Challenge
    <2>1. PICK n \in Nonces : MasterSend(MSTACKn(n))
      BY <1>12 DEF Challenge
    <2>2. AnswerFits(MSTACKn(n))'
      BY <1>2, <1>12 DEF AnswerFits, MSTACKn, LoginInv, RequestFits
    <2> QED
      BY <1>10, <1>12, <2>1, <2>2 DEF LoginMessage
  <1>13. CASE m.type = "RPTK" /\ AcceptKey(m)
    <2>1. MasterSend(MSTACK("key")) /\ m.nonce \in accepted'
      BY <1>13 DEF AcceptKey
    <2>2. AnswerFits(MSTACK("key"))'
      BY <1>2, <1>13, <2>1 DEF AnswerFits, MSTACK, LoginInv, RequestFits
    <2> QED
      BY <1>10, <1>13, <2>1, <2>2 DEF LoginMessage
  <1>14. CASE m.type = "RPTC" /\ AcceptConfig
    <2>1. MasterSend(MSTACK("config")) /\ configured'
      BY <1>14 DEF AcceptConfig
    <2>2. AnswerFits(MSTACK("config"))'
      BY <1>2, <1>14, <2>1 DEF AnswerFits, MSTACK, LoginInv, RequestFits
    <2> QED
      BY <1>10, <1>14, <2>1, <2>2 DEF LoginMessage
  <1>15. CASE MasterSend(RPTPONG) \/ MasterSend(MSTNAK)
    <2>1. ~ LoginMessage(RPTPONG) /\ ~ LoginMessage(MSTNAK)
      BY DEF LoginMessage, RPTPONG, MSTNAK
    <2> QED
      BY <1>10, <1>15, <2>1, OthersFit
  <1> QED
    BY <1>11, <1>12, <1>13, <1>14, <1>15 DEF MasterReceive, Forget, Refuse

\* What the client does of its own accord: the first request when nothing is in
\* flight yet, and pings and goodbyes, which are no login messages.
LEMMA ClientLogin ==
    ASSUME LoginInv,
           dmr_homebrew_auth \/ homebrew_io_ping_timer \/ dmr_homebrew_close
                \/ homebrew_io_error \/ Tick
    PROVE  LoginInv'
  <1> SUFFICES ASSUME "repeat" \notin network
               PROVE  LoginInv'
    BY DEF LoginInv, dmr_homebrew_auth, homebrew_io_ping_timer, dmr_homebrew_close,
       homebrew_io_error, Tick, Released
  <1>1. UNCHANGED <<toClient, accepted, configured, network>> /\ phase' # "new"
    BY DEF dmr_homebrew_auth, homebrew_io_ping_timer, dmr_homebrew_close,
       homebrew_io_error, Tick, Released, master
  <1>2. state' = "AUTH_NONE" \/ (state' = state /\ nonce' = nonce)
    BY DEF dmr_homebrew_auth, homebrew_io_ping_timer, dmr_homebrew_close,
       homebrew_io_error, Tick, Released
  <1>3. (\A q \in BagToSet(toMaster) : RequestFits(q)')
            /\ \A q \in BagToSet(toClient) : AnswerFits(q)'
    BY <1>1, <1>2 DEF LoginInv, RequestFits, AnswerFits
  <1>4. ASSUME NEW r, dmr_homebrew_send_raw(r), RequestFits(r)',
               (Quiet(toMaster) /\ Quiet(toClient)) \/ ~ LoginMessage(r)
        PROVE  LoginInv'
    <2>1. BagToSet(toMaster') \subseteq BagToSet(toMaster) \cup {r}
      BY <1>4, SentDatagrams DEF dmr_homebrew_send_raw
    <2>2. Lone(toMaster') /\ (~ LoginMessage(r) /\ Quiet(toMaster) => Quiet(toMaster'))
      BY <1>4, SentLogin DEF dmr_homebrew_send_raw, LoginInv, OneLoginMessage
    <2> QED
      BY <1>1, <1>2, <1>3, <1>4, <2>1, <2>2 DEF LoginInv, OneLoginMessage
  <1>5. CASE UNCHANGED toMaster
    BY <1>1, <1>2, <1>3, <1>5 DEF LoginInv, OneLoginMessage
  <1>6. CASE dmr_homebrew_auth
    <2>1. state' = "AUTH_NONE" /\ dmr_homebrew_send_raw(RPTL)
      BY <1>6 DEF dmr_homebrew_auth
    <2>2. Quiet(toMaster) /\ Quiet(toClient)
      BY <1>6 DEF dmr_homebrew_auth, LoginInv, OneLoginMessage
    <2>3. RequestFits(RPTL)'
      BY <2>1 DEF RequestFits, RPTL
    <2> QED
      BY <1>4, <2>1, <2>2, <2>3
  <1>7. CASE dmr_homebrew_send_raw(MSTPING) \/ dmr_homebrew_send_raw(Bye)
    <2>1. ~ LoginMessage(MSTPING) /\ ~ LoginMessage(Bye)
      BY DEF LoginMessage, MSTPING, Bye
    <2> QED
      BY <1>4, <1>7, <2>1, OthersFit
  <1> QED
    BY <1>5, <1>6, <1>7 DEF homebrew_io_ping_timer, dmr_homebrew_close,
       homebrew_io_error, Tick

\* On a network that does not repeat datagrams, a client that believes itself
\* logged in holds a nonce whose key the master accepted, and the master accepted
\* its configuration, although both acknowledgements look the same on the wire.
THEOREM LoginIsAgreed == Spec => []LoginAgreed
  <1>1. Init => LoginInv
    <2>1. BagToSet(EmptyBag) = {}
      BY DEF EmptyBag, SetToBag, BagToSet
    <2> QED
      BY <2>1 DEF Init, LoginInv, OneLoginMessage, Lone, Quiet
  <1>2. LoginInv /\ [Next]_vars => LoginInv'
    <2> SUFFICES ASSUME LoginInv, [Next]_vars PROVE LoginInv'
      OBVIOUS
    <2>1. ASSUME NEW m \in BagToSet(toClient), dmr_homebrew_read(m) PROVE LoginInv'
      BY <2>1, ReadLogin
    <2>2. CASE dmr_homebrew_auth \/ homebrew_io_ping_timer \/ dmr_homebrew_close
               \/ homebrew_io_error \/ Tick
      BY <2>2, ClientLogin
    <2>3. ASSUME NEW m \in BagToSet(toMaster), MasterReceive(m) PROVE LoginInv'
      BY <2>3, MasterLogin
    <2>4. CASE Restart \/ UNCHANGED vars
      <3>1. UNCHANGED <<phase, state, nonce, toMaster, toClient, accepted, configured, network>>
        BY <2>4 DEF Restart, Forget, vars, client, master
      <3> QED
        BY <3>1 DEF LoginInv, OneLoginMessage, RequestFits, AnswerFits
    <2>5. CASE Lose
      <3>1. UNCHANGED <<phase, state, nonce, accepted, configured, network>>
        BY <2>5 DEF Lose, client, master
      <3>2. BagToSet(toMaster') \subseteq BagToSet(toMaster)
                /\ BagToSet(toClient') \subseteq BagToSet(toClient)
        BY <2>5, RemovedDatagrams DEF Lose
      <3>3. /\ Lone(toMaster) => Lone(toMaster')
            /\ Lone(toClient) => Lone(toClient')
        BY <2>5, RemovedLogin DEF Lose
      <3>4. /\ Quiet(toMaster) => Quiet(toMaster')
            /\ Quiet(toClient) => Quiet(toClient')
        BY <3>2 DEF Quiet
      <3> QED
        BY <3>1, <3>2, <3>3, <3>4 DEF LoginInv, OneLoginMessage, RequestFits, AnswerFits
    <2> QED
      BY <2>1, <2>2, <2>3, <2>4, <2>5 DEF Next, Client
  <1>3. LoginInv => LoginAgreed
    BY DEF LoginInv, LoginAgreed
  <1> QED
    BY <1>1, <1>2, <1>3, PTL DEF Spec
=============================================================================
