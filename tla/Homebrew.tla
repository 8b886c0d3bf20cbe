------------------------------- MODULE Homebrew -------------------------------
(***************************************************************************)
(* The Homebrew IPSC client (src/dmr/protocol/homebrew.c, homebrew_io.c):  *)
(* login handshake, keep-alive and shutdown of one link, driven by the I/O *)
(* loop, against a master that is not part of this repository, over UDP.   *)
(*                                                                         *)
(* Time is in whole seconds, as dmr_time_since reads it.  Messages are     *)
(* records; the acknowledgement of a key and that of a configuration are   *)
(* the same 14 bytes on the wire: the field "of" records which one it was  *)
(* for the properties, and the client never looks at it.                   *)
(***************************************************************************)
EXTENDS Integers, Bags

CONSTANTS Nonces,       \* nonces the master may send
          NoNonce,      \* homebrew->nonce before one was received
          PingPeriod,   \* homebrew_io_register: 5 seconds
          PongTimeout,  \* homebrew_io_ping_timer: 10 seconds
          MaxInFlight,  \* bound: datagrams in flight, each way
          Networks      \* sets of faults to consider, subsets of Faults

Faults == {"loss",      \* the network may lose datagrams
           "repeat",    \* the network may deliver a datagram again
           "refusal"}   \* the master may refuse a login and may restart

ASSUME HomebrewAssumption ==
    /\ NoNonce \notin Nonces
    /\ PingPeriod \in Nat \ {0}
    /\ PongTimeout \in Nat
    /\ MaxInFlight \in Nat
    /\ Networks \subseteq SUBSET Faults

VARIABLES phase,       \* the client: "new", "running", "stopped" or "freed"
          state,       \* homebrew->state
          nonce,       \* homebrew->nonce
          since_pong,  \* seconds since homebrew->last_pong, up to PongTimeout + 1
          ping_timer,  \* seconds until the ping timer expires
          unanswered,  \* pings sent since the last pong or login
          toMaster, toClient,  \* datagrams in flight
          session,     \* the master's view of the login
          accepted,    \* the nonces whose key the master accepted so far
          configured,  \* the master accepted a configuration
          network      \* the faults of this run, which never change

client == <<phase, state, nonce, since_pong, ping_timer, unanswered>>
master == <<session, accepted, configured>>
vars == <<client, toMaster, toClient, master, network>>

RPTL == [type |-> "RPTL"]
RPTK(n) == [type |-> "RPTK", nonce |-> n]
RPTC == [type |-> "RPTC"]
Bye == [type |-> "Bye"]
MSTPING == [type |-> "MSTPING"]
MSTACK(of) == [type |-> "MSTACK", of |-> of]
MSTACKn(n) == [type |-> "MSTACKn", nonce |-> n]
MSTNAK == [type |-> "MSTNAK"]
RPTPONG == [type |-> "RPTPONG"]

One(m) == SetToBag({m})

\* dmr_homebrew_new: nothing was sent yet.
Init ==
    /\ phase = "new"
    /\ state = "AUTH_NONE"
    /\ nonce = NoNonce
    /\ since_pong = PongTimeout + 1
    /\ ping_timer = 0
    /\ unanswered = 0
    /\ toMaster = EmptyBag
    /\ toClient = EmptyBag
    /\ session = [state |-> "none", nonce |-> NoNonce]
    /\ accepted = {}
    /\ configured = FALSE
    /\ network \in Networks

(***************************************************************************)
(* The network.                                                            *)
(***************************************************************************)
\* sendto of one datagram by the client, which may fail or be lost.
dmr_homebrew_send_raw(m) ==
    \/ /\ BagCardinality(toMaster) < MaxInFlight
       /\ toMaster' = toMaster (+) One(m)
    \/ /\ "loss" \in network
       /\ UNCHANGED toMaster

MasterSend(m) ==
    \/ /\ BagCardinality(toClient) < MaxInFlight
       /\ toClient' = toClient (+) One(m)
    \/ /\ "loss" \in network
       /\ UNCHANGED toClient

\* A delivered datagram leaves the network, unless a copy stays behind.
Delivered(net, m) == {net (-) One(m)} \cup (IF "repeat" \in network THEN {net} ELSE {})

(***************************************************************************)
(* The client.                                                             *)
(***************************************************************************)
\* init_proto_homebrew: dmr_homebrew_auth, once, then homebrew_io_register.  When
\* this sendto fails noisebridge does not start: the phase stays "new".
dmr_homebrew_auth ==
    /\ phase = "new"
    /\ phase' = "running"
    /\ state' = "AUTH_NONE"
    /\ ping_timer' = PingPeriod
    /\ dmr_homebrew_send_raw(RPTL)
    /\ UNCHANGED <<nonce, since_pong, unanswered, toClient, master, network>>

\* Mutant: sending the key skips a state.
homebrew_send_key_skips(n) ==
    /\ nonce' = n
    /\ state' = "AUTH_CONFIG"
    /\ dmr_homebrew_send_raw(RPTK(n))

\* MSTACK with a nonce: the answer to a login request, taken only before one.
homebrew_send_key(n) ==
    /\ nonce' = n
    /\ state' = "AUTH_INIT"
    /\ dmr_homebrew_send_raw(RPTK(n))

\* Mutant: a challenge is answered in every state.
read_nonce_always(m) ==
    /\ m.type = "MSTACKn"
    /\ homebrew_send_key(m.nonce)
    /\ UNCHANGED <<since_pong, unanswered>>

read_nonce(m) ==
    /\ m.type = "MSTACKn"
    /\ IF state = "AUTH_NONE"
       THEN homebrew_send_key(m.nonce)
       ELSE UNCHANGED <<nonce, state, toMaster>>
    /\ UNCHANGED <<since_pong, unanswered>>

\* Mutant: the login counts as done when the configuration is sent.
homebrew_send_config_done ==
    /\ state' = "AUTH_DONE"
    /\ dmr_homebrew_send_raw(RPTC)
    /\ UNCHANGED <<since_pong, unanswered>>

homebrew_send_config ==
    /\ state' = "AUTH_CONFIG"
    /\ dmr_homebrew_send_raw(RPTC)
    /\ UNCHANGED <<since_pong, unanswered>>

\* Mutant: the state is not advanced.
LoginDone_stays ==
    /\ UNCHANGED <<state, toMaster>>
    /\ since_pong' = 0
    /\ unanswered' = 0

LoginDone ==
    /\ state' = "AUTH_DONE"
    /\ since_pong' = 0
    /\ unanswered' = 0
    /\ UNCHANGED toMaster

\* MSTACK without a nonce accepts the key or the configuration, by our state.
read_ack(m) ==
    /\ m.type = "MSTACK"
    /\ \/ state = "AUTH_INIT" /\ homebrew_send_config
       \/ state = "AUTH_CONFIG" /\ LoginDone
       \/ /\ state \notin {"AUTH_INIT", "AUTH_CONFIG"}
          /\ UNCHANGED <<state, toMaster, since_pong, unanswered>>
    /\ UNCHANGED nonce

read_nak(m) ==
    /\ m.type = "MSTNAK"
    /\ state' = "AUTH_NONE"
    /\ UNCHANGED <<nonce, since_pong, unanswered, toMaster>>

read_pong(m) ==
    /\ m.type = "RPTPONG"
    /\ since_pong' = 0
    /\ unanswered' = 0
    /\ UNCHANGED <<state, nonce, toMaster>>

\* homebrew_io_readable and dmr_homebrew_read.  What they return asks the loop
\* to close the link (MSTNAK, a pong too old), and io_handle_readable and
\* io_handle_timers drop it: the link stays as it is.
dmr_homebrew_read(m) ==
    /\ phase = "running"
    /\ toClient' \in Delivered(toClient, m)
    /\ read_nonce(m) \/ read_ack(m) \/ read_nak(m) \/ read_pong(m)
    /\ UNCHANGED <<phase, ping_timer, master, network>>

\* Mutant: a ping is due as long as we are logged in, however old the last pong.
ping_due_always == state = "AUTH_DONE"

ping_due == state = "AUTH_DONE" /\ since_pong <= PongTimeout

\* homebrew_io_ping_timer, run and armed again by io_handle_timers.
homebrew_io_ping_timer ==
    /\ phase = "running"
    /\ ping_timer <= 0
    /\ ping_timer' = PingPeriod
    /\ \/ /\ state # "AUTH_DONE"
          /\ UNCHANGED <<unanswered, toMaster>>
       \/ /\ ping_due
          /\ unanswered' = unanswered + 1
          /\ dmr_homebrew_send_raw(MSTPING)
       \/ /\ state = "AUTH_DONE" /\ ~ping_due
          /\ UNCHANGED <<unanswered, toMaster>>
    /\ UNCHANGED <<phase, state, nonce, since_pong, toClient, master, network>>

\* The instance is freed: its fields mean nothing any more.
Released(p) ==
    /\ phase = "running"
    /\ phase' = p
    /\ state' = "AUTH_NONE"
    /\ nonce' = NoNonce
    /\ since_pong' = PongTimeout + 1
    /\ ping_timer' = 0
    /\ unanswered' = 0
    /\ UNCHANGED <<toClient, master, network>>

\* SIGINT ended the loop: loop_repeater closes the link and frees it.
dmr_homebrew_close ==
    /\ IF state = "AUTH_NONE" THEN UNCHANGED toMaster ELSE dmr_homebrew_send_raw(Bye)
    /\ Released("stopped")

\* homebrew_io_error frees the instance and drops its registrations.
homebrew_io_error == Released("freed") /\ UNCHANGED toMaster

\* A second passes.
Tick ==
    /\ phase = "running"
    /\ since_pong' = IF since_pong > PongTimeout THEN since_pong ELSE since_pong + 1
    /\ ping_timer' = IF ping_timer > 0 THEN ping_timer - 1 ELSE ping_timer
    /\ UNCHANGED <<phase, state, nonce, unanswered, toMaster, toClient, master, network>>

Client ==
    \/ dmr_homebrew_auth
    \/ \E m \in BagToSet(toClient) : dmr_homebrew_read(m)
    \/ homebrew_io_ping_timer
    \/ dmr_homebrew_close
    \/ homebrew_io_error
    \/ Tick

(***************************************************************************)
(* The master, external: what the client's states presume of it.           *)
(***************************************************************************)
Challenge ==
    \E n \in Nonces :
        /\ session' = [state |-> "challenged", nonce |-> n]
        /\ MasterSend(MSTACKn(n))
        /\ UNCHANGED <<accepted, configured>>

AcceptKey(m) ==
    /\ session.state = "challenged" /\ session.nonce = m.nonce
    /\ session' = [session EXCEPT !.state = "authed"]
    /\ accepted' = accepted \cup {m.nonce}
    /\ MasterSend(MSTACK("key"))
    /\ UNCHANGED configured

AcceptConfig ==
    /\ session.state \in {"authed", "online"}
    /\ session' = [session EXCEPT !.state = "online"]
    /\ configured' = TRUE
    /\ MasterSend(MSTACK("config"))
    /\ UNCHANGED accepted

Refuse ==
    /\ session' = [state |-> "none", nonce |-> NoNonce]
    /\ MasterSend(MSTNAK)
    /\ UNCHANGED <<accepted, configured>>

Forget ==
    /\ session' = [state |-> "none", nonce |-> NoNonce]
    /\ UNCHANGED <<accepted, configured, toClient>>

MasterReceive(m) ==
    /\ toMaster' \in Delivered(toMaster, m)
    /\ \/ m.type = "RPTL" /\ Challenge
       \/ m.type = "RPTK" /\ AcceptKey(m)
       \/ m.type = "RPTC" /\ AcceptConfig
       \/ /\ m.type = "MSTPING" /\ session.state = "online"
          /\ MasterSend(RPTPONG)
          /\ UNCHANGED <<session, accepted, configured>>
       \/ m.type = "Bye" /\ Forget
       \/ m.type \in {"RPTL", "RPTK", "RPTC", "MSTPING"} /\ "refusal" \in network /\ Refuse
    /\ UNCHANGED <<client, network>>

Restart ==
    /\ "refusal" \in network
    /\ session.state # "none"
    /\ Forget
    /\ UNCHANGED <<client, toMaster, network>>

Lose ==
    /\ "loss" \in network
    /\ \/ \E m \in BagToSet(toClient) : toClient' = toClient (-) One(m) /\ UNCHANGED toMaster
       \/ \E m \in BagToSet(toMaster) : toMaster' = toMaster (-) One(m) /\ UNCHANGED toClient
    /\ UNCHANGED <<client, master, network>>

Next ==
    \/ Client
    \/ \E m \in BagToSet(toMaster) : MasterReceive(m)
    \/ Restart
    \/ Lose

Spec == Init /\ [][Next]_vars

\* The program calls dmr_homebrew_auth when it starts; the I/O loop serves a
\* readable socket and an expired timer; time passes; the master answers.
FairSpec ==
    /\ Spec
    /\ WF_vars(dmr_homebrew_auth)
    /\ WF_vars(\E m \in BagToSet(toClient) : dmr_homebrew_read(m))
    /\ WF_vars(homebrew_io_ping_timer)
    /\ WF_vars(Tick)
    /\ WF_vars(\E m \in BagToSet(toMaster) : MasterReceive(m))

(***************************************************************************)
(* Properties.                                                             *)
(***************************************************************************)
ClientMessages == {RPTL, RPTC, Bye, MSTPING} \cup {RPTK(n) : n \in Nonces}
MasterMessages == {MSTNAK, RPTPONG} \cup {MSTACK(of) : of \in {"key", "config"}}
                    \cup {MSTACKn(n) : n \in Nonces}

\* The client's fields, the datagrams in flight and the master's session keep
\* their types (dmr_homebrew).
TypeOK ==
    /\ phase \in {"new", "running", "stopped", "freed"}
    /\ state \in {"AUTH_NONE", "AUTH_INIT", "AUTH_CONFIG", "AUTH_DONE"}
    /\ nonce \in Nonces \cup {NoNonce}
    /\ since_pong \in 0..(PongTimeout + 1)
    /\ ping_timer \in 0..PingPeriod
    /\ unanswered \in Nat
    /\ BagToSet(toMaster) \subseteq ClientMessages
    /\ BagToSet(toClient) \subseteq MasterMessages
    /\ session \in [state : {"none", "challenged", "authed", "online"},
                    nonce : Nonces \cup {NoNonce}]
    /\ accepted \subseteq Nonces
    /\ configured \in BOOLEAN
    /\ network \subseteq Faults

\* Whatever the network loses, repeats or reorders, and whatever the master
\* refuses or forgets, the client sends its configuration and believes itself
\* logged in only after the master accepted a key of it (dmr_homebrew_read).
KeyWasAccepted == state \in {"AUTH_CONFIG", "AUTH_DONE"} => accepted # {}

\* When the network does not repeat datagrams, a logged in client and the master
\* agree: the master accepted the key for the very nonce the client holds, and
\* its configuration.
LoginAgreed ==
    "repeat" \notin network =>
        /\ state \in {"AUTH_CONFIG", "AUTH_DONE"} => nonce \in accepted
        /\ state = "AUTH_DONE" => configured

\* A master that stopped answering gets at most this many more pings: a ping is
\* sent only while the last pong is no older than PongTimeout, and pings are
\* PingPeriod apart.
UnansweredPingsBounded == unanswered <= (PongTimeout \div PingPeriod) + 1

\* The nonce a key was computed from stays, until the login starts over: a late
\* or repeated challenge does not replace it under a key already sent.
NonceStable ==
    [][state # "AUTH_NONE" /\ state' # "AUTH_NONE" => nonce' = nonce]_vars

\* On a network without faults, with a master that accepts, the login
\* completes or the program ends first.
LoginCompletes ==
    (network = {} /\ phase = "running") ~> (state = "AUTH_DONE" \/ phase # "running")

=============================================================================
