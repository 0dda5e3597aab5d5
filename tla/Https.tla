-------------------------------- MODULE Https --------------------------------
(***************************************************************************)
(* https_client.c over net_conn.c and socks5.c, and call_api() of          *)
(* telegram.c: one request of the pager task at a time, either the long    *)
(* poll, which a waiting receipt cuts short, or a call.                    *)
(*                                                                         *)
(* What the request holds is state: the socket, the TLS context, the       *)
(* response buffer, the allocations behind a TLS session.  Time is counted *)
(* in slices of select(), bytes of the proxy one by one, bytes of the      *)
(* answer in chunks.  Telegram and the proxy are external: they may stall, *)
(* cut the connection, or send what they owe in any number of pieces.  The  *)
(* proxy may also name its address at a length that overruns the buffer it  *)
(* is discarded into, or choose an authentication nobody offered.           *)
(***************************************************************************)
EXTENDS Integers, FiniteSets

CONSTANTS
  Addresses,     \* how many addresses getaddrinfo returns
  NameLengths,   \* lengths of a bound address given as a name
  PollSlices,    \* APP_HTTP_SOCKET_TIMEOUT_MS / WAIT_SLICE_MS
  CallSlices,    \* TELEGRAM_CALL_TIMEOUT_MS / WAIT_SLICE_MS
  MaxPieces,     \* bound: wakeups of select() that complete nothing
  Header,        \* the chunk of an answer that completes its header
  AnswerLengths, \* lengths of an answer
  MaxLen,        \* APP_HTTP_MAX_RESPONSE, in chunks
  MaxKey         \* bound: the server changes its ticket key MaxKey - 1 times

ASSUME HttpsAssumption ==
  /\ Addresses \in Nat \ {0} /\ MaxPieces \in Nat /\ MaxKey \in Nat \ {0}
  /\ NameLengths \subseteq 0 .. 255
  /\ PollSlices \in Nat \ {0} /\ CallSlices \in Nat \ {0}
  /\ Header \in Nat \ {0} /\ MaxLen \in Nat
  /\ AnswerLengths \subseteq Nat \ {0}
  /\ \E n \in AnswerLengths : Header <= n /\ n <= MaxLen

VARIABLES
  proxied, creds,  \* proxy_enabled; its user and password are set
  receipt,         \* a receipt waits in s_ack_queue
  pc, kind,        \* where the request is; "poll" or "call"
  fine,            \* the network holds up for the whole of this request
  addr,            \* the address tcp_connect tries
  open, tls,       \* sockets open, TLS contexts set up
  buf,             \* who owns the response buffer
  bound,           \* the form of the bound address in the proxy's reply
  owed, wire,      \* bytes the proxy has yet to send; bytes not yet received
  want,            \* what read_all still wants
  session,         \* the key of the ticket in s_session, 0 without one
  tickets,         \* sessions allocated
  key,             \* the key the server now seals tickets with
  offered,         \* the key of the ticket offered, 0 without one
  spent, pieces,   \* slices of the deadline used; wakeups left
  got, total,      \* chunks of the answer read, and sent
  result           \* of the last request

user == <<proxied, creds, receipt>>
conn == <<addr, open>>
proxy == <<bound, owed, wire, want>>
cache == <<session, tickets, key>>
clock == <<spent, pieces>>
answer == <<buf, got, total>>
vars == <<user, pc, kind, fine, conn, tls, proxy, cache, offered, clock, answer, result>>

Unbound == [form |-> "none", name |-> 0]

Init ==
  /\ proxied \in BOOLEAN /\ creds \in {proxied, FALSE} /\ receipt = FALSE
  /\ pc = "idle" /\ kind = "poll" /\ fine = FALSE
  /\ addr = 0 /\ open = 0 /\ tls = 0 /\ buf = "none"
  /\ bound = Unbound /\ owed = 0 /\ wire = 0 /\ want = 0
  /\ session = 0 /\ tickets = 0 /\ key = 1 /\ offered = 0
  /\ spent = 0 /\ pieces = 0 /\ got = 0 /\ total = 0 /\ result = "none"

-----------------------------------------------------------------------------
(* The button task queues a receipt; the server changes its key.            *)
Receipt ==
  /\ ~ receipt /\ receipt' = TRUE
  /\ UNCHANGED <<proxied, creds, pc, kind, fine, conn, tls, proxy, cache, offered, clock,
                 answer, result>>

NewKey ==
  /\ key < MaxKey /\ key' = key + 1
  /\ UNCHANGED <<user, pc, kind, fine, conn, tls, proxy, session, tickets, offered, clock,
                 answer, result>>

Begin(k) ==
  /\ pc = "idle" /\ pc' = "resolve" /\ kind' = k
  /\ fine' \in BOOLEAN
  /\ result' = "none"
  /\ UNCHANGED <<proxied, creds, conn, tls, proxy, cache, offered, clock, answer>>

BeginPoll == Begin("poll") /\ UNCHANGED receipt
\* drain_acks takes the receipt it reports.
BeginCall == receipt /\ receipt' = FALSE /\ Begin("call")

(* net_conn_open, or the close that follows its failure, ends the request,   *)
(* and its locals are gone.                                                  *)
Fail ==
  /\ pc' = "idle" /\ result' = "failed"
  /\ kind' = "poll" /\ fine' = FALSE /\ addr' = 0

-----------------------------------------------------------------------------
(* tcp_connect: each address in turn, a socket each.                         *)
Resolve ==
  /\ pc = "resolve"
  /\ \/ pc' = "connect" /\ addr' = 1 /\ UNCHANGED <<kind, fine, result>>
     \/ ~ fine /\ Fail
  /\ UNCHANGED <<user, open, tls, proxy, cache, offered, clock, answer>>

Socket ==
  /\ pc = "connect" /\ addr <= Addresses
  /\ \/ open' = open + 1 /\ pc' = "connecting" /\ UNCHANGED addr
     \/ ~ fine /\ addr' = addr + 1 /\ UNCHANGED <<open, pc>>
  /\ UNCHANGED <<user, kind, fine, tls, proxy, cache, offered, clock, answer, result>>

ConnectFails ==
  /\ pc = "connecting" /\ (~ fine \/ addr < Addresses)
  /\ open' = open - 1 /\ addr' = addr + 1 /\ pc' = "connect"
  /\ UNCHANGED <<user, kind, fine, tls, proxy, cache, offered, clock, answer, result>>

NoneConnects ==
  /\ pc = "connect" /\ addr > Addresses
  /\ Fail
  /\ UNCHANGED <<user, open, tls, proxy, cache, offered, clock, answer>>

Connects ==
  /\ pc = "connecting" /\ addr' = 0
  /\ IF proxied THEN pc' = "method" /\ owed' = 2 /\ want' = 2
     ELSE pc' = "setup" /\ UNCHANGED <<owed, want>>
  /\ UNCHANGED <<user, kind, fine, open, tls, bound, wire, cache, offered, clock, answer,
                 result>>

-----------------------------------------------------------------------------
(* socks5_handshake: method, credentials, request, each answered by a reply  *)
(* that read_all takes off the socket byte by byte.                          *)
InProxy == pc \in {"method", "auth", "head", "name", "drain"}

ProxySends ==
  /\ InProxy /\ owed > 0
  /\ owed' = owed - 1 /\ wire' = wire + 1
  /\ UNCHANGED <<user, pc, kind, fine, conn, tls, bound, want, cache, offered, clock,
                 answer, result>>

Recv ==
  /\ InProxy /\ want > 0 /\ wire > 0
  /\ LET n == IF wire < want THEN wire ELSE want
     IN  wire' = wire - n /\ want' = want - n
  /\ UNCHANGED <<user, pc, kind, fine, conn, tls, bound, owed, cache, offered, clock,
                 answer, result>>

\* The reply to CONNECT: four bytes, the address, two bytes of port.  A name
\* comes with its length, in a byte.
Forms == {[form |-> f, name |-> 0] : f \in {"ipv4", "ipv6"}}
         \cup {[form |-> "domain", name |-> n] : n \in NameLengths}
AddressBytes(b) ==
  CASE b.form = "ipv4" -> 4 [] b.form = "ipv6" -> 16 [] b.form = "domain" -> 1 + b.name

Discard == 18  \* sizeof(discard)
Overrun == pc = "drain" /\ bound.name + 2 - want > Discard

AskConnect ==
  /\ pc' = "head"
  /\ \E b \in Forms :
       /\ fine => b.name + 2 <= Discard
       /\ bound' = b /\ owed' = 4 + AddressBytes(b) + 2
  /\ want' = 4

MethodChosen ==
  /\ pc = "method" /\ want = 0
  /\ \/ AskConnect
     \/ creds /\ pc' = "auth" /\ owed' = 2 /\ want' = 2 /\ UNCHANGED bound
  /\ UNCHANGED <<user, kind, fine, conn, tls, wire, cache, offered, clock, answer, result>>

Authenticated ==
  /\ pc = "auth" /\ want = 0 /\ AskConnect
  /\ UNCHANGED <<user, kind, fine, conn, tls, wire, cache, offered, clock, answer, result>>

HeadReadNoPort ==
  /\ pc = "head" /\ want = 0
  /\ IF bound.form = "domain" THEN pc' = "name" /\ want' = 1
     ELSE pc' = "drain" /\ want' = IF bound.form = "ipv4" THEN 4 ELSE 16 + 2
  /\ UNCHANGED <<user, kind, fine, conn, tls, bound, owed, wire, cache, offered, clock,
                 answer, result>>

HeadRead ==
  /\ pc = "head" /\ want = 0
  /\ IF bound.form = "domain" THEN pc' = "name" /\ want' = 1
     ELSE pc' = "drain" /\ want' = IF bound.form = "ipv4" THEN 4 + 2 ELSE 16 + 2
  /\ UNCHANGED <<user, kind, fine, conn, tls, bound, owed, wire, cache, offered, clock,
                 answer, result>>

NameRead ==
  /\ pc = "name" /\ want = 0
  /\ pc' = "drain" /\ want' = bound.name + 2
  /\ UNCHANGED <<user, kind, fine, conn, tls, bound, owed, wire, cache, offered, clock,
                 answer, result>>

Tunnel ==
  /\ pc = "drain" /\ want = 0
  /\ pc' = "setup" /\ bound' = Unbound
  /\ UNCHANGED <<user, kind, fine, conn, tls, owed, wire, want, cache, offered, clock, answer, result>>

(* What lies behind discard on the stack is overwritten.  If that was in use *)
(* the program is lost, whatever it does next, until the chip resets; if not *)
(* nothing comes of it.                                                      *)
Astray ==
  /\ Overrun
  /\ pc' = "astray"
  /\ UNCHANGED <<user, kind, fine, conn, tls, proxy, cache, offered, clock, answer, result>>

Restart ==
  /\ pc' = "idle" /\ kind' = "poll" /\ fine' = FALSE /\ result' = "none" /\ receipt' = FALSE
  /\ addr' = 0 /\ open' = 0 /\ tls' = 0 /\ buf' = "none" /\ got' = 0 /\ total' = 0
  /\ bound' = Unbound /\ owed' = 0 /\ wire' = 0 /\ want' = 0
  /\ session' = 0 /\ tickets' = 0 /\ offered' = 0 /\ spent' = 0 /\ pieces' = 0
  /\ UNCHANGED <<proxied, creds, key>>

Recover == pc = "astray" /\ Restart

\* Credentials asked for although none were offered: strlen(NULL) panics.
Unoffered == pc = "method" /\ want = 0 /\ ~ creds /\ ~ fine /\ Restart

(* A refusal, a wrong version, a connection cut, a recv that timed out:      *)
(* net_conn_open closes the socket, and what was on it is gone.              *)
ProxyFails ==
  /\ InProxy /\ ~ fine
  /\ open' = open - 1 /\ Fail
  /\ bound' = Unbound /\ owed' = 0 /\ wire' = 0 /\ want' = 0
  /\ UNCHANGED <<user, tls, cache, offered, clock, answer>>

-----------------------------------------------------------------------------
(* https_post_json: the context, the cached session, the handshake.          *)
NonblockingFails ==
  /\ pc = "setup" /\ ~ fine
  /\ open' = open - 1 /\ Fail
  /\ UNCHANGED <<user, tls, proxy, cache, offered, clock, answer>>

Cleanup(r) ==
  /\ pc' = "cleanup" /\ result' = r
  /\ offered' = 0 /\ spent' = 0 /\ pieces' = 0

DropSession ==
  /\ session' = 0
  /\ tickets' = IF session # 0 THEN tickets - 1 ELSE tickets

SetupFails ==
  /\ pc = "setup" /\ ~ fine
  /\ tls' = tls + 1 /\ Cleanup("failed")
  /\ UNCHANGED <<user, kind, fine, conn, proxy, cache, answer>>

Setup ==
  /\ pc = "setup"
  /\ tls' = tls + 1 /\ pc' = "handshake" /\ spent' = 0 /\ pieces' = MaxPieces
  /\ \/ offered' = session /\ UNCHANGED <<session, tickets>>
     \/ ~ fine /\ session # 0 /\ offered' = 0 /\ DropSession
  /\ UNCHANGED <<user, kind, fine, conn, proxy, key, answer, result>>

CacheLeaks ==
  \/ session' = key /\ tickets' = tickets + 1
  \/ ~ fine /\ UNCHANGED <<session, tickets>>
(* cache_session: the fresh session replaces the old one, or is given up.    *)
Cache ==
  \/ session' = key /\ tickets' = IF session # 0 THEN tickets ELSE tickets + 1
  \/ ~ fine /\ UNCHANGED <<session, tickets>>

Handshake ==
  /\ pc = "handshake"
  /\ Cache /\ pc' = "write" /\ offered' = 0
  /\ UNCHANGED <<user, kind, fine, conn, tls, proxy, key, clock, answer, result>>

\* A server may refuse a ticket sealed with a key it no longer holds.
Refusal == ~ fine \/ (offered # 0 /\ offered # key)

HandshakeRefusedKeeps ==
  /\ pc = "handshake" /\ Refusal
  /\ Cleanup("failed")
  /\ UNCHANGED <<user, kind, fine, conn, tls, proxy, cache, answer>>

HandshakeRefused ==
  /\ pc = "handshake" /\ Refusal
  /\ DropSession /\ Cleanup("failed")
  /\ UNCHANGED <<user, kind, fine, conn, tls, proxy, key, answer>>

(* The certificate does not verify, or a write fails hard.                   *)
ExchangeFails ==
  /\ pc \in {"handshake", "write"} /\ ~ fine
  /\ Cleanup("failed")
  /\ UNCHANGED <<user, kind, fine, conn, tls, proxy, cache, answer>>

-----------------------------------------------------------------------------
(* wait_for_socket: first the abort, then the deadline, then one slice of    *)
(* select(), which the peer may end early without completing anything.       *)
Waiting == pc \in {"handshake", "write", "read"}
Aborting == kind = "poll" /\ receipt
Slices == IF kind = "poll" THEN PollSlices ELSE CallSlices

WaitAborts ==
  /\ Waiting /\ Aborting
  /\ Cleanup("aborted")
  /\ UNCHANGED <<user, kind, fine, conn, tls, proxy, cache, answer>>

WaitTimesOut ==
  /\ Waiting /\ ~ Aborting /\ spent >= Slices
  /\ Cleanup("failed")
  /\ UNCHANGED <<user, kind, fine, conn, tls, proxy, cache, answer>>

WaitRestartsClock ==
  /\ Waiting /\ ~ Aborting /\ spent < Slices
  /\ \/ (~ fine \/ spent + 1 < Slices) /\ spent' = spent + 1
     \/ spent' = 0
  /\ UNCHANGED <<user, pc, kind, fine, conn, tls, proxy, cache, pieces, offered, answer,
                 result>>

Wait ==
  /\ Waiting /\ ~ Aborting /\ spent < Slices
  /\ \/ /\ ~ fine \/ spent + 1 < Slices
        /\ spent' = spent + 1 /\ UNCHANGED pieces
     \/ pieces > 0 /\ pieces' = pieces - 1 /\ UNCHANGED spent
  /\ UNCHANGED <<user, pc, kind, fine, conn, tls, proxy, cache, offered, answer, result>>

-----------------------------------------------------------------------------
(* The request goes out; the answer comes until the peer closes.             *)
Write ==
  /\ pc = "write" /\ pc' = "read"
  /\ got' = 0
  /\ total' \in {n \in AnswerLengths : fine => Header <= n /\ n <= MaxLen}
  /\ UNCHANGED <<user, kind, fine, conn, tls, proxy, cache, offered, clock, buf, result>>

\* resp_append refuses what would pass the limit, or finds no memory.
ReadChunk ==
  /\ pc = "read" /\ got < total
  /\ \/ /\ got < MaxLen
        /\ got' = got + 1 /\ buf' = "client"
        /\ UNCHANGED <<pc, result, total, offered, clock>>
     \/ /\ ~ fine /\ Cleanup("failed") /\ UNCHANGED answer
  /\ UNCHANGED <<user, kind, fine, conn, tls, proxy, cache>>

\* split_response; the buffer goes to the caller.
Split ==
  IF got < Header THEN Cleanup("failed") /\ UNCHANGED answer
  ELSE Cleanup("answer") /\ buf' = "caller" /\ UNCHANGED <<got, total>>

PeerCloses ==
  /\ pc = "read" /\ (~ fine \/ got = total)
  /\ Split
  /\ UNCHANGED <<user, kind, fine, conn, tls, proxy, cache>>

\* A reset is a close once something has arrived.
Reset ==
  /\ pc = "read" /\ ~ fine
  /\ \/ got > 0 /\ Split
     \/ Cleanup("failed") /\ UNCHANGED answer
  /\ UNCHANGED <<user, kind, fine, conn, tls, proxy, cache>>

Close ==
  /\ pc = "cleanup"
  /\ tls' = tls - 1 /\ open' = open - 1
  /\ buf' = IF buf = "client" THEN "none" ELSE buf
  /\ IF result = "answer" THEN pc' = "parse" /\ UNCHANGED <<kind, fine, got, total>>
     ELSE pc' = "idle" /\ kind' = "poll" /\ fine' = FALSE /\ got' = 0 /\ total' = 0
  /\ UNCHANGED <<user, addr, proxy, cache, offered, clock, result>>

(* call_api: what was cut short is not valid JSON; what is may say no.       *)
Parse ==
  /\ pc = "parse" /\ pc' = "idle"
  /\ buf' = "none" /\ kind' = "poll" /\ fine' = FALSE /\ got' = 0 /\ total' = 0
  /\ \/ got = total /\ result' = "ok"
     \/ ~ fine /\ result' = "failed"
  /\ UNCHANGED <<user, conn, tls, proxy, cache, offered, clock>>

ConnectStep == Resolve \/ Socket \/ ConnectFails \/ NoneConnects \/ Connects
ProxyStep ==
  \/ Recv \/ MethodChosen \/ Unoffered \/ Authenticated \/ HeadRead \/ NameRead
  \/ Tunnel \/ Astray \/ ProxyFails
ExchangeStep ==
  \/ NonblockingFails \/ SetupFails \/ Setup
  \/ Handshake \/ HandshakeRefused \/ ExchangeFails
  \/ WaitAborts \/ WaitTimesOut \/ Wait
  \/ Write \/ ReadChunk \/ PeerCloses \/ Reset \/ Close \/ Parse
ClientStep == ConnectStep \/ ProxyStep \/ ExchangeStep

Next == Receipt \/ NewKey \/ BeginPoll \/ BeginCall \/ ProxySends \/ ClientStep \/ Recover

(* The pager task runs and asks again; select() and recv() return in time.   *)
Running == WF_vars(ClientStep)
(* A network that is used for ever holds up for one request now and then,    *)
(* and a proxy it reaches sends what it owes.                                *)
NowAndThen ==
  /\ WF_vars(BeginPoll) /\ WF_vars(ProxySends)
  /\ SF_vars(BeginPoll /\ fine') /\ SF_vars(BeginCall /\ fine')

Spec == Init /\ [][Next]_vars
FairSpec == Spec /\ Running /\ NowAndThen
=============================================================================
