----------------------------- MODULE HttpsProofs -----------------------------
(***************************************************************************)
(* Proofs about a request to Telegram, for any number of addresses, any    *)
(* deadlines, limits and lengths.                                          *)
(***************************************************************************)
EXTENDS HttpsProps, TLAPS

LEMMA HttpsInvInit == Init => HttpsInv
<1> SUFFICES ASSUME Init PROVE HttpsInv
  OBVIOUS
<1>1. proxied \in BOOLEAN /\ creds \in BOOLEAN /\ receipt \in BOOLEAN /\ fine \in BOOLEAN
  BY Zenon DEF Init
<1>2. TypeOK
  BY <1>1 DEF Init, TypeOK, Place
<1>3. NothingLeaks /\ StreamAligned
  BY DEF Init, NothingLeaks, StreamAligned, Connected, InTls
<1>4. RepliesCounted /\ BufferOwned
  BY DEF Init, RepliesCounted, BufferOwned, InProxy, Rest
<1> QED
  BY <1>2, <1>3, <1>4 DEF HttpsInv

(* The length of an address, whatever its form. *)
LEMMA AddressLength ==
  ASSUME NEW b \in Forms
  PROVE  /\ AddressBytes(b) \in Nat
         /\ b.form = "ipv4" => AddressBytes(b) = 4
         /\ b.form = "ipv6" => AddressBytes(b) = 16
         /\ b.form = "domain" => AddressBytes(b) = 1 + b.name
         /\ b.form \in {"ipv4", "ipv6", "domain"}
         /\ b.name \in Nat
  BY HttpsAssumption DEF Forms, AddressBytes

LEMMA HttpsInvStep == HttpsInv /\ [Next]_vars => HttpsInv'
<1> SUFFICES ASSUME HttpsInv, [Next]_vars PROVE HttpsInv'
  OBVIOUS
<1> USE HttpsAssumption
    DEF HttpsInv, TypeOK, NothingLeaks, StreamAligned, RepliesCounted, BufferOwned,
        Place, Connected, InTls, InProxy, Rest, conn, user, proxy, cache, clock, answer
(* The arrivals, and the start of a request.                                *)
<1>1. CASE Receipt
  BY <1>1 DEF Receipt
<1>2. CASE NewKey
  BY <1>2 DEF NewKey
<1>3. CASE BeginPoll
  BY <1>3 DEF BeginPoll, Begin
<1>4. CASE BeginCall
  BY <1>4 DEF BeginCall, Begin
(* tcp_connect.                                                             *)
<1>5. CASE Resolve
  <2>1. fine' \in BOOLEAN
    BY <1>5, Zenon DEF Resolve, Fail
  <2>2. TypeOK'
    BY <1>5, <2>1 DEF Resolve, Fail
  <2>3. NothingLeaks' /\ StreamAligned' /\ RepliesCounted' /\ BufferOwned'
    BY <1>5 DEF Resolve, Fail
  <2> QED
    BY <2>2, <2>3
<1>6. CASE Socket
  BY <1>6 DEF Socket
<1>7. CASE ConnectFails
  BY <1>7 DEF ConnectFails
<1>8. CASE NoneConnects
  BY <1>8 DEF NoneConnects, Fail
<1>9. CASE Connects
  BY <1>9 DEF Connects
(* socks5_handshake.                                                        *)
<1>10. CASE ProxySends
  BY <1>10 DEF ProxySends
<1>11. CASE Recv
  <2>1. PICK n \in Nat : /\ n <= wire /\ n <= want
                        /\ wire' = wire - n /\ want' = want - n
    BY <1>11 DEF Recv
  <2>2. /\ pc' = pc /\ buf' = buf /\ bound' = bound /\ owed' = owed /\ open' = open
        /\ tls' = tls /\ session' = session /\ tickets' = tickets /\ result' = result
    BY <1>11 DEF Recv
  <2>3. TypeOK'
    BY <1>11, <2>1 DEF Recv
  <2>4. Rest' = Rest /\ Rest \in Nat
    BY <2>2, AddressLength
  <2>5. RepliesCounted'
    BY <1>11, <2>1, <2>2, <2>4 DEF Recv
  <2> QED
    BY <1>11, <2>2, <2>3, <2>5 DEF Recv
<1>12. CASE MethodChosen
  BY <1>12, AddressLength DEF MethodChosen, AskConnect
<1>13. CASE Authenticated
  BY <1>13, AddressLength DEF Authenticated, AskConnect
<1>14. CASE HeadRead
  BY <1>14, AddressLength DEF HeadRead
<1>15. CASE NameRead
  BY <1>15, AddressLength DEF NameRead
<1>16. CASE Tunnel
  BY <1>16 DEF Tunnel
<1>17. CASE ProxyFails
  <2>1. fine' \in BOOLEAN
    BY <1>17, Zenon DEF ProxyFails, Fail
  <2>2. TypeOK'
    BY <1>17, <2>1 DEF ProxyFails, Fail
  <2>3. NothingLeaks' /\ StreamAligned' /\ RepliesCounted' /\ BufferOwned'
    BY <1>17 DEF ProxyFails, Fail
  <2> QED
    BY <2>2, <2>3
(* https_post_json.                                                         *)
<1>18. CASE NonblockingFails
  <2>1. fine' \in BOOLEAN
    BY <1>18, Zenon DEF NonblockingFails, Fail
  <2>2. TypeOK'
    BY <1>18, <2>1 DEF NonblockingFails, Fail
  <2>3. NothingLeaks' /\ StreamAligned' /\ RepliesCounted' /\ BufferOwned'
    BY <1>18 DEF NonblockingFails, Fail
  <2> QED
    BY <2>2, <2>3
<1>19. CASE SetupFails
  BY <1>19 DEF SetupFails, Cleanup
<1>20. CASE Setup
  BY <1>20 DEF Setup, DropSession
<1>21. CASE Handshake
  BY <1>21 DEF Handshake, Cache
<1>22. CASE HandshakeRefused
  BY <1>22 DEF HandshakeRefused, DropSession, Cleanup
<1>23. CASE ExchangeFails
  BY <1>23 DEF ExchangeFails, Cleanup
<1>24. CASE WaitAborts
  BY <1>24 DEF WaitAborts, Waiting, Cleanup
<1>25. CASE WaitTimesOut
  BY <1>25 DEF WaitTimesOut, Waiting, Cleanup
<1>26. CASE Wait
  BY <1>26 DEF Wait, Waiting
<1>27. CASE Write
  BY <1>27 DEF Write
<1>28. CASE ReadChunk
  BY <1>28 DEF ReadChunk, Cleanup
<1>29. CASE PeerCloses
  BY <1>29 DEF PeerCloses, Split, Cleanup
<1>30. CASE Reset
  BY <1>30 DEF Reset, Split, Cleanup
<1>31. CASE Close
  <2>1. fine' \in BOOLEAN
    BY <1>31, Zenon DEF Close
  <2>2. TypeOK'
    BY <1>31, <2>1 DEF Close
  <2>3. NothingLeaks' /\ StreamAligned' /\ RepliesCounted' /\ BufferOwned'
    BY <1>31 DEF Close
  <2> QED
    BY <2>2, <2>3
<1>32. CASE Parse
  BY <1>32 DEF Parse
<1>33. CASE UNCHANGED vars
  BY <1>33 DEF vars
(* The program lost, and the panics.                                        *)
<1>34. CASE Astray
  BY <1>34 DEF Astray, Overrun
<1>35. ASSUME Restart PROVE HttpsInv'
  <2>1. proxied' \in BOOLEAN /\ creds' \in BOOLEAN /\ receipt' \in BOOLEAN /\ fine' \in BOOLEAN
    BY <1>35, Zenon DEF Restart
  <2>2. TypeOK'
    BY <1>35, <2>1 DEF Restart
  <2>3. NothingLeaks' /\ StreamAligned' /\ RepliesCounted' /\ BufferOwned'
    BY <1>35 DEF Restart
  <2> QED
    BY <2>2, <2>3
<1>36. CASE Unoffered \/ Recover
  BY <1>35, <1>36, Zenon DEF Unoffered, Recover
<1> QED
  BY <1>1, <1>2, <1>3, <1>4, <1>5, <1>6, <1>7, <1>8, <1>9, <1>10, <1>11, <1>12, <1>13,
     <1>14, <1>15, <1>16, <1>17, <1>18, <1>19, <1>20, <1>21, <1>22, <1>23, <1>24, <1>25,
     <1>26, <1>27, <1>28, <1>29, <1>30, <1>31, <1>32, <1>33, <1>34, <1>36
  DEF Next, ClientStep, ConnectStep, ProxyStep, ExchangeStep

(* Wherever a request stands, what it holds, what the proxy still owes it and *)
(* who owns its buffer are accounted for.                                     *)
THEOREM HttpsInvariant == Spec => []HttpsInv
  BY HttpsInvInit, HttpsInvStep, PTL DEF Spec

(* Every early return and goto cleanup of https_post_json, net_conn_open and *)
(* tcp_connect gives back what was held: request after request, no socket,   *)
(* TLS context, buffer or session is left over, short of a program gone astray.*)
THEOREM HttpsNothingLeaks == Spec => []NothingLeaks
<1>1. HttpsInv => NothingLeaks
  BY DEF HttpsInv
<1> QED
  BY <1>1, HttpsInvariant, PTL

(* socks5_handshake takes the proxy's replies off the socket to the last byte, *)
(* whatever the form of the bound address, at every length a byte can give its *)
(* name, and in however many pieces they come: if the handshake returns, TLS   *)
(* finds its own first byte.  That it returns is not said: a name of more than *)
(* 16 bytes overruns discard (Overrun).                                        *)
THEOREM HttpsStreamAligned == Spec => []StreamAligned
<1>1. HttpsInv => StreamAligned
  BY DEF HttpsInv
<1> QED
  BY <1>1, HttpsInvariant, PTL
=============================================================================
