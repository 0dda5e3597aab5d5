----------------------------- MODULE HttpsProps -----------------------------
(***************************************************************************)
(* What is claimed of a request to Telegram.                               *)
(***************************************************************************)
EXTENDS Https

Connected == {"connecting", "method", "auth", "head", "name", "drain", "setup"}
InTls == {"handshake", "write", "read", "cleanup"}

(* Nothing is held that the place in the request does not account for: one   *)
(* socket from the connect to the close, one TLS context inside it, a buffer *)
(* until it is freed or parsed, and the allocations of exactly the cached    *)
(* session.  Every early return and goto cleanup of the three files passes   *)
(* through here, and only a program gone astray is past accounting.          *)
NothingLeaks == pc # "astray" =>
  /\ open = IF pc \in Connected \cup InTls THEN 1 ELSE 0
  /\ tls = IF pc \in InTls THEN 1 ELSE 0
  /\ buf # "none" => pc \in {"read", "cleanup", "parse"}
  /\ tickets = IF session # 0 THEN 1 ELSE 0

(* TLS starts on the first byte the server sends: the proxy's replies have   *)
(* been taken off the socket to the last byte, whatever form its address     *)
(* has, however long its name is, even where it overran discard and nothing  *)
(* came of it, and in however many pieces they came (socks5.c:187-188).      *)
StreamAligned == pc \in {"setup"} \cup InTls => owed = 0 /\ wire = 0 /\ want = 0

(* Every request ends, whatever the peer does or leaves undone, unless it    *)
(* leads the program astray: the pager task never hangs in one.  A receipt,  *)
(* the deadline and the length of the answer are all that is needed for it.  *)
RequestEnds == pc # "idle" ~> pc \in {"idle", "astray"}

(* However often the server changes its key, requests go on being answered:  *)
(* a ticket the server refuses is not offered for ever                       *)
(* (https_client.c:295-297).  A program gone astray need never come back.    *)
AnswersAgain == []<>(pc = "idle" /\ result = "ok") \/ <>[](pc = "astray")

-----------------------------------------------------------------------------
(* The inductive invariant: the two safety properties and what they rest on. *)
Place == {"idle", "resolve", "connect"} \cup Connected \cup InTls \cup {"parse", "astray"}

(* Every variable has its type. *)
TypeOK ==
  /\ proxied \in BOOLEAN /\ creds \in BOOLEAN /\ receipt \in BOOLEAN
  /\ pc \in Place /\ kind \in {"poll", "call"} /\ fine \in BOOLEAN
  /\ addr \in Nat /\ open \in Nat /\ tls \in Nat
  /\ buf \in {"none", "client", "caller"}
  /\ bound \in Forms \cup {Unbound}
  /\ owed \in Nat /\ wire \in Nat /\ want \in Nat
  /\ session \in Nat /\ tickets \in Nat /\ key \in Nat \ {0} /\ offered \in Nat
  /\ spent \in Nat /\ pieces \in Nat /\ got \in Nat /\ total \in Nat
  /\ result \in {"none", "ok", "failed", "aborted", "answer"}

(* What the proxy has sent or owes is what the rest of its reply takes, and   *)
(* read_all asks for the part of it that is at hand.                          *)
Rest ==
  CASE pc = "head" -> AddressBytes(bound) + 2
    [] pc = "name" -> bound.name + 2
    [] OTHER -> 0
RepliesCounted == pc # "astray" =>
  /\ owed + wire = want + Rest
  /\ pc \in {"head", "name", "drain"} => bound \in Forms
  /\ pc = "name" => bound.form = "domain"
  /\ ~ InProxy => want = 0

(* The buffer is the caller's only when there is an answer to hand over.      *)
BufferOwned ==
  buf = "caller" => pc = "parse" \/ (pc = "cleanup" /\ result = "answer")

HttpsInv == TypeOK /\ NothingLeaks /\ StreamAligned /\ RepliesCounted /\ BufferOwned
=============================================================================
