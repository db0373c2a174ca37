-------------------------------- MODULE Http ---------------------------------
(***************************************************************************)
(* One call of the http tool (http.rs) with its destination policy         *)
(* (destination.rs): the registry validates the call, the tool checks it   *)
(* again, connects to the addresses this second check resolved, and reads  *)
(* a body that may be longer than it keeps.  Names may resolve differently *)
(* each time.                                                              *)
(*                                                                         *)
(* A URL is what parse makes of it, and whether its host ends in a dot,    *)
(* which parse strips and the request keeps; a body is its length.         *)
(***************************************************************************)
EXTENDS Naturals, FiniteSets, FiniteSetsExt

CONSTANTS
  AllowedHosts, \* allowed_hosts of the tool
  BodyLimit,    \* body_limit
  MaxChunk,     \* bound: bytes of one chunk of a response
  MaxBody       \* bound: bytes a server sends

ASSUME HttpAssumption == /\ BodyLimit \in Nat \ {0}
                         /\ MaxChunk \in Nat /\ MaxBody \in Nat

VARIABLES
  request,  \* the arguments of the call
  exchange, \* where the call is, its addresses, its body so far, its answer
  served    \* ghost: bytes of the body that have reached the client

httpVars == <<request, exchange, served>>

Hosts == {"loopback name", "loopback address", "public name", "public address", "blocked address"}
Urls == [scheme : {"http", "https", "other"}, host : Hosts, dotted : BOOLEAN,
         port : {"listed", "other"}]

\* is_loopback_name: localhost, ::1 or 127.0.0.0/8.
IsLoopbackName(host) == host \in {"loopback name", "loopback address"}

\* to_socket_addrs for a name; a literal is its own address.  {} is a failure.
ResolvesTo(host) ==
  CASE host = "loopback address" -> {{"loopback"}}
    [] host = "public address" -> {{"public"}}
    [] host = "blocked address" -> {{"blocked"}}
    [] OTHER -> SUBSET {"loopback", "public", "blocked"}

\* check_address of every address, after normalize.
Passes(addrs, loopbackOnly) ==
  addrs # {} /\ addrs \subseteq (IF loopbackOnly THEN {"loopback"} ELSE {"public"})

\* validate_destination once addrs is what the host resolved to.
Destination(url, addrs) ==
  /\ url.scheme # "other" /\ url.port = "listed"
  /\ IsLoopbackName(url.host) <=> url.scheme = "http"
  /\ Passes(addrs, url.scheme = "http")

\* check: method and host come before the resolution, body and headers after it.
Check(addrs) ==
  /\ request.method = "known"
  /\ request.url.scheme # "other" /\ request.url.host \in AllowedHosts
  /\ Destination(request.url, addrs)
  /\ request.rest = "accepted"

HttpInit ==
  /\ request \in [method : {"known", "other"}, url : Urls, rest : {"accepted", "refused"}]
  /\ exchange = [at |-> "new", addrs |-> {}, peer |-> "none", good |-> FALSE,
                 stored |-> 0, total |-> 0, cut |-> FALSE, answer |-> "none"]
  /\ served = 0

Answers(answer) == exchange' = [exchange EXCEPT !.at = "answered", !.answer = answer]

\* validate, called by the registry: the addresses it finds are thrown away.
Validates ==
  /\ exchange.at = "new"
  /\ \E addrs \in ResolvesTo(request.url.host) :
       IF Check(addrs) THEN exchange' = [exchange EXCEPT !.at = "valid"] ELSE Answers("rejected")
  /\ UNCHANGED <<request, served>>

\* execute checks and resolves again, and pins the client to these addresses.
Checks ==
  /\ exchange.at = "valid"
  /\ \E addrs \in ResolvesTo(request.url.host) :
       IF Check(addrs) THEN exchange' = [exchange EXCEPT !.at = "pinned", !.addrs = addrs]
       ELSE Answers("rejected")
  /\ UNCHANGED <<request, served>>

\* resolve_to_addrs pins the host that was checked, which has lost its dot.  The
\* request is sent to the URL as it came: a name with the dot is not the pinned one.
Unpinned == request.url.dotted /\ request.url.host \in {"loopback name", "public name"}

\* What the client connects to.
Peers == IF Unpinned THEN UNION ResolvesTo(request.url.host) ELSE exchange.addrs

\* send: a failure of the request, a redirect, which is not followed, or a
\* response with a good or a bad status, whose body is to be read.
Sends ==
  /\ exchange.at = "pinned"
  /\ \/ \E why \in {"timeout", "connect_failed", "bad_request", "request_failed"} : Answers(why)
     \/ \E peer \in Peers :
          \/ exchange' = [exchange EXCEPT !.at = "answered", !.peer = peer,
                                          !.answer = "redirect_refused"]
          \/ \E good \in BOOLEAN :
               exchange' = [exchange EXCEPT !.at = "reading", !.peer = peer, !.good = good]
  /\ UNCHANGED <<request, served>>

\* Faulty variant of Kept: a chunk that does not fit is dropped whole.
Kept_Whole(stored, n) == IF n <= BodyLimit - stored THEN stored + n ELSE stored

\* What is kept after a chunk of n bytes, and whether the chunk is cut.
Kept(stored, n) == Min({stored + n, BodyLimit})
Cuts(stored, n) == stored >= BodyLimit \/ n > BodyLimit - stored

\* A chunk in the loop; past twice the limit the rest is only counted.
TakesChunk ==
  /\ exchange.at = "reading" /\ served < MaxBody
  /\ \E n \in 0..Min({MaxChunk, MaxBody - served}) :
       LET total == exchange.total + n
           stored == Kept(exchange.stored, n) IN
       /\ served' = served + n
       /\ exchange' = [exchange EXCEPT
            !.total = total, !.stored = stored,
            !.cut = @ \/ Cuts(exchange.stored, n),
            !.at = IF total > BodyLimit * 2 /\ stored >= BodyLimit THEN "draining" ELSE @]
  /\ UNCHANGED request

\* The end of the loop, by the end of the body or by too much of it.
Finished(e) ==
  [e EXCEPT !.at = "answered", !.cut = @ \/ e.total > BodyLimit,
            !.answer = IF e.good THEN "success" ELSE "http_status"]

\* A chunk of what is only counted; past four times the limit reading stops.
Drains ==
  /\ exchange.at = "draining" /\ served < MaxBody
  /\ \E n \in 0..Min({MaxChunk, MaxBody - served}) :
       LET counted == [exchange EXCEPT !.total = @ + n] IN
       /\ served' = served + n
       /\ exchange' = IF counted.total > BodyLimit * 4 THEN Finished(counted) ELSE counted
  /\ UNCHANGED request

BodyEnds ==
  /\ exchange.at \in {"reading", "draining"}
  /\ exchange' = Finished(exchange)
  /\ UNCHANGED <<request, served>>

\* An error of the stream, the client's timeout included, is an answer of its own
\* unless the rest was only being counted: then it ends the loop like the body's end.
BodyFails ==
  /\ \/ exchange.at = "reading" /\ Answers("body_read_failed")
     \/ exchange.at = "draining" /\ exchange' = Finished(exchange)
  /\ UNCHANGED <<request, served>>

HttpNext ==
  Validates \/ Checks \/ Sends \/ TakesChunk \/ Drains \/ BodyEnds \/ BodyFails

HttpSpec == HttpInit /\ [][HttpNext]_httpVars

-----------------------------------------------------------------------------
\* A call is somewhere between its arguments and its answer, and never keeps
\* more than body_limit.
HttpTypeOK ==
  /\ exchange.at \in {"new", "valid", "pinned", "reading", "draining", "answered"}
  /\ exchange.addrs \subseteq {"loopback", "public", "blocked"}
  /\ exchange.stored \in 0..BodyLimit /\ exchange.total \in 0..MaxBody /\ served \in 0..MaxBody
  /\ exchange.at = "answered" <=> exchange.answer # "none"

(* The exchange is the one that was checked: unless the host is a name     *)
(* with a dot at its end, which the client resolves once more, the peer is *)
(* an address that passes for the scheme of the URL, however often the     *)
(* name resolved to something else.  And, whoever the peer is, the answer  *)
(* tells the body as it came, wherever the chunks were divided: the body   *)
(* kept is what arrived up to the limit, response_bytes all of it, and     *)
(* truncated is set when bytes were lost and never for a body below the    *)
(* limit (one of exactly the limit is flagged when an empty chunk follows).*)
ExchangeFaithful ==
  /\ exchange.peer # "none" /\ ~Unpinned =>
       exchange.peer = IF request.url.scheme = "http" THEN "loopback" ELSE "public"
  /\ exchange.answer \in {"success", "http_status"} =>
       /\ exchange.stored = Min({served, BodyLimit})
       /\ exchange.total = served
       /\ served > BodyLimit => exchange.cut
       /\ exchange.cut => served >= BodyLimit
=============================================================================
