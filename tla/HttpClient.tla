----------------------------- MODULE HttpClient -----------------------------
(***************************************************************************)
(* One POST of a provider through httplib's client: each call makes a      *)
(* Client of its own, which connects (Gemini's through a proxy), shakes    *)
(* hands if the URL is https, writes the request, reads the answer line by *)
(* line and piece by piece, and closes.  keep_alive_, follow_location_,    *)
(* digest authentication, compression and stop() are never used.           *)
(*                                                                         *)
(* An answer is the sequence of its lines and of the pieces of its body.   *)
(* The server sends them one at a time, may put a keep-alive line or piece *)
(* before any of them, and may end or drop the connection at any time.     *)
(***************************************************************************)
EXTENDS Integers, Sequences, FiniteSets

CONSTANTS
    Calls,      \* the calls the providers make
    Hosts,      \* what may become of the addresses of a name
    Answers,    \* what servers send
    Tunnels     \* what proxies send to a CONNECT

Status == {"ok", "nothing", "error"}
Header == {"length", "chunked", "gzip", "close", "other"}
Part   == Status \cup Header \cup {"continue", "junk", "blank", "size", "piece", "last", "trailer"}

ASSUME CallsAssumption ==
    Calls \subseteq [scheme : {"http", "https", "other"}, proxied : BOOLEAN,
                     stream : BOOLEAN, openssl : BOOLEAN]
ASSUME HostsAssumption == Hosts \subseteq Seq({"refuses", "silent", "answers"})
ASSUME AnswersAssumption == Answers \cup Tunnels \subseteq [parts : Seq(Part), length : Nat]
\* A proxy does not ask a CONNECT for more.
ASSUME TunnelsAssumption ==
    \A a \in Tunnels : \A i \in DOMAIN a.parts : a.parts[i] # "continue"

VARIABLES
    call, hosts, pc,
    attempt,    \* send calls send_ for the first or for the second time
    try,        \* the address to connect to
    method,     \* of the request under way: CONNECT or POST
    sock, ssl,  \* socket_: its descriptor is valid, its SSL is there
    inFlight,   \* socket_requests_in_flight_
    created, closed,            \* history: descriptors
    answer, out, in, peer, drip,    \* the answer, how much is sent and read of it
    status, fields,             \* the Response
    accepted,   \* history: the body is for the caller ...
    delivered,  \* ... who has got so many pieces of it
    error, ret, result

conn     == <<answer, out, in, peer, drip>>
fds      == <<sock, ssl, inFlight, created, closed>>
response == <<status, fields, accepted, delivered>>
outcome  == <<error, ret, result>>
vars     == <<call, hosts, pc, attempt, try, method, fds, conn, response, outcome>>

NoAnswer == [parts |-> <<>>, length |-> 0]

ControlOK ==
    /\ call \in Calls /\ hosts \in Hosts
    /\ pc \in {"new", "connect", "tls", "head", "data", "peek", "line", "fields", "handler",
               "content", "trailers", "handled", "leave", "done", "killed"}
    /\ attempt \in 1..2 /\ try \in Nat \ {0} /\ method \in {"CONNECT", "POST"}

SocketOK ==
    /\ sock \in BOOLEAN /\ ssl \in BOOLEAN /\ inFlight \in {0, 1}
    /\ created \in Nat /\ closed \in Nat

ConnOK ==
    /\ answer \in Answers \cup Tunnels \cup {NoAnswer}
    /\ out \in Nat /\ in \in 0..out
    /\ peer \in {"open", "closed", "dropped"} /\ drip \in BOOLEAN

ResponseOK ==
    /\ status \in Status \cup {"none"} /\ fields \subseteq (Header \cup {"trailer"})
    /\ accepted \in BOOLEAN /\ delivered \in Nat

OutcomeOK ==
    /\ error \in {"Success", "Unknown", "Connection", "ConnectionTimeout", "ProxyConnection", "Read",
                  "Write", "Canceled", "SSLConnection", "SSLServerVerification",
                  "SSLServerHostnameVerification", "SSLPeerCouldBeClosed_"}
    /\ ret \in BOOLEAN /\ result \in {"none", "answer", "refusal", "nothing", "exception"}

TypeOK == ControlOK /\ SocketOK /\ ConnOK /\ ResponseOK /\ OutcomeOK

Init ==
    /\ call \in Calls /\ hosts \in Hosts
    /\ pc = "new" /\ attempt = 1 /\ try = 1 /\ method = "POST"
    /\ sock = FALSE /\ ssl = FALSE /\ inFlight = 0 /\ created = 0 /\ closed = 0
    /\ answer = NoAnswer /\ out = 0 /\ in = 0 /\ peer = "open" /\ drip = FALSE
    /\ status = "none" /\ fields = {} /\ accepted = FALSE /\ delivered = 0
    /\ error = "Success" /\ ret = FALSE /\ result = "none"

is_ssl == call.scheme = "https"

Chunked == "chunked" \in fields
Bounded == Chunked \/ "length" \in fields

\* A body with a Content-Encoding cannot be read: this build has no zlib and no brotli.
Encoded == "gzip" \in fields

\* The length line of a chunk has been read, and the chunk has not.
InChunk == in \in DOMAIN answer.parts /\ answer.parts[in] = "size"

-----------------------------------------------------------------------------
(* Construction, connecting, closing. *)

\* The scheme decides which client it is; a scheme this build cannot speak throws.
\* A URL that is not scheme://host:port is taken for the name of a host.
NewClient ==
    /\ pc = "new"
    /\ IF call.scheme = "other" \/ (is_ssl /\ ~call.openssl)
       THEN pc' = "done" /\ result' = "exception"
       ELSE pc' = "connect" /\ UNCHANGED result
    /\ UNCHANGED <<call, hosts, attempt, try, method, fds, conn, response, error, ret>>

\* Whatever SSL_shutdown's close_notify comes to, the SSL is freed.
ssl_delete == ssl' = FALSE

shutdown_ssl == ssl_delete

\* shutdown_ssl, shutdown_socket and close_socket, which do nothing to a socket that
\* is closed; ClientImpl's destructor does it once more.
Close ==
    /\ shutdown_ssl
    /\ sock' = FALSE
    /\ closed' = closed + (IF sock THEN 1 ELSE 0)
    /\ UNCHANGED created

\* send is over.
Return(what) ==
    /\ pc' = "done" /\ result' = what
    /\ inFlight' = 0

Connect(to) ==
    /\ pc = "connect" /\ try \in DOMAIN hosts /\ hosts[try] = to
    /\ created' = created + 1

\* The address refuses, or the descriptor is beyond FD_SETSIZE: the next one is tried.
AddressRefuses ==
    /\ Connect("refuses")
    /\ closed' = closed + 1
    /\ try' = try + 1
    /\ error' = "Connection"
    /\ UNCHANGED <<call, hosts, pc, attempt, method, sock, ssl, inFlight, conn, response, ret, result>>

\* 30 s without an answer: quit, the other addresses are not tried.
AddressIsSilent ==
    /\ Connect("silent")
    /\ closed' = closed + 1
    /\ error' = "ConnectionTimeout"
    /\ Return("nothing")
    /\ UNCHANGED <<call, hosts, attempt, try, method, sock, ssl, conn, response, ret>>

\* A fresh connection, on which the server sends a.
Fresh(a) == answer' = a /\ out' = 0 /\ in' = 0 /\ peer' = "open" /\ drip' = FALSE

AddressAnswers ==
    /\ Connect("answers")
    /\ sock' = TRUE
    /\ error' = "Success"
    /\ IF is_ssl /\ call.proxied
       THEN pc' = "head" /\ method' = "CONNECT" /\ \E a \in Tunnels : Fresh(a)
       ELSE /\ pc' = IF is_ssl THEN "tls" ELSE "head"
            /\ method' = "POST"
            /\ \E a \in Answers : Fresh(a)
    /\ inFlight' = IF is_ssl THEN 0 ELSE 1
    /\ UNCHANGED <<call, hosts, attempt, try, ssl, closed, response, ret, result>>

\* The name has no address, or none is left.
NoAddress ==
    /\ pc = "connect" /\ try \notin DOMAIN hosts
    /\ error' = "Connection"
    /\ Return("nothing")
    /\ UNCHANGED <<call, hosts, attempt, try, method, sock, ssl, created, closed, conn, response, ret>>

\* initialize_ssl.
Handshake ==
    /\ pc = "tls" /\ peer = "open"
    /\ ssl' = TRUE /\ inFlight' = 1
    /\ pc' = "head"
    /\ UNCHANGED <<call, hosts, attempt, try, method, sock, created, closed, conn, response, outcome>>

\* The certificate is not trusted or not the host's, 30 s have passed, or SSL_new
\* had no memory, which leaves error as it was.
HandshakeErrors ==
    {"SSLConnection", "SSLServerVerification", "SSLServerHostnameVerification", error}

\* Mutant: the socket is left to the caller.
HandshakeFailsOpen ==
    /\ pc = "tls"
    /\ error' \in HandshakeErrors
    /\ Return("nothing")
    /\ UNCHANGED <<call, hosts, attempt, try, method, sock, ssl, created, closed, conn, response, ret>>

HandshakeFails ==
    /\ pc = "tls"
    /\ error' \in HandshakeErrors
    /\ Close
    /\ Return("nothing")
    /\ UNCHANGED <<call, hosts, attempt, try, method, conn, response, ret>>

-----------------------------------------------------------------------------
(* The server, for as long as it likes. *)

Served == UNCHANGED <<call, hosts, pc, attempt, try, method, fds, response, outcome>>

ServerSends ==
    /\ sock /\ peer = "open" /\ pc # "tls"
    /\ out < Len(answer.parts)
    /\ out' = out + 1
    /\ UNCHANGED <<answer, in, peer, drip>>
    /\ Served

\* One more "100 Continue", header, chunk or piece, before the next part.
ServerDrips ==
    /\ sock /\ peer = "open"
    /\ in = out /\ ~drip
    /\ \/ pc = "line" /\ method = "POST"
       \/ pc = "fields"
       \/ pc = "content" /\ (Chunked \/ "length" \notin fields) /\ ~InChunk
    /\ drip' = TRUE
    /\ UNCHANGED <<answer, out, in, peer>>
    /\ Served

ServerCloses ==
    /\ sock /\ peer = "open"
    /\ peer' = "closed"
    /\ UNCHANGED <<answer, out, in, drip>>
    /\ Served

\* A reset, or an end without TLS's close_notify.
ServerDrops ==
    /\ sock /\ peer = "open"
    /\ peer' = "dropped"
    /\ UNCHANGED <<answer, out, in, drip>>
    /\ Served

Server == ServerSends \/ ServerDrips \/ ServerCloses \/ ServerDrops

-----------------------------------------------------------------------------
(* process_request: what is written. *)

Goto(label) == pc' = label /\ UNCHANGED outcome
Failed(e)   == pc' = "leave" /\ error' = e /\ UNCHANGED <<ret, result>>

\* process_request came to its end.
Succeeded == pc' = "handled" /\ ret' = TRUE /\ UNCHANGED <<error, result>>

\* is_writable: a connection the peer has ended is alive as long as there is something
\* to read, be it TLS's close_notify.
Writable == peer = "open" \/ in < out \/ (ssl /\ peer = "closed")

\* Request line and headers, then the body of a POST.
Write ==
    /\ pc \in {"head", "data"}
    /\ Writable
    /\ Goto(IF pc = "head" /\ method = "POST" THEN "data"
            ELSE IF is_ssl /\ ~call.proxied THEN "peek" ELSE "line")
    /\ UNCHANGED <<call, hosts, attempt, try, method, fds, conn, response>>

\* The peer is gone, or takes nothing for 5 s.
WriteFails ==
    /\ pc \in {"head", "data"}
    /\ Failed("Write")
    /\ UNCHANGED <<call, hosts, attempt, try, method, fds, conn, response>>

\* The peer drops the connection between is_writable and send: SIGPIPE, which only
\* httplib's server ignores.
Killed ==
    /\ pc \in {"head", "data"} /\ peer = "dropped"
    /\ pc' = "killed"
    /\ UNCHANGED <<call, hosts, attempt, try, method, fds, conn, response, outcome>>

\* is_ssl_peer_could_be_closed waits for a byte of the answer: close_notify came
\* instead of one.
PeerClosed == in = out /\ peer = "closed" /\ ~drip

Peek ==
    /\ pc = "peek"
    /\ IF PeerClosed THEN Failed("SSLPeerCouldBeClosed_") ELSE Goto("line")
    /\ UNCHANGED <<call, hosts, attempt, try, method, fds, conn, response>>

-----------------------------------------------------------------------------
(* process_request: what is read. *)

\* The next part, of those in parts, is read.
Read(parts) ==
    /\ ~drip /\ in < out /\ answer.parts[in + 1] \in parts
    /\ in' = in + 1
    /\ UNCHANGED <<answer, out, peer, drip>>

\* Mutant: a peer that sends nothing is waited for.
NothingToReadYet == ~drip /\ (in = out \/ peer = "dropped") /\ peer # "open"

\* Nothing comes within 60 s, or nothing will: read returns 0 or -1.
NothingToRead == ~drip /\ (in = out \/ peer = "dropped")

Reading == UNCHANGED <<call, hosts, attempt, try, method, fds>>

\* A keep-alive line or piece is read, and is none of the parts.
ReadDrip ==
    /\ pc \in {"line", "fields", "content"} /\ drip
    /\ drip' = FALSE
    /\ UNCHANGED <<pc, answer, out, in, peer, response, outcome>> /\ Reading

\* read_response_line: "100 Continue" is skipped, and what is no status line ends
\* the reading, unless the request is a CONNECT.
ReadStatus ==
    /\ pc = "line"
    /\ \/ Read({"continue"}) /\ Goto("line") /\ UNCHANGED status
       \/ \E s \in Status : Read({s}) /\ Goto("fields") /\ status' = s
       \/ /\ Read(Part \ (Status \cup {"continue"}))
          /\ IF method = "CONNECT" THEN Goto("fields") ELSE Failed("Read")
          /\ UNCHANGED status
    /\ UNCHANGED <<fields, accepted, delivered>> /\ Reading

\* read_headers.
ReadField ==
    /\ pc = "fields"
    /\ \/ \E h \in Header : Read({h}) /\ Goto("fields") /\ fields' = fields \cup {h}
       \/ Read({"blank"}) /\ Goto("handler") /\ UNCHANGED fields
       \/ Read(Part \ (Header \cup {"blank"})) /\ Failed("Read") /\ UNCHANGED fields
    /\ UNCHANGED <<status, accepted, delivered>> /\ Reading

HeadEnds ==
    /\ pc \in {"line", "fields"} /\ NothingToRead
    /\ Failed("Read")
    /\ UNCHANGED <<conn, response>> /\ Reading

\* Without a receiver the body is reserved as long as the head says it is.
Reserves == ~call.stream /\ "length" \in fields /\ status # "nothing" /\ method # "CONNECT"

\* The response_handler of a stream refuses every status but 200.  A length beyond
\* max_size is refused.
Handle ==
    /\ pc = "handler"
    /\ \/ IF status = "nothing" \/ method = "CONNECT" THEN Succeeded /\ UNCHANGED accepted
          ELSE IF call.stream /\ status # "ok" THEN Failed("Canceled") /\ UNCHANGED accepted
          ELSE IF Encoded THEN Failed("Read") /\ UNCHANGED accepted
          ELSE Goto("content") /\ accepted' = TRUE
       \/ Reserves /\ Failed("Read") /\ UNCHANGED accepted
    /\ UNCHANGED <<conn, status, fields, delivered>> /\ Reading

\* read_content_chunked.
ReadChunked ==
    /\ Chunked
    /\ \/ /\ InChunk /\ Read({"piece"})
          /\ Goto("content") /\ delivered' = delivered + 1
       \/ /\ ~InChunk /\ Read({"size"})
          /\ Goto("content") /\ UNCHANGED delivered
       \/ /\ ~InChunk /\ Read({"last"})
          /\ Goto("trailers") /\ UNCHANGED delivered
       \/ /\ Read(IF InChunk THEN Part \ {"piece"} ELSE Part \ {"size", "last"})
          /\ Failed("Read") /\ UNCHANGED delivered

\* read_content_with_length, which leaves what is beyond the length unread.
ReadLength ==
    /\ ~Chunked /\ "length" \in fields
    /\ IF delivered < answer.length
       THEN Read(Part) /\ Goto("content") /\ delivered' = delivered + 1
       ELSE Succeeded /\ UNCHANGED <<conn, delivered>>

\* read_content_without_length.
ReadToTheEnd == ~Bounded /\ Read(Part) /\ Goto("content") /\ delivered' = delivered + 1

\* Each piece goes to the receiver of the stream, or to the body of the response.
ReadContent ==
    /\ pc = "content"
    /\ ReadChunked \/ ReadLength \/ ReadToTheEnd
    /\ UNCHANGED <<status, fields, accepted>> /\ Reading

\* Mutant: an end is an end.
ContentEndsWell ==
    /\ pc = "content" /\ NothingToRead
    /\ Succeeded
    /\ UNCHANGED <<conn, response>> /\ Reading

\* No more comes: an error, if the head says where the end is, or else the end.
ContentEnds ==
    /\ pc = "content" /\ NothingToRead
    /\ "length" \in fields /\ ~Chunked => delivered < answer.length
    /\ IF Bounded THEN Failed("Read") ELSE Succeeded
    /\ UNCHANGED <<conn, response>> /\ Reading

\* What follows the last chunk: nothing, an empty line, or trailers and an empty line.
ReadTrailers ==
    /\ pc = "trailers"
    /\ \/ Read(Part \ {"blank"}) /\ fields' = fields \cup {"trailer"} /\ Goto("trailers")
       \/ Read({"blank"}) /\ Succeeded /\ UNCHANGED fields
       \/ /\ NothingToRead
          /\ IF "trailer" \in fields THEN Failed("Read") ELSE Succeeded
          /\ UNCHANGED <<conn, fields>>
    /\ UNCHANGED <<status, accepted, delivered>> /\ Reading

-----------------------------------------------------------------------------
(* The end of send_ and send. *)

\* The receiver of the stream throws: the guard of send_ closes the socket.
ReceiverThrows ==
    /\ pc = "content" /\ call.stream
    /\ ~drip /\ in < out /\ answer.parts[in + 1] = "piece"
    /\ "length" \in fields /\ ~Chunked => delivered < answer.length
    /\ Close
    /\ Return("exception")
    /\ UNCHANGED <<call, hosts, attempt, try, method, conn, response, error, ret>>

\* There is no memory for the length the head tells: reserve throws.
ReserveThrows ==
    /\ pc = "handler" /\ Reserves
    /\ Close
    /\ Return("exception")
    /\ UNCHANGED <<call, hosts, attempt, try, method, conn, response, error, ret>>

\* handle_request: the server wants the connection closed.
Handled ==
    /\ pc = "handled" /\ method = "POST"
    /\ IF "close" \in fields THEN Close ELSE UNCHANGED <<sock, ssl, created, closed>>
    /\ Goto("leave")
    /\ UNCHANGED <<call, hosts, attempt, try, method, inFlight, conn, response>>

\* connect_with_proxy: the tunnel stands, and what is behind it answers ...
TunnelStands ==
    /\ pc = "handled" /\ method = "CONNECT" /\ status = "ok"
    /\ method' = "POST" /\ pc' = "tls" /\ ret' = FALSE
    /\ \E a \in Answers : Fresh(a)
    /\ status' = "none" /\ fields' = {}
    /\ UNCHANGED <<call, hosts, attempt, try, fds, accepted, delivered, error, result>>

\* ... or the refusal of the proxy is the answer to the request.
ProxyRefuses ==
    /\ pc = "handled" /\ method = "CONNECT" /\ status # "ok"
    /\ error' = "ProxyConnection"
    /\ Close
    /\ Return("refusal")
    /\ UNCHANGED <<call, hosts, attempt, try, method, conn, response, ret>>

\* Mutant: any connection that went dead is made once more.
MayRepeatAny == error \in {"SSLPeerCouldBeClosed_", "Read"} /\ attempt = 1

MayRepeat == error = "SSLPeerCouldBeClosed_" /\ attempt = 1

\* What Post and send hand out: the response, or none.
Sent == IF ret THEN "answer" ELSE "nothing"

\* Nothing is kept alive: the guard of send_ closes the socket.
Leave ==
    /\ pc = "leave" /\ ~MayRepeat
    /\ Close
    /\ Return(Sent)
    /\ error' = IF ~ret /\ error = "Success" THEN "Unknown" ELSE error
    /\ UNCHANGED <<call, hosts, attempt, try, method, conn, response, ret>>

\* The guard closes, and send calls send_ once more.
Repeat ==
    /\ pc = "leave" /\ MayRepeat
    /\ Close
    /\ inFlight' = 0
    /\ attempt' = 2 /\ pc' = "connect" /\ try' = 1
    /\ UNCHANGED <<call, hosts, method, conn, response, outcome>>

Client ==
    \/ NewClient \/ AddressRefuses \/ AddressIsSilent \/ AddressAnswers \/ NoAddress
    \/ Handshake \/ HandshakeFails
    \/ Write \/ WriteFails \/ Killed \/ Peek
    \/ ReadDrip \/ ReadStatus \/ ReadField \/ HeadEnds \/ Handle
    \/ ReadContent \/ ContentEnds \/ ReadTrailers
    \/ ReceiverThrows \/ ReserveThrows \/ Handled \/ TunnelStands \/ ProxyRefuses \/ Leave \/ Repeat

Next == Client \/ Server

Spec == Init /\ [][Next]_vars

\* Every wait of the client has a timeout; what the server does is its own affair.
FairSpec == Spec /\ WF_vars(Client)

-----------------------------------------------------------------------------
(* Properties. *)

\* Whatever fails and wherever, each descriptor that is made is closed once: when the
\* call is over none is open, and no SSL outlives its socket (the assertions of
\* httplib.h:7361 and 9495).
DescriptorsAreReturned ==
    /\ created = closed + (IF sock THEN 1 ELSE 0)
    /\ ssl => sock
    /\ pc = "done" => ~sock /\ inFlight = 0

\* A request that the server may have read is sent again only if the server, asked
\* directly and over TLS, ended the connection in order and without a word; never
\* after a timeout, a reset, or half an answer.  (httplib.h:7409-7417, 7945-7951)
OnlyTheUnansweredIsRepeated ==
    [][attempt' # attempt => /\ is_ssl /\ ~call.proxied
                             /\ peer = "closed" /\ in = 0 /\ out = 0]_vars

\* A call is given up when the server stops sending, however far it has come.  (There
\* is no limit on the whole: a server that keeps dripping keeps the caller.)
\* (httplib.h:5889-5892, 3096-3124; set_read_timeout in OpenAICompatProvider.cc:112-114)
StallsAreGivenUp == <>[][~ServerDrips]_vars => <>(pc \in {"done", "killed"})

\* The pieces of a chunked body, which ends at the first "last", among the first n of parts.
Chunks(parts, n) == {i \in 1..n : parts[i] = "piece" /\ \A j \in 1..i : parts[j] # "last"}
Pieces == Cardinality(Chunks(answer.parts, Len(answer.parts)))

Phase ==
    CASE pc = "killed" \/ result \in {"nothing", "exception"} -> "failed"
      [] result = "refusal" \/ (result = "answer" /\ ~accepted) -> "bodiless"
      [] result = "answer" /\ accepted -> "whole"
      [] OTHER -> IF accepted THEN "open" ELSE "asked"

Call == INSTANCE HttpCall WITH
            strict <- call.stream,
            phase <- Phase,
            good <- accepted /\ status = "ok",
            bounded <- accepted /\ Bounded,
            size <- IF ~accepted THEN 0 ELSE IF Chunked THEN Pieces ELSE answer.length

\* The client keeps the contract that the providers build on: pieces come after an
\* accepted head and in order, and a body with a known end is whole when the call
\* succeeds.  (httplib.h:7937-8022; OpenAICompatProvider.cc:186-233)
KeepsTheContract == Call!Spec
=============================================================================
