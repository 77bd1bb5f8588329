-------------------------- MODULE HttpClientProofs --------------------------
(***************************************************************************)
(* That the client gives back every descriptor it makes, repeats no        *)
(* request but one that the server left unanswered on purpose, and keeps   *)
(* the contract of HttpCall, whatever servers, proxies and addresses do.   *)
(*                                                                         *)
(* The contract rests on where in an answer the client is: nothing of the  *)
(* body is in the head (Heading), what was delivered are the pieces read   *)
(* so far (Getting), and a call that is not over has no result (Standing). *)
(* Then what HttpCall says of phase, size and pieces can be read off.      *)
(***************************************************************************)
EXTENDS HttpClient, FiniteSetTheorems, TLAPS

-----------------------------------------------------------------------------
(* Types. *)

\* Closing a socket keeps what is said of sockets.
LEMMA CloseOK ==
    ASSUME SocketOK, Close
    PROVE  sock' \in BOOLEAN /\ ssl' \in BOOLEAN /\ created' \in Nat /\ closed' \in Nat
<1>1. sock' \in BOOLEAN /\ ssl' \in BOOLEAN
  BY DEF Close, shutdown_ssl, ssl_delete
<1>2. created' \in Nat
  BY DEF Close, shutdown_ssl, ssl_delete, SocketOK
<1>3. closed \in Nat /\ closed' = closed + (IF sock THEN 1 ELSE 0)
  BY DEF Close, shutdown_ssl, ssl_delete, SocketOK
<1>4. closed' \in Nat
  BY <1>3
<1> QED
  BY <1>1, <1>2, <1>4

\* A new connection is one.
LEMMA FreshOK ==
    ASSUME NEW a \in Answers \cup Tunnels, Fresh(a)
    PROVE  ConnOK'
<1>1. answer' \in Answers \cup Tunnels \cup {NoAnswer}
  BY DEF Fresh
<1>2. out' \in Nat /\ in' \in 0..out'
  BY DEF Fresh
<1>3. peer' \in {"open", "closed", "dropped"} /\ drip' \in BOOLEAN
  BY DEF Fresh
<1> QED
  BY <1>1, <1>2, <1>3 DEF ConnOK

\* One step of the call: where it is,
LEMMA NextControlOK == ControlOK /\ [Next]_vars => ControlOK'
<1> SUFFICES ASSUME ControlOK, [Next]_vars PROVE ControlOK'
  OBVIOUS
<1> USE DEF ControlOK, conn, fds, response, outcome
<1>1. CASE NewClient \/ AddressRefuses \/ AddressIsSilent \/ AddressAnswers \/ NoAddress
  BY <1>1 DEF NewClient, AddressRefuses, AddressIsSilent, AddressAnswers, NoAddress, Connect, Return, Fresh
<1>2. CASE Handshake \/ HandshakeFails
  BY <1>2 DEF Handshake, HandshakeFails, HandshakeErrors, Close, Return
<1>3. CASE ServerSends \/ ServerDrips \/ ServerCloses \/ ServerDrops
  BY <1>3 DEF ServerSends, ServerDrips, ServerCloses, ServerDrops, Served
<1>4. CASE Write \/ WriteFails \/ Killed \/ Peek
  BY <1>4 DEF Write, WriteFails, Killed, Peek, Goto, Failed, PeerClosed
<1>5. CASE ReadDrip \/ ReadStatus \/ ReadField \/ HeadEnds \/ Handle
  BY <1>5 DEF ReadDrip, ReadStatus, ReadField, HeadEnds, Handle, Reading, Read, Goto, Failed, Succeeded
<1>6. CASE ReadContent
  BY <1>6 DEF ReadContent, ReadChunked, ReadLength, ReadToTheEnd, Reading, Read, Goto, Failed, Succeeded
<1>7. CASE ContentEnds \/ ReadTrailers
  BY <1>7 DEF ContentEnds, ReadTrailers, Reading, Read, Goto, Failed, Succeeded
<1>8. CASE ReceiverThrows \/ ReserveThrows \/ Handled \/ ProxyRefuses \/ Leave \/ Repeat
  BY <1>8 DEF ReceiverThrows, ReserveThrows, Handled, ProxyRefuses, Leave, Sent, Repeat, Close, Return, Goto, MayRepeat
<1>9. CASE TunnelStands
  BY <1>9 DEF TunnelStands, Fresh
<1>10. CASE UNCHANGED vars
  BY <1>10 DEF vars
<1> QED
  BY <1>1, <1>2, <1>3, <1>4, <1>5, <1>6, <1>7, <1>8, <1>9, <1>10 DEF Next, Client, Server

\* what its sockets are,
LEMMA NextSocketOK == SocketOK /\ [Next]_vars => SocketOK'
<1> SUFFICES ASSUME SocketOK, [Next]_vars PROVE SocketOK'
  OBVIOUS
<1> USE DEF SocketOK, fds
<1>1. CASE NewClient
  BY <1>1 DEF NewClient, Connect, Return, Fresh
<1>2. CASE AddressRefuses
  BY <1>2 DEF AddressRefuses, Connect, Return, Fresh
<1>3. CASE AddressIsSilent
  BY <1>3 DEF AddressIsSilent, Connect, Return, Fresh
<1>4. CASE AddressAnswers
  BY <1>4 DEF AddressAnswers, Connect, Return, Fresh
<1>5. CASE NoAddress
  BY <1>5 DEF NoAddress, Connect, Return, Fresh
<1>6. CASE Handshake
  BY <1>6 DEF Handshake, Close, Return
<1>7. CASE HandshakeFails
  BY <1>7, CloseOK DEF HandshakeFails, Return
<1>8. CASE ServerSends \/ ServerDrips \/ ServerCloses \/ ServerDrops
  BY <1>8 DEF ServerSends, ServerDrips, ServerCloses, ServerDrops, Served
<1>9. CASE Write \/ WriteFails \/ Killed \/ Peek
  BY <1>9 DEF Write, WriteFails, Killed, Peek, Goto, Failed, PeerClosed
<1>10. CASE ReadDrip \/ ReadStatus \/ ReadField \/ HeadEnds \/ Handle
  BY <1>10 DEF ReadDrip, ReadStatus, ReadField, HeadEnds, Handle, Reading, Read, Goto, Failed, Succeeded
<1>11. CASE ReadContent
  BY <1>11 DEF ReadContent, ReadChunked, ReadLength, ReadToTheEnd, Reading, Read, Goto, Failed, Succeeded
<1>12. CASE ContentEnds \/ ReadTrailers
  BY <1>12 DEF ContentEnds, ReadTrailers, Reading, Read, Goto, Failed, Succeeded
<1>13. CASE ReceiverThrows \/ ReserveThrows
  BY <1>13, CloseOK DEF ReceiverThrows, ReserveThrows, Return
<1>14. CASE Handled
  BY <1>14, CloseOK DEF Handled, Goto
<1>15. CASE ProxyRefuses
  BY <1>15, CloseOK DEF ProxyRefuses, Return
<1>16. CASE Leave
  BY <1>16, CloseOK DEF Leave, Return, Sent
<1>17. CASE Repeat
  BY <1>17, CloseOK DEF Repeat
<1>18. CASE TunnelStands
  BY <1>18 DEF TunnelStands, Fresh
<1>19. CASE UNCHANGED vars
  BY <1>19 DEF vars
<1> QED
  BY <1>1, <1>2, <1>3, <1>4, <1>5, <1>6, <1>7, <1>8, <1>9, <1>10, <1>11, <1>12, <1>13, <1>14, <1>15, <1>16, <1>17, <1>18, <1>19 DEF Next, Client, Server

\* what its connection is,
LEMMA NextConnOK == ConnOK /\ [Next]_vars => ConnOK'
<1> SUFFICES ASSUME ConnOK, [Next]_vars PROVE ConnOK'
  OBVIOUS
<1> USE DEF ConnOK, conn
<1>1. CASE NewClient
  BY <1>1 DEF NewClient, Connect, Return, Fresh
<1>2. CASE AddressRefuses
  BY <1>2 DEF AddressRefuses, Connect, Return, Fresh
<1>3. CASE AddressIsSilent
  BY <1>3 DEF AddressIsSilent, Connect, Return, Fresh
<1>4. CASE AddressAnswers
  <2>1. PICK a \in Answers \cup Tunnels : Fresh(a)
    BY <1>4 DEF AddressAnswers
  <2> QED
    BY <2>1, FreshOK
<1>5. CASE NoAddress
  BY <1>5 DEF NoAddress, Connect, Return, Fresh
<1>6. CASE Handshake \/ HandshakeFails
  BY <1>6 DEF Handshake, HandshakeFails, HandshakeErrors, Close, Return
<1>7. CASE ServerSends
  BY <1>7 DEF ServerSends, Served
<1>8. CASE ServerDrips
  BY <1>8 DEF ServerDrips, Served
<1>9. CASE ServerCloses
  BY <1>9 DEF ServerCloses, Served
<1>10. CASE ServerDrops
  BY <1>10 DEF ServerDrops, Served
<1>11. CASE Write \/ WriteFails \/ Killed \/ Peek
  BY <1>11 DEF Write, WriteFails, Killed, Peek, Goto, Failed, PeerClosed
<1>12. CASE ReadDrip
  BY <1>12 DEF ReadDrip, Reading, Read, Goto, Failed, Succeeded
<1>13. CASE ReadStatus
  BY <1>13 DEF ReadStatus, Reading, Read, Goto, Failed, Succeeded
<1>14. CASE ReadField
  BY <1>14 DEF ReadField, Reading, Read, Goto, Failed, Succeeded
<1>15. CASE HeadEnds
  BY <1>15 DEF HeadEnds, Reading, Read, Goto, Failed, Succeeded
<1>16. CASE Handle
  BY <1>16 DEF Handle, Reading, Read, Goto, Failed, Succeeded
<1>17. CASE ReadContent
  BY <1>17 DEF ReadContent, ReadChunked, ReadLength, ReadToTheEnd, Reading, Read, Goto, Failed, Succeeded
<1>18. CASE ContentEnds \/ ReadTrailers
  BY <1>18 DEF ContentEnds, ReadTrailers, Reading, Read, Goto, Failed, Succeeded
<1>19. CASE ReceiverThrows \/ ReserveThrows \/ Handled \/ ProxyRefuses \/ Leave \/ Repeat
  BY <1>19 DEF ReceiverThrows, ReserveThrows, Handled, ProxyRefuses, Leave, Sent, Repeat, Close, Return, Goto, MayRepeat
<1>20. CASE TunnelStands
  <2>1. PICK a \in Answers \cup Tunnels : Fresh(a)
    BY <1>20 DEF TunnelStands
  <2> QED
    BY <2>1, FreshOK
<1>21. CASE UNCHANGED vars
  BY <1>21 DEF vars
<1> QED
  BY <1>1, <1>2, <1>3, <1>4, <1>5, <1>6, <1>7, <1>8, <1>9, <1>10, <1>11, <1>12, <1>13, <1>14, <1>15, <1>16, <1>17, <1>18, <1>19, <1>20, <1>21 DEF Next, Client, Server

\* what has been read of its response,
LEMMA NextResponseOK == ResponseOK /\ [Next]_vars => ResponseOK'
<1> SUFFICES ASSUME ResponseOK, [Next]_vars PROVE ResponseOK'
  OBVIOUS
<1> USE DEF ResponseOK, response, Status, Header
<1>1. CASE NewClient \/ AddressRefuses \/ AddressIsSilent \/ AddressAnswers \/ NoAddress
  BY <1>1 DEF NewClient, AddressRefuses, AddressIsSilent, AddressAnswers, NoAddress, Connect, Return, Fresh
<1>2. CASE Handshake \/ HandshakeFails
  BY <1>2 DEF Handshake, HandshakeFails, HandshakeErrors, Close, Return
<1>3. CASE ServerSends \/ ServerDrips \/ ServerCloses \/ ServerDrops
  BY <1>3 DEF ServerSends, ServerDrips, ServerCloses, ServerDrops, Served
<1>4. CASE Write \/ WriteFails \/ Killed \/ Peek
  BY <1>4 DEF Write, WriteFails, Killed, Peek, Goto, Failed, PeerClosed
<1>5. CASE ReadDrip \/ ReadStatus \/ ReadField \/ HeadEnds \/ Handle
  BY <1>5 DEF ReadDrip, ReadStatus, ReadField, HeadEnds, Handle, Reading, Read, Goto, Failed, Succeeded
<1>6. CASE ReadContent
  BY <1>6 DEF ReadContent, ReadChunked, ReadLength, ReadToTheEnd, Reading, Read, Goto, Failed, Succeeded
<1>7. CASE ContentEnds \/ ReadTrailers
  BY <1>7 DEF ContentEnds, ReadTrailers, Reading, Read, Goto, Failed, Succeeded
<1>8. CASE ReceiverThrows \/ ReserveThrows \/ Handled \/ ProxyRefuses \/ Leave \/ Repeat
  BY <1>8 DEF ReceiverThrows, ReserveThrows, Handled, ProxyRefuses, Leave, Sent, Repeat, Close, Return, Goto, MayRepeat
<1>9. CASE TunnelStands
  BY <1>9 DEF TunnelStands, Fresh
<1>10. CASE UNCHANGED vars
  BY <1>10 DEF vars
<1> QED
  BY <1>1, <1>2, <1>3, <1>4, <1>5, <1>6, <1>7, <1>8, <1>9, <1>10 DEF Next, Client, Server

\* and what it came to.
LEMMA NextOutcomeOK == OutcomeOK /\ [Next]_vars => OutcomeOK'
<1> SUFFICES ASSUME OutcomeOK, [Next]_vars PROVE OutcomeOK'
  OBVIOUS
<1> USE DEF OutcomeOK, outcome
<1>1. CASE NewClient \/ AddressRefuses \/ AddressIsSilent \/ AddressAnswers \/ NoAddress
  BY <1>1 DEF NewClient, AddressRefuses, AddressIsSilent, AddressAnswers, NoAddress, Connect, Return, Fresh
<1>2. CASE Handshake \/ HandshakeFails
  BY <1>2 DEF Handshake, HandshakeFails, HandshakeErrors, Close, Return
<1>3. CASE ServerSends \/ ServerDrips \/ ServerCloses \/ ServerDrops
  BY <1>3 DEF ServerSends, ServerDrips, ServerCloses, ServerDrops, Served
<1>4. CASE Write \/ WriteFails \/ Killed \/ Peek
  BY <1>4 DEF Write, WriteFails, Killed, Peek, Goto, Failed, PeerClosed
<1>5. CASE ReadDrip \/ ReadStatus \/ ReadField \/ HeadEnds \/ Handle
  BY <1>5 DEF ReadDrip, ReadStatus, ReadField, HeadEnds, Handle, Reading, Read, Goto, Failed, Succeeded
<1>6. CASE ReadContent
  BY <1>6 DEF ReadContent, ReadChunked, ReadLength, ReadToTheEnd, Reading, Read, Goto, Failed, Succeeded
<1>7. CASE ContentEnds \/ ReadTrailers
  BY <1>7 DEF ContentEnds, ReadTrailers, Reading, Read, Goto, Failed, Succeeded
<1>8. CASE ReceiverThrows \/ ReserveThrows \/ Handled \/ ProxyRefuses \/ Leave \/ Repeat
  BY <1>8 DEF ReceiverThrows, ReserveThrows, Handled, ProxyRefuses, Leave, Sent, Repeat, Close, Return, Goto, MayRepeat
<1>9. CASE TunnelStands
  BY <1>9 DEF TunnelStands, Fresh
<1>10. CASE UNCHANGED vars
  BY <1>10 DEF vars
<1> QED
  BY <1>1, <1>2, <1>3, <1>4, <1>5, <1>6, <1>7, <1>8, <1>9, <1>10 DEF Next, Client, Server

\* Every variable keeps its type.
THEOREM TypeCorrect == Spec => []TypeOK
<1>1. Init => TypeOK
  <2> SUFFICES ASSUME Init PROVE TypeOK
    OBVIOUS
  <2>1. ControlOK
    BY DEF Init, ControlOK
  <2>2. SocketOK
    BY DEF Init, SocketOK
  <2>3. answer \in Answers \cup Tunnels \cup {NoAnswer} /\ peer = "open" /\ drip \in BOOLEAN
    BY DEF Init
  <2>4. out \in Nat /\ in \in 0..out
    BY DEF Init
  <2>5. ResponseOK /\ OutcomeOK
    BY DEF Init, ResponseOK, OutcomeOK
  <2> QED
    BY <2>1, <2>2, <2>3, <2>4, <2>5 DEF TypeOK, ConnOK
<1>2. TypeOK /\ [Next]_vars => TypeOK'
  BY NextControlOK, NextSocketOK, NextConnOK, NextResponseOK, NextOutcomeOK DEF TypeOK
<1> QED
  BY <1>1, <1>2, PTL DEF Spec

-----------------------------------------------------------------------------
(* Descriptors. *)

\* Between connecting and leaving the socket is there, before and after it is not.
Held ==
    /\ DescriptorsAreReturned
    /\ pc \in {"new", "connect"} => ~sock
    /\ pc = "new" => inFlight = 0
    /\ pc \notin {"new", "connect", "leave", "done", "killed"} => sock

\* Closing balances the account, be the socket open or not.
LEMMA CloseBalances ==
    ASSUME SocketOK, created = closed + (IF sock THEN 1 ELSE 0), Close
    PROVE  ~sock' /\ ~ssl' /\ created' = closed' + (IF sock' THEN 1 ELSE 0)
<1>1. ~sock' /\ ~ssl'
  BY DEF Close, shutdown_ssl, ssl_delete
<1>2. created' = created /\ closed' = closed + (IF sock THEN 1 ELSE 0)
  BY DEF Close, shutdown_ssl, ssl_delete
<1>3. created' = closed' /\ closed' \in Nat
  BY <1>2, CloseOK
<1>4. \A n \in Nat : n + 0 = n
  OBVIOUS
<1>5. created' = closed' + 0
  BY <1>3, <1>4
<1> QED
  BY <1>1, <1>5

\* A step leaves no socket that nobody holds.
LEMMA NextHeld == TypeOK /\ Held /\ [Next]_vars => Held'
<1> SUFFICES ASSUME TypeOK /\ Held, [Next]_vars PROVE  Held'
  OBVIOUS
<1>a. SocketOK /\ created = closed + (IF sock THEN 1 ELSE 0)
  BY DEF TypeOK, Held, DescriptorsAreReturned
<1> USE DEF Held, DescriptorsAreReturned, fds, TypeOK, SocketOK
<1>1. CASE NewClient
  BY <1>1 DEF NewClient, Connect, Return, Fresh
<1>2. CASE AddressRefuses
  BY <1>2 DEF AddressRefuses, Connect, Return, Fresh
<1>3. CASE AddressIsSilent
  BY <1>3 DEF AddressIsSilent, Connect, Return, Fresh
<1>4. CASE AddressAnswers
  BY <1>4 DEF AddressAnswers, Connect, Return, Fresh
<1>5. CASE NoAddress
  BY <1>5 DEF NoAddress, Connect, Return, Fresh
<1>6. CASE Handshake
  BY <1>6 DEF Handshake, Close, Return
<1>7. CASE HandshakeFails
  <2>1. Close
    BY <1>7 DEF HandshakeFails
  <2>2. ~sock' /\ ~ssl' /\ created' = closed' + (IF sock' THEN 1 ELSE 0)
    BY <2>1, <1>a, CloseBalances
  <2> QED
    BY <1>7, <2>2 DEF HandshakeFails, Return
<1>8. CASE ServerSends \/ ServerDrips \/ ServerCloses \/ ServerDrops
  BY <1>8 DEF ServerSends, ServerDrips, ServerCloses, ServerDrops, Served
<1>9. CASE Write \/ WriteFails \/ Killed \/ Peek
  BY <1>9 DEF Write, WriteFails, Killed, Peek, Goto, Failed, PeerClosed
<1>10. CASE ReadDrip \/ ReadStatus \/ ReadField \/ HeadEnds \/ Handle
  BY <1>10 DEF ReadDrip, ReadStatus, ReadField, HeadEnds, Handle, Reading, Read, Goto, Failed, Succeeded
<1>11. CASE ReadContent
  BY <1>11 DEF ReadContent, ReadChunked, ReadLength, ReadToTheEnd, Reading, Read, Goto, Failed, Succeeded
<1>12. CASE ContentEnds \/ ReadTrailers
  BY <1>12 DEF ContentEnds, ReadTrailers, Reading, Read, Goto, Failed, Succeeded
<1>13. CASE ReceiverThrows \/ ReserveThrows
  <2>1. Close
    BY <1>13 DEF ReceiverThrows, ReserveThrows
  <2>2. ~sock' /\ ~ssl' /\ created' = closed' + (IF sock' THEN 1 ELSE 0)
    BY <2>1, <1>a, CloseBalances
  <2> QED
    BY <1>13, <2>2 DEF ReceiverThrows, ReserveThrows, Return
<1>14. CASE Handled
  <2>1. CASE Close
    <3>1. ~sock' /\ ~ssl' /\ created' = closed' + (IF sock' THEN 1 ELSE 0)
      BY <2>1, <1>a, CloseBalances
    <3> QED
      BY <1>14, <3>1 DEF Handled, Goto
  <2>2. CASE UNCHANGED <<sock, ssl, created, closed>>
    BY <1>14, <2>2 DEF Handled, Goto
  <2> QED
    BY <1>14, <2>1, <2>2 DEF Handled
<1>15. CASE ProxyRefuses
  <2>1. Close
    BY <1>15 DEF ProxyRefuses
  <2>2. ~sock' /\ ~ssl' /\ created' = closed' + (IF sock' THEN 1 ELSE 0)
    BY <2>1, <1>a, CloseBalances
  <2> QED
    BY <1>15, <2>2 DEF ProxyRefuses, Return
<1>16. CASE Leave
  <2>1. Close
    BY <1>16 DEF Leave
  <2>2. ~sock' /\ ~ssl' /\ created' = closed' + (IF sock' THEN 1 ELSE 0)
    BY <2>1, <1>a, CloseBalances
  <2> QED
    BY <1>16, <2>2 DEF Leave, Return
<1>17. CASE Repeat
  <2>1. Close
    BY <1>17 DEF Repeat
  <2>2. ~sock' /\ ~ssl' /\ created' = closed' + (IF sock' THEN 1 ELSE 0)
    BY <2>1, <1>a, CloseBalances
  <2> QED
    BY <1>17, <2>2 DEF Repeat
<1>18. CASE TunnelStands
  BY <1>18 DEF TunnelStands, Fresh
<1>19. CASE UNCHANGED vars
  BY <1>19 DEF vars
<1> QED
  BY <1>1, <1>2, <1>3, <1>4, <1>5, <1>6, <1>7, <1>8, <1>9, <1>10, <1>11, <1>12, <1>13, <1>14, <1>15, <1>16, <1>17, <1>18, <1>19 DEF Next, Client, Server

\* Every descriptor is closed once, whatever becomes of the call.
THEOREM DescriptorsCorrect == Spec => []DescriptorsAreReturned
<1>1. Init => Held
  BY DEF Init, Held, DescriptorsAreReturned
<1>2. Held => DescriptorsAreReturned
  BY DEF Held
<1> QED
  BY <1>1, <1>2, NextHeld, TypeCorrect, PTL DEF Spec

-----------------------------------------------------------------------------
(* Repetition. *)

\* Until the peek nothing of an answer is read, and the error that repeats is met at
\* the peek alone.
Unanswered ==
    /\ pc \in {"tls", "head", "data", "peek"} => in = 0
    /\ pc = "peek" => is_ssl /\ ~call.proxied
    /\ error = "SSLPeerCouldBeClosed_" => pc \in {"connect", "leave", "done"}
    /\ pc = "leave" /\ error = "SSLPeerCouldBeClosed_" =>
           is_ssl /\ ~call.proxied /\ peer = "closed" /\ in = 0 /\ out = 0

\* A step gives no answer that was not sent.
LEMMA NextUnanswered == Unanswered /\ [Next]_vars => Unanswered'
<1> SUFFICES ASSUME Unanswered, [Next]_vars PROVE Unanswered'
  OBVIOUS
<1> USE DEF Unanswered, is_ssl, fds, conn, response, outcome
<1>1. CASE NewClient \/ AddressRefuses \/ AddressIsSilent \/ AddressAnswers \/ NoAddress
  BY <1>1 DEF NewClient, AddressRefuses, AddressIsSilent, AddressAnswers, NoAddress, Connect, Return, Fresh
<1>2. CASE Handshake \/ HandshakeFails
  BY <1>2 DEF Handshake, HandshakeFails, HandshakeErrors, Close, Return
<1>3. CASE ServerSends \/ ServerDrips \/ ServerCloses \/ ServerDrops
  BY <1>3 DEF ServerSends, ServerDrips, ServerCloses, ServerDrops, Served
<1>4. CASE Write \/ WriteFails \/ Killed \/ Peek
  BY <1>4 DEF Write, WriteFails, Killed, Peek, Goto, Failed, PeerClosed
<1>5. CASE ReadDrip \/ ReadStatus \/ ReadField \/ HeadEnds \/ Handle
  BY <1>5 DEF ReadDrip, ReadStatus, ReadField, HeadEnds, Handle, Reading, Read, Goto, Failed, Succeeded
<1>6. CASE ReadContent
  BY <1>6 DEF ReadContent, ReadChunked, ReadLength, ReadToTheEnd, Reading, Read, Goto, Failed, Succeeded
<1>7. CASE ContentEnds \/ ReadTrailers
  BY <1>7 DEF ContentEnds, ReadTrailers, Reading, Read, Goto, Failed, Succeeded
<1>8. CASE ReceiverThrows \/ ReserveThrows \/ Handled \/ ProxyRefuses \/ Leave \/ Repeat
  BY <1>8 DEF ReceiverThrows, ReserveThrows, Handled, ProxyRefuses, Leave, Sent, Repeat, Close, Return, Goto, MayRepeat
<1>9. CASE TunnelStands
  BY <1>9 DEF TunnelStands, Fresh
<1>10. CASE UNCHANGED vars
  BY <1>10 DEF vars
<1> QED
  BY <1>1, <1>2, <1>3, <1>4, <1>5, <1>6, <1>7, <1>8, <1>9, <1>10 DEF Next, Client, Server

\* Only a request that the server left unanswered on purpose is sent again.
THEOREM RepetitionCorrect == Spec => OnlyTheUnansweredIsRepeated
<1> DEFINE A == attempt' # attempt => /\ is_ssl /\ ~call.proxied
                                     /\ peer = "closed" /\ in = 0 /\ out = 0
<1>1. Init => Unanswered
  BY DEF Init, Unanswered
<1>2. Unanswered /\ [Next]_vars => A
  <2> SUFFICES ASSUME Unanswered, [Next]_vars, attempt' # attempt
               PROVE  /\ is_ssl /\ ~call.proxied
                      /\ peer = "closed" /\ in = 0 /\ out = 0
    OBVIOUS
  <2>1. Repeat
    BY DEF Next, Client, Server, vars, NewClient, AddressRefuses, AddressIsSilent, AddressAnswers,
       NoAddress, Handshake, HandshakeFails, ServerSends, ServerDrips, ServerCloses, ServerDrops,
       Served, Write, WriteFails, Killed, Peek, ReadDrip, ReadStatus, ReadField, HeadEnds, Handle,
       ReadContent, ContentEnds, ReadTrailers, Reading, ReceiverThrows, ReserveThrows, Handled, TunnelStands,
       ProxyRefuses, Leave
  <2> QED
    BY <2>1 DEF Repeat, MayRepeat, Unanswered
<1> QED
  BY <1>1, <1>2, NextUnanswered, PTL DEF Spec, OnlyTheUnansweredIsRepeated

-----------------------------------------------------------------------------
(* The contract. *)

\* The head of an answer has neither a piece nor the end of a body, and there is no
\* response to a CONNECT that the caller gets.
Heading ==
    /\ pc \in {"tls", "head", "data", "peek"} => in = 0
    /\ method = "POST" /\ pc \in {"line", "fields", "handler"} =>
           \A j \in 1..in : answer.parts[j] \notin {"piece", "last"}
    /\ accepted => method = "POST" /\ pc \in {"content", "trailers", "handled", "leave", "done"}
    /\ pc \in {"content", "trailers"} => accepted
    /\ pc = "trailers" => Chunked

\* How the call stands: it has no result until it is done, and none that is good until the
\* answer was read; and it is repeated only before that.
Standing ==
    /\ pc # "done" => result = "none"
    /\ ret => pc \in {"handled", "leave", "done"}
    /\ error = "SSLPeerCouldBeClosed_" => pc \in {"connect", "leave", "done"}
    /\ pc = "leave" /\ error = "SSLPeerCouldBeClosed_" => ~accepted /\ ~ret

\* Not before the end of the body.
Unended(parts, n) == \A j \in 1..n : parts[j] # "last"

\* How much of the answer there is, and how much of its body the caller has got.
Getting ==
    /\ out <= Len(answer.parts)
    /\ ~accepted => delivered = 0
    /\ accepted /\ Chunked =>
           /\ pc = "content" => /\ delivered = Cardinality(Chunks(answer.parts, in))
                                /\ Unended(answer.parts, in)
           /\ pc = "trailers" \/ ret => delivered = Pieces
    /\ accepted /\ ~Chunked /\ "length" \in fields =>
           /\ delivered <= answer.length
           /\ ret => delivered = answer.length

Contracted == Heading /\ Standing /\ Getting

\* A line of the head is none of the body.
LEMMA HeadGrows ==
    ASSUME TypeOK, \A j \in 1..in : answer.parts[j] \notin {"piece", "last"},
           NEW parts, Read(parts), "piece" \notin parts, "last" \notin parts
    PROVE  \A j \in 1..in' : answer'.parts[j] \notin {"piece", "last"}
<1>1. in \in Nat /\ in' = in + 1 /\ answer' = answer /\ answer.parts[in + 1] \in parts
  BY DEF TypeOK, ConnOK, Read
<1>2. \A j \in 1..in' : j \in 1..in \/ j = in + 1
  BY <1>1
<1> QED
  BY <1>1, <1>2

\* A step reads nothing of a body before the caller has accepted the head.
LEMMA NextHeading == TypeOK /\ Heading /\ Standing /\ [Next]_vars => Heading'
<1> SUFFICES ASSUME TypeOK, Heading, Standing, [Next]_vars PROVE Heading'
  OBVIOUS
<1> USE DEF Heading, Chunked, fds, conn, response, outcome
<1>1. CASE NewClient \/ AddressRefuses \/ AddressIsSilent \/ NoAddress
  BY <1>1 DEF NewClient, AddressRefuses, AddressIsSilent, NoAddress, Connect, Return
<1>2. CASE AddressAnswers
  BY <1>2 DEF AddressAnswers, Connect, Fresh
<1>3. CASE Handshake \/ HandshakeFails
  BY <1>3 DEF Handshake, HandshakeFails, Close, Return
<1>4. CASE ServerSends \/ ServerDrips \/ ServerCloses \/ ServerDrops
  BY <1>4 DEF ServerSends, ServerDrips, ServerCloses, ServerDrops, Served
<1>5. CASE Write \/ WriteFails \/ Killed \/ Peek
  BY <1>5 DEF Write, WriteFails, Killed, Peek, Goto, Failed
<1>6. CASE ReadDrip \/ HeadEnds
  BY <1>6 DEF ReadDrip, HeadEnds, Reading, Failed
<1>7. CASE ReadStatus
  <2>1. /\ pc = "line" /\ UNCHANGED <<accepted, method>>
        /\ pc' \in {"line", "fields", "leave"}
    BY <1>7 DEF ReadStatus, Goto, Failed, Reading
  <2>2. CASE method = "POST" /\ pc' # "leave"
    <3>1. \E parts : Read(parts) /\ "piece" \notin parts /\ "last" \notin parts
      BY <1>7, <2>2 DEF ReadStatus, Status, Failed
    <3> QED
      BY <2>1, <2>2, <3>1, HeadGrows
  <2> QED
    BY <2>1, <2>2
<1>8. CASE ReadField
  <2>1. /\ pc = "fields" /\ UNCHANGED <<accepted, method>>
        /\ pc' \in {"fields", "handler", "leave"}
    BY <1>8 DEF ReadField, Goto, Failed, Reading
  <2>2. CASE method = "POST" /\ pc' # "leave"
    <3>1. \E parts : Read(parts) /\ "piece" \notin parts /\ "last" \notin parts
      BY <1>8, <2>2 DEF ReadField, Header, Failed
    <3> QED
      BY <2>1, <2>2, <3>1, HeadGrows
  <2> QED
    BY <2>1, <2>2
<1>9. CASE Handle
  BY <1>9 DEF TypeOK, ControlOK, Handle, Reading, Goto, Failed, Succeeded
<1>10. CASE ReadContent
  BY <1>10 DEF ReadContent, ReadChunked, ReadLength, ReadToTheEnd, Reading, Goto, Failed, Succeeded
<1>11. CASE ContentEnds \/ ReadTrailers
  BY <1>11 DEF ContentEnds, ReadTrailers, Reading, Goto, Failed, Succeeded
<1>12. CASE ReceiverThrows \/ ReserveThrows \/ Handled \/ ProxyRefuses \/ Leave
  BY <1>12 DEF ReceiverThrows, ReserveThrows, Handled, ProxyRefuses, Leave, Return, Goto
<1>13. CASE Repeat
  BY <1>13 DEF Repeat, MayRepeat, Standing
<1>14. CASE TunnelStands
  BY <1>14 DEF TunnelStands, Fresh
<1>15. CASE UNCHANGED vars
  BY <1>15 DEF vars
<1> QED
  BY <1>1, <1>2, <1>3, <1>4, <1>5, <1>6, <1>7, <1>8, <1>9, <1>10, <1>11, <1>12, <1>13, <1>14,
     <1>15 DEF Next, Client, Server

\* A step gives a result only where the call ends.
LEMMA NextStanding == TypeOK /\ Heading /\ Standing /\ [Next]_vars => Standing'
<1> SUFFICES ASSUME TypeOK, Heading, Standing, [Next]_vars PROVE Standing'
  OBVIOUS
<1> USE DEF Standing, fds, conn, response, outcome
<1>1. CASE NewClient \/ AddressRefuses \/ AddressIsSilent \/ NoAddress
  BY <1>1 DEF NewClient, AddressRefuses, AddressIsSilent, NoAddress, Connect, Return
<1>2. CASE AddressAnswers
  BY <1>2 DEF AddressAnswers, Connect
<1>3. CASE Handshake \/ HandshakeFails
  BY <1>3 DEF Handshake, HandshakeFails, HandshakeErrors, Return
<1>4. CASE ServerSends \/ ServerDrips \/ ServerCloses \/ ServerDrops
  BY <1>4 DEF ServerSends, ServerDrips, ServerCloses, ServerDrops, Served
<1>5. CASE Write \/ WriteFails \/ Killed \/ Peek
  BY <1>5 DEF Write, WriteFails, Killed, Peek, Goto, Failed, Heading
<1>6. CASE ReadDrip \/ HeadEnds \/ ReadStatus \/ ReadField
  <2>1. CASE ReadDrip
    BY <2>1 DEF ReadDrip, Reading
  <2>2. CASE HeadEnds
    BY <2>2 DEF HeadEnds, Failed
  <2>3. CASE ReadStatus \/ ReadField
    <3>1. /\ UNCHANGED <<accepted, ret, result>> /\ pc \in {"line", "fields"} /\ pc' # "done"
          /\ \/ error' = error
             \/ error' = "Read"
      BY <2>3 DEF ReadStatus, ReadField, Goto, Failed
    <3> QED
      BY <3>1
  <2> QED
    BY <1>6, <2>1, <2>2, <2>3
<1>7. CASE Handle
  BY <1>7 DEF Handle, Reading, Goto, Failed, Succeeded
<1>8. CASE ReadContent
  BY <1>8 DEF ReadContent, ReadChunked, ReadLength, ReadToTheEnd, Reading, Goto, Failed, Succeeded
<1>9. CASE ContentEnds \/ ReadTrailers
  BY <1>9 DEF ContentEnds, ReadTrailers, Reading, Goto, Failed, Succeeded
<1>10. CASE ReceiverThrows \/ ReserveThrows \/ Handled \/ ProxyRefuses \/ Leave
  BY <1>10 DEF ReceiverThrows, ReserveThrows, Handled, ProxyRefuses, Leave, Return, Goto
<1>11. CASE Repeat
  BY <1>11 DEF Repeat, MayRepeat
<1>12. CASE TunnelStands
  BY <1>12 DEF TunnelStands
<1>13. CASE UNCHANGED vars
  BY <1>13 DEF vars
<1> QED
  BY <1>1, <1>2, <1>3, <1>4, <1>5, <1>6, <1>7, <1>8, <1>9, <1>10, <1>11, <1>12, <1>13
     DEF Next, Client, Server

\* Among no parts there are no pieces, among finitely many there are finitely many.
LEMMA ChunksOK ==
    ASSUME NEW parts, NEW n \in Nat
    PROVE  /\ IsFiniteSet(Chunks(parts, n)) /\ Cardinality(Chunks(parts, n)) \in Nat
           /\ (\A j \in 1..n : parts[j] \notin {"piece", "last"})
                 => Cardinality(Chunks(parts, n)) = 0 /\ Unended(parts, n)
<1>1. IsFiniteSet(1..n) /\ Chunks(parts, n) \subseteq 1..n
  BY FS_Interval DEF Chunks
<1>2. IsFiniteSet(Chunks(parts, n)) /\ Cardinality(Chunks(parts, n)) \in Nat
  BY <1>1, FS_Subset, FS_CardinalityType
<1>3. ASSUME \A j \in 1..n : parts[j] \notin {"piece", "last"}
      PROVE  Cardinality(Chunks(parts, n)) = 0 /\ Unended(parts, n)
  <2>1. Chunks(parts, n) = {}
    BY <1>3 DEF Chunks
  <2> QED
    BY <1>3, <2>1, FS_EmptySet DEF Unended
<1> QED
  BY <1>2, <1>3

\* One part more is one piece more, or none, or the last; and until that there is no
\* piece that does not count.
LEMMA ChunksGrow ==
    ASSUME NEW parts, NEW n \in Nat, NEW m \in Nat, n + 1 <= m, Unended(parts, n)
    PROVE  /\ parts[n + 1] = "piece" =>
                /\ Cardinality(Chunks(parts, n + 1)) = Cardinality(Chunks(parts, n)) + 1
                /\ Cardinality(Chunks(parts, n)) < Cardinality(Chunks(parts, m))
                /\ Unended(parts, n + 1)
           /\ parts[n + 1] \notin {"piece", "last"} =>
                /\ Cardinality(Chunks(parts, n + 1)) = Cardinality(Chunks(parts, n))
                /\ Unended(parts, n + 1)
           /\ parts[n + 1] = "last" =>
                Cardinality(Chunks(parts, m)) = Cardinality(Chunks(parts, n))
<1>0. \A j \in 1..(n + 1) : j \in 1..n \/ j = n + 1
  OBVIOUS
<1>1. ASSUME parts[n + 1] = "piece"
      PROVE  /\ Cardinality(Chunks(parts, n + 1)) = Cardinality(Chunks(parts, n)) + 1
             /\ Cardinality(Chunks(parts, n)) < Cardinality(Chunks(parts, m))
             /\ Unended(parts, n + 1)
  <2>1. Unended(parts, n + 1)
    BY <1>0, <1>1 DEF Unended
  <2>2. Chunks(parts, n + 1) = Chunks(parts, n) \cup {n + 1}
    <3>1. ASSUME NEW i PROVE i \in Chunks(parts, n + 1) <=> i \in Chunks(parts, n) \cup {n + 1}
      BY <1>0, <1>1, <2>1 DEF Chunks, Unended
    <3> QED
      BY <3>1
  <2>3. n + 1 \notin Chunks(parts, n)
    BY DEF Chunks
  <2>4. Cardinality(Chunks(parts, n + 1)) = Cardinality(Chunks(parts, n)) + 1
    BY <2>2, <2>3, ChunksOK, FS_AddElement
  <2>5. Chunks(parts, n + 1) \subseteq Chunks(parts, m)
    BY DEF Chunks
  <2>6. Cardinality(Chunks(parts, n + 1)) <= Cardinality(Chunks(parts, m))
    BY <2>5, ChunksOK, FS_Subset
  <2>7. Cardinality(Chunks(parts, n)) \in Nat /\ Cardinality(Chunks(parts, m)) \in Nat
    BY ChunksOK
  <2> QED
    BY <2>1, <2>4, <2>6, <2>7
<1>2. ASSUME parts[n + 1] \notin {"piece", "last"}
      PROVE  /\ Cardinality(Chunks(parts, n + 1)) = Cardinality(Chunks(parts, n))
             /\ Unended(parts, n + 1)
  <2>1. Chunks(parts, n + 1) = Chunks(parts, n)
    <3>1. ASSUME NEW i PROVE i \in Chunks(parts, n + 1) <=> i \in Chunks(parts, n)
      BY <1>0, <1>2 DEF Chunks
    <3> QED
      BY <3>1
  <2> QED
    BY <1>0, <1>2, <2>1 DEF Unended
<1>3. ASSUME parts[n + 1] = "last"
      PROVE  Cardinality(Chunks(parts, m)) = Cardinality(Chunks(parts, n))
  <2>1. ASSUME NEW i PROVE i \in Chunks(parts, m) <=> i \in Chunks(parts, n)
    <3>1. i \in Chunks(parts, m) => i \in 1..m /\ ~(n + 1 \in 1..i)
      BY <1>3 DEF Chunks
    <3>2. i \in Chunks(parts, m) => i \in 1..n
      BY <3>1
    <3> QED
      BY <3>2 DEF Chunks
  <2>2. Chunks(parts, m) = Chunks(parts, n)
    BY <2>1
  <2> QED
    BY <2>2
<1> QED
  BY <1>1, <1>2, <1>3

\* A step that leaves the head and the body where they are leaves the account true, if
\* the call has not just come to an end.
LEMMA GettingKept ==
    ASSUME TypeOK, Getting, UNCHANGED <<answer, in, delivered, accepted>>,
           fields' = fields, out' \in {out, out + 1}, out' <= Len(answer.parts),
           accepted /\ pc' \in {"content", "trailers"} => pc' = pc,
           accepted => (ret' => ret)
    PROVE  Getting'
BY DEF Getting, Chunked, Pieces

\* A step after which the caller has not accepted anything.
LEMMA GettingNothing ==
    ASSUME Getting, ~accepted, UNCHANGED <<accepted, delivered, out, answer>>
    PROVE  Getting'
BY DEF Getting

\* A new connection.
LEMMA GettingFresh ==
    ASSUME Getting, ~accepted, UNCHANGED <<accepted, delivered>>,
           NEW a \in Answers \cup Tunnels, Fresh(a)
    PROVE  Getting'
<1>1. a.parts \in Seq(Part)
  BY AnswersAssumption
<1>2. out' = 0 /\ answer' = a /\ Len(a.parts) \in Nat
  BY <1>1 DEF Fresh
<1> QED
  BY <1>2 DEF Getting

\* An answer has a number of parts.
LEMMA PartsCounted == TypeOK => Len(answer.parts) \in Nat
<1> SUFFICES ASSUME TypeOK PROVE Len(answer.parts) \in Nat
  OBVIOUS
<1>1. CASE answer = NoAnswer
  BY <1>1 DEF NoAnswer
<1>2. CASE answer \in Answers \cup Tunnels
  <2>1. answer.parts \in Seq(Part)
    BY <1>2, AnswersAssumption
  <2> QED
    BY <2>1
<1> QED
  BY <1>1, <1>2 DEF TypeOK, ConnOK

\* What is read is one of the parts.
LEMMA ReadOne ==
    ASSUME TypeOK, Getting, NEW parts, Read(parts)
    PROVE  /\ in \in Nat /\ Len(answer.parts) \in Nat /\ in + 1 <= Len(answer.parts)
           /\ in' = in + 1 /\ answer.parts[in + 1] \in parts
           /\ UNCHANGED <<answer, out, peer, drip>>
BY PartsCounted DEF TypeOK, ConnOK, Read, Getting

\* The body, whatever its framing.
LEMMA GettingContent ==
    ASSUME TypeOK, Heading, Standing, Getting, ReadContent
    PROVE  Getting'
<1>1. /\ pc = "content" /\ accepted /\ ~ret /\ delivered \in Nat
      /\ UNCHANGED <<status, fields, accepted>>
  BY DEF ReadContent, Heading, Standing, TypeOK, ResponseOK
<1>2. answer.length \in Nat
  BY AnswersAssumption DEF TypeOK, ConnOK, NoAnswer
<1>3. CASE ReadChunked
  <2>1. Chunked /\ Chunked'
    BY <1>1, <1>3 DEF ReadChunked, Chunked
  <2>2. /\ delivered = Cardinality(Chunks(answer.parts, in))
        /\ Unended(answer.parts, in)
    BY <1>1, <2>1 DEF Getting
  <2>3. CASE Read({"piece"}) /\ Goto("content") /\ delivered' = delivered + 1
    <3>1. /\ delivered' = Cardinality(Chunks(answer'.parts, in'))
          /\ Unended(answer'.parts, in')
      BY <2>2, <2>3, ReadOne, ChunksGrow
    <3>2. out' <= Len(answer'.parts) /\ pc' = "content" /\ ~ret'
      BY <1>1, <2>3, ReadOne DEF Getting, Goto, outcome
    <3> QED
      BY <1>1, <2>1, <3>1, <3>2 DEF Getting
  <2>4. CASE Read({"size"}) /\ Goto("content") /\ UNCHANGED delivered
    <3>1. /\ delivered' = Cardinality(Chunks(answer'.parts, in'))
          /\ Unended(answer'.parts, in')
      BY <2>2, <2>4, ReadOne, ChunksGrow
    <3>2. out' <= Len(answer'.parts) /\ pc' = "content" /\ ~ret'
      BY <1>1, <2>4, ReadOne DEF Getting, Goto, outcome
    <3> QED
      BY <1>1, <2>1, <3>1, <3>2 DEF Getting
  <2>5. CASE Read({"last"}) /\ Goto("trailers") /\ UNCHANGED delivered
    <3>1. delivered' = Pieces'
      BY <2>2, <2>5, ReadOne, ChunksGrow DEF Pieces
    <3>2. out' <= Len(answer'.parts) /\ pc' = "trailers" /\ ~ret'
      BY <1>1, <2>5, ReadOne DEF Getting, Goto, outcome
    <3> QED
      BY <1>1, <2>1, <3>1, <3>2 DEF Getting
  <2>6. CASE \E parts : Read(parts) /\ Failed("Read")
    <3>1. out' <= Len(answer'.parts) /\ pc' = "leave" /\ ~ret'
      BY <1>1, <2>6, ReadOne DEF Getting, Failed
    <3> QED
      BY <1>1, <2>1, <3>1 DEF Getting
  <2> QED
    BY <1>3, <2>3, <2>4, <2>5, <2>6 DEF ReadChunked
<1>4. CASE ReadLength
  <2>1. ~Chunked /\ ~Chunked' /\ "length" \in fields
    BY <1>1, <1>4 DEF ReadLength, Chunked
  <2>2. delivered <= answer.length
    BY <1>1, <2>1 DEF Getting
  <2>3. CASE delivered < answer.length
    <3>1. Read(Part) /\ delivered' = delivered + 1 /\ ~ret'
      BY <1>1, <1>4, <2>3 DEF ReadLength, Goto, outcome
    <3>2. out' <= Len(answer'.parts) /\ answer' = answer
      BY <3>1, ReadOne DEF Getting
    <3>3. delivered' <= answer.length
      BY <1>1, <1>2, <2>3, <3>1
    <3> QED
      BY <1>1, <2>1, <3>1, <3>2, <3>3 DEF Getting
  <2>4. CASE ~(delivered < answer.length)
    <3>1. UNCHANGED <<conn, delivered>>
      BY <1>4, <2>4 DEF ReadLength
    <3>2. delivered = answer.length
      BY <1>1, <1>2, <2>2, <2>4
    <3> QED
      BY <1>1, <2>1, <3>1, <3>2 DEF Getting, conn
  <2> QED
    BY <2>3, <2>4
<1>5. CASE ReadToTheEnd
  <2>1. /\ ~Chunked' /\ "length" \notin fields'
        /\ out' <= Len(answer'.parts)
    BY <1>1, <1>5, ReadOne DEF ReadToTheEnd, Bounded, Chunked, Getting
  <2> QED
    BY <1>1, <2>1 DEF Getting
<1> QED
  BY <1>3, <1>4, <1>5 DEF ReadContent

\* The account stays true.
LEMMA NextGetting == TypeOK /\ Heading /\ Standing /\ Getting /\ [Next]_vars => Getting'
<1> SUFFICES ASSUME TypeOK, Heading, Standing, Getting, [Next]_vars PROVE Getting'
  OBVIOUS
<1> USE DEF fds, conn, response, outcome
<1>0. accepted => pc \in {"content", "trailers", "handled", "leave", "done"} /\ method = "POST"
  BY DEF Heading
<1>1. CASE NewClient \/ AddressRefuses \/ AddressIsSilent \/ NoAddress
  <2>1. ~accepted /\ UNCHANGED <<accepted, delivered, out, answer>>
    BY <1>0, <1>1 DEF NewClient, AddressRefuses, AddressIsSilent, NoAddress, Connect
  <2> QED
    BY <2>1, GettingNothing
<1>2. CASE AddressAnswers
  <2>1. ~accepted /\ UNCHANGED <<accepted, delivered>>
    BY <1>0, <1>2 DEF AddressAnswers, Connect
  <2>2. \E a \in Answers \cup Tunnels : Fresh(a)
    BY <1>2 DEF AddressAnswers
  <2> QED
    BY <2>1, <2>2, GettingFresh
<1>3. CASE Handshake \/ HandshakeFails \/ Write \/ WriteFails \/ Killed \/ Peek
  <2>1. ~accepted /\ UNCHANGED <<accepted, delivered, out, answer>>
    BY <1>0, <1>3 DEF Handshake, HandshakeFails, Write, WriteFails, Killed, Peek
  <2> QED
    BY <2>1, GettingNothing
<1>4. CASE ServerSends \/ ServerDrips \/ ServerCloses \/ ServerDrops
  <2>1. /\ UNCHANGED <<answer, in, delivered, accepted, fields, pc, ret>>
        /\ out' = out \/ (out < Len(answer.parts) /\ out' = out + 1)
    BY <1>4 DEF ServerSends, ServerDrips, ServerCloses, ServerDrops, Served
  <2>2. out' <= Len(answer.parts) /\ out' \in {out, out + 1}
    BY <2>1, PartsCounted DEF Getting, TypeOK, ConnOK
  <2> QED
    BY <2>1, <2>2, GettingKept
<1>5. CASE HeadEnds
  <2>1. ~accepted /\ UNCHANGED <<accepted, delivered, out, answer>>
    BY <1>0, <1>5 DEF HeadEnds
  <2> QED
    BY <2>1, GettingNothing
<1>6. CASE ReadStatus \/ ReadField
  <2>1. ~accepted /\ UNCHANGED <<accepted, delivered>>
    BY <1>0, <1>6 DEF ReadStatus, ReadField
  <2>2. \E parts : Read(parts)
    BY <1>6 DEF ReadStatus, ReadField
  <2>3. UNCHANGED <<out, answer>>
    BY <2>2, ReadOne
  <2> QED
    BY <2>1, <2>3, GettingNothing
<1>7. CASE Handle
  <2>1. /\ pc = "handler" /\ ~accepted /\ ~ret
        /\ UNCHANGED <<answer, in, out, delivered, fields>>
    BY <1>0, <1>7 DEF Handle, Standing
  <2>2. CASE UNCHANGED accepted
    BY <2>1, <2>2, GettingNothing
  <2>3. CASE accepted'
    <3>1. pc' = "content" /\ ~ret' /\ method # "CONNECT"
      BY <1>7, <2>1, <2>3 DEF Handle, Goto
    <3>2. \A j \in 1..in : answer.parts[j] \notin {"piece", "last"}
      BY <2>1, <3>1 DEF Heading, TypeOK, ControlOK
    <3>3. in \in Nat
      BY DEF TypeOK, ConnOK
    <3>4. Cardinality(Chunks(answer.parts, in)) = 0 /\ Unended(answer.parts, in)
      BY <3>2, <3>3, ChunksOK
    <3>5. answer.length \in Nat /\ delivered = 0
      BY <2>1, AnswersAssumption DEF TypeOK, ConnOK, NoAnswer, Getting
    <3> QED
      BY <2>1, <3>1, <3>4, <3>5 DEF Getting
  <2> QED
    BY <1>7, <2>2, <2>3 DEF Handle
<1>8. CASE ReadContent
  BY <1>8, GettingContent
<1>9. CASE ReadDrip \/ Leave \/ Handled
  <2>1. /\ UNCHANGED <<answer, in, out, delivered, accepted, fields, ret>>
        /\ pc' = pc \/ pc' \in {"leave", "done"}
    BY <1>9 DEF ReadDrip, Leave, Handled, Return, Goto
  <2>2. out' <= Len(answer.parts)
    BY <2>1 DEF Getting
  <2> QED
    BY <2>1, <2>2, GettingKept
<1>10. CASE ContentEnds
  <2>1. /\ pc = "content" /\ accepted /\ ~ret
        /\ UNCHANGED <<answer, in, out, delivered, accepted, fields>>
    BY <1>10 DEF ContentEnds, Heading, Standing
  <2>2. pc' \in {"leave", "handled"} /\ (Bounded => ~ret')
    BY <1>10, <2>1 DEF ContentEnds, Failed, Succeeded
  <2> QED
    BY <2>1, <2>2 DEF Getting, Bounded, Chunked
<1>11. CASE ReadTrailers
  <2>1. /\ pc = "trailers" /\ accepted /\ UNCHANGED <<delivered, accepted>>
        /\ Chunked /\ Chunked'
        /\ pc' \in {"trailers", "leave", "handled"}
    BY <1>11 DEF ReadTrailers, Heading, Goto, Failed, Succeeded, Chunked
  <2>2. UNCHANGED <<answer, out>>
    BY <1>11, ReadOne DEF ReadTrailers
  <2> QED
    BY <2>1, <2>2 DEF Getting, Pieces
<1>12. CASE ReceiverThrows \/ ReserveThrows
  <2>1. /\ pc' = "done" /\ UNCHANGED <<answer, in, out, delivered, accepted, fields, ret>>
    BY <1>12 DEF ReceiverThrows, ReserveThrows, Return
  <2>2. out' <= Len(answer.parts)
    BY <2>1 DEF Getting
  <2> QED
    BY <2>1, <2>2, GettingKept
<1>13. CASE ProxyRefuses \/ Repeat
  <2>1. ~accepted /\ UNCHANGED <<accepted, delivered, out, answer>>
    BY <1>0, <1>13 DEF ProxyRefuses, Repeat, MayRepeat, Standing
  <2> QED
    BY <2>1, GettingNothing
<1>14. CASE TunnelStands
  <2>1. ~accepted /\ UNCHANGED <<accepted, delivered>>
    BY <1>0, <1>14 DEF TunnelStands
  <2>2. \E a \in Answers : Fresh(a)
    BY <1>14 DEF TunnelStands
  <2> QED
    BY <2>1, <2>2, GettingFresh
<1>15. CASE UNCHANGED vars
  <2>1. UNCHANGED <<answer, in, out, delivered, accepted, fields, ret, pc>>
    BY <1>15 DEF vars
  <2>2. out' <= Len(answer.parts)
    BY <2>1 DEF Getting
  <2> QED
    BY <2>1, <2>2, GettingKept
<1> QED
  BY <1>1, <1>2, <1>3, <1>4, <1>5, <1>6, <1>7, <1>8, <1>9, <1>10, <1>11, <1>12, <1>13, <1>14,
     <1>15 DEF Next, Client, Server

\* The invariant of the contract.
LEMMA ContractInvariance == Spec => [](TypeOK /\ Contracted)
<1>1. Init => Contracted
  BY DEF Init, Contracted, Heading, Standing, Getting, NoAnswer
<1>2. TypeOK /\ Contracted /\ [Next]_vars => Contracted'
  BY NextHeading, NextStanding, NextGetting DEF Contracted
<1> QED
  BY <1>1, <1>2, TypeCorrect, PTL DEF Spec

-----------------------------------------------------------------------------
(* The refinement. *)

\* What HttpCall's good, bounded and size stand for.
Good == accepted /\ status = "ok"
Known == accepted /\ Bounded
Size == IF ~accepted THEN 0 ELSE IF Chunked THEN Pieces ELSE answer.length

\* A call under way is asked or open, one that is over is neither.
Phased ==
    /\ pc # "killed" /\ result = "none" => Phase = IF accepted THEN "open" ELSE "asked"
    /\ pc = "killed" /\ result = "none" => Phase = "failed"
    /\ result \in {"nothing", "exception"} => Phase = "failed"
    /\ pc # "killed" /\ result = "refusal" => Phase = "bodiless"
    /\ pc # "killed" /\ result = "answer" => Phase = IF accepted THEN "whole" ELSE "bodiless"

LEMMA Phases == Phased /\ Phased'
<1>1. Phased
  <2>1. ASSUME pc # "killed", result = "none" PROVE Phase = IF accepted THEN "open" ELSE "asked"
    BY <2>1, Zenon DEF Phase
  <2>2. ASSUME \/ pc = "killed" /\ result = "none"
               \/ result = "nothing"
               \/ result = "exception"
        PROVE  Phase = "failed"
    BY <2>2, Zenon DEF Phase
  <2>3. ASSUME pc # "killed", result = "refusal" PROVE Phase = "bodiless"
    BY <2>3, Zenon DEF Phase
  <2>4. ASSUME pc # "killed", result = "answer", accepted PROVE Phase = "whole"
    BY <2>4, Zenon DEF Phase
  <2>5. ASSUME pc # "killed", result = "answer", ~accepted PROVE Phase = "bodiless"
    BY <2>5, Zenon DEF Phase
  <2> QED
    BY <2>1, <2>2, <2>3, <2>4, <2>5 DEF Phased
<1>2. Phased'
  <2>1. ASSUME pc' # "killed", result' = "none" PROVE Phase' = IF accepted' THEN "open" ELSE "asked"
    BY <2>1, Zenon DEF Phase
  <2>2. ASSUME \/ pc' = "killed" /\ result' = "none"
               \/ result' = "nothing"
               \/ result' = "exception"
        PROVE  Phase' = "failed"
    BY <2>2, Zenon DEF Phase
  <2>3. ASSUME pc' # "killed", result' = "refusal" PROVE Phase' = "bodiless"
    BY <2>3, Zenon DEF Phase
  <2>4. ASSUME pc' # "killed", result' = "answer", accepted' PROVE Phase' = "whole"
    BY <2>4, Zenon DEF Phase
  <2>5. ASSUME pc' # "killed", result' = "answer", ~accepted' PROVE Phase' = "bodiless"
    BY <2>5, Zenon DEF Phase
  <2> QED
    BY <2>1, <2>2, <2>3, <2>4, <2>5 DEF Phased
<1> QED
  BY <1>1, <1>2

\* A step that keeps what was accepted, the answer and its framing, keeps what the caller
\* is told of them.
LEMMA BodyKept ==
    ASSUME UNCHANGED accepted, accepted => UNCHANGED <<status, answer, Chunked, Bounded>>
    PROVE  Good' = Good /\ Known' = Known /\ Size' = Size
BY DEF Good, Known, Size, Pieces

\* A step that changes only where the call stands.
LEMMA Stands ==
    ASSUME UNCHANGED <<call, delivered>>, Good' = Good, Known' = Known, Size' = Size
    PROVE  /\ Phase' = Phase => UNCHANGED Call!vars
           /\ Phase \in {"asked", "open"} /\ Phase' = "failed" => Call!Fail
           /\ Phase = "asked" /\ Phase' = "bodiless" => Call!Bodiless
           /\ Phase = "open" /\ Phase' = "whole" /\ (Known => delivered = Size) => Call!Succeed
BY DEF Good, Known, Size, Call!vars, Call!Fail, Call!Bodiless, Call!Succeed

\* The call begins asked.
LEMMA ContractInit == Init => Call!Init
<1> SUFFICES ASSUME Init PROVE Call!Init
  OBVIOUS
<1>1. call.stream \in BOOLEAN
  BY CallsAssumption DEF Init
<1>2. Phase = "asked"
  BY Phases DEF Phased, Init
<1> QED
  BY <1>1, <1>2 DEF Init, Call!Init

\* The body is delivered piece by piece.
LEMMA ContractContent ==
    ASSUME TypeOK, Contracted, ReadContent
    PROVE  [Call!Next]_Call!vars
<1>1. /\ pc = "content" /\ accepted /\ result = "none" /\ UNCHANGED call
      /\ UNCHANGED <<status, fields, accepted>>
  BY DEF ReadContent, Contracted, Heading, Standing, Reading
<1>2. UNCHANGED result /\ pc' # "killed"
  BY DEF ReadContent, ReadChunked, ReadLength, ReadToTheEnd, Goto, Failed, Succeeded, outcome
<1>3. UNCHANGED answer
  <2>1. (\E parts : Read(parts)) \/ UNCHANGED conn
    BY DEF ReadContent, ReadChunked, ReadLength, ReadToTheEnd
  <2> QED
    BY <2>1 DEF Read, conn
<1>4. Phase = "open" /\ Phase' = "open"
  BY <1>1, <1>2, Phases DEF Phased
<1>5. Good' = Good /\ Known' = Known /\ Size' = Size
  BY <1>1, <1>3, BodyKept DEF Chunked, Bounded
<1>6. CASE UNCHANGED delivered
  BY <1>1, <1>4, <1>5, <1>6, Stands
<1>7. CASE delivered' = delivered + 1 /\ (Known => delivered < Size)
  <2>1. Call!Deliver
    BY <1>1, <1>4, <1>5, <1>7 DEF Call!Deliver, Good, Known, Size
  <2> QED
    BY <2>1 DEF Call!Next
<1>8. CASE ReadChunked
  <2>1. CASE InChunk /\ Read({"piece"}) /\ delivered' = delivered + 1
    <3>1. Chunked /\ Getting
      BY <1>8 DEF ReadChunked, Contracted
    <3>2. /\ delivered = Cardinality(Chunks(answer.parts, in))
          /\ Unended(answer.parts, in)
      BY <1>1, <3>1 DEF Getting
    <3>3. delivered < Pieces
      BY <2>1, <3>1, <3>2, ReadOne, ChunksGrow DEF Pieces
    <3>4. delivered < Size
      BY <1>1, <3>1, <3>3 DEF Size
    <3> QED
      BY <1>7, <2>1, <3>4
  <2> QED
    BY <1>6, <1>8, <2>1 DEF ReadChunked
<1>9. CASE ReadLength
  <2>1. ~Chunked
    BY <1>9 DEF ReadLength
  <2>2. CASE delivered < answer.length
    <3>1. delivered' = delivered + 1
      BY <1>9, <2>2 DEF ReadLength
    <3>2. delivered < Size
      BY <1>1, <2>1, <2>2 DEF Size
    <3> QED
      BY <1>7, <3>1, <3>2
  <2>3. CASE ~(delivered < answer.length)
    BY <1>6, <1>9, <2>3 DEF ReadLength
  <2> QED
    BY <2>2, <2>3
<1>10. CASE ReadToTheEnd
  BY <1>7, <1>10 DEF ReadToTheEnd, Known
<1> QED
  BY <1>8, <1>9, <1>10 DEF ReadContent

\* The head is accepted, or is not for the caller.
LEMMA ContractHandle ==
    ASSUME TypeOK, Contracted, Handle
    PROVE  [Call!Next]_Call!vars
<1>1. /\ pc = "handler" /\ ~accepted /\ result = "none" /\ delivered \in Nat
      /\ UNCHANGED <<call, answer, status, fields, delivered, result>>
  BY DEF Handle, Contracted, Heading, Standing, Reading, conn, Goto, Failed, Succeeded, outcome,
         TypeOK, ResponseOK
<1>2. pc' # "killed"
  BY DEF Handle, Goto, Failed, Succeeded
<1>3. CASE UNCHANGED accepted
  <2>1. Good' = Good /\ Known' = Known /\ Size' = Size
    BY <1>1, <1>3, BodyKept
  <2>2. Phase' = Phase
    BY <1>1, <1>2, <1>3, Phases DEF Phased
  <2> QED
    BY <1>1, <2>1, <2>2, Stands
<1>4. CASE accepted'
  <2>1. call.stream => status = "ok"
    BY <1>1, <1>4 DEF Handle
  <2>2. Phase = "asked" /\ Phase' = "open"
    BY <1>1, <1>2, <1>4, Phases DEF Phased
  <2>3. Size' \in Nat
    <3>1. Cardinality(Chunks(answer.parts, Len(answer.parts))) \in Nat
      BY PartsCounted, ChunksOK
    <3>2. answer.length \in Nat
      BY AnswersAssumption DEF TypeOK, ConnOK, NoAnswer
    <3> QED
      BY <1>1, <1>4, <3>1, <3>2 DEF Size, Pieces, Chunked
  <2>4. Call!Accept
    BY <1>1, <1>4, <2>1, <2>2, <2>3 DEF Call!Accept, Size, Bounded, Chunked
  <2> QED
    BY <2>4 DEF Call!Next
<1> QED
  BY <1>3, <1>4 DEF Handle

\* The call ends well with a whole body or none.
LEMMA ContractLeave ==
    ASSUME TypeOK, Contracted, Leave
    PROVE  [Call!Next]_Call!vars
<1>1. /\ pc = "leave" /\ result = "none" /\ pc' = "done"
      /\ result' = IF ret THEN "answer" ELSE "nothing"
      /\ UNCHANGED <<call, answer, status, fields, accepted, delivered>>
  BY DEF Leave, Contracted, Standing, Return, Sent, conn, response
<1>2. Good' = Good /\ Known' = Known /\ Size' = Size
  BY <1>1, BodyKept DEF Chunked, Bounded
<1>3. Phase = IF accepted THEN "open" ELSE "asked"
  BY <1>1, Phases DEF Phased
<1>4. CASE ~ret
  <2>1. Phase' = "failed"
    BY <1>1, <1>4, Phases DEF Phased
  <2> QED
    BY <1>1, <1>2, <1>3, <2>1, Stands DEF Call!Next
<1>5. CASE ret
  <2>1. Phase' = IF accepted THEN "whole" ELSE "bodiless"
    BY <1>1, <1>5, Phases DEF Phased
  <2>2. Known => delivered = Size
    BY <1>5 DEF Contracted, Getting, Known, Size, Bounded
  <2> QED
    BY <1>1, <1>2, <1>3, <2>1, <2>2, Stands DEF Call!Next
<1> QED
  BY <1>4, <1>5

\* Each step of the client and of the server is one of the contract's, or none.
LEMMA ContractStep ==
    ASSUME TypeOK, Contracted, [Next]_vars
    PROVE  [Call!Next]_Call!vars
<1> USE DEF fds, conn, response, outcome
<1>0. accepted => pc \in {"content", "trailers", "handled", "leave", "done"} /\ method = "POST"
  BY DEF Contracted, Heading
<1>a. pc # "done" => result = "none"
  BY DEF Contracted, Standing
<1>1. ASSUME ~accepted, UNCHANGED <<call, accepted, delivered>>, pc \notin {"done", "killed"},
             \/ pc' # "killed" /\ UNCHANGED result
             \/ pc' = "killed" /\ UNCHANGED result
             \/ result' \in {"nothing", "exception"}
             \/ pc' # "killed" /\ result' = "refusal"
      PROVE  [Call!Next]_Call!vars
  <2>1. Good' = Good /\ Known' = Known /\ Size' = Size
    BY <1>1, BodyKept
  <2>2. Phase = "asked" /\ Phase' \in {"asked", "failed", "bodiless"}
    BY <1>1, <1>a, Phases DEF Phased
  <2> QED
    BY <1>1, <2>1, <2>2, Stands DEF Call!Next
<1>2. ASSUME UNCHANGED <<call, accepted, delivered, status, answer, result>>,
             UNCHANGED Chunked, UNCHANGED Bounded, pc # "killed", pc' # "killed"
      PROVE  [Call!Next]_Call!vars
  <2>1. Good' = Good /\ Known' = Known /\ Size' = Size
    BY <1>2, BodyKept
  <2>2. Phase' = Phase
    BY <1>2 DEF Phase
  <2> QED
    BY <1>2, <2>1, <2>2, Stands
<1>3. CASE NewClient \/ AddressRefuses \/ AddressIsSilent \/ AddressAnswers \/ NoAddress
  <2>1. /\ pc \in {"new", "connect"} /\ UNCHANGED <<call, accepted, delivered>>
        /\ pc' # "killed" /\ (UNCHANGED result \/ result' \in {"nothing", "exception"})
    BY <1>3 DEF NewClient, AddressRefuses, AddressIsSilent, AddressAnswers, NoAddress, Connect, Return
  <2> QED
    BY <1>0, <1>1, <2>1
<1>4. CASE Handshake \/ HandshakeFails \/ Write \/ WriteFails \/ Killed \/ Peek
  <2>1. /\ pc \in {"tls", "head", "data", "peek"} /\ UNCHANGED <<call, accepted, delivered>>
        /\ UNCHANGED result \/ (pc' # "killed" /\ result' \in {"nothing", "exception"})
    BY <1>4 DEF Handshake, HandshakeFails, Write, WriteFails, Killed, Peek, Goto, Failed, Return
  <2> QED
    BY <1>0, <1>1, <2>1
<1>5. CASE ServerSends \/ ServerDrips \/ ServerCloses \/ ServerDrops \/ UNCHANGED vars
  <2>1. UNCHANGED <<call, accepted, delivered, status, answer, result, fields, pc>>
    BY <1>5 DEF ServerSends, ServerDrips, ServerCloses, ServerDrops, Served, vars
  <2>2. Good' = Good /\ Known' = Known /\ Size' = Size
    BY <2>1, BodyKept DEF Chunked, Bounded
  <2>3. Phase' = Phase
    BY <2>1 DEF Phase
  <2> QED
    BY <2>1, <2>2, <2>3, Stands
<1>6. CASE ReadStatus \/ ReadField \/ HeadEnds
  <2>1. /\ pc \in {"line", "fields"} /\ UNCHANGED <<call, accepted, delivered, result>>
        /\ pc' # "killed"
    BY <1>6 DEF ReadStatus, ReadField, HeadEnds, Reading, Goto, Failed
  <2> QED
    BY <1>0, <1>1, <2>1
<1>7. CASE ReadDrip \/ Handled
  <2>1. /\ UNCHANGED <<call, accepted, delivered, status, answer, result, fields>>
        /\ pc # "killed" /\ pc' # "killed"
    BY <1>7 DEF ReadDrip, Reading, Handled, Goto
  <2> QED
    BY <1>2, <2>1 DEF Chunked, Bounded
<1>8. CASE Handle
  BY <1>8, ContractHandle
<1>9. CASE ReadContent
  BY <1>9, ContractContent
<1>10. CASE ContentEnds
  <2>1. /\ UNCHANGED <<call, accepted, delivered, status, answer, result, fields>>
        /\ pc # "killed" /\ pc' # "killed"
    BY <1>10 DEF ContentEnds, Reading, Failed, Succeeded
  <2> QED
    BY <1>2, <2>1 DEF Chunked, Bounded
<1>11. CASE ReadTrailers
  <2>1. /\ UNCHANGED <<call, accepted, delivered, status, result>>
        /\ UNCHANGED Chunked /\ UNCHANGED Bounded
        /\ pc # "killed" /\ pc' # "killed"
    BY <1>11 DEF ReadTrailers, Reading, Goto, Failed, Succeeded, Chunked, Bounded
  <2>2. UNCHANGED answer
    BY <1>11 DEF ReadTrailers, Read
  <2> QED
    BY <1>2, <2>1, <2>2
<1>12. CASE ReceiverThrows \/ ReserveThrows
  <2>1. /\ pc \in {"content", "handler"} /\ result' = "exception"
        /\ UNCHANGED <<call, accepted, delivered, status, answer, fields>>
    BY <1>12 DEF ReceiverThrows, ReserveThrows, Return
  <2>2. Good' = Good /\ Known' = Known /\ Size' = Size
    BY <2>1, BodyKept DEF Chunked, Bounded
  <2>3. Phase \in {"asked", "open"} /\ Phase' = "failed"
    BY <1>a, <2>1, Phases DEF Phased
  <2> QED
    BY <2>1, <2>2, <2>3, Stands DEF Call!Next
<1>13. CASE TunnelStands \/ ProxyRefuses \/ Repeat
  <2>1. /\ ~accepted /\ UNCHANGED <<call, accepted, delivered>> /\ pc \in {"handled", "leave"}
        /\ pc' # "killed" /\ (UNCHANGED result \/ result' = "refusal")
    BY <1>0, <1>13 DEF TunnelStands, ProxyRefuses, Repeat, MayRepeat, Return, Contracted, Standing
  <2> QED
    BY <1>1, <2>1
<1>14. CASE Leave
  BY <1>14, ContractLeave
<1> QED
  BY <1>3, <1>4, <1>5, <1>6, <1>7, <1>8, <1>9, <1>10, <1>11, <1>12, <1>13, <1>14
     DEF Next, Client, Server

\* The client keeps the contract of HttpCall: the body comes in order behind an accepted
\* head, and a call succeeds with a body that is whole.
THEOREM ContractCorrect == Spec => KeepsTheContract
<1>1. TypeOK /\ Contracted /\ [Next]_vars => [Call!Next]_Call!vars
  BY ContractStep
<1> QED
  BY <1>1, ContractInit, ContractInvariance, PTL DEF Spec, KeepsTheContract, Call!Spec

=============================================================================
