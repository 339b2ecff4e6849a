------------------------------- MODULE RoiLink -------------------------------
(***************************************************************************)
(* The TCP link between the Jetson and the PS: the protocol of             *)
(* shared/include/roi_protocol.h, TcpRoiClient on the Jetson and           *)
(* tcp_roi_server on the PS, called as the two programs call them.         *)
(*                                                                         *)
(* A byte stream is a sequence of units; a header, a box, an image and a   *)
(* result are several units each, so that a transfer can stop anywhere.    *)
(* Each send or recv moves one unit: a call that moves several is several  *)
(* steps.  EINTR is a stutter.  TCP itself is external: it keeps order,    *)
(* blocks a sender whose peer does not read, tells a reader of a closed    *)
(* end after the last unit, and may break.                                 *)
(***************************************************************************)
EXTENDS Naturals, Sequences, FiniteSets

CONSTANTS
    MaxCalls, MaxLinks, MaxBreaks,  \* bounds: calls, connections, broken links
    ClientVersion,                  \* ADAS_ROI_VERSION of the client ...
    ServerVersions,                 \* ... and those the server may be built with
    HeaderSize, PayloadSize, ResultSize,    \* in units (payload: box and image)
    SocketBuffer,                   \* units TCP holds in one direction
    Backlog,                        \* connections waiting for accept
    Results,                        \* results classify_one may have
    NoResult, NoLink, Garbage

ASSUME LinkAssumption ==
    /\ {MaxCalls, HeaderSize, PayloadSize, ResultSize, SocketBuffer} \subseteq Nat \ {0}
    /\ MaxLinks \in Nat /\ MaxBreaks \in Nat /\ Backlog \in Nat \ {0}
    /\ NoLink \notin 1 .. MaxLinks
    /\ Results \subseteq [status : Nat, has_class : BOOLEAN, confidence_ppm : Nat]
    /\ NoResult \notin Results

Links == 1 .. MaxLinks
ppm_max == 1000000

VARIABLES
    cpc, socket_fd, sent, cbuf, \* the client: place, socket, units moved
    spc, client_fd, sbuf, request, answer,  \* the server
    server_version,             \* ADAS_ROI_VERSION of the server
    link,                       \* the connections
    breaks,
    calls, active, handed, answers, returned    \* history, see RoiExchange

clientVars == <<cpc, socket_fd, sent, cbuf>>
serverVars == <<server_version, spc, client_fd, sbuf, request, answer>>
exchangeVars == <<calls, active, handed, answers, returned>>
vars == <<clientVars, serverVars, link, breaks, exchangeVars>>

-----------------------------------------------------------------------------
(* roi_protocol.h *)

units(kind, size, body) ==
    [i \in 1 .. size |-> [kind |-> kind, part |-> i, body |-> body]]

encodeHeader(version, type, roi) ==
    units("header", HeaderSize, [version |-> version, type |-> type, roi |-> roi])
encodeResult(result) == units("result", ResultSize, result)

(* What the units decode to if they are one whole block of this kind. *)
decode(kind, size, buf) ==
    IF buf = units(kind, size, buf[1].body) THEN buf[1].body ELSE Garbage

(* Slip: the version is not compared. *)
isValidHeader_Slip_AnyVersion(version, type, header) ==
    header # Garbage /\ header.type = type
isValidHeader(version, type, header) ==
    header # Garbage /\ header.version = version /\ header.type = type

isValidResult(result) ==
    /\ result.status <= 4 /\ result.confidence_ppm <= ppm_max
    /\ (result.status = 0) => result.has_class
    /\ (result.status # 0) => ~result.has_class /\ result.confidence_ppm = 0

(* Box and image travel as one payload; both are sent and read alike. *)
requestUnits(roi) ==
    encodeHeader(ClientVersion, "request", roi) \o units("payload", PayloadSize, roi)

(* Slip: the reply carries the result of another classification. *)
responseUnits_Slip_OtherResult(roi, result) ==
    encodeHeader(server_version, "response", roi) \o encodeResult(CHOOSE r \in Results : TRUE)
responseUnits(roi, result) ==
    encodeHeader(server_version, "response", roi) \o encodeResult(result)

-----------------------------------------------------------------------------
(* The network *)

NewLink == [state |-> "none", up |-> << >>, down |-> << >>,
            client |-> FALSE, server |-> FALSE, broken |-> FALSE]

TypeOK ==
    /\ cpc \in {"idle", "send", "recvHeader", "recvResult"}
    /\ server_version \in ServerVersions
    /\ spc \in {"accept", "recvHeader", "recvPayload", "classify", "send"}
    /\ {socket_fd, client_fd} \subseteq Links \cup {NoLink}
    /\ sent \in 0 .. HeaderSize + PayloadSize
    /\ DOMAIN link = Links
    /\ \A l \in Links : /\ Len(link[l].up) <= SocketBuffer
                        /\ Len(link[l].down) <= SocketBuffer
    /\ breaks \in 0 .. MaxBreaks
    /\ handed \subseteq 1 .. calls
    /\ answers \in [1 .. MaxCalls -> Results \cup {NoResult}]
    /\ returned \in [1 .. MaxCalls -> Results \cup {NoResult}]

Init ==
    /\ cpc = "idle" /\ socket_fd = NoLink /\ sent = 0 /\ cbuf = << >>
    /\ server_version \in ServerVersions
    /\ spc = "accept" /\ client_fd = NoLink /\ sbuf = << >>
    /\ request = [roi |-> 0, payload |-> 0] /\ answer = << >>
    /\ link = [l \in Links |-> NewLink]
    /\ breaks = 0
    /\ calls = 0 /\ active = FALSE /\ handed = {}
    /\ answers = [r \in 1 .. MaxCalls |-> NoResult]
    /\ returned = [r \in 1 .. MaxCalls |-> NoResult]

(* A closed end drops what it has not read. *)
closeClient(l) == [link EXCEPT ![l].client = FALSE, ![l].down = << >>]
closeServer(l) == [link EXCEPT ![l].server = FALSE, ![l].up = << >>]

Break(l) ==
    /\ breaks < MaxBreaks
    /\ link[l].client /\ link[l].server /\ ~link[l].broken
    /\ link' = [link EXCEPT ![l].broken = TRUE, ![l].up = << >>, ![l].down = << >>]
    /\ breaks' = breaks + 1
    /\ UNCHANGED <<clientVars, serverVars, exchangeVars>>

-----------------------------------------------------------------------------
(* TcpRoiClient.  A ROI is 96x96 RGB, which is all the preprocessor makes;  *)
(* classify without a connection returns before it does anything.          *)

connectToServer ==
    /\ cpc = "idle" /\ socket_fd = NoLink
    /\ Cardinality({l \in Links : link[l].state = "backlog"}) < Backlog
    /\ \E l \in Links :
         /\ link[l].state = "none" /\ \A k \in 1 .. l - 1 : link[k].state # "none"
         /\ link' = [link EXCEPT ![l] = [NewLink EXCEPT !.state = "backlog",
                                            !.client = TRUE, !.server = TRUE]]
         /\ socket_fd' = l
    /\ UNCHANGED <<cpc, sent, cbuf, serverVars, breaks, exchangeVars>>

classify ==
    /\ cpc = "idle" /\ socket_fd # NoLink /\ calls < MaxCalls
    /\ calls' = calls + 1 /\ active' = TRUE
    /\ cpc' = "send" /\ sent' = 0
    /\ UNCHANGED <<socket_fd, cbuf, serverVars, link, breaks, handed, answers, returned>>

(* The call ends without a result and the connection is given up. *)
abandonCall ==
    /\ cpc' = "idle" /\ active' = FALSE
    /\ link' = closeClient(socket_fd)
    /\ socket_fd' = NoLink /\ cbuf' = << >>
    /\ UNCHANGED <<sent, returned>>

sendAll ==
    /\ cpc = "send" /\ ~link[socket_fd].broken
    /\ link[socket_fd].server => Len(link[socket_fd].up) < SocketBuffer
    /\ LET stream == requestUnits(calls)
       IN  /\ link' = IF link[socket_fd].server
                      THEN [link EXCEPT ![socket_fd].up = Append(@, stream[sent + 1])]
                      ELSE link
           /\ sent' = sent + 1
           /\ cpc' = IF sent' = Len(stream) THEN "recvHeader" ELSE "send"
    /\ cbuf' = << >>
    /\ UNCHANGED <<socket_fd, serverVars, breaks, exchangeVars>>

(* A whole block was read: is it what the call waits for? *)
acceptable(buf) ==
    IF cpc = "recvHeader"
    THEN LET header == decode("header", HeaderSize, buf)
         IN  isValidHeader(ClientVersion, "response", header) /\ header.roi = calls
    ELSE LET result == decode("result", ResultSize, buf)
         IN  result # Garbage /\ isValidResult(result)

receiveAll ==
    /\ cpc \in {"recvHeader", "recvResult"}
    /\ ~link[socket_fd].broken /\ link[socket_fd].down # << >>
    /\ LET buf   == Append(cbuf, Head(link[socket_fd].down))
           whole == Len(buf) = IF cpc = "recvHeader" THEN HeaderSize ELSE ResultSize
           take  == link' = [link EXCEPT ![socket_fd].down = Tail(@)]
       IN  \/ /\ ~whole /\ take
              /\ cbuf' = buf
              /\ UNCHANGED <<cpc, socket_fd, sent, active, returned>>
           \/ /\ whole /\ cpc = "recvHeader" /\ acceptable(buf) /\ take
              /\ cpc' = "recvResult" /\ cbuf' = << >>
              /\ UNCHANGED <<socket_fd, sent, active, returned>>
           \/ /\ whole /\ cpc = "recvResult" /\ acceptable(buf) /\ take
              /\ cpc' = "idle" /\ active' = FALSE /\ cbuf' = << >>
              /\ returned' = [returned EXCEPT ![calls] = buf[1].body]
              /\ UNCHANGED <<socket_fd, sent>>
           \/ whole /\ ~acceptable(buf) /\ abandonCall
    /\ UNCHANGED <<serverVars, breaks, calls, handed, answers>>

(* send or recv fails, or recv reports the end of the stream. *)
clientTransferFails ==
    /\ cpc # "idle"
    /\ link[socket_fd].broken \/ ~link[socket_fd].server
    /\ abandonCall
    /\ UNCHANGED <<serverVars, breaks, calls, handed, answers>>

(* The program ends, anywhere, and is started again; its sockets close. *)
clientRestarts ==
    /\ socket_fd # NoLink
    /\ abandonCall
    /\ UNCHANGED <<serverVars, breaks, calls, handed, answers>>

-----------------------------------------------------------------------------
(* tcp_roi_server, as the loop of ps_classifier_server.c calls it *)

serverAccept ==
    /\ spc = "accept"
    /\ \E l \in Links :
         /\ link[l].state = "backlog" /\ \A k \in 1 .. l - 1 : link[k].state # "backlog"
         /\ link' = [link EXCEPT ![l].state = "open"]
         /\ client_fd' = l
    /\ spc' = "recvHeader" /\ sbuf' = << >>
    /\ UNCHANGED <<server_version, request, answer, clientVars, breaks, exchangeVars>>

(* Slip: the connection is kept when a transfer fails. *)
serverTransferFails_Slip_Ignored == FALSE

(* Leave the inner loop: force_stop (see PsSafety) and disconnect. *)
serverDisconnect ==
    /\ spc' = "accept"
    /\ link' = closeServer(client_fd)
    /\ client_fd' = NoLink /\ sbuf' = << >> /\ answer' = << >>
    /\ UNCHANGED request

(* Slip: the box of protocol version 2 is not read. *)
payloadUnits_Slip_NoBox == PayloadSize - 1
payloadUnits == PayloadSize

serverReceive ==
    /\ spc \in {"recvHeader", "recvPayload"}
    /\ ~link[client_fd].broken /\ link[client_fd].up # << >>
    /\ LET buf  == Append(sbuf, Head(link[client_fd].up))
           take == link' = [link EXCEPT ![client_fd].up = Tail(@)]
           header == decode("header", HeaderSize, buf)
       IN  \/ /\ Len(buf) < (IF spc = "recvHeader" THEN HeaderSize ELSE payloadUnits)
              /\ sbuf' = buf /\ take
              /\ UNCHANGED <<spc, client_fd, request, answer, handed>>
           \/ /\ spc = "recvHeader" /\ Len(buf) = HeaderSize
              /\ isValidHeader(server_version, "request", header)
              /\ request' = [roi |-> header.roi, payload |-> 0]
              /\ spc' = "recvPayload" /\ sbuf' = << >> /\ take
              /\ UNCHANGED <<client_fd, answer, handed>>
           \/ /\ spc = "recvHeader" /\ Len(buf) = HeaderSize
              /\ ~isValidHeader(server_version, "request", header)
              /\ serverDisconnect
              /\ UNCHANGED handed
           \/ /\ spc = "recvPayload" /\ Len(buf) = payloadUnits
              /\ request' = [request EXCEPT !.payload = decode("payload", PayloadSize, buf)]
              /\ handed' = handed \cup {request.roi}
              /\ spc' = "classify" /\ sbuf' = << >> /\ take
              /\ UNCHANGED <<client_fd, answer>>
    /\ UNCHANGED <<server_version, clientVars, breaks, calls, active, answers, returned>>

(* classify_one and the check of send_result. *)
serverClassify ==
    /\ spc = "classify"
    /\ \E result \in Results :
         /\ answers' = [answers EXCEPT ![request.roi] = result]
         /\ IF result.confidence_ppm > ppm_max
            THEN serverDisconnect
            ELSE /\ answer' = responseUnits(request.roi, result)
                 /\ spc' = "send"
                 /\ UNCHANGED <<client_fd, sbuf, request, link>>
    /\ UNCHANGED <<server_version, clientVars, breaks, calls, active, handed, returned>>

serverSend ==
    /\ spc = "send" /\ ~link[client_fd].broken
    /\ link[client_fd].client => Len(link[client_fd].down) < SocketBuffer
    /\ link' = IF link[client_fd].client
               THEN [link EXCEPT ![client_fd].down = Append(@, Head(answer))]
               ELSE link
    /\ answer' = Tail(answer)
    /\ spc' = IF Len(answer) = 1 THEN "recvHeader" ELSE "send"
    /\ UNCHANGED <<server_version, client_fd, sbuf, request, clientVars, breaks,
                   exchangeVars>>

serverTransferFails ==
    /\ spc \in {"recvHeader", "recvPayload", "send"}
    /\ link[client_fd].broken \/ ~link[client_fd].client
    /\ serverDisconnect
    /\ UNCHANGED <<server_version, clientVars, breaks, exchangeVars>>

-----------------------------------------------------------------------------
Client == connectToServer \/ sendAll \/ receiveAll \/ clientTransferFails
Server == serverAccept \/ serverReceive \/ serverClassify \/ serverSend
              \/ serverTransferFails

Next ==
    \/ Client \/ classify \/ clientRestarts
    \/ Server
    \/ \E l \in Links : Break(l)

Spec == Init /\ [][Next]_vars

(* Both programs keep running; nothing is assumed of the network, and the   *)
(* Jetson need not call.                                                   *)
FairSpec == Spec /\ WF_vars(Client) /\ WF_vars(Server)

-----------------------------------------------------------------------------
(* Between two calls the connection holds nothing of an earlier one, in     *)
(* either direction, and the server is at the start of a request.  This is *)
(* what every error path of TcpRoiClient::classify is for: each ends the   *)
(* connection, so no later call can read the rest of a refused reply.      *)
InSync ==
    cpc = "idle" /\ socket_fd # NoLink =>
        LET l == link[socket_fd]
        IN  /\ l.up = << >> /\ l.down = << >>
            /\ client_fd = socket_fd => spc = "recvHeader" /\ sbuf = << >>

(* The PS never classifies a mixture: box and image are those of the        *)
(* request the header announced (adas_tcp_roi_server_receive_request), and *)
(* a PS built with another version of the protocol classifies nothing.     *)
(* Nor does the Jetson take one: a result that reaches the caller has a    *)
(* class exactly if it is a success, and no confidence otherwise, whatever *)
(* the server answered.                                                    *)
OnlyWhole ==
    /\ TypeOK
    /\ spc \in {"classify", "send"} =>
        request.payload = request.roi /\ server_version = ClientVersion
    /\ \A r \in 1 .. MaxCalls : returned[r] # NoResult =>
        /\ returned[r].has_class = (returned[r].status = 0)
        /\ returned[r].confidence_ppm <= (IF returned[r].has_class THEN ppm_max ELSE 0)

(* The link hands each request over at most once and whole, and returns to  *)
(* a call only the result computed for its own ROI.                        *)
Exchange == INSTANCE RoiExchange
KeepsExchange == Exchange!ExchangeSpec

(* Every call of classify returns, although it has no timeout: with both    *)
(* programs running, whatever breaks, is refused or waits in the backlog.   *)
CallReturns == cpc # "idle" ~> cpc = "idle"
=============================================================================
