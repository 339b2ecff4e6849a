--------------------------- MODULE RoiLinkProofs ----------------------------
(***************************************************************************)
(* The ROI link, for every size of a header, a payload and a result, every *)
(* size of the socket buffers, every number of calls, connections and      *)
(* broken links, and every version of the server: between two calls both   *)
(* ends agree that nothing is under way, the PS classifies only whole      *)
(* requests, and the link implements RoiExchange.                          *)
(*                                                                         *)
(* The argument: at most one call is under way on a connection, the last   *)
(* that was begun on it (of), and every unit in a stream or in a buffer is *)
(* the unit of that call's request or response that belongs there.         *)
(***************************************************************************)
EXTENDS RoiLink, SequenceTheorems, TLAPS

RequestSize  == HeaderSize + PayloadSize
ResponseSize == HeaderSize + ResultSize

Headers == [version : {ClientVersion} \cup ServerVersions,
            type : {"request", "response"}, roi : Nat]
Units   == [kind : {"header", "payload", "result"}, part : Nat,
            body : Nat \cup Results \cup Headers]
Ends    == [state : {"none", "backlog", "open"}, up : Seq(Units), down : Seq(Units),
            client : BOOLEAN, server : BOOLEAN, broken : BOOLEAN]

LinkTypes ==
    /\ TypeOK
    /\ link \in [Links -> Ends]
    /\ calls \in 0 .. MaxCalls
    /\ cbuf \in Seq(Units) /\ sbuf \in Seq(Units) /\ answer \in Seq(Units)
    /\ request \in [roi : Nat, payload : Nat \cup Results \cup Headers \cup {Garbage}]

(* Who holds which end, and which call was the last of each connection. *)
NetInv(of) ==
    \A l \in Links :
      /\ link[l].client => l = socket_fd
      /\ l = socket_fd => link[l].client /\ link[l].state # "none"
      /\ link[l].server => link[l].state = "backlog" \/ l = client_fd
      /\ link[l].state = "backlog" => link[l].server /\ of[l] \notin handed
      /\ l = client_fd => link[l].server /\ link[l].state = "open"
      /\ link[l].state = "none" => of[l] = 0

CallInv(of) ==
    /\ \A l \in Links : of[l] <= calls
    /\ \A k, l \in Links : k # l => of[k] = 0 \/ of[k] # of[l]
    /\ \A r \in 1 .. MaxCalls : r \notin handed => answers[r] = NoResult
    /\ \A r \in 1 .. MaxCalls : returned[r] # NoResult =>
         returned[r] \in Results /\ isValidResult(returned[r])

(* Units of a request the server has taken, and of a response the client. *)
taken(l) == IF l # client_fd THEN 0
            ELSE IF spc = "recvPayload" THEN HeaderSize + Len(sbuf) ELSE Len(sbuf)
got      == IF cpc = "recvResult" THEN HeaderSize + Len(cbuf) ELSE Len(cbuf)
toSend   == IF spc = "send" THEN Len(answer) ELSE 0

(* What responseUnits makes, by a server of this version. *)
reply(version, n, result) == encodeHeader(version, "response", n) \o encodeResult(result)

(* From here to the last unit s is this part of the stream t. *)
Follows(s, t, at) == \A i \in 1 .. Len(s) : s[i] = t[at + i]

(* The request is on its way: what was sent and not yet taken is in up. *)
Pending(of, l) ==
    link[l].server /\ ~link[l].broken /\ of[l] # 0 /\ of[l] \notin handed

UpInv(of) ==
    \A l \in Links :
      /\ ~Pending(of, l) => link[l].up = << >>
      /\ Pending(of, l) =>
           /\ taken(l) + Len(link[l].up) <= RequestSize
           /\ l = socket_fd => taken(l) + Len(link[l].up) = sent
           /\ Follows(link[l].up, requestUnits(of[l]), taken(l))

(* The response is on its way. *)
Replying(of, l) ==
    /\ l = socket_fd /\ l = client_fd /\ ~link[l].broken /\ of[l] \in handed
    /\ spc # "classify" /\ cpc # "idle"

DownInv(of) ==
    \A l \in Links :
      /\ ~Replying(of, l) => link[l].down = << >>
      /\ Replying(of, l) =>
           /\ answers[of[l]] \in Results
           /\ got + Len(link[l].down) + toSend = ResponseSize
           /\ Follows(link[l].down, reply(server_version, of[l], answers[of[l]]), got)

ServerInv(of) ==
    /\ spc = "accept" => client_fd = NoLink
    /\ spc # "accept" => client_fd # NoLink
    /\ spc = "recvHeader" =>
         /\ Len(sbuf) < HeaderSize /\ Follows(sbuf, requestUnits(of[client_fd]), 0)
         /\ of[client_fd] = 0 \/ of[client_fd] \in handed => sbuf = << >>
    /\ spc = "recvPayload" =>
         /\ of[client_fd] # 0 /\ of[client_fd] \notin handed
         /\ request.roi = of[client_fd] /\ server_version = ClientVersion
         /\ Len(sbuf) < PayloadSize
         /\ Follows(sbuf, requestUnits(of[client_fd]), HeaderSize)
    /\ spc \in {"classify", "send"} =>
         /\ request.roi = of[client_fd] /\ request.payload = request.roi
         /\ of[client_fd] \in handed /\ server_version = ClientVersion /\ sbuf = << >>
    /\ spc = "classify" => answers[of[client_fd]] = NoResult
    /\ spc = "send" =>
         /\ answers[of[client_fd]] \in Results
         /\ Len(answer) \in 1 .. ResponseSize
         /\ Follows(answer, reply(server_version, of[client_fd], answers[of[client_fd]]),
                    ResponseSize - Len(answer))

ClientInv(of) ==
    /\ cpc = "idle" => active = FALSE
    /\ cpc # "idle" => active /\ socket_fd # NoLink /\ of[socket_fd] = calls /\ calls # 0
    /\ cpc = "idle" /\ socket_fd # NoLink =>
         /\ of[socket_fd] = 0 \/ of[socket_fd] \in handed
         /\ client_fd = socket_fd => spc = "recvHeader"
    /\ cpc \in {"idle", "send"} => cbuf = << >>
    /\ cpc = "send" => sent < RequestSize /\ calls \notin handed
    /\ cpc \in {"recvHeader", "recvResult"} => sent = RequestSize
    /\ cpc = "recvHeader" =>
         /\ Len(cbuf) < HeaderSize
         /\ Follows(cbuf, reply(server_version, calls, answers[calls]), 0)
    /\ cpc = "recvResult" =>
         /\ Len(cbuf) < ResultSize
         /\ Follows(cbuf, reply(server_version, calls, answers[calls]), HeaderSize)
    /\ cbuf # << >> \/ cpc = "recvResult" => answers[calls] \in Results

Tracks(of) == /\ NetInv(of) /\ CallInv(of) /\ UpInv(of) /\ DownInv(of)
              /\ ServerInv(of) /\ ClientInv(of)

LinkInv == LinkTypes /\ \E of \in [Links -> 0 .. MaxCalls] : Tracks(of)

-----------------------------------------------------------------------------
(* The constants, the units of a message, and streams *)
LEMMA LinkConstants ==
    /\ MaxCalls \in Nat /\ MaxCalls > 0 /\ HeaderSize \in Nat /\ HeaderSize > 0
    /\ PayloadSize \in Nat /\ PayloadSize > 0 /\ ResultSize \in Nat /\ ResultSize > 0
    /\ RequestSize \in Nat /\ ResponseSize \in Nat
    /\ MaxLinks \in Nat /\ NoLink \notin Links /\ SocketBuffer \in Nat /\ SocketBuffer > 0
<1>1. /\ MaxCalls \in Nat \ {0} /\ HeaderSize \in Nat \ {0}
      /\ PayloadSize \in Nat \ {0} /\ ResultSize \in Nat \ {0}
      /\ MaxLinks \in Nat /\ NoLink \notin 1 .. MaxLinks /\ SocketBuffer \in Nat \ {0}
  BY LinkAssumption
<1>2. RequestSize \in Nat /\ ResponseSize \in Nat
  BY <1>1 DEF RequestSize, ResponseSize
<1> QED BY <1>1, <1>2 DEF Links

LEMMA UnitsOf ==
    ASSUME NEW kind \in {"header", "payload", "result"}, NEW size \in Nat,
           NEW body \in Nat \cup Results \cup Headers
    PROVE  /\ units(kind, size, body) \in Seq(Units) /\ Len(units(kind, size, body)) = size
           /\ \A i \in 1 .. size :
                units(kind, size, body)[i] = [kind |-> kind, part |-> i, body |-> body]
  BY DEF units, Units

LEMMA JoinedAt ==
    ASSUME NEW s \in Seq(Units), NEW t \in Seq(Units)
    PROVE  /\ s \o t \in Seq(Units) /\ Len(s \o t) = Len(s) + Len(t)
           /\ \A i \in 1 .. Len(s) : (s \o t)[i] = s[i]
           /\ \A i \in 1 .. Len(t) : (s \o t)[Len(s) + i] = t[i]
  BY ConcatProperties

LEMMA RequestAt ==
    ASSUME NEW n \in Nat
    PROVE  /\ requestUnits(n) \in Seq(Units) /\ Len(requestUnits(n)) = RequestSize
           /\ \A i \in 1 .. RequestSize : requestUnits(n)[i] \in Units
           /\ requestUnits(n)[1].body =
                 [version |-> ClientVersion, type |-> "request", roi |-> n]
           /\ \A i \in 1 .. PayloadSize : requestUnits(n)[HeaderSize + i] =
                 [kind |-> "payload", part |-> i, body |-> n]
<1> DEFINE h == [version |-> ClientVersion, type |-> "request", roi |-> n]
           s == units("header", HeaderSize, h)
           t == units("payload", PayloadSize, n)
<1>1. h \in Nat \cup Results \cup Headers /\ n \in Nat \cup Results \cup Headers
  BY DEF Headers
<1>2. requestUnits(n) = s \o t
  BY DEF requestUnits, encodeHeader
<1> HIDE DEF h
<1>3. /\ s \in Seq(Units) /\ Len(s) = HeaderSize
      /\ \A i \in 1 .. HeaderSize : s[i] = [kind |-> "header", part |-> i, body |-> h]
  BY <1>1, UnitsOf, LinkConstants
<1>4. /\ t \in Seq(Units) /\ Len(t) = PayloadSize
      /\ \A i \in 1 .. PayloadSize : t[i] = [kind |-> "payload", part |-> i, body |-> n]
  BY <1>1, UnitsOf, LinkConstants
<1> HIDE DEF s, t
<1>5. /\ s \o t \in Seq(Units) /\ Len(s \o t) = HeaderSize + PayloadSize
      /\ \A i \in 1 .. HeaderSize : (s \o t)[i] = s[i]
      /\ \A i \in 1 .. PayloadSize : (s \o t)[HeaderSize + i] = t[i]
  BY <1>3, <1>4, JoinedAt
<1>6. \A i \in 1 .. RequestSize : (s \o t)[i] \in Units
  BY <1>5, LinkConstants DEF RequestSize
<1>7. (s \o t)[1].body = h
  BY <1>3, <1>5, LinkConstants
<1>8. \A i \in 1 .. PayloadSize : (s \o t)[HeaderSize + i] =
                 [kind |-> "payload", part |-> i, body |-> n]
  BY <1>4, <1>5
<1> QED BY <1>2, <1>5, <1>6, <1>7, <1>8 DEF RequestSize, h

LEMMA ReplyAt ==
    ASSUME NEW n \in Nat, NEW r \in Results, NEW version \in ServerVersions
    PROVE  /\ reply(version, n, r) \in Seq(Units)
           /\ Len(reply(version, n, r)) = ResponseSize
           /\ reply(version, n, r)[HeaderSize + 1].body = r
<1> DEFINE h == [version |-> version, type |-> "response", roi |-> n]
           s == units("header", HeaderSize, h)
           t == units("result", ResultSize, r)
<1>1. h \in Nat \cup Results \cup Headers /\ r \in Nat \cup Results \cup Headers
  BY DEF Headers
<1>2. reply(version, n, r) = s \o t
  BY DEF reply, encodeHeader, encodeResult
<1> HIDE DEF h
<1>3. s \in Seq(Units) /\ Len(s) = HeaderSize
  BY <1>1, UnitsOf, LinkConstants
<1>4. /\ t \in Seq(Units) /\ Len(t) = ResultSize
      /\ \A i \in 1 .. ResultSize : t[i] = [kind |-> "result", part |-> i, body |-> r]
  BY <1>1, UnitsOf, LinkConstants
<1> HIDE DEF s, t
<1>5. /\ s \o t \in Seq(Units) /\ Len(s \o t) = HeaderSize + ResultSize
      /\ \A i \in 1 .. ResultSize : (s \o t)[HeaderSize + i] = t[i]
  BY <1>3, <1>4, JoinedAt
<1>6. (s \o t)[HeaderSize + 1] = t[1] /\ t[1].body = r
  BY <1>4, <1>5, LinkConstants
<1> QED BY <1>2, <1>5, <1>6 DEF ResponseSize

LEMMA ResponseIsReply ==
    ASSUME NEW n, NEW r PROVE responseUnits(n, r) = reply(server_version, n, r)
  BY DEF responseUnits, reply

LEMMA AppendUnit ==
    ASSUME NEW s \in Seq(Units), NEW e \in Units
    PROVE  /\ Append(s, e) \in Seq(Units) /\ Append(s, e) # << >>
           /\ Len(s) \in Nat /\ Len(Append(s, e)) = Len(s) + 1
           /\ \A i \in 1 .. Len(s) : Append(s, e)[i] = s[i]
           /\ Append(s, e)[Len(s) + 1] = e
  OBVIOUS

LEMMA TailUnit ==
    ASSUME NEW s \in Seq(Units), s # << >>
    PROVE  /\ Tail(s) \in Seq(Units) /\ Head(s) \in Units /\ Head(s) = s[1]
           /\ Len(s) \in Nat /\ Len(s) > 0 /\ Len(Tail(s)) = Len(s) - 1
           /\ \A i \in 1 .. Len(s) - 1 : Tail(s)[i] = s[i + 1]
  OBVIOUS

LEMMA FollowsNothing ==
    ASSUME NEW t, NEW at PROVE Follows(<< >>, t, at)
  BY DEF Follows

LEMMA FollowsAppend ==
    ASSUME NEW s \in Seq(Units), NEW e \in Units, NEW t, NEW at \in Nat,
           Follows(s, t, at), e = t[at + Len(s) + 1]
    PROVE  Follows(Append(s, e), t, at)
<1> SUFFICES ASSUME NEW i \in 1 .. Len(s) + 1 PROVE Append(s, e)[i] = t[at + i]
  BY AppendUnit DEF Follows
<1>1. at + Len(s) + 1 = at + (Len(s) + 1) /\ Len(s) \in Nat
  OBVIOUS
<1>2. CASE i = Len(s) + 1
  BY <1>1, <1>2, AppendUnit
<1>3. CASE i # Len(s) + 1
  BY <1>1, <1>3, AppendUnit DEF Follows
<1> QED BY <1>2, <1>3

LEMMA FollowsTail ==
    ASSUME NEW s \in Seq(Units), s # << >>, NEW t, NEW at \in Nat, Follows(s, t, at)
    PROVE  Head(s) = t[at + 1] /\ Follows(Tail(s), t, at + 1)
<1>1. /\ Head(s) = s[1] /\ Len(s) \in Nat /\ Len(s) > 0 /\ Len(Tail(s)) = Len(s) - 1
      /\ \A i \in 1 .. Len(s) - 1 : Tail(s)[i] = s[i + 1]
  BY TailUnit
<1>2. Head(s) = t[at + 1]
  BY <1>1 DEF Follows
<1>3. ASSUME NEW i \in 1 .. Len(s) - 1 PROVE Tail(s)[i] = t[at + 1 + i]
  <2>1. i + 1 \in 1 .. Len(s) /\ at + (i + 1) = at + 1 + i
    BY <1>1
  <2> QED BY <1>1, <2>1 DEF Follows
<1> QED BY <1>1, <1>2, <1>3 DEF Follows

(* One end of one connection changes. *)
InBuffer(e) == Len(e.up) <= SocketBuffer /\ Len(e.down) <= SocketBuffer

LEMMA OneLink ==
    ASSUME link \in [Links -> Ends], NEW f \in Links, NEW e \in Ends,
           \A l \in Links : InBuffer(link[l]), InBuffer(e),
           link' = [link EXCEPT ![f] = e]
    PROVE  /\ link' \in [Links -> Ends] /\ DOMAIN link' = Links
           /\ \A l \in Links : InBuffer(link'[l])
           /\ link'[f] = e /\ \A k \in Links : k # f => link'[k] = link[k]
<1>1. /\ link' \in [Links -> Ends] /\ DOMAIN link' = Links
      /\ link'[f] = e /\ \A k \in Links : k # f => link'[k] = link[k]
  OBVIOUS
<1> QED BY <1>1

LEMMA EndChanges ==
    ASSUME NEW e \in Ends, InBuffer(e),
           NEW u \in Seq(Units), Len(u) <= SocketBuffer
    PROVE  /\ [e EXCEPT !.up = u] \in Ends /\ InBuffer([e EXCEPT !.up = u])
           /\ [e EXCEPT !.down = u] \in Ends /\ InBuffer([e EXCEPT !.down = u])
           /\ [e EXCEPT !.state = "open"] \in Ends /\ InBuffer([e EXCEPT !.state = "open"])
           /\ [e EXCEPT !.client = FALSE, !.down = u] \in Ends
           /\ InBuffer([e EXCEPT !.client = FALSE, !.down = u])
           /\ [e EXCEPT !.server = FALSE, !.up = u] \in Ends
           /\ InBuffer([e EXCEPT !.server = FALSE, !.up = u])
           /\ [e EXCEPT !.broken = TRUE, !.up = u, !.down = u] \in Ends
           /\ InBuffer([e EXCEPT !.broken = TRUE, !.up = u, !.down = u])
<1> USE DEF Ends, InBuffer
<1>1. [e EXCEPT !.up = u] \in Ends /\ InBuffer([e EXCEPT !.up = u])
  OBVIOUS
<1>2. [e EXCEPT !.down = u] \in Ends /\ InBuffer([e EXCEPT !.down = u])
  OBVIOUS
<1>3. [e EXCEPT !.state = "open"] \in Ends /\ InBuffer([e EXCEPT !.state = "open"])
  OBVIOUS
<1>4. /\ [e EXCEPT !.client = FALSE, !.down = u] \in Ends
      /\ InBuffer([e EXCEPT !.client = FALSE, !.down = u])
  OBVIOUS
<1>5. /\ [e EXCEPT !.server = FALSE, !.up = u] \in Ends
      /\ InBuffer([e EXCEPT !.server = FALSE, !.up = u])
  OBVIOUS
<1>6. /\ [e EXCEPT !.broken = TRUE, !.up = u, !.down = u] \in Ends
      /\ InBuffer([e EXCEPT !.broken = TRUE, !.up = u, !.down = u])
  OBVIOUS
<1> QED BY <1>1, <1>2, <1>3, <1>4, <1>5, <1>6

LEMMA Nothing == << >> \in Seq(Units) /\ Len(<< >>) = 0 /\ Len(<< >>) <= SocketBuffer
  BY LinkConstants

LEMMA LinksInBuffer ==
    ASSUME LinkTypes
    PROVE  /\ link \in [Links -> Ends] /\ \A l \in Links : link[l] \in Ends
           /\ \A l \in Links : InBuffer(link[l])
  BY DEF LinkTypes, TypeOK, InBuffer

LEMMA UpChanges ==
    ASSUME LinkTypes, NEW f \in Links, NEW u \in Seq(Units), Len(u) <= SocketBuffer,
           link' = [link EXCEPT ![f].up = u]
    PROVE  /\ link' \in [Links -> Ends] /\ DOMAIN link' = Links
           /\ \A l \in Links : InBuffer(link'[l])
           /\ link'[f].up = u
           /\ \A l \in Links : /\ l # f => link'[l] = link[l]
                               /\ link'[l].down = link[l].down
                               /\ link'[l].state = link[l].state
                               /\ link'[l].client <=> link[l].client
                               /\ link'[l].server <=> link[l].server
                               /\ link'[l].broken <=> link[l].broken
<1> DEFINE e == [link[f] EXCEPT !.up = u]
<1>1. /\ link \in [Links -> Ends] /\ link[f] \in Ends
      /\ \A l \in Links : InBuffer(link[l])
  BY LinksInBuffer
<1>2. e \in Ends /\ InBuffer(e)
  BY <1>1, EndChanges
<1>3. /\ e.state = link[f].state /\ e.client = link[f].client
      /\ e.server = link[f].server /\ e.broken = link[f].broken
      /\ e.up = u /\ e.down = link[f].down
  BY <1>1, <1>2 DEF Ends
<1>4. link' = [link EXCEPT ![f] = e]
  OBVIOUS
<1> HIDE DEF e
<1>5. /\ link' \in [Links -> Ends] /\ DOMAIN link' = Links
      /\ \A l \in Links : InBuffer(link'[l])
      /\ link'[f] = e /\ \A k \in Links : k # f => link'[k] = link[k]
  BY <1>1, <1>2, <1>4, OneLink
<1> QED BY <1>3, <1>5

LEMMA DownChanges ==
    ASSUME LinkTypes, NEW f \in Links, NEW u \in Seq(Units), Len(u) <= SocketBuffer,
           link' = [link EXCEPT ![f].down = u]
    PROVE  /\ link' \in [Links -> Ends] /\ DOMAIN link' = Links
           /\ \A l \in Links : InBuffer(link'[l])
           /\ link'[f].down = u
           /\ \A l \in Links : /\ l # f => link'[l] = link[l]
                               /\ link'[l].up = link[l].up
                               /\ link'[l].state = link[l].state
                               /\ link'[l].client <=> link[l].client
                               /\ link'[l].server <=> link[l].server
                               /\ link'[l].broken <=> link[l].broken
<1> DEFINE e == [link[f] EXCEPT !.down = u]
<1>1. /\ link \in [Links -> Ends] /\ link[f] \in Ends
      /\ \A l \in Links : InBuffer(link[l])
  BY LinksInBuffer
<1>2. e \in Ends /\ InBuffer(e)
  BY <1>1, EndChanges
<1>3. /\ e.state = link[f].state /\ e.client = link[f].client
      /\ e.server = link[f].server /\ e.broken = link[f].broken
      /\ e.down = u /\ e.up = link[f].up
  BY <1>1, <1>2 DEF Ends
<1>4. link' = [link EXCEPT ![f] = e]
  OBVIOUS
<1> HIDE DEF e
<1>5. /\ link' \in [Links -> Ends] /\ DOMAIN link' = Links
      /\ \A l \in Links : InBuffer(link'[l])
      /\ link'[f] = e /\ \A k \in Links : k # f => link'[k] = link[k]
  BY <1>1, <1>2, <1>4, OneLink
<1> QED BY <1>3, <1>5

-----------------------------------------------------------------------------
(* The steps of the network *)
LEMMA BreakStep ==
    ASSUME LinkTypes, NEW of \in [Links -> 0 .. MaxCalls], Tracks(of),
           NEW f \in Links, Break(f)
    PROVE  LinkTypes' /\ Tracks(of)'
<1> DEFINE e == [link[f] EXCEPT !.broken = TRUE, !.up = << >>, !.down = << >>]
<1>1. /\ e \in Ends /\ InBuffer(e)
      /\ e.state = link[f].state /\ e.client = link[f].client /\ e.server = link[f].server
      /\ e.up = << >> /\ e.down = << >> /\ e.broken
  <2>1. link[f] \in Ends /\ InBuffer(link[f])
    BY LinksInBuffer
  <2>2. e \in Ends /\ InBuffer(e)
    BY <2>1, EndChanges, Nothing
  <2> QED BY <2>1, <2>2 DEF Ends
<1>2. link' = [link EXCEPT ![f] = e] /\ UNCHANGED <<clientVars, serverVars, exchangeVars>>
  BY DEF Break
<1> HIDE DEF e
<1>3. /\ link' \in [Links -> Ends] /\ DOMAIN link' = Links
      /\ \A l \in Links : InBuffer(link'[l])
      /\ link'[f] = e /\ \A k \in Links : k # f => link'[k] = link[k]
  BY <1>1, <1>2, LinksInBuffer, OneLink
<1> USE DEF LinkTypes, Tracks, clientVars, serverVars, exchangeVars
<1>4. breaks' \in 0 .. MaxBreaks
  <2>1. breaks \in 0 .. MaxBreaks /\ MaxBreaks \in Nat
    BY LinkAssumption DEF TypeOK
  <2> QED BY <2>1 DEF Break
<1>5. TypeOK'
  BY <1>2, <1>3, <1>4 DEF TypeOK, InBuffer
<1>6. NetInv(of)'
  BY <1>1, <1>2, <1>3 DEF NetInv
<1>7. CallInv(of)'
  BY <1>2 DEF CallInv, isValidResult
<1>8. UpInv(of)'
  BY <1>1, <1>2, <1>3, FollowsNothing DEF UpInv, Pending, taken
<1>9. DownInv(of)'
  BY <1>1, <1>2, <1>3, FollowsNothing DEF DownInv, Replying, got, toSend
<1>10. ServerInv(of)' /\ ClientInv(of)'
  BY <1>2 DEF ServerInv, ClientInv
<1> QED BY <1>2, <1>3, <1>5, <1>6, <1>7, <1>8, <1>9, <1>10

-----------------------------------------------------------------------------
(* The steps of the client *)
LEMMA ConnectStep ==
    ASSUME LinkTypes, NEW of \in [Links -> 0 .. MaxCalls], Tracks(of), connectToServer
    PROVE  LinkTypes' /\ Tracks(of)'
<1> DEFINE e == [NewLink EXCEPT !.state = "backlog", !.client = TRUE, !.server = TRUE]
<1>1. PICK f \in Links : /\ link[f].state = "none" /\ link' = [link EXCEPT ![f] = e]
                         /\ socket_fd' = f
  BY DEF connectToServer
<1>2. /\ cpc = "idle" /\ socket_fd = NoLink
      /\ UNCHANGED <<cpc, sent, cbuf, serverVars, breaks, exchangeVars>>
  BY DEF connectToServer
<1>3. /\ e \in Ends /\ InBuffer(e)
      /\ e.state = "backlog" /\ e.client /\ e.server /\ e.up = << >> /\ e.down = << >>
  BY Nothing DEF NewLink, Ends, InBuffer
<1> HIDE DEF e
<1>4. /\ link' \in [Links -> Ends] /\ DOMAIN link' = Links
      /\ \A l \in Links : InBuffer(link'[l])
      /\ link'[f] = e /\ \A k \in Links : k # f => link'[k] = link[k]
  BY <1>1, <1>3, LinksInBuffer, OneLink
<1> USE DEF LinkTypes, Tracks, serverVars, exchangeVars
<1>5. of[f] = 0 /\ f # client_fd /\ 0 \notin handed
  BY <1>1 DEF NetInv, TypeOK
<1>6. TypeOK'
  BY <1>1, <1>2, <1>4 DEF TypeOK, InBuffer
<1>7. NetInv(of)'
  BY <1>1, <1>2, <1>3, <1>4, <1>5, LinkConstants DEF NetInv
<1>8. CallInv(of)'
  BY <1>2 DEF CallInv, isValidResult
<1>9. UpInv(of)'
  BY <1>1, <1>2, <1>3, <1>4, <1>5, LinkConstants, ZenonT(60) DEF UpInv, Pending, taken
<1>10. DownInv(of)'
  BY <1>2, <1>3, <1>4 DEF DownInv, Replying
<1>11. ServerInv(of)'
  BY <1>2 DEF ServerInv
<1>12. ClientInv(of)'
  BY <1>1, <1>2, <1>5 DEF ClientInv
<1> QED BY <1>2, <1>4, <1>6, <1>7, <1>8, <1>9, <1>10, <1>11, <1>12

LEMMA ClassifyStep ==
    ASSUME LinkTypes, NEW of \in [Links -> 0 .. MaxCalls], Tracks(of), classify
    PROVE  LinkTypes' /\ \E new \in [Links -> 0 .. MaxCalls] : Tracks(new)'
<1>0. PICK f, n, new : f = socket_fd /\ n = calls + 1 /\ new = [of EXCEPT ![f] = n]
  OBVIOUS
<1> USE DEF LinkTypes, Tracks
<1>1. /\ socket_fd = f /\ cpc = "idle" /\ f # NoLink /\ calls < MaxCalls
      /\ calls' = n /\ active' /\ cpc' = "send" /\ sent' = 0
      /\ UNCHANGED <<socket_fd, cbuf, serverVars, link, breaks, handed, answers, returned>>
  BY <1>0 DEF classify
<1>2. f \in Links /\ calls \in Nat /\ n \in 1 .. MaxCalls /\ n # 0
  BY <1>0, <1>1, LinkConstants DEF TypeOK
<1>3. /\ new \in [Links -> 0 .. MaxCalls] /\ new[f] = n
      /\ \A k \in Links : k # f => new[k] = of[k]
  BY <1>0, <1>2
<1>4. /\ handed \subseteq 1 .. calls /\ n \notin handed /\ 0 \notin handed
      /\ \A k \in Links : of[k] <= calls /\ of[k] \in Nat
  BY <1>0, <1>2 DEF TypeOK, CallInv
<1>5. /\ of[f] = 0 \/ of[f] \in handed
      /\ client_fd = f => spc = "recvHeader" /\ sbuf = << >>
      /\ cbuf = << >>
  BY <1>1 DEF ClientInv, ServerInv
<1>6. \A k \in Links : k # f => of[k] # n
  BY <1>0, <1>2, <1>4
<1> USE DEF serverVars
<1>7. TypeOK'
  <2>1. handed' \subseteq 1 .. calls' /\ sent' \in 0 .. HeaderSize + PayloadSize
    BY <1>0, <1>1, <1>2, <1>4, LinkConstants
  <2> QED BY <1>1, <2>1 DEF TypeOK
<1>8. NetInv(new)'
  <2>1. link[f].state # "none"
    BY <1>1, <1>2 DEF NetInv
  <2> QED BY <1>1, <1>2, <1>3, <1>4, <2>1 DEF NetInv
<1>9. CallInv(new)'
  <2>1. \A k \in Links : new[k] <= calls'
    BY <1>0, <1>1, <1>2, <1>3, <1>4
  <2>2. \A k, l \in Links : k # l => new[k] = 0 \/ new[k] # new[l]
    BY <1>2, <1>3, <1>6 DEF CallInv
  <2> QED BY <1>1, <2>1, <2>2 DEF CallInv, isValidResult
<1>10. link[f].up = << >> /\ taken(f) = 0 /\ (\A l \in Links : taken(l)' = taken(l))
  BY <1>1, <1>2, <1>4, <1>5, Nothing DEF UpInv, Pending, taken
<1>11. UpInv(new)'
  <2>1. ASSUME NEW l \in Links, l # f
        PROVE  /\ Pending(new, l)' <=> Pending(of, l)
               /\ new[l] = of[l] /\ taken(l)' = taken(l) /\ link'[l] = link[l]
    BY <1>1, <1>3, <1>10, <2>1 DEF Pending
  <2>2. /\ link'[f].up = << >> /\ Len(<< >>) = 0 /\ taken(f)' = 0 /\ sent' = 0
        /\ 0 + 0 <= RequestSize
    BY <1>1, <1>2, <1>10, LinkConstants
  <2> QED BY <1>1, <1>2, <2>1, <2>2, FollowsNothing DEF UpInv
<1>12. DownInv(new)'
  <2>1. \A l \in Links : link[l].down = << >>
    BY <1>1 DEF DownInv, Replying
  <2>2. \A l \in Links : ~Replying(new, l)'
    BY <1>1, <1>2, <1>3, <1>4 DEF Replying
  <2> QED BY <1>1, <2>1, <2>2 DEF DownInv
<1>13. ServerInv(new)'
  <2>1. CASE client_fd # f
    <3>1. spc # "accept" => client_fd \in Links /\ new[client_fd] = of[client_fd]
      BY <1>3, <2>1 DEF ServerInv, TypeOK
    <3> QED BY <1>1, <3>1 DEF ServerInv
  <2>2. CASE client_fd = f
    BY <1>1, <1>5, <2>2, Nothing, LinkConstants, FollowsNothing DEF ServerInv
  <2> QED BY <2>1, <2>2
<1>14. ClientInv(new)'
  <2>1. 0 < RequestSize
    BY LinkConstants DEF RequestSize
  <2> QED BY <1>1, <1>2, <1>3, <1>4, <1>5, <2>1 DEF ClientInv
<1> QED BY <1>1, <1>2, <1>3, <1>7, <1>8, <1>9, <1>11, <1>12, <1>13, <1>14

LEMMA AbandonStep ==
    ASSUME LinkTypes, NEW of \in [Links -> 0 .. MaxCalls], Tracks(of),
           socket_fd # NoLink, abandonCall, UNCHANGED <<serverVars, breaks, calls, handed, answers>>
    PROVE  LinkTypes' /\ Tracks(of)'
<1> USE DEF LinkTypes, Tracks
<1>0. PICK f \in Links : f = socket_fd
  BY DEF TypeOK
<1> DEFINE e == [link[f] EXCEPT !.client = FALSE, !.down = << >>]
<1>1. /\ e \in Ends /\ InBuffer(e)
      /\ e.state = link[f].state /\ e.broken = link[f].broken /\ e.server = link[f].server
      /\ e.up = link[f].up /\ e.down = << >> /\ ~e.client
  <2>1. link[f] \in Ends /\ InBuffer(link[f])
    BY LinksInBuffer
  <2>2. e \in Ends /\ InBuffer(e)
    BY <2>1, EndChanges, Nothing
  <2> QED BY <2>1, <2>2 DEF Ends
<1>2. /\ link' = [link EXCEPT ![f] = e] /\ cpc' = "idle" /\ active' = FALSE /\ socket_fd' = NoLink
      /\ cbuf' = << >> /\ UNCHANGED <<sent, returned>>
  BY <1>0 DEF abandonCall, closeClient
<1> HIDE DEF e
<1>3. /\ link' \in [Links -> Ends] /\ DOMAIN link' = Links
      /\ \A l \in Links : InBuffer(link'[l])
      /\ link'[f] = e /\ \A k \in Links : k # f => link'[k] = link[k]
  BY <1>1, <1>2, LinksInBuffer, OneLink
<1> USE LinkConstants DEF serverVars
<1>4. TypeOK'
  BY <1>2, <1>3 DEF TypeOK, InBuffer
<1>5. NetInv(of)'
  BY <1>0, <1>1, <1>2, <1>3 DEF NetInv
<1>6. CallInv(of)'
  BY <1>2 DEF CallInv, isValidResult
<1>7. UpInv(of)'
  <2>1. \A l \in Links : /\ taken(l)' = taken(l) /\ link'[l].up = link[l].up
                         /\ Pending(of, l)' <=> Pending(of, l)
    BY <1>1, <1>2, <1>3 DEF taken, Pending
  <2> QED BY <1>2, <2>1 DEF UpInv
<1>8. DownInv(of)'
  BY <1>0, <1>1, <1>2, <1>3 DEF DownInv, Replying
<1>9. ServerInv(of)' /\ ClientInv(of)'
  BY <1>2 DEF ServerInv, ClientInv
<1> QED BY <1>2, <1>3, <1>4, <1>5, <1>6, <1>7, <1>8, <1>9, Nothing

LEMMA SendStep ==
    ASSUME LinkTypes, NEW of \in [Links -> 0 .. MaxCalls], Tracks(of), sendAll
    PROVE  LinkTypes' /\ Tracks(of)'
<1> USE DEF LinkTypes, Tracks
<1>0. PICK f \in Links : f = socket_fd
  BY DEF sendAll, ClientInv, TypeOK
<1>1. PICK u : u = requestUnits(calls)[sent + 1]
  OBVIOUS
<1> USE LinkConstants
<1>2. /\ cpc = "send" /\ active /\ of[f] = calls /\ calls # 0 /\ calls \in Nat
      /\ calls \notin handed /\ sent \in Nat /\ sent < RequestSize
  BY <1>0 DEF sendAll, ClientInv, TypeOK
<1>3. u \in Units /\ Len(requestUnits(calls)) = RequestSize
  <2>1. sent + 1 \in 1 .. RequestSize
    BY <1>2
  <2>2. /\ \A i \in 1 .. RequestSize : requestUnits(calls)[i] \in Units
        /\ Len(requestUnits(calls)) = RequestSize
    BY <1>2, RequestAt
  <2> QED BY <1>1, <2>1, <2>2
<1>4. /\ ~link[f].broken /\ sent' = sent + 1 /\ cbuf' = << >>
      /\ cpc' = IF sent' = RequestSize THEN "recvHeader" ELSE "send"
      /\ UNCHANGED <<socket_fd, serverVars, breaks, exchangeVars>>
      /\ link[f].server => /\ Len(link[f].up) < SocketBuffer
                           /\ link' = [link EXCEPT ![f].up = Append(link[f].up, u)]
      /\ ~link[f].server => link' = link
  BY <1>0, <1>1, <1>3 DEF sendAll
<1>5. cpc' \in {"send", "recvHeader"} /\ sent' \in 0 .. RequestSize
  BY <1>2, <1>4
<1>6. /\ link' \in [Links -> Ends] /\ DOMAIN link' = Links
      /\ \A l \in Links : InBuffer(link'[l])
      /\ link[f].server => link'[f].up = Append(link[f].up, u)
      /\ ~link[f].server => link'[f].up = link[f].up
      /\ \A l \in Links : /\ l # f => link'[l] = link[l]
                          /\ link'[l].down = link[l].down
                          /\ link'[l].state = link[l].state
                          /\ link'[l].client <=> link[l].client
                          /\ link'[l].server <=> link[l].server
                          /\ link'[l].broken <=> link[l].broken
  <2>1. CASE ~link[f].server
    BY <1>4, <2>1, LinksInBuffer DEF TypeOK
  <2>2. CASE link[f].server
    <3>1. link[f].up \in Seq(Units)
      BY LinksInBuffer DEF Ends
    <3>2. /\ Append(link[f].up, u) \in Seq(Units) /\ Len(link[f].up) \in Nat
          /\ Len(Append(link[f].up, u)) = Len(link[f].up) + 1
      BY <1>3, <3>1, AppendUnit
    <3>3. Len(Append(link[f].up, u)) <= SocketBuffer
      BY <1>4, <2>2, <3>2, SMTT(30)
    <3> QED BY <1>4, <2>2, <3>2, <3>3, UpChanges
  <2> QED BY <2>1, <2>2
<1> USE DEF serverVars, exchangeVars
<1>7. TypeOK'
  BY <1>4, <1>5, <1>6 DEF TypeOK, InBuffer, RequestSize
<1>8. NetInv(of)'
  <2>1. \A l \in Links : /\ link'[l].state = link[l].state
                         /\ link'[l].client <=> link[l].client
                         /\ link'[l].server <=> link[l].server
    BY <1>6
  <2> QED BY <1>4, <2>1 DEF NetInv
<1>9. CallInv(of)'
  BY <1>4 DEF CallInv, isValidResult
<1>10. \A l \in Links : taken(l)' = taken(l) /\ (Pending(of, l)' <=> Pending(of, l))
  BY <1>4, <1>6 DEF taken, Pending
<1>11. UpInv(of)'
  <2>1. ASSUME Pending(of, f)
        PROVE  /\ taken(f) + Len(link'[f].up) = sent' /\ taken(f) + Len(link'[f].up) <= RequestSize
               /\ Follows(link'[f].up, requestUnits(of[f]), taken(f))
    <3>1. /\ link[f].server /\ link[f].up \in Seq(Units) /\ Len(link[f].up) \in Nat
          /\ taken(f) + Len(link[f].up) = sent
          /\ Follows(link[f].up, requestUnits(of[f]), taken(f))
      BY <1>0, <2>1, LinksInBuffer DEF UpInv, Pending, Ends
    <3>2. taken(f) \in Nat
      BY DEF taken
    <3>3. u = requestUnits(of[f])[taken(f) + Len(link[f].up) + 1]
      BY <1>1, <1>2, <3>1
    <3>4. Len(link'[f].up) = Len(link[f].up) + 1
      BY <1>3, <1>6, <3>1, AppendUnit, SMTT(30)
    <3>5. Follows(link'[f].up, requestUnits(of[f]), taken(f))
      <4>1. link'[f].up = Append(link[f].up, u)
        BY <1>6, <3>1
      <4> DEFINE s == link[f].up
                 t == requestUnits(of[f])
                 at == taken(f)
      <4>2. /\ s \in Seq(Units) /\ u \in Units /\ at \in Nat /\ Follows(s, t, at)
            /\ u = t[at + Len(s) + 1]
        BY <1>3, <3>1, <3>2, <3>3
      <4> HIDE DEF s, t, at
      <4>3. Follows(Append(s, u), t, at)
        BY <4>2, FollowsAppend
      <4> QED BY <4>1, <4>3 DEF s, t, at
    <3>6. sent' = sent + 1
      BY <1>4
    <3>7. taken(f) + Len(link'[f].up) = sent'
      BY <3>1, <3>2, <3>4, <3>6
    <3>8. sent' <= RequestSize
      BY <1>5
    <3> QED BY <3>5, <3>7, <3>8
  <2>2. ~Pending(of, f) => link'[f].up = << >>
    BY <1>2, <1>4, <1>6 DEF UpInv, Pending
  <2>3. ASSUME NEW l \in Links, l # f
        PROVE  /\ link'[l].up = link[l].up /\ l # socket_fd /\ l # socket_fd'
    BY <1>0, <1>4, <1>6, <2>3
  <2>4. f = socket_fd'
    BY <1>0, <1>4
  <2> QED BY <1>10, <2>1, <2>2, <2>3, <2>4 DEF UpInv
<1>12. DownInv(of)'
  <2>1. \A l \in Links : link'[l].down = link[l].down
    BY <1>6
  <2>2. \A l \in Links : ~Replying(of, l) /\ ~Replying(of, l)'
    BY <1>0, <1>2, <1>4 DEF Replying
  <2> QED BY <2>1, <2>2 DEF DownInv
<1>13. ServerInv(of)'
  BY <1>4 DEF ServerInv
<1>14. ClientInv(of)'
  <2>1. cpc' = "send" => sent' < RequestSize
    BY <1>2, <1>4
  <2>2. cpc' # "send" => sent' = RequestSize
    BY <1>4
  <2> QED BY <1>0, <1>2, <1>4, <1>5, <2>1, <2>2, Nothing, FollowsNothing DEF ClientInv
<1> QED BY <1>4, <1>6, <1>7, <1>8, <1>9, <1>11, <1>12, <1>13, <1>14, Nothing

(* What the client reads is the next unit of the reply to its own call. *)
LEMMA ReadsOwnReply ==
    ASSUME LinkTypes, NEW of \in [Links -> 0 .. MaxCalls], Tracks(of),
           cpc \in {"recvHeader", "recvResult"}, ~link[socket_fd].broken,
           link[socket_fd].down # << >>
    PROVE  LET f == socket_fd
               t == reply(server_version, calls, answers[calls])
               d == link[f].down
           IN  /\ f \in Links /\ Replying(of, f) /\ f = client_fd
               /\ of[f] = calls /\ calls \in handed /\ calls \in 1 .. MaxCalls
               /\ answers[calls] \in Results /\ spc \in {"send", "recvHeader"}
               /\ d \in Seq(Units) /\ Len(d) \in Nat /\ Len(d) > 0 /\ Head(d) \in Units
               /\ Tail(d) \in Seq(Units) /\ Len(Tail(d)) = Len(d) - 1
               /\ got + Len(d) + toSend = ResponseSize /\ got \in Nat /\ toSend \in Nat
               /\ Follows(Tail(d), t, got + 1)
               /\ cpc = "recvHeader" => Follows(Append(cbuf, Head(d)), t, 0)
               /\ cpc = "recvResult" => Follows(Append(cbuf, Head(d)), t, HeaderSize)
<1> USE LinkConstants DEF LinkTypes, Tracks
<1> DEFINE f == socket_fd
           t == reply(server_version, calls, answers[calls])
           d == link[f].down
<1>1. f \in Links /\ of[f] = calls /\ calls # 0
  BY DEF ClientInv, TypeOK
<1>2. Replying(of, f) /\ f = client_fd /\ calls \in handed
  BY <1>1 DEF DownInv, Replying
<1>3. calls \in 1 .. MaxCalls
  BY <1>1
<1>4. /\ answers[calls] \in Results /\ got + Len(d) + toSend = ResponseSize
      /\ Follows(d, t, got)
  BY <1>1, <1>2 DEF DownInv
<1>5. spc \in {"send", "recvHeader"}
  BY <1>1, <1>2 DEF Replying, ServerInv, TypeOK
<1>6. d \in Seq(Units) /\ d # << >> /\ cbuf \in Seq(Units)
  BY <1>1 DEF Ends
<1>7. got \in Nat /\ toSend \in Nat
  <2>1. Len(cbuf) \in Nat /\ Len(answer) \in Nat
    OBVIOUS
  <2> QED BY <2>1 DEF got, toSend
<1>8. /\ cpc = "recvHeader" => Follows(cbuf, t, 0) /\ got = 0 + Len(cbuf)
      /\ cpc = "recvResult" => Follows(cbuf, t, HeaderSize) /\ got = HeaderSize + Len(cbuf)
  BY <1>6 DEF ClientInv, got
<1> HIDE DEF f, t, d
<1>9. /\ Len(d) \in Nat /\ Len(d) > 0 /\ Head(d) \in Units
      /\ Tail(d) \in Seq(Units) /\ Len(Tail(d)) = Len(d) - 1
  BY <1>6, TailUnit
<1>10. Head(d) = t[got + 1] /\ Follows(Tail(d), t, got + 1)
  BY <1>4, <1>6, <1>7, FollowsTail
<1>11. ASSUME cpc = "recvHeader" PROVE Follows(Append(cbuf, Head(d)), t, 0)
  <2>1. Head(d) = t[0 + Len(cbuf) + 1] /\ Follows(cbuf, t, 0)
    BY <1>8, <1>10, <1>11
  <2> QED BY <1>6, <1>9, <2>1, FollowsAppend
<1>12. ASSUME cpc = "recvResult" PROVE Follows(Append(cbuf, Head(d)), t, HeaderSize)
  <2>1. Head(d) = t[HeaderSize + Len(cbuf) + 1] /\ Follows(cbuf, t, HeaderSize)
    BY <1>8, <1>10, <1>12
  <2> QED BY <1>6, <1>9, <2>1, FollowsAppend
<1> QED BY <1>1, <1>2, <1>3, <1>4, <1>5, <1>6, <1>7, <1>9, <1>10, <1>11, <1>12 DEF f, t, d

LEMMA ReceiveStep ==
    ASSUME LinkTypes, NEW of \in [Links -> 0 .. MaxCalls], Tracks(of), receiveAll
    PROVE  LinkTypes' /\ Tracks(of)'
<1>0. PICK f, t, d, buf : /\ f = socket_fd /\ d = link[f].down
                          /\ t = reply(server_version, calls, answers[calls])
                          /\ buf = Append(cbuf, Head(d))
  OBVIOUS
<1> DEFINE whole == Len(buf) = IF cpc = "recvHeader" THEN HeaderSize ELSE ResultSize
           take == link' = [link EXCEPT ![f].down = Tail(d)]
           more == /\ ~whole /\ take /\ cbuf' = buf
                   /\ UNCHANGED <<cpc, socket_fd, sent, active, returned>>
           header == /\ whole /\ cpc = "recvHeader" /\ acceptable(buf) /\ take
                     /\ cpc' = "recvResult" /\ cbuf' = << >>
                     /\ UNCHANGED <<socket_fd, sent, active, returned>>
           result == /\ whole /\ cpc = "recvResult" /\ acceptable(buf) /\ take
                     /\ cpc' = "idle" /\ active' = FALSE /\ cbuf' = << >>
                     /\ returned' = [returned EXCEPT ![calls] = buf[1].body]
                     /\ UNCHANGED <<socket_fd, sent>>
<1>1. /\ cpc \in {"recvHeader", "recvResult"} /\ ~link[f].broken /\ d # << >>
      /\ UNCHANGED <<serverVars, breaks, calls, handed, answers>>
      /\ more \/ header \/ result \/ abandonCall
  BY <1>0 DEF receiveAll
<1>2. /\ f \in Links /\ Replying(of, f) /\ f = client_fd
      /\ of[f] = calls /\ calls \in handed /\ calls \in 1 .. MaxCalls
      /\ answers[calls] \in Results /\ spc \in {"send", "recvHeader"}
      /\ d \in Seq(Units) /\ Len(d) \in Nat /\ Len(d) > 0 /\ Head(d) \in Units
      /\ Tail(d) \in Seq(Units) /\ Len(Tail(d)) = Len(d) - 1
      /\ got + Len(d) + toSend = ResponseSize /\ got \in Nat /\ toSend \in Nat
      /\ Follows(Tail(d), t, got + 1)
      /\ cpc = "recvHeader" => Follows(buf, t, 0)
      /\ cpc = "recvResult" => Follows(buf, t, HeaderSize)
  BY <1>0, <1>1, ReadsOwnReply
<1>3. CASE abandonCall
  BY <1>0, <1>1, <1>2, <1>3, AbandonStep, LinkConstants
<1>10. /\ got \in Nat /\ toSend \in Nat /\ Len(d) \in Nat /\ Len(d) > 0
       /\ got + Len(d) + toSend = ResponseSize /\ Len(Tail(d)) = Len(d) - 1
  BY <1>2
<1> USE LinkConstants DEF LinkTypes, Tracks, serverVars
<1>4. /\ buf \in Seq(Units) /\ Len(cbuf) \in Nat /\ Len(buf) = Len(cbuf) + 1
      /\ \A i \in 1 .. Len(cbuf) : buf[i] = cbuf[i]
  BY <1>0, <1>2, AppendUnit
<1>5. /\ active /\ sent = RequestSize /\ socket_fd # NoLink /\ calls # 0
      /\ cpc = "recvHeader" => got = Len(cbuf) /\ Len(cbuf) < HeaderSize
      /\ cpc = "recvResult" => got = HeaderSize + Len(cbuf) /\ Len(cbuf) < ResultSize
  BY <1>1 DEF ClientInv, got
<1>6. ASSUME take, UNCHANGED <<socket_fd, sent>>
      PROVE  /\ link' \in [Links -> Ends] /\ DOMAIN link' = Links
             /\ \A l \in Links : InBuffer(link'[l])
             /\ link'[f].down = Tail(d)
             /\ \A l \in Links : (l # f => link'[l].down = link[l].down)
             /\ ~link'[f].broken
             /\ NetInv(of)' /\ UpInv(of)' /\ ServerInv(of)'
  <2>1. Len(Tail(d)) <= SocketBuffer
    <3>1. Len(d) <= SocketBuffer
      BY <1>0, <1>2, LinksInBuffer DEF InBuffer
    <3> QED BY <1>2, <3>1
  <2>2. /\ link' \in [Links -> Ends] /\ DOMAIN link' = Links
        /\ \A l \in Links : InBuffer(link'[l])
        /\ link'[f].down = Tail(d)
        /\ \A l \in Links : /\ l # f => link'[l] = link[l]
                            /\ link'[l].up = link[l].up
                            /\ link'[l].state = link[l].state
                            /\ link'[l].client <=> link[l].client
                            /\ link'[l].server <=> link[l].server
                            /\ link'[l].broken <=> link[l].broken
    BY <1>2, <1>6, <2>1, DownChanges
  <2>3. NetInv(of)'
    <3>1. \A l \in Links : /\ link'[l].state = link[l].state
                           /\ link'[l].client <=> link[l].client
                           /\ link'[l].server <=> link[l].server
      BY <2>2
    <3> QED BY <1>1, <1>6, <3>1 DEF NetInv
  <2>4. UpInv(of)'
    <3>1. \A l \in Links : /\ taken(l)' = taken(l) /\ link'[l].up = link[l].up
                           /\ Pending(of, l)' <=> Pending(of, l)
      BY <1>1, <2>2 DEF taken, Pending
    <3> QED BY <1>1, <1>6, <3>1 DEF UpInv
  <2>5. ServerInv(of)'
    BY <1>1 DEF ServerInv
  <2> QED BY <1>1, <1>2, <2>2, <2>3, <2>4, <2>5
<1>7. CASE more
  <2>1. link' \in [Links -> Ends] /\ NetInv(of)' /\ UpInv(of)' /\ ServerInv(of)'
    BY <1>6, <1>7
  <2>2. TypeOK' /\ CallInv(of)'
    BY <1>1, <1>6, <1>7 DEF TypeOK, InBuffer, CallInv, isValidResult
  <2>3. /\ got' = got + 1 /\ toSend' = toSend
        /\ cpc = "recvHeader" => Len(buf) < HeaderSize
        /\ cpc = "recvResult" => Len(buf) < ResultSize
    <3>1. Len(cbuf') = Len(cbuf) + 1 /\ cpc' = cpc /\ spc' = spc /\ answer' = answer
      BY <1>1, <1>4, <1>7
    <3>2. got' = got + 1 /\ toSend' = toSend
      BY <1>4, <3>1 DEF got, toSend
    <3>3. Len(buf) # IF cpc = "recvHeader" THEN HeaderSize ELSE ResultSize
      BY <1>7
    <3>4. Len(cbuf) \in Nat /\ Len(buf) = Len(cbuf) + 1
      BY <1>4
    <3> QED BY <1>5, <3>2, <3>3, <3>4
  <2>4. DownInv(of)'
    <3>1. \A l \in Links : l # f => ~Replying(of, l) /\ ~Replying(of, l)'
      BY <1>0, <1>7 DEF Replying
    <3>2. /\ Follows(link'[f].down, t, got') /\ t = reply(server_version', of[f], answers'[of[f]])
          /\ answers'[of[f]] \in Results
      BY <1>0, <1>1, <1>2, <1>6, <1>7, <2>3
    <3>3. Len(link'[f].down) = Len(d) - 1
      BY <1>2, <1>6, <1>7
    <3>4. got' + Len(link'[f].down) + toSend' = ResponseSize
      <4> HIDE DEF LinkTypes, Tracks
      <4> QED BY <1>10, <2>3, <3>3
    <3>5. Replying(of, f)'
      BY <1>1, <1>2, <1>6, <1>7 DEF Replying
    <3> QED BY <1>6, <1>7, <3>1, <3>2, <3>4, <3>5 DEF DownInv
  <2>5. ClientInv(of)'
    BY <1>0, <1>1, <1>2, <1>5, <1>7, <2>3 DEF ClientInv
  <2> QED BY <1>1, <1>4, <1>7, <2>1, <2>2, <2>4, <2>5
<1>8. CASE header
  <2>1. link' \in [Links -> Ends] /\ NetInv(of)' /\ UpInv(of)' /\ ServerInv(of)'
    BY <1>6, <1>8
  <2>2. TypeOK' /\ CallInv(of)'
    BY <1>1, <1>6, <1>8 DEF TypeOK, InBuffer, CallInv, isValidResult
  <2>3. got' = got + 1 /\ toSend' = toSend
    <3>1. got' = HeaderSize + 0
      BY <1>8, Nothing DEF got
    <3>2. got = Len(cbuf) /\ Len(cbuf) \in Nat /\ Len(cbuf) + 1 = HeaderSize
      BY <1>4, <1>5, <1>8
    <3>3. toSend' = toSend
      BY <1>1 DEF toSend
    <3> QED BY <3>1, <3>2, <3>3
  <2>4. DownInv(of)'
    <3>1. \A l \in Links : l # f => ~Replying(of, l) /\ ~Replying(of, l)'
      BY <1>0, <1>8 DEF Replying
    <3>2. /\ Follows(link'[f].down, t, got') /\ t = reply(server_version', of[f], answers'[of[f]])
          /\ answers'[of[f]] \in Results
      BY <1>0, <1>1, <1>2, <1>6, <1>8, <2>3
    <3>3. Len(link'[f].down) = Len(d) - 1
      BY <1>2, <1>6, <1>8
    <3>4. got' + Len(link'[f].down) + toSend' = ResponseSize
      <4> HIDE DEF LinkTypes, Tracks
      <4> QED BY <1>10, <2>3, <3>3
    <3>5. Replying(of, f)'
      BY <1>1, <1>2, <1>6, <1>8 DEF Replying
    <3> QED BY <1>6, <1>8, <3>1, <3>2, <3>4, <3>5 DEF DownInv
  <2>5. ClientInv(of)'
    BY <1>0, <1>1, <1>2, <1>5, <1>8, Nothing, FollowsNothing DEF ClientInv
  <2> QED BY <1>1, <1>8, <2>1, <2>2, <2>4, <2>5, Nothing
<1>9. CASE result
  <2>1. link' \in [Links -> Ends] /\ NetInv(of)' /\ UpInv(of)' /\ ServerInv(of)'
    BY <1>6, <1>9
  <2>2. Len(d) = 1 /\ toSend = 0
    <3>1. got = HeaderSize + Len(cbuf) /\ Len(cbuf) \in Nat /\ Len(cbuf) + 1 = ResultSize
      BY <1>4, <1>5, <1>9
    <3>2. ResponseSize = HeaderSize + ResultSize
      BY DEF ResponseSize
    <3> HIDE DEF LinkTypes, Tracks
    <3>3. got + 1 = ResponseSize
      BY <3>1, <3>2
    <3>4. PICK g \in Nat, k \in Nat, s \in Nat : g = got /\ k = Len(d) /\ s = toSend
      BY <1>10
    <3>5. k > 0 /\ g + k + s = ResponseSize /\ g + 1 = ResponseSize
      BY <1>10, <3>3, <3>4
    <3>6. k = 1 /\ s = 0
      BY <3>5
    <3> QED BY <3>4, <3>6
  <2>3. spc = "recvHeader"
    <3>1. spc = "send" => Len(answer) \in 1 .. ResponseSize
      BY DEF ServerInv
    <3> QED BY <1>2, <2>2, <3>1 DEF toSend
  <2>4. buf[1].body = answers[calls] /\ isValidResult(buf[1].body)
    <3>1. buf[1] = t[HeaderSize + 1]
      <4>1. Follows(buf, t, HeaderSize) /\ Len(buf) \in Nat /\ Len(buf) > 0
        BY <1>2, <1>4, <1>9
      <4> QED BY <4>1 DEF Follows
    <3>2. t[HeaderSize + 1].body = answers[calls]
      <4>1. server_version \in ServerVersions /\ calls \in Nat /\ answers[calls] \in Results
        BY <1>2 DEF TypeOK
      <4> QED BY <1>0, <4>1, ReplyAt
    <3>3. isValidResult(buf[1].body)
      BY <1>9 DEF acceptable, decode
    <3> QED BY <3>1, <3>2, <3>3
  <2>5. TypeOK' /\ CallInv(of)'
    <3>1. returned' \in [1 .. MaxCalls -> Results \cup {NoResult}]
      BY <1>2, <1>9, <2>4 DEF TypeOK
    <3>2. \A r \in 1 .. MaxCalls : returned'[r] # NoResult =>
            returned'[r] \in Results /\ isValidResult(returned'[r])
      BY <1>2, <1>9, <2>4 DEF CallInv, TypeOK
    <3>3. TypeOK'
      BY <1>1, <1>6, <1>9, <3>1 DEF TypeOK, InBuffer
    <3> QED BY <1>1, <1>9, <3>2, <3>3 DEF CallInv, isValidResult
  <2>6. DownInv(of)'
    <3>1. \A l \in Links : ~Replying(of, l)' /\ (l # f => ~Replying(of, l))
      BY <1>0, <1>9 DEF Replying
    <3>2. Tail(d) = << >>
      <4>1. Tail(d) \in Seq(Units) /\ Len(Tail(d)) = 0
        BY <1>2, <1>10, <2>2
      <4> QED BY <4>1, EmptySeq
    <3> QED BY <1>6, <1>9, <3>1, <3>2 DEF DownInv
  <2>7. ClientInv(of)'
    BY <1>0, <1>1, <1>2, <1>9, <2>3 DEF ClientInv
  <2> QED BY <1>1, <1>9, <2>1, <2>5, <2>6, <2>7, Nothing
<1> QED BY <1>1, <1>3, <1>7, <1>8, <1>9

-----------------------------------------------------------------------------
(* The steps of the server *)
LEMMA AcceptStep ==
    ASSUME LinkTypes, NEW of \in [Links -> 0 .. MaxCalls], Tracks(of), serverAccept
    PROVE  LinkTypes' /\ Tracks(of)'
<1> USE DEF LinkTypes, Tracks
<1>1. PICK f \in Links : /\ link[f].state = "backlog" /\ client_fd' = f
                         /\ link' = [link EXCEPT ![f].state = "open"]
  BY DEF serverAccept
<1>2. /\ spc = "accept" /\ spc' = "recvHeader" /\ sbuf' = << >> /\ client_fd = NoLink
      /\ UNCHANGED <<server_version, request, answer, clientVars, breaks, exchangeVars>>
  BY DEF serverAccept, ServerInv
<1> DEFINE e == [link[f] EXCEPT !.state = "open"]
<1>3. /\ e \in Ends /\ InBuffer(e)
      /\ e.state = "open" /\ e.broken = link[f].broken /\ e.server = link[f].server
      /\ e.up = link[f].up /\ e.down = link[f].down /\ e.client = link[f].client
  <2>1. link[f] \in Ends /\ InBuffer(link[f])
    BY LinksInBuffer
  <2>2. e \in Ends /\ InBuffer(e)
    BY <2>1, EndChanges, Nothing
  <2> QED BY <2>1, <2>2 DEF Ends
<1>4. link' = [link EXCEPT ![f] = e]
  BY <1>1
<1> HIDE DEF e
<1>5. /\ link' \in [Links -> Ends] /\ DOMAIN link' = Links
      /\ \A l \in Links : InBuffer(link'[l])
      /\ link'[f] = e /\ \A k \in Links : k # f => link'[k] = link[k]
  BY <1>3, <1>4, LinksInBuffer, OneLink
<1>6. link[f].server /\ of[f] \notin handed /\ f # NoLink
  BY <1>1, LinkConstants DEF NetInv
<1> USE LinkConstants DEF clientVars, exchangeVars
<1>7. TypeOK'
  BY <1>1, <1>2, <1>5 DEF TypeOK, InBuffer
<1>8. NetInv(of)'
  BY <1>1, <1>2, <1>3, <1>5, <1>6, ZenonT(60) DEF NetInv
<1>9. CallInv(of)'
  BY <1>2 DEF CallInv, isValidResult
<1>10. UpInv(of)'
  <2>1. \A l \in Links : taken(l)' = taken(l)
    BY <1>1, <1>2, Nothing DEF taken
  <2>2. \A l \in Links : link'[l].up = link[l].up /\ (Pending(of, l)' <=> Pending(of, l))
    BY <1>2, <1>3, <1>5 DEF Pending
  <2> QED BY <1>2, <2>1, <2>2 DEF UpInv
<1>11. DownInv(of)'
  <2>1. \A l \in Links : ~Replying(of, l) /\ ~Replying(of, l)'
    BY <1>1, <1>2, <1>6 DEF Replying
  <2> QED BY <1>3, <1>5, <2>1 DEF DownInv
<1>12. ServerInv(of)'
  BY <1>1, <1>2, <1>6, Nothing, FollowsNothing DEF ServerInv
<1>13. ClientInv(of)'
  BY <1>2 DEF ClientInv
<1> QED BY <1>2, <1>5, <1>7, <1>8, <1>9, <1>10, <1>11, <1>12, <1>13, Nothing

(* A new answer does not touch what the client has read. *)
LEMMA AnswerKeeps ==
    ASSUME LinkTypes, NEW of \in [Links -> 0 .. MaxCalls], Tracks(of),
           spc = "classify", NEW result \in Results,
           answers' = [answers EXCEPT ![request.roi] = result],
           UNCHANGED <<server_version, clientVars, calls, active, handed, returned>>
    PROVE  /\ answers' \in [1 .. MaxCalls -> Results \cup {NoResult}] /\ CallInv(of)'
           /\ client_fd \in Links /\ of[client_fd] \in 1 .. MaxCalls
           /\ answers'[of[client_fd]] = result
           /\ cpc = "recvHeader" =>
                Follows(cbuf, reply(server_version, calls, answers'[calls]), 0)
           /\ cpc = "recvResult" =>
                Follows(cbuf, reply(server_version, calls, answers'[calls]), HeaderSize)
           /\ cbuf # << >> \/ cpc = "recvResult" => answers'[calls] \in Results
           /\ calls = of[client_fd] => cbuf = << >> /\ cpc # "recvResult"
<1> USE LinkConstants DEF LinkTypes, Tracks
<1>1. PICK n : n = of[client_fd]
  OBVIOUS
<1>2. client_fd \in Links /\ n \in handed /\ answers[n] = NoResult /\ request.roi = n
  BY <1>1 DEF ServerInv, TypeOK
<1>3. n \in 1 .. MaxCalls
  <2>1. n \in 1 .. calls /\ calls \in 0 .. MaxCalls
    BY <1>2 DEF TypeOK
  <2> QED BY <2>1
<1>4. answers \in [1 .. MaxCalls -> Results \cup {NoResult}]
  BY DEF TypeOK
<1>5. /\ answers' \in [1 .. MaxCalls -> Results \cup {NoResult}]
      /\ answers'[n] = result /\ \A r \in 1 .. MaxCalls : r # n => answers'[r] = answers[r]
  BY <1>2, <1>3, <1>4
<1>6. CallInv(of)'
  BY <1>2, <1>5 DEF CallInv, isValidResult
<1>7. ASSUME calls = n PROVE cbuf = << >> /\ cpc # "recvResult"
  BY <1>2, <1>7, LinkAssumption DEF ClientInv
<1>8. ASSUME calls # n PROVE cpc # "idle" => answers'[calls] = answers[calls]
  <2>1. cpc # "idle" => calls \in 1 .. MaxCalls
    BY DEF ClientInv
  <2> QED BY <1>5, <1>8, <2>1
<1>9. CASE calls = n
  BY <1>1, <1>2, <1>3, <1>5, <1>6, <1>7, <1>9, FollowsNothing
<1>10. CASE calls # n
  <2>1. cpc = "idle" => cbuf = << >>
    BY DEF ClientInv
  <2> QED BY <1>1, <1>2, <1>3, <1>5, <1>6, <1>8, <1>10, <2>1 DEF ClientInv
<1> QED BY <1>9, <1>10

LEMMA DisconnectStep ==
    ASSUME LinkTypes, NEW of \in [Links -> 0 .. MaxCalls], Tracks(of),
           spc # "accept", serverDisconnect, link[client_fd].down = << >>,
           UNCHANGED <<server_version, clientVars, breaks, calls, active, handed, returned>>,
           \/ answers' = answers
           \/ /\ spc = "classify"
              /\ \E result \in Results : answers' = [answers EXCEPT ![request.roi] = result]
    PROVE  LinkTypes' /\ Tracks(of)'
<1> USE LinkConstants DEF LinkTypes, Tracks, clientVars
<1>0. PICK f \in Links : f = client_fd
  BY DEF ServerInv, TypeOK
<1> DEFINE e == [link[f] EXCEPT !.server = FALSE, !.up = << >>]
<1>1. /\ e \in Ends /\ InBuffer(e)
      /\ e.state = link[f].state /\ e.broken = link[f].broken /\ e.client = link[f].client
      /\ e.up = << >> /\ e.down = link[f].down /\ ~e.server
  <2>1. link[f] \in Ends /\ InBuffer(link[f])
    BY LinksInBuffer
  <2>2. e \in Ends /\ InBuffer(e)
    BY <2>1, EndChanges, Nothing
  <2> QED BY <2>1, <2>2 DEF Ends
<1>2. /\ link' = [link EXCEPT ![f] = e] /\ spc' = "accept" /\ client_fd' = NoLink
      /\ sbuf' = << >> /\ answer' = << >> /\ request' = request
  BY <1>0 DEF serverDisconnect, closeServer
<1> HIDE DEF e
<1>3. /\ link' \in [Links -> Ends] /\ DOMAIN link' = Links
      /\ \A l \in Links : InBuffer(link'[l])
      /\ link'[f] = e /\ \A k \in Links : k # f => link'[k] = link[k]
  BY <1>1, <1>2, LinksInBuffer, OneLink
<1>4. /\ answers' \in [1 .. MaxCalls -> Results \cup {NoResult}] /\ CallInv(of)'
      /\ cpc = "recvHeader" =>
           Follows(cbuf, reply(server_version, calls, answers'[calls]), 0)
      /\ cpc = "recvResult" =>
           Follows(cbuf, reply(server_version, calls, answers'[calls]), HeaderSize)
      /\ cbuf # << >> \/ cpc = "recvResult" => answers'[calls] \in Results
  <2>1. CASE answers' = answers
    BY <2>1 DEF TypeOK, CallInv, ClientInv, isValidResult
  <2>2. CASE answers' # answers
    BY <2>2, AnswerKeeps
  <2> QED BY <2>1, <2>2
<1>5. TypeOK'
  BY <1>2, <1>3, <1>4 DEF TypeOK, InBuffer
<1>6. NetInv(of)'
  BY <1>0, <1>1, <1>2, <1>3 DEF NetInv
<1>7. UpInv(of)'
  <2>1. ~Pending(of, f)' /\ link'[f].up = << >>
    BY <1>1, <1>3 DEF Pending
  <2>2. ASSUME NEW l \in Links, l # f
        PROVE  /\ taken(l)' = taken(l) /\ link'[l].up = link[l].up
               /\ Pending(of, l)' <=> Pending(of, l)
    BY <1>0, <1>2, <1>3, <2>2 DEF taken, Pending
  <2> QED BY <2>1, <2>2 DEF UpInv
<1>8. DownInv(of)'
  <2>1. \A l \in Links : /\ ~Replying(of, l)'
                         /\ l # f => link'[l].down = link[l].down /\ ~Replying(of, l)
    BY <1>0, <1>2, <1>3 DEF Replying
  <2>2. link'[f].down = << >>
    BY <1>0, <1>1, <1>3
  <2> QED BY <2>1, <2>2 DEF DownInv
<1>9. ServerInv(of)'
  BY <1>2 DEF ServerInv
<1>10. ClientInv(of)'
  BY <1>2, <1>4 DEF ClientInv
<1> QED BY <1>2, <1>3, <1>4, <1>5, <1>6, <1>7, <1>8, <1>9, <1>10, Nothing

LEMMA ServerFailsStep ==
    ASSUME LinkTypes, NEW of \in [Links -> 0 .. MaxCalls], Tracks(of), serverTransferFails
    PROVE  LinkTypes' /\ Tracks(of)'
<1>1. spc # "accept" /\ client_fd \in Links
  BY DEF serverTransferFails, Tracks, ServerInv, LinkTypes, TypeOK
<1>2. ~Replying(of, client_fd)
  BY <1>1 DEF serverTransferFails, Replying, Tracks, NetInv
<1>3. link[client_fd].down = << >>
  BY <1>1, <1>2 DEF Tracks, DownInv
<1> QED BY <1>1, <1>3, DisconnectStep DEF serverTransferFails, exchangeVars

(* What the server reads is the next unit of the request last begun on its *)
(* connection, which nobody was handed yet.                                *)
LEMMA ReadsRequest ==
    ASSUME LinkTypes, NEW of \in [Links -> 0 .. MaxCalls], Tracks(of),
           spc \in {"recvHeader", "recvPayload"}, ~link[client_fd].broken,
           link[client_fd].up # << >>
    PROVE  LET f == client_fd
               n == of[f]
               t == requestUnits(n)
               u == link[f].up
           IN  /\ f \in Links /\ Pending(of, f) /\ ~Replying(of, f)
               /\ n \in 1 .. calls /\ n \in Nat /\ n \notin handed
               /\ u \in Seq(Units) /\ Len(u) \in Nat /\ Len(u) > 0 /\ Head(u) \in Units
               /\ Tail(u) \in Seq(Units) /\ Len(Tail(u)) = Len(u) - 1
               /\ taken(f) \in Nat /\ taken(f) + Len(u) <= RequestSize
               /\ f = socket_fd => taken(f) + Len(u) = sent /\ cpc # "idle"
               /\ Follows(Tail(u), t, taken(f) + 1)
               /\ spc = "recvHeader" => Follows(Append(sbuf, Head(u)), t, 0)
               /\ spc = "recvPayload" => Follows(Append(sbuf, Head(u)), t, HeaderSize)
<1> USE LinkConstants DEF LinkTypes, Tracks
<1> DEFINE f == client_fd
           n == of[f]
           t == requestUnits(n)
           u == link[f].up
<1>1. f \in Links
  BY DEF ServerInv, TypeOK
<1>2. Pending(of, f)
  BY <1>1 DEF UpInv
<1>3. n \in 1 .. calls /\ n \in Nat /\ n \notin handed /\ ~Replying(of, f)
  BY <1>1, <1>2 DEF Pending, CallInv, Replying
<1>4. /\ taken(f) + Len(u) <= RequestSize /\ Follows(u, t, taken(f))
      /\ f = socket_fd => taken(f) + Len(u) = sent
  BY <1>1, <1>2 DEF UpInv
<1>5. f = socket_fd => cpc # "idle"
  BY <1>1, <1>3 DEF ClientInv
<1>6. u \in Seq(Units) /\ u # << >> /\ sbuf \in Seq(Units)
  BY <1>1 DEF Ends
<1>7. Len(sbuf) \in Nat
  BY <1>6
<1>8. /\ taken(f) \in Nat
      /\ spc = "recvHeader" => Follows(sbuf, t, 0) /\ taken(f) = 0 + Len(sbuf)
      /\ spc = "recvPayload" => Follows(sbuf, t, HeaderSize)
                                /\ taken(f) = HeaderSize + Len(sbuf)
  BY <1>7 DEF ServerInv, taken
<1> DEFINE at == taken(f)
<1> HIDE DEF f, n, t, u, at
<1>9. /\ Len(u) \in Nat /\ Len(u) > 0 /\ Head(u) \in Units
      /\ Tail(u) \in Seq(Units) /\ Len(Tail(u)) = Len(u) - 1
  BY <1>6, TailUnit
<1>10. Head(u) = t[at + 1] /\ Follows(Tail(u), t, at + 1)
  <2>1. at \in Nat /\ Follows(u, t, at)
    BY <1>4, <1>8 DEF at
  <2> QED BY <1>6, <2>1, FollowsTail
<1>11. ASSUME spc = "recvHeader" PROVE Follows(Append(sbuf, Head(u)), t, 0)
  <2>1. Head(u) = t[0 + Len(sbuf) + 1] /\ Follows(sbuf, t, 0)
    BY <1>8, <1>10, <1>11 DEF at
  <2> QED BY <1>6, <1>9, <2>1, FollowsAppend
<1>12. ASSUME spc = "recvPayload" PROVE Follows(Append(sbuf, Head(u)), t, HeaderSize)
  <2>1. Head(u) = t[HeaderSize + Len(sbuf) + 1] /\ Follows(sbuf, t, HeaderSize)
    BY <1>8, <1>10, <1>12 DEF at
  <2> QED BY <1>6, <1>9, <2>1, FollowsAppend
<1> QED BY <1>1, <1>2, <1>3, <1>4, <1>5, <1>6, <1>8, <1>9, <1>10, <1>11, <1>12
        DEF f, n, t, u, at

(* A whole payload decodes to the ROI it was sent for. *)
LEMMA WholePayload ==
    ASSUME NEW n \in Nat, NEW buf \in Seq(Units), Len(buf) = PayloadSize,
           Follows(buf, requestUnits(n), HeaderSize)
    PROVE  decode("payload", PayloadSize, buf) = n
<1> USE LinkConstants
<1>1. \A i \in 1 .. PayloadSize : buf[i] = [kind |-> "payload", part |-> i, body |-> n]
  <2>1. \A i \in 1 .. PayloadSize : requestUnits(n)[HeaderSize + i] =
                 [kind |-> "payload", part |-> i, body |-> n]
    BY RequestAt
  <2> QED BY <2>1 DEF Follows
<1>2. buf[1].body = n
  BY <1>1
<1>3. buf = [i \in 1 .. PayloadSize |-> [kind |-> "payload", part |-> i, body |-> n]]
  BY <1>1
<1>4. buf = units("payload", PayloadSize, n)
  BY <1>3 DEF units
<1> QED BY <1>2, <1>4 DEF decode

(* The header of a request that the server accepts. *)
LEMMA ValidHeader ==
    ASSUME NEW n \in Nat, NEW buf \in Seq(Units), Len(buf) = HeaderSize,
           Follows(buf, requestUnits(n), 0),
           isValidHeader(server_version, "request", decode("header", HeaderSize, buf))
    PROVE  decode("header", HeaderSize, buf).roi = n /\ server_version = ClientVersion
<1> USE LinkConstants
<1>1. buf[1] = requestUnits(n)[1]
  BY DEF Follows
<1>2. buf[1].body = [version |-> ClientVersion, type |-> "request", roi |-> n]
  BY <1>1, RequestAt
<1>3. decode("header", HeaderSize, buf) = buf[1].body
  BY DEF isValidHeader, decode
<1> QED BY <1>2, <1>3 DEF isValidHeader

LEMMA ServerReceiveStep ==
    ASSUME LinkTypes, NEW of \in [Links -> 0 .. MaxCalls], Tracks(of), serverReceive
    PROVE  LinkTypes' /\ Tracks(of)'
<1>0. PICK f, n, t, u, at, buf, head :
        /\ f = client_fd /\ n = of[f] /\ t = requestUnits(n) /\ u = link[f].up
        /\ at = taken(f) /\ buf = Append(sbuf, Head(u))
        /\ head = decode("header", HeaderSize, buf)
  OBVIOUS
<1> DEFINE take == link' = [link EXCEPT ![f].up = Tail(u)]
           more == /\ Len(buf) < IF spc = "recvHeader" THEN HeaderSize ELSE PayloadSize
                   /\ sbuf' = buf /\ take
                   /\ UNCHANGED <<spc, client_fd, request, answer, handed>>
           header == /\ spc = "recvHeader" /\ Len(buf) = HeaderSize
                     /\ isValidHeader(server_version, "request", head)
                     /\ request' = [roi |-> head.roi, payload |-> 0]
                     /\ spc' = "recvPayload" /\ sbuf' = << >> /\ take
                     /\ UNCHANGED <<client_fd, answer, handed>>
           refused == serverDisconnect /\ UNCHANGED handed
           payload == /\ spc = "recvPayload" /\ Len(buf) = PayloadSize
                      /\ request' = [request EXCEPT !.payload =
                                        decode("payload", PayloadSize, buf)]
                      /\ handed' = handed \cup {request.roi}
                      /\ spc' = "classify" /\ sbuf' = << >> /\ take
                      /\ UNCHANGED <<client_fd, answer>>
<1>1. /\ spc \in {"recvHeader", "recvPayload"} /\ ~link[f].broken /\ u # << >>
      /\ UNCHANGED <<server_version, clientVars, breaks, calls, active, answers, returned>>
      /\ more \/ header \/ refused \/ payload
  BY <1>0 DEF serverReceive, payloadUnits
<1>2. /\ f \in Links /\ Pending(of, f) /\ ~Replying(of, f)
      /\ n \in 1 .. calls /\ n \in Nat /\ n \notin handed
      /\ u \in Seq(Units) /\ Len(u) \in Nat /\ Len(u) > 0 /\ Head(u) \in Units
      /\ Tail(u) \in Seq(Units) /\ Len(Tail(u)) = Len(u) - 1
      /\ at \in Nat /\ at + Len(u) <= RequestSize
      /\ f = socket_fd => at + Len(u) = sent /\ cpc # "idle"
      /\ Follows(Tail(u), t, at + 1)
      /\ spc = "recvHeader" => Follows(buf, t, 0)
      /\ spc = "recvPayload" => Follows(buf, t, HeaderSize)
  BY <1>0, <1>1, ReadsRequest
<1>3. /\ at \in Nat /\ Len(u) \in Nat /\ Len(u) > 0 /\ Len(Tail(u)) = Len(u) - 1
      /\ at + Len(u) <= RequestSize
      /\ f = socket_fd => at + Len(u) = sent
  BY <1>2
<1>4. CASE refused
  <2>1. link[f].down = << >>
    BY <1>2 DEF Tracks, DownInv
  <2> QED BY <1>0, <1>1, <1>4, <2>1, DisconnectStep
<1> USE LinkConstants DEF LinkTypes, Tracks, clientVars
<1>5. /\ buf \in Seq(Units) /\ Len(sbuf) \in Nat /\ Len(buf) = Len(sbuf) + 1
      /\ spc = "recvHeader" => at = Len(sbuf)
      /\ spc = "recvPayload" => at = HeaderSize + Len(sbuf)
  <2>1. buf \in Seq(Units) /\ Len(sbuf) \in Nat /\ Len(buf) = Len(sbuf) + 1
    BY <1>0, <1>2, AppendUnit
  <2> QED BY <1>0, <2>1 DEF taken
<1>6. ASSUME take
      PROVE  /\ link' \in [Links -> Ends] /\ DOMAIN link' = Links
             /\ \A l \in Links : InBuffer(link'[l])
             /\ link'[f].up = Tail(u)
             /\ \A l \in Links : /\ l # f => link'[l] = link[l]
                                 /\ link'[l].down = link[l].down
                                 /\ link'[l].state = link[l].state
                                 /\ link'[l].client <=> link[l].client
                                 /\ link'[l].server <=> link[l].server
                                 /\ link'[l].broken <=> link[l].broken
  <2>1. Len(Tail(u)) <= SocketBuffer
    <3>1. Len(u) <= SocketBuffer
      BY <1>0, <1>2, LinksInBuffer DEF InBuffer
    <3> QED BY <1>3, <3>1
  <2> QED BY <1>2, <1>6, <2>1, UpChanges
<1>7. ASSUME take, client_fd' = client_fd, handed' = handed, taken(f)' = at + 1,
             spc' = spc \/ spc' = "recvPayload"
      PROVE  NetInv(of)' /\ CallInv(of)' /\ UpInv(of)' /\ DownInv(of)' /\ ClientInv(of)'
  <2>1. NetInv(of)'
    <3>1. \A l \in Links : /\ link'[l].state = link[l].state
                           /\ link'[l].client <=> link[l].client
                           /\ link'[l].server <=> link[l].server
      BY <1>6, <1>7
    <3> QED BY <1>1, <1>7, <3>1 DEF NetInv
  <2>2. CallInv(of)'
    BY <1>1, <1>7 DEF CallInv, isValidResult
  <2>3. UpInv(of)'
    <3>1. Pending(of, f)'
      BY <1>2, <1>6, <1>7 DEF Pending
    <3>2. /\ taken(f)' + Len(link'[f].up) = at + Len(u)
      <4>1. Len(link'[f].up) = Len(u) - 1
        BY <1>3, <1>6, <1>7
      <4>2. PICK k \in Nat : k = Len(u)
        BY <1>3
      <4>3. (at + 1) + (k - 1) = at + k
        BY <1>3
      <4> QED BY <1>7, <4>1, <4>2, <4>3
    <3>3. /\ taken(f)' + Len(link'[f].up) <= RequestSize
          /\ f = socket_fd' => taken(f)' + Len(link'[f].up) = sent'
      BY <1>1, <1>3, <3>2
    <3>4. Follows(link'[f].up, requestUnits(of[f]), taken(f)')
      BY <1>0, <1>2, <1>6, <1>7
    <3>5. ASSUME NEW l \in Links, l # f
          PROVE  /\ taken(l)' = taken(l) /\ link'[l].up = link[l].up
                 /\ Pending(of, l)' <=> Pending(of, l)
      BY <1>0, <1>6, <1>7, <3>5 DEF taken, Pending
    <3> QED BY <1>1, <3>1, <3>3, <3>4, <3>5 DEF UpInv
  <2>4. DownInv(of)'
    <3>1. \A l \in Links : ~Replying(of, l) /\ ~Replying(of, l)'
      BY <1>0, <1>1, <1>2, <1>7 DEF Replying
    <3> QED BY <1>6, <1>7, <3>1 DEF DownInv
  <2>5. ClientInv(of)'
    BY <1>0, <1>1, <1>2, <1>7 DEF ClientInv
  <2> QED BY <2>1, <2>2, <2>3, <2>4, <2>5
<1>8. CASE more
  <2>1. taken(f)' = at + 1
    <3>1. spc' = spc /\ client_fd' = f /\ Len(sbuf') = Len(sbuf) + 1
      BY <1>0, <1>5, <1>8
    <3> QED BY <1>0, <1>1, <1>5, <3>1 DEF taken
  <2>2. NetInv(of)' /\ CallInv(of)' /\ UpInv(of)' /\ DownInv(of)' /\ ClientInv(of)'
    BY <1>7, <1>8, <2>1
  <2>3. ServerInv(of)'
    <3>1. client_fd' = f /\ client_fd = f /\ of[f] = n /\ n # 0 /\ n \notin handed'
      BY <1>0, <1>2, <1>8
    <3>2. /\ spc = "recvHeader" => Len(sbuf') < HeaderSize /\ Follows(sbuf', requestUnits(n), 0)
          /\ spc = "recvPayload" =>
               Len(sbuf') < PayloadSize /\ Follows(sbuf', requestUnits(n), HeaderSize)
      BY <1>0, <1>2, <1>8
    <3>3. UNCHANGED <<spc, request, server_version>>
      BY <1>1, <1>8
    <3> QED BY <1>1, <3>1, <3>2, <3>3 DEF ServerInv
  <2>4. TypeOK'
    BY <1>1, <1>6, <1>8 DEF TypeOK, InBuffer
  <2> QED BY <1>1, <1>5, <1>6, <1>8, <2>2, <2>3, <2>4
<1>9. CASE header
  <2>1. taken(f)' = at + 1
    <3>1. spc' = "recvPayload" /\ client_fd' = f /\ Len(sbuf') = 0
      BY <1>0, <1>9, Nothing
    <3>2. taken(f)' = HeaderSize + 0
      BY <3>1 DEF taken
    <3>3. at = Len(sbuf) /\ Len(sbuf) + 1 = HeaderSize
      BY <1>5, <1>9
    <3> QED BY <3>2, <3>3
  <2>2. NetInv(of)' /\ CallInv(of)' /\ UpInv(of)' /\ DownInv(of)' /\ ClientInv(of)'
    BY <1>7, <1>9, <2>1
  <2>3. head.roi = n /\ server_version = ClientVersion
    BY <1>0, <1>2, <1>5, <1>9, ValidHeader
  <2>4. ServerInv(of)'
    <3>1. /\ client_fd' = f /\ client_fd = f /\ of[f] = n /\ n # 0 /\ n \notin handed'
          /\ spc' = "recvPayload" /\ request'.roi = n /\ server_version' = ClientVersion
      BY <1>0, <1>1, <1>2, <1>9, <2>3
    <3>2. sbuf' = << >> /\ Len(sbuf') < PayloadSize
      BY <1>9, Nothing
    <3>3. client_fd # NoLink
      BY <1>1 DEF ServerInv
    <3> QED BY <3>1, <3>2, <3>3, FollowsNothing DEF ServerInv
  <2>5. TypeOK'
    BY <1>1, <1>6, <1>9 DEF TypeOK, InBuffer
  <2>6. request' \in [roi : Nat, payload : Nat \cup Results \cup Headers \cup {Garbage}]
    BY <1>2, <1>9, <2>3
  <2> QED BY <1>1, <1>6, <1>9, <2>2, <2>4, <2>5, <2>6, Nothing
<1>10. CASE payload
  <2>1. request.roi = n /\ server_version = ClientVersion /\ n # 0
    BY <1>0, <1>10 DEF ServerInv
  <2>2. decode("payload", PayloadSize, buf) = n
    BY <1>0, <1>2, <1>5, <1>10, WholePayload
  <2>3. /\ handed' = handed \cup {n} /\ n \in handed' /\ client_fd' = f
        /\ request' \in [roi : Nat, payload : Nat \cup Results \cup Headers \cup {Garbage}]
        /\ request'.roi = n /\ request'.payload = n
    BY <1>0, <1>2, <1>10, <2>1, <2>2
  <2>4. at + 1 = RequestSize
    <3>1. at = HeaderSize + Len(sbuf) /\ Len(sbuf) + 1 = PayloadSize
      BY <1>5, <1>10
    <3>2. RequestSize = HeaderSize + PayloadSize
      BY DEF RequestSize
    <3> HIDE DEF LinkTypes, Tracks
    <3> QED BY <1>5, <3>1, <3>2
  <2>5. Len(u) = 1
    <3>1. PICK a \in Nat, k \in Nat : a = at /\ k = Len(u)
      BY <1>3
    <3>2. a + 1 = RequestSize /\ a + k <= RequestSize /\ k > 0
      BY <1>3, <2>4, <3>1
    <3> QED BY <3>1, <3>2
  <2>6. f = socket_fd => sent = RequestSize
    BY <1>3, <2>4, <2>5
  <2>7. Tail(u) = << >>
    <3>1. Tail(u) \in Seq(Units) /\ Len(Tail(u)) = 0
      BY <1>2, <1>3, <2>5
    <3> QED BY <3>1, EmptySeq
  <2>8. \A l \in Links : l # f => of[l] # n
    BY <1>0, <1>2, <2>1 DEF CallInv
  <2>9. TypeOK'
    <3>1. handed' \subseteq 1 .. calls'
      BY <1>1, <1>2, <2>3 DEF TypeOK
    <3> QED BY <1>1, <1>6, <1>10, <3>1 DEF TypeOK, InBuffer
  <2>10. NetInv(of)'
    <3>1. \A l \in Links : /\ link'[l].state = link[l].state
                           /\ link'[l].client <=> link[l].client
                           /\ link'[l].server <=> link[l].server
      BY <1>6, <1>10
    <3>2. link[f].state = "open"
      BY <1>0, <1>2 DEF NetInv
    <3> QED BY <1>0, <1>1, <2>3, <2>8, <3>1, <3>2, SMTT(30) DEF NetInv
  <2>11. CallInv(of)'
    BY <1>1, <2>3 DEF CallInv, isValidResult
  <2>12. UpInv(of)'
    <3>1. ~Pending(of, f)' /\ link'[f].up = << >>
      BY <1>0, <1>6, <1>10, <2>3, <2>7 DEF Pending
    <3>2. ASSUME NEW l \in Links, l # f
          PROVE  /\ taken(l)' = taken(l) /\ link'[l].up = link[l].up
                 /\ Pending(of, l)' <=> Pending(of, l)
      BY <1>0, <1>6, <1>10, <2>3, <2>8, <3>2 DEF taken, Pending
    <3> QED BY <1>1, <3>1, <3>2 DEF UpInv
  <2>13. DownInv(of)'
    <3>1. \A l \in Links : ~Replying(of, l) /\ ~Replying(of, l)'
      BY <1>0, <1>2, <1>10, <2>3 DEF Replying
    <3> QED BY <1>6, <1>10, <3>1 DEF DownInv
  <2>14. ServerInv(of)'
    <3>1. answers'[n] = NoResult
      <4>1. n \in 1 .. MaxCalls
        BY <1>2
      <4> QED BY <1>1, <1>2, <4>1 DEF CallInv
    <3> QED BY <1>0, <1>1, <1>2, <1>10, <2>1, <2>3, <3>1 DEF ServerInv
  <2>15. ClientInv(of)'
    <3>1. cpc = "send" => calls # n
      <4>1. SUFFICES ASSUME cpc = "send", calls = n PROVE FALSE
        OBVIOUS
      <4>2. socket_fd \in Links /\ of[socket_fd] = n /\ sent < RequestSize /\ sent \in Nat
        BY <4>1 DEF ClientInv, TypeOK
      <4>3. socket_fd = f
        BY <2>8, <4>2
      <4> QED BY <2>6, <4>2, <4>3
    <3> QED BY <1>0, <1>1, <1>2, <1>10, <2>3, <3>1 DEF ClientInv
  <2> QED BY <1>1, <1>6, <1>10, <2>3, <2>9, <2>10, <2>11, <2>12, <2>13, <2>14, <2>15, Nothing
<1> QED BY <1>1, <1>4, <1>8, <1>9, <1>10

LEMMA ServerClassifyStep ==
    ASSUME LinkTypes, NEW of \in [Links -> 0 .. MaxCalls], Tracks(of), serverClassify
    PROVE  LinkTypes' /\ Tracks(of)'
<1>1. PICK result \in Results :
        /\ answers' = [answers EXCEPT ![request.roi] = result]
        /\ \/ serverDisconnect
           \/ /\ answer' = reply(server_version, request.roi, result)
              /\ spc' = "send" /\ UNCHANGED <<client_fd, sbuf, request, link>>
  BY ResponseIsReply DEF serverClassify
<1>2. /\ spc = "classify"
      /\ UNCHANGED <<server_version, clientVars, breaks, calls, active, handed, returned>>
  BY DEF serverClassify
<1>0. PICK f, n : f = client_fd /\ n = of[f]
  OBVIOUS
<1>3. /\ answers' \in [1 .. MaxCalls -> Results \cup {NoResult}] /\ CallInv(of)'
      /\ f \in Links /\ n \in 1 .. MaxCalls /\ answers'[n] = result
      /\ cpc = "recvHeader" =>
           Follows(cbuf, reply(server_version, calls, answers'[calls]), 0)
      /\ cpc = "recvResult" =>
           Follows(cbuf, reply(server_version, calls, answers'[calls]), HeaderSize)
      /\ cbuf # << >> \/ cpc = "recvResult" => answers'[calls] \in Results
      /\ calls = n => cbuf = << >> /\ cpc # "recvResult"
  BY <1>0, <1>1, <1>2, AnswerKeeps
<1>4. link[f].down = << >> /\ ~Replying(of, f)
  BY <1>0, <1>2, <1>3 DEF Tracks, DownInv, Replying
<1>5. CASE serverDisconnect
  BY <1>0, <1>1, <1>2, <1>4, <1>5, DisconnectStep
<1>6. CASE /\ answer' = reply(server_version, request.roi, result)
           /\ spc' = "send" /\ UNCHANGED <<client_fd, sbuf, request, link>>
  <2> USE LinkConstants DEF LinkTypes, Tracks, clientVars
  <2>1. /\ request.roi = n /\ request.payload = n /\ n \in handed /\ sbuf = << >>
        /\ server_version = ClientVersion /\ client_fd # NoLink
    BY <1>0, <1>2 DEF ServerInv
  <2>2. answer' \in Seq(Units) /\ Len(answer') = ResponseSize
    <3>1. server_version \in ServerVersions /\ n \in Nat
      BY <1>3 DEF TypeOK
    <3> QED BY <1>1, <1>6, <2>1, <3>1, ReplyAt
  <2>3. TypeOK'
    BY <1>2, <1>3, <1>6 DEF TypeOK
  <2>4. NetInv(of)'
    BY <1>2, <1>6 DEF NetInv
  <2>5. UpInv(of)'
    <3>1. \A l \in Links : taken(l)' = taken(l) /\ (Pending(of, l)' <=> Pending(of, l))
      BY <1>2, <1>6 DEF taken, Pending
    <3> QED BY <1>2, <1>6, <3>1 DEF UpInv
  <2>6. DownInv(of)'
    <3>1. \A l \in Links : l # f => ~Replying(of, l) /\ ~Replying(of, l)'
      BY <1>0, <1>6 DEF Replying
    <3>2. ASSUME Replying(of, f)'
          PROVE  /\ answers'[of[f]] \in Results
                 /\ got' + Len(link'[f].down) + toSend' = ResponseSize
      <4>1. f = socket_fd /\ cpc # "idle" /\ n = calls
        BY <1>0, <1>2, <3>2 DEF Replying, ClientInv
      <4>2. got' = 0 /\ toSend' = ResponseSize /\ Len(link'[f].down) = 0
        <5>1. Len(cbuf') = 0 /\ cpc' # "recvResult"
          BY <1>2, <1>3, <4>1, Nothing
        <5>2. toSend' = ResponseSize
          BY <1>6, <2>2 DEF toSend
        <5>3. link'[f].down = << >>
          BY <1>4, <1>6
        <5> QED BY <5>1, <5>2, <5>3, Nothing DEF got
      <4>3. 0 + 0 + ResponseSize = ResponseSize
        OBVIOUS
      <4> QED BY <1>0, <1>3, <4>2, <4>3
    <3>3. link'[f].down = << >>
      BY <1>4, <1>6
    <3> QED BY <1>6, <3>1, <3>2, <3>3, FollowsNothing DEF DownInv
  <2>7. ServerInv(of)'
    <3>1. /\ client_fd' = f /\ of[f] = n /\ spc' = "send" /\ n \in handed'
          /\ request'.roi = n /\ request'.payload = n /\ server_version' = ClientVersion
          /\ sbuf' = << >> /\ answers'[n] = result /\ f # NoLink
      BY <1>0, <1>2, <1>3, <1>6, <2>1
    <3>2. Len(answer') \in 1 .. ResponseSize
      <4>1. ResponseSize > 0
        BY DEF ResponseSize
      <4> QED BY <2>2, <4>1
    <3>3. ResponseSize - Len(answer') = 0
      BY <2>2
    <3>4. Follows(answer', reply(server_version', n, result), 0)
      BY <1>2, <1>6, <2>1, <2>2 DEF Follows
    <3> QED BY <3>1, <3>2, <3>3, <3>4 DEF ServerInv
  <2>8. ClientInv(of)'
    <3>1. cpc = "idle" /\ socket_fd # NoLink => client_fd # socket_fd
      BY <1>2 DEF ClientInv
    <3> QED BY <1>2, <1>3, <1>6, <3>1 DEF ClientInv
  <2> QED BY <1>2, <1>3, <1>6, <2>2, <2>3, <2>4, <2>5, <2>6, <2>7, <2>8
<1> QED BY <1>1, <1>5, <1>6

LEMMA ServerSendStep ==
    ASSUME LinkTypes, NEW of \in [Links -> 0 .. MaxCalls], Tracks(of), serverSend
    PROVE  LinkTypes' /\ Tracks(of)'
<1> USE LinkConstants DEF LinkTypes, Tracks
<1>0. PICK f, n, t, u : /\ f = client_fd /\ n = of[f] /\ u = Head(answer)
                        /\ t = reply(server_version, n, answers[n])
  OBVIOUS
<1>1. /\ spc = "send" /\ ~link[f].broken /\ answer' = Tail(answer)
      /\ link[f].client => /\ Len(link[f].down) < SocketBuffer
                           /\ link' = [link EXCEPT ![f].down = Append(link[f].down, u)]
      /\ ~link[f].client => link' = link
      /\ spc' = IF Len(answer) = 1 THEN "recvHeader" ELSE "send"
      /\ UNCHANGED <<server_version, client_fd, sbuf, request, clientVars, breaks,
                     exchangeVars>>
  BY <1>0 DEF serverSend
<1>2. /\ f \in Links /\ f # NoLink /\ n \in handed /\ answers[n] \in Results
      /\ request.roi = n /\ request.payload = n /\ server_version = ClientVersion
      /\ sbuf = << >> /\ answer \in Seq(Units)
      /\ Len(answer) \in 1 .. ResponseSize
      /\ Follows(answer, t, ResponseSize - Len(answer))
  BY <1>0, <1>1 DEF ServerInv, TypeOK
<1>3. PICK a \in Nat, k \in Nat : /\ k = Len(answer) /\ a = ResponseSize - Len(answer)
                                  /\ a + k = ResponseSize /\ k >= 1
  <2> HIDE DEF LinkTypes, Tracks
  <2>1. PICK k \in Nat : k = Len(answer) /\ k >= 1 /\ k <= ResponseSize
    BY <1>2
  <2>2. ResponseSize - k \in Nat /\ (ResponseSize - k) + k = ResponseSize
    BY <2>1
  <2> QED BY <2>1, <2>2
<1>4. /\ answer # << >> /\ u \in Units /\ u = t[a + 1] /\ Tail(answer) \in Seq(Units)
      /\ Len(Tail(answer)) = k - 1 /\ Follows(Tail(answer), t, a + 1)
  <2>1. answer # << >>
    BY <1>2, <1>3, Nothing
  <2>2. Follows(answer, t, a)
    BY <1>2, <1>3
  <2> QED BY <1>0, <1>2, <1>3, <2>1, <2>2, TailUnit, FollowsTail
<1>5. link[f].client => Replying(of, f)
  BY <1>0, <1>1, <1>2 DEF NetInv, Replying, ClientInv
<1>6. Replying(of, f) => /\ link[f].client
                         /\ got + Len(link[f].down) + k = ResponseSize
                         /\ Follows(link[f].down, t, got)
  BY <1>0, <1>1, <1>2, <1>3 DEF DownInv, Replying, NetInv, toSend
<1>7. link[f].down \in Seq(Units) /\ Len(link[f].down) \in Nat
  BY <1>2, LinksInBuffer DEF Ends
<1>8. /\ link' \in [Links -> Ends] /\ DOMAIN link' = Links
      /\ \A l \in Links : InBuffer(link'[l])
      /\ link[f].client => link'[f].down = Append(link[f].down, u)
      /\ ~link[f].client => link'[f].down = link[f].down
      /\ \A l \in Links : /\ l # f => link'[l] = link[l]
                          /\ link'[l].up = link[l].up
                          /\ link'[l].state = link[l].state
                          /\ link'[l].client <=> link[l].client
                          /\ link'[l].server <=> link[l].server
                          /\ link'[l].broken <=> link[l].broken
  <2>1. CASE ~link[f].client
    BY <1>1, <2>1, LinksInBuffer DEF TypeOK
  <2>2. CASE link[f].client
    <3>1. /\ Append(link[f].down, u) \in Seq(Units)
          /\ Len(Append(link[f].down, u)) = Len(link[f].down) + 1
      BY <1>4, <1>7, AppendUnit
    <3>2. Len(Append(link[f].down, u)) <= SocketBuffer
      <4>1. Len(link[f].down) < SocketBuffer
        BY <1>1, <2>2
      <4> HIDE DEF LinkTypes, Tracks
      <4> QED BY <1>7, <3>1, <4>1
    <3> QED BY <1>1, <1>2, <2>2, <3>1, <3>2, DownChanges
  <2> QED BY <2>1, <2>2
<1> USE DEF clientVars, exchangeVars
<1>9. spc' \in {"recvHeader", "send"} /\ (spc' = "send" => k > 1) /\ (spc' # "send" => k = 1)
  <2>1. spc' = IF k = 1 THEN "recvHeader" ELSE "send"
    BY <1>1, <1>3
  <2>2. k >= 1
    BY <1>3
  <2> HIDE DEF LinkTypes, Tracks
  <2> QED BY <2>1, <2>2
<1>10. TypeOK'
  BY <1>1, <1>8, <1>9 DEF TypeOK, InBuffer
<1>11. NetInv(of)'
  <2>1. \A l \in Links : /\ link'[l].state = link[l].state
                         /\ link'[l].client <=> link[l].client
                         /\ link'[l].server <=> link[l].server
    BY <1>8
  <2> QED BY <1>1, <2>1 DEF NetInv
<1>12. CallInv(of)'
  BY <1>1 DEF CallInv, isValidResult
<1>13. UpInv(of)'
  <2>1. \A l \in Links : /\ taken(l)' = taken(l) /\ link'[l].up = link[l].up
                         /\ Pending(of, l)' <=> Pending(of, l)
    BY <1>1, <1>8, <1>9 DEF taken, Pending
  <2> QED BY <1>1, <2>1 DEF UpInv
<1>14. DownInv(of)'
  <2>1. \A l \in Links : l # f => ~Replying(of, l) /\ ~Replying(of, l)'
    BY <1>0, <1>1 DEF Replying
  <2>2. Replying(of, f)' <=> Replying(of, f)
    BY <1>1, <1>8, <1>9, SMTT(30) DEF Replying
  <2>3. CASE ~Replying(of, f)
    <3>1. link'[f].down = << >>
      BY <1>2, <1>5, <1>8, <2>3 DEF DownInv
    <3> QED BY <1>8, <2>1, <2>2, <2>3, <3>1 DEF DownInv
  <2>4. CASE Replying(of, f)
    <3>1. got' = got /\ got \in Nat /\ toSend' = k - 1
      <4>1. Len(cbuf) \in Nat
        OBVIOUS
      <4>2. toSend' = k - 1
        <5>1. Len(answer') = k - 1
          BY <1>1, <1>4
        <5>2. spc' # "send" => k - 1 = 0
          BY <1>9
        <5> QED BY <5>1, <5>2 DEF toSend
      <4> QED BY <1>1, <4>1, <4>2, SMTT(30) DEF got
    <3>2. PICK g \in Nat, s \in Seq(Units) : g = got /\ s = link[f].down
      BY <1>7, <3>1
    <3>3. /\ Len(s) \in Nat /\ g + Len(s) + k = ResponseSize /\ Follows(s, t, g)
          /\ link'[f].down = Append(s, u)
      BY <1>6, <1>7, <1>8, <2>4, <3>2
    <3>4. PICK j \in Nat : j = Len(s)
      BY <3>3
    <3>5. g + j + k = ResponseSize
      BY <3>3, <3>4
    <3>6. a = g + j /\ g + (j + 1) + (k - 1) = ResponseSize
      <4>1. a + k = ResponseSize
        BY <1>3
      <4> HIDE DEF LinkTypes, Tracks
      <4> QED BY <3>5, <4>1
    <3>7. u = t[g + Len(s) + 1]
      BY <1>4, <3>4, <3>6
    <3>8. Follows(Append(s, u), t, g) /\ Len(Append(s, u)) = j + 1
      BY <1>4, <3>3, <3>4, <3>7, FollowsAppend, AppendUnit
    <3>9. got' + Len(link'[f].down) + toSend' = ResponseSize
      BY <3>1, <3>2, <3>3, <3>6, <3>8
    <3>10. /\ Follows(link'[f].down, reply(server_version', of[f], answers'[of[f]]), got')
           /\ answers'[of[f]] \in Results
      BY <1>0, <1>1, <1>2, <3>1, <3>2, <3>3, <3>8
    <3> QED BY <1>8, <2>1, <2>2, <2>4, <3>9, <3>10 DEF DownInv
  <2> QED BY <2>3, <2>4
<1>15. ServerInv(of)'
  <2>1. /\ client_fd' = f /\ of[f] = n /\ n \in handed' /\ f # NoLink /\ sbuf' = << >>
        /\ request'.roi = n /\ request'.payload = n /\ server_version' = ClientVersion
        /\ answers'[n] \in Results
    BY <1>0, <1>1, <1>2
  <2>2. Len(answer') = k - 1 /\ ResponseSize - (k - 1) = a + 1
    BY <1>1, <1>3, <1>4
  <2>3. spc' = "send" => Len(answer') \in 1 .. ResponseSize
    BY <1>3, <1>9, <2>2
  <2>4. Follows(answer', reply(server_version', n, answers'[n]), ResponseSize - Len(answer'))
    BY <1>0, <1>1, <1>4, <2>2
  <2> QED BY <1>9, <2>1, <2>3, <2>4, Nothing, FollowsNothing DEF ServerInv
<1>16. ClientInv(of)'
  <2>1. cpc = "idle" /\ socket_fd # NoLink => client_fd # socket_fd
    BY <1>1 DEF ClientInv
  <2> QED BY <1>1, <2>1 DEF ClientInv
<1> QED BY <1>1, <1>4, <1>8, <1>10, <1>11, <1>12, <1>13, <1>14, <1>15, <1>16

-----------------------------------------------------------------------------
LEMMA LinkInitInv == Init => LinkInv
<1> SUFFICES ASSUME Init PROVE LinkInv
  OBVIOUS
<1> USE LinkConstants DEF Init
<1>1. PICK of : of = [l \in Links |-> 0]
  OBVIOUS
<1>2. of \in [Links -> 0 .. MaxCalls] /\ \A l \in Links : of[l] = 0
  BY <1>1
<1>3. /\ NewLink \in Ends /\ NewLink.up = << >> /\ NewLink.down = << >>
      /\ ~NewLink.client /\ ~NewLink.server /\ NewLink.state = "none"
  BY Nothing DEF NewLink, Ends
<1>4. link \in [Links -> Ends] /\ \A l \in Links : link[l] = NewLink
  BY <1>3
<1>5. TypeOK
  <2>1. \A l \in Links : Len(link[l].up) <= SocketBuffer /\ Len(link[l].down) <= SocketBuffer
    BY <1>3, <1>4, Nothing
  <2>2. breaks \in 0 .. MaxBreaks /\ sent \in 0 .. HeaderSize + PayloadSize
    BY LinkAssumption
  <2> QED BY <2>1, <2>2 DEF TypeOK
<1>6. LinkTypes
  BY <1>4, <1>5, Nothing DEF LinkTypes
<1>7. NetInv(of)
  BY <1>2, <1>3, <1>4 DEF NetInv
<1>8. CallInv(of)
  BY <1>2 DEF CallInv
<1>9. UpInv(of) /\ DownInv(of)
  BY <1>2, <1>3, <1>4 DEF UpInv, Pending, DownInv, Replying
<1>10. ServerInv(of) /\ ClientInv(of)
  BY DEF ServerInv, ClientInv
<1> QED BY <1>2, <1>6, <1>7, <1>8, <1>9, <1>10 DEF LinkInv, Tracks

LEMMA StutterStep ==
    ASSUME LinkTypes, NEW of \in [Links -> 0 .. MaxCalls], Tracks(of), UNCHANGED vars
    PROVE  LinkTypes' /\ Tracks(of)'
<1> USE DEF vars, clientVars, serverVars, exchangeVars, Tracks
<1>1. LinkTypes'
  BY DEF LinkTypes, TypeOK
<1>2. NetInv(of)' /\ CallInv(of)'
  BY DEF NetInv, CallInv, isValidResult
<1>3. UpInv(of)' /\ DownInv(of)'
  BY DEF UpInv, Pending, taken, DownInv, Replying, got, toSend
<1>4. ServerInv(of)' /\ ClientInv(of)'
  BY DEF ServerInv, ClientInv
<1> QED BY <1>1, <1>2, <1>3, <1>4

LEMMA LinkInvStep ==
    ASSUME LinkInv, [Next]_vars
    PROVE  LinkInv'
<1>1. PICK of \in [Links -> 0 .. MaxCalls] : Tracks(of)
  BY DEF LinkInv
<1> USE <1>1 DEF LinkInv
<1>2. CASE connectToServer
  BY <1>2, ConnectStep
<1>3. CASE classify
  BY <1>3, ClassifyStep
<1>4. CASE sendAll
  BY <1>4, SendStep
<1>5. CASE receiveAll
  BY <1>5, ReceiveStep
<1>6. CASE clientTransferFails \/ clientRestarts
  <2>1. /\ socket_fd # NoLink /\ abandonCall
        /\ UNCHANGED <<serverVars, breaks, calls, handed, answers>>
    BY <1>6 DEF clientTransferFails, clientRestarts, Tracks, ClientInv
  <2> QED BY <2>1, AbandonStep
<1>7. CASE serverAccept
  BY <1>7, AcceptStep
<1>8. CASE serverReceive
  BY <1>8, ServerReceiveStep
<1>9. CASE serverClassify
  BY <1>9, ServerClassifyStep
<1>10. CASE serverSend
  BY <1>10, ServerSendStep
<1>11. CASE serverTransferFails
  BY <1>11, ServerFailsStep
<1>12. CASE \E l \in Links : Break(l)
  BY <1>12, BreakStep
<1>13. CASE UNCHANGED vars
  BY <1>13, StutterStep
<1> QED BY <1>2, <1>3, <1>4, <1>5, <1>6, <1>7, <1>8, <1>9, <1>10, <1>11, <1>12, <1>13
        DEF Next, Client, Server

LEMMA LinkInvariant == Spec => []LinkInv
<1>1. LinkInv /\ [Next]_vars => LinkInv'
  BY LinkInvStep
<1> QED BY <1>1, LinkInitInv, PTL DEF Spec

(* Between two calls the connection holds nothing of an earlier one, and   *)
(* the server is at the start of a request (InSync): a later call never    *)
(* reads the rest of an earlier reply.                                     *)
THEOREM LinkInSync == Spec => []InSync
<1>1. ASSUME LinkInv PROVE InSync
  <2>1. PICK of \in [Links -> 0 .. MaxCalls] : Tracks(of)
    BY <1>1 DEF LinkInv
  <2> USE <1>1, <2>1 DEF LinkInv, LinkTypes, Tracks
  <2>2. SUFFICES ASSUME cpc = "idle", socket_fd # NoLink
                 PROVE  /\ link[socket_fd].up = << >> /\ link[socket_fd].down = << >>
                        /\ client_fd = socket_fd => spc = "recvHeader" /\ sbuf = << >>
    BY DEF InSync
  <2>3. socket_fd \in Links /\ (of[socket_fd] = 0 \/ of[socket_fd] \in handed)
    BY <2>2 DEF TypeOK, ClientInv
  <2>4. link[socket_fd].up = << >>
    BY <2>3 DEF UpInv, Pending
  <2>5. link[socket_fd].down = << >>
    BY <2>2, <2>3 DEF DownInv, Replying
  <2>6. client_fd = socket_fd => spc = "recvHeader" /\ sbuf = << >>
    BY <2>2, <2>3 DEF ClientInv, ServerInv
  <2> QED BY <2>4, <2>5, <2>6
<1> QED BY <1>1, LinkInvariant, PTL

(* The PS classifies only whole requests, box and image of the same ROI,   *)
(* of its own protocol version, and the Jetson's callers get only results  *)
(* that keep the contract of roi_protocol.h (OnlyWhole).                   *)
THEOREM LinkOnlyWhole == Spec => []OnlyWhole
<1>1. ASSUME LinkInv PROVE OnlyWhole
  <2>1. PICK of \in [Links -> 0 .. MaxCalls] : Tracks(of)
    BY <1>1 DEF LinkInv
  <2> USE <1>1, <2>1 DEF LinkInv, LinkTypes, Tracks
  <2>2. spc \in {"classify", "send"} =>
          request.payload = request.roi /\ server_version = ClientVersion
    BY DEF ServerInv
  <2>3. ASSUME NEW r \in 1 .. MaxCalls, returned[r] # NoResult
        PROVE  /\ returned[r].has_class = (returned[r].status = 0)
               /\ returned[r].confidence_ppm <=
                    (IF returned[r].has_class THEN ppm_max ELSE 0)
    <3>1. returned[r] \in Results /\ isValidResult(returned[r])
      BY <2>3 DEF CallInv
    <3>2. /\ returned[r].status \in Nat /\ returned[r].has_class \in BOOLEAN
          /\ returned[r].confidence_ppm \in Nat
      BY <3>1, LinkAssumption
    <3>3. returned[r].has_class <=> returned[r].status = 0
      BY <3>1 DEF isValidResult
    <3>4. returned[r].confidence_ppm <= (IF returned[r].has_class THEN ppm_max ELSE 0)
      BY <3>1, <3>2 DEF isValidResult
    <3> QED BY <3>2, <3>3, <3>4
  <2> QED BY <2>2, <2>3 DEF OnlyWhole
<1> QED BY <1>1, LinkInvariant, PTL

(* The link implements RoiExchange (KeepsExchange): every request is       *)
(* handed over at most once and whole, and a call returns only the result  *)
(* the PS computed for it.                                                 *)
THEOREM LinkKeepsExchange == Spec => KeepsExchange
<1>1. Init => Exchange!ExchangeInit
  BY DEF Init, Exchange!ExchangeInit
<1>2. ASSUME LinkInv, [Next]_vars PROVE [Exchange!ExchangeNext]_(Exchange!exchangeVars)
  <2>1. PICK of \in [Links -> 0 .. MaxCalls] : Tracks(of)
    BY <1>2 DEF LinkInv
  <2> USE LinkConstants DEF Exchange!ExchangeNext, Exchange!exchangeVars
  <2>2. LinkTypes /\ calls \in 0 .. MaxCalls
    BY <1>2 DEF LinkInv, LinkTypes
  <2>3. (cpc # "idle" => active) /\ (cpc = "idle" => active = FALSE)
    BY <2>1 DEF Tracks, ClientInv
  <2>4. CASE classify
    BY <2>3, <2>4 DEF classify, Exchange!Begin
  <2>5. ASSUME abandonCall, UNCHANGED <<calls, handed, answers>>
        PROVE  Exchange!Fail \/ UNCHANGED exchangeVars
    <3>1. active' = FALSE /\ returned' = returned
      BY <2>5 DEF abandonCall
    <3>2. CASE cpc = "idle"
      BY <2>3, <2>5, <3>1, <3>2 DEF exchangeVars
    <3>3. CASE cpc # "idle"
      BY <2>3, <2>5, <3>1, <3>3 DEF Exchange!Fail
    <3> QED BY <3>2, <3>3
  <2>6. CASE clientTransferFails \/ clientRestarts
    BY <2>5, <2>6 DEF clientTransferFails, clientRestarts, exchangeVars
  <2>7. CASE receiveAll
    <3>1. UNCHANGED <<calls, handed, answers>>
      BY <2>7 DEF receiveAll
    <3>2. CASE abandonCall
      BY <2>5, <3>1, <3>2 DEF exchangeVars
    <3>3. CASE UNCHANGED <<active, returned>>
      BY <3>1, <3>3
    <3>4. CASE ~abandonCall /\ ~UNCHANGED <<active, returned>>
      <4>1. PICK buf : /\ buf = Append(cbuf, Head(link[socket_fd].down))
                       /\ Len(buf) = ResultSize /\ cpc = "recvResult" /\ active' = FALSE
                       /\ returned' = [returned EXCEPT ![calls] = buf[1].body]
        BY <2>7, <3>4 DEF receiveAll
      <4>2. /\ answers[calls] \in Results /\ calls \in 1 .. MaxCalls
            /\ Follows(buf, reply(server_version, calls, answers[calls]), HeaderSize)
        BY <2>1, <2>2, <2>7, <4>1, ReadsOwnReply DEF receiveAll
      <4>3. buf[1].body = reply(server_version, calls, answers[calls])[HeaderSize + 1].body
        BY <4>1, <4>2 DEF Follows
      <4>4. buf[1].body = answers[calls]
        <5>1. server_version \in ServerVersions /\ calls \in Nat
          BY <2>2, <4>2 DEF LinkTypes, TypeOK
        <5> QED BY <4>2, <4>3, <5>1, ReplyAt
      <4>5. answers[calls] # NoResult /\ active
        BY <2>3, <4>1, <4>2, LinkAssumption
      <4> QED BY <3>1, <4>1, <4>4, <4>5 DEF Exchange!Return
    <3> QED BY <3>2, <3>3, <3>4
  <2>8. CASE serverReceive
    <3>1. UNCHANGED <<calls, active, answers, returned>>
      BY <2>8 DEF serverReceive
    <3>2. CASE handed' = handed
      BY <3>1, <3>2
    <3>3. CASE handed' # handed
      <4>1. spc = "recvPayload" /\ handed' = handed \cup {request.roi}
        BY <2>8, <3>3 DEF serverReceive
      <4>2. request.roi = of[client_fd]
        BY <2>1, <4>1 DEF Tracks, ServerInv
      <4>3. request.roi \in 1 .. calls /\ request.roi \notin handed
        BY <2>1, <2>2, <2>8, <4>1, <4>2, ReadsRequest DEF serverReceive
      <4>4. request.roi \in 1 .. MaxCalls
        BY <2>2, <4>3
      <4> QED BY <3>1, <4>1, <4>3, <4>4 DEF Exchange!Hand
    <3> QED BY <3>2, <3>3
  <2>9. CASE serverClassify
    <3>1. request.roi \in handed /\ answers[request.roi] = NoResult
      BY <2>1, <2>9 DEF serverClassify, Tracks, ServerInv
    <3>2. request.roi \in 1 .. MaxCalls
      BY <2>2, <3>1 DEF LinkTypes, TypeOK
    <3>3. /\ \E result \in Results : answers' = [answers EXCEPT ![request.roi] = result]
          /\ UNCHANGED <<calls, active, handed, returned>>
      BY <2>9 DEF serverClassify
    <3> QED BY <3>1, <3>2, <3>3 DEF Exchange!Answer
  <2>10. CASE \/ connectToServer \/ sendAll \/ serverAccept \/ serverSend
              \/ serverTransferFails \/ (\E l \in Links : Break(l)) \/ UNCHANGED vars
    BY <2>10 DEF connectToServer, sendAll, serverAccept, serverSend, serverTransferFails,
                 Break, vars, exchangeVars
  <2> QED BY <1>2, <2>4, <2>6, <2>7, <2>8, <2>9, <2>10 DEF Next, Client, Server
<1> QED BY <1>1, <1>2, LinkInvariant, PTL DEF Spec, KeepsExchange, Exchange!ExchangeSpec
=============================================================================
