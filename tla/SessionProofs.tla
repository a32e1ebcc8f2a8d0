--------------------------- MODULE SessionProofs ---------------------------
(***************************************************************************)
(* Proofs about the upstream handshake of module Proxy, for every value of *)
(* its constants that satisfies ConstAssumption.                           *)
(*   - ReadLoopAuth: the receive thread reaches its read loop only on a    *)
(*     connection the pool has authorised (ReadLoopAuthorised).  auth_     *)
(*     stratum takes the first line that is not a method as the answer,    *)
(*     which may be the pool's answer to a share the send thread wrote on  *)
(*     the new connection; the proof rests on the inductive invariant      *)
(*     SessionInv of module Proxy: a true answer to an authorize or a      *)
(*     share only ever waits in the channel of an authorised connection,   *)
(*     and the one subscribe of a connection, which could take the pool    *)
(*     back to "subscribed", is answered before the handshake goes on.     *)
(***************************************************************************)
EXTENDS ProxyProofs

USE ConstAssumption

(* The parts of SessionInv beyond TypeOK, and the state they read. *)
SessParts ==
    SubscribeUnsent /\ SubscribeAwaited /\ AcceptedMeansAuthed /\ ReadLoopAuthorised
sessState == <<rpc, up_phase, toUp, fromUp>>

(* SessionInv is TypeOK and the handshake parts.                           *)
LEMMA SessSplit == SessionInv <=> TypeOK /\ SessParts
BY Zenon DEF SessionInv, SessParts

(* The same split, in the next state.                                      *)
LEMMA SessSplitPrime == SessionInv' <=> TypeOK' /\ SessParts'
BY Zenon DEF SessionInv, SessParts

(* A step that leaves the handshake state alone keeps its parts. *)
LEMMA SessFrame == ASSUME SessParts, UNCHANGED sessState PROVE SessParts'
BY DEF SessParts, sessState, SubscribeUnsent, SubscribeAwaited, AcceptedMeansAuthed,
       ReadLoopAuthorised

-----------------------------------------------------------------------------
(* The connection helpers.                                                 *)

(* close(cs->fd) empties both channels and keeps the pool's phase; with    *)
(* the receive thread where it was or back at connect, the parts hold.     *)
LEMMA SessClose ==
    ASSUME SessParts, Close, rpc' \in {rpc, "connect"} PROVE SessParts'
BY DEF SessParts, Close, SubscribeUnsent, SubscribeAwaited, AcceptedMeansAuthed,
       ReadLoopAuthorised

(* connect_proxy gives a fresh connection on which subscribe is next.     *)
LEMMA SessOpen == ASSUME OpenConn, rpc' = "sub_send" PROVE SessParts'
BY DEF SessParts, OpenConn, SubscribeUnsent, SubscribeAwaited, AcceptedMeansAuthed,
       ReadLoopAuthorised

(* A failed handshake or connect leaves rpc or sends it back to connect.  *)
LEMMA FailedRpc ==
    ASSUME HandshakeFailed \/ ConnectFailed PROVE rpc' \in {rpc, "connect"}
BY DEF HandshakeFailed, ConnectFailed

(* The subscribe fallback closes, or reconnects to subscribe again. *)
LEMMA SessFallback ==
    ASSUME SessParts, NEW sess, SubscribeFallback(sess) PROVE SessParts'
<1>1. CASE Close /\ HandshakeFailed
  BY <1>1, FailedRpc, SessClose
<1>2. CASE OpenConn /\ rpc' = "sub_send"
  BY <1>2, SessOpen
<1>3. QED
  BY <1>1, <1>2 DEF SubscribeFallback

-----------------------------------------------------------------------------
(* The receive thread.                                                     *)

(* proxy_mode's first connect, or reconnect_stratum's retry loop. *)
LEMMA SessConnect == ASSUME SessParts, Connect PROVE SessParts'
<1>1. CASE OpenConn /\ rpc' = "sub_send"
  BY <1>1, SessOpen
<1>2. CASE Close /\ ConnectFailed
  BY <1>2, FailedRpc, SessClose
<1>3. QED
  BY <1>1, <1>2 DEF Connect

(* mining.subscribe is written on the fresh connection: the one subscribe *)
(* of the connection, with no answer to it yet.                            *)
LEMMA SessSubSend ==
    ASSUME NetTypeOK, SessParts, SubSend PROVE SessParts'
<1>1. CASE Writable /\ toUp' = Append(toUp, [kind |-> "subscribe", id |-> NoShare])
           /\ rpc' = "sub_read" /\ UNCHANGED <<up_phase, fromUp>>
  <2>1. /\ up_phase = "new"
        /\ \A k \in DOMAIN toUp : toUp[k].kind # "subscribe"
        /\ \A n \in DOMAIN fromUp : fromUp[n].kind # "subres"
    BY DEF SubSend, SessParts, SubscribeUnsent
  <2>2. SubscribeAwaited'
    BY <1>1, <2>1 DEF SubscribeAwaited, NetTypeOK
  <2>3. QED
    BY <1>1, <2>2 DEF SessParts, SubscribeUnsent, AcceptedMeansAuthed, ReadLoopAuthorised
<1>2. CASE Close /\ HandshakeFailed
  BY <1>2, FailedRpc, SessClose
<1>3. QED
  BY <1>1, <1>2 DEF SubSend

(* parse_subscribe: a true subres is the answer to the subscribe, which    *)
(* therefore no longer waits in toUp; anything else is the fallback.       *)
LEMMA SessSubRead ==
    ASSUME NetTypeOK, SessParts, SubRead PROVE SessParts'
<1> DEFINE m == Head(fromUp)
<1>1. CASE Readable /\ m.kind = "subres" /\ m.ok /\ fromUp' = Tail(fromUp)
           /\ rpc' = "auth_send" /\ UNCHANGED <<up_phase, toUp>>
  <2>1. fromUp # <<>> /\ m = fromUp[1] /\ 1 \in DOMAIN fromUp
    BY <1>1 DEF Readable, NetTypeOK
  <2>2. \A k \in DOMAIN toUp : toUp[k].kind # "subscribe"
    BY <1>1, <2>1 DEF SessParts, SubscribeAwaited
  <2>3. AcceptedMeansAuthed'
    BY <1>1, <2>1 DEF SessParts, AcceptedMeansAuthed, NetTypeOK
  <2>4. QED
    BY <1>1, <2>2, <2>3 DEF SessParts, SubscribeUnsent, SubscribeAwaited, ReadLoopAuthorised
<1>2. CASE SubscribeFallback(CopySessionId(m.kind = "subres" /\ m.sid))
  BY <1>2, SessFallback
<1>3. CASE SubscribeFallback(sessionid)
  BY <1>3, SessFallback
<1>4. QED
  BY <1>1, <1>2, <1>3 DEF SubRead

(* mining.authorize is written after the subscribe was answered. *)
LEMMA SessAuthSend ==
    ASSUME NetTypeOK, SessParts, AuthSend PROVE SessParts'
<1>1. CASE Writable /\ toUp' = Append(toUp, [kind |-> "authorize", id |-> NoShare])
           /\ rpc' = "auth_read" /\ UNCHANGED <<up_phase, fromUp>>
  <2>1. \A k \in DOMAIN toUp : toUp[k].kind # "subscribe"
    BY DEF AuthSend, SessParts, SubscribeAwaited
  <2>2. SubscribeAwaited'
    BY <1>1, <2>1 DEF SubscribeAwaited, NetTypeOK
  <2>3. QED
    BY <1>1, <2>2 DEF SessParts, SubscribeUnsent, AcceptedMeansAuthed, ReadLoopAuthorised
<1>2. CASE Close /\ HandshakeFailed
  BY <1>2, FailedRpc, SessClose
<1>3. QED
  BY <1>1, <1>2 DEF AuthSend

(* Dropping the head of fromUp, with rpc and toUp as they were or nothing *)
(* of the subscribe left, keeps the channel parts.                         *)
LEMMA SessTail ==
    ASSUME NetTypeOK, SessParts, fromUp # <<>>, fromUp' = Tail(fromUp),
           UNCHANGED <<up_phase, toUp>>,
           \A k \in DOMAIN toUp : toUp[k].kind # "subscribe",
           rpc' # "sub_send"
    PROVE  SubscribeUnsent' /\ SubscribeAwaited' /\ AcceptedMeansAuthed'
BY DEF SessParts, SubscribeUnsent, SubscribeAwaited, AcceptedMeansAuthed, NetTypeOK

(* auth_stratum: pushed methods are parsed; the first other line is the   *)
(* answer, and only a true one, which the pool gives on an authorised      *)
(* connection, leads to the read loop.                                     *)
LEMMA SessAuthRead ==
    ASSUME NetTypeOK, SessParts, AuthRead PROVE SessParts'
<1> DEFINE m == Head(fromUp)
<1>1. \A k \in DOMAIN toUp : toUp[k].kind # "subscribe"
  BY DEF AuthRead, SessParts, SubscribeAwaited
<1>2. CASE ~Readable /\ HandshakeFailed /\ UNCHANGED netVars
  <2>1. rpc' \in {"auth_read", "connect"}
    BY <1>2, FailedRpc DEF AuthRead
  <2>2. QED
    BY <1>2, <1>1, <2>1 DEF netVars, SessParts, SubscribeUnsent, SubscribeAwaited,
       AcceptedMeansAuthed, ReadLoopAuthorised
<1>3. CASE Readable /\ IsMethod(m) /\ fromUp' = Tail(fromUp)
           /\ UNCHANGED <<rpc, up_phase, toUp>>
  <2>1. SubscribeUnsent' /\ SubscribeAwaited' /\ AcceptedMeansAuthed'
    BY <1>3, <1>1, SessTail DEF AuthRead, Readable
  <2>2. QED
    BY <1>3, <2>1 DEF AuthRead, SessParts, ReadLoopAuthorised
<1>4. CASE /\ Readable /\ ~IsMethod(m) /\ fromUp' = Tail(fromUp)
           /\ UNCHANGED <<up_phase, toUp>>
           /\ \/ m.kind \in {"authres", "result"} /\ m.ok /\ rpc' = "age"
              \/ HandshakeFailed
  <2>1. rpc' # "sub_send"
    BY <1>4, FailedRpc DEF AuthRead
  <2>2. SubscribeUnsent' /\ SubscribeAwaited' /\ AcceptedMeansAuthed'
    BY <1>4, <1>1, <2>1, SessTail DEF Readable
  <2>3. fromUp # <<>> /\ m = fromUp[1] /\ 1 \in DOMAIN fromUp
    BY <1>4 DEF Readable, NetTypeOK
  <2>4. m.kind \in {"authres", "result"} /\ m.ok => up_phase = "authed"
    BY <2>3 DEF SessParts, AcceptedMeansAuthed
  <2>5. rpc' \in {"age", "read"} => m.kind \in {"authres", "result"} /\ m.ok
    BY <1>4, FailedRpc DEF AuthRead
  <2>6. ReadLoopAuthorised'
    BY <1>4, <2>4, <2>5 DEF ReadLoopAuthorised
  <2>7. QED
    BY <2>2, <2>6 DEF SessParts
<1>5. QED
  <2>1. CASE Readable /\ ~IsMethod(m)
    <3>1. fromUp' = Tail(fromUp) /\ UNCHANGED <<up_phase, toUp>>
      BY <2>1 DEF AuthRead
    <3>2. \/ m.kind \in {"authres", "result"} /\ m.ok /\ AuthDone(notified /\ m.kind # "badnotify")
          \/ HandshakeFailed
      BY <2>1, Zenon DEF AuthRead
    <3>3. QED
      BY <2>1, <3>1, <3>2, <1>4 DEF AuthDone
  <2>2. QED
    BY <1>2, <1>3, <2>1 DEF AuthRead

(* proxy_recv's ageing moves on to the read with the connection as it was.*)
LEMMA SessRecvAge == ASSUME SessParts, RecvAge PROVE SessParts'
BY DEF RecvAge, netVars, SessParts, SubscribeUnsent, SubscribeAwaited, AcceptedMeansAuthed,
       ReadLoopAuthorised

(* proxy_recv reads a line and stays in its loop, or goes to reconnect.  *)
LEMMA SessRecvRead ==
    ASSUME NetTypeOK, SessParts, RecvRead PROVE SessParts'
<1>1. \A k \in DOMAIN toUp : toUp[k].kind # "subscribe"
  BY DEF RecvRead, SessParts, SubscribeAwaited
<1>2. CASE Readable /\ fromUp' = Tail(fromUp) /\ rpc' = "age" /\ UNCHANGED <<up_phase, toUp>>
  <2>1. SubscribeUnsent' /\ SubscribeAwaited' /\ AcceptedMeansAuthed'
    BY <1>1, <1>2, SessTail DEF Readable
  <2>2. QED
    BY <1>2, <2>1 DEF RecvRead, SessParts, ReadLoopAuthorised
<1>3. CASE rpc' = "connect" /\ UNCHANGED netVars
  BY <1>1, <1>3 DEF netVars, SessParts, SubscribeUnsent, SubscribeAwaited,
     AcceptedMeansAuthed, ReadLoopAuthorised
<1>4. QED
  BY <1>2, <1>3 DEF RecvRead

-----------------------------------------------------------------------------
(* The send thread and the environment.                                    *)

(* proxy_send writes mining.submit on whatever connection is open, which   *)
(* is never a subscribe; a failed write closes the socket.                 *)
LEMMA SessSendWrite ==
    ASSUME NetTypeOK, SessParts, SendWrite PROVE SessParts'
<1>1. UNCHANGED rpc
  BY DEF SendWrite
<1>2. CASE toUp' = Append(toUp, [kind |-> "submit", id |-> smsg.id])
           /\ UNCHANGED <<up_phase, fromUp>>
  <2>1. SubscribeUnsent' /\ SubscribeAwaited'
    BY <1>1, <1>2 DEF SessParts, SubscribeUnsent, SubscribeAwaited, NetTypeOK
  <2>2. QED
    BY <1>1, <1>2, <2>1 DEF SessParts, AcceptedMeansAuthed, ReadLoopAuthorised
<1>3. CASE Close
  BY <1>1, <1>3, SessClose
<1>4. CASE UNCHANGED netVars
  BY <1>1, <1>4, SessFrame DEF netVars, sessState
<1>5. QED
  BY <1>2, <1>3, <1>4 DEF SendWrite

(* The pool answers the head of toUp.  A subscribe is only answered while *)
(* the receive thread waits for it on a fresh connection; an authorize or *)
(* a share is only answered true on a connection the pool has authorised. *)
LEMMA SessUpRespond ==
    ASSUME NetTypeOK, SessParts, UpRespond PROVE SessParts'
<1> DEFINE r == Head(toUp)
<1>1. /\ toUp # <<>> /\ toUp' = Tail(toUp) /\ r = toUp[1] /\ 1 \in DOMAIN toUp
      /\ UNCHANGED rpc
  BY DEF UpRespond, envUnchanged, NetTypeOK
<1>2. \A k \in DOMAIN toUp' : toUp'[k] = toUp[k + 1] /\ k + 1 \in DOMAIN toUp /\ k + 1 # 1
  BY <1>1 DEF NetTypeOK
<1>3. CASE r.kind = "subscribe"
  <2>1. PICK ok \in BOOLEAN, sid \in BOOLEAN :
          /\ fromUp' = Append(fromUp, MkLine("subres", NoJob, 0, ok, sid, NoShare))
          /\ up_phase' = IF ok THEN "subscribed" ELSE up_phase
    BY <1>3 DEF UpRespond
  <2>2. /\ rpc = "sub_read" /\ up_phase = "new"
        /\ \A n \in DOMAIN toUp : n # 1 => toUp[n].kind # "subscribe"
        /\ \A n \in DOMAIN fromUp : fromUp[n].kind # "subres"
    BY <1>1, <1>3 DEF SessParts, SubscribeAwaited
  <2>3. \A n \in DOMAIN fromUp : ~(fromUp[n].kind \in {"authres", "result"} /\ fromUp[n].ok)
    BY <2>2 DEF SessParts, AcceptedMeansAuthed
  <2>4. AcceptedMeansAuthed'
    BY <2>1, <2>3 DEF AcceptedMeansAuthed, MkLine, NetTypeOK
  <2>5. SubscribeAwaited'
    BY <1>2, <2>2 DEF SubscribeAwaited
  <2>6. QED
    BY <1>1, <2>2, <2>4, <2>5 DEF SessParts, SubscribeUnsent, ReadLoopAuthorised
<1>4. CASE r.kind = "authorize"
  <2>1. PICK ok \in IF up_phase = "subscribed" THEN BOOLEAN ELSE {FALSE} :
          /\ fromUp' = Append(fromUp, MkLine("authres", NoJob, 0, ok, FALSE, NoShare))
          /\ up_phase' = IF ok THEN "authed" ELSE up_phase
    BY <1>4 DEF UpRespond
  <2>2. up_phase' # up_phase => up_phase = "subscribed" /\ up_phase' = "authed"
    BY <2>1
  <2>3. AcceptedMeansAuthed'
    BY <2>1 DEF SessParts, AcceptedMeansAuthed, MkLine, NetTypeOK
  <2>4. SubscribeAwaited'
    BY <1>1, <1>2, <2>1, <2>2 DEF SessParts, SubscribeAwaited, MkLine, NetTypeOK
  <2>5. SubscribeUnsent'
    BY <1>1, <1>2, <2>1, <2>2 DEF SessParts, SubscribeUnsent, MkLine, NetTypeOK
  <2>6. ReadLoopAuthorised'
    BY <1>1, <2>2 DEF SessParts, ReadLoopAuthorised
  <2>7. QED
    BY <2>3, <2>4, <2>5, <2>6 DEF SessParts
<1>5. CASE r.kind = "submit"
  <2>1. PICK ok \in IF up_phase = "authed" THEN BOOLEAN ELSE {FALSE} :
          fromUp' = Append(fromUp, MkLine("result", NoJob, 0, ok, FALSE, r.id))
    BY <1>5 DEF UpRespond
  <2>2. UNCHANGED up_phase
    BY <1>5 DEF UpRespond
  <2>3. ok => up_phase = "authed"
    BY <2>1
  <2>4. AcceptedMeansAuthed'
    BY <2>1, <2>2, <2>3 DEF SessParts, AcceptedMeansAuthed, MkLine, NetTypeOK
  <2>5. SubscribeUnsent' /\ SubscribeAwaited'
    BY <1>1, <1>2, <2>1, <2>2 DEF SessParts, SubscribeUnsent, SubscribeAwaited, MkLine,
       NetTypeOK
  <2>6. QED
    BY <1>1, <2>2, <2>4, <2>5 DEF SessParts, ReadLoopAuthorised
<1>6. r \in Request
  BY <1>1 DEF NetTypeOK
<1>7. r.kind \in {"subscribe", "authorize", "submit"}
  BY <1>6 DEF Request
<1>8. QED
  BY <1>3, <1>4, <1>5, <1>7

(* The pool pushes a method: never an answer the handshake waits for.     *)
LEMMA SessUpPush ==
    ASSUME NetTypeOK, SessParts, UpPush PROVE SessParts'
<1>1. UNCHANGED <<rpc, up_phase, toUp>>
  BY DEF UpPush, envUnchanged
<1>2. ASSUME NEW l, l.kind \in {"notify", "badnotify", "diff", "method"},
             fromUp' = Append(fromUp, l)
      PROVE  SessParts'
  BY <1>1, <1>2 DEF SessParts, SubscribeUnsent, SubscribeAwaited, AcceptedMeansAuthed,
     ReadLoopAuthorised, NetTypeOK
<1>3. CASE \E j \in UpJobs :
             fromUp' = Append(fromUp, MkLine("notify", j, 0, FALSE, FALSE, NoShare))
  <2>1. PICK j \in UpJobs :
          fromUp' = Append(fromUp, MkLine("notify", j, 0, FALSE, FALSE, NoShare))
    BY <1>3
  <2>2. QED
    BY <2>1, <1>2 DEF MkLine
<1>4. CASE fromUp' = Append(fromUp, MkLine("badnotify", NoJob, 0, FALSE, FALSE, 0))
  BY <1>4, <1>2 DEF MkLine
<1>5. CASE \E d \in Diffs :
             fromUp' = Append(fromUp, MkLine("diff", NoJob, d, FALSE, FALSE, NoShare))
  <2>1. PICK d \in Diffs :
          fromUp' = Append(fromUp, MkLine("diff", NoJob, d, FALSE, FALSE, NoShare))
    BY <1>5
  <2>2. QED
    BY <2>1, <1>2 DEF MkLine
<1>6. CASE fromUp' = Append(fromUp, MkLine("method", NoJob, 0, FALSE, FALSE, NoShare))
  BY <1>6, <1>2 DEF MkLine
<1>7. QED
  BY <1>3, <1>4, <1>5, <1>6 DEF UpPush

(* The steps that leave the handshake state alone.                         *)
LEMMA SessOthers ==
    ASSUME SessParts,
           \/ SendTake \/ GetNotify \/ \E lid \in NotifyIds : SubmitShare(lid)
           \/ Shutdown \/ UpDisconnect \/ Tick \/ UNCHANGED vars
    PROVE  SessParts'
<1>1. UNCHANGED sessState
  BY Zenon DEF SendTake, GetNotify, SubmitShare, Shutdown, UpDisconnect, Tick, vars,
               sessState, netVars, envUnchanged
<1>2. QED
  BY <1>1, SessFrame

-----------------------------------------------------------------------------
(* The invariant.                                                          *)

(* Each step keeps the handshake parts. *)
LEMMA SessStep == SessionInv /\ [Next]_vars => SessionInv'
<1> SUFFICES ASSUME TypeOK, SessParts, [Next]_vars PROVE TypeOK' /\ SessParts'
  BY SessSplit, SessSplitPrime
<1>1. TypeOK'
  BY TypeStep
<1>2. NetTypeOK
  BY TypeSplit DEF DataTypeOK
<1> SUFFICES SessParts'
  BY <1>1
<1>3. CASE Connect
  BY <1>3, SessConnect
<1>4. CASE SubSend
  BY <1>2, <1>4, SessSubSend
<1>5. CASE SubRead
  BY <1>2, <1>5, SessSubRead
<1>6. CASE AuthSend
  BY <1>2, <1>6, SessAuthSend
<1>7. CASE AuthRead
  BY <1>2, <1>7, SessAuthRead
<1>8. CASE RecvAge
  BY <1>8, SessRecvAge
<1>9. CASE RecvRead
  BY <1>2, <1>9, SessRecvRead
<1>10. CASE SendWrite
  BY <1>2, <1>10, SessSendWrite
<1>11. CASE UpRespond
  BY <1>2, <1>11, SessUpRespond
<1>12. CASE UpPush
  BY <1>2, <1>12, SessUpPush
<1>13. CASE \/ SendTake \/ GetNotify \/ \E lid \in NotifyIds : SubmitShare(lid)
            \/ Shutdown \/ UpDisconnect \/ Tick \/ UNCHANGED vars
  BY <1>13, SessOthers
<1>14. QED
  BY <1>3, <1>4, <1>5, <1>6, <1>7, <1>8, <1>9, <1>10, <1>11, <1>12, <1>13
  DEF Next, Terminated, RecvThread, SendThread, ControlThread, Environment

(* proxy_mode starts unconnected, with nothing written or read.           *)
LEMMA SessInit == Init => SessionInv
<1> SUFFICES ASSUME Init PROVE TypeOK /\ SessParts
  BY SessSplit
<1>1. TypeOK
  BY TypeInit
<1>2. SessParts
  BY DEF Init, SessParts, SubscribeUnsent, SubscribeAwaited, AcceptedMeansAuthed,
     ReadLoopAuthorised
<1>3. QED
  BY <1>1, <1>2

(* SessionInv holds in every reachable state.                              *)
LEMMA SessionInvariant == Spec => []SessionInv
BY SessInit, SessStep, PTL DEF Spec

(* For every bound on connections, shares and pushed lines, the receive    *)
(* thread runs its read loop only on a connection the pool has             *)
(* authorised: auth_stratum never mistakes the answer to a share written   *)
(* before the handshake, or any false answer, for an authorisation (the    *)
(* invariant the safety run checks).                                       *)
THEOREM ReadLoopAuth == Spec => []ReadLoopAuthorised
<1>1. SessionInv => ReadLoopAuthorised
  BY DEF SessionInv
<1>2. QED
  BY <1>1, SessionInvariant, PTL

=============================================================================
