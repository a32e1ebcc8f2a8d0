---------------------------- MODULE ProxyProofs ----------------------------
(***************************************************************************)
(* Proofs about the proxy-mode model of the generator (module Proxy), for  *)
(* every value of its constants that satisfies ConstAssumption.            *)
(*   - TypeCorrect: every reachable state is well typed.                   *)
(*   - IssuedJob: every mining.submit proxy_send writes carries the        *)
(*     upstream job the stratifier was shown for the share's local job id, *)
(*     through reconnects, ageing and the lookup in proxy_send.  The proof *)
(*     rests on the inductive invariant IssuedJobInv of module Proxy.      *)
(***************************************************************************)
EXTENDS Proxy, TLAPS

USE ConstAssumption

-----------------------------------------------------------------------------
(* Type correctness.                                                       *)

(* TypeOK split along what each prover handles: the Boolean-valued flags   *)
(* (Zenon) and the data, with its arithmetic (SMT).                         *)
BoolTypeOK ==
    /\ diffed \in BOOLEAN /\ notified \in BOOLEAN
    /\ sessionid \in BOOLEAN /\ no_sessionid \in BOOLEAN /\ no_params \in BOOLEAN
    /\ stratNotify \in BOOLEAN /\ unsignalled \in BOOLEAN

(* The data, one group per component. *)
CtlTypeOK ==
    /\ mode \in {"startup", "running", "exited", "crashed"}
    /\ rpc \in {"connect", "sub_send", "sub_read", "auth_send", "auth_read", "age", "read"}
SendTypeOK == spc \in {"wait", "write"} /\ smsg \in PSend /\ sjob \in UpJobs \cup {NoJob}
NotifyTypeOK ==
    /\ notify_instances \subseteq NotifyIds
    /\ notify_job \in [NotifyIds -> UpJobs \cup {NoJob}]
    /\ notify_time \in [NotifyIds -> Time]
    /\ notify_conn \in [NotifyIds -> Conns]
    /\ current_notify \in NotifyIds \cup {NULL}
    /\ notify_id \in 0 .. MaxNotify
    /\ diff \in Diffs \cup {0}
ShareTypeOK ==
    /\ shares \subseteq ShareIds
    /\ share_time \in [ShareIds -> Time]
    /\ share_id \in 0 .. MaxShares
    /\ psends \in Seq(PSend)
NetTypeOK ==
    /\ conn \in Conns
    /\ sock \in {"open", "broken", "closed"}
    /\ up_phase \in {"new", "subscribed", "authed"}
    /\ toUp \in Seq(Request)
    /\ fromUp \in Seq(Line)
StratTypeOK ==
    /\ now \in Time
    /\ shown \in [NotifyIds -> UpJobs \cup {NoJob}]
    /\ submits \in Seq(Submit)
DataTypeOK ==
    CtlTypeOK /\ SendTypeOK /\ NotifyTypeOK /\ ShareTypeOK /\ NetTypeOK /\ StratTypeOK
(* TypeOK is the conjunction of its Boolean and data parts.                *)
LEMMA TypeSplit == TypeOK <=> DataTypeOK /\ BoolTypeOK
BY Zenon DEF TypeOK, DataTypeOK, BoolTypeOK, CtlTypeOK, SendTypeOK, NotifyTypeOK,
             ShareTypeOK, NetTypeOK, StratTypeOK

(* The same split, in the next state.                                      *)
LEMMA TypeSplitPrime == TypeOK' <=> DataTypeOK' /\ BoolTypeOK'
BY Zenon DEF TypeOK, DataTypeOK, BoolTypeOK, CtlTypeOK, SendTypeOK, NotifyTypeOK,
             ShareTypeOK, NetTypeOK, StratTypeOK

(* proxy_mode starts in a well-typed state.                                *)
LEMMA TypeInit == Init => TypeOK
<1> SUFFICES ASSUME Init PROVE DataTypeOK /\ BoolTypeOK
  BY TypeSplit
<1>1. DataTypeOK
  BY SMT DEF Init, DataTypeOK, CtlTypeOK, SendTypeOK, NotifyTypeOK, ShareTypeOK, NetTypeOK,
            StratTypeOK, PSend, NotifyIds, Time, Conns, NULL, ShareIds
<1>2. BoolTypeOK
  BY Zenon DEF Init, BoolTypeOK
<1>3. QED
  BY <1>1, <1>2

(* The records the actions build belong to their types. *)
LEMMA RequestType ==
    ASSUME NEW k \in {"subscribe", "authorize", "submit"}, NEW i \in ShareIds \cup {NoShare}
    PROVE  [kind |-> k, id |-> i] \in Request
BY DEF Request

(* The helpers shared by several actions keep their part of the state in  *)
(* its type.                                                                *)
LEMMA CloseType == ASSUME NetTypeOK, Close PROVE NetTypeOK'
BY DEF NetTypeOK, Close

(* connect_proxy leaves the connection well typed.                         *)
LEMMA OpenConnType == ASSUME NetTypeOK, OpenConn PROVE NetTypeOK'
BY DEF NetTypeOK, OpenConn, Conns

(* A failed handshake leaves mode and rpc well typed.                      *)
LEMMA HandshakeFailedType == ASSUME CtlTypeOK, HandshakeFailed PROVE CtlTypeOK'
BY DEF CtlTypeOK, HandshakeFailed

(* A failed connect_proxy leaves mode and rpc well typed.                  *)
LEMMA ConnectFailedType == ASSUME CtlTypeOK, ConnectFailed PROVE CtlTypeOK'
BY DEF CtlTypeOK, ConnectFailed

(* The subscribe fallback of subscribe_stratum keeps the types.            *)
LEMMA FallbackType ==
    ASSUME NEW sess, CtlTypeOK, NetTypeOK, SubscribeFallback(sess)
    PROVE  CtlTypeOK' /\ NetTypeOK'
<1>1. CASE Close /\ HandshakeFailed
  BY <1>1, CloseType, HandshakeFailedType
<1>2. CASE OpenConn /\ rpc' = "sub_send" /\ UNCHANGED mode
  BY <1>2, OpenConnType DEF CtlTypeOK
<1>3. QED
  BY <1>1, <1>2, Zenon DEF SubscribeFallback

(* parse_notify keeps the notify table well typed.                         *)
LEMMA AddNotifyType ==
    ASSUME NEW j \in UpJobs \cup {NoJob}, NotifyTypeOK, now \in Time, conn \in Conns,
           AddNotify(j)
    PROVE  /\ notify_instances' \subseteq NotifyIds
           /\ notify_job' \in [NotifyIds -> UpJobs \cup {NoJob}]
           /\ notify_time' \in [NotifyIds -> Time]
           /\ notify_conn' \in [NotifyIds -> Conns]
           /\ current_notify' \in NotifyIds \cup {NULL}
           /\ notify_id' \in 0 .. MaxNotify
<1>1. /\ notify_instances' \subseteq NotifyIds
      /\ notify_job' \in [NotifyIds -> UpJobs \cup {NoJob}]
      /\ notify_time' \in [NotifyIds -> Time]
      /\ notify_conn' \in [NotifyIds -> Conns]
  BY DEF AddNotify, NotifyTypeOK, NotifyIds
<1>2. current_notify' \in NotifyIds \cup {NULL} /\ notify_id' \in 0 .. MaxNotify
  BY DEF AddNotify, NotifyTypeOK, NotifyIds
<1>3. QED
  BY <1>1, <1>2

(* The method a read takes is applied to a well-typed notify table. *)
LEMMA ApplyMethodType ==
    ASSUME NetTypeOK, Readable, NotifyTypeOK, now \in Time, ApplyMethod(Head(fromUp))
    PROVE  NotifyTypeOK'
<1> DEFINE m == Head(fromUp)
<1>1. m \in Line /\ conn \in Conns
  BY DEF NetTypeOK, Readable
<1>2. m.job \in UpJobs \cup {NoJob} /\ m.diff \in Diffs \cup {0}
  BY <1>1 DEF Line
<1>3. diff' \in Diffs \cup {0}
  BY <1>2 DEF ApplyMethod, NotifyTypeOK, NewDiff
<1>4. CASE m.kind = "notify"
  <2>1. AddNotify(m.job)
    BY <1>4 DEF ApplyMethod
  <2>2. QED
    BY <1>1, <1>2, <1>3, <2>1, AddNotifyType DEF NotifyTypeOK
<1>5. CASE m.kind # "notify"
  BY <1>3, <1>5 DEF ApplyMethod, notifyVars, NotifyTypeOK
<1>6. QED
  BY <1>4, <1>5

(* The end of the auth loop keeps mode and rpc well typed.                 *)
LEMMA AuthDoneType == ASSUME NEW nfy, CtlTypeOK, AuthDone(nfy) PROVE CtlTypeOK'
BY DEF AuthDone, CtlTypeOK

(* Each action keeps every variable in its type: one step per branch of   *)
(* the action for the data (SMT), one step for the flags (Zenon).          *)
LEMMA ConnectType ==
    ASSUME DataTypeOK, BoolTypeOK, Connect PROVE DataTypeOK' /\ BoolTypeOK'
<1> USE DEF DataTypeOK, CtlTypeOK, SendTypeOK, NotifyTypeOK, ShareTypeOK, StratTypeOK,
            sendVars, notifyVars, shareVars, sessVars
<1>0. BoolTypeOK'
  BY Zenon DEF BoolTypeOK, Connect
<1> SUFFICES DataTypeOK'
  BY <1>0
<1>1. CASE OpenConn /\ rpc' = "sub_send" /\ UNCHANGED mode
  BY <1>1, OpenConnType DEF Connect
<1>2. CASE Close /\ ConnectFailed
  BY <1>2, CloseType, ConnectFailedType DEF Connect
<1>4. QED
  BY <1>1, <1>2 DEF Connect

(* subscribe_stratum writing its request keeps the types.                  *)
LEMMA SubSendType ==
    ASSUME DataTypeOK, BoolTypeOK, SubSend PROVE DataTypeOK' /\ BoolTypeOK'
<1> USE DEF DataTypeOK, CtlTypeOK, SendTypeOK, NotifyTypeOK, ShareTypeOK, StratTypeOK,
            sendVars, notifyVars, shareVars, sessVars
<1>0. BoolTypeOK'
  BY Zenon DEF BoolTypeOK, SubSend
<1> SUFFICES DataTypeOK'
  BY <1>0
<1>1. CASE Writable /\ toUp' = Append(toUp, [kind |-> "subscribe", id |-> NoShare])
           /\ rpc' = "sub_read" /\ UNCHANGED <<mode, conn, sock, up_phase, fromUp>>
  BY <1>1, RequestType DEF SubSend, NetTypeOK
<1>2. CASE ~Writable /\ Close /\ HandshakeFailed
  BY <1>2, CloseType, HandshakeFailedType DEF SubSend
<1>4. QED
  BY <1>1, <1>2 DEF SubSend

(* parse_subscribe keeps the types.                                        *)
LEMMA SubReadType ==
    ASSUME DataTypeOK, BoolTypeOK, SubRead PROVE DataTypeOK' /\ BoolTypeOK'
<1> USE DEF DataTypeOK, CtlTypeOK, SendTypeOK, NotifyTypeOK, ShareTypeOK, StratTypeOK,
            sendVars, notifyVars, shareVars
<1>0. BoolTypeOK'
  BY Zenon DEF BoolTypeOK, SubRead, CopySessionId, SubscribeFallback
<1> SUFFICES DataTypeOK'
  BY <1>0
<1>1. CASE Readable /\ fromUp' = Tail(fromUp) /\ rpc' = "auth_send"
           /\ UNCHANGED <<mode, conn, sock, up_phase, toUp>>
  BY <1>1 DEF SubRead, Readable, NetTypeOK
<1>2. CASE \E sess : SubscribeFallback(sess)
  BY <1>2, FallbackType DEF SubRead
<1>4. QED
  BY <1>1, <1>2 DEF SubRead

(* auth_stratum writing mining.authorize keeps the types.                  *)
LEMMA AuthSendType ==
    ASSUME DataTypeOK, BoolTypeOK, AuthSend PROVE DataTypeOK' /\ BoolTypeOK'
<1> USE DEF DataTypeOK, CtlTypeOK, SendTypeOK, NotifyTypeOK, ShareTypeOK, StratTypeOK,
            sendVars, notifyVars, shareVars, sessVars
<1>0. BoolTypeOK'
  BY Zenon DEF BoolTypeOK, AuthSend
<1> SUFFICES DataTypeOK'
  BY <1>0
<1>1. CASE Writable /\ toUp' = Append(toUp, [kind |-> "authorize", id |-> NoShare])
           /\ rpc' = "auth_read" /\ UNCHANGED <<mode, conn, sock, up_phase, fromUp>>
  BY <1>1, RequestType DEF AuthSend, NetTypeOK
<1>2. CASE ~Writable /\ Close /\ HandshakeFailed
  BY <1>2, CloseType, HandshakeFailedType DEF AuthSend
<1>4. QED
  BY <1>1, <1>2 DEF AuthSend

(* auth_stratum reading its reply keeps the types.                         *)
LEMMA AuthReadType ==
    ASSUME DataTypeOK, BoolTypeOK, AuthRead PROVE DataTypeOK' /\ BoolTypeOK'
<1>0. BoolTypeOK'
  BY Zenon DEF BoolTypeOK, AuthRead, AuthDone, HandshakeFailed, IsMethod, notifyVars,
               netVars, sessVars
<1> SUFFICES DataTypeOK'
  BY <1>0
<1>1. UNCHANGED <<sendVars, shareVars, now, shown, submits>>
  BY Zenon DEF AuthRead
<1> USE <1>1 DEF DataTypeOK, CtlTypeOK, SendTypeOK, ShareTypeOK, StratTypeOK, sendVars,
                 shareVars
<1>2. CASE ~Readable /\ HandshakeFailed /\ UNCHANGED <<notifyVars, diff, netVars>>
  BY <1>2, HandshakeFailedType DEF NotifyTypeOK, NetTypeOK, notifyVars, netVars
<1>3. CASE Readable /\ fromUp' = Tail(fromUp) /\ ApplyMethod(Head(fromUp))
           /\ UNCHANGED <<mode, rpc, conn, sock, up_phase, toUp>>
  <2>2. NotifyTypeOK'
    BY <1>3, ApplyMethodType DEF DataTypeOK, StratTypeOK
  <2>3. NetTypeOK'
    BY <1>3 DEF NetTypeOK, Readable
  <2>4. QED
    BY <1>3, <2>2, <2>3
<1>4. CASE Readable /\ fromUp' = Tail(fromUp) /\ AuthDone(notified /\ Head(fromUp).kind # "badnotify")
           /\ UNCHANGED <<notifyVars, diff, conn, sock, up_phase, toUp>>
  BY <1>4, AuthDoneType DEF NetTypeOK, NotifyTypeOK, notifyVars, Readable
<1>5. CASE Readable /\ fromUp' = Tail(fromUp) /\ HandshakeFailed
           /\ UNCHANGED <<notifyVars, diff, conn, sock, up_phase, toUp>>
  BY <1>5, HandshakeFailedType DEF NetTypeOK, NotifyTypeOK, notifyVars, Readable
<1>6. QED
  BY <1>2, <1>3, <1>4, <1>5, Zenon DEF AuthRead, notifyVars, netVars

(* Ageing in proxy_recv keeps the types.                                   *)
LEMMA RecvAgeType ==
    ASSUME DataTypeOK, BoolTypeOK, RecvAge PROVE DataTypeOK' /\ BoolTypeOK'
<1>1. DataTypeOK'
  BY DEF DataTypeOK, CtlTypeOK, SendTypeOK, NotifyTypeOK, ShareTypeOK, NetTypeOK,
         StratTypeOK, RecvAge, sendVars, sessVars, netVars
<1>2. BoolTypeOK'
  BY Zenon DEF BoolTypeOK, RecvAge, sessVars
<1>3. QED
  BY <1>1, <1>2

(* A line read by proxy_recv keeps the types.                              *)
LEMMA RecvReadType ==
    ASSUME DataTypeOK, BoolTypeOK, RecvRead PROVE DataTypeOK' /\ BoolTypeOK'
<1>0. BoolTypeOK'
  BY Zenon DEF BoolTypeOK, RecvRead, IsMethod, sessVars
<1> SUFFICES DataTypeOK'
  BY <1>0
<1>1. UNCHANGED <<mode, sendVars, now, shown, submits>>
  BY Zenon DEF RecvRead
<1> USE <1>1 DEF DataTypeOK, CtlTypeOK, SendTypeOK, StratTypeOK, sendVars
<1>2. CASE Readable /\ fromUp' = Tail(fromUp) /\ ApplyMethod(Head(fromUp)) /\ rpc' = "age"
           /\ UNCHANGED <<shareVars, conn, sock, up_phase, toUp>>
  <2>2. NotifyTypeOK'
    BY <1>2, ApplyMethodType DEF DataTypeOK, StratTypeOK
  <2>3. NetTypeOK' /\ ShareTypeOK'
    BY <1>2 DEF NetTypeOK, ShareTypeOK, shareVars, Readable
  <2>4. QED
    BY <1>2, <2>2, <2>3
<1>3. CASE Readable /\ fromUp' = Tail(fromUp) /\ ParseShare(Head(fromUp).id) /\ rpc' = "age"
           /\ UNCHANGED <<notifyVars, diff, conn, sock, up_phase, toUp>>
  BY <1>3 DEF ParseShare, NetTypeOK, ShareTypeOK, NotifyTypeOK, notifyVars, Readable
<1>4. CASE FlushNotifies /\ rpc' = "connect" /\ UNCHANGED <<diff, shareVars, netVars>>
  BY <1>4 DEF FlushNotifies, NetTypeOK, ShareTypeOK, NotifyTypeOK, shareVars, netVars
<1>5. QED
  BY <1>2, <1>3, <1>4, Zenon DEF RecvRead, shareVars, netVars, notifyVars

(* proxy_send taking a share keeps the types.                              *)
LEMMA SendTakeType ==
    ASSUME DataTypeOK, BoolTypeOK, SendTake PROVE DataTypeOK' /\ BoolTypeOK'
<1>1. DataTypeOK'
  BY DEF DataTypeOK, CtlTypeOK, SendTypeOK, NotifyTypeOK, ShareTypeOK, NetTypeOK,
         StratTypeOK, SendTake, notifyVars, sessVars, netVars
<1>2. BoolTypeOK'
  BY Zenon DEF BoolTypeOK, SendTake, sessVars
<1>3. QED
  BY <1>1, <1>2

(* The history record of a written mining.submit is a Submit. *)
LEMMA SubmitRecordType ==
    ASSUME SendTypeOK, sjob # NoJob, conn \in Conns
    PROVE  [id |-> smsg.id, lid |-> smsg.jobid, job |-> sjob, work |-> smsg.work,
            conn |-> conn, authed |-> rpc \in {"age", "read"}] \in Submit
BY DEF SendTypeOK, PSend, Submit

(* proxy_send writing or dropping a share keeps the types.                 *)
LEMMA SendWriteType ==
    ASSUME DataTypeOK, BoolTypeOK, SendWrite PROVE DataTypeOK' /\ BoolTypeOK'
<1> USE DEF DataTypeOK, CtlTypeOK, SendTypeOK, NotifyTypeOK, ShareTypeOK,
            notifyVars, shareVars, sessVars
<1>0. BoolTypeOK'
  BY Zenon DEF BoolTypeOK, SendWrite, netVars
<1> SUFFICES DataTypeOK'
  BY <1>0
<1>1. CASE sjob # NoJob /\ Writable
           /\ toUp' = Append(toUp, [kind |-> "submit", id |-> smsg.id])
           /\ submits' = Append(submits,
                 [id |-> smsg.id, lid |-> smsg.jobid, job |-> sjob, work |-> smsg.work,
                  conn |-> conn, authed |-> rpc \in {"age", "read"}])
           /\ UNCHANGED <<conn, sock, up_phase, fromUp>>
  <2>1. smsg.id \in ShareIds
    BY DEF PSend
  <2>2. QED
    BY <1>1, <2>1, RequestType, SubmitRecordType DEF SendWrite, NetTypeOK, StratTypeOK
<1>2. CASE Close /\ UNCHANGED submits
  BY <1>2, CloseType DEF SendWrite, StratTypeOK
<1>3. CASE UNCHANGED <<netVars, submits>>
  BY <1>3 DEF SendWrite, NetTypeOK, StratTypeOK, netVars
<1>5. QED
  BY <1>1, <1>2, <1>3 DEF SendWrite

(* send_notify on getnotify keeps the types.                               *)
LEMMA GetNotifyType ==
    ASSUME DataTypeOK, BoolTypeOK, GetNotify PROVE DataTypeOK' /\ BoolTypeOK'
<1> USE DEF DataTypeOK, CtlTypeOK, SendTypeOK, NotifyTypeOK, ShareTypeOK, NetTypeOK,
            StratTypeOK, sendVars, notifyVars, shareVars, sessVars, netVars
<1>0. BoolTypeOK'
  BY Zenon DEF BoolTypeOK, GetNotify
<1> SUFFICES DataTypeOK'
  BY <1>0
<1>1. CASE current_notify # NULL
           /\ shown' = [shown EXCEPT ![current_notify] = notify_job[current_notify]]
           /\ UNCHANGED mode
  BY <1>1 DEF GetNotify, NULL, NotifyIds
<1>2. CASE mode' = "crashed" /\ UNCHANGED shown
  BY <1>2 DEF GetNotify
<1>4. QED
  BY <1>1, <1>2 DEF GetNotify, NULL, NotifyTypeOK, NotifyIds

(* submit_share keeps the types.                                           *)
LEMMA SubmitShareType ==
    ASSUME NEW lid \in NotifyIds, DataTypeOK, BoolTypeOK, SubmitShare(lid)
    PROVE  DataTypeOK' /\ BoolTypeOK'
<1>1. [jobid |-> lid, id |-> share_id, work |-> shown[lid]] \in PSend
  BY DEF SubmitShare, PSend, DataTypeOK, ShareTypeOK, StratTypeOK, ShareIds
<1>2. DataTypeOK'
  BY <1>1 DEF DataTypeOK, CtlTypeOK, SendTypeOK, NotifyTypeOK, ShareTypeOK, NetTypeOK,
              StratTypeOK, SubmitShare, sendVars, notifyVars, sessVars, netVars, ShareIds
<1>3. BoolTypeOK'
  BY Zenon DEF BoolTypeOK, SubmitShare, sessVars
<1>4. QED
  BY <1>2, <1>3

(* "shutdown" keeps the types.                                             *)
LEMMA ShutdownType ==
    ASSUME DataTypeOK, BoolTypeOK, Shutdown PROVE DataTypeOK' /\ BoolTypeOK'
<1>1. DataTypeOK'
  BY DEF DataTypeOK, CtlTypeOK, SendTypeOK, NotifyTypeOK, ShareTypeOK, NetTypeOK,
         StratTypeOK, Shutdown, sendVars, notifyVars, shareVars, sessVars, netVars
<1>2. BoolTypeOK'
  BY Zenon DEF BoolTypeOK, Shutdown, sessVars
<1>3. QED
  BY <1>1, <1>2

(* A reply of the pool keeps the types.                                    *)
LEMMA UpRespondType ==
    ASSUME DataTypeOK, BoolTypeOK, UpRespond PROVE DataTypeOK' /\ BoolTypeOK'
<1>0. BoolTypeOK'
  BY Zenon DEF BoolTypeOK, UpRespond, envUnchanged, sessVars
<1> SUFFICES DataTypeOK'
  BY <1>0
<1>1. /\ UNCHANGED envUnchanged /\ UNCHANGED <<conn, sock>>
      /\ toUp' = Tail(toUp) /\ toUp # <<>>
      /\ up_phase' \in {"new", "subscribed", "authed"}
  BY DEF UpRespond, DataTypeOK, NetTypeOK
<1> DEFINE r == Head(toUp)
<1>2. r \in Request
  BY <1>1 DEF DataTypeOK, NetTypeOK
<1> SUFFICES ASSUME NEW l \in Line, fromUp' = Append(fromUp, l) PROVE DataTypeOK'
  <2>1. CASE r.kind = "subscribe"
    <3>1. PICK ok, sid \in BOOLEAN :
            fromUp' = Append(fromUp, MkLine("subres", NoJob, 0, ok, sid, NoShare))
      BY <2>1 DEF UpRespond
    <3>2. MkLine("subres", NoJob, 0, ok, sid, NoShare) \in Line
      BY DEF MkLine, Line, LineKinds
    <3>3. QED
      BY <3>1, <3>2
  <2>2. CASE r.kind = "authorize"
    <3>1. PICK ok \in BOOLEAN :
            fromUp' = Append(fromUp, MkLine("authres", NoJob, 0, ok, FALSE, NoShare))
      BY <2>2 DEF UpRespond
    <3>2. MkLine("authres", NoJob, 0, ok, FALSE, NoShare) \in Line
      BY DEF MkLine, Line, LineKinds
    <3>3. QED
      BY <3>1, <3>2
  <2>3. CASE r.kind = "submit"
    <3>1. PICK ok \in BOOLEAN :
            fromUp' = Append(fromUp, MkLine("result", NoJob, 0, ok, FALSE, r.id))
      BY <2>3 DEF UpRespond
    <3>2. r.id \in ShareIds \cup {NoShare}
      BY <1>2 DEF Request
    <3>3. MkLine("result", NoJob, 0, ok, FALSE, r.id) \in Line
      BY <3>2 DEF MkLine, Line, LineKinds
    <3>4. QED
      BY <3>1, <3>3
  <2>4. QED
    BY <1>2, <2>1, <2>2, <2>3 DEF Request
<1>3. QED
  BY <1>1 DEF DataTypeOK, CtlTypeOK, SendTypeOK, NotifyTypeOK, ShareTypeOK, NetTypeOK,
              StratTypeOK, envUnchanged, sendVars, notifyVars, shareVars

(* A method pushed by the pool keeps the types.                            *)
LEMMA UpPushType ==
    ASSUME DataTypeOK, BoolTypeOK, UpPush PROVE DataTypeOK' /\ BoolTypeOK'
<1>0. BoolTypeOK'
  BY Zenon DEF BoolTypeOK, UpPush, envUnchanged, sessVars
<1> SUFFICES DataTypeOK'
  BY <1>0
<1>1. UNCHANGED envUnchanged /\ UNCHANGED <<conn, sock, up_phase, toUp>>
  BY DEF UpPush
<1> SUFFICES ASSUME NEW l \in Line, fromUp' = Append(fromUp, l) PROVE DataTypeOK'
  <2>1. CASE \E j \in UpJobs :
               fromUp' = Append(fromUp, MkLine("notify", j, 0, FALSE, FALSE, NoShare))
    <3>1. PICK j \in UpJobs :
            fromUp' = Append(fromUp, MkLine("notify", j, 0, FALSE, FALSE, NoShare))
      BY <2>1
    <3>2. MkLine("notify", j, 0, FALSE, FALSE, NoShare) \in Line
      BY DEF MkLine, Line, LineKinds
    <3>3. QED
      BY <3>1, <3>2
  <2>2. CASE fromUp' = Append(fromUp, MkLine("badnotify", NoJob, 0, FALSE, FALSE, 0))
    <3>1. MkLine("badnotify", NoJob, 0, FALSE, FALSE, 0) \in Line
      BY DEF MkLine, Line, LineKinds, ShareIds
    <3>2. QED
      BY <2>2, <3>1
  <2>3. CASE \E d \in Diffs :
               fromUp' = Append(fromUp, MkLine("diff", NoJob, d, FALSE, FALSE, NoShare))
    <3>1. PICK d \in Diffs :
            fromUp' = Append(fromUp, MkLine("diff", NoJob, d, FALSE, FALSE, NoShare))
      BY <2>3
    <3>2. MkLine("diff", NoJob, d, FALSE, FALSE, NoShare) \in Line
      BY DEF MkLine, Line, LineKinds
    <3>3. QED
      BY <3>1, <3>2
  <2>4. CASE fromUp' = Append(fromUp, MkLine("method", NoJob, 0, FALSE, FALSE, NoShare))
    <3>1. MkLine("method", NoJob, 0, FALSE, FALSE, NoShare) \in Line
      BY DEF MkLine, Line, LineKinds
    <3>2. QED
      BY <2>4, <3>1
  <2>5. QED
    BY <2>1, <2>2, <2>3, <2>4 DEF UpPush
<1>2. QED
  BY <1>1 DEF DataTypeOK, CtlTypeOK, SendTypeOK, NotifyTypeOK, ShareTypeOK, NetTypeOK,
              StratTypeOK, envUnchanged, sendVars, notifyVars, shareVars

(* A dropped connection keeps the types.                                   *)
LEMMA UpDisconnectType ==
    ASSUME DataTypeOK, BoolTypeOK, UpDisconnect PROVE DataTypeOK' /\ BoolTypeOK'
<1>1. DataTypeOK'
  BY DEF DataTypeOK, CtlTypeOK, SendTypeOK, NotifyTypeOK, ShareTypeOK, NetTypeOK,
         StratTypeOK, UpDisconnect, envUnchanged, sendVars, notifyVars, shareVars, sessVars
<1>2. BoolTypeOK'
  BY Zenon DEF BoolTypeOK, UpDisconnect, envUnchanged, sessVars
<1>3. QED
  BY <1>1, <1>2

(* The clock keeps the types.                                              *)
LEMMA TickType ==
    ASSUME DataTypeOK, BoolTypeOK, Tick PROVE DataTypeOK' /\ BoolTypeOK'
<1>1. DataTypeOK'
  BY DEF DataTypeOK, CtlTypeOK, SendTypeOK, NotifyTypeOK, ShareTypeOK, NetTypeOK,
         StratTypeOK, Tick, sendVars, notifyVars, shareVars, sessVars, netVars, Time
<1>2. BoolTypeOK'
  BY Zenon DEF BoolTypeOK, Tick, sessVars
<1>3. QED
  BY <1>1, <1>2

(* Each step of the model keeps every variable in its type. *)
LEMMA TypeStep == TypeOK /\ [Next]_vars => TypeOK'
<1> SUFFICES ASSUME DataTypeOK, BoolTypeOK, [Next]_vars PROVE DataTypeOK' /\ BoolTypeOK'
  BY TypeSplit, TypeSplitPrime
<1>1. CASE RecvThread
  BY <1>1, ConnectType, SubSendType, SubReadType, AuthSendType, AuthReadType, RecvAgeType,
     RecvReadType DEF RecvThread
<1>2. CASE SendThread
  BY <1>2, SendTakeType, SendWriteType DEF SendThread
<1>3. CASE ControlThread
  BY <1>3, GetNotifyType, SubmitShareType, ShutdownType DEF ControlThread
<1>4. CASE Environment
  BY <1>4, UpRespondType, UpPushType, UpDisconnectType, TickType DEF Environment
<1>5. CASE UNCHANGED vars
  BY <1>5 DEF vars, sendVars, notifyVars, shareVars, sessVars, netVars, DataTypeOK,
              BoolTypeOK, CtlTypeOK, SendTypeOK, NotifyTypeOK, ShareTypeOK, NetTypeOK,
              StratTypeOK
<1>6. QED
  BY <1>1, <1>2, <1>3, <1>4, <1>5 DEF Next, Terminated

(* Type correctness: in every behaviour of the proxy, every variable keeps  *)
(* the type TypeOK gives it (the invariant the safety run checks).          *)
THEOREM TypeCorrect == Spec => []TypeOK
BY TypeInit, TypeStep, PTL DEF Spec

-----------------------------------------------------------------------------
(* SubmitCarriesIssuedJob.  It is not inductive by itself: a submit is     *)
(* built from the share the send thread holds, which came off psends,      *)
(* which was built from what getnotify showed, which was copied out of the *)
(* notify table.  IssuedJobInv follows the job along that path, and        *)
(* JobsWrittenOnce is what makes it survive parse_notify: the slot a new   *)
(* notification takes was still empty, so nothing shown or queued named   *)
(* it.                                                                     *)
IssuedParts ==
    JobsWrittenOnce /\ ShownIsIssued /\ QueuedIsIssued /\ HeldIsIssued /\ SubmitCarriesIssuedJob
issuedVars == <<notify_job, notify_id, shown, psends, spc, smsg, sjob, submits>>

(* IssuedJobInv is TypeOK and the job-path parts.                          *)
LEMMA IssuedSplit == IssuedJobInv <=> TypeOK /\ IssuedParts
BY Zenon DEF IssuedJobInv, IssuedParts

(* The same split, in the next state.                                      *)
LEMMA IssuedSplitPrime == IssuedJobInv' <=> TypeOK' /\ IssuedParts'
BY Zenon DEF IssuedJobInv, IssuedParts

(* A step that leaves the job path alone keeps it. *)
LEMMA IssuedFrame ==
    ASSUME IssuedParts, UNCHANGED issuedVars PROVE IssuedParts'
BY DEF IssuedParts, issuedVars, JobsWrittenOnce, ShownIsIssued, QueuedIsIssued, HeldIsIssued,
       SubmitCarriesIssuedJob

(* parse_notify fills the empty slot notify_id and moves past it. *)
LEMMA IssuedAddNotify ==
    ASSUME NotifyTypeOK, ShareTypeOK, SendTypeOK, IssuedParts, NEW j, AddNotify(j),
           UNCHANGED <<shown, psends, spc, smsg, sjob, submits>>
    PROVE IssuedParts'
<1> DEFINE n == notify_id
<1>1. n \in NotifyIds /\ notify_job' = [notify_job EXCEPT ![n] = j] /\ notify_id' = n + 1
  BY DEF AddNotify, NotifyTypeOK, NotifyIds
<1>2. notify_job[n] = NoJob
  BY <1>1 DEF IssuedParts, JobsWrittenOnce, NotifyTypeOK
<1>3. \A l \in NotifyIds : l # n => notify_job'[l] = notify_job[l]
  BY <1>1 DEF NotifyTypeOK
<1>4. JobsWrittenOnce'
  BY <1>1, <1>3 DEF IssuedParts, JobsWrittenOnce, NotifyTypeOK, NotifyIds
<1>5. ShownIsIssued'
  BY <1>2, <1>3 DEF IssuedParts, ShownIsIssued
<1>6. QueuedIsIssued'
  <2> SUFFICES ASSUME NEW i \in DOMAIN psends
               PROVE psends[i].work \in UpJobs /\ psends[i].work = notify_job'[psends[i].jobid]
    BY DEF QueuedIsIssued
  <2>0. psends[i] \in PSend
    BY DEF ShareTypeOK
  <2>1. psends[i].jobid \in NotifyIds
    BY <2>0 DEF PSend
  <2>2. psends[i].work \in UpJobs /\ psends[i].work = notify_job[psends[i].jobid]
    BY DEF IssuedParts, QueuedIsIssued
  <2>3. psends[i].jobid # n
    BY <1>2, <2>2, ConstAssumption
  <2>4. QED
    BY <1>3, <2>1, <2>2, <2>3
<1>7. HeldIsIssued'
  <2> SUFFICES ASSUME spc = "write"
               PROVE /\ smsg.work \in UpJobs /\ smsg.work = notify_job'[smsg.jobid]
                     /\ (sjob # NoJob => sjob = smsg.work)
    BY DEF HeldIsIssued
  <2>1. smsg.jobid \in NotifyIds
    BY DEF SendTypeOK, PSend
  <2>2. /\ smsg.work \in UpJobs /\ smsg.work = notify_job[smsg.jobid]
        /\ (sjob # NoJob => sjob = smsg.work)
    BY DEF IssuedParts, HeldIsIssued
  <2>3. smsg.jobid # n
    BY <1>2, <2>2, ConstAssumption
  <2>4. QED
    BY <1>3, <2>1, <2>2, <2>3
<1>8. SubmitCarriesIssuedJob'
  BY DEF IssuedParts, SubmitCarriesIssuedJob
<1>9. QED
  BY <1>4, <1>5, <1>6, <1>7, <1>8 DEF IssuedParts

(* The table and difficulty effects of a parsed method. *)
LEMMA IssuedApplyMethod ==
    ASSUME NotifyTypeOK, ShareTypeOK, SendTypeOK, IssuedParts, NEW m, ApplyMethod(m),
           UNCHANGED <<shown, psends, spc, smsg, sjob, submits>>
    PROVE IssuedParts'
<1>1. CASE m.kind = "notify"
  BY <1>1, IssuedAddNotify DEF ApplyMethod
<1>2. CASE m.kind # "notify"
  <2>1. UNCHANGED issuedVars
    BY <1>2 DEF ApplyMethod, notifyVars, issuedVars
  <2>2. QED
    BY <2>1, IssuedFrame
<1>3. QED
  BY <1>1, <1>2

(* getnotify copies the job of a local id out of the table. *)
LEMMA IssuedShow ==
    ASSUME IssuedParts, NEW c \in NotifyIds,
           shown' = [shown EXCEPT ![c] = notify_job[c]], StratTypeOK,
           UNCHANGED <<notify_job, notify_id, psends, spc, smsg, sjob, submits>>
    PROVE IssuedParts'
<1>1. ShownIsIssued'
  BY DEF IssuedParts, ShownIsIssued, StratTypeOK
<1>2. QED
  BY <1>1 DEF IssuedParts, JobsWrittenOnce, QueuedIsIssued, HeldIsIssued,
              SubmitCarriesIssuedJob


(* submit_share queues work the stratifier was shown. *)
LEMMA IssuedSubmitShare ==
    ASSUME StratTypeOK, ShareTypeOK, IssuedParts, NEW lid \in NotifyIds, SubmitShare(lid)
    PROVE IssuedParts'
<1>1. UNCHANGED <<notify_job, notify_id, shown, spc, smsg, sjob, submits>>
  BY DEF SubmitShare, sendVars, notifyVars
<1> DEFINE new == [jobid |-> lid, id |-> share_id, work |-> shown[lid]]
<1>2. psends' = Append(psends, new) /\ shown[lid] # NoJob
  BY DEF SubmitShare
<1>3. new.work \in UpJobs /\ new.work = notify_job[new.jobid]
  BY <1>2 DEF StratTypeOK, IssuedParts, ShownIsIssued
<1>4. QueuedIsIssued'
  BY <1>1, <1>2, <1>3 DEF IssuedParts, QueuedIsIssued, ShareTypeOK
<1>5. QED
  BY <1>1, <1>4 DEF IssuedParts, JobsWrittenOnce, ShownIsIssued, HeldIsIssued,
                    SubmitCarriesIssuedJob

(* proxy_send takes the head of psends and looks its job up. *)
LEMMA IssuedSendTake ==
    ASSUME ShareTypeOK, NotifyTypeOK, IssuedParts, SendTake PROVE IssuedParts'
<1>1. UNCHANGED <<notify_job, notify_id, shown, submits>>
  BY DEF SendTake, notifyVars
<1>2. /\ psends # <<>> /\ smsg' = Head(psends) /\ psends' = Tail(psends) /\ spc' = "write"
      /\ sjob' = IF Head(psends).jobid \in notify_instances
                 THEN notify_job[Head(psends).jobid] ELSE NoJob
  BY DEF SendTake
<1>3. Head(psends).work \in UpJobs /\ Head(psends).work = notify_job[Head(psends).jobid]
  BY <1>2 DEF IssuedParts, QueuedIsIssued, ShareTypeOK
<1>4. HeldIsIssued'
  BY <1>1, <1>2, <1>3 DEF HeldIsIssued
<1>5. QueuedIsIssued'
  BY <1>1, <1>2 DEF IssuedParts, QueuedIsIssued, ShareTypeOK
<1>6. QED
  BY <1>1, <1>4, <1>5 DEF IssuedParts, JobsWrittenOnce, ShownIsIssued, SubmitCarriesIssuedJob

(* proxy_send writes the job it looked up, which is the share's work. *)
LEMMA IssuedSendWrite ==
    ASSUME StratTypeOK, IssuedParts, SendWrite PROVE IssuedParts'
<1>1. UNCHANGED <<notify_job, notify_id, shown, psends, smsg, sjob>> /\ spc' = "wait"
  BY DEF SendWrite, notifyVars, shareVars
<1>2. sjob # NoJob => sjob = smsg.work
  BY DEF SendWrite, IssuedParts, HeldIsIssued
<1>3. \/ UNCHANGED submits
      \/ /\ sjob # NoJob
         /\ submits' = Append(submits,
              [id |-> smsg.id, lid |-> smsg.jobid, job |-> sjob, work |-> smsg.work,
               conn |-> conn, authed |-> rpc \in {"age", "read"}])
  BY Zenon DEF SendWrite
<1>4. SubmitCarriesIssuedJob'
  BY <1>2, <1>3 DEF IssuedParts, SubmitCarriesIssuedJob, StratTypeOK
<1>5. QED
  BY <1>1, <1>4 DEF IssuedParts, JobsWrittenOnce, ShownIsIssued, QueuedIsIssued, HeldIsIssued

(* send_notify shows the job the table holds, or crashes.                  *)
LEMMA IssuedGetNotify ==
    ASSUME NotifyTypeOK, StratTypeOK, IssuedParts, GetNotify PROVE IssuedParts'
<1>1. UNCHANGED <<notify_job, notify_id, psends, spc, smsg, sjob, submits>>
  BY DEF GetNotify, notifyVars, sendVars, shareVars
<1>2. CASE UNCHANGED shown
  BY <1>1, <1>2, IssuedFrame DEF issuedVars
<1>3. CASE shown' = [shown EXCEPT ![current_notify] = notify_job[current_notify]]
             /\ current_notify # NULL
  <2>1. current_notify \in NotifyIds
    BY <1>3 DEF NotifyTypeOK
  <2>2. QED
    BY <1>1, <1>3, <2>1, IssuedShow
<1>4. QED
  BY <1>2, <1>3 DEF GetNotify, NotifyTypeOK, NotifyIds, NULL

(* auth_stratum parses pushed methods and changes nothing else on the path. *)
LEMMA IssuedAuthRead ==
    ASSUME NotifyTypeOK, ShareTypeOK, SendTypeOK, IssuedParts, AuthRead PROVE IssuedParts'
<1>1. UNCHANGED <<shown, psends, spc, smsg, sjob, submits>>
  BY DEF AuthRead, sendVars, shareVars
<1>2. CASE ApplyMethod(Head(fromUp))
  BY <1>1, <1>2, IssuedApplyMethod
<1>3. CASE UNCHANGED notifyVars
  BY <1>1, <1>3, IssuedFrame DEF notifyVars, issuedVars
<1>4. QED
  BY <1>2, <1>3 DEF AuthRead

(* proxy_recv parses methods, removes shares and flushes the table.        *)
LEMMA IssuedRecvRead ==
    ASSUME NotifyTypeOK, ShareTypeOK, SendTypeOK, IssuedParts, RecvRead PROVE IssuedParts'
<1>1. UNCHANGED <<shown, spc, smsg, sjob, submits>>
  BY DEF RecvRead, sendVars
<1>2. CASE ApplyMethod(Head(fromUp)) /\ UNCHANGED psends
  BY <1>1, <1>2, IssuedApplyMethod
<1>3. CASE UNCHANGED <<notify_job, notify_id, psends>>
  BY <1>1, <1>3, IssuedFrame DEF issuedVars
<1>4. QED
  BY <1>2, <1>3 DEF RecvRead, shareVars, notifyVars, ParseShare, FlushNotifies

(* The actions off the job path. *)
LEMMA IssuedOthers ==
    ASSUME IssuedParts,
           \/ Connect \/ SubSend \/ SubRead \/ AuthSend \/ RecvAge \/ Shutdown
           \/ UpRespond \/ UpPush \/ UpDisconnect \/ Tick \/ UNCHANGED vars
    PROVE IssuedParts'
<1>1. UNCHANGED issuedVars
  BY Zenon DEF Connect, SubSend, SubRead, AuthSend, RecvAge, Shutdown, UpRespond, UpPush,
               UpDisconnect, Tick, vars, issuedVars, envUnchanged, sendVars, notifyVars,
               shareVars
<1>2. QED
  BY <1>1, IssuedFrame

(* Each step keeps the job path intact. *)
LEMMA IssuedStep == IssuedJobInv /\ [Next]_vars => IssuedJobInv'
<1> SUFFICES ASSUME TypeOK, IssuedParts, [Next]_vars PROVE TypeOK' /\ IssuedParts'
  BY IssuedSplit, IssuedSplitPrime
<1>1. TypeOK'
  BY TypeStep
<1>2. DataTypeOK
  BY TypeSplit
<1> SUFFICES IssuedParts'
  BY <1>1
<1>3. CASE AuthRead
  BY <1>2, <1>3, IssuedAuthRead DEF DataTypeOK
<1>4. CASE RecvRead
  BY <1>2, <1>4, IssuedRecvRead DEF DataTypeOK
<1>5. CASE SendTake
  BY <1>2, <1>5, IssuedSendTake DEF DataTypeOK
<1>6. CASE SendWrite
  BY <1>2, <1>6, IssuedSendWrite DEF DataTypeOK
<1>7. CASE GetNotify
  BY <1>2, <1>7, IssuedGetNotify DEF DataTypeOK
<1>8. CASE \E lid \in NotifyIds : SubmitShare(lid)
  BY <1>2, <1>8, IssuedSubmitShare DEF DataTypeOK
<1>9. CASE \/ Connect \/ SubSend \/ SubRead \/ AuthSend \/ RecvAge \/ Shutdown
           \/ UpRespond \/ UpPush \/ UpDisconnect \/ Tick \/ UNCHANGED vars
  BY <1>9, IssuedOthers
<1>10. QED
  BY <1>3, <1>4, <1>5, <1>6, <1>7, <1>8, <1>9
  DEF Next, Terminated, RecvThread, SendThread, ControlThread, Environment

(* proxy_mode starts with an empty job path.                               *)
LEMMA IssuedInit == Init => IssuedJobInv
<1> SUFFICES ASSUME Init PROVE TypeOK /\ IssuedParts
  BY IssuedSplit
<1>1. TypeOK
  BY TypeInit
<1>2. IssuedParts
  BY DEF Init, IssuedParts, JobsWrittenOnce, ShownIsIssued, QueuedIsIssued, HeldIsIssued,
         SubmitCarriesIssuedJob
<1>3. QED
  BY <1>1, <1>2

(* Every mining.submit proxy_send writes carries the upstream job that     *)
(* getnotify showed the stratifier for the share's local id, for every     *)
(* number of notifications, shares, connections and clock ticks: the       *)
(* invariant the safety run checks on a small instance.                    *)
THEOREM IssuedJob == Spec => []SubmitCarriesIssuedJob
<1>1. Spec => []IssuedJobInv
  BY IssuedInit, IssuedStep, PTL DEF Spec
<1>2. IssuedJobInv => SubmitCarriesIssuedJob
  BY DEF IssuedJobInv
<1>3. QED
  BY <1>1, <1>2, PTL

=============================================================================
