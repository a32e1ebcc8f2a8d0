------------------------------- MODULE Proxy -------------------------------
(***************************************************************************)
(* Proxy mode of the ckpool generator (src/src/generator.c): the generator *)
(* is a Stratum client of one upstream pool and serves its work to the     *)
(* local stratifier.  Three threads share one proxy_instance_t:            *)
(*   - the receive thread (proxy_recv) ages the notify and share tables,   *)
(*     reads upstream lines and dispatches them (parse_method, then        *)
(*     parse_share); when the upstream stalls or the socket fails it runs  *)
(*     reconnect_stratum: flush the notify table, connect, subscribe with  *)
(*     the three-tier fallback of subscribe_stratum, authorise.  Before    *)
(*     the threads exist proxy_mode runs the same connect / subscribe /    *)
(*     authorise steps once, and there every failure is fatal;            *)
(*   - the send thread (proxy_send) takes a share off psends, looks its    *)
(*     local job id up under notify_lock and writes mining.submit;         *)
(*   - the control thread (proxy_loop) serves the stratifier: getnotify,   *)
(*     share submissions and shutdown.                                     *)
(* The upstream pool, the TCP connection and the stratifier are the        *)
(* environment.  JSON lines are records keeping only the fields the        *)
(* generator's control flow depends on; strings are model values.          *)
(***************************************************************************)
EXTENDS Integers, Sequences, FiniteSets

CONSTANTS
    UpJobs,     \* upstream job ids (opaque strings in the code)
    NoJob,      \* no job: a failed lookup, or no work shown yet
    Diffs,      \* difficulties the upstream may announce (0 is ignored)
    PushKinds,  \* unsolicited methods the upstream may send
    MaxNotify,  \* bound on notify_id: notifications accepted
    MaxShares,  \* bound on share_id: shares the stratifier submits
    MaxConn,    \* bound on connections opened to the upstream
    MaxInbox,   \* bound on unread pushed upstream lines
    MaxTime,    \* bound on the clock
    NotifyAge,  \* the 600 s notify ageing threshold, in clock units
    ShareAge    \* the 120 s share ageing threshold, in clock units

ASSUME ConstAssumption ==
    /\ NoJob \notin UpJobs
    /\ Diffs \subseteq Nat
    /\ PushKinds \subseteq {"notify", "badnotify", "diff", "method"}
    /\ MaxNotify \in Nat \ {0}
    /\ MaxShares \in Nat \ {0}
    /\ MaxConn \in Nat \ {0}
    /\ MaxInbox \in Nat
    /\ MaxTime \in Nat
    /\ NotifyAge \in Nat
    /\ ShareAge \in Nat

NULL == -1          \* the NULL notify_instance_t pointer
NoShare == -1       \* the id of an upstream line that names no share
NotifyIds == 0 .. MaxNotify - 1
ShareIds == 0 .. MaxShares - 1
Conns == 0 .. MaxConn
Time == 0 .. MaxTime

(* An upstream line: kind, job id of a notify, difficulty of a            *)
(* set_difficulty, truth of a result, whether a subscribe reply reached    *)
(* the session-id copy, and the JSON-RPC id read by parse_share.           *)
LineKinds == {"subres", "authres", "result", "notify", "badnotify", "diff", "method"}
Line == [kind : LineKinds, job : UpJobs \cup {NoJob}, diff : Diffs \cup {0},
         ok : BOOLEAN, sid : BOOLEAN, id : ShareIds \cup {NoShare}]
MkLine(k, j, d, ok, sid, id) ==
    [kind |-> k, job |-> j, diff |-> d, ok |-> ok, sid |-> sid, id |-> id]
(* A request the generator writes upstream. *)
Request == [kind : {"subscribe", "authorize", "submit"}, id : ShareIds \cup {NoShare}]
(* A psends entry: the share as it leaves submit_share; work is a history  *)
(* field, the upstream job the stratifier was shown for jobid.             *)
PSend == [jobid : NotifyIds, id : ShareIds, work : UpJobs \cup {NoJob}]
(* History of every mining.submit written: the connection it went out on  *)
(* and whether that connection had finished its handshake.                 *)
Submit == [id : ShareIds, lid : NotifyIds, job : UpJobs, work : UpJobs \cup {NoJob},
           conn : Conns, authed : BOOLEAN]

VARIABLES
    mode,             \* "startup" (proxy_mode), "running", "exited", "crashed"
    rpc,              \* receive thread (and proxy_mode before it) program counter
    spc, smsg, sjob,  \* send thread: program counter, share taken, job looked up
    notify_instances, notify_job, notify_time, current_notify, notify_id,
    notify_conn,      \* history: connection each notification arrived on
    diff, diffed, notified,
    shares, share_time, share_id, psends,
    sessionid, no_sessionid, no_params,
    conn, sock, up_phase, toUp, fromUp,  \* the connection and the upstream
    now,
    stratNotify, shown,                  \* the stratifier
    submits, unsignalled                 \* history variables

notifyVars == <<notify_instances, notify_job, notify_time, current_notify,
                notify_id, notify_conn>>
shareVars == <<shares, share_time, share_id, psends>>
sessVars == <<sessionid, no_sessionid, no_params>>
netVars == <<conn, sock, up_phase, toUp, fromUp>>
sendVars == <<spc, smsg, sjob>>
vars == <<mode, rpc, sendVars, notifyVars, diff, diffed, notified, shareVars,
          sessVars, netVars, now, stratNotify, shown, submits, unsignalled>>

TypeOK ==
    /\ mode \in {"startup", "running", "exited", "crashed"}
    /\ rpc \in {"connect", "sub_send", "sub_read", "auth_send", "auth_read", "age", "read"}
    /\ spc \in {"wait", "write"}
    /\ smsg \in PSend
    /\ sjob \in UpJobs \cup {NoJob}
    /\ notify_instances \subseteq NotifyIds
    /\ notify_job \in [NotifyIds -> UpJobs \cup {NoJob}]
    /\ notify_time \in [NotifyIds -> Time]
    /\ notify_conn \in [NotifyIds -> Conns]
    /\ current_notify \in NotifyIds \cup {NULL}
    /\ notify_id \in 0 .. MaxNotify
    /\ diff \in Diffs \cup {0}
    /\ diffed \in BOOLEAN /\ notified \in BOOLEAN
    /\ shares \subseteq ShareIds
    /\ share_time \in [ShareIds -> Time]
    /\ share_id \in 0 .. MaxShares
    /\ psends \in Seq(PSend)
    /\ sessionid \in BOOLEAN /\ no_sessionid \in BOOLEAN /\ no_params \in BOOLEAN
    /\ conn \in Conns
    /\ sock \in {"open", "broken", "closed"}
    /\ up_phase \in {"new", "subscribed", "authed"}
    /\ toUp \in Seq(Request)
    /\ fromUp \in Seq(Line)
    /\ now \in Time
    /\ stratNotify \in BOOLEAN
    /\ shown \in [NotifyIds -> UpJobs \cup {NoJob}]
    /\ submits \in Seq(Submit)
    /\ unsignalled \in BOOLEAN

Init ==
    /\ mode = "startup"
    /\ rpc = "connect"
    /\ spc = "wait" /\ smsg = [jobid |-> 0, id |-> 0, work |-> NoJob] /\ sjob = NoJob
    /\ notify_instances = {}
    /\ notify_job = [i \in NotifyIds |-> NoJob]
    /\ notify_time = [i \in NotifyIds |-> 0]
    /\ notify_conn = [i \in NotifyIds |-> 0]
    /\ current_notify = NULL
    /\ notify_id = 0
    /\ diff = 0 /\ diffed = FALSE /\ notified = FALSE
    /\ shares = {} /\ share_time = [s \in ShareIds |-> 0] /\ share_id = 0
    /\ psends = <<>>
    /\ sessionid = FALSE /\ no_sessionid = FALSE /\ no_params = FALSE
    /\ conn = 0 /\ sock = "closed" /\ up_phase = "new" /\ toUp = <<>> /\ fromUp = <<>>
    /\ now = 0
    /\ stratNotify = FALSE /\ shown = [i \in NotifyIds |-> NoJob]
    /\ submits = <<>> /\ unsignalled = FALSE

-----------------------------------------------------------------------------
(* The connection.  send_json_msg (write_socket) succeeds only on an open  *)
(* socket; read_socket_line gets a line while one is buffered and we have  *)
(* not closed the descriptor, and fails after its timeout otherwise.       *)
Writable == sock = "open"
Readable == sock # "closed" /\ fromUp # <<>>

(* connect_proxy: connect_socket and keep_sockalive give a new connection. *)
OpenConn ==
    /\ conn < MaxConn
    /\ conn' = conn + 1
    /\ sock' = "open" /\ up_phase' = "new" /\ toUp' = <<>> /\ fromUp' = <<>>

(* close(cs->fd): the connection and whatever it still buffers are gone. *)
Close ==
    /\ sock' = "closed" /\ toUp' = <<>> /\ fromUp' = <<>>
    /\ UNCHANGED <<conn, up_phase>>

(* A failed connect, subscribe_stratum or auth_stratum: fatal in           *)
(* proxy_mode (generator exits 1), retried forever by reconnect_stratum.   *)
HandshakeFailed ==
    \/ mode = "startup" /\ mode' = "exited" /\ UNCHANGED rpc
    \/ mode = "running" /\ rpc' = "connect" /\ UNCHANGED mode

(* A failed connect_proxy.  At startup (proxy_mode lines 1152-1156) it     *)
(* skips the server before si->data is set; with no server alive the       *)
(* cleanup after out: (lines 1211-1214) loads proxi = si->data = NULL and  *)
(* reads proxi->enonce1, so the generator crashes instead of exiting 1.    *)
(* reconnect_stratum retries.                                              *)
ConnectFailed ==
    \/ mode = "startup" /\ mode' = "crashed" /\ UNCHANGED rpc
    \/ mode = "running" /\ rpc' = "connect" /\ UNCHANGED mode

-----------------------------------------------------------------------------
(* Connect, subscribe, authorise.                                          *)

(* proxy_mode's first connect_proxy, or the top of reconnect_stratum's     *)
(* retry loop: close(cs->fd), sleep after a failure, connect_proxy.        *)
Connect ==
    /\ rpc = "connect"
    /\ \/ OpenConn /\ rpc' = "sub_send" /\ UNCHANGED mode
       \/ Close /\ ConnectFailed
    /\ UNCHANGED <<sendVars, notifyVars, diff, diffed, notified, shareVars,
                   sessVars, now, stratNotify, shown, submits, unsignalled>>

(* subscribe_stratum lines 378-404: the request, with the session id, with *)
(* the client tag only, or with no parameters; a failed write closes the   *)
(* socket and gives up.                                                    *)
SubSend ==
    /\ rpc = "sub_send"
    /\ \/ /\ Writable
          /\ toUp' = Append(toUp, [kind |-> "subscribe", id |-> NoShare])
          /\ rpc' = "sub_read"
          /\ UNCHANGED <<mode, conn, sock, up_phase, fromUp>>
       \/ ~Writable /\ Close /\ HandshakeFailed
    /\ UNCHANGED <<sendVars, notifyVars, diff, diffed, notified, shareVars,
                   sessVars, now, stratNotify, shown, submits, unsignalled>>

(* parse_subscribe lines 323-328: the reply's session id is copied only    *)
(* while neither capability flag has been learned.  has: the reply got as  *)
(* far as the copy and carried a session id.                               *)
CopySessionIdAnyParams(has) == IF has /\ ~no_sessionid THEN TRUE ELSE sessionid
CopySessionId(has) == IF has /\ ~no_params /\ ~no_sessionid THEN TRUE ELSE sessionid

(* SubscribeFallback, mutated: the session id is freed but the pointer is  *)
(* kept, so the retry still sends the resume form.                         *)
SubscribeFallbackKeepsId(sess) ==
    \/ /\ no_params
       /\ Close /\ HandshakeFailed
       /\ sessionid' = sess /\ UNCHANGED <<no_sessionid, no_params>>
    \/ /\ ~no_params
       /\ IF sess THEN no_sessionid' = TRUE /\ UNCHANGED no_params
                  ELSE no_params' = TRUE /\ UNCHANGED no_sessionid
       /\ sessionid' = sess
       /\ \/ OpenConn /\ rpc' = "sub_send" /\ UNCHANGED mode
          \/ Close /\ HandshakeFailed

(* subscribe_stratum lines 409-427, after parse_subscribe failed leaving   *)
(* the session id sess: close; give up if the parameterless form failed;   *)
(* otherwise drop the session id (no_sessionid) or the parameters          *)
(* (no_params), reconnect and retry.                                       *)
SubscribeFallback(sess) ==
    \/ /\ no_params
       /\ Close /\ HandshakeFailed
       /\ sessionid' = sess /\ UNCHANGED <<no_sessionid, no_params>>
    \/ /\ ~no_params
       /\ IF sess THEN no_sessionid' = TRUE /\ UNCHANGED no_params
                  ELSE no_params' = TRUE /\ UNCHANGED no_sessionid
       /\ sessionid' = FALSE
       /\ \/ OpenConn /\ rpc' = "sub_send" /\ UNCHANGED mode
          \/ Close /\ HandshakeFailed

(* parse_subscribe: read the reply (5 s timeout); a valid result array     *)
(* with enonce1 and a nonce2len in 4..8 is the only success.               *)
SubRead ==
    /\ rpc = "sub_read"
    /\ LET m == Head(fromUp) IN
       \/ /\ Readable /\ m.kind = "subres" /\ m.ok
          /\ fromUp' = Tail(fromUp)
          /\ sessionid' = CopySessionId(m.sid)
          /\ rpc' = "auth_send"
          /\ UNCHANGED <<mode, conn, sock, up_phase, toUp, no_sessionid, no_params>>
       \/ /\ Readable /\ ~(m.kind = "subres" /\ m.ok)
          /\ SubscribeFallback(CopySessionId(m.kind = "subres" /\ m.sid))
       \/ ~Readable /\ SubscribeFallback(sessionid)
    /\ UNCHANGED <<sendVars, notifyVars, diff, diffed, notified, shareVars,
                   now, stratNotify, shown, submits, unsignalled>>

(* auth_stratum lines 625-635: write mining.authorize; a failed write      *)
(* closes the socket and fails.                                            *)
AuthSend ==
    /\ rpc = "auth_send"
    /\ \/ /\ Writable
          /\ toUp' = Append(toUp, [kind |-> "authorize", id |-> NoShare])
          /\ rpc' = "auth_read"
          /\ UNCHANGED <<mode, conn, sock, up_phase, fromUp>>
       \/ ~Writable /\ Close /\ HandshakeFailed
    /\ UNCHANGED <<sendVars, notifyVars, diff, diffed, notified, shareVars,
                   sessVars, now, stratNotify, shown, submits, unsignalled>>

-----------------------------------------------------------------------------
(* parse_method.  It returns true for a well-formed mining.notify, for     *)
(* mining.set_difficulty and for the client.* methods; a malformed notify  *)
(* ("badnotify") clears notified and returns false.                        *)
IsMethod(m) == m.kind \in {"notify", "diff", "method"}

(* parse_diff: a nonzero difficulty different from the current one. *)
NewDiff(m) == m.kind = "diff" /\ m.diff # 0 /\ m.diff # diff

(* parse_notify lines 494-500, mutated: ni->id = ++proxi->notify_id. *)
AddNotifyPreInc(j) ==
    /\ notify_id < MaxNotify
    /\ notify_instances' = notify_instances \cup {notify_id + 1}
    /\ notify_job' = [notify_job EXCEPT ![notify_id + 1] = j]
    /\ notify_time' = [notify_time EXCEPT ![notify_id + 1] = now]
    /\ notify_conn' = [notify_conn EXCEPT ![notify_id + 1] = conn]
    /\ current_notify' = notify_id + 1
    /\ notify_id' = notify_id + 1

(* parse_notify lines 494-500: under notify_lock the notification gets the *)
(* next local id, enters the table and becomes current_notify.             *)
AddNotify(j) ==
    /\ notify_id < MaxNotify
    /\ notify_instances' = notify_instances \cup {notify_id}
    /\ notify_job' = [notify_job EXCEPT ![notify_id] = j]
    /\ notify_time' = [notify_time EXCEPT ![notify_id] = now]
    /\ notify_conn' = [notify_conn EXCEPT ![notify_id] = conn]
    /\ current_notify' = notify_id
    /\ notify_id' = notify_id + 1

(* The table and difficulty effects of a parse_method returning true. *)
ApplyMethod(m) ==
    /\ IF m.kind = "notify" THEN AddNotify(m.job) ELSE UNCHANGED notifyVars
    /\ diff' = IF NewDiff(m) THEN m.diff ELSE diff

(* Authorised.  proxy_mode starts the threads and proxy_loop tells the     *)
(* stratifier "subscribe" and "notify" and clears notified (lines          *)
(* 761-765); reconnect_stratum tells it "subscribe" only (line 846).       *)
(* nfy: notified after the auth loop.                                      *)
AuthDone(nfy) ==
    \/ /\ mode = "startup" /\ mode' = "running" /\ rpc' = "age"
       /\ stratNotify' = TRUE /\ notified' = FALSE /\ unsignalled' = FALSE
    \/ /\ mode = "running" /\ rpc' = "age"
       /\ notified' = nfy /\ UNCHANGED <<mode, stratNotify, unsignalled>>

(* AuthRead, mutated: the reply is not tested for JSON true, so any answer *)
(* to a request counts as a successful authorisation.                      *)
AuthReadAnyResult ==
    /\ rpc = "auth_read"
    /\ LET m == Head(fromUp) IN
       \/ /\ ~Readable
          /\ HandshakeFailed
          /\ UNCHANGED <<notifyVars, diff, diffed, notified, netVars, stratNotify, unsignalled>>
       \/ /\ Readable /\ IsMethod(m)
          /\ fromUp' = Tail(fromUp)
          /\ ApplyMethod(m)
          /\ notified' = (notified \/ m.kind = "notify")
          /\ diffed' = (diffed \/ NewDiff(m))
          /\ unsignalled' = (unsignalled \/ m.kind = "notify")
          /\ UNCHANGED <<mode, rpc, conn, sock, up_phase, toUp, stratNotify>>
       \/ /\ Readable /\ ~IsMethod(m)
          /\ fromUp' = Tail(fromUp)
          /\ LET nfy == notified /\ m.kind # "badnotify" IN
               IF m.kind \in {"authres", "result"}
               THEN AuthDone(nfy)
               ELSE HandshakeFailed /\ notified' = nfy /\ UNCHANGED <<stratNotify, unsignalled>>
          /\ UNCHANGED <<notifyVars, diff, diffed, conn, sock, up_phase, toUp>>
    /\ UNCHANGED <<sendVars, shareVars, sessVars, now, shown, submits>>

(* auth_stratum lines 639-661: methods pushed before the reply are parsed  *)
(* (parse_method); the first other line is taken as the reply and its      *)
(* result must be JSON true.                                               *)
AuthRead ==
    /\ rpc = "auth_read"
    /\ LET m == Head(fromUp) IN
       \/ /\ ~Readable
          /\ HandshakeFailed
          /\ UNCHANGED <<notifyVars, diff, diffed, notified, netVars, stratNotify, unsignalled>>
       \/ /\ Readable /\ IsMethod(m)
          /\ fromUp' = Tail(fromUp)
          /\ ApplyMethod(m)
          /\ notified' = (notified \/ m.kind = "notify")
          /\ diffed' = (diffed \/ NewDiff(m))
          /\ unsignalled' = (unsignalled \/ m.kind = "notify")
          /\ UNCHANGED <<mode, rpc, conn, sock, up_phase, toUp, stratNotify>>
       \/ /\ Readable /\ ~IsMethod(m)
          /\ fromUp' = Tail(fromUp)
          /\ LET nfy == notified /\ m.kind # "badnotify" IN
               IF m.kind \in {"authres", "result"} /\ m.ok
               THEN AuthDone(nfy)
               ELSE HandshakeFailed /\ notified' = nfy /\ UNCHANGED <<stratNotify, unsignalled>>
          /\ UNCHANGED <<notifyVars, diff, diffed, conn, sock, up_phase, toUp>>
    /\ UNCHANGED <<sendVars, shareVars, sessVars, now, shown, submits>>

-----------------------------------------------------------------------------
(* The receive loop, proxy_recv.                                           *)

(* Lines 905-914: with now read once, notifications older than NotifyAge   *)
(* are reaped in insertion (= id) order while three or more remain.        *)
OldNotifies == {i \in notify_instances : notify_time[i] + NotifyAge < now}
(* Reaped, mutated: every old entry goes (no count test), or the loop     *)
(* breaks only below two entries.                                         *)
ReapedAll == OldNotifies
ReapedKeepsOne == {i \in OldNotifies :
             Cardinality({k \in OldNotifies : k <= i}) + 1 <= Cardinality(notify_instances)}
Reaped == {i \in OldNotifies :
             Cardinality({k \in OldNotifies : k <= i}) + 2 <= Cardinality(notify_instances)}

(* Lines 903-924: age the notify table, then the shares older than        *)
(* ShareAge, each under its own lock.                                      *)
RecvAge ==
    /\ rpc = "age"
    /\ notify_instances' = notify_instances \ Reaped
    /\ shares' = {s \in shares : ~(share_time[s] + ShareAge < now)}
    /\ rpc' = "read"
    /\ UNCHANGED <<mode, sendVars, notify_job, notify_time, current_notify, notify_id,
                   notify_conn, diff, diffed, notified, share_time, share_id, psends,
                   sessVars, netVars, now, stratNotify, shown, submits, unsignalled>>

(* reconnect_stratum lines 826-832, mutated to restart the local ids. *)
FlushNotifiesResetIds ==
    /\ notify_instances' = {} /\ notify_id' = 0
    /\ UNCHANGED <<notify_job, notify_time, current_notify, notify_conn>>

(* reconnect_stratum lines 826-832: every notification is freed under      *)
(* notify_lock; current_notify is left as it was.                          *)
FlushNotifies ==
    /\ notify_instances' = {}
    /\ UNCHANGED <<notify_job, notify_time, current_notify, notify_id, notify_conn>>

(* parse_share lines 857-878: the share whose id the line carries (a JSON  *)
(* null id reads as 0) is removed under share_lock; no match is logged.    *)
ParseShare(id) ==
    /\ shares' = shares \ {id}
    /\ UNCHANGED <<share_time, share_id, psends>>

(* Lines 926-952: read a line (24 reads of 5 s).  A method is parsed and   *)
(* the pending "notify" and "diff" signals sent; any other line goes to    *)
(* parse_share.  A stall or a read error starts reconnect_stratum.         *)
RecvRead ==
    /\ rpc = "read"
    /\ LET m == Head(fromUp) IN
       \/ /\ Readable /\ IsMethod(m)
          /\ fromUp' = Tail(fromUp)
          /\ ApplyMethod(m)
          /\ stratNotify' = (stratNotify \/ notified \/ m.kind = "notify")
          /\ unsignalled' = IF notified \/ m.kind = "notify" THEN FALSE ELSE unsignalled
          /\ notified' = FALSE /\ diffed' = FALSE
          /\ rpc' = "age"
          /\ UNCHANGED <<shareVars, conn, sock, up_phase, toUp>>
       \/ /\ Readable /\ ~IsMethod(m)
          /\ fromUp' = Tail(fromUp)
          /\ notified' = IF m.kind = "badnotify" THEN FALSE ELSE notified
          /\ ParseShare(m.id)
          /\ rpc' = "age"
          /\ UNCHANGED <<notifyVars, diff, diffed, stratNotify, unsignalled,
                         conn, sock, up_phase, toUp>>
       \/ /\ ~Readable
          /\ FlushNotifies
          /\ rpc' = "connect"
          /\ UNCHANGED <<diff, diffed, notified, shareVars, netVars, stratNotify, unsignalled>>
    /\ UNCHANGED <<mode, sendVars, sessVars, now, shown, submits>>

-----------------------------------------------------------------------------
(* The send thread, proxy_send.                                            *)

(* Lines 973-990: take the head of psends under psend_lock (waiting on    *)
(* psend_cond while it is empty), then copy the upstream job id of its     *)
(* local jobid out of the notify table under notify_lock.                  *)
SendTake ==
    /\ mode = "running" /\ spc = "wait"
    /\ psends # <<>>
    /\ smsg' = Head(psends)
    /\ psends' = Tail(psends)
    /\ sjob' = IF Head(psends).jobid \in notify_instances
               THEN notify_job[Head(psends).jobid] ELSE NoJob
    /\ spc' = "write"
    /\ UNCHANGED <<mode, rpc, notifyVars, diff, diffed, notified, shares, share_time,
                   share_id, sessVars, netVars, now, stratNotify, shown, submits, unsignalled>>

(* Lines 992-1009: a found job goes out as mining.submit on whatever      *)
(* connection cs->fd is now, and a failed write closes it.  A job not      *)
(* found is dropped, but ret (line 971) is then read uninitialised, so the *)
(* socket may be closed as well.                                           *)
SendWrite ==
    /\ mode = "running" /\ spc = "write"
    /\ \/ /\ sjob # NoJob /\ Writable
          /\ toUp' = Append(toUp, [kind |-> "submit", id |-> smsg.id])
          /\ submits' = Append(submits,
                [id |-> smsg.id, lid |-> smsg.jobid, job |-> sjob, work |-> smsg.work,
                 conn |-> conn, authed |-> rpc \in {"age", "read"}])
          /\ UNCHANGED <<conn, sock, up_phase, fromUp>>
       \/ sjob # NoJob /\ ~Writable /\ Close /\ UNCHANGED submits
       \/ sjob = NoJob /\ UNCHANGED <<netVars, submits>>
       \/ sjob = NoJob /\ Close /\ UNCHANGED submits
    /\ spc' = "wait"
    /\ UNCHANGED <<mode, rpc, smsg, sjob, notifyVars, diff, diffed, notified, shareVars,
                   sessVars, now, stratNotify, shown, unsignalled>>

-----------------------------------------------------------------------------
(* The control thread, proxy_loop, driven by the stratifier.               *)

(* send_notify lines 692-703, on the stratifier's getnotify after a        *)
(* "notify" signal: current_notify is dereferenced under notify_lock with  *)
(* no check.  NULL crashes the generator; a freed notification yields what *)
(* its freed block still holds, or a crash.                                *)
GetNotify ==
    /\ mode = "running" /\ stratNotify
    /\ stratNotify' = FALSE
    /\ \/ /\ current_notify \in notify_instances
          /\ shown' = [shown EXCEPT ![current_notify] = notify_job[current_notify]]
          /\ UNCHANGED mode
       \/ current_notify = NULL /\ mode' = "crashed" /\ UNCHANGED shown
       \/ /\ current_notify \notin notify_instances \cup {NULL}
          /\ \/ mode' = "crashed" /\ UNCHANGED shown
             \/ /\ shown' = [shown EXCEPT ![current_notify] = notify_job[current_notify]]
                /\ UNCHANGED mode
    /\ UNCHANGED <<rpc, sendVars, notifyVars, diff, diffed, notified, shareVars,
                   sessVars, netVars, now, submits, unsignalled>>

(* submit_share lines 730-751, mutated to push the share at the front. *)
SubmitShareLifo(lid) ==
    /\ mode = "running"
    /\ shown[lid] # NoJob
    /\ share_id < MaxShares
    /\ shares' = shares \cup {share_id}
    /\ share_time' = [share_time EXCEPT ![share_id] = now]
    /\ share_id' = share_id + 1
    /\ psends' = <<[jobid |-> lid, id |-> share_id, work |-> shown[lid]]>> \o psends
    /\ UNCHANGED <<mode, rpc, sendVars, notifyVars, diff, diffed, notified, sessVars,
                   netVars, now, stratNotify, shown, submits, unsignalled>>

(* submit_share lines 730-751, on a share the stratifier found on the work *)
(* shown to it under local job id lid: a share record with the next share  *)
(* id and the time under share_lock, then the message appended to psends   *)
(* under psend_lock.                                                       *)
SubmitShare(lid) ==
    /\ mode = "running"
    /\ shown[lid] # NoJob
    /\ share_id < MaxShares
    /\ shares' = shares \cup {share_id}
    /\ share_time' = [share_time EXCEPT ![share_id] = now]
    /\ share_id' = share_id + 1
    /\ psends' = Append(psends, [jobid |-> lid, id |-> share_id, work |-> shown[lid]])
    /\ UNCHANGED <<mode, rpc, sendVars, notifyVars, diff, diffed, notified, sessVars,
                   netVars, now, stratNotify, shown, submits, unsignalled>>

(* proxy_loop lines 784-786 and proxy_mode lines 1204-1209: "shutdown"    *)
(* ends the loop, the threads are cancelled and the generator exits 0.     *)
(* A failed accept() (lines 767-773) leaves the loop the same way with     *)
(* ret 1; the exit code is not modelled.                                   *)
Shutdown ==
    /\ mode = "running"
    /\ mode' = "exited"
    /\ UNCHANGED <<rpc, sendVars, notifyVars, diff, diffed, notified, shareVars,
                   sessVars, netVars, now, stratNotify, shown, submits, unsignalled>>

-----------------------------------------------------------------------------
(* The upstream pool, the network and the clock.                           *)

envUnchanged == <<mode, rpc, sendVars, notifyVars, diff, diffed, notified, shareVars,
                  sessVars, now, stratNotify, shown, submits, unsignalled>>

(* The pool answers requests in order; it accepts an authorize only after *)
(* a subscribe and a share only after an authorize.                        *)
UpRespond ==
    /\ sock = "open" /\ toUp # <<>>
    /\ toUp' = Tail(toUp)
    /\ LET r == Head(toUp) IN
       \/ /\ r.kind = "subscribe"
          /\ \E ok, sid \in BOOLEAN :
               /\ fromUp' = Append(fromUp, MkLine("subres", NoJob, 0, ok, sid, NoShare))
               /\ up_phase' = IF ok THEN "subscribed" ELSE up_phase
       \/ /\ r.kind = "authorize"
          /\ \E ok \in IF up_phase = "subscribed" THEN BOOLEAN ELSE {FALSE} :
               /\ fromUp' = Append(fromUp, MkLine("authres", NoJob, 0, ok, FALSE, NoShare))
               /\ up_phase' = IF ok THEN "authed" ELSE up_phase
       \/ /\ r.kind = "submit"
          /\ \E ok \in IF up_phase = "authed" THEN BOOLEAN ELSE {FALSE} :
               fromUp' = Append(fromUp, MkLine("result", NoJob, 0, ok, FALSE, r.id))
          /\ UNCHANGED up_phase
    /\ UNCHANGED <<conn, sock>>
    /\ UNCHANGED envUnchanged

(* Notifications not yet read: the pool sends no more than MaxNotify. *)
PendingNotifies == Cardinality({i \in DOMAIN fromUp : fromUp[i].kind = "notify"})

(* After subscribing, the pool pushes methods: a notify (id null), a       *)
(* malformed notify, a set_difficulty, or a client.* method.               *)
UpPush ==
    /\ sock = "open" /\ up_phase # "new" /\ Len(fromUp) < MaxInbox
    /\ \/ /\ "notify" \in PushKinds /\ notify_id + PendingNotifies < MaxNotify
          /\ \E j \in UpJobs :
               fromUp' = Append(fromUp, MkLine("notify", j, 0, FALSE, FALSE, NoShare))
       \/ /\ "badnotify" \in PushKinds
          /\ fromUp' = Append(fromUp, MkLine("badnotify", NoJob, 0, FALSE, FALSE, 0))
       \/ /\ "diff" \in PushKinds
          /\ \E d \in Diffs :
               fromUp' = Append(fromUp, MkLine("diff", NoJob, d, FALSE, FALSE, NoShare))
       \/ /\ "method" \in PushKinds
          /\ fromUp' = Append(fromUp, MkLine("method", NoJob, 0, FALSE, FALSE, NoShare))
    /\ UNCHANGED <<conn, sock, up_phase, toUp>>
    /\ UNCHANGED envUnchanged

(* The pool or the network drops the connection. *)
UpDisconnect ==
    /\ sock = "open"
    /\ sock' = "broken"
    /\ UNCHANGED <<conn, up_phase, toUp, fromUp>>
    /\ UNCHANGED envUnchanged

Tick ==
    /\ now < MaxTime
    /\ now' = now + 1
    /\ UNCHANGED <<mode, rpc, sendVars, notifyVars, diff, diffed, notified, shareVars,
                   sessVars, netVars, stratNotify, shown, submits, unsignalled>>

-----------------------------------------------------------------------------
Live == mode \in {"startup", "running"}

(* After exit or a crash nothing happens any more. *)
Terminated == ~Live /\ UNCHANGED vars

RecvThread == Connect \/ SubSend \/ SubRead \/ AuthSend \/ AuthRead \/ RecvAge \/ RecvRead
SendThread == SendTake \/ SendWrite
ControlThread == GetNotify \/ (\E lid \in NotifyIds : SubmitShare(lid)) \/ Shutdown
Environment == UpRespond \/ UpPush \/ UpDisconnect \/ Tick

Next ==
    \/ Live /\ (RecvThread \/ SendThread \/ ControlThread \/ Environment)
    \/ Terminated

Spec == Init /\ [][Next]_vars

-----------------------------------------------------------------------------
(* Properties.                                                             *)

(* No share is submitted under the wrong job: every mining.submit the send *)
(* thread writes carries the upstream job id getnotify showed the          *)
(* stratifier for the share's local job id, across reconnects, ageing and  *)
(* the lookup in proxy_send.  It rests on notify_id never restarting.      *)
SubmitCarriesIssuedJob ==
    \A i \in DOMAIN submits : submits[i].job = submits[i].work

(* An ageing pass of proxy_recv frees no live notification with fewer    *)
(* than n younger live entries.                                            *)
NewestKept(n) ==
    rpc = "age" /\ rpc' = "read" =>
        \A i \in notify_instances :
            Cardinality({k \in notify_instances : i < k}) < n => i \in notify_instances'

(* Ageing in proxy_recv never frees the two newest notifications, however  *)
(* old: current_notify, and the one before it, which shares the stratifier *)
(* found just before the last mining.notify still name when proxy_send     *)
(* looks them up.  The loop at 905-914 tests the count only and frees in   *)
(* insertion order, so this rests on ids and notify times rising together. *)
AgeingKeepsNewestTwo == [][NewestKept(2)]_vars

(* Spec sections 3 and 4.4 and scenario 5: ageing reaps an entry only when *)
(* more than two younger entries exist, so 3 of 10 old notifications are  *)
(* retained.  The loop at 905-914 stops only when fewer than three remain, *)
(* and keeps 2.                                                            *)
AgeingKeepsNewestThree == [][NewestKept(3)]_vars

(* Spec sections 3 and 5: the notify table, current_notify and notify_id, *)
(* under parse_notify, ageing in proxy_recv and the flush of               *)
(* reconnect_stratum, behave as the abstract cache of module NotifyCache   *)
(* (linked: the receive thread is in its read loop, not reconnecting):     *)
(* ids issued in order and never reused, an id's job never rewritten,      *)
(* current_notify always the newest notification, and ageing never        *)
(* freeing the current one.                                                *)
Cache == INSTANCE NotifyCache
    WITH Size <- MaxNotify, Jobs <- UpJobs \cup {NoJob}, Empty <- NoJob, None <- NULL,
         live <- notify_instances, job <- notify_job, next <- notify_id,
         current <- current_notify, linked <- rpc \in {"age", "read"}
CacheRefined == Cache!Spec

(* The ids of a sequence of share records (psends or submits). *)
ShareIdSeq(s) == [k \in 1 .. Len(s) |-> s[k].id]

(* The share path implements ShareQueue: submit_share's append is Enqueue, *)
(* proxy_send's write is Send and its drop or failed write is Drop; the    *)
(* share the send thread holds between its two steps is still the head of *)
(* the abstract queue.                                                     *)
Queue == INSTANCE ShareQueue
    WITH pending <- (IF spc = "write" THEN <<smsg.id>> ELSE <<>>) \o ShareIdSeq(psends),
         sent <- ShareIdSeq(submits),
         next <- share_id

(* Spec section 5, FIFO share submission, as a whole: shares get           *)
(* consecutive ids, leave the queue oldest first, and every mining.submit  *)
(* written is the oldest share still queued.                               *)
QueueRefined == Queue!Spec

(* The subscribe fallback implements SubscribeLadder: the tier is the form *)
(* subscribe_stratum picks (lines 378-396), resuming is allowed while      *)
(* neither no_sessionid nor no_params is set (the copy at line 323).       *)
Ladder == INSTANCE SubscribeLadder
    WITH tier <- IF sessionid THEN 1 ELSE IF no_params THEN 3 ELSE 2,
         resumable <- ~no_sessionid /\ ~no_params

(* Spec section 4.3, the three-tier subscribe as a whole: each failure     *)
(* moves down the ladder and ends resuming for good, tier 3 is final, and  *)
(* only a reply accepted while resuming is allowed makes the next          *)
(* subscribe a resume.                                                     *)
LadderRefined == Ladder!Spec

(* Spec section 8, subscribe fallback: once the parameter form has been    *)
(* given up (no_params) no session id is held, so subscribe_stratum keeps  *)
(* using the third, parameterless form.                                    *)
NoParamsNoSession == no_params => ~sessionid

(* Spec sections 5 and 9: the receive thread reaches its read loop only   *)
(* on a connection the pool has authorised.  auth_stratum takes the first *)
(* line that is not a method as the answer to mining.authorize, and that  *)
(* may be the result of a share proxy_send wrote on the new connection    *)
(* before the handshake; it goes on only if the answer is JSON true.      *)
ReadLoopAuthorised == rpc \in {"age", "read"} => up_phase = "authed"

(* Spec section 3: current_notify is NULL or points at a live entry of the *)
(* notify table.  reconnect_stratum frees every entry and leaves           *)
(* current_notify pointing at freed memory.                                *)
CurrentNotifyValid == current_notify = NULL \/ current_notify \in notify_instances

(* getnotify is always answered: send_notify never dereferences a NULL or  *)
(* freed current_notify and brings the generator down.  Only getnotify     *)
(* clears the stratifier's pending "notify".                               *)
GetNotifyNeverCrashes ==
    [][stratNotify /\ ~stratNotify' => mode' # "crashed"]_vars

(* Spec sections 5 and 7: a failure of the startup connect, subscribe or   *)
(* authorise is fatal: the generator exits with code 1 (and generator()    *)
(* tells the main process to shut down); it does not crash.               *)
StartupFailureExits ==
    [][mode = "startup" /\ mode' # "startup" => mode' \in {"running", "exited"}]_vars

(* Spec section 8: a mining.submit carries the job that, under notify_lock *)
(* at send time, belongs to the share's local id, so it never names a job  *)
(* of an earlier connection (reconnect_stratum flushes them).              *)
SubmitJobOfSession ==
    \A i \in DOMAIN submits : submits[i].conn = notify_conn[submits[i].lid]

(* Spec sections 5 and 9: reconnect re-subscribes and re-authorises before *)
(* work resumes, so no mining.submit is written on a connection whose      *)
(* handshake has not completed.                                            *)
SubmitOnAuthorisedConn == \A i \in DOMAIN submits : submits[i].authed

(* Spec section 4.5: a share whose local job id cannot be resolved is      *)
(* dropped; proxy_send closes the upstream socket only after a failed      *)
(* write.                                                                  *)
DropKeepsConnection ==
    [][spc = "write" /\ spc' = "wait" /\ sjob = NoJob => sock' = sock]_vars

(* Spec section 3: a share record leaves the tracker only on the upstream's *)
(* response to that share, or when ageing finds it older than ShareAge.    *)
ShareRemovedOnlyByOwnResult ==
    [][\A k \in shares \ shares' :
          \/ share_time[k] + ShareAge < now
          \/ fromUp # <<>> /\ Head(fromUp).kind = "result" /\ Head(fromUp).id = k]_vars

(* Spec section 5: one "notify" signal per new job.  Whenever the receive  *)
(* loop is back at its top, every notification accepted so far has been    *)
(* signalled to the stratifier.                                            *)
EveryNotifySignalled == (mode = "running" /\ rpc = "age") => ~unsignalled

(* Spec section 4.6 step 5: a difficulty change that parse_method accepted *)
(* is signalled to the stratifier ("diff") once dispatch returns, so       *)
(* whenever the receive loop is back at its top no change is pending.      *)
EveryDiffSignalled == (mode = "running" /\ rpc = "age") => ~diffed

-----------------------------------------------------------------------------
(* The inductive strengthening of SubmitCarriesIssuedJob used by the       *)
(* proof in ProxyProofs.  A local id's job is written once, when the id is *)
(* handed out (ids at or above notify_id carry no job); what the           *)
(* stratifier was shown, every queued share and the share the send thread  *)
(* holds all name the job written for their local id.                      *)
JobsWrittenOnce == \A l \in NotifyIds : l >= notify_id => notify_job[l] = NoJob
ShownIsIssued == \A l \in NotifyIds : shown[l] # NoJob => shown[l] = notify_job[l]
QueuedIsIssued ==
    \A i \in DOMAIN psends :
        psends[i].work \in UpJobs /\ psends[i].work = notify_job[psends[i].jobid]
HeldIsIssued ==
    spc = "write" =>
        /\ smsg.work \in UpJobs /\ smsg.work = notify_job[smsg.jobid]
        /\ (sjob # NoJob => sjob = smsg.work)
IssuedJobInv ==
    /\ TypeOK
    /\ JobsWrittenOnce /\ ShownIsIssued /\ QueuedIsIssued /\ HeldIsIssued
    /\ SubmitCarriesIssuedJob

(* The inductive invariant behind CacheRefined, used by CacheProofs.       *)
(* parse_notify hands out ids in increasing order and stamps them with the *)
(* current time, so the entry current_notify points at, while it is live,  *)
(* is the newest by id and by time; ageing, which frees entries in id      *)
(* order while three or more remain, therefore never reaches it.           *)
IdsBelowNext == \A k \in notify_instances : k < notify_id
TimesPast == \A k \in notify_instances : notify_time[k] <= now
CurrentNewest ==
    current_notify \in notify_instances =>
        \A k \in notify_instances :
            k <= current_notify /\ notify_time[k] <= notify_time[current_notify]
TimesFollowIds ==
    \A i, k \in notify_instances : i < k => notify_time[i] <= notify_time[k]
CacheInv == TypeOK /\ IdsBelowNext /\ TimesPast /\ CurrentNewest /\ TimesFollowIds


(* The inductive strengthening of ReadLoopAuthorised used by SessionProofs. *)
(* A connection sees one subscribe, written on a fresh connection and      *)
(* answered before anything else the receive thread waits for; the pool    *)
(* answers in order and says true to an authorize or a share only once it  *)
(* has authorised the connection, which a later subscribe alone could undo.*)
SubscribeUnsent ==
    rpc = "sub_send" =>
        /\ up_phase = "new"
        /\ \A k \in DOMAIN toUp : toUp[k].kind # "subscribe"
        /\ \A n \in DOMAIN fromUp : fromUp[n].kind # "subres"
SubscribeAwaited ==
    \A k \in DOMAIN toUp :
        toUp[k].kind = "subscribe" =>
            /\ rpc = "sub_read" /\ up_phase = "new"
            /\ \A n \in DOMAIN toUp : n # k => toUp[n].kind # "subscribe"
            /\ \A n \in DOMAIN fromUp : fromUp[n].kind # "subres"
AcceptedMeansAuthed ==
    \A n \in DOMAIN fromUp :
        fromUp[n].kind \in {"authres", "result"} /\ fromUp[n].ok => up_phase = "authed"
SessionInv ==
    /\ TypeOK
    /\ SubscribeUnsent /\ SubscribeAwaited /\ AcceptedMeansAuthed
    /\ ReadLoopAuthorised

(* The inductive invariant behind LadderRefined, used by SessionProofs: a  *)
(* session id is only ever held while resuming is allowed.                 *)
HeldIdResumable == sessionid => ~no_sessionid
LadderInv == TypeOK /\ HeldIdResumable /\ NoParamsNoSession

=============================================================================
