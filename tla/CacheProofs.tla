---------------------------- MODULE CacheProofs ----------------------------
(***************************************************************************)
(* Proofs that the generator's notify table implements the abstract cache *)
(* of module NotifyCache (Proxy!Cache), for every value of the constants   *)
(* that satisfies ConstAssumption.                                         *)
(*   - CacheRefinement: Spec => Cache!Spec.  parse_notify is Issue, the    *)
(*     ageing of proxy_recv is Age, the flush of reconnect_stratum is      *)
(*     Flush, a completed handshake is Resume; every other step stutters.  *)
(*   - AgeingKeepsTwo: ageing never frees either of the two newest live    *)
(*     notifications (AgeingKeepsNewestTwo).                               *)
(* Both rest on the inductive invariant CacheInv of module Proxy: ids are  *)
(* below notify_id and stamped no later than now, a larger id never has an *)
(* earlier time, and the current entry, while live, is the newest.  The    *)
(* ageing loop tests only the count and frees in id order; since old       *)
(* entries are then exactly the ones below some id, an entry reaped with   *)
(* fewer than two younger ones would make the reap condition ask for more  *)
(* entries than the table holds.                                           *)
(***************************************************************************)
EXTENDS ProxyProofs, FiniteSetTheorems

USE ConstAssumption

(* The parts of CacheInv beyond TypeOK. *)
CacheParts == IdsBelowNext /\ TimesPast /\ CurrentNewest /\ TimesFollowIds

(* The variables the parts read. *)
cacheState == <<notify_instances, notify_time, current_notify, notify_id, now>>

(* The refinement mapping's linked flag. *)
Linked == rpc \in {"age", "read"}

(* CacheInv is TypeOK and the parts.                                       *)
LEMMA CacheSplit == CacheInv <=> TypeOK /\ CacheParts
BY Zenon DEF CacheInv, CacheParts

(* The same split, in the next state.                                      *)
LEMMA CacheSplitPrime == CacheInv' <=> TypeOK' /\ CacheParts'
BY Zenon DEF CacheInv, CacheParts

-----------------------------------------------------------------------------
(* The invariant.                                                          *)

(* A step that only frees entries and lets the clock run keeps the parts:  *)
(* ageing, the flush, a tick and every step that leaves the table alone.   *)
LEMMA CacheShrink ==
    ASSUME NotifyTypeOK, now \in Time, CacheParts,
           notify_instances' \subseteq notify_instances, now' \in Time, now <= now',
           UNCHANGED <<notify_time, current_notify, notify_id>>
    PROVE CacheParts'
<1>1. IdsBelowNext'
  BY DEF CacheParts, IdsBelowNext
<1>2. TimesPast'
  BY DEF CacheParts, TimesPast, NotifyTypeOK, Time
<1>3. CurrentNewest'
  BY DEF CacheParts, CurrentNewest
<1>4. TimesFollowIds'
  BY DEF CacheParts, TimesFollowIds
<1>5. QED
  BY <1>1, <1>2, <1>3, <1>4 DEF CacheParts

(* parse_notify stamps the new entry with now, makes it current and moves  *)
(* notify_id past it: it is the newest by id and by time.                  *)
LEMMA CacheAddNotify ==
    ASSUME NotifyTypeOK, now \in Time, CacheParts, NEW j, AddNotify(j), UNCHANGED now
    PROVE CacheParts'
<1> DEFINE n == notify_id
<1>1. /\ n \in NotifyIds
      /\ notify_instances' = notify_instances \cup {n}
      /\ notify_time' = [notify_time EXCEPT ![n] = now]
      /\ current_notify' = n /\ notify_id' = n + 1
  BY DEF AddNotify, NotifyTypeOK, NotifyIds
<1>2. IdsBelowNext'
  BY <1>1 DEF CacheParts, IdsBelowNext, NotifyTypeOK, NotifyIds
<1>3. TimesPast'
  BY <1>1 DEF CacheParts, TimesPast, NotifyTypeOK, NotifyIds, Time
<1>4. CurrentNewest'
  BY <1>1 DEF CacheParts, TimesPast, IdsBelowNext, CurrentNewest, NotifyTypeOK, NotifyIds,
              Time
<1>5. TimesFollowIds'
  BY <1>1 DEF CacheParts, TimesPast, IdsBelowNext, TimesFollowIds, NotifyTypeOK, NotifyIds,
              Time
<1>6. QED
  BY <1>2, <1>3, <1>4, <1>5 DEF CacheParts

(* The methods the receive thread parses: a notify is parse_notify, any    *)
(* other method leaves the table alone.                                    *)
LEMMA CacheApplyMethod ==
    ASSUME NotifyTypeOK, now \in Time, CacheParts, NEW m, ApplyMethod(m), UNCHANGED now
    PROVE CacheParts'
<1>1. CASE m.kind = "notify"
  BY <1>1, CacheAddNotify DEF ApplyMethod
<1>2. CASE m.kind # "notify"
  <2>1. UNCHANGED notifyVars
    BY <1>2 DEF ApplyMethod
  <2>2. QED
    BY <2>1, CacheShrink DEF notifyVars, Time, NotifyTypeOK
<1>3. QED
  BY <1>1, <1>2

(* Every step keeps CacheInv.                                              *)
LEMMA CacheStep == CacheInv /\ [Next]_vars => CacheInv'
<1> SUFFICES ASSUME TypeOK, CacheParts, [Next]_vars PROVE TypeOK' /\ CacheParts'
  BY CacheSplit, CacheSplitPrime
<1>1. TypeOK'
  BY TypeStep
<1>2. NotifyTypeOK /\ now \in Time /\ now' \in Time
  BY <1>1, TypeSplit, TypeSplitPrime DEF DataTypeOK, StratTypeOK
<1> SUFFICES CacheParts'
  BY <1>1
<1>3. CASE AuthRead
  <2>1. UNCHANGED now
    BY <1>3 DEF AuthRead
  <2>2. CASE ApplyMethod(Head(fromUp))
    BY <1>2, <2>1, <2>2, CacheApplyMethod
  <2>3. CASE UNCHANGED notifyVars
    BY <1>2, <2>1, <2>3, CacheShrink DEF notifyVars, Time
  <2>4. QED
    BY <1>3, <2>2, <2>3 DEF AuthRead
<1>4. CASE RecvRead
  <2>1. UNCHANGED now
    BY <1>4 DEF RecvRead
  <2>2. CASE ApplyMethod(Head(fromUp))
    BY <1>2, <2>1, <2>2, CacheApplyMethod
  <2>3. CASE UNCHANGED notifyVars \/ FlushNotifies
    BY <1>2, <2>1, <2>3, CacheShrink DEF notifyVars, FlushNotifies, Time
  <2>4. QED
    BY <1>4, <2>2, <2>3 DEF RecvRead
<1>5. CASE RecvAge
  <2>1. notify_instances' \subseteq notify_instances
    BY <1>5 DEF RecvAge, Reaped, OldNotifies
  <2>2. QED
    BY <1>2, <1>5, <2>1, CacheShrink DEF RecvAge, Time
<1>6. CASE Tick
  BY <1>2, <1>6, CacheShrink DEF Tick, notifyVars, Time
<1>7. CASE \/ Connect \/ SubSend \/ SubRead \/ AuthSend \/ SendTake \/ SendWrite
           \/ GetNotify \/ (\E lid \in NotifyIds : SubmitShare(lid)) \/ Shutdown
           \/ UpRespond \/ UpPush \/ UpDisconnect \/ UNCHANGED vars
  <2>1. UNCHANGED cacheState
    BY <1>7, Zenon DEF Connect, SubSend, SubRead, AuthSend, SendTake, SendWrite, GetNotify,
                       SubmitShare, Shutdown, UpRespond, UpPush, UpDisconnect, vars,
                       envUnchanged, notifyVars, cacheState
  <2>2. QED
    BY <1>2, <2>1, CacheShrink DEF cacheState, Time
<1>8. QED
  BY <1>3, <1>4, <1>5, <1>6, <1>7
  DEF Next, Terminated, RecvThread, SendThread, ControlThread, Environment

(* proxy_mode starts with an empty table and no current notification.     *)
LEMMA CacheInit == Init => CacheInv
<1> SUFFICES ASSUME Init PROVE TypeOK /\ CacheParts
  BY CacheSplit
<1>1. TypeOK
  BY TypeInit
<1>2. CacheParts
  BY DEF Init, CacheParts, IdsBelowNext, TimesPast, CurrentNewest, TimesFollowIds
<1>3. QED
  BY <1>1, <1>2

(* CacheInv holds in every reachable state.                                *)
LEMMA CacheInvariant == Spec => []CacheInv
BY CacheInit, CacheStep, PTL DEF Spec

-----------------------------------------------------------------------------
(* The refinement.                                                         *)

(* Ageing spares current_notify.  Were it reaped, it would be old, every   *)
(* live entry, being no newer, would be old and no larger, and the reap    *)
(* condition would read Cardinality(live) + 2 <= Cardinality(live).        *)
LEMMA CurrentNotReaped ==
    ASSUME NotifyTypeOK, now \in Time, CurrentNewest PROVE current_notify \notin Reaped
<1> SUFFICES ASSUME current_notify \in Reaped PROVE FALSE
  OBVIOUS
<1> DEFINE c == current_notify
           Old == OldNotifies
<1>1. c \in notify_instances /\ notify_time[c] + NotifyAge < now
  BY DEF Reaped, OldNotifies
<1>2. \A k \in notify_instances : k \in Old /\ k <= c
  BY <1>1 DEF CurrentNewest, OldNotifies, NotifyTypeOK, NotifyIds, Time
<1>3. {k \in Old : k <= c} = notify_instances
  BY <1>2 DEF OldNotifies
<1>4. Cardinality(notify_instances) + 2 <= Cardinality(notify_instances)
  BY <1>3 DEF Reaped
<1>5. Cardinality(notify_instances) \in Nat
  <2>1. IsFiniteSet(NotifyIds)
    BY FS_Interval DEF NotifyIds
  <2>2. IsFiniteSet(notify_instances)
    BY <2>1, FS_Subset DEF NotifyTypeOK
  <2>3. QED
    BY <2>2, FS_CardinalityType
<1>6. QED
  BY <1>4, <1>5

(* proxy_mode starts as the abstract cache does.                           *)
LEMMA RefInit == Init => Cache!Init
BY DEF Init, Cache!Init, NotifyIds, Cache!Ids

(* A parsed method, with rpc unchanged, is an Issue or a stutter. *)
LEMMA RefApplyMethod ==
    ASSUME NEW m \in Line, ApplyMethod(m), UNCHANGED Linked
    PROVE [Cache!Next]_Cache!cacheVars
<1>1. CASE m.kind = "notify"
  <2>1. Cache!Issue(m.job)
    BY <1>1 DEF ApplyMethod, AddNotify, Cache!Issue, NotifyIds, Cache!Ids, Linked
  <2>2. m.job \in UpJobs \cup {NoJob}
    BY DEF Line
  <2>3. QED
    BY <2>1, <2>2 DEF Cache!Next
<1>2. CASE m.kind # "notify"
  BY <1>2 DEF ApplyMethod, notifyVars, Cache!cacheVars, Linked
<1>3. QED
  BY <1>1, <1>2

(* auth_stratum: a method is parsed; the reply either completes the        *)
(* handshake (Resume) or fails it, and the link stays down.                *)
LEMMA RefAuthRead ==
    ASSUME TypeOK, AuthRead PROVE [Cache!Next]_Cache!cacheVars
<1>1. CASE Readable /\ IsMethod(Head(fromUp))
  <2>1. Head(fromUp) \in Line
    BY <1>1 DEF TypeOK, Readable
  <2>2. ApplyMethod(Head(fromUp)) /\ UNCHANGED rpc
    BY <1>1 DEF AuthRead
  <2>3. QED
    BY <2>1, <2>2, RefApplyMethod DEF Linked
<1>2. CASE ~(Readable /\ IsMethod(Head(fromUp)))
  <2>1. UNCHANGED <<notify_instances, notify_job, notify_id, current_notify>>
    BY <1>2 DEF AuthRead, notifyVars
  <2>2. rpc = "auth_read" /\ rpc' \in {"connect", "auth_read", "age"}
    BY <1>2, Zenon DEF AuthRead, HandshakeFailed, AuthDone
  <2>3. CASE rpc' = "age"
    BY <2>1, <2>2, <2>3 DEF Cache!Next, Cache!Resume, Linked
  <2>4. CASE rpc' # "age"
    BY <2>1, <2>2, <2>4 DEF Cache!cacheVars, Linked
  <2>5. QED
    BY <2>3, <2>4
<1>3. QED
  BY <1>1, <1>2

(* proxy_recv's read: a method is an Issue or a stutter, a share result a  *)
(* stutter, and a failure flushes the table and drops the link.            *)
LEMMA RefRecvRead ==
    ASSUME TypeOK, RecvRead PROVE [Cache!Next]_Cache!cacheVars
<1>0. rpc = "read" /\ rpc' \in {"age", "connect"}
  BY Zenon DEF RecvRead
<1>1. CASE Readable /\ IsMethod(Head(fromUp))
  <2>1. Head(fromUp) \in Line
    BY <1>1 DEF TypeOK, Readable
  <2>2. ApplyMethod(Head(fromUp)) /\ rpc' = "age"
    BY <1>1 DEF RecvRead
  <2>3. QED
    BY <1>0, <2>1, <2>2, RefApplyMethod DEF Linked
<1>2. CASE Readable /\ ~IsMethod(Head(fromUp))
  <2>1. UNCHANGED notifyVars /\ rpc' = "age"
    BY <1>2 DEF RecvRead
  <2>2. QED
    BY <1>0, <2>1 DEF notifyVars, Cache!cacheVars, Linked
<1>3. CASE ~Readable
  <2>1. FlushNotifies /\ rpc' = "connect"
    BY <1>3 DEF RecvRead
  <2>2. QED
    BY <1>0, <2>1 DEF FlushNotifies, Cache!Next, Cache!Flush, Linked
<1>4. QED
  BY <1>1, <1>2, <1>3

(* proxy_recv's ageing is Age of the reaped set.                           *)
LEMMA RefRecvAge ==
    ASSUME TypeOK, CurrentNewest, RecvAge PROVE [Cache!Next]_Cache!cacheVars
<1>1. current_notify \notin Reaped
  BY CurrentNotReaped DEF TypeOK, NotifyTypeOK
<1>2. Reaped \in SUBSET notify_instances
  BY DEF Reaped, OldNotifies
<1>3. Cache!Age(Reaped)
  BY <1>1 DEF RecvAge, Cache!Age, Linked
<1>4. QED
  BY <1>2, <1>3 DEF Cache!Next

(* The handshake steps, before the link is up, leave the table alone.      *)
LEMMA RefHandshake ==
    ASSUME Connect \/ SubSend \/ SubRead \/ AuthSend PROVE [Cache!Next]_Cache!cacheVars
<1>1. UNCHANGED notifyVars
  BY Zenon DEF Connect, SubSend, SubRead, AuthSend
<1>2. rpc \in {"connect", "sub_send", "sub_read", "auth_send"}
  BY Zenon DEF Connect, SubSend, SubRead, AuthSend
<1>3. rpc' \in {"connect", "sub_send", "sub_read", "auth_send", "auth_read"}
  BY Zenon DEF Connect, SubSend, SubRead, AuthSend, ConnectFailed, HandshakeFailed,
               SubscribeFallback
<1>4. QED
  BY <1>1, <1>2, <1>3 DEF notifyVars, Cache!cacheVars, Linked

(* Every step of the generator is a step of the abstract cache or leaves  *)
(* it unchanged.                                                           *)
LEMMA RefStep == CacheInv /\ [Next]_vars => [Cache!Next]_Cache!cacheVars
<1> SUFFICES ASSUME TypeOK, CacheParts, [Next]_vars PROVE [Cache!Next]_Cache!cacheVars
  BY CacheSplit
<1>1. CASE AuthRead
  BY <1>1, RefAuthRead
<1>2. CASE RecvRead
  BY <1>2, RefRecvRead
<1>3. CASE RecvAge
  BY <1>3, RefRecvAge DEF CacheParts
<1>4. CASE Connect \/ SubSend \/ SubRead \/ AuthSend
  BY <1>4, RefHandshake
<1>5. CASE \/ SendTake \/ SendWrite \/ GetNotify \/ (\E lid \in NotifyIds : SubmitShare(lid))
           \/ Shutdown \/ UpRespond \/ UpPush \/ UpDisconnect \/ Tick \/ UNCHANGED vars
  <2>1. UNCHANGED <<rpc, notifyVars>>
    BY <1>5, Zenon DEF SendTake, SendWrite, GetNotify, SubmitShare, Shutdown, UpRespond,
                       UpPush, UpDisconnect, Tick, vars, envUnchanged, notifyVars
  <2>2. QED
    BY <2>1 DEF notifyVars, Cache!cacheVars, Linked
<1>6. QED
  BY <1>1, <1>2, <1>3, <1>4, <1>5
  DEF Next, Terminated, RecvThread, SendThread, ControlThread, Environment

(* The notify table, current_notify and notify_id behave as the abstract  *)
(* cache of NotifyCache, for every number of notifications, connections    *)
(* and clock ticks: the property CacheRefined that the ageing run checks   *)
(* on a small instance.                                                    *)
THEOREM CacheRefinement == Spec => CacheRefined
<1>1. Spec => []CacheInv
  BY CacheInvariant
<1>2. QED
  BY <1>1, RefInit, RefStep, PTL DEF Spec, CacheRefined, Cache!Spec

-----------------------------------------------------------------------------
(* Ageing keeps the two newest notifications.                              *)

(* An entry with fewer than two younger live entries is not reaped.  Were  *)
(* it reaped it would be old, so would every entry below it (their times   *)
(* are no later), and the reap condition, which counts the old entries up  *)
(* to it, would ask for more entries than the ones up to it and the fewer  *)
(* than two above it.                                                      *)
LEMMA NewestTwoNotReaped ==
    ASSUME NotifyTypeOK, now \in Time, TimesFollowIds,
           NEW i \in notify_instances,
           Cardinality({k \in notify_instances : i < k}) < 2
    PROVE  i \notin Reaped
<1> SUFFICES ASSUME i \in Reaped PROVE FALSE
  OBVIOUS
<1> DEFINE Le == {k \in notify_instances : k <= i}
           Gt == {k \in notify_instances : i < k}
<1>1. notify_time[i] + NotifyAge < now
  BY DEF Reaped, OldNotifies
<1>2. \A k \in notify_instances : k <= i => notify_time[k] + NotifyAge < now
  <2> SUFFICES ASSUME NEW k \in notify_instances, k <= i
               PROVE  notify_time[k] + NotifyAge < now
    OBVIOUS
  <2>1. notify_time[k] \in Nat /\ notify_time[i] \in Nat /\ now \in Nat /\ NotifyAge \in Nat
    BY DEF NotifyTypeOK, NotifyIds, Time, ConstAssumption
  <2>2. notify_time[k] <= notify_time[i]
    BY <2>1 DEF TimesFollowIds, NotifyTypeOK, NotifyIds
  <2>3. QED
    BY <1>1, <2>1, <2>2
<1>3. {k \in OldNotifies : k <= i} = Le
  BY <1>2 DEF Le, OldNotifies
<1>4. Cardinality(Le) + 2 <= Cardinality(notify_instances)
  BY <1>3 DEF Reaped, Le
<1>5. IsFiniteSet(Le) /\ IsFiniteSet(Gt) /\ IsFiniteSet(notify_instances)
  <2>1. IsFiniteSet(NotifyIds)
    BY FS_Interval DEF NotifyIds
  <2>2. IsFiniteSet(notify_instances)
    BY <2>1, FS_Subset DEF NotifyTypeOK
  <2>3. QED
    BY <2>2, FS_Subset DEF Le, Gt
<1>6. notify_instances = Le \cup Gt /\ Le \cap Gt = {}
  <2>1. notify_instances \subseteq Nat /\ i \in Nat
    BY DEF NotifyTypeOK, NotifyIds, ConstAssumption
  <2>2. notify_instances = Le \cup Gt
    <3>1. \A k \in notify_instances : k <= i \/ i < k
      BY <2>1
    <3>2. QED
      BY <3>1, Zenon DEF Le, Gt
  <2>3. Le \cap Gt = {}
    <3>1. \A k \in notify_instances : ~(k <= i /\ i < k)
      BY <2>1
    <3>2. QED
      BY <3>1, Zenon DEF Le, Gt
  <2>4. QED
    BY <2>2, <2>3
<1>7. Cardinality(Le) \in Nat /\ Cardinality(Gt) \in Nat
  BY <1>5, FS_CardinalityType
<1>8. Cardinality(notify_instances) = Cardinality(Le) + Cardinality(Gt)
  <2>1. Cardinality(Le \cup Gt) = Cardinality(Le) + Cardinality(Gt) - Cardinality(Le \cap Gt)
    BY <1>5, FS_Union
  <2>2. Cardinality(Le \cap Gt) = 0
    BY <1>6, FS_EmptySet, Zenon
  <2>3. Cardinality(notify_instances) = Cardinality(Le \cup Gt)
    BY <1>6, Zenon
  <2>4. QED
    BY <1>7, <2>1, <2>2, <2>3
<1>9. QED
  BY <1>4, <1>7, <1>8

(* Only proxy_recv's ageing step goes from "age" to "read". *)
LEMMA AgeStepIsRecvAge ==
    ASSUME [Next]_vars, rpc = "age", rpc' = "read" PROVE RecvAge
<1>1. CASE ~RecvAge
  <2>1. FALSE
    BY <1>1, Zenon DEF Next, Terminated, RecvThread, SendThread, ControlThread, Environment,
       Connect, SubSend, SubRead, AuthSend, AuthRead, RecvRead, SendTake, SendWrite,
       GetNotify, SubmitShare, Shutdown, UpRespond, UpPush, UpDisconnect, Tick, vars,
       envUnchanged
  <2>2. QED
    BY <2>1
<1>2. QED
  BY <1>1

(* Every step keeps the two newest live notifications across ageing. *)
LEMMA AgeKeepsNewest == ASSUME CacheInv, [Next]_vars PROVE NewestKept(2)
<1> SUFFICES ASSUME rpc = "age", rpc' = "read", NEW i \in notify_instances,
                    Cardinality({k \in notify_instances : i < k}) < 2
             PROVE  i \in notify_instances'
  BY DEF NewestKept
<1>1. NotifyTypeOK /\ now \in Time /\ TimesFollowIds
  BY CacheSplit, TypeSplit DEF DataTypeOK, StratTypeOK, CacheParts
<1>2. RecvAge
  BY AgeStepIsRecvAge
<1>3. i \notin Reaped
  BY <1>1, NewestTwoNotReaped
<1>4. QED
  BY <1>2, <1>3 DEF RecvAge

(* For every ageing threshold, clock and table size, an ageing pass of     *)
(* proxy_recv frees neither current_notify nor the notification before it: *)
(* the action property AgeingKeepsNewestTwo that the ageing run checks.    *)
THEOREM AgeingKeepsTwo == Spec => AgeingKeepsNewestTwo
<1>1. CacheInv /\ [Next]_vars => [NewestKept(2)]_vars
  BY AgeKeepsNewest
<1>2. QED
  BY <1>1, CacheInvariant, PTL DEF Spec, AgeingKeepsNewestTwo

=============================================================================
