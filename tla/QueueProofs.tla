---------------------------- MODULE QueueProofs ----------------------------
(***************************************************************************)
(* Proofs about the share queue and the subscribe fallback of module       *)
(* Proxy, for every value of its constants that satisfies ConstAssumption. *)
(*   - SessionFallback: once subscribe_stratum has given up parameters,    *)
(*     no session id is held (NoParamsNoSession).                          *)
(*   - LadderRefinement: the subscribe fallback implements                *)
(*     SubscribeLadder, through the inductive invariant LadderInv.         *)
(*   - QueueRefinement: the share path implements ShareQueue.              *)
(***************************************************************************)
EXTENDS ProxyProofs

USE ConstAssumption

-----------------------------------------------------------------------------
(* The subscribe fallback.                                                 *)

(* With the parameters given up, parse_subscribe copies no session id.     *)
LEMMA CopyKeepsNoSession ==
    ASSUME NEW has, no_params PROVE CopySessionId(has) = sessionid
BY DEF CopySessionId

(* The fallback ladder keeps no session id once parameters are given up,  *)
(* given that the session id it starts from obeys the same rule.           *)
LEMMA FallbackNoSession ==
    ASSUME NEW sess, no_params => ~sess, SubscribeFallback(sess)
    PROVE NoParamsNoSession'
BY Zenon DEF SubscribeFallback, NoParamsNoSession

(* parse_subscribe and its fallback keep NoParamsNoSession.                *)
LEMMA SubReadNoSession ==
    ASSUME NoParamsNoSession, SubRead PROVE NoParamsNoSession'
<1> DEFINE m == Head(fromUp)
<1>1. CASE UNCHANGED no_params /\ sessionid' = CopySessionId(m.sid)
  BY <1>1, CopyKeepsNoSession, Zenon DEF NoParamsNoSession
<1>2. CASE SubscribeFallback(CopySessionId(m.kind = "subres" /\ m.sid))
  <2>1. no_params => ~CopySessionId(m.kind = "subres" /\ m.sid)
    BY CopyKeepsNoSession, Zenon DEF NoParamsNoSession
  <2>2. QED
    BY <1>2, <2>1, FallbackNoSession
<1>3. CASE SubscribeFallback(sessionid)
  BY <1>3, FallbackNoSession, Zenon DEF NoParamsNoSession
<1>4. QED
  BY <1>1, <1>2, <1>3, Zenon DEF SubRead

(* Once the parameter form of mining.subscribe has been given up, no       *)
(* session id is held, for every run of the fallback ladder across         *)
(* reconnects: the invariant the safety run checks.                        *)
THEOREM SessionFallback == Spec => []NoParamsNoSession
<1>1. Init => NoParamsNoSession
  BY DEF Init, NoParamsNoSession
<1>2. NoParamsNoSession /\ [Next]_vars => NoParamsNoSession'
  <2> SUFFICES ASSUME NoParamsNoSession, [Next]_vars PROVE NoParamsNoSession'
    OBVIOUS
  <2>1. CASE SubRead
    BY <2>1, SubReadNoSession
  <2>2. CASE ~SubRead
    <3>1. UNCHANGED <<sessionid, no_params>>
      BY <2>2, Zenon DEF Next, Terminated, RecvThread, SendThread, ControlThread, Environment,
         Connect, SubSend, AuthSend, AuthRead, RecvAge, RecvRead, SendTake, SendWrite,
         GetNotify, SubmitShare, Shutdown, UpRespond, UpPush, UpDisconnect, Tick, vars,
         sessVars, envUnchanged
    <3>2. QED
      BY <3>1 DEF NoParamsNoSession
  <2>3. QED
    BY <2>1, <2>2
<1>3. QED
  BY <1>1, <1>2, PTL DEF Spec

-----------------------------------------------------------------------------
(* The subscribe ladder: the refinement of SubscribeLadder, through the    *)
(* inductive invariant LadderInv of module Proxy.                          *)

(* The parts of LadderInv beyond TypeOK. *)
LadderParts == HeldIdResumable /\ NoParamsNoSession

(* LadderInv is TypeOK and the ladder parts.                               *)
LEMMA LadderSplit == LadderInv <=> TypeOK /\ LadderParts
BY DEF LadderInv, LadderParts

(* What parse_subscribe leaves in proxi->sessionid is an id already held   *)
(* or one copied while resuming was allowed.                               *)
LEMMA CopyResumable ==
    ASSUME NEW has, LadderParts PROVE CopySessionId(has) => ~no_sessionid /\ ~no_params
BY DEF CopySessionId, LadderParts, HeldIdResumable, NoParamsNoSession

(* The copy never drops a held session id. *)
LEMMA CopyKeepsHeld == ASSUME NEW has, sessionid PROVE CopySessionId(has)
BY DEF CopySessionId

(* The fallback ladder is a Fall of SubscribeLadder, or at tier 3, where  *)
(* it gives up, a stutter; the session id it starts from is the held one, *)
(* or one copied from the failed reply while resuming was allowed.         *)
LEMMA LadderFallback ==
    ASSUME BoolTypeOK, LadderParts, NEW sess \in BOOLEAN,
           sess => ~no_sessionid /\ ~no_params, sessionid => sess,
           SubscribeFallback(sess)
    PROVE  [Ladder!Next]_Ladder!ladderVars /\ LadderParts'
<1>1. CASE no_params
  <2>1. ~sess /\ ~sessionid
    BY <1>1 DEF LadderParts, NoParamsNoSession
  <2>2. sessionid' = sessionid /\ UNCHANGED <<no_sessionid, no_params>>
    BY <1>1, <2>1 DEF SubscribeFallback, BoolTypeOK
  <2>3. QED
    BY <2>2 DEF Ladder!ladderVars, LadderParts, HeldIdResumable, NoParamsNoSession
<1>2. CASE ~no_params /\ sess
  <2>1. no_sessionid' = TRUE /\ no_params' = FALSE /\ sessionid' = FALSE
    BY <1>2 DEF SubscribeFallback, BoolTypeOK
  <2>2. Ladder!Fall
    BY <1>2, <2>1 DEF Ladder!Fall
  <2>3. QED
    BY <2>1, <2>2 DEF Ladder!Next, LadderParts, HeldIdResumable, NoParamsNoSession
<1>3. CASE ~no_params /\ ~sess
  <2>1. no_params' = TRUE /\ sessionid' = FALSE /\ ~sessionid
    BY <1>3 DEF SubscribeFallback
  <2>2. Ladder!Fall
    BY <1>3, <2>1 DEF Ladder!Fall
  <2>3. QED
    BY <2>1, <2>2 DEF Ladder!Next, LadderParts, HeldIdResumable, NoParamsNoSession
<1>4. QED
  BY <1>1, <1>2, <1>3 DEF BoolTypeOK

(* parse_subscribe's success is a Succeed of SubscribeLadder; its failures *)
(* are the fallback.                                                       *)
LEMMA LadderSubRead ==
    ASSUME BoolTypeOK, LadderParts, SubRead PROVE [Ladder!Next]_Ladder!ladderVars /\ LadderParts'
<1> DEFINE m == Head(fromUp)
<1>1. CASE sessionid' = CopySessionId(m.sid) /\ UNCHANGED <<no_sessionid, no_params>>
  <2>1. Ladder!Succeed
    BY <1>1 DEF Ladder!Succeed, CopySessionId
  <2>2. LadderParts'
    BY <1>1, CopyResumable DEF LadderParts, HeldIdResumable, NoParamsNoSession
  <2>3. QED
    BY <2>1, <2>2 DEF Ladder!Next
<1>2. CASE SubscribeFallback(CopySessionId(m.kind = "subres" /\ m.sid))
  <2> DEFINE sess == CopySessionId(m.kind = "subres" /\ m.sid)
  <2>1. sess \in BOOLEAN
    BY DEF CopySessionId, BoolTypeOK
  <2>2. (sess => ~no_sessionid /\ ~no_params) /\ (sessionid => sess)
    BY CopyResumable, CopyKeepsHeld
  <2>3. QED
    BY <1>2, <2>1, <2>2, LadderFallback
<1>3. CASE SubscribeFallback(sessionid)
  <2>1. sessionid => ~no_sessionid /\ ~no_params
    BY DEF LadderParts, HeldIdResumable, NoParamsNoSession
  <2>2. QED
    BY <1>3, <2>1, LadderFallback DEF BoolTypeOK
<1>4. QED
  BY <1>1, <1>2, <1>3 DEF SubRead

(* Each step keeps LadderInv and is a step of SubscribeLadder or a         *)
(* stutter: only parse_subscribe and its fallback touch the flags.         *)
LEMMA LadderStep ==
    LadderInv /\ [Next]_vars => LadderInv' /\ [Ladder!Next]_Ladder!ladderVars
<1> SUFFICES ASSUME TypeOK, LadderParts, [Next]_vars
             PROVE  TypeOK' /\ LadderParts' /\ [Ladder!Next]_Ladder!ladderVars
  BY DEF LadderInv, LadderParts
<1>1. TypeOK'
  BY TypeStep
<1>2. BoolTypeOK
  BY TypeSplit
<1>3. CASE SubRead
  BY <1>1, <1>2, <1>3, LadderSubRead
<1>4. CASE ~SubRead
  <2>1. UNCHANGED <<sessionid, no_sessionid, no_params>>
    BY <1>4, Zenon DEF Next, Terminated, RecvThread, SendThread, ControlThread, Environment,
       Connect, SubSend, AuthSend, AuthRead, RecvAge, RecvRead, SendTake, SendWrite,
       GetNotify, SubmitShare, Shutdown, UpRespond, UpPush, UpDisconnect, Tick, vars,
       sessVars, envUnchanged
  <2>2. QED
    BY <1>1, <2>1 DEF LadderParts, HeldIdResumable, NoParamsNoSession, Ladder!ladderVars
<1>5. QED
  BY <1>3, <1>4

(* proxy_mode starts at tier 2 with resuming allowed. *)
LEMMA LadderInit == Init => LadderInv /\ Ladder!Init
<1> SUFFICES ASSUME Init PROVE TypeOK /\ LadderParts /\ Ladder!Init
  BY LadderSplit
<1>1. TypeOK
  BY TypeInit
<1>2. QED
  BY <1>1 DEF Init, LadderParts, HeldIdResumable, NoParamsNoSession, Ladder!Init

(* For every bound on connections, shares and pushed lines, the subscribe *)
(* fallback implements SubscribeLadder: each failed subscribe moves down   *)
(* the three tiers and ends resuming for good, tier 3 is final, and only a *)
(* reply accepted while resuming is allowed makes the next subscribe a     *)
(* resume (the property the safety run checks).                            *)
THEOREM LadderRefinement == Spec => LadderRefined
<1>1. Spec => []LadderInv
  BY LadderInit, LadderStep, PTL DEF Spec
<1>2. []LadderInv /\ [][Next]_vars => [][Ladder!Next]_Ladder!ladderVars
  BY LadderStep, PTL
<1>3. QED
  BY <1>1, <1>2, LadderInit, PTL DEF Spec, LadderRefined, Ladder!Spec

-----------------------------------------------------------------------------
(* The refinement of ShareQueue.                                           *)

(* The variables the queue mapping reads. *)
queueState == <<psends, share_id, spc, smsg, submits>>

(* The ids of a sequence of share records form a sequence of naturals.     *)
LEMMA IdSeqType ==
    ASSUME NEW S, NEW s \in Seq(S), \A x \in S : x.id \in Nat
    PROVE ShareIdSeq(s) \in Seq(Nat) /\ Len(ShareIdSeq(s)) = Len(s)
BY DEF ShareIdSeq

(* Appending a record appends its id.                                      *)
LEMMA IdSeqAppend ==
    ASSUME NEW S, NEW s \in Seq(S), NEW r
    PROVE ShareIdSeq(Append(s, r)) = Append(ShareIdSeq(s), r.id)
BY DEF ShareIdSeq

(* The ids of a non-empty sequence are the head's id followed by the ids   *)
(* of the tail.                                                            *)
LEMMA IdSeqTail ==
    ASSUME NEW S, NEW s \in Seq(S), s # <<>>
    PROVE <<Head(s).id>> \o ShareIdSeq(Tail(s)) = ShareIdSeq(s)
<1>1. Len(s) >= 1 /\ Len(Tail(s)) = Len(s) - 1
  OBVIOUS
<1>2. \A k \in 1 .. Len(s) - 1 : Tail(s)[k] = s[k + 1]
  OBVIOUS
<1>3. QED
  BY <1>1, <1>2 DEF ShareIdSeq

(* The share the send thread holds, as a sequence of at most one id.       *)
HeldIds == IF spc = "write" THEN <<smsg.id>> ELSE <<>>

(* The abstract queue: the held share, then the shares in psends.          *)
PendingIds == HeldIds \o ShareIdSeq(psends)

(* The ids in the records of psends and submits, and the held one, are     *)
(* naturals.                                                               *)
LEMMA QueueTypes ==
    ASSUME SendTypeOK, ShareTypeOK, StratTypeOK
    PROVE /\ ShareIdSeq(psends) \in Seq(Nat) /\ ShareIdSeq(submits) \in Seq(Nat)
          /\ HeldIds \in Seq(Nat) /\ smsg.id \in Nat
<1>1. \A x \in PSend : x.id \in Nat
  BY DEF PSend, ShareIds
<1>2. \A x \in Submit : x.id \in Nat
  BY DEF Submit, ShareIds
<1>3. QED
  BY <1>1, <1>2, IdSeqType DEF SendTypeOK, ShareTypeOK, StratTypeOK, HeldIds

(* submit_share's append is Enqueue.                                       *)
LEMMA RefSubmitShare ==
    ASSUME SendTypeOK, ShareTypeOK, StratTypeOK,
           NEW lid \in NotifyIds, SubmitShare(lid)
    PROVE Queue!Enqueue
<1> DEFINE r == [jobid |-> lid, id |-> share_id, work |-> shown[lid]]
<1>1. /\ psends' = Append(psends, r) /\ share_id' = share_id + 1
      /\ share_id < MaxShares /\ UNCHANGED <<spc, smsg, submits>>
  BY DEF SubmitShare, sendVars
<1>2. ShareIdSeq(psends') = Append(ShareIdSeq(psends), share_id)
  BY <1>1, IdSeqAppend DEF ShareTypeOK
<1>3. HeldIds' = HeldIds
  BY <1>1 DEF HeldIds
<1>4. PendingIds' = Append(PendingIds, share_id)
  BY <1>2, <1>3, QueueTypes DEF PendingIds
<1>5. QED
  BY <1>1, <1>4 DEF Queue!Enqueue, PendingIds, HeldIds

(* proxy_send's take stutters: the share moves from psends to the hand of  *)
(* the send thread and stays at the head of the abstract queue.            *)
LEMMA RefSendTake ==
    ASSUME SendTypeOK, ShareTypeOK, StratTypeOK, SendTake
    PROVE UNCHANGED Queue!queueVars
<1>1. /\ spc = "wait" /\ spc' = "write" /\ psends # <<>>
      /\ smsg' = Head(psends) /\ psends' = Tail(psends)
      /\ UNCHANGED <<submits, share_id>>
  BY DEF SendTake
<1>2. HeldIds = <<>> /\ HeldIds' = <<Head(psends).id>>
  BY <1>1 DEF HeldIds
<1>3. PendingIds' = PendingIds
  <2>1. PendingIds' = <<Head(psends).id>> \o ShareIdSeq(Tail(psends))
    BY <1>1, <1>2 DEF PendingIds
  <2>2. PendingIds = ShareIdSeq(psends)
    BY <1>2, QueueTypes DEF PendingIds
  <2>3. QED
    BY <1>1, <2>1, <2>2, IdSeqTail DEF ShareTypeOK
<1>4. QED
  BY <1>1, <1>3 DEF Queue!queueVars, PendingIds, HeldIds

(* proxy_send's write is Send of the held share; its drop of an            *)
(* unresolvable share, or a write that fails and closes the socket, is     *)
(* Drop.                                                                   *)
LEMMA RefSendWrite ==
    ASSUME SendTypeOK, ShareTypeOK, StratTypeOK, SendWrite
    PROVE Queue!Send \/ Queue!Drop
<1>1. /\ spc = "write" /\ spc' = "wait"
      /\ UNCHANGED <<psends, share_id, smsg>>
  BY DEF SendWrite, shareVars
<1>2. HeldIds = <<smsg.id>> /\ HeldIds' = <<>>
  BY <1>1 DEF HeldIds
<1>3. /\ PendingIds # <<>>
      /\ Head(PendingIds) = smsg.id
      /\ PendingIds' = Tail(PendingIds)
  BY <1>1, <1>2, QueueTypes DEF PendingIds
<1>4. CASE submits' = Append(submits,
                [id |-> smsg.id, lid |-> smsg.jobid, job |-> sjob, work |-> smsg.work,
                 conn |-> conn, authed |-> rpc \in {"age", "read"}])
  <2>1. ShareIdSeq(submits') = Append(ShareIdSeq(submits), smsg.id)
    BY <1>4, IdSeqAppend DEF StratTypeOK
  <2>2. Queue!Send
    BY <1>1, <1>3, <2>1 DEF Queue!Send, PendingIds, HeldIds
  <2>3. QED
    BY <2>2
<1>5. CASE UNCHANGED submits
  <2>1. Queue!Drop
    BY <1>1, <1>3, <1>5 DEF Queue!Drop, PendingIds, HeldIds
  <2>2. QED
    BY <2>1
<1>6. QED
  BY <1>4, <1>5 DEF SendWrite

(* Every other step leaves the queue, the counter and the send thread      *)
(* alone, and stutters.                                                    *)
LEMMA RefFrame == ASSUME UNCHANGED queueState PROVE UNCHANGED Queue!queueVars
BY DEF queueState, Queue!queueVars

(* Every step of the proxy is a step of ShareQueue or a stutter.           *)
LEMMA QueueRefStep == TypeOK /\ [Next]_vars => [Queue!Next]_Queue!queueVars
<1> SUFFICES ASSUME TypeOK, [Next]_vars PROVE [Queue!Next]_Queue!queueVars
  OBVIOUS
<1>1. ShareTypeOK /\ SendTypeOK /\ StratTypeOK
  BY TypeSplit DEF DataTypeOK
<1>2. CASE \E lid \in NotifyIds : SubmitShare(lid)
  BY <1>1, <1>2, RefSubmitShare DEF Queue!Next
<1>3. CASE SendTake
  BY <1>1, <1>3, RefSendTake
<1>4. CASE SendWrite
  BY <1>1, <1>4, RefSendWrite DEF Queue!Next
<1>5. CASE \/ Connect \/ SubSend \/ SubRead \/ AuthSend \/ AuthRead \/ RecvAge \/ RecvRead
           \/ GetNotify \/ Shutdown \/ UpRespond \/ UpPush \/ UpDisconnect \/ Tick
           \/ UNCHANGED vars
  <2>1. UNCHANGED queueState
    BY <1>5, Zenon DEF Connect, SubSend, SubRead, AuthSend, AuthRead, RecvAge, RecvRead,
                       GetNotify, Shutdown, UpRespond, UpPush, UpDisconnect, Tick, vars,
                       envUnchanged, sendVars, shareVars, ParseShare, queueState
  <2>2. QED
    BY <2>1, RefFrame
<1>6. QED
  BY <1>2, <1>3, <1>4, <1>5
  DEF Next, Terminated, RecvThread, SendThread, ControlThread, Environment

(* The proxy's share path implements ShareQueue for every number of        *)
(* shares: ids are consecutive, shares leave oldest first, and every       *)
(* mining.submit written is the oldest share still queued, whatever the    *)
(* interleaving of the control and send threads.                           *)
THEOREM QueueRefinement == Spec => QueueRefined
<1>1. Init => Queue!Init
  BY DEF Init, Queue!Init, ShareIdSeq
<1>2. []TypeOK /\ [][Next]_vars => [][Queue!Next]_Queue!queueVars
  BY QueueRefStep, PTL
<1>3. QED
  BY <1>1, <1>2, TypeCorrect, PTL DEF Spec, QueueRefined, Queue!Spec

=============================================================================
