---------------------------- MODULE ServerProofs ----------------------------
(***************************************************************************)
(* Proofs about server mode (module ServerMode) for every number of        *)
(* bitcoinds.  The selection loop starts from the server the probe loop    *)
(* left si at, so that gen_loop is handed an alive server is not obvious:  *)
(* ServerInv records that while selecting, the servers still to be tested  *)
(* (si, then servers i .. n-2) include an alive one.                       *)
(***************************************************************************)
EXTENDS ServerMode, TLAPS

USE NServersAssumption

(* Each action keeps ServerInv; the proof is a case per action. *)
LEMMA ServerStep == ServerInv /\ [Next]_vars => ServerInv'
<1> SUFFICES ASSUME ServerInv, [Next]_vars PROVE ServerInv'
  OBVIOUS
<1>1. CASE Probe
  BY <1>1 DEF Probe, ServerInv, TypeOK, Servers, ServesAliveServer, NoneAliveIsFatal
<1>2. CASE ProbesDone
  <2>1. si = NServers - 1
    BY <1>2 DEF ProbesDone, ServerInv, TypeOK
  <2>2. phase' = "select" =>
          alive'[si'] \/ \E s \in i' .. NServers - 2 : alive'[s]
    <3> SUFFICES ASSUME phase' = "select" PROVE alive[si] \/ \E s \in 0 .. NServers - 2 : alive[s]
      BY <1>2 DEF ProbesDone
    <3>1. PICK s \in Servers : alive[s]
      BY <1>2 DEF ProbesDone
    <3>2. QED
      BY <3>1, <2>1 DEF Servers
  <2>3. QED
    BY <1>2, <2>2 DEF ProbesDone, ServerInv, TypeOK, Servers, ServesAliveServer,
       NoneAliveIsFatal
<1>3. CASE Select
  <2>1. CASE alive[si]
    BY <1>3, <2>1 DEF Select, ServerInv, TypeOK, Servers, ServesAliveServer,
       NoneAliveIsFatal
  <2>2. CASE ~alive[si]
    <3>1. PICK s \in i .. NServers - 2 : alive[s]
      BY <1>3, <2>2 DEF Select, ServerInv
    <3>2. i' < NServers /\ (alive'[si'] \/ \E t \in i' .. NServers - 2 : alive'[t])
      BY <1>3, <2>2, <3>1 DEF Select, ServerInv, TypeOK
    <3>3. QED
      BY <1>3, <2>2, <3>2 DEF Select, ServerInv, TypeOK, Servers, ServesAliveServer,
         NoneAliveIsFatal
  <2>3. QED
    BY <2>1, <2>2
<1>4. CASE SubmitBlock
  BY <1>4 DEF SubmitBlock, ServerInv, TypeOK, ServesAliveServer, NoneAliveIsFatal
<1>5. CASE GenLoopExit
  BY <1>5 DEF GenLoopExit, ServerInv, TypeOK, Servers, ServesAliveServer,
     NoneAliveIsFatal
<1>6. CASE Cleanup
  <2>1. TypeOK'
    BY <1>6 DEF Cleanup, ServerInv, TypeOK, Servers
  <2>2. QED
    BY <1>6, <2>1, Zenon DEF Cleanup, ServerInv, ServesAliveServer, NoneAliveIsFatal
<1>7. CASE Exit
  <2>1. TypeOK'
    BY <1>7 DEF Exit, ServerInv, TypeOK
  <2>2. (\A s \in Servers : ~alive[s]) => ret = 1
    BY <1>7 DEF Exit, ServerInv
  <2>3. alive' = alive
    BY <1>7 DEF Exit
  <2>4. ret = 1 => exitcode' = 1 /\ mainShutdown'
    <3> SUFFICES ASSUME ret = 1 PROVE exitcode' = 1 /\ mainShutdown'
      OBVIOUS
    <3>1. ret # 0
      OBVIOUS
    <3>2. QED
      BY <1>7, <3>1, Zenon DEF Exit
  <2>5. (\A s \in Servers : ~alive'[s]) => exitcode' = 1 /\ mainShutdown'
    BY <2>2, <2>3, <2>4, Zenon
  <2>6. QED
    BY <1>7, <2>1, <2>5, Zenon DEF Exit, ServerInv, ServesAliveServer, NoneAliveIsFatal
<1>8. CASE Terminated \/ UNCHANGED vars
  BY <1>8 DEF Terminated, vars, ServerInv, TypeOK, ServesAliveServer, NoneAliveIsFatal
<1>9. QED
  BY <1>1, <1>2, <1>3, <1>4, <1>5, <1>6, <1>7, <1>8 DEF Next

(* ServerInv holds in every reachable state, whatever NServers.           *)
THEOREM ServerInvariant == Spec => []ServerInv
<1>1. Init => ServerInv
  <2> SUFFICES ASSUME Init PROVE ServerInv
    OBVIOUS
  <2>1. alive \in [Servers -> BOOLEAN] /\ freed \in [Servers -> Nat]
    BY Zenon DEF Init
  <2>2. phase \in {"probe", "select", "loop", "cleanup", "done", "exited"}
        /\ i \in 0 .. NServers /\ si \in Servers
        /\ ret \in {0, 1} /\ exitcode \in {0, 1}
    BY DEF Init, Servers
  <2>3. TypeOK
    BY <2>1, <2>2, Zenon DEF Init, TypeOK
  <2>4. QED
    BY <2>3, Zenon DEF Init, ServerInv, ServesAliveServer, NoneAliveIsFatal
<1>2. QED
  BY <1>1, ServerStep, PTL DEF Spec

(* Every reachable state of server mode is well typed: si always names a  *)
(* server of the table and the loop counter stays within 0 .. btcds.      *)
THEOREM ServerTypeCorrect == Spec => []TypeOK
<1>1. ServerInv => TypeOK
  BY DEF ServerInv
<1>2. QED
  BY <1>1, ServerInvariant, PTL

(* With no bitcoind alive, server_mode makes the generator exit 1 after    *)
(* telling the main process to shut down, whatever the number of           *)
(* configured bitcoinds.                                                   *)
THEOREM ServerFatal == Spec => []NoneAliveIsFatal
<1>1. ServerInv => NoneAliveIsFatal
  BY DEF ServerInv
<1>2. QED
  BY <1>1, ServerInvariant, PTL

-----------------------------------------------------------------------------
(* The refinement of ServerAbstract, one lemma per action.                 *)

(* The initial state is the abstract one. *)
LEMMA RefInit == Init => Abstract!Init
BY DEF Init, Abstract!Init, Abstract!Servers, Servers, Abstract!NoServer

(* One iteration of the probe loop checks server i. *)
LEMMA RefProbe == ASSUME TypeOK, Probe PROVE Abstract!Next
<1>1. PICK ok \in BOOLEAN : alive' = [alive EXCEPT ![i] = ok]
  BY DEF Probe
<1>2. i \in Servers
  BY DEF Probe, TypeOK, Servers
<1>3. Abstract!Check(i, ok)
  BY <1>1 DEF Probe, Abstract!Check
<1>4. QED
  BY <1>2, <1>3 DEF Abstract!Next, Abstract!Servers, Servers

(* After the probes, going on to select stutters; going to out: with no   *)
(* server alive is GiveUp.                                                 *)
LEMMA RefProbesDone == ASSUME TypeOK, ProbesDone PROVE [Abstract!Next]_Abstract!absVars
<1>1. CASE \E s \in Servers : alive[s]
  BY <1>1 DEF ProbesDone, Abstract!absVars
<1>2. CASE ~\E s \in Servers : alive[s]
  <2>1. Abstract!GiveUp
    BY <1>2 DEF ProbesDone, Abstract!GiveUp, Abstract!Servers, Servers
  <2>2. QED
    BY <2>1 DEF Abstract!Next
<1>3. QED
  BY <1>1, <1>2

(* The selection loop's break is Serve(si); its other iterations stutter. *)
LEMMA RefSelect == ASSUME TypeOK, Select PROVE [Abstract!Next]_Abstract!absVars
<1>1. CASE alive[si]
  <2>1. Abstract!Serve(si)
    BY <1>1 DEF Select, Abstract!Serve
  <2>2. si \in Abstract!Servers
    BY DEF TypeOK, Servers, Abstract!Servers
  <2>3. QED
    BY <2>1, <2>2 DEF Abstract!Next
<1>2. CASE ~alive[si]
  BY <1>2 DEF Select, Abstract!absVars
<1>3. QED
  BY <1>1, <1>2

(* An accepted submitblock is Submit. *)
LEMMA RefSubmitBlock == ASSUME SubmitBlock PROVE Abstract!Next
<1>1. Abstract!Submit
  BY DEF SubmitBlock, Abstract!Submit
<1>2. QED
  BY <1>1 DEF Abstract!Next

(* gen_loop's return with ret r is Stop(r). *)
LEMMA RefGenLoopExit == ASSUME GenLoopExit PROVE Abstract!Next
<1>1. PICK r \in {0, 1} : ret' = r
  BY DEF GenLoopExit
<1>2. Abstract!Stop(r)
  BY <1>1 DEF GenLoopExit, Abstract!Stop, Abstract!NoServer
<1>3. QED
  BY <1>1, <1>2 DEF Abstract!Next

(* The cleanup loop stutters: frees are not visible in the abstraction.   *)
LEMMA RefCleanup == ASSUME Cleanup PROVE UNCHANGED Abstract!absVars
BY DEF Cleanup, Abstract!absVars

(* generator()'s exit is Exit. *)
LEMMA RefExit == ASSUME Exit PROVE Abstract!Next
<1>1. Abstract!Exit
  BY DEF Exit, Abstract!Exit
<1>2. QED
  BY <1>1 DEF Abstract!Next

(* Every step of server mode is a step of ServerAbstract or a stutter.    *)
LEMMA RefStep == TypeOK /\ [Next]_vars => [Abstract!Next]_Abstract!absVars
<1> SUFFICES ASSUME TypeOK, [Next]_vars PROVE [Abstract!Next]_Abstract!absVars
  OBVIOUS
<1>1. CASE Probe
  BY <1>1, RefProbe
<1>2. CASE ProbesDone
  BY <1>2, RefProbesDone
<1>3. CASE Select
  BY <1>3, RefSelect
<1>4. CASE SubmitBlock
  BY <1>4, RefSubmitBlock
<1>5. CASE GenLoopExit
  BY <1>5, RefGenLoopExit
<1>6. CASE Cleanup
  BY <1>6, RefCleanup
<1>7. CASE Exit
  BY <1>7, RefExit
<1>8. CASE Terminated \/ UNCHANGED vars
  BY <1>8 DEF Terminated, vars, Abstract!absVars
<1>9. QED
  BY <1>1, <1>2, <1>3, <1>4, <1>5, <1>6, <1>7, <1>8 DEF Next

(* Server mode implements ServerAbstract for every number of bitcoinds:   *)
(* it serves only from a bitcoind that passed its checks, gives up with    *)
(* result 1 only when none did, and exits as its result says.             *)
THEOREM ServerRefinement == Spec => ServerRefined
<1>1. []TypeOK /\ [][Next]_vars => [][Abstract!Next]_Abstract!absVars
  BY RefStep, PTL
<1>2. QED
  BY <1>1, RefInit, ServerTypeCorrect, PTL DEF Spec, ServerRefined, Abstract!Spec

=============================================================================
