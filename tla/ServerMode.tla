----------------------------- MODULE ServerMode -----------------------------
(***************************************************************************)
(* Server mode of the generator (C9): server_mode probes every configured  *)
(* bitcoind, picks one that passed, serves the stratifier from gen_loop     *)
(* until shutdown, frees the server table, and generator() exits.  The     *)
(* RPC helpers (gen_gbtbase, validate_address, submit_block) are outside    *)
(* this repository: each probe and each block submission just succeeds or *)
(* fails.  The two loops over the table keep the code's shape,             *)
(*     for (i = 0; i < n; si = ckp->servers[i], i++)                        *)
(* whose first iteration looks at whatever si was left pointing at, so     *)
(* they are stepped one iteration at a time.                               *)
(***************************************************************************)
EXTENDS Integers

CONSTANT NServers   \* ckp->btcds

ASSUME NServersAssumption == NServers \in Nat \ {0}

Servers == 0 .. NServers - 1

VARIABLES
    phase,       \* "probe", "select", "loop", "cleanup", "done", "exited"
    i,           \* the loop counter of the current loop
    si,          \* the server the si pointer designates
    alive,       \* si->alive of each server
    freed,       \* how many times each server_instance_t was freed
    ret,         \* server_mode's ret
    updated,     \* the stratifier was sent "update" after a block submit
    exitcode,    \* generator()'s exit status
    mainShutdown \* generator() told the main process to shut down

vars == <<phase, i, si, alive, freed, ret, updated, exitcode, mainShutdown>>

TypeOK ==
    /\ phase \in {"probe", "select", "loop", "cleanup", "done", "exited"}
    /\ i \in 0 .. NServers
    /\ si \in Servers
    /\ alive \in [Servers -> BOOLEAN]
    /\ freed \in [Servers -> Nat]
    /\ ret \in {0, 1}
    /\ updated \in BOOLEAN
    /\ exitcode \in {0, 1}
    /\ mainShutdown \in BOOLEAN

(* Init, mutated: ret starts at 0, so the goto out taken when no bitcoind *)
(* is alive returns success.                                              *)
InitRetZero ==
    /\ phase = "probe" /\ i = 0 /\ si = 0
    /\ alive = [s \in Servers |-> FALSE]
    /\ freed = [s \in Servers |-> 0]
    /\ ret = 0
    /\ updated = FALSE /\ exitcode = 0 /\ mainShutdown = FALSE

(* Lines 1073-1080: ret = 1, a zeroed table of NServers servers. *)
Init ==
    /\ phase = "probe" /\ i = 0 /\ si = 0
    /\ alive = [s \in Servers |-> FALSE]
    /\ freed = [s \in Servers |-> 0]
    /\ ret = 1
    /\ updated = FALSE /\ exitcode = 0 /\ mainShutdown = FALSE

(* Lines 1081-1124, one iteration: si = servers[i]; the server is alive    *)
(* only if the address parses, the base64 auth is built, the socket        *)
(* connects, a test block template comes back and the payout address       *)
(* validates (ok); any failure continues with the next server.             *)
Probe ==
    /\ phase = "probe" /\ i < NServers
    /\ \E ok \in BOOLEAN : alive' = [alive EXCEPT ![i] = ok]
    /\ si' = i /\ i' = i + 1
    /\ UNCHANGED <<phase, freed, ret, updated, exitcode, mainShutdown>>

(* Lines 1125-1128: after the last probe, with no server alive, goto out   *)
(* with ret still 1; otherwise start the selection loop at i = 0.          *)
ProbesDone ==
    /\ phase = "probe" /\ i = NServers
    /\ phase' = IF \E s \in Servers : alive[s] THEN "select" ELSE "cleanup"
    /\ i' = 0
    /\ UNCHANGED <<si, alive, freed, ret, updated, exitcode, mainShutdown>>

(* Select, mutated: the loop breaks on its first test without looking at  *)
(* si->alive, so gen_loop gets the server the probe loop ended on.        *)
SelectNoCheck ==
    /\ phase = "select"
    /\ phase' = "loop"
    /\ UNCHANGED <<i, si, alive, freed, ret, updated, exitcode, mainShutdown>>

(* Lines 1129-1133, one iteration: break into gen_loop if si is alive,     *)
(* else si = servers[i], i++.  The loop tests the last server and then     *)
(* servers 0 .. n-2, all of them, and one is alive, so it always breaks    *)
(* before the test i < n fails.                                            *)
Select ==
    /\ phase = "select" /\ i < NServers
    /\ \/ alive[si] /\ phase' = "loop" /\ UNCHANGED <<i, si>>
       \/ ~alive[si] /\ si' = i /\ i' = i + 1 /\ UNCHANGED phase
    /\ UNCHANGED <<alive, freed, ret, updated, exitcode, mainShutdown>>

(* gen_loop lines 172-175: a submitblock that bitcoind accepts makes the   *)
(* generator send the stratifier "update"; a rejected one changes nothing.*)
(* getbase, getbest, getlast and ping only answer the request.             *)
SubmitBlock ==
    /\ phase = "loop"
    /\ updated' = TRUE
    /\ UNCHANGED <<phase, i, si, alive, freed, ret, exitcode, mainShutdown>>

(* gen_loop lines 117-135: "shutdown" returns 0, a failed accept() 1;      *)
(* server_mode goes on at out: with i = 0.                                 *)
GenLoopExit ==
    /\ phase = "loop"
    /\ \E r \in {0, 1} : ret' = r
    /\ phase' = "cleanup" /\ i' = 0
    /\ UNCHANGED <<si, alive, freed, updated, exitcode, mainShutdown>>

(* Cleanup, mutated: the loop test is i <= n, so one more iteration runs   *)
(* past the end of the table.                                              *)
CleanupPastEnd ==
    /\ phase = "cleanup"
    /\ \/ /\ i <= NServers
          /\ freed' = [freed EXCEPT ![si] = @ + 1]
          /\ si' = i /\ i' = i + 1
          /\ UNCHANGED phase
       \/ i = NServers + 1 /\ phase' = "done" /\ UNCHANGED <<freed, si, i>>
    /\ UNCHANGED <<alive, ret, updated, exitcode, mainShutdown>>

(* Lines 1135-1137, one iteration: dealloc(si), then si = servers[i],      *)
(* i++; the table itself is freed when the test fails.                      *)
Cleanup ==
    /\ phase = "cleanup"
    /\ \/ /\ i < NServers
          /\ freed' = [freed EXCEPT ![si] = @ + 1]
          /\ si' = i /\ i' = i + 1
          /\ UNCHANGED phase
       \/ i = NServers /\ phase' = "done" /\ UNCHANGED <<freed, si, i>>
    /\ UNCHANGED <<alive, ret, updated, exitcode, mainShutdown>>

(* generator() lines 1231-1239: a nonzero ret tells the main process to    *)
(* shut down; the process exits 1 or 0.                                    *)
Exit ==
    /\ phase = "done"
    /\ phase' = "exited"
    /\ exitcode' = IF ret # 0 THEN 1 ELSE 0
    /\ mainShutdown' = (ret # 0)
    /\ UNCHANGED <<i, si, alive, freed, ret, updated>>

(* After exit() nothing happens any more. *)
Terminated == phase = "exited" /\ UNCHANGED vars

Next ==
    \/ Probe \/ ProbesDone \/ Select \/ SubmitBlock \/ GenLoopExit \/ Cleanup \/ Exit
    \/ Terminated

Spec == Init /\ [][Next]_vars

-----------------------------------------------------------------------------
(* Properties.                                                             *)

(* gen_loop only ever talks to a bitcoind that passed every startup check, *)
(* although the selection loop starts from the server the probe loop left  *)
(* si at.  A conjunct of ServerInv; ServerRefined implies it, since the    *)
(* abstract Serve takes only a checked server.                             *)
ServesAliveServer == phase = "loop" => alive[si]

(* Spec section 4.10: if no bitcoind survives the probes the process exits *)
(* fatally: exit status 1, with the main process told to shut down.        *)
NoneAliveIsFatal ==
    (phase = "exited" /\ \A s \in Servers : ~alive[s]) => exitcode = 1 /\ mainShutdown

(* Spec section 4.10: the generator serves from the first alive node.      *)
SelectsFirstAlive == phase = "loop" => \A s \in Servers : s < si => ~alive[s]

(* The cleanup after out: frees each server_instance_t at most once.       *)
NoDoubleFree == \A s \in Servers : freed[s] <= 1

-----------------------------------------------------------------------------
(* Server mode implements ServerAbstract: the probe loop is a sequence of  *)
(* checks, the selection loop's break is Serve, the goto out with nobody   *)
(* alive is GiveUp, gen_loop's return is Stop, generator() is Exit; the    *)
(* rest of the selection loop and the whole cleanup loop stutter.          *)
Abstract == INSTANCE ServerAbstract
    WITH stage <- CASE phase \in {"probe", "select"} -> "probing"
                    [] phase = "loop" -> "serving"
                    [] phase \in {"cleanup", "done"} -> "stopped"
                    [] phase = "exited" -> "exited",
         up <- alive,
         server <- IF phase = "loop" THEN si ELSE -1,
         result <- ret,
         submitted <- updated

(* Spec section 4.10, as a whole: server mode serves only from a bitcoind  *)
(* that passed its startup checks, gives up with a fatal result only when  *)
(* none did, and exits with the status and shutdown message its result     *)
(* calls for.                                                              *)
ServerRefined == Abstract!Spec

-----------------------------------------------------------------------------
(* The inductive invariant behind ServesAliveServer and NoneAliveIsFatal,  *)
(* used by ServerProofs: while probing, si is the server probed last; while *)
(* selecting, the servers still to be tested (si, then servers i .. n-2)   *)
(* include an alive one; ret stays 1 until gen_loop returns, and gen_loop  *)
(* is only reached with a server alive.                                    *)
ServerInv ==
    /\ TypeOK
    /\ phase = "probe" => si = (IF i = 0 THEN 0 ELSE i - 1) /\ ret = 1
    /\ phase = "select" =>
          /\ i < NServers
          /\ alive[si] \/ \E s \in i .. NServers - 2 : alive[s]
    /\ ServesAliveServer
    /\ (phase \in {"cleanup", "done"} /\ \A s \in Servers : ~alive[s]) => ret = 1
    /\ NoneAliveIsFatal

=============================================================================
