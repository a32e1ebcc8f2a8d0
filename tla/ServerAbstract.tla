--------------------------- MODULE ServerAbstract ---------------------------
(***************************************************************************)
(* What server mode promises, with no loop counters, pointers or frees:    *)
(* bitcoinds are checked in any order; the generator serves from one that  *)
(* passed its check, or gives up, with result 1, only when none passed;    *)
(* it stops serving with some result, and its exit status and the          *)
(* shutdown message to the main process follow that result.               *)
(***************************************************************************)
EXTENDS Integers

CONSTANT NServers

Servers == 0 .. NServers - 1
NoServer == -1

VARIABLES
    stage,       \* "probing", "serving", "stopped", "exited"
    up,          \* the bitcoinds that passed their check
    server,      \* the bitcoind served from while serving, else NoServer
    result,      \* the result the generator will exit with
    submitted,   \* a block was accepted and the stratifier told
    exitcode,
    mainShutdown

absVars == <<stage, up, server, result, submitted, exitcode, mainShutdown>>

Init ==
    /\ stage = "probing"
    /\ up = [s \in Servers |-> FALSE]
    /\ server = NoServer
    /\ result = 1
    /\ submitted = FALSE /\ exitcode = 0 /\ mainShutdown = FALSE

(* A bitcoind is checked and passes or fails. *)
Check(s, ok) ==
    /\ stage = "probing"
    /\ up' = [up EXCEPT ![s] = ok]
    /\ UNCHANGED <<stage, server, result, submitted, exitcode, mainShutdown>>

(* Serving starts from a bitcoind that passed. *)
Serve(s) ==
    /\ stage = "probing" /\ up[s]
    /\ stage' = "serving" /\ server' = s
    /\ UNCHANGED <<up, result, submitted, exitcode, mainShutdown>>

(* With no bitcoind up the generator gives up; the result stays 1. *)
GiveUp ==
    /\ stage = "probing" /\ \A s \in Servers : ~up[s]
    /\ stage' = "stopped"
    /\ UNCHANGED <<up, server, result, submitted, exitcode, mainShutdown>>

(* A block is accepted while serving. *)
Submit ==
    /\ stage = "serving"
    /\ submitted' = TRUE
    /\ UNCHANGED <<stage, up, server, result, exitcode, mainShutdown>>

(* Serving ends with result r. *)
Stop(r) ==
    /\ stage = "serving"
    /\ stage' = "stopped" /\ result' = r /\ server' = NoServer
    /\ UNCHANGED <<up, submitted, exitcode, mainShutdown>>

(* The process exits with the status its result gives. *)
Exit ==
    /\ stage = "stopped"
    /\ stage' = "exited"
    /\ exitcode' = IF result # 0 THEN 1 ELSE 0
    /\ mainShutdown' = (result # 0)
    /\ UNCHANGED <<up, server, result, submitted>>

Next ==
    \/ \E s \in Servers, ok \in BOOLEAN : Check(s, ok)
    \/ \E s \in Servers : Serve(s)
    \/ GiveUp
    \/ Submit
    \/ \E r \in {0, 1} : Stop(r)
    \/ Exit

Spec == Init /\ [][Next]_absVars

=============================================================================
