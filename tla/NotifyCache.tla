---------------------------- MODULE NotifyCache ----------------------------
(***************************************************************************)
(* What the generator's notification cache (C4) promises, with no locks    *)
(* and no clock.  Notifications get local ids 0, 1, 2, ... in              *)
(* arrival order; an id's job is written once, when it is issued; the      *)
(* current notification is always the newest one issued; while linked to   *)
(* the upstream, ageing may drop any live entry except the current one;    *)
(* losing the link drops them all, and the link comes back only after a    *)
(* new handshake, during which notifications may already arrive.           *)
(* Module Proxy implements this specification under the refinement         *)
(* mapping Proxy!Cache.                                                    *)
(***************************************************************************)
EXTENDS Naturals

CONSTANTS
    Size,   \* how many ids may be issued
    Jobs,   \* the upstream jobs a notification may carry
    Empty,  \* the job of an id not issued yet
    None    \* no current notification

Ids == 0 .. Size - 1

VARIABLES
    live,     \* the ids whose notification is in the table
    job,      \* the job each id was issued with
    next,     \* the next id to issue
    current,  \* the current notification
    linked    \* the receive loop is serving an established connection

cacheVars == <<live, job, next, current, linked>>

Init ==
    /\ live = {}
    /\ job = [i \in Ids |-> Empty]
    /\ next = 0
    /\ current = None
    /\ linked = FALSE

(* A notification arrives: it takes the next id and becomes current.       *)
Issue(j) ==
    /\ next < Size
    /\ live' = live \cup {next}
    /\ job' = [job EXCEPT ![next] = j]
    /\ next' = next + 1
    /\ current' = next
    /\ UNCHANGED linked

(* Ageing drops old entries, never the current one.                        *)
Age(S) ==
    /\ linked
    /\ current \notin S
    /\ live' = live \ S
    /\ UNCHANGED <<job, next, current, linked>>

(* Losing the link drops every entry; ids are not reused.                  *)
Flush ==
    /\ linked /\ ~linked'
    /\ live' = {}
    /\ UNCHANGED <<job, next, current>>

(* A completed handshake re-establishes the link.                          *)
Resume ==
    /\ ~linked /\ linked'
    /\ UNCHANGED <<live, job, next, current>>

Next ==
    \/ \E j \in Jobs : Issue(j)
    \/ \E S \in SUBSET live : Age(S)
    \/ Flush
    \/ Resume

Spec == Init /\ [][Next]_cacheVars
=============================================================================
