--------------------------- MODULE SubscribeLadder ---------------------------
(***************************************************************************)
(* What the three-tier subscribe of the upstream session (C3) promises,    *)
(* with no sockets, replies or flags: the next mining.subscribe is sent    *)
(* with the session id (tier 1), with the client tag only (tier 2) or      *)
(* with no parameters (tier 3).  A failure moves down the ladder and ends  *)
(* resuming for good; tier 3 is final, and a failure there gives up.  A    *)
(* success keeps the tier, or, while resuming is still allowed, hands a    *)
(* session id that makes the next subscribe a resume.                      *)
(***************************************************************************)
VARIABLES
    tier,       \* the form the next mining.subscribe uses: 1, 2 or 3
    resumable   \* a session id may still be taken from a reply

ladderVars == <<tier, resumable>>

Init == tier = 2 /\ resumable = TRUE

(* A subscribe reply is accepted. *)
Succeed ==
    /\ tier' \in {tier} \cup (IF resumable THEN {1} ELSE {})
    /\ UNCHANGED resumable

(* A subscribe below tier 3 fails: a resume falls back to tier 2; tier 2  *)
(* goes on to tier 3, or stays if the failed reply had handed a session id *)
(* (which is dropped); resuming is never tried again.  A failure at tier 3 *)
(* gives up and changes nothing here.                                      *)
Fall ==
    /\ tier # 3
    /\ tier' \in IF tier = 1 THEN {2} ELSE IF resumable THEN {2, 3} ELSE {3}
    /\ resumable' = FALSE

Next == Succeed \/ Fall

Spec == Init /\ [][Next]_ladderVars

=============================================================================
