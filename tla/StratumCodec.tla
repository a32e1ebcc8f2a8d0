---------------------------- MODULE StratumCodec ----------------------------
(***************************************************************************)
(* The part of the JSON-RPC codec (C2) that decides control flow in the    *)
(* subscribe handshake: find_notify, which searches the mining.subscribe   *)
(* result for the notify subscription "at various different array depths" *)
(* (generator.c lines 267-290), and the checks parse_subscribe applies to  *)
(* the result (lines 304-365).  A JSON value is a tagged record: a string  *)
(* keeps its length and whether its first 13 characters match              *)
(* "mining.notify" ignoring case (the strncasecmp test), an integer its    *)
(* value, an array its items.  The state is one subscribe result and the   *)
(* two capability flags; module Proxy abstracts the outcome into the ok    *)
(* and sid fields of a "subres" line.                                      *)
(***************************************************************************)
EXTENDS Integers, Sequences

CONSTANTS
    MaxDepth,   \* nesting depth of the JSON trees searched
    MaxWidth,   \* items per array in those trees
    HexLens,    \* enonce1 string lengths tried
    Nonce2Lens  \* nonce2len values tried

VARIABLES reply, no_params, no_sessionid

codecVars == <<reply, no_params, no_sessionid>>

Str(n, isNotify) == [t |-> "str", len |-> n, notify |-> isNotify]
Num(k) == [t |-> "int", val |-> k]
Arr(s) == [t |-> "arr", items |-> s]
NoValue == [t |-> "none"]    \* a NULL json_t *

NotifyStr == Str(13, TRUE)
OtherStr == Str(8, FALSE)

(* json_array_get: NULL past the end. *)
Item(v, i) == IF i <= Len(v.items) THEN v.items[i] ELSE NoValue

(* Lines 278-279: the first item is a string starting "mining.notify". *)
IsNotifyEntry(v) == LET e == Item(v, 1) IN e.t = "str" /\ e.notify

(* find_notify, mutated: the loop does not break on a hit, so the last    *)
(* match among the items wins.                                             *)
RECURSIVE FindNotifyLast(_), LastFound(_, _)
FindNotifyLast(v) ==
    IF v.t # "arr" THEN NoValue
    ELSE IF IsNotifyEntry(v) THEN v
    ELSE LastFound(v.items, 1)
LastFound(s, i) ==
    IF i > Len(s) THEN NoValue
    ELSE LET r == FindNotifyLast(s[i]) IN
         IF i = Len(s) THEN r
         ELSE LET rest == LastFound(s, i + 1) IN IF rest = NoValue THEN r ELSE rest

(* find_notify, lines 269-290: not an array gives NULL; an array whose     *)
(* first item names mining.notify is the answer; otherwise the items are   *)
(* searched in order and the first hit returned.                           *)
RECURSIVE FindNotify(_), FirstFound(_, _)
FindNotify(v) ==
    IF v.t # "arr" THEN NoValue
    ELSE IF IsNotifyEntry(v) THEN v
    ELSE FirstFound(v.items, 1)
FirstFound(s, i) ==
    IF i > Len(s) THEN NoValue
    ELSE LET r == FindNotify(s[i]) IN IF r # NoValue THEN r ELSE FirstFound(s, i + 1)

(* parse_subscribe lines 304-365 on the result array res: at least three   *)
(* items, a notify subscription somewhere in it, enonce1 a string of 1 to  *)
(* 31 hex characters (strlen / 2 <= 15), nonce2len an integer in 4..8.     *)
(* sid: the session id was copied, which happens (line 323) before the     *)
(* enonce1 and nonce2len checks, so also on a reply that then fails.       *)
ParseSubscribe(res) ==
    LET nv == FindNotify(res)
        e1 == Item(res, 2)
        n2 == Item(res, 3)
        reached == res.t = "arr" /\ Len(res.items) >= 3 /\ nv # NoValue
    IN [ok |-> /\ reached
               /\ e1.t = "str" /\ e1.len >= 1 /\ e1.len \div 2 <= 15
               /\ n2.t = "int" /\ n2.val >= 1 /\ n2.val <= 8 /\ n2.val >= 4,
        sid |-> /\ reached /\ ~no_params /\ ~no_sessionid
                /\ Len(nv.items) > 1 /\ Item(nv, 2).t = "str"]

-----------------------------------------------------------------------------
(* The inputs.                                                             *)

Atoms == {NotifyStr, OtherStr, Num(0)}

(* Arrays of at most w items drawn from S. *)
Arrays(S, w) == {Arr(s) : s \in UNION {[1 .. n -> S] : n \in 0 .. w}}

(* JSON trees of depth at most d. *)
RECURSIVE Trees(_)
Trees(d) == IF d = 0 THEN Atoms ELSE Atoms \cup Arrays(Trees(d - 1), MaxWidth)

(* Where pools put the notify subscription: directly, with a session id,  *)
(* nested one level as [[set_difficulty, id], [notify, id]], or missing.   *)
Subscriptions ==
    { Arr(<<NotifyStr>>), Arr(<<NotifyStr, OtherStr>>),
      Arr(<<Arr(<<OtherStr, OtherStr>>), Arr(<<NotifyStr, OtherStr>>)>>),
      Arr(<<OtherStr, OtherStr>>) }

(* Subscribe results [subscription, enonce1, nonce2len], and shorter ones. *)
SubscribeResults ==
    { Arr(<<s, e, n>>) : s \in Subscriptions,
                         e \in {Str(l, FALSE) : l \in HexLens} \cup {Num(0)},
                         n \in {Num(k) : k \in Nonce2Lens} \cup {OtherStr} }
    \cup { Arr(<<s, Str(2, FALSE)>>) : s \in Subscriptions }

Init ==
    /\ reply \in Trees(MaxDepth) \cup SubscribeResults
    /\ no_params \in BOOLEAN /\ no_sessionid \in BOOLEAN

Next == UNCHANGED codecVars

Spec == Init /\ [][Next]_codecVars

-----------------------------------------------------------------------------
(* The reference: the array find_notify should return is the first one in *)
(* document (pre-)order whose first item names mining.notify.             *)

RECURSIVE Paths(_)
Paths(v) ==
    {<<>>} \cup IF v.t # "arr" THEN {}
                ELSE UNION {{<<i>> \o p : p \in Paths(v.items[i])} : i \in 1 .. Len(v.items)}

RECURSIVE At(_, _)
At(v, p) == IF p = <<>> THEN v ELSE At(v.items[Head(p)], Tail(p))

(* p comes before q in a depth-first, left-to-right walk. *)
PreOrderBefore(p, q) ==
    \/ Len(p) < Len(q) /\ p = SubSeq(q, 1, Len(p))
    \/ \E i \in 1 .. Len(p) :
          /\ i <= Len(q) /\ SubSeq(p, 1, i - 1) = SubSeq(q, 1, i - 1) /\ p[i] < q[i]

RefFind(v) ==
    LET hits == {p \in Paths(v) : At(v, p).t = "arr" /\ IsNotifyEntry(At(v, p))}
    IN IF hits = {} THEN NoValue
       ELSE At(v, CHOOSE p \in hits : \A q \in hits \ {p} : PreOrderBefore(p, q))

-----------------------------------------------------------------------------
(* Properties.                                                             *)

(* Spec section 8, scenario 2: find_notify finds the notify subscription *)
(* at any nesting depth, and when several arrays qualify it returns the    *)
(* first in document order, the one a reader of the reply would take.      *)
FindNotifyIsFirst == FindNotify(reply) = RefFind(reply)

(* Spec section 3: enonce1 is kept as hex and as its binary copy of at     *)
(* most 15 bytes, so an accepted enonce1 is a whole number of bytes, at    *)
(* least one.                                                              *)
Enonce1WholeBytes ==
    ParseSubscribe(reply).ok =>
        LET e1 == Item(reply, 2) IN e1.len >= 2 /\ e1.len % 2 = 0

=============================================================================
