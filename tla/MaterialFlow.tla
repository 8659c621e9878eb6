----------------------------- MODULE MaterialFlow -----------------------------
(***************************************************************************)
(* What a work order's material goes through, seen from outside: it lies   *)
(* in the store, is held by one work order, or is used up by it.  Requests *)
(* that interleave, reservations, rows and lines do not show.              *)
(*                                                                         *)
(* A step moves material of one work order, or of one material between the *)
(* store and the world; what a work order has made is covered by what it   *)
(* has used.  WorkOrderMaterials implements this specification.            *)
(***************************************************************************)
EXTENDS Integers

CONSTANTS WorkOrders, Materials, PerUnit

VARIABLES
  store,   \* store[m]: units of m in the store
  held,    \* held[w][m]: units of m issued to w, and neither used nor given back
  used,    \* used[w][m]: units of m used for the output of w
  made     \* made[w]: output of w

vars == <<store, held, used, made>>

Init ==
  /\ store = [m \in Materials |-> 0]
  /\ held = [w \in WorkOrders |-> [m \in Materials |-> 0]]
  /\ used = held
  /\ made = [w \in WorkOrders |-> 0]

\* Material comes from a supplier, or leaves the store by hand.
Supply(m) ==
  /\ \A k \in Materials : store'[k] \in Nat /\ (k # m => store'[k] = store[k])
  /\ UNCHANGED <<held, used, made>>

\* Nothing but w, and the store, is touched.
Only(w) ==
  \A v \in WorkOrders \ {w} :
    held'[v] = held[v] /\ used'[v] = used[v] /\ made'[v] = made[v]

\* Material that leaves the store, or returns to it, is held less or more by w; what is
\* used was held.
Balanced(w) ==
  \A m \in Materials :
    /\ store'[m] \in Nat /\ held'[w][m] \in Nat
    /\ store'[m] + held'[w][m] + used'[w][m] = store[m] + held[w][m] + used[w][m]

\* w is issued material, uses some of what it holds, and makes no more than that covers.
Work(w) ==
  /\ Only(w) /\ Balanced(w)
  /\ \A m \in Materials : store'[m] =< store[m] /\ used[w][m] =< used'[w][m]
  /\ made[w] =< made'[w]
  /\ \A m \in Materials : made'[w] * PerUnit[w][m] =< used'[w][m]

\* w gives back some of what it holds.
GiveBack(w) ==
  /\ Only(w) /\ Balanced(w)
  /\ \A m \in Materials : store[m] =< store'[m]
  /\ UNCHANGED <<used, made>>

Next ==
  \/ \E m \in Materials : Supply(m)
  \/ \E w \in WorkOrders : Work(w) \/ GiveBack(w)

Spec == Init /\ [][Next]_vars
=============================================================================
