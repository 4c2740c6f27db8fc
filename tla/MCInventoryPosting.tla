------------------------- MODULE MCInventoryPosting -------------------------
(* The operations of the server that meet on the balance rows of one item at *)
(* locations A and B, which are there, and at C, which are not there yet;    *)
(* the location parent has others below it and takes no stock.               *)
EXTENDS InventoryPosting, TLC

CONSTANTS A, B, C, parent, part, ok, bad, k0, k1, k2, k3, k4, k5, k6, k7, k8, k9

D(l, s)       == [loc |-> l, item |-> part, status |-> s]
P(l)          == [loc |-> l, item |-> part]
Row(i, q, p)  == [id |-> i, onHand |-> q, reserved |-> 0, picked |-> p]
Line(f, t, q) == [from |-> f, to |-> t, qty |-> q]

Of(op)                   == [op |-> op] @@ NoArgs
Post(k, lines, strict)   == [Of("post") EXCEPT !.key = k, !.lines = lines, !.strict = strict]
Reverse(k, strict)       == [Of("reverse") EXCEPT !.key = k, !.strict = strict]
Lock(places, dims)       == [Of("lock") EXCEPT !.places = places, !.dims = dims]
Qty(op, d, q)            == [Of(op) EXCEPT !.dims = {d}, !.qty = q]

MCLocations == {A, B, C, parent}
MCItems     == {part}
MCStatuses  == {ok, bad}
MCKeys      == {k0, k1, k2, k3, k4, k5, k6, k7, k8, k9}
MCRefusing  == {P(parent)}

(* Stock transfers in opposite directions, and one whose lines cross. *)
Transfer(k, f, t) == <<Post(k, <<Line(D(f, ok), D(t, ok), 1)>>, FALSE)>>
Crossing(k)       == <<Post(k, <<Line(D(B, ok), D(A, ok), 1), Line(D(A, ok), D(B, ok), 2)>>, FALSE)>>
(* A change of status at A; a receipt of two lines at B. *)
Sort(k)           == <<Post(k, <<Line(D(A, ok), D(A, bad), 1)>>, FALSE)>>
Receipt(k)        == <<Post(k, <<Line(NoDim, D(B, bad), 1), Line(NoDim, D(B, ok), 1)>>, FALSE)>>
(* Receipts of two documents that name the statuses at C in other orders,    *)
(* and one into a location that has others below it.                         *)
Into(k, to)       == <<Post(k, [i \in DOMAIN to |-> Line(NoDim, to[i], 1)], FALSE)>>
(* Document cancellation; that of an expedited shipment reverses its goods  *)
(* issue and then its goods receipt (shipment-cancel.service.ts:145-152).   *)
Cancel(k)           == <<Reverse(k, FALSE)>>
ShipmentCancel(i, r) == <<Reverse(i, TRUE), Reverse(r, TRUE)>>
(* Goods issue of two lines, for stock that was picked and for stock that was not. *)
Issue(k, l)       == <<Lock({P(l)}, {D(l, ok)}), Qty("check", D(l, ok), 2),
                       Post(k, <<Line(D(l, ok), NoDim, 1), Line(D(l, ok), NoDim, 1)>>, TRUE)>>
PickedIssue(k, l) == <<Lock({P(l)}, {D(l, ok)}), Qty("consume", D(l, ok), 1), Qty("check", D(l, ok), 1),
                       Post(k, <<Line(D(l, ok), NoDim, 1)>>, TRUE)>>
(* Picking, its correction, and product picking. *)
Pick(l, q)        == <<Lock({P(l)}, {D(l, ok)}), Qty("pick", D(l, ok), q)>>
ProductPick(l)    == <<Lock({P(A), P(B)}, {D(l, ok)}), Qty("reserve", D(l, ok), 1),
                       Qty("pickReserved", D(l, ok), 1)>>

(* k0 moved one piece from A to B before the run; k5 received one at B and  *)
(* k6 shipped it.                                                           *)
MCOpeningLedger == [k \in MCKeys |->
  CASE k = k0 -> <<Line(D(A, ok), D(B, ok), 1)>>
    [] k = k5 -> <<Line(NoDim, D(B, ok), 1)>>
    [] k = k6 -> <<Line(D(B, ok), NoDim, 1)>>
    [] OTHER  -> <<>>]

(* B's rows came first. *)
MCOpening == [d \in Dims |->
  CASE d = D(B, ok)  -> Row(1, 2, 1)
    [] d = D(A, ok)  -> Row(2, 1, 0)
    [] d = D(A, bad) -> Row(3, 0, 0)
    [] d = D(B, bad) -> Row(4, 0, 0)
    [] OTHER         -> NoRow]

MCPrograms ==
  {Transfer(k1, A, B), Transfer(k2, B, A), Crossing(k3), Sort(k3), Receipt(k4),
   Into(k7, <<D(C, bad), D(C, ok)>>), Into(k8, <<D(C, ok), D(C, bad), D(C, ok)>>),
   Into(k9, <<D(parent, ok)>>),
   Cancel(k0), Cancel(k1), Cancel(k7), ShipmentCancel(k6, k5),
   Issue(k4, B), PickedIssue(k4, B), Pick(B, 1), Pick(B, -1), ProductPick(B)}

(* All these lock their rows first, and issues check what they post. *)
ASSUME AllLockFirst == \A p \in Programs : LocksFirst(p)
ASSUME IssuesAreChecked == IssuesChecked

TxSymmetry == Permutations(Txs)
=============================================================================
