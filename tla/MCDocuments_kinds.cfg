SPECIFICATION Spec
CONSTANTS
  Targets = {d1}
  ApprovalTypes = {"BUSINESS", "CANCEL"}
  Contents = {c1, c2}
  Approvers = {a1, a2}
  MaxSteps = 2
  MaxRequests = 2
  MaxRouteChanges = 1
  Procs = {p1, p2}
  Kinds = {"GOODS_ISSUE", "INVENTORY_ADJUSTMENT", "PURCHASE_ORDER", "INBOUND_RECEIPT", "GOODS_RECEIPT", "SHIPMENT", "PRODUCTION_RESULT"}
  MaxVersion = 2
  MaxSuccessors = 1
SYMMETRY Symmetry
INVARIANT TypeOK
INVARIANT OneOpenRequest
INVARIANT DecisionsAddUp
INVARIANT PostedAsApproved
INVARIANT MarksOnce
INVARIANT UndoneAfterApproval
INVARIANT ConfirmedNotInCancel
