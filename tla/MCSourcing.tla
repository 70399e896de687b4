----------------------------- MODULE MCSourcing -----------------------------
(***************************************************************************)
(* Instances of Sourcing for TLC: a requisition that two levels approve,   *)
(* one below the automatic threshold, and an RFQ to two suppliers.         *)
(***************************************************************************)
EXTENDS Sourcing, TLC

AnyOrder == Permutations(Workers)

OneRequisition == {"PR1"}
OneRfq         == {"RFQ1"}
TwoSuppliers   == {"A", "B"}
TwoLevels      == [d \in OneRequisition |-> 2500001]
BothKinds      == {"PR1", "PR2"}
TwoAndNone     == "PR1" :> 2500001 @@ "PR2" :> 49999
=============================================================================
