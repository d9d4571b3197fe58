-------------------------- MODULE MCDeliveryStock --------------------------
(***************************************************************************)
(* An instance of DeliveryStock for TLC.  Two deliveries compete for the   *)
(* lines a and b, a third one for their bins only.                         *)
(***************************************************************************)
EXTENDS DeliveryStock, TLC

CONSTANTS project, other, order, spare, a, b, c, e,
          first, second, third, back

MCOrderOf == a :> order @@ b :> order @@ c :> spare @@ e :> spare
MCProjectOf == order :> project @@ spare :> project
MCOrdered == a :> 20 @@ b :> 15 @@ c :> 15 @@ e :> 5
MCFactor == a :> 2 @@ b :> 1 @@ c :> 1 @@ e :> 1
MCBinOf == a :> 1 @@ b :> 2 @@ c :> 1 @@ e :> 2
MCSafetyStock == 1 :> 3 @@ 2 :> -4
MCStockLevels == {-5, 25}
MCIncomingLevels == {9}

MCRowsOf ==
    first :> <<a, b, a>> @@ second :> <<b, a>> @@ third :> <<e, c>>
    @@ back :> <<a, b>>
MCQuantity ==
    LET of(qa, qb, qc, qe) == a :> qa @@ b :> qb @@ c :> qc @@ e :> qe
    IN  first :> of(10, 10, 0, 0) @@ second :> of(10, 10, 0, 0)
        @@ third :> of(0, 0, 15, 5)
        @@ back :> of(-10, -10, 0, 0)
MCRequired ==
    [ d \in Deliveries |->
        [ n \in Bins |-> MapThenSumSet(LAMBDA l : MCQuantity[d][l],
                                       {l \in Lines : MCBinOf[l] = n}) ] ]
MCReturnOf == [d \in Deliveries |-> IF d = back THEN first ELSE NoDelivery]
=============================================================================
