---------------------------- MODULE MCOrderTerms ----------------------------
(* An instance of OrderTerms for TLC. *)
EXTENDS OrderTerms

Limit(side, tif, instructions) ==
    [side |-> side, order_type |-> "LIMIT", time_in_force |-> tif,
     execution_instructions |-> instructions, quantity |-> 2, price |-> 1]

\* Every time in force, with and without an instruction; every side and type.
SomeCreateOrders ==
    {Limit("BUY", tif, {}) : tif \in TimesInForce}
        \cup {Limit("SELL", tif, {"PARTICIPATE_DO_NOT_INITIATE"}) : tif \in {"GTC", "IOC"}}
        \cup {Limit("SELL", "GTC", Instructions), Limit("UNDEFINED", "GTC", {})}
        \cup {[Limit("SELL", tif, {"DO_NOT_INCREASE"}) EXCEPT !.order_type = type, !.price = NaN] :
                  tif \in {"UNDEFINED", "GTC"}, type \in OrderTypes}

\* A new quantity, a new price, and both.
SomeModifyOrders ==
    {[quantity |-> 3, price |-> NaN], [quantity |-> NaN, price |-> 2], [quantity |-> 1, price |-> 2]}

\* For each reason a code for each error it may lead to.
SomeReturnCodes ==
    {12117, 12116, 12132, 12218, 12131, 12136, 12140, 10006, 110001, 12143, 12213, 12139, 12190}
=============================================================================
