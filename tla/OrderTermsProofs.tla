--------------------------- MODULE OrderTermsProofs ---------------------------
(***************************************************************************)
(* Proofs that the order at the exchange is the one that was agreed upon,  *)
(* and that the client is shown it as it is, for all terms a client may    *)
(* ask for and any number of requests.                                     *)
(*                                                                         *)
(* AgreedTerms is not inductive: that a request changes what the client    *)
(* meant to change is known when it is written, by the Encoder, and needed *)
(* when it is executed.  AgreedInv adds what the requests on their way say,*)
(* and that the creation comes first and only once.                        *)
(***************************************************************************)
EXTENDS OrderTerms, SequenceTheorems, TLAPS

CreateOrderType ==
    [side: Sides, order_type: OrderTypes, time_in_force: TimesInForce,
     execution_instructions: SUBSET Instructions, quantity: Nat \ {0}, price: Nat \cup {NaN}]
ModifyOrderType == [quantity: (Nat \ {0}) \cup {NaN}, price: Nat \cup {NaN}]

SideWords == {"Buy", "Sell", ""}
TypeWords == {"Market", "Limit", ""}
TimeWords == {"GTC", "PostOnly", "IOC", "FOK", ""}
StatusWords == {"New", "PartiallyFilled", "Filled", "Cancelled", "PartiallyFilledCanceled", "Rejected", ""}
TermsType ==
    [side: SideWords, orderType: TypeWords, timeInForce: TimeWords, reduceOnly: BOOLEAN,
     qty: Int, price: Int]
OrderType ==
    [side: SideWords, orderType: TypeWords, timeInForce: TimeWords, reduceOnly: BOOLEAN,
     qty: Int, price: Int, orderStatus: StatusWords, cumExecQty: Int, changes: Int]

Creations == [op: {"create"}, meant: CreateOrders, terms: TermsType]
Amendments == [op: {"amend"}, meant: ModifyOrders, terms: [qty: Int, price: Int, order: Int]]
Cancellations == [op: {"cancel"}, meant: CreateOrders, terms: [order: Int]]
Messages == Creations \cup Amendments \cup Cancellations

\* What a request says is what the client meant.
Says(request, create) ==
    /\ request.op = "create" => request.terms = PlaceOrder(create)
    /\ request.op = "amend" => /\ request.terms.qty = request.meant.quantity
                               /\ request.terms.price = request.meant.price

TypesOK ==
    /\ asked \in CreateOrders /\ agreed \in CreateOrderType
    /\ requests \in Nat /\ order \in OrderType /\ sent \in Seq(Messages)
NotYet == ~Exists /\ agreed = asked
OnTheirWay ==
    \A k \in 1 .. Len(sent) : Says(sent[k], asked) /\ (sent[k].op = "create" => k = 1 /\ NotYet)
Beginning == requests = 0 => sent = <<>> /\ NotYet

AgreedInv == TypesOK /\ OnTheirWay /\ Beginning /\ AgreedTerms

-----------------------------------------------------------------------------
\* The requests that are allowed have the types the constants are assumed to have.
LEMMA InputTypes ==
    CreateOrders \subseteq CreateOrderType /\ ModifyOrders \subseteq ModifyOrderType
BY RequestsAssumption DEF CreateOrderType, ModifyOrderType

\* The words the Encoder writes.
LEMMA WordTypes ==
    ASSUME NEW create \in CreateOrderType
    PROVE  /\ ToSide(create.side) \in SideWords
           /\ ToOrderType(create.order_type) \in TypeWords
           /\ ToTimeInForce(create.time_in_force, create.execution_instructions) \in TimeWords
<1>1. ToSide(create.side) \in {"Buy", "Sell", ""}
  BY Zenon DEF ToSide
<1>2. ToOrderType(create.order_type) \in {"Market", "Limit", ""}
  BY Zenon DEF ToOrderType
<1>3. ToTimeInForce(create.time_in_force, create.execution_instructions)
        \in {"GTC", "PostOnly", "IOC", "FOK", ""}
  BY Zenon DEF ToTimeInForce
<1> QED
  BY <1>1, <1>2, <1>3, Zenon DEF SideWords, TypeWords, TimeWords

LEMMA PlaceOrderType ==
    ASSUME NEW create \in CreateOrderType
    PROVE  PlaceOrder(create) \in TermsType
<1>1. create.quantity \in Int /\ create.price \in Int
  BY DEF CreateOrderType, NaN
<1>2. ("DO_NOT_INCREASE" \in create.execution_instructions) \in BOOLEAN
  OBVIOUS
<1> QED
  BY <1>1, <1>2, WordTypes, Zenon DEF PlaceOrder, TermsType

\* A word that was understood is read back as it was meant.
LEMMA WordsReturn ==
    ASSUME NEW create \in CreateOrderType
    PROVE  /\ ToSide(create.side) # "" => FromSide(ToSide(create.side)) = create.side
           /\ ToOrderType(create.order_type) # "" =>
                 FromOrderType(ToOrderType(create.order_type)) = create.order_type
<1>1. create.side \in {"UNDEFINED", "BUY", "SELL"} /\ create.order_type \in {"UNDEFINED", "MARKET", "LIMIT"}
  BY DEF CreateOrderType, Sides, OrderTypes
<1>2. /\ ToSide("UNDEFINED") = "" /\ ToSide("BUY") = "Buy" /\ ToSide("SELL") = "Sell"
      /\ ToOrderType("UNDEFINED") = "" /\ ToOrderType("MARKET") = "Market" /\ ToOrderType("LIMIT") = "Limit"
  BY DEF ToSide, ToOrderType
<1>3. /\ FromSide("Buy") = "BUY" /\ FromSide("Sell") = "SELL"
      /\ FromOrderType("Market") = "MARKET" /\ FromOrderType("Limit") = "LIMIT"
  BY DEF FromSide, FromOrderType
<1> QED
  BY <1>1, <1>2, <1>3

\* The exchange takes a limit order for what it was asked to be.
LEMMA TimeInForceAsMeant ==
    ASSUME NEW create \in CreateOrderType, NEW terms,
           terms.orderType = ToOrderType(create.order_type),
           terms.timeInForce = ToTimeInForce(create.time_in_force, create.execution_instructions),
           create.order_type = "LIMIT", create.time_in_force \in {"GTC", "IOC", "FOK"}
    PROVE  TimeInForceOf(terms) =
             IF create.time_in_force = "GTC" /\ "PARTICIPATE_DO_NOT_INITIATE" \in create.execution_instructions
             THEN "PostOnly" ELSE create.time_in_force
<1>1. terms.orderType = "Limit"
  <2>1. ToOrderType("LIMIT") = "Limit"
    BY DEF ToOrderType
  <2> QED
    BY <2>1
<1>2. CASE create.time_in_force = "GTC" /\ "PARTICIPATE_DO_NOT_INITIATE" \in create.execution_instructions
  <2>1. terms.timeInForce = "PostOnly"
    BY <1>2 DEF ToTimeInForce
  <2> QED
    BY <1>1, <1>2, <2>1 DEF TimeInForceOf
<1>3. CASE ~(create.time_in_force = "GTC" /\ "PARTICIPATE_DO_NOT_INITIATE" \in create.execution_instructions)
  <2>1. terms.timeInForce = create.time_in_force
    BY <1>3 DEF ToTimeInForce
  <2> QED
    BY <1>1, <1>3, <2>1 DEF TimeInForceOf
<1> QED
  BY <1>2, <1>3

\* A request that was written and not sent before.
LEMMA Sending ==
    ASSUME AgreedInv, NEW op, NEW terms, NEW meant,
           Send(op, terms, meant),
           [op |-> op, terms |-> terms, meant |-> meant] \in Messages,
           Says([op |-> op, terms |-> terms, meant |-> meant], asked),
           op = "create" => requests = 0
    PROVE  AgreedInv'
<1> DEFINE new == [op |-> op, terms |-> terms, meant |-> meant]
<1>1. /\ requests' = requests + 1 /\ sent' = Append(sent, new)
      /\ asked' = asked /\ agreed' = agreed /\ order' = order
  BY DEF Send
<1>2. /\ asked \in CreateOrders /\ agreed \in CreateOrderType
      /\ requests \in Nat /\ order \in OrderType /\ sent \in Seq(Messages)
  BY DEF AgreedInv, TypesOK
<1>3. new \in Messages /\ Says(new, asked) /\ new.op = op
  OBVIOUS
<1> HIDE DEF new
<1>4. TypesOK'
  BY <1>1, <1>2, <1>3 DEF TypesOK
<1>5. ASSUME NEW k \in 1 .. Len(sent')
      PROVE  Says(sent'[k], asked') /\ (sent'[k].op = "create" => k = 1 /\ NotYet')
  <2>1. CASE k = Len(sent) + 1
    <3>1. sent'[k] = new
      BY <1>1, <1>2, <2>1
    <3>2. op = "create" => sent = <<>> /\ NotYet
      BY DEF AgreedInv, Beginning
    <3>3. Says(sent'[k], asked')
      BY <1>1, <1>3, <3>1, Zenon
    <3>4. sent'[k].op = "create" => k = 1 /\ NotYet'
      <4>1. sent'[k].op = op
        BY <1>3, <3>1, Zenon
      <4>2. sent = <<>> => k = 1
        BY <1>2, <2>1
      <4>3. NotYet => NotYet'
        BY <1>1 DEF NotYet, Exists
      <4> QED
        BY <3>2, <4>1, <4>2, <4>3
    <3> QED
      BY <3>3, <3>4
  <2>2. CASE k \in 1 .. Len(sent)
    <3>1. sent'[k] = sent[k]
      BY <1>1, <1>2, <2>2
    <3>2. Says(sent[k], asked) /\ (sent[k].op = "create" => k = 1 /\ NotYet)
      BY <2>2 DEF AgreedInv, OnTheirWay
    <3> QED
      BY <1>1, <3>1, <3>2 DEF NotYet, Exists
  <2> QED
    BY <1>1, <1>2, <2>1, <2>2
<1>6. OnTheirWay'
  BY <1>5 DEF OnTheirWay
<1>7. Beginning'
  BY <1>1, <1>2 DEF Beginning
<1>8. AgreedTerms'
  BY <1>1 DEF AgreedInv, AgreedTerms, Exists, Means
<1> QED
  BY <1>4, <1>6, <1>7, <1>8 DEF AgreedInv

\* What is known of the first request, and what is left without it.
LEMMA Taking ==
    ASSUME AgreedInv, sent # <<>>, sent' = Tail(sent), UNCHANGED <<asked, requests>>
    PROVE  /\ Head(sent) \in Messages /\ Says(Head(sent), asked)
           /\ Head(sent).op = "create" => NotYet
           /\ sent' \in Seq(Messages)
           /\ OnTheirWay' /\ Beginning'
<1>1. sent \in Seq(Messages) /\ asked' = asked /\ requests' = requests
  BY DEF AgreedInv, TypesOK
<1>2. \A k \in 1 .. Len(sent) : Says(sent[k], asked) /\ (sent[k].op = "create" => k = 1 /\ NotYet)
  BY DEF AgreedInv, OnTheirWay
<1>3. Head(sent) = sent[1] /\ 1 \in 1 .. Len(sent)
  BY <1>1
<1>4. ASSUME NEW k \in 1 .. Len(sent')
      PROVE  Says(sent'[k], asked') /\ (sent'[k].op = "create" => k = 1 /\ NotYet')
  <2>1. sent'[k] = sent[k + 1] /\ k + 1 \in 1 .. Len(sent) /\ k + 1 # 1
    BY <1>1
  <2> QED
    BY <1>1, <1>2, <2>1
<1>5. requests # 0
  BY DEF AgreedInv, Beginning
<1> QED
  BY <1>1, <1>2, <1>3, <1>4, <1>5 DEF OnTheirWay, Beginning

LEMMA CreatesAgreed == AgreedInv /\ ExchangeCreates => AgreedInv'
<1> SUFFICES ASSUME AgreedInv, ExchangeCreates PROVE AgreedInv'
  OBVIOUS
<1>1. /\ sent # <<>> /\ sent' = Tail(sent) /\ Head(sent).op = "create" /\ Wrong(Terms) = {}
      /\ asked' = asked /\ requests' = requests /\ agreed' = agreed
  BY DEF ExchangeCreates, Handle, oms
<1>2. /\ Head(sent) \in Messages /\ Says(Head(sent), asked) /\ NotYet
      /\ sent' \in Seq(Messages) /\ OnTheirWay' /\ Beginning'
  BY <1>1, Taking
<1>3. Terms = PlaceOrder(asked) /\ asked \in CreateOrders /\ asked \in CreateOrderType /\ agreed = asked
  BY <1>1, <1>2, InputTypes DEF Says, Terms, NotYet, AgreedInv, TypesOK
<1>4. PlaceOrder(asked) \in TermsType
  BY <1>3, PlaceOrderType
<1>5. order' = [side |-> Terms.side, orderType |-> Terms.orderType,
                timeInForce |-> TimeInForceOf(Terms), reduceOnly |-> Terms.reduceOnly,
                qty |-> Terms.qty, price |-> Terms.price,
                orderStatus |-> "New", cumExecQty |-> 0, changes |-> order.changes + 1]
  BY Zenon DEF ExchangeCreates, Change, Bare
<1>6. TimeInForceOf(Terms) \in TimeWords
  BY <1>3, <1>4 DEF TimeInForceOf, TermsType, TimeWords
<1>7. order' \in OrderType
  <2>1. order.changes + 1 \in Int
    BY DEF AgreedInv, TypesOK, OrderType
  <2>2. "New" \in StatusWords /\ 0 \in Int
    BY DEF StatusWords
  <2> QED
    BY <1>3, <1>4, <1>5, <1>6, <2>1, <2>2 DEF OrderType, TermsType
<1>8. AgreedTerms'
  <2>1. /\ Terms.side = ToSide(asked.side) /\ Terms.orderType = ToOrderType(asked.order_type)
        /\ Terms.qty = asked.quantity /\ Terms.price = asked.price
        /\ Terms.timeInForce = ToTimeInForce(asked.time_in_force, asked.execution_instructions)
    BY <1>3 DEF PlaceOrder
  <2>2. Terms.reduceOnly <=> "DO_NOT_INCREASE" \in asked.execution_instructions
    BY <1>3, Zenon DEF PlaceOrder
  <2>3. /\ order'.side = Terms.side /\ order'.orderType = Terms.orderType
        /\ order'.qty = Terms.qty /\ order'.price = Terms.price
        /\ order'.timeInForce = TimeInForceOf(Terms)
    BY <1>5
  <2>4. order'.reduceOnly = Terms.reduceOnly
    BY <1>5, Zenon
  <2>5. Terms.side # "" /\ Terms.orderType # ""
    BY <1>1 DEF Wrong
  <2>6. agreed'.side = FromSide(order'.side) /\ agreed'.order_type = FromOrderType(order'.orderType)
    BY <1>1, <1>3, <2>1, <2>3, <2>5, WordsReturn
  <2>7. order'.reduceOnly <=> "DO_NOT_INCREASE" \in agreed'.execution_instructions
    BY <1>1, <1>3, <2>2, <2>4, Zenon
  <2>8. order'.timeInForce \in Means(agreed)'
    BY <1>1, <1>3, <2>1, <2>3, TimeInForceAsMeant DEF Means
  <2> QED
    BY <1>1, <1>3, <2>1, <2>3, <2>6, <2>7, <2>8, Zenon DEF AgreedTerms
<1> QED
  BY <1>1, <1>2, <1>3, <1>7, <1>8 DEF AgreedInv, TypesOK

\* The exchange's changes leave the order an order.
LEMMA ChangesTyped ==
    ASSUME NEW o \in OrderType, NEW n \in Int
    PROVE  /\ \A q, p \in Int : [o EXCEPT !.qty = q, !.price = p, !.changes = n] \in OrderType
           /\ \A st \in StatusWords, c \in Int :
                [o EXCEPT !.orderStatus = st, !.cumExecQty = c, !.changes = n] \in OrderType
<1>1. ASSUME NEW q \in Int, NEW p \in Int
      PROVE  [o EXCEPT !.qty = q, !.price = p, !.changes = n] \in OrderType
  BY Zenon DEF OrderType
<1>2. ASSUME NEW st \in StatusWords, NEW c \in Int
      PROVE  [o EXCEPT !.orderStatus = st, !.cumExecQty = c, !.changes = n] \in OrderType
  BY Zenon DEF OrderType
<1> QED
  BY <1>1, <1>2

LEMMA AmendsAgreed == AgreedInv /\ ExchangeAmends => AgreedInv'
<1> SUFFICES ASSUME AgreedInv, ExchangeAmends PROVE AgreedInv'
  OBVIOUS
<1> DEFINE meant == Head(sent).meant
<1>1. /\ sent # <<>> /\ sent' = Tail(sent) /\ Head(sent).op = "amend" /\ Exists
      /\ asked' = asked /\ requests' = requests
  BY DEF ExchangeAmends, Handle, Found, oms
<1>2. /\ Head(sent) \in Messages /\ Says(Head(sent), asked)
      /\ sent' \in Seq(Messages) /\ OnTheirWay' /\ Beginning'
  BY <1>1, Taking
<1>3. order \in OrderType /\ agreed \in CreateOrderType /\ asked \in CreateOrders
  BY DEF AgreedInv, TypesOK
<1>4. /\ meant \in ModifyOrderType /\ Terms.qty = meant.quantity /\ Terms.price = meant.price
  <2>1. Head(sent) \in Amendments
    BY <1>1, <1>2 DEF Messages, Creations, Cancellations
  <2> QED
    BY <1>1, <1>2, <2>1, InputTypes DEF Says, Terms, Amendments
<1>5. /\ order' = [order EXCEPT !.qty = Given(Terms.qty, order.qty),
                                !.price = Given(Terms.price, order.price),
                                !.changes = order.changes + 1]
      /\ agreed' = [agreed EXCEPT !.quantity = Given(meant.quantity, @), !.price = Given(meant.price, @)]
  BY DEF ExchangeAmends, Change
<1> HIDE DEF meant
<1>6. /\ Given(meant.quantity, agreed.quantity) \in Nat \ {0}
      /\ Given(meant.price, agreed.price) \in Nat \cup {NaN}
  BY <1>3, <1>4 DEF Given, ModifyOrderType, CreateOrderType
<1>7. agreed' \in CreateOrderType
  BY <1>3, <1>5, <1>6 DEF CreateOrderType
<1>8. order' \in OrderType
  <2>1. Given(Terms.qty, order.qty) \in Int /\ Given(Terms.price, order.price) \in Int
    BY <1>3, <1>4 DEF Given, ModifyOrderType, OrderType, NaN
  <2>2. order.changes + 1 \in Int
    BY <1>3 DEF OrderType
  <2> QED
    BY <1>3, <1>5, <2>1, <2>2, ChangesTyped
<1>9. AgreedTerms'
  <2>1. /\ agreed.side = FromSide(order.side) /\ agreed.order_type = FromOrderType(order.orderType)
        /\ order.qty = agreed.quantity /\ order.price = agreed.price
        /\ order.reduceOnly <=> "DO_NOT_INCREASE" \in agreed.execution_instructions
        /\ order.timeInForce \in Means(agreed)
    BY <1>1 DEF AgreedInv, AgreedTerms
  <2>2. /\ agreed'.side = agreed.side /\ agreed'.order_type = agreed.order_type
        /\ agreed'.time_in_force = agreed.time_in_force
        /\ agreed'.execution_instructions = agreed.execution_instructions
        /\ agreed'.quantity = Given(meant.quantity, agreed.quantity)
        /\ agreed'.price = Given(meant.price, agreed.price)
    BY <1>3, <1>5 DEF CreateOrderType
  <2>3. /\ order'.side = order.side /\ order'.orderType = order.orderType
        /\ order'.timeInForce = order.timeInForce
        /\ order'.qty = Given(Terms.qty, order.qty) /\ order'.price = Given(Terms.price, order.price)
    BY <1>3, <1>5 DEF OrderType
  <2>4. order'.reduceOnly = order.reduceOnly
    BY <1>3, <1>5 DEF OrderType
  <2>5. order'.timeInForce \in Means(agreed)'
    BY <2>1, <2>2, <2>3 DEF Means
  <2>6. order'.reduceOnly <=> "DO_NOT_INCREASE" \in agreed'.execution_instructions
    BY <2>1, <2>2, <2>4, Zenon
  <2>7. order'.qty = agreed'.quantity /\ order'.price = agreed'.price
    BY <1>4, <2>1, <2>2, <2>3
  <2>8. agreed'.side = FromSide(order'.side) /\ agreed'.order_type = FromOrderType(order'.orderType)
    BY <2>1, <2>2, <2>3, Zenon
  <2> QED
    BY <2>5, <2>6, <2>7, <2>8, Zenon DEF AgreedTerms
<1> QED
  BY <1>1, <1>2, <1>3, <1>7, <1>8, <1>9 DEF AgreedInv, TypesOK

\* A change that leaves the terms alone.
LEMMA TermsUntouched ==
    ASSUME AgreedInv, Exists, NEW status \in StatusWords, NEW executed \in Int,
           order' = [order EXCEPT !.orderStatus = status, !.cumExecQty = executed,
                                  !.changes = order.changes + 1],
           agreed' = agreed
    PROVE  order' \in OrderType /\ AgreedTerms'
<1>1. order \in OrderType
  BY DEF AgreedInv, TypesOK
<1>2. order' \in OrderType
  <2>1. order.changes + 1 \in Int
    BY <1>1 DEF OrderType
  <2> QED
    BY <1>1, <2>1, ChangesTyped
<1>3. /\ order'.side = order.side /\ order'.orderType = order.orderType
      /\ order'.timeInForce = order.timeInForce /\ order'.qty = order.qty /\ order'.price = order.price
  BY <1>1 DEF OrderType
<1>4. order'.reduceOnly = order.reduceOnly
  BY <1>1 DEF OrderType
<1>5. /\ agreed.side = FromSide(order.side) /\ agreed.order_type = FromOrderType(order.orderType)
      /\ order.qty = agreed.quantity /\ order.price = agreed.price
      /\ order.reduceOnly <=> "DO_NOT_INCREASE" \in agreed.execution_instructions
      /\ order.timeInForce \in Means(agreed)
  BY DEF AgreedInv, AgreedTerms
<1>6. order'.timeInForce \in Means(agreed)'
  BY <1>3, <1>5 DEF Means
<1> QED
  BY <1>2, <1>3, <1>4, <1>5, <1>6, Zenon DEF AgreedTerms

LEMMA CancelsAgreed == AgreedInv /\ ExchangeCancels => AgreedInv'
<1> SUFFICES ASSUME AgreedInv, ExchangeCancels PROVE AgreedInv'
  OBVIOUS
<1>1. /\ sent # <<>> /\ sent' = Tail(sent) /\ Exists
      /\ asked' = asked /\ requests' = requests /\ agreed' = agreed
  BY DEF ExchangeCancels, Handle, Found, oms
<1>2. sent' \in Seq(Messages) /\ OnTheirWay' /\ Beginning'
  BY <1>1, Taking
<1>3. order \in OrderType /\ asked \in CreateOrders /\ agreed \in CreateOrderType /\ requests \in Nat
  BY DEF AgreedInv, TypesOK
<1>4. Cancelled \in StatusWords /\ order.cumExecQty \in Int
  BY <1>3 DEF Cancelled, StatusWords, OrderType
<1>5. order' = [order EXCEPT !.orderStatus = Cancelled, !.cumExecQty = order.cumExecQty,
                             !.changes = order.changes + 1]
  BY <1>3 DEF ExchangeCancels, Change, OrderType
<1>6. order' \in OrderType /\ AgreedTerms'
  BY <1>1, <1>4, <1>5, TermsUntouched
<1> QED
  BY <1>1, <1>2, <1>3, <1>6 DEF AgreedInv, TypesOK

\* What the exchange does on its own.
LEMMA OwnChangesAgreed == AgreedInv /\ (ExchangeFills \/ ExchangeEnds) => AgreedInv'
<1> SUFFICES ASSUME AgreedInv, ExchangeFills \/ ExchangeEnds PROVE AgreedInv'
  OBVIOUS
<1>1. /\ Exists /\ sent' = sent
      /\ asked' = asked /\ requests' = requests /\ agreed' = agreed
  BY DEF ExchangeFills, ExchangeEnds, Open, Exists, oms
<1>2. order \in OrderType /\ asked \in CreateOrders /\ agreed \in CreateOrderType
        /\ requests \in Nat /\ sent \in Seq(Messages)
  BY DEF AgreedInv, TypesOK
<1>3. order.cumExecQty \in Int /\ order.qty \in Int
  BY <1>2 DEF OrderType
<1>4. PICK status \in StatusWords, executed \in Int :
        order' = [order EXCEPT !.orderStatus = status, !.cumExecQty = executed,
                               !.changes = order.changes + 1]
  <2>1. CASE ExchangeFills
    <3>1. PICK executed \in order.cumExecQty + 1 .. order.qty :
            Change([order EXCEPT !.cumExecQty = executed,
                        !.orderStatus = IF executed = order.qty THEN "Filled" ELSE "PartiallyFilled"])
      BY <2>1 DEF ExchangeFills
    <3>2. executed \in Int
      BY <1>3
    <3>3. (IF executed = order.qty THEN "Filled" ELSE "PartiallyFilled") \in StatusWords
      BY DEF StatusWords
    <3> DEFINE status == IF executed = order.qty THEN "Filled" ELSE "PartiallyFilled"
    <3>4. order' = [order EXCEPT !.cumExecQty = executed, !.orderStatus = status,
                                 !.changes = order.changes + 1]
      BY <3>1 DEF Change
    <3> HIDE DEF status
    <3>5. order' = [order EXCEPT !.orderStatus = status, !.cumExecQty = executed,
                                 !.changes = order.changes + 1]
      BY <1>2, <3>4 DEF OrderType
    <3> QED
      BY <3>2, <3>3, <3>5, Zenon DEF status
  <2>2. CASE ExchangeEnds
    <3>1. PICK status \in {Cancelled, "Rejected"} : Change([order EXCEPT !.orderStatus = status])
      BY <2>2 DEF ExchangeEnds
    <3>2. status \in StatusWords
      BY DEF Cancelled, StatusWords
    <3> QED
      BY <1>2, <1>3, <3>1, <3>2 DEF Change, OrderType
  <2> QED
    BY <2>1, <2>2
<1>5. order' \in OrderType /\ AgreedTerms'
  BY <1>1, <1>4, TermsUntouched
<1>6. OnTheirWay' /\ Beginning'
  <2>1. \A k \in 1 .. Len(sent) : Says(sent[k], asked) /\ sent[k].op # "create"
    BY <1>1 DEF AgreedInv, OnTheirWay, NotYet
  <2>2. requests # 0
    BY <1>1 DEF AgreedInv, Beginning, NotYet
  <2> QED
    BY <1>1, <2>1, <2>2 DEF OnTheirWay, Beginning
<1> QED
  BY <1>1, <1>2, <1>5, <1>6 DEF AgreedInv, TypesOK

LEMMA RefusesAgreed == AgreedInv /\ ExchangeRefuses => AgreedInv'
<1> SUFFICES ASSUME AgreedInv, ExchangeRefuses PROVE AgreedInv'
  OBVIOUS
<1>1. /\ sent # <<>> /\ sent' = Tail(sent)
      /\ asked' = asked /\ requests' = requests /\ agreed' = agreed /\ order' = order
  BY DEF ExchangeRefuses, oms
<1>2. sent' \in Seq(Messages) /\ OnTheirWay' /\ Beginning'
  BY <1>1, Taking
<1>3. AgreedTerms'
  BY <1>1 DEF AgreedInv, AgreedTerms, Exists, Means
<1> QED
  BY <1>1, <1>2, <1>3 DEF AgreedInv, TypesOK

\* The client's requests are what the Encoder makes of them, over either transport.
LEMMA SendsAgreed == AgreedInv /\ ClientNext => AgreedInv'
<1> SUFFICES ASSUME AgreedInv, ClientNext PROVE AgreedInv'
  OBVIOUS
<1>1. asked \in CreateOrders /\ requests \in Nat
  BY DEF AgreedInv, TypesOK
<1>2. CASE NewOrder
  <2>1. requests = 0 /\ Send("create", PlaceOrder(asked), asked)
    BY <1>2 DEF NewOrder, PlaceOrderWs
  <2>2. PlaceOrder(asked) \in TermsType
    BY <1>1, InputTypes, PlaceOrderType
  <2>3. [op |-> "create", terms |-> PlaceOrder(asked), meant |-> asked] \in Messages
    BY <1>1, <2>2 DEF Messages, Creations
  <2>4. Says([op |-> "create", terms |-> PlaceOrder(asked), meant |-> asked], asked)
    BY DEF Says
  <2> QED
    BY <2>1, <2>3, <2>4, Sending
<1>3. ASSUME NEW modify \in ModifyOrders, ModifyOrder(modify) PROVE AgreedInv'
  <2>1. Send("amend", AmendOrder(modify), modify)
    BY <1>3 DEF ModifyOrder, AmendOrderWs
  <2>2. Name \in Int /\ modify.quantity \in Int /\ modify.price \in Int
    BY <1>1, <1>3, InputTypes DEF Name, ExternalId, ModifyOrderType, NaN
  <2>3. AmendOrder(modify) \in [qty: Int, price: Int, order: Int]
    BY <2>2 DEF AmendOrder
  <2>4. [op |-> "amend", terms |-> AmendOrder(modify), meant |-> modify] \in Messages
    BY <1>3, <2>3 DEF Messages, Amendments
  <2>5. Says([op |-> "amend", terms |-> AmendOrder(modify), meant |-> modify], asked)
    BY <1>3 DEF Says, AmendOrder
  <2> QED
    BY <2>1, <2>4, <2>5, Sending
<1>4. CASE Cancel
  <2>1. Send("cancel", CancelOrder, asked)
    BY <1>4 DEF Cancel, CancelOrderWs
  <2>2. CancelOrder \in [order: Int]
    BY <1>1 DEF CancelOrder, Name, ExternalId
  <2>3. [op |-> "cancel", terms |-> CancelOrder, meant |-> asked] \in Messages
    BY <1>1, <2>2 DEF Messages, Cancellations
  <2>4. Says([op |-> "cancel", terms |-> CancelOrder, meant |-> asked], asked)
    BY DEF Says
  <2> QED
    BY <2>1, <2>3, <2>4, Sending
<1> QED
  BY <1>2, <1>3, <1>4 DEF ClientNext

-----------------------------------------------------------------------------
LEMMA AgreedInitially == Init => AgreedInv
<1> SUFFICES ASSUME Init PROVE AgreedInv
  OBVIOUS
<1>1. /\ asked \in CreateOrders /\ requests = 0 /\ sent = <<>> /\ agreed = asked /\ order = Bare
  BY DEF Init
<1>2. order \in OrderType /\ order.orderStatus = ""
  <2>1. /\ "" \in SideWords /\ "" \in TypeWords /\ "" \in TimeWords /\ "" \in StatusWords
        /\ NaN \in Int /\ 0 \in Int
    BY DEF SideWords, TypeWords, TimeWords, StatusWords, NaN
  <2> QED
    BY <1>1, <2>1 DEF OrderType, Bare
<1>3. TypesOK
  <2>1. sent \in Seq(Messages)
    BY <1>1
  <2>2. agreed \in CreateOrderType
    BY <1>1, InputTypes
  <2> QED
    BY <1>1, <1>2, <2>1, <2>2 DEF TypesOK
<1>4. OnTheirWay
  BY <1>1 DEF OnTheirWay
<1>5. Beginning /\ AgreedTerms
  BY <1>1, <1>2 DEF Beginning, NotYet, Exists, AgreedTerms
<1> QED
  BY <1>3, <1>4, <1>5 DEF AgreedInv

LEMMA AgreedPreserved == AgreedInv /\ [Next]_vars => AgreedInv'
<1> SUFFICES ASSUME AgreedInv, [Next]_vars PROVE AgreedInv'
  OBVIOUS
<1>1. CASE UNCHANGED <<asked, requests, sent, order, agreed>>
  <2>1. TypesOK' /\ OnTheirWay' /\ Beginning'
    BY <1>1 DEF AgreedInv, TypesOK, OnTheirWay, Beginning, NotYet, Exists
  <2>2. AgreedTerms'
    BY <1>1 DEF AgreedInv, AgreedTerms, Exists, Means
  <2> QED
    BY <2>1, <2>2 DEF AgreedInv
<1>2. CASE GatewayNext
  BY <1>1, <1>2 DEF GatewayNext, PlaceOrderAck, AmendOrderAck, CancelOrderAck,
     PlaceOrder2, AmendOrder2, CancelOrder2, DropCopyOrder, oms
<1>3. CASE ExchangeNext
  BY <1>3, CreatesAgreed, AmendsAgreed, CancelsAgreed, RefusesAgreed, OwnChangesAgreed DEF ExchangeNext
<1>4. CASE ClientNext
  BY <1>4, SendsAgreed
<1>5. CASE UNCHANGED vars
  BY <1>1, <1>5 DEF vars, oms
<1> QED
  BY <1>2, <1>3, <1>4, <1>5 DEF Next

\* Whatever a client asks for and however often it modifies the order, and however
\* requests, fills and answers interleave, the order at the exchange is the one that
\* was agreed upon (encoder.cpp:20, 63, 151, 200; map.cpp:341, 368, 395).
THEOREM AgreedTermsHolds == Spec => []AgreedTerms
<1>1. AgreedInv => AgreedTerms
  BY DEF AgreedInv
<1> QED
  BY <1>1, AgreedInitially, AgreedPreserved, PTL DEF Spec

-----------------------------------------------------------------------------
\* A rejection is never without an error, and an accepted request never has one, for
\* every ret_code there is: map_error has a default (utils.cpp:371).
THEOREM EveryRejectionHasAnError ==
    \A code \in Int : RequestStatus(code) = "REJECTED" <=> MapError(code) # "UNDEFINED"
<1> SUFFICES ASSUME NEW code \in Int
             PROVE  RequestStatus(code) = "REJECTED" <=> MapError(code) # "UNDEFINED"
  OBVIOUS
<1>1. \A e \in NamedErrors : e[2] # "UNDEFINED"
  <2>1. \A e \in GeneralErrors : e[2] # "UNDEFINED"
    BY DEF GeneralErrors
  <2>2. \A e \in RequestErrors : e[2] # "UNDEFINED"
    BY DEF RequestErrors
  <2>3. \A e \in OrderErrors : e[2] # "UNDEFINED"
    BY DEF OrderErrors
  <2>4. \A e \in TokenErrors : e[2] # "UNDEFINED"
    BY DEF TokenErrors
  <2> QED
    BY <2>1, <2>2, <2>3, <2>4 DEF NamedErrors
<1>2. CASE code = 0
  BY <1>2 DEF RequestStatus, MapError
<1>3. CASE code # 0 /\ \E e \in NamedErrors : e[1] = code
  <2>1. (CHOOSE e \in NamedErrors : e[1] = code) \in NamedErrors
    BY <1>3
  <2> QED
    BY <1>1, <1>3, <2>1 DEF RequestStatus, MapError
<1>4. CASE code # 0 /\ ~\E e \in NamedErrors : e[1] = code
  BY <1>4 DEF RequestStatus, MapError
<1> QED
  BY <1>2, <1>3, <1>4
-----------------------------------------------------------------------------
(***************************************************************************)
(* The client is shown the order as it is, and an order that is over as    *)
(* over, and every response gives the exchange's reason.                   *)
(*                                                                         *)
(* The argument is by versions.  What is on its way, over either           *)
(* connection, is a version of the order that has been, and a version that *)
(* is not the present one was open (ItemsInv).  The updates are all        *)
(* versions from some point on, so that the newest is published when they  *)
(* are delivered (UpdatesInv).  What is shown is the newest version        *)
(* published, unless it was overtaken (ViewInv).                           *)
(***************************************************************************)

OpenWords == {"New", "PartiallyFilled"}
Operations == {"create", "amend", "cancel"}
ReasonWords == {"side", "type", "price", "quantity", "funds", "busy", "not found", "over"}
AckType == [op: Operations, ret_code: Int, reason: ReasonWords \cup {"none"}, result: OrderType]
ViewType ==
    [side: Sides, order_type: OrderTypes, time_in_force: TimesInForce,
     order_status: Final \cup {"WORKING", "UNDEFINED"}, quantity: Int, price: Int, traded: Int]

ViewTypesOK ==
    /\ transport \in {"rest", "ws"} /\ overtaken \in BOOLEAN /\ shownAt \in Nat
    /\ acks \in Seq(AckType) /\ updates \in Seq(OrderType)
    /\ shown \in ViewType

\* The order itself.
OrderInv ==
    /\ order.changes \in Nat
    /\ ~Exists => order = Bare
    /\ Exists =>
         /\ order.changes > 0
         /\ order.side # "" /\ order.orderType # "" /\ order.timeInForce # ""
         /\ 0 <= order.cumExecQty /\ order.cumExecQty <= order.qty /\ order.qty > 0
         /\ order.orderStatus = "Filled" <=> order.cumExecQty = order.qty

\* An item is a version of the order that has been.
VersionOf(item, o) ==
    /\ item.changes > 0 /\ item.changes <= o.changes
    /\ item.changes = o.changes => item = o
    /\ item.changes < o.changes => item.orderStatus \in OpenWords
    /\ item.side # "" /\ item.orderType # "" /\ item.timeInForce # "" /\ item.orderStatus # ""
    /\ item.cumExecQty >= 0 /\ item.qty > 0
    /\ item.price # NaN => o.price # NaN
ItemsInv ==
    /\ \A k \in 1 .. Len(updates) : VersionOf(updates[k], order)
    /\ \A k \in 1 .. Len(acks) : acks[k].result # Bare => VersionOf(acks[k].result, order)

UpdatesInv ==
    /\ Len(updates) <= order.changes
    /\ \A k \in 1 .. Len(updates) : updates[k].changes = order.changes - Len(updates) + k
    /\ shownAt >= order.changes - Len(updates)
    /\ transport = "ws" => ~overtaken /\ shownAt = order.changes - Len(updates)

\* The view shows the order's present version.
ShowsOrder ==
    /\ shown.side = FromSide(order.side) /\ shown.order_type = FromOrderType(order.orderType)
    /\ shown.time_in_force = FromTimeInForce(order.timeInForce)
    /\ shown.order_status = FromOrderStatus(order.orderStatus)
    /\ shown.quantity = order.qty /\ shown.price = order.price
    /\ shown.traded = order.cumExecQty
ViewInv ==
    /\ shownAt <= order.changes
    /\ shown.price # NaN => order.price # NaN
    /\ Exists /\ shownAt = order.changes /\ ~overtaken => ShowsOrder
    /\ shown.order_status \in Final =>
         Exists /\ ~Open /\ shownAt = order.changes
                /\ shown.order_status = FromOrderStatus(order.orderStatus)
                /\ shown.traded = order.cumExecQty

ShownInv == ViewTypesOK /\ OrderInv /\ ItemsInv /\ UpdatesInv /\ ViewInv

-----------------------------------------------------------------------------
(***************************************************************************)
(* What a version says.                                                    *)
(***************************************************************************)

LEMMA StatusesRead ==
    /\ \A word \in OpenWords : FromOrderStatus(word) = "WORKING"
    /\ FromOrderStatus("Filled") = "COMPLETED" /\ FromOrderStatus("Rejected") = "REJECTED"
    /\ FromOrderStatus("Cancelled") = "CANCELED"
    /\ FromOrderStatus("PartiallyFilledCanceled") = "CANCELED"
    /\ FromOrderStatus("") = "UNDEFINED"
BY DEF OpenWords, FromOrderStatus

LEMMA WordsRead ==
    /\ FromSide("Buy") = "BUY" /\ FromSide("Sell") = "SELL" /\ FromSide("") = "UNDEFINED"
    /\ FromOrderType("Market") = "MARKET" /\ FromOrderType("Limit") = "LIMIT"
    /\ FromOrderType("") = "UNDEFINED"
    /\ FromTimeInForce("GTC") = "GTC" /\ FromTimeInForce("PostOnly") = "GTC"
    /\ FromTimeInForce("IOC") = "IOC" /\ FromTimeInForce("FOK") = "FOK"
    /\ FromTimeInForce("") = "UNDEFINED"
BY DEF FromSide, FromOrderType, FromTimeInForce

LEMMA BareTyped == Bare \in OrderType
<1>1. /\ "" \in SideWords /\ "" \in TypeWords /\ "" \in TimeWords /\ "" \in StatusWords
      /\ NaN \in Int /\ 0 \in Int
  BY DEF SideWords, TypeWords, TimeWords, StatusWords, NaN
<1> QED
  BY <1>1, Zenon DEF Bare, OrderType

LEMMA UpdateType ==
    ASSUME NEW item \in OrderType
    PROVE  OrderUpdate(item) \in ViewType
<1>1. FromSide(item.side) \in Sides
  BY WordsRead DEF OrderType, SideWords, Sides
<1>2. FromOrderType(item.orderType) \in OrderTypes
  BY WordsRead DEF OrderType, TypeWords, OrderTypes
<1>3. FromTimeInForce(item.timeInForce) \in TimesInForce
  BY WordsRead DEF OrderType, TimeWords, TimesInForce
<1>4. FromOrderStatus(item.orderStatus) \in Final \cup {"WORKING", "UNDEFINED"}
  BY StatusesRead DEF OrderType, StatusWords, OpenWords, Final
<1>5. item.qty \in Int /\ item.price \in Int /\ item.cumExecQty \in Int
  BY DEF OrderType
<1> QED
  BY <1>1, <1>2, <1>3, <1>4, <1>5, Zenon DEF OrderUpdate, ViewType

LEMMA ViewRecord ==
    ASSUME NEW side \in Sides, NEW type \in OrderTypes, NEW tif \in TimesInForce,
           NEW status \in Final \cup {"WORKING", "UNDEFINED"},
           NEW quantity \in Int, NEW price \in Int, NEW traded \in Int
    PROVE  [side |-> side, order_type |-> type, time_in_force |-> tif, order_status |-> status,
            quantity |-> quantity, price |-> price, traded |-> traded] \in ViewType
BY Zenon DEF ViewType

\* What the OMS keeps, and what it takes over.
LEMMA Merged ==
    ASSUME NEW old \in ViewType, NEW update \in ViewType
    PROVE  Merge(old, update) =
             [side |-> IF update.side = "UNDEFINED" THEN old.side ELSE update.side,
              order_type |-> IF update.order_type = "UNDEFINED" THEN old.order_type ELSE update.order_type,
              time_in_force |-> IF update.time_in_force = "UNDEFINED" THEN old.time_in_force
                                ELSE update.time_in_force,
              order_status |-> IF update.order_status = "UNDEFINED" THEN old.order_status
                               ELSE update.order_status,
              quantity |-> IF update.quantity = NaN THEN old.quantity ELSE update.quantity,
              price |-> IF update.price = NaN THEN old.price ELSE update.price,
              traded |-> IF update.traded = NaN THEN old.traded ELSE update.traded]
<1>1. DOMAIN old = {"side", "order_type", "time_in_force", "order_status", "quantity", "price", "traded"}
  BY DEF ViewType
<1> QED
  BY <1>1, SMTT(60) DEF Merge, Words

\* A version tells everything but a price the order does not have.
LEMMA VersionTells ==
    ASSUME NEW item \in OrderType, VersionOf(item, order), shown \in ViewType
    PROVE  LET new == Merge(shown, OrderUpdate(item)) IN
           /\ new \in ViewType
           /\ new.side = FromSide(item.side) /\ new.order_type = FromOrderType(item.orderType)
           /\ new.time_in_force = FromTimeInForce(item.timeInForce)
           /\ new.order_status = FromOrderStatus(item.orderStatus)
           /\ new.quantity = item.qty /\ new.traded = item.cumExecQty
           /\ new.price = IF item.price = NaN THEN shown.price ELSE item.price
<1> DEFINE update == OrderUpdate(item)
<1>1. update \in ViewType
  BY UpdateType
<1>2. /\ update.side = FromSide(item.side) /\ update.order_type = FromOrderType(item.orderType)
      /\ update.time_in_force = FromTimeInForce(item.timeInForce)
      /\ update.order_status = FromOrderStatus(item.orderStatus)
      /\ update.quantity = item.qty /\ update.traded = item.cumExecQty /\ update.price = item.price
  BY DEF OrderUpdate
<1>3. /\ update.side # "UNDEFINED" /\ update.order_type # "UNDEFINED"
      /\ update.time_in_force # "UNDEFINED" /\ update.order_status # "UNDEFINED"
  <2>1. /\ item.side \in {"Buy", "Sell"} /\ item.orderType \in {"Market", "Limit"}
        /\ item.timeInForce \in {"GTC", "PostOnly", "IOC", "FOK"}
        /\ item.orderStatus \in {"New", "PartiallyFilled", "Filled", "Cancelled",
                                "PartiallyFilledCanceled", "Rejected"}
    BY DEF VersionOf, OrderType, SideWords, TypeWords, TimeWords, StatusWords
  <2> QED
    BY <1>2, <2>1, WordsRead, StatusesRead DEF OpenWords
<1>4. item.qty # NaN /\ item.cumExecQty # NaN
  <2>1. item.qty \in Int /\ item.cumExecQty \in Int /\ item.qty > 0 /\ item.cumExecQty >= 0
    BY DEF VersionOf, OrderType
  <2> QED
    BY <2>1 DEF NaN
<1> HIDE DEF update
<1>5. Merge(shown, update) =
        [side |-> update.side, order_type |-> update.order_type,
         time_in_force |-> update.time_in_force, order_status |-> update.order_status,
         quantity |-> update.quantity,
         price |-> IF update.price = NaN THEN shown.price ELSE update.price,
         traded |-> update.traded]
  BY <1>1, <1>2, <1>3, <1>4, Merged
<1>6. /\ update.side \in Sides /\ update.order_type \in OrderTypes
      /\ update.time_in_force \in TimesInForce
      /\ update.order_status \in Final \cup {"WORKING", "UNDEFINED"}
      /\ update.quantity \in Int /\ update.traded \in Int
      /\ shown.price \in Int /\ update.price \in Int
  BY <1>1 DEF ViewType
<1>7. Merge(shown, update) \in ViewType
  <2> DEFINE price == IF update.price = NaN THEN shown.price ELSE update.price
  <2>1. price \in Int
    BY <1>6
  <2>2. Merge(shown, update) =
          [side |-> update.side, order_type |-> update.order_type,
           time_in_force |-> update.time_in_force, order_status |-> update.order_status,
           quantity |-> update.quantity, price |-> price, traded |-> update.traded]
    BY <1>5
  <2> HIDE DEF price
  <2>3. [side |-> update.side, order_type |-> update.order_type,
         time_in_force |-> update.time_in_force, order_status |-> update.order_status,
         quantity |-> update.quantity, price |-> price, traded |-> update.traded] \in ViewType
    BY <1>6, <2>1, ViewRecord, Zenon
  <2> QED
    BY <2>2, <2>3, Zenon
<1> QED
  BY <1>2, <1>5, <1>7 DEF update

\* An order that does not exist tells nothing.
LEMMA BareTells ==
    ASSUME shown \in ViewType
    PROVE  Merge(shown, OrderUpdate(Bare)) = shown
<1>1. OrderUpdate(Bare) = Nothing
  BY WordsRead, StatusesRead DEF OrderUpdate, Bare, Nothing
<1>2. Nothing \in ViewType
  BY DEF Nothing, ViewType, Sides, OrderTypes, TimesInForce, NaN
<1>3. Merge(shown, Nothing) =
        [side |-> shown.side, order_type |-> shown.order_type, time_in_force |-> shown.time_in_force,
         order_status |-> shown.order_status, quantity |-> shown.quantity, price |-> shown.price,
         traded |-> shown.traded]
  BY <1>2, Merged DEF Nothing
<1> QED
  BY <1>1, <1>3 DEF ViewType

-----------------------------------------------------------------------------
(***************************************************************************)
(* Publishing.                                                             *)
(***************************************************************************)

\* A version is published, if it is not older than the one before; or it is overtaken.
LEMMA Publishes ==
    ASSUME ShownInv, order' = order, NEW item \in OrderType, VersionOf(item, order),
           shown' = Merge(shown, OrderUpdate(item)),
           overtaken' = (item.changes < shownAt),
           shownAt' = IF item.changes < shownAt THEN shownAt ELSE item.changes
    PROVE  /\ ViewInv' /\ shown' \in ViewType /\ overtaken' \in BOOLEAN
           /\ shownAt' \in Nat /\ shownAt' >= shownAt
<1>1. /\ shown \in ViewType /\ shownAt \in Nat /\ order.changes \in Nat
      /\ item.changes \in Int /\ item.changes > 0 /\ item.changes <= order.changes
  BY DEF ShownInv, ViewTypesOK, OrderInv, VersionOf, OrderType
<1>2. /\ shown' \in ViewType
      /\ shown'.side = FromSide(item.side) /\ shown'.order_type = FromOrderType(item.orderType)
      /\ shown'.time_in_force = FromTimeInForce(item.timeInForce)
      /\ shown'.order_status = FromOrderStatus(item.orderStatus)
      /\ shown'.quantity = item.qty /\ shown'.traded = item.cumExecQty
      /\ shown'.price = IF item.price = NaN THEN shown.price ELSE item.price
  BY <1>1, VersionTells
<1>3. Exists
  <2>1. order.changes # 0
    BY <1>1
  <2>2. Bare.changes = 0
    BY DEF Bare
  <2>3. ~Exists => order = Bare
    BY Zenon DEF ShownInv, OrderInv
  <2> QED
    BY <2>1, <2>2, <2>3, Zenon
<1>4. shownAt' \in Nat /\ shownAt' >= shownAt /\ shownAt' <= order.changes
  BY <1>1 DEF ShownInv, ViewInv
<1>5. shown'.price # NaN => order.price # NaN
  BY <1>2 DEF ShownInv, ViewInv, VersionOf
<1>6. ASSUME shownAt' = order.changes, ~overtaken' PROVE ShowsOrder'
  <2>1. item = order
    BY <1>1, <1>6 DEF VersionOf
  <2>2. shown'.price = order.price
    BY <1>2, <2>1 DEF ShownInv, ViewInv
  <2> QED
    BY <1>2, <2>1, <2>2 DEF ShowsOrder
<1>7. ASSUME shown'.order_status \in Final
      PROVE  /\ ~Open /\ shownAt' = order.changes
             /\ shown'.order_status = FromOrderStatus(order.orderStatus)
             /\ shown'.traded = order.cumExecQty
  <2>1. item.orderStatus \notin OpenWords
    BY <1>2, <1>7, StatusesRead DEF Final
  <2>2. item = order
    <3>1. ~(item.changes < order.changes)
      BY <2>1 DEF VersionOf
    <3>2. item.changes = order.changes
      BY <1>1, <3>1
    <3> QED
      BY <3>2 DEF VersionOf
  <2>3. shownAt' = order.changes
    BY <1>1, <2>2 DEF ShownInv, ViewInv
  <2> QED
    BY <1>2, <2>1, <2>2, <2>3 DEF Open, OpenWords
<1>8. Exists' = Exists /\ Open' = Open
  BY DEF Exists, Open
<1>9. ViewInv'
  BY <1>3, <1>4, <1>5, <1>6, <1>7, <1>8, Zenon DEF ViewInv
<1> QED
  BY <1>2, <1>4, <1>9

\* What is on its way stays what it is, while the order does.
LEMMA Delivers ==
    ASSUME ShownInv, order' = order, transport' = transport,
           \/ acks' = acks
           \/ acks # <<>> /\ acks' = Tail(acks)
           \/ \E answer \in AckType : answer.result = Bare /\ acks' = Append(acks, answer),
           updates' = updates
    PROVE  OrderInv' /\ ItemsInv' /\ acks' \in Seq(AckType)
<1>1. acks \in Seq(AckType)
  BY DEF ShownInv, ViewTypesOK
<1>2. \A k \in 1 .. Len(acks) : acks[k].result # Bare => VersionOf(acks[k].result, order)
  BY DEF ShownInv, ItemsInv
<1>3. acks' \in Seq(AckType) /\ \A k \in 1 .. Len(acks') : acks'[k].result # Bare => VersionOf(acks'[k].result, order)
  <2>1. CASE acks' = acks
    BY <1>1, <1>2, <2>1
  <2>2. CASE acks # <<>> /\ acks' = Tail(acks)
    <3>1. acks' \in Seq(AckType)
      BY <1>1, <2>2
    <3>2. \A k \in 1 .. Len(acks') : acks'[k] = acks[k + 1] /\ k + 1 \in 1 .. Len(acks)
      BY <1>1, <2>2
    <3> QED
      BY <1>2, <3>1, <3>2
  <2>3. ASSUME NEW answer \in AckType, answer.result = Bare, acks' = Append(acks, answer)
        PROVE  acks' \in Seq(AckType)
               /\ \A k \in 1 .. Len(acks') : acks'[k].result # Bare => VersionOf(acks'[k].result, order)
    <3>1. acks' \in Seq(AckType) /\ Len(acks') = Len(acks) + 1
      BY <1>1, <2>3
    <3>2. \A k \in 1 .. Len(acks') :
            (k \in 1 .. Len(acks) /\ acks'[k] = acks[k]) \/ acks'[k] = answer
      BY <1>1, <2>3
    <3> QED
      BY <1>2, <2>3, <3>1, <3>2
  <2> QED
    BY <2>1, <2>2, <2>3
<1> QED
  BY <1>3 DEF ShownInv, ItemsInv, OrderInv, VersionOf, Exists

\* An answer is taken.  What is published then, if anything, is its result.
LEMMA TakesAck ==
    ASSUME ShownInv, acks # <<>>, acks' = Tail(acks),
           UNCHANGED <<transport, updates, order>>,
           \/ UNCHANGED <<shown, shownAt, overtaken>>
           \/ transport = "rest" /\ PublishResult(Head(acks).result)
    PROVE  ShownInv'
<1> DEFINE result == Head(acks).result
<1>1. OrderInv' /\ ItemsInv' /\ acks' \in Seq(AckType)
  BY Delivers
<1>2. result \in OrderType /\ (result # Bare => VersionOf(result, order))
  <2>1. acks \in Seq(AckType) /\ Head(acks) = acks[1] /\ 1 \in 1 .. Len(acks)
    BY DEF ShownInv, ViewTypesOK
  <2>2. acks[1] \in AckType
    BY <2>1
  <2> QED
    BY <2>1, <2>2 DEF AckType, ShownInv, ItemsInv
<1>3. shown \in ViewType
  BY DEF ShownInv, ViewTypesOK
<1>4. CASE UNCHANGED <<shown, shownAt, overtaken>>
  BY <1>1, <1>4 DEF ShownInv, ViewTypesOK, UpdatesInv, ViewInv, ShowsOrder, Exists, Open
<1>5. CASE transport = "rest" /\ PublishResult(result) /\ result = Bare
  <2>1. UNCHANGED <<shown, shownAt, overtaken>>
    BY <1>3, <1>5, BareTells DEF PublishResult
  <2> QED
    BY <1>4, <2>1
<1>6. CASE transport = "rest" /\ PublishResult(result) /\ result # Bare
  <2>1. /\ shown' = Merge(shown, OrderUpdate(result))
        /\ overtaken' = (result.changes < shownAt)
        /\ shownAt' = IF result.changes < shownAt THEN shownAt ELSE result.changes
    BY <1>6 DEF PublishResult
  <2> HIDE DEF result
  <2>2. /\ ViewInv' /\ shown' \in ViewType /\ overtaken' \in BOOLEAN
        /\ shownAt' \in Nat /\ shownAt' >= shownAt
    BY <1>2, <1>6, <2>1, Publishes
  <2>3. ViewTypesOK'
    BY <1>1, <2>2 DEF ShownInv, ViewTypesOK
  <2>4. UpdatesInv'
    <3>1. transport' = "rest" /\ updates' = updates /\ order' = order
      BY <1>6
    <3>2. shownAt \in Nat /\ Len(updates) \in Nat /\ order.changes \in Nat
      BY LenProperties DEF ShownInv, ViewTypesOK, OrderInv
    <3> QED
      BY <2>2, <3>1, <3>2 DEF ShownInv, UpdatesInv
  <2> QED
    BY <1>1, <2>2, <2>3, <2>4 DEF ShownInv
<1> QED
  BY <1>4, <1>5, <1>6

\* An update is delivered, and published.
LEMMA DropCopyShows == ShownInv /\ DropCopyOrder => ShownInv'
<1> SUFFICES ASSUME ShownInv, DropCopyOrder PROVE ShownInv'
  OBVIOUS
<1>1. /\ updates # <<>> /\ updates' = Tail(updates)
      /\ shown' = Merge(shown, OrderUpdate(Head(updates)))
      /\ overtaken' = (Head(updates).changes < shownAt)
      /\ shownAt' = IF Head(updates).changes < shownAt THEN shownAt ELSE Head(updates).changes
      /\ UNCHANGED <<transport, acks, order>>
  BY DEF DropCopyOrder
<1>2. updates \in Seq(OrderType) /\ Len(updates) \in Nat /\ shownAt \in Nat /\ order.changes \in Nat
  BY LenProperties DEF ShownInv, ViewTypesOK, OrderInv
<1>3. /\ Head(updates) = updates[1] /\ 1 \in 1 .. Len(updates) /\ Head(updates) \in OrderType
      /\ updates' \in Seq(OrderType) /\ Len(updates') = Len(updates) - 1
      /\ \A k \in 1 .. Len(updates') : updates'[k] = updates[k + 1] /\ k + 1 \in 1 .. Len(updates)
  BY <1>1, <1>2
<1>4. /\ VersionOf(Head(updates), order)
      /\ \A k \in 1 .. Len(updates') : VersionOf(updates'[k], order)
      /\ \A k \in 1 .. Len(acks) : acks[k].result # Bare => VersionOf(acks[k].result, order)
  BY <1>3 DEF ShownInv, ItemsInv
<1>5. /\ ViewInv' /\ shown' \in ViewType /\ overtaken' \in BOOLEAN
      /\ shownAt' \in Nat /\ shownAt' >= shownAt
  BY <1>1, <1>3, <1>4, Publishes
<1>6. OrderInv' /\ ItemsInv'
  BY <1>1, <1>4 DEF ShownInv, OrderInv, ItemsInv, VersionOf, Exists
<1>7. ViewTypesOK'
  BY <1>1, <1>3, <1>5 DEF ShownInv, ViewTypesOK
<1>8. UpdatesInv'
  <2>1. /\ Len(updates) <= order.changes
        /\ \A k \in 1 .. Len(updates) : updates[k].changes = order.changes - Len(updates) + k
        /\ shownAt >= order.changes - Len(updates)
        /\ transport = "ws" => ~overtaken /\ shownAt = order.changes - Len(updates)
    BY DEF ShownInv, UpdatesInv
  <2>2. Head(updates).changes = order.changes - Len(updates) + 1
    BY <1>3, <2>1
  <2>3. Len(updates') <= order.changes
    BY <1>2, <1>3, <2>1
  <2>4. ASSUME NEW k \in 1 .. Len(updates')
        PROVE  updates'[k].changes = order.changes - Len(updates') + k
    <3>1. updates'[k].changes = order.changes - Len(updates) + (k + 1)
      BY <1>3, <2>1
    <3> QED
      BY <1>2, <1>3, <3>1
  <2>5. shownAt' >= order.changes - Len(updates')
    BY <1>1, <1>2, <1>3, <2>2
  <2>6. ASSUME transport = "ws" PROVE ~overtaken' /\ shownAt' = order.changes - Len(updates')
    <3>1. ~(Head(updates).changes < shownAt)
      <4>1. shownAt = order.changes - Len(updates)
        BY <2>1, <2>6, Zenon
      <4> QED
        BY <1>2, <2>2, <4>1
    <3>2. ~overtaken' /\ shownAt' = Head(updates).changes
      BY <1>1, <3>1, Zenon
    <3>3. Head(updates).changes = order.changes - Len(updates')
      BY <1>2, <1>3, <2>2
    <3> QED
      BY <3>2, <3>3, Zenon
  <2> QED
    BY <1>1, <2>3, <2>4, <2>5, <2>6 DEF UpdatesInv
<1> QED
  BY <1>5, <1>6, <1>7, <1>8 DEF ShownInv

-----------------------------------------------------------------------------
(***************************************************************************)
(* Changes of the order.                                                   *)
(***************************************************************************)

\* A new version: those that have been stay versions, for the last of them was open.
LEMMA Changes ==
    ASSUME ShownInv, Open \/ ~Exists, OrderInv', Exists',
           order' \in OrderType, order'.changes = order.changes + 1,
           order.price # NaN => order'.price # NaN,
           updates' = Append(updates, order'),
           \/ acks' = acks
           \/ \E answer \in AckType : answer.result \in {Bare, order'} /\ acks' = Append(acks, answer),
           UNCHANGED <<transport, shown, shownAt, overtaken>>
    PROVE  ShownInv'
<1>1. /\ updates \in Seq(OrderType) /\ Len(updates) \in Nat /\ shownAt \in Nat
      /\ order.changes \in Nat /\ acks \in Seq(AckType)
  BY LenProperties DEF ShownInv, ViewTypesOK, OrderInv
<1>2. ASSUME NEW item \in OrderType, VersionOf(item, order) PROVE VersionOf(item, order')
  <2>1. /\ item.changes \in Int /\ item.changes > 0 /\ item.changes <= order.changes
        /\ item.changes = order.changes => item = order
        /\ item.changes < order.changes => item.orderStatus \in OpenWords
        /\ item.side # "" /\ item.orderType # "" /\ item.timeInForce # "" /\ item.orderStatus # ""
        /\ item.cumExecQty >= 0 /\ item.qty > 0
        /\ item.price # NaN => order.price # NaN
    BY <1>2 DEF VersionOf, OrderType
  <2>2. item.changes < order'.changes /\ item.changes # order'.changes /\ item.changes <= order'.changes
    <3>1. item.changes \in Int /\ item.changes <= order.changes
      BY <2>1, Zenon
    <3> QED
      BY <1>1, <3>1
  <2>3. item.orderStatus \in OpenWords
    <3>1. CASE item.changes < order.changes
      BY <2>1, <3>1
    <3>2. CASE ~(item.changes < order.changes)
      <4>1. item = order
        <5>1. item.changes \in Int /\ item.changes <= order.changes
          BY <2>1, Zenon
        <5>2. item.changes = order.changes
          BY <1>1, <3>2, <5>1
        <5> QED
          BY <2>1, <5>2
      <4> QED
        BY <2>1, <4>1 DEF Open, OpenWords, Exists
    <3> QED
      BY <3>1, <3>2
  <2> QED
    BY <2>1, <2>2, <2>3 DEF VersionOf
<1>3. VersionOf(order', order')
  <2>1. order'.changes \in Int /\ order'.cumExecQty \in Int /\ order'.qty \in Int
    BY DEF OrderType
  <2>2. /\ order'.changes > 0 /\ order'.side # "" /\ order'.orderType # "" /\ order'.timeInForce # ""
        /\ order'.orderStatus # "" /\ 0 <= order'.cumExecQty /\ order'.qty > 0
    BY DEF OrderInv, Exists
  <2>3. /\ order'.changes <= order'.changes /\ ~(order'.changes < order'.changes)
        /\ order'.cumExecQty >= 0
    <3>1. 0 <= order'.cumExecQty
      BY <2>2, Zenon
    <3> QED
      BY <2>1, <3>1
  <2> QED
    BY <2>2, <2>3 DEF VersionOf
<1>4. /\ updates' \in Seq(OrderType) /\ Len(updates') = Len(updates) + 1
      /\ \A k \in 1 .. Len(updates') :
           IF k = Len(updates) + 1 THEN updates'[k] = order'
           ELSE k \in 1 .. Len(updates) /\ updates'[k] = updates[k]
  BY <1>1
<1>5. /\ \A k \in 1 .. Len(updates) : updates[k] \in OrderType /\ VersionOf(updates[k], order)
      /\ \A k \in 1 .. Len(acks) :
            acks[k].result \in OrderType /\ (acks[k].result # Bare => VersionOf(acks[k].result, order))
  <2>1. \A k \in 1 .. Len(acks) : acks[k] \in AckType
    BY <1>1
  <2>2. \A k \in 1 .. Len(acks) : acks[k].result \in OrderType
    BY <2>1 DEF AckType
  <2>3. \A k \in 1 .. Len(updates) : updates[k] \in OrderType
    BY <1>1
  <2> QED
    BY <2>2, <2>3 DEF ShownInv, ItemsInv
<1>6. \A k \in 1 .. Len(updates') : VersionOf(updates'[k], order')
  <2> SUFFICES ASSUME NEW k \in 1 .. Len(updates') PROVE VersionOf(updates'[k], order')
    OBVIOUS
  <2>1. CASE k = Len(updates) + 1
    BY <1>3, <1>4, <2>1
  <2>2. CASE k # Len(updates) + 1
    BY <1>2, <1>4, <1>5, <2>2
  <2> QED
    BY <2>1, <2>2
<1>7. acks' \in Seq(AckType) /\ \A k \in 1 .. Len(acks') :
         acks'[k].result # Bare => VersionOf(acks'[k].result, order')
  <2>1. \A k \in 1 .. Len(acks) : acks[k].result # Bare => VersionOf(acks[k].result, order')
    BY <1>2, <1>5
  <2>2. CASE acks' = acks
    BY <1>1, <2>1, <2>2
  <2>3. ASSUME NEW answer \in AckType, answer.result \in {Bare, order'}, acks' = Append(acks, answer)
        PROVE  acks' \in Seq(AckType) /\ \A k \in 1 .. Len(acks') :
                 acks'[k].result # Bare => VersionOf(acks'[k].result, order')
    <3>1. /\ acks' \in Seq(AckType)
          /\ \A k \in 1 .. Len(acks') : (k \in 1 .. Len(acks) /\ acks'[k] = acks[k]) \/ acks'[k] = answer
      BY <1>1, <2>3
    <3>2. answer.result # Bare => VersionOf(answer.result, order')
      BY <1>3, <2>3
    <3> QED
      BY <2>1, <3>1, <3>2
  <2> QED
    BY <2>2, <2>3
<1>8. ItemsInv'
  BY <1>6, <1>7 DEF ItemsInv
<1>9. UpdatesInv'
  <2>1. /\ Len(updates) <= order.changes
        /\ \A k \in 1 .. Len(updates) : updates[k].changes = order.changes - Len(updates) + k
        /\ shownAt >= order.changes - Len(updates)
        /\ transport = "ws" => ~overtaken /\ shownAt = order.changes - Len(updates)
    BY DEF ShownInv, UpdatesInv
  <2>2. Len(updates') <= order'.changes /\ order'.changes - Len(updates') = order.changes - Len(updates)
    BY <1>1, <1>4, <2>1
  <2>3. ASSUME NEW k \in 1 .. Len(updates')
        PROVE  updates'[k].changes = order'.changes - Len(updates') + k
    <3>1. CASE k = Len(updates) + 1
      <4>1. updates'[k].changes = order.changes + 1
        BY <1>4, <3>1
      <4> QED
        BY <1>1, <2>2, <3>1, <4>1
    <3>2. CASE k # Len(updates) + 1
      BY <1>4, <2>1, <2>2, <3>2
    <3> QED
      BY <3>1, <3>2
  <2> QED
    BY <2>1, <2>2, <2>3 DEF UpdatesInv
<1>10. ViewInv'
  <2>1. /\ shownAt <= order.changes /\ (shown.price # NaN => order.price # NaN)
        /\ shown.order_status \in Final => Exists /\ ~Open
    BY DEF ShownInv, ViewInv
  <2>2. shownAt' <= order'.changes /\ shownAt' # order'.changes
    BY <1>1, <2>1
  <2>3. shown'.order_status \notin Final /\ (shown'.price # NaN => order'.price # NaN)
    BY <2>1
  <2> QED
    BY <2>2, <2>3 DEF ViewInv
<1>11. ViewTypesOK'
  BY <1>4, <1>7 DEF ShownInv, ViewTypesOK
<1> QED
  BY <1>8, <1>9, <1>10, <1>11 DEF ShownInv

\* Answers and their results are of the types they should be.
LEMMA AnswerTyped ==
    ASSUME AgreedInv, sent # <<>>, order' \in OrderType, NEW code \in Int, NEW reason \in ReasonWords \cup {"none"},
           Answer(code, reason)
    PROVE  \E answer \in AckType : /\ answer.result \in {Bare, order'} /\ (code # 0 => answer.result = Bare)
                                  /\ answer.ret_code = code /\ answer.reason = reason
                                  /\ acks' = Append(acks, answer)
<1>1. Head(sent).op \in Operations
  <2>1. Head(sent) \in Messages
    BY DEF AgreedInv, TypesOK
  <2> QED
    BY <2>1 DEF Messages, Creations, Amendments, Cancellations, Operations
<1>2. Bare \in OrderType
  BY BareTyped
<1>3. PICK result \in {Bare, order'} :
        /\ code # 0 => result = Bare
        /\ acks' = Append(acks, [op |-> Head(sent).op, ret_code |-> code, reason |-> reason,
                                 result |-> result])
  BY DEF Answer
<1>4. [op |-> Head(sent).op, ret_code |-> code, reason |-> reason, result |-> result] \in AckType
  BY <1>1, <1>2, <1>3, Zenon DEF AckType
<1> QED
  BY <1>3, <1>4

LEMMA CreatesShown == AgreedInv /\ AgreedInv' /\ ShownInv /\ ExchangeCreates => ShownInv'
<1> SUFFICES ASSUME AgreedInv, AgreedInv', ShownInv, ExchangeCreates PROVE ShownInv'
  OBVIOUS
<1>1. /\ sent # <<>> /\ sent' = Tail(sent) /\ Head(sent).op = "create" /\ Wrong(Terms) = {}
      /\ Change([Bare EXCEPT !.side = Terms.side, !.orderType = Terms.orderType,
                             !.timeInForce = TimeInForceOf(Terms), !.reduceOnly = Terms.reduceOnly,
                             !.qty = Terms.qty, !.price = Terms.price,
                             !.orderStatus = "New", !.cumExecQty = 0])
      /\ Answer(0, "none")
      /\ UNCHANGED <<transport, asked, requests, shown, shownAt, overtaken>>
  BY DEF ExchangeCreates, Handle, oms, told
<1>2. /\ order.changes \in Nat /\ order' \in OrderType /\ asked \in CreateOrders
  BY DEF AgreedInv, TypesOK, ShownInv, OrderInv
<1>3. ~Exists /\ Terms = PlaceOrder(asked)
  BY <1>1, Taking DEF NotYet, Says, Terms
<1>4. order = Bare
  BY <1>3, Zenon DEF ShownInv, OrderInv
<1>5. /\ order'.side = Terms.side /\ order'.orderType = Terms.orderType
      /\ order'.timeInForce = TimeInForceOf(Terms) /\ order'.qty = Terms.qty
      /\ order'.orderStatus = "New" /\ order'.cumExecQty = 0
      /\ order'.changes = order.changes + 1
  BY <1>1 DEF Change, Bare
<1>6. Terms.side # "" /\ Terms.orderType # ""
  BY <1>1 DEF Wrong
<1>7. TimeInForceOf(Terms) # ""
  BY DEF TimeInForceOf
<1>8. Terms.qty \in Nat /\ Terms.qty # 0
  BY <1>2, <1>3, InputTypes DEF PlaceOrder, CreateOrderType
<1>9. Exists'
  BY <1>5 DEF Exists
<1>10. OrderInv'
  <2>1. order'.changes \in Nat /\ order'.changes > 0
    BY <1>2, <1>5
  <2>2. 0 <= order'.cumExecQty /\ order'.cumExecQty <= order'.qty /\ order'.qty > 0
    BY <1>5, <1>8
  <2>3. order'.orderStatus # "Filled"
    BY <1>5
  <2>4. order'.cumExecQty # order'.qty
    BY <1>5, <1>8
  <2> QED
    BY <1>5, <1>6, <1>7, <1>9, <2>1, <2>2, <2>3, <2>4, Zenon DEF OrderInv
<1>11. order.price = NaN
  BY <1>4 DEF Bare
<1>12. \E answer \in AckType : answer.result \in {Bare, order'} /\ acks' = Append(acks, answer)
  <2>1. 0 \in Int /\ "none" \in ReasonWords \cup {"none"}
    OBVIOUS
  <2> QED
    BY <1>1, <1>2, <2>1, AnswerTyped
<1>13. updates' = Append(updates, order')
  BY <1>1 DEF Change
<1> QED
  BY <1>1, <1>2, <1>3, <1>5, <1>9, <1>10, <1>11, <1>12, <1>13, Changes

LEMMA AmendsShown == AgreedInv /\ AgreedInv' /\ ShownInv /\ ExchangeAmends => ShownInv'
<1> SUFFICES ASSUME AgreedInv, AgreedInv', ShownInv, ExchangeAmends PROVE ShownInv'
  OBVIOUS
<1>1. /\ sent # <<>> /\ Exists /\ Open
      /\ Given(Terms.qty, order.qty) > order.cumExecQty
      /\ Change([order EXCEPT !.qty = Given(Terms.qty, @), !.price = Given(Terms.price, @)])
      /\ Answer(0, "none")
      /\ UNCHANGED <<transport, shown, shownAt, overtaken>>
  BY DEF ExchangeAmends, Handle, Found, told
<1>2. /\ order.changes \in Nat /\ order \in OrderType /\ order' \in OrderType
  BY DEF AgreedInv, TypesOK, ShownInv, OrderInv
<1>3. /\ order'.side = order.side /\ order'.orderType = order.orderType
      /\ order'.timeInForce = order.timeInForce /\ order'.qty = Given(Terms.qty, order.qty)
      /\ order'.price = Given(Terms.price, order.price)
      /\ order'.orderStatus = order.orderStatus /\ order'.cumExecQty = order.cumExecQty
      /\ order'.changes = order.changes + 1
  BY <1>1, <1>2 DEF Change, OrderType
<1>4. Exists'
  BY <1>1, <1>3 DEF Exists
<1>5. /\ order.side # "" /\ order.orderType # "" /\ order.timeInForce # "" /\ 0 <= order.cumExecQty
  BY <1>1, Zenon DEF ShownInv, OrderInv
<1>6. OrderInv'
  <2>1. order'.changes \in Nat /\ order'.changes > 0
    BY <1>2, <1>3
  <2>2. order.cumExecQty \in Int /\ order'.qty \in Int
    BY <1>2 DEF OrderType
  <2>3. order'.qty > order'.cumExecQty
    BY <1>1, <1>3, Zenon
  <2>4. /\ 0 <= order'.cumExecQty /\ order'.cumExecQty <= order'.qty /\ order'.qty > 0
        /\ order'.cumExecQty # order'.qty
    <3>1. order'.cumExecQty = order.cumExecQty /\ 0 <= order.cumExecQty
      BY <1>3, <1>5, Zenon
    <3> QED
      BY <2>2, <2>3, <3>1
  <2>5. order'.orderStatus # "Filled"
    BY <1>1, <1>3 DEF Open
  <2> QED
    BY <1>3, <1>4, <1>5, <2>1, <2>4, <2>5, Zenon DEF OrderInv
<1>7. order.price # NaN => order'.price # NaN
  BY <1>3, Zenon DEF Given
<1>8. \E answer \in AckType : answer.result \in {Bare, order'} /\ acks' = Append(acks, answer)
  <2>1. 0 \in Int /\ "none" \in ReasonWords \cup {"none"}
    OBVIOUS
  <2> QED
    BY <1>1, <1>2, <2>1, AnswerTyped
<1>9. updates' = Append(updates, order')
  BY <1>1 DEF Change
<1> QED
  BY <1>1, <1>2, <1>3, <1>4, <1>6, <1>7, <1>8, <1>9, Changes

LEMMA NextNumber == \A n \in Nat : n + 1 \in Nat /\ n + 1 > 0
OBVIOUS

\* A change that leaves the terms alone: a fill or the end.
LEMMA EndsShown ==
    ASSUME AgreedInv, ShownInv, Open, order' \in OrderType,
           NEW status \in StatusWords, NEW executed \in Int, status # "",
           0 <= executed, executed <= order.qty, status = "Filled" <=> executed = order.qty,
           Change([order EXCEPT !.orderStatus = status, !.cumExecQty = executed]),
           \/ acks' = acks
           \/ \E answer \in AckType : answer.result \in {Bare, order'} /\ acks' = Append(acks, answer),
           UNCHANGED <<transport, shown, shownAt, overtaken>>
    PROVE  ShownInv'
<1>1. /\ order.changes \in Nat /\ order \in OrderType
  BY DEF AgreedInv, TypesOK, ShownInv, OrderInv
<1>2. /\ order'.side = order.side /\ order'.orderType = order.orderType
      /\ order'.timeInForce = order.timeInForce /\ order'.qty = order.qty
      /\ order'.price = order.price
      /\ order'.orderStatus = status /\ order'.cumExecQty = executed
      /\ order'.changes = order.changes + 1
  BY <1>1 DEF Change, OrderType
<1>3. Exists /\ Exists'
  BY <1>2 DEF Exists, Open
<1>4. /\ order.side # "" /\ order.orderType # "" /\ order.timeInForce # "" /\ order.qty > 0
  BY <1>3, Zenon DEF ShownInv, OrderInv
<1>5. order'.changes \in Nat /\ order'.changes > 0
  BY <1>1, <1>2, NextNumber, Zenon
<1>6. OrderInv'
  BY <1>2, <1>3, <1>4, <1>5, Zenon DEF OrderInv
<1>7. updates' = Append(updates, order')
  BY DEF Change
<1> QED
  BY <1>2, <1>3, <1>6, <1>7, Changes

LEMMA CancelsShown == AgreedInv /\ AgreedInv' /\ ShownInv /\ ExchangeCancels => ShownInv'
<1> SUFFICES ASSUME AgreedInv, AgreedInv', ShownInv, ExchangeCancels PROVE ShownInv'
  OBVIOUS
<1>1. /\ sent # <<>> /\ Exists /\ Open /\ Change([order EXCEPT !.orderStatus = Cancelled])
      /\ Answer(0, "none") /\ UNCHANGED <<transport, shown, shownAt, overtaken>>
  BY DEF ExchangeCancels, Handle, Found, told
<1>2. order \in OrderType /\ order' \in OrderType
  BY DEF AgreedInv, TypesOK
<1>3. /\ 0 <= order.cumExecQty /\ order.cumExecQty <= order.qty
      /\ order.orderStatus = "Filled" <=> order.cumExecQty = order.qty
  BY <1>1, Zenon DEF ShownInv, OrderInv
<1>4. order.orderStatus # "Filled"
  BY <1>1 DEF Open
<1>5. Cancelled \in StatusWords /\ Cancelled # "" /\ Cancelled # "Filled"
  BY DEF Cancelled, StatusWords
<1>6. order.cumExecQty \in Int /\ order.cumExecQty # order.qty
  BY <1>2, <1>3, <1>4 DEF OrderType
<1>7. Change([order EXCEPT !.orderStatus = Cancelled, !.cumExecQty = order.cumExecQty])
  BY <1>1, <1>2 DEF Change, OrderType
<1>8. \E answer \in AckType : answer.result \in {Bare, order'} /\ acks' = Append(acks, answer)
  <2>1. 0 \in Int /\ "none" \in ReasonWords \cup {"none"}
    OBVIOUS
  <2> QED
    BY <1>1, <1>2, <2>1, AnswerTyped
<1>9. Cancelled = "Filled" <=> order.cumExecQty = order.qty
  BY <1>5, <1>6
<1> HIDE DEF Cancelled
<1> QED
  BY <1>1, <1>2, <1>3, <1>5, <1>6, <1>7, <1>8, <1>9, EndsShown

LEMMA OwnChangesShown ==
    AgreedInv /\ AgreedInv' /\ ShownInv /\ (ExchangeFills \/ ExchangeEnds) => ShownInv'
<1> SUFFICES ASSUME AgreedInv, AgreedInv', ShownInv, ExchangeFills \/ ExchangeEnds PROVE ShownInv'
  OBVIOUS
<1>1. Open /\ acks' = acks /\ UNCHANGED <<transport, shown, shownAt, overtaken>>
  BY DEF ExchangeFills, ExchangeEnds, told
<1>2. order \in OrderType /\ order' \in OrderType
  BY DEF AgreedInv, TypesOK
<1>3. Exists /\ order.orderStatus # "Filled"
  BY <1>1 DEF Open, Exists
<1>4. /\ 0 <= order.cumExecQty /\ order.cumExecQty <= order.qty
      /\ order.orderStatus = "Filled" <=> order.cumExecQty = order.qty
  BY <1>3, Zenon DEF ShownInv, OrderInv
<1>5. order.cumExecQty \in Int /\ order.qty \in Int
  BY <1>2 DEF OrderType
<1>6. PICK status \in StatusWords, executed \in Int :
        /\ status # "" /\ 0 <= executed /\ executed <= order.qty
        /\ status = "Filled" <=> executed = order.qty
        /\ Change([order EXCEPT !.orderStatus = status, !.cumExecQty = executed])
  <2>1. CASE ExchangeFills
    <3>1. PICK executed \in order.cumExecQty + 1 .. order.qty :
            Change([order EXCEPT !.cumExecQty = executed,
                        !.orderStatus = IF executed = order.qty THEN "Filled" ELSE "PartiallyFilled"])
      BY <2>1 DEF ExchangeFills
    <3>2. 0 <= order.cumExecQty
      BY <1>4, Zenon
    <3>3. executed \in Int /\ 0 <= executed /\ executed <= order.qty
      BY <1>5, <3>2
    <3> DEFINE status == IF executed = order.qty THEN "Filled" ELSE "PartiallyFilled"
    <3>4. status \in StatusWords /\ status # "" /\ (status = "Filled" <=> executed = order.qty)
      BY DEF StatusWords
    <3>5. Change([order EXCEPT !.cumExecQty = executed, !.orderStatus = status])
      BY <3>1
    <3> HIDE DEF status
    <3>6. Change([order EXCEPT !.orderStatus = status, !.cumExecQty = executed])
      BY <1>2, <3>5 DEF Change, OrderType
    <3> QED
      BY <3>3, <3>4, <3>6, Zenon
  <2>2. CASE ExchangeEnds
    <3>1. PICK status \in {Cancelled, "Rejected"} : Change([order EXCEPT !.orderStatus = status])
      BY <2>2 DEF ExchangeEnds
    <3>2. status \in StatusWords /\ status # "" /\ status # "Filled"
      BY DEF Cancelled, StatusWords
    <3>3. Change([order EXCEPT !.orderStatus = status, !.cumExecQty = order.cumExecQty])
      BY <1>2, <3>1 DEF Change, OrderType
    <3>4. order.cumExecQty # order.qty
      BY <1>3, <1>4, Zenon
    <3> QED
      BY <1>4, <1>5, <3>2, <3>3, <3>4, Zenon
  <2> QED
    BY <2>1, <2>2
<1> QED
  BY <1>1, <1>2, <1>6, EndsShown

\* The exchange's codes are numbers, and none of them is zero.
LEMMA CodesAreErrors == \A reason \in ReasonWords : Codes(reason) \subseteq Int \ {0}
<1>1. /\ Codes("side") \subseteq Int \ {0} /\ Codes("type") \subseteq Int \ {0}
      /\ Codes("price") \subseteq Int \ {0} /\ Codes("funds") \subseteq Int \ {0}
      /\ Codes("quantity") \subseteq Int \ {0} /\ Codes("busy") \subseteq Int \ {0}
      /\ Codes("not found") \subseteq Int \ {0} /\ Codes("over") \subseteq Int \ {0}
  BY DEF Codes
<1> QED
  BY <1>1, Zenon DEF ReasonWords

LEMMA CodesTyped ==
    \A reason \in Reasons : reason \in ReasonWords /\ \A code \in Codes(reason) : code \in Int
<1> SUFFICES ASSUME NEW reason \in Reasons
             PROVE  reason \in ReasonWords /\ \A code \in Codes(reason) : code \in Int
  OBVIOUS
<1>1. reason \in ReasonWords
  BY DEF Reasons, Wrong, ReasonWords
<1>2. Codes(reason) \subseteq Int \ {0}
  BY <1>1, CodesAreErrors
<1> QED
  BY <1>1, <1>2, Zenon

LEMMA RefusalTyped ==
    ASSUME AgreedInv, ExchangeRefuses
    PROVE  \E answer \in AckType :
             /\ answer.result = Bare /\ acks' = Append(acks, answer)
             /\ answer.reason \in ReasonWords /\ answer.ret_code \in Codes(answer.reason)
<1>1. /\ sent # <<>>
      /\ \E reason \in Reasons : \E code \in Codes(reason) \cap ReturnCodes :
           acks' = Append(acks, [op |-> Head(sent).op, ret_code |-> code, reason |-> reason, result |-> Bare])
  BY DEF ExchangeRefuses
<1>2. PICK reason \in Reasons : \E code \in Codes(reason) \cap ReturnCodes :
        acks' = Append(acks, [op |-> Head(sent).op, ret_code |-> code, reason |-> reason, result |-> Bare])
  BY <1>1
<1>3. PICK code \in Codes(reason) \cap ReturnCodes :
        acks' = Append(acks, [op |-> Head(sent).op, ret_code |-> code, reason |-> reason, result |-> Bare])
  BY <1>2
<1>4. code \in Int /\ reason \in ReasonWords \cup {"none"}
  BY CodesTyped
<1>5. Head(sent).op \in Operations
  <2>1. Head(sent) \in Messages
    BY <1>1 DEF AgreedInv, TypesOK
  <2> QED
    BY <2>1 DEF Messages, Creations, Amendments, Cancellations, Operations
<1> DEFINE answer == [op |-> Head(sent).op, ret_code |-> code, reason |-> reason, result |-> Bare]
<1>6. answer \in AckType
  BY <1>4, <1>5, BareTyped, Zenon DEF AckType
<1>7. answer.result = Bare /\ answer.reason = reason /\ answer.ret_code = code
  OBVIOUS
<1>8. reason \in ReasonWords
  BY CodesTyped
<1> QED
  BY <1>3, <1>6, <1>7, <1>8, Zenon

LEMMA RefusesShown == AgreedInv /\ ShownInv /\ ExchangeRefuses => ShownInv'
<1> SUFFICES ASSUME AgreedInv, ShownInv, ExchangeRefuses PROVE ShownInv'
  OBVIOUS
<1>1. UNCHANGED <<transport, updates, order, shown, shownAt, overtaken>>
  BY DEF ExchangeRefuses, told
<1>2. OrderInv' /\ ItemsInv' /\ acks' \in Seq(AckType)
  BY <1>1, RefusalTyped, Delivers
<1> QED
  BY <1>1, <1>2 DEF ShownInv, ViewTypesOK, UpdatesInv, ViewInv, ShowsOrder, Exists, Open

-----------------------------------------------------------------------------
LEMMA Zeros == 0 <= 0 /\ 0 >= 0 - 0 /\ 0 = 0 - 0
OBVIOUS

LEMMA ShownInitially == Init => ShownInv
<1> SUFFICES ASSUME Init PROVE ShownInv
  OBVIOUS
<1>1. /\ transport \in {"rest", "ws"} /\ shown = Nothing /\ acks = <<>> /\ updates = <<>>
      /\ order = Bare /\ shownAt = 0 /\ overtaken = FALSE
  BY DEF Init
<1>2. Nothing \in ViewType
  BY DEF Nothing, ViewType, Sides, OrderTypes, TimesInForce, NaN
<1>3. ViewTypesOK
  <2>1. acks \in Seq(AckType) /\ updates \in Seq(OrderType)
    BY <1>1, EmptySeq, Zenon
  <2>2. shownAt \in Nat /\ overtaken \in BOOLEAN
    BY <1>1
  <2> QED
    BY <1>1, <1>2, <2>1, <2>2, Zenon DEF ViewTypesOK
<1>4. order.changes = 0 /\ ~Exists
  BY <1>1 DEF Bare, Exists
<1>5. OrderInv
  BY <1>1, <1>4 DEF OrderInv
<1>6. ItemsInv /\ UpdatesInv
  <2>1. Len(updates) = 0 /\ Len(acks) = 0 /\ 1 .. 0 = {}
    BY <1>1
  <2>2. 0 <= order.changes /\ shownAt >= order.changes - 0 /\ shownAt = order.changes - 0
    BY <1>1, <1>4, Zeros, Zenon
  <2> QED
    BY <1>1, <2>1, <2>2, Zenon DEF ItemsInv, UpdatesInv
<1>7. ViewInv
  BY <1>1, <1>4 DEF ViewInv, Nothing, Final
<1> QED
  BY <1>3, <1>5, <1>6, <1>7 DEF ShownInv

LEMMA ShownPreserved == AgreedInv /\ AgreedInv' /\ ShownInv /\ [Next]_vars => ShownInv'
<1> SUFFICES ASSUME AgreedInv, AgreedInv', ShownInv, [Next]_vars PROVE ShownInv'
  OBVIOUS
<1>1. CASE UNCHANGED <<transport, shown, shownAt, overtaken, acks, updates, order>>
  BY <1>1 DEF ShownInv, ViewTypesOK, OrderInv, ItemsInv, UpdatesInv, ViewInv, VersionOf,
     ShowsOrder, Exists, Open
<1>2. CASE ClientNext
  BY <1>1, <1>2 DEF ClientNext, NewOrder, ModifyOrder, Cancel, Send, told
<1>3. CASE ExchangeNext
  BY <1>3, CreatesShown, AmendsShown, CancelsShown, RefusesShown, OwnChangesShown DEF ExchangeNext
<1>4. CASE DropCopyOrder
  BY <1>4, DropCopyShows
<1>5. CASE PlaceOrderAck \/ PlaceOrder2 \/ AmendOrder2 \/ CancelOrder2
  <2>1. /\ acks # <<>> /\ acks' = Tail(acks)
        /\ UNCHANGED <<transport, updates, order, shown, shownAt, overtaken>>
    BY <1>5 DEF PlaceOrderAck, PlaceOrder2, AmendOrder2, CancelOrder2, TakeAck
  <2> QED
    BY <2>1, TakesAck
<1>6. CASE AmendOrderAck \/ CancelOrderAck
  <2>1. /\ transport = "rest" /\ acks # <<>> /\ acks' = Tail(acks)
        /\ UNCHANGED <<transport, updates, order>> /\ PublishResult(Head(acks).result)
    BY <1>6 DEF AmendOrderAck, CancelOrderAck, TakeAck
  <2> QED
    BY <2>1, TakesAck
<1>7. CASE UNCHANGED vars
  BY <1>1, <1>7 DEF vars, told
<1> QED
  BY <1>2, <1>3, <1>4, <1>5, <1>6, <1>7 DEF Next, GatewayNext

\* What is on its way and what is shown (ShownInv), and the terms agreed upon (AgreedInv),
\* are inductive together.
THEOREM Inductive == Spec => [](AgreedInv /\ ShownInv)
BY AgreedInitially, AgreedPreserved, ShownInitially, ShownPreserved, PTL DEF Spec

\* With everything delivered, the client is shown the order as it is (map.cpp:79-272,
\* order_entry_rest.cpp:965), unless what was published last was overtaken.
THEOREM ShownAsItIsHolds == Spec => []ShownAsItIs
<1>1. AgreedInv /\ ShownInv => ShownAsItIs
  <2> SUFFICES ASSUME AgreedInv, ShownInv, Told, ~(overtaken /\ transport = "rest")
               PROVE  /\ shown.side = agreed.side /\ shown.order_type = agreed.order_type
                      /\ shown.quantity = agreed.quantity /\ shown.price = agreed.price
                      /\ shown.traded = order.cumExecQty
                      /\ shown.time_in_force = "GTC" <=> order.timeInForce \in {"GTC", "PostOnly"}
                      /\ shown.order_status = "WORKING" <=> Open
                      /\ shown.order_status = "COMPLETED" <=> order.cumExecQty = order.qty
                      /\ shown.order_status = "REJECTED" <=> order.orderStatus = "Rejected"
    BY DEF ShownAsItIs
  <2>1. Exists /\ updates = <<>>
    BY DEF Told
  <2>2. ~overtaken
    <3>1. transport \in {"rest", "ws"} /\ (transport = "ws" => ~overtaken)
      BY Zenon DEF ShownInv, ViewTypesOK, UpdatesInv
    <3> QED
      BY <3>1
  <2>3. shownAt = order.changes
    <3>1. Len(updates) = 0
      BY <2>1
    <3>2. shownAt >= order.changes - Len(updates) /\ shownAt <= order.changes
      BY DEF ShownInv, UpdatesInv, ViewInv
    <3>3. shownAt \in Nat /\ order.changes \in Nat
      BY DEF ShownInv, ViewTypesOK, OrderInv
    <3> QED
      BY <3>1, <3>2, <3>3
  <2>4. ShowsOrder
    BY <2>1, <2>2, <2>3, Zenon DEF ShownInv, ViewInv
  <2>5. /\ agreed.side = FromSide(order.side) /\ agreed.order_type = FromOrderType(order.orderType)
        /\ order.qty = agreed.quantity /\ order.price = agreed.price
    BY <2>1, Zenon DEF AgreedInv, AgreedTerms
  <2>6. /\ order.timeInForce \in {"GTC", "PostOnly", "IOC", "FOK"}
        /\ order.orderStatus \in {"New", "PartiallyFilled", "Filled", "Cancelled",
                                 "PartiallyFilledCanceled", "Rejected"}
    <3>1. order.timeInForce \in TimeWords /\ order.orderStatus \in StatusWords
      BY DEF AgreedInv, TypesOK, OrderType
    <3>2. order.timeInForce # "" /\ order.orderStatus # ""
      BY <2>1, Zenon DEF ShownInv, OrderInv, Exists
    <3> QED
      BY <3>1, <3>2 DEF TimeWords, StatusWords
  <2>7. shown.time_in_force = "GTC" <=> order.timeInForce \in {"GTC", "PostOnly"}
    BY <2>4, <2>6, WordsRead DEF ShowsOrder
  <2>8. /\ shown.order_status = "WORKING" <=> Open
        /\ shown.order_status = "COMPLETED" <=> order.orderStatus = "Filled"
        /\ shown.order_status = "REJECTED" <=> order.orderStatus = "Rejected"
    BY <2>4, <2>6, StatusesRead DEF ShowsOrder, Open, OpenWords
  <2>9. order.orderStatus = "Filled" <=> order.cumExecQty = order.qty
    BY <2>1, Zenon DEF ShownInv, OrderInv
  <2> QED
    BY <2>4, <2>5, <2>7, <2>8, <2>9, Zenon DEF ShowsOrder
<1> QED
  BY <1>1, Inductive, PTL

-----------------------------------------------------------------------------
\* A version that is not older than what shows an order as over shows the same.
LEMMA OverStays ==
    ASSUME ShownInv, NEW item \in OrderType, VersionOf(item, order),
           shown' = Merge(shown, OrderUpdate(item)),
           ~(item.changes < shownAt), shown.order_status \in Final
    PROVE  shown'.order_status = shown.order_status /\ shown'.traded = shown.traded
<1>1. /\ shownAt = order.changes /\ shown.order_status = FromOrderStatus(order.orderStatus)
      /\ shown.traded = order.cumExecQty
  BY Zenon DEF ShownInv, ViewInv
<1>2. item.changes <= order.changes /\ (item.changes = order.changes => item = order)
  BY Zenon DEF VersionOf
<1>3. item.changes \in Int /\ order.changes \in Nat /\ shown \in ViewType
  BY DEF OrderType, ShownInv, OrderInv, ViewTypesOK
<1>4. item.changes = order.changes
  <2>1. item.changes <= order.changes
    BY <1>2, Zenon
  <2>2. ~(item.changes < order.changes)
    BY <1>1, Zenon
  <2> QED
    BY <1>3, <2>1, <2>2
<1>5. item = order
  BY <1>2, <1>4, Zenon
<1>6. /\ shown'.order_status = FromOrderStatus(item.orderStatus)
      /\ shown'.traded = item.cumExecQty
  BY <1>3, VersionTells
<1> QED
  BY <1>1, <1>5, <1>6, Zenon

\* An order that is over stays over in the client's view, with its fills, unless a late
\* answer or update is published behind a newer one (order_entry_rest.cpp:965, 1109).
THEOREM OverIsOverHolds == Spec => OverIsOver
<1>1. AgreedInv /\ ShownInv /\ ShownInv' /\ [Next]_vars =>
        [shown.order_status \in Final /\ ~(overtaken' /\ transport = "rest") =>
            shown'.order_status = shown.order_status /\ shown'.traded = shown.traded]_vars
  <2> SUFFICES ASSUME AgreedInv, ShownInv, ShownInv', Next,
                      shown.order_status \in Final, ~(overtaken' /\ transport = "rest")
               PROVE  shown'.order_status = shown.order_status /\ shown'.traded = shown.traded
    OBVIOUS
  <2>1. CASE shown' = shown
    BY <2>1
  <2>2. ASSUME transport' = transport PROVE ~overtaken'
    <3>1. transport \in {"rest", "ws"}
      BY DEF ShownInv, ViewTypesOK
    <3>2. transport' = "ws" => ~overtaken'
      BY Zenon DEF ShownInv, UpdatesInv
    <3> QED
      BY <2>2, <3>1, <3>2
  <2>3. CASE ClientNext
    BY <2>1, <2>3 DEF ClientNext, NewOrder, ModifyOrder, Cancel, Send, told
  <2>4. CASE ExchangeNext
    BY <2>1, <2>4 DEF ExchangeNext, ExchangeCreates, ExchangeAmends, ExchangeCancels,
       ExchangeRefuses, ExchangeFills, ExchangeEnds, told
  <2>5. CASE PlaceOrderAck \/ PlaceOrder2 \/ AmendOrder2 \/ CancelOrder2
    BY <2>1, <2>5 DEF PlaceOrderAck, PlaceOrder2, AmendOrder2, CancelOrder2
  <2>6. CASE AmendOrderAck \/ CancelOrderAck
    <3> DEFINE result == Head(acks).result
    <3>1. /\ transport' = transport /\ acks # <<>>
          /\ shown' = Merge(shown, OrderUpdate(result))
          /\ result # Bare => overtaken' = (result.changes < shownAt)
      BY <2>6 DEF AmendOrderAck, CancelOrderAck, TakeAck, PublishResult
    <3>2. result \in OrderType /\ (result # Bare => VersionOf(result, order))
      <4>1. acks \in Seq(AckType) /\ Head(acks) = acks[1] /\ 1 \in 1 .. Len(acks)
        BY <3>1 DEF ShownInv, ViewTypesOK
      <4>2. acks[1] \in AckType
        BY <4>1
      <4> QED
        BY <4>1, <4>2 DEF AckType, ShownInv, ItemsInv
    <3> HIDE DEF result
    <3>3. CASE result = Bare
      BY <2>1, <3>1, <3>3, BareTells DEF ShownInv, ViewTypesOK
    <3>4. CASE result # Bare
      <4>1. ~(result.changes < shownAt)
        BY <2>2, <3>1, <3>4, Zenon
      <4> QED
        BY <3>1, <3>2, <3>4, <4>1, OverStays
    <3> QED
      BY <3>3, <3>4
  <2>7. CASE DropCopyOrder
    <3>1. /\ transport' = transport /\ updates # <<>>
          /\ shown' = Merge(shown, OrderUpdate(Head(updates)))
          /\ overtaken' = (Head(updates).changes < shownAt)
      BY <2>7 DEF DropCopyOrder
    <3>2. Head(updates) \in OrderType /\ VersionOf(Head(updates), order)
      <4>1. updates \in Seq(OrderType) /\ Head(updates) = updates[1] /\ 1 \in 1 .. Len(updates)
        BY <3>1 DEF ShownInv, ViewTypesOK
      <4>2. updates[1] \in OrderType
        BY <4>1
      <4> QED
        BY <4>1, <4>2 DEF ShownInv, ItemsInv
    <3>3. ~(Head(updates).changes < shownAt)
      BY <2>2, <3>1, Zenon
    <3> QED
      BY <3>1, <3>2, <3>3, OverStays
  <2> QED
    BY <2>3, <2>4, <2>5, <2>6, <2>7 DEF Next, GatewayNext
<1> QED
  BY <1>1, Inductive, PTL DEF Spec, OverIsOver

-----------------------------------------------------------------------------
(***************************************************************************)
(* The reasons of responses.                                               *)
(***************************************************************************)

\* Answers have a code for their reason, and what the client was told last is an answer.
Matches(code, reason) ==
    \/ code = 0 /\ reason = "none"
    \/ reason \in ReasonWords /\ code \in Codes(reason)
AnswersMatch == \A k \in 1 .. Len(acks) : Matches(acks[k].ret_code, acks[k].reason)
ResponseMatches ==
    \/ response = [request_status |-> "UNDEFINED", error |-> "UNDEFINED", reason |-> "none"]
    \/ \E code \in Int, reason \in ReasonWords \cup {"none"} :
         /\ Matches(code, reason)
         /\ response = [request_status |-> RequestStatus(code), error |-> MapError(code),
                        reason |-> reason]
ReasonInv == AnswersMatch /\ ResponseMatches

\* An answer is added, or taken.
LEMMA AnswerAdded ==
    ASSUME acks \in Seq(AckType), AnswersMatch, NEW answer \in AckType,
           Matches(answer.ret_code, answer.reason), acks' = Append(acks, answer)
    PROVE  AnswersMatch'
<1>1. \A k \in 1 .. Len(acks') : (k \in 1 .. Len(acks) /\ acks'[k] = acks[k]) \/ acks'[k] = answer
  OBVIOUS
<1> QED
  BY <1>1, Zenon DEF AnswersMatch, Matches

LEMMA AnswerTaken ==
    ASSUME acks \in Seq(AckType), acks # <<>>, acks' = Tail(acks), AnswersMatch
    PROVE  AnswersMatch' /\ Head(acks) \in AckType /\ Matches(Head(acks).ret_code, Head(acks).reason)
<1>1. \A k \in 1 .. Len(acks') : acks'[k] = acks[k + 1] /\ k + 1 \in 1 .. Len(acks)
  OBVIOUS
<1>2. Head(acks) = acks[1] /\ 1 \in 1 .. Len(acks) /\ acks[1] \in AckType
  OBVIOUS
<1> QED
  BY <1>1, <1>2, Zenon DEF AnswersMatch, Matches

LEMMA ReasonsPreserved ==
    AgreedInv /\ AgreedInv' /\ ShownInv /\ ReasonInv /\ [Next]_vars => ReasonInv'
<1> SUFFICES ASSUME AgreedInv, AgreedInv', ShownInv, ReasonInv, [Next]_vars PROVE ReasonInv'
  OBVIOUS
<1>1. acks \in Seq(AckType) /\ AnswersMatch /\ ResponseMatches
  BY DEF ShownInv, ViewTypesOK, ReasonInv
<1>2. UNCHANGED response => ResponseMatches'
  BY <1>1, Zenon DEF ResponseMatches, Matches
<1>3. CASE UNCHANGED <<response, acks>>
  BY <1>1, <1>2, <1>3, Zenon DEF ReasonInv, AnswersMatch, Matches
<1>4. CASE ClientNext
  BY <1>3, <1>4 DEF ClientNext, NewOrder, ModifyOrder, Cancel, Send, told
<1>5. CASE ExchangeFills \/ ExchangeEnds
  BY <1>3, <1>5 DEF ExchangeFills, ExchangeEnds, told
<1>6. CASE ExchangeCreates \/ ExchangeAmends \/ ExchangeCancels
  <2>1. UNCHANGED response /\ sent # <<>> /\ Answer(0, "none") /\ order' \in OrderType
    BY <1>6 DEF ExchangeCreates, ExchangeAmends, ExchangeCancels, Handle, told, AgreedInv, TypesOK
  <2>2. 0 \in Int /\ "none" \in ReasonWords \cup {"none"}
    OBVIOUS
  <2>3. PICK answer \in AckType : /\ answer.ret_code = 0 /\ answer.reason = "none"
                                 /\ acks' = Append(acks, answer)
    BY <2>1, <2>2, AnswerTyped
  <2>4. Matches(answer.ret_code, answer.reason)
    BY <2>3, Zenon DEF Matches
  <2>5. AnswersMatch'
    BY <1>1, <2>3, <2>4, AnswerAdded
  <2> QED
    BY <1>2, <2>1, <2>5 DEF ReasonInv
<1>7. CASE ExchangeRefuses
  <2>1. UNCHANGED response
    BY <1>7 DEF ExchangeRefuses, told
  <2>2. PICK answer \in AckType : /\ Matches(answer.ret_code, answer.reason)
                                 /\ acks' = Append(acks, answer)
    BY <1>7, RefusalTyped, Zenon DEF Matches
  <2>3. AnswersMatch'
    BY <1>1, <2>2, AnswerAdded
  <2> QED
    BY <1>2, <2>1, <2>3 DEF ReasonInv
<1>8. CASE DropCopyOrder
  BY <1>3, <1>8 DEF DropCopyOrder
<1>9. CASE PlaceOrderAck \/ AmendOrderAck \/ CancelOrderAck \/ PlaceOrder2 \/ AmendOrder2 \/ CancelOrder2
  <2>1. acks # <<>> /\ acks' = Tail(acks) /\ (UNCHANGED response \/ Respond(Head(acks)))
    BY <1>9 DEF PlaceOrderAck, AmendOrderAck, CancelOrderAck, PlaceOrder2, AmendOrder2, CancelOrder2,
       TakeAck, RespondIfRejected
  <2>2. AnswersMatch' /\ Head(acks) \in AckType /\ Matches(Head(acks).ret_code, Head(acks).reason)
    BY <1>1, <2>1, AnswerTaken
  <2>3. ASSUME Respond(Head(acks)) PROVE ResponseMatches'
    <3>1. Head(acks).ret_code \in Int /\ Head(acks).reason \in ReasonWords \cup {"none"}
      BY <2>2 DEF AckType
    <3>2. response' = [request_status |-> RequestStatus(Head(acks).ret_code),
                       error |-> MapError(Head(acks).ret_code), reason |-> Head(acks).reason]
      BY <2>3 DEF Respond
    <3> QED
      BY <2>2, <3>1, <3>2, Zenon DEF ResponseMatches, Matches
  <2> QED
    BY <1>2, <2>1, <2>2, <2>3 DEF ReasonInv
<1>10. CASE UNCHANGED vars
  BY <1>3, <1>10 DEF vars, told
<1> QED
  BY <1>4, <1>5, <1>6, <1>7, <1>8, <1>9, <1>10 DEF Next, ExchangeNext, GatewayNext

\* What map_error makes of a set of codes whose entries have errors of E: one of those,
\* or UNKNOWN for a code without an entry.
LEMMA ErrorsAmong ==
    ASSUME NEW C, 0 \notin C, NEW E, \A e \in NamedErrors : e[1] \in C => e[2] \in E
    PROVE  \A code \in C : MapError(code) \in E \cup {"UNKNOWN"}
<1> SUFFICES ASSUME NEW code \in C PROVE MapError(code) \in E \cup {"UNKNOWN"}
  OBVIOUS
<1>1. code # 0
  OBVIOUS
<1>2. CASE \E e \in NamedErrors : e[1] = code
  <2>1. /\ (CHOOSE e \in NamedErrors : e[1] = code) \in NamedErrors
        /\ (CHOOSE e \in NamedErrors : e[1] = code)[1] = code
    BY <1>2
  <2>2. MapError(code) = (CHOOSE e \in NamedErrors : e[1] = code)[2]
    BY <1>1, <1>2 DEF MapError
  <2> QED
    BY <2>1, <2>2
<1>3. CASE ~\E e \in NamedErrors : e[1] = code
  BY <1>1, <1>3 DEF MapError
<1> QED
  BY <1>2, <1>3

\* The table's entries for the codes of a reason: one error for each reason, but for those
\* of an order that is not found, and none if the exchange is busy.
LEMMA EntriesOfReasons ==
    /\ \A e \in NamedErrors : e[1] \in Codes("side") => e[2] \in {"INVALID_SIDE"}
    /\ \A e \in NamedErrors : e[1] \in Codes("type") => e[2] \in {"INVALID_ORDER_TYPE"}
    /\ \A e \in NamedErrors : e[1] \in Codes("price") => e[2] \in {"INVALID_PRICE"}
    /\ \A e \in NamedErrors : e[1] \in Codes("quantity") => e[2] \in {"INVALID_QUANTITY"}
    /\ \A e \in NamedErrors : e[1] \in Codes("funds") => e[2] \in {"INSUFFICIENT_FUNDS"}
    /\ \A e \in NamedErrors : e[1] \in Codes("over") => e[2] \in {"TOO_LATE_TO_MODIFY_OR_CANCEL"}
    /\ \A e \in NamedErrors : e[1] \in Codes("not found") => e[2] \in {"TOO_LATE_TO_MODIFY_OR_CANCEL", "UNKNOWN_ORDER_ID"}
    /\ \A e \in NamedErrors : e[1] \in Codes("busy") => e[2] \in {}
<1>1. \A e \in NamedErrors : e[1] \in Codes("side") => e[2] \in {"INVALID_SIDE"}
  BY DEF Codes, NamedErrors, GeneralErrors, RequestErrors, OrderErrors, TokenErrors
<1>2. \A e \in NamedErrors : e[1] \in Codes("type") => e[2] \in {"INVALID_ORDER_TYPE"}
  BY DEF Codes, NamedErrors, GeneralErrors, RequestErrors, OrderErrors, TokenErrors
<1>3. \A e \in NamedErrors : e[1] \in Codes("price") => e[2] \in {"INVALID_PRICE"}
  BY DEF Codes, NamedErrors, GeneralErrors, RequestErrors, OrderErrors, TokenErrors
<1>4. \A e \in NamedErrors : e[1] \in Codes("quantity") => e[2] \in {"INVALID_QUANTITY"}
  BY DEF Codes, NamedErrors, GeneralErrors, RequestErrors, OrderErrors, TokenErrors
<1>5. \A e \in NamedErrors : e[1] \in Codes("funds") => e[2] \in {"INSUFFICIENT_FUNDS"}
  BY DEF Codes, NamedErrors, GeneralErrors, RequestErrors, OrderErrors, TokenErrors
<1>6. \A e \in NamedErrors : e[1] \in Codes("over") => e[2] \in {"TOO_LATE_TO_MODIFY_OR_CANCEL"}
  BY DEF Codes, NamedErrors, GeneralErrors, RequestErrors, OrderErrors, TokenErrors
<1>7. \A e \in NamedErrors : e[1] \in Codes("not found") => e[2] \in {"TOO_LATE_TO_MODIFY_OR_CANCEL", "UNKNOWN_ORDER_ID"}
  BY DEF Codes, NamedErrors, GeneralErrors, RequestErrors, OrderErrors, TokenErrors
<1>8. \A e \in NamedErrors : e[1] \in Codes("busy") => e[2] \in {}
  BY DEF Codes, NamedErrors, GeneralErrors, RequestErrors, OrderErrors, TokenErrors
<1> QED
  BY <1>1, <1>2, <1>3, <1>4, <1>5, <1>6, <1>7, <1>8, Zenon

\* The error a reason leads to.
LEMMA ErrorsOfReasons ==
    /\ \A code \in Codes("side") : MapError(code) \in {"INVALID_SIDE"} \cup {"UNKNOWN"}
    /\ \A code \in Codes("type") : MapError(code) \in {"INVALID_ORDER_TYPE"} \cup {"UNKNOWN"}
    /\ \A code \in Codes("price") : MapError(code) \in {"INVALID_PRICE"} \cup {"UNKNOWN"}
    /\ \A code \in Codes("quantity") : MapError(code) \in {"INVALID_QUANTITY"} \cup {"UNKNOWN"}
    /\ \A code \in Codes("funds") : MapError(code) \in {"INSUFFICIENT_FUNDS"} \cup {"UNKNOWN"}
    /\ \A code \in Codes("over") : MapError(code) \in {"TOO_LATE_TO_MODIFY_OR_CANCEL"} \cup {"UNKNOWN"}
    /\ \A code \in Codes("not found") :
         MapError(code) \in {"TOO_LATE_TO_MODIFY_OR_CANCEL", "UNKNOWN_ORDER_ID"} \cup {"UNKNOWN"}
    /\ \A code \in Codes("busy") : MapError(code) \in {} \cup {"UNKNOWN"}
<1>1. \A reason \in ReasonWords : 0 \notin Codes(reason)
  BY CodesAreErrors
<1>2. \A code \in Codes("side") : MapError(code) \in {"INVALID_SIDE"} \cup {"UNKNOWN"}
  BY <1>1, EntriesOfReasons, ErrorsAmong DEF ReasonWords
<1>3. \A code \in Codes("type") : MapError(code) \in {"INVALID_ORDER_TYPE"} \cup {"UNKNOWN"}
  BY <1>1, EntriesOfReasons, ErrorsAmong DEF ReasonWords
<1>4. \A code \in Codes("price") : MapError(code) \in {"INVALID_PRICE"} \cup {"UNKNOWN"}
  BY <1>1, EntriesOfReasons, ErrorsAmong DEF ReasonWords
<1>5. \A code \in Codes("quantity") : MapError(code) \in {"INVALID_QUANTITY"} \cup {"UNKNOWN"}
  BY <1>1, EntriesOfReasons, ErrorsAmong DEF ReasonWords
<1>6. \A code \in Codes("funds") : MapError(code) \in {"INSUFFICIENT_FUNDS"} \cup {"UNKNOWN"}
  BY <1>1, EntriesOfReasons, ErrorsAmong DEF ReasonWords
<1>7. \A code \in Codes("over") : MapError(code) \in {"TOO_LATE_TO_MODIFY_OR_CANCEL"} \cup {"UNKNOWN"}
  BY <1>1, EntriesOfReasons, ErrorsAmong DEF ReasonWords
<1>8. \A code \in Codes("not found") : MapError(code) \in {"TOO_LATE_TO_MODIFY_OR_CANCEL", "UNKNOWN_ORDER_ID"} \cup {"UNKNOWN"}
  BY <1>1, EntriesOfReasons, ErrorsAmong DEF ReasonWords
<1>9. \A code \in Codes("busy") : MapError(code) \in {} \cup {"UNKNOWN"}
  BY <1>1, EntriesOfReasons, ErrorsAmong DEF ReasonWords
<1> QED
  BY <1>2, <1>3, <1>4, <1>5, <1>6, <1>7, <1>8, <1>9, Zenon

\* A response gives no wrong reason: an error exactly with a rejection, and for each reason
\* the error that stands for it, or UNKNOWN (utils.cpp:20-371).
THEOREM NoWrongReasonHolds == Spec => []NoWrongReason
<1>1. Init => ReasonInv
  <2> SUFFICES ASSUME Init PROVE ReasonInv
    OBVIOUS
  <2>1. Len(acks) = 0 /\ 1 .. 0 = {}
    BY DEF Init
  <2> QED
    BY <2>1, Zenon DEF Init, ReasonInv, AnswersMatch, ResponseMatches
<1>2. ReasonInv => NoWrongReason
  <2> SUFFICES ASSUME ReasonInv PROVE NoWrongReason
    OBVIOUS
  <2>1. DOMAIN Why = {"side", "type", "price", "quantity", "funds"}
    BY DEF Why
  <2>2. /\ Why["side"] = "INVALID_SIDE" /\ Why["type"] = "INVALID_ORDER_TYPE"
        /\ Why["price"] = "INVALID_PRICE" /\ Why["quantity"] = "INVALID_QUANTITY"
        /\ Why["funds"] = "INSUFFICIENT_FUNDS"
    BY DEF Why
  <2>3. CASE response = [request_status |-> "UNDEFINED", error |-> "UNDEFINED", reason |-> "none"]
    BY <2>1, <2>2, <2>3 DEF NoWrongReason
  <2>4. ASSUME NEW code \in Int, NEW reason \in ReasonWords \cup {"none"}, Matches(code, reason),
               response = [request_status |-> RequestStatus(code), error |-> MapError(code),
                           reason |-> reason]
        PROVE  NoWrongReason
    <3>1. /\ response.request_status = RequestStatus(code) /\ response.error = MapError(code)
          /\ response.reason = reason
      BY <2>4
    <3>2. response.request_status = "REJECTED" <=> response.error # "UNDEFINED"
      BY <3>1, EveryRejectionHasAnError, Zenon
    <3>3. CASE code = 0 /\ reason = "none"
      <4>1. response.error = "UNDEFINED" /\ response.reason = "none"
        BY <3>1, <3>3 DEF MapError
      <4> QED
        BY <2>1, <2>2, <3>2, <4>1 DEF NoWrongReason
    <3>4. CASE reason \in ReasonWords /\ code \in Codes(reason)
      <4>1. /\ reason = "side" => response.error \in {"INVALID_SIDE"} \cup {"UNKNOWN"}
            /\ reason = "type" => response.error \in {"INVALID_ORDER_TYPE"} \cup {"UNKNOWN"}
            /\ reason = "price" => response.error \in {"INVALID_PRICE"} \cup {"UNKNOWN"}
            /\ reason = "quantity" => response.error \in {"INVALID_QUANTITY"} \cup {"UNKNOWN"}
            /\ reason = "funds" => response.error \in {"INSUFFICIENT_FUNDS"} \cup {"UNKNOWN"}
            /\ reason = "over" => response.error \in {"TOO_LATE_TO_MODIFY_OR_CANCEL"} \cup {"UNKNOWN"}
            /\ reason = "not found" => response.error \in {"TOO_LATE_TO_MODIFY_OR_CANCEL", "UNKNOWN_ORDER_ID"} \cup {"UNKNOWN"}
            /\ reason = "busy" => response.error \in {} \cup {"UNKNOWN"}
        BY <3>1, <3>4, ErrorsOfReasons, Zenon
      <4>2. reason \in {"side", "type", "price", "quantity", "funds", "busy", "not found", "over"}
        BY <3>4 DEF ReasonWords
      <4> QED
        BY <2>1, <2>2, <3>1, <3>2, <4>1, <4>2 DEF NoWrongReason
    <3> QED
      BY <2>4, <3>3, <3>4 DEF Matches
  <2> QED
    BY <2>3, <2>4, Zenon DEF ReasonInv, ResponseMatches
<1> QED
  BY <1>1, <1>2, Inductive, ReasonsPreserved, PTL DEF Spec
=============================================================================
