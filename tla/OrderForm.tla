------------------------------- MODULE OrderForm -------------------------------
(***************************************************************************)
(* The form for a new customer order (CustomerOrdersPage and               *)
(* CustomerOrderForm, frontend/src/features/customer-orders/components).   *)
(*                                                                         *)
(* Each line has a product type, a quantity and a pipeline the user picks. *)
(* The pick is not sent: it only decides whether the line is shown as      *)
(* "Pipeline found" or as missing one.  The server looks for a pipeline by *)
(* the product type, as it was typed.  A pick belongs to the key of its    *)
(* line, so that it stays with the line when others are removed.           *)
(***************************************************************************)
EXTENDS Integers, Sequences

CONSTANTS
  OrderPipelines,  \* pipelines that may exist
  OrderTypes,      \* product types (strings)
  MaxKeys,         \* bound: lines one form creates
  MaxOrders,       \* bound: orders created
  MaxChanges       \* bound: edits of one form

NoPick == 0
Blank  == ""

ASSUME OrderFormAssumption ==
  /\ NoPick \notin OrderPipelines /\ Blank \notin OrderTypes
  /\ {MaxKeys, MaxOrders, MaxChanges} \subseteq Nat

VARIABLES
  catalog,     \* server: pipeline -> product type and whether it has a capacity
  fetched,     \* the pipelines the form last received
  view,        \* "list", "create" or "detail" (of the order just created)
  order,       \* the form: its lines, the next key, the number of edits
  picks,       \* pipelineByLineId: key -> pipeline
  posting,     \* requests for a new order that are not answered
  made         \* server: the orders, per line whether jobs were created

orderFormVars == <<catalog, fetched, view, order, picks, posting, made>>

NewLine(k) == [key |-> k, type |-> Blank, padded |-> FALSE, quantity |-> 1]

EmptyOrder(visit) ==
  [lines |-> <<NewLine(1)>>, next |-> 2, changes |-> 0, visit |-> visit, failed |-> FALSE]

NoPicks == [k \in 1 .. MaxKeys |-> NoPick]

OrderFormInit ==
  /\ \E S \in SUBSET OrderPipelines :
       \E ty \in [S -> OrderTypes] :
         \E cap \in [S -> BOOLEAN] :
           /\ \A p, q \in S : p # q => ty[p] # ty[q]
           /\ catalog = [p \in S |-> [type |-> ty[p], capacity |-> cap[p]]]
  /\ fetched = catalog
  /\ view = "list"
  /\ order = EmptyOrder(0)
  /\ picks = NoPicks
  /\ posting = {}
  /\ made = <<>>

-------------------------------------------------------------------------------

(* Faulty variant: the pick counts whatever the product type is now.       *)
StoredPick(line) == picks[line.key]

(* effectivePipelineIdForLine: the pick counts while it exists and has the *)
(* product type of the line, compared without the spaces around it.        *)
EffectivePick(line) ==
  LET p == picks[line.key]
  IN  IF p \in DOMAIN fetched /\ line.type \in {Blank, fetched[p].type} THEN p ELSE NoPick

(* "Pipeline found", for a line that has a product type and a quantity.    *)
SaysFound(line) == line.type # Blank /\ line.quantity >= 1 /\ EffectivePick(line) # NoPick

MissingPipelines ==
  {i \in DOMAIN order.lines :
     /\ order.lines[i].type # Blank /\ order.lines[i].quantity >= 1
     /\ EffectivePick(order.lines[i]) = NoPick}

(* The options of the select of a line.                                    *)
LineOptions(line) ==
  {p \in DOMAIN fetched : line.type \in {Blank, fetched[p].type}}

-------------------------------------------------------------------------------

NewOrder ==
  /\ view = "list"
  /\ view' = "create"
  /\ order' = EmptyOrder(order.visit + 1) /\ order.visit < MaxOrders
  /\ picks' = NoPicks
  /\ UNCHANGED <<catalog, fetched, posting, made>>

(* Cancel and Back stay enabled while the order is being created; onBack   *)
(* of the detail clears the selected order.                                *)
ShowOrders ==
  /\ view # "list"
  /\ view' = "list"
  /\ UNCHANGED <<catalog, fetched, order, picks, posting, made>>

Change(lines, next, newPicks) ==
  /\ view = "create" /\ order.changes < MaxChanges
  /\ order' = [order EXCEPT !.lines = lines, !.next = next, !.changes = @ + 1]
  /\ picks' = newPicks
  /\ UNCHANGED <<catalog, fetched, view, posting, made>>

ChangeLine(i, line) == Change([order.lines EXCEPT ![i] = line], order.next, picks)

TypeLine(i, t, padded) ==
  ChangeLine(i, [order.lines[i] EXCEPT !.type = t, !.padded = padded /\ t # Blank])

(* An empty or invalid number stands as 0.                                 *)
TypeQuantity(i, n) == ChangeLine(i, [order.lines[i] EXCEPT !.quantity = n])

PickPipeline(i, p) ==
  /\ p \in LineOptions(order.lines[i]) \cup {NoPick}
  /\ Change(order.lines, order.next, [picks EXCEPT ![order.lines[i].key] = p])

AddLine ==
  /\ order.next <= MaxKeys
  /\ Change(Append(order.lines, NewLine(order.next)), order.next + 1, picks)

RemoveLine(i) ==
  /\ Len(order.lines) > 1
  /\ Change([j \in 1 .. Len(order.lines) - 1 |-> order.lines[IF j < i THEN j ELSE j + 1]],
            order.next, [picks EXCEPT ![order.lines[i].key] = NoPick])

(* handleSubmit(onSubmit): createCustomerOrderSchema refuses empty fields. *)
(* found and was are histories: what the form says of each line.           *)
SubmitOrder ==
  /\ view = "create"
  /\ \A v \in posting : v.visit # order.visit           \* the button is disabled
  /\ \A i \in DOMAIN order.lines : order.lines[i].type # Blank /\ order.lines[i].quantity >= 1
  /\ posting' = posting \cup
       {[visit |-> order.visit, lines |-> order.lines,
         found |-> [i \in DOMAIN order.lines |->
                      IF SaysFound(order.lines[i]) THEN EffectivePick(order.lines[i]) ELSE NoPick],
         was   |-> fetched]}
  /\ order' = [order EXCEPT !.failed = FALSE]
  /\ UNCHANGED <<catalog, fetched, view, picks, made>>

-------------------------------------------------------------------------------

(* createOrderTx: UNIQUE(customer_order_id, product_type) refuses an order *)
(* with two lines of one type, which the form does not.                    *)
TypesDiffer(v) ==
  \A i, j \in DOMAIN v.lines :
    i # j => v.lines[i].type # v.lines[j].type \/ v.lines[i].padded # v.lines[j].padded

(* autoCreateAndAllocate: a pipeline of exactly this type, with a capacity.*)
MakesJobs(line) ==
  ~line.padded /\ \E p \in DOMAIN catalog : catalog[p].type = line.type /\ catalog[p].capacity

(* The callbacks of mutate run only while the form is mounted.             *)
FormOf(v) == view = "create" /\ order.visit = v.visit

OrderCreated(v) ==
  /\ TypesDiffer(v) /\ Len(made) < MaxOrders
  /\ made' = Append(made, [i \in DOMAIN v.lines |-> MakesJobs(v.lines[i])])
  /\ IF FormOf(v) THEN view' = "detail" /\ picks' = NoPicks ELSE UNCHANGED <<view, picks>>
  /\ order' = order

(* Refused, lost on its way, or the answer is lost: the form stays, with   *)
(* an error, and submitting again sends another order.                     *)
OrderNotCreated(v) ==
  /\ \/ made' = made
     \/ TypesDiffer(v) /\ Len(made) < MaxOrders
        /\ made' = Append(made, [i \in DOMAIN v.lines |-> MakesJobs(v.lines[i])])
  /\ order' = IF FormOf(v) THEN [order EXCEPT !.failed = TRUE] ELSE order
  /\ UNCHANGED <<view, picks>>

OrderStep(v) ==
  /\ posting' = posting \ {v}
  /\ OrderCreated(v) \/ OrderNotCreated(v)
  /\ UNCHANGED <<catalog, fetched>>

-------------------------------------------------------------------------------

RefetchCatalog ==
  /\ view # "list"
  /\ fetched' = catalog
  /\ UNCHANGED <<catalog, view, order, picks, posting, made>>

(* Others create, change and delete pipelines; types stay unique.          *)
OtherPipelines ==
  /\ \E p \in OrderPipelines :
       \/ catalog' = [q \in DOMAIN catalog \ {p} |-> catalog[q]]
       \/ \E t \in OrderTypes, c \in BOOLEAN :
            /\ \A q \in DOMAIN catalog \ {p} : catalog[q].type # t
            /\ catalog' = [q \in DOMAIN catalog \cup {p} |->
                             IF q = p THEN [type |-> t, capacity |-> c] ELSE catalog[q]]
  /\ UNCHANGED <<fetched, view, order, picks, posting, made>>

OrderFormNext ==
  \/ NewOrder \/ ShowOrders \/ AddLine \/ SubmitOrder \/ RefetchCatalog \/ OtherPipelines
  \/ \E i \in DOMAIN order.lines :
       \/ RemoveLine(i) \/ TypeQuantity(i, 0) \/ TypeQuantity(i, 1)
       \/ \E t \in OrderTypes \cup {Blank}, padded \in BOOLEAN : TypeLine(i, t, padded)
       \/ \E p \in OrderPipelines \cup {NoPick} : PickPipeline(i, p)
  \/ \E v \in posting : OrderStep(v)

OrderFormSpec == OrderFormInit /\ [][OrderFormNext]_orderFormVars

-------------------------------------------------------------------------------

(* Where the form said "Pipeline found", creating the order creates jobs   *)
(* for the line, however its product type and the other lines changed      *)
(* after the pipeline was picked: if nobody changed that pipeline in the   *)
(* meantime, it has a capacity, and the product type was typed without     *)
(* spaces around it (the form ignores them, the server does not).          *)
FoundLineServed(v, i) ==
  LET p == v.found[i]
  IN  /\ p # NoPick /\ p \in DOMAIN catalog /\ catalog[p] = v.was[p]
      /\ catalog[p].capacity /\ ~v.lines[i].padded
      => made'[Len(made')][i]

FoundLinesAreServed ==
  [][\A v \in posting :
       OrderStep(v) /\ Len(made') > Len(made)
         => \A i \in DOMAIN v.lines : FoundLineServed(v, i)]_orderFormVars
===============================================================================
