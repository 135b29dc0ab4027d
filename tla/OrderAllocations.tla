---------------------------- MODULE OrderAllocations ----------------------------
(***************************************************************************)
(* The card of one order line on the page of a customer order              *)
(* (EditableLineCard of CustomerOrderDetail, frontend/src/features/        *)
(* customer-orders/components): the user allocates items of jobs to the    *)
(* line, and removes allocations, from data that other users and the       *)
(* server change meanwhile.                                                *)
(***************************************************************************)
EXTENDS Integers, FiniteSetsExt, Totals

CONSTANTS
  CardJobs,      \* jobs that may exist
  JobQuantity,   \* their quantities
  Need           \* quantity of the line

NoPieces == 0
NoChoice == 0

ASSUME OrderAllocationsAssumption ==
  /\ NoChoice \notin CardJobs /\ CardJobs # {} /\ IsFiniteSet(CardJobs)
  /\ JobQuantity \in [CardJobs -> Nat \ {0}] /\ Need \in Nat \ {0}

VARIABLES
  stock,       \* server: job -> quantity, and what other lines have of it
  onLine,      \* server: job -> what this line has of it
  jobsSeen,    \* useJobs: job -> items not allocated, as last received
  lineSeen,    \* useCustomerOrder: job -> what this line has of it, as received
  card,        \* the card: chosen job, typed quantity (qty items, and a
               \* fraction of one more or not), error
  adding,      \* the POST that is not answered
  removing     \* the DELETE that is not answered

orderAllocationVars == <<stock, onLine, jobsSeen, lineSeen, card, adding, removing>>

EmptyEntry == [job |-> NoChoice, qty |-> NoPieces, fraction |-> FALSE, error |-> FALSE]

Most == Max({JobQuantity[j] : j \in CardJobs})

Pieces(f) == Total(DOMAIN f, f)

(* toJob: what is left of each job, over all order lines.                  *)
Left(j) ==
  stock[j].quantity - stock[j].elsewhere - IF j \in DOMAIN onLine THEN onLine[j] ELSE 0

JobsNow == [j \in DOMAIN stock |-> Left(j)]

OrderAllocationInit ==
  /\ \E S \in SUBSET CardJobs :
       stock = [j \in S |-> [quantity |-> JobQuantity[j], elsewhere |-> 0]]
  /\ onLine = [j \in {} |-> 0]
  /\ jobsSeen = JobsNow
  /\ lineSeen = onLine
  /\ card = EmptyEntry
  /\ adding = {} /\ removing = {}

-------------------------------------------------------------------------------

(* availableJobs: jobs of the product type of the line (the only ones the  *)
(* model has) that are not on the line and have items left.                *)
AvailableJobs == {j \in DOMAIN jobsSeen : j \notin DOMAIN lineSeen /\ jobsSeen[j] > 0}

Remaining == IF Need > Pieces(lineSeen) THEN Need - Pieces(lineSeen) ELSE 0

(* Faulty variant: the limit of the job is forgotten.                      *)
RemainingOnly == Remaining

(* effectiveMax: a line that has all it needs may get more.                *)
EffectiveMax ==
  IF card.job \notin AvailableJobs THEN 0
  ELSE IF Remaining > 0 /\ Remaining < jobsSeen[card.job] THEN Remaining
  ELSE jobsSeen[card.job]

-------------------------------------------------------------------------------

RefetchCard ==
  /\ \/ jobsSeen' = JobsNow /\ UNCHANGED lineSeen
     \/ lineSeen' = onLine /\ UNCHANGED jobsSeen
  /\ UNCHANGED <<stock, onLine, card, adding, removing>>

ChooseJob(j) ==
  /\ j \in AvailableJobs \cup {NoChoice}
  /\ card' = [EmptyEntry EXCEPT !.job = j]
  /\ UNCHANGED <<stock, onLine, jobsSeen, lineSeen, adding, removing>>

(* A number field without a form around it: fractions are not stopped.     *)
TypePieces(n, fraction) ==
  /\ card.job \in AvailableJobs             \* the field is disabled otherwise
  /\ card' = [card EXCEPT !.qty = n, !.fraction = fraction]
  /\ UNCHANGED <<stock, onLine, jobsSeen, lineSeen, adding, removing>>

(* handleAdd: a quantity that is empty, below one or over the limit is     *)
(* refused here.                                                           *)
ClickAllocate ==
  /\ adding = {} /\ card.job \in AvailableJobs
  /\ IF card.qty \in 1 .. EffectiveMax /\ (card.fraction => card.qty < EffectiveMax)
     THEN /\ adding' = {[job |-> card.job, qty |-> card.qty, fraction |-> card.fraction]}
          /\ card' = [card EXCEPT !.error = FALSE]
     ELSE /\ card' = [card EXCEPT !.error = TRUE]
          /\ UNCHANGED adding
  /\ UNCHANGED <<stock, onLine, jobsSeen, lineSeen, removing>>

(* createAllocationSchema: 400 unless the quantity is an integer.          *)
WholePieces(a) == ~a.fraction

(* addAllocationTx: 404, 422 if too few items are left, 409 if this job    *)
(* already is on the line.                                                 *)
CanAdd(a) ==
  /\ WholePieces(a)
  /\ a.job \in DOMAIN stock /\ a.job \notin DOMAIN onLine /\ a.qty <= Left(a.job)

AddOnServer(a) ==
  /\ CanAdd(a)
  /\ onLine' = [j \in DOMAIN onLine \cup {a.job} |-> IF j = a.job THEN a.qty ELSE onLine[j]]

(* The answer clears whatever is entered by now; an error, also of a lost  *)
(* answer, leaves it, and the same can be sent again.                      *)
AddAnswered(a) ==
  /\ adding' = adding \ {a}
  /\ \/ AddOnServer(a) /\ card' = EmptyEntry
     \/ /\ AddOnServer(a) \/ onLine' = onLine
        /\ card' = [card EXCEPT !.error = TRUE]
  /\ UNCHANGED <<stock, jobsSeen, lineSeen, removing>>

(* Remove, of an allocation the card shows; a failure shows nothing.       *)
ClickRemove(j) ==
  /\ removing = {} /\ j \in DOMAIN lineSeen
  /\ removing' = {j}
  /\ UNCHANGED <<stock, onLine, jobsSeen, lineSeen, card, adding>>

Without(f, j) == [k \in DOMAIN f \ {j} |-> f[k]]

RemoveAnswered(j) ==
  /\ removing' = removing \ {j}
  /\ onLine' \in {onLine, Without(onLine, j)}
  /\ UNCHANGED <<stock, jobsSeen, lineSeen, card, adding>>

-------------------------------------------------------------------------------

(* The other users: they allocate to other lines and to this one, remove   *)
(* allocations, and delete jobs, which removes their allocations.          *)
OtherAllocations ==
  /\ \E j \in DOMAIN stock :
       \/ /\ stock' = [stock EXCEPT ![j].elsewhere = IF @ = 0 /\ Left(j) > 0 THEN 1 ELSE 0]
          /\ UNCHANGED onLine
       \/ /\ \E n \in 1 .. Left(j) : AddOnServer([job |-> j, qty |-> n, fraction |-> FALSE])
          /\ UNCHANGED stock
       \/ /\ onLine' = Without(onLine, j) /\ onLine' # onLine
          /\ UNCHANGED stock
       \/ stock' = Without(stock, j) /\ onLine' = Without(onLine, j)
  /\ UNCHANGED <<jobsSeen, lineSeen, card, adding, removing>>

OrderAllocationNext ==
  \/ RefetchCard \/ ClickAllocate \/ OtherAllocations
  \/ \E j \in CardJobs \cup {NoChoice} : ChooseJob(j)
  \/ \E n \in 0 .. Most, fraction \in BOOLEAN : TypePieces(n, fraction)
  \/ \E j \in CardJobs : ClickRemove(j)
  \/ \E a \in adding : AddAnswered(a)
  \/ \E j \in removing : RemoveAnswered(j)

OrderAllocationSpec ==
  OrderAllocationInit /\ [][OrderAllocationNext]_orderAllocationVars

-------------------------------------------------------------------------------

(* The limits of the card agree with the checks of the server: a number of *)
(* items that the card lets through from data that still is true is not    *)
(* refused, whatever was shown, chosen and typed before (maxQty and        *)
(* effectiveMax against addAllocationTx).  Fractions of items, which the   *)
(* card lets through as well, are left to the schema of the server.        *)
FreshAllocationsAccepted ==
  [][adding' # adding /\ ClickAllocate /\ jobsSeen = JobsNow /\ lineSeen = onLine
       => \A a \in adding' : WholePieces(a) => CanAdd(a)]_orderAllocationVars
===============================================================================
