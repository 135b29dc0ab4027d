------------------------------ MODULE PackingLoop ------------------------------
(***************************************************************************)
(* The reference for the packing operators of CustomerOrdersService: the   *)
(* two loops of autoCreateAndAllocate with their running `remaining`, one  *)
(* turn after the other.                                                   *)
(***************************************************************************)
EXTENDS Backend, Sequences

(* stmtPendingJobs: the pending jobs in the order of their ids.            *)
Before(p) == [j \in PendingJobs(p) |-> {i \in PendingJobs(p) : i < j}]

Queue(p) == Ordered(PendingJobs(p), Before(p))

(* A turn of for (const pj of pendingJobs) changes nothing when nothing    *)
(* remains (break) or the job has no space (continue).                     *)
Visit(p, loop, j) ==
  LET space == EffectiveCapacity(p) - Allocated(j)
      toAdd == Lesser(space, loop.remaining)
  IN  IF loop.remaining <= 0 \/ space <= 0 THEN loop
      ELSE [remaining |-> loop.remaining - toAdd, shares |-> With(loop.shares, j, toAdd)]

(* The jobs that get a share, and what remains after the loop.             *)
FillPending(p, need) ==
  LET n == Cardinality(PendingJobs(p))
      after[k \in 0 .. n] ==
        IF k = 0 THEN [remaining |-> need, shares |-> EmptyTable]
        ELSE Visit(p, after[k - 1], Queue(p)[k])
  IN  after[n]

(* A turn of while (remaining > 0), and the quantities of the new jobs: a  *)
(* turn takes a unit at least, so there are not more turns than units.     *)
Open(capacity, loop) ==
  LET batch == Lesser(capacity, loop.remaining)
  IN  IF loop.remaining <= 0 THEN loop
      ELSE [remaining |-> loop.remaining - batch, batches |-> Append(loop.batches, batch)]

OpenBatches(capacity, remaining) ==
  LET after[k \in 0 .. remaining] ==
        IF k = 0 THEN [remaining |-> remaining, batches |-> <<>>]
        ELSE Open(capacity, after[k - 1])
  IN  after[remaining].batches

(* Packed, BatchCount and Batch say what the loops do, for every pipeline  *)
(* with a capacity and every quantity up to twice the largest request.     *)
PackingFollowsLoop ==
  \A p \in DOMAIN pipelines, need \in 1 .. 2 * MaxUnits :
    EffectiveCapacity(p) # NULL =>
      LET filled  == FillPending(p, need)
          batches == OpenBatches(EffectiveCapacity(p), filled.remaining)
      IN  /\ \A j \in PendingJobs(p) :
               Packed(p, need, j) =
                 IF j \in DOMAIN filled.shares THEN filled.shares[j] ELSE 0
          /\ Len(batches) = BatchCount(p, need)
          /\ \A m \in DOMAIN batches : batches[m] = Batch(p, need, m - 1)
===============================================================================
