----------------------------- MODULE ApproxBag ------------------------------
(***************************************************************************)
(* What the filters of package bloom promise, without bits, counters or    *)
(* hashes: a bag of keys that answers membership with one-sided error.     *)
(* Every key in the bag is admitted; other keys may be admitted as well.   *)
(* Inserting never withdraws an admission, and deleting withdraws none of  *)
(* a key still in the bag.  bloom.CountingFilter implements all of it for  *)
(* callers that delete only what they inserted; bloom.Filter implements it *)
(* without Delete, FailedInsert and Reset.                                 *)
(***************************************************************************)
EXTENDS Integers

CONSTANTS Key, NoKey

VARIABLES
  bag,       \* how often each key was inserted and not deleted
  admitted,  \* the keys a query reports as present
  last       \* the last call and its answer

bagVars == <<bag, admitted, last>>

Present(b) == {key \in Key : b[key] > 0}

Answer(op, key, out) == last' = [op |-> op, key |-> key, out |-> out]

BagInit ==
  /\ bag = [key \in Key |-> 0]
  /\ admitted = {}
  /\ last = [op |-> "new", key |-> NoKey, out |-> "ok"]

Insert(key) ==
  /\ Answer("add", key, "ok")
  /\ bag' = [bag EXCEPT ![key] = @ + 1]
  /\ admitted' \in SUBSET Key
  /\ admitted \cup {key} \subseteq admitted'

\* An insertion that fails may leave keys admitted that are not in the bag.
FailedInsert(key) ==
  /\ Answer("add", key, "overflow")
  /\ admitted' \in SUBSET Key
  /\ admitted \subseteq admitted'
  /\ UNCHANGED bag

Delete(key) ==
  /\ Answer("remove", key, "hit")
  /\ bag[key] > 0
  /\ bag' = [bag EXCEPT ![key] = @ - 1]
  /\ Present(bag') \subseteq admitted'
  /\ admitted' \subseteq admitted

DeleteAbsent(key) ==
  /\ Answer("remove", key, "miss")
  /\ key \notin admitted
  /\ UNCHANGED <<bag, admitted>>

Query(key) ==
  /\ Answer("contains", key, IF key \in admitted THEN "hit" ELSE "miss")
  /\ UNCHANGED <<bag, admitted>>

Reset ==
  /\ Answer("clear", NoKey, "ok")
  /\ bag' = [key \in Key |-> 0]
  /\ admitted' = {}

BagNext ==
  \/ \E key \in Key : \/ Insert(key)
                      \/ FailedInsert(key)
                      \/ Delete(key)
                      \/ DeleteAbsent(key)
                      \/ Query(key)
  \/ Reset

BagSpec == BagInit /\ [][BagNext]_bagVars
=============================================================================
