-------------------------- MODULE CanonicalValues --------------------------
(***************************************************************************)
(* The two rules by which this code takes in data it did not build:        *)
(* canonicalValue (action-primitives.mjs, and its copies in                *)
(* policy-decision.mjs and policy-statement.mjs), and deepFreezeClone of   *)
(* the customer application (customer-records-schema.mjs).  Both walk a    *)
(* graph of objects and clone it; they differ in what they remember: one   *)
(* keeps every container it met, the other only those it is inside of.     *)
(*                                                                         *)
(* A heap maps a node to its kind and to the members it holds, in the      *)
(* order they are visited.  A member is a node or a scalar: "fine" for     *)
(* null, strings, booleans and finite numbers, "odd" for anything else.    *)
(***************************************************************************)
EXTENDS Naturals, Sequences, FiniteSets, SequencesExt

CONSTANT MaxDepth    \* MAX_DEPTH: containers may nest this deep

ASSUME MaxDepthAssumption == MaxDepth \in Nat \ {0}

Scalars == {"fine", "odd"}

(* "flawed": an ordinary object or array with a hole, an accessor, a       *)
(* symbol, a hidden, a refused or an extra key; "bare" and "exotic": an    *)
(* object of the null prototype and of any other; "derived": an array of a *)
(* subclass, or of another realm, that inherits the map of its Array;      *)
(* "mapless": an array that has no map, as one of the null prototype.      *)
Objects == {"object", "bare", "exotic"}
Arrays  == {"array", "derived", "mapless"}
Kinds   == Objects \cup Arrays \cup {"flawed"}

----------------------------------------------------------------------------
(* One step of canonicalValue: the verdict and the containers seen so far. *)
Refused(seen) == [ok |-> FALSE, seen |-> seen]
Passed(seen) == [ok |-> TRUE, seen |-> seen]

(* A mere cycle check: what a member's walk saw is forgotten.              *)
RECURSIVE CanonicalWalkForgetting(_, _, _, _)
CanonicalWalkForgetting(heap, member, depth, seen) ==
    IF member \in Scalars
    THEN IF member = "fine" THEN Passed(seen) ELSE Refused(seen)
    ELSE IF depth > MaxDepth \/ member \in seen \/ heap[member].kind \notin {"object", "array"}
    THEN Refused(seen)
    ELSE LET Visit(acc, m) ==
                 IF acc.ok
                 THEN [ok |-> CanonicalWalkForgetting(heap, m, depth + 1, acc.seen).ok,
                       seen |-> acc.seen]
                 ELSE acc
         IN  FoldLeft(Visit, Passed(seen \cup {member}), heap[member].members)

(* canonicalValue: `seen` is never cleared.                                *)
RECURSIVE CanonicalWalk(_, _, _, _)
CanonicalWalk(heap, member, depth, seen) ==
    IF member \in Scalars
    THEN IF member = "fine" THEN Passed(seen) ELSE Refused(seen)
    ELSE IF depth > MaxDepth \/ member \in seen \/ heap[member].kind \notin {"object", "array"}
    THEN Refused(seen)
    ELSE LET Visit(acc, m) ==
                 IF acc.ok THEN CanonicalWalk(heap, m, depth + 1, acc.seen) ELSE acc
         IN  FoldLeft(Visit, Passed(seen \cup {member}), heap[member].members)

CanonicalAnything(heap, member) == CanonicalWalk(heap, member, 1, {}).ok

(* canonicalObject: the root is an object and no array.                    *)
CanonicalObject(heap, member) ==
    /\ member \notin Scalars /\ heap[member].kind \notin Arrays
    /\ CanonicalAnything(heap, member)

(* isJsonPlainObject asks an object for its prototype; Array.isArray asks  *)
(* an array for nothing, but value.map(...) throws where there is no map.  *)
Unclonable == {"exotic", "mapless"}

(* deepFreezeClone and cloneJsonValue: `seen` holds the way from the root. *)
(* Own enumerable members are read, whatever else the container has.       *)
RECURSIVE FreezeClone(_, _, _)
FreezeClone(heap, member, seen) ==
    IF member \in Scalars
    THEN member = "fine"
    ELSE /\ member \notin seen
         /\ heap[member].kind \notin Unclonable
         /\ \A i \in DOMAIN heap[member].members :
               FreezeClone(heap, heap[member].members[i], seen \cup {member})

----------------------------------------------------------------------------
(* The reference: paths through the heap.                                  *)

Succ(heap, n) == {m \in DOMAIN heap : \E i \in DOMAIN heap[n].members : heap[n].members[i] = m}

(* The nodes at the end of the ways of k members that start in root.       *)
RECURSIVE AtDistance(_, _, _)
AtDistance(heap, root, k) ==
    IF k = 0 THEN {root} ELSE UNION {Succ(heap, n) : n \in AtDistance(heap, root, k - 1)}

Reachable(heap, root) == UNION {AtDistance(heap, root, k) : k \in 0 .. Cardinality(DOMAIN heap)}

(* A way as long as the heap is large passes a node twice.                 *)
Acyclic(heap, root) == AtDistance(heap, root, Cardinality(DOMAIN heap)) = {}

(* Where a reachable container holds node n.                               *)
Holders(heap, root, n) ==
    {<<p, i>> \in Reachable(heap, root) \X (1 .. 9) :
        i \in DOMAIN heap[p].members /\ heap[p].members[i] = n}

AllFine(heap, root) ==
    \A n \in Reachable(heap, root) : \A i \in DOMAIN heap[n].members : heap[n].members[i] # "odd"

IsTree(heap, root) ==
    \A n \in Reachable(heap, root) :
        Cardinality(Holders(heap, root, n)) = IF n = root THEN 0 ELSE 1

(* What canonicalValue accepts is a tree of ordinary containers, no deeper *)
(* than its bound: a cycle, a member repeated by reference and a container *)
(* that JSON.stringify would change are refused at any depth, and nothing  *)
(* else is.  deepFreezeClone accepts what has no cycle, no exotic object   *)
(* and no array without a map: members repeated by reference and arrays of *)
(* a subclass pass, which canonicalValue refuses; and a canonical payload  *)
(* always passes.                                                          *)
ClonesAreTrees(heap, root) ==
    /\ CanonicalAnything(heap, root) <=>
          /\ IsTree(heap, root) /\ AllFine(heap, root)
          /\ AtDistance(heap, root, MaxDepth) = {}
          /\ \A n \in Reachable(heap, root) : heap[n].kind \in {"object", "array"}
    /\ FreezeClone(heap, root, {}) <=>
          /\ Acyclic(heap, root) /\ AllFine(heap, root)
          /\ \A n \in Reachable(heap, root) : heap[n].kind \notin {"exotic", "mapless"}
    /\ CanonicalObject(heap, root) => FreezeClone(heap, root, {})
============================================================================
