------------------------------- MODULE KVPagePool -------------------------------
(***************************************************************************)
(* class StaticPagedKVPool of turing/core/paging.py.  Its free list is     *)
(* always in increasing order, so it is a set whose smallest page is       *)
(* popped first.                                                           *)
(***************************************************************************)
EXTENDS Integers, FiniteSets

CONSTANTS
  Requests,   (* request identifiers                                     *)
  MaxPages    (* max_total_pages                                         *)

ASSUME PagesAssumption == MaxPages \in Nat \ {0}

VARIABLES
  allocated_pages,   (* the pages of each request                        *)
  free_pages,        (* free_page_indices                                *)
  active_max_pages   (* the ceiling                                      *)

poolVars == <<allocated_pages, free_pages, active_max_pages>>

PagesInit ==
  /\ allocated_pages = [r \in Requests |-> {}]
  /\ free_pages = 0 .. MaxPages - 1
  /\ active_max_pages = MaxPages

Allocated == UNION {allocated_pages[r] : r \in Requests}

(* The n smallest free pages.                                              *)
LowestFree(n) == {p \in free_pages : Cardinality({q \in free_pages : q < p}) < n}

(* allocate_pages(); with too few free pages it raises and does nothing.   *)
AllocatePages(r, n) ==
  /\ n <= Cardinality(free_pages)
  /\ allocated_pages' = [allocated_pages EXCEPT ![r] = @ \cup LowestFree(n)]
  /\ free_pages' = free_pages \ LowestFree(n)
  /\ UNCHANGED active_max_pages

(* Mutant: a page above the ceiling is given back all the same.            *)
FreeAll(r) ==
  /\ free_pages' = free_pages \cup allocated_pages[r]
  /\ allocated_pages' = [allocated_pages EXCEPT ![r] = {}]
  /\ UNCHANGED active_max_pages

(* free_pages()                                                            *)
FreePages(r) ==
  /\ free_pages' = free_pages \cup {p \in allocated_pages[r] : p < active_max_pages}
  /\ allocated_pages' = [allocated_pages EXCEPT ![r] = {}]
  /\ UNCHANGED active_max_pages

Ceiling(n) == IF n > MaxPages THEN MaxPages ELSE IF n < 1 THEN 1 ELSE n

(* adjust_active_capacity()                                                *)
AdjustActiveCapacity(n) ==
  /\ active_max_pages' = Ceiling(n)
  /\ free_pages' = (0 .. Ceiling(n) - 1) \ Allocated
  /\ UNCHANGED allocated_pages

UsePages ==
  \E r \in Requests : FreePages(r) \/ \E n \in 1 .. MaxPages : AllocatePages(r, n)

PagesNext == UsePages \/ \E n \in 0 .. MaxPages : AdjustActiveCapacity(n)

PagesSpec == PagesInit /\ [][PagesNext]_poolVars

-----------------------------------------------------------------------------
(* The variables hold what the attributes can hold.                        *)
PagesTypeOK ==
  /\ allocated_pages \in [Requests -> SUBSET (0 .. MaxPages - 1)]
  /\ free_pages \subseteq 0 .. MaxPages - 1
  /\ active_max_pages \in 1 .. MaxPages

(* No page is lost and none is handed out twice: the free list is exactly  *)
(* what lies below the ceiling and is in nobody's hands, also when the     *)
(* ceiling was lowered below pages in use and raised again, and no two     *)
(* requests hold the same page (allocate_pages, free_pages,                *)
(* adjust_active_capacity).                                                *)
PagesAccounted ==
  /\ free_pages = (0 .. active_max_pages - 1) \ Allocated
  /\ \A r, s \in Requests : r # s => allocated_pages[r] \cap allocated_pages[s] = {}
=============================================================================
