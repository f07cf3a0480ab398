------------------------------ MODULE VirtualPages ------------------------------
(***************************************************************************)
(* class HierarchicalVirtualPageManager of turing/core/paging.py, with the *)
(* HierarchicalBitmapAllocator of csrc/turing_paged_memory.hpp that the    *)
(* prompts are allocated from when the native module is there.             *)
(*                                                                         *)
(* Tiers are numbered 1, 2, 3 for huge, medium and small.  A page table is *)
(* a sequence of entries; the KV tensors are left out, a token being the   *)
(* slot of the page that it is written to.                                 *)
(***************************************************************************)
EXTENDS Integers, FiniteSets, Sequences, SequencesExt, QueueOrder

CONSTANTS
  PagedSeqs,     (* sequence ids                                           *)
  TierSize,      (* tokens in a block of each tier; 512, 64, 16            *)
  TierBlocks,    (* blocks of each tier                                    *)
  MaxPrompt,     (* bound of the model on prompt lengths and rollbacks     *)
  NativeBuilds   (* the values that has_csrc may have                      *)

Tiers == 1 .. 3
Small == 3

ASSUME VirtualPagesAssumption ==
  /\ TierSize \in [Tiers -> Nat \ {0}] /\ TierBlocks \in [Tiers -> Nat]
  /\ MaxPrompt \in Nat /\ NativeBuilds \subseteq BOOLEAN

VARIABLES
  pageTable,     (* sequence_page_tables                                   *)
  freeBlocks,    (* free_blocks: the lists of the Python side              *)
  bitmapFree,    (* huge_free_, medium_free_, small_free_                  *)
  hasCsrc,       (* has_csrc                                               *)
  stored,        (* history: the tokens each sequence was given            *)
  forgotten      (* history: blocks of tables that a prompt has replaced   *)

pagingVars == <<pageTable, freeBlocks, bitmapFree, hasCsrc, stored, forgotten>>

PagingInit ==
  /\ pageTable = [s \in PagedSeqs |-> << >>]
  /\ freeBlocks = [t \in Tiers |-> [i \in 1 .. TierBlocks[t] |-> i - 1]]
  /\ bitmapFree = [t \in Tiers |-> 0 .. TierBlocks[t] - 1]
  /\ hasCsrc \in NativeBuilds
  /\ stored = [s \in PagedSeqs |-> 0]
  /\ forgotten = {}

PageEntry(t, b, n) == [tier |-> t, block |-> b, valid |-> n]

Least(a, b) == IF a <= b THEN a ELSE b

(* The numbers of a set in ascending order: the one such list.             *)
FromLowest(S) ==
  {f \in [1 .. Cardinality(S) -> S] : \A i, j \in DOMAIN f : i < j => f[i] < f[j]}

(* The free blocks of each tier in the order in which a prompt takes them. *)
PromptPools ==
  IF hasCsrc THEN {<<h, m, s>> : h \in FromLowest(bitmapFree[1]),
                                 m \in FromLowest(bitmapFree[2]), s \in FromLowest(bitmapFree[3])}
  ELSE {freeBlocks}

(* How many blocks of each tier a prompt of n tokens takes: the largest    *)
(* first, and small ones for the rest as far as they go.                   *)
PromptBlocks(pool, n) ==
  LET huge == Least(n \div TierSize[1], Len(pool[1]))
      rest == n - huge * TierSize[1]
      medium == Least(rest \div TierSize[2], Len(pool[2]))
      tail == rest - medium * TierSize[2]
      small == Least((tail + (TierSize[3] - 1)) \div TierSize[3], Len(pool[3]))
  IN <<huge, medium, small>>

(* k pages of a tier that have room for n tokens.                          *)
TierPages(pool, t, k, n) ==
  [i \in 1 .. k |-> PageEntry(t, pool[t][i], Least(TierSize[t], n - (i - 1) * TierSize[t]))]

(* Mutant: the last small page is marked full.                             *)
PromptPagesFull(pool, n) ==
  LET taken == PromptBlocks(pool, n)
      Pages(t) == TierPages(pool, t, taken[t], taken[t] * TierSize[t])
  IN Pages(1) \o Pages(2) \o Pages(3)

PromptPages(pool, n) ==
  LET taken == PromptBlocks(pool, n)
      rest == n - taken[1] * TierSize[1]
      tail == rest - taken[2] * TierSize[2]
  IN (TierPages(pool, 1, taken[1], n) \o TierPages(pool, 2, taken[2], rest))
       \o TierPages(pool, 3, taken[3], tail)

BlocksOf(table) == {<<table[i].tier, table[i].block>> : i \in DOMAIN table}

(* The tokens that so many blocks of each tier have room for.              *)
RoomIn(taken) ==
  (taken[1] * TierSize[1] + taken[2] * TierSize[2]) + taken[3] * TierSize[3]

TokensIn(table) ==
  LET upto[i \in 0 .. Len(table)] == IF i = 0 THEN 0 ELSE upto[i - 1] + table[i].valid
  IN upto[Len(table)]

(* allocate_prompt_pages(): the table that the sequence had is forgotten,  *)
(* and a prompt that finds too few blocks is cut without an error.         *)
AllocatePromptPages(s, n) ==
  \E pool \in PromptPools :
    LET taken == PromptBlocks(pool, n) IN
    /\ pageTable' = [pageTable EXCEPT ![s] = PromptPages(pool, n)]
    /\ stored' = [stored EXCEPT ![s] = Least(n, RoomIn(taken))]
    /\ forgotten' = forgotten \cup BlocksOf(pageTable[s])
    /\ IF hasCsrc
       THEN /\ bitmapFree' = [t \in Tiers |-> bitmapFree[t] \ Items(SubSeq(pool[t], 1, taken[t]))]
            /\ UNCHANGED freeBlocks
       ELSE /\ freeBlocks' = [t \in Tiers |-> SubSeq(pool[t], taken[t] + 1, Len(pool[t]))]
            /\ UNCHANGED bitmapFree
    /\ UNCHANGED hasCsrc

TailIsFull(table) ==
  table # << >> => table[Len(table)].valid >= TierSize[table[Len(table)].tier]

(* append_token(): into the tail page, or into a small block taken from    *)
(* the Python list, whichever allocator the prompt came from.  With none   *)
(* left it raises.                                                         *)
AppendToken(s) ==
  LET table == pageTable[s] IN
  /\ IF TailIsFull(table)
     THEN /\ freeBlocks[Small] # << >>
          /\ pageTable' = [pageTable EXCEPT ![s] =
                             Append(table, PageEntry(Small, Head(freeBlocks[Small]), 1))]
          /\ freeBlocks' = [freeBlocks EXCEPT ![Small] = Tail(@)]
     ELSE /\ pageTable' = [pageTable EXCEPT ![s][Len(table)].valid = @ + 1]
          /\ UNCHANGED freeBlocks
  /\ stored' = [stored EXCEPT ![s] = @ + 1]
  /\ UNCHANGED <<bitmapFree, hasCsrc, forgotten>>

(* The blocks of a tier in the table, in the order the table lists them.   *)
ListedBlocks(table, t) ==
  LET upto[i \in 0 .. Len(table)] ==
        IF i = 0 THEN << >>
        ELSE IF table[i].tier = t THEN Append(upto[i - 1], table[i].block) ELSE upto[i - 1]
  IN upto[Len(table)]

(* The lengths that the table may have once n tokens are discarded: every  *)
(* page behind them was rejected as a whole.                               *)
KeptPages(table, n) ==
  {k \in 0 .. Len(table) : TokensIn(SubSeq(table, k + 1, Len(table))) <= n}

(* rollback_tail(): whole pages go to the Python lists, tail first, and    *)
(* the page that is left at the end is shortened.                          *)
RollbackTail(s, n) ==
  LET table == pageTable[s]
      k == CHOOSE x \in KeptPages(table, n) : \A y \in KeptPages(table, n) : x <= y
      popped == SubSeq(table, k + 1, Len(table))
  IN /\ table # << >> /\ n > 0
     /\ pageTable' = [pageTable EXCEPT ![s] =
          [i \in 1 .. k |-> IF i = k
             THEN [table[i] EXCEPT !.valid = @ - (n - TokensIn(popped))] ELSE table[i]]]
     /\ freeBlocks' = [t \in Tiers |-> freeBlocks[t] \o ListedBlocks(Reverse(popped), t)]
     /\ stored' = [stored EXCEPT ![s] = IF @ >= n THEN @ - n ELSE 0]
     /\ UNCHANGED <<bitmapFree, hasCsrc, forgotten>>

(* free_sequence(): to the Python lists, also the blocks of a bitmap.      *)
FreeSequence(s) ==
  /\ pageTable[s] # << >>
  /\ pageTable' = [pageTable EXCEPT ![s] = << >>]
  /\ freeBlocks' = [t \in Tiers |-> freeBlocks[t] \o ListedBlocks(pageTable[s], t)]
  /\ stored' = [stored EXCEPT ![s] = 0]
  /\ UNCHANGED <<bitmapFree, hasCsrc, forgotten>>

PagingNext ==
  \E s \in PagedSeqs :
    \/ FreeSequence(s)
    \/ AppendToken(s)
    \/ \E n \in 0 .. MaxPrompt : AllocatePromptPages(s, n) \/ RollbackTail(s, n)

PagingSpec == PagingInit /\ [][PagingNext]_pagingVars

-----------------------------------------------------------------------------
(* The tokens of a sequence are at consecutive slots: every page but the   *)
(* last is full, none is empty, and together they hold what prompts,       *)
(* appends and rollbacks have left of the sequence.                        *)
TablesAreDense ==
  \A s \in PagedSeqs :
    /\ TokensIn(pageTable[s]) = stored[s]
    /\ \A i \in DOMAIN pageTable[s] :
         /\ pageTable[s][i].valid \in 1 .. TierSize[pageTable[s][i].tier]
         /\ i < Len(pageTable[s]) => pageTable[s][i].valid = TierSize[pageTable[s][i].tier]

(* The places where a block of a tier is: positions of the free list and   *)
(* of the page tables.                                                     *)
PlacesOf(t, b) ==
  {<<"free", i>> : i \in {j \in DOMAIN freeBlocks[t] : freeBlocks[t][j] = b}}
    \cup UNION {{<<s, i>> : i \in {j \in DOMAIN pageTable[s] :
                  pageTable[s][j].tier = t /\ pageTable[s][j].block = b}} : s \in PagedSeqs}

(* Without the native allocator a block is in one place: free, or one page *)
(* of one sequence.  Rollbacks and frees never hand out a block twice, and *)
(* the only blocks that leak are those of a table that a second prompt of  *)
(* the same sequence has replaced (allocate_prompt_pages, append_token,    *)
(* rollback_tail, free_sequence).                                          *)
PagesExact ==
  /\ TablesAreDense
  /\ ~hasCsrc => \A t \in Tiers : \A b \in 0 .. TierBlocks[t] - 1 :
       IF <<t, b>> \in forgotten THEN PlacesOf(t, b) = {}
       ELSE \E place \in PlacesOf(t, b) : PlacesOf(t, b) = {place}
=============================================================================
