---------------------------- MODULE EdocatPaging ----------------------------
(***************************************************************************)
(* Reading a folder of eDoCat page by page (clients/edocat_client.py       *)
(* query_nodes).  The client learns from each answer how large the pages   *)
(* are and whether more follow; servers tell some of it, limit the size of *)
(* a page, repeat a page, or answer with what are no nodes at all; and     *)
(* other clients change the folder between two pages.                      *)
(*                                                                         *)
(* The names are told apart from those of other state machines, since the  *)
(* module is checked together with one.                                    *)
(***************************************************************************)
EXTENDS Naturals, SequencesExt

CONSTANTS
  PageNodes,   \* the nodes a folder may hold, as a sequence
  PageSize,    \* the size asked for at first
  MaxPages,    \* the client's limit
  Habits,      \* the ways servers answer, records as in HabitType
  MaxEdits     \* bound: changes by other clients

HabitType == [cap   : Nat \ {0},                      \* most nodes on a page
              tells : SUBSET {"size", "total", "next"},
              kind  : {"honest", "repeats", "junk"}]

ASSUME PagingConstantsOK ==
  /\ PageSize \in Nat \ {0} /\ MaxPages \in Nat \ {0} /\ MaxEdits \in Nat
  /\ Habits \subseteq HabitType
  /\ PageNodes \in Seq(ToSet(PageNodes)) /\ IsInjective(PageNodes)

VARIABLES
  folder,      \* the server's nodes, in its order
  habit,
  page, size,  \* the page asked for next and its size
  got,         \* aggregated_nodes
  signatures,  \* seen_page_signatures
  paging,      \* "asking", "done" or "failed"
  \* history
  opened,      \* the nodes when the query began
  edits        \* [added, removed]: changes since

pagingVars == <<folder, habit, page, size, got, signatures, paging, opened, edits>>

PagingInit ==
  /\ folder \in {SubSeq(PageNodes, 1, k) : k \in 0..Len(PageNodes)}
  /\ habit \in Habits
  /\ page = 0 /\ size = PageSize
  /\ got = <<>> /\ signatures = {}
  /\ paging = "asking"
  /\ opened = folder /\ edits = [added |-> 0, removed |-> 0]

-----------------------------------------------------------------------------
(* The server's answer to a page and size.                                 *)
Least(a, b) == IF a < b THEN a ELSE b

PageOf(nodes, p, n) == SubSeq(nodes, p * n + 1, Least(Len(nodes), (p + 1) * n))

Answer ==
  LET n == Least(size, habit.cap)
      p == IF habit.kind = "repeats" THEN 0 ELSE page
  IN [nodes |-> IF habit.kind = "junk" THEN <<>> ELSE PageOf(folder, p, n),
      count |-> IF habit.kind = "junk" THEN n ELSE Len(PageOf(folder, p, n)),
      size  |-> n,
      more  |-> habit.kind = "junk" \/ Len(folder) > (p + 1) * n,
      total |-> IF habit.kind = "junk" THEN Len(folder) + MaxPages * n ELSE Len(folder)]

(* What the client makes of it (_extract_page_size and the others): the    *)
(* told size replaces the one that was asked for, also for later pages.    *)
Mut_EffectiveSize(answer) == size
EffectiveSize(answer)     == IF "size" \in habit.tells THEN answer.size ELSE size

LastPage(answer, all) ==
  \/ "next" \in habit.tells /\ ~answer.more
  \/ "total" \in habit.tells /\ Len(all) >= answer.total
  \/ answer.count < EffectiveSize(answer)

NextPage(p)     == p + 1

Repeated(nodes) == nodes # <<>> /\ nodes \in signatures

AskPage ==
  LET answer == Answer
      all    == got \o answer.nodes
  IN
  /\ paging = "asking"
  /\ IF Repeated(answer.nodes)
     THEN paging' = "done" /\ UNCHANGED <<page, size, got, signatures>>
     ELSE /\ got' = all
          /\ signatures' = signatures \cup {answer.nodes}
          /\ IF LastPage(answer, all)
             THEN paging' = "done" /\ UNCHANGED <<page, size>>
             ELSE /\ page' = NextPage(page)
                  /\ size' = EffectiveSize(answer)
                  /\ paging' = IF NextPage(page) < MaxPages THEN "asking" ELSE "done"
  /\ UNCHANGED <<folder, habit, opened, edits>>

PageFails ==
  /\ paging = "asking" /\ paging' = "failed"
  /\ UNCHANGED <<folder, habit, page, size, got, signatures, opened, edits>>

(* Other clients add a node at any place, or remove one.                   *)
EditFolder ==
  /\ edits.added + edits.removed < MaxEdits
  /\ \/ \E k \in 1..(Len(folder) + 1), n \in ToSet(PageNodes) \ (ToSet(folder) \cup ToSet(opened)) :
          /\ folder' = InsertAt(folder, k, n)
          /\ edits' = [edits EXCEPT !.added = @ + 1]
     \/ \E k \in DOMAIN folder :
          /\ folder' = RemoveAt(folder, k)
          /\ edits' = [edits EXCEPT !.removed = @ + 1]
  /\ paging = "asking"
  /\ UNCHANGED <<habit, page, size, got, signatures, paging, opened>>

PagingNext == AskPage \/ PageFails \/ EditFolder

PagingSpec == PagingInit /\ [][PagingNext]_pagingVars

-----------------------------------------------------------------------------
(* The answer can be trusted to be the whole folder when the server is     *)
(* honest and limits its pages either not at all or tells so, and when the *)
(* folder fits in the pages the client is willing to read.                 *)
Complete ==
  /\ paging = "done" /\ habit.kind = "honest"
  /\ habit.cap >= PageSize \/ "size" \in habit.tells
  /\ Len(folder) <= MaxPages * Least(PageSize, habit.cap)

(* A quiet folder is read completely, in order and without repetition, and *)
(* a server that repeats itself adds its page once.  In a folder that      *)
(* changes meanwhile no node that was there from the start is missed, as   *)
(* long as nothing is removed and less than a page is added (one may be    *)
(* read twice).  Whatever changes, nothing is invented.                    *)
FolderIsRead ==
  LET quiet == edits.added = 0 /\ edits.removed = 0 IN
  /\ Complete /\ quiet => got = opened
  /\ habit.kind = "repeats" /\ quiet => IsInjective(got)
  /\ Complete /\ edits.removed = 0 /\ edits.added < Least(PageSize, habit.cap) =>
       ToSet(opened) \subseteq ToSet(got)
  /\ ToSet(got) \subseteq ToSet(PageNodes)

(* The loop ends whatever the server answers, after MaxPages at the latest.*)
PagingEnds == (paging = "asking") ~> (paging # "asking")
=============================================================================
