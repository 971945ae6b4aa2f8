------------------------------ MODULE PagedList ------------------------------
(***************************************************************************)
(* A paged list of the web console: usePagedList.ts over an infinite query *)
(* of TanStack Query, and the pages `id < cursor ORDER BY id DESC LIMIT n` *)
(* of the server.  A row has its id before it is committed, so rows become *)
(* visible in any order.  A list is one filter of one page and one page    *)
(* size; another list is another entry of the cache.  A page is the set of *)
(* its rows: the query sorts them.                                         *)
(***************************************************************************)
EXTENDS Integers, Sequences, Functions, FiniteSetsExt

CONSTANTS Rows, Views, SizeOf, NoView

VARIABLES
  visible,             \* the rows that are committed
  paged,              \* each list in the cache: its pages, and the rows there were when they were begun
  loading,             \* each list: the fetch under way
  current, turn,       \* the list on screen, and the index of its page
  turning              \* the call of next() that waits: of which list, at which index

pagedVars == <<visible, paged, loading, current, turn, turning>>

Unread == [pages |-> <<>>, since |-> {}]
NoLoad == [mode |-> "none", pages |-> <<>>, since |-> {}, want |-> 0]
Init ==
  /\ visible \in SUBSET Rows
  /\ paged = [v \in Views |-> Unread]
  /\ \E v \in Views :
       /\ current = v
       /\ loading = [[u \in Views |-> NoLoad] EXCEPT ![v].mode = "all", ![v].want = 1]
  /\ turn = 0 /\ turning = [of |-> NoView, at |-> 0]

Commit(i) ==
  /\ i \notin visible
  /\ visible' = visible \cup {i}
  /\ UNCHANGED <<paged, loading, current, turn, turning>>

-----------------------------------------------------------------------------
\* Fetching: the pages of a list one after the other, or one page more

Cursor(pages) == IF pages = <<>> THEN 0 ELSE pages[Len(pages)].next
After(cursor) == {i \in visible : cursor = 0 \/ i < cursor}
(* The rows of S that have fewer than n newer ones.                        *)
Newest(S, n) ==
  {i \in S : ~\E newer \in Injection(1..n, S) : \A k \in 1..n : newer[k] > i}
PageAfter(v, cursor) ==
  LET items == Newest(After(cursor), SizeOf[v])
  IN  [items |-> items, next |-> IF items = After(cursor) THEN 0 ELSE Min(items)]

All(v) == [NoLoad EXCEPT !.mode = "all", !.want = IF paged[v].pages = <<>> THEN 1
                                                  ELSE Len(paged[v].pages)]
More(load) == /\ load.mode # "none" /\ Len(load.pages) < load.want
              /\ load.pages # <<>> => Cursor(load.pages) # 0
ReadPage(v) ==
  /\ More(loading[v])
  /\ LET load == loading[v]
     IN  loading' = [loading EXCEPT
           ![v].pages = Append(@, PageAfter(v, Cursor(load.pages))),
           ![v].since = IF load.pages = <<>> THEN visible ELSE @]
  /\ UNCHANGED <<visible, paged, current, turn, turning>>
Loaded(v) ==
  /\ loading[v].mode # "none" /\ ~More(loading[v])
  /\ paged' = [paged EXCEPT ![v] = [pages |-> loading[v].pages, since |-> loading[v].since]]
  /\ loading' = [loading EXCEPT ![v] = NoLoad]
  /\ UNCHANGED <<visible, current, turn, turning>>
LoadFails(v) ==
  /\ loading[v].mode # "none"
  /\ loading' = [loading EXCEPT ![v] = NoLoad]
  /\ UNCHANGED <<visible, paged, current, turn, turning>>

-----------------------------------------------------------------------------
\* Turning the pages

Index == IF paged[current].pages = <<>> THEN 0
         ELSE Min({turn, Len(paged[current].pages) - 1})
(* next() goes on as soon as what it waits for has ended, before the       *)
(* reader can do anything else.                                            *)
Returning == turning.of # NoView /\ loading[turning.of].mode = "none"
Ready == loading[current].mode = "none" /\ paged[current].pages # <<>> /\ ~Returning

Previous ==
  /\ Ready /\ Index > 0
  /\ turn' = Index - 1
  /\ UNCHANGED <<visible, paged, loading, current, turning>>
NextPage ==
  /\ Ready /\ turning.of = NoView
  /\ IF Index < Len(paged[current].pages) - 1
     THEN turn' = Index + 1 /\ UNCHANGED <<loading, turning>>
     ELSE /\ Cursor(paged[current].pages) # 0
          /\ loading' = [loading EXCEPT ![current] =
               [mode |-> "next", pages |-> paged[current].pages,
                since |-> paged[current].since, want |-> Len(paged[current].pages) + 1]]
          /\ turning' = [of |-> current, at |-> Index]
          /\ UNCHANGED turn
  /\ UNCHANGED <<visible, paged, current>>
(* What fetchNextPage returns is the result of the list on screen by then. *)
AnyList == TRUE
StillCurrent == turning.of = current
NextReturns ==
  /\ Returning
  /\ turn' = IF StillCurrent /\ Len(paged[current].pages) > turning.at + 1
             THEN turning.at + 1 ELSE turn
  /\ turning' = [of |-> NoView, at |-> 0]
  /\ UNCHANGED <<visible, paged, loading, current>>

(* Invalidated by a mutation, focus or retry: a fetch under way is given   *)
(* up for one of all the pages.                                            *)
Refetch ==
  /\ ~Returning
  /\ loading' = [loading EXCEPT ![current] = All(current)]
  /\ UNCHANGED <<visible, paged, current, turn, turning>>

(* Another filter or page size: the fetch of the list that is left is      *)
(* aborted, the new one is read again, all of what is cached of it.        *)
Switch(v) ==
  /\ v # current /\ ~Returning
  /\ current' = v /\ turn' = 0
  /\ loading' = [loading EXCEPT ![current] = NoLoad, ![v] = All(v)]
  /\ UNCHANGED <<visible, paged, turning>>

Next ==
  \/ \E i \in Rows : Commit(i)
  \/ \E v \in Views : ReadPage(v) \/ Loaded(v) \/ LoadFails(v) \/ Switch(v)
  \/ Refetch \/ Previous \/ NextPage \/ NextReturns
Spec == Init /\ [][Next]_pagedVars

-----------------------------------------------------------------------------
\* Properties

Pages == Seq([items : SUBSET Rows, next : Rows \cup {0}])
TypeOK ==
  /\ visible \subseteq Rows
  /\ paged \in [Views -> [pages : Pages, since : SUBSET Rows]]
  /\ loading \in [Views -> [mode : {"none", "all", "next"}, pages : Pages,
                            since : SUBSET Rows, want : Nat]]
  /\ current \in Views /\ turn \in Nat
  /\ turning \in [of : Views \cup {NoView}, at : Nat]

(* However rows are committed while a reader turns the pages, no row is    *)
(* shown twice, the pages are in order, and no row that was there when the *)
(* first page was read is skipped.                                         *)
RowsInOrder ==
  \A v \in Views :
    LET pages == paged[v].pages IN
    /\ \A m, n \in DOMAIN pages : m < n =>
         \A i \in pages[m].items, j \in pages[n].items : i > j
    /\ \A i \in paged[v].since, m \in DOMAIN pages : \A j \in pages[m].items :
         i >= j => \E n \in DOMAIN pages : i \in pages[n].items

(* The page on screen changes only by the reader: by one, forward or back, *)
(* or to the first page of another list; an answer to an earlier list does *)
(* not turn the pages of this one.                                         *)
PageTurns ==
  [][NextReturns /\ turn' # turn => turning.of = current /\ turn' = turn + 1]_pagedVars

(* What a reader of a list relies on.                                      *)
PagesRead == []RowsInOrder /\ PageTurns
=============================================================================
