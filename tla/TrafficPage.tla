----------------------------- MODULE TrafficPage -----------------------------
(***************************************************************************)
(* The result grid of the traffic log page: a collection replaces the      *)
(* records of the chosen proxies at the server, and its answer makes the   *)
(* grid anew; the grid reads blocks of rows as the user scrolls, each for  *)
(* the proxies chosen at that moment.  Collections take long: the user     *)
(* chooses other proxies meanwhile, goes away and comes back, and starts   *)
(* another.                                                                *)
(***************************************************************************)
EXTENDS Naturals

CONSTANTS
    Proxies,
    Blocks,      \* blocks of rows, by their start row
    First,       \* the block a new grid reads
    MaxCollects, \* bound on the collections
    MaxGrids,    \* bound on the grids, and on what fills them anew
    MaxActs      \* bound on the other acts of the user

PageAssumption == First \in Blocks /\ {MaxCollects, MaxGrids, MaxActs} \subseteq Nat

VARIABLES
    version,   \* the server: how often each proxy's records were replaced
    here,      \* the page is shown
    selection, \* the chosen proxies
    loading,   \* the collect button spins, and takes no click
    collects,  \* collections without an answer
    made,      \* collections so far
    grid,      \* tlGridApi and its cache; 0 is null
    grids,     \* grids and caches so far
    reads,     \* getRows under way
    shown,     \* the blocks that have come, as whose rows they are
    mixed,     \* history: other proxies were chosen since the cache began
    unheard,   \* history: records were replaced and the page was not told
    acts

vars == <<version, here, selection, loading, collects, made, grid, grids, reads, shown,
          mixed, unheard, acts>>
userVars == <<here, selection, loading, made, acts>>

Versions == [Proxies -> 0 .. MaxCollects]
Nothing == << >>
Empty == [b \in Blocks |-> Nothing]
Rows == [of : SUBSET Proxies, at : Versions]

TypeOK ==
    /\ version \in Versions
    /\ {here, loading, mixed, unheard} \subseteq BOOLEAN
    /\ selection \subseteq Proxies
    /\ collects \subseteq [id : 1 .. MaxCollects, of : SUBSET Proxies, served : BOOLEAN]
    /\ made \in 0 .. MaxCollects
    /\ grid \in 0 .. MaxGrids /\ grids \in 0 .. MaxGrids
    /\ reads \subseteq [grid : 1 .. MaxGrids, block : Blocks, of : SUBSET Proxies,
                        rows : Rows \cup {Nothing}]
    /\ shown \in [Blocks -> Rows \cup {Nothing}]
    /\ acts \in 0 .. MaxActs

Init ==
    /\ version = [p \in Proxies |-> 0]
    /\ here = TRUE /\ selection = Proxies /\ loading = FALSE
    /\ collects = {} /\ made = 0 /\ grid = 0 /\ grids = 0 /\ reads = {} /\ shown = Empty
    /\ mixed = FALSE /\ unheard = FALSE /\ acts = 0

Act == here /\ acts < MaxActs /\ acts' = acts + 1

-----------------------------------------------------------------------------
(* The grid.                                                               *)

getRows(g, b) == [grid |-> g, block |-> b, of |-> selection, rows |-> Nothing]

\* A new grid, or a new datasource: the cache is empty and reads its first
\* block; what the former one asked for is of no use any more.
NewCache ==
    /\ grids < MaxGrids /\ grids' = grids + 1 /\ grid' = grids'
    /\ shown' = Empty /\ reads' = {getRows(grid', First)}
    /\ mixed' = FALSE

destroyTlGrid == grid' = 0 /\ shown' = Empty /\ reads' = {} /\ UNCHANGED <<grids, mixed>>

Scroll(b) ==
    /\ Act /\ grid # 0 /\ shown[b] = Nothing
    /\ reads' = reads \cup {getRows(grid, b)}
    /\ UNCHANGED <<version, here, selection, loading, collects, made, grid, grids, shown,
                   mixed, unheard>>

\* refreshInfiniteCache: what is shown stays until it has been read again.
Refresh ==
    /\ Act
    /\ IF grid = 0 THEN NewCache
       ELSE /\ reads' = reads \cup {getRows(grid, b) : b \in {x \in Blocks : shown[x] # Nothing}}
            /\ UNCHANGED <<grid, grids, shown, mixed>>
    /\ UNCHANGED <<version, here, selection, loading, collects, made, unheard>>

\* tlQuickFilter, tlClearFiltersBtn
Refilter ==
    /\ Act /\ grid # 0 /\ NewCache
    /\ UNCHANGED <<version, here, selection, loading, collects, made, unheard>>

\* The server answers a read; without a selection the page itself does, with
\* no rows.
ReadServed(r) ==
    /\ r.rows = Nothing
    /\ reads' = (reads \ {r}) \cup {[r EXCEPT !.rows = [of |-> r.of, at |-> version]]}
    /\ UNCHANGED <<version, userVars, collects, grid, grids, shown, mixed, unheard>>

\* successCallback
ReadAnswered(r) ==
    /\ r.rows # Nothing /\ reads' = reads \ {r}
    /\ shown' = [shown EXCEPT ![r.block] = r.rows]
    /\ UNCHANGED <<version, userVars, collects, grid, grids, mixed, unheard>>

\* failCallback
ReadFails(r) ==
    /\ reads' = reads \ {r}
    /\ UNCHANGED <<version, userVars, collects, grid, grids, shown, mixed, unheard>>

-----------------------------------------------------------------------------
(* The page.                                                               *)

Select(S) ==
    /\ Act /\ S # selection
    /\ selection' = S /\ mixed' = TRUE
    /\ UNCHANGED <<version, here, loading, collects, made, grid, grids, reads, shown,
                   unheard>>

\* collectLogs
Collect ==
    /\ here /\ ~loading /\ selection # {}
    /\ made < MaxCollects /\ made' = made + 1
    /\ loading' = TRUE
    /\ collects' = collects \cup {[id |-> made', of |-> selection, served |-> FALSE]}
    /\ UNCHANGED <<version, here, selection, grid, grids, reads, shown, mixed, unheard, acts>>

\* The server replaces the records of the proxies it could reach.
CollectServed(c) ==
    /\ ~c.served
    /\ collects' = (collects \ {c}) \cup {[c EXCEPT !.served = TRUE]}
    /\ \E S \in SUBSET c.of :
          version' = [p \in Proxies |-> IF p \in S THEN version[p] + 1 ELSE version[p]]
    /\ UNCHANGED <<userVars, grid, grids, reads, shown, mixed, unheard>>

\* (Mutant: a grid that is there is kept.)
ShowsCollected_KeepsGrid == IF grid = 0 /\ here THEN NewCache
                            ELSE UNCHANGED <<grid, grids, reads, shown, mixed>>

\* The grid is made anew, on the page; elsewhere there is no place for it.
ShowsCollected == IF here THEN NewCache ELSE destroyTlGrid

CollectAnswered(c) ==
    /\ c.served /\ collects' = collects \ {c}
    /\ ShowsCollected
    /\ loading' = FALSE
    /\ UNCHANGED <<version, here, selection, made, unheard, acts>>

\* The request fails, before or after the server has dealt with it.
CollectFails(c) ==
    /\ collects' = collects \ {c}
    /\ loading' = FALSE
    /\ unheard' = (unheard \/ c.served)
    /\ UNCHANGED <<version, here, selection, made, grid, grids, reads, shown, mixed, acts>>

Leave ==
    /\ Act /\ here' = FALSE
    /\ UNCHANGED <<version, selection, loading, collects, made, grid, grids, reads, shown,
                   mixed, unheard>>

\* initTrafficLogs on fresh content: no grid, and a button that does not spin.
Return ==
    /\ ~here /\ here' = TRUE /\ loading' = FALSE
    /\ destroyTlGrid
    /\ UNCHANGED <<version, selection, collects, made, unheard, acts>>

Next ==
    \/ Collect
    \/ \E c \in collects : CollectServed(c) \/ CollectAnswered(c) \/ CollectFails(c)
    \/ \E r \in reads : ReadServed(r) \/ ReadAnswered(r) \/ ReadFails(r)
    \/ \E b \in Blocks : Scroll(b)
    \/ Refresh \/ Refilter
    \/ \E S \in SUBSET Proxies : Select(S)
    \/ Leave \/ Return

Spec == Init /\ [][Next]_vars

-----------------------------------------------------------------------------
(***************************************************************************)
(* Once every collection has been answered the grid shows none of the      *)
(* records they replaced, and its blocks are all of the same proxies;      *)
(* unless a collection failed after the server had dealt with it, or other *)
(* proxies were chosen since the grid began.                               *)
(***************************************************************************)
GridIsCurrent ==
    LET there == {b \in Blocks : shown[b] # Nothing} IN
    /\ here /\ collects = {} /\ ~unheard =>
          \A b \in there : \A p \in shown[b].of : shown[b].at[p] = version[p]
    /\ here /\ ~mixed => \A b, c \in there : shown[b].of = shown[c].of
=============================================================================
