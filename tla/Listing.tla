------------------------------- MODULE Listing -------------------------------
(***************************************************************************)
(* Listings of artifacts and of jobs: which rows a query shows, on the SQL *)
(* backends and on Mongo, and how a client walks them page by page while   *)
(* rows are inserted, deleted, relabelled and given another sort key. A    *)
(* page is the first Limit rows beyond the cursor, and the cursor is the   *)
(* sort key and id of the last row of the page before.                     *)
(*                                                                         *)
(* Tags and metadata are filtered alike and are both values here. The sort *)
(* key is any of SORTS and JOB_SORTS, a number; a job without a duration   *)
(* sorts as -1.                                                            *)
(***************************************************************************)
EXTENDS Integers, FiniteSets

CONSTANTS
    RowId,      \* ids, which break ties
    SortKey,
    Holder,     \* tenants
    Value,      \* tags, and metadata as <<key, value>>
    ScopeOf,    \* the values a tenant's scope asks for
    Limit,
    CountCap,   \* COUNT_CAP
    Labelling,  \* bound: the labels an image may have
    Queries,    \* bound: the queries of the walk
    MaxChanges,
    Operator    \* the holder of an unrestricted key

ASSUME ListingAssumption ==
    /\ RowId \subseteq Int /\ IsFiniteSet(RowId) /\ SortKey \subseteq Int
    /\ Limit \in Nat \ {0} /\ CountCap \in Nat /\ MaxChanges \in Nat
    /\ ScopeOf \in [Holder -> (SUBSET Value) \ {{}}] /\ Operator \notin Holder

Label == Holder \X Value
Query == [holder : Holder \union {Operator}, values : SUBSET Value]

ASSUME QueriesAssumption ==
    /\ RowId # {} /\ SortKey # {}
    /\ Labelling \subseteq SUBSET Label /\ Queries \subseteq Query

VARIABLES
    rows,       \* per id: whether there is a row, its sort key and its labels
    walk,       \* the client: its query, direction and cursor
    listed,     \* how often each row was on a page, for properties
    steady,     \* rows nothing has happened to since the walk began
    changes

listingVars == <<rows, walk, listed, steady, changes>>

Row   == [there : BOOLEAN, key : SortKey, labels : Labelling]
Walk  == [pc : {"idle", "paging", "ended"}, query : Query, desc : BOOLEAN,
          key : SortKey, id : RowId, first : BOOLEAN, total : Nat, capped : BOOLEAN]

ListingTypeOK ==
    /\ rows \in [RowId -> Row]
    /\ walk \in Walk
    /\ listed \in [RowId -> Nat]
    /\ steady \subseteq RowId
    /\ changes \in 0..MaxChanges

-----------------------------------------------------------------------------
(* What a query shows *)

Scoped(q) == q.holder # Operator

\* Scope.sql: an EXISTS for each value the scope names, of its own tenant.
ScopeSql(ls, q) ==
    Scoped(q) => \A v \in ScopeOf[q.holder] : <<q.holder, v>> \in ls

\* query_artifacts: an EXISTS for each value asked for, of the key's tenant or,
\* unrestricted, of any.
ShownSql(ls, q) ==
    /\ \A v \in q.values : \E l \in ls : l[2] = v /\ (Scoped(q) => l[1] = q.holder)
    /\ ScopeSql(ls, q)

\* The copy that Mongo keeps: for each tenant with a label, all it has.
Lbl(ls) == {[tenant |-> l[1], values |-> {v \in Value : <<l[1], v>> \in ls}] : l \in ls}

\* Mutant: the tenant is matched in one entry and the values in any.
ScopeSplit(ls, q) ==
    Scoped(q) => /\ \E e \in Lbl(ls) : e.tenant = q.holder
                 /\ \A v \in ScopeOf[q.holder] : \E e \in Lbl(ls) : v \in e.values

\* _scope_filter: one entry has it all.
ScopeMongo(ls, q) ==
    Scoped(q) => \E e \in Lbl(ls) : e.tenant = q.holder /\ ScopeOf[q.holder] \subseteq e.values

\* query_artifacts over the copy: each value from an entry of its own.
ShownMongo(ls, q) ==
    /\ \A v \in q.values :
          \E e \in Lbl(ls) : v \in e.values /\ (Scoped(q) => e.tenant = q.holder)
    /\ ScopeMongo(ls, q)

\* scope_allows_sha, for single records.
AllowsSha(ls, q) ==
    Scoped(q) => ScopeOf[q.holder] \subseteq {l[2] : l \in {k \in ls : k[1] = q.holder}}

Shown(r, q) == rows[r].there /\ ShownSql(rows[r].labels, q)

-----------------------------------------------------------------------------
(* The walk *)

ListingInit ==
    /\ \E shape \in [RowId -> SortKey \X Labelling] :
          rows = [r \in RowId |-> [there |-> shape[r][2] # {}, key |-> shape[r][1],
                                   labels |-> shape[r][2]]]
    /\ \E q \in Queries, desc \in BOOLEAN :
          walk = [pc |-> "idle", query |-> q, desc |-> desc, total |-> 0,
                  key |-> CHOOSE k \in SortKey : TRUE, id |-> CHOOSE r \in RowId : TRUE,
                  first |-> TRUE, capped |-> FALSE]
    /\ listed = [r \in RowId |-> 0]
    /\ steady = {}
    /\ changes = 0

\* ORDER BY key, id, in the direction of the walk.
Precedes(k, r, l, s) ==
    IF walk.desc THEN k > l \/ (k = l /\ r > s) ELSE k < l \/ (k = l /\ r < s)

\* Mutant: rows with the key of the last one are taken to be on its page.
BeyondKey(r) == walk.first \/ (walk.key # rows[r].key
                               /\ Precedes(walk.key, walk.id, rows[r].key, r))

Beyond(r) == walk.first \/ Precedes(walk.key, walk.id, rows[r].key, r)

Candidates == {r \in RowId : Shown(r, walk.query) /\ Beyond(r)}
Ahead(r, s) == Precedes(rows[r].key, r, rows[s].key, s)

\* The first page asks for the count too, and stops counting past the cap.
Counted ==
    LET n == Cardinality({r \in RowId : Shown(r, walk.query)})
    IN  walk' = [walk EXCEPT !.pc = "paging", !.total = IF n > CountCap THEN CountCap ELSE n,
                             !.capped = n > CountCap]

Begin ==
    /\ walk.pc = "idle"
    /\ Counted
    /\ steady' = RowId
    /\ UNCHANGED <<rows, listed, changes>>

\* One row more than the limit is read, to know whether there is another page.
Full(page)  == /\ page \subseteq Candidates /\ Cardinality(page) = Limit
               /\ Candidates \ page # {}
               /\ \A r \in page, s \in Candidates \ page : Ahead(r, s)
Final(page) == page = Candidates /\ Cardinality(page) <= Limit
Last(page)  == CHOOSE r \in page : \A s \in page \ {r} : Ahead(s, r)

Listed(page) == listed' = [r \in RowId |-> IF r \in page THEN listed[r] + 1 ELSE listed[r]]

NextPage(page) ==
    /\ walk.pc = "paging" /\ Full(page)
    /\ walk' = [walk EXCEPT !.key = rows[Last(page)].key, !.id = Last(page), !.first = FALSE]
    /\ Listed(page)
    /\ UNCHANGED <<rows, steady, changes>>

LastPage(page) ==
    /\ walk.pc = "paging" /\ Final(page)
    /\ walk' = [walk EXCEPT !.pc = "ended"]
    /\ Listed(page)
    /\ UNCHANGED <<rows, steady, changes>>

-----------------------------------------------------------------------------
(* Meanwhile *)

Changed(r) ==
    /\ walk.pc = "paging" /\ changes < MaxChanges
    /\ changes' = changes + 1
    /\ steady' = steady \ {r}
    /\ UNCHANGED <<walk, listed>>

\* A row is inserted; it may be a job that has no duration yet.
Insert(r, k, ls) ==
    /\ ~rows[r].there
    /\ rows' = [rows EXCEPT ![r] = [there |-> TRUE, key |-> k, labels |-> ls]]
    /\ Changed(r)

Delete(r) ==
    /\ rows[r].there
    /\ rows' = [rows EXCEPT ![r].there = FALSE]
    /\ Changed(r)

\* The job ends, or the artifact is redacted again: another sort key.
Move(r, k) ==
    /\ rows[r].there /\ rows[r].key # k
    /\ rows' = [rows EXCEPT ![r].key = k]
    /\ Changed(r)

Relabel(r, ls) ==
    /\ rows[r].there /\ rows[r].labels # ls
    /\ rows' = [rows EXCEPT ![r].labels = ls]
    /\ Changed(r)

ListingNext ==
    \/ Begin
    \/ \E page \in SUBSET RowId : NextPage(page) \/ LastPage(page)
    \/ \E r \in RowId :
          \/ Delete(r)
          \/ \E k \in SortKey : Move(r, k)
          \/ \E ls \in Labelling :
                Relabel(r, ls) \/ \E k \in SortKey : Insert(r, k, ls)

ListingSpec == ListingInit /\ [][ListingNext]_listingVars

-----------------------------------------------------------------------------

\* A row that nothing happens to while a client walks the pages is on exactly
\* one of them, if the query shows it, and on none otherwise, whatever is
\* inserted, deleted, relabelled or moved around it, equal sort keys and a
\* deleted cursor row included (query_artifacts: OFFSET is "WRONG under
\* concurrent inserts, because rows shift between pages").
SteadyListedOnce ==
    walk.pc = "ended" =>
        \A r \in steady : listed[r] = IF Shown(r, walk.query) THEN 1 ELSE 0

\* SQL and Mongo show a key the same rows, and it may read alone exactly what
\* it is shown in a list: the EXISTS of every label and the single $elemMatch
\* over the copy say the same of every row (_scope_filter: "the structural
\* equivalent of the SQL side").
BackendsAgree ==
    \A ls \in {rows[r].labels : r \in RowId}, q \in Query :
        /\ ShownMongo(ls, q) <=> ShownSql(ls, q)
        /\ AllowsSha(ls, q) <=> ScopeSql(ls, q)
=============================================================================
