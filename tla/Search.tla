-------------------------------- MODULE Search --------------------------------
(***************************************************************************)
(* GET /your-aggregates and its export: the filters, the regular           *)
(* expression made of the search keys, the order, and a client that reads  *)
(* page after page while other requests write the table.                   *)
(*                                                                         *)
(* One search is two statements, the count and the page, each on what is   *)
(* committed when it runs.  Strings are sequences, for what a regular      *)
(* expression finds in them.                                               *)
(***************************************************************************)
EXTENDS Integers, FiniteSets, SequencesExt

CONSTANTS
    Ids,
    Rows,         \* the rows considered: [value, status, created_at]
    Tables,       \* the tables to begin with: [Ids -> Rows \cup {None}]
    Searches,     \* the requests considered (see SearchRequest)
    MaxWrites,    \* bound: how many transactions commit while the client reads
    None

Operators == {"", "starts", "ends", "equals"}

\* A search_key_field is [op, field], an element of sort_by [order, field].
\* What is not given is None; limit 0 is the export's, no limit.
SearchRequest(s) ==
    /\ s.ids = None \/ s.ids \subseteq Ids
    /\ \A f \in s.search_key_fields : f.op \in Operators
    /\ s.limit \in Nat

ASSUME TablesAssumption == Tables \subseteq [Ids -> Rows \cup {None}]

ASSUME SearchesAssumption == \A s \in Searches : SearchRequest(s)

\* Identifiers are UUIDs, and a created_at is a number of microseconds.
ASSUME IdsAssumption == IsFiniteSet(Ids)

ASSUME RowsAssumption == \A row \in Rows : row.created_at \in Int

ASSUME BoundAssumption == MaxWrites \in Nat

VARIABLES
    table,       \* the committed rows
    search,      \* what the client asks for
    pc,          \* the next statement, or "end"
    offset, total,
    results,     \* the last page: <<id, row>> in order
    pages,       \* the ids of all pages so far, in order
    first,       \* the table when the client began
    written,     \* the kinds of writes committed since
    writes

client == <<search, pc, offset, total, results, pages>>
vars == <<table, client, first, written, writes>>

Init ==
    /\ table \in Tables
    /\ search \in Searches
    /\ pc = "count"
    /\ offset = 0 /\ total = 0
    /\ results = <<>> /\ pages = <<>>
    /\ first = table
    /\ written = {} /\ writes = 0

-----------------------------------------------------------------------------
(* The statements *)

\* The columns of the repository's search_key_fields and sort_by_fields.
SearchKeyFields == {"your_value_object_a"}
SortByFields == {"created_at"}

\* Mutant: no anchor at the end.
SearchKeyRegexpOpenEnded(op, keys) ==
    [n \in DOMAIN keys |->
        [key |-> keys[n], from_start |-> n = 1 /\ op \in {"starts", "equals"}, to_end |-> FALSE]]

\* The keys joined by `|`, with `^` before the first and `$` after the last: an
\* anchor binds tighter than `|`, so it belongs to one alternative.
CreateSearchKeyRegexp(op, keys) ==
    [n \in DOMAIN keys |->
        [key |-> keys[n],
         from_start |-> n = 1 /\ op \in {"starts", "equals"},
         to_end |-> n = Len(keys) /\ op \in {"ends", "equals"}]]

\* v has key right after its first k characters.
FoundAt(key, v, k) == SubSeq(v, k + 1, k + Len(key)) = key

RegexpMatch(regexp, v) ==
    \E n \in DOMAIN regexp : LET alt == regexp[n] IN
        \E k \in 0 .. Len(v) - Len(alt.key) :
            /\ FoundAt(alt.key, v, k)
            /\ alt.from_start => k = 0
            /\ alt.to_end => k + Len(alt.key) = Len(v)

\* Fields that no column belongs to are dropped; with none left there is no
\* filter.
KeyFilter(s, row) ==
    LET fields == {f \in s.search_key_fields : f.field \in SearchKeyFields}
    IN s.search_keys # <<>> /\ fields # {} =>
        \E f \in fields : RegexpMatch(CreateSearchKeyRegexp(f.op, s.search_keys), row.value)

DateFilter(s, row) ==
    "created_at" \in s.date_fields =>
        /\ s.start_time # None => row.created_at >= s.start_time
        /\ s.end_time # None => row.created_at <= s.end_time

\* The ids the WHERE clause lets through.
Matching(t, s) ==
    {id \in Ids :
        /\ t[id] # None
        /\ s.ids # None => id \in s.ids
        /\ s.statuses # None => t[id].status \in s.statuses
        /\ DateFilter(s, t[id])
        /\ KeyFilter(s, t[id])}

\* The places of sort that name a column.
Known(sort) == {n \in DOMAIN sort : sort[n].field \in SortByFields}

\* Mutant: a field without a sign is dropped.
SortBySigned(sort) ==
    LET signed == {n \in Known(sort) : sort[n].order # ""}
    IN IF signed = {} THEN <<>> ELSE <<sort[Min(signed)]>>

\* The fields one can sort by, each the first time it is named (there is one).
CreateSortByExp(sort) ==
    IF Known(sort) = {} THEN <<>> ELSE <<sort[Min(Known(sort))]>>

\* What is asked for, or else "-created", which is no field: no order at all.
OrderBy(s) ==
    IF CreateSortByExp(s.sort_by) # <<>> THEN CreateSortByExp(s.sort_by)
    ELSE CreateSortByExp(<<[order |-> "-", field |-> "created"]>>)

InOrder(t, exp, ids) ==
    exp # <<>> =>
        \A a, b \in DOMAIN ids : a < b =>
            IF Head(exp).order = "-" THEN t[ids[a]].created_at >= t[ids[b]].created_at
            ELSE t[ids[a]].created_at <= t[ids[b]].created_at

\* Mutant: a page of one row too many.
SliceOneMore(s, off, ids) ==
    LET rest == SubSeq(ids, off + 1, Len(ids))
    IN IF s.limit > 0 /\ s.limit + 1 < Len(rest) THEN SubSeq(rest, 1, s.limit + 1) ELSE rest

\* OFFSET, and LIMIT unless that is 0.
Slice(s, off, ids) ==
    LET rest == SubSeq(ids, off + 1, Len(ids))
    IN IF s.limit > 0 /\ s.limit < Len(rest) THEN SubSeq(rest, 1, s.limit) ELSE rest

-----------------------------------------------------------------------------

Count ==
    /\ pc = "count"
    /\ total' = Cardinality(Matching(table, search))
    /\ pc' = "page"
    /\ UNCHANGED <<table, search, offset, results, pages, first, written, writes>>

\* The page, in an order that the ORDER BY allows.  The client goes on until a
\* page is short.
Page ==
    /\ pc = "page"
    /\ \E ids \in SetToSeqs(Matching(table, search)) :
        /\ InOrder(table, OrderBy(search), ids)
        /\ LET page == Slice(search, offset, ids)
               more == search.limit > 0 /\ Len(page) = search.limit
           IN /\ results' = [n \in DOMAIN page |-> <<page[n], table[page[n]]>>]
              /\ pages' = pages \o page
              /\ pc' = IF more THEN "count" ELSE "end"
              /\ offset' = IF more THEN offset + search.limit ELSE offset
    /\ UNCHANGED <<table, search, total, first, written, writes>>

\* Another request commits.  A created_at is the start of its transaction, so a
\* new row need not be the latest.
Write ==
    /\ pc # "end"
    /\ writes < MaxWrites
    /\ writes' = writes + 1
    /\ \E id \in Ids, row \in Rows \cup {None} :
        /\ row # table[id]
        /\ row # None /\ table[id] # None => row.created_at = table[id].created_at
        /\ table' = [table EXCEPT ![id] = row]
        /\ written' = written \cup {CASE table[id] = None -> "insert"
                                      [] row = None -> "delete"
                                      [] OTHER -> "update"}
    /\ UNCHANGED <<client, first>>

AllOver == pc = "end" /\ UNCHANGED vars

Next == Count \/ Page \/ Write \/ AllOver

Spec == Init /\ [][Next]_vars

-----------------------------------------------------------------------------
(* Properties *)

\* Types, and no page longer than was asked for.
TypeOK ==
    /\ table \in [Ids -> Rows \cup {None}]
    /\ pc \in {"count", "page", "end"}
    /\ offset \in Nat /\ total \in 0 .. Cardinality(Ids)
    /\ pages \in Seq(Ids)
    /\ \A n \in DOMAIN results : results[n] \in Ids \X Rows
    /\ search.limit > 0 => Len(results) <= search.limit

\* The description of searchKeyField: partial, prefix, suffix or exact match.
MatchesField(op, key, v) ==
    CASE op = "starts" -> IsPrefix(key, v)
      [] op = "ends"   -> IsSuffix(key, v)
      [] op = "equals" -> v = key
      [] OTHER         -> \E k \in 0 .. Len(v) - Len(key) : FoundAt(key, v, k)

MatchesKeys(s, v) ==
    \E f \in s.search_key_fields, n \in DOMAIN s.search_keys :
        MatchesField(f.op, s.search_keys[n], v)

\* A row that the descriptions of the parameters say the search finds.
Asked(s, row) ==
    /\ row # None
    /\ s.statuses # None => row.status \in s.statuses
    /\ s.date_fields # {} =>
        /\ s.start_time # None => s.start_time <= row.created_at
        /\ s.end_time # None => row.created_at <= s.end_time
    /\ s.search_keys # <<>> => MatchesKeys(s, row.value)

AskedIds ==
    {id \in Ids : (search.ids # None => id \in search.ids) /\ Asked(search, table[id])}

\* With one search key, the count and the page are of the rows asked for, as
\* they are committed at that statement, and of no others.
ResultsAreAsked ==
    [][Len(search.search_keys) <= 1 =>
        /\ pc = "count" /\ pc' = "page" => total' = Cardinality(AskedIds)
        /\ pc = "page" /\ pc' # "page" =>
            /\ \A n \in DOMAIN results' : results'[n][1] \in AskedIds
            /\ search.limit = 0 \/ Len(results') < search.limit =>
                    offset + Len(results') >= Cardinality(AskedIds)]_vars

\* The order asked for leaves no choice among these rows.
Ordered(t) ==
    /\ \E n \in DOMAIN search.sort_by : search.sort_by[n].field \in SortByFields
    /\ \A a, b \in Ids : t[a] # None /\ t[b] # None /\ a # b => t[a].created_at # t[b].created_at

\* If nothing is written meanwhile, a client that asks for an order without ties
\* gets every matching row once, and a total that says how many.
QuietPagesAreComplete ==
    pc = "end" /\ written = {} /\ Ordered(table) =>
        /\ ToSet(pages) = Matching(table, search)
        /\ Len(pages) = total

\* Rows created while the client reads hide none of the others from it, wherever
\* in the order they come in.
InsertsHideNothing ==
    pc = "end" /\ written \subseteq {"insert"} /\ Ordered(table) =>
        Matching(first, search) \subseteq ToSet(pages)

\* "Fields to search for searchKey": every result matches one of the keys in the
\* way its field asks for.
SearchKeysMatch ==
    search.search_keys # <<>> =>
        \A n \in DOMAIN results : MatchesKeys(search, results[n][2].value)

\* "Search date field", "Start time of date range": every result is in the range.
DateRangeIsApplied ==
    search.date_fields # {} =>
        \A n \in DOMAIN results :
            /\ search.start_time # None => results[n][2].created_at >= search.start_time
            /\ search.end_time # None => results[n][2].created_at <= search.end_time
=============================================================================
