------------------------------- MODULE MCSearch -------------------------------
(***************************************************************************)
(* Small instances of Search for TLC.                                      *)
(***************************************************************************)
EXTENDS Search

CONSTANTS i1, i2, i3

Everything == [ids |-> None, statuses |-> None, date_fields |-> {}, start_time |-> None,
        end_time |-> None, search_key_fields |-> {}, search_keys |-> <<>>,
        sort_by |-> <<>>, limit |-> 0]

Field(op) == [op |-> op, field |-> "your_value_object_a"]
Sort(order) == [order |-> order, field |-> "created_at"]

Keyed(op, keys) == [Everything EXCEPT !.search_key_fields = {Field(op)}, !.search_keys = keys]

Row(value, status, created_at) ==
    [value |-> value, status |-> status, created_at |-> created_at]

MCRows ==
    {Row(<<"a">>, "CREATED", 1), Row(<<"a", "b">>, "CREATED", 2), Row(<<"b", "a">>, "VOIDED", 2),
     Row(<<"b", "a">>, "CREATED", 3)}

MCTables == [Ids -> MCRows \cup {None}]

\* Every operator with one key, each filter, both orders and none, pages of one
\* and the export.
MCSearches ==
    {Keyed(op, <<<<"a">>>>) : op \in Operators}
    \cup {[Everything EXCEPT !.statuses = {"CREATED"}], [Everything EXCEPT !.ids = {i1, i3}],
          [Everything EXCEPT !.date_fields = {"created_at"}, !.start_time = 2, !.end_time = 2]}
    \cup {[Everything EXCEPT !.sort_by = <<Sort(o)>>, !.limit = 1] : o \in {"", "+", "-"}}
    \cup {[Keyed("starts", <<<<"a">>>>) EXCEPT !.sort_by = <<Sort("-")>>, !.limit = 1]}

\* Two keys.
TwoKeys == {Keyed(op, <<<<"a">>, <<"b">>>>) : op \in Operators}

\* The parameter's only value, as the REST handler hands it on.
RestDateRange == {[Everything EXCEPT !.date_fields = {"createdAt"}, !.start_time = 2]}
=============================================================================
