------------------------------ MODULE SqlTable ------------------------------
(***************************************************************************)
(* __Table objects of one MySQL table: a program flags their fields with   *)
(* FieldOps, assigns values, copies them, and calls Insert, Delete, Modify *)
(* and Query, which write a statement from the flags and send it.          *)
(*                                                                         *)
(* A statement is what its clauses say; its text is left out but for what  *)
(* the server refuses.  Values are ones whose literal the server reads as  *)
(* written: module FieldValues has those it does not.  The server is       *)
(* external.  The primary key is a row's number, given by the server.      *)
(***************************************************************************)
EXTENDS Integers, Sequences

CONSTANTS
    Objects,    \* the table objects of the program
    FieldDefine,    \* fields_ but for the primary key: names, in order
    NotNull,    \* those declared NOT NULL without a default
    Values,     \* what a field may hold
    Empty,      \* what the field of a new object holds
    Null,       \* no value, in a row
    MaxRows,    \* bound: rows at a time
    MaxCalls    \* bound: calls of the program

Fields == {FieldDefine[i] : i \in DOMAIN FieldDefine}

ASSUME FieldsAssumption ==
    /\ \A i, j \in DOMAIN FieldDefine : FieldDefine[i] = FieldDefine[j] => i = j
    /\ NotNull \subseteq Fields
    /\ Empty \in Values /\ Null \notin Values

ASSUME BoundsAssumption == MaxRows \in Nat /\ MaxCalls \in Nat

VARIABLES
    obj,        \* condition_, com_ops_ and the value of each object's fields
    exists,     \* the table exists
    rows,       \* its rows, by primary key
    result,     \* Result of the last Query, by primary key
    calls,      \* number of calls so far
    flagged,    \* history: flags the program set on each object since it was
                \* made or cleared
    given       \* history: what each field was given by the program, or held
                \* in the table when that started

vars == <<obj, exists, rows, result, calls, flagged, given>>

FieldOps == {"INSERT", "MODIFY", "CONDITION"}

\* condition_ is a mask of them.
Flags == SUBSET FieldOps

ComOps == {"=", "<>"}

Tables ==
    [condition : [Fields -> Flags], com_ops : [Fields -> ComOps], value : [Fields -> Values]]

Columns == {col \in [Fields -> Values \cup {Null}] : \A f \in NotNull : col[f] # Null}

Keys == 1 .. MaxRows

NoFlags == [f \in Fields |-> {}]

NewTable ==
    [condition |-> NoFlags,
     com_ops   |-> [f \in Fields |-> "="],
     value     |-> [f \in Fields |-> Empty]]

\* The fields of table x flagged with op.
With(x, op) == {f \in Fields : op \in x.condition[f]}
-----------------------------------------------------------------------------
(***************************************************************************)
(* Statements: the values listed, the conditions joined with AND, and      *)
(* whether WHERE is written before these.                                  *)
(***************************************************************************)
Listed(x, op) == [f \in With(x, op) |-> x.value[f]]

Where(x) ==
    [f \in With(x, "CONDITION") |-> [com_ops |-> x.com_ops[f], value |-> x.value[f]]]

InsertSql(x) ==
    [set |-> Listed(x, "INSERT"), cond |-> <<>>, where |-> FALSE]

\* The conditions are appended to sql, and Where stays empty.
DeleteSql(x) ==
    [set |-> <<>>, cond |-> Where(x), where |-> FALSE]

ModifySql(x, val) ==
    [set |-> Listed(val, "MODIFY"), cond |-> Where(x), where |-> DOMAIN Where(x) # {}]

QuerySql(cond) ==
    [set |-> <<>>, cond |-> cond, where |-> DOMAIN cond # {}]

\* The rows that a statement selects; a comparison with NULL is not true.
Matches(v, c) == v # Null /\ (IF c.com_ops = "=" THEN v = c.value ELSE v # c.value)

Meets(col, cond) == \A f \in DOMAIN cond : Matches(col[f], cond[f])

Selected(s) == {k \in DOMAIN rows : Meets(rows[k], s.cond)}

\* The server refuses conditions without WHERE, and any use of a table that
\* does not exist.
Refused(s) == ~exists \/ (DOMAIN s.cond # {} /\ ~s.where)

-----------------------------------------------------------------------------
\* Any rows may be there when the program starts.
Init ==
    /\ obj = [o \in Objects |-> NewTable]
    /\ exists \in BOOLEAN
    /\ \E ks \in SUBSET Keys :
         /\ rows \in [ks -> Columns]
         /\ exists \/ ks = {}
    /\ result = <<>>
    /\ calls = 0
    /\ flagged = [o \in Objects |-> NoFlags]
    /\ given = [f \in Fields |-> {Empty} \cup ({rows[k][f] : k \in DOMAIN rows} \ {Null})]

Call ==
    /\ calls < MaxCalls
    /\ calls' = calls + 1

\* The program sets condition_, com_ops_ or the value of a field.
Flag(o, f, ops) ==
    /\ Call
    /\ obj' = [obj EXCEPT ![o].condition[f] = ops]
    /\ flagged' = [flagged EXCEPT ![o][f] = ops]
    /\ UNCHANGED <<exists, rows, result, given>>

SetComOps(o, f, op) ==
    /\ Call
    /\ obj' = [obj EXCEPT ![o].com_ops[f] = op]
    /\ UNCHANGED <<exists, rows, result, flagged, given>>

LoadFromStr(o, f, v) ==
    /\ Call
    /\ obj' = [obj EXCEPT ![o].value[f] = v]
    /\ given' = [given EXCEPT ![f] = @ \cup {v}]
    /\ UNCHANGED <<exists, rows, result, flagged>>

Cleared(x) == [x EXCEPT !.condition = NoFlags]

ClearCondition(o) ==
    /\ Call
    /\ obj' = [obj EXCEPT ![o] = Cleared(@)]
    /\ flagged' = [flagged EXCEPT ![o] = NoFlags]
    /\ UNCHANGED <<exists, rows, result, given>>

\* Mutant: the copy keeps the flags.
CopyOfFlagged(x) == x

\* __Table's copy constructor.
CopyOf(x) == Cleared(x)

\* Object p is made a copy of object o, or of a table in the Result.
Copy(o, p) ==
    /\ Call
    /\ \E x \in {obj[o]} \cup {result[k] : k \in DOMAIN result} :
         obj' = [obj EXCEPT ![p] = CopyOf(x)]
    /\ flagged' = [flagged EXCEPT ![p] = NoFlags]
    /\ UNCHANGED <<exists, rows, result, given>>
-----------------------------------------------------------------------------
Create ==
    /\ Call
    /\ exists' = TRUE
    /\ UNCHANGED <<obj, rows, result, flagged, given>>

Drop ==
    /\ Call
    /\ exists' = FALSE
    /\ rows' = <<>>
    /\ UNCHANGED <<obj, result, flagged, given>>

\* The row an INSERT adds: a field that is not listed gets NULL.
Inserted(s) ==
    [f \in Fields |-> IF f \in DOMAIN s.set THEN s.set[f] ELSE Null]

Insert(o) ==
    LET s == InsertSql(obj[o]) IN
    /\ Call
    /\ \/ /\ ~Refused(s) /\ Inserted(s) \in Columns
          /\ \E k \in Keys \ DOMAIN rows :
               rows' = [j \in DOMAIN rows \cup {k} |->
                          IF j = k THEN Inserted(s) ELSE rows[j]]
       \/ /\ Refused(s) \/ Inserted(s) \notin Columns
          /\ UNCHANGED rows
    /\ UNCHANGED <<obj, exists, result, flagged, given>>

Delete(o) ==
    LET s == DeleteSql(obj[o]) IN
    /\ Call
    /\ rows' = [k \in DOMAIN rows \ (IF Refused(s) THEN {} ELSE Selected(s)) |-> rows[k]]
    /\ UNCHANGED <<obj, exists, result, flagged, given>>

\* An UPDATE that lists nothing is refused.
Modify(o, p) ==
    LET s == ModifySql(obj[o], obj[p]) IN
    /\ Call
    /\ rows' = IF Refused(s) THEN rows ELSE
               [k \in DOMAIN rows |->
                  [f \in Fields |-> IF k \in Selected(s) /\ f \in DOMAIN s.set
                                    THEN s.set[f] ELSE rows[k][f]]]
    /\ UNCHANGED <<obj, exists, result, flagged, given>>

\* What the SELECT, of the names of the fields in their order, reads of row k.
Row(k) == [i \in DOMAIN FieldDefine |-> rows[k][FieldDefine[i]]]

Position(f) == CHOOSE i \in DOMAIN FieldDefine : FieldDefine[i] = f

\* Mutant: a column that is NULL takes no field.
LoadedPacked(x, row) ==
    LET got == SelectSeq(row, LAMBDA v : v # Null) IN
    [CopyOf(x) EXCEPT !.value =
        [f \in Fields |-> IF Position(f) \in DOMAIN got THEN got[Position(f)] ELSE x.value[f]]]

\* MysqlClient::Exec: a row in a copy of the table, column after column; NULL
\* is not loaded.
Loaded(x, row) ==
    [CopyOf(x) EXCEPT !.value =
        [f \in Fields |-> LET v == row[Position(f)] IN IF v = Null THEN x.value[f] ELSE v]]

\* Query with a condition the program writes, into a Result of its own.
Query(o, cond) ==
    LET s == QuerySql(cond) IN
    /\ Call
    /\ result' = [k \in (IF Refused(s) THEN {} ELSE Selected(s)) |-> Loaded(obj[o], Row(k))]
    /\ UNCHANGED <<obj, exists, rows, flagged, given>>

Conditions ==
    {<<>>} \cup {[g \in {f} |-> [com_ops |-> "=", value |-> v]] : f \in Fields, v \in Values}

Next ==
    \/ Create \/ Drop
    \/ \E o \in Objects :
         \/ \E f \in Fields : \/ \E ops \in Flags : Flag(o, f, ops)
                              \/ \E op \in ComOps : SetComOps(o, f, op)
                              \/ \E v \in Values : LoadFromStr(o, f, v)
         \/ ClearCondition(o)
         \/ Insert(o) \/ Delete(o)
         \/ \E p \in Objects : Copy(o, p) \/ Modify(o, p)
         \/ \E cond \in Conditions : Query(o, cond)

Spec == Init /\ [][Next]_vars
-----------------------------------------------------------------------------
\* Type invariant of the objects, the rows and the Result: every object holds
\* values that it can write back, also where its row has NULL.
TypeOK ==
    /\ obj \in [Objects -> Tables]
    /\ exists \in BOOLEAN
    /\ DOMAIN rows \subseteq Keys /\ \A k \in DOMAIN rows : rows[k] \in Columns
    /\ DOMAIN result \subseteq Keys /\ \A k \in DOMAIN result : result[k] \in Tables
    /\ calls \in 0 .. MaxCalls
    /\ flagged \in [Objects -> [Fields -> Flags]]
    /\ given \in [Fields -> SUBSET Values]

\* Row col meets every condition the program has flagged on object o.
MeetsFlagged(col, o) ==
    \A f \in Fields : "CONDITION" \in flagged[o][f] =>
        Matches(col[f], [com_ops |-> obj[o].com_ops[f], value |-> obj[o].value[f]])

\* Modify changes only rows that meet the conditions of the object it is called
\* on, and in them only fields that were flagged on its argument since that was
\* made or cleared, to its values: a copy does not bring the flags of its
\* original.  Nothing else changes a row that stays.
ModifiesOnlyFlagged ==
    [][\A k \in DOMAIN rows \cap DOMAIN rows' : rows'[k] # rows[k] =>
         \E o, p \in Objects :
           /\ Modify(o, p)
           /\ MeetsFlagged(rows[k], o)
           /\ \A f \in Fields : rows'[k][f] # rows[k][f] =>
                "MODIFY" \in flagged[p][f] /\ rows'[k][f] = obj[p].value[f]]_vars

\* A value stays with its field through any Inserts, Modifys, Querys and
\* copies, though Exec puts the columns of a row into fields by their place
\* and passes over those that are NULL: what an object, a row or a table of
\* the Result has for a field was given to a field of that name.
NoForeignValue ==
    \A f \in Fields :
      /\ \A o \in Objects : obj[o].value[f] \in given[f]
      /\ \A k \in DOMAIN rows : rows[k][f] \in given[f] \cup {Null}
      /\ \A k \in DOMAIN result : result[k].value[f] \in given[f]
=============================================================================
